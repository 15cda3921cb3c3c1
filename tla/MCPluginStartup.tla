--------------------------- MODULE MCPluginStartup ---------------------------
(* The instances of PluginStartup that TLC checks.                           *)
EXTENDS PluginStartup

AllFaults == Fault
NoFault   == {"none"}
==============================================================================
