--------------------------- MODULE MCHostSession ---------------------------
(* The instances of HostSession that TLC checks.                           *)
EXTENDS HostSession

AllFaults == Fault
NoFault   == {"none"}
============================================================================
