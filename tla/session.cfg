SPECIFICATION FairSessionSpec
CONSTANTS
  MaxPlugins = 2
  BundleSizes = {0, 1, 2}
  Faults <- AllFaults
  MaxCalls = 3
  None = None
  AssertsOn = FALSE
  PairMayNotBind = TRUE
  Instances = {x}
INVARIANTS
  NoTerminate AllOrNothing LaunchSucceeds OfferedFilled CarefulHostSafe
PROPERTIES
  PluginsFixed SetHostReturns
