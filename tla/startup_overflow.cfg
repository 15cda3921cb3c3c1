SPECIFICATION Spec
CONSTANTS
  MaxPlugins = 2
  BundleSizes = {3}
  Faults <- NoFault
  MaxCalls = 1
  None = None
  AssertsOn = TRUE
  PairMayNotBind = FALSE
INVARIANTS
  PluginsFit
