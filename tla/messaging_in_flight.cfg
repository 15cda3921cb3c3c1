SPECIFICATION Spec
CONSTANTS
  Threads = {t1, t2}
  Effects = {e1, e2}
  LocalOnly = {"CreateInstance"}
  MaxCalls = 3
  None = None
  PeerMayCrash = FALSE
  RecvMayFail = TRUE
  SleepSuffices = TRUE
INVARIANT OneActionInFlight
