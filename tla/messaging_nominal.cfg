SPECIFICATION FairSpec
CONSTANTS
  Threads = {t1, t2}
  Effects = {e1, e2}
  LocalOnly = {"CreateInstance"}
  MaxCalls = 3
  None = None
  PeerMayCrash = FALSE
  RecvMayFail = FALSE
  SleepSuffices = TRUE
INVARIANTS OneActionInFlight RepliesMatch NoMessageLost
PROPERTIES CallsReturn ActsAsRemote
