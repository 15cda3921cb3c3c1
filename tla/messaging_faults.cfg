SPECIFICATION FairSpec
CONSTANTS
  Threads = {t1, t2}
  Effects = {e1, e2}
  LocalOnly = {}
  MaxCalls = 2
  None = None
  PeerMayCrash = TRUE
  RecvMayFail = TRUE
  SleepSuffices = FALSE
INVARIANTS NothingDuplicated
PROPERTIES OnlyRepliesBlock AnswerableCallsReturn
CHECK_DEADLOCK FALSE
