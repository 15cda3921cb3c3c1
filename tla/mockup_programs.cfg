SPECIFICATION FairSpec
CONSTANTS
  Main = main
  Workers = {w1, w2}
  MaxCalls = 4
  Programs = {"main.py", "proxy_plugin.py"}
  Pythons = {"3.10", "3.11"}
  SleepSuffices = TRUE
  HostMayFail = TRUE
  None = None
INVARIANTS AnswersMatch
PROPERTIES PoolReturns StartReturns AnnouncedIsReady ActsAsRemote
CHECK_DEADLOCK FALSE
