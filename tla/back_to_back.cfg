SPECIFICATION FairSpec
CONSTANTS
  w1 = w1
  w2 = w2
  w3 = w3
  NoWindow = NoWindow
  Windows <- TwoWindows
  Policies <- TwoPolicies
  MaxSessions = 3
  MaxJobs = 3
\* Once the plugin is unloaded nothing happens any more.
CHECK_DEADLOCK FALSE
INVARIANTS
  SingleDebounceJob
  LatestUseIsKept
  OneEndPerSession
  NothingAfterTeardown
PROPERTIES
  HistoryLockedIn
  LatestUseFirst
  ImplementsAltTab
  UseIsRecorded
