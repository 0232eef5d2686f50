SPECIFICATION FairSpec
CONSTANTS
  a1 = a1
  a2 = a2
  m1 = m1
  Addresses <- TwoAddresses
  Monitors <- OneMonitor
  Workspaces <- Numbered
  MonitorOf <- NumberedOn
  HomeOf <- Homes
  Configs <- EveryStyle
  MaxGeneration = 2
  MaxSessions = 2
  MaxFailures = 1
\* Once its windows are gone and its sessions are over nothing happens.
CHECK_DEADLOCK FALSE
INVARIANTS
  TypeOK
  OverridesAreOwed
  MarksFollowSelection
  TickHasItsHighlight
  CancelRestoresViews
PROPERTIES
  PulseThrobs
