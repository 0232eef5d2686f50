SPECIFICATION Spec
CONSTANTS
  a1 = a1
  a2 = a2
  m1 = m1
  Addresses <- TwoAddresses
  Monitors <- OneMonitor
  Workspaces <- WithNamed
  MonitorOf <- WithNamedOn
  HomeOf <- NamedHomes
  Configs <- SolidOnly
  MaxGeneration = 1
  MaxSessions = 1
  MaxFailures = 0
\* Once its windows are gone and its sessions are over nothing happens.
CHECK_DEADLOCK FALSE
INVARIANTS
  CancelRestoresViews
