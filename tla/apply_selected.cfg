SPECIFICATION Spec
CONSTANTS
  w1 = w1
  w2 = w2
  w3 = w3
  NoWindow = NoWindow
  Windows <- ThreeWindows
  Policies <- OnePolicy
  MaxSessions = 1
  MaxJobs = 1
SYMMETRY ThreeAlike
\* Once the plugin is unloaded nothing happens any more.
CHECK_DEADLOCK FALSE
PROPERTIES
  ApplyFocusesSelected
