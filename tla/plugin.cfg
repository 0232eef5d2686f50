SPECIFICATION FairSpec
CONSTANTS
  k1 = k1
  k2 = k2
  p1 = p1
  p2 = p2
  NoConn = NoConn
  NoPath = NoPath
  Conns <- Peers2
  Paths <- Paths2
  Chunks <- Sends
  ConfigsRead <- Reads
  MaxBuffer = 2
  MaxSlots = 2
  MaxLoads = 1
  MaxEvents = 3
\* The plugin may stay unloaded.
CHECK_DEADLOCK FALSE
INVARIANTS
  TypeOK
  ConnectedIsWatched
  StreamOfOneClient
  PeerMirrorsSession
  NoListenerOutlivesConfig
  BorrowersDieFirst
  CallbacksHaveState
PROPERTIES
  PeersAreServed
