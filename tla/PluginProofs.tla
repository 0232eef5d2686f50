---------------------------- MODULE PluginProofs ----------------------------
(***************************************************************************)
(* Proofs about Plugin, for any peers, paths and configurations and every  *)
(* value of the bounds: what is alive when, and what the socket holds.     *)
(***************************************************************************)
EXTENDS Plugin, MruListTheorems

-----------------------------------------------------------------------------
(***************************************************************************)
(* The two orders.                                                         *)
(***************************************************************************)
LEMMA OrdersAreOfMembers ==
  /\ Len(BuildOrder) = 11 /\ Len(TeardownOrder) = 11
  /\ Members = {BuildOrder[j] : j \in 1..11}
  /\ Members = {TeardownOrder[j] : j \in 1..11}
<1>1. Len(BuildOrder) = 11 /\ DOMAIN BuildOrder = 1..11 BY DEF BuildOrder
<1>2. Len(TeardownOrder) = 11 BY DEF TeardownOrder
<1>3. Members = {BuildOrder[j] : j \in 1..11} BY <1>1 DEF Members, Range
<1>4. Members \subseteq {TeardownOrder[j] : j \in 1..11}
  <2>1. \A i \in 1..11 : \E j \in 1..11 : BuildOrder[i] = TeardownOrder[j]
    BY SMTT(60) DEF BuildOrder, TeardownOrder
  <2> QED BY <2>1, <1>3
<1>5. {TeardownOrder[j] : j \in 1..11} \subseteq Members
  <2>1. \A i \in 1..11 : \E j \in 1..11 : TeardownOrder[i] = BuildOrder[j]
    BY SMTT(60) DEF BuildOrder, TeardownOrder
  <2> QED BY <2>1, <1>3
<1> QED BY <1>1, <1>2, <1>3, <1>4, <1>5

(* With no session, whatever a member refers to was built before it.       *)
LEMMA BuiltInOrder ==
  ASSUME session = Idle, NEW i \in 1..11, NEW b \in Borrows(BuildOrder[i])
  PROVE  \E j \in 1..11 : j < i /\ BuildOrder[j] = b
BY SMTT(120) DEF Borrows, BuildOrder, Idle

(* Whatever a member refers to is destroyed after it, in every session.    *)
LEMMA TornDownInOrder ==
  ASSUME NEW i \in 1..11, NEW j \in 1..11, TeardownOrder[i] \in Borrows(TeardownOrder[j])
  PROVE  j < i
BY SMTT(120) DEF Borrows, TeardownOrder

LEMMA BorrowsMembers ==
  /\ \A m \in Members : Borrows(m) \subseteq Members
  /\ \A m \in Members : Borrows(m)' \subseteq Members
<1>1. \A m \in Members : Borrows(m) \subseteq Members
  BY SMTT(60), OrdersAreOfMembers DEF Borrows, BuildOrder, Members, Range
<1>2. \A m \in Members : Borrows(m)' \subseteq Members
  BY SMTT(60), OrdersAreOfMembers DEF Borrows, BuildOrder, Members, Range
<1> QED BY <1>1, <1>2

-----------------------------------------------------------------------------
(***************************************************************************)
(* The socket, and the socket with the session it serves.                  *)
(***************************************************************************)
SocketType ==
  [path : Paths \cup {NoPath}, client : Conns \cup {NoConn}, buffer : Seq(ChunksSent),
   listenWatch : BOOLEAN, clientWatch : Conns \cup {NoConn}, backlog : Seq(Conns),
   told : 0..MaxSlots, missed : BOOLEAN]

(* A listening socket is watched, so is a client, what was read came from  *)
(* it, and it was told nothing while there is none.                        *)
SocketOK(t) ==
  /\ t \in SocketType
  /\ t.path # NoPath <=> t.listenWatch
  /\ t.client # NoConn => t.clientWatch = t.client
  /\ t.client = NoConn => t.told = 0
  /\ Len(t.buffer) <= MaxBuffer
  /\ \A j \in 1..Len(t.buffer) : t.buffer[j].from = t.client

SessionOK(ss) ==
  /\ ss \in [size : 0..MaxSlots, index : 0..MaxSlots, backend : UiBackends \cup {"none"}]
  /\ ss.index <= ss.size
  /\ ss.index = 0 => ss = Idle

Mirrors(ss, t) ==
  t.client # NoConn /\ ~t.missed =>
    t.told = IF ss.backend = "external" THEN ss.index ELSE 0

WorldOK(w) == SessionOK(w.session) /\ SocketOK(w.s) /\ Mirrors(w.session, w.s)

LEMMA IdleOK == SessionOK(Idle) /\ Idle.index = 0 /\ Idle.backend = "none"
BY PluginAssumption DEF SessionOK, Idle, UiBackends

LEMMA StoppedOK == /\ SocketOK(Stopped) /\ Stopped.path = NoPath /\ Stopped.client = NoConn
                   /\ Stopped.clientWatch = NoConn /\ ~Stopped.listenWatch
<1>1. <<>> \in Seq(ChunksSent) /\ <<>> \in Seq(Conns) OBVIOUS
<1>2. Len(Stopped.buffer) = 0 BY DEF Stopped
<1> QED BY <1>1, <1>2, PluginAssumption, OverlayAssumption DEF SocketOK, SocketType, Stopped

(* close_client() leaves a socket that is listening or not as before.      *)
LEMMA CloseClientOK ==
  ASSUME NEW t, SocketOK(t)
  PROVE  /\ SocketOK(CloseClient(t)) /\ CloseClient(t).path = t.path
         /\ CloseClient(t).client = NoConn /\ CloseClient(t).listenWatch = t.listenWatch
<1> DEFINE u == CloseClient(t)
<1>1. <<>> \in Seq(ChunksSent) OBVIOUS
<1>2. /\ u.buffer = <<>> /\ u.client = NoConn /\ u.path = t.path /\ u.told = 0
      /\ u.listenWatch = t.listenWatch
  BY DEF CloseClient, SocketOK, SocketType
<1>3. u \in SocketType
  <2>1. t \in SocketType /\ 0 \in 0..MaxSlots BY PluginAssumption DEF SocketOK
  <2> QED BY <1>1, <2>1 DEF CloseClient, SocketType
<1>4. Len(u.buffer) = 0 BY <1>2
<1> HIDE DEF u
<1>5. SocketOK(u) BY <1>2, <1>3, <1>4, OverlayAssumption DEF SocketOK
<1> QED BY <1>2, <1>5 DEF u

(* A message leaves a client that was told it, is out of date, or is gone. *)
LEMMA SendLineOK ==
  ASSUME NEW t, SocketOK(t), NEW i \in 0..MaxSlots, NEW isStart \in BOOLEAN,
         NEW outcome \in Outcomes
  PROVE  LET u == SendLine(t, i, isStart, outcome)
         IN  /\ SocketOK(u) /\ u.path = t.path
             /\ u.client # NoConn /\ ~u.missed => u.told = i
<1>1. CASE t.client = NoConn BY <1>1 DEF SendLine
<1>2. CASE t.client # NoConn /\ outcome = "sent"
  <2> DEFINE u == [t EXCEPT !.told = i, !.missed = @ /\ ~isStart /\ i # 0]
  <2>1. SendLine(t, i, isStart, outcome) = u BY <1>2 DEF SendLine
  <2>2. /\ u \in SocketType /\ u.told = i
        /\ u.client = t.client /\ u.path = t.path /\ u.buffer = t.buffer
        /\ u.listenWatch = t.listenWatch /\ u.clientWatch = t.clientWatch
    BY DEF SocketOK, SocketType
  <2> HIDE DEF u
  <2>3. SocketOK(u) BY <1>2, <2>2 DEF SocketOK
  <2> QED BY <2>1, <2>2, <2>3
<1>3. CASE t.client # NoConn /\ outcome = "full"
  <2> DEFINE u == [t EXCEPT !.missed = TRUE]
  <2>1. SendLine(t, i, isStart, outcome) = u BY <1>3 DEF SendLine
  <2>2. /\ u \in SocketType /\ u.missed = TRUE
        /\ u.client = t.client /\ u.path = t.path /\ u.buffer = t.buffer
        /\ u.listenWatch = t.listenWatch /\ u.clientWatch = t.clientWatch
    BY DEF SocketOK, SocketType
  <2> HIDE DEF u
  <2>3. SocketOK(u) BY <1>3, <2>2 DEF SocketOK
  <2> QED BY <2>1, <2>2, <2>3
<1>4. CASE t.client # NoConn /\ outcome = "error"
  <2>1. SendLine(t, i, isStart, outcome) = CloseClient(t) BY <1>4 DEF SendLine
  <2> QED BY <2>1, CloseClientOK
<1> QED BY <1>1, <1>2, <1>3, <1>4 DEF Outcomes

(* try_start_overlay_socket(): afterwards the socket is stopped, or it     *)
(* listens where the configuration says, and its client is as before or    *)
(* gone.                                                                   *)
LEMMA TryStartOK ==
  ASSUME SocketOK(s), NEW conf \in Configs, NEW result
  PROVE  LET u == TryStart(conf, result)
         IN  /\ SocketOK(u)
             /\ u.path # NoPath => conf.ui = "external" /\ u.path = conf.path
             /\ u = s \/ u.client = NoConn
<1>1. CASE conf.ui # "external" \/ conf.path = NoPath
  BY <1>1, StoppedOK DEF TryStart
<1>2. CASE conf.ui = "external" /\ conf.path # NoPath /\ s.path = conf.path
  <2>1. TryStart(conf, result) = s BY <1>2 DEF TryStart, EnsureStarted
  <2> QED BY <1>2, <2>1
<1>3. CASE conf.ui = "external" /\ conf.path # NoPath /\ s.path # conf.path /\ result # "started"
  <2>1. TryStart(conf, result) = Stopped BY <1>3 DEF TryStart, EnsureStarted
  <2> QED BY <2>1, StoppedOK
<1>4. CASE conf.ui = "external" /\ conf.path # NoPath /\ s.path # conf.path /\ result = "started"
  <2> DEFINE u == [Stopped EXCEPT !.path = conf.path, !.listenWatch = TRUE]
  <2>1. TryStart(conf, result) = u BY <1>4 DEF TryStart, EnsureStarted
  <2>2. conf.path \in Paths \cup {NoPath} BY DEF Configs
  <2>3. Stopped \in SocketType /\ Stopped.told = 0 /\ Len(Stopped.buffer) = 0
    BY StoppedOK DEF SocketOK, Stopped
  <2>4. /\ u \in SocketType /\ u.path = conf.path /\ u.listenWatch = TRUE
        /\ u.client = Stopped.client /\ u.told = Stopped.told /\ u.buffer = Stopped.buffer
    BY <2>2, <2>3 DEF SocketType
  <2> HIDE DEF u
  <2>5. SocketOK(u) BY <1>4, <2>3, <2>4, StoppedOK, OverlayAssumption DEF SocketOK
  <2> QED BY <1>4, <2>1, <2>4, <2>5, StoppedOK
<1> QED BY <1>1, <1>2, <1>3, <1>4

LEMMA AnnounceOK ==
  ASSUME NEW ss, SessionOK(ss), NEW t, SocketOK(t),
         ss.backend # "external" => Mirrors(ss, t),
         NEW isStart \in BOOLEAN, NEW outcome \in Outcomes
  PROVE  LET u == Announce([session |-> ss, s |-> t], ss.index, isStart, outcome)
         IN  SocketOK(u) /\ Mirrors(ss, u) /\ u.path = t.path
<1>1. ss.index \in 0..MaxSlots BY DEF SessionOK
<1> QED BY <1>1, SendLineOK DEF Announce, Mirrors

(* end_session(): the session is over, and the client heard of it, is out  *)
(* of date or gone.                                                        *)
LEMMA EndedOK ==
  ASSUME NEW w, WorldOK(w), NEW outcome \in Outcomes
  PROVE  LET v == Ended(w, outcome)
         IN  WorldOK(v) /\ v.session = Idle /\ v.s.path = w.s.path
<1>1. CASE w.session.index = 0
  BY <1>1 DEF Ended, WorldOK, SessionOK
<1>2. CASE w.session.index # 0
  <2> DEFINE u == Announce(w, 0, FALSE, outcome)
  <2>1. Ended(w, outcome) = [session |-> Idle, s |-> u] BY <1>2 DEF Ended
  <2>2. 0 \in 0..MaxSlots BY PluginAssumption
  <2>3. SocketOK(u) /\ u.path = w.s.path /\ (u.client # NoConn /\ ~u.missed => u.told = 0)
    <3>1. CASE w.session.backend = "external"
      BY <2>2, <3>1, SendLineOK, ZenonT(40) DEF Announce, WorldOK
    <3>2. CASE w.session.backend # "external"
      BY <3>2 DEF Announce, WorldOK, Mirrors
    <3> QED BY <3>1, <3>2
  <2> HIDE DEF u
  <2>4. Mirrors(Idle, u) BY <2>3, IdleOK DEF Mirrors
  <2> QED BY <2>1, <2>3, <2>4, IdleOK DEF WorldOK
<1> QED BY <1>1, <1>2

LEMMA SelectedOK ==
  ASSUME NEW w, WorldOK(w), NEW i \in Nat \ {0}, NEW outcome \in Outcomes
  PROVE  LET v == Selected(w, i, outcome)
         IN  /\ WorldOK(v) /\ v.s.path = w.s.path
             /\ w.session = Idle => v.session = Idle
<1>1. CASE i > w.session.size
  BY <1>1 DEF Selected
<1>2. CASE ~(i > w.session.size)
  <2> DEFINE ss == [w.session EXCEPT !.index = i]
             u  == Announce(w, i, FALSE, outcome)
  <2>1. Selected(w, i, outcome) = [session |-> ss, s |-> u] BY <1>2 DEF Selected
  <2>2. i \in 0..MaxSlots
    <3>1. w.session.size \in 0..MaxSlots BY DEF WorldOK, SessionOK
    <3> QED BY <1>2, <3>1, PluginAssumption
  <2>3. ss.index = i /\ ss.backend = w.session.backend /\ SessionOK(ss)
    <3>1. /\ w.session \in [size : 0..MaxSlots, index : 0..MaxSlots,
                             backend : UiBackends \cup {"none"}]
          /\ w.session.size \in 0..MaxSlots
      BY DEF WorldOK, SessionOK
    <3>2. /\ ss \in [size : 0..MaxSlots, index : 0..MaxSlots,
                      backend : UiBackends \cup {"none"}]
          /\ ss.index = i /\ ss.backend = w.session.backend /\ ss.size = w.session.size
      BY <2>2, <3>1
    <3>3. i <= w.session.size BY <1>2, <3>1
    <3> HIDE DEF ss
    <3> QED BY <3>2, <3>3 DEF SessionOK
  <2>4. w.session # Idle BY <1>2 DEF Idle
  <2>5. SocketOK(u) /\ u.path = w.s.path /\ Mirrors(ss, u)
    <3>1. CASE w.session.backend = "external"
      BY <2>2, <2>3, <3>1, SendLineOK, ZenonT(40) DEF Announce, WorldOK, Mirrors
    <3>2. CASE w.session.backend # "external"
      BY <2>3, <3>2 DEF Announce, WorldOK, Mirrors
    <3> QED BY <3>1, <3>2
  <2> HIDE DEF ss, u
  <2> QED BY <2>1, <2>3, <2>4, <2>5 DEF WorldOK
<1>3. w.session.size \in Int BY DEF WorldOK, SessionOK
<1> QED BY <1>1, <1>2

LEMMA ExecuteOK ==
  ASSUME NEW w, WorldOK(w), NEW cmd, cmd.type = "select" => cmd.index \in Nat,
         NEW outcome \in Outcomes
  PROVE  LET v == Execute(w, cmd, outcome)
         IN  /\ WorldOK(v) /\ v.s.path = w.s.path
             /\ w.session = Idle => v.session = Idle
<1>1. CASE cmd.type = "select"
  <2>1. Execute(w, cmd, outcome) = Selected(w, cmd.index + 1, outcome) BY <1>1 DEF Execute
  <2> QED BY <1>1, <2>1, SelectedOK
<1>2. CASE cmd.type \in {"apply", "cancel"}
  <2>1. Execute(w, cmd, outcome) = Ended(w, outcome) BY <1>2 DEF Execute
  <2> QED BY <2>1, EndedOK
<1>3. CASE cmd.type \notin {"select", "apply", "cancel"}
  <2>1. Execute(w, cmd, outcome) = w BY <1>3 DEF Execute
  <2> QED BY <2>1
<1> QED BY <1>1, <1>2, <1>3

-----------------------------------------------------------------------------
(***************************************************************************)
(* The adapter's callbacks.                                                *)
(***************************************************************************)
LEMMA ChunkSentFrom == \A x \in ChunksSent : x.from \in Conns /\ x.obj \in Object
<1>1. ASSUME NEW c \in Conns, NEW chunk \in Chunks
      PROVE  SentOn(c, chunk).from \in Conns /\ SentOn(c, chunk).obj \in Object
  BY OverlayAssumption DEF SentOn, Chunk
<1> QED BY <1>1 DEF ChunksSent

(* Without a client nothing is left in the buffer.                         *)
LEMMA NothingBuffered ==
  ASSUME NEW t, SocketOK(t), t.client = NoConn
  PROVE  t.buffer = <<>>
<1>1. t.buffer \in Seq(ChunksSent) BY DEF SocketOK, SocketType
<1>2. ASSUME NEW j \in 1..Len(t.buffer) PROVE FALSE
  <2>1. t.buffer[j] \in ChunksSent BY <1>1
  <2> QED BY <2>1, ChunkSentFrom, OverlayAssumption DEF SocketOK
<1>3. Len(t.buffer) = 0 BY <1>1, <1>2
<1> QED BY <1>1, <1>3

(* poll_accept() and watch_client().                                       *)
LEMMA OnListenerReadableOK ==
  ASSUME NEW ss, NEW t, SocketOK(t), Mirrors(ss, t), t.backlog # <<>>, NEW watches \in BOOLEAN
  PROVE  LET u == OnListenerReadable(t, ss.backend = "external", watches)
         IN  SocketOK(u) /\ Mirrors(ss, u) /\ u.path = t.path
<1> DEFINE inSession == ss.backend = "external"
<1>0. t \in SocketType BY DEF SocketOK
<1>1. CASE t.client # NoConn
  <2> DEFINE u == [t EXCEPT !.backlog = <<>>]
  <2>1. OnListenerReadable(t, inSession, watches) = u BY <1>1 DEF OnListenerReadable
  <2>2. <<>> \in Seq(Conns) OBVIOUS
  <2>3. /\ u \in SocketType /\ u.client = t.client /\ u.path = t.path /\ u.buffer = t.buffer
        /\ u.listenWatch = t.listenWatch /\ u.clientWatch = t.clientWatch /\ u.told = t.told
        /\ u.missed = t.missed
    BY <1>0, <2>2 DEF SocketType
  <2> HIDE DEF u
  <2> QED BY <2>1, <2>3 DEF SocketOK, Mirrors
<1>2. CASE t.client = NoConn
  <2> DEFINE c == Head(t.backlog)
             a == Accepted(t, inSession)
  <2>1. OnListenerReadable(t, inSession, watches) = WatchClient(a, c, watches)
    BY <1>2 DEF OnListenerReadable
  <2>2. <<>> \in Seq(Conns) /\ <<>> \in Seq(ChunksSent) OBVIOUS
  <2>3. c \in Conns /\ c # NoConn
    <3>1. t.backlog \in Seq(Conns) BY <1>0 DEF SocketType
    <3> QED BY <3>1, OverlayAssumption
  <2>4. inSession \in BOOLEAN OBVIOUS
  <2>5. t.buffer = <<>> /\ t.told = 0 BY <1>2, NothingBuffered DEF SocketOK
  <2>6. /\ a \in SocketType /\ a.client = c /\ a.path = t.path /\ a.buffer = t.buffer
        /\ a.listenWatch = t.listenWatch /\ a.told = t.told
    BY <1>0, <2>2, <2>3, <2>4 DEF Accepted, SocketType
  <2>7. a.missed = inSession BY <1>0 DEF Accepted, SocketType
  <2> HIDE DEF a, c
  <2>8. CASE watches
    <3> DEFINE u == [a EXCEPT !.clientWatch = c]
    <3>1. WatchClient(a, c, watches) = u BY <2>8 DEF WatchClient
    <3>2. /\ u \in SocketType /\ u.client = a.client /\ u.path = a.path /\ u.buffer = a.buffer
          /\ u.listenWatch = a.listenWatch /\ u.clientWatch = c /\ u.told = a.told
          /\ u.missed = a.missed
      BY <2>3, <2>6 DEF SocketType
    <3>3. Len(u.buffer) = 0 BY <2>5, <2>6, <3>2
    <3> HIDE DEF u
    <3>4. SocketOK(u) BY <2>3, <2>5, <2>6, <3>2, <3>3, OverlayAssumption DEF SocketOK
    <3>5. Mirrors(ss, u) BY <2>5, <2>6, <2>7, <3>2 DEF Mirrors
    <3> QED BY <2>1, <2>6, <3>1, <3>2, <3>4, <3>5
  <2>9. CASE ~watches
    <3> DEFINE d == CloseClient(a)
               u == [d EXCEPT !.clientWatch = NoConn]
    <3>1. WatchClient(a, c, watches) = u BY <2>9 DEF WatchClient
    <3>2. 0 \in 0..MaxSlots BY PluginAssumption
    <3>3. d \in SocketType BY <2>2, <2>6, <3>2 DEF CloseClient, SocketType
    <3>4. /\ d.client = NoConn /\ d.path = a.path /\ d.buffer = <<>>
          /\ d.listenWatch = a.listenWatch /\ d.told = 0
      BY <2>6 DEF CloseClient, SocketType
    <3> HIDE DEF d
    <3>5. /\ u \in SocketType /\ u.client = d.client /\ u.path = d.path /\ u.buffer = d.buffer
          /\ u.listenWatch = d.listenWatch /\ u.told = d.told
      BY <3>3 DEF SocketType
    <3>6. Len(u.buffer) = 0 BY <3>4, <3>5
    <3> HIDE DEF u
    <3>7. SocketOK(u) BY <2>6, <3>4, <3>5, <3>6, OverlayAssumption DEF SocketOK
    <3> QED BY <2>1, <2>6, <3>1, <3>4, <3>5, <3>7 DEF Mirrors
  <2> QED BY <2>8, <2>9
<1> QED BY <1>1, <1>2

LEMMA OnListenerErrorOK ==
  ASSUME NEW t, SocketOK(t)
  PROVE  LET u == OnListenerError(t)
         IN  SocketOK(u) /\ u.client = NoConn /\ u.path = NoPath
<1> DEFINE d == CloseClient(t)
           u == [[d EXCEPT !.path = NoPath, !.backlog = <<>>] EXCEPT !.listenWatch = FALSE]
<1>1. OnListenerError(t) = u BY DEF OnListenerError, ServerStop
<1>2. SocketOK(d) /\ d.client = NoConn BY CloseClientOK
<1>3. d.buffer = <<>> BY <1>2, NothingBuffered
<1> HIDE DEF d
<1>4. d \in SocketType /\ <<>> \in Seq(Conns) BY <1>2 DEF SocketOK
<1>5. /\ u \in SocketType /\ u.client = d.client /\ u.path = NoPath /\ u.buffer = d.buffer
      /\ u.told = d.told /\ u.listenWatch = FALSE
  BY <1>4 DEF SocketType
<1>6. Len(u.buffer) = 0 BY <1>3, <1>5
<1> HIDE DEF u
<1>7. SocketOK(u) BY <1>2, <1>5, <1>6, OverlayAssumption DEF SocketOK
<1> QED BY <1>1, <1>2, <1>5, <1>7

(* client_callback() when the peer hung up, and on_client_readable() when  *)
(* the client was closed before.                                           *)
LEMMA WatchEndsOK ==
  ASSUME NEW t, SocketOK(t)
  PROVE  /\ SocketOK(OnClientHangup(t)) /\ OnClientHangup(t).client = NoConn
         /\ OnClientHangup(t).path = t.path
         /\ t.client = NoConn => /\ SocketOK(OnDeadClientReadable(t))
                                 /\ OnDeadClientReadable(t).client = NoConn
                                 /\ OnDeadClientReadable(t).path = t.path
<1>1. ASSUME NEW d, SocketOK(d), d.client = NoConn
      PROVE  LET u == [d EXCEPT !.clientWatch = NoConn]
             IN  SocketOK(u) /\ u.client = NoConn /\ u.path = d.path
  <2> DEFINE u == [d EXCEPT !.clientWatch = NoConn]
  <2>1. d \in SocketType BY <1>1 DEF SocketOK
  <2>2. /\ u \in SocketType /\ u.client = d.client /\ u.path = d.path /\ u.buffer = d.buffer
        /\ u.told = d.told /\ u.listenWatch = d.listenWatch
    BY <2>1 DEF SocketType
  <2>3. d.buffer = <<>> BY <1>1, NothingBuffered
  <2>4. Len(u.buffer) = 0 BY <2>2, <2>3
  <2> HIDE DEF u
  <2>5. SocketOK(u) BY <1>1, <2>2, <2>4, OverlayAssumption DEF SocketOK
  <2> QED BY <1>1, <2>2, <2>5 DEF u
<1>2. SocketOK(CloseClient(t)) /\ CloseClient(t).client = NoConn /\ CloseClient(t).path = t.path
  BY CloseClientOK
<1>3. OnClientHangup(t) = [CloseClient(t) EXCEPT !.clientWatch = NoConn] BY DEF OnClientHangup
<1>4. OnDeadClientReadable(t) = [t EXCEPT !.clientWatch = NoConn] BY DEF OnDeadClientReadable
<1> QED BY <1>1, <1>2, <1>3, <1>4

-----------------------------------------------------------------------------
(***************************************************************************)
(* The receive buffer.                                                     *)
(***************************************************************************)

(* A stream of a connection: chunks that were sent on it.                  *)
StreamOf(q, c) == q \in Seq(ChunksSent) /\ \A j \in 1..Len(q) : q[j].from = c

LEMMA EmptyStream == \A c : StreamOf(<<>>, c)
<1>1. <<>> \in Seq(ChunksSent) OBVIOUS
<1>2. Len(<<>>) = 0 OBVIOUS
<1> QED BY <1>1, <1>2 DEF StreamOf

LEMMA PartOfStream ==
  ASSUME NEW q, NEW c, StreamOf(q, c), NEW a \in Nat, a >= 1, NEW b \in Nat, b <= Len(q)
  PROVE  /\ StreamOf(SubSeq(q, a, b), c)
         /\ Len(SubSeq(q, a, b)) = IF a <= b THEN b - a + 1 ELSE 0
<1>1. q \in Seq(ChunksSent) /\ Len(q) \in Nat BY DEF StreamOf
<1>2. \A j \in a..b : j \in 1..Len(q) /\ q[j] \in ChunksSent
  BY <1>1
<1>3. /\ SubSeq(q, a, b) \in Seq(ChunksSent)
      /\ Len(SubSeq(q, a, b)) = IF a <= b THEN b - a + 1 ELSE 0
      /\ \A j \in 1..(b - a + 1) : SubSeq(q, a, b)[j] = q[a + j - 1]
  BY <1>2, SubSeqProperties
<1>4. \A j \in 1..Len(SubSeq(q, a, b)) : SubSeq(q, a, b)[j].from = c
  <2> TAKE j \in 1..Len(SubSeq(q, a, b))
  <2>1. j \in 1..(b - a + 1) /\ a + j - 1 \in 1..Len(q) BY <1>1, <1>3
  <2> QED BY <1>3, <2>1 DEF StreamOf
<1> QED BY <1>3, <1>4 DEF StreamOf

LEMMA Remainder ==
  ASSUME NEW a \in Nat, NEW n \in Nat \ {0}
  PROVE  a % n \in 0..(n - 1) /\ a % n <= a
OBVIOUS

(* However long the lines of a peer are, the buffer stays in its bound and *)
(* holds a part of its stream.                                             *)
LEMMA ReceivedOK ==
  ASSUME NEW buffer, NEW data, NEW c, StreamOf(buffer, c), StreamOf(data, c)
  PROVE  StreamOf(Received(buffer, data), c) /\ Len(Received(buffer, data)) <= MaxBuffer
<1> DEFINE all == buffer \o data
           n   == MaxBuffer + 1
<1>1. all \in Seq(ChunksSent) /\ Len(all) = Len(buffer) + Len(data)
      /\ \A j \in 1..Len(all) : all[j] = IF j <= Len(buffer) THEN buffer[j] ELSE data[j - Len(buffer)]
  BY ConcatProperties DEF StreamOf
<1>2. Len(buffer) \in Nat /\ Len(data) \in Nat BY DEF StreamOf
<1>3. \A j \in 1..Len(all) : all[j].from = c
  BY <1>1, <1>2 DEF StreamOf
<1>4. StreamOf(all, c) /\ Len(all) \in Nat BY <1>1, <1>2, <1>3 DEF StreamOf
<1>5. Received(buffer, data) = SubSeq(all, Len(all) - (Len(all) % n) + 1, Len(all))
  BY DEF Received, AfterDrops
<1>6. n \in Nat \ {0} /\ MaxBuffer \in Nat BY OverlayAssumption
<1> HIDE DEF all, n
<1>7. Len(all) % n \in 0..(n - 1) /\ Len(all) % n <= Len(all) BY <1>4, <1>6, Remainder
<1> DEFINE r == Len(all) % n
<1>8. r \in Int BY <1>7, <1>6
<1> HIDE DEF r
<1>9. r \in 0..(n - 1) /\ r <= Len(all) BY <1>7 DEF r
<1>10. Len(all) - r + 1 \in Nat /\ Len(all) - r + 1 >= 1 BY <1>4, <1>6, <1>8, <1>9
<1>11. /\ StreamOf(SubSeq(all, Len(all) - r + 1, Len(all)), c)
       /\ Len(SubSeq(all, Len(all) - r + 1, Len(all))) =
            IF Len(all) - r + 1 <= Len(all) THEN Len(all) - (Len(all) - r + 1) + 1 ELSE 0
  BY <1>4, <1>10, PartOfStream
<1>12. Len(SubSeq(all, Len(all) - r + 1, Len(all))) <= n - 1
  BY <1>4, <1>6, <1>8, <1>9, <1>11
<1> QED BY <1>5, <1>6, <1>11, <1>12 DEF r, n

LEMMA LineEndInBuffer ==
  ASSUME NEW buffer \in Seq(ChunksSent)
  PROVE  LineEnd(buffer) \in 0..Len(buffer)
<1> DEFINE I == {i \in 1..Len(buffer) : buffer[i].part # "head"}
<1>1. LineEnd(buffer) = IF I # {} THEN Min(I) ELSE 0 BY DEF LineEnd, SelectInSeq
<1>2. CASE I # {}
  <2>1. Len(buffer) \in Nat /\ I \subseteq Nat OBVIOUS
  <2>2. \E x \in I : \A y \in I : x <= y
    <3> HIDE DEF I
    <3> QED BY <1>2, <2>1, LeastNat
  <2>3. Min(I) \in I BY <2>2 DEF Min
  <2> QED BY <1>1, <1>2, <2>3
<1>3. CASE I = {} BY <1>1, <1>3
<1> QED BY <1>2, <1>3

(* A line that is no object is no command, and the index of a select is a  *)
(* natural number.                                                         *)
LEMMA ParseCommandOK ==
  ASSUME NEW line \in Seq(ChunksSent)
  PROVE  LET cmd == ParseCommand(line) IN cmd.type = "select" => cmd.index \in Nat
<1>1. CASE IsObject(line)
  <2>1. line[1] \in ChunksSent BY <1>1 DEF IsObject
  <2>2. line[1].obj.index \in Int BY <2>1, ChunkSentFrom DEF Object
  <2> QED BY <1>1, <2>2 DEF ParseCommand, Command, NoCommand
<1>2. CASE ~IsObject(line)
  BY <1>2 DEF ParseCommand, NoCommand
<1> QED BY <1>1, <1>2

-----------------------------------------------------------------------------
(***************************************************************************)
(* The inductive invariant.                                                *)
(***************************************************************************)
Working  == {"running", "dispatching"}
Emptied  == {"exit", "rejecting", "emptying"}

(* What is left to do is the end of the order, and what exists is what is  *)
(* done, or not more than what is left.                                    *)
Building ==
  /\ todo \in Seq(Members) /\ Len(todo) <= 11
  /\ \A j \in 1..Len(todo) : todo[j] = BuildOrder[11 - Len(todo) + j]
  /\ members = {BuildOrder[j] : j \in 1..(11 - Len(todo))}
  /\ listeners => todo = <<>>

Emptying ==
  /\ todo \in Seq(Members) /\ Len(todo) <= 11
  /\ \A j \in 1..Len(todo) : todo[j] = TeardownOrder[11 - Len(todo) + j]
  /\ members \subseteq {TeardownOrder[j] : j \in (12 - Len(todo))..11}
  /\ ~listeners

LifeInv ==
  /\ members \subseteq Members /\ BorrowersDieFirst
  /\ phase \in Working => members = Members /\ todo = <<>>
  /\ phase = "init" => Building
  /\ phase \in Emptied => Emptying
  /\ phase \in {"unloaded", "hollow"} => members = {} /\ ~listeners /\ todo = <<>>
  /\ phase \notin Working => session = Idle

(* Follows: no listener outlives the configuration that asks for it.       *)
Follows == s.path # NoPath => config.ui = "external" /\ s.path = config.path

Serving == SessionOK(session) /\ SocketOK(s) /\ Mirrors(session, s) /\ Follows

InboxOK == /\ hung \subseteq Conns
           /\ inbox \in [Conns -> Seq(ChunksSent)]
           /\ \A c \in Conns : StreamOf(inbox[c], c)

Typed ==
  /\ phase \in {"unloaded", "init", "running", "dispatching", "exit", "rejecting",
               "emptying", "hollow"}
  /\ listeners \in BOOLEAN /\ dispatchers \in BOOLEAN
  /\ config \in Configs
  /\ loads \in 0..MaxLoads /\ events \in 0..MaxEvents

NoSocketNoListener == "overlay_socket" \notin members => s = Stopped

Inv == Typed /\ LifeInv /\ Serving /\ InboxOK /\ NoSocketNoListener

LEMMA InitInv == Init => Inv
<1> SUFFICES ASSUME Init PROVE Inv OBVIOUS
<1>1. Typed
  <2>1. config \in Configs BY DEF Init, Configs, DefaultConfig, UiBackends
  <2>2. loads \in 0..MaxLoads /\ events \in 0..MaxEvents BY PluginAssumption DEF Init
  <2>3. listeners \in BOOLEAN /\ dispatchers \in BOOLEAN /\ phase = "unloaded" BY DEF Init
  <2> QED BY <2>1, <2>2, <2>3 DEF Typed
<1>2. LifeInv BY DEF Init, LifeInv, BorrowersDieFirst, Working, Emptied
<1>3. Serving BY IdleOK, StoppedOK DEF Init, Serving, Mirrors, Follows
<1>4. InboxOK
  <2>1. \A c \in Conns : inbox[c] = <<>> BY DEF Init
  <2>2. \A c \in Conns : StreamOf(inbox[c], c)
    <3> TAKE c \in Conns
    <3> QED BY <2>1, EmptyStream
  <2>3. inbox \in [Conns -> Seq(ChunksSent)] BY <2>1, EmptyStream DEF Init, StreamOf
  <2> QED BY <2>2, <2>3 DEF Init, InboxOK
<1>5. NoSocketNoListener BY DEF Init, NoSocketNoListener
<1> QED BY <1>1, <1>2, <1>3, <1>4, <1>5 DEF Inv

(* Most steps leave the members alone.                                     *)
LEMMA LifeKept ==
  ASSUME LifeInv, UNCHANGED life, phase \in Working \/ session' = session
  PROVE  LifeInv'
<1>1. UNCHANGED <<phase, todo, members, listeners, dispatchers>> BY DEF life
<1>2. BorrowersDieFirst'
  <2>1. CASE phase \in Working
    BY <1>1, <2>1, BorrowsMembers DEF LifeInv, BorrowersDieFirst
  <2>2. CASE session' = session
    BY <1>1, <2>2 DEF LifeInv, BorrowersDieFirst, Borrows
  <2> QED BY <2>1, <2>2
<1>3. phase = "init" => Building' BY <1>1 DEF LifeInv, Building
<1>4. phase \in Emptied => Emptying' BY <1>1 DEF LifeInv, Emptying
<1> QED BY <1>1, <1>2, <1>3, <1>4 DEF LifeInv

(* What may be called back, with members to be called.                     *)
LEMMA AtWork ==
  ASSUME Inv, EventLoop,
         listeners \/ Dispatchable \/ s.listenWatch \/ s.clientWatch # NoConn
  PROVE  phase = "running" /\ members = Members
<1>1. ASSUME phase = "hollow" PROVE FALSE
  <2>1. members = {} /\ ~listeners /\ s = Stopped
    BY <1>1 DEF Inv, LifeInv, NoSocketNoListener
  <2>2. Stopped.listenWatch = FALSE /\ Stopped.clientWatch = NoConn BY DEF Stopped
  <2> QED BY <2>1, <2>2 DEF Dispatchable
<1>2. phase = "running" BY <1>1 DEF EventLoop
<1> QED BY <1>2 DEF Inv, LifeInv, Working

LEMMA SocketIsMember == "overlay_socket" \in Members
BY DEF Members, BuildOrder, Range

LEMMA KernelKeepsOK ==
  ASSUME NEW received, \A c \in Conns : StreamOf(received[c], c), hung \subseteq Conns,
         KernelKeeps(received)
  PROVE  InboxOK'
<1>1. hung' \subseteq Conns BY DEF KernelKeeps
<1>3. ASSUME NEW c \in Conns PROVE StreamOf(inbox'[c], c)
  <2>1. inbox'[c] = received[c] \/ inbox'[c] = <<>> BY DEF KernelKeeps
  <2> QED BY <2>1, EmptyStream
<1>4. inbox' \in [Conns -> Seq(ChunksSent)]
  <2>1. \A c \in Conns : inbox'[c] \in Seq(ChunksSent) BY <1>3 DEF StreamOf
  <2> QED BY <2>1 DEF KernelKeeps
<1> QED BY <1>1, <1>3, <1>4 DEF InboxOK

-----------------------------------------------------------------------------
(***************************************************************************)
(* Loading.                                                                *)
(***************************************************************************)
LEMMA LoadInv == Inv /\ Load => Inv'
<1> SUFFICES ASSUME Inv, Load PROVE Inv' OBVIOUS
<1>1. /\ members = {} /\ listeners = FALSE /\ s = Stopped /\ session = Idle
      /\ UNCHANGED <<members, listeners, session, s, hung, inbox>>
      /\ phase' = "init" /\ todo' = BuildOrder
  BY DEF Inv, Typed, LifeInv, Load, NoSocketNoListener, Working, peers
<1>2. Typed'
  <2>1. loads' \in 0..MaxLoads BY PluginAssumption DEF Inv, Typed, Load
  <2>2. config' \in Configs BY PluginAssumption DEF Load
  <2>3. UNCHANGED <<dispatchers, events>> BY DEF Load
  <2> QED BY <1>1, <2>1, <2>2, <2>3 DEF Inv, Typed
<1>3. LifeInv'
  <2>1. BuildOrder \in Seq(Members) BY OrdersAreOfMembers DEF BuildOrder, Members, Range
  <2>2. todo' \in Seq(Members) /\ Len(todo') = 11 BY <1>1, <2>1, OrdersAreOfMembers
  <2>3. members' = {BuildOrder[j] : j \in 1..(11 - Len(todo'))}
    BY <1>1, <2>2
  <2>4. Building' BY <1>1, <2>2, <2>3 DEF Building
  <2>5. phase' \notin Working /\ phase' \notin Emptied BY <1>1 DEF Working, Emptied
  <2> QED BY <1>1, <2>4, <2>5 DEF LifeInv, BorrowersDieFirst
<1>4. Serving' BY <1>1, StoppedOK DEF Inv, Serving, Follows, Mirrors
<1>5. InboxOK' BY <1>1 DEF Inv, InboxOK
<1>6. NoSocketNoListener' BY <1>1 DEF NoSocketNoListener
<1> QED BY <1>2, <1>3, <1>4, <1>5, <1>6 DEF Inv

(* The member that is built next finds all that it refers to.              *)
LEMMA BuildInv == Inv /\ Build => Inv'
<1> SUFFICES ASSUME Inv, Build PROVE Inv' OBVIOUS
<1> DEFINE n == Len(todo)
           k == 12 - Len(todo)
           m == Head(todo)
<1>1. /\ phase = "init" /\ todo # <<>> /\ Building /\ session = Idle
      /\ phase' = "init" /\ UNCHANGED <<listeners, dispatchers, config, session, loads, events>>
      /\ members' = members \cup {m} /\ todo' = Tail(todo)
  BY DEF Inv, LifeInv, Build, Working
<1>2. todo \in Seq(Members) /\ n <= 11 /\ n \in Nat /\ n >= 1
  BY <1>1 DEF Building
<1>3. /\ todo' \in Seq(Members) /\ Len(todo') = n - 1
      /\ \A j \in 1..(n - 1) : todo'[j] = todo[j + 1]
  BY <1>1, <1>2
<1>4. m = BuildOrder[k] /\ k \in 1..11
  <2>1. m = todo[1] BY <1>1, <1>2
  <2>2. todo[1] = BuildOrder[11 - n + 1] BY <1>1, <1>2 DEF Building
  <2>3. 11 - n + 1 = k BY <1>2
  <2> QED BY <1>2, <2>1, <2>2, <2>3
<1>5. members = {BuildOrder[j] : j \in 1..(k - 1)}
  <2>1. k - 1 = 11 - n BY <1>2
  <2> QED BY <1>1, <2>1 DEF Building
<1> HIDE DEF n, k, m
<1>6. Typed' BY <1>1 DEF Inv, Typed
<1>7. LifeInv'
  <2>1. \A j \in 1..Len(todo') : todo'[j] = BuildOrder[11 - Len(todo') + j]
    <3> TAKE j \in 1..Len(todo')
    <3>1. j \in 1..(n - 1) /\ j + 1 \in 1..n BY <1>2, <1>3
    <3>2. todo[j + 1] = BuildOrder[11 - n + (j + 1)]
      BY <1>1, <3>1 DEF Building, n
    <3>3. 11 - n + (j + 1) = 11 - Len(todo') + j BY <1>2, <1>3, <3>1
    <3> QED BY <1>3, <3>1, <3>2, <3>3
  <2>2. members' = {BuildOrder[j] : j \in 1..(11 - Len(todo'))}
    <3>1. 11 - Len(todo') = k BY <1>2, <1>3 DEF k, n
    <3>2. members' = {BuildOrder[j] : j \in 1..k} BY <1>1, <1>4, <1>5
    <3> QED BY <3>1, <3>2
  <2>3. ~listeners' BY <1>1 DEF Building
  <2>4. Building' BY <1>2, <1>3, <2>1, <2>2, <2>3 DEF Building
  <2>5. members' \subseteq Members BY <1>1, <1>4, OrdersAreOfMembers DEF Inv, LifeInv
  <2>6. BorrowersDieFirst'
    <3>1. Borrows(m) \subseteq members
      <4>1. \A b \in Borrows(m) : \E j \in 1..11 : j < k /\ BuildOrder[j] = b
        BY <1>1, <1>4, BuiltInOrder
      <4>2. \A j \in 1..11 : j < k => BuildOrder[j] \in members BY <1>2, <1>5 DEF k
      <4> QED BY <4>1, <4>2
    <3>2. \A x \in members : Borrows(x) \subseteq members \cup {x}
      BY DEF Inv, LifeInv, BorrowersDieFirst
    <3>3. ASSUME NEW x \in members' PROVE Borrows(x)' \subseteq members' \cup {x}
      <4>1. Borrows(x)' = Borrows(x) BY <1>1 DEF Borrows
      <4> QED BY <1>1, <3>1, <3>2, <4>1
    <3> QED BY <3>3 DEF BorrowersDieFirst
  <2>7. phase' \notin Working /\ phase' \notin Emptied BY <1>1 DEF Working, Emptied
  <2> QED BY <1>1, <2>4, <2>5, <2>6, <2>7 DEF LifeInv
<1>8. Serving'
  <2>1. CASE m = "overlay_socket"
    <3>1. PICK result \in {"started", "fails"} : s' = TryStart(config, result)
      BY <2>1 DEF Build, m
    <3>2. config \in Configs /\ SocketOK(s) /\ SessionOK(session)
      BY DEF Inv, Typed, Serving
    <3>3. /\ SocketOK(s') /\ (s'.path # NoPath => config.ui = "external" /\ s'.path = config.path)
          /\ s' = s \/ s'.client = NoConn
      BY <3>1, <3>2, TryStartOK
    <3>4. Mirrors(session, s') BY <3>3 DEF Inv, Serving, Mirrors
    <3> QED BY <1>1, <3>2, <3>3, <3>4 DEF Serving, Follows
  <2>2. CASE m # "overlay_socket"
    <3>1. s' = s BY <2>2 DEF Build, m
    <3> QED BY <1>1, <3>1 DEF Inv, Serving, Follows
  <2> QED BY <2>1, <2>2
<1>9. InboxOK' BY KernelKeepsOK DEF Inv, InboxOK, Build
<1>10. NoSocketNoListener'
  <2>1. CASE m = "overlay_socket" BY <1>1, <2>1 DEF NoSocketNoListener
  <2>2. CASE m # "overlay_socket"
    <3>1. s' = s BY <2>2 DEF Build, m
    <3> QED BY <1>1, <3>1 DEF Inv, NoSocketNoListener
  <2> QED BY <2>1, <2>2
<1> QED BY <1>6, <1>7, <1>8, <1>9, <1>10 DEF Inv

LEMMA SubscribeInv == Inv /\ Subscribe => Inv'
<1> SUFFICES ASSUME Inv, Subscribe PROVE Inv' OBVIOUS
<1>1. /\ phase = "init" /\ todo = <<>> /\ Building /\ listeners' = TRUE
      /\ UNCHANGED <<phase, todo, members, dispatchers, config, session, s, hung, inbox, loads, events>>
  BY DEF Inv, LifeInv, Subscribe, peers
<1>2. Typed' BY <1>1 DEF Inv, Typed
<1>3. LifeInv'
  <2>1. Building' BY <1>1 DEF Building
  <2>2. BorrowersDieFirst' BY <1>1 DEF Inv, LifeInv, BorrowersDieFirst, Borrows
  <2>3. phase' \notin Working /\ phase' \notin Emptied /\ phase \notin Working
    BY <1>1 DEF Working, Emptied
  <2> QED BY <1>1, <2>1, <2>2, <2>3 DEF Inv, LifeInv
<1>4. Serving' BY <1>1 DEF Inv, Serving, Mirrors, Follows
<1>5. InboxOK' BY <1>1 DEF Inv, InboxOK
<1>6. NoSocketNoListener' BY <1>1 DEF Inv, NoSocketNoListener
<1> QED BY <1>2, <1>3, <1>4, <1>5, <1>6 DEF Inv

LEMMA RegisterDispatchersInv == Inv /\ RegisterDispatchers => Inv'
<1> SUFFICES ASSUME Inv, RegisterDispatchers PROVE Inv' OBVIOUS
<1>1. /\ phase = "init" /\ listeners /\ Building /\ phase' = "running" /\ dispatchers' = TRUE
      /\ UNCHANGED <<todo, members, listeners, config, session, s, hung, inbox, loads, events>>
  BY DEF Inv, LifeInv, RegisterDispatchers, peers
<1>2. Typed' BY <1>1 DEF Inv, Typed
<1>3. LifeInv'
  <2>1. todo = <<>> BY <1>1 DEF Building
  <2>2. members = Members
    <3>1. Len(todo) = 0 BY <2>1
    <3> QED BY <1>1, <3>1, OrdersAreOfMembers DEF Building
  <2>3. BorrowersDieFirst' BY <1>1 DEF Inv, LifeInv, BorrowersDieFirst, Borrows
  <2>4. phase' \in Working /\ phase' \notin Emptied BY <1>1 DEF Working, Emptied
  <2> QED BY <1>1, <2>1, <2>2, <2>3, <2>4 DEF LifeInv
<1>4. Serving' BY <1>1 DEF Inv, Serving, Mirrors, Follows
<1>5. InboxOK' BY <1>1 DEF Inv, InboxOK
<1>6. NoSocketNoListener' BY <1>1 DEF Inv, NoSocketNoListener
<1> QED BY <1>2, <1>3, <1>4, <1>5, <1>6 DEF Inv

-----------------------------------------------------------------------------
(***************************************************************************)
(* Unloading, also of a plugin that was built in part.                     *)
(***************************************************************************)
LEMMA EmptyingStarts ==
  ASSUME members' \subseteq Members, todo' = TeardownOrder, listeners' = FALSE
  PROVE  Emptying'
<1>1. TeardownOrder \in Seq(Members)
  <2>1. \A j \in 1..11 : TeardownOrder[j] \in Members BY OrdersAreOfMembers
  <2> QED BY <2>1, OrdersAreOfMembers DEF TeardownOrder
<1>2. todo' \in Seq(Members) /\ Len(todo') = 11 BY <1>1, OrdersAreOfMembers
<1>3. members' \subseteq {TeardownOrder[j] : j \in (12 - Len(todo'))..11}
  <2>1. 12 - Len(todo') = 1 BY <1>2
  <2> QED BY <2>1, OrdersAreOfMembers
<1> QED BY <1>2, <1>3 DEF Emptying

LEMMA InitFailsInv == Inv /\ InitFails => Inv'
<1> SUFFICES ASSUME Inv, InitFails PROVE Inv' OBVIOUS
<1>1. /\ phase = "init" /\ phase' \in {"rejecting", "emptying"} /\ todo' = TeardownOrder
      /\ listeners' = FALSE /\ dispatchers' \in {FALSE, listeners}
      /\ UNCHANGED <<members, config, session, s, hung, inbox, loads, events>>
  BY DEF InitFails, peers
<1>2. Typed' BY <1>1 DEF Inv, Typed
<1>3. LifeInv'
  <2>1. members' \subseteq Members BY <1>1 DEF Inv, LifeInv
  <2>2. Emptying' BY <1>1, <2>1, EmptyingStarts
  <2>3. BorrowersDieFirst' BY <1>1 DEF Inv, LifeInv, BorrowersDieFirst, Borrows
  <2>4. session' = Idle BY <1>1 DEF Inv, LifeInv, Working
  <2> QED BY <1>1, <2>1, <2>2, <2>3, <2>4 DEF LifeInv, Working
<1>4. Serving' BY <1>1 DEF Inv, Serving, Mirrors, Follows
<1>5. InboxOK' BY <1>1 DEF Inv, InboxOK
<1>6. NoSocketNoListener' BY <1>1 DEF Inv, NoSocketNoListener
<1> QED BY <1>2, <1>3, <1>4, <1>5, <1>6 DEF Inv

LEMMA OutcomeOK == SendOutcomes \subseteq Outcomes
BY DEF SendOutcomes, Outcomes

LEMMA UnloadInv == Inv /\ Unload => Inv'
<1> SUFFICES ASSUME Inv, Unload PROVE Inv' OBVIOUS
<1>1. /\ phase \in {"running", "hollow"} /\ phase' = "exit" /\ todo' = TeardownOrder
      /\ listeners' = FALSE /\ UNCHANGED <<members, dispatchers, config, loads, events>>
      /\ KernelKeeps(inbox)
  BY DEF Unload
<1>2. PICK outcome \in Outcomes :
        LET w == Ended([session |-> session, s |-> s], outcome)
        IN  session' = w.session /\ s' = w.s
  BY OutcomeOK DEF Unload
<1>3. WorldOK([session |-> session, s |-> s]) BY DEF Inv, Serving, WorldOK
<1>4. SocketOK(s') /\ Mirrors(session', s') /\ session' = Idle /\ s'.path = s.path
  BY <1>2, <1>3, EndedOK DEF WorldOK
<1>5. Typed' BY <1>1 DEF Inv, Typed
<1>6. LifeInv'
  <2>1. members' \subseteq Members BY <1>1 DEF Inv, LifeInv
  <2>2. Emptying' BY <1>1, <2>1, EmptyingStarts
  <2>3. BorrowersDieFirst'
    <3>1. CASE members = Members BY <1>1, <3>1, BorrowsMembers DEF BorrowersDieFirst
    <3>2. CASE members = {} BY <1>1, <3>2 DEF BorrowersDieFirst
    <3> QED BY <1>1, <3>1, <3>2 DEF Inv, LifeInv, Working
  <2> QED BY <1>1, <1>4, <2>1, <2>2, <2>3 DEF LifeInv, Working
<1>7. Serving' BY <1>1, <1>4, IdleOK DEF Inv, Serving, Follows
<1>8. InboxOK' BY <1>1, KernelKeepsOK DEF Inv, InboxOK
<1>9. NoSocketNoListener'
  <2>1. CASE members = Members BY <1>1, <2>1, SocketIsMember DEF NoSocketNoListener
  <2>2. CASE phase = "hollow"
    <3>1. s = Stopped /\ session = Idle
      BY <2>2 DEF Inv, LifeInv, NoSocketNoListener, Working
    <3>2. s' = s
      <4>1. \A o : Ended([session |-> session, s |-> s], o).s = s BY <3>1, IdleOK DEF Ended
      <4> QED BY <1>2, <4>1
    <3> QED BY <3>1, <3>2 DEF NoSocketNoListener
  <2> QED BY <1>1, <2>1, <2>2 DEF Inv, LifeInv, Working
<1> QED BY <1>5, <1>6, <1>7, <1>8, <1>9 DEF Inv

(* Who referred to the member that is destroyed next is already gone.      *)
LEMMA ResetInv == Inv /\ Reset => Inv'
<1> SUFFICES ASSUME Inv, Reset PROVE Inv' OBVIOUS
<1> DEFINE n == Len(todo)
           k == 12 - Len(todo)
           m == Head(todo)
<1>1. /\ phase \in Emptied /\ todo # <<>> /\ Emptying /\ session = Idle
      /\ UNCHANGED <<phase, listeners, dispatchers, config, session, loads, events>>
      /\ members' = members \ {m} /\ todo' = Tail(todo)
      /\ s' = IF m = "overlay_socket" THEN Stopped ELSE s
      /\ KernelKeeps(inbox)
  BY DEF Inv, LifeInv, Reset, Working, Emptied
<1>2. todo \in Seq(Members) /\ n <= 11 /\ n \in Nat /\ n >= 1
  BY <1>1 DEF Emptying
<1>3. /\ todo' \in Seq(Members) /\ Len(todo') = n - 1
      /\ \A j \in 1..(n - 1) : todo'[j] = todo[j + 1]
  BY <1>1, <1>2
<1>4. m = TeardownOrder[k] /\ k \in 1..11
  <2>1. m = todo[1] BY <1>1, <1>2
  <2>2. todo[1] = TeardownOrder[11 - n + 1] BY <1>1, <1>2 DEF Emptying
  <2>3. 11 - n + 1 = k BY <1>2
  <2> QED BY <1>2, <2>1, <2>2, <2>3
<1>5. members \subseteq {TeardownOrder[j] : j \in k..11}
  BY <1>1 DEF Emptying
<1> HIDE DEF n, k, m
<1>6. Typed' BY <1>1 DEF Inv, Typed
<1>7. LifeInv'
  <2>1. \A j \in 1..Len(todo') : todo'[j] = TeardownOrder[11 - Len(todo') + j]
    <3> TAKE j \in 1..Len(todo')
    <3>1. j \in 1..(n - 1) /\ j + 1 \in 1..n BY <1>2, <1>3
    <3>2. todo[j + 1] = TeardownOrder[11 - n + (j + 1)]
      BY <1>1, <3>1 DEF Emptying, n
    <3>3. 11 - n + (j + 1) = 11 - Len(todo') + j BY <1>2, <1>3, <3>1
    <3> QED BY <1>3, <3>1, <3>2, <3>3
  <2>2. members' \subseteq {TeardownOrder[j] : j \in (12 - Len(todo'))..11}
    <3>1. 12 - Len(todo') = k + 1 BY <1>2, <1>3 DEF k, n
    <3>2. ASSUME NEW x \in members' PROVE \E j \in (k + 1)..11 : x = TeardownOrder[j]
      <4>1. PICK j \in k..11 : x = TeardownOrder[j] BY <1>1, <1>5
      <4>2. j # k BY <1>1, <1>4, <4>1
      <4> QED BY <1>4, <4>1, <4>2
    <3> QED BY <3>1, <3>2
  <2>3. Emptying' BY <1>1, <1>2, <1>3, <2>1, <2>2 DEF Emptying
  <2>4. members' \subseteq Members BY <1>1 DEF Inv, LifeInv
  <2>5. BorrowersDieFirst'
    <3>1. ASSUME NEW x \in members' PROVE m \notin Borrows(x)
      <4>1. PICK j \in k..11 : x = TeardownOrder[j] BY <1>1, <1>5
      <4>2. j \in 1..11 /\ ~(j < k) BY <1>4
      <4> QED BY <1>4, <4>1, <4>2, TornDownInOrder
    <3>2. \A x \in members : Borrows(x) \subseteq members \cup {x}
      BY DEF Inv, LifeInv, BorrowersDieFirst
    <3>3. ASSUME NEW x \in members' PROVE Borrows(x)' \subseteq members' \cup {x}
      <4>1. Borrows(x)' = Borrows(x) BY <1>1 DEF Borrows
      <4> QED BY <1>1, <3>1, <3>2, <4>1
    <3> QED BY <3>3 DEF BorrowersDieFirst
  <2>6. phase' \notin Working /\ phase' \in Emptied BY <1>1 DEF Working, Emptied
  <2> QED BY <1>1, <2>3, <2>4, <2>5, <2>6 DEF LifeInv, Emptied
<1>8. Serving'
  <2>1. SocketOK(s') /\ Mirrors(session, s') /\ (s'.path # NoPath => s' = s)
    BY <1>1, StoppedOK DEF Inv, Serving, Mirrors
  <2> QED BY <1>1, <2>1 DEF Inv, Serving, Follows, Mirrors
<1>9. InboxOK' BY <1>1, KernelKeepsOK DEF Inv, InboxOK
<1>10. NoSocketNoListener' BY <1>1 DEF Inv, NoSocketNoListener
<1> QED BY <1>6, <1>7, <1>8, <1>9, <1>10 DEF Inv

LEMMA TornDownInv == Inv /\ TornDown => Inv'
<1> SUFFICES ASSUME Inv, TornDown PROVE Inv' OBVIOUS
<1>1. /\ phase \in Emptied /\ todo = <<>> /\ Emptying /\ session = Idle
      /\ phase' \in {"unloaded", "hollow"} /\ config' = DefaultConfig
      /\ dispatchers' \in BOOLEAN
      /\ UNCHANGED <<todo, members, listeners, session, s, hung, inbox, loads, events>>
  BY DEF Inv, Typed, LifeInv, TornDown, Working, Emptied, peers
<1>2. members = {}
  <2>1. Len(todo) = 0 BY <1>1
  <2>2. (12 - Len(todo))..11 = {} BY <2>1
  <2> QED BY <1>1, <2>2 DEF Emptying
<1>3. s = Stopped BY <1>2 DEF Inv, NoSocketNoListener
<1>4. Typed'
  <2>1. config' \in Configs BY <1>1 DEF Configs, DefaultConfig, UiBackends
  <2> QED BY <1>1, <2>1 DEF Inv, Typed
<1>5. LifeInv' BY <1>1, <1>2 DEF LifeInv, Emptying, BorrowersDieFirst, Working, Emptied
<1>6. Serving' BY <1>1, <1>3, StoppedOK DEF Inv, Serving, Follows, Mirrors
<1>7. InboxOK' BY <1>1 DEF Inv, InboxOK
<1>8. NoSocketNoListener' BY <1>1, <1>3 DEF NoSocketNoListener
<1> QED BY <1>4, <1>5, <1>6, <1>7, <1>8 DEF Inv

-----------------------------------------------------------------------------
(***************************************************************************)
(* Reloads and sessions.                                                   *)
(***************************************************************************)

(* What a step of the working plugin owes, the members being all there.    *)
LEMMA ServesOn ==
  ASSUME Inv, phase \in Working, phase' \in Working,
         UNCHANGED <<todo, members, listeners, dispatchers, loads>>,
         events' \in 0..MaxEvents, config' \in Configs, Serving', InboxOK'
  PROVE  Inv'
<1>1. Typed' BY DEF Inv, Typed, Working
<1>2. LifeInv'
  <2>1. members' = Members /\ todo' = <<>> BY DEF Inv, LifeInv
  <2>2. BorrowersDieFirst' BY <2>1, BorrowsMembers DEF BorrowersDieFirst
  <2>3. phase' \notin Emptied BY DEF Working, Emptied
  <2> QED BY <2>1, <2>2, <2>3 DEF LifeInv, Working
<1>3. NoSocketNoListener' BY SocketIsMember DEF Inv, LifeInv, NoSocketNoListener
<1> QED BY <1>1, <1>2, <1>3 DEF Inv

LEMMA InboxKept == Inv /\ KernelKeeps(inbox) => InboxOK'
BY KernelKeepsOK DEF Inv, InboxOK

LEMMA ReloadInv ==
  ASSUME Inv, NEW conf \in ConfigsRead, NEW result, Reload(conf, result)
  PROVE  Inv'
<1>1. /\ EventLoop /\ listeners /\ events < MaxEvents /\ events' = events + 1
      /\ config' = conf /\ s' = TryStart(conf, result) /\ KernelKeeps(inbox)
      /\ UNCHANGED <<life, session, loads>>
  BY DEF Reload
<1>2. phase \in Working BY <1>1, AtWork DEF Working
<1>3. events' \in 0..MaxEvents BY <1>1, PluginAssumption DEF Inv, Typed
<1>4. conf \in Configs BY PluginAssumption
<1>5. SocketOK(s) /\ SessionOK(session) /\ Mirrors(session, s) BY DEF Inv, Serving
<1>6. /\ SocketOK(s') /\ (s'.path # NoPath => conf.ui = "external" /\ s'.path = conf.path)
      /\ s' = s \/ s'.client = NoConn
  BY <1>1, <1>4, <1>5, TryStartOK
<1>7. Serving' BY <1>1, <1>5, <1>6 DEF Serving, Follows, Mirrors
<1> QED BY <1>1, <1>2, <1>3, <1>4, <1>7, InboxKept, ServesOn DEF life

LEMMA BeginSessionInv ==
  ASSUME Inv, NEW n \in 1..MaxSlots, NEW i \in 1..MaxSlots, NEW result,
         NEW outcome \in SendOutcomes, BeginSession(n, i, result, outcome)
  PROVE  Inv'
<1> DEFINE t     == IF config.ui = "external" THEN TryStart(config, result) ELSE s
           begun == [size |-> n, index |-> i, backend |-> BackendMade(t)]
<1>1. /\ Dispatchable /\ session.index = 0 /\ i <= n /\ session' = begun
      /\ s' = Announce([session |-> begun, s |-> t], begun.index, TRUE, outcome)
      /\ KernelKeeps(inbox) /\ UNCHANGED <<life, config, loads, events>>
  BY DEF BeginSession
<1>2. phase \in Working BY <1>1, AtWork DEF Working, Dispatchable
<1>3. config \in Configs /\ events \in 0..MaxEvents /\ SocketOK(s) /\ Mirrors(Idle, s) /\ Follows
  BY <1>1 DEF Inv, Typed, Serving, SessionOK
<1>4. /\ SocketOK(t) /\ (t = s \/ t.client = NoConn)
      /\ (t.path # NoPath => config.ui = "external" /\ t.path = config.path)
  BY <1>3, TryStartOK DEF Follows
<1> HIDE DEF t
<1>5. SessionOK(begun) /\ begun.index = i /\ begun.backend = BackendMade(t)
  <2>1. n \in 0..MaxSlots /\ i \in 0..MaxSlots /\ i # 0 BY PluginAssumption
  <2>2. BackendMade(t) \in UiBackends BY DEF BackendMade, UiBackends
  <2> QED BY <1>1, <2>1, <2>2 DEF SessionOK
<1> HIDE DEF begun
<1>6. begun.backend # "external" => Mirrors(begun, t)
  BY <1>3, <1>4, IdleOK DEF Mirrors
<1>7. SocketOK(s') /\ Mirrors(begun, s') /\ s'.path = t.path
  BY <1>1, <1>4, <1>5, <1>6, OutcomeOK, AnnounceOK
<1>8. Serving' BY <1>1, <1>4, <1>5, <1>7 DEF Serving, Follows
<1> QED BY <1>1, <1>2, <1>3, <1>8, InboxKept, ServesOn DEF life

(* Where the plugin works, the socket and the session are as they should.  *)
LEMMA AtWorkOK ==
  ASSUME Inv
  PROVE  /\ WorldOK([session |-> session, s |-> s]) /\ SocketOK(s) /\ SessionOK(session)
         /\ Mirrors(session, s) /\ Follows /\ config \in Configs /\ events \in 0..MaxEvents
BY DEF Inv, Typed, Serving, WorldOK

LEMMA CycleInv ==
  ASSUME Inv, NEW i \in 1..MaxSlots, NEW outcome \in SendOutcomes, Cycle(i, outcome)
  PROVE  Inv'
<1> DEFINE w == Selected([session |-> session, s |-> s], i, outcome)
<1>1. /\ Dispatchable /\ session' = w.session /\ s' = w.s /\ KernelKeeps(inbox)
      /\ UNCHANGED <<life, config, loads, events>>
  BY DEF Cycle
<1>2. phase \in Working BY <1>1, AtWork DEF Working, Dispatchable
<1>3. i \in Nat \ {0} BY PluginAssumption
<1>4. WorldOK(w) /\ w.s.path = s.path BY <1>3, AtWorkOK, OutcomeOK, SelectedOK
<1> HIDE DEF w
<1>5. Serving' BY <1>1, <1>4, AtWorkOK DEF Serving, Follows, WorldOK
<1> QED BY <1>1, <1>2, <1>5, AtWorkOK, InboxKept, ServesOn DEF life

LEMMA EndSessionInv ==
  ASSUME Inv, NEW outcome \in SendOutcomes, EndSession(outcome)
  PROVE  Inv'
<1> DEFINE w == Ended([session |-> session, s |-> s], outcome)
<1>1. /\ Dispatchable /\ session' = w.session /\ s' = w.s /\ KernelKeeps(inbox)
      /\ UNCHANGED <<life, config, loads, events>>
  BY DEF EndSession
<1>2. phase \in Working BY <1>1, AtWork DEF Working, Dispatchable
<1>3. WorldOK(w) /\ w.s.path = s.path BY AtWorkOK, OutcomeOK, EndedOK
<1> HIDE DEF w
<1>4. Serving' BY <1>1, <1>3, AtWorkOK DEF Serving, Follows, WorldOK
<1> QED BY <1>1, <1>2, <1>4, AtWorkOK, InboxKept, ServesOn DEF life

(* The client of a session that shrinks is out of date.                    *)
LEMMA WindowClosesInv ==
  ASSUME Inv, NEW outcome \in SendOutcomes, WindowCloses(outcome)
  PROVE  Inv'
<1> DEFINE n  == session.size - 1
           w  == Ended([session |-> session, s |-> s], outcome)
           ss == [session EXCEPT !.size = n, !.index = IF @ > n THEN n ELSE @]
           u  == [s EXCEPT !.missed = s.client # NoConn]
<1>1. /\ EventLoop /\ listeners /\ session.index # 0 /\ KernelKeeps(inbox)
      /\ UNCHANGED <<life, config, loads, events>>
      /\ IF n = 0 THEN session' = w.session /\ s' = w.s ELSE session' = ss /\ s' = u
  BY DEF WindowCloses
<1>2. phase \in Working BY <1>1, AtWork DEF Working
<1>3. WorldOK(w) /\ w.s.path = s.path BY AtWorkOK, OutcomeOK, EndedOK
<1>4. n # 0 => SessionOK(ss)
  <2>1. /\ session \in [size : 0..MaxSlots, index : 0..MaxSlots,
                         backend : UiBackends \cup {"none"}]
        /\ session.index <= session.size
    BY AtWorkOK DEF SessionOK
  <2>2. session.size \in 0..MaxSlots /\ session.index \in 0..MaxSlots BY <2>1
  <2> DEFINE at == IF session.index > n THEN n ELSE session.index
  <2>3. n # 0 => n \in 0..MaxSlots /\ at \in 0..MaxSlots /\ at <= n /\ at # 0
    BY <1>1, <2>1, <2>2, PluginAssumption
  <2>4. ss = [session EXCEPT !.size = n, !.index = at] OBVIOUS
  <2> HIDE DEF ss, n, at
  <2>5. ASSUME n # 0
        PROVE  /\ ss \in [size : 0..MaxSlots, index : 0..MaxSlots,
                           backend : UiBackends \cup {"none"}]
               /\ ss.size = n /\ ss.index = at
    BY <2>1, <2>3, <2>4, <2>5
  <2> QED BY <2>3, <2>5 DEF SessionOK
<1>5. SocketOK(u) /\ u.path = s.path /\ Mirrors(ss, u)
  <2>1. s \in SocketType BY AtWorkOK DEF SocketOK
  <2>2. /\ u \in SocketType /\ u.client = s.client /\ u.path = s.path /\ u.buffer = s.buffer
        /\ u.listenWatch = s.listenWatch /\ u.clientWatch = s.clientWatch /\ u.told = s.told
        /\ (u.client # NoConn => u.missed)
    BY <2>1 DEF SocketType
  <2> HIDE DEF u
  <2> QED BY <2>2, AtWorkOK DEF SocketOK, Mirrors
<1> HIDE DEF n, w, ss, u
<1>6. Serving'
  <2>1. CASE n = 0 BY <1>1, <1>3, <2>1, AtWorkOK DEF Serving, Follows, WorldOK
  <2>2. CASE n # 0 BY <1>1, <1>4, <1>5, <2>2, AtWorkOK DEF Serving, Follows
  <2> QED BY <2>1, <2>2
<1> QED BY <1>1, <1>2, <1>6, AtWorkOK, InboxKept, ServesOn DEF life

-----------------------------------------------------------------------------
(***************************************************************************)
(* The event loop's callbacks.                                             *)
(***************************************************************************)
LEMMA ListenerReadableInv ==
  ASSUME Inv, NEW watches \in Watched, ListenerReadable(watches)
  PROVE  Inv'
<1> DEFINE u == OnListenerReadable(s, session.backend = "external", watches)
<1>1. /\ EventLoop /\ s.listenWatch /\ s.backlog # <<>> /\ s' = u /\ KernelKeeps(inbox)
      /\ UNCHANGED <<life, config, session, loads, events>>
  BY DEF ListenerReadable
<1>2. phase \in Working BY <1>1, AtWork DEF Working
<1>3. SocketOK(u) /\ Mirrors(session, u) /\ u.path = s.path
  BY <1>1, AtWorkOK, OnListenerReadableOK DEF Watched
<1> HIDE DEF u
<1>4. Serving' BY <1>1, <1>3, AtWorkOK DEF Serving, Follows, Mirrors
<1> QED BY <1>1, <1>2, <1>4, AtWorkOK, InboxKept, ServesOn DEF life

LEMMA ListenerErrorInv == Inv /\ ListenerError => Inv'
<1> SUFFICES ASSUME Inv, ListenerError PROVE Inv' OBVIOUS
<1>1. /\ EventLoop /\ s.listenWatch /\ s' = OnListenerError(s) /\ KernelKeeps(inbox)
      /\ events < MaxEvents /\ events' = events + 1
      /\ UNCHANGED <<life, config, session, loads>>
  BY DEF ListenerError
<1>2. phase \in Working BY <1>1, AtWork DEF Working
<1>3. events' \in 0..MaxEvents BY <1>1, AtWorkOK, PluginAssumption
<1>4. SocketOK(s') /\ s'.client = NoConn /\ s'.path = NoPath
  BY <1>1, AtWorkOK, OnListenerErrorOK
<1>5. Serving' BY <1>1, <1>4, AtWorkOK DEF Serving, Follows, Mirrors
<1> QED BY <1>1, <1>2, <1>3, <1>5, AtWorkOK, InboxKept, ServesOn DEF life

(* What is read comes after what the same client sent before.              *)
LEMMA ClientReadableInv == Inv /\ ClientReadable => Inv'
<1> SUFFICES ASSUME Inv, ClientReadable PROVE Inv' OBVIOUS
<1> DEFINE c        == s.clientWatch
           received == [inbox EXCEPT ![c] = <<>>]
           u        == [s EXCEPT !.buffer = Received(@, inbox[c])]
<1>1. /\ EventLoop /\ s.clientWatch # NoConn /\ KernelKeeps(received)
      /\ UNCHANGED <<todo, members, listeners, dispatchers, config, session, loads, events>>
      /\ \/ s' = OnClientHangup(s) /\ phase' = phase
         \/ s.client = NoConn /\ s' = OnDeadClientReadable(s) /\ phase' = phase
         \/ s.client # NoConn /\ s' = u /\ phase' = "dispatching"
  BY DEF ClientReadable
<1>2. phase \in Working /\ phase' \in Working BY <1>1, AtWork DEF Working
<1>3. InboxOK'
  <2>1. hung \subseteq Conns /\ inbox \in [Conns -> Seq(ChunksSent)]
        /\ \A d \in Conns : StreamOf(inbox[d], d)
    BY DEF Inv, InboxOK
  <2>2. ASSUME NEW d \in Conns PROVE StreamOf(received[d], d)
    <3>1. received[d] = <<>> \/ received[d] = inbox[d] BY <2>1
    <3> QED BY <2>1, <3>1, EmptyStream
  <2> HIDE DEF received
  <2> QED BY <1>1, <2>1, <2>2, KernelKeepsOK
<1>4. SocketOK(s') /\ Mirrors(session, s') /\ s'.path = s.path
  <2>1. CASE s' = OnClientHangup(s) BY <2>1, AtWorkOK, WatchEndsOK DEF Mirrors
  <2>2. CASE s.client = NoConn /\ s' = OnDeadClientReadable(s)
    BY <2>2, AtWorkOK, WatchEndsOK DEF Mirrors
  <2>3. CASE s.client # NoConn /\ s' = u
    <3>1. s \in SocketType /\ c = s.client /\ c \in Conns
      BY <2>3, AtWorkOK DEF SocketOK, SocketType
    <3>2. StreamOf(s.buffer, c) /\ StreamOf(inbox[c], c)
      <4>1. s.buffer \in Seq(ChunksSent) /\ \A j \in 1..Len(s.buffer) : s.buffer[j].from = s.client
        BY AtWorkOK DEF SocketOK, SocketType
      <4> QED BY <3>1, <4>1 DEF StreamOf, Inv, InboxOK
    <3>3. StreamOf(Received(s.buffer, inbox[c]), c) /\ Len(Received(s.buffer, inbox[c])) <= MaxBuffer
      BY <3>2, ReceivedOK
    <3>4. /\ u \in SocketType /\ u.buffer = Received(s.buffer, inbox[c])
          /\ u.client = s.client /\ u.path = s.path /\ u.listenWatch = s.listenWatch
          /\ u.clientWatch = s.clientWatch /\ u.told = s.told /\ u.missed = s.missed
      BY <3>1, <3>3 DEF SocketType, StreamOf
    <3> HIDE DEF u
    <3> QED BY <2>3, <3>1, <3>3, <3>4, AtWorkOK DEF SocketOK, Mirrors, StreamOf
  <2> QED BY <1>1, <2>1, <2>2, <2>3
<1>5. Serving' BY <1>1, <1>4, AtWorkOK DEF Serving, Follows, Mirrors
<1> QED BY <1>1, <1>2, <1>3, <1>5, AtWorkOK, ServesOn

(* A line is taken off the buffer before it is executed.                   *)
LEMMA DispatchLineInv ==
  ASSUME Inv, NEW outcome \in Outcomes, DispatchLine(outcome)
  PROVE  Inv'
<1> DEFINE n    == LineEnd(s.buffer)
           rest == SubSeq(s.buffer, n + 1, Len(s.buffer))
           line == SubSeq(s.buffer, 1, n)
           t    == [s EXCEPT !.buffer = rest]
           w    == Execute([session |-> session, s |-> t], ParseCommand(line), outcome)
<1>1. /\ phase = "dispatching" /\ KernelKeeps(inbox)
      /\ UNCHANGED <<todo, members, listeners, dispatchers, config, loads, events>>
      /\ IF n = 0 THEN phase' = "running" /\ UNCHANGED <<session, s>>
         ELSE session' = w.session /\ s' = w.s /\ phase' = phase
  BY DEF DispatchLine
<1>2. phase \in Working /\ phase' \in Working BY <1>1 DEF Working
<1>3. s \in SocketType /\ StreamOf(s.buffer, s.client) /\ Len(s.buffer) <= MaxBuffer
  BY AtWorkOK DEF SocketOK, SocketType, StreamOf
<1>4. Len(s.buffer) \in Nat /\ n \in 0..Len(s.buffer) BY <1>3, LineEndInBuffer DEF StreamOf
<1> HIDE DEF n
<1>5. StreamOf(rest, s.client) /\ Len(rest) <= MaxBuffer /\ line \in Seq(ChunksSent)
  <2>1. n + 1 \in Nat /\ n + 1 >= 1 /\ n \in Nat /\ n <= Len(s.buffer) BY <1>4
  <2>2. /\ StreamOf(rest, s.client)
        /\ Len(rest) = IF n + 1 <= Len(s.buffer) THEN Len(s.buffer) - (n + 1) + 1 ELSE 0
    BY <1>3, <1>4, <2>1, PartOfStream
  <2>3. StreamOf(line, s.client) BY <1>3, <2>1, PartOfStream
  <2>4. MaxBuffer \in Nat BY OverlayAssumption
  <2> HIDE DEF rest, line
  <2> QED BY <1>3, <1>4, <2>2, <2>3, <2>4 DEF StreamOf
<1> HIDE DEF rest, line
<1>6. WorldOK([session |-> session, s |-> t]) /\ t.path = s.path
  <2>1. /\ t \in SocketType /\ t.buffer = rest /\ t.client = s.client /\ t.path = s.path
        /\ t.listenWatch = s.listenWatch /\ t.clientWatch = s.clientWatch /\ t.told = s.told
        /\ t.missed = s.missed
    BY <1>3, <1>5 DEF SocketType, StreamOf
  <2> HIDE DEF t
  <2>2. SocketOK(t) /\ Mirrors(session, t) BY <1>5, <2>1, AtWorkOK DEF SocketOK, Mirrors, StreamOf
  <2> QED BY <2>1, <2>2, AtWorkOK DEF WorldOK
<1> HIDE DEF t
<1>7. WorldOK(w) /\ w.s.path = s.path
  <2>1. ParseCommand(line).type = "select" => ParseCommand(line).index \in Nat
    BY <1>5, ParseCommandOK
  <2> QED BY <1>6, <2>1, ExecuteOK
<1> HIDE DEF w
<1>8. Serving'
  <2>1. CASE n = 0 BY <1>1, <2>1, AtWorkOK DEF Serving, Follows, Mirrors
  <2>2. CASE n # 0 BY <1>1, <1>7, <2>2, AtWorkOK DEF Serving, Follows, WorldOK
  <2> QED BY <2>1, <2>2
<1> QED BY <1>1, <1>2, <1>8, AtWorkOK, InboxKept, ServesOn

-----------------------------------------------------------------------------
(***************************************************************************)
(* Peers, which may act at any moment.                                     *)
(***************************************************************************)
LEMMA ConnectInv == ASSUME Inv, NEW c \in Conns, Connect(c) PROVE Inv'
<1> DEFINE u == [s EXCEPT !.backlog = Append(@, c)]
<1>1. /\ s.path # NoPath /\ s' = u
      /\ UNCHANGED <<life, config, session, hung, inbox, loads, events>>
  BY DEF Connect, peers
<1>2. SocketOK(u) /\ Mirrors(session, u) /\ u.path = s.path
  <2>1. s \in SocketType BY AtWorkOK DEF SocketOK
  <2>2. Append(s.backlog, c) \in Seq(Conns) BY <2>1 DEF SocketType
  <2>3. /\ u \in SocketType /\ u.client = s.client /\ u.path = s.path /\ u.buffer = s.buffer
        /\ u.listenWatch = s.listenWatch /\ u.clientWatch = s.clientWatch /\ u.told = s.told
        /\ u.missed = s.missed
    BY <2>1, <2>2 DEF SocketType
  <2> HIDE DEF u
  <2> QED BY <2>3, AtWorkOK DEF SocketOK, Mirrors
<1> HIDE DEF u
<1>3. Typed' BY <1>1 DEF Inv, Typed, life
<1>4. LifeInv' BY <1>1, LifeKept DEF Inv
<1>5. Serving' BY <1>1, <1>2, AtWorkOK DEF Serving, Follows
<1>6. InboxOK' BY <1>1 DEF Inv, InboxOK
<1>7. NoSocketNoListener' BY <1>1, StoppedOK DEF Inv, NoSocketNoListener, life
<1> QED BY <1>3, <1>4, <1>5, <1>6, <1>7 DEF Inv

LEMMA PeerSendsInv ==
  ASSUME Inv, NEW c \in Conns, NEW chunk \in Chunks, PeerSends(c, chunk)
  PROVE  Inv'
<1> DEFINE q == Append(inbox[c], SentOn(c, chunk))
<1>1. /\ events < MaxEvents /\ events' = events + 1 /\ inbox' = [inbox EXCEPT ![c] = q]
      /\ UNCHANGED <<life, config, session, s, hung, loads>>
  BY DEF PeerSends
<1>2. Typed'
  <2>1. events' \in 0..MaxEvents BY <1>1, AtWorkOK, PluginAssumption
  <2> QED BY <1>1, <2>1 DEF Inv, Typed, life
<1>3. LifeInv' BY <1>1, LifeKept DEF Inv
<1>4. Serving' BY <1>1 DEF Inv, Serving, Follows, Mirrors
<1>5. InboxOK'
  <2>1. /\ hung \subseteq Conns /\ inbox \in [Conns -> Seq(ChunksSent)]
        /\ \A d \in Conns : StreamOf(inbox[d], d)
    BY DEF Inv, InboxOK
  <2>2. SentOn(c, chunk) \in ChunksSent /\ SentOn(c, chunk).from = c BY DEF ChunksSent, SentOn
  <2>3. StreamOf(q, c)
    <3>1. inbox[c] \in Seq(ChunksSent) /\ \A j \in 1..Len(inbox[c]) : inbox[c][j].from = c
      BY <2>1 DEF StreamOf
    <3> QED BY <2>2, <3>1 DEF StreamOf
  <2> HIDE DEF q
  <2>4. \A d \in Conns : StreamOf(inbox'[d], d) BY <1>1, <2>1, <2>3
  <2>5. inbox' \in [Conns -> Seq(ChunksSent)] BY <1>1, <2>1, <2>3 DEF StreamOf
  <2> QED BY <1>1, <2>1, <2>4, <2>5 DEF InboxOK
<1>6. NoSocketNoListener' BY <1>1 DEF Inv, NoSocketNoListener, life
<1> QED BY <1>2, <1>3, <1>4, <1>5, <1>6 DEF Inv

LEMMA HangUpInv == ASSUME Inv, NEW c \in Conns, HangUp(c) PROVE Inv'
<1>1. hung' = hung \cup {c} /\ UNCHANGED <<life, config, session, s, inbox, loads, events>>
  BY DEF HangUp
<1>2. Typed' BY <1>1 DEF Inv, Typed, life
<1>3. LifeInv' BY <1>1, LifeKept DEF Inv
<1>4. Serving' BY <1>1 DEF Inv, Serving, Follows, Mirrors
<1>5. InboxOK' BY <1>1 DEF Inv, InboxOK
<1>6. NoSocketNoListener' BY <1>1 DEF Inv, NoSocketNoListener, life
<1> QED BY <1>2, <1>3, <1>4, <1>5, <1>6 DEF Inv

LEMMA NothingHappens == Inv /\ UNCHANGED vars => Inv'
<1> SUFFICES ASSUME Inv, UNCHANGED vars PROVE Inv' OBVIOUS
<1>1. /\ UNCHANGED <<life, config, session, s, hung, inbox, loads, events>>
  BY DEF vars, peers
<1>2. Typed' BY <1>1 DEF Inv, Typed, life
<1>3. LifeInv' BY <1>1, LifeKept DEF Inv
<1>4. Serving' BY <1>1 DEF Inv, Serving, Follows, Mirrors
<1>5. InboxOK' BY <1>1 DEF Inv, InboxOK
<1>6. NoSocketNoListener' BY <1>1 DEF Inv, NoSocketNoListener, life
<1> QED BY <1>2, <1>3, <1>4, <1>5, <1>6 DEF Inv

-----------------------------------------------------------------------------
(***************************************************************************)
(* The theorems.                                                           *)
(***************************************************************************)
LEMMA NextInv == Inv /\ [Next]_vars => Inv'
<1> SUFFICES ASSUME Inv, [Next]_vars PROVE Inv' OBVIOUS
<1>1. CASE Load BY <1>1, LoadInv
<1>2. CASE Build BY <1>2, BuildInv
<1>3. CASE Subscribe BY <1>3, SubscribeInv
<1>4. CASE RegisterDispatchers BY <1>4, RegisterDispatchersInv
<1>5. CASE InitFails BY <1>5, InitFailsInv
<1>6. CASE Unload BY <1>6, UnloadInv
<1>7. CASE Reset BY <1>7, ResetInv
<1>8. CASE TornDown BY <1>8, TornDownInv
<1>9. CASE \E conf \in ConfigsRead, result \in {"started", "fails"} : Reload(conf, result)
  BY <1>9, ReloadInv
<1>10. CASE \E n \in 1..MaxSlots, i \in 1..MaxSlots, result \in {"started", "fails"},
              outcome \in SendOutcomes : BeginSession(n, i, result, outcome)
  BY <1>10, BeginSessionInv
<1>11. CASE \E i \in 1..MaxSlots, outcome \in SendOutcomes : Cycle(i, outcome)
  BY <1>11, CycleInv
<1>12. CASE \E outcome \in SendOutcomes : EndSession(outcome) BY <1>12, EndSessionInv
<1>13. CASE \E outcome \in SendOutcomes : WindowCloses(outcome) BY <1>13, WindowClosesInv
<1>14. CASE \E watches \in Watched : ListenerReadable(watches) BY <1>14, ListenerReadableInv
<1>15. CASE ListenerError BY <1>15, ListenerErrorInv
<1>16. CASE ClientReadable BY <1>16, ClientReadableInv
<1>17. CASE \E outcome \in Outcomes : DispatchLine(outcome) BY <1>17, DispatchLineInv
<1>18. CASE \E c \in Conns : Connect(c) \/ HangUp(c) BY <1>18, ConnectInv, HangUpInv
<1>19. CASE \E c \in Conns, chunk \in Chunks : PeerSends(c, chunk) BY <1>19, PeerSendsInv
<1>20. CASE UNCHANGED vars BY <1>20, NothingHappens
<1> QED
  BY <1>1, <1>2, <1>3, <1>4, <1>5, <1>6, <1>7, <1>8, <1>9, <1>10, <1>11, <1>12, <1>13,
     <1>14, <1>15, <1>16, <1>17, <1>18, <1>19, <1>20 DEF Next

LEMMA InvHolds == Spec => []Inv
BY InitInv, NextInv, PTL DEF Spec

(* Every variable of the plugin and its socket has its type, and no line   *)
(* of a peer outgrows the receive buffer (overlay_socket_server.cpp:148).  *)
THEOREM PluginTypes == Spec => []TypeOK
<1>1. Inv => TypeOK
  <2> SUFFICES ASSUME Inv PROVE TypeOK OBVIOUS
  <2>1. todo \in Seq(Members)
    <3>1. CASE phase \in {"init"} \cup Emptied BY <3>1 DEF Inv, LifeInv, Building, Emptying
    <3>2. CASE todo = <<>> BY <3>2
    <3> QED BY <3>1, <3>2 DEF Inv, LifeInv, Typed, Working, Emptied
  <2>2. Range(todo) \subseteq Members BY <2>1 DEF Range
  <2>3. s \in SocketType /\ Len(s.buffer) <= MaxBuffer BY AtWorkOK DEF SocketOK
  <2>4. session \in [size : 0..MaxSlots, index : 0..MaxSlots, backend : UiBackends \cup {"none"}]
    BY AtWorkOK DEF SessionOK
  <2> QED BY <2>2, <2>3, <2>4 DEF TypeOK, Inv, Typed, LifeInv, InboxOK, SocketType
<1> QED BY <1>1, InvHolds, PTL

(* However sends, reloads, errors and watches fail, a listening socket is  *)
(* watched and a client is the one that is watched                         *)
(* (hyprland_overlay_socket.cpp:41-49, 76-85).                             *)
THEOREM NobodyIsUnheard == Spec => []ConnectedIsWatched
<1>1. Inv => ConnectedIsWatched BY AtWorkOK DEF ConnectedIsWatched, SocketOK
<1> QED BY <1>1, InvHolds, PTL

(* Nothing a client left unfinished comes before the lines of the next     *)
(* (overlay_socket_server.cpp:105-111).                                    *)
THEOREM BuffersAreNotShared == Spec => []StreamOfOneClient
<1>1. Inv => StreamOfOneClient
  <2> SUFFICES ASSUME Inv PROVE StreamOfOneClient OBVIOUS
  <2>1. s.buffer \in Seq(ChunksSent) /\ \A j \in 1..Len(s.buffer) : s.buffer[j].from = s.client
    BY AtWorkOK DEF SocketOK, SocketType
  <2> QED BY <2>1 DEF StreamOfOneClient
<1> QED BY <1>1, InvHolds, PTL

(* A client all of whose messages went out knows the selected slot, also   *)
(* when a reload, an unload or it itself ends the session                  *)
(* (external_overlay_ui.cpp:13-30, plugin_lifecycle.cpp:135-140).          *)
THEOREM ToldIsSelected == Spec => []PeerMirrorsSession
<1>1. Inv => PeerMirrorsSession BY AtWorkOK DEF PeerMirrorsSession, Mirrors
<1> QED BY <1>1, InvHolds, PTL

(* No listener outlives the configuration that asks for it, nor the state  *)
(* of the plugin (plugin_overlay_wiring.cpp:46-51).                        *)
THEOREM SocketFollowsConfig == Spec => []NoListenerOutlivesConfig
<1>1. Inv => NoListenerOutlivesConfig
  BY AtWorkOK DEF NoListenerOutlivesConfig, Follows, Inv, NoSocketNoListener
<1> QED BY <1>1, InvHolds, PTL

(* Wherever a load fails, and in every unload, nothing a living member     *)
(* refers to is gone (mru_plugin.hpp:25-39).                               *)
THEOREM NoMemberDangles == Spec => []BorrowersDieFirst
<1>1. Inv => BorrowersDieFirst BY DEF Inv, LifeInv
<1> QED BY <1>1, InvHolds, PTL

(* Whatever can be called back between loads and unloads dereferences      *)
(* members that exist (mru_plugin.cpp:46-66, plugin_lifecycle.cpp:128-150).*)
THEOREM CalledBackWithState == Spec => []CallbacksHaveState
<1>1. Inv => CallbacksHaveState
  <2> SUFFICES ASSUME Inv PROVE CallbacksHaveState OBVIOUS
  <2>1. "controller" \in Members BY DEF Members, BuildOrder, Range
  <2>2. CASE phase \in Working
    BY <2>1, <2>2 DEF CallbacksHaveState, Inv, LifeInv
  <2>3. CASE phase = "hollow"
    <3>1. members = {} /\ ~listeners /\ session = Idle /\ s = Stopped
      BY <2>3 DEF Inv, LifeInv, NoSocketNoListener, Working
    <3> QED BY <3>1, IdleOK, StoppedOK DEF CallbacksHaveState
  <2> QED BY <2>2, <2>3 DEF CallbacksHaveState, Working
<1> QED BY <1>1, InvHolds, PTL
=============================================================================
