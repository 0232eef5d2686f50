------------------------------- MODULE Plugin -------------------------------
(***************************************************************************)
(* The life of the plugin (mru_plugin.cpp, plugin_lifecycle.cpp) around    *)
(* the overlay socket: PLUGIN_INIT builds the members of PluginState one   *)
(* by one and may fail between any two, the listeners and dispatchers act  *)
(* on them, a reload starts, moves or stops the socket (plugin_events.cpp, *)
(* plugin_overlay_wiring.cpp), teardown_state destroys them.  Peers of the *)
(* socket are processes of their own: they connect, send and hang up at    *)
(* any moment, also in the midst of a load or unload.                      *)
(*                                                                         *)
(* Of a session only its size, the selected slot and the backend are kept; *)
(* what the controller does is in SessionController, the border in         *)
(* BorderUI.                                                               *)
(***************************************************************************)
EXTENDS OverlaySocket

CONSTANTS MaxSlots,   \* bound: windows of a session
          ConfigsRead, \* what the configuration may say
          MaxLoads,   \* bound: times the plugin is loaded
          MaxEvents   \* bound: reloads, listener errors and chunks sent by peers

UiBackends == {"border", "external", "null"}

Configs == [ui : UiBackends, path : Paths \cup {NoPath}]

(* PluginConfig{}                                                          *)
DefaultConfig == [ui |-> "border", path |-> NoPath]

ASSUME PluginAssumption ==
  /\ ConfigsRead \subseteq Configs /\ ConfigsRead # {}
  /\ MaxSlots \in Nat \ {0} /\ MaxLoads \in Nat /\ MaxEvents \in Nat

(* The members in the order build_state() makes them, and in the order     *)
(* teardown_state() resets them.                                           *)
BuildOrder ==
  <<"registry", "scheduler", "tracker", "source", "fg", "navigator", "border_io",
    "pulse_timer", "overlay_socket", "ui", "controller">>

(* Fault: the members are destroyed as they are declared.                  *)
TeardownAsDeclared ==
  <<"scheduler", "registry", "tracker", "source", "fg", "navigator", "border_io",
    "pulse_timer", "ui", "overlay_socket", "controller">>

TeardownOrder ==
  <<"controller", "ui", "overlay_socket", "pulse_timer", "border_io", "navigator", "fg",
    "source", "tracker", "registry", "scheduler">>

Members == Range(BuildOrder)

VARIABLES
  phase,        \* "unloaded", "init", "running", "dispatching" what a peer sent,
                \* "exit", "rejecting", "emptying", or "hollow": loaded, with its
                \* state torn down
  todo,         \* the members still to be built, or to be reset
  members,      \* the members that exist
  listeners,    \* the event listeners are subscribed
  dispatchers,  \* the compositor has the dispatchers
  config,       \* what was last read
  session,      \* of the controller and the proxy: slots, selected slot, backend
  s,            \* the overlay socket
  hung,         \* the connections whose peer has closed its end
  inbox,        \* what the kernel holds of what was sent on each
  loads, events \* counters of bounded steps

life  == <<phase, todo, members, listeners, dispatchers>>
peers == <<hung, inbox>>
vars  == <<life, config, session, s, peers, loads, events>>

Idle == [size |-> 0, index |-> 0, backend |-> "none"]

(* The references each member holds; the backend inside ui holds its own.  *)
Borrows(m) ==
  CASE m = "tracker"    -> {"scheduler", "registry"}
    [] m = "source"     -> {"registry", "tracker"}
    [] m \in {"fg", "navigator"} -> {"registry"}
    [] m = "controller" -> {"source", "fg", "ui", "tracker"}
    [] m = "ui"         -> CASE session.backend = "border" ->
                                  {"border_io", "pulse_timer", "navigator", "registry"}
                             [] session.backend = "external" -> {"overlay_socket", "registry"}
                             [] OTHER -> {}
    [] OTHER            -> {}

Init ==
  /\ phase = "unloaded" /\ todo = <<>> /\ members = {} /\ listeners = FALSE
  /\ dispatchers = FALSE /\ config = DefaultConfig /\ session = Idle /\ s = Stopped
  /\ hung = {} /\ inbox = [c \in Conns |-> <<>>]
  /\ loads = 0 /\ events = 0

-----------------------------------------------------------------------------
(***************************************************************************)
(* The backend's messages and the socket's commands.                       *)
(***************************************************************************)
Outcomes == {"sent", "full", "error"}

(* What a send to the client may come to: a peer that is gone is an error. *)
SendOutcomes == IF s.client \in hung THEN {"error"} ELSE Outcomes

(* Fault: the backend hears of a selection, not of the end.                *)
AnnounceSelection(w, i, isStart, outcome) ==
  IF w.session.backend = "external" /\ i # 0 THEN SendLine(w.s, i, isStart, outcome) ELSE w.s

(* ui_.on_*(): the external backend sends, the others have no socket.      *)
Announce(w, i, isStart, outcome) ==
  IF w.session.backend = "external" THEN SendLine(w.s, i, isStart, outcome) ELSE w.s

(* end_session(); the proxy drops the backend.                             *)
Ended(w, outcome) ==
  IF w.session.index = 0 THEN w
  ELSE [session |-> Idle, s |-> Announce(w, 0, FALSE, outcome)]

(* cycle() in a session, and select_index().                               *)
Selected(w, i, outcome) ==
  IF i > w.session.size THEN w
  ELSE [session |-> [w.session EXCEPT !.index = i], s |-> Announce(w, i, FALSE, outcome)]

(* overlay_command_handler().                                              *)
Execute(w, cmd, outcome) ==
  CASE cmd.type = "select"            -> Selected(w, cmd.index + 1, outcome)
    [] cmd.type \in {"apply", "cancel"} -> Ended(w, outcome)
    [] OTHER                          -> w

(* Fault: a configuration without the overlay leaves the socket alone.     *)
TryStartOnly(conf, result) ==
  IF conf.ui # "external" \/ conf.path = NoPath THEN s ELSE EnsureStarted(s, conf.path, result)

(* try_start_overlay_socket() under configuration conf.                    *)
TryStart(conf, result) ==
  IF conf.ui # "external" \/ conf.path = NoPath THEN Stopped
  ELSE EnsureStarted(s, conf.path, result)

(* The connections the plugin still holds a descriptor of.  With the last  *)
(* one the kernel discards what it holds, and the connection is free.      *)
Open == (Range(s.backlog) \cup {s.client, s.clientWatch}) \ {NoConn}

KernelKeeps(received) ==
  /\ inbox' = [c \in Conns |-> IF c \in Open' THEN received[c] ELSE <<>>]
  /\ hung' = hung \cap Open'

-----------------------------------------------------------------------------
(***************************************************************************)
(* Loading and unloading.                                                  *)
(***************************************************************************)

(* PLUGIN_INIT; the configuration is read before anything is built.        *)
Load ==
  /\ phase = "unloaded" /\ loads < MaxLoads /\ loads' = loads + 1
  /\ phase' = "init" /\ todo' = BuildOrder
  /\ config' \in ConfigsRead
  /\ UNCHANGED <<members, listeners, dispatchers, session, s, peers, events>>

(* build_state() makes the next member; the new socket is started at once. *)
Build ==
  /\ phase = "init" /\ todo # <<>>
  /\ members' = members \cup {Head(todo)} /\ todo' = Tail(todo)
  /\ IF Head(todo) = "overlay_socket"
     THEN \E result \in {"started", "fails"} : s' = TryStart(config, result)
     ELSE UNCHANGED s
  /\ KernelKeeps(inbox)
  /\ UNCHANGED <<phase, listeners, dispatchers, config, session, loads, events>>

Subscribe ==
  /\ phase = "init" /\ todo = <<>> /\ ~listeners /\ listeners' = TRUE
  /\ UNCHANGED <<phase, todo, members, dispatchers, config, session, s, peers, loads, events>>

RegisterDispatchers ==
  /\ phase = "init" /\ listeners
  /\ dispatchers' = TRUE /\ phase' = "running"
  /\ UNCHANGED <<todo, members, listeners, config, session, s, peers, loads, events>>

(* Fault: the teardown of a failed load leaves the listeners.              *)
InitFailsSubscribed ==
  /\ phase = "init" /\ phase' \in {"rejecting", "emptying"} /\ todo' = TeardownOrder
  /\ dispatchers' \in {FALSE, listeners}
  /\ UNCHANGED <<members, listeners, config, session, s, peers, loads, events>>

(* An exception in PLUGIN_INIT, maybe with some of the dispatchers made.   *)
(* After a std::exception the compositor rejects the plugin; after any     *)
(* other one it takes it for loaded.                                       *)
InitFails ==
  /\ phase = "init"
  /\ phase' \in {"rejecting", "emptying"}
  /\ todo' = TeardownOrder /\ listeners' = FALSE
  /\ dispatchers' \in {FALSE, listeners}
  /\ UNCHANGED <<members, config, session, s, peers, loads, events>>

(* PLUGIN_EXIT clears the listeners and ends the session, then resets.     *)
Unload ==
  /\ phase \in {"running", "hollow"}
  /\ phase' = "exit" /\ todo' = TeardownOrder /\ listeners' = FALSE
  /\ \E outcome \in SendOutcomes :
       LET w == Ended([session |-> session, s |-> s], outcome)
       IN  session' = w.session /\ s' = w.s
  /\ KernelKeeps(inbox)
  /\ UNCHANGED <<members, dispatchers, config, loads, events>>

(* One reset() of teardown_state(); the socket's destructor stops it.      *)
Reset ==
  /\ phase \in {"exit", "rejecting", "emptying"} /\ todo # <<>>
  /\ members' = members \ {Head(todo)} /\ todo' = Tail(todo)
  /\ s' = IF Head(todo) = "overlay_socket" THEN Stopped ELSE s
  /\ KernelKeeps(inbox)
  /\ UNCHANGED <<phase, listeners, dispatchers, config, session, loads, events>>

(* Only a plugin that was unloaded loses its dispatchers.                  *)
TornDown ==
  /\ phase \in {"exit", "rejecting", "emptying"} /\ todo = <<>>
  /\ config' = DefaultConfig
  /\ phase' = IF phase = "emptying" THEN "hollow" ELSE "unloaded"
  /\ dispatchers' = (dispatchers /\ phase = "emptying")
  /\ UNCHANGED <<todo, members, listeners, session, s, peers, loads, events>>

-----------------------------------------------------------------------------
(***************************************************************************)
(* Listeners, dispatchers and the callbacks of the event loop.  All run on *)
(* the compositor's one thread, never within a load or unload.             *)
(***************************************************************************)
EventLoop == phase \in {"running", "hollow"}

(* config.reloaded.                                                        *)
Reload(conf, result) ==
  /\ EventLoop /\ listeners /\ events < MaxEvents /\ events' = events + 1
  /\ config' = conf
  /\ s' = TryStart(conf, result)
  /\ KernelKeeps(inbox)
  /\ UNCHANGED <<life, session, loads>>

(* The dispatchers find the controller missing after a partial init.       *)
Dispatchable == EventLoop /\ dispatchers /\ "controller" \in members

(* The backend create_session_backend() makes, where the socket became t.  *)
BackendMade(t) ==
  CASE config.ui = "border" -> "border"
    [] config.ui = "external" /\ config.path # NoPath /\ t.path = config.path -> "external"
    [] OTHER -> "null"

(* begin_session() with n candidates: the backend is made, then it starts. *)
BeginSession(n, i, result, outcome) ==
  /\ Dispatchable /\ session.index = 0 /\ i <= n
  /\ LET t == IF config.ui = "external" THEN TryStart(config, result) ELSE s
         begun == [size |-> n, index |-> i, backend |-> BackendMade(t)]
     IN  /\ session' = begun
         /\ s' = Announce([session |-> begun, s |-> t], i, TRUE, outcome)
  /\ KernelKeeps(inbox)
  /\ UNCHANGED <<life, config, loads, events>>

Cycle(i, outcome) ==
  /\ Dispatchable /\ session.index # 0
  /\ LET w == Selected([session |-> session, s |-> s], i, outcome)
     IN  session' = w.session /\ s' = w.s
  /\ KernelKeeps(inbox)
  /\ UNCHANGED <<life, config, loads, events>>

(* apply(), cancel().                                                      *)
EndSession(outcome) ==
  /\ Dispatchable /\ session.index # 0
  /\ LET w == Ended([session |-> session, s |-> s], outcome)
     IN  session' = w.session /\ s' = w.s
  /\ KernelKeeps(inbox)
  /\ UNCHANGED <<life, config, loads, events>>

(* on_window_invalid(): the backend learns of it only from the end.        *)
WindowCloses(outcome) ==
  /\ EventLoop /\ listeners /\ session.index # 0
  /\ LET n == session.size - 1
         w == Ended([session |-> session, s |-> s], outcome)
     IN  IF n = 0 THEN session' = w.session /\ s' = w.s
         ELSE /\ session' = [session EXCEPT !.size = n, !.index = IF @ > n THEN n ELSE @]
              /\ s' = [s EXCEPT !.missed = s.client # NoConn]
  /\ KernelKeeps(inbox)
  /\ UNCHANGED <<life, config, loads, events>>

(* listener_callback().                                                    *)
ListenerReadable(watches) ==
  /\ EventLoop /\ s.listenWatch /\ s.backlog # <<>>
  /\ s' = OnListenerReadable(s, session.backend = "external", watches)
  /\ KernelKeeps(inbox)
  /\ UNCHANGED <<life, config, session, loads, events>>

ListenerError ==
  /\ EventLoop /\ s.listenWatch /\ events < MaxEvents /\ events' = events + 1
  /\ s' = OnListenerError(s)
  /\ KernelKeeps(inbox)
  /\ UNCHANGED <<life, config, session, loads>>

(* client_callback(): all the kernel holds is read, to be dispatched.      *)
ClientReadable ==
  /\ EventLoop /\ s.clientWatch # NoConn
  /\ LET c == s.clientWatch
     IN  /\ c \in hung \/ inbox[c] # <<>>
         /\ CASE c \in hung -> s' = OnClientHangup(s) /\ UNCHANGED phase
              [] c \notin hung /\ s.client = NoConn ->
                   s' = OnDeadClientReadable(s) /\ UNCHANGED phase
              [] c \notin hung /\ s.client # NoConn ->
                   s' = [s EXCEPT !.buffer = Received(@, inbox[c])] /\ phase' = "dispatching"
         /\ KernelKeeps([inbox EXCEPT ![c] = <<>>])
  /\ UNCHANGED <<todo, members, listeners, dispatchers, config, session, loads, events>>

(* A round of dispatch_buffer(): the line leaves the buffer before it is   *)
(* executed, and a send that fails takes the rest of the buffer with it.   *)
DispatchLine(outcome) ==
  /\ phase = "dispatching" /\ outcome \in SendOutcomes
  /\ LET n    == LineEnd(s.buffer)
         rest == SubSeq(s.buffer, n + 1, Len(s.buffer))
         w    == Execute([session |-> session, s |-> [s EXCEPT !.buffer = rest]],
                         ParseCommand(SubSeq(s.buffer, 1, n)), outcome)
     IN  IF n = 0 THEN phase' = "running" /\ UNCHANGED <<session, s>>
         ELSE session' = w.session /\ s' = w.s /\ UNCHANGED phase
  /\ KernelKeeps(inbox)
  /\ UNCHANGED <<todo, members, listeners, dispatchers, config, loads, events>>

-----------------------------------------------------------------------------
(***************************************************************************)
(* Peers.                                                                  *)
(***************************************************************************)
Connect(c) ==
  /\ s.path # NoPath /\ c \notin Open
  /\ s' = [s EXCEPT !.backlog = Append(@, c)]
  /\ UNCHANGED <<life, config, session, peers, loads, events>>

PeerSends(c, chunk) ==
  /\ c \in Open \ hung /\ events < MaxEvents /\ events' = events + 1
  /\ inbox' = [inbox EXCEPT ![c] = Append(@, SentOn(c, chunk))]
  /\ UNCHANGED <<life, config, session, s, hung, loads>>

HangUp(c) ==
  /\ c \in Open \ hung
  /\ hung' = hung \cup {c}
  /\ UNCHANGED <<life, config, session, s, inbox, loads, events>>

-----------------------------------------------------------------------------
Watched == {TRUE, FALSE}

Next ==
  \/ Load \/ Build \/ Subscribe \/ RegisterDispatchers \/ InitFails
  \/ Unload \/ Reset \/ TornDown
  \/ \E conf \in ConfigsRead, result \in {"started", "fails"} : Reload(conf, result)
  \/ \E n \in 1..MaxSlots, i \in 1..MaxSlots, result \in {"started", "fails"},
        outcome \in SendOutcomes : BeginSession(n, i, result, outcome)
  \/ \E i \in 1..MaxSlots, outcome \in SendOutcomes : Cycle(i, outcome)
  \/ \E outcome \in SendOutcomes : EndSession(outcome)
  \/ \E outcome \in SendOutcomes : WindowCloses(outcome)
  \/ \E watches \in Watched : ListenerReadable(watches)
  \/ ListenerError
  \/ ClientReadable
  \/ \E outcome \in Outcomes : DispatchLine(outcome)
  \/ \E c \in Conns : Connect(c) \/ HangUp(c)
  \/ \E c \in Conns, chunk \in Chunks : PeerSends(c, chunk)

Spec == Init /\ [][Next]_vars

(* PLUGIN_INIT and PLUGIN_EXIT return, and the event loop calls back for a *)
(* descriptor that is readable.                                            *)
Fairness ==
  /\ WF_vars(Build \/ Subscribe \/ RegisterDispatchers \/ Reset \/ TornDown)
  /\ WF_vars(\E watches \in Watched : ListenerReadable(watches))
  /\ WF_vars(ClientReadable)
  /\ WF_vars(\E outcome \in Outcomes : DispatchLine(outcome))

FairSpec == Spec /\ Fairness

-----------------------------------------------------------------------------
(***************************************************************************)
(* Properties.                                                             *)
(***************************************************************************)

(* Every variable has its type; no line of a peer, however it comes in,    *)
(* makes the receive buffer longer than its bound (overlay_socket_server.  *)
(* cpp:148).                                                               *)
TypeOK ==
  /\ phase \in {"unloaded", "init", "running", "dispatching", "exit", "rejecting",
               "emptying", "hollow"}
  /\ members \subseteq Members /\ Range(todo) \subseteq Members
  /\ listeners \in BOOLEAN /\ dispatchers \in BOOLEAN
  /\ config \in Configs
  /\ session \in [size : 0..MaxSlots, index : 0..MaxSlots, backend : UiBackends \cup {"none"}]
  /\ s \in [path : Paths \cup {NoPath}, client : Conns \cup {NoConn}, buffer : Seq(ChunksSent),
            listenWatch : BOOLEAN, clientWatch : Conns \cup {NoConn}, backlog : Seq(Conns),
            told : 0..MaxSlots, missed : BOOLEAN]
  /\ Len(s.buffer) <= MaxBuffer
  /\ hung \subseteq Conns
  /\ inbox \in [Conns -> Seq(ChunksSent)]
  /\ loads \in 0..MaxLoads /\ events \in 0..MaxEvents

(* A listening socket is watched and a client is the one whose descriptor  *)
(* the event loop watches, whatever failed sends, reloads, errors and      *)
(* failed watches came before: no descriptor is left that nobody reads     *)
(* (hyprland_overlay_socket.cpp:41-49, 76-85).                             *)
ConnectedIsWatched ==
  /\ s.path # NoPath <=> s.listenWatch
  /\ s.client # NoConn => s.clientWatch = s.client

(* The receive buffer holds only what the present client has sent: however *)
(* the last one went - hung up, failed a send amid its own commands, was   *)
(* stopped by a reload or an error - nothing it left unfinished comes      *)
(* before the lines of the next (overlay_socket_server.cpp:105-111).       *)
StreamOfOneClient == \A j \in DOMAIN s.buffer : s.buffer[j].from = s.client

(* A client that has been there from the start of the session, and whose   *)
(* messages all went out, was last told the slot that is selected, or that *)
(* no overlay session runs, also when it is itself the one who selects,    *)
(* ends the session or has its session stopped by a reload or an unload    *)
(* (external_overlay_ui.cpp:13-30, plugin_lifecycle.cpp:135-140).          *)
PeerMirrorsSession ==
  s.client # NoConn /\ ~s.missed =>
    s.told = IF session.backend = "external" THEN session.index ELSE 0

(* The comment at plugin_overlay_wiring.cpp:46-51: no listener outlives    *)
(* the configuration that asks for it, nor the state of the plugin.        *)
NoListenerOutlivesConfig ==
  /\ phase \in {"running", "dispatching"} /\ s.path # NoPath => config.ui = "external" /\ s.path = config.path
  /\ "overlay_socket" \notin members => s = Stopped

(* Nothing a living member refers to has been destroyed or not been built: *)
(* in a load that fails at any point, an unload, and a session that is     *)
(* ended by it (the contract at mru_plugin.hpp:25-39).                     *)
BorrowersDieFirst ==
  \A m \in members : Borrows(m) \subseteq members \cup {m}

(* Whatever can be called back dereferences members that exist: the        *)
(* listeners all of them, a watched socket the controller, and after a     *)
(* partial init nothing but the guarded dispatchers is left.               *)
CallbacksHaveState ==
  phase \in {"running", "dispatching", "hollow"} =>
    /\ listeners => members = Members
    /\ s.listenWatch \/ s.clientWatch # NoConn => "controller" \in members
    /\ session.index # 0 => members = Members

(* A connection waits in the backlog, with something unread, or with its   *)
(* peer gone while it takes the client's place.                            *)
Waits(c) ==
  \/ c \in Range(s.backlog)
  \/ s.client = c /\ (c \in hung \/ inbox[c] # <<>>)

(* No connection waits for ever, whether or not there is a client, the     *)
(* plugin is being loaded or unloaded, and whatever was sent before        *)
(* (REQ-O-008: a peer that went gives its place free).                     *)
PeersAreServed == \A c \in Conns : Waits(c) ~> ~Waits(c)

=============================================================================
