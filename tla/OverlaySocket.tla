--------------------------- MODULE OverlaySocket ---------------------------
(***************************************************************************)
(* The socket of the external overlay: OverlaySocketServer                 *)
(* (overlay_socket_server.cpp), the adapter that watches its descriptors   *)
(* on the event loop (hyprland_overlay_socket.cpp) and the protocol        *)
(* (overlay_protocol.cpp), as a record and one operator per method.        *)
(*                                                                         *)
(*   path         path_, NoPath when the server is stopped                 *)
(*   client       the connection of client_fd_, or NoConn                  *)
(*   buffer       recv_buf_, what was read and not yet dispatched          *)
(*   listenWatch  listen_source_ is set                                    *)
(*   clientWatch  the connection client_source_ watches, or NoConn; the    *)
(*                event loop watches a duplicate, which outlives client_fd_ *)
(*   backlog      the connections the kernel holds for accept              *)
(*   told         the selection the client was last told, 0 for none       *)
(*   missed       the client's picture of the session may be out of date   *)
(*                                                                         *)
(* Bytes come in chunks: a whole line, or the head or the tail of one; a   *)
(* line carries a JSON object.  A chunk that was sent is marked with the   *)
(* connection it was sent on.                                              *)
(***************************************************************************)
EXTENDS Integers, Sequences, SequencesExt

CONSTANTS Conns, NoConn,
          Paths, NoPath,
          Chunks,     \* what a peer may send at a time
          MaxBuffer   \* bound: the longest buffer, in chunks (kMaxLineBytes)

Version == 1

(* A key that is absent, or of the wrong kind, reads as 0, "none" or -1.   *)
Object == [v : Nat, type : {"select", "apply", "cancel", "none"}, index : Int]

Chunk == [part : {"line", "head", "tail"}, obj : Object]

SentOn(c, chunk) == [from |-> c, part |-> chunk.part, obj |-> chunk.obj]

ChunksSent == {SentOn(c, chunk) : c \in Conns, chunk \in Chunks}

ASSUME OverlayAssumption ==
  /\ NoConn \notin Conns /\ NoPath \notin Paths
  /\ Chunks \subseteq Chunk /\ MaxBuffer \in Nat \ {0}

NoCommand == [type |-> "none", index |-> 0]

Stopped == [path |-> NoPath, client |-> NoConn, buffer |-> <<>>, listenWatch |-> FALSE,
            clientWatch |-> NoConn, backlog |-> <<>>, told |-> 0, missed |-> FALSE]

-----------------------------------------------------------------------------
(***************************************************************************)
(* Lines and commands.                                                     *)
(***************************************************************************)

(* The object a line carries when it is one object, from '{' to '}'.       *)
IsObject(line) ==
  \/ Len(line) = 1 /\ line[1].part = "line"
  \/ /\ Len(line) = 2 /\ line[1].part = "head" /\ line[2].part = "tail"
     /\ line[1].obj = line[2].obj

(* The version comes first, then the type, then the index of a select.     *)
Command(o) ==
  IF /\ o.v = Version /\ o.type # "none"
     /\ o.type = "select" => o.index >= 0
  THEN [type |-> o.type, index |-> IF o.type = "select" THEN o.index ELSE 0]
  ELSE NoCommand

ParseCommand(line) == IF IsObject(line) THEN Command(line[1].obj) ELSE NoCommand

(* The place of the first newline of a buffer, 0 when there is none.       *)
LineEnd(buffer) == SelectInSeq(buffer, LAMBDA c : c.part # "head")

(* What is left of a sequence of chunks when every n of them are dropped.  *)
AfterDrops(all, n) == SubSeq(all, Len(all) - (Len(all) % n) + 1, Len(all))

(* Fault: the length is compared before the chunk is counted.              *)
ReceivedLate(buffer, data) == AfterDrops(buffer \o data, MaxBuffer + 2)

(* A chunk that makes the buffer too long takes everything before with it. *)
Received(buffer, data) == AfterDrops(buffer \o data, MaxBuffer + 1)

-----------------------------------------------------------------------------
(***************************************************************************)
(* The server.                                                             *)
(***************************************************************************)

(* Fault: what the last client left unfinished stays in the buffer.        *)
CloseClientOnly(s) == [s EXCEPT !.client = NoConn, !.told = 0, !.missed = FALSE]

CloseClient(s) ==
  [s EXCEPT !.client = NoConn, !.buffer = <<>>, !.told = 0, !.missed = FALSE]

ServerStop(s) == [CloseClient(s) EXCEPT !.path = NoPath, !.backlog = <<>>]

(* send_line(): selection i, or 0 for the end of the session, as a session *)
(* start or not.  A full socket drops the message and keeps the client; an *)
(* error or half a line closes it, below the adapter's watch.              *)
SendLine(s, i, isStart, outcome) ==
  CASE s.client = NoConn    -> s
    [] s.client # NoConn /\ outcome = "sent" ->
         [s EXCEPT !.told = i, !.missed = @ /\ ~isStart /\ i # 0]
    [] s.client # NoConn /\ outcome = "full"  -> [s EXCEPT !.missed = TRUE]
    [] s.client # NoConn /\ outcome = "error" -> CloseClient(s)

-----------------------------------------------------------------------------
(***************************************************************************)
(* The adapter.                                                            *)
(***************************************************************************)

(* stop() leaves Stopped.  With the same path a running server is kept;    *)
(* otherwise it is stopped first, and result says whether starting it      *)
(* worked.  True is returned exactly when the server then listens at path. *)
EnsureStarted(s, path, result) ==
  CASE path = NoPath \/ s.path = path                       -> s
    [] path # NoPath /\ s.path # path /\ result = "started" ->
         [Stopped EXCEPT !.path = path, !.listenWatch = TRUE]
    [] path # NoPath /\ s.path # path /\ result # "started" -> Stopped

(* Fault: a client that cannot be watched is kept.                         *)
KeepClient(s, c, watches) == [s EXCEPT !.clientWatch = IF watches THEN c ELSE NoConn]

(* watch_client(): a client that cannot be watched is dropped.             *)
WatchClient(s, c, watches) ==
  IF watches THEN [s EXCEPT !.clientWatch = c]
             ELSE [CloseClient(s) EXCEPT !.clientWatch = NoConn]

Accepted(s, inSession) ==
  [s EXCEPT !.client = Head(s.backlog), !.backlog = <<>>, !.missed = inSession]

(* Fault: while there is a client, others are left to wait.                *)
AcceptWhenFree(s, inSession, watches) ==
  IF s.client = NoConn THEN WatchClient(Accepted(s, inSession), Head(s.backlog), watches) ELSE s

(* poll_accept(): the first client wins, all others are closed.  A session *)
(* that is running has been announced before the client came.              *)
OnListenerReadable(s, inSession, watches) ==
  IF s.client = NoConn THEN WatchClient(Accepted(s, inSession), Head(s.backlog), watches)
                       ELSE [s EXCEPT !.backlog = <<>>]

(* An error on the listener stops the server and leaves the client's watch. *)
OnListenerError(s) == [ServerStop(s) EXCEPT !.listenWatch = FALSE]

(* The peer hung up, or poll_client() found its end: what was read but not *)
(* dispatched is lost.                                                     *)
OnClientHangup(s) == [CloseClient(s) EXCEPT !.clientWatch = NoConn]

(* The client was closed by a failed send; its watch, and with it the      *)
(* connection, ends with the next event.                                   *)
OnDeadClientReadable(s) == [s EXCEPT !.clientWatch = NoConn]

=============================================================================
