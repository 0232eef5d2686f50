------------------------------ MODULE MCPlugin ------------------------------
(* Instance of Plugin: two connections, configurations that stop, start and *)
(* move the socket, and peers that send whole and split lines.             *)
EXTENDS Plugin

CONSTANTS k1, k2, p1, p2

Peers2 == {k1, k2}
Paths2 == {p1, p2}

Select1  == [part |-> "line", obj |-> [v |-> 1, type |-> "select", index |-> 1]]
CancelOf(part) == [part |-> part, obj |-> [v |-> 1, type |-> "cancel", index |-> 0]]

Sends == {Select1, CancelOf("head"), CancelOf("tail")}

Reads == {[ui |-> "border", path |-> p1], [ui |-> "external", path |-> p1],
          [ui |-> "external", path |-> p2]}
=============================================================================
