----------------------------- MODULE MCBorderUI -----------------------------
(***************************************************************************)
(* Instances of BorderUI for TLC: two windows on different workspaces of   *)
(* one monitor.                                                            *)
(***************************************************************************)
EXTENDS BorderUI

CONSTANTS a1, a2, m1

TwoAddresses == {a1, a2}
OneMonitor   == {m1}

Numbered     == {1, 2}
NumberedOn   == 1 :> m1 @@ 2 :> m1
Homes        == a1 :> 1 @@ a2 :> 2

(* The workspace of the first window has a name instead of a number.       *)
WithNamed    == {-1337, 2}
WithNamedOn  == -1337 :> m1 @@ 2 :> m1
NamedHomes   == a1 :> -1337 @@ a2 :> 2

SolidSized == [style |-> "solid", sized |-> TRUE, dims |-> TRUE, follows |-> TRUE]
Pulse      == [style |-> "pulse", sized |-> FALSE, dims |-> TRUE, follows |-> FALSE]
Dim        == [style |-> "dim", sized |-> FALSE, dims |-> TRUE, follows |-> TRUE]

EveryStyle == {SolidSized, Pulse, Dim}
SolidOnly  == {SolidSized}

=============================================================================
