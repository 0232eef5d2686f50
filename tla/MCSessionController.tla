------------------------ MODULE MCSessionController ------------------------
(***************************************************************************)
(* Instances of SessionController for TLC.                                 *)
(***************************************************************************)
EXTENDS SessionController

CONSTANTS w1, w2, w3

TwoWindows == {w1, w2}
ThreeWindows == {w1, w2, w3}

(* The default policy, and one that differs from it in every field.        *)
DefaultPolicy == [startOffset |-> "Second", wrap |-> TRUE, restore |-> FALSE]
OtherPolicy   == [startOffset |-> "First", wrap |-> FALSE, restore |-> TRUE]

TwoPolicies == {DefaultPolicy, OtherPolicy}
OnePolicy   == {DefaultPolicy}

(* The handlers treat windows alike.                                       *)
ThreeAlike == Permutations(ThreeWindows)

=============================================================================
