------------------------- MODULE MCIdentityRegistry -------------------------
(***************************************************************************)
(* Instances of IdentityRegistry for TLC.                                  *)
(***************************************************************************)
EXTENDS IdentityRegistry, TLC

CONSTANTS o1, o2, o3, o4, a1, a2

FourObjects  == {o1, o2, o3, o4}
TwoAddresses == {a1, a2}

(* Objects are alike, and so are addresses.                                *)
Alike == Permutations(FourObjects) \cup Permutations(TwoAddresses)

=============================================================================
