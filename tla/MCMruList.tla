------------------------------ MODULE MCMruList ------------------------------
(***************************************************************************)
(* The list and index operators against the loops of the code, written as  *)
(* functions of the number of rounds, for every pair of lists and every    *)
(* set of windows up to a bound.  A behaviour builds the inputs one        *)
(* element at a time.  AlgorithmTheorems proves the same for any lists.    *)
(***************************************************************************)
EXTENDS MruList, Selection

CONSTANTS Elems,      \* the windows of the lists
          MaxLength,  \* bound: the longest first list
          MaxOther    \* bound: the longest second list

VARIABLES list, other, set

Init == list = <<>> /\ other = <<>> /\ set = {}

Push(e) == /\ Len(list) < MaxLength
           /\ list' = Append(list, e)
           /\ UNCHANGED <<other, set>>

PushOther(e) == /\ Len(other) < MaxOther
                /\ other' = Append(other, e)
                /\ UNCHANGED <<list, set>>

Toggle(e) == /\ set' = SymDiff(set, {e})
             /\ UNCHANGED <<list, other>>

Next == \E e \in Elems : Push(e) \/ PushOther(e) \/ Toggle(e)

Spec == Init /\ [][Next]_<<list, other, set>>

-----------------------------------------------------------------------------
(* The loop that copies into a new list what passes a filter.              *)
FilterLoop(s, S) ==
  LET out[n \in 0..Len(s)] ==
        IF n = 0 THEN <<>>
        ELSE IF s[n] \in S THEN Append(out[n - 1], s[n]) ELSE out[n - 1]
  IN  out[Len(s)]

(* push_unique() of merge_mru_order, applied to every element of s.        *)
PushUnique(first, s) ==
  LET out[n \in 0..Len(s)] ==
        IF n = 0 THEN first
        ELSE IF s[n] \in Range(out[n - 1]) THEN out[n - 1] ELSE Append(out[n - 1], s[n])
  IN  out[Len(s)]

(* The positions of repeated presses, from position i of len entries.      *)
Walk(i, d, wrap, len) ==
  LET at[n \in 0..len] == IF n = 0 THEN i ELSE AdvanceIndex(at[n - 1], d, wrap, len)
  IN  at

-----------------------------------------------------------------------------
(* The filter loop of pruned() and of candidates() keeps exactly the       *)
(* members of the set, and their order, from any list with repetitions.    *)
KeepIsTheFilterLoop == Keep(list, set) = FilterLoop(list, set)

(* commit(): erase every occurrence, insert in front.                      *)
PromoteIsEraseThenInsert ==
  \A e \in Elems : Promote(list, e) = <<e>> \o FilterLoop(list, Elems \ {e})

(* seed(): an entry already in the list is skipped.                        *)
FirstOccurrencesIsTheSeedLoop == FirstOccurrences(list) = PushUnique(<<>>, list)

(* merge_mru_order(): both loops push into the same list, so a window      *)
(* repeated within either input, or across both, comes out once and at its *)
(* place in the primary order.                                             *)
MergeIsThePushLoop ==
  Merge(list, other) = PushUnique(PushUnique(<<>>, list), other)

(* A walk in either direction from any entry reaches every entry and, with *)
(* wrap, comes back to it; without wrap it stays at the last entry.        *)
WalkReachesEveryEntry ==
  LET len == Len(list)
  IN  \A i \in 0..(len - 1), d \in Directions :
        /\ Range(Walk(i, d, TRUE, len)) = 0..(len - 1)
        /\ Walk(i, d, TRUE, len)[len] = i
        /\ Range(Walk(i, d, FALSE, len)) = IF d = "Next" THEN i..(len - 1) ELSE 0..i

=============================================================================
