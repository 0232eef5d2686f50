------------------------------ MODULE MruList ------------------------------
(***************************************************************************)
(* The list algorithms of the switcher, as pure operators on sequences:    *)
(* the erase/filter/insert loops over std::vector<WindowRef> that the      *)
(* history tracker, the snapshot and the candidate merge are built from.   *)
(*                                                                         *)
(* A filter is defined by the positions it keeps rather than with          *)
(* SelectSeq, which the proof system knows nothing about: MruListTheorems  *)
(* proves the facts below for sequences of any length, and MCMruList       *)
(* compares every operator with the loop it stands for.                    *)
(***************************************************************************)
EXTENDS Integers, SequencesExt

(***************************************************************************)
(* The elements of s at the positions in I, in the order of s.             *)
(***************************************************************************)
NthPosition(I, n) == CHOOSE i \in I : Cardinality({j \in I : j <= i}) = n

KeepAt(s, I) == [n \in 1..Cardinality(I) |-> s[NthPosition(I, n)]]

(***************************************************************************)
(* The elements of s that are members of S, in the order of s.  The fault  *)
(* erases inside the loop and skips the element after an erased one.       *)
(***************************************************************************)
KeepSkipping(s, S) ==
  KeepAt(s, {i \in DOMAIN s : s[i] \in S \/ (i > 1 /\ s[i - 1] \notin S)})

Keep(s, S) == KeepAt(s, {i \in DOMAIN s : s[i] \in S})

(***************************************************************************)
(* s without its repetitions: the first occurrence of each element.  The   *)
(* fault lets a later occurrence replace the earlier one.                  *)
(***************************************************************************)
LastOccurrences(s) ==
  KeepAt(s, {i \in DOMAIN s : \A j \in DOMAIN s : s[j] = s[i] => j <= i})

FirstOccurrences(s) ==
  KeepAt(s, {i \in DOMAIN s : \A j \in DOMAIN s : s[j] = s[i] => i <= j})

(***************************************************************************)
(* w moved, or added, to the head of s: remove-erase and insert at begin.  *)
(* The fault inserts without erasing.                                      *)
(***************************************************************************)
PromoteDuplicating(s, w) == <<w>> \o s

Promote(s, w) == <<w>> \o Keep(s, Range(s) \ {w})

(***************************************************************************)
(* The primary order followed by what only the fallback holds.  The fault  *)
(* compares the fallback with the primary order but not with itself.       *)
(***************************************************************************)
MergeOnce(primary, fallback) ==
  primary \o Keep(fallback, Range(fallback) \ Range(primary))

Merge(primary, fallback) == FirstOccurrences(primary \o fallback)

=============================================================================
