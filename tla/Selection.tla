----------------------------- MODULE Selection -----------------------------
(***************************************************************************)
(* The index arithmetic of the virtual selection (selection.cpp).  Indices *)
(* start at 0, as in the code.                                             *)
(***************************************************************************)
EXTENDS Integers

StartOffsets == {"First", "Second"}

Directions == {"Next", "Prev"}

(***************************************************************************)
(* std::min(index, len - 1), guarded for an empty list.                    *)
(***************************************************************************)
Clamp(index, len) ==
  IF len = 0 THEN 0 ELSE IF index < len THEN index ELSE len - 1

InitialIndex(offset, len) ==
  IF offset = "Second" THEN Clamp(1, len) ELSE 0

(* Fault: a step back from the first entry without wrap.                   *)
AdvanceIndexUnguarded(index, direction, wrap, len) ==
  LET i == Clamp(index, len)
  IN  IF direction = "Next" THEN Clamp(i + 1, len) ELSE i - 1

AdvanceIndex(index, direction, wrap, len) ==
  LET i == Clamp(index, len)
  IN  CASE len = 0                          -> 0
        [] len > 0 /\ wrap /\ direction = "Next"   -> (i + 1) % len
        [] len > 0 /\ wrap /\ direction = "Prev"   -> (i + len - 1) % len
        [] len > 0 /\ ~wrap /\ direction = "Next"  -> Clamp(i + 1, len)
        [] len > 0 /\ ~wrap /\ direction = "Prev"  -> IF i = 0 THEN 0 ELSE i - 1

=============================================================================
