---------------------------- MODULE BorderColour ----------------------------
(***************************************************************************)
(* The border values of BorderHighlightUI (border_highlight_ui.cpp): what  *)
(* a reply of getprop is made into before it is kept for the restore, and  *)
(* the darker colour of a pulse.                                           *)
(*                                                                         *)
(* A value is what the code tells apart: its form ("bare" has no prefix),  *)
(* the number of digits and whether all are hexadecimal, the bytes - of    *)
(* the digits by two, or between the commas, -1 for none - and whether the *)
(* angle of a gradient or anything else follows after a space.  Between    *)
(* parentheses are either digits, with no comma, or no digits but the      *)
(* bytes between commas.                                                   *)
(***************************************************************************)
EXTENDS Integers, Sequences

Value(form, digits, hex, bytes, tail) ==
  [form |-> form, digits |-> digits, hex |-> hex, bytes |-> bytes, tail |-> tail]

Unreadable == Value("blank", 0, FALSE, <<>>, "none")

(* The compositor takes a value back without angle and with a prefix.      *)
SetpropAccepts(v) ==
  /\ v.form \in {"0x", "rgb", "rgba"} /\ v.tail = "none"
  /\ v.form = "0x" => v.digits > 0 /\ v.hex

(* Of a prefixed value any number of digits will do.                       *)
DigitsRestorable(v) ==
  CASE v.form = "0x"   -> v.digits > 0 /\ v.hex
    [] v.form = "bare" -> v.digits \in {6, 8} /\ v.hex
    [] OTHER           -> v.form \in {"rgb", "rgba"}

Prefixed(form) == IF form = "bare" THEN "0x" ELSE form

(* Fault: the angle stays.                                                 *)
NormalizeDigits(v) ==
  IF v.tail = "other" \/ ~DigitsRestorable(v) THEN Unreadable
  ELSE [v EXCEPT !.form = Prefixed(@)]

(* normalize_capture() of a colour slot.                                   *)
NormalizeColour(v) ==
  IF v.tail = "other" \/ ~DigitsRestorable(v) THEN Unreadable
  ELSE [v EXCEPT !.form = Prefixed(@), !.tail = "none"]

-----------------------------------------------------------------------------
(* parse_hypr_color(): bytes are read up to the first that is out of range *)
(* and up to the fourth.  Digits without a comma are one decimal number to *)
(* this loop, so they are a byte at most; the branch that would read them  *)
(* as hexadecimal (line 115) comes after it and is never reached.          *)
BytesRead(v) ==
  LET ok(n) == \A j \in 1..n : v.bytes[j] \in 0..255
  IN  CHOOSE n \in 0..4 :
        /\ n <= Len(v.bytes) /\ ok(n)
        /\ n = 4 \/ n = Len(v.bytes) \/ ~ok(n + 1)

IsColour(v) ==
  /\ v.tail = "none"
  /\ CASE v.form = "0x"   -> v.digits \in {6, 8} /\ v.hex
       [] v.form = "rgb"  -> v.digits = 0 /\ BytesRead(v) = 3
       [] v.form = "rgba" -> v.digits = 0 /\ BytesRead(v) = 4
       [] OTHER           -> FALSE

(* Alpha comes first in hexadecimal and last in rgba().                    *)
Channels(v) ==
  CASE v.form = "0x" /\ v.digits = 8 ->
         [a |-> v.bytes[1], r |-> v.bytes[2], g |-> v.bytes[3], b |-> v.bytes[4]]
    [] v.form = "rgba" ->
         [a |-> v.bytes[4], r |-> v.bytes[1], g |-> v.bytes[2], b |-> v.bytes[3]]
    [] OTHER -> [a |-> 255, r |-> v.bytes[1], g |-> v.bytes[2], b |-> v.bytes[3]]

(* darker_color(): anything else stays as it is.                           *)
Darker(v) ==
  LET c == Channels(v)
  IN  IF IsColour(v)
      THEN Value("0x", 8, TRUE, <<c.a, c.r \div 2, c.g \div 2, c.b \div 2>>, "none")
      ELSE v
=============================================================================
