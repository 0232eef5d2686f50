------------------------------- MODULE Config -------------------------------
(***************************************************************************)
(* The configuration: what the host's typed values come to                 *)
(* (config_v2.cpp, config_value.cpp), and the sidecar file that is laid    *)
(* over them at load and at every reload (sidecar_config.cpp).             *)
(*                                                                         *)
(* A value as it is written is a token: a word, or the word "number" and   *)
(* the number.  Alphas count in tenths.                                    *)
(***************************************************************************)
EXTENDS Integers, Sequences, FiniteSets, SequencesExt

CONSTANTS WideBits,   \* the width of the host's integers (64)
          NarrowBits  \* the width of an int (32)

ASSUME WidthAssumption ==
  WideBits \in Nat /\ NarrowBits \in Nat /\ 15 <= NarrowBits /\ NarrowBits < WideBits

Word(w)   == [word |-> w, num |-> 0]
Number(n) == [word |-> "number", num |-> n]

Scopes       == {"global", "monitor", "workspace", "visible", "app"}
UiKinds      == {"null", "border", "external"}
BorderStyles == {"solid", "pulse", "dim"}

IntKeys   == {"debounce_ms", "pulse_period_ms", "border_size"}
BoolKeys  == {"wrap", "lock_history_on_session", "restore_focus_on_cancel",
              "selection_follow_workspace"}
EnumKeys  == {"default_scope", "start_offset", "ui", "border_style"}
TextKeys  == {"border_color", "external_socket"}
Keys      == IntKeys \cup BoolKeys \cup EnumKeys \cup TextKeys \cup {"dim_alpha"}

(* The defaults register_all() gives to the host.                          *)
Defaults ==
  [k \in Keys |->
     CASE k = "debounce_ms"     -> Number(400)
       [] k = "pulse_period_ms" -> Number(1000)
       [] k = "border_size"     -> Number(-1)
       [] k = "dim_alpha"       -> Number(7)
       [] k = "default_scope"   -> Word("global")
       [] k = "start_offset"    -> Word("second")
       [] k = "ui"              -> Word("border")
       [] k = "border_style"    -> Word("solid")
       [] k = "border_color"    -> Word("0xffffd9a0")
       [] k = "external_socket" -> Word("")
       [] k = "restore_focus_on_cancel" -> Word("false")
       [] k \in BoolKeys \ {"restore_focus_on_cancel"} -> Word("true")]

-----------------------------------------------------------------------------
WideInt == -(2^(WideBits - 1)) .. (2^(WideBits - 1) - 1)

(* static_cast<int>                                                        *)
Narrow(n) == ((n + 2^(NarrowBits - 1)) % 2^NarrowBits) - 2^(NarrowBits - 1)

Bounded(n, lo, hi) == IF n < lo THEN lo ELSE IF n > hi THEN hi ELSE n

(* Fault: the value is narrowed before it is clamped.                      *)
ClampNarrowed(k, n) ==
  CASE k = "debounce_ms"     -> Bounded(Narrow(n), 0, 5000)
    [] k = "pulse_period_ms" -> Bounded(Narrow(n), 200, 10000)
    [] k = "dim_alpha"       -> Bounded(n, 0, 10)

(* clamp_debounce_ms(), clamp_pulse_period_ms(), clamp_dim_alpha().        *)
Clamped(k, n) ==
  CASE k = "debounce_ms"     -> Bounded(n, 0, 5000)
    [] k = "pulse_period_ms" -> Bounded(n, 200, 10000)
    [] k = "dim_alpha"       -> Bounded(n, 0, 10)

(* The words of an enumeration: parse_scope_token(), parse_start_offset(), *)
(* parse_ui_backend(), parse_border_style().                               *)
WordsOf(k) ==
  CASE k = "default_scope" -> Scopes
    [] k = "start_offset"  -> {"first", "second"}
    [] k = "ui"            -> UiKinds
    [] k = "border_style"  -> BorderStyles

(* What the host's value is read as when it is no word of its enumeration. *)
Fallback(k) ==
  CASE k = "default_scope" -> "global"
    [] k = "start_offset"  -> "second"
    [] k = "ui"            -> "null"
    [] k = "border_style"  -> "solid"

-----------------------------------------------------------------------------
(* read_config() on the host's values, which have the type of their key.   *)
ReadValue(k, t) ==
  CASE k = "border_size" -> Narrow(t.num)
    [] k \in {"debounce_ms", "pulse_period_ms"} -> Clamped(k, t.num)
    [] k = "dim_alpha"   -> IF t.word = "number" THEN Clamped(k, t.num) ELSE 7
    [] k \in BoolKeys    -> t.word = "true"
    [] k \in EnumKeys    -> IF t.word \in WordsOf(k) THEN t.word ELSE Fallback(k)
    [] k \in TextKeys    -> t.word

ReadConfig(host) == [k \in Keys |-> ReadValue(k, host[k])]

-----------------------------------------------------------------------------
(***************************************************************************)
(* The sidecar.  A line assigns a token to a name; lines that are blank, a *)
(* comment or malformed are the ones with a name that is no key.           *)
(***************************************************************************)
Line(name, token) == [name |-> name, token |-> token]

NoOverrides == [k \in {} |-> Word("")]

(* assign_raw(): the value of a key is set, or the key is added.           *)
Assign(o, k, t) == [j \in DOMAIN o \cup {k} |-> IF j = k THEN t ELSE o[j]]

(* parse(): unknown names are ignored, a later line replaces an earlier.   *)
Parse(lines) ==
  LET said[n \in 0..Len(lines)] ==
        IF n = 0 THEN NoOverrides
        ELSE IF lines[n].name \in Keys
             THEN Assign(said[n - 1], lines[n].name, lines[n].token) ELSE said[n - 1]
  IN  said[Len(lines)]

(* default_path(): "" is a variable that is unset or empty.                *)
DefaultPath(xdg, home) ==
  CASE xdg # ""               -> <<xdg, "mru-switcher/config">>
    [] xdg = "" /\ home # ""  -> <<home, ".config/mru-switcher/config">>
    [] xdg = "" /\ home = ""  -> <<>>

(* load_file(): a file that is missing or has no path is no error.         *)
LoadFile(path, files) ==
  IF path # <<>> /\ path \in DOMAIN files THEN Parse(files[path]) ELSE NoOverrides

IsTrue(t)  == t \in {Word("true"), Number(1)}
IsFalse(t) == t \in {Word("false"), Number(0)}

(* What apply_overlay() takes for a value of the key.                      *)
Valid(k, t) ==
  CASE k \in {"debounce_ms", "pulse_period_ms"} -> t.word = "number" /\ t.num \in WideInt
    [] k = "border_size" -> t.word = "number" /\ t.num \in -1..100
    [] k = "dim_alpha"   -> t.word = "number"
    [] k \in BoolKeys    -> IsTrue(t) \/ IsFalse(t)
    [] k \in EnumKeys    -> t.word \in WordsOf(k)
    [] k \in TextKeys    -> TRUE

ValueOf(k, t) ==
  CASE k = "border_size" -> t.num
    [] k \in {"debounce_ms", "pulse_period_ms", "dim_alpha"} -> Clamped(k, t.num)
    [] k \in BoolKeys    -> IsTrue(t)
    [] k \in EnumKeys \cup TextKeys -> t.word

(* Only a border style that is not known replaces the host's value.        *)
ApplyOverlay(cfg, o) ==
  [k \in Keys |->
     CASE k \in DOMAIN o /\ Valid(k, o[k])  -> ValueOf(k, o[k])
       [] k \in DOMAIN o /\ ~Valid(k, o[k]) /\ k = "border_style" -> "solid"
       [] OTHER -> cfg[k]]

(* The keys apply_overlay() warns of.                                      *)
Warned(o) ==
  {k \in DOMAIN o : ~Valid(k, o[k]) \/ (k = "lock_history_on_session" /\ IsFalse(o[k]))}

(* build_state() and config.reloaded.                                      *)
Effective(host, o) == ApplyOverlay(ReadConfig(host), o)
=============================================================================
