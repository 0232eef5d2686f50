---------------------------- MODULE MCAlgorithms ----------------------------
(***************************************************************************)
(* The pure parts of the program over bounded inputs.  A behaviour builds  *)
(* the lists of MCMruList, or chooses an input for one of the others.      *)
(***************************************************************************)
EXTENDS MCMruList, Candidates, Config, DispatchArgs, BorderColour

CONSTANTS ws1, ws2,  \* the workspaces of the monitors m1 and m2
          pad,       \* a special workspace, of m2 when it is shown
          m1, m2,
          app        \* a window class

ASSUME PlacesAssumption ==
  /\ SpecialWorkspaces = {pad} /\ pad \notin {ws1, ws2, NoWorkspace}
  /\ ws1 # ws2 /\ m1 # m2

VARIABLES input  \* the kind of an input, and what it is

allVars == <<list, other, set, input>>

NoInput == [kind |-> "none"]

-----------------------------------------------------------------------------
(* Numbers at and beyond the bounds of the clamps and the widths.          *)
Edges == {-8388609, -8388608, 8388608, -2, -1, 0, 1, 7, 10, 11, 100, 101, 199, 5000, 5001,
          10001, 65836, 131071}

Tokens(k) ==
  {Number(n) : n \in Edges} \cup
  {Word(w) : w \in {"junk", "true"} \cup (IF k \in EnumKeys THEN WordsOf(k) ELSE {"false"})}

HostValues(k) == IF k \in IntKeys THEN {Number(n) : n \in Edges \cap WideInt}
                 ELSE IF k \in BoolKeys THEN {Word("true"), Word("false")}
                 ELSE IF k = "dim_alpha" THEN {Number(n) : n \in Edges} \cup {Word("nan")}
                 ELSE Tokens(k)

CycleTokens == {"next", "prev", "global", "app", "junk"}

Colours ==
  {Value(form, digits, hex, bytes, tail) :
     form \in {"bare", "0x"}, digits \in {0, 3, 6, 8, 9}, hex \in BOOLEAN, tail \in {"none", "deg", "other"},
     bytes \in {<<0, 200, 100, 7>>, <<255, 0, 1, 255>>}} \cup
  {Value(form, digits, hex, bytes, tail) :
     form \in {"rgb", "rgba"}, digits \in {6, 8}, hex \in BOOLEAN, tail \in {"none", "deg", "other"},
     bytes \in {<<0, 200, 100, 7>>, <<255, 0, 1, 255>>}} \cup
  {Value(form, 0, FALSE, bytes, tail) :
     form \in {"rgb", "rgba"}, tail \in {"none", "deg", "other"},
     bytes \in UNION {[1..n -> {-1, 0, 255, 256}] : n \in 1..5}}

Places == {[ws |-> ws1, monitor |-> m1], [ws |-> ws2, monitor |-> m2], [ws |-> pad, monitor |-> m2]}

WindowsOf ==
  {w \in [mapped : BOOLEAN, hidden : BOOLEAN, ws : {ws1, ws2, pad}, monitor : {m1, m2},
          class : {app, ""}] :
     [ws |-> w.ws, monitor |-> w.monitor] \in Places}

Shown(special) == [m \in {m1, m2} |-> IF m = m1 THEN [active |-> ws1, special |-> NoWorkspace]
                                                ELSE [active |-> ws2, special |-> special]]

Orders(S) == {s \in UNION {[1..n -> S] : n \in 0..Cardinality(S)} : IsInjective(s)}

(* The focused window is on the screen, and a tracked one was registered.  *)
ChooseDesktop ==
  \E win \in [Windows -> WindowsOf], f \in Windows \cup {NoWindow},
     special \in {pad, NoWorkspace}, history, live \in Orders(Windows) :
  \E order \in Orders(Range(live)) :
    /\ f # NoWindow => win[f].mapped /\ ~win[f].hidden
    /\ input' = [kind |-> "desktop",
                 desktop |-> [win |-> win, monitors |-> Shown(special), focus |-> f,
                              history |-> history, live |-> live, order |-> order]]

ChooseConfig ==
  \E k \in Keys : \E host \in HostValues(k), t \in Tokens(k) :
    input' = [kind |-> "config", key |-> k, host |-> host, lines |-> <<Line(k, t)>>]

(* A second line, for the same key or for none.                            *)
AddLine ==
  /\ input.kind = "config" /\ Len(input.lines) = 1
  /\ \E name \in {input.key, "junk"}, t \in Tokens(input.key) :
       input' = [input EXCEPT !.lines = Append(@, Line(name, t))]

ChooseTokens == \E n \in 0..3 : \E toks \in [1..n -> CycleTokens] :
                  input' = [kind |-> "args", toks |-> toks]

ChooseColour == \E v \in Colours : input' = [kind |-> "colour", colour |-> v]

AllInit == Init /\ input = NoInput

AllNext ==
  \/ Next /\ input = NoInput /\ UNCHANGED input
  \/ /\ input = NoInput /\ list = <<>> /\ other = <<>> /\ set = {}
     /\ ChooseDesktop \/ ChooseConfig \/ ChooseTokens \/ ChooseColour
     /\ UNCHANGED <<list, other, set>>
  \/ AddLine /\ UNCHANGED <<list, other, set>>

AllSpec == AllInit /\ [][AllNext]_allVars

-----------------------------------------------------------------------------
(* What the bounds of a number are; the others are as they are.            *)
BoundsOf(k) == CASE k = "debounce_ms"     -> <<0, 5000>>
                 [] k = "pulse_period_ms" -> <<200, 10000>>
                 [] k = "dim_alpha"       -> <<0, 10>>

(* What a file for the key k comes to where the host has the value.        *)
ReadAsSaid(k, value, lines) ==
  LET host   == [Defaults EXCEPT ![k] = value]
      path   == DefaultPath("", "home")
      said   == LoadFile(path, [p \in {path} |-> lines])
      cfg    == Effective(host, said)
      of_key == {i \in DOMAIN lines : lines[i].name = k}
      last   == lines[CHOOSE i \in of_key : \A j \in of_key : j <= i].token
      nearest(n) == LET lo == BoundsOf(k)[1]
                        hi == BoundsOf(k)[2]
                    IN  CHOOSE x \in {lo, n, hi} : x \in lo..hi /\ (n < lo => x = lo) /\ (n > hi => x = hi)
                                                /\ (n \in lo..hi => x = n)
  IN  /\ \A j \in Keys \ {k} : cfg[j] = ReadConfig(Defaults)[j]
      /\ ApplyOverlay(cfg, said) = cfg
      /\ LoadFile(DefaultPath("xdg", "home"), [p \in {path} |-> lines]) = NoOverrides
      /\ k \in DOMAIN said /\ said[k] = last
      /\ k \in {"debounce_ms", "pulse_period_ms", "dim_alpha"} /\ Valid(k, last) =>
           cfg[k] = nearest(last.num)
      /\ k \in {"debounce_ms", "pulse_period_ms"} /\ ~Valid(k, last) =>
           cfg[k] = nearest(value.num) /\ k \in Warned(said)
      /\ k \in EnumKeys /\ last.word \in WordsOf(k) => cfg[k] = last.word
      /\ k \in EnumKeys /\ last.word \notin WordsOf(k) =>
           k \in Warned(said) /\ cfg[k] \in WordsOf(k)
      /\ k \in BoolKeys /\ ~Valid(k, last) => cfg[k] = (value = Word("true"))

(* REQ-CFG-001, REQ-CFG-004 and sidecar_config.hpp: a number comes to the  *)
(* nearest one within its bounds, however wide it was written; of several  *)
(* lines for a key the last decides, alone; a number that is refused keeps *)
(* what the host had, with a warning; no other key changes; and a reload   *)
(* of the same file changes nothing.                                       *)
ConfigIsWhatWasSaid ==
  input.kind = "config" => ReadAsSaid(input.key, input.host, input.lines)

(* REQ-SC-001..003 and REQ-H-004: in every scope a window is offered once, *)
(* the tracked ones first and in MRU order; a scope never offers more than *)
(* the wider one, nor a window of a scratchpad that is not shown; a        *)
(* focused window that is offered at all is offered in the scopes anchored *)
(* at it; and without a focus these scopes are the global one.             *)
ScopesNest ==
  input.kind = "desktop" =>
    LET d          == input.desktop
        of         == [s \in Scopes |-> CandidatesOf(d, s)]
        offered(s) == Range(of[s])
        tracked(s) == Keep(d.order, offered(s))
        anchored   == {"monitor", "workspace", "app"}
    IN  /\ \A s \in Scopes : /\ IsInjective(of[s])
                            /\ IsPrefix(tracked(s), of[s])
                            /\ offered(s) \subseteq offered("global")
        /\ offered("workspace") \subseteq offered("monitor")
        /\ \A w \in offered("global") :
             d.win[w].ws = pad => \E m \in {m1, m2} : d.monitors[m].special = pad
        /\ d.focus \in offered("global") => \A s \in anchored : d.focus \in offered(s)
        /\ d.focus = NoWindow => \A s \in anchored : of[s] = of["global"]

(* REQ-DISP-001..003, REQ-SC-003: `[next|prev] [scope]` is accepted and    *)
(* nothing else, with the same meaning however Lua splits it; a known      *)
(* scope is never called unknown.                                          *)
ArgsGrammar ==
  input.kind = "args" =>
    LET toks    == input.toks
        parsed  == ParseCycleArgs(toks)
        grammar == {<<>>} \cup {<<x>> : x \in DirectionTokens \cup ScopeTokens} \cup
                   (DirectionTokens \X ScopeTokens)
    IN  /\ parsed.ok <=> toks \in grammar
        /\ parsed.ok => /\ Keep(toks, DirectionTokens) \in {<<>>, <<parsed.dir>>}
                        /\ Keep(toks, ScopeTokens) =
                             IF parsed.scope = "default" THEN <<>> ELSE <<parsed.scope>>
                        /\ \A x \in DirectionTokens : x \in Range(toks) => parsed.dir = x
        /\ Range(toks) \subseteq DirectionTokens \cup ScopeTokens /\ Len(toks) = 3
             /\ toks[1] \in DirectionTokens /\ toks[2] \in ScopeTokens =>
               parsed.error = "too many arguments"
        /\ LuaCycle(<<toks>>) = parsed
        /\ LuaCycle([i \in DOMAIN toks |-> <<toks[i]>>]) = parsed
        /\ ~LuaCycle(<<toks, NoString>>).ok

(* REQ-UI-004, REQ-UI-005 and ADR-028: what is kept of a captured colour   *)
(* is taken back by the compositor, and only its angle is lost; of a      *)
(* colour that the code reads, a pulse has a variant that is taken too, of *)
(* the same alpha and with no channel brighter than half.                  *)
ColoursSurvive ==
  input.kind = "colour" =>
    LET v     == input.colour
        kept  == NormalizeColour(v)
        dark  == Darker(v)
    IN  /\ kept # Unreadable => /\ SetpropAccepts(kept)
                                /\ <<kept.digits, kept.bytes>> = <<v.digits, v.bytes>>
                                /\ NormalizeColour(kept) = kept
        /\ IsColour(v) => /\ SetpropAccepts(dark) /\ IsColour(dark)
                          /\ Channels(dark).a = Channels(v).a
                          /\ \A c \in {"r", "g", "b"} :
                               Channels(dark)[c] \in 0..255 /\ 2 * Channels(dark)[c] <= Channels(v)[c]

(* rgb(rrggbb) and rgba(rrggbbaa), as the comment at                       *)
(* border_highlight_ui.cpp:60-64 lists them.                               *)
HexInside(v) ==
  v.tail = "none" /\ v.hex /\ <<v.form, v.digits>> \in {<<"rgb", 6>>, <<"rgba", 8>>}

(* REQ-UI-013, USER.md:388: a pulse alternates between the configured      *)
(* colour and a darkened variant, whichever of the documented forms        *)
(* (border_highlight_ui.cpp:60-64, USER.md:372) it is written in; no       *)
(* colour of the runs is black.  It does not: hexadecimal digits within    *)
(* parentheses come back as they are, and the border stays constant.       *)
PulseAlternates ==
  input.kind = "colour" =>
    LET v == input.colour
    IN  IsColour(v) \/ HexInside(v) => Darker(v) # v
=============================================================================
