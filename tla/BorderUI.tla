------------------------------ MODULE BorderUI ------------------------------
(***************************************************************************)
(* The border backend of a session: SessionUIBackendProxy (session_ui.cpp) *)
(* builds a BorderHighlightUI (border_highlight_ui.cpp) per session, which *)
(* overrides window properties through setprop (hyprctl_border_prop_io.cpp) *)
(* and must put every one of them back, toggles the colour on a timer      *)
(* (hyprland_pulse_timer.cpp) and drives the workspace navigator.          *)
(*                                                                         *)
(* Each call of the UI port is one step on the compositor thread.  Any     *)
(* read or write in it may fail: a step picks the operations that do.      *)
(* Properties belong to an address, as the compositor looks windows up by  *)
(* it; windows die at any moment and others appear at their addresses.     *)
(***************************************************************************)
EXTENDS Navigator, Naturals, Sequences, FiniteSets, SequencesExt

CONSTANTS Addresses,
          HomeOf,         \* the workspace of the windows at an address
          Configs,        \* the backends the configuration may ask for
          MaxGeneration,  \* bound: windows that follow each other at an address
          MaxSessions,    \* bound: sessions in a behaviour
          MaxFailures     \* bound: steps of a behaviour in which an operation fails

Styles  == {"solid", "pulse", "dim"}
Colours == {"ActiveColor", "InactiveColor"}
Alphas  == {"Alpha", "AlphaInactive"}
Slots   == Colours \cup Alphas \cup {"Size"}

(* sized: border_size >= 0.  dims: dim_alpha < 1.  follows: the real       *)
(* navigator, and not the null one.                                        *)
ConfigType == [style : Styles, sized : BOOLEAN, dims : BOOLEAN, follows : BOOLEAN]

ASSUME BorderAssumption ==
  /\ IsFiniteSet(Addresses)
  /\ Configs \subseteq ConfigType /\ Configs # {}
  /\ HomeOf \in [Addresses -> Workspaces \cup {Invalid}]
  /\ MaxGeneration \in Nat \ {0} /\ MaxSessions \in Nat /\ MaxFailures \in Nat

Refs  == [address : Addresses, generation : 1..MaxGeneration]
NoRef == [address |-> "none", generation |-> 0]

(* What a property may hold: the window's own value, one of ours, or no    *)
(* override at all.                                                        *)
Own(g)   == <<"own", g>>
Lit      == <<"ours", 1>>
Dark     == <<"ours", 2>>
Sized    == <<"ours", 3>>
Dimmed   == <<"ours", 4>>
Unset    == <<"unset", 0>>
Override == [s \in Slots |-> CASE s \in Colours -> Lit [] s \in Alphas -> Dimmed [] OTHER -> Sized]
Values   == {Own(g) : g \in 0..MaxGeneration} \cup {Lit, Dark, Sized, Dimmed, Unset}

VARIABLES
  up,         \* the addresses with a window
  gen,        \* the generation of the last window at each address
  props,      \* the value of every property
  view,       \* the workspace each monitor shows
  backend,    \* what active_ of the proxy holds: "none" or "border"
  cfg,        \* the configuration the backend was built from
  snapshot,   \* snapshot_ of the backend
  degraded,   \* degraded_
  head,       \* the window of captures_.front(), NoRef when captures_ is empty
  captured,   \* the overrides to take back, with the value to write
  dark,       \* pulse_dark_
  armed,      \* the pulse timer holds a source, and a callback into the backend
  touches,    \* touches_ of the navigator
  index,      \* the slot the controller last told the UI, 0 when Idle
  lastEnd,    \* the reason of the last end, "None" during a session
  sessions,   \* sessions started so far
  failures,   \* steps that had a failure so far
  startView,  \* history: the view when the session started
  forgotten,  \* history: what a failed restore left behind
  strayed     \* history: slots written that were not overridden

windows == <<up, gen>>
ui      == <<backend, cfg, snapshot, degraded, head, captured, dark, armed, touches>>
calls   == <<index, lastEnd, sessions, failures, startView>>
ghosts  == <<forgotten, strayed>>
vars    == <<windows, props, view, ui, calls, ghosts>>

valid == {[address |-> a, generation |-> gen[a]] : a \in up}

LostView == <<"view", "view">>  \* in forgotten: the views were not put back

NoConfig == CHOOSE conf \in Configs : TRUE  \* while there is no border backend

NoCaptures == [c \in {} |-> Unset]

Init ==
  /\ up = Addresses /\ gen = [a \in Addresses |-> 1]
  /\ props = [a \in Addresses |-> [s \in Slots |-> Own(1)]]
  /\ view \in {v \in Views : \A m \in Monitors : v[m] # Invalid => MonitorOf[v[m]] = m}
  /\ backend = "none" /\ cfg = NoConfig /\ snapshot = <<>> /\ degraded = FALSE
  /\ head = NoRef /\ captured = NoCaptures /\ dark = FALSE /\ armed = FALSE
  /\ touches = NoTouches
  /\ index = 0 /\ lastEnd = "Applied" /\ sessions = 0 /\ failures = 0 /\ startView = view
  /\ forgotten = {} /\ strayed = {}

-----------------------------------------------------------------------------
(***************************************************************************)
(* Reads and writes.  Bad is the set of operations that fail in a step; an *)
(* address without a window fails them all.                                *)
(***************************************************************************)
Ops == {<<"probe">>, <<"schedule">>, <<"elevate">>}
         \cup ({"get", "apply", "restore"} \X Addresses \X Slots)

(* Bound: of the operations of a step one fails, or all of them.           *)
Failures(kinds) ==
  {{}} \cup IF failures = MaxFailures THEN {}
            ELSE {Ops} \cup {{o} : o \in {o \in Ops : o[1] \in kinds}}

Count(bad) == failures' = IF bad = {} THEN failures ELSE failures + 1

Works(bad, kind, a, s) == a \in up /\ <<kind, a, s>> \notin bad

Readable(bad, a, slots) == \A s \in slots : Works(bad, "get", a, s)

Write(p, slots, value) ==
  [a \in Addresses |-> [s \in Slots |-> IF <<a, s>> \in slots THEN value[<<a, s>>] ELSE p[a][s]]]

(***************************************************************************)
(* restore_all(): cancel the timer, write every capture back by address,   *)
(* drop them all, also those whose write failed.                           *)
(***************************************************************************)
WrittenBack(bad) == {c \in DOMAIN captured : Works(bad, "restore", c[1], c[2])}

Restored(bad) == Write(props, WrittenBack(bad), captured)

(* The window an override was applied to.                                  *)
TakenFrom(a) == LET k == CHOOSE k \in DOMAIN snapshot : snapshot[k].address = a
                IN  snapshot[k]

(* A restore that failed, or put "unset" for a size it could not read.     *)
Forgets(bad) ==
  {c \in DOMAIN captured : /\ TakenFrom(c[1]) \in valid
                           /\ c \notin WrittenBack(bad) \/ captured[c] = Unset}

(* A restore that met another window than the one it was captured from.    *)
Strays(bad) == {c \in WrittenBack(bad) : TakenFrom(c[1]) \notin valid}

-----------------------------------------------------------------------------
(***************************************************************************)
(* highlight() over the properties p that the restore left, with the ring  *)
(* it dims and the timer it starts.                                        *)
(***************************************************************************)
Lightable(list, i, bad) ==
  list[i] \in valid /\ Readable(bad, list[i].address, Colours)

(* Fault: the selected window is dimmed with the others.                   *)
RingOfAll(list, i, bad) ==
  {list[k].address : k \in {k \in DOMAIN list :
     list[k] \in valid /\ Readable(bad, list[k].address, Alphas)}}

(* The ring is dimmed window by window, each only when both of its alphas  *)
(* were read back.                                                         *)
Ring(list, i, bad) ==
  {list[k].address : k \in {k \in DOMAIN list \ {i} :
     list[k] \in valid /\ Readable(bad, list[k].address, Alphas)}}

Overridden(list, i, conf, bad) ==
  {c \in ({list[i].address} \X (Colours \cup IF conf.sized THEN {"Size"} ELSE {}))
            \cup (IF conf.style = "dim" /\ conf.dims THEN Ring(list, i, bad) \X Alphas ELSE {}) :
     Works(bad, "apply", c[1], c[2])}

(* Fault: a size that was not read is restored to the empty string.        *)
PriorUnchecked(p, bad, c) ==
  IF Works(bad, "get", c[1], c[2]) THEN p[c[1]][c[2]] ELSE <<"", 0>>

(* Colours and alphas were read; a size that was not is restored by        *)
(* dropping the override.                                                  *)
Prior(p, bad, c) == IF Works(bad, "get", c[1], c[2]) THEN p[c[1]][c[2]] ELSE Unset

(* start_pulse() and cancel_pulse(), with the timer port below them.       *)
StartPulse(conf, bad) ==
  dark' = FALSE /\ armed' = (conf.style = "pulse" /\ <<"schedule">> \notin bad)

(* Fault: the throb is reset and the event source stays.                   *)
ResetPulse == dark' = FALSE /\ UNCHANGED armed

CancelPulse == dark' = FALSE /\ armed' = FALSE

Light(list, i, conf, p, bad, touched) ==
  LET slots == Overridden(list, i, conf, bad)
      home  == HomeOf[list[i].address]
  IN  /\ captured' = [c \in slots |-> Prior(p, bad, c)]
      /\ props' = Write(p, slots, [c \in slots |-> Override[c[2]]])
      /\ head' = list[i]
      /\ StartPulse(conf, bad)
      /\ touches' = IF conf.follows THEN Touch(touched, view, home) ELSE touched
      /\ view' = IF conf.follows /\ <<"elevate">> \notin bad THEN Elevated(view, home) ELSE view

LeaveDark(p, touched) ==
  /\ captured' = NoCaptures /\ props' = p /\ head' = NoRef /\ CancelPulse
  /\ touches' = touched
  /\ UNCHANGED view

Highlight(list, i, conf, p, bad, touched) ==
  \/ /\ ~degraded' /\ Lightable(list, i, bad)
     /\ Light(list, i, conf, p, bad, touched)
  \/ /\ degraded' \/ ~Lightable(list, i, bad)
     /\ LeaveDark(p, touched)

-----------------------------------------------------------------------------
(***************************************************************************)
(* The calls of the controller, through the proxy.                         *)
(***************************************************************************)

(* The windows a session may offer are valid when it starts.               *)
Snapshots == UNION {SetToSeqs(S) : S \in (SUBSET valid) \ {{}}}

(* A null backend, and a factory that throws.                              *)
StartWithoutBorder ==
  /\ backend' = "none"
  /\ UNCHANGED <<cfg, degraded, head, captured, dark, armed, touches, props, view, failures>>

(* The fresh backend has nothing to restore.  It probes one read of the    *)
(* first valid window and, when that fails, does nothing this session.     *)
StartWithBorder(list, i, conf, bad) ==
  /\ backend' = "border" /\ cfg' = conf
  /\ degraded' = (<<"probe">> \in bad)
  /\ Highlight(list, i, conf, props, bad, NoTouches)

OnSessionStart ==
  /\ index = 0 /\ sessions < MaxSessions
  /\ \E list \in Snapshots : \E i \in DOMAIN list :
       /\ snapshot' = list /\ index' = i
       /\ \/ StartWithoutBorder
          \/ \E conf \in Configs, bad \in Failures({"probe", "get", "apply", "schedule", "elevate"}) :
               StartWithBorder(list, i, conf, bad) /\ Count(bad)
  /\ lastEnd' = "None" /\ sessions' = sessions + 1 /\ startView' = view
  /\ forgotten' = forgotten \ {LostView}
  /\ UNCHANGED <<windows, strayed>>

(* Fault: the previous highlight is not cleared first.                     *)
MoveHighlightOnly(i, bad) ==
  /\ Highlight(snapshot, i, cfg, props, bad, touches)
  /\ UNCHANGED ghosts

MoveHighlight(i, bad) ==
  /\ Highlight(snapshot, i, cfg, Restored(bad), bad, touches)
  /\ forgotten' = forgotten \cup Forgets(bad)
  /\ strayed' = strayed \cup Strays(bad)

OnSelectionChanged ==
  /\ index > 0
  /\ UNCHANGED <<windows, backend, cfg, snapshot, degraded, lastEnd, sessions, startView>>
  /\ \E i \in DOMAIN snapshot :
       /\ index' = i
       /\ \/ /\ backend = "none"
             /\ UNCHANGED <<props, view, head, captured, dark, armed, touches, failures, ghosts>>
          \/ /\ backend = "border"
             /\ \E bad \in Failures({"restore", "get", "apply", "schedule", "elevate"}) :
                  MoveHighlight(i, bad) /\ Count(bad)

(* on_session_end of the backend, which is dropped afterwards.  A view     *)
(* that cannot be put back is given up.                                    *)
ClearHighlight(reason, bad) ==
  /\ props' = Restored(bad)
  /\ CancelPulse
  /\ captured' = NoCaptures /\ head' = NoRef
  /\ strayed' = strayed \cup Strays(bad)
  /\ \/ /\ <<"elevate">> \notin bad
        /\ view' = IF cfg.follows THEN AtEnd(touches, view, reason) ELSE view
        /\ touches' = NoTouches
        /\ forgotten' = forgotten \cup Forgets(bad)
     \/ /\ <<"elevate">> \in bad
        /\ forgotten' = forgotten \cup Forgets(bad) \cup {LostView}
        /\ UNCHANGED <<view, touches>>

OnSessionEnd ==
  /\ index > 0
  /\ \E reason \in {"Applied", "Cancelled"} :
       /\ lastEnd' = reason
       /\ \/ /\ backend = "none"
             /\ UNCHANGED <<props, view, head, captured, dark, armed, touches, failures, ghosts>>
          \/ /\ backend = "border"
             /\ \E bad \in Failures({"restore", "elevate"}) : ClearHighlight(reason, bad) /\ Count(bad)
  /\ backend' = "none" /\ cfg' = NoConfig /\ snapshot' = <<>> /\ degraded' = FALSE /\ index' = 0
  /\ UNCHANGED <<windows, sessions, startView>>

(* Fault: the first tick darkens the colour for good.                      *)
StayDark == dark' = TRUE

Toggle == dark' = ~dark

(***************************************************************************)
(* timer_callback: pulse_tick(), then the next period.  Both slots of the  *)
(* head are written, by address, and a failed write changes nothing else.  *)
(***************************************************************************)
PulseTick ==
  /\ armed
  /\ \E bad \in Failures({"apply"}) :
       LET slots == {c \in {head.address} \X Colours : Works(bad, "apply", c[1], c[2])}
       IN  /\ Toggle /\ Count(bad)
           /\ props' = Write(props, slots, [c \in slots |-> IF dark' THEN Dark ELSE Lit])
           /\ strayed' = strayed \cup {c \in slots : c \notin DOMAIN captured \/ head \notin valid}
  /\ UNCHANGED <<windows, view, backend, cfg, snapshot, degraded, head, captured, armed,
                 touches, index, lastEnd, sessions, startView, forgotten>>

-----------------------------------------------------------------------------
(***************************************************************************)
(* Windows die and appear, with properties of their own.                   *)
(***************************************************************************)
About(a) == {a} \X Slots

Change(a) ==
  /\ props' = [props EXCEPT ![a] = [s \in Slots |-> Own(gen'[a])]]
  /\ forgotten' = forgotten \ About(a)
  /\ strayed' = strayed \ About(a)
  /\ UNCHANGED <<view, ui, calls>>

WindowDies(a) == a \in up /\ up' = up \ {a} /\ gen' = gen /\ Change(a)

WindowAppears(a) ==
  /\ a \notin up /\ gen[a] < MaxGeneration
  /\ up' = up \cup {a} /\ gen' = [gen EXCEPT ![a] = @ + 1]
  /\ Change(a)

Next ==
  \/ OnSessionStart \/ OnSelectionChanged \/ OnSessionEnd \/ PulseTick
  \/ \E a \in Addresses : WindowDies(a) \/ WindowAppears(a)

Spec == Init /\ [][Next]_vars

(* The event loop runs the timer it holds; users owe nothing.              *)
FairSpec == Spec /\ WF_vars(PulseTick)

-----------------------------------------------------------------------------
TypeOK ==
  /\ up \subseteq Addresses /\ gen \in [Addresses -> 1..MaxGeneration]
  /\ props \in [Addresses -> [Slots -> Values]]
  /\ view \in Views /\ startView \in Views
  /\ backend \in {"none", "border"} /\ cfg \in Configs
  /\ snapshot \in Seq(Refs) /\ head \in Refs \cup {NoRef}
  /\ degraded \in BOOLEAN /\ dark \in BOOLEAN /\ armed \in BOOLEAN
  /\ DOMAIN captured \subseteq Addresses \X Slots
  /\ \A c \in DOMAIN captured : captured[c] \in Values
  /\ DOMAIN touches \subseteq Monitors
  /\ \A m \in DOMAIN touches : touches[m] \in Workspaces \cup {Invalid}
  /\ index \in 0..Len(snapshot) /\ (index = 0 <=> snapshot = <<>>)
  /\ lastEnd \in {"None", "Applied", "Cancelled"} /\ sessions \in 0..MaxSessions
  /\ failures \in 0..MaxFailures
  /\ forgotten \subseteq (Addresses \X Slots) \cup {LostView}
  /\ strayed \subseteq Addresses \X Slots

Excused == forgotten \cup strayed

(* REQ-UI-005: whatever a live window does not have of its own, the        *)
(* session will put back, with the value the window had; outside a session *)
(* nothing is left.  Only a restore that failed, and a write that was no   *)
(* override of this window, escape.                                        *)
OverridesAreOwed ==
  \A a \in up, s \in Slots :
    \/ props[a][s] = Own(gen[a])
    \/ <<a, s>> \in Excused
    \/ /\ index > 0 /\ <<a, s>> \in DOMAIN captured
       /\ captured[<<a, s>>] \in {Own(gen[a])} \cup IF s = "Size" THEN {Unset} ELSE {}

(* REQ-UI-004, REQ-UI-014: the highlight is on the selected window and on  *)
(* no other, and only the others are dimmed.                               *)
MarksFollowSelection ==
  \A a \in up, s \in Slots :
    LET here == index > 0 /\ snapshot[index].address = a
    IN  <<a, s>> \notin Excused =>
          /\ props[a][s] \in {Lit, Dark, Sized} => here /\ snapshot[index] \in valid
          /\ props[a][s] = Dimmed => index > 0 /\ ~here /\ cfg.style = "dim"

(* REQ-UI-013: the callback of the timer points into the backend; it is    *)
(* armed only for the highlight of a pulse session that is not degraded.   *)
TickHasItsHighlight ==
  armed => /\ backend = "border" /\ cfg.style = "pulse" /\ ~degraded
           /\ index > 0 /\ head = snapshot[index]

(* REQ-UI-012: a cancelled session leaves every monitor as it found it.    *)
CancelRestoresViews ==
  lastEnd = "Cancelled" /\ LostView \notin forgotten =>
    \A m \in Monitors : startView[m] # Invalid => view[m] = startView[m]

(* REQ-UI-013: as long as the timer is armed the highlight throbs.         *)
PulseThrobs == /\ armed ~> (dark \/ ~armed)
               /\ dark ~> ~dark

=============================================================================

