----------------------------- MODULE Candidates -----------------------------
(***************************************************************************)
(* The windows of a session: HyprlandWindowSource (hypr_window_source.cpp) *)
(* and the scopes (scope_predicate.cpp).  The desktop d is a record:       *)
(*                                                                         *)
(*   win      of each window: mapped, hidden (by the compositor), monitor, *)
(*            ws, class                                                    *)
(*   monitors of each monitor: active and special, the workspaces it shows *)
(*   focus    the focused window, or NoWindow                              *)
(*   history  the compositor's focus history, oldest first                 *)
(*   live     the windows of the registry, newest first                    *)
(*   order    the plugin's MRU list                                        *)
(***************************************************************************)
EXTENDS MruList

CONSTANTS Windows, NoWindow, SpecialWorkspaces, NoWorkspace

NoClass == ""

IsCandidate(d, w) == d.win[w].mapped /\ ~d.win[w].hidden

(* current_focus(): the workspaces that the monitors show.                 *)
VisibleWorkspaces(d) ==
  {d.monitors[m].active : m \in DOMAIN d.monitors} \cup
  ({d.monitors[m].special : m \in DOMAIN d.monitors} \ {NoWorkspace})

HasFocus(d) == d.focus # NoWindow

(* Fault: scratchpads are like any other workspace.                        *)
NeverHidden(d, w) == FALSE

(* derive_meta(): on a special workspace that is not shown.                *)
OnHiddenSpecial(d, w) ==
  d.win[w].ws \in SpecialWorkspaces /\ d.win[w].ws \notin VisibleWorkspaces(d)

ScopeMatches(scope, d, w) ==
  /\ d.win[w].mapped /\ ~OnHiddenSpecial(d, w)
  /\ CASE scope = "global"    -> TRUE
       [] scope = "monitor"   -> HasFocus(d) => d.win[w].monitor = d.win[d.focus].monitor
       [] scope = "workspace" -> HasFocus(d) => d.win[w].ws = d.win[d.focus].ws
       [] scope = "visible"   -> d.win[w].ws \in VisibleWorkspaces(d)
       [] scope = "app"       -> HasFocus(d) /\ d.win[d.focus].class # NoClass =>
                                   d.win[w].class = d.win[d.focus].class

Offered(d, scope) == {w \in Windows : IsCandidate(d, w) /\ ScopeMatches(scope, d, w)}

(* Candidates of the history are registered on sight, in the order they    *)
(* are met; the registry's list is newest first.                           *)
LiveAfter(d) ==
  Reverse(Keep(Reverse(d.history), {w \in Windows : IsCandidate(d, w)} \ Range(d.live))) \o d.live

Resolvable(d) == Range(LiveAfter(d))

(* candidates(scope)                                                       *)
CandidatesOf(d, scope) ==
  LET offered  == Offered(d, scope)
      fallback == Keep(Reverse(d.history), offered) \o Keep(LiveAfter(d), offered)
      primary  == Keep(d.order, offered \cap Resolvable(d))
  IN  Merge(primary, fallback)
=============================================================================
