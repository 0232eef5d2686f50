----------------------------- MODULE Navigator -----------------------------
(***************************************************************************)
(* HyprlandWorkspaceNavigator (hypr_workspace_navigator.cpp): shows the    *)
(* workspace of the selected window on its monitor during a session and,   *)
(* when the session is cancelled, puts the monitors back.                  *)
(*                                                                         *)
(* A workspace is its compositor id: positive when numbered, negative when *)
(* named.  touches_ is a function from the monitors elevated so far to the *)
(* id each showed before.                                                  *)
(***************************************************************************)
EXTENDS Integers

CONSTANTS Monitors,
          Workspaces,  \* the ids of the regular workspaces
          MonitorOf    \* the monitor each workspace lives on

Invalid == -1          \* WORKSPACE_INVALID: no workspace

ASSUME NavigatorAssumption ==
  /\ Workspaces \subseteq Int \ {Invalid}
  /\ MonitorOf \in [Workspaces -> Monitors]

Views == [Monitors -> Workspaces \cup {Invalid}]

NoTouches == [m \in {} |-> Invalid]

(* The early returns of ensure_visible: a window of no regular workspace,  *)
(* one whose workspace is visible already.                                 *)
Elevates(view, ws) == ws \in Workspaces /\ view[MonitorOf[ws]] # ws

(* Fault: every elevation is recorded, over the first.                     *)
TouchAlways(touches, view, ws) ==
  IF Elevates(view, ws)
    THEN [m \in DOMAIN touches \cup {MonitorOf[ws]} |->
            IF m = MonitorOf[ws] THEN view[m] ELSE touches[m]]
    ELSE touches

(* Only the first elevation of a monitor is recorded.                      *)
Touch(touches, view, ws) ==
  IF Elevates(view, ws)
    THEN [m \in DOMAIN touches \cup {MonitorOf[ws]} |->
            IF m \in DOMAIN touches THEN touches[m] ELSE view[m]]
    ELSE touches

Elevated(view, ws) ==
  IF Elevates(view, ws) THEN [view EXCEPT ![MonitorOf[ws]] = ws] ELSE view

(* end(): a negative id counts as "nothing to restore".                    *)
Restorable(touches, view, m) ==
  m \in DOMAIN touches /\ touches[m] >= 0 /\ view[m] # Invalid

AtEnd(touches, view, reason) ==
  [m \in Monitors |->
     IF reason = "Cancelled" /\ Restorable(touches, view, m) THEN touches[m] ELSE view[m]]

=============================================================================
