------------------------- MODULE SessionController -------------------------
(***************************************************************************)
(* The session state machine of the switcher (session_controller.cpp) with *)
(* the history tracker it locks, flushes and feeds, and with the events    *)
(* that reach both on the compositor thread: dispatchers, overlay peer     *)
(* commands, focus changes, windows that open, close or disappear, config  *)
(* reloads, debounce timers and plugin unload.  The compositor runs one    *)
(* handler at a time, so a handler, with every call it makes, is one step. *)
(*                                                                         *)
(* The three ports are what their contracts allow: the window source may   *)
(* leave any window out (scope, unmapped, hidden), the focus gateway may   *)
(* answer any FocusResult, and the UI remembers the list it was given.     *)
(***************************************************************************)
EXTENDS History, Selection

CONSTANTS Policies,     \* the session policies a config reload may install
          MaxSessions,  \* bound: sessions started in a behaviour
          MaxJobs       \* bound: jobs scheduled before focus events stop

FocusResults == {"Applied", "InvalidTarget", "Failed"}

EndReasons == {"Applied", "UserCancel", "NoWindows", "InvalidSelection",
               "FocusFailed", "PluginShutdown"}

PolicyType == [startOffset : StartOffsets, wrap : BOOLEAN, restore : BOOLEAN]

ASSUME PoliciesAssumption == Policies \subseteq PolicyType /\ Policies # {}

ASSUME BoundsAssumption == MaxSessions \in Nat /\ MaxJobs \in Nat

(***************************************************************************)
(* A window is unborn, then live; it ends closed when the plugin gets its  *)
(* window.close event, vanished when its object dies without one.          *)
(***************************************************************************)
Fates == {"unborn", "live", "closed", "vanished"}

VARIABLES
  up,         \* FALSE once PLUGIN_EXIT has torn the plugin down
  h,          \* the history tracker and its scheduler
  active,     \* active_
  snapshot,   \* the windows of snapshot_, <<>> when there is none
  index,      \* index_
  origin,     \* session_origin_
  sessionId,  \* session_id_
  policy,     \* policy_, what the last config read gave
  frozen,     \* snapshot_policy_
  lastEnd,    \* last_end_reason_, "None" before the first end
  ui,         \* what the UI port was told: list, selected index, ends sent
  fate,       \* what has become of each window
  focused,    \* the window the compositor has focused
  calls,      \* the focus requests the last step made, with their results
  latest      \* history: the last window the tracker accepted a focus of

session == <<active, snapshot, index, origin, sessionId, frozen, lastEnd>>
vars    == <<up, h, session, policy, ui, fate, focused, calls, latest>>

(* WindowSource::is_valid and the tracker's validator.                     *)
LiveIn(f) == {w \in Windows : f[w] = "live"}

valid == LiveIn(fate)

NoUI == [shown |-> FALSE, list |-> <<>>, sel |-> 0, ends |-> 0]

Init ==
  /\ up = TRUE
  /\ fate \in [Windows -> {"unborn", "live"}]
  /\ focused \in valid \cup {NoWindow}
  /\ \E S \in SUBSET valid : \E initial \in SetToSeqs(S) :
       h = Seeded(initial, valid)
  /\ active = FALSE /\ snapshot = <<>> /\ index = 0 /\ origin = NoWindow
  /\ sessionId = 0 /\ lastEnd = "None"
  /\ policy \in Policies
  /\ frozen = policy
  /\ ui = NoUI
  /\ calls = <<>>
  /\ latest = NoWindow

-----------------------------------------------------------------------------
(***************************************************************************)
(* Helpers of the handlers.                                                *)
(***************************************************************************)

(* What WindowSource::candidates() may return: the windows of any set S of *)
(* valid ones, those of the tracker's order first and in that order.       *)
CandidateLists(order) ==
  UNION {{Keep(order, S) \o rest : rest \in SetToSeqs(S \ Range(order))} :
           S \in SUBSET valid}

Selected(list, i) == list[i + 1]

Notify(i) == ui' = [ui EXCEPT !.sel = i]

Request(w, result) == [win |-> w, result |-> result]

Unlocked == SetSessionLocked(h, FALSE)

(* Fault: a session that runs out of windows ends without telling the UI.  *)
EndSessionSilently(reason, hist) ==
  /\ active' = FALSE /\ snapshot' = <<>> /\ index' = 0 /\ origin' = NoWindow
  /\ lastEnd' = reason
  /\ h' = hist
  /\ ui' = IF reason = "NoWindows" THEN ui ELSE [NoUI EXCEPT !.ends = ui.ends + 1]
  /\ UNCHANGED <<sessionId, frozen>>

(* end_session(): back to Idle and tell the UI.  hist is the unlocked      *)
(* tracker, with what the caller does to it afterwards.                    *)
EndSession(reason, hist) ==
  /\ active' = FALSE /\ snapshot' = <<>> /\ index' = 0 /\ origin' = NoWindow
  /\ lastEnd' = reason
  /\ h' = hist
  /\ ui' = [NoUI EXCEPT !.ends = ui.ends + 1]
  /\ UNCHANGED <<sessionId, frozen>>

-----------------------------------------------------------------------------
(***************************************************************************)
(* cycle and select_index: the virtual selection.                          *)
(***************************************************************************)
StartSession(list, hist) ==
  /\ snapshot' = list
  /\ index' = InitialIndex(policy.startOffset, Len(list))
  /\ origin' = focused
  /\ sessionId' = sessionId + 1
  /\ frozen' = policy
  /\ h' = SetSessionLocked(hist, TRUE)
  /\ active' = TRUE
  /\ ui' = [ui EXCEPT !.shown = TRUE, !.list = list, !.sel = index']
  /\ UNCHANGED lastEnd

BeginSession ==
  /\ up /\ ~active /\ sessionId < MaxSessions
  /\ LET flushed == FlushPending(h, valid)
     IN  \E list \in CandidateLists(flushed.order) :
           \/ /\ list = <<>>
              /\ h' = flushed
              /\ UNCHANGED <<session, ui>>
           \/ /\ list # <<>>
              /\ StartSession(list, flushed)
  /\ calls' = <<>>
  /\ UNCHANGED <<up, policy, fate, focused, latest>>

(* Fault: a scope token in mid-session rebuilds the snapshot.              *)
CycleRebuilding(direction) ==
  /\ up /\ active
  /\ \E list \in CandidateLists(h.order) \ {<<>>} :
       /\ snapshot' = list
       /\ index' = AdvanceIndex(index, direction, frozen.wrap, Len(list))
  /\ Notify(index')
  /\ calls' = <<>>
  /\ UNCHANGED <<up, h, active, origin, sessionId, frozen, lastEnd, policy,
                 fate, focused, latest>>

(* A scope token is ignored here: the frozen snapshot is reused.           *)
Cycle(direction) ==
  /\ up /\ active
  /\ index' = AdvanceIndex(index, direction, frozen.wrap, Len(snapshot))
  /\ Notify(index')
  /\ calls' = <<>>
  /\ UNCHANGED <<up, h, active, snapshot, origin, sessionId, frozen, lastEnd,
                 policy, fate, focused, latest>>

(* Fault: selecting an entry focuses it.                                   *)
SelectIndexFocusing(i) ==
  /\ up /\ active /\ i < Len(snapshot)
  /\ index' = i
  /\ Notify(i)
  /\ calls' = <<Request(Selected(snapshot, i), "Applied")>>
  /\ focused' = Selected(snapshot, i)
  /\ UNCHANGED <<up, h, active, snapshot, origin, sessionId, frozen, lastEnd,
                 policy, fate, latest>>

(* The overlay peer picks an entry; an index out of range does nothing.    *)
SelectIndex(i) ==
  /\ up /\ active /\ i < Len(snapshot)
  /\ index' = i
  /\ Notify(i)
  /\ calls' = <<>>
  /\ UNCHANGED <<up, h, active, snapshot, origin, sessionId, frozen, lastEnd,
                 policy, fate, focused, latest>>

-----------------------------------------------------------------------------
(***************************************************************************)
(* apply.  resolve_and_focus() prunes the snapshot, clamps the index and   *)
(* asks the gateway once for the window in that slot.  The repeated prune  *)
(* of its defensive branch finds nothing more to remove, since nothing     *)
(* runs between the two.                                                   *)
(***************************************************************************)
Survivors == Keep(snapshot, valid)

Target(list, i) == Selected(list, Clamp(i, Len(list)))

(* Fault: the promotion comes before end_session(), and lock-in eats it.   *)
CompleteApplyLocked(w, log) ==
  /\ EndSession("Applied", SetSessionLocked(OnFocus(h, w), FALSE))
  /\ focused' = w
  /\ latest' = w
  /\ calls' = log

(* complete_apply(): the focus event of the request was swallowed by       *)
(* lock-in, so the window is promoted once the session has ended.          *)
CompleteApply(w, log) ==
  /\ EndSession("Applied", OnFocus(Unlocked, w))
  /\ focused' = w
  /\ latest' = w
  /\ calls' = log

(* Every other end.  A window that died in this step is focused no more.   *)
AbortApply(reason, log) ==
  /\ EndSession(reason, Unlocked)
  /\ calls' = log
  /\ focused' = IF focused \in LiveIn(fate') THEN focused ELSE NoWindow
  /\ UNCHANGED latest

Conclude(w, result, log) ==
  \/ result = "Applied" /\ CompleteApply(w, log)
  \/ result = "Failed" /\ AbortApply("FocusFailed", log)
  \/ result = "InvalidTarget" /\ AbortApply("InvalidSelection", log)

ApplyNothingLeft ==
  /\ Survivors = <<>>
  /\ UNCHANGED fate
  /\ AbortApply("NoWindows", <<>>)

ApplyOnce(result) ==
  /\ Survivors # <<>>
  /\ result # "InvalidTarget"
  /\ UNCHANGED fate
  /\ LET w == Target(Survivors, index)
     IN  Conclude(w, result, <<Request(w, result)>>)

(* The target dies between validation and focus, or the gateway refuses it *)
(* though it lives; the second attempt starts over from the survivors.     *)
ApplyAgain(dies, result) ==
  /\ Survivors # <<>>
  /\ LET first  == Target(Survivors, index)
         log    == <<Request(first, "InvalidTarget")>>
         after  == IF dies THEN [fate EXCEPT ![first] = "vanished"] ELSE fate
         list   == Keep(Survivors, LiveIn(after))
         second == Target(list, Clamp(index, Len(Survivors)))
     IN  /\ fate' = after
         /\ \/ list = <<>> /\ AbortApply("NoWindows", log)
            \/ /\ list # <<>>
               /\ Conclude(second, result, Append(log, Request(second, result)))

Apply ==
  /\ up /\ active
  /\ \/ ApplyNothingLeft
     \/ \E result \in FocusResults : ApplyOnce(result)
     \/ \E dies \in BOOLEAN, result \in FocusResults : ApplyAgain(dies, result)
  /\ UNCHANGED <<up, policy>>

-----------------------------------------------------------------------------
(***************************************************************************)
(* cancel.  The session has ended when the origin is focused, so a focus   *)
(* event the compositor emits for it reaches the tracker.                  *)
(***************************************************************************)
Restore(result, echo) ==
  /\ calls' = <<Request(origin, result)>>
  /\ \/ /\ result = "Applied"
        /\ EndSession("UserCancel", IF echo THEN OnFocus(Unlocked, origin) ELSE Unlocked)
        /\ focused' = origin
        /\ latest' = IF echo THEN origin ELSE latest
     \/ /\ result # "Applied"
        /\ EndSession("UserCancel", Unlocked)
        /\ UNCHANGED <<focused, latest>>

Cancel ==
  /\ up /\ active
  /\ UNCHANGED <<up, policy, fate>>
  /\ \/ /\ frozen.restore /\ origin \in valid
        /\ \E result \in FocusResults, echo \in BOOLEAN : Restore(result, echo)
     \/ /\ ~(frozen.restore /\ origin \in valid)
        /\ AbortApply("UserCancel", <<>>)

-----------------------------------------------------------------------------
(***************************************************************************)
(* Events from the compositor.                                             *)
(***************************************************************************)
OpenWindow(w) ==
  /\ up /\ fate[w] = "unborn"
  /\ fate' = [fate EXCEPT ![w] = "live"]
  /\ calls' = <<>>
  /\ UNCHANGED <<up, h, session, policy, ui, focused, latest>>

(* window.active: ignored while a session is active, else debounced.       *)
FocusEvent(w) ==
  /\ up /\ w \in valid
  /\ focused' = w
  /\ calls' = <<>>
  /\ \/ /\ active
        /\ UNCHANGED <<h, latest>>
     \/ /\ ~active /\ h.nextId <= MaxJobs
        /\ h' = OnFocus(h, w)
        /\ latest' = w
  /\ UNCHANGED <<up, session, policy, ui, fate>>

(* The compositor focuses nothing; the listener ignores a null window.     *)
FocusLost ==
  /\ up /\ focused # NoWindow
  /\ focused' = NoWindow
  /\ calls' = <<>>
  /\ UNCHANGED <<up, h, session, policy, ui, fate, latest>>

(* A window object dies and no close event is delivered.                   *)
WindowVanishes(w) ==
  /\ up /\ w \in valid
  /\ fate' = [fate EXCEPT ![w] = "vanished"]
  /\ focused' = IF focused = w THEN NoWindow ELSE focused
  /\ calls' = <<>>
  /\ UNCHANGED <<up, h, session, policy, ui, latest>>

(* Fault: the index is left alone when the list shrinks.                   *)
PrunedIndexUnclamped(list) == index

PrunedIndex(list) == Clamp(index, Len(list))

(* Fault: only the close of the selected window prunes.                    *)
OnWindowInvalidSelectedOnly(w, live) ==
  LET list == Keep(snapshot, live)
  IN  \/ /\ ~(active /\ w = Selected(snapshot, index))
         /\ UNCHANGED <<h, session, ui>>
      \/ /\ active /\ w = Selected(snapshot, index) /\ list = <<>>
         /\ EndSession("NoWindows", Unlocked)
      \/ /\ active /\ w = Selected(snapshot, index) /\ list # <<>>
         /\ snapshot' = list
         /\ index' = PrunedIndex(list)
         /\ UNCHANGED <<h, active, origin, sessionId, frozen, lastEnd, ui>>

(* on_window_invalid(): a snapshot that loses a window is pruned of every  *)
(* invalid one, and the session ends when none is left.                    *)
OnWindowInvalid(w, live) ==
  LET list == Keep(snapshot, live)
  IN  \/ /\ ~(active /\ w \in Range(snapshot))
         /\ UNCHANGED <<h, session, ui>>
      \/ /\ active /\ w \in Range(snapshot) /\ list = <<>>
         /\ EndSession("NoWindows", Unlocked)
      \/ /\ active /\ w \in Range(snapshot) /\ list # <<>>
         /\ snapshot' = list
         /\ index' = PrunedIndex(list)
         /\ UNCHANGED <<h, active, origin, sessionId, frozen, lastEnd, ui>>

WindowClosed(w) ==
  /\ up /\ w \in valid
  /\ fate' = [fate EXCEPT ![w] = "closed"]
  /\ focused' = IF focused = w THEN NoWindow ELSE focused
  /\ OnWindowInvalid(w, valid \ {w})
  /\ calls' = <<>>
  /\ UNCHANGED <<up, policy, latest>>

ConfigReloaded(p) ==
  /\ up
  /\ policy' = p
  /\ calls' = <<>>
  /\ UNCHANGED <<up, h, session, ui, fate, focused, latest>>

TimerFires(id) ==
  /\ \E t \in h.timers : t.id = id /\ h' = TimerFired(h, t, valid)
  /\ calls' = <<>>
  /\ UNCHANGED <<up, session, policy, ui, fate, focused, latest>>

(* Fault: unload destroys the objects without ending the session.          *)
UnloadAbruptly ==
  /\ up
  /\ up' = FALSE
  /\ h' = Destroyed(h)
  /\ calls' = <<>>
  /\ UNCHANGED <<session, ui, policy, fate, focused, latest>>

(* teardown_state(): no more events, an active session ends, the tracker   *)
(* is destroyed before the scheduler.                                      *)
Unload ==
  /\ up
  /\ up' = FALSE
  /\ \/ active /\ EndSession("PluginShutdown", Destroyed(Unlocked))
     \/ ~active /\ h' = Destroyed(h) /\ UNCHANGED <<session, ui>>
  /\ calls' = <<>>
  /\ UNCHANGED <<policy, fate, focused, latest>>

-----------------------------------------------------------------------------
(* Every id the scheduler can have handed out: focus events stop at        *)
(* MaxJobs, and a session ends with at most one promotion.                 *)
JobIds == 1..(MaxJobs + MaxSessions)

Next ==
  \/ BeginSession
  \/ \E d \in Directions : Cycle(d)
  \/ \E i \in 0..Cardinality(Windows) : SelectIndex(i)
  \/ Apply
  \/ Cancel
  \/ \E w \in Windows : OpenWindow(w)
  \/ \E w \in Windows : FocusEvent(w)
  \/ FocusLost
  \/ \E w \in Windows : WindowVanishes(w)
  \/ \E w \in Windows : WindowClosed(w)
  \/ \E p \in Policies : ConfigReloaded(p)
  \/ \E id \in JobIds : TimerFires(id)
  \/ Unload

Spec == Init /\ [][Next]_vars

(* The event loop runs every timer that stays armed.                       *)
Fairness == \A id \in JobIds : WF_vars(TimerFires(id))

FairSpec == Spec /\ Fairness

-----------------------------------------------------------------------------
(***************************************************************************)
(* Properties.                                                             *)
(***************************************************************************)

(* Every variable keeps its type: no index wraps below zero, and no list   *)
(* comes to hold anything but a window.                                    *)
TypeOK ==
  /\ up \in BOOLEAN
  /\ h \in HistoryType
  /\ active \in BOOLEAN
  /\ snapshot \in Seq(Windows)
  /\ index \in Nat
  /\ origin \in Windows \cup {NoWindow}
  /\ sessionId \in Nat
  /\ policy \in Policies
  /\ frozen \in Policies
  /\ lastEnd \in EndReasons \cup {"None"}
  /\ ui \in [shown : BOOLEAN, list : Seq(Windows), sel : Nat, ends : Nat]
  /\ fate \in [Windows -> Fates]
  /\ focused \in Windows \cup {NoWindow}
  /\ calls \in Seq([win : Windows, result : FocusResults])
  /\ latest \in Windows \cup {NoWindow}

(* An active session has a snapshot and its index lies in it, whatever was *)
(* pruned in between: Snapshot::at(index_) is always defined (the assert   *)
(* in cycle, REQ-SNAP-004).  An idle controller keeps no snapshot.         *)
SelectionInRange ==
  /\ active => index < Len(snapshot)
  /\ ~active => snapshot = <<>> /\ index = 0

(* pending_ and pending_ref_ name the one job the scheduler still holds,   *)
(* or all three are empty; and none survives into a session (REQ-H-006,    *)
(* REQ-H-011, the invariant documented in history_tracker.hpp).            *)
SingleDebounceJob ==
  /\ (h.pending = InvalidJob) <=> (h.pendingRef = NoWindow)
  /\ h.timers = IF h.pending = InvalidJob THEN {}
                ELSE {[id |-> h.pending, ref |-> h.pendingRef]}
  /\ h.locked = active
  /\ active => h.timers = {}

(* Lock-in: no step taken while a session is active reorders the history,  *)
(* not the focus events of the session's own focus request nor a timer     *)
(* armed before it (REQ-H-001).                                            *)
HistoryLockedIn == [][active => h'.order = h.order]_vars

(* The last use the tracker accepted is never lost: while its window lives *)
(* it is at the head of the order, or pending with its timer armed.  This  *)
(* spans the flush at session start, the lock and the late promotion of    *)
(* complete_apply.                                                         *)
LatestUseIsKept ==
  up /\ latest \in valid =>
    \/ h.order # <<>> /\ Head(h.order) = latest
    \/ [id |-> h.pending, ref |-> latest] \in h.timers

(* A session offers the last used window first, if it offers it at all,    *)
(* even when its debounce job had not run yet (issue #65, REQ-H-011), and  *)
(* offers no window twice.                                                 *)
LatestUseFirst ==
  [][~active /\ active' =>
       /\ latest \in Range(snapshot') => Head(snapshot') = latest
       /\ IsInjective(snapshot')]_vars

(* The snapshot is what the UI was shown at session start, in that order,  *)
(* less windows that died: scope tokens, opened windows and reordered      *)
(* history never get in, and no live window drops out (REQ-S-003,          *)
(* REQ-SNAP-003).                                                          *)
FrozenSnapshot ==
  active => /\ snapshot = Keep(ui.list, Range(snapshot))
            /\ valid \cap Range(ui.list) \subseteq Range(snapshot)

(* A window whose close event was handled is in no snapshot (the           *)
(* continuous invariant of TRANSITION-TABLE.md).                           *)
NoClosedWindowOffered ==
  \A w \in Range(snapshot) : fate[w] # "closed"

(* Every session that started sent the UI exactly one end, or is the       *)
(* active one, whichever of the six ways it ended (REQ-F-007).             *)
OneEndPerSession ==
  /\ ui.shown = active
  /\ sessionId = ui.ends + (IF active THEN 1 ELSE 0)

(* Focus is requested only by a step that ends a session, never by moving  *)
(* the selection (REQ-F-003); at most one request is Applied and nothing   *)
(* is requested after it (REQ-F-006); apply asks for live offered windows, *)
(* cancel for the live origin and only under a policy frozen to restore    *)
(* it (REQ-R-001..003); and a session ends Applied with that window        *)
(* focused, or not at all.                                                 *)
FocusDiscipline ==
  [][LET wins == {calls'[k].win : k \in DOMAIN calls'}
         done == calls' # <<>> /\ Last(calls').result = "Applied"
     IN  /\ calls' # <<>> => active /\ ~active'
         /\ wins \subseteq valid
         /\ \A k \in DOMAIN calls' : calls'[k].result = "Applied" => k = Len(calls')
         /\ active /\ ~active' =>
              IF lastEnd' = "UserCancel"
                THEN wins \subseteq IF frozen.restore THEN {origin} ELSE {}
                ELSE /\ wins \subseteq Range(snapshot)
                     /\ done <=> lastEnd' = "Applied"
         /\ done => focused' = Last(calls').win]_vars

(* After unload no debounce callback can run, the UI shows nothing and no  *)
(* session is left without its end (REQ-H-008).                            *)
NothingAfterTeardown ==
  ~up => h.timers = {} /\ ~ui.shown /\ ui.ends = sessionId

(* The controller and the tracker implement the abstract switcher: what    *)
(* settles is the order less dead windows, what is fresh is the pending    *)
(* job's window, what is offered is the snapshot.                          *)
Switcher ==
  INSTANCE AltTab WITH
    running <- up, live <- valid, settled <- Keep(h.order, valid),
    fresh <- IF h.pendingRef \in valid THEN h.pendingRef ELSE NoWindow,
    offered <- snapshot, from <- origin, focus <- focused

ImplementsAltTab == Switcher!Spec

(* A use is recorded in the end: it reaches the head of the order unless   *)
(* its window dies, another use follows or the plugin is unloaded.         *)
UseIsRecorded ==
  \A w \in Windows :
    (latest = w) ~> \/ latest # w \/ w \notin valid \/ ~up
                    \/ h.order # <<>> /\ Head(h.order) = w

-----------------------------------------------------------------------------
(***************************************************************************)
(* What the documentation says and the code does not do.                   *)
(***************************************************************************)

(* SPEC.md REQ-S-004: apply focuses the selected window if it is valid.    *)
(* Apply prunes first, and a window before the selection that died without *)
(* a close event shifts another window into the selected slot.             *)
ApplyFocusesSelected ==
  [][(active /\ ~active' /\ lastEnd' = "Applied" /\ Len(calls') = 1
        /\ Selected(snapshot, index) \in valid)
     => focused' = Selected(snapshot, index)]_vars

(* SPEC.md REQ-UI-004: after a selection change the UI highlights the      *)
(* selected window.  The UI indexes the list of session start, the         *)
(* controller the pruned one.                                              *)
HighlightIsSelection ==
  [][(\E d \in Directions : Cycle(d)) \/ (\E i \in DOMAIN snapshot : SelectIndex(i))
     => Selected(ui'.list, ui'.sel) = Selected(snapshot', index')]_vars

=============================================================================
