------------------------------ MODULE History ------------------------------
(***************************************************************************)
(* HistoryTracker (history_tracker.cpp) and the scheduler it posts its     *)
(* debounce job to (hypr_scheduler.cpp), as a record and one operator per  *)
(* method.  A handler that makes several calls composes the operators in   *)
(* the order of its calls.                                                 *)
(*                                                                         *)
(*   order       order_, most recently used window first                   *)
(*   locked      locked_, the lock-in of an active session                 *)
(*   pending     pending_, the job id of the debounce job, or InvalidJob   *)
(*   pendingRef  pending_ref_, or NoWindow                                 *)
(*   timers      the jobs the event loop still holds, with the window each *)
(*               callback captured                                         *)
(*   nextId      next_id_ of the scheduler                                 *)
(*                                                                         *)
(* The delay of a job is left out: a timer may fire at any later moment.   *)
(***************************************************************************)
EXTENDS MruList

CONSTANTS Windows,   \* the identities (WindowRef) windows may have
          NoWindow   \* the empty std::optional<WindowRef>

ASSUME WindowsAssumption == IsFiniteSet(Windows) /\ NoWindow \notin Windows

InvalidJob == 0

Timer == [id : Nat \ {InvalidJob}, ref : Windows]

HistoryType ==
  [order : Seq(Windows), locked : BOOLEAN, pending : Nat,
   pendingRef : Windows \cup {NoWindow}, timers : SUBSET Timer,
   nextId : Nat \ {InvalidJob}]

(***************************************************************************)
(* The constructor, followed by seed() with the windows known at load.     *)
(***************************************************************************)
Seeded(initial, valid) ==
  [order |-> FirstOccurrences(Keep(initial, valid)), locked |-> FALSE,
   pending |-> InvalidJob, pendingRef |-> NoWindow, timers |-> {}, nextId |-> 1]

(***************************************************************************)
(* schedule_after and the assignments of its result to pending_.           *)
(***************************************************************************)
ScheduleAfter(h, ref) ==
  [h EXCEPT !.timers = @ \cup {[id |-> h.nextId, ref |-> ref]},
            !.pending = h.nextId, !.pendingRef = ref, !.nextId = @ + 1]

CancelPending(h) ==
  [h EXCEPT !.timers = {t \in @ : t.id # h.pending},
            !.pending = InvalidJob, !.pendingRef = NoWindow]

Commit(h, ref, valid) ==
  [h EXCEPT !.pending = InvalidJob, !.pendingRef = NoWindow,
            !.order = IF ref \in valid THEN Promote(@, ref) ELSE @]

OnFocusWithoutCancel(h, ref) ==
  IF h.locked THEN h ELSE ScheduleAfter(h, ref)

OnFocus(h, ref) ==
  IF h.locked THEN h ELSE ScheduleAfter(CancelPending(h), ref)

SetSessionLocked(h, b) ==
  IF b /\ ~h.locked THEN [CancelPending(h) EXCEPT !.locked = TRUE]
                    ELSE [h EXCEPT !.locked = b]

FlushNothing(h, valid) == h

FlushPending(h, valid) ==
  IF h.pending = InvalidJob \/ h.pendingRef = NoWindow
    THEN h
    ELSE Commit(CancelPending(h), h.pendingRef, valid)

(***************************************************************************)
(* A timer fires: the scheduler forgets the job, then runs its callback.   *)
(***************************************************************************)
TimerFiredKeepingJob(h, t, valid) ==
  [Commit(h, t.ref, valid) EXCEPT !.timers = @ \ {t}, !.pending = h.pending]

TimerFired(h, t, valid) ==
  Commit([h EXCEPT !.timers = @ \ {t}], t.ref, valid)

(***************************************************************************)
(* ~HistoryTracker and ~HyprlandSchedulerPort: cancel what is pending,     *)
(* then disarm every timer the scheduler still holds.                      *)
(***************************************************************************)
Destroyed(h) == [CancelPending(h) EXCEPT !.timers = {}]

=============================================================================
