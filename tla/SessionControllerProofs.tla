----------------------- MODULE SessionControllerProofs -----------------------
(***************************************************************************)
(* Proofs about SessionController, for any set of windows, any policies    *)
(* and any bounds.                                                         *)
(***************************************************************************)
EXTENDS SessionController, MruListTheorems

-----------------------------------------------------------------------------
(***************************************************************************)
(* The methods of the history tracker.                                     *)
(***************************************************************************)

(* pending_, pending_ref_ and the scheduler agree on the one job there is. *)
JobsAgree(hh) ==
  /\ (hh.pending = InvalidJob) <=> (hh.pendingRef = NoWindow)
  /\ hh.timers = IF hh.pending = InvalidJob THEN {}
                 ELSE {[id |-> hh.pending, ref |-> hh.pendingRef]}

Tracker(hh) == hh \in HistoryType /\ JobsAgree(hh)

NoJob(hh) ==
  hh.pending = InvalidJob /\ hh.pendingRef = NoWindow /\ hh.timers = {}

(* The fields of a tracker have their types, and a record of such fields   *)
(* is a tracker's.                                                         *)
LEMMA HistoryFields ==
  ASSUME NEW hh \in HistoryType
  PROVE  /\ hh.order \in Seq(Windows) /\ hh.locked \in BOOLEAN
         /\ hh.pending \in Nat /\ hh.pendingRef \in Windows \cup {NoWindow}
         /\ hh.timers \in SUBSET Timer /\ hh.nextId \in Nat /\ hh.nextId # InvalidJob
BY DEF HistoryType

LEMMA Cancelled ==
  ASSUME NEW hh, Tracker(hh)
  PROVE  /\ Tracker(CancelPending(hh)) /\ NoJob(CancelPending(hh))
         /\ CancelPending(hh).order = hh.order
         /\ CancelPending(hh).locked = hh.locked
<1> DEFINE r == [hh EXCEPT !.timers = {}, !.pending = InvalidJob, !.pendingRef = NoWindow]
<1>1. hh \in HistoryType /\ JobsAgree(hh)
  BY DEF Tracker
<1>2. {t \in hh.timers : t.id # hh.pending} = {}
  BY <1>1 DEF JobsAgree
<1>3. CancelPending(hh) = r
  BY <1>2 DEF CancelPending
<1>4. /\ r \in HistoryType /\ r.order = hh.order /\ r.locked = hh.locked
      /\ r.timers = {} /\ r.pending = InvalidJob /\ r.pendingRef = NoWindow
  BY <1>1 DEF HistoryType, InvalidJob
<1> HIDE DEF r
<1> QED  BY <1>3, <1>4 DEF Tracker, JobsAgree, NoJob

LEMMA Scheduled ==
  ASSUME NEW hh, Tracker(hh), NoJob(hh), NEW w \in Windows
  PROVE  /\ Tracker(ScheduleAfter(hh, w))
         /\ ScheduleAfter(hh, w).order = hh.order
         /\ ScheduleAfter(hh, w).locked = hh.locked
         /\ ScheduleAfter(hh, w).pendingRef = w
<1> DEFINE job == [id |-> hh.nextId, ref |-> w]
           r == [hh EXCEPT !.timers = {job}, !.pending = hh.nextId,
                           !.pendingRef = w, !.nextId = hh.nextId + 1]
<1>1. hh \in HistoryType /\ NoJob(hh)
  BY DEF Tracker
<1>2. hh.nextId \in Nat /\ hh.nextId # InvalidJob
  BY <1>1, HistoryFields
<1>3. hh.timers \cup {job} = {job}
  BY <1>1 DEF NoJob
<1>4. ScheduleAfter(hh, w) = r
  BY <1>3 DEF ScheduleAfter
<1>5. job \in Timer
  BY <1>2 DEF Timer
<1>6. hh.nextId + 1 \in Nat \ {InvalidJob}
  BY <1>2 DEF InvalidJob
<1> HIDE DEF job
<1>7. /\ r \in HistoryType /\ r.order = hh.order /\ r.locked = hh.locked
      /\ r.timers = {job} /\ r.pending = hh.nextId /\ r.pendingRef = w
  BY <1>1, <1>2, <1>5, <1>6 DEF HistoryType
<1> HIDE DEF r
<1>8. JobsAgree(r)
  BY <1>2, <1>7, WindowsAssumption DEF JobsAgree, job
<1> QED  BY <1>4, <1>7, <1>8 DEF Tracker

LEMMA Committed ==
  ASSUME NEW hh \in HistoryType, hh.timers = {}, NEW w \in Windows, NEW v
  PROVE  /\ Tracker(Commit(hh, w, v)) /\ NoJob(Commit(hh, w, v))
         /\ Commit(hh, w, v).locked = hh.locked
         /\ Commit(hh, w, v).order = IF w \in v THEN Promote(hh.order, w) ELSE hh.order
<1> DEFINE o == IF w \in v THEN Promote(hh.order, w) ELSE hh.order
           r == [hh EXCEPT !.pending = InvalidJob, !.pendingRef = NoWindow, !.order = o]
<1>1. o \in Seq(Windows)
  BY HistoryFields, PromoteFacts
<1>2. Commit(hh, w, v) = r
  BY DEF Commit
<1> HIDE DEF o
<1>3. /\ r \in HistoryType /\ r.order = o /\ r.locked = hh.locked
      /\ r.timers = {} /\ r.pending = InvalidJob /\ r.pendingRef = NoWindow
  BY <1>1 DEF HistoryType, InvalidJob
<1> HIDE DEF r
<1> QED  BY <1>2, <1>3 DEF Tracker, JobsAgree, NoJob, o

LEMMA Focused ==
  ASSUME NEW hh, Tracker(hh), NEW w \in Windows
  PROVE  /\ Tracker(OnFocus(hh, w))
         /\ OnFocus(hh, w).order = hh.order
         /\ OnFocus(hh, w).locked = hh.locked
         /\ hh.locked => OnFocus(hh, w) = hh
         /\ ~hh.locked => OnFocus(hh, w).pendingRef = w
<1>1. CASE hh.locked
  BY <1>1 DEF OnFocus
<1>2. CASE ~hh.locked
  <2> DEFINE c == CancelPending(hh)
  <2>1. Tracker(c) /\ NoJob(c) /\ c.order = hh.order /\ c.locked = hh.locked
    BY Cancelled
  <2>2. OnFocus(hh, w) = ScheduleAfter(c, w)
    BY <1>2 DEF OnFocus
  <2> HIDE DEF c
  <2> QED  BY <1>2, <2>1, <2>2, Scheduled
<1> QED  BY <1>1, <1>2

LEMMA LockedIn ==
  ASSUME NEW hh, Tracker(hh), ~hh.locked
  PROVE  /\ Tracker(SetSessionLocked(hh, TRUE))
         /\ NoJob(SetSessionLocked(hh, TRUE))
         /\ SetSessionLocked(hh, TRUE).locked
         /\ SetSessionLocked(hh, TRUE).order = hh.order
<1> DEFINE c == CancelPending(hh)
<1>1. Tracker(c) /\ NoJob(c) /\ c.order = hh.order
  BY Cancelled
<1>2. SetSessionLocked(hh, TRUE) = [c EXCEPT !.locked = TRUE]
  BY DEF SetSessionLocked
<1> HIDE DEF c
<1>3. c \in HistoryType /\ JobsAgree(c)
  BY <1>1 DEF Tracker
<1>4. /\ [c EXCEPT !.locked = TRUE] \in HistoryType
      /\ [c EXCEPT !.locked = TRUE].locked = TRUE
      /\ [c EXCEPT !.locked = TRUE].order = c.order
      /\ [c EXCEPT !.locked = TRUE].pending = c.pending
      /\ [c EXCEPT !.locked = TRUE].pendingRef = c.pendingRef
      /\ [c EXCEPT !.locked = TRUE].timers = c.timers
  BY <1>3 DEF HistoryType
<1> QED  BY <1>1, <1>2, <1>3, <1>4 DEF Tracker, JobsAgree, NoJob

LEMMA UnlockedFacts ==
  ASSUME NEW hh, Tracker(hh)
  PROVE  /\ Tracker(SetSessionLocked(hh, FALSE))
         /\ ~SetSessionLocked(hh, FALSE).locked
         /\ SetSessionLocked(hh, FALSE).order = hh.order
         /\ SetSessionLocked(hh, FALSE).pendingRef = hh.pendingRef
<1> DEFINE r == [hh EXCEPT !.locked = FALSE]
<1>1. hh \in HistoryType /\ JobsAgree(hh)
  BY DEF Tracker
<1>2. SetSessionLocked(hh, FALSE) = r
  BY DEF SetSessionLocked
<1>3. /\ r \in HistoryType
      /\ r.locked = FALSE /\ r.order = hh.order /\ r.pending = hh.pending
      /\ r.pendingRef = hh.pendingRef /\ r.timers = hh.timers
  BY <1>1 DEF HistoryType
<1> HIDE DEF r
<1> QED  BY <1>1, <1>2, <1>3 DEF Tracker, JobsAgree

LEMMA Flushed ==
  ASSUME NEW hh, Tracker(hh), NEW v
  PROVE  /\ Tracker(FlushPending(hh, v))
         /\ NoJob(FlushPending(hh, v))
         /\ FlushPending(hh, v).locked = hh.locked
         /\ FlushPending(hh, v).order =
              IF hh.pendingRef \in v /\ hh.pendingRef # NoWindow
                THEN Promote(hh.order, hh.pendingRef) ELSE hh.order
<1>1. hh \in HistoryType /\ JobsAgree(hh)
  BY DEF Tracker
<1>2. CASE hh.pending = InvalidJob
  BY <1>1, <1>2 DEF FlushPending, JobsAgree, NoJob
<1>3. CASE hh.pending # InvalidJob
  <2> DEFINE c == CancelPending(hh)
  <2>1. hh.pendingRef \in Windows /\ hh.pendingRef # NoWindow
    BY <1>1, <1>3, HistoryFields DEF JobsAgree
  <2>2. FlushPending(hh, v) = Commit(c, hh.pendingRef, v)
    BY <1>3, <2>1 DEF FlushPending
  <2>3. c \in HistoryType /\ c.timers = {} /\ c.order = hh.order /\ c.locked = hh.locked
    BY Cancelled DEF Tracker, NoJob
  <2> HIDE DEF c
  <2> QED  BY <2>1, <2>2, <2>3, Committed
<1> QED  BY <1>2, <1>3

LEMMA Fired ==
  ASSUME NEW hh, Tracker(hh), NEW t \in hh.timers, NEW v
  PROVE  /\ t.ref = hh.pendingRef /\ t.ref \in Windows
         /\ Tracker(TimerFired(hh, t, v)) /\ NoJob(TimerFired(hh, t, v))
         /\ TimerFired(hh, t, v).locked = hh.locked
         /\ TimerFired(hh, t, v).order =
              IF t.ref \in v THEN Promote(hh.order, t.ref) ELSE hh.order
<1> DEFINE r == [hh EXCEPT !.timers = {}]
<1>1. hh \in HistoryType /\ JobsAgree(hh)
  BY DEF Tracker
<1>2. /\ hh.pending # InvalidJob /\ hh.timers = {t}
      /\ t = [id |-> hh.pending, ref |-> hh.pendingRef]
  BY <1>1 DEF JobsAgree
<1>3. t.ref = hh.pendingRef /\ t.ref \in Windows
  BY <1>1, <1>2, HistoryFields DEF JobsAgree
<1>4. hh.timers \ {t} = {}
  BY <1>2
<1>5. TimerFired(hh, t, v) = Commit(r, t.ref, v)
  BY <1>4 DEF TimerFired
<1>6. r \in HistoryType /\ r.timers = {} /\ r.order = hh.order /\ r.locked = hh.locked
  BY <1>1 DEF HistoryType
<1> HIDE DEF r
<1> QED  BY <1>3, <1>5, <1>6, Committed

LEMMA DestroyedFacts ==
  ASSUME NEW hh, Tracker(hh)
  PROVE  /\ Tracker(Destroyed(hh)) /\ NoJob(Destroyed(hh))
         /\ Destroyed(hh).locked = hh.locked /\ Destroyed(hh).order = hh.order
<1> DEFINE c == CancelPending(hh)
           r == [c EXCEPT !.timers = {}]
<1>1. /\ Tracker(c) /\ NoJob(c) /\ c.order = hh.order /\ c.locked = hh.locked
  BY Cancelled
<1>2. Destroyed(hh) = r
  BY DEF Destroyed
<1> HIDE DEF c
<1>3. /\ r \in HistoryType /\ r.order = c.order /\ r.locked = c.locked
      /\ r.timers = {} /\ r.pending = c.pending /\ r.pendingRef = c.pendingRef
  BY <1>1 DEF Tracker, HistoryType
<1> HIDE DEF r
<1> QED  BY <1>1, <1>2, <1>3 DEF Tracker, JobsAgree, NoJob

-----------------------------------------------------------------------------
(***************************************************************************)
(* The inductive invariant.  The jobs agree in every state; the rest says  *)
(* what SingleDebounceJob, LatestUseIsKept and the others need to be kept  *)
(* by a step: that the order repeats no window, that a pending job is that *)
(* of the latest use, and that only windows that were opened are used.     *)
(***************************************************************************)
SessionTypeOK ==
  /\ h \in HistoryType
  /\ active \in BOOLEAN
  /\ snapshot \in Seq(Windows)
  /\ index \in Nat
  /\ origin \in Windows \cup {NoWindow}
  /\ sessionId \in Nat
  /\ frozen \in Policies
  /\ lastEnd \in EndReasons \cup {"None"}
  /\ ui \in [shown : BOOLEAN, list : Seq(Windows), sel : Nat, ends : Nat]

SessionInv ==
  /\ SessionTypeOK
  /\ SelectionInRange
  /\ JobsAgree(h) /\ h.locked = active /\ (active => NoJob(h))
  /\ OneEndPerSession
  /\ IsInjective(h.order)

EventsTypeOK ==
  /\ up \in BOOLEAN
  /\ policy \in Policies
  /\ fate \in [Windows -> Fates]
  /\ focused \in Windows \cup {NoWindow}
  /\ calls \in Seq([win : Windows, result : FocusResults])
  /\ latest \in Windows \cup {NoWindow}

LatestInv ==
  /\ latest # NoWindow => fate[latest] # "unborn"
  /\ h.pendingRef # NoWindow => h.pendingRef = latest
  /\ up /\ latest \in valid =>
       \/ h.order # <<>> /\ Head(h.order) = latest
       \/ h.pendingRef = latest

Inv ==
  /\ SessionInv
  /\ EventsTypeOK
  /\ LatestInv
  /\ NoClosedWindowOffered
  /\ (~up => NoJob(h) /\ ~active)

(* Both forms of the agreement of the jobs, and of the order's head.       *)
LEMMA InvImplies ==
  ASSUME Inv
  PROVE  /\ TypeOK /\ SelectionInRange /\ SingleDebounceJob /\ LatestUseIsKept
         /\ NoClosedWindowOffered /\ OneEndPerSession /\ NothingAfterTeardown
<1> USE DEF Inv
<1>1. TypeOK
  BY DEF SessionInv, SessionTypeOK, EventsTypeOK, TypeOK
<1>2. SingleDebounceJob
  BY DEF SessionInv, JobsAgree, NoJob, SingleDebounceJob
<1>3. LatestUseIsKept
  <2>1. SUFFICES ASSUME up, latest \in valid, h.pendingRef = latest
                 PROVE  [id |-> h.pending, ref |-> latest] \in h.timers
    BY DEF LatestInv, LatestUseIsKept
  <2>2. latest # NoWindow
    BY <2>1, WindowsAssumption DEF valid, LiveIn
  <2>3. h.pending # InvalidJob
    BY <2>1, <2>2 DEF SessionInv, JobsAgree
  <2> QED  BY <2>1, <2>3 DEF SessionInv, JobsAgree
<1>4. NothingAfterTeardown
  <2>1. SUFFICES ASSUME ~up PROVE h.timers = {} /\ ~ui.shown /\ ui.ends = sessionId
    BY DEF NothingAfterTeardown
  <2>2. NoJob(h) /\ ~active
    BY <2>1
  <2>3. ui.shown = active /\ sessionId = ui.ends + 0
    BY <2>2 DEF SessionInv, OneEndPerSession
  <2>4. ui.ends \in Nat
    BY DEF SessionInv, SessionTypeOK
  <2> QED  BY <2>2, <2>3, <2>4 DEF NoJob
<1> QED  BY <1>1, <1>2, <1>3, <1>4 DEF SessionInv

(* The UI record of an ended session, and of one that starts or moves.     *)
LEMMA UiFacts ==
  ASSUME NEW u \in [shown : BOOLEAN, list : Seq(Windows), sel : Nat, ends : Nat],
         NEW list \in Seq(Windows), NEW i \in Nat
  PROVE  /\ [NoUI EXCEPT !.ends = u.ends + 1]
              \in [shown : BOOLEAN, list : Seq(Windows), sel : Nat, ends : Nat]
         /\ [NoUI EXCEPT !.ends = u.ends + 1].ends = u.ends + 1
         /\ [NoUI EXCEPT !.ends = u.ends + 1].shown = FALSE
         /\ [u EXCEPT !.shown = TRUE, !.list = list, !.sel = i]
              \in [shown : BOOLEAN, list : Seq(Windows), sel : Nat, ends : Nat]
         /\ [u EXCEPT !.shown = TRUE, !.list = list, !.sel = i].shown = TRUE
         /\ [u EXCEPT !.shown = TRUE, !.list = list, !.sel = i].ends = u.ends
         /\ [u EXCEPT !.sel = i]
              \in [shown : BOOLEAN, list : Seq(Windows), sel : Nat, ends : Nat]
         /\ [u EXCEPT !.sel = i].shown = u.shown
         /\ [u EXCEPT !.sel = i].ends = u.ends
<1>1. <<>> \in Seq(Windows) /\ 0 \in Nat /\ u.ends + 1 \in Nat
  OBVIOUS
<1> QED  BY <1>1 DEF NoUI

(* end_session() from any state of an active session leaves an idle        *)
(* controller, an unlocked tracker and one more end sent to the UI.        *)
LEMMA Ended ==
  ASSUME Inv, active, NEW reason \in EndReasons, NEW hist, Tracker(hist),
         ~hist.locked, IsInjective(hist.order), EndSession(reason, hist)
  PROVE  /\ SessionInv' /\ ~active' /\ snapshot' = <<>> /\ h' = hist
         /\ NoClosedWindowOffered'
<1>0. <<>> \in Seq(Windows) /\ 0 \in Nat
  OBVIOUS
<1>1. /\ active' = FALSE /\ snapshot' = <<>> /\ index' = 0 /\ origin' = NoWindow
      /\ lastEnd' = reason /\ h' = hist
      /\ ui' = [NoUI EXCEPT !.ends = ui.ends + 1]
      /\ sessionId' = sessionId /\ frozen' = frozen
  BY DEF EndSession
<1>2. SessionTypeOK /\ OneEndPerSession
  BY DEF Inv, SessionInv
<1>3. /\ ui' \in [shown : BOOLEAN, list : Seq(Windows), sel : Nat, ends : Nat]
      /\ ui'.shown = FALSE /\ ui'.ends = ui.ends + 1
  BY <1>0, <1>1, <1>2, UiFacts DEF SessionTypeOK
<1>4. hist \in HistoryType /\ JobsAgree(hist) /\ hist.locked = FALSE
  BY HistoryFields DEF Tracker
<1>5. SessionTypeOK'
  BY <1>0, <1>1, <1>2, <1>3, <1>4 DEF SessionTypeOK
<1>6. SelectionInRange'
  BY <1>1 DEF SelectionInRange
<1>7. JobsAgree(h') /\ h'.locked = active' /\ (active' => NoJob(h'))
  BY <1>1, <1>4
<1>8. OneEndPerSession'
  <2>1. sessionId = ui.ends + 1 /\ ui.ends \in Nat
    BY <1>2 DEF OneEndPerSession, SessionTypeOK
  <2>2. ui'.shown = active'
    BY <1>1, <1>3
  <2>3. sessionId' = ui'.ends
    BY <1>1, <1>3, <2>1
  <2>4. ui'.ends + 0 = ui'.ends
    BY <1>3, <2>1
  <2>5. sessionId' = ui'.ends + (IF active' THEN 1 ELSE 0)
    BY <1>1, <2>3, <2>4
  <2> QED  BY <2>2, <2>5 DEF OneEndPerSession
<1>9. NoClosedWindowOffered'
  <2>1. Range(<<>>) = {}
    BY DEF Range
  <2> QED  BY <1>1, <2>1 DEF NoClosedWindowOffered
<1> QED  BY <1>1, <1>5, <1>6, <1>7, <1>8, <1>9 DEF SessionInv

-----------------------------------------------------------------------------
(***************************************************************************)
(* One lemma per action: the step keeps the invariant.                     *)
(***************************************************************************)

(* Every list of candidates is made of live windows, repeats none, and is  *)
(* headed by the head of the order if that is in it at all.                *)
LEMMA Candidates ==
  ASSUME NEW order \in Seq(Windows), IsInjective(order),
         NEW list \in CandidateLists(order)
  PROVE  /\ list \in Seq(Windows) /\ IsInjective(list) /\ Range(list) \subseteq valid
         /\ order # <<>> /\ Head(order) \in Range(list) => Head(list) = Head(order)
<1>1. PICK S \in SUBSET valid : \E rest \in SetToSeqs(S \ Range(order)) :
        list = Keep(order, S) \o rest
  BY DEF CandidateLists
<1>a. PICK rest \in SetToSeqs(S \ Range(order)) : list = Keep(order, S) \o rest
  BY <1>1
<1> DEFINE k == Keep(order, S)
<1>2. S \subseteq Windows
  BY DEF valid, LiveIn
<1>3. IsFiniteSet(S \ Range(order))
  BY <1>2, WindowsAssumption, FS_Subset
<1>4. /\ rest \in Seq(S \ Range(order)) /\ IsInjective(rest)
      /\ Range(rest) = S \ Range(order)
  BY <1>3, SetToSeqsFacts
<1>5. rest \in Seq(Windows)
  BY <1>2, <1>4
<1>6. k \in Seq(Windows) /\ Range(k) = Range(order) \cap S /\ IsInjective(k)
  BY KeepFacts
<1>7. list = k \o rest
  BY <1>a
<1>8. ASSUME order # <<>>, Head(order) \in Range(list) PROVE Head(list) = Head(order)
  <2>1. Range(k \o rest) = Range(k) \cup Range(rest)
    BY <1>5, <1>6, ConcatFacts
  <2>2. Head(order) \in S
    BY <1>4, <1>6, <1>7, <1>8, <2>1
  <2>3. k # <<>> /\ Head(k) = Head(order)
    BY <1>8, <2>2, KeepHead
  <2> HIDE DEF k
  <2>4. Head(k \o rest) = Head(k)
    BY <1>5, <1>6, <2>3
  <2> QED  BY <1>7, <2>3, <2>4
<1> HIDE DEF k
<1>9. Range(k) \cap Range(rest) = {}
  BY <1>4, <1>6
<1>10. /\ k \o rest \in Seq(Windows) /\ IsInjective(k \o rest)
       /\ Range(k \o rest) = Range(k) \cup Range(rest)
  BY <1>4, <1>5, <1>6, <1>9, ConcatFacts
<1> QED  BY <1>4, <1>6, <1>7, <1>8, <1>10

(* What flushing at session start leaves: a tracker whose head is the      *)
(* latest use, if that window lives.                                       *)
LEMMA FlushedTracker ==
  ASSUME Inv, ~active, up
  PROVE  /\ Tracker(FlushPending(h, valid)) /\ NoJob(FlushPending(h, valid))
         /\ ~FlushPending(h, valid).locked
         /\ FlushPending(h, valid).order \in Seq(Windows)
         /\ IsInjective(FlushPending(h, valid).order)
         /\ latest \in valid => /\ FlushPending(h, valid).order # <<>>
                                /\ Head(FlushPending(h, valid).order) = latest
<1>1. Tracker(h) /\ h.locked = FALSE /\ IsInjective(h.order) /\ h.order \in Seq(Windows)
      /\ h.pendingRef \in Windows \cup {NoWindow}
  <2>1. h \in HistoryType
    BY DEF Inv, SessionInv, SessionTypeOK
  <2> QED  BY <2>1, HistoryFields DEF Inv, SessionInv, Tracker
<1> DEFINE f == FlushPending(h, valid)
<1>2. /\ Tracker(f) /\ NoJob(f) /\ f.locked = h.locked
      /\ f.order = IF h.pendingRef \in valid /\ h.pendingRef # NoWindow
                     THEN Promote(h.order, h.pendingRef) ELSE h.order
  BY <1>1, Flushed
<1> HIDE DEF f
<1>3. CASE h.pendingRef \in valid /\ h.pendingRef # NoWindow
  <2>1. h.pendingRef = latest
    BY <1>3 DEF Inv, LatestInv
  <2> DEFINE o == h.order
             w == h.pendingRef
  <2>a. w \in Windows
    BY <1>1, <1>3
  <2>b. o \in Seq(Windows) /\ IsInjective(o)
    BY <1>1
  <2> HIDE DEF o, w
  <2>2. /\ Promote(o, w) \in Seq(Windows) /\ IsInjective(Promote(o, w))
        /\ Promote(o, w) # <<>> /\ Head(Promote(o, w)) = w
    BY <2>a, <2>b, PromoteFacts
  <2> QED  BY <1>1, <1>2, <1>3, <2>1, <2>2 DEF f, o, w
<1>4. CASE ~(h.pendingRef \in valid /\ h.pendingRef # NoWindow)
  <2>1. f.order = h.order
    BY <1>2, <1>4
  <2>2. ASSUME latest \in valid PROVE h.order # <<>> /\ Head(h.order) = latest
    <3>1. latest # NoWindow
      BY <2>2, WindowsAssumption DEF valid, LiveIn
    <3>2. h.pendingRef # latest
      BY <1>4, <2>2, <3>1
    <3> QED  BY <2>2, <3>2 DEF Inv, LatestInv
  <2> QED  BY <1>1, <1>2, <2>1, <2>2 DEF f
<1> QED  BY <1>3, <1>4

(* A session starts on a list of candidates, or there is none to start.    *)
LEMMA BeginSessionKeepsInv ==
  ASSUME Inv, BeginSession
  PROVE  Inv'
<1> DEFINE f == FlushPending(h, valid)
<1>1. /\ up /\ ~active /\ calls' = <<>>
      /\ up' = up /\ policy' = policy /\ fate' = fate /\ focused' = focused
      /\ latest' = latest
  BY DEF BeginSession
<1>2. /\ Tracker(f) /\ NoJob(f) /\ ~f.locked
      /\ f.order \in Seq(Windows) /\ IsInjective(f.order)
      /\ latest \in valid => f.order # <<>> /\ Head(f.order) = latest
  BY <1>1, FlushedTracker
<1>3. PICK list \in CandidateLists(f.order) :
        \/ list = <<>> /\ h' = f /\ UNCHANGED <<session, ui>>
        \/ list # <<>> /\ StartSession(list, f)
  BY DEF BeginSession
<1> HIDE DEF f
<1>4. list \in Seq(Windows) /\ Range(list) \subseteq valid
  BY <1>2, Candidates
<1>5. SessionInv /\ EventsTypeOK /\ LatestInv /\ NoClosedWindowOffered
  BY DEF Inv
<1>6. EventsTypeOK'
  BY <1>1, <1>5 DEF EventsTypeOK
<1>7. valid' = valid
  BY <1>1 DEF valid
<1>8. ASSUME NEW g, h' = g, NoJob(g), g.order = f.order PROVE LatestInv'
  <2>1. h'.pendingRef = NoWindow /\ h'.order = f.order
    BY <1>8 DEF NoJob
  <2> QED  BY <1>1, <1>2, <1>5, <1>7, <2>1 DEF LatestInv
<1>9. CASE list = <<>> /\ h' = f /\ UNCHANGED <<session, ui>>
  <2>1. /\ active' = active /\ snapshot' = snapshot /\ index' = index
        /\ origin' = origin /\ sessionId' = sessionId /\ frozen' = frozen
        /\ lastEnd' = lastEnd /\ ui' = ui
    BY <1>9 DEF session
  <2>2. SessionTypeOK'
    BY <1>2, <1>5, <1>9, <2>1 DEF SessionInv, SessionTypeOK, Tracker
  <2>3. SelectionInRange' /\ OneEndPerSession'
    BY <1>5, <2>1 DEF SessionInv, SelectionInRange, OneEndPerSession
  <2>4. f.locked = FALSE /\ JobsAgree(f) /\ active = FALSE
    BY <1>1, <1>2, <1>5, HistoryFields DEF Tracker, SessionInv, SessionTypeOK
  <2>5. JobsAgree(h') /\ h'.locked = active' /\ (active' => NoJob(h')) /\ IsInjective(h'.order)
    BY <1>2, <1>9, <2>1, <2>4
  <2>6. SessionInv'
    BY <2>2, <2>3, <2>5 DEF SessionInv
  <2>7. NoClosedWindowOffered'
    BY <1>1, <1>5, <2>1 DEF NoClosedWindowOffered
  <2>8. LatestInv'
    BY <1>2, <1>8, <1>9
  <2> QED  BY <1>1, <1>6, <2>6, <2>7, <2>8 DEF Inv
<1>10. CASE list # <<>> /\ StartSession(list, f)
  <2> DEFINE g == SetSessionLocked(f, TRUE)
  <2>1. /\ snapshot' = list /\ active' = TRUE /\ origin' = focused
        /\ index' = InitialIndex(policy.startOffset, Len(list))
        /\ sessionId' = sessionId + 1 /\ frozen' = policy /\ lastEnd' = lastEnd
        /\ h' = g
        /\ ui' = [ui EXCEPT !.shown = TRUE, !.list = list, !.sel = index']
    BY <1>10 DEF StartSession
  <2>2. Tracker(g) /\ NoJob(g) /\ g.locked /\ g.order = f.order
    BY <1>2, LockedIn
  <2> HIDE DEF g
  <2>3. Len(list) \in Nat /\ Len(list) > 0
    BY <1>4, <1>10
  <2>4. policy.startOffset \in StartOffsets
    BY <1>5, PoliciesAssumption DEF EventsTypeOK, PolicyType
  <2>5. index' \in Nat /\ index' < Len(list)
    <3>1. \A o \in StartOffsets :
            InitialIndex(o, Len(list)) \in Nat /\ InitialIndex(o, Len(list)) < Len(list)
      BY <2>3, IndexInRange, 0 \in Nat, "Next" \in Directions, TRUE \in BOOLEAN
         DEF Directions
    <3> QED  BY <2>1, <2>4, <3>1
  <2>6. /\ ui' \in [shown : BOOLEAN, list : Seq(Windows), sel : Nat, ends : Nat]
        /\ ui'.shown = TRUE /\ ui'.ends = ui.ends
    BY <1>4, <1>5, <2>1, <2>5, UiFacts DEF SessionInv, SessionTypeOK
  <2>7. SessionTypeOK'
    BY <1>4, <1>5, <2>1, <2>2, <2>5, <2>6
       DEF SessionInv, SessionTypeOK, EventsTypeOK, Tracker
  <2>8. SelectionInRange'
    BY <2>1, <2>5 DEF SelectionInRange
  <2>9. OneEndPerSession'
    <3>1. ui'.shown = active'
      BY <2>1, <2>6
    <3>2. sessionId = ui.ends + 0 /\ ui.ends \in Nat
      BY <1>1, <1>5 DEF SessionInv, SessionTypeOK, OneEndPerSession
    <3>3. sessionId' = ui'.ends + 1
      BY <2>1, <2>6, <3>2
    <3> QED  BY <2>1, <3>1, <3>3 DEF OneEndPerSession
  <2>10. g.locked = TRUE /\ JobsAgree(g)
    BY <2>2, HistoryFields DEF Tracker
  <2>11. JobsAgree(h') /\ h'.locked = active' /\ (active' => NoJob(h')) /\ IsInjective(h'.order)
    BY <1>2, <2>1, <2>2, <2>10
  <2>12. SessionInv'
    BY <2>7, <2>8, <2>9, <2>11 DEF SessionInv
  <2>13. NoClosedWindowOffered'
    BY <1>1, <1>4, <2>1 DEF NoClosedWindowOffered, valid, LiveIn
  <2>14. LatestInv'
    BY <1>8, <2>1, <2>2
  <2> QED  BY <1>1, <1>6, <2>12, <2>13, <2>14 DEF Inv
<1> QED  BY <1>3, <1>9, <1>10

(* The selection moves: nothing but the index and the UI's copy changes.   *)
LEMMA SelectionKeepsInv ==
  ASSUME Inv, \/ \E d \in Directions : Cycle(d)
              \/ \E i \in 0..Cardinality(Windows) : SelectIndex(i)
  PROVE  Inv'
<1>1. SessionInv /\ EventsTypeOK /\ LatestInv /\ NoClosedWindowOffered
  BY DEF Inv
<1>2. /\ up /\ active /\ calls' = <<>> /\ ui' = [ui EXCEPT !.sel = index']
      /\ up' = up /\ h' = h /\ active' = active /\ snapshot' = snapshot
      /\ origin' = origin /\ sessionId' = sessionId /\ frozen' = frozen
      /\ lastEnd' = lastEnd /\ policy' = policy /\ fate' = fate
      /\ focused' = focused /\ latest' = latest
  BY DEF Cycle, SelectIndex, Notify
<1>3. snapshot \in Seq(Windows) /\ index \in Nat /\ index < Len(snapshot)
      /\ frozen \in Policies
  BY <1>1, <1>2 DEF SessionInv, SessionTypeOK, SelectionInRange
<1>4. index' \in Nat /\ index' < Len(snapshot)
  <2>1. CASE \E d \in Directions : Cycle(d)
    <3>1. PICK d \in Directions :
            index' = AdvanceIndex(index, d, frozen.wrap, Len(snapshot))
      BY <2>1 DEF Cycle
    <3>2. frozen.wrap \in BOOLEAN
      BY <1>3, PoliciesAssumption DEF PolicyType
    <3>3. Len(snapshot) \in Nat /\ Len(snapshot) > 0 /\ "First" \in StartOffsets
      BY <1>3 DEF StartOffsets
    <3> DEFINE n == Len(snapshot)
               b == frozen.wrap
    <3>4. /\ n \in Nat /\ n > 0 /\ b \in BOOLEAN
          /\ index' = AdvanceIndex(index, d, b, n)
      BY <3>1, <3>2, <3>3
    <3> HIDE DEF n, b
    <3>5. AdvanceIndex(index, d, b, n) \in Nat /\ AdvanceIndex(index, d, b, n) < n
      BY <1>3, <3>3, <3>4, IndexInRange
    <3> QED  BY <3>4, <3>5 DEF n
  <2>2. CASE \E i \in 0..Cardinality(Windows) : SelectIndex(i)
    <3>1. Cardinality(Windows) \in Nat
      BY WindowsAssumption, FS_CardinalityType
    <3> QED  BY <2>2, <3>1 DEF SelectIndex
  <2> QED  BY <2>1, <2>2
<1>5. /\ ui' \in [shown : BOOLEAN, list : Seq(Windows), sel : Nat, ends : Nat]
      /\ ui'.shown = ui.shown /\ ui'.ends = ui.ends
  BY <1>1, <1>2, <1>3, <1>4, UiFacts DEF SessionInv, SessionTypeOK
<1>6. SessionInv'
  <2>1. SessionTypeOK'
    BY <1>1, <1>2, <1>4, <1>5 DEF SessionInv, SessionTypeOK
  <2>2. SelectionInRange'
    BY <1>2, <1>4 DEF SelectionInRange
  <2>3. OneEndPerSession'
    BY <1>1, <1>2, <1>5 DEF SessionInv, OneEndPerSession
  <2> QED  BY <1>1, <1>2, <2>1, <2>2, <2>3 DEF SessionInv
<1>7. EventsTypeOK'
  BY <1>1, <1>2 DEF EventsTypeOK
<1>8. LatestInv' /\ NoClosedWindowOffered'
  BY <1>1, <1>2 DEF LatestInv, NoClosedWindowOffered, valid
<1> QED  BY <1>2, <1>6, <1>7, <1>8 DEF Inv

(* The lifecycle of a window, as far as any handler moves it: nothing      *)
(* becomes unborn, and only a window that was unborn starts to live.       *)
FateMoves(f, g) ==
  \A w \in Windows : /\ g[w] = "unborn" => f[w] = "unborn"
                     /\ g[w] = "live" => f[w] \in {"live", "unborn"}

(* Any handler that ends the session: the tracker is unlocked and, if a    *)
(* window was focused and that use counts, has it pending.                 *)
LEMMA SessionEndKeepsInv ==
  ASSUME Inv, up, active, up', EventsTypeOK', FateMoves(fate, fate'),
         NEW reason \in EndReasons,
         \/ EndSession(reason, Unlocked) /\ latest' = latest
         \/ \E w \in Windows : /\ EndSession(reason, OnFocus(Unlocked, w))
                               /\ latest' = w /\ fate'[w] # "unborn"
  PROVE  Inv'
<1>1. /\ Tracker(h) /\ NoJob(h) /\ IsInjective(h.order) /\ h.pendingRef = NoWindow
  BY DEF Inv, SessionInv, SessionTypeOK, Tracker, NoJob
<1> DEFINE u == Unlocked
<1>2. Tracker(u) /\ ~u.locked /\ u.order = h.order /\ u.pendingRef = NoWindow
  BY <1>1, UnlockedFacts DEF Unlocked
<1>3. LatestInv /\ EventsTypeOK
  BY DEF Inv
<1> HIDE DEF u
<1>4. CASE EndSession(reason, u) /\ latest' = latest
  <2>1. SessionInv' /\ h' = u /\ NoClosedWindowOffered'
    BY <1>1, <1>2, <1>4, Ended
  <2>2. latest' \in valid' => latest \in valid
    <3>1. ASSUME latest' \in valid' PROVE latest \in valid
      <4>1. latest \in Windows /\ fate'[latest] = "live"
        BY <1>4, <3>1 DEF valid, LiveIn
      <4>2. fate[latest] \in {"live", "unborn"}
        BY <4>1 DEF FateMoves
      <4>3. latest # NoWindow
        BY <4>1, WindowsAssumption
      <4>4. fate[latest] = "live"
        BY <1>3, <4>2, <4>3 DEF LatestInv
      <4> QED  BY <4>1, <4>4 DEF valid, LiveIn
    <3> QED  BY <3>1
  <2>3. latest' # NoWindow => fate'[latest'] # "unborn"
    BY <1>3, <1>4 DEF LatestInv, FateMoves, EventsTypeOK
  <2>4. h'.pendingRef = NoWindow /\ h'.order = h.order
    BY <1>2, <2>1
  <2>5. latest \in valid => latest # NoWindow
    BY WindowsAssumption DEF valid, LiveIn
  <2>6. up' /\ latest' \in valid' => h'.order # <<>> /\ Head(h'.order) = latest'
    BY <1>1, <1>3, <1>4, <2>2, <2>4, <2>5 DEF LatestInv
  <2>7. LatestInv'
    BY <2>3, <2>4, <2>6 DEF LatestInv
  <2> QED  BY <2>1, <2>7 DEF Inv
<1>5. CASE \E w \in Windows : /\ EndSession(reason, OnFocus(u, w))
                              /\ latest' = w /\ fate'[w] # "unborn"
  <2>1. PICK w \in Windows : /\ EndSession(reason, OnFocus(u, w))
                             /\ latest' = w /\ fate'[w] # "unborn"
    BY <1>5
  <2> DEFINE g == OnFocus(u, w)
  <2>2. /\ Tracker(g) /\ g.locked = u.locked /\ g.order = u.order /\ g.pendingRef = w
    BY <1>2, Focused
  <2> HIDE DEF g
  <2>3. EndSession(reason, g)
    BY <2>1 DEF g
  <2>4. SessionInv' /\ h' = g /\ NoClosedWindowOffered'
    BY <1>1, <1>2, <2>2, <2>3, Ended
  <2>5. LatestInv'
    BY <2>1, <2>2, <2>4 DEF LatestInv
  <2> QED  BY <2>4, <2>5 DEF Inv
<1> QED  BY <1>4, <1>5 DEF u

(* The window in a slot of a non-empty list is in the list.                *)
LEMMA TargetInList ==
  ASSUME NEW list \in Seq(Windows), list # <<>>, NEW i \in Nat
  PROVE  Target(list, i) \in Range(list) /\ Target(list, i) \in Windows
<1>1. Len(list) \in Nat /\ Len(list) > 0 /\ DOMAIN list = 1..Len(list)
  OBVIOUS
<1>2. Clamp(i, Len(list)) \in Nat /\ Clamp(i, Len(list)) < Len(list)
  BY <1>1 DEF Clamp
<1>3. Clamp(i, Len(list)) + 1 \in DOMAIN list
  BY <1>1, <1>2
<1> QED  BY <1>3 DEF Target, Selected, Range

(* The logs of one and of two focus requests.                              *)
Requests == [win : Windows, result : FocusResults]

LEMMA LogTypes ==
  ASSUME NEW v \in Windows, NEW w \in Windows,
         NEW q \in FocusResults, NEW r \in FocusResults
  PROVE  /\ <<>> \in Seq(Requests)
         /\ <<Request(v, q)>> \in Seq(Requests)
         /\ Append(<<Request(v, q)>>, Request(w, r)) \in Seq(Requests)
<1>1. Request(v, q) \in Requests /\ Request(w, r) \in Requests
  BY DEF Request, Requests
<1> QED  BY <1>1

(* The two outcomes of a focus attempt, over a fate that has only moved    *)
(* forward since the step began.                                           *)
LEMMA OutcomeKeepsInv ==
  ASSUME Inv, up, active, up', policy' = policy,
         fate' \in [Windows -> Fates], FateMoves(fate, fate'),
         NEW log \in Seq(Requests),
         \/ \E reason \in EndReasons : AbortApply(reason, log)
         \/ \E w \in Windows : fate[w] = "live" /\ CompleteApply(w, log)
  PROVE  Inv'
<1>1. EventsTypeOK
  BY DEF Inv
<1>2. CASE \E reason \in EndReasons : AbortApply(reason, log)
  <2>1. PICK reason \in EndReasons : AbortApply(reason, log)
    BY <1>2
  <2>2. EndSession(reason, Unlocked) /\ latest' = latest /\ calls' = log
        /\ focused' \in {focused, NoWindow}
    BY <2>1 DEF AbortApply
  <2>3. EventsTypeOK'
    BY <1>1, <2>2 DEF EventsTypeOK, Requests
  <2> QED  BY <2>2, <2>3, SessionEndKeepsInv
<1>3. CASE \E w \in Windows : fate[w] = "live" /\ CompleteApply(w, log)
  <2>1. PICK w \in Windows : fate[w] = "live" /\ CompleteApply(w, log)
    BY <1>3
  <2>2. /\ EndSession("Applied", OnFocus(Unlocked, w)) /\ latest' = w
        /\ focused' = w /\ calls' = log
    BY <2>1 DEF CompleteApply
  <2>3. EventsTypeOK'
    BY <1>1, <2>2 DEF EventsTypeOK, Requests
  <2>4. fate'[w] # "unborn" /\ "Applied" \in EndReasons
    BY <2>1 DEF FateMoves, EndReasons
  <2> QED  BY <2>2, <2>3, <2>4, SessionEndKeepsInv
<1> QED  BY <1>2, <1>3

(* How one focus request ends: focused with Applied, an end without focus  *)
(* otherwise.                                                              *)
LEMMA Concluded ==
  ASSUME NEW w \in Windows, fate[w] = "live", NEW result, NEW log,
         Conclude(w, result, log)
  PROVE  \/ \E reason \in EndReasons : AbortApply(reason, log)
         \/ \E v \in Windows : fate[v] = "live" /\ CompleteApply(v, log)
BY DEF Conclude, EndReasons

LEMMA ApplyKeepsInv ==
  ASSUME Inv, Apply
  PROVE  Inv'
<1>1. up /\ active /\ up' = up /\ policy' = policy
  BY DEF Apply
<1>2. /\ snapshot \in Seq(Windows) /\ index \in Nat /\ fate \in [Windows -> Fates]
  BY DEF Inv, SessionInv, SessionTypeOK, EventsTypeOK
<1> DEFINE s == Survivors
<1>3. s \in Seq(Windows) /\ Range(s) \subseteq valid
  BY <1>2, KeepFacts DEF Survivors
<1> HIDE DEF s
<1>4. ASSUME fate' = fate PROVE fate' \in [Windows -> Fates] /\ FateMoves(fate, fate')
  BY <1>2, <1>4 DEF FateMoves
<1>5. \A w \in valid : w \in Windows /\ fate[w] = "live"
  BY DEF valid, LiveIn
<1>6. <<>> \in Seq(Requests)
  OBVIOUS
<1>7. CASE ApplyNothingLeft
  <2>1. fate' = fate /\ AbortApply("NoWindows", <<>>) /\ "NoWindows" \in EndReasons
    BY <1>7 DEF ApplyNothingLeft, EndReasons
  <2> QED  BY <1>1, <1>4, <1>6, <2>1, OutcomeKeepsInv
<1>8. CASE \E result \in FocusResults : ApplyOnce(result)
  <2>1. PICK result \in FocusResults : ApplyOnce(result)
    BY <1>8
  <2> DEFINE w == Target(s, index)
             log == <<Request(w, result)>>
  <2>2. s # <<>> /\ fate' = fate /\ Conclude(w, result, log)
    BY <2>1 DEF ApplyOnce, s
  <2>3. w \in Windows /\ fate[w] = "live"
    BY <1>2, <1>3, <1>5, <2>2, TargetInList
  <2>4. log \in Seq(Requests)
    BY <2>3, LogTypes
  <2> HIDE DEF w, log
  <2>5. \/ \E reason \in EndReasons : AbortApply(reason, log)
        \/ \E v \in Windows : fate[v] = "live" /\ CompleteApply(v, log)
    BY <2>2, <2>3, Concluded
  <2> QED  BY <1>1, <1>4, <2>2, <2>4, <2>5, OutcomeKeepsInv
<1>9. CASE \E dies \in BOOLEAN, result \in FocusResults : ApplyAgain(dies, result)
  <2>1. PICK dies \in BOOLEAN, result \in FocusResults : ApplyAgain(dies, result)
    BY <1>9
  <2> DEFINE first  == Target(s, index)
             log    == <<Request(first, "InvalidTarget")>>
             after  == IF dies THEN [fate EXCEPT ![first] = "vanished"] ELSE fate
             list   == Keep(s, LiveIn(after))
             second == Target(list, Clamp(index, Len(s)))
             log2   == Append(log, Request(second, result))
  <2>2. /\ s # <<>> /\ fate' = after
        /\ \/ list = <<>> /\ AbortApply("NoWindows", log)
           \/ list # <<>> /\ Conclude(second, result, log2)
    BY <2>1 DEF ApplyAgain, s
  <2>3. first \in Windows /\ fate[first] = "live"
    BY <1>2, <1>3, <1>5, <2>2, TargetInList
  <2>4. "InvalidTarget" \in FocusResults
    BY DEF FocusResults
  <2>5. log \in Seq(Requests)
    BY <2>3, <2>4, LogTypes
  <2>6. after \in [Windows -> Fates] /\ FateMoves(fate, after)
    BY <1>2, <2>3 DEF FateMoves, Fates
  <2>7. list \in Seq(Windows) /\ Range(list) \subseteq LiveIn(after)
    BY <1>3, KeepFacts
  <2>8. Len(s) \in Nat /\ Clamp(index, Len(s)) \in Nat
    BY <1>2, <1>3 DEF Clamp
  <2>9. list # <<>> => second \in Windows /\ after[second] = "live"
    BY <2>7, <2>8, TargetInList DEF LiveIn
  <2>10. list # <<>> => fate[second] = "live"
    BY <2>3, <2>9, <1>2
  <2>11. list # <<>> => log2 \in Seq(Requests)
    BY <2>3, <2>4, <2>9, LogTypes
  <2> HIDE DEF first, log, after, list, second, log2
  <2>12. fate' \in [Windows -> Fates] /\ FateMoves(fate, fate')
    BY <2>2, <2>6
  <2>13. CASE list = <<>> /\ AbortApply("NoWindows", log)
    <3>1. "NoWindows" \in EndReasons
      BY DEF EndReasons
    <3> QED  BY <1>1, <2>5, <2>12, <2>13, <3>1, OutcomeKeepsInv
  <2>14. CASE list # <<>> /\ Conclude(second, result, log2)
    <3>1. \/ \E reason \in EndReasons : AbortApply(reason, log2)
          \/ \E v \in Windows : fate[v] = "live" /\ CompleteApply(v, log2)
      BY <2>9, <2>10, <2>14, Concluded
    <3> QED  BY <1>1, <2>11, <2>12, <2>14, <3>1, OutcomeKeepsInv
  <2> QED  BY <2>2, <2>13, <2>14
<1> QED  BY <1>7, <1>8, <1>9 DEF Apply

LEMMA CancelKeepsInv ==
  ASSUME Inv, Cancel
  PROVE  Inv'
<1>1. up /\ active /\ up' = up /\ policy' = policy /\ fate' = fate
  BY DEF Cancel
<1>2. EventsTypeOK /\ "UserCancel" \in EndReasons
  BY DEF Inv, EndReasons
<1>3. fate' \in [Windows -> Fates] /\ FateMoves(fate, fate')
  BY <1>1, <1>2 DEF FateMoves, EventsTypeOK
<1>4. CASE /\ origin \in valid
           /\ \E result \in FocusResults, echo \in BOOLEAN : Restore(result, echo)
  <2>1. PICK result \in FocusResults, echo \in BOOLEAN : Restore(result, echo)
    BY <1>4
  <2>2. origin \in Windows /\ fate[origin] = "live"
    BY <1>4 DEF valid, LiveIn
  <2>3. <<Request(origin, result)>> \in Seq([win : Windows, result : FocusResults])
    BY <2>2, LogTypes DEF Requests
  <2>4. /\ calls' = <<Request(origin, result)>>
        /\ focused' \in {origin, focused} /\ latest' \in {origin, latest}
    BY <2>1 DEF Restore
  <2>5. EventsTypeOK'
    BY <1>1, <1>2, <1>3, <2>2, <2>3, <2>4 DEF EventsTypeOK
  <2>6. \/ EndSession("UserCancel", Unlocked) /\ latest' = latest
        \/ EndSession("UserCancel", OnFocus(Unlocked, origin)) /\ latest' = origin
    BY <2>1 DEF Restore
  <2> QED  BY <1>1, <1>2, <1>3, <2>2, <2>5, <2>6, SessionEndKeepsInv
<1>5. CASE AbortApply("UserCancel", <<>>)
  <2>1. <<>> \in Seq(Requests)
    OBVIOUS
  <2> QED  BY <1>1, <1>2, <1>3, <1>5, <2>1, OutcomeKeepsInv
<1> QED  BY <1>4, <1>5 DEF Cancel

(* A step that leaves the tracker and the latest use alone.                *)
LEMMA TrackerAloneKeepsInv ==
  ASSUME Inv, SessionInv', EventsTypeOK', NoClosedWindowOffered',
         FateMoves(fate, fate'), up' = up, active' = active, h' = h,
         latest' = latest
  PROVE  Inv'
<1>1. LatestInv /\ EventsTypeOK
  BY DEF Inv
<1>2. latest' # NoWindow => fate'[latest'] # "unborn"
  BY <1>1 DEF LatestInv, FateMoves, EventsTypeOK
<1>3. ASSUME latest' \in valid' PROVE latest \in valid
  <2>1. latest \in Windows /\ fate'[latest] = "live" /\ latest # NoWindow
    BY <1>3, WindowsAssumption DEF valid, LiveIn
  <2>2. fate[latest] = "live"
    BY <1>1, <2>1 DEF LatestInv, FateMoves
  <2> QED  BY <2>1, <2>2 DEF valid, LiveIn
<1>4. LatestInv'
  BY <1>1, <1>2, <1>3 DEF LatestInv
<1> QED  BY <1>4 DEF Inv

(* A step that also leaves the session and the UI alone, and closes no     *)
(* window of the snapshot.                                                 *)
LEMMA SessionAloneKeepsInv ==
  ASSUME Inv, UNCHANGED <<up, h, session, ui, latest>>, EventsTypeOK',
         FateMoves(fate, fate'),
         \A w \in Range(snapshot) : fate'[w] = "closed" => fate[w] = "closed"
  PROVE  Inv'
<1>1. /\ up' = up /\ h' = h /\ latest' = latest /\ ui' = ui
      /\ active' = active /\ snapshot' = snapshot /\ index' = index
      /\ origin' = origin /\ sessionId' = sessionId /\ frozen' = frozen
      /\ lastEnd' = lastEnd
  BY DEF session
<1>2. SessionInv /\ NoClosedWindowOffered
  BY DEF Inv
<1>3. SessionInv'
  BY <1>1, <1>2 DEF SessionInv, SessionTypeOK, SelectionInRange, OneEndPerSession
<1>4. NoClosedWindowOffered'
  BY <1>1, <1>2 DEF NoClosedWindowOffered
<1> QED  BY <1>1, <1>3, <1>4, TrackerAloneKeepsInv

LEMMA StutterKeepsInv ==
  ASSUME Inv, UNCHANGED vars
  PROVE  Inv'
<1>1. /\ UNCHANGED <<up, h, session, ui, latest>>
      /\ policy' = policy /\ fate' = fate /\ focused' = focused /\ calls' = calls
      /\ up' = up /\ latest' = latest
  BY DEF vars
<1>2. EventsTypeOK'
  BY <1>1 DEF Inv, EventsTypeOK
<1>3. FateMoves(fate, fate')
  BY <1>1 DEF FateMoves
<1> QED  BY <1>1, <1>2, <1>3, SessionAloneKeepsInv

(* Windows open and vanish, focus is lost, the configuration is reloaded.  *)
LEMMA EnvironmentKeepsInv ==
  ASSUME Inv, \/ \E w \in Windows : OpenWindow(w)
              \/ FocusLost
              \/ \E w \in Windows : WindowVanishes(w)
              \/ \E p \in Policies : ConfigReloaded(p)
  PROVE  Inv'
<1>1. EventsTypeOK
  BY DEF Inv
<1>2. /\ UNCHANGED <<up, h, session, ui, latest>>
      /\ up' = up /\ latest' = latest /\ calls' = <<>>
  BY DEF OpenWindow, FocusLost, WindowVanishes, ConfigReloaded
<1>3. /\ fate' \in [Windows -> Fates] /\ FateMoves(fate, fate')
      /\ \A w \in Windows : fate'[w] = "closed" => fate[w] = "closed"
  <2>1. CASE fate' = fate
    BY <1>1, <2>1 DEF EventsTypeOK, FateMoves
  <2>2. CASE \E w \in Windows : OpenWindow(w)
    BY <1>1, <2>2 DEF EventsTypeOK, OpenWindow, FateMoves, Fates
  <2>3. CASE \E w \in Windows : WindowVanishes(w)
    BY <1>1, <2>3 DEF EventsTypeOK, WindowVanishes, FateMoves, Fates
  <2> QED  BY <2>1, <2>2, <2>3 DEF FocusLost, ConfigReloaded
<1>4. policy' \in Policies /\ focused' \in {focused, NoWindow}
  BY <1>1 DEF EventsTypeOK, OpenWindow, FocusLost, WindowVanishes, ConfigReloaded
<1>5. <<>> \in Seq([win : Windows, result : FocusResults])
  OBVIOUS
<1>6. EventsTypeOK'
  BY <1>1, <1>2, <1>3, <1>4, <1>5 DEF EventsTypeOK
<1>7. \A w \in Range(snapshot) : w \in Windows
  BY DEF Range, Inv, SessionInv, SessionTypeOK
<1> QED  BY <1>2, <1>3, <1>6, <1>7, SessionAloneKeepsInv

(* Steps that change the tracker of an idle controller.                    *)
LEMMA IdleTrackerKeepsInv ==
  ASSUME Inv, ~active, UNCHANGED <<session, ui, fate>>, EventsTypeOK',
         Tracker(h'), h'.locked = h.locked, IsInjective(h'.order),
         LatestInv', ~up' => NoJob(h')
  PROVE  Inv'
<1>1. /\ ui' = ui /\ fate' = fate
      /\ active' = active /\ snapshot' = snapshot /\ index' = index
      /\ origin' = origin /\ sessionId' = sessionId /\ frozen' = frozen
      /\ lastEnd' = lastEnd
  BY DEF session
<1>2. SessionInv /\ NoClosedWindowOffered
  BY DEF Inv
<1>3. SessionTypeOK' /\ JobsAgree(h')
  BY <1>1, <1>2 DEF SessionInv, SessionTypeOK, Tracker
<1>4. h'.locked = active'
  BY <1>1, <1>2 DEF SessionInv
<1>5. SelectionInRange' /\ OneEndPerSession'
  BY <1>1, <1>2 DEF SessionInv, SelectionInRange, OneEndPerSession
<1>6. SessionInv'
  BY <1>1, <1>3, <1>4, <1>5 DEF SessionInv
<1>7. NoClosedWindowOffered'
  BY <1>1, <1>2 DEF NoClosedWindowOffered
<1> QED  BY <1>1, <1>6, <1>7 DEF Inv

LEMMA FocusEventKeepsInv ==
  ASSUME Inv, NEW w \in Windows, FocusEvent(w)
  PROVE  Inv'
<1>1. /\ up /\ fate[w] = "live" /\ focused' = w /\ calls' = <<>> /\ up' = up
      /\ policy' = policy /\ fate' = fate /\ UNCHANGED <<session, ui, fate>>
      /\ latest' \in {w, latest}
  BY DEF FocusEvent, valid, LiveIn
<1>2. <<>> \in Seq([win : Windows, result : FocusResults])
  OBVIOUS
<1>3. EventsTypeOK'
  BY <1>1, <1>2 DEF Inv, EventsTypeOK
<1>4. CASE active /\ UNCHANGED <<h, latest>>
  <2>1. FateMoves(fate, fate') /\ UNCHANGED <<up, h, session, ui, latest>>
    BY <1>1, <1>4 DEF FateMoves
  <2> QED  BY <1>1, <1>3, <2>1, SessionAloneKeepsInv
<1>5. CASE ~active /\ h' = OnFocus(h, w) /\ latest' = w
  <2>1. Tracker(h) /\ h.locked = FALSE /\ IsInjective(h.order)
    BY <1>5 DEF Inv, SessionInv, SessionTypeOK, Tracker
  <2>2. /\ Tracker(h') /\ h'.locked = h.locked /\ h'.order = h.order
        /\ h'.pendingRef = w
    BY <1>5, <2>1, Focused
  <2>3. LatestInv'
    BY <1>1, <1>5, <2>2 DEF LatestInv
  <2> QED  BY <1>1, <1>3, <1>5, <2>1, <2>2, <2>3, IdleTrackerKeepsInv
<1> QED  BY <1>4, <1>5 DEF FocusEvent

LEMMA TimerFiresKeepsInv ==
  ASSUME Inv, NEW id \in JobIds, TimerFires(id)
  PROVE  Inv' /\ ~active
<1>1. PICK t \in h.timers : t.id = id /\ h' = TimerFired(h, t, valid)
  BY DEF TimerFires
<1>2. /\ Tracker(h) /\ IsInjective(h.order) /\ h.order \in Seq(Windows)
      /\ ~active
  <2>1. h \in HistoryType /\ JobsAgree(h) /\ IsInjective(h.order)
    BY DEF Inv, SessionInv, SessionTypeOK
  <2>2. ~active
    BY <1>1 DEF Inv, SessionInv, NoJob
  <2> QED  BY <2>1, <2>2, HistoryFields DEF Tracker
<1>3. /\ t.ref = h.pendingRef /\ t.ref \in Windows
      /\ Tracker(h') /\ NoJob(h') /\ h'.locked = h.locked
      /\ h'.order = IF t.ref \in valid THEN Promote(h.order, t.ref) ELSE h.order
  BY <1>1, <1>2, Fired
<1>4. /\ up' = up /\ policy' = policy /\ fate' = fate /\ focused' = focused
      /\ latest' = latest /\ calls' = <<>> /\ UNCHANGED <<session, ui, fate>>
  BY DEF TimerFires
<1>5. <<>> \in Seq([win : Windows, result : FocusResults])
  OBVIOUS
<1>6. EventsTypeOK'
  BY <1>4, <1>5 DEF Inv, EventsTypeOK
<1> DEFINE o == h.order
           r == t.ref
<1>7. o \in Seq(Windows) /\ IsInjective(o) /\ r \in Windows
  BY <1>2, <1>3
<1>8. h'.order = IF r \in valid THEN Promote(o, r) ELSE o
  BY <1>3
<1>9. r = latest
  BY <1>3, WindowsAssumption DEF Inv, LatestInv
<1>10. latest \in valid => r \in valid
  BY <1>9
<1> HIDE DEF o, r
<1>11. /\ IsInjective(Promote(o, r)) /\ Promote(o, r) # <<>>
       /\ Head(Promote(o, r)) = r
  BY <1>7, PromoteFacts
<1>12. IsInjective(h'.order)
  BY <1>7, <1>8, <1>11
<1>13. latest \in valid => h'.order # <<>> /\ Head(h'.order) = latest
  BY <1>8, <1>9, <1>11
<1>14. valid' = valid
  BY <1>4 DEF valid
<1>15. LatestInv'
  BY <1>3, <1>4, <1>13, <1>14 DEF LatestInv, NoJob, Inv
<1> QED  BY <1>2, <1>3, <1>4, <1>6, <1>12, <1>15, IdleTrackerKeepsInv

LEMMA UnloadKeepsInv ==
  ASSUME Inv, Unload
  PROVE  Inv'
<1>1. /\ up /\ ~up' /\ up' \in BOOLEAN /\ calls' = <<>>
      /\ policy' = policy /\ fate' = fate /\ focused' = focused /\ latest' = latest
  BY DEF Unload
<1>2. <<>> \in Seq([win : Windows, result : FocusResults])
  OBVIOUS
<1>3. EventsTypeOK'
  BY <1>1, <1>2 DEF Inv, EventsTypeOK
<1>4. Tracker(h) /\ IsInjective(h.order)
  BY DEF Inv, SessionInv, SessionTypeOK, Tracker
<1>5. ASSUME NoJob(h') PROVE LatestInv'
  BY <1>1, <1>5 DEF Inv, LatestInv, NoJob
<1>6. CASE active /\ EndSession("PluginShutdown", Destroyed(Unlocked))
  <2> DEFINE u == Unlocked
             g == Destroyed(u)
  <2>1. Tracker(u) /\ ~u.locked /\ u.order = h.order
    BY <1>4, UnlockedFacts DEF Unlocked
  <2> HIDE DEF u
  <2>2. Tracker(g) /\ NoJob(g) /\ g.locked = u.locked /\ g.order = u.order
    BY <2>1, DestroyedFacts
  <2>3. EndSession("PluginShutdown", g) /\ "PluginShutdown" \in EndReasons
    BY <1>6 DEF EndReasons, u
  <2> HIDE DEF g
  <2>4. /\ SessionInv' /\ ~active' /\ h' = g /\ NoClosedWindowOffered'
    BY <1>4, <1>6, <2>1, <2>2, <2>3, Ended
  <2> QED  BY <1>3, <1>5, <2>2, <2>4 DEF Inv
<1>7. CASE ~active /\ h' = Destroyed(h) /\ UNCHANGED <<session, ui>>
  <2>1. /\ Tracker(h') /\ NoJob(h') /\ h'.locked = h.locked /\ h'.order = h.order
    BY <1>4, <1>7, DestroyedFacts
  <2> QED  BY <1>1, <1>3, <1>4, <1>5, <1>7, <2>1, IdleTrackerKeepsInv
<1> QED  BY <1>6, <1>7 DEF Unload

(* A close event prunes the snapshot that holds the window, and ends the   *)
(* session when nothing is left in it.                                     *)
LEMMA WindowClosedKeepsInv ==
  ASSUME Inv, NEW w \in Windows, WindowClosed(w)
  PROVE  Inv'
<1> DEFINE list == Keep(snapshot, valid \ {w})
<1>1. /\ up /\ fate[w] = "live" /\ up' = up /\ policy' = policy
      /\ latest' = latest /\ calls' = <<>> /\ focused' \in {focused, NoWindow}
      /\ fate' = [fate EXCEPT ![w] = "closed"]
      /\ OnWindowInvalid(w, valid \ {w})
  BY DEF WindowClosed, valid, LiveIn
<1>2. SessionInv /\ EventsTypeOK /\ NoClosedWindowOffered
  BY DEF Inv
<1>3. /\ snapshot \in Seq(Windows) /\ index \in Nat
      /\ fate \in [Windows -> Fates]
  BY <1>2 DEF SessionInv, SessionTypeOK, EventsTypeOK
<1>4. FateMoves(fate, fate')
  BY <1>1, <1>3 DEF FateMoves
<1>5. <<>> \in Seq([win : Windows, result : FocusResults])
  OBVIOUS
<1>6. EventsTypeOK'
  BY <1>1, <1>2, <1>5 DEF EventsTypeOK, Fates
<1>7. list \in Seq(Windows) /\ Range(list) \subseteq valid \ {w}
  BY <1>3, KeepFacts
<1> HIDE DEF list
<1>8. CASE ~(active /\ w \in Range(snapshot)) /\ UNCHANGED <<h, session, ui>>
  <2>1. UNCHANGED <<up, h, session, ui, latest>>
    BY <1>1, <1>8
  <2>2. ASSUME NEW v \in Range(snapshot), fate'[v] = "closed"
        PROVE  fate[v] = "closed"
    <3>1. CASE active
      BY <1>1, <1>3, <1>8, <2>2, <3>1
    <3>2. CASE ~active
      <4>1. snapshot = <<>>
        BY <1>2, <3>2 DEF SessionInv, SelectionInRange
      <4> QED  BY <2>2, <4>1 DEF Range
    <3> QED  BY <3>1, <3>2
  <2> QED  BY <1>4, <1>6, <2>1, <2>2, SessionAloneKeepsInv
<1>9. CASE active /\ EndSession("NoWindows", Unlocked)
  <2>1. up' /\ "NoWindows" \in EndReasons
    BY <1>1 DEF EndReasons
  <2> QED  BY <1>1, <1>4, <1>6, <1>9, <2>1, SessionEndKeepsInv
<1>10. CASE /\ active /\ list # <<>> /\ snapshot' = list /\ index' = PrunedIndex(list)
            /\ UNCHANGED <<h, active, origin, sessionId, frozen, lastEnd, ui>>
  <2>1. /\ h' = h /\ active' = active /\ origin' = origin /\ ui' = ui
        /\ sessionId' = sessionId /\ frozen' = frozen /\ lastEnd' = lastEnd
        /\ snapshot' = list
    BY <1>10
  <2>2. Len(list) \in Nat /\ Len(list) > 0
    BY <1>7, <1>10
  <2>3. index' \in Nat /\ index' < Len(list)
    BY <1>3, <1>10, <2>2 DEF PrunedIndex, Clamp
  <2>4. SessionTypeOK'
    BY <1>2, <1>7, <2>1, <2>3 DEF SessionInv, SessionTypeOK
  <2>5. SelectionInRange' /\ OneEndPerSession'
    <3>1. SelectionInRange'
      BY <1>10, <2>1, <2>3 DEF SelectionInRange
    <3>2. OneEndPerSession'
      BY <1>2, <2>1 DEF SessionInv, OneEndPerSession
    <3> QED  BY <3>1, <3>2
  <2>6. SessionInv'
    BY <1>2, <2>1, <2>4, <2>5 DEF SessionInv
  <2>7. NoClosedWindowOffered'
    <3>1. \A v \in valid \ {w} : fate'[v] # "closed"
      BY <1>1, <1>3 DEF valid, LiveIn
    <3> QED  BY <1>7, <2>1, <3>1 DEF NoClosedWindowOffered
  <2> QED  BY <1>1, <1>4, <1>6, <2>1, <2>6, <2>7, TrackerAloneKeepsInv
<1> QED  BY <1>1, <1>8, <1>9, <1>10 DEF OnWindowInvalid, list

LEMMA InitInv ==
  ASSUME Init
  PROVE  Inv
<1>1. /\ up = TRUE /\ fate \in [Windows -> {"unborn", "live"}]
      /\ focused \in valid \cup {NoWindow}
      /\ active = FALSE /\ snapshot = <<>> /\ index = 0 /\ origin = NoWindow
      /\ sessionId = 0 /\ lastEnd = "None" /\ policy \in Policies
      /\ frozen = policy /\ ui = NoUI /\ calls = <<>> /\ latest = NoWindow
  BY DEF Init
<1>2. PICK S \in SUBSET valid : \E initial \in SetToSeqs(S) : h = Seeded(initial, valid)
  BY DEF Init
<1>3. PICK initial \in SetToSeqs(S) : h = Seeded(initial, valid)
  BY <1>2
<1>4. valid \subseteq Windows
  BY DEF valid, LiveIn
<1>5. initial \in Seq(Windows)
  <2>1. S \subseteq Windows /\ IsFiniteSet(S)
    BY <1>4, WindowsAssumption, FS_Subset
  <2>2. initial \in Seq(S)
    BY <2>1, SetToSeqsFacts
  <2> QED  BY <2>1, <2>2
<1> DEFINE o == FirstOccurrences(Keep(initial, valid))
<1>6. o \in Seq(Windows) /\ IsInjective(o)
  <2>1. Keep(initial, valid) \in Seq(Windows)
    BY <1>5, KeepFacts
  <2> QED  BY <2>1, FirstOccurrencesFacts
<1>7. h = [order |-> o, locked |-> FALSE, pending |-> InvalidJob,
           pendingRef |-> NoWindow, timers |-> {}, nextId |-> 1]
  BY <1>3 DEF Seeded
<1> HIDE DEF o
<1>8. h \in HistoryType /\ h.order = o /\ h.locked = FALSE /\ NoJob(h)
  BY <1>6, <1>7 DEF HistoryType, NoJob, InvalidJob
<1>9. <<>> \in Seq(Windows) /\ <<>> \in Seq([win : Windows, result : FocusResults])
  OBVIOUS
<1>10. /\ ui \in [shown : BOOLEAN, list : Seq(Windows), sel : Nat, ends : Nat]
       /\ ui.shown = FALSE /\ ui.ends = 0
  BY <1>1, <1>9 DEF NoUI
<1>11. SessionTypeOK
  BY <1>1, <1>8, <1>9, <1>10 DEF SessionTypeOK
<1>12. JobsAgree(h) /\ h.locked = active /\ (active => NoJob(h)) /\ IsInjective(h.order)
  BY <1>1, <1>6, <1>8 DEF JobsAgree, NoJob
<1>13. SelectionInRange /\ OneEndPerSession
  <2>1. SelectionInRange
    BY <1>1 DEF SelectionInRange
  <2>2. ui.shown = active
    BY <1>1, <1>10
  <2>3. sessionId = ui.ends + (IF active THEN 1 ELSE 0)
    BY <1>1, <1>10
  <2> QED  BY <2>1, <2>2, <2>3 DEF OneEndPerSession
<1>14. SessionInv
  BY <1>11, <1>12, <1>13 DEF SessionInv
<1>15. EventsTypeOK
  BY <1>1, <1>4, <1>9 DEF EventsTypeOK, Fates
<1>16. NoClosedWindowOffered
  BY <1>1 DEF NoClosedWindowOffered, Range
<1>17. LatestInv
  BY <1>1, <1>4, <1>8, WindowsAssumption DEF LatestInv, NoJob
<1> QED  BY <1>1, <1>14, <1>15, <1>16, <1>17 DEF Inv

-----------------------------------------------------------------------------
(***************************************************************************)
(* The theorems.                                                           *)
(***************************************************************************)

(* Every handler, whatever the order in which the compositor runs them,    *)
(* keeps the invariant.                                                    *)
LEMMA NextKeepsInv ==
  ASSUME Inv, [Next]_vars
  PROVE  Inv'
<1>1. CASE BeginSession
  BY <1>1, BeginSessionKeepsInv
<1>2. CASE \/ \E d \in Directions : Cycle(d)
           \/ \E i \in 0..Cardinality(Windows) : SelectIndex(i)
  BY <1>2, SelectionKeepsInv
<1>3. CASE Apply
  BY <1>3, ApplyKeepsInv
<1>4. CASE Cancel
  BY <1>4, CancelKeepsInv
<1>5. CASE \/ \E w \in Windows : OpenWindow(w)
           \/ FocusLost
           \/ \E w \in Windows : WindowVanishes(w)
           \/ \E p \in Policies : ConfigReloaded(p)
  BY <1>5, EnvironmentKeepsInv
<1>6. CASE \E w \in Windows : FocusEvent(w)
  BY <1>6, FocusEventKeepsInv
<1>7. CASE \E w \in Windows : WindowClosed(w)
  BY <1>7, WindowClosedKeepsInv
<1>8. CASE \E id \in JobIds : TimerFires(id)
  BY <1>8, TimerFiresKeepsInv
<1>9. CASE Unload
  BY <1>9, UnloadKeepsInv
<1>10. CASE UNCHANGED vars
  BY <1>10, StutterKeepsInv
<1> QED
  BY <1>1, <1>2, <1>3, <1>4, <1>5, <1>6, <1>7, <1>8, <1>9, <1>10 DEF Next

(* Every behaviour of the switcher satisfies the inductive invariant.      *)
THEOREM Invariance == Spec => []Inv
<1>1. Init => Inv
  BY InitInv
<1>2. Inv /\ [Next]_vars => Inv'
  BY NextKeepsInv
<1> QED  BY <1>1, <1>2, PTL DEF Spec

(* Every variable keeps its type: no index ever wraps below zero.          *)
THEOREM TypeCorrect == Spec => []TypeOK
<1>1. Inv => TypeOK
  BY InvImplies
<1> QED  BY <1>1, Invariance, PTL

(* Snapshot::at(index_) is defined whenever a session is active, however   *)
(* many windows were offered and however many of them died since.          *)
THEOREM SelectionAlwaysInRange == Spec => []SelectionInRange
<1>1. Inv => SelectionInRange
  BY InvImplies
<1> QED  BY <1>1, Invariance, PTL

(* The tracker and the scheduler agree on at most one armed debounce job,  *)
(* and on none while a session is active.                                  *)
THEOREM AtMostOneJob == Spec => []SingleDebounceJob
<1>1. Inv => SingleDebounceJob
  BY InvImplies
<1> QED  BY <1>1, Invariance, PTL

(* No window that was used last, and lives, is lost from the history: not  *)
(* in the flush at session start, in lock-in or in the late promotion.     *)
THEOREM LatestUseNeverLost == Spec => []LatestUseIsKept
<1>1. Inv => LatestUseIsKept
  BY InvImplies
<1> QED  BY <1>1, Invariance, PTL

(* The snapshot holds no window whose close event was handled.             *)
THEOREM ClosedNeverOffered == Spec => []NoClosedWindowOffered
<1>1. Inv => NoClosedWindowOffered
  BY InvImplies
<1> QED  BY <1>1, Invariance, PTL

(* The UI gets exactly one end of every session, in each of the six ways a *)
(* session ends.                                                           *)
THEOREM EndsBalance == Spec => []OneEndPerSession
<1>1. Inv => OneEndPerSession
  BY InvImplies
<1> QED  BY <1>1, Invariance, PTL

(* Once the plugin is gone no debounce callback is armed, the UI shows     *)
(* nothing and no session is owed its end.                                 *)
THEOREM QuietAfterTeardown == Spec => []NothingAfterTeardown
<1>1. Inv => NothingAfterTeardown
  BY InvImplies
<1> QED  BY <1>1, Invariance, PTL

-----------------------------------------------------------------------------
(***************************************************************************)
(* Action properties.                                                      *)
(***************************************************************************)

(* What the end of a session does to the order: nothing.                   *)
LEMMA EndKeepsOrder ==
  ASSUME Inv, NEW reason, NEW hist, EndSession(reason, hist),
         \/ hist = Unlocked
         \/ \E w \in Windows : hist = OnFocus(Unlocked, w)
         \/ hist = Destroyed(Unlocked)
  PROVE  h'.order = h.order
<1> DEFINE u == Unlocked
<1>1. Tracker(h)
  BY DEF Inv, SessionInv, SessionTypeOK, Tracker
<1>2. Tracker(u) /\ u.order = h.order
  BY <1>1, UnlockedFacts DEF Unlocked
<1>3. h' = hist
  BY DEF EndSession
<1> HIDE DEF u
<1>4. \A w \in Windows : OnFocus(u, w).order = u.order
  BY <1>2, Focused
<1>5. Destroyed(u).order = u.order
  BY <1>2, DestroyedFacts
<1> QED  BY <1>2, <1>3, <1>4, <1>5 DEF u

LEMMA ApplyKeepsOrder ==
  ASSUME Inv, Apply
  PROVE  h'.order = h.order
<1>1. /\ snapshot \in Seq(Windows) /\ index \in Nat
  BY DEF Inv, SessionInv, SessionTypeOK
<1>2. ASSUME NEW w \in Windows, NEW result, NEW log, Conclude(w, result, log)
      PROVE  h'.order = h.order
  BY <1>2, EndKeepsOrder DEF Conclude, CompleteApply, AbortApply
<1>3. ASSUME NEW reason, NEW log, AbortApply(reason, log) PROVE h'.order = h.order
  BY <1>3, EndKeepsOrder DEF AbortApply
<1> DEFINE s == Survivors
<1>4. s \in Seq(Windows)
  BY <1>1, KeepFacts DEF Survivors
<1> HIDE DEF s
<1>5. CASE ApplyNothingLeft
  BY <1>3, <1>5 DEF ApplyNothingLeft
<1>6. CASE \E result \in FocusResults : ApplyOnce(result)
  <2>1. PICK result \in FocusResults : ApplyOnce(result)
    BY <1>6
  <2> DEFINE w == Target(s, index)
  <2>2. s # <<>> /\ Conclude(w, result, <<Request(w, result)>>)
    BY <2>1 DEF ApplyOnce, s
  <2>3. w \in Windows
    BY <1>1, <1>4, <2>2, TargetInList
  <2> HIDE DEF w
  <2> QED  BY <1>2, <2>2, <2>3
<1>7. CASE \E dies \in BOOLEAN, result \in FocusResults : ApplyAgain(dies, result)
  <2>1. PICK dies \in BOOLEAN, result \in FocusResults : ApplyAgain(dies, result)
    BY <1>7
  <2> DEFINE first  == Target(s, index)
             log    == <<Request(first, "InvalidTarget")>>
             after  == IF dies THEN [fate EXCEPT ![first] = "vanished"] ELSE fate
             list   == Keep(s, LiveIn(after))
             second == Target(list, Clamp(index, Len(s)))
             log2   == Append(log, Request(second, result))
  <2>2. \/ AbortApply("NoWindows", log)
        \/ list # <<>> /\ Conclude(second, result, log2)
    BY <2>1 DEF ApplyAgain, s
  <2>3. list \in Seq(Windows)
    BY <1>4, KeepFacts
  <2>4. Clamp(index, Len(s)) \in Nat
    BY <1>1, <1>4 DEF Clamp
  <2>5. list # <<>> => second \in Windows
    BY <2>3, <2>4, TargetInList
  <2> HIDE DEF first, log, after, list, second, log2
  <2> QED  BY <1>2, <1>3, <2>2, <2>5
<1> QED  BY <1>5, <1>6, <1>7 DEF Apply

LEMMA CancelKeepsOrder ==
  ASSUME Inv, Cancel
  PROVE  h'.order = h.order
<1>1. CASE AbortApply("UserCancel", <<>>)
  BY <1>1, EndKeepsOrder DEF AbortApply
<1>2. CASE /\ origin \in valid
           /\ \E result \in FocusResults, echo \in BOOLEAN : Restore(result, echo)
  <2>1. origin \in Windows
    BY <1>2 DEF valid, LiveIn
  <2>2. \/ EndSession("UserCancel", Unlocked)
        \/ EndSession("UserCancel", OnFocus(Unlocked, origin))
    BY <1>2 DEF Restore
  <2> QED  BY <2>1, <2>2, EndKeepsOrder
<1> QED  BY <1>1, <1>2 DEF Cancel

(* No handler of an active session reorders the history: the only two that *)
(* could, a timer and a session start, cannot run then.                    *)
LEMMA ActiveKeepsOrder ==
  ASSUME Inv, [Next]_vars, active
  PROVE  h'.order = h.order
<1>1. CASE Apply
  BY <1>1, ApplyKeepsOrder
<1>2. CASE Cancel
  BY <1>2, CancelKeepsOrder
<1>3. CASE \E w \in Windows : WindowClosed(w)
  BY <1>3, EndKeepsOrder DEF WindowClosed, OnWindowInvalid
<1>4. CASE Unload
  BY <1>4, EndKeepsOrder DEF Unload
<1>5. CASE \E id \in JobIds : TimerFires(id)
  BY <1>5, TimerFiresKeepsInv
<1>6. CASE BeginSession
  BY <1>6 DEF BeginSession
<1>7. CASE \E w \in Windows : FocusEvent(w)
  BY <1>7 DEF FocusEvent
<1>8. CASE h' = h
  BY <1>8
<1> QED
  BY <1>1, <1>2, <1>3, <1>4, <1>5, <1>6, <1>7, <1>8
     DEF Next, vars, Cycle, SelectIndex, OpenWindow, FocusLost, WindowVanishes,
         ConfigReloaded

(* Lock-in: while a session is active the order of the history stands.     *)
THEOREM LockedInHistory == Spec => HistoryLockedIn
<1>1. Inv /\ [Next]_vars => [active => h'.order = h.order]_vars
  BY ActiveKeepsOrder
<1> QED  BY <1>1, Invariance, PTL DEF Spec, HistoryLockedIn

(* A session offers the last used window first, whether its debounce job   *)
(* had run or was flushed by the session start, and no window twice.       *)
THEOREM LastUsedOfferedFirst == Spec => LatestUseFirst
<1>1. ASSUME Inv, BeginSession, active'
      PROVE  /\ latest \in Range(snapshot') => Head(snapshot') = latest
             /\ IsInjective(snapshot')
  <2> DEFINE f == FlushPending(h, valid)
  <2>1. up /\ ~active
    BY <1>1 DEF BeginSession
  <2>2. /\ f.order \in Seq(Windows) /\ IsInjective(f.order)
        /\ latest \in valid => f.order # <<>> /\ Head(f.order) = latest
    BY <1>1, <2>1, FlushedTracker
  <2>3. PICK list \in CandidateLists(f.order) :
          \/ active' = active
          \/ snapshot' = list
    BY <1>1 DEF BeginSession, StartSession, session
  <2>4. snapshot' = list
    BY <1>1, <2>1, <2>3
  <2> DEFINE o == f.order
  <2>5. /\ o \in Seq(Windows) /\ IsInjective(o) /\ list \in CandidateLists(o)
        /\ latest \in valid => o # <<>> /\ Head(o) = latest
    BY <2>2, <2>3
  <2> HIDE DEF o, f
  <2>6. /\ IsInjective(list) /\ Range(list) \subseteq valid
        /\ o # <<>> /\ Head(o) \in Range(list) => Head(list) = Head(o)
    BY <2>5, Candidates
  <2> QED  BY <2>4, <2>5, <2>6
<1>2. ASSUME Inv, [Next]_vars, ~active, active' PROVE BeginSession
  BY <1>2 DEF Next, vars, session, Cycle, SelectIndex, Apply, Cancel, OpenWindow,
              FocusEvent, FocusLost, WindowVanishes, WindowClosed, OnWindowInvalid,
              ConfigReloaded, TimerFires, Unload
<1>3. Inv /\ [Next]_vars =>
        [~active /\ active' =>
           /\ latest \in Range(snapshot') => Head(snapshot') = latest
           /\ IsInjective(snapshot')]_vars
  BY <1>1, <1>2
<1> QED  BY <1>3, Invariance, PTL DEF Spec, LatestUseFirst

=============================================================================
