---------------------------- MODULE AltTabProofs ----------------------------
(***************************************************************************)
(* SessionController implements AltTab: every handler is, under the        *)
(* refinement mapping of Switcher, a step of the abstract switcher or      *)
(* changes nothing it shows.                                               *)
(***************************************************************************)
EXTENDS SessionControllerProofs

-----------------------------------------------------------------------------
(***************************************************************************)
(* The mapping.                                                            *)
(***************************************************************************)

(* The list operators of the instance are those of MruList.                *)
LEMMA SameOperators ==
  /\ \A s, S : Switcher!Keep(s, S) = Keep(s, S)
  /\ \A s, w : Switcher!Promote(s, w) = Promote(s, w)
  /\ \A s : Switcher!Range(s) = Range(s)
  /\ \A s : Switcher!IsInjective(s) <=> IsInjective(s)
  /\ \A s, t : Switcher!IsPrefix(s, t) <=> IsPrefix(s, t)
  /\ \A S : Switcher!SetToSeqs(S) = SetToSeqs(S)
<1>1. \A S : Switcher!Cardinality(S) = Cardinality(S)
  BY DEF Switcher!Cardinality, Cardinality
<1>2. \A s : Switcher!Range(s) = Range(s)
  BY DEF Switcher!Range, Range
<1>3. \A I, n : Switcher!NthPosition(I, n) = NthPosition(I, n)
  BY <1>1 DEF Switcher!NthPosition, NthPosition
<1>4. \A s, I : Switcher!KeepAt(s, I) = KeepAt(s, I)
  BY <1>1, <1>3 DEF Switcher!KeepAt, KeepAt
<1>5. \A s, S : Switcher!Keep(s, S) = Keep(s, S)
  BY <1>4 DEF Switcher!Keep, Keep
<1>6. \A s, w : Switcher!Promote(s, w) = Promote(s, w)
  BY <1>2, <1>5 DEF Switcher!Promote, Promote
<1>7. \A s : Switcher!IsInjective(s) <=> IsInjective(s)
  BY DEF Switcher!IsInjective, IsInjective
<1>8. \A s, t : Switcher!IsPrefix(s, t) <=> IsPrefix(s, t)
  BY DEF Switcher!IsPrefix, IsPrefix
<1>9. \A S : Switcher!SetToSeqs(S) = SetToSeqs(S)
  BY <1>1 DEF Switcher!SetToSeqs, SetToSeqs
<1> QED  BY <1>2, <1>5, <1>6, <1>7, <1>8, <1>9

(* What the abstract switcher's lists are mapped to.                       *)
Settled == Keep(h.order, valid)

Fresh == IF h.pendingRef \in valid THEN h.pendingRef ELSE NoWindow

(* The mapping needs more than the session's invariant: an idle controller *)
(* remembers no origin, only a live window is focused, and the order holds *)
(* no window that has yet to open (it would settle by opening).            *)
MapInv ==
  /\ ~active => origin = NoWindow
  /\ focused \in valid \cup {NoWindow}
  /\ \A w \in Range(h.order) : fate[w] # "unborn"

(* The tracker of any state and of a session.                              *)
LEMMA TrackerFacts ==
  ASSUME Inv
  PROVE  /\ Tracker(h) /\ h.order \in Seq(Windows) /\ IsInjective(h.order)
         /\ h.pendingRef \in Windows \cup {NoWindow}
         /\ h.locked = active
         /\ active => NoJob(h) /\ h.pendingRef = NoWindow
         /\ active <=> snapshot # <<>>
         /\ snapshot \in Seq(Windows)
         /\ valid \subseteq Windows /\ NoWindow \notin valid
         /\ Fresh # NoWindow => Fresh = h.pendingRef /\ h.pendingRef \in valid
<1>1. h \in HistoryType /\ JobsAgree(h) /\ IsInjective(h.order) /\ h.locked = active
      /\ active \in BOOLEAN /\ (active => NoJob(h)) /\ snapshot \in Seq(Windows)
      /\ index \in Nat /\ SelectionInRange
  BY DEF Inv, SessionInv, SessionTypeOK
<1>2. active <=> snapshot # <<>>
  BY <1>1 DEF SelectionInRange
<1>3. valid \subseteq Windows /\ NoWindow \notin valid
  BY WindowsAssumption DEF valid, LiveIn
<1> QED  BY <1>1, <1>2, <1>3, HistoryFields DEF Tracker, NoJob, Fresh

(* Windows that die leave the settled list, and no other does.             *)
LEMMA SettledLoses ==
  ASSUME Inv, h'.order = h.order, valid' \subseteq valid
  PROVE  Settled' = Keep(Settled, valid')
<1> DEFINE o == h.order
           V == valid'
<1>1. o \in Seq(Windows)
  BY TrackerFacts
<1>2. Keep(Keep(o, valid), V) = Keep(o, valid \cap V)
  BY <1>1, KeepTwice
<1>3. valid \cap V = V
  OBVIOUS
<1>4. Settled' = Keep(o, V) /\ Settled = Keep(o, valid)
  BY DEF Settled
<1> QED  BY <1>2, <1>3, <1>4

(* Recording the pending use settles it, if its window lives.              *)
LEMMA SettledPromotes ==
  ASSUME Inv, valid' = valid,
         h'.order = IF h.pendingRef \in valid THEN Promote(h.order, h.pendingRef)
                                              ELSE h.order
  PROVE  Settled' = IF Fresh = NoWindow THEN Settled ELSE Promote(Settled, Fresh)
<1> DEFINE o == h.order
           w == h.pendingRef
<1>1. o \in Seq(Windows) /\ NoWindow \notin valid /\ valid \subseteq Windows
  BY TrackerFacts
<1>2. Settled' = Keep(h'.order, valid) /\ Settled = Keep(o, valid)
  BY DEF Settled
<1>3. CASE w \in valid
  <2>1. w \in Windows /\ Fresh = w /\ w # NoWindow
    BY <1>1, <1>3 DEF Fresh
  <2>2. h'.order = Promote(o, w)
    BY <1>3
  <2> HIDE DEF o, w
  <2>3. Keep(Promote(o, w), valid) = Promote(Keep(o, valid), w)
    BY <1>1, <1>3, <2>1, KeepPromote
  <2> QED  BY <1>2, <2>1, <2>2, <2>3
<1>4. CASE w \notin valid
  BY <1>2, <1>4 DEF Fresh
<1> QED  BY <1>3, <1>4

(* Every list of candidates begins with the settled windows that are in    *)
(* it, in their order.                                                     *)
LEMMA CandidatesSettled ==
  ASSUME NEW o \in Seq(Windows), NEW list \in CandidateLists(o)
  PROVE  IsPrefix(Keep(Keep(o, valid), Range(list)), list)
<1>1. PICK S \in SUBSET valid : \E rest \in SetToSeqs(S \ Range(o)) :
        list = Keep(o, S) \o rest
  BY DEF CandidateLists
<1>2. PICK rest \in SetToSeqs(S \ Range(o)) : list = Keep(o, S) \o rest
  BY <1>1
<1> DEFINE k == Keep(o, S)
<1>3. S \subseteq Windows /\ IsFiniteSet(S \ Range(o))
  BY WindowsAssumption, FS_Subset DEF valid, LiveIn
<1>4. rest \in Seq(S \ Range(o)) /\ Range(rest) = S \ Range(o)
  BY <1>3, SetToSeqsFacts
<1>5. rest \in Seq(Windows)
  BY <1>3, <1>4
<1>6. k \in Seq(Windows) /\ Range(k) = Range(o) \cap S
  BY KeepFacts
<1>7. Keep(Keep(o, valid), S) = Keep(o, valid \cap S) /\ valid \cap S = S
  BY KeepTwice
<1> HIDE DEF k
<1>8. Range(k \o rest) = Range(k) \cup Range(rest)
  BY <1>5, <1>6, ConcatFacts
<1>9. Range(list) = S
  BY <1>2, <1>4, <1>6, <1>8 DEF k
<1>10. Keep(Keep(o, valid), Range(list)) = k
  BY <1>7, <1>9 DEF k
<1>11. IsPrefix(k, k \o rest)
  BY <1>5, <1>6, PrefixOfConcat
<1> QED  BY <1>2, <1>10, <1>11 DEF k

-----------------------------------------------------------------------------
(***************************************************************************)
(* Every handler, seen through the mapping.                                *)
(***************************************************************************)

(* What the mapped variables are, so that a step can be checked against an *)
(* action of the instance without opening the mapping again.               *)
LEMMA Unmoved ==
  ASSUME up' = up, valid' = valid, Settled' = Settled, Fresh' = Fresh,
         snapshot' = snapshot, origin' = origin, focused' = focused
  PROVE  UNCHANGED Switcher!vars
BY SameOperators DEF Switcher!vars, Settled, Fresh

(* A step that leaves the order, the pending window and the live windows   *)
(* alone moves neither of the mapped parts of the tracker.                 *)
LEMMA TrackerUnmoved ==
  ASSUME h'.order = h.order, h'.pendingRef = h.pendingRef, valid' = valid
  PROVE  Settled' = Settled /\ Fresh' = Fresh
BY DEF Settled, Fresh

(* An opened window is in no order and is not pending.                     *)
LEMMA OpenWindowAppears ==
  ASSUME Inv, MapInv, NEW w \in Windows, OpenWindow(w)
  PROVE  Switcher!Appear(w)
<1>1. /\ fate[w] = "unborn" /\ fate' = [fate EXCEPT ![w] = "live"]
      /\ up' = up /\ h' = h /\ snapshot' = snapshot /\ origin' = origin
      /\ focused' = focused
  BY DEF OpenWindow, session
<1>2. fate \in [Windows -> Fates]
  BY DEF Inv, EventsTypeOK
<1>3. w \notin valid /\ valid' = valid \cup {w}
  BY <1>1, <1>2 DEF valid, LiveIn
<1> DEFINE o == h.order
<1>4. o \in Seq(Windows) /\ h.pendingRef \in Windows \cup {NoWindow}
  BY TrackerFacts
<1>5. w \notin Range(o)
  BY <1>1 DEF MapInv
<1>6. Range(o) \cap valid' = Range(o) \cap valid
  BY <1>3, <1>5
<1> DEFINE V == valid'
<1> HIDE DEF V, o
<1>7. Keep(o, V) = Keep(o, valid)
  BY <1>6, KeepSame DEF V
<1>8. Settled' = Settled
  BY <1>1, <1>7 DEF Settled, V, o
<1>9. h.pendingRef # w
  <2>1. w # NoWindow
    BY WindowsAssumption
  <2> QED  BY <1>1, <2>1 DEF Inv, LatestInv
<1>10. Fresh' = Fresh
  BY <1>1, <1>3, <1>9 DEF Fresh
<1> QED  BY <1>1, <1>3, <1>8, <1>10 DEF Switcher!Appear, Settled, Fresh

(* A window that dies is lost to the order, to the pending use and to the  *)
(* focus; the offer stands, or loses its dead windows.                     *)
LEMMA DeathPerishes ==
  ASSUME Inv, MapInv, NEW w \in valid, valid' = valid \ {w},
         up' = up, h'.order = h.order, h'.pendingRef = h.pendingRef,
         focused' = IF focused = w THEN NoWindow ELSE focused,
         \/ snapshot' = snapshot /\ origin' = origin
         \/ /\ snapshot' = Keep(snapshot, valid')
            /\ origin' = IF snapshot' = <<>> THEN NoWindow ELSE origin
  PROVE  Switcher!Perish(w)
<1>1. /\ NoWindow \notin valid /\ (active <=> snapshot # <<>>)
      /\ ~active => origin = NoWindow
      /\ focused \in valid \cup {NoWindow}
  BY TrackerFacts DEF MapInv
<1>2. Settled' = Keep(Settled, valid')
  BY SettledLoses
<1>3. Fresh' = IF Fresh \in valid' THEN Fresh ELSE NoWindow
  BY <1>1 DEF Fresh
<1>4. focused' = IF focused \in valid' THEN focused ELSE NoWindow
  BY <1>1
<1>5. /\ snapshot' \in {snapshot, Keep(snapshot, valid')}
      /\ origin' = IF snapshot' = <<>> THEN NoWindow ELSE origin
  BY <1>1
<1> QED
  BY <1>2, <1>3, <1>4, <1>5, SameOperators
     DEF Switcher!Perish, Switcher!Lose, Switcher!Alive, Settled, Fresh

(* A focus event is a use unless a session is active.                      *)
LEMMA FocusEventFocuses ==
  ASSUME Inv, MapInv, NEW w \in Windows, FocusEvent(w)
  PROVE  Switcher!Focus(w)
<1>1. /\ w \in valid /\ w # NoWindow /\ focused' = w /\ up' = up /\ fate' = fate
      /\ snapshot' = snapshot /\ origin' = origin /\ valid' = valid
  BY TrackerFacts DEF FocusEvent, session, valid
<1>2. /\ Tracker(h) /\ h.locked = active /\ (active <=> snapshot # <<>>)
      /\ valid \subseteq Windows
  BY TrackerFacts
<1>3. CASE active /\ h' = h
  <2>1. Settled' = Settled /\ Fresh' = Fresh
    BY <1>1, <1>3, TrackerUnmoved
  <2> QED
    BY <1>1, <1>2, <1>3, <2>1 DEF Switcher!Focus, Switcher!Idle, Settled, Fresh
<1>4. CASE ~active /\ h' = OnFocus(h, w)
  <2>1. h'.order = h.order /\ h'.pendingRef = w
    BY <1>2, <1>4, Focused
  <2>2. Settled' = Settled /\ Fresh' = w
    BY <1>1, <2>1 DEF Settled, Fresh
  <2> QED
    BY <1>1, <1>2, <1>4, <2>2 DEF Switcher!Focus, Switcher!Idle, Settled, Fresh
<1> QED  BY <1>3, <1>4 DEF FocusEvent

(* Focus goes to no window: no use.                                        *)
LEMMA FocusLostFocuses ==
  ASSUME FocusLost
  PROVE  Switcher!Focus(NoWindow)
<1>1. /\ focused' = NoWindow /\ up' = up /\ h' = h /\ valid' = valid
      /\ snapshot' = snapshot /\ origin' = origin
  BY DEF FocusLost, session, valid
<1>2. Settled' = Settled /\ Fresh' = Fresh
  BY <1>1, TrackerUnmoved
<1> QED  BY <1>1, <1>2 DEF Switcher!Focus, Settled, Fresh

(* A timer settles the pending use, unless its window has died.            *)
LEMMA TimerSettles ==
  ASSUME Inv, NEW id \in JobIds, TimerFires(id)
  PROVE  up /\ (Switcher!Settle \/ UNCHANGED Switcher!vars)
<1>1. PICK t \in h.timers : h' = TimerFired(h, t, valid)
  BY DEF TimerFires
<1>2. Tracker(h) /\ NoWindow \notin valid
  BY TrackerFacts
<1>3. /\ t.ref = h.pendingRef /\ NoJob(h')
      /\ h'.order = IF t.ref \in valid THEN Promote(h.order, t.ref) ELSE h.order
  BY <1>1, <1>2, Fired
<1>4. up
  <2>1. ~up => h.timers = {}
    BY DEF Inv, NoJob
  <2> QED  BY <1>1, <2>1
<1>5. /\ up' = up /\ valid' = valid /\ snapshot' = snapshot /\ origin' = origin
      /\ focused' = focused
  BY DEF TimerFires, session, valid
<1>6. Settled' = IF Fresh = NoWindow THEN Settled ELSE Promote(Settled, Fresh)
  BY <1>3, <1>5, SettledPromotes
<1>7. Fresh' = NoWindow
  BY <1>3 DEF NoJob, Fresh
<1>8. CASE Fresh = NoWindow
  BY <1>4, <1>5, <1>6, <1>7, <1>8, Unmoved
<1>9. CASE Fresh # NoWindow
  BY <1>4, <1>5, <1>6, <1>7, <1>9, SameOperators
     DEF Switcher!Settle, Switcher!Latest, Settled, Fresh
<1> QED  BY <1>8, <1>9

(* A session start settles the pending use and offers the settled windows  *)
(* first; one that finds no window to offer only settles it.               *)
LEMMA BeginSessionOffers ==
  ASSUME Inv, MapInv, BeginSession
  PROVE  Switcher!Offer \/ Switcher!Settle \/ UNCHANGED Switcher!vars
<1> DEFINE f == FlushPending(h, valid)
           o == f.order
<1>1. /\ up /\ ~active /\ up' = up /\ fate' = fate /\ focused' = focused
      /\ valid' = valid
  BY DEF BeginSession, valid
<1>2. /\ Tracker(h) /\ NoWindow \notin valid /\ snapshot = <<>>
  BY <1>1, TrackerFacts
<1>3. /\ Tracker(f) /\ NoJob(f) /\ ~f.locked /\ o \in Seq(Windows) /\ IsInjective(o)
  BY <1>1, FlushedTracker
<1>4. o = IF h.pendingRef \in valid THEN Promote(h.order, h.pendingRef) ELSE h.order
  BY <1>2, Flushed
<1>5. PICK list \in CandidateLists(o) :
        \/ list = <<>> /\ h' = f /\ UNCHANGED <<session, ui>>
        \/ list # <<>> /\ StartSession(list, f)
  BY DEF BeginSession
<1> HIDE DEF f
<1>6. CASE list = <<>> /\ h' = f /\ UNCHANGED <<session, ui>>
  <2>1. snapshot' = snapshot /\ origin' = origin
    BY <1>6 DEF session
  <2>2. Settled' = IF Fresh = NoWindow THEN Settled ELSE Promote(Settled, Fresh)
    BY <1>1, <1>4, <1>6, SettledPromotes
  <2>3. Fresh' = NoWindow
    BY <1>3, <1>6 DEF NoJob, Fresh
  <2>4. CASE Fresh = NoWindow
    BY <1>1, <2>1, <2>2, <2>3, <2>4, Unmoved
  <2>5. CASE Fresh # NoWindow
    BY <1>1, <2>1, <2>2, <2>3, <2>5, SameOperators
       DEF Switcher!Settle, Switcher!Latest, Settled, Fresh
  <2> QED  BY <2>4, <2>5
<1>7. CASE list # <<>> /\ StartSession(list, f)
  <2>1. /\ snapshot' = list /\ origin' = focused /\ h' = SetSessionLocked(f, TRUE)
    BY <1>7 DEF StartSession
  <2>2. h'.order = o /\ NoJob(h')
    BY <1>3, <2>1, LockedIn
  <2>3. Settled' = IF Fresh = NoWindow THEN Settled ELSE Promote(Settled, Fresh)
    BY <1>1, <1>4, <2>2, SettledPromotes
  <2>4. Fresh' = NoWindow
    BY <2>2 DEF NoJob, Fresh
  <2>5. Settled' = Keep(o, valid)
    BY <1>1, <2>2 DEF Settled
  <2> HIDE DEF o
  <2>6. IsInjective(list) /\ Range(list) \subseteq valid
    BY <1>3, Candidates
  <2>7. IsPrefix(Keep(Settled', Range(list)), list)
    BY <1>3, <2>5, CandidatesSettled
  <2> QED
    BY <1>1, <1>2, <1>7, <2>1, <2>3, <2>4, <2>6, <2>7, SameOperators
       DEF Switcher!Offer, Switcher!Idle, Switcher!Latest, Settled, Fresh
<1> QED  BY <1>5, <1>6, <1>7

(* What end_session() leaves of an active session for the mapping.         *)
LEMMA EndMapped ==
  ASSUME Inv, active, NEW reason, NEW hist, EndSession(reason, hist)
  PROVE  /\ snapshot' = <<>> /\ origin' = NoWindow
         /\ hist = Unlocked => h'.order = h.order /\ h'.pendingRef = NoWindow
         /\ \A w \in Windows : hist = OnFocus(Unlocked, w) =>
              h'.order = h.order /\ h'.pendingRef = w
         /\ hist = Destroyed(Unlocked) => h'.order = h.order /\ h'.pendingRef = NoWindow
<1> DEFINE u == Unlocked
<1>1. Tracker(h) /\ h.pendingRef = NoWindow
  BY TrackerFacts
<1>2. Tracker(u) /\ ~u.locked /\ u.order = h.order /\ u.pendingRef = NoWindow
  BY <1>1, UnlockedFacts DEF Unlocked
<1>3. snapshot' = <<>> /\ origin' = NoWindow /\ h' = hist
  BY DEF EndSession
<1> HIDE DEF u
<1>4. \A w \in Windows : OnFocus(u, w).order = u.order /\ OnFocus(u, w).pendingRef = w
  BY <1>2, Focused
<1>5. Destroyed(u).order = u.order /\ NoJob(Destroyed(u))
  BY <1>2, DestroyedFacts
<1> QED  BY <1>2, <1>3, <1>4, <1>5 DEF u, NoJob

(* A session that ends without focusing a window of it is dismissed; S     *)
(* holds the window that died under way, if any.                           *)
LEMMA AbortDismisses ==
  ASSUME Inv, MapInv, active, up' = up, NEW S \in SUBSET valid, valid' = valid \ S,
         NEW reason, NEW log, AbortApply(reason, log)
  PROVE  Switcher!Dismiss(S)
<1>1. /\ EndSession(reason, Unlocked)
      /\ focused' = IF focused \in valid' THEN focused ELSE NoWindow
  BY DEF AbortApply, valid
<1>2. /\ snapshot' = <<>> /\ origin' = NoWindow
      /\ h'.order = h.order /\ h'.pendingRef = NoWindow
  BY <1>1, EndMapped
<1>3. snapshot # <<>> /\ NoWindow \notin valid
  BY TrackerFacts
<1>4. Settled' = Keep(Settled, valid')
  BY <1>2, SettledLoses
<1>5. Fresh' = NoWindow
  BY <1>2 DEF Fresh
<1> QED
  BY <1>1, <1>2, <1>3, <1>4, <1>5, SameOperators
     DEF Switcher!Dismiss, Switcher!Idle, Switcher!Lose, Switcher!Alive, Settled, Fresh

(* A session that ends Applied has picked a live window of it, which       *)
(* becomes the pending use.                                                *)
LEMMA CompletePicks ==
  ASSUME Inv, MapInv, active, up' = up, NEW S \in SUBSET valid, valid' = valid \ S,
         NEW w \in valid \cap Range(snapshot), w \in valid',
         NEW log, CompleteApply(w, log)
  PROVE  Switcher!Pick(w, S)
<1>1. /\ EndSession("Applied", OnFocus(Unlocked, w)) /\ focused' = w
  BY DEF CompleteApply
<1>2. w \in Windows /\ NoWindow \notin valid
  BY TrackerFacts
<1>3. /\ snapshot' = <<>> /\ origin' = NoWindow
      /\ h'.order = h.order /\ h'.pendingRef = w
  BY <1>1, <1>2, EndMapped
<1>4. Settled' = Keep(Settled, valid')
  BY <1>3, SettledLoses
<1>5. Fresh' = w
  BY <1>3 DEF Fresh
<1> QED
  BY <1>1, <1>3, <1>4, <1>5, SameOperators
     DEF Switcher!Pick, Switcher!Lose, Settled, Fresh

(* How one focus request ends, seen through the mapping.                   *)
LEMMA ConcludePicksOrDismisses ==
  ASSUME Inv, MapInv, active, up' = up, NEW S \in SUBSET valid, valid' = valid \ S,
         NEW w \in valid \cap Range(snapshot), w \in valid',
         NEW result, NEW log, Conclude(w, result, log)
  PROVE  Switcher!Pick(w, S) \/ Switcher!Dismiss(S)
BY CompletePicks, AbortDismisses DEF Conclude

(* The ways an offer ends with at most one window lost under way.          *)
PicksOrDismisses ==
  \/ \E w \in Windows : Switcher!Pick(w, {}) \/ \E v \in valid : Switcher!Pick(w, {v})
  \/ Switcher!Dismiss({})
  \/ \E v \in valid : Switcher!Dismiss({v})

(* Apply picks a live window of the offer or dismisses it, whichever of    *)
(* its two attempts fails and whether or not a window dies between them.   *)
LEMMA ApplyPicksOrDismisses ==
  ASSUME Inv, MapInv, Apply
  PROVE  PicksOrDismisses
<1>1. /\ active /\ up' = up /\ snapshot \in Seq(Windows) /\ index \in Nat
      /\ fate \in [Windows -> Fates] /\ valid \subseteq Windows
  BY TrackerFacts DEF Apply, Inv, SessionInv, SessionTypeOK, EventsTypeOK
<1> DEFINE s == Survivors
           O == valid \cap Range(snapshot)
<1>2. s \in Seq(Windows) /\ Range(s) = O
  BY <1>1, KeepFacts DEF Survivors
<1> HIDE DEF s
<1>3. {} \in SUBSET valid /\ valid \ {} = valid
  OBVIOUS
<1>4. fate' = fate => valid' = valid
  BY DEF valid
<1>5. CASE ApplyNothingLeft
  <2>1. fate' = fate /\ AbortApply("NoWindows", <<>>)
    BY <1>5 DEF ApplyNothingLeft
  <2>2. Switcher!Dismiss({})
    BY <1>1, <1>3, <1>4, <2>1, AbortDismisses
  <2> QED  BY <2>2 DEF PicksOrDismisses
<1>6. CASE \E result \in FocusResults : ApplyOnce(result)
  <2>1. PICK result \in FocusResults : ApplyOnce(result)
    BY <1>6
  <2> DEFINE w == Target(s, index)
             log == <<Request(w, result)>>
  <2>2. s # <<>> /\ fate' = fate /\ Conclude(w, result, log)
    BY <2>1 DEF ApplyOnce, s
  <2>3. w \in O
    BY <1>1, <1>2, <2>2, TargetInList
  <2> HIDE DEF w, log
  <2>4. valid' = valid \ {} /\ w \in valid'
    BY <1>3, <1>4, <2>2, <2>3
  <2>5. Switcher!Pick(w, {}) \/ Switcher!Dismiss({})
    BY <1>1, <1>3, <2>2, <2>3, <2>4, ConcludePicksOrDismisses
  <2> QED  BY <1>1, <2>3, <2>5 DEF PicksOrDismisses
<1>7. CASE \E dies \in BOOLEAN, result \in FocusResults : ApplyAgain(dies, result)
  <2>1. PICK dies \in BOOLEAN, result \in FocusResults : ApplyAgain(dies, result)
    BY <1>7
  <2> DEFINE first  == Target(s, index)
             log    == <<Request(first, "InvalidTarget")>>
             after  == IF dies THEN [fate EXCEPT ![first] = "vanished"] ELSE fate
             list   == Keep(s, LiveIn(after))
             second == Target(list, Clamp(index, Len(s)))
             log2   == Append(log, Request(second, result))
             S      == IF dies THEN {first} ELSE {}
  <2>2. /\ s # <<>> /\ fate' = after
        /\ \/ list = <<>> /\ AbortApply("NoWindows", log)
           \/ list # <<>> /\ Conclude(second, result, log2)
    BY <2>1 DEF ApplyAgain, s
  <2>3. first \in O
    BY <1>1, <1>2, <2>2, TargetInList
  <2>4. LiveIn(after) = valid \ S
    BY <1>1, <2>3 DEF valid, LiveIn
  <2>5. valid' = valid \ S /\ valid' = LiveIn(after)
    BY <2>2, <2>4 DEF valid
  <2>6. S \in SUBSET valid
    BY <2>3
  <2>7. S = {} \/ \E v \in valid : S = {v}
    BY <2>3
  <2>8. list \in Seq(Windows) /\ Range(list) = O \cap LiveIn(after)
    BY <1>2, KeepFacts
  <2>9. Clamp(index, Len(s)) \in Nat
    BY <1>1, <1>2 DEF Clamp
  <2>10. list # <<>> => second \in O /\ second \in valid'
    BY <2>5, <2>8, <2>9, TargetInList
  <2> HIDE DEF first, log, after, list, second, log2, S
  <2>11. CASE list = <<>> /\ AbortApply("NoWindows", log)
    <3>1. Switcher!Dismiss(S)
      BY <1>1, <2>5, <2>6, <2>11, AbortDismisses
    <3> QED  BY <2>7, <3>1 DEF PicksOrDismisses
  <2>12. CASE list # <<>> /\ Conclude(second, result, log2)
    <3>1. Switcher!Pick(second, S) \/ Switcher!Dismiss(S)
      BY <1>1, <2>5, <2>6, <2>10, <2>12, ConcludePicksOrDismisses
    <3>2. second \in Windows
      BY <1>1, <2>10, <2>12
    <3> QED  BY <2>7, <3>1, <3>2 DEF PicksOrDismisses
  <2> QED  BY <2>2, <2>11, <2>12
<1> QED  BY <1>5, <1>6, <1>7 DEF Apply

(* Cancel dismisses, and may bring the origin back into focus.             *)
LEMMA CancelDismisses ==
  ASSUME Inv, MapInv, Cancel
  PROVE  Switcher!Dismiss({})
<1>1. active /\ up' = up /\ fate' = fate /\ valid' = valid \ {} /\ valid' = valid
  BY DEF Cancel, valid
<1>2. CASE AbortApply("UserCancel", <<>>)
  <2>1. {} \in SUBSET valid
    OBVIOUS
  <2> QED  BY <1>1, <1>2, <2>1, AbortDismisses
<1>3. CASE /\ origin \in valid
           /\ \E result \in FocusResults, echo \in BOOLEAN : Restore(result, echo)
  <2>1. PICK result \in FocusResults, echo \in BOOLEAN : Restore(result, echo)
    BY <1>3
  <2>2. /\ snapshot # <<>> /\ NoWindow \notin valid /\ valid \subseteq Windows
        /\ focused \in valid \cup {NoWindow}
    BY <1>1, TrackerFacts DEF MapInv
  <2>3. PICK hist : /\ EndSession("UserCancel", hist)
                    /\ \/ hist = Unlocked /\ focused' \in {origin, focused}
                       \/ hist = OnFocus(Unlocked, origin) /\ focused' = origin
    BY <2>1 DEF Restore
  <2>4. /\ snapshot' = <<>> /\ origin' = NoWindow /\ h'.order = h.order
        /\ \/ h'.pendingRef = NoWindow /\ focused' \in {origin, focused}
           \/ h'.pendingRef = origin /\ focused' = origin
    BY <1>1, <1>3, <2>2, <2>3, EndMapped
  <2>5. Settled' = Keep(Settled, valid')
    BY <1>1, <2>4, SettledLoses
  <2>6. \/ Fresh' = NoWindow /\ focused' \in {origin, focused}
        \/ Fresh' = origin /\ focused' = origin
    BY <1>1, <1>3, <2>2, <2>4 DEF Fresh
  <2>7. /\ origin = IF origin \in valid' THEN origin ELSE NoWindow
        /\ focused = IF focused \in valid' THEN focused ELSE NoWindow
    BY <1>1, <1>3, <2>2
  <2> QED
    BY <1>1, <2>2, <2>4, <2>5, <2>6, <2>7, SameOperators
       DEF Switcher!Dismiss, Switcher!Idle, Switcher!Lose, Switcher!Alive, Settled, Fresh
<1> QED  BY <1>2, <1>3 DEF Cancel

(* A close event is the death of a window, whatever it does to a session.  *)
LEMMA WindowClosedPerishes ==
  ASSUME Inv, MapInv, NEW w \in Windows, WindowClosed(w)
  PROVE  Switcher!Perish(w)
<1>1. /\ w \in valid /\ fate' = [fate EXCEPT ![w] = "closed"] /\ up' = up
      /\ focused' = IF focused = w THEN NoWindow ELSE focused
      /\ OnWindowInvalid(w, valid \ {w})
  BY DEF WindowClosed
<1>2. fate \in [Windows -> Fates]
  BY DEF Inv, EventsTypeOK
<1>3. valid' = valid \ {w}
  BY <1>1, <1>2 DEF valid, LiveIn
<1> DEFINE list == Keep(snapshot, valid \ {w})
<1>4. CASE UNCHANGED <<h, session, ui>>
  <2>1. h' = h /\ snapshot' = snapshot /\ origin' = origin
    BY <1>4 DEF session
  <2> QED  BY <1>1, <1>3, <2>1, DeathPerishes
<1>5. CASE active /\ list = <<>> /\ EndSession("NoWindows", Unlocked)
  <2>1. /\ snapshot' = <<>> /\ origin' = NoWindow
        /\ h'.order = h.order /\ h'.pendingRef = NoWindow
    BY <1>5, EndMapped
  <2>2. h.pendingRef = NoWindow
    BY <1>5, TrackerFacts
  <2> QED  BY <1>1, <1>3, <1>5, <2>1, <2>2, DeathPerishes
<1>6. CASE /\ list # <<>> /\ snapshot' = list
           /\ UNCHANGED <<h, active, origin, sessionId, frozen, lastEnd, ui>>
  BY <1>1, <1>3, <1>6, DeathPerishes
<1> QED  BY <1>1, <1>4, <1>5, <1>6 DEF OnWindowInvalid

(* Unloading stops the abstract switcher.                                  *)
LEMMA UnloadStops ==
  ASSUME Inv, MapInv, Unload
  PROVE  Switcher!Stop
<1>1. up' = FALSE /\ fate' = fate /\ focused' = focused /\ valid' = valid
  BY DEF Unload, valid
<1>2. /\ Tracker(h) /\ (active <=> snapshot # <<>>)
      /\ ~active => origin = NoWindow
  BY TrackerFacts DEF MapInv
<1>3. /\ snapshot' = <<>> /\ origin' = NoWindow
      /\ h'.order = h.order /\ h'.pendingRef = NoWindow
  <2>1. CASE active /\ EndSession("PluginShutdown", Destroyed(Unlocked))
    BY <2>1, EndMapped
  <2>2. CASE ~active /\ h' = Destroyed(h) /\ UNCHANGED <<session, ui>>
    BY <1>2, <2>2, DestroyedFacts DEF session, NoJob
  <2> QED  BY <2>1, <2>2 DEF Unload
<1>4. Settled' = Settled /\ Fresh' = NoWindow
  BY <1>1, <1>3 DEF Settled, Fresh
<1> QED  BY <1>1, <1>3, <1>4 DEF Switcher!Stop, Settled, Fresh

-----------------------------------------------------------------------------
(***************************************************************************)
(* The mapping's invariant.                                                *)
(***************************************************************************)

(* What every handler does to the fate of windows.                         *)
LEMMA FatesMove ==
  ASSUME Inv, [Next]_vars
  PROVE  FateMoves(fate, fate')
<1>1. fate \in [Windows -> Fates]
  BY DEF Inv, EventsTypeOK
<1>2. CASE fate' = fate
  BY <1>2 DEF FateMoves
<1>3. CASE \E w : \E d \in Fates \ {"unborn"} : fate' = [fate EXCEPT ![w] = d]
                    /\ (d = "live" => fate[w] = "unborn")
  BY <1>1, <1>3 DEF FateMoves
<1>4. CASE Apply
  <2>1. CASE \E result \in FocusResults : ApplyOnce(result)
    BY <1>2, <2>1 DEF ApplyOnce
  <2>2. CASE \E dies \in BOOLEAN, result \in FocusResults : ApplyAgain(dies, result)
    <3>1. \E w : fate' = fate \/ fate' = [fate EXCEPT ![w] = "vanished"]
      BY <2>2 DEF ApplyAgain
    <3> QED  BY <1>2, <1>3, <3>1 DEF Fates
  <2> QED  BY <1>2, <1>4, <2>1, <2>2 DEF Apply, ApplyNothingLeft
<1>5. CASE \/ \E w \in Windows : OpenWindow(w) \/ WindowVanishes(w) \/ WindowClosed(w)
  BY <1>1, <1>5 DEF OpenWindow, WindowVanishes, WindowClosed, FateMoves
<1> QED
  BY <1>2, <1>4, <1>5
     DEF Next, vars, BeginSession, Cycle, SelectIndex, Cancel, FocusEvent, FocusLost,
         ConfigReloaded, TimerFires, Unload

(* What every handler does to the order: it promotes the pending window    *)
(* while that is live, or leaves the order alone.                          *)
LEMMA OrderMoves ==
  ASSUME Inv, [Next]_vars
  PROVE  \/ h'.order = h.order
         \/ h.pendingRef \in valid /\ h'.order = Promote(h.order, h.pendingRef)
<1>1. Tracker(h) /\ NoWindow \notin valid
  BY TrackerFacts
<1>2. CASE active
  BY <1>2, ActiveKeepsOrder
<1>3. CASE h' = h
  BY <1>3
<1>4. CASE BeginSession
  <2> DEFINE f == FlushPending(h, valid)
  <2>1. f.order = IF h.pendingRef \in valid THEN Promote(h.order, h.pendingRef) ELSE h.order
    BY <1>1, Flushed
  <2>2. Tracker(f) /\ ~f.locked
    BY <1>4, FlushedTracker DEF BeginSession
  <2>3. h' = f \/ h' = SetSessionLocked(f, TRUE)
    BY <1>4 DEF BeginSession, StartSession
  <2> HIDE DEF f
  <2>4. SetSessionLocked(f, TRUE).order = f.order
    BY <2>2, LockedIn
  <2> QED  BY <2>1, <2>3, <2>4
<1>5. CASE \E id \in JobIds : TimerFires(id)
  <2>1. PICK t \in h.timers : h' = TimerFired(h, t, valid)
    BY <1>5 DEF TimerFires
  <2> QED  BY <1>1, <2>1, Fired
<1>6. CASE ~active /\ \E w \in Windows : FocusEvent(w)
  BY <1>1, <1>6, Focused DEF FocusEvent
<1>7. CASE ~active /\ Unload
  BY <1>1, <1>7, DestroyedFacts DEF Unload
<1>8. CASE ~active /\ \E w \in Windows : WindowClosed(w)
  BY <1>8 DEF WindowClosed, OnWindowInvalid
<1> QED
  BY <1>2, <1>3, <1>4, <1>5, <1>6, <1>7, <1>8
     DEF Next, vars, Cycle, SelectIndex, Apply, Cancel, OpenWindow, FocusLost,
         WindowVanishes, ConfigReloaded

(* Every handler leaves a live window focused, or none.                    *)
LEMMA FocusStaysLive ==
  ASSUME Inv, MapInv, [Next]_vars
  PROVE  focused' \in valid' \cup {NoWindow}
<1>1. /\ focused \in valid \cup {NoWindow} /\ snapshot \in Seq(Windows) /\ index \in Nat
      /\ fate \in [Windows -> Fates] /\ valid \subseteq Windows
  BY TrackerFacts DEF MapInv, Inv, SessionInv, SessionTypeOK, EventsTypeOK
<1>2. CASE UNCHANGED <<fate, focused>>
  BY <1>1, <1>2 DEF valid
<1>3. CASE \E reason, log : AbortApply(reason, log)
  BY <1>1, <1>3 DEF AbortApply, valid
<1>4. CASE Apply
  <2> DEFINE s == Survivors
  <2>1. s \in Seq(Windows) /\ Range(s) \subseteq valid
    BY <1>1, KeepFacts DEF Survivors
  <2> HIDE DEF s
  <2>2. CASE ApplyNothingLeft
    BY <1>3, <2>2 DEF ApplyNothingLeft
  <2>3. CASE \E result \in FocusResults : ApplyOnce(result)
    <3>1. PICK result \in FocusResults : ApplyOnce(result)
      BY <2>3
    <3> DEFINE w == Target(s, index)
    <3>2. s # <<>> /\ fate' = fate /\ Conclude(w, result, <<Request(w, result)>>)
      BY <3>1 DEF ApplyOnce, s
    <3>3. w \in valid
      BY <1>1, <2>1, <3>2, TargetInList
    <3> HIDE DEF w
    <3> QED  BY <1>3, <3>2, <3>3 DEF Conclude, CompleteApply, valid
  <2>4. CASE \E dies \in BOOLEAN, result \in FocusResults : ApplyAgain(dies, result)
    <3>1. PICK dies \in BOOLEAN, result \in FocusResults : ApplyAgain(dies, result)
      BY <2>4
    <3> DEFINE first  == Target(s, index)
               log    == <<Request(first, "InvalidTarget")>>
               after  == IF dies THEN [fate EXCEPT ![first] = "vanished"] ELSE fate
               list   == Keep(s, LiveIn(after))
               second == Target(list, Clamp(index, Len(s)))
               log2   == Append(log, Request(second, result))
    <3>2. /\ fate' = after
          /\ \/ AbortApply("NoWindows", log)
             \/ list # <<>> /\ Conclude(second, result, log2)
      BY <3>1 DEF ApplyAgain, s
    <3>3. list \in Seq(Windows) /\ Range(list) \subseteq LiveIn(after)
      BY <2>1, KeepFacts
    <3>4. Clamp(index, Len(s)) \in Nat
      BY <1>1, <2>1 DEF Clamp
    <3>5. list # <<>> => second \in LiveIn(after)
      BY <3>3, <3>4, TargetInList
    <3>6. valid' = LiveIn(after)
      BY <3>2 DEF valid
    <3> HIDE DEF first, log, after, list, second, log2
    <3> QED  BY <1>3, <3>2, <3>5, <3>6 DEF Conclude, CompleteApply
  <2> QED  BY <1>4, <2>2, <2>3, <2>4 DEF Apply
<1>5. CASE Cancel
  <2>1. CASE /\ origin \in valid
             /\ \E result \in FocusResults, echo \in BOOLEAN : Restore(result, echo)
    BY <1>1, <1>5, <2>1 DEF Cancel, Restore, valid
  <2> QED  BY <1>3, <1>5, <2>1 DEF Cancel
<1>6. CASE \E w \in Windows : OpenWindow(w)
  BY <1>1, <1>6 DEF OpenWindow, valid, LiveIn
<1>7. CASE \E w \in Windows : FocusEvent(w)
  BY <1>7 DEF FocusEvent, valid
<1>8. CASE FocusLost
  BY <1>8 DEF FocusLost
<1>9. CASE \E w \in Windows : WindowVanishes(w) \/ WindowClosed(w)
  BY <1>1, <1>9 DEF WindowVanishes, WindowClosed, valid, LiveIn
<1> QED
  BY <1>2, <1>4, <1>5, <1>6, <1>7, <1>8, <1>9
     DEF Next, vars, BeginSession, Cycle, SelectIndex, ConfigReloaded, TimerFires, Unload

(* Every handler keeps the mapping's invariant.                            *)
LEMMA NextKeepsMapInv ==
  ASSUME Inv, MapInv, [Next]_vars
  PROVE  MapInv'
<1>1. ~active' => origin' = NoWindow
  <2>1. ~active => origin = NoWindow
    BY DEF MapInv
  <2>2. CASE UNCHANGED <<active, origin>>
    BY <2>1, <2>2
  <2>3. CASE Apply \/ Cancel
    BY <2>3 DEF Apply, ApplyNothingLeft, ApplyOnce, ApplyAgain, Conclude, CompleteApply,
                AbortApply, Cancel, Restore, EndSession
  <2>4. CASE BeginSession
    BY <2>1, <2>4 DEF BeginSession, StartSession, session
  <2>5. CASE Unload \/ \E w \in Windows : WindowClosed(w)
    BY <2>1, <2>5 DEF Unload, WindowClosed, OnWindowInvalid, EndSession, session
  <2> QED
    BY <2>2, <2>3, <2>4, <2>5
       DEF Next, vars, session, Cycle, SelectIndex, OpenWindow, FocusEvent, FocusLost,
           WindowVanishes, ConfigReloaded, TimerFires
<1>2. focused' \in valid' \cup {NoWindow}
  BY FocusStaysLive
<1>3. ASSUME NEW w \in Range(h'.order) PROVE fate'[w] # "unborn"
  <2> DEFINE o == h.order
             p == h.pendingRef
  <2>1. o \in Seq(Windows) /\ valid \subseteq Windows /\ \A v \in Range(o) : v \in Windows
    BY TrackerFacts DEF Range
  <2>2. \A v \in Range(o) : fate[v] # "unborn"
    BY DEF MapInv
  <2>3. p \in valid => p \in Windows /\ fate[p] # "unborn"
    BY DEF valid, LiveIn
  <2>4. h'.order = o \/ (p \in valid /\ h'.order = Promote(o, p))
    BY OrderMoves
  <2> HIDE DEF o, p
  <2>5. p \in valid => Range(Promote(o, p)) = Range(o) \cup {p}
    BY <2>1, <2>3, PromoteFacts
  <2>6. w \in Windows /\ fate[w] # "unborn"
    BY <2>1, <2>2, <2>3, <2>4, <2>5
  <2> QED  BY <2>6, FatesMove DEF FateMoves
<1> QED  BY <1>1, <1>2, <1>3 DEF MapInv

(* At load the history lists live windows only.                            *)
LEMMA InitMapped ==
  ASSUME Init
  PROVE  MapInv /\ Switcher!Init
<1>1. /\ up = TRUE /\ active = FALSE /\ snapshot = <<>> /\ origin = NoWindow
      /\ focused \in valid \cup {NoWindow}
  BY DEF Init
<1>2. PICK S \in SUBSET valid : \E initial \in SetToSeqs(S) : h = Seeded(initial, valid)
  BY DEF Init
<1>3. PICK initial \in SetToSeqs(S) : h = Seeded(initial, valid)
  BY <1>2
<1>4. valid \subseteq Windows /\ NoWindow \notin valid /\ IsFiniteSet(S)
  BY <1>2, WindowsAssumption, FS_Subset DEF valid, LiveIn
<1>5. initial \in Seq(S) /\ Range(initial) = S /\ IsInjective(initial)
  BY <1>4, SetToSeqsFacts
<1>6. Keep(initial, valid) = initial
  BY <1>2, <1>5, KeepAll
<1>7. FirstOccurrences(initial) = initial
  BY <1>5, FirstOccurrencesAll
<1>8. h.order = initial /\ h.pendingRef = NoWindow
  BY <1>3, <1>6, <1>7 DEF Seeded
<1>9. Settled = initial /\ Fresh = NoWindow
  BY <1>4, <1>6, <1>8 DEF Settled, Fresh
<1>10. MapInv
  BY <1>1, <1>2, <1>5, <1>8 DEF MapInv, valid, LiveIn
<1>11. Switcher!Init
  BY <1>1, <1>2, <1>3, <1>4, <1>9, SameOperators DEF Switcher!Init, Settled, Fresh
<1> QED  BY <1>10, <1>11

-----------------------------------------------------------------------------
(***************************************************************************)
(* The theorem.                                                            *)
(***************************************************************************)

(* Every handler is a step of the abstract switcher, or none.              *)
LEMMA NextMapped ==
  ASSUME Inv, MapInv, [Next]_vars
  PROVE  [Switcher!Next]_Switcher!vars
<1>1. CASE BeginSession
  <2>1. up
    BY <1>1 DEF BeginSession
  <2> QED  BY <1>1, <2>1, BeginSessionOffers DEF Switcher!Next
<1>2. CASE Apply
  <2>1. up
    BY <1>2 DEF Apply
  <2> QED  BY <1>2, <2>1, ApplyPicksOrDismisses DEF Switcher!Next, PicksOrDismisses
<1>3. CASE Cancel
  <2>1. up
    BY <1>3 DEF Cancel
  <2> QED  BY <1>3, <2>1, CancelDismisses DEF Switcher!Next
<1>4. ASSUME NEW w \in Windows, OpenWindow(w) PROVE [Switcher!Next]_Switcher!vars
  <2>1. up
    BY <1>4 DEF OpenWindow
  <2> QED  BY <1>4, <2>1, OpenWindowAppears DEF Switcher!Next
<1>5. ASSUME NEW w \in Windows, FocusEvent(w) PROVE [Switcher!Next]_Switcher!vars
  <2>1. up
    BY <1>5 DEF FocusEvent
  <2> QED  BY <1>5, <2>1, FocusEventFocuses DEF Switcher!Next
<1>6. CASE FocusLost
  <2>1. up
    BY <1>6 DEF FocusLost
  <2> QED  BY <1>6, <2>1, FocusLostFocuses DEF Switcher!Next
<1>7. ASSUME NEW w \in Windows, WindowVanishes(w) PROVE [Switcher!Next]_Switcher!vars
  <2>1. /\ up /\ w \in valid /\ fate' = [fate EXCEPT ![w] = "vanished"]
        /\ up' = up /\ h' = h /\ snapshot' = snapshot /\ origin' = origin
        /\ focused' = IF focused = w THEN NoWindow ELSE focused
    BY <1>7 DEF WindowVanishes, session
  <2>2. valid' = valid \ {w}
    BY <2>1 DEF valid, LiveIn, Inv, EventsTypeOK
  <2> QED  BY <2>1, <2>2, DeathPerishes DEF Switcher!Next
<1>8. ASSUME NEW w \in Windows, WindowClosed(w) PROVE [Switcher!Next]_Switcher!vars
  <2>1. up
    BY <1>8 DEF WindowClosed
  <2> QED  BY <1>8, <2>1, WindowClosedPerishes DEF Switcher!Next
<1>9. CASE \E id \in JobIds : TimerFires(id)
  BY <1>9, TimerSettles DEF Switcher!Next
<1>10. CASE Unload
  <2>1. up
    BY <1>10 DEF Unload
  <2> QED  BY <1>10, <2>1, UnloadStops DEF Switcher!Next
<1>11. CASE \/ \E d \in Directions : Cycle(d)
            \/ \E i \in 0..Cardinality(Windows) : SelectIndex(i)
            \/ \E p \in Policies : ConfigReloaded(p)
            \/ UNCHANGED vars
  <2>1. /\ up' = up /\ h' = h /\ snapshot' = snapshot /\ origin' = origin
        /\ focused' = focused /\ valid' = valid
    BY <1>11 DEF Cycle, SelectIndex, ConfigReloaded, vars, session, valid
  <2> QED  BY <2>1, TrackerUnmoved, Unmoved
<1> QED
  BY <1>1, <1>2, <1>3, <1>4, <1>5, <1>6, <1>7, <1>8, <1>9, <1>10, <1>11 DEF Next

(* The controller, its tracker and its scheduler implement the abstract    *)
(* switcher: whatever is flushed, locked, pruned, clamped, retried or      *)
(* restored on the way, a user sees offers of live windows in order of     *)
(* use, and each ends with one of them focused or with none.               *)
THEOREM SwitcherImplemented == Spec => ImplementsAltTab
<1>1. Init => MapInv /\ Switcher!Init
  BY InitMapped
<1>2. Inv /\ MapInv /\ [Next]_vars => MapInv'
  BY NextKeepsMapInv
<1>3. Inv /\ MapInv /\ [Next]_vars => [Switcher!Next]_Switcher!vars
  BY NextMapped
<1> QED
  BY <1>1, <1>2, <1>3, Invariance, PTL DEF Spec, ImplementsAltTab, Switcher!Spec

=============================================================================
