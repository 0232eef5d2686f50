--------------------------- MODULE SwitcherProofs ---------------------------
(***************************************************************************)
(* What a session shows and what it focuses: the frozen snapshot and the   *)
(* focus discipline, for any set of windows, any policies and any bounds.  *)
(***************************************************************************)
EXTENDS SessionControllerProofs

-----------------------------------------------------------------------------
(***************************************************************************)
(* The frozen snapshot.  FrozenSnapshot alone is not inductive: a window   *)
(* the UI was shown that had not been opened yet could open, and would     *)
(* then be live and missing from the snapshot.                             *)
(***************************************************************************)
FrozenInv ==
  active => /\ snapshot = Keep(ui.list, Range(snapshot))
            /\ valid \cap Range(ui.list) \subseteq Range(snapshot)
            /\ \A w \in Range(ui.list) : fate[w] # "unborn"

(* A step that neither begins, prunes nor ends a session, and under which  *)
(* no window the UI was shown comes to life.                               *)
LEMMA SnapshotAloneKeepsFrozen ==
  ASSUME Inv, FrozenInv, active' => active, snapshot' = snapshot,
         ui'.list = ui.list, FateMoves(fate, fate')
  PROVE  FrozenInv'
<1>1. SUFFICES ASSUME active'
               PROVE  /\ snapshot' = Keep(ui'.list, Range(snapshot'))
                      /\ valid' \cap Range(ui'.list) \subseteq Range(snapshot')
                      /\ \A w \in Range(ui'.list) : fate'[w] # "unborn"
  BY DEF FrozenInv
<1>2. /\ snapshot = Keep(ui.list, Range(snapshot))
      /\ valid \cap Range(ui.list) \subseteq Range(snapshot)
      /\ \A w \in Range(ui.list) : fate[w] # "unborn"
  BY <1>1 DEF FrozenInv
<1>3. ui.list \in Seq(Windows)
  BY DEF Inv, SessionInv, SessionTypeOK
<1>4. \A w \in Range(ui.list) : w \in Windows
  BY <1>3 DEF Range
<1>5. \A w \in Range(ui.list) : fate'[w] # "unborn"
  BY <1>2, <1>4 DEF FateMoves
<1>6. valid' \cap Range(ui.list) \subseteq valid
  BY <1>2, <1>4 DEF FateMoves, valid, LiveIn
<1> QED  BY <1>2, <1>5, <1>6

(* A session starts on the list the UI is given.                           *)
LEMMA BeginSessionFreezes ==
  ASSUME Inv, BeginSession
  PROVE  FrozenInv'
<1> DEFINE f == FlushPending(h, valid)
           o == f.order
<1>1. up /\ ~active /\ fate' = fate
  BY DEF BeginSession
<1>2. o \in Seq(Windows) /\ IsInjective(o)
  BY <1>1, FlushedTracker
<1>3. PICK list \in CandidateLists(o) :
        \/ active' = active
        \/ /\ snapshot' = list
           /\ ui' = [ui EXCEPT !.shown = TRUE, !.list = list, !.sel = index']
  BY DEF BeginSession, StartSession, session
<1> HIDE DEF f, o
<1>4. list \in Seq(Windows) /\ Range(list) \subseteq valid
  BY <1>2, Candidates
<1>5. CASE active' = active
  BY <1>1, <1>5 DEF FrozenInv
<1>6. CASE /\ snapshot' = list
           /\ ui' = [ui EXCEPT !.shown = TRUE, !.list = list, !.sel = index']
  <2>1. ui \in [shown : BOOLEAN, list : Seq(Windows), sel : Nat, ends : Nat]
    BY DEF Inv, SessionInv, SessionTypeOK
  <2>2. ui'.list = list
    BY <1>6, <2>1
  <2>3. Keep(list, Range(list)) = list
    BY <1>4, KeepAll
  <2>4. \A w \in Range(list) : fate[w] = "live"
    BY <1>4 DEF valid, LiveIn
  <2> QED  BY <1>1, <1>6, <2>2, <2>3, <2>4 DEF FrozenInv
<1> QED  BY <1>3, <1>5, <1>6

(* A close event prunes what died, in the order the UI was shown.          *)
LEMMA WindowClosedKeepsFrozen ==
  ASSUME Inv, FrozenInv, NEW w \in Windows, WindowClosed(w)
  PROVE  FrozenInv'
<1> DEFINE V == valid \ {w}
           list == Keep(snapshot, V)
<1>1. /\ fate[w] = "live" /\ fate' = [fate EXCEPT ![w] = "closed"]
      /\ OnWindowInvalid(w, V)
  BY DEF WindowClosed, valid, LiveIn
<1>2. /\ fate \in [Windows -> Fates] /\ ui.list \in Seq(Windows)
      /\ snapshot \in Seq(Windows)
  BY DEF Inv, SessionInv, SessionTypeOK, EventsTypeOK
<1>3. FateMoves(fate, fate')
  BY <1>1, <1>2 DEF FateMoves
<1>4. valid' = V
  BY <1>1, <1>2 DEF valid, LiveIn
<1> HIDE DEF V
<1>5. Range(list) = Range(snapshot) \cap V
  BY <1>2, KeepFacts
<1>6. CASE UNCHANGED <<h, session, ui>>
  BY <1>3, <1>6, SnapshotAloneKeepsFrozen DEF session
<1>7. CASE EndSession("NoWindows", Unlocked)
  BY <1>7 DEF EndSession, FrozenInv
<1>8. CASE /\ active /\ snapshot' = list
           /\ UNCHANGED <<h, active, origin, sessionId, frozen, lastEnd, ui>>
  <2>1. /\ snapshot = Keep(ui.list, Range(snapshot))
        /\ valid \cap Range(ui.list) \subseteq Range(snapshot)
        /\ \A v \in Range(ui.list) : fate[v] # "unborn"
    BY <1>8 DEF FrozenInv
  <2> DEFINE shown == ui.list
             R == Range(snapshot)
  <2>2. Keep(Keep(shown, R), V) = Keep(shown, R \cap V)
    BY <1>2, KeepTwice
  <2>3. list = Keep(shown, Range(list))
    BY <1>5, <2>1, <2>2
  <2>4. V \cap Range(shown) \subseteq Range(list)
    <3>1. V \subseteq valid
      BY DEF V
    <3> QED  BY <1>5, <2>1, <3>1
  <2>5. \A v \in Range(shown) : v \in Windows
    BY <1>2 DEF Range
  <2>6. \A v \in Range(shown) : fate'[v] # "unborn"
    BY <1>3, <2>1, <2>5 DEF FateMoves
  <2> HIDE DEF list
  <2> QED  BY <1>4, <1>8, <2>3, <2>4, <2>6 DEF FrozenInv
<1> QED  BY <1>1, <1>6, <1>7, <1>8 DEF OnWindowInvalid

(* Apply and cancel end the session.                                       *)
LEMMA ApplyEnds ==
  ASSUME Apply \/ Cancel
  PROVE  ~active'
BY DEF Apply, ApplyNothingLeft, ApplyOnce, ApplyAgain, Conclude, CompleteApply,
       AbortApply, Cancel, Restore, EndSession

(* Every handler keeps the snapshot frozen.                                *)
LEMMA NextKeepsFrozen ==
  ASSUME Inv, FrozenInv, [Next]_vars
  PROVE  FrozenInv'
<1>1. ui \in [shown : BOOLEAN, list : Seq(Windows), sel : Nat, ends : Nat]
      /\ fate \in [Windows -> Fates]
  BY DEF Inv, SessionInv, SessionTypeOK, EventsTypeOK
<1>2. CASE BeginSession
  BY <1>2, BeginSessionFreezes
<1>3. CASE \/ \E d \in Directions : Cycle(d)
           \/ \E i \in 0..Cardinality(Windows) : SelectIndex(i)
  <2>1. /\ active' = active /\ snapshot' = snapshot /\ fate' = fate
        /\ ui' = [ui EXCEPT !.sel = index']
    BY <1>3 DEF Cycle, SelectIndex, Notify
  <2>2. ui'.list = ui.list
    BY <1>1, <2>1
  <2> QED  BY <2>1, <2>2, SnapshotAloneKeepsFrozen DEF FateMoves
<1>4. CASE Apply \/ Cancel
  BY <1>4, ApplyEnds DEF FrozenInv
<1>5. CASE \E w \in Windows : WindowClosed(w)
  BY <1>5, WindowClosedKeepsFrozen
<1>6. CASE \E w \in Windows : OpenWindow(w) \/ WindowVanishes(w)
  <2>1. UNCHANGED session /\ ui' = ui /\ FateMoves(fate, fate')
    BY <1>1, <1>6 DEF OpenWindow, WindowVanishes, FateMoves
  <2> QED  BY <2>1, SnapshotAloneKeepsFrozen DEF session
<1>7. CASE \/ \E w \in Windows : FocusEvent(w)
           \/ FocusLost
           \/ \E p \in Policies : ConfigReloaded(p)
           \/ \E id \in JobIds : TimerFires(id)
           \/ UNCHANGED vars
  <2>1. UNCHANGED session /\ ui' = ui /\ fate' = fate
    BY <1>7 DEF FocusEvent, FocusLost, ConfigReloaded, TimerFires, vars
  <2>2. FateMoves(fate, fate')
    BY <2>1 DEF FateMoves
  <2> QED  BY <2>1, <2>2, SnapshotAloneKeepsFrozen DEF session
<1>8. CASE Unload
  <2>1. CASE EndSession("PluginShutdown", Destroyed(Unlocked))
    BY <2>1 DEF EndSession, FrozenInv
  <2>2. CASE ~active /\ UNCHANGED session
    BY <2>2 DEF session, FrozenInv
  <2> QED  BY <1>8, <2>1, <2>2 DEF Unload
<1> QED  BY <1>2, <1>3, <1>4, <1>5, <1>6, <1>7, <1>8 DEF Next

(* The list a session works on is the list its UI was shown, in that order *)
(* and less windows that died: however the session went on, no scope       *)
(* token, newly opened window or reordered history gets into it, and no    *)
(* live window drops out of it.                                            *)
THEOREM SnapshotStaysFrozen == Spec => []FrozenSnapshot
<1>1. Init => FrozenInv
  BY DEF Init, FrozenInv
<1>2. Inv /\ FrozenInv /\ [Next]_vars => FrozenInv'
  BY NextKeepsFrozen
<1>3. FrozenInv => FrozenSnapshot
  BY DEF FrozenInv, FrozenSnapshot
<1> QED  BY <1>1, <1>2, <1>3, Invariance, PTL DEF Spec

-----------------------------------------------------------------------------
(***************************************************************************)
(* The focus discipline, one lemma per way a handler can end.              *)
(***************************************************************************)

(* What FocusDiscipline asks of one step.                                  *)
Disciplined ==
  LET wins == {calls'[k].win : k \in DOMAIN calls'}
      done == calls' # <<>> /\ Last(calls').result = "Applied"
  IN  /\ calls' # <<>> => active /\ ~active'
      /\ wins \subseteq valid
      /\ \A k \in DOMAIN calls' : calls'[k].result = "Applied" => k = Len(calls')
      /\ active /\ ~active' =>
           IF lastEnd' = "UserCancel"
             THEN wins \subseteq IF frozen.restore THEN {origin} ELSE {}
             ELSE /\ wins \subseteq Range(snapshot)
                  /\ done <=> lastEnd' = "Applied"
      /\ done => focused' = Last(calls').win

(* A step that requests no focus neither applies nor, with a session to    *)
(* end, pretends to have.                                                  *)
LEMMA NoRequests ==
  ASSUME calls' = <<>>, active /\ ~active' => lastEnd' # "Applied"
  PROVE  Disciplined
<1>1. DOMAIN <<>> = {}
  OBVIOUS
<1>2. {calls'[k].win : k \in DOMAIN calls'} = {}
  BY <1>1
<1> QED  BY <1>1, <1>2 DEF Disciplined

(* The log of an apply: live offered windows, and only the last request    *)
(* may have been Applied.                                                  *)
ApplyLog(log) ==
  /\ log # <<>>
  /\ \A k \in DOMAIN log : log[k].win \in valid /\ log[k].win \in Range(snapshot)
  /\ \A k \in DOMAIN log : log[k].result = "Applied" => k = Len(log)

(* The logs of one and of two requests.                                    *)
LEMMA OneRequest ==
  ASSUME NEW v \in valid \cap Range(snapshot), NEW r
  PROVE  /\ ApplyLog(<<Request(v, r)>>)
         /\ Last(<<Request(v, r)>>) = Request(v, r)
<1> DEFINE x == Request(v, r)
<1>1. x.win = v
  BY DEF Request
<1> HIDE DEF x
<1>2. ApplyLog(<<x>>) /\ Last(<<x>>) = x
  BY <1>1 DEF ApplyLog, Last
<1> QED  BY <1>2 DEF x

(* A first request that was not Applied may be followed by a second one.   *)
LEMMA TwoRequests ==
  ASSUME NEW v \in valid \cap Range(snapshot), NEW w \in valid \cap Range(snapshot),
         NEW q, NEW r, q # "Applied"
  PROVE  /\ ApplyLog(Append(<<Request(v, q)>>, Request(w, r)))
         /\ Last(Append(<<Request(v, q)>>, Request(w, r))) = Request(w, r)
<1> DEFINE y == Request(v, q)
           z == Request(w, r)
           a == Append(<<y>>, z)
<1>1. y.win = v /\ z.win = w /\ y.result = q
  BY DEF Request
<1> HIDE DEF y, z
<1>2. <<y>> \in Seq({y, z}) /\ Len(<<y>>) = 1
  OBVIOUS
<1>3. a \in Seq({y, z}) /\ Len(a) = 2 /\ a[1] = y /\ a[2] = z
  BY <1>2
<1> HIDE DEF a
<1>4. DOMAIN a = {1, 2} /\ a # <<>>
  BY <1>3
<1>5. ApplyLog(a) /\ Last(a) = z
  BY <1>1, <1>3, <1>4 DEF ApplyLog, Last
<1> QED  BY <1>5 DEF a, y, z

(* The end of an apply after at least one request: Applied with the window *)
(* of the last request focused, or an end that focused nothing.            *)
LEMMA ConcludeDisciplined ==
  ASSUME active, NEW w, NEW result, NEW log, Conclude(w, result, log),
         ApplyLog(log), Last(log) = Request(w, result)
  PROVE  Disciplined
<1>1. Last(log).result = result /\ Last(log).win = w
  BY DEF Request
<1>2. calls' = log /\ ~active'
  BY DEF Conclude, CompleteApply, AbortApply, EndSession
<1>3. /\ result = "Applied" => lastEnd' = "Applied" /\ focused' = w
      /\ result # "Applied" => lastEnd' # "Applied"
      /\ lastEnd' # "UserCancel"
  BY DEF Conclude, CompleteApply, AbortApply, EndSession
<1>4. {log[k].win : k \in DOMAIN log} \subseteq valid \cap Range(snapshot)
  BY DEF ApplyLog
<1> QED  BY <1>1, <1>2, <1>3, <1>4 DEF Disciplined, ApplyLog

(* The apply that loses its last window to a second prune.                 *)
LEMMA AbortDisciplined ==
  ASSUME active, NEW log, AbortApply("NoWindows", log), ApplyLog(log),
         Last(log).result # "Applied"
  PROVE  Disciplined
<1>1. calls' = log /\ ~active' /\ lastEnd' = "NoWindows"
  BY DEF AbortApply, EndSession
<1>2. {log[k].win : k \in DOMAIN log} \subseteq valid \cap Range(snapshot)
  BY DEF ApplyLog
<1> QED  BY <1>1, <1>2 DEF Disciplined, ApplyLog

(* Apply asks for windows its own prune has left.                          *)
LEMMA ApplyDisciplined ==
  ASSUME Inv, Apply
  PROVE  Disciplined
<1>1. active /\ snapshot \in Seq(Windows) /\ index \in Nat
  BY DEF Apply, Inv, SessionInv, SessionTypeOK
<1> DEFINE s == Survivors
           O == valid \cap Range(snapshot)
<1>2. s \in Seq(Windows) /\ Range(s) = O
  BY <1>1, KeepFacts DEF Survivors
<1> HIDE DEF s
<1>3. CASE ApplyNothingLeft
  <2>1. calls' = <<>> /\ lastEnd' = "NoWindows"
    BY <1>3 DEF ApplyNothingLeft, AbortApply, EndSession
  <2> QED  BY <2>1, NoRequests
<1>4. CASE \E result \in FocusResults : ApplyOnce(result)
  <2>1. PICK result \in FocusResults : ApplyOnce(result)
    BY <1>4
  <2> DEFINE w == Target(s, index)
             log == <<Request(w, result)>>
  <2>2. s # <<>> /\ Conclude(w, result, log)
    BY <2>1 DEF ApplyOnce, s
  <2>3. w \in O
    BY <1>1, <1>2, <2>2, TargetInList
  <2>5. ApplyLog(log) /\ Last(log) = Request(w, result)
    <3> HIDE DEF w
    <3> QED  BY <2>3, OneRequest
  <2> HIDE DEF w, log
  <2> QED  BY <1>1, <2>2, <2>5, ConcludeDisciplined
<1>5. CASE \E dies \in BOOLEAN, result \in FocusResults : ApplyAgain(dies, result)
  <2>1. PICK dies \in BOOLEAN, result \in FocusResults : ApplyAgain(dies, result)
    BY <1>5
  <2> DEFINE first  == Target(s, index)
             log    == <<Request(first, "InvalidTarget")>>
             after  == IF dies THEN [fate EXCEPT ![first] = "vanished"] ELSE fate
             list   == Keep(s, LiveIn(after))
             second == Target(list, Clamp(index, Len(s)))
             log2   == Append(log, Request(second, result))
  <2>2. /\ s # <<>>
        /\ \/ list = <<>> /\ AbortApply("NoWindows", log)
           \/ list # <<>> /\ Conclude(second, result, log2)
    BY <2>1 DEF ApplyAgain, s
  <2>3. first \in O
    BY <1>1, <1>2, <2>2, TargetInList
  <2>4. "InvalidTarget" # "Applied"
    OBVIOUS
  <2>5. ApplyLog(log) /\ Last(log) = Request(first, "InvalidTarget")
    <3> HIDE DEF first
    <3> QED  BY <2>3, OneRequest
  <2>6. list \in Seq(Windows) /\ Range(list) \subseteq O
    BY <1>2, KeepFacts
  <2>7. Clamp(index, Len(s)) \in Nat
    BY <1>1, <1>2 DEF Clamp
  <2>8. list # <<>> => second \in O
    BY <2>6, <2>7, TargetInList
  <2>9. list # <<>> => ApplyLog(log2) /\ Last(log2) = Request(second, result)
    <3> HIDE DEF first, second
    <3> QED  BY <2>3, <2>4, <2>8, TwoRequests
  <2>10. Last(log).result # "Applied"
    BY <2>4, <2>5 DEF Request
  <2> HIDE DEF first, log, after, list, second, log2
  <2>11. CASE list = <<>> /\ AbortApply("NoWindows", log)
    BY <1>1, <2>5, <2>10, <2>11, AbortDisciplined
  <2>12. CASE list # <<>> /\ Conclude(second, result, log2)
    BY <1>1, <2>9, <2>12, ConcludeDisciplined
  <2> QED  BY <2>2, <2>11, <2>12
<1> QED  BY <1>3, <1>4, <1>5 DEF Apply

(* Cancel asks for the live origin, if the frozen policy restores it.      *)
LEMMA CancelDisciplined ==
  ASSUME Inv, Cancel
  PROVE  Disciplined
<1>1. active
  BY DEF Cancel
<1>2. CASE AbortApply("UserCancel", <<>>)
  <2>1. calls' = <<>> /\ lastEnd' = "UserCancel"
    BY <1>2 DEF AbortApply, EndSession
  <2> QED  BY <2>1, NoRequests
<1>3. CASE /\ frozen.restore /\ origin \in valid
           /\ \E result \in FocusResults, echo \in BOOLEAN : Restore(result, echo)
  <2>1. PICK result \in FocusResults, echo \in BOOLEAN : Restore(result, echo)
    BY <1>3
  <2> DEFINE x == Request(origin, result)
  <2>2. /\ calls' = <<x>> /\ ~active' /\ lastEnd' = "UserCancel"
        /\ result = "Applied" => focused' = origin
    BY <2>1 DEF Restore, EndSession
  <2>3. x.win = origin /\ x.result = result
    BY DEF Request
  <2> HIDE DEF x
  <2>4. DOMAIN <<x>> = {1} /\ Len(<<x>>) = 1 /\ <<x>>[1] = x /\ Last(<<x>>) = x
    BY DEF Last
  <2>5. {<<x>>[k].win : k \in DOMAIN <<x>>} = {origin}
    BY <2>3, <2>4
  <2> QED  BY <1>1, <1>3, <2>2, <2>3, <2>4, <2>5 DEF Disciplined
<1> QED  BY <1>2, <1>3 DEF Cancel

(* Focus is asked for only by the step that ends a session: by apply, for  *)
(* live windows it offered and, until one request is granted, at most      *)
(* twice; by cancel, for the live origin if the policy frozen at session   *)
(* start restores it.  A session ends Applied exactly when the last        *)
(* request was granted, with that window focused.                          *)
THEOREM FocusIsDisciplined == Spec => FocusDiscipline
<1>1. ASSUME Inv, Next PROVE Disciplined
  <2>1. CASE Apply
    BY <1>1, <2>1, ApplyDisciplined
  <2>2. CASE Cancel
    BY <1>1, <2>2, CancelDisciplined
  <2>3. CASE BeginSession
    BY <2>3, NoRequests DEF BeginSession
  <2>4. CASE \E w \in Windows : WindowClosed(w)
    BY <2>4, NoRequests DEF WindowClosed, OnWindowInvalid, EndSession, session
  <2>5. CASE Unload
    BY <2>5, NoRequests DEF Unload, EndSession, session
  <2>6. CASE calls' = <<>> /\ active' = active
    BY <2>6, NoRequests
  <2> QED
    BY <1>1, <2>1, <2>2, <2>3, <2>4, <2>5, <2>6
       DEF Next, session, Cycle, SelectIndex, OpenWindow, FocusEvent, FocusLost,
           WindowVanishes, ConfigReloaded, TimerFires
<1>2. Inv /\ [Next]_vars => [Disciplined]_vars
  BY <1>1
<1> QED  BY <1>2, Invariance, PTL DEF Spec, FocusDiscipline, Disciplined

=============================================================================
