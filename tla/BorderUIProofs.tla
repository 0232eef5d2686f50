--------------------------- MODULE BorderUIProofs ---------------------------
(***************************************************************************)
(* What a session's border does to the windows and the monitors, for any   *)
(* number of windows, workspaces and sessions, and the proofs.             *)
(***************************************************************************)
EXTENDS BorderUI, FiniteSetTheorems, TLAPS

-----------------------------------------------------------------------------
(***************************************************************************)
(* The operators of the model.                                             *)
(***************************************************************************)

(* The values of a property are what they should be, and one of ours is    *)
(* never taken for a window's own.                                         *)
LEMMA ValueFacts ==
  /\ \A g \in 0..MaxGeneration : Own(g) \in Values
  /\ {Lit, Dark, Sized, Dimmed, Unset} \subseteq Values
  /\ \A g : Own(g) \notin {Lit, Dark, Sized, Dimmed, Unset}
  /\ Dimmed \notin {Lit, Dark, Sized}
<1>1. /\ \A g \in 0..MaxGeneration : Own(g) \in Values
      /\ {Lit, Dark, Sized, Dimmed, Unset} \subseteq Values
  BY DEF Values
<1>2. \A g : Own(g) \notin {Lit, Dark, Sized, Dimmed, Unset}
  BY DEF Own, Lit, Dark, Sized, Dimmed, Unset
<1>3. Dimmed \notin {Lit, Dark, Sized}
  BY DEF Dimmed, Lit, Dark, Sized
<1> QED  BY <1>1, <1>2, <1>3

(* Which slots there are, and what overrides each.                         *)
Marks(s) == IF s \in Colours THEN {Lit, Dark} ELSE IF s \in Alphas THEN {Dimmed} ELSE {Sized}

LEMMA SlotFacts ==
  /\ \A s \in Slots : s \in Colours \/ s \in Alphas \/ s = "Size"
  /\ Colours \subseteq Slots /\ Alphas \subseteq Slots /\ "Size" \in Slots
  /\ \A s \in Colours : s \notin Alphas /\ s # "Size"
  /\ "Size" \notin Alphas /\ "view" \notin Slots
  /\ \A s \in Slots : Override[s] \in Marks(s) /\ Marks(s) \subseteq Values
<1>1. /\ \A s \in Slots : s \in Colours \/ s \in Alphas \/ s = "Size"
      /\ Colours \subseteq Slots /\ Alphas \subseteq Slots /\ "Size" \in Slots
      /\ \A s \in Colours : s \notin Alphas /\ s # "Size"
      /\ "Size" \notin Alphas /\ "view" \notin Slots
  BY DEF Slots, Colours, Alphas
<1>2. ASSUME NEW s \in Slots
      PROVE  Override[s] \in Marks(s) /\ Marks(s) \subseteq Values
  <2>1. Override[s] = IF s \in Colours THEN Lit ELSE IF s \in Alphas THEN Dimmed ELSE Sized
    BY <1>1 DEF Override
  <2> QED  BY <2>1, ValueFacts DEF Marks
<1> QED  BY <1>1, <1>2

(* Writing sets the slots it names and leaves the others.                  *)
LEMMA WriteFacts ==
  ASSUME NEW p \in [Addresses -> [Slots -> Values]], NEW slots, NEW value,
         \A c \in slots : c \in Addresses \X Slots => value[c] \in Values
  PROVE  /\ Write(p, slots, value) \in [Addresses -> [Slots -> Values]]
         /\ \A a \in Addresses, s \in Slots :
              Write(p, slots, value)[a][s] =
                IF <<a, s>> \in slots THEN value[<<a, s>>] ELSE p[a][s]
<1>1. \A a \in Addresses, s \in Slots :
        (IF <<a, s>> \in slots THEN value[<<a, s>>] ELSE p[a][s]) \in Values
  OBVIOUS
<1> QED  BY <1>1 DEF Write

(* A window that is there is one of the windows there can be.              *)
LEMMA ValidFacts ==
  ASSUME up \subseteq Addresses, gen \in [Addresses -> 1..MaxGeneration]
  PROVE  /\ valid \subseteq Refs /\ NoRef \notin Refs /\ IsFiniteSet(valid)
         /\ \A r \in Refs : r \in valid <=> r.address \in up /\ r.generation = gen[r.address]
<1>1. valid \subseteq Refs /\ NoRef \notin Refs
  BY BorderAssumption DEF valid, Refs, NoRef
<1>2. \A r \in Refs : r \in valid <=> r.address \in up /\ r.generation = gen[r.address]
  BY DEF valid, Refs
<1>3. IsFiniteSet(up)
  BY FS_Subset, BorderAssumption
<1>4. IsFiniteSet(valid)
  <2> DEFINE f == [a \in up |-> [address |-> a, generation |-> gen[a]]]
  <2>1. f \in Surjection(up, valid)
    BY DEF valid, Surjection
  <2> QED  BY <1>3, <2>1, FS_Surjection
<1> QED  BY <1>1, <1>2, <1>4

(* Windows at addresses of their own.                                      *)
Apart(list) == \A j, k \in DOMAIN list : list[j].address = list[k].address => j = k

(* A session offers at least one window, all of them valid, each once.     *)
LEMMA SnapshotFacts ==
  ASSUME up \subseteq Addresses, gen \in [Addresses -> 1..MaxGeneration],
         NEW list \in Snapshots
  PROVE  /\ list \in Seq(Refs) /\ list # <<>> /\ Len(list) >= 1 /\ Apart(list)
         /\ \A k \in DOMAIN list : list[k] \in valid
<1>1. PICK S \in (SUBSET valid) \ {{}} : list \in SetToSeqs(S)
  BY DEF Snapshots
<1>2. IsFiniteSet(S) /\ S \subseteq Refs
  BY <1>1, ValidFacts, FS_Subset
<1>3. Cardinality(S) \in Nat /\ Cardinality(S) # 0
  <2>1. S # {}
    BY <1>1
  <2>2. Cardinality(S) \in Nat
    BY <1>2, FS_CardinalityType
  <2>3. Cardinality(S) = 0 <=> S = {}
    BY <1>2, FS_EmptySet
  <2> QED  BY <2>1, <2>2, <2>3
<1>4. /\ list \in [1..Cardinality(S) -> S]
      /\ \A j, k \in 1..Cardinality(S) : j # k => list[j] # list[k]
  BY <1>1 DEF SetToSeqs
<1>5. list \in Seq(Refs) /\ Len(list) = Cardinality(S)
  BY <1>2, <1>3, <1>4
<1>6. \A k \in DOMAIN list : list[k] \in valid
  BY <1>1, <1>4
<1>7. Apart(list)
  <2>1. \A q, r \in valid : q.address = r.address => q = r
    BY DEF valid
  <2> QED  BY <1>4, <1>6, <2>1 DEF Apart
<1> QED  BY <1>3, <1>5, <1>6, <1>7

(* Recording an elevation keeps what was recorded first.                   *)
LEMMA TouchFacts ==
  ASSUME NEW v \in Views, NEW touched, NEW ws
  PROVE  /\ Elevates(v, ws) => MonitorOf[ws] \in Monitors /\ ws \in Workspaces
         /\ Elevated(v, ws) \in Views
         /\ \A m \in Monitors :
              Elevated(v, ws)[m] =
                IF Elevates(v, ws) /\ m = MonitorOf[ws] THEN ws ELSE v[m]
         /\ DOMAIN Touch(touched, v, ws) =
              DOMAIN touched \cup IF Elevates(v, ws) THEN {MonitorOf[ws]} ELSE {}
         /\ \A m \in DOMAIN Touch(touched, v, ws) :
              Touch(touched, v, ws)[m] = IF m \in DOMAIN touched THEN touched[m] ELSE v[m]
<1>1. Elevates(v, ws) => MonitorOf[ws] \in Monitors /\ ws \in Workspaces
  BY NavigatorAssumption DEF Elevates
<1>2. /\ Elevated(v, ws) \in Views
      /\ \A m \in Monitors :
           Elevated(v, ws)[m] = IF Elevates(v, ws) /\ m = MonitorOf[ws] THEN ws ELSE v[m]
  BY <1>1 DEF Elevated, Views
<1>3. /\ DOMAIN Touch(touched, v, ws) =
           DOMAIN touched \cup IF Elevates(v, ws) THEN {MonitorOf[ws]} ELSE {}
      /\ \A m \in DOMAIN Touch(touched, v, ws) :
           Touch(touched, v, ws)[m] = IF m \in DOMAIN touched THEN touched[m] ELSE v[m]
  BY DEF Touch
<1> QED  BY <1>1, <1>2, <1>3

-----------------------------------------------------------------------------
(***************************************************************************)
(* Types.                                                                  *)
(***************************************************************************)

TouchesTyped(t) ==
  /\ DOMAIN t \subseteq Monitors
  /\ \A m \in DOMAIN t : t[m] \in Workspaces \cup {Invalid}

LEMMA TouchTypes ==
  ASSUME NEW v \in Views, NEW touched, TouchesTyped(touched), NEW ws
  PROVE  TouchesTyped(Touch(touched, v, ws))
<1> DEFINE t == Touch(touched, v, ws)
<1>1. DOMAIN t \subseteq DOMAIN touched \cup Monitors
  BY NavigatorAssumption DEF Touch, Elevates
<1>2. \A m \in DOMAIN t : t[m] = IF m \in DOMAIN touched THEN touched[m] ELSE v[m]
  BY DEF Touch
<1>3. \A m \in Monitors : v[m] \in Workspaces \cup {Invalid}
  BY DEF Views
<1> HIDE DEF t
<1>4. TouchesTyped(t)
  BY <1>1, <1>2, <1>3 DEF TouchesTyped
<1> QED  BY <1>4 DEF t

(* The part of the state that a highlight sets.                            *)
HighlightTyped ==
  /\ props \in [Addresses -> [Slots -> Values]] /\ view \in Views
  /\ head \in Refs \cup {NoRef} /\ dark \in BOOLEAN /\ armed \in BOOLEAN
  /\ DOMAIN captured \subseteq Addresses \X Slots
  /\ \A c \in DOMAIN captured : captured[c] \in Values
  /\ TouchesTyped(touches)

(* What a restore writes back is typed, and it changes what it writes.     *)
LEMMA RestoredFacts ==
  ASSUME TypeOK, NEW bad
  PROVE  /\ Restored(bad) \in [Addresses -> [Slots -> Values]]
         /\ \A a \in Addresses, s \in Slots :
              Restored(bad)[a][s] =
                IF <<a, s>> \in WrittenBack(bad) THEN captured[<<a, s>>] ELSE props[a][s]
<1>1. props \in [Addresses -> [Slots -> Values]]
  BY DEF TypeOK
<1>2. \A c \in WrittenBack(bad) : captured[c] \in Values
  BY DEF TypeOK, WrittenBack
<1> QED  BY <1>1, <1>2, WriteFacts DEF Restored

(* What a highlight overrides belongs to windows of the snapshot.          *)
LEMMA OverriddenFacts ==
  ASSUME up \subseteq Addresses, NEW list \in Seq(Refs), NEW i \in DOMAIN list,
         NEW conf, NEW bad, NEW c \in Overridden(list, i, conf, bad)
  PROVE  /\ c[1] \in up /\ c[2] \in Slots /\ c = <<c[1], c[2]>>
         /\ \/ /\ c[2] \in Colours \cup {"Size"}
               /\ c[1] = list[i].address
            \/ /\ c[2] \in Alphas /\ conf.style = "dim"
               /\ \E k \in DOMAIN list \ {i} : /\ list[k] \in valid /\ c[1] = list[k].address
                                               /\ Readable(bad, c[1], Alphas)
<1>1. list[i] \in Refs /\ list[i].address \in Addresses
  <2>1. list[i] \in Refs
    OBVIOUS
  <2> QED  BY <2>1 DEF Refs
<1>2. c[1] \in up
  BY DEF Overridden, Works
<1>3. \/ c \in {list[i].address} \X (Colours \cup {"Size"})
      \/ conf.style = "dim" /\ c \in Ring(list, i, bad) \X Alphas
  BY DEF Overridden
<1>4. CASE c \in {list[i].address} \X (Colours \cup {"Size"})
  BY <1>2, <1>4, SlotFacts
<1>5. CASE conf.style = "dim" /\ c \in Ring(list, i, bad) \X Alphas
  <2>1. c[1] \in Ring(list, i, bad) /\ c[2] \in Alphas /\ c = <<c[1], c[2]>>
    BY <1>5
  <2>2. \E k \in DOMAIN list \ {i} : /\ list[k] \in valid /\ c[1] = list[k].address
                                     /\ Readable(bad, c[1], Alphas)
    BY <2>1 DEF Ring
  <2> QED  BY <1>2, <1>5, <2>1, <2>2, SlotFacts
<1> QED  BY <1>3, <1>4, <1>5

LEMMA HighlightTypes ==
  ASSUME TypeOK, NEW list \in Seq(Refs), NEW i \in DOMAIN list, NEW conf, NEW bad,
         NEW p \in [Addresses -> [Slots -> Values]], NEW touched, TouchesTyped(touched),
         Highlight(list, i, conf, p, bad, touched)
  PROVE  HighlightTyped'
<1>1. CASE Light(list, i, conf, p, bad, touched)
  <2> DEFINE slots == Overridden(list, i, conf, bad)
             home  == HomeOf[list[i].address]
  <2>1. up \subseteq Addresses /\ view \in Views
    BY DEF TypeOK
  <2>2. \A c \in slots : c \in Addresses \X Slots
    BY <2>1, OverriddenFacts
  <2>3. \A c \in slots : Prior(p, bad, c) \in Values
    BY <2>2, ValueFacts DEF Prior
  <2>4. /\ captured' = [c \in slots |-> Prior(p, bad, c)]
        /\ props' = Write(p, slots, [c \in slots |-> Override[c[2]]])
        /\ head' = list[i]
        /\ dark' = FALSE /\ armed' = (conf.style = "pulse" /\ <<"schedule">> \notin bad)
        /\ touches' = IF conf.follows THEN Touch(touched, view, home) ELSE touched
        /\ view' = IF conf.follows /\ <<"elevate">> \notin bad
                     THEN Elevated(view, home) ELSE view
    BY <1>1 DEF Light, StartPulse
  <2>5. \A c \in slots : [b \in slots |-> Override[b[2]]][c] \in Values
    BY <2>2, SlotFacts
  <2>6. props' \in [Addresses -> [Slots -> Values]]
    BY <2>4, <2>5, WriteFacts
  <2>7. TouchesTyped(touches')
    BY <2>1, <2>4, TouchTypes
  <2>8. view' \in Views
    BY <2>1, <2>4, TouchFacts
  <2>9. DOMAIN captured' = slots /\ \A c \in slots : captured'[c] \in Values
    BY <2>3, <2>4
  <2>10. head' \in Refs
    BY <2>4
  <2>11. dark' \in BOOLEAN /\ armed' \in BOOLEAN
    BY <2>4
  <2> HIDE DEF slots, home
  <2>12. DOMAIN captured' \subseteq Addresses \X Slots
    BY <2>2, <2>9
  <2>13. \A c \in DOMAIN captured' : captured'[c] \in Values
    BY <2>9
  <2> QED  BY <2>6, <2>7, <2>8, <2>10, <2>11, <2>12, <2>13 DEF HighlightTyped
<1>2. CASE LeaveDark(p, touched)
  <2>1. TouchesTyped(touches') /\ DOMAIN captured' = {}
    BY <1>2 DEF LeaveDark, NoCaptures
  <2> QED  BY <1>2, <2>1 DEF LeaveDark, CancelPulse, TypeOK, HighlightTyped
<1> QED  BY <1>1, <1>2 DEF Highlight

(* The part of the state that a call of the controller sets.               *)
BackendTyped ==
  /\ HighlightTyped
  /\ backend \in {"none", "border"} /\ cfg \in Configs /\ degraded \in BOOLEAN
  /\ failures \in 0..MaxFailures
  /\ forgotten \subseteq (Addresses \X Slots) \cup {LostView}
  /\ strayed \subseteq Addresses \X Slots

(* What a step forgets and strays is about overrides.                      *)
LEMMA ExcusesTyped ==
  ASSUME TypeOK, NEW bad
  PROVE  Forgets(bad) \subseteq Addresses \X Slots /\ Strays(bad) \subseteq Addresses \X Slots
BY DEF TypeOK, Forgets, Strays, WrittenBack

(* A step fails only while failures are left.                              *)
LEMMA CountTypes ==
  ASSUME failures \in 0..MaxFailures, NEW kinds, NEW bad \in Failures(kinds), Count(bad)
  PROVE  failures' \in 0..MaxFailures
<1>1. failures = MaxFailures => bad = {}
  BY DEF Failures
<1>2. MaxFailures \in Nat
  BY BorderAssumption
<1> QED  BY <1>1, <1>2 DEF Count

LEMMA InitTypes == Init => TypeOK
<1> SUFFICES ASSUME Init PROVE TypeOK
  OBVIOUS
<1>1. up \subseteq Addresses /\ gen \in [Addresses -> 1..MaxGeneration]
  BY BorderAssumption DEF Init
<1>2. props \in [Addresses -> [Slots -> Values]]
  <2>1. Own(1) \in Values
    BY ValueFacts, BorderAssumption
  <2> QED  BY <2>1 DEF Init
<1>3. view \in Views /\ startView \in Views
  BY DEF Init
<1>4. cfg \in Configs
  BY BorderAssumption DEF Init, NoConfig
<1>5. snapshot \in Seq(Refs) /\ Len(snapshot) = 0 /\ index = 0 /\ snapshot = <<>>
  BY DEF Init
<1>6. DOMAIN captured = {} /\ DOMAIN touches = {}
  BY DEF Init, NoCaptures, NoTouches
<1>7. 0 \in 0..MaxSessions /\ 0 \in 0..MaxFailures /\ 0 \in 0..0
  BY BorderAssumption
<1>8. index \in 0..Len(snapshot) /\ (index = 0 <=> snapshot = <<>>)
  BY <1>5, <1>7
<1>9. /\ backend = "none" /\ degraded = FALSE /\ head = NoRef /\ dark = FALSE
      /\ armed = FALSE /\ lastEnd = "Applied" /\ sessions = 0 /\ failures = 0
      /\ forgotten = {} /\ strayed = {}
  BY DEF Init
<1> QED  BY <1>1, <1>2, <1>3, <1>4, <1>5, <1>6, <1>7, <1>8, <1>9 DEF TypeOK

LEMMA OnSessionStartTypes == TypeOK /\ OnSessionStart => TypeOK'
<1> SUFFICES ASSUME TypeOK, OnSessionStart PROVE TypeOK'
  OBVIOUS
<1>0. PICK list \in Snapshots : \E i \in DOMAIN list :
        /\ snapshot' = list /\ index' = i
        /\ \/ StartWithoutBorder
           \/ \E conf \in Configs,
                 bad \in Failures({"probe", "get", "apply", "schedule", "elevate"}) :
                StartWithBorder(list, i, conf, bad) /\ Count(bad)
  BY DEF OnSessionStart
<1>1. PICK i \in DOMAIN list :
        /\ snapshot' = list /\ index' = i
        /\ \/ StartWithoutBorder
           \/ \E conf \in Configs,
                 bad \in Failures({"probe", "get", "apply", "schedule", "elevate"}) :
                StartWithBorder(list, i, conf, bad) /\ Count(bad)
  BY <1>0
<1>2. /\ up \subseteq Addresses /\ gen \in [Addresses -> 1..MaxGeneration]
      /\ failures \in 0..MaxFailures /\ props \in [Addresses -> [Slots -> Values]]
  BY DEF TypeOK
<1>3. list \in Seq(Refs) /\ list # <<>> /\ Len(list) >= 1
  BY <1>2, SnapshotFacts
<1>4. /\ snapshot' \in Seq(Refs) /\ index' \in 0..Len(snapshot')
      /\ (index' = 0 <=> snapshot' = <<>>)
  BY <1>1, <1>3
<1>5. BackendTyped'
  <2>0. /\ forgotten' \subseteq (Addresses \X Slots) \cup {LostView}
        /\ strayed' \subseteq Addresses \X Slots
    BY DEF OnSessionStart, TypeOK
  <2>1. CASE StartWithoutBorder
    BY <2>0, <2>1 DEF StartWithoutBorder, TypeOK, HighlightTyped, TouchesTyped, BackendTyped
  <2>2. ASSUME NEW conf \in Configs,
               NEW bad \in Failures({"probe", "get", "apply", "schedule", "elevate"}),
               StartWithBorder(list, i, conf, bad), Count(bad)
        PROVE  BackendTyped'
    <3>1. TouchesTyped(NoTouches)
      BY DEF TouchesTyped, NoTouches
    <3>2. HighlightTyped'
      BY <1>2, <1>3, <2>2, <3>1, HighlightTypes DEF StartWithBorder
    <3>3. failures' \in 0..MaxFailures
      BY <1>2, <2>2, CountTypes
    <3>4. degraded' \in BOOLEAN
      BY <2>2 DEF StartWithBorder
    <3> QED  BY <2>0, <2>2, <3>2, <3>3, <3>4 DEF StartWithBorder, BackendTyped
  <2> QED  BY <1>1, <2>1, <2>2
<1>6. sessions' \in 0..MaxSessions
  BY BorderAssumption DEF OnSessionStart, TypeOK
<1> QED
  BY <1>4, <1>5, <1>6
  DEF OnSessionStart, TypeOK, BackendTyped, HighlightTyped, TouchesTyped, windows

LEMMA OnSelectionChangedTypes == TypeOK /\ OnSelectionChanged => TypeOK'
<1> SUFFICES ASSUME TypeOK, OnSelectionChanged PROVE TypeOK'
  OBVIOUS
<1>1. PICK i \in DOMAIN snapshot :
        /\ index' = i
        /\ \/ /\ backend = "none"
              /\ UNCHANGED <<props, view, head, captured, dark, armed, touches, failures, ghosts>>
           \/ /\ backend = "border"
              /\ \E bad \in Failures({"restore", "get", "apply", "schedule", "elevate"}) :
                   MoveHighlight(i, bad) /\ Count(bad)
  BY DEF OnSelectionChanged
<1>2. snapshot \in Seq(Refs) /\ failures \in 0..MaxFailures /\ TouchesTyped(touches)
  BY DEF TypeOK, TouchesTyped
<1>3. /\ snapshot' = snapshot /\ index' \in 0..Len(snapshot')
      /\ (index' = 0 <=> snapshot' = <<>>)
  BY <1>1, <1>2 DEF OnSelectionChanged
<1>4. BackendTyped'
  <2>0. UNCHANGED <<backend, cfg, degraded>>
    BY DEF OnSelectionChanged
  <2>1. CASE UNCHANGED <<props, view, head, captured, dark, armed, touches, failures, ghosts>>
    BY <2>0, <2>1 DEF TypeOK, HighlightTyped, TouchesTyped, BackendTyped, ghosts
  <2>2. ASSUME NEW bad \in Failures({"restore", "get", "apply", "schedule", "elevate"}),
               MoveHighlight(i, bad), Count(bad)
        PROVE  BackendTyped'
    <3>1. HighlightTyped'
      BY <1>2, <2>2, RestoredFacts, HighlightTypes DEF MoveHighlight
    <3>2. failures' \in 0..MaxFailures
      BY <1>2, <2>2, CountTypes
    <3>3. /\ forgotten' \subseteq (Addresses \X Slots) \cup {LostView}
          /\ strayed' \subseteq Addresses \X Slots
      BY <2>2, ExcusesTyped DEF MoveHighlight, TypeOK
    <3> QED  BY <2>0, <3>1, <3>2, <3>3 DEF TypeOK, BackendTyped
  <2> QED  BY <1>1, <2>1, <2>2
<1> QED
  BY <1>3, <1>4
  DEF OnSelectionChanged, TypeOK, BackendTyped, HighlightTyped, TouchesTyped, windows

LEMMA OnSessionEndTypes == TypeOK /\ OnSessionEnd => TypeOK'
<1> SUFFICES ASSUME TypeOK, OnSessionEnd PROVE TypeOK'
  OBVIOUS
<1>1. PICK reason \in {"Applied", "Cancelled"} :
        /\ lastEnd' = reason
        /\ \/ UNCHANGED <<props, view, head, captured, dark, armed, touches, failures, ghosts>>
           \/ \E bad \in Failures({"restore", "elevate"}) :
                ClearHighlight(reason, bad) /\ Count(bad)
  BY DEF OnSessionEnd
<1>2. BackendTyped'
  <2>0. backend' \in {"none", "border"} /\ cfg' \in Configs /\ degraded' \in BOOLEAN
    BY BorderAssumption DEF OnSessionEnd, NoConfig
  <2>1. CASE UNCHANGED <<props, view, head, captured, dark, armed, touches, failures, ghosts>>
    BY <2>0, <2>1 DEF TypeOK, HighlightTyped, TouchesTyped, BackendTyped, ghosts
  <2>2. ASSUME NEW bad \in Failures({"restore", "elevate"}),
               ClearHighlight(reason, bad), Count(bad)
        PROVE  BackendTyped'
    <3>1. failures \in 0..MaxFailures /\ view \in Views /\ TouchesTyped(touches)
      BY DEF TypeOK, TouchesTyped
    <3>2. failures' \in 0..MaxFailures
      BY <2>2, <3>1, CountTypes
    <3>3. AtEnd(touches, view, reason) \in Views
      BY <3>1 DEF AtEnd, Restorable, Views, TouchesTyped
    <3>4. view' \in Views /\ TouchesTyped(touches')
      BY <2>2, <3>1, <3>3 DEF ClearHighlight, NoTouches, TouchesTyped
    <3>5. DOMAIN captured' = {} /\ head' = NoRef /\ dark' = FALSE /\ armed' = FALSE
      BY <2>2 DEF ClearHighlight, NoCaptures, CancelPulse
    <3>6. props' \in [Addresses -> [Slots -> Values]]
      BY <2>2, RestoredFacts DEF ClearHighlight
    <3>7. HighlightTyped'
      BY <3>4, <3>5, <3>6 DEF HighlightTyped
    <3>8. /\ forgotten' \subseteq (Addresses \X Slots) \cup {LostView}
          /\ strayed' \subseteq Addresses \X Slots
      BY <2>2, ExcusesTyped DEF ClearHighlight, TypeOK
    <3> QED  BY <2>0, <3>2, <3>7, <3>8 DEF BackendTyped
  <2> QED  BY <1>1, <2>1, <2>2
<1>3. snapshot' \in Seq(Refs) /\ index' = 0 /\ snapshot' = <<>>
  BY DEF OnSessionEnd
<1>4. index' \in 0..Len(snapshot') /\ (index' = 0 <=> snapshot' = <<>>)
  BY <1>3
<1> QED
  BY <1>1, <1>2, <1>3, <1>4
  DEF OnSessionEnd, TypeOK, BackendTyped, HighlightTyped, TouchesTyped, windows

LEMMA PulseTickTypes == TypeOK /\ PulseTick => TypeOK'
<1> SUFFICES ASSUME TypeOK, PulseTick PROVE TypeOK'
  OBVIOUS
<1> DEFINE slots(bad) == {c \in {head.address} \X Colours : Works(bad, "apply", c[1], c[2])}
<1>1. PICK bad \in Failures({"apply"}) :
        /\ Toggle /\ Count(bad)
        /\ props' = Write(props, slots(bad), [c \in slots(bad) |-> IF dark' THEN Dark ELSE Lit])
        /\ strayed' =
             strayed \cup {c \in slots(bad) : c \notin DOMAIN captured \/ head \notin valid}
  BY DEF PulseTick
<1>2. \A c \in slots(bad) : c \in Addresses \X Slots
  BY SlotFacts DEF Works, TypeOK
<1> DEFINE colour == [c \in slots(bad) |-> IF dark' THEN Dark ELSE Lit]
<1>3. \A c \in slots(bad) : colour[c] \in Values
  BY ValueFacts
<1>4. props' \in [Addresses -> [Slots -> Values]]
  <2> HIDE DEF slots
  <2>1. props \in [Addresses -> [Slots -> Values]]
    BY DEF TypeOK
  <2> QED  BY <1>1, <1>3, <2>1, WriteFacts
<1>5. failures' \in 0..MaxFailures
  BY <1>1, CountTypes DEF TypeOK
<1>6. strayed' \subseteq Addresses \X Slots
  <2> HIDE DEF slots
  <2> QED  BY <1>1, <1>2 DEF TypeOK
<1>7. dark' \in BOOLEAN
  BY <1>1 DEF Toggle
<1> HIDE DEF slots
<1> QED  BY <1>4, <1>5, <1>6, <1>7 DEF PulseTick, TypeOK, windows

LEMMA ChangeTypes ==
  ASSUME TypeOK, NEW a \in Addresses, WindowDies(a) \/ WindowAppears(a)
  PROVE  TypeOK'
<1>1. up' \subseteq Addresses /\ gen' \in [Addresses -> 1..MaxGeneration] /\ Change(a)
  <2>1. /\ up \subseteq Addresses /\ gen \in [Addresses -> 1..MaxGeneration]
        /\ MaxGeneration \in Nat
    BY BorderAssumption DEF TypeOK
  <2>2. CASE WindowDies(a)
    BY <2>1, <2>2 DEF WindowDies
  <2>3. CASE WindowAppears(a)
    <3>1. gen[a] + 1 \in 1..MaxGeneration
      BY <2>1, <2>3 DEF WindowAppears
    <3> QED  BY <2>1, <2>3, <3>1 DEF WindowAppears
  <2> QED  BY <2>2, <2>3
<1>2. props' \in [Addresses -> [Slots -> Values]]
  <2>1. Own(gen'[a]) \in Values
    BY <1>1, ValueFacts
  <2> QED  BY <1>1, <2>1 DEF Change, TypeOK
<1>3. /\ forgotten' \subseteq (Addresses \X Slots) \cup {LostView}
      /\ strayed' \subseteq Addresses \X Slots
  BY <1>1 DEF Change, TypeOK
<1> QED  BY <1>1, <1>2, <1>3 DEF Change, TypeOK, ui, calls

LEMMA StutterTypes == TypeOK /\ UNCHANGED vars => TypeOK'
BY DEF TypeOK, vars, windows, ui, calls, ghosts

LEMMA NextTypes == TypeOK /\ [Next]_vars => TypeOK'
BY OnSessionStartTypes, OnSelectionChangedTypes, OnSessionEndTypes, PulseTickTypes,
   ChangeTypes, StutterTypes
DEF Next

(* The states of the border are typed in every behaviour.                  *)
THEOREM Typed == Spec => []TypeOK
BY InitTypes, NextTypes, PTL DEF Spec

-----------------------------------------------------------------------------
(***************************************************************************)
(* The highlight and its timer.                                            *)
(***************************************************************************)

(* The snapshot has a window once, and none is newer than what is there.   *)
Aged ==
  /\ Apart(snapshot)
  /\ \A k \in DOMAIN snapshot : snapshot[k].generation <= gen[snapshot[k].address]

(* The captures and the timer are those of a highlight, and a highlight is *)
(* on the selected window of a session with a border.                      *)
Wired ==
  /\ backend = "border" => index > 0
  /\ head = NoRef => captured = NoCaptures /\ ~armed
  /\ head # NoRef => backend = "border" /\ head = snapshot[index]
  /\ armed => cfg.style = "pulse" /\ ~degraded

LEMMA InitAged == Init => Aged
<1> SUFFICES ASSUME Init PROVE DOMAIN snapshot = {}
  BY DEF Aged, Apart
<1> QED  BY DEF Init

LEMMA StartAged == TypeOK /\ OnSessionStart => Aged'
<1> SUFFICES ASSUME TypeOK, OnSessionStart PROVE Aged'
  OBVIOUS
<1>1. PICK list \in Snapshots : snapshot' = list
  BY DEF OnSessionStart
<1>2. /\ list \in Seq(Refs) /\ Apart(list)
      /\ \A k \in DOMAIN list : list[k] \in valid
  BY <1>1, SnapshotFacts DEF TypeOK
<1>3. gen' = gen /\ gen \in [Addresses -> 1..MaxGeneration] /\ up \subseteq Addresses
  BY DEF OnSessionStart, windows, TypeOK
<1>4. ASSUME NEW k \in DOMAIN list
      PROVE  list[k].generation <= gen[list[k].address]
  <2>1. list[k] \in Refs /\ list[k] \in valid
    BY <1>2
  <2>2. list[k].address \in Addresses /\ list[k].generation = gen[list[k].address]
    BY <1>3, <2>1, ValidFacts DEF Refs
  <2>3. gen[list[k].address] \in Nat
    BY <1>3, <2>2
  <2> QED  BY <2>2, <2>3
<1> QED  BY <1>1, <1>2, <1>3, <1>4 DEF Aged

(* A window that appears is newer than every one the snapshot has.         *)
LEMMA ChangeAged ==
  ASSUME TypeOK, Aged, NEW a \in Addresses, WindowDies(a) \/ WindowAppears(a)
  PROVE  Aged'
<1>1. snapshot' = snapshot
  BY DEF WindowDies, WindowAppears, Change, ui
<1>2. \A b \in Addresses : gen[b] \in Nat /\ gen'[b] \in Nat /\ gen[b] <= gen'[b]
  <2>1. gen \in [Addresses -> 1..MaxGeneration]
    BY DEF TypeOK
  <2> QED  BY <2>1 DEF WindowDies, WindowAppears
<1>3. ASSUME NEW k \in DOMAIN snapshot
      PROVE  snapshot[k].generation <= gen'[snapshot[k].address]
  <2>1. snapshot[k] \in Refs
    BY DEF TypeOK
  <2>2. snapshot[k].address \in Addresses /\ snapshot[k].generation \in Nat
    BY <2>1 DEF Refs
  <2>3. snapshot[k].generation <= gen[snapshot[k].address]
    BY DEF Aged
  <2> QED  BY <1>2, <2>2, <2>3
<1> QED  BY <1>1, <1>3 DEF Aged

LEMMA NextAged == TypeOK /\ Aged /\ [Next]_vars => Aged'
<1> SUFFICES ASSUME TypeOK, Aged, [Next]_vars PROVE Aged'
  OBVIOUS
<1>1. CASE OnSessionEnd
  <2>1. snapshot' = <<>>
    BY <1>1 DEF OnSessionEnd
  <2> QED  BY <2>1 DEF Aged, Apart
<1>2. CASE OnSelectionChanged \/ PulseTick \/ UNCHANGED vars
  <2>1. snapshot' = snapshot /\ gen' = gen
    BY <1>2 DEF OnSelectionChanged, PulseTick, vars, windows, ui
  <2> QED  BY <2>1 DEF Aged
<1> QED  BY <1>1, <1>2, StartAged, ChangeAged DEF Next

(* A call of highlight() either lights a valid window, which may start the *)
(* timer, or leaves no highlight and no timer.                             *)
LEMMA HighlightShape ==
  ASSUME NEW list, NEW i, NEW conf, NEW p, NEW bad, NEW touched,
         Highlight(list, i, conf, p, bad, touched)
  PROVE  \/ /\ ~degraded' /\ list[i] \in valid /\ head' = list[i]
            /\ armed' => conf.style = "pulse"
         \/ head' = NoRef /\ captured' = NoCaptures /\ ~armed'
BY DEF Highlight, Light, LeaveDark, Lightable, StartPulse, CancelPulse

LEMMA InitWired == Init => Wired
BY DEF Init, Wired

LEMMA StartWired == TypeOK /\ Wired /\ OnSessionStart => Wired'
<1> SUFFICES ASSUME TypeOK, Wired, OnSessionStart PROVE Wired'
  OBVIOUS
<1>1. PICK list \in Snapshots : \E i \in DOMAIN list :
        /\ snapshot' = list /\ index' = i
        /\ \/ StartWithoutBorder
           \/ \E conf \in Configs,
                 bad \in Failures({"probe", "get", "apply", "schedule", "elevate"}) :
                StartWithBorder(list, i, conf, bad)
  BY DEF OnSessionStart
<1>2. PICK i \in DOMAIN list :
        /\ snapshot' = list /\ index' = i
        /\ \/ StartWithoutBorder
           \/ \E conf \in Configs,
                 bad \in Failures({"probe", "get", "apply", "schedule", "elevate"}) :
                StartWithBorder(list, i, conf, bad)
  BY <1>1
<1>3. list \in Seq(Refs) /\ up \subseteq Addresses /\ index = 0
      /\ gen \in [Addresses -> 1..MaxGeneration]
  BY SnapshotFacts DEF TypeOK, OnSessionStart
<1>4. i > 0 /\ list[i] # NoRef
  BY <1>3, ValidFacts
<1>5. CASE StartWithoutBorder
  <2>1. head = NoRef /\ captured = NoCaptures /\ ~armed
    BY <1>3 DEF Wired, TypeOK
  <2> QED  BY <1>5, <2>1 DEF StartWithoutBorder, Wired
<1>6. ASSUME NEW conf, NEW bad, StartWithBorder(list, i, conf, bad)
      PROVE  Wired'
  BY <1>2, <1>4, <1>6, HighlightShape DEF StartWithBorder, Wired
<1> QED  BY <1>2, <1>5, <1>6

LEMMA MoveWired == TypeOK /\ Wired /\ OnSelectionChanged => Wired'
<1> SUFFICES ASSUME TypeOK, Wired, OnSelectionChanged PROVE Wired'
  OBVIOUS
<1>1. PICK i \in DOMAIN snapshot :
        /\ index' = i
        /\ \/ backend = "none" /\ UNCHANGED <<props, view, head, captured, dark, armed>>
           \/ backend = "border" /\ \E bad : MoveHighlight(i, bad)
  BY DEF OnSelectionChanged
<1>2. snapshot \in Seq(Refs) /\ UNCHANGED <<backend, cfg, snapshot, degraded>>
  BY DEF TypeOK, OnSelectionChanged
<1>3. i > 0 /\ snapshot[i] # NoRef
  BY <1>2, ValidFacts DEF TypeOK
<1>4. CASE backend = "none" /\ UNCHANGED <<props, view, head, captured, dark, armed>>
  BY <1>2, <1>4 DEF Wired
<1>5. ASSUME backend = "border", NEW bad, MoveHighlight(i, bad)
      PROVE  Wired'
  BY <1>1, <1>2, <1>3, <1>5, HighlightShape DEF MoveHighlight, Wired
<1> QED  BY <1>1, <1>4, <1>5

LEMMA EndWired == Wired /\ OnSessionEnd => Wired'
<1> SUFFICES ASSUME Wired, OnSessionEnd PROVE Wired'
  OBVIOUS
<1>1. head' = NoRef /\ captured' = NoCaptures /\ ~armed'
  BY DEF OnSessionEnd, ClearHighlight, CancelPulse, Wired
<1>2. backend' = "none"
  BY DEF OnSessionEnd
<1> QED  BY <1>1, <1>2 DEF Wired

LEMMA NextWired == TypeOK /\ Wired /\ [Next]_vars => Wired'
<1> SUFFICES ASSUME TypeOK, Wired, [Next]_vars PROVE Wired'
  OBVIOUS
<1>1. CASE PulseTick
  BY <1>1 DEF PulseTick, Wired
<1>2. ASSUME NEW a \in Addresses, WindowDies(a) \/ WindowAppears(a)
      PROVE  Wired'
  BY <1>2 DEF WindowDies, WindowAppears, Change, ui, calls, Wired
<1>3. CASE UNCHANGED vars
  BY <1>3 DEF vars, ui, calls, Wired
<1> QED  BY <1>1, <1>2, <1>3, StartWired, MoveWired, EndWired DEF Next

(* REQ-UI-013: the callback of an armed timer always                       *)
(* finds the backend it points into, with the highlight it is to toggle.   *)
THEOREM TicksAreSafe == Spec => []TickHasItsHighlight
<1>1. TypeOK /\ Wired => TickHasItsHighlight
  BY DEF TypeOK, Wired, TickHasItsHighlight
<1>2. Spec => []Wired
  BY InitWired, NextWired, Typed, PTL DEF Spec
<1> QED  BY <1>1, <1>2, Typed, PTL

-----------------------------------------------------------------------------
(***************************************************************************)
(* The views of the monitors.                                              *)
(***************************************************************************)

(* A monitor that was not touched shows what it showed at the start; one   *)
(* that was is recorded with that, and shows it or a workspace.            *)
Recorded(start, v, t) ==
  \A m \in Monitors :
    IF m \in DOMAIN t THEN t[m] = start[m] /\ v[m] \in Workspaces \cup {start[m]}
                      ELSE v[m] = start[m]

Viewed ==
  /\ index > 0 => lastEnd = "None"
  /\ index > 0 /\ backend = "none" => view = startView
  /\ backend = "border" => /\ Recorded(startView, view, touches)
                           /\ ~cfg.follows => DOMAIN touches = {}

LEMMA FollowFacts ==
  ASSUME NEW start, NEW v \in Views, NEW t, TouchesTyped(t), Recorded(start, v, t), NEW ws
  PROVE  /\ Recorded(start, v, Touch(t, v, ws))
         /\ Recorded(start, Elevated(v, ws), Touch(t, v, ws))
<1> DEFINE u == Touch(t, v, ws)
           e == Elevated(v, ws)
<1>1. /\ \A m \in DOMAIN t : m \in DOMAIN u /\ u[m] = t[m]
      /\ \A m \in Monitors : m \in DOMAIN u /\ m \notin DOMAIN t => u[m] = v[m]
  BY DEF Touch
<1>2. \A m \in Monitors : m \notin DOMAIN u => m \notin DOMAIN t /\ e[m] = v[m]
  BY DEF Touch, Elevated, Views
<1>3. \A m \in Monitors : e[m] = v[m] \/ e[m] \in Workspaces
  BY DEF Elevated, Elevates, Views
<1> HIDE DEF u, e
<1>4. Recorded(start, v, u)
  BY <1>1, <1>2 DEF Recorded
<1>5. Recorded(start, e, u)
  BY <1>1, <1>2, <1>3 DEF Recorded
<1> QED  BY <1>4, <1>5 DEF u, e

(* A highlight records the monitor it elevates.                            *)
LEMMA HighlightRecords ==
  ASSUME view \in Views, NEW start, NEW list, NEW i, NEW conf, NEW p, NEW bad,
         NEW touched, TouchesTyped(touched), Recorded(start, view, touched),
         ~conf.follows => DOMAIN touched = {},
         Highlight(list, i, conf, p, bad, touched)
  PROVE  /\ Recorded(start, view', touches')
         /\ ~conf.follows => DOMAIN touches' = {}
<1>1. CASE Light(list, i, conf, p, bad, touched)
  <2> DEFINE home == HomeOf[list[i].address]
  <2>1. /\ touches' = IF conf.follows THEN Touch(touched, view, home) ELSE touched
        /\ view' = IF conf.follows /\ <<"elevate">> \notin bad
                     THEN Elevated(view, home) ELSE view
    BY <1>1 DEF Light
  <2> HIDE DEF home
  <2>2. /\ Recorded(start, view, Touch(touched, view, home))
        /\ Recorded(start, Elevated(view, home), Touch(touched, view, home))
    BY FollowFacts
  <2> QED  BY <2>1, <2>2
<1>2. CASE LeaveDark(p, touched)
  BY <1>2 DEF LeaveDark
<1> QED  BY <1>1, <1>2 DEF Highlight

LEMMA InitViewed == Init => Viewed
BY DEF Init, Viewed

LEMMA StartViewed == TypeOK /\ OnSessionStart => Viewed'
<1> SUFFICES ASSUME TypeOK, OnSessionStart PROVE Viewed'
  OBVIOUS
<1>1. lastEnd' = "None" /\ startView' = view /\ view \in Views
  BY DEF OnSessionStart, TypeOK
<1>2. CASE StartWithoutBorder
  BY <1>1, <1>2 DEF StartWithoutBorder, Viewed
<1>3. ASSUME NEW list, NEW i, NEW conf, NEW bad, StartWithBorder(list, i, conf, bad)
      PROVE  Viewed'
  <2>1. TouchesTyped(NoTouches) /\ DOMAIN NoTouches = {} /\ Recorded(view, view, NoTouches)
    BY DEF TouchesTyped, NoTouches, Recorded
  <2>2. /\ Recorded(view, view', touches')
        /\ ~conf.follows => DOMAIN touches' = {}
    BY <1>1, <1>3, <2>1, HighlightRecords DEF StartWithBorder
  <2>3. backend' = "border" /\ cfg' = conf
    BY <1>3 DEF StartWithBorder
  <2> QED  BY <1>1, <2>2, <2>3 DEF Viewed
<1> QED  BY <1>2, <1>3 DEF OnSessionStart

LEMMA MoveViewed == TypeOK /\ Viewed /\ OnSelectionChanged => Viewed'
<1> SUFFICES ASSUME TypeOK, Viewed, OnSelectionChanged PROVE Viewed'
  OBVIOUS
<1>1. /\ UNCHANGED <<backend, cfg, lastEnd, startView>>
      /\ index > 0 /\ view \in Views /\ TouchesTyped(touches)
  BY DEF OnSelectionChanged, TypeOK, TouchesTyped
<1>2. CASE backend = "none" /\ UNCHANGED <<view, touches>>
  BY <1>1, <1>2 DEF Viewed
<1>3. ASSUME NEW i, NEW bad, backend = "border", MoveHighlight(i, bad)
      PROVE  Viewed'
  <2>1. /\ Recorded(startView, view', touches')
        /\ ~cfg.follows => DOMAIN touches' = {}
    BY <1>1, <1>3, HighlightRecords DEF MoveHighlight, Viewed
  <2> QED  BY <1>1, <1>3, <2>1 DEF Viewed
<1> QED  BY <1>2, <1>3 DEF OnSelectionChanged

LEMMA NextViewed == TypeOK /\ Viewed /\ [Next]_vars => Viewed'
<1> SUFFICES ASSUME TypeOK, Viewed, [Next]_vars PROVE Viewed'
  OBVIOUS
<1>1. CASE OnSessionEnd
  BY <1>1 DEF OnSessionEnd, Viewed
<1>2. CASE UNCHANGED <<backend, cfg, touches, index, lastEnd, view, startView>>
  BY <1>2 DEF Viewed
<1>3. CASE PulseTick
  BY <1>2, <1>3 DEF PulseTick
<1>4. ASSUME NEW a \in Addresses, WindowDies(a) \/ WindowAppears(a)
      PROVE  Viewed'
  BY <1>2, <1>4 DEF WindowDies, WindowAppears, Change, ui, calls
<1>5. CASE UNCHANGED vars
  BY <1>2, <1>5 DEF vars, ui, calls
<1> QED  BY <1>1, <1>3, <1>4, <1>5, StartViewed, MoveViewed DEF Next

(* A monitor that showed a workspace with a number shows it again after a  *)
(* cancelled session.                                                      *)
NumberedRestored ==
  lastEnd = "Cancelled" /\ LostView \notin forgotten =>
    \A m \in Monitors : startView[m] >= 0 => view[m] = startView[m]

(* The end of a cancelled session puts the recorded monitors back.         *)
LEMMA EndRestores ==
  ASSUME TypeOK, Wired, Viewed, OnSessionEnd
  PROVE  NumberedRestored'
<1>1. startView' = startView /\ index > 0 /\ view \in Views /\ startView \in Views
  BY DEF OnSessionEnd, TypeOK
<1>2. CASE backend = "none" /\ UNCHANGED view
  BY <1>1, <1>2 DEF Viewed, NumberedRestored
<1>3. ASSUME backend = "border", lastEnd' = "Cancelled", LostView \notin forgotten',
             NEW bad, ClearHighlight("Cancelled", bad),
             NEW m \in Monitors, startView[m] >= 0
      PROVE  view'[m] = startView[m]
  <2>1. /\ Recorded(startView, view, touches)
        /\ ~cfg.follows => DOMAIN touches = {}
    BY <1>3 DEF Viewed
  <2>2. view' = IF cfg.follows THEN AtEnd(touches, view, "Cancelled") ELSE view
    BY <1>3 DEF ClearHighlight
  <2>3. startView[m] \in Workspaces /\ startView[m] >= 0
    <3>1. startView[m] \in Workspaces \cup {Invalid}
      BY <1>1 DEF Views
    <3>2. ~(Invalid >= 0)
      BY DEF Invalid
    <3> QED  BY <1>3, <3>1, <3>2
  <2>4. CASE m \notin DOMAIN touches
    BY <2>1, <2>2, <2>4 DEF AtEnd, Restorable, Recorded
  <2>5. CASE m \in DOMAIN touches
    <3>1. touches[m] = startView[m] /\ view[m] \in Workspaces /\ cfg.follows
      BY <2>1, <2>3, <2>5 DEF Recorded
    <3>2. view[m] # Invalid
      BY <3>1, NavigatorAssumption
    <3>3. Restorable(touches, view, m)
      BY <2>3, <2>5, <3>1, <3>2 DEF Restorable
    <3> QED  BY <2>2, <3>1, <3>3 DEF AtEnd
  <2> QED  BY <2>4, <2>5
<1>4. ASSUME NEW reason \in {"Applied", "Cancelled"}, lastEnd' = reason,
             NEW bad, ClearHighlight(reason, bad), backend = "border"
      PROVE  NumberedRestored'
  BY <1>1, <1>3, <1>4 DEF NumberedRestored
<1> QED  BY <1>2, <1>4 DEF OnSessionEnd

LEMMA NextRestores ==
  ASSUME TypeOK, Wired, Viewed, NumberedRestored, [Next]_vars
  PROVE  NumberedRestored'
<1>1. CASE OnSessionStart
  BY <1>1 DEF OnSessionStart, NumberedRestored
<1>2. CASE OnSelectionChanged
  BY <1>2 DEF OnSelectionChanged, Viewed, NumberedRestored
<1>3. CASE PulseTick \/ UNCHANGED vars
  BY <1>3 DEF PulseTick, vars, calls, ghosts, NumberedRestored
<1>4. ASSUME NEW a \in Addresses, WindowDies(a) \/ WindowAppears(a)
      PROVE  NumberedRestored'
  <2>1. LostView \notin About(a)
    BY SlotFacts DEF LostView, About
  <2> QED  BY <1>4, <2>1 DEF WindowDies, WindowAppears, Change, calls, NumberedRestored
<1> QED  BY <1>1, <1>2, <1>3, <1>4, EndRestores DEF Next

(* REQ-UI-012: a session that is cancelled leaves every monitor with a     *)
(* numbered workspace as it found it, unless the compositor refused.       *)
THEOREM NumberedViewsRestored == Spec => []NumberedRestored
<1>1. Init => Wired /\ Viewed /\ NumberedRestored
  BY InitWired, InitViewed DEF Init, NumberedRestored
<1>2. TypeOK /\ Wired /\ Viewed /\ NumberedRestored /\ [Next]_vars
        => Wired' /\ Viewed' /\ NumberedRestored'
  BY NextWired, NextViewed, NextRestores
<1> QED  BY <1>1, <1>2, Typed, PTL DEF Spec

(* On a desktop where every workspace has a number, that is every monitor. *)
(* With a named workspace it is not: end() takes the negative id for       *)
(* "nothing to restore", as the run named_workspace shows.                 *)
THEOREM ViewsRestored ==
  ASSUME Workspaces \subseteq Nat
  PROVE  Spec => []CancelRestoresViews
<1>1. ASSUME TypeOK, NumberedRestored PROVE CancelRestoresViews
  <2>1. ASSUME NEW m \in Monitors, startView[m] # Invalid
        PROVE  startView[m] >= 0
    <3>1. startView \in Views
      BY <1>1 DEF TypeOK
    <3>2. startView[m] \in Workspaces \cup {Invalid}
      BY <3>1 DEF Views
    <3>3. startView[m] \in Nat
      BY <2>1, <3>2
    <3> QED  BY <3>3
  <2> QED  BY <1>1, <2>1 DEF CancelRestoresViews, NumberedRestored
<1> QED  BY <1>1, Typed, NumberedViewsRestored, PTL

-----------------------------------------------------------------------------
(***************************************************************************)
(* The properties of the windows.                                          *)
(***************************************************************************)

(* The addresses that still have the window the session offers.            *)
present == {a \in up : \E k \in DOMAIN snapshot :
                         snapshot[k] = [address |-> a, generation |-> gen[a]]}

(* Captures are of the windows of the snapshot: the colours and the size   *)
(* of the head, the alphas of the others.                                  *)
Placed ==
  \A c \in DOMAIN captured :
    /\ \E k \in DOMAIN snapshot : snapshot[k].address = c[1]
    /\ IF c[2] \in Alphas THEN cfg.style = "dim" /\ c[1] # head.address
                          ELSE c[1] = head.address

(* What a restore may write back for a property.                           *)
Owed(a, s) == {Own(gen[a])} \cup IF s = "Size" THEN {Unset} ELSE {}

(* A property that is not excused has one of our values exactly when it is *)
(* captured from the window that has it; the capture then has the window's *)
(* own value.  Otherwise the window has its own value.                     *)
Overriding ==
  \A a \in up, s \in Slots :
    <<a, s>> \notin Excused =>
      IF <<a, s>> \in DOMAIN captured /\ a \in present
        THEN props[a][s] \in Marks(s) /\ captured[<<a, s>>] \in Owed(a, s)
        ELSE props[a][s] = Own(gen[a])

(* A capture meets its window exactly when the address still has it.       *)
LEMMA TakenFromFacts ==
  ASSUME TypeOK, Aged, Placed, NEW c \in DOMAIN captured
  PROVE  TakenFrom(c[1]) \in valid <=> c[1] \in present
<1> DEFINE a == c[1]
<1>1. \E k \in DOMAIN snapshot : snapshot[k].address = a
  BY DEF Placed
<1>2. PICK j \in DOMAIN snapshot : snapshot[j].address = a /\ TakenFrom(a) = snapshot[j]
  BY <1>1 DEF TakenFrom
<1> HIDE DEF a
<1>3. snapshot[j] \in Refs
  BY DEF TypeOK
<1>4. snapshot[j] \in valid <=> a \in up /\ snapshot[j].generation = gen[a]
  BY <1>2, <1>3, ValidFacts DEF TypeOK
<1>5. a \in up /\ snapshot[j].generation = gen[a] <=> a \in present
  <2>1. ASSUME a \in up, snapshot[j].generation = gen[a] PROVE a \in present
    <3>1. snapshot[j] = [address |-> a, generation |-> gen[a]]
      BY <1>2, <1>3, <2>1 DEF Refs
    <3> QED  BY <2>1, <3>1 DEF present
  <2>2. ASSUME a \in present PROVE a \in up /\ snapshot[j].generation = gen[a]
    <3>1. PICK k \in DOMAIN snapshot : snapshot[k] = [address |-> a, generation |-> gen[a]]
      BY <2>2 DEF present
    <3>2. k = j
      BY <1>2, <3>1 DEF Aged, Apart
    <3> QED  BY <2>2, <3>1, <3>2 DEF present
  <2> QED  BY <2>1, <2>2
<1> QED  BY <1>2, <1>4, <1>5 DEF a

(* A restore leaves the window's own value wherever it neither fails nor   *)
(* strays.                                                                 *)
LEMMA RestoredIsOwn ==
  ASSUME TypeOK, Aged, Placed, Overriding, NEW bad, NEW a \in up, NEW s \in Slots,
         <<a, s>> \notin Excused, <<a, s>> \notin Forgets(bad), <<a, s>> \notin Strays(bad)
  PROVE  Restored(bad)[a][s] = Own(gen[a])
<1> DEFINE c == <<a, s>>
<1>0. a \in Addresses
  BY DEF TypeOK
<1>1. Restored(bad)[a][s] = IF c \in WrittenBack(bad) THEN captured[c] ELSE props[a][s]
  BY <1>0, RestoredFacts
<1>2. IF c \in DOMAIN captured /\ a \in present
        THEN props[a][s] \in Marks(s) /\ captured[c] \in Owed(a, s)
        ELSE props[a][s] = Own(gen[a])
  BY DEF Overriding
<1>3. c \in DOMAIN captured => (TakenFrom(a) \in valid <=> a \in present)
  BY TakenFromFacts
<1>4. c[1] = a
  OBVIOUS
<1> HIDE DEF c
<1>5. CASE c \in DOMAIN captured /\ a \in present
  <2>1. c \in WrittenBack(bad) /\ captured[c] # Unset
    BY <1>3, <1>4, <1>5 DEF Forgets, c
  <2>2. captured[c] = Own(gen[a])
    BY <1>2, <1>5, <2>1 DEF Owed
  <2> QED  BY <1>1, <2>1, <2>2
<1>6. CASE ~(c \in DOMAIN captured /\ a \in present)
  <2>1. c \notin WrittenBack(bad)
    <3>1. c \in WrittenBack(bad) => c \in DOMAIN captured
      BY DEF WrittenBack
    <3>2. c \in WrittenBack(bad) => TakenFrom(a) \in valid
      BY <1>4 DEF Strays, c
    <3> QED  BY <1>3, <1>6, <3>1, <3>2
  <2> QED  BY <1>1, <1>2, <1>6, <2>1
<1> QED  BY <1>5, <1>6

(* What a highlight of list[i] captures, and what it writes over p.        *)
CapturesValid(list, i, conf) ==
  \A c \in DOMAIN captured' :
    /\ head' = list[i]
    /\ \E k \in DOMAIN list : list[k] \in valid /\ list[k].address = c[1]
    /\ IF c[2] \in Alphas THEN conf.style = "dim" /\ c[1] # list[i].address
                          ELSE c[1] = list[i].address

WritesCaptured(p) ==
  \A a \in up, s \in Slots :
    IF <<a, s>> \in DOMAIN captured'
      THEN /\ props'[a][s] \in Marks(s)
           /\ captured'[<<a, s>>] \in {p[a][s]} \cup IF s = "Size" THEN {Unset} ELSE {}
      ELSE props'[a][s] = p[a][s]

(* A highlight captures, of valid windows, what it overrides.              *)
LEMMA HighlightMarks ==
  ASSUME up \subseteq Addresses, NEW list \in Seq(Refs), Apart(list), NEW i \in DOMAIN list,
         NEW conf, NEW bad, NEW p \in [Addresses -> [Slots -> Values]], NEW touched,
         Highlight(list, i, conf, p, bad, touched)
  PROVE  CapturesValid(list, i, conf) /\ WritesCaptured(p)
<1>1. CASE Light(list, i, conf, p, bad, touched) /\ Lightable(list, i, bad)
  <2> DEFINE slots == Overridden(list, i, conf, bad)
             ours  == [c \in slots |-> Override[c[2]]]
  <2>1. /\ DOMAIN captured' = slots /\ \A c \in slots : captured'[c] = Prior(p, bad, c)
        /\ props' = Write(p, slots, ours) /\ head' = list[i]
    BY <1>1 DEF Light
  <2>2. list[i] \in valid /\ Readable(bad, list[i].address, Colours)
    BY <1>1 DEF Lightable
  <2>3. ASSUME NEW c \in slots
        PROVE  /\ c[1] \in up /\ c[2] \in Slots /\ c = <<c[1], c[2]>>
               /\ \/ /\ c[2] \in Colours \cup {"Size"}
                     /\ c[1] = list[i].address
                  \/ /\ c[2] \in Alphas /\ conf.style = "dim"
                     /\ \E k \in DOMAIN list \ {i} :
                          /\ list[k] \in valid /\ c[1] = list[k].address
                          /\ Readable(bad, c[1], Alphas)
    BY OverriddenFacts
  <2>4. \A a \in Addresses, s \in Slots :
          props'[a][s] = IF <<a, s>> \in slots THEN ours[<<a, s>>] ELSE p[a][s]
    <3> HIDE DEF slots, ours
    <3>1. \A a \in Addresses, s \in Slots :
            Write(p, slots, ours)[a][s] =
              IF <<a, s>> \in slots THEN ours[<<a, s>>] ELSE p[a][s]
      BY DEF Write
    <3>2. props' = Write(p, slots, ours)
      BY <2>1
    <3> QED  BY <3>1, <3>2
  <2>5. \A c \in slots : ours[c] = Override[c[2]]
    OBVIOUS
  <2> HIDE DEF slots, ours
  <2>6. ASSUME NEW c \in slots
        PROVE  /\ \E k \in DOMAIN list : list[k] \in valid /\ list[k].address = c[1]
               /\ IF c[2] \in Alphas THEN conf.style = "dim" /\ c[1] # list[i].address
                                     ELSE c[1] = list[i].address
    BY <2>2, <2>3, SlotFacts DEF Apart
  <2>7. ASSUME NEW c \in slots
        PROVE  captured'[c] \in {p[c[1]][c[2]]} \cup IF c[2] = "Size" THEN {Unset} ELSE {}
    <3>1. c[2] # "Size" => Works(bad, "get", c[1], c[2])
      BY <2>2, <2>3 DEF Readable
    <3> QED  BY <2>1, <3>1 DEF Prior
  <2>8. ASSUME NEW a \in up, NEW s \in Slots
        PROVE  IF <<a, s>> \in slots
                 THEN /\ props'[a][s] \in Marks(s)
                      /\ captured'[<<a, s>>] \in
                           {p[a][s]} \cup IF s = "Size" THEN {Unset} ELSE {}
                 ELSE props'[a][s] = p[a][s]
    <3>1. props'[a][s] = IF <<a, s>> \in slots THEN ours[<<a, s>>] ELSE p[a][s]
      BY <2>4
    <3>2. CASE <<a, s>> \in slots
      <4>1. props'[a][s] \in Marks(s)
        BY <2>5, <3>1, <3>2, SlotFacts
      <4>2. captured'[<<a, s>>] \in {p[a][s]} \cup IF s = "Size" THEN {Unset} ELSE {}
        BY <2>7, <3>2
      <4> QED  BY <3>2, <4>1, <4>2
    <3> QED  BY <3>1, <3>2
  <2> QED  BY <2>1, <2>6, <2>8 DEF CapturesValid, WritesCaptured
<1>2. CASE LeaveDark(p, touched)
  <2>1. DOMAIN captured' = {} /\ props' = p
    BY <1>2 DEF LeaveDark, NoCaptures
  <2> QED  BY <2>1 DEF CapturesValid, WritesCaptured
<1> QED  BY <1>1, <1>2 DEF Highlight

LEMMA InitOverriding == Init => Placed /\ Overriding
<1> SUFFICES ASSUME Init PROVE Placed /\ Overriding
  OBVIOUS
<1>1. DOMAIN captured = {}
  BY DEF Init, NoCaptures
<1>2. \A a \in up, s \in Slots : props[a][s] = Own(gen[a])
  BY DEF Init
<1> QED  BY <1>1, <1>2 DEF Placed, Overriding

(* A highlight over properties that are the windows' own, wherever they    *)
(* are not excused.                                                        *)
LEMMA HighlightOverrides ==
  ASSUME TypeOK, UNCHANGED windows, NEW list \in Seq(Refs), Apart(list),
         NEW i \in DOMAIN list, NEW conf, NEW bad, NEW touched,
         snapshot' = list, index' = i, cfg' = conf,
         NEW p \in [Addresses -> [Slots -> Values]],
         \A a \in up, s \in Slots : <<a, s>> \notin Excused' => p[a][s] = Own(gen[a]),
         Highlight(list, i, conf, p, bad, touched)
  PROVE  Placed' /\ Overriding'
<1>1. up' = up /\ gen' = gen /\ up \subseteq Addresses
      /\ gen \in [Addresses -> 1..MaxGeneration]
  BY DEF windows, TypeOK
<1>2. CapturesValid(list, i, conf) /\ WritesCaptured(p)
  BY <1>1, HighlightMarks
<1>3. Placed'
  BY <1>2 DEF Placed, CapturesValid
<1>4. ASSUME NEW a \in up, NEW s \in Slots, <<a, s>> \in DOMAIN captured'
      PROVE  a \in present'
  <2>1. PICK k \in DOMAIN list : list[k] \in valid /\ list[k].address = a
    BY <1>2, <1>4 DEF CapturesValid
  <2>2. list[k] = [address |-> a, generation |-> gen[a]]
    BY <2>1 DEF valid
  <2> QED  BY <1>1, <2>2 DEF present
<1>5. ASSUME NEW a \in up, NEW s \in Slots, <<a, s>> \notin Excused'
      PROVE  IF <<a, s>> \in DOMAIN captured' /\ a \in present'
               THEN props'[a][s] \in Marks(s) /\ captured'[<<a, s>>] \in Owed(a, s)
               ELSE props'[a][s] = Own(gen[a])
  BY <1>2, <1>4, <1>5 DEF Owed, WritesCaptured
<1> QED  BY <1>1, <1>3, <1>5 DEF Overriding, Owed

LEMMA StartOverrides ==
  TypeOK /\ Wired /\ Overriding /\ OnSessionStart => Placed' /\ Overriding'
<1> SUFFICES ASSUME TypeOK, Wired, Overriding, OnSessionStart PROVE Placed' /\ Overriding'
  OBVIOUS
<1>1. PICK list \in Snapshots : \E i \in DOMAIN list :
        /\ snapshot' = list /\ index' = i
        /\ \/ StartWithoutBorder
           \/ \E conf \in Configs,
                 bad \in Failures({"probe", "get", "apply", "schedule", "elevate"}) :
                StartWithBorder(list, i, conf, bad)
  BY DEF OnSessionStart
<1>2. list \in Seq(Refs) /\ Apart(list) /\ index' \in DOMAIN list
  BY <1>1, SnapshotFacts DEF TypeOK
<1>3. /\ UNCHANGED windows /\ UNCHANGED strayed /\ forgotten' = forgotten \ {LostView}
      /\ index = 0 /\ props \in [Addresses -> [Slots -> Values]]
  BY DEF OnSessionStart, TypeOK
<1>4. DOMAIN captured = {}
  BY <1>3 DEF Wired, TypeOK, NoCaptures
<1>5. \A a \in up, s \in Slots : <<a, s>> \notin Excused' => props[a][s] = Own(gen[a])
  <2>1. \A a \in up, s \in Slots : <<a, s>> # LostView
    BY SlotFacts DEF LostView
  <2>2. \A a \in up, s \in Slots : <<a, s>> \notin Excused' => <<a, s>> \notin Excused
    BY <1>3, <2>1 DEF Excused
  <2> QED  BY <1>4, <2>2 DEF Overriding
<1>6. CASE StartWithoutBorder
  <2>1. DOMAIN captured' = {} /\ UNCHANGED props
    BY <1>4, <1>6 DEF StartWithoutBorder
  <2> QED  BY <1>3, <1>5, <2>1 DEF Placed, Overriding, windows
<1>7. ASSUME NEW conf, NEW bad, StartWithBorder(list, index', conf, bad)
      PROVE  Placed' /\ Overriding'
  BY <1>1, <1>2, <1>3, <1>5, <1>7, HighlightOverrides DEF StartWithBorder
<1> QED  BY <1>1, <1>6, <1>7

LEMMA MoveOverrides ==
  ASSUME TypeOK, Aged, Placed, Overriding, OnSelectionChanged
  PROVE  Placed' /\ Overriding'
<1>1. /\ UNCHANGED <<windows, backend, cfg, snapshot, degraded>>
      /\ snapshot' \in Seq(Refs) /\ Apart(snapshot') /\ index' \in DOMAIN snapshot'
  BY DEF OnSelectionChanged, Aged, TypeOK
<1>2. CASE UNCHANGED <<props, view, head, captured, dark, armed, touches, failures, ghosts>>
  <2>1. present' = present /\ Excused' = Excused
    BY <1>1, <1>2 DEF present, Excused, windows, ghosts
  <2> QED  BY <1>1, <1>2, <2>1 DEF Placed, Overriding, Owed, windows
<1>3. ASSUME NEW bad, MoveHighlight(index', bad)
      PROVE  Placed' /\ Overriding'
  <2>1. Restored(bad) \in [Addresses -> [Slots -> Values]]
    BY RestoredFacts
  <2>2. Excused' = Excused \cup Forgets(bad) \cup Strays(bad)
    BY <1>3 DEF MoveHighlight, Excused
  <2>3. \A a \in up, s \in Slots :
          <<a, s>> \notin Excused' => Restored(bad)[a][s] = Own(gen[a])
    BY <2>2, RestoredIsOwn
  <2>4. Highlight(snapshot', index', cfg', Restored(bad), bad, touches)
    BY <1>1, <1>3 DEF MoveHighlight
  <2>5. UNCHANGED windows
    BY <1>1
  <2> QED  BY <1>1, <2>1, <2>3, <2>4, <2>5, HighlightOverrides
<1> QED  BY <1>2, <1>3 DEF OnSelectionChanged

LEMMA EndOverrides ==
  ASSUME TypeOK, Aged, Wired, Placed, Overriding, OnSessionEnd
  PROVE  Placed' /\ Overriding'
<1>1. UNCHANGED windows
  BY DEF OnSessionEnd
<1>2. CASE /\ backend = "none"
           /\ UNCHANGED <<props, view, head, captured, dark, armed, touches, failures, ghosts>>
  <2>1. DOMAIN captured = {} /\ DOMAIN captured' = {} /\ Excused' = Excused
    BY <1>2 DEF Wired, NoCaptures, Excused, ghosts
  <2> QED  BY <1>1, <1>2, <2>1 DEF Placed, Overriding, windows
<1>3. ASSUME NEW reason, NEW bad, ClearHighlight(reason, bad)
      PROVE  Placed' /\ Overriding'
  <2>1. DOMAIN captured' = {} /\ props' = Restored(bad)
    BY <1>3 DEF ClearHighlight, NoCaptures
  <2>2. Excused \cup Forgets(bad) \cup Strays(bad) \subseteq Excused'
    BY <1>3 DEF ClearHighlight, Excused
  <2>3. \A a \in up, s \in Slots :
          <<a, s>> \notin Excused' => Restored(bad)[a][s] = Own(gen[a])
    BY <2>2, RestoredIsOwn
  <2> QED  BY <1>1, <2>1, <2>3 DEF Placed, Overriding, windows
<1> QED  BY <1>2, <1>3 DEF OnSessionEnd

LEMMA TickOverrides ==
  ASSUME TypeOK, Aged, Wired, Placed, Overriding, PulseTick
  PROVE  Placed' /\ Overriding'
<1> DEFINE slots(bad) == {c \in {head.address} \X Colours : Works(bad, "apply", c[1], c[2])}
<1>1. PICK bad :
        /\ props' = Write(props, slots(bad), [c \in slots(bad) |-> IF dark' THEN Dark ELSE Lit])
        /\ strayed' =
             strayed \cup {c \in slots(bad) : c \notin DOMAIN captured \/ head \notin valid}
  BY DEF PulseTick
<1>2. UNCHANGED <<windows, cfg, snapshot, head, captured, forgotten>>
  BY DEF PulseTick
<1>3. head = snapshot[index] /\ index \in DOMAIN snapshot /\ head \in Refs
  <2>1. head = snapshot[index] /\ index > 0
    BY DEF PulseTick, Wired
  <2>2. index \in 0..Len(snapshot) /\ snapshot \in Seq(Refs)
    BY DEF TypeOK
  <2>3. index \in DOMAIN snapshot
    BY <2>1, <2>2
  <2> QED  BY <2>1, <2>2, <2>3
<1>4. Placed'
  BY <1>2 DEF Placed
<1>5. present' = present /\ Excused \subseteq Excused'
  BY <1>1, <1>2 DEF present, Excused, windows
<1>6. ASSUME NEW a \in up, NEW s \in Slots, <<a, s>> \notin Excused'
      PROVE  IF <<a, s>> \in DOMAIN captured /\ a \in present
               THEN props'[a][s] \in Marks(s) /\ captured[<<a, s>>] \in Owed(a, s)
               ELSE props'[a][s] = Own(gen[a])
  <2>1. IF <<a, s>> \in DOMAIN captured /\ a \in present
          THEN props[a][s] \in Marks(s) /\ captured[<<a, s>>] \in Owed(a, s)
          ELSE props[a][s] = Own(gen[a])
    BY <1>5, <1>6 DEF Overriding
  <2>2. a \in Addresses
    BY DEF TypeOK
  <2>3. CASE <<a, s>> \notin slots(bad)
    <3>1. props'[a][s] = props[a][s]
      BY <1>1, <2>2, <2>3 DEF Write
    <3> QED  BY <2>1, <3>1
  <2>4. CASE <<a, s>> \in slots(bad)
    <3>1. props'[a][s] \in {Dark, Lit}
      BY <1>1, <2>2, <2>4 DEF Write
    <3>2. a = head.address /\ s \in Colours
      BY <2>4
    <3>3. <<a, s>> \in DOMAIN captured /\ head \in valid
      <4> HIDE DEF slots
      <4> QED  BY <1>1, <1>6, <2>4 DEF Excused
    <3>4. a \in present
      <4>1. snapshot[index] = [address |-> a, generation |-> gen[a]]
        BY <1>3, <3>2, <3>3 DEF valid
      <4> QED  BY <1>3, <4>1 DEF present
    <3>5. Marks(s) = {Lit, Dark}
      BY <3>2 DEF Marks
    <3> QED  BY <2>1, <3>1, <3>3, <3>4, <3>5
  <2> QED  BY <2>3, <2>4
<1> HIDE DEF slots
<1> QED  BY <1>2, <1>4, <1>5, <1>6 DEF Overriding, Owed, windows

(* A window that dies takes its properties with it, and one that appears   *)
(* is not the one that a capture at its address was taken from.            *)
LEMMA ChangeOverrides ==
  ASSUME TypeOK, Aged, Placed, Overriding,
         NEW b \in Addresses, WindowDies(b) \/ WindowAppears(b)
  PROVE  Placed' /\ Overriding'
<1>1. Change(b) /\ UNCHANGED <<cfg, snapshot, head, captured>>
  BY DEF WindowDies, WindowAppears, Change, ui
<1>2. Placed'
  BY <1>1 DEF Placed
<1>3. /\ up \subseteq Addresses /\ gen \in [Addresses -> 1..MaxGeneration]
      /\ props \in [Addresses -> [Slots -> Values]]
  BY DEF TypeOK
<1>4. ASSUME NEW a \in up', NEW s \in Slots, a # b, <<a, s>> \notin Excused'
      PROVE  IF <<a, s>> \in DOMAIN captured /\ a \in present'
               THEN props'[a][s] \in Marks(s) /\ captured[<<a, s>>] \in Owed(a, s)'
               ELSE props'[a][s] = Own(gen'[a])
  <2>1. a \in up /\ gen'[a] = gen[a] /\ props'[a] = props[a]
    BY <1>1, <1>3, <1>4 DEF WindowDies, WindowAppears, Change
  <2>2. <<a, s>> \notin Excused
    BY <1>1, <1>4 DEF Change, About, Excused
  <2>3. a \in present' <=> a \in present
    BY <1>1, <1>4, <2>1 DEF present
  <2>4. IF <<a, s>> \in DOMAIN captured /\ a \in present
          THEN props[a][s] \in Marks(s) /\ captured[<<a, s>>] \in Owed(a, s)
          ELSE props[a][s] = Own(gen[a])
    BY <2>1, <2>2 DEF Overriding
  <2> QED  BY <2>1, <2>3, <2>4 DEF Owed
<1>5. ASSUME NEW s \in Slots, b \in up'
      PROVE  b \notin present' /\ props'[b][s] = Own(gen'[b])
  <2>1. gen'[b] = gen[b] + 1 /\ gen[b] \in Nat
    BY <1>3, <1>5 DEF WindowDies, WindowAppears
  <2>2. ASSUME NEW k \in DOMAIN snapshot,
               snapshot[k] = [address |-> b, generation |-> gen'[b]]
        PROVE  FALSE
    <3>1. snapshot[k].address = b /\ snapshot[k].generation = gen[b] + 1
      BY <2>1, <2>2
    <3>2. snapshot[k].generation <= gen[b]
      BY <3>1 DEF Aged
    <3> QED  BY <2>1, <3>1, <3>2
  <2>3. b \notin present'
    BY <1>1, <2>2 DEF present
  <2>4. props'[b][s] = Own(gen'[b])
    BY <1>1, <1>3 DEF Change
  <2> QED  BY <2>3, <2>4
<1>6. ASSUME NEW a \in up', NEW s \in Slots, <<a, s>> \notin Excused'
      PROVE  IF <<a, s>> \in DOMAIN captured /\ a \in present'
               THEN props'[a][s] \in Marks(s) /\ captured[<<a, s>>] \in Owed(a, s)'
               ELSE props'[a][s] = Own(gen'[a])
  <2>1. CASE a = b
    BY <1>5, <1>6, <2>1
  <2>2. CASE a # b
    BY <1>4, <1>6, <2>2
  <2> QED  BY <2>1, <2>2
<1> QED  BY <1>1, <1>2, <1>6 DEF Overriding

BorderInv == TypeOK /\ Aged /\ Wired /\ Placed /\ Overriding

LEMMA NextOverrides == BorderInv /\ [Next]_vars => Placed' /\ Overriding'
<1> SUFFICES ASSUME BorderInv, [Next]_vars PROVE Placed' /\ Overriding'
  OBVIOUS
<1> USE DEF BorderInv
<1>1. CASE UNCHANGED vars
  <2>1. /\ present' = present /\ Excused' = Excused
        /\ UNCHANGED <<up, gen, props, cfg, snapshot, head, captured>>
    BY <1>1 DEF present, Excused, vars, windows, ui, ghosts
  <2> QED  BY <2>1 DEF Placed, Overriding, Owed
<1> QED
  BY <1>1, StartOverrides, MoveOverrides, EndOverrides, TickOverrides, ChangeOverrides
  DEF Next

LEMMA BorderInvariant == Spec => []BorderInv
<1>1. Init => BorderInv
  BY InitTypes, InitAged, InitWired, InitOverriding DEF BorderInv
<1>2. BorderInv /\ [Next]_vars => BorderInv'
  BY NextTypes, NextAged, NextWired, NextOverrides DEF BorderInv
<1> QED  BY <1>1, <1>2, PTL DEF Spec

(* A capture is held by a session with a highlight.                        *)
LEMMA CapturesInSession ==
  ASSUME TypeOK, Wired, NEW c \in DOMAIN captured
  PROVE  index \in DOMAIN snapshot /\ index > 0 /\ head = snapshot[index]
<1>1. captured # NoCaptures
  BY DEF NoCaptures
<1>2. index > 0 /\ head = snapshot[index]
  BY <1>1 DEF Wired
<1>3. index \in 0..Len(snapshot) /\ snapshot \in Seq(Refs)
  BY DEF TypeOK
<1> QED  BY <1>2, <1>3

(* REQ-UI-005: whatever a live window does not have of its own, the        *)
(* session will put back, with the value the window had.                   *)
THEOREM EveryOverrideIsOwed == Spec => []OverridesAreOwed
<1>1. ASSUME BorderInv PROVE OverridesAreOwed
  <2>1. ASSUME NEW a \in up, NEW s \in Slots
        PROVE  \/ props[a][s] = Own(gen[a])
               \/ <<a, s>> \in Excused
               \/ /\ index > 0 /\ <<a, s>> \in DOMAIN captured
                  /\ captured[<<a, s>>] \in Owed(a, s)
    BY <1>1, CapturesInSession DEF BorderInv, Overriding
  <2> QED  BY <2>1 DEF OverridesAreOwed, Owed
<1> QED  BY <1>1, BorderInvariant, PTL

(* REQ-UI-004, REQ-UI-014: the highlight is on the selected window and on  *)
(* no other, and only the others are dimmed.                               *)
THEOREM MarksAreOnTheSelection == Spec => []MarksFollowSelection
<1>1. ASSUME BorderInv PROVE MarksFollowSelection
  <2>1. ASSUME NEW a \in up, NEW s \in Slots, <<a, s>> \notin Excused,
               props[a][s] \in {Lit, Dark, Sized, Dimmed}
        PROVE  /\ <<a, s>> \in DOMAIN captured /\ a \in present
               /\ props[a][s] \in Marks(s)
    BY <1>1, <2>1, ValueFacts DEF BorderInv, Overriding
  <2>2. ASSUME NEW a \in up, NEW s \in Slots, <<a, s>> \notin Excused,
               props[a][s] \in {Lit, Dark, Sized, Dimmed}
        PROVE  /\ index > 0 /\ index \in DOMAIN snapshot
               /\ IF s \in Alphas THEN cfg.style = "dim" /\ a # snapshot[index].address
                                  ELSE a = snapshot[index].address
    <3>1. <<a, s>> \in DOMAIN captured
      BY <2>1, <2>2
    <3>2. index > 0 /\ index \in DOMAIN snapshot /\ head = snapshot[index]
      BY <1>1, <3>1, CapturesInSession DEF BorderInv
    <3>3. IF s \in Alphas THEN cfg.style = "dim" /\ a # head.address ELSE a = head.address
      BY <1>1, <3>1 DEF BorderInv, Placed
    <3> QED  BY <3>2, <3>3
  <2>3. ASSUME NEW a \in up, NEW s \in Slots, <<a, s>> \notin Excused,
               props[a][s] \in {Lit, Dark, Sized}
        PROVE  index > 0 /\ snapshot[index].address = a /\ snapshot[index] \in valid
    <3>1. s \notin Alphas
      BY <2>1, <2>3, ValueFacts, SlotFacts DEF Marks
    <3>2. index > 0 /\ index \in DOMAIN snapshot /\ a = snapshot[index].address
      BY <2>2, <2>3, <3>1
    <3>3. PICK k \in DOMAIN snapshot : snapshot[k] = [address |-> a, generation |-> gen[a]]
      BY <2>1, <2>3 DEF present
    <3>4. k = index
      BY <1>1, <3>2, <3>3 DEF BorderInv, Aged, Apart
    <3> QED  BY <3>2, <3>3, <3>4 DEF valid
  <2>4. ASSUME NEW a \in up, NEW s \in Slots, <<a, s>> \notin Excused,
               props[a][s] = Dimmed
        PROVE  index > 0 /\ snapshot[index].address # a /\ cfg.style = "dim"
    <3>1. s \in Alphas
      BY <2>1, <2>4, ValueFacts DEF Marks
    <3> QED  BY <2>2, <2>4, <3>1
  <2> QED  BY <2>3, <2>4 DEF MarksFollowSelection
<1> QED  BY <1>1, BorderInvariant, PTL

=============================================================================
