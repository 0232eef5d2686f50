----------------------- MODULE IdentityRegistryProofs -----------------------
(***************************************************************************)
(* Proofs about IdentityRegistry, for any objects and addresses, any       *)
(* number of them and any bound on the generations.                        *)
(***************************************************************************)
EXTENDS IdentityRegistry, TLAPS

-----------------------------------------------------------------------------
(***************************************************************************)
(* The inductive invariant.                                                *)
(***************************************************************************)

(* An object has an address once it exists, and no two living objects      *)
(* share one.                                                              *)
Placement ==
  /\ \A o \in Objects : at[o] = Nowhere <=> stage[o] = "unborn"
  /\ \A o, p \in Objects : Alive(o) /\ Alive(p) /\ at[o] = at[p] => o = p

(* The reference of an entry was given to its object, which is or was at   *)
(* that address; a mapped object's entry is open.                          *)
EntriesGiven ==
  \A a \in DOMAIN registry :
    /\ Handed(Ref(registry, a), registry[a].window) \in given
    /\ stage[registry[a].window] = "mapped" => ~registry[a].closed

(* A reference that was given is of a known address and at most as new as  *)
(* the entry; the newest belongs to the entry's object, and the entry is   *)
(* that of a reference's object as long as the object lives.               *)
GivenKnown ==
  \A p \in given :
    /\ p.ref.address \in DOMAIN registry
    /\ at[p.to] = p.ref.address
    /\ p.ref.generation <= registry[p.ref.address].generation
    /\ p.ref.generation = registry[p.ref.address].generation
         => p.to = registry[p.ref.address].window
    /\ Alive(p.to) => registry[p.ref.address].window = p.to

(* What was retired belongs to a dead object, or its entry is closed or    *)
(* has moved on to a newer generation.                                     *)
RetiredStale ==
  \A p \in retired :
    stage[p.to] # "dead" =>
      /\ p \in given
      /\ \/ registry[p.ref.address].closed
         \/ p.ref.generation < registry[p.ref.address].generation

Inv ==
  /\ TypeOK
  /\ Placement
  /\ EntriesGiven
  /\ GivenKnown
  /\ EntryIdentitiesDiffer
  /\ RetiredStale

LEMMA RefFields ==
  ASSUME NEW reg, NEW a, NEW o
  PROVE  /\ Ref(reg, a).address = a /\ Ref(reg, a).generation = reg[a].generation
         /\ Handed(Ref(reg, a), o).ref = Ref(reg, a) /\ Handed(Ref(reg, a), o).to = o
BY DEF Ref, Handed

(* References are equal when address and generation are.                   *)
LEMMA PairFields ==
  ASSUME NEW p \in Pairs
  PROVE  /\ p.ref \in WindowRef /\ p.to \in Objects
         /\ p.ref.address \in Addresses /\ p.ref.generation \in Nat
         /\ p.ref = [address |-> p.ref.address, generation |-> p.ref.generation]
         /\ p = [ref |-> p.ref, to |-> p.to]
BY DEF Pairs, WindowRef

LEMMA InvImplies ==
  ASSUME Inv
  PROVE  MappedWindowResolves /\ ClosedRefStaysInvalid
<1> USE DEF Inv
<1>1. MappedWindowResolves
  <2>1. SUFFICES ASSUME NEW o \in Mapped, NEW p \in given, p.to = o
                 PROVE  HasLiveRef(o) /\ Resolve(Ref(registry, at[o])) = o
    BY DEF MappedWindowResolves
  <2>2. o \in Objects /\ stage[o] = "mapped" /\ Alive(o)
    BY DEF Mapped, Alive
  <2> DEFINE a == p.ref.address
  <2>3. a \in DOMAIN registry /\ at[o] = a /\ registry[a].window = o
    BY <2>1, <2>2 DEF GivenKnown
  <2>4. ~registry[a].closed
    BY <2>2, <2>3 DEF EntriesGiven
  <2> DEFINE f == Ref(registry, a)
  <2>5. f.address = a
    BY DEF Ref
  <2> HIDE DEF a, f
  <2>6. Resolve(Ref(registry, at[o])) = Resolve(f)
    BY <2>3 DEF f
  <2>7. Ref(registry, f.address) = f
    BY <2>5 DEF f
  <2>8. Resolve(f) = o
    BY <2>2, <2>3, <2>4, <2>5, <2>7 DEF Resolve
  <2> QED  BY <2>3, <2>4, <2>6, <2>8 DEF HasLiveRef
<1>2. ClosedRefStaysInvalid
  <2>1. SUFFICES ASSUME NEW p \in retired, Resolve(p.ref) = p.to PROVE FALSE
    BY DEF ClosedRefStaysInvalid
  <2>2. p \in Pairs
    BY DEF TypeOK
  <2>3. p.to # NoObject
    BY <2>2, PairFields, NamesAssumption
  <2>4. /\ p.ref.address \in DOMAIN registry /\ ~registry[p.ref.address].closed
        /\ Ref(registry, p.ref.address) = p.ref /\ Alive(p.to)
    BY <2>1, <2>3 DEF Resolve
  <2>5. p.ref.generation = registry[p.ref.address].generation /\ p.ref.generation \in Nat
    <3>1. Ref(registry, p.ref.address).generation = registry[p.ref.address].generation
      BY DEF Ref
    <3> QED  BY <2>2, <2>4, <3>1, PairFields
  <2>6. stage[p.to] # "dead"
    BY <2>4 DEF Alive
  <2> QED  BY <2>4, <2>5, <2>6 DEF RetiredStale
<1> QED  BY <1>1, <1>2

-----------------------------------------------------------------------------
(***************************************************************************)
(* Handlers that register.  What the four of them have in common: the      *)
(* objects of S are mapped afterwards and were registered, all at          *)
(* different addresses, and nothing else changed.                          *)
(***************************************************************************)
Registers(S, reg) ==
  /\ S \subseteq Objects
  /\ stage' \in [Objects -> Stages]
  /\ at' \in [Objects -> Addresses \cup {Nowhere}]
  /\ \A o \in S : stage'[o] = "mapped" /\ stage[o] # "dead" /\ at'[o] \in Addresses
  /\ \A o \in Objects \ S : stage'[o] = stage[o]
  /\ \A o \in Objects : o \notin S \/ stage[o] # "unborn" => at'[o] = at[o]
  /\ Placement'
  /\ DOMAIN reg = DOMAIN registry \cup {at'[o] : o \in S}
  /\ \A o \in S : reg[at'[o]] = RegisterWindow(registry, at'[o], o)[at'[o]]
  /\ \A a \in DOMAIN registry : (\A o \in S : at'[o] # a) => reg[a] = registry[a]
  /\ Remember(reg, S)
  /\ retired' = retired

LEMMA RegisteredEntry ==
  ASSUME NEW reg, NEW a \in Addresses, NEW o \in Objects,
         \A x \in DOMAIN reg : reg[x] \in Entry
  PROVE  LET e == RegisterWindow(reg, a, o)[a]
         IN  /\ e \in Entry /\ e.window = o /\ ~e.closed
             /\ \/ a \in DOMAIN reg /\ reg[a].window = o /\ e = reg[a]
                \/ a \in DOMAIN reg /\ e.generation > reg[a].generation
                \/ a \notin DOMAIN reg
<1>1. CASE SameIdentity(reg, a, o)
  BY <1>1 DEF SameIdentity, RegisterWindow
<1>2. CASE ~SameIdentity(reg, a, o)
  <2>1. RegisterWindow(reg, a, o)[a] = NewEntry(reg, a, o)
    BY <1>2 DEF RegisterWindow
  <2>2. NextGeneration(reg, a) \in Nat \ {0}
        /\ (a \in DOMAIN reg => NextGeneration(reg, a) > reg[a].generation)
    <3>1. CASE a \in DOMAIN reg
      <4>1. reg[a].generation \in Nat
        BY <3>1 DEF Entry
      <4> QED  BY <3>1, <4>1 DEF NextGeneration
    <3>2. CASE a \notin DOMAIN reg
      BY <3>2 DEF NextGeneration
    <3> QED  BY <3>1, <3>2
  <2>3. /\ NewEntry(reg, a, o) \in Entry /\ NewEntry(reg, a, o).window = o
        /\ ~NewEntry(reg, a, o).closed
        /\ NewEntry(reg, a, o).generation = NextGeneration(reg, a)
    BY <2>2 DEF NewEntry, Entry
  <2> QED  BY <2>1, <2>2, <2>3
<1> QED  BY <1>1, <1>2

LEMMA RegisteringKeepsInv ==
  ASSUME Inv, NEW S, NEW reg, Registers(S, reg)
  PROVE  Inv'
<1> DEFINE new == {Handed(Ref(reg, at'[o]), o) : o \in S}
<1>1. /\ \A a \in DOMAIN registry : a \in Addresses /\ registry[a] \in Entry
      /\ \A p \in given \cup forgotten \cup retired : p \in Pairs
  BY DEF Inv, TypeOK
<1>2. \A o \in S : /\ o \in Objects /\ at'[o] \in Addresses
                   /\ stage'[o] = "mapped" /\ stage[o] # "dead"
  BY DEF Registers
<1>3. \A o \in S : LET e == reg[at'[o]] IN
        /\ e \in Entry /\ e.window = o /\ ~e.closed
        /\ \/ at'[o] \in DOMAIN registry /\ registry[at'[o]].window = o
              /\ e = registry[at'[o]]
           \/ at'[o] \in DOMAIN registry /\ e.generation > registry[at'[o]].generation
           \/ at'[o] \notin DOMAIN registry
  <2>1. SUFFICES ASSUME NEW o \in S
                 PROVE  LET e == reg[at'[o]] IN
                        /\ e \in Entry /\ e.window = o /\ ~e.closed
                        /\ \/ at'[o] \in DOMAIN registry /\ registry[at'[o]].window = o
                              /\ e = registry[at'[o]]
                           \/ /\ at'[o] \in DOMAIN registry
                              /\ e.generation > registry[at'[o]].generation
                           \/ at'[o] \notin DOMAIN registry
    OBVIOUS
  <2> DEFINE a == at'[o]
  <2>2. o \in Objects /\ a \in Addresses
    BY <1>2
  <2>3. reg[a] = RegisterWindow(registry, a, o)[a]
    BY DEF Registers
  <2> HIDE DEF a
  <2>4. LET e == reg[a] IN
        /\ e \in Entry /\ e.window = o /\ ~e.closed
        /\ \/ a \in DOMAIN registry /\ registry[a].window = o /\ e = registry[a]
           \/ a \in DOMAIN registry /\ e.generation > registry[a].generation
           \/ a \notin DOMAIN registry
    BY <1>1, <2>2, <2>3, RegisteredEntry
  <2> QED  BY <2>4 DEF a
<1>4. \A a \in DOMAIN registry : a \in DOMAIN reg
  BY DEF Registers
<1>5. \A a \in DOMAIN reg :
        \/ \E o \in S : a = at'[o]
        \/ a \in DOMAIN registry /\ reg[a] = registry[a] /\ \A o \in S : at'[o] # a
  BY DEF Registers
<1>6. \A p \in new : \E o \in S : p.ref = Ref(reg, at'[o]) /\ p.to = o
                                  /\ p.ref.address = at'[o]
                                  /\ p.ref.generation = reg[at'[o]].generation
  BY RefFields
<1>7. \A o \in S : at'[o] \in DOMAIN reg
  BY DEF Registers
<1>8. \A p \in given \cup new : p.ref.address \in DOMAIN reg
  BY <1>4, <1>6, <1>7 DEF Inv, GivenKnown
<1>9. registry' = reg /\ given' = given \cup new /\ forgotten' = forgotten
  BY <1>8 DEF Registers, Remember
<1>10. \A o \in S : Handed(Ref(reg, at'[o]), o) \in new
  OBVIOUS
<1> HIDE DEF new
<1>11. \A a \in DOMAIN reg : reg[a] \in Entry /\ a \in Addresses
  BY <1>1, <1>2, <1>3, <1>5
<1>12. \A a \in DOMAIN registry : reg[a].generation >= registry[a].generation
       /\ (reg[a].generation = registry[a].generation => reg[a] = registry[a])
  <2>1. \A a \in DOMAIN reg : reg[a].generation \in Nat
    BY <1>11 DEF Entry
  <2>2. \A a \in DOMAIN registry : registry[a].generation \in Nat
    BY <1>1 DEF Entry
  <2>3. ASSUME NEW a \in DOMAIN registry
        PROVE  reg[a] = registry[a] \/ reg[a].generation > registry[a].generation
    BY <1>3, <1>4, <1>5
  <2> QED  BY <1>4, <2>1, <2>2, <2>3
<1>13. TypeOK'
  <2>1. new \subseteq Pairs
    <3>1. \A a \in DOMAIN reg : Ref(reg, a) \in WindowRef
      BY <1>11 DEF Ref, WindowRef, Entry
    <3>2. \A o \in S : Handed(Ref(reg, at'[o]), o) \in Pairs
      BY <1>2, <1>7, <3>1 DEF Handed, Pairs
    <3> QED  BY <3>2 DEF new
  <2> QED  BY <1>9, <1>11, <2>1 DEF Inv, TypeOK, Registers
<1>14. \A o \in Objects : stage'[o] = "mapped" => o \in S \/ stage[o] = "mapped"
  BY DEF Registers
<1>15. ASSUME NEW a \in DOMAIN registry, \A o \in S : at'[o] # a
       PROVE  stage'[registry[a].window] = "mapped" =>
                /\ stage[registry[a].window] = "mapped"
  <2>1. registry[a].window \in Objects
    BY <1>1 DEF Entry
  <2>2. at[registry[a].window] = a /\ a # Nowhere
    <3>1. Handed(Ref(registry, a), registry[a].window) \in given
      BY DEF Inv, EntriesGiven
    <3> QED  BY <1>1, <3>1, RefFields, NamesAssumption DEF Inv, GivenKnown
  <2>3. stage[registry[a].window] # "unborn"
    BY <2>1, <2>2 DEF Inv, Placement
  <2>4. registry[a].window \notin S
    BY <1>15, <2>1, <2>2, <2>3 DEF Registers
  <2> QED  BY <1>14, <2>1, <2>4
<1>16. EntriesGiven'
  <2>1. ASSUME NEW a \in DOMAIN reg
        PROVE  /\ Handed(Ref(reg, a), reg[a].window) \in given \cup new
               /\ stage'[reg[a].window] = "mapped" => ~reg[a].closed
    <3>1. CASE \E o \in S : a = at'[o]
      BY <1>3, <1>10, <3>1
    <3>2. CASE a \in DOMAIN registry /\ reg[a] = registry[a] /\ \A o \in S : at'[o] # a
      <4>1. Ref(reg, a) = Ref(registry, a)
        BY <3>2 DEF Ref
      <4> QED  BY <1>15, <3>2, <4>1 DEF Inv, EntriesGiven
    <3> QED  BY <1>5, <3>1, <3>2
  <2> QED  BY <1>9, <2>1 DEF EntriesGiven
<1>17. ASSUME NEW p \in given
       PROVE  /\ at'[p.to] = p.ref.address
              /\ p.ref.generation <= reg[p.ref.address].generation
              /\ p.ref.generation = reg[p.ref.address].generation
                   => p.to = reg[p.ref.address].window
              /\ Alive(p.to)' => reg[p.ref.address].window = p.to
  <2> DEFINE a == p.ref.address
  <2>1. /\ p \in Pairs /\ p.to \in Objects /\ a \in Addresses /\ p.ref.generation \in Nat
    BY <1>1, PairFields
  <2>2. /\ a \in DOMAIN registry /\ at[p.to] = a
        /\ p.ref.generation <= registry[a].generation
        /\ p.ref.generation = registry[a].generation => p.to = registry[a].window
        /\ Alive(p.to) => registry[a].window = p.to
    BY DEF Inv, GivenKnown
  <2>3. stage[p.to] # "unborn"
    BY <2>1, <2>2, NamesAssumption DEF Inv, Placement
  <2>4. at'[p.to] = a
    BY <2>1, <2>2, <2>3 DEF Registers
  <2>5. registry[a].generation \in Nat /\ reg[a].generation \in Nat
    BY <1>1, <1>4, <1>11, <2>2 DEF Entry
  <2>6. p.ref.generation <= reg[a].generation
    BY <1>12, <2>1, <2>2, <2>5
  <2>7. p.ref.generation = reg[a].generation => p.to = reg[a].window
    <3>1. SUFFICES ASSUME p.ref.generation = reg[a].generation PROVE p.to = reg[a].window
      OBVIOUS
    <3>2. reg[a].generation = registry[a].generation
      BY <1>12, <2>1, <2>2, <2>5, <3>1
    <3> QED  BY <1>12, <2>2, <3>1, <3>2
  <2>8. Alive(p.to)' => reg[a].window = p.to
    <3>1. SUFFICES ASSUME stage'[p.to] \in {"mapped", "unmapped"} PROVE reg[a].window = p.to
      BY DEF Alive
    <3>2. CASE \E o \in S : a = at'[o]
      <4>1. PICK o \in S : a = at'[o]
        BY <3>2
      <4>2. o = p.to
        BY <1>2, <2>1, <2>4, <3>1, <4>1 DEF Registers, Placement, Alive
      <4> QED  BY <1>3, <4>1, <4>2
    <3>3. CASE reg[a] = registry[a] /\ \A o \in S : at'[o] # a
      <4>1. p.to \notin S
        BY <2>4, <3>3
      <4>2. Alive(p.to)
        BY <2>1, <3>1, <4>1 DEF Registers, Alive
      <4> QED  BY <2>2, <3>3, <4>2
    <3> QED  BY <1>4, <1>5, <2>2, <3>2, <3>3
  <2> QED  BY <2>4, <2>6, <2>7, <2>8
<1>18. ASSUME NEW p \in new
       PROVE  /\ at'[p.to] = p.ref.address
              /\ p.ref.generation = reg[p.ref.address].generation
              /\ p.to = reg[p.ref.address].window
  BY <1>3, <1>6
<1>19. \A p \in given \cup new : p.ref.address \in DOMAIN reg
  BY <1>8
<1>20. GivenKnown'
  <2>1. ASSUME NEW p \in new PROVE p.ref.generation <= reg[p.ref.address].generation
    <3>1. reg[p.ref.address].generation \in Nat
      BY <1>11, <1>19 DEF Entry
    <3> QED  BY <1>18, <3>1
  <2> QED  BY <1>9, <1>17, <1>18, <1>19, <2>1 DEF GivenKnown
<1>21. EntryIdentitiesDiffer'
  <2>1. ASSUME NEW p \in given \cup new, NEW q \in new, p.ref = q.ref
        PROVE  p.to = q.to
    BY <1>17, <1>18, <2>1
  <2>2. ASSUME NEW p \in given \cup new, NEW q \in given \cup new, p.ref = q.ref
        PROVE  p.to = q.to
    BY <2>1, <2>2 DEF Inv, EntryIdentitiesDiffer
  <2> QED  BY <1>9, <2>2 DEF EntryIdentitiesDiffer
<1>22. RetiredStale'
  <2>1. SUFFICES ASSUME NEW p \in retired, stage'[p.to] # "dead"
                 PROVE  /\ p \in given \cup new
                        /\ \/ reg[p.ref.address].closed
                           \/ p.ref.generation < reg[p.ref.address].generation
    BY <1>9 DEF RetiredStale, Registers
  <2>2. p \in Pairs /\ p.to \in Objects /\ p.ref.generation \in Nat
    BY <1>1, PairFields
  <2>3. stage[p.to] # "dead"
    BY <2>1, <2>2 DEF Registers
  <2>4. p \in given /\ \/ registry[p.ref.address].closed
                       \/ p.ref.generation < registry[p.ref.address].generation
    BY <2>3 DEF Inv, RetiredStale
  <2> DEFINE a == p.ref.address
  <2>5. /\ a \in DOMAIN registry /\ p.ref.generation <= registry[a].generation
    BY <2>4 DEF Inv, GivenKnown
  <2>6. registry[a].generation \in Nat /\ reg[a].generation \in Nat
    BY <1>1, <1>4, <1>11, <2>5 DEF Entry
  <2>7. CASE reg[a].generation = registry[a].generation
    BY <1>12, <2>4, <2>5, <2>7
  <2>8. CASE reg[a].generation > registry[a].generation
    BY <2>2, <2>4, <2>5, <2>6, <2>8
  <2> QED  BY <1>12, <2>4, <2>5, <2>6, <2>7, <2>8
<1> QED  BY <1>13, <1>16, <1>20, <1>21, <1>22 DEF Inv, Registers

LEMMA OpenKeepsInv ==
  ASSUME Inv, NEW o \in Objects, NEW a \in Addresses, Open(o, a)
  PROVE  Inv'
<1> DEFINE reg == RegisterWindow(registry, a, o)
<1>1. /\ stage[o] = "unborn" /\ stage' = [stage EXCEPT ![o] = "mapped"]
      /\ at' = [at EXCEPT ![o] = a] /\ retired' = retired
      /\ \A p \in Objects : Alive(p) => at[p] # a
      /\ Remember(reg, {o})
  BY DEF Open
<1>2. stage \in [Objects -> Stages] /\ at \in [Objects -> Addresses \cup {Nowhere}]
      /\ Placement
  BY DEF Inv, TypeOK
<1>3. /\ stage' \in [Objects -> Stages] /\ at' \in [Objects -> Addresses \cup {Nowhere}]
      /\ stage'[o] = "mapped" /\ at'[o] = a
      /\ \A p \in Objects : p # o => stage'[p] = stage[p] /\ at'[p] = at[p]
  BY <1>1, <1>2 DEF Stages
<1>4. Placement'
  <2>1. \A p \in Objects : at'[p] = Nowhere <=> stage'[p] = "unborn"
    BY <1>2, <1>3, NamesAssumption DEF Placement
  <2>2. ASSUME NEW p \in Objects, NEW q \in Objects, Alive(p)', Alive(q)', at'[p] = at'[q]
        PROVE  p = q
    BY <1>1, <1>2, <1>3, <2>2 DEF Placement, Alive
  <2> QED  BY <2>1, <2>2 DEF Placement
<1>5. /\ DOMAIN reg = DOMAIN registry \cup {a}
      /\ \A x \in DOMAIN registry : x # a => reg[x] = registry[x]
  BY DEF RegisterWindow, SameIdentity
<1> HIDE DEF reg
<1>6. Registers({o}, reg)
  BY <1>1, <1>3, <1>4, <1>5 DEF Registers, reg
<1> QED  BY <1>6, RegisteringKeepsInv

(* A handler that registers objects that are mapped afterwards, all of     *)
(* which existed before.                                                   *)
LEMMA SeenAgain ==
  ASSUME Inv, NEW S, NEW reg, S \subseteq Objects,
         at' = at, retired' = retired, stage' \in [Objects -> Stages],
         \A o \in S : Alive(o) /\ stage'[o] = "mapped",
         \A o \in Objects \ S : stage'[o] = stage[o],
         DOMAIN reg = DOMAIN registry \cup {at[o] : o \in S},
         \A o \in S : reg[at[o]] = RegisterWindow(registry, at[o], o)[at[o]],
         \A a \in DOMAIN registry : (\A o \in S : at[o] # a) => reg[a] = registry[a],
         Remember(reg, S)
  PROVE  Inv'
<1>1. at \in [Objects -> Addresses \cup {Nowhere}] /\ Placement
  BY DEF Inv, TypeOK
<1>2. \A o \in Objects : (Alive(o)' <=> Alive(o)) /\ (stage'[o] = "unborn" <=> stage[o] = "unborn")
  BY DEF Alive
<1>3. Placement'
  BY <1>1, <1>2 DEF Placement
<1>4. \A o \in S : at[o] \in Addresses /\ stage[o] # "dead"
  BY <1>1 DEF Placement, Alive
<1>5. Registers(S, reg)
  BY <1>1, <1>3, <1>4 DEF Registers
<1> QED  BY <1>5, RegisteringKeepsInv

LEMMA ReopenActiveKeepInv ==
  ASSUME Inv, NEW o \in Objects, Reopen(o) \/ Active(o)
  PROVE  Inv'
<1> DEFINE a == at[o]
           reg == RegisterWindow(registry, a, o)
<1>1. /\ Alive(o) /\ at' = at /\ retired' = retired
      /\ Remember(reg, {o})
  BY DEF Reopen, Active, Mapped, Alive
<1>2. /\ stage' \in [Objects -> Stages] /\ stage'[o] = "mapped"
      /\ \A p \in Objects \ {o} : stage'[p] = stage[p]
  BY DEF Inv, TypeOK, Stages, Reopen, Active, Mapped
<1>3. /\ DOMAIN reg = DOMAIN registry \cup {a}
      /\ \A x \in DOMAIN registry : x # a => reg[x] = registry[x]
      /\ reg[a] = RegisterWindow(registry, at[o], o)[a]
  BY DEF RegisterWindow, SameIdentity
<1> HIDE DEF reg
<1> QED  BY <1>1, <1>2, <1>3, SeenAgain

LEMMA EnumerateKeepsInv ==
  ASSUME Inv, NEW S \in SUBSET Mapped, Enumerate(S)
  PROVE  Inv'
<1> DEFINE reg == RegisterAll(registry, at, S)
<1>1. /\ stage' = stage /\ at' = at /\ retired' = retired /\ Remember(reg, S)
  BY DEF Enumerate
<1>2. S \subseteq Objects /\ \A o \in S : Alive(o) /\ stage[o] = "mapped"
  BY DEF Mapped, Alive
<1>3. \A o, p \in S : at[o] = at[p] => o = p
  BY <1>2 DEF Inv, Placement
<1>4. DOMAIN reg = DOMAIN registry \cup {at[o] : o \in S}
  BY DEF RegisterAll
<1>5. ASSUME NEW o \in S PROVE reg[at[o]] = RegisterWindow(registry, at[o], o)[at[o]]
  <2>1. (CHOOSE p \in S : at[p] = at[o]) = o
    BY <1>3
  <2> QED  BY <2>1 DEF RegisterAll
<1>6. ASSUME NEW a \in DOMAIN registry, \A o \in S : at[o] # a PROVE reg[a] = registry[a]
  BY <1>6 DEF RegisterAll
<1> HIDE DEF reg
<1>7. stage' \in [Objects -> Stages]
  BY <1>1 DEF Inv, TypeOK
<1> QED  BY <1>1, <1>2, <1>4, <1>5, <1>6, <1>7, SeenAgain

-----------------------------------------------------------------------------
(***************************************************************************)
(* Handlers of a close, and deaths.                                        *)
(***************************************************************************)

(* What on_window_close() leaves: entries of that address are closed, and  *)
(* what is gone was closed and had no living object.                       *)
LEMMA ClosedEntries ==
  ASSUME NEW reg, \A x \in DOMAIN reg : reg[x] \in Entry, NEW a, NEW alive
  PROVE  LET new == OnWindowClose(reg, a, alive)
         IN  /\ \A x \in DOMAIN new :
                  /\ x \in DOMAIN reg /\ new[x] \in Entry
                  /\ new[x].window = reg[x].window
                  /\ new[x].generation = reg[x].generation
                  /\ new[x].closed <=> (x = a \/ reg[x].closed)
             /\ \A x \in DOMAIN reg : reg[x].window \in alive => x \in DOMAIN new
<1> DEFINE marked == [x \in DOMAIN reg |-> [reg[x] EXCEPT !.closed = x = a \/ @]]
           kept == {x \in DOMAIN marked : ~(marked[x].closed /\ marked[x].window \notin alive)}
           new == OnWindowClose(reg, a, alive)
<1>1. ASSUME NEW x \in DOMAIN reg
      PROVE  /\ marked[x] \in Entry /\ marked[x].window = reg[x].window
             /\ marked[x].generation = reg[x].generation
             /\ marked[x].closed <=> (x = a \/ reg[x].closed)
  <2>1. marked[x] = [reg[x] EXCEPT !.closed = (x = a \/ reg[x].closed)]
    OBVIOUS
  <2>2. (x = a \/ reg[x].closed) \in BOOLEAN
    OBVIOUS
  <2> DEFINE b == (x = a \/ reg[x].closed)
             e == reg[x]
  <2>3. e \in Entry /\ b \in BOOLEAN
    BY <2>2
  <2>4. marked[x] = [e EXCEPT !.closed = b]
    BY <2>1
  <2> HIDE DEF b, e, marked
  <2>5. /\ [e EXCEPT !.closed = b] \in Entry /\ [e EXCEPT !.closed = b].closed = b
        /\ [e EXCEPT !.closed = b].window = e.window
        /\ [e EXCEPT !.closed = b].generation = e.generation
    BY <2>3 DEF Entry
  <2>6. /\ marked[x] \in Entry /\ marked[x].closed = b
        /\ marked[x].window = e.window /\ marked[x].generation = e.generation
    BY <2>4, <2>5
  <2> QED  BY <2>6 DEF b, e
<1>2. DOMAIN marked = DOMAIN reg
  OBVIOUS
<1>3. new = [x \in kept |-> marked[x]]
  BY DEF OnWindowClose, PruneClosed, Restrict
<1> HIDE DEF marked, new
<1>4. DOMAIN new = kept /\ \A x \in kept : new[x] = marked[x]
  BY <1>3
<1>5. \A x \in DOMAIN new : x \in DOMAIN reg /\ new[x] = marked[x]
  BY <1>2, <1>4
<1>6. \A x \in DOMAIN reg : reg[x].window \in alive => x \in DOMAIN new
  BY <1>1, <1>2, <1>4
<1> QED  BY <1>1, <1>5, <1>6 DEF new

LEMMA CloseKeepsInv ==
  ASSUME Inv, NEW o \in Objects, Close(o) \/ Destroy(o)
  PROVE  Inv'
<1> DEFINE alive == {p \in Objects : Alive(p)}
           reg == OnWindowClose(registry, at[o], alive)
           gone == {p \in given : p.ref.address \notin DOMAIN reg}
<1>1. /\ Alive(o) /\ at' = at
      /\ retired' = retired \cup {p \in given : p.to = o}
      /\ Remember(reg, {})
  BY DEF Close, Destroy, HandleClose, Mapped, Alive
<1>2. /\ stage' \in [Objects -> Stages] /\ stage'[o] \in {"unmapped", "dead"}
      /\ \A p \in Objects : p # o => stage'[p] = stage[p]
  BY DEF Inv, TypeOK, Stages, Close, Destroy
<1>3. registry' = reg /\ given' = given \ gone /\ forgotten' = forgotten \cup gone
  BY <1>1 DEF Remember
<1>4. /\ \A a \in DOMAIN registry : a \in Addresses /\ registry[a] \in Entry
      /\ \A p \in given \cup forgotten \cup retired : p \in Pairs
  BY DEF Inv, TypeOK
<1>5. /\ \A a \in DOMAIN reg :
           /\ a \in DOMAIN registry /\ reg[a] \in Entry
           /\ reg[a].window = registry[a].window
           /\ reg[a].generation = registry[a].generation
           /\ reg[a].closed <=> (a = at[o] \/ registry[a].closed)
      /\ \A a \in DOMAIN registry : registry[a].window \in alive => a \in DOMAIN reg
  BY <1>4, ClosedEntries
<1> HIDE DEF reg
<1>6. \A p \in given : p \in given' <=> p.ref.address \in DOMAIN reg
  BY <1>3
<1>7. given' \subseteq given
  BY <1>3
<1> HIDE DEF gone
<1>8. gone \subseteq given
  BY DEF gone
<1>9. TypeOK'
  BY <1>1, <1>2, <1>3, <1>4, <1>5, <1>7, <1>8 DEF Inv, TypeOK
<1>10. \A p \in Objects : Alive(p)' => Alive(p)
  BY <1>1, <1>2 DEF Alive
<1>11. Placement'
  <2>1. at[o] # Nowhere /\ stage'[o] # "unborn"
    BY <1>1, <1>2 DEF Inv, Placement, Alive
  <2> QED  BY <1>1, <1>2, <1>10, <2>1 DEF Inv, Placement
<1>12. EntriesGiven'
  <2>1. ASSUME NEW a \in DOMAIN reg
        PROVE  /\ Handed(Ref(reg, a), reg[a].window) \in given'
               /\ stage'[reg[a].window] = "mapped" => ~reg[a].closed
    <3> DEFINE w == registry[a].window
    <3>1. Ref(reg, a) = Ref(registry, a) /\ reg[a].window = w /\ w \in Objects
      BY <1>4, <1>5 DEF Ref, Entry
    <3>2. Handed(Ref(registry, a), w) \in given /\ (stage[w] = "mapped" => ~registry[a].closed)
      BY <1>5 DEF Inv, EntriesGiven
    <3>3. Handed(Ref(registry, a), w).ref.address = a
      BY RefFields
    <3>4. Handed(Ref(reg, a), reg[a].window) \in given'
      BY <1>6, <3>1, <3>2, <3>3
    <3>5. at[w] = a
      BY <3>2, RefFields DEF Inv, GivenKnown
    <3> HIDE DEF w
    <3>6. ASSUME stage'[w] = "mapped" PROVE ~reg[a].closed
      <4>1. w # o /\ stage[w] = "mapped"
        BY <1>2, <3>1, <3>6
      <4>2. a # at[o]
        BY <1>1, <3>1, <3>5, <4>1 DEF Inv, Placement, Alive
      <4> QED  BY <1>5, <3>2, <4>1, <4>2
    <3> QED  BY <3>1, <3>4, <3>6
  <2> QED  BY <1>3, <2>1 DEF EntriesGiven
<1>13. GivenKnown'
  <2>1. ASSUME NEW p \in given'
        PROVE  /\ p.ref.address \in DOMAIN reg
               /\ at[p.to] = p.ref.address
               /\ p.ref.generation <= reg[p.ref.address].generation
               /\ p.ref.generation = reg[p.ref.address].generation
                    => p.to = reg[p.ref.address].window
               /\ Alive(p.to)' => reg[p.ref.address].window = p.to
    <3>1. p \in given /\ p.ref.address \in DOMAIN reg /\ p.to \in Objects
      BY <1>4, <1>6, <1>7, PairFields
    <3> QED  BY <1>5, <1>10, <3>1 DEF Inv, GivenKnown
  <2> QED  BY <1>1, <1>3, <2>1 DEF GivenKnown
<1>14. EntryIdentitiesDiffer'
  BY <1>7 DEF Inv, EntryIdentitiesDiffer
<1>15. RetiredStale'
  <2>1. ASSUME NEW p \in retired \cup {q \in given : q.to = o}, stage'[p.to] # "dead"
        PROVE  /\ p \in given'
               /\ \/ reg[p.ref.address].closed
                  \/ p.ref.generation < reg[p.ref.address].generation
    <3> DEFINE a == p.ref.address
    <3>1. p \in Pairs /\ p.to \in Objects /\ a \in Addresses
      BY <1>4, PairFields
    <3>2. stage[p.to] # "dead"
      BY <1>1, <1>2, <2>1, <3>1 DEF Alive
    <3>3. p \in given /\ (p.to = o \/ registry[a].closed \/ p.ref.generation < registry[a].generation)
      BY <2>1, <3>2 DEF Inv, RetiredStale
    <3>4. a \in DOMAIN registry /\ at[p.to] = a
      BY <3>3 DEF Inv, GivenKnown
    <3>5. Alive(p.to)
      BY <3>1, <3>2, <3>4, NamesAssumption DEF Inv, TypeOK, Placement, Alive, Stages
    <3>6. registry[a].window = p.to
      BY <3>3, <3>5 DEF Inv, GivenKnown
    <3>7. a \in DOMAIN reg
      BY <1>5, <3>1, <3>4, <3>5, <3>6
    <3>8. p \in given'
      BY <1>6, <3>3, <3>7
    <3> QED  BY <1>5, <3>3, <3>4, <3>7, <3>8
  <2> QED  BY <1>1, <1>3, <2>1 DEF RetiredStale
<1> QED  BY <1>9, <1>11, <1>12, <1>13, <1>14, <1>15 DEF Inv

LEMMA DieOrStutterKeepsInv ==
  ASSUME Inv, (\E o \in Objects : Die(o)) \/ UNCHANGED vars
  PROVE  Inv'
<1>1. /\ at' = at /\ registry' = registry /\ given' = given
      /\ forgotten' = forgotten /\ retired' = retired
  BY DEF Die, vars
<1>2. /\ stage' \in [Objects -> Stages]
      /\ \A p \in Objects : stage'[p] = stage[p] \/ (Alive(p) /\ stage'[p] = "dead")
  BY DEF Inv, TypeOK, Stages, Die, vars
<1>3. \A p \in Objects : /\ Alive(p)' => Alive(p)
                         /\ stage'[p] = "unborn" <=> stage[p] = "unborn"
                         /\ stage'[p] = "mapped" => stage[p] = "mapped"
                         /\ stage'[p] # "dead" => stage[p] # "dead"
  BY <1>2 DEF Alive
<1>4. /\ \A a \in DOMAIN registry : registry[a].window \in Objects
      /\ \A p \in given \cup retired : p.to \in Objects
  BY PairFields DEF Inv, TypeOK, Entry
<1>5. TypeOK'
  BY <1>1, <1>2 DEF Inv, TypeOK
<1>6. Placement'
  BY <1>1, <1>3 DEF Inv, Placement
<1>7. EntriesGiven'
  BY <1>1, <1>3, <1>4 DEF Inv, EntriesGiven, Ref
<1>8. GivenKnown' /\ EntryIdentitiesDiffer' /\ RetiredStale'
  BY <1>1, <1>3, <1>4 DEF Inv, GivenKnown, EntryIdentitiesDiffer, RetiredStale
<1> QED  BY <1>5, <1>6, <1>7, <1>8 DEF Inv

LEMMA InitInv ==
  ASSUME Init
  PROVE  Inv
<1>1. /\ stage \in [Objects -> {"unborn", "mapped", "unmapped"}]
      /\ at \in [Objects -> Addresses \cup {Nowhere}] /\ Placement
      /\ forgotten = {} /\ retired = {}
  BY DEF Init, Placement
<1>2. PICK S \in SUBSET Mapped :
        /\ registry = [a \in {at[o] : o \in S} |->
                         [generation |-> 1, closed |-> FALSE,
                          window |-> CHOOSE o \in S : at[o] = a]]
        /\ given = {Handed([address |-> at[o], generation |-> 1], o) : o \in S}
  BY DEF Init
<1>3. \A o \in S : o \in Objects /\ stage[o] = "mapped" /\ Alive(o) /\ at[o] \in Addresses
  BY <1>1 DEF Mapped, Alive, Placement
<1>4. \A o, p \in S : at[o] = at[p] => o = p
  BY <1>1, <1>3 DEF Placement
<1>5. ASSUME NEW o \in S
      PROVE  /\ at[o] \in DOMAIN registry
             /\ registry[at[o]] = [generation |-> 1, closed |-> FALSE, window |-> o]
  <2>1. (CHOOSE p \in S : at[p] = at[o]) = o
    BY <1>4
  <2> QED  BY <1>2, <2>1
<1>6. ASSUME NEW o \in S
      PROVE  /\ registry[at[o]].generation = 1 /\ registry[at[o]].closed = FALSE
             /\ registry[at[o]].window = o
             /\ Ref(registry, at[o]) = [address |-> at[o], generation |-> 1]
  <2>1. registry[at[o]] = [generation |-> 1, closed |-> FALSE, window |-> o]
    BY <1>5
  <2>2. registry[at[o]].generation = 1
    BY <2>1
  <2>3. registry[at[o]].closed = FALSE
    BY <2>1
  <2>4. registry[at[o]].window = o
    BY <2>1
  <2>5. Ref(registry, at[o]) = [address |-> at[o], generation |-> 1]
    BY <2>2 DEF Ref
  <2> QED  BY <2>2, <2>3, <2>4, <2>5
<1>7. \A a \in DOMAIN registry : \E o \in S : a = at[o]
  BY <1>2
<1>8. ASSUME NEW p \in given
      PROVE  \E o \in S : /\ p.to = o /\ p.ref = Ref(registry, at[o])
                          /\ p.ref.address = at[o] /\ p.ref.generation = 1
  <2>1. PICK o \in S : p = Handed([address |-> at[o], generation |-> 1], o)
    BY <1>2
  <2>2. p.to = o /\ p.ref = [address |-> at[o], generation |-> 1]
    BY <2>1 DEF Handed
  <2>3. p.ref.address = at[o] /\ p.ref.generation = 1
    BY <2>2
  <2>4. p.ref = Ref(registry, at[o])
    BY <2>2, <1>6
  <2> QED  BY <2>2, <2>3, <2>4
<1>9. ASSUME NEW o \in S
      PROVE  Handed(Ref(registry, at[o]), o) \in given
  <2>1. Handed([address |-> at[o], generation |-> 1], o) \in given
    BY <1>2
  <2> QED  BY <2>1, <1>6
<1>10. TypeOK
  <2>1. ASSUME NEW o \in S
        PROVE  registry[at[o]] \in Entry
    <3>1. registry[at[o]] = [generation |-> 1, closed |-> FALSE, window |-> o]
      BY <1>5
    <3>2. o \in Objects /\ 1 \in Nat \ {0} /\ FALSE \in BOOLEAN
      BY <1>3
    <3> QED  BY <3>1, <3>2 DEF Entry
  <2>2. \A o \in S : Handed([address |-> at[o], generation |-> 1], o) \in Pairs
    BY <1>3 DEF Handed, Pairs, WindowRef
  <2>3. given \subseteq Pairs
    BY <1>2, <2>2
  <2>4. DOMAIN registry \subseteq Addresses /\ \A a \in DOMAIN registry : registry[a] \in Entry
    BY <1>3, <1>7, <2>1
  <2> QED  BY <1>1, <2>3, <2>4 DEF TypeOK, Stages
<1>11. EntriesGiven
  <2>1. ASSUME NEW a \in DOMAIN registry
        PROVE  /\ Handed(Ref(registry, a), registry[a].window) \in given
               /\ stage[registry[a].window] = "mapped" => ~registry[a].closed
    <3>1. PICK o \in S : a = at[o]
      BY <1>7
    <3>2. registry[a].window = o /\ registry[a].closed = FALSE
      BY <1>6, <3>1
    <3>3. Handed(Ref(registry, a), o) \in given
      BY <1>9, <3>1
    <3> QED  BY <3>2, <3>3
  <2> QED  BY <2>1 DEF EntriesGiven
<1>12. GivenKnown
  <2>1. ASSUME NEW p \in given
        PROVE  /\ p.ref.address \in DOMAIN registry
               /\ at[p.to] = p.ref.address
               /\ p.ref.generation <= registry[p.ref.address].generation
               /\ p.to = registry[p.ref.address].window
    <3>1. PICK o \in S : p.to = o /\ p.ref.address = at[o] /\ p.ref.generation = 1
      BY <1>8
    <3>2. at[o] \in DOMAIN registry
      BY <1>5
    <3>3. registry[at[o]].generation = 1 /\ registry[at[o]].window = o
      BY <1>6
    <3> QED  BY <3>1, <3>2, <3>3
  <2> QED  BY <2>1 DEF GivenKnown
<1>13. EntryIdentitiesDiffer
  BY <1>4, <1>8 DEF EntryIdentitiesDiffer
<1>14. RetiredStale
  BY <1>1 DEF RetiredStale
<1> QED  BY <1>1, <1>10, <1>11, <1>12, <1>13, <1>14 DEF Inv

-----------------------------------------------------------------------------
(***************************************************************************)
(* The theorems.                                                           *)
(***************************************************************************)

(* The invariant holds in every state the registry can reach.              *)
THEOREM RegistryInvariance == Spec => []Inv
<1>1. Init => Inv
  BY InitInv
<1>2. Inv /\ [Next]_vars => Inv'
  BY OpenKeepsInv, ReopenActiveKeepInv, EnumerateKeepsInv, CloseKeepsInv,
     DieOrStutterKeepsInv DEF Next
<1> QED  BY <1>1, <1>2, PTL DEF Spec

(* No entry is ever without an object or with generation 0.                *)
THEOREM RegistryTyped == Spec => []TypeOK
<1>1. Inv => TypeOK
  BY DEF Inv
<1> QED  BY <1>1, RegistryInvariance, PTL

(* A mapped window the plugin has seen resolves, whatever came before it   *)
(* at its address and however often it was unmapped.                       *)
THEOREM MappedResolves == Spec => []MappedWindowResolves
<1>1. Inv => MappedWindowResolves
  BY InvImplies
<1> QED  BY <1>1, RegistryInvariance, PTL

(* What was invalidated by a close stays invalid for its window.           *)
THEOREM ClosedStaysInvalid == Spec => []ClosedRefStaysInvalid
<1>1. Inv => ClosedRefStaysInvalid
  BY InvImplies
<1> QED  BY <1>1, RegistryInvariance, PTL

(* While an entry exists, no two windows get the same reference from it.   *)
THEOREM IdentitiesDiffer == Spec => []EntryIdentitiesDiffer
<1>1. Inv => EntryIdentitiesDiffer
  BY DEF Inv
<1> QED  BY <1>1, RegistryInvariance, PTL

=============================================================================
