-------------------------- MODULE IdentityRegistry --------------------------
(***************************************************************************)
(* WindowIdentityRegistry (identity_registry.cpp) and the handlers that    *)
(* call it: the window listeners (plugin_events.cpp) and the enumeration   *)
(* of candidates (hypr_window_source.cpp).                                 *)
(*                                                                         *)
(* A window object of the compositor lives at an address.  It is mapped    *)
(* when it opens, may be unmapped (which emits window.close) and mapped    *)
(* again, and dies, after which another object may get its address.  The   *)
(* registry turns an object into a WindowRef, address and generation, and  *)
(* a WindowRef back into the object while that is valid.                   *)
(*                                                                         *)
(* An entry keeps generation and next_generation; the second is always one *)
(* more than the first, so only the first is modelled.  Registration order *)
(* (seq) decides only the order of live_refs_newest_first and is left out. *)
(***************************************************************************)
EXTENDS Integers, Functions

CONSTANTS Objects,       \* window objects; each is created at most once
          Addresses,     \* addresses they may have
          Nowhere,       \* the address of an object that does not exist yet
          NoObject,      \* the null PHLWINDOW
          MaxGeneration  \* bound: generations before re-opening stops

ASSUME NamesAssumption == Nowhere \notin Addresses /\ NoObject \notin Objects

ASSUME GenerationAssumption == MaxGeneration \in Nat

Stages == {"unborn", "mapped", "unmapped", "dead"}

WindowRef == [address : Addresses, generation : Nat \ {0}]

Entry == [generation : Nat \ {0}, closed : BOOLEAN, window : Objects]

VARIABLES
  stage,      \* what has become of each object
  at,         \* the address of each object that exists or existed
  registry,   \* by_address_: a function on the known addresses
  given,      \* history: references handed out, entries that still exist
  forgotten,  \* history: the same for entries that were erased
  retired     \* history: references whose close was handled

vars == <<stage, at, registry, given, forgotten, retired>>

Alive(o) == stage[o] \in {"mapped", "unmapped"}

Mapped == {o \in Objects : stage[o] = "mapped"}

Ref(reg, a) == [address |-> a, generation |-> reg[a].generation]

Handed(ref, o) == [ref |-> ref, to |-> o]

-----------------------------------------------------------------------------
(***************************************************************************)
(* The methods of the registry, for objects at the addresses in loc.       *)
(***************************************************************************)

(* Fault: the weak reference is not compared.                              *)
SameAddress(reg, a, o) == a \in DOMAIN reg /\ ~reg[a].closed

(* register_window(): a known, open entry of the same live object keeps    *)
(* its identity, anything else gets the next generation.                   *)
SameIdentity(reg, a, o) ==
  a \in DOMAIN reg /\ ~reg[a].closed /\ reg[a].window = o

NextGeneration(reg, a) ==
  IF a \in DOMAIN reg THEN reg[a].generation + 1 ELSE 1

(* Fault: the entry of a re-opened window stays closed.                    *)
NewEntryKeepingClosed(reg, a, o) ==
  [generation |-> NextGeneration(reg, a),
   closed |-> a \in DOMAIN reg /\ reg[a].closed, window |-> o]

NewEntry(reg, a, o) ==
  [generation |-> NextGeneration(reg, a), closed |-> FALSE, window |-> o]

RegisterWindow(reg, a, o) ==
  IF SameIdentity(reg, a, o)
    THEN reg
    ELSE [x \in DOMAIN reg \cup {a} |-> IF x = a THEN NewEntry(reg, a, o) ELSE reg[x]]

(* register_window() for each object of S, all at different addresses.     *)
RegisterAll(reg, loc, S) ==
  [x \in DOMAIN reg \cup {loc[o] : o \in S} |->
     IF \E o \in S : loc[o] = x
       THEN RegisterWindow(reg, x, CHOOSE o \in S : loc[o] = x)[x]
       ELSE reg[x]]

(* Fault: every closed entry goes, whether its object lives or not.        *)
PruneEveryClosed(reg, alive) ==
  Restrict(reg, {a \in DOMAIN reg : ~reg[a].closed})

(* prune_closed(): erase what is closed and whose object is gone.          *)
PruneClosed(reg, alive) ==
  Restrict(reg, {a \in DOMAIN reg : ~(reg[a].closed /\ reg[a].window \notin alive)})

(* on_window_close(): mark what is known at that address, then prune.      *)
(* The fault creates an entry for an address that has none.                *)
OnWindowCloseCreating(reg, a, alive) ==
  PruneClosed([x \in DOMAIN reg \cup {a} |->
                 IF x \in DOMAIN reg THEN [reg[x] EXCEPT !.closed = x = a \/ @]
                 ELSE [generation |-> 0, closed |-> TRUE, window |-> NoObject]],
              alive \cup {NoObject})

OnWindowClose(reg, a, alive) ==
  PruneClosed([x \in DOMAIN reg |-> [reg[x] EXCEPT !.closed = x = a \/ @]], alive)

(* live_ref() would give the entry's reference: it is known and not closed.*)
HasLiveRef(o) == at[o] \in DOMAIN registry /\ ~registry[at[o]].closed

(* resolve(): the object while entry, flag, generation and weak reference  *)
(* all agree.                                                              *)
Resolve(ref) ==
  IF /\ ref.address \in DOMAIN registry
     /\ ~registry[ref.address].closed
     /\ Ref(registry, ref.address) = ref
     /\ Alive(registry[ref.address].window)
    THEN registry[ref.address].window
    ELSE NoObject

-----------------------------------------------------------------------------
(***************************************************************************)
(* The plugin loads among windows that are already there, and registers    *)
(* those the compositor's history knows.                                   *)
(***************************************************************************)
Init ==
  /\ stage \in [Objects -> {"unborn", "mapped", "unmapped"}]
  /\ at \in [Objects -> Addresses \cup {Nowhere}]
  /\ \A o \in Objects : at[o] = Nowhere <=> stage[o] = "unborn"
  /\ \A o, p \in Objects : Alive(o) /\ Alive(p) /\ at[o] = at[p] => o = p
  /\ \E S \in SUBSET Mapped :
       /\ registry = [a \in {at[o] : o \in S} |->
                        [generation |-> 1, closed |-> FALSE,
                         window |-> CHOOSE o \in S : at[o] = a]]
       /\ given = {Handed([address |-> at[o], generation |-> 1], o) : o \in S}
  /\ forgotten = {} /\ retired = {}

(* The bookkeeping of the histories when registry becomes reg and the      *)
(* references of S are handed out.                                         *)
Remember(reg, S) ==
  LET handed == given \cup {Handed(Ref(reg, at'[o]), o) : o \in S}
      gone   == {p \in handed : p.ref.address \notin DOMAIN reg}
  IN  /\ registry' = reg
      /\ given' = handed \ gone
      /\ forgotten' = forgotten \cup gone

(* window.open of a new object at an address no living object has.         *)
Open(o, a) ==
  /\ stage[o] = "unborn"
  /\ \A p \in Objects : Alive(p) => at[p] # a
  /\ stage' = [stage EXCEPT ![o] = "mapped"]
  /\ at' = [at EXCEPT ![o] = a]
  /\ Remember(RegisterWindow(registry, a, o), {o})
  /\ UNCHANGED retired

(* window.open of an object that was unmapped.                             *)
Reopen(o) ==
  /\ stage[o] = "unmapped"
  /\ NextGeneration(registry, at[o]) <= MaxGeneration
  /\ stage' = [stage EXCEPT ![o] = "mapped"]
  /\ UNCHANGED at
  /\ Remember(RegisterWindow(registry, at[o], o), {o})
  /\ UNCHANGED retired

(* window.active.                                                          *)
Active(o) ==
  /\ o \in Mapped
  /\ UNCHANGED <<stage, at, retired>>
  /\ Remember(RegisterWindow(registry, at[o], o), {o})

(* candidates(): every mapped window the compositor's history holds.       *)
Enumerate(S) ==
  /\ S \subseteq Mapped
  /\ UNCHANGED <<stage, at, retired>>
  /\ Remember(RegisterAll(registry, at, S), S)

(* The close of o retires every reference it was given, then the listener  *)
(* runs while o still lives.                                               *)
HandleClose(o) ==
  /\ retired' = retired \cup {p \in given : p.to = o}
  /\ Remember(OnWindowClose(registry, at[o], {p \in Objects : Alive(p)}), {})

(* window.close: the window is unmapped, its object lives on.              *)
Close(o) ==
  /\ o \in Mapped
  /\ stage' = [stage EXCEPT ![o] = "unmapped"]
  /\ UNCHANGED at
  /\ HandleClose(o)

(* window.destroy while the weak pointer still locks: the object dies      *)
(* after the listener.                                                     *)
Destroy(o) ==
  /\ Alive(o)
  /\ stage' = [stage EXCEPT ![o] = "dead"]
  /\ UNCHANGED at
  /\ HandleClose(o)

(* The object dies and no listener acts: there is no event, or the weak    *)
(* pointer of window.destroy no longer locks.                              *)
Die(o) ==
  /\ Alive(o)
  /\ stage' = [stage EXCEPT ![o] = "dead"]
  /\ UNCHANGED <<at, registry, given, forgotten, retired>>

Next ==
  \/ \E o \in Objects, a \in Addresses : Open(o, a)
  \/ \E o \in Objects : Reopen(o)
  \/ \E o \in Objects : Active(o)
  \/ \E S \in SUBSET Mapped : Enumerate(S)
  \/ \E o \in Objects : Close(o)
  \/ \E o \in Objects : Destroy(o)
  \/ \E o \in Objects : Die(o)

Spec == Init /\ [][Next]_vars

-----------------------------------------------------------------------------
(***************************************************************************)
(* Properties.                                                             *)
(***************************************************************************)

Pairs == [ref : WindowRef, to : Objects]

(* Every variable keeps its type: no entry is ever without an object or    *)
(* with the generation 0 of an unset WindowRef.                            *)
TypeOK ==
  /\ stage \in [Objects -> Stages]
  /\ at \in [Objects -> Addresses \cup {Nowhere}]
  /\ DOMAIN registry \subseteq Addresses
  /\ \A a \in DOMAIN registry : registry[a] \in Entry
  /\ given \subseteq Pairs /\ forgotten \subseteq Pairs /\ retired \subseteq Pairs

(* A mapped window the plugin has seen always resolves, through any number *)
(* of unmaps and re-maps, and whatever was at its address before: apply    *)
(* can focus it and validity checks keep it.                               *)
MappedWindowResolves ==
  \A o \in Mapped :
    (\E p \in given : p.to = o) =>
      HasLiveRef(o) /\ Resolve(Ref(registry, at[o])) = o

(* A reference whose close was handled never leads to that window again,   *)
(* not even after the window was mapped again: what was pruned for it from *)
(* a snapshot stays invalid (REQ-F-005).                                   *)
ClosedRefStaysInvalid ==
  \A p \in retired : Resolve(p.ref) # p.to

(* As long as the entry of an address exists, windows that follow each     *)
(* other at it have different references, also when the first one died     *)
(* without a close event (ADR-013).                                        *)
EntryIdentitiesDiffer ==
  \A p, q \in given : p.ref = q.ref => p.to = q.to

-----------------------------------------------------------------------------
(***************************************************************************)
(* What the documentation says and the code does not do.                   *)
(***************************************************************************)

(* SPEC.md REQ-ID-002: a reference of a closed window is never equal to    *)
(* that of a later one at its address.  Once the entry was erased, the     *)
(* generations of its address start again at 1.                            *)
IdentityNeverReused ==
  \A p, q \in given \cup forgotten : p.ref = q.ref => p.to = q.to

(* SPEC.md REQ-ID-006: a reference whose weak pointer locks and whose      *)
(* generation matches is valid, whatever close events were delivered.      *)
ValidityIsTheWeakLock ==
  \A a \in DOMAIN registry :
    Alive(registry[a].window) => Resolve(Ref(registry, a)) = registry[a].window

=============================================================================
