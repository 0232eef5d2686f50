--------------------------- MODULE MruListTheorems ---------------------------
(***************************************************************************)
(* Facts about the operators of MruList and Selection, for lists of any    *)
(* length, and their proofs.                                               *)
(***************************************************************************)
EXTENDS MruList, Selection, FiniteSetTheorems, SequenceTheorems,
        WellFoundedInduction, TLAPS

-----------------------------------------------------------------------------
(***************************************************************************)
(* Positions.                                                              *)
(***************************************************************************)

(* A non-empty set of naturals has a least element.                        *)
LEMMA LeastNat ==
  ASSUME NEW K, K \subseteq Nat, K # {}
  PROVE  \E m \in K : \A k \in K : m <= k
<1> DEFINE Less == {p \in Nat \X Nat : p[1] < p[2]}
<1>1. IsWellFoundedOn(Less, Nat)
  BY NatLessThanWellFounded, Zenon DEF OpToRel
<1>2. \E m \in K : \A k \in K : ~ (<<k, m>> \in Less)
  <2> HIDE DEF Less
  <2> QED  BY <1>1, WFMin
<1>3. \A k, m \in Nat : k < m => <<k, m>> \in Less
  OBVIOUS
<1> HIDE DEF Less
<1>4. PICK m \in K : \A k \in K : ~ (<<k, m>> \in Less)
  BY <1>2
<1>5. ASSUME NEW k \in K PROVE m <= k
  <2>1. ~(k < m)
    BY <1>3, <1>4
  <2> QED  BY <2>1
<1> QED  BY <1>5

(* Induction, with a set in the place of a predicate.                      *)
LEMMA SetInduction ==
  ASSUME NEW S, 0 \in S, \A n \in Nat : n \in S => n + 1 \in S
  PROVE  \A n \in Nat : n \in S
<1> DEFINE K == {n \in Nat : n \notin S}
<1>1. SUFFICES ASSUME K # {} PROVE FALSE
  OBVIOUS
<1>2. PICK m \in K : \A k \in K : m <= k
  <2>1. K \subseteq Nat
    OBVIOUS
  <2> HIDE DEF K
  <2> QED  BY <1>1, <2>1, LeastNat
<1>3. m \in Nat /\ m # 0 /\ m \notin S
  OBVIOUS
<1>4. m - 1 \in Nat /\ (m - 1) + 1 = m /\ ~(m <= m - 1)
  BY <1>3
<1>5. m - 1 \notin K
  BY <1>2, <1>4
<1> QED  BY <1>3, <1>4, <1>5

(* A loop of len rounds over a variable with values in T: what a round     *)
(* makes of the variable is step, and f is its value after every round.    *)
StaysIn(T, step, len) == \A n \in 1..len, x \in T : step[<<n, x>>] \in T

Runs(f, T, a, step, len) ==
  /\ f \in [0..len -> T] /\ f[0] = a
  /\ \A n \in 1..len : f[n] = step[<<n, f[n - 1]>>]

(* Such a loop has its values, for any number of rounds.                   *)
LEMMA LoopExists ==
  ASSUME NEW T, NEW a \in T, NEW len \in Nat, NEW step, StaysIn(T, step, len)
  PROVE  \E f : Runs(f, T, a, step, len)
<1> USE DEF Runs, StaysIn
<1> DEFINE S == {k \in Nat : k <= len => \E f : Runs(f, T, a, step, k)}
<1>1. 0 \in S
  <2> DEFINE f == [n \in 0..0 |-> a]
  <2>1. Runs(f, T, a, step, 0)
    OBVIOUS
  <2> QED  BY <2>1
<1>2. ASSUME NEW k \in Nat, k \in S PROVE k + 1 \in S
  <2> SUFFICES ASSUME k + 1 <= len PROVE \E g : Runs(g, T, a, step, k + 1)
    OBVIOUS
  <2>1. PICK f : Runs(f, T, a, step, k)
    BY <1>2
  <2> DEFINE g == [n \in 0..(k + 1) |-> IF n <= k THEN f[n] ELSE step[<<k + 1, f[k]>>]]
  <2>2. k + 1 \in Nat /\ 0 <= k /\ 0 \in 0..(k + 1) /\ k \in 0..k
    OBVIOUS
  <2>3. step[<<k + 1, f[k]>>] \in T
    <3>1. k + 1 \in 1..len
      OBVIOUS
    <3> QED  BY <2>1, <2>2, <3>1
  <2>4. g \in [0..(k + 1) -> T]
    <3> SUFFICES ASSUME NEW n \in 0..(k + 1)
                 PROVE  (IF n <= k THEN f[n] ELSE step[<<k + 1, f[k]>>]) \in T
      OBVIOUS
    <3>1. n <= k => n \in 0..k
      OBVIOUS
    <3> QED  BY <2>1, <2>3, <3>1
  <2>5. g[0] = a
    BY <2>1, <2>2
  <2>6. ASSUME NEW n \in 1..(k + 1) PROVE g[n] = step[<<n, g[n - 1]>>]
    <3>1. n - 1 \in 0..(k + 1) /\ n - 1 <= k /\ n \in 0..(k + 1)
      OBVIOUS
    <3>2. g[n - 1] = f[n - 1]
      BY <3>1
    <3>3. CASE n <= k
      <4>1. n \in 1..k
        BY <3>3
      <4>2. g[n] = f[n]
        BY <3>1, <3>3
      <4> QED  BY <2>1, <3>2, <4>1, <4>2
    <3>4. CASE ~(n <= k)
      <4>1. n = k + 1 /\ n - 1 = k
        BY <3>4
      <4>2. g[n] = step[<<k + 1, f[k]>>]
        BY <3>1, <3>4
      <4> QED  BY <3>2, <4>1, <4>2
    <3> QED  BY <3>3, <3>4
  <2> HIDE DEF g
  <2>7. Runs(g, T, a, step, k + 1)
    BY <2>4, <2>5, <2>6
  <2> QED  BY <2>2, <2>7
<1>3. len \in S
  <2> HIDE DEF S
  <2> QED  BY <1>1, <1>2, SetInduction
<1> QED  BY <1>3

(* The number of positions in I up to i.                                   *)
UpTo(I, i) == {j \in I : j <= i}

(* Sets of positions, and their initial parts, are finite, and the initial *)
(* parts grow strictly at each member.                                     *)
LEMMA UpToFacts ==
  ASSUME NEW len \in Nat, NEW I, \A j \in I : j \in 1..len
  PROVE  /\ IsFiniteSet(I)
         /\ \A i \in Nat : IsFiniteSet(UpTo(I, i)) /\ Cardinality(UpTo(I, i)) \in Nat
         /\ \A i, k \in Nat : i <= k => Cardinality(UpTo(I, i)) <= Cardinality(UpTo(I, k))
         /\ \A i \in Nat, k \in I :
              i < k => Cardinality(UpTo(I, i)) < Cardinality(UpTo(I, k))
         /\ \A i \in Nat : Cardinality(UpTo(I, i)) <= Cardinality(I)
<1>0. \A j \in I : j \in Nat /\ 1 <= j /\ j <= len
  OBVIOUS
<1>1. IsFiniteSet(I)
  <2>1. IsFiniteSet(1..len)
    BY FS_Interval, 1 \in Int, len \in Int
  <2>2. I \subseteq 1..len
    OBVIOUS
  <2> QED  BY <2>1, <2>2, FS_Subset
<1>2. \A i \in Nat : IsFiniteSet(UpTo(I, i)) /\ Cardinality(UpTo(I, i)) \in Nat
                     /\ Cardinality(UpTo(I, i)) <= Cardinality(I)
  <2> TAKE i \in Nat
  <2>1. UpTo(I, i) \subseteq I
    BY DEF UpTo
  <2> QED  BY <1>1, <2>1, FS_Subset, FS_CardinalityType
<1>3. ASSUME NEW i \in Nat, NEW k \in Nat, i <= k
      PROVE  Cardinality(UpTo(I, i)) <= Cardinality(UpTo(I, k))
  <2>1. UpTo(I, i) \subseteq UpTo(I, k)
    BY <1>0, <1>3 DEF UpTo
  <2> QED  BY <1>2, <2>1, FS_Subset
<1>4. ASSUME NEW i \in Nat, NEW k \in I, i < k
      PROVE  Cardinality(UpTo(I, i)) < Cardinality(UpTo(I, k))
  <2>1. k \in Nat
    OBVIOUS
  <2>4. \A j \in I : j <= i => j <= k
    BY <1>0, <1>4, <2>1
  <2>2. UpTo(I, i) \subseteq UpTo(I, k)
    BY <2>4 DEF UpTo
  <2>5. k \in UpTo(I, k)
    BY <2>1 DEF UpTo
  <2>6. k \notin UpTo(I, i)
    BY <1>4, <2>1 DEF UpTo
  <2>3. IsFiniteSet(UpTo(I, k))
    BY <1>2, <2>1
  <2> QED  BY <2>2, <2>3, <2>5, <2>6, FS_Subset, FS_CardinalityType
<1> QED  BY <1>1, <1>2, <1>3, <1>4

(* NthPosition(I, n) exists: it is the member of I with n members up to    *)
(* it.                                                                     *)
LEMMA NthPositionExists ==
  ASSUME NEW len \in Nat, NEW I, \A j \in I : j \in 1..len, NEW n \in 1..Cardinality(I)
  PROVE  /\ NthPosition(I, n) \in I
         /\ Cardinality(UpTo(I, NthPosition(I, n))) = n
<1> DEFINE count(i) == Cardinality(UpTo(I, i))
           K == {m \in Nat : n <= count(m)}
<1>0. \A j \in I : j \in Nat /\ 1 <= j /\ j <= len
  OBVIOUS
<1>1. IsFiniteSet(I) /\ Cardinality(I) \in Nat
  BY UpToFacts, FS_CardinalityType
<1>2. n \in Nat /\ n >= 1
  BY <1>1
<1>3. UpTo(I, len) = I
  BY <1>0 DEF UpTo
<1>4. len \in K
  BY <1>1, <1>3
<1>5. PICK m \in K : \A k \in K : m <= k
  <2>1. K \subseteq Nat /\ K # {}
    BY <1>4
  <2> HIDE DEF K
  <2> QED  BY <2>1, LeastNat
<1>6. m \in Nat /\ n <= count(m)
  OBVIOUS
<1>7. m # 0
  <2>1. UpTo(I, 0) = {}
    BY <1>0 DEF UpTo
  <2>2. Cardinality({}) = 0
    BY FS_EmptySet
  <2> QED  BY <1>2, <1>6, <2>1, <2>2
<1>8. m - 1 \in Nat /\ count(m - 1) \in Nat /\ count(m - 1) < n
  <2>1. m - 1 \in Nat
    BY <1>6, <1>7
  <2>2. count(m - 1) \in Nat
    BY <2>1, UpToFacts
  <2>3. ~(m <= m - 1)
    BY <1>6
  <2>4. m - 1 \notin K
    BY <1>5, <2>3
  <2> QED  BY <2>1, <2>2, <2>4, <1>2
<1>9. m \in I
  <2> SUFFICES ASSUME m \notin I PROVE FALSE
    OBVIOUS
  <2>1. UpTo(I, m) = UpTo(I, m - 1)
    BY <1>0, <1>6, <1>7 DEF UpTo
  <2> QED  BY <1>2, <1>6, <1>8, <2>1
<1>10. count(m) = n
  <2>1. UpTo(I, m) = UpTo(I, m - 1) \cup {m}
    <3>1. \A j \in I : j <= m <=> j <= m - 1 \/ j = m
      BY <1>0, <1>6
    <3> QED  BY <1>9, <3>1 DEF UpTo
  <2>4. m \notin UpTo(I, m - 1)
    BY <1>6 DEF UpTo
  <2>2. IsFiniteSet(UpTo(I, m - 1))
    BY <1>8, UpToFacts
  <2>3. count(m) = count(m - 1) + 1
    BY <2>1, <2>2, <2>4, FS_AddElement
  <2> QED  BY <1>2, <1>6, <1>8, <2>3
<1>11. \E i \in I : Cardinality({j \in I : j <= i}) = n
  BY <1>9, <1>10 DEF UpTo
<1> QED  BY <1>11 DEF NthPosition, UpTo

(* A member of I is the position numbered by the members up to it, and     *)
(* positions keep their order.                                             *)
LEMMA NthPositionOf ==
  ASSUME NEW len \in Nat, NEW I, \A j \in I : j \in 1..len
  PROVE  /\ \A i \in I : /\ Cardinality(UpTo(I, i)) \in 1..Cardinality(I)
                         /\ NthPosition(I, Cardinality(UpTo(I, i))) = i
         /\ \A m, n \in 1..Cardinality(I) :
              m < n => NthPosition(I, m) < NthPosition(I, n)
<1>0. Cardinality(I) \in Nat
  BY UpToFacts, FS_CardinalityType
<1>1. ASSUME NEW i \in I
      PROVE  /\ Cardinality(UpTo(I, i)) \in 1..Cardinality(I)
             /\ NthPosition(I, Cardinality(UpTo(I, i))) = i
  <2> DEFINE n == Cardinality(UpTo(I, i))
             p == NthPosition(I, n)
  <2>1. i \in Nat /\ i > 0
    OBVIOUS
  <2>2. n \in Nat /\ n <= Cardinality(I)
    BY <2>1, UpToFacts
  <2>3. Cardinality(UpTo(I, 0)) \in Nat /\ Cardinality(UpTo(I, 0)) < n
    BY <2>1, UpToFacts
  <2>4. n \in 1..Cardinality(I)
    BY <1>0, <2>2, <2>3
  <2>5. p \in I /\ Cardinality(UpTo(I, p)) = n
    BY <2>4, NthPositionExists
  <2>6. p \in Nat
    BY <2>5
  <2>7. ~(p < i) /\ ~(i < p)
    <3> HIDE DEF p
    <3>1. p < i => Cardinality(UpTo(I, p)) < n
      BY <2>6, UpToFacts
    <3>2. i < p => n < Cardinality(UpTo(I, p))
      BY <2>1, <2>5, UpToFacts
    <3> QED  BY <2>2, <2>5, <3>1, <3>2
  <2>8. p = i
    BY <2>1, <2>6, <2>7
  <2> QED  BY <2>4, <2>8
<1>2. ASSUME NEW m \in 1..Cardinality(I), NEW n \in 1..Cardinality(I), m < n
      PROVE  NthPosition(I, m) < NthPosition(I, n)
  <2>1. /\ NthPosition(I, m) \in I /\ Cardinality(UpTo(I, NthPosition(I, m))) = m
        /\ NthPosition(I, n) \in I /\ Cardinality(UpTo(I, NthPosition(I, n))) = n
    BY NthPositionExists
  <2>2. NthPosition(I, m) \in Nat /\ NthPosition(I, n) \in Nat
    BY <2>1
  <2>3. SUFFICES ASSUME NthPosition(I, n) <= NthPosition(I, m) PROVE FALSE
    BY <2>2
  <2>4. n <= m
    BY <2>1, <2>2, <2>3, UpToFacts
  <2> QED  BY <1>0, <1>2, <2>4
<1> QED  BY <1>1, <1>2

-----------------------------------------------------------------------------
(***************************************************************************)
(* Filters.                                                                *)
(***************************************************************************)

(* What KeepAt returns: a list as long as the set of positions, of exactly *)
(* the elements at them, without a repetition if they have none.           *)
LEMMA KeepAtFacts ==
  ASSUME NEW T, NEW s \in Seq(T), NEW I, \A j \in I : j \in DOMAIN s
  PROVE  /\ KeepAt(s, I) \in Seq(T)
         /\ Len(KeepAt(s, I)) = Cardinality(I) /\ Cardinality(I) \in Nat
         /\ Range(KeepAt(s, I)) = {s[i] : i \in I}
         /\ (\A i, j \in I : s[i] = s[j] => i = j) => IsInjective(KeepAt(s, I))
<1> DEFINE c == Cardinality(I)
           r == KeepAt(s, I)
<1>1. Len(s) \in Nat /\ DOMAIN s = 1..Len(s)
  OBVIOUS
<1>2. \A j \in I : j \in 1..Len(s)
  BY <1>1
<1>3. c \in Nat
  BY <1>1, <1>2, UpToFacts, FS_CardinalityType
<1>4. \A n \in 1..c : NthPosition(I, n) \in I
  BY <1>1, <1>2, NthPositionExists
<1>5. \A m, n \in 1..c : NthPosition(I, m) = NthPosition(I, n) => m = n
  BY <1>1, <1>2, NthPositionExists
<1>6. \A i \in I : \E n \in 1..c : NthPosition(I, n) = i
  BY <1>1, <1>2, NthPositionOf
<1>7. r = [n \in 1..c |-> s[NthPosition(I, n)]]
  BY DEF KeepAt
<1>8. \A n \in 1..c : s[NthPosition(I, n)] \in T
  BY <1>1, <1>2, <1>4
<1>9. r \in Seq(T) /\ Len(r) = c /\ DOMAIN r = 1..c
  <2> HIDE DEF c, r
  <2> QED  BY <1>3, <1>7, <1>8
<1>10. Range(r) = {s[i] : i \in I}
  <2> HIDE DEF c, r
  <2> QED  BY <1>4, <1>6, <1>7, <1>9 DEF Range
<1>11. ASSUME \A i, j \in I : s[i] = s[j] => i = j
       PROVE  IsInjective(r)
  <2> HIDE DEF c, r
  <2> QED  BY <1>4, <1>5, <1>7, <1>9, <1>11 DEF IsInjective
<1> QED  BY <1>3, <1>9, <1>10, <1>11

(* Keep filters: the result is a list of the members of S in s, no longer  *)
(* than s and without a repetition if s has none; it is empty only if s    *)
(* holds no member of S.                                                   *)
THEOREM KeepFacts ==
  ASSUME NEW T, NEW s \in Seq(T), NEW S
  PROVE  /\ Keep(s, S) \in Seq(T)
         /\ Range(Keep(s, S)) = Range(s) \cap S
         /\ IsInjective(s) => IsInjective(Keep(s, S))
         /\ Len(Keep(s, S)) <= Len(s)
         /\ Keep(s, S) = <<>> <=> Range(s) \cap S = {}
<1> DEFINE I == {i \in DOMAIN s : s[i] \in S}
<1>1. \A j \in I : j \in DOMAIN s
  OBVIOUS
<1>2. Keep(s, S) = KeepAt(s, I)
  BY DEF Keep
<1>3. Len(s) \in Nat /\ DOMAIN s = 1..Len(s)
  OBVIOUS
<1>4. {s[i] : i \in I} = Range(s) \cap S
  BY DEF Range
<1>5. IsInjective(s) => \A i, j \in I : s[i] = s[j] => i = j
  BY DEF IsInjective
<1>6. Cardinality(I) <= Len(s)
  <2>1. IsFiniteSet(1..Len(s)) /\ Cardinality(1..Len(s)) = Len(s)
    BY <1>3, FS_Interval, 1 \in Int, Len(s) \in Int, SMTT(30)
  <2>2. I \subseteq 1..Len(s)
    BY <1>3
  <2> QED  BY <2>1, <2>2, FS_Subset
<1> HIDE DEF I
<1>7. /\ KeepAt(s, I) \in Seq(T)
      /\ Len(KeepAt(s, I)) = Cardinality(I)
      /\ Range(KeepAt(s, I)) = Range(s) \cap S
      /\ IsInjective(s) => IsInjective(KeepAt(s, I))
  BY <1>1, <1>4, <1>5, KeepAtFacts
<1>8. ASSUME NEW q \in Seq(T) PROVE q = <<>> <=> Range(q) = {}
  <2>1. q = <<>> => Range(q) = {}
    BY DEF Range
  <2>2. q # <<>> => 1 \in DOMAIN q
    OBVIOUS
  <2>3. q # <<>> => q[1] \in Range(q)
    BY <2>2 DEF Range
  <2> QED  BY <2>1, <2>3
<1> QED  BY <1>2, <1>6, <1>7, <1>8

(* A filter that keeps the first element keeps it first.                   *)
LEMMA KeepHead ==
  ASSUME NEW T, NEW s \in Seq(T), NEW S, s # <<>>, Head(s) \in S
  PROVE  Keep(s, S) # <<>> /\ Head(Keep(s, S)) = Head(s)
<1> DEFINE I == {i \in DOMAIN s : s[i] \in S}
<1>1. Len(s) \in Nat /\ DOMAIN s = 1..Len(s) /\ 1 \in DOMAIN s /\ Head(s) = s[1]
  OBVIOUS
<1>2. 1 \in I
  BY <1>1
<1>3. \A j \in I : j \in 1..Len(s)
  BY <1>1
<1>4. Keep(s, S) = KeepAt(s, I)
  BY DEF Keep
<1>5. \A j \in I : j \in DOMAIN s
  OBVIOUS
<1> HIDE DEF I
<1>6. UpTo(I, 1) = {1}
  BY <1>2, <1>3 DEF UpTo
<1>7. Cardinality(UpTo(I, 1)) = 1
  BY <1>6, FS_Singleton
<1>8. 1 \in 1..Cardinality(I) /\ NthPosition(I, 1) = 1
  <2>1. \A i \in I : /\ Cardinality(UpTo(I, i)) \in 1..Cardinality(I)
                     /\ NthPosition(I, Cardinality(UpTo(I, i))) = i
    BY <1>1, <1>3, NthPositionOf
  <2>2. /\ Cardinality(UpTo(I, 1)) \in 1..Cardinality(I)
        /\ NthPosition(I, Cardinality(UpTo(I, 1))) = 1
    BY <1>2, <2>1, Zenon
  <2> QED  BY <1>7, <2>2, Zenon
<1>9. KeepAt(s, I)[1] = s[1]
  BY <1>8 DEF KeepAt
<1>10. KeepAt(s, I) \in Seq(T) /\ Len(KeepAt(s, I)) = Cardinality(I) /\ Cardinality(I) \in Nat
  BY <1>5, KeepAtFacts
<1>11. KeepAt(s, I) # <<>> /\ Head(KeepAt(s, I)) = KeepAt(s, I)[1]
  BY <1>8, <1>10
<1> QED  BY <1>1, <1>4, <1>9, <1>11

(* p lists the c members of I upwards.                                     *)
Ascends(p, c, I) ==
  /\ p \in [1..c -> I]
  /\ \A m, n \in 1..c : m < n => p[m] < p[n]
  /\ \A i \in I : \E n \in 1..c : p[n] = i

(* Such a list is the one KeepAt follows: two filters that keep the same   *)
(* elements by different routes return the same list.                      *)
LEMMA PositionsInOrder ==
  ASSUME NEW len \in Nat, NEW I, \A j \in I : j \in 1..len,
         NEW c \in Nat, NEW p, Ascends(p, c, I)
  PROVE  /\ Cardinality(I) = c
         /\ \A n \in 1..c : NthPosition(I, n) = p[n]
<1> USE DEF Ascends
<1>2. \A n \in 1..c : p[n] \in I /\ p[n] \in Nat
  OBVIOUS
<1>3. \A m, n \in 1..c : p[m] <= p[n] <=> m <= n
  <2> SUFFICES ASSUME NEW m \in 1..c, NEW n \in 1..c PROVE p[m] <= p[n] <=> m <= n
    OBVIOUS
  <2>1. m < n \/ m = n \/ n < m
    OBVIOUS
  <2>2. m < n => p[m] < p[n]
    OBVIOUS
  <2>3. n < m => p[n] < p[m]
    OBVIOUS
  <2> QED  BY <1>2, <2>1, <2>2, <2>3
<1>4. ASSUME NEW n \in 1..c PROVE Cardinality(UpTo(I, p[n])) = n
  <2> DEFINE q == [k \in 1..n |-> p[k]]
  <2>1. n \in Nat /\ \A k \in 1..n : k \in 1..c
    OBVIOUS
  <2>2. UpTo(I, p[n]) = {p[k] : k \in 1..n}
    <3>1. ASSUME NEW i \in I, i <= p[n] PROVE \E k \in 1..n : p[k] = i
      <4>1. PICK k \in 1..c : p[k] = i
        OBVIOUS
      <4>2. k <= n
        BY <1>3, <3>1, <4>1
      <4> QED  BY <4>1, <4>2
    <3>2. ASSUME NEW k \in 1..n PROVE p[k] \in I /\ p[k] <= p[n]
      BY <1>2, <1>3, <2>1
    <3> QED  BY <3>1, <3>2 DEF UpTo
  <2>3. \A j, k \in 1..n : p[j] = p[k] => j = k
    <3> SUFFICES ASSUME NEW j \in 1..n, NEW k \in 1..n, p[j] = p[k] PROVE j = k
      OBVIOUS
    <3>1. p[j] <= p[k] /\ p[k] <= p[j]
      BY <1>2, <2>1
    <3> QED  BY <1>3, <2>1, <3>1
  <2>4. q \in Bijection(1..n, UpTo(I, p[n]))
    BY <2>2, <2>3 DEF Bijection, Injection, Surjection, IsInjective
  <2>5. IsFiniteSet(1..n) /\ Cardinality(1..n) = n
    BY <2>1, FS_Interval, 1 \in Int, n \in Int
  <2> HIDE DEF q
  <2>6. ExistsBijection(1..n, UpTo(I, p[n]))
    BY <2>4 DEF ExistsBijection
  <2> QED  BY <2>5, <2>6, FS_Bijection
<1>5. Cardinality(I) = c
  <2>1. CASE c = 0
    <3>1. I = {}
      BY <2>1
    <3> QED  BY <2>1, <3>1, FS_EmptySet
  <2>2. CASE c > 0
    <3>1. c \in 1..c
      BY <2>2
    <3>2. UpTo(I, p[c]) = I
      <4>1. ASSUME NEW i \in I PROVE i <= p[c]
        <5>1. PICK n \in 1..c : p[n] = i
          OBVIOUS
        <5> QED  BY <1>3, <3>1, <5>1
      <4> QED  BY <4>1 DEF UpTo
    <3> QED  BY <1>4, <3>1, <3>2
  <2> QED  BY <2>1, <2>2
<1>6. \A i \in I : NthPosition(I, Cardinality(UpTo(I, i))) = i
  BY NthPositionOf
<1>7. ASSUME NEW n \in 1..c PROVE NthPosition(I, n) = p[n]
  BY <1>2, <1>4, <1>6
<1> QED  BY <1>5, <1>7

(* Keep looks only at what s holds.                                        *)
LEMMA KeepSame ==
  ASSUME NEW s, NEW S, NEW R, Range(s) \cap S = Range(s) \cap R
  PROVE  Keep(s, S) = Keep(s, R)
<1>1. \A i \in DOMAIN s : s[i] \in S <=> s[i] \in R
  BY DEF Range
<1>2. {i \in DOMAIN s : s[i] \in S} = {i \in DOMAIN s : s[i] \in R}
  BY <1>1
<1> QED  BY <1>2 DEF Keep

(* A filter that keeps every element changes nothing.                      *)
LEMMA KeepAll ==
  ASSUME NEW T, NEW s \in Seq(T), NEW S, Range(s) \subseteq S
  PROVE  Keep(s, S) = s
<1> DEFINE I == {i \in DOMAIN s : s[i] \in S}
           c == Len(s)
           p == [n \in 1..c |-> n]
<1>1. c \in Nat /\ DOMAIN s = 1..c
  OBVIOUS
<1>2. I = 1..c
  BY <1>1 DEF Range
<1>3. p \in [1..c -> I] /\ \A j \in I : j \in 1..c
  BY <1>1, <1>2
<1>4. /\ \A m, n \in 1..c : m < n => p[m] < p[n]
      /\ \A i \in I : \E n \in 1..c : p[n] = i
  BY <1>2
<1>5. Keep(s, S) = KeepAt(s, I)
  BY DEF Keep
<1>6. s = [n \in 1..c |-> s[n]] /\ \A n \in 1..c : p[n] = n
  BY <1>1
<1> HIDE DEF I, c, p
<1>7. Cardinality(I) = c /\ \A n \in 1..c : NthPosition(I, n) = p[n]
  <2>1. Ascends(p, c, I)
    BY <1>3, <1>4 DEF Ascends
  <2> QED  BY <1>1, <1>3, <2>1, PositionsInOrder
<1> QED  BY <1>5, <1>6, <1>7 DEF KeepAt

(* Of nothing, nothing is kept.                                            *)
LEMMA KeepEmpty == \A S : Keep(<<>>, S) = <<>>
<1> DEFINE none == <<>>
<1>1. none \in Seq({}) /\ Range(none) = {}
  BY DEF Range
<1> HIDE DEF none
<1>2. ASSUME NEW S PROVE Keep(none, S) = none
  <2>1. Range(none) \cap S = {}
    BY <1>1
  <2>2. Keep(none, S) = <<>>
    BY <1>1, <2>1, KeepFacts
  <2> QED  BY <2>2 DEF none
<1> QED  BY <1>2 DEF none

(* Filtering twice keeps what both filters keep.                           *)
THEOREM KeepTwice ==
  ASSUME NEW T, NEW s \in Seq(T), NEW S, NEW R
  PROVE  Keep(Keep(s, S), R) = Keep(s, S \cap R)
<1> DEFINE I == {i \in DOMAIN s : s[i] \in S}
           k == KeepAt(s, I)
           J == {j \in DOMAIN k : k[j] \in R}
           B == {i \in DOMAIN s : s[i] \in S \cap R}
           c == Cardinality(J)
           p == [n \in 1..c |-> NthPosition(I, NthPosition(J, n))]
<1>1. Len(s) \in Nat /\ DOMAIN s = 1..Len(s) /\ \A i \in I : i \in 1..Len(s)
  OBVIOUS
<1>2. \A i \in I : i \in DOMAIN s
  OBVIOUS
<1>3. /\ k \in Seq(T) /\ Len(k) = Cardinality(I) /\ Cardinality(I) \in Nat
  <2> HIDE DEF I
  <2> QED  BY <1>2, KeepAtFacts
<1>4. DOMAIN k = 1..Cardinality(I) /\ \A j \in 1..Cardinality(I) : k[j] = s[NthPosition(I, j)]
  BY DEF KeepAt
<1>5. /\ \A j \in 1..Cardinality(I) : NthPosition(I, j) \in I
      /\ \A i \in I : \E j \in 1..Cardinality(I) : NthPosition(I, j) = i
      /\ \A m, n \in 1..Cardinality(I) : m < n => NthPosition(I, m) < NthPosition(I, n)
  <2> HIDE DEF I
  <2>1. \A j \in 1..Cardinality(I) : NthPosition(I, j) \in I
    BY <1>1, NthPositionExists
  <2>2. /\ \A i \in I : \E j \in 1..Cardinality(I) : NthPosition(I, j) = i
        /\ \A m, n \in 1..Cardinality(I) : m < n => NthPosition(I, m) < NthPosition(I, n)
    BY <1>1, NthPositionOf
  <2> QED  BY <2>1, <2>2
<1>6. \A j \in J : j \in 1..Cardinality(I)
  BY <1>4
<1>7. c \in Nat
  <2> HIDE DEF J
  <2> QED  BY <1>3, <1>6, UpToFacts, FS_CardinalityType
<1>8. /\ \A n \in 1..c : NthPosition(J, n) \in J
      /\ \A j \in J : \E n \in 1..c : NthPosition(J, n) = j
      /\ \A m, n \in 1..c : m < n => NthPosition(J, m) < NthPosition(J, n)
  <2> HIDE DEF J
  <2>1. \A n \in 1..c : NthPosition(J, n) \in J
    BY <1>3, <1>6, NthPositionExists
  <2>2. /\ \A j \in J : \E n \in 1..c : NthPosition(J, n) = j
        /\ \A m, n \in 1..c : m < n => NthPosition(J, m) < NthPosition(J, n)
    BY <1>3, <1>6, NthPositionOf
  <2> QED  BY <2>1, <2>2
<1>9. \A j \in 1..Cardinality(I) : j \in J <=> NthPosition(I, j) \in B
  BY <1>4, <1>5
<1>10. \A i \in B : i \in I
  OBVIOUS
<1>11. Keep(Keep(s, S), R) = KeepAt(k, J) /\ Keep(s, S \cap R) = KeepAt(s, B)
  BY DEF Keep
<1>12. \A i \in B : i \in 1..Len(s)
  BY <1>1
<1>13. KeepAt(k, J) = [n \in 1..c |-> k[NthPosition(J, n)]]
  BY DEF KeepAt
<1>14. \A n \in 1..c : p[n] = NthPosition(I, NthPosition(J, n))
  OBVIOUS
<1>p. p = [n \in 1..c |-> p[n]]
  OBVIOUS
<1> HIDE DEF I, k, J, B, c, p
<1>15. p \in [1..c -> B]
  <2>1. \A n \in 1..c : p[n] \in B
    BY <1>6, <1>8, <1>9, <1>14
  <2> QED  BY <1>p, <2>1
<1>16. \A m, n \in 1..c : m < n => p[m] < p[n]
  BY <1>5, <1>6, <1>8, <1>14
<1>17. ASSUME NEW i \in B PROVE \E n \in 1..c : p[n] = i
  <2>1. PICK j \in 1..Cardinality(I) : NthPosition(I, j) = i
    BY <1>5, <1>10
  <2>2. j \in J
    BY <1>9, <2>1
  <2>3. PICK n \in 1..c : NthPosition(J, n) = j
    BY <1>8, <2>2
  <2> QED  BY <1>14, <2>1, <2>3
<1>18. Cardinality(B) = c /\ \A n \in 1..c : NthPosition(B, n) = p[n]
  <2>1. Ascends(p, c, B)
    BY <1>15, <1>16, <1>17 DEF Ascends
  <2> QED  BY <1>1, <1>7, <1>12, <2>1, PositionsInOrder
<1>19. \A n \in 1..c : k[NthPosition(J, n)] = s[p[n]]
  BY <1>4, <1>6, <1>8, <1>14
<1>20. KeepAt(s, B) = [n \in 1..c |-> s[p[n]]]
  BY <1>18 DEF KeepAt
<1> QED  BY <1>11, <1>13, <1>19, <1>20

(* A concatenation has the elements of its parts at their places.          *)
LEMMA ConcatIndex ==
  ASSUME NEW T, NEW s \in Seq(T), NEW t \in Seq(T)
  PROVE  /\ s \o t \in Seq(T) /\ Len(s \o t) = Len(s) + Len(t)
         /\ \A k \in 1..Len(s) : (s \o t)[k] = s[k]
         /\ \A k \in 1..Len(t) : (s \o t)[Len(s) + k] = t[k]
OBVIOUS

(* Filtering a concatenation filters its parts.                            *)
LEMMA KeepConcat ==
  ASSUME NEW T, NEW s \in Seq(T), NEW t \in Seq(T), NEW S
  PROVE  Keep(s \o t, S) = Keep(s, S) \o Keep(t, S)
<1> DEFINE m == Len(s)
           n == Len(t)
           u == s \o t
           I == {i \in DOMAIN s : s[i] \in S}
           J == {j \in DOMAIN t : t[j] \in S}
           B == {i \in DOMAIN u : u[i] \in S}
           a == Cardinality(I)
           b == Cardinality(J)
           p == [k \in 1..(a + b) |->
                   IF k <= a THEN NthPosition(I, k) ELSE m + NthPosition(J, k - a)]
<1>1. /\ m \in Nat /\ n \in Nat /\ DOMAIN s = 1..m /\ DOMAIN t = 1..n
      /\ u \in Seq(T) /\ Len(u) = m + n /\ DOMAIN u = 1..(m + n)
      /\ \A i \in 1..m : u[i] = s[i]
      /\ \A j \in 1..n : u[m + j] = t[j]
  OBVIOUS
<1>2. /\ \A i \in I : i \in 1..m
      /\ \A j \in J : j \in 1..n
      /\ \A i \in B : i \in 1..(m + n)
  BY <1>1
<1>3. /\ Keep(s, S) = KeepAt(s, I)
      /\ Keep(t, S) = KeepAt(t, J)
      /\ Keep(u, S) = KeepAt(u, B)
  BY DEF Keep
<1>4. /\ \A i \in 1..m : i \in B <=> i \in I
      /\ \A j \in 1..n : m + j \in B <=> j \in J
  <2>1. /\ \A i \in 1..m : i \in 1..(m + n)
        /\ \A j \in 1..n : m + j \in 1..(m + n)
    BY <1>1
  <2> QED  BY <1>1, <2>1
<1>5. /\ \A i \in I : i \in DOMAIN s
      /\ \A j \in J : j \in DOMAIN t
      /\ \A i \in B : i \in DOMAIN u
  OBVIOUS
<1> HIDE DEF I, J, B, u
<1>6. a \in Nat /\ b \in Nat
  BY <1>1, <1>2, UpToFacts, FS_CardinalityType
<1> HIDE DEF m, n, a, b
<1>7. /\ \A k \in 1..a : NthPosition(I, k) \in I
      /\ \A i \in I : \E k \in 1..a : NthPosition(I, k) = i
      /\ \A k, l \in 1..a : k < l => NthPosition(I, k) < NthPosition(I, l)
  <2>1. \A k \in 1..a : NthPosition(I, k) \in I
    BY <1>1, <1>2, NthPositionExists DEF a
  <2>2. /\ \A i \in I : /\ Cardinality(UpTo(I, i)) \in 1..a
                       /\ NthPosition(I, Cardinality(UpTo(I, i))) = i
        /\ \A k, l \in 1..a : k < l => NthPosition(I, k) < NthPosition(I, l)
    <3>1. m \in Nat /\ \A i \in I : i \in 1..m
      BY <1>1, <1>2
    <3> QED  BY <3>1, NthPositionOf, Zenon DEF a
  <2> QED  BY <2>1, <2>2, Zenon
<1>8. /\ \A k \in 1..b : NthPosition(J, k) \in J
      /\ \A j \in J : \E k \in 1..b : NthPosition(J, k) = j
      /\ \A k, l \in 1..b : k < l => NthPosition(J, k) < NthPosition(J, l)
  <2>1. \A k \in 1..b : NthPosition(J, k) \in J
    BY <1>1, <1>2, NthPositionExists DEF b
  <2>2. /\ \A j \in J : /\ Cardinality(UpTo(J, j)) \in 1..b
                       /\ NthPosition(J, Cardinality(UpTo(J, j))) = j
        /\ \A k, l \in 1..b : k < l => NthPosition(J, k) < NthPosition(J, l)
    <3>1. n \in Nat /\ \A j \in J : j \in 1..n
      BY <1>1, <1>2
    <3> QED  BY <3>1, NthPositionOf, Zenon DEF b
  <2> QED  BY <2>1, <2>2, Zenon
<1>9. /\ \A k \in 1..a : k \in 1..(a + b) /\ p[k] = NthPosition(I, k)
      /\ \A k \in 1..b : a + k \in 1..(a + b) /\ p[a + k] = m + NthPosition(J, k)
  <2>1. \A k \in 1..a : k \in 1..(a + b) /\ k <= a
    BY <1>6
  <2>2. \A k \in 1..b : a + k \in 1..(a + b) /\ ~(a + k <= a) /\ (a + k) - a = k
    BY <1>6
  <2> QED  BY <2>1, <2>2
<1>10. \A k \in 1..(a + b) : k \in 1..a \/ \E l \in 1..b : k = a + l
  <2>1. \A k \in 1..(a + b) : k \in 1..a \/ (k - a \in 1..b /\ k = a + (k - a))
    BY <1>6
  <2> QED  BY <2>1
<1>11. p = [k \in 1..(a + b) |-> p[k]]
  OBVIOUS
<1> HIDE DEF p
<1>12. ASSUME NEW k \in 1..(a + b) PROVE p[k] \in B
  <2>1. CASE k \in 1..a
    BY <1>2, <1>4, <1>7, <1>9, <2>1
  <2>2. ASSUME NEW l \in 1..b, k = a + l PROVE p[k] \in B
    BY <1>2, <1>4, <1>8, <1>9, <2>2
  <2> QED  BY <1>10, <2>1, <2>2
<1>13. ASSUME NEW k \in 1..(a + b), NEW l \in 1..(a + b), k < l PROVE p[k] < p[l]
  <2>1. CASE k \in 1..a /\ l \in 1..a
    BY <1>7, <1>9, <1>13, <2>1
  <2>2. CASE k \in 1..a /\ \E j \in 1..b : l = a + j
    <3>1. PICK j \in 1..b : l = a + j
      BY <2>2
    <3>2. p[k] \in 1..m /\ p[l] = m + NthPosition(J, j) /\ NthPosition(J, j) \in 1..n
      BY <1>2, <1>7, <1>8, <1>9, <2>2, <3>1
    <3> QED  BY <1>1, <3>2
  <2>3. CASE (\E i \in 1..b : k = a + i) /\ \E j \in 1..b : l = a + j
    <3>1. PICK i \in 1..b : k = a + i
      BY <2>3
    <3>2. PICK j \in 1..b : l = a + j
      BY <2>3
    <3>3. i < j
      BY <1>6, <1>13, <3>1, <3>2
    <3>4. NthPosition(J, i) < NthPosition(J, j)
      BY <1>8, <3>3
    <3>5. /\ p[k] = m + NthPosition(J, i) /\ p[l] = m + NthPosition(J, j)
          /\ NthPosition(J, i) \in 1..n /\ NthPosition(J, j) \in 1..n
      BY <1>2, <1>8, <1>9, <3>1, <3>2
    <3> QED  BY <1>1, <3>4, <3>5
  <2>4. CASE (\E i \in 1..b : k = a + i) /\ l \in 1..a
    BY <1>6, <1>13, <2>4
  <2> QED  BY <1>10, <2>1, <2>2, <2>3, <2>4
<1>14. ASSUME NEW i \in B PROVE \E k \in 1..(a + b) : p[k] = i
  <2>1. i \in 1..m \/ (i - m \in 1..n /\ i = m + (i - m))
    BY <1>1, <1>2
  <2>2. CASE i \in 1..m
    BY <1>4, <1>7, <1>9, <2>2
  <2>3. ASSUME NEW j \in 1..n, i = m + j PROVE \E k \in 1..(a + b) : p[k] = i
    BY <1>4, <1>8, <1>9, <2>3
  <2> QED  BY <2>1, <2>2, <2>3
<1>15. p \in [1..(a + b) -> B]
  BY <1>11, <1>12
<1>16. Cardinality(B) = a + b /\ \A k \in 1..(a + b) : NthPosition(B, k) = p[k]
  <2>1. a + b \in Nat /\ m + n \in Nat
    BY <1>1, <1>6
  <2>2. Ascends(p, a + b, B)
    BY <1>13, <1>14, <1>15 DEF Ascends
  <2> QED  BY <1>2, <2>1, <2>2, PositionsInOrder
<1>17. /\ KeepAt(u, B) \in Seq(T) /\ Len(KeepAt(u, B)) = a + b
       /\ \A k \in 1..(a + b) : KeepAt(u, B)[k] = u[p[k]]
  <2>1. KeepAt(u, B) \in Seq(T) /\ Len(KeepAt(u, B)) = Cardinality(B)
    BY <1>1, <1>5, KeepAtFacts
  <2>2. \A k \in 1..(a + b) : KeepAt(u, B)[k] = u[p[k]]
    BY <1>16 DEF KeepAt
  <2> QED  BY <1>16, <2>1, <2>2
<1>18. /\ KeepAt(s, I) \in Seq(T) /\ Len(KeepAt(s, I)) = a
       /\ \A k \in 1..a : KeepAt(s, I)[k] = s[NthPosition(I, k)]
  BY <1>5, KeepAtFacts DEF KeepAt, a
<1>19. /\ KeepAt(t, J) \in Seq(T) /\ Len(KeepAt(t, J)) = b
       /\ \A k \in 1..b : KeepAt(t, J)[k] = t[NthPosition(J, k)]
  BY <1>5, KeepAtFacts DEF KeepAt, b
<1> DEFINE x == KeepAt(s, I)
           y == KeepAt(t, J)
           z == KeepAt(u, B)
<1>20. /\ \A k \in 1..a : z[k] = x[k]
       /\ \A k \in 1..b : z[a + k] = y[k]
  <2>1. \A k \in 1..a : u[p[k]] = s[NthPosition(I, k)]
    BY <1>1, <1>2, <1>7, <1>9
  <2>2. \A k \in 1..b : u[p[a + k]] = t[NthPosition(J, k)]
    BY <1>1, <1>2, <1>8, <1>9
  <2> QED  BY <1>9, <1>17, <1>18, <1>19, <2>1, <2>2
<1>21. x \in Seq(T) /\ y \in Seq(T) /\ z \in Seq(T) /\ Len(x) = a /\ Len(y) = b /\ Len(z) = a + b
  BY <1>17, <1>18, <1>19
<1> HIDE DEF x, y, z
<1>22. /\ x \o y \in Seq(T) /\ Len(x \o y) = a + b
       /\ \A k \in 1..a : (x \o y)[k] = x[k]
       /\ \A k \in 1..b : (x \o y)[a + k] = y[k]
  BY <1>21, ConcatIndex
<1>23. \A k \in 1..(a + b) : z[k] = (x \o y)[k]
  <2> DEFINE w == x \o y
  <2>1. \A k \in 1..a : z[k] = w[k]
    BY <1>20, <1>22
  <2>2. \A k \in 1..b : z[a + k] = w[a + k]
    BY <1>20, <1>22
  <2> HIDE DEF w
  <2>3. \A k \in 1..(a + b) : z[k] = w[k]
    BY <1>10, <2>1, <2>2
  <2> QED  BY <2>3 DEF w
<1>24. z = x \o y
  <2> DEFINE w == x \o y
  <2>1. w \in Seq(T) /\ Len(w) = a + b /\ \A k \in 1..(a + b) : z[k] = w[k]
    BY <1>22, <1>23
  <2> HIDE DEF w
  <2>2. z = w
    BY <1>6, <1>21, <2>1
  <2> QED  BY <2>2 DEF w
<1> QED  BY <1>3, <1>24 DEF u, x, y, z

(* Promoting a window the filter keeps, then filtering, is promoting it in *)
(* the filtered list; promoting one the filter drops leaves no trace.      *)
THEOREM KeepPromote ==
  ASSUME NEW T, NEW s \in Seq(T), NEW S, NEW w \in T
  PROVE  /\ w \in S => Keep(Promote(s, w), S) = Promote(Keep(s, S), w)
         /\ w \notin S => Keep(Promote(s, w), S) = Keep(s, S)
<1> DEFINE R == Range(s) \ {w}
           k == Keep(s, R)
<1> DEFINE one == <<w>>
<1>1. /\ k \in Seq(T) /\ one \in Seq(T) /\ Keep(s, S) \in Seq(T)
      /\ Range(Keep(s, S)) = Range(s) \cap S
  BY KeepFacts
<1>2. Promote(s, w) = one \o k
  BY DEF Promote
<1>3. Keep(k, S) = Keep(s, R \cap S)
  BY KeepTwice
<1>5. Range(one) = {w}
  BY DEF Range
<1> HIDE DEF k, one
<1>4. Keep(one \o k, S) = Keep(one, S) \o Keep(k, S)
  BY <1>1, KeepConcat, SMTT(30)
<1>6. CASE w \in S
  <2>1. Keep(one, S) = one
    BY <1>1, <1>5, <1>6, KeepAll
  <2> DEFINE t == Keep(s, S)
             Q == Range(t) \ {w}
  <2>2. Promote(t, w) = one \o Keep(t, Q)
    BY DEF Promote, one
  <2>3. Keep(t, Q) = Keep(s, S \cap Q)
    BY KeepTwice
  <2>4. S \cap Q = R \cap S
    BY <1>1
  <2> HIDE DEF t, Q, R
  <2> QED  BY <1>2, <1>3, <1>4, <1>6, <2>1, <2>2, <2>3, <2>4 DEF t
<1>7. CASE w \notin S
  <2>1. Keep(one, S) = <<>>
    BY <1>1, <1>5, <1>7, KeepFacts
  <2>2. Range(s) \cap (R \cap S) = Range(s) \cap S
    BY <1>7
  <2>3. Keep(s, R \cap S) = Keep(s, S)
    BY <2>2, KeepSame
  <2> DEFINE t == Keep(s, S)
  <2> HIDE DEF t, R
  <2>4. t \in Seq(T) /\ <<>> \o t = t
    BY <1>1 DEF t
  <2> QED  BY <1>2, <1>3, <1>4, <1>7, <2>1, <2>3, <2>4 DEF t
<1> QED  BY <1>6, <1>7

(* FirstOccurrences removes repetitions and nothing else.                  *)
THEOREM FirstOccurrencesFacts ==
  ASSUME NEW T, NEW s \in Seq(T)
  PROVE  /\ FirstOccurrences(s) \in Seq(T)
         /\ IsInjective(FirstOccurrences(s))
         /\ Range(FirstOccurrences(s)) = Range(s)
<1> DEFINE I == {i \in DOMAIN s : \A j \in DOMAIN s : s[j] = s[i] => i <= j}
<1>1. \A j \in I : j \in DOMAIN s
  OBVIOUS
<1>2. Len(s) \in Nat /\ DOMAIN s = 1..Len(s)
  OBVIOUS
<1>3. \A i, j \in I : s[i] = s[j] => i = j
  BY <1>2
<1>4. {s[i] : i \in I} = Range(s)
  <2>1. ASSUME NEW k \in DOMAIN s PROVE \E i \in I : s[i] = s[k]
    <3> DEFINE K == {j \in DOMAIN s : s[j] = s[k]}
    <3>1. K \subseteq Nat /\ K # {}
      BY <1>2
    <3>2. PICK i \in K : \A j \in K : i <= j
      <4> HIDE DEF K
      <4> QED  BY <3>1, LeastNat
    <3> QED  BY <3>2
  <2> QED  BY <2>1 DEF Range
<1>5. FirstOccurrences(s) = KeepAt(s, I)
  BY DEF FirstOccurrences
<1> HIDE DEF I
<1>6. /\ KeepAt(s, I) \in Seq(T)
      /\ Range(KeepAt(s, I)) = {s[i] : i \in I}
      /\ (\A i, j \in I : s[i] = s[j] => i = j) => IsInjective(KeepAt(s, I))
  BY <1>1, KeepAtFacts
<1> QED  BY <1>3, <1>4, <1>5, <1>6

(* A list without repetitions is its own list of first occurrences.        *)
LEMMA FirstOccurrencesAll ==
  ASSUME NEW T, NEW s \in Seq(T), IsInjective(s)
  PROVE  FirstOccurrences(s) = s
<1> DEFINE I == {i \in DOMAIN s : \A j \in DOMAIN s : s[j] = s[i] => i <= j}
           J == {i \in DOMAIN s : s[i] \in T}
<1>1. DOMAIN s = 1..Len(s) /\ Len(s) \in Nat /\ \A i \in DOMAIN s : s[i] \in T
  OBVIOUS
<1>2. \A i, j \in DOMAIN s : s[j] = s[i] => i <= j
  BY <1>1 DEF IsInjective
<1>3. I = J
  BY <1>1, <1>2
<1>4. FirstOccurrences(s) = Keep(s, T)
  BY <1>3 DEF FirstOccurrences, Keep
<1>5. Range(s) \subseteq T
  BY <1>1 DEF Range
<1> QED  BY <1>4, <1>5, KeepAll

(* Promote puts w at the head, keeps every other element, and leaves no    *)
(* repetition if there was none.                                           *)
THEOREM PromoteFacts ==
  ASSUME NEW T, NEW s \in Seq(T), NEW w \in T
  PROVE  /\ Promote(s, w) \in Seq(T)
         /\ Promote(s, w) # <<>> /\ Head(Promote(s, w)) = w
         /\ Range(Promote(s, w)) = Range(s) \cup {w}
         /\ IsInjective(s) => IsInjective(Promote(s, w))
<1> DEFINE k == Keep(s, Range(s) \ {w})
           p == <<w>> \o k
<1>1. /\ k \in Seq(T)
      /\ Range(k) = Range(s) \ {w}
      /\ IsInjective(s) => IsInjective(k)
  BY KeepFacts
<1>2. Promote(s, w) = p
  BY DEF Promote
<1> HIDE DEF k
<1>3. /\ p \in Seq(T) /\ Len(p) = Len(k) + 1 /\ Len(k) \in Nat
      /\ p[1] = w
      /\ \A i \in 1..Len(k) : p[i + 1] = k[i]
  BY <1>1
<1> HIDE DEF p
<1>4. p # <<>> /\ Head(p) = w
  BY <1>3
<1>5. DOMAIN p = 1..(Len(k) + 1) /\ DOMAIN k = 1..Len(k)
  BY <1>1, <1>3
<1>6. \A i \in DOMAIN p : i = 1 \/ (i - 1 \in DOMAIN k /\ p[i] = k[i - 1])
  BY <1>3, <1>5
<1>7. Range(p) = Range(k) \cup {w}
  <2>1. ASSUME NEW i \in DOMAIN p PROVE p[i] \in Range(k) \cup {w}
    BY <1>3, <1>6 DEF Range
  <2>2. ASSUME NEW i \in DOMAIN k PROVE k[i] \in Range(p)
    <3>1. i + 1 \in DOMAIN p /\ p[i + 1] = k[i]
      BY <1>3, <1>5
    <3> QED  BY <3>1 DEF Range
  <2>3. w \in Range(p)
    <3>1. 1 \in DOMAIN p
      BY <1>3, <1>5
    <3> QED  BY <1>3, <3>1 DEF Range
  <2>4. Range(p) \subseteq Range(k) \cup {w}
    BY <2>1 DEF Range
  <2>5. Range(k) \subseteq Range(p)
    BY <2>2 DEF Range
  <2> QED  BY <2>3, <2>4, <2>5
<1>8. ASSUME IsInjective(s) PROVE IsInjective(p)
  <2>1. \A i, j \in DOMAIN k : k[i] = k[j] => i = j
    BY <1>1, <1>8 DEF IsInjective
  <2>2. \A i \in DOMAIN k : k[i] # w
    BY <1>1 DEF Range
  <2>3. ASSUME NEW i \in DOMAIN p, NEW j \in DOMAIN p, p[i] = p[j] PROVE i = j
    BY <1>3, <1>5, <1>6, <2>1, <2>2, <2>3
  <2> QED  BY <2>3 DEF IsInjective
<1>9. w \in T
  OBVIOUS
<1> QED  BY <1>1, <1>2, <1>3, <1>4, <1>7, <1>8

(* What is kept of a longer list: the same, or its last element too.       *)
LEMMA KeepAtAppend ==
  ASSUME NEW T, NEW s \in Seq(T), NEW e \in T, NEW I, \A j \in I : j \in DOMAIN s
  PROVE  /\ KeepAt(Append(s, e), I) = KeepAt(s, I)
         /\ KeepAt(Append(s, e), I \cup {Len(s) + 1}) = Append(KeepAt(s, I), e)
<1> DEFINE u == Append(s, e)
           m == Len(s)
           c == Cardinality(I)
           B == I \cup {m + 1}
           p == [n \in 1..(c + 1) |-> IF n <= c THEN NthPosition(I, n) ELSE m + 1]
<1>1. /\ m \in Nat /\ DOMAIN s = 1..m /\ u \in Seq(T) /\ Len(u) = m + 1
      /\ DOMAIN u = 1..(m + 1) /\ u[m + 1] = e
      /\ \A i \in 1..m : u[i] = s[i] /\ i < m + 1 /\ i \in 1..(m + 1)
      /\ m + 1 \in 1..(m + 1)
  OBVIOUS
<1>2. \A j \in I : j \in 1..m
  BY <1>1
<1> HIDE DEF u, m, c
<1>3. c \in Nat
  BY <1>1, <1>2, UpToFacts, FS_CardinalityType DEF c
<1>4. \A n \in 1..c : NthPosition(I, n) \in I
  BY <1>1, <1>2, NthPositionExists DEF c
<1>5. /\ \A i \in I : \E n \in 1..c : NthPosition(I, n) = i
      /\ \A n, k \in 1..c : n < k => NthPosition(I, n) < NthPosition(I, k)
  BY <1>1, <1>2, NthPositionOf DEF c
<1>6. KeepAt(u, I) = KeepAt(s, I)
  <2>1. \A n \in 1..c : u[NthPosition(I, n)] = s[NthPosition(I, n)]
    BY <1>1, <1>2, <1>4
  <2> QED  BY <2>1 DEF KeepAt, c
<1>7. /\ \A n \in 1..c : n \in 1..(c + 1) /\ p[n] = NthPosition(I, n)
      /\ c + 1 \in 1..(c + 1) /\ p[c + 1] = m + 1
      /\ \A n \in 1..(c + 1) : n \in 1..c \/ n = c + 1
  <2>1. /\ \A n \in 1..c : n \in 1..(c + 1) /\ n <= c
        /\ c + 1 \in 1..(c + 1) /\ ~(c + 1 <= c)
        /\ \A n \in 1..(c + 1) : n \in 1..c \/ n = c + 1
    BY <1>3
  <2> QED  BY <2>1
<1>8. p = [n \in 1..(c + 1) |-> p[n]]
  OBVIOUS
<1> HIDE DEF p
<1>9. Ascends(p, c + 1, B)
  <2>1. p \in [1..(c + 1) -> B]
    BY <1>4, <1>7, <1>8
  <2>2. ASSUME NEW n \in 1..(c + 1), NEW k \in 1..(c + 1), n < k PROVE p[n] < p[k]
    <3>1. n \in 1..c
      BY <1>3, <2>2
    <3>2. CASE k \in 1..c
      BY <1>5, <1>7, <2>2, <3>1, <3>2
    <3>3. CASE k = c + 1
      BY <1>1, <1>2, <1>4, <1>7, <3>1, <3>3
    <3> QED  BY <1>7, <3>2, <3>3
  <2>3. \A i \in B : \E n \in 1..(c + 1) : p[n] = i
    BY <1>5, <1>7
  <2> HIDE DEF B
  <2> QED  BY <2>1, <2>2, <2>3 DEF Ascends
<1>10. Cardinality(B) = c + 1 /\ \A n \in 1..(c + 1) : NthPosition(B, n) = p[n]
  <2>1. /\ \A j \in B : j \in 1..(m + 1)
        /\ c + 1 \in Nat /\ m + 1 \in Nat
    BY <1>1, <1>2, <1>3
  <2> HIDE DEF B
  <2> QED  BY <1>9, <2>1, PositionsInOrder
<1> DEFINE x == KeepAt(s, I)
           y == KeepAt(u, B)
<1>11. x \in Seq(T) /\ Len(x) = c /\ \A n \in 1..c : x[n] = s[NthPosition(I, n)]
  BY KeepAtFacts DEF KeepAt, c
<1>12. y = [n \in 1..(c + 1) |-> u[p[n]]]
  BY <1>10 DEF KeepAt
<1> HIDE DEF x, y, B
<1>13. /\ \A n \in 1..c : y[n] = x[n]
       /\ y[c + 1] = e
  BY <1>1, <1>2, <1>4, <1>7, <1>11, <1>12
<1>14. y = Append(x, e)
  <2> DEFINE z == Append(x, e)
  <2>1. /\ z \in Seq(T) /\ Len(z) = c + 1 /\ z[c + 1] = e
        /\ \A n \in 1..c : z[n] = x[n]
    BY <1>3, <1>11
  <2> HIDE DEF z
  <2>2. z = [n \in 1..(c + 1) |-> z[n]]
    BY <1>3, <2>1
  <2>3. \A n \in 1..(c + 1) : z[n] = y[n]
    BY <1>7, <1>13, <2>1
  <2>4. y = [n \in 1..(c + 1) |-> y[n]]
    BY <1>12
  <2>5. z = y
    BY <2>2, <2>3, <2>4
  <2> QED  BY <2>5 DEF z
<1> QED  BY <1>6, <1>14 DEF u, x, y, B, m

(* One more element for a filter.                                          *)
LEMMA KeepAppend ==
  ASSUME NEW T, NEW s \in Seq(T), NEW e \in T, NEW S
  PROVE  Keep(Append(s, e), S) = IF e \in S THEN Append(Keep(s, S), e) ELSE Keep(s, S)
<1> DEFINE u == Append(s, e)
           I == {i \in DOMAIN s : s[i] \in S}
           J == {i \in DOMAIN u : u[i] \in S}
<1>1. /\ Len(s) \in Nat /\ DOMAIN s = 1..Len(s) /\ DOMAIN u = 1..(Len(s) + 1)
      /\ \A i \in 1..Len(s) : u[i] = s[i]
      /\ u[Len(s) + 1] = e
  OBVIOUS
<1>2. J = IF e \in S THEN I \cup {Len(s) + 1} ELSE I
  <2> HIDE DEF u
  <2>1. \A i \in 1..(Len(s) + 1) : i \in 1..Len(s) \/ i = Len(s) + 1
    BY <1>1
  <2>2. /\ \A i \in 1..Len(s) : i \in 1..(Len(s) + 1)
        /\ Len(s) + 1 \in 1..(Len(s) + 1) /\ Len(s) + 1 \notin 1..Len(s)
    BY <1>1
  <2> QED  BY <1>1, <2>1, <2>2
<1>3. \A j \in I : j \in DOMAIN s
  OBVIOUS
<1>4. Keep(s, S) = KeepAt(s, I) /\ Keep(u, S) = KeepAt(u, J)
  BY DEF Keep
<1> HIDE DEF I, J
<1>5. KeepAt(u, I) = KeepAt(s, I) /\ KeepAt(u, I \cup {Len(s) + 1}) = Append(KeepAt(s, I), e)
  BY <1>3, KeepAtAppend
<1> HIDE DEF u
<1>6. Keep(u, S) = IF e \in S THEN Append(Keep(s, S), e) ELSE Keep(s, S)
  BY <1>2, <1>4, <1>5
<1> QED  BY <1>6 DEF u

(* One more element for a seed.                                            *)
LEMMA FirstOccurrencesAppend ==
  ASSUME NEW T, NEW s \in Seq(T), NEW e \in T
  PROVE  FirstOccurrences(Append(s, e)) =
           IF e \in Range(s) THEN FirstOccurrences(s) ELSE Append(FirstOccurrences(s), e)
<1> DEFINE u == Append(s, e)
           m == Len(s)
           I == {i \in DOMAIN s : \A j \in DOMAIN s : s[j] = s[i] => i <= j}
           J == {i \in DOMAIN u : \A j \in DOMAIN u : u[j] = u[i] => i <= j}
<1>1. /\ m \in Nat /\ DOMAIN s = 1..m /\ DOMAIN u = 1..(m + 1)
      /\ \A i \in 1..m : u[i] = s[i]
      /\ u[m + 1] = e
      /\ \A i \in 1..(m + 1) : i \in 1..m \/ i = m + 1
      /\ \A i \in 1..m : i \in 1..(m + 1) /\ i <= m + 1 /\ ~(m + 1 <= i)
      /\ m + 1 \in 1..(m + 1) /\ m + 1 <= m + 1
  OBVIOUS
<1>2. e \in Range(s) <=> \E j \in 1..m : s[j] = e
  BY <1>1 DEF Range
<1> HIDE DEF u, m
<1>3. ASSUME NEW i \in 1..m PROVE i \in J <=> i \in I
  BY <1>1, <1>3
<1>4. m + 1 \in J <=> e \notin Range(s)
  BY <1>1, <1>2
<1>5. \A i \in I \cup J : i \in 1..(m + 1)
  BY <1>1
<1>6. \A j \in I : j \in DOMAIN s /\ j \in 1..m
  BY <1>1
<1>7. FirstOccurrences(s) = KeepAt(s, I) /\ FirstOccurrences(u) = KeepAt(u, J)
  BY DEF FirstOccurrences
<1> HIDE DEF I, J
<1>8. \A i : i \in J <=> i \in I \/ (i = m + 1 /\ e \notin Range(s))
  <2>1. \A i : i \in I \cup J => i \in 1..m \/ i = m + 1
    BY <1>1, <1>5
  <2>2. m + 1 \notin I
    BY <1>1, <1>6
  <2> QED  BY <1>3, <1>4, <2>1, <2>2
<1>9. J = IF e \in Range(s) THEN I ELSE I \cup {m + 1}
  BY <1>8
<1>10. KeepAt(u, I) = KeepAt(s, I) /\ KeepAt(u, I \cup {m + 1}) = Append(KeepAt(s, I), e)
  BY <1>6, KeepAtAppend DEF u, m
<1>11. FirstOccurrences(u) =
         IF e \in Range(s) THEN FirstOccurrences(s) ELSE Append(FirstOccurrences(s), e)
  BY <1>7, <1>9, <1>10
<1> QED  BY <1>11 DEF u

(* The first n elements of a list, for n one more.                         *)
LEMMA PrefixFacts ==
  ASSUME NEW T, NEW s \in Seq(T)
  PROVE  /\ SubSeq(s, 1, 0) = <<>> /\ SubSeq(s, 1, Len(s)) = s
         /\ \A n \in 0..Len(s) : SubSeq(s, 1, n) \in Seq(T)
         /\ \A n \in 1..Len(s) : SubSeq(s, 1, n) = Append(SubSeq(s, 1, n - 1), s[n])
OBVIOUS

(* What a list begins with.                                                *)
LEMMA PrefixOfConcat ==
  ASSUME NEW T, NEW k \in Seq(T), NEW rest \in Seq(T)
  PROVE  IsPrefix(k, k \o rest)
<1> DEFINE n == Len(k)
           c == k \o rest
<1>1. n \in Nat /\ c \in Seq(T) /\ n <= Len(c) /\ \A i \in 1..n : c[i] = k[i]
  OBVIOUS
<1>2. k \in Seq(T) /\ DOMAIN k = 1..n
  OBVIOUS
<1> HIDE DEF n, c
<1>3. SubSeq(k, 1, n) = [i \in 1..n |-> k[i]] /\ SubSeq(c, 1, n) = [i \in 1..n |-> c[i]]
  BY <1>1, <1>2
<1>4. SubSeq(k, 1, n) = SubSeq(c, 1, n)
  BY <1>1, <1>3
<1> QED  BY <1>1, <1>4 DEF IsPrefix, n, c

(* The lists of the members of a finite set: no member twice.              *)
LEMMA SetToSeqsFacts ==
  ASSUME NEW S, IsFiniteSet(S), NEW q \in SetToSeqs(S)
  PROVE  q \in Seq(S) /\ Range(q) = S /\ IsInjective(q)
<1>1. Cardinality(S) \in Nat
  BY FS_CardinalityType
<1> DEFINE D == 1..Cardinality(S)
<1>2. q \in [D -> S] /\ \A i, j \in D : i # j => q[i] # q[j]
  BY DEF SetToSeqs
<1>3. q \in Injection(D, S)
  BY <1>2 DEF Injection, IsInjective
<1>4. IsFiniteSet(D) /\ Cardinality(D) = Cardinality(S)
  BY <1>1, FS_Interval, 1 \in Int, Cardinality(S) \in Int
<1> HIDE DEF D
<1>5. q \in Surjection(D, S)
  BY <1>3, <1>4, FS_Injection
<1>6. \A w \in S : \E i \in D : q[i] = w
  BY <1>5 DEF Surjection
<1> QED  BY <1>1, <1>2, <1>6 DEF D, Range, IsInjective

(* Two lists with no common member make one without repetitions.           *)
LEMMA ConcatFacts ==
  ASSUME NEW T, NEW s \in Seq(T), NEW t \in Seq(T)
  PROVE  /\ s \o t \in Seq(T)
         /\ Range(s \o t) = Range(s) \cup Range(t)
         /\ IsInjective(s) /\ IsInjective(t) /\ Range(s) \cap Range(t) = {}
              => IsInjective(s \o t)
<1> DEFINE c == s \o t
           m == Len(s)
           n == Len(t)
<1>1. /\ m \in Nat /\ n \in Nat
      /\ DOMAIN s = 1..m /\ DOMAIN t = 1..n
  OBVIOUS
<1>2. c \in Seq(T) /\ Len(c) = m + n
  OBVIOUS
<1>3. DOMAIN c = 1..(m + n)
  BY <1>2
<1>4. /\ \A i \in 1..m : c[i] = s[i]
      /\ \A i \in 1..n : c[m + i] = t[i]
  OBVIOUS
<1> HIDE DEF c, m, n
<1>5. \A i \in 1..(m + n) : i \in 1..m \/ (i - m \in 1..n /\ i = m + (i - m))
  BY <1>1
<1>6. \A i \in 1..n : m + i \in 1..(m + n)
  BY <1>1
<1>7. \A i \in 1..m : i \in 1..(m + n)
  BY <1>1
<1>8. Range(c) = Range(s) \cup Range(t)
  <2>1. ASSUME NEW i \in DOMAIN c PROVE c[i] \in Range(s) \cup Range(t)
    <3>1. CASE i \in 1..m
      BY <1>1, <1>4, <3>1 DEF Range
    <3>2. CASE i - m \in 1..n /\ i = m + (i - m)
      <4>1. c[i] = t[i - m]
        BY <1>4, <3>2
      <4> QED  BY <1>1, <3>2, <4>1 DEF Range
    <3> QED  BY <1>3, <1>5, <3>1, <3>2
  <2>2. ASSUME NEW i \in DOMAIN s PROVE s[i] \in Range(c)
    BY <1>1, <1>3, <1>4, <1>7 DEF Range
  <2>3. ASSUME NEW i \in DOMAIN t PROVE t[i] \in Range(c)
    BY <1>1, <1>3, <1>4, <1>6 DEF Range
  <2>4. Range(c) \subseteq Range(s) \cup Range(t)
    BY <2>1 DEF Range
  <2>5. Range(s) \subseteq Range(c)
    BY <2>2 DEF Range
  <2>6. Range(t) \subseteq Range(c)
    BY <2>3 DEF Range
  <2> QED  BY <2>4, <2>5, <2>6
<1>9. ASSUME IsInjective(s), IsInjective(t), Range(s) \cap Range(t) = {}
      PROVE  IsInjective(c)
  <2>1. \A i, j \in 1..m : s[i] = s[j] => i = j
    BY <1>1, <1>9 DEF IsInjective
  <2>2. \A i, j \in 1..n : t[i] = t[j] => i = j
    BY <1>1, <1>9 DEF IsInjective
  <2>3. \A i \in 1..m, j \in 1..n : s[i] # t[j]
    BY <1>1, <1>9 DEF Range
  <2>4. ASSUME NEW i \in 1..(m + n), NEW j \in 1..(m + n), c[i] = c[j]
        PROVE  i = j
    <3>1. CASE i \in 1..m /\ j \in 1..m
      BY <1>4, <2>1, <2>4, <3>1
    <3>2. CASE i \in 1..m /\ j \notin 1..m
      BY <1>4, <1>5, <2>3, <2>4, <3>2
    <3>3. CASE i \notin 1..m /\ j \in 1..m
      BY <1>4, <1>5, <2>3, <2>4, <3>3
    <3>4. CASE i \notin 1..m /\ j \notin 1..m
      <4>1. c[i] = t[i - m] /\ i - m \in 1..n /\ c[j] = t[j - m] /\ j - m \in 1..n
        BY <1>4, <1>5, <3>4
      <4>2. i - m = j - m
        BY <2>2, <2>4, <4>1
      <4> QED  BY <1>1, <4>2
    <3> QED  BY <3>1, <3>2, <3>3, <3>4
  <2> QED  BY <1>3, <2>4 DEF IsInjective
<1> QED  BY <1>2, <1>8, <1>9 DEF c

(* merge_mru_order repeats nothing and loses nothing.                      *)
THEOREM MergeFacts ==
  ASSUME NEW T, NEW primary \in Seq(T), NEW fallback \in Seq(T)
  PROVE  /\ Merge(primary, fallback) \in Seq(T)
         /\ IsInjective(Merge(primary, fallback))
         /\ Range(Merge(primary, fallback)) = Range(primary) \cup Range(fallback)
<1>1. /\ primary \o fallback \in Seq(T)
      /\ Range(primary \o fallback) = Range(primary) \cup Range(fallback)
  BY ConcatFacts
<1> DEFINE c == primary \o fallback
<1>2. Merge(primary, fallback) = FirstOccurrences(c)
  BY DEF Merge
<1> HIDE DEF c
<1>3. c \in Seq(T) /\ Range(c) = Range(primary) \cup Range(fallback)
  BY <1>1 DEF c
<1> QED  BY <1>2, <1>3, FirstOccurrencesFacts

(* A primary order without repetitions stays in front, as it is, and what  *)
(* follows is what only the fallback holds, each once.                     *)
THEOREM MergeExtends ==
  ASSUME NEW T, NEW primary \in Seq(T), NEW fallback \in Seq(T), IsInjective(primary)
  PROVE  \E rest \in Seq(T) : /\ Merge(primary, fallback) = primary \o rest
                              /\ Range(rest) = Range(fallback) \ Range(primary)
                              /\ IsInjective(rest)
<1> DEFINE u == primary \o fallback
           m == Len(primary)
           I == {i \in DOMAIN u : \A j \in DOMAIN u : u[j] = u[i] => i <= j}
           k == Merge(primary, fallback)
<1>1. /\ m \in Nat /\ u \in Seq(T) /\ Len(u) \in Nat /\ m <= Len(u)
      /\ DOMAIN primary = 1..m /\ DOMAIN u = 1..Len(u)
      /\ \A i \in 1..m : u[i] = primary[i]
  OBVIOUS
<1>2. /\ k \in Seq(T) /\ IsInjective(k) /\ Range(k) = Range(primary) \cup Range(fallback)
  BY MergeFacts
<1>3. k = KeepAt(u, I)
  BY DEF Merge, FirstOccurrences
<1>4. /\ \A i \in I : i \in 1..Len(u) /\ i \in Nat
      /\ \A i \in 1..Len(u) : i \in I <=> \A j \in 1..Len(u) : u[j] = u[i] => i <= j
  <2> HIDE DEF u
  <2> DEFINE D == DOMAIN u
  <2>1. \A i : i \in I <=> i \in D /\ \A j \in D : u[j] = u[i] => i <= j
    OBVIOUS
  <2>2. D = 1..Len(u) /\ \A i \in 1..Len(u) : i \in Nat
    BY <1>1
  <2> HIDE DEF I, D
  <2> QED  BY <2>1, <2>2
<1> HIDE DEF u, m, I, k
<1>5. ASSUME NEW i \in 1..m PROVE i \in I
  <2>1. i \in 1..Len(u) /\ i \in Nat
    BY <1>1
  <2>2. ASSUME NEW j \in 1..Len(u), u[j] = u[i], ~(i <= j) PROVE FALSE
    <3>1. j \in 1..m /\ j # i
      BY <1>1, <2>1, <2>2
    <3>2. primary[j] = primary[i]
      BY <1>1, <2>2, <3>1
    <3> QED  BY <1>1, <3>1, <3>2 DEF IsInjective
  <2> QED  BY <1>4, <2>1, <2>2
<1>6. Len(k) = Cardinality(I) /\ Cardinality(I) \in Nat
  BY <1>1, <1>3, <1>4, KeepAtFacts
<1>7. ASSUME NEW i \in 1..m
      PROVE  i \in 1..Cardinality(I) /\ k[i] = primary[i]
  <2>1. UpTo(I, i) = 1..i
    <3>1. \A j \in 1..i : j \in 1..m /\ j <= i
      BY <1>1
    <3>2. \A j \in I : j <= i => j \in 1..i
      BY <1>1, <1>4
    <3> QED  BY <1>5, <3>1, <3>2 DEF UpTo
  <2>2. Cardinality(1..i) = i
    BY <1>1, FS_Interval
  <2>3. /\ Cardinality(UpTo(I, i)) \in 1..Cardinality(I)
        /\ NthPosition(I, Cardinality(UpTo(I, i))) = i
    BY <1>1, <1>4, <1>5, NthPositionOf
  <2>4. i \in 1..Cardinality(I) /\ NthPosition(I, i) = i
    BY <2>1, <2>2, <2>3
  <2>5. k[i] = u[i]
    BY <1>3, <2>4 DEF KeepAt
  <2> QED  BY <1>1, <2>4, <2>5
<1>8. m <= Len(k)
  <2>1. CASE m = 0
    BY <1>6, <2>1
  <2>2. CASE m # 0
    <3>1. m \in 1..m
      BY <1>1, <2>2
    <3> QED  BY <1>1, <1>6, <1>7, <3>1
  <2> QED  BY <2>1, <2>2
<1> DEFINE rest == [i \in 1..(Len(k) - m) |-> k[m + i]]
<1>9. /\ Len(k) \in Nat /\ DOMAIN k = 1..Len(k)
      /\ \A i \in 1..Len(k) : k[i] \in T
      /\ \A i \in 1..(Len(k) - m) : m + i \in 1..Len(k)
      /\ \A i \in 1..Len(k) : i \in 1..m \/ (i - m \in 1..(Len(k) - m) /\ m + (i - m) = i)
  BY <1>1, <1>2, <1>8
<1>10. rest \in Seq(T) /\ Len(rest) = Len(k) - m
  BY <1>1, <1>8, <1>9
<1>11. /\ DOMAIN rest = 1..(Len(k) - m)
       /\ \A i \in 1..(Len(k) - m) : rest[i] = k[m + i]
  OBVIOUS
<1> HIDE DEF rest
<1>12. k = primary \o rest
  <2>1. Len(primary) = m
    BY DEF m
  <2> DEFINE c == primary \o rest
  <2>2. c \in Seq(T) /\ Len(c) = Len(k)
    <3>1. c \in Seq(T) /\ Len(c) = Len(primary) + Len(rest)
      BY <1>10
    <3> QED  BY <1>1, <1>9, <1>10, <2>1, <3>1
  <2>3. ASSUME NEW i \in 1..Len(k) PROVE c[i] = k[i]
    <3>1. CASE i \in 1..m
      <4>1. c[i] = primary[i]
        BY <1>1, <1>10, <2>1, <3>1
      <4> QED  BY <1>7, <3>1, <4>1
    <3>2. CASE i - m \in 1..(Len(k) - m) /\ m + (i - m) = i
      <4>1. c[i] = rest[i - m]
        BY <1>1, <1>9, <1>10, <2>1, <3>2
      <4> QED  BY <1>11, <3>2, <4>1
    <3> QED  BY <1>9, <3>1, <3>2
  <2> HIDE DEF c
  <2>4. c = k
    BY <1>2, <2>2, <2>3
  <2> QED  BY <2>4 DEF c
<1>13. IsInjective(rest)
  <2>1. ASSUME NEW i \in 1..(Len(k) - m), NEW j \in 1..(Len(k) - m), rest[i] = rest[j]
        PROVE  i = j
    <3>1. k[m + i] = k[m + j] /\ m + i \in 1..Len(k) /\ m + j \in 1..Len(k)
      BY <1>9, <1>11, <2>1
    <3>2. m + i = m + j
      BY <1>2, <1>9, <3>1 DEF IsInjective
    <3> QED  BY <1>1, <1>9, <3>2
  <2> QED  BY <1>11, <2>1 DEF IsInjective
<1>14. Range(rest) \cap Range(primary) = {}
  <2>1. ASSUME NEW i \in 1..(Len(k) - m), NEW j \in 1..m, rest[i] = primary[j]
        PROVE  FALSE
    <3>1. k[m + i] = k[j] /\ m + i \in 1..Len(k) /\ j \in 1..Len(k)
      BY <1>6, <1>7, <1>9, <1>11, <2>1
    <3>2. m + i = j
      BY <1>2, <1>9, <3>1 DEF IsInjective
    <3> QED  BY <1>1, <1>9, <3>2
  <2>2. /\ Range(rest) = {rest[i] : i \in 1..(Len(k) - m)}
        /\ Range(primary) = {primary[i] : i \in 1..m}
    BY <1>1, <1>11 DEF Range
  <2> QED  BY <2>1, <2>2
<1>15. Range(k) = Range(primary) \cup Range(rest)
  BY <1>10, <1>12, ConcatFacts
<1>16. Range(rest) = Range(fallback) \ Range(primary)
  BY <1>2, <1>14, <1>15
<1> QED  BY <1>10, <1>12, <1>13, <1>16 DEF k

(* A list of every member of a set, each once, is one of SetToSeqs.        *)
LEMMA SetToSeqsOf ==
  ASSUME NEW T, NEW q \in Seq(T), IsInjective(q)
  PROVE  q \in SetToSeqs(Range(q)) /\ IsFiniteSet(Range(q))
<1> DEFINE D == 1..Len(q)
           R == Range(q)
<1>1. Len(q) \in Nat /\ q \in [D -> R] /\ DOMAIN q = D
  BY DEF Range
<1>2. IsFiniteSet(D) /\ Cardinality(D) = Len(q)
  BY <1>1, FS_Interval, SMTT(30)
<1>3. q \in Surjection(D, R) /\ q \in Injection(D, R)
  BY <1>1 DEF Surjection, Injection, IsInjective, Range
<1> HIDE DEF D, R
<1>4. IsFiniteSet(R) /\ Cardinality(R) = Cardinality(D)
  BY <1>2, <1>3, FS_Surjection
<1>5. \A i, j \in D : i # j => q[i] # q[j]
  BY <1>1 DEF IsInjective
<1>6. D = 1..Cardinality(R)
  BY <1>2, <1>4 DEF D
<1>7. q \in SetToSeqs(R)
  BY <1>1, <1>5, <1>6 DEF SetToSeqs
<1> QED  BY <1>4, <1>7 DEF R

-----------------------------------------------------------------------------
(***************************************************************************)
(* Indices.                                                                *)
(***************************************************************************)

(* Every operator of Selection returns an index into a non-empty list,     *)
(* whatever index it is given: Snapshot::at is defined on its result.      *)
THEOREM IndexInRange ==
  ASSUME NEW len \in Nat, NEW index \in Nat, NEW offset \in StartOffsets,
         NEW direction \in Directions, NEW wrap \in BOOLEAN
  PROVE  /\ Clamp(index, len) \in Nat
         /\ InitialIndex(offset, len) \in Nat
         /\ AdvanceIndex(index, direction, wrap, len) \in Nat
         /\ len > 0 => /\ Clamp(index, len) < len
                       /\ InitialIndex(offset, len) < len
                       /\ AdvanceIndex(index, direction, wrap, len) < len
<1>1. \A k \in Nat : Clamp(k, len) \in Nat /\ (len > 0 => Clamp(k, len) < len)
  BY DEF Clamp
<1>2. InitialIndex(offset, len) \in Nat /\ (len > 0 => InitialIndex(offset, len) < len)
  BY <1>1 DEF InitialIndex
<1>3. /\ AdvanceIndex(index, direction, wrap, len) \in Nat
      /\ len > 0 => AdvanceIndex(index, direction, wrap, len) < len
  <2> DEFINE i == Clamp(index, len)
  <2>1. i \in Nat /\ (len > 0 => i < len)
    BY <1>1
  <2>2. Clamp(i + 1, len) \in Nat /\ (len > 0 => Clamp(i + 1, len) < len)
    BY <1>1, <2>1
  <2>3. len > 0 => /\ (i + 1) % len \in 0..(len - 1)
                   /\ (i + len - 1) % len \in 0..(len - 1)
    BY <2>1
  <2>4. direction = "Next" \/ direction = "Prev"
    BY DEF Directions
  <2> HIDE DEF i
  <2>5. CASE len = 0
    <3>1. AdvanceIndex(index, direction, wrap, len) = 0
      BY <2>5 DEF AdvanceIndex
    <3> QED  BY <2>5, <3>1
  <2>6. CASE len > 0 /\ wrap
    BY <2>3, <2>4, <2>6 DEF AdvanceIndex, i
  <2>7. CASE len > 0 /\ ~wrap
    BY <2>1, <2>2, <2>4, <2>7 DEF AdvanceIndex, i
  <2> QED  BY <2>5, <2>6, <2>7
<1> QED  BY <1>1, <1>2, <1>3

(* With wrap, a step back undoes a step forward, on a list of any length:  *)
(* overshooting by one key press is repaired by one.                       *)
THEOREM PrevUndoesNext ==
  ASSUME NEW len \in Nat \ {0}, NEW index \in 0..(len - 1)
  PROVE  AdvanceIndex(AdvanceIndex(index, "Next", TRUE, len), "Prev", TRUE, len) = index
<1>1. Clamp(index, len) = index
  BY DEF Clamp
<1>2. AdvanceIndex(index, "Next", TRUE, len) = IF index = len - 1 THEN 0 ELSE index + 1
  <2>1. (index + 1) % len = IF index = len - 1 THEN 0 ELSE index + 1
    OBVIOUS
  <2> QED  BY <1>1, <2>1 DEF AdvanceIndex
<1> DEFINE k == IF index = len - 1 THEN 0 ELSE index + 1
<1>3. k \in 0..(len - 1) /\ (k + len - 1) % len = index
  OBVIOUS
<1> HIDE DEF k
<1>4. Clamp(k, len) = k
  BY <1>3 DEF Clamp
<1>5. AdvanceIndex(k, "Prev", TRUE, len) = (k + len - 1) % len
  BY <1>4 DEF AdvanceIndex
<1> QED  BY <1>2, <1>3, <1>5 DEF k

=============================================================================
