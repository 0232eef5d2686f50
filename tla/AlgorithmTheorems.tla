-------------------------- MODULE AlgorithmTheorems --------------------------
(***************************************************************************)
(* What the pure parts of the program come to for every input, and the     *)
(* proofs: the loops of the code, the candidates of a session, the         *)
(* configuration, the arguments of a dispatcher and the colours of a       *)
(* border; and with them the invariants of MCMruList and MCAlgorithms.     *)
(***************************************************************************)
EXTENDS MruListTheorems, MCAlgorithms

-----------------------------------------------------------------------------
(***************************************************************************)
(* The loops of the code.                                                  *)
(***************************************************************************)

(* Every round of the filter loop appends its element, or does not.        *)
LEMMA FilterRounds ==
  ASSUME NEW T, NEW s \in Seq(T), NEW S
  PROVE  \E out : /\ out[0] = <<>> /\ FilterLoop(s, S) = out[Len(s)]
                  /\ \A n \in 1..Len(s) :
                       out[n] = IF s[n] \in S THEN Append(out[n - 1], s[n]) ELSE out[n - 1]
<1> DEFINE len == Len(s)
           Round(o) == [n \in 0..len |->
                          IF n = 0 THEN <<>>
                          ELSE IF s[n] \in S THEN Append(o[n - 1], s[n]) ELSE o[n - 1]]
           step == [p \in (1..len) \X Seq(T) |->
                      IF s[p[1]] \in S THEN Append(p[2], s[p[1]]) ELSE p[2]]
           out == CHOOSE o : o = Round(o)
<1>1. len \in Nat /\ <<>> \in Seq(T) /\ \A n \in 1..len : s[n] \in T
  OBVIOUS
<1>2. ASSUME NEW n \in 1..len, NEW x \in Seq(T)
      PROVE  /\ step[<<n, x>>] = IF s[n] \in S THEN Append(x, s[n]) ELSE x
             /\ step[<<n, x>>] \in Seq(T)
  BY <1>1
<1>3. PICK f : Runs(f, Seq(T), <<>>, step, len)
  <2>1. StaysIn(Seq(T), step, len)
    BY <1>2 DEF StaysIn
  <2> HIDE DEF len, step
  <2> QED  BY <1>1, <2>1, LoopExists
<1>4. f = Round(f)
  <2>1. f \in [0..len -> Seq(T)] /\ f[0] = <<>> /\ \A n \in 1..len : f[n] = step[<<n, f[n - 1]>>]
    BY <1>3 DEF Runs
  <2> HIDE DEF step, len
  <2>2. \A n \in 0..len : n # 0 => n \in 1..len /\ n - 1 \in 0..len
    BY <1>1
  <2>3. \A n \in 0..len :
          f[n] = IF n = 0 THEN <<>>
                 ELSE IF s[n] \in S THEN Append(f[n - 1], s[n]) ELSE f[n - 1]
    BY <1>2, <2>1, <2>2
  <2> QED  BY <2>1, <2>3
<1>5. out = Round(out)
  <2> HIDE DEF Round
  <2> QED  BY <1>4
<1>6. FilterLoop(s, S) = out[len]
  BY DEF FilterLoop
<1> HIDE DEF out
<1>7. out[0] = <<>>
  BY <1>1, <1>5
<1>8. \A n \in 1..len : out[n] = IF s[n] \in S THEN Append(out[n - 1], s[n]) ELSE out[n - 1]
  <2> HIDE DEF len
  <2>1. \A n \in 1..len : n \in 0..len /\ n # 0
    BY <1>1
  <2> QED  BY <1>5, <2>1
<1> QED  BY <1>6, <1>7, <1>8

(* The filter loop returns what Keep does, whatever the list repeats.      *)
LEMMA FilterLoopKeeps ==
  ASSUME NEW T, NEW s \in Seq(T), NEW S
  PROVE  FilterLoop(s, S) = Keep(s, S)
<1> DEFINE len == Len(s)
           prefix(n) == SubSeq(s, 1, n)
<1>1. PICK out : /\ out[0] = <<>> /\ FilterLoop(s, S) = out[len]
                 /\ \A n \in 1..len :
                      out[n] = IF s[n] \in S THEN Append(out[n - 1], s[n]) ELSE out[n - 1]
  BY FilterRounds
<1> DEFINE K == {n \in Nat : n <= len => out[n] = Keep(prefix(n), S)}
<1>2. len \in Nat /\ \A n \in 1..len : s[n] \in T
  OBVIOUS
<1>3. 0 \in K
  <2>1. Keep(<<>>, S) = <<>>
    BY KeepEmpty
  <2> QED  BY <1>1, <2>1, PrefixFacts
<1>4. ASSUME NEW n \in Nat, n \in K PROVE n + 1 \in K
  <2> SUFFICES ASSUME n + 1 <= len PROVE out[n + 1] = Keep(prefix(n + 1), S)
    OBVIOUS
  <2>1. /\ n + 1 \in 1..len /\ (n + 1) - 1 = n /\ n <= len /\ n \in 0..len
    BY <1>2
  <2>2. out[n] = Keep(prefix(n), S)
    BY <1>4, <2>1
  <2>3. prefix(n) \in Seq(T) /\ prefix(n + 1) = Append(prefix(n), s[n + 1])
    BY <2>1, PrefixFacts
  <2> DEFINE t == prefix(n)
             e == s[n + 1]
  <2>4. e \in T
    BY <1>2, <2>1
  <2>5. t \in Seq(T) /\ prefix(n + 1) = Append(t, e)
    BY <2>3
  <2>6. out[n + 1] = IF e \in S THEN Append(out[n], e) ELSE out[n]
    BY <1>1, <2>1
  <2> HIDE DEF t, e, K, prefix, len
  <2>7. Keep(Append(t, e), S) = IF e \in S THEN Append(Keep(t, S), e) ELSE Keep(t, S)
    BY <2>4, <2>5, KeepAppend
  <2>8. out[n] = Keep(t, S)
    BY <2>2 DEF t
  <2> QED  BY <2>5, <2>6, <2>7, <2>8
<1>5. len \in K
  <2> HIDE DEF K
  <2> QED  BY <1>2, <1>3, <1>4, SetInduction
<1>6. prefix(len) = s
  BY PrefixFacts
<1> HIDE DEF len, prefix
<1>7. out[len] = Keep(prefix(len), S)
  BY <1>2, <1>5
<1> QED  BY <1>1, <1>6, <1>7

(* Every round of the push loop appends an element that is new.            *)
LEMMA PushRounds ==
  ASSUME NEW T, NEW first \in Seq(T), NEW s \in Seq(T)
  PROVE  \E out : /\ out[0] = first /\ PushUnique(first, s) = out[Len(s)]
                  /\ \A n \in 1..Len(s) :
                       out[n] = IF s[n] \in Range(out[n - 1]) THEN out[n - 1]
                                ELSE Append(out[n - 1], s[n])
<1> DEFINE len == Len(s)
           Round(o) == [n \in 0..len |->
                          IF n = 0 THEN first
                          ELSE IF s[n] \in Range(o[n - 1]) THEN o[n - 1]
                               ELSE Append(o[n - 1], s[n])]
           step == [p \in (1..len) \X Seq(T) |->
                      IF s[p[1]] \in Range(p[2]) THEN p[2] ELSE Append(p[2], s[p[1]])]
           out == CHOOSE o : o = Round(o)
<1>1. len \in Nat /\ \A n \in 1..len : s[n] \in T
  OBVIOUS
<1>2. ASSUME NEW n \in 1..len, NEW x \in Seq(T)
      PROVE  /\ step[<<n, x>>] = IF s[n] \in Range(x) THEN x ELSE Append(x, s[n])
             /\ step[<<n, x>>] \in Seq(T)
  BY <1>1
<1>3. PICK f : Runs(f, Seq(T), first, step, len)
  <2>1. StaysIn(Seq(T), step, len)
    BY <1>2 DEF StaysIn
  <2> HIDE DEF len, step
  <2> QED  BY <1>1, <2>1, LoopExists
<1>4. f = Round(f)
  <2>1. f \in [0..len -> Seq(T)] /\ f[0] = first /\ \A n \in 1..len : f[n] = step[<<n, f[n - 1]>>]
    BY <1>3 DEF Runs
  <2> HIDE DEF step, len
  <2>2. \A n \in 0..len : n # 0 => n \in 1..len /\ n - 1 \in 0..len
    BY <1>1
  <2>3. \A n \in 0..len :
          f[n] = IF n = 0 THEN first
                 ELSE IF s[n] \in Range(f[n - 1]) THEN f[n - 1] ELSE Append(f[n - 1], s[n])
    BY <1>2, <2>1, <2>2
  <2> QED  BY <2>1, <2>3
<1>5. out = Round(out)
  <2> HIDE DEF Round
  <2> QED  BY <1>4
<1>6. PushUnique(first, s) = out[len]
  BY DEF PushUnique
<1> HIDE DEF out
<1>7. out[0] = first
  BY <1>1, <1>5
<1>8. \A n \in 1..len :
        out[n] = IF s[n] \in Range(out[n - 1]) THEN out[n - 1] ELSE Append(out[n - 1], s[n])
  <2> HIDE DEF len
  <2>1. \A n \in 1..len : n \in 0..len /\ n # 0
    BY <1>1
  <2> QED  BY <1>5, <2>1
<1> QED  BY <1>6, <1>7, <1>8

(* Pushing s into what was pushed of base is pushing both in one go.       *)
LEMMA PushLoopSeeds ==
  ASSUME NEW T, NEW base \in Seq(T), NEW s \in Seq(T)
  PROVE  PushUnique(FirstOccurrences(base), s) = FirstOccurrences(base \o s)
<1> DEFINE len == Len(s)
           prefix(n) == SubSeq(s, 1, n)
           first == FirstOccurrences(base)
<1>0. first \in Seq(T)
  BY FirstOccurrencesFacts
<1>1. PICK out : /\ out[0] = first /\ PushUnique(first, s) = out[len]
                 /\ \A n \in 1..len :
                      out[n] = IF s[n] \in Range(out[n - 1]) THEN out[n - 1]
                               ELSE Append(out[n - 1], s[n])
  <2> HIDE DEF first
  <2> QED  BY <1>0, PushRounds
<1> DEFINE K == {n \in Nat : n <= len => out[n] = FirstOccurrences(base \o prefix(n))}
<1>2. len \in Nat /\ \A n \in 1..len : s[n] \in T
  OBVIOUS
<1>3. 0 \in K
  <2>1. base \o prefix(0) = base
    BY PrefixFacts
  <2> QED  BY <1>1, <2>1
<1>4. ASSUME NEW n \in Nat, n \in K PROVE n + 1 \in K
  <2> SUFFICES ASSUME n + 1 <= len PROVE out[n + 1] = FirstOccurrences(base \o prefix(n + 1))
    OBVIOUS
  <2>1. /\ n + 1 \in 1..len /\ (n + 1) - 1 = n /\ n <= len /\ n \in 0..len
    BY <1>2
  <2> DEFINE t == base \o prefix(n)
             e == s[n + 1]
  <2>2. out[n] = FirstOccurrences(t)
    BY <1>4, <2>1
  <2>3. prefix(n) \in Seq(T) /\ prefix(n + 1) = Append(prefix(n), e) /\ e \in T
    BY <1>2, <2>1, PrefixFacts
  <2>4. t \in Seq(T) /\ base \o prefix(n + 1) = Append(t, e)
    <3> DEFINE x == prefix(n)
    <3>1. x \in Seq(T)
      BY <2>3
    <3> HIDE DEF x, e, K
    <3>2. base \o x \in Seq(T) /\ base \o Append(x, e) = Append(base \o x, e)
      BY <2>3, <3>1
    <3> QED  BY <2>3, <3>2 DEF x
  <2> HIDE DEF t, e, prefix, len, first
  <2>5. Range(FirstOccurrences(t)) = Range(t)
    BY <2>4, FirstOccurrencesFacts
  <2>6. FirstOccurrences(Append(t, e)) = IF e \in Range(t) THEN FirstOccurrences(t)
                                         ELSE Append(FirstOccurrences(t), e)
    BY <2>3, <2>4, FirstOccurrencesAppend
  <2>7. out[n + 1] = IF e \in Range(out[n]) THEN out[n] ELSE Append(out[n], e)
    BY <1>1, <2>1 DEF e
  <2> QED  BY <2>2, <2>4, <2>5, <2>6, <2>7
<1>5. len \in K
  <2> HIDE DEF K
  <2> QED  BY <1>2, <1>3, <1>4, SetInduction
<1>6. prefix(len) = s
  BY PrefixFacts
<1> HIDE DEF len, prefix
<1>7. out[len] = FirstOccurrences(base \o prefix(len))
  BY <1>2, <1>5
<1> QED  BY <1>1, <1>6, <1>7

(* One press from an entry that exists.                                    *)
LEMMA AdvanceFacts ==
  ASSUME NEW len \in Nat \ {0}, NEW k \in 0..(len - 1)
  PROVE  /\ AdvanceIndex(k, "Next", TRUE, len) = IF k = len - 1 THEN 0 ELSE k + 1
         /\ AdvanceIndex(k, "Prev", TRUE, len) = IF k = 0 THEN len - 1 ELSE k - 1
         /\ AdvanceIndex(k, "Next", FALSE, len) = IF k = len - 1 THEN k ELSE k + 1
         /\ AdvanceIndex(k, "Prev", FALSE, len) = IF k = 0 THEN 0 ELSE k - 1
<1>1. Clamp(k, len) = k /\ Clamp(k + 1, len) = IF k = len - 1 THEN k ELSE k + 1
  BY DEF Clamp
<1>2. (k + 1) % len = IF k = len - 1 THEN 0 ELSE k + 1
  OBVIOUS
<1>3. (k + len - 1) % len = IF k = 0 THEN len - 1 ELSE k - 1
  <2>1. CASE k = 0
    BY <2>1
  <2>2. CASE k > 0
    <3>1. k + len - 1 = (k - 1) + len /\ k - 1 \in 0..(len - 1)
      BY <2>2
    <3>2. ((k - 1) + len) % len = k - 1
      BY <2>2
    <3> QED  BY <2>2, <3>1, <3>2
  <2> QED  BY <2>1, <2>2
<1>4. AdvanceIndex(k, "Next", TRUE, len) = IF k = len - 1 THEN 0 ELSE k + 1
  <2>1. AdvanceIndex(k, "Next", TRUE, len) = (k + 1) % len
    BY <1>1 DEF AdvanceIndex
  <2> QED  BY <1>2, <2>1
<1>5. AdvanceIndex(k, "Prev", TRUE, len) = IF k = 0 THEN len - 1 ELSE k - 1
  <2>1. AdvanceIndex(k, "Prev", TRUE, len) = (k + len - 1) % len
    BY <1>1 DEF AdvanceIndex
  <2> QED  BY <1>3, <2>1
<1>6. AdvanceIndex(k, "Next", FALSE, len) = IF k = len - 1 THEN k ELSE k + 1
  BY <1>1 DEF AdvanceIndex
<1>7. AdvanceIndex(k, "Prev", FALSE, len) = IF k = 0 THEN 0 ELSE k - 1
  BY <1>1 DEF AdvanceIndex
<1> QED  BY <1>4, <1>5, <1>6, <1>7

(* Where n presses lead, for no more presses than entries.                 *)
Reached(i, d, wrap, len, n) ==
  IF d = "Next" THEN IF i + n < len THEN i + n ELSE IF wrap THEN i + n - len ELSE len - 1
                ELSE IF n <= i THEN i - n ELSE IF wrap THEN i - n + len ELSE 0

(* Every press advances the index once.                                    *)
LEMMA WalkRounds ==
  ASSUME NEW len \in Nat \ {0}, NEW i \in 0..(len - 1), NEW d \in Directions,
         NEW wrap \in BOOLEAN
  PROVE  LET at == Walk(i, d, wrap, len)
         IN  /\ DOMAIN at = 0..len /\ at[0] = i
             /\ \A n \in 1..len : at[n] = AdvanceIndex(at[n - 1], d, wrap, len)
<1> DEFINE T == 0..(len - 1)
           next(k) == AdvanceIndex(k, d, wrap, len)
           Round(o) == [n \in 0..len |-> IF n = 0 THEN i ELSE next(o[n - 1])]
           step == [p \in (1..len) \X T |-> next(p[2])]
           at == CHOOSE o : o = Round(o)
<1>1. \A k \in T : next(k) \in T
  <2> SUFFICES ASSUME NEW k \in T PROVE next(k) \in T
    OBVIOUS
  <2>1. k \in Nat /\ len > 0
    OBVIOUS
  <2>2. "First" \in StartOffsets
    BY DEF StartOffsets
  <2>3. next(k) \in Nat /\ next(k) < len
    BY <2>1, <2>2, IndexInRange
  <2> HIDE DEF next
  <2> QED  BY <2>3
<1> HIDE DEF next
<1>2. ASSUME NEW n \in 1..len, NEW x \in T
      PROVE  step[<<n, x>>] = next(x) /\ step[<<n, x>>] \in T
  BY <1>1
<1>3. PICK f : Runs(f, T, i, step, len)
  <2>1. StaysIn(T, step, len)
    BY <1>2 DEF StaysIn
  <2> HIDE DEF T, step
  <2> QED  BY <2>1, LoopExists DEF T
<1>4. f = Round(f)
  <2>1. f \in [0..len -> T] /\ f[0] = i /\ \A n \in 1..len : f[n] = step[<<n, f[n - 1]>>]
    BY <1>3 DEF Runs
  <2> HIDE DEF step, T
  <2>2. \A n \in 0..len : n # 0 => n \in 1..len /\ n - 1 \in 0..len
    OBVIOUS
  <2>3. \A n \in 0..len : f[n] = IF n = 0 THEN i ELSE next(f[n - 1])
    BY <1>2, <2>1, <2>2
  <2> QED  BY <2>1, <2>3
<1>5. at = Round(at)
  <2> HIDE DEF Round
  <2> QED  BY <1>4
<1>6. Walk(i, d, wrap, len) = at
  BY DEF Walk, next
<1> HIDE DEF at
<1>7. DOMAIN at = 0..len /\ at[0] = i
  BY <1>5
<1>8. \A n \in 1..len : at[n] = next(at[n - 1])
  <2>1. \A n \in 1..len : n \in 0..len /\ n # 0
    OBVIOUS
  <2> QED  BY <1>5, <2>1
<1> QED  BY <1>6, <1>7, <1>8 DEF next

(* So many presses lead just there.                                        *)
LEMMA WalkReaches ==
  ASSUME NEW len \in Nat \ {0}, NEW i \in 0..(len - 1), NEW d \in Directions,
         NEW wrap \in BOOLEAN
  PROVE  \A n \in 0..len : Walk(i, d, wrap, len)[n] = Reached(i, d, wrap, len, n)
<1> DEFINE at == Walk(i, d, wrap, len)
           r(n) == Reached(i, d, wrap, len, n)
           K == {n \in Nat : n <= len => at[n] = r(n)}
<1>1. at[0] = i /\ \A n \in 1..len : at[n] = AdvanceIndex(at[n - 1], d, wrap, len)
  BY WalkRounds
<1>2. r(0) = i
  BY DEF Reached
<1>3. ASSUME NEW n \in Nat, n + 1 <= len
      PROVE  r(n) \in 0..(len - 1) /\ AdvanceIndex(r(n), d, wrap, len) = r(n + 1)
  <2>1. r(n) \in 0..(len - 1)
    BY <1>3 DEF Reached
  <2> DEFINE k == r(n)
  <2>2. /\ AdvanceIndex(k, "Next", TRUE, len) = IF k = len - 1 THEN 0 ELSE k + 1
        /\ AdvanceIndex(k, "Prev", TRUE, len) = IF k = 0 THEN len - 1 ELSE k - 1
        /\ AdvanceIndex(k, "Next", FALSE, len) = IF k = len - 1 THEN k ELSE k + 1
        /\ AdvanceIndex(k, "Prev", FALSE, len) = IF k = 0 THEN 0 ELSE k - 1
    <3> HIDE DEF k
    <3> QED  BY <2>1, AdvanceFacts DEF k
  <2>3. CASE d = "Next" /\ wrap = TRUE
    <3>1. r(n + 1) = IF k = len - 1 THEN 0 ELSE k + 1
      BY <1>3, <2>3 DEF Reached
    <3> QED  BY <2>1, <2>2, <2>3, <3>1
  <2>4. CASE d = "Prev" /\ wrap = TRUE
    <3>1. r(n + 1) = IF k = 0 THEN len - 1 ELSE k - 1
      BY <1>3, <2>4 DEF Reached
    <3> QED  BY <2>1, <2>2, <2>4, <3>1
  <2>5. CASE d = "Next" /\ wrap = FALSE
    <3>1. r(n + 1) = IF k = len - 1 THEN k ELSE k + 1
      BY <1>3, <2>5 DEF Reached
    <3> QED  BY <2>1, <2>2, <2>5, <3>1
  <2>6. CASE d = "Prev" /\ wrap = FALSE
    <3>1. r(n + 1) = IF k = 0 THEN 0 ELSE k - 1
      BY <1>3, <2>6 DEF Reached
    <3> QED  BY <2>1, <2>2, <2>6, <3>1
  <2> QED  BY <2>3, <2>4, <2>5, <2>6 DEF Directions
<1> HIDE DEF at, r
<1>4. 0 \in K
  BY <1>1, <1>2
<1>5. ASSUME NEW n \in Nat, n \in K PROVE n + 1 \in K
  <2> SUFFICES ASSUME n + 1 <= len PROVE at[n + 1] = r(n + 1)
    OBVIOUS
  <2>1. n + 1 \in 1..len /\ (n + 1) - 1 = n /\ n <= len
    OBVIOUS
  <2>2. at[n] = r(n)
    BY <1>5, <2>1
  <2> QED  BY <1>1, <1>3, <2>1, <2>2
<1>6. \A n \in Nat : n \in K
  <2> HIDE DEF K
  <2> QED  BY <1>4, <1>5, SetInduction
<1> QED  BY <1>6 DEF at, r

(* Where a walk of len presses comes through and where it ends.            *)
LEMMA WalkFacts ==
  ASSUME NEW len \in Nat \ {0}, NEW i \in 0..(len - 1), NEW d \in Directions
  PROVE  /\ Range(Walk(i, d, TRUE, len)) = 0..(len - 1)
         /\ Walk(i, d, TRUE, len)[len] = i
         /\ Range(Walk(i, d, FALSE, len)) = IF d = "Next" THEN i..(len - 1) ELSE 0..i
<1>1. ASSUME NEW wrap \in BOOLEAN
      PROVE  Range(Walk(i, d, wrap, len)) = {Reached(i, d, wrap, len, n) : n \in 0..len}
  <2> DEFINE at == Walk(i, d, wrap, len)
  <2>1. DOMAIN at = 0..len
    BY WalkRounds
  <2>2. \A n \in 0..len : at[n] = Reached(i, d, wrap, len, n)
    BY WalkReaches
  <2> HIDE DEF at
  <2>3. Range(at) = {Reached(i, d, wrap, len, n) : n \in 0..len}
    BY <2>1, <2>2 DEF Range
  <2> QED  BY <2>3 DEF at
<1>2. CASE d = "Next"
  <2>1. Reached(i, d, TRUE, len, len) = i
    BY <1>2 DEF Reached
  <2>2. \A n \in 0..len : /\ Reached(i, d, TRUE, len, n) \in 0..(len - 1)
                          /\ Reached(i, d, FALSE, len, n) \in i..(len - 1)
    BY <1>2 DEF Reached
  <2>3. ASSUME NEW j \in 0..(len - 1) PROVE \E n \in 0..len : Reached(i, d, TRUE, len, n) = j
    <3>1. CASE j >= i
      <4>1. j - i \in 0..len /\ Reached(i, d, TRUE, len, j - i) = j
        BY <1>2, <3>1 DEF Reached
      <4> QED  BY <4>1
    <3>2. CASE ~(j >= i)
      <4>1. j - i + len \in 0..len /\ Reached(i, d, TRUE, len, j - i + len) = j
        BY <1>2, <3>2 DEF Reached
      <4> QED  BY <4>1
    <3> QED  BY <3>1, <3>2
  <2>4. ASSUME NEW j \in i..(len - 1) PROVE \E n \in 0..len : Reached(i, d, FALSE, len, n) = j
    <3>1. j - i \in 0..len /\ Reached(i, d, FALSE, len, j - i) = j
      BY <1>2 DEF Reached
    <3> QED  BY <3>1
  <2>5. Walk(i, d, TRUE, len)[len] = i
    <3>1. len \in 0..len /\ TRUE \in BOOLEAN
      OBVIOUS
    <3>2. \A n \in 0..len : Walk(i, d, TRUE, len)[n] = Reached(i, d, TRUE, len, n)
      BY <3>1, WalkReaches
    <3> QED  BY <2>1, <3>1, <3>2
  <2>6. Range(Walk(i, d, TRUE, len)) = 0..(len - 1)
    BY <1>1, <2>2, <2>3
  <2>7. Range(Walk(i, d, FALSE, len)) = i..(len - 1)
    BY <1>1, <2>2, <2>4
  <2> QED  BY <1>2, <2>5, <2>6, <2>7
<1>3. CASE d = "Prev"
  <2>1. Reached(i, d, TRUE, len, len) = i
    BY <1>3 DEF Reached
  <2>2. \A n \in 0..len : /\ Reached(i, d, TRUE, len, n) \in 0..(len - 1)
                          /\ Reached(i, d, FALSE, len, n) \in 0..i
    BY <1>3 DEF Reached
  <2>3. ASSUME NEW j \in 0..(len - 1) PROVE \E n \in 0..len : Reached(i, d, TRUE, len, n) = j
    <3>1. CASE j <= i
      <4>1. i - j \in 0..len /\ Reached(i, d, TRUE, len, i - j) = j
        BY <1>3, <3>1 DEF Reached
      <4> QED  BY <4>1
    <3>2. CASE ~(j <= i)
      <4>1. i - j + len \in 0..len /\ Reached(i, d, TRUE, len, i - j + len) = j
        BY <1>3, <3>2 DEF Reached
      <4> QED  BY <4>1
    <3> QED  BY <3>1, <3>2
  <2>4. ASSUME NEW j \in 0..i PROVE \E n \in 0..len : Reached(i, d, FALSE, len, n) = j
    <3>1. i - j \in 0..len /\ Reached(i, d, FALSE, len, i - j) = j
      BY <1>3 DEF Reached
    <3> QED  BY <3>1
  <2>5. Walk(i, d, TRUE, len)[len] = i
    <3>1. len \in 0..len /\ TRUE \in BOOLEAN
      OBVIOUS
    <3>2. \A n \in 0..len : Walk(i, d, TRUE, len)[n] = Reached(i, d, TRUE, len, n)
      BY <3>1, WalkReaches
    <3> QED  BY <2>1, <3>1, <3>2
  <2>6. Range(Walk(i, d, TRUE, len)) = 0..(len - 1)
    BY <1>1, <2>2, <2>3
  <2>7. Range(Walk(i, d, FALSE, len)) = 0..i
    BY <1>1, <2>2, <2>4
  <2> QED  BY <1>3, <2>5, <2>6, <2>7
<1> QED  BY <1>2, <1>3 DEF Directions

-----------------------------------------------------------------------------
(***************************************************************************)
(* The candidates of a session.                                            *)
(***************************************************************************)

(* The lists of a desktop name windows, and the tracker's each only once.  *)
IsDesktop(d) ==
  /\ d.history \in Seq(Windows) /\ d.live \in Seq(Windows) /\ d.order \in Seq(Windows)
  /\ IsInjective(d.order)

(* A reversed list has the same members.                                   *)
LEMMA ReverseFacts ==
  ASSUME NEW T, NEW s \in Seq(T)
  PROVE  Reverse(s) \in Seq(T) /\ Range(Reverse(s)) = Range(s)
<1> DEFINE r == Reverse(s)
           n == Len(s)
<1>1. /\ n \in Nat /\ DOMAIN s = 1..n
      /\ DOMAIN r = 1..n /\ \A i \in 1..n : r[i] = s[(n - i) + 1]
      /\ \A i \in 1..n : (n - i) + 1 \in 1..n /\ (n - ((n - i) + 1)) + 1 = i
  BY DEF Reverse
<1>2. r = [i \in 1..n |-> s[(n - i) + 1]]
  BY DEF Reverse
<1>3. \A i \in 1..n : s[(n - i) + 1] \in T
  BY <1>1
<1> HIDE DEF r, n
<1>4. r \in Seq(T)
  BY <1>1, <1>2, <1>3
<1>5. \A i \in 1..n : \E j \in 1..n : s[i] = r[j]
  BY <1>1
<1>6. \A i \in 1..n : \E j \in 1..n : r[i] = s[j]
  BY <1>1
<1>7. Range(r) = Range(s)
  <2>1. Range(r) = {r[i] : i \in 1..n}
    BY <1>1 DEF Range
  <2>2. Range(s) = {s[i] : i \in 1..n}
    BY <1>1 DEF Range
  <2> QED  BY <1>5, <1>6, <2>1, <2>2
<1> QED  BY <1>4, <1>7 DEF r

(* A candidate that the compositor's history has is registered on sight.   *)
LEMMA HistoryResolves ==
  ASSUME NEW d, IsDesktop(d)
  PROVE  /\ LiveAfter(d) \in Seq(Windows)
         /\ \A w \in Range(d.history) : w \in Windows /\ IsCandidate(d, w) => w \in Resolvable(d)
<1> DEFINE T   == {w \in Windows : IsCandidate(d, w)} \ Range(d.live)
           new == Keep(Reverse(d.history), T)
<1>1. Reverse(d.history) \in Seq(Windows) /\ Range(Reverse(d.history)) = Range(d.history)
  BY ReverseFacts DEF IsDesktop
<1>2. new \in Seq(Windows) /\ Range(new) = Range(d.history) \cap T
  BY <1>1, KeepFacts
<1>3. LiveAfter(d) = Reverse(new) \o d.live /\ d.live \in Seq(Windows)
  BY DEF LiveAfter, IsDesktop
<1> HIDE DEF new
<1>4. Reverse(new) \in Seq(Windows) /\ Range(Reverse(new)) = Range(new)
  BY <1>2, ReverseFacts
<1>5. /\ Reverse(new) \o d.live \in Seq(Windows)
      /\ Range(Reverse(new) \o d.live) = Range(Reverse(new)) \cup Range(d.live)
  BY <1>3, <1>4, ConcatFacts
<1>6. Resolvable(d) = (Range(d.history) \cap T) \cup Range(d.live)
  BY <1>2, <1>3, <1>4, <1>5 DEF Resolvable
<1> QED  BY <1>3, <1>5, <1>6

(* REQ-SC-001, REQ-H-004: candidates() offers the windows of the scope     *)
(* that the registry has, each once: those the tracker has first, in MRU   *)
(* order, then the others.  That is what the session controller takes for  *)
(* granted of the list it is given (CandidateLists of SessionController).  *)
THEOREM CandidatesInMruOrder ==
  ASSUME NEW d, IsDesktop(d), NEW scope
  PROVE  LET S == Offered(d, scope) \cap Resolvable(d)
         IN  /\ S \subseteq Windows
             /\ CandidatesOf(d, scope) \in Seq(Windows)
             /\ IsInjective(CandidatesOf(d, scope))
             /\ Range(CandidatesOf(d, scope)) = S
             /\ \E rest \in SetToSeqs(S \ Range(d.order)) :
                  CandidatesOf(d, scope) = Keep(d.order, S) \o rest
<1> DEFINE offered  == Offered(d, scope)
           S        == offered \cap Resolvable(d)
           seen     == Reverse(d.history)
           live     == LiveAfter(d)
           fallback == Keep(seen, offered) \o Keep(live, offered)
           primary  == Keep(d.order, S)
           c        == CandidatesOf(d, scope)
<1>1. c = Merge(primary, fallback)
  BY DEF CandidatesOf
<1>2. /\ d.history \in Seq(Windows) /\ d.order \in Seq(Windows) /\ IsInjective(d.order)
      /\ seen \in Seq(Windows) /\ Range(seen) = Range(d.history)
      /\ live \in Seq(Windows) /\ Range(live) = Resolvable(d)
  BY ReverseFacts, HistoryResolves DEF IsDesktop, Resolvable
<1>3. \A w \in offered : w \in Windows /\ IsCandidate(d, w)
  BY DEF Offered
<1>4. offered \cap Range(d.history) \subseteq Resolvable(d)
  BY <1>3, HistoryResolves
<1> HIDE DEF offered, seen, live
<1>5. /\ Keep(seen, offered) \in Seq(Windows)
      /\ Range(Keep(seen, offered)) = Range(d.history) \cap offered
  BY <1>2, KeepFacts
<1>6. /\ Keep(live, offered) \in Seq(Windows)
      /\ Range(Keep(live, offered)) = Resolvable(d) \cap offered
  BY <1>2, KeepFacts
<1>7. fallback \in Seq(Windows) /\ Range(fallback) = S
  <2>1. /\ fallback \in Seq(Windows)
        /\ Range(fallback) = Range(Keep(seen, offered)) \cup Range(Keep(live, offered))
    BY <1>5, <1>6, ConcatFacts
  <2> HIDE DEF fallback
  <2> QED  BY <1>4, <1>5, <1>6, <2>1
<1>8. /\ primary \in Seq(Windows) /\ IsInjective(primary)
      /\ Range(primary) = Range(d.order) \cap S
  BY <1>2, KeepFacts
<1> HIDE DEF fallback, primary, S, c
<1>9. c \in Seq(Windows) /\ IsInjective(c) /\ Range(c) = S
  <2>1. /\ Merge(primary, fallback) \in Seq(Windows)
        /\ IsInjective(Merge(primary, fallback))
        /\ Range(Merge(primary, fallback)) = Range(primary) \cup Range(fallback)
    BY <1>7, <1>8, MergeFacts
  <2> QED  BY <1>1, <1>7, <1>8, <2>1
<1>10. PICK rest \in Seq(Windows) : /\ Merge(primary, fallback) = primary \o rest
                                    /\ Range(rest) = Range(fallback) \ Range(primary)
                                    /\ IsInjective(rest)
  BY <1>7, <1>8, MergeExtends
<1>11. Range(rest) = S \ Range(d.order)
  BY <1>7, <1>8, <1>10
<1>12. rest \in SetToSeqs(S \ Range(d.order))
  BY <1>10, <1>11, SetToSeqsOf
<1>13. S \subseteq Windows
  BY <1>3 DEF S
<1> QED  BY <1>1, <1>9, <1>10, <1>12, <1>13 DEF S, c, primary, offered

(* REQ-SC-001..003: every scope offers a part of what the global one does; *)
(* a scratchpad's windows only while it is shown; the scopes anchored at   *)
(* the focused window offer that window, when it is offered at all; and    *)
(* without a focus they are the global scope.                              *)
THEOREM ScopesAreNested ==
  ASSUME NEW d, IsDesktop(d), NEW w \in Windows
  PROVE  LET In(scope) == w \in Range(CandidatesOf(d, scope))
             anchored  == {"monitor", "workspace", "app"}
         IN  /\ \A scope \in Scopes : In(scope) => In("global")
             /\ In("global") /\ d.win[w].ws \in SpecialWorkspaces =>
                  d.win[w].ws \in VisibleWorkspaces(d)
             /\ In("global") /\ d.focus = w => \A scope \in anchored : In(scope)
             /\ d.focus = NoWindow =>
                  \A scope \in anchored : CandidatesOf(d, scope) = CandidatesOf(d, "global")
<1> DEFINE base == /\ IsCandidate(d, w) /\ d.win[w].mapped /\ ~OnHiddenSpecial(d, w)
                   /\ w \in Resolvable(d)
<1>1. \A scope : w \in Range(CandidatesOf(d, scope)) <=>
                   w \in Offered(d, scope) /\ w \in Resolvable(d)
  BY CandidatesInMruOrder
<1>2. w \in Range(CandidatesOf(d, "global")) <=> base
  BY <1>1 DEF Offered, ScopeMatches
<1>3. ASSUME NEW scope, w \in Range(CandidatesOf(d, scope)) PROVE base
  BY <1>1, <1>3 DEF Offered, ScopeMatches
<1>4. base /\ d.win[w].ws \in SpecialWorkspaces => d.win[w].ws \in VisibleWorkspaces(d)
  BY DEF OnHiddenSpecial
<1>5. ASSUME base, d.focus = w, NEW scope \in {"monitor", "workspace", "app"}
      PROVE  w \in Range(CandidatesOf(d, scope))
  <2>1. ScopeMatches(scope, d, w)
    BY <1>5 DEF ScopeMatches
  <2>2. w \in Offered(d, scope) /\ w \in Resolvable(d)
    BY <1>5, <2>1 DEF Offered
  <2> QED  BY <1>1, <2>2
<1>6. ASSUME d.focus = NoWindow, NEW scope \in {"monitor", "workspace", "app"}
      PROVE  CandidatesOf(d, scope) = CandidatesOf(d, "global")
  <2>1. \A v : ScopeMatches(scope, d, v) <=> ScopeMatches("global", d, v)
    BY <1>6 DEF ScopeMatches, HasFocus
  <2>2. Offered(d, scope) = Offered(d, "global")
    BY <2>1 DEF Offered
  <2> QED  BY <2>2 DEF CandidatesOf
<1> HIDE DEF base
<1> QED  BY <1>2, <1>3, <1>4, <1>5, <1>6

-----------------------------------------------------------------------------
(***************************************************************************)
(* The configuration.                                                      *)
(***************************************************************************)

(* The bounds the documentation gives for a number.                        *)
Lowest(k)  == IF k = "pulse_period_ms" THEN 200 ELSE 0
Highest(k) == CASE k = "debounce_ms"     -> 5000
                [] k = "pulse_period_ms" -> 10000
                [] k = "dim_alpha"       -> 10

(* REQ-CFG-004: a clamp yields the number of the range nearest to the one  *)
(* given, of whatever size that is.                                        *)
THEOREM ClampIsNearest ==
  ASSUME NEW k \in {"debounce_ms", "pulse_period_ms", "dim_alpha"}, NEW n \in Int
  PROVE  /\ Clamped(k, n) \in Lowest(k)..Highest(k)
         /\ n \in Lowest(k)..Highest(k) => Clamped(k, n) = n
         /\ n < Lowest(k) => Clamped(k, n) = Lowest(k)
         /\ n > Highest(k) => Clamped(k, n) = Highest(k)
<1>1. CASE k = "debounce_ms"
  BY <1>1 DEF Clamped, Bounded, Lowest, Highest
<1>2. CASE k = "pulse_period_ms"
  BY <1>2 DEF Clamped, Bounded, Lowest, Highest
<1>3. CASE k = "dim_alpha"
  BY <1>3 DEF Clamped, Bounded, Lowest, Highest
<1> QED  BY <1>1, <1>2, <1>3

(* What an overlay decides for a key, when it decides anything.            *)
Decides(o, k) == k \in DOMAIN o /\ (Valid(k, o[k]) \/ k = "border_style")

(* REQ-CFG-001, config.reloaded: a line of the sidecar decides its own key *)
(* and no other; one that is refused leaves what the host said, but for    *)
(* the border style; and laying the same file over the result again        *)
(* changes nothing.                                                        *)
THEOREM OverlayIsLocal ==
  ASSUME NEW cfg, NEW o
  PROVE  /\ \A k \in Keys : ~Decides(o, k) => ApplyOverlay(cfg, o)[k] = cfg[k]
         /\ \A base : \A k \in Keys :
              Decides(o, k) => ApplyOverlay(cfg, o)[k] = ApplyOverlay(base, o)[k]
         /\ \A k \in Keys : k \in DOMAIN o /\ ~Decides(o, k) => k \in Warned(o)
         /\ ApplyOverlay(ApplyOverlay(cfg, o), o) = ApplyOverlay(cfg, o)
<1> DEFINE value(k) == IF Valid(k, o[k]) THEN ValueOf(k, o[k]) ELSE "solid"
<1>1. ASSUME NEW c, NEW k \in Keys
      PROVE  ApplyOverlay(c, o)[k] = IF Decides(o, k) THEN value(k) ELSE c[k]
  BY DEF ApplyOverlay, Decides
<1>2. \A c : ApplyOverlay(c, o) = [k \in Keys |-> ApplyOverlay(c, o)[k]]
  BY DEF ApplyOverlay
<1> HIDE DEF value
<1>3. \A k \in Keys : ApplyOverlay(ApplyOverlay(cfg, o), o)[k] = ApplyOverlay(cfg, o)[k]
  BY <1>1
<1>4. ApplyOverlay(ApplyOverlay(cfg, o), o) = ApplyOverlay(cfg, o)
  BY <1>2, <1>3
<1>5. \A k \in Keys : k \in DOMAIN o /\ ~Decides(o, k) => k \in Warned(o)
  BY DEF Decides, Warned
<1> QED  BY <1>1, <1>4, <1>5

-----------------------------------------------------------------------------
(***************************************************************************)
(* The arguments of mru:cycle.                                             *)
(***************************************************************************)

(* What is read from the arguments when the scope's place holds the rest.  *)
Reading(rest, dir) ==
  CASE rest = <<>>                                       -> Parsed(dir, "default")
    [] rest # <<>> /\ Head(rest) \notin ScopeTokens        -> Refused("unknown scope token")
    [] Len(rest) = 1 /\ Head(rest) \in ScopeTokens         -> Parsed(dir, Head(rest))
    [] Len(rest) > 1 /\ Head(rest) \in ScopeTokens         -> Refused("too many arguments")

(* The fields of a refusal.                                                *)
LEMMA RefusedFields ==
  ASSUME NEW error
  PROVE  Refused(error).ok = FALSE /\ Refused(error).error = error
BY DEF Refused

(* What is taken for a scope: nothing, or one known token.                 *)
LEMMA ReadingFacts ==
  ASSUME NEW T, NEW rest \in Seq(T), NEW dir
  PROVE  /\ Reading(rest, dir).ok <=>
              Len(rest) = 0 \/ (Len(rest) = 1 /\ Head(rest) \in ScopeTokens)
         /\ Reading(rest, dir).ok =>
              /\ Reading(rest, dir).dir = dir
              /\ Reading(rest, dir).scope = IF Len(rest) = 0 THEN "default" ELSE Head(rest)
         /\ Reading(rest, dir).error = "unknown scope token" =>
              Len(rest) > 0 /\ Head(rest) \notin ScopeTokens
<1> DEFINE r == Reading(rest, dir)
           n == Len(rest)
           h == Head(rest)
<1>1. n \in Nat /\ (rest = <<>> <=> n = 0)
  OBVIOUS
<1>2. /\ n = 0 => r = Parsed(dir, "default")
      /\ n # 0 /\ h \notin ScopeTokens => r = Refused("unknown scope token")
      /\ n = 1 /\ h \in ScopeTokens => r = Parsed(dir, h)
      /\ n > 1 /\ h \in ScopeTokens => r = Refused("too many arguments")
  <2>1. CASE n = 0
    BY <1>1, <2>1 DEF Reading
  <2>2. CASE n # 0 /\ h \notin ScopeTokens
    BY <1>1, <2>2 DEF Reading
  <2>3. CASE n = 1 /\ h \in ScopeTokens
    <3>1. rest # <<>> /\ n # 0 /\ ~(n > 1)
      BY <1>1, <2>3
    <3>2. r = Parsed(dir, h)
      BY <2>3, <3>1, Zenon DEF Reading
    <3> HIDE DEF r, n, h
    <3> QED  BY <2>3, <3>1, <3>2, Zenon
  <2>4. CASE n > 1 /\ h \in ScopeTokens
    <3>1. n # 1 /\ n # 0
      <4> HIDE DEF n
      <4> QED  BY <1>1, <2>4
    <3>2. rest # <<>>
      BY <1>1, <3>1, Zenon
    <3>3. r = Refused("too many arguments")
      BY <2>4, <3>1, <3>2, Zenon DEF Reading
    <3> HIDE DEF r, n, h
    <3> QED  BY <2>4, <3>1, <3>3, Zenon
  <2>5. n = 0 \/ n = 1 \/ n > 1
    BY <1>1
  <2> HIDE DEF r, n, h
  <2> QED  BY <2>1, <2>2, <2>3, <2>4, <2>5, Zenon
<1> HIDE DEF r, n, h
<1>3. n = 0 => r.ok = TRUE /\ r.dir = dir /\ r.scope = "default" /\ r.error = "none"
  <2> DEFINE p == Parsed(dir, "default")
  <2>1. p.ok = TRUE /\ p.dir = dir /\ p.scope = "default" /\ p.error = "none"
    BY DEF Parsed
  <2> HIDE DEF p
  <2>2. n = 0 => r = p
    BY <1>2 DEF p
  <2> QED  BY <2>1, <2>2, Zenon
<1>4. n # 0 /\ h \notin ScopeTokens => r.ok = FALSE
  BY <1>2, RefusedFields, Zenon
<1>5. n = 1 /\ h \in ScopeTokens =>
        r.ok = TRUE /\ r.dir = dir /\ r.scope = h /\ r.error = "none"
  <2> DEFINE p == Parsed(dir, h)
  <2>1. p.ok = TRUE /\ p.dir = dir /\ p.scope = h /\ p.error = "none"
    BY DEF Parsed
  <2> HIDE DEF p
  <2>2. n = 1 /\ h \in ScopeTokens => r = p
    BY <1>2 DEF p
  <2> QED  BY <2>1, <2>2, Zenon
<1>6. n > 1 /\ h \in ScopeTokens => r.ok = FALSE /\ r.error = "too many arguments"
  BY <1>2, RefusedFields, Zenon
<1>7. /\ n = 0 \/ n = 1 \/ n > 1
      /\ n > 1 => n # 1 /\ n # 0
      /\ n # 0 => n > 0
      /\ n = 1 => n # 0
  BY <1>1
<1>8. "none" # "unknown scope token" /\ "too many arguments" # "unknown scope token"
  OBVIOUS
<1>9. r.ok <=> n = 0 \/ (n = 1 /\ h \in ScopeTokens)
  BY <1>3, <1>4, <1>5, <1>6, <1>7, Zenon
<1>10. r.ok => r.dir = dir /\ r.scope = IF n = 0 THEN "default" ELSE h
  BY <1>3, <1>5, <1>7, <1>9, Zenon
<1>11. r.error = "unknown scope token" => n > 0 /\ h \notin ScopeTokens
  BY <1>3, <1>5, <1>6, <1>7, <1>8, Zenon
<1> QED  BY <1>9, <1>10, <1>11 DEF r, n, h

(* A direction comes first, and where a scope belongs.                     *)
Directed(toks)   == toks # <<>> /\ toks[1] \in DirectionTokens
ScopePlace(toks) == IF Directed(toks) THEN 2 ELSE 1

(* REQ-DISP-001..003: `[next|prev] [scope]` is accepted and nothing else,  *)
(* it is taken for what it says, and a known scope is never called         *)
(* unknown.                                                                *)
THEOREM ArgumentsMeanWhatTheySay ==
  ASSUME NEW T, NEW toks \in Seq(T)
  PROVE  LET parsed == ParseCycleArgs(toks)
             place  == ScopePlace(toks)
         IN  /\ parsed.ok <=> \/ Len(toks) = place - 1
                              \/ Len(toks) = place /\ toks[place] \in ScopeTokens
             /\ parsed.ok =>
                  /\ parsed.dir = IF Directed(toks) THEN toks[1] ELSE "next"
                  /\ parsed.scope = IF Len(toks) = place THEN toks[place] ELSE "default"
             /\ parsed.error = "unknown scope token" =>
                  Len(toks) >= place /\ toks[place] \notin ScopeTokens
<1> DEFINE parsed   == ParseCycleArgs(toks)
           directed == toks # <<>> /\ toks[1] \in DirectionTokens
           place    == IF directed THEN 2 ELSE 1
           rest     == IF toks # <<>> /\ Head(toks) \in DirectionTokens
                         THEN Tail(toks) ELSE toks
           dir      == IF rest = toks THEN "next" ELSE Head(toks)
           n        == Len(toks)
<1>1. n \in Nat /\ (toks = <<>> <=> n = 0) /\ (toks # <<>> => Head(toks) = toks[1])
  OBVIOUS
<1>2. parsed = Reading(rest, dir)
  BY DEF ParseCycleArgs, Reading
<1>3. /\ rest \in Seq(T) /\ Len(rest) = n - (place - 1)
      /\ Len(rest) > 0 => Head(rest) = toks[place]
      /\ dir = IF directed THEN toks[1] ELSE "next"
  <2>1. CASE directed
    <3>1. rest = Tail(toks) /\ place = 2 /\ Head(toks) = toks[1] /\ toks # <<>>
      BY <1>1, <2>1
    <3>2. /\ Tail(toks) \in Seq(T) /\ Len(Tail(toks)) = n - 1
          /\ Len(Tail(toks)) > 0 => Head(Tail(toks)) = toks[2]
      BY <3>1
    <3>3. Len(Tail(toks)) # Len(toks)
      <4> HIDE DEF n
      <4>1. n - 1 # n
        BY <1>1
      <4> QED  BY <3>2, <4>1, Zenon DEF n
    <3>4. Tail(toks) # toks
      BY <3>3, Zenon
    <3>5. dir = Head(toks) /\ n - (place - 1) = n - 1
      BY <3>1, <3>4
    <3> HIDE DEF n, dir, rest, place
    <3> QED  BY <2>1, <3>1, <3>2, <3>5
  <2>2. CASE ~directed
    BY <1>1, <2>2
  <2> QED  BY <2>1, <2>2
<1>4. place \in {1, 2}
  OBVIOUS
<1>5. /\ parsed.ok <=> Len(rest) = 0 \/ (Len(rest) = 1 /\ Head(rest) \in ScopeTokens)
      /\ parsed.ok =>
           /\ parsed.dir = dir
           /\ parsed.scope = IF Len(rest) = 0 THEN "default" ELSE Head(rest)
      /\ parsed.error = "unknown scope token" =>
           Len(rest) > 0 /\ Head(rest) \notin ScopeTokens
  <2> HIDE DEF parsed, rest, dir
  <2> QED  BY <1>2, <1>3, ReadingFacts, ZenonT(40)
<1> HIDE DEF parsed, directed, place, rest, dir, n
<1>6. /\ parsed.ok <=> n = place - 1 \/ (n = place /\ toks[place] \in ScopeTokens)
      /\ parsed.ok => /\ parsed.dir = IF directed THEN toks[1] ELSE "next"
                      /\ parsed.scope = IF n = place THEN toks[place] ELSE "default"
      /\ parsed.error = "unknown scope token" =>
           n >= place /\ toks[place] \notin ScopeTokens
  <2>1. /\ Len(rest) = 0 <=> n = place - 1
        /\ Len(rest) = 1 <=> n = place
        /\ Len(rest) > 0 <=> n >= place
    BY <1>1, <1>3, <1>4
  <2>5. /\ n = place => n >= place /\ Len(rest) > 0 /\ Len(rest) # 0
        /\ n = place - 1 => n # place
    BY <1>1, <1>4, <2>1
  <2>2. parsed.ok <=> n = place - 1 \/ (n = place /\ toks[place] \in ScopeTokens)
    BY <1>3, <1>5, <2>1, <2>5, Zenon
  <2>3. parsed.ok =>
          /\ parsed.dir = IF directed THEN toks[1] ELSE "next"
          /\ parsed.scope = IF n = place THEN toks[place] ELSE "default"
    <3>1. CASE n = place
      BY <1>3, <1>5, <2>5, <3>1, Zenon
    <3>2. CASE n # place
      BY <1>3, <1>5, <2>1, <2>2, <3>2, Zenon
    <3> QED  BY <3>1, <3>2
  <2>4. parsed.error = "unknown scope token" => n >= place /\ toks[place] \notin ScopeTokens
    BY <1>3, <1>5, <2>1, <2>5, <2>2, Zenon
  <2> QED  BY <2>2, <2>3, <2>4
<1> QED  BY <1>6 DEF parsed, directed, place, n, Directed, ScopePlace

-----------------------------------------------------------------------------
(***************************************************************************)
(* The colours of a border.                                                *)
(***************************************************************************)

(* A value as the code can meet it: a prefixed hexadecimal number of eight *)
(* or six digits has the bytes of its digits.                              *)
IsValue(v) ==
  /\ v = Value(v.form, v.digits, v.hex, v.bytes, v.tail)
  /\ v.form \in {"bare", "0x", "rgb", "rgba", "blank"} /\ v.digits \in Nat
  /\ v.hex \in BOOLEAN /\ v.bytes \in Seq(Int) /\ v.tail \in {"none", "deg", "other"}
  /\ v.form = "0x" /\ v.hex /\ v.digits \in {6, 8} =>
       Len(v.bytes) >= v.digits \div 2 /\ \A j \in 1..(v.digits \div 2) : v.bytes[j] \in 0..255

(* REQ-UI-005, ADR-028: what is kept of a captured colour is taken back by *)
(* the compositor, only its angle is lost, and keeping it again changes    *)
(* nothing.                                                                *)
THEOREM KeptColourIsAccepted ==
  ASSUME NEW v, IsValue(v), NormalizeColour(v) # Unreadable
  PROVE  LET kept == NormalizeColour(v)
         IN  /\ SetpropAccepts(kept) /\ NormalizeColour(kept) = kept
             /\ kept.digits = v.digits /\ kept.bytes = v.bytes /\ kept.hex = v.hex
<1> DEFINE kept == NormalizeColour(v)
<1>1. v.tail # "other" /\ DigitsRestorable(v)
  BY DEF NormalizeColour
<1>2. /\ kept.form = Prefixed(v.form) /\ kept.tail = "none"
      /\ kept.digits = v.digits /\ kept.bytes = v.bytes /\ kept.hex = v.hex
      /\ kept = Value(kept.form, v.digits, v.hex, v.bytes, "none")
  BY <1>1 DEF NormalizeColour, IsValue, Value
<1> HIDE DEF kept
<1>3. /\ kept.form \in {"0x", "rgb", "rgba"}
      /\ kept.form = "0x" => v.digits > 0 /\ v.hex
  BY <1>1, <1>2 DEF IsValue, DigitsRestorable, Prefixed
<1>4. SetpropAccepts(kept)
  BY <1>2, <1>3 DEF SetpropAccepts
<1>5. DigitsRestorable(kept) /\ Prefixed(kept.form) = kept.form
  BY <1>2, <1>3 DEF DigitsRestorable, Prefixed
<1>6. NormalizeColour(kept) = kept
  BY <1>2, <1>5 DEF NormalizeColour, Value
<1> QED  BY <1>2, <1>4, <1>6 DEF kept

(* The bytes that are read are there, and each is one.                     *)
LEMMA BytesReadFacts ==
  ASSUME NEW v, v.bytes \in Seq(Int)
  PROVE  /\ BytesRead(v) \in 0..4 /\ BytesRead(v) <= Len(v.bytes)
         /\ \A j \in 1..BytesRead(v) : v.bytes[j] \in 0..255
<1> DEFINE len   == Len(v.bytes)
           ok(n) == \A j \in 1..n : v.bytes[j] \in 0..255
           Q(n)  == /\ n <= len /\ ok(n)
                    /\ n = 4 \/ n = len \/ ~ok(n + 1)
<1>1. len \in Nat
  OBVIOUS
<1>2. \A n \in 0..3 : n <= len /\ ok(n) /\ ~Q(n) => n + 1 <= len /\ ok(n + 1)
  <2> HIDE DEF len, ok
  <2> QED  BY <1>1
<1>3. ok(0)
  OBVIOUS
<1>4. \E n \in 0..4 : Q(n)
  <2>1. SUFFICES ASSUME \A n \in 0..4 : ~Q(n) PROVE FALSE
    OBVIOUS
  <2>2. /\ ~Q(0) /\ ~Q(1) /\ ~Q(2) /\ ~Q(3) /\ ~Q(4)
        /\ 0 + 1 = 1 /\ 1 + 1 = 2 /\ 2 + 1 = 3 /\ 3 + 1 = 4
    <3> HIDE DEF Q
    <3> QED  BY <2>1
  <2>3. 0 <= len
    BY <1>1
  <2>4. 1 <= len /\ ok(1)
    <3> HIDE DEF Q, ok, len
    <3> QED  BY <1>2, <1>3, <2>2, <2>3
  <2>5. 2 <= len /\ ok(2)
    <3> HIDE DEF Q, ok, len
    <3> QED  BY <1>2, <2>2, <2>4
  <2>6. 3 <= len /\ ok(3)
    <3> HIDE DEF Q, ok, len
    <3> QED  BY <1>2, <2>2, <2>5
  <2>7. 4 <= len /\ ok(4)
    <3> HIDE DEF Q, ok, len
    <3> QED  BY <1>2, <2>2, <2>6
  <2>8. Q(4)
    <3> HIDE DEF ok, len
    <3> QED  BY <2>7
  <2> QED  BY <2>2, <2>8
<1>5. BytesRead(v) = CHOOSE n \in 0..4 : Q(n)
  BY DEF BytesRead
<1>6. BytesRead(v) \in 0..4 /\ Q(BytesRead(v))
  <2> HIDE DEF Q
  <2> QED  BY <1>4, <1>5
<1> QED  BY <1>6

(* REQ-UI-004: a pulse darkens a colour to one that the compositor takes   *)
(* too: its alpha is the same, and each channel is half of what it was.    *)
THEOREM DarkerIsAccepted ==
  ASSUME NEW v, IsValue(v), IsColour(v)
  PROVE  LET dark == Darker(v)
         IN  /\ SetpropAccepts(dark) /\ IsColour(dark)
             /\ Channels(dark).a = Channels(v).a
             /\ \A c \in {"r", "g", "b"} :
                  /\ Channels(v)[c] \in 0..255 /\ Channels(dark)[c] \in 0..255
                  /\ 2 * Channels(dark)[c] <= Channels(v)[c]
                  /\ Channels(v)[c] <= 2 * Channels(dark)[c] + 1
<1> DEFINE c == Channels(v)
           d == Darker(v)
<1>1. c.a \in 0..255 /\ c.r \in 0..255 /\ c.g \in 0..255 /\ c.b \in 0..255
  <2>1. CASE v.form = "0x"
    <3>1. v.hex /\ v.digits \in {6, 8}
      BY <2>1 DEF IsColour
    <3>2. \A j \in 1..(v.digits \div 2) : v.bytes[j] \in 0..255
      BY <2>1, <3>1 DEF IsValue
    <3>3. CASE v.digits = 8
      <4>1. 8 \div 2 = 4
        OBVIOUS
      <4>2. /\ v.bytes[1] \in 0..255 /\ v.bytes[2] \in 0..255
            /\ v.bytes[3] \in 0..255 /\ v.bytes[4] \in 0..255
        <5>1. \A j \in 1..4 : v.bytes[j] \in 0..255
          BY <3>2, <3>3, <4>1, Zenon
        <5> QED  BY <5>1
      <4>3. c = [a |-> v.bytes[1], r |-> v.bytes[2], g |-> v.bytes[3], b |-> v.bytes[4]]
        BY <2>1, <3>3 DEF Channels
      <4> HIDE DEF c
      <4>4. c.a = v.bytes[1] /\ c.r = v.bytes[2] /\ c.g = v.bytes[3] /\ c.b = v.bytes[4]
        BY <4>3
      <4> QED  BY <4>2, <4>4, Zenon
    <3>4. CASE v.digits = 6
      <4>1. 6 \div 2 = 3
        OBVIOUS
      <4>2. v.bytes[1] \in 0..255 /\ v.bytes[2] \in 0..255 /\ v.bytes[3] \in 0..255
        BY <3>2, <3>4, <4>1
      <4>3. c = [a |-> 255, r |-> v.bytes[1], g |-> v.bytes[2], b |-> v.bytes[3]]
        BY <2>1, <3>4 DEF Channels
      <4> HIDE DEF c
      <4> QED  BY <4>2, <4>3
    <3> QED  BY <3>1, <3>3, <3>4
  <2>2. CASE v.form = "rgb"
    <3>1. BytesRead(v) = 3 /\ v.bytes \in Seq(Int)
      BY <2>2 DEF IsColour, IsValue
    <3>2. \A j \in 1..3 : v.bytes[j] \in 0..255
      BY <3>1, BytesReadFacts
    <3>3. c = [a |-> 255, r |-> v.bytes[1], g |-> v.bytes[2], b |-> v.bytes[3]]
      BY <2>2 DEF Channels
    <3> HIDE DEF c
    <3> QED  BY <3>2, <3>3
  <2>3. CASE v.form = "rgba"
    <3>1. BytesRead(v) = 4 /\ v.bytes \in Seq(Int)
      BY <2>3 DEF IsColour, IsValue
    <3>2. /\ v.bytes[1] \in 0..255 /\ v.bytes[2] \in 0..255
          /\ v.bytes[3] \in 0..255 /\ v.bytes[4] \in 0..255
      <4>1. \A j \in 1..4 : v.bytes[j] \in 0..255
        BY <3>1, BytesReadFacts
      <4> QED  BY <4>1
    <3>3. c = [a |-> v.bytes[4], r |-> v.bytes[1], g |-> v.bytes[2], b |-> v.bytes[3]]
      BY <2>3 DEF Channels
    <3> HIDE DEF c
    <3>4. c.a = v.bytes[4] /\ c.r = v.bytes[1] /\ c.g = v.bytes[2] /\ c.b = v.bytes[3]
      BY <3>3
    <3> QED  BY <3>2, <3>4, Zenon
  <2> QED  BY <2>1, <2>2, <2>3 DEF IsColour
<1>2. /\ d.form = "0x" /\ d.digits = 8 /\ d.hex = TRUE /\ d.tail = "none"
      /\ d.bytes = <<c.a, c.r \div 2, c.g \div 2, c.b \div 2>>
  BY DEF Darker, Value
<1> HIDE DEF c, d
<1>3. SetpropAccepts(d) /\ IsColour(d)
  BY <1>2 DEF SetpropAccepts, IsColour
<1>4. Channels(d) = [a |-> c.a, r |-> c.r \div 2, g |-> c.g \div 2, b |-> c.b \div 2]
  BY <1>2 DEF Channels
<1>5. \A n \in 0..255 : n \div 2 \in 0..255 /\ 2 * (n \div 2) <= n /\ n <= 2 * (n \div 2) + 1
  OBVIOUS
<1>6. \A x \in {"r", "g", "b"} : c[x] \in 0..255 /\ Channels(d)[x] = c[x] \div 2
  BY <1>1, <1>4
<1>7. ASSUME NEW x \in {"r", "g", "b"}
      PROVE  /\ c[x] \in 0..255 /\ Channels(d)[x] \in 0..255
             /\ 2 * Channels(d)[x] <= c[x] /\ c[x] <= 2 * Channels(d)[x] + 1
  <2> DEFINE n == c[x]
  <2>1. n \in 0..255 /\ Channels(d)[x] = n \div 2
    BY <1>6
  <2> HIDE DEF n
  <2>2. n \div 2 \in 0..255 /\ 2 * (n \div 2) <= n /\ n <= 2 * (n \div 2) + 1
    BY <1>5, <2>1
  <2> QED  BY <2>1, <2>2, Zenon DEF n
<1>8. Channels(d).a = c.a
  BY <1>4
<1> QED  BY <1>3, <1>7, <1>8 DEF c, d

-----------------------------------------------------------------------------
(***************************************************************************)
(* The properties of MCMruList, for windows and lists without bounds.      *)
(***************************************************************************)
(* The inputs of MCMruList, however many windows were pushed.              *)
ListsTyped == list \in Seq(Elems) /\ other \in Seq(Elems) /\ set \subseteq Elems

LEMMA ListsStayTyped == AllSpec => []ListsTyped
<1>1. AllInit => ListsTyped
  BY DEF AllInit, Init, ListsTyped
<1>2. ListsTyped /\ [AllNext]_allVars => ListsTyped'
  <2>1. SUFFICES ASSUME ListsTyped, [AllNext]_allVars PROVE ListsTyped'
    OBVIOUS
  <2>2. CASE UNCHANGED <<list, other, set>>
    BY <2>1, <2>2 DEF ListsTyped
  <2>3. ASSUME NEW e \in Elems, Push(e) PROVE ListsTyped'
    BY <2>1, <2>3 DEF ListsTyped, Push
  <2>4. ASSUME NEW e \in Elems, PushOther(e) PROVE ListsTyped'
    BY <2>1, <2>4 DEF ListsTyped, PushOther
  <2>5. ASSUME NEW e \in Elems, Toggle(e) PROVE ListsTyped'
    <3>1. set' \subseteq set \cup {e} /\ set \subseteq Elems /\ UNCHANGED <<list, other>>
      BY <2>1, <2>5 DEF ListsTyped, Toggle, SymDiff
    <3> QED  BY <2>1, <3>1 DEF ListsTyped
  <2> QED  BY <2>1, <2>2, <2>3, <2>4, <2>5 DEF AllNext, Next, AddLine, allVars
<1> QED  BY <1>1, <1>2, PTL DEF AllSpec

(* pruned() and candidates(): a filter by positions is the loop over them. *)
THEOREM KeepIsItsLoop == AllSpec => []KeepIsTheFilterLoop
<1>1. ListsTyped => KeepIsTheFilterLoop
  BY FilterLoopKeeps DEF ListsTyped, KeepIsTheFilterLoop
<1> QED  BY <1>1, ListsStayTyped, PTL

(* commit(): a promotion is the erase loop and an insertion in front.      *)
THEOREM PromoteIsItsLoop == AllSpec => []PromoteIsEraseThenInsert
<1>1. ASSUME ListsTyped, NEW e \in Elems
      PROVE  Promote(list, e) = <<e>> \o FilterLoop(list, Elems \ {e})
  <2>1. list \in Seq(Elems)
    BY <1>1 DEF ListsTyped
  <2>2. FilterLoop(list, Elems \ {e}) = Keep(list, Elems \ {e})
    BY <2>1, FilterLoopKeeps
  <2>3. Range(list) \subseteq Elems
    BY <2>1 DEF Range
  <2>4. Range(list) \cap (Elems \ {e}) = Range(list) \cap (Range(list) \ {e})
    BY <2>3
  <2>5. Keep(list, Elems \ {e}) = Keep(list, Range(list) \ {e})
    BY <2>4, KeepSame
  <2> QED  BY <2>2, <2>5 DEF Promote
<1>2. ListsTyped => PromoteIsEraseThenInsert
  BY <1>1 DEF PromoteIsEraseThenInsert
<1> QED  BY <1>2, ListsStayTyped, PTL

(* What is pushed into an empty list.                                      *)
LEMMA SeedLoop ==
  ASSUME NEW T, NEW s \in Seq(T)
  PROVE  PushUnique(<<>>, s) = FirstOccurrences(s)
<1> DEFINE none == <<>>
<1>1. none \in Seq(T) /\ IsInjective(none) /\ none \o s = s
  BY DEF IsInjective
<1>2. FirstOccurrences(none) = none
  <2> HIDE DEF none
  <2> QED  BY <1>1, FirstOccurrencesAll
<1>3. PushUnique(FirstOccurrences(none), s) = FirstOccurrences(none \o s)
  <2> HIDE DEF none
  <2> QED  BY <1>1, PushLoopSeeds
<1> QED  BY <1>1, <1>2, <1>3

(* seed(): the list by first occurrences is the loop that skips the known. *)
THEOREM SeedIsItsLoop == AllSpec => []FirstOccurrencesIsTheSeedLoop
<1>1. ListsTyped => FirstOccurrencesIsTheSeedLoop
  BY SeedLoop DEF ListsTyped, FirstOccurrencesIsTheSeedLoop
<1> QED  BY <1>1, ListsStayTyped, PTL

(* merge_mru_order(): the merge is the two loops that push into one list.  *)
THEOREM MergeIsItsLoops == AllSpec => []MergeIsThePushLoop
<1>1. ASSUME ListsTyped PROVE MergeIsThePushLoop
  <2>1. list \in Seq(Elems) /\ other \in Seq(Elems)
    BY <1>1 DEF ListsTyped
  <2>2. PushUnique(<<>>, list) = FirstOccurrences(list)
    BY <2>1, SeedLoop
  <2>3. PushUnique(FirstOccurrences(list), other) = FirstOccurrences(list \o other)
    BY <2>1, PushLoopSeeds
  <2> QED  BY <2>2, <2>3 DEF MergeIsThePushLoop, Merge
<1> QED  BY <1>1, ListsStayTyped, PTL

(* advance_index(): repeated presses reach every entry of a list of any    *)
(* length and, with wrap, come back.                                       *)
THEOREM WalksReachEveryEntry == AllSpec => []WalkReachesEveryEntry
<1>1. ASSUME ListsTyped PROVE WalkReachesEveryEntry
  <2>1. Len(list) \in Nat
    BY <1>1 DEF ListsTyped
  <2> DEFINE len == Len(list)
  <2> HIDE DEF len
  <2>2. ASSUME NEW i \in 0..(len - 1) PROVE len \in Nat \ {0}
    BY <2>1 DEF len
  <2> QED  BY <2>2, WalkFacts DEF WalkReachesEveryEntry, len
<1> QED  BY <1>1, ListsStayTyped, PTL

-----------------------------------------------------------------------------
(***************************************************************************)
(* The properties of MCAlgorithms, of its inputs.                          *)
(***************************************************************************)

(* A desktop with its windows at their places.                             *)
IsOffered(d) ==
  /\ IsDesktop(d) /\ d.focus \in Windows \cup {NoWindow}
  /\ \A w \in Windows : [ws |-> d.win[w].ws, monitor |-> d.win[w].monitor] \in Places
  /\ \E special : d.monitors = Shown(special)

(* A file of one line for a key, or of two.                                *)
IsFile(k, lines) ==
  /\ lines \in Seq([name : {k, "junk"}, token : Tokens(k)])
  /\ Len(lines) \in 1..2 /\ lines[1].name = k

(* The inputs that have been chosen: of a kind, and what belongs to it.    *)
InputTyped ==
  \/ input = NoInput
  \/ \E d : IsOffered(d) /\ input = [kind |-> "desktop", desktop |-> d]
  \/ \E k \in Keys : \E host \in HostValues(k) : \E lines :
       IsFile(k, lines) /\ input = [kind |-> "config", key |-> k, host |-> host, lines |-> lines]
  \/ \E toks \in Seq(CycleTokens) : Len(toks) <= 3 /\ input = [kind |-> "args", toks |-> toks]
  \/ \E v \in Colours : input = [kind |-> "colour", colour |-> v]

(* The lists of windows that a desktop is built from.                      *)
LEMMA OrdersFacts ==
  ASSUME NEW S, NEW T, S \subseteq T, NEW s \in Orders(S)
  PROVE  s \in Seq(T) /\ IsInjective(s)
<1>1. PICK n \in 0..Cardinality(S) : s \in [1..n -> S]
  BY DEF Orders
<1>2. s \in [1..n -> T] /\ n \in Nat
  BY <1>1
<1>3. s \in Seq(T)
  BY <1>2 DEF Seq
<1>4. IsInjective(s)
  BY DEF Orders
<1> QED  BY <1>3, <1>4

(* One more line.                                                          *)
LEMMA AppendFacts ==
  ASSUME NEW T, NEW s \in Seq(T), NEW e \in T
  PROVE  /\ Append(s, e) \in Seq(T) /\ Len(Append(s, e)) = Len(s) + 1
         /\ \A i \in 1..Len(s) : Append(s, e)[i] = s[i]
BY AppendProperties

(* Every step chooses an input of a kind, or adds a line to a file.        *)
LEMMA InputsStayTyped == AllSpec => []InputTyped
<1>1. AllInit => InputTyped
  BY DEF AllInit, InputTyped
<1>2. InputTyped /\ [AllNext]_allVars => InputTyped'
  <2>1. SUFFICES ASSUME InputTyped, [AllNext]_allVars PROVE InputTyped'
    OBVIOUS
  <2>2. CASE UNCHANGED input
    BY <2>1, <2>2 DEF InputTyped
  <2>3. CASE ChooseDesktop
    <3>1. PICK win \in [Windows -> WindowsOf], f \in Windows \cup {NoWindow},
               special \in {pad, NoWorkspace}, history \in Orders(Windows), live \in Orders(Windows) :
                 \E order \in Orders(Range(live)) :
                   input' = [kind |-> "desktop",
                             desktop |-> [win |-> win, monitors |-> Shown(special), focus |-> f,
                                          history |-> history, live |-> live, order |-> order]]
      BY <2>3, SMTT(30) DEF ChooseDesktop
    <3>2. PICK order \in Orders(Range(live)) :
                 input' = [kind |-> "desktop",
                           desktop |-> [win |-> win, monitors |-> Shown(special), focus |-> f,
                                        history |-> history, live |-> live, order |-> order]]
      BY <3>1
    <3>3. /\ history \in Seq(Windows) /\ live \in Seq(Windows)
          /\ order \in Seq(Windows) /\ IsInjective(order)
      <4>1. history \in Seq(Windows) /\ live \in Seq(Windows)
        BY OrdersFacts
      <4>2. Range(live) \subseteq Windows
        BY <4>1 DEF Range
      <4> QED  BY <4>1, <4>2, OrdersFacts
    <3> DEFINE d == [win |-> win, monitors |-> Shown(special), focus |-> f,
                     history |-> history, live |-> live, order |-> order]
    <3>4. /\ d.win = win /\ d.monitors = Shown(special) /\ d.focus = f
          /\ d.history = history /\ d.live = live /\ d.order = order
      OBVIOUS
    <3>5. input' = [kind |-> "desktop", desktop |-> d]
      BY <3>2
    <3> HIDE DEF d
    <3>6. ASSUME NEW w \in Windows
          PROVE  [ws |-> win[w].ws, monitor |-> win[w].monitor] \in Places
      <4>1. win[w] \in WindowsOf
        OBVIOUS
      <4> QED  BY <4>1 DEF WindowsOf
    <3>7. IsOffered(d)
      BY <3>3, <3>4, <3>6 DEF IsOffered, IsDesktop
    <3> QED  BY <3>5, <3>7 DEF InputTyped
  <2>4. CASE ChooseConfig
    <3>1. PICK k \in Keys : \E host \in HostValues(k), t \in Tokens(k) :
            input' = [kind |-> "config", key |-> k, host |-> host, lines |-> <<Line(k, t)>>]
      BY <2>4 DEF ChooseConfig
    <3>2. PICK host \in HostValues(k), t \in Tokens(k) :
            input' = [kind |-> "config", key |-> k, host |-> host, lines |-> <<Line(k, t)>>]
      BY <3>1
    <3> DEFINE lines == <<Line(k, t)>>
    <3>3. Line(k, t) \in [name : {k, "junk"}, token : Tokens(k)] /\ Line(k, t).name = k
      BY DEF Line
    <3>4. IsFile(k, lines)
      BY <3>3 DEF IsFile
    <3> HIDE DEF lines
    <3> QED  BY <3>2, <3>4 DEF InputTyped, lines
  <2>5. CASE ChooseTokens
    <3>1. PICK n \in 0..3 : \E toks \in [1..n -> CycleTokens] : input' = [kind |-> "args", toks |-> toks]
      BY <2>5 DEF ChooseTokens
    <3>2. PICK toks \in [1..n -> CycleTokens] : input' = [kind |-> "args", toks |-> toks]
      BY <3>1
    <3>3. toks \in Seq(CycleTokens) /\ Len(toks) = n
      BY DEF Seq
    <3>4. Len(toks) <= 3
      BY <3>3
    <3> QED  BY <3>2, <3>3, <3>4 DEF InputTyped
  <2>6. CASE ChooseColour
    BY <2>6 DEF ChooseColour, InputTyped
  <2>7. CASE AddLine
    <3>1. PICK k \in Keys : \E host \in HostValues(k) : \E lines :
            IsFile(k, lines) /\ input = [kind |-> "config", key |-> k, host |-> host, lines |-> lines]
      BY <2>1, <2>7 DEF AddLine, InputTyped, NoInput
    <3>2. PICK host \in HostValues(k) : \E lines :
            IsFile(k, lines) /\ input = [kind |-> "config", key |-> k, host |-> host, lines |-> lines]
      BY <3>1
    <3>3. PICK lines :
            IsFile(k, lines) /\ input = [kind |-> "config", key |-> k, host |-> host, lines |-> lines]
      BY <3>2
    <3>4. input.key = k /\ input.lines = lines /\ Len(lines) = 1
      BY <2>7, <3>3 DEF AddLine
    <3>5. PICK name \in {k, "junk"}, t \in Tokens(k) :
            input' = [input EXCEPT !.lines = Append(@, Line(name, t))]
      BY <2>7, <3>4 DEF AddLine
    <3> DEFINE more == Append(lines, Line(name, t))
    <3>6. input' = [kind |-> "config", key |-> k, host |-> host, lines |-> more]
      BY <3>3, <3>4, <3>5
    <3>7. Line(name, t) \in [name : {k, "junk"}, token : Tokens(k)]
      BY DEF Line
    <3>8. /\ more \in Seq([name : {k, "junk"}, token : Tokens(k)])
          /\ Len(more) = 2 /\ more[1] = lines[1]
      <4>1. lines \in Seq([name : {k, "junk"}, token : Tokens(k)])
        BY <3>3 DEF IsFile
      <4>2. /\ more \in Seq([name : {k, "junk"}, token : Tokens(k)])
            /\ Len(more) = Len(lines) + 1 /\ \A i \in 1..Len(lines) : more[i] = lines[i]
        BY <3>7, <4>1, AppendFacts
      <4> HIDE DEF more
      <4>3. 1 \in 1..Len(lines) /\ Len(lines) + 1 = 2
        BY <3>4
      <4> QED  BY <4>2, <4>3
    <3> HIDE DEF more
    <3>9. IsFile(k, more)
      BY <3>3, <3>8 DEF IsFile
    <3> QED  BY <3>6, <3>9 DEF InputTyped
  <2> QED  BY <2>1, <2>2, <2>3, <2>4, <2>5, <2>6, <2>7 DEF AllNext, allVars
<1> QED  BY <1>1, <1>2, PTL DEF AllSpec

(* The colours of the runs are values as the code can meet them.           *)
LEMMA ColoursAreValues == \A v \in Colours : IsValue(v)
<1>1. ASSUME NEW form \in {"bare", "0x", "rgb", "rgba"}, NEW digits \in {0, 3, 6, 8, 9}, NEW hex \in BOOLEAN,
             NEW tail \in {"none", "deg", "other"},
             NEW bytes \in {<<0, 200, 100, 7>>, <<255, 0, 1, 255>>}
      PROVE  IsValue(Value(form, digits, hex, bytes, tail))
  <2>1. /\ bytes \in Seq(Int) /\ Len(bytes) = 4
        /\ \A j \in 1..4 : bytes[j] \in 0..255
    <3>1. CASE bytes = <<0, 200, 100, 7>>
      BY <3>1
    <3>2. CASE bytes = <<255, 0, 1, 255>>
      BY <3>2
    <3> QED  BY <3>1, <3>2
  <2>2. ASSUME digits \in {6, 8}
        PROVE  Len(bytes) >= digits \div 2 /\ \A j \in 1..(digits \div 2) : bytes[j] \in 0..255
    <3>1. 6 \div 2 = 3 /\ 8 \div 2 = 4
      OBVIOUS
    <3>2. digits \div 2 \in {3, 4}
      BY <2>2, <3>1
    <3> DEFINE half == digits \div 2
    <3> HIDE DEF half
    <3>3. half \in {3, 4}
      BY <3>2 DEF half
    <3>4. Len(bytes) >= half /\ \A j \in 1..half : bytes[j] \in 0..255
      <4>1. CASE half = 3
        BY <2>1, <4>1
      <4>2. CASE half = 4
        BY <2>1, <4>2
      <4> QED  BY <3>3, <4>1, <4>2
    <3> QED  BY <3>4 DEF half
  <2> DEFINE v == Value(form, digits, hex, bytes, tail)
  <2>3. /\ v.form = form /\ v.digits = digits /\ v.hex = hex /\ v.bytes = bytes
        /\ v.tail = tail
    BY DEF Value
  <2> HIDE DEF v
  <2>4. v = Value(v.form, v.digits, v.hex, v.bytes, v.tail)
    BY <2>3, Zenon DEF v
  <2>5. form \in {"bare", "0x", "rgb", "rgba", "blank"} /\ digits \in Nat
    OBVIOUS
  <2>6. /\ v.form \in {"bare", "0x", "rgb", "rgba", "blank"} /\ v.digits \in Nat
        /\ v.hex \in BOOLEAN /\ v.bytes \in Seq(Int) /\ v.tail \in {"none", "deg", "other"}
    BY <2>1, <2>3, <2>5
  <2>7. v.digits \in {6, 8} =>
          Len(v.bytes) >= v.digits \div 2 /\ \A j \in 1..(v.digits \div 2) : v.bytes[j] \in 0..255
    BY <2>2, <2>3, Zenon
  <2>8. IsValue(v)
    BY <2>4, <2>6, <2>7, Zenon DEF IsValue
  <2> QED  BY <2>8 DEF v
<1>2. ASSUME NEW form \in {"rgb", "rgba"}, NEW tail \in {"none", "deg", "other"},
             NEW bytes \in Seq(Int)
      PROVE  IsValue(Value(form, 0, FALSE, bytes, tail))
  <2> DEFINE v == Value(form, 0, FALSE, bytes, tail)
  <2>2. /\ v.form = form /\ v.digits = 0 /\ v.hex = FALSE /\ v.bytes = bytes
        /\ v.tail = tail
    BY DEF Value
  <2> HIDE DEF v
  <2>3. v = Value(v.form, v.digits, v.hex, v.bytes, v.tail)
    BY <2>2, Zenon DEF v
  <2>4. /\ form \in {"bare", "0x", "rgb", "rgba", "blank"} /\ form # "0x"
        /\ 0 \in Nat /\ FALSE \in BOOLEAN
    OBVIOUS
  <2>5. IsValue(v)
    BY <2>2, <2>3, <2>4, Zenon DEF IsValue
  <2> QED  BY <2>5 DEF v
<1> DEFINE Hexes == {Value(form, digits, hex, bytes, tail) :
                       form \in {"bare", "0x"}, digits \in {0, 3, 6, 8, 9}, hex \in BOOLEAN,
                       tail \in {"none", "deg", "other"},
                       bytes \in {<<0, 200, 100, 7>>, <<255, 0, 1, 255>>}}
           Insides == {Value(form, digits, hex, bytes, tail) :
                         form \in {"rgb", "rgba"}, digits \in {6, 8}, hex \in BOOLEAN,
                         tail \in {"none", "deg", "other"},
                         bytes \in {<<0, 200, 100, 7>>, <<255, 0, 1, 255>>}}
           Lists == UNION {[1..n -> {-1, 0, 255, 256}] : n \in 1..5}
           Calls == {Value(form, 0, FALSE, bytes, tail) :
                       form \in {"rgb", "rgba"}, tail \in {"none", "deg", "other"}, bytes \in Lists}
<1>3. Colours = Hexes \cup Insides \cup Calls
  BY DEF Colours
<1>4. ASSUME NEW v \in Hexes PROVE IsValue(v)
  <2>1. PICK form \in {"bare", "0x"}, digits \in {0, 3, 6, 8, 9}, hex \in BOOLEAN,
             tail \in {"none", "deg", "other"},
             bytes \in {<<0, 200, 100, 7>>, <<255, 0, 1, 255>>} :
               v = Value(form, digits, hex, bytes, tail)
    BY <1>4
  <2> QED  BY <1>1, <2>1
<1>5. ASSUME NEW v \in Insides PROVE IsValue(v)
  <2>1. PICK form \in {"rgb", "rgba"}, digits \in {6, 8}, hex \in BOOLEAN,
             tail \in {"none", "deg", "other"},
             bytes \in {<<0, 200, 100, 7>>, <<255, 0, 1, 255>>} :
               v = Value(form, digits, hex, bytes, tail)
    BY <1>5
  <2> QED  BY <1>1, <2>1
<1>6. ASSUME NEW v \in Calls PROVE IsValue(v)
  <2>1. \E bytes \in Lists : \E form \in {"rgb", "rgba"}, tail \in {"none", "deg", "other"} :
          v = Value(form, 0, FALSE, bytes, tail)
    BY <1>6, SMT DEF Value
  <2> HIDE DEF Hexes, Insides, Calls
  <2>2. PICK bytes \in Lists :
           \E form \in {"rgb", "rgba"}, tail \in {"none", "deg", "other"} :
               v = Value(form, 0, FALSE, bytes, tail)
    BY <2>1, Zenon
  <2>3. PICK form \in {"rgb", "rgba"}, tail \in {"none", "deg", "other"} :
               v = Value(form, 0, FALSE, bytes, tail)
    BY <2>2, Zenon
  <2>4. bytes \in Seq(Int)
    <3>1. PICK n \in 1..5 : bytes \in [1..n -> {-1, 0, 255, 256}]
      OBVIOUS
    <3>2. bytes \in [1..n -> Int] /\ n \in Nat
      BY <3>1
    <3> QED  BY <3>2 DEF Seq
  <2> HIDE DEF Lists
  <2>5. IsValue(Value(form, 0, FALSE, bytes, tail))
    BY <1>2, <2>3, <2>4, Zenon
  <2> QED  BY <2>3, <2>5, Zenon
<1> HIDE DEF Hexes, Insides, Calls
<1> QED  BY <1>3, <1>4, <1>6, <1>5

(* REQ-UI-004, REQ-UI-005, ADR-028: whatever was captured, what is kept of *)
(* it is taken back, and a colour that the code reads is darkened to one   *)
(* that is taken.                                                          *)
THEOREM ColoursDoSurvive == AllSpec => []ColoursSurvive
<1>1. ASSUME NEW v, IsValue(v), NormalizeColour(v) # Unreadable
      PROVE  LET kept == NormalizeColour(v)
             IN  /\ SetpropAccepts(kept)
                 /\ <<kept.digits, kept.bytes>> = <<v.digits, v.bytes>>
                 /\ NormalizeColour(kept) = kept
  BY <1>1, KeptColourIsAccepted
<1>2. ASSUME NEW v, IsValue(v), IsColour(v)
      PROVE  LET dark == Darker(v)
             IN  /\ SetpropAccepts(dark) /\ IsColour(dark)
                 /\ Channels(dark).a = Channels(v).a
                 /\ \A c \in {"r", "g", "b"} :
                      Channels(dark)[c] \in 0..255 /\ 2 * Channels(dark)[c] <= Channels(v)[c]
  BY <1>2, DarkerIsAccepted
<1>3. InputTyped => ColoursSurvive
  <2>1. SUFFICES ASSUME InputTyped, input.kind = "colour"
                 PROVE  input.colour \in Colours
    BY <1>1, <1>2, ColoursAreValues, Zenon DEF ColoursSurvive
  <2> QED  BY <2>1 DEF InputTyped, NoInput
<1> QED  BY <1>3, InputsStayTyped, PTL

(* REQ-SC-001..003, REQ-H-004: of any windows at their places, with any    *)
(* history, registry and MRU list, each scope offers the tracked first and *)
(* within the wider scopes.                                                *)
THEOREM ScopesDoNest == AllSpec => []ScopesNest
<1>1. ASSUME NEW d, IsOffered(d), NEW s \in Scopes
      PROVE  /\ IsInjective(CandidatesOf(d, s))
             /\ Range(CandidatesOf(d, s)) \subseteq Windows
             /\ IsPrefix(Keep(d.order, Range(CandidatesOf(d, s))), CandidatesOf(d, s))
  <2>1. IsDesktop(d)
    BY <1>1 DEF IsOffered
  <2> DEFINE S == Offered(d, s) \cap Resolvable(d)
             c == CandidatesOf(d, s)
  <2>2. S \subseteq Windows /\ c \in Seq(Windows) /\ IsInjective(c) /\ Range(c) = S
    BY <2>1, CandidatesInMruOrder
  <2>3. PICK rest \in SetToSeqs(S \ Range(d.order)) : c = Keep(d.order, S) \o rest
    BY <2>1, CandidatesInMruOrder
  <2> HIDE DEF S, c
  <2>4. rest \in Seq(Windows)
    <3>1. IsFiniteSet(S)
      BY <2>2, SetToSeqsOf
    <3>2. IsFiniteSet(S \ Range(d.order))
      BY <3>1, FS_Subset
    <3>3. rest \in Seq(S \ Range(d.order))
      BY <3>2, SetToSeqsFacts
    <3> QED  BY <2>2, <3>3
  <2>5. Keep(d.order, S) \in Seq(Windows)
    BY <2>1, KeepFacts DEF IsDesktop
  <2>6. IsPrefix(Keep(d.order, S), c)
    BY <2>3, <2>4, <2>5, PrefixOfConcat
  <2> QED  BY <2>2, <2>6 DEF c
<1>2. ASSUME NEW d, IsOffered(d), NEW w \in Windows, w \in Range(CandidatesOf(d, "workspace"))
      PROVE  w \in Range(CandidatesOf(d, "monitor"))
  <2>1. \A s : w \in Range(CandidatesOf(d, s)) <=> w \in Offered(d, s) /\ w \in Resolvable(d)
    BY <1>2, CandidatesInMruOrder DEF IsOffered
  <2>2. ScopeMatches("workspace", d, w) /\ IsCandidate(d, w) /\ w \in Resolvable(d)
    BY <1>2, <2>1 DEF Offered
  <2>3. HasFocus(d) => d.win[w].monitor = d.win[d.focus].monitor
    <3>1. SUFFICES ASSUME HasFocus(d) PROVE d.win[w].monitor = d.win[d.focus].monitor
      OBVIOUS
    <3>2. d.focus \in Windows /\ d.win[w].ws = d.win[d.focus].ws
      BY <1>2, <2>2, <3>1 DEF IsOffered, HasFocus, ScopeMatches
    <3>3. /\ [ws |-> d.win[w].ws, monitor |-> d.win[w].monitor] \in Places
          /\ [ws |-> d.win[d.focus].ws, monitor |-> d.win[d.focus].monitor] \in Places
      BY <1>2, <3>2 DEF IsOffered
    <3>4. \A p, q \in Places : p.ws = q.ws => p.monitor = q.monitor
      BY PlacesAssumption DEF Places
    <3> QED  BY <3>2, <3>3, <3>4
  <2>4. ScopeMatches("monitor", d, w)
    BY <2>2, <2>3 DEF ScopeMatches
  <2> QED  BY <2>1, <2>2, <2>4 DEF Offered
<1>3. ASSUME NEW d, IsOffered(d), pad \in VisibleWorkspaces(d)
      PROVE  \E m \in {m1, m2} : d.monitors[m].special = pad
  <2>1. PICK special : d.monitors = Shown(special)
    BY <1>3 DEF IsOffered
  <2>2. PICK m \in {m1, m2} : d.monitors[m].active = pad \/ d.monitors[m].special = pad
    BY <1>3, <2>1 DEF VisibleWorkspaces, Shown
  <2>3. d.monitors[m].active \in {ws1, ws2}
    BY <2>1, <2>2 DEF Shown
  <2> QED  BY <2>2, <2>3, PlacesAssumption
<1>4. ASSUME NEW d, IsOffered(d)
      PROVE  LET of         == [s \in Scopes |-> CandidatesOf(d, s)]
                 offered(s) == Range(of[s])
                 tracked(s) == Keep(d.order, offered(s))
                 anchored   == {"monitor", "workspace", "app"}
             IN  /\ \A s \in Scopes : /\ IsInjective(of[s])
                                     /\ IsPrefix(tracked(s), of[s])
                                     /\ offered(s) \subseteq offered("global")
                 /\ offered("workspace") \subseteq offered("monitor")
                 /\ \A w \in offered("global") :
                      d.win[w].ws = pad => \E m \in {m1, m2} : d.monitors[m].special = pad
                 /\ d.focus \in offered("global") => \A s \in anchored : d.focus \in offered(s)
                 /\ d.focus = NoWindow => \A s \in anchored : of[s] = of["global"]
  <2>1. IsDesktop(d)
    BY <1>4 DEF IsOffered
  <2> DEFINE of == [s \in Scopes |-> CandidatesOf(d, s)]
  <2>2. /\ \A s \in Scopes : of[s] = CandidatesOf(d, s)
        /\ Scopes = {"global", "monitor", "workspace", "visible", "app"}
    BY DEF Scopes
  <2> HIDE DEF of
  <2>3. ASSUME NEW s \in Scopes
        PROVE  IsInjective(of[s]) /\ IsPrefix(Keep(d.order, Range(of[s])), of[s])
    BY <1>1, <1>4, <2>2
  <2>4. ASSUME NEW s \in Scopes PROVE Range(of[s]) \subseteq Range(of["global"])
    BY <1>1, <1>4, <2>1, <2>2, ScopesAreNested
  <2>5. Range(of["workspace"]) \subseteq Range(of["monitor"])
    BY <1>1, <1>2, <1>4, <2>2
  <2>6. ASSUME NEW w \in Range(of["global"]), d.win[w].ws = pad
        PROVE  \E m \in {m1, m2} : d.monitors[m].special = pad
    <3>1. w \in Windows /\ w \in Range(CandidatesOf(d, "global"))
      BY <1>1, <1>4, <2>2, <2>6
    <3>2. pad \in VisibleWorkspaces(d)
      BY <2>1, <2>6, <3>1, ScopesAreNested, PlacesAssumption
    <3> QED  BY <1>3, <1>4, <3>2
  <2>7. ASSUME d.focus \in Range(of["global"]), NEW s \in {"monitor", "workspace", "app"}
        PROVE  d.focus \in Range(of[s])
    <3>1. d.focus \in Windows
      BY <1>1, <1>4, <2>2, <2>7
    <3> QED  BY <2>1, <2>2, <2>7, <3>1, ScopesAreNested
  <2>8. ASSUME d.focus = NoWindow, NEW s \in {"monitor", "workspace", "app"}
        PROVE  of[s] = of["global"]
    <3>1. CandidatesOf(d, s) = CandidatesOf(d, "global")
      BY <2>8 DEF CandidatesOf, Offered, ScopeMatches, HasFocus
    <3> QED  BY <2>2, <3>1
  <2> QED  BY <2>3, <2>4, <2>5, <2>6, <2>7, <2>8 DEF of
<1>5. InputTyped => ScopesNest
  <2>1. SUFFICES ASSUME InputTyped, input.kind = "desktop"
                 PROVE  IsOffered(input.desktop)
    BY <1>4 DEF ScopesNest
  <2> QED  BY <2>1 DEF InputTyped, NoInput
<1> QED  BY <1>5, InputsStayTyped, PTL

-----------------------------------------------------------------------------
(***************************************************************************)
(* The arguments as Lua splits them.                                       *)
(***************************************************************************)

(* Every round of the flattening appends one of the lists.                 *)
LEMMA FlattenRounds ==
  ASSUME NEW T, NEW seqs \in Seq(Seq(T)), Len(seqs) > 0
  PROVE  \E out : /\ out[1] = seqs[1] /\ FlattenSeq(seqs) = out[Len(seqs)]
                  /\ \A n \in 2..Len(seqs) : out[n] = out[n - 1] \o seqs[n]
<1> DEFINE len == Len(seqs)
           Round(o) == [i \in 1..len |-> IF i = 1 THEN seqs[i] ELSE o[i - 1] \o seqs[i]]
           step == [p \in (1..(len - 1)) \X Seq(T) |-> p[2] \o seqs[p[1] + 1]]
           out == CHOOSE o : o = Round(o)
<1>1. len \in Nat /\ len > 0 /\ \A n \in 1..len : seqs[n] \in Seq(T)
  OBVIOUS
<1>2. ASSUME NEW n \in 1..(len - 1), NEW x \in Seq(T)
      PROVE  step[<<n, x>>] = x \o seqs[n + 1] /\ step[<<n, x>>] \in Seq(T)
  <2>1. n + 1 \in 1..len
    <3> HIDE DEF len
    <3> QED  BY <1>1
  <2> DEFINE y == seqs[n + 1]
  <2>2. y \in Seq(T)
    BY <1>1, <2>1
  <2> HIDE DEF y
  <2>3. x \o y \in Seq(T)
    BY <2>2
  <2>4. step[<<n, x>>] = x \o y
    BY DEF y
  <2> QED  BY <2>3, <2>4 DEF y
<1>3. PICK f : Runs(f, Seq(T), seqs[1], step, len - 1)
  <2>1. StaysIn(Seq(T), step, len - 1)
    BY <1>2 DEF StaysIn
  <2>2. len - 1 \in Nat /\ seqs[1] \in Seq(T)
    BY <1>1
  <2> HIDE DEF len, step
  <2> QED  BY <2>1, <2>2, LoopExists
<1> DEFINE g == [i \in 1..len |-> f[i - 1]]
<1>4. g = Round(g)
  <2>1. f[0] = seqs[1] /\ \A n \in 1..(len - 1) : f[n] = step[<<n, f[n - 1]>>]
    BY <1>3 DEF Runs
  <2>2. f \in [0..(len - 1) -> Seq(T)]
    BY <1>3 DEF Runs
  <2> HIDE DEF step, len
  <2>3. ASSUME NEW i \in 1..len, i # 1 PROVE f[i - 1] = g[i - 1] \o seqs[i]
    <3>1. /\ i - 1 \in 1..(len - 1) /\ (i - 1) - 1 \in 0..(len - 1)
          /\ i - 1 \in 1..len /\ (i - 1) + 1 = i
      BY <1>1, <2>3
    <3>2. f[(i - 1) - 1] \in Seq(T)
      BY <2>2, <3>1
    <3>3. g[i - 1] = f[(i - 1) - 1]
      BY <3>1
    <3>4. f[i - 1] = step[<<i - 1, f[(i - 1) - 1]>>]
      BY <2>1, <3>1
    <3>5. step[<<i - 1, f[(i - 1) - 1]>>] = f[(i - 1) - 1] \o seqs[(i - 1) + 1]
      BY <1>2, <3>1, <3>2
    <3> HIDE DEF g
    <3> QED  BY <3>1, <3>3, <3>4, <3>5
  <2>4. g = [i \in 1..len |-> f[i - 1]] /\ 1 - 1 = 0
    OBVIOUS
  <2> HIDE DEF g
  <2>5. \A i \in 1..len : f[i - 1] = IF i = 1 THEN seqs[i] ELSE g[i - 1] \o seqs[i]
    BY <2>1, <2>3, <2>4
  <2> QED  BY <2>4, <2>5
<1>5. out = Round(out)
  <2> HIDE DEF Round, g
  <2> QED  BY <1>4
<1>6. FlattenSeq(seqs) = out[len]
  BY <1>1 DEF FlattenSeq
<1> HIDE DEF out
<1>7. out[1] = seqs[1]
  BY <1>1, <1>5
<1>8. \A n \in 2..len : out[n] = out[n - 1] \o seqs[n]
  <2> HIDE DEF len
  <2>1. \A n \in 2..len : n \in 1..len /\ n # 1
    BY <1>1
  <2> QED  BY <1>5, <2>1
<1> QED  BY <1>6, <1>7, <1>8

(* The tokens are the same in one argument and in an argument each.        *)
LEMMA FlattenFacts ==
  ASSUME NEW T, NEW toks \in Seq(T)
  PROVE  /\ FlattenSeq(<<toks>>) = toks
         /\ FlattenSeq([i \in DOMAIN toks |-> <<toks[i]>>]) = toks
<1>1. FlattenSeq(<<toks>>) = toks
  <2> DEFINE one == <<toks>>
  <2>1. one \in Seq(Seq(T)) /\ Len(one) = 1 /\ one[1] = toks
    OBVIOUS
  <2> HIDE DEF one
  <2>2. Len(one) > 0
    BY <2>1
  <2>3. PICK out : out[1] = one[1] /\ FlattenSeq(one) = out[Len(one)]
    BY <2>1, <2>2, FlattenRounds
  <2>4. FlattenSeq(one) = toks
    BY <2>1, <2>3
  <2> QED  BY <2>4 DEF one
<1> DEFINE len  == Len(toks)
           each == [i \in DOMAIN toks |-> <<toks[i]>>]
<1>2. /\ len \in Nat /\ DOMAIN toks = 1..len /\ \A i \in 1..len : toks[i] \in T
      /\ each \in Seq(Seq(T)) /\ Len(each) = len
      /\ \A i \in 1..len : each[i] = <<toks[i]>>
  <2>1. len \in Nat /\ DOMAIN toks = 1..len /\ \A i \in 1..len : toks[i] \in T
    OBVIOUS
  <2> HIDE DEF len
  <2>2. each \in [1..len -> Seq(T)]
    BY <2>1
  <2>3. each \in Seq(Seq(T))
    BY <2>1, <2>2 DEF Seq
  <2>4. DOMAIN each = 1..len
    BY <2>1
  <2> QED  BY <2>1, <2>3, <2>4
<1>3. CASE len = 0
  <2>1. toks = <<>> /\ each = <<>>
    BY <1>2, <1>3
  <2> QED  BY <1>1, <1>2, <1>3, <2>1 DEF FlattenSeq
<1>4. CASE len > 0
  <2> HIDE DEF each
  <2>1. PICK out : /\ out[1] = each[1] /\ FlattenSeq(each) = out[len]
                   /\ \A n \in 2..len : out[n] = out[n - 1] \o each[n]
    <3> HIDE DEF len
    <3>1. Len(each) > 0
      BY <1>2, <1>4
    <3>2. \E out : /\ out[1] = each[1] /\ FlattenSeq(each) = out[Len(each)]
                   /\ \A n \in 2..Len(each) : out[n] = out[n - 1] \o each[n]
      BY <1>2, <3>1, FlattenRounds
    <3> QED  BY <1>2, <3>2
  <2> DEFINE K == {n \in Nat : n < len => out[n + 1] = SubSeq(toks, 1, n + 1)}
  <2>2. 0 \in K
    <3>1. SubSeq(toks, 1, 1) = <<toks[1]>>
      <4>1. 1 \in 1..len /\ 1 - 1 = 0
        BY <1>2, <1>4
      <4>2. SubSeq(toks, 1, 1) = Append(SubSeq(toks, 1, 0), toks[1])
        BY <4>1, PrefixFacts
      <4>3. SubSeq(toks, 1, 0) = <<>>
        BY PrefixFacts
      <4>4. \A x : Append(<<>>, x) = <<x>>
        OBVIOUS
      <4> QED  BY <4>2, <4>3, <4>4, Zenon
    <3>2. 1 \in 1..len /\ 0 + 1 = 1
      BY <1>2, <1>4
    <3> QED  BY <1>2, <2>1, <3>1, <3>2
  <2>3. ASSUME NEW n \in Nat, n \in K PROVE n + 1 \in K
    <3> SUFFICES ASSUME n + 1 < len PROVE out[(n + 1) + 1] = SubSeq(toks, 1, (n + 1) + 1)
      OBVIOUS
    <3> DEFINE m == (n + 1) + 1
    <3>1. m \in 2..len /\ m \in 1..len /\ m - 1 = n + 1 /\ n < len
      BY <1>2
    <3>2. out[n + 1] = SubSeq(toks, 1, n + 1)
      BY <2>3, <3>1
    <3> HIDE DEF len, m
    <3>3. out[m] = SubSeq(toks, 1, m - 1) \o <<toks[m]>>
      BY <1>2, <2>1, <3>1, <3>2
    <3>4. /\ SubSeq(toks, 1, m - 1) \in Seq(T)
          /\ SubSeq(toks, 1, m) = Append(SubSeq(toks, 1, m - 1), toks[m])
      <4>1. m - 1 \in 0..len
        BY <1>2, <3>1
      <4> QED  BY <3>1, <4>1, PrefixFacts DEF len
    <3>5. toks[m] \in T
      BY <1>2, <3>1
    <3> DEFINE t == SubSeq(toks, 1, m - 1)
               x == toks[m]
    <3>6. t \in Seq(T) /\ x \in T
      BY <3>4, <3>5
    <3> HIDE DEF t, x
    <3>7. t \o <<x>> = Append(t, x)
      BY <3>6
    <3> QED  BY <3>3, <3>4, <3>7 DEF t, x, m
  <2>4. len - 1 \in K
    <3>1. len - 1 \in Nat
      BY <1>2, <1>4
    <3> HIDE DEF K, len
    <3> QED  BY <2>2, <2>3, <3>1, SetInduction
  <2>5. out[len] = SubSeq(toks, 1, len)
    <3> HIDE DEF len
    <3>1. len - 1 < len /\ (len - 1) + 1 = len
      BY <1>2
    <3> QED  BY <2>4, <3>1
  <2> QED  BY <1>1, <2>1, <2>5, PrefixFacts DEF each
<1> QED  BY <1>1, <1>2, <1>3, <1>4

(* What a filter keeps of one element and of two.                          *)
LEMMA KeepShort ==
  ASSUME NEW T, NEW S
  PROVE  /\ Keep(<<>>, S) = <<>>
         /\ \A x \in T : Keep(<<x>>, S) = IF x \in S THEN <<x>> ELSE <<>>
         /\ \A x, y \in T : Keep(<<x, y>>, S) = IF y \in S THEN Append(Keep(<<x>>, S), y)
                                                ELSE Keep(<<x>>, S)
<1>1. Keep(<<>>, S) = <<>>
  BY KeepEmpty
<1>2. ASSUME NEW x \in T PROVE Keep(<<x>>, S) = IF x \in S THEN <<x>> ELSE <<>>
  <2> DEFINE none == <<>>
  <2>1. none \in Seq(T) /\ Append(none, x) = <<x>>
    OBVIOUS
  <2> HIDE DEF none
  <2>2. Keep(Append(none, x), S) = IF x \in S THEN Append(Keep(none, S), x) ELSE Keep(none, S)
    BY <2>1, KeepAppend
  <2> QED  BY <1>1, <2>1, <2>2, Zenon DEF none
<1>3. ASSUME NEW x \in T, NEW y \in T
      PROVE  Keep(<<x, y>>, S) = IF y \in S THEN Append(Keep(<<x>>, S), y) ELSE Keep(<<x>>, S)
  <2> DEFINE one == <<x>>
  <2>1. one \in Seq(T)
    OBVIOUS
  <2>2. Append(one, y) = <<x, y>>
    <3> DEFINE a == Append(one, y)
    <3>1. a \in Seq(T) /\ Len(a) = 2 /\ a[1] = x /\ a[2] = y
      BY <2>1 DEF one
    <3> HIDE DEF a
    <3>2. a = <<x, y>>
      BY <3>1
    <3> QED  BY <3>2 DEF a
  <2> HIDE DEF one
  <2>3. Keep(Append(one, y), S) = IF y \in S THEN Append(Keep(one, S), y) ELSE Keep(one, S)
    BY <2>1, KeepAppend
  <2> QED  BY <2>2, <2>3, Zenon DEF one
<1> QED  BY <1>1, <1>2, <1>3

(* The arguments that are accepted, and what they are taken for.           *)
Means(toks, dir, scope) ==
  /\ ParseCycleArgs(toks).ok
  /\ ParseCycleArgs(toks).dir = dir /\ ParseCycleArgs(toks).scope = scope

(* The four shapes of `[next|prev] [scope]`.                               *)
LEMMA AcceptedShapes ==
  ASSUME NEW T, NEW toks \in Seq(T)
  PROVE  /\ toks = <<>> => Means(toks, "next", "default")
         /\ \A x \in DirectionTokens : toks = <<x>> => Means(toks, x, "default")
         /\ \A x \in ScopeTokens : toks = <<x>> => Means(toks, "next", x)
         /\ \A x \in DirectionTokens, y \in ScopeTokens : toks = <<x, y>> => Means(toks, x, y)
         /\ ParseCycleArgs(toks).ok =>
              \/ toks = <<>>
              \/ \E x \in DirectionTokens \cup ScopeTokens : toks = <<x>>
              \/ \E x \in DirectionTokens, y \in ScopeTokens : toks = <<x, y>>
<1> DEFINE parsed   == ParseCycleArgs(toks)
           directed == Directed(toks)
           place    == ScopePlace(toks)
           n        == Len(toks)
<1>1. /\ parsed.ok <=> \/ n = place - 1
                       \/ n = place /\ toks[place] \in ScopeTokens
      /\ parsed.ok =>
           /\ parsed.dir = IF directed THEN toks[1] ELSE "next"
           /\ parsed.scope = IF n = place THEN toks[place] ELSE "default"
  BY ArgumentsMeanWhatTheySay
<1>2. /\ n \in Nat /\ (n = 0 <=> toks = <<>>)
      /\ n = 1 => toks = <<toks[1]>>
      /\ n = 2 => toks = <<toks[1], toks[2]>>
  OBVIOUS
<1>3. /\ \A x : toks = <<x>> => n = 1 /\ toks[1] = x
      /\ \A x, y : toks = <<x, y>> => n = 2 /\ toks[1] = x /\ toks[2] = y
  OBVIOUS
<1>4. \A x \in ScopeTokens : x \notin DirectionTokens
  BY DEF ScopeTokens, DirectionTokens
<1>5. place = IF directed THEN 2 ELSE 1
  BY DEF ScopePlace
<1>6. directed <=> n # 0 /\ toks[1] \in DirectionTokens
  BY <1>2 DEF Directed
<1> HIDE DEF parsed, directed, place, n
<1>7. ASSUME toks = <<>>
      PROVE  parsed.ok /\ parsed.dir = "next" /\ parsed.scope = "default"
  <2>1. n = 0 /\ ~directed /\ place = 1
    BY <1>2, <1>5, <1>6, <1>7
  <2>2. n = place - 1 /\ n # place
    BY <2>1
  <2>3. parsed.ok
    BY <1>1, <2>2
  <2> QED  BY <1>1, <2>1, <2>2, <2>3
<1>8. ASSUME NEW x \in DirectionTokens, toks = <<x>>
      PROVE  parsed.ok /\ parsed.dir = x /\ parsed.scope = "default"
  <2>1. n = 1 /\ toks[1] = x
    BY <1>3, <1>8
  <2>2. directed /\ place = 2
    BY <1>5, <1>6, <2>1
  <2>3. n = place - 1 /\ n # place
    BY <2>1, <2>2
  <2>4. parsed.ok
    BY <1>1, <2>3
  <2> QED  BY <1>1, <2>1, <2>2, <2>3, <2>4
<1>9. ASSUME NEW x \in ScopeTokens, toks = <<x>>
      PROVE  parsed.ok /\ parsed.dir = "next" /\ parsed.scope = x
  <2>1. n = 1 /\ toks[1] = x
    BY <1>3, <1>9
  <2>2. ~directed /\ place = 1
    BY <1>4, <1>5, <1>6, <2>1
  <2> QED  BY <1>1, <2>1, <2>2
<1>10. ASSUME NEW x \in DirectionTokens, NEW y \in ScopeTokens, toks = <<x, y>>
       PROVE  parsed.ok /\ parsed.dir = x /\ parsed.scope = y
  <2>1. n = 2 /\ toks[1] = x /\ toks[2] = y
    BY <1>3, <1>10
  <2>2. directed /\ place = 2
    BY <1>5, <1>6, <2>1
  <2> QED  BY <1>1, <2>1, <2>2
<1>11. ASSUME parsed.ok
       PROVE  \/ toks = <<>>
              \/ \E x \in DirectionTokens \cup ScopeTokens : toks = <<x>>
              \/ \E x \in DirectionTokens, y \in ScopeTokens : toks = <<x, y>>
  <2>1. CASE directed
    <3>1. toks[1] \in DirectionTokens /\ place = 2 /\ n # 0
      BY <1>5, <1>6, <2>1
    <3>2. n = 1 \/ (n = 2 /\ toks[2] \in ScopeTokens)
      BY <1>1, <1>11, <3>1
    <3> QED  BY <1>2, <3>1, <3>2
  <2>2. CASE ~directed
    <3>1. place = 1
      BY <1>5, <2>2
    <3>2. n = 0 \/ (n = 1 /\ toks[1] \in ScopeTokens)
      BY <1>1, <1>11, <3>1
    <3> QED  BY <1>2, <3>2
  <2> QED  BY <2>1, <2>2
<1> QED  BY <1>7, <1>8, <1>9, <1>10, <1>11 DEF Means, parsed

(* REQ-DISP-001..003, REQ-SC-003: any tokens are accepted just when they   *)
(* are of the grammar, and mean the same however Lua splits them.          *)
THEOREM ArgsAreRead == AllSpec => []ArgsGrammar
<1>1. /\ DirectionTokens \subseteq CycleTokens /\ DirectionTokens = {"next", "prev"}
      /\ \A x \in ScopeTokens : x \notin DirectionTokens /\ x # "default"
      /\ \A x \in CycleTokens : x # ""
  BY DEF CycleTokens, ScopeTokens, DirectionTokens
<1>2. ASSUME NEW toks \in Seq(CycleTokens)
      PROVE  /\ ParseCycleArgs(toks).ok <=>
                  toks \in {<<>>} \cup {<<x>> : x \in DirectionTokens \cup ScopeTokens} \cup
                           (DirectionTokens \X ScopeTokens)
             /\ ParseCycleArgs(toks).ok =>
                  /\ Keep(toks, DirectionTokens) \in {<<>>, <<ParseCycleArgs(toks).dir>>}
                  /\ Keep(toks, ScopeTokens) =
                       IF ParseCycleArgs(toks).scope = "default" THEN <<>>
                       ELSE <<ParseCycleArgs(toks).scope>>
                  /\ \A x \in DirectionTokens : x \in Range(toks) => ParseCycleArgs(toks).dir = x
  <2> DEFINE parsed == ParseCycleArgs(toks)
             fits == /\ parsed.ok
                     /\ Keep(toks, DirectionTokens) \in {<<>>, <<parsed.dir>>}
                     /\ Keep(toks, ScopeTokens) =
                          IF parsed.scope = "default" THEN <<>> ELSE <<parsed.scope>>
                     /\ \A x \in DirectionTokens : x \in Range(toks) => parsed.dir = x
  <2>1. ASSUME toks = <<>> PROVE fits
    <3>1. Means(toks, "next", "default")
      BY <2>1, AcceptedShapes
    <3>2. Keep(toks, DirectionTokens) = <<>> /\ Keep(toks, ScopeTokens) = <<>>
      BY <2>1, KeepShort
    <3>3. Range(toks) = {}
      BY <2>1 DEF Range
    <3> QED  BY <3>1, <3>2, <3>3 DEF Means
  <2>2. ASSUME NEW x \in DirectionTokens, toks = <<x>> PROVE fits
    <3>1. Means(toks, x, "default")
      BY <2>2, AcceptedShapes
    <3>2. x \notin ScopeTokens
      BY <1>1
    <3>3. Keep(toks, DirectionTokens) = <<x>> /\ Keep(toks, ScopeTokens) = <<>>
      BY <2>2, <3>2, KeepShort
    <3>4. Range(toks) = {x}
      BY <2>2 DEF Range
    <3> QED  BY <3>1, <3>3, <3>4 DEF Means
  <2>3. ASSUME NEW x \in ScopeTokens, toks = <<x>> PROVE fits
    <3>1. Means(toks, "next", x)
      BY <2>3, AcceptedShapes
    <3>2. x \notin DirectionTokens /\ x # "default"
      BY <1>1
    <3>3. Keep(toks, DirectionTokens) = <<>> /\ Keep(toks, ScopeTokens) = <<x>>
      BY <2>3, <3>2, KeepShort
    <3>4. Range(toks) = {x}
      BY <2>3 DEF Range
    <3> QED  BY <3>1, <3>2, <3>3, <3>4 DEF Means
  <2>4. ASSUME NEW x \in DirectionTokens, NEW y \in ScopeTokens, toks = <<x, y>> PROVE fits
    <3>1. Means(toks, x, y)
      BY <2>4, AcceptedShapes
    <3>2. x \notin ScopeTokens /\ y \notin DirectionTokens /\ y # "default"
      BY <1>1
    <3>3. /\ Keep(<<x>>, DirectionTokens) = <<x>> /\ Keep(<<x>>, ScopeTokens) = <<>>
          /\ Keep(toks, DirectionTokens) = Keep(<<x>>, DirectionTokens)
          /\ Keep(toks, ScopeTokens) = Append(Keep(<<x>>, ScopeTokens), y)
      <4>1. \A S : /\ Keep(<<x>>, S) = IF x \in S THEN <<x>> ELSE <<>>
                   /\ Keep(<<x, y>>, S) = IF y \in S THEN Append(Keep(<<x>>, S), y)
                                          ELSE Keep(<<x>>, S)
        <5>1. x \in {x, y} /\ y \in {x, y}
          OBVIOUS
        <5> QED  BY <5>1, KeepShort
      <4> QED  BY <2>4, <3>2, <4>1
    <3>4. Append(<<>>, y) = <<y>>
      OBVIOUS
    <3>5. Range(toks) = {x, y}
      BY <2>4 DEF Range
    <3>6. /\ parsed.ok /\ parsed.dir = x /\ parsed.scope = y
      BY <3>1 DEF Means
    <3>7. Keep(toks, DirectionTokens) = <<x>> /\ Keep(toks, ScopeTokens) = <<y>>
      BY <3>3, <3>4, Zenon
    <3> HIDE DEF parsed
    <3> QED  BY <3>2, <3>5, <3>6, <3>7
  <2>5. ASSUME parsed.ok
        PROVE  \/ toks = <<>>
               \/ \E x \in DirectionTokens \cup ScopeTokens : toks = <<x>>
               \/ \E x \in DirectionTokens, y \in ScopeTokens : toks = <<x, y>>
    BY <2>5, AcceptedShapes
  <2>6. parsed.ok => fits
    <3> HIDE DEF parsed, fits
    <3> QED  BY <2>1, <2>2, <2>3, <2>4, <2>5, Zenon
  <2>7. ASSUME toks \in {<<>>} \cup {<<x>> : x \in DirectionTokens \cup ScopeTokens} \cup
                        (DirectionTokens \X ScopeTokens)
        PROVE  parsed.ok
    <3>1. CASE toks = <<>>
      BY <2>1, <3>1
    <3>2. CASE toks \in {<<x>> : x \in DirectionTokens \cup ScopeTokens}
      <4>1. PICK x \in DirectionTokens \cup ScopeTokens : toks = <<x>>
        BY <3>2
      <4> QED  BY <2>2, <2>3, <4>1
    <3>3. CASE toks \in DirectionTokens \X ScopeTokens
      <4>1. PICK x \in DirectionTokens, y \in ScopeTokens : toks = <<x, y>>
        BY <3>3
      <4> QED  BY <2>4, <4>1
    <3> QED  BY <2>7, <3>1, <3>2, <3>3
  <2>8. ASSUME parsed.ok
        PROVE  toks \in {<<>>} \cup {<<x>> : x \in DirectionTokens \cup ScopeTokens} \cup
                        (DirectionTokens \X ScopeTokens)
    <3> HIDE DEF parsed
    <3> QED  BY <2>5, <2>8
  <2> HIDE DEF parsed
  <2> QED  BY <2>6, <2>7, <2>8 DEF parsed
<1>3. ASSUME NEW toks \in Seq(CycleTokens), Len(toks) = 3,
             toks[1] \in DirectionTokens, toks[2] \in ScopeTokens
      PROVE  ParseCycleArgs(toks).error = "too many arguments"
  <2> DEFINE rest == Tail(toks)
  <2>1. /\ toks # <<>> /\ Head(toks) = toks[1]
        /\ rest \in Seq(CycleTokens) /\ Len(rest) = 2 /\ rest[1] = toks[2]
    <3>1. toks # <<>> /\ Head(toks) = toks[1]
      <4>1. Len(toks) # 0
        BY <1>3
      <4>2. Len(<<>>) = 0
        OBVIOUS
      <4> QED  BY <4>1, <4>2
    <3>2. rest \in Seq(CycleTokens)
      BY <3>1
    <3>3. Len(rest) = Len(toks) - 1
      BY <3>1
    <3>4. Len(rest) = 2
      <4> HIDE DEF rest
      <4> QED  BY <1>3, <3>3
    <3>5. rest[1] = toks[2]
      BY <1>3, <3>1
    <3> QED  BY <3>1, <3>2, <3>4, <3>5
  <2> HIDE DEF rest
  <2>2. Len(rest) > 1 /\ Len(rest) # 1
    BY <2>1
  <2>3. rest # <<>> /\ Head(rest) = toks[2]
    <3>1. Len(rest) # 0 /\ Len(<<>>) = 0
      BY <2>1
    <3>2. rest # <<>>
      BY <3>1, Zenon
    <3>3. Head(rest) = rest[1]
      BY <2>1, <3>2
    <3> QED  BY <2>1, <3>2, <3>3, Zenon
  <2>4. ParseCycleArgs(toks) = Refused("too many arguments")
    BY <1>3, <2>1, <2>2, <2>3, Zenon DEF ParseCycleArgs, rest
  <2> QED  BY <2>4, RefusedFields, Zenon
<1>4. ASSUME NEW toks \in Seq(CycleTokens)
      PROVE  /\ LuaCycle(<<toks>>) = ParseCycleArgs(toks)
             /\ LuaCycle([i \in DOMAIN toks |-> <<toks[i]>>]) = ParseCycleArgs(toks)
             /\ ~LuaCycle(<<toks, NoString>>).ok
  <2>1. toks # NoString
    <3>1. \A i \in 1..Len(toks) : toks[i] # ""
      <4>1. \A i \in 1..Len(toks) : toks[i] \in CycleTokens
        OBVIOUS
      <4> QED  BY <1>1, <4>1
    <3>2. Len(NoString) = 2 /\ NoString[1] = "" /\ 1 \in 1..2
      BY DEF NoString
    <3> HIDE DEF NoString
    <3> QED  BY <3>1, <3>2
  <2>2. NoString \notin Range(<<toks>>)
    BY <2>1 DEF Range
  <2>3. NoString \notin Range([i \in DOMAIN toks |-> <<toks[i]>>])
    <3>1. ASSUME NEW x PROVE <<x>> # NoString
      BY DEF NoString
    <3> HIDE DEF NoString
    <3> QED  BY <3>1 DEF Range
  <2>4. NoString \in Range(<<toks, NoString>>)
    BY DEF Range
  <2>5. LuaCycle(<<toks, NoString>>) = Refused("argument must be a string")
    BY <2>4, Zenon DEF LuaCycle
  <2>6. LuaCycle(<<toks, NoString>>).ok = FALSE
    BY <2>5, RefusedFields, Zenon
  <2>7. LuaCycle(<<toks>>) = ParseCycleArgs(toks)
    BY <2>2, FlattenFacts, Zenon DEF LuaCycle
  <2>8. LuaCycle([i \in DOMAIN toks |-> <<toks[i]>>]) = ParseCycleArgs(toks)
    BY <2>3, FlattenFacts, Zenon DEF LuaCycle
  <2> QED  BY <2>6, <2>7, <2>8
<1>5. InputTyped => ArgsGrammar
  <2>1. SUFFICES ASSUME InputTyped, input.kind = "args"
                 PROVE  input.toks \in Seq(CycleTokens)
    BY <1>2, <1>3, <1>4, Zenon DEF ArgsGrammar
  <2> QED  BY <2>1 DEF InputTyped, NoInput
<1> QED  BY <1>5, InputsStayTyped, PTL

-----------------------------------------------------------------------------
(***************************************************************************)
(* The sidecar file.                                                       *)
(***************************************************************************)
Said(o, line) == IF line.name \in Keys THEN Assign(o, line.name, line.token) ELSE o

(* Every line of the file sets its key, or nothing.                        *)
LEMMA ParseRounds ==
  ASSUME NEW lines, Len(lines) \in Nat
  PROVE  \E out : /\ out[0] = NoOverrides /\ Parse(lines) = out[Len(lines)]
                  /\ \A n \in 1..Len(lines) : out[n] = Said(out[n - 1], lines[n])
<1> DEFINE len == Len(lines)
           Tok == {lines[n].token : n \in 1..len}
           T == UNION {[D -> Tok] : D \in SUBSET Keys}
           Round(o) == [n \in 0..len |->
                          IF n = 0 THEN NoOverrides
                          ELSE IF lines[n].name \in Keys
                               THEN Assign(o[n - 1], lines[n].name, lines[n].token)
                               ELSE o[n - 1]]
           step == [p \in (1..len) \X T |-> Said(p[2], lines[p[1]])]
           out == CHOOSE o : o = Round(o)
<1>1. NoOverrides \in T
  <2>1. NoOverrides \in [{} -> Tok] /\ {} \in SUBSET Keys
    BY DEF NoOverrides
  <2> QED  BY <2>1
<1>2. ASSUME NEW n \in 1..len, NEW x \in T
      PROVE  step[<<n, x>>] = Said(x, lines[n]) /\ step[<<n, x>>] \in T
  <2> DEFINE k == lines[n].name
             t == lines[n].token
  <2>1. t \in Tok
    OBVIOUS
  <2>2. PICK D \in SUBSET Keys : x \in [D -> Tok]
    BY <1>2
  <2>3. step[<<n, x>>] = Said(x, lines[n])
    <3> HIDE DEF T
    <3> QED  OBVIOUS
  <2>4. CASE k \in Keys
    <3> HIDE DEF Tok
    <3>1. Assign(x, k, t) \in [D \cup {k} -> Tok]
      BY <2>1, <2>2 DEF Assign
    <3>2. D \cup {k} \in SUBSET Keys
      BY <2>4
    <3>3. Assign(x, k, t) \in T
      BY <3>1, <3>2
    <3> QED  BY <2>3, <2>4, <3>3 DEF Said
  <2>5. CASE k \notin Keys
    BY <2>3, <2>5 DEF Said
  <2> QED  BY <2>3, <2>4, <2>5
<1> HIDE DEF T
<1>3. PICK f : Runs(f, T, NoOverrides, step, len)
  <2>1. StaysIn(T, step, len)
    BY <1>2 DEF StaysIn
  <2> HIDE DEF len, step
  <2> QED  BY <1>1, <2>1, LoopExists DEF len
<1>4. f = Round(f)
  <2>1. /\ f \in [0..len -> T] /\ f[0] = NoOverrides
        /\ \A n \in 1..len : f[n] = step[<<n, f[n - 1]>>]
    BY <1>3 DEF Runs
  <2> HIDE DEF step
  <2>2. \A n \in 0..len : n # 0 => n \in 1..len /\ n - 1 \in 0..len
    OBVIOUS
  <2> HIDE DEF len
  <2>3. \A n \in 0..len : n # 0 => f[n] = Said(f[n - 1], lines[n])
    BY <1>2, <2>1, <2>2
  <2>4. \A n \in 0..len :
          f[n] = IF n = 0 THEN NoOverrides
                 ELSE IF lines[n].name \in Keys
                      THEN Assign(f[n - 1], lines[n].name, lines[n].token) ELSE f[n - 1]
    BY <2>1, <2>3 DEF Said
  <2> QED  BY <2>1, <2>4
<1>5. out = Round(out)
  <2> HIDE DEF Round
  <2> QED  BY <1>4
<1>6. Parse(lines) = out[len]
  BY DEF Parse
<1> HIDE DEF out
<1>7. out[0] = NoOverrides
  BY <1>5
<1>8. \A n \in 1..len : out[n] = Said(out[n - 1], lines[n])
  <2>1. \A n \in 1..len : n \in 0..len /\ n # 0
    OBVIOUS
  <2> HIDE DEF len
  <2> QED  BY <1>5, <2>1 DEF Said
<1> QED  BY <1>6, <1>7, <1>8

(* sidecar_config.hpp: a file decides for the keys it names and no others, *)
(* and of several lines for a key the last one does.                       *)
THEOREM LastLineDecides ==
  ASSUME NEW lines, Len(lines) \in Nat
  PROVE  /\ \A k : k \in DOMAIN Parse(lines) <=>
                     k \in Keys /\ \E i \in 1..Len(lines) : lines[i].name = k
         /\ \A i \in 1..Len(lines) :
              lines[i].name \in Keys /\ (\A j \in 1..Len(lines) : j > i => lines[j].name # lines[i].name)
                => Parse(lines)[lines[i].name] = lines[i].token
<1> DEFINE len == Len(lines)
<1>1. PICK out : /\ out[0] = NoOverrides /\ Parse(lines) = out[len]
                 /\ \A n \in 1..len : out[n] = Said(out[n - 1], lines[n])
  BY ParseRounds
<1> DEFINE Named(n) == \A k : k \in DOMAIN out[n] <=>
                                k \in Keys /\ \E i \in 1..n : lines[i].name = k
           Lasts(n) == \A i \in 1..n :
                         lines[i].name \in Keys /\ (\A j \in 1..n : j > i => lines[j].name # lines[i].name)
                           => out[n][lines[i].name] = lines[i].token
           K == {n \in Nat : n <= len => Named(n) /\ Lasts(n)}
<1> HIDE DEF len
<1>2. 0 \in K
  BY <1>1 DEF NoOverrides
<1>3. ASSUME NEW n \in Nat, n \in K PROVE n + 1 \in K
  <2> DEFINE m == n + 1
             k == lines[m].name
             t == lines[m].token
             old == out[n]
  <2> SUFFICES ASSUME m <= len PROVE Named(m) /\ Lasts(m)
    OBVIOUS
  <2>1. m \in 1..len /\ m - 1 = n /\ n <= len /\ m \in 1..m /\ \A i \in 1..m : i = m \/ i \in 1..n
    BY DEF len
  <2>2. Named(n) /\ Lasts(n)
    BY <1>3, <2>1
  <2>3. out[m] = Said(old, lines[m])
    BY <1>1, <2>1
  <2>4. \A i \in 1..n : i \in 1..m /\ m > i
    OBVIOUS
  <2> HIDE DEF m, old, k, t
  <2>5. CASE k \in Keys
    <3>1. out[m] = [j \in DOMAIN old \cup {k} |-> IF j = k THEN t ELSE old[j]]
      BY <2>3, <2>5 DEF Said, Assign, k, t
    <3>2. DOMAIN out[m] = DOMAIN old \cup {k} /\ out[m][k] = t
      BY <3>1
    <3>3. \A j \in DOMAIN old : j # k => out[m][j] = old[j]
      BY <3>1
    <3>4. Named(m)
      BY <2>1, <2>2, <2>4, <2>5, <3>2 DEF k, old
    <3>5. ASSUME NEW i \in 1..m, lines[i].name \in Keys,
                 \A j \in 1..m : j > i => lines[j].name # lines[i].name
          PROVE  out[m][lines[i].name] = lines[i].token
      <4>1. CASE i = m
        BY <3>2, <4>1 DEF k, t
      <4>2. CASE i \in 1..n
        <5>1. lines[i].name # k
          BY <2>1, <2>4, <3>5, <4>2 DEF k
        <5>2. \A j \in 1..n : j > i => lines[j].name # lines[i].name
          BY <2>4, <3>5
        <5>3. old[lines[i].name] = lines[i].token
          BY <2>2, <3>5, <4>2, <5>2 DEF old
        <5>4. lines[i].name \in DOMAIN old
          BY <2>2, <3>5, <4>2 DEF old
        <5> QED  BY <3>3, <5>1, <5>3, <5>4
      <4> QED  BY <2>1, <4>1, <4>2
    <3> QED  BY <3>4, <3>5
  <2>6. CASE k \notin Keys
    <3>1. out[m] = old
      BY <2>3, <2>6 DEF Said, k
    <3>2. Named(m)
      BY <2>1, <2>2, <2>4, <2>6, <3>1 DEF k, old
    <3>3. ASSUME NEW i \in 1..m, lines[i].name \in Keys,
                 \A j \in 1..m : j > i => lines[j].name # lines[i].name
          PROVE  out[m][lines[i].name] = lines[i].token
      <4>1. i \in 1..n
        BY <2>1, <2>6, <3>3 DEF k
      <4>2. \A j \in 1..n : j > i => lines[j].name # lines[i].name
        BY <2>4, <3>3
      <4> QED  BY <2>2, <3>1, <3>3, <4>1, <4>2 DEF old
    <3> QED  BY <3>2, <3>3
  <2> QED  BY <2>5, <2>6
<1>4. len \in K
  <2>1. len \in Nat
    BY DEF len
  <2> HIDE DEF K
  <2> QED  BY <1>2, <1>3, <2>1, SetInduction
<1>5. Named(len) /\ Lasts(len)
  BY <1>4 DEF len
<1> QED  BY <1>1, <1>5 DEF len

(* REQ-CFG-001, REQ-CFG-004: whatever the host says and whatever a file of *)
(* one line for the key, or of two, says, the key has the value the last   *)
(* line gives it, or the host's, within its bounds.                        *)
THEOREM ConfigIsAsSaid == AllSpec => []ConfigIsWhatWasSaid
<1> DEFINE Path        == DefaultPath("", "home")
           Host(k, h)  == [Defaults EXCEPT ![k] = h]
           Cfg(k, h, lines) == Effective(Host(k, h), Parse(lines))
           LastOf(k, lines) ==
             LET of_key == {i \in DOMAIN lines : lines[i].name = k}
             IN  lines[CHOOSE i \in of_key : \A j \in of_key : j <= i].token
           Nearest(k, n) ==
             LET lo == BoundsOf(k)[1]
                 hi == BoundsOf(k)[2]
             IN  CHOOSE x \in {lo, n, hi} : x \in lo..hi /\ (n < lo => x = lo) /\ (n > hi => x = hi)
                                         /\ (n \in lo..hi => x = n)
(* The file is found at its path and at no other.                          *)
<1>1. ASSUME NEW lines
      PROVE  /\ LoadFile(Path, [p \in {Path} |-> lines]) = Parse(lines)
             /\ LoadFile(DefaultPath("xdg", "home"), [p \in {Path} |-> lines]) = NoOverrides
  <2>1. Path = <<"home", ".config/mru-switcher/config">>
    BY DEF DefaultPath
  <2>2. DefaultPath("xdg", "home") = <<"xdg", "mru-switcher/config">>
    BY DEF DefaultPath
  <2> HIDE DEF Path
  <2>3. Path # <<>> /\ DefaultPath("xdg", "home") # Path
    BY <2>1, <2>2
  <2> QED  BY <2>3 DEF LoadFile
(* The last of at most two lines.                                          *)
<1>2. ASSUME NEW k \in Keys, NEW lines, IsFile(k, lines)
      PROVE  /\ LastOf(k, lines) \in Tokens(k)
             /\ DOMAIN Parse(lines) = {k} /\ Parse(lines)[k] = LastOf(k, lines)
  <2> DEFINE of_key == {i \in DOMAIN lines : lines[i].name = k}
             last   == CHOOSE i \in of_key : \A j \in of_key : j <= i
             len    == Len(lines)
  <2>1. /\ len \in 1..2 /\ DOMAIN lines = 1..len /\ lines[1].name = k
        /\ \A i \in 1..len : lines[i].name \in {k, "junk"} /\ lines[i].token \in Tokens(k)
    <3>1. \A i \in 1..len : lines[i] \in [name : {k, "junk"}, token : Tokens(k)]
      BY <1>2, ElementOfSeq DEF IsFile
    <3>2. DOMAIN lines = 1..len
      BY <1>2 DEF IsFile
    <3> QED  BY <1>2, <3>1, <3>2 DEF IsFile
  <2> HIDE DEF len
  <2>2. \E i \in of_key : \A j \in of_key : j <= i
    <3>1. CASE 2 \in of_key
      BY <2>1, <3>1
    <3>2. CASE 2 \notin of_key
      BY <2>1, <3>2
    <3> QED  BY <3>1, <3>2
  <2>3. last \in of_key /\ \A j \in of_key : j <= last
    <3> HIDE DEF of_key
    <3> QED  BY <2>2
  <2> HIDE DEF last
  <2>4. /\ last \in 1..len /\ lines[last].name = k
        /\ \A j \in 1..len : j > last => lines[j].name # k
    BY <2>1, <2>3
  <2>5. "junk" \notin Keys
    BY DEF Keys, IntKeys, BoolKeys, EnumKeys, TextKeys
  <2>6. len \in Nat
    BY <2>1
  <2>7. DOMAIN Parse(lines) = {k}
    <3>1. \A j : j \in DOMAIN Parse(lines) <=> j \in Keys /\ \E i \in 1..len : lines[i].name = j
      BY <2>6, LastLineDecides DEF len
    <3> QED  BY <2>1, <2>5, <3>1, SMTT(30)
  <2>8. Parse(lines)[k] = lines[last].token
    <3>1. lines[last].name \in Keys
      BY <2>4
    <3>2. \A i \in 1..len :
            lines[i].name \in Keys /\ (\A j \in 1..len : j > i => lines[j].name # lines[i].name)
              => Parse(lines)[lines[i].name] = lines[i].token
      BY <2>6, LastLineDecides DEF len
    <3> QED  BY <2>4, <3>1, <3>2
  <2> QED  BY <2>1, <2>4, <2>7, <2>8 DEF last
(* The bounds of the three numbers.                                        *)
<1>3. ASSUME NEW k \in {"debounce_ms", "pulse_period_ms", "dim_alpha"}, NEW n \in Int
      PROVE  Clamped(k, n) = Nearest(k, n)
  <2> DEFINE lo == BoundsOf(k)[1]
             hi == BoundsOf(k)[2]
  <2>1. lo = Lowest(k) /\ hi = Highest(k) /\ lo \in Int /\ hi \in Int /\ lo <= hi
    BY DEF BoundsOf, Lowest, Highest
  <2> HIDE DEF lo, hi
  <2>2. /\ Clamped(k, n) \in lo..hi /\ (n < lo => Clamped(k, n) = lo)
        /\ (n > hi => Clamped(k, n) = hi) /\ (n \in lo..hi => Clamped(k, n) = n)
    BY <2>1, ClampIsNearest
  <2> DEFINE P(x) == /\ x \in lo..hi /\ (n < lo => x = lo) /\ (n > hi => x = hi)
                     /\ (n \in lo..hi => x = n)
  <2>3. Nearest(k, n) = CHOOSE x \in {lo, n, hi} : P(x)
    BY DEF lo, hi
  <2>4. n < lo \/ n > hi \/ n \in lo..hi
    BY <2>1
  <2>5. Clamped(k, n) \in {lo, n, hi} /\ P(Clamped(k, n))
    BY <2>2, <2>4
  <2>6. \A x, y : P(x) /\ P(y) => x = y
    BY <2>4
  <2> HIDE DEF P, Nearest
  <2> QED  BY <2>3, <2>5, <2>6
(* The values of the host and of a line.                                   *)
<1>4. ASSUME NEW k \in Keys, NEW h \in HostValues(k), NEW t \in Tokens(k)
      PROVE  /\ t.num \in Int
             /\ k \in {"debounce_ms", "pulse_period_ms"} => h.num \in Int
             /\ k \in BoolKeys => h \in {Word("true"), Word("false")}
  <2>1. Edges \subseteq Int
    BY DEF Edges
  <2>2. t.num \in Int
    <3>1. t \in {Number(n) : n \in Edges} \/ \E w : t = Word(w)
      BY DEF Tokens
    <3> QED  BY <2>1, <3>1 DEF Number, Word
  <2>3. ASSUME k \in {"debounce_ms", "pulse_period_ms"} PROVE h.num \in Int
    <3>1. h \in {Number(n) : n \in Edges \cap WideInt}
      BY <2>3 DEF HostValues, IntKeys
    <3> QED  BY <2>1, <3>1 DEF Number
  <2>4. ASSUME k \in BoolKeys PROVE h \in {Word("true"), Word("false")}
    BY <2>4 DEF HostValues, IntKeys, BoolKeys
  <2> QED  BY <2>2, <2>3, <2>4
(* What becomes of every key.                                              *)
<1>5. ASSUME NEW k \in Keys, NEW h, NEW lines, IsFile(k, lines)
      PROVE  LET cfg  == Cfg(k, h, lines)
                 last == LastOf(k, lines)
             IN  /\ \A j \in Keys \ {k} : cfg[j] = ReadConfig(Defaults)[j]
                 /\ Valid(k, last) => cfg[k] = ValueOf(k, last)
                 /\ ~Valid(k, last) => /\ k \in Warned(Parse(lines))
                                       /\ cfg[k] = IF k = "border_style" THEN "solid"
                                                   ELSE ReadValue(k, h)
                 /\ ApplyOverlay(cfg, Parse(lines)) = cfg
  <2> DEFINE o    == Parse(lines)
             base == ReadConfig(Host(k, h))
             last == LastOf(k, lines)
             cfg  == Cfg(k, h, lines)
  <2>1. DOMAIN o = {k} /\ o[k] = last
    BY <1>2, <1>5, ZenonT(40)
  <2>2. cfg = ApplyOverlay(base, o)
    BY DEF Effective
  <2>3. /\ base[k] = ReadValue(k, h)
        /\ \A j \in Keys \ {k} : base[j] = ReadConfig(Defaults)[j]
    <3>1. DOMAIN Defaults = Keys
      BY DEF Defaults
    <3>2. Host(k, h)[k] = h /\ \A j \in Keys \ {k} : Host(k, h)[j] = Defaults[j]
      BY <3>1
    <3> HIDE DEF Host
    <3> QED  BY <3>2 DEF ReadConfig
  <2> HIDE DEF o, base, last, cfg
  <2>4. \A j \in Keys \ {k} : cfg[j] = base[j]
    BY <2>1, <2>2 DEF ApplyOverlay
  <2>5. cfg[k] = IF Valid(k, last) THEN ValueOf(k, last)
                 ELSE IF k = "border_style" THEN "solid" ELSE base[k]
    BY <2>1, <2>2 DEF ApplyOverlay
  <2>6. ~Valid(k, last) => k \in Warned(o)
    BY <2>1 DEF Warned
  <2>7. ApplyOverlay(cfg, o) = cfg
    BY <2>2, OverlayIsLocal
  <2> QED  BY <2>3, <2>4, <2>5, <2>6, <2>7 DEF o, last, cfg
<1> HIDE DEF Cfg, LastOf, Nearest
(* The value of the key, by its kind.                                      *)
<1>6. ASSUME NEW k \in Keys, NEW h \in HostValues(k), NEW lines, IsFile(k, lines)
      PROVE  LET cfg  == Cfg(k, h, lines)
                 said == Parse(lines)
                 last == LastOf(k, lines)
             IN  /\ k \in {"debounce_ms", "pulse_period_ms", "dim_alpha"} /\ Valid(k, last) =>
                      cfg[k] = Nearest(k, last.num)
                 /\ k \in {"debounce_ms", "pulse_period_ms"} /\ ~Valid(k, last) =>
                      cfg[k] = Nearest(k, h.num) /\ k \in Warned(said)
                 /\ k \in EnumKeys /\ last.word \in WordsOf(k) => cfg[k] = last.word
                 /\ k \in EnumKeys /\ last.word \notin WordsOf(k) =>
                      k \in Warned(said) /\ cfg[k] \in WordsOf(k)
                 /\ k \in BoolKeys /\ ~Valid(k, last) => cfg[k] = (h = Word("true"))
  <2> DEFINE v    == Cfg(k, h, lines)[k]
             said == Parse(lines)
             last == LastOf(k, lines)
  <2>1. /\ Valid(k, last) => v = ValueOf(k, last)
        /\ ~Valid(k, last) => /\ k \in Warned(said)
                              /\ v = IF k = "border_style" THEN "solid" ELSE ReadValue(k, h)
    BY <1>5, <1>6
  <2>2. last \in Tokens(k)
    BY <1>2, <1>6
  <2> HIDE DEF v, said, last
  <2>3. /\ last.num \in Int /\ (k \in {"debounce_ms", "pulse_period_ms"} => h.num \in Int)
        /\ (k \in BoolKeys => h \in {Word("true"), Word("false")})
    BY <1>4, <2>2
  <2>4. ASSUME k \in {"debounce_ms", "pulse_period_ms", "dim_alpha"}, Valid(k, last)
        PROVE  v = Nearest(k, last.num)
    <3>1. ValueOf(k, last) = Clamped(k, last.num)
      BY <2>4 DEF ValueOf, BoolKeys, EnumKeys, TextKeys
    <3> QED  BY <1>3, <2>1, <2>3, <2>4, <3>1
  <2>5. ASSUME k \in {"debounce_ms", "pulse_period_ms"}, ~Valid(k, last)
        PROVE  v = Nearest(k, h.num) /\ k \in Warned(said)
    <3>1. ReadValue(k, h) = Clamped(k, h.num)
      BY <2>5 DEF ReadValue, BoolKeys, EnumKeys, TextKeys
    <3>2. k \in {"debounce_ms", "pulse_period_ms", "dim_alpha"}
      BY <2>5
    <3>3. Clamped(k, h.num) = Nearest(k, h.num)
      BY <1>3, <2>3, <2>5, <3>2
    <3> QED  BY <2>1, <2>5, <3>1, <3>3
  <2>6. ASSUME k \in EnumKeys
        PROVE  /\ Valid(k, last) <=> last.word \in WordsOf(k)
               /\ ValueOf(k, last) = last.word
               /\ ReadValue(k, h) \in WordsOf(k)
               /\ k = "border_style" => "solid" \in WordsOf(k)
    <3>1. k \in {"default_scope", "start_offset", "ui", "border_style"}
      BY <2>6 DEF EnumKeys
    <3>2. Valid(k, last) <=> last.word \in WordsOf(k)
      BY <3>1 DEF Valid, BoolKeys, EnumKeys, TextKeys
    <3>3. ValueOf(k, last) = last.word
      BY <3>1 DEF ValueOf, BoolKeys, EnumKeys, TextKeys
    <3>4. Fallback(k) \in WordsOf(k)
      BY <3>1 DEF Fallback, WordsOf, Scopes, UiKinds, BorderStyles
    <3>5. ReadValue(k, h) = IF h.word \in WordsOf(k) THEN h.word ELSE Fallback(k)
      BY <3>1 DEF ReadValue, BoolKeys, EnumKeys, TextKeys
    <3>6. k = "border_style" => "solid" \in WordsOf(k)
      BY DEF WordsOf, BorderStyles
    <3> QED  BY <3>2, <3>3, <3>4, <3>5, <3>6
  <2>7. ASSUME k \in EnumKeys, last.word \in WordsOf(k) PROVE v = last.word
    BY <2>1, <2>6, <2>7
  <2>8. ASSUME k \in EnumKeys, last.word \notin WordsOf(k)
        PROVE  k \in Warned(said) /\ v \in WordsOf(k)
    BY <2>1, <2>6, <2>8
  <2>9. ASSUME k \in BoolKeys, ~Valid(k, last) PROVE v = (h = Word("true"))
    <3>1. ReadValue(k, h) = (h.word = "true") /\ k # "border_style"
      BY <2>9 DEF ReadValue, BoolKeys, EnumKeys, TextKeys
    <3>2. (h.word = "true") = (h = Word("true"))
      BY <2>3, <2>9 DEF Word
    <3> QED  BY <2>1, <2>9, <3>1, <3>2
  <2> QED  BY <2>4, <2>5, <2>7, <2>8, <2>9 DEF v, said, last
<1>7. ASSUME NEW k \in Keys, NEW h \in HostValues(k), NEW lines, IsFile(k, lines)
      PROVE  ReadAsSaid(k, h, lines)
  <2> DEFINE said == LoadFile(Path, [p \in {Path} |-> lines])
             cfg  == Effective(Host(k, h), said)
             last == LastOf(k, lines)
  <2>1. /\ said = Parse(lines) /\ cfg = Cfg(k, h, lines)
        /\ LoadFile(DefaultPath("xdg", "home"), [p \in {Path} |-> lines]) = NoOverrides
    BY <1>1 DEF Cfg
  <2>2. k \in DOMAIN said /\ said[k] = last
    BY <1>2, <1>7, <2>1
  <2>3. /\ \A j \in Keys \ {k} : cfg[j] = ReadConfig(Defaults)[j]
        /\ ApplyOverlay(cfg, said) = cfg
    <3>1. /\ \A j \in Keys \ {k} : Cfg(k, h, lines)[j] = ReadConfig(Defaults)[j]
          /\ ApplyOverlay(Cfg(k, h, lines), Parse(lines)) = Cfg(k, h, lines)
      BY <1>5, <1>7
    <3> HIDE DEF said, cfg
    <3> QED  BY <2>1, <3>1
  <2>4. /\ k \in {"debounce_ms", "pulse_period_ms", "dim_alpha"} /\ Valid(k, last) =>
             cfg[k] = Nearest(k, last.num)
        /\ k \in {"debounce_ms", "pulse_period_ms"} /\ ~Valid(k, last) =>
             cfg[k] = Nearest(k, h.num) /\ k \in Warned(said)
        /\ k \in EnumKeys /\ last.word \in WordsOf(k) => cfg[k] = last.word
        /\ k \in EnumKeys /\ last.word \notin WordsOf(k) =>
             k \in Warned(said) /\ cfg[k] \in WordsOf(k)
        /\ k \in BoolKeys /\ ~Valid(k, last) => cfg[k] = (h = Word("true"))
    <3> HIDE DEF said, cfg, last
    <3>1. last = LastOf(k, lines)
      BY DEF last
    <3> QED  BY <1>6, <1>7, <2>1, <3>1, ZenonT(40)
  <2> QED  BY <2>1, <2>2, <2>3, <2>4, Zenon DEF ReadAsSaid, LastOf, Nearest
<1>8. InputTyped => ConfigIsWhatWasSaid
  <2>1. SUFFICES ASSUME InputTyped, input.kind = "config"
                 PROVE  \E k \in Keys : \E h \in HostValues(k) : \E lines :
                          /\ IsFile(k, lines)
                          /\ input.key = k /\ input.host = h /\ input.lines = lines
    BY <1>7 DEF ConfigIsWhatWasSaid
  <2> QED  BY <2>1 DEF InputTyped, NoInput
<1> QED  BY <1>8, InputsStayTyped, PTL

=============================================================================
