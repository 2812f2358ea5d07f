------------------------------ MODULE ListProofs ------------------------------
(***************************************************************************)
(* Lemmas about the lists of the modules: what taking the first element,   *)
(* adding one and removing one leave, and the least element of a set of    *)
(* numbers, on which SelectInSeq and the arguments by induction rest.      *)
(***************************************************************************)
EXTENDS Naturals, Sequences, FiniteSets, SequencesExt, SequenceTheorems, WellFoundedInduction, TLAPS

LEMMA SeqFacts ==
  ASSUME NEW S, NEW s \in Seq(S), s # <<>>
  PROVE  /\ Head(s) \in S /\ Tail(s) \in Seq(S)
         /\ Len(s) \in Nat /\ Len(s) >= 1 /\ Head(s) = s[1]
         /\ Len(Tail(s)) = Len(s) - 1 /\ DOMAIN s = 1..Len(s)
         /\ DOMAIN Tail(s) = 1..(Len(s) - 1)
         /\ \A i \in 1..(Len(s) - 1) : Tail(s)[i] = s[i + 1]
OBVIOUS

LEMMA AppendFacts ==
  ASSUME NEW S, NEW s \in Seq(S), NEW e \in S
  PROVE  /\ Append(s, e) \in Seq(S) /\ Append(s, e) # <<>>
         /\ Len(s) \in Nat /\ Len(Append(s, e)) = Len(s) + 1
         /\ DOMAIN s = 1..Len(s)
         /\ DOMAIN Append(s, e) = 1..(Len(s) + 1)
         /\ \A i \in 1..Len(s) : Append(s, e)[i] = s[i]
         /\ Append(s, e)[Len(s) + 1] = e
OBVIOUS

LEMMA Shift ==
  ASSUME NEW S, NEW s \in Seq(S), s # <<>>
  PROVE  \A i \in DOMAIN Tail(s) : /\ i \in Int /\ i + 1 \in DOMAIN s /\ Tail(s)[i] = s[i + 1]
                                   /\ i >= 1 /\ i < Len(s)
BY SeqFacts

LEMMA Grow ==
  ASSUME NEW S, NEW s \in Seq(S), NEW m \in S
  PROVE  /\ \A i \in DOMAIN Append(s, m) :
              \/ i \in DOMAIN s /\ Append(s, m)[i] = s[i]
              \/ i = Len(s) + 1 /\ Append(s, m)[i] = m
         /\ \A i \in DOMAIN s : i \in Int /\ i >= 1 /\ i <= Len(s)
         /\ Len(s) \in Nat /\ Len(Append(s, m)) = Len(s) + 1
BY AppendFacts

LEMMA RemoveAtFacts ==
  ASSUME NEW S, NEW s \in Seq(S), NEW k \in 1..Len(s)
  PROVE  /\ RemoveAt(s, k) \in Seq(S)
         /\ Len(RemoveAt(s, k)) = Len(s) - 1
         /\ DOMAIN RemoveAt(s, k) = 1..(Len(s) - 1)
         /\ \A i \in 1..(Len(s) - 1) : RemoveAt(s, k)[i] = IF i < k THEN s[i] ELSE s[i + 1]
<1>. DEFINE a == SubSeq(s, 1, k - 1)
            b == SubSeq(s, k + 1, Len(s))
<1>1. Len(s) \in Nat /\ DOMAIN s = 1..Len(s) /\ \A i \in 1..Len(s) : s[i] \in S
  OBVIOUS
<1>2. k \in Int /\ 1 <= k /\ k <= Len(s)
  BY <1>1
<1>3. a \in Seq(S) /\ Len(a) = k - 1 /\ \A i \in 1..(k - 1) : a[i] = s[i]
  BY <1>1, <1>2
<1>4. b \in Seq(S) /\ Len(b) = Len(s) - k /\ \A i \in 1..(Len(s) - k) : b[i] = s[k + i]
  <2>1. k + 1 \in Int /\ Len(s) \in Int /\ \A i \in (k + 1)..Len(s) : s[i] \in S
    BY <1>1, <1>2
  <2>2. /\ b \in Seq(S) /\ Len(b) = IF k + 1 <= Len(s) THEN Len(s) - (k + 1) + 1 ELSE 0
        /\ \A i \in 1..(Len(s) - (k + 1) + 1) : b[i] = s[(k + 1) + i - 1]
    BY <2>1, SubSeqProperties
  <2>. HIDE DEF b
  <2>3. Len(b) = Len(s) - k
    <3>. DEFINE n == Len(s)
    <3>1. n \in Int /\ k \in Int /\ k <= n
      BY <1>1, <1>2
    <3>2. k + 1 <= n => Len(b) = n - (k + 1) + 1
      BY <2>2
    <3>3. ~(k + 1 <= n) => Len(b) = 0
      BY <2>2
    <3>. HIDE DEF n
    <3>4. Len(b) = n - k
      BY <3>1, <3>2, <3>3
    <3>. QED BY <3>4 DEF n
  <2>4. ASSUME NEW i \in 1..(Len(s) - k) PROVE b[i] = s[k + i]
    <3>1. i \in 1..(Len(s) - (k + 1) + 1) /\ (k + 1) + i - 1 = k + i
      BY <1>1, <1>2
    <3>. QED BY <2>2, <3>1
  <2>. QED BY <2>2, <2>3, <2>4
<1>5. RemoveAt(s, k) = a \o b
  BY DEF RemoveAt
<1>. HIDE DEF a, b
<1>6. /\ a \o b \in Seq(S) /\ Len(a \o b) = Len(a) + Len(b)
      /\ \A i \in 1..(Len(a) + Len(b)) : (a \o b)[i] = IF i <= Len(a) THEN a[i] ELSE b[i - Len(a)]
  BY <1>3, <1>4, ConcatProperties
<1>. DEFINE c == a \o b
<1>7. c \in Seq(S) /\ Len(c) = Len(s) - 1
  BY <1>1, <1>2, <1>3, <1>4, <1>6
<1>8. ASSUME NEW i \in 1..(Len(s) - 1) PROVE c[i] = IF i < k THEN s[i] ELSE s[i + 1]
  <2>1. i \in 1..(Len(a) + Len(b)) /\ i \in Int /\ i >= 1 /\ i <= Len(s) - 1
    BY <1>1, <1>2, <1>3, <1>4
  <2>2. CASE i < k
    <3>1. i \in 1..(k - 1) /\ i <= Len(a)
      BY <1>2, <1>3, <2>1, <2>2
    <3>. QED BY <1>3, <1>6, <2>1, <2>2, <3>1
  <2>3. CASE ~(i < k)
    <3>1. i - Len(a) \in 1..(Len(s) - k) /\ k + (i - Len(a)) = i + 1 /\ ~(i <= Len(a))
      BY <1>1, <1>2, <1>3, <2>1, <2>3
    <3>2. c[i] = b[i - Len(a)]
      BY <1>6, <2>1, <3>1
    <3>3. b[i - Len(a)] = s[k + (i - Len(a))]
      BY <1>4, <3>1
    <3>. QED BY <2>3, <3>1, <3>2, <3>3
  <2>. QED BY <2>2, <2>3
<1>. HIDE DEF c
<1>9. RemoveAt(s, k) = c
  BY <1>5 DEF c
<1>. QED BY <1>7, <1>8, <1>9

\* The least element of a set of numbers.
LEMMA Least ==
  ASSUME NEW S, S \subseteq Nat, S # {}
  PROVE  \E n \in S : \A m \in S : n <= m
<1>1. IsWellFoundedOn(OpToRel(<, Nat), Nat)
  BY NatLessThanWellFounded, Zenon
<1>2. PICK x \in S : \A y \in S : ~(<<y, x>> \in OpToRel(<, Nat))
  BY <1>1, WFMin, Zenon
<1>3. ASSUME NEW y \in S PROVE x <= y
  <2>1. OpToRel(<, Nat) = {ss \in Nat \X Nat : ss[1] < ss[2]}
    BY DEF OpToRel
  <2>2. ~(<<y, x>> \in {ss \in Nat \X Nat : ss[1] < ss[2]})
    BY <1>2, <2>1, Zenon
  <2>. QED BY <2>2
<1>. QED BY <1>3

LEMMA LeastIsMin ==
  ASSUME NEW S, S \subseteq Nat, S # {}
  PROVE  Min(S) \in S /\ \A m \in S : Min(S) <= m
BY Least DEF Min

\* Removing the first element that is e leaves every other one.
LEMMA RemoveFirstFacts ==
  ASSUME NEW S, NEW s \in Seq(S), NEW e
  PROVE  /\ RemoveFirst(s, e) \in Seq(S)
         /\ \A i \in DOMAIN s : s[i] # e =>
              \E j \in DOMAIN RemoveFirst(s, e) : RemoveFirst(s, e)[j] = s[i]
<1>. DEFINE I == {i \in 1..Len(s) : s[i] = e}
            k == Min(I)
<1>1. DOMAIN s = 1..Len(s) /\ Len(s) \in Nat
  OBVIOUS
<1>2. CASE I = {}
  <2>1. RemoveFirst(s, e) = s
    BY <1>2 DEF RemoveFirst
  <2>. QED BY <2>1
<1>3. CASE I # {}
  <2>1. SelectInSeq(s, LAMBDA v : v = e) = IF I # {} THEN k ELSE 0
    BY DEF SelectInSeq
  <2>2. RemoveFirst(s, e) = RemoveAt(s, k)
    BY <1>3, <2>1 DEF RemoveFirst
  <2>3. I \subseteq Nat
    OBVIOUS
  <2>4. \A i \in I : i \in 1..Len(s) /\ s[i] = e
    OBVIOUS
  <2>. HIDE DEF I
  <2>5. k \in I
    BY <1>3, <2>3, LeastIsMin
  <2>6. k \in 1..Len(s) /\ s[k] = e
    BY <2>4, <2>5
  <2>. HIDE DEF k
  <2>. DEFINE r == RemoveAt(s, k)
  <2>7. /\ r \in Seq(S) /\ DOMAIN r = 1..(Len(s) - 1)
        /\ \A i \in 1..(Len(s) - 1) : r[i] = IF i < k THEN s[i] ELSE s[i + 1]
    BY <2>6, RemoveAtFacts
  <2>. HIDE DEF r
  <2>8. ASSUME NEW i \in DOMAIN s, s[i] # e PROVE \E j \in DOMAIN r : r[j] = s[i]
    <3>1. i \in Int /\ k \in Int /\ 1 <= i /\ i <= Len(s) /\ 1 <= k /\ k <= Len(s) /\ i # k
      BY <1>1, <2>6, <2>8
    <3>2. CASE i < k
      <4>1. i \in DOMAIN r /\ r[i] = s[i]
        <5>1. i \in 1..(Len(s) - 1)
          BY <1>1, <3>1, <3>2
        <5>. QED BY <2>7, <3>2, <5>1
      <4>. QED BY <4>1
    <3>3. CASE i > k
      <4>1. i - 1 \in DOMAIN r /\ r[i - 1] = s[(i - 1) + 1] /\ (i - 1) + 1 = i
        <5>1. i - 1 \in 1..(Len(s) - 1) /\ ~(i - 1 < k) /\ (i - 1) + 1 = i
          BY <1>1, <3>1, <3>3
        <5>. QED BY <2>7, <5>1
      <4>. QED BY <4>1
    <3>. QED BY <3>1, <3>2, <3>3
  <2>9. RemoveFirst(s, e) = r
    BY <2>2 DEF r
  <2>. QED BY <2>7, <2>8, <2>9
<1>. QED BY <1>2, <1>3

\* What holds of 0 and goes from each number to the next holds up to n: `held`
\* is the set of the numbers it holds of.
LEMMA UpTo ==
  ASSUME NEW n \in Nat, NEW held, 0 \in held, \A i \in 1..n : i - 1 \in held => i \in held
  PROVE  \A i \in 0..n : i \in held
<1>. DEFINE bad == {i \in 0..n : i \notin held}
<1>1. SUFFICES ASSUME bad # {} PROVE FALSE
  OBVIOUS
<1>2. PICK k \in bad : \A m \in bad : k <= m
  <2>1. bad \subseteq Nat
    OBVIOUS
  <2>. HIDE DEF bad
  <2>. QED BY <1>1, <2>1, Least
<1>3. k \in 1..n /\ k - 1 \in 0..n /\ k - 1 \notin bad
  BY <1>2
<1>. QED BY <1>2, <1>3

\* A loop of n turns from v, where turn i makes step[i][x] of x, is a function
\* of the number of turns.
IsLoop(f, n, V, v, step) ==
  f \in [0..n -> V] /\ f[0] = v /\ \A i \in 1..n : f[i] = step[i][f[i - 1]]

LEMMA LoopExists ==
  ASSUME NEW n \in Nat, NEW V, NEW v \in V, NEW step \in [1..n -> [V -> V]]
  PROVE  \E f : IsLoop(f, n, V, v, step)
<1>. DEFINE Loop(f, k) == f[0] = v /\ \A i \in 1..k : f[i] = step[i][f[i - 1]]
            held == {k \in 0..n : \E f \in [0..n -> V] : Loop(f, k)}
<1>1. 0 \in held
  <2>. DEFINE z == [i \in 0..n |-> v]
  <2>1. z \in [0..n -> V] /\ Loop(z, 0) /\ 0 \in 0..n
    OBVIOUS
  <2>. HIDE DEF z, Loop
  <2>2. \E f \in [0..n -> V] : Loop(f, 0)
    BY <2>1
  <2>. QED BY <2>1, <2>2
<1>2. ASSUME NEW k \in 1..n, k - 1 \in held PROVE k \in held
  <2>1. PICK f \in [0..n -> V] : Loop(f, k - 1)
    BY <1>2
  <2>. DEFINE g == [f EXCEPT ![k] = step[k][f[k - 1]]]
  <2>2. k \in 0..n /\ k - 1 \in 0..n /\ k # 0 /\ k # k - 1
    OBVIOUS
  <2>3. step[k][f[k - 1]] \in V
    BY <2>2
  <2>4. g \in [0..n -> V] /\ g[k] = step[k][f[k - 1]] /\ \A i \in 0..n : i # k => g[i] = f[i]
    BY <2>2, <2>3
  <2>. HIDE DEF g
  <2>5. ASSUME NEW i \in 1..k PROVE g[i] = step[i][g[i - 1]]
    <3>1. i \in 0..n /\ i - 1 \in 0..n /\ i - 1 # k
      OBVIOUS
    <3>2. CASE i = k
      BY <2>4, <3>1, <3>2
    <3>3. CASE i # k
      <4>1. i \in 1..(k - 1)
        BY <3>3
      <4>. QED BY <2>1, <2>4, <3>1, <3>3, <4>1
    <3>. QED BY <3>2, <3>3
  <2>6. Loop(g, k)
    BY <2>1, <2>2, <2>4, <2>5
  <2>. QED BY <2>2, <2>4, <2>6
<1>. HIDE DEF held
<1>3. \A k \in 0..n : k \in held
  BY <1>1, <1>2, UpTo
<1>4. n \in held
  BY <1>3
<1>. QED BY <1>4 DEF held, IsLoop

LEMMA FlattenType ==
  ASSUME NEW S, NEW seqs \in Seq(Seq(S))
  PROVE  FlattenSeq(seqs) \in Seq(S)
<1>. DEFINE n == Len(seqs)
            Eq(f) == f = [i \in 1..Len(seqs) |-> IF i = 1 THEN seqs[i] ELSE f[i - 1] \o seqs[i]]
            F == CHOOSE f : Eq(f)
<1>1. n \in Nat /\ \A i \in 1..n : seqs[i] \in Seq(S)
  OBVIOUS
<1>2. CASE n = 0
  <2>1. FlattenSeq(seqs) = seqs /\ seqs = <<>>
    BY <1>2 DEF FlattenSeq
  <2>. QED BY <2>1
<1>3. CASE n # 0
  <2>1. FlattenSeq(seqs) = F[Len(seqs)]
    BY <1>3 DEF FlattenSeq
  <2>2. \E f : Eq(f)
    <3>. DEFINE step == [i \in 1..n |-> [x \in Seq(S) |-> IF i = 1 THEN seqs[i] ELSE x \o seqs[i]]]
                v == <<>>
    <3>1. step \in [1..n -> [Seq(S) -> Seq(S)]]
      <4>1. ASSUME NEW i \in 1..n, NEW x \in Seq(S) PROVE (IF i = 1 THEN seqs[i] ELSE x \o seqs[i]) \in Seq(S)
        <5>1. seqs[i] \in Seq(S)
          BY <1>1
        <5>. QED BY <5>1, ConcatProperties
      <4>. QED BY <4>1
    <3>2. \A i \in 1..n : \A x \in Seq(S) : step[i][x] = IF i = 1 THEN seqs[i] ELSE x \o seqs[i]
      OBVIOUS
    <3>3. v \in Seq(S)
      OBVIOUS
    <3>. HIDE DEF step, n, v
    <3>4. PICK f : IsLoop(f, n, Seq(S), v, step)
      BY <1>1, <3>1, <3>3, LoopExists
    <3>. DEFINE g == [i \in 1..n |-> f[i]]
    <3>5. ASSUME NEW i \in 1..n PROVE g[i] = IF i = 1 THEN seqs[i] ELSE g[i - 1] \o seqs[i]
      <4>1. i - 1 \in 0..n /\ f[i - 1] \in Seq(S) /\ g[i] = f[i] /\ f[i] = step[i][f[i - 1]]
        BY <1>1, <3>4 DEF IsLoop
      <4>2. i # 1 => i - 1 \in 1..n /\ g[i - 1] = f[i - 1]
        BY <1>1
      <4>. HIDE DEF g
      <4>. QED BY <3>2, <4>1, <4>2
    <3>6. g = [i \in 1..n |-> g[i]]
      OBVIOUS
    <3>. HIDE DEF g
    <3>7. g = [i \in 1..n |-> IF i = 1 THEN seqs[i] ELSE g[i - 1] \o seqs[i]]
      BY <3>5, <3>6
    <3>8. Eq(g)
      BY <3>7 DEF n
    <3>. QED BY <3>8
  <2>3. Eq(F)
    BY <2>2, Zenon
  <2>. HIDE DEF F
  <2>4. \A i \in 1..n : F[i] = IF i = 1 THEN seqs[i] ELSE F[i - 1] \o seqs[i]
    BY <2>3
  <2>. DEFINE held == {i \in 0..n : i # 0 => F[i] \in Seq(S)}
  <2>. HIDE DEF n
  <2>5. 0 \in held
    BY <1>1
  <2>6. ASSUME NEW i \in 1..n, i - 1 \in held PROVE i \in held
    <3>1. i \in 0..n /\ seqs[i] \in Seq(S) /\ (i # 1 => F[i - 1] \in Seq(S))
      BY <1>1, <2>6
    <3>2. i # 1 => F[i - 1] \o seqs[i] \in Seq(S)
      BY <3>1, ConcatProperties
    <3>3. F[i] \in Seq(S)
      BY <2>4, <3>1, <3>2
    <3>. QED BY <3>1, <3>3
  <2>. HIDE DEF held
  <2>7. \A i \in 0..n : i \in held
    BY <1>1, <2>5, <2>6, UpTo
  <2>8. F[n] \in Seq(S)
    <3>1. n \in held
      BY <1>1, <2>7
    <3>. QED BY <1>3, <3>1 DEF held
  <2>. QED BY <2>1, <2>8 DEF n
<1>. QED BY <1>2, <1>3

LEMMA FlattenOne ==
  ASSUME NEW s
  PROVE  FlattenSeq(<<s>>) = s
<1>. DEFINE seqs == <<s>>
            Eq(f) == f = [i \in 1..Len(seqs) |-> IF i = 1 THEN seqs[i] ELSE f[i - 1] \o seqs[i]]
            F == CHOOSE f : Eq(f)
<1>1. Len(seqs) = 1 /\ seqs[1] = s /\ 1..1 = {1}
  OBVIOUS
<1>. HIDE DEF seqs
<1>2. FlattenSeq(seqs) = F[Len(seqs)]
  BY <1>1 DEF FlattenSeq
<1>3. Eq([i \in {1} |-> s])
  BY <1>1
<1>4. Eq(F)
  BY <1>3, Zenon
<1>. HIDE DEF F
<1>5. F[1] = s
  BY <1>1, <1>4
<1>. QED BY <1>1, <1>2, <1>5 DEF seqs

===============================================================================
