------------------------------- MODULE Recursion -------------------------------
(* Recursive functions and folds, for every input.  The folds of the community  *)
(* modules choose a function that satisfies their recursion; that there is one, *)
(* and what it passes through, follows here from the least element of a set of  *)
(* natural numbers.  The text pipeline of the service (chunking.py,             *)
(* editorial.py, rendering.py) is built from such loops.                        *)
EXTENDS Integers, FiniteSets, Lists, WellFoundedInduction, FiniteSetTheorems, TLAPS

\* Some number of the set is its least.
LEMMA LeastNatural ==
  ASSUME NEW T, T \subseteq Nat, T # {}
  PROVE  \E n \in T : \A m \in T : n <= m
<1>1. IsWellFoundedOn(OpToRel(<, Nat), Nat)
  BY NatLessThanWellFounded
<1>2. PICK n \in T : \A m \in T : ~ (<<m, n>> \in OpToRel(<, Nat))
  BY <1>1, WFMin
<1>3. ASSUME NEW m \in T, m < n PROVE <<m, n>> \in OpToRel(<, Nat)
  BY <1>3 DEF OpToRel
<1>4. ASSUME NEW m \in T PROVE n <= m
  <2>1. ~ (m < n)
    BY <1>2, <1>3
  <2> QED
    BY <2>1, m \in Nat, n \in Nat
<1> QED
  BY <1>4

\* A set with 0 and the successor of each of its numbers has all of them.
LEMMA NaturalInduction ==
  ASSUME NEW S, 0 \in S, \A n \in Nat : n \in S => n + 1 \in S
  PROVE  Nat \subseteq S
<1> SUFFICES ASSUME Nat \ S # {} PROVE FALSE
  OBVIOUS
<1>1. PICK n \in Nat \ S : \A m \in Nat \ S : n <= m
  BY LeastNatural
<1> QED
  BY <1>1, n - 1 \in Nat

\* A recursion over S: what it stops at with which values, what it steps back to
\* with which rank, and how it goes on from the value there.
IsRecursion(S, D, Stop, rank, back, stop, step) ==
  /\ Stop \in SUBSET S /\ stop \in [Stop -> D]
  /\ back \in [S \ Stop -> S] /\ step \in [S \ Stop -> [D -> D]]
  /\ rank \in [S -> Nat] /\ \A s \in S \ Stop : rank[back[s]] < rank[s]

\* f is what the recursion defines.
Recurs(f, S, Stop, back, stop, step) ==
  \A s \in S : f[s] = IF s \in Stop THEN stop[s] ELSE step[s][f[back[s]]]

\* Some function satisfies the recursion, if each step back lowers the rank: the
\* recursive definitions of the project mean what they say.
THEOREM RecursionExists ==
  ASSUME NEW S, NEW D, NEW Stop, NEW rank, NEW p, NEW b, NEW step,
         IsRecursion(S, D, Stop, rank, p, b, step)
  PROVE  \E f \in [S -> D] : Recurs(f, S, Stop, p, b, step)
<1> USE DEF IsRecursion, Recurs
<1> DEFINE Low(n) == {s \in S : rank[s] <= n}
           Good(n, h) == /\ h \in [Low(n) -> D]
                         /\ \A s \in Low(n) : h[s] = IF s \in Stop THEN b[s] ELSE step[s][h[p[s]]]
<1>1. \A n \in Nat : \E h : Good(n, h)
  <2> DEFINE Has == {n \in Nat : \E h : Good(n, h)}
  <2>1. 0 \in Has
    <3>1. \A s \in Low(0) : s \in Stop
      OBVIOUS
    <3>2. Good(0, [s \in Low(0) |-> b[s]])
      BY <3>1
    <3> QED
      BY <3>2
  <2>2. ASSUME NEW n \in Nat, n \in Has PROVE n + 1 \in Has
    <3>1. PICK h : Good(n, h)
      BY <2>2
    <3> DEFINE k == [s \in Low(n + 1) |-> IF s \in Stop THEN b[s] ELSE step[s][h[p[s]]]]
    <3>2. \A s \in Low(n + 1) \ Stop : p[s] \in Low(n) /\ p[s] \in Low(n + 1)
      OBVIOUS
    <3>3. k \in [Low(n + 1) -> D]
      <4> SUFFICES ASSUME NEW s \in Low(n + 1)
                   PROVE  (IF s \in Stop THEN b[s] ELSE step[s][h[p[s]]]) \in D
        OBVIOUS
      <4>1. CASE s \in Stop
        BY <4>1
      <4>2. CASE s \notin Stop
        <5>1. h[p[s]] \in D
          BY <3>1, <3>2, <4>2
        <5> QED
          BY <5>1, <4>2
      <4> QED
        BY <4>1, <4>2
    <3>4. \A s \in Low(n + 1) \ Stop : k[p[s]] = h[p[s]]
      BY <3>1, <3>2
    <3>5. \A s \in Low(n + 1) : k[s] = IF s \in Stop THEN b[s] ELSE step[s][k[p[s]]]
      BY <3>4
    <3>6. Good(n + 1, k)
      BY <3>3, <3>5
    <3>7. \E g : Good(n + 1, g)
      <4> HIDE DEF k, Good
      <4> QED
        BY <3>6
    <3> HIDE DEF Good
    <3> QED
      BY <3>7
  <2> HIDE DEF Has
  <2>3. Nat \subseteq Has
    BY <2>1, <2>2, NaturalInduction
  <2> QED
    BY <2>3 DEF Has
<1>2. ASSUME NEW n \in Nat, NEW m \in Nat, NEW h, Good(n, h), NEW k, Good(m, k),
             NEW s \in Low(n) \cap Low(m)
      PROVE  h[s] = k[s]
  <2> DEFINE Bad == {t \in Low(n) \cap Low(m) : h[t] # k[t]}
             Ranks == {rank[t] : t \in Bad}
  <2> SUFFICES ASSUME Bad # {} PROVE FALSE
    OBVIOUS
  <2>1. PICK r \in Ranks : \A q \in Ranks : r <= q
    <3>1. Ranks \subseteq Nat
      OBVIOUS
    <3>2. Ranks # {}
      <4>1. PICK t : t \in Bad
        OBVIOUS
      <4>2. rank[t] \in Ranks
        BY <4>1
      <4> QED
        BY <4>2
    <3> HIDE DEF Ranks
    <3> QED
      BY <3>1, <3>2, LeastNatural
  <2>2. PICK t \in Bad : rank[t] = r
    OBVIOUS
  <2>3. t \in S /\ t \in Low(n) /\ t \in Low(m) /\ h[t] # k[t]
    BY <2>2
  <2>4. t \notin Stop
    BY <1>2, <2>3
  <2>5. p[t] \in S /\ rank[p[t]] < rank[t] /\ rank[p[t]] \in Nat /\ rank[t] \in Nat
    BY <2>3, <2>4
  <2>6. p[t] \in Low(n) /\ p[t] \in Low(m)
    BY <2>3, <2>5
  <2>7. h[p[t]] # k[p[t]]
    BY <1>2, <2>3, <2>4
  <2>8. rank[p[t]] \in Ranks
    BY <2>6, <2>7
  <2> HIDE DEF Ranks
  <2> QED
    BY <2>1, <2>2, <2>5, <2>8
<1> DEFINE H(n) == CHOOSE h : Good(n, h)
           f == [s \in S |-> H(rank[s])[s]]
<1>3. \A n \in Nat : Good(n, H(n))
  BY <1>1
<1> HIDE DEF H, Good
<1>4. f \in [S -> D]
  <2> SUFFICES ASSUME NEW s \in S PROVE H(rank[s])[s] \in D
    OBVIOUS
  <2>1. Good(rank[s], H(rank[s])) /\ s \in Low(rank[s])
    BY <1>3
  <2> QED
    BY <2>1 DEF Good
<1>5. ASSUME NEW s \in S PROVE f[s] = IF s \in Stop THEN b[s] ELSE step[s][f[p[s]]]
  <2>1. Good(rank[s], H(rank[s])) /\ s \in Low(rank[s])
    BY <1>3
  <2>2. CASE s \in Stop
    BY <2>1, <2>2 DEF Good
  <2>3. CASE s \notin Stop
    <3>1. p[s] \in Low(rank[s]) /\ p[s] \in Low(rank[p[s]])
      BY <2>3
    <3>2. H(rank[s])[p[s]] = H(rank[p[s]])[p[s]]
      <4>1. rank[s] \in Nat /\ rank[p[s]] \in Nat
        BY <2>3
      <4>2. Good(rank[p[s]], H(rank[p[s]]))
        BY <1>3, <4>1
      <4>3. p[s] \in Low(rank[s]) \cap Low(rank[p[s]])
        BY <3>1
      <4> HIDE DEF Low
      <4> QED
        BY <1>2, <2>1, <4>1, <4>2, <4>3
    <3> QED
      BY <2>1, <2>3, <3>2 DEF Good
  <2> QED
    BY <2>2, <2>3
<1> HIDE DEF f
<1> QED
  BY <1>4, <1>5

\* What holds before the first step of a sequence and is kept by each, holds after each.
LEMMA UptoInduction ==
  ASSUME NEW N \in Nat, NEW S, 0 \in S, \A i \in 1 .. N : i - 1 \in S => i \in S
  PROVE  0 .. N \subseteq S
<1> DEFINE T == {n \in Nat : n <= N => n \in S}
<1>1. \A n \in Nat : n \in T => n + 1 \in T
  <2> SUFFICES ASSUME NEW n \in Nat, n <= N => n \in S, n + 1 <= N PROVE n + 1 \in S
    OBVIOUS
  <2>1. n + 1 \in 1 .. N /\ (n + 1) - 1 = n /\ n <= N
    OBVIOUS
  <2> QED
    BY <2>1
<1>2. 0 \in T
  OBVIOUS
<1>3. Nat \subseteq T
  <2> HIDE DEF T
  <2> QED
    BY <1>1, <1>2, NaturalInduction
<1> QED
  BY <1>3

\* The largest of some of the first N numbers.
LEMMA MaxOfUpto ==
  ASSUME NEW N \in Nat, NEW s \in SUBSET (1 .. N), s # {}
  PROVE  /\ Max(s) \in s /\ \A i \in s : i <= Max(s)
         /\ Max(s) \in 1 .. N
<1> DEFINE Above == {n \in Nat : \A i \in s : i <= n}
<1>1. N \in Above
  OBVIOUS
<1>2. PICK n \in Above : \A m \in Above : n <= m
  <2>1. Above \subseteq Nat /\ Above # {}
    BY <1>1
  <2> HIDE DEF Above
  <2> QED
    BY <2>1, LeastNatural
<1>3. n \in s
  <2> SUFFICES ASSUME n \notin s PROVE FALSE
    OBVIOUS
  <2>1. PICK i \in s : i \in 1 .. N
    OBVIOUS
  <2>3. i <= n /\ i # n /\ n \in Nat
    BY <2>1
  <2>2. n - 1 \in Above
    BY <2>1, <2>3
  <2> QED
    BY <1>2, <2>2
<1>4. \E x \in s : \A y \in s : x >= y
  BY <1>2, <1>3
<1> QED
  BY <1>4 DEF Max

\* A fold over N elements by which a value of D goes on to another one, and the
\* function from sets of positions by which it is defined.
IsFold(N, D, base, step) ==
  N \in Nat /\ base \in D /\ step \in [1 .. N -> [D -> D]]

Iterates(iter, N, D, base, step) ==
  /\ iter[{}] = base
  /\ \A s \in SUBSET (1 .. N) : s # {} /\ iter[s \ {Max(s)}] \in D =>
       iter[s] = step[Max(s)][iter[s \ {Max(s)}]]

\* That function exists.
LEMMA FoldExists ==
  ASSUME NEW N, NEW D, NEW base, NEW step, IsFold(N, D, base, step)
  PROVE  \E iter \in [SUBSET (1 .. N) -> D] : Iterates(iter, N, D, base, step)
<1> USE DEF IsFold
<1> DEFINE S == SUBSET (1 .. N)
           Stop == {{}}
           rank == [s \in S |-> Cardinality(s)]
           p == [s \in S \ Stop |-> s \ {Max(s)}]
           b == [s \in Stop |-> base]
           by == [s \in S \ Stop |-> step[Max(s)]]
<1>1. Stop \in SUBSET S
  OBVIOUS
<1>2. ASSUME NEW s \in S PROVE IsFiniteSet(s) /\ Cardinality(s) \in Nat
  <2>1. IsFiniteSet(1 .. N)
    BY FS_Interval
  <2>2. IsFiniteSet(s)
    BY <2>1, FS_Subset
  <2> QED
    BY <2>2, FS_CardinalityType
<1>3. rank \in [S -> Nat]
  BY <1>2
<1>4. \A s \in S \ Stop : Max(s) \in s /\ Max(s) \in 1 .. N
  BY MaxOfUpto
<1>5. p \in [S \ Stop -> S]
  OBVIOUS
<1>6. \A s \in S \ Stop : rank[p[s]] < rank[s]
  <2> SUFFICES ASSUME NEW s \in S \ Stop PROVE rank[p[s]] < rank[s]
    OBVIOUS
  <2>1. IsFiniteSet(s) /\ Cardinality(s) \in Nat
    BY <1>2
  <2>2. Cardinality(s \ {Max(s)}) = Cardinality(s) - 1
    BY <1>4, <2>1, FS_RemoveElement
  <2>3. rank[p[s]] = Cardinality(s \ {Max(s)}) /\ rank[s] = Cardinality(s)
    BY <1>5
  <2> QED
    BY <2>1, <2>2, <2>3
<1>7. b \in [Stop -> D]
  OBVIOUS
<1>10. by \in [S \ Stop -> [D -> D]]
  BY <1>4
<1>11. IsRecursion(S, D, Stop, rank, p, b, by)
  <2> HIDE DEF S, Stop, rank, p, b, by
  <2> QED
    BY <1>1, <1>3, <1>5, <1>6, <1>7, <1>10 DEF IsRecursion
<1>8. PICK f \in [S -> D] : Recurs(f, S, Stop, p, b, by)
  <2> HIDE DEF S, Stop, rank, p, b, by
  <2> QED
    BY <1>11, RecursionExists
<1>9. \A s \in S : f[s] = IF s = {} THEN base ELSE step[Max(s)][f[s \ {Max(s)}]]
  BY <1>8 DEF Recurs
<1> QED
  BY <1>9 DEF Iterates

\* A fold is the last of the values that its steps pass through.
Traces(f, N, base, step) == f[0] = base /\ \A i \in 1 .. N : f[i] = step[i][f[i - 1]]

\* The for-loops of the code, which are folds in the model, have a value after
\* each round, and the value after the last round is the result.
THEOREM FoldTraces ==
  ASSUME NEW N, NEW D, NEW base, NEW step, IsFold(N, D, base, step),
         NEW iter, Iterates(iter, N, D, base, step)
  PROVE  \E f \in [0 .. N -> D] : Traces(f, N, base, step) /\ f[N] = iter[1 .. N]
<1> USE DEF IsFold, Iterates
<1> DEFINE f == [i \in 0 .. N |-> iter[1 .. i]]
           Typed == {i \in 0 .. N : f[i] \in D}
<1>1. f[0] = base
  <2>1. 1 .. 0 = {}
    OBVIOUS
  <2> QED
    BY <2>1
<1>2. ASSUME NEW i \in 1 .. N, f[i - 1] \in D PROVE f[i] = step[i][f[i - 1]]
  <2>0. i \in 1 .. i /\ \A j \in 1 .. i : j <= i
    OBVIOUS
  <2>7. 1 .. i \in SUBSET (1 .. N)
    OBVIOUS
  <2>1. 1 .. i \in SUBSET (1 .. N) /\ 1 .. i # {}
    BY <2>0, <2>7
  <2>2. Max(1 .. i) = i
    <3>1. N \in Nat
      OBVIOUS
    <3> HIDE DEF IsFold, Iterates
    <3>2. Max(1 .. i) \in 1 .. i /\ \A j \in 1 .. i : j <= Max(1 .. i)
      BY <2>1, <3>1, MaxOfUpto
    <3> QED
      BY <2>0, <3>2
  <2>3. (1 .. i) \ {i} = 1 .. i - 1 /\ i - 1 \in 0 .. N /\ i \in 0 .. N
    OBVIOUS
  <2>4. f[i] = iter[1 .. i] /\ f[i - 1] = iter[1 .. i - 1]
    BY <2>3
  <2>5. iter[(1 .. i) \ {Max(1 .. i)}] \in D
    BY <1>2, <2>2, <2>3, <2>4
  <2>6. iter[1 .. i] = step[Max(1 .. i)][iter[(1 .. i) \ {Max(1 .. i)}]]
    BY <2>1, <2>5
  <2> QED
    BY <2>2, <2>3, <2>4, <2>6
<1>3. ASSUME NEW i \in 1 .. N, i - 1 \in Typed PROVE i \in Typed
  <2>1. f[i - 1] \in D /\ i \in 0 .. N
    BY <1>3
  <2>2. f[i] = step[i][f[i - 1]]
    BY <1>2, <2>1
  <2>3. f[i] \in D
    <3> HIDE DEF f
    <3> QED
      BY <2>1, <2>2
  <2> QED
    BY <2>1, <2>3
<1>4. 0 \in Typed
  BY <1>1
<1>5. 0 .. N \subseteq Typed
  <2> HIDE DEF Typed
  <2> QED
    BY <1>3, <1>4, UptoInduction
<1>6. f \in [0 .. N -> D]
  BY <1>5
<1>7. \A i \in 1 .. N : f[i] = step[i][f[i - 1]]
  <2> SUFFICES ASSUME NEW i \in 1 .. N PROVE f[i] = step[i][f[i - 1]]
    OBVIOUS
  <2>1. f[i - 1] \in D
    <3>1. i - 1 \in 0 .. N
      OBVIOUS
    <3> QED
      BY <1>6, <3>1
  <2> QED
    BY <1>2, <2>1
<1>8. f[N] = iter[1 .. N]
  OBVIOUS
<1> HIDE DEF f
<1> QED
  BY <1>1, <1>6, <1>7, <1>8 DEF Traces

\* The same along the natural numbers.
LEMMA CountingExists ==
  ASSUME NEW D, NEW base \in D, NEW step \in [D -> D]
  PROVE  \E f \in [Nat -> D] : f = [n \in Nat |-> IF n = 0 THEN base ELSE step[f[n - 1]]]
<1> DEFINE Stop == {0}
           rank == [n \in Nat |-> n]
           back == [n \in Nat \ Stop |-> n - 1]
           stop == [n \in Stop |-> base]
           by == [n \in Nat \ Stop |-> step]
<1>1. IsRecursion(Nat, D, Stop, rank, back, stop, by)
  BY DEF IsRecursion
<1>2. PICK f \in [Nat -> D] : Recurs(f, Nat, Stop, back, stop, by)
  <2> HIDE DEF Stop, rank, back, stop, by
  <2> QED
    BY <1>1, RecursionExists
<1>3. \A n \in Nat : f[n] = IF n = 0 THEN base ELSE step[f[n - 1]]
  BY <1>2 DEF Recurs
<1> QED
  BY <1>3

-------------------------------------------------------------------------------
(* FlattenSeq *)

\* What has been put together after each of the sequences.
LEMMA FlattenTrace ==
  ASSUME NEW D, NEW seqs \in Seq(Seq(D))
  PROVE  \E F \in [0 .. Len(seqs) -> Seq(D)] :
           /\ F[0] = <<>> /\ FlattenSeq(seqs) = F[Len(seqs)]
           /\ \A i \in 1 .. Len(seqs) : F[i] = F[i - 1] \o seqs[i]
<1>1. CASE Len(seqs) = 0
  <2>1. seqs = <<>>
    BY <1>1
  <2>2. FlattenSeq(seqs) = <<>>
    BY <2>1 DEF FlattenSeq
  <2> DEFINE F == [i \in 0 .. 0 |-> <<>>]
  <2>3. F \in [0 .. Len(seqs) -> Seq(D)]
    BY <1>1
  <2>4. F[0] = <<>> /\ F[Len(seqs)] = <<>> /\ 1 .. Len(seqs) = {}
    BY <1>1
  <2> HIDE DEF F
  <2> QED
    BY <2>2, <2>3, <2>4
<1>2. CASE Len(seqs) # 0
  <2> DEFINE N == Len(seqs)
             S == 1 .. N
             Q == Seq(D)
             Flattens(f) == f = [i \in S |-> IF i = 1 THEN seqs[i] ELSE f[i - 1] \o seqs[i]]
             Stop == {1}
             rank == [i \in S |-> i]
             back == [i \in S \ Stop |-> i - 1]
             stop == [i \in Stop |-> seqs[i]]
             step == [i \in S \ Stop |-> [x \in Q |-> x \o seqs[i]]]
  <2>1. N \in Nat /\ N # 0 /\ \A i \in S : seqs[i] \in Q
    BY <1>2
  <2>2. IsRecursion(S, Q, Stop, rank, back, stop, step)
    <3>1. step \in [S \ Stop -> [Q -> Q]]
      BY <2>1
    <3>2. Stop \in SUBSET S /\ stop \in [Stop -> Q]
      BY <2>1
    <3>3. back \in [S \ Stop -> S] /\ rank \in [S -> Nat] /\ \A i \in S \ Stop : rank[back[i]] < rank[i]
      BY <2>1
    <3> HIDE DEF S, Q, Stop, rank, back, stop, step
    <3> QED
      BY <3>1, <3>2, <3>3 DEF IsRecursion
  <2>3. PICK f \in [S -> Q] : Recurs(f, S, Stop, back, stop, step)
    <3> HIDE DEF S, Q, Stop, rank, back, stop, step
    <3> QED
      BY <2>2, RecursionExists
  <2>4. ASSUME NEW i \in S PROVE f[i] = IF i = 1 THEN seqs[i] ELSE f[i - 1] \o seqs[i]
    <3>1. CASE i = 1
      BY <2>3, <3>1 DEF Recurs
    <3>2. CASE i # 1
      <4>1. i - 1 \in S /\ f \in [S -> Q]
        BY <2>1, <2>3, <3>2
      <4>2. f[i - 1] \in Q
        BY <4>1
      <4>3. f[i] = step[i][f[back[i]]] /\ i \in S \ Stop
        BY <2>3, <3>2 DEF Recurs
      <4>4. back[i] = i - 1 /\ step[i] = [x \in Q |-> x \o seqs[i]]
        BY <4>3
      <4> HIDE DEF Q, S, step, back
      <4> QED
        BY <3>2, <4>2, <4>3, <4>4
    <3> QED
      BY <3>1, <3>2
  <2>5. Flattens(f)
    BY <2>3, <2>4
  <2> DEFINE flatten == CHOOSE g : Flattens(g)
  <2>6. Flattens(flatten)
    BY <2>5
  <2>7. FlattenSeq(seqs) = flatten[N]
    BY <1>2 DEF FlattenSeq
  <2> HIDE DEF flatten
  <2>8. 0 .. N \subseteq {i \in 0 .. N : i # 0 => flatten[i] \in Q}
    <3> DEFINE T == {i \in 0 .. N : i # 0 => flatten[i] \in Q}
    <3>1. ASSUME NEW i \in 1 .. N, i - 1 \in T PROVE i \in T
      <4>1. flatten[i] = IF i = 1 THEN seqs[i] ELSE flatten[i - 1] \o seqs[i]
        BY <2>6
      <4>2. seqs[i] \in Q
        BY <2>1
      <4>3. CASE i = 1
        BY <4>1, <4>2, <4>3
      <4>4. CASE i # 1
        <5>1. i - 1 # 0 /\ i \in 0 .. N
          BY <2>1, <4>4
        <5>2. flatten[i - 1] \in Q
          BY <3>1, <5>1
        <5>3. flatten[i - 1] \o seqs[i] \in Q
          BY <4>2, <5>2
        <5> QED
          BY <4>1, <4>4, <5>1, <5>3
      <4> QED
        BY <4>3, <4>4
    <3>2. 0 \in T
      BY <2>1
    <3> HIDE DEF T
    <3>3. 0 .. N \subseteq T
      BY <2>1, <3>1, <3>2, UptoInduction
    <3> QED
      BY <3>3 DEF T
  <2> DEFINE F == [i \in 0 .. N |-> IF i = 0 THEN <<>> ELSE flatten[i]]
  <2>9. F \in [0 .. N -> Q] /\ F[0] = <<>> /\ F[N] = flatten[N]
    BY <2>1, <2>8
  <2>10. ASSUME NEW i \in 1 .. N PROVE F[i] = F[i - 1] \o seqs[i]
    <3>1. CASE i = 1
      <4>1. seqs[i] \in Seq(D) /\ <<>> \o seqs[i] = seqs[i]
        BY <2>1
      <4> QED
        BY <2>1, <2>6, <3>1, <4>1
    <3>2. CASE i # 1
      <4>1. flatten[i] = flatten[i - 1] \o seqs[i]
        BY <2>6, <3>2
      <4>2. i - 1 \in 0 .. N /\ i \in 0 .. N /\ i # 0 /\ i - 1 # 0
        BY <2>1, <3>2
      <4> QED
        BY <4>1, <4>2
    <3> QED
      BY <3>1, <3>2
  <2> HIDE DEF F
  <2> QED
    BY <2>7, <2>9, <2>10
<1> QED
  BY <1>1, <1>2

\* What is put together from sequences over D is one.
LEMMA FlattenTyped ==
  ASSUME NEW D, NEW seqs \in Seq(Seq(D))
  PROVE  FlattenSeq(seqs) \in Seq(D)
<1>1. Len(seqs) \in Nat
  OBVIOUS
<1>2. PICK F \in [0 .. Len(seqs) -> Seq(D)] : FlattenSeq(seqs) = F[Len(seqs)]
  BY FlattenTrace
<1>3. Len(seqs) \in 0 .. Len(seqs)
  BY <1>1
<1> QED
  BY <1>2, <1>3

\* Nothing put together.
LEMMA FlattenEmpty == FlattenSeq(<<>>) = <<>>
BY DEF FlattenSeq

\* One sequence more.
LEMMA FlattenAppend ==
  ASSUME NEW D, NEW seqs \in Seq(Seq(D)), NEW s \in Seq(D)
  PROVE  FlattenSeq(Append(seqs, s)) = FlattenSeq(seqs) \o s
<1> DEFINE N == Len(seqs)
           more == Append(seqs, s)
<1>1. N \in Nat
  OBVIOUS
<1>2. more \in Seq(Seq(D)) /\ Len(more) = N + 1
  OBVIOUS
<1>3. more[N + 1] = s
  OBVIOUS
<1>4. ASSUME NEW i \in 1 .. N PROVE more[i] = seqs[i]
  OBVIOUS
<1>5. PICK F \in [0 .. N -> Seq(D)] :
        /\ F[0] = <<>> /\ FlattenSeq(seqs) = F[N]
        /\ \A i \in 1 .. N : F[i] = F[i - 1] \o seqs[i]
  BY FlattenTrace
<1> HIDE DEF more, N
<1>6. PICK G \in [0 .. N + 1 -> Seq(D)] :
        /\ G[0] = <<>> /\ FlattenSeq(more) = G[N + 1]
        /\ \A i \in 1 .. N + 1 : G[i] = G[i - 1] \o more[i]
  <2>1. \E G \in [0 .. Len(more) -> Seq(D)] :
          /\ G[0] = <<>> /\ FlattenSeq(more) = G[Len(more)]
          /\ \A i \in 1 .. Len(more) : G[i] = G[i - 1] \o more[i]
    BY <1>2, FlattenTrace
  <2> QED
    BY <1>2, <2>1
<1> DEFINE Same == {i \in 0 .. N : F[i] = G[i]}
<1>7. ASSUME NEW i \in 1 .. N, i - 1 \in Same PROVE i \in Same
  <2>1. F[i] = F[i - 1] \o seqs[i]
    BY <1>5
  <2>2. i \in 1 .. N + 1 /\ i \in 0 .. N
    BY <1>1
  <2>3. G[i] = G[i - 1] \o more[i]
    BY <1>6, <2>2
  <2>4. F[i] = G[i]
    BY <1>4, <1>7, <2>1, <2>3
  <2> QED
    BY <2>2, <2>4
<1>8. 0 \in Same
  BY <1>1, <1>5, <1>6
<1>9. N \in Same
  <2>1. N \in 0 .. N
    BY <1>1
  <2> HIDE DEF Same
  <2>2. 0 .. N \subseteq Same
    BY <1>1, <1>7, <1>8, UptoInduction
  <2> QED
    BY <2>1, <2>2
<1>10. G[N + 1] = G[N] \o s
  <2>1. N + 1 \in 1 .. N + 1 /\ (N + 1) - 1 = N
    BY <1>1
  <2>2. G[N + 1] = G[(N + 1) - 1] \o more[N + 1]
    BY <1>6, <2>1
  <2> QED
    BY <1>3, <2>1, <2>2
<1> QED
  BY <1>5, <1>6, <1>9, <1>10 DEF more

\* One sequence alone.
LEMMA FlattenOne ==
  ASSUME NEW D, NEW s \in Seq(D)
  PROVE  FlattenSeq(<<s>>) = s
<1>1. FlattenSeq(Append(<<>>, s)) = FlattenSeq(<<>>) \o s
  BY FlattenAppend, <<>> \in Seq(Seq(D))
<1>2. Append(<<>>, s) = <<s>> /\ <<>> \o s = s
  OBVIOUS
<1> QED
  BY <1>1, <1>2, FlattenEmpty

\* Sequences of one element each.
LEMMA FlattenSingles ==
  ASSUME NEW D, NEW s \in Seq(D)
  PROVE  FlattenSeq([i \in DOMAIN s |-> <<s[i]>>]) = s
<1> DEFINE N == Len(s)
           singles == [i \in DOMAIN s |-> <<s[i]>>]
<1>1. singles \in Seq(Seq(D)) /\ Len(singles) = N /\ N \in Nat
  <2>1. N \in Nat /\ DOMAIN s = 1 .. N
    OBVIOUS
  <2>2. \A i \in 1 .. N : <<s[i]>> \in Seq(D)
    OBVIOUS
  <2>3. singles \in [1 .. N -> Seq(D)]
    BY <2>1, <2>2
  <2> HIDE DEF singles, N
  <2>4. singles \in Seq(Seq(D))
    BY <2>1, <2>3
  <2> QED
    BY <2>1, <2>3, <2>4
<1>2. \A i \in 1 .. N : singles[i] = <<s[i]>>
  OBVIOUS
<1> HIDE DEF singles, N
<1>3. PICK F \in [0 .. N -> Seq(D)] :
        /\ F[0] = <<>> /\ FlattenSeq(singles) = F[N]
        /\ \A i \in 1 .. N : F[i] = F[i - 1] \o singles[i]
  <2>1. \E F \in [0 .. Len(singles) -> Seq(D)] :
          /\ F[0] = <<>> /\ FlattenSeq(singles) = F[Len(singles)]
          /\ \A i \in 1 .. Len(singles) : F[i] = F[i - 1] \o singles[i]
    BY <1>1, FlattenTrace
  <2> QED
    BY <1>1, <2>1
<1> DEFINE Same == {i \in 0 .. N : F[i] = SubSeq(s, 1, i)}
<1>4. 0 .. N \subseteq Same
  <2>1. ASSUME NEW i \in 1 .. N, i - 1 \in Same PROVE i \in Same
    <3>1. F[i] = SubSeq(s, 1, i - 1) \o <<s[i]>>
      BY <1>2, <1>3, <2>1
    <3>2. SubSeq(s, 1, i - 1) \o <<s[i]>> = SubSeq(s, 1, i)
      OBVIOUS
    <3> QED
      BY <3>1, <3>2
  <2>2. 0 \in Same
    <3>1. SubSeq(s, 1, 0) = <<>> /\ 0 \in 0 .. N
      BY <1>1
    <3> QED
      BY <1>3, <3>1
  <2>3. N \in Nat
    BY <1>1
  <2> HIDE DEF Same
  <2> QED
    BY <2>1, <2>2, <2>3, UptoInduction
<1>5. F[N] = SubSeq(s, 1, N)
  <2>1. N \in 0 .. N
    BY <1>1
  <2> QED
    BY <1>4, <2>1
<1>6. SubSeq(s, 1, N) = s
  BY DEF N
<1> QED
  BY <1>3, <1>5, <1>6 DEF singles

\* Sequences grow from the empty one by appending.
LEMMA SequenceInduction ==
  ASSUME NEW D, NEW S, <<>> \in S, \A s \in Seq(D), x \in D : s \in S => Append(s, x) \in S
  PROVE  Seq(D) \subseteq S
<1> DEFINE Reached == {n \in Nat : \A s \in Seq(D) : Len(s) = n => s \in S}
<1>1. 0 \in Reached
  BY \A s \in Seq(D) : Len(s) = 0 => s = <<>>
<1>2. ASSUME NEW n \in Nat, n \in Reached PROVE n + 1 \in Reached
  <2> SUFFICES ASSUME NEW s \in Seq(D), Len(s) = n + 1 PROVE s \in S
    OBVIOUS
  <2> DEFINE front == [i \in 1 .. n |-> s[i]]
  <2>1. front \in Seq(D) /\ Len(front) = n /\ s[n + 1] \in D
    OBVIOUS
  <2>2. s = Append(front, s[n + 1])
    OBVIOUS
  <2> HIDE DEF front
  <2>3. front \in S
    BY <1>2, <2>1
  <2> QED
    BY <2>1, <2>2, <2>3
<1> HIDE DEF Reached
<1>3. Nat \subseteq Reached
  BY <1>1, <1>2, NaturalInduction
<1> QED
  BY <1>3, \A s \in Seq(D) : Len(s) \in Nat DEF Reached

\* Sequences are equal if their elements are.
LEMMA SameSequences ==
  ASSUME NEW D, NEW s \in Seq(D), NEW t \in Seq(D),
         Len(s) = Len(t), \A i \in 1 .. Len(s) : s[i] = t[i]
  PROVE  s = t
OBVIOUS

\* Concatenation.
LEMMA LenOfConcat ==
  ASSUME NEW D, NEW s \in Seq(D), NEW t \in Seq(D)
  PROVE  s \o t \in Seq(D) /\ Len(s \o t) = Len(s) + Len(t)
OBVIOUS

LEMMA ConcatAgain ==
  ASSUME NEW D, NEW s \in Seq(D), NEW t \in Seq(D), NEW u \in Seq(D)
  PROVE  (s \o t) \o u = s \o (t \o u)
OBVIOUS

LEMMA ConcatIs ==
  ASSUME NEW D, NEW s \in Seq(D), NEW t \in Seq(D), NEW u \in Seq(D), Len(u) = Len(s) + Len(t),
         \A i \in 1 .. Len(s) : u[i] = s[i], \A i \in 1 .. Len(t) : u[Len(s) + i] = t[i]
  PROVE  u = s \o t
<1>1. s \o t \in Seq(D) /\ Len(s \o t) = Len(u)
  OBVIOUS
<1>2. ASSUME NEW i \in 1 .. Len(u) PROVE (s \o t)[i] = u[i]
  <2>1. CASE i <= Len(s)
    BY <2>1
  <2>2. CASE i > Len(s)
    <3>1. i - Len(s) \in 1 .. Len(t) /\ Len(s) + (i - Len(s)) = i
      BY <2>2
    <3>2. u[Len(s) + (i - Len(s))] = t[i - Len(s)]
      BY <3>1
    <3> QED
      BY <2>2, <3>1, <3>2
  <2> QED
    BY <2>1, <2>2
<1> QED
  BY <1>1, <1>2, SameSequences

LEMMA ElementTyped ==
  ASSUME NEW D, NEW s \in Seq(D), NEW i \in DOMAIN s
  PROVE  s[i] \in D
OBVIOUS

\* A stretch of a sequence.
LEMMA SubSeqIs ==
  ASSUME NEW D, NEW s \in Seq(D), NEW a \in 1 .. Len(s) + 1, NEW b \in a - 1 .. Len(s)
  PROVE  /\ SubSeq(s, a, b) \in Seq(D) /\ Len(SubSeq(s, a, b)) = b - a + 1
         /\ \A m \in 1 .. b - a + 1 : SubSeq(s, a, b)[m] = s[a + m - 1]
OBVIOUS

\* u is s and then t.
Joins(u, s, t) ==
  /\ Len(u) = Len(s) + Len(t)
  /\ \A i \in 1 .. Len(s) : u[i] = s[i]
  /\ \A i \in 1 .. Len(t) : u[Len(s) + i] = t[i]

LEMMA ConcatJoins ==
  ASSUME NEW D, NEW s \in Seq(D), NEW t \in Seq(D)
  PROVE  Joins(s \o t, s, t) /\ s \o t \in Seq(D)
BY DEF Joins

LEMMA JoinsOnly ==
  ASSUME NEW D, NEW s \in Seq(D), NEW t \in Seq(D), NEW u \in Seq(D), Joins(u, s, t)
  PROVE  u = s \o t
BY ConcatIs DEF Joins

LEMMA ConcatNothing ==
  ASSUME NEW D, NEW s \in Seq(D)
  PROVE  s \o <<>> = s /\ <<>> \o s = s
OBVIOUS

LEMMA ConcatAppend ==
  ASSUME NEW D, NEW s \in Seq(D), NEW t \in Seq(D), NEW x \in D
  PROVE  s \o Append(t, x) = Append(s \o t, x)
OBVIOUS

LEMMA ConcatBetween ==
  ASSUME NEW D, NEW s \in Seq(D), NEW t \in Seq(D), NEW x \in D
  PROVE  Append(s, x) \o t = s \o (<<x>> \o t)
<1>1. Append(s, x) = s \o <<x>> /\ <<x>> \in Seq(D)
  OBVIOUS
<1>2. (s \o <<x>>) \o t = s \o (<<x>> \o t)
  BY <1>1, ConcatAgain
<1> QED
  BY <1>1, <1>2, Zenon

\* The first sequences, and then the others.
LEMMA FlattenConcat ==
  ASSUME NEW D, NEW a \in Seq(Seq(D)), NEW b \in Seq(Seq(D))
  PROVE  FlattenSeq(a \o b) = FlattenSeq(a) \o FlattenSeq(b)
<1> DEFINE Q == Seq(D)
           S == {c \in Seq(Q) : FlattenSeq(a \o c) = FlattenSeq(a) \o FlattenSeq(c)}
<1>1. FlattenSeq(a) \in Q
  BY FlattenTyped
<1>2. <<>> \in S
  <2>1. a \o <<>> = a /\ FlattenSeq(a) \o <<>> = FlattenSeq(a)
    BY <1>1, ConcatNothing
  <2>2. <<>> \in Seq(Q)
    OBVIOUS
  <2>3. FlattenSeq(a \o <<>>) = FlattenSeq(a) \o FlattenSeq(<<>>)
    BY <2>1, FlattenEmpty
  <2> HIDE DEF Q
  <2> QED
    BY <2>2, <2>3
<1>3. ASSUME NEW c \in Seq(Q), NEW x \in Q, c \in S PROVE Append(c, x) \in S
  <2>1. a \o Append(c, x) = Append(a \o c, x) /\ a \o c \in Seq(Q) /\ Append(c, x) \in Seq(Q)
    OBVIOUS
  <2>2. FlattenSeq(Append(a \o c, x)) = FlattenSeq(a \o c) \o x
    BY <2>1, FlattenAppend
  <2>3. FlattenSeq(Append(c, x)) = FlattenSeq(c) \o x /\ FlattenSeq(c) \in Q
    BY FlattenAppend, FlattenTyped
  <2>4. (FlattenSeq(a) \o FlattenSeq(c)) \o x = FlattenSeq(a) \o (FlattenSeq(c) \o x)
    BY <1>1, <2>3
  <2>5. FlattenSeq(a \o c) = FlattenSeq(a) \o FlattenSeq(c)
    BY <1>3
  <2>6. FlattenSeq(a \o Append(c, x)) = FlattenSeq(a) \o FlattenSeq(Append(c, x))
    BY <2>1, <2>2, <2>3, <2>4, <2>5, Zenon
  <2> QED
    BY <2>1, <2>6
<1>4. Seq(Q) \subseteq S
  <2> HIDE DEF S, Q
  <2> QED
    BY <1>2, <1>3, SequenceInduction
<1> QED
  BY <1>4

\* What is put together from sequences that are put together themselves.
LEMMA FlattenTwice ==
  ASSUME NEW D, NEW seqs \in Seq(Seq(Seq(D)))
  PROVE  FlattenSeq(FlattenSeq(seqs)) = FlattenSeq([i \in DOMAIN seqs |-> FlattenSeq(seqs[i])])
<1> DEFINE Q == Seq(D)
           R == Seq(Q)
           Each(c) == [i \in DOMAIN c |-> FlattenSeq(c[i])]
           S == {c \in Seq(R) : FlattenSeq(FlattenSeq(c)) = FlattenSeq(Each(c))}
<1>1. <<>> \in S
  <2>1. Each(<<>>) = <<>>
    OBVIOUS
  <2> HIDE DEF Each
  <2> QED
    BY <2>1, FlattenEmpty
<1>2. ASSUME NEW c \in Seq(R), NEW x \in R, c \in S PROVE Append(c, x) \in S
  <2>1. FlattenSeq(Append(c, x)) = FlattenSeq(c) \o x /\ FlattenSeq(c) \in R
    BY FlattenAppend, FlattenTyped
  <2>2. FlattenSeq(FlattenSeq(c) \o x) = FlattenSeq(FlattenSeq(c)) \o FlattenSeq(x)
    BY <2>1, FlattenConcat
  <2>3. FlattenSeq(x) \in Q /\ \A i \in DOMAIN c : FlattenSeq(c[i]) \in Q
    BY FlattenTyped
  <2>4. Each(c) \in Seq(Q) /\ Append(c, x) \in Seq(R)
    <3>1. DOMAIN c = 1 .. Len(c) /\ Len(c) \in Nat
      OBVIOUS
    <3> HIDE DEF Q, R
    <3> QED
      BY <2>3, <3>1
  <2>5. Each(Append(c, x)) = Append(Each(c), FlattenSeq(x))
    OBVIOUS
  <2> HIDE DEF Each
  <2>6. FlattenSeq(Append(Each(c), FlattenSeq(x))) = FlattenSeq(Each(c)) \o FlattenSeq(x)
    BY <2>3, <2>4, FlattenAppend DEF Q
  <2> HIDE DEF Q, R
  <2> QED
    BY <1>2, <2>1, <2>2, <2>4, <2>5, <2>6
<1>3. Seq(R) \subseteq S
  <2> HIDE DEF S, R
  <2> QED
    BY <1>1, <1>2, SequenceInduction
<1> QED
  BY <1>3

\* A function of each element.
Mapped(h, s) == [k \in DOMAIN s |-> h[s[k]]]
EachMapped(h, seqs) == [i \in DOMAIN seqs |-> Mapped(h, seqs[i])]

LEMMA MappedTyped ==
  ASSUME NEW D, NEW E, NEW h \in [D -> E], NEW s \in Seq(D)
  PROVE  /\ Mapped(h, s) \in Seq(E) /\ Len(Mapped(h, s)) = Len(s)
         /\ \A i \in 1 .. Len(s) : Mapped(h, s)[i] = h[s[i]]
BY DEF Mapped

MapsInto(h, s, E) ==
  /\ Mapped(h, s) \in Seq(E) /\ Len(Mapped(h, s)) = Len(s)
  /\ \A i \in 1 .. Len(s) : Mapped(h, s)[i] = h[s[i]]

LEMMA MappedInto ==
  ASSUME NEW D, NEW E, NEW h \in [D -> E], NEW s \in Seq(D)
  PROVE  MapsInto(h, s, E)
BY DEF Mapped, MapsInto

MapsMore(h, s, x) == Mapped(h, Append(s, x)) = Append(Mapped(h, s), h[x])

LEMMA MappedAppend ==
  ASSUME NEW D, NEW E, NEW h \in [D -> E], NEW s \in Seq(D), NEW x \in D
  PROVE  MapsMore(h, s, x)
<1>1. ASSUME NEW v \in Seq(D)
      PROVE  Mapped(h, v) \in Seq(E) /\ Len(Mapped(h, v)) = Len(v) /\ \A i \in 1 .. Len(v) : Mapped(h, v)[i] = h[v[i]]
  BY DEF Mapped
<1> DEFINE t == Append(s, x)
           u == Append(Mapped(h, s), h[x])
<1>2. t \in Seq(D) /\ Len(t) = Len(s) + 1 /\ t[Len(s) + 1] = x /\ \A i \in 1 .. Len(s) : t[i] = s[i]
  OBVIOUS
<1>3. u \in Seq(E) /\ Len(u) = Len(s) + 1 /\ u[Len(s) + 1] = h[x] /\ \A i \in 1 .. Len(s) : u[i] = h[s[i]]
  <2>1. Mapped(h, s) \in Seq(E) /\ Len(Mapped(h, s)) = Len(s) /\ \A i \in 1 .. Len(s) : Mapped(h, s)[i] = h[s[i]]
    BY <1>1
  <2> QED
    BY <2>1
<1> HIDE DEF t, u
<1>4. Mapped(h, t) \in Seq(E) /\ Len(Mapped(h, t)) = Len(t) /\ \A i \in 1 .. Len(t) : Mapped(h, t)[i] = h[t[i]]
  BY <1>1, <1>2
<1>5. \A i \in 1 .. Len(u) : Mapped(h, t)[i] = u[i]
  BY <1>2, <1>3, <1>4
<1>6. Mapped(h, t) = u
  BY <1>2, <1>3, <1>4, <1>5, SameSequences
<1> QED
  BY <1>6 DEF t, u, MapsMore

LEMMA MappedJoins ==
  ASSUME NEW D, NEW E, NEW h \in [D -> E],
         NEW s \in Seq(D), NEW t \in Seq(D), NEW u \in Seq(D), Joins(u, s, t)
  PROVE  Joins(Mapped(h, u), Mapped(h, s), Mapped(h, t))
<1>1. ASSUME NEW v \in Seq(D) PROVE Len(Mapped(h, v)) = Len(v) /\ \A i \in 1 .. Len(v) : Mapped(h, v)[i] = h[v[i]]
  BY DEF Mapped
<1>2. Len(Mapped(h, u)) = Len(Mapped(h, s)) + Len(Mapped(h, t))
  BY <1>1 DEF Joins
<1>3. ASSUME NEW i \in 1 .. Len(Mapped(h, s)) PROVE Mapped(h, u)[i] = Mapped(h, s)[i]
  <2>1. i \in 1 .. Len(u) /\ i \in 1 .. Len(s)
    BY <1>1 DEF Joins
  <2>2. u[i] = s[i]
    BY <2>1 DEF Joins
  <2> QED
    BY <1>1, <2>1, <2>2
<1>4. ASSUME NEW i \in 1 .. Len(Mapped(h, t)) PROVE Mapped(h, u)[Len(Mapped(h, s)) + i] = Mapped(h, t)[i]
  <2>1. Len(s) + i \in 1 .. Len(u) /\ i \in 1 .. Len(t) /\ Len(Mapped(h, s)) = Len(s)
    BY <1>1 DEF Joins
  <2>2. u[Len(s) + i] = t[i]
    BY <2>1 DEF Joins
  <2>3. Mapped(h, u)[Len(s) + i] = h[u[Len(s) + i]]
    BY <1>1, <2>1
  <2>4. Mapped(h, t)[i] = h[t[i]]
    BY <1>1, <2>1
  <2> QED
    BY <2>1, <2>2, <2>3, <2>4
<1> QED
  BY <1>2, <1>3, <1>4 DEF Joins

LEMMA MappedConcat ==
  ASSUME NEW D, NEW E, NEW h \in [D -> E],
         NEW s \in Seq(D), NEW t \in Seq(D), NEW u \in Seq(D), u = s \o t
  PROVE  Mapped(h, u) = Mapped(h, s) \o Mapped(h, t)
<1>1. Joins(u, s, t)
  BY ConcatJoins
<1>2. Joins(Mapped(h, u), Mapped(h, s), Mapped(h, t))
  BY <1>1, MappedJoins
<1>3. Mapped(h, s) \in Seq(E) /\ Mapped(h, t) \in Seq(E) /\ Mapped(h, u) \in Seq(E)
  BY MappedTyped
<1> QED
  BY <1>2, <1>3, JoinsOnly

\* Before or after they are put together.
LEMMA FlattenMapped ==
  ASSUME NEW D, NEW E, NEW h \in [D -> E], NEW seqs \in Seq(Seq(D))
  PROVE  Mapped(h, FlattenSeq(seqs)) = FlattenSeq(EachMapped(h, seqs))
<1> DEFINE Q == Seq(D)
           Map(s) == Mapped(h, s)
           Each(c) == EachMapped(h, c)
           S == {c \in Seq(Q) : Map(FlattenSeq(c)) = FlattenSeq(Each(c))}
<1>1. <<>> \in S
  <2>1. Each(<<>>) = <<>> /\ Map(<<>>) = <<>>
    BY DEF Mapped, EachMapped
  <2> HIDE DEF Each, Map
  <2> QED
    BY <2>1, FlattenEmpty
<1>2. ASSUME NEW s \in Q PROVE Map(s) \in Seq(E)
  BY DEF Mapped
<1> HIDE DEF Map
<1>3. ASSUME NEW c \in Seq(Q), NEW x \in Q, c \in S PROVE Append(c, x) \in S
  <2>1. FlattenSeq(Append(c, x)) = FlattenSeq(c) \o x /\ FlattenSeq(c) \in Q
    BY FlattenAppend, FlattenTyped
  <2>2. Map(FlattenSeq(Append(c, x))) = Map(FlattenSeq(c)) \o Map(x)
    <3>1. \A a \in Q, b \in Q, u \in Q : u = a \o b => Map(u) = Map(a) \o Map(b)
      BY MappedConcat DEF Map
    <3>2. FlattenSeq(Append(c, x)) \in Q
      BY <2>1, LenOfConcat
    <3> HIDE DEF Q
    <3> QED
      BY <1>3, <2>1, <3>1, <3>2, Zenon
  <2>3. Map(x) \in Seq(E) /\ \A i \in DOMAIN c : Map(c[i]) \in Seq(E)
    BY <1>2
  <2>4. Each(c) \in Seq(Seq(E)) /\ Append(c, x) \in Seq(Q)
    <3>1. DOMAIN c = 1 .. Len(c) /\ Len(c) \in Nat
      OBVIOUS
    <3> HIDE DEF Q, Map
    <3> QED
      BY <2>3, <3>1 DEF EachMapped, Map
  <2>5. Each(Append(c, x)) = Append(Each(c), Map(x))
    <3> HIDE DEF Map
    <3> QED
      BY DEF EachMapped, Map
  <2> HIDE DEF Each
  <2>6. FlattenSeq(Append(Each(c), Map(x))) = FlattenSeq(Each(c)) \o Map(x)
    BY <2>3, <2>4, FlattenAppend
  <2> HIDE DEF Q
  <2> QED
    BY <1>3, <2>1, <2>2, <2>4, <2>5, <2>6
<1>4. Seq(Q) \subseteq S
  <2> HIDE DEF S, Q
  <2> QED
    BY <1>1, <1>3, SequenceInduction
<1> QED
  BY <1>4 DEF Map

LEMMA UptoIs ==
  ASSUME NEW n \in Nat
  PROVE  /\ Upto(n) \in Seq(1 .. n) /\ Len(Upto(n)) = n /\ DOMAIN Upto(n) = 1 .. n
         /\ \A i \in 1 .. n : Upto(n)[i] = i
BY DEF Upto

-------------------------------------------------------------------------------
(* Among *)

\* What has been taken after each member.
LEMMA AmongTrace ==
  ASSUME NEW D, NEW seq \in Seq(D), NEW S
  PROVE  \E f \in [0 .. Len(seq) -> Seq(D)] :
           /\ f[0] = <<>> /\ f[Len(seq)] = Among(seq, S)
           /\ \A i \in 1 .. Len(seq) : f[i] = IF seq[i] \in S THEN Append(f[i - 1], seq[i]) ELSE f[i - 1]
<1> DEFINE N == Len(seq)
           Q == Seq(D)
           op(s, x) == IF x \in S THEN Append(s, x) ELSE s
           IsIter(g) == g = [t \in SUBSET DOMAIN seq |->
                               IF t = {} THEN <<>> ELSE op(g[t \ {Max(t)}], seq[Max(t)])]
           step == [i \in 1 .. N |-> [s \in Q |-> op(s, seq[i])]]
           iter == CHOOSE g : IsIter(g)
<1>1. N \in Nat /\ DOMAIN seq = 1 .. N
  OBVIOUS
<1>2. IsFold(N, Q, <<>>, step)
  <2>1. <<>> \in Q /\ step \in [1 .. N -> [Q -> Q]]
    OBVIOUS
  <2> QED
    BY <1>1, <2>1 DEF IsFold
<1>3. ASSUME NEW g, NEW t \in SUBSET (1 .. N), t # {}, g[t \ {Max(t)}] \in Q
      PROVE  step[Max(t)][g[t \ {Max(t)}]] = op(g[t \ {Max(t)}], seq[Max(t)])
  <2>1. Max(t) \in 1 .. N
    BY <1>1, <1>3, MaxOfUpto
  <2> HIDE DEF Q, N, op
  <2> QED
    BY <1>3, <2>1
<1>4. \E g : IsIter(g)
  <2>1. PICK h \in [SUBSET (1 .. N) -> Q] : Iterates(h, N, Q, <<>>, step)
    <3> HIDE DEF step, Q, N
    <3> QED
      BY <1>2, FoldExists
  <2> HIDE DEF op, N, Q, step
  <2>2. \A t \in SUBSET (1 .. N) : t # {} => h[t] = op(h[t \ {Max(t)}], seq[Max(t)])
    BY <1>3, <2>1 DEF Iterates
  <2>3. IsIter(h)
    BY <1>1, <2>1, <2>2 DEF Iterates
  <2> QED
    BY <2>3
<1>5. IsIter(iter)
  <2> HIDE DEF op
  <2> QED
    BY <1>4
<1>6. Among(seq, S) = iter[1 .. N]
  BY <1>1 DEF Among, FoldLeft, MapThenFoldSet
<1> HIDE DEF iter, op
<1>7. Iterates(iter, N, Q, <<>>, step)
  <2>1. iter[{}] = <<>>
    BY <1>5
  <2>2. ASSUME NEW t \in SUBSET (1 .. N), t # {}, iter[t \ {Max(t)}] \in Q
        PROVE  iter[t] = step[Max(t)][iter[t \ {Max(t)}]]
    <3>1. iter[t] = op(iter[t \ {Max(t)}], seq[Max(t)])
      BY <1>1, <1>5, <2>2
    <3> QED
      BY <1>3, <2>2, <3>1
  <2> QED
    BY <2>1, <2>2 DEF Iterates
<1>8. PICK f \in [0 .. N -> Q] : Traces(f, N, <<>>, step) /\ f[N] = iter[1 .. N]
  <2> HIDE DEF step, Q, N
  <2> QED
    BY <1>2, <1>7, FoldTraces
<1>9. ASSUME NEW i \in 1 .. N PROVE f[i] = op(f[i - 1], seq[i])
  <2>1. f[i] = step[i][f[i - 1]]
    BY <1>8 DEF Traces
  <2>2. i - 1 \in 0 .. N
    BY <1>1
  <2> HIDE DEF Q, N
  <2>3. f[i - 1] \in Q
    BY <1>8, <2>2
  <2> QED
    BY <2>1, <2>3
<1>10. f[0] = <<>>
  BY <1>8 DEF Traces
<1> QED
  BY <1>6, <1>8, <1>9, <1>10 DEF op

LEMMA AmongTyped ==
  ASSUME NEW D, NEW seq \in Seq(D), NEW S
  PROVE  Among(seq, S) \in Seq(D)
<1>1. PICK f \in [0 .. Len(seq) -> Seq(D)] : f[Len(seq)] = Among(seq, S)
  BY AmongTrace
<1>2. Len(seq) \in 0 .. Len(seq)
  OBVIOUS
<1> QED
  BY <1>1, <1>2

\* taken has members of seq, from first to last.
Picks(pos, taken, seq) ==
  /\ pos \in [1 .. Len(taken) -> 1 .. Len(seq)]
  /\ \A k \in 1 .. Len(taken) : taken[k] = seq[pos[k]]
  /\ \A j, k \in 1 .. Len(taken) : j < k => pos[j] < pos[k]

LEMMA PicksAppend ==
  ASSUME NEW D, NEW seq \in Seq(D), NEW taken \in Seq(D), NEW pos, NEW i \in 1 .. Len(seq),
         pos \in [1 .. Len(taken) -> 1 .. i - 1], Picks(pos, taken, seq)
  PROVE  \E p : /\ p \in [1 .. Len(Append(taken, seq[i])) -> 1 .. i]
                /\ Picks(p, Append(taken, seq[i]), seq)
<1> DEFINE n == Len(taken)
           new == Append(taken, seq[i])
           p == [k \in 1 .. n + 1 |-> IF k = n + 1 THEN i ELSE pos[k]]
<1>1. n \in Nat /\ i \in Nat /\ Len(seq) \in Nat /\ i <= Len(seq)
  OBVIOUS
<1>2. Len(new) = n + 1 /\ new[n + 1] = seq[i] /\ \A k \in 1 .. n : new[k] = taken[k]
  OBVIOUS
<1> HIDE DEF n, new
<1>3. \A k \in 1 .. n : pos[k] \in 1 .. i - 1 /\ taken[k] = seq[pos[k]]
  BY DEF Picks, n
<1>4. \A j, k \in 1 .. n : j < k => pos[j] < pos[k]
  BY DEF Picks, n
<1>5. p \in [1 .. n + 1 -> 1 .. i]
  BY <1>1, <1>3
<1>6. ASSUME NEW k \in 1 .. n + 1 PROVE new[k] = seq[p[k]]
  BY <1>1, <1>2, <1>3
<1>7. ASSUME NEW j \in 1 .. n + 1, NEW k \in 1 .. n + 1, j < k PROVE p[j] < p[k]
  BY <1>1, <1>3, <1>4, <1>7
<1>8. p \in [1 .. n + 1 -> 1 .. Len(seq)]
  BY <1>1, <1>5
<1> HIDE DEF p
<1>9. Picks(p, new, seq)
  BY <1>2, <1>6, <1>7, <1>8 DEF Picks
<1> QED
  BY <1>2, <1>5, <1>9 DEF new

\* What is taken are the members in S, in their order.
LEMMA AmongPicks ==
  ASSUME NEW D, NEW seq \in Seq(D), NEW S
  PROVE  LET taken == Among(seq, S) IN
         /\ taken \in Seq(D) /\ \A k \in 1 .. Len(taken) : taken[k] \in S
         /\ \E pos : Picks(pos, taken, seq)
         /\ \A i \in 1 .. Len(seq) : seq[i] \in S => \E k \in 1 .. Len(taken) : taken[k] = seq[i]
<1> DEFINE N == Len(seq)
<1>1. PICK f \in [0 .. N -> Seq(D)] :
        /\ f[0] = <<>> /\ f[N] = Among(seq, S)
        /\ \A i \in 1 .. N : f[i] = IF seq[i] \in S THEN Append(f[i - 1], seq[i]) ELSE f[i - 1]
  BY AmongTrace
<1> DEFINE Placed(i) == \E pos \in [1 .. Len(f[i]) -> 1 .. i] : Picks(pos, f[i], seq)
           In(i) == \A k \in 1 .. Len(f[i]) : f[i][k] \in S
           All(i) == \A j \in 1 .. i : seq[j] \in S => \E k \in 1 .. Len(f[i]) : f[i][k] = seq[j]
           Good == {i \in 0 .. N : Placed(i) /\ In(i) /\ All(i)}
<1>2. N \in Nat /\ N \in 0 .. N
  OBVIOUS
<1>3. 0 \in Good
  <2>1. Len(f[0]) = 0
    BY <1>1
  <2>2. Picks(<<>>, f[0], seq) /\ <<>> \in [1 .. Len(f[0]) -> 1 .. 0]
    BY <2>1 DEF Picks
  <2> QED
    BY <1>2, <2>1, <2>2
<1>4. ASSUME NEW i \in 1 .. N, i - 1 \in Good PROVE i \in Good
  <2>1. i \in 0 .. N /\ i - 1 \in 0 .. N /\ f[i - 1] \in Seq(D) /\ seq[i] \in D
    BY <1>2, <1>4
  <2>2. PICK pos \in [1 .. Len(f[i - 1]) -> 1 .. i - 1] : Picks(pos, f[i - 1], seq)
    BY <1>4
  <2>3. In(i - 1) /\ All(i - 1)
    BY <1>4
  <2>4. CASE seq[i] \notin S
    <3>1. f[i] = f[i - 1]
      BY <1>1, <2>4
    <3>2. pos \in [1 .. Len(f[i]) -> 1 .. i]
      BY <2>1, <2>2, <3>1
    <3>3. Placed(i)
      BY <2>2, <3>1, <3>2
    <3>4. In(i)
      BY <2>3, <3>1
    <3>5. All(i)
      <4> SUFFICES ASSUME NEW j \in 1 .. i, seq[j] \in S
                   PROVE  \E k \in 1 .. Len(f[i]) : f[i][k] = seq[j]
        OBVIOUS
      <4>1. j \in 1 .. i - 1
        BY <2>1, <2>4
      <4> QED
        BY <2>3, <3>1, <4>1
    <3> HIDE DEF Placed, In, All
    <3> QED
      BY <2>1, <3>3, <3>4, <3>5
  <2>5. CASE seq[i] \in S
    <3> DEFINE before == f[i - 1]
               n == Len(before)
    <3>1. f[i] = Append(before, seq[i]) /\ before \in Seq(D)
      BY <1>1, <2>1, <2>5
    <3>2. \E p : p \in [1 .. Len(Append(before, seq[i])) -> 1 .. i] /\ Picks(p, Append(before, seq[i]), seq)
      BY <2>1, <2>2, PicksAppend
    <3>3. Placed(i)
      BY <3>1, <3>2
    <3>4. Len(f[i]) = n + 1 /\ n \in Nat /\ f[i][n + 1] = seq[i] /\ \A k \in 1 .. n : f[i][k] = before[k]
      BY <2>1, <3>1
    <3>5. /\ \A k \in 1 .. n : before[k] \in S
          /\ \A j \in 1 .. i - 1 : seq[j] \in S => \E k \in 1 .. n : before[k] = seq[j]
      BY <2>3
    <3> HIDE DEF before, n, Placed
    <3>6. In(i)
      BY <2>5, <3>4, <3>5
    <3>7. All(i)
      <4> SUFFICES ASSUME NEW j \in 1 .. i, seq[j] \in S
                   PROVE  \E k \in 1 .. n + 1 : f[i][k] = seq[j]
        BY <3>4
      <4>1. CASE j = i
        BY <3>4, <4>1
      <4>2. CASE j # i
        <5>1. j \in 1 .. i - 1
          BY <2>1, <4>2
        <5>2. PICK k \in 1 .. n : before[k] = seq[j]
          BY <3>5, <5>1
        <5>3. k \in 1 .. n + 1 /\ f[i][k] = seq[j]
          BY <3>4, <5>2
        <5> QED
          BY <5>3
      <4> QED
        BY <4>1, <4>2
    <3> QED
      BY <2>1, <3>3, <3>6, <3>7
  <2> QED
    BY <2>4, <2>5
<1>5. N \in Good
  <2> HIDE DEF Good
  <2>1. 0 .. N \subseteq Good
    BY <1>2, <1>3, <1>4, UptoInduction
  <2> QED
    BY <1>2, <2>1
<1>6. PICK pos \in [1 .. Len(f[N]) -> 1 .. N] : Picks(pos, f[N], seq)
  BY <1>5
<1>7. In(N) /\ All(N) /\ f[N] \in Seq(D)
  BY <1>1, <1>2, <1>5
<1> QED
  BY <1>1, <1>6, <1>7

\* f is what has been taken after each member.
Takes(f, seq, S) ==
  /\ f[0] = <<>> /\ f[Len(seq)] = Among(seq, S)
  /\ \A i \in 1 .. Len(seq) : f[i] = IF seq[i] \in S THEN Append(f[i - 1], seq[i]) ELSE f[i - 1]

LEMMA AmongTakes ==
  ASSUME NEW D, NEW seq \in Seq(D), NEW S
  PROVE  \E f \in [0 .. Len(seq) -> Seq(D)] : Takes(f, seq, S)
BY AmongTrace DEF Takes

\* The last of some numbers has it, and each passes it on to the one before.
LEMMA DowntoInduction ==
  ASSUME NEW n \in Nat, NEW S, n \in S, \A i \in 1 .. n : i \in S => i - 1 \in S
  PROVE  0 .. n \subseteq S
<1> DEFINE T == {k \in 0 .. n : n - k \in S}
<1>1. 0 \in T
  OBVIOUS
<1>2. ASSUME NEW k \in 1 .. n, k - 1 \in T PROVE k \in T
  <2>1. n - (k - 1) \in S /\ n - (k - 1) \in 1 .. n /\ (n - (k - 1)) - 1 = n - k
    BY <1>2
  <2>2. n - k \in S
    BY <2>1
  <2> QED
    BY <2>2
<1>3. 0 .. n \subseteq T
  <2> HIDE DEF T
  <2> QED
    BY <1>1, <1>2, UptoInduction
<1>4. ASSUME NEW i \in 0 .. n PROVE i \in S
  <2>1. n - i \in 0 .. n /\ n - (n - i) = i
    OBVIOUS
  <2>2. n - i \in T
    BY <1>3, <2>1
  <2> QED
    BY <2>1, <2>2
<1> QED
  BY <1>4

-------------------------------------------------------------------------------
(* Where the parts of what is put together lie *)

Fronts(s, t) == Len(s) <= Len(t) /\ \A m \in 1 .. Len(s) : t[m] = s[m]

LEMMA FrontsOnly ==
  ASSUME NEW D, NEW s \in Seq(D), NEW t \in Seq(D), Fronts(s, t)
  PROVE  SubSeq(t, 1, Len(s)) = s
BY DEF Fronts

LEMMA FrontsItself ==
  ASSUME NEW D, NEW s \in Seq(D)
  PROVE  Fronts(s, s)
BY DEF Fronts

LEMMA FrontsOfConcat ==
  ASSUME NEW D, NEW s \in Seq(D), NEW t \in Seq(D), NEW u \in Seq(D), Fronts(u, s)
  PROVE  Fronts(u, s \o t) /\ Fronts(s, s \o t)
BY DEF Fronts

\* at[i] is where the i-th part ends.
Lies(at, seqs, flat) ==
  /\ at \in [0 .. Len(seqs) -> Nat] /\ at[0] = 0 /\ at[Len(seqs)] = Len(flat)
  /\ \A i \in 1 .. Len(seqs) :
       /\ at[i] = at[i - 1] + Len(seqs[i]) /\ at[i] <= Len(flat)
       /\ \A m \in 1 .. Len(seqs[i]) : flat[at[i - 1] + m] = seqs[i][m]
  /\ \A i \in 0 .. Len(seqs) : SubSeq(flat, 1, at[i]) = FlattenSeq(SubSeq(seqs, 1, i))

LEMMA FlattenLies ==
  ASSUME NEW D, NEW seqs \in Seq(Seq(D))
  PROVE  \E at : Lies(at, seqs, FlattenSeq(seqs))
<1> DEFINE N == Len(seqs)
           Q == Seq(D)
           flat == FlattenSeq(seqs)
<1>1. N \in Nat /\ \A i \in 1 .. N : seqs[i] \in Q
  OBVIOUS
<1>2. PICK F \in [0 .. N -> Q] :
        F[0] = <<>> /\ flat = F[N] /\ \A i \in 1 .. N : F[i] = F[i - 1] \o seqs[i]
  BY FlattenTrace
<1> HIDE DEF N, Q, flat
<1>3. \A i \in 0 .. N : Fronts(F[i], F[N])
  <2> DEFINE S == {j \in 0 .. N : \A i \in 0 .. j : Fronts(F[i], F[j])}
  <2>1. 0 \in S
    BY <1>1, <1>2 DEF Fronts
  <2>2. ASSUME NEW j \in 1 .. N, j - 1 \in S PROVE j \in S
    <3>0. j \in 0 .. N /\ j - 1 \in 0 .. N
      BY <1>1
    <3>1. F[j] = F[j - 1] \o seqs[j] /\ F[j - 1] \in Seq(D) /\ seqs[j] \in Seq(D) /\ F[j] \in Seq(D)
      BY <1>1, <1>2, <3>0, Zenon DEF Q
    <3>2. ASSUME NEW i \in 0 .. j PROVE Fronts(F[i], F[j])
      <4>1. CASE i = j
        BY <3>1, <4>1, FrontsItself
      <4>2. CASE i # j
        <5>1. i \in 0 .. j - 1 /\ i \in 0 .. N
          BY <1>1, <4>2
        <5>2. Fronts(F[i], F[j - 1]) /\ F[i] \in Seq(D)
          BY <1>2, <2>2, <5>1 DEF Q
        <5> QED
          BY <3>1, <5>2, FrontsOfConcat
      <4> QED
        BY <4>1, <4>2
    <3>3. j \in 0 .. N
      BY <1>1
    <3> QED
      BY <3>2, <3>3
  <2>3. 0 .. N \subseteq S
    <3> HIDE DEF S
    <3> QED
      BY <1>1, <2>1, <2>2, UptoInduction
  <2>4. N \in S
    BY <1>1, <2>3
  <2> QED
    BY <2>4
<1>4. \A i \in 0 .. N : F[i] = FlattenSeq(SubSeq(seqs, 1, i))
  <2> DEFINE S == {j \in 0 .. N : F[j] = FlattenSeq(SubSeq(seqs, 1, j))}
  <2>1. 0 \in S
    <3>1. SubSeq(seqs, 1, 0) = <<>>
      OBVIOUS
    <3>2. 0 \in 0 .. N
      BY <1>1
    <3> QED
      BY <1>2, <3>1, <3>2, FlattenEmpty, Zenon
  <2>2. ASSUME NEW j \in 1 .. N, j - 1 \in S PROVE j \in S
    <3>1. /\ SubSeq(seqs, 1, j) = Append(SubSeq(seqs, 1, j - 1), seqs[j])
          /\ SubSeq(seqs, 1, j - 1) \in Seq(Seq(D)) /\ seqs[j] \in Seq(D)
      BY DEF N
    <3>2. FlattenSeq(SubSeq(seqs, 1, j)) = FlattenSeq(SubSeq(seqs, 1, j - 1)) \o seqs[j]
      BY <3>1, FlattenAppend
    <3>4. j \in 0 .. N
      BY <1>1
    <3>3. F[j] = F[j - 1] \o seqs[j] /\ F[j - 1] = FlattenSeq(SubSeq(seqs, 1, j - 1))
      BY <1>2, <2>2, Zenon
    <3> QED
      BY <3>2, <3>3, <3>4, Zenon
  <2>3. 0 .. N \subseteq S
    <3> HIDE DEF S
    <3> QED
      BY <1>1, <2>1, <2>2, UptoInduction
  <2> QED
    BY <2>3
<1> DEFINE at == [i \in 0 .. N |-> Len(F[i])]
<1>5. at \in [0 .. N -> Nat] /\ at[0] = 0 /\ at[N] = Len(flat)
  <2>1. \A i \in 0 .. N : Len(F[i]) \in Nat
    BY <1>2 DEF Q
  <2>2. Len(F[0]) = 0 /\ Len(F[N]) = Len(flat) /\ 0 \in 0 .. N /\ N \in 0 .. N
    BY <1>1, <1>2
  <2> QED
    BY <2>1, <2>2
<1>6. ASSUME NEW i \in 1 .. N
      PROVE  /\ at[i] = at[i - 1] + Len(seqs[i]) /\ at[i] <= Len(flat)
             /\ \A m \in 1 .. Len(seqs[i]) : flat[at[i - 1] + m] = seqs[i][m]
  <2>1. i \in 0 .. N /\ i - 1 \in 0 .. N
    BY <1>1
  <2> DEFINE s == F[i - 1]
             t == seqs[i]
             u == F[i]
  <2>7. N \in 0 .. N
    BY <1>1
  <2>2. s \in Seq(D) /\ t \in Seq(D) /\ u \in Seq(D) /\ u = s \o t /\ flat \in Seq(D)
    BY <1>1, <1>2, <2>1, <2>7, Zenon DEF Q
  <2>3. Fronts(u, flat)
    BY <1>2, <1>3, <2>1
  <2>4. at[i] = Len(u) /\ at[i - 1] = Len(s)
    BY <2>1
  <2> HIDE DEF at, s, t, u
  <2>5. Len(u) = Len(s) + Len(t) /\ \A m \in 1 .. Len(t) : u[Len(s) + m] = t[m]
    BY <2>2
  <2>6. ASSUME NEW m \in 1 .. Len(t) PROVE flat[Len(s) + m] = t[m]
    <3>1. Len(s) + m \in 1 .. Len(u)
      BY <2>2, <2>5
    <3> QED
      BY <2>3, <2>5, <3>1 DEF Fronts
  <2> QED
    BY <2>3, <2>4, <2>5, <2>6 DEF Fronts, t
<1>7. ASSUME NEW i \in 0 .. N PROVE SubSeq(flat, 1, at[i]) = FlattenSeq(SubSeq(seqs, 1, i))
  <2>1. F[i] \in Seq(D) /\ flat \in Seq(D) /\ Fronts(F[i], flat)
    <3>1. N \in 0 .. N
      BY <1>1
    <3> QED
      BY <1>2, <1>3, <3>1 DEF Q
  <2>2. SubSeq(flat, 1, Len(F[i])) = F[i]
    BY <2>1, FrontsOnly
  <2> QED
    BY <1>4, <2>2
<1> HIDE DEF at
<1> QED
  BY <1>5, <1>6, <1>7 DEF Lies, N, flat

-------------------------------------------------------------------------------
(* Reading a stream from each of its places on *)

\* What is read at a place follows from what is read w[i] places behind it, up to
\* the end of the stream or a place that ends it.
IsScan(D, N, w, Ends, stop, step) ==
  /\ N \in Nat /\ w \in [Nat -> Nat \ {0}] /\ Ends \in SUBSET Nat
  /\ \A i \in Nat : i > N => i \in Ends
  /\ stop \in [Nat -> D] /\ step \in [Nat -> [D -> D]]

Scans(f, w, Ends, stop, step) ==
  \A i \in Nat : f[i] = IF i \in Ends THEN stop[i] ELSE step[i][f[i + w[i]]]

LEMMA ScanExists ==
  ASSUME NEW D, NEW N, NEW w, NEW Ends, NEW stop, NEW step, IsScan(D, N, w, Ends, stop, step)
  PROVE  \E f \in [Nat -> D] : Scans(f, w, Ends, stop, step)
<1> USE DEF IsScan, Scans
<1> DEFINE rank == [i \in Nat |-> IF i > N THEN 0 ELSE N + 1 - i]
           back == [i \in Nat \ Ends |-> i + w[i]]
           b == [i \in Ends |-> stop[i]]
           by == [i \in Nat \ Ends |-> step[i]]
<1>1. rank \in [Nat -> Nat]
  OBVIOUS
<1>2. back \in [Nat \ Ends -> Nat]
  OBVIOUS
<1>3. b \in [Ends -> D] /\ by \in [Nat \ Ends -> [D -> D]]
  OBVIOUS
<1>4. \A i \in Nat \ Ends : rank[back[i]] < rank[i]
  <2> SUFFICES ASSUME NEW i \in Nat \ Ends PROVE rank[back[i]] < rank[i]
    OBVIOUS
  <2>1. i <= N /\ i + w[i] \in Nat /\ i + w[i] > i /\ back[i] = i + w[i]
    OBVIOUS
  <2> HIDE DEF back
  <2> QED
    BY <2>1
<1>5. IsRecursion(Nat, D, Ends, rank, back, b, by)
  <2> HIDE DEF rank, back, b, by
  <2> QED
    BY <1>1, <1>2, <1>3, <1>4 DEF IsRecursion
<1>6. PICK f \in [Nat -> D] : Recurs(f, Nat, Ends, back, b, by)
  <2> HIDE DEF rank, back, b, by
  <2> QED
    BY <1>5, RecursionExists
<1> QED
  BY <1>6 DEF Recurs
===============================================================================
