---------------------------- MODULE AuthoringProofs ----------------------------
(***************************************************************************)
(* What is computed from a document to a drawn slide, for every document,  *)
(* edit and box: folds are unfolded into the values that they pass through *)
(* (Recursion), and what is said of them is shown from one to the next.    *)
(***************************************************************************)
EXTENDS Authoring, Recursion

-------------------------------------------------------------------------------
(* The rows that text takes *)

LEMMA HeightTyped ==
  ASSUME NEW p \in Nat, NEW size \in Nat \ {0}, NEW width \in Int
  PROVE  Height(p, size, width) \in Nat /\ Height(p, size, width) >= 1
<1> DEFINE fit == Most(1, width \div size)
<1>1. fit \in Nat \ {0}
  <2>1. width \div size \in Int
    OBVIOUS
  <2> QED
    BY <2>1 DEF Most
<1>2. Height(p, size, width) = Most(1, (p + fit - 1) \div fit)
  BY DEF Height
<1> HIDE DEF fit
<1>3. (p + fit - 1) \div fit \in Int
  BY <1>1
<1> QED
  BY <1>2, <1>3 DEF Most

\* The rows of the first paragraphs.
LEMMA RowsTrace ==
  ASSUME NEW seq \in Seq(Nat), NEW size \in Nat \ {0}, NEW width \in Int
  PROVE  \E f \in [0 .. Len(seq) -> Nat] :
           /\ f[0] = 0 /\ f[Len(seq)] = Rows(seq, size, width)
           /\ \A i \in 1 .. Len(seq) : f[i] = f[i - 1] + Height(seq[i], size, width)
<1> DEFINE N == Len(seq)
           Q == Nat
           op(s, x) == s + Height(x, size, width)
           IsIter(g) == g = [t \in SUBSET DOMAIN seq |->
                               IF t = {} THEN 0 ELSE op(g[t \ {Max(t)}], seq[Max(t)])]
           step == [i \in 1 .. N |-> [s \in Q |-> op(s, seq[i])]]
           iter == CHOOSE g : IsIter(g)
<1>1. N \in Nat /\ DOMAIN seq = 1 .. N
  OBVIOUS
<1>2. IsFold(N, Q, 0, step)
  <2>1. ASSUME NEW i \in 1 .. N PROVE Height(seq[i], size, width) \in Nat
    <3>1. seq[i] \in Nat
      OBVIOUS
    <3> QED
      BY <3>1, HeightTyped
  <2>2. step \in [1 .. N -> [Q -> Q]]
    BY <2>1
  <2> QED
    BY <1>1, <2>2 DEF IsFold
<1>3. ASSUME NEW g, NEW t \in SUBSET (1 .. N), t # {}, g[t \ {Max(t)}] \in Q
      PROVE  step[Max(t)][g[t \ {Max(t)}]] = op(g[t \ {Max(t)}], seq[Max(t)])
  <2>1. Max(t) \in 1 .. N
    BY <1>1, <1>3, MaxOfUpto
  <2> HIDE DEF Q, N, op
  <2> QED
    BY <1>3, <2>1
<1>4. \E g : IsIter(g)
  <2>1. PICK h \in [SUBSET (1 .. N) -> Q] : Iterates(h, N, Q, 0, step)
    <3> HIDE DEF step, Q, N
    <3> QED
      BY <1>2, FoldExists
  <2> HIDE DEF op, N, Q, step
  <2>2. \A t \in SUBSET (1 .. N) : t # {} => h[t] = op(h[t \ {Max(t)}], seq[Max(t)])
    BY <1>3, <2>1 DEF Iterates
  <2>3. IsIter(h)
    BY <1>1, <2>1, <2>2 DEF Iterates
  <2> QED
    BY <2>3
<1>5. IsIter(iter)
  <2> HIDE DEF op
  <2> QED
    BY <1>4
<1>6. Rows(seq, size, width) = iter[1 .. N]
  BY <1>1 DEF Rows, FoldLeft, MapThenFoldSet
<1> HIDE DEF iter, op
<1>7. Iterates(iter, N, Q, 0, step)
  <2>1. iter[{}] = 0
    BY <1>5
  <2>2. ASSUME NEW t \in SUBSET (1 .. N), t # {}, iter[t \ {Max(t)}] \in Q
        PROVE  iter[t] = step[Max(t)][iter[t \ {Max(t)}]]
    <3>1. iter[t] = op(iter[t \ {Max(t)}], seq[Max(t)])
      BY <1>1, <1>5, <2>2
    <3> QED
      BY <1>3, <2>2, <3>1
  <2> QED
    BY <2>1, <2>2 DEF Iterates
<1>8. PICK f \in [0 .. N -> Q] : Traces(f, N, 0, step) /\ f[N] = iter[1 .. N]
  <2> HIDE DEF step, Q, N
  <2> QED
    BY <1>2, <1>7, FoldTraces
<1>9. ASSUME NEW i \in 1 .. N PROVE f[i] = op(f[i - 1], seq[i])
  <2>1. f[i] = step[i][f[i - 1]]
    BY <1>8 DEF Traces
  <2>2. i - 1 \in 0 .. N
    BY <1>1
  <2> HIDE DEF Q, N
  <2>3. f[i - 1] \in Q
    BY <1>8, <2>2
  <2> QED
    BY <2>1, <2>3
<1>10. f[0] = 0
  BY <1>8 DEF Traces
<1> QED
  BY <1>6, <1>8, <1>9, <1>10 DEF op

\* R says for each place how many rows the text takes up to there.
IsRows(R, text, size, width) ==
  /\ R \in [0 .. Len(text) -> Nat] /\ R[0] = 0
  /\ \A i \in 1 .. Len(text) : R[i] = R[i - 1] + Height(text[i], size, width)

LEMMA RowsExist ==
  ASSUME NEW text \in Seq(Nat), NEW size \in Nat \ {0}, NEW width \in Int
  PROVE  \E R : IsRows(R, text, size, width)
<1>1. PICK f \in [0 .. Len(text) -> Nat] :
        /\ f[0] = 0 /\ f[Len(text)] = Rows(text, size, width)
        /\ \A i \in 1 .. Len(text) : f[i] = f[i - 1] + Height(text[i], size, width)
  BY RowsTrace
<1>2. IsRows(f, text, size, width)
  BY <1>1 DEF IsRows
<1> QED
  BY <1>2

LEMMA RowsOfPart ==
  ASSUME NEW text \in Seq(Nat), NEW size \in Nat \ {0}, NEW width \in Int,
         NEW R, IsRows(R, text, size, width),
         NEW a \in 0 .. Len(text), NEW b \in a .. Len(text)
  PROVE  /\ SubSeq(text, a + 1, b) \in Seq(Nat)
         /\ Rows(SubSeq(text, a + 1, b), size, width) = R[b] - R[a]
         /\ R[a] \in Nat /\ R[b] \in Nat /\ R[a] <= R[b]
<1> DEFINE part == SubSeq(text, a + 1, b)
           N == Len(text)
           n == b - a
<1>0. ASSUME NEW p \in Nat PROVE Height(p, size, width) \in Nat
  BY HeightTyped
<1>1. N \in Nat /\ n \in 0 .. N /\ a \in 0 .. N /\ a \in Nat /\ b \in Nat /\ a + n = b /\ b <= N
  OBVIOUS
<1>2. part \in Seq(Nat) /\ Len(part) = n
  OBVIOUS
<1>3. \A i \in 1 .. n : part[i] = text[a + i]
  OBVIOUS
<1> HIDE DEF part, n
<1>4. PICK f \in [0 .. n -> Nat] :
        /\ f[0] = 0 /\ f[n] = Rows(part, size, width)
        /\ \A i \in 1 .. n : f[i] = f[i - 1] + Height(part[i], size, width)
  <2>1. \E f \in [0 .. Len(part) -> Nat] :
          /\ f[0] = 0 /\ f[Len(part)] = Rows(part, size, width)
          /\ \A i \in 1 .. Len(part) : f[i] = f[i - 1] + Height(part[i], size, width)
    BY <1>2, RowsTrace
  <2> QED
    BY <1>2, <2>1
<1>5. R \in [0 .. N -> Nat] /\ \A i \in 1 .. N : R[i] = R[i - 1] + Height(text[i], size, width)
  BY DEF IsRows
<1> HIDE DEF N
<1> DEFINE Same == {i \in 0 .. n : R[a + i] = R[a] + f[i]}
<1>6. ASSUME NEW i \in 1 .. n, i - 1 \in Same PROVE i \in Same
  <2>1. a + i \in 1 .. N /\ i \in 0 .. n /\ i - 1 \in 0 .. n
    BY <1>1
  <2>2. (a + i) - 1 = a + (i - 1) /\ a + i \in 0 .. N /\ a + (i - 1) \in 0 .. N
    BY <1>1
  <2>3. R[a + i] = R[a + (i - 1)] + Height(text[a + i], size, width)
    BY <1>5, <2>1, <2>2
  <2>4. f[i] = f[i - 1] + Height(text[a + i], size, width)
    BY <1>3, <1>4
  <2>5. R[a + (i - 1)] = R[a] + f[i - 1]
    BY <1>6
  <2>6. text[a + i] \in Nat
    BY <2>1 DEF N
  <2>7. Height(text[a + i], size, width) \in Nat
    BY <2>6, <1>0
  <2>8. R[a] \in Nat /\ f[i - 1] \in Nat
    BY <1>1, <1>4, <1>5, <2>1
  <2>9. R[a + i] = R[a] + f[i]
    BY <2>3, <2>4, <2>5, <2>7, <2>8
  <2> QED
    BY <2>1, <2>9
<1>7. 0 \in Same
  <2>1. R[a] \in Nat /\ a + 0 = a /\ 0 \in 0 .. n
    BY <1>1, <1>5
  <2> QED
    BY <1>4, <2>1
<1>8. n \in Same
  <2>1. n \in Nat /\ n \in 0 .. n
    BY <1>1
  <2> HIDE DEF Same
  <2>2. 0 .. n \subseteq Same
    BY <1>6, <1>7, <2>1, UptoInduction
  <2> QED
    BY <2>1, <2>2
<1>9. R[b] = R[a] + f[n]
  BY <1>1, <1>8
<1>10. R[a] \in Nat /\ R[b] \in Nat /\ f[n] \in Nat
  BY <1>1, <1>4, <1>5
<1>11. part \in Seq(Nat) /\ Rows(part, size, width) = f[n]
  BY <1>2, <1>4
<1> HIDE DEF Same
<1>12. f[n] = R[b] - R[a] /\ R[a] <= R[b]
  BY <1>9, <1>10
<1> QED
  BY <1>10, <1>11, <1>12, Zenon DEF part

LEMMA InnerDifference ==
  ASSUME NEW a \in Nat, NEW b \in Nat, NEW c \in Nat, NEW d \in Nat, a <= b, b <= c, c <= d
  PROVE  c - b \in Nat /\ d - a \in Nat /\ c - b <= d - a
OBVIOUS

LEMMA TimesMonotone ==
  ASSUME NEW x \in Nat, NEW y \in Nat, NEW z \in Nat, x <= y
  PROVE  x * z <= y * z
<1>1. (y - x) * z >= 0
  OBVIOUS
<1>2. (y - x) * z = y * z - x * z
  OBVIOUS
<1> QED
  BY <1>1, <1>2

\* What fits also fits without its ends.
LEMMA PartsOfWhatFits ==
  ASSUME NEW text \in Seq(Nat), NEW size \in Nat \ {0}, NEW width \in Int, NEW height \in Nat,
         NEW a \in 0 .. Len(text), NEW d \in 0 .. Len(text),
         NEW b \in a .. d, NEW c \in b .. d,
         Fits(SubSeq(text, a + 1, d), size, width, height)
  PROVE  Fits(SubSeq(text, b + 1, c), size, width, height)
<1>1. PICK R : IsRows(R, text, size, width)
  BY RowsExist
<1>2. /\ b \in 0 .. Len(text) /\ c \in b .. Len(text) /\ d \in a .. Len(text)
      /\ b \in a .. Len(text) /\ d \in c .. Len(text) /\ c \in 0 .. Len(text)
  OBVIOUS
<1>3. /\ Rows(SubSeq(text, a + 1, d), size, width) = R[d] - R[a]
      /\ R[d] \in Nat /\ R[a] \in Nat /\ R[a] <= R[d]
  BY <1>1, <1>2, RowsOfPart
<1>4. /\ Rows(SubSeq(text, b + 1, c), size, width) = R[c] - R[b]
      /\ R[c] \in Nat /\ R[b] \in Nat /\ R[b] <= R[c]
  BY <1>1, <1>2, RowsOfPart
<1>10. SubSeq(text, b + 1, c) \in Seq(Nat)
  BY <1>1, <1>2, RowsOfPart
<1>5. R[a] <= R[b] /\ R[c] <= R[d]
  BY <1>1, <1>2, RowsOfPart
<1> DEFINE x == R[c] - R[b]
           y == R[d] - R[a]
<1>12. R[a] \in Nat /\ R[b] \in Nat /\ R[c] \in Nat /\ R[d] \in Nat /\ R[b] <= R[c] /\ R[a] <= R[d]
  BY <1>3, <1>4, Zenon
<1>6. x \in Nat /\ y \in Nat /\ x <= y
  BY <1>5, <1>12, InnerDifference, Zenon
<1>7. y * size <= height
  BY <1>3 DEF Fits
<1>11. Rows(SubSeq(text, b + 1, c), size, width) = x
  BY <1>4
<1> HIDE DEF x, y
<1>8. x * size <= y * size
  BY <1>6, TimesMonotone
<1>9. x * size <= height
  <2>1. x * size \in Int /\ y * size \in Int
    BY <1>6
  <2> QED
    BY <1>7, <1>8, <2>1
<1> QED
  BY <1>9, <1>11, Zenon DEF Fits

-------------------------------------------------------------------------------
(* The parts into which text flows *)

Pours == [parts : Seq(Seq(Nat)), current : Seq(Nat)]
Empty == [parts |-> <<>>, current |-> <<>>]

LEMMA PourTyped ==
  ASSUME NEW s \in Pours, NEW p \in Nat, NEW size, NEW width, NEW height
  PROVE  Pour(s, p, size, width, height) \in Pours
<1>1. s.parts \in Seq(Seq(Nat)) /\ s.current \in Seq(Nat)
  BY DEF Pours
<1>2. /\ Append(s.parts, s.current) \in Seq(Seq(Nat)) /\ <<p>> \in Seq(Nat)
      /\ Append(s.current, p) \in Seq(Nat)
  BY <1>1
<1>3. [parts |-> Append(s.parts, s.current), current |-> <<p>>] \in Pours
  BY <1>2 DEF Pours
<1>4. [s EXCEPT !.current = Append(s.current, p)] \in Pours
  BY <1>2 DEF Pours
<1> QED
  BY <1>3, <1>4 DEF Pour

\* The parts that are full and the one that is being filled.
LEMMA PouredTrace ==
  ASSUME NEW seq \in Seq(Nat), NEW size \in Nat \ {0}, NEW width \in Int, NEW height \in Nat
  PROVE  \E f \in [0 .. Len(seq) -> Pours] :
           /\ f[0] = Empty /\ f[Len(seq)] = Poured(seq, size, width, height)
           /\ \A i \in 1 .. Len(seq) : f[i] = Pour(f[i - 1], seq[i], size, width, height)
<1> DEFINE N == Len(seq)
           Q == Pours
           op(s, x) == Pour(s, x, size, width, height)
           IsIter(g) == g = [t \in SUBSET DOMAIN seq |->
                               IF t = {} THEN Empty ELSE op(g[t \ {Max(t)}], seq[Max(t)])]
           step == [i \in 1 .. N |-> [s \in Q |-> op(s, seq[i])]]
           iter == CHOOSE g : IsIter(g)
<1>1. N \in Nat /\ DOMAIN seq = 1 .. N
  OBVIOUS
<1>2. IsFold(N, Q, Empty, step)
  <2>1. Empty \in Q
    BY DEF Pours, Empty
  <2>2. \A i \in 1 .. N, s \in Q : op(s, seq[i]) \in Q
    BY PourTyped
  <2>3. step \in [1 .. N -> [Q -> Q]]
    BY <2>2
  <2> QED
    BY <1>1, <2>1, <2>3 DEF IsFold
<1>3. ASSUME NEW g, NEW t \in SUBSET (1 .. N), t # {}, g[t \ {Max(t)}] \in Q
      PROVE  step[Max(t)][g[t \ {Max(t)}]] = op(g[t \ {Max(t)}], seq[Max(t)])
  <2>1. Max(t) \in 1 .. N
    BY <1>1, <1>3, MaxOfUpto
  <2> HIDE DEF Q, N, op
  <2> QED
    BY <1>3, <2>1
<1>4. \E g : IsIter(g)
  <2>1. PICK h \in [SUBSET (1 .. N) -> Q] : Iterates(h, N, Q, Empty, step)
    <3> HIDE DEF step, Q, N
    <3> QED
      BY <1>2, FoldExists
  <2> HIDE DEF op, N, Q, step
  <2>2. \A t \in SUBSET (1 .. N) : t # {} => h[t] = op(h[t \ {Max(t)}], seq[Max(t)])
    BY <1>3, <2>1 DEF Iterates
  <2>3. IsIter(h)
    BY <1>1, <2>1, <2>2 DEF Iterates
  <2> QED
    BY <2>3
<1>5. IsIter(iter)
  <2> HIDE DEF op
  <2> QED
    BY <1>4
<1>6. Poured(seq, size, width, height) = iter[1 .. N]
  BY <1>1 DEF Poured, Empty, FoldLeft, MapThenFoldSet
<1> HIDE DEF iter, op
<1>7. Iterates(iter, N, Q, Empty, step)
  <2>1. iter[{}] = Empty
    BY <1>5
  <2>2. ASSUME NEW t \in SUBSET (1 .. N), t # {}, iter[t \ {Max(t)}] \in Q
        PROVE  iter[t] = step[Max(t)][iter[t \ {Max(t)}]]
    <3>1. iter[t] = op(iter[t \ {Max(t)}], seq[Max(t)])
      BY <1>1, <1>5, <2>2
    <3> QED
      BY <1>3, <2>2, <3>1
  <2> QED
    BY <2>1, <2>2 DEF Iterates
<1>8. PICK f \in [0 .. N -> Q] : Traces(f, N, Empty, step) /\ f[N] = iter[1 .. N]
  <2> HIDE DEF step, Q, N
  <2> QED
    BY <1>2, <1>7, FoldTraces
<1>9. ASSUME NEW i \in 1 .. N PROVE f[i] = op(f[i - 1], seq[i])
  <2>1. f[i] = step[i][f[i - 1]]
    BY <1>8 DEF Traces
  <2>2. i - 1 \in 0 .. N
    BY <1>1
  <2> HIDE DEF Q, N
  <2>3. f[i - 1] \in Q
    BY <1>8, <2>2
  <2> QED
    BY <2>1, <2>3
<1>10. f[0] = Empty
  BY <1>8 DEF Traces
<1> QED
  BY <1>6, <1>8, <1>9, <1>10 DEF op

LEMMA AppendToPart ==
  ASSUME NEW text \in Seq(Nat), NEW i \in 1 .. Len(text), NEW a \in 0 .. i - 1
  PROVE  /\ Append(SubSeq(text, a + 1, i - 1), text[i]) = SubSeq(text, a + 1, i)
         /\ Len(SubSeq(text, a + 1, i)) = i - a /\ SubSeq(text, a + 1, i) \in Seq(Nat)
<1>1. /\ SubSeq(text, a + 1, i) \in Seq(Nat) /\ Len(SubSeq(text, a + 1, i)) = i - a
      /\ SubSeq(text, a + 1, i - 1) \in Seq(Nat) /\ Len(SubSeq(text, a + 1, i - 1)) = i - 1 - a
  OBVIOUS
<1>2. Append(SubSeq(text, a + 1, i - 1), text[i]) = SubSeq(text, a + 1, i)
  OBVIOUS
<1> QED
  BY <1>1, <1>2

LEMMA PartsJoin ==
  ASSUME NEW text \in Seq(Nat), NEW c \in 0 .. Len(text), NEW b \in 0 .. c
  PROVE  SubSeq(text, 1, b) \o SubSeq(text, b + 1, c) = SubSeq(text, 1, c)
OBVIOUS

LEMMA WholePart ==
  ASSUME NEW text \in Seq(Nat)
  PROVE  SubSeq(text, 1, Len(text)) = text /\ SubSeq(text, 1, 0) = <<>>
OBVIOUS

\* f says for each place what is poured up to there.
IsPoured(f, text, size, width, height) ==
  /\ f \in [0 .. Len(text) -> Pours] /\ f[0] = Empty
  /\ \A i \in 1 .. Len(text) : f[i] = Pour(f[i - 1], text[i], size, width, height)

\* Where the part begins that is being filled.
From(f, i) == i - Len(f[i].current)

\* The full parts hold the text before that place, the open part what follows.
InOrder(f, i, text) ==
  /\ From(f, i) \in 0 .. i /\ (i > 0 => From(f, i) < i)
  /\ f[i].current = SubSeq(text, From(f, i) + 1, i)
  /\ FlattenSeq(f[i].parts) = SubSeq(text, 1, From(f, i))

LEMMA PouredInOrder ==
  ASSUME NEW text \in Seq(Nat), NEW size, NEW width, NEW height,
         NEW f, IsPoured(f, text, size, width, height)
  PROVE  \A i \in 0 .. Len(text) : InOrder(f, i, text)
<1> DEFINE N == Len(text)
           Good == {i \in 0 .. N : InOrder(f, i, text)}
<1>1. N \in Nat
  OBVIOUS
<1>2. 0 \in Good
  <2>1. f[0] = [parts |-> <<>>, current |-> <<>>]
    BY DEF IsPoured, Empty
  <2>2. f[0].parts = <<>> /\ f[0].current = <<>>
    BY <2>1
  <2>5. From(f, 0) = 0
    <3>1. Len(f[0].current) = Len(<<>>)
      BY <2>2
    <3>2. Len(<<>>) = 0
      OBVIOUS
    <3> DEFINE length == Len(f[0].current)
    <3>3. length = 0
      BY <3>1, <3>2
    <3> HIDE DEF length
    <3>4. 0 - length = 0
      BY <3>3
    <3> QED
      BY <3>4 DEF From, length
  <2>3. SubSeq(text, 1, 0) = <<>> /\ SubSeq(text, 0 + 1, 0) = <<>>
    OBVIOUS
  <2>4. InOrder(f, 0, text)
    <3>1. 0 \in 0 .. 0 /\ ~(0 > 0)
      OBVIOUS
    <3>2. FlattenSeq(f[0].parts) = <<>>
      BY <2>2, FlattenEmpty
    <3> QED
      BY <2>2, <2>3, <2>5, <3>1, <3>2 DEF InOrder
  <2> QED
    BY <1>1, <2>4
<1>3. ASSUME NEW i \in 1 .. N, i - 1 \in Good PROVE i \in Good
  <2> DEFINE s == f[i - 1]
             p == text[i]
             b == From(f, i - 1)
  <2>1. i \in 0 .. N /\ i - 1 \in 0 .. N /\ i - 1 \in Nat /\ p \in Nat
    BY <1>1
  <2>2. s.parts \in Seq(Seq(Nat)) /\ s.current \in Seq(Nat)
    BY <2>1 DEF IsPoured, Pours
  <2>3. /\ b \in 0 .. i - 1 /\ b = i - 1 - Len(s.current)
        /\ s.current = SubSeq(text, b + 1, i - 1)
        /\ FlattenSeq(s.parts) = SubSeq(text, 1, b)
    BY <1>3 DEF InOrder, From
  <2>4. f[i] = Pour(s, p, size, width, height)
    BY DEF IsPoured
  <2>5. CASE s.current # <<>> /\ ~Fits(Append(s.current, p), size, width, height)
    <3>1. f[i].parts = Append(s.parts, s.current) /\ f[i].current = <<p>>
      BY <2>4, <2>5 DEF Pour
    <3>2. From(f, i) = i - 1
      BY <3>1 DEF From
    <3>3. <<p>> = SubSeq(text, (i - 1) + 1, i)
      OBVIOUS
    <3>4. FlattenSeq(f[i].parts) = SubSeq(text, 1, b) \o SubSeq(text, b + 1, i - 1)
      <4>1. FlattenSeq(Append(s.parts, s.current)) = FlattenSeq(s.parts) \o s.current
        <5> HIDE DEF s
        <5> QED
          BY <2>2, FlattenAppend
      <4> QED
        BY <2>3, <3>1, <4>1, Zenon
    <3>5. FlattenSeq(f[i].parts) = SubSeq(text, 1, i - 1)
      <4>1. i - 1 \in 0 .. Len(text) /\ b \in 0 .. i - 1
        BY <2>1, <2>3
      <4> HIDE DEF b
      <4>2. SubSeq(text, 1, b) \o SubSeq(text, b + 1, i - 1) = SubSeq(text, 1, i - 1)
        BY <4>1, PartsJoin
      <4> QED
        BY <3>4, <4>2
    <3>6. InOrder(f, i, text)
      BY <2>1, <3>1, <3>2, <3>3, <3>5 DEF InOrder
    <3> QED
      BY <2>1, <3>6
  <2>6. CASE ~(s.current # <<>> /\ ~Fits(Append(s.current, p), size, width, height))
    <3>1. f[i].parts = s.parts /\ f[i].current = Append(s.current, p)
      <4>1. f[i] = [s EXCEPT !.current = Append(s.current, p)]
        BY <2>4, <2>6 DEF Pour
      <4>2. s \in Pours
        BY <2>1 DEF IsPoured
      <4> QED
        BY <4>1, <4>2 DEF Pours
    <3>2. Len(f[i].current) = Len(s.current) + 1
      BY <2>1, <2>2, <3>1
    <3>3. From(f, i) = b
      BY <2>1, <2>2, <2>3, <3>2 DEF From
    <3>4. f[i].current = SubSeq(text, b + 1, i)
      <4>1. b \in 0 .. i - 1 /\ s.current = SubSeq(text, b + 1, i - 1)
        BY <2>3
      <4> HIDE DEF b
      <4>2. Append(SubSeq(text, b + 1, i - 1), p) = SubSeq(text, b + 1, i)
        BY <4>1, AppendToPart
      <4> QED
        BY <3>1, <4>1, <4>2
    <3>5. b \in 0 .. i /\ b < i
      <4>1. b \in 0 .. i - 1
        BY <2>3
      <4> HIDE DEF b
      <4> QED
        BY <2>1, <4>1
    <3>6. FlattenSeq(f[i].parts) = SubSeq(text, 1, b)
      BY <2>3, <3>1
    <3> HIDE DEF b
    <3>7. InOrder(f, i, text)
      BY <3>3, <3>4, <3>5, <3>6 DEF InOrder
    <3> QED
      BY <2>1, <3>7
  <2> QED
    BY <2>5, <2>6
<1> HIDE DEF N, Good
<1>4. 0 .. N \subseteq Good
  BY <1>1, <1>2, <1>3, UptoInduction
<1> QED
  BY <1>4 DEF Good, N

LEMMA PouredExists ==
  ASSUME NEW text \in Seq(Nat), NEW size \in Nat \ {0}, NEW width \in Int, NEW height \in Nat
  PROVE  \E f : /\ IsPoured(f, text, size, width, height)
                /\ f[Len(text)] = Poured(text, size, width, height)
<1>1. PICK f \in [0 .. Len(text) -> Pours] :
        /\ f[0] = Empty /\ f[Len(text)] = Poured(text, size, width, height)
        /\ \A i \in 1 .. Len(text) : f[i] = Pour(f[i - 1], text[i], size, width, height)
  BY PouredTrace
<1>2. IsPoured(f, text, size, width, height)
  BY <1>1 DEF IsPoured
<1> QED
  BY <1>1, <1>2

LEMMA PartsTyped ==
  ASSUME NEW text \in Seq(Nat), NEW size \in Nat \ {0}, NEW width \in Int, NEW height \in Nat
  PROVE  Parts(text, size, width, height) \in Seq(Seq(Nat))
<1> DEFINE s == Poured(text, size, width, height)
<1>1. PICK f : IsPoured(f, text, size, width, height) /\ f[Len(text)] = s
  BY PouredExists
<1>2. s \in Pours
  <2>1. Len(text) \in 0 .. Len(text)
    OBVIOUS
  <2> QED
    BY <1>1, <2>1 DEF IsPoured
<1> HIDE DEF s
<1>3. Append(s.parts, s.current) \in Seq(Seq(Nat))
  BY <1>2 DEF Pours
<1> QED
  BY <1>3 DEF Parts, s

\* No paragraph is lost, repeated or moved.
LEMMA PartsKeepText ==
  ASSUME NEW text \in Seq(Nat), NEW size \in Nat \ {0}, NEW width \in Int, NEW height \in Nat
  PROVE  FlattenSeq(Parts(text, size, width, height)) = text
<1> DEFINE N == Len(text)
           s == Poured(text, size, width, height)
<1>1. PICK f : IsPoured(f, text, size, width, height) /\ f[N] = s
  BY PouredExists
<1>2. N \in 0 .. N
  OBVIOUS
<1>3. InOrder(f, N, text)
  BY <1>1, <1>2, PouredInOrder
<1>4. s.parts \in Seq(Seq(Nat)) /\ s.current \in Seq(Nat)
  <2>1. f[N] \in Pours
    BY <1>1, <1>2 DEF IsPoured
  <2> QED
    BY <1>1, <2>1 DEF Pours
<1> DEFINE b == From(f, N)
<1>5. /\ b \in 0 .. N /\ s.current = SubSeq(text, b + 1, N)
      /\ FlattenSeq(s.parts) = SubSeq(text, 1, b)
  BY <1>1, <1>3 DEF InOrder
<1> HIDE DEF s, b
<1>6. FlattenSeq(Append(s.parts, s.current)) = SubSeq(text, 1, b) \o SubSeq(text, b + 1, N)
  BY <1>4, <1>5, FlattenAppend
<1>7. FlattenSeq(Append(s.parts, s.current)) = SubSeq(text, 1, N)
  BY <1>2, <1>5, <1>6, PartsJoin
<1> QED
  BY <1>7, WholePart DEF Parts, s

-------------------------------------------------------------------------------
(* A text that can be cut so that every part fits *)

\* The parts end at t[1] .. t[k].
IsCut(t, k, text, size, width, height) ==
  /\ k \in Nat \ {0} /\ t \in [0 .. k -> 0 .. Len(text)]
  /\ t[0] = 0 /\ t[k] = Len(text)
  /\ \A j \in 1 .. k : /\ t[j - 1] < t[j]
                       /\ Fits(SubSeq(text, t[j - 1] + 1, t[j]), size, width, height)

\* No paragraph is too long for a part.
LEMMA CutOfOne ==
  ASSUME NEW text \in Seq(Nat), NEW size \in Nat \ {0}, NEW width \in Int, NEW height \in Nat,
         NEW t, NEW k, IsCut(t, k, text, size, width, height),
         NEW i \in 1 .. Len(text)
  PROVE  Fits(SubSeq(text, (i - 1) + 1, i), size, width, height)
<1> DEFINE N == Len(text)
           Beyond == {j \in 0 .. k : i <= t[j]}
<1>1. N \in Nat /\ i \in 1 .. N
  OBVIOUS
<1>2. k \in Nat \ {0} /\ t \in [0 .. k -> 0 .. N] /\ t[0] = 0 /\ t[k] = N
  BY DEF IsCut
<1>3. k \in Beyond /\ Beyond \subseteq Nat
  BY <1>1, <1>2
<1>4. PICK j \in Beyond : \A m \in Beyond : j <= m
  <2> HIDE DEF Beyond
  <2> QED
    BY <1>3, LeastNatural
<1>5. j \in 1 .. k /\ j - 1 \in 0 .. k /\ j \in 0 .. k
  BY <1>1, <1>2
<1>6. j - 1 \notin Beyond
  BY <1>4, <1>5
<1>7. t[j - 1] \in 0 .. N /\ t[j] \in 0 .. N
  BY <1>2, <1>5
<1>8. t[j - 1] < i /\ i <= t[j]
  BY <1>1, <1>5, <1>6, <1>7
<1>9. Fits(SubSeq(text, t[j - 1] + 1, t[j]), size, width, height)
  BY <1>5 DEF IsCut
<1> DEFINE a == t[j - 1]
           d == t[j]
<1>10. /\ a \in 0 .. N /\ d \in 0 .. N /\ i - 1 \in a .. d /\ i \in (i - 1) .. d
       /\ Fits(SubSeq(text, a + 1, d), size, width, height)
  BY <1>1, <1>7, <1>8, <1>9
<1> HIDE DEF a, d
<1> QED
  BY <1>10, PartsOfWhatFits

\* Pouring makes no more parts than the cut has, and each of them fits.
Within(f, i, t, k, size, width, height) ==
  /\ Len(f[i].parts) <= k /\ t[Len(f[i].parts)] <= From(f, i)
  /\ \A n \in DOMAIN f[i].parts : Fits(f[i].parts[n], size, width, height)
  /\ i > 0 => Fits(f[i].current, size, width, height)

LEMMA PouredWithin ==
  ASSUME NEW text \in Seq(Nat), NEW size \in Nat \ {0}, NEW width \in Int, NEW height \in Nat,
         NEW t, NEW k, IsCut(t, k, text, size, width, height),
         NEW f, IsPoured(f, text, size, width, height)
  PROVE  \A i \in 0 .. Len(text) : Within(f, i, t, k, size, width, height)
<1> DEFINE N == Len(text)
           Good == {i \in 0 .. N : Within(f, i, t, k, size, width, height)}
<1>1. N \in Nat
  OBVIOUS
<1>2. k \in Nat \ {0} /\ t \in [0 .. k -> 0 .. N] /\ t[0] = 0 /\ t[k] = N
  BY DEF IsCut
<1>3. 0 \in Good
  <2>1. f[0] = [parts |-> <<>>, current |-> <<>>]
    BY DEF IsPoured, Empty
  <2>2. f[0].parts = <<>>
    BY <2>1
  <2>3. From(f, 0) \in 0 .. 0
    BY <1>1, PouredInOrder DEF InOrder
  <2>4. Len(f[0].parts) = 0 /\ DOMAIN f[0].parts = {}
    BY <2>2
  <2>5. Within(f, 0, t, k, size, width, height)
    BY <1>2, <2>3, <2>4 DEF Within
  <2> QED
    BY <1>1, <2>5
<1>4. ASSUME NEW i \in 1 .. N, i - 1 \in Good PROVE i \in Good
  <2> DEFINE s == f[i - 1]
             p == text[i]
             b == From(f, i - 1)
             K == Len(s.parts)
  <2>1. i \in 0 .. N /\ i - 1 \in 0 .. N /\ p \in Nat /\ i > 0
    BY <1>1
  <2>2. s.parts \in Seq(Seq(Nat)) /\ s.current \in Seq(Nat) /\ s \in Pours
    BY <2>1 DEF IsPoured, Pours
  <2>3. InOrder(f, i - 1, text)
    BY <2>1, PouredInOrder
  <2>4. /\ b \in 0 .. i - 1 /\ s.current = SubSeq(text, b + 1, i - 1)
        /\ (i - 1 > 0 => b < i - 1)
    BY <2>3 DEF InOrder
  <2>5. /\ K <= k /\ t[K] <= b
        /\ \A n \in DOMAIN s.parts : Fits(s.parts[n], size, width, height)
        /\ i - 1 > 0 => Fits(s.current, size, width, height)
    BY <1>4 DEF Within
  <2>6. f[i] = Pour(s, p, size, width, height)
    BY DEF IsPoured
  <2>7. K \in 0 .. k /\ K < k
    <3>1. K \in 0 .. k
      BY <1>2, <2>2, <2>5
    <3>2. K # k
      <4>1. b < N /\ b \in Int
        BY <1>1, <2>1, <2>4
      <4> HIDE DEF b, K, N
      <4>2. ASSUME K = k PROVE FALSE
        <5>1. N <= b
          BY <1>2, <2>5, <4>2
        <5> QED
          BY <1>1, <4>1, <5>1
      <4> QED
        BY <4>2
    <3> QED
      BY <1>2, <3>1, <3>2
  <2>8. Append(s.current, p) = SubSeq(text, b + 1, i)
    <3>1. b \in 0 .. i - 1 /\ s.current = SubSeq(text, b + 1, i - 1)
      BY <2>4
    <3> HIDE DEF b
    <3>2. Append(SubSeq(text, b + 1, i - 1), p) = SubSeq(text, b + 1, i)
      BY <3>1, AppendToPart
    <3> QED
      BY <3>1, <3>2
  <2>9. <<p>> = SubSeq(text, (i - 1) + 1, i)
    OBVIOUS
  <2>10. Fits(<<p>>, size, width, height)
    BY <2>9, CutOfOne
  <2>11. CASE s.current # <<>> /\ ~Fits(Append(s.current, p), size, width, height)
    <3>1. f[i].parts = Append(s.parts, s.current) /\ f[i].current = <<p>>
      <4>1. Pour(s, p, size, width, height) = [parts |-> Append(s.parts, s.current), current |-> <<p>>]
        BY <2>11, Zenon DEF Pour
      <4> HIDE DEF s, p
      <4> QED
        BY <2>6, <4>1
    <3>2. From(f, i) = i - 1
      BY <3>1 DEF From
    <3>3. Len(f[i].parts) = K + 1
      BY <2>2, <3>1
    <3>4. K + 1 \in 0 .. k /\ K + 1 \in 1 .. k /\ (K + 1) - 1 = K
      <4>1. k \in Nat
        BY <1>2
      <4> HIDE DEF K
      <4> QED
        BY <2>7, <4>1
    <3>5. t[K + 1] <= i - 1
      <4> DEFINE a == t[K]
                 d == t[K + 1]
      <4>1. a \in 0 .. N /\ d \in 0 .. N /\ a <= b
        BY <1>2, <2>5, <2>7, <3>4
      <4>2. Fits(SubSeq(text, a + 1, d), size, width, height)
        BY <3>4 DEF IsCut
      <4> HIDE DEF a, d, b, N
      <4>3. ASSUME i <= d PROVE FALSE
        <5>1. b \in a .. d /\ i \in b .. d
          BY <2>1, <2>4, <4>1, <4>3, <1>1
        <5>2. Fits(SubSeq(text, b + 1, i), size, width, height)
          BY <4>1, <4>2, <5>1, PartsOfWhatFits DEF N
        <5> QED
          BY <2>8, <2>11, <5>2
      <4>4. d <= i - 1
        BY <1>1, <2>1, <4>1, <4>3
      <4> QED
        BY <4>4 DEF d
    <3>6. s.current # <<>> /\ i - 1 > 0
      BY <2>1, <2>4, <2>11
    <3>7. Fits(s.current, size, width, height)
      BY <2>5, <3>6
    <3>8. ASSUME NEW n \in DOMAIN f[i].parts
          PROVE  Fits(f[i].parts[n], size, width, height)
      <4>1. n \in DOMAIN s.parts \/ n = K + 1
        BY <2>2, <3>1, <3>3
      <4>2. CASE n \in DOMAIN s.parts
        <5>1. f[i].parts[n] = s.parts[n]
          BY <2>2, <3>1, <4>2
        <5> QED
          BY <2>5, <4>2, <5>1
      <4>3. CASE n = K + 1
        <5>1. f[i].parts[n] = s.current
          BY <2>2, <3>1, <4>3
        <5> QED
          BY <3>7, <5>1
      <4> QED
        BY <4>1, <4>2, <4>3
    <3>9. Len(f[i].parts) <= k /\ t[Len(f[i].parts)] <= From(f, i)
      BY <2>7, <3>2, <3>3, <3>4, <3>5
    <3>10. Within(f, i, t, k, size, width, height)
      BY <2>10, <3>1, <3>8, <3>9 DEF Within
    <3> QED
      BY <2>1, <3>10
  <2>12. CASE ~(s.current # <<>> /\ ~Fits(Append(s.current, p), size, width, height))
    <3>1. f[i].parts = s.parts /\ f[i].current = Append(s.current, p)
      <4>1. f[i] = [s EXCEPT !.current = Append(s.current, p)]
        BY <2>6, <2>12 DEF Pour
      <4> QED
        BY <2>2, <4>1 DEF Pours
    <3>2. Len(f[i].current) = Len(s.current) + 1
      BY <2>1, <2>2, <3>1
    <3>3. From(f, i) = b
      BY <2>1, <2>2, <3>2 DEF From
    <3>4. Fits(f[i].current, size, width, height)
      <4>1. CASE s.current = <<>>
        <5>1. f[i].current = <<p>>
          BY <2>1, <3>1, <4>1
        <5> QED
          BY <2>10, <5>1
      <4>2. CASE s.current # <<>>
        BY <2>12, <3>1, <4>2
      <4> QED
        BY <4>1, <4>2
    <3>5. Within(f, i, t, k, size, width, height)
      <4> HIDE DEF b
      <4>1. Len(f[i].parts) <= k /\ t[Len(f[i].parts)] <= From(f, i)
        BY <2>5, <3>1, <3>3
      <4>2. \A n \in DOMAIN f[i].parts : Fits(f[i].parts[n], size, width, height)
        BY <2>5, <3>1
      <4> QED
        BY <3>4, <4>1, <4>2 DEF Within
    <3> QED
      BY <2>1, <3>5
  <2> QED
    BY <2>11, <2>12
<1> HIDE DEF N, Good
<1>5. 0 .. N \subseteq Good
  BY <1>1, <1>3, <1>4, UptoInduction
<1> QED
  BY <1>5 DEF Good, N

\* If a text can be cut into so many parts that fit, then pouring does it.
LEMMA PartsOfCut ==
  ASSUME NEW text \in Seq(Nat), NEW size \in Nat \ {0}, NEW width \in Int, NEW height \in Nat,
         NEW t, NEW k, IsCut(t, k, text, size, width, height)
  PROVE  /\ Len(Parts(text, size, width, height)) <= k
         /\ \A n \in DOMAIN Parts(text, size, width, height) :
              Fits(Parts(text, size, width, height)[n], size, width, height)
<1> DEFINE N == Len(text)
           s == Poured(text, size, width, height)
           parts == Append(s.parts, s.current)
<1>1. PICK f : IsPoured(f, text, size, width, height) /\ f[N] = s
  BY PouredExists
<1>2. k \in Nat \ {0} /\ t \in [0 .. k -> 0 .. N] /\ t[k] = N /\ t[0] = 0 /\ t[1 - 1] < t[1]
  BY DEF IsCut
<1>3. N \in Nat /\ N > 0 /\ N \in 0 .. N
  <2>1. N \in Nat /\ 1 \in 0 .. k /\ t[1] \in 0 .. N /\ 1 - 1 = 0
    BY <1>2
  <2> QED
    BY <1>2, <2>1
<1>4. InOrder(f, N, text) /\ Within(f, N, t, k, size, width, height)
  BY <1>1, <1>3, PouredInOrder, PouredWithin
<1>5. s.parts \in Seq(Seq(Nat)) /\ s.current \in Seq(Nat)
  <2>1. f[N] \in Pours
    BY <1>1, <1>3 DEF IsPoured
  <2> QED
    BY <1>1, <2>1 DEF Pours
<1> DEFINE K == Len(s.parts)
           b == From(f, N)
<1>6. /\ K <= k /\ t[K] <= b /\ b \in 0 .. N /\ b < N
      /\ \A n \in DOMAIN s.parts : Fits(s.parts[n], size, width, height)
      /\ Fits(s.current, size, width, height)
  BY <1>1, <1>3, <1>4 DEF InOrder, Within
<1> HIDE DEF s, b
<1>7. K \in Nat /\ K # k
  BY <1>2, <1>3, <1>5, <1>6
<1>8. Len(parts) = K + 1 /\ DOMAIN parts = 1 .. K + 1 /\ DOMAIN s.parts = 1 .. K
  BY <1>5
<1>9. ASSUME NEW n \in 1 .. K + 1 PROVE Fits(parts[n], size, width, height)
  <2>1. CASE n \in 1 .. K
    <3>1. parts[n] = s.parts[n]
      BY <1>5, <2>1
    <3> QED
      BY <1>6, <1>8, <2>1, <3>1
  <2>2. CASE n = K + 1
    <3>1. parts[n] = s.current
      BY <1>5, <2>2
    <3> QED
      BY <1>6, <3>1
  <2> QED
    BY <1>7, <2>1, <2>2
<1>10. Parts(text, size, width, height) = parts
  BY DEF Parts, s
<1> HIDE DEF parts, K
<1>11. Len(parts) <= k
  BY <1>2, <1>6, <1>7, <1>8
<1> QED
  BY <1>8, <1>9, <1>10, <1>11

-------------------------------------------------------------------------------
(* text_layout *)

LEMMA DivMod ==
  ASSUME NEW d \in Nat \ {0}, NEW x \in Nat
  PROVE  /\ x \div d \in Nat /\ x % d \in 0 .. d - 1
         /\ x = d * (x \div d) + (x % d)
OBVIOUS

LEMMA DivModOf ==
  ASSUME NEW d \in Nat \ {0}, NEW q \in 0 .. 3, NEW r \in 0 .. d - 1, NEW x, x = d * q + r
  PROVE  x \div d = q /\ x % d = r
OBVIOUS

\* Every layout is tried once, in the order of their columns and then of their sizes.
LEMMA TriedLayouts ==
  ASSUME NEW preferred \in Nat, NEW minimum \in Nat \ {0}
  PROVE  LET tries == Tried(preferred, minimum) IN
         /\ DOMAIN tries \subseteq Nat
         /\ \A n \in DOMAIN tries :
              tries[n].columns \in 1 .. 4 /\ tries[n].size \in minimum .. preferred
         /\ \A columns \in 1 .. 4, size \in minimum .. preferred :
              \E m \in DOMAIN tries :
                /\ tries[m].columns = columns /\ tries[m].size = size
                /\ \A n \in DOMAIN tries :
                     columns < tries[n].columns
                       \/ (columns = tries[n].columns /\ size > tries[n].size) => m < n
<1> DEFINE d == preferred + 1 - minimum
           tries == Tried(preferred, minimum)
<1>1. d \in Int
  OBVIOUS
<1>2. DOMAIN tries = 1 .. 4 * d
  BY DEF Tried
<1>3. \A n \in 1 .. 4 * d : /\ tries[n].columns = ((n - 1) \div d) + 1
                            /\ tries[n].size = preferred - ((n - 1) % d)
  BY DEF Tried
<1> HIDE DEF tries
<1>4. ASSUME NEW n \in 1 .. 4 * d
      PROVE  /\ d \in Nat \ {0} /\ n - 1 \in Nat
             /\ (n - 1) \div d \in 0 .. 3 /\ (n - 1) % d \in 0 .. d - 1
             /\ n - 1 = d * ((n - 1) \div d) + ((n - 1) % d)
  <2> HIDE DEF d
  <2>1. d \in Nat \ {0} /\ n - 1 \in Nat /\ n - 1 < 4 * d
    BY <1>1
  <2> DEFINE q == (n - 1) \div d
             r == (n - 1) % d
  <2>2. q \in Nat /\ r \in 0 .. d - 1 /\ n - 1 = d * q + r
    BY <2>1, DivMod
  <2> HIDE DEF q, r
  <2>3. q < 4
    <3> SUFFICES ASSUME q >= 4 PROVE FALSE
      BY <2>2
    <3>1. 4 * d <= q * d
      BY <2>1, <2>2, TimesMonotone
    <3>2. d * q = q * d
      BY <2>1, <2>2
    <3> QED
      BY <2>1, <2>2, <3>1, <3>2
  <2> QED
    BY <2>1, <2>2, <2>3 DEF q, r
<1>5. ASSUME NEW n \in DOMAIN tries
      PROVE  tries[n].columns \in 1 .. 4 /\ tries[n].size \in minimum .. preferred
  <2>1. n \in 1 .. 4 * d
    BY <1>2
  <2> DEFINE q == (n - 1) \div d
             r == (n - 1) % d
  <2>2. q \in 0 .. 3 /\ r \in 0 .. d - 1
    BY <1>4, <2>1
  <2>3. tries[n].columns = q + 1 /\ tries[n].size = preferred - r
    BY <1>3, <2>1
  <2> HIDE DEF q, r
  <2> QED
    BY <2>2, <2>3
<1>6. ASSUME NEW columns \in 1 .. 4, NEW size \in minimum .. preferred
      PROVE  \E m \in DOMAIN tries :
               /\ tries[m].columns = columns /\ tries[m].size = size
               /\ \A n \in DOMAIN tries :
                    columns < tries[n].columns
                      \/ (columns = tries[n].columns /\ size > tries[n].size) => m < n
  <2> DEFINE c == columns - 1
             e == preferred - size
             m == d * c + e + 1
  <2>1. d \in Nat \ {0} /\ c \in 0 .. 3 /\ e \in 0 .. d - 1
    OBVIOUS
  <2>2. columns = c + 1 /\ size = preferred - e /\ e \in Nat
    OBVIOUS
  <2> HIDE DEF c, e, d
  <2>3. m \in 1 .. 4 * d /\ m - 1 = d * c + e
    <3>1. c = 0 \/ c = 1 \/ c = 2 \/ c = 3
      BY <2>1
    <3> QED
      BY <2>1, <3>1
  <2>4. (m - 1) \div d = c /\ (m - 1) % d = e
    BY <2>1, <2>3, DivModOf
  <2>5. tries[m].columns = columns /\ tries[m].size = size
    BY <1>3, <2>2, <2>3, <2>4
  <2>6. ASSUME NEW n \in DOMAIN tries,
               columns < tries[n].columns
                 \/ (columns = tries[n].columns /\ size > tries[n].size)
        PROVE  m < n
    <3> DEFINE q == (n - 1) \div d
               r == (n - 1) % d
    <3>1. n \in 1 .. 4 * d
      BY <1>2
    <3>2. q \in 0 .. 3 /\ r \in 0 .. d - 1 /\ n - 1 = d * q + r
      BY <1>4, <3>1
    <3>3. tries[n].columns = q + 1 /\ tries[n].size = preferred - r
      BY <1>3, <3>1
    <3> HIDE DEF q, r
    <3>4. c < q \/ (c = q /\ e < r)
      BY <2>1, <2>2, <2>6, <3>2, <3>3
    <3>5. CASE c = q /\ e < r
      BY <2>1, <3>1, <3>2, <3>5
    <3>6. CASE c < q
      <4>1. c + 1 \in Nat /\ q \in Nat /\ d \in Nat /\ c + 1 <= q
        BY <2>1, <3>2, <3>6
      <4>2. (c + 1) * d <= q * d
        BY <4>1, TimesMonotone
      <4>3. (c + 1) * d = d * c + d /\ q * d = d * q
        BY <2>1, <3>2
      <4>4. d * c \in Int /\ d * q \in Int
        BY <2>1, <3>2
      <4> QED
        BY <2>1, <3>1, <3>2, <4>2, <4>3, <4>4
    <3> QED
      BY <3>4, <3>5, <3>6
  <2>7. m \in DOMAIN tries
    BY <1>2, <2>3
  <2> HIDE DEF m
  <2> QED
    BY <2>5, <2>6, <2>7
<1>7. DOMAIN tries \subseteq Nat
  BY <1>1, <1>2
<1> QED
  BY <1>5, <1>6, <1>7 DEF tries

\* text_layout finds a layout if there is one, and none is better.
LEMMA LaidBest ==
  ASSUME NEW text \in Seq(Nat), NEW width \in Nat, NEW height \in Nat,
         NEW preferred \in Nat, NEW minimum \in Nat \ {0}
  PROVE  BestLayout(TextLayout(text, width, height, preferred, minimum),
                    text, width, height, preferred, minimum)
<1> DEFINE best == TextLayout(text, width, height, preferred, minimum)
           tries == Tried(preferred, minimum)
           At(columns) == ColumnWidth(width, columns)
           PartsOf(n) == Parts(text, tries[n].size, At(tries[n].columns), height)
           good == {n \in DOMAIN tries : Suits(PartsOf(n), tries[n], width, height)}
           first == CHOOSE n \in good : \A m \in good : n <= m
           Possible(columns, size) ==
             \E cut \in Cuts(text, columns) :
               Suits(cut, [columns |-> columns, size |-> size], width, height)
           Better(columns, size) ==
             columns < best.columns \/ (columns = best.columns /\ size > best.size)
<1>1. best = IF good = {} THEN [size |-> minimum, columns |-> 1, parts |-> <<text>>]
             ELSE [size |-> tries[first].size, columns |-> tries[first].columns,
                   parts |-> PartsOf(first)]
  BY DEF TextLayout
<1>2. BestLayout(best, text, width, height, preferred, minimum) =
        /\ FlattenSeq(best.parts) = text
        /\ \/ /\ Suits(best.parts, best, width, height)
              /\ \A columns \in 1 .. 4, size \in minimum .. preferred :
                   Better(columns, size) => ~Possible(columns, size)
           \/ /\ Len(best.parts) = 1 /\ best.size = minimum
              /\ \A columns \in 1 .. 4, size \in minimum .. preferred : ~Possible(columns, size)
  BY DEF BestLayout
<1> HIDE DEF best
<1>3. ASSUME NEW columns \in 1 .. 4 PROVE At(columns) \in Int
  BY DEF ColumnWidth
<1>4. ASSUME NEW columns \in 1 .. 4, NEW size \in minimum .. preferred, Possible(columns, size)
      PROVE  Suits(Parts(text, size, At(columns), height),
                   [columns |-> columns, size |-> size], width, height)
  <2> DEFINE w == At(columns)
             N == Len(text)
  <2>1. size \in Nat \ {0} /\ w \in Int /\ N \in Nat
    BY <1>3
  <2>2. PICK cut \in Cuts(text, columns) :
          Suits(cut, [columns |-> columns, size |-> size], width, height)
    BY <1>4
  <2> DEFINE CutsOf(k) ==
               {[i \in 1 .. k |-> SubSeq(text, f[i - 1] + 1, f[i])] :
                  f \in {f \in [0 .. k -> 0 .. N] :
                           f[0] = 0 /\ f[k] = N /\ \A i \in 1 .. k : f[i - 1] < f[i]}}
  <2>9. cut \in UNION {CutsOf(k) : k \in 1 .. columns}
    BY <2>2 DEF Cuts
  <2>10. PICK k \in 1 .. columns : cut \in CutsOf(k)
    <3> HIDE DEF CutsOf
    <3> QED
      BY <2>9
  <2>3. PICK t \in [0 .. k -> 0 .. N] :
          /\ t[0] = 0 /\ t[k] = N /\ \A i \in 1 .. k : t[i - 1] < t[i]
          /\ cut = [i \in 1 .. k |-> SubSeq(text, t[i - 1] + 1, t[i])]
    BY <2>10
  <2>4. \A i \in 1 .. k : Fits(SubSeq(text, t[i - 1] + 1, t[i]), size, w, height)
    <3>1. \A i \in DOMAIN cut : Fits(cut[i], size, w, height)
      BY <2>2 DEF Suits
    <3> QED
      BY <2>3, <3>1
  <2>5. IsCut(t, k, text, size, w, height)
    <3>1. k \in Nat \ {0}
      OBVIOUS
    <3> HIDE DEF N, w
    <3> QED
      BY <2>3, <2>4, <3>1 DEF IsCut, N
  <2> HIDE DEF w
  <2> DEFINE parts == Parts(text, size, w, height)
  <2>6. Len(parts) <= k /\ \A n \in DOMAIN parts : Fits(parts[n], size, w, height)
    BY <2>1, <2>5, PartsOfCut
  <2>7. Len(parts) \in Int
    BY <2>1, PartsTyped
  <2> HIDE DEF parts
  <2>8. Len(parts) <= columns
    BY <2>3, <2>6, <2>7
  <2> QED
    BY <2>6, <2>8 DEF Suits, w, parts
<1>5. /\ DOMAIN tries \subseteq Nat
      /\ \A n \in DOMAIN tries :
           tries[n].columns \in 1 .. 4 /\ tries[n].size \in minimum .. preferred
      /\ \A columns \in 1 .. 4, size \in minimum .. preferred :
           \E m \in DOMAIN tries :
             /\ tries[m].columns = columns /\ tries[m].size = size
             /\ \A n \in DOMAIN tries :
                  columns < tries[n].columns
                    \/ (columns = tries[n].columns /\ size > tries[n].size) => m < n
  BY TriedLayouts
<1> HIDE DEF tries
<1>6. ASSUME NEW columns \in 1 .. 4, NEW size \in minimum .. preferred, Possible(columns, size),
             NEW m \in DOMAIN tries, tries[m].columns = columns, tries[m].size = size
      PROVE  m \in good
  <2>1. Suits(PartsOf(m), [columns |-> columns, size |-> size], width, height)
    BY <1>4, <1>6
  <2>2. Suits(PartsOf(m), tries[m], width, height)
    BY <1>6, <2>1 DEF Suits
  <2> QED
    BY <2>2
<1> HIDE DEF Possible
<1>7. CASE good = {}
  <2>1. best = [size |-> minimum, columns |-> 1, parts |-> <<text>>]
    BY <1>1, <1>7
  <2>2. best.parts = <<text>> /\ best.size = minimum
    BY <2>1
  <2>3. FlattenSeq(best.parts) = text
    BY <2>2, FlattenOne
  <2>4. Len(best.parts) = 1
    BY <2>2
  <2> HIDE DEF good
  <2>5. ASSUME NEW columns \in 1 .. 4, NEW size \in minimum .. preferred, Possible(columns, size)
        PROVE  FALSE
    <3>1. PICK m \in DOMAIN tries :
            /\ tries[m].columns = columns /\ tries[m].size = size
            /\ \A n \in DOMAIN tries :
                 columns < tries[n].columns
                   \/ (columns = tries[n].columns /\ size > tries[n].size) => m < n
      BY <1>5
    <3>2. m \in good
      BY <1>6, <2>5, <3>1
    <3> QED
      BY <1>7, <3>2
  <2> QED
    BY <1>2, <2>2, <2>3, <2>4, <2>5 DEF best
<1>8. CASE good # {}
  <2>1. good \subseteq Nat
    BY <1>5
  <2>2. \E n \in good : \A m \in good : n <= m
    <3> HIDE DEF good
    <3> QED
      BY <1>8, <2>1, LeastNatural
  <2>3. first \in good /\ \A m \in good : first <= m
    <3> HIDE DEF good
    <3> QED
      BY <2>2
  <2>4. best = [size |-> tries[first].size, columns |-> tries[first].columns,
                parts |-> PartsOf(first)]
    BY <1>1, <1>8
  <2>5. first \in DOMAIN tries /\ Suits(PartsOf(first), tries[first], width, height)
    BY <2>3
  <2> HIDE DEF first, PartsOf, good, best
  <2>6. /\ best.parts = PartsOf(first)
        /\ best.size = tries[first].size /\ best.columns = tries[first].columns
    BY <2>4
  <2>7. tries[first].columns \in 1 .. 4 /\ tries[first].size \in Nat \ {0}
    <3>1. \A n \in DOMAIN tries :
             tries[n].columns \in 1 .. 4 /\ tries[n].size \in minimum .. preferred
      BY <1>5, Zenon
    <3>2. tries[first].columns \in 1 .. 4 /\ tries[first].size \in minimum .. preferred
      BY <2>5, <3>1, Zenon
    <3> DEFINE chosen == tries[first].size
    <3>3. chosen \in minimum .. preferred
      BY <3>2
    <3> HIDE DEF chosen
    <3>4. chosen \in Nat \ {0}
      BY <3>3
    <3> QED
      BY <3>2, <3>4, Zenon DEF chosen
  <2>8. FlattenSeq(best.parts) = text
    <3>1. At(tries[first].columns) \in Int
      BY <1>3, <2>7
    <3> HIDE DEF At
    <3> QED
      BY <2>6, <2>7, <3>1, PartsKeepText DEF PartsOf
  <2>9. Suits(best.parts, best, width, height)
    BY <2>5, <2>6 DEF Suits
  <2>10. ASSUME NEW columns \in 1 .. 4, NEW size \in minimum .. preferred,
                Better(columns, size), Possible(columns, size)
         PROVE  FALSE
    <3>1. PICK m \in DOMAIN tries :
            /\ tries[m].columns = columns /\ tries[m].size = size
            /\ \A n \in DOMAIN tries :
                 columns < tries[n].columns
                   \/ (columns = tries[n].columns /\ size > tries[n].size) => m < n
      BY <1>5
    <3>2. m < first
      BY <2>5, <2>6, <2>10, <3>1
    <3>3. m \in good
      BY <1>6, <2>10, <3>1
    <3>4. first <= m /\ m \in Nat /\ first \in Nat
      BY <2>1, <2>3, <3>3
    <3> QED
      BY <3>2, <3>4
  <2>11. \A columns \in 1 .. 4, size \in minimum .. preferred :
            Better(columns, size) => ~Possible(columns, size)
    BY <2>10
  <2> HIDE DEF Better
  <2> QED
    BY <1>2, <2>8, <2>9, <2>11 DEF best
<1> QED
  BY <1>7, <1>8 DEF best

-------------------------------------------------------------------------------
(* scene *)

LEMMA BlocksTyped ==
  ASSUME NEW slide \in AnySlide, NEW types
  PROVE  Blocks(slide, types) \in Seq(AnyBlock)
<1>1. slide.blocks \in Seq(AnyBlock)
  BY DEF AnySlide
<1> QED
  BY <1>1, AmongTyped DEF Blocks

LEMMA LinesTyped ==
  ASSUME NEW slide \in AnySlide
  PROVE  Lines(slide) \in Seq(AnyText)
<1> DEFINE texts == Blocks(slide, {"text"})
           all == [i \in DOMAIN texts |-> texts[i].lines]
<1>1. texts \in Seq(AnyBlock)
  BY BlocksTyped
<1>2. all \in Seq(Seq(AnyText))
  <2>1. \A b \in AnyBlock : b.lines \in Seq(AnyText)
    BY DEF AnyBlock
  <2> HIDE DEF texts
  <2>2. \A i \in 1 .. Len(texts) : texts[i].lines \in Seq(AnyText)
    BY <1>1, <2>1
  <2>3. DOMAIN texts = 1 .. Len(texts) /\ Len(texts) \in Nat
    BY <1>1
  <2> QED
    BY <2>2, <2>3
<1> HIDE DEF all
<1>3. FlattenSeq(all) \in Seq(AnyText)
  BY <1>2, FlattenTyped
<1>4. Without(FlattenSeq(all), <<>>) \in Seq(AnyText)
  BY <1>3, AmongTyped DEF Without
<1> QED
  BY <1>4 DEF Lines, all

LEMMA ColumnsKeepLines ==
  ASSUME NEW D, NEW lines \in Seq(D), Len(lines) > 1
  PROVE  FlattenSeq(Columns(lines)) = lines
<1> DEFINE N == Len(lines)
           c == Least(3, N)
           head == SubSeq(lines, 1, c - 1)
           tail == SubSeq(lines, c, N)
           singles == [i \in DOMAIN head |-> <<head[i]>>]
<1>1. N \in Nat /\ c \in 2 .. N
  BY DEF Least
<1> HIDE DEF c
<1>2. head \in Seq(D) /\ tail \in Seq(D) /\ Len(head) = c - 1
  BY <1>1
<1>3. \A i \in 1 .. c - 1 : head[i] = lines[i]
  BY <1>1
<1>4. head \o tail = lines
  BY <1>1
<1>5. DOMAIN head = 1 .. c - 1
  BY <1>1
<1> HIDE DEF head, tail, N
<1>6. FlattenSeq(singles) = head
  BY <1>2, FlattenSingles
<1>7. singles \in Seq(Seq(D)) /\ Len(singles) = c - 1
  <2>1. \A i \in 1 .. c - 1 : <<head[i]>> \in Seq(D)
    BY <1>2
  <2>2. c - 1 \in Nat
    BY <1>1
  <2>3. singles \in [1 .. c - 1 -> Seq(D)]
    BY <1>5, <2>1
  <2> HIDE DEF singles
  <2>4. singles \in Seq(Seq(D))
    BY <2>2, <2>3
  <2> QED
    BY <2>2, <2>3, <2>4
<1>8. FlattenSeq(Append(singles, tail)) = head \o tail
  BY <1>2, <1>6, <1>7, FlattenAppend
<1>9. \A i \in 1 .. c - 1 : singles[i] = <<lines[i]>>
  BY <1>3, <1>5
<1> HIDE DEF singles
<1>10. Columns(lines) = [i \in 1 .. c |-> IF i = c THEN tail ELSE <<lines[i]>>]
  BY DEF Columns, c, tail, N
<1>11. Columns(lines) = Append(singles, tail)
  <2>1. /\ Append(singles, tail) \in Seq(Seq(D)) /\ Len(Append(singles, tail)) = c
        /\ DOMAIN Append(singles, tail) = 1 .. c
    BY <1>1, <1>2, <1>7
  <2>2. Append(singles, tail)[c] = tail
    BY <1>1, <1>2, <1>7
  <2>3. ASSUME NEW i \in 1 .. c, i # c
        PROVE  Append(singles, tail)[i] = <<lines[i]>>
    <3>1. i \in 1 .. c - 1
      BY <1>1, <2>3
    <3>2. Append(singles, tail)[i] = singles[i]
      BY <1>2, <1>7, <3>1
    <3> QED
      BY <1>9, <3>1, <3>2
  <2> DEFINE both == Append(singles, tail)
  <2>4. both = [i \in 1 .. c |-> both[i]]
    <3>1. both \in Seq(Seq(D)) /\ DOMAIN both = 1 .. c
      BY <2>1
    <3> HIDE DEF both
    <3> QED
      BY <3>1
  <2>5. \A i \in 1 .. c : both[i] = IF i = c THEN tail ELSE <<lines[i]>>
    BY <2>2, <2>3
  <2> HIDE DEF both
  <2>6. [i \in 1 .. c |-> both[i]] = [i \in 1 .. c |-> IF i = c THEN tail ELSE <<lines[i]>>]
    BY <2>5
  <2> QED
    BY <1>10, <2>4, <2>6 DEF both
<1> QED
  BY <1>4, <1>8, <1>11

\* A scene keeps the lines of its slide.
LEMMA SceneKeeps ==
  ASSUME NEW slide \in AnySlide, NEW arrangement,
         "texts" \in DOMAIN Scene(slide, arrangement)
  PROVE  Keeps(slide, Scene(slide, arrangement))
<1> DEFINE lines == Lines(slide)
           kinds == Blocks(slide, {"table", "chart", "image"})
           layout == IF slide.layout = "key_points" /\ arrangement = "columns"
                          /\ Len(lines) \in 2 .. 3
                     THEN "comparison" ELSE slide.layout
           scene == Scene(slide, arrangement)
           Drawn(texts, blocks) == [texts |-> texts, blocks |-> blocks]
<1>1. scene = IF layout = "cover" THEN Drawn(<<lines>>, <<>>)
              ELSE IF Len(kinds) > 1 THEN [error |-> "PPT_SPLIT_STRUCTURED_BLOCKS_REQUIRED"]
              ELSE IF Len(kinds) = 1 THEN Drawn(IF lines = <<>> THEN <<>> ELSE <<lines>>, kinds)
              ELSE IF layout \in {"comparison", "process"} /\ Len(lines) > 1
                   THEN Drawn(Columns(lines), <<>>)
              ELSE Drawn([i \in DOMAIN lines |-> <<lines[i]>>], <<>>)
  BY DEF Scene
<1>2. lines \in Seq(AnyText) /\ kinds \in Seq(AnyBlock)
  BY LinesTyped, BlocksTyped
<1>3. layout = "cover" => slide.layout = "cover"
  OBVIOUS
<1>4. "texts" \in DOMAIN scene
  OBVIOUS
<1> SUFFICES /\ FlattenSeq(scene.texts) = lines
             /\ slide.layout # "cover" => scene.blocks = kinds
  BY DEF Keeps
<1> HIDE DEF lines, kinds, layout, scene
<1>5. CASE layout = "cover"
  <2>1. scene.texts = <<lines>>
    BY <1>1, <1>5
  <2> QED
    BY <1>2, <1>3, <1>5, <2>1, FlattenOne
<1>6. CASE layout # "cover" /\ Len(kinds) > 1
  <2>1. scene = [error |-> "PPT_SPLIT_STRUCTURED_BLOCKS_REQUIRED"]
    BY <1>1, <1>6
  <2> QED
    BY <1>4, <2>1
<1>7. CASE layout # "cover" /\ Len(kinds) = 1
  <2>1. scene.texts = (IF lines = <<>> THEN <<>> ELSE <<lines>>) /\ scene.blocks = kinds
    BY <1>1, <1>7
  <2>2. FlattenSeq(scene.texts) = lines
    BY <1>2, <2>1, FlattenOne, FlattenEmpty
  <2> QED
    BY <2>1, <2>2
<1>8. CASE layout # "cover" /\ ~(Len(kinds) > 1) /\ Len(kinds) # 1
  <2>1. kinds = <<>>
    <3>1. Len(kinds) \in Nat
      BY <1>2
    <3> DEFINE count == Len(kinds)
    <3>2. count # 1 /\ ~(count > 1) /\ count \in Nat
      BY <1>8, <3>1
    <3> HIDE DEF count
    <3>3. count = 0
      BY <3>2
    <3> QED
      BY <1>2, <3>3 DEF count
  <2>2. CASE layout \in {"comparison", "process"} /\ Len(lines) > 1
    <3>1. scene.texts = Columns(lines) /\ scene.blocks = <<>>
      BY <1>1, <1>8, <2>2
    <3> QED
      BY <1>2, <2>1, <2>2, <3>1, ColumnsKeepLines
  <2>3. CASE ~(layout \in {"comparison", "process"} /\ Len(lines) > 1)
    <3>1. scene.texts = [i \in DOMAIN lines |-> <<lines[i]>>] /\ scene.blocks = <<>>
      BY <1>1, <1>8, <2>3
    <3> QED
      BY <1>2, <2>1, <3>1, FlattenSingles
  <2> QED
    BY <2>2, <2>3
<1> QED
  BY <1>5, <1>6, <1>7, <1>8

-------------------------------------------------------------------------------
(* The types of what is cut *)

AnyPiece == [says : Sources \cup Places, from : Nat, size : Nat, latin : BOOLEAN]

\* Where the nodes of a doc stand.
Spots(doc) ==
  {p \in Places : p[1] \in DOMAIN doc /\ p[2] \in DOMAIN doc[p[1]].nodes}

ChunkOf(doc) ==
  [section : DOMAIN doc, type : {"text", "table", "image"}, text : Seq(AnyPiece), at : Spots(doc)]

CutState(doc) ==
  {s \in [done : Seq(ChunkOf(doc)), pending : Seq(AnyPiece), at : Spots(doc) \cup {None}] :
     s.pending = <<>> \/ s.at # None}

LEMMA LeastMost ==
  ASSUME NEW a \in Int, NEW b \in Int
  PROVE  /\ Least(a, b) \in Int /\ Least(a, b) <= a /\ Least(a, b) <= b
         /\ Least(a, b) = a \/ Least(a, b) = b
         /\ Most(a, b) \in Int /\ Most(a, b) >= a /\ Most(a, b) >= b
         /\ Most(a, b) = a \/ Most(a, b) = b
BY DEF Least, Most

LEMMA PiecesTyped ==
  ASSUME NEW sentence \in AnySentence
  PROVE  /\ Pieces(sentence) \in Seq(AnyPiece)
         /\ \A k \in DOMAIN Pieces(sentence) :
              Pieces(sentence)[k].says \in Sources /\ Pieces(sentence)[k].size <= ChunkTokens
<1> DEFINE C == ChunkTokens
           n == sentence.size
           q == (n + C - 1) \div C
           count == Most(1, q)
           Start(k) == (k - 1) * C
           piece(k) == [says |-> sentence.says, latin |-> sentence.latin,
                        from |-> Start(k), size |-> Least(C, n - Start(k))]
<1>1. /\ C \in Nat \ {0} /\ n \in Nat
      /\ sentence.says \in Sources /\ sentence.latin \in BOOLEAN
  BY ChunkingAssumption DEF AnySentence
<1>2. Pieces(sentence) = [k \in 1 .. count |-> piece(k)]
  BY DEF Pieces
<1> HIDE DEF C, n
<1>3. n + C - 1 \in Nat
  BY <1>1
<1>4. q \in Nat /\ (n + C - 1) % C \in 0 .. C - 1 /\ n + C - 1 = C * q + ((n + C - 1) % C)
  BY <1>1, <1>3, DivMod
<1> HIDE DEF q
<1>5. count \in Nat /\ (count = 1 \/ count = q)
  BY <1>4 DEF Most
<1>6. ASSUME NEW k \in 1 .. count
      PROVE  Start(k) \in Nat /\ n - Start(k) >= 0
  <2>1. k - 1 \in Nat /\ C \in Nat
    BY <1>1
  <2>2. Start(k) \in Nat
    <3> DEFINE j == k - 1
    <3> HIDE DEF j
    <3>1. j \in Nat => j * C \in Nat
      BY <2>1
    <3> QED
      BY <2>1, <3>1 DEF j
  <2>3. CASE k = 1
    BY <1>1, <2>3
  <2>4. CASE k # 1
    <3>1. count = q /\ k - 1 <= q - 1 /\ q - 1 \in Nat
      BY <1>4, <1>5, <2>4
    <3>2. (k - 1) * C <= (q - 1) * C
      BY <2>1, <3>1, TimesMonotone
    <3>3. (q - 1) * C = C * q - C /\ C * q \in Int
      BY <1>1, <1>4
    <3>4. C * q <= n + C - 1
      BY <1>1, <1>4
    <3> QED
      BY <1>1, <2>2, <3>2, <3>3, <3>4
  <2> QED
    BY <2>2, <2>3, <2>4
<1> HIDE DEF Start
<1>7. ASSUME NEW k \in 1 .. count
      PROVE  piece(k) \in AnyPiece /\ piece(k).says \in Sources /\ piece(k).size <= C
  <2> DEFINE m == n - Start(k)
  <2>1. m \in Nat /\ Start(k) \in Nat
    BY <1>1, <1>6
  <2> HIDE DEF m
  <2>2. Least(C, m) \in Nat /\ Least(C, m) <= C
    BY <1>1, <2>1 DEF Least
  <2> QED
    BY <1>1, <2>1, <2>2 DEF AnyPiece, m
<1> HIDE DEF piece, count
<1>8. [k \in 1 .. count |-> piece(k)] \in Seq(AnyPiece)
  BY <1>5, <1>7
<1> QED
  BY <1>2, <1>7, <1>8 DEF C

LEMMA NodeTyped ==
  ASSUME NEW doc \in Seq(AnySection), NEW i \in DOMAIN doc
  PROVE  /\ doc[i].heading \in AnyText /\ doc[i].nodes \in Seq(AnyNode)
         /\ Len(doc[i].nodes) \in Nat
         /\ DOMAIN doc[i].nodes = 1 .. Len(doc[i].nodes)
         /\ \A j \in 1 .. Len(doc[i].nodes) : doc[i].nodes[j] \in AnyNode
<1>1. doc[i] \in AnySection
  OBVIOUS
<1>2. doc[i].heading \in AnyText /\ doc[i].nodes \in Seq(AnyNode)
  BY <1>1 DEF AnySection, AnyText
<1> QED
  BY <1>2

LEMMA SpotOf ==
  ASSUME NEW doc \in Seq(AnySection), NEW i \in DOMAIN doc,
         NEW j \in 1 .. Len(doc[i].nodes)
  PROVE  <<i, j>> \in Spots(doc)
<1>1. i \in Nat /\ j \in Nat /\ j \in DOMAIN doc[i].nodes
  BY NodeTyped
<1> QED
  BY <1>1 DEF Spots, Places

LEMMA PiecesOfTyped ==
  ASSUME NEW node \in AnyNode
  PROVE  PiecesOf(node) \in Seq(AnyPiece)
<1> DEFINE all == [i \in DOMAIN node.text |-> Pieces(node.text[i])]
<1>1. node.text \in Seq(AnySentence)
  BY DEF AnyNode
<1>2. \A i \in DOMAIN node.text : Pieces(node.text[i]) \in Seq(AnyPiece)
  BY <1>1, PiecesTyped
<1>3. DOMAIN node.text = 1 .. Len(node.text) /\ Len(node.text) \in Nat
  BY <1>1
<1>4. all \in Seq(Seq(AnyPiece))
  BY <1>2, <1>3
<1> QED
  BY <1>4, FlattenTyped DEF PiecesOf

LEMMA FlushTyped ==
  ASSUME NEW doc \in Seq(AnySection), NEW s \in CutState(doc),
         NEW i \in DOMAIN doc
  PROVE  Flush(s, i) \in CutState(doc) /\ Flush(s, i).pending = <<>>
<1>1. CASE s.pending = <<>>
  BY <1>1 DEF Flush
<1>2. CASE s.pending # <<>>
  <2> DEFINE c == [section |-> i, type |-> "text", text |-> s.pending, at |-> s.at]
  <2>1. Flush(s, i) = [done |-> Append(s.done, c), pending |-> <<>>, at |-> None]
    BY <1>2 DEF Flush
  <2>5. /\ s.done \in Seq(ChunkOf(doc)) /\ s.at \in Spots(doc) \cup {None}
        /\ s.pending \in Seq(AnyPiece) /\ s.at # None
    BY <1>2 DEF CutState
  <2>6. s.at \in Spots(doc)
    BY <2>5
  <2>2. s.done \in Seq(ChunkOf(doc)) /\ s.at \in Spots(doc) /\ s.pending \in Seq(AnyPiece)
    BY <2>5, <2>6
  <2>3. c \in ChunkOf(doc)
    BY <2>2 DEF ChunkOf
  <2> HIDE DEF c
  <2>4. Append(s.done, c) \in Seq(ChunkOf(doc))
    BY <2>2, <2>3
  <2> QED
    BY <2>1, <2>4 DEF CutState
<1> QED
  BY <1>1, <1>2

LEMMA AddPieceTyped ==
  ASSUME NEW doc \in Seq(AnySection), NEW s \in CutState(doc),
         NEW place \in Spots(doc), NEW piece \in AnyPiece
  PROVE  AddPiece(s, place, piece) \in CutState(doc)
<1> DEFINE full == TokenCount(Append(s.pending, piece)) > ChunkTokens
           room == IF full THEN Flush(s, place[1]) ELSE s
           at == IF room.at = None THEN place ELSE room.at
<1>1. place[1] \in DOMAIN doc
  BY DEF Spots
<1>2. room \in CutState(doc)
  BY <1>1, FlushTyped
<1>3. AddPiece(s, place, piece) = [room EXCEPT !.at = at, !.pending = Append(room.pending, piece)]
  BY DEF AddPiece
<1> HIDE DEF room
<1>4. room.pending \in Seq(AnyPiece) /\ room.at \in Spots(doc) \cup {None}
  BY <1>2 DEF CutState
<1>5. at \in Spots(doc) /\ at # None
  <2>1. None \notin Spots(doc)
    BY PlacesAssumption DEF Spots
  <2> QED
    BY <1>4, <2>1
<1>6. Append(room.pending, piece) \in Seq(AnyPiece)
  BY <1>4
<1> HIDE DEF at
<1> QED
  BY <1>2, <1>3, <1>5, <1>6 DEF CutState

\* What is cut after each of the pieces.
LEMMA AddPiecesTrace ==
  ASSUME NEW doc \in Seq(AnySection), NEW s0 \in CutState(doc),
         NEW place \in Spots(doc), NEW seq \in Seq(AnyPiece)
  PROVE  \E f \in [0 .. Len(seq) -> CutState(doc)] :
           /\ f[0] = s0 /\ f[Len(seq)] = AddPieces(s0, place, seq)
           /\ \A i \in 1 .. Len(seq) : f[i] = AddPiece(f[i - 1], place, seq[i])
<1> DEFINE N == Len(seq)
           Q == CutState(doc)
           op(s, x) == AddPiece(s, place, x)
           IsIter(g) == g = [t \in SUBSET DOMAIN seq |->
                               IF t = {} THEN s0 ELSE op(g[t \ {Max(t)}], seq[Max(t)])]
           step == [i \in 1 .. N |-> [s \in Q |-> op(s, seq[i])]]
           iter == CHOOSE g : IsIter(g)
<1>1. N \in Nat /\ DOMAIN seq = 1 .. N
  OBVIOUS
<1>2. IsFold(N, Q, s0, step)
  <2>1. s0 \in Q
    OBVIOUS
  <2>2. ASSUME NEW i \in 1 .. N, NEW s \in Q PROVE op(s, seq[i]) \in Q
    BY AddPieceTyped
  <2> HIDE DEF op, Q, N
  <2>3. step \in [1 .. N -> [Q -> Q]]
    BY <2>2
  <2> QED
    BY <1>1, <2>1, <2>3 DEF IsFold
<1>3. ASSUME NEW g, NEW t \in SUBSET (1 .. N), t # {}, g[t \ {Max(t)}] \in Q
      PROVE  step[Max(t)][g[t \ {Max(t)}]] = op(g[t \ {Max(t)}], seq[Max(t)])
  <2>1. Max(t) \in 1 .. N
    BY <1>1, <1>3, MaxOfUpto
  <2> HIDE DEF Q, N, op
  <2> QED
    BY <1>3, <2>1
<1>4. \E g : IsIter(g)
  <2>1. PICK h \in [SUBSET (1 .. N) -> Q] : Iterates(h, N, Q, s0, step)
    <3> HIDE DEF step, Q, N
    <3> QED
      BY <1>2, FoldExists
  <2> HIDE DEF op, N, Q, step
  <2>2. \A t \in SUBSET (1 .. N) : t # {} => h[t] = op(h[t \ {Max(t)}], seq[Max(t)])
    BY <1>3, <2>1 DEF Iterates
  <2>3. IsIter(h)
    BY <1>1, <2>1, <2>2 DEF Iterates
  <2> QED
    BY <2>3
<1>5. IsIter(iter)
  <2> HIDE DEF op
  <2> QED
    BY <1>4
<1>6. AddPieces(s0, place, seq) = iter[1 .. N]
  BY <1>1 DEF AddPieces, FoldLeft, MapThenFoldSet
<1> HIDE DEF iter, op
<1>7. Iterates(iter, N, Q, s0, step)
  <2>1. iter[{}] = s0
    BY <1>5
  <2>2. ASSUME NEW t \in SUBSET (1 .. N), t # {}, iter[t \ {Max(t)}] \in Q
        PROVE  iter[t] = step[Max(t)][iter[t \ {Max(t)}]]
    <3>1. iter[t] = op(iter[t \ {Max(t)}], seq[Max(t)])
      BY <1>1, <1>5, <2>2
    <3> QED
      BY <1>3, <2>2, <3>1
  <2> QED
    BY <2>1, <2>2 DEF Iterates
<1>8. PICK f \in [0 .. N -> Q] : Traces(f, N, s0, step) /\ f[N] = iter[1 .. N]
  <2> HIDE DEF step, Q, N
  <2> QED
    BY <1>2, <1>7, FoldTraces
<1>9. ASSUME NEW i \in 1 .. N PROVE f[i] = op(f[i - 1], seq[i])
  <2>1. f[i] = step[i][f[i - 1]]
    BY <1>8 DEF Traces
  <2>2. i - 1 \in 0 .. N
    BY <1>1
  <2> HIDE DEF Q, N
  <2>3. f[i - 1] \in Q
    BY <1>8, <2>2
  <2> QED
    BY <2>1, <2>3
<1>10. f[0] = s0
  BY <1>8 DEF Traces
<1> QED
  BY <1>6, <1>8, <1>9, <1>10 DEF op

LEMMA AddPiecesTyped ==
  ASSUME NEW doc \in Seq(AnySection), NEW s \in CutState(doc),
         NEW place \in Spots(doc), NEW seq \in Seq(AnyPiece)
  PROVE  AddPieces(s, place, seq) \in CutState(doc)
<1>1. PICK f \in [0 .. Len(seq) -> CutState(doc)] : f[Len(seq)] = AddPieces(s, place, seq)
  BY AddPiecesTrace
<1>2. Len(seq) \in 0 .. Len(seq)
  OBVIOUS
<1> QED
  BY <1>1, <1>2

\* What a table or an image says as one chunk.
Own(node, place) ==
  IF node.text = <<>> THEN <<Placeholder(place)>>
  ELSE [i \in DOMAIN node.text |->
          [says |-> node.text[i].says, latin |-> node.text[i].latin,
           from |-> 0, size |-> node.text[i].size]]

LEMMA OwnTyped ==
  ASSUME NEW node \in AnyNode, NEW place \in Places
  PROVE  Own(node, place) \in Seq(AnyPiece)
<1>1. node.text \in Seq(AnySentence)
  BY DEF AnyNode
<1>2. Placeholder(place) \in AnyPiece
  BY ChunkingAssumption DEF Placeholder, AnyPiece
<1>3. ASSUME NEW i \in DOMAIN node.text
      PROVE  [says |-> node.text[i].says, latin |-> node.text[i].latin,
              from |-> 0, size |-> node.text[i].size] \in AnyPiece
  <2>1. node.text[i] \in AnySentence
    BY <1>1
  <2> QED
    BY <2>1 DEF AnySentence, AnyPiece
<1>4. DOMAIN node.text = 1 .. Len(node.text) /\ Len(node.text) \in Nat
  BY <1>1
<1>5. [i \in DOMAIN node.text |->
         [says |-> node.text[i].says, latin |-> node.text[i].latin,
          from |-> 0, size |-> node.text[i].size]] \in Seq(AnyPiece)
  BY <1>3, <1>4
<1>6. <<Placeholder(place)>> \in Seq(AnyPiece)
  BY <1>2
<1> QED
  BY <1>5, <1>6 DEF Own

LEMMA AddNodeTyped ==
  ASSUME NEW doc \in Seq(AnySection), NEW s \in CutState(doc),
         NEW place \in Spots(doc), NEW node \in AnyNode
  PROVE  AddNode(s, place, node) \in CutState(doc)
<1>1. CASE node.type \in Structured
  <2> DEFINE closed == Flush(s, place[1])
             c == [section |-> place[1], type |-> node.type, text |-> Own(node, place), at |-> place]
  <2>1. AddNode(s, place, node) = [closed EXCEPT !.done = Append(closed.done, c)]
    BY <1>1 DEF AddNode, Own
  <2>2. place[1] \in DOMAIN doc /\ place \in Places
    BY DEF Spots
  <2>3. closed \in CutState(doc)
    BY <2>2, FlushTyped
  <2>4. c \in ChunkOf(doc)
    <3>1. Own(node, place) \in Seq(AnyPiece) /\ node.type \in {"text", "table", "image"}
      BY <1>1, <2>2, OwnTyped DEF Structured
    <3> QED
      BY <2>2, <3>1 DEF ChunkOf
  <2> HIDE DEF closed, c
  <2>5. closed.done \in Seq(ChunkOf(doc))
    BY <2>3 DEF CutState
  <2>6. Append(closed.done, c) \in Seq(ChunkOf(doc))
    BY <2>4, <2>5
  <2>7. closed \in [done : Seq(ChunkOf(doc)), pending : Seq(AnyPiece),
                   at : Spots(doc) \cup {None}]
    BY <2>3 DEF CutState
  <2>8. closed.pending = <<>> \/ closed.at # None
    BY <2>3 DEF CutState
  <2>9. [closed EXCEPT !.done = Append(closed.done, c)]
          \in [done : Seq(ChunkOf(doc)), pending : Seq(AnyPiece),
              at : Spots(doc) \cup {None}]
    BY <2>6, <2>7
  <2> QED
    BY <2>1, <2>7, <2>8, <2>9 DEF CutState
<1>2. CASE node.type \notin Structured
  <2>1. AddNode(s, place, node) = AddPieces(s, place, PiecesOf(node))
    BY <1>2 DEF AddNode
  <2> QED
    BY <2>1, PiecesOfTyped, AddPiecesTyped
<1> QED
  BY <1>1, <1>2

\* What is cut after each of the nodes of a section.
LEMMA AddNodesTrace ==
  ASSUME NEW doc \in Seq(AnySection), NEW s0 \in CutState(doc),
         NEW k \in DOMAIN doc, NEW seq, seq = Upto(Len(doc[k].nodes))
  PROVE  \E f \in [0 .. Len(seq) -> CutState(doc)] :
           /\ f[0] = s0 /\ f[Len(seq)] = AddNodes(s0, doc, k)
           /\ \A i \in 1 .. Len(seq) : f[i] = AddNode(f[i - 1], <<k, seq[i]>>, doc[k].nodes[seq[i]])
<1> DEFINE N == Len(seq)
           Q == CutState(doc)
           op(s, x) == AddNode(s, <<k, x>>, doc[k].nodes[x])
           IsIter(g) == g = [t \in SUBSET DOMAIN seq |->
                               IF t = {} THEN s0 ELSE op(g[t \ {Max(t)}], seq[Max(t)])]
           step == [i \in 1 .. N |-> [s \in Q |-> op(s, seq[i])]]
           iter == CHOOSE g : IsIter(g)
<1>1. N \in Nat /\ DOMAIN seq = 1 .. N
  OBVIOUS
<1>2. IsFold(N, Q, s0, step)
  <2>1. s0 \in Q
    OBVIOUS
  <2>2. ASSUME NEW i \in 1 .. N, NEW s \in Q PROVE op(s, seq[i]) \in Q
    <3> DEFINE n == Len(doc[k].nodes)
    <3>1. n \in Nat
      BY NodeTyped
    <3> HIDE DEF n
    <3>2. seq = Upto(n)
      BY DEF n
    <3>3. seq[i] \in 1 .. n
      BY <3>1, <3>2, UptoIs
    <3>4. <<k, seq[i]>> \in Spots(doc) /\ doc[k].nodes[seq[i]] \in AnyNode
      BY <3>3, SpotOf, NodeTyped DEF n
    <3> QED
      BY <3>4, AddNodeTyped
  <2> HIDE DEF op, Q, N
  <2>3. step \in [1 .. N -> [Q -> Q]]
    BY <2>2
  <2> QED
    BY <1>1, <2>1, <2>3 DEF IsFold
<1>3. ASSUME NEW g, NEW t \in SUBSET (1 .. N), t # {}, g[t \ {Max(t)}] \in Q
      PROVE  step[Max(t)][g[t \ {Max(t)}]] = op(g[t \ {Max(t)}], seq[Max(t)])
  <2>1. Max(t) \in 1 .. N
    BY <1>1, <1>3, MaxOfUpto
  <2> HIDE DEF Q, N, op
  <2> QED
    BY <1>3, <2>1
<1>4. \E g : IsIter(g)
  <2>1. PICK h \in [SUBSET (1 .. N) -> Q] : Iterates(h, N, Q, s0, step)
    <3> HIDE DEF step, Q, N
    <3> QED
      BY <1>2, FoldExists
  <2> HIDE DEF op, N, Q, step
  <2>2. \A t \in SUBSET (1 .. N) : t # {} => h[t] = op(h[t \ {Max(t)}], seq[Max(t)])
    BY <1>3, <2>1 DEF Iterates
  <2>3. IsIter(h)
    BY <1>1, <2>1, <2>2 DEF Iterates
  <2> QED
    BY <2>3
<1>5. IsIter(iter)
  <2> HIDE DEF op
  <2> QED
    BY <1>4
<1>6. AddNodes(s0, doc, k) = iter[1 .. N]
  BY <1>1 DEF AddNodes, FoldLeft, MapThenFoldSet
<1> HIDE DEF iter, op
<1>7. Iterates(iter, N, Q, s0, step)
  <2>1. iter[{}] = s0
    BY <1>5
  <2>2. ASSUME NEW t \in SUBSET (1 .. N), t # {}, iter[t \ {Max(t)}] \in Q
        PROVE  iter[t] = step[Max(t)][iter[t \ {Max(t)}]]
    <3>1. iter[t] = op(iter[t \ {Max(t)}], seq[Max(t)])
      BY <1>1, <1>5, <2>2
    <3> QED
      BY <1>3, <2>2, <3>1
  <2> QED
    BY <2>1, <2>2 DEF Iterates
<1>8. PICK f \in [0 .. N -> Q] : Traces(f, N, s0, step) /\ f[N] = iter[1 .. N]
  <2> HIDE DEF step, Q, N
  <2> QED
    BY <1>2, <1>7, FoldTraces
<1>9. ASSUME NEW i \in 1 .. N PROVE f[i] = op(f[i - 1], seq[i])
  <2>1. f[i] = step[i][f[i - 1]]
    BY <1>8 DEF Traces
  <2>2. i - 1 \in 0 .. N
    BY <1>1
  <2> HIDE DEF Q, N
  <2>3. f[i - 1] \in Q
    BY <1>8, <2>2
  <2> QED
    BY <2>1, <2>3
<1>10. f[0] = s0
  BY <1>8 DEF Traces
<1> QED
  BY <1>6, <1>8, <1>9, <1>10 DEF op

LEMMA AddSectionTyped ==
  ASSUME NEW doc \in Seq(AnySection), NEW s \in CutState(doc), NEW i \in DOMAIN doc
  PROVE  AddSection(s, doc, i) \in CutState(doc)
<1> DEFINE seq == Upto(Len(doc[i].nodes))
<1>1. PICK f \in [0 .. Len(seq) -> CutState(doc)] : f[Len(seq)] = AddNodes(s, doc, i)
  BY AddNodesTrace
<1>2. Len(seq) \in 0 .. Len(seq)
  BY NodeTyped, UptoIs
<1>3. AddNodes(s, doc, i) \in CutState(doc)
  BY <1>1, <1>2
<1> QED
  BY <1>3, FlushTyped DEF AddSection

\* What is cut after each of the sections.
LEMMA AddSectionsTrace ==
  ASSUME NEW doc \in Seq(AnySection), NEW seq, seq = Upto(Len(doc))
  PROVE  \E f \in [0 .. Len(seq) -> CutState(doc)] :
           /\ f[0] = Open /\ f[Len(seq)] = AddSections(doc)
           /\ \A i \in 1 .. Len(seq) : f[i] = AddSection(f[i - 1], doc, seq[i])
<1> DEFINE N == Len(seq)
           Q == CutState(doc)
           op(s, x) == AddSection(s, doc, x)
           IsIter(g) == g = [t \in SUBSET DOMAIN seq |->
                               IF t = {} THEN Open ELSE op(g[t \ {Max(t)}], seq[Max(t)])]
           step == [i \in 1 .. N |-> [s \in Q |-> op(s, seq[i])]]
           iter == CHOOSE g : IsIter(g)
<1>1. N \in Nat /\ DOMAIN seq = 1 .. N
  OBVIOUS
<1>2. IsFold(N, Q, Open, step)
  <2>1. Open \in Q
    BY DEF CutState, Open
  <2>2. ASSUME NEW i \in 1 .. N, NEW s \in Q PROVE op(s, seq[i]) \in Q
    <3> DEFINE n == Len(doc)
    <3>1. n \in Nat /\ DOMAIN doc = 1 .. n
      OBVIOUS
    <3> HIDE DEF n
    <3>2. seq = Upto(n)
      BY DEF n
    <3>3. seq[i] \in DOMAIN doc
      BY <3>1, <3>2, UptoIs
    <3> QED
      BY <3>3, AddSectionTyped
  <2> HIDE DEF op, Q, N
  <2>3. step \in [1 .. N -> [Q -> Q]]
    BY <2>2
  <2> QED
    BY <1>1, <2>1, <2>3 DEF IsFold
<1>3. ASSUME NEW g, NEW t \in SUBSET (1 .. N), t # {}, g[t \ {Max(t)}] \in Q
      PROVE  step[Max(t)][g[t \ {Max(t)}]] = op(g[t \ {Max(t)}], seq[Max(t)])
  <2>1. Max(t) \in 1 .. N
    BY <1>1, <1>3, MaxOfUpto
  <2> HIDE DEF Q, N, op
  <2> QED
    BY <1>3, <2>1
<1>4. \E g : IsIter(g)
  <2>1. PICK h \in [SUBSET (1 .. N) -> Q] : Iterates(h, N, Q, Open, step)
    <3> HIDE DEF step, Q, N
    <3> QED
      BY <1>2, FoldExists
  <2> HIDE DEF op, N, Q, step
  <2>2. \A t \in SUBSET (1 .. N) : t # {} => h[t] = op(h[t \ {Max(t)}], seq[Max(t)])
    BY <1>3, <2>1 DEF Iterates
  <2>3. IsIter(h)
    BY <1>1, <2>1, <2>2 DEF Iterates
  <2> QED
    BY <2>3
<1>5. IsIter(iter)
  <2> HIDE DEF op
  <2> QED
    BY <1>4
<1>6. AddSections(doc) = iter[1 .. N]
  BY <1>1 DEF AddSections, FoldLeft, MapThenFoldSet
<1> HIDE DEF iter, op
<1>7. Iterates(iter, N, Q, Open, step)
  <2>1. iter[{}] = Open
    BY <1>5
  <2>2. ASSUME NEW t \in SUBSET (1 .. N), t # {}, iter[t \ {Max(t)}] \in Q
        PROVE  iter[t] = step[Max(t)][iter[t \ {Max(t)}]]
    <3>1. iter[t] = op(iter[t \ {Max(t)}], seq[Max(t)])
      BY <1>1, <1>5, <2>2
    <3> QED
      BY <1>3, <2>2, <3>1
  <2> QED
    BY <2>1, <2>2 DEF Iterates
<1>8. PICK f \in [0 .. N -> Q] : Traces(f, N, Open, step) /\ f[N] = iter[1 .. N]
  <2> HIDE DEF step, Q, N
  <2> QED
    BY <1>2, <1>7, FoldTraces
<1>9. ASSUME NEW i \in 1 .. N PROVE f[i] = op(f[i - 1], seq[i])
  <2>1. f[i] = step[i][f[i - 1]]
    BY <1>8 DEF Traces
  <2>2. i - 1 \in 0 .. N
    BY <1>1
  <2> HIDE DEF Q, N
  <2>3. f[i - 1] \in Q
    BY <1>8, <2>2
  <2> QED
    BY <2>1, <2>3
<1>10. f[0] = Open
  BY <1>8 DEF Traces
<1> QED
  BY <1>6, <1>8, <1>9, <1>10 DEF op

LEMMA ChunksTyped ==
  ASSUME NEW doc \in Seq(AnySection)
  PROVE  Chunks(doc) \in Seq(ChunkOf(doc))
<1> DEFINE seq == Upto(Len(doc))
<1>1. PICK f \in [0 .. Len(seq) -> CutState(doc)] : f[Len(seq)] = AddSections(doc)
  BY AddSectionsTrace
<1>2. Len(seq) \in 0 .. Len(seq)
  BY UptoIs
<1>3. AddSections(doc) \in CutState(doc)
  BY <1>1, <1>2
<1> QED
  BY <1>3 DEF Chunks, CutState

-------------------------------------------------------------------------------
(* The types of what is drafted *)

\* What is taken is in S.
LEMMA AmongWithin ==
  ASSUME NEW D, NEW seq \in Seq(D), NEW S
  PROVE  Among(seq, S) \in Seq(D \cap S)
<1> DEFINE N == Len(seq)
           E == D \cap S
<1>1. PICK f \in [0 .. N -> Seq(D)] :
        /\ f[0] = <<>> /\ f[N] = Among(seq, S)
        /\ \A i \in 1 .. N : f[i] = IF seq[i] \in S THEN Append(f[i - 1], seq[i]) ELSE f[i - 1]
  BY AmongTrace
<1> DEFINE Good == {i \in 0 .. N : f[i] \in Seq(E)}
<1>2. N \in Nat /\ N \in 0 .. N
  OBVIOUS
<1>3. 0 \in Good
  BY <1>1, <1>2
<1>4. ASSUME NEW i \in 1 .. N, i - 1 \in Good PROVE i \in Good
  <2>1. i \in 0 .. N /\ f[i - 1] \in Seq(E) /\ seq[i] \in D
    BY <1>4
  <2>2. seq[i] \in S => Append(f[i - 1], seq[i]) \in Seq(E)
    BY <2>1
  <2>3. f[i] \in Seq(E)
    BY <1>1, <2>1, <2>2
  <2> QED
    BY <2>1, <2>3
<1> HIDE DEF N, Good
<1>5. 0 .. N \subseteq Good
  BY <1>2, <1>3, <1>4, UptoInduction
<1> QED
  BY <1>1, <1>2, <1>5 DEF Good

LEMMA WithoutTyped ==
  ASSUME NEW D, NEW x, NEW seq \in Seq(D \cup {x})
  PROVE  Without(seq, x) \in Seq(D)
<1> DEFINE S == ToSet(seq) \ {x}
           E == (D \cup {x}) \cap S
<1>1. Among(seq, S) \in Seq(E)
  BY AmongWithin
<1>2. \A e \in E : e \in D
  OBVIOUS
<1> HIDE DEF E
<1>3. Among(seq, S) \in Seq(D)
  BY <1>1, <1>2
<1> QED
  BY <1>3 DEF Without

LEMMA CharactersTyped ==
  ASSUME NEW piece \in AnyPiece
  PROVE  Characters(piece) \in AnyText /\ Len(Characters(piece)) = piece.size
<1>1. piece.size \in Nat /\ piece.from \in Nat /\ piece.says \in Sources \cup Places
  BY DEF AnyPiece
<1>2. \A i \in 1 .. piece.size : <<piece.says, piece.from + i>> \in AnyGlyph
  BY <1>1 DEF AnyGlyph
<1>3. [i \in 1 .. piece.size |-> <<piece.says, piece.from + i>>] \in Seq(AnyGlyph)
  BY <1>1, <1>2
<1> QED
  BY <1>1, <1>3 DEF Characters, AnyText

LEMMA KeepTyped ==
  ASSUME NEW found \in Seq(AnyText), NEW piece \in AnyPiece
  PROVE  Keep(found, piece) \in Seq(AnyText)
<1>1. Append(found, Characters(piece)) \in Seq(AnyText)
  BY CharactersTyped
<1> QED
  BY <1>1 DEF Keep

\* The sentences that have been found after each piece.
LEMMA SentencesTrace ==
  ASSUME NEW chunk, NEW seq \in Seq(AnyPiece), seq = chunk.text
  PROVE  \E f \in [0 .. Len(seq) -> Seq(AnyText)] :
           /\ f[0] = <<>> /\ f[Len(seq)] = Sentences(chunk)
           /\ \A i \in 1 .. Len(seq) : f[i] = Keep(f[i - 1], seq[i])
<1> DEFINE N == Len(seq)
           Q == Seq(AnyText)
           op(s, x) == Keep(s, x)
           IsIter(g) == g = [t \in SUBSET DOMAIN seq |->
                               IF t = {} THEN <<>> ELSE op(g[t \ {Max(t)}], seq[Max(t)])]
           step == [i \in 1 .. N |-> [s \in Q |-> op(s, seq[i])]]
           iter == CHOOSE g : IsIter(g)
<1>1. N \in Nat /\ DOMAIN seq = 1 .. N
  OBVIOUS
<1>2. IsFold(N, Q, <<>>, step)
  <2>1. <<>> \in Q
    OBVIOUS
  <2>2. ASSUME NEW i \in 1 .. N, NEW s \in Q PROVE op(s, seq[i]) \in Q
    <3>1. seq[i] \in AnyPiece
      BY <1>1
    <3> QED
      BY <3>1, KeepTyped
  <2> HIDE DEF op, Q, N
  <2>3. step \in [1 .. N -> [Q -> Q]]
    BY <2>2
  <2> QED
    BY <1>1, <2>1, <2>3 DEF IsFold
<1>3. ASSUME NEW g, NEW t \in SUBSET (1 .. N), t # {}, g[t \ {Max(t)}] \in Q
      PROVE  step[Max(t)][g[t \ {Max(t)}]] = op(g[t \ {Max(t)}], seq[Max(t)])
  <2>1. Max(t) \in 1 .. N
    BY <1>1, <1>3, MaxOfUpto
  <2> HIDE DEF Q, N, op
  <2> QED
    BY <1>3, <2>1
<1>4. \E g : IsIter(g)
  <2>1. PICK h \in [SUBSET (1 .. N) -> Q] : Iterates(h, N, Q, <<>>, step)
    <3> HIDE DEF step, Q, N
    <3> QED
      BY <1>2, FoldExists
  <2> HIDE DEF op, N, Q, step
  <2>2. \A t \in SUBSET (1 .. N) : t # {} => h[t] = op(h[t \ {Max(t)}], seq[Max(t)])
    BY <1>3, <2>1 DEF Iterates
  <2>3. IsIter(h)
    BY <1>1, <2>1, <2>2 DEF Iterates
  <2> QED
    BY <2>3
<1>5. IsIter(iter)
  <2> HIDE DEF op
  <2> QED
    BY <1>4
<1>6. Sentences(chunk) = iter[1 .. N]
  BY <1>1 DEF Sentences, FoldLeft, MapThenFoldSet
<1> HIDE DEF iter, op
<1>7. Iterates(iter, N, Q, <<>>, step)
  <2>1. iter[{}] = <<>>
    BY <1>5
  <2>2. ASSUME NEW t \in SUBSET (1 .. N), t # {}, iter[t \ {Max(t)}] \in Q
        PROVE  iter[t] = step[Max(t)][iter[t \ {Max(t)}]]
    <3>1. iter[t] = op(iter[t \ {Max(t)}], seq[Max(t)])
      BY <1>1, <1>5, <2>2
    <3> QED
      BY <1>3, <2>2, <3>1
  <2> QED
    BY <2>1, <2>2 DEF Iterates
<1>8. PICK f \in [0 .. N -> Q] : Traces(f, N, <<>>, step) /\ f[N] = iter[1 .. N]
  <2> HIDE DEF step, Q, N
  <2> QED
    BY <1>2, <1>7, FoldTraces
<1>9. ASSUME NEW i \in 1 .. N PROVE f[i] = op(f[i - 1], seq[i])
  <2>1. f[i] = step[i][f[i - 1]]
    BY <1>8 DEF Traces
  <2>2. i - 1 \in 0 .. N
    BY <1>1
  <2> HIDE DEF Q, N
  <2>3. f[i - 1] \in Q
    BY <1>8, <2>2
  <2> QED
    BY <2>1, <2>3
<1>10. f[0] = <<>>
  BY <1>8 DEF Traces
<1> QED
  BY <1>6, <1>8, <1>9, <1>10 DEF op

LEMMA SentencesTyped ==
  ASSUME NEW chunk, chunk.text \in Seq(AnyPiece)
  PROVE  Sentences(chunk) \in Seq(AnyText)
<1> DEFINE seq == chunk.text
<1>1. seq \in Seq(AnyPiece)
  OBVIOUS
<1> HIDE DEF seq
<1>2. \E f \in [0 .. Len(seq) -> Seq(AnyText)] :
        /\ f[0] = <<>> /\ f[Len(seq)] = Sentences(chunk)
        /\ \A i \in 1 .. Len(seq) : f[i] = Keep(f[i - 1], seq[i])
  BY <1>1, SentencesTrace DEF seq
<1>3. PICK f \in [0 .. Len(seq) -> Seq(AnyText)] : f[Len(seq)] = Sentences(chunk)
  BY <1>2
<1>4. Len(seq) \in 0 .. Len(seq)
  BY <1>1
<1> QED
  BY <1>3, <1>4

LEMMA PrefixTyped ==
  ASSUME NEW D, NEW s \in Seq(D), NEW n \in Nat
  PROVE  Prefix(s, n) \in Seq(D) /\ Len(Prefix(s, n)) <= n
<1> DEFINE m == Least(n, Len(s))
<1>1. m \in 0 .. Len(s) /\ m <= n
  BY DEF Least
<1> HIDE DEF m
<1>2. SubSeq(s, 1, m) \in Seq(D) /\ Len(SubSeq(s, 1, m)) = m
  BY <1>1
<1> QED
  BY <1>1, <1>2 DEF Prefix, m

LEMMA CompactTyped ==
  ASSUME NEW text \in AnyText, NEW limit \in Nat \ {0}
  PROVE  Compact(text, limit) \in AnyText
<1>1. text \in Seq(AnyGlyph) /\ Ellipsis \in AnyGlyph
  BY DEF AnyText, AnyGlyph, Ellipsis
<1>2. Prefix(text, limit - 1) \in Seq(AnyGlyph)
  BY <1>1, PrefixTyped
<1>3. Append(Prefix(text, limit - 1), Ellipsis) \in Seq(AnyGlyph)
  BY <1>1, <1>2
<1> QED
  BY <1>3 DEF Compact, AnyText

LEMMA CornerTyped ==
  ASSUME NEW rows \in Seq(Nat), NEW height \in Nat, NEW width \in Nat
  PROVE  Corner(rows, height, width) \in Seq(Nat)
<1> DEFINE m == Least(height, Len(rows))
<1>1. m \in 0 .. Len(rows)
  BY DEF Least
<1> HIDE DEF m
<1>2. \A r \in 1 .. m : Least(width, rows[r]) \in Nat
  BY <1>1 DEF Least
<1>3. [r \in 1 .. m |-> Least(width, rows[r])] \in Seq(Nat)
  BY <1>1, <1>2
<1> QED
  BY <1>3 DEF Corner, m

\* The slides of a draft have one block with at least one line.
Drafted == {s \in AnySlide : Len(s.blocks) = 1 /\ Len(s.blocks[1].lines) > 0}

LEMMA SlideTyped ==
  ASSUME NEW layout \in Layouts, NEW title \in AnyText, NEW i \in Nat,
         NEW type \in BlockTypes, NEW lines \in Seq(AnyText), lines # <<>>,
         NEW cells \in Seq(Nat)
  PROVE  [order |-> 0, layout |-> layout, title |-> title,
          blocks |-> <<Block(type, lines, cells)>>, ref |-> i] \in Drafted
<1>1. Block(type, lines, cells) \in AnyBlock /\ Block(type, lines, cells).lines = lines
  BY DEF Block, AnyBlock
<1> DEFINE b == Block(type, lines, cells)
<1> HIDE DEF b
<1>2. <<b>> \in Seq(AnyBlock) /\ Len(<<b>>) = 1 /\ <<b>>[1] = b
  BY <1>1 DEF b
<1>3. Len(lines) > 0
  OBVIOUS
<1>4. [order |-> 0, layout |-> layout, title |-> title, blocks |-> <<b>>, ref |-> i] \in AnySlide
  BY <1>2 DEF AnySlide
<1> QED
  BY <1>1, <1>2, <1>3, <1>4 DEF Drafted, b

LEMMA NumberedTyped ==
  ASSUME NEW slides \in Seq(AnySlide)
  PROVE  Numbered(slides) \in Seq(AnySlide)
<1>1. ASSUME NEW n \in DOMAIN slides PROVE [slides[n] EXCEPT !.order = n] \in AnySlide
  <2>1. slides[n] \in AnySlide /\ n \in Nat
    OBVIOUS
  <2> QED
    BY <2>1 DEF AnySlide
<1>2. DOMAIN slides = 1 .. Len(slides) /\ Len(slides) \in Nat
  OBVIOUS
<1>3. [n \in DOMAIN slides |-> [slides[n] EXCEPT !.order = n]] \in Seq(AnySlide)
  BY <1>1, <1>2
<1> QED
  BY <1>3 DEF Numbered

LEMMA CoverTyped ==
  ASSUME NEW s \in Drafted
  PROVE  Cover(s) \in AnySlide
<1>1. s \in AnySlide /\ Len(s.blocks) = 1 /\ Len(s.blocks[1].lines) > 0
  BY DEF Drafted
<1>2. s.blocks \in Seq(AnyBlock) /\ s.title \in AnyText /\ s.ref \in Nat
  BY <1>1 DEF AnySlide
<1>3. s.blocks[1].lines \in Seq(AnyText)
  <2>1. s.blocks[1] \in AnyBlock
    BY <1>1, <1>2
  <2> QED
    BY <2>1 DEF AnyBlock
<1>4. s.blocks[1].lines[1] \in AnyText
  <2> DEFINE lines == s.blocks[1].lines
  <2>1. lines \in Seq(AnyText) /\ Len(lines) > 0
    BY <1>1, <1>3
  <2> HIDE DEF lines
  <2>2. lines[1] \in AnyText
    BY <2>1
  <2> QED
    BY <2>2 DEF lines
<1> DEFINE line == Compact(s.blocks[1].lines[1], CoverSize)
<1>5. line \in AnyText
  BY <1>4, CompactTyped, DraftingAssumption
<1> HIDE DEF line
<1>6. <<Block("text", <<line>>, <<>>)>> \in Seq(AnyBlock)
  <2>1. <<line>> \in Seq(AnyText) /\ <<>> \in Seq(Nat)
    BY <1>5
  <2>2. Block("text", <<line>>, <<>>) \in AnyBlock
    BY <2>1 DEF Block, AnyBlock, BlockTypes
  <2> QED
    BY <2>2
<1>7. [order |-> 1, layout |-> "cover", title |-> s.title,
       blocks |-> <<Block("text", <<line>>, <<>>)>>, ref |-> s.ref] \in AnySlide
  BY <1>2, <1>6 DEF AnySlide, Layouts
<1> QED
  BY <1>7 DEF Cover, line

-------------------------------------------------------------------------------
(* What is cut says what was read *)

\* A sentence of the document as one piece.
Uncut(sentence) ==
  [says |-> sentence.says, latin |-> sentence.latin, from |-> 0, size |-> sentence.size]

LEMMA UncutTyped ==
  ASSUME NEW sentence \in AnySentence
  PROVE  Uncut(sentence) \in AnyPiece
BY DEF Uncut, AnyPiece, AnySentence

LEMMA EachTyped ==
  ASSUME NEW pieces \in Seq(AnyPiece)
  PROVE  [i \in DOMAIN pieces |-> Characters(pieces[i])] \in Seq(AnyText)
<1>1. DOMAIN pieces = 1 .. Len(pieces) /\ Len(pieces) \in Nat
  OBVIOUS
<1>2. \A i \in DOMAIN pieces : Characters(pieces[i]) \in AnyText
  BY CharactersTyped
<1> QED
  BY <1>1, <1>2

LEMMA TextOfTyped ==
  ASSUME NEW pieces \in Seq(AnyPiece)
  PROVE  TextOf(pieces) \in AnyText
BY EachTyped, FlattenTyped DEF TextOf, AnyText

LEMMA TextOfNothing == TextOf(<<>>) = <<>>
<1>1. [i \in DOMAIN <<>> |-> Characters(<<>>[i])] = <<>>
  OBVIOUS
<1> QED
  BY <1>1, FlattenEmpty DEF TextOf

LEMMA TextOfAppend ==
  ASSUME NEW pieces \in Seq(AnyPiece), NEW piece \in AnyPiece
  PROVE  TextOf(Append(pieces, piece)) = TextOf(pieces) \o Characters(piece)
<1> DEFINE Each(s) == [i \in DOMAIN s |-> Characters(s[i])]
<1>1. Each(pieces) \in Seq(AnyText) /\ Characters(piece) \in AnyText
  BY EachTyped, CharactersTyped
<1>2. Each(Append(pieces, piece)) = Append(Each(pieces), Characters(piece))
  OBVIOUS
<1> HIDE DEF Each
<1>3. FlattenSeq(Append(Each(pieces), Characters(piece)))
        = FlattenSeq(Each(pieces)) \o Characters(piece)
  BY <1>1, FlattenAppend DEF AnyText
<1> QED
  BY <1>2, <1>3 DEF TextOf, Each

LEMMA TextOfConcat ==
  ASSUME NEW p \in Seq(AnyPiece), NEW q \in Seq(AnyPiece)
  PROVE  TextOf(p \o q) = TextOf(p) \o TextOf(q)
<1> DEFINE Each(s) == [i \in DOMAIN s |-> Characters(s[i])]
<1>1. Each(p) \in Seq(AnyText) /\ Each(q) \in Seq(AnyText)
  BY EachTyped
<1>2. Each(p \o q) = Each(p) \o Each(q)
  <2> DEFINE D == AnyPiece
  <2>1. p \o q \in Seq(AnyPiece) /\ Len(p \o q) = Len(p) + Len(q)
    BY LenOfConcat
  <2>2. Each(p \o q) \in Seq(AnyText)
    BY <2>1, EachTyped
  <2>3. Len(Each(p)) = Len(p) /\ Len(Each(q)) = Len(q) /\ Len(Each(p \o q)) = Len(p \o q)
    BY <2>1
  <2>4. ASSUME NEW k \in 1 .. Len(p) + Len(q) PROVE Each(p \o q)[k] = (Each(p) \o Each(q))[k]
    <3>1. CASE k <= Len(p)
      <4>1. (p \o q)[k] = p[k] /\ k \in DOMAIN p /\ k \in DOMAIN (p \o q)
        BY <3>1
      <4>2. Each(p \o q)[k] = Characters(p[k]) /\ Each(p)[k] = Characters(p[k])
        BY <4>1
      <4> HIDE DEF Each
      <4>3. (Each(p) \o Each(q))[k] = Each(p)[k]
        BY <1>1, <2>3, <3>1
      <4> QED
        BY <4>2, <4>3
    <3>2. CASE k > Len(p)
      <4>1. (p \o q)[k] = q[k - Len(p)] /\ k - Len(p) \in DOMAIN q /\ k \in DOMAIN (p \o q)
        BY <3>2
      <4>2. /\ Each(p \o q)[k] = Characters(q[k - Len(p)])
            /\ Each(q)[k - Len(p)] = Characters(q[k - Len(p)])
        BY <4>1
      <4> HIDE DEF Each
      <4>3. (Each(p) \o Each(q))[k] = Each(q)[k - Len(p)]
        BY <1>1, <2>3, <3>2
      <4> QED
        BY <4>2, <4>3
    <3> QED
      BY <3>1, <3>2
  <2> HIDE DEF Each
  <2>5. Each(p) \o Each(q) \in Seq(AnyText) /\ Len(Each(p) \o Each(q)) = Len(Each(p)) + Len(Each(q))
    BY <1>1, LenOfConcat
  <2> QED
    BY <2>1, <2>2, <2>3, <2>4, <2>5, SameSequences
<1> HIDE DEF Each
<1>3. FlattenSeq(Each(p) \o Each(q)) = FlattenSeq(Each(p)) \o FlattenSeq(Each(q))
  BY <1>1, FlattenConcat DEF AnyText
<1> QED
  BY <1>2, <1>3 DEF TextOf, Each

LEMMA RunsOn ==
  ASSUME NEW D, NEW g \in [Nat -> D], NEW m \in Nat, NEW n \in Nat
  PROVE  [i \in 1 .. m |-> g[i]] \o [i \in 1 .. n |-> g[m + i]] = [i \in 1 .. m + n |-> g[i]]
OBVIOUS

\* However a sentence is cut, its pieces say all of it.
LEMMA PiecesSay ==
  ASSUME NEW sentence \in AnySentence
  PROVE  TextOf(Pieces(sentence)) = Characters(Uncut(sentence))
<1> DEFINE C == ChunkTokens
           n == sentence.size
           q == (n + C - 1) \div C
           count == Most(1, q)
           Start(k) == (k - 1) * C
           piece(k) == [says |-> sentence.says, latin |-> sentence.latin,
                        from |-> Start(k), size |-> Least(C, n - Start(k))]
           pieces == Pieces(sentence)
           Beginning(m) == [i \in 1 .. m |-> <<sentence.says, i>>]
           each == [k \in DOMAIN pieces |-> Characters(pieces[k])]
<1>1. /\ C \in Nat \ {0} /\ n \in Nat
      /\ sentence.says \in Sources /\ sentence.latin \in BOOLEAN
  BY ChunkingAssumption DEF AnySentence
<1>2. pieces = [k \in 1 .. count |-> piece(k)] /\ pieces \in Seq(AnyPiece)
  BY PiecesTyped DEF Pieces
<1> HIDE DEF C, n, pieces
<1>3. n + C - 1 \in Nat
  BY <1>1
<1>4. q \in Nat /\ (n + C - 1) % C \in 0 .. C - 1 /\ n + C - 1 = C * q + ((n + C - 1) % C)
  BY <1>1, <1>3, DivMod
<1> HIDE DEF q
<1>5. count \in Nat \ {0} /\ (count = 1 \/ count = q) /\ count >= q
  BY <1>4 DEF Most
<1> HIDE DEF count
<1>6. each \in Seq(AnyText) /\ Len(each) = count
  <2>1. DOMAIN pieces = 1 .. count
    BY <1>2
  <2>2. DOMAIN each = 1 .. count
    BY <2>1
  <2>3. each \in Seq(AnyText)
    BY <1>2, EachTyped
  <2> HIDE DEF each
  <2> QED
    BY <1>5, <2>2, <2>3
<1>7. ASSUME NEW k \in 1 .. count PROVE each[k] = Characters(piece(k))
  BY <1>2, <1>7
<1> HIDE DEF each
<1>8. PICK F \in [0 .. count -> Seq(AnyGlyph)] :
        /\ F[0] = <<>> /\ FlattenSeq(each) = F[count]
        /\ \A k \in 1 .. count : F[k] = F[k - 1] \o each[k]
  <2>1. \E F \in [0 .. Len(each) -> Seq(AnyGlyph)] :
          /\ F[0] = <<>> /\ FlattenSeq(each) = F[Len(each)]
          /\ \A k \in 1 .. Len(each) : F[k] = F[k - 1] \o each[k]
    BY <1>6, FlattenTrace DEF AnyText
  <2> QED
    BY <1>6, <2>1
<1> DEFINE Good == {k \in 0 .. count : k * C \in Nat /\ F[k] = Beginning(Least(n, k * C))}
<1>9. 0 \in Good
  <2>1. 0 * C = 0 /\ Least(n, 0) = 0
    BY <1>1 DEF Least
  <2> QED
    BY <1>5, <1>8, <2>1
<1>10. ASSUME NEW k \in 1 .. count, k - 1 \in Good PROVE k \in Good
  <2> DEFINE m == Start(k)
  <2>1. m \in Nat /\ F[k - 1] = Beginning(Least(n, m))
    BY <1>10
  <2>2. k * C = m + C
    BY <1>1, <1>5
  <2>3. m <= n
    <3>1. CASE k = 1
      BY <1>1, <3>1
    <3>2. CASE k # 1
      <4>1. count = q /\ k - 1 <= q - 1 /\ q - 1 \in Nat /\ k - 1 \in Nat
        BY <1>4, <1>5, <3>2
      <4>2. (k - 1) * C <= (q - 1) * C
        BY <1>1, <4>1, TimesMonotone
      <4>3. (q - 1) * C = C * q - C /\ C * q \in Int
        BY <1>1, <1>4
      <4>4. C * q <= n + C - 1
        BY <1>1, <1>4
      <4> QED
        BY <1>1, <2>1, <4>2, <4>3, <4>4
    <3> QED
      BY <3>1, <3>2
  <2>4. each[k] = Characters(piece(k)) /\ F[k] = F[k - 1] \o each[k]
    BY <1>7, <1>8
  <2>5. piece(k) = [says |-> sentence.says, latin |-> sentence.latin,
                    from |-> m, size |-> Least(C, n - m)]
    OBVIOUS
  <2> HIDE DEF m, piece
  <2>6. Least(n, m) = m /\ Least(n, m + C) = m + Least(C, n - m) /\ Least(C, n - m) \in Nat
    BY <1>1, <2>1, <2>3 DEF Least
  <2> DEFINE more == Least(C, n - m)
  <2> HIDE DEF more
  <2>7. Characters(piece(k)) = [i \in 1 .. more |-> <<sentence.says, m + i>>]
    BY <2>5 DEF Characters, more
  <2>8. Beginning(m) \o [i \in 1 .. more |-> <<sentence.says, m + i>>] = Beginning(m + more)
    <3> DEFINE D == {<<sentence.says, i>> : i \in Nat}
               g == [i \in Nat |-> <<sentence.says, i>>]
    <3>1. more \in Nat /\ m \in Nat
      BY <2>1, <2>6 DEF more
    <3>2. g \in [Nat -> D]
      OBVIOUS
    <3>3. \A i \in Nat : g[i] = <<sentence.says, i>>
      OBVIOUS
    <3> HIDE DEF g, D
    <3>4. [i \in 1 .. m |-> g[i]] \o [i \in 1 .. more |-> g[m + i]] = [i \in 1 .. m + more |-> g[i]]
      BY <3>1, <3>2, RunsOn
    <3>5. /\ [i \in 1 .. m |-> g[i]] = Beginning(m) /\ [i \in 1 .. m + more |-> g[i]] = Beginning(m + more)
          /\ [i \in 1 .. more |-> g[m + i]] = [i \in 1 .. more |-> <<sentence.says, m + i>>]
      BY <3>1, <3>3
    <3> QED
      BY <3>4, <3>5
  <2>9. F[k] = Beginning(Least(n, k * C))
    BY <2>1, <2>2, <2>4, <2>6, <2>7, <2>8 DEF more
  <2>10. k * C \in Nat
    BY <1>1, <2>1, <2>2
  <2> QED
    BY <2>9, <2>10
<1>11. count \in Good
  <2> HIDE DEF Good
  <2>1. 0 .. count \subseteq Good
    BY <1>5, <1>9, <1>10, UptoInduction
  <2> QED
    BY <1>5, <2>1
<1>12. count * C >= n
  <2>1. C * q >= n /\ C * q \in Int
    BY <1>1, <1>4
  <2>2. q * C <= count * C
    BY <1>1, <1>4, <1>5, TimesMonotone
  <2>3. q * C = C * q /\ count * C \in Int
    BY <1>1, <1>4, <1>5
  <2> QED
    BY <1>1, <2>1, <2>2, <2>3
<1>13. F[count] = Beginning(n)
  <2>1. count * C \in Nat
    BY <1>11
  <2>2. Least(n, count * C) = n
    BY <1>1, <1>12, <2>1 DEF Least
  <2> QED
    BY <1>11, <2>2
<1>14. Characters(Uncut(sentence)) = Beginning(n)
  BY <1>1 DEF Characters, Uncut, n
<1>15. TextOf(pieces) = FlattenSeq(each)
  BY DEF TextOf, each
<1> QED
  BY <1>8, <1>13, <1>14, <1>15 DEF pieces

\* Cut or not, a node says the same.
Whole(node) == [i \in DOMAIN node.text |-> Uncut(node.text[i])]

LEMMA NodeSays ==
  ASSUME NEW node \in AnyNode
  PROVE  /\ TextOf(PiecesOf(node)) = TextOf(Whole(node))
         /\ TextOf(PiecesOf(node)) \in AnyText
<1> DEFINE P(t) == [i \in DOMAIN t |-> Pieces(t[i])]
           W(t) == [i \in DOMAIN t |-> Uncut(t[i])]
           S == {t \in Seq(AnySentence) : TextOf(FlattenSeq(P(t))) = TextOf(W(t))}
<1>1. ASSUME NEW t \in Seq(AnySentence) PROVE P(t) \in Seq(Seq(AnyPiece)) /\ W(t) \in Seq(AnyPiece)
  <2>1. DOMAIN t = 1 .. Len(t) /\ Len(t) \in Nat /\ \A i \in DOMAIN t : t[i] \in AnySentence
    OBVIOUS
  <2>2. \A i \in DOMAIN t : Pieces(t[i]) \in Seq(AnyPiece) /\ Uncut(t[i]) \in AnyPiece
    BY <2>1, PiecesTyped, UncutTyped
  <2> QED
    BY <2>1, <2>2
<1>2. <<>> \in S
  <2>1. P(<<>>) = <<>> /\ W(<<>>) = <<>> /\ <<>> \in Seq(AnySentence)
    OBVIOUS
  <2> HIDE DEF P, W
  <2> QED
    BY <2>1, FlattenEmpty
<1>3. ASSUME NEW t \in Seq(AnySentence), NEW x \in AnySentence, t \in S PROVE Append(t, x) \in S
  <2>1. P(Append(t, x)) = Append(P(t), Pieces(x))
    OBVIOUS
  <2>2. W(Append(t, x)) = Append(W(t), Uncut(x)) /\ Append(t, x) \in Seq(AnySentence)
    OBVIOUS
  <2> HIDE DEF P, W
  <2>3. Pieces(x) \in Seq(AnyPiece) /\ Uncut(x) \in AnyPiece /\ FlattenSeq(P(t)) \in Seq(AnyPiece)
    BY <1>1, PiecesTyped, UncutTyped, FlattenTyped
  <2>4. FlattenSeq(Append(P(t), Pieces(x))) = FlattenSeq(P(t)) \o Pieces(x)
    BY <1>1, <2>3, FlattenAppend
  <2>5. TextOf(FlattenSeq(P(t)) \o Pieces(x)) = TextOf(FlattenSeq(P(t))) \o TextOf(Pieces(x))
    BY <2>3, TextOfConcat
  <2>6. TextOf(Append(W(t), Uncut(x))) = TextOf(W(t)) \o Characters(Uncut(x))
    BY <1>1, <2>3, TextOfAppend
  <2>7. TextOf(Pieces(x)) = Characters(Uncut(x))
    BY PiecesSay
  <2> QED
    BY <1>3, <2>1, <2>2, <2>4, <2>5, <2>6, <2>7
<1>4. Seq(AnySentence) \subseteq S
  <2> HIDE DEF S
  <2> QED
    BY <1>2, <1>3, SequenceInduction
<1>5. node.text \in Seq(AnySentence)
  BY DEF AnyNode
<1> HIDE DEF P, W
<1>6. TextOf(FlattenSeq(P(node.text))) = TextOf(W(node.text))
  BY <1>4, <1>5
<1>7. PiecesOf(node) \in Seq(AnyPiece)
  BY PiecesOfTyped
<1> QED
  BY <1>6, <1>7, TextOfTyped DEF PiecesOf, Whole, P, W

\* What a section and a document say.
NodeText(doc, i, j) == TextOf(PiecesOf(doc[i].nodes[j]))
SectionText(doc, i) == FlattenSeq([j \in DOMAIN doc[i].nodes |-> NodeText(doc, i, j)])
DocumentText(doc) == FlattenSeq([i \in DOMAIN doc |-> SectionText(doc, i)])

LEMMA NodeTextsTyped ==
  ASSUME NEW doc \in Seq(AnySection), NEW i \in DOMAIN doc
  PROVE  /\ \A j \in DOMAIN doc[i].nodes : NodeText(doc, i, j) \in AnyText
         /\ [j \in DOMAIN doc[i].nodes |-> NodeText(doc, i, j)] \in Seq(AnyText)
         /\ SectionText(doc, i) \in AnyText
<1> DEFINE texts == [j \in DOMAIN doc[i].nodes |-> NodeText(doc, i, j)]
<1>1. \A j \in DOMAIN doc[i].nodes : NodeText(doc, i, j) \in AnyText
  BY NodeTyped, NodeSays DEF NodeText
<1>2. texts \in Seq(AnyText)
  <2> DEFINE n == Len(doc[i].nodes)
  <2>1. n \in Nat /\ DOMAIN doc[i].nodes = 1 .. n
    BY NodeTyped
  <2> HIDE DEF n
  <2> QED
    BY <1>1, <2>1
<1>3. FlattenSeq(texts) \in AnyText
  <2> HIDE DEF texts
  <2> QED
    BY <1>2, FlattenTyped DEF AnyText
<1> QED
  BY <1>1, <1>2, <1>3 DEF SectionText

\* Reading reads just that.
LEMMA ReadingSays ==
  ASSUME NEW doc \in Seq(AnySection)
  PROVE  LET read == Reading(doc) IN [k \in DOMAIN read |-> read[k].says] = DocumentText(doc)
<1> DEFINE R == [place : Places, says : AnyGlyph]
           Of(i, j) == LET text == TextOf(PiecesOf(doc[i].nodes[j])) IN
                       [k \in DOMAIN text |-> [place |-> <<i, j>>, says |-> text[k]]]
           H == [i \in DOMAIN doc |-> [j \in DOMAIN doc[i].nodes |-> Of(i, j)]]
           G == FlattenSeq(H)
           h == [r \in R |-> r.says]
           Map(s) == Mapped(h, s)
           g == [s \in Seq(R) |-> Map(s)]
           K == [i \in DOMAIN doc |-> [j \in DOMAIN doc[i].nodes |-> NodeText(doc, i, j)]]
<1>1. DOMAIN doc = 1 .. Len(doc) /\ Len(doc) \in Nat
  OBVIOUS
<1>2. ASSUME NEW i \in DOMAIN doc, NEW j \in DOMAIN doc[i].nodes
      PROVE  Of(i, j) \in Seq(R) /\ Map(Of(i, j)) = NodeText(doc, i, j)
  <2> DEFINE text == TextOf(PiecesOf(doc[i].nodes[j]))
  <2>1. text \in Seq(AnyGlyph) /\ <<i, j>> \in Places
    <3>1. text \in Seq(AnyGlyph)
      BY NodeTextsTyped DEF NodeText, AnyText
    <3>2. i \in Nat /\ j \in Nat
      BY <1>1, NodeTyped
    <3> HIDE DEF text
    <3> QED
      BY <3>1, <3>2 DEF Places
  <2> HIDE DEF text
  <2>2. DOMAIN text = 1 .. Len(text) /\ Len(text) \in Nat /\ \A k \in DOMAIN text : text[k] \in AnyGlyph
    BY <2>1
  <2>3. \A k \in DOMAIN text : [place |-> <<i, j>>, says |-> text[k]] \in R
    BY <2>1, <2>2
  <2> DEFINE row == [k \in DOMAIN text |-> [place |-> <<i, j>>, says |-> text[k]]]
  <2>4. row \in Seq(R)
    BY <2>2, <2>3
  <2>5. Of(i, j) = row
    BY DEF text
  <2>6. Map(row) = text
    <3>1. DOMAIN row = DOMAIN text /\ \A k \in DOMAIN text : row[k] = [place |-> <<i, j>>, says |-> text[k]]
      OBVIOUS
    <3>2. \A k \in DOMAIN text : h[row[k]] = text[k]
      BY <2>3, <3>1
    <3>3. Map(row) = [k \in DOMAIN text |-> text[k]]
      BY <3>1, <3>2 DEF Mapped
    <3> HIDE DEF row, h, R
    <3> QED
      BY <2>1, <3>3
  <2> QED
    BY <2>4, <2>5, <2>6 DEF NodeText, text
<1> HIDE DEF Of
<1>3. ASSUME NEW i \in DOMAIN doc
      PROVE  /\ H[i] \in Seq(Seq(R)) /\ K[i] \in Seq(AnyText)
             /\ DOMAIN H[i] = DOMAIN doc[i].nodes /\ DOMAIN K[i] = DOMAIN doc[i].nodes
             /\ \A j \in DOMAIN doc[i].nodes : Map(H[i][j]) = K[i][j] /\ H[i][j] \in Seq(R)
  <2> DEFINE n == Len(doc[i].nodes)
  <2>1. n \in Nat /\ DOMAIN doc[i].nodes = 1 .. n
    BY NodeTyped
  <2> HIDE DEF n, h, R
  <2>2. H[i] = [j \in 1 .. n |-> Of(i, j)] /\ K[i] = [j \in 1 .. n |-> NodeText(doc, i, j)]
    BY <2>1
  <2>3. K[i] \in Seq(AnyText)
    BY <2>1, <2>2, NodeTextsTyped
  <2> HIDE DEF H, K, Map
  <2>4. \A j \in 1 .. n : Of(i, j) \in Seq(R) /\ Map(Of(i, j)) = NodeText(doc, i, j)
    BY <1>2, <2>1
  <2>5. H[i] \in Seq(Seq(R))
    BY <2>1, <2>2, <2>4
  <2> QED
    BY <2>1, <2>2, <2>3, <2>4, <2>5
<1>4. H \in Seq(Seq(Seq(R))) /\ K \in Seq(Seq(AnyText))
  <2>1. DOMAIN H = 1 .. Len(doc) /\ DOMAIN K = 1 .. Len(doc)
    BY <1>1
  <2>2. H = [i \in 1 .. Len(doc) |-> H[i]] /\ K = [i \in 1 .. Len(doc) |-> K[i]]
    BY <1>1
  <2> HIDE DEF H, K, R, Map
  <2> QED
    BY <1>1, <1>3, <2>2
<1>5. Reading(doc) = FlattenSeq(G)
  BY DEF Reading, Of
<1>6. G \in Seq(Seq(R)) /\ FlattenSeq(G) \in Seq(R)
  <2> HIDE DEF H, R
  <2> QED
    BY <1>4, FlattenTyped
<1>7. h \in [R -> AnyGlyph] /\ \A r \in R : h[r] = r.says
  OBVIOUS
<1>8. ASSUME NEW s \in Seq(R) PROVE Map(s) \in Seq(AnyGlyph)
  <2>1. DOMAIN s = 1 .. Len(s) /\ Len(s) \in Nat /\ \A k \in DOMAIN s : s[k] \in R
    <3> HIDE DEF R
    <3> QED
      OBVIOUS
  <2> HIDE DEF h, R
  <2>2. \A k \in DOMAIN s : h[s[k]] \in AnyGlyph
    BY <1>7, <2>1
  <2> QED
    BY <2>1, <2>2 DEF Mapped
<1>9. g \in [Seq(R) -> AnyText] /\ \A s \in Seq(R) : g[s] = Map(s)
  BY <1>8 DEF AnyText
<1>10. Map(FlattenSeq(G)) = FlattenSeq(EachMapped(h, G))
  <2> HIDE DEF G, h, R
  <2> QED
    BY <1>6, <1>7, FlattenMapped
<1>11. EachMapped(h, G) = FlattenSeq(K)
  <2> HIDE DEF H, h, R, K, g, Map
  <2>1. Mapped(g, G) = FlattenSeq(EachMapped(g, H))
    BY <1>4, <1>9, FlattenMapped
  <2>2. \A i \in DOMAIN G : G[i] \in Seq(R)
    BY <1>6
  <2>3. Mapped(g, G) = EachMapped(h, G)
    BY <1>9, <2>2 DEF Mapped, EachMapped, Map
  <2>4. DOMAIN H = DOMAIN doc /\ DOMAIN K = DOMAIN doc
    BY DEF H, K
  <2>5. ASSUME NEW i \in DOMAIN doc PROVE Mapped(g, H[i]) = K[i]
    <3>1. \A j \in DOMAIN H[i] : g[H[i][j]] = K[i][j]
      BY <1>3, <1>9
    <3>2. K[i] = [j \in DOMAIN H[i] |-> K[i][j]]
      BY <1>3
    <3> QED
      BY <3>1, <3>2 DEF Mapped
  <2>6. EachMapped(g, H) = K
    <3>1. K = [i \in DOMAIN doc |-> K[i]]
      BY <1>4, <2>4
    <3> QED
      BY <2>4, <2>5, <3>1 DEF EachMapped
  <2> QED
    BY <2>1, <2>3, <2>6
<1>12. FlattenSeq(FlattenSeq(K)) = FlattenSeq([i \in DOMAIN K |-> FlattenSeq(K[i])])
  <2> HIDE DEF K
  <2> QED
    BY <1>4, FlattenTwice DEF AnyText
<1>13. [i \in DOMAIN K |-> FlattenSeq(K[i])] = [i \in DOMAIN doc |-> SectionText(doc, i)]
  BY DEF SectionText
<1>14. Map(FlattenSeq(G)) = [k \in DOMAIN FlattenSeq(G) |-> FlattenSeq(G)[k].says]
  <2> HIDE DEF G, h, R
  <2> QED
    BY <1>6, <1>7 DEF Mapped
<1> QED
  BY <1>5, <1>10, <1>11, <1>12, <1>13, <1>14 DEF DocumentText

\* How much a text is.
LEMMA TokensOfTyped ==
  ASSUME NEW piece \in AnyPiece
  PROVE  TokensOf(piece) \in Nat /\ TokensOf(piece) <= Most(1, piece.size)
BY DEF AnyPiece, TokensOf, Least, Most

Tokens(pieces) == FoldLeft(LAMBDA n, piece : n + TokensOf(piece), 0, pieces)

\* The tokens of the first pieces.
LEMMA TokensTrace ==
  ASSUME NEW seq \in Seq(AnyPiece)
  PROVE  \E f \in [0 .. Len(seq) -> Nat] :
           /\ f[0] = 0 /\ f[Len(seq)] = Tokens(seq)
           /\ \A i \in 1 .. Len(seq) : f[i] = f[i - 1] + TokensOf(seq[i])
<1> DEFINE N == Len(seq)
           Q == Nat
           op(s, x) == s + TokensOf(x)
           IsIter(g) == g = [t \in SUBSET DOMAIN seq |->
                               IF t = {} THEN 0 ELSE op(g[t \ {Max(t)}], seq[Max(t)])]
           step == [i \in 1 .. N |-> [s \in Q |-> op(s, seq[i])]]
           iter == CHOOSE g : IsIter(g)
<1>1. N \in Nat /\ DOMAIN seq = 1 .. N
  OBVIOUS
<1>2. IsFold(N, Q, 0, step)
  <2>1. 0 \in Q
    OBVIOUS
  <2>2. ASSUME NEW i \in 1 .. N, NEW s \in Q PROVE op(s, seq[i]) \in Q
    <3>1. seq[i] \in AnyPiece
      BY <1>1
    <3>2. TokensOf(seq[i]) \in Nat
      BY <3>1, TokensOfTyped
    <3> HIDE DEF N
    <3> QED
      BY <3>2
  <2> HIDE DEF op, Q, N
  <2>3. step \in [1 .. N -> [Q -> Q]]
    BY <2>2
  <2> QED
    BY <1>1, <2>1, <2>3 DEF IsFold
<1>3. ASSUME NEW g, NEW t \in SUBSET (1 .. N), t # {}, g[t \ {Max(t)}] \in Q
      PROVE  step[Max(t)][g[t \ {Max(t)}]] = op(g[t \ {Max(t)}], seq[Max(t)])
  <2>1. Max(t) \in 1 .. N
    BY <1>1, <1>3, MaxOfUpto
  <2> HIDE DEF Q, N, op
  <2> QED
    BY <1>3, <2>1
<1>4. \E g : IsIter(g)
  <2>1. PICK h \in [SUBSET (1 .. N) -> Q] : Iterates(h, N, Q, 0, step)
    <3> HIDE DEF step, Q, N
    <3> QED
      BY <1>2, FoldExists
  <2> HIDE DEF op, N, Q, step
  <2>2. \A t \in SUBSET (1 .. N) : t # {} => h[t] = op(h[t \ {Max(t)}], seq[Max(t)])
    BY <1>3, <2>1 DEF Iterates
  <2>3. IsIter(h)
    BY <1>1, <2>1, <2>2 DEF Iterates
  <2> QED
    BY <2>3
<1>5. IsIter(iter)
  <2> HIDE DEF op
  <2> QED
    BY <1>4
<1>6. Tokens(seq) = iter[1 .. N]
  BY <1>1 DEF Tokens, FoldLeft, MapThenFoldSet
<1> HIDE DEF iter, op
<1>7. Iterates(iter, N, Q, 0, step)
  <2>1. iter[{}] = 0
    BY <1>5
  <2>2. ASSUME NEW t \in SUBSET (1 .. N), t # {}, iter[t \ {Max(t)}] \in Q
        PROVE  iter[t] = step[Max(t)][iter[t \ {Max(t)}]]
    <3>1. iter[t] = op(iter[t \ {Max(t)}], seq[Max(t)])
      BY <1>1, <1>5, <2>2
    <3> QED
      BY <1>3, <2>2, <3>1
  <2> QED
    BY <2>1, <2>2 DEF Iterates
<1>8. PICK f \in [0 .. N -> Q] : Traces(f, N, 0, step) /\ f[N] = iter[1 .. N]
  <2> HIDE DEF step, Q, N
  <2> QED
    BY <1>2, <1>7, FoldTraces
<1>9. ASSUME NEW i \in 1 .. N PROVE f[i] = op(f[i - 1], seq[i])
  <2>1. f[i] = step[i][f[i - 1]]
    BY <1>8 DEF Traces
  <2>2. i - 1 \in 0 .. N
    BY <1>1
  <2> HIDE DEF Q, N
  <2>3. f[i - 1] \in Q
    BY <1>8, <2>2
  <2> QED
    BY <2>1, <2>3
<1>10. f[0] = 0
  BY <1>8 DEF Traces
<1> QED
  BY <1>6, <1>8, <1>9, <1>10 DEF op

LEMMA TokenCountTyped ==
  ASSUME NEW pieces \in Seq(AnyPiece)
  PROVE  TokenCount(pieces) \in Nat
<1>1. PICK f \in [0 .. Len(pieces) -> Nat] : f[Len(pieces)] = Tokens(pieces)
  BY TokensTrace
<1>2. Len(pieces) \in 0 .. Len(pieces)
  OBVIOUS
<1>3. Tokens(pieces) \in Nat
  BY <1>1, <1>2
<1> QED
  BY <1>3 DEF TokenCount, Tokens, Most

\* Pieces that fit, of what the document itself says.
SmallPiece == {p \in AnyPiece : p.says \in Sources /\ p.size <= ChunkTokens}

LEMMA TokenCountOfOne ==
  ASSUME NEW piece \in SmallPiece
  PROVE  TokenCount(<<piece>>) \in Nat /\ TokenCount(<<piece>>) <= ChunkTokens
<1> DEFINE seq == <<piece>>
<1>1. piece \in AnyPiece /\ piece.size <= ChunkTokens /\ piece.size \in Nat
  BY DEF SmallPiece, AnyPiece
<1>2. seq \in Seq(AnyPiece) /\ Len(seq) = 1 /\ seq[1] = piece
  BY <1>1
<1> HIDE DEF seq
<1>3. PICK f \in [0 .. 1 -> Nat] : f[0] = 0 /\ f[1] = Tokens(seq) /\ f[1] = f[1 - 1] + TokensOf(piece)
  BY <1>2, TokensTrace
<1>4. Tokens(seq) = TokensOf(piece)
  BY <1>1, <1>3, TokensOfTyped
<1>5. TokensOf(piece) \in Nat /\ TokensOf(piece) <= Most(1, piece.size)
  BY <1>1, TokensOfTyped
<1>6. Most(1, TokensOf(piece)) <= ChunkTokens
  BY <1>1, <1>5, ChunkingAssumption DEF Most
<1>7. TokenCount(seq) \in Nat /\ TokenCount(seq) <= ChunkTokens
  BY <1>2, <1>4, <1>6, TokenCountTyped DEF TokenCount, Tokens
<1> QED
  BY <1>7 DEF seq

LEMMA PiecesSmall ==
  ASSUME NEW node \in AnyNode
  PROVE  PiecesOf(node) \in Seq(SmallPiece)
<1> DEFINE all == [i \in DOMAIN node.text |-> Pieces(node.text[i])]
<1>1. node.text \in Seq(AnySentence)
  BY DEF AnyNode
<1>2. ASSUME NEW i \in DOMAIN node.text PROVE Pieces(node.text[i]) \in Seq(SmallPiece)
  <2> DEFINE pieces == Pieces(node.text[i])
  <2>1. /\ pieces \in Seq(AnyPiece)
        /\ \A k \in DOMAIN pieces : pieces[k].says \in Sources /\ pieces[k].size <= ChunkTokens
    BY <1>1, PiecesTyped
  <2> HIDE DEF pieces
  <2>2. DOMAIN pieces = 1 .. Len(pieces) /\ Len(pieces) \in Nat
        /\ \A k \in DOMAIN pieces : pieces[k] \in AnyPiece
    BY <2>1
  <2>3. \A k \in DOMAIN pieces : pieces[k] \in SmallPiece
    BY <2>1, <2>2 DEF SmallPiece
  <2>4. pieces = [k \in 1 .. Len(pieces) |-> pieces[k]]
    BY <2>1
  <2>5. pieces \in Seq(SmallPiece)
    BY <2>2, <2>3, <2>4
  <2> QED
    BY <2>5 DEF pieces
<1>3. DOMAIN node.text = 1 .. Len(node.text) /\ Len(node.text) \in Nat
  BY <1>1
<1>4. all \in Seq(Seq(SmallPiece))
  BY <1>2, <1>3
<1> QED
  BY <1>4, FlattenTyped DEF PiecesOf

\* What chunks say, and what is waiting to be cut says after them.
SaidOf(c) == IF c.text = <<Placeholder(c.at)>> THEN <<>> ELSE TextOf(c.text)
Said(done) == FlattenSeq([k \in DOMAIN done |-> SaidOf(done[k])])
Told(s) == Said(s.done) \o TextOf(s.pending)

LEMMA SaidOfTyped ==
  ASSUME NEW doc, NEW c \in ChunkOf(doc)
  PROVE  SaidOf(c) \in AnyText
<1>1. c.text \in Seq(AnyPiece)
  BY DEF ChunkOf
<1>2. TextOf(c.text) \in AnyText /\ <<>> \in AnyText
  BY <1>1, TextOfTyped DEF AnyText
<1> QED
  BY <1>2 DEF SaidOf

LEMMA SaidTyped ==
  ASSUME NEW doc, NEW done \in Seq(ChunkOf(doc))
  PROVE  /\ [k \in DOMAIN done |-> SaidOf(done[k])] \in Seq(AnyText)
         /\ Said(done) \in AnyText
<1>1. [k \in DOMAIN done |-> SaidOf(done[k])] \in Seq(AnyText)
  <2>1. DOMAIN done = 1 .. Len(done) /\ Len(done) \in Nat /\ \A k \in DOMAIN done : done[k] \in ChunkOf(doc)
    OBVIOUS
  <2>2. \A k \in DOMAIN done : SaidOf(done[k]) \in AnyText
    BY <2>1, SaidOfTyped
  <2> QED
    BY <2>1, <2>2
<1> QED
  BY <1>1, FlattenTyped DEF Said, AnyText

LEMMA ToldTyped ==
  ASSUME NEW doc, NEW s \in CutState(doc)
  PROVE  Told(s) \in AnyText
<1>1. s.done \in Seq(ChunkOf(doc)) /\ s.pending \in Seq(AnyPiece)
  BY DEF CutState
<1>2. Said(s.done) \in AnyText /\ TextOf(s.pending) \in AnyText
  BY <1>1, SaidTyped, TextOfTyped
<1> QED
  BY <1>2, LenOfConcat DEF Told, AnyText

LEMMA SaidAppend ==
  ASSUME NEW doc, NEW done \in Seq(ChunkOf(doc)), NEW c \in ChunkOf(doc)
  PROVE  Said(done) \in AnyText /\ Said(Append(done, c)) = Said(done) \o SaidOf(c)
<1> DEFINE Each(s) == [k \in DOMAIN s |-> SaidOf(s[k])]
<1>1. Each(done) \in Seq(AnyText)
  BY SaidTyped
<1>2. Each(Append(done, c)) = Append(Each(done), SaidOf(c))
  OBVIOUS
<1> HIDE DEF Each
<1>3. FlattenSeq(Append(Each(done), SaidOf(c))) = FlattenSeq(Each(done)) \o SaidOf(c)
  BY <1>1, SaidOfTyped, FlattenAppend DEF AnyText
<1>4. Said(done) \in AnyText
  BY SaidTyped
<1> QED
  BY <1>2, <1>3, <1>4 DEF Said, Each

(* What is cut so far *)

\* Located and Tight, chunk by chunk.
OwnPieces(doc, i) == UNION {ToSet(PiecesOf(n)) : n \in ToSet(doc[i].nodes)}
NodeAt(doc, p) == doc[p[1]].nodes[p[2]]
Begins(doc, text, p) ==
  /\ NodeAt(doc, p).type \notin Structured
  /\ text[1] \in ToSet(PiecesOf(NodeAt(doc, p)))
  /\ ToSet(text) \subseteq OwnPieces(doc, p[1])
Sound(doc, c) ==
  /\ c.at[1] = c.section
  /\ IF c.type = "text" THEN Begins(doc, c.text, c.at) /\ TokenCount(c.text) <= ChunkTokens
     ELSE NodeAt(doc, c.at).type = c.type
Full(text, piece) == TokenCount(Append(text, piece)) > ChunkTokens
Follows(c, d) ==
  c.type = "text" /\ d.type = "text" /\ d.section = c.section => Full(c.text, d.text[1])

\* done is right so far; what is waiting will be a right chunk of section i after it.
Right(doc, done) ==
  /\ \A k \in DOMAIN done : Sound(doc, done[k])
  /\ \A k \in DOMAIN done : k + 1 \in DOMAIN done => Follows(done[k], done[k + 1])
WithinSections(done, i) == \A k \in DOMAIN done : done[k].section <= i
AfterLast(done, d) == done # <<>> => Follows(done[Len(done)], d)
Pending(s, i) == [section |-> i, type |-> "text", text |-> s.pending, at |-> s.at]
NoTextOf(done, i) ==
  done # <<>> => done[Len(done)].type # "text" \/ done[Len(done)].section # i
Waiting(doc, s, i) ==
  IF s.pending = <<>> THEN s.at = None /\ NoTextOf(s.done, i)
  ELSE Sound(doc, Pending(s, i)) /\ AfterLast(s.done, Pending(s, i))
Steady(doc, s, i) == Right(doc, s.done) /\ WithinSections(s.done, i) /\ Waiting(doc, s, i)

LEMMA RightIs ==
  ASSUME NEW doc, NEW done, Right(doc, done)
  PROVE  Located(done, doc) /\ Tight(done)
<1>1. Located(done, doc)
  BY DEF Right, Sound, Begins, Located, NodeAt, OwnPieces
<1>2. Tight(done)
  BY DEF Right, Sound, Follows, Full, Tight
<1> QED
  BY <1>1, <1>2

LEMMA RightAppend ==
  ASSUME NEW doc, NEW done \in Seq(ChunkOf(doc)), NEW c \in ChunkOf(doc), NEW i \in Nat,
         Right(doc, done), WithinSections(done, i),
         Sound(doc, c), AfterLast(done, c), c.section <= i
  PROVE  /\ Append(done, c) \in Seq(ChunkOf(doc)) /\ Append(done, c) # <<>>
         /\ Append(done, c)[Len(Append(done, c))] = c
         /\ Right(doc, Append(done, c)) /\ WithinSections(Append(done, c), i)
<1> DEFINE n == Len(done)
           new == Append(done, c)
<1>1. /\ n \in Nat /\ DOMAIN done = 1 .. n /\ DOMAIN new = 1 .. n + 1 /\ Len(new) = n + 1
      /\ \A k \in 1 .. n : new[k] = done[k]
      /\ new[n + 1] = c /\ new \in Seq(ChunkOf(doc))
  OBVIOUS
<1>2. n # 0 => Follows(done[n], c)
  BY <1>1 DEF AfterLast
<1> HIDE DEF n, new
<1>3. \A k \in DOMAIN new : Sound(doc, new[k])
  BY <1>1 DEF Right
<1>4. ASSUME NEW k \in DOMAIN new, k + 1 \in DOMAIN new PROVE Follows(new[k], new[k + 1])
  <2>1. CASE k + 1 <= n
    BY <1>1, <1>4, <2>1 DEF Right
  <2>2. CASE k = n
    BY <1>1, <1>2, <1>4, <2>2
  <2> QED
    BY <1>1, <1>4, <2>1, <2>2
<1>5. WithinSections(new, i)
  BY <1>1 DEF WithinSections
<1>6. new # <<>>
  BY <1>1
<1> QED
  BY <1>1, <1>3, <1>4, <1>5, <1>6 DEF Right, new

\* What is done when nothing is waiting.
Rested(doc, s, i) ==
  Right(doc, s.done) /\ WithinSections(s.done, i) /\ s.pending = <<>> /\ s.at = None

LEMMA FlushSteady ==
  ASSUME NEW doc \in Seq(AnySection), NEW s \in CutState(doc), NEW i \in DOMAIN doc,
         Steady(doc, s, i)
  PROVE  LET t == Flush(s, i) IN
         /\ t \in CutState(doc) /\ Rested(doc, t, i) /\ Told(t) = Told(s)
         /\ s.pending # <<>> => /\ t.done = Append(s.done, Pending(s, i))
                                /\ t.done # <<>> /\ t.done[Len(t.done)] = Pending(s, i)
         /\ s.pending = <<>> => t = s
<1> DEFINE t == Flush(s, i)
<1>1. t \in CutState(doc)
  BY FlushTyped
<1>2. CASE s.pending = <<>>
  <2>1. t = s
    BY <1>2 DEF Flush
  <2> QED
    BY <1>1, <1>2, <2>1 DEF Steady, Waiting, Rested
<1>3. CASE s.pending # <<>>
  <2> DEFINE c == Pending(s, i)
  <2>1. t = [done |-> Append(s.done, c), pending |-> <<>>, at |-> None]
    BY <1>3 DEF Flush, Pending
  <2>2. /\ s.done \in Seq(ChunkOf(doc)) /\ s.pending \in Seq(AnyPiece)
        /\ s.at \in Spots(doc)
    <3>1. /\ s.done \in Seq(ChunkOf(doc)) /\ s.at \in Spots(doc) \cup {None}
          /\ s.pending \in Seq(AnyPiece) /\ s.at # None
      BY <1>3 DEF CutState
    <3> QED
      BY <3>1
  <2>3. c \in ChunkOf(doc)
    BY <2>2 DEF ChunkOf, Pending
  <2>4. /\ Right(doc, s.done) /\ WithinSections(s.done, i)
        /\ Sound(doc, c) /\ AfterLast(s.done, c) /\ c.section = i /\ i \in Nat
    BY <1>3 DEF Steady, Waiting, Pending
  <2> HIDE DEF c
  <2>5. /\ Append(s.done, c) # <<>> /\ Append(s.done, c)[Len(Append(s.done, c))] = c
        /\ Right(doc, Append(s.done, c)) /\ WithinSections(Append(s.done, c), i)
    BY <2>2, <2>3, <2>4, RightAppend
  <2>6. t.done = Append(s.done, c) /\ t.pending = <<>> /\ t.at = None
    BY <2>1
  <2>7. Rested(doc, t, i)
    BY <2>5, <2>6 DEF Rested
  <2>8. Told(t) = Told(s)
    <3>1. SaidOf(c) = TextOf(s.pending)
      <4>1. s.pending # <<Placeholder(s.at)>>
        <5>1. s.pending[1] \in ToSet(PiecesOf(NodeAt(doc, s.at)))
          BY <1>3 DEF Steady, Waiting, Pending, Sound, Begins
        <5>2. NodeAt(doc, s.at) \in AnyNode
          BY <2>2, NodeTyped DEF NodeAt, Spots
        <5>3. s.pending[1].says \in Sources
          <6>1. PICK k \in DOMAIN PiecesOf(NodeAt(doc, s.at)) :
                  s.pending[1] = PiecesOf(NodeAt(doc, s.at))[k]
            BY <5>1 DEF ToSet
          <6>2. PiecesOf(NodeAt(doc, s.at))[k] \in SmallPiece
            BY <5>2, PiecesSmall
          <6> QED
            BY <6>1, <6>2 DEF SmallPiece
        <5>4. s.pending = <<Placeholder(s.at)>> => s.pending[1].says = s.at
          BY DEF Placeholder
        <5> QED
          BY <2>2, <5>3, <5>4, PlacesAssumption DEF Spots
      <4> QED
        BY <4>1 DEF SaidOf, c, Pending
    <3>2. Said(Append(s.done, c)) = Said(s.done) \o SaidOf(c) /\ Said(s.done) \in AnyText
      BY <2>2, <2>3, SaidAppend
    <3>3. Said(s.done) \o TextOf(s.pending) \in AnyText
      BY <2>2, <3>2, TextOfTyped, LenOfConcat DEF AnyText
    <3>4. (Said(s.done) \o TextOf(s.pending)) \o <<>> = Said(s.done) \o TextOf(s.pending)
      BY <3>3, ConcatNothing DEF AnyText
    <3>5. Told(t) = Said(t.done) \o TextOf(<<>>)
      BY <2>6 DEF Told
    <3>6. Told(t) = (Said(s.done) \o TextOf(s.pending)) \o <<>>
      BY <2>6, <3>1, <3>2, <3>5, TextOfNothing, Zenon
    <3> QED
      BY <3>4, <3>6 DEF Told
  <2> QED
    BY <1>1, <1>3, <2>5, <2>6, <2>7, <2>8 DEF c
<1> QED
  BY <1>2, <1>3

LEMMA AppendPiece ==
  ASSUME NEW pieces \in Seq(AnyPiece), NEW piece \in AnyPiece
  PROVE  /\ Append(pieces, piece) \in Seq(AnyPiece) /\ Append(pieces, piece) # <<>>
         /\ ToSet(Append(pieces, piece)) = ToSet(pieces) \cup {piece}
         /\ pieces = <<>> => Append(pieces, piece)[1] = piece
         /\ pieces # <<>> => Append(pieces, piece)[1] = pieces[1]
<1> DEFINE n == Len(pieces)
           new == Append(pieces, piece)
<1>1. /\ n \in Nat /\ DOMAIN pieces = 1 .. n /\ DOMAIN new = 1 .. n + 1
      /\ \A k \in 1 .. n : new[k] = pieces[k]
      /\ new[n + 1] = piece /\ new \in Seq(AnyPiece) /\ new # <<>>
      /\ pieces = <<>> <=> n = 0
  OBVIOUS
<1> HIDE DEF n, new
<1>2. ToSet(new) = ToSet(pieces) \cup {piece}
  BY <1>1 DEF ToSet
<1>3. new[1] = IF pieces = <<>> THEN piece ELSE pieces[1]
  BY <1>1
<1> QED
  BY <1>1, <1>2, <1>3 DEF new

LEMMA AddPieceSteady ==
  ASSUME NEW doc \in Seq(AnySection), NEW s \in CutState(doc), NEW place \in Spots(doc),
         NEW piece \in SmallPiece, Steady(doc, s, place[1]),
         NodeAt(doc, place).type \notin Structured,
         piece \in ToSet(PiecesOf(NodeAt(doc, place)))
  PROVE  LET t == AddPiece(s, place, piece) IN
         Steady(doc, t, place[1]) /\ Told(t) = Told(s) \o Characters(piece)
<1> DEFINE i == place[1]
           t == AddPiece(s, place, piece)
<1>1. /\ i \in DOMAIN doc /\ i \in Nat /\ place[2] \in DOMAIN doc[i].nodes
      /\ place \in Places /\ place # None /\ piece \in AnyPiece
  BY PlacesAssumption DEF Spots, Places, SmallPiece
<1>2. piece \in OwnPieces(doc, i)
  BY <1>1 DEF OwnPieces, NodeAt, ToSet
<1>3. /\ s.done \in Seq(ChunkOf(doc)) /\ s.pending \in Seq(AnyPiece)
      /\ s.at \in Spots(doc) \cup {None}
  BY DEF CutState
<1>4. Said(s.done) \in AnyText /\ TextOf(s.pending) \in AnyText /\ Characters(piece) \in AnyText
  <2>1. Said(s.done) \in AnyText
    BY <1>3, SaidTyped
  <2> QED
    BY <1>1, <1>3, <2>1, TextOfTyped, CharactersTyped
<1>5. CASE ~Full(s.pending, piece)
  <2>1. /\ t.done = s.done /\ t.pending = Append(s.pending, piece)
        /\ t.at = IF s.at = None THEN place ELSE s.at
    <3>1. s \in [done : Seq(ChunkOf(doc)), pending : Seq(AnyPiece), at : Spots(doc) \cup {None}]
      BY DEF CutState
    <3>2. t = [s EXCEPT !.at = IF s.at = None THEN place ELSE s.at,
                        !.pending = Append(s.pending, piece)]
      BY <1>5 DEF AddPiece, Full
    <3> HIDE DEF t
    <3> QED
      BY <3>1, <3>2
  <2>2. /\ t.pending \in Seq(AnyPiece) /\ t.pending # <<>>
        /\ ToSet(t.pending) = ToSet(s.pending) \cup {piece}
        /\ s.pending = <<>> => t.pending[1] = piece
        /\ s.pending # <<>> => t.pending[1] = s.pending[1]
    <3> DEFINE p == s.pending
    <3> HIDE DEF t, p
    <3>1. p \in Seq(AnyPiece) /\ t.pending = Append(p, piece)
      BY <1>3, <2>1 DEF p
    <3>2. /\ Append(p, piece) \in Seq(AnyPiece) /\ Append(p, piece) # <<>>
          /\ ToSet(Append(p, piece)) = ToSet(p) \cup {piece}
          /\ p = <<>> => Append(p, piece)[1] = piece
          /\ p # <<>> => Append(p, piece)[1] = p[1]
      BY <1>1, <3>1, AppendPiece
    <3> QED
      BY <3>1, <3>2, Zenon DEF p
  <2>3. TokenCount(t.pending) <= ChunkTokens
    <3> DEFINE p == t.pending
               count == TokenCount(p)
    <3>1. p \in Seq(AnyPiece) /\ ~(count > ChunkTokens)
      BY <1>5, <2>1, <2>2, Zenon DEF Full
    <3> HIDE DEF p
    <3>2. count \in Nat
      BY <3>1, TokenCountTyped
    <3> HIDE DEF count
    <3>3. count <= ChunkTokens
      BY <3>1, <3>2, ChunkingAssumption
    <3> QED
      BY <3>3 DEF count, p
  <2>4. Told(t) = Told(s) \o Characters(piece)
    <3>1. TextOf(t.pending) = TextOf(s.pending) \o Characters(piece)
      BY <1>1, <1>3, <2>1, TextOfAppend
    <3>2. (Said(s.done) \o TextOf(s.pending)) \o Characters(piece)
            = Said(s.done) \o (TextOf(s.pending) \o Characters(piece))
      BY SMTT(20), <1>4, ConcatAgain DEF AnyText
    <3> QED
      BY <2>1, <3>1, <3>2, Zenon DEF Told
  <2>5. CASE s.pending = <<>>
    <3>1. s.at = None /\ NoTextOf(s.done, i)
      BY <2>5 DEF Steady, Waiting
    <3>2. t.at = place
      BY <2>1, <3>1
    <3>3. ToSet(s.pending) = {}
      BY <2>5 DEF ToSet
    <3>4. Sound(doc, Pending(t, i))
      BY <1>2, <2>2, <2>3, <2>5, <3>2, <3>3 DEF Sound, Begins, Pending
    <3>5. AfterLast(t.done, Pending(t, i))
      BY <2>1, <3>1 DEF AfterLast, Follows, Pending, NoTextOf
    <3> HIDE DEF t
    <3>6. Steady(doc, t, i)
      BY <2>1, <2>2, <3>4, <3>5 DEF Steady, Waiting
    <3> QED
      BY <2>4, <3>6 DEF t
  <2>6. CASE s.pending # <<>>
    <3>1. Sound(doc, Pending(s, i)) /\ AfterLast(s.done, Pending(s, i)) /\ s.at # None
      BY <2>6 DEF Steady, Waiting, CutState
    <3>2. t.at = s.at /\ s.at[1] = i
      BY <2>1, <3>1 DEF Sound, Pending
    <3>3. Sound(doc, Pending(t, i))
      BY <1>2, <2>2, <2>3, <2>6, <3>1, <3>2 DEF Sound, Begins, Pending
    <3>4. AfterLast(t.done, Pending(t, i))
      BY <2>1, <2>2, <2>6, <3>1 DEF AfterLast, Follows, Pending
    <3> HIDE DEF t
    <3>5. Steady(doc, t, i)
      BY <2>1, <2>2, <3>3, <3>4 DEF Steady, Waiting
    <3> QED
      BY <2>4, <3>5 DEF t
  <2> QED
    BY <2>5, <2>6
<1>6. CASE Full(s.pending, piece)
  <2> DEFINE room == Flush(s, i)
  <2>1. s.pending # <<>>
    <3>1. s.pending = <<>> => Append(s.pending, piece) = <<piece>>
      OBVIOUS
    <3>2. TokenCount(<<piece>>) <= ChunkTokens /\ TokenCount(<<piece>>) \in Nat
      BY TokenCountOfOne
    <3>3. s.pending = <<>> => TokenCount(<<piece>>) > ChunkTokens
      BY <1>6, <3>1, Zenon DEF Full
    <3> DEFINE count == TokenCount(<<piece>>)
    <3>4. count <= ChunkTokens /\ count \in Nat /\ (s.pending = <<>> => count > ChunkTokens)
      BY <3>2, <3>3
    <3> HIDE DEF count
    <3> QED
      BY <3>4, ChunkingAssumption
  <2>2. /\ room \in CutState(doc) /\ Rested(doc, room, i) /\ Told(room) = Told(s)
        /\ room.done # <<>> /\ room.done[Len(room.done)] = Pending(s, i)
    BY <1>1, <2>1, FlushSteady
  <2>3. t = [room EXCEPT !.at = IF room.at = None THEN place ELSE room.at,
                         !.pending = Append(room.pending, piece)]
    BY <1>6 DEF AddPiece, Full
  <2> HIDE DEF t, room
  <2>4. t.done = room.done /\ t.pending = <<piece>> /\ t.at = place
    <3>1. room \in [done : Seq(ChunkOf(doc)), pending : Seq(AnyPiece), at : Spots(doc) \cup {None}]
      BY <2>2 DEF CutState
    <3>2. room.pending = <<>> /\ room.at = None
      BY <2>2 DEF Rested
    <3> QED
      BY <2>3, <3>1, <3>2
  <2>5. <<piece>> # <<>> /\ <<piece>>[1] = piece /\ ToSet(<<piece>>) = {piece}
    BY DEF ToSet
  <2>6. Sound(doc, Pending(t, i))
    BY <1>2, <2>4, <2>5, TokenCountOfOne DEF Sound, Begins, Pending
  <2>7. AfterLast(t.done, Pending(t, i))
    BY <1>6, <2>2, <2>4, <2>5 DEF AfterLast, Follows, Pending
  <2>8. Steady(doc, t, i)
    BY <2>2, <2>4, <2>5, <2>6, <2>7 DEF Steady, Waiting, Rested
  <2>9. Told(t) = Told(s) \o Characters(piece)
    <3>1. TextOf(<<piece>>) = Characters(piece)
      <4>1. <<piece>> = Append(<<>>, piece) /\ <<>> \in Seq(AnyPiece)
        OBVIOUS
      <4>2. TextOf(Append(<<>>, piece)) = <<>> \o Characters(piece)
        BY <1>1, <4>1, TextOfAppend, TextOfNothing
      <4>3. <<>> \o Characters(piece) = Characters(piece)
        BY <1>4, ConcatNothing DEF AnyText
      <4> QED
        BY <4>1, <4>2, <4>3
    <3>2. Told(room) = Said(room.done) \o <<>> /\ Said(room.done) \in AnyText
      <4>1. room.done \in Seq(ChunkOf(doc)) /\ room.pending = <<>>
        BY <2>2 DEF CutState, Rested
      <4> QED
        BY <4>1, SaidTyped, TextOfNothing DEF Told
    <3>3. Said(room.done) \o <<>> = Said(room.done)
      BY <3>2, ConcatNothing DEF AnyText
    <3> QED
      BY <2>2, <2>4, <3>1, <3>2, <3>3, Zenon DEF Told
  <2> QED
    BY <2>8, <2>9 DEF t
<1> QED
  BY <1>5, <1>6

\* The pieces of one node after the other.
LEMMA AddPiecesSteady ==
  ASSUME NEW doc \in Seq(AnySection), NEW s \in CutState(doc), NEW place \in Spots(doc),
         Steady(doc, s, place[1]), NodeAt(doc, place).type \notin Structured
  PROVE  LET pieces == PiecesOf(NodeAt(doc, place))
             t == AddPieces(s, place, pieces) IN
         Steady(doc, t, place[1]) /\ Told(t) = Told(s) \o TextOf(pieces)
<1> DEFINE pieces == PiecesOf(NodeAt(doc, place))
           each == [k \in DOMAIN pieces |-> Characters(pieces[k])]
           n == Len(pieces)
<1>1. pieces \in Seq(SmallPiece) /\ pieces \in Seq(AnyPiece)
  <2>1. NodeAt(doc, place) \in AnyNode
    BY NodeTyped DEF NodeAt, Spots
  <2> QED
    BY <2>1, PiecesSmall, PiecesOfTyped
<1> HIDE DEF pieces
<1>2. n \in Nat /\ DOMAIN pieces = 1 .. n
  BY <1>1
<1>3. /\ each \in Seq(AnyText) /\ Len(each) = n
      /\ \A k \in 1 .. n : each[k] = Characters(pieces[k])
  <2>1. each \in Seq(AnyText) /\ DOMAIN each = 1 .. n
    BY <1>1, <1>2, EachTyped
  <2>2. \A k \in 1 .. n : each[k] = Characters(pieces[k])
    BY <1>2
  <2> HIDE DEF each, n
  <2> QED
    BY <1>2, <2>1, <2>2
<1>4. PICK f \in [0 .. n -> CutState(doc)] :
        /\ f[0] = s /\ f[n] = AddPieces(s, place, pieces)
        /\ \A k \in 1 .. n : f[k] = AddPiece(f[k - 1], place, pieces[k])
  BY <1>1, AddPiecesTrace
<1> HIDE DEF each, n
<1>5. PICK F \in [0 .. n -> AnyText] :
        /\ F[0] = <<>> /\ F[n] = FlattenSeq(each)
        /\ \A k \in 1 .. n : F[k] = F[k - 1] \o each[k]
  <2>1. \E F \in [0 .. Len(each) -> AnyText] :
          /\ F[0] = <<>> /\ FlattenSeq(each) = F[Len(each)]
          /\ \A k \in 1 .. Len(each) : F[k] = F[k - 1] \o each[k]
    BY <1>3, FlattenTrace DEF AnyText
  <2> QED
    BY <1>3, <2>1
<1> DEFINE Holds(k) == Steady(doc, f[k], place[1]) /\ Told(f[k]) = Told(s) \o F[k]
           Good == {k \in 0 .. n : Holds(k)}
<1>6. Told(s) \in AnyText
  BY ToldTyped
<1>7. 0 \in Good
  <2>1. Told(s) \o <<>> = Told(s)
    BY <1>6, ConcatNothing DEF AnyText
  <2>2. Holds(0)
    BY <1>4, <1>5, <2>1, Zenon
  <2> HIDE DEF Holds
  <2> QED
    BY <1>2, <2>2
<1>8. ASSUME NEW k \in 1 .. n, k - 1 \in Good PROVE k \in Good
  <2>1. /\ k - 1 \in 0 .. n /\ k \in 0 .. n
        /\ Steady(doc, f[k - 1], place[1]) /\ Told(f[k - 1]) = Told(s) \o F[k - 1]
    BY <1>2, <1>8
  <2>2. f[k - 1] \in CutState(doc) /\ F[k - 1] \in AnyText
    BY <1>4, <1>5, <2>1
  <2> DEFINE last == f[k - 1]
             piece == pieces[k]
             more == Characters(piece)
  <2>3. piece \in SmallPiece /\ piece \in AnyPiece /\ piece \in ToSet(PiecesOf(NodeAt(doc, place)))
    BY <1>1, <1>2 DEF ToSet, pieces
  <2>4. f[k] = AddPiece(last, place, piece) /\ last \in CutState(doc) /\ Steady(doc, last, place[1])
    BY <1>4, <2>1, <2>2
  <2> HIDE DEF last, piece
  <2>5. Steady(doc, f[k], place[1]) /\ Told(f[k]) = Told(last) \o more
    BY <2>3, <2>4, AddPieceSteady
  <2>6. more \in AnyText
    BY <2>3, CharactersTyped
  <2>9. F[k] = F[k - 1] \o more
    <3>1. each[k] = more
      BY <1>3 DEF piece
    <3>2. F[k] = F[k - 1] \o each[k]
      BY <1>5
    <3> QED
      BY <3>1, <3>2, Zenon
  <2> HIDE DEF more
  <2>7. (Told(s) \o F[k - 1]) \o more = Told(s) \o (F[k - 1] \o more)
    <3> DEFINE told == Told(s)
               before == F[k - 1]
    <3>1. told \in Seq(AnyGlyph) /\ before \in Seq(AnyGlyph) /\ more \in Seq(AnyGlyph)
      BY <1>6, <2>2, <2>6 DEF AnyText
    <3> HIDE DEF told, before
    <3>2. (told \o before) \o more = told \o (before \o more)
      BY <3>1
    <3> QED
      BY <3>2 DEF told, before
  <2>8. Told(f[k]) = Told(s) \o F[k]
    BY <2>1, <2>5, <2>7, <2>9, Zenon DEF last
  <2> QED
    BY <2>1, <2>5, <2>8
<1>9. n \in Good
  <2> HIDE DEF Good
  <2>1. 0 .. n \subseteq Good
    BY <1>2, <1>7, <1>8, UptoInduction
  <2> QED
    BY <1>2, <2>1
<1> QED
  BY <1>4, <1>5, <1>9 DEF TextOf, each, pieces

\* A node: a table or an image is a chunk of its own, text waits for more.
LEMMA AddNodeSteady ==
  ASSUME NEW doc \in Seq(AnySection), NEW s \in CutState(doc), NEW place \in Spots(doc),
         Steady(doc, s, place[1])
  PROVE  LET t == AddNode(s, place, NodeAt(doc, place)) IN
         /\ Steady(doc, t, place[1])
         /\ Told(t) = Told(s) \o NodeText(doc, place[1], place[2])
<1> DEFINE i == place[1]
           node == NodeAt(doc, place)
           text == TextOf(PiecesOf(node))
           t == AddNode(s, place, node)
<1>1. /\ i \in DOMAIN doc /\ i \in Nat /\ node \in AnyNode /\ place \in Places
      /\ NodeText(doc, i, place[2]) = text
  BY NodeTyped DEF Spots, NodeAt, NodeText
<1> HIDE DEF node
<1>2. CASE node.type \notin Structured
  <2>1. t = AddPieces(s, place, PiecesOf(node))
    BY <1>2 DEF AddNode
  <2> QED
    BY <1>1, <1>2, <2>1, AddPiecesSteady DEF node
<1>3. CASE node.type \in Structured
  <2> DEFINE closed == Flush(s, i)
             c == [section |-> i, type |-> node.type, text |-> Own(node, place), at |-> place]
  <2>1. t = [closed EXCEPT !.done = Append(closed.done, c)]
    BY <1>3 DEF AddNode, Own
  <2>2. closed \in CutState(doc) /\ Rested(doc, closed, i) /\ Told(closed) = Told(s)
    BY <1>1, FlushSteady
  <2>3. c \in ChunkOf(doc) /\ c.type = node.type /\ c.section = i /\ c.at = place /\ c.text = Own(node, place)
    <3>1. Own(node, place) \in Seq(AnyPiece) /\ node.type \in {"text", "table", "image"}
      BY <1>1, <1>3, OwnTyped DEF Structured
    <3> QED
      BY <1>1, <3>1 DEF ChunkOf
  <2>4. c.type # "text"
    BY <1>3, <2>3 DEF Structured
  <2> HIDE DEF closed, c, t
  <2>5. /\ closed.done \in Seq(ChunkOf(doc)) /\ closed.pending = <<>> /\ closed.at = None
        /\ Right(doc, closed.done) /\ WithinSections(closed.done, i)
    BY <2>2 DEF CutState, Rested
  <2>6. t.done = Append(closed.done, c) /\ t.pending = <<>> /\ t.at = None
    <3>1. closed \in [done : Seq(ChunkOf(doc)), pending : Seq(AnyPiece), at : Spots(doc) \cup {None}]
      BY <2>2 DEF CutState
    <3> QED
      BY <2>1, <2>5, <3>1
  <2>7. Sound(doc, c) /\ AfterLast(closed.done, c)
    BY <2>3, <2>4 DEF Sound, AfterLast, Follows, node
  <2>8. /\ Append(closed.done, c) # <<>> /\ Append(closed.done, c)[Len(Append(closed.done, c))] = c
        /\ Right(doc, Append(closed.done, c)) /\ WithinSections(Append(closed.done, c), i)
    BY <1>1, <2>3, <2>5, <2>7, RightAppend
  <2>9. Steady(doc, t, i)
    BY <2>4, <2>6, <2>8 DEF Steady, Waiting, NoTextOf
  <2>10. SaidOf(c) = text
    <3>1. node.text \in Seq(AnySentence)
      BY <1>1 DEF AnyNode
    <3>2. CASE node.text = <<>>
      <4>1. [k \in DOMAIN node.text |-> Pieces(node.text[k])] = <<>>
        BY <3>2
      <4>2. text = <<>>
        BY <4>1, FlattenEmpty, TextOfNothing DEF PiecesOf
      <4>3. c.text = <<Placeholder(c.at)>>
        BY <2>3, <3>2 DEF Own
      <4> QED
        BY <4>2, <4>3 DEF SaidOf
    <3>3. CASE node.text # <<>>
      <4>1. c.text = Whole(node)
        BY <2>3, <3>3 DEF Own, Whole, Uncut
      <4>2. 1 \in DOMAIN node.text /\ node.text[1] \in AnySentence
        BY <3>1, <3>3
      <4>3. c.text[1].says \in Sources
        BY <4>1, <4>2 DEF Whole, Uncut, AnySentence
      <4>4. c.text = <<Placeholder(c.at)>> => c.text[1].says = c.at
        BY DEF Placeholder
      <4>5. c.text # <<Placeholder(c.at)>>
        BY <1>1, <2>3, <4>3, <4>4, PlacesAssumption
      <4> QED
        BY <1>1, <4>1, <4>5, NodeSays DEF SaidOf
    <3> QED
      BY <3>2, <3>3
  <2>11. Told(t) = Told(s) \o text
    <3> DEFINE said == Said(closed.done)
               new == Said(t.done)
    <3>1. said \in AnyText /\ new = said \o SaidOf(c)
      BY <2>3, <2>5, <2>6, SaidAppend
    <3>2. Told(t) = new \o <<>> /\ Told(closed) = said \o <<>>
      BY <2>5, <2>6, TextOfNothing DEF Told
    <3> HIDE DEF said, new
    <3>4. new \in AnyText
      BY <2>3, <3>1, SaidOfTyped, LenOfConcat DEF AnyText
    <3>5. new \o <<>> = new /\ said \o <<>> = said
      BY <3>1, <3>4, ConcatNothing DEF AnyText
    <3>6. Told(t) = new /\ Told(s) = said
      BY <2>2, <3>2, <3>5
    <3>7. new = said \o text
      BY <2>10, <3>1, Zenon
    <3> QED
      BY <3>6, <3>7, Zenon
  <2> QED
    BY <1>1, <2>9, <2>11, Zenon DEF t, node
<1> QED
  BY <1>2, <1>3 DEF node

\* The nodes of a section, and then the sections.
LEMMA AddSectionRested ==
  ASSUME NEW doc \in Seq(AnySection), NEW s \in CutState(doc), NEW i \in DOMAIN doc,
         Rested(doc, s, i - 1)
  PROVE  LET t == AddSection(s, doc, i) IN
         Rested(doc, t, i) /\ Told(t) = Told(s) \o SectionText(doc, i)
<1> DEFINE seq == Upto(Len(doc[i].nodes))
           n == Len(seq)
           texts == [j \in DOMAIN doc[i].nodes |-> NodeText(doc, i, j)]
<1>1. /\ n \in Nat /\ n = Len(doc[i].nodes) /\ DOMAIN doc[i].nodes = 1 .. n /\ i \in Nat
      /\ \A j \in 1 .. n : seq[j] = j /\ <<i, j>> \in Spots(doc)
  <2> DEFINE m == Len(doc[i].nodes)
  <2>1. m \in Nat /\ DOMAIN doc[i].nodes = 1 .. m /\ i \in Nat
    BY NodeTyped
  <2>2. \A j \in 1 .. m : <<i, j>> \in Spots(doc)
    BY SpotOf
  <2> HIDE DEF m
  <2>3. Len(Upto(m)) = m /\ \A j \in 1 .. m : Upto(m)[j] = j
    BY <2>1, UptoIs
  <2> QED
    BY <2>1, <2>2, <2>3 DEF m
<1>2. PICK f \in [0 .. n -> CutState(doc)] :
        /\ f[0] = s /\ f[n] = AddNodes(s, doc, i)
        /\ \A j \in 1 .. n : f[j] = AddNode(f[j - 1], <<i, seq[j]>>, doc[i].nodes[seq[j]])
  BY AddNodesTrace
<1> HIDE DEF n, seq
<1>3. texts \in Seq(AnyText) /\ Len(texts) = n /\ \A j \in 1 .. n : texts[j] = NodeText(doc, i, j)
  <2>1. texts \in Seq(AnyText)
    BY NodeTextsTyped
  <2>2. DOMAIN texts = 1 .. n /\ \A j \in 1 .. n : texts[j] = NodeText(doc, i, j)
    BY <1>1
  <2> HIDE DEF texts
  <2> QED
    BY <1>1, <2>1, <2>2
<1> HIDE DEF texts
<1>4. PICK F \in [0 .. n -> AnyText] :
        /\ F[0] = <<>> /\ F[n] = FlattenSeq(texts)
        /\ \A j \in 1 .. n : F[j] = F[j - 1] \o texts[j]
  <2>1. \E F \in [0 .. Len(texts) -> AnyText] :
          /\ F[0] = <<>> /\ FlattenSeq(texts) = F[Len(texts)]
          /\ \A j \in 1 .. Len(texts) : F[j] = F[j - 1] \o texts[j]
    BY <1>3, FlattenTrace DEF AnyText
  <2> QED
    BY <1>3, <2>1
<1> DEFINE Holds(j) == Steady(doc, f[j], i) /\ Told(f[j]) = Told(s) \o F[j]
           Good == {j \in 0 .. n : Holds(j)}
<1>5. Told(s) \in AnyText
  BY ToldTyped
<1>6. 0 \in Good
  <2>1. Told(s) \o <<>> = Told(s)
    BY <1>5, ConcatNothing DEF AnyText
  <2>2. Steady(doc, s, i)
    <3>1. /\ Right(doc, s.done) /\ s.pending = <<>> /\ s.at = None
          /\ \A k \in DOMAIN s.done : s.done[k].section <= i - 1
      BY DEF Rested, WithinSections
    <3>2. /\ DOMAIN s.done = 1 .. Len(s.done) /\ Len(s.done) \in Nat
          /\ \A k \in DOMAIN s.done : s.done[k].section \in Nat
          /\ s.done # <<>> => Len(s.done) \in DOMAIN s.done
      <4>1. s.done \in Seq(ChunkOf(doc)) /\ DOMAIN doc \subseteq Nat
        BY DEF CutState
      <4>2. \A k \in DOMAIN s.done : s.done[k] \in ChunkOf(doc)
        BY <4>1
      <4>3. \A k \in DOMAIN s.done : s.done[k].section \in Nat
        BY <4>1, <4>2 DEF ChunkOf
      <4> QED
        BY <4>1, <4>3
    <3>3. WithinSections(s.done, i)
      BY <1>1, <3>1, <3>2 DEF WithinSections
    <3>4. NoTextOf(s.done, i)
      <4> DEFINE done == s.done
                 last == Len(done)
      <4>1. done # <<>> => last \in DOMAIN done /\ done[last].section \in Nat
                           /\ done[last].section <= i - 1
        BY <3>1, <3>2
      <4> HIDE DEF last
      <4>2. done # <<>> => done[last].section # i
        <5> HIDE DEF done
        <5> QED
          BY <1>1, <4>1
      <4> QED
        BY <4>2, Zenon DEF NoTextOf, last
    <3> QED
      BY <3>1, <3>3, <3>4 DEF Steady, Waiting
  <2>3. Holds(0)
    BY <1>2, <1>4, <2>1, <2>2, Zenon
  <2> HIDE DEF Holds
  <2> QED
    BY <1>1, <2>3
<1>7. ASSUME NEW j \in 1 .. n, j - 1 \in Good PROVE j \in Good
  <2> DEFINE last == f[j - 1]
             more == NodeText(doc, i, j)
             place == <<i, j>>
  <2>1. j - 1 \in 0 .. n /\ j \in 0 .. n /\ Holds(j - 1) /\ last \in CutState(doc) /\ F[j - 1] \in AnyText
    <3>1. j - 1 \in 0 .. n /\ j \in 0 .. n
      BY <1>1
    <3>2. Holds(j - 1)
      <4> HIDE DEF Holds
      <4> QED
        BY <1>7
    <3> HIDE DEF Holds
    <3> QED
      BY <1>2, <1>4, <3>1, <3>2
  <2>2. /\ place \in Spots(doc) /\ place[1] = i /\ place[2] = j
        /\ NodeAt(doc, place) = doc[i].nodes[j] /\ seq[j] = j
    BY <1>1 DEF NodeAt
  <2>3. f[j] = AddNode(last, place, NodeAt(doc, place))
    BY <1>2, <2>2
  <2> HIDE DEF place
  <2>4. Steady(doc, last, place[1]) /\ Told(last) = Told(s) \o F[j - 1]
    BY <2>1, <2>2, Zenon
  <2> HIDE DEF last
  <2>5. Steady(doc, f[j], i) /\ Told(f[j]) = Told(last) \o more
    BY <2>1, <2>2, <2>3, <2>4, AddNodeSteady
  <2>6. more \in AnyText /\ texts[j] = more
    BY <1>1, <1>3, NodeTextsTyped
  <2>7. F[j] = F[j - 1] \o more
    <3>1. F[j] = F[j - 1] \o texts[j]
      BY <1>4
    <3> QED
      BY <2>6, <3>1, Zenon
  <2> HIDE DEF more
  <2>8. (Told(s) \o F[j - 1]) \o more = Told(s) \o (F[j - 1] \o more)
    <3> DEFINE told == Told(s)
               before == F[j - 1]
    <3>1. told \in Seq(AnyGlyph) /\ before \in Seq(AnyGlyph) /\ more \in Seq(AnyGlyph)
      BY <1>5, <2>1, <2>6 DEF AnyText
    <3> HIDE DEF told, before
    <3>2. (told \o before) \o more = told \o (before \o more)
      BY SMTT(20), <3>1
    <3> QED
      BY <3>2 DEF told, before
  <2>9. Holds(j)
    BY <2>4, <2>5, <2>7, <2>8, Zenon
  <2> HIDE DEF Holds
  <2> QED
    BY <2>1, <2>9
<1>8. n \in Good
  <2> HIDE DEF Good
  <2>1. 0 .. n \subseteq Good
    BY <1>1, <1>6, <1>7, UptoInduction
  <2> QED
    BY <1>1, <2>1
<1>9. AddNodes(s, doc, i) \in CutState(doc)
  BY <1>1, <1>2
<1>10. Steady(doc, AddNodes(s, doc, i), i) /\ Told(AddNodes(s, doc, i)) = Told(s) \o SectionText(doc, i)
  BY <1>2, <1>4, <1>8, Zenon DEF SectionText, texts
<1> DEFINE u == AddNodes(s, doc, i)
<1>11. AddSection(s, doc, i) = Flush(u, i)
  BY DEF AddSection
<1> HIDE DEF u
<1>12. Rested(doc, Flush(u, i), i) /\ Told(Flush(u, i)) = Told(u)
  BY <1>9, <1>10, FlushSteady DEF u
<1> QED
  BY <1>10, <1>11, <1>12, Zenon DEF u

\* The chunks of every document.
LEMMA ChunksSound ==
  ASSUME NEW doc \in Seq(AnySection)
  PROVE  LET cs == Chunks(doc) IN Says(cs, doc) /\ Located(cs, doc) /\ Tight(cs)
<1> DEFINE seq == Upto(Len(doc))
           n == Len(seq)
           texts == [i \in DOMAIN doc |-> SectionText(doc, i)]
<1>1. n \in Nat /\ n = Len(doc) /\ DOMAIN doc = 1 .. n /\ \A i \in 1 .. n : seq[i] = i
  BY UptoIs
<1>2. PICK f \in [0 .. n -> CutState(doc)] :
        /\ f[0] = Open /\ f[n] = AddSections(doc)
        /\ \A i \in 1 .. n : f[i] = AddSection(f[i - 1], doc, seq[i])
  BY AddSectionsTrace
<1> HIDE DEF n, seq
<1>3. texts \in Seq(AnyText) /\ Len(texts) = n /\ \A i \in 1 .. n : texts[i] = SectionText(doc, i)
  <2>1. \A i \in 1 .. n : SectionText(doc, i) \in AnyText
    BY <1>1, NodeTextsTyped
  <2>2. texts = [i \in 1 .. n |-> SectionText(doc, i)]
    BY <1>1
  <2> HIDE DEF texts
  <2> QED
    BY <1>1, <2>1, <2>2
<1> HIDE DEF texts
<1>4. PICK F \in [0 .. n -> AnyText] :
        /\ F[0] = <<>> /\ F[n] = FlattenSeq(texts)
        /\ \A i \in 1 .. n : F[i] = F[i - 1] \o texts[i]
  <2>1. \E F \in [0 .. Len(texts) -> AnyText] :
          /\ F[0] = <<>> /\ FlattenSeq(texts) = F[Len(texts)]
          /\ \A i \in 1 .. Len(texts) : F[i] = F[i - 1] \o texts[i]
    BY <1>3, FlattenTrace DEF AnyText
  <2> QED
    BY <1>3, <2>1
<1> DEFINE Holds(i) == Rested(doc, f[i], i) /\ Told(f[i]) = F[i]
           Good == {i \in 0 .. n : Holds(i)}
<1>5. 0 \in Good
  <2>1. Open.done = <<>> /\ Open.pending = <<>> /\ Open.at = None
    BY DEF Open
  <2>2. Rested(doc, Open, 0)
    BY <2>1 DEF Rested, Right, WithinSections
  <2>3. Told(Open) = <<>> \o <<>>
    <3>1. [k \in DOMAIN <<>> |-> SaidOf(<<>>[k])] = <<>>
      OBVIOUS
    <3> QED
      BY <2>1, <3>1, TextOfNothing, FlattenEmpty DEF Told, Said
  <2>4. <<>> \o <<>> = <<>>
    OBVIOUS
  <2>5. Holds(0)
    BY <1>2, <1>4, <2>2, <2>3, <2>4
  <2> HIDE DEF Holds
  <2> QED
    BY <1>1, <2>5
<1>6. ASSUME NEW i \in 1 .. n, i - 1 \in Good PROVE i \in Good
  <2> DEFINE last == f[i - 1]
  <2>1. i - 1 \in 0 .. n /\ i \in 0 .. n /\ Holds(i - 1) /\ last \in CutState(doc) /\ i \in DOMAIN doc
    BY <1>1, <1>2, <1>6
  <2>2. f[i] = AddSection(last, doc, i)
    BY <1>1, <1>2
  <2>3. Rested(doc, last, i - 1) /\ Told(last) = F[i - 1]
    BY <2>1
  <2> HIDE DEF last
  <2>4. Rested(doc, f[i], i) /\ Told(f[i]) = Told(last) \o SectionText(doc, i)
    BY <2>1, <2>2, <2>3, AddSectionRested
  <2>5. F[i] = F[i - 1] \o SectionText(doc, i)
    <3>1. F[i] = F[i - 1] \o texts[i] /\ texts[i] = SectionText(doc, i)
      BY <1>3, <1>4
    <3> QED
      BY <3>1, Zenon
  <2>6. Holds(i)
    BY <2>3, <2>4, <2>5, Zenon
  <2> HIDE DEF Holds
  <2> QED
    BY <2>1, <2>6
<1>7. n \in Good
  <2> HIDE DEF Good
  <2>1. 0 .. n \subseteq Good
    BY <1>1, <1>5, <1>6, UptoInduction
  <2> QED
    BY <1>1, <2>1
<1> DEFINE final == AddSections(doc)
<1>8. final \in CutState(doc) /\ Rested(doc, final, n) /\ Told(final) = DocumentText(doc)
  BY <1>1, <1>2, <1>4, <1>7 DEF DocumentText, texts
<1> HIDE DEF final
<1>9. Said(final.done) = DocumentText(doc)
  <2>1. final.done \in Seq(ChunkOf(doc)) /\ final.pending = <<>>
    BY <1>8 DEF CutState, Rested
  <2>2. Said(final.done) \in AnyText
    BY <2>1, SaidTyped
  <2>3. Said(final.done) \o <<>> = Said(final.done)
    BY <2>2, ConcatNothing DEF AnyText
  <2>4. Told(final) = Said(final.done) \o <<>>
    BY <2>1, TextOfNothing DEF Told
  <2> QED
    BY <1>8, <2>3, <2>4
<1>10. Right(doc, final.done)
  BY <1>8 DEF Rested
<1>11. Located(final.done, doc) /\ Tight(final.done)
  BY <1>10, RightIs
<1>12. Says(final.done, doc)
  BY <1>9, ReadingSays DEF Says, Said, SaidOf
<1> QED
  BY <1>11, <1>12 DEF Chunks, final

-------------------------------------------------------------------------------
(* What is drafted *)

\* What is taken is no longer than what it is taken from.
LEMMA PicksFewer ==
  ASSUME NEW D, NEW E, NEW taken \in Seq(D), NEW seq \in Seq(E), NEW pos, Picks(pos, taken, seq)
  PROVE  Len(taken) <= Len(seq)
<1> DEFINE m == Len(taken)
           n == Len(seq)
<1>1. m \in Nat /\ n \in Nat /\ 1 \in Int
  OBVIOUS
<1>2. pos \in [1 .. m -> 1 .. n] /\ \A j, k \in 1 .. m : j < k => pos[j] < pos[k]
  BY DEF Picks
<1> HIDE DEF m, n
<1>3. pos \in Injection(1 .. m, 1 .. n)
  <2>1. ASSUME NEW a \in 1 .. m, NEW b \in 1 .. m, pos[a] = pos[b] PROVE a = b
    <3>1. pos[a] \in Int /\ pos[b] \in Int /\ ~(pos[a] < pos[b]) /\ ~(pos[b] < pos[a])
      BY <1>1, <1>2, <2>1
    <3>2. ~(a < b) /\ ~(b < a)
      BY <1>2, <3>1
    <3> QED
      BY <1>1, <3>2
  <2>2. IsInjective(pos)
    BY <1>2, <2>1, Zenon DEF IsInjective
  <2> QED
    BY <1>2, <2>2 DEF Injection
<1>4. IsFiniteSet(1 .. n) /\ Cardinality(1 .. n) = n /\ Cardinality(1 .. m) = m
  BY <1>1, FS_Interval
<1>5. Cardinality(1 .. m) <= Cardinality(1 .. n)
  BY <1>3, <1>4, FS_Injection
<1> QED
  BY <1>4, <1>5 DEF m, n

\* Numbers that are taken are in order, and no more than there are in S.
LEMMA AmongUpto ==
  ASSUME NEW n \in Nat, NEW S \in SUBSET (1 .. n)
  PROVE  LET taken == Among(Upto(n), S) IN
         /\ taken \in Seq(S) /\ Len(taken) <= Cardinality(S)
         /\ \A j, k \in 1 .. Len(taken) : j < k => taken[j] < taken[k]
         /\ \A i \in S : \E k \in 1 .. Len(taken) : taken[k] = i
<1> DEFINE seq == Upto(n)
           taken == Among(seq, S)
           m == Len(taken)
<1>1. seq \in Seq(1 .. n) /\ Len(seq) = n /\ \A i \in 1 .. n : seq[i] = i
  BY UptoIs
<1> HIDE DEF seq
<1>2. /\ taken \in Seq(1 .. n) /\ \A k \in 1 .. m : taken[k] \in S
      /\ \E pos : Picks(pos, taken, seq)
      /\ \A i \in 1 .. Len(seq) : seq[i] \in S => \E k \in 1 .. m : taken[k] = seq[i]
  BY <1>1, AmongPicks
<1>3. PICK pos : Picks(pos, taken, seq)
  BY <1>2
<1> HIDE DEF taken
<1>4. m \in Nat /\ taken \in Seq(S) /\ \A k \in 1 .. m : taken[k] \in S /\ taken[k] \in Nat
  BY <1>2
<1> HIDE DEF m
<1>5. \A k \in 1 .. m : pos[k] \in 1 .. n /\ taken[k] = pos[k]
  BY <1>1, <1>3 DEF Picks, m
<1>6. \A j, k \in 1 .. m : j < k => taken[j] < taken[k]
  BY <1>3, <1>5 DEF Picks, m
<1>7. \A i \in S : \E k \in 1 .. m : taken[k] = i
  BY <1>1, <1>2
<1>8. m <= Cardinality(S)
  <2> DEFINE f == [k \in 1 .. m |-> taken[k]]
  <2>1. f \in Injection(1 .. m, S)
    BY <1>4, <1>6 DEF Injection, IsInjective
  <2>2. IsFiniteSet(S) /\ Cardinality(1 .. m) = m
    <3>1. IsFiniteSet(1 .. n)
      BY FS_Interval
    <3>2. Cardinality(1 .. m) = m
      BY <1>4, FS_Interval
    <3> QED
      BY <3>1, <3>2, FS_Subset
  <2> HIDE DEF f
  <2>3. Cardinality(1 .. m) <= Cardinality(S)
    BY <2>1, <2>2, FS_Injection
  <2> QED
    BY <2>2, <2>3
<1> QED
  BY <1>4, <1>6, <1>7, <1>8 DEF taken, m, seq

\* The chunks that are taken, and what they begin with.
Considered(cs) == [taken : SUBSET DOMAIN cs, seen : SUBSET AnyText]
Bests(cs, ranking) ==
  FoldLeft(LAMBDA s, i : Consider(s, cs, i), [taken |-> {}, seen |-> {}], ranking)

LEMMA KeyTyped ==
  ASSUME NEW doc, NEW c \in ChunkOf(doc)
  PROVE  Key(c) \in AnyText
<1>1. c.text \in Seq(AnyPiece) /\ KeySize \in Nat
  BY DraftingAssumption DEF ChunkOf
<1>2. TextOf(c.text) \in AnyText
  BY <1>1, TextOfTyped
<1> QED
  BY <1>1, <1>2, PrefixTyped DEF Key, AnyText

LEMMA ConsiderTyped ==
  ASSUME NEW doc, NEW cs \in Seq(ChunkOf(doc)), NEW s \in Considered(cs), NEW i \in DOMAIN cs
  PROVE  Consider(s, cs, i) \in Considered(cs)
<1>1. cs[i] \in ChunkOf(doc)
  OBVIOUS
<1>2. Key(cs[i]) \in AnyText
  BY <1>1, KeyTyped
<1> QED
  BY <1>2 DEF Consider, Considered

\* What is taken after each of the chunks.
LEMMA BestTrace ==
  ASSUME NEW doc, NEW cs \in Seq(ChunkOf(doc)), NEW seq \in Seq(DOMAIN cs)
  PROVE  \E f \in [0 .. Len(seq) -> Considered(cs)] :
           /\ f[0] = [taken |-> {}, seen |-> {}] /\ f[Len(seq)] = Bests(cs, seq)
           /\ \A i \in 1 .. Len(seq) : f[i] = Consider(f[i - 1], cs, seq[i])
<1> DEFINE N == Len(seq)
           Q == Considered(cs)
           op(s, x) == Consider(s, cs, x)
           IsIter(g) == g = [t \in SUBSET DOMAIN seq |->
                               IF t = {} THEN [taken |-> {}, seen |-> {}] ELSE op(g[t \ {Max(t)}], seq[Max(t)])]
           step == [i \in 1 .. N |-> [s \in Q |-> op(s, seq[i])]]
           iter == CHOOSE g : IsIter(g)
<1>1. N \in Nat /\ DOMAIN seq = 1 .. N
  OBVIOUS
<1>2. IsFold(N, Q, [taken |-> {}, seen |-> {}], step)
  <2>1. [taken |-> {}, seen |-> {}] \in Q
    BY DEF Considered
  <2>2. ASSUME NEW i \in 1 .. N, NEW s \in Q PROVE op(s, seq[i]) \in Q
    <3>1. seq[i] \in DOMAIN cs
      BY <1>1
    <3> HIDE DEF N
    <3> QED
      BY <3>1, ConsiderTyped
  <2> HIDE DEF op, Q, N
  <2>3. step \in [1 .. N -> [Q -> Q]]
    BY <2>2
  <2> QED
    BY <1>1, <2>1, <2>3 DEF IsFold
<1>3. ASSUME NEW g, NEW t \in SUBSET (1 .. N), t # {}, g[t \ {Max(t)}] \in Q
      PROVE  step[Max(t)][g[t \ {Max(t)}]] = op(g[t \ {Max(t)}], seq[Max(t)])
  <2>1. Max(t) \in 1 .. N
    BY <1>1, <1>3, MaxOfUpto
  <2> HIDE DEF Q, N, op
  <2> QED
    BY <1>3, <2>1
<1>4. \E g : IsIter(g)
  <2>1. PICK h \in [SUBSET (1 .. N) -> Q] : Iterates(h, N, Q, [taken |-> {}, seen |-> {}], step)
    <3> HIDE DEF step, Q, N
    <3> QED
      BY <1>2, FoldExists
  <2> HIDE DEF op, N, Q, step
  <2>2. \A t \in SUBSET (1 .. N) : t # {} => h[t] = op(h[t \ {Max(t)}], seq[Max(t)])
    BY <1>3, <2>1 DEF Iterates
  <2>3. IsIter(h)
    BY <1>1, <2>1, <2>2 DEF Iterates
  <2> QED
    BY <2>3
<1>5. IsIter(iter)
  <2> HIDE DEF op
  <2> QED
    BY <1>4
<1>6. Bests(cs, seq) = iter[1 .. N]
  BY <1>1 DEF Bests, FoldLeft, MapThenFoldSet
<1> HIDE DEF iter, op
<1>7. Iterates(iter, N, Q, [taken |-> {}, seen |-> {}], step)
  <2>1. iter[{}] = [taken |-> {}, seen |-> {}]
    BY <1>5
  <2>2. ASSUME NEW t \in SUBSET (1 .. N), t # {}, iter[t \ {Max(t)}] \in Q
        PROVE  iter[t] = step[Max(t)][iter[t \ {Max(t)}]]
    <3>1. iter[t] = op(iter[t \ {Max(t)}], seq[Max(t)])
      BY <1>1, <1>5, <2>2
    <3> QED
      BY <1>3, <2>2, <3>1
  <2> QED
    BY <2>1, <2>2 DEF Iterates
<1>8. PICK f \in [0 .. N -> Q] : Traces(f, N, [taken |-> {}, seen |-> {}], step) /\ f[N] = iter[1 .. N]
  <2> HIDE DEF step, Q, N
  <2> QED
    BY <1>2, <1>7, FoldTraces
<1>9. ASSUME NEW i \in 1 .. N PROVE f[i] = op(f[i - 1], seq[i])
  <2>1. f[i] = step[i][f[i - 1]]
    BY <1>8 DEF Traces
  <2>2. i - 1 \in 0 .. N
    BY <1>1
  <2> HIDE DEF Q, N
  <2>3. f[i - 1] \in Q
    BY <1>8, <2>2
  <2> QED
    BY <2>1, <2>3
<1>10. f[0] = [taken |-> {}, seen |-> {}]
  BY <1>8 DEF Traces
<1> QED
  BY <1>6, <1>8, <1>9, <1>10 DEF op


\* Of chunks that begin alike one is taken, and none is left out while there is room.
Distinct(cs, s) ==
  /\ s.seen = {Key(cs[i]) : i \in s.taken}
  /\ \A i, j \in s.taken : Key(cs[i]) = Key(cs[j]) => i = j
  /\ Cardinality(s.taken) <= MaxSelected
SeenOrFull(cs, s, i) == Cardinality(s.taken) >= MaxSelected \/ Key(cs[i]) \in s.seen

LEMMA TakenCounted ==
  ASSUME NEW doc, NEW cs \in Seq(ChunkOf(doc)), NEW S \in SUBSET DOMAIN cs
  PROVE  /\ IsFiniteSet(S) /\ Cardinality(S) \in Nat /\ Cardinality(S) <= Len(cs)
         /\ Cardinality(S) = Len(cs) => S = DOMAIN cs
<1> DEFINE n == Len(cs)
<1>1. n \in Nat /\ DOMAIN cs = 1 .. n
  OBVIOUS
<1> HIDE DEF n
<1>2. IsFiniteSet(1 .. n) /\ Cardinality(1 .. n) = n
  BY <1>1, FS_Interval
<1>3. S \in SUBSET (1 .. n)
  BY <1>1
<1>4. /\ IsFiniteSet(S) /\ Cardinality(S) <= Cardinality(1 .. n)
      /\ Cardinality(1 .. n) = Cardinality(S) => 1 .. n = S
  BY <1>2, <1>3, FS_Subset
<1>5. Cardinality(S) \in Nat
  BY <1>4, FS_CardinalityType
<1> QED
  BY <1>1, <1>2, <1>4, <1>5 DEF n

LEMMA ConsiderDistinct ==
  ASSUME NEW doc, NEW cs \in Seq(ChunkOf(doc)), NEW s \in Considered(cs), NEW i \in DOMAIN cs,
         Distinct(cs, s)
  PROVE  LET t == Consider(s, cs, i) IN
         /\ Distinct(cs, t) /\ SeenOrFull(cs, t, i)
         /\ \A j \in DOMAIN cs : SeenOrFull(cs, s, j) => SeenOrFull(cs, t, j)
<1> DEFINE t == Consider(s, cs, i)
<1>1. s.taken \in SUBSET DOMAIN cs /\ s.seen \in SUBSET AnyText
  BY DEF Considered
<1>2. IsFiniteSet(s.taken) /\ Cardinality(s.taken) \in Nat /\ MaxSelected \in Nat
  BY <1>1, TakenCounted, DraftingAssumption
<1>3. CASE SeenOrFull(cs, s, i)
  BY <1>3 DEF Consider, SeenOrFull
<1>4. CASE ~SeenOrFull(cs, s, i)
  <2>1. t.taken = s.taken \cup {i} /\ t.seen = s.seen \cup {Key(cs[i])}
    BY <1>4 DEF Consider, SeenOrFull
  <2> HIDE DEF t
  <2>2. i \notin s.taken
    BY <1>4 DEF SeenOrFull, Distinct
  <2>3. Cardinality(t.taken) = Cardinality(s.taken) + 1
    BY <1>2, <2>1, <2>2, FS_AddElement
  <2>4. Cardinality(s.taken) < MaxSelected
    BY <1>2, <1>4 DEF SeenOrFull
  <2>5. Distinct(cs, t)
    <3>1. t.seen = {Key(cs[j]) : j \in t.taken}
      BY <2>1 DEF Distinct
    <3>2. \A j \in s.taken : Key(cs[j]) # Key(cs[i])
      BY <1>4 DEF Distinct, SeenOrFull
    <3>3. \A j, k \in t.taken : Key(cs[j]) = Key(cs[k]) => j = k
      BY <2>1, <3>2 DEF Distinct
    <3>4. Cardinality(t.taken) <= MaxSelected
      BY <1>2, <2>3, <2>4
    <3> QED
      BY <3>1, <3>3, <3>4 DEF Distinct
  <2>6. SeenOrFull(cs, t, i)
    BY <2>1 DEF SeenOrFull
  <2>7. \A j \in DOMAIN cs : SeenOrFull(cs, s, j) => SeenOrFull(cs, t, j)
    BY <1>2, <2>1, <2>3, <2>4 DEF SeenOrFull
  <2> QED
    BY <2>5, <2>6, <2>7 DEF t
<1> QED
  BY <1>3, <1>4

\* A ranking is every chunk once.
LEMMA RankingTyped ==
  ASSUME NEW doc, NEW cs \in Seq(ChunkOf(doc)), NEW ranking \in SetToSeqs(DOMAIN cs)
  PROVE  /\ ranking \in Seq(DOMAIN cs) /\ Len(ranking) = Len(cs)
         /\ \A i \in DOMAIN cs : \E k \in 1 .. Len(ranking) : ranking[k] = i
<1> DEFINE n == Len(cs)
           D == DOMAIN cs
<1>1. n \in Nat /\ D = 1 .. n
  OBVIOUS
<1>2. ranking \in [1 .. Cardinality(D) -> D] /\ \A i, j \in 1 .. Cardinality(D) : i # j => ranking[i] # ranking[j]
  BY DEF SetToSeqs
<1> HIDE DEF n, D
<1>3. IsFiniteSet(D) /\ Cardinality(D) = n
  BY <1>1, FS_Interval
<1>4. IsFiniteSet(1 .. n) /\ Cardinality(1 .. n) = n
  BY <1>1, FS_Interval
<1>5. ranking \in [1 .. n -> D] /\ \A i, j \in 1 .. n : i # j => ranking[i] # ranking[j]
  BY <1>2, <1>3
<1>6. ranking \in Injection(1 .. n, D)
  BY <1>5 DEF Injection, IsInjective
<1>7. ranking \in Surjection(1 .. n, D)
  BY <1>3, <1>4, <1>6, FS_Injection
<1>8. \A i \in D : \E k \in 1 .. n : ranking[k] = i
  BY <1>7 DEF Surjection
<1>9. ranking \in Seq(D) /\ Len(ranking) = n
  BY <1>1, <1>5
<1> QED
  BY <1>8, <1>9 DEF n, D

LEMMA BestIs ==
  ASSUME NEW doc, NEW cs \in Seq(ChunkOf(doc)), NEW ranking \in SetToSeqs(DOMAIN cs)
  PROVE  LET best == Best(cs, ranking) IN
         /\ best \in SUBSET DOMAIN cs /\ Cardinality(best) <= MaxSelected
         /\ \A i, j \in best : Key(cs[i]) = Key(cs[j]) => i = j
         /\ Len(cs) <= MaxSelected =>
              \A i \in DOMAIN cs : \E j \in best : Key(cs[i]) = Key(cs[j])
<1> DEFINE n == Len(ranking)
           Q == Considered(cs)
<1>1. /\ ranking \in Seq(DOMAIN cs) /\ n = Len(cs) /\ n \in Nat
      /\ \A i \in DOMAIN cs : \E k \in 1 .. n : ranking[k] = i
      /\ \A k \in 1 .. n : ranking[k] \in DOMAIN cs
  BY RankingTyped
<1>2. PICK f \in [0 .. n -> Q] :
        /\ f[0] = [taken |-> {}, seen |-> {}] /\ f[n] = Bests(cs, ranking)
        /\ \A k \in 1 .. n : f[k] = Consider(f[k - 1], cs, ranking[k])
  BY <1>1, BestTrace
<1> DEFINE Holds(k) == Distinct(cs, f[k]) /\ \A j \in 1 .. k : SeenOrFull(cs, f[k], ranking[j])
           Good == {k \in 0 .. n : Holds(k)}
<1> HIDE DEF n, Q
<1>3. 0 \in Good
  <2>1. f[0].taken = {} /\ f[0].seen = {}
    BY <1>2
  <2>2. Cardinality({}) = 0 /\ MaxSelected \in Nat
    BY FS_EmptySet, DraftingAssumption
  <2>3. Distinct(cs, f[0])
    BY <2>1, <2>2 DEF Distinct
  <2> QED
    BY <1>1, <2>3
<1>4. ASSUME NEW k \in 1 .. n, k - 1 \in Good PROVE k \in Good
  <2> DEFINE last == f[k - 1]
             i == ranking[k]
  <2>1. k \in 0 .. n /\ k - 1 \in 0 .. n /\ i \in DOMAIN cs
    BY <1>1
  <2>2. last \in Considered(cs) /\ Holds(k - 1)
    BY <1>2, <1>4, <2>1 DEF Q
  <2>3. f[k] = Consider(last, cs, i) /\ Distinct(cs, last)
    BY <1>2, <2>2
  <2>4. \A j \in 1 .. k - 1 : SeenOrFull(cs, last, ranking[j]) /\ ranking[j] \in DOMAIN cs
    BY SMTT(20), <1>1, <2>1, <2>2
  <2> HIDE DEF last
  <2>5. /\ Distinct(cs, f[k]) /\ SeenOrFull(cs, f[k], i)
        /\ \A j \in DOMAIN cs : SeenOrFull(cs, last, j) => SeenOrFull(cs, f[k], j)
    BY <2>1, <2>2, <2>3, ConsiderDistinct
  <2>6. ASSUME NEW j \in 1 .. k PROVE SeenOrFull(cs, f[k], ranking[j])
    <3>1. CASE j = k
      BY <2>5, <3>1
    <3>2. CASE j # k
      <4>1. j \in 1 .. k - 1
        BY <1>1, <3>2
      <4> QED
        BY <2>4, <2>5, <4>1
    <3> QED
      BY <3>1, <3>2
  <2> QED
    BY <2>1, <2>5, <2>6
<1>5. n \in Good
  <2> HIDE DEF Good
  <2>1. 0 .. n \subseteq Good
    BY <1>1, <1>3, <1>4, UptoInduction
  <2> QED
    BY <1>1, <2>1
<1> DEFINE s == f[n]
           best == Best(cs, ranking)
<1>6. best = s.taken
  BY <1>2 DEF Best, Bests
<1>7. s \in Considered(cs) /\ Distinct(cs, s) /\ \A j \in 1 .. n : SeenOrFull(cs, s, ranking[j])
  BY <1>1, <1>2, <1>5 DEF Q
<1> HIDE DEF s, best
<1>8. s.taken \in SUBSET DOMAIN cs
  BY <1>7 DEF Considered
<1>9. ASSUME Len(cs) <= MaxSelected, NEW i \in DOMAIN cs PROVE \E j \in s.taken : Key(cs[i]) = Key(cs[j])
  <2>1. SeenOrFull(cs, s, i)
    BY <1>1, <1>7
  <2>2. CASE Key(cs[i]) \in s.seen
    BY <1>7, <2>2 DEF Distinct
  <2>3. CASE Cardinality(s.taken) >= MaxSelected
    <3>1. /\ Cardinality(s.taken) \in Nat /\ Cardinality(s.taken) <= Len(cs)
          /\ Cardinality(s.taken) = Len(cs) => s.taken = DOMAIN cs
      BY <1>8, TakenCounted
    <3>2. Len(cs) \in Nat /\ MaxSelected \in Nat
      BY DraftingAssumption
    <3>3. s.taken = DOMAIN cs
      BY <1>9, <2>3, <3>1, <3>2
    <3> QED
      BY <3>3
  <2> QED
    BY <2>1, <2>2, <2>3 DEF SeenOrFull
<1> QED
  BY <1>6, <1>7, <1>8, <1>9 DEF Distinct, best

LEMMA CornerWithin ==
  ASSUME NEW rows \in Seq(Nat), NEW height \in Nat, NEW width \in Nat
  PROVE  \A r \in DOMAIN Corner(rows, height, width) :
           r \in DOMAIN rows /\ Corner(rows, height, width)[r] <= rows[r]
<1> DEFINE m == Least(height, Len(rows))
<1>1. m \in 0 .. Len(rows)
  BY DEF Least
<1>2. Corner(rows, height, width) = [r \in 1 .. m |-> Least(width, rows[r])]
  BY DEF Corner
<1> HIDE DEF m
<1>3. ASSUME NEW r \in 1 .. m PROVE r \in DOMAIN rows /\ Least(width, rows[r]) <= rows[r]
  <2>1. r \in 1 .. Len(rows) /\ rows[r] \in Nat
    BY <1>1
  <2> QED
    BY <2>1 DEF Least
<1> QED
  BY <1>2, <1>3

\* The bullets that may be shown of a chunk, and what a block shows of one.
Bullets(c) == {Compact(s, BulletSize) : s \in ToSet(Sentences(c))}
Shows(doc, c, b) ==
  CASE b.type = "text" -> Len(b.lines) <= MaxBullets /\ ToSet(b.lines) \subseteq Bullets(c)
    [] b.type \in {"table", "chart"} ->
         LET rows == doc[c.at[1]].nodes[c.at[2]].rows IN
         \A r \in DOMAIN b.cells : r \in DOMAIN rows /\ b.cells[r] <= rows[r]
    [] OTHER -> c.type = "image"
Presents(doc, cs, s, i) == s \in Drafted /\ s.ref = i /\ Shows(doc, cs[i], s.blocks[1])
Silent(c) == c.type = "text" /\ Sentences(c) = <<>>

\* The sentences that are chosen are some of the chunk's, and none only if it has none.
LEMMA ChosenSentences ==
  ASSUME NEW found \in Seq(AnyText), NEW c, found = Sentences(c), NEW choice \in BestSentences(c)
  PROVE  LET chosen == Among(Upto(Len(found)), choice)
             all == [n \in DOMAIN chosen |-> Compact(found[chosen[n]], BulletSize)]
         IN  /\ all \in Seq(AnyText \cap Bullets(c)) /\ Len(all) <= MaxBullets
             /\ all = <<>> => found = <<>>
<1> DEFINE n == Len(found)
           chosen == Among(Upto(n), choice)
           all == [k \in DOMAIN chosen |-> Compact(found[chosen[k]], BulletSize)]
<1>1. n \in Nat /\ MaxBullets \in Nat \ {0} /\ BulletSize \in Nat \ {0}
  BY DraftingAssumption
<1>2. choice \in SUBSET (1 .. n) /\ Cardinality(choice) = Least(n, MaxBullets)
  BY DEF BestSentences, kSubset
<1>3. /\ chosen \in Seq(choice) /\ Len(chosen) <= Cardinality(choice)
      /\ \A i \in choice : \E k \in 1 .. Len(chosen) : chosen[k] = i
  BY <1>1, <1>2, AmongUpto
<1>4. \A i \in 1 .. n : found[i] \in AnyText /\ found[i] \in ToSet(Sentences(c))
  BY DEF ToSet
<1>5. n = 0 => found = <<>>
  OBVIOUS
<1> HIDE DEF chosen, n
<1>6. Cardinality(choice) <= MaxBullets /\ (Cardinality(choice) = 0 => n = 0)
  BY <1>1, <1>2 DEF Least
<1>7. /\ Len(chosen) \in Nat /\ DOMAIN chosen = 1 .. Len(chosen)
      /\ \A k \in 1 .. Len(chosen) : chosen[k] \in 1 .. n
  <2>1. chosen \in Seq(choice)
    BY <1>3
  <2>2. \A k \in 1 .. Len(chosen) : chosen[k] \in choice
    BY <2>1
  <2>3. \A k \in 1 .. Len(chosen) : chosen[k] \in 1 .. n
    BY <1>2, <2>2
  <2>4. Len(chosen) \in Nat /\ DOMAIN chosen = 1 .. Len(chosen)
    BY <2>1
  <2> QED
    BY <2>3, <2>4
<1>8. \A k \in 1 .. Len(chosen) : Compact(found[chosen[k]], BulletSize) \in AnyText \cap Bullets(c)
  BY <1>1, <1>4, <1>7, CompactTyped DEF Bullets
<1>9. all \in Seq(AnyText \cap Bullets(c)) /\ Len(all) = Len(chosen)
  BY <1>7, <1>8
<1>10. Len(chosen) <= MaxBullets
  BY <1>1, <1>2, <1>3, <1>6, <1>7 DEF Least
<1>11. Len(chosen) = 0 => found = <<>>
  <2> SUFFICES ASSUME Len(chosen) = 0 PROVE found = <<>>
    OBVIOUS
  <2>1. choice = {}
    BY <1>3
  <2>2. Cardinality(choice) = 0
    BY <2>1, FS_EmptySet
  <2> QED
    BY <1>5, <1>6, <2>2
<1>12. all = <<>> => Len(chosen) = 0
  BY <1>9
<1> HIDE DEF all
<1> QED
  BY <1>9, <1>10, <1>11, <1>12 DEF chosen, all, n

LEMMA SlideOfPresents ==
  ASSUME NEW doc \in Seq(AnySection), NEW cs \in Seq(ChunkOf(doc)), NEW i \in DOMAIN cs,
         NEW choice \in BestSentences(cs[i]), NEW style \in {"key_points", "process", "comparison"}
  PROVE  LET slide == SlideOf(doc, cs, i, choice, style) IN
         (slide = None /\ Silent(cs[i])) \/ Presents(doc, cs, slide, i)
<1> DEFINE chunk == cs[i]
           node == doc[chunk.at[1]].nodes[chunk.at[2]]
           section == doc[chunk.section].heading
           found == Sentences(chunk)
           chosen == Among(Upto(Len(found)), choice)
           all == [n \in DOMAIN chosen |-> Compact(found[chosen[n]], BulletSize)]
           title == Compact(IF section # <<>> /\ Len(section) <= MaxHeading THEN section
                            ELSE IF all # <<>> THEN all[1] ELSE Untitled, TitleSize)
           others == Without(all, title)
           bullets == IF Len(all) > 1 /\ others # <<>> THEN others ELSE all
           Slide(layout, block) == [order |-> 0, layout |-> layout, title |-> title,
                                    blocks |-> <<block>>, ref |-> i]
           chart == IsChart(node)
           cells == IF chart THEN Corner(node.rows, 7, 5) ELSE Corner(node.rows, 4, 4)
           kind == IF chart THEN "chart" ELSE "table"
           slide == SlideOf(doc, cs, i, choice, style)
<1>1. slide = CASE chunk.type = "table" -> Slide(kind, Block(kind, <<TableNote>>, cells))
                [] chunk.type = "image" -> Slide("image", Block("image", <<title>>, <<>>))
                [] OTHER -> IF bullets = <<>> THEN None
                            ELSE Slide(IF Len(bullets) > 1 THEN style ELSE "key_points",
                                       Block("text", bullets, <<>>))
  BY DEF SlideOf
<1> SUFFICES (slide = None /\ Silent(chunk)) \/ Presents(doc, cs, slide, i)
  OBVIOUS
<1> HIDE DEF slide
<1>2. chunk \in ChunkOf(doc) /\ i \in Nat /\ choice \in BestSentences(chunk) /\ chunk = cs[i]
  OBVIOUS
<1> DEFINE C == chunk
<1>3. /\ chunk.text \in Seq(AnyPiece) /\ chunk.section \in DOMAIN doc
      /\ chunk.at[1] \in DOMAIN doc /\ chunk.at[2] \in DOMAIN doc[chunk.at[1]].nodes
      /\ chunk.type \in {"text", "table", "image"}
  BY <1>2 DEF ChunkOf, Spots
<1>4. section \in AnyText
  BY <1>3, NodeTyped
<1>5. node.rows \in Seq(Nat)
  <2>1. node \in AnyNode
    BY <1>3, NodeTyped
  <2> QED
    BY <2>1 DEF AnyNode
<1>6. found \in Seq(AnyText) /\ found = Sentences(chunk)
  BY <1>3, SentencesTyped
<1>7. node = doc[chunk.at[1]].nodes[chunk.at[2]]
  OBVIOUS
<1> HIDE DEF chunk, node, section, found
<1>8. /\ all \in Seq(AnyText \cap Bullets(chunk)) /\ Len(all) <= MaxBullets
      /\ all = <<>> => found = <<>>
  BY <1>2, <1>6, ChosenSentences
<1> HIDE DEF all
<1>9. title \in AnyText
  <2>1. Untitled \in AnyText
    <3>1. <<"untitled">> \in AnyGlyph
      BY DEF AnyGlyph
    <3> QED
      BY <3>1 DEF Untitled, AnyText
  <2>2. all # <<>> => all[1] \in AnyText
    BY <1>8
  <2>3. (IF section # <<>> /\ Len(section) <= MaxHeading THEN section
         ELSE IF all # <<>> THEN all[1] ELSE Untitled) \in AnyText
    BY <1>4, <2>1, <2>2
  <2>4. TitleSize \in Nat \ {0}
    BY DraftingAssumption
  <2> QED
    BY <2>3, <2>4, CompactTyped
<1> HIDE DEF title
<1>10. /\ bullets \in Seq(AnyText \cap Bullets(chunk)) /\ Len(bullets) <= MaxBullets
       /\ bullets = <<>> => found = <<>>
  <2> DEFINE E == AnyText \cap Bullets(chunk)
             S == ToSet(all) \ {title}
  <2>1. all \in Seq(E)
    BY <1>8
  <2> HIDE DEF E
  <2>2. others = Among(all, S)
    BY DEF Without
  <2> HIDE DEF S, others
  <2>3. others \in Seq(E) /\ \E pos : Picks(pos, others, all)
    BY <2>1, <2>2, AmongPicks
  <2>4. Len(others) <= Len(all)
    BY <2>1, <2>3, PicksFewer
  <2>5. Len(others) \in Nat /\ Len(all) \in Nat /\ MaxBullets \in Nat
    BY <2>1, <2>3, DraftingAssumption
  <2>6. Len(others) <= MaxBullets
    BY <1>8, <2>4, <2>5
  <2> QED
    BY <1>8, <2>1, <2>3, <2>6 DEF E
<1>11. cells \in Seq(Nat) /\ \A r \in DOMAIN cells : r \in DOMAIN node.rows /\ cells[r] <= node.rows[r]
  BY <1>5, CornerTyped, CornerWithin
<1> HIDE DEF bullets, cells, chart
<1>12. ASSUME NEW layout \in Layouts, NEW type \in BlockTypes, NEW lines \in Seq(AnyText), lines # <<>>,
              NEW most \in Seq(Nat), slide = Slide(layout, Block(type, lines, most)),
              Shows(doc, chunk, Block(type, lines, most))
       PROVE  Presents(doc, cs, slide, i)
  <2> DEFINE b == Block(type, lines, most)
  <2>1. slide \in Drafted
    BY <1>2, <1>9, <1>12, SlideTyped
  <2> HIDE DEF b
  <2>2. slide.ref = i /\ slide.blocks[1] = b
    BY <1>12 DEF b
  <2> QED
    BY <1>2, <1>12, <2>1, <2>2 DEF Presents, b
<1> HIDE DEF Slide
<1>13. CASE chunk.type = "table"
  <2>1. slide = Slide(kind, Block(kind, <<TableNote>>, cells))
    BY <1>1, <1>13
  <2>2. TableNote \in AnyText
    <3>1. <<"excerpt">> \in AnyGlyph
      BY DEF AnyGlyph
    <3> QED
      BY <3>1 DEF TableNote, AnyText
  <2>3. <<TableNote>> \in Seq(AnyText) /\ <<TableNote>> # <<>>
    BY <2>2
  <2>4. kind \in BlockTypes /\ kind \in Layouts /\ kind \in {"table", "chart"} /\ kind # "text"
    BY DEF BlockTypes, Layouts
  <2> HIDE DEF kind
  <2>5. Shows(doc, chunk, Block(kind, <<TableNote>>, cells))
    <3> DEFINE b == Block(kind, <<TableNote>>, cells)
    <3>1. b.type = kind /\ b.cells = cells
      BY DEF Block
    <3> HIDE DEF b
    <3> QED
      BY <1>7, <1>11, <2>4, <3>1 DEF Shows, b
  <2>6. Presents(doc, cs, slide, i)
    BY <1>11, <1>12, <2>1, <2>3, <2>4, <2>5
  <2> QED
    BY <2>6
<1>14. CASE chunk.type = "image"
  <2>1. slide = Slide("image", Block("image", <<title>>, <<>>))
    BY <1>1, <1>14
  <2>2. <<title>> \in Seq(AnyText) /\ <<title>> # <<>> /\ <<>> \in Seq(Nat)
    BY <1>9
  <2>3. "image" \in BlockTypes /\ "image" \in Layouts
    BY DEF BlockTypes, Layouts
  <2>4. Shows(doc, chunk, Block("image", <<title>>, <<>>))
    <3> DEFINE b == Block("image", <<title>>, <<>>)
    <3>1. b.type = "image"
      BY DEF Block
    <3> HIDE DEF b
    <3> QED
      BY <1>14, <3>1 DEF Shows, b
  <2>5. Presents(doc, cs, slide, i)
    BY <1>12, <2>1, <2>2, <2>3, <2>4
  <2> QED
    BY <2>5
<1>15. CASE chunk.type = "text"
  <2>1. slide = IF bullets = <<>> THEN None
                ELSE Slide(IF Len(bullets) > 1 THEN style ELSE "key_points",
                           Block("text", bullets, <<>>))
    BY <1>1, <1>15
  <2>2. CASE bullets = <<>>
    BY <1>6, <1>10, <1>15, <2>1, <2>2 DEF Silent
  <2>3. CASE bullets # <<>>
    <3> DEFINE layout == IF Len(bullets) > 1 THEN style ELSE "key_points"
               b == Block("text", bullets, <<>>)
    <3>1. slide = Slide(layout, Block("text", bullets, <<>>))
      BY <2>1, <2>3
    <3>2. "text" \in BlockTypes /\ layout \in Layouts
      BY DEF BlockTypes, Layouts
    <3>3. bullets \in Seq(AnyText) /\ ToSet(bullets) \subseteq Bullets(chunk) /\ <<>> \in Seq(Nat)
      BY <1>10 DEF ToSet
    <3>4. b.type = "text" /\ b.lines = bullets
      BY DEF Block
    <3> HIDE DEF layout, b
    <3>5. Shows(doc, chunk, Block("text", bullets, <<>>))
      BY <1>10, <3>3, <3>4 DEF Shows, b
    <3>6. Presents(doc, cs, slide, i)
      BY <1>12, <2>3, <3>1, <3>2, <3>3, <3>5
    <3> QED
      BY <3>6
  <2> QED
    BY <2>2, <2>3
<1> QED
  BY <1>3, <1>13, <1>14, <1>15

\* The slides of the chunks that are shown: in order, no two alike, and none missing.
Presented(doc, cs, slides) ==
  /\ slides \in Seq(Drafted) /\ Len(slides) <= MaxSelected
  /\ \A k \in 1 .. Len(slides) :
       slides[k].ref \in DOMAIN cs /\ Presents(doc, cs, slides[k], slides[k].ref)
  /\ \A j, k \in 1 .. Len(slides) : j < k =>
       slides[j].ref < slides[k].ref /\ Key(cs[slides[j].ref]) # Key(cs[slides[k].ref])
  /\ Len(cs) <= MaxSelected =>
       \A i \in DOMAIN cs : \E j \in DOMAIN cs :
         /\ Key(cs[i]) = Key(cs[j])
         /\ Silent(cs[j]) \/ \E k \in 1 .. Len(slides) : slides[k].ref = j

\* A choice for each chunk, and the slides that are made of the picked ones.
IsChoice(cs, choice) == \A i \in DOMAIN cs : choice[i] \in BestSentences(cs[i])
AreMade(made, doc, cs, picked, choice, style) ==
  /\ made \in Seq(Drafted \cup {None}) /\ Len(made) = Len(picked)
  /\ \A n \in 1 .. Len(picked) :
       made[n] = SlideOf(doc, cs, picked[n], choice[picked[n]], style)

LEMMA SlidesPresent ==
  ASSUME NEW doc \in Seq(AnySection), NEW cs \in Seq(ChunkOf(doc)),
         NEW ranking \in SetToSeqs(DOMAIN cs),
         NEW choice, IsChoice(cs, choice),
         NEW style \in {"key_points", "process", "comparison"},
         NEW picked, picked = Selected(cs, ranking),
         NEW made, AreMade(made, doc, cs, picked, choice, style),
         NEW slides, slides = Without(made, None)
  PROVE  Presented(doc, cs, slides)
<1> DEFINE best == Best(cs, ranking)
           m == Len(picked)
           Made(i) == SlideOf(doc, cs, i, choice[i], style)
           D == Drafted \cup {None}
           S == ToSet(made) \ {None}
           k0 == Len(slides)
<1>1. /\ best \in SUBSET DOMAIN cs /\ Cardinality(best) <= MaxSelected
      /\ \A i, j \in best : Key(cs[i]) = Key(cs[j]) => i = j
      /\ Len(cs) <= MaxSelected => \A i \in DOMAIN cs : \E j \in best : Key(cs[i]) = Key(cs[j])
  BY BestIs
<1>2. Len(cs) \in Nat /\ DOMAIN cs = 1 .. Len(cs) /\ MaxSelected \in Nat
  BY DraftingAssumption
<1>3. Cardinality(best) \in Nat
  BY <1>1, TakenCounted
<1>4. picked = Among(Upto(Len(cs)), best)
  BY DEF Selected
<1> DEFINE last == Len(cs)
<1> HIDE DEF best, last
<1>5. /\ picked \in Seq(best) /\ Len(picked) <= Cardinality(best)
      /\ \A j, k \in 1 .. Len(picked) : j < k => picked[j] < picked[k]
      /\ \A i \in best : \E k \in 1 .. Len(picked) : picked[k] = i
  <2>1. last \in Nat /\ best \in SUBSET (1 .. last) /\ picked = Among(Upto(last), best)
    BY <1>1, <1>2, <1>4 DEF last
  <2> DEFINE taken == Among(Upto(last), best)
  <2>2. /\ taken \in Seq(best) /\ Len(taken) <= Cardinality(best)
        /\ \A j, k \in 1 .. Len(taken) : j < k => taken[j] < taken[k]
        /\ \A i \in best : \E k \in 1 .. Len(taken) : taken[k] = i
    BY <2>1, AmongUpto
  <2>3. picked = taken
    BY <2>1
  <2> HIDE DEF taken
  <2> QED
    BY <2>2, <2>3
<1>6. m \in Nat /\ DOMAIN picked = 1 .. m /\ \A n \in 1 .. m : picked[n] \in best
  BY <1>5
<1>7. \A n \in 1 .. m : picked[n] \in DOMAIN cs /\ picked[n] \in Nat
  BY <1>1, <1>2, <1>6
<1>8. m <= MaxSelected
  BY <1>1, <1>2, <1>3, <1>5, <1>6
<1>9. \A j, k \in 1 .. m : j < k => picked[j] < picked[k]
  BY <1>5
<1>10. \A i \in best : \E k \in 1 .. m : picked[k] = i
  BY <1>5
<1> HIDE DEF m
<1>11. \A i \in DOMAIN cs : (Made(i) = None /\ Silent(cs[i])) \/ Presents(doc, cs, Made(i), i)
  BY SlideOfPresents DEF IsChoice
<1>12. \A n \in 1 .. m : made[n] = Made(picked[n])
  BY DEF Made, m, AreMade
<1>13. made \in Seq(D) /\ Len(made) = m
  BY DEF m, AreMade
<1> HIDE DEF Made
<1>14. slides = Among(made, S) /\ slides \in Seq(Drafted)
  BY <1>13, WithoutTyped DEF Without
<1> HIDE DEF D, S
<1>15. /\ \A k \in 1 .. Len(slides) : slides[k] \in S
       /\ \E pos : Picks(pos, slides, made)
       /\ \A n \in 1 .. Len(made) : made[n] \in S => \E k \in 1 .. Len(slides) : slides[k] = made[n]
  <2>1. made \in Seq(D)
    BY <1>13
  <2> DEFINE taken == Among(made, S)
  <2>2. \A k \in 1 .. Len(taken) : taken[k] \in S
    BY <2>1, AmongPicks
  <2>3. \E pos : Picks(pos, taken, made)
    BY <2>1, AmongPicks
  <2>4. ASSUME NEW n \in 1 .. Len(made), made[n] \in S
        PROVE  \E k \in 1 .. Len(taken) : taken[k] = made[n]
    BY <2>1, <2>4, AmongPicks
  <2>5. slides = taken
    BY <1>14
  <2> HIDE DEF taken
  <2> QED
    BY <2>2, <2>3, <2>4, <2>5, Zenon
<1>16. PICK pos : Picks(pos, slides, made)
  BY <1>15
<1>17. k0 \in Nat /\ Len(slides) = k0
  BY <1>14
<1> HIDE DEF k0
<1>18. \A k \in 1 .. k0 : pos[k] \in 1 .. m /\ slides[k] = made[pos[k]] /\ slides[k] # None
  BY <1>13, <1>15, <1>16, <1>17 DEF Picks, S
<1>19. \A j, k \in 1 .. k0 : j < k => pos[j] < pos[k]
  BY <1>16, <1>17 DEF Picks
<1>20. k0 <= MaxSelected
  <2>1. Len(slides) <= Len(made)
    BY <1>13, <1>14, <1>16, PicksFewer
  <2> QED
    BY <1>2, <1>6, <1>8, <1>13, <1>17, <2>1
<1>21. ASSUME NEW k \in 1 .. k0
       PROVE  /\ slides[k].ref = picked[pos[k]] /\ slides[k].ref \in DOMAIN cs
              /\ Presents(doc, cs, slides[k], slides[k].ref)
  <2> DEFINE i == picked[pos[k]]
  <2>1. slides[k] = Made(i) /\ Made(i) # None
    BY <1>12, <1>18
  <2>2. i \in DOMAIN cs
    BY <1>7, <1>18
  <2>3. Presents(doc, cs, slides[k], i)
    BY <1>11, <2>1, <2>2
  <2>4. slides[k].ref = i
    BY <2>3 DEF Presents
  <2> QED
    BY <2>2, <2>3, <2>4
<1>22. ASSUME NEW j \in 1 .. k0, NEW k \in 1 .. k0, j < k
       PROVE  /\ slides[j].ref < slides[k].ref
              /\ Key(cs[slides[j].ref]) # Key(cs[slides[k].ref])
  <2>1. pos[j] \in 1 .. m /\ pos[k] \in 1 .. m /\ pos[j] < pos[k]
    BY <1>18, <1>19, <1>22
  <2>2. picked[pos[j]] < picked[pos[k]]
    BY <1>9, <2>1
  <2>3. picked[pos[j]] \in best /\ picked[pos[k]] \in best /\ picked[pos[j]] # picked[pos[k]]
    BY <1>6, <1>7, <2>1, <2>2
  <2>4. Key(cs[picked[pos[j]]]) # Key(cs[picked[pos[k]]])
    BY <1>1, <2>3
  <2> QED
    BY <1>21, <2>2, <2>4
<1>23. ASSUME Len(cs) <= MaxSelected, NEW i \in DOMAIN cs
       PROVE  \E j \in DOMAIN cs :
                /\ Key(cs[i]) = Key(cs[j])
                /\ Silent(cs[j]) \/ \E k \in 1 .. k0 : slides[k].ref = j
  <2>1. PICK j \in best : Key(cs[i]) = Key(cs[j])
    BY <1>1, <1>23
  <2>2. PICK n \in 1 .. m : picked[n] = j
    BY <1>10
  <2>3. j \in DOMAIN cs /\ made[n] = Made(j)
    BY <1>1, <1>12, <2>2
  <2>4. CASE Made(j) = None /\ Silent(cs[j])
    BY <2>1, <2>3, <2>4
  <2>5. CASE Made(j) # None
    <3>1. made[n] \in S
      BY <1>6, <1>13, <2>3, <2>5 DEF ToSet, S
    <3>2. PICK k \in 1 .. k0 : slides[k] = made[n]
      BY <1>13, <1>15, <1>17, <3>1
    <3>3. Presents(doc, cs, slides[k], j)
      BY <1>11, <2>3, <2>5, <3>2
    <3>4. slides[k].ref = j
      BY <3>3 DEF Presents
    <3> QED
      BY <2>1, <2>3, <3>4
  <2>6. CASE Made(j) = None /\ Presents(doc, cs, Made(j), j)
    <3>1. None \in AnySlide
      BY <2>6 DEF Presents, Drafted
    <3> QED
      BY <3>1, NullAssumption
  <2> QED
    BY <1>11, <2>3, <2>4, <2>5, <2>6
<1> QED
  BY <1>14, <1>17, <1>20, <1>21, <1>22, <1>23 DEF Presented

\* The plan is the slides behind a cover of the first.
LEMMA PlanIs ==
  ASSUME NEW slides \in Seq(Drafted), slides # <<>>
  PROVE  LET plan0 == Numbered(<<Cover(slides[1])>> \o slides) IN
         /\ plan0 \in Seq(AnySlide) /\ Len(plan0) = Len(slides) + 1
         /\ plan0[1].ref = slides[1].ref
         /\ \A n \in 2 .. Len(plan0) :
              plan0[n].ref = slides[n - 1].ref /\ plan0[n].blocks = slides[n - 1].blocks
<1> DEFINE n0 == Len(slides)
           cover == Cover(slides[1])
           whole == <<cover>> \o slides
<1>1. n0 \in Nat \ {0} /\ slides[1] \in Drafted /\ \A n \in 1 .. n0 : slides[n] \in AnySlide
  BY DEF Drafted
<1>2. slides \in Seq(AnySlide)
  BY <1>1
<1>3. cover \in AnySlide /\ cover.ref = slides[1].ref
  BY <1>1, CoverTyped DEF Cover
<1> HIDE DEF cover
<1>4. whole \in Seq(AnySlide) /\ Len(whole) = n0 + 1 /\ whole[1] = cover
  BY <1>2, <1>3
<1>5. \A n \in 2 .. n0 + 1 : whole[n] = slides[n - 1]
  BY <1>1, <1>2, <1>3
<1> HIDE DEF whole, n0
<1>6. DOMAIN whole = 1 .. n0 + 1
  BY <1>1, <1>4
<1> DEFINE all == Numbered(whole)
<1>7. all = [n \in 1 .. n0 + 1 |-> [whole[n] EXCEPT !.order = n]]
  BY <1>6 DEF Numbered
<1>8. all \in Seq(AnySlide)
  BY <1>4, NumberedTyped
<1>9. Len(all) = n0 + 1
  BY <1>1, <1>7, <1>8
<1> HIDE DEF all
<1>10. ASSUME NEW n \in 1 .. n0 + 1
       PROVE  all[n].ref = whole[n].ref /\ all[n].blocks = whole[n].blocks
  <2>1. whole[n] \in AnySlide
    BY <1>4, <1>10
  <2>2. all[n] = [whole[n] EXCEPT !.order = n]
    BY <1>7
  <2> QED
    BY <2>1, <2>2 DEF AnySlide
<1>11. all[1].ref = slides[1].ref
  BY <1>1, <1>3, <1>4, <1>10
<1>12. ASSUME NEW n \in 2 .. n0 + 1
       PROVE  all[n].ref = slides[n - 1].ref /\ all[n].blocks = slides[n - 1].blocks
  <2>1. n \in 1 .. n0 + 1
    BY <1>1
  <2> QED
    BY <1>5, <1>10, <2>1
<1> QED
  BY <1>8, <1>9, <1>11, <1>12 DEF all, whole, cover, n0

\* A draft is about the chunks (DraftGrounded, of any chunks and plan).
Grounded(doc, cs, slides) ==
  LET Behind == 2 .. Len(slides) IN
  /\ Valid(slides) /\ slides[1].ref = slides[2].ref
  /\ Len(slides) <= MaxSelected + 1
  /\ \A n \in Behind : \A b \in ToSet(slides[n].blocks) : Shows(doc, cs[slides[n].ref], b)
  /\ \A m, n \in Behind : m < n =>
       slides[m].ref < slides[n].ref /\ Key(cs[slides[m].ref]) # Key(cs[slides[n].ref])
  /\ Len(cs) <= MaxSelected =>
       \A i \in DOMAIN cs : \E j \in DOMAIN cs :
         /\ Key(cs[i]) = Key(cs[j])
         /\ j \in {slides[n].ref : n \in Behind} \/ Silent(cs[j])

LEMMA DraftIsGrounded ==
  ASSUME NEW doc \in Seq(AnySection), NEW cs \in Seq(ChunkOf(doc)),
         NEW ranking \in SetToSeqs(DOMAIN cs),
         NEW choice, IsChoice(cs, choice),
         NEW style \in {"key_points", "process", "comparison"},
         "slides" \in DOMAIN Draft(doc, cs, ranking, choice, style)
  PROVE  LET slides == Draft(doc, cs, ranking, choice, style).slides IN
         slides \in Seq(AnySlide) /\ Grounded(doc, cs, slides)
<1> DEFINE picked == Selected(cs, ranking)
           made == [n \in DOMAIN picked |-> SlideOf(doc, cs, picked[n], choice[picked[n]], style)]
           own == Without(made, None)
           all == Numbered(<<Cover(own[1])>> \o own)
           draft == Draft(doc, cs, ranking, choice, style)
           k0 == Len(own)
<1>1. draft = IF own = <<>> THEN [error |-> "DOC_NO_PRESENTABLE_CONTENT"]
              ELSE IF Valid(all) THEN [slides |-> all]
              ELSE [error |-> "invalid"]
  BY DEF Draft
<1>2. /\ own \in Seq(Drafted) /\ k0 <= MaxSelected
      /\ \A k \in 1 .. k0 : own[k].ref \in DOMAIN cs /\ Presents(doc, cs, own[k], own[k].ref)
      /\ \A j, k \in 1 .. k0 : j < k =>
           own[j].ref < own[k].ref /\ Key(cs[own[j].ref]) # Key(cs[own[k].ref])
      /\ Len(cs) <= MaxSelected =>
           \A i \in DOMAIN cs : \E j \in DOMAIN cs :
             /\ Key(cs[i]) = Key(cs[j])
             /\ Silent(cs[j]) \/ \E k \in 1 .. k0 : own[k].ref = j
  <2> DEFINE Made(i) == SlideOf(doc, cs, i, choice[i], style)
  <2>1. picked \in Seq(DOMAIN cs)
    <3>1. Len(cs) \in Nat /\ DOMAIN cs = 1 .. Len(cs)
      OBVIOUS
    <3>2. Upto(Len(cs)) \in Seq(DOMAIN cs)
      BY <3>1, UptoIs
    <3> QED
      BY <3>2, AmongTyped DEF Selected
  <2>2. picked = Selected(cs, ranking) /\ own = Without(made, None)
    OBVIOUS
  <2>3. made = [n \in DOMAIN picked |-> Made(picked[n])]
    OBVIOUS
  <2> HIDE DEF picked, made, own
  <2>4. DOMAIN picked = 1 .. Len(picked) /\ Len(picked) \in Nat
    BY <2>1
  <2>5. \A i \in DOMAIN cs : Made(i) \in Drafted \cup {None}
    BY SlideOfPresents DEF IsChoice, Presents
  <2> DEFINE D == Drafted \cup {None}
             m == Len(picked)
             Slide(n) == Made(picked[n])
  <2>6. \A n \in 1 .. m : Slide(n) \in D
    BY <2>1, <2>4, <2>5
  <2>7. made = [n \in 1 .. m |-> Slide(n)] /\ m \in Nat
    BY <2>3, <2>4
  <2> HIDE DEF D, Slide, m
  <2>8. made \in Seq(D) /\ Len(made) = m /\ \A n \in 1 .. m : made[n] = Slide(n)
    BY <2>6, <2>7
  <2>9. AreMade(made, doc, cs, picked, choice, style)
    BY <2>8 DEF D, Slide, m, AreMade
  <2>10. Presented(doc, cs, own)
    BY <2>2, <2>9, SlidesPresent
  <2> QED
    BY <2>10 DEF Presented
<1> HIDE DEF own, draft
<1>3. "slides" \in DOMAIN draft
  BY DEF draft
<1>4. own # <<>> /\ Valid(all) /\ draft.slides = all
  BY <1>1, <1>3
<1>5. /\ all \in Seq(AnySlide) /\ Len(all) = k0 + 1 /\ all[1].ref = own[1].ref
      /\ \A n \in 2 .. Len(all) : all[n].ref = own[n - 1].ref /\ all[n].blocks = own[n - 1].blocks
  BY <1>2, <1>4, PlanIs
<1>6. k0 \in Nat \ {0} /\ MaxSelected \in Nat
  BY <1>2, <1>4, DraftingAssumption
<1> HIDE DEF all, k0
<1>7. \A n \in 2 .. Len(all) :
        n - 1 \in 1 .. k0 /\ all[n].ref = own[n - 1].ref /\ all[n].blocks = own[n - 1].blocks
  BY <1>5, <1>6
<1>8. all[1].ref = all[2].ref /\ Len(all) <= MaxSelected + 1
  BY <1>2, <1>5, <1>6
<1>9. ASSUME NEW n \in 2 .. Len(all), NEW b \in ToSet(all[n].blocks)
      PROVE  Shows(doc, cs[all[n].ref], b)
  <2> DEFINE s == own[n - 1]
  <2>1. all[n].ref = s.ref /\ all[n].blocks = s.blocks /\ Presents(doc, cs, s, s.ref)
    BY <1>2, <1>7
  <2> HIDE DEF s
  <2>2. s \in Drafted /\ Shows(doc, cs[s.ref], s.blocks[1])
    BY <2>1 DEF Presents
  <2>3. Len(s.blocks) = 1 /\ s.blocks \in Seq(AnyBlock)
    BY <2>2 DEF Drafted, AnySlide
  <2>4. b = s.blocks[1]
    BY <2>1, <2>3 DEF ToSet
  <2> QED
    BY <2>1, <2>2, <2>4
<1>10. ASSUME NEW m \in 2 .. Len(all), NEW n \in 2 .. Len(all), m < n
       PROVE  all[m].ref < all[n].ref /\ Key(cs[all[m].ref]) # Key(cs[all[n].ref])
  <2>1. m - 1 < n - 1 /\ m - 1 \in 1 .. k0 /\ n - 1 \in 1 .. k0
    BY <1>5, <1>6, <1>10
  <2>2. /\ own[m - 1].ref < own[n - 1].ref
        /\ Key(cs[own[m - 1].ref]) # Key(cs[own[n - 1].ref])
    BY <1>2, <2>1
  <2> QED
    BY <1>7, <2>2
<1>11. ASSUME Len(cs) <= MaxSelected, NEW i \in DOMAIN cs
       PROVE  \E j \in DOMAIN cs :
                /\ Key(cs[i]) = Key(cs[j])
                /\ j \in {all[n].ref : n \in 2 .. Len(all)} \/ Silent(cs[j])
  <2>1. PICK j \in DOMAIN cs :
          /\ Key(cs[i]) = Key(cs[j])
          /\ Silent(cs[j]) \/ \E k \in 1 .. k0 : own[k].ref = j
    BY <1>2, <1>11
  <2>2. ASSUME NEW k \in 1 .. k0, own[k].ref = j PROVE j \in {all[n].ref : n \in 2 .. Len(all)}
    <3>1. k + 1 \in 2 .. Len(all) /\ (k + 1) - 1 = k
      BY <1>5, <1>6
    <3>2. all[k + 1].ref = j
      BY <1>7, <2>2, <3>1
    <3> QED
      BY <3>1, <3>2
  <2> QED
    BY <2>1, <2>2
<1>12. Grounded(doc, cs, all)
  BY <1>4, <1>8, <1>9, <1>10, <1>11 DEF Grounded
<1> QED
  BY <1>4, <1>5, <1>12 DEF draft

-------------------------------------------------------------------------------
(* The steps *)

\* What each step may rely on of the ones before it.
Plausible == HasSlides => plan.slides \in Seq(AnySlide)
Read == document # None => document \in Documents
Cut == chunks # None => document \in Documents /\ chunks = Chunks(document)
\* The chunks of which a plan is drafted stay beside it until it is edited.
Sourced ==
  document # None /\ HasSlides => chunks # None /\ Grounded(document, chunks, plan.slides)
Shown ==
  drawn # None => /\ drawn.slide \in AnySlide
                  /\ "texts" \in DOMAIN drawn.scene => Keeps(drawn.slide, drawn.scene)
Fitted ==
  laid # None => BestLayout(laid.layout, laid.paragraphs, laid.box.width, laid.box.height,
                            laid.box.preferred, laid.box.minimum)

AuthoringInv == Read /\ Cut /\ Plausible /\ Sourced /\ Shown /\ Fitted

LEMMA AuthoringInvInit == AuthoringInit => AuthoringInv
BY DEF AuthoringInit, AuthoringInv, Read, Cut, Plausible, Sourced, Shown, Fitted, HasSlides

LEMMA AuthoringInvStep == AuthoringInv /\ [AuthoringNext]_authoringVars => AuthoringInv'
<1> SUFFICES ASSUME AuthoringInv, [AuthoringNext]_authoringVars PROVE AuthoringInv'
  OBVIOUS
<1>1. ASSUME document \in Documents PROVE document \in Seq(AnySection)
  BY <1>1, DocumentsAssumption
<1>2. CASE Chunk
  <2>1. document # None /\ chunks = None /\ chunks' = Chunks(document)
    BY <1>2 DEF Chunk
  <2>2. document' = document /\ plan' = plan /\ drawn' = drawn /\ laid' = laid
    BY <1>2 DEF Chunk
  <2>3. Read' /\ Plausible' /\ Shown' /\ Fitted'
    BY <2>2 DEF AuthoringInv, Read, Plausible, Shown, Fitted, HasSlides
  <2>4. Cut'
    BY <2>1, <2>2 DEF AuthoringInv, Read, Cut
  <2>5. ~HasSlides
    BY <2>1 DEF AuthoringInv, Sourced
  <2>6. Sourced'
    BY <2>2, <2>5 DEF Sourced, HasSlides
  <2> QED
    BY <2>3, <2>4, <2>6 DEF AuthoringInv
<1>3. CASE DraftPlan
  <2>1. /\ chunks # None /\ document' = document /\ chunks' = chunks
        /\ drawn' = drawn /\ laid' = laid
    BY <1>3 DEF DraftPlan
  <2>2. Read' /\ Cut' /\ Shown' /\ Fitted'
    BY <2>1 DEF AuthoringInv, Read, Cut, Shown, Fitted
  <2>3. Plausible' /\ Sourced'
    <3>1. PICK ranking \in SetToSeqs(DOMAIN chunks),
               choice \in {f \in [DOMAIN chunks -> UNION {BestSentences(chunks[i]) : i \in DOMAIN chunks}] :
                             \A i \in DOMAIN chunks : f[i] \in BestSentences(chunks[i])},
               style \in {"key_points", "process", "comparison"} :
            plan' = Draft(document, chunks, ranking, choice, style)
      BY <1>3 DEF DraftPlan
    <3>2. document \in Seq(AnySection) /\ chunks = Chunks(document)
      BY <1>1, <2>1 DEF AuthoringInv, Cut
    <3>3. chunks \in Seq(ChunkOf(document))
      BY <3>2, ChunksTyped
    <3>4. IsChoice(chunks, choice)
      BY DEF IsChoice
    <3>5. ASSUME "slides" \in DOMAIN plan'
          PROVE  plan'.slides \in Seq(AnySlide) /\ Grounded(document, chunks, plan'.slides)
      <4>1. "slides" \in DOMAIN Draft(document, chunks, ranking, choice, style)
        BY <3>1, <3>5
      <4>2. LET slides == Draft(document, chunks, ranking, choice, style).slides IN
            slides \in Seq(AnySlide) /\ Grounded(document, chunks, slides)
        BY <3>2, <3>3, <3>4, <4>1, DraftIsGrounded
      <4> QED
        BY <3>1, <4>2
    <3> QED
      BY <2>1, <3>5 DEF Plausible, Sourced, HasSlides
  <2> QED
    BY <2>2, <2>3 DEF AuthoringInv
<1>4. ASSUME NEW slide \in Edits, EditPlan(slide) PROVE AuthoringInv'
  <2>1. /\ plan' = [slides |-> Numbered(<<slide>>)] /\ document' = None /\ chunks' = None
        /\ drawn' = drawn /\ laid' = laid
    BY <1>4 DEF EditPlan
  <2>2. Read' /\ Cut' /\ Sourced' /\ Shown' /\ Fitted'
    BY <2>1 DEF AuthoringInv, Read, Cut, Sourced, Shown, Fitted
  <2>3. <<slide>> \in Seq(AnySlide)
    BY EditsAssumption
  <2>4. Numbered(<<slide>>) \in Seq(AnySlide)
    BY <2>3, NumberedTyped
  <2>5. Plausible'
    BY <2>1, <2>4 DEF Plausible, HasSlides
  <2> QED
    BY <2>2, <2>5 DEF AuthoringInv
<1>5. ASSUME HasSlides, NEW n \in DOMAIN plan.slides, NEW a \in Arrangements, Draw(n, a)
      PROVE  AuthoringInv'
  <2>1. /\ drawn' = [slide |-> plan.slides[n], scene |-> Scene(plan.slides[n], a)]
        /\ document' = document /\ chunks' = chunks /\ plan' = plan /\ laid' = laid
    BY <1>5 DEF Draw
  <2>2. Read' /\ Cut' /\ Plausible' /\ Sourced' /\ Fitted'
    BY <2>1 DEF AuthoringInv, Read, Cut, Plausible, Sourced, Fitted, HasSlides
  <2>3. plan.slides[n] \in AnySlide
    BY <1>5 DEF AuthoringInv, Plausible
  <2>4. drawn'.slide = plan.slides[n] /\ drawn'.scene = Scene(plan.slides[n], a)
    BY <2>1
  <2>5. Shown'
    BY <2>3, <2>4, SceneKeeps DEF Shown
  <2> QED
    BY <2>2, <2>5 DEF AuthoringInv
<1>6. ASSUME drawn # None, NEW n \in DOMAIN drawn.slide.blocks, NEW box \in Boxes, Flow(n, box)
      PROVE  AuthoringInv'
  <2> DEFINE lines == drawn.slide.blocks[n].lines
             paragraphs == [i \in DOMAIN lines |-> Len(lines[i])]
             best == TextLayout(paragraphs, box.width, box.height, box.preferred, box.minimum)
  <2>1. /\ laid' = [paragraphs |-> paragraphs, box |-> box, layout |-> best]
        /\ document' = document /\ chunks' = chunks /\ plan' = plan /\ drawn' = drawn
    BY <1>6 DEF Flow
  <2>2. Read' /\ Cut' /\ Plausible' /\ Sourced' /\ Shown'
    BY <2>1 DEF AuthoringInv, Read, Cut, Plausible, Sourced, Shown, HasSlides
  <2>3. lines \in Seq(AnyText)
    <3>1. drawn.slide.blocks \in Seq(AnyBlock)
      BY <1>6 DEF AuthoringInv, Shown, AnySlide
    <3>2. drawn.slide.blocks[n] \in AnyBlock
      BY <3>1
    <3> QED
      BY <3>2 DEF AnyBlock
  <2> HIDE DEF lines
  <2>4. paragraphs \in Seq(Nat)
    <3>1. \A i \in DOMAIN lines : Len(lines[i]) \in Nat
      BY <2>3 DEF AnyText
    <3>2. DOMAIN lines = 1 .. Len(lines) /\ Len(lines) \in Nat
      BY <2>3
    <3> QED
      BY <3>1, <3>2
  <2>5. /\ box.width \in Nat /\ box.height \in Nat
        /\ box.preferred \in Nat /\ box.minimum \in Nat \ {0}
    BY BoxesAssumption
  <2> HIDE DEF paragraphs
  <2>6. BestLayout(best, paragraphs, box.width, box.height, box.preferred, box.minimum)
    BY <2>4, <2>5, LaidBest
  <2> HIDE DEF best
  <2>7. laid'.paragraphs = paragraphs /\ laid'.box = box /\ laid'.layout = best
    BY <2>1
  <2>8. Fitted'
    BY <2>6, <2>7 DEF Fitted
  <2> QED
    BY <2>2, <2>8 DEF AuthoringInv
<1>7. CASE UNCHANGED authoringVars
  BY <1>7
    DEF authoringVars, AuthoringInv, Read, Cut, Plausible, Sourced, Shown, Fitted, HasSlides
<1> QED
  BY <1>2, <1>3, <1>4, <1>5, <1>6, <1>7 DEF AuthoringNext

LEMMA AuthoringInvAlways == AuthoringSpec => []AuthoringInv
<1> QED
  BY AuthoringInvInit, AuthoringInvStep, PTL DEF AuthoringSpec

\* For every document, edit and box: a scene keeps every line of its slide in order,
\* and text is laid out in full, with no better layout that it would fit.
THEOREM NothingIsDiscarded == AuthoringSpec => []NothingDiscarded
<1>1. AuthoringInv => NothingDiscarded
  BY DEF AuthoringInv, Shown, Fitted, NothingDiscarded
<1> QED
  BY <1>1, AuthoringInvAlways, PTL

\* For every document that a parser returns: the chunks say all of it and in order,
\* each cites the node it begins with, keeps to its section and to the budget, and
\* none is made in vain (chunk_document).
THEOREM ChunksAlwaysCover == AuthoringSpec => []ChunksCover
<1>1. ASSUME AuthoringInv, document # None, chunks # None
      PROVE  Says(chunks, document) /\ Located(chunks, document) /\ Tight(chunks)
  <2>1. document \in Seq(AnySection) /\ chunks = Chunks(document)
    BY <1>1, DocumentsAssumption DEF AuthoringInv, Cut
  <2> QED
    BY <2>1, ChunksSound
<1>2. AuthoringInv => ChunksCover
  BY <1>1 DEF ChunksCover
<1> QED
  BY <1>2, AuthoringInvAlways, PTL

\* For every document that a parser returns, every ranking of its chunks and every
\* choice of their sentences: a slide shows sentences of the chunk that it cites and
\* a table's own corner; the slides follow the document, no two are about chunks that
\* begin alike, and while there is room none is left out that begins like no other
\* and has something to show (draft).
THEOREM DraftsAlwaysGrounded == AuthoringSpec => []DraftGrounded
<1>1. AuthoringInv => DraftGrounded
  BY DEF AuthoringInv, Sourced, DraftGrounded, Grounded, Shows, Bullets, Silent, Key
<1> QED
  BY <1>1, AuthoringInvAlways, PTL
===============================================================================
