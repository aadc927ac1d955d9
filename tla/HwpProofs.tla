------------------------------- MODULE HwpProofs -------------------------------
(***************************************************************************)
(* The reader of HWP files against a writer, for every file: what the      *)
(* reader computes at a place in a stream is followed from the end of the  *)
(* stream to its front, and what it keeps from section to section in the   *)
(* order of their numbers.                                                 *)
(***************************************************************************)
EXTENDS Hwp, Recursion

Malformed == Fail("DOC_MALFORMED")

LEMMA Failures ==
  /\ \A code : Failed(Fail(code))
  /\ \A x : ~Failed([text |-> x]) /\ ~Failed([records |-> x]) /\ ~Failed([nodes |-> x]) /\ ~Failed([body |-> x])
  /\ \A x : ~Failed([sections |-> x])
  /\ \A x, y, z : ~Failed([total |-> x, count |-> y, sections |-> z])
BY DEF Failed, Fail

LEMMA WidthIs ==
  ASSUME NEW char
  PROVE  Width(char) = Units(char) /\ Units(char) \in Nat \ {0}
BY HwpAssumption DEF Width, Units

-------------------------------------------------------------------------------
(* The text of a paragraph *)

TextRead == [text : Seq(Chars)] \cup {Malformed}

\* What is read from place i on, if rest is what is read behind the word there.
TextAt(payload, i, rest) ==
  IF i + Width(payload[i].char) > Len(payload) + 1 THEN Fail("DOC_MALFORMED")
  ELSE IF Failed(rest) \/ payload[i].char \notin Printable \cup Blanks THEN rest
  ELSE [text |-> <<payload[i].char>> \o rest.text]

ScansText(f, payload) ==
  \A i \in Nat \ {0} : f[i] = IF i > Len(payload) THEN [text |-> <<>>]
                        ELSE TextAt(payload, i, f[i + Width(payload[i].char)])

LEMMA TextAtTyped ==
  ASSUME NEW payload, NEW i, NEW rest \in TextRead
  PROVE  TextAt(payload, i, rest) \in TextRead
<1> DEFINE char == payload[i].char
<1>1. CASE i + Width(char) > Len(payload) + 1
  BY <1>1 DEF TextAt, TextRead, Malformed
<1>2. CASE ~(i + Width(char) > Len(payload) + 1) /\ (Failed(rest) \/ char \notin Printable \cup Blanks)
  BY <1>2 DEF TextAt
<1>3. CASE ~(i + Width(char) > Len(payload) + 1) /\ ~(Failed(rest) \/ char \notin Printable \cup Blanks)
  <2>1. TextAt(payload, i, rest) = [text |-> <<char>> \o rest.text]
    BY <1>3 DEF TextAt
  <2>2. char \in Chars
    BY <1>3 DEF Printable, Blanks, Chars
  <2>3. rest.text \in Seq(Chars)
    BY <1>3, Failures DEF TextRead, Malformed
  <2> HIDE DEF char
  <2>4. <<char>> \o rest.text \in Seq(Chars)
    BY <2>2, <2>3
  <2> QED
    BY <2>1, <2>4 DEF TextRead
<1> QED
  BY <1>1, <1>2, <1>3

LEMMA TextScan ==
  ASSUME NEW payload \in Seq(AnyWord)
  PROVE  \E f :
           /\ ScansText(f, payload)
           /\ ParagraphText(payload) = IF Failed(f[1]) THEN f[1] ELSE [text |-> Trim(f[1].text)]
<1> DEFINE N == Len(payload)
           w == [i \in Nat |-> Width(payload[i].char)]
           Ends == {i \in Nat : i > N \/ i + w[i] > N + 1}
           stop == [i \in Nat |-> IF i > N THEN [text |-> <<>>] ELSE Malformed]
           step == [i \in Nat |-> [rest \in TextRead |-> TextAt(payload, i, rest)]]
           IsText(f) == f = [i \in Nat \ {0} |->
              IF i > Len(payload) THEN [text |-> <<>>]
              ELSE LET char == payload[i].char
                       rest == f[i + Width(char)]
                   IN  IF i + Width(char) > Len(payload) + 1 THEN Fail("DOC_MALFORMED")
                       ELSE IF Failed(rest) \/ char \notin Printable \cup Blanks THEN rest
                       ELSE [text |-> <<char>> \o rest.text]]
           scan == CHOOSE f : IsText(f)
<1>1. N \in Nat
  OBVIOUS
<1>2. w \in [Nat -> Nat \ {0}]
  BY WidthIs
<1>3. stop \in [Nat -> TextRead]
  BY DEF TextRead
<1>4. step \in [Nat -> [TextRead -> TextRead]]
  BY TextAtTyped
<1>5. PICK f \in [Nat -> TextRead] : Scans(f, w, Ends, stop, step)
  <2>1. Ends \in SUBSET Nat
    OBVIOUS
  <2>2. \A i \in Nat : i > N => i \in Ends
    OBVIOUS
  <2> HIDE DEF N, w, Ends, stop, step
  <2>3. IsScan(TextRead, N, w, Ends, stop, step)
    BY <1>1, <1>2, <1>3, <1>4, <2>1, <2>2 DEF IsScan
  <2> QED
    BY <2>3, ScanExists
<1>6. ScansText(f, payload)
  <2> SUFFICES ASSUME NEW i \in Nat \ {0}
               PROVE  f[i] = IF i > N THEN [text |-> <<>>]
                             ELSE TextAt(payload, i, f[i + Width(payload[i].char)])
    BY DEF ScansText
  <2>1. w[i] = Width(payload[i].char) /\ i + w[i] \in Nat
    BY <1>2
  <2>2. f[i + w[i]] \in TextRead
    BY <2>1
  <2>3. CASE i > N
    BY <1>5, <2>3 DEF Scans
  <2>4. CASE ~(i > N) /\ i + w[i] > N + 1
    <3>1. f[i] = Malformed
      BY <1>5, <2>4 DEF Scans
    <3> HIDE DEF N, w
    <3> QED
      BY <2>1, <2>4, <3>1 DEF TextAt, Malformed, N
  <2>5. CASE ~(i > N) /\ ~(i + w[i] > N + 1)
    <3>1. f[i] = step[i][f[i + w[i]]]
      BY <1>5, <2>5 DEF Scans
    <3>2. step[i] = [rest \in TextRead |-> TextAt(payload, i, rest)]
      OBVIOUS
    <3> HIDE DEF step, w, N
    <3>3. f[i] = TextAt(payload, i, f[i + w[i]])
      BY <2>2, <3>1, <3>2
    <3> QED
      BY <2>1, <2>5, <3>3
  <2> QED
    BY <2>3, <2>4, <2>5
<1> DEFINE g == [i \in Nat \ {0} |-> f[i]]
<1>7. IsText(g)
  <2>1. \A i \in Nat \ {0} : i + w[i] \in Nat \ {0} /\ w[i] = Width(payload[i].char)
    <3>1. \A i \in Nat \ {0} : w[i] = Width(payload[i].char)
      OBVIOUS
    <3>2. ASSUME NEW i \in Nat \ {0} PROVE i + w[i] \in Nat \ {0}
      <4> HIDE DEF w
      <4>1. w[i] \in Nat \ {0}
        BY <1>2
      <4> QED
        BY <4>1
    <3> QED
      BY <3>1, <3>2
  <2> HIDE DEF w
  <2>2. \A i \in Nat \ {0} : g[i] = IF i > N THEN [text |-> <<>>]
                                     ELSE TextAt(payload, i, g[i + Width(payload[i].char)])
    BY <1>6, <2>1 DEF ScansText
  <2> QED
    BY <2>2 DEF TextAt
<1>8. IsText(scan)
  <2> HIDE DEF IsText, g
  <2> QED
    BY <1>7
<1>9. ParagraphText(payload) = IF Failed(scan[1]) THEN scan[1] ELSE [text |-> Trim(scan[1].text)]
  BY DEF ParagraphText
<1>10. ScansText(scan, payload)
  <2> HIDE DEF scan
  <2> QED
    BY <1>8 DEF ScansText, TextAt
<1> HIDE DEF scan
<1> QED
  BY <1>9, <1>10

LEMMA TokensTyped ==
  ASSUME NEW tokens \in Seq(AnyToken)
  PROVE  /\ tokens \in Seq(Seq(AnyWord)) /\ FlattenSeq(tokens) \in Seq(AnyWord)
         /\ \A j \in 1 .. Len(tokens) :
              /\ tokens[j] \in Seq(AnyWord) /\ Len(tokens[j]) \in Nat \ {0}
              /\ CharOf(tokens[j]) = tokens[j][1].char /\ CharOf(tokens[j]) \in Chars
              /\ Len(tokens[j]) <= Units(CharOf(tokens[j]))
<1>1. ASSUME NEW t \in AnyToken
      PROVE  /\ t \in Seq(AnyWord) /\ Len(t) \in Nat \ {0} /\ CharOf(t) = t[1].char /\ CharOf(t) \in Chars
             /\ Len(t) <= Units(CharOf(t))
  <2>1. t \in Seq(AnyWord) /\ t # <<>> /\ Len(t) <= Units(CharOf(t))
    BY DEF AnyToken
  <2>2. Len(t) \in Nat \ {0} /\ t[1] \in AnyWord
    BY <2>1
  <2> QED
    BY <2>1, <2>2 DEF CharOf, AnyWord
<1>2. \A j \in 1 .. Len(tokens) : tokens[j] \in AnyToken
  OBVIOUS
<1>3. tokens \in Seq(Seq(AnyWord))
  <2>1. tokens \in [1 .. Len(tokens) -> Seq(AnyWord)] /\ Len(tokens) \in Nat
    BY <1>1, <1>2
  <2> QED
    BY <2>1
<1>4. FlattenSeq(tokens) \in Seq(AnyWord)
  BY <1>3, FlattenTyped
<1> QED
  BY <1>1, <1>2, <1>3, <1>4

\* A whole token is read as its letter, and one that lacks cargo ends the reading.
ReadsToken(f, at, tokens, j) ==
  /\ Complete(tokens[j]) =>
       f[at[j - 1] + 1] = IF Failed(f[at[j] + 1]) \/ CharOf(tokens[j]) \notin Printable \cup Blanks
                          THEN f[at[j] + 1]
                          ELSE [text |-> <<CharOf(tokens[j])>> \o f[at[j] + 1].text]
  /\ ~Complete(tokens[j]) /\ j = Len(tokens) => f[at[j - 1] + 1] = Malformed

LEMMA TokenRead ==
  ASSUME NEW tokens \in Seq(AnyToken), NEW at, Lies(at, tokens, FlattenSeq(tokens)),
         NEW f, ScansText(f, FlattenSeq(tokens)), NEW j \in 1 .. Len(tokens)
  PROVE  ReadsToken(f, at, tokens, j)
<1> SUFFICES /\ Complete(tokens[j]) =>
                  f[at[j - 1] + 1] = IF Failed(f[at[j] + 1]) \/ CharOf(tokens[j]) \notin Printable \cup Blanks
                                     THEN f[at[j] + 1]
                                     ELSE [text |-> <<CharOf(tokens[j])>> \o f[at[j] + 1].text]
             /\ ~Complete(tokens[j]) /\ j = Len(tokens) => f[at[j - 1] + 1] = Malformed
  BY DEF ReadsToken
<1> DEFINE payload == FlattenSeq(tokens)
           N == Len(payload)
           token == tokens[j]
           char == CharOf(token)
           i == at[j - 1] + 1
<1>1. /\ token \in Seq(AnyWord) /\ Len(token) \in Nat \ {0} /\ char = token[1].char /\ Len(token) <= Units(char)
      /\ payload \in Seq(AnyWord)
  BY TokensTyped
<1>2. /\ j - 1 \in 0 .. Len(tokens) /\ j \in 0 .. Len(tokens)
      /\ at[j - 1] \in Nat /\ at[j] \in Nat /\ at[j] = at[j - 1] + Len(token) /\ at[j] <= N
      /\ at[Len(tokens)] = N /\ payload[at[j - 1] + 1] = token[1]
  <2>1. j - 1 \in 0 .. Len(tokens) /\ j \in 0 .. Len(tokens)
    OBVIOUS
  <2>2. 1 \in 1 .. Len(token)
    BY <1>1
  <2> HIDE DEF payload, token
  <2> QED
    BY <2>1, <2>2 DEF Lies, payload, token, N
<1>3. N \in Nat
  BY <1>1
<1>4. Width(char) = Units(char) /\ Units(char) \in Nat \ {0}
  BY WidthIs
<1>5. payload[i].char = char
  BY <1>1, <1>2
<1> HIDE DEF payload, token, char, N
<1>6. i \in Nat \ {0} /\ i <= N
  BY <1>1, <1>2, <1>3
<1>7. f[i] = TextAt(payload, i, f[i + Width(char)])
  BY <1>3, <1>5, <1>6 DEF ScansText, N, payload
<1> DEFINE a == at[j - 1]
           b == at[j]
<1>61. a \in Nat /\ b \in Nat /\ b = a + Len(token) /\ b <= N /\ (j = Len(tokens) => b = N) /\ i = a + 1
  BY <1>2
<1>8. ASSUME Complete(token) PROVE f[i] = IF Failed(f[at[j] + 1]) \/ char \notin Printable \cup Blanks
                                          THEN f[at[j] + 1] ELSE [text |-> <<char>> \o f[at[j] + 1].text]
  <2>1. Len(token) = Units(char)
    BY <1>8 DEF Complete, char
  <2>2. i + Width(char) = at[j] + 1 /\ ~(i + Width(char) > N + 1)
    <3> HIDE DEF a, b, i
    <3>1. i + Width(char) = b + 1 /\ ~(i + Width(char) > N + 1)
      BY <1>1, <1>3, <1>4, <1>61, <2>1
    <3> QED
      BY <3>1 DEF b
  <2> HIDE DEF i
  <2>3. f[i] = TextAt(payload, i, f[at[j] + 1])
    BY <1>7, <2>2
  <2> QED
    BY <1>5, <2>2, <2>3 DEF TextAt, N
<1>9. ASSUME ~Complete(token), j = Len(tokens) PROVE f[i] = Malformed
  <2>1. Len(token) # Units(char)
    BY <1>9 DEF Complete, char
  <2>2. i + Width(char) > N + 1
    <3> HIDE DEF a, b, i
    <3> QED
      BY <1>1, <1>3, <1>4, <1>61, <1>9, <2>1
  <2> HIDE DEF i
  <2> QED
    BY <1>5, <1>7, <2>2 DEF TextAt, N, Malformed
<1> QED
  BY <1>8, <1>9 DEF token, char

\* The text of a paragraph is its letters and blanks; one with a control that lacks
\* cargo has none.
LEMMA TextOfTokens ==
  ASSUME NEW tokens \in Seq(AnyToken), \A j \in 1 .. Len(tokens) - 1 : Complete(tokens[j])
  PROVE  ParagraphText(FlattenSeq(tokens)) =
           IF \A t \in ToSet(tokens) : Complete(t)
           THEN [text |-> Trim(Among([j \in DOMAIN tokens |-> CharOf(tokens[j])], Printable \cup Blanks))]
           ELSE Malformed
<1> DEFINE n == Len(tokens)
           payload == FlattenSeq(tokens)
           chars == [j \in DOMAIN tokens |-> CharOf(tokens[j])]
           Shown == Printable \cup Blanks
<1>0. n \in Nat /\ DOMAIN tokens = 1 .. n
  OBVIOUS
<1>1. payload \in Seq(AnyWord) /\ tokens \in Seq(Seq(AnyWord)) /\ \A j \in 1 .. n : CharOf(tokens[j]) \in Chars
  BY TokensTyped
<1>2. PICK at : Lies(at, tokens, payload)
  BY <1>1, FlattenLies
<1>3. PICK f : /\ ScansText(f, payload)
               /\ ParagraphText(payload) = IF Failed(f[1]) THEN f[1] ELSE [text |-> Trim(f[1].text)]
  BY <1>1, TextScan
<1>4. chars \in Seq(Chars) /\ Len(chars) = n
  <2>1. chars \in [1 .. n -> Chars]
    BY <1>0, <1>1
  <2> HIDE DEF chars, n
  <2> QED
    BY <1>0, <2>1
<1>41. \A j \in 1 .. n : chars[j] = CharOf(tokens[j])
  BY <1>0
<1> HIDE DEF payload, chars, Shown
<1>5. PICK G \in [0 .. n -> Seq(Chars)] :
        /\ G[0] = <<>> /\ G[n] = Among(chars, Shown)
        /\ \A j \in 1 .. n : G[j] = IF chars[j] \in Shown THEN Append(G[j - 1], chars[j]) ELSE G[j - 1]
  <2>1. PICK G \in [0 .. Len(chars) -> Seq(Chars)] : Takes(G, chars, Shown)
    BY <1>4, AmongTakes
  <2> QED
    BY <1>4, <2>1 DEF Takes
<1> DEFINE From(k) == f[at[k] + 1]
<1>6. ASSUME NEW j \in 1 .. n
      PROVE  /\ Complete(tokens[j]) => From(j - 1) = IF Failed(From(j)) \/ chars[j] \notin Shown THEN From(j)
                                                     ELSE [text |-> <<chars[j]>> \o From(j).text]
             /\ ~Complete(tokens[j]) /\ j = n => From(j - 1) = Malformed
  <2>1. Lies(at, tokens, FlattenSeq(tokens)) /\ ScansText(f, FlattenSeq(tokens))
    BY <1>2, <1>3 DEF payload
  <2>2. /\ Complete(tokens[j]) =>
              f[at[j - 1] + 1] = IF Failed(f[at[j] + 1]) \/ CharOf(tokens[j]) \notin Printable \cup Blanks
                                 THEN f[at[j] + 1]
                                 ELSE [text |-> <<CharOf(tokens[j])>> \o f[at[j] + 1].text]
        /\ ~Complete(tokens[j]) /\ j = Len(tokens) => f[at[j - 1] + 1] = Malformed
    <3>1. ReadsToken(f, at, tokens, j)
      BY <2>1, TokenRead
    <3> QED
      BY <3>1 DEF ReadsToken
  <2> QED
    BY <1>41, <2>2, Zenon DEF Shown
<1>7. at[0] = 0 /\ From(n) = [text |-> <<>>] /\ From(0) = f[1]
  <2>1. at[0] = 0 /\ at[n] = Len(payload) /\ Len(payload) \in Nat
    BY <1>1, <1>2 DEF Lies
  <2>2. f[Len(payload) + 1] = [text |-> <<>>]
    BY <1>3, <2>1 DEF ScansText
  <2> QED
    BY <2>1, <2>2
<1> HIDE DEF n, From
<1>8. CASE \A t \in ToSet(tokens) : Complete(t)
  <2>1. \A j \in 1 .. n : Complete(tokens[j])
    BY <1>0, <1>8 DEF ToSet
  <2> DEFINE Good(k) == From(k) \in [text : Seq(Chars)] /\ G[k] \o From(k).text = G[n]
             T == {k \in 0 .. n : Good(k)}
  <2>2. n \in T
    <3>1. G[n] \in Seq(Chars) /\ n \in 0 .. n
      BY <1>0, <1>5
    <3>2. <<>> \in Seq(Chars) /\ G[n] \o <<>> = G[n]
      BY <3>1, ConcatNothing
    <3>3. From(n).text = <<>> /\ From(n) \in [text : Seq(Chars)]
      BY <1>7, <3>2
    <3>4. Good(n)
      BY <3>2, <3>3, Zenon
    <3> QED
      BY <3>1, <3>4
  <2>3. ASSUME NEW j \in 1 .. n, j \in T PROVE j - 1 \in T
    <3> DEFINE rest == From(j).text
               x == chars[j]
    <3>1. j - 1 \in 0 .. n /\ G[j - 1] \in Seq(Chars) /\ G[j] \in Seq(Chars) /\ x \in Chars
      BY <1>0, <1>4, <1>5
    <3>2. From(j) \in [text : Seq(Chars)] /\ rest \in Seq(Chars) /\ G[j] \o rest = G[n] /\ ~Failed(From(j))
      BY <2>3 DEF Failed
    <3>3. From(j - 1) = IF x \notin Shown THEN From(j) ELSE [text |-> <<x>> \o rest]
      BY <1>6, <2>1, <3>2
    <3>4. G[j] = IF x \in Shown THEN Append(G[j - 1], x) ELSE G[j - 1]
      BY <1>5
    <3> HIDE DEF rest, x
    <3>5. CASE x \notin Shown
      <4>1. Good(j - 1)
        BY <3>2, <3>3, <3>4, <3>5, Zenon DEF rest
      <4> QED
        BY <3>1, <4>1
    <3>6. CASE x \in Shown
      <4>1. From(j - 1) = [text |-> <<x>> \o rest] /\ From(j - 1).text = <<x>> \o rest
        BY <3>3, <3>6
      <4>2. <<x>> \o rest \in Seq(Chars)
        BY <3>1, <3>2
      <4>3. G[j - 1] \o (<<x>> \o rest) = Append(G[j - 1], x) \o rest
        <5> DEFINE front == G[j - 1]
        <5>1. front \in Seq(Chars) /\ rest \in Seq(Chars) /\ x \in Chars
          BY <3>1, <3>2
        <5> HIDE DEF front
        <5>2. Append(front, x) \o rest = front \o (<<x>> \o rest)
          BY <5>1, ConcatBetween
        <5> QED
          BY <5>2 DEF front
      <4>4. Good(j - 1)
        BY <3>2, <3>4, <3>6, <4>1, <4>2, <4>3
      <4> QED
        BY <3>1, <4>4
    <3> QED
      BY <3>5, <3>6
  <2>4. 0 .. n \subseteq T
    <3> HIDE DEF T
    <3>1. n \in Nat
      BY <1>0
    <3>2. \A j \in 1 .. n : j \in T => j - 1 \in T
      BY <2>3
    <3> QED
      BY <2>2, <3>1, <3>2, DowntoInduction
  <2>5. Good(0)
    BY <1>0, <2>4
  <2>6. f[1].text = G[n] /\ ~Failed(f[1])
    <3>1. f[1] \in [text : Seq(Chars)] /\ <<>> \o f[1].text = G[n]
      BY <1>5, <1>7, <2>5
    <3>2. f[1].text \in Seq(Chars)
      BY <3>1
    <3> QED
      BY <3>1, <3>2, ConcatNothing DEF Failed
  <2>7. ParagraphText(payload) = [text |-> Trim(Among(chars, Shown))]
    BY <1>3, <1>5, <2>6, Zenon
  <2> QED
    BY <1>8, <2>7 DEF payload, chars, Shown
<1>9. CASE ~(\A t \in ToSet(tokens) : Complete(t))
  <2>1. PICK j \in 1 .. n : ~Complete(tokens[j])
    <3>1. PICK t \in ToSet(tokens) : ~Complete(t)
      BY <1>9
    <3>2. PICK j \in DOMAIN tokens : tokens[j] = t
      BY DEF ToSet
    <3> QED
      BY <1>0, <3>1, <3>2
  <2>2. j = n /\ n >= 1
    <3>1. j \notin 1 .. n - 1
      BY <2>1 DEF n
    <3> QED
      BY <1>0, <3>1
  <2> DEFINE T == {k \in 0 .. n - 1 : From(k) = Malformed}
  <2>3. n - 1 \in T
    <3>1. From(j - 1) = Malformed
      BY <1>6, <2>1, <2>2
    <3> QED
      BY <1>0, <2>2, <3>1
  <2>4. ASSUME NEW k \in 1 .. n - 1, k \in T PROVE k - 1 \in T
    <3>1. k \in 1 .. n /\ Complete(tokens[k]) /\ k - 1 \in 0 .. n - 1
      BY <1>0 DEF n
    <3>2. Failed(From(k))
      BY <2>4, Failures DEF Malformed
    <3> QED
      BY <1>6, <2>4, <3>1, <3>2
  <2>5. 0 .. n - 1 \subseteq T
    <3>1. n - 1 \in Nat
      BY <1>0, <2>2
    <3> HIDE DEF T
    <3> QED
      BY <2>3, <2>4, <3>1, DowntoInduction
  <2>6. f[1] = Malformed
    BY <1>0, <1>7, <2>2, <2>5
  <2> QED
    BY <1>3, <1>9, <2>6, Failures DEF payload, Malformed
<1> QED
  BY <1>8, <1>9

-------------------------------------------------------------------------------
(* The records of a section *)

AnyRecord == [tag : {"text", "other", "low"}, payload : Seq(AnyWord)]
RecordsRead == [records : Seq(AnyRecord)] \cup {Malformed}

Long(body, i) == body[i].length = Escape
StartAt(body, i) == IF Long(body, i) THEN i + 2 ELSE i + 1
LengthAt(body, i) == IF Long(body, i) THEN body[i + 1].length ELSE body[i].length
Behind(body, i) == StartAt(body, i) + LengthAt(body, i)

\* No record can be read at place i.
Broken(body, i) ==
  (Long(body, i) /\ i = Len(body)) \/ body[i].tag = "low" \/ Behind(body, i) > Len(body) + 1

RecordAt(body, i) ==
  [tag |-> body[i].tag,
   payload |-> SubSeq(body, StartAt(body, i), StartAt(body, i) + LengthAt(body, i) - 1)]

\* What is read from place i on, if rest is what is read behind the record there.
RecordsAt(body, i, rest) ==
  IF Broken(body, i) THEN Malformed
  ELSE IF Failed(rest) THEN rest
  ELSE [records |-> <<RecordAt(body, i)>> \o rest.records]

ScansRecords(f, body) ==
  \A i \in Nat \ {0} : f[i] = IF i > Len(body) THEN [records |-> <<>>]
                        ELSE RecordsAt(body, i, f[Behind(body, i)])

\* The same, in the words of Records.
RecordsHere(h, body, i) ==
  LET long   == body[i].length = Escape
       start  == IF long THEN i + 2 ELSE i + 1
       length == IF long THEN body[i + 1].length ELSE body[i].length
       rest   == h[start + length]
   IN  IF (long /\ i = Len(body)) \/ body[i].tag = "low" THEN Fail("DOC_MALFORMED")
       ELSE IF start + length > Len(body) + 1 THEN Fail("DOC_MALFORMED")
       ELSE IF Failed(rest) THEN rest
       ELSE [records |-> <<[tag |-> body[i].tag, payload |->
                              SubSeq(body, start, start + length - 1)]>>
                           \o rest.records]

LEMMA RecordsAtIs ==
  ASSUME NEW h, NEW body, NEW i
  PROVE  RecordsHere(h, body, i) = RecordsAt(body, i, h[Behind(body, i)])
<1> DEFINE start == IF Long(body, i) THEN i + 2 ELSE i + 1
           length == IF Long(body, i) THEN body[i + 1].length ELSE body[i].length
           bad == (Long(body, i) /\ i = Len(body)) \/ body[i].tag = "low"
           beyond == start + length > Len(body) + 1
           rest == h[start + length]
           more == [records |-> <<[tag |-> body[i].tag, payload |-> SubSeq(body, start, start + length - 1)]>>
                                \o rest.records]
<1>1. RecordsHere(h, body, i) =
        IF bad THEN Malformed ELSE IF beyond THEN Malformed ELSE IF Failed(rest) THEN rest ELSE more
  BY DEF RecordsHere, Long, Malformed
<1>2. Behind(body, i) = start + length /\ StartAt(body, i) = start /\ LengthAt(body, i) = length
  <2>1. StartAt(body, i) = start
    BY DEF StartAt
  <2>2. LengthAt(body, i) = length
    BY DEF LengthAt
  <2> HIDE DEF start, length
  <2> QED
    BY <2>1, <2>2, Zenon DEF Behind
<1> HIDE DEF start, length
<1>3. h[Behind(body, i)] = rest /\ more = [records |-> <<RecordAt(body, i)>> \o rest.records]
  <2>1. h[Behind(body, i)] = rest
    BY <1>2
  <2>2. RecordAt(body, i) = [tag |-> body[i].tag, payload |-> SubSeq(body, start, start + length - 1)]
    BY <1>2 DEF RecordAt
  <2> HIDE DEF rest
  <2> QED
    BY <2>1, <2>2
<1>4. Broken(body, i) <=> (bad \/ beyond)
  BY <1>2, Zenon DEF Broken
<1> HIDE DEF bad, beyond, rest, more
<1> QED
  BY <1>1, <1>3, <1>4 DEF RecordsAt

LEMMA WordsTyped ==
  ASSUME NEW body \in Seq(AnyWord), NEW i \in 1 .. Len(body)
  PROVE  body[i].length \in Nat /\ body[i].tag \in {"text", "other", "low"} /\ body[i] \in AnyWord
<1>1. body[i] \in AnyWord
  OBVIOUS
<1> QED
  BY <1>1 DEF AnyWord

LEMMA RecordsAtTyped ==
  ASSUME NEW body \in Seq(AnyWord), NEW i \in 1 .. Len(body), ~Broken(body, i)
  PROVE  /\ StartAt(body, i) \in Nat /\ StartAt(body, i) > i /\ LengthAt(body, i) \in Nat
         /\ Behind(body, i) \in Nat /\ Behind(body, i) > i /\ Behind(body, i) <= Len(body) + 1
         /\ RecordAt(body, i) \in AnyRecord
         /\ \A rest \in RecordsRead : RecordsAt(body, i, rest) \in RecordsRead
<1>1. Len(body) \in Nat /\ body[i].length \in Nat /\ body[i].tag \in {"text", "other", "low"}
  BY WordsTyped
<1>2. Long(body, i) => i + 1 \in 1 .. Len(body)
  BY <1>1 DEF Broken
<1>3. LengthAt(body, i) \in Nat
  BY <1>1, <1>2, WordsTyped DEF LengthAt
<1>4. StartAt(body, i) \in Nat /\ StartAt(body, i) > i
  BY DEF StartAt
<1>5. Behind(body, i) \in Nat /\ Behind(body, i) > i
  BY <1>3, <1>4 DEF Behind
<1>6. Behind(body, i) <= Len(body) + 1
  BY <1>1, <1>5 DEF Broken
<1>7. RecordAt(body, i) \in AnyRecord
  <2> DEFINE a == StartAt(body, i)
             b == StartAt(body, i) + LengthAt(body, i) - 1
  <2>1. a \in 1 .. Len(body) + 1 /\ b \in 0 .. Len(body)
    BY <1>1, <1>3, <1>4, <1>5, <1>6 DEF Behind
  <2> HIDE DEF a, b
  <2>2. SubSeq(body, a, b) \in Seq(AnyWord)
    BY <2>1
  <2> QED
    BY <1>1, <2>2 DEF RecordAt, AnyRecord, a, b
<1>8. ASSUME NEW rest \in RecordsRead PROVE RecordsAt(body, i, rest) \in RecordsRead
  <2>1. CASE Failed(rest)
    BY <2>1 DEF RecordsAt
  <2>2. CASE ~Failed(rest)
    <3>1. rest.records \in Seq(AnyRecord)
      BY <2>2, Failures DEF RecordsRead, Malformed
    <3> DEFINE r == RecordAt(body, i)
    <3>2. r \in AnyRecord
      BY <1>7
    <3>3. RecordsAt(body, i, rest) = [records |-> <<r>> \o rest.records]
      BY <2>2 DEF RecordsAt
    <3> HIDE DEF r
    <3>4. <<r>> \o rest.records \in Seq(AnyRecord)
      BY <3>1, <3>2
    <3> QED
      BY <3>3, <3>4 DEF RecordsRead
  <2> QED
    BY <2>1, <2>2
<1> QED
  BY <1>3, <1>4, <1>5, <1>6, <1>7, <1>8

LEMMA RecordsScan ==
  ASSUME NEW body \in Seq(AnyWord)
  PROVE  \E f :
           /\ ScansRecords(f, body)
           /\ Records(body) = IF ~Failed(f[1]) /\ Len(f[1].records) > MaxRecords
                              THEN Fail("DOC_RESOURCE_LIMIT") ELSE f[1]
<1> DEFINE N == Len(body)
           Ends == {i \in Nat : i > N \/ i = 0 \/ Broken(body, i)}
           w == [i \in Nat |-> IF i \in Ends THEN 1 ELSE Behind(body, i) - i]
           stop == [i \in Nat |-> IF i > N THEN [records |-> <<>>] ELSE Malformed]
           step == [i \in Nat |-> [rest \in RecordsRead |-> IF i \in Ends THEN rest ELSE RecordsAt(body, i, rest)]]
<1>1. N \in Nat
  OBVIOUS
<1>2. \A i \in Nat \ Ends : i \in 1 .. N /\ ~Broken(body, i)
  BY <1>1
<1>3. w \in [Nat -> Nat \ {0}]
  <2>1. \A i \in Nat \ Ends : Behind(body, i) - i \in Nat \ {0}
    BY <1>2, RecordsAtTyped
  <2> HIDE DEF Ends
  <2> QED
    BY <2>1
<1>4. stop \in [Nat -> RecordsRead]
  BY DEF RecordsRead
<1>5. step \in [Nat -> [RecordsRead -> RecordsRead]]
  BY <1>2, RecordsAtTyped
<1>6. PICK f \in [Nat -> RecordsRead] : Scans(f, w, Ends, stop, step)
  <2>1. Ends \in SUBSET Nat /\ \A i \in Nat : i > N => i \in Ends
    OBVIOUS
  <2> HIDE DEF N, w, Ends, stop, step
  <2>2. IsScan(RecordsRead, N, w, Ends, stop, step)
    BY <1>1, <1>3, <1>4, <1>5, <2>1 DEF IsScan
  <2> QED
    BY <2>2, ScanExists
<1> DEFINE g == [i \in Nat \ {0} |-> f[i]]
           IsRead(h) == h = [i \in Nat \ {0} |->
              IF i > Len(body) THEN [records |-> <<>>]
              ELSE RecordsHere(h, body, i)]
           scan == CHOOSE h : IsRead(h)
<1>7. ASSUME NEW i \in Nat \ {0}
      PROVE  g[i] = IF i > N THEN [records |-> <<>>] ELSE RecordsAt(body, i, g[Behind(body, i)])
  <2>1. CASE i > N
    BY <1>6, <2>1 DEF Scans
  <2>2. CASE i <= N /\ Broken(body, i)
    BY <1>1, <1>6, <2>2 DEF Scans, RecordsAt
  <2>3. CASE i <= N /\ ~Broken(body, i)
    <3>1. i \notin Ends /\ i \in 1 .. N
      BY <1>1, <2>3
    <3>2. Behind(body, i) \in Nat \ {0} /\ i + w[i] = Behind(body, i)
      BY <3>1, RecordsAtTyped
    <3>3. f[i] = step[i][f[Behind(body, i)]] /\ f[Behind(body, i)] \in RecordsRead
      <4> HIDE DEF step, w, Ends
      <4> QED
        BY <1>6, <3>1, <3>2 DEF Scans
    <3>4. step[i][f[Behind(body, i)]] = RecordsAt(body, i, f[Behind(body, i)])
      <4> HIDE DEF Ends
      <4> QED
        BY <3>1, <3>3
    <3>5. g[i] = f[i] /\ g[Behind(body, i)] = f[Behind(body, i)]
      BY <3>2
    <3> HIDE DEF g, step
    <3> QED
      BY <1>1, <2>3, <3>3, <3>4, <3>5
  <2> QED
    BY <1>1, <2>1, <2>2, <2>3
<1>8. IsRead(g)
  <2>1. \A i \in Nat \ {0} :
          g[i] = IF i > Len(body) THEN [records |-> <<>>] ELSE RecordsAt(body, i, g[Behind(body, i)])
    BY <1>7
  <2>2. g = [i \in Nat \ {0} |-> g[i]]
    OBVIOUS
  <2> HIDE DEF g
  <2>3. g = [i \in Nat \ {0} |->
               IF i > Len(body) THEN [records |-> <<>>] ELSE RecordsAt(body, i, g[Behind(body, i)])]
    BY <2>1, <2>2
  <2> QED
    BY <2>3, RecordsAtIs
<1>9. IsRead(scan)
  <2> HIDE DEF IsRead, g
  <2> QED
    BY <1>8
<1>10. Records(body) = IF ~Failed(scan[1]) /\ Len(scan[1].records) > MaxRecords
                       THEN Fail("DOC_RESOURCE_LIMIT") ELSE scan[1]
  BY DEF Records, RecordsHere
<1>11. ScansRecords(scan, body)
  <2> HIDE DEF scan
  <2> QED
    BY <1>9, RecordsAtIs DEF ScansRecords
<1> HIDE DEF scan
<1> QED
  BY <1>10, <1>11

\* What a record says.
PayloadOf(paragraph) == FlattenSeq(paragraph.tokens)
RecordFor(paragraph) == [tag |-> paragraph.tag, payload |-> PayloadOf(paragraph)]
Heads(paragraph) == IF Len(PayloadOf(paragraph)) < Escape THEN 1 ELSE 2

LEMMA ParagraphIs ==
  ASSUME NEW paragraph \in AnyParagraph
  PROVE  /\ paragraph.tag \in {"text", "other"} /\ paragraph.tokens \in Seq(AnyToken)
         /\ \A j \in 1 .. Len(paragraph.tokens) - 1 : Complete(paragraph.tokens[j])
         /\ PayloadOf(paragraph) \in Seq(AnyWord) /\ Len(PayloadOf(paragraph)) \in Nat
         /\ RecordFor(paragraph) \in AnyRecord
<1>1. /\ paragraph.tag \in {"text", "other"} /\ paragraph.tokens \in Seq(AnyToken)
      /\ \A j \in 1 .. Len(paragraph.tokens) - 1 : Complete(paragraph.tokens[j])
  BY DEF AnyParagraph
<1>2. PayloadOf(paragraph) \in Seq(AnyWord)
  BY <1>1, TokensTyped DEF PayloadOf
<1> QED
  BY <1>1, <1>2 DEF RecordFor, AnyRecord

LEMMA RecordIs ==
  ASSUME NEW paragraph \in AnyParagraph
  PROVE  LET record == RecordOf(paragraph)
             payload == PayloadOf(paragraph)
             h == Heads(paragraph)
         IN  /\ record \in Seq(AnyWord) /\ Len(record) = h + Len(payload) /\ h \in {1, 2}
             /\ record[1].tag = paragraph.tag
             /\ h = 1 => record[1].length = Len(payload) /\ Len(payload) # Escape
             /\ h = 2 => record[1].length = Escape /\ record[2].length = Len(payload)
             /\ \A m \in 1 .. Len(payload) : record[h + m] = payload[m]
<1> DEFINE record == RecordOf(paragraph)
           payload == PayloadOf(paragraph)
           L == Len(payload)
           short == <<Word("letter", paragraph.tag, L)>>
           long == <<Word("letter", paragraph.tag, Escape), Word("letter", "low", L)>>
<1>1. payload \in Seq(AnyWord) /\ L \in Nat /\ paragraph.tag \in {"text", "other"}
  BY ParagraphIs
<1>2. record = (IF L < Escape THEN short ELSE long) \o payload
  BY DEF RecordOf, PayloadOf
<1>3. Escape \in Nat
  BY HwpAssumption
<1>4. Word("letter", paragraph.tag, L) \in AnyWord /\ Word("letter", paragraph.tag, Escape) \in AnyWord
      /\ Word("letter", "low", L) \in AnyWord
  BY <1>1, <1>3 DEF Word, AnyWord, Chars
<1>5. short \in Seq(AnyWord) /\ long \in Seq(AnyWord) /\ Len(short) = 1 /\ Len(long) = 2
  BY <1>4
<1>6. short[1].tag = paragraph.tag /\ short[1].length = L
  BY DEF Word
<1>7. long[1].tag = paragraph.tag /\ long[1].length = Escape /\ long[2].length = L
  BY DEF Word
<1> HIDE DEF record, payload, L, short, long
<1>8. CASE L < Escape
  <2>1. record = short \o payload /\ Heads(paragraph) = 1
    BY <1>2, <1>8 DEF Heads, L, payload
  <2>2. Joins(record, short, payload) /\ record \in Seq(AnyWord)
    BY <1>1, <1>5, <2>1, ConcatJoins
  <2>3. record[1] = short[1]
    BY <1>5, <2>2 DEF Joins
  <2>4. Len(record) = 1 + L /\ \A m \in 1 .. L : record[1 + m] = payload[m]
    BY <1>5, <2>2 DEF Joins, L
  <2> QED
    BY <1>1, <1>3, <1>6, <1>8, <2>1, <2>2, <2>3, <2>4 DEF record, payload, L
<1>9. CASE ~(L < Escape)
  <2>1. record = long \o payload /\ Heads(paragraph) = 2
    BY <1>2, <1>9 DEF Heads, L, payload
  <2>2. Joins(record, long, payload) /\ record \in Seq(AnyWord)
    BY <1>1, <1>5, <2>1, ConcatJoins
  <2>3. record[1] = long[1] /\ record[2] = long[2]
    BY <1>5, <2>2 DEF Joins
  <2>4. Len(record) = 2 + L /\ \A m \in 1 .. L : record[2 + m] = payload[m]
    BY <1>5, <2>2 DEF Joins, L
  <2> QED
    BY <1>7, <2>1, <2>2, <2>3, <2>4 DEF record, payload, L
<1> QED
  BY <1>8, <1>9

RecordsOf(paragraphs) == [i \in DOMAIN paragraphs |-> RecordOf(paragraphs[i])]

LEMMA WrittenIs ==
  ASSUME NEW paragraphs \in Seq(AnyParagraph)
  PROVE  /\ RecordsOf(paragraphs) \in Seq(Seq(AnyWord)) /\ Len(RecordsOf(paragraphs)) = Len(paragraphs)
         /\ \A i \in 1 .. Len(paragraphs) :
              RecordsOf(paragraphs)[i] = RecordOf(paragraphs[i]) /\ paragraphs[i] \in AnyParagraph
         /\ Written(paragraphs) = FlattenSeq(RecordsOf(paragraphs)) /\ Written(paragraphs) \in Seq(AnyWord)
         /\ \A n \in 0 .. Len(paragraphs) :
              SubSeq(RecordsOf(paragraphs), 1, n) = RecordsOf(SubSeq(paragraphs, 1, n))
<1> DEFINE N == Len(paragraphs)
           recs == RecordsOf(paragraphs)
<1>1. N \in Nat /\ DOMAIN paragraphs = 1 .. N /\ \A i \in 1 .. N : paragraphs[i] \in AnyParagraph
  OBVIOUS
<1>2. \A i \in 1 .. N : RecordOf(paragraphs[i]) \in Seq(AnyWord)
  BY <1>1, RecordIs
<1>3. recs \in [1 .. N -> Seq(AnyWord)] /\ \A i \in 1 .. N : recs[i] = RecordOf(paragraphs[i])
  BY <1>1, <1>2 DEF RecordsOf
<1>4. recs \in Seq(Seq(AnyWord)) /\ Len(recs) = N
  <2> HIDE DEF recs, N
  <2> QED
    BY <1>1, <1>3
<1>5. Written(paragraphs) = FlattenSeq(recs) /\ FlattenSeq(recs) \in Seq(AnyWord)
  BY <1>4, FlattenTyped DEF Written, RecordsOf
<1>6. ASSUME NEW n \in 0 .. N
      PROVE  SubSeq(recs, 1, n) = RecordsOf(SubSeq(paragraphs, 1, n))
  <2> DEFINE front == SubSeq(paragraphs, 1, n)
             a == SubSeq(recs, 1, n)
             b == RecordsOf(front)
  <2>1. front \in Seq(AnyParagraph) /\ Len(front) = n /\ DOMAIN front = 1 .. n
        /\ \A i \in 1 .. n : front[i] = paragraphs[i]
    OBVIOUS
  <2> HIDE DEF recs
  <2>2. a = [i \in 1 .. n |-> recs[i]]
    BY <1>1, <1>4
  <2>3. b = [i \in 1 .. n |-> RecordOf(front[i])]
    BY <2>1 DEF RecordsOf
  <2>4. \A i \in 1 .. n : recs[i] = RecordOf(front[i])
    BY <1>1, <1>3, <2>1
  <2> HIDE DEF a, b, front
  <2> QED
    BY <2>2, <2>3, <2>4 DEF a, b, front
<1> QED
  BY <1>1, <1>3, <1>4, <1>5, <1>6

\* A record that is there is read, and one that is cut off ends the reading.
ReadsRecord(f, at, paragraphs, body, j) ==
  /\ at[j] <= Len(body) =>
       f[at[j - 1] + 1] = IF Failed(f[at[j] + 1]) THEN f[at[j] + 1]
                          ELSE [records |-> <<RecordFor(paragraphs[j])>> \o f[at[j] + 1].records]
  /\ at[j - 1] < Len(body) /\ Len(body) < at[j] => f[at[j - 1] + 1] = Malformed

LEMMA RecordRead ==
  ASSUME NEW paragraphs \in Seq(AnyParagraph),
         NEW at, Lies(at, RecordsOf(paragraphs), Written(paragraphs)),
         NEW body \in Seq(AnyWord), Fronts(body, Written(paragraphs)),
         NEW f, ScansRecords(f, body), NEW j \in 1 .. Len(paragraphs)
  PROVE  ReadsRecord(f, at, paragraphs, body, j)
<1> SUFFICES /\ at[j] <= Len(body) =>
                  f[at[j - 1] + 1] = IF Failed(f[at[j] + 1]) THEN f[at[j] + 1]
                                     ELSE [records |-> <<RecordFor(paragraphs[j])>> \o f[at[j] + 1].records]
             /\ at[j - 1] < Len(body) /\ Len(body) < at[j] => f[at[j - 1] + 1] = Malformed
  BY DEF ReadsRecord
<1> DEFINE recs == RecordsOf(paragraphs)
           whole == Written(paragraphs)
           p == paragraphs[j]
           r == RecordOf(p)
           payload == PayloadOf(p)
           h == Heads(p)
           L == Len(payload)
           N == Len(body)
           a == at[j - 1]
           b == at[j]
           i == a + 1
<1>1. /\ p \in AnyParagraph /\ recs[j] = r /\ Len(recs) = Len(paragraphs) /\ Len(paragraphs) \in Nat
      /\ whole \in Seq(AnyWord)
  BY WrittenIs
<1>2. /\ r \in Seq(AnyWord) /\ Len(r) = h + L /\ h \in {1, 2} /\ r[1].tag = p.tag
      /\ h = 1 => r[1].length = L /\ L # Escape
      /\ h = 2 => r[1].length = Escape /\ r[2].length = L
      /\ \A m \in 1 .. L : r[h + m] = payload[m]
  BY <1>1, RecordIs
<1>3. L \in Nat /\ p.tag \in {"text", "other"} /\ payload \in Seq(AnyWord)
  BY <1>1, ParagraphIs
<1>4. N \in Nat /\ Len(whole) \in Nat /\ N <= Len(whole) /\ \A m \in 1 .. N : body[m] = whole[m]
  BY <1>1 DEF Fronts
<1>5. a \in Nat /\ b \in Nat /\ b = a + Len(r) /\ \A m \in 1 .. Len(r) : whole[a + m] = r[m]
  <2>1. j - 1 \in 0 .. Len(recs) /\ j \in 0 .. Len(recs) /\ j \in 1 .. Len(recs)
    BY <1>1
  <2> HIDE DEF recs, whole, r, p
  <2> QED
    BY <1>1, <2>1 DEF Lies, recs, whole
<1>6. f[i] = IF i > N THEN [records |-> <<>>] ELSE RecordsAt(body, i, f[Behind(body, i)])
  BY <1>5 DEF ScansRecords
<1> HIDE DEF recs, whole, p, r, payload, h, L, N, a, b
<1>7. ASSUME NEW m \in 1 .. Len(r), a + m <= N PROVE body[a + m] = r[m]
  <2>1. a + m \in 1 .. N
    BY <1>2, <1>4, <1>5, <1>7
  <2> QED
    BY <1>4, <1>5, <2>1
<1>8. 1 \in 1 .. Len(r) /\ (h = 2 => 2 \in 1 .. Len(r)) /\ Len(r) \in Nat
  BY <1>2, <1>3
<1>9. CASE b <= N
  <2>1. a + 1 <= N /\ (h = 2 => a + 2 <= N)
    BY <1>2, <1>3, <1>4, <1>5, <1>9
  <2>2. body[i] = r[1] /\ (h = 2 => body[i + 1] = r[2])
    <3>1. body[a + 1] = r[1]
      BY <1>7, <1>8, <2>1
    <3>2. h = 2 => body[a + 2] = r[2]
      BY <1>7, <1>8, <2>1
    <3>3. i + 1 = a + 2
      BY <1>5
    <3> QED
      BY <3>1, <3>2, <3>3
  <2>3. StartAt(body, i) = i + h /\ LengthAt(body, i) = L /\ (Long(body, i) <=> h = 2)
    BY <1>2, <2>2 DEF StartAt, LengthAt, Long
  <2>4. Behind(body, i) = b + 1
    BY <1>2, <1>3, <1>5, <2>3 DEF Behind
  <2>5. ~Broken(body, i)
    <3>1. ~(Long(body, i) /\ i = Len(body))
      BY <1>4, <1>5, <2>1, <2>3 DEF N
    <3>2. body[i].tag # "low"
      BY <1>2, <1>3, <2>2
    <3>3. ~(Behind(body, i) > Len(body) + 1)
      BY <1>4, <1>5, <1>9, <2>4 DEF N
    <3> QED
      BY <3>1, <3>2, <3>3 DEF Broken
  <2>6. SubSeq(body, i + h, i + h + L - 1) = payload
    <3> DEFINE u == SubSeq(body, i + h, i + h + L - 1)
    <3>1. i + h \in 1 .. N + 1 /\ i + h + L - 1 \in 0 .. N /\ i + h + L - 1 = b
      BY <1>2, <1>3, <1>4, <1>5, <1>9
    <3>2. ASSUME NEW m \in 1 .. L PROVE body[i + h + m - 1] = payload[m]
      <4>1. h + m \in 1 .. Len(r) /\ a + (h + m) <= N /\ a + (h + m) = i + h + m - 1
        BY <1>2, <1>3, <1>4, <1>5, <1>9
      <4>2. body[a + (h + m)] = r[h + m]
        BY <1>7, <4>1
      <4> QED
        BY <1>2, <4>1, <4>2
    <3>4. /\ u \in Seq(AnyWord) /\ Len(u) = L
          /\ \A m \in 1 .. L : u[m] = body[i + h + m - 1]
      <4> DEFINE c == i + h
                 d == i + h + L - 1
      <4>1. c \in 1 .. Len(body) + 1 /\ d \in c - 1 .. Len(body) /\ d - c + 1 = L
        BY <1>2, <1>3, <1>4, <1>5, <3>1 DEF N
      <4> HIDE DEF c, d
      <4>2. /\ SubSeq(body, c, d) \in Seq(AnyWord) /\ Len(SubSeq(body, c, d)) = d - c + 1
            /\ \A m \in 1 .. d - c + 1 : SubSeq(body, c, d)[m] = body[c + m - 1]
        BY <4>1, SubSeqIs
      <4> QED
        BY <4>1, <4>2 DEF c, d
    <3>5. L = Len(payload)
      BY DEF L
    <3> HIDE DEF u
    <3>6. \A m \in 1 .. Len(u) : u[m] = payload[m]
      BY <3>2, <3>4
    <3>7. u = payload
      BY <1>3, <3>4, <3>5, <3>6, SameSequences
    <3> QED
      BY <3>7 DEF u
  <2>7. RecordAt(body, i) = RecordFor(p)
    BY <1>2, <2>2, <2>3, <2>6, Zenon DEF RecordAt, RecordFor, payload
  <2>8. ~(i > N)
    BY <1>4, <1>5, <2>1
  <2> HIDE DEF i
  <2>9. f[i] = IF Failed(f[b + 1]) THEN f[b + 1] ELSE [records |-> <<RecordFor(p)>> \o f[b + 1].records]
    BY <1>6, <2>4, <2>5, <2>7, <2>8 DEF RecordsAt
  <2>10. ~(N < b)
    BY <1>4, <1>5, <1>9
  <2> QED
    BY <2>9, <2>10 DEF N, a, b, i, p
<1>10. CASE a < N /\ N < b
  <2>1. a + 1 <= N
    BY <1>4, <1>5, <1>10
  <2>2. body[i] = r[1]
    BY <1>7, <1>8, <2>1
  <2>3. Broken(body, i)
    <3>1. CASE h = 2 /\ i = N
      BY <1>2, <2>2, <3>1 DEF Broken, Long, N
    <3>2. CASE h = 2 /\ i # N
      <4>1. a + 2 <= N /\ i + 1 = a + 2
        BY <1>4, <1>5, <2>1, <3>2
      <4>2. body[i + 1] = r[2]
        BY <1>7, <1>8, <3>2, <4>1
      <4>3. StartAt(body, i) = i + 2 /\ LengthAt(body, i) = L
        BY <1>2, <2>2, <3>2, <4>2 DEF StartAt, LengthAt, Long
      <4>4. Behind(body, i) > N + 1
        BY <1>2, <1>3, <1>4, <1>5, <1>10, <3>2, <4>3 DEF Behind
      <4> QED
        BY <4>4 DEF Broken, N
    <3>3. CASE h = 1
      <4>3. StartAt(body, i) = i + 1 /\ LengthAt(body, i) = L
        BY <1>2, <2>2, <3>3 DEF StartAt, LengthAt, Long
      <4>4. Behind(body, i) > N + 1
        BY <1>2, <1>3, <1>4, <1>5, <1>10, <3>3, <4>3 DEF Behind
      <4> QED
        BY <4>4 DEF Broken, N
    <3> QED
      BY <1>2, <3>1, <3>2, <3>3
  <2>4. ~(i > N)
    BY <1>4, <1>5, <2>1
  <2> HIDE DEF i
  <2>5. f[i] = Malformed
    BY <1>6, <2>3, <2>4 DEF RecordsAt
  <2>6. ~(b <= N)
    BY <1>4, <1>5, <1>10
  <2> QED
    BY <2>5, <2>6 DEF N, a, b, i
<1>11. CASE ~(b <= N) /\ ~(a < N /\ N < b)
  BY <1>11 DEF N, a, b
<1> QED
  BY <1>9, <1>10, <1>11

ReadOf(paragraphs) == [i \in DOMAIN paragraphs |-> RecordFor(paragraphs[i])]

LEMMA ReadOfTyped ==
  ASSUME NEW paragraphs \in Seq(AnyParagraph)
  PROVE  /\ ReadOf(paragraphs) \in Seq(AnyRecord) /\ Len(ReadOf(paragraphs)) = Len(paragraphs)
         /\ \A i \in 1 .. Len(paragraphs) : ReadOf(paragraphs)[i] = RecordFor(paragraphs[i])
<1> DEFINE N == Len(paragraphs)
           r == ReadOf(paragraphs)
<1>1. N \in Nat /\ DOMAIN paragraphs = 1 .. N /\ \A i \in 1 .. N : paragraphs[i] \in AnyParagraph
  OBVIOUS
<1>2. r \in [1 .. N -> AnyRecord] /\ \A i \in 1 .. N : r[i] = RecordFor(paragraphs[i])
  BY <1>1, ParagraphIs DEF ReadOf
<1> HIDE DEF r, N
<1>3. r \in Seq(AnyRecord) /\ Len(r) = N
  BY <1>1, <1>2
<1> QED
  BY <1>2, <1>3 DEF r, N

\* Of a stream that was not cut off, all records are read, unless they are too many.
LEMMA RecordsOfWritten ==
  ASSUME NEW paragraphs \in Seq(AnyParagraph)
  PROVE  Records(Written(paragraphs)) =
           IF Len(paragraphs) > MaxRecords THEN Fail("DOC_RESOURCE_LIMIT")
           ELSE [records |-> ReadOf(paragraphs)]
<1> DEFINE n == Len(paragraphs)
           recs == RecordsOf(paragraphs)
           whole == Written(paragraphs)
           r == ReadOf(paragraphs)
<1>1. n \in Nat
  OBVIOUS
<1>2. /\ recs \in Seq(Seq(AnyWord)) /\ Len(recs) = n /\ whole = FlattenSeq(recs) /\ whole \in Seq(AnyWord)
      /\ Len(whole) \in Nat
  BY WrittenIs
<1>3. r \in Seq(AnyRecord) /\ Len(r) = n /\ \A i \in 1 .. n : r[i] = RecordFor(paragraphs[i])
  BY ReadOfTyped
<1>4. PICK at : Lies(at, recs, whole)
  BY <1>2, FlattenLies
<1>5. PICK f : /\ ScansRecords(f, whole)
               /\ Records(whole) = IF ~Failed(f[1]) /\ Len(f[1].records) > MaxRecords
                                   THEN Fail("DOC_RESOURCE_LIMIT") ELSE f[1]
  BY <1>2, RecordsScan
<1>6. Fronts(whole, whole)
  BY <1>2, FrontsItself
<1>7. at \in [0 .. n -> Nat] /\ at[0] = 0 /\ at[n] = Len(whole) /\ \A j \in 1 .. n : at[j] <= Len(whole)
  BY <1>2, <1>4 DEF Lies
<1>8. ASSUME NEW j \in 1 .. n
      PROVE  f[at[j - 1] + 1] = IF Failed(f[at[j] + 1]) THEN f[at[j] + 1]
                                ELSE [records |-> <<r[j]>> \o f[at[j] + 1].records]
  <2>1. /\ at[j] <= Len(whole) =>
              f[at[j - 1] + 1] = IF Failed(f[at[j] + 1]) THEN f[at[j] + 1]
                                 ELSE [records |-> <<RecordFor(paragraphs[j])>> \o f[at[j] + 1].records]
        /\ at[j - 1] < Len(whole) /\ Len(whole) < at[j] => f[at[j - 1] + 1] = Malformed
    <3>1. ReadsRecord(f, at, paragraphs, whole, j)
      BY <1>2, <1>4, <1>5, <1>6, RecordRead
    <3> QED
      BY <3>1 DEF ReadsRecord
  <2> QED
    BY <1>3, <1>7, <2>1
<1> DEFINE From(k) == f[at[k] + 1]
           T == {k \in 0 .. n : From(k) = [records |-> SubSeq(r, k + 1, n)]}
<1>9. n \in T
  <2>1. From(n) = [records |-> <<>>]
    BY <1>2, <1>5, <1>7 DEF ScansRecords
  <2>2. SubSeq(r, n + 1, n) = <<>>
    BY <1>1, <1>3
  <2> QED
    BY <1>1, <2>1, <2>2
<1> HIDE DEF n, r, From
<1>10. ASSUME NEW j \in 1 .. n, j \in T PROVE j - 1 \in T
  <2>1. From(j) = [records |-> SubSeq(r, j + 1, n)] /\ j - 1 \in 0 .. n
    BY <1>1, <1>10
  <2>2. From(j - 1) = [records |-> <<r[j]>> \o SubSeq(r, j + 1, n)]
    <3>1. From(j - 1) = IF Failed(From(j)) THEN From(j) ELSE [records |-> <<r[j]>> \o From(j).records]
      BY <1>8 DEF From
    <3> DEFINE rest == SubSeq(r, j + 1, n)
    <3>2. From(j) = [records |-> rest]
      BY <2>1
    <3> HIDE DEF rest
    <3>3. ~Failed(From(j)) /\ From(j).records = rest
      BY <3>2 DEF Failed
    <3> QED
      BY <3>1, <3>3 DEF rest
  <2>3. <<r[j]>> \o SubSeq(r, j + 1, n) = SubSeq(r, j, n)
    <3>1. r[j] \in AnyRecord
      BY <1>3
    <3> QED
      BY <1>1, <1>3, <3>1
  <2>4. (j - 1) + 1 = j
    OBVIOUS
  <2> QED
    BY <2>1, <2>2, <2>3, <2>4
<1>11. 0 .. n \subseteq T
  <2> HIDE DEF T
  <2> QED
    BY <1>1, <1>9, <1>10, DowntoInduction
<1>12. f[1] = [records |-> r]
  <2>1. From(0) = [records |-> SubSeq(r, 1, n)]
    BY <1>1, <1>11
  <2>2. SubSeq(r, 1, n) = r
    BY <1>3
  <2>3. From(0) = f[1]
    BY <1>7 DEF From
  <2> QED
    BY <2>1, <2>2, <2>3
<1>13. ~Failed(f[1]) /\ f[1].records = r
  BY <1>12 DEF Failed
<1> QED
  BY <1>3, <1>5, <1>12, <1>13 DEF n, r

\* A stream that was cut off within a record has none.
LEMMA RecordsOfCut ==
  ASSUME NEW paragraphs \in Seq(AnyParagraph), NEW body \in Seq(AnyWord),
         IsPrefix(body, Written(paragraphs)),
         \A n \in 0 .. Len(paragraphs) : body # Written(SubSeq(paragraphs, 1, n))
  PROVE  Records(body) = Malformed
<1> DEFINE n == Len(paragraphs)
           recs == RecordsOf(paragraphs)
           whole == Written(paragraphs)
           N == Len(body)
<1>1. n \in Nat /\ N \in Nat
  OBVIOUS
<1>2. /\ recs \in Seq(Seq(AnyWord)) /\ Len(recs) = n /\ whole = FlattenSeq(recs) /\ whole \in Seq(AnyWord)
      /\ \A m \in 0 .. n : SubSeq(recs, 1, m) = RecordsOf(SubSeq(paragraphs, 1, m))
  BY WrittenIs
<1>3. N <= Len(whole) /\ SubSeq(whole, 1, N) = body
  <2>1. N <= Len(whole) /\ SubSeq(body, 1, N) = SubSeq(whole, 1, N)
    BY DEF IsPrefix
  <2>2. SubSeq(body, 1, N) = body
    OBVIOUS
  <2> QED
    BY <2>1, <2>2
<1>4. Fronts(body, whole)
  <2>1. \A m \in 1 .. N : SubSeq(whole, 1, N)[m] = whole[m]
    BY <1>1, <1>2, <1>3
  <2> QED
    BY <1>3, <2>1 DEF Fronts
<1>5. PICK at : Lies(at, recs, whole)
  BY <1>2, FlattenLies
<1>6. PICK f : /\ ScansRecords(f, body)
               /\ Records(body) = IF ~Failed(f[1]) /\ Len(f[1].records) > MaxRecords
                                  THEN Fail("DOC_RESOURCE_LIMIT") ELSE f[1]
  BY RecordsScan
<1>7. at \in [0 .. n -> Nat] /\ at[0] = 0 /\ at[n] = Len(whole)
  BY <1>2, <1>5 DEF Lies
<1>8. ASSUME NEW m \in 0 .. n PROVE at[m] # N
  <2> SUFFICES ASSUME at[m] = N PROVE FALSE
    OBVIOUS
  <2> DEFINE front == SubSeq(paragraphs, 1, m)
  <2>1. front \in Seq(AnyParagraph)
    OBVIOUS
  <2>2. SubSeq(whole, 1, at[m]) = FlattenSeq(SubSeq(recs, 1, m))
    BY <1>2, <1>5 DEF Lies
  <2>3. SubSeq(recs, 1, m) = RecordsOf(front)
    BY <1>2
  <2> HIDE DEF front
  <2>4. FlattenSeq(RecordsOf(front)) = Written(front)
    BY <2>1, WrittenIs
  <2>5. body = Written(front)
    BY <1>3, <2>2, <2>3, <2>4
  <2> QED
    BY <2>5 DEF front
<1>9. ASSUME NEW j \in 1 .. n
      PROVE  /\ at[j] <= N /\ f[at[j] + 1] = Malformed => f[at[j - 1] + 1] = Malformed
             /\ at[j - 1] < N /\ N < at[j] => f[at[j - 1] + 1] = Malformed
  <2>1. /\ at[j] <= Len(body) =>
              f[at[j - 1] + 1] = IF Failed(f[at[j] + 1]) THEN f[at[j] + 1]
                                 ELSE [records |-> <<RecordFor(paragraphs[j])>> \o f[at[j] + 1].records]
        /\ at[j - 1] < Len(body) /\ Len(body) < at[j] => f[at[j - 1] + 1] = Malformed
    <3>1. ReadsRecord(f, at, paragraphs, body, j)
      BY <1>2, <1>4, <1>5, <1>6, RecordRead
    <3> QED
      BY <3>1 DEF ReadsRecord
  <2>2. Failed(Malformed)
    BY Failures DEF Malformed
  <2> QED
    BY <2>1, <2>2
<1> HIDE DEF n, N, recs, whole
<1> DEFINE Beyond == {j \in 0 .. n : at[j] > N}
<1>10. PICK j \in Beyond : \A k \in Beyond : j <= k
  <2>1. n \in Beyond
    BY <1>1, <1>3, <1>7, <1>8, Len(whole) \in Nat, <1>2
  <2>2. Beyond \subseteq Nat /\ Beyond # {}
    BY <1>1, <2>1
  <2> HIDE DEF Beyond
  <2> QED
    BY <2>2, LeastNatural
<1>11. /\ j \in 1 .. n /\ at[j] > N
       /\ \A k \in 0 .. j - 1 : at[k] \in Nat /\ at[k] < N /\ k \in 0 .. n
  <2>1. j \in 0 .. n /\ at[j] > N /\ j # 0
    BY <1>1, <1>7, <1>10
  <2>2. ASSUME NEW k \in 0 .. j - 1 PROVE at[k] \in Nat /\ at[k] < N /\ k \in 0 .. n
    <3>1. k \in 0 .. n /\ ~(j <= k)
      BY <1>1, <2>1
    <3>2. ~(at[k] > N) /\ at[k] # N /\ at[k] \in Nat
      BY <1>7, <1>8, <1>10, <3>1
    <3> QED
      BY <1>1, <3>1, <3>2
  <2> QED
    BY <1>1, <2>1, <2>2
<1> DEFINE T == {k \in 0 .. j - 1 : f[at[k] + 1] = Malformed}
<1>12. j - 1 \in T
  <2>1. j - 1 \in 0 .. j - 1 /\ at[j - 1] < N
    BY <1>1, <1>11
  <2>2. f[at[j - 1] + 1] = Malformed
    BY <1>1, <1>9, <1>11, <2>1
  <2> QED
    BY <2>1, <2>2
<1>13. ASSUME NEW k \in 1 .. j - 1, k \in T PROVE k - 1 \in T
  <2>1. k \in 1 .. n /\ k \in 0 .. j - 1 /\ k - 1 \in 0 .. j - 1 /\ f[at[k] + 1] = Malformed
    BY <1>1, <1>11, <1>13
  <2>2. at[k] <= N
    BY <1>1, <1>11, <2>1
  <2> QED
    BY <1>9, <2>1, <2>2
<1>14. 0 .. j - 1 \subseteq T
  <2>1. j - 1 \in Nat
    BY <1>1, <1>11
  <2> HIDE DEF T
  <2> QED
    BY <1>12, <1>13, <2>1, DowntoInduction
<1>15. f[1] = Malformed
  <2>1. 0 \in T
    BY <1>1, <1>11, <1>14
  <2> QED
    BY <1>7, <2>1
<1> QED
  BY <1>6, <1>15, Failures DEF Malformed

-------------------------------------------------------------------------------
(* The nodes of a section *)

\* No control of the paragraph lacks cargo.
AllThere(paragraph) == \A t \in ToSet(paragraph.tokens) : Complete(t)
NodeFor(paragraphs, i) == [text |-> Meant(paragraphs[i]), paragraph |-> i - 1]
NodesRead(paragraphs) ==
  {Malformed} \cup [nodes : Seq({NodeFor(paragraphs, i) : i \in 1 .. Len(paragraphs)})]

\* The i-th paragraph, after s of those before it.
AddNode(paragraphs, s, i) ==
  IF Failed(s) \/ paragraphs[i].tag # "text" THEN s
  ELSE IF ~AllThere(paragraphs[i]) THEN Malformed
  ELSE IF Meant(paragraphs[i]) = <<>> THEN s
  ELSE [nodes |-> Append(s.nodes, NodeFor(paragraphs, i))]

LEMMA AddNodeTyped ==
  ASSUME NEW paragraphs, NEW i \in 1 .. Len(paragraphs), NEW s \in NodesRead(paragraphs)
  PROVE  AddNode(paragraphs, s, i) \in NodesRead(paragraphs)
<1> DEFINE D == {NodeFor(paragraphs, k) : k \in 1 .. Len(paragraphs)}
<1>1. CASE AddNode(paragraphs, s, i) \in {s, Malformed}
  BY <1>1 DEF NodesRead
<1>2. CASE AddNode(paragraphs, s, i) \notin {s, Malformed}
  <2>1. ~Failed(s) /\ AddNode(paragraphs, s, i) = [nodes |-> Append(s.nodes, NodeFor(paragraphs, i))]
    BY <1>2 DEF AddNode
  <2>2. s \in [nodes : Seq(D)]
    BY <2>1, Failures DEF NodesRead, Malformed
  <2>3. NodeFor(paragraphs, i) \in D
    OBVIOUS
  <2> HIDE DEF D
  <2>4. Append(s.nodes, NodeFor(paragraphs, i)) \in Seq(D)
    BY <2>2, <2>3
  <2> QED
    BY <2>1, <2>4 DEF NodesRead, D
<1> QED
  BY <1>1, <1>2

\* What the reader has after each record.
LEMMA NodesTrace ==
  ASSUME NEW paragraphs \in Seq(AnyParagraph), Len(paragraphs) <= MaxRecords
  PROVE  \E f \in [0 .. Len(paragraphs) -> NodesRead(paragraphs)] :
           /\ f[0] = [nodes |-> <<>>] /\ f[Len(paragraphs)] = Nodes(Written(paragraphs))
           /\ \A i \in 1 .. Len(paragraphs) : f[i] = AddNode(paragraphs, f[i - 1], i)
<1> DEFINE N == Len(paragraphs)
           Q == NodesRead(paragraphs)
           none == [nodes |-> <<>>]
           found == Records(Written(paragraphs))
           op(s, i) ==
             LET text == ParagraphText(found.records[i].payload) IN
             IF Failed(s) \/ found.records[i].tag # "text" THEN s
             ELSE IF Failed(text) THEN text
             ELSE IF text.text = <<>> THEN s
             ELSE [nodes |-> Append(s.nodes, [text |-> text.text, paragraph |-> i - 1])]
           IsIter(g) == g = [t \in SUBSET DOMAIN Upto(N) |->
                               IF t = {} THEN none ELSE op(g[t \ {Max(t)}], Upto(N)[Max(t)])]
           step == [i \in 1 .. N |-> [s \in Q |-> AddNode(paragraphs, s, i)]]
           iter == CHOOSE g : IsIter(g)
<1>1. N \in Nat /\ DOMAIN Upto(N) = 1 .. N /\ Len(Upto(N)) = N /\ \A i \in 1 .. N : Upto(N)[i] = i
  BY UptoIs
<1>2. found = [records |-> ReadOf(paragraphs)]
  <2>1. MaxRecords \in Nat
    BY HwpAssumption
  <2>2. ~(N > MaxRecords)
    BY <1>1, <2>1
  <2> QED
    BY <2>2, RecordsOfWritten
<1>21. ~Failed(found) /\ found.records = ReadOf(paragraphs) /\ Len(found.records) = N
  <2> HIDE DEF found, N
  <2>1. ~Failed(found) /\ found.records = ReadOf(paragraphs)
    BY <1>2 DEF Failed
  <2> QED
    BY <2>1, ReadOfTyped DEF N
<1>3. ASSUME NEW s, NEW i \in 1 .. N PROVE op(s, i) = AddNode(paragraphs, s, i)
  <2> DEFINE p == paragraphs[i]
             record == found.records[i]
             text == ParagraphText(record.payload)
  <2>1. p \in AnyParagraph /\ record = RecordFor(p)
    BY <1>21, ReadOfTyped
  <2>2. record.tag = p.tag /\ record.payload = FlattenSeq(p.tokens)
    BY <2>1 DEF RecordFor, PayloadOf
  <2> HIDE DEF record
  <2>3. text = IF AllThere(p) THEN [text |-> Meant(p)] ELSE Malformed
    <3>1. p.tokens \in Seq(AnyToken) /\ \A j \in 1 .. Len(p.tokens) - 1 : Complete(p.tokens[j])
      BY <2>1, ParagraphIs
    <3>2. ParagraphText(FlattenSeq(p.tokens)) =
            IF \A t \in ToSet(p.tokens) : Complete(t)
            THEN [text |-> Trim(Among([j \in DOMAIN p.tokens |-> CharOf(p.tokens[j])], Printable \cup Blanks))]
            ELSE Malformed
      BY <3>1, TextOfTokens
    <3> QED
      BY <2>2, <3>2 DEF AllThere, Meant
  <2> HIDE DEF text, p
  <2>4. AllThere(p) => ~Failed(text) /\ text.text = Meant(p)
    BY <2>3 DEF Failed
  <2>5. ~AllThere(p) => Failed(text) /\ text = Malformed
    BY <2>3, Failures DEF Malformed
  <2> QED
    BY <2>2, <2>4, <2>5 DEF AddNode, NodeFor, record, text, p
<1> HIDE DEF op
<1>4. none \in Q /\ step \in [1 .. N -> [Q -> Q]]
  BY AddNodeTyped DEF NodesRead
<1>5. IsFold(N, Q, none, step)
  BY <1>1, <1>4 DEF IsFold
<1>6. ASSUME NEW g, NEW t \in SUBSET (1 .. N), t # {}, g[t \ {Max(t)}] \in Q
      PROVE  step[Max(t)][g[t \ {Max(t)}]] = op(g[t \ {Max(t)}], Upto(N)[Max(t)])
  <2>1. Max(t) \in 1 .. N /\ Upto(N)[Max(t)] = Max(t)
    BY <1>1, <1>6, MaxOfUpto
  <2> HIDE DEF Q, N
  <2> QED
    BY <1>3, <1>6, <2>1
<1>7. \E g : IsIter(g)
  <2>1. PICK h \in [SUBSET (1 .. N) -> Q] : Iterates(h, N, Q, none, step)
    <3> HIDE DEF step, Q, N, none
    <3> QED
      BY <1>5, FoldExists
  <2> HIDE DEF N, Q, step, none
  <2>2. \A t \in SUBSET (1 .. N) : t # {} => h[t] = op(h[t \ {Max(t)}], Upto(N)[Max(t)])
    BY <1>6, <2>1 DEF Iterates
  <2>3. IsIter(h)
    BY <1>1, <2>1, <2>2 DEF Iterates
  <2> QED
    BY <2>3
<1>8. IsIter(iter)
  BY <1>7
<1>9. Nodes(Written(paragraphs)) = iter[1 .. N]
  <2> USE DEF op
  <2> QED
    BY <1>1, <1>21 DEF Nodes, FoldLeft, MapThenFoldSet
<1> HIDE DEF iter
<1>10. Iterates(iter, N, Q, none, step)
  <2> HIDE DEF none
  <2>1. iter[{}] = none
    BY <1>8
  <2>2. ASSUME NEW t \in SUBSET (1 .. N), t # {}, iter[t \ {Max(t)}] \in Q
        PROVE  iter[t] = step[Max(t)][iter[t \ {Max(t)}]]
    <3>1. iter[t] = op(iter[t \ {Max(t)}], Upto(N)[Max(t)])
      BY <1>1, <1>8, <2>2
    <3> QED
      BY <1>6, <2>2, <3>1
  <2> QED
    BY <2>1, <2>2 DEF Iterates
<1>11. PICK f \in [0 .. N -> Q] : Traces(f, N, none, step) /\ f[N] = iter[1 .. N]
  <2> HIDE DEF step, Q, N, none
  <2> QED
    BY <1>5, <1>10, FoldTraces
<1>12. ASSUME NEW i \in 1 .. N PROVE f[i] = AddNode(paragraphs, f[i - 1], i)
  <2>1. f[i] = step[i][f[i - 1]]
    BY <1>11 DEF Traces
  <2>2. i - 1 \in 0 .. N
    BY <1>1
  <2> HIDE DEF Q, N
  <2>3. f[i - 1] \in Q
    BY <1>11, <2>2
  <2> QED
    BY <2>1, <2>3
<1>13. f[0] = none
  BY <1>11 DEF Traces
<1> QED
  BY <1>9, <1>11, <1>12, <1>13

AnyNode == [text : {Meant(p) : p \in AnyParagraph}, paragraph : Nat]
ShownOf(paragraphs) ==
  {i \in DOMAIN paragraphs : paragraphs[i].tag = "text" /\ Meant(paragraphs[i]) # <<>>}
\* No control of the paragraphs that have a text lacks cargo.
AllWhole(paragraphs) ==
  \A i \in 1 .. Len(paragraphs) : paragraphs[i].tag = "text" => AllThere(paragraphs[i])

LEMMA NodesMeantIs ==
  ASSUME NEW paragraphs \in Seq(AnyParagraph)
  PROVE  LET n == Len(paragraphs)
             h == [i \in 1 .. n |-> NodeFor(paragraphs, i)]
             places == Among(Upto(n), ShownOf(paragraphs))
         IN  /\ h \in [1 .. n -> AnyNode] /\ places \in Seq(1 .. n)
             /\ NodesMeant(paragraphs) = Mapped(h, places) /\ NodesMeant(paragraphs) \in Seq(AnyNode)
<1> DEFINE n == Len(paragraphs)
           h == [i \in 1 .. n |-> NodeFor(paragraphs, i)]
           places == Among(Upto(n), ShownOf(paragraphs))
<1>1. n \in Nat /\ \A i \in 1 .. n : paragraphs[i] \in AnyParagraph
  OBVIOUS
<1>2. h \in [1 .. n -> AnyNode]
  <2>1. \A i \in 1 .. n : NodeFor(paragraphs, i) \in AnyNode
    BY <1>1 DEF NodeFor, AnyNode
  <2> QED
    BY <2>1
<1>3. places \in Seq(1 .. n)
  BY <1>1, UptoIs, AmongTyped
<1> HIDE DEF n, h, places
<1>4. NodesMeant(paragraphs) =
        [k \in DOMAIN places |-> [text |-> Meant(paragraphs[places[k]]), paragraph |-> places[k] - 1]]
  BY DEF NodesMeant, places, n, ShownOf
<1>5. ASSUME NEW k \in DOMAIN places
      PROVE  [text |-> Meant(paragraphs[places[k]]), paragraph |-> places[k] - 1] = h[places[k]]
  <2>1. places[k] \in 1 .. n
    BY <1>3, ElementTyped
  <2> QED
    BY <2>1 DEF h, NodeFor
<1>6. NodesMeant(paragraphs) = Mapped(h, places)
  BY <1>4, <1>5 DEF Mapped
<1>7. Mapped(h, places) \in Seq(AnyNode)
  BY <1>2, <1>3, MappedTyped
<1> QED
  BY <1>2, <1>3, <1>6, <1>7 DEF n, h, places

\* The nodes of paragraphs that are all there are those that they stand for.
LEMMA NodesOfWhole ==
  ASSUME NEW paragraphs \in Seq(AnyParagraph), Len(paragraphs) <= MaxRecords, AllWhole(paragraphs)
  PROVE  Nodes(Written(paragraphs)) = [nodes |-> NodesMeant(paragraphs)]
<1> DEFINE n == Len(paragraphs)
           shown == ShownOf(paragraphs)
           h == [i \in 1 .. n |-> NodeFor(paragraphs, i)]
           places == Among(Upto(n), shown)
<1>1. n \in Nat /\ DOMAIN paragraphs = 1 .. n
  OBVIOUS
<1>2. h \in [1 .. n -> AnyNode] /\ NodesMeant(paragraphs) = Mapped(h, places)
  BY NodesMeantIs
<1>3. PICK f \in [0 .. n -> NodesRead(paragraphs)] :
        /\ f[0] = [nodes |-> <<>>] /\ f[n] = Nodes(Written(paragraphs))
        /\ \A i \in 1 .. n : f[i] = AddNode(paragraphs, f[i - 1], i)
  BY NodesTrace
<1>4. \A i \in 1 .. n : h[i] = NodeFor(paragraphs, i)
  OBVIOUS
<1> HIDE DEF n, h, shown, places
<1>5. PICK g \in [0 .. n -> Seq(1 .. n)] :
        /\ g[0] = <<>> /\ g[n] = places
        /\ \A i \in 1 .. n : g[i] = IF i \in shown THEN Append(g[i - 1], i) ELSE g[i - 1]
  <2>1. Upto(n) \in Seq(1 .. n) /\ Len(Upto(n)) = n /\ \A i \in 1 .. n : Upto(n)[i] = i
    BY <1>1, UptoIs
  <2>2. PICK g \in [0 .. Len(Upto(n)) -> Seq(1 .. n)] : Takes(g, Upto(n), shown)
    BY <2>1, AmongTakes
  <2> QED
    BY <2>1, <2>2 DEF Takes, places
<1> DEFINE T == {i \in 0 .. n : f[i] = [nodes |-> Mapped(h, g[i])]}
<1>6. 0 \in T
  <2>1. Mapped(h, <<>>) = <<>>
    BY DEF Mapped
  <2> QED
    BY <1>1, <1>3, <1>5, <2>1
<1>7. ASSUME NEW i \in 1 .. n, i - 1 \in T PROVE i \in T
  <2> DEFINE s == f[i - 1]
             p == paragraphs[i]
             taken == Mapped(h, g[i - 1])
  <2>1. f[i] = AddNode(paragraphs, s, i) /\ i \in 0 .. n /\ s = [nodes |-> taken]
    BY <1>1, <1>3, <1>7
  <2>2. g[i - 1] \in Seq(1 .. n) /\ i - 1 \in 0 .. n
    BY <1>1, <1>5
  <2>3. Mapped(h, Append(g[i - 1], i)) = Append(taken, h[i])
    <3> DEFINE D == 1 .. n
               v == g[i - 1]
    <3>1. h \in [D -> AnyNode] /\ v \in Seq(D) /\ i \in D
      BY <1>2, <2>2
    <3> HIDE DEF D, v
    <3>2. MapsMore(h, v, i)
      BY <3>1, MappedAppend
    <3> QED
      BY <3>2 DEF v, MapsMore
  <2>4. g[i] = IF i \in shown THEN Append(g[i - 1], i) ELSE g[i - 1]
    BY <1>5
  <2>5. p.tag = "text" => AllThere(p)
    BY DEF AllWhole, n
  <2>6. i \in shown <=> p.tag = "text" /\ Meant(p) # <<>>
    BY <1>1 DEF shown, ShownOf
  <2> HIDE DEF taken
  <2>7. ~Failed(s) /\ s.nodes = taken
    BY <2>1 DEF Failed
  <2>8. CASE i \in shown
    <3>1. f[i] = [nodes |-> Append(taken, h[i])]
      BY <1>4, <2>1, <2>5, <2>6, <2>7, <2>8 DEF AddNode
    <3> QED
      BY <2>1, <2>3, <2>4, <2>8, <3>1
  <2>9. CASE i \notin shown
    <3>1. f[i] = [nodes |-> taken]
      BY <2>1, <2>5, <2>6, <2>7, <2>9 DEF AddNode
    <3> QED
      BY <2>1, <2>4, <2>9, <3>1 DEF taken
  <2> QED
    BY <2>8, <2>9
<1>8. n \in T
  <2>1. n \in 0 .. n
    BY <1>1
  <2> HIDE DEF T
  <2>2. 0 .. n \subseteq T
    BY <1>1, <1>6, <1>7, UptoInduction
  <2> QED
    BY <2>1, <2>2
<1> QED
  BY <1>2, <1>3, <1>5, <1>8

\* A control that lacks cargo fails the section, and so do too many records.
LEMMA NodesOfOthers ==
  ASSUME NEW paragraphs \in Seq(AnyParagraph), Len(paragraphs) > MaxRecords \/ ~AllWhole(paragraphs)
  PROVE  Failed(Nodes(Written(paragraphs)))
<1> DEFINE n == Len(paragraphs)
<1>1. n \in Nat
  OBVIOUS
<1>2. CASE n > MaxRecords
  <2>1. Records(Written(paragraphs)) = Fail("DOC_RESOURCE_LIMIT")
    BY <1>2, RecordsOfWritten
  <2> QED
    BY <2>1, Failures DEF Nodes
<1>3. CASE ~(n > MaxRecords)
  <2>1. PICK j \in 1 .. n : paragraphs[j].tag = "text" /\ ~AllThere(paragraphs[j])
    BY <1>3 DEF AllWhole
  <2>2. n <= MaxRecords
    BY <1>1, <1>3, HwpAssumption
  <2>3. PICK f \in [0 .. n -> NodesRead(paragraphs)] :
          f[n] = Nodes(Written(paragraphs)) /\ \A i \in 1 .. n : f[i] = AddNode(paragraphs, f[i - 1], i)
    BY <2>2, NodesTrace
  <2> HIDE DEF n
  <2> DEFINE T == {i \in 0 .. n : i >= j => Failed(f[i])}
  <2>4. 0 \in T
    BY <1>1
  <2>5. ASSUME NEW i \in 1 .. n, i - 1 \in T PROVE i \in T
    <3>1. f[i] = AddNode(paragraphs, f[i - 1], i) /\ i \in 0 .. n
      BY <1>1, <2>3
    <3>2. CASE Failed(f[i - 1])
      <4>1. f[i] = f[i - 1]
        BY <3>1, <3>2 DEF AddNode
      <4> QED
        BY <3>1, <3>2, <4>1
    <3>3. CASE i = j /\ ~Failed(f[i - 1])
      <4>1. f[i] = Malformed
        BY <2>1, <3>1, <3>3 DEF AddNode
      <4> QED
        BY <3>1, <4>1, Failures DEF Malformed
    <3>4. CASE i # j /\ ~Failed(f[i - 1])
      BY <1>1, <2>5, <3>1, <3>4
    <3> QED
      BY <3>2, <3>3, <3>4
  <2>6. n \in T
    <3>1. n \in 0 .. n
      BY <1>1
    <3> HIDE DEF T
    <3>2. 0 .. n \subseteq T
      BY <1>1, <2>4, <2>5, UptoInduction
    <3> QED
      BY <3>1, <3>2
  <2> QED
    BY <1>1, <2>3, <2>6
<1> QED
  BY <1>2, <1>3

LEMMA StreamIs ==
  ASSUME NEW s \in AnyStream
  PROVE  /\ s.name \in Nat \X Nat /\ s.paragraphs \in Seq(AnyParagraph) /\ s.body \in Seq(AnyWord)
         /\ s.broken \in BOOLEAN /\ s.stored \in Nat /\ IsPrefix(s.body, Written(s.paragraphs))
BY DEF AnyStream

\* A section has the nodes of the paragraphs that it has whole, or it fails.
LEMMA SectionRead ==
  ASSUME NEW s \in AnyStream
  PROVE  /\ NodesOf(s) \in Seq(AnyNode)
         /\ \/ Failed(Nodes(s.body)) /\ (Whole(s) = {} \/ Len(s.paragraphs) > MaxRecords)
            \/ Nodes(s.body) = [nodes |-> NodesOf(s)] /\ Whole(s) # {}
<1> DEFINE N == Len(s.paragraphs)
           First(n) == SubSeq(s.paragraphs, 1, n)
<1>1. s.paragraphs \in Seq(AnyParagraph) /\ s.body \in Seq(AnyWord) /\ N \in Nat
  BY StreamIs
<1>2. ASSUME NEW n \in 0 .. N
      PROVE  /\ First(n) \in Seq(AnyParagraph) /\ Len(First(n)) = n
             /\ \A i \in 1 .. n : First(n)[i] = s.paragraphs[i]
  BY <1>1
<1> HIDE DEF N, First
<1>3. ASSUME NEW n \in 0 .. N
      PROVE  n \in Whole(s) <=> s.body = Written(First(n)) /\ AllWhole(First(n))
  <2>1. n \in Whole(s) <=>
          /\ s.body = Written(First(n))
          /\ \A i \in 1 .. n : s.paragraphs[i].tag = "text" => AllThere(s.paragraphs[i])
    BY DEF Whole, N, First, AllThere
  <2>2. AllWhole(First(n)) <=>
          \A i \in 1 .. n : s.paragraphs[i].tag = "text" => AllThere(s.paragraphs[i])
    BY <1>2 DEF AllWhole
  <2> QED
    BY <2>1, <2>2
<1>4. CASE Whole(s) = {}
  <2>1. NodesOf(s) = <<>>
    BY <1>4 DEF NodesOf
  <2>2. CASE \A n \in 0 .. N : s.body # Written(First(n))
    <3>1. Records(s.body) = Malformed
      BY <1>1, <2>2, StreamIs, RecordsOfCut DEF N, First
    <3>2. Failed(Nodes(s.body))
      BY <3>1, Failures DEF Nodes, Malformed
    <3> QED
      BY <1>4, <2>1, <3>2
  <2>3. CASE ~(\A n \in 0 .. N : s.body # Written(First(n)))
    <3>1. PICK n \in 0 .. N : s.body = Written(First(n))
      BY <2>3
    <3>2. ~AllWhole(First(n))
      BY <1>3, <1>4, <3>1
    <3>3. Failed(Nodes(s.body))
      BY <1>2, <3>1, <3>2, NodesOfOthers
    <3> QED
      BY <1>4, <2>1, <3>3
  <2> QED
    BY <2>2, <2>3
<1>5. CASE Whole(s) # {}
  <2> DEFINE n == CHOOSE n \in Whole(s) : TRUE
  <2>1. n \in Whole(s)
    BY <1>5
  <2>2. NodesOf(s) = NodesMeant(First(n))
    BY <1>5 DEF NodesOf, First
  <2> HIDE DEF n
  <2>3. n \in 0 .. N
    BY <2>1 DEF Whole, N
  <2>4. s.body = Written(First(n)) /\ AllWhole(First(n))
    BY <1>3, <2>1, <2>3
  <2>5. First(n) \in Seq(AnyParagraph) /\ Len(First(n)) = n
    BY <1>2, <2>3
  <2>6. NodesOf(s) \in Seq(AnyNode)
    BY <2>2, <2>5, NodesMeantIs
  <2>7. CASE n > MaxRecords
    <3>1. Failed(Nodes(s.body))
      BY <2>4, <2>5, <2>7, NodesOfOthers
    <3>2. N > MaxRecords
      BY <1>1, <2>3, <2>7, HwpAssumption
    <3> QED
      BY <2>6, <3>1, <3>2 DEF N
  <2>8. CASE ~(n > MaxRecords)
    <3>1. n <= MaxRecords
      BY <1>1, <2>3, <2>8, HwpAssumption
    <3>2. Nodes(s.body) = [nodes |-> NodesOf(s)]
      BY <2>2, <2>4, <2>5, <3>1, NodesOfWhole
    <3> QED
      BY <1>5, <2>6, <3>2
  <2> QED
    BY <2>7, <2>8
<1> QED
  BY <1>4, <1>5

-------------------------------------------------------------------------------
(* The order of the sections *)

Sorted(seq) == \A i, j \in 1 .. Len(seq) : i < j => Number(seq[i]) <= Number(seq[j])
Apart(seq) == \A i, j \in 1 .. Len(seq) : seq[i].name = seq[j].name => i = j

LEMMA NumberIs ==
  ASSUME NEW s \in AnyStream
  PROVE  Number(s) \in Nat
BY StreamIs DEF Number

\* Where a section comes in.
PlaceOf(seq, x) ==
  LET later == {i \in DOMAIN seq : Number(x) < Number(seq[i])} IN Min(later \cup {Len(seq) + 1})

LEMMA PlaceIs ==
  ASSUME NEW seq \in Seq(AnyStream), NEW x \in AnyStream
  PROVE  LET p == PlaceOf(seq, x) IN
         /\ p \in 1 .. Len(seq) + 1
         /\ p <= Len(seq) => Number(x) < Number(seq[p])
         /\ \A i \in 1 .. Len(seq) : i < p => ~(Number(x) < Number(seq[i]))
<1> DEFINE n == Len(seq)
           later == {i \in DOMAIN seq : Number(x) < Number(seq[i])}
           T == later \cup {n + 1}
           p == PlaceOf(seq, x)
<1>1. n \in Nat /\ DOMAIN seq = 1 .. n
  OBVIOUS
<1>2. T \subseteq Nat /\ T # {} /\ T \subseteq 1 .. n + 1
  BY <1>1
<1>3. p = Min(T)
  BY DEF PlaceOf
<1>4. p \in T /\ \A y \in T : p <= y
  <2> HIDE DEF T, p
  <2>1. \E y \in T : \A z \in T : y <= z
    BY <1>2, LeastNatural
  <2> QED
    BY <1>3, <2>1 DEF Min
<1>5. p \in 1 .. n + 1
  BY <1>2, <1>4
<1>6. p <= n => Number(x) < Number(seq[p])
  <2> HIDE DEF p
  <2> QED
    BY <1>1, <1>4, <1>5
<1>7. ASSUME NEW i \in 1 .. n, i < p, Number(x) < Number(seq[i]) PROVE FALSE
  <2>1. i \in T
    BY <1>1, <1>7
  <2>2. p <= i
    BY <1>4, <2>1
  <2> HIDE DEF p
  <2> QED
    BY <1>5, <1>7, <2>2
<1> QED
  BY <1>5, <1>6, <1>7

\* What insertion does: the sections before the place, the new one, and the others.
LEMMA InsertIs ==
  ASSUME NEW seq \in Seq(AnyStream), NEW x \in AnyStream
  PROVE  LET p == PlaceOf(seq, x)
             front == SubSeq(seq, 1, p - 1)
             back == SubSeq(seq, p, Len(seq))
         IN  /\ front \in Seq(AnyStream) /\ back \in Seq(AnyStream)
             /\ seq = front \o back /\ Insert(seq, x) = Append(front, x) \o back
             /\ Insert(seq, x) \in Seq(AnyStream) /\ Len(Insert(seq, x)) = Len(seq) + 1
             /\ Insert(seq, x)[p] = x
             /\ \A i \in 1 .. Len(seq) : i < p => Insert(seq, x)[i] = seq[i]
             /\ \A i \in 1 .. Len(seq) : i >= p => Insert(seq, x)[i + 1] = seq[i]
<1> DEFINE n == Len(seq)
           p == PlaceOf(seq, x)
           front == SubSeq(seq, 1, p - 1)
           back == SubSeq(seq, p, n)
           u == Insert(seq, x)
<1>1. n \in Nat /\ p \in 1 .. n + 1
  BY PlaceIs
<1> HIDE DEF p
<1>2. front \in Seq(AnyStream) /\ Len(front) = p - 1 /\ \A i \in 1 .. p - 1 : front[i] = seq[i]
  BY <1>1
<1>3. /\ back \in Seq(AnyStream) /\ Len(back) = n - p + 1
      /\ \A i \in 1 .. n - p + 1 : back[i] = seq[p + i - 1]
  <2>1. p \in 1 .. Len(seq) + 1 /\ n \in p - 1 .. Len(seq)
    BY <1>1
  <2> QED
    BY <2>1, SubSeqIs
<1>4. u = front \o <<x>> \o back
  BY DEF Insert, InsertAt, PlaceOf, p
<1> DEFINE head == Append(front, x)
<1>41. head \in Seq(AnyStream) /\ Len(head) = p /\ head[p] = x /\ \A i \in 1 .. p - 1 : head[i] = seq[i]
  <2> HIDE DEF front
  <2> QED
    BY <1>1, <1>2
<1>5. u = head \o back
  <2>1. front \o <<x>> = head
    <3> HIDE DEF front
    <3> QED
      BY <1>2
  <2> HIDE DEF front, head, back, u
  <2> QED
    BY <1>4, <2>1
<1> HIDE DEF front, head, back, u, n
<1>6. Joins(u, head, back) /\ u \in Seq(AnyStream)
  BY <1>3, <1>41, <1>5, ConcatJoins
<1>7. Len(u) = n + 1 /\ u[p] = x /\ \A i \in 1 .. n : i < p => u[i] = seq[i]
  BY <1>1, <1>3, <1>41, <1>6 DEF Joins
<1>8. ASSUME NEW i \in 1 .. n, i >= p PROVE u[i + 1] = seq[i]
  <2>1. i - p + 1 \in 1 .. Len(back) /\ i - p + 1 \in 1 .. n - p + 1
    BY <1>1, <1>3, <1>8
  <2>2. u[Len(head) + (i - p + 1)] = back[i - p + 1]
    BY <1>6, <2>1 DEF Joins
  <2>3. back[i - p + 1] = seq[p + (i - p + 1) - 1]
    BY <1>3, <2>1
  <2>4. Len(head) + (i - p + 1) = i + 1 /\ p + (i - p + 1) - 1 = i
    BY <1>1, <1>41
  <2> QED
    BY <2>2, <2>3, <2>4
<1>9. seq = front \o back
  <2>1. Joins(seq, front, back)
    <3>1. Len(seq) = Len(front) + Len(back)
      BY <1>1, <1>2, <1>3 DEF n
    <3>2. ASSUME NEW i \in 1 .. Len(back) PROVE seq[Len(front) + i] = back[i]
      BY <1>1, <1>2, <1>3
    <3> QED
      BY <1>2, <3>1, <3>2 DEF Joins
  <2> QED
    BY <1>2, <1>3, <2>1, JoinsOnly
<1> QED
  BY <1>2, <1>3, <1>5, <1>6, <1>7, <1>8, <1>9 DEF p, front, back, u, n, head

LEMMA InsertKeeps ==
  ASSUME NEW seq \in Seq(AnyStream), NEW x \in AnyStream, Sorted(seq), Apart(seq),
         \A i \in 1 .. Len(seq) : seq[i].name # x.name
  PROVE  /\ Sorted(Insert(seq, x)) /\ Apart(Insert(seq, x))
         /\ ToSet(Insert(seq, x)) = ToSet(seq) \cup {x}
<1> DEFINE n == Len(seq)
           p == PlaceOf(seq, x)
           u == Insert(seq, x)
           From(i) == IF i < p THEN i ELSE i - 1
<1>1. /\ n \in Nat /\ p \in 1 .. n + 1
      /\ p <= n => Number(x) < Number(seq[p])
      /\ \A i \in 1 .. n : i < p => ~(Number(x) < Number(seq[i]))
  BY PlaceIs
<1>2. /\ u \in Seq(AnyStream) /\ Len(u) = n + 1 /\ u[p] = x
      /\ \A i \in 1 .. n : i < p => u[i] = seq[i]
      /\ \A i \in 1 .. n : i >= p => u[i + 1] = seq[i]
  BY InsertIs
<1> HIDE DEF n, p, u
<1>3. \A i \in 1 .. n : Number(seq[i]) \in Nat
  BY NumberIs DEF n
<1>4. Number(x) \in Nat
  BY NumberIs
<1>5. ASSUME NEW i \in 1 .. n + 1, i # p
      PROVE  From(i) \in 1 .. n /\ u[i] = seq[From(i)]
  <2>1. CASE i < p
    BY <1>1, <1>2, <2>1
  <2>2. CASE i > p
    <3>1. i - 1 \in 1 .. n /\ i - 1 >= p /\ (i - 1) + 1 = i
      BY <1>1, <2>2
    <3>2. u[(i - 1) + 1] = seq[i - 1]
      BY <1>2, <3>1
    <3> QED
      BY <1>1, <2>2, <3>1, <3>2
  <2> QED
    BY <1>1, <1>5, <2>1, <2>2
<1>6. ASSUME NEW i \in 1 .. n, i >= p PROVE Number(x) <= Number(seq[i])
  <2>1. p \in 1 .. n /\ Number(x) < Number(seq[p])
    BY <1>1, <1>6
  <2>2. Number(seq[p]) <= Number(seq[i])
    <3>1. p = i \/ p < i
      BY <1>1, <1>6
    <3> QED
      BY <1>3, <2>1, <3>1 DEF Sorted, n
  <2> QED
    BY <1>3, <1>4, <2>1, <2>2
<1>7. Sorted(u)
  <2> SUFFICES ASSUME NEW i \in 1 .. n + 1, NEW j \in 1 .. n + 1, i < j
               PROVE  Number(u[i]) <= Number(u[j])
    BY <1>2 DEF Sorted
  <2>1. CASE i # p /\ j # p
    <3>1. From(i) \in 1 .. n /\ From(j) \in 1 .. n /\ From(i) < From(j) /\ u[i] = seq[From(i)] /\ u[j] = seq[From(j)]
      BY <1>1, <1>5, <2>1
    <3> HIDE DEF From
    <3> QED
      BY <3>1 DEF Sorted, n
  <2>2. CASE i = p
    <3>1. From(j) \in 1 .. n /\ From(j) >= p /\ u[j] = seq[From(j)]
      BY <1>1, <1>5, <2>2
    <3> HIDE DEF From
    <3> QED
      BY <1>2, <1>6, <2>2, <3>1
  <2>3. CASE j = p
    <3>1. From(i) \in 1 .. n /\ From(i) < p /\ u[i] = seq[From(i)]
      BY <1>1, <1>5, <2>3
    <3> HIDE DEF From
    <3> QED
      BY <1>1, <1>2, <1>3, <1>4, <2>3, <3>1
  <2> QED
    BY <2>1, <2>2, <2>3
<1>8. Apart(u)
  <2> SUFFICES ASSUME NEW i \in 1 .. n + 1, NEW j \in 1 .. n + 1, u[i].name = u[j].name
               PROVE  i = j
    BY <1>2 DEF Apart
  <2>1. CASE i # p /\ j # p
    <3>1. From(i) \in 1 .. n /\ From(j) \in 1 .. n /\ u[i] = seq[From(i)] /\ u[j] = seq[From(j)]
      BY <1>5, <2>1
    <3>2. From(i) = From(j)
      <4> HIDE DEF From
      <4> QED
        BY <3>1 DEF Apart, n
    <3> QED
      BY <1>1, <2>1, <3>2
  <2>2. CASE i = p /\ j # p
    BY <1>2, <1>5, <2>2 DEF n
  <2>3. CASE j = p /\ i # p
    BY <1>2, <1>5, <2>3 DEF n
  <2> QED
    BY <2>1, <2>2, <2>3
<1>9. ToSet(u) = ToSet(seq) \cup {x}
  <2>1. ToSet(u) = {u[i] : i \in 1 .. n + 1} /\ ToSet(seq) = {seq[i] : i \in 1 .. n}
    <3>1. DOMAIN u = 1 .. n + 1 /\ DOMAIN seq = 1 .. n
      BY <1>2 DEF n
    <3> QED
      BY <3>1 DEF ToSet
  <2>2. ASSUME NEW i \in 1 .. n + 1 PROVE u[i] \in {seq[k] : k \in 1 .. n} \cup {x}
    <3> HIDE DEF From
    <3> QED
      BY <1>2, <1>5
  <2>3. ASSUME NEW i \in 1 .. n PROVE seq[i] \in {u[k] : k \in 1 .. n + 1}
    <3>1. CASE i < p
      <4>1. i \in 1 .. n + 1
        BY <1>1
      <4> QED
        BY <1>2, <3>1, <4>1
    <3>2. CASE ~(i < p)
      <4>1. i + 1 \in 1 .. n + 1 /\ i >= p
        BY <1>1, <3>2
      <4> QED
        BY <1>2, <4>1
    <3> QED
      BY <3>1, <3>2
  <2>4. x \in {u[k] : k \in 1 .. n + 1}
    BY <1>1, <1>2
  <2> QED
    BY <2>1, <2>2, <2>3, <2>4
<1> QED
  BY <1>7, <1>8, <1>9 DEF u

\* What is in order after each of the sections.
LEMMA OrderTrace ==
  ASSUME NEW seq \in Seq(AnyStream)
  PROVE  \E f \in [0 .. Len(seq) -> Seq(AnyStream)] :
           /\ f[0] = <<>> /\ f[Len(seq)] = InOrder(seq)
           /\ \A i \in 1 .. Len(seq) : f[i] = Insert(f[i - 1], seq[i])
<1> DEFINE N == Len(seq)
           Q == Seq(AnyStream)
           op(s, x) == Insert(s, x)
           IsIter(g) == g = [t \in SUBSET DOMAIN seq |->
                               IF t = {} THEN <<>> ELSE op(g[t \ {Max(t)}], seq[Max(t)])]
           step == [i \in 1 .. N |-> [s \in Q |-> op(s, seq[i])]]
           iter == CHOOSE g : IsIter(g)
<1>1. N \in Nat /\ DOMAIN seq = 1 .. N
  OBVIOUS
<1>2. IsFold(N, Q, <<>>, step)
  <2>1. \A s \in Q, x \in AnyStream : Insert(s, x) \in Q
    BY InsertIs
  <2>2. <<>> \in Q /\ step \in [1 .. N -> [Q -> Q]]
    BY <1>1, <2>1
  <2> QED
    BY <1>1, <2>2 DEF IsFold
<1>3. ASSUME NEW g, NEW t \in SUBSET (1 .. N), t # {}, g[t \ {Max(t)}] \in Q
      PROVE  step[Max(t)][g[t \ {Max(t)}]] = op(g[t \ {Max(t)}], seq[Max(t)])
  <2>1. Max(t) \in 1 .. N
    BY <1>1, <1>3, MaxOfUpto
  <2> HIDE DEF Q, N, op
  <2> QED
    BY <1>3, <2>1
<1>4. \E g : IsIter(g)
  <2>1. PICK h \in [SUBSET (1 .. N) -> Q] : Iterates(h, N, Q, <<>>, step)
    <3> HIDE DEF step, Q, N
    <3> QED
      BY <1>2, FoldExists
  <2> HIDE DEF op, N, Q, step
  <2>2. \A t \in SUBSET (1 .. N) : t # {} => h[t] = op(h[t \ {Max(t)}], seq[Max(t)])
    BY <1>3, <2>1 DEF Iterates
  <2>3. IsIter(h)
    BY <1>1, <2>1, <2>2 DEF Iterates
  <2> QED
    BY <2>3
<1>5. IsIter(iter)
  <2> HIDE DEF op
  <2> QED
    BY <1>4
<1>6. InOrder(seq) = iter[1 .. N]
  BY <1>1 DEF InOrder, FoldLeft, MapThenFoldSet
<1> HIDE DEF iter, op
<1>7. Iterates(iter, N, Q, <<>>, step)
  <2>1. iter[{}] = <<>>
    BY <1>5
  <2>2. ASSUME NEW t \in SUBSET (1 .. N), t # {}, iter[t \ {Max(t)}] \in Q
        PROVE  iter[t] = step[Max(t)][iter[t \ {Max(t)}]]
    <3>1. iter[t] = op(iter[t \ {Max(t)}], seq[Max(t)])
      BY <1>1, <1>5, <2>2
    <3> QED
      BY <1>3, <2>2, <3>1
  <2> QED
    BY <2>1, <2>2 DEF Iterates
<1>8. PICK f \in [0 .. N -> Q] : Traces(f, N, <<>>, step) /\ f[N] = iter[1 .. N]
  <2> HIDE DEF step, Q, N
  <2> QED
    BY <1>2, <1>7, FoldTraces
<1>9. ASSUME NEW i \in 1 .. N PROVE f[i] = op(f[i - 1], seq[i])
  <2>1. f[i] = step[i][f[i - 1]]
    BY <1>8 DEF Traces
  <2>2. i - 1 \in 0 .. N
    BY <1>1
  <2> HIDE DEF Q, N
  <2>3. f[i - 1] \in Q
    BY <1>8, <2>2
  <2> QED
    BY <2>1, <2>3
<1>10. f[0] = <<>>
  BY <1>8 DEF Traces
<1> QED
  BY <1>6, <1>8, <1>9, <1>10 DEF op

LEMMA OrderIs ==
  ASSUME NEW seq \in Seq(AnyStream), Apart(seq)
  PROVE  /\ InOrder(seq) \in Seq(AnyStream) /\ Sorted(InOrder(seq)) /\ Apart(InOrder(seq))
         /\ ToSet(InOrder(seq)) = ToSet(seq)
<1> DEFINE N == Len(seq)
           Q == Seq(AnyStream)
<1>1. N \in Nat /\ \A i \in 1 .. N : seq[i] \in AnyStream
  OBVIOUS
<1>2. PICK f \in [0 .. N -> Q] :
        f[0] = <<>> /\ f[N] = InOrder(seq) /\ \A i \in 1 .. N : f[i] = Insert(f[i - 1], seq[i])
  BY OrderTrace
<1> HIDE DEF N
<1> DEFINE T == {i \in 0 .. N : Sorted(f[i]) /\ Apart(f[i]) /\ ToSet(f[i]) = {seq[k] : k \in 1 .. i}}
<1>3. 0 \in T
  <2>1. ToSet(<<>>) = {} /\ 1 .. 0 = {}
    BY DEF ToSet
  <2>2. Sorted(<<>>) /\ Apart(<<>>)
    BY DEF Sorted, Apart
  <2> QED
    BY <1>1, <1>2, <2>1, <2>2
<1>4. ASSUME NEW i \in 1 .. N, i - 1 \in T PROVE i \in T
  <2> DEFINE s == f[i - 1]
             x == seq[i]
  <2>1. /\ i \in 0 .. N /\ i - 1 \in 0 .. N /\ s \in Q /\ x \in AnyStream
        /\ Sorted(s) /\ Apart(s) /\ ToSet(s) = {seq[k] : k \in 1 .. i - 1}
    BY <1>1, <1>2, <1>4
  <2>2. f[i] = Insert(s, x)
    BY <1>2
  <2>3. ASSUME NEW m \in 1 .. Len(s) PROVE s[m].name # x.name
    <3>1. s[m] \in ToSet(s)
      BY <2>1 DEF ToSet
    <3>2. PICK k \in 1 .. i - 1 : s[m] = seq[k]
      BY <2>1, <3>1
    <3>3. k \in 1 .. N /\ k # i
      BY <1>1
    <3> QED
      BY <3>2, <3>3 DEF Apart, N
  <2> HIDE DEF s
  <2>4. /\ Sorted(Insert(s, x)) /\ Apart(Insert(s, x))
        /\ ToSet(Insert(s, x)) = ToSet(s) \cup {x}
    BY <2>1, <2>3, InsertKeeps
  <2>5. {seq[k] : k \in 1 .. i} = {seq[k] : k \in 1 .. i - 1} \cup {x}
    <3>1. 1 .. i = (1 .. i - 1) \cup {i}
      BY <1>1
    <3> QED
      BY <3>1
  <2> QED
    BY <2>1, <2>2, <2>4, <2>5
<1>5. N \in T
  <2>1. N \in 0 .. N
    BY <1>1
  <2> HIDE DEF T
  <2>2. 0 .. N \subseteq T
    BY <1>1, <1>3, <1>4, UptoInduction
  <2> QED
    BY <2>1, <2>2
<1>6. ToSet(seq) = {seq[k] : k \in 1 .. N}
  BY DEF ToSet, N
<1>7. f[N] \in Q
  BY <1>1, <1>2
<1> QED
  BY <1>2, <1>5, <1>6, <1>7

\* The order changes no total.
LEMMA TotalIs ==
  ASSUME NEW seq \in Seq(AnyStream), NEW D, NEW h \in [AnyStream -> Seq(D)]
  PROVE  Together(Mapped(h, InOrder(seq))) = Together(Mapped(h, seq))
<1> DEFINE N == Len(seq)
           Q == Seq(AnyStream)
           Size(s) == Together(Mapped(h, s))
<1>1. N \in Nat /\ \A i \in 1 .. N : seq[i] \in AnyStream
  OBVIOUS
<1>2. PICK f \in [0 .. N -> Q] :
        f[0] = <<>> /\ f[N] = InOrder(seq) /\ \A i \in 1 .. N : f[i] = Insert(f[i - 1], seq[i])
  BY OrderTrace
<1>3. ASSUME NEW s \in Q
      PROVE  Mapped(h, s) \in Seq(Seq(D)) /\ FlattenSeq(Mapped(h, s)) \in Seq(D) /\ Size(s) \in Nat
  <2>1. Mapped(h, s) \in Seq(Seq(D))
    BY MappedTyped
  <2>2. FlattenSeq(Mapped(h, s)) \in Seq(D)
    BY <2>1, FlattenTyped
  <2> QED
    BY <2>1, <2>2 DEF Together
<1>31. \A s \in Q, t \in Q, u \in Q : u = s \o t => Mapped(h, u) = Mapped(h, s) \o Mapped(h, t)
  BY MappedConcat
<1>4. ASSUME NEW s \in Q, NEW t \in Q, NEW u \in Q, u = s \o t PROVE Size(u) = Size(s) + Size(t)
  <2>1. Mapped(h, u) = Mapped(h, s) \o Mapped(h, t)
    BY <1>4, <1>31, Zenon
  <2>2. FlattenSeq(Mapped(h, s) \o Mapped(h, t)) = FlattenSeq(Mapped(h, s)) \o FlattenSeq(Mapped(h, t))
    BY <1>3, FlattenConcat
  <2> DEFINE a == FlattenSeq(Mapped(h, s))
             b == FlattenSeq(Mapped(h, t))
  <2>3. a \in Seq(D) /\ b \in Seq(D)
    BY <1>3
  <2>4. FlattenSeq(Mapped(h, u)) = a \o b
    BY <2>1, <2>2, Zenon
  <2> HIDE DEF a, b
  <2>5. Len(a \o b) = Len(a) + Len(b)
    BY <2>3, LenOfConcat
  <2> QED
    BY <2>4, <2>5 DEF Together, a, b
<1>5. ASSUME NEW s \in Q, NEW x \in AnyStream PROVE Size(Append(s, x)) = Size(s) + Len(h[x])
  <2>1. Mapped(h, Append(s, x)) = Append(Mapped(h, s), h[x])
    <3>1. MapsMore(h, s, x)
      <4> DEFINE E == Seq(D)
      <4>1. h \in [AnyStream -> E]
        OBVIOUS
      <4> HIDE DEF E
      <4> QED
        BY <4>1, MappedAppend
    <3> QED
      BY <3>1 DEF MapsMore
  <2> DEFINE a == FlattenSeq(Mapped(h, s))
             b == h[x]
  <2>2. a \in Seq(D) /\ b \in Seq(D) /\ Mapped(h, s) \in Seq(Seq(D))
    BY <1>3
  <2>3. FlattenSeq(Append(Mapped(h, s), b)) = a \o b
    BY <2>2, FlattenAppend
  <2>4. FlattenSeq(Mapped(h, Append(s, x))) = a \o b
    BY <2>1, <2>3, Zenon
  <2> HIDE DEF a, b
  <2>5. Len(a \o b) = Len(a) + Len(b)
    BY <2>2, LenOfConcat
  <2> QED
    BY <2>4, <2>5 DEF Together, a, b
<1> HIDE DEF N, Size
<1>6. ASSUME NEW s \in Q, NEW x \in AnyStream PROVE Size(Insert(s, x)) = Size(s) + Len(h[x])
  <2> DEFINE p == PlaceOf(s, x)
             front == SubSeq(s, 1, p - 1)
             back == SubSeq(s, p, Len(s))
  <2>1. /\ front \in Q /\ back \in Q /\ s = front \o back /\ Insert(s, x) = Append(front, x) \o back
        /\ Insert(s, x) \in Q
    BY InsertIs
  <2> HIDE DEF front, back
  <2>2. Append(front, x) \in Q /\ Size(front) \in Nat /\ Size(back) \in Nat /\ Len(h[x]) \in Nat
    <3>1. h[x] \in Seq(D)
      OBVIOUS
    <3> QED
      BY <1>3, <2>1, <3>1
  <2>3. Size(s) = Size(front) + Size(back)
    BY <1>4, <2>1
  <2>4. Size(Insert(s, x)) = Size(Append(front, x)) + Size(back)
    BY <1>4, <2>1, <2>2
  <2>5. Size(Append(front, x)) = Size(front) + Len(h[x])
    BY <1>5, <2>1
  <2> QED
    BY <2>2, <2>3, <2>4, <2>5
<1> DEFINE T == {i \in 0 .. N : Size(f[i]) = Size(SubSeq(seq, 1, i))}
<1>7. 0 \in T
  <2>1. SubSeq(seq, 1, 0) = <<>>
    OBVIOUS
  <2>2. 0 \in 0 .. N
    BY <1>1
  <2>3. Size(f[0]) = Size(SubSeq(seq, 1, 0))
    BY <1>2, <2>1, Zenon
  <2> QED
    BY <2>2, <2>3
<1>8. ASSUME NEW i \in 1 .. N, i - 1 \in T PROVE i \in T
  <2> DEFINE front == SubSeq(seq, 1, i - 1)
  <2>1. SubSeq(seq, 1, i) = Append(front, seq[i]) /\ front \in Q /\ seq[i] \in AnyStream
    BY DEF N
  <2>2. i \in 0 .. N /\ f[i - 1] \in Q /\ f[i] = Insert(f[i - 1], seq[i]) /\ Size(f[i - 1]) = Size(front)
    BY <1>1, <1>2, <1>8
  <2> HIDE DEF front
  <2>3. Size(Append(front, seq[i])) = Size(front) + Len(h[seq[i]])
    BY <1>5, <2>1
  <2>4. Size(Insert(f[i - 1], seq[i])) = Size(f[i - 1]) + Len(h[seq[i]])
    BY <1>6, <2>1, <2>2
  <2>5. Size(f[i]) = Size(SubSeq(seq, 1, i))
    BY <2>1, <2>2, <2>3, <2>4
  <2> QED
    BY <2>2, <2>5
<1>9. N \in T
  <2>1. N \in 0 .. N
    BY <1>1
  <2> HIDE DEF T
  <2>2. 0 .. N \subseteq T
    BY <1>1, <1>7, <1>8, UptoInduction
  <2> QED
    BY <2>1, <2>2
<1>10. SubSeq(seq, 1, N) = seq
  BY DEF N
<1> QED
  BY <1>2, <1>9, <1>10 DEF Size

-------------------------------------------------------------------------------
(* The sections of a file *)

Entry(s) == [name |-> s.name, nodes |-> NodesOf(s)]
AnyEntry == [name : Nat \X Nat, nodes : Seq(AnyNode)]
SoFar == [total : Nat, count : Nat, sections : Seq(AnyEntry)]
FileRead ==
  SoFar \cup {r \in {Malformed, Fail("DOC_RESOURCE_LIMIT")} \cup {Nodes(x.body) : x \in AnyStream} : Failed(r)}

\* Why a section fails that comes after so much.
Refused(compressed, s, x) ==
  \/ compressed /\ (x.stored > MaxBytes - s.total \/ MaxBytes - s.total = 0)
  \/ s.total + Len(x.body) > MaxBytes
  \/ compressed /\ x.broken
  \/ Whole(x) = {} \/ Len(x.paragraphs) > MaxRecords
  \/ s.count + Len(NodesOf(x)) > MaxCells

Accepted(compressed, s, x) ==
  /\ s.total + Len(x.body) <= MaxBytes /\ s.count + Len(NodesOf(x)) <= MaxCells
  /\ Whole(x) # {} /\ ~(compressed /\ x.broken)

After(s, x) ==
  [total |-> s.total + Len(x.body), count |-> s.count + Len(NodesOf(x)),
   sections |-> IF NodesOf(x) = <<>> THEN s.sections ELSE Append(s.sections, Entry(x))]

LEMMA SoFarIs ==
  ASSUME NEW s \in FileRead, ~Failed(s)
  PROVE  s \in SoFar /\ s.total \in Nat /\ s.count \in Nat /\ s.sections \in Seq(AnyEntry)
BY DEF FileRead, SoFar

LEMMA AfterTyped ==
  ASSUME NEW s \in SoFar, NEW x \in AnyStream
  PROVE  After(s, x) \in SoFar /\ ~Failed(After(s, x))
<1>1. x.name \in Nat \X Nat /\ x.body \in Seq(AnyWord) /\ NodesOf(x) \in Seq(AnyNode)
  BY StreamIs, SectionRead
<1>2. s.total \in Nat /\ s.count \in Nat /\ s.sections \in Seq(AnyEntry)
  BY DEF SoFar
<1>3. Len(x.body) \in Nat /\ Len(NodesOf(x)) \in Nat /\ Entry(x) \in AnyEntry
  BY <1>1 DEF Entry, AnyEntry
<1>4. Append(s.sections, Entry(x)) \in Seq(AnyEntry)
  BY <1>2, <1>3
<1>5. s.total + Len(x.body) \in Nat /\ s.count + Len(NodesOf(x)) \in Nat
  BY <1>2, <1>3
<1> QED
  BY <1>2, <1>4, <1>5, Failures DEF After, SoFar

LEMMA ReadSectionIs ==
  ASSUME NEW s \in FileRead, NEW x \in AnyStream, NEW compressed
  PROVE  /\ ReadSection(compressed, s, x) \in FileRead
         /\ Failed(s) => ReadSection(compressed, s, x) = s
         /\ ~Failed(s) =>
              \/ Failed(ReadSection(compressed, s, x)) /\ Refused(compressed, s, x)
              \/ ReadSection(compressed, s, x) = After(s, x) /\ Accepted(compressed, s, x)
<1> DEFINE r == ReadSection(compressed, s, x)
           body == Expand(x, compressed, s.total)
           nodes == Nodes(body.body)
           left == MaxBytes - s.total
           limit == Fail("DOC_RESOURCE_LIMIT")
           big == (compressed /\ (x.stored > left \/ left = 0)) \/ Len(x.body) > left
<1>1. CASE Failed(s)
  BY <1>1 DEF ReadSection
<1>2. CASE ~Failed(s)
  <2>1. s \in SoFar /\ s.total \in Nat /\ s.count \in Nat
    BY <1>2, SoFarIs
  <2>2. Len(x.body) \in Nat /\ Len(NodesOf(x)) \in Nat /\ MaxBytes \in Nat /\ MaxCells \in Nat
    <3>1. x.body \in Seq(AnyWord) /\ NodesOf(x) \in Seq(AnyNode)
      BY StreamIs, SectionRead
    <3> QED
      BY <3>1, HwpAssumption
  <2>3. Failed(Malformed) /\ Failed(limit) /\ Malformed \in FileRead /\ limit \in FileRead
    BY Failures DEF Malformed, FileRead
  <2>4. CASE big
    <3>1. body = limit
      BY <2>4 DEF Expand, Remaining
    <3>2. r = limit
      BY <1>2, <2>3, <3>1 DEF ReadSection
    <3>3. Refused(compressed, s, x)
      BY <2>1, <2>2, <2>4 DEF Refused
    <3> QED
      BY <1>2, <2>3, <3>2, <3>3
  <2>5. CASE ~big /\ compressed /\ x.broken
    <3>1. body = Malformed
      BY <2>5 DEF Expand, Remaining, Malformed
    <3>2. r = Malformed
      BY <1>2, <2>3, <3>1 DEF ReadSection
    <3>3. Refused(compressed, s, x)
      BY <2>5 DEF Refused
    <3> QED
      BY <1>2, <2>3, <3>2, <3>3
  <2>6. CASE ~big /\ ~(compressed /\ x.broken)
    <3>1. body = [body |-> x.body]
      BY <2>6 DEF Expand, Remaining
    <3>2. ~Failed(body) /\ body.body = x.body
      <4> HIDE DEF body
      <4> QED
        BY <3>1 DEF Failed
    <3> HIDE DEF big
    <3>3. r = IF Failed(Nodes(x.body)) THEN Nodes(x.body)
              ELSE IF s.count + Len(Nodes(x.body).nodes) > MaxCells THEN limit
              ELSE [total |-> s.total + Len(x.body), count |-> s.count + Len(Nodes(x.body).nodes),
                    sections |-> IF Nodes(x.body).nodes = <<>> THEN s.sections
                                 ELSE Append(s.sections, [name |-> x.name, nodes |-> Nodes(x.body).nodes])]
      BY <1>2, <3>2 DEF ReadSection
    <3>4. CASE Failed(Nodes(x.body))
      <4>1. r = Nodes(x.body) /\ r \in FileRead
        BY <3>3, <3>4 DEF FileRead
      <4>2. Whole(x) = {} \/ Len(x.paragraphs) > MaxRecords
        <5>1. ~(Nodes(x.body) = [nodes |-> NodesOf(x)])
          BY <3>4, Failures
        <5> QED
          BY <5>1, SectionRead
      <4> QED
        BY <1>2, <3>4, <4>1, <4>2 DEF Refused
    <3>5. CASE ~Failed(Nodes(x.body))
      <4>1. Nodes(x.body) = [nodes |-> NodesOf(x)] /\ Whole(x) # {}
        BY <3>5, SectionRead
      <4>2. Nodes(x.body).nodes = NodesOf(x)
        BY <4>1
      <4>3. r = IF s.count + Len(NodesOf(x)) > MaxCells THEN limit ELSE After(s, x)
        BY <3>3, <3>5, <4>2 DEF After, Entry
      <4>4. CASE s.count + Len(NodesOf(x)) > MaxCells
        BY <1>2, <2>3, <4>3, <4>4 DEF Refused
      <4>5. CASE ~(s.count + Len(NodesOf(x)) > MaxCells)
        <5>1. r = After(s, x)
          BY <4>3, <4>5
        <5>2. Accepted(compressed, s, x)
          BY <2>1, <2>2, <2>6, <4>1, <4>5 DEF Accepted, big
        <5>3. r \in FileRead
          BY <2>1, <5>1, AfterTyped DEF FileRead
        <5> QED
          BY <1>2, <5>1, <5>2, <5>3
      <4> QED
        BY <4>4, <4>5
    <3> QED
      BY <3>4, <3>5
  <2> QED
    BY <2>4, <2>5, <2>6
<1> QED
  BY <1>1, <1>2

\* What is read of sections, one after the other.
ResultOf(compressed, seq) ==
  FoldLeft(LAMBDA s, section : ReadSection(compressed, s, section), Start, seq)

\* What has been read after each of the sections.
LEMMA ReadTrace ==
  ASSUME NEW seq \in Seq(AnyStream), NEW compressed
  PROVE  \E f \in [0 .. Len(seq) -> FileRead] :
           /\ f[0] = Start /\ f[Len(seq)] = ResultOf(compressed, seq)
           /\ \A i \in 1 .. Len(seq) : f[i] = ReadSection(compressed, f[i - 1], seq[i])
<1> DEFINE N == Len(seq)
           Q == FileRead
           op(s, x) == ReadSection(compressed, s, x)
           IsIter(g) == g = [t \in SUBSET DOMAIN seq |->
                               IF t = {} THEN Start ELSE op(g[t \ {Max(t)}], seq[Max(t)])]
           step == [i \in 1 .. N |-> [s \in Q |-> op(s, seq[i])]]
           iter == CHOOSE g : IsIter(g)
<1>1. N \in Nat /\ DOMAIN seq = 1 .. N
  OBVIOUS
<1>2. IsFold(N, Q, Start, step)
  <2>1. \A s \in Q, x \in AnyStream : ReadSection(compressed, s, x) \in Q
    BY ReadSectionIs
  <2>2. Start \in Q
    BY DEF Start, FileRead, SoFar
  <2>3. step \in [1 .. N -> [Q -> Q]]
    BY <1>1, <2>1
  <2> HIDE DEF Q, step
  <2> QED
    BY <1>1, <2>2, <2>3 DEF IsFold
<1>3. ASSUME NEW g, NEW t \in SUBSET (1 .. N), t # {}, g[t \ {Max(t)}] \in Q
      PROVE  step[Max(t)][g[t \ {Max(t)}]] = op(g[t \ {Max(t)}], seq[Max(t)])
  <2>1. Max(t) \in 1 .. N
    BY <1>1, <1>3, MaxOfUpto
  <2> HIDE DEF Q, N, op
  <2> QED
    BY <1>3, <2>1
<1>4. \E g : IsIter(g)
  <2>1. PICK h \in [SUBSET (1 .. N) -> Q] : Iterates(h, N, Q, Start, step)
    <3> HIDE DEF step, Q, N
    <3> QED
      BY <1>2, FoldExists
  <2> HIDE DEF op, N, Q, step
  <2>2. \A t \in SUBSET (1 .. N) : t # {} => h[t] = op(h[t \ {Max(t)}], seq[Max(t)])
    BY <1>3, <2>1 DEF Iterates
  <2>3. IsIter(h)
    BY <1>1, <2>1, <2>2 DEF Iterates
  <2> QED
    BY <2>3
<1>5. IsIter(iter)
  <2> HIDE DEF op
  <2> QED
    BY <1>4
<1>6. ResultOf(compressed, seq) = iter[1 .. N]
  BY <1>1 DEF ResultOf, FoldLeft, MapThenFoldSet
<1> HIDE DEF iter, op
<1>7. Iterates(iter, N, Q, Start, step)
  <2>1. iter[{}] = Start
    BY <1>5
  <2>2. ASSUME NEW t \in SUBSET (1 .. N), t # {}, iter[t \ {Max(t)}] \in Q
        PROVE  iter[t] = step[Max(t)][iter[t \ {Max(t)}]]
    <3>1. iter[t] = op(iter[t \ {Max(t)}], seq[Max(t)])
      BY <1>1, <1>5, <2>2
    <3> QED
      BY <1>3, <2>2, <3>1
  <2> QED
    BY <2>1, <2>2 DEF Iterates
<1>8. PICK f \in [0 .. N -> Q] : Traces(f, N, Start, step) /\ f[N] = iter[1 .. N]
  <2> HIDE DEF step, Q, N
  <2> QED
    BY <1>2, <1>7, FoldTraces
<1>9. ASSUME NEW i \in 1 .. N PROVE f[i] = op(f[i - 1], seq[i])
  <2>1. f[i] = step[i][f[i - 1]]
    BY <1>8 DEF Traces
  <2>2. i - 1 \in 0 .. N
    BY <1>1
  <2> HIDE DEF Q, N
  <2>3. f[i - 1] \in Q
    BY <1>8, <2>2
  <2> QED
    BY <2>1, <2>3
<1>10. f[0] = Start
  BY <1>8 DEF Traces
<1> QED
  BY <1>6, <1>8, <1>9, <1>10 DEF op

\* What the sections hold.
BodyOf == [x \in AnyStream |-> x.body]
CellsOf == [x \in AnyStream |-> NodesOf(x)]
EntryOf == [x \in AnyStream |-> Entry(x)]
Shown == {x \in AnyStream : NodesOf(x) # <<>>}

LEMMA HoldsTyped ==
  /\ BodyOf \in [AnyStream -> Seq(AnyWord)] /\ CellsOf \in [AnyStream -> Seq(AnyNode)]
  /\ EntryOf \in [AnyStream -> AnyEntry]
  /\ \A x \in AnyStream : BodyOf[x] = x.body /\ CellsOf[x] = NodesOf(x) /\ EntryOf[x] = Entry(x)
<1>1. \A x \in AnyStream : x.body \in Seq(AnyWord) /\ NodesOf(x) \in Seq(AnyNode) /\ Entry(x) \in AnyEntry
  BY StreamIs, SectionRead DEF Entry, AnyEntry
<1> QED
  BY <1>1 DEF BodyOf, CellsOf, EntryOf

\* Running totals end in the whole and never exceed it.
LEMMA Running ==
  ASSUME NEW seq \in Seq(AnyStream), NEW D, NEW h \in [AnyStream -> Seq(D)]
  PROVE  /\ Together(Mapped(h, seq)) \in Nat
         /\ \E B \in [0 .. Len(seq) -> Nat] :
              /\ B[0] = 0 /\ B[Len(seq)] = Together(Mapped(h, seq))
              /\ \A i \in 1 .. Len(seq) :
                   /\ B[i] = B[i - 1] + Len(h[seq[i]]) /\ B[i] <= Together(Mapped(h, seq))
<1> DEFINE m == Mapped(h, seq)
           flat == FlattenSeq(m)
<1>1. m \in Seq(Seq(D)) /\ Len(m) = Len(seq) /\ \A i \in 1 .. Len(seq) : m[i] = h[seq[i]]
  <2> DEFINE E == Seq(D)
  <2>1. h \in [AnyStream -> E]
    OBVIOUS
  <2> HIDE DEF E
  <2>2. MapsInto(h, seq, E)
    BY <2>1, MappedInto
  <2> QED
    BY <2>2 DEF MapsInto, E
<1> HIDE DEF m
<1>2. flat \in Seq(D)
  BY <1>1, FlattenTyped
<1>3. PICK B : Lies(B, m, flat)
  BY <1>1, FlattenLies
<1>4. Together(m) = Len(flat) /\ Len(flat) \in Nat
  BY <1>2 DEF Together
<1> HIDE DEF flat
<1>5. /\ B \in [0 .. Len(seq) -> Nat] /\ B[0] = 0 /\ B[Len(seq)] = Len(flat)
      /\ \A i \in 1 .. Len(seq) : B[i] = B[i - 1] + Len(h[seq[i]]) /\ B[i] <= Len(flat)
  BY <1>1, <1>3 DEF Lies
<1> QED
  BY <1>4, <1>5 DEF m

\* Why a file is refused of which the sections are read.
Reason(compressed, seq, size, cells) ==
  \/ \E x \in ToSet(seq) : \/ Whole(x) = {} \/ (compressed /\ x.broken)
                           \/ Len(x.paragraphs) > MaxRecords
  \/ size > MaxBytes \/ cells > MaxCells
  \/ compressed /\ (size = MaxBytes \/ \E x \in ToSet(seq) : x.stored > MaxBytes - size + Len(x.body))

LEMMA FileReading ==
  ASSUME NEW seq \in Seq(AnyStream), NEW compressed
  PROVE  LET result == ResultOf(compressed, seq)
             size == Together(Mapped(BodyOf, seq))
             cells == Together(Mapped(CellsOf, seq))
         IN  IF Failed(result) THEN Reason(compressed, seq, size, cells)
             ELSE /\ size <= MaxBytes /\ cells <= MaxCells
                  /\ \A i \in 1 .. Len(seq) : Whole(seq[i]) # {} /\ ~(compressed /\ seq[i].broken)
                  /\ result.sections = Mapped(EntryOf, Among(seq, Shown))
<1> DEFINE N == Len(seq)
           result == ResultOf(compressed, seq)
           size == Together(Mapped(BodyOf, seq))
           cells == Together(Mapped(CellsOf, seq))
           Why == Reason(compressed, seq, size, cells)
<1>1. N \in Nat /\ \A i \in 1 .. N : seq[i] \in AnyStream
  OBVIOUS
<1>2. PICK f \in [0 .. N -> FileRead] :
        f[0] = Start /\ f[N] = result /\ \A i \in 1 .. N : f[i] = ReadSection(compressed, f[i - 1], seq[i])
  BY ReadTrace
<1> HIDE DEF result, size, cells
<1>3. PICK B \in [0 .. N -> Nat] :
        /\ B[0] = 0 /\ B[N] = size
        /\ \A i \in 1 .. N : B[i] = B[i - 1] + Len(seq[i].body) /\ B[i] <= size
  <2>1. \E B \in [0 .. Len(seq) -> Nat] :
              /\ B[0] = 0 /\ B[Len(seq)] = Together(Mapped(BodyOf, seq))
              /\ \A i \in 1 .. Len(seq) :
                   /\ B[i] = B[i - 1] + Len(BodyOf[seq[i]]) /\ B[i] <= Together(Mapped(BodyOf, seq))
    BY HoldsTyped, Running
  <2> QED
    BY <1>1, <2>1, HoldsTyped DEF size
<1>4. PICK C \in [0 .. N -> Nat] :
        /\ C[0] = 0 /\ C[N] = cells
        /\ \A i \in 1 .. N : C[i] = C[i - 1] + Len(NodesOf(seq[i])) /\ C[i] <= cells
  <2>1. \E C \in [0 .. Len(seq) -> Nat] :
              /\ C[0] = 0 /\ C[Len(seq)] = Together(Mapped(CellsOf, seq))
              /\ \A i \in 1 .. Len(seq) :
                   /\ C[i] = C[i - 1] + Len(CellsOf[seq[i]]) /\ C[i] <= Together(Mapped(CellsOf, seq))
    BY HoldsTyped, Running
  <2> QED
    BY <1>1, <2>1, HoldsTyped DEF cells
<1>5. PICK G \in [0 .. N -> Seq(AnyStream)] :
        /\ G[0] = <<>> /\ G[N] = Among(seq, Shown)
        /\ \A i \in 1 .. N : G[i] = IF seq[i] \in Shown THEN Append(G[i - 1], seq[i]) ELSE G[i - 1]
  BY AmongTakes DEF Takes
<1>6. size \in Nat /\ cells \in Nat /\ MaxBytes \in Nat /\ MaxCells \in Nat
  <2>1. N \in 0 .. N
    BY <1>1
  <2> QED
    BY <1>3, <1>4, <2>1, HwpAssumption
<1>61. \A i \in 1 .. N : seq[i] \in ToSet(seq)
  BY DEF ToSet
<1> HIDE DEF N
<1> DEFINE Held(i) == /\ f[i] \in SoFar /\ ~Failed(f[i]) /\ f[i].total = B[i] /\ f[i].count = C[i]
                      /\ f[i].sections = Mapped(EntryOf, G[i])
           Kept(i) == /\ B[i] <= MaxBytes /\ C[i] <= MaxCells
                      /\ \A k \in 1 .. i : Whole(seq[k]) # {} /\ ~(compressed /\ seq[k].broken)
           T == {i \in 0 .. N : (Failed(f[i]) /\ Why) \/ (Held(i) /\ Kept(i))}
<1>7. 0 \in T
  <2>1. f[0] = [total |-> 0, count |-> 0, sections |-> <<>>]
    BY <1>2 DEF Start
  <2>2. ~Failed(f[0]) /\ f[0] \in SoFar
    BY <2>1, Failures DEF SoFar
  <2>3. f[0].total = 0 /\ f[0].count = 0 /\ f[0].sections = <<>>
    BY <2>1
  <2>4. Mapped(EntryOf, <<>>) = <<>>
    BY DEF Mapped
  <2>5. Held(0)
    BY <1>3, <1>4, <1>5, <2>2, <2>3, <2>4
  <2>6. Kept(0)
    BY <1>3, <1>4, <1>6
  <2>7. 0 \in 0 .. N
    BY <1>1
  <2> HIDE DEF Held, Kept
  <2> QED
    BY <2>5, <2>6, <2>7
<1> HIDE DEF Held, Kept, Why
<1>8. ASSUME NEW i \in 1 .. N, i - 1 \in T PROVE i \in T
  <2> DEFINE s == f[i - 1]
             x == seq[i]
  <2>1. /\ i \in 0 .. N /\ i - 1 \in 0 .. N /\ s \in FileRead /\ x \in AnyStream
        /\ f[i] = ReadSection(compressed, s, x) /\ x \in ToSet(seq)
    BY <1>1, <1>2, <1>61
  <2>2. CASE Failed(s) /\ Why
    <3>1. f[i] = s
      BY <2>1, <2>2, ReadSectionIs
    <3> QED
      BY <2>1, <2>2, <3>1
  <2>3. CASE Held(i - 1) /\ Kept(i - 1)
    <3>1. s \in SoFar /\ ~Failed(s) /\ s.total = B[i - 1] /\ s.count = C[i - 1]
          /\ s.sections = Mapped(EntryOf, G[i - 1])
      BY <2>3 DEF Held
    <3>2. /\ B[i - 1] \in Nat /\ C[i - 1] \in Nat /\ B[i] \in Nat /\ C[i] \in Nat
          /\ B[i] = B[i - 1] + Len(x.body) /\ B[i] <= size
          /\ C[i] = C[i - 1] + Len(NodesOf(x)) /\ C[i] <= cells
      BY <1>3, <1>4, <2>1
    <3>3. Len(x.body) \in Nat /\ Len(NodesOf(x)) \in Nat /\ x.stored \in Nat
      <4>1. x.body \in Seq(AnyWord) /\ NodesOf(x) \in Seq(AnyNode)
        BY <2>1, StreamIs, SectionRead
      <4> QED
        BY <2>1, <4>1, StreamIs
    <3>4. \/ Failed(f[i]) /\ Refused(compressed, s, x)
          \/ f[i] = After(s, x) /\ Accepted(compressed, s, x)
      BY <2>1, <3>1, ReadSectionIs
    <3> DEFINE size0 == s.total
               bytes == Len(x.body)
               count0 == s.count
               found == Len(NodesOf(x))
    <3>41. /\ size0 \in Nat /\ bytes \in Nat /\ size0 + bytes <= size
           /\ count0 \in Nat /\ found \in Nat /\ count0 + found <= cells
      BY <3>1, <3>2, <3>3
    <3> HIDE DEF s, x, size0, bytes, count0, found
    <3>5. CASE Failed(f[i]) /\ Refused(compressed, s, x)
      <4>1. CASE Whole(x) = {} \/ (compressed /\ x.broken) \/ Len(x.paragraphs) > MaxRecords
        BY <2>1, <3>5, <4>1 DEF Why, Reason
      <4>2. CASE s.total + Len(x.body) > MaxBytes
        <5>1. size0 + bytes > MaxBytes
          BY <4>2 DEF size0, bytes
        <5>2. size > MaxBytes
          BY <1>6, <3>41, <5>1
        <5> QED
          BY <2>1, <3>5, <5>2 DEF Why, Reason
      <4>3. CASE s.count + Len(NodesOf(x)) > MaxCells
        <5>1. count0 + found > MaxCells
          BY <4>3 DEF count0, found
        <5>2. cells > MaxCells
          BY <1>6, <3>41, <5>1
        <5> QED
          BY <2>1, <3>5, <5>2 DEF Why, Reason
      <4>4. CASE compressed /\ x.stored > MaxBytes - s.total
        <5>1. x.stored > MaxBytes - size0
          BY <4>4 DEF size0
        <5>2. x.stored > MaxBytes - size + bytes
          BY <1>6, <3>3, <3>41, <5>1
        <5> QED
          BY <2>1, <3>5, <4>4, <5>2 DEF Why, Reason, bytes
      <4>5. CASE compressed /\ MaxBytes - s.total = 0
        <5>1. MaxBytes - size0 = 0
          BY <4>5 DEF size0
        <5>2. size = MaxBytes \/ size > MaxBytes
          BY <1>6, <3>41, <5>1
        <5> QED
          BY <2>1, <3>5, <4>5, <5>2 DEF Why, Reason
      <4> QED
        BY <3>5, <4>1, <4>2, <4>3, <4>4, <4>5 DEF Refused
    <3>6. CASE f[i] = After(s, x) /\ Accepted(compressed, s, x)
      <4>1. f[i] \in SoFar /\ ~Failed(f[i])
        BY <2>1, <3>1, <3>6, AfterTyped
      <4>2. f[i].total = B[i] /\ f[i].count = C[i]
        BY <3>1, <3>2, <3>6 DEF After
      <4>3. f[i].sections = IF NodesOf(x) = <<>> THEN s.sections ELSE Append(s.sections, Entry(x))
        BY <3>6 DEF After
      <4>4. G[i] = IF NodesOf(x) = <<>> THEN G[i - 1] ELSE Append(G[i - 1], x)
        <5>1. x \in Shown <=> NodesOf(x) # <<>>
          BY <2>1 DEF Shown
        <5>2. G[i] = IF x \in Shown THEN Append(G[i - 1], x) ELSE G[i - 1]
          BY <1>5 DEF x
        <5> QED
          BY <5>1, <5>2, Zenon
      <4>5. G[i - 1] \in Seq(AnyStream)
        BY <1>5, <2>1
      <4>6. Mapped(EntryOf, Append(G[i - 1], x)) = Append(Mapped(EntryOf, G[i - 1]), EntryOf[x])
        <5> DEFINE v == G[i - 1]
        <5>1. EntryOf \in [AnyStream -> AnyEntry] /\ v \in Seq(AnyStream) /\ x \in AnyStream
          BY <2>1, <4>5, HoldsTyped
        <5> HIDE DEF v
        <5>2. MapsMore(EntryOf, v, x)
          BY <5>1, MappedAppend
        <5> QED
          BY <5>2 DEF v, MapsMore
      <4>7. f[i].sections = Mapped(EntryOf, G[i])
        BY <2>1, <3>1, <4>3, <4>4, <4>6, HoldsTyped
      <4>8. Held(i)
        BY <4>1, <4>2, <4>7 DEF Held
      <4>9. Kept(i)
        <5>1. B[i] <= MaxBytes /\ C[i] <= MaxCells /\ Whole(x) # {} /\ ~(compressed /\ x.broken)
          BY <3>1, <3>2, <3>6 DEF Accepted
        <5>2. ASSUME NEW k \in 1 .. i PROVE Whole(seq[k]) # {} /\ ~(compressed /\ seq[k].broken)
          <6>1. CASE k = i
            BY <5>1, <6>1 DEF x
          <6>2. CASE k # i
            <7>1. k \in 1 .. i - 1
              BY <1>1, <6>2
            <7> QED
              BY <2>3, <7>1 DEF Kept
          <6> QED
            BY <6>1, <6>2
        <5> QED
          BY <5>1, <5>2 DEF Kept
      <4> QED
        BY <2>1, <4>8, <4>9
    <3> QED
      BY <3>4, <3>5, <3>6
  <2> QED
    BY <1>8, <2>2, <2>3
<1>9. N \in T
  <2>1. N \in 0 .. N
    BY <1>1
  <2> HIDE DEF T
  <2>2. 0 .. N \subseteq T
    BY <1>1, <1>7, <1>8, UptoInduction
  <2> QED
    BY <2>1, <2>2
<1>10. CASE Failed(result) /\ Why
  BY <1>10 DEF Why, result, size, cells
<1>11. CASE ~Failed(result) /\ Held(N) /\ Kept(N)
  <2>1. size <= MaxBytes /\ cells <= MaxCells
    BY <1>3, <1>4, <1>11 DEF Kept
  <2>2. \A i \in 1 .. N : Whole(seq[i]) # {} /\ ~(compressed /\ seq[i].broken)
    BY <1>11 DEF Kept
  <2>3. result.sections = Mapped(EntryOf, Among(seq, Shown))
    BY <1>2, <1>5, <1>11 DEF Held
  <2> QED
    BY <1>11, <2>1, <2>2, <2>3 DEF result, size, cells, N
<1> QED
  BY <1>2, <1>9, <1>10, <1>11 DEF Held

\* The sections that are shown: each that has nodes, once, by their numbers.
LEMMA ShownInOrder ==
  ASSUME NEW seq \in Seq(AnyStream), Sorted(seq), Apart(seq)
  PROVE  LET r == Mapped(EntryOf, Among(seq, Shown)) IN
         /\ r \in Seq(AnyEntry)
         /\ \A i \in 1 .. Len(r) : \E s \in ToSet(seq) : NodesOf(s) # <<>> /\ r[i] = Entry(s)
         /\ \A s \in ToSet(seq) : NodesOf(s) # <<>> => \E i \in 1 .. Len(r) : r[i] = Entry(s)
         /\ \A i, j \in 1 .. Len(r) :
              i < j => Number(r[i]) <= Number(r[j]) /\ r[i].name # r[j].name
<1> DEFINE taken == Among(seq, Shown)
           r == Mapped(EntryOf, taken)
<1>1. /\ taken \in Seq(AnyStream) /\ \A k \in 1 .. Len(taken) : taken[k] \in Shown
      /\ \E pos : Picks(pos, taken, seq)
      /\ \A i \in 1 .. Len(seq) : seq[i] \in Shown => \E k \in 1 .. Len(taken) : taken[k] = seq[i]
  BY AmongPicks
<1> HIDE DEF taken
<1>2. EntryOf \in [AnyStream -> AnyEntry] /\ \A x \in AnyStream : EntryOf[x] = Entry(x)
  BY HoldsTyped
<1>3. r \in Seq(AnyEntry) /\ Len(r) = Len(taken) /\ \A i \in 1 .. Len(taken) : r[i] = EntryOf[taken[i]]
  BY <1>1, <1>2, MappedTyped
<1> HIDE DEF r
<1>4. \A i \in 1 .. Len(taken) : taken[i] \in AnyStream /\ r[i] = Entry(taken[i])
  BY <1>1, <1>2, <1>3
<1>5. PICK pos : Picks(pos, taken, seq)
  BY <1>1
<1>6. \A k \in 1 .. Len(taken) : pos[k] \in 1 .. Len(seq) /\ taken[k] = seq[pos[k]]
  BY <1>5 DEF Picks
<1>7. ASSUME NEW i \in 1 .. Len(r) PROVE \E s \in ToSet(seq) : NodesOf(s) # <<>> /\ r[i] = Entry(s)
  <2>1. i \in 1 .. Len(taken)
    BY <1>3
  <2>2. taken[i] \in ToSet(seq)
    BY <1>6, <2>1 DEF ToSet
  <2>3. NodesOf(taken[i]) # <<>>
    BY <1>1, <2>1 DEF Shown
  <2> QED
    BY <1>4, <2>1, <2>2, <2>3
<1>8. ASSUME NEW s \in ToSet(seq), NodesOf(s) # <<>> PROVE \E i \in 1 .. Len(r) : r[i] = Entry(s)
  <2>1. PICK i \in 1 .. Len(seq) : s = seq[i]
    BY DEF ToSet
  <2>2. seq[i] \in Shown
    BY <1>8, <2>1 DEF Shown
  <2>3. PICK k \in 1 .. Len(taken) : taken[k] = seq[i]
    BY <1>1, <2>2
  <2> QED
    BY <1>3, <1>4, <2>1, <2>3
<1>9. ASSUME NEW i \in 1 .. Len(r), NEW j \in 1 .. Len(r), i < j
      PROVE  Number(r[i]) <= Number(r[j]) /\ r[i].name # r[j].name
  <2>1. i \in 1 .. Len(taken) /\ j \in 1 .. Len(taken)
    BY <1>3
  <2>2. /\ pos[i] \in 1 .. Len(seq) /\ taken[i] = seq[pos[i]]
        /\ pos[j] \in 1 .. Len(seq) /\ taken[j] = seq[pos[j]] /\ pos[i] < pos[j]
    BY <1>5, <1>6, <1>9, <2>1 DEF Picks
  <2>3. Number(taken[i]) <= Number(taken[j])
    BY <2>2 DEF Sorted
  <2>4. taken[i].name # taken[j].name
    <3>1. pos[i] # pos[j]
      BY <2>2
    <3>2. seq[pos[i]].name = seq[pos[j]].name => pos[i] = pos[j]
      BY <2>2, Zenon DEF Apart
    <3> QED
      BY <2>2, <3>1, <3>2, Zenon
  <2>5. r[i].name = taken[i].name /\ r[j].name = taken[j].name
    <3>1. r[i] = Entry(taken[i]) /\ r[j] = Entry(taken[j])
      BY <1>4, <2>1
    <3> QED
      BY <3>1 DEF Entry
  <2> QED
    BY <2>3, <2>4, <2>5 DEF Number
<1> QED
  BY <1>3, <1>7, <1>8, <1>9 DEF r, taken

\* What ReadAsWritten says of a file and the sections that are read of it, or the error.
Told(f, list) ==
  LET shown == {s \in ToSet(f.sections) : NodesOf(s) # <<>>} IN
  /\ \A s \in ToSet(f.sections) : Whole(s) # {} /\ ~(f.compressed /\ s.broken)
  /\ {list[i].name : i \in DOMAIN list} = {s.name : s \in shown}
  /\ \A i, j \in DOMAIN list :
       i < j => Number(list[i]) <= Number(list[j]) /\ list[i].name # list[j].name
  /\ \A i \in DOMAIN list : \A s \in ToSet(f.sections) :
       s.name = list[i].name => list[i].nodes = NodesOf(s)

AsWritten(f, r) ==
  LET shown == {s \in ToSet(f.sections) : NodesOf(s) # <<>>}
      size == Together([i \in DOMAIN f.sections |-> f.sections[i].body])
      cells == Together([i \in DOMAIN f.sections |-> NodesOf(f.sections[i])])
  IN  IF Failed(r)
      THEN f.flags # {} \/ shown = {} \/ Reason(f.compressed, f.sections, size, cells)
      ELSE f.flags = {} /\ size <= MaxBytes /\ cells <= MaxCells /\ Told(f, r.sections)

LEMMA FileIs ==
  ASSUME NEW f \in AnyFile
  PROVE  /\ f.sections \in Seq(AnyStream) /\ Apart(f.sections)
         /\ [i \in DOMAIN f.sections |-> f.sections[i].body] = Mapped(BodyOf, f.sections)
         /\ [i \in DOMAIN f.sections |-> NodesOf(f.sections[i])] = Mapped(CellsOf, f.sections)
<1>1. /\ f.sections \in Seq(AnyStream)
      /\ \A i, j \in DOMAIN f.sections : f.sections[i].name = f.sections[j].name => i = j
  BY DEF AnyFile
<1>2. DOMAIN f.sections = 1 .. Len(f.sections) /\ \A i \in DOMAIN f.sections : f.sections[i] \in AnyStream
  BY <1>1
<1>3. \A i \in DOMAIN f.sections : /\ BodyOf[f.sections[i]] = f.sections[i].body
                                   /\ CellsOf[f.sections[i]] = NodesOf(f.sections[i])
  BY <1>2, HoldsTyped
<1> QED
  BY <1>1, <1>2, <1>3 DEF Apart, Mapped

\* Of every file, what is read of it is what was written.
LEMMA ParsedAsWritten ==
  ASSUME NEW f \in AnyFile
  PROVE  AsWritten(f, Parse(f))
<1> DEFINE seq == f.sections
           o == InOrder(seq)
           result == ResultOf(f.compressed, o)
           size == Together([i \in DOMAIN f.sections |-> f.sections[i].body])
           cells == Together([i \in DOMAIN f.sections |-> NodesOf(f.sections[i])])
           shown == {s \in ToSet(seq) : NodesOf(s) # <<>>}
           r == Parse(f)
<1>1. seq \in Seq(AnyStream) /\ Apart(seq)
  BY FileIs
<1>2. o \in Seq(AnyStream) /\ Sorted(o) /\ Apart(o) /\ ToSet(o) = ToSet(seq)
  BY <1>1, OrderIs
<1>3. size = Together(Mapped(BodyOf, o)) /\ cells = Together(Mapped(CellsOf, o))
  <2>1. size = Together(Mapped(BodyOf, seq)) /\ cells = Together(Mapped(CellsOf, seq))
    BY FileIs
  <2>2. BodyOf \in [AnyStream -> Seq(AnyWord)] /\ CellsOf \in [AnyStream -> Seq(AnyNode)]
    BY HoldsTyped
  <2>3. /\ Together(Mapped(BodyOf, o)) = Together(Mapped(BodyOf, seq))
        /\ Together(Mapped(CellsOf, o)) = Together(Mapped(CellsOf, seq))
    BY <1>1, <2>2, TotalIs
  <2> HIDE DEF o, seq, size, cells
  <2> QED
    BY <2>1, <2>3
<1>4. r = IF f.flags # {}
          THEN Fail(IF "encrypted" \in f.flags THEN Protected.encrypted
                    ELSE IF "distribution" \in f.flags THEN Protected.distribution
                    ELSE Protected.drm)
          ELSE IF Failed(result) THEN result
          ELSE IF result.sections = <<>> THEN Fail("DOC_EMPTY")
          ELSE [sections |-> result.sections]
  BY DEF Parse, ResultOf
<1>5. IF Failed(result) THEN Reason(f.compressed, o, Together(Mapped(BodyOf, o)), Together(Mapped(CellsOf, o)))
      ELSE /\ Together(Mapped(BodyOf, o)) <= MaxBytes /\ Together(Mapped(CellsOf, o)) <= MaxCells
           /\ \A i \in 1 .. Len(o) : Whole(o[i]) # {} /\ ~(f.compressed /\ o[i].broken)
           /\ result.sections = Mapped(EntryOf, Among(o, Shown))
  <2> HIDE DEF o
  <2> QED
    BY <1>2, FileReading
<1>6. LET rs == Mapped(EntryOf, Among(o, Shown)) IN
      /\ rs \in Seq(AnyEntry)
      /\ \A i \in 1 .. Len(rs) : \E s \in ToSet(o) : NodesOf(s) # <<>> /\ rs[i] = Entry(s)
      /\ \A s \in ToSet(o) : NodesOf(s) # <<>> => \E i \in 1 .. Len(rs) : rs[i] = Entry(s)
      /\ \A i, j \in 1 .. Len(rs) :
           i < j => Number(rs[i]) <= Number(rs[j]) /\ rs[i].name # rs[j].name
  <2> HIDE DEF o
  <2> QED
    BY <1>2, ShownInOrder
<1> HIDE DEF o, result, size, cells, r
<1>7. \A code : Failed(Fail(code))
  BY DEF Failed, Fail
<1>8. CASE f.flags # {}
  <2>1. Failed(r)
    BY <1>4, <1>7, <1>8
  <2> QED
    BY <1>8, <2>1 DEF AsWritten, r
<1>9. CASE f.flags = {} /\ Failed(result)
  <2>1. Failed(r)
    BY <1>4, <1>9
  <2>2. Reason(f.compressed, o, size, cells)
    BY <1>3, <1>5, <1>9
  <2>3. Reason(f.compressed, seq, size, cells)
    BY <1>2, <2>2 DEF Reason
  <2> QED
    BY <2>1, <2>3 DEF AsWritten, r, size, cells
<1>10. CASE f.flags = {} /\ ~Failed(result)
  <2> DEFINE rs == result.sections
  <2>1. /\ rs \in Seq(AnyEntry)
        /\ \A i \in 1 .. Len(rs) : \E s \in ToSet(seq) : NodesOf(s) # <<>> /\ rs[i] = Entry(s)
        /\ \A s \in ToSet(seq) : NodesOf(s) # <<>> => \E i \in 1 .. Len(rs) : rs[i] = Entry(s)
        /\ \A i, j \in 1 .. Len(rs) :
             i < j => Number(rs[i]) <= Number(rs[j]) /\ rs[i].name # rs[j].name
    BY <1>2, <1>5, <1>6, <1>10
  <2>2. DOMAIN rs = 1 .. Len(rs)
    BY <2>1
  <2>3. CASE rs = <<>>
    <3>1. Failed(r)
      BY <1>4, <1>7, <1>10, <2>3
    <3>2. 1 .. Len(rs) = {}
      BY <2>3
    <3>3. shown = {}
      BY <2>1, <3>2
    <3> QED
      BY <3>1, <3>3 DEF AsWritten, r
  <2>4. CASE rs # <<>>
    <3>1. r = [sections |-> rs]
      BY <1>4, <1>10, <2>4
    <3>2. ~Failed(r) /\ r.sections = rs
      BY <3>1 DEF Failed
    <3> HIDE DEF rs
    <3>3. size <= MaxBytes /\ cells <= MaxCells
      BY <1>3, <1>5, <1>10
    <3>4. ASSUME NEW s \in ToSet(seq) PROVE Whole(s) # {} /\ ~(f.compressed /\ s.broken)
      <4>1. PICK i \in 1 .. Len(o) : s = o[i]
        BY <1>2 DEF ToSet
      <4> QED
        BY <1>5, <1>10, <4>1
    <3>5. {rs[i].name : i \in DOMAIN rs} = {s.name : s \in shown}
      <4>1. ASSUME NEW i \in DOMAIN rs PROVE rs[i].name \in {s.name : s \in shown}
        <5>1. PICK s \in ToSet(seq) : NodesOf(s) # <<>> /\ rs[i] = Entry(s)
          BY <2>1, <2>2
        <5>2. rs[i].name = s.name
          BY <5>1 DEF Entry
        <5> QED
          BY <5>1, <5>2
      <4>2. ASSUME NEW s \in shown PROVE s.name \in {rs[i].name : i \in DOMAIN rs}
        <5>1. PICK i \in 1 .. Len(rs) : rs[i] = Entry(s)
          BY <2>1
        <5>2. rs[i].name = s.name
          BY <5>1 DEF Entry
        <5> QED
          BY <2>2, <5>2
      <4> QED
        BY <4>1, <4>2
    <3>6. ASSUME NEW i \in DOMAIN rs, NEW s \in ToSet(seq), s.name = rs[i].name
          PROVE  rs[i].nodes = NodesOf(s)
      <4>1. PICK t \in ToSet(seq) : NodesOf(t) # <<>> /\ rs[i] = Entry(t)
        BY <2>1, <2>2
      <4>2. rs[i].name = t.name /\ rs[i].nodes = NodesOf(t)
        BY <4>1 DEF Entry
      <4>3. s = t
        <5>1. PICK j \in 1 .. Len(seq), k \in 1 .. Len(seq) : s = seq[j] /\ t = seq[k]
          BY DEF ToSet
        <5>2. seq[j].name = seq[k].name
          BY <3>6, <4>2, <5>1, Zenon
        <5>3. j = k
          BY <1>1, <5>2, Zenon DEF Apart
        <5> QED
          BY <5>1, <5>3
      <4> QED
        BY <4>2, <4>3
    <3>7. \A i, j \in DOMAIN rs :
            i < j => Number(rs[i]) <= Number(rs[j]) /\ rs[i].name # rs[j].name
      BY <2>1, <2>2
    <3>8. Told(f, rs)
      BY <3>4, <3>5, <3>6, <3>7, Zenon DEF Told
    <3> QED
      BY <1>10, <3>2, <3>3, <3>8 DEF AsWritten, r, size, cells
  <2> QED
    BY <2>3, <2>4
<1> QED
  BY <1>8, <1>9, <1>10

\* What is read is what was written, of every file that a writer may have written and
\* the disk may have cut off: the text of the paragraphs, of the sections that have any,
\* in the order of their numbers; and a file is refused only for a reason (HWPParser).
THEOREM FilesReadAsWritten == HwpSpec => []ReadAsWritten
<1> DEFINE Inv == file \in AnyFile /\ (read = Nil \/ read = Parse(file))
<1>1. HwpInit => Inv
  BY FilesAssumption DEF HwpInit
<1>2. Inv /\ [HwpNext]_hwpVars => Inv'
  BY DEF HwpNext, hwpVars
<1>3. Inv => ReadAsWritten
  <2>1. SUFFICES ASSUME Inv, read # Nil PROVE AsWritten(file, read)
    BY DEF AsWritten, Told, ReadAsWritten, Reason
  <2> QED
    BY <2>1, ParsedAsWritten
<1> QED
  BY <1>1, <1>2, <1>3, PTL DEF HwpSpec
===============================================================================
