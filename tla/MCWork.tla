-------------------------------- MODULE MCWork --------------------------------
(***************************************************************************)
(* Small inputs for what the steps compute: documents and plans, HWP       *)
(* files, and calls that may fail.  A behaviour shows one of the three.    *)
(***************************************************************************)
EXTENDS Authoring, Hwp, Calls

-------------------------------------------------------------------------------
(* Documents *)

SomeSources == {<<s>> : s \in {"s", "t", "l", "w", "e", "h", "a", "b", "c", "d"}}
Sentence(says, size, latin) == [says |-> says, size |-> size, latin |-> latin]
short == Sentence(<<"s">>, 1, FALSE)
two == Sentence(<<"t">>, 2, FALSE)
long == Sentence(<<"l">>, 4, FALSE)
word == Sentence(<<"w">>, 5, TRUE)
empty == Sentence(<<"e">>, 0, FALSE)

Node(type, text, rows, numeric) ==
  [type |-> type, text |-> text, rows |-> rows, numeric |-> numeric]
Prose == {Node("paragraph", t, <<>>, FALSE) :
            t \in {<<short>>, <<two, short>>, <<long>>, <<word, empty>>}}
Others ==
  {Node("table", <<two, two>>, <<2, 2>>, TRUE), Node("table", <<word>>, <<2, 1>>, FALSE),
   Node("table", <<long, two>>, <<6, 6, 6, 6, 6, 6, 6, 6>>, FALSE),
   Node("image", <<>>, <<>>, FALSE), Node("image", <<short>>, <<>>, FALSE)}
AllNodes == Prose \cup Others
Section(heading, nodes) == [heading |-> heading, nodes |-> nodes]
title == Characters([says |-> <<"h">>, from |-> 0, size |-> 3])

SomeDocuments ==
  {<<Section(<<>>, <<n>>)>> : n \in AllNodes}
    \cup {<<Section(title, <<m, n>>)>> : m \in AllNodes, n \in Prose}
    \cup {<<Section(title, <<l, m>>), Section(<<>>, <<n>>)>> : l \in Prose, m \in AllNodes, n \in Prose}


-------------------------------------------------------------------------------
(* Slides that users write, and the boxes for their text *)

line(says, n) == Characters([says |-> says, from |-> 0, size |-> n])
SomeLines ==
  {<<>>, <<line(<<"a">>, 2)>>, <<line(<<"a">>, 1), <<>>, line(<<"b">>, 3)>>,
   <<line(<<"a">>, 3), line(<<"b">>, 1), line(<<"c">>, 2), line(<<"d">>, 4)>>}
SomeSlides ==
  {[order |-> 1, layout |-> layout, title |-> title, blocks |-> blocks, ref |-> 1] :
     layout \in {"cover", "key_points", "process", "table"},
     blocks \in {<<Block("text", l, <<>>)>> : l \in SomeLines}
           \cup {<<Block("text", l, <<>>), Block(k, <<>>, cells)>> :
                    l \in SomeLines, k \in {"table", "image"}, cells \in {<<1, 1>>, <<1, 2>>}}
           \cup {<<Block("image", <<>>, <<>>), Block("text", l, <<>>), Block("chart", <<>>, <<2, 2>>)>> :
                    l \in SomeLines}}
SomeBoxes ==
  [width : {4, 9}, height : {2, 5}, preferred : {2, 3}, minimum : {1, 2}]

-------------------------------------------------------------------------------
(* HWP files: two sections that stand in the wrong order, whole or cut off *)

Unit(char) == Word(char, "text", 1)
Token(char) == <<Unit(char)>> \o [i \in 1 .. Units(char) - 1 |-> Unit("letter")]
Stub(char) == <<Unit(char)>>
Texts(n) ==
  UNION {[1 .. k -> {Token(c) : c \in {"letter", "newline", "tab", "control", "other"}}] : k \in 0 .. n}
Paragraph(tag, tokens) == [tag |-> tag, tokens |-> tokens]
first == {<<Paragraph("text", t)>> : t \in Texts(3)}
           \cup {<<Paragraph("text", <<Token("letter"), Stub(c)>>)>> : c \in Extended}
second == {<<Paragraph(tag, s), Paragraph("text", <<Token("letter")>>)>> :
             tag \in {"text", "other"}, s \in Texts(2)}
third == {[i \in 1 .. 3 |-> Paragraph("other", <<>>)]}
Stream(name, paragraphs, cut, stored) ==
  LET all == Written(paragraphs) IN
  [name |-> name, paragraphs |-> paragraphs, broken |-> cut > 0,
   body |-> SubSeq(all, 1, Len(all) - Least(cut, Len(all))), stored |-> stored]
SomeFiles ==
  {[flags |-> flags, compressed |-> FALSE,
    sections |-> <<Stream(<<1, 1>>, <<Paragraph("text", <<Token("letter")>>)>>, 0, 1)>>] :
      flags \in SUBSET {"encrypted", "distribution", "drm"}}
  \cup {[flags |-> {}, compressed |-> compressed, sections |-> <<Stream(<<1, 1>>, p, cut, stored)>>] :
          stored \in {1, 10}, compressed \in BOOLEAN, p \in first \cup second \cup third, cut \in 0 .. 3}
  \cup {[flags |-> {}, compressed |-> compressed,
         sections |-> <<Stream(name, p, cut, 1), Stream(<<1, 1>>, q, 0, 1)>>] :
          name \in {<<2, 1>>, <<1, 2>>},
          compressed \in BOOLEAN, cut \in 0 .. 1, q \in second,
          p \in {<<Paragraph("text", t)>> : t \in Texts(1)}}

-------------------------------------------------------------------------------
NoDocument == document = None /\ chunks = None /\ plan = None /\ drawn = None /\ laid = None
NoFile == file = Nil /\ read = Nil

WorkInit ==
  /\ CallsInit
  /\ \/ AuthoringInit /\ NoFile /\ calls = MaxCalls
     \/ HwpInit /\ NoDocument /\ calls = MaxCalls
     \/ NoDocument /\ NoFile /\ calls = 0

WorkNext ==
  \/ AuthoringNext /\ UNCHANGED <<hwpVars, callVars>>
  \/ HwpNext /\ UNCHANGED <<authoringVars, callVars>>
  \/ CallsNext /\ UNCHANGED <<authoringVars, hwpVars>>

WorkSpec ==
  /\ WorkInit /\ [][WorkNext]_<<authoringVars, hwpVars, callVars>>
  /\ CallsFair
===============================================================================
