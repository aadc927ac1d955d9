------------------------------- MODULE Drafting -------------------------------
(***************************************************************************)
(* The plan that editorial.py drafts from chunks, and the contracts that   *)
(* it must pass (contracts.py).  How chunks and sentences are ranked is    *)
(* data: every order of the chunks and every choice among the sentences    *)
(* of a chunk is the one of some ranking.  The words that make a list a    *)
(* process or a comparison are data too: style.                            *)
(***************************************************************************)
EXTENDS Chunking

CONSTANTS
  MaxSelected,   \* chunks in a draft: 10
  MaxBullets,    \* sentences on a slide: 3
  MinSentence,   \* what is shorter is not a sentence: 5
  KeySize,       \* characters that tell chunks apart: 100
  BulletSize,    \* a bullet is cut after these: 94
  CoverSize,     \* the line of the cover after these: 90
  TitleSize,     \* a title after these: 44
  MaxHeading     \* a longer heading is no title: 64

ASSUME DraftingAssumption ==
  MaxSelected \in Nat \ {0} /\ MaxBullets \in Nat \ {0}
    /\ KeySize \in Nat \ {0} /\ BulletSize \in Nat \ {0}
    /\ CoverSize \in Nat \ {0} /\ TitleSize \in Nat \ {0}

Ellipsis == <<"...">>
Untitled == <<<<"untitled">>>>     \* "원문 자료"
TableNote == <<<<"excerpt">>>>     \* "원문 표", "원문 표 발췌"

Prefix(s, n) == SubSeq(s, 1, Least(n, Len(s)))

\* compact; that it prefers to cut at a blank is left out.
Compact(text, limit) ==
  IF Len(text) <= limit THEN text ELSE Append(Prefix(text, limit - 1), Ellipsis)

\* sentences: the lines of a chunk's text without the short and the repeated ones.
Keep(found, piece) ==
  IF piece.size < MinSentence \/ Characters(piece) \in ToSet(found) THEN found
  ELSE Append(found, Characters(piece))
Sentences(chunk) == FoldLeft(LAMBDA found, piece : Keep(found, piece), <<>>, chunk.text)

-------------------------------------------------------------------------------
(* Which chunks are presented *)

Key(chunk) == Prefix(TextOf(chunk.text), KeySize)

\* The best chunks, no two of them with one key.
Consider(s, chunks, i) ==
  IF Cardinality(s.taken) >= MaxSelected \/ Key(chunks[i]) \in s.seen THEN s
  ELSE [taken |-> s.taken \cup {i}, seen |-> s.seen \cup {Key(chunks[i])}]
Best(chunks, ranking) ==
  FoldLeft(LAMBDA s, i : Consider(s, chunks, i), [taken |-> {}, seen |-> {}], ranking).taken

BugSelected(chunks, ranking) ==
  Among(ranking, Best(chunks, ranking))

\* They go back into the order of the document.
Selected(chunks, ranking) == Among(Upto(Len(chunks)), Best(chunks, ranking))

\* The MaxBullets sentences that are chosen, as sets of their positions.
BestSentences(chunk) ==
  LET n == Len(Sentences(chunk)) IN kSubset(Least(n, MaxBullets), 1 .. n)

-------------------------------------------------------------------------------
(* Slides *)

AnyText == Seq(AnyGlyph)
BlockTypes == {"text", "table", "chart", "image"}
Layouts ==
  (BlockTypes \ {"text"}) \cup {"title_content", "cover", "key_points", "process", "comparison"}
AnyBlock == [type : BlockTypes, lines : Seq(AnyText), cells : Seq(Nat)]
AnySlide ==
  [order : Nat, layout : Layouts, title : AnyText, blocks : Seq(AnyBlock), ref : Nat]

ASSUME NullAssumption == None \notin AnySlide

Block(type, lines, cells) == [type |-> type, lines |-> lines, cells |-> cells]

\* The upper left of a table: the lengths of its rows.
Corner(rows, height, width) ==
  [r \in 1 .. Least(height, Len(rows)) |-> Least(width, rows[r])]

IsChart(node) ==
  LET top == Corner(node.rows, 7, 5) IN
  node.numeric /\ Len(top) > 1 /\ top[1] \in 2 .. 3

\* One chunk and the sentences chosen of it; None if there is nothing to show.
SlideOf(document, chunks, i, choice, style) ==
  LET chunk   == chunks[i]
      node    == document[chunk.at[1]].nodes[chunk.at[2]]
      section == document[chunk.section].heading
      all     == LET found  == Sentences(chunk)
                     chosen == Among(Upto(Len(found)), choice)
                 IN  [n \in DOMAIN chosen |-> Compact(found[chosen[n]], BulletSize)]
      title   == Compact(IF section # <<>> /\ Len(section) <= MaxHeading THEN section
                         ELSE IF all # <<>> THEN all[1] ELSE Untitled, TitleSize)
      others  == Without(all, title)
      bullets == IF Len(all) > 1 /\ others # <<>> THEN others ELSE all
      Slide(layout, block) == [order |-> 0, layout |-> layout, title |-> title,
                               blocks |-> <<block>>, ref |-> i]
  IN  CASE chunk.type = "table" ->
             LET chart == IsChart(node)
                 cells == IF chart THEN Corner(node.rows, 7, 5) ELSE Corner(node.rows, 4, 4)
                 kind  == IF chart THEN "chart" ELSE "table"
             IN  Slide(kind, Block(kind, <<TableNote>>, cells))
        [] chunk.type = "image" -> Slide("image", Block("image", <<title>>, <<>>))
        [] OTHER -> IF bullets = <<>> THEN None
                    ELSE Slide(IF Len(bullets) > 1 THEN style ELSE "key_points",
                               Block("text", bullets, <<>>))

\* ContentBlock.table_shape.
BlockValid(block) ==
  block.type \in {"table", "chart"} =>
    /\ Len(block.cells) \in 1 .. 12 /\ block.cells[1] \in 1 .. 8
    /\ \A r \in DOMAIN block.cells : block.cells[r] = block.cells[1]

\* SlidePlanContract and the contracts of its parts.
Valid(slides) ==
  /\ Len(slides) \in 1 .. 40
  /\ \A n \in DOMAIN slides :
       /\ slides[n].order = n
       /\ Len(slides[n].blocks) \in 1 .. 5
       /\ \A b \in ToSet(slides[n].blocks) : BlockValid(b)

Numbered(slides) == [n \in DOMAIN slides |-> [slides[n] EXCEPT !.order = n]]

Cover(first) ==
  [order |-> 1, layout |-> "cover", title |-> first.title,
   blocks |-> <<Block("text", <<Compact(first.blocks[1].lines[1], CoverSize)>>, <<>>)>>,
   ref |-> first.ref]

\* draft: the slides, or the error that it raises.
Draft(document, chunks, ranking, choice, style) ==
  LET picked == Selected(chunks, ranking)
      slides == Without([n \in DOMAIN picked |->
                           SlideOf(document, chunks, picked[n], choice[picked[n]], style)], None)
      plan   == Numbered(<<Cover(slides[1])>> \o slides)
  IN  IF slides = <<>> THEN [error |-> "DOC_NO_PRESENTABLE_CONTENT"]
      ELSE IF Valid(plan) THEN [slides |-> plan]
      ELSE [error |-> "invalid"]
===============================================================================
