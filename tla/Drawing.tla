-------------------------------- MODULE Drawing --------------------------------
(***************************************************************************)
(* What is drawn of a slide: the scenes of presentation_design.py, which   *)
(* decks and videos share, and the columns into which rendering.py lets    *)
(* text flow.  Colours, rules, numbers and footers are left out; widths    *)
(* and heights count characters and lines.                                 *)
(***************************************************************************)
EXTENDS Drafting

-------------------------------------------------------------------------------
(* scene *)

Blocks(slide, types) ==
  Among(slide.blocks, {b \in ToSet(slide.blocks) : b.type \in types})

\* The lines of the text blocks that are not blank.
Lines(slide) ==
  LET texts == Blocks(slide, {"text"}) IN
  Without(FlattenSeq([i \in DOMAIN texts |-> texts[i].lines]), <<>>)

BugColumns(lines) == [i \in 1 .. Least(3, Len(lines)) |-> <<lines[i]>>]

\* Of a comparison or a process: the last column takes the remaining points.
Columns(lines) ==
  LET count == Least(3, Len(lines)) IN
  [i \in 1 .. count |-> IF i = count THEN SubSeq(lines, i, Len(lines)) ELSE <<lines[i]>>]

\* The text boxes below the title and the structured block, or the error raised.
Scene(slide, arrangement) ==
  LET lines  == Lines(slide)
      kinds  == Blocks(slide, {"table", "chart", "image"})
      layout == IF slide.layout = "key_points" /\ arrangement = "columns" /\ Len(lines) \in 2 .. 3
                THEN "comparison" ELSE slide.layout
      Drawn(texts, blocks) == [texts |-> texts, blocks |-> blocks]
      Boxed == IF lines = <<>> THEN <<>> ELSE <<lines>>
  IN  IF layout = "cover" THEN Drawn(<<lines>>, <<>>)
      ELSE IF Len(kinds) > 1 THEN [error |-> "PPT_SPLIT_STRUCTURED_BLOCKS_REQUIRED"]
      ELSE IF Len(kinds) = 1 THEN Drawn(Boxed, kinds)
      ELSE IF layout \in {"comparison", "process"} /\ Len(lines) > 1
           THEN Drawn(Columns(lines), <<>>)
      ELSE Drawn([i \in DOMAIN lines |-> <<lines[i]>>], <<>>)

\* Nothing of the text is lost or moved, and a structured block is drawn unless
\* the slide is a cover.
Keeps(slide, drawn) ==
  /\ FlattenSeq(drawn.texts) = Lines(slide)
  /\ slide.layout # "cover" =>
       drawn.blocks = Blocks(slide, {"table", "chart", "image"})

-------------------------------------------------------------------------------
(* text_layout; a paragraph is its length *)

\* wrap_text: the rows that paragraphs take, of width characters of size 1.
Height(p, size, width) ==
  LET fit == Most(1, width \div size) IN Most(1, (p + fit - 1) \div fit)
Rows(paragraphs, size, width) ==
  FoldLeft(LAMBDA n, p : n + Height(p, size, width), 0, paragraphs)

Fits(paragraphs, size, width, height) ==
  Rows(paragraphs, size, width) * size <= height

ColumnWidth(width, columns) == (width - (columns - 1)) \div columns

\* Paragraphs flow into a part until it is full.
Pour(s, p, size, width, height) ==
  IF s.current # <<>> /\ ~Fits(Append(s.current, p), size, width, height)
  THEN [parts |-> Append(s.parts, s.current), current |-> <<p>>]
  ELSE [s EXCEPT !.current = Append(s.current, p)]

Poured(paragraphs, size, width, height) ==
  FoldLeft(LAMBDA s, p : Pour(s, p, size, width, height),
           [parts |-> <<>>, current |-> <<>>], paragraphs)

Parts(paragraphs, size, width, height) ==
  LET poured == Poured(paragraphs, size, width, height) IN
  Append(poured.parts, poured.current)

\* The layouts that are tried, in order: few columns first, then large letters.
Tried(preferred, minimum) ==
  LET sizes == preferred + 1 - minimum IN
  [n \in 1 .. 4 * sizes |->
     [columns |-> ((n - 1) \div sizes) + 1, size |-> preferred - ((n - 1) % sizes)]]

Suits(parts, try, width, height) ==
  /\ Len(parts) <= try.columns
  /\ \A i \in DOMAIN parts : Fits(parts[i], try.size, ColumnWidth(width, try.columns), height)

TextLayout(paragraphs, width, height, preferred, minimum) ==
  LET tries == Tried(preferred, minimum)
      PartsOf(n) == Parts(paragraphs, tries[n].size,
                          ColumnWidth(width, tries[n].columns), height)
      good  == {n \in DOMAIN tries : Suits(PartsOf(n), tries[n], width, height)}
      first == CHOOSE n \in good : \A m \in good : n <= m
  IN  IF good = {} THEN [size |-> minimum, columns |-> 1, parts |-> <<paragraphs>>]
      ELSE [size |-> tries[first].size, columns |-> tries[first].columns,
            parts |-> PartsOf(first)]

\* Every way to cut a text into so many parts at most.
Cuts(paragraphs, columns) ==
  LET all == Len(paragraphs)
      Stops(k) == {f \in [0 .. k -> 0 .. all] :
                     f[0] = 0 /\ f[k] = all /\ \A i \in 1 .. k : f[i - 1] < f[i]}
  IN  UNION {{[i \in 1 .. k |-> SubSeq(paragraphs, f[i - 1] + 1, f[i])] : f \in Stops(k)} :
               k \in 1 .. columns}

\* Text that can be laid out is laid out, as large and in as few columns as can be,
\* and text that cannot is left whole.
BestLayout(laid, paragraphs, width, height, preferred, minimum) ==
  LET Possible(columns, size) ==
        \E cut \in Cuts(paragraphs, columns) :
          Suits(cut, [columns |-> columns, size |-> size], width, height)
      Better(columns, size) ==
        columns < laid.columns \/ (columns = laid.columns /\ size > laid.size)
  IN  /\ FlattenSeq(laid.parts) = paragraphs
      /\ \/ /\ Suits(laid.parts, laid, width, height)
            /\ \A columns \in 1 .. 4, size \in minimum .. preferred :
                 Better(columns, size) => ~Possible(columns, size)
         \/ /\ Len(laid.parts) = 1 /\ laid.size = minimum
            /\ \A columns \in 1 .. 4, size \in minimum .. preferred : ~Possible(columns, size)
===============================================================================
