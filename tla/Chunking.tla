------------------------------- MODULE Chunking -------------------------------
(***************************************************************************)
(* How a parsed document is cut into chunks (chunking.py).  A document is  *)
(* a sequence of sections with a heading and nodes; the text of a node is  *)
(* the sequence of its sentences, as re.split finds them.  A character is  *)
(* a place in a sentence, so that texts can be compared for what they say. *)
(***************************************************************************)
EXTENDS Naturals, Lists

CONSTANTS
  Documents,     \* bound: what parsers return
  Sources,       \* the sentences there are, and the headings
  ChunkTokens,   \* settings().chunk_tokens
  None           \* null value

\* The place of a node in a document; a text without one is at its place.
Places == Nat \X Nat

AnyGlyph == ((Sources \cup Places) \X Nat) \cup {<<"...">>, <<"untitled">>, <<"excerpt">>}
AnySentence == [says : Sources, size : Nat, latin : BOOLEAN]
NodeTypes == {"heading", "paragraph", "table", "image"}
AnyNode == [type : NodeTypes, text : Seq(AnySentence), rows : Seq(Nat), numeric : BOOLEAN]
AnySection == [heading : Seq(AnyGlyph), nodes : Seq(AnyNode)]

ASSUME ChunkingAssumption == ChunkTokens \in Nat \ {0}
ASSUME DocumentsAssumption == Documents \subseteq Seq(AnySection)
ASSUME PlacesAssumption ==
  None \notin Places /\ \A s \in Sources : s \notin Places

Characters(piece) == [i \in 1 .. piece.size |-> <<piece.says, piece.from + i>>]
TextOf(pieces) == FlattenSeq([i \in DOMAIN pieces |-> Characters(pieces[i])])

\* token_count: a Korean character is one, a run of Latin letters is one.
TokensOf(piece) == IF piece.latin THEN Least(1, piece.size) ELSE piece.size
TokenCount(pieces) ==
  Most(1, FoldLeft(LAMBDA n, piece : n + TokensOf(piece), 0, pieces))

\* A sentence in pieces of ChunkTokens characters; an empty one is one piece.
Pieces(sentence) ==
  LET count == Most(1, (sentence.size + ChunkTokens - 1) \div ChunkTokens) IN
  [k \in 1 .. count |->
     [says |-> sentence.says, latin |-> sentence.latin,
      from |-> (k - 1) * ChunkTokens,
      size |-> Least(ChunkTokens, sentence.size - (k - 1) * ChunkTokens)]]

PiecesOf(node) == FlattenSeq([i \in DOMAIN node.text |-> Pieces(node.text[i])])

Structured == {"table", "image"}

\* What an image without a text says.
Placeholder(place) == [says |-> place, from |-> 0, size |-> ChunkTokens, latin |-> FALSE]

-------------------------------------------------------------------------------
(* chunk_document; place is <<section, node>>, at the place a chunk cites *)

Open == [done |-> <<>>, pending |-> <<>>, at |-> None]

BugFlush(s, section) ==
  IF s.pending = <<>> THEN s
  ELSE [done |-> Append(s.done, [section |-> section, type |-> "text",
                                 text |-> s.pending, at |-> s.at]),
        pending |-> <<>>, at |-> s.at]

Flush(s, section) ==
  IF s.pending = <<>> THEN s
  ELSE [done |-> Append(s.done, [section |-> section, type |-> "text",
                                 text |-> s.pending, at |-> s.at]),
        pending |-> <<>>, at |-> None]

AddPiece(s, place, piece) ==
  LET full == TokenCount(Append(s.pending, piece)) > ChunkTokens
      room == IF full THEN Flush(s, place[1]) ELSE s
  IN  [room EXCEPT !.at = IF room.at = None THEN place ELSE room.at,
                   !.pending = Append(room.pending, piece)]

AddPieces(s, place, pieces) ==
  FoldLeft(LAMBDA t, piece : AddPiece(t, place, piece), s, pieces)

AddNode(s, place, node) ==
  IF node.type \in Structured
  THEN LET closed == Flush(s, place[1])
           own    == IF node.text = <<>> THEN <<Placeholder(place)>>
                     ELSE [i \in DOMAIN node.text |->
                             [says |-> node.text[i].says, latin |-> node.text[i].latin,
                              from |-> 0, size |-> node.text[i].size]]
       IN  [closed EXCEPT !.done =
              Append(closed.done, [section |-> place[1], type |-> node.type,
                                   text |-> own, at |-> place])]
  ELSE AddPieces(s, place, PiecesOf(node))

AddNodes(s, document, i) ==
  FoldLeft(LAMBDA t, j : AddNode(t, <<i, j>>, document[i].nodes[j]),
           s, Upto(Len(document[i].nodes)))
AddSection(s, document, i) == Flush(AddNodes(s, document, i), i)
AddSections(document) ==
  FoldLeft(LAMBDA s, i : AddSection(s, document, i), Open, Upto(Len(document)))

\* The chunks of a document, in order; a chunk is identified by its position.
Chunks(document) == AddSections(document).done

-------------------------------------------------------------------------------
(* What it promises *)

\* The places where text begins: every character of the document, in order, with
\* the node that holds it.
Reading(document) ==
  LET Of(i, j) == LET text == TextOf(PiecesOf(document[i].nodes[j])) IN
                  [k \in DOMAIN text |-> [place |-> <<i, j>>, says |-> text[k]]]
  IN  FlattenSeq(FlattenSeq([i \in DOMAIN document |->
        [j \in DOMAIN document[i].nodes |-> Of(i, j)]]))

\* The chunks say what the document says, character by character and in order
\* (images without a text aside).
Says(chunks, document) ==
  LET said(c) == IF c.text = <<Placeholder(c.at)>> THEN <<>> ELSE TextOf(c.text)
      read == Reading(document)
  IN  FlattenSeq([i \in DOMAIN chunks |-> said(chunks[i])])
        = [k \in DOMAIN read |-> read[k].says]

\* A chunk keeps to one section and begins with the node that it cites.
Located(chunks, document) ==
  \A i \in DOMAIN chunks :
    LET c == chunks[i]
        node == document[c.at[1]].nodes[c.at[2]]
        own  == UNION {ToSet(PiecesOf(n)) : n \in ToSet(document[c.section].nodes)}
    IN  /\ c.at[1] = c.section
        /\ IF c.type = "text"
           THEN /\ node.type \notin Structured
                /\ c.text[1] \in ToSet(PiecesOf(node))
                /\ ToSet(c.text) \subseteq own
           ELSE node.type = c.type

\* Text fits into the budget, and no more chunks are made than that takes.
Tight(chunks) ==
  \A i \in DOMAIN chunks :
    chunks[i].type = "text" =>
      /\ TokenCount(chunks[i].text) <= ChunkTokens
      /\ i + 1 \in DOMAIN chunks /\ chunks[i + 1].type = "text"
           /\ chunks[i + 1].section = chunks[i].section
         => TokenCount(Append(chunks[i].text, chunks[i + 1].text[1])) > ChunkTokens
===============================================================================
