------------------------------- MODULE Authoring -------------------------------
(***************************************************************************)
(* From a parsed document to a drawn slide: the steps CHUNK and LLM (with  *)
(* the adapter that drafts without a model), the edit of a plan, and the   *)
(* renderer.  No other process writes in between (Documents, PlanReview    *)
(* and Studio say what happens when one does).                             *)
(***************************************************************************)
EXTENDS Drawing

CONSTANTS
  Edits,          \* slides that users write
  Arrangements,   \* policy["layout_arrangement"]
  Boxes           \* widths, heights and sizes of text boxes

ASSUME EditsAssumption == Edits \subseteq AnySlide
ASSUME BoxesAssumption ==
  Boxes \subseteq [width : Nat, height : Nat, preferred : Nat, minimum : Nat \ {0}]

VARIABLES
  document, chunks,
  plan,           \* the slides, or the error of the draft
  drawn,          \* a slide and its scene
  laid            \* a text block of it as rendering.py lets it flow

authoringVars == <<document, chunks, plan, drawn, laid>>

AuthoringInit ==
  /\ document \in Documents
  /\ chunks = None /\ plan = None /\ drawn = None /\ laid = None

Chunk ==
  /\ document # None /\ chunks = None
  /\ chunks' = Chunks(document)
  /\ UNCHANGED <<document, plan, drawn, laid>>

DraftPlan ==
  /\ chunks # None /\ plan = None
  /\ \E ranking \in SetToSeqs(DOMAIN chunks),
        choice \in {f \in [DOMAIN chunks -> UNION {BestSentences(chunks[i]) : i \in DOMAIN chunks}] :
                      \A i \in DOMAIN chunks : f[i] \in BestSentences(chunks[i])},
        style \in {"key_points", "process", "comparison"} :
       plan' = Draft(document, chunks, ranking, choice, style)
  /\ UNCHANGED <<document, chunks, drawn, laid>>

HasSlides == plan # None /\ "slides" \in DOMAIN plan

\* What users write only has to pass the contracts; where it came from is forgotten.
EditPlan(slide) ==
  /\ HasSlides /\ document # None /\ drawn = None
  /\ Valid(Numbered(<<slide>>))
  /\ plan' = [slides |-> Numbered(<<slide>>)]
  /\ document' = None /\ chunks' = None
  /\ UNCHANGED <<drawn, laid>>

Draw(n, arrangement) ==
  /\ HasSlides /\ drawn = None /\ n \in DOMAIN plan.slides
  /\ drawn' = [slide |-> plan.slides[n], scene |-> Scene(plan.slides[n], arrangement)]
  /\ UNCHANGED <<document, chunks, plan, laid>>

\* A text block of a slide in a deck without the editorial engine.
Flow(n, box) ==
  LET paragraphs == [i \in DOMAIN drawn.slide.blocks[n].lines |->
                       Len(drawn.slide.blocks[n].lines[i])]
  IN  /\ drawn # None /\ laid = None
      /\ n \in DOMAIN drawn.slide.blocks /\ drawn.slide.blocks[n].type = "text"
      /\ laid' = [paragraphs |-> paragraphs, box |-> box, layout |->
                    TextLayout(paragraphs, box.width, box.height, box.preferred, box.minimum)]
      /\ UNCHANGED <<document, chunks, plan, drawn>>

AuthoringNext ==
  \/ Chunk \/ DraftPlan
  \/ \E slide \in Edits : EditPlan(slide)
  \/ HasSlides /\ \E n \in DOMAIN plan.slides, a \in Arrangements : Draw(n, a)
  \/ drawn # None /\ \E n \in DOMAIN drawn.slide.blocks, box \in Boxes : Flow(n, box)

AuthoringSpec == AuthoringInit /\ [][AuthoringNext]_authoringVars

-------------------------------------------------------------------------------
(* Properties *)

\* Chunks say what the document says, all of it and in order; each cites the node
\* it begins with, keeps to its section and to the budget, and none is made in
\* vain (chunk_document).
ChunksCover ==
  document # None /\ chunks # None =>
    Says(chunks, document) /\ Located(chunks, document) /\ Tight(chunks)

\* A slide shows sentences of the chunk that it cites and a table's own corner; the
\* slides follow the document, no two are about chunks that begin alike, a chunk is
\* left out while there is room only if it begins like one that is shown or that has
\* nothing to show, and the plan passes its contract (draft).
DraftGrounded ==
  document # None /\ HasSlides =>
    LET slides == plan.slides
        Own == 2 .. Len(slides)
        At(n) == chunks[slides[n].ref]
        Alike(c, d) == Prefix(TextOf(c.text), KeySize) = Prefix(TextOf(d.text), KeySize)
        Shown == {slides[n].ref : n \in Own}
    IN  /\ Valid(slides) /\ slides[1].ref = slides[2].ref
        /\ Len(slides) <= MaxSelected + 1
        /\ \A n \in Own : \A b \in ToSet(slides[n].blocks) :
             CASE b.type = "text" ->
                    /\ Len(b.lines) <= MaxBullets
                    /\ ToSet(b.lines) \subseteq
                         {Compact(s, BulletSize) : s \in ToSet(Sentences(At(n)))}
               [] b.type \in {"table", "chart"} ->
                    LET rows == document[At(n).at[1]].nodes[At(n).at[2]].rows IN
                    \A r \in DOMAIN b.cells : r \in DOMAIN rows /\ b.cells[r] <= rows[r]
               [] OTHER -> At(n).type = "image"
        /\ \A m, n \in Own :
             m < n => slides[m].ref < slides[n].ref /\ ~Alike(At(m), At(n))
        /\ Len(chunks) <= MaxSelected =>
             \A i \in DOMAIN chunks : \E j \in DOMAIN chunks :
               /\ Alike(chunks[i], chunks[j])
               /\ j \in Shown \/ (chunks[j].type = "text" /\ Sentences(chunks[j]) = <<>>)

\* No line is lost or moved between a plan and what is drawn of it, and text flows
\* as large as it fits (scene, text_layout).
NothingDiscarded ==
  /\ drawn # None /\ "texts" \in DOMAIN drawn.scene => Keeps(drawn.slide, drawn.scene)
  /\ laid # None =>
       BestLayout(laid.layout, laid.paragraphs, laid.box.width, laid.box.height,
                  laid.box.preferred, laid.box.minimum)
===============================================================================
