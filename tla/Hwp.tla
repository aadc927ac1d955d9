---------------------------------- MODULE Hwp ----------------------------------
(***************************************************************************)
(* The reader of HWP 5 files (hwp.py).  A section is a stream of records,  *)
(* and a stream is a sequence of words: whether a word is the head of a    *)
(* record, a letter or the cargo of a control depends on where the reader  *)
(* stands, so each word can be read either way.                            *)
(***************************************************************************)
EXTENDS Integers, Lists

CONSTANTS
  Files,          \* bound: what is uploaded
  ControlUnits,   \* units that an extended control takes: 8
  Escape,         \* the length that says that the length follows: 4095
  MaxBytes,       \* settings().archive_max_bytes, of all sections, in words
  MaxCells,       \* settings().max_cells
  MaxRecords,     \* 20 * settings().max_cells, in one section
  Nil             \* null value

ASSUME HwpAssumption ==
  /\ ControlUnits \in Nat \ {0} /\ Escape \in Nat \ {0}
  /\ MaxBytes \in Nat /\ MaxCells \in Nat /\ MaxRecords \in Nat

\* What a word says: as a letter, as the head of a record and as a length.
Word(char, tag, length) == [char |-> char, tag |-> tag, length |-> length]

Printable == {"letter"}
Blanks == {"newline", "tab"}       \* 9, 10, 13, 30, 31: a blank in the text
Extended == {"control", "tab"}     \* EXTENDED_CONTROLS
Chars == {"letter", "newline", "tab", "control", "other"}
AnyWord == [char : Chars, tag : {"text", "other", "low"}, length : Nat]

\* A file that is refused for several reasons may get the code of another one of them.
Fail(code) == [error |-> code]
Failed(result) == "error" \in DOMAIN result

Trim(text) ==
  LET inked == {i \in DOMAIN text : text[i] \notin Blanks} IN
  IF inked = {} THEN <<>>
  ELSE SubSeq(text, CHOOSE i \in inked : \A j \in inked : i <= j,
                    CHOOSE i \in inked : \A j \in inked : i >= j)

-------------------------------------------------------------------------------
BugWidth(char) == 1
Width(char) == IF char \in Extended THEN ControlUnits ELSE 1

\* paragraph_text
ParagraphText(payload) ==
  LET From[i \in Nat \ {0}] ==
        IF i > Len(payload) THEN [text |-> <<>>]
        ELSE LET char == payload[i].char
                 rest == From[i + Width(char)]
             IN  IF i + Width(char) > Len(payload) + 1 THEN Fail("DOC_MALFORMED")
                 ELSE IF Failed(rest) \/ char \notin Printable \cup Blanks THEN rest
                 ELSE [text |-> <<char>> \o rest.text]
      all == From[1]
  IN  IF Failed(all) THEN all ELSE [text |-> Trim(all.text)]

\* records: where each one begins and ends, or the error.
Records(body) ==
  LET From[i \in Nat \ {0}] ==
        IF i > Len(body) THEN [records |-> <<>>]
        ELSE LET long   == body[i].length = Escape
                 start  == IF long THEN i + 2 ELSE i + 1
                 length == IF long THEN body[i + 1].length ELSE body[i].length
                 rest   == From[start + length]
             IN  IF (long /\ i = Len(body)) \/ body[i].tag = "low" THEN Fail("DOC_MALFORMED")
                 ELSE IF start + length > Len(body) + 1 THEN Fail("DOC_MALFORMED")
                 ELSE IF Failed(rest) THEN rest
                 ELSE [records |-> <<[tag |-> body[i].tag, payload |->
                                        SubSeq(body, start, start + length - 1)]>>
                                     \o rest.records]
      all == From[1]
  IN  IF ~Failed(all) /\ Len(all.records) > MaxRecords THEN Fail("DOC_RESOURCE_LIMIT") ELSE all

\* The paragraphs of a section that have a text, with their place.
Nodes(body) ==
  LET found == Records(body)
      Add(s, i) ==
        LET text == ParagraphText(found.records[i].payload) IN
        IF Failed(s) \/ found.records[i].tag # "text" THEN s
        ELSE IF Failed(text) THEN text
        ELSE IF text.text = <<>> THEN s
        ELSE [nodes |-> Append(s.nodes, [text |-> text.text, paragraph |-> i - 1])]
  IN  IF Failed(found) THEN found
      ELSE FoldLeft(Add, [nodes |-> <<>>], Upto(Len(found.records)))

Remaining(total) == MaxBytes - total

\* decompress_section, or the bytes as they are.
Expand(section, compressed, total) ==
  LET left == Remaining(total) IN
  IF (compressed /\ (section.stored > left \/ left = 0)) \/ Len(section.body) > left
  THEN Fail("DOC_RESOURCE_LIMIT")
  ELSE IF compressed /\ section.broken THEN Fail("DOC_MALFORMED")
  ELSE [body |-> section.body]

ReadSection(compressed, s, section) ==
  LET body  == Expand(section, compressed, s.total)
      nodes == Nodes(body.body)
  IN  IF Failed(s) THEN s
      ELSE IF Failed(body) THEN body
      ELSE IF Failed(nodes) THEN nodes
      ELSE IF s.count + Len(nodes.nodes) > MaxCells THEN Fail("DOC_RESOURCE_LIMIT")
      ELSE [total |-> s.total + Len(body.body), count |-> s.count + Len(nodes.nodes),
            sections |-> IF nodes.nodes = <<>> THEN s.sections
                         ELSE Append(s.sections, [name |-> section.name, nodes |-> nodes.nodes])]

Protected == [encrypted |-> "DOC_ENCRYPTED", distribution |-> "HWP_DISTRIBUTION_UNSUPPORTED",
              drm |-> "HWP_DRM_UNSUPPORTED"]

\* Sections are read in the order of their numbers.  A name is its number and its
\* digits: Section1 and Section01 may stand in one file.
Number(section) == section.name[1]
Insert(sections, section) ==
  LET later == {i \in DOMAIN sections : Number(section) < Number(sections[i])} IN
  InsertAt(sections, Min(later \cup {Len(sections) + 1}), section)
InOrder(sections) == FoldLeft(Insert, <<>>, sections)

Start == [total |-> 0, count |-> 0, sections |-> <<>>]

\* HWPParser.parse
Parse(upload) ==
  LET result == FoldLeft(LAMBDA s, section : ReadSection(upload.compressed, s, section),
                         Start, InOrder(upload.sections))
  IN  IF upload.flags # {}
      THEN Fail(IF "encrypted" \in upload.flags THEN Protected.encrypted
                ELSE IF "distribution" \in upload.flags THEN Protected.distribution
                ELSE Protected.drm)
      ELSE IF Failed(result) THEN result
      ELSE IF result.sections = <<>> THEN Fail("DOC_EMPTY")
      ELSE [sections |-> result.sections]

-------------------------------------------------------------------------------
VARIABLES file, read
hwpVars == <<file, read>>

HwpInit == file \in Files /\ read = Nil
HwpNext == file # Nil /\ read = Nil /\ read' = Parse(file) /\ UNCHANGED file
HwpSpec == HwpInit /\ [][HwpNext]_hwpVars

-------------------------------------------------------------------------------
(* A writer of HWP, to compare with.  The text of a paragraph is a         *)
(* sequence of tokens, each of them the words that it takes: a letter is   *)
(* one, an extended control has its cargo behind it.                       *)

Units(char) == IF char \in Extended THEN ControlUnits ELSE 1
CharOf(token) == token[1].char
Complete(token) == Len(token) = Units(CharOf(token))

RecordOf(paragraph) ==
  LET payload == FlattenSeq(paragraph.tokens)
      heads == IF Len(payload) < Escape
               THEN <<Word("letter", paragraph.tag, Len(payload))>>
               ELSE <<Word("letter", paragraph.tag, Escape), Word("letter", "low", Len(payload))>>
  IN  heads \o payload

Written(paragraphs) == FlattenSeq([i \in DOMAIN paragraphs |-> RecordOf(paragraphs[i])])

\* The text of a paragraph: its letters and blanks, and nothing of the cargo.
Meant(paragraph) ==
  Trim(Among([j \in DOMAIN paragraph.tokens |-> CharOf(paragraph.tokens[j])], Printable \cup Blanks))

\* The nodes that paragraphs stand for.
NodesMeant(paragraphs) ==
  LET shown == {i \in DOMAIN paragraphs :
                  paragraphs[i].tag = "text" /\ Meant(paragraphs[i]) # <<>>}
      places == Among(Upto(Len(paragraphs)), shown)
  IN  [k \in DOMAIN places |-> [text |-> Meant(paragraphs[places[k]]), paragraph |-> places[k] - 1]]

\* A stream may be cut off anywhere, and a control at the end of a paragraph may lack cargo.
AnyToken == {t \in Seq(AnyWord) : t # <<>> /\ Len(t) <= Units(CharOf(t))}
AnyParagraph ==
  [tag : {"text", "other"},
   tokens : {t \in Seq(AnyToken) : \A j \in 1 .. Len(t) - 1 : Complete(t[j])}]
AnyStream ==
  {s \in [name : Nat \X Nat, paragraphs : Seq(AnyParagraph), body : Seq(AnyWord),
          broken : BOOLEAN, stored : Nat] : IsPrefix(s.body, Written(s.paragraphs))}
AnyFile ==
  {f \in [flags : SUBSET DOMAIN Protected, compressed : BOOLEAN, sections : Seq(AnyStream)] :
     \A i, j \in DOMAIN f.sections : f.sections[i].name = f.sections[j].name => i = j}

ASSUME FilesAssumption == Files \subseteq AnyFile

\* How many whole paragraphs a section has, if it has a whole number of them.
Whole(s) ==
  {n \in 0 .. Len(s.paragraphs) :
     /\ s.body = Written(SubSeq(s.paragraphs, 1, n))
     /\ \A i \in 1 .. n : s.paragraphs[i].tag = "text" =>
                            \A t \in ToSet(s.paragraphs[i].tokens) : Complete(t)}
NodesOf(s) ==
  IF Whole(s) = {} THEN <<>>
  ELSE NodesMeant(SubSeq(s.paragraphs, 1, CHOOSE n \in Whole(s) : TRUE))

Together(lists) == Len(FlattenSeq(lists))

\* What is read is what was written: the text of the paragraphs and nothing of their
\* controls, of each section that has any, in the order of their numbers; of a section
\* that was cut off, whole paragraphs from its front; nothing of a protected file and
\* never more than the limits allow; and a file is refused only for one of these reasons
\* (HWPParser).
ReadAsWritten ==
  read # Nil =>
    LET sections == ToSet(file.sections)
        shown == {s \in sections : NodesOf(s) # <<>>}
        size == Together([i \in DOMAIN file.sections |-> file.sections[i].body])
        cells == Together([i \in DOMAIN file.sections |-> NodesOf(file.sections[i])])
    IN  IF Failed(read)
        THEN \/ file.flags # {} \/ shown = {}
             \/ \E s \in sections : \/ Whole(s) = {} \/ (file.compressed /\ s.broken)
                                   \/ Len(s.paragraphs) > MaxRecords
             \/ size > MaxBytes \/ cells > MaxCells
             \/ file.compressed /\ (size = MaxBytes \/ \E s \in sections :
                                       s.stored > MaxBytes - size + Len(s.body))
        ELSE /\ file.flags = {} /\ size <= MaxBytes /\ cells <= MaxCells
             /\ \A s \in sections : Whole(s) # {} /\ ~(file.compressed /\ s.broken)
             /\ {read.sections[i].name : i \in DOMAIN read.sections} = {s.name : s \in shown}
             /\ \A i, j \in DOMAIN read.sections :
                  i < j => /\ Number(read.sections[i]) <= Number(read.sections[j])
                           /\ read.sections[i].name # read.sections[j].name
             /\ \A i \in DOMAIN read.sections : \A s \in sections :
                  s.name = read.sections[i].name => read.sections[i].nodes = NodesOf(s)
===============================================================================
