--------------------------- MODULE DocumentChunks ---------------------------
(***************************************************************************)
(* A document on its way to numbered payloads: parse_txt and parse_docx    *)
(* (app/parser/docx_text_parser.py) and parse_pdf with                     *)
(* _coalesce_paragraphs (app/parser/pdf_parser.py), which buffer lines,    *)
(* hand them to the chunker and number what comes back.                    *)
(***************************************************************************)
EXTENDS Chunker

CONSTANTS
    Documents,  \* the documents: kind, letters and lines
    Window      \* window_size of parse_txt, the buffer limit of parse_docx

Kinds == {"txt", "docx", "pdf"}
PARAGRAPH_TAG == "paragraph"
Tags == {PARAGRAPH_TAG, "header", "footer", "missing_text_layer"}

\* A line of a PDF, a paragraph of a DOCX, or a read window of a text: its
\* tag, its page and its letters.  A page without text is a line without
\* letters.
Line == [tag : Tags, page : Nat \ {0}, first : Nat \ {0}, last : Nat]

LastLetter(lines) == IF lines = <<>> THEN 0 ELSE lines[Len(lines)].last

ASSUME DocumentsAssumption ==
    /\ Window \in Nat
    /\ \A d \in Documents :
         LET n == LastLetter(d.lines) IN
           /\ d.kind \in Kinds
           /\ d.gap \in [1..n -> Ranks] /\ d.at \in [1..n -> Nat]
           /\ \A i \in 1..(n - 1) : d.at[i + 1] = d.at[i] + 1 + Width[d.gap[i]]
           /\ d.lines \in Seq(Line)
           /\ \A k \in 1..Len(d.lines) :
                /\ d.lines[k].first = IF k = 1 THEN 1 ELSE d.lines[k - 1].last + 1
                /\ d.lines[k].last \in (d.lines[k].first - 1)..n
                /\ \A j \in 1..(k - 1) : /\ d.lines[j].last < d.lines[k].first
                                        /\ d.lines[j].page <= d.lines[k].page
                /\ d.kind # "pdf" => d.lines[k].page = 1
                /\ d.kind = "txt" => d.lines[k].tag = PARAGRAPH_TAG

VARIABLES
    pc,        \* "reading", "splitting", then "parsed" or "failed"
    line,      \* the next line
    held,      \* the first line of the buffer, which ends before the next line
    size,      \* characters in the buffer
    chunk_id,  \* the parser's own counter
    payloads

vars == <<doc, call, pc, line, held, size, chunk_id, payloads>>

Lines == doc.lines
Letters == DOMAIN doc.gap
Solo(k) == Lines[k].tag # PARAGRAPH_TAG
Held == held < line

Init ==
    /\ doc \in Documents
    /\ frames = <<>> /\ from = 1 /\ tokens = 0 /\ low = 0 /\ chunks = <<>>
    /\ pc = "reading" /\ line = 1 /\ held = 1 /\ size = 0
    /\ chunk_id = 0 /\ payloads = <<>>

\* Mutant of MustFlush: a page break does not.
MustFlushTags ==
    /\ Held
    /\ line <= Len(Lines) =>
       \/ Solo(line)
       \/ doc.kind = "txt"
       \/ doc.kind = "docx" /\ size > Window

\* What flushes the buffer: the end, a heading (docx) or a header, footer or
\* empty page (pdf), a full buffer, another page.
MustFlush ==
    /\ Held
    /\ line <= Len(Lines) =>
       \/ Solo(line)
       \/ doc.kind = "txt"
       \/ doc.kind = "docx" /\ size > Window
       \/ doc.kind = "pdf" /\ Lines[line].page # Lines[held].page

\* A line of running text joins the buffer.
Buffer ==
    /\ pc = "reading" /\ line <= Len(Lines) /\ ~Solo(line) /\ ~MustFlush
    /\ line' = line + 1
    /\ size' = size + Chars(Lines[line].first, Lines[line].last)
    /\ UNCHANGED <<doc, call, pc, held, chunk_id, payloads>>

\* A line that is a payload of its own.
Single ==
    /\ pc = "reading" /\ line <= Len(Lines) /\ Solo(line) /\ ~Held
    /\ payloads' = Append(payloads,
         [id |-> chunk_id, tag |-> Lines[line].tag, page |-> Lines[line].page,
          first |-> Lines[line].first, last |-> Lines[line].last, tokens |-> 0])
    /\ chunk_id' = chunk_id + 1
    /\ line' = line + 1 /\ held' = line + 1
    /\ UNCHANGED <<doc, call, pc, size>>

\* The joined buffer goes to chunk_text.
Flush ==
    /\ pc = "reading" /\ MustFlush
    /\ Begin(Lines[held].first, Lines[line - 1].last)
    /\ pc' = "splitting"
    /\ UNCHANGED <<doc, line, held, size, chunk_id, payloads>>

\* parse_txt adds the payloads so far to a counter that already is their
\* number; the other parsers count.
FirstId == IF doc.kind = "txt" THEN chunk_id + Len(payloads) ELSE chunk_id

\* Mutant of Number: the counter is not carried to the next buffer.
NumberAnew ==
    /\ pc = "splitting" /\ Idle
    /\ payloads' = payloads \o [i \in 1..Len(chunks) |->
         [id |-> FirstId + i - 1, tag |-> PARAGRAPH_TAG, page |-> Lines[held].page,
          first |-> chunks[i].first, last |-> chunks[i].last, tokens |-> chunks[i].tokens]]
    /\ chunks' = <<>>
    /\ pc' = "reading" /\ held' = line /\ size' = 0
    /\ UNCHANGED <<doc, frames, from, tokens, low, line, chunk_id>>

\* The chunks that came back, numbered, with the page of the buffer.
Number ==
    /\ pc = "splitting" /\ Idle
    /\ payloads' = payloads \o [i \in 1..Len(chunks) |->
         [id |-> FirstId + i - 1, tag |-> PARAGRAPH_TAG, page |-> Lines[held].page,
          first |-> chunks[i].first, last |-> chunks[i].last, tokens |-> chunks[i].tokens]]
    /\ chunk_id' = IF doc.kind = "txt" THEN Len(payloads') ELSE chunk_id + Len(chunks)
    /\ chunks' = <<>>
    /\ pc' = "reading" /\ held' = line /\ size' = 0
    /\ UNCHANGED <<doc, frames, from, tokens, low, line>>

Chunk ==
    /\ pc = "splitting" /\ Split
    /\ UNCHANGED <<doc, pc, line, held, size, chunk_id, payloads>>

End ==
    /\ pc = "reading" /\ line > Len(Lines) /\ ~Held
    /\ pc' = "parsed"
    /\ UNCHANGED <<doc, call, line, held, size, chunk_id, payloads>>

\* A read that fails, a container that cannot be opened, the soft time
\* limit: the exception leaves the parser and nothing is returned.
Fails ==
    /\ pc \in {"reading", "splitting"}
    /\ pc' = "failed" /\ frames' = <<>> /\ chunks' = <<>> /\ payloads' = <<>>
    /\ UNCHANGED <<doc, from, tokens, low, line, held, size, chunk_id>>

Parse == Buffer \/ Single \/ Flush \/ Chunk \/ Number \/ End
Next == Parse \/ Fails

Spec == Init /\ [][Next]_vars

\* The parser runs on.  Nothing obliges it to fail.
FairSpec == Spec /\ WF_vars(Parse)

(***************************************************************************)
(* Properties                                                              *)
(***************************************************************************)

Run == [first : Nat \ {0}, last : Nat, tokens : Nat]
Frame == [rank : Ranks, next : Nat \ {0}, last : Nat]
Payload == [id : Nat, tag : Tags, page : Nat \ {0},
            first : Nat \ {0}, last : Nat, tokens : Nat]

\* The type invariant.
TypeOK ==
    /\ doc.lines \in Seq(Line)
    /\ frames \in Seq(Frame) /\ chunks \in Seq(Run)
    /\ from \in Nat \ {0} /\ tokens \in Nat /\ low \in Nat
    /\ pc \in {"reading", "splitting", "parsed", "failed"}
    /\ line \in 1..(Len(Lines) + 1) /\ held \in 1..line
    /\ size \in Int /\ chunk_id \in Nat
    /\ payloads \in Seq(Payload)

Has(run, x) == run.first <= x /\ x <= run.last
Empty(run) == run.first > run.last

\* Every letter of a line that has left the buffer is in a payload: neither
\* a seam between chunks, nor the tail that is carried over, nor an oversized
\* segment, nor the flush of a buffer loses a letter.  A line of its own has
\* its payload, a page without a text layer too.
LettersKept ==
    pc # "failed" =>
        \A k \in 1..(held - 1) :
            /\ \A x \in Letters :
                  Has(Lines[k], x) => \E i \in 1..Len(payloads) : Has(payloads[i], x)
            /\ Solo(k) => \E i \in 1..Len(payloads) :
                  payloads[i].page = Lines[k].page /\ payloads[i].tag = Lines[k].tag

\* What the seams do lose: the full stop of a sentence is in a payload that
\* goes on behind it, or it is dropped between two payloads of which one
\* ends before it and the other begins behind it.
SeamDrops(x) == \E i, j \in 1..Len(payloads) :
    payloads[i].last = x /\ payloads[j].first = x + 1
StopsKept ==
    pc # "failed" =>
        \A k \in 1..(held - 1), x \in Letters :
            Has(Lines[k], x) /\ x # Lines[k].last /\ doc.gap[x] = FULL_STOP =>
                \/ \E i \in 1..Len(payloads) : Has(payloads[i], x) /\ Has(payloads[i], x + 1)
                \/ SeamDrops(x)

\* The payloads have the text of the document, but for the full stops that
\* the seams drop.
OnlySeamStopsLost == LettersKept /\ StopsKept

\* No payload mixes pages or structural roles: headers, footers and headings
\* stay out of the running text, and a chunk stays on its page.
StructureKept ==
    \A i \in 1..Len(payloads), k \in 1..Len(Lines), x \in Letters :
        Has(payloads[i], x) /\ Has(Lines[k], x) =>
            payloads[i].page = Lines[k].page /\ payloads[i].tag = Lines[k].tag

\* The payloads follow the text, and none is a part of one before it.
EndsAdvance ==
    \A i \in 1..(Len(payloads) - 1) :
        /\ payloads[i].last <= payloads[i + 1].last
        /\ ~Empty(payloads[i + 1]) => payloads[i].last < payloads[i + 1].last

\* A payload that its successor repeats from the first letter on is no
\* larger than the overlap.
RepeatsAreOverlap ==
    \A i \in 1..(Len(payloads) - 1) :
        /\ ~Empty(payloads[i]) /\ payloads[i + 1].first <= payloads[i].first
        => payloads[i].tokens <= Overlap

\* A reader of the payloads in their order reads the text in its order.
InSourceOrder == EndsAdvance /\ RepeatsAreOverlap

\* The numbers of the payloads of a document ascend, so that no two share
\* one; without gaps for docx and pdf.  (For txt see FirstId.)
NumberedInOrder ==
    \A i \in 1..Len(payloads) :
        /\ doc.kind # "txt" => payloads[i].id = i - 1
        /\ i > 1 => payloads[i - 1].id < payloads[i].id

\* By the chunker's own count a chunk exceeds the target by the overlap at
\* most: the tail is carried over before a segment that may fill the target.
CountedWithinBudget ==
    \A i \in 1..Len(payloads) : payloads[i].tokens <= Target + Overlap

\* The descent through the separators and the loops end, whatever the text.
ParsingEnds == <>(pc \in {"parsed", "failed"})
=============================================================================
