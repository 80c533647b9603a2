-------------------------- MODULE MCDocumentChunks --------------------------
(***************************************************************************)
(* DocumentChunks for TLC: all texts of a few letters, as a text file cut  *)
(* into windows, and as the paragraphs or lines of a DOCX or PDF.          *)
(***************************************************************************)
EXTENDS DocumentChunks, FiniteSets

\* Where the letters of a text with these separators stand.
At(gap) ==
    LET at[i \in DOMAIN gap] ==
            IF i = 1 THEN 1 ELSE at[i - 1] + 1 + Width[gap[i - 1]]
    IN  at

\* The texts of n letters; nothing follows the last letter.
Texts(n, ranks) == {Append(g, 0) : g \in [1..(n - 1) -> ranks]}

\* The runs of letters that begin at these letters.
Runs(starts, n) ==
    LET s == SelectSeq([i \in 1..n |-> i], LAMBDA i : i \in starts)
    IN  [k \in 1..Len(s) |-> [first |-> s[k],
                              last |-> IF k = Len(s) THEN n ELSE s[k + 1] - 1]]

\* A window begins with the letters whose positions a multiple of the window
\* size separates from the letter before.
Windows(gap) ==
    LET at == At(gap)
    IN  {1} \cup {i \in 2..Len(gap) : (at[i] - 1) \div Window # (at[i - 1] - 1) \div Window}
Paragraphs(gap) == {1} \cup {i \in 2..Len(gap) : gap[i - 1] = 3}

Document(kind, gap, lines) ==
    [kind |-> kind, gap |-> gap, at |-> At(gap), lines |-> lines]

TextFiles(texts) ==
    {LET runs == Runs(Windows(g), Len(g))
     IN  Document("txt", g, [k \in DOMAIN runs |->
             [tag |-> PARAGRAPH_TAG, page |-> 1, first |-> runs[k].first, last |-> runs[k].last]])
     : g \in texts}

\* Paragraphs with any tags.
Docx(texts) ==
    UNION {LET runs == Runs(Paragraphs(g), Len(g))
           IN  {Document("docx", g, [k \in DOMAIN runs |->
                   [tag |-> t[k], page |-> 1, first |-> runs[k].first, last |-> runs[k].last]])
                : t \in [DOMAIN runs -> {PARAGRAPH_TAG, "header"}]}
           : g \in texts}

\* Lines with any tags, page breaks before any line, and a page without text
\* before the last line, behind it or nowhere.
Pdf(texts) ==
    UNION {LET runs == Runs(Paragraphs(g), Len(g))
               m == Len(runs)
               page(b, k) == 1 + Cardinality({j \in b : j <= k})
               text(t, b) == [k \in 1..m |->
                   [tag |-> t[k], page |-> page(b, k),
                    first |-> runs[k].first, last |-> runs[k].last]]
               scan(p, f) == [tag |-> "missing_text_layer", page |-> p,
                              first |-> f, last |-> f - 1]
           IN  UNION {{Document("pdf", g, text(t, b)),
                       Document("pdf", g, Append(text(t, b), scan(page(b, m) + 1, Len(g) + 1))),
                       Document("pdf", g, SubSeq(text(t, b), 1, m - 1) \o
                           <<scan(page(b, m) + 1, runs[m].first),
                             [text(t, b)[m] EXCEPT !.page = @ + 2]>>)}
                      : t \in [1..m -> {PARAGRAPH_TAG, "footer"}], b \in SUBSET (2..m)}
           : g \in texts}

\* Sentences that begin with a word above the target: two levels down.
LongWords == {<<0, 0, 0, 0, 0>> \o g : g \in Texts(4, {0, 1, 2})}

SmallDocuments ==
    UNION {TextFiles(Texts(7, {0, 1, 4})), Docx(Texts(6, {0, 2, 3})),
           Docx(LongWords), Pdf(Texts(4, {1, 3}))}
=============================================================================
