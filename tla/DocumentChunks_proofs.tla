----------------------- MODULE DocumentChunks_proofs -----------------------
(***************************************************************************)
(* Proofs about the chunker and the parsers, for every document, target,   *)
(* overlap and window.                                                     *)
(***************************************************************************)
EXTENDS DocumentChunks, SequenceTheorems, WellFoundedInduction, TLAPS

N == LastLetter(Lines)

\* The letters of the buffer.
Lo == Lines[held].first
Hi == Lines[line - 1].last

\* The lines of the buffer are running text of one page.
BufferOK ==
    \A k \in held..(line - 1) :
        /\ ~Solo(k) /\ Lines[k].page = Lines[held].page
        /\ Lo <= Lines[k].first /\ Lines[k].last <= Hi

\* Calls of recursive_split are nested: the caller goes on where the call
\* ends.  At the last separator no gap holds a stronger one.
Nested(f) ==
    /\ f # <<>> => f[1].last = Hi
    /\ \A i \in 1..Len(f) :
         /\ Lo <= f[i].next /\ f[i].next <= f[i].last + 1 /\ f[i].last <= Hi
         /\ f[i].rank = 0 => \A x \in f[i].next..(f[i].last - 1) : doc.gap[x] = 0
         /\ i > 1 => f[i].last + 1 = f[i - 1].next

\* The list "current" ends at the next letter and counts its tokens; in the
\* overlap loop the segment that comes next is not oversized.
CurrentOK ==
    ~Idle =>
        /\ Lo <= from /\ from <= Top.next
        /\ low # 0 => /\ Lo <= low
                      /\ \A e \in Top.next..Top.last : Segment(e) => ~TooLarge(e)
        /\ tokens <= IF low = 0 THEN Target + Overlap ELSE Overlap
        /\ low = 0 /\ from = Top.next => tokens = 0

\* Runs of the buffer within the budget, with ascending ends; that end before
\* b; that hold every letter before b.
RunsOK(c) ==
    \A i \in 1..Len(c) :
        /\ Lo <= c[i].first /\ c[i].first <= c[i].last /\ c[i].last <= Hi
        /\ c[i].tokens <= Target + Overlap
        /\ \A j \in 1..(i - 1) : c[j].last < c[i].last
EndBefore(c, b) == \A i \in 1..Len(c) : c[i].last < b
Covers(c, b) == \A x \in Lo..Hi : x < b => \E i \in 1..Len(c) : Has(c[i], x)

\* The chunks end before the next letter, and "current" behind them.
ChunksOK ==
    /\ RunsOK(chunks)
    /\ ~Idle => /\ EndBefore(chunks, Top.next)
                /\ low = 0 /\ from < Top.next => EndBefore(chunks, Top.next - 1)

\* What lies before "current" is in a chunk.
CoveredOK ==
    Covers(chunks, IF Idle THEN Hi + 1 ELSE IF low = 0 THEN from ELSE Top.next)

CallOK ==
    pc = "splitting" =>
        held < line /\ Nested(frames) /\ CurrentOK /\ ChunksOK /\ CoveredOK

ReadingOK == pc # "splitting" => Idle /\ chunks = <<>>

\* The payloads end before the buffer, and their ends ascend.
EndsOK ==
    \A i \in 1..Len(payloads) :
        /\ held <= Len(Lines) => payloads[i].last < Lo
        /\ \A j \in 1..(i - 1) :
             /\ payloads[j].last <= payloads[i].last
             /\ ~Empty(payloads[i]) => payloads[j].last < payloads[i].last

\* The counter is the number of payloads.
IdsOK ==
    /\ pc # "failed" => chunk_id = Len(payloads)
    /\ \A i \in 1..Len(payloads) :
         /\ payloads[i].id < 2 * Len(payloads)
         /\ \A j \in 1..(i - 1) : payloads[j].id < payloads[i].id
         /\ doc.kind # "txt" => payloads[i].id = i - 1

DcInv ==
    /\ doc \in Documents /\ TypeOK /\ ReadingOK /\ BufferOK /\ CallOK
    /\ LettersKept /\ StructureKept /\ CountedWithinBudget /\ EndsOK /\ IdsOK

\* What the assumption says of the document.
LEMMA DocumentFacts ==
    ASSUME doc \in Documents
    PROVE  /\ N \in Nat /\ Letters = 1..N
           /\ doc.gap \in [Letters -> Ranks] /\ doc.at \in [Letters -> Nat]
           /\ Lines \in Seq(Line) /\ doc.kind \in Kinds
           /\ \A k \in 1..Len(Lines) :
                /\ Lines[k] \in Line
                /\ Lines[k].first <= Lines[k].last + 1 /\ Lines[k].last <= N
                /\ k > 1 => Lines[k].first = Lines[k - 1].last + 1
                /\ \A j \in 1..(k - 1) : Lines[j].last < Lines[k].first
                /\ doc.kind # "pdf" => Lines[k].page = 1
                /\ doc.kind = "txt" => ~Solo(k)
<1>1. doc.lines \in Seq(Line) /\ doc.kind \in Kinds
  BY DocumentsAssumption
<1>2. \A k \in 1..Len(Lines) : Lines[k] \in Line
  BY <1>1, ElementOfSeq DEF Lines
<1>3. N \in Nat
  <2>1. CASE Lines = <<>>
    BY <2>1 DEF N, LastLetter
  <2>2. CASE Lines # <<>>
    BY <1>1, <1>2, <2>2, EmptySeq DEF N, LastLetter, Line, Lines
  <2> QED
    BY <2>1, <2>2
<1>4. doc.gap \in [1..N -> Ranks] /\ doc.at \in [1..N -> Nat]
  BY DocumentsAssumption DEF N, Lines
<1>5. \A k \in 1..Len(Lines) :
        /\ Lines[k].first = IF k = 1 THEN 1 ELSE Lines[k - 1].last + 1
        /\ Lines[k].last \in (Lines[k].first - 1)..N
        /\ \A j \in 1..(k - 1) : Lines[j].last < Lines[k].first
        /\ doc.kind # "pdf" => Lines[k].page = 1
        /\ doc.kind = "txt" => Lines[k].tag = PARAGRAPH_TAG
  BY DocumentsAssumption DEF N, Lines
<1>6. \A k \in 1..Len(Lines) :
        Lines[k].first <= Lines[k].last + 1 /\ Lines[k].last <= N
  BY <1>2, <1>3, <1>5 DEF Line
<1> QED
  BY <1>1, <1>2, <1>3, <1>4, <1>5, <1>6 DEF Letters, Solo, Lines

\* Token counts are natural numbers.
LEMMA TokensNat ==
    ASSUME NEW n \in Int
    PROVE  Tokens(n, CharsPerToken) \in Nat
<1>1. n \div CharsPerToken \in Int /\ n % CharsPerToken \in Int
  BY ChunkerAssumption
<1> QED
  BY <1>1 DEF Tokens, AtLeastOne, Rounded

\* Characters and tokens of a run of letters are numbers.
LEMMA TokenLenNat ==
    ASSUME doc \in Documents, NEW a \in 1..(N + 1), NEW b \in 0..N
    PROVE  Chars(a, b) \in Int /\ TokenLen(a, b) \in Nat
<1>1. CASE a > b
  BY <1>1 DEF TokenLen, Chars
<1>2. CASE ~(a > b)
  <2>1. N \in Nat /\ a \in Letters /\ b \in Letters
    BY <1>2, DocumentFacts
  <2>2. doc.at[a] \in Nat /\ doc.at[b] \in Nat
    BY <2>1, DocumentFacts
  <2>3. Chars(a, b) \in Int
    BY <1>2, <2>2 DEF Chars
  <2> QED
    BY <1>2, <2>3, TokensNat DEF TokenLen
<1> QED
  BY <1>1, <1>2

\* A letter is one token.
LEMMA OneLetter ==
    ASSUME doc \in Documents, NEW x \in 1..N
    PROVE  TokenLen(x, x) = 1
<1>1. N \in Nat /\ doc.at[x] \in Nat
  BY DocumentFacts
<1>2. Chars(x, x) = 1
  BY <1>1 DEF Chars
<1>3. Rounded(1, CharsPerToken) \in 0..1
  <2>1. CASE CharsPerToken = 1
    BY <2>1 DEF Rounded
  <2>2. CASE CharsPerToken > 1
    <3>1. CharsPerToken \in Nat
      BY ChunkerAssumption
    <3>2. 1 \div CharsPerToken = 0 /\ 1 % CharsPerToken = 1
      BY <2>2, <3>1
    <3> QED
      BY <2>2, <3>1, <3>2 DEF Rounded
  <2> QED
    BY <2>1, <2>2, ChunkerAssumption
<1>4. AtLeastOne(Rounded(1, CharsPerToken)) = 1
  BY <1>3 DEF AtLeastOne
<1> QED
  BY <1>1, <1>2, <1>4 DEF TokenLen, Tokens

\* The overlap is at least a token.
LEMMA OverlapNat == Overlap \in Nat \ {0}
<1>1. (Target * OverlapPercent) \div 100 \in Int
  BY ChunkerAssumption
<1> QED
  BY <1>1 DEF Overlap, AtLeastOne

Ready ==
    /\ doc \in Documents /\ TypeOK /\ pc = "splitting" /\ ~Idle
    /\ held < line /\ Nested(frames) /\ CurrentOK /\ ChunksOK /\ CoveredOK

SameBuffer == UNCHANGED <<doc, pc, line, held, size, chunk_id, payloads>>

\* The bounds of the buffer and of the call on top.
LEMMA BufferBounds ==
    ASSUME doc \in Documents, TypeOK, held < line
    PROVE  /\ N \in Nat /\ held \in 1..Len(Lines) /\ line - 1 \in 1..Len(Lines)
           /\ Lo \in 1..(N + 1) /\ Hi \in 0..N
<1>1. Len(Lines) \in Nat
  BY DocumentFacts, LenProperties
<1>2. held \in 1..Len(Lines) /\ line - 1 \in 1..Len(Lines)
  BY <1>1 DEF TypeOK
<1>3. Lines[held] \in Line /\ Lines[held].first <= Lines[held].last + 1 /\ Lines[held].last <= N
  BY <1>2, DocumentFacts
<1>4. Lines[line - 1] \in Line /\ Lines[line - 1].last <= N
  BY <1>2, DocumentFacts
<1>5. N \in Nat
  BY DocumentFacts
<1>6. Lines[held].first \in 1..(N + 1) /\ Lines[line - 1].last \in 0..N
  BY <1>3, <1>4, <1>5 DEF Line
<1> QED
  BY <1>2, <1>5, <1>6 DEF Lo, Hi

\* What the invariant says of the call on top.
LEMMA TopFacts ==
    ASSUME Ready
    PROVE  /\ N \in Nat /\ Lo \in 1..(N + 1) /\ Hi \in 0..N
           /\ Len(frames) \in Nat \ {0} /\ Top \in Frame
           /\ Top.next \in Lo..(N + 1) /\ Top.last \in 0..Hi
           /\ Top.next <= Top.last + 1
           /\ Top.rank = 0 => \A x \in Top.next..(Top.last - 1) : doc.gap[x] = 0
           /\ from \in Lo..Top.next /\ tokens \in Nat /\ low \in Nat
<1>1. N \in Nat /\ Lo \in 1..(N + 1) /\ Hi \in 0..N
  BY BufferBounds DEF Ready
<1>2. frames \in Seq(Frame) /\ frames # <<>>
  BY DEF Ready, TypeOK, Idle
<1>3. Len(frames) \in Nat \ {0}
  BY <1>2, EmptySeq
<1>4. Len(frames) \in 1..Len(frames)
  BY <1>3
<1>5. Top \in Frame
  BY <1>2, <1>4, ElementOfSeq DEF Top
<1>6. /\ Lo <= Top.next /\ Top.next <= Top.last + 1 /\ Top.last <= Hi
      /\ Top.rank = 0 => \A x \in Top.next..(Top.last - 1) : doc.gap[x] = 0
  BY <1>4 DEF Ready, Nested, Top
<1> QED
  BY <1>1, <1>3, <1>5, <1>6 DEF Frame, Ready, CurrentOK, TypeOK

\* A segment has a weight, and only one segment comes next; one that is not
\* oversized is within the target.
LEMMA SegmentFacts ==
    ASSUME Ready, NEW e \in Top.next..Top.last
    PROVE  /\ Weight(e) \in Nat
           /\ Segment(e) /\ ~TooLarge(e) => Weight(e) <= Target
           /\ Segment(e) => \A g \in Top.next..Top.last : Segment(g) => g = e
<1>1. Weight(e) \in Nat
  <2>1. Top.next \in 1..(N + 1) /\ e \in 0..N
    BY TopFacts
  <2> QED
    BY <2>1, TokenLenNat DEF Weight, Ready
<1>2. ASSUME Segment(e), ~TooLarge(e)
      PROVE  Weight(e) <= Target
  <2>1. CASE Top.rank # 0
    BY <1>1, <1>2, <2>1, ChunkerAssumption DEF TooLarge
  <2>2. CASE Top.rank = 0
    <3>1. e = Top.next
      <4>1. Top.next \in Int /\ Top.last \in Int
        BY TopFacts
      <4>2. SUFFICES ASSUME e # Top.next PROVE FALSE
        OBVIOUS
      <4>3. Top.next \in Top.next..(e - 1) /\ Top.next \in Top.next..(Top.last - 1)
        BY <4>1, <4>2
      <4>4. doc.gap[Top.next] = 0
        BY <2>2, <4>3, TopFacts
      <4>5. doc.gap[Top.next] # 0
        BY <1>2, <2>2, <4>3 DEF Segment
      <4> QED
        BY <4>4, <4>5
    <3>2. e \in 1..N
      BY TopFacts
    <3> QED
      BY <3>1, <3>2, OneLetter, ChunkerAssumption DEF Weight, Ready
  <2> QED
    BY <2>1, <2>2
<1>3. ASSUME Segment(e), NEW g \in Top.next..Top.last, Segment(g)
      PROVE  g = e
  BY <1>3, TopFacts, SMTT(30) DEF Segment
<1> QED
  BY <1>1, <1>2, <1>3

\* Moving on to the next segment keeps the calls nested.
LEMMA AdvanceFacts ==
    ASSUME Ready, NEW e \in Top.next..Top.last, NEW f, f = Advanced(e)
    PROVE  /\ f \in Seq(Frame) /\ Nested(f) /\ Len(f) = Len(frames)
           /\ f[Len(f)].next = e + 1
           /\ f[Len(f)].last = Top.last /\ f[Len(f)].rank = Top.rank
<1> DEFINE L == Len(frames)
           t == [Top EXCEPT !.next = e + 1]
<1>1. /\ frames \in Seq(Frame) /\ L \in 1..L /\ 1 \in 1..L /\ L \in Nat
      /\ Top \in Frame /\ e \in Nat
  BY TopFacts, SMTT(30) DEF Ready, TypeOK, Frame
<1>2. t \in Frame /\ t.next = e + 1 /\ t.last = Top.last /\ t.rank = Top.rank
  <2>1. Top \in [rank : Ranks, next : Nat \ {0}, last : Nat] /\ e + 1 \in Nat \ {0}
    BY <1>1 DEF Frame
  <2>2. t \in [rank : Ranks, next : Nat \ {0}, last : Nat]
    BY <2>1
  <2>3. t.next = e + 1 /\ t.last = Top.last /\ t.rank = Top.rank
    BY <2>1
  <2> QED
    BY <2>2, <2>3 DEF Frame
<1>3. f = [frames EXCEPT ![L] = t]
  BY DEF Advanced, Top
<1> HIDE DEF t
<1>4. /\ f \in Seq(Frame) /\ Len(f) = L
      /\ \A i \in 1..L : f[i] = IF i = L THEN t ELSE frames[i]
  BY <1>1, <1>2, <1>3, ExceptSeq
<1>5. frames[L] = Top
  BY DEF Top
<1>6. f[1].last = Hi
  BY <1>1, <1>2, <1>4, <1>5 DEF Ready, Nested, Idle
<1>7. ASSUME NEW i \in 1..L
      PROVE  /\ Lo <= f[i].next /\ f[i].next <= f[i].last + 1 /\ f[i].last <= Hi
             /\ f[i].rank = 0 => \A x \in f[i].next..(f[i].last - 1) : doc.gap[x] = 0
             /\ i > 1 => f[i].last + 1 = f[i - 1].next
  <2>1. /\ Lo <= frames[i].next /\ frames[i].next <= frames[i].last + 1
        /\ frames[i].last <= Hi
        /\ frames[i].rank = 0 =>
              \A x \in frames[i].next..(frames[i].last - 1) : doc.gap[x] = 0
        /\ i > 1 => frames[i].last + 1 = frames[i - 1].next
    BY DEF Ready, Nested
  <2>2. i > 1 => i - 1 \in 1..L /\ i - 1 # L
    BY <1>1
  <2>3. i > 1 => f[i].last + 1 = f[i - 1].next
    BY <1>2, <1>4, <1>5, <2>1, <2>2
  <2>4. CASE i # L
    BY <1>4, <2>1, <2>3, <2>4
  <2>5. CASE i = L
    <3>1. f[i] = t
      BY <1>4, <2>5
    <3>2. Top.next \in Nat /\ e + 1 <= Top.last + 1 /\ Top.next <= e + 1
      BY TopFacts, SMTT(30)
    <3>3. Lo <= e + 1 /\ Top.last <= Hi
      BY <3>2, TopFacts
    <3>4. Top.rank = 0 => \A x \in (e + 1)..(Top.last - 1) : doc.gap[x] = 0
      BY TopFacts, SMTT(30)
    <3> QED
      BY <1>2, <2>3, <3>1, <3>2, <3>3, <3>4
  <2> QED
    BY <2>4, <2>5
<1> QED
  BY <1>1, <1>2, <1>4, <1>6, <1>7 DEF Nested

\* Closing "current": the runs end before the next letter and hold every
\* letter before it.
LEMMA CloseFacts ==
    ASSUME Ready, low = 0, NEW c, c = WithCurrent
    PROVE  c \in Seq(Run) /\ RunsOK(c) /\ EndBefore(c, Top.next) /\ Covers(c, Top.next)
<1>1. /\ chunks \in Seq(Run) /\ RunsOK(chunks) /\ EndBefore(chunks, Top.next)
      /\ from < Top.next => EndBefore(chunks, Top.next - 1)
      /\ Covers(chunks, from)
  BY DEF Ready, TypeOK, ChunksOK, CoveredOK
<1>2. CASE from = Top.next
  <2>1. c = chunks
    BY <1>2, TopFacts DEF WithCurrent
  <2> QED
    BY <1>1, <1>2, <2>1
<1>3. CASE from < Top.next
  <2>1. c = Append(chunks, Current)
    BY <1>3 DEF WithCurrent
  <2>2. Current \in Run /\ Current.first = from /\ Current.last = Top.next - 1
                        /\ Current.tokens = tokens
    BY <1>3, TopFacts DEF Current, Run
  <2>3. tokens <= Target + Overlap
    BY DEF Ready, CurrentOK
  <2> DEFINE m == Len(chunks)
  <2>4. /\ c \in Seq(Run) /\ Len(c) = m + 1 /\ m \in Nat
        /\ \A i \in 1..m : c[i] = chunks[i]
        /\ c[m + 1] = Current
    BY <1>1, <2>1, <2>2, AppendProperties, LenProperties
  <2> HIDE DEF m
  <2>5. \A i \in 1..m : chunks[i].last < Top.next - 1 /\ chunks[i] \in Run
    BY <1>1, <1>3, ElementOfSeq DEF EndBefore, m
  <2>6. RunsOK(c)
    <3>1. ASSUME NEW i \in 1..m
          PROVE  /\ Lo <= c[i].first /\ c[i].first <= c[i].last /\ c[i].last <= Hi
                 /\ c[i].tokens <= Target + Overlap
                 /\ \A j \in 1..(i - 1) : c[j].last < c[i].last
      <4>1. \A j \in 1..(i - 1) : j \in 1..m
        BY <2>4
      <4> QED
        BY <1>1, <2>4, <4>1 DEF RunsOK, m
    <3>2. /\ Lo <= from /\ from <= Top.next - 1 /\ Top.next - 1 <= Hi
      BY <1>3, TopFacts
    <3>3. \A i \in 1..(m + 1) : i \in 1..m \/ i = m + 1
      BY <2>4
    <3>4. \A j \in 1..(m + 1 - 1) : c[j].last < c[m + 1].last
      BY <2>2, <2>4, <2>5
    <3> QED
      BY <2>2, <2>3, <2>4, <3>1, <3>2, <3>3, <3>4 DEF RunsOK
  <2>7. EndBefore(c, Top.next)
    <3>1. \A i \in 1..(m + 1) : i \in 1..m \/ i = m + 1
      BY <2>4
    <3>2. Top.next \in Int /\ \A i \in 1..m : chunks[i].last \in Int
      BY <2>5, TopFacts DEF Run
    <3> QED
      BY <2>2, <2>4, <2>5, <3>1, <3>2 DEF EndBefore
  <2>8. Covers(c, Top.next)
    <3>1. SUFFICES ASSUME NEW x \in Lo..Hi, x < Top.next
                   PROVE  \E i \in 1..Len(c) : Has(c[i], x)
      BY DEF Covers
    <3>2. CASE x < from
      <4>1. PICK i \in 1..m : Has(chunks[i], x)
        BY <1>1, <3>2 DEF Covers, m
      <4> QED
        BY <2>4, <4>1
    <3>3. CASE ~(x < from)
      <4>1. Has(c[m + 1], x)
        BY <2>2, <2>4, <3>1, <3>3, TopFacts DEF Has
      <4> QED
        BY <2>4, <4>1
    <3> QED
      BY <3>2, <3>3
  <2> QED
    BY <2>4, <2>6, <2>7, <2>8
<1> QED
  BY <1>2, <1>3, TopFacts

\* What a step of the chunker has to keep.
CallTypeOK ==
    /\ frames \in Seq(Frame) /\ chunks \in Seq(Run)
    /\ from \in Nat \ {0} /\ tokens \in Nat /\ low \in Nat
Kept == CallTypeOK /\ Nested(frames) /\ CurrentOK /\ ChunksOK /\ CoveredOK

\* The buffer does not change while it is split.
LEMMA SameBounds ==
    ASSUME SameBuffer
    PROVE  Lo' = Lo /\ Hi' = Hi /\ doc' = doc
BY DEF SameBuffer, Lo, Hi, Lines

\* The fields of a run.
LEMMA RunTypes ==
    ASSUME NEW c \in Seq(Run), NEW i \in 1..Len(c)
    PROVE  c[i] \in Run /\ c[i].first \in Nat \ {0} /\ c[i].last \in Nat /\ c[i].tokens \in Nat
<1>1. c[i] \in Run
  BY ElementOfSeq
<1> QED
  BY <1>1 DEF Run

\* A segment joins "current".
LEMMA TakeKept ==
    ASSUME Ready, SameBuffer, NEW e \in Top.next..Top.last, Take(e)
    PROVE  Kept'
<1>1. /\ low = 0 /\ Segment(e) /\ ~TooLarge(e) /\ frames' = Advanced(e)
      /\ from < Top.next => tokens + Weight(e) <= Target
      /\ tokens' = tokens + Weight(e) /\ UNCHANGED <<from, low, chunks>>
  BY DEF Take
<1>2. /\ frames' \in Seq(Frame) /\ Nested(frames') /\ Top'.next = e + 1
      /\ frames' # <<>>
  <2>1. Len(frames') = Len(frames) /\ Len(frames) # 0
    BY <1>1, AdvanceFacts, TopFacts
  <2> QED
    BY <1>1, <2>1, AdvanceFacts, EmptySeq DEF Top
<1>3. /\ Top.next \in Nat \ {0} /\ Top.next <= e /\ e \in Nat /\ from <= Top.next
      /\ Lo <= from /\ tokens \in Nat /\ from \in Nat /\ Weight(e) \in Nat
      /\ Weight(e) <= Target
  BY <1>1, TopFacts, SegmentFacts DEF Frame
<1>4. Lo' = Lo /\ Hi' = Hi /\ doc' = doc
  BY SameBounds
<1>5. CallTypeOK'
  BY <1>1, <1>2, <1>3 DEF CallTypeOK, Ready, TypeOK
<1>6. Nested(frames)'
  BY <1>2, <1>4 DEF Nested
<1>7. CurrentOK'
  <2>1. tokens' <= Target + Overlap
    <3>1. from = Top.next => tokens = 0
      BY <1>1 DEF Ready, CurrentOK
    <3> QED
      BY <1>1, <1>3, <3>1, OverlapNat, ChunkerAssumption
  <2> QED
    BY <1>1, <1>2, <1>3, <1>4, <2>1 DEF CurrentOK
<1>8. ChunksOK'
  <2>1. RunsOK(chunks) /\ EndBefore(chunks, Top.next) /\ chunks \in Seq(Run)
    BY DEF Ready, ChunksOK, TypeOK
  <2>2. \A i \in 1..Len(chunks) : chunks[i].last \in Nat
    BY <2>1, RunTypes
  <2>3. EndBefore(chunks, e) /\ EndBefore(chunks, e + 1)
    BY <1>3, <2>1, <2>2, SMTT(30) DEF EndBefore
  <2>4. EndBefore(chunks', Top'.next) /\ EndBefore(chunks', Top'.next - 1)
    <3>1. Top'.next = e + 1 /\ Top'.next - 1 = e
      BY <1>2, <1>3
    <3> QED
      BY <1>1, <2>3, <3>1
  <2>5. RunsOK(chunks)'
    BY <1>1, <1>4, <2>1 DEF RunsOK
  <2> QED
    BY <2>4, <2>5 DEF ChunksOK
<1>9. CoveredOK'
  <2>1. Covers(chunks, from)
    BY <1>1 DEF Ready, CoveredOK
  <2> QED
    BY <1>1, <1>2, <1>4, <2>1 DEF CoveredOK, Covers, Idle
<1> QED
  BY <1>5, <1>6, <1>7, <1>8, <1>9 DEF Kept

\* The chunk is closed.
LEMMA CloseKept ==
    ASSUME Ready, SameBuffer, NEW e \in Top.next..Top.last, Close(e)
    PROVE  Kept'
<1>1. /\ low = 0 /\ Segment(e) /\ ~TooLarge(e) /\ from < Top.next
      /\ chunks' = WithCurrent /\ frames' = frames
      /\ low' = from /\ from' = Top.next /\ tokens' = 0
  BY DEF Close
<1>2. /\ chunks' \in Seq(Run) /\ RunsOK(chunks') /\ EndBefore(chunks', Top.next)
      /\ Covers(chunks', Top.next)
  BY <1>1, CloseFacts
<1>3. /\ Top.next \in Nat \ {0} /\ from \in Nat \ {0} /\ Lo <= from /\ Lo <= Top.next
  BY TopFacts DEF Frame, Ready, TypeOK
<1>4. Lo' = Lo /\ Hi' = Hi /\ doc' = doc /\ Top' = Top
  BY <1>1, SameBounds DEF Top
<1>5. CallTypeOK'
  BY <1>1, <1>2, <1>3 DEF CallTypeOK, Ready, TypeOK
<1>6. Nested(frames)'
  <2>1. Nested(frames)
    BY DEF Ready
  <2> QED
    BY <1>1, <1>4, <2>1 DEF Nested
<1>7. CurrentOK'
  <2>1. \A g \in Top.next..Top.last : Segment(g) => ~TooLarge(g)
    BY <1>1, SegmentFacts
  <2>2. \A g : Segment(g)' <=> Segment(g)
    BY <1>4 DEF Segment
  <2>3. \A g : TooLarge(g)' <=> TooLarge(g)
    BY <1>4 DEF TooLarge, Weight, TokenLen, Chars
  <2> QED
    BY <1>1, <1>3, <1>4, <2>1, <2>2, <2>3, OverlapNat DEF CurrentOK
<1>8. ChunksOK'
  <2>1. RunsOK(chunks)'
    BY <1>2, <1>4 DEF RunsOK
  <2> QED
    BY <1>1, <1>2, <1>3, <1>4, <2>1 DEF ChunksOK
<1>9. CoveredOK'
  BY <1>1, <1>2, <1>3, <1>4 DEF CoveredOK, Covers, Idle, Ready
<1> QED
  BY <1>5, <1>6, <1>7, <1>8, <1>9 DEF Kept

\* A segment of the closed chunk is carried over.
LEMMA KeepTailKept ==
    ASSUME Ready, SameBuffer, NEW p \in low..(from - 1), KeepTail(p)
    PROVE  Kept'
<1>1. /\ low # 0 /\ low' = low /\ frames' = frames /\ chunks' = chunks
      /\ from' = p /\ tokens' = tokens + TokenLen(p, from - 1)
      /\ tokens + TokenLen(p, from - 1) <= Overlap
  BY DEF KeepTail, TailFits
<1>2. Lo <= low /\ \A e \in Top.next..Top.last : Segment(e) => ~TooLarge(e)
  BY <1>1 DEF Ready, CurrentOK
<1>3. /\ Lo \in Nat \ {0} /\ low \in Nat /\ from \in Nat /\ Top.next \in Nat
      /\ from <= Top.next /\ tokens \in Nat /\ from \in 1..(N + 1) /\ N \in Nat
  BY TopFacts, SMTT(30)
<1>4. p \in 1..(N + 1) /\ from - 1 \in 0..N /\ p < Top.next /\ Lo <= p
  BY <1>2, <1>3
<1>5. tokens + TokenLen(p, from - 1) \in Nat
  BY <1>3, <1>4, TokenLenNat DEF Ready
<1>6. Lo' = Lo /\ Hi' = Hi /\ doc' = doc /\ Top' = Top
  BY <1>1, SameBounds DEF Top
<1>7. CallTypeOK'
  BY <1>1, <1>3, <1>4, <1>5 DEF CallTypeOK, Ready, TypeOK
<1>8. Nested(frames)'
  <2>1. Nested(frames)
    BY DEF Ready
  <2> QED
    BY <1>1, <1>6, <2>1 DEF Nested
<1>9. CurrentOK'
  <2>1. \A g : Segment(g)' <=> Segment(g)
    BY <1>6 DEF Segment
  <2>2. \A g : TooLarge(g)' <=> TooLarge(g)
    BY <1>6 DEF TooLarge, Weight, TokenLen, Chars
  <2> QED
    BY <1>1, <1>2, <1>3, <1>4, <1>6, <2>1, <2>2 DEF CurrentOK
<1>10. ChunksOK'
  <2>1. RunsOK(chunks) /\ EndBefore(chunks, Top.next)
    BY DEF Ready, ChunksOK
  <2>2. RunsOK(chunks)'
    BY <1>1, <1>6, <2>1 DEF RunsOK
  <2> QED
    BY <1>1, <1>6, <2>1, <2>2 DEF ChunksOK
<1>11. CoveredOK'
  BY <1>1, <1>6 DEF Ready, CoveredOK, Covers, Idle
<1> QED
  BY <1>7, <1>8, <1>9, <1>10, <1>11 DEF Kept

\* The segment that did not fit follows the tail.
LEMMA EndTailKept ==
    ASSUME Ready, SameBuffer, NEW e \in Top.next..Top.last, EndTail(e)
    PROVE  Kept'
<1>1. /\ low # 0 /\ Segment(e) /\ frames' = Advanced(e)
      /\ tokens' = tokens + Weight(e) /\ low' = 0 /\ UNCHANGED <<from, chunks>>
  BY DEF EndTail
<1>2. /\ frames' \in Seq(Frame) /\ Nested(frames') /\ Top'.next = e + 1
      /\ frames' # <<>>
  <2>1. Len(frames') = Len(frames) /\ Len(frames) # 0
    BY <1>1, AdvanceFacts, TopFacts
  <2> QED
    BY <1>1, <2>1, AdvanceFacts, EmptySeq DEF Top
<1>3. ~TooLarge(e) /\ tokens <= Overlap
  BY <1>1 DEF Ready, CurrentOK
<1>4. /\ Top.next \in Nat \ {0} /\ Top.next <= e /\ e \in Nat /\ from <= Top.next
      /\ Lo <= from /\ tokens \in Nat /\ from \in Nat /\ Weight(e) \in Nat
      /\ Weight(e) <= Target /\ Lo \in Nat /\ Hi \in Nat
  BY <1>1, <1>3, TopFacts, SegmentFacts, SMTT(30) DEF Frame
<1>5. Lo' = Lo /\ Hi' = Hi /\ doc' = doc
  BY SameBounds
<1>6. CallTypeOK'
  BY <1>1, <1>2, <1>4, SMTT(30) DEF CallTypeOK, Ready, TypeOK
<1>7. Nested(frames)'
  BY <1>2, <1>5 DEF Nested
<1>8. CurrentOK'
  <2>1. tokens' <= Target + Overlap
    BY <1>1, <1>3, <1>4, OverlapNat, ChunkerAssumption
  <2> QED
    BY <1>1, <1>2, <1>4, <1>5, <2>1 DEF CurrentOK
<1>9. ChunksOK'
  <2>1. RunsOK(chunks) /\ EndBefore(chunks, Top.next) /\ chunks \in Seq(Run)
    BY DEF Ready, ChunksOK, TypeOK
  <2>2. \A i \in 1..Len(chunks) : chunks[i].last \in Nat
    BY <2>1, RunTypes
  <2>3. EndBefore(chunks, e) /\ EndBefore(chunks, e + 1)
    BY <1>4, <2>1, <2>2 DEF EndBefore
  <2>4. EndBefore(chunks', Top'.next) /\ EndBefore(chunks', Top'.next - 1)
    <3>1. Top'.next = e + 1 /\ Top'.next - 1 = e
      BY <1>2, <1>4
    <3> QED
      BY <1>1, <2>3, <3>1
  <2>5. RunsOK(chunks)'
    BY <1>1, <1>5, <2>1 DEF RunsOK
  <2> QED
    BY <2>4, <2>5 DEF ChunksOK
<1>10. CoveredOK'
  <2>1. Covers(chunks, Top.next)
    BY <1>1 DEF Ready, CoveredOK
  <2>2. Covers(chunks, from)
    BY <1>4, <2>1 DEF Covers
  <2> QED
    BY <1>1, <1>2, <1>5, <2>2 DEF CoveredOK, Covers, Idle
<1> QED
  BY <1>6, <1>7, <1>8, <1>9, <1>10 DEF Kept

\* A gap that the last separator leaves is none.
LEMMA LastSeparator ==
    ASSUME doc \in Documents, NEW a \in 1..(N + 1), NEW b \in 0..N, IsStrongest(0, a, b)
    PROVE  \A x \in a..(b - 1) : doc.gap[x] = 0
<1>1. SUFFICES ASSUME NEW x \in a..(b - 1) PROVE doc.gap[x] = 0
  OBVIOUS
<1>2. x \in Letters
  BY DocumentFacts
<1>3. doc.gap[x] \in Ranks
  BY <1>2, DocumentFacts
<1>4. doc.gap[x] <= 0
  BY DEF IsStrongest
<1> QED
  BY <1>3, <1>4 DEF Ranks

\* An oversized segment: the call it gets is nested in this one.
LEMMA DescendKept ==
    ASSUME Ready, SameBuffer, NEW e \in Top.next..Top.last, Descend(e)
    PROVE  Kept'
<1>1. PICK r \in Ranks :
        /\ IsStrongest(r, Top.next, e)
        /\ frames' = Append(Advanced(e), [rank |-> r, next |-> Top.next, last |-> e])
  BY DEF Descend
<1>2. /\ low = 0 /\ chunks' = WithCurrent
      /\ from' = Top.next /\ tokens' = 0 /\ low' = 0
  BY DEF Descend
<1>3. /\ Top.next \in Nat \ {0} /\ Top.next <= e /\ e \in Nat /\ Lo <= Top.next
      /\ Top.last <= Hi /\ Top.last \in Nat /\ Hi \in 0..N /\ e <= Hi /\ N \in Nat
      /\ e \in 0..N /\ Top.next \in 1..(N + 1)
  BY TopFacts DEF Frame
<1> DEFINE f == Advanced(e)
           t == [rank |-> r, next |-> Top.next, last |-> e]
           L == Len(frames)
<1>4. t \in Frame /\ t.rank = r /\ t.next = Top.next /\ t.last = e
  BY <1>3 DEF Frame
<1>5. /\ f \in Seq(Frame) /\ Nested(f) /\ Len(f) = L /\ L \in Nat \ {0}
      /\ f[L].next = e + 1
  BY AdvanceFacts, TopFacts
<1>6. frames' = Append(f, t)
  BY <1>1
<1> HIDE DEF f, t
<1>7. /\ frames' \in Seq(Frame) /\ Len(frames') = L + 1 /\ frames' # <<>>
      /\ \A i \in 1..L : frames'[i] = f[i]
      /\ frames'[L + 1] = t
  BY <1>4, <1>5, <1>6, AppendProperties
<1>8. Top' = t
  BY <1>7 DEF Top
<1>9. /\ chunks' \in Seq(Run) /\ RunsOK(chunks') /\ EndBefore(chunks', Top.next)
      /\ Covers(chunks', Top.next)
  BY <1>2, CloseFacts
<1>10. Lo' = Lo /\ Hi' = Hi /\ doc' = doc
  BY SameBounds
<1>11. CallTypeOK'
  BY <1>2, <1>3, <1>7, <1>9 DEF CallTypeOK
<1>12. Nested(frames')
  <2>1. frames'[1].last = Hi
    <3>1. 1 \in 1..L /\ f # <<>>
      BY <1>5, EmptySeq
    <3> QED
      BY <1>5, <1>7, <3>1 DEF Nested
  <2>2. ASSUME NEW i \in 1..L
        PROVE  /\ Lo <= frames'[i].next /\ frames'[i].next <= frames'[i].last + 1
               /\ frames'[i].last <= Hi
               /\ frames'[i].rank = 0 =>
                    \A x \in frames'[i].next..(frames'[i].last - 1) : doc.gap[x] = 0
               /\ i > 1 => frames'[i].last + 1 = frames'[i - 1].next
    <3>1. i > 1 => i - 1 \in 1..L
      BY <1>5
    <3> QED
      BY <1>5, <1>7, <3>1 DEF Nested
  <2>3. t.rank = 0 => \A x \in t.next..(t.last - 1) : doc.gap[x] = 0
    BY <1>1, <1>3, <1>4, LastSeparator DEF Ready
  <2>4. t.last + 1 = frames'[L + 1 - 1].next
    <3>1. L + 1 - 1 = L /\ L \in 1..L
      BY <1>5
    <3> QED
      BY <1>4, <1>5, <1>7, <3>1
  <2>5. \A i \in 1..(L + 1) : i \in 1..L \/ i = L + 1
    BY <1>5
  <2>6. Lo <= t.next /\ t.next <= t.last + 1 /\ t.last <= Hi
    BY <1>3, <1>4
  <2> QED
    BY <1>7, <2>1, <2>2, <2>3, <2>4, <2>5, <2>6 DEF Nested
<1>13. Nested(frames)'
  BY <1>10, <1>12 DEF Nested
<1>14. CurrentOK'
  BY <1>2, <1>3, <1>4, <1>8, <1>10, OverlapNat, ChunkerAssumption DEF CurrentOK
<1>15. ChunksOK'
  <2>1. RunsOK(chunks)'
    BY <1>9, <1>10 DEF RunsOK
  <2> QED
    BY <1>2, <1>3, <1>4, <1>8, <1>9, <2>1 DEF ChunksOK
<1>16. CoveredOK'
  BY <1>2, <1>7, <1>9, <1>10 DEF CoveredOK, Covers, Idle
<1> QED
  BY <1>11, <1>13, <1>14, <1>15, <1>16 DEF Kept

\* Without a call in progress the stack is empty.
LEMMA NoFrames ==
    ASSUME NEW f \in Seq(Frame)
    PROVE  Len(f) = 0 <=> f = <<>>
BY EmptySeq

\* When a call returns, its caller goes on behind the letters of the call.
LEMMA ReturnFrames ==
    ASSUME Ready, Return, NEW L, L = Len(frames)
    PROVE  /\ L \in Nat \ {0} /\ frames' \in Seq(Frame) /\ Len(frames') = L - 1
           /\ \A i \in 1..(L - 1) : frames'[i] = frames[i]
           /\ frames' = <<>> <=> L = 1
           /\ L # 1 => Top'.next = Top.next
           /\ Top.next = Top.last + 1
<1>1. frames' = SubSeq(frames, 1, L - 1) /\ Top.next > Top.last
  BY DEF Return
<1>2. /\ frames \in Seq(Frame) /\ L \in Nat \ {0} /\ Top.next \in Nat \ {0}
      /\ Top.next = Top.last + 1
  <2>1. frames \in Seq(Frame)
    BY DEF Ready, TypeOK
  <2>2. Top.next \in Nat \ {0} /\ Top.last \in Nat
    BY TopFacts DEF Frame
  <2>3. Top.next <= Top.last + 1 /\ Len(frames) \in Nat \ {0}
    BY TopFacts
  <2> QED
    BY <1>1, <2>1, <2>2, <2>3
<1>3. /\ frames' \in Seq(Frame) /\ Len(frames') = L - 1
      /\ \A i \in 1..(L - 1) : frames'[i] = frames[i]
  <2>1. \A i \in 1..(L - 1) : frames[i] \in Frame
    BY <1>2, ElementOfSeq
  <2>2. /\ SubSeq(frames, 1, L - 1) \in Seq(Frame)
        /\ Len(SubSeq(frames, 1, L - 1)) = IF 1 <= L - 1 THEN L - 1 - 1 + 1 ELSE 0
        /\ \A i \in 1..(L - 1 - 1 + 1) : SubSeq(frames, 1, L - 1)[i] = frames[1 + i - 1]
    <3>1. 1 \in Int /\ L - 1 \in Int
      BY <1>2
    <3> QED
      BY <2>1, <3>1, SubSeqProperties
  <2> QED
    BY <1>1, <1>2, <2>2
<1>4. frames' = <<>> <=> L = 1
  <2>1. Len(frames') = 0 <=> L = 1
    BY <1>2, <1>3
  <2>2. Len(frames') = 0 <=> frames' = <<>>
    BY <1>3, NoFrames
  <2> QED
    BY <2>1, <2>2
<1>5. L # 1 => Top'.next = Top.next
  <2>1. SUFFICES ASSUME L # 1 PROVE Top'.next = Top.next
    OBVIOUS
  <2>2. L - 1 \in 1..(L - 1) /\ L \in 1..L /\ L > 1
    BY <1>2, <2>1
  <2>3. Top' = frames[L - 1]
    BY <1>3, <2>2 DEF Top
  <2>4. frames[L].last + 1 = frames[L - 1].next
    BY <2>2 DEF Ready, Nested
  <2> QED
    BY <1>2, <2>3, <2>4 DEF Top
<1> QED
  BY <1>2, <1>3, <1>4, <1>5

\* The call on top ends where its caller goes on.
LEMMA ReturnKept ==
    ASSUME Ready, SameBuffer, Return
    PROVE  Kept'
<1>0. PICK L \in Nat \ {0} : L = Len(frames)
  BY TopFacts
<1>1. /\ low = 0 /\ chunks' = WithCurrent
      /\ from' = Top.next /\ tokens' = 0 /\ low' = 0
  BY DEF Return
<1>2. /\ chunks' \in Seq(Run) /\ RunsOK(chunks') /\ EndBefore(chunks', Top.next)
      /\ Covers(chunks', Top.next)
  BY <1>1, CloseFacts
<1>3. /\ L \in Nat \ {0} /\ Top.next \in Nat \ {0}
      /\ Top.next = Top.last + 1 /\ Lo <= Top.next /\ Lo \in Nat /\ Hi \in Nat
  <2>1. Top.next \in Nat \ {0}
    BY TopFacts DEF Frame
  <2>2. Lo <= Top.next /\ Lo \in Nat /\ Hi \in Nat
    BY TopFacts
  <2> QED
    BY <1>0, <2>1, <2>2, ReturnFrames
<1>4. /\ frames' \in Seq(Frame) /\ Len(frames') = L - 1
      /\ \A i \in 1..(L - 1) : frames'[i] = frames[i]
  BY <1>0, ReturnFrames
<1>5. Lo' = Lo /\ Hi' = Hi /\ doc' = doc
  BY SameBounds
<1>6. CallTypeOK'
  BY <1>1, <1>2, <1>3, <1>4 DEF CallTypeOK
<1>7. Nested(frames')
  <2>1. Nested(frames) /\ frames # <<>>
    BY DEF Ready, Idle
  <2>2. frames' # <<>> => 1 \in 1..(L - 1)
    BY <1>3, <1>4, EmptySeq
  <2>3. \A i \in 1..(L - 1) : i \in 1..L /\ (i > 1 => i - 1 \in 1..(L - 1))
    BY <1>3
  <2> QED
    BY <1>0, <1>4, <2>1, <2>2, <2>3 DEF Nested
<1>8. Nested(frames)'
  BY <1>5, <1>7 DEF Nested
<1>9. frames' = <<>> <=> L = 1
  BY <1>0, ReturnFrames
<1>10. L # 1 => Top'.next = Top.next
  BY <1>0, ReturnFrames
<1>11. CurrentOK'
  BY <1>1, <1>3, <1>5, <1>9, <1>10, OverlapNat, ChunkerAssumption DEF CurrentOK, Idle
<1>12. ChunksOK'
  <2>1. RunsOK(chunks)'
    BY <1>2, <1>5 DEF RunsOK
  <2> QED
    BY <1>1, <1>2, <1>3, <1>9, <1>10, <2>1 DEF ChunksOK, Idle
<1>13. CoveredOK'
  <2>1. CASE L # 1
    BY <1>1, <1>2, <1>5, <1>9, <2>1 DEF CoveredOK, Covers, Idle
  <2>2. CASE L = 1
    <3>1. Top.last = Hi
      BY <1>0, <2>2 DEF Ready, Nested, Idle, Top
    <3>2. Covers(chunks', Hi + 1)
      BY <1>2, <1>3, <3>1
    <3> QED
      BY <1>5, <1>9, <2>2, <3>2 DEF CoveredOK, Covers, Idle
  <2> QED
    BY <2>1, <2>2
<1> QED
  BY <1>6, <1>8, <1>11, <1>12, <1>13 DEF Kept

\* Every step of the chunker.
LEMMA SplitKept ==
    ASSUME Ready, SameBuffer, Split
    PROVE  Kept'
<1>1. CASE \E e \in Top.next..Top.last : Descend(e) \/ Take(e) \/ Close(e) \/ EndTail(e)
  BY <1>1, DescendKept, TakeKept, CloseKept, EndTailKept
<1>2. CASE \E p \in low..(from - 1) : KeepTail(p)
  BY <1>2, KeepTailKept
<1>3. CASE Return
  BY <1>3, ReturnKept
<1> QED
  BY <1>1, <1>2, <1>3 DEF Split

\* A letter of the lines a to b is in no other line.
LEMMA OneLine ==
    ASSUME doc \in Documents, NEW a \in 1..Len(Lines), NEW b \in 1..Len(Lines),
           NEW k \in 1..Len(Lines), NEW x \in Letters,
           Has(Lines[k], x), Lines[a].first <= x, x <= Lines[b].last
    PROVE  a <= k /\ k <= b /\ (a = b => k = a)
<1>1. /\ Lines[a] \in Line /\ Lines[b] \in Line /\ Lines[k] \in Line
      /\ Lines[k].first <= x /\ x <= Lines[k].last /\ x \in Nat
  BY DocumentFacts DEF Has
<1>2. a <= k
  <2>1. SUFFICES ASSUME k < a PROVE FALSE
    OBVIOUS
  <2>2. Lines[k].last < Lines[a].first
    BY <2>1, DocumentFacts
  <2> QED
    BY <1>1, <2>2 DEF Line
<1>3. k <= b
  <2>1. SUFFICES ASSUME b < k PROVE FALSE
    OBVIOUS
  <2>2. Lines[b].last < Lines[k].first
    BY <2>1, DocumentFacts
  <2> QED
    BY <1>1, <2>2 DEF Line
<1> QED
  BY <1>2, <1>3

\* The invariant holds when a document is opened.
LEMMA DcInit == Init => DcInv
<1> SUFFICES ASSUME Init PROVE DcInv
  OBVIOUS
<1>1. doc \in Documents /\ Lines \in Seq(Line)
  BY DocumentFacts DEF Init
<1>2. Len(Lines) \in Nat
  BY <1>1, LenProperties
<1>3. <<>> \in Seq(Frame) /\ <<>> \in Seq(Run) /\ <<>> \in Seq(Payload)
  BY EmptySeq
<1>4. TypeOK
  BY <1>1, <1>2, <1>3 DEF Init, TypeOK, Lines
<1>5. Len(payloads) = 0
  BY DEF Init
<1>6. ReadingOK /\ BufferOK /\ CallOK
  BY DEF Init, ReadingOK, BufferOK, CallOK, Idle
<1>7. LettersKept /\ StructureKept /\ CountedWithinBudget /\ EndsOK /\ IdsOK
  BY <1>5 DEF Init, LettersKept, StructureKept, CountedWithinBudget, EndsOK, IdsOK
<1> QED
  BY <1>1, <1>4, <1>6, <1>7 DEF DcInv

\* A line that joins the buffer is on its page and follows its lines.
LEMMA BufferKept == DcInv /\ Buffer => DcInv'
<1> SUFFICES ASSUME DcInv, Buffer PROVE DcInv'
  OBVIOUS
<1>1. /\ pc = "reading" /\ line <= Len(Lines) /\ ~Solo(line) /\ ~MustFlush
      /\ line' = line + 1 /\ size' = size + Chars(Lines[line].first, Lines[line].last)
      /\ UNCHANGED <<doc, call, pc, held, chunk_id, payloads>>
  BY DEF Buffer
<1>2. /\ doc \in Documents /\ TypeOK /\ line \in 1..(Len(Lines) + 1) /\ held \in 1..line
      /\ Len(Lines) \in Nat /\ line \in 1..Len(Lines) /\ Lines' = Lines
  <2>1. doc \in Documents /\ TypeOK
    BY DEF DcInv
  <2>2. Len(Lines) \in Nat
    BY <2>1, DocumentFacts, LenProperties
  <2> QED
    BY <1>1, <2>1, <2>2 DEF TypeOK, Lines
<1>3. /\ Lines[line] \in Line /\ Lines[line].first <= Lines[line].last + 1
      /\ Lines[line].last <= N /\ N \in Nat
  BY <1>2, DocumentFacts
<1>4. Chars(Lines[line].first, Lines[line].last) \in Int
  <2>1. Lines[line].first \in 1..(N + 1) /\ Lines[line].last \in 0..N
    BY <1>3 DEF Line
  <2> QED
    BY <1>2, <2>1, TokenLenNat
<1>5. TypeOK'
  BY <1>1, <1>2, <1>4 DEF TypeOK, call
<1>6. BufferOK'
  <2>1. ASSUME NEW k \in held..line
        PROVE  /\ ~Solo(k) /\ Lines[k].page = Lines[held].page
               /\ Lo <= Lines[k].first /\ Lines[k].last <= Lines[line].last
    <3>1. CASE k < line
      <4>1. k \in held..(line - 1) /\ k \in 1..Len(Lines) /\ line - 1 \in 1..Len(Lines)
        BY <1>2, <3>1
      <4>2. /\ ~Solo(k) /\ Lines[k].page = Lines[held].page /\ Lo <= Lines[k].first
        BY <4>1 DEF DcInv, BufferOK
      <4>3. /\ Lines[k] \in Line /\ k \in 1..(line - 1)
            /\ Lines[k].last < Lines[line].first
        BY <1>2, <4>1, DocumentFacts
      <4> QED
        BY <1>3, <4>2, <4>3 DEF Line
    <3>2. CASE k = line
      <4>1. Lines[line].page = Lines[held].page
        <5>1. CASE held = line
          BY <5>1
        <5>2. CASE held < line
          <6>1. /\ doc.kind # "txt"
                /\ doc.kind = "pdf" => Lines[line].page = Lines[held].page
            BY <1>1, <5>2 DEF MustFlush, Held
          <6>2. held \in 1..Len(Lines)
            BY <1>2
          <6>3. doc.kind # "pdf" => Lines[line].page = 1 /\ Lines[held].page = 1
            BY <1>2, <6>2, DocumentFacts
          <6> QED
            BY <6>1, <6>3
        <5> QED
          BY <1>2, <5>1, <5>2
      <4>2. Lo <= Lines[line].first
        <5>1. CASE held = line
          BY <1>3, <5>1 DEF Lo, Line
        <5>2. CASE held < line
          <6>1. held \in 1..(line - 1) /\ held \in 1..Len(Lines)
            BY <1>2, <5>2
          <6>2. /\ Lines[held] \in Line /\ Lines[held].last < Lines[line].first
                /\ Lines[held].first <= Lines[held].last + 1
            BY <1>2, <6>1, DocumentFacts
          <6> QED
            BY <1>3, <6>2 DEF Lo, Line
        <5> QED
          BY <1>2, <5>1, <5>2
      <4> QED
        BY <1>1, <1>3, <3>2, <4>1, <4>2 DEF Line
    <3> QED
      BY <1>2, <3>1, <3>2
  <2>2. Lo' = Lo /\ Hi' = Lines[line].last /\ line' - 1 = line /\ held' = held
    BY <1>1, <1>2 DEF Lo, Hi
  <2>3. \A k : Solo(k)' <=> Solo(k)
    BY <1>2 DEF Solo
  <2> QED
    BY <1>2, <2>1, <2>2, <2>3 DEF BufferOK
<1>7. ReadingOK' /\ CallOK'
  <2>1. pc' = "reading" /\ frames' = frames /\ chunks' = chunks
    BY <1>1 DEF call
  <2>2. Idle /\ chunks = <<>>
    BY <1>1 DEF DcInv, ReadingOK
  <2> QED
    BY <2>1, <2>2 DEF ReadingOK, CallOK, Idle
<1>8. LettersKept' /\ StructureKept' /\ CountedWithinBudget'
  <2>1. LettersKept'
    BY <1>1, <1>2 DEF DcInv, LettersKept, Letters, Solo
  <2>2. StructureKept'
    BY <1>1, <1>2 DEF DcInv, StructureKept, Letters
  <2>3. CountedWithinBudget'
    BY <1>1 DEF DcInv, CountedWithinBudget
  <2> QED
    BY <2>1, <2>2, <2>3
<1>9. EndsOK' /\ IdsOK'
  BY <1>1, <1>2 DEF DcInv, EndsOK, IdsOK, Lo
<1> QED
  BY <1>1, <1>2, <1>5, <1>6, <1>7, <1>8, <1>9 DEF DcInv

\* The buffer goes to chunk_text.
LEMMA FlushKept == DcInv /\ Flush => DcInv'
<1> SUFFICES ASSUME DcInv, Flush PROVE DcInv'
  OBVIOUS
<1>1. /\ pc = "reading" /\ held < line /\ Begin(Lo, Hi) /\ pc' = "splitting"
      /\ UNCHANGED <<doc, line, held, size, chunk_id, payloads>>
  BY DEF Flush, MustFlush, Held, Lo, Hi
<1>2. /\ doc \in Documents /\ TypeOK /\ Idle /\ chunks = <<>>
      /\ frames \in Seq(Frame) /\ Len(<<>>) = 0
  BY <1>1 DEF DcInv, ReadingOK, TypeOK
<1>3. N \in Nat /\ Lo \in 1..(N + 1) /\ Hi \in 0..N
  BY <1>1, <1>2, BufferBounds
<1>4. Lo' = Lo /\ Hi' = Hi /\ doc' = doc /\ Lines' = Lines
  BY <1>1 DEF Lo, Hi, Lines
<1>5. TokenLen(Lo, Hi) \in Nat
  BY <1>2, <1>3, TokenLenNat
<1>6. from' = Lo /\ tokens' = 0 /\ low' = 0
  BY <1>1 DEF Begin
<1>7. CallTypeOK' /\ Nested(frames)' /\ CurrentOK' /\ ChunksOK' /\ CoveredOK'
  <2>1. CASE TokenLen(Lo, Hi) <= Target
    <3>1. /\ frames' = <<>>
          /\ Lo > Hi => chunks' = <<>>
          /\ ~(Lo > Hi) => chunks' = <<[first |-> Lo, last |-> Hi, tokens |-> TokenLen(Lo, Hi)]>>
      BY <1>1, <1>2, <2>1 DEF Begin, Idle
    <3>2. chunks' \in Seq(Run) /\ RunsOK(chunks)' /\ Covers(chunks', Hi + 1)
      <4>1. CASE Lo > Hi
        BY <1>2, <1>3, <3>1, <4>1, EmptySeq DEF RunsOK, Covers
      <4>2. CASE ~(Lo > Hi)
        <5> DEFINE c == [first |-> Lo, last |-> Hi, tokens |-> TokenLen(Lo, Hi)]
        <5>1. c \in Run /\ c.first = Lo /\ c.last = Hi /\ c.tokens = TokenLen(Lo, Hi)
          BY <1>3, <1>5 DEF Run
        <5>2. chunks' = <<c>>
          BY <3>1, <4>2
        <5> HIDE DEF c
        <5>3. chunks' \in Seq(Run) /\ Len(chunks') = 1 /\ chunks'[1] = c
          BY <5>1, <5>2
        <5>4. RunsOK(chunks)'
          BY <1>3, <1>4, <1>5, <2>1, <4>2, <5>1, <5>3, OverlapNat, ChunkerAssumption
          DEF RunsOK
        <5>5. Covers(chunks', Hi + 1)
          BY <1>3, <5>1, <5>3 DEF Covers, Has
        <5> QED
          BY <5>3, <5>4, <5>5
      <4> QED
        BY <4>1, <4>2
    <3>3. CallTypeOK'
      BY <1>3, <1>6, <3>1, <3>2, EmptySeq DEF CallTypeOK
    <3>4. Nested(frames)'
      BY <1>2, <3>1 DEF Nested
    <3>5. CurrentOK' /\ ChunksOK'
      BY <3>1, <3>2 DEF CurrentOK, ChunksOK, Idle
    <3>6. CoveredOK'
      BY <1>4, <3>1, <3>2 DEF CoveredOK, Covers, Idle
    <3> QED
      BY <3>3, <3>4, <3>5, <3>6
  <2>2. CASE ~(TokenLen(Lo, Hi) <= Target)
    <3>1. Lo <= Hi
      BY <1>3, <2>2, ChunkerAssumption DEF TokenLen
    <3>2. PICK r \in Ranks : /\ IsStrongest(r, Lo, Hi)
                             /\ frames' = <<[rank |-> r, next |-> Lo, last |-> Hi]>>
      BY <1>1, <2>2 DEF Begin
    <3>3. chunks' = <<>>
      BY <1>1, <2>2 DEF Begin
    <3> DEFINE f == [rank |-> r, next |-> Lo, last |-> Hi]
    <3>4. f \in Frame /\ f.rank = r /\ f.next = Lo /\ f.last = Hi
      BY <1>3 DEF Frame
    <3>5. frames' = <<f>>
      BY <3>2
    <3> HIDE DEF f
    <3>6. frames' \in Seq(Frame) /\ Len(frames') = 1 /\ frames'[1] = f /\ frames' # <<>>
      BY <3>4, <3>5
    <3>7. Top' = f
      BY <3>6 DEF Top
    <3>8. CallTypeOK'
      BY <1>3, <1>6, <3>3, <3>6, EmptySeq DEF CallTypeOK
    <3>9. Nested(frames)'
      <4>1. r = 0 => \A x \in Lo..(Hi - 1) : doc.gap[x] = 0
        BY <1>2, <1>3, <3>2, LastSeparator
      <4> QED
        BY <1>3, <1>4, <3>1, <3>4, <3>6, <4>1 DEF Nested
    <3>10. CurrentOK'
      BY <1>3, <1>4, <1>6, <3>4, <3>7, OverlapNat, ChunkerAssumption DEF CurrentOK
    <3>11. ChunksOK'
      BY <1>2, <3>3 DEF ChunksOK, RunsOK, EndBefore
    <3>12. CoveredOK'
      BY <1>3, <1>4, <1>6, <3>6 DEF CoveredOK, Covers, Idle
    <3> QED
      BY <3>8, <3>9, <3>10, <3>11, <3>12
  <2> QED
    BY <2>1, <2>2
<1>8. TypeOK'
  BY <1>1, <1>2, <1>4, <1>7 DEF TypeOK, CallTypeOK
<1>9. ReadingOK' /\ CallOK'
  BY <1>1, <1>7 DEF ReadingOK, CallOK
<1>10. BufferOK'
  BY <1>1, <1>4 DEF DcInv, BufferOK, Solo
<1>11. LettersKept' /\ StructureKept' /\ CountedWithinBudget' /\ EndsOK' /\ IdsOK'
  BY <1>1, <1>4 DEF DcInv, LettersKept, StructureKept, CountedWithinBudget, EndsOK,
     IdsOK, Letters, Solo
<1> QED
  BY <1>1, <1>2, <1>8, <1>9, <1>10, <1>11 DEF DcInv

\* A step of the chunker.
LEMMA ChunkKept == DcInv /\ Chunk => DcInv'
<1> SUFFICES ASSUME DcInv, Chunk PROVE DcInv'
  OBVIOUS
<1>1. pc = "splitting" /\ Split /\ SameBuffer
  BY DEF Chunk, SameBuffer
<1>2. Ready
  BY <1>1 DEF DcInv, CallOK, Ready, Split
<1>3. Kept'
  BY <1>1, <1>2, SplitKept
<1>4. TypeOK'
  BY <1>1, <1>3 DEF DcInv, TypeOK, Kept, CallTypeOK, SameBuffer, Lines
<1>5. ReadingOK' /\ CallOK' /\ BufferOK' /\ doc' \in Documents
  BY <1>1, <1>2, <1>3 DEF DcInv, ReadingOK, CallOK, BufferOK, Kept, Ready, SameBuffer,
     Lines, Lo, Hi, Solo
<1>6. LettersKept' /\ StructureKept' /\ CountedWithinBudget' /\ EndsOK' /\ IdsOK'
  BY <1>1 DEF DcInv, LettersKept, StructureKept, CountedWithinBudget, EndsOK,
     IdsOK, Letters, Solo, SameBuffer, Lines, Lo
<1> QED
  BY <1>4, <1>5, <1>6 DEF DcInv

\* The parser is through, or gives up.
LEMMA EndKept == DcInv /\ (End \/ Fails) => DcInv'
<1>1. ASSUME DcInv, End PROVE DcInv'
  <2>1. pc = "reading" /\ pc' = "parsed"
        /\ UNCHANGED <<doc, call, line, held, size, chunk_id, payloads>>
    BY <1>1 DEF End
  <2>2. TypeOK' /\ ReadingOK' /\ BufferOK' /\ CallOK' /\ doc' \in Documents
    BY <1>1, <2>1 DEF DcInv, TypeOK, ReadingOK, BufferOK, CallOK, call, Lines, Lo, Hi,
       Solo, Idle
  <2>3. LettersKept' /\ StructureKept' /\ CountedWithinBudget' /\ EndsOK' /\ IdsOK'
    BY <1>1, <2>1 DEF DcInv, LettersKept, StructureKept, CountedWithinBudget, EndsOK,
       IdsOK, Letters, Solo, Lines, Lo
  <2> QED
    BY <2>2, <2>3 DEF DcInv
<1>2. ASSUME DcInv, Fails PROVE DcInv'
  <2>1. /\ pc' = "failed" /\ frames' = <<>> /\ chunks' = <<>> /\ payloads' = <<>>
        /\ UNCHANGED <<doc, from, tokens, low, line, held, size, chunk_id>>
    BY <1>2 DEF Fails
  <2>2. TypeOK' /\ ReadingOK' /\ BufferOK' /\ CallOK' /\ doc' \in Documents
    BY <1>2, <2>1, EmptySeq DEF DcInv, TypeOK, ReadingOK, BufferOK, CallOK, Lines, Lo, Hi,
       Solo, Idle
  <2>3. LettersKept' /\ StructureKept' /\ CountedWithinBudget' /\ EndsOK' /\ IdsOK'
    BY <2>1 DEF LettersKept, StructureKept, CountedWithinBudget, EndsOK, IdsOK
  <2> QED
    BY <2>2, <2>3 DEF DcInv
<1> QED
  BY <1>1, <1>2

\* The fields of a payload.
LEMMA PayloadTypes ==
    ASSUME TypeOK, NEW i \in 1..Len(payloads)
    PROVE  /\ payloads[i].id \in Nat /\ payloads[i].first \in Nat \ {0}
           /\ payloads[i].last \in Nat /\ payloads[i].tokens \in Nat
<1>1. payloads[i] \in Payload
  BY ElementOfSeq DEF TypeOK
<1> QED
  BY <1>1 DEF Payload

\* A line of its own is one payload more.
LEMMA SingleKept == DcInv /\ Single => DcInv'
<1> SUFFICES ASSUME DcInv, Single PROVE DcInv'
  OBVIOUS
<1> DEFINE p == [id |-> chunk_id, tag |-> Lines[line].tag, page |-> Lines[line].page,
                 first |-> Lines[line].first, last |-> Lines[line].last, tokens |-> 0]
<1>1. /\ pc = "reading" /\ line <= Len(Lines) /\ Solo(line) /\ ~Held
      /\ payloads' = Append(payloads, p) /\ chunk_id' = chunk_id + 1
      /\ line' = line + 1 /\ held' = line + 1
      /\ UNCHANGED <<doc, call, pc, size>>
  BY DEF Single
<1>2. /\ doc \in Documents /\ TypeOK /\ Len(Lines) \in Nat /\ line \in 1..Len(Lines)
      /\ held = line /\ chunk_id \in Nat /\ payloads \in Seq(Payload)
  <2>1. doc \in Documents /\ TypeOK
    BY DEF DcInv
  <2>2. Len(Lines) \in Nat
    BY <2>1, DocumentFacts, LenProperties
  <2> QED
    BY <1>1, <2>1, <2>2 DEF TypeOK, Held
<1>3. /\ Lines[line] \in Line /\ Lines[line].first <= Lines[line].last + 1
      /\ doc.kind # "txt" /\ N \in Nat
  BY <1>1, <1>2, DocumentFacts
<1>4. /\ p \in Payload /\ p.id = chunk_id /\ p.tag = Lines[line].tag
      /\ p.page = Lines[line].page /\ p.first = Lines[line].first
      /\ p.last = Lines[line].last /\ p.tokens = 0
  BY <1>2, <1>3 DEF Line, Payload
<1> HIDE DEF p
<1>5. PICK m \in Nat : m = Len(payloads)
  BY <1>2, LenProperties
<1>6. /\ payloads' \in Seq(Payload) /\ Len(payloads') = m + 1
      /\ \A i \in 1..m : payloads'[i] = payloads[i]
      /\ payloads'[m + 1] = p
  BY <1>1, <1>2, <1>4, <1>5, AppendProperties
<1>7. Lines' = Lines /\ Letters' = Letters /\ \A k : Solo(k)' <=> Solo(k)
  BY <1>1 DEF Lines, Letters, Solo
<1>8. \A i \in 1..(m + 1) : i \in 1..m \/ i = m + 1
  BY <1>5
<1>9. TypeOK' /\ doc' \in Documents
  BY <1>1, <1>2, <1>6, <1>7 DEF TypeOK, call, Lines
<1>10. ReadingOK' /\ CallOK' /\ BufferOK'
  <2>1. ReadingOK' /\ CallOK'
    BY <1>1 DEF DcInv, ReadingOK, CallOK, call, Idle
  <2>2. held' > line' - 1
    BY <1>1, <1>2
  <2> QED
    BY <1>2, <1>1, <2>1, <2>2 DEF BufferOK
<1>11. LettersKept'
  <2>1. SUFFICES ASSUME NEW k \in 1..line
                 PROVE /\ \A x \in Letters : Has(Lines[k], x) =>
                              \E i \in 1..(m + 1) : Has(payloads'[i], x)
                       /\ Solo(k) => \E i \in 1..(m + 1) :
                              /\ payloads'[i].page = Lines[k].page
                              /\ payloads'[i].tag = Lines[k].tag
    <3>1. held' - 1 = line
      BY <1>1, <1>2
    <3> QED
      BY <1>6, <1>7, <3>1 DEF LettersKept
  <2>2. CASE k = line
    <3>1. m + 1 \in 1..(m + 1)
      BY <1>5
    <3> QED
      BY <1>4, <1>6, <2>2, <3>1 DEF Has
  <2>3. CASE k # line
    <3>1. k \in 1..(held - 1)
      BY <1>2, <2>3
    <3>2. /\ \A x \in Letters : Has(Lines[k], x) => \E i \in 1..m : Has(payloads[i], x)
          /\ Solo(k) => \E i \in 1..m : /\ payloads[i].page = Lines[k].page
                                        /\ payloads[i].tag = Lines[k].tag
      BY <1>1, <1>5, <3>1 DEF DcInv, LettersKept
    <3>3. \A i \in 1..m : i \in 1..(m + 1)
      BY <1>5
    <3> QED
      BY <1>6, <3>2, <3>3
  <2> QED
    BY <2>2, <2>3
<1>12. StructureKept'
  <2>1. SUFFICES ASSUME NEW i \in 1..(m + 1), NEW k \in 1..Len(Lines), NEW x \in Letters,
                        Has(payloads'[i], x), Has(Lines[k], x)
                 PROVE  payloads'[i].page = Lines[k].page /\ payloads'[i].tag = Lines[k].tag
    BY <1>6, <1>7 DEF StructureKept
  <2>2. CASE i \in 1..m
    BY <1>5, <1>6, <2>1, <2>2 DEF DcInv, StructureKept
  <2>3. CASE i = m + 1
    <3>1. k = line
      BY <1>2, <1>4, <1>6, <2>1, <2>3, OneLine DEF Has
    <3> QED
      BY <1>4, <1>6, <2>3, <3>1
  <2> QED
    BY <1>8, <2>2, <2>3
<1>13. CountedWithinBudget'
  BY <1>4, <1>5, <1>6, <1>8, OverlapNat, ChunkerAssumption DEF DcInv, CountedWithinBudget
<1>14. EndsOK'
  <2>1. \A i \in 1..m : payloads[i].last < Lines[line].first /\ payloads[i].last \in Nat
    BY <1>2, <1>5, PayloadTypes DEF DcInv, EndsOK, Lo
  <2>2. /\ Lines[line].first \in Nat /\ Lines[line].last \in Nat
        /\ line + 1 <= Len(Lines) => Lines[line + 1].first = Lines[line].last + 1
    <3>1. line + 1 <= Len(Lines) => line + 1 \in 1..Len(Lines) /\ line + 1 > 1
                                    /\ line + 1 - 1 = line
      BY <1>2
    <3> QED
      BY <1>2, <1>3, <3>1, DocumentFacts, SMTT(30) DEF Line
  <2>3. ASSUME NEW i \in 1..(m + 1)
        PROVE  /\ line + 1 <= Len(Lines) => payloads'[i].last < Lines[line + 1].first
               /\ \A j \in 1..(i - 1) :
                    /\ payloads'[j].last <= payloads'[i].last
                    /\ ~Empty(payloads'[i]) => payloads'[j].last < payloads'[i].last
    <3>1. CASE i \in 1..m
      <4>1. \A j \in 1..(i - 1) : j \in 1..m
        BY <1>5, <3>1
      <4>2. \A j \in 1..(i - 1) :
              /\ payloads[j].last <= payloads[i].last
              /\ ~Empty(payloads[i]) => payloads[j].last < payloads[i].last
        BY <1>5, <3>1 DEF DcInv, EndsOK
      <4>3. payloads'[i] = payloads[i] /\ \A j \in 1..(i - 1) : payloads'[j] = payloads[j]
        BY <1>6, <3>1, <4>1
      <4>4. line + 1 <= Len(Lines) => payloads[i].last < Lines[line + 1].first
        BY <1>3, <2>1, <2>2, <3>1 DEF Line
      <4> QED
        BY <4>2, <4>3, <4>4
    <3>2. CASE i = m + 1
      <4>1. \A j \in 1..(i - 1) : j \in 1..m
        BY <1>5, <3>2
      <4> QED
        BY <1>3, <1>4, <1>6, <2>1, <2>2, <3>2, <4>1 DEF Empty
    <3> QED
      BY <1>8, <3>1, <3>2
  <2> QED
    BY <1>1, <1>6, <1>7, <2>3 DEF EndsOK, Lo
<1>15. IdsOK'
  <2>1. /\ chunk_id = m
        /\ \A i \in 1..m : payloads[i].id = i - 1
    BY <1>1, <1>3, <1>5 DEF DcInv, IdsOK
  <2>2. \A i \in 1..(m + 1) : payloads'[i].id = i - 1
    BY <1>4, <1>5, <1>6, <1>8, <2>1
  <2>3. ASSUME NEW i \in 1..(m + 1)
        PROVE  /\ payloads'[i].id < 2 * (m + 1) /\ payloads'[i].id = i - 1
               /\ \A j \in 1..(i - 1) : payloads'[j].id < payloads'[i].id
    <3>1. \A j \in 1..(i - 1) : j \in 1..(m + 1)
      BY <1>5
    <3> QED
      BY <1>5, <2>2, <3>1
  <2> QED
    BY <1>1, <1>5, <1>6, <2>1, <2>3 DEF IdsOK
<1> QED
  BY <1>9, <1>10, <1>11, <1>12, <1>13, <1>14, <1>15 DEF DcInv

\* The numbered chunks follow the payloads so far.
LEMMA NumberAppends ==
    ASSUME DcInv, Number
    PROVE  \E m, n \in Nat :
           /\ m = Len(payloads) /\ n = Len(chunks)
           /\ payloads' \in Seq(Payload) /\ Len(payloads') = m + n
           /\ chunk_id = m /\ FirstId = IF doc.kind = "txt" THEN 2 * m ELSE m
           /\ \A i \in 1..m : payloads'[i] = payloads[i]
           /\ \A j \in 1..n :
                /\ m + j \in 1..(m + n) /\ payloads'[m + j].id = FirstId + j - 1
                /\ payloads'[m + j].tag = PARAGRAPH_TAG
                /\ payloads'[m + j].page = Lines[held].page
                /\ payloads'[m + j].first = chunks[j].first
                /\ payloads'[m + j].last = chunks[j].last
                /\ payloads'[m + j].tokens = chunks[j].tokens
<1> DEFINE s == [i \in 1..Len(chunks) |->
                   [id |-> FirstId + i - 1, tag |-> PARAGRAPH_TAG, page |-> Lines[held].page,
                    first |-> chunks[i].first, last |-> chunks[i].last,
                    tokens |-> chunks[i].tokens]]
<1>1. /\ pc = "splitting" /\ Idle /\ payloads' = payloads \o s
  BY DEF Number
<1>2. /\ doc \in Documents /\ TypeOK /\ held < line /\ RunsOK(chunks)
      /\ Covers(chunks, Hi + 1) /\ chunks \in Seq(Run) /\ payloads \in Seq(Payload)
  BY <1>1 DEF DcInv, CallOK, ChunksOK, CoveredOK, TypeOK
<1>3. /\ N \in Nat /\ held \in 1..Len(Lines) /\ line - 1 \in 1..Len(Lines)
      /\ Lo \in 1..(N + 1) /\ Hi \in 0..N /\ line \in Nat /\ held \in Nat
      /\ Len(Lines) \in Nat
  <2>1. Len(Lines) \in Nat
    BY <1>2, DocumentFacts, LenProperties
  <2> QED
    BY <1>2, <2>1, BufferBounds DEF TypeOK
<1>4. PICK m \in Nat : m = Len(payloads)
  BY <1>2, LenProperties
<1>5. PICK n \in Nat : n = Len(chunks)
  BY <1>2, LenProperties
<1>6. chunk_id = m /\ FirstId = IF doc.kind = "txt" THEN 2 * m ELSE m
  BY <1>1, <1>4 DEF DcInv, IdsOK, FirstId
<1>7. Lines[held].page \in Nat \ {0}
  BY <1>2, <1>3, DocumentFacts DEF Line
<1>8. \A i \in 1..n :
        /\ s[i] \in Payload /\ s[i].id = FirstId + i - 1 /\ s[i].tag = PARAGRAPH_TAG
        /\ s[i].page = Lines[held].page /\ s[i].first = chunks[i].first
        /\ s[i].last = chunks[i].last /\ s[i].tokens = chunks[i].tokens
  <2>1. SUFFICES ASSUME NEW i \in 1..n
        PROVE /\ s[i] \in Payload /\ s[i].id = FirstId + i - 1 /\ s[i].tag = PARAGRAPH_TAG
              /\ s[i].page = Lines[held].page /\ s[i].first = chunks[i].first
              /\ s[i].last = chunks[i].last /\ s[i].tokens = chunks[i].tokens
    OBVIOUS
  <2>2. /\ chunks[i].first \in Nat \ {0} /\ chunks[i].last \in Nat
        /\ chunks[i].tokens \in Nat
    BY <1>2, <1>5, RunTypes
  <2>3. FirstId + i - 1 \in Nat
    BY <1>4, <1>6
  <2>4. PARAGRAPH_TAG \in Tags
    BY DEF PARAGRAPH_TAG, Tags
  <2>5. s[i] = [id |-> FirstId + i - 1, tag |-> PARAGRAPH_TAG, page |-> Lines[held].page,
                first |-> chunks[i].first, last |-> chunks[i].last,
                tokens |-> chunks[i].tokens]
    BY <1>5
  <2> QED
    BY <1>7, <2>2, <2>3, <2>4, <2>5, SMTT(30) DEF Payload
<1>9. s \in Seq(Payload) /\ Len(s) = n
  <2>1. s \in [1..n -> Payload]
    BY <1>5, <1>8
  <2> QED
    BY <1>5, <2>1, SeqDef
<1>10. payloads' = payloads \o s
  BY <1>1
<1> HIDE DEF s
<1>11. /\ payloads' \in Seq(Payload) /\ Len(payloads') = m + n
       /\ \A i \in 1..m : payloads'[i] = payloads[i]
       /\ \A i \in 1..n : payloads'[m + i] = s[i]
  <2>1. /\ payloads' \in Seq(Payload) /\ Len(payloads') = m + n
        /\ \A i \in 1..(m + n) : payloads'[i] = IF i <= m THEN payloads[i] ELSE s[i - m]
    BY <1>2, <1>4, <1>9, <1>10, ConcatProperties
  <2>2. \A i \in 1..m : i \in 1..(m + n) /\ i <= m
    BY <1>4, <1>5
  <2>3. \A i \in 1..n : m + i \in 1..(m + n) /\ ~(m + i <= m) /\ m + i - m = i
    BY <1>4, <1>5
  <2> QED
    BY <2>1, <2>2, <2>3
<1>11a. \A j \in 1..n :
          /\ m + j \in 1..(m + n) /\ payloads'[m + j].id = FirstId + j - 1
          /\ payloads'[m + j].tag = PARAGRAPH_TAG
          /\ payloads'[m + j].page = Lines[held].page
          /\ payloads'[m + j].first = chunks[j].first
          /\ payloads'[m + j].last = chunks[j].last
          /\ payloads'[m + j].tokens = chunks[j].tokens
  <2>1. \A j \in 1..n : m + j \in 1..(m + n)
    BY <1>4, <1>5
  <2> QED
    BY <1>8, <1>11, <2>1
<1> QED
  BY <1>4, <1>5, <1>6, <1>11, <1>11a

\* The chunks become payloads, with the page and the tag of their buffer.
LEMMA NumberKept == DcInv /\ Number => DcInv'
<1> SUFFICES ASSUME DcInv, Number PROVE DcInv'
  OBVIOUS
<1>1. /\ pc = "splitting" /\ Idle /\ chunks' = <<>>
      /\ chunk_id' = IF doc.kind = "txt" THEN Len(payloads') ELSE chunk_id + Len(chunks)
      /\ pc' = "reading" /\ held' = line /\ size' = 0
      /\ UNCHANGED <<doc, frames, from, tokens, low, line>>
  BY  DEF Number
<1>2. /\ doc \in Documents /\ TypeOK /\ held < line /\ RunsOK(chunks)
      /\ Covers(chunks, Hi + 1) /\ chunks \in Seq(Run) /\ payloads \in Seq(Payload)
  BY <1>1 DEF DcInv, CallOK, ChunksOK, CoveredOK, TypeOK
<1>3. /\ N \in Nat /\ held \in 1..Len(Lines) /\ line - 1 \in 1..Len(Lines)
      /\ Lo \in 1..(N + 1) /\ Hi \in 0..N /\ line \in Nat /\ held \in Nat
      /\ Len(Lines) \in Nat
  <2>1. Len(Lines) \in Nat
    BY <1>2, DocumentFacts, LenProperties
  <2> QED
    BY <1>2, <2>1, BufferBounds DEF TypeOK
<1>4. PICK m, n \in Nat :
        /\ m = Len(payloads) /\ n = Len(chunks)
        /\ payloads' \in Seq(Payload) /\ Len(payloads') = m + n
        /\ chunk_id = m /\ FirstId = IF doc.kind = "txt" THEN 2 * m ELSE m
        /\ \A i \in 1..m : payloads'[i] = payloads[i]
        /\ \A j \in 1..n :
             /\ m + j \in 1..(m + n) /\ payloads'[m + j].id = FirstId + j - 1
             /\ payloads'[m + j].tag = PARAGRAPH_TAG
             /\ payloads'[m + j].page = Lines[held].page
             /\ payloads'[m + j].first = chunks[j].first
             /\ payloads'[m + j].last = chunks[j].last
             /\ payloads'[m + j].tokens = chunks[j].tokens
  BY NumberAppends
<1>5. m = Len(payloads) /\ n = Len(chunks) /\ Len(payloads') = m + n
  BY <1>4
<1>12. \A i \in 1..(m + n) : i \in 1..m \/ \E j \in 1..n : i = m + j
  <2>1. \A i \in 1..(m + n) : i \in 1..m \/ (i - m \in 1..n /\ i = m + (i - m))
    BY <1>4
  <2> QED
    BY <2>1
<1>13. Lines' = Lines /\ Letters' = Letters /\ \A k : Solo(k)' <=> Solo(k)
  BY <1>1 DEF Lines, Letters, Solo
<1>14. TypeOK' /\ doc' \in Documents
  <2>1. chunk_id' \in Nat /\ <<>> \in Seq(Run)
    BY <1>1, <1>4, EmptySeq
  <2> QED
    BY <1>1, <1>2, <1>3, <1>4, <1>13, <2>1 DEF TypeOK, Lines
<1>15. ReadingOK' /\ CallOK' /\ BufferOK'
  <2>1. held' > line' - 1
    BY <1>1, <1>3
  <2> QED
    BY <1>1, <1>3, <2>1 DEF ReadingOK, CallOK, BufferOK, Idle
<1>16. LettersKept'
  <2>1. SUFFICES ASSUME NEW k \in 1..(line - 1)
                 PROVE /\ \A x \in Letters : Has(Lines[k], x) =>
                              \E i \in 1..(m + n) : Has(payloads'[i], x)
                       /\ Solo(k) => \E i \in 1..(m + n) :
                              /\ payloads'[i].page = Lines[k].page
                              /\ payloads'[i].tag = Lines[k].tag
    BY <1>1, <1>4, <1>13 DEF LettersKept
  <2>2. CASE k < held
    <3>1. k \in 1..(held - 1)
      BY <1>3, <2>2
    <3>2. /\ \A x \in Letters : Has(Lines[k], x) => \E i \in 1..m : Has(payloads[i], x)
          /\ Solo(k) => \E i \in 1..m : /\ payloads[i].page = Lines[k].page
                                        /\ payloads[i].tag = Lines[k].tag
      BY <1>1, <1>4, <3>1 DEF DcInv, LettersKept
    <3>3. \A i \in 1..m : i \in 1..(m + n)
      BY <1>4
    <3> QED
      BY <1>4, <3>2, <3>3
  <2>3. CASE ~(k < held)
    <3>1. k \in held..(line - 1) /\ k \in 1..Len(Lines)
      BY <1>3, <2>3
    <3>2. ~Solo(k) /\ Lo <= Lines[k].first /\ Lines[k].last <= Hi /\ Lines[k] \in Line
      BY <1>2, <3>1, DocumentFacts DEF DcInv, BufferOK
    <3>3. ASSUME NEW x \in Letters, Has(Lines[k], x)
          PROVE  \E i \in 1..(m + n) : Has(payloads'[i], x)
      <4>1. x \in Nat
        BY <1>2, DocumentFacts
      <4>2. x \in Lo..Hi /\ x < Hi + 1
        BY <1>3, <3>2, <3>3, <4>1, SMTT(30) DEF Has, Line
      <4>3. PICK i \in 1..n : Has(chunks[i], x)
        BY <1>2, <1>4, <4>2 DEF Covers
      <4>4. Has(payloads'[m + i], x) /\ m + i \in 1..(m + n)
        BY <1>4, <4>3 DEF Has
      <4> QED
        BY <4>4
    <3> QED
      BY <3>2, <3>3
  <2> QED
    BY <2>2, <2>3
<1>17. StructureKept'
  <2>1. SUFFICES ASSUME NEW i \in 1..(m + n), NEW k \in 1..Len(Lines), NEW x \in Letters,
                        Has(payloads'[i], x), Has(Lines[k], x)
                 PROVE  payloads'[i].page = Lines[k].page /\ payloads'[i].tag = Lines[k].tag
    BY <1>4, <1>13 DEF StructureKept
  <2>2. CASE i \in 1..m
    BY <1>4, <2>1, <2>2 DEF DcInv, StructureKept
  <2>3. ASSUME NEW j \in 1..n, i = m + j
        PROVE  payloads'[i].page = Lines[k].page /\ payloads'[i].tag = Lines[k].tag
    <3>1. Has(chunks[j], x)
      BY <1>4, <2>1, <2>3 DEF Has
    <3>2. /\ Lo <= chunks[j].first /\ chunks[j].last <= Hi
          /\ chunks[j].first \in Nat /\ chunks[j].last \in Nat /\ x \in Nat
      <4>1. Lo <= chunks[j].first /\ chunks[j].last <= Hi
        BY <1>2, <1>4 DEF RunsOK
      <4>2. chunks[j].first \in Nat /\ chunks[j].last \in Nat
        BY <1>2, <1>4, RunTypes
      <4>3. x \in Nat
        BY <1>2, <1>3, DocumentFacts
      <4> QED
        BY <4>1, <4>2, <4>3
    <3>3. Lines[held].first <= x /\ x <= Lines[line - 1].last
      <4>1. chunks[j].first <= x /\ x <= chunks[j].last
        BY <3>1 DEF Has
      <4>2. Lo \in Int /\ Hi \in Int
        BY <1>3
      <4>3. Lo <= x /\ x <= Hi
        BY <3>2, <4>1, <4>2
      <4> QED
        BY <4>3 DEF Lo, Hi
    <3>4. k \in held..(line - 1)
      <4>1. held <= k /\ k <= line - 1
        BY <1>2, <1>3, <2>1, <3>3, OneLine
      <4> QED
        BY <1>3, <4>1
    <3>5. ~Solo(k) /\ Lines[k].page = Lines[held].page
      BY <3>4 DEF DcInv, BufferOK
    <3> QED
      BY <1>4, <2>3, <3>5 DEF Solo
  <2> QED
    BY <1>12, <2>2, <2>3
<1>18. CountedWithinBudget'
  <2>1. \A i \in 1..m : payloads'[i].tokens <= Target + Overlap
    BY <1>4 DEF DcInv, CountedWithinBudget
  <2>2. \A j \in 1..n : payloads'[m + j].tokens <= Target + Overlap
    BY <1>2, <1>4 DEF RunsOK
  <2>3. \A i \in 1..(m + n) : payloads'[i].tokens <= Target + Overlap
    BY <1>12, <2>1, <2>2
  <2> QED
    BY <1>5, <2>3 DEF CountedWithinBudget
<1>19. EndsOK'
  <2>1. /\ \A i \in 1..m : payloads[i].last < Lo /\ payloads[i].last \in Nat
        /\ \A j \in 1..n : /\ chunks[j].first \in Nat /\ chunks[j].last \in Nat
                           /\ Lo <= chunks[j].first /\ chunks[j].first <= chunks[j].last
                           /\ chunks[j].last <= Hi
                           /\ \A g \in 1..(j - 1) : chunks[g].last < chunks[j].last
    <3>1. \A i \in 1..m : payloads[i].last < Lo /\ payloads[i].last \in Nat
      BY <1>2, <1>3, <1>5, PayloadTypes DEF DcInv, EndsOK
    <3>2. \A j \in 1..n : chunks[j].first \in Nat /\ chunks[j].last \in Nat
      BY <1>2, <1>5, RunTypes
    <3>3. \A j \in 1..n : /\ Lo <= chunks[j].first /\ chunks[j].first <= chunks[j].last
                          /\ chunks[j].last <= Hi
                          /\ \A g \in 1..(j - 1) : chunks[g].last < chunks[j].last
      BY <1>2, <1>5 DEF RunsOK
    <3> QED
      BY <3>1, <3>2, <3>3
  <2>2. line <= Len(Lines) => Lines[line].first = Hi + 1
    <3>1. line <= Len(Lines) => line \in 1..Len(Lines) /\ line > 1
      BY <1>3
    <3> QED
      BY <1>2, <3>1, DocumentFacts DEF Hi
  <2>3. Lo <= Hi + 1
    <3>1. Lo <= Lines[line - 1].first /\ line - 1 \in held..(line - 1)
      BY <1>2, <1>3 DEF DcInv, BufferOK
    <3>2. Lines[line - 1] \in Line /\ Lines[line - 1].first <= Lines[line - 1].last + 1
      BY <1>2, <1>3, DocumentFacts
    <3> QED
      BY <1>3, <3>1, <3>2 DEF Hi, Line
  <2>4. ASSUME NEW i \in 1..(m + n)
        PROVE  /\ line <= Len(Lines) => payloads'[i].last < Lines[line].first
               /\ \A j \in 1..(i - 1) :
                    /\ payloads'[j].last <= payloads'[i].last
                    /\ ~Empty(payloads'[i]) => payloads'[j].last < payloads'[i].last
    <3>1. CASE i \in 1..m
      <4>1. \A j \in 1..(i - 1) : j \in 1..m
        BY <1>4, <3>1
      <4>2. \A j \in 1..(i - 1) :
              /\ payloads[j].last <= payloads[i].last
              /\ ~Empty(payloads[i]) => payloads[j].last < payloads[i].last
        BY <1>4, <3>1 DEF DcInv, EndsOK
      <4>3. payloads'[i] = payloads[i] /\ \A j \in 1..(i - 1) : payloads'[j] = payloads[j]
        BY <1>4, <3>1, <4>1
      <4>4. line <= Len(Lines) => payloads[i].last < Lines[line].first
        BY <1>3, <2>1, <2>2, <2>3, <3>1
      <4> QED
        BY <4>2, <4>3, <4>4
    <3>2. ASSUME NEW g \in 1..n, i = m + g
          PROVE  /\ line <= Len(Lines) => payloads'[i].last < Lines[line].first
                 /\ \A j \in 1..(i - 1) : payloads'[j].last < payloads'[i].last
      <4>1. payloads'[i].last = chunks[g].last
        BY <1>4, <3>2
      <4>2. ASSUME NEW j \in 1..(i - 1) PROVE payloads'[j].last < chunks[g].last
        <5>1. CASE j \in 1..m
          <6>1. payloads'[j].last = payloads[j].last
            BY <1>4, <5>1
          <6>2. payloads[j].last < Lo /\ payloads[j].last \in Nat /\ Lo \in Nat
            BY <1>3, <2>1, <5>1
          <6>3. /\ Lo <= chunks[g].first /\ chunks[g].first <= chunks[g].last
                /\ chunks[g].first \in Nat /\ chunks[g].last \in Nat
            BY <2>1
          <6> QED
            BY <6>1, <6>2, <6>3
        <5>2. ASSUME NEW h \in 1..n, j = m + h PROVE payloads'[j].last < chunks[g].last
          <6>1. h \in 1..(g - 1) /\ payloads'[j].last = chunks[h].last
            BY <1>4, <3>2, <4>2, <5>2
          <6> QED
            BY <2>1, <6>1
        <5>3. j \in 1..(m + n)
          BY <1>4
        <5> QED
          BY <1>12, <5>1, <5>2, <5>3
      <4>3. line <= Len(Lines) => chunks[g].last < Lines[line].first
        BY <1>3, <2>1, <2>2
      <4> QED
        BY <4>1, <4>2, <4>3
    <3>3. CASE \E g \in 1..n : i = m + g
      <4>1. PICK g \in 1..n : i = m + g
        BY <3>3
      <4>2. /\ line <= Len(Lines) => payloads'[i].last < Lines[line].first
            /\ \A j \in 1..(i - 1) : payloads'[j].last < payloads'[i].last
        BY <3>2, <4>1
      <4>3. \A j \in 1..(i - 1) : j \in 1..(m + n)
        BY <1>4
      <4>4. \A j \in 1..(m + n) : payloads'[j].last \in Nat
        <5>1. \A j \in 1..m : payloads'[j].last \in Nat
          BY <1>4, <2>1
        <5>2. \A j \in 1..n : payloads'[m + j].last \in Nat
          BY <1>4, <2>1
        <5> QED
          BY <1>12, <5>1, <5>2
      <4> QED
        BY <3>3, <4>2, <4>3, <4>4
    <3> QED
      BY <1>12, <3>1, <3>3
  <2> QED
    BY <1>1, <1>4, <1>13, <2>4 DEF EndsOK, Lo
<1>20. IdsOK'
  <2>1. chunk_id' = m + n
    BY <1>1, <1>4
  <2>2. \A i \in 1..m : /\ payloads'[i].id = payloads[i].id /\ payloads[i].id \in Nat
                        /\ payloads[i].id < 2 * m
                        /\ \A j \in 1..(i - 1) : payloads[j].id < payloads[i].id
                        /\ doc.kind # "txt" => payloads[i].id = i - 1
    BY <1>1, <1>2, <1>4, PayloadTypes DEF DcInv, IdsOK
  <2>3. \A j \in 1..n : payloads'[m + j].id = FirstId + j - 1
    BY <1>4
  <2>4. ASSUME NEW i \in 1..(m + n)
        PROVE  /\ payloads'[i].id < 2 * (m + n)
               /\ \A j \in 1..(i - 1) : payloads'[j].id < payloads'[i].id
               /\ doc.kind # "txt" => payloads'[i].id = i - 1
    <3>1. CASE i \in 1..m
      <4>1. \A j \in 1..(i - 1) : j \in 1..m
        BY <1>4, <3>1
      <4> QED
        BY <1>4, <2>2, <3>1, <4>1, SMTT(30)
    <3>2. ASSUME NEW g \in 1..n, i = m + g
          PROVE  /\ payloads'[i].id < 2 * (m + n)
                 /\ \A j \in 1..(i - 1) : payloads'[j].id < payloads'[i].id
                 /\ doc.kind # "txt" => payloads'[i].id = i - 1
      <4>1. payloads'[i].id = FirstId + g - 1
        BY <2>3, <3>2
      <4>2. FirstId \in Nat /\ m <= FirstId /\ FirstId <= 2 * m
        BY <1>4
      <4>3. ASSUME NEW j \in 1..(i - 1) PROVE payloads'[j].id < payloads'[i].id
        <5>1. CASE j \in 1..m
          <6>1. doc.kind = "txt" => payloads'[j].id < 2 * m /\ FirstId = 2 * m
            BY <1>4, <2>2, <5>1
          <6>2. doc.kind # "txt" => payloads'[j].id = j - 1 /\ FirstId = m
            BY <1>4, <2>2, <5>1
          <6>3. payloads'[j].id \in Nat
            BY <2>2, <5>1
          <6> QED
            BY <1>4, <4>1, <4>2, <5>1, <6>1, <6>2, <6>3, SMTT(30)
        <5>2. ASSUME NEW h \in 1..n, j = m + h PROVE payloads'[j].id < payloads'[i].id
          <6>1. h < g /\ payloads'[j].id = FirstId + h - 1
            BY <1>4, <2>3, <3>2, <4>3, <5>2, SMTT(30)
          <6> QED
            BY <4>1, <4>2, <6>1
        <5>3. j \in 1..(m + n)
          BY <1>4
        <5> QED
          BY <1>12, <5>1, <5>2, <5>3
      <4>4. doc.kind # "txt" => payloads'[i].id = i - 1
        BY <1>4, <3>2, <4>1
      <4>5. payloads'[i].id < 2 * (m + n)
        BY <1>4, <4>1, <4>2
      <4> QED
        BY <4>3, <4>4, <4>5
    <3> QED
      BY <1>12, <3>1, <3>2
  <2> QED
    BY <1>1, <1>4, <2>1, <2>4 DEF IdsOK
<1> QED
  BY <1>14, <1>15, <1>16, <1>17, <1>18, <1>19, <1>20 DEF DcInv

\* The invariant of the parser.
LEMMA DcSpec == Spec => []DcInv
<1>1. DcInv /\ [Next]_vars => DcInv'
  <2>1. CASE UNCHANGED vars
    BY <2>1 DEF vars, call, DcInv, TypeOK, ReadingOK, BufferOK, CallOK, Nested, CurrentOK,
       ChunksOK, CoveredOK, RunsOK, EndBefore, Covers, LettersKept, StructureKept,
       CountedWithinBudget, EndsOK, IdsOK, Lines, Letters, Lo, Hi, Solo, Idle, Top,
       Segment, TooLarge, Weight, TokenLen, Chars
  <2> QED
    BY <2>1, BufferKept, SingleKept, FlushKept, ChunkKept, NumberKept, EndKept
    DEF Next, Parse
<1> QED
  BY <1>1, DcInit, PTL DEF Spec

\* Parser and chunker keep their types for every document.
THEOREM ChunksTypeCorrect == Spec => []TypeOK
<1>1. DcInv => TypeOK
  BY DEF DcInv
<1> QED
  BY <1>1, DcSpec, PTL

\* Where all letters are kept a full stop can go at the seams only.
LEMMA SeamStops == DcInv => StopsKept
<1> SUFFICES ASSUME DcInv, pc # "failed", NEW k \in 1..(held - 1), NEW x \in Letters,
                    Has(Lines[k], x), x # Lines[k].last
             PROVE  \/ \E i \in 1..Len(payloads) : Has(payloads[i], x) /\ Has(payloads[i], x + 1)
                    \/ SeamDrops(x)
  BY DEF StopsKept
<1>1. LettersKept /\ TypeOK /\ doc \in Documents
  BY DEF DcInv
<1>2. k \in 1..Len(Lines)
  BY <1>1 DEF TypeOK, Lines
<1>3. /\ Lines[k].first \in Nat \ {0} /\ Lines[k].last \in Nat
      /\ Letters = 1..N /\ Lines[k].last <= N /\ N \in Nat
  BY <1>1, <1>2, DocumentFacts DEF Line
<1>4. x + 1 \in Letters /\ Has(Lines[k], x + 1)
  BY <1>2, <1>3 DEF Has
<1>5. PICK i \in 1..Len(payloads) : Has(payloads[i], x)
  BY <1>1 DEF LettersKept
<1>6. PICK j \in 1..Len(payloads) : Has(payloads[j], x + 1)
  BY <1>1, <1>4 DEF LettersKept
<1>7. /\ x \in Nat
      /\ payloads[i].last \in Nat /\ payloads[i].first \in Nat
      /\ payloads[j].last \in Nat /\ payloads[j].first \in Nat
  <2>1. payloads \in Seq(Payload)
    BY <1>1 DEF TypeOK
  <2>2. payloads[i] \in Payload /\ payloads[j] \in Payload
    BY <1>5, <1>6, <2>1
  <2>3. x \in Nat
    BY <1>3
  <2> QED
    BY <2>2, <2>3 DEF Payload
<1>8. CASE Has(payloads[i], x + 1)
  BY <1>5, <1>8
<1>9. CASE Has(payloads[j], x)
  BY <1>6, <1>9
<1>10. CASE ~Has(payloads[i], x + 1) /\ ~Has(payloads[j], x)
  <2>1. payloads[i].last = x /\ payloads[j].first = x + 1
    BY <1>5, <1>6, <1>7, <1>10 DEF Has
  <2> QED
    BY <2>1 DEF SeamDrops
<1> QED
  BY <1>8, <1>9, <1>10

\* Every letter is in a payload, and a full stop that is in none stood between
\* two payloads.
THEOREM OnlySeamStopsLostHolds == Spec => []OnlySeamStopsLost
<1>1. DcInv => OnlySeamStopsLost
  BY SeamStops DEF DcInv, OnlySeamStopsLost
<1> QED
  BY <1>1, DcSpec, PTL

\* Payloads stay on their page and in their role.
THEOREM StructureKeptHolds == Spec => []StructureKept
<1>1. DcInv => StructureKept
  BY DEF DcInv
<1> QED
  BY <1>1, DcSpec, PTL

\* By the count of the chunker a chunk exceeds the target by the overlap at
\* most.
THEOREM CountedWithinBudgetHolds == Spec => []CountedWithinBudget
<1>1. DcInv => CountedWithinBudget
  BY DEF DcInv
<1> QED
  BY <1>1, DcSpec, PTL

\* The payloads follow the text, and none lies within its predecessor.
THEOREM EndsAdvanceHolds == Spec => []EndsAdvance
<1>1. DcInv => EndsAdvance
  <2>1. SUFFICES ASSUME DcInv, NEW i \in 1..(Len(payloads) - 1)
        PROVE  /\ payloads[i].last <= payloads[i + 1].last
               /\ ~Empty(payloads[i + 1]) => payloads[i].last < payloads[i + 1].last
    BY DEF EndsAdvance
  <2>2. Len(payloads) \in Nat
    BY <2>1, LenProperties DEF DcInv, TypeOK
  <2>3. i + 1 \in 1..Len(payloads) /\ i \in 1..(i + 1 - 1)
    BY <2>2
  <2> QED
    BY <2>1, <2>3 DEF DcInv, EndsOK
<1> QED
  BY <1>1, DcSpec, PTL

\* Every payload has a number above those before it.
THEOREM NumberedInOrderHolds == Spec => []NumberedInOrder
<1>1. DcInv => NumberedInOrder
  <2>1. SUFFICES ASSUME DcInv, NEW i \in 1..Len(payloads)
        PROVE  /\ doc.kind # "txt" => payloads[i].id = i - 1
               /\ i > 1 => payloads[i - 1].id < payloads[i].id
    BY DEF NumberedInOrder
  <2>2. i > 1 => i - 1 \in 1..(i - 1)
    OBVIOUS
  <2> QED
    BY <2>1, <2>2 DEF DcInv, IdsOK
<1> QED
  BY <1>1, DcSpec, PTL

(***************************************************************************)
(* What is repeated.  The overlap loop counts segments of a chunk from its *)
(* end; when it comes to the first letter it has counted the whole chunk,  *)
(* which therefore is no larger than the overlap.                          *)
(***************************************************************************)

\* The letters b to n - 1 as segments that the separator r ends: s counts
\* the tokens before each segment.
Inside(a, b, r) == \A i \in a..(b - 2) : doc.gap[i] # r
Cut(x, b, n, r) == x \in {b, n} \/ doc.gap[x - 1] = r
Adds(s, b, n, r) ==
    \A x, y \in b..n :
        x < y /\ Cut(x, b, n, r) /\ Cut(y, b, n, r) /\ Inside(x, y, r)
            => s[y] = s[x] + TokenLen(x, y - 1)

\* "current", or the closed chunk while its tail is looked for.
Base == IF low = 0 THEN from ELSE low
Newest == chunks[Len(chunks)]

\* Where "current" begins and what its count is made of; in the overlap loop
\* the count of the closed chunk is made of the same segments.
SumsOK ==
    /\ Base < Top.next /\ Top.next <= Top.last => doc.gap[Top.next - 1] = Top.rank
    /\ low # 0 => /\ low < Top.next /\ Top.next <= Top.last /\ low <= from
                  /\ from = low \/ doc.gap[from - 1] = Top.rank
                  /\ Len(chunks) > 0 /\ Newest.first = low
    /\ \E s \in [Nat -> Nat] :
         /\ Adds(s, Base, Top.next, Top.rank)
         /\ s[Top.next] = tokens + s[from]
         /\ low # 0 => s[Top.next] = Newest.tokens + s[low]

\* A run that its successor repeats from its first letter on is no larger
\* than the overlap, and "current" is such a successor.
RepeatsOK(c) ==
    \A i \in 1..(Len(c) - 1) : c[i + 1].first <= c[i].first => c[i].tokens <= Overlap
NextRepeats ==
    low = 0 /\ Len(chunks) > 0 /\ from <= Newest.first => Newest.tokens <= Overlap

TailOK == /\ ~Idle => SumsOK /\ NextRepeats
          /\ RepeatsOK(chunks)
          /\ RepeatsAreOverlap

\* One segment more.
LEMMA AddsSegment ==
    ASSUME NEW s \in [Nat -> Nat], NEW b \in Nat, NEW n \in Nat, NEW e \in Nat, NEW r,
           b <= n, n <= e, Adds(s, b, n, r), b < n => doc.gap[n - 1] = r,
           \A i \in n..(e - 1) : doc.gap[i] # r,
           NEW t, t = [s EXCEPT ![e + 1] = s[n] + TokenLen(n, e)]
    PROVE  Adds(t, b, e + 1, r)
<1> SUFFICES ASSUME NEW x \in b..(e + 1), NEW y \in b..(e + 1), x < y,
                    Cut(x, b, e + 1, r), Cut(y, b, e + 1, r), Inside(x, y, r)
             PROVE  t[y] = t[x] + TokenLen(x, y - 1)
  BY DEF Adds
<1>1. x <= n
  <2>1. SUFFICES ASSUME x > n PROVE FALSE
    OBVIOUS
  <2>2. x - 1 \in n..(e - 1) /\ x \notin {b, e + 1}
    BY <2>1
  <2> QED
    BY <2>2 DEF Cut
<1>2. CASE y = e + 1
  <2>1. x = n
    <3>1. SUFFICES ASSUME x < n PROVE FALSE
      BY <1>1
    <3>2. n - 1 \in x..(y - 2) /\ doc.gap[n - 1] = r
      BY <1>2, <3>1
    <3> QED
      BY <3>2 DEF Inside
  <2>2. t[e + 1] = s[n] + TokenLen(n, e) /\ t[n] = s[n] /\ e + 1 - 1 = e
    OBVIOUS
  <2> QED
    BY <1>2, <2>1, <2>2
<1>3. CASE y # e + 1
  <2>1. y <= n
    <3>1. SUFFICES ASSUME y > n PROVE FALSE
      OBVIOUS
    <3>2. y - 1 \in n..(e - 1) /\ y \notin {b, e + 1}
      BY <1>3, <3>1
    <3> QED
      BY <3>2 DEF Cut
  <2>2. Cut(x, b, n, r) /\ Cut(y, b, n, r)
    BY <1>3, <2>1 DEF Cut
  <2>3. s[y] = s[x] + TokenLen(x, y - 1)
    BY <2>1, <2>2 DEF Adds
  <2>4. t[x] = s[x] /\ t[y] = s[y]
    BY <2>1
  <2> QED
    BY <2>3, <2>4
<1> QED
  BY <1>2, <1>3

\* The same segments, from a later one on.
LEMMA AddsFrom ==
    ASSUME NEW s, NEW b \in Nat, NEW n \in Nat, NEW f \in b..n, NEW r,
           Adds(s, b, n, r), Cut(f, b, n, r)
    PROVE  Adds(s, f, n, r)
<1>1. \A x \in f..n : x \in b..n /\ (Cut(x, f, n, r) => Cut(x, b, n, r))
  BY DEF Cut
<1> QED
  BY <1>1 DEF Adds

\* The parts of the sums are state functions of the same document.
LEMMA AddsPrimed ==
    ASSUME doc' = doc, NEW s
    PROVE  Adds(s, Base, Top.next, Top.rank)' <=> Adds(s, Base', Top'.next, Top'.rank)
BY DEF Adds, Cut, Inside, TokenLen, Chars

\* A list that is empty again counts nothing.
LEMMA FreshTail ==
    ASSUME doc' = doc, low' = 0, tokens' = 0, from' = Top'.next, Top'.next \in Nat
    PROVE  SumsOK'
<1> DEFINE s == [x \in Nat |-> 0]
<1>1. Base' = Top'.next
  BY DEF Base
<1>2. s \in [Nat -> Nat] /\ s[Top'.next] = 0
  OBVIOUS
<1>3. Adds(s, Base', Top'.next, Top'.rank)
  BY <1>1 DEF Adds
<1>4. Adds(s, Base, Top.next, Top.rank)'
  BY <1>3, AddsPrimed
<1> HIDE DEF s
<1> QED
  BY <1>1, <1>2, <1>4 DEF SumsOK

\* The frame on top when the call moves on.
LEMMA AdvancedTop ==
    ASSUME Ready, NEW e \in Top.next..Top.last, frames' = Advanced(e)
    PROVE  Top'.next = e + 1 /\ Top'.last = Top.last /\ Top'.rank = Top.rank
BY AdvanceFacts DEF Top

\* A segment that joins "current" joins the sum.
LEMMA SumsExtended ==
    ASSUME Ready, SameBuffer, NEW e \in Top.next..Top.last, Segment(e),
           frames' = Advanced(e), tokens' = tokens + Weight(e), low' = 0, from' = from,
           from < Top.next => doc.gap[Top.next - 1] = Top.rank,
           NEW s \in [Nat -> Nat], Adds(s, from, Top.next, Top.rank),
           s[Top.next] = tokens + s[from]
    PROVE  SumsOK'
<1> DEFINE n == Top.next
           t == [s EXCEPT ![e + 1] = s[n] + TokenLen(n, e)]
<1>1. /\ n \in Nat /\ e \in Nat /\ n <= e /\ from \in Nat /\ from <= n
      /\ tokens \in Nat /\ Weight(e) \in Nat /\ Top.last \in Nat
  <2>1. Top.next \in Nat /\ Top.last \in Nat /\ Weight(e) \in Nat
    BY TopFacts, SegmentFacts DEF Frame
  <2>2. from \in Lo..Top.next /\ Lo \in 1..(N + 1) /\ N \in Nat /\ tokens \in Nat
    BY TopFacts
  <2> HIDE DEF t
  <2> QED
    BY <2>1, <2>2
<1>2. Top'.next = e + 1 /\ Top'.last = Top.last /\ Top'.rank = Top.rank
  BY AdvancedTop
<1>3. Base' = from /\ doc' = doc
  BY DEF Base, SameBuffer
<1>4. \A i \in n..(e - 1) : doc.gap[i] # Top.rank
  BY DEF Segment
<1>5. Adds(t, from, e + 1, Top.rank)
  <2> HIDE DEF t
  <2>1. t = [s EXCEPT ![e + 1] = s[n] + TokenLen(n, e)]
    BY DEF t
  <2> QED
    BY <1>1, <1>4, <2>1, AddsSegment
<1>6. t \in [Nat -> Nat] /\ t[e + 1] = tokens' + t[from]
  <2>1. s[n] \in Nat /\ s[from] \in Nat /\ TokenLen(n, e) = Weight(e)
    BY <1>1 DEF Weight
  <2>2. t \in [Nat -> Nat] /\ t[e + 1] = s[n] + Weight(e) /\ t[from] = s[from]
    BY <1>1, <2>1
  <2> HIDE DEF t
  <2> QED
    BY <1>1, <2>1, <2>2
<1>7. Top'.next <= Top'.last => doc'.gap[Top'.next - 1] = Top'.rank
  <2>1. e + 1 <= Top.last => e # Top.last
    BY <1>1
  <2>2. e # Top.last => doc.gap[e] = Top.rank
    BY DEF Segment
  <2>3. e + 1 - 1 = e
    BY <1>1
  <2> QED
    BY <1>2, <1>3, <2>1, <2>2, <2>3
<1> HIDE DEF t
<1>8. PICK u : u = t
  OBVIOUS
<1>9. Adds(u, Base, Top.next, Top.rank)'
  BY <1>2, <1>3, <1>5, <1>8, AddsPrimed
<1>10. u \in [Nat -> Nat] /\ u[Top'.next] = tokens' + u[from']
  BY <1>2, <1>6, <1>8
<1> QED
  BY <1>3, <1>7, <1>9, <1>10 DEF SumsOK

\* The new run is such a successor if "current" was one; the list behind it
\* is not.
LEMMA CloseRepeats ==
    ASSUME Ready, low = 0, RepeatsOK(chunks), NextRepeats, NEW c, c = WithCurrent
    PROVE  /\ c \in Seq(Run) /\ RepeatsOK(c)
           /\ Len(c) > 0 => c[Len(c)].first < Top.next
           /\ from < Top.next => Len(c) > 0 /\ c[Len(c)] = Current
<1>1. c \in Seq(Run) /\ RunsOK(c) /\ EndBefore(c, Top.next) /\ chunks \in Seq(Run)
  BY CloseFacts DEF Ready, TypeOK
<1>2. Len(c) > 0 => c[Len(c)].first < Top.next
  <2>1. SUFFICES ASSUME Len(c) > 0 PROVE c[Len(c)].first < Top.next
    OBVIOUS
  <2>2. Len(c) \in 1..Len(c)
    BY <1>1, <2>1, LenProperties
  <2>3. c[Len(c)].first <= c[Len(c)].last /\ c[Len(c)].last < Top.next
    BY <1>1, <2>2 DEF RunsOK, EndBefore
  <2>4. c[Len(c)] \in Run /\ Top.next \in Nat
    BY <1>1, <2>2, ElementOfSeq, TopFacts DEF Frame
  <2> QED
    BY <2>3, <2>4 DEF Run
<1>3. CASE ~(from < Top.next)
  BY <1>1, <1>2, <1>3 DEF WithCurrent
<1>4. CASE from < Top.next
  <2> DEFINE m == Len(chunks)
  <2>1. c = Append(chunks, Current) /\ Current \in Run /\ Current.first = from
    BY <1>4, TopFacts, SMTT(30) DEF WithCurrent, Current, Run
  <2>2. /\ m \in Nat /\ Len(c) = m + 1 /\ c[m + 1] = Current
        /\ \A i \in 1..m : c[i] = chunks[i]
    BY <1>1, <2>1, AppendProperties, LenProperties
  <2>3. ASSUME NEW i \in 1..m, c[i + 1].first <= c[i].first
        PROVE  c[i].tokens <= Overlap
    <3>1. CASE i = m
      BY <2>1, <2>2, <2>3, <3>1 DEF NextRepeats, Newest
    <3>2. CASE i # m
      <4>1. i \in 1..(Len(chunks) - 1) /\ i + 1 \in 1..m
        BY <2>2, <3>2
      <4> QED
        BY <2>2, <2>3, <4>1 DEF RepeatsOK
    <3> QED
      BY <3>1, <3>2
  <2>4. RepeatsOK(c)
    <3>1. \A i \in 1..(Len(c) - 1) : i \in 1..m
      BY <2>2
    <3> QED
      BY <2>3, <3>1 DEF RepeatsOK
  <2> QED
    BY <1>1, <1>2, <2>2, <2>4
<1> QED
  BY <1>3, <1>4

\* A segment joins "current".
LEMMA TakeTail ==
    ASSUME Ready, SameBuffer, SumsOK, NextRepeats, NEW e \in Top.next..Top.last, Take(e)
    PROVE  SumsOK' /\ NextRepeats'
<1>1. /\ low = 0 /\ low' = 0 /\ Segment(e) /\ frames' = Advanced(e)
      /\ tokens' = tokens + Weight(e) /\ from' = from /\ chunks' = chunks
  BY DEF Take
<1>2. Base = from /\ Top.next <= Top.last
  BY <1>1, TopFacts DEF Base, Frame
<1>3. PICK s \in [Nat -> Nat] : Adds(s, from, Top.next, Top.rank)
                              /\ s[Top.next] = tokens + s[from]
  BY <1>2 DEF SumsOK
<1>4. SumsOK'
  BY <1>1, <1>2, <1>3, SumsExtended DEF SumsOK
<1> QED
  BY <1>1, <1>4 DEF NextRepeats, Newest

\* The chunk is closed: its segments are those of "current".
LEMMA CloseTail ==
    ASSUME Ready, SameBuffer, SumsOK, NextRepeats, RepeatsOK(chunks),
           NEW e \in Top.next..Top.last, Close(e)
    PROVE  SumsOK' /\ NextRepeats'
<1>1. /\ low = 0 /\ from < Top.next /\ chunks' = WithCurrent /\ frames' = frames
      /\ low' = from /\ from' = Top.next /\ tokens' = 0
  BY DEF Close
<1>2. /\ Base = from /\ Base' = from /\ low' # 0 /\ Top' = Top /\ doc' = doc
      /\ Top.next <= Top.last /\ Top.next \in Nat /\ from \in Nat \ {0} /\ tokens \in Nat
  <2>1. from \in Lo..Top.next /\ Lo \in 1..(N + 1) /\ N \in Nat /\ tokens \in Nat
    BY TopFacts
  <2>2. Top.next \in Nat /\ Top.last \in Nat
    BY TopFacts DEF Frame
  <2>3. Top.next <= Top.last /\ from \in Nat \ {0}
    BY <2>1, <2>2
  <2>4. Top' = Top /\ doc' = doc
    BY <1>1 DEF Top, SameBuffer
  <2>5. Base = from /\ Base' = from
    BY <1>1, <2>3 DEF Base
  <2> QED
    BY <1>1, <2>1, <2>2, <2>3, <2>4, <2>5
<1>3. Len(chunks') > 0 /\ Newest' = Current
  BY <1>1, CloseRepeats DEF Newest
<1>4. PICK s \in [Nat -> Nat] : Adds(s, from, Top.next, Top.rank)
                              /\ s[Top.next] = tokens + s[from]
  BY <1>2 DEF SumsOK
<1>5. Adds(s, Base, Top.next, Top.rank)'
  BY <1>2, <1>4, AddsPrimed
<1>6. Newest'.first = from /\ Newest'.tokens = tokens
  BY <1>3 DEF Current
<1>7. doc.gap[Top.next - 1] = Top.rank
  BY <1>1, <1>2 DEF SumsOK
<1>8. s[Top'.next] = tokens' + s[from'] /\ s[Top'.next] = Newest'.tokens + s[low']
  <2>1. s[Top.next] \in Nat
    BY <1>2, <1>4
  <2>2. s[Top.next] = 0 + s[Top.next]
    BY <2>1
  <2> QED
    BY <1>1, <1>2, <1>4, <1>6, <2>2, Zenon
<1>9. /\ Base' < Top'.next /\ Top'.next <= Top'.last
      /\ doc'.gap[Top'.next - 1] = Top'.rank /\ doc'.gap[from' - 1] = Top'.rank
      /\ low' < Top'.next /\ low' <= from' /\ Len(chunks') > 0 /\ Newest'.first = low'
  BY <1>1, <1>2, <1>3, <1>6, <1>7, SMTT(30)
<1>10. NextRepeats'
  BY <1>2 DEF NextRepeats
<1>11. \E u \in [Nat -> Nat] :
         /\ Adds(u, Base, Top.next, Top.rank)'
         /\ u[Top'.next] = tokens' + u[from']
         /\ u[Top'.next] = Newest'.tokens + u[low']
  BY <1>4, <1>5, <1>8
<1> QED
  BY <1>9, <1>10, <1>11 DEF SumsOK

\* The segment carried over is the last one not yet counted.
LEMMA KeepTailTail ==
    ASSUME Ready, SameBuffer, SumsOK, NEW p \in low..(from - 1), KeepTail(p)
    PROVE  SumsOK' /\ NextRepeats'
<1>1. /\ low # 0 /\ low' = low /\ frames' = frames /\ chunks' = chunks
      /\ from' = p /\ tokens' = tokens + TokenLen(p, from - 1)
  BY DEF KeepTail
<1>2. /\ p # low => doc.gap[p - 1] = Top.rank
      /\ \A i \in p..(from - 2) : doc.gap[i] # Top.rank
  BY DEF KeepTail, TailFits, LastSegment
<1>3. /\ Base = low /\ Base' = low /\ Top' = Top /\ Newest' = Newest /\ doc' = doc
  BY <1>1 DEF Base, Top, Newest, SameBuffer
<1>4. /\ low \in Nat /\ from \in Nat /\ Top.next \in Nat /\ from <= Top.next
      /\ tokens \in Nat /\ p \in Nat /\ low <= p /\ p < from
      /\ TokenLen(p, from - 1) \in Nat
  <2>1. /\ from \in Lo..Top.next /\ Lo \in 1..(N + 1) /\ N \in Nat /\ tokens \in Nat
        /\ Top.next \in Lo..(N + 1) /\ low \in Nat
    BY TopFacts
  <2>2. p \in 1..(N + 1) /\ from - 1 \in 0..N
    BY <1>1, <2>1
  <2>3. TokenLen(p, from - 1) \in Nat
    BY <2>2, TokenLenNat DEF Ready
  <2> QED
    BY <2>1, <2>3
<1>5. PICK s \in [Nat -> Nat] : /\ Adds(s, low, Top.next, Top.rank)
                                /\ s[Top.next] = tokens + s[from]
                                /\ s[Top.next] = Newest.tokens + s[low]
  BY <1>1, <1>3 DEF SumsOK
<1>6. from = low \/ doc.gap[from - 1] = Top.rank
  BY <1>1 DEF SumsOK
<1>7. s[from] = s[p] + TokenLen(p, from - 1)
  <2>1. p \in low..Top.next /\ from \in low..Top.next
    BY <1>4
  <2>2. Cut(p, low, Top.next, Top.rank) /\ Cut(from, low, Top.next, Top.rank)
    BY <1>2, <1>6 DEF Cut
  <2>3. Inside(p, from, Top.rank)
    BY <1>2 DEF Inside
  <2> QED
    BY <1>4, <1>5, <2>1, <2>2, <2>3 DEF Adds
<1>8. s[Top.next] = tokens' + s[p]
  <2>1. s[p] \in Nat /\ s[from] \in Nat
    BY <1>4, <1>5
  <2> QED
    BY <1>1, <1>4, <1>5, <1>7, <2>1
<1>9. Adds(s, Base, Top.next, Top.rank)'
  BY <1>3, <1>5, AddsPrimed
<1>10. /\ low < Top.next /\ Top.next <= Top.last /\ Len(chunks) > 0 /\ Newest.first = low
       /\ doc.gap[Top.next - 1] = Top.rank
  BY <1>1, <1>3 DEF SumsOK
<1> QED
  BY <1>1, <1>2, <1>3, <1>4, <1>5, <1>8, <1>9, <1>10 DEF SumsOK, NextRepeats

\* A tail that is the whole chunk has its count.
LEMMA EndTailTail ==
    ASSUME Ready, SameBuffer, SumsOK, NEW e \in Top.next..Top.last, EndTail(e)
    PROVE  SumsOK' /\ NextRepeats'
<1>1. /\ low # 0 /\ low' = 0 /\ Segment(e) /\ frames' = Advanced(e)
      /\ tokens' = tokens + Weight(e) /\ from' = from /\ chunks' = chunks
  BY DEF EndTail
<1>2. /\ Base = low /\ low < Top.next /\ Top.next <= Top.last /\ low <= from
      /\ from = low \/ doc.gap[from - 1] = Top.rank
      /\ Newest.first = low /\ doc.gap[Top.next - 1] = Top.rank
  BY <1>1 DEF SumsOK, Base
<1>3. PICK s \in [Nat -> Nat] : /\ Adds(s, low, Top.next, Top.rank)
                                /\ s[Top.next] = tokens + s[from]
                                /\ s[Top.next] = Newest.tokens + s[low]
  BY <1>1, <1>2 DEF SumsOK
<1>4. /\ low \in Nat /\ Top.next \in Nat /\ from \in low..Top.next /\ tokens \in Nat
      /\ chunks \in Seq(Run)
  <2>1. /\ from \in Lo..Top.next /\ Lo \in 1..(N + 1) /\ N \in Nat /\ tokens \in Nat
        /\ Top.next \in Lo..(N + 1) /\ low \in Nat
    BY TopFacts
  <2>2. chunks \in Seq(Run)
    BY DEF Ready, TypeOK
  <2>3. Top.next \in Nat /\ from \in low..Top.next
    BY <1>2, <2>1
  <2> QED
    BY <2>1, <2>2, <2>3
<1>5. Adds(s, from, Top.next, Top.rank)
  BY <1>2, <1>3, <1>4, AddsFrom DEF Cut
<1>6. SumsOK'
  BY <1>1, <1>2, <1>3, <1>5, SumsExtended
<1>7. Len(chunks) > 0 /\ from <= Newest.first => Newest.tokens <= Overlap
  <2>1. SUFFICES ASSUME Len(chunks) > 0, from <= Newest.first
                 PROVE  Newest.tokens <= Overlap
    OBVIOUS
  <2>2. from = low
    BY <1>2, <1>4, <2>1
  <2>3. Newest.tokens \in Nat
    <3>1. Len(chunks) \in 1..Len(chunks)
      BY <1>4, <2>1, LenProperties
    <3> QED
      BY <1>4, <3>1, RunTypes DEF Newest
  <2>4. s[low] \in Nat
    BY <1>3, <1>4
  <2>5. Newest.tokens + s[low] = tokens + s[low]
    BY <1>3, <2>2, Zenon
  <2>6. \A x, y, z \in Nat : x + z = y + z => x = y
    OBVIOUS
  <2>7. Newest.tokens = tokens
    BY <1>4, <2>3, <2>4, <2>5, <2>6, Zenon
  <2> QED
    BY <1>1, <2>7 DEF Ready, CurrentOK
<1> QED
  BY <1>1, <1>6, <1>7 DEF NextRepeats, Newest

\* A new call begins, or a call ends: the list is empty.
LEMMA DescendTail ==
    ASSUME Ready, SameBuffer, RepeatsOK(chunks), NextRepeats,
           NEW e \in Top.next..Top.last, Descend(e)
    PROVE  SumsOK' /\ NextRepeats' /\ RepeatsOK(chunks')
<1>1. PICK r \in Ranks :
        frames' = Append(Advanced(e), [rank |-> r, next |-> Top.next, last |-> e])
  BY DEF Descend
<1>2. /\ low = 0 /\ chunks' = WithCurrent
      /\ from' = Top.next /\ tokens' = 0 /\ low' = 0
  BY DEF Descend
<1>3. Top.next \in Nat \ {0} /\ e \in Nat
  BY TopFacts DEF Frame
<1> DEFINE f == Advanced(e)
           t == [rank |-> r, next |-> Top.next, last |-> e]
<1>4. t \in Frame /\ t.next = Top.next
  BY <1>3 DEF Frame
<1>5. f \in Seq(Frame)
  BY AdvanceFacts
<1>6. frames' = Append(f, t)
  BY <1>1
<1> HIDE DEF f, t
<1>7. Top' = t
  BY <1>4, <1>5, <1>6, AppendProperties DEF Top
<1>8. SumsOK'
  BY <1>2, <1>3, <1>4, <1>7, FreshTail DEF SameBuffer
<1>9. RepeatsOK(chunks') /\ (Len(chunks') > 0 => Newest'.first < Top.next)
  BY <1>2, CloseRepeats DEF Newest
<1>10. NextRepeats'
  <2>1. SUFFICES ASSUME Len(chunks') > 0 PROVE ~(from' <= Newest'.first)
    BY DEF NextRepeats
  <2>2. Newest'.first \in Nat
    <3>1. chunks' \in Seq(Run)
      BY <1>2, CloseFacts
    <3>2. Len(chunks') \in 1..Len(chunks')
      BY <2>1, <3>1, LenProperties
    <3> QED
      BY <3>1, <3>2, RunTypes DEF Newest
  <2> QED
    BY <1>2, <1>3, <1>9, <2>1, <2>2
<1> QED
  BY <1>8, <1>9, <1>10

\* The remainder becomes a chunk: its sums are those of the tail it began with.
LEMMA ReturnTail ==
    ASSUME Ready, SameBuffer, RepeatsOK(chunks), NextRepeats, Return
    PROVE  (~Idle' => SumsOK' /\ NextRepeats') /\ RepeatsOK(chunks')
<1>1. /\ low = 0 /\ chunks' = WithCurrent
      /\ from' = Top.next /\ tokens' = 0 /\ low' = 0
  BY DEF Return
<1>2. Top.next \in Nat \ {0}
  BY TopFacts DEF Frame
<1>3. ~Idle' => Top'.next = Top.next
  BY ReturnFrames DEF Idle
<1>4. ~Idle' => SumsOK'
  BY <1>1, <1>2, <1>3, FreshTail DEF SameBuffer
<1>5. RepeatsOK(chunks') /\ (Len(chunks') > 0 => Newest'.first < Top.next)
  BY <1>1, CloseRepeats DEF Newest
<1>6. NextRepeats'
  <2>1. SUFFICES ASSUME Len(chunks') > 0 PROVE ~(from' <= Newest'.first)
    BY DEF NextRepeats
  <2>2. Newest'.first \in Nat
    <3>1. chunks' \in Seq(Run)
      BY <1>1, CloseFacts
    <3>2. Len(chunks') \in 1..Len(chunks')
      BY <2>1, <3>1, LenProperties
    <3> QED
      BY <3>1, <3>2, RunTypes DEF Newest
  <2> QED
    BY <1>1, <1>2, <1>5, <2>1, <2>2
<1> QED
  BY <1>4, <1>5, <1>6

\* Every step of the chunker.
LEMMA SplitTail ==
    ASSUME Ready, SameBuffer, SumsOK, NextRepeats, RepeatsOK(chunks), Split
    PROVE  (~Idle' => SumsOK' /\ NextRepeats') /\ RepeatsOK(chunks')
<1>1. ASSUME NEW e \in Top.next..Top.last, Take(e) \/ EndTail(e)
      PROVE  SumsOK' /\ NextRepeats' /\ RepeatsOK(chunks')
  <2>1. chunks' = chunks
    BY <1>1 DEF Take, EndTail
  <2> QED
    BY <1>1, <2>1, TakeTail, EndTailTail
<1>2. ASSUME NEW e \in Top.next..Top.last, Close(e)
      PROVE  SumsOK' /\ NextRepeats' /\ RepeatsOK(chunks')
  <2>1. low = 0 /\ chunks' = WithCurrent
    BY <1>2 DEF Close
  <2>2. RepeatsOK(chunks')
    BY <2>1, CloseRepeats
  <2> QED
    BY <1>2, <2>2, CloseTail
<1>3. ASSUME NEW p \in low..(from - 1), KeepTail(p)
      PROVE  SumsOK' /\ NextRepeats' /\ RepeatsOK(chunks')
  <2>1. chunks' = chunks
    BY <1>3 DEF KeepTail
  <2> QED
    BY <1>3, <2>1, KeepTailTail
<1> QED
  BY <1>1, <1>2, <1>3, DescendTail, ReturnTail DEF Split

\* Payloads that follow the text repeat nothing of those before them.
LEMMA RepeatsAppended ==
    ASSUME RepeatsAreOverlap, TypeOK, NEW b \in Nat,
           NEW m \in Nat, m = Len(payloads), NEW n \in Nat, Len(payloads') = m + n,
           \A i \in 1..m : payloads'[i] = payloads[i] /\ payloads[i].last < b,
           \A j \in 1..n : b <= payloads'[m + j].first /\ payloads'[m + j].first \in Nat,
           \A j \in 1..(n - 1) :
              payloads'[m + j + 1].first <= payloads'[m + j].first
                => payloads'[m + j].tokens <= Overlap
    PROVE  RepeatsAreOverlap'
<1> SUFFICES ASSUME NEW i \in 1..(m + n - 1), ~Empty(payloads'[i]),
                    payloads'[i + 1].first <= payloads'[i].first
             PROVE  payloads'[i].tokens <= Overlap
  BY DEF RepeatsAreOverlap, Empty
<1>1. CASE i < m
  <2>1. i \in 1..m /\ i + 1 \in 1..m /\ i \in 1..(Len(payloads) - 1)
    BY <1>1
  <2> QED
    BY <2>1 DEF RepeatsAreOverlap
<1>2. CASE i = m
  <2>1. i \in 1..m /\ 1 \in 1..n /\ m + 1 = i + 1
    BY <1>2
  <2>2. payloads[i].first \in Nat /\ payloads[i].last \in Nat
    <3>1. i \in 1..Len(payloads)
      BY <2>1
    <3> QED
      BY <3>1, PayloadTypes
  <2>3. payloads'[i] = payloads[i] /\ payloads[i].last < b
    BY <2>1
  <2>4. b <= payloads'[i + 1].first /\ payloads'[i + 1].first \in Nat
    BY <2>1
  <2>5. payloads[i].first <= payloads[i].last
    BY <2>2, <2>3 DEF Empty
  <2> QED
    BY <2>2, <2>3, <2>4, <2>5
<1>3. CASE i > m
  <2>1. i - m \in 1..(n - 1) /\ m + (i - m) = i
    BY <1>3
  <2> QED
    BY <2>1
<1> QED
  BY <1>1, <1>2, <1>3

\* A chunker call begins with nothing to repeat.
LEMMA FlushTail ==
    ASSUME DcInv, Flush
    PROVE  (~Idle' => SumsOK' /\ NextRepeats') /\ RepeatsOK(chunks')
<1>1. /\ Begin(Lo, Hi) /\ held < line /\ UNCHANGED <<doc, line, held>>
      /\ pc = "reading"
  BY DEF Flush, MustFlush, Held, Lo, Hi
<1>2. frames = <<>> /\ chunks = <<>>
  BY <1>1 DEF DcInv, ReadingOK, Idle
<1>3. from' = Lo /\ tokens' = 0 /\ low' = 0
  BY <1>1 DEF Begin
<1>4. Lo \in Nat
  BY <1>1, BufferBounds DEF DcInv
<1>5. CASE TokenLen(Lo, Hi) <= Target
  <2>1. Idle' /\ \E r : chunks' = IF Lo > Hi THEN <<>> ELSE <<r>>
    BY <1>1, <1>2, <1>5 DEF Begin, Idle
  <2>2. Len(chunks') \in 0..1
    BY <2>1
  <2> QED
    BY <2>1, <2>2 DEF RepeatsOK
<1>6. CASE ~(TokenLen(Lo, Hi) <= Target)
  <2>1. chunks' = <<>>
    BY <1>1, <1>6 DEF Begin
  <2>2. PICK r \in Ranks : frames' = <<[rank |-> r, next |-> Lo, last |-> Hi]>>
    BY <1>1, <1>6 DEF Begin
  <2>3. Top'.next = Lo
    BY <2>2 DEF Top
  <2>4. SumsOK'
    BY <1>1, <1>3, <1>4, <2>3, FreshTail
  <2>5. Len(chunks') = 0
    BY <2>1
  <2> QED
    BY <2>4, <2>5 DEF NextRepeats, RepeatsOK
<1> QED
  BY <1>5, <1>6

\* What was repeated stays, and nothing is repeated across buffers.
LEMMA TailKept ==
    ASSUME DcInv, TailOK, [Next]_vars
    PROVE  TailOK'
<1>1. CASE Chunk
  <2>1. Ready /\ SameBuffer /\ Split
    BY <1>1 DEF Chunk, SameBuffer, DcInv, CallOK, Ready, Split
  <2>2. RepeatsAreOverlap'
    BY <2>1 DEF TailOK, RepeatsAreOverlap, Empty, SameBuffer
  <2> QED
    BY <2>1, <2>2, SplitTail DEF TailOK, Ready
<1>2. CASE Flush
  <2>1. RepeatsAreOverlap'
    BY <1>2 DEF Flush, TailOK, RepeatsAreOverlap, Empty
  <2> QED
    BY <1>2, <2>1, FlushTail DEF TailOK
<1>3. CASE Buffer \/ End
  <2>1. /\ pc = "reading" /\ UNCHANGED <<frames, chunks, payloads>>
    BY <1>3 DEF Buffer, End, call
  <2>2. Idle'
    BY <2>1 DEF DcInv, ReadingOK, Idle
  <2>3. RepeatsOK(chunks') /\ RepeatsAreOverlap'
    BY <2>1 DEF TailOK, RepeatsAreOverlap, Empty
  <2> QED
    BY <2>2, <2>3 DEF TailOK
<1>4. CASE Fails
  <2>1. Idle' /\ Len(chunks') = 0 /\ Len(payloads') = 0
    BY <1>4 DEF Fails, Idle
  <2> QED
    BY <2>1 DEF TailOK, RepeatsOK, RepeatsAreOverlap
<1>5. CASE Single
  <2> DEFINE p == [id |-> chunk_id, tag |-> Lines[line].tag, page |-> Lines[line].page,
                   first |-> Lines[line].first, last |-> Lines[line].last, tokens |-> 0]
  <2>1. /\ pc = "reading" /\ line <= Len(Lines) /\ ~Held
        /\ payloads' = Append(payloads, p) /\ UNCHANGED <<frames, chunks>>
    BY <1>5 DEF Single, call
  <2>2. /\ TypeOK /\ held = line /\ line \in 1..Len(Lines) /\ payloads \in Seq(Payload)
    BY <2>1 DEF DcInv, TypeOK, Held
  <2>3. PICK m \in Nat : m = Len(payloads)
    BY <2>2, LenProperties
  <2>4. Lo \in Nat /\ p.first = Lo
    BY <2>2, DocumentFacts DEF Lo, Line, DcInv
  <2>5. p \in Payload
    BY <2>2, DocumentFacts DEF Line, Payload, DcInv, TypeOK
  <2> HIDE DEF p
  <2>6. /\ Len(payloads') = m + 1 /\ payloads'[m + 1] = p
        /\ \A i \in 1..m : payloads'[i] = payloads[i]
    BY <2>1, <2>2, <2>3, <2>5, AppendProperties
  <2>7. \A i \in 1..m : payloads[i].last < Lo
    BY <2>2, <2>3 DEF DcInv, EndsOK
  <2>8. RepeatsAreOverlap'
    <3>1. \A j \in 1..1 : Lo <= payloads'[m + j].first /\ payloads'[m + j].first \in Nat
      BY <2>4, <2>6
    <3>2. \A j \in 1..(1 - 1) :
             payloads'[m + j + 1].first <= payloads'[m + j].first
               => payloads'[m + j].tokens <= Overlap
      OBVIOUS
    <3> QED
      BY <2>2, <2>3, <2>4, <2>6, <2>7, <3>1, <3>2, RepeatsAppended DEF TailOK
  <2>9. Idle' /\ RepeatsOK(chunks')
    BY <2>1 DEF DcInv, ReadingOK, Idle, TailOK
  <2> QED
    BY <2>8, <2>9 DEF TailOK
<1>6. CASE Number
  <2>1. PICK m, n \in Nat :
          /\ m = Len(payloads) /\ n = Len(chunks) /\ Len(payloads') = m + n
          /\ \A i \in 1..m : payloads'[i] = payloads[i]
          /\ \A j \in 1..n : /\ payloads'[m + j].first = chunks[j].first
                              /\ payloads'[m + j].tokens = chunks[j].tokens
    BY <1>6, NumberAppends
  <2>2. /\ pc = "splitting" /\ Idle /\ held < line /\ RunsOK(chunks) /\ TypeOK
        /\ chunks \in Seq(Run) /\ doc \in Documents
        /\ chunks' = <<>> /\ frames' = frames
    BY <1>6 DEF Number, DcInv, CallOK, ChunksOK, TypeOK
  <2>3. Lo \in Nat /\ held <= Len(Lines)
    BY <2>2, BufferBounds
  <2>4. \A i \in 1..m : payloads[i].last < Lo
    BY <2>1, <2>3 DEF DcInv, EndsOK
  <2>5. \A j \in 1..n : Lo <= chunks[j].first /\ chunks[j].first \in Nat
    BY <2>1, <2>2, RunTypes DEF RunsOK
  <2>6. ASSUME NEW j \in 1..(n - 1), payloads'[m + j + 1].first <= payloads'[m + j].first
        PROVE  payloads'[m + j].tokens <= Overlap
    <3>1. j \in 1..n /\ j + 1 \in 1..n /\ m + (j + 1) = m + j + 1
      OBVIOUS
    <3>2. chunks[j + 1].first <= chunks[j].first
      BY <2>1, <2>6, <3>1
    <3>3. chunks[j].tokens <= Overlap
      BY <2>1, <3>2 DEF TailOK, RepeatsOK
    <3> QED
      BY <2>1, <3>1, <3>3
  <2>7. /\ m = Len(payloads) /\ Len(payloads') = m + n
        /\ \A i \in 1..m : payloads'[i] = payloads[i] /\ payloads[i].last < Lo
        /\ \A j \in 1..n : Lo <= payloads'[m + j].first /\ payloads'[m + j].first \in Nat
    BY <2>1, <2>4, <2>5
  <2>8. RepeatsAreOverlap'
    BY <2>2, <2>3, <2>6, <2>7, RepeatsAppended DEF TailOK
  <2>9. Idle' /\ Len(chunks') = 0
    BY <2>2 DEF Idle
  <2> QED
    BY <2>8, <2>9 DEF TailOK, RepeatsOK
<1>7. CASE UNCHANGED vars
  <2>1. UNCHANGED <<doc, frames, from, tokens, low, chunks, payloads>>
    BY <1>7 DEF vars, call
  <2>2. Base' = Base /\ Top' = Top /\ Newest' = Newest /\ (Idle' <=> Idle) /\ doc' = doc
    BY <2>1 DEF Base, Top, Newest, Idle
  <2>3. ~Idle => SumsOK'
    <3>1. SUFFICES ASSUME ~Idle PROVE SumsOK'
      OBVIOUS
    <3>2. PICK s \in [Nat -> Nat] : /\ Adds(s, Base, Top.next, Top.rank)
                                    /\ s[Top.next] = tokens + s[from]
                                    /\ low # 0 => s[Top.next] = Newest.tokens + s[low]
      BY <3>1 DEF TailOK, SumsOK
    <3>3. Adds(s, Base, Top.next, Top.rank)'
      BY <2>2, <3>2, AddsPrimed
    <3>4. \E u \in [Nat -> Nat] : /\ Adds(u, Base, Top.next, Top.rank)'
                                  /\ u[Top'.next] = tokens' + u[from']
                                  /\ low' # 0 => u[Top'.next] = Newest'.tokens + u[low']
      BY <2>1, <2>2, <3>2, <3>3
    <3>5. SumsOK
      BY <3>1 DEF TailOK
    <3> QED
      BY <2>1, <2>2, <3>4, <3>5 DEF SumsOK
  <2>4. (NextRepeats' <=> NextRepeats) /\ RepeatsOK(chunks')
    BY <2>1, <2>2 DEF NextRepeats, TailOK
  <2>5. RepeatsAreOverlap'
    BY <2>1 DEF TailOK, RepeatsAreOverlap, Empty
  <2> QED
    BY <2>2, <2>3, <2>4, <2>5 DEF TailOK
<1> QED
  BY <1>1, <1>2, <1>3, <1>4, <1>5, <1>6, <1>7 DEF Next, Parse

\* A reader of the payloads in their order reads the text in its order: the
\* ends advance, and what a payload repeats in full is an overlap.
THEOREM InSourceOrderHolds == Spec => []InSourceOrder
<1>1. Init => TailOK
  <2>1. Init => Idle /\ Len(chunks) = 0 /\ Len(payloads) = 0
    BY DEF Init, Idle
  <2> QED
    BY <2>1 DEF TailOK, RepeatsOK, RepeatsAreOverlap
<1>2. DcInv /\ TailOK /\ [Next]_vars => TailOK'
  BY TailKept
<1>3. TailOK /\ EndsAdvance => InSourceOrder
  BY DEF TailOK, InSourceOrder
<1> QED
  BY <1>1, <1>2, <1>3, DcSpec, EndsAdvanceHolds, PTL DEF Spec

(***************************************************************************)
(* Why parsing ends.  A call of recursive_split works with a weaker        *)
(* separator than its caller, so the calls are five deep at most.  Every   *)
(* step of the parser lowers a measure, in the lexicographic order of five *)
(* numbers: the lines to come, the stage of the buffer, the letters to     *)
(* segment, the separators left (or, for a call that is done, the calls    *)
(* that wait for it) and the letters before the tail that is looked for.   *)
(***************************************************************************)

\* No gap of a call is stronger than its separator.
Ranked(f) ==
    \A i \in 1..Len(f) :
        /\ f[i].rank <= 5 - i
        /\ \A x \in f[i].next..(f[i].last - 1) : doc.gap[x] <= f[i].rank
RanksOK == Ranked(frames)

Stage ==
    CASE pc = "reading" /\ Held -> 3
      [] pc = "splitting" -> 2
      [] pc = "reading" /\ ~Held -> 1
      [] OTHER -> 0

ToSegment == IF Idle THEN 0 ELSE N + 2 - Top.next

Level ==
    CASE Idle -> 0
      [] ~Idle /\ Top.next <= Top.last -> Top.rank
      [] OTHER -> 5 + Len(frames)

BeforeTail == IF low = 0 THEN N + 2 ELSE from

Measure ==
    [i \in 1..5 |-> CASE i = 1 -> Len(Lines) + 1 - line
                      [] i = 2 -> Stage
                      [] i = 3 -> ToSegment
                      [] i = 4 -> Level
                      [] i = 5 -> BeforeTail]

Lower == LexProductOrdering(OpToRel(<, Nat), Nat, 5)
Falling == <<Measure', Measure>> \in Lower

\* A separator of a segment that holds none of the call's own is weaker.
LEMMA WeakerSeparator ==
    ASSUME Ready, RanksOK, NEW e \in Top.next..Top.last, Segment(e), TooLarge(e),
           NEW r \in Ranks, IsStrongest(r, Top.next, e)
    PROVE  r < Top.rank
<1>1. /\ Top.rank \in Ranks /\ Top.rank # 0 /\ Top.next \in Nat /\ Top.last \in Nat
  BY TopFacts DEF TooLarge, Frame
<1>2. CASE r = 0
  BY <1>1, <1>2 DEF Ranks
<1>3. CASE r # 0
  <2>1. PICK x \in Top.next..(e - 1) : doc.gap[x] = r
    BY <1>3 DEF IsStrongest
  <2>2. doc.gap[x] # Top.rank
    BY <2>1 DEF Segment
  <2>3. x \in Top.next..(Top.last - 1)
    BY <1>1, <2>1
  <2>4. Len(frames) \in 1..Len(frames)
    BY TopFacts
  <2>5. doc.gap[x] <= Top.rank
    BY <2>3, <2>4 DEF RanksOK, Ranked, Top
  <2> QED
    BY <1>1, <2>1, <2>2, <2>5 DEF Ranks
<1> QED
  BY <1>2, <1>3

\* Moving on leaves a call with fewer letters.
LEMMA AdvanceRanked ==
    ASSUME Ready, RanksOK, NEW e \in Top.next..Top.last, NEW f, f = Advanced(e)
    PROVE  Ranked(f)
<1> DEFINE L == Len(frames)
<1>1. /\ f \in Seq(Frame) /\ Len(f) = L /\ L \in Nat \ {0}
      /\ f[L].next = e + 1 /\ f[L].last = Top.last /\ f[L].rank = Top.rank
  BY AdvanceFacts, TopFacts
<1>2. \A i \in 1..L : i # L => f[i] = frames[i]
  BY DEF Advanced, Ready, TypeOK
<1>3. Top.next \in Nat /\ Top.last \in Nat
  BY TopFacts DEF Frame
<1>4. \A x \in (e + 1)..(Top.last - 1) : x \in Top.next..(Top.last - 1)
  BY <1>3
<1>5. /\ frames[L].rank <= 5 - L
      /\ \A x \in Top.next..(Top.last - 1) : doc.gap[x] <= Top.rank
  BY <1>1 DEF RanksOK, Ranked, Top
<1>6. ASSUME NEW i \in 1..L
      PROVE  /\ f[i].rank <= 5 - i
             /\ \A x \in f[i].next..(f[i].last - 1) : doc.gap[x] <= f[i].rank
  <2>1. CASE i = L
    BY <1>1, <1>4, <1>5, <2>1 DEF Top
  <2>2. CASE i # L
    BY <1>2, <2>2 DEF RanksOK, Ranked
  <2> QED
    BY <2>1, <2>2
<1> QED
  BY <1>1, <1>6 DEF Ranked

\* What a descent leaves: one call more, for the letters of the segment.
LEMMA DescendFrames ==
    ASSUME Ready, RanksOK, NEW e \in Top.next..Top.last, Descend(e),
           NEW L, L = Len(frames)
    PROVE  /\ Len(frames') = L + 1 /\ frames' # <<>>
           /\ Top'.next = Top.next /\ Top'.last = e /\ Top'.rank < Top.rank
           /\ Top'.rank \in Ranks
           /\ Ranked(frames')
<1>1. PICK r \in Ranks :
        /\ IsStrongest(r, Top.next, e)
        /\ frames' = Append(Advanced(e), [rank |-> r, next |-> Top.next, last |-> e])
  BY DEF Descend
<1>2. r < Top.rank
  BY <1>1, WeakerSeparator DEF Descend
<1>3. Top.next \in Nat \ {0} /\ e \in Nat /\ L \in Nat \ {0} /\ L \in 1..L
  BY TopFacts DEF Frame
<1>4. Top.rank <= 5 - L /\ Top.rank \in Ranks
  BY <1>3, TopFacts DEF RanksOK, Ranked, Top, Frame
<1> DEFINE f == Advanced(e)
           t == [rank |-> r, next |-> Top.next, last |-> e]
<1>5. t \in Frame /\ t.rank = r /\ t.next = Top.next /\ t.last = e
  BY <1>3 DEF Frame
<1>6. f \in Seq(Frame) /\ Len(f) = L /\ Ranked(f)
  <2>1. f \in Seq(Frame) /\ Len(f) = Len(frames)
    BY AdvanceFacts
  <2>2. Ranked(f)
    BY AdvanceRanked
  <2> QED
    BY <2>1, <2>2
<1>7. frames' = Append(f, t)
  BY <1>1
<1> HIDE DEF f, t
<1>8. /\ Len(frames') = L + 1 /\ frames' # <<>>
      /\ \A i \in 1..L : frames'[i] = f[i]
      /\ frames'[L + 1] = t
  BY <1>3, <1>5, <1>6, <1>7, AppendProperties
<1>9. Top' = t
  BY <1>8 DEF Top
<1>10. \A x \in Top.next..(e - 1) : doc.gap[x] <= r
  BY <1>1 DEF IsStrongest
<1>11. r <= 5 - (L + 1)
  BY <1>2, <1>3, <1>4 DEF Ranks
<1>12. \A i \in 1..(L + 1) : i \in 1..L \/ i = L + 1
  BY <1>3
<1>13. Ranked(frames')
  BY <1>5, <1>6, <1>8, <1>10, <1>11, <1>12 DEF Ranked
<1> QED
  BY <1>2, <1>5, <1>8, <1>9, <1>13

\* Every step of the chunker keeps the separators in order.
LEMMA SplitRanked == Ready /\ SameBuffer /\ RanksOK /\ Split => RanksOK'
<1> SUFFICES ASSUME Ready, SameBuffer, RanksOK, Split PROVE RanksOK'
  OBVIOUS
<1>1. SUFFICES Ranked(frames')
  BY DEF RanksOK, Ranked, SameBuffer
<1>2. ASSUME NEW e \in Top.next..Top.last, Descend(e)
      PROVE  Ranked(frames')
  BY <1>2, DescendFrames
<1>3. ASSUME NEW e \in Top.next..Top.last, Take(e) \/ EndTail(e)
      PROVE  Ranked(frames')
  <2>1. frames' = Advanced(e)
    BY <1>3 DEF Take, EndTail
  <2> QED
    BY <2>1, AdvanceRanked
<1>4. CASE frames' = frames
  BY <1>4 DEF RanksOK
<1>5. CASE Return
  <2>1. /\ Len(frames) \in Nat \ {0} /\ Len(frames') = Len(frames) - 1
        /\ \A i \in 1..(Len(frames) - 1) : frames'[i] = frames[i]
    BY <1>5, ReturnFrames
  <2>2. \A i \in 1..(Len(frames) - 1) : i \in 1..Len(frames)
    BY <2>1
  <2> QED
    BY <2>1, <2>2 DEF RanksOK, Ranked
<1> QED
  BY <1>2, <1>3, <1>4, <1>5 DEF Split, Close, KeepTail

\* The chunker begins with the strongest separator of the text.
LEMMA BeginRanked ==
    ASSUME NEW a \in Int, NEW b \in Int, Idle, Begin(a, b)
    PROVE  Ranked(frames')
<1>1. CASE frames' = <<>>
  BY <1>1 DEF Ranked
<1>2. CASE ~(TokenLen(a, b) <= Target)
  <2>1. PICK r \in Ranks : /\ IsStrongest(r, a, b)
                           /\ frames' = <<[rank |-> r, next |-> a, last |-> b]>>
    BY <1>2 DEF Begin
  <2> DEFINE t == [rank |-> r, next |-> a, last |-> b]
  <2>2. t.rank = r /\ t.next = a /\ t.last = b
    OBVIOUS
  <2>3. frames' = <<t>>
    BY <2>1
  <2> HIDE DEF t
  <2>4. Len(frames') = 1 /\ frames'[1] = t
    BY <2>3
  <2>5. \A x \in a..(b - 1) : doc.gap[x] <= r
    BY <2>1 DEF IsStrongest
  <2>6. r <= 5 - 1
    BY DEF Ranks
  <2> QED
    BY <2>2, <2>4, <2>5, <2>6 DEF Ranked
<1> QED
  BY <1>1, <1>2 DEF Begin, Idle

LEMMA RanksKept == DcInv /\ RanksOK /\ [Next]_vars => RanksOK'
<1> SUFFICES ASSUME DcInv, RanksOK, [Next]_vars PROVE RanksOK'
  OBVIOUS
<1>1. CASE Chunk
  <2>1. Ready /\ SameBuffer /\ Split
    BY <1>1 DEF Chunk, SameBuffer, DcInv, CallOK, Ready, Split
  <2> QED
    BY <2>1, SplitRanked
<1>2. CASE Flush
  <2>1. Begin(Lo, Hi) /\ held < line /\ doc' = doc /\ pc = "reading"
    BY <1>2 DEF Flush, MustFlush, Held, Lo, Hi
  <2>2. Idle /\ Lo \in Int /\ Hi \in Int
    BY <2>1, BufferBounds DEF DcInv, ReadingOK
  <2>3. Ranked(frames')
    BY <2>1, <2>2, BeginRanked
  <2> QED
    BY <2>1, <2>3 DEF RanksOK, Ranked
<1>3. CASE UNCHANGED <<doc, frames>>
  BY <1>3 DEF RanksOK, Ranked
<1>4. CASE Fails
  <2>1. frames' = <<>>
    BY <1>4 DEF Fails
  <2> QED
    BY <2>1 DEF RanksOK, Ranked
<1> QED
  BY <1>1, <1>2, <1>3, <1>4
  DEF Next, Parse, Buffer, Single, Number, End, vars, call

LEMMA RanksSpec == Spec => []RanksOK
<1>1. Init => RanksOK
  BY DEF Init, RanksOK, Ranked
<1> QED
  BY <1>1, RanksKept, DcSpec, PTL DEF Spec

\* Five separators, so five calls inside each other at most.
THEOREM FiveCallsDeep == Spec => [](Len(frames) <= 5)
<1>1. DcInv /\ RanksOK => Len(frames) <= 5
  <2> SUFFICES ASSUME DcInv, RanksOK, Len(frames) > 5 PROVE FALSE
    <3>1. Len(frames) \in Nat
      BY LenProperties DEF DcInv, TypeOK
    <3> QED
      BY <3>1
  <2>1. frames \in Seq(Frame) /\ Len(frames) \in Nat
    BY LenProperties DEF DcInv, TypeOK
  <2>2. 6 \in 1..Len(frames)
    BY <2>1
  <2>3. frames[6].rank \in Ranks
    <3>1. frames[6] \in Frame
      BY <2>1, <2>2, ElementOfSeq
    <3> QED
      BY <3>1 DEF Frame
  <2>4. frames[6].rank <= 5 - 6
    BY <2>2 DEF RanksOK, Ranked
  <2> QED
    BY <2>3, <2>4 DEF Ranks
<1> QED
  BY <1>1, DcSpec, RanksSpec, PTL

\* No sequence of measures falls for ever.
LEMMA NoEndlessFall == IsWellFoundedOn(Lower, [1..5 -> Nat])
<1>1. 5 \in Nat
  OBVIOUS
<1> QED
  BY <1>1, NatLessThanWellFounded, WFLexProductOrdering, Zenon DEF Lower

\* The order, spelled out.
LEMMA Falls ==
    ASSUME NEW m \in [1..5 -> Nat], NEW n \in [1..5 -> Nat], NEW j \in 1..5,
           n[j] < m[j], \A i \in 1..(j - 1) : n[i] = m[i]
    PROVE  <<n, m>> \in Lower
BY DEF Lower, LexProductOrdering, OpToRel

LEMMA CallInProgress == DcInv /\ ~Idle => Ready
BY DEF DcInv, ReadingOK, CallOK, Ready

\* The five numbers.
LEMMA MeasureType == DcInv => Measure \in [1..5 -> Nat]
<1> SUFFICES ASSUME DcInv PROVE Measure \in [1..5 -> Nat]
  OBVIOUS
<1>1. N \in Nat /\ Len(Lines) \in Nat
  BY DocumentFacts, LenProperties DEF DcInv
<1>2. Len(Lines) + 1 - line \in Nat
  BY <1>1 DEF DcInv, TypeOK
<1>3. Stage \in Nat
  BY DEF Stage
<1>4. ToSegment \in Nat /\ Level \in Nat
  <2>1. CASE Idle
    BY <2>1 DEF ToSegment, Level
  <2>2. CASE ~Idle
    <3>1. /\ Top.next \in Nat /\ Top.next <= N + 1 /\ Top.rank \in Nat
          /\ Len(frames) \in Nat
      BY <2>2, CallInProgress, TopFacts DEF Frame, Ranks
    <3>2. ToSegment \in Nat
      BY <1>1, <2>2, <3>1 DEF ToSegment
    <3>3. Level \in {Top.rank, 5 + Len(frames)}
      BY <2>2 DEF Level
    <3> QED
      BY <3>1, <3>2, <3>3
  <2> QED
    BY <2>1, <2>2
<1>5. BeforeTail \in Nat
  BY <1>1 DEF BeforeTail, DcInv, TypeOK
<1> QED
  BY <1>2, <1>3, <1>4, <1>5 DEF Measure

\* The chunker segments letters, goes down a separator, comes back to a
\* caller or shortens the tail.
LEMMA SplitFalls ==
    ASSUME Ready, SameBuffer, RanksOK, Split
    PROVE  \/ ToSegment' < ToSegment
           \/ ToSegment' = ToSegment /\ Level' < Level
           \/ ToSegment' = ToSegment /\ Level' = Level /\ BeforeTail' < BeforeTail
<1>1. N' = N
  BY DEF SameBuffer, N, Lines
<1>2. /\ N \in Nat /\ Top.next \in Nat \ {0} /\ Top.next <= N + 1 /\ Top.last \in Nat
      /\ Top.rank \in Ranks /\ Len(frames) \in Nat \ {0} /\ from \in Nat
      /\ from <= Top.next
  BY TopFacts DEF Frame
<1>3. /\ ToSegment = N + 2 - Top.next
      /\ Top.next <= Top.last => Level = Top.rank
      /\ ~(Top.next <= Top.last) => Level = 5 + Len(frames)
  BY DEF ToSegment, Level, Ready
<1>4. ASSUME NEW e \in Top.next..Top.last, Take(e) \/ EndTail(e)
      PROVE  ToSegment' < ToSegment
  <2>1. frames' = Advanced(e)
    BY <1>4 DEF Take, EndTail
  <2>2. ~Idle' /\ Top'.next = e + 1
    <3>1. Top'.next = e + 1
      BY <2>1, AdvancedTop
    <3>2. frames' \in Seq(Frame) /\ Len(frames') # 0
      BY <1>2, <2>1, AdvanceFacts
    <3>3. frames' # <<>>
      BY <3>2, EmptySeq
    <3> QED
      BY <3>1, <3>3 DEF Idle
  <2>3. ToSegment' = N + 2 - (e + 1)
    BY <1>1, <2>2 DEF ToSegment
  <2>4. Top.next <= e /\ e \in Int
    BY <1>2
  <2> QED
    BY <1>2, <1>3, <2>3, <2>4
<1>5. ASSUME NEW e \in Top.next..Top.last, Descend(e)
      PROVE  ToSegment' = ToSegment /\ Level' < Level
  <2>1. /\ frames' # <<>> /\ Top'.next = Top.next /\ Top'.last = e
        /\ Top'.rank < Top.rank
    BY <1>5, DescendFrames
  <2>2. ToSegment' = ToSegment
    BY <1>1, <1>3, <2>1 DEF ToSegment, Idle
  <2>3. Top.next <= e /\ Top.next <= Top.last
    BY <1>2
  <2>4. Level' = Top'.rank
    BY <2>1, <2>3 DEF Level, Idle
  <2> QED
    BY <1>3, <2>1, <2>2, <2>3, <2>4
<1>6. ASSUME UNCHANGED frames
      PROVE  ToSegment' = ToSegment /\ Level' = Level
  <2>1. Top' = Top /\ (Idle' <=> Idle)
    BY <1>6 DEF Top, Idle
  <2> QED
    BY <1>1, <1>6, <2>1 DEF ToSegment, Level
<1>7. ASSUME NEW e \in Top.next..Top.last, Close(e)
      PROVE  BeforeTail' < BeforeTail
  <2>1. low = 0 /\ low' = from /\ from' = Top.next
    BY <1>7 DEF Close
  <2>2. from # 0
    BY DEF Ready, TypeOK
  <2> QED
    BY <1>2, <2>1, <2>2 DEF BeforeTail
<1>8. ASSUME NEW p \in low..(from - 1), KeepTail(p)
      PROVE  BeforeTail' < BeforeTail
  <2>1. low # 0 /\ low' = low /\ from' = p
    BY <1>8 DEF KeepTail
  <2>2. low \in Nat
    BY TopFacts
  <2> QED
    BY <1>2, <2>1, <2>2 DEF BeforeTail
<1>9. CASE Return
  <2>1. ~(Top.next <= Top.last)
    BY <1>2, <1>9 DEF Return
  <2>2. CASE Idle'
    BY <1>2, <1>3, <2>2 DEF ToSegment
  <2>3. CASE ~Idle'
    <3>1. /\ Len(frames') = Len(frames) - 1 /\ Top'.next = Top.next
          /\ frames' \in Seq(Frame)
      BY <1>9, <2>3, ReturnFrames DEF Idle
    <3>2. ToSegment' = ToSegment
      BY <1>1, <1>3, <2>3, <3>1 DEF ToSegment
    <3>3. Top'.rank \in Ranks
      <4>1. Len(frames') \in 1..Len(frames')
        BY <2>3, <3>1, EmptySeq DEF Idle
      <4>2. Top' = frames'[Len(frames')]
        BY DEF Top
      <4>3. Top' \in Frame
        BY <3>1, <4>1, <4>2, ElementOfSeq
      <4> QED
        BY <4>3 DEF Frame
    <3>4. Level' \in {Top'.rank, 5 + Len(frames')}
      BY <2>3 DEF Level
    <3>5. Level = 5 + Len(frames) /\ Level' \in Int /\ Level' < 5 + Len(frames)
      BY <1>2, <1>3, <2>1, <3>1, <3>3, <3>4, SMTT(30) DEF Ranks
    <3>6. Level' < Level
      BY <3>5
    <3> QED
      BY <3>2, <3>6
  <2> QED
    BY <2>2, <2>3
<1>10. CASE \E e \in Top.next..Top.last : Close(e)
  BY <1>6, <1>7, <1>10 DEF Close
<1>11. CASE \E p \in low..(from - 1) : KeepTail(p)
  BY <1>6, <1>8, <1>11 DEF KeepTail
<1> QED
  BY <1>4, <1>5, <1>9, <1>10, <1>11 DEF Split

\* Every step lowers the first number it changes.
LEMMA MeasureFalls ==
    ASSUME DcInv, DcInv', RanksOK, Next
    PROVE  <<Measure', Measure>> \in Lower
<1>1. Measure \in [1..5 -> Nat] /\ Measure' \in [1..5 -> Nat]
  <2>1. Measure \in [1..5 -> Nat]
    BY MeasureType
  <2>2. DcInv' => (Measure \in [1..5 -> Nat])'
    BY MeasureType, PTL
  <2> QED
    BY <2>1, <2>2
<1>2. /\ Measure[1] = Len(Lines) + 1 - line /\ Measure'[1] = Len(Lines') + 1 - line'
      /\ Measure[2] = Stage /\ Measure'[2] = Stage'
      /\ Measure[3] = ToSegment /\ Measure'[3] = ToSegment'
      /\ Measure[4] = Level /\ Measure'[4] = Level'
      /\ Measure[5] = BeforeTail /\ Measure'[5] = BeforeTail'
  BY DEF Measure
<1>3. doc' = doc /\ Lines' = Lines
  BY DEF Next, Parse, Buffer, Single, Flush, Chunk, Number, End, Fails, Lines
<1>4. Len(Lines) \in Nat /\ line \in Nat /\ held \in Nat
  BY DocumentFacts, LenProperties DEF DcInv, TypeOK
<1>5. CASE Buffer \/ Single
  <2>1. line' = line + 1
    BY <1>5 DEF Buffer, Single
  <2>2. Measure'[1] < Measure[1]
    BY <1>2, <1>3, <1>4, <2>1
  <2> QED
    BY <1>1, <2>2, Falls
<1>6. CASE Flush \/ Number \/ End \/ Fails
  <2>1. line' = line
    BY <1>6 DEF Flush, Number, End, Fails
  <2>2. Stage' < Stage
    BY <1>4, <1>6 DEF Flush, MustFlush, Number, End, Fails, Stage, Held
  <2> QED
    BY <1>1, <1>2, <1>3, <2>1, <2>2, Falls
<1>7. CASE Chunk
  <2>1. Ready /\ SameBuffer /\ Split
    BY <1>7 DEF Chunk, SameBuffer, DcInv, CallOK, Ready, Split
  <2>2. line' = line /\ Stage' = Stage
    BY <2>1 DEF SameBuffer, Stage, Held
  <2>3. Measure'[1] = Measure[1] /\ Measure'[2] = Measure[2]
    BY <1>2, <1>3, <2>2
  <2>4. CASE ToSegment' < ToSegment
    BY <1>1, <1>2, <2>3, <2>4, Falls
  <2>5. CASE ToSegment' = ToSegment /\ Level' < Level
    BY <1>1, <1>2, <2>3, <2>5, Falls
  <2>6. CASE ToSegment' = ToSegment /\ Level' = Level /\ BeforeTail' < BeforeTail
    BY <1>1, <1>2, <2>3, <2>6, Falls
  <2> QED
    BY <2>1, <2>4, <2>5, <2>6, SplitFalls
<1> QED
  BY <1>5, <1>6, <1>7 DEF Next, Parse

\* No document keeps the parser for ever, whatever its text: every step
\* lowers a measure that cannot fall for ever.
THEOREM ParsingRunsOut ==
    /\ IsWellFoundedOn(Lower, [1..5 -> Nat])
    /\ Spec => [](Measure \in [1..5 -> Nat])
    /\ Spec => [][Falling]_vars
<1>1. Spec => [](Measure \in [1..5 -> Nat])
  BY DcSpec, MeasureType, PTL
<1>2. DcInv /\ DcInv' /\ RanksOK /\ [Next]_vars => [Falling]_vars
  BY MeasureFalls DEF Falling
<1>3. Spec => [][Falling]_vars
  BY <1>2, DcSpec, RanksSpec, PTL DEF Spec
<1> QED
  BY <1>1, <1>3, NoEndlessFall
=============================================================================
