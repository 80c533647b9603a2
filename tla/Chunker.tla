------------------------------- MODULE Chunker ------------------------------
(***************************************************************************)
(* chunk_text and recursive_split (app/parser/chunker.py), one iteration   *)
(* of a loop at a time; a module of operations that DocumentChunks calls.  *)
(*                                                                         *)
(* A text is its letters, numbered, and what stands between a letter and   *)
(* the next: one of the separators, or "" inside a word.  A segment is a   *)
(* run of letters that a separator ends, and the list "current" is always  *)
(* a run of consecutive segments, so a chunk is a run of letters too.      *)
(*                                                                         *)
(* Not letters: the blanks that split() and strip() drop, and a full stop  *)
(* with a blank behind it, which is part of the separator ". ".  split()   *)
(* takes that stop away and join() puts it back inside a chunk only: the   *)
(* stop behind letter x is in a chunk that has both x and x + 1, and no    *)
(* chunk that ends at x has it.  (Of several stops between two letters, a  *)
(* dot leader, join() puts one back.)                                      *)
(***************************************************************************)
EXTENDS Integers, Sequences, Rounding

CONSTANTS
    Target,         \* settings.chunk_target_tokens
    OverlapPercent, \* 100 * settings.chunk_overlap_fraction
    CharsPerToken   \* settings.chars_per_token

ASSUME ChunkerAssumption ==
    /\ Target \in Nat \ {0} /\ CharsPerToken \in Nat \ {0}
    /\ OverlapPercent \in 0..100

VARIABLES
    doc,     \* the document: what follows each letter (gap), where it stands (at)
    frames,  \* the calls of recursive_split in progress: the rank of the
             \* separator, the next letter to segment, the last letter
    from,    \* first letter of "current"; it ends before the next letter
    tokens,  \* current_tokens
    low,     \* in the overlap loop the first letter of the chunk just
             \* closed, otherwise 0
    chunks   \* the chunks of this call of chunk_text

call == <<frames, from, tokens, low, chunks>>

\* The separators by rank, with their lengths: "", " ", ". ", "\n", "\n\n".
Ranks == 0..4
Width == [r \in Ranks |-> CASE r = 0 -> 0 [] r \in {1, 3} -> 1 [] OTHER -> 2]
FULL_STOP == 2

Overlap == AtLeastOne((Target * OverlapPercent) \div 100)

\* Characters and tokens of the letters a to b.
Chars(a, b) == IF a > b THEN 0 ELSE doc.at[b] - doc.at[a] + 1
TokenLen(a, b) == IF a > b THEN 0 ELSE Tokens(Chars(a, b), CharsPerToken)

\* The first separator of the list that occurs between a and b.
IsStrongest(r, a, b) ==
    /\ \A i \in a..(b - 1) : doc.gap[i] <= r
    /\ r # 0 => \E i \in a..(b - 1) : doc.gap[i] = r

Idle == frames = <<>>
Top == frames[Len(frames)]

\* The next segment ends at e, without the separator behind it; the last
\* segment of "current" begins at p.
Segment(e) ==
    /\ e # Top.last => doc.gap[e] = Top.rank
    /\ \A i \in Top.next..(e - 1) : doc.gap[i] # Top.rank
LastSegment(p) ==
    /\ p # low => doc.gap[p - 1] = Top.rank
    /\ \A i \in p..(from - 2) : doc.gap[i] # Top.rank

Weight(e) == TokenLen(Top.next, e)
TooLarge(e) == Weight(e) > Target /\ Top.rank # 0
Current == [first |-> from, last |-> Top.next - 1, tokens |-> tokens]
WithCurrent == IF from < Top.next THEN Append(chunks, Current) ELSE chunks
Advanced(e) == [frames EXCEPT ![Len(frames)].next = e + 1]

\* chunk_text on the letters a to b: a text within the target is one chunk.
Begin(a, b) ==
    /\ IF TokenLen(a, b) <= Target
         THEN /\ chunks' = IF a > b THEN <<>> ELSE
                  <<[first |-> a, last |-> b, tokens |-> TokenLen(a, b)]>>
              /\ UNCHANGED frames
         ELSE /\ chunks' = <<>>
              /\ \E r \in Ranks : /\ IsStrongest(r, a, b)
                                  /\ frames' = <<[rank |-> r, next |-> a, last |-> b]>>
    /\ from' = a /\ tokens' = 0 /\ low' = 0

\* Mutant of Descend: what was collected is dropped.
DescendDrops(e) ==
    /\ low = 0 /\ Segment(e) /\ TooLarge(e)
    /\ \E r \in Ranks :
         /\ IsStrongest(r, Top.next, e)
         /\ frames' = Append(Advanced(e), [rank |-> r, next |-> Top.next, last |-> e])
    /\ from' = Top.next /\ tokens' = 0 /\ UNCHANGED <<low, chunks>>

\* An oversized segment: what was collected is a chunk, without overlap, and
\* the segment is split at the next separator it contains.
Descend(e) ==
    /\ low = 0 /\ Segment(e) /\ TooLarge(e)
    /\ chunks' = WithCurrent
    /\ \E r \in Ranks :
         /\ IsStrongest(r, Top.next, e)
         /\ frames' = Append(Advanced(e), [rank |-> r, next |-> Top.next, last |-> e])
    /\ from' = Top.next /\ tokens' = 0 /\ UNCHANGED low

\* Mutant of Take: the count is compared before the segment is added.
TakeBefore(e) ==
    /\ low = 0 /\ Segment(e) /\ ~TooLarge(e)
    /\ from < Top.next => tokens <= Target
    /\ frames' = Advanced(e)
    /\ tokens' = tokens + Weight(e)
    /\ UNCHANGED <<from, low, chunks>>

\* A segment that still fits, or that begins a chunk.
Take(e) ==
    /\ low = 0 /\ Segment(e) /\ ~TooLarge(e)
    /\ from < Top.next => tokens + Weight(e) <= Target
    /\ frames' = Advanced(e)
    /\ tokens' = tokens + Weight(e)
    /\ UNCHANGED <<from, low, chunks>>

\* A segment that does not fit: the chunk is closed, its tail is looked for.
Close(e) ==
    /\ low = 0 /\ Segment(e) /\ ~TooLarge(e)
    /\ tokens + Weight(e) > Target /\ from < Top.next
    /\ chunks' = WithCurrent
    /\ low' = from /\ from' = Top.next /\ tokens' = 0
    /\ UNCHANGED frames

\* Mutant of TailFits: the tail may fill a chunk.
TailFillsChunk(p) == LastSegment(p) /\ tokens + TokenLen(p, from - 1) <= Target

TailFits(p) == LastSegment(p) /\ tokens + TokenLen(p, from - 1) <= Overlap

\* Mutant of KeepTail: an index too far.
KeepTailOneMore(p) ==
    /\ low # 0 /\ TailFits(p)
    /\ from' = p - 1 /\ tokens' = tokens + TokenLen(p, from - 1)
    /\ UNCHANGED <<frames, low, chunks>>

\* One more segment of the closed chunk is carried over.
KeepTail(p) ==
    /\ low # 0 /\ TailFits(p)
    /\ from' = p /\ tokens' = tokens + TokenLen(p, from - 1)
    /\ UNCHANGED <<frames, low, chunks>>

\* The tail is complete, and the segment that did not fit follows it.
EndTail(e) ==
    /\ low # 0 /\ Segment(e)
    /\ ~\E p \in low..(from - 1) : TailFits(p)
    /\ frames' = Advanced(e)
    /\ tokens' = tokens + Weight(e) /\ low' = 0
    /\ UNCHANGED <<from, chunks>>

\* Mutant of Return: only a remainder ends the call.
ReturnRemainder ==
    /\ low = 0 /\ Top.next > Top.last /\ from < Top.next
    /\ chunks' = WithCurrent
    /\ frames' = SubSeq(frames, 1, Len(frames) - 1)
    /\ from' = Top.next /\ tokens' = 0 /\ UNCHANGED low

\* The segments are used up: the remainder is a chunk, the caller goes on.
Return ==
    /\ low = 0 /\ Top.next > Top.last
    /\ chunks' = WithCurrent
    /\ frames' = SubSeq(frames, 1, Len(frames) - 1)
    /\ from' = Top.next /\ tokens' = 0 /\ UNCHANGED low

\* The next step of the call in progress.
Split ==
    /\ ~Idle
    /\ \/ \E e \in Top.next..Top.last : Descend(e) \/ Take(e) \/ Close(e) \/ EndTail(e)
       \/ \E p \in low..(from - 1) : KeepTail(p)
       \/ Return
=============================================================================
