------------------------- MODULE ReasoningContext --------------------------
(***************************************************************************)
(* From a context bundle to the prompt: run_reasoning up to the call of    *)
(* the router (app/reasoning/orchestrator.py), with the two passes of      *)
(* prune_context and the guardrails of app/reasoning/context_manager.py,   *)
(* and the citation tags of app/reasoning/prompt_assembler.py.             *)
(***************************************************************************)
EXTENDS Integers, FiniteSets, FiniteSetsExt, Rounding

CONSTANTS
    Items,          \* positions of the items in the bundle
    Modalities,
    Lengths,        \* lengths of a text, in characters
    Scores,         \* similarity scores
    Widths,         \* bytes per character of a bundle's texts in UTF-8
    Overheads,      \* bytes of a prompt beside the texts of its blocks
    CharsPerToken,  \* settings.chars_per_token
    Budget,         \* the token budget of the effective backend
    MaxBytes        \* settings.max_context_bytes

ASSUME ContextAssumption ==
    /\ Items \subseteq Nat /\ IsFiniteSet(Items)
    /\ Lengths \subseteq Nat /\ Scores \subseteq Int
    /\ Widths \subseteq Nat /\ Overheads \subseteq Int
    /\ CharsPerToken \in Nat \ {0} /\ Budget \in Nat /\ MaxBytes \in Nat

VARIABLES
    bundle,    \* item -> its modality, length and score
    width,     \* bytes per character of this bundle
    phase,     \* where run_reasoning is
    todo,      \* pass 1: the items it has not come to
    fitted,    \* the items pass 1 appended to kept
    missing,   \* pass 2: the modalities still to be represented
    reserved,  \* the items pass 2 appended to kept
    dropped,   \* the items listed as dropped
    spent,     \* tokens_after
    tags       \* kept item -> the number in its citation tag

vars == <<bundle, width, phase, todo, fitted, missing, reserved, dropped, spent, tags>>
input == <<bundle, width>>

ContextItem == [modality : Modalities, length : Lengths, score : Scores]
Phases == {"footprint", "ranking", "reserving", "pruned", "routing", "refused"}

compute_tokens(i) == Tokens(bundle[i].length, CharsPerToken)

Bytes(S) == width * MapThenSumSet(LAMBDA i : bundle[i].length, S)

\* The stable sort by descending score.
Precedes(i, j) ==
    \/ bundle[i].score > bundle[j].score
    \/ bundle[i].score = bundle[j].score /\ i < j

IsFirst(i, S) == i \in S /\ \A j \in S \ {i} : Precedes(i, j)

OfModality(m, S) == {i \in S : bundle[i].modality = m}
ModalitiesOf(S) == {bundle[i].modality : i \in S}
Kept == fitted \cup reserved

Init ==
    /\ bundle \in [Items -> ContextItem]
    /\ width \in Widths
    /\ phase = "footprint"
    /\ todo = Items
    /\ fitted = {} /\ missing = {} /\ reserved = {} /\ dropped = {}
    /\ spent = 0
    /\ tags = <<>>

\* enforce_byte_guardrail on the whole bundle, before anything is pruned.
Guard ==
    /\ phase = "footprint"
    /\ phase' = IF Bytes(Items) > MaxBytes THEN "refused" ELSE "ranking"
    /\ UNCHANGED <<input, todo, fitted, missing, reserved, dropped, spent, tags>>

\* Mutants of Rank: an item that does not fit is not listed; the budget test
\* forgets the item itself; the sort is ascending.
RankUnlisted(i) ==
    /\ phase = "ranking" /\ IsFirst(i, todo)
    /\ todo' = todo \ {i}
    /\ IF spent + compute_tokens(i) <= Budget
         THEN /\ fitted' = fitted \cup {i}
              /\ spent' = spent + compute_tokens(i)
         ELSE UNCHANGED <<fitted, spent>>
    /\ UNCHANGED <<input, phase, missing, reserved, dropped, tags>>
RankOneTooMany(i) ==
    /\ phase = "ranking" /\ IsFirst(i, todo)
    /\ todo' = todo \ {i}
    /\ IF spent < Budget
         THEN /\ fitted' = fitted \cup {i}
              /\ spent' = spent + compute_tokens(i)
              /\ UNCHANGED dropped
         ELSE dropped' = dropped \cup {i} /\ UNCHANGED <<fitted, spent>>
    /\ UNCHANGED <<input, phase, missing, reserved, tags>>
RankWorstFirst(i) ==
    /\ phase = "ranking" /\ i \in todo
    /\ \A j \in todo \ {i} : Precedes(j, i)
    /\ todo' = todo \ {i}
    /\ IF spent + compute_tokens(i) <= Budget
         THEN /\ fitted' = fitted \cup {i}
              /\ spent' = spent + compute_tokens(i)
              /\ UNCHANGED dropped
         ELSE dropped' = dropped \cup {i} /\ UNCHANGED <<fitted, spent>>
    /\ UNCHANGED <<input, phase, missing, reserved, tags>>

\* Pass 1, one item: keep it if it fits into what is left of the budget.
Rank(i) ==
    /\ phase = "ranking" /\ IsFirst(i, todo)
    /\ todo' = todo \ {i}
    /\ IF spent + compute_tokens(i) <= Budget
         THEN /\ fitted' = fitted \cup {i}
              /\ spent' = spent + compute_tokens(i)
              /\ UNCHANGED dropped
         ELSE dropped' = dropped \cup {i} /\ UNCHANGED <<fitted, spent>>
    /\ UNCHANGED <<input, phase, missing, reserved, tags>>

EndPass1 ==
    /\ phase = "ranking" /\ todo = {}
    /\ phase' = "reserving"
    /\ missing' = ModalitiesOf(Items) \ ModalitiesOf(fitted)
    /\ UNCHANGED <<input, todo, fitted, reserved, dropped, spent, tags>>

\* The entry that dropped.remove takes away: the first with the same
\* modality and score, if there is one.
Unlist(b) ==
    LET twins == {d \in dropped : /\ bundle[d].modality = bundle[b].modality
                                  /\ bundle[d].score = bundle[b].score}
    IN  IF twins = {} THEN UNCHANGED dropped
        ELSE \E d \in twins : IsFirst(d, twins) /\ dropped' = dropped \ {d}

\* Mutants of Reserve: the reserved item is not counted, is counted the
\* wrong way, or is kept only if the budget allows.
ReserveUncounted(b) ==
    /\ phase = "reserving"
    /\ bundle[b].modality \in missing
    /\ IsFirst(b, OfModality(bundle[b].modality, Items))
    /\ missing' = missing \ {bundle[b].modality}
    /\ reserved' = reserved \cup {b}
    /\ Unlist(b)
    /\ UNCHANGED <<input, phase, todo, fitted, spent, tags>>
ReserveRefunds(b) ==
    /\ phase = "reserving"
    /\ bundle[b].modality \in missing
    /\ IsFirst(b, OfModality(bundle[b].modality, Items))
    /\ missing' = missing \ {bundle[b].modality}
    /\ reserved' = reserved \cup {b}
    /\ spent' = spent - compute_tokens(b)
    /\ Unlist(b)
    /\ UNCHANGED <<input, phase, todo, fitted, tags>>
ReserveIfItFits(b) ==
    /\ phase = "reserving"
    /\ bundle[b].modality \in missing
    /\ IsFirst(b, OfModality(bundle[b].modality, Items))
    /\ missing' = missing \ {bundle[b].modality}
    /\ IF spent + compute_tokens(b) <= Budget
         THEN /\ reserved' = reserved \cup {b}
              /\ spent' = spent + compute_tokens(b)
              /\ Unlist(b)
         ELSE UNCHANGED <<reserved, spent, dropped>>
    /\ UNCHANGED <<input, phase, todo, fitted, tags>>

\* Pass 2, one modality (in the order of a Python set, that is in any): its
\* best item is kept after all, and counted.
Reserve(b) ==
    /\ phase = "reserving"
    /\ bundle[b].modality \in missing
    /\ IsFirst(b, OfModality(bundle[b].modality, Items))
    /\ missing' = missing \ {bundle[b].modality}
    /\ reserved' = reserved \cup {b}
    /\ spent' = spent + compute_tokens(b)
    /\ Unlist(b)
    /\ UNCHANGED <<input, phase, todo, fitted, tags>>

\* The end of prune_context, and the guardrail on what it kept.
EndPass2 ==
    /\ phase = "reserving" /\ missing = {}
    /\ phase' = IF Bytes(Kept) > MaxBytes THEN "refused" ELSE "pruned"
    /\ UNCHANGED <<input, todo, fitted, missing, reserved, dropped, spent, tags>>

\* assemble_prompt sorts the kept list by score once more. Its order breaks
\* ties: what pass 2 appended comes last.
Earlier(i, j) ==
    \/ bundle[i].score > bundle[j].score
    \/ /\ bundle[i].score = bundle[j].score
       /\ i \in fitted
       /\ j \in reserved \/ i < j

\* Mutant of Tag: one counter for all modalities.
TagOverall(i) == 1 + Cardinality({j \in Kept \ {i} : Earlier(j, i)})

Tag(i) ==
    LET peers == OfModality(bundle[i].modality, Kept) \ {i}
    IN  1 + Cardinality({j \in peers : Earlier(j, i)})

Assemble ==
    /\ phase = "pruned"
    /\ tags' = [i \in Kept |-> Tag(i)]
    /\ \E o \in Overheads :
         phase' = IF Bytes(Kept) + o > MaxBytes THEN "refused" ELSE "routing"
    /\ UNCHANGED <<input, todo, fitted, missing, reserved, dropped, spent>>

Next ==
    \/ Guard \/ EndPass1 \/ EndPass2 \/ Assemble
    \/ \E i \in Items : Rank(i) \/ Reserve(i)

Spec == Init /\ [][Next]_vars

(***************************************************************************)
(* Properties                                                              *)
(***************************************************************************)

\* The type invariant.
TypeOK ==
    /\ bundle \in [Items -> ContextItem]
    /\ width \in Widths
    /\ phase \in Phases
    /\ todo \subseteq Items /\ fitted \subseteq Items
    /\ reserved \subseteq Items /\ dropped \subseteq Items
    /\ missing \subseteq Modalities
    /\ spent \in Nat

\* Nothing is lost between the lists: an item is not yet ranked, kept or
\* listed as dropped, and never two of these, although pass 2 looks the
\* entry to remove up by modality and score and not by item.  Hence
\* kept_items = input_items - dropped in every report.
Accounted ==
    /\ todo \cup Kept \cup dropped = Items
    /\ todo \cap Kept = {} /\ todo \cap dropped = {} /\ Kept \cap dropped = {}

\* tokens_after is the footprint of the kept items.
SpentIsFootprint == spent = MapThenSumSet(compute_tokens, Kept)

\* An item that pass 1 kept although a better one was dropped is smaller
\* than the better one.
PassedOverOnlyForSize ==
    \A d \in dropped, k \in fitted :
        Precedes(d, k) => compute_tokens(d) > compute_tokens(k)

\* No modality of the bundle is silently erased from the prompt.
NoModalityErased ==
    phase \in {"pruned", "routing"} => ModalitiesOf(Kept) = ModalitiesOf(Items)

\* The kept items fit the budget but for at most one item per modality, the
\* one pass 2 reserved, and only where the modality had nothing that fitted.
OvershootIsReserved ==
    /\ MapThenSumSet(compute_tokens, fitted) <= Budget
    /\ \A r \in reserved :
         OfModality(bundle[r].modality, Kept) = {r}

\* The tags of a modality number its kept blocks from the best to the worst
\* without a gap: a citation names one block.
CitationsFollowRank ==
    phase = "routing" =>
        \A i \in Kept :
            LET peers == OfModality(bundle[i].modality, Kept)
            IN  /\ tags[i] \in 1..Cardinality(peers)
                /\ \A j \in peers : Precedes(i, j) => tags[i] < tags[j]
=============================================================================
