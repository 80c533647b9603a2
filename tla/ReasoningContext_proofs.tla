---------------------- MODULE ReasoningContext_proofs ----------------------
(***************************************************************************)
(* Proofs about prune_context, for every bundle, budget and token size.    *)
(***************************************************************************)
EXTENDS ReasoningContext, FiniteSetTheorems, WellFoundedInduction, TLAPS

\* A footprint is a natural number.
LEMMA TokensNat ==
    ASSUME NEW i \in Items, bundle \in [Items -> ContextItem]
    PROVE  compute_tokens(i) \in Nat
<1>1. bundle[i].length \in Nat
  BY ContextAssumption DEF ContextItem
<1>2. bundle[i].length \div CharsPerToken \in Int
  BY <1>1, ContextAssumption
<1>3. Rounded(bundle[i].length, CharsPerToken) \in Int
  BY <1>2 DEF Rounded
<1> QED
  BY <1>3 DEF compute_tokens, Tokens, AtLeastOne

\* The rank is a strict order.
LEMMA RankOrder ==
    ASSUME bundle \in [Items -> ContextItem], NEW i \in Items, NEW j \in Items
    PROVE  ~(Precedes(i, j) /\ Precedes(j, i))
<1>1. bundle[i].score \in Int /\ bundle[j].score \in Int
  BY ContextAssumption DEF ContextItem
<1>2. i \in Nat /\ j \in Nat
  BY ContextAssumption
<1> QED
  BY <1>1, <1>2 DEF Precedes

\* What each phase has done with the lists.
PhaseOK ==
    /\ phase = "footprint" => fitted = {} /\ dropped = {}
    /\ phase \in {"footprint", "ranking"} => reserved = {} /\ missing = {}
    /\ phase \in {"reserving", "pruned", "routing"} => todo = {}
    /\ phase \in {"pruned", "routing"} => missing = {}

\* Pass 1 comes to the items in the order of their rank.
OrderOK ==
    phase \in {"footprint", "ranking"} =>
        \A k \in fitted \cup dropped, j \in todo : Precedes(k, j)

\* The tokens only grow: what did not fit does not fit any more.
NoRoom == \A d \in dropped : spent + compute_tokens(d) > Budget

\* Pass 2 knows exactly which modalities are not represented.
MissingOK ==
    phase = "reserving" =>
        /\ \A i \in Items : bundle[i].modality \in missing \cup ModalitiesOf(Kept)
        /\ missing \cap ModalitiesOf(Kept) = {}

CInv ==
    /\ TypeOK /\ Accounted /\ PhaseOK /\ OrderOK
    /\ NoRoom /\ PassedOverOnlyForSize /\ MissingOK /\ NoModalityErased

\* Nothing is kept or dropped before the first step.
LEMMA CInvInit == Init => CInv
BY DEF Init, CInv, TypeOK, Accounted, PhaseOK, OrderOK, NoRoom, PassedOverOnlyForSize,
       MissingOK, NoModalityErased, Kept, Phases

\* The footprints and the rank of the items do not change.
LEMMA Frame ==
    ASSUME UNCHANGED input
    PROVE  /\ \A i : compute_tokens(i)' = compute_tokens(i)
           /\ \A i, j : Precedes(i, j)' <=> Precedes(i, j)
BY DEF input, compute_tokens, Precedes

\* Pass 1 keeps an item only where everything dropped before it is larger,
\* and drops one only after everything kept before it.
LEMMA KeepRank ==
    ASSUME CInv, NEW i \in Items, Rank(i)
    PROVE  CInv'
<1> DEFINE t == compute_tokens(i)
<1>1. UNCHANGED <<bundle, width, phase, missing, reserved>> /\ phase = "ranking"
  BY DEF Rank, input
<1>2. i \in todo /\ todo' = todo \ {i} /\ \A j \in todo \ {i} : Precedes(i, j)
  BY DEF Rank, IsFirst
<1>3. /\ \A j : compute_tokens(j)' = compute_tokens(j)
      /\ \A j, k : Precedes(j, k)' <=> Precedes(j, k)
  BY <1>1, Frame DEF input
<1>4. reserved = {} /\ \A k \in fitted \cup dropped : Precedes(k, i)
  BY <1>1, <1>2 DEF CInv, PhaseOK, OrderOK
<1>5. \A j \in Items : compute_tokens(j) \in Nat
  BY TokensNat DEF CInv, TypeOK
<1>6. \/ fitted' = fitted \cup {i} /\ spent' = spent + t /\ spent + t <= Budget /\ dropped' = dropped
      \/ fitted' = fitted /\ spent' = spent /\ ~(spent + t <= Budget) /\ dropped' = dropped \cup {i}
  BY DEF Rank
<1>7. spent \in Nat /\ Budget \in Nat
  BY ContextAssumption DEF CInv, TypeOK
<1>8. TypeOK'
  BY <1>1, <1>2, <1>5, <1>6, <1>7 DEF CInv, TypeOK
<1>9. Accounted'
  BY <1>1, <1>2, <1>6 DEF CInv, Accounted, Kept
<1>10. PhaseOK' /\ MissingOK' /\ NoModalityErased'
  BY <1>1 DEF CInv, PhaseOK, MissingOK, NoModalityErased
<1>11. OrderOK'
  BY <1>1, <1>2, <1>3, <1>6 DEF CInv, OrderOK
<1>12. \A d \in dropped : compute_tokens(d) \in Nat /\ spent + compute_tokens(d) > Budget
  BY <1>5 DEF CInv, TypeOK, NoRoom
<1>13. NoRoom'
  BY <1>3, <1>5, <1>6, <1>7, <1>12 DEF NoRoom
<1>14. PassedOverOnlyForSize'
  <2> SUFFICES ASSUME NEW d \in dropped', NEW k \in fitted', Precedes(d, k)
               PROVE  compute_tokens(d) > compute_tokens(k)
    BY <1>3 DEF PassedOverOnlyForSize
  <2>1. CASE d \in dropped /\ k \in fitted
    BY <2>1 DEF CInv, PassedOverOnlyForSize
  <2>2. CASE k = i /\ d \in dropped /\ spent + t <= Budget
    BY <2>2, <1>5, <1>7, <1>12
  <2>3. CASE d = i /\ k \in fitted
    <3>1. k \in Items /\ bundle \in [Items -> ContextItem]
      BY <2>3 DEF CInv, TypeOK
    <3> QED
      BY <2>3, <3>1, <1>4, RankOrder
  <2> QED
    BY <1>6, <2>1, <2>2, <2>3
<1> QED
  BY <1>8, <1>9, <1>10, <1>11, <1>13, <1>14 DEF CInv

\* Looking the entry up by modality and score, dropped.remove takes away the
\* very item that is reserved.
LEMMA UnlistsItself ==
    ASSUME CInv, NEW b \in Items, Reserve(b)
    PROVE  b \in dropped /\ b \notin fitted \cup reserved /\ dropped' = dropped \ {b}
<1> DEFINE twins == {d \in dropped : /\ bundle[d].modality = bundle[b].modality
                                     /\ bundle[d].score = bundle[b].score}
<1>1. phase = "reserving" /\ bundle[b].modality \in missing
  BY DEF Reserve
<1>2. b \notin Kept
  BY <1>1 DEF CInv, MissingOK, ModalitiesOf
<1>3. b \in dropped
  BY <1>1, <1>2 DEF CInv, Accounted, PhaseOK
<1>4. PICK d \in twins : IsFirst(d, twins) /\ dropped' = dropped \ {d}
  BY <1>3 DEF Reserve, Unlist
<1>5. d \in Items /\ bundle \in [Items -> ContextItem]
  BY DEF CInv, TypeOK
<1>6. d # b => Precedes(d, b)
  BY <1>3, <1>4 DEF IsFirst
<1>7. d # b => Precedes(b, d)
  BY <1>5 DEF Reserve, IsFirst, OfModality
<1> QED
  BY <1>2, <1>3, <1>4, <1>5, <1>6, <1>7, RankOrder DEF Kept

\* Pass 2 moves one item from the dropped to the kept ones.
LEMMA KeepReserve ==
    ASSUME CInv, NEW b \in Items, Reserve(b)
    PROVE  CInv'
<1> DEFINE t == compute_tokens(b)
<1>1. /\ UNCHANGED <<bundle, width, phase, todo, fitted>>
      /\ phase = "reserving" /\ bundle[b].modality \in missing
      /\ missing' = missing \ {bundle[b].modality}
      /\ reserved' = reserved \cup {b}
      /\ spent' = spent + t
  BY DEF Reserve, input
<1>2. b \in dropped /\ b \notin fitted \cup reserved /\ dropped' = dropped \ {b}
  BY UnlistsItself
<1>3. /\ \A j : compute_tokens(j)' = compute_tokens(j)
      /\ \A j, k : Precedes(j, k)' <=> Precedes(j, k)
  BY <1>1, Frame DEF input
<1>4. \A j \in Items : compute_tokens(j) \in Nat
  BY TokensNat DEF CInv, TypeOK
<1>5. spent \in Nat /\ Budget \in Nat
  BY ContextAssumption DEF CInv, TypeOK
<1>6. TypeOK'
  BY <1>1, <1>2, <1>4, <1>5 DEF CInv, TypeOK
<1>7. Accounted'
  BY <1>1, <1>2 DEF CInv, Accounted, Kept
<1>8. PhaseOK' /\ OrderOK' /\ NoModalityErased'
  BY <1>1 DEF CInv, PhaseOK, OrderOK, NoModalityErased
<1>9. NoRoom'
  <2>1. \A d \in dropped : compute_tokens(d) \in Nat /\ spent + compute_tokens(d) > Budget
    BY <1>4 DEF CInv, TypeOK, NoRoom
  <2> QED
    BY <1>1, <1>2, <1>3, <1>4, <1>5, <2>1 DEF NoRoom
<1>10. PassedOverOnlyForSize'
  BY <1>1, <1>2, <1>3 DEF CInv, PassedOverOnlyForSize
<1>11. ModalitiesOf(Kept)' = ModalitiesOf(Kept) \cup {bundle[b].modality}
  BY <1>1 DEF ModalitiesOf, Kept
<1>12. MissingOK'
  BY <1>1, <1>11 DEF CInv, MissingOK
<1> QED
  BY <1>6, <1>7, <1>8, <1>9, <1>10, <1>12 DEF CInv

\* The remaining steps change the phase only, and what a phase promises.
LEMMA KeepPhase ==
    ASSUME CInv, Guard \/ EndPass1 \/ EndPass2 \/ Assemble
    PROVE  CInv'
<1>1. UNCHANGED <<bundle, width, todo, fitted, reserved, dropped, spent>>
  BY DEF Guard, EndPass1, EndPass2, Assemble, input
<1>2. /\ \A j : compute_tokens(j)' = compute_tokens(j)
      /\ \A j, k : Precedes(j, k)' <=> Precedes(j, k)
  BY <1>1, Frame DEF input
<1>3. \/ phase = "footprint" /\ phase' \in {"refused", "ranking"} /\ missing' = missing
      \/ phase = "ranking" /\ phase' = "reserving" /\ todo = {}
           /\ missing' = ModalitiesOf(Items) \ ModalitiesOf(fitted)
      \/ phase = "reserving" /\ missing = {} /\ phase' \in {"refused", "pruned"} /\ missing' = missing
      \/ phase = "pruned" /\ phase' \in {"refused", "routing"} /\ missing' = missing
  BY DEF Guard, EndPass1, EndPass2, Assemble
<1>4. UNCHANGED Kept
  BY <1>1 DEF Kept
<1>5. ModalitiesOf(Kept)' = ModalitiesOf(Kept) /\ ModalitiesOf(Items)' = ModalitiesOf(Items)
  BY <1>1 DEF Kept, ModalitiesOf
<1>6. ModalitiesOf(Items) \subseteq Modalities
  BY DEF CInv, TypeOK, ModalitiesOf, ContextItem
<1>7. TypeOK'
  BY <1>1, <1>3, <1>6 DEF CInv, TypeOK, Phases
<1>8. Accounted' /\ NoRoom' /\ PassedOverOnlyForSize'
  BY <1>1, <1>2, <1>4 DEF CInv, Accounted, NoRoom, PassedOverOnlyForSize
<1>9. PhaseOK' /\ OrderOK'
  BY <1>1, <1>2, <1>3 DEF CInv, PhaseOK, OrderOK
<1>10. phase = "ranking" => Kept = fitted
  BY DEF CInv, PhaseOK, Kept
<1>11. \A i \in Items : bundle[i].modality \in ModalitiesOf(Items)
  BY DEF ModalitiesOf
<1>12. MissingOK'
  BY <1>1, <1>3, <1>5, <1>10, <1>11 DEF CInv, MissingOK
<1>13. ModalitiesOf(Kept) \subseteq ModalitiesOf(Items)
  BY DEF CInv, TypeOK, ModalitiesOf, Kept
<1>14. phase = "reserving" /\ missing = {} => ModalitiesOf(Items) \subseteq ModalitiesOf(Kept)
  BY DEF CInv, MissingOK, ModalitiesOf
<1>15. NoModalityErased'
  BY <1>3, <1>5, <1>13, <1>14 DEF CInv, NoModalityErased
<1> QED
  BY <1>7, <1>8, <1>9, <1>12, <1>15 DEF CInv

\* A step that changes nothing.
LEMMA KeepStutter ==
    ASSUME CInv, UNCHANGED vars
    PROVE  CInv'
<1>1. /\ UNCHANGED <<bundle, width, phase, todo, fitted, missing, reserved, dropped, spent, tags>>
      /\ UNCHANGED input
  BY DEF vars, input
<1>2. /\ \A i : compute_tokens(i)' = compute_tokens(i)
      /\ \A i, j : Precedes(i, j)' <=> Precedes(i, j)
  BY <1>1, Frame
<1>3. TypeOK' /\ PhaseOK'
  BY <1>1 DEF CInv, TypeOK, PhaseOK
<1>4. Accounted'
  BY <1>1 DEF CInv, Accounted, Kept
<1>5. OrderOK'
  BY <1>1, <1>2 DEF CInv, OrderOK
<1>6. NoRoom'
  BY <1>1, <1>2 DEF CInv, NoRoom
<1>7. PassedOverOnlyForSize'
  <2> SUFFICES ASSUME NEW d \in dropped, NEW k \in fitted, Precedes(d, k)
               PROVE  compute_tokens(d) > compute_tokens(k)
    BY <1>1, <1>2 DEF PassedOverOnlyForSize
  <2> QED
    BY DEF CInv, PassedOverOnlyForSize
<1>8. ModalitiesOf(Kept)' = ModalitiesOf(Kept) /\ ModalitiesOf(Items)' = ModalitiesOf(Items)
  BY <1>1 DEF ModalitiesOf, Kept
<1>9. MissingOK' /\ NoModalityErased'
  BY <1>1, <1>8 DEF CInv, MissingOK, NoModalityErased
<1> QED
  BY <1>3, <1>4, <1>5, <1>6, <1>7, <1>9 DEF CInv

\* The invariant of prune_context, of which the theorems below are parts.
THEOREM CInvariance == Spec => []CInv
<1>1. CInv /\ [Next]_vars => CInv'
  BY KeepRank, KeepReserve, KeepPhase, KeepStutter DEF Next
<1> QED
  BY <1>1, CInvInit, PTL DEF Spec

\* Every item of the bundle is in exactly one list of the report.
THEOREM AccountedHolds == Spec => []Accounted
BY CInvariance, PTL DEF CInv

\* The greedy rule of pass 1.
THEOREM PassedOverOnlyForSizeHolds == Spec => []PassedOverOnlyForSize
BY CInvariance, PTL DEF CInv

\* Every modality of the bundle reaches the prompt.
THEOREM NoModalityErasedHolds == Spec => []NoModalityErased
BY CInvariance, PTL DEF CInv

\* The variables keep their types.
THEOREM ContextTypeCorrect == Spec => []TypeOK
BY CInvariance, PTL DEF CInv

\* The rank is transitive.
LEMMA RankTransitive ==
    ASSUME bundle \in [Items -> ContextItem],
           NEW i \in Items, NEW j \in Items, NEW k \in Items,
           Precedes(i, j), Precedes(j, k)
    PROVE  Precedes(i, k)
<1>1. bundle[i].score \in Int /\ bundle[j].score \in Int /\ bundle[k].score \in Int
  BY ContextAssumption DEF ContextItem
<1>2. i \in Nat /\ j \in Nat /\ k \in Nat
  BY ContextAssumption
<1> QED
  BY <1>1, <1>2 DEF Precedes

\* What pass 2 reserved is alone in its modality.
AloneInModality == \A r \in reserved : OfModality(bundle[r].modality, Kept) = {r}

\* The tags are those of the kept items.
TagsOK == phase = "routing" => tags = [i \in Kept |-> Tag(i)]

\* A reserved item stays alone: only modalities that are not represented are
\* reserved for.
LEMMA KeepAlone ==
    ASSUME CInv, AloneInModality, [Next]_vars
    PROVE  AloneInModality'
<1>1. CASE UNCHANGED <<bundle, fitted, reserved>>
  BY <1>1 DEF AloneInModality, OfModality, Kept
<1>2. CASE \E i \in Items : Rank(i)
  <2>1. reserved' = {}
    BY <1>2 DEF Rank, CInv, PhaseOK
  <2> QED
    BY <2>1 DEF AloneInModality
<1>3. ASSUME NEW b \in Items, Reserve(b)
      PROVE  AloneInModality'
  <2>1. UNCHANGED <<bundle, fitted>> /\ reserved' = reserved \cup {b}
    BY <1>3 DEF Reserve, input
  <2>2. \A k \in Kept : bundle[k].modality # bundle[b].modality
    BY <1>3 DEF Reserve, CInv, MissingOK, ModalitiesOf
  <2>3. Kept' = Kept \cup {b}
    BY <2>1 DEF Kept
  <2>4. ASSUME NEW r \in reserved
        PROVE  OfModality(bundle[r].modality, Kept \cup {b}) = {r}
    <3>1. OfModality(bundle[r].modality, Kept) = {r}
      BY DEF AloneInModality
    <3>2. bundle[r].modality # bundle[b].modality
      BY <2>2 DEF Kept
    <3> QED
      BY <3>1, <3>2 DEF OfModality
  <2>5. OfModality(bundle[b].modality, Kept \cup {b}) = {b}
    BY <2>2 DEF OfModality
  <2>6. \A m : OfModality(m, Kept)' = OfModality(m, Kept \cup {b})
    BY <2>1, <2>3 DEF OfModality
  <2> QED
    BY <2>1, <2>4, <2>5, <2>6 DEF AloneInModality
<1>4. CASE Guard \/ EndPass1 \/ EndPass2 \/ Assemble
  BY <1>1, <1>4 DEF Guard, EndPass1, EndPass2, Assemble, input
<1>5. CASE UNCHANGED vars
  BY <1>1, <1>5 DEF vars
<1> QED
  BY <1>2, <1>3, <1>4, <1>5 DEF Next

\* The tags are given once, after the last change of the kept items.
LEMMA KeepTags ==
    ASSUME TagsOK, [Next]_vars
    PROVE  TagsOK'
<1>1. CASE Assemble
  <2>1. UNCHANGED <<bundle, fitted, reserved>> /\ tags' = [i \in Kept |-> Tag(i)]
    BY <1>1 DEF Assemble, input
  <2>2. Kept' = Kept /\ \A i : Tag(i)' = Tag(i)
    BY <2>1 DEF Kept, Tag, OfModality, Earlier
  <2> QED
    BY <2>1, <2>2 DEF TagsOK
<1>2. CASE UNCHANGED vars
  <2>1. UNCHANGED <<bundle, fitted, reserved, phase, tags>>
    BY <1>2 DEF vars
  <2>2. Kept' = Kept /\ \A i : Tag(i)' = Tag(i)
    BY <2>1 DEF Kept, Tag, OfModality, Earlier
  <2> QED
    BY <2>1, <2>2 DEF TagsOK
<1>3. CASE Guard \/ EndPass1 \/ EndPass2 \/ \E i \in Items : Rank(i) \/ Reserve(i)
  <2>1. phase' # "routing"
    BY <1>3 DEF Guard, EndPass1, EndPass2, Rank, Reserve
  <2> QED
    BY <2>1 DEF TagsOK
<1> QED
  BY <1>1, <1>2, <1>3 DEF Next

\* The blocks of a modality that come before a block.
Before(i) == {j \in OfModality(bundle[i].modality, Kept) \ {i} : Earlier(j, i)}

\* The number of a tag is one more than the blocks before it.
LEMMA TagCounts ==
    ASSUME CInv, NEW i \in Kept
    PROVE  LET peers == OfModality(bundle[i].modality, Kept)
           IN  /\ IsFiniteSet(peers) /\ IsFiniteSet(Before(i))
               /\ Tag(i) = 1 + Cardinality(Before(i))
               /\ Tag(i) \in 1..Cardinality(peers)
<1> DEFINE peers == OfModality(bundle[i].modality, Kept)
<1>1. i \in peers /\ peers \subseteq Items
  BY DEF OfModality, CInv, TypeOK, Kept
<1>2. IsFiniteSet(peers) /\ IsFiniteSet(Before(i))
  <2>1. IsFiniteSet(peers)
    BY <1>1, ContextAssumption, FS_Subset
  <2>2. Before(i) \subseteq peers
    BY DEF Before
  <2> QED
    BY <2>1, <2>2, FS_Subset
<1>3. Tag(i) = 1 + Cardinality(Before(i))
  BY DEF Tag, Before
<1>4. IsFiniteSet(peers \ {i}) /\ Cardinality(peers \ {i}) = Cardinality(peers) - 1
  BY <1>1, <1>2, FS_RemoveElement
<1>5. Before(i) \subseteq peers \ {i}
  BY DEF Before
<1>6. Cardinality(Before(i)) <= Cardinality(peers \ {i})
  BY <1>4, <1>5, FS_Subset
<1>7. Cardinality(Before(i)) \in Nat /\ Cardinality(peers) \in Nat
  BY <1>2, FS_CardinalityType
<1>8. Tag(i) \in 1..Cardinality(peers)
  BY <1>3, <1>4, <1>6, <1>7
<1> QED
  BY <1>2, <1>3, <1>8

\* Two kept blocks of one modality were both kept by pass 1.
LEMMA PeersFitted ==
    ASSUME AloneInModality, NEW i \in Kept, NEW j \in Kept, i # j,
           bundle[i].modality = bundle[j].modality
    PROVE  i \in fitted /\ i \notin reserved
<1>1. ASSUME i \in reserved
      PROVE  FALSE
  <2>1. OfModality(bundle[i].modality, Kept) = {i}
    BY <1>1 DEF AloneInModality
  <2>2. j \in OfModality(bundle[i].modality, Kept)
    BY DEF OfModality
  <2> QED
    BY <2>1, <2>2
<1> QED
  BY <1>1 DEF Kept

\* Among the blocks of one modality the order of the prompt is the rank.
LEMMA EarlierIsRank ==
    ASSUME AloneInModality, NEW i \in Kept, NEW j \in Kept, i # j,
           bundle[i].modality = bundle[j].modality
    PROVE  Earlier(i, j) <=> Precedes(i, j)
<1>1. i \in fitted /\ j \notin reserved
  BY PeersFitted
<1> QED
  BY <1>1 DEF Earlier, Precedes

\* What comes before a block comes before every worse block as well, and so
\* does the block itself.
LEMMA BetterComesBefore ==
    ASSUME CInv, AloneInModality, NEW i \in Kept, NEW j \in Kept,
           bundle[i].modality = bundle[j].modality, Precedes(i, j)
    PROVE  Before(i) \cup {i} \subseteq Before(j) /\ i \notin Before(i)
<1>1. bundle \in [Items -> ContextItem] /\ Kept \subseteq Items
  BY DEF CInv, TypeOK, Kept
<1>2. i # j
  BY <1>1, RankOrder
<1>3. i \in Before(j)
  BY <1>2, EarlierIsRank DEF Before, OfModality
<1>4. ASSUME NEW k \in Before(i)
      PROVE  k \in Before(j)
  <2>1. k \in Kept /\ k # i /\ bundle[k].modality = bundle[i].modality /\ Earlier(k, i)
    BY DEF Before, OfModality
  <2>2. Precedes(k, i)
    BY <2>1, EarlierIsRank
  <2>3. Precedes(k, j)
    BY <1>1, <2>1, <2>2, RankTransitive
  <2>4. k # j
    BY <1>1, <2>1, <2>2, RankOrder
  <2>5. Earlier(k, j)
    BY <2>1, <2>3, <2>4, EarlierIsRank
  <2> QED
    BY <2>1, <2>4, <2>5 DEF Before, OfModality
<1> QED
  BY <1>3, <1>4 DEF Before

\* The tags of each modality are the ranks of its kept blocks.
LEMMA TagsFollowRank ==
    ASSUME CInv, AloneInModality, TagsOK
    PROVE  CitationsFollowRank
<1> SUFFICES ASSUME phase = "routing", NEW i \in Kept
             PROVE  LET peers == OfModality(bundle[i].modality, Kept)
                    IN  /\ tags[i] \in 1..Cardinality(peers)
                        /\ \A j \in peers : Precedes(i, j) => tags[i] < tags[j]
  BY DEF CitationsFollowRank
<1> DEFINE peers == OfModality(bundle[i].modality, Kept)
<1>1. \A j \in Kept : tags[j] = Tag(j)
  BY DEF TagsOK
<1>2. tags[i] \in 1..Cardinality(peers)
  BY <1>1, TagCounts
<1>3. ASSUME NEW j \in peers, Precedes(i, j)
      PROVE  tags[i] < tags[j]
  <2>1. j \in Kept /\ bundle[i].modality = bundle[j].modality
    BY DEF OfModality
  <2>2. Before(i) \cup {i} \subseteq Before(j) /\ i \notin Before(i)
    BY <1>3, <2>1, BetterComesBefore
  <2>3. IsFiniteSet(Before(i)) /\ IsFiniteSet(Before(j))
    BY <2>1, TagCounts
  <2>4. /\ Cardinality(Before(i) \cup {i}) = Cardinality(Before(i)) + 1
        /\ Cardinality(Before(i) \cup {i}) <= Cardinality(Before(j))
    BY <2>2, <2>3, FS_AddElement, FS_Subset
  <2>5. Tag(i) = 1 + Cardinality(Before(i)) /\ Tag(j) = 1 + Cardinality(Before(j))
    BY <2>1, TagCounts
  <2>6. Cardinality(Before(i)) \in Nat /\ Cardinality(Before(j)) \in Nat
    BY <2>3, FS_CardinalityType
  <2> QED
    BY <1>1, <2>1, <2>4, <2>5, <2>6
<1> QED
  BY <1>2, <1>3

\* A citation names one block: within a modality the tags number the kept
\* blocks from the best to the worst, for every bundle and budget.
THEOREM CitationsFollowRankHolds == Spec => []CitationsFollowRank
<1>1. Init => AloneInModality /\ TagsOK
  BY DEF Init, AloneInModality, TagsOK
<1>2. CInv /\ AloneInModality /\ TagsOK /\ [Next]_vars => (AloneInModality /\ TagsOK)'
  BY KeepAlone, KeepTags
<1>3. CInv /\ AloneInModality /\ TagsOK => CitationsFollowRank
  BY TagsFollowRank
<1> QED
  BY <1>1, <1>2, <1>3, CInvariance, PTL DEF Spec

(***************************************************************************)
(* Sums over finite sets: MapThenSumSet is a recursive function on the     *)
(* subsets of a set.  The facts below follow from the minimal element of a *)
(* set of finite sets (WFMin).                                             *)
(***************************************************************************)

\* The element that the fold takes next.
Pick(s) == CHOOSE x \in s : TRUE

\* g adds f up over every subset of S, one picked element at a time.
AddsUp(g, f, S) ==
    g = [s \in SUBSET S |-> IF s = {} THEN 0 ELSE f[Pick(s)] + g[s \ {Pick(s)}]]

\* The element is one of the set's.
LEMMA PickIsMember == \A s : s # {} => Pick(s) \in s
BY DEF Pick

\* Among the subsets of a finite set that have a property one is minimal.
LEMMA MinimalSubset ==
    ASSUME NEW S, IsFiniteSet(S), NEW T \in SUBSET SUBSET S, T # {}
    PROVE  \E U \in T : \A V \in T : ~(V \subseteq U /\ V # U)
<1>1. IsWellFoundedOn(StrictSubsetOrdering(S), SUBSET S)
  BY FS_StrictSubsetOrderingWellFounded, FS_FiniteSubsetsOfFinite
<1>2. PICK U \in T : \A V \in T : <<V, U>> \notin StrictSubsetOrdering(S)
  <2> HIDE DEF StrictSubsetOrdering
  <2> QED
   BY <1>1, WFMin, Zenon
<1> QED
  BY <1>2 DEF StrictSubsetOrdering

\* Two such functions agree where both are defined.
LEMMA TotalsAgree ==
    ASSUME NEW S, IsFiniteSet(S), NEW f, NEW V \in SUBSET S, NEW W \in SUBSET S,
           NEW g, NEW h, AddsUp(g, f, V), AddsUp(h, f, W),
           NEW s \in SUBSET (V \cap W)
    PROVE  g[s] = h[s]
<1> DEFINE T == {u \in SUBSET (V \cap W) : g[u] # h[u]}
<1> SUFFICES ASSUME T # {} PROVE FALSE
  OBVIOUS
<1>1. T \in SUBSET SUBSET S
  OBVIOUS
<1>2. PICK u \in T : \A v \in T : ~(v \subseteq u /\ v # u)
  <2> HIDE DEF T
  <2> QED
    BY <1>1, MinimalSubset
<1>3. CASE u = {}
  BY <1>3 DEF AddsUp
<1>4. CASE u # {}
  <2>1. Pick(u) \in u
    BY <1>4, PickIsMember
  <2>2. g[u \ {Pick(u)}] = h[u \ {Pick(u)}]
    BY <1>2, <2>1
  <2>3. /\ g[u] = f[Pick(u)] + g[u \ {Pick(u)}]
        /\ h[u] = f[Pick(u)] + h[u \ {Pick(u)}]
    BY <1>4 DEF AddsUp
  <2> QED
    BY <2>2, <2>3
<1> QED
  BY <1>3, <1>4

\* There is one for every finite set.
LEMMA TotalsExist ==
    ASSUME NEW S, IsFiniteSet(S), NEW f
    PROVE  \E g : AddsUp(g, f, S)
<1> DEFINE T == {u \in SUBSET S : ~ \E g : AddsUp(g, f, u)}
<1> SUFFICES ASSUME T # {} PROVE FALSE
  OBVIOUS
<1>1. T \in SUBSET SUBSET S
  OBVIOUS
<1>2. PICK u \in T : \A v \in T : ~(v \subseteq u /\ v # u)
  <2> HIDE DEF T
  <2> QED
    BY <1>1, MinimalSubset
<1> DEFINE h(v) == CHOOSE g : AddsUp(g, f, v)
           t(v) == IF v = {} THEN 0
                   ELSE f[Pick(v)] + h(v \ {Pick(v)})[v \ {Pick(v)}]
           G == [v \in SUBSET u |-> t(v)]
<1>3. ASSUME NEW v \in SUBSET u, v # u
      PROVE  AddsUp(h(v), f, v)
  BY <1>2, <1>3
<1>4. ASSUME NEW v \in SUBSET u, v # u
      PROVE  h(v)[v] = t(v)
  <2>1. AddsUp(h(v), f, v)
    BY <1>3, <1>4
  <2>2. CASE v = {}
    BY <2>1, <2>2 DEF AddsUp
  <2>3. CASE v # {}
    <3> DEFINE w == v \ {Pick(v)}
    <3>1. Pick(v) \in v /\ w \in SUBSET v /\ w # v /\ w # u
      BY <2>3, PickIsMember
    <3>2. AddsUp(h(w), f, w)
      BY <1>3, <3>1
    <3>3. h(v)[w] = h(w)[w]
      <4> HIDE DEF h, w
      <4> QED
      BY <2>1, <3>1, <3>2, TotalsAgree
    <3>4. h(v)[v] = f[Pick(v)] + h(v)[w]
      <4> HIDE DEF h
      <4> QED
        BY <2>1, <2>3 DEF AddsUp
    <3> QED
      BY <2>3, <3>3, <3>4
  <2> QED
    BY <2>2, <2>3
<1>5. ASSUME NEW v \in SUBSET u, v # {}
      PROVE  G[v] = f[Pick(v)] + G[v \ {Pick(v)}]
  <2>1. Pick(v) \in v /\ v \ {Pick(v)} \in SUBSET u /\ v \ {Pick(v)} # u
    BY <1>5, PickIsMember
  <2>2. G[v \ {Pick(v)}] = h(v \ {Pick(v)})[v \ {Pick(v)}]
    <3> HIDE DEF h
    <3> QED
      BY <1>4, <2>1
  <2> QED
    BY <1>5, <2>2
<1>6. G[{}] = 0
  OBVIOUS
<1>7. AddsUp(G, f, u)
  <2>1. \A v \in SUBSET u : G[v] = IF v = {} THEN 0 ELSE f[Pick(v)] + G[v \ {Pick(v)}]
    <3> HIDE DEF G
    <3> QED
      BY <1>5, <1>6
  <2>2. G = [v \in SUBSET u |-> G[v]]
    OBVIOUS
  <2> HIDE DEF G
  <2> QED
    BY <2>1, <2>2 DEF AddsUp
<1> QED
  BY <1>7

\* The sum of a family of numbers over a finite set.
Total(f, S) == (CHOOSE g : AddsUp(g, f, S))[S]

\* It does not matter in which larger set the sum is computed.
LEMMA TotalOf ==
    ASSUME NEW S, IsFiniteSet(S), NEW f, NEW U \in SUBSET S,
           NEW g, AddsUp(g, f, S)
    PROVE  Total(f, U) = g[U]
<1>1. IsFiniteSet(U)
  BY FS_Subset
<1> DEFINE h == CHOOSE k : AddsUp(k, f, U)
<1>2. AddsUp(h, f, U)
  BY <1>1, TotalsExist
<1>3. g[U] = h[U]
  <2> HIDE DEF h
  <2> QED
    BY <1>2, TotalsAgree
<1> QED
  BY <1>3 DEF Total

\* The sum does not depend on the order of the additions.
LEMMA TotalRemove ==
    ASSUME NEW S, IsFiniteSet(S), NEW f \in [S -> Nat], NEW U \in SUBSET S
    PROVE  /\ Total(f, U) \in Nat
           /\ \A x \in U : Total(f, U) = f[x] + Total(f, U \ {x})
<1>1. PICK g : AddsUp(g, f, S)
  BY TotalsExist
<1>2. \A V \in SUBSET S : Total(f, V) = g[V]
  BY <1>1, TotalOf
<1>3. /\ g[{}] = 0
      /\ \A V \in SUBSET S : V # {} => g[V] = f[Pick(V)] + g[V \ {Pick(V)}]
  BY <1>1 DEF AddsUp
<1>4. \A V \in SUBSET S : g[V] \in Nat
  <2> DEFINE T == {V \in SUBSET S : g[V] \notin Nat}
  <2> SUFFICES ASSUME T # {} PROVE FALSE
    OBVIOUS
  <2>1. T \in SUBSET SUBSET S
    OBVIOUS
  <2>2. PICK V \in T : \A W \in T : ~(W \subseteq V /\ W # V)
    <3> HIDE DEF T
    <3> QED
      BY <2>1, MinimalSubset
  <2>3. V # {} /\ Pick(V) \in V
    BY <1>3, PickIsMember
  <2>4. g[V \ {Pick(V)}] \in Nat
    BY <2>2, <2>3
  <2> QED
    BY <1>3, <2>3, <2>4
<1>5. \A V \in SUBSET S : \A x \in V : g[V] = f[x] + g[V \ {x}]
  <2> DEFINE T == {V \in SUBSET S : \E x \in V : g[V] # f[x] + g[V \ {x}]}
  <2> SUFFICES ASSUME T # {} PROVE FALSE
    OBVIOUS
  <2>1. T \in SUBSET SUBSET S
    OBVIOUS
  <2>2. PICK V \in T : \A W \in T : ~(W \subseteq V /\ W # V)
    <3> HIDE DEF T
    <3> QED
      BY <2>1, MinimalSubset
  <2>3. PICK x \in V : g[V] # f[x] + g[V \ {x}]
    BY <2>2
  <2> DEFINE c == Pick(V)
  <2>4. c \in V
    BY <2>3, PickIsMember
  <2>5. g[V] = f[c] + g[V \ {c}]
    BY <1>3, <2>4
  <2>6. c # x
    BY <2>3, <2>5
  <2>7. V \ {c} \notin T /\ V \ {x} \notin T
    BY <2>2, <2>4
  <2>8. g[V \ {c}] = f[x] + g[(V \ {c}) \ {x}]
    BY <2>3, <2>6, <2>7
  <2>9. g[V \ {x}] = f[c] + g[(V \ {x}) \ {c}]
    BY <2>4, <2>6, <2>7
  <2>10. (V \ {c}) \ {x} = (V \ {x}) \ {c}
    OBVIOUS
  <2>11. f[c] \in Nat /\ f[x] \in Nat /\ g[(V \ {c}) \ {x}] \in Nat
    BY <1>4, <2>4
  <2>12. \A a, b, z \in Nat : a + (b + z) = b + (a + z)
    OBVIOUS
  <2>13. g[V] = f[x] + g[V \ {x}]
    <3>1. f[c] + (f[x] + g[(V \ {c}) \ {x}]) = f[x] + (f[c] + g[(V \ {c}) \ {x}])
      BY <2>11, <2>12, Zenon
    <3> HIDE DEF c, T
    <3> QED
      BY <3>1, <2>5, <2>8, <2>9, <2>10, Zenon
  <2> QED
    BY <2>3, <2>13
<1> QED
  BY <1>2, <1>4, <1>5

\* The footprints of the bundle's items, as a function of the item.
Footprints == [i \in Items |-> compute_tokens(i)]

\* What the module's fold computes is the sum of the footprints.
LEMMA FoldIsTotal ==
    ASSUME NEW S \in SUBSET Items
    PROVE  MapThenSumSet(compute_tokens, S) = Total(Footprints, S)
<1>1. IsFiniteSet(S) /\ IsFiniteSet(Items)
  BY ContextAssumption, FS_Subset
<1> DEFINE iter == CHOOSE g : g = [s \in SUBSET S |->
                      IF s = {} THEN 0
                      ELSE compute_tokens(CHOOSE x \in s : TRUE)
                             + g[s \ {CHOOSE x \in s : TRUE}]]
<1>2. MapThenSumSet(compute_tokens, S) = iter[S]
  BY DEF MapThenSumSet, MapThenFoldSet
<1>3. \A s \in SUBSET S : s # {} => compute_tokens(Pick(s)) = Footprints[Pick(s)]
  BY PickIsMember DEF Footprints
<1>4. PICK g : AddsUp(g, Footprints, S)
  BY <1>1, TotalsExist
<1>5. g = [s \in SUBSET S |-> IF s = {} THEN 0
                              ELSE compute_tokens(Pick(s)) + g[s \ {Pick(s)}]]
  BY <1>3, <1>4 DEF AddsUp
<1>6. iter = [s \in SUBSET S |-> IF s = {} THEN 0
                                 ELSE compute_tokens(Pick(s)) + iter[s \ {Pick(s)}]]
  BY <1>5 DEF Pick
<1>7. AddsUp(iter, Footprints, S)
  <2> HIDE DEF iter
  <2> QED
    BY <1>3, <1>6 DEF AddsUp
<1> QED
  <2> HIDE DEF iter
  <2> QED
    BY <1>1, <1>2, <1>7, TotalOf

\* The sum over nothing, and over a set with one more element.
LEMMA TotalAdd ==
    ASSUME NEW S, IsFiniteSet(S), NEW f \in [S -> Nat], NEW U \in SUBSET S
    PROVE  /\ Total(f, {}) = 0
           /\ \A x \in S \ U : Total(f, U \cup {x}) = Total(f, U) + f[x]
<1>1. Total(f, {}) = 0
  <2>1. PICK g : AddsUp(g, f, {})
    BY FS_EmptySet, TotalsExist
  <2>2. Total(f, {}) = g[{}]
    BY <2>1, FS_EmptySet, TotalOf
  <2> QED
    BY <2>1, <2>2 DEF AddsUp
<1>2. ASSUME NEW x \in S \ U
      PROVE  Total(f, U \cup {x}) = Total(f, U) + f[x]
  <2>1. U \cup {x} \in SUBSET S /\ x \in U \cup {x} /\ (U \cup {x}) \ {x} = U
    OBVIOUS
  <2>2. Total(f, U \cup {x}) = f[x] + Total(f, U)
    BY <2>1, TotalRemove
  <2>3. Total(f, U) \in Nat /\ f[x] \in Nat
    BY TotalRemove
  <2> QED
    BY <2>2, <2>3
<1> QED
  BY <1>1, <1>2

\* tokens_after is the sum of the kept items, and what pass 1 kept fits.
SumOK ==
    /\ spent = Total(Footprints, Kept)
    /\ Total(Footprints, fitted) <= Budget

\* The footprints are natural numbers.
LEMMA FootprintsNat ==
    ASSUME bundle \in [Items -> ContextItem]
    PROVE  Footprints \in [Items -> Nat] /\ \A i \in Items : Footprints[i] = compute_tokens(i)
BY TokensNat DEF Footprints

\* At first nothing is kept or counted.
LEMMA SumInit == Init => SumOK
<1> SUFFICES ASSUME Init PROVE SumOK
  OBVIOUS
<1>1. Footprints \in [Items -> Nat]
  BY FootprintsNat DEF Init
<1>2. Total(Footprints, {}) = 0
  BY <1>1, ContextAssumption, TotalAdd
<1> QED
  BY <1>2, ContextAssumption DEF Init, SumOK, Kept

\* Each pass adds the footprint of the one item it keeps.
LEMMA KeepSum ==
    ASSUME CInv, SumOK, [Next]_vars
    PROVE  SumOK'
<1>1. /\ Footprints \in [Items -> Nat]
      /\ \A i \in Items : Footprints[i] = compute_tokens(i)
  BY FootprintsNat DEF CInv, TypeOK
<1>2. UNCHANGED bundle
  BY DEF Next, Guard, EndPass1, EndPass2, Assemble, Rank, Reserve, input, vars
<1>3. Footprints' = Footprints
  BY <1>2 DEF Footprints, compute_tokens
<1>4. IsFiniteSet(Items) /\ fitted \subseteq Items /\ Kept \subseteq Items
  BY ContextAssumption DEF CInv, TypeOK, Kept
<1>5. ASSUME NEW i \in Items, Rank(i)
      PROVE  SumOK'
  <2>1. reserved = {} /\ reserved' = {} /\ i \notin fitted
    BY <1>5 DEF Rank, IsFirst, CInv, PhaseOK, Accounted, Kept
  <2>2. CASE UNCHANGED <<fitted, spent>>
    BY <1>3, <2>1, <2>2 DEF SumOK, Kept
  <2>3. CASE /\ fitted' = fitted \cup {i} /\ spent' = spent + compute_tokens(i)
             /\ spent + compute_tokens(i) <= Budget
    <3>1. Total(Footprints, fitted \cup {i}) = Total(Footprints, fitted) + compute_tokens(i)
      BY <1>1, <1>4, <2>1, TotalAdd
    <3>2. Kept = fitted /\ Kept' = fitted'
      BY <2>1 DEF Kept
    <3> QED
      BY <1>3, <2>3, <3>1, <3>2 DEF SumOK
  <2> QED
    BY <1>5, <2>2, <2>3 DEF Rank
<1>6. ASSUME NEW b \in Items, Reserve(b)
      PROVE  SumOK'
  <2>1. b \notin Kept /\ Kept' = Kept \cup {b} /\ fitted' = fitted
    BY <1>6, UnlistsItself DEF Reserve, Kept
  <2>2. Total(Footprints, Kept \cup {b}) = Total(Footprints, Kept) + compute_tokens(b)
    BY <1>1, <1>4, <2>1, TotalAdd
  <2>3. spent' = spent + compute_tokens(b)
    BY <1>6 DEF Reserve
  <2> QED
    BY <1>3, <2>1, <2>2, <2>3 DEF SumOK
<1>7. CASE UNCHANGED <<fitted, reserved, spent>>
  BY <1>3, <1>7 DEF SumOK, Kept
<1> QED
  BY <1>5, <1>6, <1>7 DEF Next, Guard, EndPass1, EndPass2, Assemble, vars

\* The token counts are right in every state.
LEMMA SumInvariance == Spec => [](CInv /\ SumOK)
<1>1. CInv /\ SumOK /\ [Next]_vars => SumOK'
  BY KeepSum
<1> QED
  BY <1>1, CInvariance, SumInit, PTL DEF Spec

\* tokens_after, which the passes count up, is the footprint of what is kept.
THEOREM SpentIsFootprintHolds == Spec => []SpentIsFootprint
<1>1. CInv /\ SumOK => SpentIsFootprint
  BY FoldIsTotal DEF CInv, TypeOK, SumOK, Kept, SpentIsFootprint
<1> QED
  BY <1>1, SumInvariance, PTL

\* The kept items exceed the budget by at most one reserved item for each
\* modality that had nothing that fitted.
THEOREM OvershootIsReservedHolds == Spec => []OvershootIsReserved
<1>1. Init => AloneInModality
  BY DEF Init, AloneInModality
<1>2. CInv /\ AloneInModality /\ [Next]_vars => AloneInModality'
  BY KeepAlone
<1>3. CInv /\ SumOK /\ AloneInModality => OvershootIsReserved
  BY FoldIsTotal DEF CInv, TypeOK, SumOK, AloneInModality, OvershootIsReserved
<1> QED
  BY <1>1, <1>2, <1>3, SumInvariance, CInvariance, PTL DEF Spec
=============================================================================
