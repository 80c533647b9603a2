----------------------- MODULE VectorIndexing_proofs -----------------------
(***************************************************************************)
(* Proofs about the indexing of one table, for every table, batch size and *)
(* number of attempts and deliveries.                                      *)
(***************************************************************************)
EXTENDS VectorIndexing, FiniteSetTheorems, WellFoundedInduction, TLAPS

\* The rows before start are in Qdrant while an attempt to upsert goes on.
Progress == pc = "calling" /\ op = "upsert" => PointsOf((1..start) \cap (1..rows)) \subseteq qdrant

\* Before the upsert no batch is counted off; the mode is decided at the end;
\* a call is made only while attempts are left, and a delivery has them all.
Fresh ==
    /\ op # "upsert" => start = 0
    /\ pc # "done" => mode = "qdrant"
    /\ pc = "calling" => attempt < MaxAttempts
    /\ pc = "embedding" => op = "create" /\ attempt = 0

\* What is in Qdrant was drawn before the first attempt of some delivery.
Drawn == \A p \in qdrant : p.attempt = 0 /\ p.row \in 1..rows /\ p.run <= run

Spooled == pc = "done" /\ mode = "spooled" => spool = PointsOf(1..rows)
Stored == pc = "done" /\ mode = "qdrant" => PointsOf(1..rows) \subseteq qdrant

\* A child whose model is absent had it in the call that probed at most, which
\* embedded the first sub-batch; the store is reached with all rows embedded.
AllHashed ==
    /\ model = "absent" => hashed = 1..embedded \/ hashed = (EmbedRows + 1)..embedded
    /\ embedded = 0 \/ embedded = rows \/ embedded >= EmbedRows
    /\ model = "unprobed" => embedded = 0 /\ hashed = {}
    /\ pc \notin {"embedding", "failed"} => embedded = rows

IxInv == AllHashed /\ TypeOK /\ Progress /\ Fresh /\ Drawn /\ Spooled /\ Stored

\* A set of rows becomes a set of points.
LEMMA PointsType ==
    ASSUME TypeOK, NEW S, S \subseteq 1..rows
    PROVE  /\ PointsOf(S) \subseteq Points
           /\ \A p \in PointsOf(S) : p.attempt = 0 /\ p.row \in 1..rows /\ p.run = run
BY IndexingAssumption DEF TypeOK, PointsOf, Points, Attempts, Runs

\* The invariant holds at the first delivery.
LEMMA IxInit == Init => IxInv
BY IndexingAssumption
DEF Init, IxInv, AllHashed, TypeOK, Models, Ops, Attempts, Runs, Progress, Fresh, Drawn, Spooled, Stored

\* The count of a batch.
LEMMA BatchCount ==
    ASSUME TypeOK
    PROVE  NextBatch \subseteq Int /\ Cardinality(NextBatch) \in Nat
<1>1. start + 1 \in Int /\ (IF start + BatchSize < rows THEN start + BatchSize ELSE rows) \in Int
  BY IndexingAssumption DEF TypeOK
<1>2. IsFiniteSet(NextBatch)
  BY <1>1, FS_Interval DEF NextBatch
<1> QED
  BY <1>1, <1>2, FS_CardinalityType DEF NextBatch

\* A batch, acknowledged or not, adds points of this delivery only; when it
\* is acknowledged the rows before the new start are all there.
LEMMA BatchStored ==
    ASSUME IxInv, pc = "calling", op = "upsert", start < rows
    PROVE  /\ NextBatch \subseteq 1..rows
           /\ (1..(start + BatchSize)) \cap (1..rows) \subseteq ((1..start) \cap (1..rows)) \cup NextBatch
BY IndexingAssumption DEF IxInv, TypeOK, NextBatch

\* Embedding a sub-batch keeps the invariant.
LEMMA EmbedStep == IxInv /\ EmbedBatch => IxInv'
<1> SUFFICES ASSUME IxInv, EmbedBatch PROVE IxInv'
  OBVIOUS
<1>1. /\ pc = "embedding" /\ UNCHANGED <<rows, pc, op, run, attempt, start, written, qdrant, spool, mode>>
      /\ embedded \in Nat /\ rows \in Nat /\ embedded < rows
  BY IndexingAssumption DEF IxInv, EmbedBatch, TypeOK
<1>2. /\ embedded' \in 0..rows
      /\ (embedded + 1)..EmbeddedNext \subseteq 1..rows
      /\ (1..embedded) \cup (embedded + 1)..EmbeddedNext = 1..embedded'
  BY <1>1, IndexingAssumption DEF EmbedBatch, EmbeddedNext
<1>3. /\ model' \in Models /\ model' # "unprobed"
      /\ model' = "absent" => model = "absent" \/ model = "unprobed"
      /\ model = "absent" => hashed' = hashed \cup (embedded + 1)..EmbeddedNext
      /\ \/ hashed' = hashed
         \/ hashed' = hashed \cup (embedded + 1)..EmbeddedNext
  BY DEF IxInv, TypeOK, EmbedBatch, Probe, ModelInHand, Models
<1>4. TypeOK'
  BY <1>1, <1>2, <1>3 DEF IxInv, TypeOK
<1>5. embedded' = rows \/ embedded' >= EmbedRows
  BY <1>1, IndexingAssumption DEF EmbedBatch, EmbeddedNext
<1>6. ASSUME model' = "absent"
      PROVE  hashed' = 1..embedded' \/ hashed' = (EmbedRows + 1)..embedded'
  <2>1. CASE hashed = 1..embedded /\ hashed' = hashed \cup (embedded + 1)..EmbeddedNext
    BY <1>2, <2>1
  <2>2. CASE hashed = 1..embedded /\ hashed' = hashed /\ model = "unprobed"
    <3>1. embedded = 0 /\ hashed' = {}
      BY <2>2 DEF IxInv, AllHashed
    <3>2. embedded' \in Nat /\ embedded' <= EmbedRows
      BY <1>1, <3>1, IndexingAssumption DEF EmbedBatch, EmbeddedNext
    <3> QED
      BY <3>1, <3>2, IndexingAssumption
  <2>3. CASE hashed = (EmbedRows + 1)..embedded /\ embedded # 0 /\ model = "absent"
    <3>1. embedded >= EmbedRows
      BY <1>1, <2>3 DEF IxInv, AllHashed
    <3>2. /\ hashed' = ((EmbedRows + 1)..embedded) \cup (embedded + 1)..EmbeddedNext
          /\ embedded' = EmbeddedNext
      BY <1>3, <2>3 DEF EmbedBatch
    <3>3. EmbeddedNext \in Nat /\ EmbeddedNext > embedded
      BY <1>1, IndexingAssumption DEF EmbeddedNext
    <3> QED
      BY <1>1, <3>1, <3>2, <3>3, IndexingAssumption
  <2>4. embedded = 0 => (EmbedRows + 1)..embedded = 1..embedded
    BY IndexingAssumption
  <2>5. \/ hashed = 1..embedded
        \/ hashed = (EmbedRows + 1)..embedded /\ embedded # 0 /\ model = "absent"
    <3>1. CASE model = "absent"
      BY <2>4, <3>1 DEF IxInv, AllHashed
    <3>2. CASE model = "unprobed"
      BY <3>2 DEF IxInv, AllHashed
    <3> QED
      BY <1>3, <1>6, <3>1, <3>2
  <2> QED
    BY <1>3, <1>6, <2>1, <2>2, <2>3, <2>5
<1>7. AllHashed'
  BY <1>1, <1>3, <1>5, <1>6 DEF AllHashed
<1> QED
  BY <1>1, <1>4, <1>7 DEF IxInv, Progress, Fresh, Drawn, Spooled, Stored, PointsOf

\* Every step of the task keeps the invariant.
LEMMA IxStep == IxInv /\ [Next]_vars => IxInv'
<1> SUFFICES ASSUME IxInv, [Next]_vars PROVE IxInv'
  OBVIOUS
<1> USE DEF IxInv
<1>1. TypeOK /\ rows \in Nat /\ start \in Nat /\ run \in Nat /\ BatchSize \in Nat \ {0}
  BY IndexingAssumption DEF TypeOK, Runs
<1>3. CASE UNCHANGED vars
  BY <1>3 DEF vars, embedding, AllHashed, TypeOK, Progress, Fresh, Drawn, Spooled, Stored, PointsOf
<1>4. CASE Connect
  BY <1>1, <1>4, IndexingAssumption
  DEF Connect, embedding, AllHashed, TypeOK, Progress, Fresh, Drawn, Spooled, Stored
<1>13. CASE EmbedBatch
  BY <1>13, EmbedStep
<1>14. ASSUME UNCHANGED <<rows, embedding>>, pc \notin {"embedding", "failed"} \/ pc' \in {"embedding", "failed"}
       PROVE  AllHashed'
  BY <1>14 DEF embedding, AllHashed
<1>5. CASE Prepared
  <2>1. start = 0
    BY <1>5 DEF Prepared, Fresh
  <2>2. (1..0) = {}
    OBVIOUS
  <2> QED
    BY <1>1, <1>5, <1>14, <2>1, <2>2, IndexingAssumption
    DEF Prepared, embedding, Operation, TypeOK, Ops, Attempts, Progress, Fresh, Drawn, Spooled, Stored, PointsOf
<1>6. CASE UpsertBatch
  <2>1. NextBatch \subseteq 1..rows
    BY <1>6, BatchStored DEF UpsertBatch
  <2>6. /\ PointsOf(NextBatch) \subseteq Points
        /\ \A p \in PointsOf(NextBatch) : p.attempt = 0 /\ p.row \in 1..rows /\ p.run = run
    BY <1>1, <2>1, PointsType
  <2>7. written' \in Nat /\ start' \in Nat
    BY <1>1, <1>6, BatchCount DEF UpsertBatch, TypeOK
  <2>2. TypeOK'
    BY <1>6, <2>6, <2>7 DEF UpsertBatch, embedding, TypeOK
  <2>3. Drawn'
    BY <1>1, <1>6, <2>6 DEF UpsertBatch, Drawn
  <2>4. Progress'
    <3>1. PointsOf(((1..start) \cap (1..rows)) \cup NextBatch) \subseteq qdrant'
      BY <1>6 DEF UpsertBatch, Progress, PointsOf
    <3>2. PointsOf((1..(start + BatchSize)) \cap (1..rows)) \subseteq qdrant'
      BY <1>6, <3>1, BatchStored DEF UpsertBatch, PointsOf
    <3> QED
      BY <1>6, <3>2 DEF UpsertBatch, Progress, PointsOf
  <2>5. Fresh' /\ Spooled' /\ Stored'
    BY <1>6 DEF UpsertBatch, Fresh, Spooled, Stored
  <2> QED
    BY <1>6, <1>14, <2>2, <2>3, <2>4, <2>5 DEF UpsertBatch
<1>7. CASE UpsertDone
  <2>1. (1..start) \cap (1..rows) = 1..rows
    BY <1>1, <1>7 DEF UpsertDone
  <2>2. PointsOf(1..rows) \subseteq qdrant
    BY <1>7, <2>1 DEF UpsertDone, Progress
  <2> QED
    BY <1>1, <1>7, <1>14, <2>2 DEF UpsertDone, embedding, TypeOK, Progress, Fresh, Drawn, Spooled, Stored, PointsOf
<1>8. CASE CallFails
  <2>1. attempt' \in Attempts
    BY <1>8, IndexingAssumption DEF CallFails, TypeOK, Fresh, Attempts
  <2>2. \/ qdrant' = qdrant
        \/ qdrant' = qdrant \cup PointsOf(NextBatch) /\ NextBatch \subseteq 1..rows
    BY <1>8, BatchStored DEF CallFails
  <2>3. qdrant' \subseteq Points /\ Drawn'
    BY <1>1, <1>8, <2>2, PointsType DEF CallFails, TypeOK, Drawn
  <2> QED
    BY <1>1, <1>8, <1>14, <2>1, <2>3 DEF CallFails, embedding, TypeOK, Progress, Fresh, Spooled, Stored
<1>9. CASE Wake
  <2>1. (1..0) = {}
    OBVIOUS
  <2> QED
    BY <1>1, <1>9, <1>14, <2>1 DEF Wake, embedding, TypeOK, Progress, Fresh, Drawn, Spooled, Stored, PointsOf
<1>10. CASE Spool
  <2>1. PointsOf(1..rows) \subseteq Points
    BY <1>1, PointsType
  <2> QED
    BY <1>1, <1>10, <1>14, <2>1 DEF Spool, embedding, TypeOK, Progress, Fresh, Drawn, Spooled, Stored, PointsOf
<1>11. CASE Abort
  <2>1. spool' \in {spool, {}}
    BY <1>11 DEF Abort
  <2> QED
    BY <1>1, <1>11, <1>14, <2>1 DEF Abort, embedding, TypeOK, Progress, Fresh, Drawn, Spooled, Stored
<1>12. CASE Redeliver
  <2>1. spool' \in {spool, {}, PointsOf(1..rows)}
    BY <1>12 DEF Redeliver
  <2>2. PointsOf(1..rows) \subseteq Points
    BY <1>1, PointsType
  <2>3. run + 1 \in Runs
    BY <1>1, <1>12, IndexingAssumption DEF Redeliver, Runs
  <2>4. TypeOK'
    BY <1>1, <1>12, <2>1, <2>2, <2>3, IndexingAssumption DEF Redeliver, TypeOK, Ops, Attempts
  <2>5. \A p \in qdrant : p.run \in Int
    BY <1>1 DEF TypeOK, Points, Runs
  <2>6. Drawn'
    BY <1>1, <1>12, <2>5 DEF Redeliver, Drawn
  <2> QED
    BY <1>1, <1>12, <2>4, <2>6 DEF Redeliver, AllHashed, Progress, Fresh, Spooled, Stored
<1> QED
  BY <1>3, <1>4, <1>5, <1>6, <1>7, <1>8, <1>9, <1>10, <1>11, <1>12, <1>13 DEF Next, TaskStep

\* The invariant holds throughout.
THEOREM IxInvariance == Spec => []IxInv
BY IxInit, IxStep, PTL DEF Spec

\* Every variable keeps its type.
THEOREM IndexingTypeCorrect == Spec => []TypeOK
<1>1. IxInv => TypeOK
  BY DEF IxInv
<1> QED
  BY <1>1, IxInvariance, PTL

\* A finished delivery has every row in the store that its summary names.
THEOREM NothingLostHolds == Spec => []NothingLost
<1>1. IxInv => NothingLost
  BY DEF IxInv, NothingLost, Spooled, Stored, TypeOK
<1> QED
  BY <1>1, IxInvariance, PTL

\* Replaying the spool file adds no second point for a row of the delivery.
THEOREM ReplayIsIdempotentHolds == Spec => []ReplayIsIdempotent
<1>1. IxInv => ReplayIsIdempotent
  <2> SUFFICES ASSUME IxInv, pc = "done", mode = "spooled", NEW p \in qdrant, p.run = run
               PROVE  p \in PointsOf(1..rows)
    BY DEF ReplayIsIdempotent, IxInv, Spooled
  <2>1. p \in Points /\ p.attempt = 0 /\ p.row \in 1..rows
    BY DEF IxInv, TypeOK, Drawn
  <2>2. p = [row |-> p.row, run |-> run, attempt |-> 0]
    BY <2>1 DEF Points
  <2> QED
    BY <2>1, <2>2 DEF PointsOf
<1> QED
  BY <1>1, IxInvariance, PTL

\* A row has at most one point of each delivery: a retry adds none.
THEOREM OnePointPerDeliveryHolds == Spec => []OnePointPerDelivery
<1>1. IxInv => OnePointPerDelivery
  <2> SUFFICES ASSUME IxInv, NEW r \in 1..MaxRows
               PROVE  Cardinality({p \in qdrant : p.row = r}) <= run
    BY DEF OnePointPerDelivery
  <2> DEFINE S == {p \in qdrant : p.row = r}
             f == [p \in S |-> p.run]
  <2>1. run \in Nat /\ \A p \in S : p \in Points /\ p.attempt = 0 /\ p.row = r /\ p.run \in 1..run
    <3>1. run \in Nat
      BY IndexingAssumption DEF IxInv, TypeOK, Runs
    <3>2. \A p \in S : p \in Points /\ p.attempt = 0 /\ p.row = r /\ p.run <= run
      BY DEF IxInv, TypeOK, Drawn
    <3>3. \A p \in Points : p.run \in Nat \ {0}
      BY IndexingAssumption DEF Points, Runs
    <3> HIDE DEF S
    <3> QED
      BY <3>1, <3>2, <3>3
  <2>2. \A p, q \in S : p.run = q.run => p = q
    BY <2>1 DEF Points
  <2>3. f \in Injection(S, 1..run)
    <3>1. f \in [S -> 1..run]
      BY <2>1
    <3>2. \A p, q \in S : f[p] = f[q] => p = q
      BY <2>2
    <3> HIDE DEF S
    <3> QED
      BY <3>1, <3>2 DEF Injection, IsInjective
  <2>4. IsFiniteSet(1..run) /\ Cardinality(1..run) = run
    BY <2>1, FS_Interval
  <2> HIDE DEF S, f
  <2>5. Cardinality(S) <= run
    BY <2>3, <2>4, FS_Injection
  <2> QED
    BY <2>5 DEF S
<1> QED
  BY <1>1, IxInvariance, PTL

\* "hash_fallback" after a failed probe: every row has a hash vector, or every
\* row but those of the first sub-batch.
THEOREM HashReportSparesProbeHolds == Spec => []HashReportSparesProbe
<1>1. IxInv => HashReportSparesProbe
  BY DEF IxInv, AllHashed, HashReportSparesProbe
<1> QED
  BY <1>1, IxInvariance, PTL

(***************************************************************************)
(* Why indexing ends.  Every step lowers a measure, in the lexicographic   *)
(* order of four numbers: the deliveries to come, the operations to come,  *)
(* the attempts left to the present one, and the rows it has still to      *)
(* work on.                                                                *)
(***************************************************************************)

Operations ==
    CASE pc = "embedding" -> 5
      [] pc \in {"calling", "sleeping"} /\ op = "create" -> 4
      [] pc \in {"calling", "sleeping"} /\ op = "index" -> 3
      [] pc \in {"calling", "sleeping"} /\ op = "upsert" -> 2
      [] pc = "spooling" -> 1
      [] OTHER -> 0

RowsToDo ==
    CASE pc = "embedding" -> rows - embedded
      [] pc = "sleeping" -> rows + 1
      [] pc = "calling" /\ start < rows -> rows - start
      [] OTHER -> 0

Measure ==
    [i \in 1..4 |-> CASE i = 1 -> MaxRuns - run
                      [] i = 2 -> Operations
                      [] i = 3 -> MaxAttempts - attempt
                      [] i = 4 -> RowsToDo]

Lower == LexProductOrdering(OpToRel(<, Nat), Nat, 4)
Falling == <<Measure', Measure>> \in Lower

\* No sequence of measures falls for ever.
LEMMA NoEndlessFall == IsWellFoundedOn(Lower, [1..4 -> Nat])
BY NatLessThanWellFounded, WFLexProductOrdering DEF Lower

\* The order, spelled out.
LEMMA Falls ==
    ASSUME NEW m \in [1..4 -> Nat], NEW n \in [1..4 -> Nat], NEW j \in 1..4,
           n[j] < m[j], \A i \in 1..(j - 1) : n[i] = m[i]
    PROVE  <<n, m>> \in Lower
BY DEF Lower, LexProductOrdering, OpToRel

\* The four numbers.
LEMMA MeasureType == IxInv => Measure \in [1..4 -> Nat]
<1> SUFFICES ASSUME IxInv PROVE Measure \in [1..4 -> Nat]
  OBVIOUS
<1>1. MaxRuns - run \in Nat /\ MaxAttempts - attempt \in Nat
  BY IndexingAssumption DEF IxInv, TypeOK, Runs, Attempts
<1>2. Operations \in Nat
  BY DEF Operations
<1>3. RowsToDo \in Nat
  BY IndexingAssumption DEF RowsToDo, IxInv, TypeOK
<1> QED
  BY <1>1, <1>2, <1>3 DEF Measure

\* Every step lowers the first number it changes.
LEMMA MeasureFalls == IxInv /\ IxInv' /\ Next => <<Measure', Measure>> \in Lower
<1> SUFFICES ASSUME IxInv, IxInv', Next PROVE <<Measure', Measure>> \in Lower
  OBVIOUS
<1>1. Measure \in [1..4 -> Nat] /\ Measure' \in [1..4 -> Nat]
  <2>1. Measure \in [1..4 -> Nat]
    BY MeasureType
  <2>2. IxInv' => (Measure \in [1..4 -> Nat])'
    BY MeasureType, PTL
  <2> QED
    BY <2>1, <2>2
<1>2. /\ Measure[1] = MaxRuns - run /\ Measure'[1] = MaxRuns - run'
      /\ Measure[2] = Operations /\ Measure'[2] = Operations'
      /\ Measure[3] = MaxAttempts - attempt /\ Measure'[3] = MaxAttempts - attempt'
      /\ Measure[4] = RowsToDo /\ Measure'[4] = RowsToDo'
  BY DEF Measure
<1>3. /\ run \in Nat /\ run' \in Nat /\ attempt \in Nat /\ attempt' \in Nat
      /\ rows \in Nat /\ embedded \in Nat /\ start \in Nat /\ op \in Ops
      /\ MaxRuns \in Nat /\ MaxAttempts \in Nat /\ EmbedRows \in Nat \ {0} /\ BatchSize \in Nat \ {0}
  BY IndexingAssumption DEF IxInv, TypeOK, Runs, Attempts
<1>4. CASE Redeliver
  <2>1. Measure'[1] < Measure[1]
    BY <1>2, <1>3, <1>4 DEF Redeliver
  <2> QED
    BY <1>1, <2>1, Falls
<1>5. CASE Connect \/ Prepared \/ UpsertDone \/ Spool \/ Abort
  <2>1. run' = run
    BY <1>5 DEF Connect, Prepared, UpsertDone, Spool, Abort
  <2>2. Operations' < Operations
    BY <1>3, <1>5
    DEF IxInv, Fresh, Ops, Operations, Operation, Connect, Prepared, UpsertDone, Spool, Abort
  <2> QED
    BY <1>1, <1>2, <2>1, <2>2, Falls
<1>6. CASE CallFails
  <2>1. run' = run /\ attempt' = attempt + 1
    BY <1>6 DEF CallFails
  <2>2. Operations' = Operations
    BY <1>6 DEF CallFails, Operations
  <2>3. Measure'[3] < Measure[3]
    BY <1>2, <1>3, <2>1
  <2> QED
    BY <1>1, <1>2, <2>1, <2>2, <2>3, Falls
<1>7. CASE Wake
  <2>1. run' = run /\ attempt' = attempt
    BY <1>7 DEF Wake
  <2>2. CASE attempt < MaxAttempts
    <3>1. Operations' = Operations
      BY <1>7, <2>2 DEF Wake, Operations
    <3>2. RowsToDo' < RowsToDo
      BY <1>3, <1>7, <2>2 DEF Wake, RowsToDo
    <3> QED
      BY <1>1, <1>2, <2>1, <3>1, <3>2, Falls
  <2>3. CASE ~(attempt < MaxAttempts)
    <3>1. Operations' < Operations
      BY <1>3, <1>7, <2>3 DEF Wake, Operations, Ops
    <3> QED
      BY <1>1, <1>2, <2>1, <3>1, Falls
  <2> QED
    BY <2>2, <2>3
<1>8. CASE EmbedBatch \/ UpsertBatch
  <2>1. run' = run /\ attempt' = attempt /\ Operations' = Operations
    BY <1>8 DEF EmbedBatch, UpsertBatch, Operations
  <2>2. RowsToDo' < RowsToDo
    BY <1>3, <1>8 DEF EmbedBatch, EmbeddedNext, UpsertBatch, RowsToDo
  <2> QED
    BY <1>1, <1>2, <2>1, <2>2, Falls
<1> QED
  BY <1>4, <1>5, <1>6, <1>7, <1>8 DEF Next, TaskStep

\* No run of the task goes on for ever, whatever Qdrant answers and however
\* often it is delivered: every step lowers a measure that cannot fall for
\* ever.
THEOREM IndexingRunsOut ==
    /\ IsWellFoundedOn(Lower, [1..4 -> Nat])
    /\ Spec => [](Measure \in [1..4 -> Nat])
    /\ Spec => [][Falling]_vars
<1>1. Spec => [](Measure \in [1..4 -> Nat])
  BY IxInvariance, MeasureType, PTL
<1>2. IxInv /\ IxInv' /\ [Next]_vars => [Falling]_vars
  BY MeasureFalls DEF Falling
<1>3. Spec => [][Falling]_vars
  BY <1>2, IxInvariance, PTL DEF Spec
<1> QED
  BY <1>1, <1>3, NoEndlessFall
=============================================================================
