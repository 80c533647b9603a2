--------------------------- MODULE VectorIndexing ---------------------------
(***************************************************************************)
(* One tabular file on its way into the vector database: run_indexing      *)
(* (app/tabular/indexing.py) once the table is parsed, with the embedding  *)
(* model and its hash fallback (app/embeddings.py), the retries, batches   *)
(* and spool of app/vector_store.py, over an unreliable Qdrant, through    *)
(* soft time limits and through deliveries of the task that die half way.  *)
(***************************************************************************)
EXTENDS Integers, FiniteSets

CONSTANTS
    MaxRows,        \* the most rows a table has
    EmbedRows,      \* settings.max_embed_batch_rows
    BatchSize,      \* settings.upsert_batch_size
    MaxAttempts,    \* settings.qdrant_max_retries
    MaxRuns,        \* bound: deliveries of the task
    ClientInstalled \* whether qdrant-client can be imported

ASSUME IndexingAssumption ==
    /\ MaxRows \in Nat /\ EmbedRows \in Nat \ {0} /\ BatchSize \in Nat \ {0}
    /\ MaxAttempts \in Nat \ {0} /\ MaxRuns \in Nat \ {0}
    /\ ClientInstalled \in BOOLEAN

VARIABLES
    rows,      \* rows of the table
    model,     \* the embedding model of this child: "unprobed" before its
               \* first use, then "loaded" or "absent"; "unnoted" if it was
               \* loaded but an exception left _available None
    embedded,  \* rows that have their vector and their point id
    hashed,    \* rows whose vector is the hash fallback
    pc,        \* the step of run_indexing
    op,        \* the operation _with_retries is working on
    run,       \* which delivery of the task this is
    attempt,   \* failed attempts of the operation
    start,     \* rows before the next batch of this attempt
    written,   \* the count upsert_batch returns
    qdrant,    \* the points in the collection
    spool,     \* the points in the spool file of this document
    mode       \* store_mode

embedding == <<model, embedded, hashed>>
vars == <<rows, embedding, pc, op, run, attempt, start, written, qdrant, spool, mode>>

Models == {"unprobed", "loaded", "absent", "unnoted"}
Ops == {"create", "index", "upsert"}
Runs == 1..MaxRuns
Attempts == 0..MaxAttempts

\* A point is a row and where its id was drawn: in which delivery, and
\* before which attempt.  An upsert replaces the point with the same id.
Points == [row : 1..MaxRows, run : Runs, attempt : Attempts]

\* Mutant of PointsOf: the ids are drawn when a batch is built.
PointsOfAttempt(S) == {[row |-> r, run |-> run, attempt |-> attempt] : r \in S}

\* make_payload draws a random id for every row, before the first attempt.
PointsOf(S) == {[row |-> r, run |-> run, attempt |-> 0] : r \in S}

Init ==
    /\ rows \in 0..MaxRows
    /\ model \in Models /\ embedded = 0 /\ hashed = {}
    /\ pc = "embedding" /\ op = "create"
    /\ run = 1 /\ attempt = 0 /\ start = 0 /\ written = 0
    /\ qdrant = {} /\ spool = {}
    /\ mode = "qdrant"

\* _get_model is tried once in the life of a child: _available becomes True
\* or False.
Probe == model' \in (IF model = "unprobed" THEN {"loaded", "absent"} ELSE {model})

\* What _get_model returns can encode: _available is not False or, in the
\* call that probes, _model was set before an exception (at the end of the
\* session, in the log call, the soft limit) made it False.
ModelInHand == model' # "absent" \/ model = "unprobed"

EmbeddedNext == IF embedded + EmbedRows < rows THEN embedded + EmbedRows ELSE rows

\* Mutant of EmbedBatch: an encode that fails disables the model.
EmbedBatchDisables ==
    /\ pc = "embedding" /\ embedded < rows
    /\ embedded' = EmbeddedNext
    /\ \/ /\ Probe /\ ModelInHand
          /\ UNCHANGED hashed
       \/ /\ model' = "absent"
          /\ hashed' = hashed \cup (embedded + 1)..EmbeddedNext
    /\ UNCHANGED <<rows, pc, op, run, attempt, start, written, qdrant, spool, mode>>

\* embed_batch of one sub-batch: the model's vectors, or hashes if there is
\* no model or its encode fails; make_payload draws the point ids.
EmbedBatch ==
    /\ pc = "embedding" /\ embedded < rows
    /\ Probe
    /\ embedded' = EmbeddedNext
    /\ \/ ModelInHand /\ UNCHANGED hashed
       \/ hashed' = hashed \cup (embedded + 1)..EmbeddedNext
    /\ UNCHANGED <<rows, pc, op, run, attempt, start, written, qdrant, spool, mode>>

\* All rows are embedded; _get_client.
Connect ==
    /\ pc = "embedding" /\ embedded = rows
    /\ pc' = IF ClientInstalled THEN "calling" ELSE "spooling"
    /\ UNCHANGED <<rows, embedding, op, run, attempt, start, written, qdrant, spool, mode>>

Operation(o) ==
    /\ op' = o
    /\ attempt' = 0
    /\ pc' = "calling"

\* ensure_collections: the two idempotent operations before the upsert, and
\* upsert_batch, which has nothing to do for an empty table.
Prepared ==
    /\ pc = "calling" /\ op \in {"create", "index"}
    /\ IF op = "create" THEN Operation("index") ELSE Operation("upsert")
    /\ UNCHANGED <<rows, embedding, run, start, written, qdrant, spool, mode>>

NextBatch == (start + 1)..(IF start + BatchSize < rows THEN start + BatchSize ELSE rows)

\* client.upsert of one batch, waiting for its answer.
UpsertBatch ==
    /\ pc = "calling" /\ op = "upsert" /\ start < rows
    /\ qdrant' = qdrant \cup PointsOf(NextBatch)
    /\ written' = written + Cardinality(NextBatch)
    /\ start' = start + BatchSize
    /\ UNCHANGED <<rows, embedding, pc, op, run, attempt, spool, mode>>

UpsertDone ==
    /\ pc = "calling" /\ op = "upsert" /\ start >= rows
    /\ pc' = "done"
    /\ UNCHANGED <<rows, embedding, op, run, attempt, start, written, qdrant, spool, mode>>

\* Any exception of the operation, the soft time limit included: the call
\* never reached Qdrant, or its answer never came back.
CallFails ==
    /\ pc = "calling"
    /\ op = "upsert" => start < rows
    /\ \/ UNCHANGED qdrant
       \/ op = "upsert" /\ qdrant' = qdrant \cup PointsOf(NextBatch)
    /\ attempt' = attempt + 1
    /\ pc' = "sleeping"
    /\ UNCHANGED <<rows, embedding, op, run, start, written, spool, mode>>

\* Mutants of Wake: the next attempt goes on behind the batch that failed;
\* attempts are not counted; the last failure is taken for the end.
WakeBehind ==
    /\ pc = "sleeping"
    /\ IF attempt < MaxAttempts
         THEN /\ start' = start + BatchSize
              /\ pc' = "calling"
         ELSE pc' = "spooling" /\ UNCHANGED start
    /\ UNCHANGED <<rows, embedding, op, run, attempt, written, qdrant, spool, mode>>
WakeForEver ==
    /\ pc = "sleeping"
    /\ start' = 0
    /\ attempt' = 0
    /\ pc' = "calling"
    /\ UNCHANGED <<rows, embedding, op, run, written, qdrant, spool, mode>>
WakeOnceMore ==
    /\ pc = "sleeping"
    /\ IF attempt <= MaxAttempts
         THEN start' = 0 /\ pc' = "calling"
         ELSE pc' = "spooling" /\ UNCHANGED start
    /\ UNCHANGED <<rows, embedding, op, run, attempt, written, qdrant, spool, mode>>

\* After the back-off (the last attempt sleeps too) the operation starts
\* again from its first batch, or VectorStoreUnavailableError is raised.
Wake ==
    /\ pc = "sleeping"
    /\ IF attempt < MaxAttempts
         THEN start' = 0 /\ pc' = "calling"
         ELSE pc' = "spooling" /\ UNCHANGED start
    /\ UNCHANGED <<rows, embedding, op, run, attempt, written, qdrant, spool, mode>>

\* Mutant of Spool: only the rows that were not written are spooled.
SpoolRest ==
    /\ pc = "spooling"
    /\ spool' = PointsOf((start + 1)..rows)
    /\ mode' = "spooled"
    /\ pc' = "done"
    /\ UNCHANGED <<rows, embedding, op, run, attempt, start, written, qdrant>>

\* spool_offline: the payloads of all rows replace the file's content.
Spool ==
    /\ pc = "spooling"
    /\ spool' = PointsOf(1..rows)
    /\ mode' = "spooled"
    /\ pc' = "done"
    /\ UNCHANGED <<rows, embedding, op, run, attempt, start, written, qdrant>>

\* An exception outside the guarded operations fails the task: the soft time
\* limit (in the sleep, before, between or after them, or in the spool
\* write), a payload that does not validate, a spool write that fails.
Abort ==
    /\ pc \in {"embedding", "calling", "sleeping", "spooling"}
    /\ pc' = "failed"
    /\ spool' \in (IF pc = "spooling" THEN {spool, {}} ELSE {spool})
    /\ UNCHANGED <<rows, embedding, op, run, attempt, start, written, qdrant, mode>>

\* The container dies and the task is delivered again to a child that may
\* have worked before: its upload is still there, for cleanup comes after
\* run_indexing.  The points stay; a spool
\* file that was being written is as before, unreadable or complete.
Redeliver ==
    /\ pc \notin {"done", "failed"} /\ run < MaxRuns
    /\ run' = run + 1
    /\ pc' = "embedding" /\ op' = "create"
    /\ attempt' = 0 /\ start' = 0 /\ written' = 0
    /\ model' \in Models /\ embedded' = 0 /\ hashed' = {}
    /\ spool' \in (IF pc = "spooling" THEN {spool, {}, PointsOf(1..rows)} ELSE {spool})
    /\ UNCHANGED <<rows, qdrant, mode>>

TaskStep ==
    \/ EmbedBatch \/ Connect \/ Prepared \/ UpsertBatch \/ UpsertDone \/ CallFails
    \/ Wake \/ Spool \/ Abort

Next == TaskStep \/ Redeliver

Spec == Init /\ [][Next]_vars

\* The task body runs on; nobody promises that Qdrant ever answers.
FairSpec == Spec /\ WF_vars(TaskStep)

(***************************************************************************)
(* Properties                                                              *)
(***************************************************************************)

\* The type invariant.  written may exceed rows: it is not reset between
\* two attempts.
TypeOK ==
    /\ rows \in 0..MaxRows
    /\ model \in Models
    /\ embedded \in 0..rows /\ hashed \subseteq 1..rows
    /\ pc \in {"embedding", "calling", "sleeping", "spooling", "done", "failed"}
    /\ op \in Ops
    /\ run \in Runs
    /\ attempt \in Attempts
    /\ start \in Nat /\ written \in Nat
    /\ qdrant \subseteq Points /\ spool \subseteq Points
    /\ mode \in {"qdrant", "spooled"}

RowsIn(S) == {p.row : p \in S}

\* No row is lost: when run_indexing returns, every row of this delivery is
\* in the store its summary names, whatever failed on the way.
NothingLost ==
    pc = "done" =>
        PointsOf(1..rows) \subseteq (IF mode = "qdrant" THEN qdrant ELSE spool)

\* What reached Qdrant before the outage is in the spool under the same
\* ids: replaying the file into Qdrant repairs the partial upsert and adds
\* no second point for a row of this delivery.
ReplayIsIdempotent ==
    pc = "done" /\ mode = "spooled" => {p \in qdrant : p.run = run} \subseteq spool

\* A retry never adds a point to a row, only a new delivery does.
OnePointPerDelivery ==
    \A r \in 1..MaxRows : Cardinality({p \in qdrant : p.row = r}) <= run

\* embedding_backend is read when the summary is made, after the vectors.  If
\* it says "hash_fallback" because the probe failed, vectors of the model and
\* hashes are not mixed at random: all rows have hashes, or all rows but
\* those of the table's first sub-batch, the one whose call probed.
HashReportSparesProbe ==
    pc = "done" /\ model = "absent" =>
        hashed = 1..rows \/ hashed = (EmbedRows + 1)..rows

\* Indexing ends, even if Qdrant never answers.
IndexingEnds == <>(pc \in {"done", "failed"})
=============================================================================
