# A TLA+ model of the multi-modal ingestion service

The repository is a document, media, tabular and reasoning service: a FastAPI
process accepts uploads, four Celery worker containers process them, Redis
carries the messages and the task states, Qdrant stores vectors, and two cloud
providers or a local model answer questions. The modules in this directory
model the parts of it that have a protocol: who may do what in which order,
what survives a failure, and what a caller may rely on. TLC checks them on
small instances; TLAPS proves the most important invariants for all values of
the constants. `PROJECT.json` lists the runs, what each definition models (file
and lines), the hazards the properties are for, and the findings.

## 1. The system

| Part | State it keeps | Operations | What makes it hard |
|---|---|---|---|
| HTTP API (`app/main.py`) | the request in progress | four ingestion endpoints: check format, check disk, stream to disk, publish, answer | the worker runs between publish and answer; the broker may fail after the file is stored; the process may die |
| Storage (`app/storage.py`) | upload and result directories | `save_upload_stream`, `save_result`, `cleanup`, disk floor | results are truncated and written in place; two runs may share a name |
| Broker and worker settings (`app/celery_app.py`, `docker-compose.yml`) | Redis lists, unacknowledged messages, result backend | late acknowledgement, prefetch of one, retries, redelivery, time limits, child recycling | at-least-once delivery; killed children; a dead container |
| Tasks (`app/tasks*.py`) | none between runs | exists, try: work, finally: cleanup, `save_result` | the upload is deleted before the result is saved; `OSError` is retried |
| Media pipeline (`app/media/`) | threads of a pool | sample, downsample, OCR, decode, transcribe, each under `_with_timeout` | two timers with the same value, a pool that is joined on leaving it |
| Tabular pipeline (`app/tabular/`) | none | parse, normalise, embed, upsert or spool | retries around batches; partial failure |
| Vector store client (`app/vector_store.py`) | points in Qdrant, spool files | `ensure_collections`, `upsert_batch`, `spool_offline`, `_with_retries` | answers that are lost after the write |
| Embedding engine (`app/embeddings.py`) | the lazily loaded model of a child | `embed_batch` with a hash fallback | the fallback is per batch, the report per table |
| Context manager (`app/reasoning/context_manager.py`) | none | `prune_context` in two passes, byte guardrail | ties, a budget that the second pass ignores |
| Router and breaker (`app/reasoning/backends.py`) | one breaker per reasoning child | `route_query`, `before_call`, `record_success`, `record_failure` | one breaker for two providers; probes that end in no verdict |
| Prompt assembler, output compiler, orchestrator (`app/reasoning/`) | none | build the prompt, parse the answer | a second sort with another order of ties |
| Parsers and chunker (`app/parser/`), format detection (`app/magic.py`) | buffers of one parse | buffer lines, flush, `chunk_text`, `recursive_split`, number the payloads | nested calls that share a list, overlap, three ways to number |
| Device manager, resources, config | cached probes | device policy, clamping, capacity plan | each container plans with what it is told, not with what runs |

The parts interact through the file system (the API writes an upload that a
worker deletes), through Redis (message, acknowledgement, state) and by calls.
There is no shared memory between processes. Inside a process the API is one
event loop whose handlers do not await between the disk check and the answer;
a worker child runs one task at a time, and only the media pipeline starts
threads.

What makes each part correct, in a sentence: an accepted task is never lost,
ends, and reports SUCCESS only with its whole result on disk; an upload is
temporary; no row of a table is lost whatever Qdrant does; pruning accounts for
every item and overshoots only by what it reserves; a parser loses no letter, and
no full stop but where a chunk ends, mixes no pages and numbers its payloads in
order; the breaker keeps its cooldowns, and nothing but the breaker keeps a healthy backbone from answering; a media
task ends and does not hide what it left out. Section 4 names the properties.

## 2. The modules

| Module | Models | Composed with |
|---|---|---|
| `TaskKinds` | what differs between the four endpoints and tasks: queue, retry limit, whether the answer calls `stat()` | constants of the lifecycle |
| `TaskContract` | abstract: what a client that holds a task id is promised | refined by `UploadLifecycle` |
| `UploadLifecycle` | API, storage, broker, worker children and task skeleton together | implements `TaskContract` |
| `CircuitBreaker` | the breaker's three methods and its clock | extended by `ReasoningRouter` |
| `ReasoningRouter` | `route_query` and the backends in one child, query after query | |
| `ReasoningContext` | `run_reasoning` up to the router: pruning, guardrails, citation tags | |
| `Rounding` | Python's `round()` on a quotient, the token estimate | `ReasoningContext`, `Chunker`, `FrameSampling` |
| `Chunker` | `chunk_text` and `recursive_split`, one iteration at a time | operations for `DocumentChunks` |
| `DocumentChunks` | the three document parsers: lines, buffer, chunker, numbered payloads | |
| `VectorIndexing` | `run_indexing` after parsing: embedding, retries, batches, spool, redelivery | |
| `MediaPipeline` | `process_media`: stages, threads, stage limit, soft and hard time limits | |
| `FrameSampling` | which frames of a video are sampled and the time each stands for; operators | |
| `CapacityPlan` | clamping, the plan of the four queues, its validation, and what the containers enforce; operators | |
| `DevicePolicy` | the choice of the compute device; operators | |
| `MC*` | the instances TLC checks | |
| `*_proofs` | the theorems; `HostPolicies_proofs` has those about `CapacityPlan` and `DevicePolicy` | |

### UploadLifecycle

`request[u]` is the program counter of the handler of upload `u`; `files` is
the upload directory; `results` is the result directory, every file an array of
cells that name the upload whose run wrote them, so that a mixture of two runs
is visible. `queue` counts the copies of each message in the Redis lists,
`held` and `pc` are what a prefork child has been given and where it is in the
task body, `outcome` is the Celery state of the task. A message is an upload
and its retry counter.

Handlers: `RejectFormat`, `RejectDisk`, `OpenUpload`, `FinishUpload`,
`RejectSize`, `UploadFails`, `Publish`, `PublishFails`, `Reply`; `LoopFree`
expresses that the event loop never interleaves two handlers in that section.
Children: `Receive`, `CheckExists`, `ExistsFails`, `Work`, `Cleanup`,
`OpenResult`, `WriteResult`, `Succeed`, `SaveFails`, `SoftLimit`, `Ack`,
`StoreLost`. Environment: `ApiCrash`, `HardLimit`, `ChildLost`, `WorkerCrash`.
What can fail is enabled by a member of `Faults`.

A delivery ends by two writes to Redis, its state (or its retry) and its
acknowledgement, and a container may die between them. In which order the parent
of a killed child does them is Celery's, which is not part of the repository; the
model has it as the repository's settings (`celery_app.py:46-53`: late
acknowledgement, `reject_on_worker_lost` not set) select it. After a hard time
limit the failure is stored first (`HardLimit`, then `Ack`), after the loss of a
child the message is acknowledged first (`ChildLost`, then `StoreLost`). Two
histories record where this tears a promise apart:

* `unstored`: the container died after it acknowledged the loss of a child and
  before it stored the failure. The task stays PENDING for ever and has no
  message; `NoTaskForgotten` cannot hold of it.
* `halfEnded`: the child or the container died after the state, or the retry,
  was stored and before the acknowledgement, while the task could still run
  (`Live`: its upload is on disk, or another delivery is saving its result). A
  FAILED task may then be redelivered, find its upload and end in SUCCESS; or a
  retry that `ExistsFails` published and the redelivered first try run side by
  side and truncate each other's result. `OneRunner`, `SuccessIsDurable`,
  `OutcomeIsFinal` and the contract (`Tear`) except these tasks and no others:
  without the exception TLC refutes each of them. A redelivery that finds no
  upload, the usual case since `finally` deletes it, is not excepted.

Decisions worth knowing: a result counts as one disk slot, as an upload does;
the publication of a retry is assumed to succeed; the transport does not
duplicate a message by itself (a copy comes from a crash, from a retry or from
a publish whose answer was lost), so a redelivery by the visibility timeout while
the first child is alive does not occur; that timeout is an hour, above every
time limit of a task. The soft time limit is one of the exceptions of `Work` in
the `try` body; everywhere else in the task, the `finally` block before its
unlink included, it is `SoftLimit`. Inside Celery's own bookkeeping after the task
it is not modelled. Nor is the state RETRY, which is not final.

### ReasoningRouter and CircuitBreaker

One child, one breaker, an unlimited number of queries. `todo` is the rest of
the route. `up` is the environment: which backbones answer at the moment.
`steady` and `probing` are observers, set when a query begins; `missed` and
`quiet` count the failed calls since the last success and the time since the last
one, without looking at the breaker. The count of
failures and the age of the open state saturate where the code's comparisons
can no longer tell the difference. The text of the fallback summary is not
modelled, only that it is the answer.

### ReasoningContext

The bundle is chosen freely from the modalities, lengths and scores of the
instance. Pass 1 (`Rank`) takes the items in the order of the stable sort, pass
2 (`Reserve`) takes the missing modalities in any order, for the code iterates
over a set. `Unlist` removes the first entry of `dropped` with the same
modality and score, as `list.remove` on equal dictionaries does. `Rounded` is
Python's rounding to the even neighbour. A NaN score, which no source of items
produces, is outside the model.

### Chunker and DocumentChunks

A document is a row of letters, numbered. What stands between two of them is a
separator or nothing, and a letter has a position, so that lengths in characters
are differences; blanks that `split()` and `strip()` drop are not letters, and
neither is the full stop of the separator `". "`: `split()` takes it away and
`join()` puts it back within a chunk only, so it is in a chunk that goes on behind
it and in no chunk that ends there. Of several stops between two letters, a dot
leader, `join()` puts back one. A segment, the list `current` and a chunk are runs of letters, given by their
ends. This keeps what the properties need: which letters a chunk has, its order
and its count of tokens.

`Chunker` has the state of one call of `chunk_text`. `frames` is the stack of
the nested calls of `recursive_split`, `from` the first letter of `current`,
`low` tells the overlap loop from the others. Each loop iteration is an action:
`Begin` chooses the first separator that occurs; then a segment is collected,
or closes a chunk and the overlap is carried over piece by piece, or is too
large and opens a nested call.

`DocumentChunks` is the parser around it. `Buffer` collects lines, `MustFlush`
has the reasons to stop (a heading, a full buffer, another page, the end),
`Flush` calls the chunker, `Number` takes the chunks back, `Single` is a line
that is a payload of its own, and `Fails` is an exception, which returns
nothing. The three parsers differ in `MustFlush` and in `FirstId`.

### FrameSampling, CapacityPlan and DevicePolicy

These parts of the code compute a value once and have no steps; the modules are
operators, and the theorems quantify over all their arguments. In
`CapacityPlan` a deployment is what an operator sets in the environment, and
`SettingsIn` is what the process in a container then reads: `docker-compose.yml`
gives the concurrency as an argument of the command and passes the child limit
of every queue under the name of the ingestion limit.

### VectorIndexing

A point is a row together with where its id was drawn; an upsert with the same
id replaces. `CallFails` covers a request that never arrived and an answer that
never came back. `Redeliver` is the death of the container with late
acknowledgement: a second delivery in a child whose model may be in any state.
A probe may raise after `_model` was set (`embeddings.py:34-46`); then
`_available` says that there is no model while this one call encodes with it
(`ModelInHand`). An exception outside `_with_retries` fails the task between two
operations too (`Abort`).
The `written` counter is carried as the code has it, outside the retried
function; it is only logged and may exceed the number of rows.

### MediaPipeline

`pc` is the main thread: between stages, waiting for a result, or joining the
pool it is leaving. `thread` is the pool's only worker; `stranded` is a thread
whose pool the main thread has left because the soft time limit cut the join.
Time advances in ticks; `Overdue` says that a timer fires within its tick. A
stage may hang: nothing obliges `ThreadEnds` to happen.

## 3. Assumptions on time and scheduling

Fairness is stated only for what the process does by itself:

* lifecycle: a handler past its last await runs on (`WF` of the rest of the
  handler), a child executes its task body (`WF` of `ChildStep`), and a waiting
  message is taken by some child of its queue, since every task frees its
  child. No fault has fairness, nor has the arrival of a request.
* router: the task body runs on, queries keep coming, the clock advances. No
  provider is obliged to answer or to recover; `Recovers` has that as its
  premise.
* indexing: the task body runs on; Qdrant need never answer.
* parser: the task body runs on. Nothing obliges a read to fail.
* media: the main thread runs on, the clock advances up to the hard limit, and
  Celery enforces its two limits. No stage is obliged to end.

`CHECK_DEADLOCK FALSE` is set where the instance really stops: the uploads are
used up, the bundle is assembled or the task has ended. The router never stops
and is checked for deadlock.

## 4. The runs

Passing:

| Run | Instance | Properties |
|---|---|---|
| `LifecycleFaults` | one document, the two ingestion children (symmetric), every fault but a failing unlink, two container deaths, 1,648,000 states | `NoTaskForgotten`: a task that was answered 202 has a copy of its message until it has a final state, but for `unstored`. But for `halfEnded`: `OneRunner`: two deliveries of one task are never both past `exists()`. `SuccessIsDurable`: SUCCESS means the complete result is on disk and stays. `OutcomeIsFinal`. `ImplementsContract`: the refinement of `TaskContract` |
| `LifecycleFair` | a reasoning bundle and a media file, one child each, a disk for one file, failing result writes and a container death, 15,000 states | `EveryTaskEnds`, `UploadsAreTemporary`, `EndedTaskLeavesNoUpload`, `ImplementsFairContract`, with the other retry limits and the endpoint without `stat()` |
| `RouterBreaker` | three backbones, threshold 3, cooldown 2, all anomalies, 2,100 states | `TripsAtThreshold`, `NoCallInCooldown`, `FallbackOnlyBehindBreaker`, `EveryQueryEnds`, `Recovers` |
| `ContextPruning` | all bundles of three items over three modalities, two scores and three lengths, 92,000 states | `Accounted`, `SpentIsFootprint`, `PassedOverOnlyForSize`, `NoModalityErased`, `OvershootIsReserved`, `CitationsFollowRank` |
| `DocumentChunks` | text files of seven letters, DOCX of six (and of nine with a word above the target), PDF of four with any tags, page breaks and scanned pages; target of two tokens, overlap of one, 72,000 states | `OnlySeamStopsLost`, `StructureKept`, `InSourceOrder`, `NumberedInOrder`, `CountedWithinBudget`, `ParsingEnds` |
| `IndexingStore` | up to five rows, embedded and upserted in batches of two, three attempts, two deliveries, 70,000 states | `NothingLost`, `ReplayIsIdempotent`, `OnePointPerDelivery`, `HashReportSparesProbe`, `IndexingEnds` |
| `MediaStages` | image, audio and video of up to three frames, 2,600 states | `OneFrameCut`, `StageTimeoutFails`, `TaskEnds` |

Every run that passes also checks its module's type invariant, but for
`LifecycleFair`, which shares its module with `LifecycleFaults`. No run has the
fault `unlink`: the proofs assume its absence, for the reason given there. The
disk floor is reached in `LifecycleFair` only.

Runs that show a disagreement between the code and what it says of itself:

| Run | What happens |
|---|---|
| `StatRace` | a worker that is faster than the answer deletes the upload before `main.py:108` calls `stat()`: the client gets 500 for a task that runs |
| `SaveRetry` | the upload is deleted before `save_result` can fail, so the automatic retry on its `OSError` finds no file and can only fail |
| `TornResult` | two uploads of the same content write the same result file at once and leave a mixture of two documents |
| `RouterStarved` | both providers are down and open the breaker that they share; then one comes back, but every probe goes to the other, which is still dead and opens it again: the healthy one is never asked |
| `MediaLimit` | a stage that hangs is not abandoned when its limit fires: the child is killed at the hard limit, or the soft limit is swallowed together with a frame and the task succeeds |

### Why the bounds are enough

Two children are what is needed for every pair of deliveries that can collide: a
delivery and a redelivery of one task, a retry and its first try. That takes one
upload, in `LifecycleFaults`, and no other upload can touch its file or its
result. Two uploads, in the other runs, share a name, a disk slot, or the event
loop. A third one would only repeat a pair, for the tasks interact through at
most one file and one queue. Results of two writes are the shortest that can be
torn. All retry limits of the code occur in full. One container death brings back
an acknowledged-late message at every step of a child, and a second one strikes
the redelivery. A breaker threshold of three has a first, a middle and a
last failure, and a cooldown of two ticks lets a query come too early, in time
and late. Three items over three modalities include ties of score, a modality that
pass 1 erases and one it keeps. Up to five rows make an empty table, a full
batch and a partial one, and three batches, so that one fails between two others. Three
frames leave a frame before, at and after the one that is cut. Seven letters
make three windows and, with a target of two tokens of two characters each,
chunks that are closed by a full list, by an oversized segment and by the end;
nine letters with a five-letter word make the descent go two levels down, and a
target of twice the overlap lets the carried tail be a segment, a part of the
list or nothing. The proofs of
section 5 do not depend on any of these bounds.

### What the runs do not promise

* `UploadsAreTemporary` and `EndedTaskLeavesNoUpload` are checked with failing
  result writes and a container death. They do not hold when the broker refuses
  a message (the 503 leaves the file), when a child is killed or a soft time limit
  strikes outside the `try` body (the unlink is skipped), or when the API dies
  between store and publish. The documents say
  "Upload deleted in a `finally` block, even on failure" (`docs/HLD.md:302`);
  no sweeper exists.
* A task whose child was killed for its memory and whose container then dies may
  stay PENDING without a message, and one whose delivery ended by halves may fail
  first and succeed later or run twice at once (section 2). Both rest on Celery's
  order of the two writes, which the repository leaves at its defaults.
* `SuccessIsDurable` and the contract speak of tasks whose result name is their
  own; `TornResult` shows the others.
* A 2xx answer without the expected JSON ends the query as a failed task, not
  in the fallback summary, although `docs/PHASE4_DOCUMENTATION.md:101` calls
  the pipeline "never answerless". The model has this outcome
  (`CallMalformed`); no run states a property about it.
* `Retry-After` is only logged (`docs/PHASE4_DOCUMENTATION.md:100`): between
  `CallFails` and the next `CallCloud` the model has no wait either.
* `HashReportSparesProbe` is one direction, and spares the first sub-batch: if the
  probe raises after `_model` was set, that sub-batch has vectors of the model and
  the summary says `hash_fallback`. A summary that says `minilm` can belong to a
  table of which some batches are hashed.
* The chunker does lose text at the seams: the full stop of a chunk that was
  closed behind a sentence is gone, and of a dot leader one stop is left at most
  (`chunker.py:28`, `:52`, `:60`). `OnlySeamStopsLost` says that nothing else is.
  `docs/EXPLAINER.md:43` wants "the same content".
* The payload numbers of a text file ascend but have gaps from the second 1 MB
  window on, for `parse_txt` adds the number of payloads to a counter that is
  that number already (`docx_text_parser.py:42`). The documents speak of a
  sequential number (`docs/PHASE1_DOCUMENTATION.md:108`); `NumberedInOrder`
  demands a number without gaps of DOCX and PDF only.
* `CountedWithinBudget` is by the chunker's own count, the sum of the rounded
  segments, and allows for the overlap: a tail is carried over before a segment
  that may fill the target by itself. Of many short segments each may be rounded
  down, so the real length can exceed the target by more; no property bounds it. `tests/test_ingestion.py:54` has a
  tolerance for it.
* The capacity plan is logged and never enforced, and it is blind to what
  `docker-compose.yml` overrides: `VerifiedYetOvercommitted` is a deployment in
  which every worker logs "Queue capacity verified" and two containers can be
  overcommitted. `app/resources.py:144` says that the numbers reflect "what will
  actually run".
* `embeddings.py:57` honours explicit requests "when the device exists"; the
  request is compared with the one resolved device, so `mps` on a machine that
  also has `cuda` gives `cpu`. `SelectedDeviceIsSafe` holds all the same.
* "Exactly 1 picture per second" (`docs/EXPLAINER.md:71`) is true of whole frame
  rates; `NotExactlyOnePerWindow` has the others.
* With the backend `auto` and the local model enabled the prompt is pruned for
  the cloud budget and offered to the local model first, whose `n_ctx` is the
  local budget. A prompt that is too long makes it fail like any backbone, and
  the route goes on.
* An action line that does not begin and end with a brace is skipped, not
  reported as "unparsed" (`output_compiler.py:43` and `:52`).
* A UTF-8 table whose 4096th byte lies within a character is refused
  (`tabular/parsers.py:58`); in the model `RejectFormat` may refuse any upload.
* `StageTimeoutFails` is qualified: the stage limit equals the soft time limit,
  so it fires first only within the same tick, and a soft limit that then cuts
  the join can turn the timeout into a skipped frame.

## 5. The proofs

All theorems hold for every number of uploads, children, retries, rows, frames
and items and every value of the limits, from the named assumptions on the
constants in each module.

| Module | Theorems |
|---|---|
| `UploadLifecycle_proofs` | under every fault: `TypeCorrect`, `NoTaskForgottenHolds`, `NoTaskBehindStatlessHolds`; if unlink does not fail: `OneRunnerHolds`, `SuccessIsDurableHolds`, `OutcomeIsFinalHolds`, `ImplementsContractHolds`, `OwnResultNotTornHolds`; if moreover `exists()` does not fail: `RetriesAreFutileHolds`; and if moreover no time limit and no memory killer strikes: `EndedTaskLeavesNoUploadHolds`; if no run is interrupted: `OwnResultWholeHolds` |
| `ReasoningRouter_proofs` | `RouterTypeCorrect`, `TripsAtThresholdHolds`, `NoCallInCooldownHolds`, `FallbackOnlyBehindBreakerHolds`; with one provider's key: `OneProviderReached`; `QueryRunsOut` |
| `ReasoningContext_proofs` | `ContextTypeCorrect`, `AccountedHolds`, `SpentIsFootprintHolds`, `PassedOverOnlyForSizeHolds`, `NoModalityErasedHolds`, `OvershootIsReservedHolds`, `CitationsFollowRankHolds` |
| `DocumentChunks_proofs` | `ChunksTypeCorrect`, `OnlySeamStopsLostHolds`, `StructureKeptHolds`, `CountedWithinBudgetHolds`, `InSourceOrderHolds`, `NumberedInOrderHolds`, `FiveCallsDeep`, `ParsingRunsOut` |
| `VectorIndexing_proofs` | `IndexingTypeCorrect`, `NothingLostHolds`, `ReplayIsIdempotentHolds`, `OnePointPerDeliveryHolds`, `HashReportSparesProbeHolds`, `IndexingRunsOut` |
| `MediaPipeline_proofs` | `MediaTypeCorrect`, `OneFrameCutHolds`, `StageTimeoutFailsHolds`, `LateSuccessLosesAFrame`, `MediaRunsOut` |
| `FrameSampling_proofs` | `AnchorsAlmostMeet`, `WholeRatesAreExact`, `NoStretchUnsampled`, `NotExactlyOnePerWindow` |
| `HostPolicies_proofs` | `ClampIsBounded`, `FitsOnEveryHost`, `VerifiedOnSmallerHosts`, `NotOvercommittedWithinDefaults`, `DefaultsHold`, `VerifiedYetOvercommitted`, `SelectedDeviceIsSafe` |

Every invariant and action property of a passing run is a theorem, and so is the
safety half of four of its liveness properties (see "Why it ends").

**Lifecycle.** None of the properties is inductive. `NoTaskForgotten` needs no
more than that a task without a final state is never left to an acknowledgement
alone (`NoGap`): a handler publishes before it counts as published, a child
turns to the acknowledgement with a final state or a retry in the list, and a
dead container's messages are back in the list, but for those it had acknowledged
as lost (`GapStep`, one lemma for each of these). What carries the others is the
existence of the upload file. `IInv` says that as long as a task can still be
processed (`Live`: its file is there, or its result is being saved), and no
delivery of it ended by halves, at most one copy of its message is in the list or
at a child that has not ended its delivery, and while there is one there is no
final state (`Alone`); that the file is there until the cleanup and gone
afterwards (`FileOK`); and that a
result file nobody shares is blank, a prefix or whole according to where its
writer is (`ContentOK`). A second delivery can only come from a death or a
retry, hence after the first one is out of the way, and finds either an
untouched file or none; `HalfEnds` collects exactly the deaths for which this
argument fails. `NoUnlink` is assumed because a file that cannot be deleted lets a
redelivered task run again after it ended, and the invariants are false then
(`SuccessIsDurable` and `OutcomeIsFinal` with them). The refinement maps `status`
to what a client can see and `saved` to the results that are whole; every action
changes the view of one task at most, but for a dying container, which may tear
several. Every step that ends a task follows the loss of its file, except a time
limit, the death of a child and a retry of `exists()` (`NoKill`), which is what
`EndedTaskLeavesNoUpload` rests on.

**What is left of the refuted promises.** Each run that refutes a promise has a
theorem that says how far the failure reaches. `StatRace` comes from `stat()`
alone: the endpoint without it never answers 500 for a task that exists
(`NoTaskBehindStatlessHolds`: no other step can bring a task into being). `SaveRetry` is not one unlucky
case: as long as `exists()` does not raise, no retry ever finds its upload
(`RetriesAreFutileHolds`, since only a task past its cleanup is retried). The
retry that a raising `exists()` publishes is the one exception. `TornResult` needs two uploads of one name or an
interruption: a result of its own is never mixed unless a delivery ended by halves
(`OwnResultNotTornHolds`), and
complete or empty if nothing interrupts its writer (`OwnResultWholeHolds`).
`RouterStarved` needs two providers (`OneProviderReached`: with one, nobody else
can open the circuit that let the query pass). `MediaLimit` costs a successful
task exactly one frame (`LateSuccessLosesAFrame`).

**Router.** `RInv` adds to the types that the call in progress is to a provider
whose circuit is not open, that the breaker is closed exactly below the
threshold, that the observers of `NoCallInCooldown` agree with the breaker's own
count and, from the threshold on, with its clock (`CoolOK`), and that every healthy backbone is still ahead on the route unless
the circuit is open.

**Context.** The items still to be ranked, the kept and the dropped ones
partition the bundle; what was dropped does not fit any more, since the tokens
only grow (`NoRoom`); in pass 2 a modality is missing exactly if no kept item
has it (`MissingOK`). `Unlist` removes the entry of the item that is reserved,
whatever the ties: among equals the first dropped is the first of its modality.
A reserved item stays alone in its modality (`AloneInModality`), so the second
sort, which breaks ties in another way, orders the blocks of each modality as
the first did; what comes before a block is a strict part of what comes before
every worse one, and the tags are the sizes of these sets. The module sums with
the library's `MapThenSumSet`; `FoldIsTotal` shows that it is `Total`, a
recursive function on the subsets of a set, whose value does not depend on the
order of the additions (`TotalRemove`) and grows by the tokens of an added item
(`TotalAdd`). The inductions over finite sets behind these are put as smallest
counterexamples (`MinimalSubset`, from `WFMin`). With `AloneInModality` the sums
give `OvershootIsReserved`.

**Chunker.** `DcInv` describes the stack of nested calls: each stands before the
end of its parent's segment, `current` ends where the innermost call goes on, and its tokens are at most the overlap while a tail
is being carried over and at most target and overlap otherwise. The chunks and payloads
cover the letters that were passed, without a hole, so a full stop that is in none
of them has one that ends before it and one that begins behind it; their ends ascend, since
between two chunks at least one letter was collected; and a chunk lies within
the lines of the buffer, which share page and tag. Adding a segment to a tail
is the only way above the target. What a payload repeats
in full is what the overlap loop counted down to its first letter. `SumsOK`
keeps a function of partial sums as a witness that the tokens of `current` and
of the closed chunk are made of the same segments, however many there are, so a
chunk that is repeated from its first letter counts no more than the overlap
(`RepeatsAreOverlap`, the second half of `InSourceOrder`).

**Indexing.** The rows up to `start` are in Qdrant under the ids of this
delivery while the upsert runs (`Progress`), every point of a delivery has the
one id its row was given (`Drawn`), and a child whose model is absent has had one
at most in the call that probed it (`AllHashed`). Ids that are drawn once per delivery make a repeated upsert
replace, so the delivery that wrote a point is an injection of the points of a
row into the deliveries.

**Media.** Every frame's preprocessing is followed by its OCR in the sequence
of stages (`PairedIn`), so that skipping both never runs past its end; a stage
that timed out is being joined or has failed the task (`TimedOut`). A frame is
accounted for by its payload, by being undecodable or by the stages it still
has; only the soft limit, which fires once, takes the last one away (`CutInv`).

**Host policies.** A clamped limit is never above the configured one, and grows
with the host; the plan is therefore verified everywhere if the configured
limits fit, and the compose file's defaults do. The rest is arithmetic over the
seven containers.

**Frame sampling.** Rounding is at most half a divisor off, and an interval of
at least one only changes the result where the rate is at most half a frame per
window.

**Why it ends.** `EveryQueryEnds`, `ParsingEnds`, `IndexingEnds` and `TaskEnds`
say two things: no execution takes steps for ever, and none stops before its end.
The first is a safety property and is proved without any fairness. Each step
lowers a tuple of natural numbers in the lexicographic order, which is
well-founded (`WFLexProductOrdering`), so `[][Falling]_vars` leaves only finitely
many steps. (For the router, which serves queries for ever, it is the steps of
one query that are bounded, by a single number: `[][RouteRunsDown]_vars`.)

| Theorem | What falls |
|---|---|
| `QueryRunsOut` | the steps left on the route of a query, at most seven; no step of the breaker or of another query raises them |
| `ParsingRunsOut` | lines to come; stage of the buffer; letters to segment; separators left, or the callers that wait; letters before the tail |
| `IndexingRunsOut` | deliveries; operations; attempts; rows of the operation |
| `MediaRunsOut` | ticks to the hard limit; stages to come; phases of the stage; threads that run, left-behind ones included; ticks to the limit of the stage |

The separators are what could go wrong in the chunker: a segment holds no gap of
its call's own separator and none that is stronger (`RanksOK`), so a descent
always finds a weaker one, and the recursion is at most five calls deep
(`FiveCallsDeep`). The loop that looks for the tail of a closed chunk moves its
first letter back at every turn. The second thing, that the steps still owed are taken, is fairness and
stays with TLC.

Only model-checked: `EveryTaskEnds`, `UploadsAreTemporary`,
`ImplementsFairContract`, `Recovers`, and of `EveryQueryEnds`, `ParsingEnds`,
`IndexingEnds` and `TaskEnds` what fairness adds, for fairness and ENABLED are
beyond the prover.
The induction theorems of the library, whose parameter is an operator, are
beyond it as well; where an argument is by induction over data it is put as a
smallest counterexample.

## 6. Not modelled

* The output compiler is a fold over the lines of one answer without state, and
  its result is text; what it does line by line is covered by unit tests.
* Tabular parsing and telemetry are data-frame transformations over floating
  point columns; the models begin with the number of rows they produce.
* The extraction of images from PDF pages: the task discards what it returns.
* The libraries below the parsers, OCR and ASR, and the signatures of
  `app/magic.py`, which are a table.
* Logging, schemas and scripts: formatting, field types and demonstration
  drivers. `GET /health` and the start-up checks change no state.
* Redis, Qdrant and the providers are modelled by how the code uses them and
  are marked external in `PROJECT.json`.

## 7. Plan

Done, in this order: the lifecycle with its contract, the router and its
breaker, the context manager, the vector indexing, the media pipeline; then the
chunker with the three parsers, the capacity plan and the device policy, the
frame sampling, and the proofs about them.

What a further extension would take up, by value:

1. The media pipeline inside the lifecycle: `HardLimit` would come from the stage
   that hangs, with an abstract specification of one task run between the two.
2. One prompt, two budgets: the context manager and the router together, for the
   backend `auto` with a local model.
3. An abstract specification of indexing (a table is in one of two stores) that
   `VectorIndexing` implements.
4. A measure for the whole lifecycle, as for the other components: a sum over the
   tasks, which the deliveries, retries and crashes left keep finite.
