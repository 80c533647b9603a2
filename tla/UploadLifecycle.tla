-------------------------- MODULE UploadLifecycle --------------------------
(***************************************************************************)
(* The life of an upload: the four ingestion endpoints of app/main.py, the *)
(* upload and result directories of app/storage.py, the Redis broker with  *)
(* the settings of app/celery_app.py, and the four Celery tasks of         *)
(* app/tasks*.py.  The tasks share one skeleton (exists - work - cleanup   *)
(* in finally - save_result); what differs between them is a constant of   *)
(* the upload: its queue, its retry limit, its result file and whether its *)
(* endpoint calls stat() before it answers.                                *)
(***************************************************************************)
EXTENDS Integers, FiniteSets

CONSTANTS
    Uploads,      \* the HTTP uploads; each is stored under its own uuid path
    Children,     \* the prefork children of the four worker containers
    Queues,       \* task queues: one per kind of task
    QueueOf,      \* upload -> the queue its endpoint publishes to
    Serves,       \* child -> the queue its container consumes
    MaxTry,       \* the largest max_retries of any task
    MaxRetries,   \* queue -> max_retries of the task on that queue
    CleansTwice,  \* the queues whose task also cleans up where it catches
    Unstated,     \* the queues whose endpoint answers without a stat()
    ResultKeys,   \* names of files in the result directory
    KeyOf,        \* upload -> the file save_result writes for it
    MaxSize,      \* the longest result, in write() calls
    Size,         \* upload -> how many write() calls its result takes
    DiskSlots,    \* files that fit above the min_free_disk_mb floor
    MaxCrashes,   \* bound: container deaths in one behaviour
    Faults,       \* the kinds of fault the environment may inject
    None          \* no upload, no byte, no message

\* "unlink", "stat" and "oserror": that system call fails, the last one in
\* a write.  "broker": publishing fails.  "apicrash", "crash": the process of
\* the API, or a whole worker container, dies.  "timeout", "hardlimit": the
\* two time limits of a task.  "oom": a child is killed from outside.
FaultKinds == {"unlink", "stat", "oserror", "broker", "apicrash", "crash",
               "timeout", "hardlimit", "oom"}

ASSUME SetsAssumption ==
    /\ IsFiniteSet(Uploads) /\ IsFiniteSet(Children) /\ IsFiniteSet(ResultKeys)
    /\ None \notin Uploads
ASSUME ShapeAssumption ==
    /\ QueueOf \in [Uploads -> Queues]
    /\ Serves \in [Children -> Queues]
    /\ MaxTry \in Nat
    /\ MaxRetries \in [Queues -> 0..MaxTry]
    /\ CleansTwice \subseteq Queues /\ Unstated \subseteq Queues
    /\ KeyOf \in [Uploads -> ResultKeys]
    /\ MaxSize \in Nat
    /\ Size \in [Uploads -> 1..MaxSize]
ASSUME BoundsAssumption ==
    /\ DiskSlots \in Nat
    /\ MaxCrashes \in Nat
    /\ Faults \subseteq FaultKinds

VARIABLES
    request,   \* upload -> how far its HTTP request is, or the answer it got
    files,     \* the uploads whose file is in upload_dir
    results,   \* result key -> content of that file, cell by cell
    queue,     \* message -> copies of it waiting in its Redis list
    pc,        \* child -> the step of the task body it executes
    held,      \* child -> the message delivered to it and not acknowledged
    pos,       \* child -> offset of its next write() to the result file
    outcome,   \* upload -> the last final state its task had in the backend
    crashes,   \* container deaths so far
    halfEnded, \* history: see HalfEnds
    unstored   \* history: uploads whose task was acknowledged as lost by a
               \* container that died before it stored the failure

vars == <<request, files, results, queue, pc, held, pos, outcome, crashes,
          halfEnded, unstored>>
childVars == <<pc, held, pos>>
faultVars == <<crashes, halfEnded, unstored>>

\* A message is a task id (one per upload) and its retry counter.
Messages == [up : Uploads, try : 0..MaxTry]

\* A result file: for every cell the upload whose run wrote it, None where
\* nobody wrote since the last truncation (the end of the file, or a hole).
Offsets == 1..MaxSize
Blank == [i \in Offsets |-> None]
Whole(u) == [i \in Offsets |-> IF i <= Size[u] THEN u ELSE None]

InHandler == {"storing", "stored", "published"}
Answers == {"202", "413", "415", "500", "503", "507", "dropped"}
Failures == {"ParsingFailure", "NotFound", "OSError", "TimeLimit", "WorkerLost"}
Final == Failures \cup {"SUCCESS"}
\* Steps of the task body: before and after the exists() check, and after
\* the task has its state in the backend.
Running == {"working", "cleanOk", "cleanFail", "saving", "writing"}
Active == Running \cup {"received"}
\* The child has finished, was killed by its parent, or is dead: what is left
\* is the parent's to do.
Ending == {"acking", "killed", "lost"}
Steps == Active \cup Ending \cup {"idle"}

Init ==
    /\ request = [u \in Uploads |-> "new"]
    /\ files = {}
    /\ results = [k \in ResultKeys |-> Blank]
    /\ queue = [m \in Messages |-> 0]
    /\ pc = [c \in Children |-> "idle"]
    /\ held = [c \in Children |-> None]
    /\ pos = [c \in Children |-> 1]
    /\ outcome = [u \in Uploads |-> "PENDING"]
    /\ crashes = 0
    /\ halfEnded = {}
    /\ unstored = {}

(***************************************************************************)
(* The API process.  The handlers are coroutines of one event loop, but    *)
(* from the disk check to the answer they never await: at most one request *)
(* is in that section, while the workers run on.                           *)
(***************************************************************************)
LoopFree == \A u \in Uploads : request[u] \notin InHandler

Answer(u, a) == request' = [request EXCEPT ![u] = a]

Enqueue(m) == queue' = [queue EXCEPT ![m] = @ + 1]

\* Empty file or wrong magic bytes: refused before anything is stored.
RejectFormat(u) ==
    /\ request[u] = "new" /\ LoopFree
    /\ Answer(u, "415")
    /\ UNCHANGED <<files, results, queue, childVars, outcome, faultVars>>

DiskUsed == Cardinality(files) + Cardinality({k \in ResultKeys : results[k] # Blank})

\* available_disk_headroom_bytes is below the floor.
RejectDisk(u) ==
    /\ request[u] = "new" /\ LoopFree
    /\ DiskUsed >= DiskSlots
    /\ Answer(u, "507")
    /\ UNCHANGED <<files, results, queue, childVars, outcome, faultVars>>

\* dest.open("wb") after the floor check.
OpenUpload(u) ==
    /\ request[u] = "new" /\ LoopFree
    /\ DiskUsed < DiskSlots
    /\ files' = files \cup {u}
    /\ Answer(u, "storing")
    /\ UNCHANGED <<results, queue, childVars, outcome, faultVars>>

FinishUpload(u) ==
    /\ request[u] = "storing"
    /\ Answer(u, "stored")
    /\ UNCHANGED <<files, results, queue, childVars, outcome, faultVars>>

\* Mutant of RejectSize: the partial file is not unlinked.
RejectSizeKeepsFile(u) ==
    /\ request[u] = "storing"
    /\ Answer(u, "413")
    /\ UNCHANGED <<files, results, queue, childVars, outcome, faultVars>>

\* The size ceiling: unlink the partial file and answer 413.
RejectSize(u) ==
    /\ request[u] = "storing"
    /\ files' = files \ {u}
    /\ Answer(u, "413")
    /\ UNCHANGED <<results, queue, childVars, outcome, faultVars>>

\* A write fails: unlink and answer 500.  An unlink that fails too (here or
\* in RejectSize) raises OSError, the same answer, and the file stays.
UploadFails(u) ==
    /\ request[u] = "storing"
    /\ \/ "oserror" \in Faults /\ files' = files \ {u}
       \/ "unlink" \in Faults /\ UNCHANGED files
    /\ Answer(u, "500")
    /\ UNCHANGED <<results, queue, childVars, outcome, faultVars>>

FirstTry(u) == [up |-> u, try |-> 0]

Publish(u) ==
    /\ request[u] = "stored"
    /\ Enqueue(FirstTry(u))
    /\ Answer(u, "published")
    /\ UNCHANGED <<files, results, childVars, outcome, faultVars>>

\* .delay raises: the broker was unreachable, or the connection broke after
\* it took the message.  The handler answers 503 and leaves the file.
PublishFails(u) ==
    /\ request[u] = "stored"
    /\ "broker" \in Faults
    /\ Enqueue(FirstTry(u)) \/ UNCHANGED queue
    /\ Answer(u, "503")
    /\ UNCHANGED <<files, results, childVars, outcome, faultVars>>

\* The answer is built from stored_path.stat(), after the message is out.
Reply(u) ==
    /\ request[u] = "published"
    /\ \/ (QueueOf[u] \in Unstated \/ u \in files) /\ Answer(u, "202")
       \/ QueueOf[u] \notin Unstated /\ (u \notin files \/ "stat" \in Faults)
          /\ Answer(u, "500")
    /\ UNCHANGED <<files, results, queue, childVars, outcome, faultVars>>

\* The API process dies and restarts; the requests in progress are lost.
ApiCrash ==
    /\ "apicrash" \in Faults
    /\ ~LoopFree
    /\ request' = [u \in Uploads |->
                     IF request[u] \in InHandler THEN "dropped" ELSE request[u]]
    /\ UNCHANGED <<files, results, queue, childVars, outcome, faultVars>>

(***************************************************************************)
(* A worker child.  The message is acknowledged late, after the task has   *)
(* its state in the result backend.                                        *)
(***************************************************************************)
Goto(c, step) == pc' = [pc EXCEPT ![c] = step]

\* Mutant of Record: the last writer of the state wins.
RecordAnyway(u, state) == outcome' = [outcome EXCEPT ![u] = state]

\* The backend keeps a stored SUCCESS against any later state.  The state
\* RETRY, which is not final, is left out: a client that meets it waits on.
Record(u, state) ==
    outcome' = IF outcome[u] = "SUCCESS" THEN outcome
                                         ELSE [outcome EXCEPT ![u] = state]

Release(c) ==
    /\ Goto(c, "idle")
    /\ held' = [held EXCEPT ![c] = None]
    /\ pos' = [pos EXCEPT ![c] = 1]

\* Mutant of Receive: the message stays visible while the child has it.
ReceiveVisible(c, m) ==
    /\ pc[c] = "idle"
    /\ queue[m] > 0 /\ QueueOf[m.up] = Serves[c]
    /\ held' = [held EXCEPT ![c] = m]
    /\ Goto(c, "received")
    /\ UNCHANGED <<request, files, results, queue, pos, outcome, faultVars>>

Receive(c, m) ==
    /\ pc[c] = "idle"
    /\ queue[m] > 0 /\ QueueOf[m.up] = Serves[c]
    /\ queue' = [queue EXCEPT ![m] = @ - 1]
    /\ held' = [held EXCEPT ![c] = m]
    /\ Goto(c, "received")
    /\ UNCHANGED <<request, files, results, pos, outcome, faultVars>>

\* Mutant of CheckExists: the task starts without looking for its file.
CheckNothing(c) ==
    /\ pc[c] = "received"
    /\ Goto(c, "working")
    /\ UNCHANGED <<request, files, results, queue, held, pos, outcome, faultVars>>

\* The first statement of every task: without its file the task fails.
CheckExists(c) ==
    /\ pc[c] = "received"
    /\ IF held[c].up \in files
         THEN Goto(c, "working") /\ UNCHANGED outcome
         ELSE Goto(c, "acking") /\ Record(held[c].up, "NotFound")
    /\ UNCHANGED <<request, files, results, queue, held, pos, faultVars>>

\* autoretry_for=(OSError,), for what is raised outside the try block: the
\* next try is published, or the last one fails for good.
RetryOrFail(m) ==
    IF m.try < MaxRetries[QueueOf[m.up]]
      THEN Enqueue([m EXCEPT !.try = @ + 1]) /\ UNCHANGED outcome
      ELSE Record(m.up, "OSError") /\ UNCHANGED queue

\* exists() itself raises, on any OSError but those that mean absence.
ExistsFails(c) ==
    /\ pc[c] = "received"
    /\ "stat" \in Faults
    /\ RetryOrFail(held[c])
    /\ Goto(c, "acking")
    /\ UNCHANGED <<request, files, results, held, pos, faultVars>>

\* The body of the try block; any exception, the soft time limit included,
\* is caught and becomes a ParsingFailure (or its sibling in the other tasks).
Work(c) ==
    /\ pc[c] = "working"
    /\ Goto(c, "cleanOk") \/ Goto(c, "cleanFail")
    /\ UNCHANGED <<request, files, results, queue, held, pos, outcome, faultVars>>

\* Mutant of Cleanup: the cleanup comes after the try block, not in finally.
CleanupOnSuccessOnly(c) ==
    /\ pc[c] \in {"cleanOk", "cleanFail"}
    /\ files' = IF pc[c] = "cleanOk" THEN files \ {held[c].up} ELSE files
    /\ IF pc[c] = "cleanOk"
         THEN Goto(c, "saving") /\ UNCHANGED outcome
         ELSE Goto(c, "acking") /\ Record(held[c].up, "ParsingFailure")
    /\ UNCHANGED <<request, results, queue, held, pos, faultVars>>

\* The finally block: cleanup logs and swallows an unlink that fails.
Cleanup(c) ==
    /\ pc[c] \in {"cleanOk", "cleanFail"}
    /\ \/ files' = files \ {held[c].up}
       \/ "unlink" \in Faults /\ UNCHANGED files
    /\ IF pc[c] = "cleanOk"
         THEN Goto(c, "saving") /\ UNCHANGED outcome
         ELSE Goto(c, "acking") /\ Record(held[c].up, "ParsingFailure")
    /\ UNCHANGED <<request, results, queue, held, pos, faultVars>>

\* save_result: write_text opens the file with truncation ...
OpenResult(c) ==
    /\ pc[c] = "saving"
    /\ results' = [results EXCEPT ![KeyOf[held[c].up]] = Blank]
    /\ Goto(c, "writing")
    /\ UNCHANGED <<request, files, queue, held, pos, outcome, faultVars>>

\* Mutant of WriteResult: one write too many.
WriteBeyondEnd(c) ==
    /\ pc[c] = "writing"
    /\ pos[c] <= Size[held[c].up] + 1
    /\ results' = [results EXCEPT ![KeyOf[held[c].up]] =
                     [i \in Offsets |-> IF i = pos[c] THEN held[c].up ELSE @[i]]]
    /\ pos' = [pos EXCEPT ![c] = @ + 1]
    /\ UNCHANGED <<request, files, queue, pc, held, outcome, faultVars>>

\* ... and writes it piece by piece at its own offset ...
WriteResult(c) ==
    /\ pc[c] = "writing"
    /\ pos[c] <= Size[held[c].up]
    /\ results' = [results EXCEPT ![KeyOf[held[c].up]][pos[c]] = held[c].up]
    /\ pos' = [pos EXCEPT ![c] = @ + 1]
    /\ UNCHANGED <<request, files, queue, pc, held, outcome, faultVars>>

\* Mutant of Succeed: the state is stored before the file is complete.
SucceedEarly(c) ==
    /\ pc[c] = "writing"
    /\ Record(held[c].up, "SUCCESS")
    /\ Goto(c, "acking")
    /\ UNCHANGED <<request, files, results, queue, held, pos, faultVars>>

\* ... after which the task returns and its state is stored.
Succeed(c) ==
    /\ pc[c] = "writing"
    /\ pos[c] > Size[held[c].up]
    /\ Record(held[c].up, "SUCCESS")
    /\ Goto(c, "acking")
    /\ UNCHANGED <<request, files, results, queue, held, pos, faultVars>>

\* Mutant of SaveFails: the error is logged and the task neither retried nor failed.
SaveFailsSilently(c) ==
    /\ pc[c] \in {"saving", "writing"}
    /\ "oserror" \in Faults
    /\ Goto(c, "acking")
    /\ UNCHANGED <<request, files, results, queue, held, pos, outcome, faultVars>>

\* save_result raises OSError, outside the try block.
SaveFails(c) ==
    /\ pc[c] \in {"saving", "writing"}
    /\ "oserror" \in Faults
    /\ RetryOrFail(held[c])
    /\ Goto(c, "acking")
    /\ UNCHANGED <<request, files, results, held, pos, faultVars>>

\* The soft time limit where nothing catches it: before the try block, in
\* its finally clause before the unlink, and in save_result.  The file is
\* left as it is; a task that cleans up twice has deleted it by then.
SoftLimit(c) ==
    /\ pc[c] \in Active \ {"working"}
    /\ "timeout" \in Faults
    /\ \/ pc[c] # "cleanFail" \/ "unlink" \in Faults
       \/ QueueOf[held[c].up] \notin CleansTwice
    /\ Record(held[c].up, "TimeLimit")
    /\ Goto(c, "acking")
    /\ UNCHANGED <<request, files, results, queue, held, pos, faultVars>>

Ack(c) ==
    /\ pc[c] \in {"acking", "killed"}
    /\ Release(c)
    /\ UNCHANGED <<request, files, results, queue, outcome, faultVars>>

Holds(c, u) == pc[c] # "idle" /\ held[c].up = u
Waiting(u) == \E m \in Messages : m.up = u /\ queue[m] > 0

\* u can still be processed: its file is there, or its result is being saved.
Live(u) == u \in files \/ \E c \in Children : Holds(c, u) /\ pc[c] \in {"saving", "writing"}

\* A delivery ends in two steps, its state (or its retry) and its
\* acknowledgement, and the children in C die between them.  The tasks this
\* leaves with a state and a copy that can still run are in halfEnded.
HalfEnds(C) ==
    halfEnded' = halfEnded \cup
        {u \in Uploads : Live(u) /\ \E c \in C : Holds(c, u) /\ pc[c] \in {"acking", "killed"}}

\* The hard time limit: the parent kills the child, stores the failure, and
\* acknowledges after that.  A child that had ended its task may be hit too.
HardLimit(c) ==
    /\ pc[c] \in Active \cup {"acking"}
    /\ "hardlimit" \in Faults
    /\ Record(held[c].up, "TimeLimit")
    /\ HalfEnds({c})
    /\ Goto(c, "killed")
    /\ UNCHANGED <<request, files, results, queue, held, pos, crashes, unstored>>

\* The child is killed from outside (out of memory).  Its parent acknowledges
\* first, because reject_on_worker_lost is not set ...
ChildLost(c) ==
    /\ pc[c] \in Active \cup {"acking"}
    /\ "oom" \in Faults
    /\ HalfEnds({c})
    /\ Goto(c, "lost")
    /\ UNCHANGED <<request, files, results, queue, held, pos, outcome, crashes, unstored>>

\* ... and stores the failure after that.
StoreLost(c) ==
    /\ pc[c] = "lost"
    /\ Record(held[c].up, "WorkerLost")
    /\ Release(c)
    /\ UNCHANGED <<request, files, results, queue, faultVars>>

\* The children of queue q whose message m is delivered and unacknowledged.
Holders(q, m) == {c \in Children : Serves[c] = q /\ pc[c] \notin {"idle", "lost"} /\ held[c] = m}

\* Mutant of WorkerCrash: messages were acknowledged on delivery (no acks_late).
WorkerCrashEarlyAck(q) ==
    /\ "crash" \in Faults
    /\ crashes < MaxCrashes
    /\ \E c \in Children : Serves[c] = q /\ pc[c] # "idle"
    /\ crashes' = crashes + 1
    /\ pc' = [c \in Children |-> IF Serves[c] = q THEN "idle" ELSE pc[c]]
    /\ held' = [c \in Children |-> IF Serves[c] = q THEN None ELSE held[c]]
    /\ pos' = [c \in Children |-> IF Serves[c] = q THEN 1 ELSE pos[c]]
    /\ UNCHANGED <<request, files, results, queue, outcome, halfEnded, unstored>>

\* A whole worker container dies and is started again.  Redis returns its
\* unacknowledged messages to the list after the visibility timeout.
WorkerCrash(q) ==
    /\ "crash" \in Faults
    /\ crashes < MaxCrashes
    /\ \E c \in Children : Serves[c] = q /\ pc[c] # "idle"
    /\ crashes' = crashes + 1
    /\ HalfEnds({c \in Children : Serves[c] = q})
    /\ unstored' = unstored \cup
         {u \in Uploads : /\ outcome[u] = "PENDING"
                          /\ \E c \in Children : Serves[c] = q /\ pc[c] = "lost" /\ held[c].up = u}
    /\ queue' = [m \in Messages |-> queue[m] + Cardinality(Holders(q, m))]
    /\ pc' = [c \in Children |-> IF Serves[c] = q THEN "idle" ELSE pc[c]]
    /\ held' = [c \in Children |-> IF Serves[c] = q THEN None ELSE held[c]]
    /\ pos' = [c \in Children |-> IF Serves[c] = q THEN 1 ELSE pos[c]]
    /\ UNCHANGED <<request, files, results, outcome>>

ApiStep(u) ==
    \/ RejectFormat(u) \/ RejectDisk(u) \/ OpenUpload(u)
    \/ FinishUpload(u) \/ RejectSize(u) \/ UploadFails(u)
    \/ Publish(u) \/ PublishFails(u) \/ Reply(u)

ChildStep(c) ==
    \/ CheckExists(c) \/ ExistsFails(c) \/ Work(c) \/ Cleanup(c)
    \/ OpenResult(c) \/ WriteResult(c) \/ Succeed(c)
    \/ SaveFails(c) \/ SoftLimit(c) \/ Ack(c) \/ StoreLost(c)

Next ==
    \/ \E u \in Uploads : ApiStep(u)
    \/ ApiCrash
    \/ \E c \in Children : ChildStep(c) \/ HardLimit(c) \/ ChildLost(c)
    \/ \E c \in Children, m \in Messages : Receive(c, m)
    \/ \E q \in Queues : WorkerCrash(q)

(***************************************************************************)
(* Fairness: a handler past its awaits and a task body run on; a waiting   *)
(* message is taken by some child of its queue, because a failed or        *)
(* finished task frees its child.  Nothing obliges a fault to happen.      *)
(***************************************************************************)
Fairness ==
    /\ \A u \in Uploads : WF_vars(FinishUpload(u) \/ Publish(u) \/ Reply(u))
    /\ \A c \in Children : WF_vars(ChildStep(c))
    /\ \A m \in Messages : WF_vars(\E c \in Children : Receive(c, m))

Spec == Init /\ [][Next]_vars
FairSpec == Spec /\ Fairness

(***************************************************************************)
(* Properties                                                              *)
(***************************************************************************)

\* The type invariant of the variables above.
TypeOK ==
    /\ request \in [Uploads -> {"new"} \cup InHandler \cup Answers]
    /\ files \subseteq Uploads
    /\ results \in [ResultKeys -> [Offsets -> Uploads \cup {None}]]
    /\ queue \in [Messages -> Nat]
    /\ pc \in [Children -> Steps]
    /\ held \in [Children -> Messages \cup {None}]
    /\ pos \in [Children -> 1..(MaxSize + 1)]
    /\ outcome \in [Uploads -> Final \cup {"PENDING"}]
    /\ crashes \in 0..MaxCrashes
    /\ halfEnded \subseteq Uploads /\ unstored \subseteq Uploads

\* Every task the API answered 202 for has a copy of its message, in the
\* list or at a child, until the backend has a final state: acks_late, the
\* retry published before the acknowledgement and the return of a dead
\* container's messages leave no gap between them.  The only gap is the one
\* between the acknowledgement of a lost child's message and its failure:
\* a task whose container dies there stays PENDING for ever.
NoTaskForgotten ==
    \A u \in Uploads \ unstored :
        request[u] = "202" /\ outcome[u] = "PENDING" =>
            Waiting(u) \/ \E c \in Children : Holds(c, u)

\* However often a message is retried or redelivered, two children never
\* run the body of the same task past its exists() check at the same time:
\* the deletion of the upload is what excludes the second one.
OneRunner ==
    \A c, d \in Children :
        /\ pc[c] \in Running /\ pc[d] \in Running
        /\ held[c].up = held[d].up /\ held[c].up \notin halfEnded
        => c = d

Unshared(u) == \A v \in Uploads : KeyOf[v] = KeyOf[u] => v = u

\* A task whose result file nobody else writes: once a client reads SUCCESS
\* the file is complete, and no later delivery, retry or crash truncates it
\* again; the upload is gone by then.
SuccessIsDurable ==
    \A u \in Uploads \ halfEnded :
        outcome[u] = "SUCCESS" =>
            /\ u \notin files
            /\ Unshared(u) => results[KeyOf[u]] = Whole(u)

\* A client that polled SUCCESS never reads a failure later, and one that
\* polled a failure never reads SUCCESS, although a redelivered or retried
\* message runs the task again; a task that failed with its upload on disk
\* and was not acknowledged may run again to SUCCESS, and no other one.
OutcomeIsFinal ==
    [][\A u \in Uploads :
          /\ outcome[u] = "SUCCESS" => outcome'[u] = "SUCCESS"
          /\ outcome[u] \in Failures /\ u \notin halfEnded' => outcome'[u] \in Failures]_vars

\* The service as its clients see it: a task is pending from the moment its
\* message is out until the backend has a final state.
ClientStatus(u) ==
    CASE u \in halfEnded \cup unstored -> "torn"
      [] u \notin halfEnded \cup unstored /\ outcome[u] = "SUCCESS" -> "SUCCESS"
      [] u \notin halfEnded \cup unstored /\ outcome[u] \in Failures -> "FAILURE"
      [] u \notin halfEnded \cup unstored /\ outcome[u] = "PENDING" ->
           IF Waiting(u) \/ \E c \in Children : Holds(c, u) THEN "pending" ELSE "absent"

OwnResult == {u \in Uploads : Unshared(u)}
ClientView == [u \in OwnResult |-> ClientStatus(u)]
SavedResults ==
    {u \in OwnResult \ (halfEnded \cup unstored) : results[KeyOf[u]] = Whole(u)}

Contract == INSTANCE TaskContract WITH
    Tasks <- OwnResult, status <- ClientView, saved <- SavedResults

\* Queues, retries, crashes and files together implement the contract.
ImplementsContract == Contract!Spec

\* With fairness they implement it with its promise that every task ends.
ImplementsFairContract == Contract!FairSpec

\* A result file that no child is writing is empty or the complete result
\* of one upload: no mixture of two runs, no prefix.
ResultsWhole ==
    \A k \in ResultKeys :
        \/ \E c \in Children : pc[c] = "writing" /\ KeyOf[held[c].up] = k
        \/ results[k] = Blank
        \/ \E u \in Uploads : KeyOf[u] = k /\ results[k] = Whole(u)

\* An upload whose task ended and has no delivery left is not on disk.
EndedTaskLeavesNoUpload ==
    \A u \in Uploads :
        outcome[u] \in Final /\ ~Waiting(u) /\ (\A c \in Children : ~Holds(c, u))
            => u \notin files

\* A retry finds the upload it is to process.
RetryFindsUpload ==
    \A m \in Messages : queue[m] > 0 /\ m.try > 0 => m.up \in files

\* A request answered 500 did not become a task.
ServerErrorMeansNoTask ==
    \A u \in Uploads :
        request[u] = "500" =>
            ~Waiting(u) /\ outcome[u] = "PENDING" /\ \A c \in Children : ~Holds(c, u)

\* Every stored upload is deleted in the end.
UploadsAreTemporary == \A u \in Uploads : u \in files ~> u \notin files

\* Every task a client was told of ends, whatever fails on the way.
EveryTaskEnds == \A u \in Uploads : request[u] = "202" ~> outcome[u] \in Final
=============================================================================
