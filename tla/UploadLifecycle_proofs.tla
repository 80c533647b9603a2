----------------------- MODULE UploadLifecycle_proofs -----------------------
(***************************************************************************)
(* Proofs about UploadLifecycle for any number of uploads and children,    *)
(* any sizes and any number of crashes.  That the state is well typed, no  *)
(* task is forgotten but those in unstored, and reason_query keeps its     *)
(* promise of a 500 holds under every fault; the other theorems name the   *)
(* faults they exclude, first of all an unlink that fails.                 *)
(***************************************************************************)
EXTENDS UploadLifecycle, FiniteSetTheorems, TLAPS

BeforeSave == {"received", "working", "cleanOk", "cleanFail"}
Saving == {"saving", "writing"}

\* A busy child has a message.
HeldOK == \A c \in Children : pc[c] # "idle" => held[c] \in Messages

\* Where a child's write position can be.
PosOK ==
    \A c \in Children :
        /\ pc[c] \notin {"writing"} \cup Ending => pos[c] = 1
        /\ pc[c] = "writing" => pos[c] <= Size[held[c].up] + 1

\* Nothing is known of an upload before its message is published.
FreshOK ==
    \A u \in Uploads :
        /\ request[u] \in {"new", "storing", "stored"} =>
             /\ ~Waiting(u)
             /\ \A c \in Children : ~Holds(c, u)
             /\ outcome[u] = "PENDING"
        /\ request[u] = "new" => u \notin files

\* The upload is on disk while the body of its task runs up to the cleanup,
\* and gone while the result is saved.
FileOK ==
    \A c \in Children :
        pc[c] \in Running /\ held[c].up \notin halfEnded =>
            (pc[c] \in {"working", "cleanOk", "cleanFail"} <=> held[c].up \in files)

\* c is before the end of a delivery of u.
Hot(c, u) == Holds(c, u) /\ pc[c] \in Active

\* At most one copy of u's message is at such a child or in the list; then
\* the backend has no final state, and nobody is about to store one.
Alone(u) ==
    /\ \A c, d \in Children : Hot(c, u) /\ Hot(d, u) => c = d
    /\ \A c \in Children, m \in Messages : Hot(c, u) /\ m.up = u => queue[m] = 0
    /\ \A m, n \in Messages :
         m.up = u /\ n.up = u /\ queue[m] > 0 /\ queue[n] > 0 => m = n /\ queue[m] = 1
    /\ Waiting(u) \/ (\E c \in Children : Hot(c, u)) =>
         /\ outcome[u] = "PENDING"
         /\ \A c \in Children : Holds(c, u) => pc[c] # "lost"

\* So it is while u can be processed, unless a delivery ended by halves.
AloneOK == \A u \in Uploads \ halfEnded : Live(u) => Alone(u)

\* A copy whose delivery is not merely waiting to be acknowledged.
Copy(u) == Waiting(u) \/ \E c \in Children : Holds(c, u) /\ pc[c] \notin {"acking", "killed"}

\* A task without a final state is never left to an acknowledgement alone.
NoGap ==
    \A u \in Uploads \ unstored :
        outcome[u] = "PENDING" =>
            /\ request[u] \in {"published", "202"} => Copy(u)
            /\ (\E c \in Children : Holds(c, u)) => Copy(u)

Prefix(u, n) == [i \in Offsets |-> IF i < n THEN u ELSE None]

\* The result file of an upload that shares it with no other.
Content(u) ==
    /\ request[u] = "new" \/ u \in files => results[KeyOf[u]] = Blank
    /\ \A c \in Children :
         Holds(c, u) =>
           /\ pc[c] = "saving" => results[KeyOf[u]] = Blank
           /\ pc[c] = "writing" => results[KeyOf[u]] = Prefix(u, pos[c])
    /\ outcome[u] = "SUCCESS" => results[KeyOf[u]] = Whole(u)

ContentOK == \A u \in Uploads \ halfEnded : Unshared(u) => Content(u)

DoneOK == \A u \in Uploads \ halfEnded : outcome[u] = "SUCCESS" => u \notin files

IInv ==
    /\ TypeOK
    /\ HeldOK
    /\ PosOK
    /\ FreshOK
    /\ FileOK
    /\ AloneOK
    /\ NoGap
    /\ ContentOK
    /\ DoneOK

-----------------------------------------------------------------------------
(***************************************************************************)
(* Types.                                                                  *)
(***************************************************************************)

Typed == TypeOK /\ HeldOK

\* Counting the messages a dead container held gives a natural number.
LEMMA HoldersCount ==
    ASSUME NEW q, NEW m
    PROVE  /\ IsFiniteSet(Holders(q, m))
           /\ Cardinality(Holders(q, m)) \in Nat
<1>1. Holders(q, m) \subseteq Children
  BY DEF Holders
<1>2. IsFiniteSet(Holders(q, m))
  BY <1>1, SetsAssumption, FS_Subset
<1> QED
  BY <1>2, FS_CardinalityType

\* The empty system is well typed.
LEMMA TypeInit == Init => Typed
BY SetsAssumption, ShapeAssumption, BoundsAssumption
DEF Init, Typed, TypeOK, HeldOK, Blank, Offsets, Steps, Final, Failures

\* The steps of the API process keep the types.
LEMMA TypeApi ==
    ASSUME Typed, NEW u \in Uploads, ApiStep(u)
    PROVE  Typed'
<1> USE DEF Typed, TypeOK, HeldOK, Answer, Answers, InHandler
<1>1. CASE RejectFormat(u) \/ RejectDisk(u) \/ FinishUpload(u) \/ Reply(u)
  BY <1>1 DEF RejectFormat, RejectDisk, FinishUpload, Reply, childVars, faultVars
<1>2. CASE OpenUpload(u) \/ RejectSize(u) \/ UploadFails(u)
  BY <1>2 DEF OpenUpload, RejectSize, UploadFails, childVars, faultVars
<1>3. FirstTry(u) \in Messages
  BY ShapeAssumption DEF FirstTry, Messages
<1>4. CASE Publish(u) \/ PublishFails(u)
  BY <1>3, <1>4 DEF Publish, PublishFails, Enqueue, childVars, faultVars
<1> QED
  BY <1>1, <1>2, <1>4 DEF ApiStep

\* The death of the API process keeps the types.
LEMMA TypeApiCrash == Typed /\ ApiCrash => Typed'
BY DEF Typed, TypeOK, HeldOK, ApiCrash, Answers, InHandler, childVars, faultVars

\* The next try is a message, and publishing it keeps the types.
LEMMA TypeRetry ==
    ASSUME Typed, NEW m \in Messages, RetryOrFail(m)
    PROVE  queue' \in [Messages -> Nat] /\ outcome' \in [Uploads -> Final \cup {"PENDING"}]
<1> USE DEF Typed, TypeOK, RetryOrFail
<1>1. m.up \in Uploads /\ m.try \in 0..MaxTry
  BY DEF Messages
<1>2. CASE m.try < MaxRetries[QueueOf[m.up]]
  <2>1. MaxRetries[QueueOf[m.up]] \in 0..MaxTry
    BY <1>1, ShapeAssumption
  <2>2. m.try \in Nat /\ m.try + 1 \in 0..MaxTry
    BY <1>1, <1>2, <2>1, ShapeAssumption
  <2>3. [m EXCEPT !.try = @ + 1] \in Messages
    BY <2>2 DEF Messages
  <2> QED
    BY <1>2, <2>3 DEF Enqueue
<1>3. CASE ~(m.try < MaxRetries[QueueOf[m.up]])
  BY <1>1, <1>3 DEF Record, Final, Failures
<1> QED
  BY <1>2, <1>3

\* The steps of a worker child and its parent keep the types.
LEMMA TypeChild ==
    ASSUME Typed, NEW c \in Children, ChildStep(c) \/ HardLimit(c) \/ ChildLost(c)
    PROVE  Typed'
<1> USE DEF Typed, TypeOK, HeldOK, Goto, Steps, Active, Running, Ending, faultVars
<1>1. pc[c] # "idle" => held[c] \in Messages /\ held[c].up \in Uploads /\ held[c].try \in 0..MaxTry
  BY DEF Messages
<1>2. CASE CheckExists(c)
  BY <1>1, <1>2 DEF CheckExists, Record, Final, Failures
<1>3. CASE Work(c)
  BY <1>3 DEF Work
<1>4. CASE Cleanup(c)
  BY <1>1, <1>4 DEF Cleanup, Record, Final, Failures
<1>5. CASE OpenResult(c)
  BY <1>1, <1>5, ShapeAssumption DEF OpenResult, Blank
<1>6. CASE WriteResult(c)
  <2>1. pos[c] \in Offsets /\ KeyOf[held[c].up] \in ResultKeys
    BY <1>1, <1>6, ShapeAssumption DEF WriteResult, Offsets
  <2> QED
    BY <1>1, <1>6, <2>1, ShapeAssumption, SMTT(30) DEF WriteResult, Offsets
<1>7. CASE Succeed(c) \/ SoftLimit(c)
  BY <1>1, <1>7 DEF Succeed, SoftLimit, Record, Final, Failures
<1>8. CASE SaveFails(c) \/ ExistsFails(c)
  <2>1. pc[c] # "idle" /\ RetryOrFail(held[c])
    BY <1>8 DEF SaveFails, ExistsFails
  <2>2. queue' \in [Messages -> Nat] /\ outcome' \in [Uploads -> Final \cup {"PENDING"}]
    BY <1>1, <2>1, TypeRetry
  <2> QED
    BY <1>1, <1>8, <2>2 DEF SaveFails, ExistsFails
<1>9. CASE Ack(c) \/ StoreLost(c)
  <2>1. Release(c) => /\ pc' \in [Children -> Steps]
                      /\ held' \in [Children -> Messages \cup {None}]
                      /\ pos' \in [Children -> 1..(MaxSize + 1)]
                      /\ HeldOK'
    BY ShapeAssumption DEF Release
  <2>2. CASE Ack(c)
    BY <2>1, <2>2 DEF Ack
  <2>3. CASE StoreLost(c)
    BY <1>1, <2>1, <2>3 DEF StoreLost, Record, Final, Failures
  <2> QED
    BY <1>9, <2>2, <2>3
<1>10. CASE HardLimit(c) \/ ChildLost(c)
  <2>1. halfEnded' \subseteq Uploads
    BY <1>10 DEF HardLimit, ChildLost, HalfEnds
  <2> QED
    BY <1>1, <1>10, <2>1 DEF HardLimit, ChildLost, Record, Final, Failures
<1> QED
  BY <1>2, <1>3, <1>4, <1>5, <1>6, <1>7, <1>8, <1>9, <1>10 DEF ChildStep

\* A child that takes a message is busy with it.
LEMMA TypeReceive ==
    ASSUME Typed, NEW c \in Children, NEW m \in Messages, Receive(c, m)
    PROVE  Typed'
BY DEF Typed, TypeOK, HeldOK, Receive, Goto, Steps, Active, faultVars

\* A dead container gives back as many messages as its children held.
LEMMA TypeCrash ==
    ASSUME Typed, NEW q \in Queues, WorkerCrash(q)
    PROVE  Typed'
<1>1. \A m \in Messages : queue[m] + Cardinality(Holders(q, m)) \in Nat
  BY HoldersCount DEF Typed, TypeOK
<1>2. crashes + 1 \in 0..MaxCrashes
  BY BoundsAssumption DEF Typed, TypeOK, WorkerCrash
<1>3. halfEnded' \subseteq Uploads /\ unstored' \subseteq Uploads
  BY DEF Typed, TypeOK, WorkerCrash, HalfEnds
<1> QED
  BY <1>1, <1>2, <1>3, ShapeAssumption DEF Typed, TypeOK, HeldOK, WorkerCrash, Steps

\* Every step keeps the types.
LEMMA TypeStep == Typed /\ [Next]_vars => Typed'
<1> SUFFICES ASSUME Typed, [Next]_vars PROVE Typed'
  OBVIOUS
<1>1. CASE UNCHANGED vars
  BY <1>1 DEF Typed, TypeOK, HeldOK, vars
<1>2. CASE Next
  BY <1>2, TypeApi, TypeApiCrash, TypeChild, TypeReceive, TypeCrash DEF Next
<1> QED
  BY <1>1, <1>2

\* Every variable keeps its type, whatever faults the environment injects.
THEOREM TypeCorrect == Spec => []TypeOK
<1>1. Typed => TypeOK
  BY DEF Typed
<1> QED
  BY <1>1, TypeInit, TypeStep, PTL DEF Spec

-----------------------------------------------------------------------------
(***************************************************************************)
(* The inductive invariant, for an environment in which unlink works.      *)
(***************************************************************************)

NoUnlink == "unlink" \notin Faults

\* The invariant holds before the first request.
LEMMA IInvInit == Init => IInv
<1> SUFFICES ASSUME Init PROVE IInv
  OBVIOUS
<1>1. Typed
  BY TypeInit
<1>2. \A u \in Uploads : ~Waiting(u)
  BY DEF Init, Waiting
<1>3. \A c \in Children : pc[c] = "idle" /\ pos[c] = 1
  BY DEF Init
<1>4. PosOK /\ FileOK
  BY <1>3 DEF PosOK, FileOK, Running, Ending
<1>5. FreshOK /\ DoneOK
  BY <1>2, <1>3 DEF Init, FreshOK, DoneOK, Holds
<1>6. AloneOK
  BY <1>3 DEF Init, AloneOK, Live, Saving
<1>7. NoGap
  BY <1>3 DEF Init, NoGap, Holds
<1>8. ContentOK
  BY <1>3, ShapeAssumption DEF Init, ContentOK, Content, Holds
<1> QED
  BY <1>1, <1>4, <1>5, <1>6, <1>7, <1>8 DEF IInv, Typed

\* A child that goes on to another step with its message, while the lists do
\* not change, changes no copy unless it turns to the acknowledgement.
LEMMA Frame ==
    ASSUME Typed, NEW c \in Children, pc[c] # "idle",
           NEW s \in Steps \ {"idle"}, Goto(c, s), UNCHANGED <<queue, held>>
    PROVE  /\ \A v \in Uploads : Waiting(v)' <=> Waiting(v)
           /\ \A v \in Uploads, d \in Children : Holds(d, v)' <=> Holds(d, v)
           /\ \A v \in Uploads :
                Copy(v) /\ (s \notin {"acking", "killed"} \/ held[c].up # v) => Copy(v)'
<1> USE DEF Typed, TypeOK, Goto
<1>1. \A v \in Uploads : Waiting(v)' <=> Waiting(v)
  BY DEF Waiting
<1>2. \A v \in Uploads, d \in Children : Holds(d, v)' <=> Holds(d, v)
  BY DEF Holds
<1>3. ASSUME NEW v \in Uploads, Copy(v), s \notin {"acking", "killed"} \/ held[c].up # v
      PROVE  Copy(v)'
  <2>1. CASE Waiting(v)
    BY <1>1, <2>1 DEF Copy
  <2>2. ASSUME NEW d \in Children, Holds(d, v), pc[d] \notin {"acking", "killed"}
        PROVE  Copy(v)'
    <3>1. Holds(d, v)' /\ pc'[d] \notin {"acking", "killed"}
      BY <1>2, <1>3, <2>2 DEF Holds
    <3> QED
      BY <3>1 DEF Copy
  <2> QED
    BY <1>3, <2>1, <2>2 DEF Copy
<1> QED
  BY <1>1, <1>2, <1>3

\* A step that is a handler's and does not publish concerns no copy.
LEMMA GapHandler ==
    ASSUME Typed, NoGap, UNCHANGED <<queue, childVars, outcome, unstored>>,
           \A u \in Uploads :
               request'[u] \in {"published", "202"} => request[u] \in {"published", "202"}
    PROVE  NoGap'
BY DEF NoGap, Copy, Waiting, Holds, childVars

\* The message is out before the request counts as published.
LEMMA GapPublish ==
    ASSUME Typed, NoGap, NEW u \in Uploads, Publish(u) \/ PublishFails(u)
    PROVE  NoGap'
<1> USE DEF Typed, TypeOK, Publish, PublishFails, Enqueue, Answer, childVars, faultVars
<1>1. FirstTry(u) \in Messages /\ FirstTry(u).up = u
  BY ShapeAssumption DEF FirstTry, Messages
<1>2. \A v \in Uploads, d \in Children : Holds(d, v)' <=> Holds(d, v)
  BY DEF Holds
<1>3. \A v \in Uploads : Copy(v) => Copy(v)'
  BY <1>1, <1>2 DEF Copy, Waiting
<1>4. Publish(u) => Waiting(u)'
  BY <1>1 DEF Waiting
<1> QED
  BY <1>2, <1>3, <1>4 DEF NoGap, Copy

\* A busy child holds a message of some upload.
LEMMA Busy ==
    ASSUME Typed, NEW c \in Children, pc[c] # "idle"
    PROVE  held[c] \in Messages /\ held[c].up \in Uploads /\ Holds(c, held[c].up)
BY DEF Typed, HeldOK, Messages, Holds

\* An autoretry concerns one task: it has its next try in the list, or a
\* final state.
LEMMA Retried ==
    ASSUME Typed, NEW m \in Messages, RetryOrFail(m)
    PROVE  /\ \A x \in Messages : x.up # m.up => queue'[x] = queue[x]
           /\ \A v \in Uploads :
                /\ v # m.up => outcome'[v] = outcome[v]
                /\ outcome'[v] = "SUCCESS" => outcome[v] = "SUCCESS"
           /\ \A v \in Uploads : Waiting(v) => Waiting(v)'
           /\ \/ /\ outcome' = outcome
                 /\ \E n \in Messages :
                      /\ n.up = m.up
                      /\ queue'[n] = queue[n] + 1
                      /\ \A x \in Messages : x # n => queue'[x] = queue[x]
              \/ /\ queue' = queue
                 /\ outcome'[m.up] \in Final
<1> DEFINE n == [m EXCEPT !.try = @ + 1]
<1>0. m.up \in Uploads /\ m.try \in 0..MaxTry
  BY DEF Messages
<1>1. CASE m.try < MaxRetries[QueueOf[m.up]]
  <2>1. MaxRetries[QueueOf[m.up]] \in 0..MaxTry
    BY <1>0, ShapeAssumption
  <2>2. m.try \in Nat /\ m.try + 1 \in 0..MaxTry
    BY <1>0, <1>1, <2>1, ShapeAssumption
  <2>3. n \in Messages /\ n.up = m.up
    BY <2>2 DEF Messages
  <2>4. outcome' = outcome /\ queue' = [queue EXCEPT ![n] = @ + 1]
    BY <1>1 DEF RetryOrFail, Enqueue
  <2> HIDE DEF n
  <2>5. /\ queue[n] \in Nat /\ queue'[n] = queue[n] + 1
        /\ \A x \in Messages : x # n => queue'[x] = queue[x]
    BY <2>3, <2>4 DEF Typed, TypeOK
  <2>6. queue'[n] > 0
    BY ONLY <2>5
  <2>7. \A v \in Uploads : Waiting(v) => Waiting(v)'
    BY <2>3, <2>5, <2>6 DEF Waiting
  <2> QED
    BY <2>3, <2>4, <2>5, <2>7
<1>2. CASE ~(m.try < MaxRetries[QueueOf[m.up]])
  <2>1. queue' = queue /\ Record(m.up, "OSError")
    BY <1>2 DEF RetryOrFail
  <2>2. /\ outcome'[m.up] \in Final
        /\ \A v \in Uploads :
             /\ v # m.up => outcome'[v] = outcome[v]
             /\ outcome'[v] = "SUCCESS" => outcome[v] = "SUCCESS"
    BY <1>0, <2>1 DEF Record, Typed, TypeOK, Final, Failures
  <2>3. \A v \in Uploads : Waiting(v) => Waiting(v)'
    BY <2>1 DEF Waiting
  <2> QED
    BY <2>1, <2>2, <2>3
<1> QED
  BY <1>1, <1>2

\* A child turns to the acknowledgement when its task has a final state, or
\* its next try is published.
LEMMA GapChild ==
    ASSUME Typed, NoGap, NEW c \in Children, ChildStep(c) \/ HardLimit(c) \/ ChildLost(c)
    PROVE  NoGap'
<1> DEFINE w == held[c].up
<1>1. pc[c] # "idle" /\ request' = request /\ unstored' = unstored
  BY DEF ChildStep, CheckExists, ExistsFails, Work, Cleanup, OpenResult, WriteResult, Succeed,
         SaveFails, SoftLimit, Ack, StoreLost, HardLimit, ChildLost, Active, Running, faultVars
<1>2. held[c] \in Messages /\ w \in Uploads /\ Holds(c, w)
  BY <1>1, Busy
<1>3. ASSUME NEW s \in Steps \ {"idle"}, Goto(c, s), UNCHANGED <<queue, held>>,
             \/ s \notin {"acking", "killed"} /\ outcome' = outcome
             \/ \E f \in Final : Record(w, f)
      PROVE  NoGap'
  <2>1. /\ \A v \in Uploads, d \in Children : Holds(d, v)' <=> Holds(d, v)
        /\ \A v \in Uploads : Copy(v) /\ (s \notin {"acking", "killed"} \/ w # v) => Copy(v)'
    BY <1>1, <1>3, Frame
  <2>2. CASE s \notin {"acking", "killed"} /\ outcome' = outcome
    BY <1>1, <2>1, <2>2 DEF NoGap
  <2>3. ASSUME NEW f \in Final, Record(w, f)
        PROVE  NoGap'
    <3>1. outcome'[w] # "PENDING" /\ \A v \in Uploads : v # w => outcome'[v] = outcome[v]
      BY <1>2, <2>3 DEF Record, Final, Failures, Typed, TypeOK
    <3> QED
      BY <1>1, <2>1, <3>1 DEF NoGap
  <2> QED
    BY <1>3, <2>2, <2>3
<1> USE DEF Steps, Active, Running, Ending
<1>4. CASE CheckExists(c)
  BY <1>3, <1>4 DEF CheckExists, Final, Failures
<1>5. CASE Work(c)
  BY <1>3, <1>5 DEF Work
<1>6. CASE Cleanup(c)
  BY <1>3, <1>6 DEF Cleanup, Final, Failures
<1>7. CASE OpenResult(c)
  BY <1>3, <1>7 DEF OpenResult
<1>8. CASE WriteResult(c)
  BY <1>1, <1>8 DEF WriteResult, NoGap, Copy, Waiting, Holds
<1>9. CASE Succeed(c) \/ SoftLimit(c) \/ HardLimit(c)
  BY <1>3, <1>9 DEF Succeed, SoftLimit, HardLimit, Final, Failures
<1>10. CASE ChildLost(c)
  BY <1>3, <1>10 DEF ChildLost
<1>11. CASE SaveFails(c) \/ ExistsFails(c)
  <2>1. RetryOrFail(held[c]) /\ Goto(c, "acking") /\ UNCHANGED held
    BY <1>11 DEF SaveFails, ExistsFails
  <2>2. \A v \in Uploads, d \in Children : Holds(d, v)' <=> Holds(d, v)
    BY <1>1, <2>1 DEF Goto, Holds, Typed, TypeOK
  <2>3. ASSUME NEW v \in Uploads, v # w \/ queue' # queue, Copy(v) PROVE Copy(v)'
    <3>1. Waiting(v) => Waiting(v)'
      BY <1>2, <2>1, Retried
    <3>2. CASE v # w
      <4>1. ASSUME NEW d \in Children, Holds(d, v), pc[d] \notin {"acking", "killed"}
            PROVE  Copy(v)'
        <5>1. d # c
          BY <3>2, <4>1 DEF Holds
        <5>2. Holds(d, v)' /\ pc'[d] = pc[d]
          BY <2>1, <2>2, <4>1, <5>1 DEF Goto, Typed, TypeOK
        <5> QED
          BY <4>1, <5>2 DEF Copy
      <4> QED
        BY <2>3, <3>1, <4>1 DEF Copy
    <3>3. CASE v = w /\ queue' # queue
      <4>1. PICK n \in Messages : n.up = w /\ queue'[n] = queue[n] + 1
        BY <1>2, <2>1, <3>3, Retried
      <4>2. queue[n] \in Nat
        BY <4>1 DEF Typed, TypeOK
      <4>3. queue'[n] > 0
        BY <4>1, <4>2
      <4> QED
        BY <3>3, <4>1, <4>3 DEF Copy, Waiting
    <3> QED
      BY <2>3, <3>2, <3>3
  <2>4. \/ outcome' = outcome /\ queue' # queue
        \/ outcome'[w] \in Final
    <3>1. ASSUME NEW n \in Messages, queue'[n] = queue[n] + 1 PROVE queue' # queue
      <4>1. queue[n] \in Nat
        BY <3>1 DEF Typed, TypeOK
      <4> QED
        BY <3>1, <4>1
    <3> QED
      BY <1>2, <2>1, <3>1, Retried
  <2>5. \A v \in Uploads : v # w => outcome'[v] = outcome[v]
    BY <1>2, <2>1, Retried
  <2>6. ASSUME NEW v \in Uploads \ unstored', outcome'[v] = "PENDING"
        PROVE  /\ request'[v] \in {"published", "202"} => Copy(v)'
               /\ (\E d \in Children : Holds(d, v)') => Copy(v)'
    <3>1. outcome[v] = "PENDING" /\ (v # w \/ queue' # queue)
      BY <2>4, <2>5, <2>6 DEF Final, Failures
    <3> QED
      BY <1>1, <2>2, <2>3, <2>6, <3>1 DEF NoGap
  <2> QED
    BY <2>6 DEF NoGap
<1>12. CASE Ack(c)
  BY <1>1, <1>12 DEF Ack, Release, Goto, NoGap, Copy, Waiting, Holds, Typed, TypeOK
<1>13. CASE StoreLost(c)
  <2>1. outcome'[w] # "PENDING" /\ \A v \in Uploads : v # w => outcome'[v] = outcome[v]
    BY <1>2, <1>13 DEF StoreLost, Record, Typed, TypeOK
  <2>2. \A v \in Uploads, d \in Children : Holds(d, v)' <=> Holds(d, v) /\ d # c
    BY <1>13 DEF StoreLost, Release, Goto, Holds, Typed, TypeOK
  <2>3. ASSUME NEW v \in Uploads, v # w, Copy(v) PROVE Copy(v)'
    BY <1>13, <2>2, <2>3 DEF StoreLost, Release, Goto, Copy, Waiting, Holds, Typed, TypeOK
  <2> QED
    BY <1>1, <2>1, <2>2, <2>3 DEF NoGap
<1> QED
  BY <1>4, <1>5, <1>6, <1>7, <1>8, <1>9, <1>10, <1>11, <1>12, <1>13 DEF ChildStep

\* A message that is taken from its list is held.
LEMMA GapReceive ==
    ASSUME Typed, NoGap, NEW c \in Children, NEW m \in Messages, Receive(c, m)
    PROVE  NoGap'
BY DEF Typed, TypeOK, HeldOK, Receive, Goto, NoGap, Copy, Waiting, Holds, faultVars

\* What a dead container held is back in its list, unless it had been
\* acknowledged for a lost child: then the task is unstored, or ended.
LEMMA GapCrash ==
    ASSUME Typed, NoGap, NEW q \in Queues, WorkerCrash(q)
    PROVE  NoGap'
<1> USE DEF Typed, TypeOK, HeldOK, WorkerCrash
<1>1. \A v \in Uploads, d \in Children : Holds(d, v)' <=> Holds(d, v) /\ Serves[d] # q
  BY DEF Holds
<1>2. \A x \in Messages : queue'[x] = queue[x] + Cardinality(Holders(q, x))
  OBVIOUS
<1>3. \A x \in Messages : Cardinality(Holders(q, x)) \in Nat /\ IsFiniteSet(Holders(q, x))
  BY HoldersCount
<1>4. ASSUME NEW x \in Messages, NEW d \in Holders(q, x) PROVE queue'[x] > 0
  <2>1. Cardinality(Holders(q, x)) # 0
    BY <1>3, <1>4, FS_EmptySet
  <2>2. /\ queue[x] \in Nat /\ queue'[x] = queue[x] + Cardinality(Holders(q, x))
        /\ Cardinality(Holders(q, x)) \in Nat
    BY <1>2, <1>3
  <2> QED
    BY ONLY <2>1, <2>2
<1>5. ASSUME NEW v \in Uploads, Waiting(v) PROVE Waiting(v)'
  <2>1. PICK x \in Messages : x.up = v /\ queue[x] > 0
    BY <1>5 DEF Waiting
  <2>2. /\ queue[x] \in Nat /\ queue'[x] = queue[x] + Cardinality(Holders(q, x))
        /\ Cardinality(Holders(q, x)) \in Nat
    BY <1>2, <1>3
  <2>3. queue'[x] > 0
    BY ONLY <2>1, <2>2
  <2> QED
    BY <2>1, <2>3 DEF Waiting
<1>6. ASSUME NEW v \in Uploads, NEW d \in Children, Holds(d, v), Serves[d] = q, pc[d] # "lost"
      PROVE  Waiting(v)'
  <2>1. held[d] \in Messages /\ held[d].up = v /\ d \in Holders(q, held[d])
    BY <1>6 DEF Holds, Holders
  <2> QED
    BY <1>4, <2>1 DEF Waiting
<1>7. ASSUME NEW v \in Uploads \ unstored', outcome'[v] = "PENDING", Copy(v) PROVE Copy(v)'
  <2>1. ASSUME NEW d \in Children, Holds(d, v), pc[d] \notin {"acking", "killed"} PROVE Copy(v)'
    <3>1. CASE Serves[d] = q
      <4>1. pc[d] # "lost"
        BY <1>7, <2>1, <3>1 DEF Holds
      <4> QED
        BY <1>6, <2>1, <3>1, <4>1 DEF Copy
    <3>2. CASE Serves[d] # q
      BY <1>1, <2>1, <3>2 DEF Copy
    <3> QED
      BY <3>1, <3>2
  <2> QED
    BY <1>5, <1>7, <2>1 DEF Copy
<1>8. unstored \subseteq unstored' /\ outcome' = outcome /\ request' = request
  OBVIOUS
<1> HIDE DEF Typed, TypeOK, HeldOK, WorkerCrash
<1>9. ASSUME NEW v \in Uploads \ unstored', outcome'[v] = "PENDING"
      PROVE  /\ request'[v] \in {"published", "202"} => Copy(v)'
             /\ (\E d \in Children : Holds(d, v)') => Copy(v)'
  BY <1>1, <1>7, <1>8, <1>9 DEF NoGap
<1> QED
  BY <1>9 DEF NoGap

\* No step opens a gap, whatever fails.
LEMMA GapStep == Typed /\ NoGap /\ [Next]_vars => NoGap'
<1> SUFFICES ASSUME Typed, NoGap, [Next]_vars PROVE NoGap'
  OBVIOUS
<1>1. CASE UNCHANGED vars
  BY <1>1, GapHandler DEF vars, childVars
<1>2. ASSUME NEW u \in Uploads, ApiStep(u) PROVE NoGap'
  <2>1. CASE Publish(u) \/ PublishFails(u)
    BY <2>1, GapPublish
  <2>2. CASE ~(Publish(u) \/ PublishFails(u))
    <3>1. UNCHANGED <<queue, childVars, outcome, unstored>>
      BY <1>2, <2>2
      DEF ApiStep, RejectFormat, RejectDisk, OpenUpload, FinishUpload, RejectSize,
          UploadFails, Reply, faultVars
    <3>2. \A v \in Uploads :
              request'[v] \in {"published", "202"} => request[v] \in {"published", "202"}
      BY <1>2, <2>2
      DEF ApiStep, RejectFormat, RejectDisk, OpenUpload, FinishUpload, RejectSize,
          UploadFails, Reply, Answer, Typed, TypeOK
    <3> QED
      BY <3>1, <3>2, GapHandler
  <2> QED
    BY <2>1, <2>2
<1>3. CASE ApiCrash
  BY <1>3, GapHandler DEF ApiCrash, faultVars
<1> QED
  BY <1>1, <1>2, <1>3, GapChild, GapReceive, GapCrash DEF Next

\* No task the API answered 202 for is ever lost between the list, the
\* children and the backend, whatever fails, an unlink included, but for a
\* task whose container dies after it acknowledged the loss of a child and
\* before it stored the failure.
THEOREM NoTaskForgottenHolds == Spec => []NoTaskForgotten
<1>1. Init => NoGap
  BY DEF Init, NoGap, Holds
<1>2. Typed /\ NoGap => NoTaskForgotten
  BY DEF NoGap, Copy, NoTaskForgotten
<1> QED
  BY <1>1, <1>2, TypeInit, TypeStep, GapStep, PTL DEF Spec

-----------------------------------------------------------------------------
(***************************************************************************)
(* The inductive invariant, step by step.                                  *)
(***************************************************************************)

\* The requests go on, or end, and at most an upload that is still being
\* stored disappears.
LEMMA KeepRequest ==
    ASSUME IInv, TypeOK', HeldOK', NoGap', UNCHANGED <<results, queue, childVars, outcome, halfEnded>>,
           files' \subseteq files,
           \A v \in files \ files' : request[v] = "storing",
           \A v \in Uploads :
               /\ request'[v] \in {"new", "storing", "stored"} =>
                    request[v] \in {"new", "storing", "stored"}
               /\ request'[v] = "new" => request[v] = "new"
               /\ request'[v] \in {"published", "202"} => request[v] \in {"published", "202"}
    PROVE  IInv'
<1> USE DEF IInv, TypeOK, childVars
<1>PosOK. PosOK'
  BY DEF PosOK
<1>FreshOK. FreshOK'
  BY DEF FreshOK, Waiting, Holds
<1>FileOK. FileOK'
  BY DEF FileOK, FreshOK, Holds, HeldOK, Messages, Running
<1>AloneOK. AloneOK'
  BY DEF AloneOK, Alone, Hot, Live, Waiting, Holds
<1>ContentOK. ContentOK'
  BY DEF ContentOK, Content, Holds, Prefix, Whole, Blank, Unshared
<1>DoneOK. DoneOK'
  BY DEF DoneOK
<1> QED
  BY <1>PosOK, <1>FreshOK, <1>FileOK, <1>AloneOK, <1>ContentOK, <1>DoneOK

\* Such are the steps of a handler before and after it publishes, and the
\* death of the API process.
LEMMA KeepHandler ==
    ASSUME NoUnlink, IInv, TypeOK', HeldOK', NoGap', NEW u \in Uploads,
           \/ RejectFormat(u) \/ RejectDisk(u) \/ FinishUpload(u) \/ RejectSize(u)
           \/ UploadFails(u) \/ Reply(u) \/ ApiCrash
    PROVE  IInv'
<1> USE DEF IInv, TypeOK
<1>1. CASE RejectFormat(u) \/ RejectDisk(u) \/ FinishUpload(u) \/ Reply(u)
  BY <1>1, KeepRequest DEF RejectFormat, RejectDisk, FinishUpload, Reply, Answer, faultVars
<1>2. CASE RejectSize(u) \/ UploadFails(u)
  BY <1>2, KeepRequest DEF RejectSize, UploadFails, Answer, NoUnlink, faultVars
<1>3. CASE ApiCrash
  BY <1>3, KeepRequest DEF ApiCrash, InHandler, faultVars
<1> QED
  BY <1>1, <1>2, <1>3

\* The upload file appears: its message is not out, so it is Alone.
LEMMA KeepOpenUpload ==
    ASSUME NoUnlink, IInv, NEW u \in Uploads, OpenUpload(u), TypeOK', HeldOK', NoGap'
    PROVE  IInv'
<1> USE DEF IInv, TypeOK, OpenUpload, childVars, faultVars, Answer
<1>PosOK. PosOK'
  BY DEF PosOK
<1>FreshOK. FreshOK'
  BY DEF FreshOK, Waiting, Holds
<1>FileOK. FileOK'
  BY DEF FileOK, FreshOK, Holds, HeldOK, Messages, Running
<1>AloneOK. AloneOK'
  BY DEF AloneOK, Alone, Hot, Live, Waiting, Holds, FreshOK
<1>ContentOK. ContentOK'
  BY DEF ContentOK, Content, Holds, Prefix, Whole, Blank, Unshared
<1>DoneOK. DoneOK'
  BY DEF DoneOK, FreshOK
<1> QED
  BY <1>PosOK, <1>FreshOK, <1>FileOK, <1>AloneOK, <1>ContentOK, <1>DoneOK

\* The first copy of the message.
LEMMA KeepPublish ==
    ASSUME NoUnlink, IInv, NEW u \in Uploads, Publish(u), TypeOK', HeldOK', NoGap'
    PROVE  IInv'
<1> USE DEF IInv, TypeOK, Publish, childVars, faultVars, Answer, Enqueue, FirstTry
<1>PosOK. PosOK'
  BY DEF PosOK
<1>FreshOK. FreshOK'
  BY DEF FreshOK, Waiting, Holds
<1>FileOK. FileOK'
  BY DEF FileOK
<1>AloneOK. AloneOK'
  BY DEF AloneOK, Alone, Hot, Live, Waiting, Holds, FreshOK
<1>ContentOK. ContentOK'
  BY DEF ContentOK, Content, Holds, Prefix, Whole, Blank, Unshared
<1>DoneOK. DoneOK'
  BY DEF DoneOK
<1> QED
  BY <1>PosOK, <1>FreshOK, <1>FileOK, <1>AloneOK, <1>ContentOK, <1>DoneOK

\* The same copy, or none, and answer 503.
LEMMA KeepPublishFails ==
    ASSUME NoUnlink, IInv, NEW u \in Uploads, PublishFails(u), TypeOK', HeldOK', NoGap'
    PROVE  IInv'
<1> USE DEF IInv, TypeOK, HeldOK, PublishFails, Enqueue, Answer, childVars, faultVars
<1> DEFINE n == FirstTry(u)
<1>0. /\ n \in Messages /\ n.up = u
      /\ ~Waiting(u) /\ outcome[u] = "PENDING" /\ \A c \in Children : ~Holds(c, u)
  BY ShapeAssumption DEF FirstTry, Messages, FreshOK
<1>1. \A v \in Uploads, d \in Children : Holds(d, v)' <=> Holds(d, v)
  BY DEF Holds
<1>2. \A v \in Uploads : v # u =>
         /\ \A x \in Messages : x.up = v => queue'[x] = queue[x]
         /\ Waiting(v)' <=> Waiting(v)
  BY <1>0 DEF Waiting
<1>3. \A x \in Messages : x.up = u /\ queue'[x] > 0 => x = n /\ queue'[x] = 1
  BY <1>0 DEF Waiting
<1>4. ASSUME NEW v \in Uploads \ halfEnded, Live(v)' PROVE Alone(v)'
  <2>1. Live(v) /\ Alone(v)
    BY <1>1, <1>4 DEF Live, AloneOK
  <2>2. CASE v # u
    BY <1>1, <1>2, <2>1, <2>2 DEF Alone, Hot
  <2>3. CASE v = u
    BY <1>0, <1>1, <1>3, <2>3 DEF Alone, Hot
  <2> QED
    BY <2>2, <2>3
<1>5. AloneOK'
  BY <1>4 DEF AloneOK
<1>PosOK. PosOK'
  BY DEF PosOK
<1>FreshOK. FreshOK'
  BY <1>0, <1>1, <1>2 DEF FreshOK
<1>FileOK. FileOK'
  BY DEF FileOK
<1>ContentOK. ContentOK'
  BY <1>1 DEF ContentOK, Content
<1>DoneOK. DoneOK'
  BY DEF DoneOK
<1> QED
  BY <1>5, <1>PosOK, <1>FreshOK, <1>FileOK, <1>ContentOK, <1>DoneOK

\* Alone(v) outlives a step that adds no copy of v and stores a state only
\* where no copy is left.
LEMMA AloneShrinks ==
    ASSUME NEW v \in Uploads, Alone(v),
           \A x \in Messages : x.up = v => queue'[x] = queue[x],
           \A d \in Children : Hot(d, v)' => Hot(d, v),
           \A d \in Children : Holds(d, v)' /\ pc'[d] = "lost" => Holds(d, v) /\ pc[d] = "lost",
           outcome'[v] = outcome[v] \/ (~Waiting(v) /\ \A d \in Children : ~Hot(d, v)')
    PROVE  Alone(v)'
<1>1. Waiting(v)' <=> Waiting(v)
  BY DEF Waiting
<1>2. \A c, d \in Children : Hot(c, v)' /\ Hot(d, v)' => c = d
  BY DEF Alone
<1>3. \A c \in Children, m \in Messages : Hot(c, v)' /\ m.up = v => queue'[m] = 0
  BY DEF Alone
<1>4. \A m, n \in Messages :
         m.up = v /\ n.up = v /\ queue'[m] > 0 /\ queue'[n] > 0 => m = n /\ queue'[m] = 1
  BY DEF Alone
<1>5. Waiting(v)' \/ (\E c \in Children : Hot(c, v)') =>
         /\ outcome'[v] = "PENDING"
         /\ \A c \in Children : Holds(c, v)' => pc'[c] # "lost"
  BY <1>1 DEF Alone
<1> QED
  BY <1>2, <1>3, <1>4, <1>5 DEF Alone

\* A hot child is the only one, with nothing waiting and nothing lost.
LEMMA OnlyHot ==
    ASSUME NEW v \in Uploads, Alone(v), NEW c \in Children, Hot(c, v)
    PROVE  /\ \A d \in Children : Hot(d, v) => d = c
           /\ \A x \in Messages : x.up = v => queue[x] = 0
           /\ ~Waiting(v)
           /\ outcome[v] = "PENDING"
           /\ \A d \in Children : Holds(d, v) => pc[d] # "lost"
BY DEF Alone, Waiting

\* A child that goes on with its message, or ends its delivery.
LEMMA Moves ==
    ASSUME Typed, NEW c \in Children, pc[c] \in Active \cup {"acking"},
           NEW t \in Steps \ {"idle"}, Goto(c, t), UNCHANGED held,
           pc[c] \in Active \/ t \notin Active
    PROVE  /\ pc'[c] = t /\ \A d \in Children : d # c => pc'[d] = pc[d]
           /\ Hot(c, held[c].up) <=> pc[c] \in Active
           /\ \A v \in Uploads, d \in Children :
                /\ Holds(d, v)' <=> Holds(d, v)
                /\ Hot(d, v)' => Hot(d, v)
                /\ t \notin Active => ~Hot(c, v)'
BY DEF Typed, TypeOK, Goto, Holds, Hot, Active, Running

\* A saving child makes its upload live, and hot.
LEMMA SaverIsHot ==
    ASSUME NEW v \in Uploads, Live(v), v \notin files
    PROVE  \E d \in Children : Hot(d, v) /\ pc[d] \in Saving
BY DEF Live, Hot, Active, Running, Saving

\* A child that finds no file ends the task; then no other child runs it.
LEMMA KeepCheckExists ==
    ASSUME NoUnlink, IInv, NEW c \in Children, CheckExists(c), TypeOK', HeldOK', NoGap'
    PROVE  IInv'
<1> USE DEF IInv, TypeOK, HeldOK, CheckExists, Goto, Record, Final, Failures, faultVars
<1> DEFINE w == held[c].up
<1>0. w \in Uploads /\ Holds(c, w) /\ Hot(c, w)
  BY DEF Messages, Holds, Hot, Active
<1>1. \A v \in Uploads, d \in Children :
         /\ Holds(d, v)' <=> Holds(d, v)
         /\ Hot(d, v)' => Hot(d, v)
         /\ pc'[d] \in Saving \cup {"lost"} => pc'[d] = pc[d]
  BY DEF Holds, Hot, Active, Running, Saving
<1>2. ASSUME NEW v \in Uploads \ halfEnded, Live(v)' PROVE Alone(v)'
  <2>1. Live(v)
    BY <1>1, <1>2 DEF Live, Saving
  <2>2. Alone(v)
    BY <2>1 DEF AloneOK
  <2>3. outcome'[v] = outcome[v]
    <3>1. ASSUME v = w, w \notin files PROVE FALSE
      <4>1. PICK d \in Children : Hot(d, v) /\ pc[d] \in Saving
        BY <2>1, <3>1, SaverIsHot
      <4>2. d = c
        BY <1>0, <2>2, <3>1, <4>1, OnlyHot
      <4> QED
        BY <4>1, <4>2 DEF Saving
    <3> QED
      BY <1>0, <3>1
  <2>4. \A x \in Messages : x.up = v => queue'[x] = queue[x]
    OBVIOUS
  <2>5. /\ \A d \in Children : Hot(d, v)' => Hot(d, v)
        /\ \A d \in Children : Holds(d, v)' /\ pc'[d] = "lost" => Holds(d, v) /\ pc[d] = "lost"
    BY <1>1
  <2> QED
    BY <2>2, <2>3, <2>4, <2>5, AloneShrinks
<1>3. AloneOK'
  BY <1>2 DEF AloneOK
<1>4. ContentOK'
  BY <1>0, <1>1 DEF ContentOK, Content, Holds
<1>PosOK. PosOK'
  BY DEF PosOK, Ending
<1>FreshOK. FreshOK'
  BY DEF FreshOK, Waiting, Holds
<1>FileOK. FileOK'
  BY DEF FileOK, Running
<1>DoneOK. DoneOK'
  BY DEF DoneOK
<1> QED
  BY <1>3, <1>4, <1>PosOK, <1>FreshOK, <1>FileOK, <1>DoneOK

\* The body of the try block.
LEMMA KeepWork ==
    ASSUME NoUnlink, IInv, NEW c \in Children, Work(c), TypeOK', HeldOK', NoGap'
    PROVE  IInv'
<1> USE DEF IInv, TypeOK, HeldOK, Work, Goto, faultVars
<1>1. \A v \in Uploads, d \in Children :
         /\ Holds(d, v)' <=> Holds(d, v)
         /\ Hot(d, v)' => Hot(d, v)
         /\ pc'[d] \in Saving \cup {"lost"} => pc'[d] = pc[d]
  BY DEF Holds, Hot, Active, Running, Saving
<1>2. ASSUME NEW v \in Uploads \ halfEnded, Live(v)' PROVE Alone(v)'
  <2>1. Live(v) /\ Alone(v)
    BY <1>1, <1>2 DEF Live, AloneOK, Saving
  <2>2. \A x \in Messages : x.up = v => queue'[x] = queue[x]
    OBVIOUS
  <2>3. /\ \A d \in Children : Hot(d, v)' => Hot(d, v)
        /\ \A d \in Children : Holds(d, v)' /\ pc'[d] = "lost" => Holds(d, v) /\ pc[d] = "lost"
    BY <1>1
  <2> QED
    BY <2>1, <2>2, <2>3, AloneShrinks
<1>3. AloneOK'
  BY <1>2 DEF AloneOK
<1>PosOK. PosOK'
  BY DEF PosOK, Ending
<1>FreshOK. FreshOK'
  BY DEF FreshOK, Waiting, Holds
<1>FileOK. FileOK'
  BY DEF FileOK, Running
<1>ContentOK. ContentOK'
  BY DEF ContentOK, Content, Holds
<1>DoneOK. DoneOK'
  BY DEF DoneOK
<1> QED
  BY <1>3, <1>PosOK, <1>FreshOK, <1>FileOK, <1>ContentOK, <1>DoneOK

\* The cleanup takes the file from the only copy and goes on to save.
LEMMA KeepCleanup ==
    ASSUME NoUnlink, IInv, NEW c \in Children, Cleanup(c), TypeOK', HeldOK', NoGap'
    PROVE  IInv'
<1> USE DEF NoUnlink, IInv, TypeOK, HeldOK, Cleanup, Goto, Record, Final, Failures, faultVars
<1> DEFINE w == held[c].up
<1>0. /\ w \in Uploads /\ Holds(c, w) /\ Hot(c, w) /\ files' = files \ {w}
      /\ w \notin halfEnded => w \in files
  BY DEF Messages, Holds, Hot, FileOK, Active, Running
<1>1. \A v \in Uploads, d \in Children :
         /\ Holds(d, v)' <=> Holds(d, v)
         /\ Hot(d, v)' => Hot(d, v)
         /\ pc'[d] \in Saving \cup {"lost"} => (d = c \/ pc'[d] = pc[d])
         /\ pc'[c] # "lost"
  BY DEF Holds, Hot, Active, Running, Saving
<1>2. ASSUME w \notin halfEnded
      PROVE  /\ Live(w) /\ Alone(w) /\ outcome[w] = "PENDING" /\ ~Waiting(w)
             /\ \A d \in Children : Hot(d, w) => d = c
  <2>1. Live(w) /\ Alone(w)
    BY <1>0, <1>2 DEF Live, AloneOK
  <2> QED
    BY <1>0, <2>1, OnlyHot
<1>4. FileOK'
  <2>1. ASSUME NEW d \in Children, pc'[d] \in Running, held'[d].up \notin halfEnded'
        PROVE  pc'[d] \in {"working", "cleanOk", "cleanFail"} <=> held'[d].up \in files'
    <3>1. CASE d = c
      BY <1>0, <2>1, <3>1 DEF Running
    <3>2. CASE d # c
      <4>1. pc'[d] = pc[d] /\ held'[d] = held[d] /\ halfEnded' = halfEnded
        BY <3>2
      <4>2. pc[d] \in {"working", "cleanOk", "cleanFail"} <=> held[d].up \in files
        BY <2>1, <4>1 DEF FileOK
      <4>3. held[d].up # w
        <5>1. ASSUME held[d].up = w PROVE FALSE
          <6>1. w \notin halfEnded
            BY <2>1, <4>1, <5>1
          <6>2. Hot(d, w)
            BY <2>1, <4>1, <5>1 DEF Hot, Holds, Active, Running
          <6> QED
            BY <1>2, <3>2, <6>1, <6>2
        <5> QED
          BY <5>1
      <4> QED
        BY <1>0, <4>1, <4>2, <4>3
    <3> QED
      BY <3>1, <3>2
  <2> QED
    BY <2>1 DEF FileOK
<1>5. ASSUME NEW v \in Uploads \ halfEnded, Live(v)' PROVE Alone(v)'
  <2>1. Live(v)
    <3>1. CASE v \in files'
      BY <1>0, <3>1 DEF Live
    <3>2. ASSUME NEW d \in Children, Holds(d, v)', pc'[d] \in Saving
          PROVE  Live(v)
      <4>1. Holds(d, v)
        BY <1>1, <3>2
      <4>2. CASE d = c
        BY <1>0, <4>1, <4>2 DEF Holds, Live
      <4>3. CASE d # c
        BY <1>1, <3>2, <4>1, <4>3 DEF Live, Saving
      <4> QED
        BY <4>2, <4>3
    <3> QED
      BY <1>5, <3>1, <3>2 DEF Live, Saving
  <2>2. Alone(v)
    BY <2>1 DEF AloneOK
  <2>3. outcome'[v] = outcome[v] \/ (~Waiting(v) /\ \A d \in Children : ~Hot(d, v)')
    <3>1. CASE v = w
      <4>1. CASE pc[c] = "cleanOk"
        BY <4>1
      <4>2. CASE pc[c] = "cleanFail"
        <5>1. ~Hot(c, w)'
          BY <4>2 DEF Hot, Active, Running
        <5> QED
          BY <1>1, <1>2, <3>1, <5>1
      <4> QED
        BY <4>1, <4>2
    <3> QED
      BY <1>0, <3>1
  <2>4. \A x \in Messages : x.up = v => queue'[x] = queue[x]
    OBVIOUS
  <2>5. /\ \A d \in Children : Hot(d, v)' => Hot(d, v)
        /\ \A d \in Children : Holds(d, v)' /\ pc'[d] = "lost" => Holds(d, v) /\ pc[d] = "lost"
    BY <1>1
  <2> QED
    BY <2>2, <2>3, <2>4, <2>5, AloneShrinks
<1>6. AloneOK'
  BY <1>5 DEF AloneOK
<1>PosOK. PosOK'
  BY DEF PosOK, Ending
<1>FreshOK. FreshOK'
  BY DEF FreshOK, Waiting, Holds
<1>ContentOK. ContentOK'
  BY <1>0, <1>1 DEF ContentOK, Content, Holds
<1>DoneOK. DoneOK'
  BY DEF DoneOK
<1> QED
  BY <1>4, <1>6, <1>PosOK, <1>FreshOK, <1>ContentOK, <1>DoneOK

\* The truncation hits a file that only this child writes.
LEMMA KeepOpenResult ==
    ASSUME NoUnlink, IInv, NEW c \in Children, OpenResult(c), TypeOK', HeldOK', NoGap'
    PROVE  IInv'
<1> USE DEF IInv, TypeOK, HeldOK, OpenResult, Goto, faultVars
<1> DEFINE w == held[c].up
<1>0. w \in Uploads /\ Holds(c, w) /\ Hot(c, w) /\ Live(w) /\ pos[c] = 1
  BY DEF Messages, Holds, Hot, Live, PosOK, Active, Running, Ending
<1>7. ASSUME w \notin halfEnded
      PROVE  /\ outcome[w] = "PENDING"
             /\ \A d \in Children : Holds(d, w) /\ pc[d] \in Saving => d = c
  <2>1. Alone(w)
    BY <1>0, <1>7 DEF AloneOK
  <2> QED
    BY <1>0, <2>1, OnlyHot DEF Hot, Active, Running, Saving
<1>1. Size[w] \in 1..MaxSize
  BY <1>0, ShapeAssumption
<1>2. PosOK'
  BY <1>0, <1>1 DEF PosOK, Ending
<1>3. \A d \in Children, v \in Uploads : Holds(d, v)' <=> Holds(d, v)
  BY DEF Holds
<1>4. Blank = Prefix(w, 1)
  BY DEF Blank, Prefix, Offsets
<1>5. ASSUME NEW v \in Uploads \ halfEnded, Unshared(v)
      PROVE  /\ request'[v] = "new" \/ v \in files' => results'[KeyOf[v]] = Blank
             /\ \A d \in Children :
                  Holds(d, v)' =>
                    /\ pc'[d] = "saving" => results'[KeyOf[v]] = Blank
                    /\ pc'[d] = "writing" => results'[KeyOf[v]] = Prefix(v, pos[d])
             /\ outcome'[v] = "SUCCESS" => results'[KeyOf[v]] = Whole(v)
  <2>1. CASE v # w
    <3>1. KeyOf[v] # KeyOf[w]
      BY <1>0, <1>5, <2>1 DEF Unshared
    <3>2. results'[KeyOf[v]] = results[KeyOf[v]]
      BY <3>1, ShapeAssumption
    <3>3. ~Holds(c, v)
      BY <2>1 DEF Holds
    <3> QED
      BY <1>3, <1>5, <3>2, <3>3 DEF ContentOK, Content
  <2>2. CASE v = w
    <3>1. results'[KeyOf[v]] = Blank
      BY <2>2, <1>0, ShapeAssumption
    <3>2. outcome[v] = "PENDING" /\ \A d \in Children : Holds(d, v) /\ pc[d] \in Saving => d = c
      BY <1>7, <2>2
    <3> QED
      BY <1>0, <1>3, <1>4, <2>2, <3>1, <3>2 DEF Saving
  <2> QED
    BY <2>1, <2>2
<1>6. ContentOK'
  <2>1. pos' = pos /\ halfEnded' = halfEnded
    OBVIOUS
  <2> HIDE DEF IInv, TypeOK, HeldOK, OpenResult, Goto
  <2> QED
    BY <1>5, <2>1 DEF ContentOK, Content, Unshared, Prefix, Whole, Blank
<1>FreshOK. FreshOK'
  BY DEF FreshOK, Waiting, Holds
<1>FileOK. FileOK'
  BY DEF FileOK, Running
<1>8. \A v \in Uploads, d \in Children :
         /\ Hot(d, v)' <=> Hot(d, v)
         /\ pc'[d] \in Saving <=> pc[d] \in Saving
         /\ pc'[d] = "lost" <=> pc[d] = "lost"
  BY DEF Holds, Hot, Active, Running, Saving
<1>9. ASSUME NEW v \in Uploads \ halfEnded, Live(v)' PROVE Alone(v)'
  <2>1. Live(v) /\ Alone(v)
    BY <1>3, <1>8, <1>9 DEF Live, AloneOK, Saving
  <2>2. /\ \A x \in Messages : x.up = v => queue'[x] = queue[x]
        /\ outcome'[v] = outcome[v]
    OBVIOUS
  <2> QED
    BY <1>3, <1>8, <2>1, <2>2, AloneShrinks
<1>AloneOK. AloneOK'
  BY <1>9 DEF AloneOK
<1>DoneOK. DoneOK'
  BY DEF DoneOK
<1> QED
  BY <1>2, <1>6, <1>FreshOK, <1>FileOK, <1>AloneOK, <1>DoneOK

\* One more cell of the prefix.
LEMMA KeepWriteResult ==
    ASSUME NoUnlink, IInv, NEW c \in Children, WriteResult(c), TypeOK', HeldOK', NoGap'
    PROVE  IInv'
<1> USE DEF IInv, TypeOK, HeldOK, WriteResult, faultVars
<1> DEFINE w == held[c].up
<1>0. w \in Uploads /\ Holds(c, w) /\ Hot(c, w) /\ Live(w)
  BY DEF Messages, Holds, Hot, Live, Active, Running
<1>7. ASSUME w \notin halfEnded
      PROVE  /\ outcome[w] = "PENDING"
             /\ \A d \in Children : Holds(d, w) /\ pc[d] \in Saving => d = c
  <2>1. Alone(w)
    BY <1>0, <1>7 DEF AloneOK
  <2> QED
    BY <1>0, <2>1, OnlyHot DEF Hot, Active, Running, Saving
<1>1. Size[w] \in 1..MaxSize /\ pos[c] \in Offsets /\ pos'[c] = pos[c] + 1
  BY <1>0, ShapeAssumption DEF Offsets
<1>2. PosOK'
  BY <1>0, <1>1 DEF PosOK, Ending
<1>3. \A d \in Children, v \in Uploads : Holds(d, v)' <=> Holds(d, v)
  BY DEF Holds
<1>5. ASSUME NEW v \in Uploads \ halfEnded, Unshared(v)
      PROVE  /\ request'[v] = "new" \/ v \in files' => results'[KeyOf[v]] = Blank
             /\ \A d \in Children :
                  Holds(d, v)' =>
                    /\ pc'[d] = "saving" => results'[KeyOf[v]] = Blank
                    /\ pc'[d] = "writing" => results'[KeyOf[v]] = Prefix(v, pos'[d])
             /\ outcome'[v] = "SUCCESS" => results'[KeyOf[v]] = Whole(v)
  <2>1. CASE v # w
    <3>1. KeyOf[v] # KeyOf[w]
      BY <1>0, <1>5, <2>1 DEF Unshared
    <3>2. results'[KeyOf[v]] = results[KeyOf[v]]
      BY <3>1, ShapeAssumption
    <3>3. ~Holds(c, v)
      BY <2>1 DEF Holds
    <3>4. \A d \in Children : d # c => pos'[d] = pos[d]
      OBVIOUS
    <3>5. /\ request'[v] = request[v] /\ outcome'[v] = outcome[v]
          /\ v \in files' <=> v \in files
          /\ \A d \in Children : d # c => pc'[d] = pc[d]
      BY <2>1
    <3> HIDE DEF IInv, TypeOK, HeldOK, WriteResult
    <3>6. /\ request[v] = "new" \/ v \in files => results[KeyOf[v]] = Blank
          /\ \A d \in Children :
               Holds(d, v) =>
                 /\ pc[d] = "saving" => results[KeyOf[v]] = Blank
                 /\ pc[d] = "writing" => results[KeyOf[v]] = Prefix(v, pos[d])
          /\ outcome[v] = "SUCCESS" => results[KeyOf[v]] = Whole(v)
      BY <1>5 DEF ContentOK, Content, IInv
    <3>7. ASSUME NEW d \in Children, Holds(d, v)'
          PROVE  /\ pc'[d] = "saving" => results'[KeyOf[v]] = Blank
                 /\ pc'[d] = "writing" => results'[KeyOf[v]] = Prefix(v, pos'[d])
      <4>1. Holds(d, v) /\ d # c
        BY <1>3, <3>3, <3>7
      <4>2. pc'[d] = pc[d] /\ pos'[d] = pos[d]
        BY <3>4, <3>5, <4>1
      <4> QED
        BY <3>2, <3>6, <4>1, <4>2
    <3> QED
      BY <3>2, <3>5, <3>6, <3>7
  <2>2. CASE v = w
    <3>1. results[KeyOf[v]] = Prefix(v, pos[c])
      BY <1>0, <1>5, <2>2 DEF ContentOK, Content
    <3>2. results'[KeyOf[v]] = [results[KeyOf[v]] EXCEPT ![pos[c]] = v]
      BY <1>0, <2>2, ShapeAssumption
    <3>3. results'[KeyOf[v]] = Prefix(v, pos[c] + 1)
      <4>1. ASSUME NEW i \in Offsets
            PROVE  results'[KeyOf[v]][i] = IF i < pos[c] + 1 THEN v ELSE None
        <5>1. i \in Int /\ pos[c] \in Int
          BY <1>1, ShapeAssumption DEF Offsets
        <5>2. results'[KeyOf[v]][i] = IF i = pos[c] THEN v ELSE Prefix(v, pos[c])[i]
          BY <3>1, <3>2 DEF Prefix
        <5>3. Prefix(v, pos[c])[i] = IF i < pos[c] THEN v ELSE None
          BY DEF Prefix
        <5> HIDE DEF IInv, TypeOK, HeldOK, WriteResult
        <5> QED
          BY <5>1, <5>2, <5>3
      <4>2. results'[KeyOf[v]] = [i \in Offsets |-> results'[KeyOf[v]][i]]
        BY <3>1, <3>2 DEF Prefix
      <4> QED
        BY <4>1, <4>2 DEF Prefix
    <3>4. outcome[v] = "PENDING" /\ \A d \in Children : Holds(d, v) /\ pc[d] \in Saving => d = c
      BY <1>7, <2>2
    <3>5. v \notin files /\ request[v] # "new"
      BY <1>0, <2>2 DEF FileOK, FreshOK, Running
    <3> QED
      BY <1>0, <1>1, <1>3, <2>2, <3>3, <3>4, <3>5 DEF Saving
  <2> QED
    BY <2>1, <2>2
<1>6. ContentOK'
  BY <1>5 DEF ContentOK, Content, Unshared, Prefix, Whole, Blank
<1>FreshOK. FreshOK'
  BY DEF FreshOK, Waiting, Holds
<1>FileOK. FileOK'
  BY DEF FileOK, Running
<1>8. \A v \in Uploads, d \in Children :
         /\ Hot(d, v)' <=> Hot(d, v)
         /\ pc'[d] \in Saving <=> pc[d] \in Saving
         /\ pc'[d] = "lost" <=> pc[d] = "lost"
  BY DEF Holds, Hot, Active, Running, Saving
<1>9. ASSUME NEW v \in Uploads \ halfEnded, Live(v)' PROVE Alone(v)'
  <2>1. Live(v) /\ Alone(v)
    BY <1>3, <1>8, <1>9 DEF Live, AloneOK, Saving
  <2>2. /\ \A x \in Messages : x.up = v => queue'[x] = queue[x]
        /\ outcome'[v] = outcome[v]
    OBVIOUS
  <2> QED
    BY <1>3, <1>8, <2>1, <2>2, AloneShrinks
<1>AloneOK. AloneOK'
  BY <1>9 DEF AloneOK
<1>DoneOK. DoneOK'
  BY DEF DoneOK
<1> QED
  BY <1>2, <1>6, <1>FreshOK, <1>FileOK, <1>AloneOK, <1>DoneOK

\* A hot child that ends its delivery with a final state leaves no copy.
LEMMA AloneEnds ==
    ASSUME IInv, NEW c \in Children, pc[c] \in Active, NEW t \in {"acking", "killed"}, Goto(c, t),
           NEW f \in Final, Record(held[c].up, f),
           UNCHANGED <<files, queue, held>>, halfEnded \subseteq halfEnded'
    PROVE  AloneOK'
<1> DEFINE w == held[c].up
<1>0. Typed /\ pc[c] # "idle" /\ t \in Steps \ {"idle"} /\ t \notin Active
  BY DEF IInv, Typed, Active, Running, Steps, Ending
<1>1. w \in Uploads /\ Hot(c, w)
  BY <1>0, Busy DEF Hot
<1>2. /\ pc'[c] = t /\ \A d \in Children : d # c => pc'[d] = pc[d]
      /\ \A v \in Uploads, d \in Children :
           /\ Holds(d, v)' <=> Holds(d, v)
           /\ Hot(d, v)' => Hot(d, v)
           /\ ~Hot(c, v)'
  BY <1>0, Moves
<1>3. \A v \in Uploads : v # w => outcome'[v] = outcome[v]
  BY <1>1 DEF Record, IInv, TypeOK
<1>4. ASSUME NEW v \in Uploads \ halfEnded', Live(v)' PROVE Alone(v)'
  <2>1. v \notin halfEnded /\ Live(v)
    BY <1>2, <1>4 DEF Live
  <2>2. Alone(v)
    BY <2>1 DEF IInv, AloneOK
  <2>3. outcome'[v] = outcome[v] \/ (~Waiting(v) /\ \A d \in Children : ~Hot(d, v)')
    <3>1. CASE v = w
      BY <1>1, <1>2, <2>2, <3>1, OnlyHot
    <3> QED
      BY <1>3, <3>1
  <2>4. /\ \A x \in Messages : x.up = v => queue'[x] = queue[x]
        /\ \A d \in Children : Hot(d, v)' => Hot(d, v)
        /\ \A d \in Children : Holds(d, v)' /\ pc'[d] = "lost" => Holds(d, v) /\ pc[d] = "lost"
    BY <1>2
  <2> QED
    BY <2>2, <2>3, <2>4, AloneShrinks
<1> QED
  BY <1>4 DEF AloneOK

\* The prefix is the whole result.
LEMMA KeepSucceed ==
    ASSUME NoUnlink, IInv, NEW c \in Children, Succeed(c), TypeOK', HeldOK', NoGap'
    PROVE  IInv'
<1> USE DEF IInv, TypeOK, HeldOK, Succeed, Goto, Record, faultVars
<1> DEFINE w == held[c].up
<1>0. w \in Uploads /\ Holds(c, w)
  BY DEF Messages, Holds
<1>1. \A v \in Uploads, d \in Children : Holds(d, v)' <=> Holds(d, v)
  BY DEF Holds
<1>2. pos[c] = Size[w] + 1
  <2>1. pos[c] \in Nat /\ Size[w] \in Nat
    BY <1>0, ShapeAssumption
  <2>2. pos[c] <= Size[w] + 1 /\ pos[c] > Size[w]
    BY DEF PosOK
  <2>3. \A i, j \in Nat : i <= j + 1 /\ i > j => i = j + 1
    OBVIOUS
  <2> QED
    BY <2>1, <2>2, <2>3
<1>3. Prefix(w, pos[c]) = Whole(w)
  BY <1>0, <1>2, ShapeAssumption DEF Prefix, Whole, Offsets
<1>4. Unshared(w) /\ w \notin halfEnded => results[KeyOf[w]] = Whole(w)
  BY <1>0, <1>3 DEF ContentOK, Content
<1>5. ContentOK'
  BY <1>0, <1>1, <1>4 DEF ContentOK, Content
<1>PosOK. PosOK'
  BY DEF PosOK, Ending
<1>FreshOK. FreshOK'
  BY DEF FreshOK, Waiting, Holds, Final, Failures
<1>FileOK. FileOK'
  BY DEF FileOK, Running
<1>AloneOK. AloneOK'
  BY AloneEnds DEF Active, Running, Steps, Ending, Final, Failures
<1>DoneOK. DoneOK'
  BY DEF DoneOK, FileOK, Running, Final, Failures
<1> QED
  BY <1>5, <1>PosOK, <1>FreshOK, <1>FileOK, <1>AloneOK, <1>DoneOK

\* The next try is published, or the last one fails; nobody else runs the task.
LEMMA KeepRetry ==
    ASSUME NoUnlink, IInv, NEW c \in Children, SaveFails(c) \/ ExistsFails(c), TypeOK', HeldOK', NoGap'
    PROVE  IInv'
<1> DEFINE w == held[c].up
<1>0. /\ Typed /\ pc[c] \in Active /\ pc[c] # "idle"
      /\ Goto(c, "acking") /\ RetryOrFail(held[c])
      /\ UNCHANGED <<request, files, results, held, pos, halfEnded>>
  BY DEF IInv, Typed, SaveFails, ExistsFails, Active, Running, faultVars
<1>1. held[c] \in Messages /\ w \in Uploads /\ Holds(c, w) /\ Hot(c, w)
  BY <1>0, Busy DEF Hot
<1>2. /\ pc'[c] = "acking" /\ \A d \in Children : d # c => pc'[d] = pc[d]
      /\ \A v \in Uploads, d \in Children :
           /\ Holds(d, v)' <=> Holds(d, v)
           /\ Hot(d, v)' => Hot(d, v)
           /\ ~Hot(c, v)'
  <2>1. "acking" \in Steps \ {"idle"} /\ "acking" \notin Active
    BY DEF Steps, Active, Running, Ending
  <2> QED
    BY <1>0, <2>1, Moves
<1>3. /\ \A x \in Messages : x.up # w => queue'[x] = queue[x]
      /\ \A v \in Uploads :
           /\ v # w => outcome'[v] = outcome[v]
           /\ outcome'[v] = "SUCCESS" => outcome[v] = "SUCCESS"
  BY <1>0, <1>1, Retried
<1>4. \/ /\ outcome' = outcome
         /\ \E n \in Messages :
              /\ n.up = w
              /\ queue'[n] = queue[n] + 1
              /\ \A x \in Messages : x # n => queue'[x] = queue[x]
      \/ /\ queue' = queue
         /\ outcome'[w] \in Final
  BY <1>0, <1>1, Retried
<1>5. \A v \in Uploads : v # w => (Waiting(v)' <=> Waiting(v))
  BY <1>3 DEF Waiting
<1>6. ASSUME NEW v \in Uploads \ halfEnded, Live(v)' PROVE Alone(v)'
  <2>1. Live(v) /\ Alone(v)
    BY <1>0, <1>2, <1>6 DEF Live, IInv, AloneOK
  <2>2. \A d \in Children : Holds(d, v)' /\ pc'[d] = "lost" => Holds(d, v) /\ pc[d] = "lost"
    BY <1>2
  <2>3. CASE v # w
    BY <1>2, <1>3, <2>1, <2>2, <2>3, AloneShrinks
  <2>4. CASE v = w
    <3>1. /\ \A d \in Children : ~Hot(d, v)'
          /\ \A x \in Messages : x.up = v => queue[x] = 0
          /\ ~Waiting(v) /\ outcome[v] = "PENDING"
          /\ \A d \in Children : Holds(d, v) => pc[d] # "lost"
      BY <1>1, <1>2, <2>1, <2>4, OnlyHot
    <3>2. ASSUME outcome' = outcome, NEW n \in Messages, n.up = w, queue'[n] = queue[n] + 1,
                 \A x \in Messages : x # n => queue'[x] = queue[x]
          PROVE  Alone(v)'
      <4>1. \A x \in Messages : x.up = v => queue'[x] = IF x = n THEN 1 ELSE 0
        BY <2>4, <3>1, <3>2
      <4>2. /\ \A x, y \in Messages :
                 x.up = v /\ y.up = v /\ queue'[x] > 0 /\ queue'[y] > 0 => x = y /\ queue'[x] = 1
            /\ outcome'[v] = "PENDING"
            /\ \A d \in Children : Holds(d, v)' => pc'[d] # "lost"
        BY <2>2, <3>1, <3>2, <4>1
      <4> QED
        BY <3>1, <4>2 DEF Alone
    <3>3. CASE queue' = queue
      BY <1>2, <2>1, <2>2, <3>1, <3>3, AloneShrinks
    <3> QED
      BY <1>4, <3>2, <3>3
  <2> QED
    BY <2>3, <2>4
<1>AloneOK. AloneOK'
  BY <1>0, <1>6 DEF AloneOK
<1>PosOK. PosOK'
  BY <1>0, <1>2 DEF IInv, PosOK, Ending
<1>FreshOK. FreshOK'
  BY <1>0, <1>1, <1>2, <1>3, <1>5 DEF IInv, FreshOK
<1>FileOK. FileOK'
  BY <1>0, <1>2 DEF IInv, FileOK, Running
<1>ContentOK. ContentOK'
  BY <1>0, <1>2, <1>3 DEF IInv, ContentOK, Content
<1>DoneOK. DoneOK'
  BY <1>0, <1>3 DEF IInv, DoneOK
<1> QED
  BY <1>PosOK, <1>FreshOK, <1>FileOK, <1>AloneOK, <1>ContentOK, <1>DoneOK DEF IInv

\* The soft limit ends the task.
LEMMA KeepSoftLimit ==
    ASSUME NoUnlink, IInv, NEW c \in Children, SoftLimit(c), TypeOK', HeldOK', NoGap'
    PROVE  IInv'
<1> USE DEF IInv, TypeOK, HeldOK, SoftLimit, Goto, Record, faultVars
<1>PosOK. PosOK'
  BY DEF PosOK, Ending
<1>FreshOK. FreshOK'
  BY DEF FreshOK, Waiting, Holds, Active, Running, Messages
<1>FileOK. FileOK'
  BY DEF FileOK, Running
<1>AloneOK. AloneOK'
  BY AloneEnds DEF Final, Failures
<1>ContentOK. ContentOK'
  BY DEF ContentOK, Content, Holds
<1>DoneOK. DoneOK'
  BY DEF DoneOK
<1> QED
  BY <1>PosOK, <1>FreshOK, <1>FileOK, <1>AloneOK, <1>ContentOK, <1>DoneOK

\* A failure stored for a child that had ended its delivery: what is left of
\* the task cannot run, or it ends by halves.
LEMMA KeepHardLimit ==
    ASSUME NoUnlink, IInv, NEW c \in Children, HardLimit(c), TypeOK', HeldOK', NoGap'
    PROVE  IInv'
<1> USE DEF IInv, TypeOK, HeldOK, HardLimit, Goto, Record
<1> DEFINE w == held[c].up
<1>0. w \in Uploads /\ Holds(c, w) /\ halfEnded \subseteq halfEnded'
  BY DEF Messages, Holds, Active, Running, HalfEnds
<1>1. ASSUME pc[c] = "acking", NEW v \in Uploads \ halfEnded', Live(v)' PROVE Alone(v)'
  <2>1. /\ \A d \in Children : Holds(d, v)' <=> Holds(d, v)
        /\ \A d \in Children : Hot(d, v)' => Hot(d, v)
        /\ \A d \in Children : pc'[d] \in Saving \cup {"lost"} => pc'[d] = pc[d]
    BY <1>1 DEF Holds, Hot, Active, Running, Saving
  <2>2. Live(v) /\ v \notin halfEnded
    BY <1>0, <1>1, <2>1 DEF Live, Saving
  <2>3. v # w
    BY <1>0, <1>1, <2>2 DEF HalfEnds
  <2>4. Alone(v)
    BY <2>2 DEF AloneOK
  <2>5. \A d \in Children : Holds(d, v)' /\ pc'[d] = "lost" => Holds(d, v) /\ pc[d] = "lost"
    BY <2>1
  <2>6. outcome'[v] = outcome[v] /\ \A x \in Messages : x.up = v => queue'[x] = queue[x]
    BY <1>0, <2>3
  <2> QED
    BY <2>1, <2>4, <2>5, <2>6, AloneShrinks
<1>AloneOK. AloneOK'
  <2>1. CASE pc[c] = "acking"
    BY <1>1, <2>1 DEF AloneOK
  <2>2. CASE pc[c] \in Active
    BY <1>0, <2>2, AloneEnds DEF Final, Failures
  <2> QED
    BY <2>1, <2>2
<1>PosOK. PosOK'
  BY DEF PosOK, Ending
<1>FreshOK. FreshOK'
  BY <1>0 DEF FreshOK, Waiting, Holds
<1>FileOK. FileOK'
  BY <1>0 DEF FileOK, Running
<1>ContentOK. ContentOK'
  BY <1>0 DEF ContentOK, Content, Holds
<1>DoneOK. DoneOK'
  BY <1>0 DEF DoneOK
<1> QED
  BY <1>PosOK, <1>FreshOK, <1>FileOK, <1>AloneOK, <1>ContentOK, <1>DoneOK

\* The lost child was the only one that ran the task, or had ended it.
LEMMA KeepChildLost ==
    ASSUME NoUnlink, IInv, NEW c \in Children, ChildLost(c), TypeOK', HeldOK', NoGap'
    PROVE  IInv'
<1> USE DEF IInv, TypeOK, HeldOK, ChildLost, Goto
<1> DEFINE w == held[c].up
<1>0. w \in Uploads /\ Holds(c, w) /\ halfEnded \subseteq halfEnded'
  BY DEF Messages, Holds, Active, Running, HalfEnds
<1>1. \A v \in Uploads, d \in Children :
         /\ Holds(d, v)' <=> Holds(d, v)
         /\ Hot(d, v)' => Hot(d, v) /\ d # c
         /\ pc'[d] \in Saving => pc'[d] = pc[d]
         /\ pc'[d] = "lost" => d = c \/ pc[d] = "lost"
  BY DEF Holds, Hot, Active, Running, Saving
<1>2. ASSUME NEW v \in Uploads \ halfEnded', Live(v)' PROVE Alone(v)'
  <2>1. Live(v) /\ v \notin halfEnded
    BY <1>0, <1>1, <1>2 DEF Live, Saving
  <2>2. Alone(v)
    BY <2>1 DEF AloneOK
  <2>3. CASE v # w
    <3>1. \A d \in Children : Holds(d, v)' /\ pc'[d] = "lost" => Holds(d, v) /\ pc[d] = "lost"
      BY <1>1, <2>3 DEF Holds
    <3> QED
      BY <1>1, <2>2, <3>1, AloneShrinks
  <2>4. CASE v = w
    <3>1. pc[c] \in Active
      BY <1>0, <1>2, <2>1, <2>4 DEF HalfEnds
    <3>2. Hot(c, v)
      BY <1>0, <2>4, <3>1 DEF Hot
    <3>3. ~Waiting(v) /\ \A d \in Children : Hot(d, v) => d = c
      BY <2>2, <3>2, OnlyHot
    <3>4. ~Waiting(v)' /\ \A d \in Children : ~Hot(d, v)'
      BY <1>1, <3>3 DEF Waiting
    <3>5. \A m \in Messages : m.up = v => queue'[m] = queue[m]
      OBVIOUS
    <3> QED
      BY <2>2, <3>4, <3>5 DEF Alone
  <2> QED
    BY <2>3, <2>4
<1>AloneOK. AloneOK'
  BY <1>2 DEF AloneOK
<1>PosOK. PosOK'
  BY DEF PosOK, Ending
<1>FreshOK. FreshOK'
  BY <1>0 DEF FreshOK, Waiting, Holds
<1>FileOK. FileOK'
  BY <1>0 DEF FileOK, Running
<1>ContentOK. ContentOK'
  BY <1>0 DEF ContentOK, Content, Holds
<1>DoneOK. DoneOK'
  BY <1>0 DEF DoneOK
<1> QED
  BY <1>PosOK, <1>FreshOK, <1>FileOK, <1>AloneOK, <1>ContentOK, <1>DoneOK

\* The child is free; the parent of a lost one stores its failure only when
\* no copy is left that could run.
LEMMA KeepRelease ==
    ASSUME NoUnlink, IInv, NEW c \in Children, Ack(c) \/ StoreLost(c), TypeOK', HeldOK', NoGap'
    PROVE  IInv'
<1> USE DEF IInv, TypeOK, HeldOK
<1> DEFINE w == held[c].up
<1>0. /\ w \in Uploads /\ Holds(c, w) /\ Release(c)
      /\ UNCHANGED <<request, files, results, queue, halfEnded>>
      /\ \A v \in Uploads : /\ v # w => outcome'[v] = outcome[v]
                            /\ outcome'[v] = "SUCCESS" => outcome[v] = "SUCCESS"
  BY DEF Ack, StoreLost, Messages, Holds, Record, faultVars
<1>1. /\ pc'[c] = "idle" /\ pos'[c] = 1
      /\ \A d \in Children : d # c => pc'[d] = pc[d] /\ held'[d] = held[d] /\ pos'[d] = pos[d]
  BY <1>0 DEF Release, Goto
<1>2. \A v \in Uploads, d \in Children :
         /\ Holds(d, v)' <=> Holds(d, v) /\ d # c
         /\ Hot(d, v)' => Hot(d, v)
  BY <1>1 DEF Holds, Hot, Active, Running
<1>3. ASSUME NEW v \in Uploads \ halfEnded, Live(v)' PROVE Alone(v)'
  <2>1. Live(v)
    BY <1>0, <1>1, <1>2, <1>3 DEF Live
  <2>2. Alone(v)
    BY <2>1 DEF AloneOK
  <2>3. outcome'[v] = outcome[v] \/ (~Waiting(v) /\ \A d \in Children : ~Hot(d, v)')
    <3>1. CASE Ack(c)
      BY <3>1 DEF Ack
    <3>2. CASE StoreLost(c) /\ v = w
      BY <1>0, <1>2, <2>2, <3>2 DEF StoreLost, Alone
    <3> QED
      BY <1>0, <3>1, <3>2
  <2>4. \A d \in Children : Holds(d, v)' /\ pc'[d] = "lost" => Holds(d, v) /\ pc[d] = "lost"
    BY <1>1, <1>2
  <2> QED
    BY <1>0, <1>2, <2>2, <2>3, <2>4, AloneShrinks
<1>AloneOK. AloneOK'
  BY <1>0, <1>3 DEF AloneOK
<1>PosOK. PosOK'
  BY <1>1 DEF PosOK, Ending
<1>FreshOK. FreshOK'
  BY <1>0, <1>2 DEF FreshOK, Waiting
<1>FileOK. FileOK'
  BY <1>0, <1>1 DEF FileOK, Running
<1>ContentOK. ContentOK'
  <2>1. ASSUME NEW v \in Uploads \ halfEnded, Unshared(v) PROVE Content(v)'
    <3>1. Content(v)
      BY <2>1 DEF ContentOK
    <3> QED
      BY <1>0, <1>1, <1>2, <3>1 DEF Content
  <2> QED
    BY <1>0, <2>1 DEF ContentOK
<1>DoneOK. DoneOK'
  BY <1>0 DEF DoneOK
<1> QED
  BY <1>PosOK, <1>FreshOK, <1>FileOK, <1>AloneOK, <1>ContentOK, <1>DoneOK

\* The copy moves from the list to the child.
LEMMA KeepReceive ==
    ASSUME NoUnlink, IInv, NEW c \in Children, NEW m \in Messages, Receive(c, m), TypeOK', HeldOK', NoGap'
    PROVE  IInv'
<1> USE DEF IInv, TypeOK, HeldOK, Receive, Goto, faultVars
<1>1. /\ m.up \in Uploads /\ Waiting(m.up)
      /\ queue'[m] = queue[m] - 1 /\ \A x \in Messages : x # m => queue'[x] = queue[x]
      /\ \A x \in Messages : queue[x] \in Nat /\ queue'[x] \in Nat
  BY DEF Messages, Waiting
<1>2. \A v \in Uploads, d \in Children :
         /\ Holds(d, v)' <=> Holds(d, v) \/ (d = c /\ v = m.up)
         /\ Hot(d, v)' <=> Hot(d, v) \/ (d = c /\ v = m.up)
         /\ pc'[d] \in Saving \cup {"lost"} => d # c
         /\ d # c => pc'[d] = pc[d]
  BY DEF Holds, Hot, Active, Running, Saving
<1>3. ASSUME NEW v \in Uploads \ halfEnded, Live(v)' PROVE Alone(v)'
  <2>1. Live(v)
    BY <1>2, <1>3 DEF Live, Saving
  <2>2. Alone(v)
    BY <2>1 DEF AloneOK
  <2>3. CASE v # m.up
    <3>1. /\ \A d \in Children : Hot(d, v)' => Hot(d, v)
          /\ \A d \in Children : Holds(d, v)' /\ pc'[d] = "lost" => Holds(d, v) /\ pc[d] = "lost"
          /\ \A x \in Messages : x.up = v => queue'[x] = queue[x]
          /\ outcome'[v] = outcome[v]
      BY <1>1, <1>2, <2>3
    <3> QED
      BY <2>2, <3>1, AloneShrinks
  <2>4. CASE v = m.up
    <3>1. /\ \A d \in Children : ~Hot(d, v)
          /\ queue[m] = 1 /\ \A x \in Messages : x.up = v /\ queue[x] > 0 => x = m
          /\ outcome[v] = "PENDING" /\ \A d \in Children : Holds(d, v) => pc[d] # "lost"
      BY <1>1, <2>2, <2>4 DEF Alone
    <3>2. \A x \in Messages : x.up = v => queue'[x] = 0
      BY <1>1, <2>4, <3>1
    <3>3. /\ \A d \in Children : Hot(d, v)' => d = c
          /\ \A d \in Children : Holds(d, v)' => pc'[d] # "lost"
          /\ outcome'[v] = "PENDING"
      BY <1>2, <3>1
    <3> QED
      BY <3>2, <3>3 DEF Alone
  <2> QED
    BY <2>3, <2>4
<1>AloneOK. AloneOK'
  BY <1>3 DEF AloneOK
<1>PosOK. PosOK'
  BY DEF PosOK, Ending
<1>FreshOK. FreshOK'
  BY <1>1, <1>2 DEF FreshOK, Waiting
<1>FileOK. FileOK'
  BY DEF FileOK, Running
<1>ContentOK. ContentOK'
  BY <1>2 DEF ContentOK, Content
<1>DoneOK. DoneOK'
  BY DEF DoneOK
<1> QED
  BY <1>PosOK, <1>FreshOK, <1>FileOK, <1>AloneOK, <1>ContentOK, <1>DoneOK

\* Each message of the dead container is back in its list, once; where a
\* delivery had a state and could run again, it ended by halves.
LEMMA KeepWorkerCrash ==
    ASSUME NoUnlink, IInv, NEW q \in Queues, WorkerCrash(q), TypeOK', HeldOK', NoGap'
    PROVE  IInv'
<1> USE DEF IInv, TypeOK, HeldOK, WorkerCrash
<1>0. halfEnded \subseteq halfEnded'
  BY DEF HalfEnds
<1>1. \A v \in Uploads, d \in Children :
         /\ Holds(d, v)' <=> Holds(d, v) /\ Serves[d] # q
         /\ Hot(d, v)' <=> Hot(d, v) /\ Serves[d] # q
         /\ pc'[d] # "idle" => pc'[d] = pc[d]
  BY DEF Holds, Hot, Active, Running
<1>2. \A x \in Messages : queue'[x] = queue[x] + Cardinality(Holders(q, x)) /\ queue[x] \in Nat
  OBVIOUS
<1>4. ASSUME NEW x \in Messages, Holders(q, x) = {} PROVE queue'[x] = queue[x]
  <2>1. queue'[x] = queue[x] + 0 /\ queue[x] \in Nat
    BY <1>2, <1>4, FS_EmptySet
  <2> QED
    BY ONLY <2>1
<1>5. ASSUME NEW x \in Messages, NEW d \in Children, Holders(q, x) = {d} PROVE queue'[x] = queue[x] + 1
  BY <1>2, <1>5, FS_Singleton
<1>6. ASSUME NEW v \in Uploads, \A d \in Children : ~Holds(d, v)
      PROVE  \A x \in Messages : x.up = v => queue'[x] = queue[x]
  <2>1. ASSUME NEW x \in Messages, x.up = v PROVE Holders(q, x) = {}
    BY <1>6, <2>1 DEF Holders, Holds
  <2> QED
    BY <1>4, <2>1
<1>7. FreshOK'
  BY <1>1, <1>6 DEF FreshOK, Waiting
<1>8. ASSUME NEW v \in Uploads \ halfEnded', Live(v)' PROVE Alone(v)'
  <2>1. Live(v)
    BY <1>1, <1>8 DEF Live
  <2>2. Alone(v)
    BY <1>0, <1>8, <2>1 DEF AloneOK
  <2>3. ASSUME NEW d \in Children, Serves[d] = q, Holds(d, v), pc[d] # "lost" PROVE Hot(d, v)
    <3>1. pc[d] \notin {"acking", "killed"}
      BY <1>8, <2>1, <2>3 DEF HalfEnds
    <3> QED
      BY <2>3, <3>1 DEF Hot, Holds, Steps, Ending
  <2>4. \A d \in Children : Holds(d, v)' /\ pc'[d] = "lost" => Holds(d, v) /\ pc[d] = "lost"
    BY <1>1
  <2>5. CASE \A d \in Children : Serves[d] = q => ~Hot(d, v)
    <3>1. ASSUME NEW x \in Messages, x.up = v PROVE queue'[x] = queue[x]
      <4>1. Holders(q, x) = {}
        BY <2>3, <2>5, <3>1 DEF Holders, Holds
      <4> QED
        BY <1>4, <4>1
    <3> QED
      BY <1>1, <2>2, <2>4, <3>1, AloneShrinks
  <2>6. ASSUME NEW d \in Children, Serves[d] = q, Hot(d, v) PROVE Alone(v)'
    <3>1. /\ \A e \in Children : Hot(e, v) => e = d
          /\ \A x \in Messages : x.up = v => queue[x] = 0
          /\ outcome[v] = "PENDING"
          /\ \A e \in Children : Holds(e, v) => pc[e] # "lost"
      BY <2>2, <2>6, OnlyHot
    <3>2. held[d] \in Messages /\ held[d].up = v
      BY <2>6 DEF Hot, Holds
    <3>3. ASSUME NEW x \in Messages, x.up = v, x # held[d] PROVE queue'[x] = 0
      <4>1. Holders(q, x) = {}
        BY <2>3, <3>1, <3>3 DEF Holders, Holds
      <4> QED
        BY <1>4, <3>1, <3>3, <4>1
    <3>4. queue'[held[d]] = 1
      <4>1. Holders(q, held[d]) = {d}
        BY <2>3, <2>6, <3>1, <3>2 DEF Holders, Holds, Hot, Active, Running
      <4> QED
        BY <1>5, <3>1, <3>2, <4>1
    <3>5. \A e \in Children : ~Hot(e, v)'
      BY <1>1, <2>6, <3>1
    <3>6. /\ \A x, y \in Messages :
               x.up = v /\ y.up = v /\ queue'[x] > 0 /\ queue'[y] > 0 => x = y /\ queue'[x] = 1
          /\ outcome'[v] = "PENDING"
          /\ \A e \in Children : Holds(e, v)' => pc'[e] # "lost"
      BY <2>4, <3>1, <3>2, <3>3, <3>4
    <3> QED
      BY <3>5, <3>6 DEF Alone
  <2> QED
    BY <2>5, <2>6
<1>9. AloneOK'
  BY <1>8 DEF AloneOK
<1>PosOK. PosOK'
  BY DEF PosOK, Ending
<1>FileOK. FileOK'
  BY <1>0 DEF FileOK, Running
<1>ContentOK. ContentOK'
  BY <1>0 DEF ContentOK, Content, Holds
<1>DoneOK. DoneOK'
  BY <1>0 DEF DoneOK
<1> QED
  BY <1>7, <1>9, <1>PosOK, <1>FileOK, <1>ContentOK, <1>DoneOK

\* Every step keeps the invariant.
LEMMA IInvStep == NoUnlink /\ IInv /\ [Next]_vars => IInv'
<1> SUFFICES ASSUME NoUnlink, IInv, [Next]_vars PROVE IInv'
  OBVIOUS
<1>1. TypeOK' /\ HeldOK' /\ NoGap'
  BY TypeStep, GapStep DEF IInv, Typed
<1>2. CASE UNCHANGED vars
  BY <1>2 DEF vars, IInv, TypeOK, HeldOK, PosOK, FreshOK, FileOK, AloneOK, Alone, Live,
              Hot, NoGap, Copy, ContentOK, Content, DoneOK, Waiting, Holds
<1>3. ASSUME NEW u \in Uploads, ApiStep(u) PROVE IInv'
  BY <1>1, <1>3, KeepHandler, KeepOpenUpload, KeepPublish, KeepPublishFails DEF ApiStep
<1>4. CASE ApiCrash
  BY <1>1, <1>4, KeepHandler DEF ApiCrash, LoopFree
<1>5. ASSUME NEW c \in Children, ChildStep(c) \/ HardLimit(c) \/ ChildLost(c) PROVE IInv'
  BY <1>1, <1>5, KeepCheckExists, KeepWork, KeepCleanup, KeepOpenResult, KeepWriteResult, KeepSucceed,
     KeepRetry, KeepSoftLimit, KeepRelease, KeepHardLimit, KeepChildLost DEF ChildStep
<1>6. ASSUME NEW c \in Children, NEW m \in Messages, Receive(c, m) PROVE IInv'
  BY <1>1, <1>6, KeepReceive
<1>7. ASSUME NEW q \in Queues, WorkerCrash(q) PROVE IInv'
  BY <1>1, <1>7, KeepWorkerCrash
<1> QED
  BY <1>2, <1>3, <1>4, <1>5, <1>6, <1>7 DEF Next

\* The inductive invariant holds throughout, whatever is redelivered, retried,
\* killed or crashes, as long as no unlink fails.
THEOREM Invariance ==
    ASSUME NoUnlink
    PROVE  Spec => []IInv
BY NoUnlink, IInvInit, IInvStep, PTL DEF Spec

-----------------------------------------------------------------------------
(***************************************************************************)
(* The safety properties, for every value of the constants.                *)
(***************************************************************************)

\* The body of one task never runs twice at the same time.
THEOREM OneRunnerHolds ==
    ASSUME NoUnlink
    PROVE  Spec => []OneRunner
<1>1. IInv => OneRunner
  <2> SUFFICES ASSUME IInv, NEW c \in Children, NEW d \in Children,
                      pc[c] \in Running, pc[d] \in Running, held[c].up = held[d].up,
                      held[c].up \notin halfEnded
               PROVE  c = d
    BY DEF OneRunner
  <2> DEFINE u == held[c].up
  <2>1. u \in Uploads /\ Hot(c, u) /\ Hot(d, u)
    BY DEF IInv, HeldOK, Active, Running, Messages, Hot, Holds
  <2>2. Live(u)
    BY <2>1 DEF IInv, FileOK, Live, Running, Hot
  <2> QED
    BY <2>1, <2>2 DEF IInv, AloneOK, Alone
<1> QED
  BY <1>1, Invariance, NoUnlink, PTL

\* SUCCESS means a deleted upload and, with a result file of its own, a
\* complete result, from then on.
THEOREM SuccessIsDurableHolds ==
    ASSUME NoUnlink
    PROVE  Spec => []SuccessIsDurable
<1>1. IInv => SuccessIsDurable
  BY DEF IInv, DoneOK, ContentOK, Content, SuccessIsDurable
<1> QED
  BY <1>1, Invariance, NoUnlink, PTL

\* No task is ended from outside, and every exists() gives an answer.
NoKill == Faults \cap {"timeout", "hardlimit", "oom", "stat"} = {}

\* No delivery ends by halves; a task with a final state has no upload any
\* more, and one that waits for an acknowledgement cannot run again.
EndedOK ==
    /\ halfEnded = {}
    /\ \A u \in Uploads : outcome[u] \in Final => u \notin files
    /\ \A c \in Children :
         /\ pc[c] \notin {"killed", "lost"}
         /\ pc[c] = "acking" => ~Live(held[c].up)

\* Only a task whose upload is gone, and that nobody else runs, gets a final
\* state or a retry.
LEMMA EndedChild ==
    ASSUME NoUnlink, NoKill, IInv, EndedOK, NEW c \in Children, ChildStep(c)
    PROVE  EndedOK'
<1> DEFINE w == held[c].up
<1>0. /\ pc[c] # "idle" /\ held[c] \in Messages /\ w \in Uploads /\ Holds(c, w)
      /\ ~ExistsFails(c) /\ ~SoftLimit(c) /\ ~StoreLost(c)
  <2>1. pc[c] # "idle" /\ ~ExistsFails(c) /\ ~SoftLimit(c) /\ ~StoreLost(c)
    BY DEF NoKill, EndedOK, ChildStep, CheckExists, Work, Cleanup, OpenResult, WriteResult,
           Succeed, SaveFails, ExistsFails, SoftLimit, Ack, StoreLost
  <2> QED
    BY <2>1, Busy DEF IInv, Typed
<1>1. halfEnded' = halfEnded /\ files' \subseteq files
  BY <1>0 DEF ChildStep, CheckExists, Work, Cleanup, OpenResult, WriteResult, Succeed,
              SaveFails, Ack, faultVars
<1>2. ASSUME UNCHANGED <<files, held>>, NEW t \in Running, Goto(c, t), pc[c] \in Active,
             t \in Saving => pc[c] \in Saving, UNCHANGED outcome
      PROVE  EndedOK'
  <2>1. \A d \in Children : pc'[d] = IF d = c THEN t ELSE pc[d]
    BY <1>2 DEF IInv, TypeOK, Goto
  <2>2. \A v \in Uploads : Live(v)' => Live(v)
    BY <1>2, <2>1 DEF Live, Holds, Saving
  <2> QED
    BY <1>0, <1>1, <1>2, <2>1, <2>2 DEF EndedOK, Running, IInv, HeldOK, Messages
<1>3. ASSUME Goto(c, "acking"), pc[c] \in Active, UNCHANGED held, w \notin files',
             \A v \in Uploads : v # w => outcome'[v] = outcome[v]
      PROVE  EndedOK'
  <2>1. /\ pc'[c] = "acking" /\ \A d \in Children : d # c => pc'[d] = pc[d]
        /\ \A v \in Uploads, d \in Children : Holds(d, v)' <=> Holds(d, v)
    BY <1>3 DEF IInv, TypeOK, Goto, Holds, Active, Running
  <2>2. \A v \in Uploads : Live(v)' => Live(v)
    BY <1>1, <2>1 DEF Live
  <2>3. ~Live(w)'
    <3> SUFFICES ASSUME NEW d \in Children, Holds(d, w)', pc'[d] \in Saving PROVE FALSE
      BY <1>3 DEF Live, Saving
    <3>1. d # c /\ Holds(d, w) /\ pc[d] \in Saving
      BY <1>0, <1>3, <2>1 DEF Saving
    <3>2. Hot(c, w) /\ Hot(d, w) /\ Live(w)
      BY <1>0, <1>3, <3>1 DEF Hot, Live, Active, Running, Saving
    <3> QED
      BY <1>0, <3>1, <3>2 DEF EndedOK, IInv, AloneOK, Alone
  <2>4. \A u \in Uploads : outcome'[u] \in Final => u \notin files'
    <3> SUFFICES ASSUME NEW u \in Uploads, outcome'[u] \in Final PROVE u \notin files'
      OBVIOUS
    <3>1. CASE u = w
      BY <1>3, <3>1
    <3>2. CASE u # w
      BY <1>1, <1>3, <3>2 DEF EndedOK
    <3> QED
      BY <3>1, <3>2
  <2>5. \A d \in Children : pc'[d] = "acking" => ~Live(held[d].up)'
    <3> SUFFICES ASSUME NEW d \in Children, pc'[d] = "acking" PROVE ~Live(held[d].up)'
      OBVIOUS
    <3>1. CASE d = c
      BY <2>3, <3>1
    <3>2. CASE d # c
      <4>1. pc[d] = "acking" /\ held[d].up \in Uploads
        BY <2>1, <3>2 DEF IInv, HeldOK, Messages
      <4> QED
        BY <1>3, <2>2, <4>1 DEF EndedOK
    <3> QED
      BY <3>1, <3>2
  <2>6. \A d \in Children : pc'[d] \notin {"killed", "lost"}
    BY <2>1 DEF EndedOK
  <2> QED
    BY <1>1, <1>3, <2>4, <2>5, <2>6 DEF EndedOK
<1>4. CASE CheckExists(c)
  BY <1>0, <1>2, <1>3, <1>4 DEF CheckExists, Record, Active, Running, Saving, IInv, TypeOK
<1>5. CASE Work(c) \/ OpenResult(c)
  BY <1>2, <1>5 DEF Work, OpenResult, Active, Running, Saving
<1>6. CASE WriteResult(c)
  BY <1>6 DEF WriteResult, EndedOK, Live, Holds, faultVars
<1>7. CASE Cleanup(c)
  <2>1. files' = files \ {w}
    BY <1>7 DEF Cleanup, NoUnlink
  <2>2. CASE pc[c] = "cleanFail"
    BY <1>0, <1>3, <1>7, <2>1, <2>2 DEF Cleanup, Record, Active, Running, IInv, TypeOK
  <2>3. CASE pc[c] = "cleanOk"
    <3>1. UNCHANGED <<held, outcome>> /\ \A d \in Children : pc'[d] = IF d = c THEN "saving" ELSE pc[d]
      BY <1>7, <2>3 DEF Cleanup, Goto, IInv, TypeOK
    <3>2. Live(w)
      BY <1>0, <2>3 DEF Live, EndedOK, IInv, FileOK, Running
    <3>3. \A v \in Uploads : Live(v)' => Live(v)
      BY <1>1, <3>1, <3>2 DEF Live, Holds
    <3> QED
      BY <1>1, <3>1, <3>3 DEF EndedOK, IInv, HeldOK, Messages
  <2> QED
    BY <1>7, <2>2, <2>3 DEF Cleanup
<1>8. CASE Succeed(c) \/ SaveFails(c)
  <2>1. pc[c] \in Saving /\ files' = files /\ w \notin files
    BY <1>0, <1>8 DEF Succeed, SaveFails, Saving, IInv, FileOK, EndedOK, Running
  <2>2. \A v \in Uploads : v # w => outcome'[v] = outcome[v]
    <3>1. CASE Succeed(c)
      BY <3>1 DEF Succeed, Record, IInv, TypeOK
    <3>2. CASE SaveFails(c)
      BY <1>0, <3>2, Retried DEF SaveFails, IInv, Typed
    <3> QED
      BY <1>8, <3>1, <3>2
  <2> QED
    BY <1>3, <1>8, <2>1, <2>2 DEF Succeed, SaveFails, Active, Running, Saving
<1>9. CASE Ack(c)
  <2>1. UNCHANGED <<files, outcome>> /\ Release(c)
    BY <1>9 DEF Ack
  <2>2. \A d \in Children : /\ pc'[d] # "idle" => pc'[d] = pc[d] /\ held'[d] = held[d]
    BY <2>1 DEF Release, Goto, IInv, TypeOK
  <2>3. \A v \in Uploads : Live(v)' => Live(v)
    BY <2>1, <2>2 DEF Live, Holds
  <2> QED
    BY <1>1, <2>1, <2>2, <2>3 DEF EndedOK, IInv, HeldOK, Messages
<1> QED
  BY <1>0, <1>4, <1>5, <1>6, <1>7, <1>8, <1>9 DEF ChildStep

\* The other steps keep it, too: a fresh upload has no task, and a dead
\* container has no delivery that could run again.
LEMMA KeepEnded ==
    ASSUME NoUnlink, NoKill, IInv, EndedOK, [Next]_vars
    PROVE  EndedOK'
<1>1. ASSUME UNCHANGED <<outcome, pc, held, halfEnded>>, files' \subseteq files PROVE EndedOK'
  BY <1>1 DEF EndedOK, Live, Holds
<1>2. ASSUME NEW u \in Uploads, OpenUpload(u) PROVE EndedOK'
  <2>1. /\ outcome[u] = "PENDING" /\ \A c \in Children : ~Holds(c, u)
        /\ UNCHANGED <<outcome, pc, held, halfEnded>> /\ files' = files \cup {u}
    BY <1>2 DEF OpenUpload, IInv, FreshOK, childVars, faultVars
  <2>2. \A v \in Uploads : v # u => (Live(v)' <=> Live(v))
    BY <2>1 DEF Live, Holds
  <2>3. \A c \in Children : pc[c] = "acking" => held[c].up \in Uploads \ {u}
    BY <2>1 DEF IInv, HeldOK, Messages, Holds
  <2>4. "PENDING" \notin Final
    BY DEF Final, Failures
  <2> QED
    BY <2>1, <2>2, <2>3, <2>4 DEF EndedOK
<1>3. ASSUME NEW u \in Uploads, ApiStep(u) PROVE EndedOK'
  BY <1>1, <1>2, <1>3
  DEF ApiStep, RejectFormat, RejectDisk, FinishUpload, RejectSize, UploadFails,
      Publish, PublishFails, Reply, childVars, faultVars
<1>4. CASE ApiCrash \/ UNCHANGED vars
  BY <1>1, <1>4 DEF ApiCrash, vars, childVars, faultVars
<1>5. ASSUME NEW c \in Children, NEW m \in Messages, Receive(c, m) PROVE EndedOK'
  <2>1. /\ UNCHANGED <<files, outcome, halfEnded>>
        /\ \A d \in Children : IF d = c THEN pc'[d] = "received" ELSE pc'[d] = pc[d] /\ held'[d] = held[d]
    BY <1>5 DEF Receive, Goto, IInv, TypeOK, faultVars
  <2>2. \A v \in Uploads : Live(v)' => Live(v)
    BY <2>1 DEF Live, Holds
  <2>3. \A d \in Children : pc'[d] = "acking" => pc[d] = "acking" /\ held'[d] = held[d] /\ held[d].up \in Uploads
    BY <2>1 DEF IInv, HeldOK, Messages
  <2> QED
    BY <2>1, <2>2, <2>3 DEF EndedOK
<1>6. ASSUME NEW q \in Queues, WorkerCrash(q) PROVE EndedOK'
  <2>1. /\ UNCHANGED <<files, outcome>>
        /\ \A d \in Children : pc'[d] # "idle" => pc'[d] = pc[d] /\ held'[d] = held[d]
    BY <1>6 DEF WorkerCrash, IInv, TypeOK
  <2>2. halfEnded' = {}
    <3>1. \A u \in Uploads, c \in Children :
            Live(u) /\ Holds(c, u) => pc[c] \notin {"acking", "killed"}
      BY DEF EndedOK, Holds
    <3> QED
      BY <1>6, <3>1 DEF WorkerCrash, HalfEnds, EndedOK
  <2>3. \A v \in Uploads : Live(v)' => Live(v)
    BY <2>1 DEF Live, Holds
  <2>4. \A d \in Children : pc[d] = "acking" => held[d].up \in Uploads
    BY DEF IInv, HeldOK, Messages
  <2> QED
    BY <2>1, <2>2, <2>3, <2>4 DEF EndedOK
<1>7. \A c \in Children : ~HardLimit(c) /\ ~ChildLost(c)
  BY DEF HardLimit, ChildLost, NoKill
<1> QED
  BY <1>3, <1>4, <1>5, <1>6, <1>7, EndedChild DEF Next

\* A task that ended leaves no upload behind, whatever is retried or
\* redelivered and whatever the broker, a container or the API process do, as
\* long as nothing but its own code ends a task and stat() and unlink() work.
THEOREM EndedTaskLeavesNoUploadHolds ==
    ASSUME NoUnlink, NoKill
    PROVE  Spec => []EndedTaskLeavesNoUpload
<1>1. Init => EndedOK
  BY DEF Init, EndedOK, Final, Failures
<1>2. IInv /\ EndedOK /\ [Next]_vars => EndedOK'
  BY KeepEnded, NoUnlink, NoKill
<1>3. EndedOK => EndedTaskLeavesNoUpload
  BY DEF EndedOK, EndedTaskLeavesNoUpload
<1> QED
  BY <1>1, <1>2, <1>3, Invariance, NoUnlink, PTL DEF Spec

\* A task that runs its body has no final state yet.
LEMMA RunnerPending ==
    ASSUME IInv, NEW c \in Children, pc[c] \in Running, held[c].up \notin halfEnded
    PROVE  /\ held[c].up \in Uploads /\ Holds(c, held[c].up)
           /\ Live(held[c].up) /\ Alone(held[c].up)
           /\ outcome[held[c].up] = "PENDING"
<1>1. held[c].up \in Uploads /\ Holds(c, held[c].up) /\ Hot(c, held[c].up)
  BY DEF IInv, HeldOK, Active, Running, Messages, Hot, Holds
<1>2. Live(held[c].up)
  BY <1>1 DEF IInv, FileOK, Live, Running
<1> QED
  BY <1>1, <1>2 DEF IInv, AloneOK, Alone

\* The deliveries that ended by halves stay on record.
LEMMA HalfEndedGrows ==
    ASSUME [Next]_vars
    PROVE  halfEnded \subseteq halfEnded' /\ unstored \subseteq unstored'
BY DEF Next, vars, ApiStep, RejectFormat, RejectDisk, OpenUpload, FinishUpload, RejectSize,
   UploadFails, Publish, PublishFails, Reply, ApiCrash, ChildStep, CheckExists, ExistsFails,
   Work, Cleanup, OpenResult, WriteResult, Succeed, SaveFails, SoftLimit, Ack, StoreLost,
   HardLimit, ChildLost, Receive, WorkerCrash, HalfEnds, faultVars

\* What a child or its parent may do to the states of the tasks: nothing, or
\* give its own task a final state.
LEMMA OutcomeChild ==
    ASSUME Typed, NEW c \in Children, ChildStep(c) \/ HardLimit(c) \/ ChildLost(c)
    PROVE  /\ held[c] \in Messages /\ held[c].up \in Uploads /\ Holds(c, held[c].up)
           /\ \/ outcome' = outcome
              \/ Succeed(c) /\ Record(held[c].up, "SUCCESS")
              \/ \E s \in Failures : Record(held[c].up, s)
<1>1. pc[c] # "idle"
  BY DEF ChildStep, CheckExists, ExistsFails, Work, Cleanup, OpenResult, WriteResult, Succeed,
         SaveFails, SoftLimit, Ack, StoreLost, HardLimit, ChildLost, Active, Running
<1>2. \/ outcome' = outcome
      \/ Succeed(c) /\ Record(held[c].up, "SUCCESS")
      \/ \E s \in Failures : Record(held[c].up, s)
  BY DEF ChildStep, CheckExists, ExistsFails, RetryOrFail, Work, Cleanup, OpenResult, WriteResult,
         Succeed, SaveFails, SoftLimit, Ack, StoreLost, HardLimit, ChildLost, Failures
<1> QED
  BY <1>1, <1>2, Busy

\* What a step may do to the state of a task in the backend.
LEMMA OutcomeStep ==
    ASSUME IInv, [Next]_vars, NEW u \in Uploads
    PROVE  /\ outcome[u] = "SUCCESS" => outcome'[u] = "SUCCESS"
           /\ outcome[u] \in Failures /\ u \notin halfEnded' => outcome'[u] \in Failures
<1>0. outcome \in [Uploads -> Final \cup {"PENDING"}] /\ Typed /\ "SUCCESS" \notin Failures
  BY DEF IInv, TypeOK, Typed, Failures
<1>1. CASE outcome' = outcome
  BY <1>1
<1>2. ASSUME NEW v \in Uploads, NEW s \in Failures, Record(v, s)
      PROVE  /\ outcome[u] = "SUCCESS" => outcome'[u] = "SUCCESS"
             /\ outcome[u] \in Failures => outcome'[u] \in Failures
  BY <1>0, <1>2 DEF Record
<1>3. ASSUME NEW c \in Children, Succeed(c), Record(held[c].up, "SUCCESS"), held[c].up \in Uploads
      PROVE  /\ outcome[u] = "SUCCESS" => outcome'[u] = "SUCCESS"
             /\ outcome[u] \in Failures /\ u \notin halfEnded' => outcome'[u] \in Failures
  <2>1. u = held[c].up /\ u \notin halfEnded' => outcome[u] = "PENDING"
    BY <1>3, RunnerPending DEF Succeed, Running, faultVars
  <2>2. "PENDING" \notin Failures
    BY DEF Failures
  <2> QED
    BY <1>0, <1>3, <2>1, <2>2 DEF Record
<1>4. ASSUME NEW c \in Children, ChildStep(c) \/ HardLimit(c) \/ ChildLost(c)
      PROVE  /\ outcome[u] = "SUCCESS" => outcome'[u] = "SUCCESS"
             /\ outcome[u] \in Failures /\ u \notin halfEnded' => outcome'[u] \in Failures
  BY <1>0, <1>1, <1>2, <1>3, <1>4, OutcomeChild
<1>5. ASSUME NEW v \in Uploads, ApiStep(v) PROVE outcome' = outcome
  BY <1>5 DEF ApiStep, RejectFormat, RejectDisk, OpenUpload, FinishUpload, RejectSize,
              UploadFails, Publish, PublishFails, Reply
<1>6. UNCHANGED vars \/ ApiCrash \/ (\E c \in Children, m \in Messages : Receive(c, m))
        \/ (\E q \in Queues : WorkerCrash(q)) => outcome' = outcome
  BY DEF vars, ApiCrash, Receive, WorkerCrash
<1> QED
  BY <1>1, <1>4, <1>5, <1>6 DEF Next

\* No client reads SUCCESS after a failure or a failure after SUCCESS, except
\* a SUCCESS of a task whose delivery ended by halves.
THEOREM OutcomeIsFinalHolds ==
    ASSUME NoUnlink
    PROVE  Spec => OutcomeIsFinal
<1> DEFINE A == \A u \in Uploads :
                  /\ outcome[u] = "SUCCESS" => outcome'[u] = "SUCCESS"
                  /\ outcome[u] \in Failures /\ u \notin halfEnded' => outcome'[u] \in Failures
<1>1. IInv /\ [Next]_vars => [A]_vars
  BY OutcomeStep
<1> QED
  BY <1>1, Invariance, NoUnlink, PTL DEF Spec, OutcomeIsFinal


-----------------------------------------------------------------------------
(***************************************************************************)
(* The detailed system implements TaskContract.                            *)
(***************************************************************************)

\* Nothing is promised of such a task any more.
Torn(u) == u \in halfEnded \cup unstored

\* In reachable states a task is pending exactly when it has no final state
\* and a copy that is not merely waiting to be acknowledged.
LEMMA StatusByCopy ==
    ASSUME IInv, NEW u \in Uploads
    PROVE  ClientStatus(u) = IF Torn(u) THEN "torn"
                             ELSE IF outcome[u] = "SUCCESS" THEN "SUCCESS"
                             ELSE IF outcome[u] \in Failures THEN "FAILURE"
                             ELSE IF Copy(u) THEN "pending" ELSE "absent"
<1>1. outcome[u] \in Failures \cup {"SUCCESS", "PENDING"} /\ "SUCCESS" \notin Failures /\ "PENDING" \notin Failures
  BY DEF IInv, TypeOK, Final, Failures
<1>2. outcome[u] = "PENDING" /\ ~Torn(u) =>
        (Copy(u) <=> Waiting(u) \/ \E c \in Children : Holds(c, u))
  BY DEF IInv, NoGap, Copy, Torn
<1> QED
  BY <1>1, <1>2 DEF ClientStatus, Torn

\* The same in the state after a step.
LEMMA StatusByCopyNext ==
    ASSUME IInv', NEW u \in Uploads
    PROVE  ClientStatus(u)' = IF Torn(u)' THEN "torn"
                              ELSE IF outcome'[u] = "SUCCESS" THEN "SUCCESS"
                              ELSE IF outcome'[u] \in Failures THEN "FAILURE"
                              ELSE IF Copy(u)' THEN "pending" ELSE "absent"
<1>1. outcome'[u] \in Failures \cup {"SUCCESS", "PENDING"} /\ "SUCCESS" \notin Failures /\ "PENDING" \notin Failures
  BY DEF IInv, TypeOK, Final, Failures
<1>2. outcome'[u] = "PENDING" /\ ~Torn(u)' =>
        (Copy(u)' <=> Waiting(u)' \/ \E c \in Children : Holds(c, u)')
  BY DEF IInv, NoGap, Copy, Torn
<1> QED
  BY <1>1, <1>2 DEF ClientStatus, Torn

\* What a client sees of task v, and whether its result is complete.
SameView(v) ==
    /\ Torn(v)' <=> Torn(v)
    /\ outcome'[v] = outcome[v]
    /\ ~Torn(v) /\ outcome[v] = "PENDING" => (Copy(v)' <=> Copy(v))
    /\ Unshared(v) => results'[KeyOf[v]] = results[KeyOf[v]]

\* The step touches the client's view of no task but w.
OnlyTask(w) == \A v \in Uploads : v # w => SameView(v)

\* A step that touches neither the outcome nor the copies of a task leaves
\* the status its client sees.
LEMMA SameViewStatus ==
    ASSUME IInv, IInv', NEW v \in Uploads, SameView(v)
    PROVE  ClientStatus(v)' = ClientStatus(v)
<1>1. ClientStatus(v)' = IF Torn(v)' THEN "torn"
                         ELSE IF outcome'[v] = "SUCCESS" THEN "SUCCESS"
                         ELSE IF outcome'[v] \in Failures THEN "FAILURE"
                         ELSE IF Copy(v)' THEN "pending" ELSE "absent"
  BY StatusByCopyNext
<1>2. outcome[v] \in Failures \cup {"SUCCESS", "PENDING"}
  BY DEF IInv, TypeOK, Final
<1> QED
  BY <1>1, <1>2, StatusByCopy DEF SameView

\* Steps of the API process.
LEMMA ViewApi ==
    ASSUME IInv, IInv', NEW u \in Uploads, ApiStep(u)
    PROVE  /\ OnlyTask(u)
           /\ UNCHANGED <<outcome, results, halfEnded, unstored>>
           /\ Copy(u) => Copy(u)'
<1> USE DEF IInv, TypeOK
<1>1. UNCHANGED <<outcome, results, pc, held, halfEnded, unstored>>
  BY DEF ApiStep, RejectFormat, RejectDisk, OpenUpload, FinishUpload, RejectSize,
         UploadFails, Publish, PublishFails, Reply, childVars, faultVars
<1>2. queue' = queue \/ queue' = [queue EXCEPT ![FirstTry(u)] = @ + 1]
  BY DEF ApiStep, RejectFormat, RejectDisk, OpenUpload, FinishUpload, RejectSize,
         UploadFails, Publish, PublishFails, Reply, Enqueue
<1>3. FirstTry(u) \in Messages /\ FirstTry(u).up = u
  BY ShapeAssumption DEF FirstTry, Messages
<1>4. \A v \in Uploads : v # u => (Waiting(v)' <=> Waiting(v))
  BY <1>2, <1>3 DEF Waiting
<1>5. Waiting(u) => Waiting(u)'
  BY <1>2, <1>3 DEF Waiting
<1>6. \A v \in Uploads, c \in Children : Holds(c, v)' <=> Holds(c, v)
  BY <1>1 DEF Holds
<1>7. \A v \in Uploads : v # u => (Copy(v)' <=> Copy(v))
  BY <1>1, <1>4, <1>6 DEF Copy
<1>8. Copy(u) => Copy(u)'
  BY <1>1, <1>5, <1>6 DEF Copy
<1> QED
  BY <1>1, <1>7, <1>8 DEF OnlyTask, SameView, Torn

\* Steps of a child or its parent touch the task whose message it has.
LEMMA ViewChild ==
    ASSUME IInv, NEW c \in Children, ChildStep(c) \/ HardLimit(c) \/ ChildLost(c)
    PROVE  OnlyTask(held[c].up)
<1> DEFINE w == held[c].up
<1>0. Typed
  BY DEF IInv, Typed
<1>1. held[c] \in Messages /\ w \in Uploads /\ Holds(c, w)
  BY <1>0, OutcomeChild
<1>2. \A v \in Uploads : v # w => outcome'[v] = outcome[v]
  <2>1. ASSUME NEW f, Record(w, f), NEW v \in Uploads, v # w PROVE outcome'[v] = outcome[v]
    BY <1>0, <1>1, <2>1 DEF Record, Typed, TypeOK
  <2> QED
    BY <1>0, <2>1, OutcomeChild
<1>3. results' = results \/ OpenResult(c) \/ WriteResult(c)
  BY DEF ChildStep, CheckExists, ExistsFails, Work, Cleanup, Succeed, SaveFails, SoftLimit, Ack,
         StoreLost, HardLimit, ChildLost
<1>4. \A v \in Uploads : v # w /\ Unshared(v) => results'[KeyOf[v]] = results[KeyOf[v]]
  <2>1. \A k \in ResultKeys : k # KeyOf[w] => results'[k] = results[k]
    BY <1>0, <1>1, <1>3 DEF OpenResult, WriteResult, Typed, TypeOK
  <2> QED
    BY <1>1, <2>1, ShapeAssumption DEF Unshared
<1>5. \A x \in Messages : x.up # w => queue'[x] = queue[x]
  <2>1. queue' = queue \/ RetryOrFail(held[c])
    BY DEF ChildStep, CheckExists, ExistsFails, Work, Cleanup, OpenResult, WriteResult, Succeed,
           SaveFails, SoftLimit, Ack, StoreLost, HardLimit, ChildLost
  <2> QED
    BY <1>0, <1>1, <2>1, Retried
<1>6. \A v \in Uploads : v # w => (Waiting(v)' <=> Waiting(v))
  BY <1>5 DEF Waiting
<1>7. /\ \A d \in Children : d # c => pc'[d] = pc[d] /\ held'[d] = held[d]
      /\ pc'[c] = "idle" \/ held'[c] = held[c]
  BY <1>0 DEF ChildStep, CheckExists, ExistsFails, Work, Cleanup, OpenResult, WriteResult, Succeed,
         SaveFails, SoftLimit, Ack, StoreLost, HardLimit, ChildLost, Goto, Release, Typed, TypeOK
<1>8. \A v \in Uploads, d \in Children :
         v # w => /\ Holds(d, v)' <=> Holds(d, v)
                  /\ Holds(d, v) => pc'[d] = pc[d]
  BY <1>7 DEF Holds
<1>9. \A v \in Uploads : v # w => (Copy(v)' <=> Copy(v))
  BY <1>6, <1>8 DEF Copy
<1>10. \A v \in Uploads : v # w => (Torn(v)' <=> Torn(v))
  <2>1. UNCHANGED <<halfEnded, unstored>> \/ (HalfEnds({c}) /\ UNCHANGED unstored)
    BY DEF ChildStep, CheckExists, ExistsFails, Work, Cleanup, OpenResult, WriteResult, Succeed,
           SaveFails, SoftLimit, Ack, StoreLost, HardLimit, ChildLost, faultVars
  <2> QED
    BY <2>1 DEF HalfEnds, Holds, Torn
<1> QED
  BY <1>2, <1>4, <1>9, <1>10 DEF OnlyTask, SameView

\* A delivery moves a copy and shows the client nothing.
LEMMA ViewReceive ==
    ASSUME IInv, IInv', NEW c \in Children, NEW m \in Messages, Receive(c, m)
    PROVE  \A v \in Uploads : SameView(v)
<1> USE DEF IInv, TypeOK
<1>1. UNCHANGED <<outcome, results, halfEnded, unstored>>
  BY DEF Receive, faultVars
<1>2. \A d \in Children : d # c => pc'[d] = pc[d] /\ held'[d] = held[d]
  BY DEF Receive, Goto
<1>3. pc[c] = "idle" /\ pc'[c] = "received" /\ held'[c] = m /\ m.up \in Uploads
  BY DEF Receive, Goto, Messages
<1>4. \A x \in Messages : x # m => queue'[x] = queue[x]
  BY DEF Receive
<1>5. queue[m] > 0
  BY DEF Receive
<1>6. ASSUME NEW v \in Uploads PROVE Copy(v)' <=> Copy(v)
  <2>1. CASE v = m.up
    BY <1>3, <1>5, <2>1 DEF Copy, Waiting, Holds
  <2>2. CASE v # m.up
    <3>1. Waiting(v)' <=> Waiting(v)
      BY <1>4, <2>2 DEF Waiting
    <3>2. \A d \in Children : /\ Holds(d, v)' <=> Holds(d, v)
                              /\ Holds(d, v) => pc'[d] = pc[d]
      BY <1>2, <1>3, <2>2 DEF Holds
    <3> QED
      BY <3>1, <3>2 DEF Copy
  <2> QED
    BY <2>1, <2>2
<1> QED
  BY <1>1, <1>6 DEF SameView, Torn

\* The death of a container shows the client of a task nothing, or tears it.
LEMMA ViewCrash ==
    ASSUME IInv, IInv', NEW q \in Queues, WorkerCrash(q)
    PROVE  \A v \in Uploads : (Torn(v)' <=> Torn(v)) => SameView(v)
<1> USE DEF IInv, TypeOK
<1>1. outcome' = outcome /\ results' = results
  BY DEF WorkerCrash
<1>2. ASSUME NEW v \in Uploads, ~Torn(v), outcome[v] = "PENDING", Copy(v)' PROVE Copy(v)
  <2>1. CASE \E c \in Children : Holds(c, v)
    BY <1>2, <2>1 DEF NoGap, Torn
  <2>2. CASE \A c \in Children : ~Holds(c, v)
    <3>1. ASSUME NEW x \in Messages, x.up = v PROVE queue'[x] = queue[x]
      <4>1. Holders(q, x) = {}
        BY <2>2, <3>1 DEF Holders, Holds
      <4>2. Cardinality(Holders(q, x)) = 0
        BY <4>1, FS_EmptySet
      <4> QED
        BY <3>1, <4>2 DEF WorkerCrash
    <3>2. \A c \in Children : ~Holds(c, v)'
      BY <2>2 DEF Holds, WorkerCrash
    <3> QED
      BY <1>2, <3>1, <3>2 DEF Copy, Waiting
  <2> QED
    BY <2>1, <2>2
<1>3. ASSUME NEW v \in Uploads, ~Torn(v)', outcome[v] = "PENDING", Copy(v) PROVE Copy(v)'
  <2>1. \A x \in Messages : queue'[x] >= queue[x]
    BY HoldersCount DEF WorkerCrash
  <2>2. CASE Waiting(v)
    BY <2>1, <2>2 DEF Copy, Waiting
  <2>3. ASSUME NEW d \in Children, Holds(d, v), pc[d] \notin {"acking", "killed"} PROVE Copy(v)'
    <3>1. CASE Serves[d] # q
      BY <2>3, <3>1 DEF Copy, Holds, WorkerCrash
    <3>2. CASE Serves[d] = q
      <4>0. pc[d] # "lost"
        BY <1>3, <2>3, <3>2 DEF WorkerCrash, Torn, Holds
      <4>1. held[d] \in Messages /\ held[d].up = v /\ d \in Holders(q, held[d])
        BY <2>3, <3>2, <4>0 DEF Holds, Holders, HeldOK
      <4>2. Cardinality(Holders(q, held[d])) \in Nat \ {0}
        BY <4>1, HoldersCount, FS_EmptySet
      <4>3. queue'[held[d]] > 0
        BY <4>1, <4>2 DEF WorkerCrash
      <4> QED
        BY <4>1, <4>3 DEF Copy, Waiting
    <3> QED
      BY <3>1, <3>2
  <2> QED
    BY <1>3, <2>2, <2>3 DEF Copy
<1> QED
  BY <1>1, <1>2, <1>3 DEF SameView

\* A complete result of its own stays one in the eyes of the client.
LEMMA SameSaved ==
    ASSUME NEW v \in Uploads, SameView(v)
    PROVE  v \in SavedResults' <=> v \in SavedResults
BY DEF SameView, SavedResults, OwnResult, Unshared, Whole, Torn

\* The client's view after a step that touches only task w.
LEMMA ViewUpdate ==
    ASSUME IInv, IInv', NEW w \in Uploads, OnlyTask(w)
    PROVE  /\ ClientView' = [v \in OwnResult |->
                               IF v = w THEN ClientStatus(w)' ELSE ClientView[v]]
           /\ \A v \in OwnResult : v # w => (v \in SavedResults' <=> v \in SavedResults)
<1>1. \A v \in OwnResult : v # w => ClientStatus(v)' = ClientStatus(v)
  BY SameViewStatus DEF OnlyTask, OwnResult
<1>2. OwnResult' = OwnResult
  BY DEF OwnResult, Unshared
<1>3. ClientView' = [v \in OwnResult |->
                       IF v = w THEN ClientStatus(w)' ELSE ClientView[v]]
  BY <1>1, <1>2 DEF ClientView
<1> QED
  BY <1>3, SameSaved DEF OnlyTask, OwnResult

\* A step that leaves the view of w as it is, too, is a stutter.
LEMMA ViewStutter ==
    ASSUME IInv, IInv', NEW w \in Uploads, OnlyTask(w),
           w \in OwnResult => /\ ClientStatus(w)' = ClientStatus(w)
                              /\ w \in SavedResults' <=> w \in SavedResults
    PROVE  UNCHANGED <<ClientView, SavedResults>>
<1>1. ClientView' = ClientView
  BY ViewUpdate DEF ClientView
<1>2. SavedResults' \subseteq OwnResult /\ SavedResults \subseteq OwnResult
  BY DEF SavedResults, OwnResult, Unshared
<1>3. SavedResults' = SavedResults
  BY <1>2, ViewUpdate
<1> QED
  BY <1>1, <1>3

\* A step of the API process submits a task or shows the client nothing.
LEMMA ContractApi ==
    ASSUME IInv, IInv', NEW u \in Uploads, ApiStep(u)
    PROVE  [Contract!Next]_(Contract!vars)
<1>1. /\ OnlyTask(u) /\ UNCHANGED <<outcome, results, halfEnded, unstored>>
      /\ Copy(u) => Copy(u)'
  BY ViewApi
<1>2. Whole(u)' = Whole(u) /\ OwnResult' = OwnResult /\ (Torn(u)' <=> Torn(u))
  BY <1>1 DEF Whole, OwnResult, Unshared, Torn
<1>3. u \in SavedResults' <=> u \in SavedResults
  BY <1>1, <1>2 DEF SavedResults
<1>4. CASE ClientStatus(u)' = ClientStatus(u) \/ u \notin OwnResult
  BY <1>1, <1>3, <1>4, ViewStutter DEF Contract!vars
<1>5. CASE ClientStatus(u)' # ClientStatus(u) /\ u \in OwnResult
  <2>1. ClientStatus(u) = "absent" /\ ClientStatus(u)' = "pending"
    BY <1>1, <1>2, <1>5, StatusByCopy, StatusByCopyNext
  <2>2. ClientView' = [ClientView EXCEPT ![u] = "pending"]
    BY <1>1, <2>1, ViewUpdate DEF ClientView
  <2>3. SavedResults' = SavedResults
    BY <1>1, <1>2 DEF SavedResults, Whole
  <2>4. ClientView[u] = "absent"
    BY <1>5, <2>1 DEF ClientView
  <2> QED
    BY <1>5, <2>2, <2>3, <2>4 DEF Contract!Next, Contract!Submit
<1> QED
  BY <1>4, <1>5

\* What a child's step does to the task it has.
LEMMA OwnTask ==
    ASSUME NoUnlink, IInv, IInv', NEW c \in Children, ChildStep(c) \/ HardLimit(c) \/ ChildLost(c),
           NEW w, w = held[c].up
    PROVE  /\ w \in Uploads /\ Holds(c, w)
           /\ outcome'[w] = "PENDING" /\ ~Torn(w)' => Copy(w)'
           /\ Unshared(w) /\ ~Torn(w) => \/ results'[KeyOf[w]] = results[KeyOf[w]]
                                         \/ WriteResult(c)
<1>0. Typed
  BY DEF IInv, Typed
<1>1. pc[c] # "idle" /\ held[c] \in Messages /\ w \in Uploads /\ Holds(c, w)
  BY <1>0, OutcomeChild DEF Holds
<1>2. ASSUME outcome'[w] = "PENDING", ~Torn(w)' PROVE Copy(w)'
  <2>0. ~Torn(w)
    <3>1. [Next]_vars
      BY DEF Next
    <3> QED
      BY <1>2, <3>1, HalfEndedGrows DEF Torn
  <2>1. CASE Ack(c)
    <3>1. Copy(w)
      BY <1>1, <1>2, <2>0, <2>1 DEF Ack, IInv, NoGap, Torn
    <3>2. Waiting(w)' <=> Waiting(w)
      BY <2>1 DEF Ack, Waiting
    <3>3. \A d \in Children :
            Holds(d, w) /\ pc[d] \notin {"acking", "killed"} => Holds(d, w)' /\ pc'[d] = pc[d]
      BY <1>0, <2>1 DEF Ack, Release, Goto, Holds, Typed, TypeOK
    <3> QED
      BY <3>1, <3>2, <3>3 DEF Copy
  <2>2. CASE StoreLost(c)
    BY <1>0, <1>1, <1>2, <2>2 DEF StoreLost, Record, Typed, TypeOK
  <2>3. CASE ~Ack(c) /\ ~StoreLost(c)
    <3>1. Holds(c, w)'
      BY <1>0, <1>1, <2>3 DEF ChildStep, CheckExists, ExistsFails, Work, Cleanup, OpenResult,
         WriteResult, Succeed, SaveFails, SoftLimit, HardLimit, ChildLost, Goto, Holds, Typed, TypeOK
    <3> QED
      BY <1>1, <1>2, <3>1 DEF IInv, NoGap, Torn
  <2> QED
    BY <2>1, <2>2, <2>3
<1>3. ASSUME Unshared(w), ~Torn(w), ~WriteResult(c) PROVE results'[KeyOf[w]] = results[KeyOf[w]]
  <2>1. CASE OpenResult(c)
    <3>1. results[KeyOf[w]] = Blank
      BY <1>1, <1>3, <2>1 DEF IInv, ContentOK, Content, OpenResult, Torn
    <3> QED
      BY <1>1, <2>1, <3>1, ShapeAssumption DEF OpenResult, IInv, TypeOK
  <2>2. CASE ~OpenResult(c)
    BY <1>3, <2>2 DEF ChildStep, CheckExists, ExistsFails, Work, Cleanup, Succeed, SaveFails,
       SoftLimit, Ack, StoreLost, HardLimit, ChildLost
  <2> QED
    BY <2>1, <2>2
<1> QED
  BY <1>1, <1>2, <1>3

\* A task whose delivery ends by halves has not succeeded.
LEMMA TornFrom ==
    ASSUME IInv, NEW u \in Uploads, ~Torn(u), NEW c \in Children, Holds(c, u),
           Live(u) \/ outcome[u] = "PENDING"
    PROVE  ClientStatus(u) \in {"pending", "FAILURE"}
<1>1. outcome[u] # "SUCCESS"
  <2>1. ASSUME outcome[u] = "SUCCESS" PROVE FALSE
    <3>1. Live(u) /\ u \notin files /\ u \notin halfEnded
      BY <2>1 DEF IInv, DoneOK, Torn
    <3>2. PICK d \in Children : Hot(d, u)
      BY <3>1, SaverIsHot
    <3>3. Alone(u)
      BY <3>1 DEF IInv, AloneOK
    <3> QED
      BY <2>1, <3>2, <3>3, OnlyHot
  <2> QED
    BY <2>1
<1>2. outcome[u] \in Failures \cup {"PENDING"} /\ "PENDING" \notin Failures
  BY <1>1 DEF IInv, TypeOK, Final, Failures
<1> QED
  BY <1>2 DEF ClientStatus, Torn, Failures

\* A child's step saves, ends or tears its task, or shows the client nothing.
LEMMA ContractChild ==
    ASSUME NoUnlink, IInv, IInv', NEW c \in Children, ChildStep(c) \/ HardLimit(c) \/ ChildLost(c),
           NEW w, w = held[c].up
    PROVE  [Contract!Next]_(Contract!vars)
<1>1. /\ w \in Uploads /\ Holds(c, w)
      /\ outcome'[w] = "PENDING" /\ ~Torn(w)' => Copy(w)'
      /\ Unshared(w) /\ ~Torn(w) => \/ results'[KeyOf[w]] = results[KeyOf[w]]
                                    \/ WriteResult(c)
  BY OwnTask
<1>2. OnlyTask(w)
  BY ViewChild
<1>3. [Next]_vars /\ (Torn(w) => Torn(w)') /\ OwnResult' = OwnResult
  <2>1. [Next]_vars
    BY DEF Next
  <2> QED
    BY <2>1, HalfEndedGrows DEF Torn, OwnResult, Unshared
<1>4. CASE w \notin OwnResult \/ Torn(w)
  <2>1. Torn(w) => ClientStatus(w)' = ClientStatus(w)
    BY <1>1, <1>3, StatusByCopy, StatusByCopyNext
  <2>2. Torn(w) => w \notin SavedResults /\ w \notin SavedResults'
    BY <1>3 DEF SavedResults, Torn
  <2> QED
    BY <1>1, <1>2, <1>4, <2>1, <2>2, ViewStutter DEF Contract!vars
<1>5. CASE w \in OwnResult /\ ~Torn(w) /\ Torn(w)'
  <2>1. Live(w)
    <3>1. HalfEnds({c}) /\ UNCHANGED unstored
      BY <1>5 DEF ChildStep, CheckExists, ExistsFails, Work, Cleanup, OpenResult, WriteResult,
         Succeed, SaveFails, SoftLimit, Ack, StoreLost, HardLimit, ChildLost, faultVars, Torn
    <3> QED
      BY <1>5, <3>1 DEF HalfEnds, Torn
  <2>2. ClientStatus(w) \in {"pending", "FAILURE"} /\ ClientStatus(w)' = "torn"
    BY <1>1, <1>5, <2>1, TornFrom, StatusByCopyNext
  <2>3. ClientView[w] \in {"pending", "FAILURE"}
    BY <1>5, <2>2 DEF ClientView
  <2>4. ClientView' = [v \in OwnResult |-> IF v \in {w} THEN "torn" ELSE ClientView[v]]
    BY <1>1, <1>2, <2>2, ViewUpdate
  <2>5. SavedResults' = SavedResults \ {w}
    <3>1. SavedResults' \subseteq OwnResult /\ SavedResults \subseteq OwnResult /\ w \notin SavedResults'
      BY <1>3, <1>5 DEF SavedResults, Torn
    <3> QED
      BY <1>1, <1>2, <3>1, ViewUpdate
  <2>6. Contract!Tear({w})
    BY <1>5, <2>3, <2>4, <2>5 DEF Contract!Tear
  <2> QED
    BY <1>5, <2>6 DEF Contract!Next
<1>6. CASE w \in OwnResult /\ ~Torn(w)' /\ ~WriteResult(c)
  <2>1. results'[KeyOf[w]] = results[KeyOf[w]] /\ Whole(w)' = Whole(w) /\ ~Torn(w)
    BY <1>1, <1>3, <1>6 DEF OwnResult, Whole
  <2>2. w \in SavedResults' <=> w \in SavedResults
    BY <1>3, <1>6, <2>1 DEF SavedResults, Torn
  <2>3. SavedResults' = SavedResults
    <3>1. SavedResults' \subseteq OwnResult /\ SavedResults \subseteq OwnResult
      BY <1>3 DEF SavedResults
    <3> QED
      BY <1>1, <1>2, <2>2, <3>1, ViewUpdate
  <2>4. CASE ClientStatus(w)' = ClientStatus(w)
    BY <1>1, <1>2, <2>2, <2>4, ViewStutter DEF Contract!vars
  <2>5. CASE ClientStatus(w)' # ClientStatus(w)
    <3>1. w \notin halfEnded'
      BY <1>6 DEF Torn
    <3>2. /\ outcome[w] = "SUCCESS" => outcome'[w] = "SUCCESS"
          /\ outcome[w] \in Failures => outcome'[w] \in Failures
      BY <1>1, <1>3, <3>1, OutcomeStep
    <3>3. /\ outcome[w] \in Failures \cup {"SUCCESS", "PENDING"}
          /\ outcome'[w] \in Failures \cup {"SUCCESS", "PENDING"}
          /\ "SUCCESS" \notin Failures
      BY <1>1 DEF IInv, TypeOK, Final, Failures
    <3>4. outcome[w] = "PENDING"
      BY <1>1, <1>6, <2>1, <2>5, <3>2, <3>3, StatusByCopy, StatusByCopyNext
    <3>5. Copy(w)
      BY <1>1, <2>1, <3>4 DEF IInv, NoGap, Torn
    <3>6. ClientStatus(w) = "pending"
      BY <1>1, <2>1, <3>4, <3>5, StatusByCopy DEF Failures
    <3>7. ClientStatus(w)' \in {"SUCCESS", "FAILURE"}
      BY <1>1, <1>6, <2>5, <3>3, <3>6, StatusByCopyNext
    <3>8. ClientView[w] = "pending" /\ ClientView' = [ClientView EXCEPT ![w] = ClientStatus(w)']
      BY <1>1, <1>2, <1>6, <3>6, ViewUpdate DEF ClientView
    <3>9. CASE ClientStatus(w)' = "FAILURE"
      BY <1>6, <2>3, <3>8, <3>9 DEF Contract!Next, Contract!Fail
    <3>10. CASE ClientStatus(w)' = "SUCCESS"
      <4>1. outcome'[w] = "SUCCESS"
        BY <1>1, <3>10, StatusByCopyNext
      <4>2. results'[KeyOf[w]] = Whole(w)
        BY <1>1, <1>6, <2>1, <3>1, <4>1 DEF IInv, ContentOK, Content, OwnResult, Unshared
      <4>3. w \in SavedResults
        BY <1>6, <2>1, <4>2 DEF SavedResults, Torn
      <4> QED
        BY <1>6, <2>3, <3>8, <3>10, <4>3 DEF Contract!Next, Contract!Succeed
    <3> QED
      BY <3>7, <3>9, <3>10
  <2> QED
    BY <2>4, <2>5
<1>7. CASE w \in OwnResult /\ ~Torn(w) /\ WriteResult(c)
  <2>0. UNCHANGED <<outcome, halfEnded, unstored>> /\ ~Torn(w)'
    BY <1>7 DEF WriteResult, Torn, faultVars
  <2>1. outcome' = outcome /\ pc[c] = "writing" /\ pos[c] <= Size[w]
    BY <1>7 DEF WriteResult
  <2>2. outcome[w] = "PENDING"
    BY <1>7, <2>1, RunnerPending DEF Running, Torn
  <2>3. Copy(w) /\ Copy(w)'
    BY <1>1, <1>7, <2>0, <2>1, <2>2 DEF IInv, NoGap, Torn
  <2>4. ClientStatus(w) = "pending" /\ ClientStatus(w)' = "pending"
    BY <1>1, <1>7, <2>0, <2>1, <2>2, <2>3, StatusByCopy, StatusByCopyNext DEF Failures
  <2>5. results[KeyOf[w]] = Prefix(w, pos[c])
    BY <1>1, <1>7, <2>1 DEF IInv, ContentOK, Content, OwnResult, Torn
  <2>6. pos[c] \in Offsets /\ pos[c] \in Nat
    BY <1>1, <2>1, ShapeAssumption DEF IInv, TypeOK, Offsets
  <2>7. Prefix(w, pos[c])[pos[c]] = None /\ Whole(w)[pos[c]] = w /\ w # None
    BY <1>1, <2>1, <2>6, SetsAssumption DEF Prefix, Whole
  <2>8. w \notin SavedResults
    BY <2>5, <2>7 DEF SavedResults
  <2>9. CASE w \notin SavedResults'
    BY <1>1, <1>2, <2>4, <2>8, <2>9, ViewStutter DEF Contract!vars
  <2>10. CASE w \in SavedResults'
    <3>1. SavedResults' \subseteq OwnResult /\ SavedResults \subseteq OwnResult
      BY DEF SavedResults, OwnResult, Unshared
    <3>2. SavedResults' = SavedResults \cup {w}
      BY <1>1, <1>2, <1>7, <2>10, <3>1, ViewUpdate
    <3>3. ClientView[w] = "pending" /\ ClientView' = ClientView
      BY <1>1, <1>2, <1>7, <2>4, ViewUpdate DEF ClientView
    <3> QED
      BY <1>7, <3>2, <3>3 DEF Contract!Next, Contract!Save
  <2> QED
    BY <2>9, <2>10
<1> QED
  BY <1>3, <1>4, <1>5, <1>6, <1>7

\* The death of a container tears the tasks whose deliveries it halves.
LEMMA ContractCrash ==
    ASSUME NoUnlink, IInv, IInv', NEW q \in Queues, WorkerCrash(q)
    PROVE  [Contract!Next]_(Contract!vars)
<1> DEFINE T == {u \in OwnResult : Torn(u)' /\ ~Torn(u)}
<1>1. /\ \A u \in Uploads : Torn(u) => Torn(u)'
      /\ OwnResult' = OwnResult /\ OwnResult \subseteq Uploads
      /\ SavedResults' \subseteq OwnResult /\ SavedResults \subseteq OwnResult
  BY DEF WorkerCrash, HalfEnds, Torn, OwnResult, Unshared, SavedResults
<1>2. \A u \in OwnResult \ T : SameView(u)
  BY <1>1, ViewCrash
<1>3. \A u \in OwnResult \ T :
         /\ ClientStatus(u)' = ClientStatus(u)
         /\ u \in SavedResults' <=> u \in SavedResults
  BY <1>1, <1>2, SameViewStatus, SameSaved
<1>4. ASSUME NEW u \in T PROVE ClientStatus(u) \in {"pending", "FAILURE"} /\ ClientStatus(u)' = "torn"
  <2>1. \E c \in Children : Holds(c, u) /\ (Live(u) \/ outcome[u] = "PENDING")
    BY DEF WorkerCrash, HalfEnds, Torn, Holds
  <2> QED
    BY <1>1, <2>1, TornFrom, StatusByCopyNext
<1>5. /\ \A u \in T : ClientView[u] \in {"pending", "FAILURE"}
      /\ ClientView' = [u \in OwnResult |-> IF u \in T THEN "torn" ELSE ClientView[u]]
  BY <1>1, <1>3, <1>4 DEF ClientView
<1>6. SavedResults' = SavedResults \ T
  <2>1. \A u \in T : u \notin SavedResults'
    BY DEF SavedResults, Torn
  <2> QED
    BY <1>1, <1>3, <2>1
<1> HIDE DEF T
<1>7. CASE T = {}
  <2>1. ClientView' = ClientView /\ SavedResults' = SavedResults
    BY <1>5, <1>6, <1>7 DEF ClientView
  <2> QED
    BY <2>1 DEF Contract!vars
<1>8. CASE T # {}
  <2>1. Contract!Tear(T)
    BY <1>5, <1>6, <1>8 DEF Contract!Tear
  <2>2. T \in SUBSET OwnResult
    BY DEF T
  <2> QED
    BY <2>1, <2>2 DEF Contract!Next
<1> QED
  BY <1>7, <1>8

\* No task has a status yet, and no result is complete.
LEMMA ContractInit == Init => Contract!Init
<1> SUFFICES ASSUME Init PROVE Contract!Init
  OBVIOUS
<1>1. ASSUME NEW u \in Uploads PROVE ClientStatus(u) = "absent"
  BY DEF Init, ClientStatus, Waiting, Holds, Failures
<1>2. ASSUME NEW u \in Uploads PROVE results[KeyOf[u]] # Whole(u)
  <2>1. 1 \in Offsets /\ Blank[1] = None /\ Whole(u)[1] = u /\ u # None
    BY ShapeAssumption, SetsAssumption DEF Offsets, Blank, Whole
  <2>2. results[KeyOf[u]] = Blank
    BY ShapeAssumption DEF Init
  <2> QED
    BY <2>1, <2>2
<1> QED
  BY <1>1, <1>2 DEF Contract!Init, ClientView, SavedResults, OwnResult

\* Every step of the pipeline is a step of the contract, or none of its.
LEMMA ContractStep ==
    NoUnlink /\ IInv /\ IInv' /\ [Next]_vars => [Contract!Next]_(Contract!vars)
<1> SUFFICES ASSUME NoUnlink, IInv, IInv', [Next]_vars
             PROVE  [Contract!Next]_(Contract!vars)
  OBVIOUS
<1>1. ASSUME \A v \in Uploads : SameView(v) PROVE UNCHANGED <<ClientView, SavedResults>>
  <2>1. \A v \in Uploads : ClientStatus(v)' = ClientStatus(v)
    BY <1>1, SameViewStatus
  <2>2. \A v \in OwnResult : results'[KeyOf[v]] = results[KeyOf[v]]
    BY <1>1 DEF SameView, OwnResult
  <2>3. \A v \in Uploads : Torn(v)' <=> Torn(v)
    BY <1>1 DEF SameView
  <2> QED
    BY <2>1, <2>2, <2>3 DEF ClientView, SavedResults, OwnResult, Unshared, Whole, Torn
<1>2. CASE UNCHANGED vars
  BY <1>1, <1>2 DEF vars, SameView, Copy, Waiting, Holds, Torn, Contract!vars
<1>3. ASSUME NEW u \in Uploads, ApiStep(u) PROVE [Contract!Next]_(Contract!vars)
  BY <1>3, ContractApi
<1>4. CASE ApiCrash
  BY <1>1, <1>4 DEF ApiCrash, childVars, faultVars, SameView, Copy, Waiting, Holds, Torn, Contract!vars
<1>5. ASSUME NEW c \in Children, ChildStep(c) \/ HardLimit(c) \/ ChildLost(c)
      PROVE  [Contract!Next]_(Contract!vars)
  BY <1>5, ContractChild
<1>6. ASSUME NEW c \in Children, NEW m \in Messages, Receive(c, m)
      PROVE  [Contract!Next]_(Contract!vars)
  BY <1>1, <1>6, ViewReceive DEF Contract!vars
<1>7. ASSUME NEW q \in Queues, WorkerCrash(q) PROVE [Contract!Next]_(Contract!vars)
  BY <1>7, ContractCrash
<1> QED
  BY <1>2, <1>3, <1>4, <1>5, <1>6, <1>7 DEF Next

\* Queues, retries, redelivery, killed children, crashes and files together
\* give a client exactly what TaskContract promises; a delivery that ends by
\* halves is what tears a task.
THEOREM ImplementsContractHolds ==
    ASSUME NoUnlink
    PROVE  Spec => ImplementsContract
<1>1. Init => Contract!Init
  BY ContractInit
<1>2. IInv /\ IInv' /\ [Next]_vars => [Contract!Next]_(Contract!vars)
  BY ContractStep, NoUnlink
<1> QED
  BY <1>1, <1>2, Invariance, NoUnlink, PTL DEF Spec, ImplementsContract, Contract!Spec


-----------------------------------------------------------------------------
(***************************************************************************)
(* What is left of the promises that the code does not keep.               *)
(***************************************************************************)

\* No task of u is waiting, running or ended.
NoTask(u) ==
    /\ ~Waiting(u) /\ outcome[u] = "PENDING"
    /\ \A c \in Children : ~Holds(c, u)

\* Only its endpoint brings a task into being.
LEMMA NoTaskStays ==
    ASSUME Typed, [Next]_vars, NEW u \in Uploads, NoTask(u), ~Publish(u), ~PublishFails(u)
    PROVE  NoTask(u)'
<1> USE DEF Typed, TypeOK, HeldOK
<1>1. CASE UNCHANGED <<queue, pc, held, outcome>>
  BY <1>1 DEF NoTask, Waiting, Holds
<1>2. ASSUME NEW v \in Uploads, v # u, Publish(v) \/ PublishFails(v)
      PROVE  NoTask(u)'
  <2>1. FirstTry(v) \in Messages /\ FirstTry(v).up = v
    BY ShapeAssumption DEF FirstTry, Messages
  <2> QED
    BY <1>2, <2>1 DEF Publish, PublishFails, Enqueue, childVars, NoTask, Waiting, Holds
<1>3. ASSUME NEW v \in Uploads, ApiStep(v)
      PROVE  NoTask(u)'
  BY <1>1, <1>2, <1>3
  DEF ApiStep, RejectFormat, RejectDisk, OpenUpload, FinishUpload, RejectSize, UploadFails,
      Reply, childVars
<1>4. CASE ApiCrash
  BY <1>1, <1>4 DEF ApiCrash, childVars
<1>5. ASSUME NEW c \in Children, ChildStep(c) \/ HardLimit(c) \/ ChildLost(c)
      PROVE  NoTask(u)'
  <2>1. held[c] \in Messages /\ held[c].up \in Uploads /\ Holds(c, held[c].up) /\ held[c].up # u
    BY <1>5, OutcomeChild DEF NoTask
  <2>2. outcome'[u] = outcome[u]
    <3>1. ASSUME NEW f, Record(held[c].up, f) PROVE outcome'[u] = outcome[u]
      BY <2>1, <3>1 DEF Record, Typed, TypeOK
    <3> QED
      BY <1>5, <3>1, OutcomeChild
  <2>3. \A d \in Children : pc'[d] = "idle" \/ (pc[d] # "idle" /\ held'[d] = held[d])
    BY <1>5, <2>1
    DEF ChildStep, CheckExists, ExistsFails, Work, Cleanup, OpenResult, WriteResult, Succeed,
        SaveFails, SoftLimit, Ack, StoreLost, HardLimit, ChildLost, Goto, Release, Holds, Typed, TypeOK
  <2>4. \A x \in Messages : x.up = u => queue'[x] = queue[x]
    <3>1. queue' = queue \/ RetryOrFail(held[c])
      BY <1>5 DEF ChildStep, CheckExists, ExistsFails, Work, Cleanup, OpenResult, WriteResult,
         Succeed, SaveFails, SoftLimit, Ack, StoreLost, HardLimit, ChildLost
    <3> QED
      BY <2>1, <3>1, Retried
  <2> QED
    BY <2>2, <2>3, <2>4 DEF NoTask, Waiting, Holds
<1>6. ASSUME NEW c \in Children, NEW m \in Messages, Receive(c, m)
      PROVE  NoTask(u)'
  BY <1>6 DEF Receive, Goto, NoTask, Waiting, Holds
<1>7. ASSUME NEW q \in Queues, WorkerCrash(q)
      PROVE  NoTask(u)'
  <2>1. ASSUME NEW x \in Messages, x.up = u PROVE queue'[x] = queue[x]
    <3>1. Holders(q, x) = {}
      BY <2>1 DEF Holders, Holds, NoTask
    <3>2. queue'[x] = queue[x] + Cardinality(Holders(q, x))
      BY <1>7 DEF WorkerCrash
    <3>3. Cardinality(Holders(q, x)) = 0
      BY <3>1, FS_EmptySet
    <3> QED
      BY <3>2, <3>3
  <2> QED
    BY <1>7, <2>1 DEF WorkerCrash, NoTask, Waiting, Holds
<1> QED
  BY <1>1, <1>3, <1>4, <1>5, <1>6, <1>7 DEF Next, vars

\* A request answered 500 before its task was published; behind an endpoint
\* that does not stat() there is no other.
StatlessOK ==
    \A u \in Uploads :
        \/ request[u] \in {"new", "storing", "stored"}
        \/ QueueOf[u] \in Unstated /\ request[u] = "500"
        => NoTask(u)

\* Behind an endpoint that does not stat() a 500 is no task.  It is the
\* stat() after the publish alone that makes ServerErrorMeansNoTask fail.
NoTaskBehindStatless ==
    \A u \in Uploads :
        QueueOf[u] \in Unstated /\ request[u] = "500" =>
            ~Waiting(u) /\ outcome[u] = "PENDING" /\ \A c \in Children : ~Holds(c, u)

\* Whatever faults: reason_query keeps the promise of its answer 500.
THEOREM NoTaskBehindStatlessHolds == Spec => []NoTaskBehindStatless
<1>1. Init => StatlessOK
  BY DEF Init, StatlessOK, NoTask, Waiting, Holds
<1>2. Typed /\ StatlessOK /\ [Next]_vars => StatlessOK'
  <2> SUFFICES ASSUME Typed, StatlessOK, [Next]_vars, NEW u \in Uploads,
                      \/ request'[u] \in {"new", "storing", "stored"}
                      \/ QueueOf[u] \in Unstated /\ request'[u] = "500"
               PROVE  NoTask(u)'
    BY DEF StatlessOK
  <2>1. request \in [Uploads -> {"new"} \cup InHandler \cup Answers]
    BY DEF Typed, TypeOK
  <2>2. ~Publish(u) /\ ~PublishFails(u)
    BY <2>1 DEF Publish, PublishFails, Answer
  <2>3. \/ request[u] \in {"new", "storing", "stored"}
        \/ QueueOf[u] \in Unstated /\ request[u] = "500"
    <3>1. ASSUME NEW v \in Uploads, ApiStep(v)
          PROVE  \/ request[u] \in {"new", "storing", "stored"}
                 \/ QueueOf[u] \in Unstated /\ request[u] = "500"
      BY <2>1, <3>1
      DEF ApiStep, RejectFormat, RejectDisk, OpenUpload, FinishUpload, RejectSize,
          UploadFails, Publish, PublishFails, Reply, Answer
    <3>2. CASE ApiCrash
      BY <2>1, <3>2 DEF ApiCrash
    <3>3. CASE UNCHANGED request
      BY <3>3
    <3>4. ASSUME NEW c \in Children, ChildStep(c) \/ HardLimit(c) \/ ChildLost(c)
          PROVE  UNCHANGED request
      BY <3>4
      DEF ChildStep, CheckExists, ExistsFails, Work, Cleanup, OpenResult, WriteResult, Succeed,
          SaveFails, SoftLimit, Ack, StoreLost, HardLimit, ChildLost
    <3> QED
      BY <3>1, <3>2, <3>3, <3>4 DEF Next, vars, Receive, WorkerCrash
  <2>4. NoTask(u)
    BY <2>3 DEF StatlessOK
  <2> QED
    BY <2>2, <2>4, NoTaskStays
<1>3. StatlessOK => NoTaskBehindStatless
  BY DEF StatlessOK, NoTask, NoTaskBehindStatless
<1> QED
  BY <1>1, <1>2, <1>3, TypeInit, TypeStep, PTL DEF Spec

\* A retry waits, is held, or is received without its upload, and a result
\* is saved without it.
RetryOK ==
    /\ \A m \in Messages : queue[m] > 0 /\ m.try > 0 => m.up \notin files
    /\ \A c \in Children : pc[c] # "idle" /\ held[c].try > 0 => held[c].up \notin files
    /\ \A c \in Children : pc[c] \in Running => held[c].try = 0
    /\ \A c \in Children : pc[c] \in Saving => held[c].up \notin files

\* A retry never finds its upload and never runs the body of its task: the
\* autoretry of a failed save_result cannot succeed, for the finally block
\* has deleted the upload before.
RetriesAreFutile ==
    /\ \A m \in Messages : queue[m] > 0 /\ m.try > 0 => m.up \notin files
    /\ \A c \in Children : pc[c] \in Running => held[c].try = 0

\* No exists() raises: the one retry that could find its upload is not made.
NoStat == "stat" \notin Faults

\* Every step keeps it.
LEMMA RetryStep ==
    ASSUME NoUnlink, NoStat, IInv, RetryOK, [Next]_vars
    PROVE  RetryOK'
<1> USE DEF IInv, TypeOK, HeldOK
<1>1. CASE UNCHANGED <<queue, childVars>> /\ files' \subseteq files
  BY <1>1 DEF RetryOK, childVars
<1>2. ASSUME NEW u \in Uploads, OpenUpload(u)
      PROVE  RetryOK'
  BY <1>2 DEF OpenUpload, RetryOK, FreshOK, Waiting, Holds, childVars, Messages, Saving
<1>3. ASSUME NEW u \in Uploads, Publish(u) \/ PublishFails(u)
      PROVE  RetryOK'
  <2>1. FirstTry(u) \in Messages /\ FirstTry(u).try = 0
    BY ShapeAssumption DEF FirstTry, Messages
  <2> QED
    BY <1>3, <2>1 DEF Publish, PublishFails, Enqueue, RetryOK, childVars
<1>4. ASSUME NEW u \in Uploads, ApiStep(u)
      PROVE  RetryOK'
  BY <1>1, <1>2, <1>3, <1>4
  DEF ApiStep, RejectFormat, RejectDisk, FinishUpload, RejectSize, UploadFails, Reply
<1>5. ASSUME NEW c \in Children, ChildStep(c) \/ HardLimit(c) \/ ChildLost(c)
      PROVE  RetryOK'
  <2>1. CASE CheckExists(c)
    BY <2>1 DEF CheckExists, Goto, RetryOK, Running, Saving, Messages
  <2>2. CASE Work(c) \/ OpenResult(c) \/ WriteResult(c)
    BY <2>2 DEF Work, OpenResult, WriteResult, Goto, RetryOK, Running, Saving
  <2>3. CASE Cleanup(c)
    BY <2>3 DEF Cleanup, NoUnlink, Goto, RetryOK, Running, Saving
  <2>4. CASE Succeed(c) \/ SoftLimit(c) \/ Ack(c) \/ StoreLost(c)
    BY <2>4 DEF Succeed, SoftLimit, Ack, StoreLost, Goto, Release, RetryOK, Active, Running, Saving
  <2>5. CASE HardLimit(c) \/ ChildLost(c)
    BY <2>5 DEF HardLimit, ChildLost, Goto, RetryOK, Active, Running, Saving
  <2>6. CASE SaveFails(c)
    <3>1. held[c] \in Messages /\ held[c].up \notin files /\ RetryOrFail(held[c])
      BY <2>6 DEF SaveFails, RetryOK, Saving
    <3>2. \A m \in Messages : queue'[m] > 0 /\ m.try > 0 => m.up \notin files
      <4>1. \A m \in Messages : m.up # held[c].up => queue'[m] = queue[m]
        BY <3>1, Retried DEF Typed
      <4> QED
        BY <3>1, <4>1 DEF RetryOK
    <3> QED
      BY <2>6, <3>2 DEF SaveFails, Goto, RetryOK, Running, Saving
  <2>7. ~ExistsFails(c)
    BY DEF ExistsFails, NoStat
  <2> QED
    BY <1>5, <2>1, <2>2, <2>3, <2>4, <2>5, <2>6, <2>7 DEF ChildStep
<1>6. ASSUME NEW c \in Children, NEW m \in Messages, Receive(c, m)
      PROVE  RetryOK'
  BY <1>6 DEF Receive, Goto, RetryOK, Running, Saving
<1>7. ASSUME NEW q \in Queues, WorkerCrash(q)
      PROVE  RetryOK'
  <2>1. ASSUME NEW m \in Messages, queue'[m] > 0, m.try > 0 PROVE m.up \notin files
    <3>1. CASE queue[m] > 0
      BY <2>1, <3>1 DEF RetryOK
    <3>2. CASE ~(queue[m] > 0)
      <4>1. queue'[m] = queue[m] + Cardinality(Holders(q, m))
        BY <1>7 DEF WorkerCrash
      <4>2. Cardinality({}) = 0
        BY FS_EmptySet
      <4>3. queue[m] = 0
        BY <3>2
      <4>4. Holders(q, m) # {}
        <5> SUFFICES ASSUME Holders(q, m) = {} PROVE FALSE
          OBVIOUS
        <5>1. queue'[m] = 0
          BY <4>1, <4>2, <4>3
        <5> QED
          BY <2>1, <5>1
      <4> QED
        BY <2>1, <4>4 DEF RetryOK, Holders
    <3> QED
      BY <3>1, <3>2
  <2> QED
    BY <1>7, <2>1 DEF WorkerCrash, RetryOK, Running, Saving
<1>8. CASE ApiCrash
  BY <1>1, <1>8 DEF ApiCrash
<1> QED
  BY <1>1, <1>4, <1>5, <1>6, <1>7, <1>8 DEF Next, vars, childVars

\* RetryFindsUpload fails at every retry that a failed save_result makes.
THEOREM RetriesAreFutileHolds ==
    ASSUME NoUnlink, NoStat
    PROVE  Spec => []RetriesAreFutile
<1>1. Init => RetryOK
  BY DEF Init, RetryOK, Running
<1>2. IInv /\ RetryOK /\ [Next]_vars => RetryOK'
  BY RetryStep, NoUnlink, NoStat
<1>3. RetryOK => RetriesAreFutile
  BY DEF RetryOK, RetriesAreFutile
<1> QED
  BY <1>1, <1>2, <1>3, Invariance, NoUnlink, PTL DEF Spec

\* The result file of an upload that shares it with no other is a beginning
\* of its result, however runs of the task are interrupted and repeated: only
\* two uploads with one file name mix it, or two runs of a task of which a
\* delivery ended by halves.
OwnResultNotTorn ==
    \A u \in Uploads \ halfEnded :
        Unshared(u) => \E n \in 1..(MaxSize + 1) : results[KeyOf[u]] = Prefix(u, n)

\* A file of its own changes only under the run that is writing it.
LEMMA OwnWriter ==
    ASSUME IInv, [Next]_vars, NEW u \in Uploads, Unshared(u),
           results'[KeyOf[u]] # results[KeyOf[u]]
    PROVE  \E c \in Children : pc'[c] = "writing" /\ Holds(c, u)'
<1> USE DEF IInv, TypeOK, HeldOK
<1>1. PICK c \in Children : OpenResult(c) \/ WriteResult(c)
  BY DEF Next, vars, ApiStep, RejectFormat, RejectDisk, OpenUpload, FinishUpload, RejectSize,
     UploadFails, Publish, PublishFails, Reply, ApiCrash, ChildStep, CheckExists, ExistsFails, Work,
     Cleanup, Succeed, SaveFails, SoftLimit, Ack, StoreLost, HardLimit, ChildLost, Receive, WorkerCrash
<1>2. held[c] \in Messages /\ held[c].up \in Uploads
  BY <1>1 DEF OpenResult, WriteResult, Messages
<1>3. KeyOf[held[c].up] = KeyOf[u]
  BY <1>1, <1>2, ShapeAssumption DEF OpenResult, WriteResult
<1>4. held[c].up = u
  BY <1>2, <1>3 DEF Unshared
<1> QED
  BY <1>1, <1>4 DEF OpenResult, WriteResult, Goto, Holds

\* A result file of its own never mixes two runs.
THEOREM OwnResultNotTornHolds ==
    ASSUME NoUnlink
    PROVE  Spec => []OwnResultNotTorn
<1>1. Init => OwnResultNotTorn
  <2> SUFFICES ASSUME Init, NEW u \in Uploads \ halfEnded
               PROVE  \E n \in 1..(MaxSize + 1) : results[KeyOf[u]] = Prefix(u, n)
    BY DEF OwnResultNotTorn
  <2>1. 1 \in 1..(MaxSize + 1) /\ results[KeyOf[u]] = Prefix(u, 1)
    BY ShapeAssumption DEF Init, Blank, Prefix, Offsets
  <2> QED
    BY <2>1
<1>2. IInv /\ IInv' /\ OwnResultNotTorn /\ [Next]_vars => OwnResultNotTorn'
  <2> SUFFICES ASSUME IInv, IInv', OwnResultNotTorn, [Next]_vars,
                      NEW u \in Uploads, Unshared(u), u \notin halfEnded'
               PROVE  \E n \in 1..(MaxSize + 1) : results'[KeyOf[u]] = Prefix(u, n)
    BY DEF OwnResultNotTorn, Unshared
  <2>1. CASE results'[KeyOf[u]] = results[KeyOf[u]]
    <3>1. u \notin halfEnded
      BY HalfEndedGrows
    <3> QED
      BY <2>1, <3>1 DEF OwnResultNotTorn
  <2>2. CASE results'[KeyOf[u]] # results[KeyOf[u]]
    <3>1. PICK c \in Children : pc'[c] = "writing" /\ Holds(c, u)'
      BY <2>2, OwnWriter
    <3>2. results'[KeyOf[u]] = Prefix(u, pos'[c])
      BY <3>1 DEF IInv, ContentOK, Content, Unshared, Prefix
    <3>3. pos'[c] \in 1..(MaxSize + 1)
      BY <3>1 DEF IInv, TypeOK
    <3> QED
      BY <3>2, <3>3
  <2> QED
    BY <2>1, <2>2
<1> QED
  BY <1>1, <1>2, Invariance, NoUnlink, PTL DEF Spec

\* No run is interrupted while it saves its result.
Uninterrupted ==
    Faults \cap {"unlink", "oserror", "timeout", "hardlimit", "oom", "stat", "crash"} = {}

\* A result file of its own that no child is writing is empty or complete.
OwnResultWhole ==
    \A u \in Uploads :
        Unshared(u) =>
            \/ \E c \in Children : pc[c] = "writing" /\ Holds(c, u)
            \/ results[KeyOf[u]] = Blank
            \/ results[KeyOf[u]] = Whole(u)

\* ResultsWhole holds where no two uploads share a file and no run is
\* interrupted: sharing and interruption are all that tears a result.
THEOREM OwnResultWholeHolds ==
    ASSUME Uninterrupted
    PROVE  Spec => []OwnResultWhole
<1> DEFINE N == halfEnded = {}
<1>1. NoUnlink
  BY Uninterrupted DEF Uninterrupted, NoUnlink
<1>2. Init => OwnResultWhole /\ N
  BY ShapeAssumption DEF Init, OwnResultWhole
<1>3. N /\ [Next]_vars => N'
  <2>1. /\ \A c \in Children : ~HardLimit(c) /\ ~ChildLost(c)
        /\ \A q \in Queues : ~WorkerCrash(q)
    BY Uninterrupted DEF Uninterrupted, HardLimit, ChildLost, WorkerCrash
  <2>2. ASSUME [Next]_vars PROVE halfEnded' = halfEnded
    BY <2>1, <2>2
    DEF Next, vars, ApiStep, RejectFormat, RejectDisk, OpenUpload, FinishUpload, RejectSize,
        UploadFails, Publish, PublishFails, Reply, ApiCrash, ChildStep, CheckExists, ExistsFails,
        Work, Cleanup, OpenResult, WriteResult, Succeed, SaveFails, SoftLimit, Ack, StoreLost,
        Receive, faultVars
  <2> QED
    BY <2>2
<1>4. IInv /\ IInv' /\ OwnResultWhole /\ N /\ [Next]_vars => OwnResultWhole'
  <2> SUFFICES ASSUME IInv, IInv', OwnResultWhole, N, [Next]_vars,
                      NEW u \in Uploads, Unshared(u),
                      \A c \in Children : ~(pc'[c] = "writing" /\ Holds(c, u)')
               PROVE  results'[KeyOf[u]] = Blank \/ results'[KeyOf[u]] = Whole(u)
    BY DEF OwnResultWhole, Unshared, Blank, Whole
  <2> USE DEF IInv, TypeOK, HeldOK
  <2>1. results'[KeyOf[u]] = results[KeyOf[u]]
    BY OwnWriter
  <2>2. ASSUME NEW c \in Children, pc[c] = "writing", Holds(c, u)
        PROVE  results'[KeyOf[u]] = Whole(u)
    <3>1. \/ pc'[c] = pc[c] /\ held'[c] = held[c]
          \/ Succeed(c)
      <4>1. ASSUME NEW d \in Children, ChildStep(d) \/ HardLimit(d) \/ ChildLost(d)
            PROVE  (pc'[c] = pc[c] /\ held'[c] = held[c]) \/ Succeed(c)
        BY <2>2, <4>1, Uninterrupted
        DEF ChildStep, CheckExists, ExistsFails, Work, Cleanup, OpenResult, WriteResult, Succeed,
            SaveFails, SoftLimit, Ack, StoreLost, HardLimit, ChildLost, Goto, Release, Uninterrupted
      <4>2. ASSUME NEW v \in Uploads, ApiStep(v)
            PROVE  pc'[c] = pc[c] /\ held'[c] = held[c]
        BY <4>2
        DEF ApiStep, RejectFormat, RejectDisk, OpenUpload, FinishUpload, RejectSize,
            UploadFails, Publish, PublishFails, Reply, childVars
      <4>3. ASSUME NEW d \in Children, NEW m \in Messages, Receive(d, m)
            PROVE  pc'[c] = pc[c] /\ held'[c] = held[c]
        BY <2>2, <4>3 DEF Receive, Goto
      <4>4. \A q \in Queues : ~WorkerCrash(q)
        BY Uninterrupted DEF WorkerCrash, Uninterrupted
      <4>5. CASE ApiCrash \/ UNCHANGED vars
        BY <4>5 DEF ApiCrash, vars, childVars
      <4> QED
        BY <4>1, <4>2, <4>3, <4>4, <4>5 DEF Next
    <3>2. Succeed(c)
      BY <2>2, <3>1 DEF Holds
    <3>3. Size[u] \in 1..MaxSize /\ held[c].up = u
      BY <2>2, ShapeAssumption DEF Holds
    <3>4. pos[c] \in 1..(MaxSize + 1) /\ pos[c] <= Size[u] + 1
      BY <2>2, <3>3 DEF PosOK
    <3>5. pos[c] > Size[u]
      BY <3>2, <3>3 DEF Succeed
    <3>6. pos[c] = Size[u] + 1
      BY <3>3, <3>4, <3>5, ShapeAssumption
    <3>7. results[KeyOf[u]] = Prefix(u, pos[c])
      BY <2>2 DEF ContentOK, Content
    <3>8. Prefix(u, pos[c]) = Whole(u)
      BY <3>3, <3>6, ShapeAssumption DEF Prefix, Whole, Offsets
    <3> QED
      BY <2>1, <3>7, <3>8
  <2> QED
    BY <2>1, <2>2 DEF OwnResultWhole
<1> HIDE DEF N
<1> QED
  BY <1>1, <1>2, <1>3, <1>4, Invariance, PTL DEF Spec
=============================================================================
