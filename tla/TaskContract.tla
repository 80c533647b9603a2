---------------------------- MODULE TaskContract ----------------------------
(***************************************************************************)
(* What the asynchronous task service promises a client that holds a       *)
(* task_id: a task handed to it stays pending until it ends exactly once,  *)
(* SUCCESS is reported only when the complete result is saved, and a saved *)
(* result stays saved.  A task that has not succeeded may be torn, and is  *)
(* promised nothing from then on.  Queues, retries, redeliveries, children *)
(* and files are invisible here.                                           *)
(***************************************************************************)
CONSTANT Tasks

VARIABLES
    status,   \* task -> what the client can learn about it
    saved     \* the tasks whose complete result is in the result directory

vars == <<status, saved>>

Init ==
    /\ status = [t \in Tasks |-> "absent"]
    /\ saved = {}

Submit(t) ==
    /\ status[t] = "absent"
    /\ status' = [status EXCEPT ![t] = "pending"]
    /\ UNCHANGED saved

Save(t) ==
    /\ status[t] = "pending"
    /\ saved' = saved \cup {t}
    /\ UNCHANGED status

Succeed(t) ==
    /\ status[t] = "pending"
    /\ t \in saved
    /\ status' = [status EXCEPT ![t] = "SUCCESS"]
    /\ UNCHANGED saved

Fail(t) ==
    /\ status[t] = "pending"
    /\ status' = [status EXCEPT ![t] = "FAILURE"]
    /\ UNCHANGED saved

Tear(T) ==
    /\ T # {}
    /\ \A t \in T : status[t] \in {"pending", "FAILURE"}
    /\ status' = [t \in Tasks |-> IF t \in T THEN "torn" ELSE status[t]]
    /\ saved' = saved \ T

Next ==
    \/ \E t \in Tasks : Submit(t) \/ Save(t) \/ Succeed(t) \/ Fail(t)
    \/ \E T \in SUBSET Tasks : Tear(T)

Spec == Init /\ [][Next]_vars

\* No pending task waits for ever.
FairSpec == Spec /\ \A t \in Tasks : WF_vars(Succeed(t) \/ Fail(t))
=============================================================================
