---------------------------- MODULE CapacityPlan ----------------------------
(***************************************************************************)
(* The memory plan of the workers (app/resources.py), the limit that       *)
(* Celery is given (app/celery_app.py), the defaults of app/config.py and  *)
(* what docker-compose.yml hands to each container.  Sizes are megabytes.  *)
(* Every process computes the plan once, when it starts, and logs it.      *)
(***************************************************************************)
EXTENDS Integers

WorkerQueues == {"ingestion", "media", "index", "reasoning"}
Services == WorkerQueues \cup {"api", "qdrant", "redis"}

Larger(a, b) == IF a >= b THEN a ELSE b
Smaller(a, b) == IF a <= b THEN a ELSE b

\* About half of the memory of the host.
SafeWorkerBudget(total) == Larger(512, total \div 2)
HostCap(total) == Larger(256, SafeWorkerBudget(total))

\* Every caller declares a budget.
ClampWorkerMemory(configured, total, budget) ==
    Smaller(configured, Larger(256, Smaller(budget, HostCap(total))))

\* What a process reads.  "child" is worker_child_memory_limit_mb for the
\* ingestion queue and <queue>_child_memory_limit_mb for the others.
Settings == [child : [WorkerQueues -> Nat],
             concurrency : [WorkerQueues -> Nat],
             container_cap : [Services -> Nat],
             worker_memory_budget : Nat,
             total_container_budget : Nat]

DefaultChild == [q \in WorkerQueues |->
    IF q = "ingestion" THEN 1024 ELSE IF q = "media" THEN 384
    ELSE IF q = "index" THEN 768 ELSE 512]
DefaultConcurrency == [q \in WorkerQueues |-> IF q \in {"ingestion", "media"} THEN 2 ELSE 1]
DefaultCap == [s \in Services |->
    IF s = "ingestion" THEN 2048 ELSE IF s \in {"media", "index", "qdrant"} THEN 1024
    ELSE IF s = "redis" THEN 256 ELSE 512]
DefaultBudget == 2048
DefaultTotal == 6400

\* The ingestion queue is planned with the budget of the workers, the others
\* with the cap of their container.
PlanBudget(s, q) == IF q = "ingestion" THEN s.worker_memory_budget ELSE s.container_cap[q]
PlannedChild(s, q, total) == ClampWorkerMemory(s.child[q], total, PlanBudget(s, q))
WorstCase(s, q, total) == s.concurrency[q] * PlannedChild(s, q, total)
Fits(s, q, total) == WorstCase(s, q, total) <= s.container_cap[q]

StackBudget(s) ==
    s.container_cap["ingestion"] + s.container_cap["media"] + s.container_cap["index"]
    + s.container_cap["reasoning"] + s.container_cap["api"] + s.container_cap["qdrant"]
    + s.container_cap["redis"]

\* validate_capacity_plan logs no error.
Verified(s, total) ==
    /\ \A q \in WorkerQueues : Fits(s, q, total)
    /\ StackBudget(s) <= s.total_container_budget

\* What the operator chooses: the variables that docker-compose.yml expands.
Deployment == [child : [WorkerQueues -> Nat], concurrency : [WorkerQueues -> Nat], budget : Nat]
DefaultDeployment == [child |-> DefaultChild, concurrency |-> DefaultConcurrency,
                      budget |-> DefaultBudget]

\* mem_limit of the containers.
MemLimit == DefaultCap

\* The settings of the process in the container of queue c.  The child limit
\* of the container arrives as INGEST_WORKER_CHILD_MEMORY_LIMIT_MB; the budget
\* reaches the ingestion worker alone; the concurrency is an argument of the
\* command and reaches no settings.
SettingsIn(d, c) ==
    [child |-> [DefaultChild EXCEPT !["ingestion"] = d.child[c]],
     concurrency |-> DefaultConcurrency,
     container_cap |-> DefaultCap,
     worker_memory_budget |-> IF c = "ingestion" THEN d.budget ELSE DefaultBudget,
     total_container_budget |-> DefaultTotal]

\* worker_max_memory_per_child of the children in the container of queue c,
\* and what they may use together before Celery replaces one.
EnforcedChild(d, c, total) ==
    ClampWorkerMemory(SettingsIn(d, c).child["ingestion"], total,
                      SettingsIn(d, c).worker_memory_budget)
Footprint(d, c, total) == d.concurrency[c] * EnforcedChild(d, c, total)
Overcommitted(d, c, total) == Footprint(d, c, total) > MemLimit[c]
=============================================================================
