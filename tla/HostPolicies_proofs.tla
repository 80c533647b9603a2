------------------------ MODULE HostPolicies_proofs ------------------------
(***************************************************************************)
(* Proofs about the memory plan and the choice of the device, for every    *)
(* host, every setting and every deployment.                               *)
(***************************************************************************)
EXTENDS CapacityPlan, DevicePolicy, TLAPS

\* Multiplication by a natural number keeps the order.
LEMMA TimesMonotone ==
    ASSUME NEW n \in Nat, NEW a \in Nat, NEW b \in Nat, a <= b
    PROVE  n * a <= n * b
<1>1. n * (b - a) \in Nat
  OBVIOUS
<1>2. n * (b - a) = n * b - n * a
  OBVIOUS
<1> QED
  BY <1>1, <1>2

\* The host cap is a number of at least 512.
LEMMA HostCapNat ==
    ASSUME NEW total \in Nat
    PROVE  HostCap(total) \in Nat /\ HostCap(total) >= 512
BY DEF HostCap, SafeWorkerBudget, Larger

\* A clamped limit is never raised, stays within the declared budget and the
\* host, and never falls below 256 unless it was configured below.
THEOREM ClampIsBounded ==
    ASSUME NEW configured \in Nat, NEW total \in Nat, NEW budget \in Nat
    PROVE  LET limit == ClampWorkerMemory(configured, total, budget) IN
             /\ limit \in Nat /\ limit <= configured
             /\ limit <= Larger(256, budget) /\ limit <= HostCap(total)
             /\ limit >= Smaller(256, configured)
BY HostCapNat DEF ClampWorkerMemory, Larger, Smaller

\* More memory in the host never lowers a limit.
LEMMA ClampMonotone ==
    ASSUME NEW configured \in Nat, NEW budget \in Nat,
           NEW small \in Nat, NEW large \in Nat, small <= large
    PROVE  ClampWorkerMemory(configured, small, budget)
             <= ClampWorkerMemory(configured, large, budget)
<1>1. HostCap(small) <= HostCap(large)
  BY DEF HostCap, SafeWorkerBudget, Larger
<1> QED
  BY <1>1, HostCapNat DEF ClampWorkerMemory, Larger, Smaller

\* A planned limit is a number.
LEMMA PlannedNat ==
    ASSUME NEW s \in Settings, NEW q \in WorkerQueues, NEW total \in Nat
    PROVE  /\ s.child[q] \in Nat /\ s.concurrency[q] \in Nat /\ s.container_cap[q] \in Nat
           /\ PlanBudget(s, q) \in Nat
           /\ PlannedChild(s, q, total) \in Nat /\ PlannedChild(s, q, total) <= s.child[q]
<1>1. /\ s.child[q] \in Nat /\ s.concurrency[q] \in Nat /\ s.container_cap[q] \in Nat
      /\ s.worker_memory_budget \in Nat
  BY DEF Settings, Services
<1>2. PlanBudget(s, q) \in Nat
  BY <1>1 DEF PlanBudget
<1> QED
  BY <1>1, <1>2, ClampIsBounded DEF PlannedChild

\* A queue whose configured children fit their container fits it on every
\* host: clamping cannot break the plan.
THEOREM FitsOnEveryHost ==
    ASSUME NEW s \in Settings, NEW q \in WorkerQueues, NEW total \in Nat,
           s.concurrency[q] * s.child[q] <= s.container_cap[q]
    PROVE  Fits(s, q, total)
<1>1. s.concurrency[q] * PlannedChild(s, q, total) <= s.concurrency[q] * s.child[q]
  BY PlannedNat, TimesMonotone
<1>2. /\ s.concurrency[q] * PlannedChild(s, q, total) \in Nat
      /\ s.concurrency[q] * s.child[q] \in Nat /\ s.container_cap[q] \in Nat
  BY PlannedNat
<1> QED
  BY <1>1, <1>2 DEF Fits, WorstCase

\* A plan that is verified on one host is verified on every smaller one.
THEOREM VerifiedOnSmallerHosts ==
    ASSUME NEW s \in Settings, NEW small \in Nat, NEW large \in Nat,
           small <= large, Verified(s, large)
    PROVE  Verified(s, small)
<1>1. ASSUME NEW q \in WorkerQueues PROVE Fits(s, q, small)
  <2>1. /\ PlannedChild(s, q, small) \in Nat /\ PlannedChild(s, q, large) \in Nat
        /\ s.concurrency[q] \in Nat /\ s.container_cap[q] \in Nat
    BY PlannedNat
  <2>2. PlannedChild(s, q, small) <= PlannedChild(s, q, large)
    BY PlannedNat, ClampMonotone DEF PlannedChild
  <2>3. s.concurrency[q] * PlannedChild(s, q, small)
          <= s.concurrency[q] * PlannedChild(s, q, large)
    BY <2>1, <2>2, TimesMonotone
  <2>4. /\ s.concurrency[q] * PlannedChild(s, q, small) \in Nat
        /\ s.concurrency[q] * PlannedChild(s, q, large) \in Nat
    BY <2>1
  <2>5. s.concurrency[q] * PlannedChild(s, q, large) <= s.container_cap[q]
    BY DEF Verified, Fits, WorstCase
  <2> QED
    BY <2>1, <2>3, <2>4, <2>5 DEF Fits, WorstCase
<1> QED
  BY <1>1 DEF Verified

\* What Celery is told for the container of queue c.
LEMMA EnforcedIs ==
    ASSUME NEW d \in Deployment, NEW c \in WorkerQueues, NEW total \in Nat
    PROVE  /\ d.child[c] \in Nat /\ d.concurrency[c] \in Nat /\ d.budget \in Nat
           /\ EnforcedChild(d, c, total) =
                ClampWorkerMemory(d.child[c], total,
                                  IF c = "ingestion" THEN d.budget ELSE DefaultBudget)
           /\ EnforcedChild(d, c, total) \in Nat
           /\ EnforcedChild(d, c, total) <= d.child[c]
<1>1. d.child[c] \in Nat /\ d.concurrency[c] \in Nat /\ d.budget \in Nat
  BY DEF Deployment
<1>2. SettingsIn(d, c).child["ingestion"] = d.child[c]
  BY DEF SettingsIn, DefaultChild, WorkerQueues
<1>3. EnforcedChild(d, c, total) =
        ClampWorkerMemory(d.child[c], total,
                          IF c = "ingestion" THEN d.budget ELSE DefaultBudget)
  <2>1. SettingsIn(d, c).worker_memory_budget = IF c = "ingestion" THEN d.budget ELSE DefaultBudget
    BY DEF SettingsIn
  <2> QED
    BY <1>2, <2>1 DEF EnforcedChild
<1>4. PICK b \in Nat : b = IF c = "ingestion" THEN d.budget ELSE DefaultBudget
  BY <1>1 DEF DefaultBudget
<1>5. /\ ClampWorkerMemory(d.child[c], total, b) \in Nat
      /\ ClampWorkerMemory(d.child[c], total, b) <= d.child[c]
  BY <1>1, ClampIsBounded, Zenon
<1>6. EnforcedChild(d, c, total) = ClampWorkerMemory(d.child[c], total, b)
  BY <1>3, <1>4
<1> QED
  BY <1>1, <1>3, <1>5, <1>6

\* The containers hold their children as long as the operator raises neither
\* the child limit nor the concurrency of a queue, on every host.
THEOREM NotOvercommittedWithinDefaults ==
    ASSUME NEW d \in Deployment, NEW c \in WorkerQueues, NEW total \in Nat,
           d.child[c] <= DefaultChild[c], d.concurrency[c] <= DefaultConcurrency[c]
    PROVE  ~Overcommitted(d, c, total)
<1>1. /\ d.child[c] \in Nat /\ d.concurrency[c] \in Nat /\ EnforcedChild(d, c, total) \in Nat
      /\ EnforcedChild(d, c, total) <= d.child[c]
  BY EnforcedIs
<1>2. /\ DefaultChild[c] \in Nat /\ DefaultConcurrency[c] \in {1, 2} /\ MemLimit[c] \in Nat
      /\ DefaultConcurrency[c] * DefaultChild[c] <= MemLimit[c]
  BY DEF DefaultChild, DefaultConcurrency, MemLimit, DefaultCap, WorkerQueues, Services
<1>3. EnforcedChild(d, c, total) <= DefaultChild[c]
  BY <1>1, <1>2
<1>4. Footprint(d, c, total) <= DefaultConcurrency[c] * DefaultChild[c]
  <2>1. d.concurrency[c] = 0 \/ d.concurrency[c] = 1 \/ d.concurrency[c] = 2
    BY <1>1, <1>2
  <2> QED
    BY <1>1, <1>2, <1>3, <2>1 DEF Footprint
<1>5. Footprint(d, c, total) \in Nat /\ DefaultConcurrency[c] * DefaultChild[c] \in Nat
  BY <1>1, <1>2 DEF Footprint
<1> QED
  BY <1>2, <1>4, <1>5 DEF Overcommitted

\* The ingestion worker plans its own queue with the limit its children get.
THEOREM IngestionPlanIsEnforced ==
    ASSUME NEW d \in Deployment, NEW total \in Nat
    PROVE  PlannedChild(SettingsIn(d, "ingestion"), "ingestion", total)
             = EnforcedChild(d, "ingestion", total)
BY DEF PlannedChild, EnforcedChild, PlanBudget, SettingsIn

\* The plan in a container is verified whatever the concurrency of its queue.
LEMMA PlanInContainer ==
    ASSUME NEW d \in Deployment, NEW c \in WorkerQueues, NEW total \in Nat,
           2 * d.child[c] <= 2048
    PROVE  Verified(SettingsIn(d, c), total)
<1> DEFINE s == SettingsIn(d, c)
<1>1. d.child[c] \in Nat /\ d.budget \in Nat
  BY DEF Deployment
<1>2. s \in Settings
  <2>1. /\ [DefaultChild EXCEPT !["ingestion"] = d.child[c]] \in [WorkerQueues -> Nat]
        /\ DefaultConcurrency \in [WorkerQueues -> Nat] /\ DefaultCap \in [Services -> Nat]
    BY <1>1 DEF DefaultChild, DefaultConcurrency, DefaultCap, WorkerQueues, Services
  <2>2. /\ (IF c = "ingestion" THEN d.budget ELSE DefaultBudget) \in Nat
        /\ DefaultTotal \in Nat
    BY <1>1 DEF DefaultBudget, DefaultTotal
  <2> QED
    BY <2>1, <2>2 DEF SettingsIn, Settings
<1>3. ASSUME NEW q \in WorkerQueues PROVE Fits(s, q, total)
  <2>1. /\ s.concurrency[q] = DefaultConcurrency[q] /\ s.container_cap[q] = DefaultCap[q]
        /\ s.child[q] = IF q = "ingestion" THEN d.child[c] ELSE DefaultChild[q]
    BY DEF SettingsIn, DefaultChild, WorkerQueues
  <2>2. s.concurrency[q] * s.child[q] <= s.container_cap[q]
    BY <1>1, <2>1 DEF DefaultChild, DefaultConcurrency, DefaultCap, WorkerQueues, Services
  <2> QED
    BY <1>2, <2>2, FitsOnEveryHost
<1>4. StackBudget(s) <= s.total_container_budget
  <2>1. s.container_cap = DefaultCap /\ s.total_container_budget = 6400
    BY DEF SettingsIn, DefaultTotal
  <2>2. StackBudget(s) = 6400
    BY <2>1 DEF StackBudget, DefaultCap, Services, WorkerQueues
  <2> QED
    BY <2>1, <2>2
<1> QED
  BY <1>3, <1>4 DEF Verified

\* With the values of the repository every worker verifies the plan on every
\* host, and no container is overcommitted.
THEOREM DefaultsHold ==
    ASSUME NEW c \in WorkerQueues, NEW total \in Nat
    PROVE  /\ Verified(SettingsIn(DefaultDeployment, c), total)
           /\ ~Overcommitted(DefaultDeployment, c, total)
<1>1. DefaultDeployment \in Deployment
  BY DEF DefaultDeployment, Deployment, DefaultChild, DefaultConcurrency, DefaultBudget
<1>2. /\ DefaultDeployment.child[c] = DefaultChild[c]
      /\ DefaultDeployment.concurrency[c] = DefaultConcurrency[c]
      /\ DefaultChild[c] \in Nat /\ DefaultConcurrency[c] \in Nat /\ DefaultChild[c] <= 1024
  BY DEF DefaultDeployment, DefaultChild, DefaultConcurrency, WorkerQueues
<1>3. 2 * DefaultDeployment.child[c] <= 2048
  BY <1>2
<1>4. /\ DefaultDeployment.child[c] <= DefaultChild[c]
      /\ DefaultDeployment.concurrency[c] <= DefaultConcurrency[c]
  BY <1>2
<1> QED
  BY <1>1, <1>3, <1>4, PlanInContainer, NotOvercommittedWithinDefaults

\* What the plan does not see: no worker reads the concurrency its own command
\* line is given, and none but the ingestion worker the child limit its plan
\* uses for its queue.  On every host of 4 GB four ingestion children exceed
\* their container, and so do two media children of 900 MB, while every
\* worker verifies the plan.
THEOREM VerifiedYetOvercommitted ==
    ASSUME NEW total \in Nat, total >= 4096
    PROVE  \E d \in Deployment :
             /\ \A c \in WorkerQueues : Verified(SettingsIn(d, c), total)
             /\ Overcommitted(d, "ingestion", total) /\ Overcommitted(d, "media", total)
<1>1. PICK child \in [WorkerQueues -> Nat] :
        /\ child["ingestion"] = 1024 /\ child["media"] = 900
        /\ \A c \in WorkerQueues : child[c] <= 1024
  <2> DEFINE f == [q \in WorkerQueues |-> IF q = "media" THEN 900 ELSE DefaultChild[q]]
  <2>1. f \in [WorkerQueues -> Nat]
    BY DEF DefaultChild
  <2>2. /\ f["ingestion"] = 1024 /\ f["media"] = 900
        /\ \A c \in WorkerQueues : f[c] <= 1024
    BY DEF DefaultChild, WorkerQueues
  <2> HIDE DEF f
  <2> QED
    BY <2>1, <2>2
<1>2. PICK concurrency \in [WorkerQueues -> Nat] :
        concurrency["ingestion"] = 4 /\ concurrency["media"] = 2
  <2> DEFINE f == [q \in WorkerQueues |-> IF q = "ingestion" THEN 4 ELSE DefaultConcurrency[q]]
  <2>1. f \in [WorkerQueues -> Nat]
    BY DEF DefaultConcurrency
  <2>2. f["ingestion"] = 4 /\ f["media"] = 2
    BY DEF DefaultConcurrency, WorkerQueues
  <2> HIDE DEF f
  <2> QED
    BY <2>1, <2>2
<1>3. PICK d \in Deployment : d.child = child /\ d.concurrency = concurrency /\ d.budget = 2048
  <2>1. [child |-> child, concurrency |-> concurrency, budget |-> 2048] \in Deployment
    BY DEF Deployment
  <2> QED
    BY <2>1
<1>4. \A c \in WorkerQueues : Verified(SettingsIn(d, c), total)
  <2>1. TAKE c \in WorkerQueues
  <2>2. d.child[c] \in Nat /\ d.child[c] <= 1024
    BY <1>1, <1>3
  <2>3. 2 * d.child[c] <= 2048
    BY <2>2
  <2> QED
    BY <2>3, PlanInContainer
<1>5. HostCap(total) \in Nat /\ HostCap(total) >= 2048
  BY DEF HostCap, SafeWorkerBudget, Larger
<1>6. /\ d.child["ingestion"] = 1024 /\ d.concurrency["ingestion"] = 4
      /\ d.child["media"] = 900 /\ d.concurrency["media"] = 2 /\ d.budget = 2048
  BY <1>1, <1>2, <1>3
<1>7. "ingestion" \in WorkerQueues /\ "media" \in WorkerQueues
  BY DEF WorkerQueues
<1>8. MemLimit["ingestion"] = 2048 /\ MemLimit["media"] = 1024
  BY DEF MemLimit, DefaultCap, Services, WorkerQueues
<1>9. EnforcedChild(d, "ingestion", total) = 1024
  <2>1. EnforcedChild(d, "ingestion", total) = ClampWorkerMemory(1024, total, 2048)
    BY <1>6, <1>7, EnforcedIs
  <2> QED
    BY <1>5, <2>1 DEF ClampWorkerMemory, Smaller, Larger
<1>10. EnforcedChild(d, "media", total) = 900
  <2>1. EnforcedChild(d, "media", total) = ClampWorkerMemory(900, total, 2048)
    BY <1>6, <1>7, EnforcedIs DEF DefaultBudget
  <2> QED
    BY <1>5, <2>1 DEF ClampWorkerMemory, Smaller, Larger
<1>11. Overcommitted(d, "ingestion", total) /\ Overcommitted(d, "media", total)
  BY <1>6, <1>8, <1>9, <1>10 DEF Overcommitted, Footprint
<1> QED
  BY <1>4, <1>11

\* The resolved device is one of those that are there.
LEMMA ResolvedIsAvailable ==
    ASSUME NEW available \in SUBSET Accelerators
    PROVE  /\ ResolveComputeDevice(available) \in available \cup {"cpu"}
           /\ ResolveComputeDevice(available) = "cpu" => available = {}
BY DEF ResolveComputeDevice, Accelerators

\* Inference runs on the processor or on an available accelerator; it is the
\* one whose cache release_memory empties; and shared memory is used on a
\* small host only on request.
THEOREM SelectedDeviceIsSafe ==
    ASSUME NEW available \in SUBSET Accelerators, NEW requested,
           NEW host \in Nat, NEW threshold \in Nat
    PROVE  LET device == ResolveComputeDevice(available)
               selected == SelectInferenceDevice(requested, device, host, threshold)
           IN  /\ selected \in available \cup {"cpu"}
               /\ selected # "cpu" => selected = ReleasedDevice(device)
               /\ selected = "mps" => requested = "mps" \/ host >= threshold
               /\ OcrGpuEnabled(device) => "cuda" \in available
BY ResolvedIsAvailable
DEF ResolveComputeDevice, SelectInferenceDevice, AutoDevice, ReleasedDevice,
    OcrGpuEnabled, Accelerators
=============================================================================
