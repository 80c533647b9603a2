--------------------------- MODULE MediaPipeline ----------------------------
(***************************************************************************)
(* One media file in one media child: process_media and the stages it runs *)
(* under _with_timeout (app/media/pipeline.py), each in the thread of its  *)
(* own pool, against two clocks that are set to the same value: the limit  *)
(* of a stage and the soft time limit of the whole task, and the hard time *)
(* limit behind them (app/tasks_media.py).                                 *)
(***************************************************************************)
EXTENDS Integers, Sequences, FiniteSets

CONSTANTS
    MaxFrames,  \* bound: frames that are sampled from a video
    Limit,      \* settings.media_task_timeout_s, in ticks
    Grace       \* what the hard time limit adds to it

ASSUME MediaAssumption ==
    MaxFrames \in Nat /\ Limit \in Nat \ {0} /\ Grace \in Nat \ {0}

VARIABLES
    kind,      \* "image", "video" or "audio"
    pc,        \* main thread: "main" between stages, "waiting" for a result,
               \* "joining" the pool it leaves, or "ended"
    frames,    \* frames of the file: 1 for an image, 0 before sampling
    todo,      \* the stages still to be run
    thread,    \* the thread of the present pool
    stranded,  \* whether a thread runs on whose pool nobody waits for
    raising,   \* the exception that waits for the pool to be joined
    elapsed,   \* since the task began, up to the hard limit
    stageAge,  \* since the stage was submitted, up to its limit
    payloads,  \* the frames that have a payload; frame 0 is the audio track
    broken,    \* the frames whose preprocessing raised
    limits,    \* observer: the limits that have fired
    verdict    \* how process_media ended

vars == <<kind, pc, frames, todo, thread, stranded, raising, elapsed, stageAge,
          payloads, broken, limits, verdict>>
clocks == <<elapsed, stageAge>>

Kinds == {"image", "video", "audio"}
Stages == {"sample", "downsample", "ocr", "decode", "transcribe"}
Stage(s, f) == [stage |-> s, frame |-> f]
HardLimit == Limit + Grace

\* _process_image_bytes of the frames from f to n.
FrameStages(n) ==
    [i \in 1..(2 * n) |->
       Stage(IF i % 2 = 1 THEN "downsample" ELSE "ocr", (i + 1) \div 2)]

\* process_media: the stages of a file, as far as they are known at its start.
Route(k) ==
    CASE k = "image" -> FrameStages(1)
      [] k = "video" -> <<Stage("sample", 0)>>
      [] k = "audio" -> <<Stage("decode", 0), Stage("transcribe", 0)>>

Init ==
    /\ kind \in Kinds
    /\ pc = "main"
    /\ frames = IF kind = "image" THEN 1 ELSE 0
    /\ todo = Route(kind)
    /\ thread = "idle" /\ stranded = FALSE
    /\ raising = "none"
    /\ elapsed = 0 /\ stageAge = 0
    /\ payloads = {} /\ broken = {}
    /\ limits = {}
    /\ verdict = "none"

Current == Head(todo)

\* pool.submit, and future.result begins to wait.
Submit ==
    /\ pc = "main" /\ todo # <<>>
    /\ pc' = "waiting"
    /\ thread' = "running"
    /\ stageAge' = 0
    /\ UNCHANGED <<kind, frames, todo, stranded, raising, elapsed, payloads, broken, limits, verdict>>

\* The stages that catch everything inside never raise.
CanRaise == Current.stage \in {"sample", "downsample", "decode"}

ThreadEnds ==
    /\ thread = "running"
    /\ \/ thread' = "returned"
       \/ CanRaise /\ thread' = "raised"
    /\ UNCHANGED <<kind, pc, frames, todo, stranded, raising, clocks, payloads, broken, limits, verdict>>

StrandedEnds ==
    /\ stranded /\ stranded' = FALSE
    /\ UNCHANGED <<kind, pc, frames, todo, thread, raising, clocks, payloads, broken, limits, verdict>>

End(v) ==
    /\ pc' = "ended"
    /\ verdict' = v
    /\ UNCHANGED todo

Continue(stages) ==
    /\ pc' = "main"
    /\ todo' = stages
    /\ UNCHANGED verdict

\* A stage returned.  sample_frames delivers any number of frames; OCR and
\* transcription deliver a payload, with or without text.
StageReturns ==
    /\ pc = "waiting" /\ thread = "returned"
    /\ thread' = "idle"
    /\ IF Current.stage = "sample"
         THEN \E n \in 0..MaxFrames : frames' = n /\ Continue(FrameStages(n))
         ELSE Continue(Tail(todo)) /\ UNCHANGED frames
    /\ payloads' = IF Current.stage \in {"ocr", "transcribe"}
                     THEN payloads \cup {Current.frame} ELSE payloads
    /\ UNCHANGED <<kind, stranded, raising, clocks, broken, limits>>

\* The frame's stages are given up: [] is returned in place of its payload.
SkipFrame == Continue(Tail(Tail(todo)))

\* A stage raised.  A frame that cannot be decoded is skipped; audio that
\* cannot be decoded gives no payload or, for any other error, fails; a
\* video that cannot be opened fails.
StageRaises ==
    /\ pc = "waiting" /\ thread = "raised"
    /\ thread' = "idle"
    /\ CASE Current.stage = "downsample" -> SkipFrame
         [] Current.stage = "decode" -> End("ok") \/ End("failure")
         [] Current.stage = "sample" -> End("failure")
    /\ broken' = IF Current.stage = "downsample"
                   THEN broken \cup {Current.frame} ELSE broken
    /\ UNCHANGED <<kind, frames, stranded, raising, clocks, payloads, limits>>

\* future.result gives up; the with statement then joins the pool, however
\* long its thread goes on.
StageTimeout ==
    /\ pc = "waiting" /\ thread = "running"
    /\ stageAge = Limit
    /\ raising' = "stage"
    /\ limits' = limits \cup {"stage"}
    /\ pc' = "joining"
    /\ UNCHANGED <<kind, frames, todo, thread, stranded, clocks, payloads, broken, verdict>>

\* Mutant of Propagate: every exception of the preprocessing is swallowed.
PropagateSwallowsAll(exc) ==
    IF Current.stage = "downsample" THEN SkipFrame ELSE End("failure")

\* Mutant of Propagate: the exception is returned as it is.
PropagateRaw(exc) ==
    IF exc = "soft" /\ Current.stage = "downsample" THEN SkipFrame ELSE End(exc)

\* The exception leaves _with_timeout.  Around the preprocessing of a frame
\* everything but MediaProcessingTimeout is swallowed.
Propagate(exc) ==
    IF exc = "soft" /\ Current.stage = "downsample" THEN SkipFrame ELSE End("failure")

Joined ==
    /\ pc = "joining" /\ thread # "running"
    /\ Propagate(raising)
    /\ thread' = "idle"
    /\ raising' = "none"
    /\ UNCHANGED <<kind, frames, stranded, clocks, payloads, broken, limits>>

\* SoftTimeLimitExceeded is raised in the main thread, once: between two
\* stages, in future.result, or in the join, which it cuts short.
SoftLimit ==
    /\ pc # "ended" /\ elapsed = Limit
    /\ "soft" \notin limits
    /\ limits' = limits \cup {"soft"}
    /\ \/ /\ pc = "main"
          /\ End("failure")
          /\ UNCHANGED <<thread, stranded, raising>>
       \/ /\ pc = "waiting"
          /\ pc' = "joining"
          /\ raising' = "soft"
          /\ UNCHANGED <<todo, thread, stranded, verdict>>
       \/ /\ pc = "joining"
          /\ Propagate("soft")
          /\ stranded' = (thread = "running")
          /\ thread' = "idle"
          /\ raising' = "none"
    /\ UNCHANGED <<kind, frames, clocks, payloads, broken>>

\* The list of payloads is returned.
Return ==
    /\ pc = "main" /\ todo = <<>>
    /\ End("ok")
    /\ UNCHANGED <<kind, frames, thread, stranded, raising, clocks, payloads, broken, limits>>

\* Mutant of HardKill: the limit is looked at between two stages only.
HardKillBetweenStages ==
    /\ pc = "main" /\ elapsed = HardLimit
    /\ End("killed")
    /\ thread' = "idle" /\ stranded' = FALSE /\ raising' = "none"
    /\ UNCHANGED <<kind, frames, clocks, payloads, broken, limits>>

\* The child is killed at its hard time limit, with all its threads.
HardKill ==
    /\ pc # "ended" /\ elapsed = HardLimit
    /\ End("killed")
    /\ thread' = "idle" /\ stranded' = FALSE /\ raising' = "none"
    /\ UNCHANGED <<kind, frames, clocks, payloads, broken, limits>>

\* Timers are late by less than a tick: none is passed over.
Overdue ==
    \/ elapsed = Limit /\ "soft" \notin limits
    \/ stageAge = Limit /\ pc = "waiting" /\ thread = "running"

Tick ==
    /\ pc # "ended" /\ ~Overdue
    /\ elapsed' = IF elapsed < HardLimit THEN elapsed + 1 ELSE elapsed
    /\ stageAge' = IF stageAge < Limit THEN stageAge + 1 ELSE stageAge
    /\ UNCHANGED <<kind, pc, frames, todo, thread, stranded, raising, payloads, broken, limits, verdict>>

MainStep == Submit \/ StageReturns \/ StageRaises \/ StageTimeout \/ Joined \/ Return

Next == MainStep \/ ThreadEnds \/ StrandedEnds \/ SoftLimit \/ HardKill \/ Tick

Spec == Init /\ [][Next]_vars

\* The main thread runs on, time passes and Celery enforces its limits.
\* That a stage ever ends is not assumed.
FairSpec ==
    /\ Spec
    /\ WF_vars(MainStep)
    /\ WF_vars(SoftLimit) /\ WF_vars(HardKill)
    /\ WF_vars(elapsed < HardLimit /\ Tick)

(***************************************************************************)
(* Properties                                                              *)
(***************************************************************************)

\* The type invariant.
TypeOK ==
    /\ kind \in Kinds
    /\ pc \in {"main", "waiting", "joining", "ended"}
    /\ frames \in Nat
    /\ todo \in Seq([stage : Stages, frame : Nat])
    /\ thread \in {"idle", "running", "returned", "raised"}
    /\ stranded \in BOOLEAN
    /\ raising \in {"none", "stage", "soft"}
    /\ elapsed \in 0..HardLimit /\ stageAge \in 0..Limit
    /\ payloads \subseteq Nat /\ broken \subseteq Nat
    /\ limits \subseteq {"stage", "soft"}
    /\ verdict \in {"none", "ok", "failure", "killed"}

\* The frames the pipeline is done with and has no payload for, although
\* they could be decoded.
Cut == 1..frames \ (payloads \cup broken \cup {todo[i].frame : i \in DOMAIN todo})

\* A frame is missing from the result only because it could not be decoded,
\* but for at most one, which the soft time limit cut.
OneFrameCut == Cardinality(Cut) <= (IF "soft" \in limits THEN 1 ELSE 0)

\* A stage that ran into its limit fails the task; only a soft time limit
\* that cuts the join of its pool can turn that into a skipped frame.
StageTimeoutFails ==
    "stage" \in limits /\ verdict = "ok" => "soft" \in limits

\* The task ends, even if a stage hangs.
TaskEnds == <>(pc = "ended")

\* Once a limit has fired the task is reported as failed by its own code:
\* it does not succeed, and it does not need to be killed.
LimitMeansFailure == pc = "ended" /\ limits # {} => verdict = "failure"
=============================================================================
