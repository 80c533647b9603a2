------------------------ MODULE MediaPipeline_proofs ------------------------
(***************************************************************************)
(* Proofs about the media pipeline, for every number of frames and every   *)
(* value of the two time limits.                                           *)
(***************************************************************************)
EXTENDS MediaPipeline, SequenceTheorems, FiniteSetTheorems, WellFoundedInduction, TLAPS

StageRecord == [stage : Stages, frame : Nat]

\* The stages of a file are a sequence.
LEMMA FrameStagesType == ASSUME NEW n \in Nat PROVE FrameStages(n) \in Seq(StageRecord)
<1>1. 2 * n \in Nat
  OBVIOUS
<1>2. ASSUME NEW i \in 1..(2 * n)
      PROVE  Stage(IF i % 2 = 1 THEN "downsample" ELSE "ocr", (i + 1) \div 2) \in StageRecord
  <2>1. (i + 1) \div 2 \in Nat
    BY <1>1
  <2> QED
    BY <2>1 DEF Stage, StageRecord, Stages
<1>3. FrameStages(n) \in [1..(2 * n) -> StageRecord]
  BY <1>2 DEF FrameStages
<1> QED
  BY <1>1, <1>3, SeqDef

\* The stages known at the start are well typed and paired.
LEMMA RouteType == ASSUME NEW k \in Kinds PROVE Route(k) \in Seq(StageRecord)
<1>1. Stage("sample", 0) \in StageRecord /\ Stage("decode", 0) \in StageRecord /\ Stage("transcribe", 0) \in StageRecord
  BY DEF Stage, StageRecord, Stages
<1> QED
  BY <1>1, FrameStagesType DEF Route, Kinds

\* A stage ahead: what is left of the sequence is a sequence.
LEMMA TailType == ASSUME TypeOK, todo # <<>>
                  PROVE  Tail(todo) \in Seq(StageRecord) /\ Current \in StageRecord
<1>1. todo \in Seq(StageRecord)
  BY DEF TypeOK, StageRecord
<1>2. Len(todo) \in Nat \ {0} /\ \A i \in 1..Len(todo) : todo[i] \in StageRecord
  BY <1>1
<1>3. Head(todo) = todo[1]
  BY <1>1
<1> QED
  BY <1>1, <1>2, <1>3 DEF Current

\* While a pool is open there is a stage for it, and only then a thread.
Open ==
    /\ pc \in {"waiting", "joining"} => todo # <<>>
    /\ pc \in {"main", "ended"} => thread = "idle"
    /\ thread = "raised" => CanRaise
    /\ pc # "ended" => verdict = "none"

\* A frame's preprocessing is followed by its OCR: to skip the frame is to
\* drop both.
PairedIn(s) ==
    \A i \in DOMAIN s : s[i].stage = "downsample" =>
        i + 1 \in DOMAIN s /\ s[i + 1].frame = s[i].frame

\* A stage that timed out is being joined or has failed the task, as long as
\* the soft time limit has not come.
TimedOut ==
    "stage" \in limits =>
        \/ "soft" \in limits
        \/ pc = "joining" /\ raising = "stage"
        \/ pc = "ended" /\ verdict # "ok"

MediaInv == TypeOK /\ Open /\ PairedIn(todo) /\ TimedOut

\* The sequences the pipeline starts from are paired.
LEMMA FrameStagesPaired == ASSUME NEW n \in Nat PROVE PairedIn(FrameStages(n))
<1> SUFFICES ASSUME NEW i \in DOMAIN FrameStages(n), FrameStages(n)[i].stage = "downsample"
             PROVE  /\ i + 1 \in DOMAIN FrameStages(n)
                    /\ FrameStages(n)[i + 1].frame = FrameStages(n)[i].frame
  BY DEF PairedIn
<1>1. DOMAIN FrameStages(n) = 1..(2 * n) /\ i \in 1..(2 * n)
  BY DEF FrameStages
<1>2. i % 2 = 1
  BY <1>1 DEF FrameStages, Stage
<1>3. i + 1 \in 1..(2 * n) /\ (i + 1 + 1) \div 2 = (i + 1) \div 2
  BY <1>1, <1>2
<1> QED
  BY <1>1, <1>3 DEF FrameStages, Stage

\* The stages known at the start are well typed and paired.
LEMMA RoutePaired == ASSUME NEW k \in Kinds PROVE PairedIn(Route(k))
<1>1. CASE k = "image"
  BY <1>1, FrameStagesPaired DEF Route
<1>2. CASE k # "image"
  BY <1>2 DEF Route, Kinds, PairedIn, Stage
<1> QED
  BY <1>1, <1>2

\* The rest of a paired sequence is paired, with or without its first frame.
LEMMA TailPaired ==
    ASSUME NEW s \in Seq(StageRecord), s # <<>>, PairedIn(s)
    PROVE  /\ Tail(s) \in Seq(StageRecord) /\ PairedIn(Tail(s))
           /\ Head(s).stage = "downsample" =>
                Tail(s) # <<>> /\ Head(Tail(s)).frame = Head(s).frame
<1>1. /\ Tail(s) \in Seq(StageRecord) /\ Len(s) \in Nat \ {0}
      /\ DOMAIN s = 1..Len(s) /\ DOMAIN Tail(s) = 1..(Len(s) - 1)
      /\ \A i \in 1..(Len(s) - 1) : Tail(s)[i] = s[i + 1]
      /\ Head(s) = s[1]
  OBVIOUS
<1>2. PairedIn(Tail(s))
  BY <1>1 DEF PairedIn
<1>3. ASSUME Head(s).stage = "downsample"
      PROVE  Tail(s) # <<>> /\ Head(Tail(s)).frame = Head(s).frame
  <2>1. 2 \in 1..Len(s) /\ s[2].frame = s[1].frame
    BY <1>1, <1>3 DEF PairedIn
  <2>2. Len(Tail(s)) # 0 /\ Tail(s)[1] = s[2]
    BY <1>1, <2>1
  <2>4. Tail(s) # <<>>
    BY <1>1, <2>2, EmptySeq
  <2>3. Head(Tail(s)) = Tail(s)[1]
    BY <1>1, <2>2
  <2> QED
    BY <1>1, <2>1, <2>2, <2>3, <2>4
<1> QED
  BY <1>1, <1>2, <1>3

\* What Propagate leaves behind.
LEMMA PropagateType ==
    ASSUME MediaInv, todo # <<>>, NEW exc, Propagate(exc)
    PROVE  /\ todo' \in Seq(StageRecord) /\ PairedIn(todo')
           /\ verdict' \in {"none", "ok", "failure", "killed"}
           /\ \/ pc' = "main" /\ verdict' = verdict
              \/ pc' = "ended"
           /\ exc # "soft" => pc' = "ended" /\ verdict' = "failure"
<1>1. todo \in Seq(StageRecord)
  BY DEF MediaInv, TypeOK, StageRecord
<1>2. CASE exc = "soft" /\ Current.stage = "downsample"
  <2>1. Tail(todo) \in Seq(StageRecord) /\ PairedIn(Tail(todo)) /\ Tail(todo) # <<>>
    BY <1>1, <1>2, TailPaired DEF MediaInv, Current
  <2>2. Tail(Tail(todo)) \in Seq(StageRecord) /\ PairedIn(Tail(Tail(todo)))
    BY <2>1, TailPaired
  <2> QED
    BY <1>2, <2>2 DEF Propagate, SkipFrame, Continue, MediaInv, TypeOK
<1>3. CASE ~(exc = "soft" /\ Current.stage = "downsample")
  BY <1>1, <1>3 DEF Propagate, End, MediaInv
<1> QED
  BY <1>2, <1>3

\* The invariant holds when the task begins.
LEMMA MediaInit == Init => MediaInv
<1> SUFFICES ASSUME Init PROVE MediaInv
  OBVIOUS
<1>1. todo \in Seq(StageRecord) /\ PairedIn(todo)
  BY RouteType, RoutePaired DEF Init
<1>2. HardLimit \in Nat
  BY MediaAssumption DEF HardLimit
<1>3. frames \in Nat /\ 0 \in 0..HardLimit /\ 0 \in 0..Limit
  BY <1>2, MediaAssumption DEF Init
<1>4. TypeOK
  BY <1>1, <1>3 DEF Init, TypeOK, StageRecord
<1>5. Open /\ TimedOut
  BY DEF Init, Open, TimedOut
<1> QED
  BY <1>1, <1>4, <1>5 DEF MediaInv

\* Every step keeps the invariant.
LEMMA MediaStep == MediaInv /\ [Next]_vars => MediaInv'
<1> SUFFICES ASSUME MediaInv, [Next]_vars PROVE MediaInv'
  OBVIOUS
<1>1. TypeOK /\ todo \in Seq(StageRecord) /\ PairedIn(todo) /\ Limit \in Nat /\ HardLimit \in Nat
  BY MediaAssumption DEF MediaInv, TypeOK, StageRecord, HardLimit
<1>2. pc \in {"waiting", "joining"} => todo # <<>> /\ Current \in StageRecord
  BY <1>1, TailType DEF MediaInv, Open
<1>3. CASE UNCHANGED vars
  BY <1>3 DEF vars, clocks, CanRaise, Current, MediaInv, TypeOK, Open, TimedOut
<1>4. CASE Submit
  BY <1>1, <1>4 DEF Submit, MediaInv, TypeOK, Open, TimedOut
<1>5. CASE ThreadEnds
  BY <1>5 DEF ThreadEnds, clocks, CanRaise, Current, MediaInv, TypeOK, Open, TimedOut
<1>6. CASE StrandedEnds
  BY <1>6 DEF StrandedEnds, clocks, CanRaise, Current, MediaInv, TypeOK, Open, TimedOut
<1>7. CASE StageReturns
  <2>1. pc = "waiting" /\ todo # <<>> /\ Current \in StageRecord
    BY <1>2, <1>7 DEF StageReturns
  <2>2. Tail(todo) \in Seq(StageRecord) /\ PairedIn(Tail(todo))
    BY <1>1, <2>1, TailPaired
  <2>3. /\ todo' \in Seq(StageRecord) /\ PairedIn(todo') /\ frames' \in Nat
        /\ pc' = "main" /\ verdict' = verdict
    <3>1. CASE Current.stage = "sample"
      BY <1>7, <3>1, FrameStagesType, FrameStagesPaired, MediaAssumption DEF StageReturns, Continue
    <3>2. CASE Current.stage # "sample"
      BY <1>1, <1>7, <2>2, <3>2 DEF StageReturns, Continue, TypeOK
    <3> QED
      BY <3>1, <3>2
  <2>4. payloads' \subseteq Nat
    BY <1>1, <1>7, <2>1 DEF StageReturns, TypeOK, StageRecord
  <2> QED
    BY <1>1, <1>7, <2>1, <2>3, <2>4 DEF StageReturns, clocks, MediaInv, TypeOK, Open, TimedOut, StageRecord
<1>8. CASE StageRaises
  <2>1. pc = "waiting" /\ todo # <<>> /\ Current \in StageRecord
    BY <1>2, <1>8 DEF StageRaises
  <2>2. Tail(todo) \in Seq(StageRecord) /\ PairedIn(Tail(todo))
    BY <1>1, <2>1, TailPaired
  <2>3. Current.stage = "downsample" =>
          Tail(Tail(todo)) \in Seq(StageRecord) /\ PairedIn(Tail(Tail(todo)))
    BY <1>1, <2>1, <2>2, TailPaired DEF Current
  <2>4. thread = "raised" => Current.stage \in {"sample", "downsample", "decode"}
    BY DEF MediaInv, Open, CanRaise
  <2>5. /\ todo' \in Seq(StageRecord) /\ PairedIn(todo')
        /\ verdict' \in {"none", "ok", "failure", "killed"}
        /\ \/ pc' = "main" /\ verdict' = verdict
           \/ pc' = "ended"
    BY <1>1, <1>8, <2>3, <2>4 DEF StageRaises, SkipFrame, Continue, End, TypeOK
  <2>6. broken' \subseteq Nat
    BY <1>1, <1>8, <2>1 DEF StageRaises, TypeOK, StageRecord
  <2> QED
    <3>1. TypeOK'
      BY <1>1, <1>8, <2>5, <2>6 DEF StageRaises, clocks, TypeOK, StageRecord
    <3>2. (Open /\ TimedOut)'
      BY <1>8, <2>1, <2>5 DEF StageRaises, MediaInv, Open, TimedOut
    <3> QED
      BY <2>5, <3>1, <3>2 DEF MediaInv
<1>9. CASE StageTimeout
  BY <1>9 DEF StageTimeout, clocks, MediaInv, TypeOK, Open, TimedOut
<1>10. CASE Joined
  <2>1. pc = "joining" /\ todo # <<>> /\ Propagate(raising)
    BY <1>2, <1>10 DEF Joined
  <2>2. /\ todo' \in Seq(StageRecord) /\ PairedIn(todo')
        /\ verdict' \in {"none", "ok", "failure", "killed"}
        /\ \/ pc' = "main" /\ verdict' = verdict
           \/ pc' = "ended"
        /\ raising # "soft" => pc' = "ended" /\ verdict' = "failure"
    BY <2>1, PropagateType
  <2> QED
    <3>1. TypeOK'
      BY <1>1, <1>10, <2>2 DEF Joined, clocks, TypeOK, StageRecord
    <3>2. (Open /\ TimedOut)'
      BY <1>1, <1>10, <2>1, <2>2 DEF Joined, MediaInv, Open, TimedOut, TypeOK
    <3> QED
      BY <2>2, <3>1, <3>2 DEF MediaInv
<1>11. CASE SoftLimit
  <2>1. limits' = limits \cup {"soft"} /\ UNCHANGED <<kind, frames, clocks, payloads, broken>>
    BY <1>11 DEF SoftLimit
  <2>2. CASE pc = "joining"
    <3>1. /\ Propagate("soft") /\ stranded' \in BOOLEAN /\ thread' = "idle" /\ raising' = "none"
      BY <1>11, <2>2 DEF SoftLimit
    <3>2. /\ todo' \in Seq(StageRecord) /\ PairedIn(todo')
          /\ verdict' \in {"none", "ok", "failure", "killed"}
          /\ \/ pc' = "main" /\ verdict' = verdict
             \/ pc' = "ended"
      BY <1>2, <2>2, <3>1, PropagateType
    <3> QED
      <4>1. TypeOK'
        BY <1>1, <2>1, <3>1, <3>2 DEF clocks, TypeOK, StageRecord
      <4>2. (Open /\ TimedOut)'
        BY <2>1, <2>2, <3>1, <3>2 DEF MediaInv, Open, TimedOut
      <4> QED
        BY <3>2, <4>1, <4>2 DEF MediaInv
  <2>3. CASE pc # "joining"
    <3>1. todo' = todo /\ stranded' = stranded /\ thread' = thread
      BY <1>11, <2>3 DEF SoftLimit, End
    <3>2. \/ pc = "main" /\ pc' = "ended" /\ verdict' = "failure" /\ raising' = raising
          \/ pc = "waiting" /\ pc' = "joining" /\ verdict' = verdict /\ raising' = "soft"
      BY <1>11, <2>3 DEF SoftLimit, End
    <3> QED
      BY <1>1, <2>1, <3>1, <3>2
      DEF clocks, CanRaise, Current, MediaInv, TypeOK, Open, TimedOut, StageRecord
  <2> QED
    BY <2>2, <2>3
<1>12. CASE HardKill
  BY <1>1, <1>12 DEF HardKill, End, clocks, MediaInv, TypeOK, Open, TimedOut
<1>13. CASE Return
  BY <1>1, <1>13 DEF Return, End, clocks, MediaInv, TypeOK, Open, TimedOut
<1>14. CASE Tick
  BY <1>1, <1>14 DEF Tick, CanRaise, Current, MediaInv, TypeOK, Open, TimedOut
<1> QED
  BY <1>3, <1>4, <1>5, <1>6, <1>7, <1>8, <1>9, <1>10, <1>11, <1>12, <1>13, <1>14
  DEF Next, MainStep

\* The invariant holds throughout.
THEOREM MediaInvariance == Spec => []MediaInv
BY MediaInit, MediaStep, PTL DEF Spec

\* Every variable keeps its type.
THEOREM MediaTypeCorrect == Spec => []TypeOK
<1>1. MediaInv => TypeOK
  BY DEF MediaInv
<1> QED
  BY <1>1, MediaInvariance, PTL

\* A stage that ran into its limit fails the task, unless the soft time limit
\* came on top of it.
THEOREM StageTimeoutFailsHolds == Spec => []StageTimeoutFails
<1>1. MediaInv => StageTimeoutFails
  <2> SUFFICES ASSUME MediaInv, "stage" \in limits, verdict = "ok", "soft" \notin limits
               PROVE  FALSE
    BY DEF StageTimeoutFails
  <2>1. pc = "joining" /\ verdict = "ok"
    BY DEF MediaInv, TimedOut
  <2> QED
    BY <2>1 DEF MediaInv, Open
<1> QED
  BY <1>1, MediaInvariance, PTL

\* The frames that stages are still planned for.
FramesIn(s) == {s[i].frame : i \in DOMAIN s}

\* Stages before the frames and stages of an audio file belong to frame 0.
NoFrame(s) ==
    \A i \in DOMAIN s :
        s[i].stage \in {"sample", "decode", "transcribe"} => s[i].frame = 0

\* No frame is cut before the soft time limit was swallowed, and then one.
CutInv ==
    /\ NoFrame(todo)
    /\ raising = "soft" => "soft" \in limits
    /\ "soft" \notin limits \/ raising = "soft" => Cut = {}
    /\ \E c \in Nat : Cut \subseteq {c}

\* The frames of a video all have their stages.
LEMMA FrameStagesCover ==
    ASSUME NEW n \in Nat
    PROVE  NoFrame(FrameStages(n)) /\ 1..n \subseteq FramesIn(FrameStages(n))
<1>1. DOMAIN FrameStages(n) = 1..(2 * n)
  BY DEF FrameStages
<1>2. ASSUME NEW i \in 1..(2 * n)
      PROVE  /\ FrameStages(n)[i].stage \in {"downsample", "ocr"}
             /\ FrameStages(n)[i].frame = (i + 1) \div 2
  BY DEF FrameStages, Stage
<1>3. ASSUME NEW f \in 1..n PROVE f \in FramesIn(FrameStages(n))
  <2>1. 2 * f - 1 \in 1..(2 * n) /\ (2 * f - 1 + 1) \div 2 = f
    OBVIOUS
  <2> QED
    BY <1>1, <1>2, <2>1 DEF FramesIn
<1> QED
  BY <1>1, <1>2, <1>3 DEF NoFrame

\* To drop the first stage gives up its frame at most.
LEMMA TailFrames ==
    ASSUME NEW s \in Seq(StageRecord), s # <<>>, NoFrame(s)
    PROVE  /\ NoFrame(Tail(s)) /\ FramesIn(s) \subseteq {Head(s).frame} \cup FramesIn(Tail(s))
           /\ Head(s).stage \in {"sample", "decode", "transcribe"} => Head(s).frame = 0
<1>1. /\ Len(s) \in Nat \ {0} /\ DOMAIN s = 1..Len(s) /\ DOMAIN Tail(s) = 1..(Len(s) - 1)
      /\ \A i \in 1..(Len(s) - 1) : Tail(s)[i] = s[i + 1]
      /\ Head(s) = s[1]
  OBVIOUS
<1>2. NoFrame(Tail(s))
  BY <1>1 DEF NoFrame
<1>3. ASSUME NEW i \in 1..Len(s), i # 1 PROVE s[i].frame \in FramesIn(Tail(s))
  <2>1. i - 1 \in 1..(Len(s) - 1) /\ Tail(s)[i - 1] = s[i - 1 + 1] /\ i - 1 + 1 = i
    BY <1>1, <1>3
  <2> QED
    BY <1>1, <2>1 DEF FramesIn
<1> QED
  BY <1>1, <1>2, <1>3 DEF NoFrame, FramesIn

\* To skip a frame gives up that frame.
LEMMA SkipFrames ==
    ASSUME MediaInv, NoFrame(todo), todo # <<>>, Current.stage = "downsample"
    PROVE  /\ NoFrame(Tail(Tail(todo)))
           /\ FramesIn(todo) \subseteq {Current.frame} \cup FramesIn(Tail(Tail(todo)))
<1>1. todo \in Seq(StageRecord) /\ PairedIn(todo)
  BY DEF MediaInv, TypeOK, StageRecord
<1>2. /\ Tail(todo) \in Seq(StageRecord) /\ Tail(todo) # <<>>
      /\ Head(Tail(todo)).frame = Head(todo).frame
  BY <1>1, TailPaired DEF Current
<1>3. /\ NoFrame(Tail(todo))
      /\ FramesIn(todo) \subseteq {Head(todo).frame} \cup FramesIn(Tail(todo))
  BY <1>1, TailFrames
<1>4. /\ NoFrame(Tail(Tail(todo)))
      /\ FramesIn(Tail(todo)) \subseteq {Head(Tail(todo)).frame} \cup FramesIn(Tail(Tail(todo)))
  BY <1>2, <1>3, TailFrames
<1> QED
  BY <1>2, <1>3, <1>4 DEF Current

\* Nothing is cut before the task begins.
LEMMA CutInit == Init => CutInv
<1> SUFFICES ASSUME Init PROVE CutInv
  OBVIOUS
<1>0. ASSUME NoFrame(todo), Cut = {} PROVE CutInv
  <2>1. \E c \in Nat : Cut \subseteq {c}
    <3> WITNESS 0 \in Nat
    <3> QED
      BY <1>0
  <2> QED
    BY <1>0, <2>1 DEF Init, CutInv
<1>1. CASE kind = "image"
  <2>1. todo = FrameStages(1) /\ frames = 1
    BY <1>1 DEF Init, Route
  <2>2. NoFrame(todo) /\ 1..frames \subseteq FramesIn(todo)
    BY <2>1, FrameStagesCover
  <2> QED
    BY <1>0, <2>2 DEF Cut, FramesIn
<1>2. CASE kind # "image"
  <2>1. NoFrame(todo)
    BY <1>2 DEF Init, Route, Kinds, NoFrame, Stage
  <2>2. frames = 0
    BY <1>2 DEF Init
  <2> QED
    BY <1>0, <2>1, <2>2 DEF Cut
<1> QED
  BY <1>1, <1>2

\* What Propagate cuts.
LEMMA PropagateCuts ==
    ASSUME MediaInv, CutInv, pc = "joining", NEW exc, Propagate(exc),
           exc = "soft" => Cut = {}, UNCHANGED <<frames, payloads, broken>>
    PROVE  /\ NoFrame(todo') /\ \E c \in Nat : Cut' \subseteq {c}
           /\ exc # "soft" => Cut' = Cut
<1>1. todo # <<>> /\ todo \in Seq(StageRecord) /\ NoFrame(todo)
  BY DEF MediaInv, Open, TypeOK, StageRecord, CutInv
<1>2. CASE exc = "soft" /\ Current.stage = "downsample"
  <2>1. todo' = Tail(Tail(todo))
    BY <1>2 DEF Propagate, SkipFrame, Continue
  <2>2. NoFrame(todo') /\ FramesIn(todo) \subseteq {Current.frame} \cup FramesIn(todo')
    BY <1>1, <1>2, <2>1, SkipFrames
  <2>3. Cut' \subseteq Cut \cup {Current.frame}
    BY <2>2 DEF Cut, FramesIn
  <2>4. Current.frame \in Nat
    BY <1>1, TailType DEF MediaInv, StageRecord
  <2> QED
    BY <1>2, <2>2, <2>3, <2>4
<1>3. CASE ~(exc = "soft" /\ Current.stage = "downsample")
  <2>1. todo' = todo
    BY <1>3 DEF Propagate, End
  <2> QED
    BY <1>1, <2>1 DEF Cut, CutInv
<1> QED
  BY <1>2, <1>3

\* Every step keeps it.
LEMMA CutStep == MediaInv /\ CutInv /\ [Next]_vars => CutInv'
<1> SUFFICES ASSUME MediaInv, CutInv, [Next]_vars PROVE CutInv'
  OBVIOUS
<1>1. todo \in Seq(StageRecord) /\ NoFrame(todo) /\ PairedIn(todo)
  BY DEF MediaInv, TypeOK, StageRecord, CutInv
<1>3. CASE UNCHANGED <<todo, frames, payloads, broken, limits, raising>>
  BY <1>3 DEF CutInv, Cut, NoFrame
<1>4. CASE StageReturns
  <2>1. /\ pc = "waiting" /\ UNCHANGED <<broken, limits, raising>>
        /\ todo # <<>> /\ Current \in StageRecord
    BY <1>4, TailType DEF StageReturns, MediaInv, Open
  <2>2. CASE Current.stage = "sample"
    <3>1. PICK n \in 0..MaxFrames : frames' = n /\ todo' = FrameStages(n)
      BY <1>4, <2>2 DEF StageReturns, Continue
    <3>2. n \in Nat
      BY MediaAssumption
    <3>3. NoFrame(todo') /\ 1..frames' \subseteq FramesIn(todo')
      BY <3>1, <3>2, FrameStagesCover
    <3> QED
      BY <2>1, <3>3 DEF CutInv, Cut, FramesIn
  <2>3. CASE Current.stage # "sample"
    <3>1. todo' = Tail(todo) /\ frames' = frames
      BY <1>4, <2>3 DEF StageReturns, Continue
    <3>2. /\ NoFrame(todo') /\ FramesIn(todo) \subseteq {Current.frame} \cup FramesIn(todo')
          /\ Current.stage \in {"decode", "transcribe"} => Current.frame = 0
      BY <1>1, <2>1, <3>1, TailFrames DEF Current
    <3>3. CASE Current.stage = "downsample"
      <4>1. Tail(todo) # <<>> /\ Head(Tail(todo)).frame = Current.frame
        BY <1>1, <2>1, <3>3, TailPaired DEF Current
      <4>2. Tail(todo) \in Seq(StageRecord)
        BY <1>1, <2>1, TailPaired
      <4>3. Head(Tail(todo)) = Tail(todo)[1] /\ 1 \in DOMAIN Tail(todo)
        BY <4>1, <4>2
      <4>4. Current.frame \in FramesIn(todo')
        BY <3>1, <4>1, <4>3 DEF FramesIn
      <4>5. payloads' = payloads
        BY <1>4, <3>3 DEF StageReturns
      <4>6. Cut' \subseteq Cut
        BY <2>1, <3>1, <3>2, <4>4, <4>5 DEF Cut, FramesIn
      <4> QED
        BY <2>1, <3>2, <4>6 DEF CutInv
    <3>4. CASE Current.stage # "downsample"
      <4>1. /\ payloads \subseteq payloads'
            /\ Current.stage = "ocr" => Current.frame \in payloads'
        BY <1>4 DEF StageReturns
      <4>2. Current.stage \in {"ocr", "decode", "transcribe"}
        BY <2>1, <2>3, <3>4 DEF StageRecord, Stages
      <4>3. Cut' \subseteq Cut
        BY <2>1, <3>1, <3>2, <4>1, <4>2, SMTT(30) DEF Cut, FramesIn
      <4> QED
        BY <2>1, <3>2, <4>3 DEF CutInv
    <3> QED
      BY <3>3, <3>4
  <2> QED
    BY <2>2, <2>3
<1>5. CASE StageRaises
  <2>1. /\ pc = "waiting" /\ UNCHANGED <<frames, payloads, limits, raising>>
        /\ todo # <<>> /\ thread = "raised"
    BY <1>5 DEF StageRaises, MediaInv, Open
  <2>2. Current.stage \in {"sample", "downsample", "decode"}
    BY <2>1 DEF MediaInv, Open, CanRaise
  <2>3. CASE Current.stage = "downsample"
    <3>1. todo' = Tail(Tail(todo)) /\ broken' = broken \cup {Current.frame}
      BY <1>5, <2>3 DEF StageRaises, SkipFrame, Continue
    <3>2. NoFrame(todo') /\ FramesIn(todo) \subseteq {Current.frame} \cup FramesIn(todo')
      BY <1>1, <2>1, <2>3, <3>1, SkipFrames
    <3>3. Cut' \subseteq Cut
      BY <2>1, <3>1, <3>2 DEF Cut, FramesIn
    <3> QED
      BY <2>1, <3>2, <3>3 DEF CutInv
  <2>4. CASE Current.stage # "downsample"
    <3>1. todo' = todo /\ broken' = broken
      BY <1>5, <2>2, <2>4 DEF StageRaises, End
    <3> QED
      BY <1>3, <2>1, <3>1
  <2> QED
    BY <2>3, <2>4
<1>6. CASE StageTimeout
  <2>1. /\ UNCHANGED <<todo, frames, payloads, broken>> /\ raising' = "stage"
        /\ limits' = limits \cup {"stage"}
    BY <1>6 DEF StageTimeout
  <2>2. Cut' = Cut /\ NoFrame(todo') /\ ("soft" \in limits' <=> "soft" \in limits)
    BY <1>1, <2>1 DEF Cut
  <2> QED
    BY <2>1, <2>2 DEF CutInv
<1>7. CASE Joined
  <2>1. /\ pc = "joining" /\ Propagate(raising) /\ raising' = "none"
        /\ UNCHANGED <<frames, payloads, broken, limits>>
    BY <1>7 DEF Joined
  <2>2. /\ NoFrame(todo') /\ \E c \in Nat : Cut' \subseteq {c}
        /\ raising # "soft" => Cut' = Cut
    BY <2>1, PropagateCuts DEF CutInv
  <2>3. raising = "soft" => "soft" \in limits
    BY DEF CutInv
  <2> QED
    BY <2>1, <2>2, <2>3 DEF CutInv
<1>8. CASE SoftLimit
  <2>1. /\ "soft" \in limits' /\ "soft" \notin limits /\ UNCHANGED <<frames, payloads, broken>>
    BY <1>8 DEF SoftLimit
  <2>2. Cut = {}
    BY <2>1 DEF CutInv
  <2>3. CASE pc = "joining"
    <3>1. Propagate("soft") /\ raising' = "none"
      BY <1>8, <2>3 DEF SoftLimit
    <3>2. NoFrame(todo') /\ \E c \in Nat : Cut' \subseteq {c}
      BY <2>1, <2>2, <2>3, <3>1, PropagateCuts
    <3> QED
      BY <2>1, <3>1, <3>2 DEF CutInv
  <2>4. CASE pc # "joining"
    <3>1. todo' = todo
      BY <1>8, <2>4 DEF SoftLimit, End
    <3>2. Cut' = {} /\ NoFrame(todo')
      BY <1>1, <2>1, <2>2, <3>1 DEF Cut
    <3>3. \E c \in Nat : Cut' \subseteq {c}
      <4> WITNESS 0 \in Nat
      <4> QED
        BY <3>2
    <3> QED
      BY <2>1, <3>2, <3>3 DEF CutInv
  <2> QED
    BY <2>3, <2>4
<1>9. CASE HardKill
  <2>1. UNCHANGED <<todo, frames, payloads, broken, limits>> /\ raising' = "none"
    BY <1>9 DEF HardKill, End
  <2>2. Cut' = Cut /\ NoFrame(todo')
    BY <1>1, <2>1 DEF Cut
  <2> QED
    BY <2>1, <2>2 DEF CutInv
<1>10. CASE Return
  BY <1>3, <1>10 DEF Return, End
<1> QED
  BY <1>3, <1>4, <1>5, <1>6, <1>7, <1>8, <1>9, <1>10
  DEF Next, MainStep, Submit, ThreadEnds, StrandedEnds, Tick, vars

\* A frame that could be decoded is missing only if the soft time limit cut
\* it, and then no other is.
THEOREM OneFrameCutHolds == Spec => []OneFrameCut
<1>1. CutInv => OneFrameCut
  <2> SUFFICES ASSUME CutInv PROVE OneFrameCut
    OBVIOUS
  <2>1. Cardinality({}) = 0 /\ IsFiniteSet({})
    BY FS_EmptySet
  <2>2. PICK c \in Nat : Cut \subseteq {c}
    BY DEF CutInv
  <2>3. IsFiniteSet({c}) /\ Cardinality({c}) = 1
    BY FS_Singleton
  <2>4. Cardinality(Cut) = 0 \/ Cardinality(Cut) = 1
    BY <2>1, <2>2, <2>3
  <2>5. "soft" \notin limits => Cardinality(Cut) = 0
    BY <2>1 DEF CutInv
  <2> QED
    BY <2>4, <2>5 DEF OneFrameCut
<1> QED
  BY <1>1, CutInit, CutStep, MediaInvariance, PTL DEF Spec

-----------------------------------------------------------------------------
(***************************************************************************)
(* A success after a limit.  LimitMeansFailure fails; what is left of it   *)
(* is that such a task is short of a frame.                                *)
(***************************************************************************)

\* The stages of a frame follow each other, and no other stage has its frame.
FrameOnce(s) ==
    \A i, j \in DOMAIN s :
        s[i].stage = "downsample" /\ s[j].frame = s[i].frame => j \in {i, i + 1}

\* A file is sampled before anything else; a frame ahead is one of the n
\* frames and not done.
Ahead(s, n, done) ==
    \A i \in DOMAIN s :
        /\ s[i].stage = "sample" => i = 1 /\ n = 0 /\ done = {}
        /\ s[i].stage = "downsample" => s[i].frame \in (1..n) \ done

Done == payloads \cup broken

\* The pipeline goes on after a limit only without the frame the limit cut.
Swallowed ==
    limits # {} =>
        \/ pc = "joining"
        \/ pc = "ended" /\ verdict # "ok"
        \/ Cut # {}

ShortInv == FrameOnce(todo) /\ Ahead(todo, frames, Done) /\ Swallowed

\* The stages of a video's frames.
LEMMA FrameStagesAhead ==
    ASSUME NEW n \in Nat
    PROVE  FrameOnce(FrameStages(n)) /\ Ahead(FrameStages(n), n, {})
<1>1. DOMAIN FrameStages(n) = 1..(2 * n)
  BY DEF FrameStages
<1>2. ASSUME NEW i \in 1..(2 * n)
      PROVE  /\ FrameStages(n)[i].stage = (IF i % 2 = 1 THEN "downsample" ELSE "ocr")
             /\ FrameStages(n)[i].frame = (i + 1) \div 2
             /\ FrameStages(n)[i].frame \in 1..n
  BY DEF FrameStages, Stage
<1>3. ASSUME NEW i \in 1..(2 * n), NEW j \in 1..(2 * n),
             i % 2 = 1, (j + 1) \div 2 = (i + 1) \div 2
      PROVE  j \in {i, i + 1}
  BY <1>3
<1>4. FrameOnce(FrameStages(n))
  <2> SUFFICES ASSUME NEW i \in 1..(2 * n), NEW j \in 1..(2 * n),
                      FrameStages(n)[i].stage = "downsample",
                      FrameStages(n)[j].frame = FrameStages(n)[i].frame
               PROVE  j \in {i, i + 1}
    BY <1>1 DEF FrameOnce
  <2>1. i % 2 = 1
    BY <1>2
  <2>2. (j + 1) \div 2 = (i + 1) \div 2
    BY <1>2
  <2> QED
    BY <1>3, <2>1, <2>2
<1>5. Ahead(FrameStages(n), n, {})
  BY <1>1, <1>2 DEF Ahead
<1> QED
  BY <1>4, <1>5

\* One stage is done: the OCR of a frame, or the preprocessing before it.
LEMMA TailAhead ==
    ASSUME NEW s \in Seq(StageRecord), s # <<>>, NEW n \in Nat, NEW done \in SUBSET Nat,
           FrameOnce(s), Ahead(s, n, done)
    PROVE  /\ FrameOnce(Tail(s)) /\ Ahead(Tail(s), n, done)
           /\ FramesIn(Tail(s)) \subseteq FramesIn(s) /\ Head(s).frame \in FramesIn(s)
           /\ Head(s).stage # "downsample" => Ahead(Tail(s), n, done \cup {Head(s).frame})
<1>1. /\ Len(s) \in Nat \ {0} /\ DOMAIN s = 1..Len(s) /\ DOMAIN Tail(s) = 1..(Len(s) - 1)
      /\ \A i \in 1..(Len(s) - 1) : Tail(s)[i] = s[i + 1]
      /\ Head(s) = s[1] /\ 1 \in DOMAIN s
  OBVIOUS
<1>2. ASSUME NEW i \in DOMAIN Tail(s)
      PROVE  i \in Nat \ {0} /\ i + 1 \in DOMAIN s /\ i + 1 # 1 /\ Tail(s)[i] = s[i + 1]
  BY <1>1
<1>3. FrameOnce(Tail(s))
  <2> SUFFICES ASSUME NEW i \in DOMAIN Tail(s), NEW j \in DOMAIN Tail(s),
                      Tail(s)[i].stage = "downsample", Tail(s)[j].frame = Tail(s)[i].frame
               PROVE  j \in {i, i + 1}
    BY DEF FrameOnce
  <2>1. j + 1 \in {i + 1, i + 1 + 1}
    BY <1>2 DEF FrameOnce
  <2>2. i \in Nat /\ j \in Nat
    BY <1>2
  <2> QED
    BY <2>1, <2>2
<1>4. Ahead(Tail(s), n, done)
  BY <1>2 DEF Ahead
<1>5. FramesIn(Tail(s)) \subseteq FramesIn(s) /\ Head(s).frame \in FramesIn(s)
  BY <1>1, <1>2 DEF FramesIn
<1>6. ASSUME Head(s).stage # "downsample"
      PROVE  Ahead(Tail(s), n, done \cup {Head(s).frame})
  <2>1. ASSUME NEW i \in DOMAIN Tail(s), Tail(s)[i].stage = "downsample"
        PROVE  Tail(s)[i].frame # Head(s).frame
    <3>1. Tail(s)[i].frame = Head(s).frame => 1 \in {i + 1, i + 1 + 1}
      BY <1>1, <1>2, <2>1 DEF FrameOnce
    <3> QED
      BY <1>2, <3>1
  <2> QED
    BY <1>2, <2>1 DEF Ahead
<1> QED
  BY <1>3, <1>4, <1>5, <1>6

\* A frame is skipped: it is ahead no more, and was not done.
LEMMA SkipAhead ==
    ASSUME NEW s \in Seq(StageRecord), s # <<>>, PairedIn(s), Head(s).stage = "downsample",
           NEW n \in Nat, NEW done \in SUBSET Nat, FrameOnce(s), Ahead(s, n, done)
    PROVE  LET t == Tail(Tail(s))
           IN  /\ FrameOnce(t) /\ Ahead(t, n, done) /\ Ahead(t, n, done \cup {Head(s).frame})
               /\ FramesIn(t) \subseteq FramesIn(s) /\ Head(s).frame \in FramesIn(s)
               /\ Head(s).frame \in (1..n) \ done /\ Head(s).frame \notin FramesIn(t)
<1> DEFINE t == Tail(Tail(s))
<1>1. Tail(s) \in Seq(StageRecord) /\ Tail(s) # <<>>
  BY TailPaired
<1>2. /\ FrameOnce(Tail(s)) /\ Ahead(Tail(s), n, done)
      /\ FramesIn(Tail(s)) \subseteq FramesIn(s) /\ Head(s).frame \in FramesIn(s)
  BY TailAhead
<1>3. FrameOnce(t) /\ Ahead(t, n, done) /\ FramesIn(t) \subseteq FramesIn(Tail(s))
  BY <1>1, <1>2, TailAhead
<1>4. /\ Len(s) \in Nat \ {0, 1} /\ DOMAIN s = 1..Len(s) /\ DOMAIN t = 1..(Len(s) - 2)
      /\ \A i \in 1..(Len(s) - 2) : t[i] = s[i + 2]
      /\ Head(s) = s[1] /\ 1 \in DOMAIN s
  <2>0. Len(Tail(s)) # 0
    BY <1>1, EmptySeq
  <2>1. Len(s) \in Nat /\ Len(Tail(s)) = Len(s) - 1 /\ Len(Tail(s)) # 0
    BY <2>0
  <2>2. /\ DOMAIN t = 1..(Len(Tail(s)) - 1)
        /\ \A i \in 1..(Len(Tail(s)) - 1) : t[i] = Tail(s)[i + 1]
    BY <1>1
  <2>3. \A i \in 1..(Len(s) - 1) : Tail(s)[i] = s[i + 1]
    OBVIOUS
  <2>4. Len(s) \in Nat \ {0, 1} /\ DOMAIN s = 1..Len(s) /\ Head(s) = s[1] /\ 1 \in DOMAIN s
    BY <2>1
  <2>5. ASSUME NEW i \in 1..(Len(s) - 2) PROVE t[i] = s[i + 2]
    <3>1. i \in 1..(Len(Tail(s)) - 1) /\ i + 1 \in 1..(Len(s) - 1) /\ i + 1 + 1 = i + 2
      BY <2>1
    <3> QED
      BY <2>2, <2>3, <3>1
  <2> QED
    BY <2>1, <2>2, <2>4, <2>5
<1>5. ASSUME NEW i \in DOMAIN t PROVE t[i].frame # Head(s).frame
  <2>1. i \in Nat \ {0} /\ i + 2 \in DOMAIN s /\ t[i] = s[i + 2]
    BY <1>4
  <2>2. t[i].frame = Head(s).frame => i + 2 \in {1, 1 + 1}
    BY <1>4, <2>1 DEF FrameOnce
  <2> QED
    BY <2>1, <2>2
<1>6. Head(s).frame \notin FramesIn(t)
  BY <1>5 DEF FramesIn
<1>7. Head(s).frame \in (1..n) \ done
  BY <1>4 DEF Ahead
<1>8. Ahead(t, n, done \cup {Head(s).frame})
  <2> HIDE DEF t
  <2>1. ASSUME NEW i \in DOMAIN t PROVE t[i].stage # "sample"
    <3>1. i \in Nat \ {0} /\ i + 2 \in DOMAIN s /\ t[i] = s[i + 2] /\ i + 2 # 1
      BY <1>4
    <3> QED
      BY <3>1 DEF Ahead
  <2> QED
    BY <1>3, <1>5, <2>1 DEF Ahead
<1> QED
  BY <1>2, <1>3, <1>6, <1>7, <1>8

\* At the beginning no limit has fired.
LEMMA ShortInit == Init => ShortInv
<1> SUFFICES ASSUME Init PROVE ShortInv
  OBVIOUS
<1>1. Done = {} /\ limits = {}
  BY DEF Init, Done
<1>2. CASE kind = "image"
  <2>1. todo = FrameStages(1) /\ frames = 1
    BY <1>2 DEF Init, Route
  <2> QED
    BY <1>1, <2>1, FrameStagesAhead DEF ShortInv, Swallowed
<1>3. CASE kind # "image"
  <2>1. frames = 0 /\ \/ todo = <<Stage("sample", 0)>>
                      \/ todo = <<Stage("decode", 0), Stage("transcribe", 0)>>
    BY <1>3 DEF Init, Route, Kinds
  <2>2. FrameOnce(todo) /\ Ahead(todo, 0, {})
    BY <2>1 DEF FrameOnce, Ahead, Stage
  <2> QED
    BY <1>1, <2>1, <2>2 DEF ShortInv, Swallowed
<1> QED
  BY <1>2, <1>3

\* A frame that is cut stays cut, whatever is done with the others.
LEMMA CutStays ==
    ASSUME frames' = frames, FramesIn(todo') \subseteq FramesIn(todo),
           NEW f \in FramesIn(todo), Done' \subseteq Done \cup {f}
    PROVE  Cut \subseteq Cut'
BY DEF Cut, FramesIn, Done

\* Where an exception leaves the join of a pool.
LEMMA PropagateShort ==
    ASSUME MediaInv, ShortInv, pc = "joining", NEW exc, Propagate(exc),
           UNCHANGED <<frames, payloads, broken>>
    PROVE  /\ FrameOnce(todo') /\ Ahead(todo', frames', Done')
           /\ (pc' = "ended" /\ verdict' # "ok") \/ Cut' # {}
<1>1. /\ todo # <<>> /\ todo \in Seq(StageRecord) /\ PairedIn(todo)
      /\ frames \in Nat /\ Done \in SUBSET Nat /\ Done' = Done
  BY DEF MediaInv, Open, TypeOK, StageRecord, Done
<1>2. CASE exc = "soft" /\ Current.stage = "downsample"
  <2>1. todo' = Tail(Tail(todo))
    BY <1>2 DEF Propagate, SkipFrame, Continue
  <2>2. /\ FrameOnce(todo') /\ Ahead(todo', frames, Done)
        /\ Current.frame \in (1..frames) \ Done /\ Current.frame \notin FramesIn(todo')
    BY <1>1, <1>2, <2>1, SkipAhead DEF Current, ShortInv
  <2>3. Current.frame \in Cut'
    BY <2>2 DEF Cut, FramesIn, Done
  <2> QED
    BY <1>1, <2>2, <2>3
<1>3. CASE ~(exc = "soft" /\ Current.stage = "downsample")
  <2>1. todo' = todo /\ pc' = "ended" /\ verdict' = "failure"
    BY <1>3 DEF Propagate, End
  <2> QED
    BY <1>1, <2>1 DEF ShortInv
<1> QED
  BY <1>2, <1>3

\* Every step keeps the invariant.
LEMMA ShortStep == MediaInv /\ ShortInv /\ [Next]_vars => ShortInv'
<1> SUFFICES ASSUME MediaInv, ShortInv, [Next]_vars PROVE ShortInv'
  OBVIOUS
<1>1. /\ todo \in Seq(StageRecord) /\ PairedIn(todo) /\ frames \in Nat /\ Done \in SUBSET Nat
      /\ FrameOnce(todo) /\ Ahead(todo, frames, Done)
  BY DEF MediaInv, TypeOK, StageRecord, ShortInv, Done
<1>2. ASSUME UNCHANGED <<todo, frames, payloads, broken>>
      PROVE  /\ FrameOnce(todo') /\ Ahead(todo', frames', Done') /\ Cut' = Cut
  BY <1>1, <1>2 DEF Done, Cut
<1>3. CASE UNCHANGED <<todo, frames, payloads, broken, limits, pc, verdict>>
  BY <1>2, <1>3 DEF ShortInv, Swallowed
<1>4. CASE Submit
  BY <1>2, <1>4 DEF Submit, ShortInv, Swallowed
<1>5. CASE StageReturns
  <2>1. pc = "waiting" /\ UNCHANGED <<broken, limits>> /\ todo # <<>>
    BY <1>5 DEF StageReturns, MediaInv, Open
  <2>2. Current = todo[1] /\ 1 \in DOMAIN todo
    BY <1>1, <2>1 DEF Current
  <2>6. Current.frame \in FramesIn(todo)
    BY <2>2 DEF FramesIn
  <2>3. limits # {} => Cut # {}
    BY <2>1 DEF ShortInv, Swallowed
  <2>4. CASE Current.stage = "sample"
    <3>1. PICK n \in 0..MaxFrames : frames' = n /\ todo' = FrameStages(n)
      BY <1>5, <2>4 DEF StageReturns, Continue
    <3>2. n \in Nat
      BY MediaAssumption
    <3>3. Done = {} /\ frames = 0
      BY <1>1, <2>2, <2>4 DEF Ahead
    <3>4. Cut = {}
      BY <3>3 DEF Cut
    <3>5. Done' = {}
      BY <1>5, <2>1, <2>4, <3>3 DEF StageReturns, Done
    <3> QED
      BY <2>1, <2>3, <3>1, <3>2, <3>4, <3>5, FrameStagesAhead DEF ShortInv, Swallowed
  <2>5. CASE Current.stage # "sample"
    <3>1. todo' = Tail(todo) /\ frames' = frames
      BY <1>5, <2>5 DEF StageReturns, Continue
    <3>2. Done' = IF Current.stage \in {"ocr", "transcribe"}
                    THEN Done \cup {Current.frame} ELSE Done
      BY <1>5, <2>1 DEF StageReturns, Done
    <3>3. /\ FrameOnce(todo') /\ Ahead(todo', frames, Done)
          /\ FramesIn(todo') \subseteq FramesIn(todo)
          /\ Current.stage # "downsample" => Ahead(todo', frames, Done \cup {Current.frame})
      BY <1>1, <2>1, <3>1, TailAhead DEF Current
    <3>4. Ahead(todo', frames', Done')
      BY <3>1, <3>2, <3>3
    <3>5. Cut \subseteq Cut'
      BY <2>6, <3>1, <3>2, <3>3, CutStays
    <3> QED
      BY <2>1, <2>3, <3>3, <3>4, <3>5 DEF ShortInv, Swallowed
  <2> QED
    BY <2>4, <2>5
<1>6. CASE StageRaises
  <2>1. /\ pc = "waiting" /\ UNCHANGED <<frames, payloads, limits>> /\ todo # <<>>
        /\ thread = "raised"
    BY <1>6 DEF StageRaises, MediaInv, Open
  <2>2. Current.stage \in {"sample", "downsample", "decode"}
    BY <2>1 DEF MediaInv, Open, CanRaise
  <2>3. limits # {} => Cut # {}
    BY <2>1 DEF ShortInv, Swallowed
  <2>4. CASE Current.stage = "downsample"
    <3>1. todo' = Tail(Tail(todo)) /\ Done' = Done \cup {Current.frame}
      BY <1>6, <2>1, <2>4 DEF StageRaises, SkipFrame, Continue, Done
    <3>2. /\ FrameOnce(todo') /\ Ahead(todo', frames, Done \cup {Current.frame})
          /\ FramesIn(todo') \subseteq FramesIn(todo) /\ Current.frame \in FramesIn(todo)
      BY <1>1, <2>1, <2>4, <3>1, SkipAhead DEF Current
    <3>3. Cut \subseteq Cut'
      BY <2>1, <3>1, <3>2, CutStays
    <3> QED
      BY <2>1, <2>3, <3>1, <3>2, <3>3 DEF ShortInv, Swallowed
  <2>5. CASE Current.stage # "downsample"
    <3>1. todo' = todo /\ broken' = broken
      BY <1>6, <2>2, <2>5 DEF StageRaises, End
    <3> QED
      BY <1>2, <2>1, <2>3, <3>1 DEF ShortInv, Swallowed
  <2> QED
    BY <2>4, <2>5
<1>7. CASE StageTimeout
  BY <1>2, <1>7 DEF StageTimeout, ShortInv, Swallowed
<1>8. CASE Joined
  BY <1>8, PropagateShort DEF Joined, ShortInv, Swallowed
<1>9. CASE SoftLimit
  <2>1. UNCHANGED <<frames, payloads, broken>>
    BY <1>9 DEF SoftLimit
  <2>2. CASE pc = "joining"
    BY <1>9, <2>1, <2>2, PropagateShort DEF SoftLimit, ShortInv, Swallowed
  <2>3. CASE pc # "joining"
    <3>1. todo' = todo
      BY <1>9, <2>3 DEF SoftLimit, End
    <3>2. pc' = "joining" \/ (pc' = "ended" /\ verdict' = "failure")
      BY <1>9, <2>3 DEF SoftLimit, End
    <3> QED
      BY <1>2, <2>1, <3>1, <3>2 DEF ShortInv, Swallowed
  <2> QED
    BY <2>2, <2>3
<1>10. CASE HardKill
  BY <1>2, <1>10 DEF HardKill, End, ShortInv, Swallowed
<1>11. CASE Return
  BY <1>2, <1>11 DEF Return, End, ShortInv, Swallowed
<1> QED
  BY <1>3, <1>4, <1>5, <1>6, <1>7, <1>8, <1>9, <1>10, <1>11
  DEF Next, MainStep, ThreadEnds, StrandedEnds, Tick, vars

\* A task that succeeds although a limit fired is short of exactly one frame
\* that could be decoded.  An audio file has no frame to be short of: there a
\* limit never ends in success.
Missing == limits # {} /\ verdict = "ok" => Cardinality(Cut) = 1

\* Whatever limit fires and wherever, a success hides one lost frame and no
\* more.
THEOREM LateSuccessLosesAFrame == Spec => []Missing
<1>1. MediaInv /\ CutInv /\ ShortInv => Missing
  <2> SUFFICES ASSUME MediaInv, CutInv, ShortInv, limits # {}, verdict = "ok"
               PROVE  Cardinality(Cut) = 1
    BY DEF Missing
  <2>1. Cut # {}
    BY DEF ShortInv, Swallowed, MediaInv, Open
  <2>2. PICK c \in Nat : Cut \subseteq {c}
    BY DEF CutInv
  <2>3. Cut = {c}
    BY <2>1, <2>2
  <2> QED
    BY <2>3, FS_Singleton
<1> QED
  BY <1>1, CutInit, CutStep, ShortInit, ShortStep, MediaInvariance, PTL DEF Spec


(***************************************************************************)
(* Why the task ends.  Every step lowers a measure, in the lexicographic   *)
(* order of five numbers: the ticks to the hard limit, the stages to come, *)
(* where the main thread is, the threads that run, and the ticks to the    *)
(* limit of the stage.                                                     *)
(***************************************************************************)

\* sample_frames is the first stage of a video, or is over.
SampleFirst(s) == \A i \in 2..Len(s) : s[i].stage # "sample"

\* The stages to come at most.
Work(s) == IF s # <<>> /\ Head(s).stage = "sample" THEN 2 * MaxFrames + 1 ELSE Len(s)

Phase == CASE pc = "main" -> 3 [] pc = "waiting" -> 2 [] pc = "joining" -> 1 [] OTHER -> 0
Threads == (IF thread = "running" THEN 1 ELSE 0) + (IF stranded THEN 1 ELSE 0)

Measure ==
    [i \in 1..5 |-> CASE i = 1 -> HardLimit - elapsed
                      [] i = 2 -> Work(todo)
                      [] i = 3 -> Phase
                      [] i = 4 -> Threads
                      [] i = 5 -> Limit - stageAge]

Lower == LexProductOrdering(OpToRel(<, Nat), Nat, 5)
Falling == <<Measure', Measure>> \in Lower

\* No sequence of measures falls for ever.
LEMMA NoEndlessFall == IsWellFoundedOn(Lower, [1..5 -> Nat])
BY NatLessThanWellFounded, WFLexProductOrdering DEF Lower

\* The order, spelled out.
LEMMA Falls ==
    ASSUME NEW m \in [1..5 -> Nat], NEW n \in [1..5 -> Nat], NEW j \in 1..5,
           n[j] < m[j], \A i \in 1..(j - 1) : n[i] = m[i]
    PROVE  <<n, m>> \in Lower
BY DEF Lower, LexProductOrdering, OpToRel

\* Without its first stage a file has less to go through.
LEMMA TailWork ==
    ASSUME NEW s \in Seq(StageRecord), s # <<>>, SampleFirst(s)
    PROVE  /\ Tail(s) \in Seq(StageRecord) /\ SampleFirst(Tail(s))
           /\ Work(Tail(s)) = Len(s) - 1 /\ Len(s) \in Nat \ {0}
<1>1. /\ Tail(s) \in Seq(StageRecord) /\ Len(s) \in Nat \ {0} /\ Len(Tail(s)) = Len(s) - 1
      /\ \A i \in 1..(Len(s) - 1) : Tail(s)[i] = s[i + 1]
  OBVIOUS
<1>2. ASSUME NEW i \in 1..(Len(s) - 1) PROVE Tail(s)[i].stage # "sample"
  BY <1>1, <1>2 DEF SampleFirst
<1>3. Tail(s) # <<>> => Head(Tail(s)).stage # "sample"
  <2>1. SUFFICES ASSUME Tail(s) # <<>> PROVE Head(Tail(s)).stage # "sample"
    OBVIOUS
  <2>2. Len(Tail(s)) # 0
    BY <1>1, <2>1, EmptySeq
  <2>3. 1 \in 1..(Len(s) - 1)
    BY <1>1, <2>2
  <2>4. Head(Tail(s)) = Tail(s)[1]
    BY <1>1, <2>2
  <2> QED
    BY <1>2, <2>3, <2>4
<1> QED
  BY <1>1, <1>2, <1>3 DEF SampleFirst, Work

\* The stages that the frames add are fewer than the sampling stood for.
LEMMA FrameStagesWork ==
    ASSUME NEW n \in Nat
    PROVE  /\ SampleFirst(FrameStages(n))
           /\ n <= MaxFrames => Work(FrameStages(n)) < 2 * MaxFrames + 1
<1>1. 2 * n \in Nat /\ MaxFrames \in Nat
  BY MediaAssumption
<1>2. FrameStages(n) \in Seq(StageRecord) /\ Len(FrameStages(n)) = 2 * n
  BY <1>1, FrameStagesType, LenProperties DEF FrameStages
<1>3. \A i \in 1..(2 * n) : FrameStages(n)[i].stage # "sample"
  BY <1>1 DEF FrameStages, Stage
<1>4. FrameStages(n) # <<>> => Head(FrameStages(n)).stage # "sample"
  <2>1. SUFFICES ASSUME FrameStages(n) # <<>> PROVE Head(FrameStages(n)).stage # "sample"
    OBVIOUS
  <2>2. Head(FrameStages(n)) = FrameStages(n)[1] /\ 2 * n # 0
    BY <1>2, <2>1, EmptySeq
  <2> QED
    BY <1>1, <1>3, <2>2
<1> QED
  BY <1>1, <1>2, <1>3, <1>4 DEF SampleFirst, Work

\* Whatever leaves the join of a pool ends the task or drops a frame.
LEMMA PropagateWork ==
    ASSUME MediaInv, SampleFirst(todo), pc = "joining", NEW exc, Propagate(exc)
    PROVE  /\ SampleFirst(todo')
           /\ \/ pc' = "ended" /\ todo' = todo
              \/ Work(todo') < Work(todo)
<1>1. todo # <<>> /\ todo \in Seq(StageRecord) /\ PairedIn(todo)
  BY DEF MediaInv, Open, TypeOK, StageRecord
<1>2. CASE exc = "soft" /\ Current.stage = "downsample"
  <2>1. /\ Tail(todo) \in Seq(StageRecord) /\ SampleFirst(Tail(todo)) /\ Len(todo) \in Nat
        /\ Len(Tail(todo)) = Len(todo) - 1
    <3>1. Len(Tail(todo)) = Len(todo) - 1
      BY <1>1
    <3> QED
      BY <1>1, <3>1, TailWork
  <2>4. Tail(todo) # <<>>
    BY <1>1, <1>2, TailPaired DEF Current
  <2>2. SampleFirst(Tail(Tail(todo))) /\ Work(Tail(Tail(todo))) = Len(todo) - 2
    <3>1. SampleFirst(Tail(Tail(todo))) /\ Work(Tail(Tail(todo))) = Len(Tail(todo)) - 1
      BY <2>1, <2>4, TailWork
    <3> QED
      BY <2>1, <3>1
  <2>3. Work(todo) = Len(todo)
    BY <1>2 DEF Work, Current
  <2> QED
    <3>1. todo' = Tail(Tail(todo))
      BY <1>2 DEF Propagate, SkipFrame, Continue
    <3>2. Work(Tail(Tail(todo))) < Work(todo)
      BY <2>1, <2>2, <2>3
    <3> QED
      BY <2>2, <3>1, <3>2
<1>3. CASE ~(exc = "soft" /\ Current.stage = "downsample")
  BY <1>3 DEF Propagate, End
<1> QED
  BY <1>2, <1>3

\* The five numbers.
LEMMA MeasureType == MediaInv => Measure \in [1..5 -> Nat]
<1> SUFFICES ASSUME MediaInv PROVE Measure \in [1..5 -> Nat]
  OBVIOUS
<1>1. HardLimit - elapsed \in Nat /\ Limit - stageAge \in Nat
  BY MediaAssumption DEF MediaInv, TypeOK, HardLimit
<1>2. Work(todo) \in Nat
  BY MediaAssumption, LenProperties DEF MediaInv, TypeOK, Work
<1>3. Phase \in Nat /\ Threads \in Nat
  BY DEF Phase, Threads
<1> QED
  BY <1>1, <1>2, <1>3 DEF Measure

\* Every step lowers the first number it changes.
LEMMA MeasureFalls ==
    ASSUME MediaInv, SampleFirst(todo), Next, Measure \in [1..5 -> Nat], Measure' \in [1..5 -> Nat]
    PROVE  SampleFirst(todo') /\ (Falling \/ UNCHANGED vars)
<1>1. /\ Measure[1] = HardLimit - elapsed /\ Measure'[1] = HardLimit - elapsed'
      /\ Measure[2] = Work(todo) /\ Measure'[2] = Work(todo')
      /\ Measure[3] = Phase /\ Measure'[3] = Phase'
      /\ Measure[4] = Threads /\ Measure'[4] = Threads'
      /\ Measure[5] = Limit - stageAge /\ Measure'[5] = Limit - stageAge'
  BY DEF Measure, HardLimit, Work
<1>2. /\ elapsed \in 0..HardLimit /\ stageAge \in 0..Limit /\ HardLimit \in Nat /\ Limit \in Nat
      /\ todo \in Seq(StageRecord) /\ pc \in {"main", "waiting", "joining", "ended"}
      /\ thread \in {"idle", "running", "returned", "raised"} /\ stranded \in BOOLEAN
      /\ pc \in {"waiting", "joining"} => todo # <<>>
      /\ pc = "main" => thread = "idle"
  BY MediaAssumption DEF MediaInv, TypeOK, HardLimit, Open, StageRecord
<1>3. ASSUME elapsed' = elapsed, Work(todo') < Work(todo)
      PROVE  Falling
  BY <1>1, <1>3, Falls DEF Falling
<1>4. ASSUME elapsed' = elapsed, todo' = todo, Phase' < Phase
      PROVE  Falling
  BY <1>1, <1>4, Falls DEF Falling
<1>5. CASE Submit \/ StageTimeout \/ Return \/ HardKill
  <2>1. elapsed' = elapsed /\ todo' = todo
    BY <1>5 DEF Submit, StageTimeout, Return, HardKill, End, clocks
  <2>2. \/ pc = "main" /\ pc' = "waiting"
        \/ pc = "waiting" /\ pc' = "joining"
        \/ pc \in {"main", "waiting", "joining"} /\ pc' = "ended"
    BY <1>2, <1>5 DEF Submit, StageTimeout, Return, HardKill, End
  <2>3. Phase' < Phase
    BY <2>2 DEF Phase
  <2> QED
    BY <1>4, <2>1, <2>3
<1>6. CASE ThreadEnds \/ StrandedEnds
  <2>1. elapsed' = elapsed /\ todo' = todo /\ pc' = pc
    BY <1>6 DEF ThreadEnds, StrandedEnds, clocks
  <2>2. Threads' < Threads
    BY <1>2, <1>6 DEF ThreadEnds, StrandedEnds, Threads
  <2>3. Phase' = Phase
    BY <2>1 DEF Phase
  <2> QED
    BY <1>1, <2>1, <2>2, <2>3, Falls, SMTT(30) DEF Falling
<1>7. CASE Joined
  <2>1. elapsed' = elapsed /\ pc = "joining" /\ Propagate(raising)
    BY <1>7 DEF Joined, clocks
  <2>2. /\ SampleFirst(todo')
        /\ \/ pc' = "ended" /\ todo' = todo
           \/ Work(todo') < Work(todo)
    BY <2>1, PropagateWork
  <2>3. pc' = "ended" => Phase' < Phase
    BY <2>1 DEF Phase
  <2> QED
    BY <1>3, <1>4, <2>1, <2>2, <2>3
<1>8. CASE SoftLimit
  <2>1. elapsed' = elapsed
    BY <1>8 DEF SoftLimit, clocks
  <2>2. CASE pc \in {"main", "waiting"}
    <3>1. todo' = todo /\ Phase' < Phase
      BY <1>8, <2>2 DEF SoftLimit, End, Phase
    <3> QED
      BY <1>4, <2>1, <3>1
  <2>3. CASE pc = "joining"
    <3>1. Propagate("soft")
      BY <1>8, <2>3 DEF SoftLimit
    <3>2. /\ SampleFirst(todo')
          /\ \/ pc' = "ended" /\ todo' = todo
             \/ Work(todo') < Work(todo)
      BY <2>3, <3>1, PropagateWork
    <3>3. pc' = "ended" => Phase' < Phase
      BY <2>3 DEF Phase
    <3> QED
      BY <1>3, <1>4, <2>1, <3>2, <3>3
  <2> QED
    BY <1>2, <1>8, <2>2, <2>3 DEF SoftLimit
<1>9. CASE StageReturns
  <2>1. elapsed' = elapsed /\ todo # <<>>
    BY <1>2, <1>9 DEF StageReturns, clocks
  <2>2. CASE Current.stage = "sample"
    <3>1. PICK n \in Nat : n <= MaxFrames /\ todo' = FrameStages(n)
      BY <1>9, <2>2, MediaAssumption DEF StageReturns, Continue
    <3>2. Work(todo) = 2 * MaxFrames + 1
      BY <2>1, <2>2 DEF Work, Current
    <3> QED
      BY <1>3, <2>1, <3>1, <3>2, FrameStagesWork
  <2>3. CASE Current.stage # "sample"
    <3>1. todo' = Tail(todo)
      BY <1>9, <2>3 DEF StageReturns, Continue
    <3>2. Work(todo) = Len(todo)
      BY <2>3 DEF Work, Current
    <3> QED
      BY <1>2, <1>3, <2>1, <3>1, <3>2, TailWork
  <2> QED
    BY <2>2, <2>3
<1>10. CASE StageRaises
  <2>1. elapsed' = elapsed /\ todo # <<>> /\ pc = "waiting" /\ thread = "raised"
    BY <1>2, <1>10 DEF StageRaises, clocks
  <2>2. CASE Current.stage = "downsample"
    <3>1. todo' = Tail(Tail(todo)) /\ Work(todo) = Len(todo)
      BY <1>10, <2>2 DEF StageRaises, SkipFrame, Continue, Work, Current
    <3>2. /\ Tail(todo) \in Seq(StageRecord) /\ SampleFirst(Tail(todo))
          /\ Len(todo) \in Nat /\ Len(Tail(todo)) = Len(todo) - 1
      <4>1. Len(Tail(todo)) = Len(todo) - 1
        BY <1>2, <2>1
      <4> QED
        BY <1>2, <2>1, <4>1, TailWork
    <3>3. Tail(todo) # <<>>
      BY <1>2, <2>1, <2>2, TailPaired DEF Current, MediaInv
    <3>4. SampleFirst(Tail(Tail(todo))) /\ Work(Tail(Tail(todo))) = Len(Tail(todo)) - 1
      BY <3>2, <3>3, TailWork
    <3>5. Work(todo') < Work(todo)
      BY <3>1, <3>2, <3>4
    <3> QED
      BY <1>3, <2>1, <3>1, <3>4, <3>5
  <2>3. CASE Current.stage # "downsample"
    <3>1. Current.stage \in {"decode", "sample"}
      BY <2>1, <2>3 DEF MediaInv, Open, CanRaise
    <3>2. pc' = "ended" /\ todo' = todo
      BY <1>10, <3>1 DEF StageRaises, End
    <3>3. Phase' < Phase
      BY <2>1, <3>2 DEF Phase
    <3> QED
      BY <1>4, <2>1, <3>2, <3>3
  <2> QED
    BY <2>2, <2>3
<1>11. CASE Tick
  <2>1. todo' = todo /\ pc' = pc /\ thread' = thread /\ stranded' = stranded
    BY <1>11 DEF Tick
  <2>2. Phase' = Phase /\ Threads' = Threads
    BY <2>1 DEF Phase, Threads
  <2>3. CASE elapsed < HardLimit
    <3>1. elapsed' = elapsed + 1
      BY <1>11, <2>3 DEF Tick
    <3> QED
      BY <1>1, <1>2, <2>1, <3>1, Falls, SMTT(30) DEF Falling
  <2>4. CASE ~(elapsed < HardLimit) /\ stageAge < Limit
    <3>1. elapsed' = elapsed /\ stageAge' = stageAge + 1
      BY <1>11, <2>4 DEF Tick
    <3> QED
      BY <1>1, <1>2, <2>1, <2>2, <3>1, Falls DEF Falling
  <2>5. CASE ~(elapsed < HardLimit) /\ ~(stageAge < Limit)
    BY <1>11, <2>1, <2>5 DEF Tick, vars
  <2> QED
    BY <2>1, <2>3, <2>4, <2>5
<1> QED
  BY <1>5, <1>6, <1>7, <1>8, <1>9, <1>10, <1>11 DEF Next, MainStep

\* No media task goes on for ever, hanging stages or not: every step lowers a
\* measure that cannot fall for ever.
THEOREM MediaRunsOut ==
    /\ IsWellFoundedOn(Lower, [1..5 -> Nat])
    /\ Spec => [](Measure \in [1..5 -> Nat])
    /\ Spec => [][Falling]_vars
<1>1. Init => SampleFirst(todo)
  <2>1. Len(<<Stage("sample", 0)>>) = 1 /\ Len(<<Stage("decode", 0), Stage("transcribe", 0)>>) = 2
        /\ <<Stage("decode", 0), Stage("transcribe", 0)>>[2] = Stage("transcribe", 0)
    OBVIOUS
  <2>2. SampleFirst(FrameStages(1))
    BY FrameStagesWork
  <2>3. SUFFICES ASSUME Init PROVE SampleFirst(Route(kind))
    BY DEF Init, SampleFirst
  <2>4. CASE kind = "image"
    BY <2>2, <2>4 DEF Route, SampleFirst
  <2>5. CASE kind = "video"
    BY <2>1, <2>5 DEF Route, SampleFirst
  <2>6. CASE kind = "audio"
    <3>1. Stage("transcribe", 0).stage = "transcribe"
      BY DEF Stage
    <3> QED
      BY <2>1, <2>6, <3>1 DEF Route, SampleFirst
  <2> QED
    BY <2>3, <2>4, <2>5, <2>6 DEF Init, Kinds
<1>2. Spec => [](Measure \in [1..5 -> Nat])
  BY MediaInvariance, MeasureType, PTL
<1>3. ASSUME MediaInv, SampleFirst(todo), [Next]_vars,
             Measure \in [1..5 -> Nat], (Measure \in [1..5 -> Nat])'
      PROVE  SampleFirst(todo)' /\ [Falling]_vars
  <2>1. CASE Next
    <3>1. SampleFirst(todo') /\ (Falling \/ UNCHANGED vars)
      BY <1>3, <2>1, MeasureFalls
    <3> QED
      BY <3>1 DEF SampleFirst
  <2>2. CASE UNCHANGED vars
    <3>1. todo' = todo
      BY <2>2 DEF vars
    <3> QED
      BY <1>3, <2>2, <3>1 DEF SampleFirst
  <2> QED
    BY <1>3, <2>1, <2>2
<1> QED
  BY <1>1, <1>2, <1>3, MediaInvariance, NoEndlessFall, PTL DEF Spec
=============================================================================
