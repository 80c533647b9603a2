---------------------- MODULE ReasoningRouter_proofs -----------------------
(***************************************************************************)
(* Proofs about the router and its breaker, for every threshold, cooldown, *)
(* route and configuration.                                                *)
(***************************************************************************)
EXTENDS ReasoningRouter, SequenceTheorems, TLAPS

\* The breaker's methods, wherever they are called, keep its type and the
\* rule that it is open (or half open) exactly from the Threshold-th failure.
LEMMA BreakerSteps ==
    ASSUME BreakerType, TripsAtThreshold,
           BeforeCall \/ RecordSuccess \/ RecordFailure \/ Pass \/ Recycled
             \/ UNCHANGED breakerVars
    PROVE  BreakerType' /\ TripsAtThreshold'
<1> USE BreakerAssumption DEF BreakerType, TripsAtThreshold
<1>1. CASE BeforeCall
  BY <1>1 DEF BeforeCall
<1>2. CASE RecordSuccess
  BY <1>2 DEF RecordSuccess
<1>3. CASE RecordFailure
  BY <1>3 DEF RecordFailure, OneMore
<1>4. CASE Pass
  BY <1>4 DEF Pass, Elapsed
<1>5. CASE Recycled
  BY <1>5 DEF Recycled, NewBreaker
<1>6. CASE UNCHANGED breakerVars
  BY <1>6 DEF breakerVars
<1> QED
  BY <1>1, <1>2, <1>3, <1>4, <1>5, <1>6

\* Every step of the router uses the breaker through its methods only.
LEMMA BreakerUse ==
    ASSUME [Next]_vars
    PROVE  BeforeCall \/ RecordSuccess \/ RecordFailure \/ Pass \/ Recycled
             \/ UNCHANGED breakerVars
BY DEF Next, vars, StartQuery, RouteStep, Skip, CallLocal, CallCloud, CallSucceeds,
       CallFails, CallMalformed, CallTimesOut, Fallback, Recycle, Tick, Flip

\* The circuit trips at the threshold and at no other time, however calls,
\* probes, ticks and recycled children interleave.
THEOREM TripsAtThresholdHolds == Spec => []TripsAtThreshold
<1> DEFINE I == BreakerType /\ TripsAtThreshold
<1>1. Init => I
  BY BreakerAssumption DEF Init, BreakerInit, NewBreaker, BreakerType, TripsAtThreshold
<1>2. I /\ [Next]_vars => I'
  BY BreakerSteps, BreakerUse
<1> QED
  BY <1>1, <1>2, PTL DEF Spec

\* The route is a sequence of backbones.
LEMMA OrderType == Order \in Seq(Backbones)
<1>1. <<"openai", "anthropic">> \in Seq(Backbones)
  BY DEF Backbones, Cloud
<1>2. <<"anthropic", "openai">> \in Seq(Backbones)
  BY DEF Backbones, Cloud
<1>3. <<"local">> \in Seq(Backbones)
  BY DEF Backbones
<1>4. <<"local", "openai", "anthropic">> \in Seq(Backbones)
  BY DEF Backbones, Cloud
<1> QED
  BY <1>1, <1>2, <1>3, <1>4, RouterAssumption DEF Order

\* A call in flight is the call of the backbone at the head of the route.
CallOK == pc = "calling" => todo # <<>> /\ state # "open" /\ Head(todo) \in Cloud

\* The observers count what the breaker counts.  While the count is at the
\* threshold the last failure is the one that opened the circuit, and a
\* circuit that is half open has waited for its cooldown.
CoolOK ==
    /\ missed \in 0..Threshold /\ quiet \in 0..Cooldown
    /\ missed = failures
    /\ failures = Threshold => quiet = age
    /\ state = "half_open" => Elapsed

\* A new child has nothing to wait for.
LEMMA CoolInit == Init => CoolOK
BY BreakerAssumption DEF Init, BreakerInit, NewBreaker, CoolOK

\* The observers keep up with the breaker.
LEMMA CoolStep ==
    ASSUME BreakerType, TripsAtThreshold, CoolOK, [Next]_vars
    PROVE  CoolOK'
<1> USE BreakerAssumption DEF BreakerType, TripsAtThreshold, CoolOK, Elapsed
<1>1. CASE CallCloud
  BY <1>1 DEF CallCloud, BeforeCall, Refuses, history
<1>2. CASE CallSucceeds \/ CallMalformed
  BY <1>2 DEF CallSucceeds, CallMalformed, RecordSuccess
<1>3. CASE CallFails
  BY <1>3 DEF CallFails, RecordFailure, OneMore, Missed
<1>4. CASE Recycle
  BY <1>4 DEF Recycle, Recycled, NewBreaker
<1>5. CASE Tick
  BY <1>5 DEF Tick, Pass
<1>6. CASE UNCHANGED <<breakerVars, history>>
  BY <1>6 DEF breakerVars, history
<1>7. StartQuery \/ Skip \/ CallLocal \/ CallTimesOut \/ Fallback
        \/ (\E p \in Backbones : Flip(p)) \/ UNCHANGED vars
          => UNCHANGED <<breakerVars, history>>
  BY DEF StartQuery, Skip, CallLocal, CallTimesOut, Fallback, Flip, vars
<1> QED
  BY <1>1, <1>2, <1>3, <1>4, <1>5, <1>6, <1>7 DEF Next, RouteStep

RInv == TypeOK /\ TripsAtThreshold /\ CallOK /\ CoolOK

\* The invariant holds in a new child.
LEMMA RInvInit == Init => RInv
<1> SUFFICES ASSUME Init PROVE RInv
  OBVIOUS
<1>1. BreakerType /\ TripsAtThreshold
  BY BreakerAssumption DEF Init, BreakerInit, NewBreaker, BreakerType, TripsAtThreshold
<1>2. <<>> \in Seq(Backbones)
  OBVIOUS
<1>3. CoolOK /\ missed \in 0..Threshold /\ quiet \in 0..Cooldown
  BY CoolInit DEF CoolOK
<1> QED
  BY <1>1, <1>2, <1>3 DEF Init, RInv, TypeOK, CallOK

\* Every step of a query, of the clock and of the backbones keeps the invariant.
LEMMA RInvStep == RInv /\ [Next]_vars => RInv'
<1> SUFFICES ASSUME RInv, [Next]_vars PROVE RInv'
  OBVIOUS
<1>1. /\ BreakerType' /\ TripsAtThreshold' /\ CoolOK'
      /\ missed' \in 0..Threshold /\ quiet' \in 0..Cooldown
  <2>1. BreakerType' /\ TripsAtThreshold'
    BY BreakerSteps, BreakerUse DEF RInv, TypeOK
  <2>2. CoolOK'
    BY CoolStep DEF RInv, TypeOK
  <2> QED
    BY <2>1, <2>2 DEF CoolOK
<1>2. todo # <<>> => Head(todo) \in Backbones /\ Tail(todo) \in Seq(Backbones)
  BY DEF RInv, TypeOK
<1>3. <<>> \in Seq(Backbones)
  OBVIOUS
<1>4. CASE UNCHANGED vars
  BY <1>1, <1>4 DEF vars, breakerVars, RInv, TypeOK, CallOK
<1>5. CASE StartQuery
  BY <1>1, <1>5, OrderType DEF StartQuery, breakerVars, RInv, TypeOK, CallOK
<1>6. CASE Skip
  BY <1>1, <1>2, <1>6 DEF Skip, Trying, breakerVars, RInv, TypeOK, CallOK
<1>7. CASE CallLocal
  BY <1>1, <1>2, <1>3, <1>7
  DEF CallLocal, Trying, Finish, breakerVars, RInv, TypeOK, CallOK, Backbones
<1>8. CASE CallCloud
  BY <1>1, <1>2, <1>8
  DEF CallCloud, Trying, BeforeCall, RInv, TypeOK, CallOK, Next1
<1>9. CASE CallSucceeds \/ CallMalformed \/ CallTimesOut
  BY <1>1, <1>2, <1>3, <1>9
  DEF CallSucceeds, CallMalformed, CallTimesOut, Finish, RInv, TypeOK, CallOK, Next1
<1>10. CASE CallFails
  BY <1>1, <1>2, <1>10 DEF CallFails, RInv, TypeOK, CallOK, Next1
<1>11. CASE Fallback
  BY <1>1, <1>3, <1>11 DEF Fallback, Finish, RInv, TypeOK, CallOK
<1>12. CASE Recycle
  BY <1>1, <1>12 DEF Recycle, RInv, TypeOK, CallOK
<1>13. CASE Tick
  BY <1>1, <1>13 DEF Tick, Pass, RInv, TypeOK, CallOK
<1>14. ASSUME NEW p \in Backbones, Flip(p) PROVE RInv'
  BY <1>1, <1>14 DEF Flip, breakerVars, RInv, TypeOK, CallOK
<1> QED
  BY <1>4, <1>5, <1>6, <1>7, <1>8, <1>9, <1>10, <1>11, <1>12, <1>13, <1>14
  DEF Next, RouteStep

\* Every variable of the router keeps its type.
THEOREM RouterTypeCorrect == Spec => []TypeOK
<1>1. RInv => TypeOK
  BY DEF RInv
<1> QED
  BY <1>1, RInvInit, RInvStep, PTL DEF Spec

\* After Threshold failures in a row, or a probe that failed, no cloud call
\* starts before the cooldown is over.
THEOREM NoCallInCooldownHolds == Spec => NoCallInCooldown
<1>1. RInv /\ [Next]_vars =>
        [pc # "calling" /\ pc' = "calling" => missed < Threshold \/ quiet >= Cooldown]_vars
  <2> SUFFICES ASSUME RInv, [Next]_vars, pc # "calling", pc' = "calling", missed >= Threshold
               PROVE  quiet >= Cooldown
    BY BreakerAssumption DEF RInv, TypeOK
  <2>1. CallCloud
    BY DEF Next, vars, RouteStep, StartQuery, Skip, Trying, CallLocal, CallSucceeds,
       CallFails, CallMalformed, CallTimesOut, Fallback, Finish, Recycle, Tick, Flip
  <2>2. state # "closed" /\ failures = Threshold
    BY BreakerAssumption DEF RInv, TypeOK, BreakerType, TripsAtThreshold, CoolOK
  <2>3. Elapsed
    BY <2>1, <2>2 DEF RInv, TypeOK, BreakerType, CoolOK, CallCloud, BeforeCall, Refuses
  <2> QED
    BY <2>2, <2>3 DEF RInv, CoolOK, Elapsed
<1> QED
  BY <1>1, RInvInit, RInvStep, PTL DEF Spec, NoCallInCooldown

Elements(s) == {s[i] : i \in DOMAIN s}

\* Taking the head off a route loses at most the head.
LEMMA TailKeeps ==
    ASSUME NEW s \in Seq(Backbones), s # <<>>
    PROVE  Elements(s) \subseteq {Head(s)} \cup Elements(Tail(s))
<1> SUFFICES ASSUME NEW i \in 1..Len(s), i # 1
             PROVE  s[i] \in Elements(Tail(s))
  BY DEF Elements
<1>1. i - 1 \in DOMAIN Tail(s)
  OBVIOUS
<1>2. Tail(s)[i - 1] = s[i]
  OBVIOUS
<1> QED
  BY <1>1, <1>2, Zenon DEF Elements

\* While a query runs, a backbone that could have answered it is still on
\* the route, or it was passed over behind an open circuit, which at most
\* the probe in flight holds half open.
KeptOnRoute ==
    pc # "idle" => \A h \in Healthy :
        \/ h \in Elements(todo)
        \/ state = "open"
        \/ pc = "calling" /\ state = "half_open"

RouteInv == RInv /\ steady \subseteq up /\ KeptOnRoute

\* KeptOnRoute and its companions are inductive.
LEMMA RouteInvStep == RouteInv /\ [Next]_vars => RouteInv'
<1> SUFFICES ASSUME RouteInv, [Next]_vars PROVE RouteInv'
  OBVIOUS
<1>1. RInv'
  BY RInvStep DEF RouteInv
<1>2. steady' \subseteq up'
  BY DEF RouteInv, Next, vars, StartQuery, RouteStep, Skip, CallLocal, CallCloud,
     CallSucceeds, CallFails, CallMalformed, CallTimesOut, Fallback, Recycle, Tick, Flip
<1>3. SUFFICES ASSUME pc' # "idle", NEW h \in Healthy'
               PROVE  \/ h \in Elements(todo')
                      \/ state' = "open"
                      \/ pc' = "calling" /\ state' = "half_open"
  BY <1>1, <1>2 DEF RouteInv, KeptOnRoute
<1>4. h \in Configured /\ h \in steady' /\ h \in Elements(Order)
  BY DEF Healthy, Elements
<1>5. pc # "idle" /\ h \in steady =>
          h \in Elements(todo) \/ state = "open" \/ (pc = "calling" /\ state = "half_open")
  BY <1>4 DEF RouteInv, KeptOnRoute, Healthy, Elements
<1>6. todo # <<>> => Elements(todo) \subseteq {Head(todo)} \cup Elements(Tail(todo))
  BY TailKeeps DEF RouteInv, RInv, TypeOK
<1>7. steady \subseteq up
  BY DEF RouteInv
<1>8. CASE UNCHANGED vars
  BY <1>3, <1>4, <1>5, <1>8 DEF vars, breakerVars
<1>9. CASE StartQuery
  BY <1>4, <1>9 DEF StartQuery
<1>10. CASE Skip
  BY <1>4, <1>5, <1>6, <1>10 DEF Skip, Trying, Next1, Refuses, breakerVars
<1>11. CASE CallLocal
  BY <1>3, <1>4, <1>5, <1>6, <1>7, <1>11 DEF CallLocal, Trying, Next1, Finish, breakerVars
<1>12. CASE CallCloud
  BY <1>4, <1>5, <1>12 DEF CallCloud, Trying, BeforeCall
<1>13. CASE CallFails
  BY <1>4, <1>5, <1>6, <1>7, <1>13 DEF CallFails, Next1, RecordFailure, RouteInv, RInv, CallOK
<1>14. CASE CallSucceeds \/ CallMalformed \/ CallTimesOut \/ Fallback
  BY <1>3, <1>14 DEF CallSucceeds, CallMalformed, CallTimesOut, Fallback, Finish
<1>15. CASE Recycle
  BY <1>3, <1>15 DEF Recycle
<1>16. CASE Tick
  BY <1>3, <1>4, <1>5, <1>16 DEF Tick, Pass
<1>17. ASSUME NEW p \in Backbones, Flip(p)
       PROVE  h \in Elements(todo') \/ state' = "open" \/ (pc' = "calling" /\ state' = "half_open")
  BY <1>3, <1>4, <1>5, <1>17 DEF Flip, breakerVars
<1> QED
  BY <1>8, <1>9, <1>10, <1>11, <1>12, <1>13, <1>14, <1>15, <1>16, <1>17 DEF Next, RouteStep

\* The summary hides a healthy backbone only behind the open circuit.
THEOREM FallbackOnlyBehindBreakerHolds == Spec => []FallbackOnlyBehindBreaker
<1>1. Init => RouteInv
  BY RInvInit DEF Init, RouteInv, KeptOnRoute
<1>2. RouteInv => FallbackOnlyBehindBreaker
  BY DEF RouteInv, KeptOnRoute, FallbackOnlyBehindBreaker, AboutToFallBack, Elements
<1> QED
  BY <1>1, <1>2, RouteInvStep, PTL DEF Spec

-----------------------------------------------------------------------------
(***************************************************************************)
(* One provider.  FallbackMeansUnreachable fails for two providers behind  *)
(* one breaker.  With the key of one of them it holds: nothing but a call  *)
(* of its own can open the circuit that let it pass.                       *)
(***************************************************************************)

OneProvider == \E p \in Cloud : Configured \cap Cloud \subseteq {p}

\* The backbone in flight has a key.  A query that may probe keeps the
\* healthy backbones on its route, and the breaker goes on letting calls
\* pass while one of them is a provider.
SoleProviderOK ==
    /\ pc = "calling" => Next1 \in Configured
    /\ pc # "idle" /\ probing =>
         \A h \in Healthy : h \in Elements(todo) /\ (h \in Cloud => ~Refuses)

ProbeInv == RouteInv /\ SoleProviderOK

\* The strengthened invariant is inductive.
LEMMA ProbeInvStep ==
    ASSUME OneProvider, ProbeInv, [Next]_vars
    PROVE  ProbeInv'
<1>1. RouteInv'
  BY RouteInvStep DEF ProbeInv
<1>2. steady \subseteq up
  BY DEF ProbeInv, RouteInv
<1>3. todo # <<>> => Elements(todo) \subseteq {Head(todo)} \cup Elements(Tail(todo))
  BY TailKeeps DEF ProbeInv, RouteInv, RInv, TypeOK
<1>4. pc' = "calling" => Next1' \in Configured
  <2>1. CASE CallCloud
    BY <2>1 DEF CallCloud, Next1
  <2>2. ASSUME pc' = "calling", ~CallCloud
        PROVE  pc = "calling" /\ todo' = todo
    BY <2>2 DEF Next, vars, RouteStep, StartQuery, Skip, Trying, CallLocal, CallSucceeds,
       CallFails, CallMalformed, CallTimesOut, Fallback, Finish, Recycle, Tick, Flip
  <2> QED
    BY <2>1, <2>2 DEF ProbeInv, SoleProviderOK, Next1
<1>5. SUFFICES ASSUME pc' # "idle", probing', NEW h \in Healthy'
               PROVE  h \in Elements(todo') /\ (h \in Cloud => ~Refuses')
  BY <1>1, <1>4 DEF ProbeInv, SoleProviderOK
<1>6. h \in Configured /\ h \in steady' /\ h \in Elements(Order)
  BY DEF Healthy, Elements
<1>7. pc # "idle" /\ probing /\ h \in steady =>
          h \in Elements(todo) /\ (h \in Cloud => ~Refuses)
  BY <1>6 DEF ProbeInv, SoleProviderOK, Healthy, Elements
<1>8. h \in Cloud => \A p \in Cloud \cap Configured : p = h
  BY <1>6 DEF OneProvider
<1>9. CASE UNCHANGED vars
  BY <1>5, <1>6, <1>7, <1>9 DEF vars, breakerVars, Refuses, Elapsed
<1>10. CASE StartQuery
  BY <1>5, <1>6, <1>10 DEF StartQuery, breakerVars, Refuses, Elapsed
<1>11. CASE Skip
  BY <1>3, <1>5, <1>6, <1>7, <1>11 DEF Skip, Trying, Next1, breakerVars, Refuses, Elapsed
<1>12. CASE CallLocal
  BY <1>2, <1>3, <1>5, <1>6, <1>7, <1>12
  DEF CallLocal, Trying, Next1, Finish, breakerVars, Refuses, Elapsed
<1>13. CASE CallCloud
  BY <1>5, <1>6, <1>7, <1>13 DEF CallCloud, Trying, BeforeCall, Refuses
<1>14. CASE CallFails
  <2>1. Next1 \in Cloud /\ Next1 \in Configured /\ Next1 \notin up /\ todo # <<>>
    BY <1>14 DEF CallFails, ProbeInv, SoleProviderOK, RouteInv, RInv, CallOK, Next1
  <2>2. steady' = steady /\ pc # "idle" /\ probing
    BY <1>5, <1>14 DEF CallFails
  <2>3. h # Next1
    BY <1>2, <1>6, <2>1, <2>2
  <2>4. h \notin Cloud
    BY <1>8, <2>1, <2>3
  <2> QED
    BY <1>3, <1>6, <1>7, <1>14, <2>1, <2>2, <2>3, <2>4 DEF CallFails, Next1
<1>15. CASE CallSucceeds \/ CallMalformed \/ CallTimesOut \/ Fallback
  BY <1>5, <1>15 DEF CallSucceeds, CallMalformed, CallTimesOut, Fallback, Finish
<1>16. CASE Recycle
  BY <1>5, <1>16 DEF Recycle
<1>17. CASE Tick
  <2>1. BreakerType
    BY DEF ProbeInv, RouteInv, RInv, TypeOK
  <2> QED
    BY <1>5, <1>6, <1>7, <1>17, <2>1, BreakerAssumption
    DEF Tick, Pass, Refuses, Elapsed, BreakerType
<1>18. ASSUME NEW p \in Backbones, Flip(p)
       PROVE  h \in Elements(todo') /\ (h \in Cloud => ~Refuses')
  BY <1>5, <1>6, <1>7, <1>18 DEF Flip, breakerVars, Refuses, Elapsed
<1> QED
  BY <1>9, <1>10, <1>11, <1>12, <1>13, <1>14, <1>15, <1>16, <1>17, <1>18
  DEF Next, RouteStep

\* A query that may probe falls back past no reachable backbone, provided
\* that only one provider has a key: what refutes the promise for two of
\* them is that they share the breaker.
THEOREM OneProviderReached ==
    OneProvider => (Spec => []FallbackMeansUnreachable)
<1> SUFFICES ASSUME OneProvider
             PROVE  Spec => []FallbackMeansUnreachable
  OBVIOUS
<1>1. Init => ProbeInv
  BY RInvInit DEF Init, ProbeInv, SoleProviderOK, RouteInv, KeptOnRoute
<1>2. ProbeInv /\ [Next]_vars => ProbeInv'
  BY ProbeInvStep
<1>3. ProbeInv => FallbackMeansUnreachable
  BY DEF ProbeInv, SoleProviderOK, FallbackMeansUnreachable, AboutToFallBack, Elements
<1> QED
  BY <1>1, <1>2, <1>3, PTL DEF Spec

(***************************************************************************)
(* Why a query ends: it has a backbone less to try after at most two       *)
(* steps, and nothing but its own steps changes what it has left.          *)
(***************************************************************************)

\* The steps a query still takes at most.
StepsLeft ==
    CASE pc = "routing" -> 2 * Len(todo) + 1
      [] pc = "calling" -> 2 * Len(todo)
      [] OTHER -> 0

RouteRunsDown ==
    /\ RouteStep => StepsLeft' < StepsLeft
    /\ RouteStep \/ StartQuery \/ StepsLeft' = StepsLeft

\* No route has more than three backbones.
LEMMA OrderLength == Len(Order) \in 1..3
<1>1. /\ Len(<<"openai", "anthropic">>) = 2 /\ Len(<<"anthropic", "openai">>) = 2
      /\ Len(<<"local">>) = 1 /\ Len(<<"local", "openai", "anthropic">>) = 3
  OBVIOUS
<1> QED
  BY <1>1, RouterAssumption DEF Order

\* The tail of a route is shorter by one.
LEMMA TailLength ==
    ASSUME TypeOK, todo # <<>>
    PROVE  Len(todo) \in Nat \ {0} /\ Len(Tail(todo)) = Len(todo) - 1
<1>1. todo \in Seq(Backbones)
  BY DEF TypeOK
<1> QED
  BY <1>1, EmptySeq, LenProperties

\* Every step of the route leaves less of it, no other step but the start of
\* a query changes it.
LEMMA RouteStepRunsDown ==
    ASSUME RInv, [Next]_vars, Len(todo) <= 3
    PROVE  [RouteRunsDown]_vars /\ Len(todo') <= 3
<1>1. todo \in Seq(Backbones) /\ Len(todo) \in Nat /\ pc \in {"idle", "routing", "calling"}
  BY LenProperties DEF RInv, TypeOK
<1>2. Len(<<>>) = 0
  OBVIOUS
<1>3. CASE Skip \/ CallFails
  <2>1. todo # <<>> /\ pc' = "routing" /\ pc \in {"routing", "calling"} /\ todo' = Tail(todo)
    BY <1>3 DEF Skip, CallFails, Trying, RInv, CallOK
  <2>2. StepsLeft' = 2 * Len(todo') + 1 /\ StepsLeft >= 2 * Len(todo)
    BY <1>1, <2>1 DEF StepsLeft
  <2>3. Len(todo) \in Nat \ {0} /\ Len(todo') = Len(todo) - 1
    BY <2>1, TailLength DEF RInv
  <2>4. StepsLeft' < StepsLeft
    BY <1>1, <2>1, <2>2, <2>3 DEF StepsLeft
  <2> QED
    BY <1>3, <2>3, <2>4 DEF RouteRunsDown, RouteStep
<1>4. CASE CallSucceeds \/ CallMalformed \/ CallTimesOut \/ Fallback
  <2>1. pc' = "idle" /\ todo' = <<>> /\ (pc = "routing" \/ (pc = "calling" /\ todo # <<>>))
    <3>1. pc = "calling" => todo # <<>>
      BY DEF RInv, CallOK
    <3> QED
      BY <1>4, <3>1 DEF CallSucceeds, CallMalformed, CallTimesOut, Fallback, Finish
  <2>2. StepsLeft' = 0 /\ (pc = "calling" => Len(todo) \in Nat \ {0})
    BY <2>1, TailLength DEF StepsLeft, RInv
  <2>3. StepsLeft' < StepsLeft
    BY <1>1, <2>1, <2>2 DEF StepsLeft
  <2> QED
    BY <1>2, <1>4, <2>1, <2>3 DEF RouteRunsDown, RouteStep
<1>5. CASE CallLocal
  <2>1. pc = "routing" /\ todo # <<>>
        /\ ((pc' = "idle" /\ todo' = <<>>) \/ (pc' = "routing" /\ todo' = Tail(todo)))
    BY <1>5 DEF CallLocal, Trying, Finish
  <2>2. Len(todo) \in Nat \ {0} /\ Len(Tail(todo)) = Len(todo) - 1
    BY <2>1, TailLength DEF RInv
  <2>3. StepsLeft' < StepsLeft /\ Len(todo') <= 3
    BY <1>1, <1>2, <2>1, <2>2 DEF StepsLeft
  <2> QED
    BY <1>5, <2>3 DEF RouteRunsDown, RouteStep
<1>6. CASE CallCloud
  <2>1. pc = "routing" /\ pc' = "calling" /\ todo' = todo
    BY <1>6 DEF CallCloud, Trying
  <2>2. StepsLeft' < StepsLeft
    BY <1>1, <2>1 DEF StepsLeft
  <2> QED
    BY <1>6, <2>1, <2>2 DEF RouteRunsDown, RouteStep
<1>7. CASE StartQuery
  <2>1. todo' = Order /\ ~RouteStep
    BY <1>7 DEF StartQuery, RouteStep, Skip, CallLocal, CallCloud, CallSucceeds, CallFails,
                CallMalformed, CallTimesOut, Fallback, Trying
  <2>2. Len(todo') <= 3
    <3>1. Len(Order) <= 3
      BY OrderLength
    <3> QED
      BY <2>1, <3>1
  <2>3. RouteRunsDown
    BY <1>7, <2>1, Zenon DEF RouteRunsDown
  <2> QED
    BY <2>2, <2>3
<1>8. CASE Recycle \/ Tick \/ \E p \in Backbones : Flip(p)
  <2>1. pc' = pc /\ todo' = todo
    BY <1>8 DEF Recycle, Tick, Flip
  <2>2. StepsLeft' = StepsLeft
    BY <2>1 DEF StepsLeft
  <2>3. CASE RouteStep
    BY <1>3, <1>4, <1>5, <1>6, <2>3 DEF RouteStep
  <2>4. CASE ~RouteStep
    BY <2>1, <2>2, <2>4 DEF RouteRunsDown
  <2> QED
    BY <2>3, <2>4
<1>9. CASE UNCHANGED vars
  BY <1>9 DEF vars
<1> QED
  BY <1>3, <1>4, <1>5, <1>6, <1>7, <1>8, <1>9 DEF Next, RouteStep

\* A query takes at most seven steps, whatever the providers do and however
\* often they go down and come back meanwhile.
THEOREM QueryRunsOut ==
    /\ Spec => [](StepsLeft \in 0..7)
    /\ Spec => [][RouteRunsDown]_vars
<1> DEFINE Short == Len(todo) <= 3
<1>1. Init => Short
  BY DEF Init
<1>2. RInv /\ Short /\ [Next]_vars => [RouteRunsDown]_vars /\ Short'
  BY RouteStepRunsDown
<1>3. RInv /\ Short => StepsLeft \in 0..7
  <2>1. RInv => Len(todo) \in Nat
    BY LenProperties DEF RInv, TypeOK
  <2> QED
    BY <2>1 DEF StepsLeft
<1>4. Spec => []RInv
  BY RInvInit, RInvStep, PTL DEF Spec
<1> HIDE DEF Short
<1> QED
  BY <1>1, <1>2, <1>3, <1>4, PTL DEF Spec
=============================================================================
