-------------------------- MODULE ReasoningRouter ---------------------------
(***************************************************************************)
(* route_query and its backends (app/reasoning/backends.py) in one         *)
(* reasoning child, query after query: the order of the backbones, the     *)
(* breaker in front of the cloud calls, what the providers answer, the     *)
(* clock, and the recycling of the child.                                  *)
(***************************************************************************)
EXTENDS CircuitBreaker, Sequences

CONSTANTS
    Backend,       \* settings.reasoning_backend
    LocalEnabled,  \* settings.local_llm_enabled
    Configured,    \* the backbones whose key is set; "local": enabled, with
                   \* a model path
    Anomalies      \* "malformed": 2xx without an answer in it;
                   \* "softlimit": the soft time limit fires in a call

Cloud == {"openai", "anthropic"}
Backbones == Cloud \cup {"local"}

ASSUME RouterAssumption ==
    /\ Backend \in {"auto", "openai", "anthropic", "local"}
    /\ LocalEnabled \in BOOLEAN
    /\ Configured \subseteq Backbones
    /\ "local" \in Configured => LocalEnabled
    /\ Anomalies \subseteq {"malformed", "softlimit"}

VARIABLES
    up,       \* the backbones that answer at this moment (environment)
    pc,       \* "idle", "routing" or "calling"
    todo,     \* backbones route_query has not finished with
    answer,   \* backend_used of the last query, "none" or "error"
    steady,   \* observer: backbones up ever since the query began, and not
              \* cut short by its time limit
    probing,  \* observer: the breaker let calls pass when the query began
    missed,   \* observer: failed cloud calls of this child since its last
              \* success, saturating at Threshold
    quiet     \* observer: time since the last of them, saturating at Cooldown

history == <<missed, quiet>>
vars == <<breakerVars, up, pc, todo, answer, steady, probing, history>>

\* route_query: the backbones in the order they are tried.
Order ==
    CASE Backend = "openai" -> <<"openai", "anthropic">>
      [] Backend = "anthropic" -> <<"anthropic", "openai">>
      [] Backend = "local" -> <<"local">>
      [] Backend = "auto" /\ LocalEnabled -> <<"local", "openai", "anthropic">>
      [] Backend = "auto" /\ ~LocalEnabled -> <<"openai", "anthropic">>

Init ==
    /\ BreakerInit
    /\ up \in SUBSET Backbones
    /\ pc = "idle"
    /\ todo = <<>>
    /\ answer = "none"
    /\ steady = {}
    /\ probing = FALSE
    /\ missed = 0 /\ quiet = Cooldown

Finish(a) ==
    /\ pc' = "idle"
    /\ todo' = <<>>
    /\ answer' = a

StartQuery ==
    /\ pc = "idle"
    /\ pc' = "routing"
    /\ todo' = Order
    /\ answer' = "none"
    /\ steady' = up
    /\ probing' = ~Refuses
    /\ UNCHANGED <<breakerVars, up, history>>

Next1 == Head(todo)
Trying == pc = "routing" /\ todo # <<>>

\* RuntimeError ("not configured") or CircuitOpenError: try the next one.
Skip ==
    /\ Trying
    /\ Next1 \notin Configured \/ (Next1 \in Cloud /\ Refuses)
    /\ todo' = Tail(todo)
    /\ UNCHANGED <<breakerVars, up, pc, answer, steady, probing, history>>

\* call_local: every failure of the model becomes RuntimeError, the soft time
\* limit that fires in it too.
CallLocal ==
    /\ Trying /\ Next1 = "local" /\ Next1 \in Configured
    /\ \/ "local" \in up /\ Finish("local") /\ UNCHANGED steady
       \/ /\ "local" \notin up
          /\ todo' = Tail(todo)
          /\ UNCHANGED <<pc, answer, steady>>
       \/ /\ "softlimit" \in Anomalies
          /\ todo' = Tail(todo)
          /\ steady' = steady \ {"local"}
          /\ UNCHANGED <<pc, answer>>
    /\ UNCHANGED <<breakerVars, up, probing, history>>

\* _cloud_call up to httpx.post.
CallCloud ==
    /\ Trying /\ Next1 \in Cloud \cap Configured
    /\ BeforeCall
    /\ pc' = "calling"
    /\ UNCHANGED <<up, todo, answer, steady, probing, history>>

Missed ==
    /\ missed' = IF missed < Threshold THEN missed + 1 ELSE missed
    /\ quiet' = 0

CallSucceeds ==
    /\ pc = "calling" /\ Next1 \in up
    /\ RecordSuccess
    /\ missed' = 0 /\ UNCHANGED quiet
    /\ Finish(Next1)
    /\ UNCHANGED <<up, steady, probing>>

\* Mutants of CallFails: the route is given up, or the same provider is tried again.
CallFailsGivesUp ==
    /\ pc = "calling" /\ Next1 \notin up
    /\ RecordFailure /\ Missed
    /\ pc' = "routing"
    /\ todo' = <<>>
    /\ UNCHANGED <<up, answer, steady, probing>>
CallFailsTriesAgain ==
    /\ pc = "calling" /\ Next1 \notin up
    /\ RecordFailure /\ Missed
    /\ pc' = "routing"
    /\ UNCHANGED <<up, todo, answer, steady, probing>>

\* Transport error, 4xx or 5xx; the Retry-After of a 429 is only logged.
CallFails ==
    /\ pc = "calling" /\ Next1 \notin up
    /\ RecordFailure /\ Missed
    /\ pc' = "routing"
    /\ todo' = Tail(todo)
    /\ UNCHANGED <<up, answer, steady, probing>>

\* A 2xx or 3xx answer whose body is not the expected JSON: the success is
\* recorded, then JSONDecodeError or KeyError leaves route_query.
CallMalformed ==
    /\ "malformed" \in Anomalies
    /\ pc = "calling"
    /\ RecordSuccess
    /\ missed' = 0 /\ UNCHANGED quiet
    /\ Finish("error")
    /\ UNCHANGED <<up, steady, probing>>

\* SoftTimeLimitExceeded is neither httpx.HTTPError nor RuntimeError.
CallTimesOut ==
    /\ "softlimit" \in Anomalies
    /\ pc = "calling"
    /\ Finish("error")
    /\ UNCHANGED <<breakerVars, up, steady, probing, history>>

Fallback ==
    /\ pc = "routing" /\ todo = <<>>
    /\ Finish("fallback_summary")
    /\ UNCHANGED <<breakerVars, up, steady, probing, history>>

\* max_tasks_per_child, or any other end of the child.
Recycle ==
    /\ pc = "idle"
    /\ Recycled
    /\ missed' = 0 /\ quiet' = Cooldown
    /\ UNCHANGED <<up, pc, todo, answer, steady, probing>>

Tick ==
    /\ Pass
    /\ quiet' = IF quiet < Cooldown THEN quiet + 1 ELSE quiet
    /\ UNCHANGED <<up, pc, todo, answer, steady, probing, missed>>

\* A backbone goes down or comes back.
Flip(p) ==
    /\ up' = IF p \in up THEN up \ {p} ELSE up \cup {p}
    /\ steady' = steady \cap up'
    /\ UNCHANGED <<breakerVars, pc, todo, answer, probing, history>>

RouteStep ==
    \/ Skip \/ CallLocal \/ CallCloud \/ CallSucceeds \/ CallFails
    \/ CallMalformed \/ CallTimesOut \/ Fallback

Next ==
    \/ StartQuery \/ RouteStep \/ Recycle \/ Tick
    \/ \E p \in Backbones : Flip(p)

Spec == Init /\ [][Next]_vars

\* The task body runs on, queries keep coming and the clock advances; nobody
\* promises that a child is recycled or that a provider changes.
FairSpec ==
    /\ Spec
    /\ WF_vars(RouteStep)
    /\ WF_vars(StartQuery)
    /\ WF_vars(age < Cooldown /\ Tick)

(***************************************************************************)
(* Properties                                                              *)
(***************************************************************************)

\* The type invariant.
TypeOK ==
    /\ BreakerType
    /\ up \subseteq Backbones
    /\ pc \in {"idle", "routing", "calling"}
    /\ todo \in Seq(Backbones)
    /\ answer \in Backbones \cup {"none", "error", "fallback_summary"}
    /\ steady \subseteq Backbones
    /\ probing \in BOOLEAN
    /\ missed \in 0..Threshold /\ quiet \in 0..Cooldown

\* Once Threshold cloud calls have failed without a success between them, no
\* call starts within Cooldown of the last failed one: not to the provider
\* that is next on the same route, nor in the queries that follow; a probe
\* that fails is the only call of its cooldown.
NoCallInCooldown ==
    [][pc # "calling" /\ pc' = "calling" => missed < Threshold \/ quiet >= Cooldown]_vars

\* The backbones that could have answered the query: on its route, with a
\* key, up from its beginning until now and given the time to answer.
Healthy == steady \cap Configured \cap {Order[i] : i \in DOMAIN Order}

AboutToFallBack == pc = "routing" /\ todo = <<>>

\* A healthy backbone goes unused only behind the open circuit: the query
\* found it open, or its own failed calls opened it, and it still is when
\* the summary is made, whatever the clock did between two calls.
FallbackOnlyBehindBreaker ==
    AboutToFallBack /\ Healthy # {} => state = "open"

\* When the providers are up for good and nothing answers instead of them or
\* cuts their answers off, the circuit closes again, however it was left.
Recovers == <>[](up = Cloud /\ answer # "error") => []<>(state = "closed")

\* Every query ends, whatever the providers do.
EveryQueryEnds == pc = "routing" ~> pc = "idle"

\* A query that may probe does not fall back while a configured backbone of
\* its route is up from its beginning to its end.
FallbackMeansUnreachable == AboutToFallBack /\ probing => Healthy = {}
=============================================================================
