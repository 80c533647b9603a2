--------------------------- MODULE CircuitBreaker ---------------------------
(***************************************************************************)
(* The circuit breaker of app/reasoning/backends.py.  One object, shared   *)
(* by both cloud providers, lives in each reasoning child; a recycled      *)
(* child starts with a new one.  The operators below are the methods; the  *)
(* router calls them.                                                      *)
(***************************************************************************)
EXTENDS Naturals

CONSTANTS
    Threshold,   \* breaker_failure_threshold
    Cooldown     \* breaker_cooldown_s, in ticks of the clock

ASSUME BreakerAssumption == Threshold \in Nat \ {0} /\ Cooldown \in Nat

VARIABLES
    state,      \* "closed", "open" or "half_open"
    failures,   \* failures since the last success, saturating at Threshold
    age         \* time since opened_at, saturating at Cooldown

breakerVars == <<state, failures, age>>

\* The saturations lose nothing: the code only compares failures with the
\* threshold and the elapsed time with the cooldown.
BreakerType ==
    /\ state \in {"closed", "open", "half_open"}
    /\ failures \in 0..Threshold
    /\ age \in 0..Cooldown

NewBreaker(s, f, a) == s = "closed" /\ f = 0 /\ a = Cooldown

BreakerInit == NewBreaker(state, failures, age)
Recycled == NewBreaker(state', failures', age')

Elapsed == age >= Cooldown

\* before_call raises CircuitOpenError ...
Refuses == state = "open" /\ ~Elapsed

\* Mutant of BeforeCall: a state the other methods do not know.
BeforeCallMisspelt ==
    /\ ~Refuses
    /\ state' = IF state = "open" THEN "half-open" ELSE state
    /\ UNCHANGED <<failures, age>>

\* ... or lets the call pass, as a probe when the cooldown is over.
BeforeCall ==
    /\ ~Refuses
    /\ state' = IF state = "open" THEN "half_open" ELSE state
    /\ UNCHANGED <<failures, age>>

\* Mutant of RecordSuccess: the count is reset, the state is not.
RecordSuccessKeepsState ==
    /\ failures' = 0
    /\ UNCHANGED <<state, age>>

RecordSuccess ==
    /\ state' = "closed"
    /\ failures' = 0
    /\ UNCHANGED age

OneMore == IF failures < Threshold THEN failures + 1 ELSE failures

\* Mutants of RecordFailure: the circuit opens one failure late; opened_at is
\* set when a closed circuit opens, but not when a probe fails.
RecordFailureLate ==
    /\ failures' = OneMore
    /\ IF state = "half_open" \/ failures >= Threshold
         THEN state' = "open" /\ age' = 0
         ELSE UNCHANGED <<state, age>>

RecordFailureKeepsTime ==
    /\ failures' = OneMore
    /\ IF state = "half_open" \/ OneMore >= Threshold
         THEN /\ state' = "open"
              /\ age' = IF state = "closed" THEN 0 ELSE age
         ELSE UNCHANGED <<state, age>>

RecordFailure ==
    /\ failures' = OneMore
    /\ IF state = "half_open" \/ OneMore >= Threshold
         THEN state' = "open" /\ age' = 0
         ELSE UNCHANGED <<state, age>>

Pass == age' = (IF Elapsed THEN age ELSE age + 1) /\ UNCHANGED <<state, failures>>

\* The breaker leaves "closed" exactly when Threshold failures follow each
\* other without a success, and only a success or a new child brings it back.
TripsAtThreshold == (state = "closed") <=> (failures < Threshold)
=============================================================================
