--------------------------- MODULE CircuitBreaker ---------------------------
(***************************************************************************)
(* The in-memory circuit breaker of one AI provider                        *)
(* (pipeline/circuit_breaker.py) and the items that call that provider     *)
(* through it at the same time (rerank_candidates).  Instead of the        *)
(* instant `open_until` the model keeps the time that is left until then,  *)
(* and it counts failures only up to the threshold, which is all that the  *)
(* code compares them to.                                                  *)
(***************************************************************************)
EXTENDS Naturals, Sequences

CONSTANTS
    Callers,     \* tasks that call the provider
    Threshold,   \* failure_threshold
    Recovery     \* recovery_timeout, in ticks

ASSUME BreakerAssumption == Threshold \in Nat \ {0} /\ Recovery \in Nat \ {0}

VARIABLES
    failures,    \* _CircuitState.failures
    left,        \* the ticks until open_until
    calling,     \* the callers whose call is in flight
    outcomes     \* history: the last Threshold outcomes recorded

Outcome == {"success", "failure"}

breakerVars == <<failures, left, calling, outcomes>>

BreakerTypeOK ==
    /\ failures \in 0 .. Threshold
    /\ left \in 0 .. Recovery
    /\ calling \subseteq Callers
    /\ outcomes \in Seq(Outcome) /\ Len(outcomes) <= Threshold

BreakerInit == failures = 0 /\ left = 0 /\ calling = {} /\ outcomes = <<>>

\* The history with one more outcome, and no more than the last Threshold of them.
Noted(outcome) ==
    LET longer == Append(outcomes, outcome)
    IN  IF Len(longer) > Threshold THEN Tail(longer) ELSE longer

\* Half-open is not a state of its own: every caller passes once the time is over.
IsAvailable == left = 0

\* Plausible bug: a success closes the circuit and forgets to reset the counter.
RecordSuccessNoReset ==
    /\ UNCHANGED failures
    /\ left' = 0
    /\ outcomes' = Noted("success")

RecordSuccess ==
    /\ failures' = 0
    /\ left' = 0
    /\ outcomes' = Noted("success")

\* A failure after the first Threshold keeps opening the circuit anew.
RecordFailure ==
    /\ failures' = IF failures < Threshold THEN failures + 1 ELSE failures
    /\ left' = IF failures' = Threshold THEN Recovery ELSE left
    /\ outcomes' = Noted("failure")

\* A caller that the circuit does not let through falls back at once and calls nobody.
CallProvider(c) ==
    /\ c \notin calling
    /\ IsAvailable
    /\ calling' = calling \cup {c}
    /\ UNCHANGED <<failures, left, outcomes>>

Answered(c) ==
    /\ c \in calling
    /\ calling' = calling \ {c}
    /\ RecordSuccess

Failed(c) ==
    /\ c \in calling
    /\ calling' = calling \ {c}
    /\ RecordFailure

Elapse ==
    /\ left > 0
    /\ left' = left - 1
    /\ UNCHANGED <<failures, calling, outcomes>>

Ends(c) == Answered(c) \/ Failed(c)

BreakerNext == Elapse \/ \E c \in Callers : CallProvider(c) \/ Ends(c)

BreakerSpec == BreakerInit /\ [][BreakerNext]_breakerVars

-----------------------------------------------------------------------------
\* The circuit is open only after Threshold failures in a row: whoever else recorded
\* an outcome in between, and however late a call that began before was answered.
TripNeedsRun ==
    left > 0 => Len(outcomes) = Threshold /\ \A k \in DOMAIN outcomes : outcomes[k] = "failure"
=============================================================================
