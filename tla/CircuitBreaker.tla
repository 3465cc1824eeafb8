--------------------------- MODULE CircuitBreaker ---------------------------
(***************************************************************************)
(* agents/middlewares/llm_error_handling_middleware.py: one middleware     *)
(* instance shared by the model calls of all runs, its circuit breaker and *)
(* the retry loop around each call.  _circuit_lock makes every look at the *)
(* breaker one step; between two of them a call is inside the provider or  *)
(* asleep before its next attempt, and other calls go on.                  *)
(*                                                                         *)
(* The error classes of _classify_error are told apart by what the loop    *)
(* does with them: retriable (busy, transient), final (quota, auth,        *)
(* generic), GraphBubbleUp, and the BaseExceptions that `except Exception` *)
(* lets through, such as the CancelledError of a cancelled run.  Delays    *)
(* are left out but for the recovery timeout.                              *)
(***************************************************************************)
EXTENDS Integers

CONSTANTS Calls,        \* the callers of the model
          Threshold,    \* circuit_failure_threshold
          MaxAttempts   \* retry_max_attempts

ASSUME BreakerAssumption ==
    /\ Threshold \in Nat \ {0}
    /\ MaxAttempts \in Nat \ {0}

VARIABLES state,     \* _circuit_state
          failures,  \* _circuit_failure_count
          cooling,   \* time.time() < _circuit_open_until
          probing,   \* _circuit_probe_in_flight
          phase,     \* where each caller is: idle, in the provider, asleep
          attempt,   \* the attempt its call is in
          prober     \* history: the callers whose call set the probe flag last

breakerVars == <<state, failures, cooling, probing>>
vars == <<breakerVars, phase, attempt, prober>>

TypeOK ==
    /\ state \in {"closed", "open", "half_open"}
    /\ failures \in Nat
    /\ cooling \in BOOLEAN /\ probing \in BOOLEAN
    /\ phase \in [Calls -> {"idle", "calling", "asleep"}]
    /\ attempt \in [Calls -> 1 .. MaxAttempts]
    /\ prober \in SUBSET Calls

Init ==
    /\ state = "closed" /\ failures = 0
    /\ cooling = FALSE /\ probing = FALSE
    /\ phase = [c \in Calls |-> "idle"]
    /\ attempt = [c \in Calls |-> 1]
    /\ prober = {}

\* What _check_circuit makes of the state: an open breaker whose timeout has
\* passed is half open from the next look on.
Recovering == state = "half_open" \/ (state = "open" /\ ~cooling)

\* Mutant: an open breaker stays open.
AdmitsUnlessOpen == state = "closed" \/ (state = "half_open" /\ ~probing)

Admits == state = "closed" \/ (state = "open" /\ ~cooling) \/ (state = "half_open" /\ ~probing)

-----------------------------------------------------------------------------
(* The breaker. *)

\* Mutant: the breaker closes but goes on counting.
SuccessKeepsCount ==
    /\ state' = "closed" /\ cooling' = FALSE /\ probing' = FALSE
    /\ UNCHANGED failures

RecordSuccess ==
    /\ failures' = 0
    /\ state' = "closed" /\ cooling' = FALSE /\ probing' = FALSE

\* A failure in half_open counts as the probe's, whoever's it is.
Reopen ==
    /\ state = "half_open"
    /\ state' = "open" /\ cooling' = TRUE /\ probing' = FALSE
    /\ UNCHANGED failures

CountFailure ==
    /\ state # "half_open"
    /\ failures' = failures + 1
    /\ IF failures + 1 >= Threshold
       THEN /\ state' = "open" /\ cooling' = TRUE
            /\ probing' = (state = "open" /\ probing)
       ELSE UNCHANGED <<state, cooling, probing>>

RecordFailure == Reopen \/ CountFailure

-----------------------------------------------------------------------------
(* wrap_model_call and awrap_model_call. *)

Admitted(c) ==
    /\ phase[c] = "idle" /\ Admits
    /\ phase' = [phase EXCEPT ![c] = "calling"]
    /\ attempt' = [attempt EXCEPT ![c] = 1]
    /\ IF Recovering
       THEN state' = "half_open" /\ probing' = TRUE /\ prober' = {c}
       ELSE UNCHANGED <<state, probing, prober>>
    /\ UNCHANGED <<failures, cooling>>

\* The caller gets the circuit breaker message; nothing changes.
FastFail(c) ==
    /\ phase[c] = "idle" /\ ~Admits
    /\ UNCHANGED vars

End(c) == phase' = [phase EXCEPT ![c] = "idle"]

Succeeds(c) ==
    /\ phase[c] = "calling"
    /\ End(c)
    /\ RecordSuccess
    /\ UNCHANGED <<attempt, prober>>

\* Mutant: one attempt too many.
RetriesOnceMore(c) ==
    /\ phase[c] = "calling" /\ attempt[c] <= MaxAttempts
    /\ phase' = [phase EXCEPT ![c] = "asleep"]
    /\ attempt' = [attempt EXCEPT ![c] = @ + 1]
    /\ UNCHANGED <<breakerVars, prober>>

Retries(c) ==
    /\ phase[c] = "calling" /\ attempt[c] < MaxAttempts
    /\ phase' = [phase EXCEPT ![c] = "asleep"]
    /\ attempt' = [attempt EXCEPT ![c] = @ + 1]
    /\ UNCHANGED <<breakerVars, prober>>

Wakes(c) ==
    /\ phase[c] = "asleep"
    /\ phase' = [phase EXCEPT ![c] = "calling"]
    /\ UNCHANGED <<breakerVars, attempt, prober>>

\* The last attempt failed with a retriable error.
Exhausted(c) ==
    /\ phase[c] = "calling" /\ attempt[c] = MaxAttempts
    /\ End(c)
    /\ RecordFailure
    /\ UNCHANGED <<attempt, prober>>

\* An error that is not retried, and a cancel in the provider or asleep: the
\* call is over and the breaker does not hear of it.
FailsFinally(c) ==
    /\ phase[c] = "calling"
    /\ End(c)
    /\ UNCHANGED <<breakerVars, attempt, prober>>

Cancelled(c) ==
    /\ phase[c] \in {"calling", "asleep"}
    /\ End(c)
    /\ UNCHANGED <<breakerVars, attempt, prober>>

\* GraphBubbleUp gives the probe back, whoever holds it.
BubblesUp(c) ==
    /\ phase[c] = "calling"
    /\ End(c)
    /\ probing' = (probing /\ state # "half_open")
    /\ UNCHANGED <<state, failures, cooling, attempt, prober>>

\* circuit_recovery_timeout_sec passes.
RecoveryTimeout ==
    /\ cooling
    /\ cooling' = FALSE
    /\ UNCHANGED <<state, failures, probing, phase, attempt, prober>>

Returns(c) ==
    Succeeds(c) \/ Exhausted(c) \/ FailsFinally(c) \/ Cancelled(c) \/ BubblesUp(c)

Next ==
    \/ RecoveryTimeout
    \/ \E c \in Calls :
          Admitted(c) \/ FastFail(c) \/ Retries(c) \/ Wakes(c) \/ Returns(c)

(* Model calls have timeouts, sleeps end and time goes on.  Nothing obliges *)
(* anybody to call.                                                         *)
Fairness ==
    /\ WF_vars(RecoveryTimeout)
    /\ \A c \in Calls : WF_vars(Wakes(c)) /\ WF_vars(Retries(c) \/ Returns(c))

Spec == Init /\ [][Next]_vars
FairSpec == Spec /\ Fairness
-----------------------------------------------------------------------------
(* Properties. *)

\* Count, state, flag and deadline agree whatever calls of earlier periods
\* still come back: the breaker is closed exactly below the threshold, a
\* probe is marked only while half open, and only an open breaker waits.
BreakerConsistent ==
    /\ state = "closed" <=> failures < Threshold
    /\ probing => state = "half_open"
    /\ cooling => state = "open"

\* The probe flag is set and the call that set it is over.
Leaked == probing /\ \A c \in prober : phase[c] = "idle"

\* The breaker refuses calls only for a time: until the recovery timeout or
\* until the probe is back.  The one way out of this promise is a leaked flag.
RefusalEnds == ~Admits ~> (Admits \/ Leaked)

\* llm_error_handling_middleware.py:19: "half_open -> allow single probe
\* request to test recovery": the breaker never refuses calls for ever.
ProbesAgain == ~Admits ~> Admits
=============================================================================
