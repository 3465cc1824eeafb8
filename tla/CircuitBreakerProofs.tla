------------------------ MODULE CircuitBreakerProofs ------------------------
(***************************************************************************)
(* The breaker stays consistent for any number of concurrent calls, any    *)
(* threshold and any number of attempts.                                   *)
(***************************************************************************)
EXTENDS CircuitBreaker, TLAPS

Inv == TypeOK /\ BreakerConsistent

\* The breaker starts closed, with nothing counted.
LEMMA InvInitially == Init => Inv
<1> SUFFICES ASSUME Init PROVE Inv
  OBVIOUS
<1>1. TypeOK
  <2>1. 1 \in 1 .. MaxAttempts
    BY BreakerAssumption
  <2> QED BY <2>1 DEF Init, TypeOK
<1>2. state = "closed" <=> failures < Threshold
  BY BreakerAssumption DEF Init
<1>3. ~probing /\ ~cooling
  BY DEF Init
<1> QED
  BY <1>1, <1>2, <1>3 DEF Inv, BreakerConsistent

\* Every look at the breaker, by a call of whatever period, keeps it
\* consistent; the operators of the breaker are what the cases rest on.
LEMMA InvInductive ==
  ASSUME Inv, [Next]_vars
  PROVE  Inv'
<1> USE BreakerAssumption DEF Inv, TypeOK, BreakerConsistent
<1>1. CASE RecoveryTimeout
  BY <1>1 DEF RecoveryTimeout
<1>2. ASSUME NEW c \in Calls, Admitted(c)
      PROVE  Inv'
  <2>1. /\ phase' = [phase EXCEPT ![c] = "calling"]
        /\ attempt' = [attempt EXCEPT ![c] = 1]
        /\ UNCHANGED <<failures, cooling>>
    BY <1>2 DEF Admitted
  <2>2. CASE Recovering
    <3>1. state' = "half_open" /\ probing' = TRUE /\ prober' = {c}
      BY <1>2, <2>2 DEF Admitted
    <3>2. state # "closed" /\ ~cooling
      BY <2>2 DEF Recovering
    <3> QED BY <2>1, <3>1, <3>2
  <2>3. CASE ~Recovering
    <3>1. UNCHANGED <<state, probing, prober>>
      BY <1>2, <2>3 DEF Admitted
    <3> QED BY <2>1, <3>1
  <2> QED BY <2>2, <2>3
<1>3. ASSUME NEW c \in Calls, Retries(c)
      PROVE  Inv'
  BY <1>3 DEF Retries, breakerVars
<1>4. ASSUME NEW c \in Calls, Wakes(c)
      PROVE  Inv'
  BY <1>4 DEF Wakes, breakerVars
<1>5. ASSUME NEW c \in Calls, Succeeds(c)
      PROVE  Inv'
  <2>1. /\ phase' = [phase EXCEPT ![c] = "idle"]
        /\ failures' = 0 /\ state' = "closed"
        /\ ~cooling' /\ ~probing' /\ cooling' \in BOOLEAN /\ probing' \in BOOLEAN
        /\ UNCHANGED <<attempt, prober>>
    BY <1>5 DEF Succeeds, RecordSuccess, End
  <2> QED BY <2>1
<1>6. ASSUME NEW c \in Calls, Exhausted(c)
      PROVE  Inv'
  <2>1. CASE Reopen
    BY <1>6, <2>1 DEF Exhausted, Reopen, End
  <2>2. CASE CountFailure
    <3>1. CASE failures + 1 >= Threshold
      BY <1>6, <2>2, <3>1 DEF Exhausted, CountFailure, End
    <3>2. CASE ~(failures + 1 >= Threshold)
      BY <1>6, <2>2, <3>2 DEF Exhausted, CountFailure, End
    <3> QED BY <3>1, <3>2
  <2> QED BY <1>6, <2>1, <2>2 DEF Exhausted, RecordFailure
<1>7. ASSUME NEW c \in Calls, FailsFinally(c) \/ Cancelled(c)
      PROVE  Inv'
  BY <1>7 DEF FailsFinally, Cancelled, End, breakerVars
<1>8. ASSUME NEW c \in Calls, BubblesUp(c)
      PROVE  Inv'
  BY <1>8 DEF BubblesUp, End
<1>9. CASE UNCHANGED vars
  BY <1>9 DEF vars, breakerVars
<1> QED
  BY <1>1, <1>2, <1>3, <1>4, <1>5, <1>6, <1>7, <1>8, <1>9 DEF Next, FastFail, Returns

\* The breaker's count, state, probe flag and deadline agree in every
\* reachable state, whichever calls come back and in whatever order.
THEOREM BreakerStaysConsistent == Spec => []BreakerConsistent
<1>1. Init => Inv
  BY InvInitially
<1>2. Inv /\ [Next]_vars => Inv'
  BY InvInductive
<1>3. Inv => BreakerConsistent
  BY DEF Inv
<1> QED
  BY <1>1, <1>2, <1>3, PTL DEF Spec

\* The variables keep their types; in particular no call makes more than
\* retry_max_attempts attempts.
THEOREM BreakerTyped == Spec => []TypeOK
<1>1. Init => Inv
  BY InvInitially
<1>2. Inv /\ [Next]_vars => Inv'
  BY InvInductive
<1>3. Inv => TypeOK
  BY DEF Inv
<1> QED
  BY <1>1, <1>2, <1>3, PTL DEF Spec
=============================================================================
