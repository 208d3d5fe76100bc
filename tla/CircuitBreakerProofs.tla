------------------------ MODULE CircuitBreakerProofs ------------------------
(***************************************************************************)
(* The bookkeeping of the circuit breaker, for every number of overlapping *)
(* calls, every threshold and every number of attempts.                    *)
(***************************************************************************)
EXTENDS CircuitBreaker, TLAPS

\* Success and failure of a call keep the breaker's fields in their ranges and
\* the circuit closed exactly below the threshold.
LEMMA BookkeepingStep ==
    ASSUME TypeOK, ClosedBelowThreshold, OnSuccess \/ OnFailure
    PROVE  /\ state' \in {"closed", "open", "half_open"}
           /\ failures' \in 0 .. Threshold
           /\ elapsed' \in 0 .. Recovery
           /\ ClosedBelowThreshold'
<1>1. CASE OnSuccess
  BY <1>1, BreakerAssumption DEF OnSuccess, TypeOK, ClosedBelowThreshold
<1>2. CASE OnFailure
  <2>1. CASE state = "half_open" \/ failures + 1 >= Threshold
    BY <1>2, <2>1, BreakerAssumption DEF OnFailure, TypeOK, ClosedBelowThreshold
  <2>2. CASE ~(state = "half_open" \/ failures + 1 >= Threshold)
    BY <1>2, <2>2, BreakerAssumption DEF OnFailure, TypeOK, ClosedBelowThreshold
  <2> QED BY <2>1, <2>2
<1> QED BY <1>1, <1>2

\* One case per action; only the end of a call touches the bookkeeping.
LEMMA BreakerStep ==
    TypeOK /\ ClosedBelowThreshold /\ [Next]_vars => TypeOK' /\ ClosedBelowThreshold'
<1> SUFFICES ASSUME TypeOK, ClosedBelowThreshold, [Next]_vars
             PROVE  TypeOK' /\ ClosedBelowThreshold'
  OBVIOUS
<1>1. ASSUME NEW c \in Callers, BeforeCall(c) PROVE TypeOK' /\ ClosedBelowThreshold'
  BY <1>1, BreakerAssumption DEF BeforeCall, TypeOK, ClosedBelowThreshold
<1>2. ASSUME NEW c \in Callers, CallSucceeds(c) PROVE TypeOK' /\ ClosedBelowThreshold'
  <2>1. call' \in [Callers -> 0 .. Attempts] /\ up' \in BOOLEAN
    BY <1>2, BreakerAssumption DEF CallSucceeds, End, TypeOK
  <2> QED BY <1>2, <2>1, BookkeepingStep DEF CallSucceeds, TypeOK
<1>3. ASSUME NEW c \in Callers, AttemptFails(c) PROVE TypeOK' /\ ClosedBelowThreshold'
  <2>1. call' \in [Callers -> 0 .. Attempts] /\ up' \in BOOLEAN
    BY <1>3, BreakerAssumption DEF AttemptFails, AttemptsLeft, End, TypeOK
  <2>2. CASE AttemptsLeft(c)
    BY <1>3, <2>1, <2>2 DEF AttemptFails, TypeOK, ClosedBelowThreshold
  <2>3. CASE ~AttemptsLeft(c)
    BY <1>3, <2>1, <2>3, BookkeepingStep DEF AttemptFails, TypeOK
  <2> QED BY <2>2, <2>3
<1>4. ASSUME NEW c \in Callers, Cancelled(c) PROVE TypeOK' /\ ClosedBelowThreshold'
  BY <1>4, BreakerAssumption DEF Cancelled, End, TypeOK, ClosedBelowThreshold
<1>5. CASE Tick
  BY <1>5, BreakerAssumption DEF Tick, TypeOK, ClosedBelowThreshold
<1>6. CASE ClusterChanges \/ UNCHANGED vars
  BY <1>6 DEF ClusterChanges, vars, TypeOK, ClosedBelowThreshold
<1> QED BY <1>1, <1>2, <1>3, <1>4, <1>5, <1>6 DEF Next, CallEnds

\* _failures is below the threshold exactly while the circuit is closed, for
\* any number of calls that end in any order, late and cancelled ones included.
THEOREM ClosedBelowThresholdHolds == Spec => [](TypeOK /\ ClosedBelowThreshold)
<1>1. Init => TypeOK /\ ClosedBelowThreshold
  BY BreakerAssumption DEF Init, TypeOK, ClosedBelowThreshold
<1> QED BY <1>1, BreakerStep, PTL DEF Spec
=============================================================================
