--------------------------- MODULE CircuitBreaker ---------------------------
(***************************************************************************)
(* The circuit breaker around the search cluster (core/resilience.py), as  *)
(* OpenSearchEngine.search uses it: every call runs with_retry inside      *)
(* breaker.call.  The lock of the breaker is never held across an await,   *)
(* so the bookkeeping of one call is one step; the calls themselves        *)
(* overlap, and one that was admitted while the circuit was closed may     *)
(* end when it is open.                                                    *)
(*                                                                         *)
(* Time is the number of ticks since _opened_at, which is all the breaker  *)
(* looks at, counted up to Recovery.                                       *)
(***************************************************************************)
EXTENDS Naturals

CONSTANTS
    Callers,    \* concurrent searches
    Threshold,  \* settings.circuit_failure_threshold
    Recovery,   \* settings.circuit_recovery_seconds, in ticks
    Attempts    \* attempts of with_retry

ASSUME BreakerAssumption ==
    /\ Threshold \in Nat \ {0}
    /\ Recovery \in Nat \ {0}
    /\ Attempts \in Nat \ {0}

VARIABLES
    state,     \* _state
    failures,  \* the lesser of _failures and the threshold
    elapsed,   \* time.monotonic() - _opened_at
    call,      \* per caller: 0 when it makes no call, else the attempt under way
    up         \* does the cluster answer every query?  Otherwise some fail.

vars == <<state, failures, elapsed, call, up>>

TypeOK ==
    /\ state \in {"closed", "open", "half_open"}
    /\ failures \in 0 .. Threshold
    /\ elapsed \in 0 .. Recovery
    /\ call \in [Callers -> 0 .. Attempts]
    /\ up \in BOOLEAN

Init ==
    /\ state = "closed"
    /\ failures = 0
    /\ elapsed = 0
    /\ call = [c \in Callers |-> 0]
    /\ up = TRUE

-----------------------------------------------------------------------------
\* Variant: a half-open circuit admits nobody but its first trial.
BeforeCallOneTrial(c) ==
    /\ call[c] = 0
    /\ state # "half_open"
    /\ state = "open" => elapsed >= Recovery
    /\ state' = IF state = "open" THEN "half_open" ELSE state
    /\ call' = [call EXCEPT ![c] = 1]
    /\ UNCHANGED <<failures, elapsed, up>>

\* _before_call; a refused call raises DependencyUnavailableError at once.
BeforeCall(c) ==
    /\ call[c] = 0
    /\ state = "open" => elapsed >= Recovery
    /\ state' = IF state = "open" THEN "half_open" ELSE state
    /\ call' = [call EXCEPT ![c] = 1]
    /\ UNCHANGED <<failures, elapsed, up>>

End(c) == call' = [call EXCEPT ![c] = 0]

\* Variant: the failures before a success still count.
OnSuccessKeepsCount ==
    /\ state' = "closed"
    /\ UNCHANGED <<failures, elapsed>>

\* _on_success
OnSuccess ==
    /\ failures' = 0
    /\ state' = "closed"
    /\ UNCHANGED elapsed

\* _on_failure.  _failures counts on beyond the threshold; the code only ever
\* compares it with the threshold, so the lesser of the two tells all.
OnFailure ==
    /\ failures' = IF failures < Threshold THEN failures + 1 ELSE failures
    /\ IF state = "half_open" \/ failures + 1 >= Threshold
       THEN state' = "open" /\ elapsed' = 0
       ELSE UNCHANGED <<state, elapsed>>

CallSucceeds(c) ==
    /\ call[c] # 0
    /\ OnSuccess
    /\ End(c)
    /\ UNCHANGED up

\* Variant: one attempt more than asked for.
AttemptsLeftOneMore(c) == call[c] <= Attempts

AttemptsLeft(c) == call[c] < Attempts

\* An attempt fails: with_retry tries again or raises, which the breaker counts.
AttemptFails(c) ==
    /\ call[c] # 0
    /\ ~up
    /\ IF AttemptsLeft(c)
       THEN call' = [call EXCEPT ![c] = @ + 1] /\ UNCHANGED <<state, failures, elapsed>>
       ELSE End(c) /\ OnFailure
    /\ UNCHANGED up

\* A CancelledError is no Exception: the breaker does not learn of the call's end.
Cancelled(c) ==
    /\ call[c] # 0
    /\ End(c)
    /\ UNCHANGED <<state, failures, elapsed, up>>

Tick ==
    /\ elapsed < Recovery
    /\ elapsed' = elapsed + 1
    /\ UNCHANGED <<state, failures, call, up>>

ClusterChanges ==
    /\ up' = ~up
    /\ UNCHANGED <<state, failures, elapsed, call>>

CallEnds(c) == CallSucceeds(c) \/ AttemptFails(c)

Next ==
    \/ \E c \in Callers : BeforeCall(c) \/ CallEnds(c) \/ Cancelled(c)
    \/ Tick
    \/ ClusterChanges

Spec == Init /\ [][Next]_vars

\* Time passes, calls end (the client has a timeout), and clients keep
\* searching: without traffic the breaker rightly does nothing.  Some search is
\* not cancelled, again and again.
Fairness ==
    /\ WF_vars(Tick)
    /\ \A c \in Callers : WF_vars(BeforeCall(c)) /\ SF_vars(CallEnds(c))

FairSpec == Spec /\ Fairness

-----------------------------------------------------------------------------
\* The circuit is closed exactly while fewer than threshold failures were
\* counted since the last success, however calls of different epochs overlap:
\* so a failure of a half-open trial and a late failure both find it at the
\* threshold, and a closed circuit always has failures to spare.
ClosedBelowThreshold == state = "closed" <=> failures < Threshold

\* Once the cluster answers for good the breaker closes for good: no order of
\* refused, late, cancelled and trial calls keeps it open or half-open.
RecoversWithCluster == <>[]up => <>[](state = "closed")

=============================================================================
