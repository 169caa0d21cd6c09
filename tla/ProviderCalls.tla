--------------------------- MODULE ProviderCalls ---------------------------
(***************************************************************************)
(* Calls of one provider: the attempt loop of integrations/http.py behind  *)
(* the circuit breaker of integrations/circuit.py, whose keys in Redis are *)
(* shared by every process.  A breaker is named by whoever makes it; this  *)
(* is the one the clients of a provider make, under their PROVIDER.        *)
(***************************************************************************)
EXTENDS Integers

CONSTANTS
    Requesters,     \* requests in flight at a time
    FailureThreshold, \* BreakerConfig.failure_threshold
    Cooldown,       \* cooldown_seconds
    Window,         \* failure_window_seconds
    MaxTries,       \* RetryPolicy.max_attempts
    MaxSeconds      \* bound: the clock

ASSUME ProviderCallsAssumption ==
    /\ FailureThreshold \in Nat \ {0} /\ MaxTries \in Nat \ {0}
    /\ Cooldown \in Nat /\ Window \in Nat /\ MaxSeconds \in Nat

VARIABLES
    seconds,        \* the clock
    breaker,        \* its keys: failures, open and probe with their expiry
    asking,         \* the requests; history: a stale one found the circuit half-open
                    \* before it was closed or opened again, and then asked for the probe
    streak,         \* history: failures recorded since the last recorded success
    undercut        \* history: a success was recorded between the count and the opening

callVars == <<seconds, breaker, asking, streak, undercut>>

Closed == [failures |-> 0, failuresUntil |-> 0, openedAt |-> 0, openUntil |-> 0, probeUntil |-> 0]
NoCall == [pc |-> "idle", attempt |-> 1, probe |-> FALSE, started |-> 0,
           stale |-> FALSE]

Min2(a, b) == IF a < b THEN a ELSE b
Expires(ttl) == Min2(seconds + ttl, MaxSeconds + 1)

(* CircuitBreaker.status *)
State ==
    IF breaker.openUntil <= seconds THEN "closed"
    ELSE IF seconds - breaker.openedAt >= Cooldown THEN "half_open"
    ELSE "open"

ProviderCallsInit ==
    /\ seconds = 0
    /\ breaker = Closed
    /\ asking = [c \in Requesters |-> NoCall]
    /\ streak = 0
    /\ undercut = FALSE

CallAt(c, pc) == asking' = [asking EXCEPT ![c].pc = pc]

TickSecond ==
    /\ seconds < MaxSeconds
    /\ seconds' = seconds + 1
    /\ UNCHANGED <<breaker, asking, streak, undercut>>

-----------------------------------------------------------------------------
(* request and check: a store that does not answer lets the call through    *)
Check(c, up) ==
    /\ asking[c].pc = "idle"
    /\ ~up \/ State # "open"                       \* CircuitOpenError
    /\ CallAt(c, IF up /\ State = "half_open" THEN "probing" ELSE "sending")
    /\ UNCHANGED <<seconds, breaker, streak, undercut>>

(* SET NX of the probe key, a step after the read of the state *)
AdmitProbe(c, up) ==
    /\ asking[c].pc = "probing"
    /\ IF ~up THEN CallAt(c, "sending") /\ UNCHANGED breaker
       ELSE IF breaker.probeUntil > seconds
       THEN asking' = [asking EXCEPT ![c] = NoCall] /\ UNCHANGED breaker
       ELSE /\ breaker' = [breaker EXCEPT !.probeUntil = Expires(Cooldown)]
            /\ asking' = [asking EXCEPT ![c] = [@ EXCEPT !.pc = "sending", !.probe = TRUE,
                                                     !.started = seconds]]
    /\ UNCHANGED <<seconds, streak, undercut>>

Hangs(c) == asking' = [asking EXCEPT ![c] = NoCall]

\* c goes on as r; if the probe key is deleted with it, who is on the way to it is stale.
Rekeyed(c, r, deleted) ==
    asking' = [d \in Requesters |->
               IF d = c THEN r
               ELSE [asking[d] EXCEPT !.stale = @ \/ (deleted /\ asking[d].pc = "probing")]]

(* The next attempt of the loop, which does not ask the breaker again *)
Retried(c, retryable) ==
    IF retryable /\ asking[c].attempt < MaxTries
    THEN [asking[c] EXCEPT !.pc = "sending", !.attempt = @ + 1]
    ELSE NoCall
Retries(c, retryable) == asking' = [asking EXCEPT ![c] = Retried(c, retryable)]

(* Mutant: a success closes the circuit and leaves the count *)
SucceedsKeepingTheCount(c, up) ==
    /\ asking[c].pc = "sending"
    /\ Rekeyed(c, NoCall, up)
    /\ breaker' = IF up THEN [breaker EXCEPT !.openUntil = 0, !.probeUntil = 0] ELSE breaker
    /\ streak' = IF up THEN 0 ELSE streak
    /\ undercut' = (undercut \/ (up /\ \E d \in Requesters : asking[d].pc = "opening"))
    /\ UNCHANGED seconds

(* record_success *)
Succeeds(c, up) ==
    /\ asking[c].pc = "sending"
    /\ Rekeyed(c, NoCall, up)
    /\ breaker' = IF up THEN Closed ELSE breaker
    /\ streak' = IF up THEN 0 ELSE streak
    /\ undercut' = (undercut \/ (up /\ \E d \in Requesters : asking[d].pc = "opening"))
    /\ UNCHANGED seconds

(* A status that is no failure of the provider (400, 404) records nothing *)
Refused(c) ==
    /\ asking[c].pc = "sending"
    /\ Hangs(c)
    /\ UNCHANGED <<seconds, breaker, streak, undercut>>

(* record_failure, first half: INCR and EXPIRE *)
CountFailure(c, up, retryable) ==
    LET failures == IF breaker.failuresUntil > seconds
                    THEN Min2(breaker.failures + 1, FailureThreshold) ELSE 1
    IN
    /\ asking[c].pc = "sending"
    /\ IF ~up THEN Retries(c, retryable) /\ UNCHANGED <<breaker, streak>>
       ELSE /\ breaker' = [breaker EXCEPT !.failures = failures,
                                          !.failuresUntil = Expires(Window)]
            /\ streak' = Min2(streak + 1, FailureThreshold)
            /\ IF failures >= FailureThreshold
               THEN CallAt(c, "opening")
               ELSE Retries(c, retryable)
    /\ UNCHANGED <<seconds, undercut>>

(* record_failure, second half: SET of the open key and DEL of the probe    *)
OpenCircuit(c, up, retryable) ==
    /\ asking[c].pc = "opening"
    /\ breaker' = IF ~up THEN breaker ELSE
                    [breaker EXCEPT !.openedAt = seconds, !.openUntil = Expires(4 * Cooldown),
                                    !.probeUntil = 0]
    /\ Rekeyed(c, Retried(c, retryable), up)
    /\ UNCHANGED <<seconds, streak, undercut>>

(* The process dies *)
CallerDies(c) ==
    /\ asking[c].pc # "idle"
    /\ Hangs(c)
    /\ UNCHANGED <<seconds, breaker, streak, undercut>>

ProviderCallsNext ==
    \/ TickSecond
    \/ \E c \in Requesters :
        \/ Refused(c)
        \/ CallerDies(c)
        \/ \E up \in BOOLEAN : Check(c, up) \/ AdmitProbe(c, up) \/ Succeeds(c, up)
        \/ \E up, retryable \in BOOLEAN :
              CountFailure(c, up, retryable) \/ OpenCircuit(c, up, retryable)

ProviderCallsSpec == ProviderCallsInit /\ [][ProviderCallsNext]_callVars

-----------------------------------------------------------------------------
ProviderCallsTypeOK ==
    /\ seconds \in 0..MaxSeconds
    /\ breaker.failures \in 0..FailureThreshold
    /\ breaker.openUntil \in 0..(MaxSeconds + 1)
    /\ \A c \in Requesters :
         /\ asking[c].pc \in {"idle", "probing", "sending", "opening"}
         /\ asking[c].attempt \in 1..MaxTries

Probing(c) == asking[c].probe /\ asking[c].pc # "idle"

(* Two probes in flight at once are a cooldown apart, whatever late answers *)
(* of other calls did to the keys, unless one of them was admitted on a     *)
(* state it had read before the circuit was closed or opened again.         *)
FarApart(c, d) ==
    \/ asking[c].started - asking[d].started >= Cooldown
    \/ asking[d].started - asking[c].started >= Cooldown

OneProbeUnlessStale ==
    \A c, d \in Requesters :
        c # d /\ Probing(c) /\ Probing(d) => FarApart(c, d) \/ asking[c].stale \/ asking[d].stale

(* "Only consecutive failures count": a circuit that is not closed had a    *)
(* threshold of failures with no success among them, unless a success was   *)
(* recorded between the count and the opening.                              *)
OpenedByAStreak == State # "closed" /\ ~undercut => streak >= FailureThreshold

(* integrations/circuit.py: what the shared keys say of the failures of a   *)
(* provider and how many requests they let probe it.                        *)
CallsInv == ProviderCallsTypeOK /\ OneProbeUnlessStale /\ OpenedByAStreak
=============================================================================
