------------------------------ MODULE ScanSlots -----------------------------
(***************************************************************************)
(* Admission of scanner processes: the Redis counters of services/job.py,  *)
(* one per organization and one for the deployment, and the graph nodes    *)
(* (recon, execute_scanners) that claim a slot, run one scanner and give   *)
(* the slot back in a `finally'.                                           *)
(*                                                                         *)
(* The pipelines are MULTI/EXEC blocks, hence single steps; everything     *)
(* between two awaits of different tasks interleaves.                      *)
(***************************************************************************)
EXTENDS Integers, FiniteSets

CONSTANTS Tasks,         \* node executions that want to run a scanner
          Orgs,          \* organizations
          OrgOf,         \* OrgOf[t]: the organization of t
          Global,        \* the deployment's counter
          OrgLimit,      \* max_concurrent_jobs_per_org
          GlobalLimit,   \* max_concurrent_jobs_global
          MaxAttempts,   \* _SLOT_WAIT_SECONDS / _SLOT_POLL_SECONDS
          MaxFaults      \* MaxFaults[f]: bound on the faults of kind f

FaultKinds == {"crash", "cancel", "redis", "flush"}

ASSUME SlotConstants ==
    /\ IsFiniteSet(Tasks)
    /\ Global \notin Orgs
    /\ OrgOf \in [Tasks -> Orgs]
    /\ OrgLimit \in Nat
    /\ GlobalLimit \in Nat
    /\ MaxAttempts \in Nat \ {0}
    /\ MaxFaults \in [FaultKinds -> Nat]

Counters == Orgs \cup {Global}

\* The two counters a task of this organization is charged to.
KeysOf(t) == {OrgOf[t], Global}

Limit(k) == IF k = Global THEN GlobalLimit ELSE OrgLimit

VARIABLES
    count,     \* the value of each counter, 0 when its key does not exist
    expires,   \* counters whose key has a TTL
    pc,        \* where each task is
    left,      \* attempts _acquire_slot has left
    negative,  \* negative[t]: counters t saw below zero and is about to reset
    faults     \* number of faults of each kind so far

vars == <<count, expires, pc, left, negative, faults>>

\* Where a task can be: not scanning; sleeping between two attempts of
\* _acquire_slot; refused and about to give the counters back; admitted, before
\* its `try'; inside it; in its `finally'; resetting counters it saw negative.
Points == {"idle", "wait", "refused", "admitted", "scan", "finally", "clamp"}

\* The counters include t.
Charged(t) == pc[t] \in {"refused", "admitted", "scan", "finally"}

\* t may have, or is about to have, a scanner process.
Holding(t) == pc[t] \in {"admitted", "scan", "finally"}

ChargedTo(k) == {t \in Tasks : Charged(t) /\ k \in KeysOf(t)}
HoldersOf(k) == {t \in Tasks : Holding(t) /\ k \in KeysOf(t)}

\* Counters are integers, the attempts of a task stay within their number.
TypeOK ==
    /\ count \in [Counters -> Int]
    /\ expires \subseteq Counters
    /\ pc \in [Tasks -> Points]
    /\ left \in [Tasks -> 0 .. MaxAttempts]
    /\ negative \in [Tasks -> SUBSET Counters]
    /\ faults \in [FaultKinds -> Nat]

Init ==
    /\ count = [k \in Counters |-> 0]
    /\ expires = {}
    /\ pc = [t \in Tasks |-> "idle"]
    /\ left = [t \in Tasks |-> 0]
    /\ negative = [t \in Tasks |-> {}]
    /\ faults = [f \in FaultKinds |-> 0]

\* A fault of this kind happens in this step.
Fault(f) == faults[f] < MaxFaults[f] /\ faults' = [faults EXCEPT ![f] = @ + 1]

\* No fault but of these kinds happened so far.
OnlyFaults(kinds) == \A f \in FaultKinds \ kinds : faults[f] = 0

Goto(t, point) == pc' = [pc EXCEPT ![t] = point]

\* The counters after INCR or DECR of both keys of t.
Plus(t, d) == [k \in Counters |-> IF k \in KeysOf(t) THEN count[k] + d ELSE count[k]]

-----------------------------------------------------------------------------
(* claim_slot and _acquire_slot                                            *)

\* A node comes to a scanner and starts asking for a slot.
Begin(t) ==
    /\ pc[t] = "idle"
    /\ Goto(t, "wait")
    /\ left' = [left EXCEPT ![t] = MaxAttempts]
    /\ UNCHANGED <<count, expires, negative, faults>>

\* Mutant of Admitted: only the deployment's counter is compared.
AdmittedByGlobalOnly(t, c) == c[Global] <= GlobalLimit

\* Both replies of INCR are within their limits.
Admitted(t, c) == c[OrgOf[t]] <= OrgLimit /\ c[Global] <= GlobalLimit

\* claim_slot: increment both counters and renew their TTL, then compare.
Claim(t) ==
    /\ pc[t] = "wait"
    /\ count' = Plus(t, 1)
    /\ expires' = expires \cup KeysOf(t)
    /\ Goto(t, IF Admitted(t, count') THEN "admitted" ELSE "refused")
    /\ left' = [left EXCEPT ![t] = IF Admitted(t, count') THEN 0 ELSE @ - 1]
    /\ UNCHANGED <<negative, faults>>

\* The pipeline fails; the server may have executed it.  claim_slot returns False.
ClaimFails(t) ==
    /\ pc[t] = "wait"
    /\ Fault("redis")
    /\ \/ UNCHANGED <<count, expires>>
       \/ count' = Plus(t, 1) /\ expires' = expires \cup KeysOf(t)
    /\ left' = [left EXCEPT ![t] = @ - 1]
    /\ Goto(t, IF left[t] = 1 THEN "idle" ELSE "wait")
    /\ UNCHANGED negative

-----------------------------------------------------------------------------
(* Running and release_slot                                                *)

\* The task enters its `try' after the awaits that follow the claim.
Enter(t) ==
    /\ pc[t] = "admitted"
    /\ Goto(t, "scan")
    /\ UNCHANGED <<count, expires, left, negative, faults>>

\* The scanner ends, fails or is cancelled inside the `try'.
Finish(t) ==
    /\ pc[t] = "scan"
    /\ Goto(t, "finally")
    /\ UNCHANGED <<count, expires, left, negative, faults>>

\* Where release_slot returns to: _acquire_slot's next attempt or its end after
\* a refusal, the rest of the node after a scan.
Return(t) == IF left[t] > 0 THEN "wait" ELSE "idle"

\* Mutant of Release: a refused attempt keeps its increments.
ReleaseAfterScanOnly(t) ==
    /\ pc[t] \in {"refused", "finally"}
    /\ count' = IF pc[t] = "finally" THEN Plus(t, -1) ELSE count
    /\ LET below == {k \in KeysOf(t) : count'[k] < 0}
       IN  /\ negative' = [negative EXCEPT ![t] = below]
           /\ Goto(t, IF below = {} THEN Return(t) ELSE "clamp")
    /\ UNCHANGED <<expires, left, faults>>

\* release_slot's pipeline: DECR both, and note the counters that went negative.
Release(t) ==
    /\ pc[t] \in {"refused", "finally"}
    /\ count' = Plus(t, -1)
    /\ LET below == {k \in KeysOf(t) : count'[k] < 0}
       IN  /\ negative' = [negative EXCEPT ![t] = below]
           /\ Goto(t, IF below = {} THEN Return(t) ELSE "clamp")
    /\ UNCHANGED <<expires, left, faults>>

\* The pipeline fails, executed or not; release_slot logs and returns.
ReleaseFails(t) ==
    /\ pc[t] \in {"refused", "finally"}
    /\ Fault("redis")
    /\ count' \in {count, Plus(t, -1)}
    /\ Goto(t, Return(t))
    /\ UNCHANGED <<expires, left, negative>>

\* SET key 0 for a counter seen negative, the organization's first; SET drops
\* the TTL.
Clamp(t, k) ==
    /\ pc[t] = "clamp"
    /\ k \in negative[t]
    /\ k = Global => negative[t] = {Global}
    /\ count' = [count EXCEPT ![k] = 0]
    /\ expires' = expires \ {k}
    /\ negative' = [negative EXCEPT ![t] = @ \ {k}]
    /\ Goto(t, IF negative[t] = {k} THEN Return(t) ELSE "clamp")
    /\ UNCHANGED <<left, faults>>

-----------------------------------------------------------------------------
(* Faults and time                                                         *)

\* The worker dies: nothing is given back.
Crash(t) ==
    /\ pc[t] # "idle"
    /\ Fault("crash")
    /\ Goto(t, "idle")
    /\ left' = [left EXCEPT ![t] = 0]
    /\ negative' = [negative EXCEPT ![t] = {}]
    /\ UNCHANGED <<count, expires>>

\* The run is cancelled: the task is cancelled at its current await.  Inside the
\* `try' the `finally' still runs (Finish); between the claim and the `try', and
\* in the awaits of claim_slot and release_slot, nothing does.
Cancel(t) ==
    /\ pc[t] \in {"wait", "refused", "admitted", "finally", "clamp"}
    /\ Fault("cancel")
    /\ Goto(t, "idle")
    /\ left' = [left EXCEPT ![t] = 0]
    /\ negative' = [negative EXCEPT ![t] = {}]
    /\ UNCHANGED <<count, expires>>

\* The TTL runs out, _SLOT_TTL_SECONDS after the last claim of any task on this
\* counter: longer than any of them holds its slot.
Expire(k) ==
    /\ k \in expires
    /\ ChargedTo(k) = {}
    /\ count' = [count EXCEPT ![k] = 0]
    /\ expires' = expires \ {k}
    /\ UNCHANGED <<pc, left, negative, faults>>

\* Redis restarts empty.
Flush ==
    /\ Fault("flush")
    /\ count' = [k \in Counters |-> 0]
    /\ expires' = {}
    /\ UNCHANGED <<pc, left, negative>>

TaskStep(t) ==
    \/ Claim(t) \/ Enter(t) \/ Finish(t) \/ Release(t)
    \/ \E k \in Counters : Clamp(t, k)

Trouble(t) == ClaimFails(t) \/ ReleaseFails(t) \/ Crash(t) \/ Cancel(t)

Next ==
    \/ \E t \in Tasks : Begin(t) \/ TaskStep(t) \/ Trouble(t)
    \/ \E k \in Counters : Expire(k)
    \/ Flush

Spec == Init /\ [][Next]_vars

-----------------------------------------------------------------------------
(* Properties                                                              *)

\* The point of the counters: whatever interleaves, is refused, crashes, is
\* cancelled or gets no reply from Redis, neither an organization nor the
\* deployment runs more scanners than its limit, as long as Redis keeps the
\* counters.
LimitRespected ==
    OnlyFaults({"crash", "cancel", "redis"}) =>
        \A k \in Counters : Cardinality(HoldersOf(k)) <= Limit(k)

\* A refused or finished attempt gives back exactly what it took: with no task
\* charged, a counter is zero, so the ceiling does not ratchet down.
SlotsReturned ==
    OnlyFaults({}) => \A k \in Counters : ChargedTo(k) = {} => count[k] = 0

\* After the counters were lost, releases of older slots drive a counter below
\* zero only until the task that saw it resets it: no lasting free capacity.
FloorRestored ==
    OnlyFaults({"flush"}) =>
        \A k \in Counters : count[k] < 0 => \E t \in Tasks : k \in negative[t]

\* The counters come back to what runs: from above after refusals and scans, and
\* from below after Redis lost them (release_slot).
CountersRecover == SlotsReturned /\ FloorRestored
=============================================================================
