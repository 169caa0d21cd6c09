------------------------------ MODULE StepLog ------------------------------
(***************************************************************************)
(* The recorded steps of a run (agent/nodes/_common.py, record_step) and   *)
(* the checklist derived from them (services/progress.py).  A driver is a  *)
(* worker that executes the run; a second one may exist after a            *)
(* redelivery (AgentWorker, SingleDriver).                                 *)
(***************************************************************************)
EXTENDS Naturals, Sequences, FiniteSets

CONSTANTS
    Drivers,        \* workers that execute the run
    StageOrder,     \* STAGE_ORDER, one node per stage
    ScanStages,     \* _ACTIVE_SCAN_STAGES
    Jumped,         \* the stages route_after_discovery jumps over
    MaxSteps        \* bound: rows of agent_steps

ASSUME StepsAssumption ==
    /\ StageOrder \in Seq(STRING)
    /\ StageOrder # << >>
    /\ ScanStages \subseteq Jumped
    /\ MaxSteps \in Nat

VARIABLES
    depth,          \* "passive" or "active"
    scoped,         \* discovery selected at least one asset
    phase,          \* the assessment: "live", "completed", "failed" or "cancelled"
    current,        \* current_stage, an index of StageOrder, 0 while queued
    steps,          \* agent_steps by seq: the stage and the status of each row
    driver,         \* the drivers
    worked          \* history: stages whose body finished

stepVars == <<depth, scoped, phase, current, steps, driver, worked>>

StageIndex == DOMAIN StageOrder
Off == [pc |-> "off", at |-> 1, seq |-> 0]

StepsInit ==
    /\ depth \in {"passive", "active"}
    /\ scoped \in BOOLEAN
    /\ phase = "live"
    /\ current = 0
    /\ steps = << >>
    /\ driver = [d \in Drivers |-> Off]
    /\ worked = {}

Moves(d, pc) == driver' = [driver EXCEPT ![d].pc = pc]
Records(d) == driver[d].seq \in DOMAIN steps

\* route_after_discovery: a passive run, or one with nothing selected, goes
\* from discovery straight to the analysis.
Applies(i) == StageOrder[i] \notin Jumped \/ (depth = "active" /\ scoped)
NodesLeft(i) == {j \in StageIndex : j > i /\ Applies(j)}

-----------------------------------------------------------------------------
(* The worker takes the run up, from any node a checkpoint names *)
Drives(d, i) ==
    /\ phase = "live"
    /\ driver[d].pc = "off"
    /\ Applies(i)
    /\ \A j \in 1..(i - 1) : Applies(j) => StageOrder[j] \in worked
    /\ driver' = [driver EXCEPT ![d] = [pc |-> "node", at |-> i, seq |-> 0]]
    /\ UNCHANGED <<depth, scoped, phase, current, steps, worked>>

(* _begin_step: _next_step_seq reads max + 1 ... *)
ReadSeq(d) ==
    /\ driver[d].pc = "node"
    /\ driver' = [driver EXCEPT ![d].pc = "begin", ![d].seq = Len(steps) + 1]
    /\ UNCHANGED <<depth, scoped, phase, current, steps, worked>>

(* ... and the row is inserted, unless (run_id, seq) is taken or the write  *)
(* fails; the body runs without a row then.                                 *)
BeginStep(d, stored) ==
    LET taken == Records(d) IN
    /\ driver[d].pc = "begin"
    /\ IF stored /\ ~taken
       THEN /\ Len(steps) < MaxSteps
            /\ steps' = Append(steps, [stage |-> driver[d].at, status |-> "running"])
            /\ Moves(d, "body")
       ELSE /\ driver' = [driver EXCEPT ![d].pc = "body", ![d].seq = 0]
            /\ UNCHANGED steps
    /\ UNCHANGED <<depth, scoped, phase, current, worked>>

(* The body enters its stage (_set_stage) *)
EnterStage(d) ==
    /\ driver[d].pc = "body"
    /\ phase = "live"
    /\ current' = driver[d].at
    /\ Moves(d, "working")
    /\ UNCHANGED <<depth, scoped, phase, steps, worked>>

Marks(d, stored, status) ==
    steps' = IF stored /\ Records(d)
             THEN [steps EXCEPT ![driver[d].seq].status = status] ELSE steps

(* _settle_step; a failure to record it is only logged *)
SettleStep(d, status, stored) ==
    /\ driver[d].pc = "working"
    /\ Marks(d, stored, status)
    /\ worked' = worked \cup {StageOrder[driver[d].at]}
    /\ IF NodesLeft(driver[d].at) = {}
       THEN Moves(d, "end")
       ELSE driver' = [driver EXCEPT ![d] =
                         [pc |-> "node", seq |-> 0,
                          at |-> CHOOSE j \in NodesLeft(driver[d].at) :
                                   \A k \in NodesLeft(driver[d].at) : j <= k]]
    /\ UNCHANGED <<depth, scoped, phase, current>>

(* _fail_step, and the runner fails the run (or the transition the body     *)
(* asks for is refused because the assessment has ended)                    *)
FailNode(d, stored) ==
    /\ driver[d].pc \in {"body", "working"}
    /\ Marks(d, stored, "failed")
    /\ phase' = IF phase = "live" THEN "failed" ELSE phase
    /\ driver' = [driver EXCEPT ![d] = Off]
    /\ UNCHANGED <<depth, scoped, current, worked>>

(* The last node completes the assessment *)
CompleteRun(d) ==
    /\ driver[d].pc = "end"
    /\ phase' = IF phase = "live" THEN "completed" ELSE phase
    /\ driver' = [driver EXCEPT ![d] = Off]
    /\ UNCHANGED <<depth, scoped, current, steps, worked>>

(* The worker dies or is shut down: record_step lets a CancelledError pass  *)
DriverDies(d) ==
    /\ driver[d].pc # "off"
    /\ driver' = [driver EXCEPT ![d] = Off]
    /\ UNCHANGED <<depth, scoped, phase, current, steps, worked>>

(* The recovery sweep fails what has no driver; an operator cancels *)
EndsFromOutside(end) ==
    /\ phase = "live"
    /\ end = "failed" => \A d \in Drivers : driver[d].pc = "off"
    /\ phase' = end
    /\ UNCHANGED <<depth, scoped, current, steps, driver, worked>>

StepsNext ==
    \/ \E d \in Drivers :
          \/ \E i \in StageIndex : Drives(d, i)
          \/ ReadSeq(d)
          \/ \E stored \in BOOLEAN : BeginStep(d, stored)
          \/ EnterStage(d)
          \/ \E status \in {"completed", "degraded"}, stored \in BOOLEAN :
                SettleStep(d, status, stored)
          \/ \E stored \in BOOLEAN : FailNode(d, stored)
          \/ CompleteRun(d)
          \/ DriverDies(d)
    \/ \E end \in {"failed", "cancelled"} : EndsFromOutside(end)

StepsSpec == StepsInit /\ [][StepsNext]_stepVars

-----------------------------------------------------------------------------
(* The checklist                                                           *)

\* _STEP_RANK.
Rank == [pending |-> 0, skipped |-> 1, running |-> 2, failed |-> 3, completed |-> 4, degraded |-> 5]

\* Mutant: the latest row of a stage.
BestIsLatest(i) ==
    {n \in DOMAIN steps : steps[n].stage = i /\ \A m \in DOMAIN steps :
        steps[m].stage = i => m <= n}

\* _index_steps: the most advanced row of a stage, the later of two equals.
Best(i) ==
    LET rows == {n \in DOMAIN steps : steps[n].stage = i} IN
    {n \in rows : \A m \in rows :
        \/ Rank[steps[m].status] < Rank[steps[n].status]
        \/ Rank[steps[m].status] = Rank[steps[n].status] /\ m <= n}

\* _inapplicable_stages: what the assessment's depth rules out.
Inapplicable(i) == depth = "passive" /\ StageOrder[i] \in ScanStages

\* Mutant: what the run has passed is filled in as finished.
StageShownFilledIn(i) ==
    IF Best(i) # {} THEN steps[CHOOSE n \in Best(i) : TRUE].status
    ELSE IF Inapplicable(i) THEN "skipped"
    ELSE IF i = current /\ phase = "live" THEN "running"
    ELSE IF phase = "completed" \/ i < current THEN "completed"
    ELSE IF phase \in {"failed", "cancelled"} /\ i >= current THEN "skipped"
    ELSE "pending"

\* stage_checklist: what the stage is shown as.
StageShown(i) ==
    IF Best(i) # {} THEN steps[CHOOSE n \in Best(i) : TRUE].status
    ELSE IF Inapplicable(i) THEN "skipped"
    ELSE IF i = current /\ phase = "live" THEN "running"
    ELSE IF phase = "completed" THEN "completed"
    ELSE IF phase \in {"failed", "cancelled"} /\ i >= current THEN "skipped"
    ELSE "pending"

SettledStages == {i \in StageIndex : StageShown(i) \in {"completed", "skipped", "degraded"}}
ChecklistPercent == (Cardinality(SettledStages) * 100) \div Len(StageOrder)

-----------------------------------------------------------------------------
StepsTypeOK ==
    /\ current \in 0..Len(StageOrder)
    /\ \A n \in DOMAIN steps : steps[n].stage \in StageIndex /\ steps[n].status \in DOMAIN Rank
    /\ \A d \in Drivers :
         /\ driver[d].pc \in {"off", "node", "begin", "body", "working", "end"}
         /\ driver[d].seq \in 0..(MaxSteps + 1)
    /\ ChecklistPercent \in 0..100

(* While the assessment lives the percentage never falls, though stages are *)
(* retried, workers die and two drivers record steps side by side.          *)
ProgressAdvances ==
    [][phase = "live" /\ phase' = "live" => ChecklistPercent' >= ChecklistPercent]_stepVars

(* While the assessment lives a stage is shown finished only if some driver *)
(* finished its body.                                                       *)
FinishedWasWorked ==
    phase = "live" => \A i \in StageIndex :
        StageShown(i) \in {"completed", "degraded"} => StageOrder[i] \in worked

(* services/progress.py: what the checklist of a living run may claim.      *)
StepsInv == StepsTypeOK /\ FinishedWasWorked
=============================================================================
