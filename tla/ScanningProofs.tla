--------------------------- MODULE ScanningProofs ---------------------------
(***************************************************************************)
(* For any faults, any number of them and any moment they come at: what a  *)
(* job row says of its scanner is true, and what its executor settled      *)
(* stays.  For any tool, deadline and grace period: what a runner hands    *)
(* back is what happened, and it leaves no process behind.                 *)
(***************************************************************************)
EXTENDS ScanSlots, ScannerJob, ScanProcess, Integers, FiniteSetTheorems, TLAPS

-----------------------------------------------------------------------------
(* One executor does all the work of a job, so the invariant says what its *)
(* position tells about the process, the row and what it has in its hands. *)

\* A process runs under its executor, or has outlived it; never beside one that
\* has returned.
ProcessOfExecutor == process => exec \in {"scanning", "dead"}

\* Only an executor that has returned has settled the row, or named artifacts.
SettledOnReturn ==
    /\ status \in TerminalStatuses /\ ~lost => exec = "done"
    /\ rows => exec = "done"

\* Results and artifacts an executor holds are what they are called.
InHand ==
    /\ exec = "uploaded" /\ stored = "artifacts" => objects
    /\ result = "cancelled" => cancel

\* No heartbeat before the mark, and none goes stale from there to the exit of the
\* scanner; so nothing is reaped before.
BeatsUntilExit ==
    /\ exec = "new" => status = "none" /\ ~lost
    /\ exec \in {"new", "queued"} => heartbeat = "null"
    /\ exec \in {"marked", "scanning", "fatal"} => heartbeat # "stale"

JobIInv == JobInv /\ ProcessOfExecutor /\ SettledOnReturn /\ InHand /\ BeatsUntilExit

LEMMA JobInitially == JobInit => JobIInv
<1> SUFFICES ASSUME JobInit PROVE JobIInv
  OBVIOUS
<1>1. JobTypeOK
  BY DEF JobInit, JobTypeOK, JobStatuses, Results, Uploads, ExecutorPoints
<1>2. JobInv
  BY <1>1 DEF JobInit, JobInv, RowsBacked, CancelledIsAsked, SettledIsStopped,
              LostAfterScan, TerminalStatuses
<1> QED
  BY <1>2 DEF JobInit, JobIInv, ProcessOfExecutor, SettledOnReturn, InHand,
              BeatsUntilExit, TerminalStatuses

\* The invariant is kept by every step of the job.
LEMMA JobInductive == JobIInv /\ [JobNext]_jobVars => JobIInv'
<1> SUFFICES ASSUME JobIInv, [JobNext]_jobVars PROVE JobIInv'
  OBVIOUS
<1> USE DEF JobIInv, JobInv, JobTypeOK, RowsBacked, CancelledIsAsked, SettledIsStopped,
            LostAfterScan, ProcessOfExecutor, SettledOnReturn, InHand, BeatsUntilExit,
            JobStatuses, ActiveStatuses, TerminalStatuses, Results, Uploads,
            ExecutorPoints, ExecutorAlive, rowVars, JobFault, JobFaultKinds, Beating
<1>1. CASE Enqueue
  BY <1>1 DEF Enqueue
<1>2. CASE NoCapacity
  BY <1>2 DEF NoCapacity
<1>3. CASE MarkRunning
  BY <1>3 DEF MarkRunning
<1>4. CASE StartProcess
  BY <1>4 DEF StartProcess
<1>5. CASE StartRefused
  BY <1>5 DEF StartRefused
<1>6. CASE FinalizeFailure
  BY <1>6, ZenonT(60) DEF FinalizeFailure
<1>7. ASSUME NEW r \in Results, Exit(r) PROVE JobIInv'
  BY <1>7, ZenonT(60) DEF Exit
<1>8. CASE PassDeadline
  BY <1>8, ZenonT(60) DEF PassDeadline
<1>9. CASE SeeCancel
  BY <1>9 DEF SeeCancel, Asked
<1>10. CASE Archive
  BY <1>10, ZenonT(60) DEF Archive
<1>11. CASE Finalize
  <2>1. StatusOf(result) \in TerminalStatuses /\ (StatusOf(result) = "CANCELLED" <=> result = "cancelled")
    BY DEF StatusOf
  <2> QED
    BY <1>11, <2>1 DEF Finalize, KeepsLost
<1>12. CASE TeardownFlag
  BY <1>12 DEF TeardownFlag
<1>13. CASE MarkRunningFails
  BY <1>13 DEF MarkRunningFails
<1>14. CASE ArchiveFails
  BY <1>14 DEF ArchiveFails
<1>15. CASE FinalizeFails
  BY <1>15 DEF FinalizeFails
<1>16. CASE CancelAdvance
  <2>1. jobFaults' \in Nat
    BY <1>16 DEF CancelAdvance
  <2>2. ~process'
    BY <1>16, Zenon DEF CancelAdvance
  <2>3. JobTypeOK'
    BY <1>16, <2>1, <2>2, ZenonT(60) DEF CancelAdvance
  <2> QED
    BY <1>16, <2>2, <2>3 DEF CancelAdvance
<1>17. CASE ExecutorDies
  <2>1. jobFaults' \in Nat
    BY <1>17 DEF ExecutorDies
  <2>2. process' \in BOOLEAN /\ (process' => process)
    <3>1. process \in BOOLEAN /\ (process' = process \/ process' = FALSE)
      BY <1>17 DEF ExecutorDies
    <3>2. CASE process' = process
      BY <3>1, <3>2, Zenon
    <3>3. CASE process' = FALSE
      BY <3>3, Zenon
    <3> QED
      BY <3>1, <3>2, <3>3
  <2>3. JobTypeOK'
    BY <1>17, <2>1, <2>2, ZenonT(60) DEF ExecutorDies
  <2> QED
    BY <1>17, <2>2, <2>3 DEF ExecutorDies
<1>18. CASE Beat
  BY <1>18 DEF Beat
<1>19. CASE RequestCancel
  BY <1>19 DEF RequestCancel
<1>20. CASE OrphanExits
  <2>1. JobTypeOK'
    BY <1>20, ZenonT(60) DEF OrphanExits
  <2>2. ~process'
    BY <1>20 DEF OrphanExits
  <2> QED
    BY <1>20, <2>1, <2>2 DEF OrphanExits
<1>21. CASE Reap
  BY <1>21 DEF Reap
<1>22. CASE HeartbeatAges
  BY <1>22 DEF HeartbeatAges
<1>23. CASE UNCHANGED jobVars
  BY <1>23 DEF jobVars
<1> QED
  BY <1>1, <1>2, <1>3, <1>4, <1>5, <1>6, <1>7, <1>8, <1>9, <1>10, <1>11, <1>12, <1>13,
     <1>14, <1>15, <1>16, <1>17, <1>18, <1>19, <1>20, <1>21, <1>22, <1>23
     DEF JobNext, Executor, JobTrouble

\* services/job.py: rows and flags of artifacts are backed by objects, cancelled
\* means asked, a settled scan is over, and the reaper takes no job from under its
\* scanner; for any faults.
THEOREM JobInvHolds == JobSpec => []JobInv
<1>1. JobIInv => JobInv
  BY DEF JobIInv
<1> QED
  BY JobInitially, JobInductive, <1>1, PTL DEF JobSpec

\* services/job.py: requests, teardown and reaper leave the status of a settled job
\* alone; only the verdict "worker lost" is overwritten.
THEOREM SettledUnlessLostHolds == JobSpec => SettledUnlessLost
<1>1. JobIInv /\ [JobNext]_jobVars
        => [(status \in TerminalStatuses /\ ~lost) => (status' = status)]_jobVars
  <2> SUFFICES ASSUME JobIInv, JobNext, status \in TerminalStatuses, ~lost
               PROVE  status' = status
    OBVIOUS
  <2>1. exec = "done"
    BY DEF JobIInv, SettledOnReturn
  <2> QED
    BY <2>1 DEF JobNext, Executor, JobTrouble, TerminalStatuses, rowVars,
       Enqueue, NoCapacity, MarkRunning, StartProcess, StartRefused, FinalizeFailure,
       Exit, PassDeadline, SeeCancel, Asked, Archive, Finalize, TeardownFlag,
       MarkRunningFails, ArchiveFails, FinalizeFails, CancelAdvance, ExecutorDies,
       ExecutorAlive, Beat, RequestCancel, OrphanExits, Reap, HeartbeatAges
<1> QED
  BY JobInitially, JobInductive, <1>1, PTL DEF JobSpec, SettledUnlessLost
-----------------------------------------------------------------------------
(* One scanner process                                                     *)

ToolStates == {"running", "exited", "terminated", "killed", "never"}
RunnerPoints == {"spawn", "poll", "cancel?", "sleep", "stop", "grace", "read",
                 "returned", "raised", "dead"}

\* The types in full.
ProcessTypes ==
    /\ tool \in [state : ToolStates, effort : 1..MaxEffort, left : Int, chatty : BOOLEAN,
                 obeys : BOOLEAN, heirs : BOOLEAN, piped : Int]
    /\ runner \in [pc : RunnerPoints, waited : Int, polls : Int, stopping : Int,
                   why : {"exit", "timeout", "cancel"}]
    /\ asked \in BOOLEAN
    /\ scanResult \in [kind : {"none", "exit", "timeout", "cancel"}, code : {0, 1},
                       log : BOOLEAN]

\* Work and output of the tool stay within what it has and what the pipe holds; a
\* tool that lives and is not blocked has worked through every second that was waited.
ToolWorks ==
    /\ tool.left \in 0..tool.effort
    /\ ToolAlive => tool.left > 0
    /\ tool.piped \in 0..PipeCapacity
    /\ ToolAlive => Blocked \/ tool.effort - tool.left >= runner.waited

\* The runner waits for its deadline and no longer.
WaitsInBounds ==
    /\ runner.waited \in 0..RunTimeout
    /\ runner.pc \in {"cancel?", "sleep"} => runner.waited < RunTimeout
    /\ runner.stopping \in 0..Grace

\* It reads the output of a tool that is gone, and returns after that.
ReadsTheDead ==
    /\ runner.pc \in {"read", "returned", "raised"} => ~ToolAlive
    /\ scanResult.kind # "none" => runner.pc = "returned" /\ scanResult.kind = runner.why

\* Why it stopped waiting, as long as it holds the reason.
ReasonTrue ==
    /\ runner.why = "timeout" => tool.effort > RunTimeout \/ Blocked
    /\ runner.why = "cancel" => asked
    /\ runner.why = "exit" => /\ runner.pc \notin {"stop", "grace"}
                              /\ runner.pc # "raised" => tool.state \in {"running", "exited"}

ProcessIInv == ProcessTypes /\ ToolWorks /\ WaitsInBounds /\ ReadsTheDead /\ ReasonTrue

\* A second of the tool's life spends work and fills the pipe, within bounds.
LEMMA ToolStepWorks ==
    ASSUME ProcessTypes, ToolWorks, tool' = ToolStep,
           runner'.waited \in Int,
           runner'.waited <= runner.waited + 1
    PROVE  /\ tool' \in [state : ToolStates, effort : 1..MaxEffort, left : Int,
                         chatty : BOOLEAN, obeys : BOOLEAN, heirs : BOOLEAN, piped : Int]
           /\ ToolWorks'
           /\ tool'.effort = tool.effort
           /\ Blocked => Blocked'
           /\ tool.state \in {"running", "exited"} => tool'.state \in {"running", "exited"}
           /\ ~ToolAlive => ~ToolAlive'
<1> USE ProcessAssumption DEF ProcessTypes, ToolWorks, ToolStep, ToolAlive, Blocked, ToolStates
<1>1. CASE ~ToolAlive \/ Blocked
  BY <1>1
<1>2. CASE ToolAlive /\ ~Blocked
  <2>1. /\ tool'.left = tool.left - 1
        /\ tool'.effort = tool.effort /\ tool'.chatty = tool.chatty
        /\ tool'.piped = IF tool.chatty THEN tool.piped + 1 ELSE tool.piped
        /\ tool'.state = IF tool.left = 1 THEN "exited" ELSE tool.state
    BY <1>2
  <2>2. tool' \in [state : ToolStates, effort : 1..MaxEffort, left : Int,
                   chatty : BOOLEAN, obeys : BOOLEAN, heirs : BOOLEAN, piped : Int]
    <3> DEFINE piped == IF tool.chatty THEN tool.piped + 1 ELSE tool.piped
               state == IF tool.left = 1 THEN "exited" ELSE tool.state
    <3>1. tool' = [tool EXCEPT !.left = tool.left - 1, !.piped = piped, !.state = state]
      BY <1>2
    <3>2. tool.left - 1 \in Int /\ piped \in Int /\ state \in ToolStates
      BY <1>2
    <3> HIDE DEF piped, state
    <3> QED
      BY <3>1, <3>2
  <2>3. ToolWorks'
    <3>1. tool.left \in 1..tool.effort /\ tool.effort \in Int
      BY <1>2
    <3>2. tool'.left \in 0..tool'.effort
      BY <2>1, <3>1
    <3>3. ToolAlive' => tool'.left > 0
      BY <2>1, <3>1
    <3>4. tool'.piped \in 0..PipeCapacity
      BY <1>2, <2>1
    <3>5. tool'.effort - tool'.left >= runner'.waited
      BY <1>2, <2>1, <3>1
    <3> QED
      BY <3>2, <3>3, <3>4, <3>5
  <2> QED
    BY <1>2, <2>1, <2>2, <2>3
<1> QED
  BY <1>1, <1>2

LEMMA ProcessInitially == ProcessInit => ProcessIInv
<1> SUFFICES ASSUME ProcessInit PROVE ProcessIInv
  OBVIOUS
<1> USE ProcessAssumption DEF ProcessInit, NoResult, ToolStates, RunnerPoints
<1>1. PICK t \in [state : {"running"}, effort : 1..MaxEffort, left : 1..MaxEffort,
                 chatty : BOOLEAN, obeys : BOOLEAN, heirs : BOOLEAN, piped : {0}] :
        t.left = t.effort /\ tool = t
  OBVIOUS
<1>2. ProcessTypes
  <2>1. tool \in [state : ToolStates, effort : 1..MaxEffort, left : Int, chatty : BOOLEAN,
                 obeys : BOOLEAN, heirs : BOOLEAN, piped : Int]
    BY <1>1
  <2>2. asked \in BOOLEAN
    OBVIOUS
  <2>3. /\ runner \in [pc : RunnerPoints, waited : Int, polls : Int, stopping : Int,
                       why : {"exit", "timeout", "cancel"}]
        /\ scanResult \in [kind : {"none", "exit", "timeout", "cancel"}, code : {0, 1},
                           log : BOOLEAN]
    OBVIOUS
  <2> QED
    BY <2>1, <2>2, <2>3 DEF ProcessTypes
<1>3. ToolWorks /\ WaitsInBounds
  BY <1>1, SMTT(40) DEF ToolWorks, WaitsInBounds, ToolAlive
<1>4. ReadsTheDead /\ ReasonTrue
  BY <1>1 DEF ReadsTheDead, ReasonTrue
<1> QED
  BY <1>2, <1>3, <1>4 DEF ProcessIInv

\* The invariant is kept by every step of the runner, of the worker and of whoever
\* asks for a cancel.
LEMMA ProcessInductive == ProcessIInv /\ [ProcessNext]_processVars => ProcessIInv'
<1> SUFFICES ASSUME ProcessIInv, [ProcessNext]_processVars PROVE ProcessIInv'
  OBVIOUS
<1> USE ProcessAssumption DEF ProcessIInv, ProcessTypes, ToolWorks, WaitsInBounds,
        ReadsTheDead, ReasonTrue, ToolAlive, Blocked, Turns, Dies, ToolStates, RunnerPoints
<1>1. CASE AskCancel
  BY <1>1 DEF AskCancel
<1>2. CASE Spawn
  BY <1>2 DEF Spawn
<1>3. CASE Poll
  <2>1. UNCHANGED <<tool, asked, scanResult>> /\ runner.pc = "poll"
    BY <1>3 DEF Poll
  <2>2. CASE ~ToolAlive
    <3>1. runner' = [runner EXCEPT !.pc = "read"]
      BY <1>3, <2>2 DEF Poll
    <3> QED
      BY <2>1, <2>2, <3>1
  <2>3. CASE ToolAlive /\ runner.waited >= RunTimeout
    <3>1. runner' = [runner EXCEPT !.pc = "stop", !.why = "timeout"]
      BY <1>3, <2>3 DEF Poll
    <3>2. tool.effort > RunTimeout \/ Blocked
      BY <2>3
    <3> QED
      BY <2>1, <2>3, <3>1, <3>2, ZenonT(60)
  <2>4. CASE ToolAlive /\ runner.waited < RunTimeout
    <3>1. PICK next \in {"cancel?", "sleep"} :
            runner' = [runner EXCEPT !.polls = runner.polls + 1, !.pc = next]
      BY <1>3, <2>4 DEF Poll
    <3> DEFINE polls == runner.polls + 1
    <3>2. polls \in Int /\ next \in RunnerPoints
      OBVIOUS
    <3>3. runner' = [runner EXCEPT !.polls = polls, !.pc = next]
      BY <3>1
    <3> HIDE DEF polls
    <3>4. /\ runner' \in [pc : RunnerPoints, waited : Int, polls : Int, stopping : Int,
                          why : {"exit", "timeout", "cancel"}]
          /\ runner'.pc = next /\ runner'.waited = runner.waited
          /\ runner'.stopping = runner.stopping /\ runner'.why = runner.why
      BY <3>2, <3>3
    <3> QED
      BY <2>1, <2>4, <3>4
  <2> QED
    BY <2>2, <2>3, <2>4
<1>4. CASE AskedToStop
  <2>1. /\ UNCHANGED <<asked, scanResult>> /\ runner.pc = "cancel?"
        /\ runner' \in [pc : RunnerPoints, waited : Int, polls : Int, stopping : Int,
                        why : {"exit", "timeout", "cancel"}]
        /\ runner'.waited = runner.waited /\ runner'.stopping = runner.stopping
        /\ \/ asked /\ runner'.pc = "stop" /\ runner'.why = "cancel"
           \/ runner'.pc = "sleep" /\ runner'.why = runner.why
    BY <1>4 DEF AskedToStop
  <2>2. CASE tool' = tool
    BY <2>1, <2>2
  <2>3. CASE tool' = ToolStep
    <3>1. /\ ToolWorks'
          /\ tool' \in [state : ToolStates, effort : 1..MaxEffort, left : Int,
                        chatty : BOOLEAN, obeys : BOOLEAN, heirs : BOOLEAN, piped : Int]
          /\ tool'.effort = tool.effort
          /\ Blocked => Blocked'
          /\ tool.state \in {"running", "exited"} => tool'.state \in {"running", "exited"}
      BY <2>1, <2>3, ToolStepWorks
    <3> QED
      BY <2>1, <3>1
  <2> QED
    BY <1>4, <2>2, <2>3 DEF AskedToStop
<1>5. CASE CallbackRaises
  BY <1>5 DEF CallbackRaises
<1>6. CASE Sleep
  <2>1. /\ UNCHANGED <<asked, scanResult>> /\ runner.pc = "sleep" /\ tool' = ToolStep
        /\ runner' \in [pc : RunnerPoints, waited : Int, polls : Int, stopping : Int,
                        why : {"exit", "timeout", "cancel"}]
        /\ runner'.waited = runner.waited + 1 /\ runner'.stopping = runner.stopping
        /\ runner'.pc = "poll" /\ runner'.why = runner.why
    <3>1. /\ UNCHANGED <<asked, scanResult>> /\ runner.pc = "sleep" /\ tool' = ToolStep
          /\ runner' = [runner EXCEPT !.pc = "poll", !.waited = runner.waited + 1]
      BY <1>6, Zenon DEF Sleep
    <3> DEFINE waited == runner.waited + 1
    <3>2. waited \in Int
      OBVIOUS
    <3>3. runner' = [runner EXCEPT !.pc = "poll", !.waited = waited]
      BY <3>1
    <3> HIDE DEF waited
    <3>4. /\ runner' \in [pc : RunnerPoints, waited : Int, polls : Int, stopping : Int,
                          why : {"exit", "timeout", "cancel"}]
          /\ runner'.waited = waited /\ runner'.stopping = runner.stopping
          /\ runner'.pc = "poll" /\ runner'.why = runner.why
      BY <3>2, <3>3
    <3> QED
      BY <3>1, <3>4 DEF waited
  <2>2. /\ ToolWorks'
        /\ tool' \in [state : ToolStates, effort : 1..MaxEffort, left : Int,
                      chatty : BOOLEAN, obeys : BOOLEAN, heirs : BOOLEAN, piped : Int]
        /\ tool'.effort = tool.effort
        /\ Blocked => Blocked'
        /\ tool.state \in {"running", "exited"} => tool'.state \in {"running", "exited"}
    BY <2>1, ToolStepWorks
  <2> QED
    BY <2>1, <2>2
<1>7. CASE Terminate
  BY <1>7 DEF Terminate
<1>8. CASE GraceSecond
  BY <1>8, ToolStepWorks DEF GraceSecond
<1>9. CASE Collect
  BY <1>9 DEF Collect
<1>10. CASE WorkerDies
  BY <1>10 DEF WorkerDies
<1>11. CASE UNCHANGED processVars
  BY <1>11 DEF processVars
<1> QED
  BY <1>1, <1>2, <1>3, <1>4, <1>5, <1>6, <1>7, <1>8, <1>9, <1>10, <1>11
     DEF ProcessNext, RunnerStep

\* scanners/runner.py: a run that ended left no process behind, and it was timed
\* out, cancelled or ended as it says; for any tool and any deadlines.
THEOREM ProcessInvHolds == ProcessSpec => []ProcessInv
<1>1. ProcessIInv => ProcessInv
  BY ProcessAssumption DEF ProcessIInv, ProcessTypes, ToolWorks, WaitsInBounds, ReadsTheDead,
     ReasonTrue, ProcessInv, ProcessTypeOK, NoProcessLeft, ResultHonestUnlessBlocked,
     ToolStates, RunnerPoints, ToolAlive
<1> QED
  BY ProcessInitially, ProcessInductive, <1>1, PTL DEF ProcessSpec
-----------------------------------------------------------------------------
(* The admission limits hold for any number of tasks, organizations,       *)
(* limits and faults, as long as Redis keeps its counters.                 *)
(*                                                                         *)
(* The limits speak of the tasks, the code only looks at the counters: the *)
(* invariant that connects them is Covered, a counter is at least the      *)
(* number of tasks charged to it (leaks only make it larger).  Then no     *)
(* counter is ever negative and nobody resets one (NoReset), which is what *)
(* keeps Covered true.                                                     *)

\* A counter is at least the number of tasks charged to it.
Covered == \A k \in Counters : Cardinality(ChargedTo(k)) <= count[k]

\* A task that waits has an attempt left.
WaitLeft == \A t \in Tasks : pc[t] = "wait" => left[t] > 0

\* Nobody saw a negative counter.
NoReset == \A t \in Tasks : negative[t] = {}

\* Neither an organization nor the deployment holds more slots than its limit.
Limits == \A k \in Counters : Cardinality(HoldersOf(k)) <= Limit(k)

\* Redis has kept its counters so far.
CountersKept == OnlyFaults({"crash", "cancel", "redis"})

ChargedPoints == {"refused", "admitted", "scan", "finally"}
HoldingPoints == {"admitted", "scan", "finally"}

TypeInv == TypeOK /\ WaitLeft

\* The counters with a charge added or taken away are counters.
LEMMA PlusType ==
    ASSUME TypeOK, NEW t \in Tasks, NEW d \in Int
    PROVE  Plus(t, d) \in [Counters -> Int] /\ KeysOf(t) \subseteq Counters
BY SlotConstants DEF TypeOK, Plus, KeysOf, Counters

\* Counters, points and attempts keep their types.
LEMMA TypeStep == TypeInv /\ [Next]_vars => TypeInv'
<1> SUFFICES ASSUME TypeInv, [Next]_vars PROVE TypeInv'
  OBVIOUS
<1> USE SlotConstants DEF TypeInv, WaitLeft, TypeOK, Points, Goto, Fault, FaultKinds
<1>1. ASSUME NEW t \in Tasks, Begin(t) \/ Enter(t) \/ Finish(t) PROVE TypeInv'
  BY <1>1 DEF Begin, Enter, Finish
<1>2. ASSUME NEW t \in Tasks, Claim(t) PROVE TypeInv'
  <2>1. left[t] \in 1 .. MaxAttempts
    BY <1>2 DEF Claim
  <2>2. count' \in [Counters -> Int] /\ expires' \subseteq Counters
    BY <1>2, PlusType DEF Claim
  <2>3. left' \in [Tasks -> 0 .. MaxAttempts]
    BY <1>2, <2>1 DEF Claim
  <2>4. pc' \in [Tasks -> Points] /\ \A u \in Tasks : pc'[u] = "wait" => left'[u] > 0
    BY <1>2 DEF Claim
  <2> QED
    BY <1>2, <2>2, <2>3, <2>4 DEF Claim
<1>3. ASSUME NEW t \in Tasks, Release(t) PROVE TypeInv'
  <2>1. {k \in KeysOf(t) : count'[k] < 0} \in SUBSET Counters
    BY PlusType
  <2>2. count' \in [Counters -> Int]
    BY <1>3, PlusType DEF Release
  <2> QED
    BY <1>3, <2>1, <2>2 DEF Release, Return
<1>4. ASSUME NEW t \in Tasks, NEW k \in Counters, Clamp(t, k) PROVE TypeInv'
  <2>1. count' \in [Counters -> Int] /\ expires' \subseteq Counters /\ left' = left
    BY <1>4 DEF Clamp
  <2>2. negative' \in [Tasks -> SUBSET Counters]
    <3>1. negative[t] \ {k} \in SUBSET Counters
      OBVIOUS
    <3> QED
      BY <1>4, <3>1 DEF Clamp
  <2>3. pc' \in [Tasks -> Points] /\ \A u \in Tasks : pc'[u] = "wait" => left'[u] > 0
    BY <1>4 DEF Clamp, Return
  <2> QED
    BY <1>4, <2>1, <2>2, <2>3 DEF Clamp
<1>5. ASSUME NEW t \in Tasks, ClaimFails(t) PROVE TypeInv'
  <2>1. left[t] \in 1 .. MaxAttempts
    BY <1>5 DEF ClaimFails
  <2>2. count' \in [Counters -> Int] /\ expires' \subseteq Counters
    BY <1>5, PlusType DEF ClaimFails
  <2>3. left' \in [Tasks -> 0 .. MaxAttempts]
    BY <1>5, <2>1 DEF ClaimFails
  <2>4. pc' \in [Tasks -> Points] /\ \A u \in Tasks : pc'[u] = "wait" => left'[u] > 0
    BY <1>5, <2>1 DEF ClaimFails
  <2> QED
    BY <1>5, <2>2, <2>3, <2>4 DEF ClaimFails
<1>6. ASSUME NEW t \in Tasks, ReleaseFails(t) PROVE TypeInv'
  <2>1. count' \in [Counters -> Int]
    BY <1>6, PlusType DEF ReleaseFails
  <2> QED
    BY <1>6, <2>1 DEF ReleaseFails, Return
<1>7. ASSUME NEW t \in Tasks, Crash(t) \/ Cancel(t) PROVE TypeInv'
  BY <1>7 DEF Crash, Cancel
<1>8. ASSUME NEW k \in Counters, Expire(k) PROVE TypeInv'
  BY <1>8 DEF Expire
<1>9. CASE Flush
  BY <1>9 DEF Flush
<1>10. CASE UNCHANGED vars
  BY <1>10 DEF vars
<1> QED
  BY <1>1, <1>2, <1>3, <1>4, <1>5, <1>6, <1>7, <1>8, <1>9, <1>10 DEF Next, TaskStep, Trouble

LEMMA TypeInit == Init => TypeInv
BY SlotConstants DEF Init, TypeInv, WaitLeft, TypeOK, Points, FaultKinds

\* The counters, the points of the tasks and the attempts left to them always
\* have their types.
THEOREM TypeCorrect == Spec => []TypeOK
<1>1. TypeInv => TypeOK
  BY DEF TypeInv
<1> QED
  BY <1>1, TypeInit, TypeStep, PTL DEF Spec

-----------------------------------------------------------------------------
\* There are finitely many holders of a slot, and all are charged for it.
LEMMA HoldersCharged ==
    ASSUME NEW k
    PROVE  /\ IsFiniteSet(ChargedTo(k))
           /\ IsFiniteSet(HoldersOf(k))
           /\ Cardinality(ChargedTo(k)) \in Nat
           /\ Cardinality(HoldersOf(k)) \in Nat
           /\ Cardinality(HoldersOf(k)) <= Cardinality(ChargedTo(k))
<1>1. ChargedTo(k) \in SUBSET Tasks /\ HoldersOf(k) \in SUBSET ChargedTo(k)
  BY DEF ChargedTo, HoldersOf, Charged, Holding
<1>2. IsFiniteSet(ChargedTo(k))
  BY <1>1, SlotConstants, FS_Subset
<1>3. IsFiniteSet(HoldersOf(k)) /\ Cardinality(HoldersOf(k)) <= Cardinality(ChargedTo(k))
  BY <1>1, <1>2, FS_Subset
<1> QED
  BY <1>2, <1>3, FS_CardinalityType

\* How the sets of charged and holding tasks change when one task moves.
LEMMA TaskMoves ==
    ASSUME TypeOK, NEW t \in Tasks, NEW point, pc' = [pc EXCEPT ![t] = point], NEW k
    PROVE  /\ ChargedTo(k)' = IF point \in ChargedPoints /\ k \in KeysOf(t)
                              THEN ChargedTo(k) \cup {t} ELSE ChargedTo(k) \ {t}
           /\ HoldersOf(k)' = IF point \in HoldingPoints /\ k \in KeysOf(t)
                              THEN HoldersOf(k) \cup {t} ELSE HoldersOf(k) \ {t}
<1>1. \A u \in Tasks : pc'[u] = IF u = t THEN point ELSE pc[u]
  BY DEF TypeOK
<1>2. KeysOf(t)' = KeysOf(t)
  BY DEF KeysOf
<1> QED
  BY <1>1, <1>2 DEF ChargedTo, HoldersOf, Charged, Holding, ChargedPoints, HoldingPoints, KeysOf

\* A task that gives up its place, charged or not, and takes at most one off its
\* counters if it was charged, leaves them covered and adds no holder.
LEMMA TaskLeaves ==
    ASSUME TypeOK, Covered, Limits, NEW t \in Tasks,
           NEW point \in Points \ ChargedPoints, pc' = [pc EXCEPT ![t] = point],
           \A k \in Counters :
              count'[k] >= IF Charged(t) /\ k \in KeysOf(t) THEN count[k] - 1 ELSE count[k],
           count' \in [Counters -> Int]
    PROVE  Covered' /\ Limits'
<1> SUFFICES ASSUME NEW k \in Counters
             PROVE  /\ Cardinality(ChargedTo(k)') <= count'[k]
                    /\ Cardinality(HoldersOf(k)') <= Limit(k)
  BY DEF Covered, Limits, Counters, Limit
<1>1. ChargedTo(k)' = ChargedTo(k) \ {t} /\ HoldersOf(k)' = HoldersOf(k) \ {t}
  BY TaskMoves DEF ChargedPoints, HoldingPoints
<1>2. Cardinality(ChargedTo(k) \ {t}) =
        IF t \in ChargedTo(k) THEN Cardinality(ChargedTo(k)) - 1 ELSE Cardinality(ChargedTo(k))
  BY HoldersCharged, FS_RemoveElement
<1>3. Cardinality(HoldersOf(k) \ {t}) =
        IF t \in HoldersOf(k) THEN Cardinality(HoldersOf(k)) - 1 ELSE Cardinality(HoldersOf(k))
  BY HoldersCharged, FS_RemoveElement
<1>4. Cardinality(ChargedTo(k)) <= count[k] /\ Cardinality(HoldersOf(k)) <= Limit(k)
  BY DEF Covered, Limits
<1>5. t \in ChargedTo(k) <=> Charged(t) /\ k \in KeysOf(t)
  BY DEF ChargedTo
<1>6. count[k] \in Int /\ count'[k] \in Int /\ Limit(k) \in Int
  BY SlotConstants DEF TypeOK, Limit
<1> QED
  BY <1>1, <1>2, <1>3, <1>4, <1>5, <1>6, HoldersCharged

\* A holder that goes on holding changes neither set.
LEMMA TaskStays ==
    ASSUME TypeOK, Covered, Limits, NEW t \in Tasks, NEW point \in HoldingPoints,
           pc' = [pc EXCEPT ![t] = point], UNCHANGED count, Holding(t)
    PROVE  Covered' /\ Limits'
<1>1. ASSUME NEW k \in Counters
      PROVE  ChargedTo(k)' = ChargedTo(k) /\ HoldersOf(k)' = HoldersOf(k)
  <2>1. t \in ChargedTo(k) <=> k \in KeysOf(t)
    BY DEF ChargedTo, Charged, Holding
  <2>2. t \in HoldersOf(k) <=> k \in KeysOf(t)
    BY DEF HoldersOf, Holding
  <2>3. /\ ChargedTo(k)' = IF k \in KeysOf(t) THEN ChargedTo(k) \cup {t} ELSE ChargedTo(k) \ {t}
        /\ HoldersOf(k)' = IF k \in KeysOf(t) THEN HoldersOf(k) \cup {t} ELSE HoldersOf(k) \ {t}
    BY TaskMoves DEF ChargedPoints, HoldingPoints
  <2> QED
    BY <2>1, <2>2, <2>3
<1>2. ASSUME NEW k \in Counters
      PROVE  /\ Cardinality(ChargedTo(k)') <= count'[k]
             /\ Cardinality(HoldersOf(k)') <= Limit(k)
  BY <1>1 DEF Covered, Limits
<1> QED
  BY <1>2 DEF Covered, Limits, Counters, Limit

\* claim_slot: the counters are incremented before they are compared, so an
\* admitted task finds itself counted within the limits.
LEMMA ClaimStep ==
    ASSUME TypeOK, Covered, Limits, NEW t \in Tasks, Claim(t), TypeOK'
    PROVE  Covered' /\ Limits'
<1> SUFFICES ASSUME NEW k \in Counters
             PROVE  /\ Cardinality(ChargedTo(k)') <= count'[k]
                    /\ Cardinality(HoldersOf(k)') <= Limit(k)
  BY DEF Covered, Limits, Counters, Limit
<1>1. PICK point \in {"admitted", "refused"} :
         /\ pc' = [pc EXCEPT ![t] = point]
         /\ pc[t] = "wait"
         /\ point = "admitted" <=> Admitted(t, count')
  BY DEF Claim, Goto
<1>2. t \notin ChargedTo(k) /\ t \notin HoldersOf(k)
  BY <1>1 DEF ChargedTo, HoldersOf, Charged, Holding
<1>3. count'[k] = IF k \in KeysOf(t) THEN count[k] + 1 ELSE count[k]
  BY DEF Claim, Plus, TypeOK
<1>4. ChargedTo(k)' = IF k \in KeysOf(t) THEN ChargedTo(k) \cup {t} ELSE ChargedTo(k) \ {t}
  BY <1>1, TaskMoves DEF ChargedPoints
<1>5. Cardinality(ChargedTo(k) \cup {t}) = Cardinality(ChargedTo(k)) + 1
  BY <1>2, HoldersCharged, FS_AddElement
<1>6. ChargedTo(k) \ {t} = ChargedTo(k) /\ HoldersOf(k) \ {t} = HoldersOf(k)
  BY <1>2
<1>7. Cardinality(ChargedTo(k)) <= count[k] /\ Cardinality(HoldersOf(k)) <= Limit(k)
  BY DEF Covered, Limits
<1>8. count[k] \in Int /\ count'[k] \in Int /\ Limit(k) \in Int
  BY SlotConstants DEF TypeOK, Limit
<1>9. Cardinality(ChargedTo(k)') <= count'[k]
  <2>1. CASE k \in KeysOf(t)
    BY <1>3, <1>4, <1>5, <1>7, <1>8, <2>1, HoldersCharged
  <2>2. CASE k \notin KeysOf(t)
    BY <1>3, <1>4, <1>6, <1>7, <2>2
  <2> QED
    BY <2>1, <2>2
<1>10. Cardinality(HoldersOf(k)') <= Limit(k)
  <2>1. CASE Admitted(t, count') /\ k \in KeysOf(t)
    <3>1. count'[k] <= Limit(k)
      BY <2>1, SlotConstants DEF Admitted, KeysOf, Limit
    <3>2. HoldersOf(k)' = HoldersOf(k) \cup {t}
      BY <1>1, <2>1, TaskMoves DEF HoldingPoints
    <3>3. Cardinality(HoldersOf(k) \cup {t}) = Cardinality(HoldersOf(k)) + 1
      BY <1>2, HoldersCharged, FS_AddElement
    <3> QED
      BY <1>3, <1>7, <1>8, <2>1, <3>1, <3>2, <3>3, HoldersCharged
  <2>2. CASE ~(Admitted(t, count') /\ k \in KeysOf(t))
    BY <1>1, <1>6, <1>7, <2>2, TaskMoves DEF HoldingPoints
  <2> QED
    BY <2>1, <2>2
<1> QED
  BY <1>9, <1>10

\* release_slot: a charged task finds its counters at one or more, so that DECR
\* leaves none negative.
LEMMA ReleaseAboveZero ==
    ASSUME TypeOK, Covered, NEW t \in Tasks, Charged(t), NEW k \in KeysOf(t)
    PROVE  k \in Counters /\ count[k] >= 1
<1>1. k \in Counters
  BY PlusType
<1>2. t \in ChargedTo(k)
  BY DEF ChargedTo
<1>3. Cardinality(ChargedTo(k)) # 0
  BY <1>2, HoldersCharged, FS_EmptySet
<1> QED
  BY <1>1, <1>3, HoldersCharged DEF Covered, TypeOK

-----------------------------------------------------------------------------
(* The inductive invariant                                                 *)

Sound == Covered /\ NoReset /\ Limits

IInv == TypeInv /\ (CountersKept => Sound)

LEMMA IInvInit == Init => IInv
<1> SUFFICES ASSUME Init PROVE Covered /\ NoReset /\ Limits
  BY TypeInit DEF IInv, Sound
<1>1. ASSUME NEW k \in Counters PROVE ChargedTo(k) = {} /\ HoldersOf(k) = {}
  BY DEF Init, ChargedTo, HoldersOf, Charged, Holding
<1>2. Covered /\ NoReset
  BY <1>1, FS_EmptySet, SMTT(40) DEF Init, Covered, NoReset
<1>3. Limits
  BY <1>1, SlotConstants, FS_EmptySet DEF Limits, Limit
<1> QED
  BY <1>2, <1>3

\* What was lost stays lost: no step takes back a fault.
LEMMA FaultsCount ==
    ASSUME TypeOK, [Next]_vars, CountersKept' PROVE CountersKept
<1>1. \A f \in FaultKinds : faults[f] \in Nat
  BY DEF TypeOK
<1>2. \/ UNCHANGED faults
      \/ \E f \in FaultKinds : faults' = [faults EXCEPT ![f] = @ + 1]
  BY DEF Next, TaskStep, Trouble, Begin, Claim, Enter, Finish, Release, Clamp, ClaimFails,
         ReleaseFails, Crash, Cancel, Expire, Flush, Fault, FaultKinds, vars
<1>3. \A f \in FaultKinds : faults'[f] >= faults[f]
  BY <1>1, <1>2 DEF TypeOK
<1> QED
  BY <1>1, <1>3 DEF CountersKept, OnlyFaults

\* Every step keeps the invariant; the loss of the counters voids its second part.
LEMMA IInvStep == IInv /\ [Next]_vars => IInv'
<1> SUFFICES ASSUME IInv, [Next]_vars, CountersKept'
             PROVE  Covered' /\ NoReset' /\ Limits'
  BY TypeStep DEF IInv, Sound
<1> DEFINE Goal == Covered' /\ NoReset' /\ Limits'
<1>00. CountersKept
  BY FaultsCount DEF IInv, TypeInv
<1>0. TypeOK /\ WaitLeft /\ Covered /\ NoReset /\ Limits /\ TypeOK'
  BY <1>00, TypeStep DEF IInv, TypeInv, Sound
<1>1. ASSUME NEW t \in Tasks, Begin(t) PROVE Goal
  <2>1. pc' = [pc EXCEPT ![t] = "wait"] /\ UNCHANGED count /\ UNCHANGED negative
    BY <1>1 DEF Begin, Goto
  <2>2. ~Charged(t) /\ "wait" \in Points \ ChargedPoints
    BY <1>1 DEF Begin, Charged, Points, ChargedPoints
  <2>3. count' \in [Counters -> Int] /\ \A k \in Counters : count'[k] >= count[k]
    BY <1>0, <2>1 DEF TypeOK
  <2>4. Covered' /\ Limits'
    BY <1>0, <2>1, <2>2, <2>3, TaskLeaves
  <2> QED
    BY <1>0, <2>1, <2>4 DEF NoReset
<1>2. ASSUME NEW t \in Tasks, Claim(t) PROVE Goal
  BY <1>0, <1>2, ClaimStep DEF Claim, NoReset
<1>3. ASSUME NEW t \in Tasks, Enter(t) \/ Finish(t) PROVE Goal
  <2>1. PICK point \in HoldingPoints : pc' = [pc EXCEPT ![t] = point]
    BY <1>3 DEF Enter, Finish, Goto, HoldingPoints
  <2>2. UNCHANGED count /\ UNCHANGED negative /\ Holding(t)
    BY <1>3 DEF Enter, Finish, Holding
  <2> QED
    BY <1>0, <2>1, <2>2, TaskStays DEF NoReset
<1>4. ASSUME NEW t \in Tasks, Release(t) PROVE Goal
  <2>1. Charged(t)
    BY <1>4 DEF Release, Charged
  <2>2. \A k \in Counters : count'[k] = IF k \in KeysOf(t) THEN count[k] - 1 ELSE count[k]
    BY <1>0, <1>4 DEF Release, Plus, TypeOK
  <2>3. {k \in KeysOf(t) : count'[k] < 0} = {}
    <3>1. ASSUME NEW k \in KeysOf(t) PROVE ~(count'[k] < 0)
      BY <1>0, <2>1, <2>2, ReleaseAboveZero DEF TypeOK
    <3> QED
      BY <3>1
  <2>4. NoReset'
    BY <1>0, <1>4, <2>3 DEF Release, NoReset, TypeOK
  <2>5. PICK point \in Points \ ChargedPoints : pc' = [pc EXCEPT ![t] = point]
    BY <1>4, <2>3 DEF Release, Goto, Return, Points, ChargedPoints
  <2>6. \A k \in Counters :
           count'[k] >= IF Charged(t) /\ k \in KeysOf(t) THEN count[k] - 1 ELSE count[k]
    BY <1>0, <2>1, <2>2 DEF TypeOK
  <2>7. count' \in [Counters -> Int]
    BY <1>0 DEF TypeOK
  <2> QED
    BY <1>0, <2>4, <2>5, <2>6, <2>7, TaskLeaves
<1>5. ASSUME NEW t \in Tasks, NEW k \in Counters, Clamp(t, k) PROVE Goal
  BY <1>0, <1>5 DEF Clamp, NoReset
<1>6. ASSUME NEW t \in Tasks, ClaimFails(t) PROVE Goal
  <2>1. PICK point \in Points \ ChargedPoints : pc' = [pc EXCEPT ![t] = point]
    BY <1>6 DEF ClaimFails, Goto, Points, ChargedPoints
  <2>2. ~Charged(t)
    BY <1>6 DEF ClaimFails, Charged
  <2>3. \A k \in Counters : count'[k] >= count[k]
    BY <1>0, <1>6 DEF ClaimFails, Plus, TypeOK
  <2>4. count' \in [Counters -> Int]
    BY <1>0 DEF TypeOK
  <2>5. Covered' /\ Limits'
    BY <1>0, <2>1, <2>2, <2>3, <2>4, TaskLeaves
  <2> QED
    BY <1>0, <1>6, <2>5 DEF ClaimFails, NoReset
<1>7. ASSUME NEW t \in Tasks, ReleaseFails(t) PROVE Goal
  <2>1. PICK point \in Points \ ChargedPoints : pc' = [pc EXCEPT ![t] = point]
    <3>1. Return(t) \in Points \ ChargedPoints
      BY DEF Return, Points, ChargedPoints
    <3> QED
      BY <1>7, <3>1 DEF ReleaseFails, Goto
  <2>2. Charged(t)
    BY <1>7 DEF ReleaseFails, Charged
  <2>3. \A k \in Counters :
           count'[k] >= IF Charged(t) /\ k \in KeysOf(t) THEN count[k] - 1 ELSE count[k]
    BY <1>0, <1>7, <2>2 DEF ReleaseFails, Plus, TypeOK
  <2>4. count' \in [Counters -> Int]
    BY <1>0 DEF TypeOK
  <2>5. Covered' /\ Limits'
    BY <1>0, <2>1, <2>3, <2>4, TaskLeaves
  <2> QED
    BY <1>0, <1>7, <2>5 DEF ReleaseFails, NoReset
<1>8. ASSUME NEW t \in Tasks, Crash(t) \/ Cancel(t) PROVE Goal
  <2>1. pc' = [pc EXCEPT ![t] = "idle"] /\ UNCHANGED count
    BY <1>8 DEF Crash, Cancel, Goto
  <2>2. \A k \in Counters :
           count'[k] >= IF Charged(t) /\ k \in KeysOf(t) THEN count[k] - 1 ELSE count[k]
    BY <1>0, <2>1 DEF TypeOK
  <2>3. count' \in [Counters -> Int] /\ "idle" \in Points \ ChargedPoints
    BY <1>0 DEF TypeOK, Points, ChargedPoints
  <2>4. Covered' /\ Limits'
    BY <1>0, <2>1, <2>2, <2>3, TaskLeaves
  <2>5. NoReset'
    BY <1>0, <1>8 DEF Crash, Cancel, NoReset, TypeOK
  <2> QED
    BY <2>4, <2>5
<1>9. ASSUME NEW j \in Counters, Expire(j) PROVE Goal
  <2>1. \A k \in Counters : ChargedTo(k)' = ChargedTo(k) /\ HoldersOf(k)' = HoldersOf(k)
    BY <1>9 DEF Expire, ChargedTo, HoldersOf, Charged, Holding
  <2>2. ASSUME NEW k \in Counters PROVE Cardinality(ChargedTo(k)') <= count'[k]
    <3>1. CASE k = j
      <4>1. ChargedTo(k)' = {} /\ count'[k] = 0
        BY <1>0, <1>9, <2>1, <3>1 DEF Expire, TypeOK
      <4> QED
        BY <4>1, FS_EmptySet
    <3>2. CASE k # j
      BY <1>0, <1>9, <2>1, <3>2 DEF Expire, TypeOK, Covered
    <3> QED
      BY <3>1, <3>2
  <2>3. ASSUME NEW k \in Counters PROVE Cardinality(HoldersOf(k)') <= Limit(k)
    BY <1>0, <2>1 DEF Limits
  <2>4. NoReset'
    BY <1>0, <1>9 DEF Expire, NoReset
  <2> QED
    BY <2>2, <2>3, <2>4 DEF Covered, Limits, Counters, Limit
<1>10. CASE Flush
  <2>1. faults["flush"] \in Nat /\ faults'["flush"] = faults["flush"] + 1
    BY <1>0, <1>10 DEF Flush, Fault, TypeOK, FaultKinds
  <2>2. faults'["flush"] = 0
    BY DEF CountersKept, OnlyFaults, FaultKinds
  <2> QED
    BY <2>1, <2>2
<1>11. CASE UNCHANGED vars
  <2>1. \A k \in Counters : ChargedTo(k)' = ChargedTo(k) /\ HoldersOf(k)' = HoldersOf(k)
    BY <1>11 DEF vars, ChargedTo, HoldersOf, Charged, Holding
  <2>2. ASSUME NEW k \in Counters
        PROVE  Cardinality(ChargedTo(k)') <= count'[k] /\ Cardinality(HoldersOf(k)') <= Limit(k)
    BY <1>0, <1>11, <2>1 DEF vars, Covered, Limits
  <2> QED
    BY <1>0, <1>11, <2>2 DEF vars, Covered, NoReset, Limits, Counters, Limit
<1> QED
  BY <1>1, <1>2, <1>3, <1>4, <1>5, <1>6, <1>7, <1>8, <1>9, <1>10, <1>11
     DEF Next, TaskStep, Trouble

\* As long as Redis keeps its counters, no organization and no deployment runs
\* more scanners than its limit, however claims, refusals, releases, crashes,
\* cancellations and lost replies interleave.
THEOREM LimitHolds == Spec => []LimitRespected
<1>1. IInv => LimitRespected
  BY DEF IInv, Sound, CountersKept, Limits, LimitRespected
<1> QED
  BY <1>1, IInvInit, IInvStep, PTL DEF Spec

-----------------------------------------------------------------------------
(* What comes back. Without faults a counter is exactly the number of tasks *)
(* charged to it. When Redis lost the counters it no longer is, and what    *)
(* keeps them from sinking is that the task whose DECR took one below zero  *)
(* has noted it until it resets it.                                         *)

Exact == OnlyFaults({}) => \A k \in Counters : count[k] = Cardinality(ChargedTo(k))

\* Only a task that is resetting counters has noted any.
Noted == \A t \in Tasks : negative[t] # {} => pc[t] = "clamp"

RecoverInv == IInv /\ Exact /\ Noted /\ FloorRestored

LEMMA FaultsStay ==
    ASSUME TypeOK, [Next]_vars, NEW kinds, OnlyFaults(kinds)'
    PROVE  OnlyFaults(kinds) /\ \A f \in FaultKinds \ kinds : ~Fault(f)
<1>1. \A f \in FaultKinds : faults[f] \in Nat
  BY DEF TypeOK
<1>2. \/ UNCHANGED faults
      \/ \E f \in FaultKinds : faults' = [faults EXCEPT ![f] = @ + 1]
  BY DEF Next, TaskStep, Trouble, Begin, Claim, Enter, Finish, Release, Clamp, ClaimFails,
         ReleaseFails, Crash, Cancel, Expire, Flush, Fault, FaultKinds, vars
<1>3. \A f \in FaultKinds : faults'[f] >= faults[f]
  BY <1>1, <1>2 DEF TypeOK
<1>4. \A f \in FaultKinds \ kinds : faults'[f] = 0
  BY DEF OnlyFaults
<1>5. ASSUME NEW f \in FaultKinds \ kinds, Fault(f) PROVE FALSE
  <2>1. faults'[f] = faults[f] + 1
    BY <1>5 DEF Fault, TypeOK
  <2> QED
    BY <2>1, <1>1, <1>4
<1> QED
  BY <1>1, <1>3, <1>4, <1>5 DEF OnlyFaults

\* A counter moves with the set of tasks charged to it.
LEMMA ExactStep ==
    ASSUME TypeOK, [Next]_vars, NoReset, OnlyFaults({}), OnlyFaults({})',
           \A k \in Counters : count[k] = Cardinality(ChargedTo(k)), NEW k \in Counters
    PROVE  count'[k] = Cardinality(ChargedTo(k)')
<1>0. \A f \in FaultKinds : ~Fault(f)
  BY FaultsStay
<1>1. count[k] \in Int /\ count[k] = Cardinality(ChargedTo(k)) /\ IsFiniteSet(ChargedTo(k))
  BY HoldersCharged DEF TypeOK
<1>2. ASSUME NEW t \in Tasks, Begin(t) PROVE count'[k] = Cardinality(ChargedTo(k)')
  <2>1. ChargedTo(k)' = ChargedTo(k) \ {t} /\ t \notin ChargedTo(k) /\ count' = count
    BY <1>2, TaskMoves DEF Begin, Goto, ChargedPoints, ChargedTo, Charged
  <2>2. ChargedTo(k)' = ChargedTo(k)
    BY <2>1
  <2> QED
    BY <2>1, <2>2, <1>1
<1>3. ASSUME NEW t \in Tasks, Claim(t) PROVE count'[k] = Cardinality(ChargedTo(k)')
  <2>1. PICK point \in {"admitted", "refused"} : pc' = [pc EXCEPT ![t] = point]
    BY <1>3 DEF Claim, Goto
  <2>2. t \notin ChargedTo(k)
    BY <1>3 DEF Claim, ChargedTo, Charged
  <2>3. ChargedTo(k)' = IF k \in KeysOf(t) THEN ChargedTo(k) \cup {t} ELSE ChargedTo(k) \ {t}
    BY <2>1, TaskMoves DEF ChargedPoints
  <2>4. count'[k] = IF k \in KeysOf(t) THEN count[k] + 1 ELSE count[k]
    BY <1>3 DEF Claim, Plus, TypeOK
  <2>5. Cardinality(ChargedTo(k) \cup {t}) = Cardinality(ChargedTo(k)) + 1
    BY <2>2, <1>1, FS_AddElement
  <2>6. ChargedTo(k) \ {t} = ChargedTo(k)
    BY <2>2
  <2> QED
    BY <2>3, <2>4, <2>5, <2>6, <1>1
<1>4. ASSUME NEW t \in Tasks, Enter(t) \/ Finish(t) PROVE count'[k] = Cardinality(ChargedTo(k)')
  <2>1. PICK point \in HoldingPoints : pc' = [pc EXCEPT ![t] = point]
    BY <1>4 DEF Enter, Finish, Goto, HoldingPoints
  <2>2. t \in ChargedTo(k) <=> k \in KeysOf(t)
    BY <1>4 DEF Enter, Finish, ChargedTo, Charged
  <2>3. point \in Points /\ point \in ChargedPoints
    BY DEF Points, ChargedPoints, HoldingPoints
  <2>4. ChargedTo(k)' = IF k \in KeysOf(t) THEN ChargedTo(k) \cup {t} ELSE ChargedTo(k) \ {t}
    BY <2>1, <2>3, TaskMoves
  <2>5. ChargedTo(k)' = ChargedTo(k)
    BY <2>2, <2>4
  <2> QED
    BY <2>5, <1>1, <1>4 DEF Enter, Finish
<1>5. ASSUME NEW t \in Tasks, Release(t) PROVE count'[k] = Cardinality(ChargedTo(k)')
  <2>1. PICK point \in Points \ ChargedPoints : pc' = [pc EXCEPT ![t] = point]
    BY <1>5 DEF Release, Goto, Return, Points, ChargedPoints
  <2>2. ChargedTo(k)' = ChargedTo(k) \ {t}
    BY <2>1, TaskMoves
  <2>3. t \in ChargedTo(k) <=> k \in KeysOf(t)
    BY <1>5 DEF Release, ChargedTo, Charged
  <2>4. count'[k] = IF k \in KeysOf(t) THEN count[k] - 1 ELSE count[k]
    BY <1>5 DEF Release, Plus, TypeOK
  <2>5. Cardinality(ChargedTo(k) \ {t}) =
          IF t \in ChargedTo(k) THEN Cardinality(ChargedTo(k)) - 1 ELSE Cardinality(ChargedTo(k))
    BY <1>1, FS_RemoveElement
  <2> QED
    BY <2>2, <2>3, <2>4, <2>5, <1>1
<1>6. ASSUME NEW t \in Tasks, NEW j \in Counters, Clamp(t, j) PROVE FALSE
  BY <1>6 DEF Clamp, NoReset
<1>7. ASSUME NEW t \in Tasks, Trouble(t) PROVE FALSE
  BY <1>0, <1>7 DEF Trouble, ClaimFails, ReleaseFails, Crash, Cancel, FaultKinds
<1>8. ASSUME NEW j \in Counters, Expire(j) PROVE count'[k] = Cardinality(ChargedTo(k)')
  <2>1. ChargedTo(k)' = ChargedTo(k)
    BY <1>8 DEF Expire, ChargedTo, Charged
  <2>2. CASE k = j
    <3>1. ChargedTo(k) = {} /\ count'[k] = 0
      BY <1>8, <2>2 DEF Expire, TypeOK
    <3> QED
      BY <3>1, <2>1, FS_EmptySet
  <2>3. CASE k # j
    BY <1>1, <1>8, <2>1, <2>3 DEF Expire, TypeOK
  <2> QED
    BY <2>2, <2>3
<1>9. ~Flush
  BY <1>0 DEF Flush, FaultKinds
<1>10. CASE UNCHANGED vars
  <2>1. ChargedTo(k)' = ChargedTo(k) /\ count' = count
    BY <1>10 DEF vars, ChargedTo, Charged
  <2> QED
    BY <2>1, <1>1
<1> QED
  BY <1>2, <1>3, <1>4, <1>5, <1>6, <1>7, <1>8, <1>9, <1>10 DEF Next, TaskStep

\* A task that counts nothing down leaves who noted what.
LEMMA NotedStep == ASSUME TypeOK, [Next]_vars, Noted PROVE Noted'
<1>1. pc \in [Tasks -> Points] /\ negative \in [Tasks -> SUBSET Counters]
  BY DEF TypeOK
<1>2. ASSUME NEW t \in Tasks, Begin(t) \/ Claim(t) \/ Enter(t) \/ Finish(t)
                               \/ ClaimFails(t) \/ ReleaseFails(t)
      PROVE  Noted'
  BY <1>1, <1>2 DEF Begin, Claim, Enter, Finish, ClaimFails, ReleaseFails, Goto, Noted
<1>3. ASSUME NEW t \in Tasks, Release(t) PROVE Noted'
  <2> DEFINE below == {k \in KeysOf(t) : count'[k] < 0}
  <2>1. /\ negative' = [negative EXCEPT ![t] = below]
        /\ pc' = [pc EXCEPT ![t] = IF below = {} THEN Return(t) ELSE "clamp"]
    BY <1>3 DEF Release, Goto
  <2> HIDE DEF below
  <2> QED
    BY <2>1, <1>1 DEF Noted
<1>4. ASSUME NEW t \in Tasks, NEW k \in Counters, Clamp(t, k) PROVE Noted'
  <2>1. /\ negative' = [negative EXCEPT ![t] = negative[t] \ {k}]
        /\ pc' = [pc EXCEPT ![t] = IF negative[t] = {k} THEN Return(t) ELSE "clamp"]
    BY <1>1, <1>4 DEF Clamp, Goto
  <2> QED
    BY <2>1, <1>1 DEF Noted
<1>5. ASSUME NEW t \in Tasks, Crash(t) \/ Cancel(t) PROVE Noted'
  BY <1>1, <1>5 DEF Crash, Cancel, Goto, Noted
<1>6. ASSUME NEW k \in Counters, Expire(k) PROVE Noted'
  BY <1>6 DEF Expire, Noted
<1>7. CASE Flush
  BY <1>7 DEF Flush, Noted
<1>8. CASE UNCHANGED vars
  BY <1>8 DEF vars, Noted
<1> QED
  BY <1>2, <1>3, <1>4, <1>5, <1>6, <1>7, <1>8 DEF Next, TaskStep, Trouble

\* release_slot: who takes a counter below zero has noted it, and only its reset
\* takes the note away.
LEMMA FloorStep ==
    ASSUME TypeOK, TypeOK', [Next]_vars, Noted, FloorRestored PROVE FloorRestored'
<1> SUFFICES ASSUME OnlyFaults({"flush"})', NEW k \in Counters, count'[k] < 0
             PROVE  \E t \in Tasks : k \in negative'[t]
  BY DEF FloorRestored
<1>0. OnlyFaults({"flush"}) /\ \A f \in FaultKinds \ {"flush"} : ~Fault(f)
  BY FaultsStay
<1>1. /\ pc \in [Tasks -> Points] /\ negative \in [Tasks -> SUBSET Counters]
      /\ count \in [Counters -> Int] /\ count' \in [Counters -> Int]
  BY DEF TypeOK
<1>2. count[k] < 0 => \E t \in Tasks : k \in negative[t]
  BY <1>0 DEF FloorRestored
<1>3. ASSUME NEW t \in Tasks, Begin(t) \/ Claim(t) \/ Enter(t) \/ Finish(t)
      PROVE  \E u \in Tasks : k \in negative'[u]
  <2>1. count'[k] >= count[k] /\ negative' = negative
    BY <1>1, <1>3 DEF Begin, Claim, Enter, Finish, Plus
  <2>2. count[k] < 0
    BY <2>1, <1>1
  <2> QED
    BY <2>1, <2>2, <1>2
<1>4. ASSUME NEW t \in Tasks, Release(t) PROVE \E u \in Tasks : k \in negative'[u]
  <2>1. negative' = [negative EXCEPT ![t] = {j \in KeysOf(t) : count'[j] < 0}]
    BY <1>4 DEF Release
  <2>2. CASE k \in KeysOf(t)
    BY <2>1, <2>2, <1>1
  <2>3. CASE k \notin KeysOf(t)
    <3>1. count'[k] = count[k]
      BY <1>1, <1>4, <2>3 DEF Release, Plus
    <3>2. PICK u \in Tasks : k \in negative[u]
      BY <3>1, <1>2
    <3>3. u # t
      BY <3>2, <1>4 DEF Release, Noted
    <3> QED
      BY <3>2, <3>3, <2>1, <1>1
  <2> QED
    BY <2>2, <2>3
<1>5. ASSUME NEW t \in Tasks, NEW j \in Counters, Clamp(t, j) PROVE \E u \in Tasks : k \in negative'[u]
  <2>1. k # j /\ count'[k] = count[k]
    BY <1>1, <1>5 DEF Clamp
  <2>2. PICK u \in Tasks : k \in negative[u]
    BY <2>1, <1>2
  <2>3. k \in negative'[u]
    BY <2>1, <2>2, <1>1, <1>5 DEF Clamp
  <2> QED
    BY <2>3
<1>6. ASSUME NEW t \in Tasks, Trouble(t) PROVE FALSE
  BY <1>0, <1>6 DEF Trouble, ClaimFails, ReleaseFails, Crash, Cancel, FaultKinds
<1>7. ASSUME NEW j \in Counters, Expire(j) PROVE \E u \in Tasks : k \in negative'[u]
  BY <1>1, <1>2, <1>7 DEF Expire
<1>8. ~Flush
  BY <1>1 DEF Flush
<1>9. CASE UNCHANGED vars
  BY <1>2, <1>9 DEF vars
<1> QED
  BY <1>3, <1>4, <1>5, <1>6, <1>7, <1>8, <1>9 DEF Next, TaskStep

\* The counters come back to what runs: to zero when nobody is charged, as long as
\* nothing went wrong, and from below zero after Redis lost them.
THEOREM CountersRecoverHolds == Spec => []CountersRecover
<1>1. Init => RecoverInv
  <2> SUFFICES ASSUME Init PROVE Exact /\ Noted /\ FloorRestored
    BY IInvInit DEF RecoverInv
  <2>1. Exact
    <3>1. \A k \in Counters : ChargedTo(k) = {}
      BY DEF Init, ChargedTo, Charged
    <3> QED
      BY <3>1, FS_EmptySet DEF Init, Exact
  <2> QED
    BY <2>1 DEF Init, Noted, FloorRestored
<1>2. RecoverInv /\ [Next]_vars => RecoverInv'
  <2> SUFFICES ASSUME RecoverInv, [Next]_vars PROVE RecoverInv'
    OBVIOUS
  <2>1. IInv' /\ TypeOK /\ TypeOK'
    BY IInvStep DEF RecoverInv, IInv, TypeInv
  <2>2. Exact'
    <3> SUFFICES ASSUME OnlyFaults({})', NEW k \in Counters
                 PROVE  count'[k] = Cardinality(ChargedTo(k)')
      BY DEF Exact, Counters
    <3>1. OnlyFaults({})
      BY <2>1, FaultsStay
    <3>2. NoReset
      BY <3>1 DEF RecoverInv, IInv, Sound, CountersKept, OnlyFaults
    <3>3. \A j \in Counters : count[j] = Cardinality(ChargedTo(j))
      BY <3>1 DEF RecoverInv, Exact
    <3> QED
      BY <2>1, <3>1, <3>2, <3>3, ExactStep
  <2>3. Noted' /\ FloorRestored'
    BY <2>1, NotedStep, FloorStep DEF RecoverInv
  <2> QED
    BY <2>1, <2>2, <2>3 DEF RecoverInv
<1>3. RecoverInv => CountersRecover
  <2> SUFFICES ASSUME RecoverInv PROVE CountersRecover
    OBVIOUS
  <2>1. SlotsReturned
    BY FS_EmptySet DEF RecoverInv, Exact, SlotsReturned
  <2> QED
    BY <2>1 DEF RecoverInv, CountersRecover
<1> QED
  BY <1>1, <1>2, <1>3, PTL DEF Spec
=============================================================================
