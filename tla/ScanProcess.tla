---------------------------- MODULE ScanProcess ----------------------------
(***************************************************************************)
(* One scanner process under SubprocessRunner.run (scanners/runner.py).    *)
(* The runner looks at the process once a second and reads its output only *)
(* when the process is gone: what the tool writes meanwhile has to fit in  *)
(* the pipe, and a tool that fills it stops until somebody reads.          *)
(***************************************************************************)
EXTENDS Naturals

CONSTANTS
    RunTimeout,     \* request.timeout_seconds, clamped to the deployment's maximum
    CancelEvery,    \* cancel_every: polls between two questions about a cancel
    Grace,          \* GRACEFUL_STOP_SECONDS
    PipeCapacity,   \* output that fits between the tool and the runner
    MaxEffort       \* bound: seconds of work a tool has

ASSUME ProcessAssumption ==
    /\ {RunTimeout, CancelEvery, Grace, PipeCapacity} \subseteq Nat \ {0}
    /\ MaxEffort \in Nat

VARIABLES
    tool,       \* external: the process
    runner,     \* the coroutine: pc, seconds waited, polls, seconds since SIGTERM
    asked,      \* the job has a cancel request
    scanResult  \* what run returned

processVars == <<tool, runner, asked, scanResult>>

NoResult == [kind |-> "none", code |-> 0, log |-> FALSE]

(* argv passed validate_argv, and the binary started or did not *)
ProcessInit ==
    /\ tool \in {t \in [state : {"running"}, effort : 1..MaxEffort, left : 1..MaxEffort,
                        chatty : BOOLEAN, obeys : BOOLEAN, heirs : BOOLEAN, piped : {0}] :
                    t.left = t.effort}
    /\ runner = [pc |-> "spawn", waited |-> 0, polls |-> 0, stopping |-> 0, why |-> "exit"]
    /\ asked = FALSE
    /\ scanResult = NoResult

Blocked == tool.chatty /\ tool.piped >= PipeCapacity
ToolAlive == tool.state = "running"
Turns(r) == runner' = r
Dies(how) == tool' = [tool EXCEPT !.state = how]

AskCancel ==
    /\ ~asked
    /\ asked' = TRUE
    /\ UNCHANGED <<tool, runner, scanResult>>

(* A second of the tool's life *)
ToolStep ==
    IF ~ToolAlive \/ Blocked THEN tool
    ELSE [tool EXCEPT !.left = @ - 1,
                      !.piped = IF tool.chatty THEN @ + 1 ELSE @,
                      !.state = IF tool.left = 1 THEN "exited" ELSE @]

(* create_subprocess_exec; a binary that cannot be started raises *)
Spawn ==
    /\ runner.pc = "spawn"
    /\ \/ Turns([runner EXCEPT !.pc = "poll"]) /\ UNCHANGED <<tool, scanResult>>
       \/ /\ Turns([runner EXCEPT !.pc = "raised"])
          /\ Dies("never")
          /\ UNCHANGED scanResult
    /\ UNCHANGED asked

(* Mutant of Poll: only the tool's own end and a cancel end the wait *)
PollWithoutDeadline ==
    /\ runner.pc = "poll"
    /\ LET r == [runner EXCEPT !.polls = (@ + 1) % CancelEvery]
       IN  Turns(IF ~ToolAlive THEN [runner EXCEPT !.pc = "read"]
                 ELSE [r EXCEPT !.pc = IF r.polls = 0 THEN "cancel?" ELSE "sleep", !.waited = 0])
    /\ UNCHANGED <<tool, asked, scanResult>>

(* _await_exit, one turn: an exit first, then the deadline, then a cancel,  *)
(* which is asked for at every CancelEvery-th turn                          *)
Poll ==
    /\ runner.pc = "poll"
    /\ LET r == [runner EXCEPT !.polls = @ + 1]
       IN  Turns(CASE ~ToolAlive -> [runner EXCEPT !.pc = "read"]
                   [] ToolAlive /\ runner.waited >= RunTimeout ->
                        [runner EXCEPT !.pc = "stop", !.why = "timeout"]
                   [] ToolAlive /\ runner.waited < RunTimeout ->
                        IF r.polls % CancelEvery = 0 THEN [r EXCEPT !.pc = "cancel?"]
                                                     ELSE [r EXCEPT !.pc = "sleep"])
    /\ UNCHANGED <<tool, asked, scanResult>>

(* await cancel(): a query, during which the tool goes on *)
AskedToStop ==
    /\ runner.pc = "cancel?"
    /\ Turns(IF asked THEN [runner EXCEPT !.pc = "stop", !.why = "cancel"]
                      ELSE [runner EXCEPT !.pc = "sleep"])
    /\ \E t \in {tool, ToolStep} : tool' = t
    /\ UNCHANGED <<asked, scanResult>>

(* Mutant of CallbackRaises: the exception leaves run without its finally *)
CallbackEscapes ==
    /\ runner.pc = "cancel?"
    /\ Turns([runner EXCEPT !.pc = "raised"])
    /\ UNCHANGED <<tool, asked, scanResult>>

(* The cancel query fails: the exception ends run, whose finally kills *)
CallbackRaises ==
    /\ runner.pc = "cancel?"
    /\ Turns([runner EXCEPT !.pc = "raised"])
    /\ IF ToolAlive THEN Dies("killed") ELSE UNCHANGED tool
    /\ UNCHANGED <<asked, scanResult>>

Sleep ==
    /\ runner.pc = "sleep"
    /\ Turns([runner EXCEPT !.pc = "poll", !.waited = @ + 1])
    /\ tool' = ToolStep
    /\ UNCHANGED <<asked, scanResult>>

(* _stop_process: SIGTERM, Grace seconds, then SIGKILL without a wait *)
Terminate ==
    /\ runner.pc = "stop"
    /\ IF ToolAlive /\ tool.obeys THEN Dies("terminated") ELSE UNCHANGED tool
    /\ Turns([runner EXCEPT !.pc = IF ToolAlive /\ ~tool.obeys THEN "grace" ELSE "read"])
    /\ UNCHANGED <<asked, scanResult>>

GraceSecond ==
    /\ runner.pc = "grace"
    /\ IF runner.stopping < Grace /\ ToolAlive
       THEN Turns([runner EXCEPT !.stopping = @ + 1]) /\ tool' = ToolStep
       ELSE /\ Turns([runner EXCEPT !.pc = "read"])
            /\ IF ToolAlive THEN Dies("killed") ELSE UNCHANGED tool
    /\ UNCHANGED <<asked, scanResult>>

(* What is left of the output is read to its end, for ten seconds: a child   *)
(* of the tool that still holds the pipe costs all of it.  A kill that was   *)
(* not waited for has no exit code yet.                                      *)
Collect ==
    /\ runner.pc = "read"
    /\ scanResult' = [kind |-> runner.why,
                      code |-> IF tool.state = "exited" THEN 0 ELSE 1,
                      log |-> tool.chatty /\ ~tool.heirs]
    /\ Turns([runner EXCEPT !.pc = "returned"])
    /\ UNCHANGED <<tool, asked>>

(* The worker dies: nobody waits for the tool any more, which runs on *)
WorkerDies ==
    /\ runner.pc \notin {"returned", "raised", "dead"}
    /\ Turns([runner EXCEPT !.pc = "dead"])
    /\ UNCHANGED <<tool, asked, scanResult>>

RunnerStep == Spawn \/ Poll \/ AskedToStop \/ CallbackRaises \/ Sleep \/ Terminate
                \/ GraceSecond \/ Collect

ProcessNext == AskCancel \/ RunnerStep \/ WorkerDies

(* The coroutine is scheduled as long as its process lives *)
ProcessSpec == ProcessInit /\ [][ProcessNext]_processVars /\ WF_processVars(RunnerStep)

----------------------------------------------------------------------------
ProcessTypeOK ==
    /\ tool.state \in {"running", "exited", "terminated", "killed", "never"}
    /\ tool.effort \in 1..MaxEffort
    /\ tool.left \in 0..tool.effort
    /\ tool.piped \in 0..PipeCapacity
    /\ runner.pc \in {"spawn", "poll", "cancel?", "sleep", "stop", "grace", "read",
                      "returned", "raised", "dead"}
    /\ runner.waited \in 0..RunTimeout /\ runner.stopping \in 0..Grace
    /\ asked \in BOOLEAN
    /\ scanResult.kind \in {"none", "exit", "timeout", "cancel"}

(* run never leaves its process behind, however it ends; only the death of  *)
(* the worker does                                                          *)
NoProcessLeft == runner.pc \in {"returned", "raised"} => ~ToolAlive

(* A scan reported as timed out had more than RunTimeout seconds of work, or *)
(* more output than the pipe holds; one reported as cancelled was asked to  *)
(* be; and one reported as ended ended by itself                            *)
ResultHonestUnlessBlocked ==
    /\ scanResult.kind = "timeout" => tool.effort > RunTimeout \/ Blocked
    /\ scanResult.kind = "cancel" => asked
    /\ scanResult.kind = "exit" => tool.state = "exited"

(* What run hands back is what happened, and nothing runs on behind it.     *)
ProcessInv == ProcessTypeOK /\ NoProcessLeft /\ ResultHonestUnlessBlocked

(* A scan that was started comes to an end: the deadline stops what would   *)
(* run on, the kill what ignores it, and the drain does not wait for heirs. *)
RunReturns == runner.pc = "poll" ~> runner.pc \in {"returned", "raised", "dead"}
=============================================================================
