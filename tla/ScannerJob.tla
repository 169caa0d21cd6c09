----------------------------- MODULE ScannerJob -----------------------------
(***************************************************************************)
(* The life of one scanner_jobs row: the executor that runs the scanner    *)
(* process (execute_job for the active scanners, _execute_recon for        *)
(* reconnaissance), the operators who ask it to stop, the teardown of a    *)
(* cancelled run, and the reaper in every worker's maintenance loop.       *)
(*                                                                         *)
(* The executor writes the row by primary key, whatever it holds by then;  *)
(* requests and the reaper use conditional UPDATEs.                        *)
(***************************************************************************)
EXTENDS Naturals

CONSTANTS JobFaults,        \* kinds of fault that may happen
          MaxJobFaults      \* bound on their number

JobFaultKinds == {"crash", "database", "storage", "cancel"}

ASSUME JobConstants ==
    /\ JobFaults \subseteq JobFaultKinds
    /\ MaxJobFaults \in Nat

\* JobStatus, with "none" for a row not inserted yet.
JobStatuses == {"none", "QUEUED", "RUNNING", "COMPLETED", "FAILED", "CANCELLED", "TIMEOUT"}
ActiveStatuses == {"QUEUED", "RUNNING"}
TerminalStatuses == {"COMPLETED", "FAILED", "CANCELLED", "TIMEOUT"}

\* What ScannerResult says of the process.
Results == {"none", "success", "nonzero", "timeout", "cancelled"}

\* What _archive returned: no artifact, some, or a StorageError.
Uploads == {"nothing", "artifacts", "error"}

VARIABLES
    kind,       \* which executor: "scan" is execute_job, "recon" is _execute_recon
    status,     \* scanner_jobs.status
    cancel,     \* cancel_requested
    heartbeat,  \* heartbeat_at: null, recent, older than stale_after_seconds
    archived,   \* artifacts_archived
    rows,       \* the scanner_artifacts rows of the job exist
    lost,       \* failure_code is scanner_worker_lost
    objects,    \* the artifacts are in object storage
    exec,       \* where the executor is
    process,    \* the scanner process runs
    result,     \* the ScannerResult in the executor's hands
    stored,     \* how its _archive ended
    jobFaults

rowVars == <<status, cancel, heartbeat, archived, rows, lost>>
jobVars    == <<kind, status, cancel, heartbeat, archived, rows, lost, objects,
             exec, process, result, stored, jobFaults>>

\* Executor points: before the insert, row queued, row marked, process started,
\* no result to be had, result in hand, artifacts uploaded, returned; torn down
\* by a cancelled run; dead.
ExecutorPoints == {"new", "queued", "marked", "scanning", "fatal", "exited", "uploaded",
           "done", "torn", "dead"}

ExecutorAlive == exec \in {"queued", "marked", "scanning", "fatal", "exited", "uploaded"}

\* The row, the object store and the executor hold values of their kinds.
JobTypeOK ==
    /\ kind \in {"scan", "recon"}
    /\ status \in JobStatuses
    /\ cancel \in BOOLEAN
    /\ heartbeat \in {"null", "fresh", "stale"}
    /\ archived \in BOOLEAN
    /\ rows \in BOOLEAN
    /\ lost \in BOOLEAN
    /\ objects \in BOOLEAN
    /\ exec \in ExecutorPoints
    /\ process \in BOOLEAN
    /\ result \in Results
    /\ stored \in Uploads
    /\ jobFaults \in Nat

JobInit ==
    /\ kind \in {"scan", "recon"}
    /\ status = "none"
    /\ cancel = FALSE
    /\ heartbeat = "null"
    /\ archived = FALSE
    /\ rows = FALSE
    /\ lost = FALSE
    /\ objects = FALSE
    /\ exec = "new"
    /\ process = FALSE
    /\ result = "none"
    /\ stored = "nothing"
    /\ jobFaults = 0

JobFault(f) == f \in JobFaults /\ jobFaults < MaxJobFaults /\ jobFaults' = jobFaults + 1

-----------------------------------------------------------------------------
(* The executor                                                            *)

\* enqueue_job, committed by its caller.
Enqueue ==
    /\ exec = "new"
    /\ status' = "QUEUED"
    /\ exec' = "queued"
    /\ UNCHANGED <<kind, cancel, heartbeat, archived, rows, lost, objects, process, result,
                   stored, jobFaults>>

\* Reconnaissance asks for its slot after the insert; without one _fail_job writes
\* the row, whatever it holds.
NoCapacity ==
    /\ kind = "recon"
    /\ exec = "queued"
    /\ status' = "FAILED"
    /\ exec' = "done"
    /\ UNCHANGED <<kind, cancel, heartbeat, archived, rows, lost, objects, process, result,
                   stored, jobFaults>>

\* Mutant of MarkRunning: the first heartbeat is left to the heartbeat task.
MarkRunningUnstamped ==
    /\ exec = "queued"
    /\ status' = "RUNNING"
    /\ exec' = "marked"
    /\ UNCHANGED <<kind, cancel, heartbeat, archived, rows, lost, objects, process, result,
                   stored, jobFaults>>

\* The row is committed RUNNING with a first heartbeat before the process starts.
MarkRunning ==
    /\ exec = "queued"
    /\ status' = "RUNNING"
    /\ heartbeat' = "fresh"
    /\ exec' = "marked"
    /\ UNCHANGED <<kind, cancel, archived, rows, lost, objects, process, result, stored, jobFaults>>

\* The commit fails: execute_job raises, _mark_running logs and goes on.
MarkRunningFails ==
    /\ exec = "queued"
    /\ JobFault("database")
    /\ exec' = IF kind = "recon" THEN "marked" ELSE "dead"
    /\ UNCHANGED <<kind, rowVars, objects, process, result, stored>>

\* runner.run starts the binary.
StartProcess ==
    /\ exec = "marked"
    /\ process' = TRUE
    /\ exec' = "scanning"
    /\ UNCHANGED <<kind, rowVars, objects, result, stored, jobFaults>>

\* It refuses the invocation or cannot start it: ScannerError.
StartRefused ==
    /\ exec = "marked"
    /\ exec' = "fatal"
    /\ UNCHANGED <<kind, rowVars, objects, process, result, stored, jobFaults>>

\* _finalize_failure and _fail_job.
FinalizeFailure ==
    /\ exec = "fatal"
    /\ status' = "FAILED"
    /\ lost' = FALSE
    /\ exec' = "done"
    /\ UNCHANGED <<kind, cancel, heartbeat, archived, rows, objects, process, result,
                   stored, jobFaults>>

\* The heartbeat task runs beside the scanner, from the mark until run() returns.
Beating == exec \in {"marked", "scanning"}

\* An UPDATE by id, every 30 seconds.
Beat ==
    /\ Beating
    /\ heartbeat # "fresh"
    /\ heartbeat' = "fresh"
    /\ UNCHANGED <<kind, status, cancel, archived, rows, lost, objects, exec, process, result,
                   stored, jobFaults>>

\* _await_exit: the process ended by itself ...
Exit(r) ==
    /\ exec = "scanning"
    /\ r \in {"success", "nonzero"}
    /\ result' = r
    /\ process' = FALSE
    /\ exec' = "exited"
    /\ UNCHANGED <<kind, rowVars, objects, stored, jobFaults>>

\* ... or passed its deadline and is stopped ...
PassDeadline ==
    /\ exec = "scanning"
    /\ result' = "timeout"
    /\ process' = FALSE
    /\ exec' = "exited"
    /\ UNCHANGED <<kind, rowVars, objects, stored, jobFaults>>

\* What the poll reads: the flag of the row; a failed read is not a request.
Asked == exec = "scanning" /\ cancel

\* ... or the poll read a request.
SeeCancel ==
    /\ Asked
    /\ result' = "cancelled"
    /\ process' = FALSE
    /\ exec' = "exited"
    /\ UNCHANGED <<kind, rowVars, objects, stored, jobFaults>>

\* _archive: everything is uploaded, or there was nothing small enough to upload
\* or no storage configured.
Archive ==
    /\ exec = "exited"
    /\ stored' \in {"nothing", "artifacts"}
    /\ objects' = (stored' = "artifacts")
    /\ exec' = "uploaded"
    /\ UNCHANGED <<kind, rowVars, process, result, jobFaults>>

\* StorageError in the middle: some objects may be there, no row will name them.
ArchiveFails ==
    /\ exec = "exited"
    /\ JobFault("storage")
    /\ stored' = "error"
    /\ objects' \in BOOLEAN
    /\ exec' = "uploaded"
    /\ UNCHANGED <<kind, rowVars, process, result>>

\* _apply_result: cancelled, then timeout, then the exit code.
StatusOf(r) ==
    CASE r = "cancelled" -> "CANCELLED"
      [] r = "timeout"   -> "TIMEOUT"
      [] r = "success"   -> "COMPLETED"
      [] OTHER           -> "FAILED"

\* Whether a failure_code written meanwhile survives.  A failed result brings its
\* own; a successful one assigns None, which execute_job's copy, loaded before
\* the scan, already holds, so that column is not in its UPDATE.  Reconnaissance
\* loads the row in its last transaction.
KeepsLost == lost /\ kind = "scan" /\ StatusOf(result) = "COMPLETED"

\* Mutant of Finalize: the artifact rows are written for what was collected.
FinalizeAllCollected ==
    /\ exec = "uploaded"
    /\ status' = StatusOf(result)
    /\ archived' = (stored = "artifacts")
    /\ rows' = TRUE
    /\ lost' = KeepsLost
    /\ exec' = "done"
    /\ UNCHANGED <<kind, cancel, heartbeat, objects, process, result, stored, jobFaults>>

\* The last transaction: status, artifacts_archived and the artifact rows
\* together, over whatever the row holds.
Finalize ==
    /\ exec = "uploaded"
    /\ status' = StatusOf(result)
    /\ archived' = (stored = "artifacts")
    /\ rows' = (stored = "artifacts")
    /\ lost' = KeepsLost
    /\ exec' = "done"
    /\ UNCHANGED <<kind, cancel, heartbeat, objects, process, result, stored, jobFaults>>

\* The database fails under _finalize_failure or the last transaction: nothing
\* of it is written (execute_job raises, recon logs).
FinalizeFails ==
    /\ exec \in {"fatal", "uploaded"}
    /\ JobFault("database")
    /\ exec' = IF kind = "recon" THEN "done" ELSE "dead"
    /\ UNCHANGED <<kind, rowVars, objects, process, result, stored>>

-----------------------------------------------------------------------------
(* Stopping it                                                             *)

\* request_cancel: a conditional UPDATE of the flag, never of the status.
RequestCancel ==
    /\ status \in ActiveStatuses
    /\ ~cancel
    /\ cancel' = TRUE
    /\ UNCHANGED <<kind, status, heartbeat, archived, rows, lost, objects, exec, process,
                   result, stored, jobFaults>>

\* The run is cancelled (AgentWorker!MonitorCancel): the executor is unwound at
\* its current await, run() kills the process on the way out ...
CancelAdvance ==
    /\ ExecutorAlive
    /\ JobFault("cancel")
    /\ process' = FALSE
    /\ exec' = "torn"
    /\ UNCHANGED <<kind, rowVars, objects, result, stored>>

\* ... and only then _cancel_teardown flags the job (cancel_jobs_for_assessment).
TeardownFlag ==
    /\ exec = "torn"
    /\ exec' = "dead"
    /\ cancel' = (cancel \/ status \in ActiveStatuses)
    /\ UNCHANGED <<kind, status, heartbeat, archived, rows, lost, objects, process, result,
                   stored, jobFaults>>

\* The worker is killed; the scanner process may survive it for a while.
ExecutorDies ==
    /\ ExecutorAlive \/ exec = "torn"
    /\ JobFault("crash")
    /\ exec' = "dead"
    /\ process' \in {process, FALSE}
    /\ UNCHANGED <<kind, rowVars, objects, result, stored>>

\* A surviving process ends by itself.
OrphanExits ==
    /\ exec = "dead"
    /\ process
    /\ process' = FALSE
    /\ UNCHANGED <<kind, rowVars, objects, exec, result, stored, jobFaults>>

\* Mutant of Reap: the status is not looked at.
ReapAnyStatus ==
    /\ heartbeat = "stale"
    /\ ~lost
    /\ status' = "FAILED"
    /\ lost' = TRUE
    /\ UNCHANGED <<kind, cancel, heartbeat, archived, rows, objects, exec, process, result,
                   stored, jobFaults>>

\* reclaim_orphans: a RUNNING row whose heartbeat is older than the cutoff.
Reap ==
    /\ status = "RUNNING"
    /\ heartbeat = "stale"
    /\ status' = "FAILED"
    /\ lost' = TRUE
    /\ UNCHANGED <<kind, cancel, heartbeat, archived, rows, objects, exec, process, result,
                   stored, jobFaults>>

\* stale_after_seconds pass since the last beat: not while the heartbeat task
\* runs nor in the short way to _finalize_failure, but an upload may take that long.
HeartbeatAges ==
    /\ heartbeat = "fresh"
    /\ ~Beating
    /\ exec # "fatal"
    /\ heartbeat' = "stale"
    /\ UNCHANGED <<kind, status, cancel, archived, rows, lost, objects, exec, process, result,
                   stored, jobFaults>>

Executor ==
    \/ Enqueue \/ NoCapacity \/ MarkRunning \/ StartProcess \/ StartRefused
    \/ FinalizeFailure \/ (\E r \in Results : Exit(r)) \/ PassDeadline \/ SeeCancel
    \/ Archive \/ Finalize \/ TeardownFlag

JobTrouble == MarkRunningFails \/ ArchiveFails \/ FinalizeFails \/ CancelAdvance \/ ExecutorDies

JobNext ==
    \/ Executor \/ JobTrouble \/ Beat \/ RequestCancel \/ OrphanExits
    \/ Reap \/ HeartbeatAges

JobSpec == JobInit /\ [][JobNext]_jobVars

\* A live executor goes on (the scanner has a deadline), the heartbeat task and
\* the reaper run on their timers, time passes.
JobFairSpec ==
    /\ JobSpec
    /\ WF_jobVars(Executor)
    /\ WF_jobVars(Beat)
    /\ WF_jobVars(HeartbeatAges)
    /\ WF_jobVars(Reap)

-----------------------------------------------------------------------------
(* Properties                                                              *)

\* An artifact row never names an object that is not in storage, and
\* artifacts_archived never claims rows that are not there: the upload comes
\* first, rows and flag are one transaction.
RowsBacked == (rows => objects) /\ (archived => rows)

\* A settled job keeps its status, whatever is requested or reaped later; only
\* the verdict "worker lost" can be overwritten, by the worker that was not.
SettledUnlessLost ==
    [][(status \in TerminalStatuses /\ ~lost) => (status' = status)]_jobVars

\* A scan is recorded as cancelled only if somebody asked for it: database
\* errors while polling are not requests.
CancelledIsAsked == status = "CANCELLED" => cancel

\* When a job is settled by its executor, its scanner no longer touches targets.
SettledIsStopped == status \in TerminalStatuses /\ ~lost => ~process

\* The reaper takes no job from under its scanner: while the executor is alive it
\* can be declared lost only after the scan, during a long upload.
LostAfterScan == lost /\ ExecutorAlive => exec \in {"exited", "uploaded"}

\* What a job row says of its scanner, its artifacts and its end is true.
JobInv == JobTypeOK /\ RowsBacked /\ CancelledIsAsked /\ SettledIsStopped /\ LostAfterScan

\* No job is left RUNNING for ever (FR-040).
RunningSettles == status = "RUNNING" ~> status \in TerminalStatuses
=============================================================================
