-------------------------- MODULE AssessmentStatus --------------------------
(***************************************************************************)
(* The status vocabulary of db/enums.py: the assessment state machine, the *)
(* statuses of an agent run and the decisions of an approval.              *)
(***************************************************************************)

\* AssessmentStatus: the value of the assessments.status column.
Statuses ==
    {"CREATED", "PLANNING", "DISCOVERY", "WAITING_FOR_APPROVAL", "SCANNING",
     "ANALYZING", "REMEDIATING", "COMPLETED", "FAILED", "CANCELLING", "CANCELLED"}

\* _TERMINAL_STATUSES and AssessmentStatus.is_terminal.
TerminalStatuses == {"COMPLETED", "FAILED", "CANCELLED"}

\* The statuses only the worker's side moves an assessment out of.
WorkingStatuses ==
    {"CREATED", "PLANNING", "DISCOVERY", "SCANNING", "ANALYZING", "REMEDIATING"}

\* ALLOWED_TRANSITIONS, one entry per status.
ALLOWED_TRANSITIONS ==
    [s \in Statuses |->
        CASE s = "CREATED"              -> {"PLANNING", "CANCELLING", "FAILED"}
          [] s = "PLANNING"             -> {"DISCOVERY", "CANCELLING", "FAILED"}
          [] s = "DISCOVERY"            -> {"WAITING_FOR_APPROVAL", "SCANNING", "ANALYZING",
                                            "CANCELLING", "FAILED"}
          [] s = "WAITING_FOR_APPROVAL" -> {"SCANNING", "CANCELLING", "CANCELLED", "FAILED"}
          [] s = "SCANNING"             -> {"ANALYZING", "CANCELLING", "FAILED"}
          [] s = "ANALYZING"            -> {"REMEDIATING", "COMPLETED", "CANCELLING", "FAILED"}
          [] s = "REMEDIATING"          -> {"COMPLETED", "CANCELLING", "FAILED"}
          [] s = "CANCELLING"           -> {"CANCELLED", "FAILED"}
          [] OTHER                      -> {}]

\* assessment.transition(): a request for the current status is a no-op, a
\* status outside the table raises ConflictError (the operator is FALSE).
TransitionAllowed(current, to) ==
    \/ current = to
    \/ to \in ALLOWED_TRANSITIONS[current]

\* AgentRunStatus: the value of the agent_runs.status column.
RunStatuses ==
    {"queued", "running", "interrupted", "completed", "failed", "cancelled"}

\* _TERMINAL_RUN_STATUSES, as both the runner and the worker define it.
TerminalRunStatuses == {"completed", "failed", "cancelled"}
=============================================================================
