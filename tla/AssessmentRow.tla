---------------------------- MODULE AssessmentRow ---------------------------
(***************************************************************************)
(* What every writer of the assessments.status column promises.            *)
(*                                                                         *)
(* A writer (a cancel request, a graph node, the runner's failure path,    *)
(* the worker's teardown) loads the ORM row in a transaction of its own,   *)
(* calls assessment.transition on the copy and commits.  The engine runs   *)
(* at READ COMMITTED, rows are read without a lock and carry no version    *)
(* column: the check in transition is made on the loaded copy, and the     *)
(* UPDATE writes the new value over whatever is there at commit.           *)
(*                                                                         *)
(* This is the abstract specification of the column: AgentWorker, with all *)
(* its queues and processes, is shown to implement it.                     *)
(***************************************************************************)
EXTENDS AssessmentStatus

CONSTANTS Cancellers,   \* API requests to cancel the assessment
          Drivers,      \* sessions of the worker: nodes, failure path, teardown
          NoTxn         \* no transaction open

ASSUME RowConstants ==
    /\ NoTxn \notin Statuses
    /\ Cancellers \cap Drivers = {}

Writers == Cancellers \cup Drivers

VARIABLES status,       \* the committed column
          seen          \* seen[w]: the value w's open transaction loaded

rowVars == <<status, seen>>

RowTypeOK ==
    /\ status \in Statuses
    /\ seen \in [Writers -> Statuses \cup {NoTxn}]

\* The statuses a writer asks transition() for: cancel_assessment asks for
\* CANCELLING, the worker's side for every later status of the pipeline, FAILED
\* (_settle_failure) and CANCELLED (_cancel_teardown).
Requests(w) ==
    IF w \in Cancellers THEN {"CANCELLING"} ELSE Statuses \ {"CREATED", "CANCELLING"}

\* create_assessment inserts the row with status CREATED.
RowInit ==
    /\ status = "CREATED"
    /\ seen = [w \in Writers |-> NoTxn]

\* session_scope / get_db open a session and load_assessment (or
\* get_assessment) loads the row.
Load(w) ==
    /\ seen[w] = NoTxn
    /\ seen' = [seen EXCEPT ![w] = status]
    /\ UNCHANGED status

\* transition() accepts the request and the session commits: the UPDATE names
\* the status column only when the copy was changed.
Commit(w, to) ==
    /\ seen[w] # NoTxn
    /\ to \in Requests(w)
    /\ TransitionAllowed(seen[w], to)
    /\ status' = IF to = seen[w] THEN status ELSE to
    /\ seen' = [seen EXCEPT ![w] = NoTxn]

\* transition() raises ConflictError, is not called, or anything else fails
\* before the commit: session_scope rolls back and the row is untouched.
Rollback(w) ==
    /\ seen[w] # NoTxn
    /\ seen' = [seen EXCEPT ![w] = NoTxn]
    /\ UNCHANGED status

RowNext ==
    \E w \in Writers : Load(w) \/ Rollback(w) \/ \E to \in Statuses : Commit(w, to)

RowSpec == RowInit /\ [][RowNext]_rowVars
=============================================================================
