----------------------------- MODULE AgentWorker ----------------------------
(***************************************************************************)
(* One assessment run: the API that creates, cancels and approves it, the  *)
(* Redis stream with its consumer group, and the pool of AgentWorker       *)
(* processes that drive the run's graph through AgentRunner.advance.       *)
(*                                                                         *)
(* Durable state is the assessments and agent_runs rows, the LangGraph     *)
(* checkpoint, the approvals and the stream; everything in `worker' is     *)
(* lost when a process dies.  A transaction that loads a row and writes it *)
(* back is two steps (load, commit), because the rows are not locked.      *)
(* Other runs are present only as the time a worker spends on them: an     *)
(* entry may wait in a worker's batch for as long as they take.            *)
(***************************************************************************)
EXTENDS AssessmentStatus, Naturals, Sequences, FiniteSets

\* The compiled graph (AgentGraph gives the pipeline's values).
CONSTANTS Nodes,         \* node names
          FirstNode,     \* where a seeded run starts
          ApprovalNode,  \* request_approval
          GateNode,      \* execute_scanners, the interrupt_before node
          Edges,         \* Edges[n]: the nodes (or "END") that may follow n
          Targets        \* Targets[n]: the statuses n asks transition() for, in order

CONSTANTS Workers,       \* worker processes (consumer names)
          Operators,     \* people cancelling through the API
          NoOne,         \* not a worker
          ReadBatch,     \* _READ_BATCH
          OtherRuns,     \* entries of other runs may be ahead in a worker's batch
          EarlyApproval, \* operators may answer before the asking worker has settled
          MaxApprovals,  \* bound on the approval rows the run may open
          Faults,        \* kinds of fault that may happen
          MaxFaults      \* bound on their number

FaultKinds == {"crash", "ack", "publish", "checkpoint", "database"}

ASSUME GraphConstants ==
    /\ {FirstNode, ApprovalNode, GateNode} \subseteq Nodes
    /\ {"END", "none"} \cap Nodes = {}
    /\ Edges \in [Nodes -> SUBSET (Nodes \cup {"END"})]
    /\ Targets \in [Nodes -> Seq(Statuses \ {"CREATED", "CANCELLING"})]

\* The graph asks once: nothing leads back from behind request_approval to it.
\* `after' are the nodes behind it.
AsksOnce(after) ==
    /\ after \subseteq Nodes /\ GateNode \in after /\ ApprovalNode \notin after
    /\ \A n \in after \cup {ApprovalNode} : Edges[n] \subseteq after \cup {"END"}
    /\ Len(Targets[ApprovalNode]) <= 1

ASSUME WorkerConstants ==
    /\ NoOne \notin Workers
    /\ Workers \cap Operators = {}
    /\ ReadBatch \in Nat \ {0}
    /\ OtherRuns \in BOOLEAN
    /\ EarlyApproval \in BOOLEAN
    /\ MaxApprovals \in Nat
    /\ Faults \subseteq FaultKinds
    /\ MaxFaults \in Nat

VARIABLES
    assessment,   \* assessments.status
    runStatus,    \* agent_runs.status
    heartbeat,    \* agent_runs.heartbeat_at: never stamped, within claim_idle_ms, older
    checkpoint,   \* StateSnapshot.next of the run's thread
    approvals,    \* decision of each SCAN_SCOPE approval row, oldest first
    scanned,      \* an active scanner was started
    toPublish,    \* requests whose API transaction committed and that await XADD
    stream,       \* entries not yet delivered to the group
    pel,          \* pel[m]: the consumer the pending entry m is attributed to
    idle,         \* pending entries idle for longer than claim_idle_ms
    worker,       \* the state of each process
    cancelSeen,   \* cancelSeen[o]: status loaded by o's open cancel request
    faults        \* number of faults so far

rowVars    == <<assessment, runStatus, heartbeat, checkpoint, approvals, scanned>>
streamVars == <<toPublish, stream, pel, idle>>
vars       == <<assessment, runStatus, heartbeat, checkpoint, approvals, scanned,
                toPublish, stream, pel, idle, worker, cancelSeen, faults>>

-----------------------------------------------------------------------------
(* Messages and process state                                              *)

\* RunRequest: 0 is the START request, which carries the principal; i is the
\* RESUME request published when approval row i was resolved.
Messages == 0 .. MaxApprovals
START == 0

\* What a transaction loaded before it commits.
Snapshots ==
    [assessment : Statuses, run : RunStatuses, pending : BOOLEAN, granted : BOOLEAN]

Unloaded == [assessment |-> "CREATED", run |-> "queued", pending |-> FALSE, granted |-> FALSE]

\* pending_approval and granted_approval, with the rows, as one transaction
\* reads them.
Loaded ==
    [assessment |-> assessment,
     run        |-> runStatus,
     pending    |-> \E i \in DOMAIN approvals : approvals[i] = "pending",
     granted    |-> \E i \in DOMAIN approvals : approvals[i] = "approved"]

\* Program points inside AgentRunner.advance, where the monitor task runs.
InAdvance ==
    {"inspect", "enter", "entering", "invoke", "node", "txn", "settle",
     "interrupt", "complete", "failure", "failing"}

PCs == InAdvance \cup
    {"down", "free", "teardown", "tearing", "orphan", "orphaning", "ack"}

Deliveries == [m : Messages, reclaimed : BOOLEAN]

WorkerStates ==
    [pc    : PCs,                    \* where the process is
     batch : Seq(Deliveries),        \* entries read but not dispatched yet
     m     : Messages,               \* the entry being dispatched
     entry : RunStatuses,            \* run status advance inspected
     seed  : BOOLEAN,                \* advance seeds fresh state
     node  : Nodes,                  \* node being executed
     step  : Nat \ {0},              \* its next transaction
     snap  : Snapshots]              \* what the open transaction loaded

\* The consume loop with nothing in hand but the rest of its batch.
Free(batch) ==
    [pc |-> "free", batch |-> batch, m |-> START, entry |-> "queued", seed |-> FALSE,
     node |-> FirstNode, step |-> 1, snap |-> Unloaded]

Goto(w, pc) == worker' = [worker EXCEPT ![w].pc = pc]

\* Leave a transaction: the loaded copy is gone.
EndTxn(w, pc) == worker' = [worker EXCEPT ![w].pc = pc, ![w].snap = Unloaded]

\* A fault of this kind happens in this step.
Fault(kind) == kind \in Faults /\ faults < MaxFaults /\ faults' = faults + 1

\* Rows, stream and processes hold values of their kinds; the number of approval
\* rows stays within its bound.
TypeOK ==
    /\ assessment \in Statuses
    /\ runStatus \in RunStatuses
    /\ heartbeat \in {"none", "fresh", "stale"}
    /\ checkpoint \in Nodes \cup {"none", "END"}
    /\ approvals \in Seq({"pending", "approved", "rejected"})
    /\ Len(approvals) <= MaxApprovals
    /\ scanned \in BOOLEAN
    /\ toPublish \subseteq Messages
    /\ stream \in Seq(Messages)
    /\ pel \in [Messages -> Workers \cup {NoOne}]
    /\ idle \subseteq Messages
    /\ worker \in [Workers -> WorkerStates]
    /\ cancelSeen \in [Operators -> Statuses \cup {"none"}]
    /\ faults \in Nat

-----------------------------------------------------------------------------
(* The API                                                                 *)

\* POST /assessments committed the rows (_seed_agent_run) and is about to
\* publish START.
Init ==
    /\ assessment = "CREATED"
    /\ runStatus = "queued"
    /\ heartbeat = "none"
    /\ checkpoint = "none"
    /\ approvals = << >>
    /\ scanned = FALSE
    /\ toPublish = {START}
    /\ stream = << >>
    /\ pel = [m \in Messages |-> NoOne]
    /\ idle = {}
    /\ worker = [w \in Workers |-> Free(<< >>)]
    /\ cancelSeen = [o \in Operators |-> "none"]
    /\ faults = 0

\* publish_run_request: XADD.
Publish(m) ==
    /\ m \in toPublish
    /\ toPublish' = toPublish \ {m}
    /\ stream' = Append(stream, m)
    /\ UNCHANGED <<rowVars, pel, idle, worker, cancelSeen, faults>>

\* The API process dies, or Redis refuses the XADD, after the commit.
LosePublish(m) ==
    /\ m \in toPublish
    /\ Fault("publish")
    /\ toPublish' = toPublish \ {m}
    /\ UNCHANGED <<rowVars, stream, pel, idle, worker, cancelSeen>>

\* POST /assessments/{id}/cancel loads the row ...
CancelLoad(o) ==
    /\ cancelSeen[o] = "none"
    /\ TransitionAllowed(assessment, "CANCELLING")
    /\ cancelSeen' = [cancelSeen EXCEPT ![o] = assessment]
    /\ UNCHANGED <<rowVars, streamVars, worker, faults>>

\* ... and commits CANCELLING over whatever the column holds by then.  Nothing
\* is published.
CancelCommit(o) ==
    /\ cancelSeen[o] # "none"
    /\ assessment' = IF cancelSeen[o] = "CANCELLING" THEN assessment ELSE "CANCELLING"
    /\ cancelSeen' = [cancelSeen EXCEPT ![o] = "none"]
    /\ UNCHANGED <<runStatus, heartbeat, checkpoint, approvals, scanned, streamVars,
                   worker, faults>>

\* POST /approvals/{id}/resolve: the conditional UPDATE (decision = 'pending'),
\* commit, then RESUME is published.
Resolve(i, decision) ==
    /\ i \in DOMAIN approvals
    /\ approvals[i] = "pending"
    /\ EarlyApproval \/ runStatus = "interrupted"
    /\ approvals' = [approvals EXCEPT ![i] = decision]
    /\ toPublish' = toPublish \cup {i}
    /\ UNCHANGED <<assessment, runStatus, heartbeat, checkpoint, scanned, stream, pel,
                   idle, worker, cancelSeen, faults>>

-----------------------------------------------------------------------------
(* Consuming the stream                                                    *)

\* XREADGROUP ">": up to ReadBatch new entries become pending for w.
Read(w) ==
    LET n   == IF Len(stream) < ReadBatch THEN Len(stream) ELSE ReadBatch
        got == {stream[i] : i \in 1 .. n}
    IN  /\ worker[w].pc = "free"
        /\ worker[w].batch = << >>
        /\ n > 0
        /\ stream' = SubSeq(stream, n + 1, Len(stream))
        /\ pel' = [m \in Messages |-> IF m \in got THEN w ELSE pel[m]]
        /\ worker' = [worker EXCEPT ![w].batch =
                        [i \in 1 .. n |-> [m |-> stream[i], reclaimed |-> FALSE]]]
        /\ UNCHANGED <<rowVars, toPublish, idle, cancelSeen, faults>>

\* _reclaim_pending: XAUTOCLAIM moves every idle entry to w, which resets its
\* idle time.
Reclaim(w) ==
    /\ worker[w].pc = "free"
    /\ worker[w].batch = << >>
    /\ idle # {}
    /\ \E q \in [1 .. Cardinality(idle) -> idle] :
          /\ \A i, j \in DOMAIN q : q[i] = q[j] => i = j
          /\ worker' = [worker EXCEPT ![w].batch =
                          [i \in DOMAIN q |-> [m |-> q[i], reclaimed |-> TRUE]]]
    /\ pel' = [m \in Messages |-> IF m \in idle THEN w ELSE pel[m]]
    /\ idle' = {}
    /\ UNCHANGED <<rowVars, toPublish, stream, cancelSeen, faults>>

\* Mutants of DispatchTo: the heartbeat is not looked at; and a heartbeat that
\* was ever stamped counts as fresh.
DispatchWithoutHeartbeat(delivery) ==
    IF assessment = "CANCELLING" THEN "teardown"
    ELSE IF assessment \in TerminalStatuses THEN "orphan"
    ELSE "inspect"

DispatchNeverStale(delivery) ==
    IF delivery.reclaimed /\ heartbeat # "none" THEN "free"
    ELSE IF assessment = "CANCELLING" THEN "teardown"
    ELSE IF assessment \in TerminalStatuses THEN "orphan"
    ELSE "inspect"

\* The guards of _dispatch, in their order: a live owner, a cancellation, a
\* finished assessment, a runnable message.
DispatchTo(delivery) ==
    IF delivery.reclaimed /\ heartbeat = "fresh" THEN "free"
    ELSE IF assessment = "CANCELLING" THEN "teardown"
    ELSE IF assessment \in TerminalStatuses THEN "orphan"
    ELSE "inspect"

\* Mutant of Dispatch: a deferred entry is acknowledged.
DispatchAckingDeferred(w) ==
    /\ worker[w].pc = "free"
    /\ worker[w].batch # << >>
    /\ LET delivery == Head(worker[w].batch)
           rest     == Tail(worker[w].batch)
           deferred == DispatchTo(delivery) = "free"
       IN  /\ worker' = [worker EXCEPT ![w] =
                           IF deferred THEN Free(rest)
                           ELSE [Free(rest) EXCEPT !.pc = DispatchTo(delivery),
                                                   !.m  = delivery.m]]
           /\ pel' = IF deferred THEN [pel EXCEPT ![delivery.m] = NoOne] ELSE pel
    /\ UNCHANGED <<rowVars, toPublish, stream, idle, cancelSeen, faults>>

\* _dispatch with _load_context: the next entry of the batch is looked at.  A
\* deferred entry stays pending and is forgotten.
Dispatch(w) ==
    /\ worker[w].pc = "free"
    /\ worker[w].batch # << >>
    /\ LET delivery == Head(worker[w].batch)
           rest     == Tail(worker[w].batch)
       IN  worker' = [worker EXCEPT ![w] =
                        IF DispatchTo(delivery) = "free" THEN Free(rest)
                        ELSE [Free(rest) EXCEPT !.pc = DispatchTo(delivery),
                                                !.m  = delivery.m]]
    /\ UNCHANGED <<rowVars, streamVars, cancelSeen, faults>>

\* _ack: XACK is group-scoped, whoever the entry is attributed to by now.
Ack(w) ==
    /\ worker[w].pc = "ack"
    /\ pel' = [pel EXCEPT ![worker[w].m] = NoOne]
    /\ idle' = idle \ {worker[w].m}
    /\ worker' = [worker EXCEPT ![w] = Free(worker[w].batch)]
    /\ UNCHANGED <<rowVars, toPublish, stream, cancelSeen, faults>>

\* _ack swallows a Redis error: the entry stays pending.
AckLost(w) ==
    /\ worker[w].pc = "ack"
    /\ Fault("ack")
    /\ worker' = [worker EXCEPT ![w] = Free(worker[w].batch)]
    /\ UNCHANGED <<rowVars, streamVars, cancelSeen>>

-----------------------------------------------------------------------------
(* AgentRunner.advance                                                     *)

\* _inspect: a settled run is reported as it is; otherwise its status decides
\* how it is entered.
Inspect(w) ==
    /\ worker[w].pc = "inspect"
    /\ worker' = IF runStatus \in TerminalRunStatuses
                 THEN [worker EXCEPT ![w].pc = "ack"]
                 ELSE [worker EXCEPT ![w].pc = "enter", ![w].entry = runStatus]
    /\ UNCHANGED <<rowVars, streamVars, cancelSeen, faults>>

\* _has_checkpoint for a reclaimed run; a queued run has none, an interrupted
\* one always has.
HasCheckpoint(entry, readable) ==
    IF entry = "running" THEN readable /\ checkpoint # "none" ELSE entry = "interrupted"

\* _enter up to its write: seed or resume, refuse a seed without a principal
\* (only START carries one), refuse a run that was settled meanwhile.
EnterLoad(w) ==
    /\ worker[w].pc = "enter"
    /\ \E readable \in BOOLEAN :
          /\ IF readable THEN UNCHANGED faults
             ELSE worker[w].entry = "running" /\ Fault("checkpoint")
          /\ LET seed == ~HasCheckpoint(worker[w].entry, readable)
             IN  worker' =
                   IF seed /\ worker[w].m # START
                   THEN [worker EXCEPT ![w].pc = "failure"]
                   ELSE IF runStatus \in TerminalRunStatuses
                   THEN [worker EXCEPT ![w].pc = "ack"]
                   ELSE [worker EXCEPT ![w].pc = "entering", ![w].seed = seed]
    /\ UNCHANGED <<rowVars, streamVars, cancelSeen>>

\* _enter commits RUNNING and a fresh heartbeat.
EnterCommit(w) ==
    /\ worker[w].pc = "entering"
    /\ runStatus' = "running"
    /\ heartbeat' = "fresh"
    /\ Goto(w, "invoke")
    /\ UNCHANGED <<assessment, checkpoint, approvals, scanned, streamVars, cancelSeen, faults>>

\* graph.ainvoke: a seed is checkpointed before the first node and starts
\* there; None continues at the checkpoint, through the gate if the checkpoint
\* stands in front of it, and raises when there is nothing to continue from.
Invoke(w) ==
    /\ worker[w].pc = "invoke"
    /\ IF worker[w].seed
       THEN /\ checkpoint' = FirstNode
            /\ worker' = [worker EXCEPT ![w].pc = "node", ![w].node = FirstNode,
                                        ![w].step = 1]
       ELSE /\ worker' = IF checkpoint \in Nodes
                         THEN [worker EXCEPT ![w].pc = "node", ![w].node = checkpoint,
                                             ![w].step = 1]
                         ELSE [worker EXCEPT ![w].pc = IF checkpoint = "END"
                                                       THEN "settle" ELSE "failure"]
            /\ UNCHANGED checkpoint
    /\ UNCHANGED <<assessment, runStatus, heartbeat, approvals, scanned, streamVars,
                   cancelSeen, faults>>

\* A node opens the transaction of its next status change and loads the
\* assessment; _authorize_and_plan skips the scan when the assessment is neither
\* waiting for approval nor scanning.
NodeLoad(w) ==
    LET me == worker[w]
    IN  /\ me.pc = "node"
        /\ me.step <= Len(Targets[me.node])
        /\ worker' =
             IF me.node = GateNode /\ assessment \notin {"WAITING_FOR_APPROVAL", "SCANNING"}
             THEN [worker EXCEPT ![w].step = me.step + 1]
             ELSE [worker EXCEPT ![w].pc = "txn", ![w].snap = Loaded]
        /\ UNCHANGED <<rowVars, streamVars, cancelSeen, faults>>

\* Mutant of NodeCommit: execute_scanners does not look for a granted row.
NodeCommitUngranted(w) ==
    LET me == worker[w]
        to == Targets[me.node][me.step]
        opens == me.node = ApprovalNode /\ ~me.snap.pending
    IN  /\ me.pc = "txn"
        /\ TransitionAllowed(me.snap.assessment, to)
        /\ opens => Len(approvals) < MaxApprovals
        /\ assessment' = IF to = me.snap.assessment THEN assessment ELSE to
        /\ approvals' = IF opens THEN Append(approvals, "pending") ELSE approvals
        /\ scanned' = (scanned \/ me.node = GateNode)
        /\ worker' = [worker EXCEPT ![w].pc = "node", ![w].step = me.step + 1,
                                    ![w].snap = Unloaded]
        /\ UNCHANGED <<runStatus, heartbeat, checkpoint, streamVars, cancelSeen, faults>>

\* transition() accepts and the node's transaction commits.  request_approval
\* opens an approval row unless it saw a pending one; execute_scanners starts
\* scanners only under a granted row.
NodeCommit(w) ==
    LET me == worker[w]
        to == Targets[me.node][me.step]
        opens == me.node = ApprovalNode /\ ~me.snap.pending
    IN  /\ me.pc = "txn"
        /\ TransitionAllowed(me.snap.assessment, to)
        /\ opens => Len(approvals) < MaxApprovals
        /\ assessment' = IF to = me.snap.assessment THEN assessment ELSE to
        /\ approvals' = IF opens THEN Append(approvals, "pending") ELSE approvals
        /\ scanned' = (scanned \/ (me.node = GateNode /\ me.snap.granted))
        /\ worker' = [worker EXCEPT ![w].pc = "node", ![w].step = me.step + 1,
                                    ![w].snap = Unloaded]
        /\ UNCHANGED <<runStatus, heartbeat, checkpoint, streamVars, cancelSeen, faults>>

\* transition() raises ConflictError; the node re-raises it and advance fails
\* the run.
NodeRefused(w) ==
    LET me == worker[w]
    IN  /\ me.pc = "txn"
        /\ ~TransitionAllowed(me.snap.assessment, Targets[me.node][me.step])
        /\ EndTxn(w, "failure")
        /\ UNCHANGED <<rowVars, streamVars, cancelSeen, faults>>

\* A node lets a non-degradable error escape (storage, DefectDojo, report).
NodeRaise(w) ==
    /\ worker[w].pc = "node"
    /\ Goto(w, "failure")
    /\ UNCHANGED <<rowVars, streamVars, cancelSeen, faults>>

\* Mutant of NodeReturn: the graph is compiled without interrupt_before.
NodeReturnUngated(w) ==
    LET me == worker[w]
    IN  /\ me.pc = "node"
        /\ me.step > Len(Targets[me.node])
        /\ \E n \in Edges[me.node] :
              /\ checkpoint' = n
              /\ worker' = IF n = "END"
                           THEN [worker EXCEPT ![w].pc = "settle"]
                           ELSE [worker EXCEPT ![w].node = n, ![w].step = 1]
        /\ UNCHANGED <<assessment, runStatus, heartbeat, approvals, scanned, streamVars,
                       cancelSeen, faults>>

\* The node returned: LangGraph saves the checkpoint and goes on, or returns
\* from ainvoke at the end of the graph and in front of the gate.
NodeReturn(w) ==
    LET me == worker[w]
    IN  /\ me.pc = "node"
        /\ me.step > Len(Targets[me.node])
        /\ \E n \in Edges[me.node] :
              /\ checkpoint' = n
              /\ worker' = IF n \in {"END", GateNode}
                           THEN [worker EXCEPT ![w].pc = "settle"]
                           ELSE [worker EXCEPT ![w].node = n, ![w].step = 1]
        /\ UNCHANGED <<assessment, runStatus, heartbeat, approvals, scanned, streamVars,
                       cancelSeen, faults>>

-----------------------------------------------------------------------------
(* Settling                                                                *)

\* _settle: a non-empty StateSnapshot.next is the gate, an empty one the end.
Settle(w) ==
    /\ worker[w].pc = "settle"
    /\ Goto(w, IF checkpoint = "END" THEN "complete" ELSE "interrupt")
    /\ UNCHANGED <<rowVars, streamVars, cancelSeen, faults>>

\* _settle_interrupt.
SettleInterrupt(w) ==
    /\ worker[w].pc = "interrupt"
    /\ runStatus' = "interrupted"
    /\ heartbeat' = "fresh"
    /\ Goto(w, "ack")
    /\ UNCHANGED <<assessment, checkpoint, approvals, scanned, streamVars, cancelSeen, faults>>

\* _settle_complete.
SettleComplete(w) ==
    /\ worker[w].pc = "complete"
    /\ runStatus' = "completed"
    /\ heartbeat' = "fresh"
    /\ Goto(w, "ack")
    /\ UNCHANGED <<assessment, checkpoint, approvals, scanned, streamVars, cancelSeen, faults>>

\* _settle_failure, _cancel_teardown and _settle_orphaned_run load both rows.
SettleLoad(w) ==
    /\ worker[w].pc \in {"failure", "teardown", "orphan"}
    /\ worker' = [worker EXCEPT
         ![w].pc = CASE worker[w].pc = "failure"  -> "failing"
                     [] worker[w].pc = "teardown" -> "tearing"
                     [] OTHER                     -> "orphaning",
         ![w].snap = Loaded]
    /\ UNCHANGED <<rowVars, streamVars, cancelSeen, faults>>

\* Mutants of FailureCommit: the assessment is not failed with the run; a
\* finished one is failed as well.
FailureOfRunOnly(w) ==
    /\ worker[w].pc = "failing"
    /\ runStatus' = "failed"
    /\ heartbeat' = "fresh"
    /\ EndTxn(w, "ack")
    /\ UNCHANGED <<assessment, checkpoint, approvals, scanned, streamVars, cancelSeen, faults>>

FailureOfFinished(w) ==
    /\ worker[w].pc = "failing"
    /\ runStatus' = "failed"
    /\ heartbeat' = "fresh"
    /\ assessment' = "FAILED"
    /\ EndTxn(w, "ack")
    /\ UNCHANGED <<checkpoint, approvals, scanned, streamVars, cancelSeen, faults>>

\* _settle_failure: the run fails whatever its status; the assessment fails
\* unless it was loaded terminal.
FailureCommit(w) ==
    /\ worker[w].pc = "failing"
    /\ runStatus' = "failed"
    /\ heartbeat' = "fresh"
    /\ assessment' = IF worker[w].snap.assessment \in TerminalStatuses
                     THEN assessment ELSE "FAILED"
    /\ EndTxn(w, "ack")
    /\ UNCHANGED <<checkpoint, approvals, scanned, streamVars, cancelSeen, faults>>

\* _cancel_teardown: CANCELLING becomes CANCELLED, a live run cancelled.
TeardownCommit(w) ==
    LET snap == worker[w].snap
    IN  /\ worker[w].pc = "tearing"
        /\ assessment' = IF snap.assessment = "CANCELLING" THEN "CANCELLED" ELSE assessment
        /\ IF snap.run \in TerminalRunStatuses
           THEN UNCHANGED <<runStatus, heartbeat>>
           ELSE runStatus' = "cancelled" /\ heartbeat' = "fresh"
        /\ EndTxn(w, "ack")
        /\ UNCHANGED <<checkpoint, approvals, scanned, streamVars, cancelSeen, faults>>

\* Mutant of OrphanCommit: the run's own status is not looked at.
OrphanOfSettled(w) ==
    /\ worker[w].pc = "orphaning"
    /\ runStatus' = "cancelled"
    /\ heartbeat' = "fresh"
    /\ EndTxn(w, "ack")
    /\ UNCHANGED <<assessment, checkpoint, approvals, scanned, streamVars, cancelSeen, faults>>

\* _settle_orphaned_run: a live run of a finished assessment is cancelled.
OrphanCommit(w) ==
    /\ worker[w].pc = "orphaning"
    /\ IF worker[w].snap.run \in TerminalRunStatuses
       THEN UNCHANGED <<runStatus, heartbeat>>
       ELSE runStatus' = "cancelled" /\ heartbeat' = "fresh"
    /\ EndTxn(w, "ack")
    /\ UNCHANGED <<assessment, checkpoint, approvals, scanned, streamVars, cancelSeen, faults>>

-----------------------------------------------------------------------------
(* The monitor task, faults and time                                       *)

\* _heartbeat_and_check_cancel stamps a running run ...
MonitorBeat(w) ==
    /\ worker[w].pc \in InAdvance
    /\ runStatus = "running"
    /\ heartbeat # "fresh"
    /\ heartbeat' = "fresh"
    /\ UNCHANGED <<assessment, runStatus, checkpoint, approvals, scanned, streamVars,
                   worker, cancelSeen, faults>>

\* ... and cancels advance when it sees CANCELLING; the transaction in flight
\* is rolled back and _run goes to the teardown.
MonitorCancel(w) ==
    /\ worker[w].pc \in InAdvance
    /\ assessment = "CANCELLING"
    /\ worker' = [worker EXCEPT ![w] = [Free(worker[w].batch) EXCEPT
                                          !.pc = "teardown", !.m = worker[w].m]]
    /\ UNCHANGED <<rowVars, streamVars, cancelSeen, faults>>

\* The database fails under advance's own bookkeeping: _run logs the error and
\* leaves the entry pending.
DatabaseError(w) ==
    /\ worker[w].pc \in InAdvance \ {"invoke", "node", "txn"}
    /\ Fault("database")
    /\ worker' = [worker EXCEPT ![w] = Free(worker[w].batch)]
    /\ UNCHANGED <<rowVars, streamVars, cancelSeen>>

\* The process dies or is stopped (request_stop): what it had in hand is gone,
\* its entries stay pending.
Crash(w) ==
    /\ worker[w].pc # "down"
    /\ Fault("crash")
    /\ worker' = [worker EXCEPT ![w] = [Free(<< >>) EXCEPT !.pc = "down"]]
    /\ UNCHANGED <<rowVars, streamVars, cancelSeen>>

Restart(w) ==
    /\ worker[w].pc = "down"
    /\ worker' = [worker EXCEPT ![w] = Free(<< >>)]
    /\ UNCHANGED <<rowVars, streamVars, cancelSeen, faults>>

\* Program points that take far less than claim_idle_ms: a dispatch before
\* _enter has stamped the heartbeat, and the XACK after a settle.
Prompt == {"inspect", "enter", "entering", "ack"}

\* w is about to dispatch the head of its batch: at once, unless entries of
\* other runs come first.
Dispatching(w) == worker[w].pc = "free" /\ worker[w].batch # << >> /\ ~OtherRuns

\* w has m in hand and will reach its next long phase before m becomes idle.
Handling(w, m) ==
    \/ worker[w].m = m /\ worker[w].pc \in Prompt
    \/ Dispatching(w) /\ Head(worker[w].batch).m = m

\* claim_idle_ms passes since m was last delivered.
BecomeIdle(m) ==
    /\ pel[m] # NoOne
    /\ m \notin idle
    /\ \A w \in Workers : ~Handling(w, m)
    /\ idle' = idle \cup {m}
    /\ UNCHANGED <<rowVars, toPublish, stream, pel, worker, cancelSeen, faults>>

\* claim_idle_ms passes since the last heartbeat; a live monitor of a running
\* run prevents it, and so do the short ways from a settle to its
\* XACK and from a delivery to its dispatch.
HeartbeatAges ==
    /\ heartbeat = "fresh"
    /\ \A w \in Workers :
          /\ worker[w].pc # "ack" /\ ~Dispatching(w)
          /\ worker[w].pc \in InAdvance => runStatus # "running"
    /\ heartbeat' = "stale"
    /\ UNCHANGED <<assessment, runStatus, checkpoint, approvals, scanned, streamVars,
                   worker, cancelSeen, faults>>

-----------------------------------------------------------------------------
ApiStep ==
    \/ \E m \in Messages : Publish(m) \/ LosePublish(m)
    \/ \E o \in Operators : CancelLoad(o) \/ CancelCommit(o)
    \/ \E i \in 1 .. MaxApprovals : Resolve(i, "approved") \/ Resolve(i, "rejected")

\* The steps a live process takes by itself.
WorkerStep(w) ==
    \/ Read(w) \/ Reclaim(w) \/ Dispatch(w) \/ Ack(w)
    \/ Inspect(w) \/ EnterLoad(w) \/ EnterCommit(w) \/ Invoke(w)
    \/ NodeLoad(w) \/ NodeCommit(w) \/ NodeRefused(w) \/ NodeReturn(w)
    \/ Settle(w) \/ SettleInterrupt(w) \/ SettleComplete(w)
    \/ SettleLoad(w) \/ FailureCommit(w) \/ TeardownCommit(w) \/ OrphanCommit(w)

MonitorStep(w) == MonitorBeat(w) \/ MonitorCancel(w)

Trouble(w) == NodeRaise(w) \/ AckLost(w) \/ DatabaseError(w) \/ Crash(w) \/ Restart(w)

Time == HeartbeatAges \/ \E m \in Messages : BecomeIdle(m)

Next ==
    \/ ApiStep
    \/ \E w \in Workers : WorkerStep(w) \/ MonitorStep(w) \/ Trouble(w)
    \/ Time

Spec == Init /\ [][Next]_vars

\* What the deployment guarantees: requests whose commit succeeded are published,
\* processes take their next step and are restarted, the monitor task runs
\* every few seconds, and time passes.  The windows in which a heartbeat cannot
\* age are milliseconds of every claim_idle_ms, so it ages although they recur.
FairSpec ==
    /\ Spec
    /\ \A m \in Messages : WF_vars(Publish(m)) /\ WF_vars(BecomeIdle(m))
    /\ SF_vars(HeartbeatAges)
    /\ \A w \in Workers :
          WF_vars(WorkerStep(w)) /\ WF_vars(MonitorStep(w)) /\ WF_vars(Restart(w))

-----------------------------------------------------------------------------
(* Properties                                                              *)

\* The gate (FR-011): an active scanner was started only if a person granted an
\* approval of this assessment, whatever crashes, is redelivered or is answered
\* early.
ScanOnlyUnderGrant ==
    scanned => \E i \in DOMAIN approvals : approvals[i] = "approved"

\* w executes the graph or settles what it executed.
Driving(w) ==
    worker[w].pc \in {"invoke", "node", "txn", "settle", "interrupt", "complete",
                      "failure", "failing"}

\* advance assumes that "no live worker is already driving this run"; the
\* worker's heartbeat check has to establish it.
SingleDriver == \A v, w \in Workers : Driving(v) /\ Driving(w) => v = w

\* Ack after settle: a run that is neither settled nor waiting for a person has
\* a request that somebody will still read, reclaim or publish, so a crash of
\* whoever drives it is survived.
NoStrandedRun ==
    runStatus \in {"queued", "running"} =>
        \/ toPublish # {}
        \/ stream # << >>
        \/ \E m \in Messages : pel[m] # NoOne

\* A settled run stays as it was settled, however often its messages are
\* delivered again.
SettledOnce ==
    [][(runStatus \in TerminalRunStatuses) => (runStatus' = runStatus)]_vars

\* No worker and no redelivery moves a finished assessment; only the commit of a
\* cancel request that loaded it before it finished does.
FinishedOnce ==
    [][(assessment \in TerminalStatuses) =>
         \/ assessment' = assessment
         \/ assessment' = "CANCELLING" /\ \E o \in Operators : cancelSeen[o] # "none"]_vars

\* Neither comes back: what redeliveries, reclaims and late cancel requests may
\* not undo, of the run and of its assessment.
NothingReopened == SettledOnce /\ FinishedOnce

\* The runner settles a run and its assessment together: when a run is over, its
\* assessment is too, unless a late cancel request reopened it.
NoOpenAssessmentOfSettledRun ==
    runStatus \in TerminalRunStatuses => assessment \in TerminalStatuses \cup {"CANCELLING"}

\* The graph does not go through the gate while the operator's answer is out.
GateHonoured ==
    \A w \in Workers : worker[w].pc = "txn" /\ worker[w].node = GateNode =>
        \A i \in DOMAIN approvals : approvals[i] # "pending"

\* Without a crash or another fault, the gate holds whatever is answered twice or
\* cancelled meanwhile, if one process serves the run, or if answers wait until
\* the process that asked has settled and entries are dispatched as they come.
GateHonouredUnlessFault == faults = 0 => GateHonoured

\* Every run is driven until it is settled or waits at the gate, across crashes
\* of the worker that drives it (FR-033).
RunSettles == runStatus \in {"queued", "running"} ~> runStatus \notin {"queued", "running"}

\* ... and its assessment with it: none is left for ever in a status only a
\* worker can move it out of.
AssessmentProgresses ==
    assessment \in WorkingStatuses ~> assessment \notin WorkingStatuses

\* A cancellation accepted while the run is still open is carried out: the
\* worker reads the status and settles.
CancelSettles ==
    (assessment = "CANCELLING" /\ runStatus \notin TerminalRunStatuses)
        ~> assessment \in TerminalStatuses

\* The assessment column as AssessmentRow specifies it: a session of w is open
\* from the load of a transaction that may change the status to its end.
SeenBy(w) ==
    IF w \in Operators THEN cancelSeen[w]
    ELSE IF worker[w].pc \in {"txn", "failing", "tearing"} THEN worker[w].snap.assessment
    ELSE "none"

Row == INSTANCE AssessmentRow WITH
    Cancellers <- Operators, Drivers <- Workers, NoTxn <- "none",
    status <- assessment, seen <- [w \in Operators \cup Workers |-> SeenBy(w)]

\* Every step of the API, the workers and their failures is a step of
\* AssessmentRow: the status moves only by transitions that the loaded copy
\* allows, and no settling path asks for one that transition() would refuse.
ImplementsRow == Row!RowSpec
=============================================================================
