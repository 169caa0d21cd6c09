-------------------------- MODULE AgentWorkerProofs -------------------------
(***************************************************************************)
(* For any graph, any number of workers and operators and any bounds on    *)
(* faults and approvals: type correctness, no scan without a grant, that   *)
(* the whole system implements AssessmentRow, who drives a run, and when   *)
(* the gate is honoured.                                                   *)
(***************************************************************************)
EXTENDS AgentWorker, FiniteSetTheorems, SequenceTheorems, TLAPS

-----------------------------------------------------------------------------
(* The ways an action changes the record of a process                      *)

LEMMA Constants ==
    /\ Unloaded \in Snapshots
    /\ START \in Messages
    /\ FirstNode \in Nodes
    /\ "END" \notin Nodes
  BY GraphConstants, WorkerConstants, SMTT(40)
  DEF Unloaded, Snapshots, Statuses, RunStatuses, START, Messages

LEMMA UpdateType ==
    ASSUME NEW r \in WorkerStates
    PROVE  /\ \A pc \in PCs : [r EXCEPT !.pc = pc] \in WorkerStates
           /\ \A pc \in PCs, s \in Snapshots :
                 [r EXCEPT !.pc = pc, !.snap = s] \in WorkerStates
           /\ \A pc \in PCs, e \in RunStatuses :
                 [r EXCEPT !.pc = pc, !.entry = e] \in WorkerStates
           /\ \A pc \in PCs, b \in BOOLEAN : [r EXCEPT !.pc = pc, !.seed = b] \in WorkerStates
           /\ \A pc \in PCs, n \in Nodes, k \in Nat \ {0} :
                 [r EXCEPT !.pc = pc, !.node = n, !.step = k] \in WorkerStates
           /\ \A n \in Nodes, k \in Nat \ {0} :
                 [r EXCEPT !.node = n, !.step = k] \in WorkerStates
           /\ \A k \in Nat \ {0} : [r EXCEPT !.step = k] \in WorkerStates
           /\ \A pc \in PCs, k \in Nat \ {0}, s \in Snapshots :
                 [r EXCEPT !.pc = pc, !.step = k, !.snap = s] \in WorkerStates
           /\ \A b \in Seq(Deliveries) : [r EXCEPT !.batch = b] \in WorkerStates
           /\ \A pc \in PCs, m \in Messages : [r EXCEPT !.pc = pc, !.m = m] \in WorkerStates
<1>1. \A pc \in PCs : [r EXCEPT !.pc = pc] \in WorkerStates
  BY DEF WorkerStates
<1>2. \A pc \in PCs, s \in Snapshots : [r EXCEPT !.pc = pc, !.snap = s] \in WorkerStates
  BY DEF WorkerStates
<1>3. \A pc \in PCs, e \in RunStatuses : [r EXCEPT !.pc = pc, !.entry = e] \in WorkerStates
  BY DEF WorkerStates
<1>4. \A pc \in PCs, b \in BOOLEAN : [r EXCEPT !.pc = pc, !.seed = b] \in WorkerStates
  BY DEF WorkerStates
<1>5. \A pc \in PCs, n \in Nodes, k \in Nat \ {0} :
         [r EXCEPT !.pc = pc, !.node = n, !.step = k] \in WorkerStates
  BY DEF WorkerStates
<1>6. \A n \in Nodes, k \in Nat \ {0} : [r EXCEPT !.node = n, !.step = k] \in WorkerStates
  BY DEF WorkerStates
<1>7. \A k \in Nat \ {0} : [r EXCEPT !.step = k] \in WorkerStates
  BY DEF WorkerStates
<1>8. \A pc \in PCs, k \in Nat \ {0}, s \in Snapshots :
         [r EXCEPT !.pc = pc, !.step = k, !.snap = s] \in WorkerStates
  BY DEF WorkerStates
<1>9. \A b \in Seq(Deliveries) : [r EXCEPT !.batch = b] \in WorkerStates
  BY DEF WorkerStates
<1>10. \A pc \in PCs, m \in Messages : [r EXCEPT !.pc = pc, !.m = m] \in WorkerStates
  BY DEF WorkerStates
<1> QED
  BY <1>1, <1>2, <1>3, <1>4, <1>5, <1>6, <1>7, <1>8, <1>9, <1>10

LEMMA FreeType ==
    ASSUME NEW batch \in Seq(Deliveries)
    PROVE  Free(batch) \in WorkerStates
<1>1. /\ "free" \in PCs
      /\ "queued" \in RunStatuses
      /\ 1 \in Nat \ {0}
  BY DEF PCs, RunStatuses
<1> QED
  BY <1>1, Constants DEF Free, WorkerStates

LEMMA PutType ==
    ASSUME TypeOK, NEW w \in Workers, NEW r \in WorkerStates,
           worker' = [worker EXCEPT ![w] = r]
    PROVE  worker' \in [Workers -> WorkerStates]
  BY DEF TypeOK

LEMMA PointsTyped ==
    /\ InAdvance \subseteq PCs
    /\ {"down", "free", "teardown", "tearing", "orphan", "orphaning", "ack"} \subseteq PCs
    /\ {"inspect", "enter", "entering", "invoke", "node", "txn", "settle", "interrupt",
        "complete", "failure", "failing"} \subseteq PCs
  BY DEF PCs, InAdvance

LEMMA LoadedType == TypeOK => Loaded \in Snapshots
  BY DEF TypeOK, Loaded, Snapshots

\* Every step changes at most one process, and leaves it a process state.
LEMMA WorkerTyped == TypeOK /\ [Next]_vars => worker' \in [Workers -> WorkerStates]
<1> SUFFICES ASSUME TypeOK, [Next]_vars
             PROVE  worker' \in [Workers -> WorkerStates]
  OBVIOUS
<1>1. CASE UNCHANGED worker
  BY <1>1, SMTT(40) DEF TypeOK
<1>2. ASSUME NEW w \in Workers,
             WorkerStep(w) \/ MonitorStep(w) \/ Trouble(w)
      PROVE  worker' \in [Workers -> WorkerStates]
  <2> DEFINE me == worker[w]
  <2>0. /\ me \in WorkerStates
        /\ me.batch \in Seq(Deliveries)
        /\ me.m \in Messages
        /\ me.step \in Nat \ {0}
        /\ me.step + 1 \in Nat \ {0}
        /\ me.pc \in PCs
        /\ 1 \in Nat \ {0}
    BY SMTT(40) DEF TypeOK, WorkerStates
  <2>a. \A pc \in PCs : [me EXCEPT !.pc = pc] \in WorkerStates
    BY <2>0, UpdateType
  <2>b. \A pc \in PCs, t \in Snapshots : [me EXCEPT !.pc = pc, !.snap = t] \in WorkerStates
    BY <2>0, UpdateType
  <2> HIDE DEF me
  <2>go. ASSUME NEW pc \in PCs, Goto(w, pc)
         PROVE  worker' \in [Workers -> WorkerStates]
    <3>1. worker' = [worker EXCEPT ![w] = [me EXCEPT !.pc = pc]]
      BY <2>go DEF Goto, me
    <3> QED BY <3>1, <2>a, PutType
  <2>end. ASSUME NEW pc \in PCs, EndTxn(w, pc)
          PROVE  worker' \in [Workers -> WorkerStates]
    <3>1. worker' = [worker EXCEPT ![w] = [me EXCEPT !.pc = pc, !.snap = Unloaded]]
      BY <2>end DEF EndTxn, me
    <3> QED BY <3>1, <2>b, PutType, Constants
  <2>1. CASE Read(w)
    <3> DEFINE n == IF Len(stream) < ReadBatch THEN Len(stream) ELSE ReadBatch
               b == [i \in 1 .. n |-> [m |-> stream[i], reclaimed |-> FALSE]]
    <3>1. n \in Nat /\ n <= Len(stream)
      BY WorkerConstants DEF TypeOK
    <3>2. \A i \in 1 .. n : stream[i] \in Messages
      BY <3>1 DEF TypeOK
    <3>3. \A i \in 1 .. n : [m |-> stream[i], reclaimed |-> FALSE] \in Deliveries
      BY <3>2 DEF Deliveries
    <3>4. b \in Seq(Deliveries)
      BY <3>1, <3>3
    <3>5. worker' = [worker EXCEPT ![w] = [me EXCEPT !.batch = b]]
      BY <2>1 DEF Read, me
    <3> HIDE DEF b
    <3> QED BY <3>4, <3>5, <2>0, UpdateType, PutType
  <2>2. CASE Reclaim(w)
    <3>1. PICK q \in [1 .. Cardinality(idle) -> idle] :
             worker' = [worker EXCEPT ![w].batch =
                          [i \in DOMAIN q |-> [m |-> q[i], reclaimed |-> TRUE]]]
      BY <2>2 DEF Reclaim
    <3> DEFINE b == [i \in DOMAIN q |-> [m |-> q[i], reclaimed |-> TRUE]]
    <3>2. Cardinality(idle) \in Nat
      <4>1. IsFiniteSet(Messages)
        BY FS_Interval, WorkerConstants DEF Messages
      <4>2. IsFiniteSet(idle)
        BY <4>1, FS_Subset DEF TypeOK
      <4> QED BY <4>2, FS_CardinalityType
    <3>3. \A i \in DOMAIN q : [m |-> q[i], reclaimed |-> TRUE] \in Deliveries
      BY DEF TypeOK, Deliveries
    <3>4. b \in Seq(Deliveries)
      BY <3>2, <3>3
    <3>5. worker' = [worker EXCEPT ![w] = [me EXCEPT !.batch = b]]
      BY <3>1 DEF me
    <3> HIDE DEF b
    <3> QED BY <3>4, <3>5, <2>0, UpdateType, PutType
  <2>3. CASE Dispatch(w)
    <3> DEFINE d == Head(me.batch)
               rest == Tail(me.batch)
    <3>1. d \in Deliveries /\ rest \in Seq(Deliveries)
      BY <2>3, <2>0 DEF Dispatch, me
    <3>2. d.m \in Messages
      BY <3>1 DEF Deliveries
    <3>3. DispatchTo(d) \in PCs
      BY PointsTyped, SMTT(40) DEF DispatchTo
    <3>4. Free(rest) \in WorkerStates
      BY <3>1, FreeType, ZenonT(60)
    <3>5. [Free(rest) EXCEPT !.pc = DispatchTo(d), !.m = d.m] \in WorkerStates
      BY <3>2, <3>3, <3>4, UpdateType, ZenonT(60)
    <3>6. \/ worker' = [worker EXCEPT ![w] = Free(rest)]
          \/ worker' = [worker EXCEPT ![w] =
                          [Free(rest) EXCEPT !.pc = DispatchTo(d), !.m = d.m]]
      BY <2>3 DEF Dispatch, me
    <3> QED BY <3>4, <3>5, <3>6, PutType
  <2>4. CASE Ack(w) \/ AckLost(w) \/ DatabaseError(w)
    <3>1. worker' = [worker EXCEPT ![w] = Free(me.batch)]
      BY <2>4, SMTT(40) DEF Ack, AckLost, DatabaseError, me
    <3> QED BY <3>1, <2>0, FreeType, PutType
  <2>5. CASE Inspect(w)
    <3>1. \/ worker' = [worker EXCEPT ![w] = [me EXCEPT !.pc = "ack"]]
          \/ worker' = [worker EXCEPT ![w] = [me EXCEPT !.pc = "enter", !.entry = runStatus]]
      BY <2>5 DEF Inspect, me
    <3>2. [me EXCEPT !.pc = "enter", !.entry = runStatus] \in WorkerStates
      BY <2>0, PointsTyped, UpdateType DEF TypeOK
    <3> QED BY <3>1, <3>2, <2>a, PointsTyped, PutType, SMTT(40)
  <2>6. CASE EnterLoad(w)
    <3>1. PICK readable \in BOOLEAN :
             LET seed == ~HasCheckpoint(worker[w].entry, readable)
             IN  worker' =
                   IF seed /\ worker[w].m # START
                   THEN [worker EXCEPT ![w].pc = "failure"]
                   ELSE IF runStatus \in TerminalRunStatuses
                   THEN [worker EXCEPT ![w].pc = "ack"]
                   ELSE [worker EXCEPT ![w].pc = "entering", ![w].seed = seed]
      BY <2>6 DEF EnterLoad
    <3> DEFINE seed == ~HasCheckpoint(worker[w].entry, readable)
    <3>2. seed \in BOOLEAN
      BY SMTT(40)
    <3> HIDE DEF seed
    <3>3. \/ worker' = [worker EXCEPT ![w] = [me EXCEPT !.pc = "failure"]]
          \/ worker' = [worker EXCEPT ![w] = [me EXCEPT !.pc = "ack"]]
          \/ worker' = [worker EXCEPT ![w] = [me EXCEPT !.pc = "entering", !.seed = seed]]
      BY <3>1 DEF me, seed
    <3>4. [me EXCEPT !.pc = "entering", !.seed = seed] \in WorkerStates
      BY <3>2, <2>0, PointsTyped, UpdateType
    <3> QED BY <3>3, <3>4, <2>a, PointsTyped, PutType
  <2>7. CASE Invoke(w)
    <3>1. \/ \E n \in Nodes : worker' = [worker EXCEPT ![w] =
                                  [me EXCEPT !.pc = "node", !.node = n, !.step = 1]]
          \/ worker' = [worker EXCEPT ![w] = [me EXCEPT !.pc = "settle"]]
          \/ worker' = [worker EXCEPT ![w] = [me EXCEPT !.pc = "failure"]]
      BY <2>7, Constants, ZenonT(60) DEF Invoke, me
    <3>2. \A n \in Nodes : [me EXCEPT !.pc = "node", !.node = n, !.step = 1] \in WorkerStates
      <4>1. "node" \in PCs
        BY PointsTyped
      <4> QED BY <4>1, <2>0, UpdateType, Zenon
    <3> QED BY <3>1, <3>2, <2>a, PointsTyped, PutType
  <2>8. CASE NodeLoad(w)
    <3>1. \/ worker' = [worker EXCEPT ![w] = [me EXCEPT !.step = me.step + 1]]
          \/ worker' = [worker EXCEPT ![w] = [me EXCEPT !.pc = "txn", !.snap = Loaded]]
      BY <2>8 DEF NodeLoad, me
    <3>2. [me EXCEPT !.step = me.step + 1] \in WorkerStates
      BY <2>0, UpdateType
    <3> QED BY <3>1, <3>2, <2>b, PointsTyped, LoadedType, PutType
  <2>9. CASE NodeCommit(w)
    <3>1. worker' = [worker EXCEPT ![w] =
                       [me EXCEPT !.pc = "node", !.step = me.step + 1, !.snap = Unloaded]]
      BY <2>9 DEF NodeCommit, me
    <3>2. [me EXCEPT !.pc = "node", !.step = me.step + 1, !.snap = Unloaded] \in WorkerStates
      BY <2>0, PointsTyped, Constants, UpdateType
    <3> QED BY <3>1, <3>2, PutType
  <2>10. CASE NodeReturn(w)
    <3>1. \/ worker' = [worker EXCEPT ![w] = [me EXCEPT !.pc = "settle"]]
          \/ \E n \in Nodes : worker' = [worker EXCEPT ![w] = [me EXCEPT !.node = n, !.step = 1]]
      <4>1. Edges[me.node] \subseteq Nodes \cup {"END"}
        BY <2>0, GraphConstants DEF WorkerStates
      <4> QED BY <4>1, <2>10 DEF NodeReturn, me
    <3>2. \A n \in Nodes : [me EXCEPT !.node = n, !.step = 1] \in WorkerStates
      BY <2>0, UpdateType, Zenon
    <3> QED BY <3>1, <3>2, <2>a, PointsTyped, PutType
  <2>11. CASE SettleLoad(w)
    <3>1. PICK pc \in {"failing", "tearing", "orphaning"} :
             worker' = [worker EXCEPT ![w] = [me EXCEPT !.pc = pc, !.snap = Loaded]]
      BY <2>11 DEF SettleLoad, me
    <3> QED BY <3>1, <2>b, PointsTyped, LoadedType, PutType
  <2>12. CASE MonitorCancel(w)
    <3>1. worker' = [worker EXCEPT ![w] = [Free(me.batch) EXCEPT !.pc = "teardown", !.m = me.m]]
      BY <2>12, SMTT(40) DEF MonitorCancel, me
    <3>2. Free(me.batch) \in WorkerStates
      BY <2>0, FreeType, SMTT(40)
    <3>3. [Free(me.batch) EXCEPT !.pc = "teardown", !.m = me.m] \in WorkerStates
      BY <3>2, <2>0, PointsTyped, UpdateType
    <3> QED BY <3>1, <3>3, PutType
  <2>13. CASE Crash(w) \/ Restart(w)
    <3>0. << >> \in Seq(Deliveries)
      BY SMTT(40)
    <3>1. Free(<< >>) \in WorkerStates
      BY <3>0, FreeType
    <3>2. [Free(<< >>) EXCEPT !.pc = "down"] \in WorkerStates
      BY <3>1, PointsTyped, UpdateType
    <3>3. \/ worker' = [worker EXCEPT ![w] = Free(<< >>)]
          \/ worker' = [worker EXCEPT ![w] = [Free(<< >>) EXCEPT !.pc = "down"]]
      BY <2>13 DEF Crash, Restart
    <3> QED BY <3>1, <3>2, <3>3, PutType, SMTT(40)
  <2>14. CASE EnterCommit(w) \/ NodeRaise(w) \/ SettleInterrupt(w) \/ SettleComplete(w) \/ Settle(w)
    <3>1. \E pc \in PCs : Goto(w, pc)
      BY <2>14, PointsTyped DEF EnterCommit, NodeRaise, SettleInterrupt, SettleComplete, Settle
    <3> QED BY <3>1, <2>go
  <2>15. CASE NodeRefused(w) \/ FailureCommit(w) \/ TeardownCommit(w) \/ OrphanCommit(w)
    <3>1. \E pc \in PCs : EndTxn(w, pc)
      BY <2>15, PointsTyped DEF NodeRefused, FailureCommit, TeardownCommit, OrphanCommit
    <3> QED BY <3>1, <2>end
  <2>16. CASE MonitorBeat(w)
    BY <2>16 DEF MonitorBeat, TypeOK
  <2> QED
    BY <1>2, <2>1, <2>2, <2>3, <2>4, <2>5, <2>6, <2>7, <2>8, <2>9, <2>10, <2>11, <2>12, <2>13,
       <2>14, <2>15, <2>16, SMTT(40)
    DEF WorkerStep, MonitorStep, Trouble
<1>3. CASE ApiStep
  BY <1>3, <1>1 DEF ApiStep, Publish, LosePublish, CancelLoad, CancelCommit, Resolve
<1>4. CASE Time
  BY <1>4, <1>1 DEF Time, HeartbeatAges, BecomeIdle
<1> QED
  BY <1>1, <1>2, <1>3, <1>4 DEF Next, vars

LEMMA TransitionTyped ==
    ASSUME NEW from \in Statuses, NEW to, TransitionAllowed(from, to)
    PROVE  to \in Statuses
  BY DEF TransitionAllowed, ALLOWED_TRANSITIONS, Statuses

LEMMA StatusesTyped ==
    /\ {"CANCELLING", "FAILED", "CANCELLED", "COMPLETED"} \subseteq Statuses
    /\ {"running", "interrupted", "completed", "failed", "cancelled"} \subseteq RunStatuses
  BY DEF Statuses, RunStatuses

LEMMA TypeStep == TypeOK /\ [Next]_vars => TypeOK'
<1> SUFFICES ASSUME TypeOK, [Next]_vars
             PROVE  TypeOK'
  OBVIOUS
<1>w. worker' \in [Workers -> WorkerStates]
  BY WorkerTyped
<1>1. CASE UNCHANGED vars
  BY <1>1 DEF TypeOK, vars
<1>2. CASE ApiStep
  <2>1. ASSUME NEW m \in Messages, Publish(m) \/ LosePublish(m)
        PROVE  TypeOK'
    <3>1. toPublish' \subseteq Messages
      BY <2>1 DEF TypeOK, Publish, LosePublish
    <3>2. stream' \in Seq(Messages)
      <4>1. stream' = stream \/ stream' = Append(stream, m)
        BY <2>1 DEF Publish, LosePublish
      <4> QED BY <4>1 DEF TypeOK
    <3>3. faults' \in Nat
      BY <2>1 DEF TypeOK, Publish, LosePublish, Fault
    <3> QED BY <1>w, <2>1, <3>1, <3>2, <3>3 DEF TypeOK, Publish, LosePublish, rowVars
  <2>2. ASSUME NEW o \in Operators, CancelLoad(o) \/ CancelCommit(o)
        PROVE  TypeOK'
    <3>1. /\ assessment' \in Statuses
          /\ cancelSeen' \in [Operators -> Statuses \cup {"none"}]
      BY <2>2, StatusesTyped DEF TypeOK, CancelLoad, CancelCommit, rowVars
    <3> QED BY <1>w, <2>2, <3>1 DEF TypeOK, CancelLoad, CancelCommit, rowVars, streamVars
  <2>3. ASSUME NEW i \in 1 .. MaxApprovals, NEW d \in {"approved", "rejected"}, Resolve(i, d)
        PROVE  TypeOK'
    <3>1. approvals' \in Seq({"pending", "approved", "rejected"}) /\ Len(approvals') = Len(approvals)
      BY <2>3 DEF TypeOK, Resolve
    <3>2. i \in Messages
      BY WorkerConstants DEF Messages
    <3> QED BY <1>w, <2>3, <3>1, <3>2 DEF TypeOK, Resolve
  <2> QED BY <1>2, <2>1, <2>2, <2>3 DEF ApiStep
<1>3. ASSUME NEW w \in Workers,
             WorkerStep(w) \/ MonitorStep(w) \/ Trouble(w)
      PROVE  TypeOK'
  <2>0. /\ worker[w] \in WorkerStates
        /\ worker[w].m \in Messages
        /\ worker[w].snap.assessment \in Statuses
    BY DEF TypeOK, WorkerStates, Snapshots
  <2>1. CASE Read(w)
    <3>1. stream' \in Seq(Messages)
      BY <2>1, WorkerConstants, SMTT(40) DEF TypeOK, Read
    <3> QED BY <1>w, <2>1, <3>1 DEF TypeOK, Read, rowVars
  <2>2. CASE Reclaim(w)
    BY <1>w, <2>2 DEF TypeOK, Reclaim, rowVars
  <2>3. CASE Dispatch(w) \/ Inspect(w) \/ NodeLoad(w) \/ NodeRefused(w) \/ Settle(w)
             \/ SettleLoad(w) \/ MonitorCancel(w) \/ NodeRaise(w) \/ Restart(w)
    <3>1. UNCHANGED <<rowVars, streamVars, cancelSeen, faults>>
      BY <2>3 DEF Dispatch, Inspect, NodeLoad, NodeRefused, Settle, SettleLoad, MonitorCancel,
                  NodeRaise, Restart
    <3> QED BY <1>w, <3>1 DEF TypeOK, rowVars, streamVars
  <2>4. CASE Ack(w)
    BY <1>w, <2>0, <2>4 DEF TypeOK, Ack, rowVars
  <2>5. CASE AckLost(w) \/ DatabaseError(w) \/ Crash(w) \/ EnterLoad(w)
    <3>1. UNCHANGED <<rowVars, streamVars, cancelSeen>> /\ faults' \in Nat
      BY <2>5 DEF TypeOK, AckLost, DatabaseError, Crash, EnterLoad, Fault
    <3> QED BY <1>w, <3>1 DEF TypeOK, rowVars, streamVars
  <2>6. CASE EnterCommit(w) \/ SettleInterrupt(w) \/ SettleComplete(w) \/ OrphanCommit(w)
             \/ MonitorBeat(w)
    <3>1. /\ UNCHANGED <<assessment, checkpoint, approvals, scanned, streamVars, cancelSeen, faults>>
          /\ runStatus' \in RunStatuses
          /\ heartbeat' \in {"none", "fresh", "stale"}
      BY <2>6, StatusesTyped
      DEF TypeOK, EnterCommit, SettleInterrupt, SettleComplete, OrphanCommit, MonitorBeat
    <3> QED BY <1>w, <3>1 DEF TypeOK, streamVars
  <2>7. CASE FailureCommit(w) \/ TeardownCommit(w)
    <3>1. /\ UNCHANGED <<checkpoint, approvals, scanned, streamVars, cancelSeen, faults>>
          /\ assessment' \in Statuses
          /\ runStatus' \in RunStatuses
          /\ heartbeat' \in {"none", "fresh", "stale"}
      BY <2>7, StatusesTyped DEF TypeOK, FailureCommit, TeardownCommit
    <3> QED BY <1>w, <3>1 DEF TypeOK, streamVars
  <2>8. CASE Invoke(w)
    <3>1. checkpoint' \in Nodes \cup {"none", "END"}
      BY <2>8, Constants DEF TypeOK, Invoke
    <3> QED BY <1>w, <2>8, <3>1 DEF TypeOK, Invoke, streamVars
  <2>9. CASE NodeReturn(w)
    <3>1. Edges[worker[w].node] \subseteq Nodes \cup {"END"}
      BY <2>0, GraphConstants DEF WorkerStates
    <3>2. checkpoint' \in Nodes \cup {"none", "END"}
      BY <2>9, <3>1 DEF NodeReturn
    <3> QED BY <1>w, <2>9, <3>2 DEF TypeOK, NodeReturn, streamVars
  <2>10. CASE NodeCommit(w)
    <3>1. assessment' \in Statuses
      BY <2>10, <2>0, TransitionTyped DEF TypeOK, NodeCommit
    <3>2. /\ approvals' \in Seq({"pending", "approved", "rejected"})
          /\ Len(approvals') <= MaxApprovals
      <4>1. \/ UNCHANGED approvals
            \/ approvals' = Append(approvals, "pending") /\ Len(approvals) < MaxApprovals
        BY <2>10 DEF NodeCommit
      <4> QED BY <4>1, WorkerConstants, SMTT(40) DEF TypeOK
    <3>3. scanned' \in BOOLEAN
      BY <2>10 DEF NodeCommit
    <3> QED BY <1>w, <2>10, <3>1, <3>2, <3>3, SMTT(40) DEF TypeOK, NodeCommit, streamVars
  <2> QED
    BY <1>3, <2>1, <2>2, <2>3, <2>4, <2>5, <2>6, <2>7, <2>8, <2>9, <2>10
    DEF WorkerStep, MonitorStep, Trouble
<1>4. CASE Time
  BY <1>w, <1>4 DEF TypeOK, Time, HeartbeatAges, BecomeIdle, rowVars, streamVars
<1> QED
  BY <1>1, <1>2, <1>3, <1>4 DEF Next

LEMMA TypeInit == Init => TypeOK
<1> SUFFICES ASSUME Init PROVE TypeOK
  OBVIOUS
<1>1. Free(<< >>) \in WorkerStates
  <2>1. << >> \in Seq(Deliveries)
    OBVIOUS
  <2> QED BY <2>1, FreeType
<1>2. worker \in [Workers -> WorkerStates]
  BY <1>1 DEF Init
<1>3. assessment \in Statuses /\ runStatus \in RunStatuses
  BY DEF Init, Statuses, RunStatuses
<1>4. pel \in [Messages -> Workers \cup {NoOne}] /\ toPublish \subseteq Messages
  BY Constants DEF Init
<1>5. /\ approvals \in Seq({"pending", "approved", "rejected"})
      /\ Len(approvals) <= MaxApprovals
      /\ stream \in Seq(Messages)
  BY WorkerConstants DEF Init
<1>6. cancelSeen \in [Operators -> Statuses \cup {"none"}]
  BY DEF Init
<1>7. /\ heartbeat \in {"none", "fresh", "stale"}
      /\ checkpoint \in Nodes \cup {"none", "END"}
      /\ scanned \in BOOLEAN
      /\ idle \subseteq Messages
      /\ faults \in Nat
  BY DEF Init
<1> QED
  BY <1>2, <1>3, <1>4, <1>5, <1>6, <1>7 DEF TypeOK

-----------------------------------------------------------------------------
(* Type correctness                                                        *)

\* The rows, the stream and the processes stay of their kinds, for every graph
\* and every number of workers, operators, approvals and faults.
THEOREM TypeCorrect == Spec => []TypeOK
  BY TypeInit, TypeStep, PTL DEF Spec

-----------------------------------------------------------------------------
(* No scan without a grant                                                 *)

Approved == \E i \in DOMAIN approvals : approvals[i] = "approved"

\* A grant is for ever: rows are only appended, and resolved once.
LEMMA ApprovedStays == TypeOK /\ Approved /\ [Next]_vars => Approved'
<1> SUFFICES ASSUME TypeOK, Approved, [Next]_vars
             PROVE  Approved'
  OBVIOUS
<1>1. CASE UNCHANGED approvals
  BY <1>1 DEF Approved
<1>2. PICK i \in DOMAIN approvals : approvals[i] = "approved"
  BY DEF Approved
<1>3. ASSUME NEW j \in 1 .. MaxApprovals, NEW d \in {"approved", "rejected"}, Resolve(j, d)
      PROVE  Approved'
  <2>1. i # j /\ approvals' = [approvals EXCEPT ![j] = d]
    BY <1>2, <1>3 DEF Resolve
  <2> QED BY <1>2, <2>1 DEF Approved, TypeOK
<1>4. ASSUME NEW w \in Workers, NodeCommit(w)
      PROVE  Approved'
  <2>1. UNCHANGED approvals \/ approvals' = Append(approvals, "pending")
    BY <1>4, SMTT(40) DEF NodeCommit
  <2>2. i \in DOMAIN approvals' /\ approvals'[i] = approvals[i]
    BY <2>1, SMTT(40) DEF TypeOK
  <2> QED BY <1>2, <2>2 DEF Approved
<1> USE DEF rowVars, streamVars
<1>5. CASE ApiStep
  BY <1>5, <1>1, <1>3, SMTT(40) DEF ApiStep, Publish, LosePublish, CancelLoad, CancelCommit
<1>6. ASSUME NEW w \in Workers, WorkerStep(w) \/ MonitorStep(w) \/ Trouble(w)
      PROVE  Approved'
  BY <1>6, <1>1, <1>4
  DEF WorkerStep, Read, Reclaim, Dispatch, Ack, Inspect, EnterLoad, EnterCommit, Invoke, NodeLoad,
      NodeRefused, NodeReturn, Settle, SettleInterrupt, SettleComplete, SettleLoad, FailureCommit,
      TeardownCommit, OrphanCommit, MonitorStep, MonitorBeat, MonitorCancel, Trouble, NodeRaise,
      AckLost, DatabaseError, Crash, Restart
<1>7. CASE Time
  BY <1>7, <1>1 DEF Time, HeartbeatAges, BecomeIdle
<1> QED
  BY <1>1, <1>5, <1>6, <1>7 DEF Next, vars

\* What a process holds of the rows is what it held, nothing, or what they are now.
LEMMA SnapshotSteps ==
    TypeOK /\ [Next]_vars =>
        \A v \in Workers : worker'[v].snap \in {worker[v].snap, Unloaded, Loaded}
<1> SUFFICES ASSUME TypeOK, [Next]_vars, NEW v \in Workers
             PROVE  worker'[v].snap \in {worker[v].snap, Unloaded, Loaded}
  OBVIOUS
<1>0. worker \in [Workers -> WorkerStates] /\ worker[v] \in WorkerStates
  BY DEF TypeOK
<1>1. CASE UNCHANGED worker
  BY <1>1
<1>3. ASSUME NEW w \in Workers, WorkerStep(w) \/ MonitorStep(w) \/ Trouble(w)
      PROVE  worker'[v].snap \in {worker[v].snap, Unloaded, Loaded}
  <2>0. worker[w] \in WorkerStates
    BY <1>0
  <2>1. CASE Read(w) \/ Reclaim(w)
    <3>1. \E batch : worker' = [worker EXCEPT ![w].batch = batch]
      BY <2>1 DEF Read, Reclaim
    <3> QED BY <1>0, <3>1 DEF WorkerStates
  <2>2. CASE Dispatch(w)
    BY <1>0, <2>2 DEF Dispatch, Free
  <2>3. CASE Ack(w) \/ AckLost(w) \/ DatabaseError(w)
    BY <1>0, <2>3 DEF Ack, AckLost, DatabaseError, Free
  <2>4. CASE MonitorCancel(w)
    BY <1>0, <2>4 DEF MonitorCancel, Free
  <2>5. CASE Crash(w) \/ Restart(w)
    BY <1>0, <2>5 DEF Crash, Restart, Free
  <2>6. CASE Inspect(w)
    BY <1>0, <2>6 DEF Inspect, WorkerStates
  <2>7. CASE EnterLoad(w)
    BY <1>0, <2>7 DEF EnterLoad, WorkerStates
  <2>8. CASE Invoke(w)
    <3>1. CASE \E n : worker' = [worker EXCEPT ![w] =
                                   [worker[w] EXCEPT !.pc = "node", !.node = n, !.step = 1]]
      <4>1. \A n : [worker[w] EXCEPT !.pc = "node", !.node = n, !.step = 1].snap = worker[w].snap
        BY <2>0 DEF WorkerStates
      <4> QED BY <1>0, <3>1, <4>1
    <3>2. CASE \E pc : worker' = [worker EXCEPT ![w].pc = pc]
      BY <1>0, <3>2 DEF WorkerStates
    <3> QED BY <2>8, <3>1, <3>2, ZenonT(60) DEF Invoke
  <2>9. CASE NodeLoad(w)
    BY <1>0, <2>9 DEF NodeLoad, WorkerStates
  <2>10. CASE NodeCommit(w)
    BY <1>0, <2>10 DEF NodeCommit, WorkerStates
  <2>11. CASE NodeReturn(w)
    BY <1>0, <2>11 DEF NodeReturn, WorkerStates
  <2>12. CASE SettleLoad(w)
    BY <1>0, <2>12 DEF SettleLoad, WorkerStates
  <2>13. CASE EnterCommit(w) \/ NodeRaise(w) \/ SettleInterrupt(w) \/ SettleComplete(w) \/ Settle(w)
    <3>1. \E pc : Goto(w, pc)
      BY <2>13 DEF EnterCommit, NodeRaise, SettleInterrupt, SettleComplete, Settle
    <3> QED BY <1>0, <3>1 DEF Goto, WorkerStates
  <2>14. CASE NodeRefused(w) \/ FailureCommit(w) \/ TeardownCommit(w) \/ OrphanCommit(w)
    <3>1. \E pc : EndTxn(w, pc)
      BY <2>14 DEF NodeRefused, FailureCommit, TeardownCommit, OrphanCommit
    <3> QED BY <1>0, <3>1 DEF EndTxn, WorkerStates
  <2>15. CASE MonitorBeat(w)
    BY <2>15, SMTT(40) DEF MonitorBeat
  <2> QED
    BY <1>3, <2>1, <2>2, <2>3, <2>4, <2>5, <2>6, <2>7, <2>8, <2>9, <2>10, <2>11, <2>12, <2>13,
       <2>14, <2>15
    DEF WorkerStep, MonitorStep, Trouble
<1>4. CASE ApiStep
  BY <1>4, <1>1, SMTT(40) DEF ApiStep, Publish, LosePublish, CancelLoad, CancelCommit, Resolve
<1>5. CASE Time
  BY <1>5, <1>1, SMTT(40) DEF Time, HeartbeatAges, BecomeIdle
<1> QED
  BY <1>1, <1>3, <1>4, <1>5 DEF Next, vars

\* A scanner is started only by a process that holds a grant.
LEMMA ScanSteps ==
    [Next]_vars /\ scanned' =>
        scanned \/ \E w \in Workers : worker[w].snap.granted
<1> SUFFICES ASSUME [Next]_vars
             PROVE  UNCHANGED scanned \/ \E w \in Workers : NodeCommit(w)
  BY ZenonT(60) DEF NodeCommit
<1> USE DEF rowVars, streamVars
<1>1. CASE ApiStep
  BY <1>1, SMTT(40) DEF ApiStep, Publish, LosePublish, CancelLoad, CancelCommit, Resolve
<1>2. ASSUME NEW w \in Workers, WorkerStep(w) \/ MonitorStep(w) \/ Trouble(w), ~NodeCommit(w)
      PROVE  UNCHANGED scanned
  BY <1>2
  DEF WorkerStep, Read, Reclaim, Dispatch, Ack, Inspect, EnterLoad, EnterCommit, Invoke, NodeLoad,
      NodeRefused, NodeReturn, Settle, SettleInterrupt, SettleComplete, SettleLoad, FailureCommit,
      TeardownCommit, OrphanCommit, MonitorStep, MonitorBeat, MonitorCancel, Trouble, NodeRaise,
      AckLost, DatabaseError, Crash, Restart
<1>3. CASE Time
  BY <1>3 DEF Time, HeartbeatAges, BecomeIdle
<1> QED
  BY <1>1, <1>2, <1>3, SMTT(40) DEF Next, vars

\* ScanOnlyUnderGrant is not inductive: a process that loaded a grant is about to
\* set `scanned'.  What it holds must be true, and stay true.
GrantInv ==
    /\ ScanOnlyUnderGrant
    /\ \A w \in Workers : worker[w].snap.granted => Approved

\* No scanner is started without a granted approval, for every graph, any number
\* of workers and operators, and any crashes, lost acknowledgements and
\* redeliveries (execute_scanners re-reads granted_approval in the transaction
\* that authorizes the scan).
THEOREM ScanOnlyUnderGrantHolds == Spec => []ScanOnlyUnderGrant
<1>1. Init => GrantInv
  BY DEF Init, GrantInv, ScanOnlyUnderGrant, Free, Unloaded
<1>2. TypeOK /\ TypeOK' /\ GrantInv /\ [Next]_vars => GrantInv'
  <2> SUFFICES ASSUME TypeOK, TypeOK', GrantInv, [Next]_vars
               PROVE  GrantInv'
    OBVIOUS
  <2>1. Approved => Approved'
    BY ApprovedStays
  <2>2. scanned' => Approved'
    BY <2>1, ScanSteps DEF GrantInv, ScanOnlyUnderGrant, Approved
  <2>3. ASSUME NEW w \in Workers, worker'[w].snap.granted
        PROVE  Approved'
    <3>1. worker'[w].snap \in {worker[w].snap, Unloaded, Loaded}
      BY SnapshotSteps
    <3>2. CASE worker'[w].snap = worker[w].snap
      BY <2>1, <2>3, <3>2 DEF GrantInv
    <3>3. CASE worker'[w].snap = Unloaded
      BY <2>3, <3>3 DEF Unloaded
    <3>4. CASE worker'[w].snap = Loaded
      BY <2>1, <2>3, <3>4 DEF Loaded, Approved
    <3> QED BY <3>1, <3>2, <3>3, <3>4
  <2> QED BY <2>2, <2>3 DEF GrantInv, ScanOnlyUnderGrant, Approved
<1>3. GrantInv => ScanOnlyUnderGrant
  BY DEF GrantInv
<1> QED
  BY <1>1, <1>2, <1>3, TypeCorrect, PTL DEF Spec

-----------------------------------------------------------------------------
(* The system implements AssessmentRow                                     *)

\* Program points inside a transaction that may change the status.
Txn == {"txn", "failing", "tearing"}

Held(r) == IF r.pc \in Txn THEN r.snap.assessment ELSE "none"

Seen == [w \in Operators \cup Workers |-> SeenBy(w)]

\* Every other step of a process leaves it outside such a transaction.
LEMMA Moves ==
    ASSUME TypeOK, NEW w \in Workers, WorkerStep(w) \/ MonitorStep(w) \/ Trouble(w)
    PROVE  \/ UNCHANGED worker
           \/ NodeLoad(w)
           \/ SettleLoad(w)
           \/ \E r : worker' = [worker EXCEPT ![w] = r] /\ r.pc \notin Txn
<1> DEFINE me == worker[w]
           Leaves == \E r : worker' = [worker EXCEPT ![w] = r] /\ r.pc \notin Txn
<1>0. me \in WorkerStates
  BY DEF TypeOK
<1>1. CASE Read(w) \/ Reclaim(w)
  <2>1. PICK b : worker' = [worker EXCEPT ![w] = [me EXCEPT !.batch = b]]
    BY <1>1 DEF Read, Reclaim
  <2>2. me.pc = "free"
    BY <1>1 DEF Read, Reclaim
  <2>3. [me EXCEPT !.batch = b].pc \notin Txn
    BY <1>0, <2>2 DEF WorkerStates, Txn
  <2> QED BY <2>1, <2>3
<1>2. CASE Dispatch(w)
  <2> DEFINE d == Head(me.batch)
             rest == Tail(me.batch)
  <2>1. \/ worker' = [worker EXCEPT ![w] = Free(rest)]
        \/ worker' = [worker EXCEPT ![w] = [Free(rest) EXCEPT !.pc = DispatchTo(d), !.m = d.m]]
    BY <1>2 DEF Dispatch
  <2>2. Free(rest).pc \notin Txn
    BY DEF Free, Txn
  <2>3. DispatchTo(d) \notin Txn
    BY DEF DispatchTo, Txn
  <2>4. [Free(rest) EXCEPT !.pc = DispatchTo(d), !.m = d.m].pc \notin Txn
    BY <2>3 DEF Free
  <2> QED BY <2>1, <2>2, <2>4
<1>3. CASE Ack(w) \/ AckLost(w) \/ DatabaseError(w)
  <2>1. worker' = [worker EXCEPT ![w] = Free(me.batch)]
    BY <1>3 DEF Ack, AckLost, DatabaseError
  <2>2. Free(me.batch).pc \notin Txn
    BY DEF Free, Txn
  <2> QED BY <2>1, <2>2
<1>4. CASE Inspect(w)
  <2>1. \/ worker' = [worker EXCEPT ![w] = [me EXCEPT !.pc = "ack"]]
        \/ worker' = [worker EXCEPT ![w] = [me EXCEPT !.pc = "enter", !.entry = runStatus]]
    BY <1>4 DEF Inspect
  <2>2. /\ [me EXCEPT !.pc = "ack"].pc \notin Txn
        /\ [me EXCEPT !.pc = "enter", !.entry = runStatus].pc \notin Txn
    BY <1>0 DEF WorkerStates, Txn
  <2> QED BY <2>1, <2>2
<1>5. CASE EnterLoad(w)
  <2>1. \/ worker' = [worker EXCEPT ![w] = [me EXCEPT !.pc = "failure"]]
        \/ worker' = [worker EXCEPT ![w] = [me EXCEPT !.pc = "ack"]]
        \/ \E b : worker' = [worker EXCEPT ![w] = [me EXCEPT !.pc = "entering", !.seed = b]]
    BY <1>5, ZenonT(60) DEF EnterLoad
  <2>2. /\ [me EXCEPT !.pc = "failure"].pc \notin Txn
        /\ [me EXCEPT !.pc = "ack"].pc \notin Txn
        /\ \A b : [me EXCEPT !.pc = "entering", !.seed = b].pc \notin Txn
    BY <1>0, SMTT(40) DEF WorkerStates, Txn
  <2> QED BY <2>1, <2>2
<1>6. CASE Invoke(w)
  <2>1. \/ \E n : worker' = [worker EXCEPT ![w] =
                               [me EXCEPT !.pc = "node", !.node = n, !.step = 1]]
        \/ worker' = [worker EXCEPT ![w] = [me EXCEPT !.pc = "settle"]]
        \/ worker' = [worker EXCEPT ![w] = [me EXCEPT !.pc = "failure"]]
    BY <1>6, ZenonT(60) DEF Invoke
  <2>2. /\ \A n : [me EXCEPT !.pc = "node", !.node = n, !.step = 1].pc \notin Txn
        /\ [me EXCEPT !.pc = "settle"].pc \notin Txn
        /\ [me EXCEPT !.pc = "failure"].pc \notin Txn
    BY <1>0 DEF WorkerStates, Txn
  <2> QED BY <2>1, <2>2
<1>7. CASE NodeCommit(w)
  <2>1. worker' = [worker EXCEPT ![w] =
                     [me EXCEPT !.pc = "node", !.step = me.step + 1, !.snap = Unloaded]]
    BY <1>7 DEF NodeCommit
  <2>2. [me EXCEPT !.pc = "node", !.step = me.step + 1, !.snap = Unloaded].pc \notin Txn
    BY <1>0 DEF WorkerStates, Txn
  <2> QED BY <2>1, <2>2
<1>8. CASE NodeReturn(w)
  <2>1. \/ worker' = [worker EXCEPT ![w] = [me EXCEPT !.pc = "settle"]]
        \/ \E n : worker' = [worker EXCEPT ![w] = [me EXCEPT !.node = n, !.step = 1]]
    BY <1>8 DEF NodeReturn
  <2>2. me.pc = "node"
    BY <1>8 DEF NodeReturn
  <2>3. /\ [me EXCEPT !.pc = "settle"].pc \notin Txn
        /\ \A n : [me EXCEPT !.node = n, !.step = 1].pc \notin Txn
    BY <1>0, <2>2 DEF WorkerStates, Txn
  <2> QED BY <2>1, <2>3
<1>9. CASE MonitorCancel(w)
  <2>1. worker' = [worker EXCEPT ![w] = [Free(me.batch) EXCEPT !.pc = "teardown", !.m = me.m]]
    BY <1>9 DEF MonitorCancel
  <2>2. [Free(me.batch) EXCEPT !.pc = "teardown", !.m = me.m].pc \notin Txn
    BY DEF Free, Txn
  <2> QED BY <2>1, <2>2
<1>10. CASE Crash(w) \/ Restart(w)
  <2>1. \/ worker' = [worker EXCEPT ![w] = Free(<< >>)]
        \/ worker' = [worker EXCEPT ![w] = [Free(<< >>) EXCEPT !.pc = "down"]]
    BY <1>10 DEF Crash, Restart
  <2>2. Free(<< >>).pc \notin Txn /\ [Free(<< >>) EXCEPT !.pc = "down"].pc \notin Txn
    BY DEF Free, Txn
  <2> QED BY <2>1, <2>2
<1>11. CASE EnterCommit(w) \/ NodeRaise(w) \/ SettleInterrupt(w) \/ SettleComplete(w) \/ Settle(w)
  <2>1. PICK pc : pc \notin Txn /\ worker' = [worker EXCEPT ![w] = [me EXCEPT !.pc = pc]]
    BY <1>11 DEF EnterCommit, NodeRaise, SettleInterrupt, SettleComplete, Settle, Goto, Txn
  <2>2. [me EXCEPT !.pc = pc].pc \notin Txn
    BY <1>0, <2>1 DEF WorkerStates
  <2> QED BY <2>1, <2>2
<1>12. CASE NodeRefused(w) \/ FailureCommit(w) \/ TeardownCommit(w) \/ OrphanCommit(w)
  <2>1. PICK pc : /\ pc \notin Txn
                  /\ worker' = [worker EXCEPT ![w] = [me EXCEPT !.pc = pc, !.snap = Unloaded]]
    BY <1>12, ZenonT(60) DEF NodeRefused, FailureCommit, TeardownCommit, OrphanCommit, EndTxn, Txn
  <2>2. [me EXCEPT !.pc = pc, !.snap = Unloaded].pc \notin Txn
    BY <1>0, <2>1 DEF WorkerStates
  <2> QED BY <2>1, <2>2
<1>13. CASE MonitorBeat(w)
  BY <1>13 DEF MonitorBeat
<1> QED
  BY <1>1, <1>2, <1>3, <1>4, <1>5, <1>6, <1>7, <1>8, <1>9, <1>10, <1>11, <1>12, <1>13
  DEF WorkerStep, MonitorStep, Trouble

\* A node's open transaction asks for one of its targets.
TargetInv ==
    \A w \in Workers : worker[w].pc = "txn" =>
        worker[w].step \in DOMAIN Targets[worker[w].node]

LEMMA TargetStep == TypeOK /\ TargetInv /\ [Next]_vars => TargetInv'
<1> SUFFICES ASSUME TypeOK, TargetInv, [Next]_vars, NEW v \in Workers, worker'[v].pc = "txn"
             PROVE  worker'[v].step \in DOMAIN Targets[worker'[v].node]
  BY DEF TargetInv
<1>0. worker \in [Workers -> WorkerStates] /\ worker[v] \in WorkerStates
  BY DEF TypeOK
<1>1. CASE worker'[v] = worker[v]
  BY <1>1 DEF TargetInv
<1>2. ASSUME NEW w \in Workers, NEW r, worker' = [worker EXCEPT ![w] = r], r.pc # "txn"
      PROVE  worker'[v] = worker[v]
  BY <1>0, <1>2
<1>3. ASSUME NEW w \in Workers, NodeLoad(w)
      PROVE  worker'[v].step \in DOMAIN Targets[worker'[v].node]
  <2> DEFINE me == worker[w]
  <2>0. me \in WorkerStates /\ me.pc = "node" /\ me.step \in Nat \ {0} /\ me.node \in Nodes
    BY <1>3 DEF TypeOK, WorkerStates, NodeLoad
  <2>1. \/ worker' = [worker EXCEPT ![w] = [me EXCEPT !.step = me.step + 1]]
        \/ worker' = [worker EXCEPT ![w] = [me EXCEPT !.pc = "txn", !.snap = Loaded]]
    BY <1>3 DEF NodeLoad
  <2>2. /\ [me EXCEPT !.step = me.step + 1].pc # "txn"
        /\ [me EXCEPT !.pc = "txn", !.snap = Loaded].step = me.step
        /\ [me EXCEPT !.pc = "txn", !.snap = Loaded].node = me.node
    BY <2>0 DEF WorkerStates
  <2>3. me.step \in DOMAIN Targets[me.node]
    <3>1. Targets[me.node] \in Seq(Statuses \ {"CREATED", "CANCELLING"})
      BY <2>0, GraphConstants
    <3>2. me.step <= Len(Targets[me.node])
      BY <1>3 DEF NodeLoad
    <3> QED BY <2>0, <3>1, <3>2
  <2> HIDE DEF me
  <2> QED BY <1>0, <1>1, <2>1, <2>2, <2>3
<1>4. ASSUME NEW w \in Workers, SettleLoad(w)
      PROVE  worker'[v] = worker[v]
  <2> DEFINE me == worker[w]
  <2>1. PICK pc \in {"failing", "tearing", "orphaning"} :
           worker' = [worker EXCEPT ![w] = [me EXCEPT !.pc = pc, !.snap = Loaded]]
    BY <1>4 DEF SettleLoad
  <2>2. [me EXCEPT !.pc = pc, !.snap = Loaded].pc # "txn"
    BY <1>0 DEF WorkerStates
  <2> HIDE DEF me
  <2> QED BY <1>2, <2>1, <2>2
<1>5. ASSUME NEW w \in Workers, WorkerStep(w) \/ MonitorStep(w) \/ Trouble(w)
      PROVE  worker'[v].step \in DOMAIN Targets[worker'[v].node]
  BY <1>1, <1>2, <1>3, <1>4, <1>5, Moves DEF Txn
<1>6. CASE ApiStep
  BY <1>6, <1>1 DEF ApiStep, Publish, LosePublish, CancelLoad, CancelCommit, Resolve
<1>7. CASE Time
  BY <1>7, <1>1 DEF Time, HeartbeatAges, BecomeIdle
<1> QED
  BY <1>1, <1>5, <1>6, <1>7 DEF Next, vars

\* The three things a process does to its entry of the refinement mapping.
LEMMA SeenChanges ==
    ASSUME TypeOK, NEW w \in Workers, NEW r, worker' = [worker EXCEPT ![w] = r],
           UNCHANGED cancelSeen
    PROVE  Seen' = [Seen EXCEPT ![w] = Held(r)]
<1>1. \A o \in Operators : SeenBy(o)' = SeenBy(o)
  BY DEF SeenBy
<1>2. \A v \in Workers : v # w => SeenBy(v)' = SeenBy(v)
  BY WorkerConstants DEF SeenBy, TypeOK
<1>3. SeenBy(w)' = Held(r)
  BY WorkerConstants DEF SeenBy, Held, Txn, TypeOK
<1>4. w \notin Operators
  BY WorkerConstants
<1> QED
  BY <1>1, <1>2, <1>3, <1>4 DEF Seen

LEMMA SeenType ==
    ASSUME TypeOK, NEW w \in Workers
    PROVE  /\ Seen[w] = Held(worker[w])
           /\ worker[w].pc \in Txn => Seen[w] # "none"
           /\ Seen[w] = "none" \/ Seen[w] = worker[w].snap.assessment
<1>1. Seen[w] = Held(worker[w])
  BY WorkerConstants DEF Seen, SeenBy, Held, Txn
<1>2. worker[w].snap.assessment \in Statuses
  BY DEF TypeOK, WorkerStates, Snapshots
<1>3. "none" \notin Statuses
  BY DEF Statuses
<1> QED
  BY <1>1, <1>2, <1>3 DEF Held

\* AssessmentRow's copy of AssessmentStatus is this module's.
LEMMA SameTable ==
    /\ Row!Statuses = Statuses
    /\ \A from, to : Row!TransitionAllowed(from, to) <=> TransitionAllowed(from, to)
<1>1. Row!Statuses = Statuses
  BY DEF Row!Statuses, Statuses
<1>2. Row!ALLOWED_TRANSITIONS = ALLOWED_TRANSITIONS
  BY <1>1, Zenon DEF Row!ALLOWED_TRANSITIONS, ALLOWED_TRANSITIONS
<1> QED
  BY <1>1, <1>2 DEF Row!TransitionAllowed, TransitionAllowed

LEMMA LeaveStep ==
    ASSUME TypeOK, NEW w \in Workers, NEW r, worker' = [worker EXCEPT ![w] = r],
           r.pc \notin Txn, UNCHANGED <<assessment, cancelSeen>>
    PROVE  [Row!RowNext]_(Row!rowVars)
<1>1. Seen' = [Seen EXCEPT ![w] = "none"]
  BY SeenChanges DEF Held
<1>2. CASE Seen[w] = "none"
  <2>1. Seen' = Seen
    BY <1>1, <1>2 DEF Seen
  <2> QED BY <2>1 DEF Row!rowVars, Seen
<1>3. CASE Seen[w] # "none"
  <2>1. Row!Rollback(w)
    BY <1>1, <1>3 DEF Row!Rollback, Seen
  <2> QED BY <2>1 DEF Row!RowNext, Row!Writers
<1> QED BY <1>2, <1>3

LEMMA LoadStep ==
    ASSUME TypeOK, NEW w \in Workers, NEW r, worker' = [worker EXCEPT ![w] = r],
           worker[w].pc \notin Txn, r.pc \in Txn, r.snap.assessment = assessment,
           UNCHANGED <<assessment, cancelSeen>>
    PROVE  [Row!RowNext]_(Row!rowVars)
<1>1. Seen' = [Seen EXCEPT ![w] = assessment]
  BY SeenChanges DEF Held
<1>2. Seen[w] = "none"
  BY SeenType DEF Held
<1>3. Row!Load(w)
  BY <1>1, <1>2 DEF Row!Load, Seen
<1> QED BY <1>3 DEF Row!RowNext, Row!Writers

LEMMA CommitStep ==
    ASSUME TypeOK, NEW w \in Workers, NEW r, worker' = [worker EXCEPT ![w] = r],
           worker[w].pc \in Txn, r.pc \notin Txn, UNCHANGED cancelSeen,
           NEW to \in Statuses \ {"CREATED", "CANCELLING"},
           TransitionAllowed(worker[w].snap.assessment, to),
           assessment' = IF to = worker[w].snap.assessment THEN assessment ELSE to
    PROVE  [Row!RowNext]_(Row!rowVars)
<1>1. Seen' = [Seen EXCEPT ![w] = "none"]
  BY SeenChanges, ZenonT(60) DEF Held
<1>2. Seen[w] # "none" /\ Seen[w] = worker[w].snap.assessment
  BY SeenType
<1>3. to \in Row!Requests(w)
  BY WorkerConstants, SameTable DEF Row!Requests
<1>4. Row!Commit(w, to)
  BY <1>1, <1>2, <1>3, SameTable DEF Row!Commit, Seen
<1> QED BY <1>4, SameTable DEF Row!RowNext, Row!Writers

\* A cancel request past its check loaded a status that may be cancelled.
CancelInv ==
    \A o \in Operators : cancelSeen[o] # "none" => TransitionAllowed(cancelSeen[o], "CANCELLING")

LEMMA CancelStep == TypeOK /\ CancelInv /\ [Next]_vars => CancelInv'
<1> SUFFICES ASSUME TypeOK, CancelInv, [Next]_vars
             PROVE  CancelInv'
  OBVIOUS
<1>1. CASE UNCHANGED cancelSeen
  BY <1>1, SMTT(40) DEF CancelInv
<1>2. ASSUME NEW o \in Operators, CancelLoad(o) \/ CancelCommit(o)
      PROVE  CancelInv'
  <2>1. CASE CancelLoad(o)
    BY <2>1, SMTT(40) DEF CancelInv, CancelLoad, TypeOK
  <2>2. CASE CancelCommit(o)
    BY <2>2, SMTT(40) DEF CancelInv, CancelCommit, TypeOK
  <2> QED BY <1>2, <2>1, <2>2, SMTT(40)
<1>3. CASE ApiStep
  BY <1>1, <1>2, <1>3, SMTT(40) DEF ApiStep, Publish, LosePublish, Resolve
<1>4. ASSUME NEW w \in Workers, WorkerStep(w) \/ MonitorStep(w) \/ Trouble(w)
      PROVE  CancelInv'
  BY <1>4, <1>1
  DEF WorkerStep, Read, Reclaim, Dispatch, Ack, Inspect, EnterLoad, EnterCommit, Invoke, NodeLoad,
      NodeCommit, NodeRefused, NodeReturn, Settle, SettleInterrupt, SettleComplete, SettleLoad,
      FailureCommit, TeardownCommit, OrphanCommit, MonitorStep, MonitorBeat, MonitorCancel, Trouble,
      NodeRaise, AckLost, DatabaseError, Crash, Restart
<1>5. CASE Time
  BY <1>5, <1>1 DEF Time, HeartbeatAges, BecomeIdle
<1> QED
  BY <1>1, <1>3, <1>4, <1>5 DEF Next, vars

LEMMA RowStep ==
    TypeOK /\ TargetInv /\ CancelInv /\ [Next]_vars => [Row!RowNext]_(Row!rowVars)
<1> SUFFICES ASSUME TypeOK, TargetInv, CancelInv, [Next]_vars
             PROVE  [Row!RowNext]_(Row!rowVars)
  OBVIOUS
<1>1. CASE UNCHANGED <<assessment, worker, cancelSeen>>
  <2>1. \A v \in Operators \cup Workers : SeenBy(v)' = SeenBy(v)
    BY <1>1 DEF SeenBy
  <2>2. Seen' = Seen
    BY <2>1 DEF Seen
  <2> QED BY <1>1, <2>2 DEF Row!rowVars, Seen
<1>2. ASSUME NEW o \in Operators, CancelLoad(o) \/ CancelCommit(o)
      PROVE  [Row!RowNext]_(Row!rowVars)
  <2>0. Seen[o] = cancelSeen[o]
    BY DEF Seen, SeenBy
  <2>1. \A v \in Operators : SeenBy(v)' = cancelSeen'[v] /\ SeenBy(v) = cancelSeen[v]
    BY DEF SeenBy
  <2>2. \A v \in Workers \ Operators : SeenBy(v)' = SeenBy(v)
    BY <1>2 DEF SeenBy, CancelLoad, CancelCommit
  <2>3. CASE CancelLoad(o)
    <3>1. cancelSeen' = [cancelSeen EXCEPT ![o] = assessment] /\ cancelSeen[o] = "none"
      BY <2>3 DEF CancelLoad
    <3>2. Seen' = [Seen EXCEPT ![o] = assessment]
      BY <2>1, <2>2, <3>1, ZenonT(60) DEF Seen, TypeOK
    <3>3. Row!Load(o)
      BY <2>0, <2>3, <3>1, <3>2 DEF Row!Load, Seen, CancelLoad, rowVars
    <3> QED BY <3>3 DEF Row!RowNext, Row!Writers
  <2>4. CASE CancelCommit(o)
    <3>1. cancelSeen' = [cancelSeen EXCEPT ![o] = "none"] /\ cancelSeen[o] # "none"
      BY <2>4 DEF CancelCommit
    <3>2. Seen' = [Seen EXCEPT ![o] = "none"]
      BY <2>1, <2>2, <3>1, ZenonT(60) DEF Seen, TypeOK
    <3>3. TransitionAllowed(cancelSeen[o], "CANCELLING")
      BY <3>1 DEF CancelInv
    <3>4. "CANCELLING" \in Row!Requests(o)
      BY DEF Row!Requests
    <3>5. assessment' = IF "CANCELLING" = Seen[o] THEN assessment ELSE "CANCELLING"
      BY <2>0, <2>4 DEF CancelCommit
    <3>6. Row!Commit(o, "CANCELLING")
      BY <2>0, <3>1, <3>2, <3>3, <3>4, <3>5, SameTable DEF Row!Commit, Seen
    <3>7. "CANCELLING" \in Row!Statuses
      BY SameTable, StatusesTyped, SMTT(40)
    <3> QED BY <3>6, <3>7 DEF Row!RowNext, Row!Writers
  <2> QED BY <1>2, <2>3, <2>4
<1>3. ASSUME NEW w \in Workers, WorkerStep(w) \/ MonitorStep(w) \/ Trouble(w)
      PROVE  [Row!RowNext]_(Row!rowVars)
  <2> DEFINE me == worker[w]
  <2>0. me \in WorkerStates /\ me.snap.assessment \in Statuses
    BY SMTT(40) DEF TypeOK, WorkerStates, Snapshots
  <2>1. UNCHANGED cancelSeen
    BY <1>3
    DEF WorkerStep, Read, Reclaim, Dispatch, Ack, Inspect, EnterLoad, EnterCommit, Invoke, NodeLoad,
        NodeCommit, NodeRefused, NodeReturn, Settle, SettleInterrupt, SettleComplete, SettleLoad,
        FailureCommit, TeardownCommit, OrphanCommit, MonitorStep, MonitorBeat, MonitorCancel,
        Trouble, NodeRaise, AckLost, DatabaseError, Crash, Restart
  <2>2. CASE NodeLoad(w)
    <3>1. \/ worker' = [worker EXCEPT ![w] = [me EXCEPT !.step = me.step + 1]]
          \/ worker' = [worker EXCEPT ![w] = [me EXCEPT !.pc = "txn", !.snap = Loaded]]
      BY <2>2 DEF NodeLoad
    <3>2. me.pc = "node" /\ UNCHANGED assessment
      BY <2>2 DEF NodeLoad, rowVars
    <3>3. /\ [me EXCEPT !.step = me.step + 1].pc \notin Txn
          /\ [me EXCEPT !.pc = "txn", !.snap = Loaded].pc \in Txn
          /\ [me EXCEPT !.pc = "txn", !.snap = Loaded].snap.assessment = assessment
          /\ me.pc \notin Txn
      BY <2>0, <3>2 DEF WorkerStates, Txn, Loaded
    <3> HIDE DEF me
    <3>4. CASE worker' = [worker EXCEPT ![w] = [me EXCEPT !.step = me.step + 1]]
      BY <2>1, <3>2, <3>3, <3>4, LeaveStep
    <3>5. CASE worker' = [worker EXCEPT ![w] = [me EXCEPT !.pc = "txn", !.snap = Loaded]]
      BY <2>1, <3>2, <3>3, <3>5, LoadStep DEF me
    <3> QED BY <3>1, <3>4, <3>5
  <2>3. CASE SettleLoad(w)
    <3>1. PICK pc \in {"failing", "tearing", "orphaning"} :
             worker' = [worker EXCEPT ![w] = [me EXCEPT !.pc = pc, !.snap = Loaded]]
      BY <2>3 DEF SettleLoad
    <3>2. me.pc \in {"failure", "teardown", "orphan"} /\ UNCHANGED assessment
      BY <2>3 DEF SettleLoad, rowVars
    <3>3. /\ [me EXCEPT !.pc = pc, !.snap = Loaded].pc = pc
          /\ [me EXCEPT !.pc = pc, !.snap = Loaded].snap.assessment = assessment
          /\ me.pc \notin Txn
      BY <2>0, <3>2 DEF WorkerStates, Txn, Loaded
    <3> HIDE DEF me
    <3>4. CASE pc = "orphaning"
      <4>1. pc \notin Txn
        BY <3>4 DEF Txn
      <4> QED BY <2>1, <3>1, <3>2, <3>3, <4>1, LeaveStep
    <3>5. CASE pc # "orphaning"
      <4>1. pc \in Txn
        BY <3>5 DEF Txn
      <4> QED BY <2>1, <3>1, <3>2, <3>3, <4>1, LoadStep DEF me
    <3> QED BY <3>4, <3>5
  <2>4. CASE ~NodeLoad(w) /\ ~SettleLoad(w) /\ UNCHANGED assessment
    BY <1>1, <1>3, <2>1, <2>4, Moves, LeaveStep
  <2>5. CASE NodeCommit(w)
    <3> DEFINE to == Targets[me.node][me.step]
    <3>1. worker' = [worker EXCEPT ![w] =
                       [me EXCEPT !.pc = "node", !.step = me.step + 1, !.snap = Unloaded]]
      BY <2>5 DEF NodeCommit
    <3>2. /\ [me EXCEPT !.pc = "node", !.step = me.step + 1, !.snap = Unloaded].pc \notin Txn
          /\ me.pc \in Txn
      BY <2>0, <2>5 DEF WorkerStates, Txn, NodeCommit
    <3>3. to \in Statuses \ {"CREATED", "CANCELLING"}
      <4>1. me.step \in DOMAIN Targets[me.node]
        BY <2>5 DEF TargetInv, NodeCommit
      <4>2. Targets[me.node] \in Seq(Statuses \ {"CREATED", "CANCELLING"})
        BY <2>0, GraphConstants DEF WorkerStates
      <4> QED BY <4>1, <4>2
    <3>4. /\ TransitionAllowed(me.snap.assessment, to)
          /\ assessment' = IF to = me.snap.assessment THEN assessment ELSE to
      BY <2>5 DEF NodeCommit
    <3> HIDE DEF to
    <3> QED BY <2>1, <3>1, <3>2, <3>3, <3>4, CommitStep
  <2>6. CASE FailureCommit(w) /\ ~UNCHANGED assessment
    <3>1. worker' = [worker EXCEPT ![w] = [me EXCEPT !.pc = "ack", !.snap = Unloaded]]
      BY <2>6 DEF FailureCommit, EndTxn
    <3>2. [me EXCEPT !.pc = "ack", !.snap = Unloaded].pc \notin Txn /\ me.pc \in Txn
      BY <2>0, <2>6 DEF WorkerStates, Txn, FailureCommit
    <3>3. me.snap.assessment \notin TerminalStatuses /\ assessment' = "FAILED"
      BY <2>6 DEF FailureCommit
    <3>4. TransitionAllowed(me.snap.assessment, "FAILED") /\ me.snap.assessment # "FAILED"
      BY <2>0, <3>3 DEF TransitionAllowed, ALLOWED_TRANSITIONS, Statuses, TerminalStatuses
    <3>5. "FAILED" \in Statuses \ {"CREATED", "CANCELLING"}
      BY StatusesTyped
    <3> QED BY <2>1, <3>1, <3>2, <3>3, <3>4, <3>5, CommitStep
  <2>7. CASE TeardownCommit(w) /\ ~UNCHANGED assessment
    <3>1. worker' = [worker EXCEPT ![w] = [me EXCEPT !.pc = "ack", !.snap = Unloaded]]
      BY <2>7 DEF TeardownCommit, EndTxn
    <3>2. [me EXCEPT !.pc = "ack", !.snap = Unloaded].pc \notin Txn /\ me.pc \in Txn
      BY <2>0, <2>7, SMTT(40) DEF WorkerStates, Txn, TeardownCommit
    <3>3. me.snap.assessment = "CANCELLING" /\ assessment' = "CANCELLED"
      BY <2>7, SMTT(40) DEF TeardownCommit
    <3>4. TransitionAllowed(me.snap.assessment, "CANCELLED")
      BY <3>3, SMTT(40) DEF TransitionAllowed, ALLOWED_TRANSITIONS, Statuses
    <3>5. "CANCELLED" \in Statuses \ {"CREATED", "CANCELLING"}
      BY StatusesTyped, SMTT(40)
    <3> QED BY <2>1, <3>1, <3>2, <3>3, <3>4, <3>5, CommitStep, ZenonT(60)
  <2>8. \/ UNCHANGED assessment
        \/ NodeCommit(w)
        \/ FailureCommit(w)
        \/ TeardownCommit(w)
    BY <1>3
    DEF rowVars, WorkerStep, Read, Reclaim, Dispatch, Ack, Inspect, EnterLoad, EnterCommit, Invoke,
        NodeLoad, NodeRefused, NodeReturn, Settle, SettleInterrupt, SettleComplete, SettleLoad,
        OrphanCommit, MonitorStep, MonitorBeat, MonitorCancel, Trouble, NodeRaise, AckLost,
        DatabaseError, Crash, Restart
  <2> QED BY <2>2, <2>3, <2>4, <2>5, <2>6, <2>7, <2>8, SMTT(40)
<1>4. CASE ApiStep
  BY <1>1, <1>2, <1>4 DEF ApiStep, Publish, LosePublish, Resolve, rowVars
<1>5. CASE Time
  BY <1>1, <1>5 DEF Time, HeartbeatAges, BecomeIdle, rowVars
<1> QED
  BY <1>1, <1>3, <1>4, <1>5 DEF Next, vars

\* The whole system, with its queue, crashes, redeliveries and overlapping
\* transactions, implements AssessmentRow: every change of assessments.status is
\* a change that ALLOWED_TRANSITIONS permits from the value its writer loaded.
THEOREM ImplementsRowHolds == Spec => ImplementsRow
<1>1. Init => Row!RowInit /\ TargetInv /\ CancelInv
  <2> SUFFICES ASSUME Init PROVE Row!RowInit /\ TargetInv /\ CancelInv
    OBVIOUS
  <2>1. \A v \in Operators \cup Workers : SeenBy(v) = "none"
    BY DEF Init, SeenBy, Free
  <2>2. Row!RowInit
    BY <2>1 DEF Init, Row!RowInit, Row!Writers
  <2>3. TargetInv /\ CancelInv
    BY DEF Init, TargetInv, CancelInv, Free
  <2> QED BY <2>2, <2>3
<1> QED
  BY <1>1, TypeCorrect, TargetStep, CancelStep, RowStep, PTL DEF Spec, ImplementsRow, Row!RowSpec

-----------------------------------------------------------------------------
(* One driver.  advance assumes that no live worker is already driving the *)
(* run, and nothing but the delivery of its one message and the heartbeat  *)
(* makes it true.  With approvals it is false: a RESUME is a message of    *)
(* its own, beside the redelivered START; and with entries of other runs   *)
(* ahead in a batch the time between a delivery and its dispatch has no    *)
(* bound.  So this is about a run that asks for no approval, on workers    *)
(* that serve it at once.                                                  *)

Alone == MaxApprovals = 0 /\ ~OtherRuns

Waiting(w) == worker[w].pc = "free" /\ worker[w].batch # << >>
Entering(w) == worker[w].pc \in {"inspect", "enter", "entering"}
Closing(w) == worker[w].pc \in {"teardown", "tearing", "orphan", "orphaning"}
Busy(w) == worker[w].pc \notin {"free", "down"} \/ worker[w].batch # << >>
Closed == assessment \in TerminalStatuses \cup {"CANCELLING"}

\* The message is in one place; whoever waits to dispatch it or to enter the
\* run is the only one, and it does not become idle meanwhile.
Delivery ==
    /\ \A w \in Workers : worker[w].batch # << >> =>
          worker[w].pc = "free" /\ Len(worker[w].batch) = 1
    /\ toPublish # {} => stream = << >>
    /\ Len(stream) <= 1
    /\ toPublish # {} \/ stream # << >> =>
          pel[START] = NoOne /\ \A w \in Workers : ~Busy(w)
    /\ idle # {} => pel[START] # NoOne
    /\ \A w \in Workers : Waiting(w) \/ Entering(w) => idle = {}
    /\ \A v, w \in Workers : (Waiting(v) \/ Entering(v)) /\ (Waiting(w) \/ Entering(w)) => v = w
    /\ \A w \in Workers : Waiting(w) /\ ~Head(worker[w].batch).reclaimed =>
          \A v \in Workers \ {w} : ~Busy(v)

\* A driver's heartbeat is fresh, which keeps everybody else from entering.
Roles ==
    /\ SingleDriver
    /\ \A w \in Workers : Driving(w) => runStatus = "running" /\ heartbeat = "fresh"
    /\ \A w \in Workers : Entering(w) => \A v \in Workers : ~Driving(v) /\ ~Closing(v)
    /\ \A w \in Workers : Closing(w) => Closed /\ \A v \in Workers : ~Driving(v)

\* What a process loaded of the rows is still true where it counts.
Copies ==
    /\ \A w \in Workers : worker[w].pc = "entering" => runStatus \notin TerminalRunStatuses
    /\ \A w \in Workers : worker[w].pc \in {"tearing", "orphaning"} =>
          \/ runStatus = worker[w].snap.run
          \/ worker[w].snap.run \notin TerminalRunStatuses /\ runStatus = "cancelled"
    /\ \A w \in Workers : worker[w].pc = "tearing" /\ worker[w].snap.assessment = "CANCELLING" =>
          assessment \in {"CANCELLING", "CANCELLED"}
    /\ \A w \in Workers : worker[w].pc \in {"txn", "failing"} =>
          assessment \in {worker[w].snap.assessment, "CANCELLING"}

\* What is about to be acknowledged is settled, and nobody is about to drive it.
Acked ==
    \A w \in Workers : worker[w].pc = "ack" =>
        \/ runStatus \in TerminalRunStatuses
        \/ runStatus = "interrupted" /\ heartbeat = "fresh" /\ \A v \in Workers : ~Entering(v)

\* Nor afterwards, as long as no request is lost before it is published.
Remembered ==
    (/\ "publish" \notin Faults
     /\ toPublish = {} /\ stream = << >> /\ pel[START] = NoOne) =>
        \/ runStatus \in TerminalRunStatuses
        \/ /\ runStatus = "interrupted"
           /\ \A v \in Workers : ~Entering(v)
           /\ \A v \in Workers : Waiting(v) =>
                 heartbeat = "fresh" /\ Head(worker[v].batch).reclaimed

DriverInv == TypeOK /\ Delivery /\ Roles /\ Copies /\ Acked /\ Remembered

\* The record of one process is replaced.
Puts(w, r) ==
    /\ r \in WorkerStates
    /\ worker'[w] = r
    /\ \A v \in Workers : v # w => worker'[v] = worker[v]

LEMMA PutsIt ==
    ASSUME TypeOK, NEW w \in Workers, NEW r \in WorkerStates, worker' = [worker EXCEPT ![w] = r]
    PROVE  Puts(w, r)
  BY DEF TypeOK, Puts

DrivingPoints ==
    {"invoke", "node", "txn", "settle", "interrupt", "complete", "failure", "failing"}

\* A driver goes on.
LEMMA DriverGoesOn ==
    ASSUME DriverInv, TypeOK', NEW w \in Workers, Driving(w), NEW r, Puts(w, r),
           r.pc \in DrivingPoints, r.batch = << >>,
           UNCHANGED <<runStatus, heartbeat, streamVars>>,
           r.pc \in {"txn", "failing"} => assessment' \in {r.snap.assessment, "CANCELLING"}
    PROVE  DriverInv'
<1>1. TypeOK /\ Delivery /\ Roles /\ Copies /\ Acked /\ Remembered
  BY DEF DriverInv
<1>2. worker'[w] = r /\ \A v \in Workers : v # w => worker'[v] = worker[v]
  BY DEF Puts
<1>3. runStatus = "running" /\ heartbeat = "fresh"
  BY <1>1 DEF Roles
<1>4. \A v \in Workers : v # w => ~Driving(v) /\ ~Driving(v)'
  BY <1>1, <1>2 DEF Roles, SingleDriver, Driving
<1>5. \A v \in Workers : ~Entering(v) /\ ~Closing(v) /\ ~Entering(v)' /\ ~Closing(v)'
  BY <1>1, <1>2 DEF Roles, Entering, Closing, DrivingPoints
<1>6. \A v \in Workers : Waiting(v)' => Waiting(v) /\ v # w
  BY <1>2 DEF Waiting, DrivingPoints
<1>7. UNCHANGED <<runStatus, heartbeat, toPublish, stream, pel, idle>>
  BY DEF streamVars
<1>8. Busy(w) /\ \A v \in Workers : Busy(v)' => Busy(v)
  BY <1>2 DEF Busy, Driving
<1>9. Delivery'
  BY <1>1, <1>2, <1>5, <1>6, <1>7, <1>8 DEF Delivery
<1>10. Roles'
  BY <1>3, <1>4, <1>5, <1>7 DEF Roles, SingleDriver
<1>11. Copies'
  BY <1>2, <1>4, <1>5 DEF Copies, Driving, Closing, Entering
<1>12. Acked'
  BY <1>1, <1>2, <1>3, <1>7 DEF Acked, TerminalRunStatuses, DrivingPoints
<1>13. Remembered'
  BY <1>1, <1>3, <1>7 DEF Remembered, TerminalRunStatuses
<1> QED
  BY <1>9, <1>10, <1>11, <1>12, <1>13 DEF DriverInv


\* A process lets go of what it has in hand.
LEMMA LetsGo ==
    ASSUME DriverInv, TypeOK', NEW w \in Workers, NEW r, Puts(w, r),
           r.pc \in {"free", "down"}, r.batch = << >>,
           UNCHANGED <<rowVars, streamVars>>
    PROVE  DriverInv'
<1>1. TypeOK /\ Delivery /\ Roles /\ Copies /\ Acked /\ Remembered
  BY DEF DriverInv
<1>2. worker'[w] = r /\ \A v \in Workers : v # w => worker'[v] = worker[v]
  BY DEF Puts
<1>3. UNCHANGED <<assessment, runStatus, heartbeat, toPublish, stream, pel, idle>>
  BY DEF rowVars, streamVars
<1>4. \A v \in Workers : /\ Driving(v)' => Driving(v)
                         /\ Entering(v)' => Entering(v)
                         /\ Closing(v)' => Closing(v)
                         /\ Waiting(v)' => Waiting(v) /\ v # w
                         /\ Busy(v)' => Busy(v)
  BY <1>2 DEF Driving, Entering, Closing, Waiting, Busy
<1>5. Delivery'
  BY <1>1, <1>2, <1>3, <1>4 DEF Delivery
<1>6. Roles'
  BY <1>1, <1>3, <1>4 DEF Roles, SingleDriver, Closed
<1>7. Copies'
  BY <1>1, <1>2, <1>3 DEF Copies
<1>8. Acked'
  BY <1>1, <1>2, <1>3, <1>4 DEF Acked
<1>9. Remembered'
  BY <1>1, <1>2, <1>3, <1>4 DEF Remembered
<1> QED
  BY <1>5, <1>6, <1>7, <1>8, <1>9 DEF DriverInv

\* A driver settles the run.
LEMMA DriverSettles ==
    ASSUME DriverInv, TypeOK', NEW w \in Workers, Driving(w), NEW r, Puts(w, r),
           r.pc = "ack", r.batch = << >>, heartbeat' = "fresh",
           runStatus' \in TerminalRunStatuses \cup {"interrupted"},
           UNCHANGED streamVars
    PROVE  DriverInv'
<1>1. TypeOK /\ Delivery /\ Roles /\ Copies /\ Acked /\ Remembered
  BY DEF DriverInv
<1>2. worker'[w] = r /\ \A v \in Workers : v # w => worker'[v] = worker[v]
  BY DEF Puts
<1>3. UNCHANGED <<toPublish, stream, pel, idle>>
  BY DEF streamVars
<1>4. \A v \in Workers : /\ ~Driving(v)' /\ ~Entering(v)' /\ ~Closing(v)'
                         /\ Waiting(v)' => Waiting(v) /\ v # w
                         /\ Busy(v)' => Busy(v)
  BY <1>1, <1>2 DEF Roles, SingleDriver, Driving, Entering, Closing, Waiting, Busy
<1>5. Busy(w)
  BY DEF Driving, Busy
<1>6. Delivery'
  BY <1>1, <1>2, <1>3, <1>4, <1>5 DEF Delivery
<1>7. Roles'
  BY <1>4 DEF Roles, SingleDriver
<1>8. Copies'
  BY <1>4 DEF Copies, Driving, Entering, Closing
<1>9. Acked'
  BY <1>4 DEF Acked
<1>10. Remembered'
  <2> SUFFICES ASSUME NEW v \in Workers, Waiting(v)' PROVE Head(worker'[v].batch).reclaimed
    BY <1>4 DEF Remembered
  <2>1. Waiting(v) /\ v # w
    BY <1>4
  <2>2. Head(worker[v].batch).reclaimed
    BY <1>1, <1>5, <2>1 DEF Delivery
  <2> QED
    BY <1>2, <2>1, <2>2
<1> QED
  BY <1>6, <1>7, <1>8, <1>9, <1>10 DEF DriverInv

\* A process that tears down a cancelled run, or settles an orphaned one, loads
\* the rows ...
LEMMA CloserLoads ==
    ASSUME DriverInv, TypeOK', NEW w \in Workers, worker[w].pc \in {"teardown", "orphan"},
           NEW r, Puts(w, r), r.pc \in {"tearing", "orphaning"}, r.batch = << >>,
           r.snap.run = runStatus, r.snap.assessment = assessment,
           UNCHANGED <<rowVars, streamVars>>
    PROVE  DriverInv'
<1>1. TypeOK /\ Delivery /\ Roles /\ Copies /\ Acked /\ Remembered
  BY DEF DriverInv
<1>2. worker'[w] = r /\ \A v \in Workers : v # w => worker'[v] = worker[v]
  BY DEF Puts
<1>3. UNCHANGED <<assessment, runStatus, heartbeat, toPublish, stream, pel, idle>>
  BY DEF rowVars, streamVars
<1>4. \A v \in Workers : /\ Driving(v)' => Driving(v)
                         /\ Entering(v)' => Entering(v)
                         /\ Closing(v)' => Closing(v)
                         /\ Waiting(v)' => Waiting(v) /\ v # w
                         /\ Busy(v)' => Busy(v)
  BY <1>2 DEF Driving, Entering, Closing, Waiting, Busy
<1>5. Delivery'
  BY <1>1, <1>2, <1>3, <1>4 DEF Delivery
<1>6. Roles'
  BY <1>1, <1>3, <1>4 DEF Roles, SingleDriver, Closed
<1>7. Copies'
  BY <1>1, <1>2, <1>3 DEF Copies
<1>8. Acked'
  BY <1>1, <1>2, <1>3, <1>4 DEF Acked
<1>9. Remembered'
  BY <1>1, <1>2, <1>3, <1>4 DEF Remembered
<1> QED
  BY <1>5, <1>6, <1>7, <1>8, <1>9 DEF DriverInv

\* ... and commits what follows from them.
LEMMA CloserCommits ==
    ASSUME DriverInv, TypeOK', NEW w \in Workers, worker[w].pc \in {"tearing", "orphaning"},
           NEW r, Puts(w, r), r.pc = "ack", r.batch = << >>,
           IF worker[w].snap.run \in TerminalRunStatuses
             THEN UNCHANGED <<runStatus, heartbeat>>
             ELSE runStatus' = "cancelled" /\ heartbeat' = "fresh",
           \/ UNCHANGED assessment
           \/ /\ worker[w].pc = "tearing" /\ worker[w].snap.assessment = "CANCELLING"
              /\ assessment' = "CANCELLED",
           UNCHANGED streamVars
    PROVE  DriverInv'
<1>1. TypeOK /\ Delivery /\ Roles /\ Copies /\ Acked /\ Remembered
  BY DEF DriverInv
<1>2. worker'[w] = r /\ \A v \in Workers : v # w => worker'[v] = worker[v]
  BY DEF Puts
<1>3. UNCHANGED <<toPublish, stream, pel, idle>>
  BY DEF streamVars
<1>4. \A v \in Workers : /\ ~Driving(v) /\ ~Entering(v)
                         /\ ~Driving(v)' /\ ~Entering(v)'
                         /\ Closing(v)' => Closing(v)
                         /\ Waiting(v)' => Waiting(v) /\ v # w
                         /\ Busy(v)' => Busy(v)
  BY <1>1, <1>2 DEF Roles, Driving, Entering, Closing, Waiting, Busy
<1>5. runStatus' \in TerminalRunStatuses
  BY <1>1 DEF Copies, TerminalRunStatuses
<1>6. Closed' /\ (\/ UNCHANGED assessment
                  \/ assessment \in {"CANCELLING", "CANCELLED"} /\ assessment' = "CANCELLED")
  BY <1>1 DEF Copies, Roles, Closing, Closed, TerminalStatuses
<1>7. \/ UNCHANGED runStatus
      \/ runStatus \notin TerminalRunStatuses /\ runStatus' = "cancelled"
  BY <1>1 DEF Copies, TerminalRunStatuses
<1>8. Delivery'
  BY <1>1, <1>2, <1>3, <1>4 DEF Delivery
<1>9. Roles'
  BY <1>4, <1>6 DEF Roles, SingleDriver
<1>10. Copies'
  <2> SUFFICES ASSUME NEW v \in Workers, v # w, worker[v].pc \in {"tearing", "orphaning"}
               PROVE  /\ \/ runStatus' = worker[v].snap.run
                         \/ /\ worker[v].snap.run \notin TerminalRunStatuses
                            /\ runStatus' = "cancelled"
                      /\ worker[v].pc = "tearing" /\ worker[v].snap.assessment = "CANCELLING" =>
                            assessment' \in {"CANCELLING", "CANCELLED"}
    BY <1>2, <1>4 DEF Copies, Driving, Entering
  <2> QED
    BY <1>1, <1>6, <1>7 DEF Copies, TerminalRunStatuses
<1>11. Acked' /\ Remembered'
  BY <1>5 DEF Acked, Remembered
<1> QED
  BY <1>8, <1>9, <1>10, <1>11 DEF DriverInv


\* A process on its way into the run looks at it ...
LEMMA EntererLooks ==
    ASSUME DriverInv, TypeOK', NEW w \in Workers, Entering(w), NEW r, Puts(w, r),
           r.pc \in {"enter", "entering", "ack"}, r.batch = << >>,
           r.pc = "ack" => runStatus \in TerminalRunStatuses,
           r.pc = "entering" => runStatus \notin TerminalRunStatuses,
           UNCHANGED <<rowVars, streamVars>>
    PROVE  DriverInv'
<1>1. TypeOK /\ Delivery /\ Roles /\ Copies /\ Acked /\ Remembered
  BY DEF DriverInv
<1>2. worker'[w] = r /\ \A v \in Workers : v # w => worker'[v] = worker[v]
  BY DEF Puts
<1>3. UNCHANGED <<assessment, runStatus, heartbeat, toPublish, stream, pel, idle>>
  BY DEF rowVars, streamVars
<1>4. \A v \in Workers : /\ Driving(v)' => Driving(v)
                         /\ Entering(v)' => Entering(v)
                         /\ Closing(v)' => Closing(v)
                         /\ Waiting(v)' => Waiting(v) /\ v # w
                         /\ Busy(v)' => Busy(v)
  BY <1>2 DEF Driving, Entering, Closing, Waiting, Busy
<1>5. Delivery'
  BY <1>1, <1>2, <1>3, <1>4 DEF Delivery
<1>6. Roles'
  BY <1>1, <1>3, <1>4 DEF Roles, SingleDriver, Closed
<1>7. Copies'
  BY <1>1, <1>2, <1>3 DEF Copies
<1>8. Acked'
  BY <1>1, <1>2, <1>3, <1>4 DEF Acked
<1>9. Remembered'
  BY <1>1, <1>2, <1>3, <1>4 DEF Remembered
<1> QED
  BY <1>5, <1>6, <1>7, <1>8, <1>9 DEF DriverInv

\* ... and starts to drive it.
LEMMA EntererDrives ==
    ASSUME DriverInv, TypeOK', NEW w \in Workers, worker[w].pc = "entering", NEW r, Puts(w, r),
           r.pc = "invoke", r.batch = << >>,
           runStatus' = "running", heartbeat' = "fresh",
           UNCHANGED <<assessment, streamVars>>
    PROVE  DriverInv'
<1>1. TypeOK /\ Delivery /\ Roles /\ Copies /\ Acked /\ Remembered
  BY DEF DriverInv
<1>2. worker'[w] = r /\ \A v \in Workers : v # w => worker'[v] = worker[v]
  BY DEF Puts
<1>3. UNCHANGED <<toPublish, stream, pel, idle>>
  BY DEF streamVars
<1>4. Entering(w) /\ Busy(w)
  BY DEF Entering, Busy
<1>5. \A v \in Workers : /\ Driving(v)' => v = w
                         /\ ~Entering(v)' /\ ~Closing(v)'
                         /\ Waiting(v)' => Waiting(v) /\ v # w
                         /\ Busy(v)' => Busy(v)
  BY <1>1, <1>2, <1>4 DEF Delivery, Roles, Driving, Entering, Closing, Waiting, Busy
<1>6. \A v \in Workers : worker[v].pc # "ack"
  BY <1>1, <1>4 DEF Acked, Copies
<1>7. Delivery'
  BY <1>1, <1>2, <1>3, <1>5 DEF Delivery
<1>8. Roles'
  BY <1>5 DEF Roles, SingleDriver
<1>9. Copies'
  BY <1>2, <1>5 DEF Copies, Driving, Entering, Closing
<1>10. Acked'
  BY <1>2, <1>6 DEF Acked
<1>11. Remembered'
  BY <1>1, <1>3, <1>4 DEF Remembered, Copies
<1> QED
  BY <1>7, <1>8, <1>9, <1>10, <1>11 DEF DriverInv

\* The monitor takes a process out of advance; the entry goes to the teardown.
LEMMA MonitorStops ==
    ASSUME DriverInv, TypeOK', NEW w \in Workers, Driving(w) \/ Entering(w), NEW r, Puts(w, r),
           r.pc = "teardown", r.batch = << >>, assessment = "CANCELLING",
           UNCHANGED <<rowVars, streamVars>>
    PROVE  DriverInv'
<1>1. TypeOK /\ Delivery /\ Roles /\ Copies /\ Acked /\ Remembered
  BY DEF DriverInv
<1>2. worker'[w] = r /\ \A v \in Workers : v # w => worker'[v] = worker[v]
  BY DEF Puts
<1>3. UNCHANGED <<assessment, runStatus, heartbeat, toPublish, stream, pel, idle>>
  BY DEF rowVars, streamVars
<1>4. \A v \in Workers : /\ ~Driving(v)' /\ ~Entering(v)'
                         /\ Closing(v)' => Closing(v) \/ v = w
                         /\ Waiting(v)' => Waiting(v) /\ v # w
                         /\ Busy(v)' => Busy(v)
  BY <1>1, <1>2 DEF Delivery, Roles, SingleDriver, Driving, Entering, Closing, Waiting, Busy
<1>5. Delivery'
  BY <1>1, <1>2, <1>3, <1>4 DEF Delivery
<1>6. Roles'
  BY <1>3, <1>4 DEF Roles, SingleDriver, Closed
<1>7. Copies'
  BY <1>1, <1>2, <1>3 DEF Copies
<1>8. Acked'
  BY <1>1, <1>2, <1>3, <1>4 DEF Acked
<1>9. Remembered'
  BY <1>1, <1>2, <1>3, <1>4 DEF Remembered
<1> QED
  BY <1>5, <1>6, <1>7, <1>8, <1>9 DEF DriverInv


\* The entry is dispatched: nobody drives the run, or its heartbeat would be
\* fresh and the entry deferred.
LEMMA Dispatches ==
    ASSUME DriverInv, TypeOK', NEW w \in Workers, Waiting(w), NEW r, Puts(w, r),
           r.pc = DispatchTo(Head(worker[w].batch)), r.pc # "free", r.batch = << >>,
           UNCHANGED <<rowVars, streamVars>>
    PROVE  DriverInv'
<1>1. TypeOK /\ Delivery /\ Roles /\ Copies /\ Acked /\ Remembered
  BY DEF DriverInv
<1>2. worker'[w] = r /\ \A v \in Workers : v # w => worker'[v] = worker[v]
  BY DEF Puts
<1>3. UNCHANGED <<assessment, runStatus, heartbeat, toPublish, stream, pel, idle>>
  BY DEF rowVars, streamVars
<1>4. /\ r.pc \in {"teardown", "orphan", "inspect"}
      /\ r.pc = "inspect" <=> ~Closed
      /\ heartbeat # "fresh" \/ ~Head(worker[w].batch).reclaimed
  BY DEF DispatchTo, Closed, TerminalStatuses
<1>5. heartbeat # "fresh" \/ \A v \in Workers \ {w} : ~Busy(v)
  BY <1>1, <1>4 DEF Delivery
<1>6. \A v \in Workers : ~Driving(v) /\ ~Driving(v)'
  BY <1>1, <1>2, <1>4, <1>5 DEF Roles, Driving, Waiting, Busy
<1>7. Busy(w) /\ \A v \in Workers : /\ ~Entering(v)
                                    /\ Entering(v)' => v = w /\ ~Closed
                                    /\ Waiting(v)' => Waiting(v) /\ v # w
                                    /\ Busy(v)' => Busy(v)
  BY <1>1, <1>2, <1>4 DEF Delivery, Entering, Waiting, Busy
<1>8. \A v \in Workers : Closing(v)' => Closed
  BY <1>1, <1>2, <1>4 DEF Roles, Closing
<1>9. Delivery'
  <2>1. \A v \in Workers : ~Waiting(v)'
    BY <1>1, <1>7 DEF Delivery
  <2>2. \A v \in Workers : worker'[v].batch # << >> =>
          worker'[v].pc = "free" /\ Len(worker'[v].batch) = 1
    BY <1>1, <1>2 DEF Delivery
  <2>3. idle = {}
    BY <1>1 DEF Delivery
  <2> QED
    BY <1>1, <1>3, <1>7, <2>1, <2>2, <2>3 DEF Delivery
<1>10. Roles'
  BY <1>3, <1>6, <1>7, <1>8 DEF Roles, SingleDriver, Closed
<1>11. Copies'
  BY <1>1, <1>2, <1>3, <1>4 DEF Copies
<1>12. Acked'
  <2> SUFFICES ASSUME NEW v \in Workers, worker'[v].pc = "ack", runStatus \notin TerminalRunStatuses
               PROVE  FALSE
    BY <1>3 DEF Acked
  <2>1. v # w /\ worker[v].pc = "ack" /\ Busy(v)
    BY <1>2, <1>4 DEF Busy
  <2>2. runStatus = "interrupted" /\ heartbeat = "fresh"
    BY <1>1, <2>1 DEF Acked
  <2> QED
    BY <1>5, <2>1, <2>2
<1>13. Remembered'
  <2> SUFFICES ASSUME "publish" \notin Faults, toPublish = {}, stream = << >>, pel[START] = NoOne,
                      runStatus \notin TerminalRunStatuses
               PROVE  FALSE
    BY <1>3 DEF Remembered
  <2> QED
    BY <1>1, <1>4 DEF Remembered
<1> QED
  BY <1>9, <1>10, <1>11, <1>12, <1>13 DEF DriverInv

\* The entry comes to a process: the new one to nobody's knowledge, an idle one
\* from whoever had it.
LEMMA Receives ==
    ASSUME DriverInv, TypeOK', NEW w \in Workers, NEW r, Puts(w, r),
           worker[w].pc = "free", worker[w].batch = << >>,
           r.pc = "free", Len(r.batch) = 1, r.snap = worker[w].snap,
           \/ stream # << >> /\ stream' = << >> /\ UNCHANGED <<toPublish, idle>>
           \/ idle # {} /\ idle' = {} /\ Head(r.batch).reclaimed /\ UNCHANGED <<toPublish, stream>>,
           pel'[START] = w,
           UNCHANGED rowVars
    PROVE  DriverInv'
<1>1. TypeOK /\ Delivery /\ Roles /\ Copies /\ Acked /\ Remembered
  BY DEF DriverInv
<1>2. worker'[w] = r /\ \A v \in Workers : v # w => worker'[v] = worker[v]
  BY DEF Puts
<1>3. UNCHANGED <<assessment, runStatus, heartbeat>>
  BY DEF rowVars
<1>4. pel'[START] # NoOne
  BY WorkerConstants
<1>5. \A v \in Workers : /\ ~Waiting(v) /\ ~Entering(v) /\ ~Entering(v)'
                         /\ Driving(v)' => Driving(v)
                         /\ Closing(v)' => Closing(v)
                         /\ Waiting(v)' => v = w
                         /\ v # w => (Busy(v)' => Busy(v))
  BY <1>1, <1>2 DEF Delivery, Driving, Entering, Closing, Waiting, Busy
<1>6. toPublish' = {} /\ stream' = << >> /\ idle' = {}
  BY <1>1 DEF Delivery
<1>7. ~Head(r.batch).reclaimed => \A v \in Workers \ {w} : ~Busy(v)'
  BY <1>1, <1>5 DEF Delivery
<1>8. Delivery'
  <2>1. Len(stream') <= 1
    BY <1>6
  <2>2. \A v \in Workers : worker'[v].batch # << >> =>
          worker'[v].pc = "free" /\ Len(worker'[v].batch) = 1
    BY <1>1, <1>2 DEF Delivery
  <2> QED
    BY <1>2, <1>5, <1>6, <1>7, <2>1, <2>2 DEF Delivery
<1>9. Roles'
  BY <1>1, <1>3, <1>5 DEF Roles, SingleDriver, Closed
<1>10. Copies'
  BY <1>1, <1>2, <1>3 DEF Copies
<1>11. Acked'
  BY <1>1, <1>2, <1>3, <1>5 DEF Acked
<1>12. Remembered'
  BY <1>4 DEF Remembered
<1> QED
  BY <1>8, <1>9, <1>10, <1>11, <1>12 DEF DriverInv

\* The entry is acknowledged, whoever has it by now.
LEMMA Acknowledges ==
    ASSUME DriverInv, TypeOK', NEW w \in Workers, worker[w].pc = "ack", NEW r, Puts(w, r),
           r.pc = "free", r.batch = << >>, r.snap = Unloaded,
           pel'[START] = NoOne, idle' = {},
           UNCHANGED <<rowVars, toPublish, stream>>
    PROVE  DriverInv'
<1>1. TypeOK /\ Delivery /\ Roles /\ Copies /\ Acked /\ Remembered
  BY DEF DriverInv
<1>2. worker'[w] = r /\ \A v \in Workers : v # w => worker'[v] = worker[v]
  BY DEF Puts
<1>3. UNCHANGED <<assessment, runStatus, heartbeat>>
  BY DEF rowVars
<1>4. Busy(w) /\ \A v \in Workers : /\ Driving(v)' => Driving(v)
                                    /\ Entering(v)' => Entering(v)
                                    /\ Closing(v)' => Closing(v)
                                    /\ Waiting(v)' => Waiting(v) /\ v # w
                                    /\ Busy(v)' => Busy(v)
  BY <1>2 DEF Driving, Entering, Closing, Waiting, Busy
<1>5. Delivery'
  BY <1>1, <1>2, <1>4 DEF Delivery
<1>6. Roles'
  BY <1>1, <1>3, <1>4 DEF Roles, SingleDriver, Closed
<1>7. Copies'
  BY <1>1, <1>2, <1>3 DEF Copies
<1>8. Acked'
  BY <1>1, <1>2, <1>3, <1>4 DEF Acked
<1>9. Remembered'
  <2> SUFFICES ASSUME runStatus \notin TerminalRunStatuses
               PROVE  /\ runStatus = "interrupted"
                      /\ \A v \in Workers : ~Entering(v)'
                      /\ \A v \in Workers : Waiting(v)' =>
                            heartbeat = "fresh" /\ Head(worker'[v].batch).reclaimed
    BY <1>3 DEF Remembered
  <2>1. runStatus = "interrupted" /\ heartbeat = "fresh" /\ \A v \in Workers : ~Entering(v)
    BY <1>1 DEF Acked
  <2>2. \A v \in Workers : Waiting(v) => Head(worker[v].batch).reclaimed
    BY <1>1, <1>4 DEF Delivery, Waiting
  <2> QED
    BY <1>2, <1>4, <2>1, <2>2
<1> QED
  BY <1>5, <1>6, <1>7, <1>8, <1>9 DEF DriverInv


\* The ways of the message on which no process moves.
Published ==
    /\ \E m \in toPublish : toPublish' = toPublish \ {m} /\ stream' = Append(stream, m)
    /\ UNCHANGED <<pel, idle>>

Unpublished ==
    /\ "publish" \in Faults
    /\ \E m \in toPublish : toPublish' = toPublish \ {m}
    /\ UNCHANGED <<stream, pel, idle>>

TurnsIdle ==
    /\ pel[START] # NoOne
    /\ \A w \in Workers : ~Waiting(w) /\ ~Entering(w)
    /\ UNCHANGED <<toPublish, stream, pel>>

\* What moves no process, changes neither the run nor its heartbeat and leaves
\* the assessment closed if it was.
LEMMA ProcessesRest ==
    ASSUME Alone, DriverInv, TypeOK', UNCHANGED <<runStatus, worker>>,
           heartbeat' = heartbeat \/ heartbeat' = "fresh",
           UNCHANGED assessment \/ assessment' = "CANCELLING",
           UNCHANGED streamVars \/ Published \/ Unpublished \/ TurnsIdle
    PROVE  DriverInv'
<1>1. TypeOK /\ Delivery /\ Roles /\ Copies /\ Acked /\ Remembered
  BY DEF DriverInv
<1>2. \A v \in Workers : /\ Driving(v)' <=> Driving(v)
                         /\ Entering(v)' <=> Entering(v)
                         /\ Closing(v)' <=> Closing(v)
                         /\ Waiting(v)' <=> Waiting(v)
                         /\ Busy(v)' <=> Busy(v)
  BY DEF Driving, Entering, Closing, Waiting, Busy
<1>3. Closed => Closed'
  BY DEF Closed
<1>4. Messages = {START} /\ toPublish \subseteq {START}
  BY <1>1 DEF Alone, Messages, START, TypeOK
<1>5. ASSUME UNCHANGED streamVars PROVE Delivery' /\ Remembered'
  <2>1. UNCHANGED <<toPublish, stream, pel, idle>>
    BY <1>5 DEF streamVars
  <2>2. Delivery'
    BY <1>1, <1>2, <2>1 DEF Delivery
  <2>3. Remembered'
    BY <1>1, <1>2, <2>1 DEF Remembered
  <2> QED
    BY <2>2, <2>3
<1>6. ASSUME Published PROVE Delivery' /\ Remembered'
  <2>1. PICK m \in toPublish : toPublish' = toPublish \ {m} /\ stream' = Append(stream, m)
    BY <1>6 DEF Published
  <2>2. stream = << >> /\ toPublish' = {}
    BY <1>1, <1>4, <2>1 DEF Delivery
  <2>3. toPublish # {} /\ Len(stream') = 1 /\ stream' # << >> /\ UNCHANGED <<pel, idle>>
    BY <1>6, <2>1, <2>2 DEF Published
  <2>4. pel[START] = NoOne /\ \A v \in Workers : ~Busy(v)
    BY <1>1, <2>3 DEF Delivery
  <2>5. Delivery'
    BY <1>1, <1>2, <2>2, <2>3, <2>4 DEF Delivery
  <2>6. Remembered'
    BY <2>3 DEF Remembered
  <2> QED
    BY <2>5, <2>6
<1>7. ASSUME Unpublished PROVE Delivery' /\ Remembered'
  <2>1. toPublish # {} /\ toPublish' = {} /\ UNCHANGED <<stream, pel, idle>>
    BY <1>4, <1>7 DEF Unpublished
  <2>2. Delivery'
    BY <1>1, <1>2, <2>1 DEF Delivery
  <2>3. Remembered'
    BY <1>7 DEF Remembered, Unpublished
  <2> QED
    BY <2>2, <2>3
<1>8. ASSUME TurnsIdle PROVE Delivery' /\ Remembered'
  <2>1. Delivery'
    BY <1>1, <1>2, <1>8 DEF Delivery, TurnsIdle
  <2>2. Remembered'
    BY <1>8 DEF Remembered, TurnsIdle
  <2> QED
    BY <2>1, <2>2
<1>9. Delivery' /\ Remembered'
  BY <1>5, <1>6, <1>7, <1>8
<1>10. Roles'
  BY <1>1, <1>2, <1>3 DEF Roles, SingleDriver
<1>11. Copies'
  BY <1>1 DEF Copies
<1>12. Acked'
  BY <1>1, <1>2 DEF Acked
<1> QED
  BY <1>9, <1>10, <1>11, <1>12 DEF DriverInv

\* The heartbeat gets old where nobody relies on it.
LEMMA HeartbeatRests ==
    ASSUME DriverInv, TypeOK', UNCHANGED <<assessment, runStatus, worker, streamVars>>,
           \A w \in Workers : worker[w].pc # "ack" /\ ~Driving(w) /\ ~Waiting(w)
    PROVE  DriverInv'
<1>1. TypeOK /\ Delivery /\ Roles /\ Copies /\ Acked /\ Remembered
  BY DEF DriverInv
<1>2. \A v \in Workers : /\ Driving(v)' <=> Driving(v)
                         /\ Entering(v)' <=> Entering(v)
                         /\ Closing(v)' <=> Closing(v)
                         /\ Waiting(v)' <=> Waiting(v)
                         /\ Busy(v)' <=> Busy(v)
  BY DEF Driving, Entering, Closing, Waiting, Busy
<1>3. UNCHANGED <<toPublish, stream, pel, idle>>
  BY DEF streamVars
<1>4. Delivery'
  BY <1>1, <1>2, <1>3 DEF Delivery
<1>5. Roles'
  BY <1>1, <1>2 DEF Roles, SingleDriver, Closed
<1>6. Copies'
  BY <1>1 DEF Copies
<1>7. Acked'
  BY DEF Acked
<1>8. Remembered'
  BY <1>1, <1>2, <1>3 DEF Remembered
<1> QED
  BY <1>4, <1>5, <1>6, <1>7, <1>8 DEF DriverInv


\* A process outside its consume loop has no batch left.
LEMMA NoBatch ==
    ASSUME DriverInv, NEW w \in Workers, worker[w].pc # "free"
    PROVE  worker[w].batch = << >>
  BY DEF DriverInv, Delivery

\* The driver's own steps.
LEMMA DrivingKeeps ==
    ASSUME DriverInv, TypeOK', NEW w \in Workers, Driving(w),
           \/ Invoke(w) \/ NodeLoad(w) \/ NodeCommit(w) \/ NodeRefused(w) \/ NodeRaise(w)
           \/ NodeReturn(w) \/ Settle(w) \/ SettleLoad(w) \/ SettleInterrupt(w)
           \/ SettleComplete(w) \/ FailureCommit(w)
    PROVE  DriverInv'
<1> DEFINE me == worker[w]
<1>1. TypeOK /\ me \in WorkerStates /\ worker \in [Workers -> WorkerStates]
  BY DEF DriverInv, TypeOK
<1>2. me.pc # "free" /\ me.batch = << >>
  BY NoBatch DEF Driving
<1> HIDE DEF me
<1>3. PICK r : /\ r \in WorkerStates
               /\ \A q : worker' = [worker EXCEPT ![w] = q] => q = r /\ Puts(w, r)
  <2>1. worker' \in [Workers -> WorkerStates]
    BY DEF TypeOK
  <2>2. PICK r : r = worker'[w]
    OBVIOUS
  <2>3. r \in WorkerStates
    BY <2>1, <2>2
  <2> QED
    BY <1>1, <2>2, <2>3 DEF Puts
<1>4. CASE Invoke(w)
  <2>1. \/ \E n : worker' = [worker EXCEPT ![w] =
                               [me EXCEPT !.pc = "node", !.node = n, !.step = 1]]
        \/ worker' = [worker EXCEPT ![w] = [me EXCEPT !.pc = "settle"]]
        \/ worker' = [worker EXCEPT ![w] = [me EXCEPT !.pc = "failure"]]
    BY <1>4, ZenonT(60) DEF Invoke, me
  <2>2. Puts(w, r) /\ r.pc \in {"node", "settle", "failure"} /\ r.batch = << >>
    <3>1. ASSUME NEW n, worker' = [worker EXCEPT ![w] =
                                     [me EXCEPT !.pc = "node", !.node = n, !.step = 1]]
          PROVE  Puts(w, r) /\ r.pc = "node" /\ r.batch = << >>
      <4>1. Puts(w, r) /\ r = [me EXCEPT !.pc = "node", !.node = n, !.step = 1]
        BY <1>3, <3>1
      <4> QED
        BY <1>1, <1>2, <4>1 DEF WorkerStates
    <3>2. ASSUME NEW pc, worker' = [worker EXCEPT ![w] = [me EXCEPT !.pc = pc]]
          PROVE  Puts(w, r) /\ r.pc = pc /\ r.batch = << >>
      <4>1. Puts(w, r) /\ r = [me EXCEPT !.pc = pc]
        BY <1>3, <3>2
      <4> QED
        BY <1>1, <1>2, <4>1 DEF WorkerStates
    <3> QED
      BY <2>1, <3>1, <3>2
  <2>3. UNCHANGED <<runStatus, heartbeat, streamVars>>
    BY <1>4 DEF Invoke
  <2>4. r.pc \in DrivingPoints /\ r.pc \notin {"txn", "failing"}
    BY <2>2 DEF DrivingPoints
  <2> QED
    BY <2>2, <2>3, <2>4, DriverGoesOn, SMTT(40)
<1>5. CASE NodeLoad(w)
  <2>1. \/ worker' = [worker EXCEPT ![w] = [me EXCEPT !.step = me.step + 1]]
        \/ worker' = [worker EXCEPT ![w] = [me EXCEPT !.pc = "txn", !.snap = Loaded]]
    BY <1>5 DEF NodeLoad, me
  <2>2. me.pc = "node" /\ Loaded.assessment = assessment
    BY <1>5 DEF NodeLoad, me, Loaded
  <2>3. /\ Puts(w, r) /\ r.pc \in {"node", "txn"} /\ r.batch = << >>
        /\ r.pc = "txn" => r.snap.assessment = assessment
    <3>1. /\ Puts(w, r)
          /\ \/ r = [me EXCEPT !.step = me.step + 1]
             \/ r = [me EXCEPT !.pc = "txn", !.snap = Loaded]
      BY <1>3, <2>1
    <3>2. CASE r = [me EXCEPT !.step = me.step + 1]
      BY <1>1, <1>2, <2>2, <3>1, <3>2 DEF WorkerStates
    <3>3. CASE r = [me EXCEPT !.pc = "txn", !.snap = Loaded]
      BY <1>1, <1>2, <2>2, <3>1, <3>3, SMTT(40) DEF WorkerStates
    <3> QED
      BY <3>1, <3>2, <3>3
  <2>4. UNCHANGED <<assessment, runStatus, heartbeat, streamVars>>
    BY <1>5 DEF NodeLoad, rowVars
  <2>5. r.pc \in DrivingPoints /\ (r.pc \in {"txn", "failing"} =>
                                      assessment' \in {r.snap.assessment, "CANCELLING"})
    BY <2>3, <2>4 DEF DrivingPoints
  <2> QED
    BY <2>3, <2>4, <2>5, DriverGoesOn
<1>6. CASE NodeCommit(w)
  <2>1. worker' = [worker EXCEPT ![w] =
                     [me EXCEPT !.pc = "node", !.step = me.step + 1, !.snap = Unloaded]]
    BY <1>6 DEF NodeCommit, me
  <2>2. Puts(w, r) /\ r.pc = "node" /\ r.batch = << >>
    <3>1. Puts(w, r) /\ r = [me EXCEPT !.pc = "node", !.step = me.step + 1, !.snap = Unloaded]
      BY <1>3, <2>1
    <3> QED
      BY <1>1, <1>2, <3>1 DEF WorkerStates
  <2>3. UNCHANGED <<runStatus, heartbeat, streamVars>>
    BY <1>6 DEF NodeCommit
  <2>4. r.pc \in DrivingPoints /\ r.pc \notin {"txn", "failing"}
    BY <2>2 DEF DrivingPoints
  <2> QED
    BY <2>2, <2>3, <2>4, DriverGoesOn
<1>7. CASE NodeRefused(w) \/ NodeRaise(w)
  <2>1. \/ worker' = [worker EXCEPT ![w] = [me EXCEPT !.pc = "failure", !.snap = Unloaded]]
        \/ worker' = [worker EXCEPT ![w] = [me EXCEPT !.pc = "failure"]]
    BY <1>7 DEF NodeRefused, NodeRaise, EndTxn, Goto, me
  <2>2. Puts(w, r) /\ r.pc = "failure" /\ r.batch = << >>
    <3>1. /\ Puts(w, r)
          /\ \/ r = [me EXCEPT !.pc = "failure", !.snap = Unloaded]
             \/ r = [me EXCEPT !.pc = "failure"]
      BY <1>3, <2>1
    <3> QED
      BY <1>1, <1>2, <3>1 DEF WorkerStates
  <2>3. UNCHANGED <<runStatus, heartbeat, streamVars>>
    BY <1>7 DEF NodeRefused, NodeRaise, rowVars
  <2>4. r.pc \in DrivingPoints /\ r.pc \notin {"txn", "failing"}
    BY <2>2 DEF DrivingPoints
  <2> QED
    BY <2>2, <2>3, <2>4, DriverGoesOn
<1>8. CASE NodeReturn(w)
  <2>1. \/ worker' = [worker EXCEPT ![w] = [me EXCEPT !.pc = "settle"]]
        \/ \E n : worker' = [worker EXCEPT ![w] = [me EXCEPT !.node = n, !.step = 1]]
    BY <1>8 DEF NodeReturn, me
  <2>2. me.pc = "node"
    BY <1>8 DEF NodeReturn, me
  <2>3. Puts(w, r) /\ r.pc \in {"node", "settle"} /\ r.batch = << >>
    <3>1. ASSUME NEW n, worker' = [worker EXCEPT ![w] = [me EXCEPT !.node = n, !.step = 1]]
          PROVE  Puts(w, r) /\ r.pc = "node" /\ r.batch = << >>
      <4>1. Puts(w, r) /\ r = [me EXCEPT !.node = n, !.step = 1]
        BY <1>3, <3>1
      <4> QED
        BY <1>1, <1>2, <2>2, <4>1 DEF WorkerStates
    <3>2. ASSUME worker' = [worker EXCEPT ![w] = [me EXCEPT !.pc = "settle"]]
          PROVE  Puts(w, r) /\ r.pc = "settle" /\ r.batch = << >>
      <4>1. Puts(w, r) /\ r = [me EXCEPT !.pc = "settle"]
        BY <1>3, <3>2
      <4> QED
        BY <1>1, <1>2, <4>1 DEF WorkerStates
    <3> QED
      BY <2>1, <3>1, <3>2
  <2>4. UNCHANGED <<runStatus, heartbeat, streamVars>>
    BY <1>8 DEF NodeReturn
  <2>5. r.pc \in DrivingPoints /\ r.pc \notin {"txn", "failing"}
    BY <2>3 DEF DrivingPoints
  <2> QED
    BY <2>3, <2>4, <2>5, DriverGoesOn
<1>9. CASE Settle(w)
  <2>1. PICK pc \in {"complete", "interrupt"} :
           worker' = [worker EXCEPT ![w] = [me EXCEPT !.pc = pc]]
    BY <1>9 DEF Settle, Goto, me
  <2>2. Puts(w, r) /\ r.pc = pc /\ r.batch = << >>
    <3>1. Puts(w, r) /\ r = [me EXCEPT !.pc = pc]
      BY <1>3, <2>1
    <3> QED
      BY <1>1, <1>2, <3>1 DEF WorkerStates
  <2>3. UNCHANGED <<runStatus, heartbeat, streamVars>>
    BY <1>9 DEF Settle, rowVars
  <2>4. r.pc \in DrivingPoints /\ r.pc \notin {"txn", "failing"}
    BY <2>2 DEF DrivingPoints
  <2> QED
    BY <2>2, <2>3, <2>4, DriverGoesOn
<1>10. CASE SettleLoad(w)
  <2>1. worker' = [worker EXCEPT ![w] = [me EXCEPT !.pc = "failing", !.snap = Loaded]]
    BY <1>10 DEF SettleLoad, Driving, me
  <2>2. Puts(w, r) /\ r.pc = "failing" /\ r.batch = << >> /\ r.snap = Loaded
    <3>1. Puts(w, r) /\ r = [me EXCEPT !.pc = "failing", !.snap = Loaded]
      BY <1>3, <2>1
    <3> QED
      BY <1>1, <1>2, <3>1 DEF WorkerStates
  <2>3. UNCHANGED <<assessment, runStatus, heartbeat, streamVars>>
    BY <1>10 DEF SettleLoad, rowVars
  <2>4. r.pc \in DrivingPoints /\ assessment' = r.snap.assessment
    BY <2>2, <2>3 DEF DrivingPoints, Loaded
  <2> QED
    BY <2>2, <2>3, <2>4, DriverGoesOn
<1>11. CASE SettleInterrupt(w) \/ SettleComplete(w) \/ FailureCommit(w)
  <2>1. \/ worker' = [worker EXCEPT ![w] = [me EXCEPT !.pc = "ack"]]
        \/ worker' = [worker EXCEPT ![w] = [me EXCEPT !.pc = "ack", !.snap = Unloaded]]
    BY <1>11 DEF SettleInterrupt, SettleComplete, FailureCommit, Goto, EndTxn, me
  <2>2. Puts(w, r) /\ r.pc = "ack" /\ r.batch = << >>
    <3>1. /\ Puts(w, r)
          /\ \/ r = [me EXCEPT !.pc = "ack"]
             \/ r = [me EXCEPT !.pc = "ack", !.snap = Unloaded]
      BY <1>3, <2>1
    <3> QED
      BY <1>1, <1>2, <3>1 DEF WorkerStates
  <2>3. /\ heartbeat' = "fresh" /\ UNCHANGED streamVars
        /\ runStatus' \in TerminalRunStatuses \cup {"interrupted"}
    BY <1>11 DEF SettleInterrupt, SettleComplete, FailureCommit, TerminalRunStatuses
  <2> QED
    BY <2>2, <2>3, DriverSettles
<1> QED
  BY <1>4, <1>5, <1>6, <1>7, <1>8, <1>9, <1>10, <1>11

LEMMA Replaced ==
    ASSUME TypeOK, TypeOK', NEW w \in Workers, NEW q, worker' = [worker EXCEPT ![w] = q]
    PROVE  Puts(w, q)
<1>1. worker \in [Workers -> WorkerStates] /\ worker' \in [Workers -> WorkerStates]
  BY DEF TypeOK
<1>2. worker'[w] = q
  BY <1>1
<1>3. q \in WorkerStates
  BY <1>1, <1>2
<1> QED
  BY <1>1, <1>2, <1>3 DEF Puts

\* The steps of a process that settles a run nobody drives.
LEMMA ClosingKeeps ==
    ASSUME DriverInv, TypeOK', NEW w \in Workers, Closing(w),
           SettleLoad(w) \/ TeardownCommit(w) \/ OrphanCommit(w)
    PROVE  DriverInv'
<1> DEFINE me == worker[w]
<1>1. TypeOK /\ me \in WorkerStates
  BY DEF DriverInv, TypeOK
<1>2. me.batch = << >>
  BY NoBatch DEF Closing
<1>3. CASE SettleLoad(w)
  <2>1. PICK pc \in {"tearing", "orphaning"} :
           worker' = [worker EXCEPT ![w] = [me EXCEPT !.pc = pc, !.snap = Loaded]]
    BY <1>3 DEF SettleLoad, Closing
  <2> DEFINE q == [me EXCEPT !.pc = pc, !.snap = Loaded]
  <2>2. Puts(w, q)
    BY <1>1, <2>1, Replaced
  <2>3. q.pc = pc /\ q.batch = << >> /\ q.snap = Loaded
    BY <1>1, <1>2 DEF WorkerStates
  <2>4. /\ me.pc \in {"teardown", "orphan"}
        /\ UNCHANGED <<rowVars, streamVars>>
        /\ Loaded.run = runStatus /\ Loaded.assessment = assessment
    BY <1>3 DEF SettleLoad, Closing, Loaded
  <2> HIDE DEF q
  <2> QED
    BY <2>2, <2>3, <2>4, CloserLoads
<1>4. CASE TeardownCommit(w) \/ OrphanCommit(w)
  <2> DEFINE q == [me EXCEPT !.pc = "ack", !.snap = Unloaded]
  <2>1. worker' = [worker EXCEPT ![w] = q]
    BY <1>4 DEF TeardownCommit, OrphanCommit, EndTxn
  <2>2. Puts(w, q)
    BY <1>1, <2>1, Replaced
  <2>3. q.pc = "ack" /\ q.batch = << >>
    BY <1>1, <1>2 DEF WorkerStates
  <2>4. /\ me.pc \in {"tearing", "orphaning"}
        /\ IF me.snap.run \in TerminalRunStatuses
             THEN UNCHANGED <<runStatus, heartbeat>>
             ELSE runStatus' = "cancelled" /\ heartbeat' = "fresh"
        /\ \/ UNCHANGED assessment
           \/ /\ me.pc = "tearing" /\ me.snap.assessment = "CANCELLING"
              /\ assessment' = "CANCELLED"
        /\ UNCHANGED streamVars
    BY <1>4 DEF TeardownCommit, OrphanCommit
  <2> HIDE DEF q
  <2> QED
    BY <2>2, <2>3, <2>4, CloserCommits
<1> QED
  BY <1>3, <1>4

\* The steps of a process on its way into the run.  Its message is the START,
\* so it is never refused for want of a principal.
LEMMA EnteringKeeps ==
    ASSUME Alone, DriverInv, TypeOK', NEW w \in Workers,
           Inspect(w) \/ EnterLoad(w) \/ EnterCommit(w)
    PROVE  DriverInv'
<1> DEFINE me == worker[w]
<1>1. TypeOK /\ me \in WorkerStates
  BY DEF DriverInv, TypeOK
<1>2. Entering(w)
  BY DEF Inspect, EnterLoad, EnterCommit, Entering
<1>3. me.batch = << >> /\ me.m = START
  BY <1>1, <1>2, NoBatch DEF Entering, Alone, Messages, START, WorkerStates
<1>4. CASE Inspect(w)
  <2>1. UNCHANGED <<rowVars, streamVars>>
    BY <1>4 DEF Inspect
  <2>2. CASE runStatus \in TerminalRunStatuses
    <3> DEFINE q == [me EXCEPT !.pc = "ack"]
    <3>1. Puts(w, q)
      <4>1. worker' = [worker EXCEPT ![w] = q]
        BY <1>4, <2>2 DEF Inspect
      <4> QED
        BY <1>1, <4>1, Replaced
    <3>2. q.pc = "ack" /\ q.batch = << >>
      BY <1>1, <1>3 DEF WorkerStates
    <3> HIDE DEF q
    <3> QED
      BY <1>2, <2>1, <2>2, <3>1, <3>2, EntererLooks
  <2>3. CASE runStatus \notin TerminalRunStatuses
    <3> DEFINE q == [me EXCEPT !.pc = "enter", !.entry = runStatus]
    <3>1. Puts(w, q)
      <4>1. worker' = [worker EXCEPT ![w] = q]
        BY <1>4, <2>3 DEF Inspect
      <4> QED
        BY <1>1, <4>1, Replaced
    <3>2. q.pc = "enter" /\ q.batch = << >>
      BY <1>1, <1>3 DEF WorkerStates
    <3> HIDE DEF q
    <3> QED
      BY <1>2, <2>1, <2>3, <3>1, <3>2, EntererLooks
  <2> QED
    BY <2>2, <2>3
<1>5. CASE EnterLoad(w)
  <2>1. UNCHANGED <<rowVars, streamVars>>
    BY <1>5 DEF EnterLoad
  <2>2. CASE runStatus \in TerminalRunStatuses
    <3> DEFINE q == [me EXCEPT !.pc = "ack"]
    <3>1. Puts(w, q)
      <4>1. worker' = [worker EXCEPT ![w] = q]
        BY <1>3, <1>5, <2>2 DEF EnterLoad
      <4> QED
        BY <1>1, <4>1, Replaced
    <3>2. q.pc = "ack" /\ q.batch = << >>
      BY <1>1, <1>3 DEF WorkerStates
    <3> HIDE DEF q
    <3> QED
      BY <1>2, <2>1, <2>2, <3>1, <3>2, EntererLooks
  <2>3. CASE runStatus \notin TerminalRunStatuses
    <3>1. PICK seed \in BOOLEAN :
             worker' = [worker EXCEPT ![w] = [me EXCEPT !.pc = "entering", !.seed = seed]]
      BY <1>3, <1>5, <2>3 DEF EnterLoad, HasCheckpoint
    <3> DEFINE q == [me EXCEPT !.pc = "entering", !.seed = seed]
    <3>2. Puts(w, q)
      BY <1>1, <3>1, Replaced
    <3>3. q.pc = "entering" /\ q.batch = << >>
      BY <1>1, <1>3 DEF WorkerStates
    <3> HIDE DEF q
    <3> QED
      BY <1>2, <2>1, <2>3, <3>2, <3>3, EntererLooks
  <2> QED
    BY <2>2, <2>3
<1>6. CASE EnterCommit(w)
  <2> DEFINE q == [me EXCEPT !.pc = "invoke"]
  <2>1. Puts(w, q)
    <3>1. worker' = [worker EXCEPT ![w] = q]
      BY <1>6 DEF EnterCommit, Goto
    <3> QED
      BY <1>1, <3>1, Replaced
  <2>2. q.pc = "invoke" /\ q.batch = << >>
    BY <1>1, <1>3 DEF WorkerStates
  <2>3. /\ me.pc = "entering" /\ runStatus' = "running" /\ heartbeat' = "fresh"
        /\ UNCHANGED <<assessment, streamVars>>
    BY <1>6 DEF EnterCommit
  <2> HIDE DEF q
  <2> QED
    BY <2>1, <2>2, <2>3, EntererDrives
<1> QED
  BY <1>4, <1>5, <1>6


\* The steps of the consume loop.
LEMMA ReadingKeeps ==
    ASSUME Alone, DriverInv, TypeOK', NEW w \in Workers, Read(w)
    PROVE  DriverInv'
<1> DEFINE me == worker[w]
           q  == worker'[w]
<1>1. TypeOK /\ me \in WorkerStates /\ Delivery
  BY DEF DriverInv, TypeOK
<1>2. /\ worker[w].pc = "free" /\ worker[w].batch = << >>
      /\ UNCHANGED <<rowVars, toPublish, idle>>
  BY DEF Read
<1>3. stream \in Seq({START}) /\ Len(stream) = 1 /\ stream # << >> /\ stream[1] = START
  <2>1. stream \in Seq({START})
    BY <1>1 DEF TypeOK, Alone, Messages, START
  <2>2. Len(stream) \in Nat /\ Len(stream) <= 1
    BY <1>1, <2>1 DEF Delivery
  <2>3. (IF Len(stream) < ReadBatch THEN Len(stream) ELSE ReadBatch) > 0
    BY DEF Read
  <2>4. Len(stream) = 1
    BY <2>2, <2>3
  <2> QED
    BY <2>1, <2>4
<1> DEFINE n == IF Len(stream) < ReadBatch THEN Len(stream) ELSE ReadBatch
<1>4. n = 1
  BY <1>3, WorkerConstants
<1>5. stream' = << >>
  <2>1. stream' = SubSeq(stream, n + 1, Len(stream))
    BY DEF Read
  <2> QED
    BY <1>3, <1>4, <2>1
<1>6. pel'[START] = w
  <2>1. pel' = [m \in Messages |-> IF m \in {stream[i] : i \in 1 .. n} THEN w ELSE pel[m]]
    BY DEF Read
  <2>2. START \in Messages /\ START \in {stream[i] : i \in 1 .. n}
    BY <1>3, <1>4 DEF Alone, Messages, START
  <2> QED
    BY <2>1, <2>2
<1>7. PICK b : b = [i \in 1 .. n |-> [m |-> stream[i], reclaimed |-> FALSE]]
  OBVIOUS
<1>8. Puts(w, [me EXCEPT !.batch = b])
  <2>1. worker' = [worker EXCEPT ![w] = [me EXCEPT !.batch = b]]
    BY <1>7 DEF Read
  <2> QED
    BY <1>1, <2>1, Replaced
<1>9. Len(b) = 1
  BY <1>4, <1>7
<1> DEFINE r == [me EXCEPT !.batch = b]
<1>10. r.pc = "free" /\ r.batch = b /\ r.snap = me.snap
  BY <1>1, <1>2 DEF WorkerStates
<1> HIDE DEF r, n
<1> QED
  BY <1>2, <1>3, <1>5, <1>6, <1>8, <1>9, <1>10, Receives DEF r

LEMMA ReclaimingKeeps ==
    ASSUME Alone, DriverInv, TypeOK', NEW w \in Workers, Reclaim(w)
    PROVE  DriverInv'
<1> DEFINE me == worker[w]
<1>1. TypeOK /\ me \in WorkerStates /\ Delivery
  BY DEF DriverInv, TypeOK
<1>2. /\ worker[w].pc = "free" /\ worker[w].batch = << >>
      /\ idle # {} /\ idle' = {}
      /\ UNCHANGED <<rowVars, toPublish, stream>>
  BY DEF Reclaim
<1>3. idle = {START} /\ START \in Messages
  <2>1. Messages = {START}
    BY DEF Alone, Messages, START
  <2> QED
    BY <1>1, <1>2, <2>1 DEF TypeOK
<1>4. Cardinality(idle) = 1
  BY <1>3, FS_Singleton
<1>5. pel'[START] = w
  BY <1>3 DEF Reclaim
<1>6. PICK p \in [1 .. 1 -> idle] :
         worker' = [worker EXCEPT ![w] =
                      [me EXCEPT !.batch = [i \in DOMAIN p |-> [m |-> p[i], reclaimed |-> TRUE]]]]
  BY <1>4 DEF Reclaim
<1>7. PICK b : b = [i \in DOMAIN p |-> [m |-> p[i], reclaimed |-> TRUE]]
  OBVIOUS
<1>8. Puts(w, [me EXCEPT !.batch = b])
  BY <1>1, <1>6, <1>7, Replaced
<1>9. Len(b) = 1 /\ Head(b).reclaimed
  <2>1. b = [i \in 1 .. 1 |-> [m |-> p[i], reclaimed |-> TRUE]]
    BY <1>6, <1>7
  <2>2. b \in Seq([m : idle, reclaimed : BOOLEAN]) /\ Len(b) = 1
    BY <2>1
  <2>3. Head(b) = b[1]
    BY <2>2
  <2> QED
    BY <2>1, <2>2, <2>3
<1> DEFINE r == [me EXCEPT !.batch = b]
<1>10. r.pc = "free" /\ r.batch = b /\ r.snap = me.snap
  BY <1>1, <1>2 DEF WorkerStates
<1> HIDE DEF r
<1> QED
  BY <1>2, <1>5, <1>8, <1>9, <1>10, Receives DEF r

LEMMA RestOfOne ==
    ASSUME NEW S, NEW s \in Seq(S), Len(s) = 1
    PROVE  Tail(s) = << >>
<1>1. s # << >>
  BY SMTT(40)
<1>2. Tail(s) \in Seq(S) /\ Len(Tail(s)) = 0
  BY <1>1, HeadTailProperties
<1> QED
  BY <1>2, EmptySeq

LEMMA DispatchingKeeps ==
    ASSUME DriverInv, TypeOK', NEW w \in Workers, Dispatch(w)
    PROVE  DriverInv'
<1> DEFINE me == worker[w]
           d  == Head(me.batch)
<1>1. TypeOK /\ me \in WorkerStates /\ Delivery
  BY DEF DriverInv, TypeOK
<1>2. Waiting(w) /\ UNCHANGED <<rowVars, streamVars>>
  BY DEF Dispatch, Waiting
<1>3. Tail(me.batch) = << >>
  <2>1. me.batch \in Seq(Deliveries)
    BY <1>1 DEF WorkerStates
  <2>2. Len(me.batch) = 1
    <3>1. worker[w].batch # << >>
      BY <1>2 DEF Waiting
    <3>2. \A v \in Workers : worker[v].batch # << >> => Len(worker[v].batch) = 1
      BY <1>1 DEF Delivery
    <3> QED
      BY <3>1, <3>2
  <2> QED
    BY <2>1, <2>2, RestOfOne
<1>4. worker' = [worker EXCEPT ![w] =
                   IF DispatchTo(d) = "free" THEN Free(<< >>)
                   ELSE [Free(<< >>) EXCEPT !.pc = DispatchTo(d), !.m = d.m]]
  BY <1>3 DEF Dispatch
<1>5. CASE DispatchTo(d) = "free"
  <2>1. Puts(w, Free(<< >>))
    BY <1>1, <1>4, <1>5, Replaced
  <2>2. Free(<< >>).pc = "free" /\ Free(<< >>).batch = << >>
    BY DEF Free
  <2> QED
    BY <1>2, <2>1, <2>2, LetsGo
<1>6. CASE DispatchTo(d) # "free"
  <2> DEFINE q == [Free(<< >>) EXCEPT !.pc = DispatchTo(d), !.m = d.m]
  <2>1. Puts(w, q)
    BY <1>1, <1>4, <1>6, Replaced
  <2>2. q.pc = DispatchTo(d) /\ q.batch = << >>
    BY DEF Free
  <2> HIDE DEF q
  <2> QED
    BY <1>2, <1>6, <2>1, <2>2, Dispatches
<1> QED
  BY <1>5, <1>6

LEMMA AcknowledgingKeeps ==
    ASSUME Alone, DriverInv, TypeOK', NEW w \in Workers, Ack(w)
    PROVE  DriverInv'
<1> DEFINE me == worker[w]
<1>1. TypeOK /\ me \in WorkerStates
  BY DEF DriverInv, TypeOK
<1>2. me.pc = "ack" /\ me.batch = << >> /\ me.m = START
  BY <1>1, NoBatch DEF Ack, WorkerStates, Alone, Messages, START
<1>3. pel'[START] = NoOne /\ idle' = {}
  BY <1>1, <1>2 DEF Ack, TypeOK, Alone, Messages, START
<1>4. UNCHANGED <<rowVars, toPublish, stream>>
  BY DEF Ack
<1>5. Puts(w, Free(<< >>))
  <2>1. worker' = [worker EXCEPT ![w] = Free(<< >>)]
    BY <1>2 DEF Ack
  <2> QED
    BY <1>1, <2>1, Replaced
<1>6. /\ Free(<< >>).pc = "free" /\ Free(<< >>).batch = << >>
      /\ Free(<< >>).snap = Unloaded
  BY DEF Free
<1> QED
  BY <1>2, <1>3, <1>4, <1>5, <1>6, Acknowledges

\* What a process has in hand gets lost, or the monitor stops it.
LEMMA TroubleKeeps ==
    ASSUME DriverInv, TypeOK', NEW w \in Workers,
           AckLost(w) \/ DatabaseError(w) \/ Crash(w) \/ Restart(w) \/ MonitorCancel(w)
    PROVE  DriverInv'
<1>1. TypeOK
  BY DEF DriverInv
<1>2. UNCHANGED <<rowVars, streamVars>>
  BY DEF AckLost, DatabaseError, Crash, Restart, MonitorCancel
<1>3. CASE AckLost(w) \/ DatabaseError(w) \/ Restart(w)
  <2>1. worker' = [worker EXCEPT ![w] = Free(<< >>)]
    BY <1>3, NoBatch DEF AckLost, DatabaseError, Restart, InAdvance
  <2>2. Puts(w, Free(<< >>))
    BY <1>1, <2>1, Replaced
  <2>3. Free(<< >>).pc = "free" /\ Free(<< >>).batch = << >>
    BY DEF Free
  <2> QED
    BY <1>2, <2>2, <2>3, LetsGo
<1>4. CASE Crash(w)
  <2> DEFINE q == [Free(<< >>) EXCEPT !.pc = "down"]
  <2>1. Puts(w, q)
    <3>1. worker' = [worker EXCEPT ![w] = q]
      BY <1>4 DEF Crash
    <3> QED
      BY <1>1, <3>1, Replaced
  <2>2. q.pc = "down" /\ q.batch = << >>
    BY DEF Free
  <2> HIDE DEF q
  <2> QED
    BY <1>2, <2>1, <2>2, LetsGo
<1>5. CASE MonitorCancel(w)
  <2> DEFINE q == [Free(worker[w].batch) EXCEPT !.pc = "teardown", !.m = worker[w].m]
  <2>1. Puts(w, q)
    <3>1. worker' = [worker EXCEPT ![w] = q]
      BY <1>5 DEF MonitorCancel
    <3> QED
      BY <1>1, <3>1, Replaced
  <2>2. q.pc = "teardown" /\ q.batch = << >>
    BY <1>5, NoBatch DEF Free, MonitorCancel, InAdvance
  <2>3. (Driving(w) \/ Entering(w)) /\ assessment = "CANCELLING"
    BY <1>5 DEF MonitorCancel, InAdvance, Driving, Entering
  <2> HIDE DEF q
  <2> QED
    BY <1>2, <2>1, <2>2, <2>3, MonitorStops
<1> QED
  BY <1>3, <1>4, <1>5


\* The steps on which no process moves.
LEMMA OthersKeep ==
    ASSUME Alone, DriverInv, TypeOK',
           \/ \E m \in Messages : Publish(m) \/ LosePublish(m) \/ BecomeIdle(m)
           \/ \E o \in Operators : CancelLoad(o) \/ CancelCommit(o)
           \/ \E w \in Workers : MonitorBeat(w)
    PROVE  DriverInv'
<1>1. TypeOK
  BY DEF DriverInv
<1>2. ASSUME NEW m \in Messages, Publish(m) PROVE DriverInv'
  <2>1. Published /\ UNCHANGED <<runStatus, worker, heartbeat, assessment>>
    BY <1>2 DEF Publish, Published, rowVars
  <2> QED
    BY <2>1, ProcessesRest
<1>3. ASSUME NEW m \in Messages, LosePublish(m) PROVE DriverInv'
  <2>1. Unpublished /\ UNCHANGED <<runStatus, worker, heartbeat, assessment>>
    BY <1>3 DEF LosePublish, Unpublished, Fault, rowVars
  <2> QED
    BY <2>1, ProcessesRest
<1>4. ASSUME NEW m \in Messages, BecomeIdle(m) PROVE DriverInv'
  <2>1. m = START
    BY DEF Alone, Messages, START
  <2>2. ASSUME NEW w \in Workers PROVE ~Waiting(w) /\ ~Entering(w)
    <3>1. worker[w] \in WorkerStates
      BY <1>1 DEF TypeOK
    <3>2. ~Handling(w, START)
      BY <1>4, <2>1 DEF BecomeIdle
    <3>3. ~Entering(w)
      <4>1. worker[w].m = START
        BY <3>1 DEF WorkerStates, Alone, Messages, START
      <4> QED
        BY <3>2, <4>1 DEF Handling, Entering, Prompt
    <3>4. ~Waiting(w)
      <4> SUFFICES ASSUME Waiting(w) PROVE FALSE
        OBVIOUS
      <4>1. worker[w].batch \in Seq(Deliveries) /\ worker[w].batch # << >>
        BY <3>1 DEF WorkerStates, Waiting
      <4>2. Head(worker[w].batch) \in Deliveries
        BY <4>1, HeadTailProperties
      <4>3. Head(worker[w].batch).m = START
        BY <4>2 DEF Deliveries, Alone, Messages, START
      <4> QED
        BY <3>2, <4>3 DEF Handling, Dispatching, Waiting, Alone
    <3> QED
      BY <3>3, <3>4
  <2>3. TurnsIdle /\ UNCHANGED <<runStatus, worker, heartbeat, assessment>>
    BY <1>4, <2>1, <2>2 DEF BecomeIdle, TurnsIdle, rowVars
  <2> QED
    BY <2>3, ProcessesRest
<1>5. ASSUME NEW o \in Operators, CancelLoad(o) \/ CancelCommit(o) PROVE DriverInv'
  <2>1. /\ UNCHANGED <<runStatus, worker, heartbeat, streamVars>>
        /\ UNCHANGED assessment \/ assessment' = "CANCELLING"
    BY <1>5 DEF CancelLoad, CancelCommit, rowVars
  <2> QED
    BY <2>1, ProcessesRest
<1>6. ASSUME NEW w \in Workers, MonitorBeat(w) PROVE DriverInv'
  <2>1. UNCHANGED <<runStatus, worker, assessment, streamVars>> /\ heartbeat' = "fresh"
    BY <1>6 DEF MonitorBeat
  <2> QED
    BY <2>1, ProcessesRest
<1> QED
  BY <1>2, <1>3, <1>4, <1>5, <1>6

\* The heartbeat of a run that somebody drives or has just settled does not age.
LEMMA AgeingKeeps ==
    ASSUME Alone, DriverInv, TypeOK', HeartbeatAges
    PROVE  DriverInv'
<1>1. UNCHANGED <<assessment, runStatus, worker, streamVars>>
  BY DEF HeartbeatAges
<1>2. ASSUME NEW w \in Workers PROVE worker[w].pc # "ack" /\ ~Driving(w) /\ ~Waiting(w)
  <2>1. /\ worker[w].pc # "ack" /\ ~Dispatching(w)
        /\ worker[w].pc \in InAdvance => runStatus # "running"
    BY DEF HeartbeatAges
  <2>2. ~Driving(w)
    BY <2>1 DEF DriverInv, Roles, Driving, InAdvance
  <2>3. ~Waiting(w)
    BY <2>1 DEF Dispatching, Waiting, Alone
  <2> QED
    BY <2>1, <2>2, <2>3
<1> QED
  BY <1>1, <1>2, HeartbeatRests

LEMMA DriverInit == Init => DriverInv
<1> SUFFICES ASSUME Init PROVE DriverInv
  OBVIOUS
<1>1. TypeOK
  BY TypeInit
<1>2. ASSUME NEW w \in Workers
      PROVE  worker[w].pc = "free" /\ worker[w].batch = << >> /\ worker[w].snap = Unloaded
  BY DEF Init, Free
<1>3. \A w \in Workers : /\ ~Waiting(w) /\ ~Entering(w) /\ ~Driving(w) /\ ~Closing(w) /\ ~Busy(w)
  BY <1>2 DEF Waiting, Entering, Driving, Closing, Busy
<1>4. /\ toPublish # {} /\ stream = << >> /\ idle = {} /\ START \in Messages
      /\ pel = [m \in Messages |-> NoOne]
  BY WorkerConstants DEF Init, Messages, START
<1>5. Delivery
  BY <1>2, <1>3, <1>4 DEF Delivery
<1>6. Roles
  BY <1>3 DEF Roles, SingleDriver
<1>7. Copies /\ Acked
  BY <1>2 DEF Copies, Acked
<1>8. Remembered
  BY <1>4 DEF Remembered
<1> QED
  BY <1>1, <1>5, <1>6, <1>7, <1>8 DEF DriverInv

LEMMA DriverStep == Alone /\ DriverInv /\ [Next]_vars => DriverInv'
<1> SUFFICES ASSUME Alone, DriverInv, [Next]_vars PROVE DriverInv'
  OBVIOUS
<1>1. TypeOK'
  BY TypeStep DEF DriverInv
<1>2. CASE UNCHANGED vars
  BY <1>1, <1>2, ProcessesRest DEF vars, streamVars
<1>3. CASE ApiStep
  <2>1. ~ \E i \in 1 .. MaxApprovals : TRUE
    BY DEF Alone
  <2> QED
    BY <1>1, <1>3, <2>1, OthersKeep DEF ApiStep
<1>4. CASE Time
  BY <1>1, <1>4, AgeingKeeps, OthersKeep DEF Time
<1>5. ASSUME NEW w \in Workers, WorkerStep(w) \/ MonitorStep(w) \/ Trouble(w)
      PROVE  DriverInv'
  <2>1. CASE Read(w) \/ Reclaim(w) \/ Dispatch(w) \/ Ack(w)
    BY <1>1, <2>1, ReadingKeeps, ReclaimingKeeps, DispatchingKeeps, AcknowledgingKeeps, SMTT(40)
  <2>2. CASE Inspect(w) \/ EnterLoad(w) \/ EnterCommit(w)
    BY <1>1, <2>2, EnteringKeeps, SMTT(40)
  <2>3. CASE \/ Invoke(w) \/ NodeLoad(w) \/ NodeCommit(w) \/ NodeRefused(w) \/ NodeRaise(w)
             \/ NodeReturn(w) \/ Settle(w) \/ SettleInterrupt(w)
             \/ SettleComplete(w) \/ FailureCommit(w)
    <3>1. Driving(w)
      BY <2>3 DEF Invoke, NodeLoad, NodeCommit, NodeRefused, NodeRaise, NodeReturn, Settle,
                  SettleInterrupt, SettleComplete, FailureCommit, Driving
    <3> QED
      BY <1>1, <2>3, <3>1, DrivingKeeps
  <2>4. CASE SettleLoad(w)
    <3>1. Driving(w) \/ Closing(w)
      BY <2>4 DEF SettleLoad, Driving, Closing
    <3> QED
      BY <1>1, <2>4, <3>1, DrivingKeeps, ClosingKeeps
  <2>5. CASE TeardownCommit(w) \/ OrphanCommit(w)
    <3>1. Closing(w)
      BY <2>5 DEF TeardownCommit, OrphanCommit, Closing
    <3> QED
      BY <1>1, <2>5, <3>1, ClosingKeeps
  <2>6. CASE AckLost(w) \/ DatabaseError(w) \/ Crash(w) \/ Restart(w) \/ MonitorCancel(w)
    BY <1>1, <2>6, TroubleKeeps
  <2>7. CASE MonitorBeat(w)
    BY <1>1, <2>7, OthersKeep
  <2> QED
    BY <1>5, <2>1, <2>2, <2>3, <2>4, <2>5, <2>6, <2>7, SMTT(40) DEF WorkerStep, MonitorStep, Trouble
<1> QED
  BY <1>2, <1>3, <1>4, <1>5 DEF Next

\* A run that asks for no approval is driven by one process at a time, whatever
\* crashes, loses its XACK, is reclaimed or is cancelled meanwhile: _dispatch
\* defers a reclaimed entry under a fresh heartbeat, and only the START can be
\* delivered.
THEOREM SingleDriverHolds ==
    ASSUME Alone PROVE Spec => []SingleDriver
<1>1. Init => DriverInv
  BY DriverInit
<1>2. DriverInv /\ [Next]_vars => DriverInv'
  BY DriverStep
<1>3. DriverInv => SingleDriver
  BY DEF DriverInv, Roles
<1> QED
  BY <1>1, <1>2, <1>3, PTL DEF Spec

\* Such a run, while it is neither settled nor waiting for a person, has its
\* request unpublished, in the stream or pending, so somebody will read or
\* reclaim it; unless the API loses the request between commit and XADD.
THEOREM NoStrandedRunHolds ==
    ASSUME Alone, "publish" \notin Faults PROVE Spec => []NoStrandedRun
<1>1. Init => DriverInv
  BY DriverInit
<1>2. DriverInv /\ [Next]_vars => DriverInv'
  BY DriverStep
<1>3. DriverInv => NoStrandedRun
  <2>1. START \in Messages
    BY WorkerConstants, SMTT(40) DEF Messages, START
  <2> QED
    BY <2>1, SMTT(40) DEF DriverInv, Remembered, NoStrandedRun, TerminalRunStatuses
<1> QED
  BY <1>1, <1>2, <1>3, PTL DEF Spec


\* Which steps of a process write the run's status or the assessment's.
LEMMA Writes ==
    ASSUME NEW w \in Workers, WorkerStep(w) \/ MonitorStep(w) \/ Trouble(w)
    PROVE  \/ UNCHANGED <<assessment, runStatus>>
           \/ EnterCommit(w) \/ NodeCommit(w) \/ SettleInterrupt(w) \/ SettleComplete(w)
           \/ FailureCommit(w) \/ TeardownCommit(w) \/ OrphanCommit(w)
  BY DEF rowVars, WorkerStep, Read, Reclaim, Dispatch, Ack, Inspect, EnterLoad, Invoke, NodeLoad,
      NodeRefused, NodeReturn, Settle, SettleLoad, MonitorStep, MonitorBeat, MonitorCancel,
      Trouble, NodeRaise, AckLost, DatabaseError, Crash, Restart

\* The run's status, once it is terminal, and what a step does to a finished
\* assessment.
RunStays == runStatus \in TerminalRunStatuses => runStatus' = runStatus

AssessmentStays ==
    assessment \in TerminalStatuses =>
        \/ assessment' = assessment
        \/ assessment' = "CANCELLING" /\ \E o \in Operators : cancelSeen[o] # "none"

LEMMA NothingReopens == DriverInv /\ [Next]_vars => RunStays /\ AssessmentStays
<1> SUFFICES ASSUME DriverInv, [Next]_vars PROVE RunStays /\ AssessmentStays
  OBVIOUS
<1>1. Roles /\ Copies /\ TypeOK
  BY DEF DriverInv
<1>2. CASE UNCHANGED <<assessment, runStatus>>
  BY <1>2 DEF RunStays, AssessmentStays
<1>3. ASSUME NEW o \in Operators, CancelCommit(o) PROVE RunStays /\ AssessmentStays
  BY <1>3 DEF CancelCommit, RunStays, AssessmentStays
<1>4. ASSUME NEW w \in Workers, WorkerStep(w) \/ MonitorStep(w) \/ Trouble(w)
      PROVE  RunStays /\ AssessmentStays
  <2>1. CASE EnterCommit(w)
    BY <1>1, <2>1 DEF EnterCommit, Copies, RunStays, AssessmentStays
  <2>2. CASE NodeCommit(w)
    <3>1. /\ UNCHANGED runStatus
          /\ worker[w].pc = "txn"
          /\ TransitionAllowed(worker[w].snap.assessment, Targets[worker[w].node][worker[w].step])
          /\ assessment' = IF Targets[worker[w].node][worker[w].step] = worker[w].snap.assessment
                           THEN assessment ELSE Targets[worker[w].node][worker[w].step]
      BY <2>2 DEF NodeCommit
    <3>2. assessment \in {worker[w].snap.assessment, "CANCELLING"}
      BY <1>1, <3>1 DEF Copies
    <3>3. assessment \in TerminalStatuses => assessment' = assessment
      BY <3>1, <3>2 DEF TransitionAllowed, ALLOWED_TRANSITIONS, TerminalStatuses, Statuses
    <3> QED
      BY <3>1, <3>3 DEF RunStays, AssessmentStays
  <2>3. CASE SettleInterrupt(w) \/ SettleComplete(w)
    <3>1. Driving(w) /\ UNCHANGED assessment
      BY <2>3 DEF SettleInterrupt, SettleComplete, Driving
    <3> QED
      BY <1>1, <3>1 DEF Roles, RunStays, AssessmentStays, TerminalRunStatuses
  <2>4. CASE FailureCommit(w)
    <3>1. Driving(w) /\ worker[w].pc = "failing"
      BY <2>4 DEF FailureCommit, Driving
    <3>2. assessment \in {worker[w].snap.assessment, "CANCELLING"}
      BY <1>1, <3>1 DEF Copies
    <3>3. assessment \in TerminalStatuses => assessment' = assessment
      BY <2>4, <3>2 DEF FailureCommit, TerminalStatuses
    <3> QED
      BY <1>1, <3>1, <3>3 DEF Roles, RunStays, AssessmentStays, TerminalRunStatuses
  <2>5. CASE TeardownCommit(w) \/ OrphanCommit(w)
    <3>1. RunStays
      BY <1>1, <2>5 DEF TeardownCommit, OrphanCommit, Copies, RunStays, TerminalRunStatuses
    <3>2. AssessmentStays
      BY <1>1, <2>5 DEF TeardownCommit, OrphanCommit, Copies, AssessmentStays, TerminalStatuses
    <3> QED
      BY <3>1, <3>2
  <2> QED
    BY <1>2, <1>4, <2>1, <2>2, <2>3, <2>4, <2>5, Writes
<1>5. CASE ApiStep
  BY <1>2, <1>3, <1>5 DEF ApiStep, Publish, LosePublish, CancelLoad, Resolve, rowVars
<1>6. CASE Time
  BY <1>2, <1>6 DEF Time, HeartbeatAges, BecomeIdle, rowVars
<1> QED
  BY <1>2, <1>4, <1>5, <1>6 DEF Next, vars

\* Neither the run nor its assessment comes back once it is settled, by no
\* redelivery, reclaim, crash or stale copy of the rows: only the commit of a
\* cancel request that loaded the assessment before it finished moves it.
THEOREM NothingReopenedHolds ==
    ASSUME Alone PROVE Spec => NothingReopened
<1>1. Init => DriverInv
  BY DriverInit
<1>2. DriverInv /\ [Next]_vars => DriverInv'
  BY DriverStep
<1>3. DriverInv /\ [Next]_vars =>
         /\ [(runStatus \in TerminalRunStatuses) => (runStatus' = runStatus)]_vars
         /\ [(assessment \in TerminalStatuses) =>
               \/ assessment' = assessment
               \/ assessment' = "CANCELLING" /\ \E o \in Operators : cancelSeen[o] # "none"]_vars
  BY NothingReopens DEF RunStays, AssessmentStays
<1> QED
  BY <1>1, <1>2, <1>3, PTL DEF Spec, NothingReopened, SettledOnce, FinishedOnce


\* The end of the graph is reached with a finished or a cancelled assessment,
\* and nobody runs the graph from there.
Ended ==
    /\ runStatus \in TerminalRunStatuses => Closed
    /\ checkpoint = "END" => Closed
    /\ \A w \in Workers : worker[w].pc \in {"node", "txn"} => checkpoint # "END"
    /\ \A w \in Workers : worker[w].pc = "complete" => checkpoint = "END"
    /\ \A w \in Workers :
          /\ worker[w].pc = "node"
          /\ "END" \in Edges[worker[w].node]
          /\ worker[w].step > Len(Targets[worker[w].node])
          => Closed

\* The last node finishes the assessment: generate_report asks for COMPLETED
\* after everything else, and it is not behind the gate.
EndsFinished ==
    \A n \in Nodes : "END" \in Edges[n] =>
        /\ n # GateNode
        /\ Len(Targets[n]) > 0
        /\ Targets[n][Len(Targets[n])] \in TerminalStatuses

EndsInv == DriverInv /\ TargetInv /\ Ended

\* A step that leaves the checkpoint alone and brings nobody into the graph.
LEMMA EndedStays ==
    ASSUME Ended, UNCHANGED checkpoint, Closed => Closed',
           runStatus' \in TerminalRunStatuses => runStatus \in TerminalRunStatuses \/ Closed',
           \A v \in Workers : \/ worker'[v] = worker[v]
                              \/ worker'[v].pc \notin {"node", "txn", "complete"}
    PROVE  Ended'
<1>1. (runStatus \in TerminalRunStatuses => Closed)'
  BY DEF Ended
<1>2. (checkpoint = "END" => Closed)'
  BY DEF Ended
<1>3. (\A w \in Workers : worker[w].pc \in {"node", "txn"} => checkpoint # "END")'
  BY DEF Ended
<1>4. (\A w \in Workers : worker[w].pc = "complete" => checkpoint = "END")'
  BY DEF Ended
<1>5. (\A w \in Workers :
          /\ worker[w].pc = "node"
          /\ "END" \in Edges[worker[w].node]
          /\ worker[w].step > Len(Targets[worker[w].node])
          => Closed)'
  BY DEF Ended
<1> QED
  BY <1>1, <1>2, <1>3, <1>4, <1>5 DEF Ended

\* A process at the start of a node that has something to ask for.
LEMMA NodeStarts ==
    ASSUME EndsFinished, TypeOK, NEW n \in Nodes, "END" \in Edges[n]
    PROVE  ~(1 > Len(Targets[n]))
<1>1. Len(Targets[n]) \in Nat
  BY GraphConstants
<1> QED
  BY <1>1 DEF EndsFinished

\* The steps inside the graph.
LEMMA GraphEnds ==
    ASSUME EndsFinished, EndsInv, TypeOK', NEW w \in Workers, Driving(w),
           Invoke(w) \/ NodeLoad(w) \/ NodeCommit(w) \/ NodeReturn(w) \/ Settle(w)
    PROVE  Ended'
<1> DEFINE me == worker[w]
<1>1. TypeOK /\ me \in WorkerStates /\ Roles /\ Copies /\ TargetInv /\ Ended
  BY DEF EndsInv, DriverInv, TypeOK
<1>2. runStatus = "running" /\ UNCHANGED runStatus /\ runStatus \notin TerminalRunStatuses
  BY <1>1, SMTT(40) DEF Roles, Invoke, NodeLoad, NodeCommit, NodeReturn, Settle, rowVars, TerminalRunStatuses
<1>3. \A v \in Workers : v # w =>
         worker[v].pc \notin {"node", "txn", "complete"} /\ worker'[v] = worker[v]
  <2>1. \A v \in Workers : v # w => ~Driving(v)
    BY <1>1, SMTT(40) DEF Roles, SingleDriver
  <2>2. PICK q : worker' = [worker EXCEPT ![w] = q]
    BY DEF Invoke, NodeLoad, NodeCommit, NodeReturn, Settle, Goto
  <2> QED
    BY <1>1, <2>1, <2>2, SMTT(40) DEF Driving, TypeOK
<1>4. me.node \in Nodes /\ me.step \in Nat \ {0} /\ "END" \notin Nodes
  BY <1>1, GraphConstants, SMTT(40) DEF WorkerStates
<1>5. CASE Invoke(w)
  <2>1. UNCHANGED assessment
    BY <1>5 DEF Invoke
  <2>2. ASSUME NEW n \in Nodes, checkpoint' = n,
               worker' = [worker EXCEPT ![w] =
                            [me EXCEPT !.pc = "node", !.node = n, !.step = 1]]
        PROVE  Ended'
    <3>1. worker'[w].pc = "node" /\ worker'[w].node = n /\ worker'[w].step = 1
      BY <1>1, <2>2 DEF TypeOK, WorkerStates
    <3>2. "END" \in Edges[n] => ~(1 > Len(Targets[n]))
      BY <1>1, NodeStarts
    <3> QED
      BY <1>1, <1>2, <1>3, <1>4, <2>1, <2>2, <3>1, <3>2 DEF Ended, Closed
  <2>3. ASSUME NEW pc \in {"settle", "failure"}, UNCHANGED checkpoint,
               worker' = [worker EXCEPT ![w] = [me EXCEPT !.pc = pc]]
        PROVE  Ended'
    <3>1. worker'[w].pc = pc
      BY <1>1, <2>3 DEF TypeOK, WorkerStates
    <3> QED
      BY <1>1, <1>2, <1>3, <2>1, <2>3, <3>1, EndedStays DEF Closed
  <2>4. FirstNode \in Nodes
    BY GraphConstants
  <2> QED
    BY <1>5, <2>2, <2>3, <2>4, ZenonT(60) DEF Invoke
<1>6. CASE NodeLoad(w)
  <2>1. UNCHANGED <<assessment, checkpoint>> /\ me.pc = "node"
    BY <1>6 DEF NodeLoad, rowVars
  <2>2. ASSUME me.node = GateNode, worker' = [worker EXCEPT ![w] = [me EXCEPT !.step = me.step + 1]]
        PROVE  Ended'
    <3>1. worker'[w].pc = "node" /\ worker'[w].node = GateNode
      BY <1>1, <2>1, <2>2 DEF TypeOK, WorkerStates
    <3>2. "END" \notin Edges[GateNode]
      BY GraphConstants DEF EndsFinished
    <3> QED
      BY <1>1, <1>2, <1>3, <2>1, <3>1, <3>2 DEF Ended, Closed
  <2>3. ASSUME worker' = [worker EXCEPT ![w] = [me EXCEPT !.pc = "txn", !.snap = Loaded]]
        PROVE  Ended'
    <3>1. worker'[w].pc = "txn"
      BY <1>1, <2>3 DEF TypeOK, WorkerStates
    <3> QED
      BY <1>1, <1>2, <1>3, <2>1, <3>1 DEF Ended, Closed
  <2> QED
    BY <1>6, <2>2, <2>3 DEF NodeLoad
<1>7. CASE NodeCommit(w)
  <2> DEFINE to == Targets[me.node][me.step]
  <2>1. /\ UNCHANGED checkpoint /\ me.pc = "txn"
        /\ assessment' = IF to = me.snap.assessment THEN assessment ELSE to
        /\ worker' = [worker EXCEPT ![w] =
                        [me EXCEPT !.pc = "node", !.step = me.step + 1, !.snap = Unloaded]]
    BY <1>7 DEF NodeCommit
  <2>2. worker'[w].pc = "node" /\ worker'[w].node = me.node /\ worker'[w].step = me.step + 1
    BY <1>1, <2>1 DEF TypeOK, WorkerStates
  <2>3. checkpoint # "END"
    BY <1>1, <2>1 DEF Ended
  <2>4. "END" \in Edges[me.node] /\ me.step + 1 > Len(Targets[me.node]) => Closed'
    <3> SUFFICES ASSUME "END" \in Edges[me.node], me.step + 1 > Len(Targets[me.node])
                 PROVE  Closed'
      OBVIOUS
    <3>1. me.step = Len(Targets[me.node])
      <4>1. Targets[me.node] \in Seq(Statuses \ {"CREATED", "CANCELLING"})
        BY <1>4, GraphConstants
      <4>2. me.step \in DOMAIN Targets[me.node]
        BY <1>1, <2>1 DEF TargetInv
      <4> QED
        BY <4>1, <4>2
    <3>2. to \in TerminalStatuses
      BY <1>4, <3>1 DEF EndsFinished
    <3>3. assessment \in {me.snap.assessment, "CANCELLING"}
      BY <1>1, <2>1 DEF Copies
    <3> QED
      BY <2>1, <3>2, <3>3 DEF Closed
  <2> HIDE DEF to
  <2> QED
    BY <1>1, <1>2, <1>3, <2>1, <2>2, <2>3, <2>4 DEF Ended
<1>8. CASE NodeReturn(w)
  <2>1. PICK n \in Edges[me.node] :
           /\ checkpoint' = n
           /\ worker' = IF n \in {"END", GateNode}
                        THEN [worker EXCEPT ![w] = [me EXCEPT !.pc = "settle"]]
                        ELSE [worker EXCEPT ![w] = [me EXCEPT !.node = n, !.step = 1]]
    BY <1>8 DEF NodeReturn
  <2>2. me.pc = "node" /\ me.step > Len(Targets[me.node]) /\ UNCHANGED assessment
    BY <1>8 DEF NodeReturn
  <2>3. n \in Nodes \/ n = "END"
    BY <1>4, <2>1, GraphConstants
  <2>4. n = "END" => Closed'
    BY <1>1, <2>1, <2>2 DEF Ended, Closed
  <2>5. CASE n \in {"END", GateNode}
    <3>1. worker'[w].pc = "settle"
      BY <1>1, <2>1, <2>5 DEF TypeOK, WorkerStates
    <3> QED
      BY <1>1, <1>2, <1>3, <2>1, <2>4, <3>1 DEF Ended
  <2>6. CASE n \notin {"END", GateNode}
    <3>1. worker'[w].pc = "node" /\ worker'[w].node = n /\ worker'[w].step = 1
      BY <1>1, <2>1, <2>2, <2>6 DEF TypeOK, WorkerStates
    <3>2. "END" \in Edges[n] => ~(1 > Len(Targets[n]))
      BY <1>1, <2>3, <2>6, NodeStarts
    <3> QED
      BY <1>1, <1>2, <1>3, <2>1, <2>6, <3>1, <3>2 DEF Ended
  <2> QED
    BY <2>5, <2>6
<1>9. CASE Settle(w)
  <2>1. UNCHANGED <<assessment, checkpoint>>
    BY <1>9 DEF Settle, rowVars
  <2>2. worker'[w].pc = IF checkpoint = "END" THEN "complete" ELSE "interrupt"
    BY <1>1, <1>9 DEF Settle, Goto, TypeOK, WorkerStates
  <2> QED
    BY <1>1, <1>2, <1>3, <2>1, <2>2 DEF Ended, Closed
<1> QED
  BY <1>5, <1>6, <1>7, <1>8, <1>9


\* The steps outside it.
LEMMA StaysOutside ==
    ASSUME TypeOK, NEW w \in Workers,
           WorkerStep(w) \/ MonitorStep(w) \/ Trouble(w),
           ~(Invoke(w) \/ NodeLoad(w) \/ NodeCommit(w) \/ NodeReturn(w) \/ Settle(w))
    PROVE  \A v \in Workers : \/ worker'[v] = worker[v]
                              \/ worker'[v].pc \notin {"node", "txn", "complete"}
<1> DEFINE me == worker[w]
           Within == {"node", "txn", "complete"}
<1>0. me \in WorkerStates /\ worker \in [Workers -> WorkerStates]
  BY DEF TypeOK
<1>1. SUFFICES \/ UNCHANGED worker
               \/ \E r : worker' = [worker EXCEPT ![w] = r] /\ r.pc \notin Within
  BY <1>0
<1>2. CASE Read(w) \/ Reclaim(w)
  <2>1. PICK b : worker' = [worker EXCEPT ![w] = [me EXCEPT !.batch = b]]
    BY <1>2 DEF Read, Reclaim
  <2>2. me.pc = "free"
    BY <1>2 DEF Read, Reclaim
  <2>3. [me EXCEPT !.batch = b].pc \notin Within
    BY <1>0, <2>2 DEF WorkerStates
  <2> QED BY <2>1, <2>3
<1>3. CASE Dispatch(w)
  <2> DEFINE d == Head(me.batch)
             rest == Tail(me.batch)
  <2>1. \/ worker' = [worker EXCEPT ![w] = Free(rest)]
        \/ worker' = [worker EXCEPT ![w] = [Free(rest) EXCEPT !.pc = DispatchTo(d), !.m = d.m]]
    BY <1>3 DEF Dispatch
  <2>2. Free(rest).pc \notin Within
    BY DEF Free
  <2>3. DispatchTo(d) \notin Within
    BY DEF DispatchTo
  <2>4. [Free(rest) EXCEPT !.pc = DispatchTo(d), !.m = d.m].pc \notin Within
    BY <2>3 DEF Free
  <2> QED BY <2>1, <2>2, <2>4
<1>4. CASE Ack(w) \/ AckLost(w) \/ DatabaseError(w)
  <2>1. worker' = [worker EXCEPT ![w] = Free(me.batch)]
    BY <1>4 DEF Ack, AckLost, DatabaseError
  <2>2. Free(me.batch).pc \notin Within
    BY DEF Free
  <2> QED BY <2>1, <2>2
<1>5. CASE Inspect(w)
  <2>1. \/ worker' = [worker EXCEPT ![w] = [me EXCEPT !.pc = "ack"]]
        \/ worker' = [worker EXCEPT ![w] = [me EXCEPT !.pc = "enter", !.entry = runStatus]]
    BY <1>5 DEF Inspect
  <2>2. /\ [me EXCEPT !.pc = "ack"].pc \notin Within
        /\ [me EXCEPT !.pc = "enter", !.entry = runStatus].pc \notin Within
    BY <1>0 DEF WorkerStates
  <2> QED BY <2>1, <2>2
<1>6. CASE EnterLoad(w)
  <2>1. \/ worker' = [worker EXCEPT ![w] = [me EXCEPT !.pc = "failure"]]
        \/ worker' = [worker EXCEPT ![w] = [me EXCEPT !.pc = "ack"]]
        \/ \E b : worker' = [worker EXCEPT ![w] = [me EXCEPT !.pc = "entering", !.seed = b]]
    BY <1>6, ZenonT(60) DEF EnterLoad
  <2>2. /\ [me EXCEPT !.pc = "failure"].pc \notin Within
        /\ [me EXCEPT !.pc = "ack"].pc \notin Within
        /\ \A b : [me EXCEPT !.pc = "entering", !.seed = b].pc \notin Within
    BY <1>0 DEF WorkerStates
  <2> QED BY <2>1, <2>2
<1>7. CASE MonitorCancel(w)
  <2>1. worker' = [worker EXCEPT ![w] = [Free(me.batch) EXCEPT !.pc = "teardown", !.m = me.m]]
    BY <1>7 DEF MonitorCancel
  <2>2. [Free(me.batch) EXCEPT !.pc = "teardown", !.m = me.m].pc \notin Within
    BY DEF Free
  <2> QED BY <2>1, <2>2
<1>8. CASE Crash(w) \/ Restart(w)
  <2>1. \/ worker' = [worker EXCEPT ![w] = Free(<< >>)]
        \/ worker' = [worker EXCEPT ![w] = [Free(<< >>) EXCEPT !.pc = "down"]]
    BY <1>8 DEF Crash, Restart
  <2>2. Free(<< >>).pc \notin Within /\ [Free(<< >>) EXCEPT !.pc = "down"].pc \notin Within
    BY DEF Free
  <2> QED BY <2>1, <2>2
<1>9. CASE EnterCommit(w) \/ NodeRaise(w) \/ SettleInterrupt(w) \/ SettleComplete(w)
  <2>1. PICK pc : pc \notin Within /\ worker' = [worker EXCEPT ![w] = [me EXCEPT !.pc = pc]]
    BY <1>9 DEF EnterCommit, NodeRaise, SettleInterrupt, SettleComplete, Goto
  <2>2. [me EXCEPT !.pc = pc].pc \notin Within
    BY <1>0, <2>1 DEF WorkerStates
  <2> QED BY <2>1, <2>2
<1>10. CASE NodeRefused(w) \/ FailureCommit(w) \/ TeardownCommit(w) \/ OrphanCommit(w)
  <2>1. PICK pc : /\ pc \notin Within
                  /\ worker' = [worker EXCEPT ![w] = [me EXCEPT !.pc = pc, !.snap = Unloaded]]
    BY <1>10, ZenonT(60) DEF NodeRefused, FailureCommit, TeardownCommit, OrphanCommit, EndTxn
  <2>2. [me EXCEPT !.pc = pc, !.snap = Unloaded].pc \notin Within
    BY <1>0, <2>1 DEF WorkerStates
  <2> QED BY <2>1, <2>2
<1>11. CASE SettleLoad(w)
  <2>1. PICK pc \in {"failing", "tearing", "orphaning"} :
           worker' = [worker EXCEPT ![w] = [me EXCEPT !.pc = pc, !.snap = Loaded]]
    BY <1>11 DEF SettleLoad
  <2>2. [me EXCEPT !.pc = pc, !.snap = Loaded].pc \notin Within
    BY <1>0 DEF WorkerStates
  <2> QED BY <2>1, <2>2
<1>12. CASE MonitorBeat(w)
  BY <1>12 DEF MonitorBeat
<1> QED
  BY <1>2, <1>3, <1>4, <1>5, <1>6, <1>7, <1>8, <1>9, <1>10, <1>11, <1>12
  DEF WorkerStep, MonitorStep, Trouble

LEMMA OutsideEnds ==
    ASSUME EndsInv, NEW w \in Workers,
           WorkerStep(w) \/ MonitorStep(w) \/ Trouble(w),
           ~(Invoke(w) \/ NodeLoad(w) \/ NodeCommit(w) \/ NodeReturn(w) \/ Settle(w))
    PROVE  Ended'
<1>1. TypeOK /\ Roles /\ Copies /\ Ended
  BY SMTT(40) DEF EndsInv, DriverInv
<1>2. UNCHANGED checkpoint
  BY DEF rowVars, WorkerStep, Read, Reclaim, Dispatch, Ack, Inspect, EnterLoad, EnterCommit,
      NodeRefused, SettleLoad, SettleInterrupt, SettleComplete, FailureCommit, TeardownCommit,
      OrphanCommit, MonitorStep, MonitorBeat, MonitorCancel, Trouble, NodeRaise, AckLost,
      DatabaseError, Crash, Restart
<1>3. /\ Closed => Closed'
      /\ runStatus' \in TerminalRunStatuses => runStatus \in TerminalRunStatuses \/ Closed'
  <2>1. CASE UNCHANGED <<assessment, runStatus>>
    BY <2>1 DEF Closed
  <2>2. CASE EnterCommit(w) \/ SettleInterrupt(w)
    BY <2>2 DEF EnterCommit, SettleInterrupt, Closed, TerminalRunStatuses
  <2>3. CASE SettleComplete(w)
    BY <1>1, <2>3 DEF SettleComplete, Ended, Closed
  <2>4. CASE FailureCommit(w)
    <3>1. assessment \in {worker[w].snap.assessment, "CANCELLING"}
      BY <1>1, <2>4 DEF FailureCommit, Copies
    <3> QED
      BY <2>4, <3>1 DEF FailureCommit, Closed, TerminalStatuses
  <2>5. CASE TeardownCommit(w) \/ OrphanCommit(w)
    <3>1. Closed
      BY <1>1, <2>5 DEF TeardownCommit, OrphanCommit, Roles, Closing
    <3> QED
      BY <2>5, <3>1 DEF TeardownCommit, OrphanCommit, Closed, TerminalStatuses
  <2> QED
    BY <2>1, <2>2, <2>3, <2>4, <2>5, Writes
<1> QED
  BY <1>1, <1>2, <1>3, StaysOutside, EndedStays, SMTT(40)

LEMMA EndsStep == Alone /\ EndsFinished /\ EndsInv /\ [Next]_vars => EndsInv'
<1> SUFFICES ASSUME Alone, EndsFinished, EndsInv, [Next]_vars PROVE EndsInv'
  OBVIOUS
<1>1. DriverInv' /\ TargetInv' /\ TypeOK'
  BY DriverStep, TargetStep DEF EndsInv, DriverInv
<1>2. Ended
  BY DEF EndsInv
<1>3. ASSUME UNCHANGED <<checkpoint, runStatus, worker>>, Closed => Closed' PROVE Ended'
  BY <1>2, <1>3 DEF Ended
<1>4. ASSUME UNCHANGED vars PROVE Ended'
  BY <1>3, <1>4 DEF vars, Closed
<1>5. ASSUME ApiStep PROVE Ended'
  <2>1. /\ UNCHANGED <<checkpoint, runStatus, worker>>
        /\ UNCHANGED assessment \/ assessment' = "CANCELLING"
    BY <1>5 DEF ApiStep, Publish, LosePublish, CancelLoad, CancelCommit, Resolve, rowVars
  <2> QED
    BY <1>3, <2>1 DEF Closed
<1>6. ASSUME Time PROVE Ended'
  <2>1. UNCHANGED <<checkpoint, runStatus, worker, assessment>>
    BY <1>6, SMTT(40) DEF Time, HeartbeatAges, BecomeIdle, rowVars
  <2> QED
    BY <1>3, <2>1 DEF Closed
<1>7. ASSUME NEW w \in Workers, WorkerStep(w) \/ MonitorStep(w) \/ Trouble(w) PROVE Ended'
  <2>1. CASE Invoke(w) \/ NodeLoad(w) \/ NodeCommit(w) \/ NodeReturn(w) \/ Settle(w)
    <3>1. Driving(w)
      BY <2>1 DEF Invoke, NodeLoad, NodeCommit, NodeReturn, Settle, Driving
    <3> QED
      BY <1>1, <2>1, <3>1, GraphEnds
  <2>2. CASE ~(Invoke(w) \/ NodeLoad(w) \/ NodeCommit(w) \/ NodeReturn(w) \/ Settle(w))
    BY <1>7, <2>2, OutsideEnds
  <2> QED
    BY <2>1, <2>2
<1>8. Ended'
  BY <1>4, <1>5, <1>6, <1>7 DEF Next
<1> QED
  BY <1>1, <1>8 DEF EndsInv

\* When such a run is over, so is its assessment, or a cancel request that came
\* late has reopened it: every way of settling the run settles both, on any
\* graph whose last node finishes the assessment, as generate_report does.
THEOREM NoOpenAssessmentOfSettledRunHolds ==
    ASSUME Alone, EndsFinished PROVE Spec => []NoOpenAssessmentOfSettledRun
<1>1. Init => EndsInv
  <2> SUFFICES ASSUME Init PROVE EndsInv
    OBVIOUS
  <2>1. \A w \in Workers : worker[w].pc = "free"
    BY DEF Init, Free
  <2>2. TargetInv
    BY <2>1 DEF TargetInv
  <2>3. Ended
    BY <2>1 DEF Init, Ended, TerminalRunStatuses
  <2> QED
    BY <2>2, <2>3, DriverInit DEF EndsInv
<1>2. EndsInv /\ [Next]_vars => EndsInv'
  BY EndsStep
<1>3. EndsInv => NoOpenAssessmentOfSettledRun
  BY DEF EndsInv, Ended, Closed, NoOpenAssessmentOfSettledRun
<1> QED
  BY <1>1, <1>2, <1>3, PTL DEF Spec

-----------------------------------------------------------------------------
(* The gate. What takes a run through it is a RESUME, and a RESUME is sent *)
(* for an answer; so GateHonoured can only fail when a question is opened  *)
(* after the answer that is under way. It is proved for one process, and   *)
(* for any number of processes if answers wait for the asking one.         *)

Pending == \E i \in DOMAIN approvals : approvals[i] = "pending"

Sole(w) == w \in Workers /\ \A v \in Workers : v = w

Answered(m) == m # START => m \in DOMAIN approvals /\ approvals[m] # "pending"
InBatch(w, m) == \E i \in DOMAIN worker[w].batch : worker[w].batch[i].m = m
InHand(w, m) == worker[w].pc # "free" /\ worker[w].m = m

\* A RESUME is the answer to a question, an entry is delivered once, and is
\* pending only as long as the process has it.
Mail(w) ==
    /\ \A m \in toPublish : Answered(m)
    /\ \A i \in DOMAIN stream : Answered(stream[i])
    /\ \A i \in DOMAIN worker[w].batch :
          Answered(worker[w].batch[i].m) /\ ~worker[w].batch[i].reclaimed
    /\ worker[w].pc # "free" => Answered(worker[w].m)
    /\ \A m \in Messages : pel[m] # NoOne => InHand(w, m) \/ InBatch(w, m)
    /\ \A m \in idle : pel[m] # NoOne

Unread(w) == START \in toPublish \/ (\E i \in DOMAIN stream : stream[i] = START) \/ InBatch(w, START)

\* START is read once, before anything else happens.
ReadOnce(w) ==
    Unread(w) =>
      /\ approvals = << >> /\ runStatus = "queued" /\ worker[w].pc = "free"
      /\ Len(stream) <= 1 /\ Len(worker[w].batch) <= 1
      /\ START \in toPublish => stream = << >>
      /\ START \in toPublish \/ stream # << >> => worker[w].batch = << >>

Behind(after) == checkpoint \in after \cup {"END"}
Past(after, w) ==
    \/ worker[w].node \in after
    \/ worker[w].node = ApprovalNode /\ worker[w].pc = "node" /\ worker[w].step > 1

\* Where the process is tells what has been asked, and where a RESUME goes on.
Course(after, w) ==
    /\ worker[w].pc # "down"
    /\ worker[w].pc \in {"free", "ack"} =>
         Unread(w) \/ runStatus \in TerminalRunStatuses \cup {"interrupted"}
    /\ worker[w].pc = "inspect" =>
         IF worker[w].m = START THEN approvals = << >> /\ runStatus = "queued"
         ELSE runStatus \in TerminalRunStatuses \cup {"interrupted"}
    /\ worker[w].pc = "enter" =>
         IF worker[w].m = START THEN approvals = << >> /\ worker[w].entry = "queued"
         ELSE Behind(after) /\ worker[w].entry = "interrupted"
    /\ worker[w].pc \in {"entering", "invoke"} =>
         IF worker[w].m = START THEN approvals = << >> /\ worker[w].seed
         ELSE Behind(after) /\ ~worker[w].seed
    /\ worker[w].pc \in {"invoke", "node", "txn"} => runStatus = "running"
    /\ worker[w].pc \in {"node", "txn"} =>
         /\ approvals = << >> \/ Past(after, w)
         /\ worker[w].node = GateNode => ~Pending
    /\ worker[w].pc \in {"settle", "interrupt"} => approvals = << >> \/ Behind(after)
    /\ worker[w].pc \in {"tearing", "orphaning"} => worker[w].snap.run = runStatus

Saved(after) ==
    /\ Len(approvals) <= 1
    /\ runStatus = "interrupted" => approvals = << >> \/ Behind(after)

SoleInv(after, w) == Mail(w) /\ ReadOnce(w) /\ Course(after, w) /\ Saved(after)

\* What the process has in hand and in its batch stays; the rows change.
LEMMA HandStays ==
    ASSUME TypeOK, TypeOK', NEW w \in Workers, Mail(w), ReadOnce(w),
           worker[w].pc # "free", NEW r, worker' = [worker EXCEPT ![w] = r],
           r.pc # "free", r.batch = worker[w].batch, r.m = worker[w].m,
           UNCHANGED streamVars,
           approvals' = approvals \/ approvals' = Append(approvals, "pending")
    PROVE  Mail(w)' /\ ReadOnce(w)' /\ ~Unread(w) /\ ~Unread(w)'
<1>1. worker'[w] = r
  BY DEF TypeOK
<1>2. ~Unread(w)
  BY DEF ReadOnce
<1>3. ~Unread(w)'
  BY <1>1, <1>2 DEF Unread, InBatch, streamVars
<1>4. \A m : Answered(m) => Answered(m)'
  <2>1. \A m \in DOMAIN approvals : m \in DOMAIN approvals' /\ approvals'[m] = approvals[m]
    <3>1. approvals \in Seq({"pending", "approved", "rejected"})
      BY DEF TypeOK
    <3> QED
      BY <3>1, AppendProperties
  <2> QED
    BY <2>1 DEF Answered
<1>5. Mail(w)'
  BY <1>1, <1>4 DEF Mail, InHand, InBatch, streamVars
<1> QED
  BY <1>2, <1>3, <1>5 DEF ReadOnce

\* The steps of advance and of the worker's own settling.
Handles(w) ==
    \/ Inspect(w) \/ EnterLoad(w) \/ EnterCommit(w) \/ Invoke(w)
    \/ NodeLoad(w) \/ NodeCommit(w) \/ NodeRefused(w) \/ NodeReturn(w) \/ NodeRaise(w)
    \/ Settle(w) \/ SettleInterrupt(w) \/ SettleComplete(w)
    \/ SettleLoad(w) \/ FailureCommit(w) \/ TeardownCommit(w) \/ OrphanCommit(w)
    \/ MonitorBeat(w) \/ MonitorCancel(w)

\* Whatever of these a process does, its message and its batch stay.
LEMMA HandledIs ==
    ASSUME TypeOK, TypeOK', NEW w \in Workers, Handles(w)
    PROVE  /\ worker' = [worker EXCEPT ![w] = worker'[w]]
           /\ worker'[w].batch = worker[w].batch /\ worker'[w].m = worker[w].m
           /\ worker'[w].pc \notin {"free", "down"} /\ worker[w].pc \notin {"free", "down"}
           /\ UNCHANGED streamVars
           /\ approvals' = approvals \/ approvals' = Append(approvals, "pending")
<1> DEFINE me == worker[w]
           q  == worker'[w]
           Goes(r) == worker' = [worker EXCEPT ![w] = r]
           Stays(r) == r.batch = me.batch /\ r.m = me.m /\ r.pc \notin {"free", "down"}
<1>1. me \in WorkerStates /\ worker \in [Workers -> WorkerStates]
  BY DEF TypeOK
<1>2. ASSUME NEW r, Goes(r), Stays(r), me.pc \notin {"free", "down"}
      PROVE  /\ worker' = [worker EXCEPT ![w] = worker'[w]]
             /\ worker'[w].batch = worker[w].batch /\ worker'[w].m = worker[w].m
             /\ worker'[w].pc \notin {"free", "down"} /\ worker[w].pc \notin {"free", "down"}
  BY <1>1, <1>2, SMTT(40)
<1>3. /\ me.pc \notin {"free", "down"}
      /\ UNCHANGED streamVars
      /\ approvals' = approvals \/ approvals' = Append(approvals, "pending")
  <2>1. CASE NodeCommit(w)
    BY <2>1 DEF NodeCommit
  <2>2. CASE NodeLoad(w) \/ NodeRefused(w) \/ NodeReturn(w) \/ NodeRaise(w) \/ Inspect(w)
             \/ EnterLoad(w) \/ EnterCommit(w) \/ Invoke(w)
    BY <2>2, SMTT(40) DEF NodeLoad, NodeRefused, NodeReturn, NodeRaise, Inspect, EnterLoad,
                EnterCommit, Invoke, rowVars
  <2>3. CASE Settle(w) \/ SettleInterrupt(w) \/ SettleComplete(w) \/ SettleLoad(w)
             \/ FailureCommit(w) \/ TeardownCommit(w) \/ OrphanCommit(w)
             \/ MonitorBeat(w) \/ MonitorCancel(w)
    BY <2>3 DEF Settle, SettleInterrupt, SettleComplete, SettleLoad, FailureCommit,
                TeardownCommit, OrphanCommit, MonitorBeat, MonitorCancel, rowVars, InAdvance
  <2> QED
    BY <2>1, <2>2, <2>3 DEF Handles
<1>4. CASE MonitorBeat(w)
  <2>1. worker' = worker
    BY <1>4 DEF MonitorBeat
  <2> QED
    BY <1>1, <1>3, <2>1
<1>5. \A pc : pc \notin {"free", "down"} => Stays([me EXCEPT !.pc = pc])
  BY <1>1 DEF WorkerStates
<1>6. CASE Inspect(w) \/ EnterLoad(w)
  <2>1. \/ \E pc \in {"ack", "failure"} : Goes([me EXCEPT !.pc = pc])
        \/ Goes([me EXCEPT !.pc = "enter", !.entry = runStatus])
        \/ \E seed : Goes([me EXCEPT !.pc = "entering", !.seed = seed])
    BY <1>6, ZenonT(60) DEF Inspect, EnterLoad
  <2>2. /\ Stays([me EXCEPT !.pc = "enter", !.entry = runStatus])
        /\ \A seed : Stays([me EXCEPT !.pc = "entering", !.seed = seed])
    BY <1>1 DEF WorkerStates
  <2> HIDE DEF Goes, Stays
  <2> QED
    BY <1>2, <1>3, <1>5, <2>1, <2>2
<1>7. CASE EnterCommit(w) \/ NodeRaise(w) \/ Settle(w) \/ SettleInterrupt(w) \/ SettleComplete(w)
  <2>1. \E pc \in {"invoke", "failure", "complete", "interrupt", "ack"} :
           Goes([me EXCEPT !.pc = pc])
    BY <1>7 DEF EnterCommit, NodeRaise, Settle, SettleInterrupt, SettleComplete, Goto
  <2> HIDE DEF Goes, Stays
  <2> QED
    BY <1>2, <1>3, <1>5, <2>1
<1>8. CASE Invoke(w)
  <2>1. \/ \E pc \in {"settle", "failure"} : Goes([me EXCEPT !.pc = pc])
        \/ \E n : Goes([me EXCEPT !.pc = "node", !.node = n, !.step = 1])
    BY <1>8, ZenonT(60) DEF Invoke
  <2>2. \A n : Stays([me EXCEPT !.pc = "node", !.node = n, !.step = 1])
    BY <1>1 DEF WorkerStates
  <2> HIDE DEF Goes, Stays
  <2> QED
    BY <1>2, <1>3, <1>5, <2>1, <2>2
<1>9. CASE NodeLoad(w) \/ NodeCommit(w)
  <2>1. \/ Goes([me EXCEPT !.step = me.step + 1]) /\ me.pc = "node"
        \/ Goes([me EXCEPT !.pc = "txn", !.snap = Loaded])
        \/ Goes([me EXCEPT !.pc = "node", !.step = me.step + 1, !.snap = Unloaded])
    BY <1>9 DEF NodeLoad, NodeCommit
  <2>2. /\ me.pc = "node" => Stays([me EXCEPT !.step = me.step + 1])
        /\ Stays([me EXCEPT !.pc = "txn", !.snap = Loaded])
        /\ Stays([me EXCEPT !.pc = "node", !.step = me.step + 1, !.snap = Unloaded])
    BY <1>1 DEF WorkerStates
  <2> HIDE DEF Goes, Stays
  <2> QED
    BY <1>2, <1>3, <2>1, <2>2
<1>10. CASE NodeReturn(w)
  <2>1. \/ Goes([me EXCEPT !.pc = "settle"])
        \/ \E n : Goes([me EXCEPT !.node = n, !.step = 1])
    BY <1>10 DEF NodeReturn
  <2>2. \A n : Stays([me EXCEPT !.node = n, !.step = 1])
    BY <1>1, <1>10, SMTT(40) DEF WorkerStates, NodeReturn
  <2> HIDE DEF Goes, Stays
  <2> QED
    BY <1>2, <1>3, <1>5, <2>1, <2>2
<1>11. CASE SettleLoad(w) \/ NodeRefused(w) \/ FailureCommit(w) \/ TeardownCommit(w)
            \/ OrphanCommit(w)
  <2>1. \E pc \in {"failing", "tearing", "orphaning", "failure", "ack"} :
           \E snap : Goes([me EXCEPT !.pc = pc, !.snap = snap])
    BY <1>11, ZenonT(60) DEF SettleLoad, NodeRefused, FailureCommit, TeardownCommit, OrphanCommit, EndTxn
  <2>2. \A pc \in {"failing", "tearing", "orphaning", "failure", "ack"} :
           \A snap : Stays([me EXCEPT !.pc = pc, !.snap = snap])
    BY <1>1 DEF WorkerStates
  <2> HIDE DEF Goes, Stays
  <2> QED
    BY <1>2, <1>3, <2>1, <2>2, ZenonT(60)
<1>12. CASE MonitorCancel(w)
  <2>1. Goes([Free(me.batch) EXCEPT !.pc = "teardown", !.m = me.m])
    BY <1>12 DEF MonitorCancel
  <2>2. Stays([Free(me.batch) EXCEPT !.pc = "teardown", !.m = me.m])
    BY DEF Free
  <2> HIDE DEF Goes, Stays
  <2> QED
    BY <1>2, <1>3, <2>1, <2>2
<1> QED
  BY <1>3, <1>4, <1>6, <1>7, <1>8, <1>9, <1>10, <1>11, <1>12 DEF Handles

\* What the steps of advance make of the run, at each place.
LEMMA HandCourse ==
    ASSUME TypeOK, TypeOK', NEW after, AsksOnce(after),
           NEW w \in Workers, SoleInv(after, w), Handles(w), faults = 0, faults' = 0,
           ~Unread(w), ~Unread(w)'
    PROVE  Course(after, w)' /\ Saved(after)'
<1> DEFINE me == worker[w]
           q  == worker'[w]
<1>1. /\ me \in WorkerStates /\ q \in WorkerStates /\ worker \in [Workers -> WorkerStates]
      /\ approvals \in Seq({"pending", "approved", "rejected"})
  BY DEF TypeOK
<1>2. q.m = me.m /\ q.pc \notin {"free", "down"}
  BY HandledIs
<1>3. Course(after, w) /\ Saved(after) /\ (me.pc # "free" => Answered(me.m))
  BY DEF SoleInv, Mail
<1>4. CASE Inspect(w)
  <2>1. /\ UNCHANGED rowVars /\ me.pc = "inspect"
        /\ \/ runStatus \in TerminalRunStatuses /\ q = [me EXCEPT !.pc = "ack"]
           \/ runStatus \notin TerminalRunStatuses /\ q = [me EXCEPT !.pc = "enter", !.entry = runStatus]
    BY <1>1, <1>4 DEF Inspect
  <2>2. \/ runStatus \in TerminalRunStatuses /\ q.pc = "ack"
        \/ runStatus \notin TerminalRunStatuses /\ q.pc = "enter" /\ q.entry = runStatus
    BY <1>1, <2>1 DEF WorkerStates
  <2>3. me.m # START => approvals # << >>
    BY <1>3, <2>1 DEF Answered
  <2> QED
    BY <1>2, <1>3, <2>1, <2>2, <2>3 DEF Course, Saved, Behind, rowVars
<1>5. CASE EnterLoad(w)
  <2>1. UNCHANGED rowVars /\ me.pc = "enter"
    BY <1>5 DEF EnterLoad
  <2>2. ASSUME NEW readable \in BOOLEAN, readable
        PROVE  ~HasCheckpoint(me.entry, readable) <=> me.m = START
    BY <1>3, <2>1 DEF Course, HasCheckpoint
  <2>3. \/ runStatus \in TerminalRunStatuses /\ q.pc = "ack"
        \/ q.pc = "entering" /\ (q.seed <=> me.m = START)
    <3>1. PICK readable \in BOOLEAN :
             /\ IF readable THEN UNCHANGED faults
                ELSE worker[w].entry = "running" /\ Fault("checkpoint")
             /\ LET seed == ~HasCheckpoint(worker[w].entry, readable)
                IN  worker' =
                      IF seed /\ worker[w].m # START
                      THEN [worker EXCEPT ![w].pc = "failure"]
                      ELSE IF runStatus \in TerminalRunStatuses
                      THEN [worker EXCEPT ![w].pc = "ack"]
                      ELSE [worker EXCEPT ![w].pc = "entering", ![w].seed = seed]
      BY <1>5 DEF EnterLoad
    <3>2. readable
      BY <3>1 DEF Fault
    <3> DEFINE seed == ~HasCheckpoint(me.entry, readable)
    <3>3. seed <=> me.m = START
      BY <2>2, <3>2
    <3>4. \/ runStatus \in TerminalRunStatuses /\ q = [me EXCEPT !.pc = "ack"]
          \/ q = [me EXCEPT !.pc = "entering", !.seed = seed]
      BY <1>1, <3>1, <3>3
    <3> HIDE DEF seed
    <3> QED
      BY <1>1, <3>3, <3>4, ZenonT(60) DEF WorkerStates
  <2> QED
    BY <1>2, <1>3, <2>1, <2>3 DEF Course, Saved, Behind, rowVars
<1>6. CASE EnterCommit(w)
  <2>1. /\ UNCHANGED <<checkpoint, approvals>> /\ runStatus' = "running"
        /\ me.pc = "entering" /\ q = [me EXCEPT !.pc = "invoke"]
    BY <1>1, <1>6 DEF EnterCommit, Goto
  <2>2. q.pc = "invoke" /\ q.seed = me.seed
    BY <1>1, <2>1 DEF WorkerStates
  <2> QED
    BY <1>2, <1>3, <2>1, <2>2 DEF Course, Saved, Behind
<1>7. CASE Invoke(w)
  <2>1. UNCHANGED <<runStatus, approvals>> /\ me.pc = "invoke"
    BY <1>7 DEF Invoke
  <2>2. CASE me.seed
    <3>1. me.m = START /\ approvals = << >>
      BY <1>3, <2>1, <2>2 DEF Course
    <3>2. q = [me EXCEPT !.pc = "node", !.node = FirstNode, !.step = 1]
      BY <1>1, <1>7, <2>2 DEF Invoke
    <3>3. q.pc = "node" /\ q.node = FirstNode
      BY <1>1, <3>2 DEF WorkerStates
    <3>4. ~Pending'
      BY <2>1, <3>1 DEF Pending
    <3> QED
      BY <1>2, <1>3, <2>1, <3>1, <3>3, <3>4 DEF Course, Saved
  <2>3. CASE ~me.seed
    <3>1. me.m # START /\ Behind(after)
      BY <1>3, <2>1, <2>3 DEF Course
    <3>2. /\ UNCHANGED checkpoint
          /\ q = IF checkpoint \in Nodes
                 THEN [me EXCEPT !.pc = "node", !.node = checkpoint, !.step = 1]
                 ELSE [me EXCEPT !.pc = IF checkpoint = "END" THEN "settle" ELSE "failure"]
      BY <1>1, <1>7, <2>3 DEF Invoke
    <3>3. \/ q.pc = "node" /\ q.node = checkpoint /\ checkpoint \in after
          \/ q.pc = "settle" /\ checkpoint = "END"
      BY <1>1, <3>1, <3>2, Constants DEF WorkerStates, Behind, AsksOnce
    <3>4. ~Pending'
      <4>1. me.m \in DOMAIN approvals /\ approvals[me.m] # "pending" /\ Len(approvals) <= 1
        BY <1>3, <2>1, <3>1 DEF Answered, Saved
      <4>2. \A i \in DOMAIN approvals : i = me.m
        BY <1>1, <4>1
      <4> QED
        BY <2>1, <4>1, <4>2 DEF Pending
    <3> QED
      BY <1>2, <1>3, <2>1, <3>2, <3>3, <3>4 DEF Course, Saved, Behind, Past
  <2> QED
    BY <2>2, <2>3
<1>8. CASE NodeLoad(w)
  <2>1. UNCHANGED rowVars /\ me.pc = "node" /\ me.step <= Len(Targets[me.node])
    BY <1>8 DEF NodeLoad
  <2>2. me.step \in Nat \ {0} /\ me.node \in Nodes
    BY <1>1 DEF WorkerStates
  <2>3. q = [me EXCEPT !.step = me.step + 1] \/ q = [me EXCEPT !.pc = "txn", !.snap = Loaded]
    BY <1>1, <1>8 DEF NodeLoad
  <2>4. q.node = me.node /\ ((q.pc = "node" /\ q.step = me.step + 1) \/ q.pc = "txn")
    BY <1>1, <2>1, <2>3, ZenonT(60) DEF WorkerStates
  <2>5. me.node = ApprovalNode => me.step = 1
    <3>1. Len(Targets[ApprovalNode]) \in Nat
      BY GraphConstants
    <3> QED
      BY <2>1, <2>2, <3>1, SMTT(40) DEF AsksOnce
  <2>6. approvals = << >> \/ me.node \in after
    BY <1>3, <2>1, <2>5 DEF Course, Past
  <2> QED
    BY <1>2, <1>3, <2>1, <2>4, <2>6 DEF Course, Saved, Behind, Past, Pending, rowVars
<1>9. CASE NodeCommit(w)
  <2>1. UNCHANGED <<runStatus, checkpoint>> /\ me.pc = "txn"
    BY <1>9 DEF NodeCommit
  <2>2. me.step \in Nat \ {0} /\ me.node \in Nodes
    BY <1>1 DEF WorkerStates
  <2>3. q = [me EXCEPT !.pc = "node", !.step = me.step + 1, !.snap = Unloaded]
    BY <1>1, <1>9 DEF NodeCommit
  <2>4. q.node = me.node /\ q.pc = "node" /\ q.step = me.step + 1
    BY <1>1, <2>1, <2>3 DEF WorkerStates
  <2>5. CASE UNCHANGED approvals
    BY <1>2, <1>3, <2>1, <2>2, <2>4, <2>5, SMTT(40) DEF Course, Saved, Behind, Past, Pending
  <2>6. CASE approvals' # approvals
    <3>1. me.node = ApprovalNode /\ approvals' = Append(approvals, "pending")
      BY <1>9, <2>6 DEF NodeCommit
    <3>2. approvals = << >>
      BY <1>3, <2>1, <3>1 DEF Course, Past, AsksOnce
    <3>3. Len(approvals') = 1
      BY <3>1, <3>2
    <3>4. Past(after, w)' /\ q.node # GateNode
      BY <2>2, <2>4, <3>1 DEF Past, AsksOnce
    <3>5. runStatus = "running"
      BY <1>3, <2>1 DEF Course
    <3> QED
      BY <1>2, <1>3, <2>1, <2>4, <3>3, <3>4, <3>5 DEF Course, Saved, Behind
  <2> QED
    BY <2>5, <2>6
<1>10. CASE NodeReturn(w)
  <2>1. /\ UNCHANGED <<runStatus, approvals>> /\ me.pc = "node" /\ me.node \in Nodes
        /\ checkpoint' \in Edges[me.node]
        /\ q = IF checkpoint' \in {"END", GateNode} THEN [me EXCEPT !.pc = "settle"]
               ELSE [me EXCEPT !.node = checkpoint', !.step = 1]
    BY <1>1, <1>10 DEF NodeReturn, WorkerStates
  <2>2. \/ q.pc = "settle"
        \/ q.pc = "node" /\ q.node = checkpoint' /\ q.node # GateNode /\ checkpoint' # "END"
    BY <1>1, <2>1 DEF WorkerStates
  <2>3. approvals = << >> \/ checkpoint' \in after \cup {"END"}
    BY <1>3, <2>1 DEF Course, Past, AsksOnce
  <2> QED
    BY <1>2, <1>3, <2>1, <2>2, <2>3 DEF Course, Saved, Behind, Past
<1>11. CASE NodeRaise(w) \/ NodeRefused(w)
  <2>1. /\ UNCHANGED rowVars /\ me.pc \in {"node", "txn"}
        /\ \/ q = [me EXCEPT !.pc = "failure"]
           \/ q = [me EXCEPT !.pc = "failure", !.snap = Unloaded]
    BY <1>1, <1>11 DEF NodeRaise, NodeRefused, Goto, EndTxn
  <2>2. q.pc = "failure"
    BY <1>1, <2>1 DEF WorkerStates
  <2> QED
    BY <1>2, <1>3, <2>1, <2>2 DEF Course, Saved, Behind, rowVars
<1>12. CASE Settle(w)
  <2>1. /\ UNCHANGED rowVars /\ me.pc = "settle"
        /\ q = [me EXCEPT !.pc = IF checkpoint = "END" THEN "complete" ELSE "interrupt"]
    BY <1>1, <1>12 DEF Settle, Goto
  <2>2. q.pc \in {"complete", "interrupt"}
    BY <1>1, <2>1 DEF WorkerStates
  <2> QED
    BY <1>2, <1>3, <2>1, <2>2 DEF Course, Saved, Behind, rowVars
<1>13. CASE SettleInterrupt(w) \/ SettleComplete(w) \/ FailureCommit(w)
  <2>1. /\ UNCHANGED <<checkpoint, approvals>>
        /\ \/ me.pc = "interrupt" /\ runStatus' = "interrupted"
           \/ runStatus' \in {"completed", "failed"}
        /\ q = [me EXCEPT !.pc = "ack"] \/ q = [me EXCEPT !.pc = "ack", !.snap = Unloaded]
    BY <1>1, <1>13 DEF SettleInterrupt, SettleComplete, FailureCommit, Goto, EndTxn
  <2>2. q.pc = "ack"
    BY <1>1, <2>1 DEF WorkerStates
  <2> QED
    BY <1>2, <1>3, <2>1, <2>2 DEF Course, Saved, Behind, TerminalRunStatuses
<1>14. CASE SettleLoad(w)
  <2>1. /\ UNCHANGED rowVars
        /\ \E pc \in {"failing", "tearing", "orphaning"} : q = [me EXCEPT !.pc = pc, !.snap = Loaded]
    BY <1>1, <1>14 DEF SettleLoad
  <2>2. q.pc \in {"failing", "tearing", "orphaning"} /\ q.snap.run = runStatus
    BY <1>1, <2>1 DEF WorkerStates, Loaded
  <2> QED
    BY <1>2, <1>3, <2>1, <2>2 DEF Course, Saved, Behind, rowVars
<1>15. CASE TeardownCommit(w) \/ OrphanCommit(w)
  <2>1. /\ UNCHANGED <<checkpoint, approvals>> /\ me.pc \in {"tearing", "orphaning"}
        /\ IF me.snap.run \in TerminalRunStatuses THEN runStatus' = runStatus
           ELSE runStatus' = "cancelled"
        /\ q = [me EXCEPT !.pc = "ack", !.snap = Unloaded]
    BY <1>1, <1>15 DEF TeardownCommit, OrphanCommit, EndTxn
  <2>2. q.pc = "ack"
    BY <1>1, <2>1 DEF WorkerStates
  <2>3. runStatus' \in TerminalRunStatuses
    BY <1>3, <2>1 DEF Course, TerminalRunStatuses
  <2> QED
    BY <1>2, <1>3, <2>1, <2>2, <2>3 DEF Course, Saved, Behind, TerminalRunStatuses
<1>16. CASE MonitorBeat(w)
  <2>1. q = me /\ UNCHANGED <<runStatus, checkpoint, approvals>>
    BY <1>16 DEF MonitorBeat
  <2> QED
    BY <1>2, <1>3, <2>1 DEF Course, Saved, Behind, Past, Pending
<1>17. CASE MonitorCancel(w)
  <2>1. UNCHANGED rowVars /\ q = [Free(me.batch) EXCEPT !.pc = "teardown", !.m = me.m]
    BY <1>1, <1>17 DEF MonitorCancel
  <2>2. q.pc = "teardown"
    BY <2>1 DEF Free
  <2> QED
    BY <1>2, <1>3, <2>1, <2>2 DEF Course, Saved, Behind, rowVars
<1> QED
  BY <1>4, <1>5, <1>6, <1>7, <1>8, <1>9, <1>10, <1>11, <1>12, <1>13, <1>14, <1>15, <1>16, <1>17
     DEF Handles

\* What the course of the process rests on may change around it.
LEMMA CourseStays ==
    ASSUME TypeOK, NEW after, NEW w \in Workers, Course(after, w), Saved(after),
           worker'[w] = worker[w], UNCHANGED <<runStatus, checkpoint>>,
           Unread(w) => Unread(w)', approvals' = << >> <=> approvals = << >>,
           Len(approvals') = Len(approvals), Pending' => Pending
    PROVE  Course(after, w)' /\ Saved(after)'
  BY DEF Course, Saved, Behind, Past

LEMMA SolePublish ==
    ASSUME TypeOK, NEW after, NEW w \in Workers, SoleInv(after, w), NEW m \in Messages, Publish(m)
    PROVE  SoleInv(after, w)'
<1>1. /\ m \in toPublish /\ toPublish' = toPublish \ {m} /\ stream' = Append(stream, m)
      /\ UNCHANGED <<rowVars, pel, idle, worker>>
  BY DEF Publish
<1>2. stream \in Seq(Messages)
  BY DEF TypeOK
<1>3. /\ DOMAIN stream' = 1 .. (Len(stream) + 1) /\ Len(stream) \in Nat
      /\ Len(stream') = Len(stream) + 1
      /\ stream'[Len(stream) + 1] = m
      /\ \A i \in DOMAIN stream : stream'[i] = stream[i]
      /\ DOMAIN stream = 1 .. Len(stream)
      /\ stream' # << >>
  <2>1. stream' \in Seq(Messages)
    BY <1>1, <1>2, AppendProperties
  <2> QED
    BY <1>1, <1>2, <2>1, AppendProperties
<1>4. Mail(w) /\ ReadOnce(w) /\ Course(after, w) /\ Saved(after)
  BY DEF SoleInv
<1>5. Mail(w)'
  <2>1. \A i \in DOMAIN stream' : i \in DOMAIN stream \/ i = Len(stream) + 1
    BY <1>3
  <2>2. \A i \in DOMAIN stream' : Answered(stream'[i])
    BY <1>1, <1>3, <1>4, <2>1 DEF Mail
  <2>3. \A n : Answered(n)' <=> Answered(n)
    BY <1>1 DEF Answered, rowVars
  <2> QED
    BY <1>1, <1>4, <2>2, <2>3 DEF Mail, InHand, InBatch
<1>6. Unread(w)' <=> Unread(w)
  <2>1. (\E i \in DOMAIN stream' : stream'[i] = START)
           <=> (\E i \in DOMAIN stream : stream[i] = START) \/ m = START
    BY <1>3
  <2> QED
    BY <1>1, <2>1 DEF Unread, InBatch
<1>7. ReadOnce(w)'
  <2> SUFFICES ASSUME Unread(w)
               PROVE  /\ approvals' = << >> /\ runStatus' = "queued" /\ worker'[w].pc = "free"
                      /\ Len(stream') <= 1 /\ Len(worker'[w].batch) <= 1
                      /\ START \in toPublish' => stream' = << >>
                      /\ START \in toPublish' \/ stream' # << >> => worker'[w].batch = << >>
    BY <1>6 DEF ReadOnce
  <2>1. approvals = << >>
    BY <1>4 DEF ReadOnce
  <2>2. m = START
    BY <1>1, <1>4, <2>1 DEF Mail, Answered
  <2>3. stream = << >> /\ worker[w].batch = << >> /\ START \notin toPublish'
    BY <1>1, <1>4, <2>2 DEF ReadOnce
  <2> QED
    BY <1>1, <1>3, <1>4, <2>3 DEF ReadOnce, rowVars
<1>8. Course(after, w)' /\ Saved(after)'
  BY <1>1, <1>4, <1>6, CourseStays DEF Pending, rowVars
<1> QED
  BY <1>5, <1>7, <1>8 DEF SoleInv

LEMMA SoleResolve ==
    ASSUME TypeOK, TypeOK', NEW after, NEW w \in Workers, SoleInv(after, w), NEW i, NEW decision,
           decision # "pending", Resolve(i, decision)
    PROVE  SoleInv(after, w)'
<1>1. /\ i \in DOMAIN approvals /\ approvals[i] = "pending"
      /\ approvals' = [approvals EXCEPT ![i] = decision]
      /\ toPublish' = toPublish \cup {i}
      /\ UNCHANGED <<runStatus, checkpoint, stream, pel, idle, worker>>
  BY DEF Resolve
<1>2. approvals \in Seq({"pending", "approved", "rejected"})
      /\ approvals' \in Seq({"pending", "approved", "rejected"})
  BY DEF TypeOK
<1>3. Mail(w) /\ ReadOnce(w) /\ Course(after, w) /\ Saved(after)
  BY DEF SoleInv
<1>4. /\ DOMAIN approvals' = DOMAIN approvals
      /\ \A j \in DOMAIN approvals : approvals'[j] # "pending" <=> approvals[j] # "pending" \/ j = i
  BY <1>1, <1>2
<1>5. i # START /\ approvals # << >> /\ approvals' # << >> /\ Len(approvals') = Len(approvals)
  BY <1>1, <1>2, <1>4 DEF START
<1>6. \A m : Answered(m) => Answered(m)'
  BY <1>4 DEF Answered
<1>7. Answered(i)'
  BY <1>1, <1>4 DEF Answered
<1>8. Mail(w)'
  BY <1>1, <1>3, <1>6, <1>7 DEF Mail, InHand, InBatch
<1>9. ~Unread(w) /\ ~Unread(w)'
  <2>1. ~Unread(w)
    BY <1>3, <1>5 DEF ReadOnce
  <2> QED
    BY <1>1, <1>5, <2>1 DEF Unread, InBatch
<1>10. Pending' => Pending
  BY <1>4 DEF Pending
<1>11. Course(after, w)' /\ Saved(after)'
  BY <1>1, <1>3, <1>5, <1>9, <1>10, CourseStays
<1> QED
  BY <1>8, <1>9, <1>11 DEF SoleInv, ReadOnce

\* The new batch is what came first in the stream.
LEMMA SoleRead ==
    ASSUME TypeOK, TypeOK', NEW after, NEW w \in Workers, SoleInv(after, w), Read(w)
    PROVE  SoleInv(after, w)'
<1> DEFINE me == worker[w]
           q  == worker'[w]
           n  == IF Len(stream) < ReadBatch THEN Len(stream) ELSE ReadBatch
           b  == [i \in 1 .. n |-> [m |-> stream[i], reclaimed |-> FALSE]]
<1>1. /\ me \in WorkerStates /\ worker \in [Workers -> WorkerStates]
      /\ stream \in Seq(Messages)
  BY DEF TypeOK
<1>2. /\ me.pc = "free" /\ me.batch = << >>
      /\ UNCHANGED <<rowVars, toPublish, idle>>
      /\ stream' = SubSeq(stream, n + 1, Len(stream))
      /\ pel' = [m \in Messages |-> IF m \in {stream[i] : i \in 1 .. n} THEN w ELSE pel[m]]
      /\ worker' = [worker EXCEPT ![w] = [me EXCEPT !.batch = b]]
      /\ n > 0
  BY DEF Read
<1>3. n \in 1 .. Len(stream) /\ Len(stream) \in Nat
  BY <1>1, <1>2, WorkerConstants
<1>4. /\ q.pc = "free" /\ q.batch = b
  <2>1. q = [me EXCEPT !.batch = b]
    BY <1>1, <1>2
  <2> QED
    BY <1>1, <1>2, <2>1 DEF WorkerStates
<1>5. /\ Len(b) = n /\ DOMAIN b = 1 .. n
      /\ \A i \in 1 .. n : b[i].m = stream[i] /\ ~b[i].reclaimed
  BY <1>3
<1>6. /\ DOMAIN stream' = 1 .. (Len(stream) - n) /\ Len(stream') = Len(stream) - n
      /\ \A i \in 1 .. (Len(stream) - n) : stream'[i] = stream[i + n]
  BY <1>1, <1>2, <1>3
<1> HIDE DEF n, b
<1>7. Mail(w) /\ ReadOnce(w) /\ Course(after, w) /\ Saved(after)
  BY DEF SoleInv
<1>8. \A i \in DOMAIN stream' : i + n \in DOMAIN stream
  BY <1>1, <1>3, <1>6
<1>9. 1 .. n \subseteq DOMAIN stream
  BY <1>1, <1>3
<1>10. Mail(w)'
  <2>1. \A m : Answered(m)' <=> Answered(m)
    BY <1>2 DEF Answered, rowVars
  <2>2. \A i \in DOMAIN stream' : Answered(stream'[i])
    BY <1>6, <1>7, <1>8 DEF Mail
  <2>3. \A i \in 1 .. n : Answered(b[i].m) /\ ~b[i].reclaimed
    BY <1>5, <1>7, <1>9 DEF Mail
  <2>4. ASSUME NEW m \in Messages, pel'[m] # NoOne PROVE InBatch(w, m)'
    <3>1. pel[m] = NoOne
      BY <1>2, <1>7, <2>4 DEF Mail, InHand, InBatch
    <3>2. PICK i \in 1 .. n : stream[i] = m
      BY <1>2, <2>4, <3>1
    <3> QED
      BY <1>4, <1>5, <3>2 DEF InBatch
  <2>5. \A m \in idle' : pel'[m] # NoOne
    BY <1>2, <1>7, WorkerConstants DEF Mail, TypeOK
  <2> QED
    BY <1>2, <1>4, <1>5, <1>7, <2>1, <2>2, <2>3, <2>4, <2>5 DEF Mail
<1>11. Unread(w)' <=> Unread(w)
  <2>1. ~InBatch(w, START)
    BY <1>2 DEF InBatch
  <2>2. InBatch(w, START)' <=> \E i \in 1 .. n : stream[i] = START
    BY <1>4, <1>5 DEF InBatch
  <2>3. (\E i \in DOMAIN stream : stream[i] = START)
           <=> \/ \E i \in 1 .. n : stream[i] = START
               \/ \E i \in DOMAIN stream' : stream'[i] = START
    <3>1. \A i \in DOMAIN stream : i \in 1 .. n \/ (i - n \in DOMAIN stream' /\ stream'[i - n] = stream[i])
      BY <1>1, <1>3, <1>6
    <3> QED
      BY <1>6, <1>8, <1>9, <3>1
  <2> QED
    BY <1>2, <2>1, <2>2, <2>3 DEF Unread
<1>12. ReadOnce(w)'
  <2> SUFFICES ASSUME Unread(w)
               PROVE  /\ approvals' = << >> /\ runStatus' = "queued" /\ worker'[w].pc = "free"
                      /\ Len(stream') <= 1 /\ Len(worker'[w].batch) <= 1
                      /\ START \in toPublish' => stream' = << >>
                      /\ START \in toPublish' \/ stream' # << >> => worker'[w].batch = << >>
    BY <1>11 DEF ReadOnce
  <2>1. Len(stream) = 1 /\ n = 1 /\ stream # << >>
    <3>1. Len(stream) <= 1
      BY <1>7 DEF ReadOnce
    <3>2. Len(stream) = 1 /\ n = 1
      BY <1>3, <3>1
    <3>3. Len(<< >>) = 0
      BY EmptySeq
    <3> QED
      BY <3>2, <3>3
  <2>2. Len(stream') = 0 /\ stream' = << >>
    <3>1. stream' \in Seq(Messages)
      BY DEF TypeOK
    <3> QED
      BY <1>6, <2>1, <3>1, EmptySeq
  <2>3. START \notin toPublish
    BY <1>7, <2>1 DEF ReadOnce
  <2> QED
    BY <1>2, <1>4, <1>5, <1>7, <2>1, <2>2, <2>3 DEF ReadOnce, rowVars
<1>13. Course(after, w)' /\ Saved(after)'
  BY <1>2, <1>4, <1>7, <1>11 DEF Course, Saved, Behind, rowVars
<1> QED
  BY <1>10, <1>12, <1>13 DEF SoleInv

LEMMA OnlyOne == ASSUME NEW n \in Nat \ {0}, n <= 1 PROVE n = 1
  OBVIOUS

\* Nothing in a batch was reclaimed, so nothing is deferred.
LEMMA SoleDispatch ==
    ASSUME TypeOK, TypeOK', NEW after, NEW w \in Workers, SoleInv(after, w), Dispatch(w)
    PROVE  SoleInv(after, w)'
<1> DEFINE me == worker[w]
           q  == worker'[w]
           d  == Head(me.batch)
           rest == Tail(me.batch)
<1>1. me \in WorkerStates /\ worker \in [Workers -> WorkerStates] /\ me.batch \in Seq(Deliveries)
  BY DEF TypeOK, WorkerStates
<1>2. /\ me.pc = "free" /\ me.batch # << >> /\ UNCHANGED <<rowVars, streamVars>>
      /\ worker' = [worker EXCEPT ![w] = IF DispatchTo(d) = "free" THEN Free(rest)
                     ELSE [Free(rest) EXCEPT !.pc = DispatchTo(d), !.m = d.m]]
  BY DEF Dispatch
<1>3. Mail(w) /\ ReadOnce(w) /\ Course(after, w) /\ Saved(after)
  BY DEF SoleInv
<1>4. /\ d = me.batch[1] /\ 1 \in DOMAIN me.batch
      /\ Len(rest) = Len(me.batch) - 1 /\ rest \in Seq(Deliveries)
      /\ \A i \in DOMAIN rest : i + 1 \in DOMAIN me.batch /\ rest[i] = me.batch[i + 1]
      /\ \A i \in DOMAIN me.batch : i = 1 \/ (i - 1 \in DOMAIN rest /\ rest[i - 1] = me.batch[i])
      /\ Len(me.batch) \in Nat \ {0}
  BY <1>1, <1>2
<1>5. ~d.reclaimed /\ Answered(d.m)
  BY <1>3, <1>4 DEF Mail
<1>6. DispatchTo(d) \in {"teardown", "orphan", "inspect"}
  BY <1>5 DEF DispatchTo
<1>7. q.pc = DispatchTo(d) /\ q.m = d.m /\ q.batch = rest
  <2>1. q = [Free(rest) EXCEPT !.pc = DispatchTo(d), !.m = d.m]
    BY <1>1, <1>2, <1>6
  <2> QED
    BY <2>1 DEF Free
<1> HIDE DEF rest, d
<1>8. Mail(w)'
  <2>1. \A m : Answered(m)' <=> Answered(m)
    BY <1>2 DEF Answered, rowVars
  <2>2. \A i \in DOMAIN rest : Answered(rest[i].m) /\ ~rest[i].reclaimed
    BY <1>3, <1>4 DEF Mail
  <2>3. ASSUME NEW m \in Messages, InBatch(w, m) PROVE InHand(w, m)' \/ InBatch(w, m)'
    <3>1. PICK i \in DOMAIN me.batch : me.batch[i].m = m
      BY <2>3 DEF InBatch
    <3>2. CASE i = 1
      BY <1>4, <1>6, <1>7, <3>1, <3>2 DEF InHand
    <3>3. CASE i # 1
      BY <1>4, <1>7, <3>1, <3>3, SMTT(40) DEF InBatch
    <3> QED
      BY <3>2, <3>3
  <2>4. \A m \in Messages : pel'[m] # NoOne => InHand(w, m)' \/ InBatch(w, m)'
    BY <1>2, <1>3, <2>3 DEF Mail, InHand, streamVars
  <2> QED
    BY <1>2, <1>3, <1>5, <1>7, <2>1, <2>2, <2>4 DEF Mail, streamVars
<1>9. ~Unread(w)'
  <2>1. CASE Unread(w)
    <3>1. Len(me.batch) = 1 /\ START \notin toPublish /\ stream = << >>
      <4>1. Len(me.batch) <= 1
        BY <1>3, <2>1 DEF ReadOnce
      <4>2. Len(worker[w].batch) = 1
        <5>1. Len(worker[w].batch) \in Nat \ {0}
          BY <1>4
        <5> QED
          BY <4>1, <5>1, OnlyOne
      <4>3. START \in toPublish \/ stream # << >> => worker[w].batch = << >>
        BY <1>3, <2>1 DEF ReadOnce
      <4>4. worker[w].batch # << >>
        BY <1>2
      <4> QED
        BY <4>2, <4>3, <4>4, Zenon
    <3>2. DOMAIN rest = {}
      BY <1>4, <3>1
    <3> QED
      BY <1>2, <1>7, <3>1, <3>2 DEF Unread, InBatch, streamVars
  <2>2. CASE ~Unread(w)
    <3>1. ~InBatch(w, START)'
      BY <1>4, <1>7, <2>2 DEF Unread, InBatch
    <3> QED
      BY <1>2, <2>2, <3>1 DEF Unread, streamVars
  <2> QED
    BY <2>1, <2>2
<1>10. q.pc = "inspect" =>
         IF q.m = START THEN approvals = << >> /\ runStatus = "queued"
         ELSE runStatus \in TerminalRunStatuses \cup {"interrupted"}
  <2>1. CASE Unread(w)
    <3>1. approvals = << >> /\ runStatus = "queued"
      BY <1>3, <2>1 DEF ReadOnce
    <3>2. q.m = START
      BY <1>5, <1>7, <3>1 DEF Answered
    <3> QED
      BY <3>1, <3>2
  <2>2. CASE ~Unread(w)
    <3>1. q.m # START
      BY <1>4, <1>7, <2>2 DEF Unread, InBatch
    <3>2. runStatus \in TerminalRunStatuses \cup {"interrupted"}
      BY <1>2, <1>3, <2>2 DEF Course
    <3> QED
      BY <3>1, <3>2
  <2> QED
    BY <2>1, <2>2
<1>11. Course(after, w)' /\ Saved(after)'
  BY <1>2, <1>3, <1>6, <1>7, <1>10 DEF Course, Saved, Behind, rowVars
<1> QED
  BY <1>8, <1>9, <1>11 DEF SoleInv, ReadOnce

LEMMA SoleAck ==
    ASSUME TypeOK, NEW after, NEW w \in Workers, SoleInv(after, w), Ack(w)
    PROVE  SoleInv(after, w)'
<1> DEFINE me == worker[w]
           q  == worker'[w]
<1>1. worker \in [Workers -> WorkerStates] /\ pel \in [Messages -> Workers \cup {NoOne}]
      /\ me.m \in Messages
  BY DEF TypeOK, WorkerStates
<1>2. /\ me.pc = "ack" /\ UNCHANGED <<rowVars, toPublish, stream>>
      /\ pel' = [pel EXCEPT ![me.m] = NoOne] /\ idle' = idle \ {me.m}
      /\ worker' = [worker EXCEPT ![w] = Free(me.batch)]
  BY DEF Ack
<1>3. q.pc = "free" /\ q.batch = me.batch
  <2>1. q = Free(me.batch)
    BY <1>1, <1>2
  <2> QED
    BY <2>1 DEF Free
<1>4. Mail(w) /\ ReadOnce(w) /\ Course(after, w) /\ Saved(after)
  BY DEF SoleInv
<1>5. ~Unread(w) /\ ~Unread(w)'
  BY <1>2, <1>3, <1>4 DEF Unread, InBatch, ReadOnce
<1>6. Mail(w)'
  <2>1. \A m : Answered(m)' <=> Answered(m)
    BY <1>2 DEF Answered, rowVars
  <2>2. \A m \in Messages : pel'[m] # NoOne => pel[m] # NoOne /\ m # me.m
    BY <1>1, <1>2
  <2>3. \A m \in idle' : pel'[m] # NoOne
    BY <1>1, <1>2, <1>4 DEF Mail, TypeOK
  <2> QED
    BY <1>2, <1>3, <1>4, <2>1, <2>2, <2>3 DEF Mail, InHand, InBatch
<1>7. Course(after, w)' /\ Saved(after)'
  BY <1>2, <1>3, <1>4, <1>5 DEF Course, Saved, Behind, rowVars
<1> QED
  BY <1>5, <1>6, <1>7 DEF SoleInv, ReadOnce

LEMMA SoleStep ==
    ASSUME TypeOK, TypeOK', [Next]_vars, NEW after, AsksOnce(after), NEW w, Sole(w),
           faults = 0 => SoleInv(after, w)
    PROVE  faults' = 0 => SoleInv(after, w)'
<1>1. faults \in Nat /\ (faults' = faults \/ faults' = faults + 1)
  BY ZenonT(60) DEF TypeOK, Next, ApiStep, WorkerStep, MonitorStep, Trouble, Time, Publish, LosePublish,
         CancelLoad, CancelCommit, Resolve, Read, Reclaim, Dispatch, Ack, AckLost, Inspect,
         EnterLoad, EnterCommit, Invoke, NodeLoad, NodeCommit, NodeRefused, NodeRaise, NodeReturn,
         Settle, SettleInterrupt, SettleComplete, SettleLoad, FailureCommit, TeardownCommit,
         OrphanCommit, MonitorBeat, MonitorCancel, DatabaseError, Crash, Restart, BecomeIdle,
         HeartbeatAges, Fault, vars
<1> SUFFICES ASSUME faults' = 0 PROVE SoleInv(after, w)'
  OBVIOUS
<1>2. faults = 0 /\ SoleInv(after, w) /\ w \in Workers /\ \A v \in Workers : v = w
  BY <1>1 DEF Sole
<1>3. \A kind : ~Fault(kind)
  BY <1>2 DEF Fault
<1>4. Mail(w) /\ ReadOnce(w) /\ Course(after, w) /\ Saved(after)
  BY <1>2 DEF SoleInv
<1>5. ASSUME Handles(w) PROVE SoleInv(after, w)'
  <2>1. /\ worker' = [worker EXCEPT ![w] = worker'[w]]
        /\ worker'[w].batch = worker[w].batch /\ worker'[w].m = worker[w].m
        /\ worker'[w].pc \notin {"free", "down"} /\ worker[w].pc \notin {"free", "down"}
        /\ UNCHANGED streamVars
        /\ approvals' = approvals \/ approvals' = Append(approvals, "pending")
    BY <1>2, <1>5, HandledIs
  <2>2. Mail(w)' /\ ReadOnce(w)' /\ ~Unread(w) /\ ~Unread(w)'
    BY <1>2, <1>4, <2>1, HandStays, SMTT(40)
  <2>3. Course(after, w)' /\ Saved(after)'
    BY <1>2, <1>5, <2>2, HandCourse
  <2> QED
    BY <2>2, <2>3 DEF SoleInv
<1>6. ASSUME NEW m \in Messages, Publish(m) \/ LosePublish(m) PROVE SoleInv(after, w)'
  BY <1>2, <1>3, <1>6, SolePublish DEF LosePublish
<1>7. ASSUME NEW o \in Operators, CancelLoad(o) \/ CancelCommit(o) PROVE SoleInv(after, w)'
  BY <1>2, <1>7, SMTT(40) DEF CancelLoad, CancelCommit, SoleInv, Mail, ReadOnce, Course, Saved, Behind, Past,
                    Unread, InBatch, InHand, Answered, Pending, rowVars, streamVars
<1>8. ASSUME NEW i, NEW decision \in {"approved", "rejected"}, Resolve(i, decision)
      PROVE  SoleInv(after, w)'
  BY <1>2, <1>8, SoleResolve, SMTT(40)
<1>9. ~Reclaim(w)
  BY <1>4 DEF Reclaim, Mail, InHand, InBatch, TypeOK
<1>10. ~AckLost(w) /\ ~DatabaseError(w) /\ ~Crash(w) /\ ~Restart(w)
  BY <1>3, <1>4 DEF AckLost, DatabaseError, Crash, Restart, Course
<1>11. ASSUME NEW m \in Messages, BecomeIdle(m) PROVE SoleInv(after, w)'
  BY <1>2, <1>11 DEF BecomeIdle, SoleInv, Mail, ReadOnce, Course, Saved, Behind, Past,
                     Unread, InBatch, InHand, Answered, Pending, rowVars
<1>12. ASSUME HeartbeatAges \/ UNCHANGED vars PROVE SoleInv(after, w)'
  BY <1>2, <1>12 DEF HeartbeatAges, SoleInv, Mail, ReadOnce, Course, Saved, Behind, Past,
                     Unread, InBatch, InHand, Answered, Pending, rowVars, streamVars, vars
<1>13. ASSUME Read(w) \/ Dispatch(w) \/ Ack(w) PROVE SoleInv(after, w)'
  BY <1>2, <1>13, SoleRead, SoleDispatch, SoleAck
<1>14. ASSUME NEW v \in Workers, WorkerStep(v) \/ MonitorStep(v) \/ Trouble(v)
       PROVE  SoleInv(after, w)'
  <2>1. v = w
    BY <1>2
  <2> QED
    BY <1>5, <1>9, <1>10, <1>13, <1>14, <2>1 DEF WorkerStep, MonitorStep, Trouble, Handles
<1> QED
  BY <1>6, <1>7, <1>8, <1>11, <1>12, <1>14, SMTT(40) DEF Next, ApiStep, Time

LEMMA SoleInitially ==
    ASSUME Init, NEW after, NEW w \in Workers PROVE SoleInv(after, w)
<1>1. worker[w] = Free(<< >>)
  BY DEF Init
<1>2. worker[w].pc = "free" /\ worker[w].batch = << >>
  BY <1>1 DEF Free
<1>3. approvals = << >> /\ Len(approvals) = 0 /\ stream = << >> /\ Len(stream) = 0
  BY DEF Init
<1> QED
  BY <1>2, <1>3 DEF Init, SoleInv, Mail, ReadOnce, Course, Saved, Unread, InBatch, InHand,
                    Answered, START

LEMMA SoleHonours ==
    ASSUME TypeOK, NEW after, NEW w, Sole(w), faults = 0 => SoleInv(after, w)
    PROVE  GateHonouredUnlessFault
  BY DEF Sole, SoleInv, Course, Pending, GateHonouredUnlessFault, GateHonoured

\* With one process, on a graph that asks once, the gate is honoured unless
\* something fails, whatever is answered early or waits behind other runs: the
\* process reads the answer's RESUME when it is done with the request before, and
\* what the RESUME is about has then been asked and answered.
THEOREM GateHonouredByOne ==
    ASSUME NEW w, Sole(w), NEW after, AsksOnce(after)
    PROVE  Spec => []GateHonouredUnlessFault
<1>1. Init => (faults = 0 => SoleInv(after, w))
  BY SoleInitially DEF Sole
<1>2. TypeOK /\ TypeOK' /\ (faults = 0 => SoleInv(after, w)) /\ [Next]_vars
        => (faults = 0 => SoleInv(after, w))'
  BY SoleStep
<1>3. TypeOK /\ (faults = 0 => SoleInv(after, w)) => GateHonouredUnlessFault
  BY SoleHonours
<1> QED
  BY <1>1, <1>2, <1>3, TypeCorrect, PTL DEF Spec

-----------------------------------------------------------------------------
(* Any number of processes. Who may take the run on is one: the request    *)
(* about to be published or delivered, the process that received it and    *)
(* was not overtaken, or the one that acts on it. What is reclaimed finds  *)
(* a fresh heartbeat, until nobody can act on the run any more.            *)

Patient == ~EarlyApproval /\ ~OtherRuns

Fresh(w) == Waiting(w) /\ ~Head(worker[w].batch).reclaimed
Acting(w) == Entering(w) \/ Driving(w)

\* Nobody goes on with the run, whatever is delivered.
GaveUp ==
    \/ /\ runStatus \in TerminalRunStatuses
       /\ \A w \in Workers : worker[w].pc \notin
             {"entering", "invoke", "node", "txn", "settle", "interrupt", "complete"}
    \/ Closed /\ \A w \in Workers : ~Acting(w)

Turns ==
    /\ toPublish # {} => stream = << >>
    /\ \A m, n \in toPublish : m = n
    /\ Len(stream) <= 1
    /\ toPublish # {} \/ stream # << >> => \A w \in Workers : ~Fresh(w) /\ ~Acting(w)
    /\ \A v, w \in Workers : (Fresh(v) \/ Acting(v)) /\ (Fresh(w) \/ Acting(w)) => v = w
    /\ \A w \in Workers : worker[w].batch # << >> =>
         /\ worker[w].pc = "free"
         /\ Fresh(w) => Len(worker[w].batch) = 1
         /\ ~Fresh(w) => \A i \in DOMAIN worker[w].batch : worker[w].batch[i].reclaimed

\* The question the request answers is answered, and no other is open.
Due(m) == ~Pending /\ (m # START => m \in DOMAIN approvals /\ runStatus = "interrupted")

Ready ==
    /\ \A m \in toPublish : Due(m)
    /\ stream # << >> => Due(stream[1])
    /\ \A w \in Workers : Fresh(w) => Due(Head(worker[w].batch).m)
    /\ \A w \in Workers : Entering(w) => Due(worker[w].m)
    /\ \A w \in Workers : worker[w].pc = "enter" /\ worker[w].m # START =>
          worker[w].entry = "interrupted"

\* A pending entry has somebody who works on it.
EntryHeld ==
    /\ \A m \in Messages : pel[m] # NoOne =>
         /\ Answered(m)
         /\ \E w \in Workers : InHand(w, m) \/ (Fresh(w) /\ Head(worker[w].batch).m = m)
    /\ \A m \in toPublish : pel[m] = NoOne
    /\ stream # << >> => pel[stream[1]] = NoOne
    /\ \A m \in idle : pel[m] # NoOne
    /\ \A w \in Workers : Fresh(w) => Head(worker[w].batch).m \notin idle
    /\ \A w \in Workers : Entering(w) => worker[w].m \notin idle

Beats ==
    /\ idle # {} => heartbeat = "fresh"
    /\ \A w \in Workers :
        /\ Waiting(w) /\ ~Fresh(w) => heartbeat = "fresh"
        /\ Driving(w) => runStatus = "running" /\ heartbeat = "fresh"
        /\ worker[w].pc = "ack" => heartbeat = "fresh"
        /\ ~Closing(w) /\ worker[w].pc # "down"

Open ==
    /\ runStatus \notin TerminalRunStatuses
    /\ \A i, j \in DOMAIN approvals : approvals[i] = "pending" /\ approvals[j] = "pending" => i = j
    /\ \A w \in Workers :
        /\ worker[w].pc = "txn" /\ ~worker[w].snap.pending => ~Pending
        /\ worker[w].pc = "invoke" => ~Pending
        /\ worker[w].pc \in {"node", "txn"} /\ worker[w].node = GateNode => ~Pending

Orderly == Turns /\ Ready /\ EntryHeld /\ Beats /\ Open

PatientInv == faults = 0 => GaveUp \/ Orderly

\* Once nobody goes on with the run, nobody will.
LEMMA GaveUpStays == ASSUME TypeOK, TypeOK', [Next]_vars, GaveUp PROVE GaveUp'
<1> DEFINE Working == {"entering", "invoke", "node", "txn", "settle", "interrupt", "complete"}
<1>1. worker \in [Workers -> WorkerStates]
  BY DEF TypeOK
<1>2. ASSUME NEW w \in Workers, NEW r, worker' = [worker EXCEPT ![w] = r],
             UNCHANGED runStatus \/ runStatus' \in TerminalRunStatuses,
             UNCHANGED assessment \/ Closed',
             runStatus \in TerminalRunStatuses /\ worker[w].pc \notin Working => r.pc \notin Working,
             Closed /\ ~Acting(w) =>
                r.pc \in {"free", "down", "ack", "teardown", "tearing", "orphan", "orphaning"}
      PROVE  GaveUp'
  <2>1. worker'[w] = r /\ \A v \in Workers : v # w => worker'[v] = worker[v]
    BY <1>1, <1>2
  <2>2. CASE runStatus \in TerminalRunStatuses /\ \A v \in Workers : worker[v].pc \notin Working
    BY <1>2, <2>1, <2>2 DEF GaveUp
  <2>3. CASE Closed /\ \A v \in Workers : ~Acting(v)
    <3>1. Closed'
      BY <1>2, <2>3 DEF Closed
    <3>2. \A v \in Workers : ~Acting(v)'
      BY <1>2, <2>1, <2>3 DEF Acting, Entering, Driving
    <3> QED
      BY <3>1, <3>2 DEF GaveUp
  <2> QED
    BY <2>2, <2>3 DEF GaveUp
<1>3. ASSUME NEW w \in Workers, Handles(w) PROVE GaveUp'
  <2> DEFINE me == worker[w]
             q  == worker'[w]
  <2>1. /\ worker' = [worker EXCEPT ![w] = q] /\ q.pc \notin {"free", "down"}
        /\ me.pc \notin {"free", "down"} /\ me \in WorkerStates
    BY <1>1, <1>3, HandledIs
  <2>2. CASE Inspect(w) \/ EnterLoad(w)
    <3>1. /\ UNCHANGED <<runStatus, assessment>> /\ me.pc \in {"inspect", "enter"}
          /\ \/ q = [me EXCEPT !.pc = "ack"] \/ q = [me EXCEPT !.pc = "failure"]
             \/ q = [me EXCEPT !.pc = "enter", !.entry = runStatus]
             \/ runStatus \notin TerminalRunStatuses
      BY <1>1, <2>2 DEF Inspect, EnterLoad, rowVars
    <3>2. runStatus \in TerminalRunStatuses => q.pc \in {"ack", "failure", "enter"}
      BY <2>1, <3>1 DEF WorkerStates
    <3>3. Acting(w)
      BY <3>1 DEF Acting, Entering
    <3> QED
      BY <1>2, <2>1, <3>1, <3>2, <3>3
  <2>3. CASE EnterCommit(w) \/ Invoke(w) \/ NodeLoad(w) \/ NodeCommit(w) \/ NodeRefused(w)
             \/ NodeRaise(w) \/ NodeReturn(w) \/ Settle(w) \/ SettleInterrupt(w)
             \/ SettleComplete(w)
    <3>1. me.pc \in Working
      BY <2>3 DEF EnterCommit, Invoke, NodeLoad, NodeCommit, NodeRefused, NodeRaise, NodeReturn,
                  Settle, SettleInterrupt, SettleComplete
    <3>2. Acting(w)
      BY <3>1 DEF Acting, Entering, Driving
    <3> QED
      BY <3>1, <3>2 DEF GaveUp
  <2>4. CASE SettleLoad(w)
    <3>1. /\ UNCHANGED <<runStatus, assessment>> /\ me.pc \in {"failure", "teardown", "orphan"}
          /\ q = [me EXCEPT !.pc = CASE me.pc = "failure"  -> "failing"
                                     [] me.pc = "teardown" -> "tearing"
                                     [] OTHER              -> "orphaning",
                            !.snap = Loaded]
      BY <1>1, <2>4 DEF SettleLoad, rowVars
    <3>2. \/ me.pc = "failure" /\ q.pc = "failing"
          \/ q.pc \in {"tearing", "orphaning"}
      BY <2>1, <3>1 DEF WorkerStates
    <3> QED
      BY <1>2, <2>1, <3>1, <3>2 DEF Acting, Driving
  <2>5. CASE FailureCommit(w) \/ TeardownCommit(w) \/ OrphanCommit(w)
    <3>1. /\ runStatus' \in TerminalRunStatuses \/ UNCHANGED runStatus
          /\ assessment' = assessment \/ assessment' \in {"FAILED", "CANCELLED"}
          /\ q = [me EXCEPT !.pc = "ack", !.snap = Unloaded]
      BY <1>1, <2>5 DEF FailureCommit, TeardownCommit, OrphanCommit, EndTxn, TerminalRunStatuses
    <3>2. q.pc = "ack"
      BY <2>1, <3>1 DEF WorkerStates
    <3>3. UNCHANGED assessment \/ Closed'
      BY <3>1 DEF Closed, TerminalStatuses
    <3> QED
      BY <1>2, <2>1, <3>1, <3>2, <3>3
  <2>6. CASE MonitorBeat(w)
    BY <2>6 DEF MonitorBeat, GaveUp, Closed, Acting, Entering, Driving
  <2>7. CASE MonitorCancel(w)
    <3>1. UNCHANGED <<runStatus, assessment>> /\ q = [Free(me.batch) EXCEPT !.pc = "teardown", !.m = me.m]
      BY <1>1, <2>7 DEF MonitorCancel, rowVars
    <3>2. q.pc = "teardown"
      BY <3>1 DEF Free
    <3> QED
      BY <1>2, <2>1, <3>1, <3>2
  <2> QED
    BY <1>3, <2>2, <2>3, <2>4, <2>5, <2>6, <2>7 DEF Handles
<1>4. ASSUME NEW w \in Workers, Read(w) \/ Reclaim(w) \/ Ack(w) \/ AckLost(w) \/ DatabaseError(w)
                                \/ Crash(w) \/ Restart(w)
      PROVE  GaveUp'
  <2>1. /\ UNCHANGED <<runStatus, assessment>>
        /\ \/ \E b : worker' = [worker EXCEPT ![w] = [worker[w] EXCEPT !.batch = b]] /\ worker[w].pc = "free"
           \/ \E b : worker' = [worker EXCEPT ![w] = Free(b)]
           \/ worker' = [worker EXCEPT ![w] = [Free(<< >>) EXCEPT !.pc = "down"]]
    BY <1>4, SMTT(40) DEF Read, Reclaim, Ack, AckLost, DatabaseError, Crash, Restart, rowVars
  <2>2. PICK r : worker' = [worker EXCEPT ![w] = r] /\ r.pc \in {"free", "down"}
    <3>1. worker[w] \in WorkerStates
      BY <1>1
    <3>2. \A b : [worker[w] EXCEPT !.batch = b].pc = worker[w].pc
      BY <3>1 DEF WorkerStates
    <3>3. (\A b : Free(b).pc = "free") /\ [Free(<< >>) EXCEPT !.pc = "down"].pc = "down"
      BY DEF Free
    <3>4. CASE \E b : worker' = [worker EXCEPT ![w] = [worker[w] EXCEPT !.batch = b]] /\ worker[w].pc = "free"
      BY <3>2, <3>4
    <3>5. CASE \E b : worker' = [worker EXCEPT ![w] = Free(b)]
      BY <3>3, <3>5
    <3>6. CASE worker' = [worker EXCEPT ![w] = [Free(<< >>) EXCEPT !.pc = "down"]]
      BY <3>3, <3>6
    <3> QED
      BY <2>1, <3>4, <3>5, <3>6
  <2> QED
    BY <1>2, <2>1, <2>2
<1>5. ASSUME NEW w \in Workers, Dispatch(w) PROVE GaveUp'
  <2> DEFINE d == Head(worker[w].batch)
  <2>1. /\ UNCHANGED <<runStatus, assessment>>
        /\ worker' = [worker EXCEPT ![w] = worker'[w]]
        /\ worker'[w] = IF DispatchTo(d) = "free" THEN Free(Tail(worker[w].batch))
                        ELSE [Free(Tail(worker[w].batch)) EXCEPT !.pc = DispatchTo(d), !.m = d.m]
    BY <1>1, <1>5 DEF Dispatch, rowVars
  <2>2. worker'[w].pc = DispatchTo(d)
    BY <2>1 DEF Free
  <2>3. /\ DispatchTo(d) \in {"free", "teardown", "orphan", "inspect"}
        /\ Closed => DispatchTo(d) # "inspect"
    BY DEF DispatchTo, Closed
  <2> HIDE DEF d
  <2> QED
    BY <1>2, <2>1, <2>2, <2>3
<1>6. ASSUME ApiStep \/ Time PROVE GaveUp'
  <2>1. /\ UNCHANGED <<runStatus, worker>>
        /\ assessment' = assessment \/ assessment' = "CANCELLING"
    BY <1>6 DEF ApiStep, Time, Publish, LosePublish, CancelLoad, CancelCommit, Resolve, BecomeIdle,
                HeartbeatAges, rowVars
  <2> QED
    BY <2>1 DEF GaveUp, Closed, Acting, Entering, Driving
<1>7. CASE UNCHANGED vars
  BY <1>7 DEF vars, GaveUp, Closed, Acting, Entering, Driving
<1> QED
  BY <1>3, <1>4, <1>5, <1>6, <1>7 DEF Next, WorkerStep, MonitorStep, Trouble, Handles

\* Whoever acts on the run goes on with it, or is done with it.
LEMMA ActorKeeps ==
    ASSUME TypeOK, TypeOK', Orderly, NEW w \in Workers, Acting(w),
           \A v \in Workers : v # w => worker'[v] = worker[v],
           worker'[w].batch = worker[w].batch, worker'[w].m = worker[w].m, UNCHANGED streamVars,
           worker'[w].pc \in {"inspect", "enter", "entering"} \cup DrivingPoints \cup {"ack"},
           worker'[w].pc \in {"inspect", "enter", "entering"} =>
              Entering(w) /\ UNCHANGED <<runStatus, approvals>>,
           worker'[w].pc = "enter" /\ worker'[w].m # START => worker'[w].entry = "interrupted",
           worker'[w].pc \in DrivingPoints => runStatus' = "running" /\ heartbeat' = "fresh",
           worker'[w].pc = "ack" \/ heartbeat = "fresh" => heartbeat' = "fresh",
           runStatus' \notin TerminalRunStatuses,
           \/ UNCHANGED approvals
           \/ approvals' = Append(approvals, "pending") /\ ~Pending,
           worker'[w].pc = "txn" /\ ~worker'[w].snap.pending => ~Pending',
           worker'[w].pc = "invoke" => ~Pending',
           worker'[w].pc \in {"node", "txn"} /\ worker'[w].node = GateNode => ~Pending'
    PROVE  Orderly'
<1> DEFINE r == worker'[w]
<1>1. Turns /\ Ready /\ EntryHeld /\ Beats /\ Open
  BY DEF Orderly
<1>2. worker[w].pc # "free" /\ worker[w].batch = << >> /\ r.pc # "free"
  BY <1>1 DEF Turns, Acting, Entering, Driving, DrivingPoints
<1>3. /\ toPublish' = {} /\ stream' = << >>
      /\ \A v \in Workers : ~Fresh(v)
      /\ \A v \in Workers : Acting(v) => v = w
  BY <1>1, <1>2 DEF Turns, Fresh, Waiting, streamVars
<1>4. \A v \in Workers : /\ Fresh(v)' <=> Fresh(v)
                         /\ Waiting(v)' <=> Waiting(v)
                         /\ v # w => (Acting(v)' <=> Acting(v))
                         /\ worker'[v].batch = worker[v].batch
                         /\ v # w => worker'[v] = worker[v]
  BY <1>2 DEF Fresh, Waiting, Acting, Entering, Driving
<1>5. \A v \in Workers : ~Fresh(v)' /\ (Acting(v)' => v = w)
  BY <1>3, <1>4
<1>6. Turns'
  BY <1>1, <1>2, <1>3, <1>4, <1>5 DEF Turns, streamVars
<1>7. \A v \in Workers : Entering(v)' => v = w /\ r.pc \in {"inspect", "enter", "entering"}
  BY <1>5 DEF Acting, Entering
<1>8. \A v \in Workers : Driving(v)' => v = w /\ r.pc \in DrivingPoints
  BY <1>5 DEF Acting, Driving, DrivingPoints
<1>9. Ready'
  <2>1. Entering(w)' => Due(worker[w].m)'
    <3>1. SUFFICES ASSUME Entering(w)' PROVE Due(worker[w].m)'
      OBVIOUS
    <3>2. Entering(w) /\ UNCHANGED <<runStatus, approvals>>
      BY <1>7, <3>1
    <3> QED
      BY <1>1, <3>2 DEF Ready, Due, Pending
  <2>2. \A v \in Workers : worker'[v].pc = "enter" => v = w
    BY <1>7 DEF Entering
  <2>3. \A v \in Workers : Entering(v)' => Due(worker[v].m)'
    BY <1>7, <2>1
  <2>4. \A v \in Workers : worker'[v].pc = "enter" /\ worker'[v].m # START => worker'[v].entry = "interrupted"
    BY <2>2
  <2> QED
    BY <1>3, <1>5, <2>3, <2>4 DEF Ready
<1>10. EntryHeld'
  <2>1. \A m : Answered(m) => Answered(m)'
    <3>1. \A m \in DOMAIN approvals : m \in DOMAIN approvals' /\ approvals'[m] = approvals[m]
      <4>1. approvals \in Seq({"pending", "approved", "rejected"})
        BY DEF TypeOK
      <4> QED
        BY <4>1, AppendProperties
    <3> QED
      BY <3>1 DEF Answered
  <2>2. \A v \in Workers, m \in Messages : InHand(v, m) => InHand(v, m)'
    BY <1>2, <1>4 DEF InHand
  <2>3. \A v \in Workers : Entering(v)' => worker'[v].m \notin idle
    BY <1>1, <1>7 DEF EntryHeld
  <2> QED
    BY <1>1, <1>3, <1>5, <2>1, <2>2, <2>3 DEF EntryHeld, streamVars
<1>11. Beats'
  <2>1. \A v \in Workers : ~Closing(v)' /\ worker'[v].pc # "down"
    BY <1>1, <1>4 DEF Beats, Closing, DrivingPoints
  <2>2. \A v \in Workers : worker'[v].pc = "ack" => heartbeat' = "fresh"
    BY <1>1, <1>4 DEF Beats
  <2>3. \A v \in Workers : Waiting(v)' /\ ~Fresh(v)' => heartbeat' = "fresh"
    BY <1>1, <1>4 DEF Beats
  <2> QED
    BY <1>1, <1>8, <2>1, <2>2, <2>3 DEF Beats, streamVars
<1>12. Open'
  <2>1. \A i, j \in DOMAIN approvals' : approvals'[i] = "pending" /\ approvals'[j] = "pending" => i = j
    <3>1. CASE UNCHANGED approvals
      BY <1>1, <3>1 DEF Open
    <3>2. CASE approvals' = Append(approvals, "pending") /\ ~Pending
      <4>1. approvals \in Seq({"pending", "approved", "rejected"})
        BY DEF TypeOK
      <4>2. \A i \in DOMAIN approvals' : i = Len(approvals) + 1 \/ (i \in DOMAIN approvals /\ approvals'[i] = approvals[i])
        BY <3>2, <4>1
      <4> QED
        BY <3>2, <4>2 DEF Pending
    <3> QED
      BY <3>1, <3>2
  <2>2. \A v \in Workers : worker'[v].pc \in {"txn", "invoke", "node"} => v = w
    BY <1>8 DEF Driving
  <2>3. \A v \in Workers :
          /\ worker'[v].pc = "txn" /\ ~worker'[v].snap.pending => ~Pending'
          /\ worker'[v].pc = "invoke" => ~Pending'
          /\ worker'[v].pc \in {"node", "txn"} /\ worker'[v].node = GateNode => ~Pending'
    BY <2>2
  <2> QED
    BY <2>1, <2>3 DEF Open
<1> QED
  BY <1>6, <1>9, <1>10, <1>11, <1>12 DEF Orderly

\* The others have no part in it: when the run is over, nobody goes on with it.
LEMMA ActorEnds ==
    ASSUME Orderly, NEW w \in Workers, Acting(w), \A v \in Workers : v # w => worker'[v] = worker[v],
           \/ runStatus' \in TerminalRunStatuses /\ worker'[w].pc = "ack"
           \/ Closed' /\ worker'[w].pc \in {"ack", "teardown", "orphan"}
    PROVE  GaveUp'
<1>1. \A v \in Workers : v # w => ~Acting(v)'
  <2>1. \A v \in Workers : v # w => ~Acting(v)
    BY DEF Orderly, Turns
  <2> QED
    BY <2>1 DEF Acting, Entering, Driving
<1>2. ~Acting(w)'
  BY DEF Acting, Entering, Driving
<1>3. \A v \in Workers : ~Acting(v)'
  BY <1>1, <1>2
<1>4. \A v \in Workers : worker'[v].pc \notin
         {"entering", "invoke", "node", "txn", "settle", "interrupt", "complete"}
  BY <1>3 DEF Acting, Entering, Driving
<1> QED
  BY <1>3, <1>4 DEF GaveUp

\* What one process does with the run while it has its turn.
LEMMA TurnTaken ==
    ASSUME TypeOK, TypeOK', ApprovalNode # GateNode, Orderly, faults = 0, faults' = 0,
           NEW w \in Workers, Handles(w)
    PROVE  GaveUp' \/ Orderly'
<1> DEFINE me == worker[w]
           q  == worker'[w]
<1>1. /\ me \in WorkerStates /\ q \in WorkerStates /\ worker \in [Workers -> WorkerStates]
      /\ approvals \in Seq({"pending", "approved", "rejected"})
  BY SMTT(40) DEF TypeOK
<1>2. /\ worker' = [worker EXCEPT ![w] = q] /\ q.batch = me.batch /\ q.m = me.m
      /\ me.pc \notin {"free", "down"} /\ UNCHANGED streamVars
  BY HandledIs, SMTT(40)
<1>3. \A v \in Workers : v # w => worker'[v] = worker[v]
  BY <1>1, <1>2, SMTT(40)
<1>4. Turns /\ Ready /\ EntryHeld /\ Beats /\ Open
  BY SMTT(40) DEF Orderly
<1>5. me.pc \notin {"teardown", "tearing", "orphan", "orphaning"}
  BY <1>4, SMTT(40) DEF Beats, Closing
<1>6. me.pc # "ack"
  BY DEF Handles, Inspect, EnterLoad, EnterCommit, Invoke, NodeLoad, NodeCommit, NodeRefused,
         NodeReturn, NodeRaise, Settle, SettleInterrupt, SettleComplete, SettleLoad,
         FailureCommit, TeardownCommit, OrphanCommit, MonitorBeat, MonitorCancel, InAdvance
<1>7. Acting(w)
  BY <1>1, <1>2, <1>5, <1>6 DEF WorkerStates, PCs, InAdvance, Acting, Entering, Driving
<1>8. runStatus \notin TerminalRunStatuses
  BY <1>4 DEF Open
<1>9. /\ Entering(w) => Due(me.m)
      /\ me.pc = "enter" /\ me.m # START => me.entry = "interrupted"
      /\ Driving(w) => runStatus = "running" /\ heartbeat = "fresh"
      /\ me.pc = "txn" /\ ~me.snap.pending => ~Pending
      /\ me.pc = "invoke" => ~Pending
      /\ me.pc \in {"node", "txn"} /\ me.node = GateNode => ~Pending
  BY <1>4 DEF Ready, Beats, Open
<1>10. ASSUME UNCHANGED approvals PROVE Pending' <=> Pending
  BY <1>10 DEF Pending
<1>11. CASE Inspect(w)
  <2>1. UNCHANGED rowVars /\ me.pc = "inspect" /\ q = [me EXCEPT !.pc = "enter", !.entry = runStatus]
    BY <1>1, <1>8, <1>11 DEF Inspect
  <2>2. q.pc = "enter" /\ q.entry = runStatus /\ Entering(w)
    BY <1>1, <2>1 DEF WorkerStates, Entering
  <2>3. me.m # START => runStatus = "interrupted"
    BY <1>9, <2>2 DEF Due
  <2> QED
    BY <1>2, <1>3, <1>7, <1>8, <2>1, <2>2, <2>3, ActorKeeps DEF rowVars, DrivingPoints
<1>12. CASE EnterLoad(w)
  <2>1. UNCHANGED rowVars /\ me.pc = "enter" /\ Entering(w)
    BY <1>12 DEF EnterLoad, Entering
  <2>2. q.pc = "entering"
    <3>1. PICK readable \in BOOLEAN :
             /\ IF readable THEN UNCHANGED faults
                ELSE worker[w].entry = "running" /\ Fault("checkpoint")
             /\ LET seed == ~HasCheckpoint(worker[w].entry, readable)
                IN  worker' =
                      IF seed /\ worker[w].m # START
                      THEN [worker EXCEPT ![w].pc = "failure"]
                      ELSE IF runStatus \in TerminalRunStatuses
                      THEN [worker EXCEPT ![w].pc = "ack"]
                      ELSE [worker EXCEPT ![w].pc = "entering", ![w].seed = seed]
      BY <1>12 DEF EnterLoad
    <3>2. readable
      BY <3>1 DEF Fault
    <3> DEFINE seed == ~HasCheckpoint(me.entry, readable)
    <3>3. ~(seed /\ me.m # START)
      BY <1>9, <2>1 DEF HasCheckpoint
    <3>4. q = [me EXCEPT !.pc = "entering", !.seed = seed]
      BY <1>1, <1>8, <3>1, <3>3
    <3> HIDE DEF seed
    <3> QED
      BY <1>1, <3>4 DEF WorkerStates
  <2> QED
    BY <1>2, <1>3, <1>7, <1>8, <2>1, <2>2, ActorKeeps DEF rowVars, DrivingPoints
<1>13. CASE EnterCommit(w)
  <2>1. /\ UNCHANGED approvals /\ runStatus' = "running" /\ heartbeat' = "fresh"
        /\ me.pc = "entering" /\ q = [me EXCEPT !.pc = "invoke"]
    BY <1>1, <1>13 DEF EnterCommit, Goto
  <2>2. q.pc = "invoke" /\ Entering(w)
    BY <1>1, <2>1 DEF WorkerStates, Entering
  <2>3. ~Pending'
    BY <1>9, <1>10, <2>1, <2>2 DEF Due
  <2> QED
    BY <1>2, <1>3, <1>7, <2>1, <2>2, <2>3, ActorKeeps DEF DrivingPoints, TerminalRunStatuses
<1>14. ASSUME UNCHANGED <<runStatus, heartbeat, approvals>>, Driving(w), q.pc \in DrivingPoints,
              q.pc = "txn" /\ ~q.snap.pending => ~Pending, q.pc = "invoke" => ~Pending,
              q.pc \in {"node", "txn"} /\ q.node = GateNode => ~Pending
       PROVE  Orderly'
  <2>1. Pending' <=> Pending
    BY <1>10, <1>14
  <2>2. runStatus' = "running" /\ heartbeat' = "fresh"
    BY <1>9, <1>14
  <2>3. /\ q.pc \in {"inspect", "enter", "entering"} \cup DrivingPoints \cup {"ack"}
        /\ q.pc \in {"inspect", "enter", "entering"} =>
              Entering(w) /\ UNCHANGED <<runStatus, approvals>>
        /\ q.pc = "enter" /\ q.m # START => q.entry = "interrupted"
        /\ q.pc \in DrivingPoints => runStatus' = "running" /\ heartbeat' = "fresh"
        /\ q.pc = "ack" \/ heartbeat = "fresh" => heartbeat' = "fresh"
    BY <1>14, <2>2 DEF DrivingPoints
  <2>4. runStatus' \notin TerminalRunStatuses
    BY <2>2 DEF TerminalRunStatuses
  <2>5. q.pc = "txn" /\ ~q.snap.pending => ~Pending'
    BY <1>14, <2>1
  <2>6. /\ q.pc = "invoke" => ~Pending'
        /\ q.pc \in {"node", "txn"} /\ q.node = GateNode => ~Pending'
    BY <1>14, <2>1
  <2> QED
    BY <1>2, <1>3, <1>7, <1>14, <2>3, <2>4, <2>5, <2>6, ActorKeeps
<1>15. CASE Invoke(w)
  <2>1. UNCHANGED <<runStatus, heartbeat, approvals>> /\ me.pc = "invoke" /\ Driving(w) /\ ~Pending
    BY <1>9, <1>15 DEF Invoke, Driving
  <2>2. q.pc \in {"node", "settle", "failure"}
    <3>1. \/ q = [me EXCEPT !.pc = "node", !.node = FirstNode, !.step = 1]
          \/ q = [me EXCEPT !.pc = "node", !.node = checkpoint, !.step = 1]
          \/ \E pc \in {"settle", "failure"} : q = [me EXCEPT !.pc = pc]
      BY <1>1, <1>15 DEF Invoke
    <3> QED
      BY <1>1, <3>1 DEF WorkerStates
  <2> QED
    BY <1>14, <2>1, <2>2 DEF DrivingPoints
<1>16. CASE NodeLoad(w)
  <2>1. UNCHANGED <<runStatus, heartbeat, approvals>> /\ me.pc = "node" /\ Driving(w)
    BY <1>16 DEF NodeLoad, Driving, rowVars
  <2>2. q = [me EXCEPT !.step = me.step + 1] \/ q = [me EXCEPT !.pc = "txn", !.snap = Loaded]
    BY <1>1, <1>16 DEF NodeLoad
  <2>3. CASE q = [me EXCEPT !.step = me.step + 1]
    <3>1. q.node = me.node /\ q.pc = "node"
      BY <1>1, <2>1, <2>3, SMTT(40) DEF WorkerStates
    <3> QED
      BY <1>9, <1>14, <2>1, <3>1 DEF DrivingPoints
  <2>4. CASE q = [me EXCEPT !.pc = "txn", !.snap = Loaded]
    <3>1. q.node = me.node /\ q.pc = "txn" /\ q.snap = Loaded
      BY <1>1, <2>4 DEF WorkerStates
    <3>2. q.snap.pending <=> Pending
      BY <3>1 DEF Loaded, Pending
    <3> QED
      BY <1>9, <1>14, <2>1, <3>1, <3>2 DEF DrivingPoints
  <2> QED
    BY <2>2, <2>3, <2>4
<1>17. CASE NodeCommit(w)
  <2>1. UNCHANGED <<runStatus, heartbeat>> /\ me.pc = "txn" /\ Driving(w)
    BY <1>17 DEF NodeCommit, Driving
  <2>2. q = [me EXCEPT !.pc = "node", !.step = me.step + 1, !.snap = Unloaded]
    BY <1>1, <1>17 DEF NodeCommit
  <2>3. q.node = me.node /\ q.pc = "node"
    BY <1>1, <2>2 DEF WorkerStates
  <2>4. CASE UNCHANGED approvals
    BY <1>9, <1>14, <2>1, <2>3, <2>4, SMTT(40) DEF DrivingPoints
  <2>5. CASE approvals' # approvals
    <3>1. approvals' = Append(approvals, "pending") /\ me.node = ApprovalNode /\ ~me.snap.pending
      BY <1>17, <2>5 DEF NodeCommit
    <3>2. ~Pending
      BY <1>9, <2>1, <3>1
    <3>3. runStatus' = "running" /\ heartbeat' = "fresh"
      BY <1>9, <2>1
    <3> QED
      BY <1>2, <1>3, <1>7, <2>3, <3>1, <3>2, <3>3, ActorKeeps DEF DrivingPoints, TerminalRunStatuses
  <2> QED
    BY <2>4, <2>5
<1>18. CASE NodeRefused(w) \/ NodeRaise(w) \/ Settle(w)
  <2>1. UNCHANGED <<runStatus, heartbeat, approvals>> /\ Driving(w)
    BY <1>18 DEF NodeRefused, NodeRaise, Settle, Driving, rowVars
  <2>2. \E pc \in {"failure", "complete", "interrupt"} :
           q = [me EXCEPT !.pc = pc] \/ q = [me EXCEPT !.pc = pc, !.snap = Unloaded]
    BY <1>1, <1>18 DEF NodeRefused, NodeRaise, Settle, Goto, EndTxn
  <2>3. q.pc \in {"failure", "complete", "interrupt"}
    BY <1>1, <2>2 DEF WorkerStates
  <2> QED
    BY <1>14, <2>1, <2>3 DEF DrivingPoints
<1>19. CASE NodeReturn(w)
  <2>1. UNCHANGED <<runStatus, heartbeat, approvals>> /\ me.pc = "node" /\ Driving(w)
    BY <1>19 DEF NodeReturn, Driving
  <2>2. q = IF checkpoint' \in {"END", GateNode} THEN [me EXCEPT !.pc = "settle"]
            ELSE [me EXCEPT !.node = checkpoint', !.step = 1]
    BY <1>1, <1>19 DEF NodeReturn
  <2>3. q.pc = "settle" \/ (q.pc = "node" /\ q.node # GateNode)
    BY <1>1, <2>1, <2>2 DEF WorkerStates
  <2> QED
    BY <1>14, <2>1, <2>3 DEF DrivingPoints
<1>20. CASE SettleInterrupt(w)
  <2>1. /\ UNCHANGED approvals /\ runStatus' = "interrupted" /\ heartbeat' = "fresh"
        /\ q = [me EXCEPT !.pc = "ack"]
    BY <1>1, <1>20 DEF SettleInterrupt, Goto
  <2>2. q.pc = "ack"
    BY <1>1, <2>1 DEF WorkerStates
  <2> QED
    BY <1>2, <1>3, <1>7, <2>1, <2>2, ActorKeeps DEF DrivingPoints, TerminalRunStatuses
<1>21. CASE SettleLoad(w)
  <2>1. UNCHANGED <<runStatus, heartbeat, approvals>> /\ me.pc = "failure" /\ Driving(w)
    BY <1>5, <1>21 DEF SettleLoad, Driving, rowVars
  <2>2. q = [me EXCEPT !.pc = "failing", !.snap = Loaded]
    BY <1>1, <1>21, <2>1 DEF SettleLoad
  <2>3. q.pc = "failing"
    BY <1>1, <2>2 DEF WorkerStates
  <2> QED
    BY <1>14, <2>1, <2>3 DEF DrivingPoints
<1>22. CASE SettleComplete(w) \/ FailureCommit(w)
  <2>1. /\ runStatus' \in {"completed", "failed"}
        /\ q = [me EXCEPT !.pc = "ack"] \/ q = [me EXCEPT !.pc = "ack", !.snap = Unloaded]
    BY <1>1, <1>22 DEF SettleComplete, FailureCommit, Goto, EndTxn
  <2>2. q.pc = "ack" /\ runStatus' \in TerminalRunStatuses
    BY <1>1, <2>1 DEF WorkerStates, TerminalRunStatuses
  <2> QED
    BY <1>3, <1>7, <2>2, ActorEnds
<1>23. ~TeardownCommit(w) /\ ~OrphanCommit(w)
  BY <1>5 DEF TeardownCommit, OrphanCommit
<1>24. CASE MonitorBeat(w)
  <2>1. /\ q = me /\ UNCHANGED <<runStatus, approvals>> /\ runStatus = "running" /\ heartbeat' = "fresh"
    BY <1>24 DEF MonitorBeat
  <2>2. Pending' <=> Pending
    BY <1>10, <2>1
  <2>3. me.pc \in {"inspect", "enter", "entering"} \cup DrivingPoints
    BY <1>7 DEF Acting, Entering, Driving, DrivingPoints
  <2>4. me.pc \in {"inspect", "enter", "entering"} => Entering(w)
    BY DEF Entering
  <2> QED
    BY <1>2, <1>3, <1>6, <1>7, <1>8, <1>9, <2>1, <2>2, <2>3, <2>4, ActorKeeps
<1>25. CASE MonitorCancel(w)
  <2>1. Closed' /\ q = [Free(me.batch) EXCEPT !.pc = "teardown", !.m = me.m]
    BY <1>1, <1>25 DEF MonitorCancel, Closed, rowVars
  <2>2. q.pc = "teardown"
    BY <2>1 DEF Free
  <2> QED
    BY <1>3, <1>7, <2>1, <2>2, ActorEnds
<1> QED
  BY <1>11, <1>12, <1>13, <1>15, <1>16, <1>17, <1>18, <1>19, <1>20, <1>21, <1>22, <1>23, <1>24, <1>25
     DEF Handles

\* The request goes from the API to the stream, ...
LEMMA TurnPublished ==
    ASSUME TypeOK, Orderly, NEW m \in Messages, Publish(m) PROVE Orderly'
<1>1. /\ m \in toPublish /\ toPublish' = toPublish \ {m} /\ stream' = Append(stream, m)
      /\ UNCHANGED <<rowVars, pel, idle, worker>>
  BY DEF Publish
<1>2. Turns /\ Ready /\ EntryHeld /\ Beats /\ Open
  BY DEF Orderly
<1>3. toPublish' = {} /\ stream = << >>
  BY <1>1, <1>2 DEF Turns
<1>4. stream' = <<m>> /\ Len(stream') = 1 /\ stream'[1] = m
  BY <1>1, <1>3
<1>5. \A w \in Workers : /\ Fresh(w)' <=> Fresh(w)
                         /\ Waiting(w)' <=> Waiting(w)
                         /\ Acting(w)' <=> Acting(w)
                         /\ Entering(w)' <=> Entering(w)
                         /\ Driving(w)' <=> Driving(w)
                         /\ Closing(w)' <=> Closing(w)
  BY <1>1 DEF Fresh, Waiting, Acting, Entering, Driving, Closing
<1>6. Turns'
  BY <1>1, <1>2, <1>3, <1>4, <1>5 DEF Turns
<1>7. \A n : Due(n)' <=> Due(n)
  BY <1>1 DEF Due, Pending, rowVars
<1>8. Ready'
  BY <1>1, <1>2, <1>3, <1>4, <1>5, <1>7 DEF Ready
<1>9. \A n, w : (Answered(n)' <=> Answered(n)) /\ (InHand(w, n)' <=> InHand(w, n))
  BY <1>1 DEF Answered, InHand, rowVars
<1>10. EntryHeld'
  BY <1>1, <1>2, <1>3, <1>4, <1>5, <1>9 DEF EntryHeld
<1>11. Beats' /\ Open'
  BY <1>1, <1>2, <1>5 DEF Beats, Open, Pending, rowVars
<1> QED
  BY <1>6, <1>8, <1>10, <1>11 DEF Orderly

\* ... where an answer puts it, once the process that asked has settled, ...
LEMMA TurnAnswered ==
    ASSUME TypeOK, TypeOK', Patient, Orderly, NEW i, NEW decision, decision # "pending",
           Resolve(i, decision)
    PROVE  Orderly'
<1>1. /\ i \in DOMAIN approvals /\ approvals[i] = "pending" /\ runStatus = "interrupted"
      /\ approvals' = [approvals EXCEPT ![i] = decision]
      /\ toPublish' = toPublish \cup {i}
      /\ UNCHANGED <<runStatus, heartbeat, stream, pel, idle, worker>>
  BY DEF Resolve, Patient
<1>2. Turns /\ Ready /\ EntryHeld /\ Beats /\ Open
  BY DEF Orderly
<1>3. Pending
  BY <1>1 DEF Pending
<1>4. /\ DOMAIN approvals' = DOMAIN approvals
      /\ \A j \in DOMAIN approvals : j # i => approvals'[j] = approvals[j]
      /\ approvals'[i] = decision
      /\ i # START
  <2>1. approvals \in Seq({"pending", "approved", "rejected"})
    BY DEF TypeOK
  <2> QED
    BY <1>1, <2>1 DEF START
<1>5. ~Pending'
  BY <1>1, <1>2, <1>4 DEF Open, Pending
<1>6. \A m : ~Due(m)
  BY <1>3 DEF Due
<1>7. /\ toPublish = {} /\ stream = << >>
      /\ \A w \in Workers : ~Fresh(w) /\ ~Entering(w) /\ ~Driving(w)
  BY <1>1, <1>2, <1>6 DEF Ready, Beats
<1>8. \A w \in Workers : /\ ~Fresh(w)' /\ ~Entering(w)' /\ ~Driving(w)'
                         /\ Waiting(w)' <=> Waiting(w)
                         /\ Closing(w)' <=> Closing(w)
  BY <1>1, <1>7 DEF Fresh, Waiting, Entering, Driving, Closing
<1>9. Turns'
  BY <1>1, <1>2, <1>7, <1>8 DEF Turns, Acting
<1>10. Ready'
  <2>1. Due(i)'
    BY <1>1, <1>4, <1>5 DEF Due
  <2>2. \A w \in Workers : worker'[w].pc # "enter"
    BY <1>8 DEF Entering
  <2> QED
    BY <1>1, <1>7, <1>8, <2>1, <2>2 DEF Ready
<1>11. \A m, w : (Answered(m) => Answered(m)') /\ (InHand(w, m)' <=> InHand(w, m))
  <2>1. \A m : Answered(m) => Answered(m)'
    <3> SUFFICES ASSUME NEW m, Answered(m), m # START
                 PROVE  m \in DOMAIN approvals' /\ approvals'[m] # "pending"
      BY DEF Answered
    <3>1. m \in DOMAIN approvals /\ approvals[m] # "pending" /\ m # i
      BY <1>1 DEF Answered
    <3> QED
      BY <1>4, <3>1
  <2>2. \A m, w : InHand(w, m)' <=> InHand(w, m)
    BY <1>1 DEF InHand
  <2> QED
    BY <2>1, <2>2
<1>12. EntryHeld'
  <2>1. pel[i] = NoOne
    <3>1. i \in Messages
      BY <1>1 DEF TypeOK, Messages
    <3>2. ~Answered(i)
      BY <1>1, <1>4 DEF Answered
    <3> QED
      BY <1>2, <3>1, <3>2 DEF EntryHeld
  <2> QED
    BY <1>1, <1>2, <1>7, <1>8, <1>11, <2>1 DEF EntryHeld
<1>13. Beats' /\ Open'
  <2>1. \A w \in Workers : worker'[w].pc \notin {"txn", "invoke", "node"}
    BY <1>8 DEF Driving
  <2>2. Beats'
    <3>1. \A w \in Workers : worker'[w].pc = worker[w].pc
      BY <1>1
    <3>2. heartbeat' = heartbeat /\ idle' = idle
      BY <1>1
    <3> QED
      BY <1>2, <1>7, <1>8, <3>1, <3>2 DEF Beats
  <2>3. Open'
    BY <1>1, <1>2, <1>5, <2>1 DEF Open, Pending
  <2> QED
    BY <2>2, <2>3
<1> QED
  BY <1>9, <1>10, <1>12, <1>13 DEF Orderly

LEMMA NoneOrOne == ASSUME NEW n \in Nat, n <= 1 PROVE n \in {0, 1}
  OBVIOUS

\* ... from the stream to whoever reads first, ...
LEMMA TurnRead ==
    ASSUME TypeOK, TypeOK', Orderly, NEW w \in Workers, Read(w) PROVE Orderly'
<1> DEFINE me == worker[w]
           m  == stream[1]
           q  == worker'[w]
           n  == IF Len(stream) < ReadBatch THEN Len(stream) ELSE ReadBatch
           b  == [i \in 1 .. n |-> [m |-> stream[i], reclaimed |-> FALSE]]
<1>1. /\ me \in WorkerStates /\ worker \in [Workers -> WorkerStates] /\ stream \in Seq(Messages)
      /\ pel \in [Messages -> Workers \cup {NoOne}]
  BY DEF TypeOK
<1>2. Turns /\ Ready /\ EntryHeld /\ Beats /\ Open
  BY DEF Orderly
<1>3. /\ me.pc = "free" /\ me.batch = << >> /\ n > 0
      /\ UNCHANGED <<rowVars, toPublish, idle>>
      /\ stream' = SubSeq(stream, n + 1, Len(stream))
      /\ pel' = [k \in Messages |-> IF k \in {stream[i] : i \in 1 .. n} THEN w ELSE pel[k]]
      /\ worker' = [worker EXCEPT ![w].batch = b]
  BY DEF Read
<1>4. n = 1 /\ Len(stream) = 1 /\ ReadBatch >= 1 /\ stream # << >>
  <2>1. Len(stream) <= 1
    BY <1>2 DEF Turns
  <2>2. Len(stream) \in Nat /\ ReadBatch \in Nat \ {0} /\ Len(<< >>) = 0
    BY <1>1, WorkerConstants
  <2>3. n > 0
    BY <1>3
  <2>4. Len(stream) = 1 /\ n = 1 /\ ReadBatch >= 1
    <3>1. Len(stream) = 0 => n = 0
      BY <2>2
    <3>2. Len(stream) = 1 => n = 1
      BY <2>2
    <3>3. Len(stream) \in {0, 1}
      BY <2>1, <2>2, NoneOrOne
    <3> QED
      BY <2>2, <2>3, <3>1, <3>2, <3>3
  <2> QED
    BY <2>2, <2>4
<1>5. stream' = << >> /\ Len(stream') = 0 /\ m \in Messages
  <2>1. stream' = SubSeq(stream, 2, 1)
    BY <1>3, <1>4
  <2>2. m \in Messages
    BY <1>1, <1>4
  <2>3. stream' \in Seq(Messages) /\ Len(stream') = 0
    BY <1>1, <2>1
  <2>4. stream' = << >>
    BY <2>3, EmptySeq
  <2> QED
    BY <2>2, <2>3, <2>4
<1>6. pel' = [pel EXCEPT ![m] = w]
  <2>1. {stream[i] : i \in 1 .. n} = {m}
    BY <1>4
  <2>2. pel' = [k \in Messages |-> IF k \in {stream[i] : i \in 1 .. n} THEN w ELSE pel[k]]
    BY <1>3
  <2> HIDE DEF n, m, b
  <2>3. pel' = [k \in Messages |-> IF k = m THEN w ELSE pel[k]]
    BY <2>1, <2>2
  <2> QED
    BY <1>1, <1>5, <2>3
<1>7. /\ q.pc = "free" /\ q.batch = b /\ b \in Seq(Deliveries)
      /\ \A v \in Workers : v # w => worker'[v] = worker[v]
  <2>1. q = [me EXCEPT !.batch = b]
    BY <1>1, <1>3
  <2>2. q.pc = "free" /\ q.batch = b
    BY <1>1, <1>3, <2>1 DEF WorkerStates
  <2>3. q.batch \in Seq(Deliveries)
    BY DEF TypeOK, WorkerStates
  <2> HIDE DEF b
  <2> QED
    BY <1>1, <1>3, <2>2, <2>3
<1>8. Len(b) = 1 /\ b # << >> /\ Head(b).m = m /\ ~Head(b).reclaimed
  <2>1. Len(b) = n /\ (\A i \in 1 .. n : b[i].m = stream[i] /\ ~b[i].reclaimed)
    BY <1>4
  <2> HIDE DEF b
  <2>2. b # << >> /\ Head(b) = b[1]
    BY <1>4, <1>7, <2>1
  <2> QED
    BY <1>4, <2>1, <2>2
<1> HIDE DEF m, n, b
<1>9. /\ Fresh(w)' /\ Waiting(w)' /\ Head(q.batch).m = m /\ Len(q.batch) = 1 /\ q.batch # << >>
      /\ ~Entering(w)' /\ ~Driving(w)' /\ ~Closing(w)'
  BY <1>7, <1>8 DEF Fresh, Waiting, Entering, Driving, Closing
<1>10. \A v \in Workers : v # w =>
         /\ Fresh(v)' <=> Fresh(v)
         /\ Waiting(v)' <=> Waiting(v)
         /\ Entering(v)' <=> Entering(v)
         /\ Driving(v)' <=> Driving(v)
         /\ Closing(v)' <=> Closing(v)
  BY <1>7 DEF Fresh, Waiting, Entering, Driving, Closing
<1>11. toPublish = {} /\ \A v \in Workers : ~Fresh(v) /\ ~Entering(v) /\ ~Driving(v)
  BY <1>2, <1>4 DEF Turns, Acting
<1>12. \A v \in Workers : v # w => ~Fresh(v)' /\ ~Entering(v)' /\ ~Driving(v)'
  BY <1>10, <1>11
<1>13. \A v \in Workers : ~Entering(v)' /\ ~Driving(v)' /\ (Fresh(v)' => v = w)
  BY <1>9, <1>12
<1>14. Turns'
  <2>1. \A v \in Workers : worker'[v].batch # << >> =>
          /\ worker'[v].pc = "free"
          /\ Fresh(v)' => Len(worker'[v].batch) = 1
          /\ ~Fresh(v)' => \A i \in DOMAIN worker'[v].batch : worker'[v].batch[i].reclaimed
    BY <1>2, <1>7, <1>9, <1>10 DEF Turns
  <2>2. toPublish' = {} /\ stream' = << >> /\ Len(stream') <= 1
    <3>1. toPublish' = toPublish
      BY <1>3
    <3>2. 0 <= 1
      OBVIOUS
    <3> QED
      BY <1>5, <1>11, <3>1, <3>2
  <2> QED
    BY <1>13, <2>1, <2>2 DEF Turns, Acting
<1>15. Due(m)
  BY <1>2, <1>4 DEF Ready, m
<1>16. Ready'
  <2>1. \A k : Due(k)' <=> Due(k)
    BY <1>3 DEF Due, Pending, rowVars
  <2>2. \A v \in Workers : worker'[v].pc # "enter"
    BY <1>13 DEF Entering
  <2>3. \A v \in Workers : Fresh(v)' => Due(Head(worker[v].batch).m)'
    <3>1. SUFFICES ASSUME Fresh(w)' PROVE Due(Head(worker[w].batch).m)'
      BY <1>13
    <3> QED
      BY <1>9, <1>15, <2>1
  <2> QED
    BY <1>3, <1>5, <1>11, <1>13, <2>2, <2>3 DEF Ready
<1>17. EntryHeld'
  <2>1. \A k, v : (Answered(k)' <=> Answered(k)) /\ (v \in Workers => (InHand(v, k)' <=> InHand(v, k)))
    <3>1. q.pc = me.pc
      BY <1>3, <1>7
    <3>2. \A k : ~InHand(w, k) /\ ~InHand(w, k)'
      BY <1>3, <3>1 DEF InHand
    <3> QED
      BY <1>3, <1>7, <3>2 DEF Answered, InHand, rowVars
  <2>2. Answered(m)
    BY <1>15 DEF Due, Pending, Answered
  <2>3. pel[m] = NoOne /\ m \notin idle
    BY <1>2, <1>4 DEF EntryHeld, m
  <2>4. ASSUME NEW k \in Messages, pel'[k] # NoOne
        PROVE  /\ Answered(k)'
               /\ \E v \in Workers : InHand(v, k)' \/ (Fresh(v)' /\ Head(worker'[v].batch).m = k)
    <3>1. CASE k = m
      BY <1>9, <2>1, <2>2, <3>1
    <3>2. CASE k # m
      <4>1. pel[k] # NoOne
        BY <1>1, <1>6, <2>4, <3>2
      <4>2. Answered(k) /\ \E v \in Workers : InHand(v, k)
        BY <1>2, <1>11, <4>1 DEF EntryHeld
      <4> QED
        BY <2>1, <4>2
    <3> QED
      BY <3>1, <3>2
  <2>5. \A k \in idle' : pel'[k] # NoOne
    <3>1. \A k \in idle : pel[k] # NoOne /\ k \in Messages
      BY <1>2 DEF EntryHeld, TypeOK
    <3> QED
      BY <1>1, <1>3, <1>6, <3>1, WorkerConstants
  <2>6. \A v \in Workers : Fresh(v)' => Head(worker'[v].batch).m \notin idle'
    BY <1>3, <1>9, <1>13, <2>3
  <2> QED
    BY <1>3, <1>5, <1>11, <1>13, <2>4, <2>5, <2>6 DEF EntryHeld
<1>18. Beats' /\ Open'
  <2>1. \A v \in Workers : worker'[v].pc = worker[v].pc
    BY <1>3, <1>7
  <2>2. \A v \in Workers : worker'[v].pc \notin {"txn", "invoke", "node"}
    BY <1>13 DEF Driving
  <2>3. \A v \in Workers : Waiting(v)' /\ ~Fresh(v)' => Waiting(v) /\ ~Fresh(v)
    BY <1>9, <1>10
  <2>4. \A v \in Workers : ~Closing(v)'
    BY <1>2, <1>9, <1>10 DEF Beats
  <2>5. UNCHANGED <<heartbeat, idle, runStatus, approvals>>
    BY <1>3 DEF rowVars
  <2>6. Beats'
    BY <1>2, <1>13, <2>1, <2>3, <2>4, <2>5 DEF Beats
  <2> QED
    BY <1>2, <2>2, <2>5, <2>6 DEF Open
<1> QED
  BY <1>14, <1>16, <1>17, <1>18 DEF Orderly

\* ... and into the hands of that process, or back if the run is closed.
LEMMA TurnDispatched ==
    ASSUME TypeOK, TypeOK', Orderly, NEW w \in Workers, Dispatch(w)
    PROVE  GaveUp' \/ Orderly'
<1> DEFINE me == worker[w]
           q  == worker'[w]
           d  == Head(me.batch)
           rest == Tail(me.batch)
<1>1. me \in WorkerStates /\ worker \in [Workers -> WorkerStates] /\ me.batch \in Seq(Deliveries)
  BY DEF TypeOK, WorkerStates
<1>2. Turns /\ Ready /\ EntryHeld /\ Beats /\ Open
  BY DEF Orderly
<1>3. /\ me.pc = "free" /\ me.batch # << >> /\ UNCHANGED <<rowVars, streamVars>>
      /\ worker' = [worker EXCEPT ![w] = IF DispatchTo(d) = "free" THEN Free(rest)
                     ELSE [Free(rest) EXCEPT !.pc = DispatchTo(d), !.m = d.m]]
  BY DEF Dispatch
<1>4. /\ d = me.batch[1] /\ 1 \in DOMAIN me.batch
      /\ Len(rest) = Len(me.batch) - 1 /\ rest \in Seq(Deliveries)
      /\ \A i \in DOMAIN rest : i + 1 \in DOMAIN me.batch /\ rest[i] = me.batch[i + 1]
  BY <1>1, <1>3
<1>5. /\ q.pc = DispatchTo(d) /\ q.batch = rest /\ (q.pc # "free" => q.m = d.m)
      /\ \A v \in Workers : v # w => worker'[v] = worker[v]
  <2>1. CASE DispatchTo(d) = "free"
    <3>1. q = Free(rest)
      BY <1>1, <1>3, <2>1
    <3> QED
      BY <1>1, <1>3, <2>1, <3>1 DEF Free
  <2>2. CASE DispatchTo(d) # "free"
    <3>1. q = [Free(rest) EXCEPT !.pc = DispatchTo(d), !.m = d.m]
      BY <1>1, <1>3, <2>2
    <3> QED
      BY <1>1, <1>3, <2>2, <3>1 DEF Free
  <2> QED
    BY <2>1, <2>2
<1> HIDE DEF d, rest
<1>6. \A v \in Workers : v # w =>
         /\ Fresh(v)' <=> Fresh(v)
         /\ Waiting(v)' <=> Waiting(v)
         /\ Entering(v)' <=> Entering(v)
         /\ Driving(v)' <=> Driving(v)
         /\ Closing(v)' <=> Closing(v)
  BY <1>5 DEF Fresh, Waiting, Entering, Driving, Closing
<1>7. Waiting(w) /\ ~Acting(w) /\ (Fresh(w) <=> ~d.reclaimed)
  BY <1>3 DEF Waiting, Fresh, Acting, Entering, Driving, d
<1>8. \A m : Due(m)' <=> Due(m)
  BY <1>3 DEF Due, Pending, rowVars
<1>9. \A m, v : v # w /\ v \in Workers => (InHand(v, m)' <=> InHand(v, m))
  BY <1>5 DEF InHand
<1>10. \A m : Answered(m)' <=> Answered(m)
  BY <1>3 DEF Answered, rowVars
<1>11. UNCHANGED <<runStatus, heartbeat, approvals, toPublish, stream, pel, idle>>
  BY <1>3 DEF rowVars, streamVars
<1>12. CASE Fresh(w)
  <2>1. /\ DispatchTo(d) \in {"teardown", "orphan", "inspect"}
        /\ DispatchTo(d) # "inspect" => Closed
    BY <1>7, <1>12 DEF DispatchTo, Closed
  <2>2. /\ toPublish = {} /\ stream = << >>
        /\ \A v \in Workers : v # w => ~Fresh(v) /\ ~Acting(v)
    BY <1>2, <1>12 DEF Turns
  <2>3. rest = << >>
    <3>1. Len(me.batch) = 1
      BY <1>2, <1>3, <1>12 DEF Turns
    <3>2. Len(rest) = 0
      BY <1>4, <3>1
    <3> QED
      BY <1>4, <3>2, EmptySeq
  <2>4. CASE DispatchTo(d) # "inspect"
    <3>1. \A v \in Workers : ~Acting(v)'
      BY <1>5, <1>6, <2>1, <2>2, <2>4 DEF Acting, Entering, Driving
    <3>2. Closed'
      BY <1>3, <2>1, <2>4 DEF Closed, rowVars
    <3> QED
      BY <3>1, <3>2 DEF GaveUp
  <2>5. CASE DispatchTo(d) = "inspect"
    <3>1. q.pc = "inspect" /\ q.m = d.m /\ q.batch = << >>
      BY <1>5, <2>3, <2>5
    <3>2. ~Fresh(w)' /\ ~Waiting(w)' /\ Entering(w)' /\ ~Driving(w)' /\ ~Closing(w)'
      BY <3>1 DEF Fresh, Waiting, Entering, Driving, Closing
    <3>3. \A v \in Workers : ~Fresh(v)' /\ ~Driving(v)' /\ (Entering(v)' => v = w)
      BY <1>6, <2>2, <3>2 DEF Acting
    <3>4. Turns'
      BY <1>2, <1>5, <1>6, <1>11, <2>2, <3>1, <3>3 DEF Turns, Acting
    <3>5. Due(d.m) /\ d.m \notin idle
      BY <1>2, <1>12 DEF Ready, EntryHeld, d
    <3>6. Ready'
      <4>1. \A v \in Workers : worker'[v].pc # "enter"
        BY <3>1, <3>3 DEF Entering
      <4>2. \A v \in Workers : Entering(v)' => Due(worker[v].m)'
        <5>1. Due(worker[w].m)'
          BY <1>8, <3>1, <3>5
        <5> QED
          BY <3>3, <5>1
      <4> QED
        BY <1>11, <2>2, <3>3, <4>1, <4>2 DEF Ready
    <3>7. EntryHeld'
      <4>1. ASSUME NEW m \in Messages, pel[m] # NoOne
            PROVE  Answered(m) /\ \E v \in Workers : InHand(v, m)'
        <5>1. /\ Answered(m)
              /\ \E v \in Workers : InHand(v, m) \/ (Fresh(v) /\ Head(worker[v].batch).m = m)
          BY <1>2, <4>1 DEF EntryHeld
        <5>2. PICK v \in Workers : InHand(v, m) \/ (Fresh(v) /\ Head(worker[v].batch).m = m)
          BY <5>1
        <5>3. CASE v = w
          BY <1>3, <3>1, <5>1, <5>2, <5>3 DEF InHand, d
        <5>4. CASE v # w
          BY <1>9, <2>2, <5>1, <5>2, <5>4
        <5> QED
          BY <5>3, <5>4
      <4>2. \A v \in Workers : Entering(v)' => worker'[v].m \notin idle
        BY <3>1, <3>3, <3>5
      <4> QED
        BY <1>2, <1>10, <1>11, <2>2, <3>3, <4>1, <4>2 DEF EntryHeld
    <3>8. Beats'
      <4>1. \A v \in Workers : /\ ~Closing(v)' /\ worker'[v].pc # "down"
                               /\ worker'[v].pc = "ack" => heartbeat = "fresh"
        BY <1>2, <1>5, <1>6, <3>1, <3>2 DEF Beats
      <4>2. \A v \in Workers : Waiting(v)' => heartbeat = "fresh"
        BY <1>2, <1>6, <2>2, <3>2 DEF Beats
      <4> QED
        BY <1>2, <1>11, <3>3, <4>1, <4>2 DEF Beats
    <3>9. Open'
      <4>1. \A v \in Workers : worker'[v].pc \notin {"txn", "invoke", "node"}
        BY <3>3 DEF Driving
      <4> QED
        BY <1>2, <1>11, <4>1 DEF Open
    <3> QED
      BY <3>4, <3>6, <3>7, <3>8, <3>9 DEF Orderly
  <2> QED
    BY <2>4, <2>5
<1>13. CASE ~Fresh(w)
  <2>1. heartbeat = "fresh" /\ d.reclaimed
    BY <1>2, <1>7, <1>13 DEF Beats
  <2>2. q.pc = "free"
    BY <1>5, <2>1 DEF DispatchTo
  <2>3. \A i \in DOMAIN rest : rest[i].reclaimed
    BY <1>2, <1>3, <1>4, <1>13 DEF Turns
  <2>4. ~Fresh(w)' /\ ~Entering(w)' /\ ~Driving(w)' /\ ~Closing(w)'
    <3>1. rest # << >> => Head(rest) = rest[1] /\ 1 \in DOMAIN rest
      BY <1>4
    <3>2. Fresh(w)' => rest # << >> /\ ~Head(rest).reclaimed
      BY <1>5 DEF Fresh, Waiting
    <3> QED
      BY <2>2, <2>3, <3>1, <3>2 DEF Entering, Driving, Closing
  <2>5. ~Entering(w) /\ ~Driving(w) /\ ~Closing(w)
    BY <1>3 DEF Entering, Driving, Closing
  <2>6. \A v \in Workers : /\ Fresh(v)' <=> Fresh(v)
                           /\ Entering(v)' <=> Entering(v)
                           /\ Driving(v)' <=> Driving(v)
                           /\ Closing(v)' <=> Closing(v)
    BY <1>6, <1>13, <2>4, <2>5
  <2>7. Turns'
    <3>1. \A v \in Workers : worker'[v].batch # << >> =>
            /\ worker'[v].pc = "free"
            /\ Fresh(v)' => Len(worker'[v].batch) = 1
            /\ ~Fresh(v)' => \A i \in DOMAIN worker'[v].batch : worker'[v].batch[i].reclaimed
      BY <1>2, <1>5, <1>6, <2>2, <2>3, <2>4 DEF Turns
    <3> QED
      BY <1>2, <1>11, <2>6, <3>1 DEF Turns, Acting
  <2>8. \A v \in Workers : /\ v # w => worker'[v] = worker[v]
                           /\ worker'[v].pc = worker[v].pc
                           /\ Fresh(v) \/ Entering(v) => v # w
    BY <1>3, <1>5, <1>13, <2>2, <2>5
  <2>9. Ready'
    <3>1. \A v \in Workers : Fresh(v)' => Due(Head(worker[v].batch).m)'
      <4> SUFFICES ASSUME NEW v \in Workers, Fresh(v) PROVE Due(Head(worker[v].batch).m)'
        BY <2>6
      <4>1. Due(Head(worker[v].batch).m) /\ worker'[v] = worker[v]
        BY <1>2, <2>8 DEF Ready
      <4> QED
        BY <1>8, <4>1
    <3>2. \A v \in Workers : Entering(v)' => Due(worker[v].m)'
      <4> SUFFICES ASSUME NEW v \in Workers, Entering(v) PROVE Due(worker[v].m)'
        BY <2>6
      <4>1. Due(worker[v].m) /\ worker'[v] = worker[v]
        BY <1>2, <2>8 DEF Ready
      <4> QED
        BY <1>8, <4>1
    <3>3. \A v \in Workers : worker'[v].pc = "enter" => worker'[v] = worker[v]
      BY <2>8 DEF Entering
    <3> QED
      BY <1>2, <1>8, <1>11, <3>1, <3>2, <3>3 DEF Ready
  <2>10. EntryHeld'
    <3>1. \A m : \A v \in Workers :
             /\ InHand(v, m)' <=> InHand(v, m)
             /\ Fresh(v) => worker'[v] = worker[v]
             /\ Entering(v) => worker'[v] = worker[v]
      BY <1>3, <1>9, <2>2, <2>8 DEF InHand
    <3>2. \A m \in Messages : pel'[m] # NoOne =>
             /\ Answered(m)'
             /\ \E v \in Workers : InHand(v, m)' \/ (Fresh(v)' /\ Head(worker'[v].batch).m = m)
      BY <1>2, <1>10, <1>11, <2>6, <3>1 DEF EntryHeld
    <3>3. \A v \in Workers : /\ Fresh(v)' => Head(worker'[v].batch).m \notin idle'
                             /\ Entering(v)' => worker'[v].m \notin idle'
      BY <1>2, <1>11, <2>6, <3>1 DEF EntryHeld
    <3> QED
      BY <1>2, <1>11, <3>2, <3>3 DEF EntryHeld
  <2>11. Beats'
    BY <1>2, <1>11, <2>1, <2>6, <2>8 DEF Beats
  <2>12. Open'
    <3>1. \A v \in Workers : worker'[v].pc \in {"txn", "invoke", "node"} => worker'[v] = worker[v]
      BY <1>3, <2>8
    <3> QED
      BY <1>2, <1>11, <3>1 DEF Open, Pending
  <2> QED
    BY <2>7, <2>9, <2>10, <2>11, <2>12 DEF Orderly
<1> QED
  BY <1>12, <1>13

\* What is idle is reclaimed with its mark.
LEMMA TurnReclaimed ==
    ASSUME TypeOK, TypeOK', Orderly, NEW w \in Workers, Reclaim(w) PROVE Orderly'
<1> DEFINE q == worker'[w]
<1>1. worker[w] \in WorkerStates /\ worker \in [Workers -> WorkerStates]
  BY DEF TypeOK
<1>2. Turns /\ Ready /\ EntryHeld /\ Beats /\ Open
  BY DEF Orderly
<1>3. PICK f \in [1 .. Cardinality(idle) -> idle] :
         worker' = [worker EXCEPT ![w].batch = [i \in DOMAIN f |-> [m |-> f[i], reclaimed |-> TRUE]]]
  BY DEF Reclaim
<1>4. /\ worker[w].pc = "free" /\ worker[w].batch = << >> /\ idle # {} /\ idle' = {}
      /\ pel' = [m \in Messages |-> IF m \in idle THEN w ELSE pel[m]]
      /\ UNCHANGED <<rowVars, toPublish, stream>>
  BY DEF Reclaim
<1> DEFINE b == [i \in DOMAIN f |-> [m |-> f[i], reclaimed |-> TRUE]]
<1>5. /\ q.pc = "free" /\ q.batch = b /\ b \in Seq(Deliveries)
      /\ \A v \in Workers : v # w => worker'[v] = worker[v]
  <2>1. q = [worker[w] EXCEPT !.batch = b]
    BY <1>1, <1>3
  <2>2. q.batch \in Seq(Deliveries)
    BY DEF TypeOK, WorkerStates
  <2>3. q.pc = "free" /\ q.batch = b
    BY <1>1, <1>4, <2>1 DEF WorkerStates
  <2>4. \A v \in Workers : v # w => worker'[v] = worker[v]
    BY <1>1, <1>3
  <2> HIDE DEF b
  <2> QED
    BY <2>2, <2>3, <2>4
<1>6. \A i \in DOMAIN b : b[i].reclaimed
  OBVIOUS
<1> HIDE DEF b
<1>7. ~Fresh(w)' /\ ~Fresh(w) /\ ~Waiting(w)
  <2>1. b # << >> => Head(b) = b[1] /\ 1 \in DOMAIN b
    BY <1>5
  <2> QED
    BY <1>4, <1>5, <1>6, <2>1 DEF Fresh, Waiting
<1>8. \A v \in Workers : /\ Fresh(v)' <=> Fresh(v)
                         /\ Entering(v)' <=> Entering(v)
                         /\ Driving(v)' <=> Driving(v)
                         /\ Closing(v)' <=> Closing(v)
                         /\ worker'[v].pc = worker[v].pc
                         /\ v # w => (Waiting(v)' <=> Waiting(v))
  BY <1>4, <1>5, <1>7 DEF Fresh, Waiting, Entering, Driving, Closing
<1>9. UNCHANGED <<runStatus, heartbeat, approvals, toPublish, stream>>
  BY <1>4 DEF rowVars
<1>10. \A v \in Workers : Fresh(v) \/ worker[v].pc # "free" => worker'[v] = worker[v]
  BY <1>4, <1>5, <1>7
<1>11. Turns'
  <2>1. \A v \in Workers : worker'[v].batch # << >> =>
          /\ worker'[v].pc = "free"
          /\ Fresh(v)' => Len(worker'[v].batch) = 1
          /\ ~Fresh(v)' => \A i \in DOMAIN worker'[v].batch : worker'[v].batch[i].reclaimed
    BY <1>2, <1>5, <1>6, <1>7, <1>8 DEF Turns
  <2> QED
    BY <1>2, <1>8, <1>9, <2>1 DEF Turns, Acting
<1>12. \A m : (Due(m)' <=> Due(m)) /\ (Answered(m)' <=> Answered(m))
  BY <1>9 DEF Due, Pending, Answered
<1>13. Ready'
  <2>1. \A v \in Workers : Fresh(v)' => Due(Head(worker[v].batch).m)'
    <3> SUFFICES ASSUME NEW v \in Workers, Fresh(v) PROVE Due(Head(worker[v].batch).m)'
      BY <1>8
    <3>1. Due(Head(worker[v].batch).m) /\ worker'[v] = worker[v]
      BY <1>2, <1>10 DEF Ready
    <3> QED
      BY <1>12, <3>1
  <2>2. \A v \in Workers : Entering(v)' => Due(worker[v].m)'
    <3> SUFFICES ASSUME NEW v \in Workers, Entering(v) PROVE Due(worker[v].m)'
      BY <1>8
    <3>1. Due(worker[v].m) /\ worker'[v] = worker[v]
      BY <1>2, <1>10 DEF Ready, Entering
    <3> QED
      BY <1>12, <3>1
  <2>3. \A v \in Workers : worker'[v].pc = "enter" => worker'[v] = worker[v]
    BY <1>8, <1>10
  <2> QED
    BY <1>2, <1>9, <1>12, <2>1, <2>2, <2>3 DEF Ready
<1>14. EntryHeld'
  <2>1. \A m \in Messages : pel'[m] # NoOne => pel[m] # NoOne
    BY <1>2, <1>4 DEF EntryHeld
  <2>2. \A m : \A v \in Workers : InHand(v, m)' <=> InHand(v, m)
    BY <1>4, <1>8, <1>10 DEF InHand
  <2>3. \A m \in Messages : pel'[m] # NoOne =>
           /\ Answered(m)'
           /\ \E v \in Workers : InHand(v, m)' \/ (Fresh(v)' /\ Head(worker'[v].batch).m = m)
    BY <1>2, <1>8, <1>10, <1>12, <2>1, <2>2 DEF EntryHeld
  <2>4. \A m \in Messages : pel[m] = NoOne => pel'[m] = NoOne
    BY <2>1
  <2>5. toPublish \subseteq Messages /\ (stream # << >> => stream[1] \in Messages)
    BY DEF TypeOK
  <2> QED
    BY <1>2, <1>4, <1>9, <2>3, <2>4, <2>5 DEF EntryHeld
<1>15. Beats'
  <2>1. heartbeat' = "fresh" /\ heartbeat = "fresh"
    BY <1>2, <1>4, <1>9 DEF Beats
  <2> QED
    BY <1>2, <1>8, <1>9, <2>1 DEF Beats
<1>16. Open'
  <2>1. \A v \in Workers : worker'[v].pc \in {"txn", "invoke", "node"} => worker'[v] = worker[v]
    BY <1>8, <1>10
  <2> QED
    BY <1>2, <1>9, <2>1 DEF Open, Pending
<1> QED
  BY <1>11, <1>13, <1>14, <1>15, <1>16 DEF Orderly

\* Who is done with the run acknowledges what it had in hand.
LEMMA TurnAcknowledged ==
    ASSUME TypeOK, TypeOK', Orderly, NEW w \in Workers, Ack(w) PROVE Orderly'
<1> DEFINE q == worker'[w]
           k == worker[w].m
<1>1. /\ worker[w] \in WorkerStates /\ worker \in [Workers -> WorkerStates]
      /\ pel \in [Messages -> Workers \cup {NoOne}] /\ k \in Messages
  BY DEF TypeOK, WorkerStates
<1>2. Turns /\ Ready /\ EntryHeld /\ Beats /\ Open
  BY DEF Orderly
<1>3. /\ worker[w].pc = "ack" /\ UNCHANGED <<rowVars, toPublish, stream>>
      /\ pel' = [pel EXCEPT ![k] = NoOne] /\ idle' = idle \ {k}
      /\ worker' = [worker EXCEPT ![w] = Free(worker[w].batch)]
  BY DEF Ack
<1>4. worker[w].batch = << >>
  BY <1>2, <1>3 DEF Turns
<1>5. /\ q.pc = "free" /\ q.batch = << >>
      /\ \A v \in Workers : v # w => worker'[v] = worker[v]
  <2>1. q = Free(<< >>)
    BY <1>1, <1>3, <1>4
  <2> QED
    BY <1>1, <1>3, <2>1 DEF Free
<1>6. \A v \in Workers : /\ Fresh(v)' <=> Fresh(v)
                         /\ Waiting(v)' <=> Waiting(v)
                         /\ Entering(v)' <=> Entering(v)
                         /\ Driving(v)' <=> Driving(v)
                         /\ Closing(v)' <=> Closing(v)
  BY <1>3, <1>4, <1>5 DEF Fresh, Waiting, Entering, Driving, Closing
<1>7. UNCHANGED <<runStatus, heartbeat, approvals, toPublish, stream>>
  BY <1>3 DEF rowVars
<1>8. \A v \in Workers : Fresh(v) \/ Entering(v) \/ Driving(v) => v # w /\ worker'[v] = worker[v]
  BY <1>3, <1>5 DEF Fresh, Waiting, Entering, Driving
<1>9. Turns'
  <2>1. \A v \in Workers : worker'[v].batch # << >> => worker'[v] = worker[v]
    BY <1>5
  <2> QED
    BY <1>2, <1>6, <1>7, <2>1 DEF Turns, Acting
<1>10. \A m : (Due(m)' <=> Due(m)) /\ (Answered(m)' <=> Answered(m))
  BY <1>7 DEF Due, Pending, Answered
<1>11. Ready'
  <2>1. \A v \in Workers : Fresh(v)' => Due(Head(worker[v].batch).m)'
    <3> SUFFICES ASSUME NEW v \in Workers, Fresh(v) PROVE Due(Head(worker[v].batch).m)'
      BY <1>6
    <3>1. Due(Head(worker[v].batch).m) /\ worker'[v] = worker[v]
      BY <1>2, <1>8 DEF Ready
    <3> QED
      BY <1>10, <3>1
  <2>2. \A v \in Workers : Entering(v)' => Due(worker[v].m)'
    <3> SUFFICES ASSUME NEW v \in Workers, Entering(v) PROVE Due(worker[v].m)'
      BY <1>6
    <3>1. Due(worker[v].m) /\ worker'[v] = worker[v]
      BY <1>2, <1>8 DEF Ready
    <3> QED
      BY <1>10, <3>1
  <2>3. \A v \in Workers : worker'[v].pc = "enter" => worker'[v] = worker[v]
    BY <1>5
  <2> QED
    BY <1>2, <1>7, <1>10, <2>1, <2>2, <2>3 DEF Ready
<1>12. EntryHeld'
  <2>1. \A m \in Messages : pel'[m] # NoOne => pel[m] # NoOne /\ m # k
    BY <1>1, <1>3
  <2>2. \A m : \A v \in Workers : InHand(v, m) /\ m # k => InHand(v, m)'
    BY <1>5 DEF InHand
  <2>3. \A m \in Messages : pel'[m] # NoOne =>
           /\ Answered(m)'
           /\ \E v \in Workers : InHand(v, m)' \/ (Fresh(v)' /\ Head(worker'[v].batch).m = m)
    BY <1>2, <1>6, <1>8, <1>10, <2>1, <2>2 DEF EntryHeld
  <2>4. \A m \in Messages : pel[m] = NoOne => pel'[m] = NoOne
    BY <2>1
  <2>5. toPublish \subseteq Messages /\ (stream # << >> => stream[1] \in Messages)
    BY DEF TypeOK
  <2>6. \A m \in idle' : pel'[m] # NoOne
    <3>1. \A m \in idle : m \in Messages /\ pel[m] # NoOne
      BY <1>2 DEF EntryHeld, TypeOK
    <3> QED
      BY <1>1, <1>3, <3>1
  <2>7. \A v \in Workers : /\ Fresh(v)' => Head(worker'[v].batch).m \notin idle'
                           /\ Entering(v)' => worker'[v].m \notin idle'
    BY <1>2, <1>3, <1>6, <1>8 DEF EntryHeld
  <2> QED
    BY <1>2, <1>7, <2>3, <2>4, <2>5, <2>6, <2>7 DEF EntryHeld
<1>13. Beats'
  <2>1. \A v \in Workers : worker'[v].pc # "down" /\ (worker'[v].pc = "ack" => worker[v].pc = "ack")
    BY <1>2, <1>5 DEF Beats
  <2>2. heartbeat' = "fresh"
    BY <1>2, <1>3, <1>7 DEF Beats
  <2> QED
    BY <1>2, <1>6, <1>7, <2>1, <2>2 DEF Beats
<1>14. Open'
  <2>1. \A v \in Workers : worker'[v].pc \in {"txn", "invoke", "node"} => worker'[v] = worker[v]
    BY <1>5
  <2> QED
    BY <1>2, <1>7, <2>1 DEF Open, Pending
<1> QED
  BY <1>9, <1>11, <1>12, <1>13, <1>14 DEF Orderly

\* Time passes no faster than the process that has the turn.
LEMMA TurnTimed ==
    ASSUME TypeOK, TypeOK', Patient, Orderly, Time PROVE Orderly'
<1>1. Turns /\ Ready /\ EntryHeld /\ Beats /\ Open
  BY DEF Orderly
<1>2. \A m, v : /\ Fresh(v)' <=> Fresh(v)
                /\ Waiting(v)' <=> Waiting(v)
                /\ Entering(v)' <=> Entering(v)
                /\ Driving(v)' <=> Driving(v)
                /\ Closing(v)' <=> Closing(v)
                /\ Due(m)' <=> Due(m)
                /\ Answered(m)' <=> Answered(m)
                /\ InHand(v, m)' <=> InHand(v, m)
  <2>1. UNCHANGED <<worker, runStatus, approvals>>
    BY DEF Time, BecomeIdle, HeartbeatAges, rowVars
  <2> QED
    BY <2>1 DEF Fresh, Waiting, Entering, Driving, Closing, Due, Pending, Answered, InHand
<1>3. UNCHANGED <<worker, runStatus, approvals, toPublish, stream, pel>>
  BY DEF Time, BecomeIdle, HeartbeatAges, rowVars, streamVars
<1>4. \A v \in Workers : Fresh(v) \/ (Waiting(v) /\ ~Fresh(v)) => Dispatching(v)
  BY DEF Fresh, Waiting, Dispatching, Patient
<1>5. \A m \in Messages, v \in Workers : InHand(v, m) =>
         (worker[v].pc \in Prompt /\ worker[v].m = m) \/ Driving(v)
  BY <1>1 DEF TypeOK, WorkerStates, PCs, InAdvance, InHand, Prompt, Driving, Beats, Closing
<1>6. Turns' /\ Ready' /\ Open'
  <2>1. Turns'
    BY <1>1, <1>2, <1>3 DEF Turns, Acting
  <2>2. Ready'
    BY <1>1, <1>2, <1>3 DEF Ready
  <2>3. Open'
    BY <1>1, <1>3 DEF Open, Pending
  <2> QED
    BY <2>1, <2>2, <2>3
<1>7. ASSUME NEW m \in Messages, BecomeIdle(m) PROVE EntryHeld' /\ Beats'
  <2>1. /\ pel[m] # NoOne /\ idle' = idle \cup {m} /\ heartbeat' = heartbeat
        /\ \A v \in Workers : ~Handling(v, m)
    BY <1>7 DEF BecomeIdle, rowVars
  <2>2. \A v \in Workers : Fresh(v) => Head(worker[v].batch).m # m
    BY <1>4, <2>1 DEF Handling
  <2>3. \A v \in Workers : Entering(v) => worker[v].m # m
    BY <2>1 DEF Handling, Entering, Prompt
  <2>4. EntryHeld'
    BY <1>1, <1>2, <1>3, <2>1, <2>2, <2>3 DEF EntryHeld
  <2>5. heartbeat = "fresh"
    <3>1. PICK v \in Workers : InHand(v, m)
      BY <1>1, <2>1, <2>2 DEF EntryHeld
    <3>2. Driving(v)
      BY <1>5, <2>1, <3>1 DEF Handling
    <3> QED
      BY <1>1, <3>2 DEF Beats
  <2>6. Beats'
    BY <1>1, <1>2, <1>3, <2>1, <2>5 DEF Beats
  <2> QED
    BY <2>4, <2>6
<1>8. ASSUME HeartbeatAges PROVE EntryHeld' /\ Beats'
  <2>1. /\ idle' = idle
        /\ \A v \in Workers : /\ worker[v].pc # "ack" /\ ~Dispatching(v)
                              /\ worker[v].pc \in InAdvance => runStatus # "running"
    BY <1>8 DEF HeartbeatAges, streamVars
  <2>2. \A v \in Workers : ~Driving(v) /\ ~Waiting(v) /\ ~Fresh(v) /\ worker[v].pc # "ack"
    BY <1>1, <1>4, <2>1 DEF Beats, Driving, InAdvance
  <2>3. idle = {}
    <3> SUFFICES ASSUME NEW m \in idle PROVE FALSE
      OBVIOUS
    <3>1. m \in Messages /\ pel[m] # NoOne
      BY <1>1 DEF EntryHeld, TypeOK
    <3>2. PICK v \in Workers : InHand(v, m)
      BY <1>1, <2>2, <3>1 DEF EntryHeld
    <3>3. Entering(v) /\ worker[v].m = m
      BY <1>5, <2>2, <3>1, <3>2 DEF Prompt, Entering
    <3> QED
      BY <1>1, <3>3 DEF EntryHeld
  <2>4. EntryHeld'
    BY <1>1, <1>2, <1>3, <2>1 DEF EntryHeld
  <2>5. Beats'
    BY <1>1, <1>2, <1>3, <2>1, <2>2, <2>3, SMTT(40) DEF Beats
  <2> QED
    BY <2>4, <2>5
<1> QED
  BY <1>6, <1>7, <1>8 DEF Orderly, Time

LEMMA PatientStep ==
    ASSUME TypeOK, TypeOK', [Next]_vars, Patient, ApprovalNode # GateNode, PatientInv
    PROVE  PatientInv'
<1>1. faults \in Nat /\ (faults' = faults \/ faults' = faults + 1)
  BY ZenonT(60) DEF TypeOK, Next, ApiStep, WorkerStep, MonitorStep, Trouble, Time, Publish, LosePublish,
         CancelLoad, CancelCommit, Resolve, Read, Reclaim, Dispatch, Ack, AckLost, Inspect,
         EnterLoad, EnterCommit, Invoke, NodeLoad, NodeCommit, NodeRefused, NodeRaise, NodeReturn,
         Settle, SettleInterrupt, SettleComplete, SettleLoad, FailureCommit, TeardownCommit,
         OrphanCommit, MonitorBeat, MonitorCancel, DatabaseError, Crash, Restart, BecomeIdle,
         HeartbeatAges, Fault, vars
<1> SUFFICES ASSUME faults' = 0 PROVE GaveUp' \/ Orderly'
  BY DEF PatientInv
<1>2. faults = 0 /\ (GaveUp \/ Orderly)
  BY <1>1 DEF PatientInv
<1>3. CASE GaveUp
  BY <1>3, GaveUpStays
<1> SUFFICES ASSUME Orderly PROVE GaveUp' \/ Orderly'
  BY <1>2, <1>3
<1>4. \A kind : ~Fault(kind)
  BY <1>2 DEF Fault
<1>5. CASE ApiStep
  <2>1. ASSUME NEW m \in Messages, Publish(m) \/ LosePublish(m) PROVE Orderly'
    BY <1>4, <2>1, TurnPublished DEF LosePublish
  <2>2. ASSUME NEW o \in Operators, CancelLoad(o) \/ CancelCommit(o) PROVE Orderly'
    <3>1. UNCHANGED <<runStatus, heartbeat, approvals, toPublish, stream, pel, idle, worker>>
      BY <2>2 DEF CancelLoad, CancelCommit, rowVars, streamVars
    <3> QED
      BY <3>1 DEF Orderly, Turns, Ready, EntryHeld, Beats, Open, Fresh, Waiting, Acting, Entering,
                  Driving, Closing, Due, Pending, Answered, InHand
  <2>3. ASSUME NEW i, NEW decision \in {"approved", "rejected"}, Resolve(i, decision)
        PROVE  Orderly'
    BY <2>3, TurnAnswered
  <2> QED
    BY <1>5, <2>1, <2>2, <2>3, SMTT(40) DEF ApiStep
<1>6. ASSUME NEW w \in Workers, WorkerStep(w) \/ MonitorStep(w) \/ Trouble(w)
      PROVE  GaveUp' \/ Orderly'
  <2>1. CASE Handles(w)
    BY <1>2, <2>1, TurnTaken
  <2>2. CASE Read(w)
    BY <2>2, TurnRead
  <2>3. CASE Reclaim(w)
    BY <2>3, TurnReclaimed
  <2>4. CASE Dispatch(w)
    BY <2>4, TurnDispatched
  <2>5. CASE Ack(w)
    BY <2>5, TurnAcknowledged
  <2>6. ~AckLost(w) /\ ~DatabaseError(w) /\ ~Crash(w) /\ ~Restart(w)
    BY <1>4, SMTT(40) DEF AckLost, DatabaseError, Crash, Restart, Orderly, Beats
  <2> QED
    BY <1>6, <2>1, <2>2, <2>3, <2>4, <2>5, <2>6 DEF WorkerStep, MonitorStep, Trouble, Handles
<1>7. CASE Time
  BY <1>7, TurnTimed
<1>8. CASE UNCHANGED vars
  <2>1. UNCHANGED <<runStatus, heartbeat, approvals, toPublish, stream, pel, idle, worker>>
    BY <1>8 DEF vars
  <2> QED
    BY <2>1 DEF Orderly, Turns, Ready, EntryHeld, Beats, Open, Fresh, Waiting, Acting, Entering,
                Driving, Closing, Due, Pending, Answered, InHand
<1> QED
  BY <1>5, <1>6, <1>7, <1>8, SMTT(40) DEF Next

LEMMA PatientInitially == ASSUME Init PROVE PatientInv
<1>1. \A w \in Workers : worker[w] = Free(<< >>)
  BY DEF Init
<1>2. \A w \in Workers : worker[w].pc = "free" /\ worker[w].batch = << >>
  BY <1>1 DEF Free
<1>3. /\ approvals = << >> /\ stream = << >> /\ Len(stream) = 0 /\ toPublish = {START}
      /\ idle = {} /\ pel = [m \in Messages |-> NoOne] /\ runStatus = "queued"
  BY DEF Init
<1>4. \A w \in Workers : ~Fresh(w) /\ ~Waiting(w) /\ ~Entering(w) /\ ~Driving(w) /\ ~Closing(w)
  BY <1>2 DEF Fresh, Waiting, Entering, Driving, Closing
<1>5. Turns /\ Ready
  BY <1>2, <1>3, <1>4 DEF Turns, Ready, Acting, Due, Pending
<1>6. EntryHeld /\ Beats
  BY <1>2, <1>3, <1>4, Constants DEF EntryHeld, Beats
<1>7. Open
  BY <1>2, <1>3 DEF Open, TerminalRunStatuses
<1> QED
  BY <1>5, <1>6, <1>7 DEF PatientInv, Orderly

LEMMA PatientHonours == TypeOK /\ PatientInv => GateHonouredUnlessFault
<1> SUFFICES ASSUME faults = 0, PatientInv, NEW w \in Workers, worker[w].pc = "txn",
                    worker[w].node = GateNode
             PROVE  ~Pending
  BY DEF GateHonouredUnlessFault, GateHonoured, Pending
<1>1. CASE Orderly
  BY <1>1 DEF Orderly, Open
<1>2. Acting(w)
  BY DEF Acting, Driving
<1> QED
  BY <1>1, <1>2 DEF PatientInv, GaveUp

\* With any number of processes, provided that answers wait until the process
\* that asked has settled and that entries are dispatched as soon as they are
\* delivered: unless something fails, no process goes through the gate while
\* the operator's answer is out.  The request has one holder at a time, and a
\* second delivery finds a fresh heartbeat, until the run is settled or its
\* assessment closed.
THEOREM GateHonouredByMany ==
    ASSUME Patient, ApprovalNode # GateNode
    PROVE  Spec => []GateHonouredUnlessFault
<1>1. Init => PatientInv
  BY PatientInitially
<1>2. TypeOK /\ TypeOK' /\ PatientInv /\ [Next]_vars => PatientInv'
  BY PatientStep
<1>3. TypeOK /\ PatientInv => GateHonouredUnlessFault
  BY PatientHonours
<1> QED
  BY <1>1, <1>2, <1>3, TypeCorrect, PTL DEF Spec
=============================================================================
