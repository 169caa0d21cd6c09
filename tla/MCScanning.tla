------------------------------ MODULE MCScanning ----------------------------
(* The three parts of a scan, each on its own: the slots two nodes of one  *)
(* organization and one of another compete for, under one fault of every   *)
(* kind; one job row; one scanner process.  They share no variable, so the *)
(* run moves one of them, the focus, and leaves the others at rest.        *)
EXTENDS ScanSlots, ScannerJob, ScanProcess, TLC

CONSTANTS t1, t2, t3, acme, initech

MCTasks == {t1, t2, t3}
MCOrgs == {acme, initech}
MCOrgOf == t1 :> acme @@ t2 :> acme @@ t3 :> initech
MCMaxFaults == [f \in FaultKinds |-> 1]

VARIABLE focus

RestingTool == [state |-> "running", effort |-> 1, left |-> 1, chatty |-> FALSE,
                obeys |-> TRUE, heirs |-> FALSE, piped |-> 0]

MCInit ==
    /\ focus \in {"slots", "job", "process"}
    /\ Init
    /\ JobInit /\ (focus = "job" \/ kind = "scan")
    /\ ProcessInit /\ (focus = "process" \/ tool = RestingTool)

MCNext ==
    /\ UNCHANGED focus
    /\ \/ focus = "slots" /\ Next /\ UNCHANGED <<jobVars, processVars>>
       \/ focus = "job" /\ JobNext /\ UNCHANGED <<vars, processVars>>
       \/ focus = "process" /\ ProcessNext /\ UNCHANGED <<vars, jobVars>>

MCSpec ==
    /\ MCInit
    /\ [][MCNext]_<<focus, vars, jobVars, processVars>>
    /\ WF_jobVars(focus = "job" /\ Executor)
    /\ WF_jobVars(focus = "job" /\ Beat)
    /\ WF_jobVars(focus = "job" /\ HeartbeatAges)
    /\ WF_jobVars(focus = "job" /\ Reap)
    /\ WF_processVars(focus = "process" /\ RunnerStep)
=============================================================================
