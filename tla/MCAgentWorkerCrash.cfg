SPECIFICATION FairSpec
CONSTANTS
    w1 = w1
    w2 = w2
    operator = operator
    NoOne = NoOne
    Workers <- MCWorkers
    Operators <- MCOperators
    Nodes <- ShortNodes
    FirstNode = "plan"
    ApprovalNode <- _APPROVAL_NODE
    GateNode <- _SCANNER_NODE
    Edges <- PassiveEdges
    Targets <- ShortTargets
    ReadBatch = 10
    OtherRuns = FALSE
    EarlyApproval = FALSE
    MaxApprovals = 0
    Faults = {"crash", "ack", "checkpoint", "database"}
    MaxFaults = 2
INVARIANTS SingleDriver  NoOpenAssessmentOfSettledRun
PROPERTIES NothingReopened  
CHECK_DEADLOCK FALSE
