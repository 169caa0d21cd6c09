SPECIFICATION Spec
CONSTANTS
    w1 = w1
    w2 = w2
    operator = operator
    NoOne = NoOne
    Workers <- MCWorkers
    Operators = {}
    Nodes <- ShortNodes
    FirstNode = "plan"
    ApprovalNode <- _APPROVAL_NODE
    GateNode <- _SCANNER_NODE
    Edges <- ShortEdges
    Targets <- ShortTargets
    ReadBatch = 10
    OtherRuns = FALSE
    EarlyApproval = FALSE
    MaxApprovals = 1
    Faults = {"crash"}
    MaxFaults = 1
SYMMETRY WorkerSymmetry
INVARIANTS GateHonoured
CHECK_DEADLOCK FALSE
