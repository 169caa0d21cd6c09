SPECIFICATION Spec
CONSTANTS
    w1 = w1
    w2 = w2
    operator = operator
    NoOne = NoOne
    Workers = {w1}
    Operators <- MCOperators
    Nodes <- PipelineNodes
    FirstNode = "understand"
    ApprovalNode <- _APPROVAL_NODE
    GateNode <- _SCANNER_NODE
    Edges <- PipelineEdges
    Targets <- PipelineTargets
    ReadBatch = 10
    OtherRuns = TRUE
    EarlyApproval = TRUE
    MaxApprovals = 2
    Faults = {"crash", "ack", "publish", "checkpoint", "database"}
    MaxFaults = 2
INVARIANTS ScanOnlyUnderGrant GateHonouredUnlessFault
PROPERTIES ImplementsRow
CHECK_DEADLOCK FALSE
