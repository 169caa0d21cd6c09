SPECIFICATION Spec
CONSTANTS
    a1 = a1
    a2 = a2
    a3 = a3
    alice = alice
    bob = bob
    NoRequest = NoRequest
    Unspecified = Unspecified
    Assets <- MCAssets
    Scanners = {"nmap", "zap"}
    Operators <- MCOperators
    SelectedAssets <- MCSelected
    DepthScanners = {"nmap"}
    MaxAssets = 1
    MaxRows = 2
    MaxCrashes = 1
SYMMETRY OperatorSymmetry
INVARIANTS ConsentNarrows ScanWithinConsent OnePending
PROPERTIES AnsweredOnce
CHECK_DEADLOCK FALSE
