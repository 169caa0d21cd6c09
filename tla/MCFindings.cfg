SPECIFICATION MCSpec
CONSTANTS
    alice = alice
    rce = rce
    sqli = sqli
    banner = banner
    Plans <- MCPlans
    Vulns = {rce, sqli, banner}
    Reports <- MCReports
    HasOutput = {"nmap", "zap"}
    Minor = {banner}
    Judgements = {"verified", "false_p", "is_mitigated"}
    MaxJudged = 1
    Faults = {"crash", "defectdojo", "database", "storage", "note"}
    MaxFaults = 1
    Operators = {alice}
    Budget = 1
    MaxRequests = 1
    Findings = {f1, f2}
    CVEs = {"c1", "c2"}
    CveLists <- MCCveLists
    NOROW = NOROW
    UNKNOWN = UNKNOWN
    Providers = {"cisa_kev", "misp"}
    Configured = {"cisa_kev"}
    MaxPasses = 2
    NOTHING = NOTHING
    Severities = {"medium", "critical"}
    Criticalities = {"low", "normal", "critical"}
    CvssScores = {95}
    EpssScores = {30}
    MaxRuns = 1
    Syncs = {f1, f2}
    Feeds = {1, 2}
    Repositories = {"one", "two"}
    Numbers = {1, 2}
    PageSize = 1
    MaxMoves = 2
    NOENTRY = NOENTRY
INVARIANTS ImportInv AnalysisInv EnrichmentInv 
PROPERTIES DecisionStands 
CHECK_DEADLOCK FALSE
