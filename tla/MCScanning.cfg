SPECIFICATION MCSpec
CONSTANTS
    t1 = t1
    t2 = t2
    t3 = t3
    acme = acme
    initech = initech
    Global = Global
    Tasks <- MCTasks
    Orgs <- MCOrgs
    OrgOf <- MCOrgOf
    OrgLimit = 1
    GlobalLimit = 2
    MaxAttempts = 2
    MaxFaults <- MCMaxFaults
    JobFaults = {"crash", "database", "storage", "cancel"}
    MaxJobFaults = 3
    RunTimeout = 4
    CancelEvery = 2
    Grace = 2
    PipeCapacity = 2
    MaxEffort = 7
INVARIANTS LimitRespected CountersRecover JobInv 
PROPERTIES SettledUnlessLost RunningSettles RunReturns
CHECK_DEADLOCK FALSE
