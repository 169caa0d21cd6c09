SPECIFICATION MCSpec
CONSTANTS
    driver = driver
    guest = guest
    first = first
    second = second
    one = one
    other = other
    w1 = w1
    w2 = w2
    NoTxn = NoTxn
    Cancellers <- MCActors
    Drivers <- MCDrivers
    Clients <- MCActors
    AccessTTL = 1
    RefreshTTL = 3
    MaxPairs = 3
    MaxTime = 4
    ResetTimes = {2}
    Attempts <- MCActors
    Words <- MCWords
    ResetTTL = 2
    MaxAttempts = 2
    LockSeconds = 2
    MaxLinks = 1
    MaxClock = 5
    Users <- MCUsers
    Founders <- MCValues
    Names = {"acme"}
    Roles = {"owner", "admin", "viewer"}
    Callers <- MCActors
    MaxOrgs = 1
    Editors <- MCActors
    Urls <- MCValues
    Secrets = {s1}
    ABSENT = ABSENT
    CLEAR = CLEAR
    Requesters <- MCActors
    FailureThreshold = 2
    Cooldown = 1
    Window = 2
    MaxTries = 2
    MaxSeconds = 5
SYMMETRY Symmetry
INVARIANTS SessionsInv PasswordsInv MembershipInv ConfigInv CallsInv
PROPERTIES LegalUnlessOvertaken
CHECK_DEADLOCK FALSE
