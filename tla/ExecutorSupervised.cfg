SPECIFICATION Spec
CONSTANTS
    None = None
    o = o  c1 = c1  c2 = c2  t1 = t1  t2 = t2  b1 = b1  b2 = b2
    ok = ok  changed = changed  bad = bad
    Ids = {o, c1}
    Threads = {t1}
    Boundaries = {b1}
    BoundaryOf <- MCShared
    Origin <- MCOrigin
    Declared <- MCSupervised
    Direct <- MCDirectOriginal
    Authorized = {o, c1, c2}
    Irreversible = {o}
    Credentialed = {o}
    WithLookup = {o}
    Preconditioned = {o}
    LiveStates = {ok, changed, bad}
    AllowStates = {ok, changed}
    Approvals <- MCApprovals
    Modes = {"SHADOW", "SUPERVISED"}
    CompensationModes = {}
    Leases = {FALSE}
    MaxApprovalWindow = 2
    MaxRetries = 1
    MaxNow = 1
    MaxCrashes = 1
    ClockStepsBack = TRUE
PROPERTY
    SupervisedCallsAreGoverned
