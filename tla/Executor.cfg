SPECIFICATION FairSpec
CONSTANTS
    None = None
    o = o  c1 = c1  c2 = c2  t1 = t1  t2 = t2  b1 = b1  b2 = b2
    ok = ok  changed = changed  bad = bad
    Ids = {o, c1, c2}
    Threads = {t1, t2}
    Boundaries = {b1}
    BoundaryOf <- MCShared
    Origin <- MCOrigin
    Declared <- MCGuarded
    Direct <- MCDirectOriginal
    Authorized = {o, c1, c2}
    Irreversible = {}
    Credentialed = {c1}
    WithLookup = {o}
    Preconditioned = {}
    LiveStates = {ok}
    AllowStates = {ok}
    Approvals <- NoApprovals
    Modes = {"SHADOW", "GUARDED"}
    CompensationModes = {None}
    Leases = {FALSE, TRUE}
    MaxApprovalWindow = 2
    MaxRetries = 1
    MaxNow = 0
    MaxCrashes = 1
    ClockStepsBack = FALSE
INVARIANTS
    AtMostOnceCall
    CallIsWrittenAhead
    JournalIsTrue
    CompensationIsSafe
    RepliesAgree
PROPERTIES
    ImplementsContract
    CallsReturn
