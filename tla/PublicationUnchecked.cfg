SPECIFICATION Spec
CONSTANTS
    None = None
    r1 = r1  r2 = r2  t = t  good = good  bad = bad  c1 = c1  c2 = c2
    Targets = {t}
    TargetOf <- MCTargetOf
    Batches = {good, bad}
    Fails <- MCFails
    Runs = {r1, r2}
    Checks = {c1}
    Procs = {p1}
    Resumers = {p1}
    Operators = {}
    MaxPublish = 1
    MaxAborts = 1
    ClockRuns = TRUE
    MaxNow = 0
    AtomicCheckBatch = TRUE
INVARIANTS
    TargetPassedChecks
