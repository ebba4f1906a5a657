SPECIFICATION Spec
CONSTANTS
    None = None
    Keys = {dev, prod}
    Clients = {a, b}
    MaxSessions = 3
    MaxJobs = 2
    Faults = {}
INVARIANTS
    EngineIsLive
