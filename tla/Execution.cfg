SPECIFICATION PolledSpec
CONSTANTS
    None = None
    Keys = {dev, prod}
    Clients = {a, b}
    MaxSessions = 2
    MaxJobs = 2
    Faults = {"start", "group"}
INVARIANTS
    RunningJobHasEngine
    ResultMatchesJob
    NoEngineLeak
PROPERTIES
    TerminalIsFinal
    RequestsEnd
