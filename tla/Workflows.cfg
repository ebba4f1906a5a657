SPECIFICATION Spec
CONSTANTS
    Parties = {p1, p2}
    Outputs = {o1, o2}
    Nobody = Nobody
    MaxLeases = 1
    MaxTtl = 1
    MaxTime = 1
    Scopes = {"s1"}
    Granted = {"s1"}
    Definitions <- DefinitionFiles
    LiveStates = {"good", "bad"}
    MaxCommands = 5
    Calls = {"c1"}
    Models = {"root", "joined"}
    Root = "root"
    Datasets <- CertifiedDatasets
    Modes = {"off", "warn", "enforce", "supervised"}
    MaxDays = 2
    MaxPublications = 2
    MaxAge = 1
    MaxOverrideWindow = 1
    MaxRows = 3
    MaxRefreshes = 2
    Keys = {"a", "b"}
    KeyOf <- KeyOfRow
    ViewDefinitions <- DeclaredViews
    MaxChanges = 2
    MaxRuns = 3
    Outages = {"none", "lineage", "columns", "tables"}
    MaxEdits = 2
CHECK_DEADLOCK FALSE
SYMMETRY Symmetry
INVARIANTS
    LeaseCap
    
    PublicationIsFaithful
    DecisionsAreOnRecord
    EnforcedReadIsCertified
    
    
    
    SpansFormATree

    
