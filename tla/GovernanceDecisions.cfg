SPECIFICATION Spec
CONSTANTS
    MaxSchemaDepth = 2
    MaxRules = 2
    Hard <- SmallCeilings
    MaxPort = 2
    DefaultLimit = 2
    CapabilityInputs <- SmallCapabilityInputs
    PreconditionInputs <- SmallPreconditionInputs
    ConfigInputs <- SmallConfigInputs
    QueryInputs <- SmallQueryInputs
    ToolInputs <- SmallToolInputs
    ResourceInputs <- SmallResourceInputs
    PageInputs <- SmallPageInputs
    RowInputs <- SmallRowInputs
    DatasetInputs <- SmallDatasetInputs
    SetupInputs <- SmallSetupInputs
    StoreInputs <- SmallStoreInputs
    RouteInputs <- SmallRouteInputs
    ExportInputs <- SmallExportInputs
    AttributeInputs <- SmallAttributeInputs
    CheckInputs <- SmallCheckInputs
    ReportInputs <- SmallReportInputs
    VolumeInputs <- SmallVolumeInputs
    Versions <- SmallVersions
    Travellers <- SmallTravellers
    Documents <- SmallDocuments
    AdviceSettings <- SmallAdviceSettings
    AdviceInputs <- SmallAdviceInputs
    OutcomeInputs <- SmallOutcomeInputs
    JudgementInputs <- SmallJudgementInputs
    AnswerInputs <- SmallAnswerInputs
    ChronologyInputs <- SmallChronologyInputs
    EvaluationInputs <- SmallEvaluationInputs
    DriftInputs <- SmallDriftInputs
    SchemaInputs <- SmallSchemaInputs
    RollupInputs <- SmallRollupInputs
    OpInputs <- SmallOpInputs
    LayoutInputs <- SmallLayoutInputs
    OutputInputs <- SmallOutputInputs
    BlockInputs <- SmallBlockInputs
    FileInputs <- SmallFileInputs
    PipelineInputs <- SmallPipelineInputs
INVARIANTS
    
    CandidateVerdictIsSound
    AdviceIsBackedUp
    EngineIsOneEnvironment
    SideChannelsAreHarmless
    ChecksConfirmTheOutput
    LoadedPipelineRuns
