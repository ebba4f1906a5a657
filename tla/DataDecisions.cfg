SPECIFICATION Spec
INVARIANTS
    PlannedQueryIsSafe
    CompiledQueriesAgree
    DraftsAreTrue
    PipelineIsFaithful
    SearchIsFaithful
