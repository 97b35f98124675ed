CONSTANTS
    Repository <- TheRepository
    Duplicates <- TheDuplicates
    Broken <- TheBroken
    DependsOn <- TheDependsOn
    DecoupledModels <- TheDecoupled
    Batching <- TheBatching
    MessageLimit = 8
    Numerals <- TheNumerals
    SystemObjects <- TheObjects
    CudaHandles <- TheHandles
    PageSize = 2
    GPU = TRUE
    Scenarios <- TheScenarios
    Connections = {c1}
SPECIFICATION FairSpec
INVARIANTS FrontEndsAgree AnsweredOnce OrderlyProcess
PROPERTY EveryoneLeaves
CHECK_DEADLOCK FALSE
