SPECIFICATION Spec
CONSTANTS
    Requests = {q1, q2}
    RawConfigs <- MCRawConfigs
    NameOrder <- MCNameOrder
    Spelled <- MCSpelled
    ProgramOf <- MCProgramOf
    Messages <- MCMessages
    SegmentsOf <- MCSegmentsOf
    SourceLists <- MCSourceLists
    Env <- MCEnv
    MacroConfigs <- MCMacroConfigs
    Matrices <- MCMatrices
    Responses <- MCResponses
    MaxRecords = 5
SYMMETRY Symmetry
CHECK_DEADLOCK FALSE
INVARIANTS
    MergeKeepsAll
    MacrosExpand
    SolveCheapest
    
    SpilloverExact
    
    UpstreamNamed
PROPERTIES
    SpilloverFills
