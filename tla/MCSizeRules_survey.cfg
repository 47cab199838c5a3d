SPECIFICATION MCSpec
CONSTANTS
    Rules <- MCRules
    SupportedLanguages <- MCLanguages
    Nodes <- MCNodes
    Histories <- MCHistories
    getCyclomaticComplexity <- CyclomaticComplexity
    getNPathComplexity <- NPath
    getNcssCount <- NcssCount
    getStmtDepth <- Depth
    Limits <- MCLimits
    NoLimit = NoLimit
    Standard <- MCStandard
    IntBits = 16
INVARIANTS
    OnlyTheMainFile
    EachNodeInOrder
    NPathCountsPaths
    CyclomaticIsMcCabe
    LengthAndDepthAreTrue
    LowerLimitReportsMore
PROPERTIES
    Lands
