SPECIFICATION Spec
CONSTANTS
    Rules <- MCRules
    SupportedLanguages <- MCLanguages
    Nodes <- MCLongNodes
    Histories <- MCLongHistories
    getCyclomaticComplexity <- CyclomaticComplexity
    getNPathComplexity <- NPath
    getNcssCount <- NcssCount
    getStmtDepth <- Depth
    Limits = {1, 2, 3, 4, 6}
    NoLimit = NoLimit
    Standard <- MCStandard
    IntBits = 4
INVARIANTS
    NPathCountsPaths
