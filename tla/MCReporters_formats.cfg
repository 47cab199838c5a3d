SPECIFICATION MCSpec
CONSTANTS
    Rules <- MCRules
    NoRule = ""
    Priority <- MCPriority
    Category <- MCCategory
    Paths <- MCPaths
    NoPath = ""
    Places <- MCPlaces
    Special <- MCSpecial
    Inputs <- MCInputs
    Formats <- MCFormats
INVARIANTS
    ReportIsWellFormed
    ReportTellsEverything
    SummaryMatchesList
