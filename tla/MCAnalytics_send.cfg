SPECIFICATION Spec
CONSTANTS
    Countly = TRUE
    Keys = {"k", "l"}
    Values = {"v", "w"}
    Identifiers = {"r", "s"}
    LangOptions <- MCLangOptions
    Directories = {"dir", "nowhere"}
    NoPath = "nowhere"
    Unknown = "unknown-project-id"
    NoMap = NoMap
    NoExit = NoExit
    MaxUnits = 2
CONSTRAINT Bounded
INVARIANTS
    ToldIsWhatHappened
    OnlyCompleteGroups
    TellsOnceUnlessDisabled
