SPECIFICATION MCSpec
CONSTANTS
    etc = etc
    user = user
    proj = proj
    root = root
    pDefault = pDefault
    pMine = pMine
    pNowhere = pNowhere
    pBroken = pBroken
    pReporters = pReporters
    pBuilt = pBuilt
    libA = libA
    libB = libB
    libText = libText
    libHtml = libHtml
    NoHome = NoHome
    NoValue = NoValue
    Malformed = Malformed
    Garbage = Garbage
    NotLibrary = NotLibrary
    NoEntry = NoEntry
    NoReporter = NoReporter
    Directories <- MCDirectories
    Etc = etc
    Root = root
    TooLong = {user}
    CommandLines <- MCCommandLines
    Texts <- MCTexts
    RulePaths = {pDefault, pMine, pNowhere, pBroken}
    Strings <- MCStrings
    Default <- MCDefault
    Overwritten <- DanglingTexts
    DefaultRulesPath = pDefault
    ReporterPathOf <- MCReporterPathOf
    Entries <- MCEntries
    Holds <- MCHolds
    Hidden = {"."}
    LibraryOf <- MCLibraryOf
    Registers <- MCRegisters
    Identifier <- MCIdentifier
    Creates <- MCCreates
INVARIANTS
    LastWordWins
    NearestWins
    LastConfigurationWins
    LoadedOnce
    StatusIsExplained
    CommandLineStands
PROPERTIES
    Settles
