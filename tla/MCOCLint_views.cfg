SPECIFICATION Spec
CONSTANTS
    r1 = r1
    r2 = r2
    hdr = hdr
    src1 = src1
    src2 = src2
    c1 = c1
    c2 = c2
    c3 = c3
    c4 = c4
    d0 = d0
    d1 = d1
    d2 = d2
    NoRule = NoRule
    NoPath = NoPath
    NoExit = NoExit
    NoDirectory = NoDirectory
    Places = {1}
    Rules <- MCRules
    Priority <- MCPriority
    Paths = {hdr}
    Options <- ViewsOptions
    SourceFiles <- MCSources
    SourcePaths <- MCPaths
    Commands = {c1, c2, c3, c4}
    Databases <- ViewsDatabases
    Directories = {d0, d1, d2}
    Launch = d0
    Chdir <- MCChdir
    OneClangJob = {c1, c2, c3}
    MaxDiagnostics = 1
    MaxFound = 2
INVARIANTS
    ReportIsFinal
PROPERTIES
    ImplementsContract
