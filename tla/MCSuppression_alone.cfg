SPECIFICATION Spec
CONSTANTS
    long = long
    wide = wide
    goto = goto
    a = a
    b = b
    fa = fa
    fb = fb
    fh = fh
    rootA = rootA
    f = f
    inF = inF
    g = g
    rootB = rootB
    prop = prop
    acc = acc
    inAcc = inAcc
    k = k
    Every = Every
    NoNode = NoNode
    Units = {a, b}
    Names = {"a.c", "b.c"}
    Files = {fa, fb, fh}
    FileOf <- MCFileOf
    Rules <- MCRules
    Lines <- MCLines
    Comments <- MCComments
    Nodes <- MCNodes
    Decls = {rootA, f, g, rootB, prop, acc, k}
    Stmts <- MCStmts
    Root <- MCRoot
    NodesOf <- MCNodesOf
    Parent <- MCParent
    TopLevel <- MCTopLevel
    InMain = {f, prop, acc, k}
    First <- MCFirst
    Last <- MCLast
    Marks <- MCMarks
    Property <- MCProperty
    ProtocolMethods = {}
    InProtocol <- MCNone
    InCategories <- MCNone
    Readers = {long}
    Flown <- AloneFlown
    InOrder <- AloneInOrder
    MainFile <- MCOwnName
INVARIANTS
    NothingLeaks
    NothingIsLost
    VerdictsAreStable
