CONSTANTS
    T1 = T1
    T2 = T2
    NoThreadV = NoThreadV
    NullV = NullV
    Threads <- MCThreads
    Tables <- MCTables
    Paths <- MCPaths
    Ops = {"getattr", "open", "read", "readdir"}
    NoThread <- NoThreadV
    Null <- NullV
SPECIFICATION Spec
SYMMETRY MCSymmetry
INVARIANT
    MapAccessExclusive
