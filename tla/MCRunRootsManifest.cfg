SPECIFICATION Spec
CONSTANTS
    p1 = p1
    p2 = p2
    f1 = f1
    f2 = f2
    f3 = f3
    NoFile = NoFile
    Pids <- MCPids
    Inodes <- MCInodes
    MaxLosses = 1
VIEW MCView
SYMMETRY MCSymmetry
INVARIANTS
    TypeOK
    ValidatedStays
    NoLitter
PROPERTIES
    ImplementsCell
