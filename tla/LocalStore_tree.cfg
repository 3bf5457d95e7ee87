SPECIFICATION Spec
CONSTANTS
    Clients = {c1, c2}
    top = top
    sub = sub
    a = a
    b = b
    d = d
    e = e
    Names = {top, sub}
    Above <- MCNested
    Inodes = {i1, i2, i3}
    Chunks = {a, b, d, e}
    Contents <- MCContents
    Hole = Hole
    Dir = Dir
    None = None
    DirSize = 4
    Callers = {TRUE, FALSE}
    MaxCalls = 3
    MaxFaults = 2
    MaxCancels = 2
SYMMETRY Symmetry
INVARIANTS
    TypeOK
    TreeClosed
    OwnBytes
    OneBeginning
PROPERTIES
    TranslatedErrors
    ImplementsContract
