SPECIFICATION Spec
CONSTANTS
    Clients = {c1, c2}
    top = top
    sub = sub
    a = a
    b = b
    d = d
    e = e
    Names = {top}
    Above <- MCFlat
    Inodes = {i1, i2, i3, i4}
    Chunks = {a, b, d, e}
    Contents <- MCContents
    Hole = Hole
    Dir = Dir
    None = None
    DirSize = 4
    Callers = {TRUE}
    MaxCalls = 2
    MaxFaults = 0
    MaxCancels = 1
SYMMETRY Symmetry
INVARIANTS
    SaveLasts
