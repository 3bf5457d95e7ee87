SPECIFICATION Spec
CONSTANTS
    Clients = {c1, c2, c3}
    Names = {n1}
    Oids = {o1, o2, o3, o4}
    a = a
    b = b
    Chunks = {a, b}
    Contents <- MCContents
    None = None
    MaxCalls = 4
    MaxFaults = 1
SYMMETRY Symmetry
INVARIANTS
    TypeOK
    RowHasObject
    RowDescribesObject
    NoWaitCycle
PROPERTIES
    ImplementsContract
