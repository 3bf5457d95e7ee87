SPECIFICATION Spec
CONSTANTS
    Clients = {c1, c2}
    Names = {n1}
    Oids = {o1, o2}
    a = a
    b = b
    Chunks = {a, b}
    Contents <- MCOneContent
    None = None
    MaxCalls = 2
    MaxFaults = 0
SYMMETRY Symmetry
INVARIANTS
    NoOrphanObject
