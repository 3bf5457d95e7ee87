SPECIFICATION FairSpec
CONSTANTS
    Clients = {c1, c2}
    Names = {n1, n2}
    Oids = {o1, o2, o3}
    a = a
    b = b
    Chunks = {a, b}
    Contents <- MCOneContent
    None = None
    MaxCalls = 3
    MaxFaults = 1
INVARIANTS
    StoreInv
PROPERTIES
    ImplementsContract
    CallReturns
