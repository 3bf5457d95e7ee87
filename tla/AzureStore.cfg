SPECIFICATION Spec
CONSTANTS
    Clients = {c1, c2}
    Names = {n1}
    a = a
    b = b
    Chunks = {a, b}
    Contents <- MCContents
    None = None
    MaxCalls = 4
    MaxFaults = 2
SYMMETRY Symmetry
INVARIANTS
    TypeOK
    OwnBlocks
PROPERTIES
    TranslatedErrors
    ImplementsContract
