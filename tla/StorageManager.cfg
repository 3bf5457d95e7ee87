SPECIFICATION Spec
CONSTANTS
    Tasks = {t1, t2}
    Names = {n1, n2, n3}
    Instances = {s1, s2, s3}
    builtin = builtin
    short = short
    dotted = dotted
    LocalStorage = LocalStorage
    Custom = Custom
    Backends = {builtin, short, dotted}
    Classes = {LocalStorage, Custom}
    None = None
    Builtin <- MCBuiltin
    Import <- MCImport
    MaxCalls = 5
    MaxFaults = 1
SYMMETRY Symmetry
INVARIANTS
    TypeOK
    OneMeaning
PROPERTIES
    ClosesAll
    SameStorage
