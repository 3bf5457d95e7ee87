SPECIFICATION FairSpec
CONSTANTS
    Tasks = {t1, t2}
    Closers = {k1}
    Drivers = {"psycopg", "asyncpg"}
    Kinds <- Calls
    None = None
    MaxPools = 5
    MaxSize = 2
    Threads = 2
    CreateTable = TRUE
    MaxCalls = 2
    MaxCloses = 2
    MaxFailures = 1
    MaxCancels = 1
INVARIANTS
    TypeOK
    NoForgottenPool
    NoLostConnection
PROPERTIES
    CallReturns
    AcloseReturns
