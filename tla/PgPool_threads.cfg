SPECIFICATION FairSpec
CONSTANTS
    Tasks = {t1, t2, t3}
    Closers = {}
    Drivers = {"psycopg"}
    Kinds <- Writes
    None = None
    MaxPools = 1
    MaxSize = 3
    Threads = 2
    CreateTable = FALSE
    MaxCalls = 3
    MaxCloses = 0
    MaxFailures = 0
    MaxCancels = 0
PROPERTIES
    NeverHangs
