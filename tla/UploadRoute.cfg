SPECIFICATION FairSpec
CONSTANTS
    None = None
    Escapes <- MCEscapes
    Characters <- MCCharacters
    Requests <- MCRequests
    MaxFails = 1
    MaxName = 3
    MaxContent = 3
    MaxChunk = 2
INVARIANTS
    TypeOK
    StoresUpload
    LinkLeadsBack
    YieldsStored
PROPERTIES
    SaveEnds
