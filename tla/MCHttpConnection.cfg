\* Safety and liveness of a connection: chunks of up to two requests.
SPECIFICATION FairSpec
CONSTANTS
    KeepAliveMax = 1
    CountModulus = 4
    MaxChunks = 2
    MaxPipeline = 2
INVARIANTS
    TypeOK
    KeepAliveBound
PROPERTY ClosedAfterWriting
