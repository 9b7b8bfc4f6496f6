\* Two chunks of up to two requests: a second Close in the chunk of the first.
SPECIFICATION FairSpec
CONSTANTS
    MaxChunks = 2
    MaxPipeline = 2
INVARIANTS
    TypeOK
    OneCloseFrame
PROPERTIES
    NoHangUp
    ClosedAfterReading
