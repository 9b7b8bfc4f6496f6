\* What close() does to the writes in the queue.
SPECIFICATION FairSpec
CONSTANTS
    KeepAliveMax = 1
    CountModulus = 4
    MaxChunks = 2
    MaxPipeline = 2
PROPERTY CloseCancelsWrites
