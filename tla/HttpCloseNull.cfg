\* A write fails after the socket was moved to the web socket.
SPECIFICATION Spec
CONSTANTS
    KeepAliveMax = 1
    CountModulus = 4
    MaxChunks = 2
    MaxPipeline = 2
INVARIANT
    CloseFindsSocket
