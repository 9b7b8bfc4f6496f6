\* One client with two nicknames; no PING, bad message, unasked ERROR or typed
\* line.
SPECIFICATION FairSpec
CONSTANTS
    NickCount = 2
    MaxTraffic = 0
PROPERTIES
    ClosedAndFreed
    EventuallyJoined
