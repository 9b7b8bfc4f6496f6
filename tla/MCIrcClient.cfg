\* One client with two nicknames; one PING, bad message, unasked ERROR or line
\* of standard input.
SPECIFICATION Spec
CONSTANTS
    NickCount = 2
    MaxTraffic = 1
INVARIANTS
    TypeOK
    NicknameAgreed
    ClosedLeavesPool
    LambdaOutlived
    NothingStranded
    JoinedClosed
