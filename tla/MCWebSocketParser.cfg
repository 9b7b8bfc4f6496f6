\* Every sequence of three frames.
SPECIFICATION Spec
CONSTANTS
    Keys = {0, 1, 2}
    Zeros = 0
    TextSize = 2
    MaxFrames = 3
    Frames <- MCFrames
INVARIANTS
    TypeOK
    InSync
    ControlAnswered
    MessagesWhole
    AllDelivered
