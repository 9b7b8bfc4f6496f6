\* Frames that break a rule the parser names.
SPECIFICATION Spec
CONSTANTS
    Keys = {0, 1, 2}
    Zeros = 0
    TextSize = 2
    MaxFrames = 3
    Frames <- MCFrames
INVARIANT RulesEnforced
