\* Every input of up to nine characters; a line of more than seven is too long.
SPECIFICATION Spec
CONSTANTS
    BufferSizeThreshold = 7
    MaxParams = 2
    MaxInput = 9
INVARIANTS
    TypeOK
    LinesAreMessages
    OnlyBadInputFails
    EncodingReadBack
