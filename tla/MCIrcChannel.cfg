\* The client and two others in one channel.
SPECIFICATION Spec
CONSTANTS
    Nicks = {me, a, b}
    Me = me
    NoNick = NoNick
    Key = Key
    Channels = {chan}
    ModeMessages <- MCModeMessages
SYMMETRY Symmetry
INVARIANTS
    TypeOK
    ChannelsKnown
    ParticipantsKnown
    ModesSound
