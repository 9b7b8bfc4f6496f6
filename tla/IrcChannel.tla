----------------------------- MODULE IrcChannel -----------------------------
(***************************************************************************)
(* What an IrcClient knows of its channels (procMessage of IrcClient.cpp), *)
(* against what is true at the server, whose messages reach it in order.   *)
(*                                                                         *)
(* The server is external.  It tells the client of everything that happens *)
(* in the channels the client is in: JOIN, PART, MODE and the names of a   *)
(* channel, which the client handles, and QUIT, KICK and NICK, which it    *)
(* does not.  stale and misled say what can no longer be expected to be    *)
(* known; a later message may make it known again.  A participant has the  *)
(* modes op and voice.                                                     *)
(*                                                                         *)
(* An operator Mut<Name> is <Name> with a bug a change of that code could  *)
(* introduce; Next does not use it.                                        *)
(***************************************************************************)
EXTENDS Naturals, Sequences, FiniteSets

CONSTANTS
    Nicks, Me,      \* nicknames in use, and that of the client
    NoNick,         \* the empty nickname
    Key,            \* a parameter that is nobody's nickname
    Channels,
    ModeMessages    \* the MODE messages the server may send

Modes == {"o", "v"}
Others == Nicks \ {Me}

\* A letter of a MODE message and the sign before it.  "k" is one of the letters
\* that have a parameter and are read without it (lines 485-498); "f" is of the
\* third group of CHANMODES, whose letters have one only when they are set; "i"
\* has none.
Letters == [sign : BOOLEAN, letter : Modes \union {"k", "f", "i"}]
HasParam(ch) == ch.letter \in Modes \union {"k"} \/ (ch.letter = "f" /\ ch.sign)

\* How many of the first i letters have a parameter: the place of the one of
\* letter i, when it has one.
Place(m, i) == Cardinality({j \in 1..i : HasParam(m.changes[j])})

ASSUME NickAssumption == Me \in Nicks /\ NoNick \notin Nicks

ASSUME ModeAssumption ==
    \A m \in ModeMessages :
        /\ m.changes \in Seq(Letters)
        /\ m.params \in Seq(Nicks \union {Key})
        /\ Len(m.params) = Place(m, Len(m.changes))

VARIABLES
    members,        \* at the server: who is in a channel
    ranks,          \* at the server: who has which mode there
    toClient,       \* messages sent and not processed
    channels,       \* the keys of channels_
    participants,   \* the nicknames of participants_, by channel
    modes,          \* their modes_, by channel
    letter, taken,  \* in a MODE: the next letter, and how many parameters are taken
    deaf,           \* procMessage threw: the client reads no more
    stale,          \* nicknames the client cannot know about, by channel
    misled          \* those whose modes it cannot know, by channel

server == <<members, ranks>>
client == <<channels, participants, modes, letter, taken, deaf>>
ghosts == <<stale, misled>>
vars == <<server, toClient, client, ghosts>>

TypeOK ==
    /\ members \in [Channels -> SUBSET Nicks]
    /\ ranks \in [Channels -> SUBSET (Nicks \X Modes)]
    /\ Len(toClient) <= 2
    /\ channels \subseteq Channels
    /\ participants \in [Channels -> SUBSET (Nicks \union {NoNick})]
    /\ \A c \in Channels : modes[c] \subseteq participants[c] \X Modes
    /\ \A c \in Channels \ channels : participants[c] = {}
    /\ letter \in Nat \ {0} /\ taken \in 0..letter - 1
    /\ deaf \in BOOLEAN
    /\ stale \in [Channels -> SUBSET Nicks]
    /\ misled \in [Channels -> SUBSET Nicks]

\* Connected, and in no channel; somebody else may be in some.
Init ==
    /\ members \in [Channels -> SUBSET Others]
    /\ ranks = [c \in Channels |-> {}]
    /\ toClient = <<>>
    /\ channels = {}
    /\ participants = [c \in Channels |-> {}]
    /\ modes = [c \in Channels |-> {}]
    /\ letter = 1 /\ taken = 0
    /\ deaf = FALSE
    /\ stale = [c \in Channels |-> {}]
    /\ misled = [c \in Channels |-> {}]

Of(n) == {n} \X Modes

-----------------------------------------------------------------------------
(* The server *)

\* The client is told of what happens in the channels it is in.  The server
\* goes on when it has been told: nothing the server does depends on the client,
\* so that doing more before makes the same messages and the same state.
Tell(c, messages) ==
    /\ toClient = <<>>
    /\ toClient' = IF Me \in members[c] THEN messages ELSE <<>>

Message(command, c, n) == [command |-> command, channel |-> c, nick |-> n]

\* Somebody joins, and is op when the channel is new.
ServerJoin(c, n) ==
    /\ n \in Others \ members[c]
    /\ Tell(c, <<Message("JOIN", c, n)>>)
    /\ members' = [members EXCEPT ![c] = @ \union {n}]
    /\ ranks' = [ranks EXCEPT ![c] = IF members[c] = {} THEN {<<n, "o">>} ELSE @]
    /\ UNCHANGED <<client, ghosts>>

\* The names of a channel carry the highest mode of each, and may end with a
\* space, which the client takes for one more, empty, nickname.  One of them is
\* odd when its mode is of PREFIX but none of qaohv.
Names(c, m, r, space, odd) ==
    [command |-> "353", channel |-> c, odd |-> odd,
     nicks |-> m \union IF space THEN {NoNick} ELSE {},
     modes |-> {x \in r : x[2] = "o" \/ <<x[1], "o">> \notin r}]

\* The client joins.
ServerJoinMe(c, space, odd) ==
    /\ Me \notin members[c]
    /\ toClient = <<>>
    /\ LET m == members[c] \union {Me}
           r == IF members[c] = {} THEN {<<Me, "o">>} ELSE ranks[c]
       IN  /\ members' = [members EXCEPT ![c] = m]
           /\ ranks' = [ranks EXCEPT ![c] = r]
           /\ toClient' = <<Message("JOIN", c, Me), Names(c, m, r, space, odd)>>
    /\ UNCHANGED <<client, ghosts>>

Gone(c, n) ==
    /\ members' = [members EXCEPT ![c] = @ \ {n}]
    /\ ranks' = [ranks EXCEPT ![c] = @ \ Of(n)]

\* PART is known to the client; what else it did not know of n, or of the
\* channel it has left, does not matter any more.
Forgets(known, c, n) ==
    [known EXCEPT ![c] = CASE n = Me -> {}
                           [] n # Me /\ Me \in members[c] -> @ \ {n}
                           [] OTHER -> @]
ServerPart(c, n) ==
    /\ n \in members[c]
    /\ Tell(c, <<Message("PART", c, n)>>)
    /\ Gone(c, n)
    /\ stale' = Forgets(stale, c, n)
    /\ misled' = Forgets(misled, c, n)
    /\ UNCHANGED client

\* A QUIT or KICK takes n from the channel, and a NICK gives its place to
\* another.  The client does not handle it.
ServerRemoves(c, n) ==
    /\ n \in members[c]
    /\ Tell(c, <<Message("KICK", c, n)>>)
    /\ Gone(c, n)
    /\ stale' = [stale EXCEPT ![c] = IF n = Me THEN Nicks
                                     ELSE IF Me \in members[c] THEN @ \union {n}
                                     ELSE @]
    /\ UNCHANGED <<client, misled>>

ServerNick(c, n, new) ==
    /\ n \in members[c] \ {Me} /\ new \notin members[c] \union {Me}
    /\ Tell(c, <<Message("NICK", c, n)>>)
    /\ members' = [members EXCEPT ![c] = (@ \ {n}) \union {new}]
    /\ ranks' = [ranks EXCEPT ![c] =
                   (@ \ Of(n)) \union {<<new, x[2]>> : x \in @ \intersect Of(n)}]
    /\ stale' = IF Me \in members[c] THEN [stale EXCEPT ![c] = @ \union {n, new}]
                                     ELSE stale
    /\ UNCHANGED <<client, misled>>

\* The letters of m that give x, a nickname and a mode, or take it away.
About(m, x) ==
    {i \in DOMAIN m.changes : m.changes[i].letter = x[2] /\ m.params[Place(m, i)] = x[1]}

\* What is after m: what was there, or is given, and not taken away afterwards.
Ranked(r, m) ==
    {x \in Nicks \X Modes :
        \/ x \in r /\ \A j \in About(m, x) : m.changes[j].sign
        \/ \E i \in About(m, x) : \A j \in About(m, x) : j >= i => m.changes[j].sign}

\* Behind one of these letters the client takes the parameter of another letter
\* for that of a participant's mode.
Shifts(ch) == ch.letter = "k" \/ (ch.letter = "f" /\ ~ch.sign)
Misleads(m) ==
    \E i, j \in DOMAIN m.changes :
        i < j /\ Shifts(m.changes[i]) /\ m.changes[j].letter \in Modes

\* The modes of participants are those of members of the channel.
ServerMode(c, m) ==
    /\ Tell(c, <<[command |-> "MODE", channel |-> c,
                  changes |-> m.changes, params |-> m.params]>>)
    /\ \A i \in DOMAIN m.changes :
          m.changes[i].letter \in Modes => m.params[Place(m, i)] \in members[c]
    /\ ranks' = [ranks EXCEPT ![c] = Ranked(@, m)]
    /\ misled' = IF Me \in members[c] /\ Misleads(m)
                 THEN [misled EXCEPT ![c] =
                         @ \union {n \in Nicks : \E i \in DOMAIN m.params : m.params[i] = n}]
                 ELSE misled
    /\ UNCHANGED <<members, client, stale>>

-----------------------------------------------------------------------------
(* The client: procMessage *)

isMyPrefix(m) == m.nick = Me

\* emplace and insert leave alone what is there already.
MutJoin(m) ==
    /\ channels' = channels \union {m.channel}
    /\ UNCHANGED <<participants, modes, deaf>>
Join(m) ==
    /\ IF isMyPrefix(m)
       THEN channels' = channels \union {m.channel} /\ UNCHANGED participants
       ELSE /\ participants' = IF m.channel \in channels
                               THEN [participants EXCEPT ![m.channel] = @ \union {m.nick}]
                               ELSE participants
            /\ UNCHANGED channels
    /\ UNCHANGED <<modes, deaf>>

MutPart(m) ==
    /\ IF isMyPrefix(m)
       THEN /\ channels' = channels \ {m.channel}
            /\ UNCHANGED <<participants, modes>>
       ELSE /\ participants' = [participants EXCEPT ![m.channel] = @ \ {m.nick}]
            /\ modes' = [modes EXCEPT ![m.channel] = @ \ Of(m.nick)]
            /\ UNCHANGED channels
    /\ UNCHANGED deaf
MutPartOther(m) ==
    /\ participants' = [participants EXCEPT ![m.channel] = @ \ {m.nick}]
    /\ modes' = [modes EXCEPT ![m.channel] = @ \ Of(m.nick)]
    /\ UNCHANGED <<channels, deaf>>
Part(m) ==
    /\ IF isMyPrefix(m)
       THEN /\ channels' = channels \ {m.channel}
            /\ participants' = [participants EXCEPT ![m.channel] = {}]
            /\ modes' = [modes EXCEPT ![m.channel] = {}]
       ELSE /\ participants' = [participants EXCEPT ![m.channel] = @ \ {m.nick}]
            /\ modes' = [modes EXCEPT ![m.channel] = @ \ Of(m.nick)]
            /\ UNCHANGED channels
    /\ UNCHANGED deaf

\* The modes of one name of the list: what its prefix stands for.
parseParticipant(m, n) == {x \in m.modes : x[1] = n}

\* insert does nothing for one who is there.  An odd name ends the loop with the
\* exception of bitset::set; those before it have been inserted.
NamReply(m) ==
    LET known == m.channel \in channels
    IN  /\ \E new \in SUBSET (m.nicks \ participants[m.channel]) :
              /\ ~m.odd => new = m.nicks \ participants[m.channel]
              /\ IF known
                 THEN /\ participants' = [participants EXCEPT ![m.channel] = @ \union new]
                      /\ modes' = [modes EXCEPT ![m.channel] =
                                     @ \union UNION {parseParticipant(m, n) : n \in new}]
                 ELSE UNCHANGED <<participants, modes>>
        /\ deaf' = (known /\ m.odd)
        /\ UNCHANGED channels

\* nextParam is called for the modes of participants, and for unknown letters of
\* a group that has parameters, with either sign.
MutTakes(ch) == ch.letter \in Modes
Takes(ch) == ch.letter \in Modes \union {"f"}

\* The loop over the letters of a MODE, one letter a step.
Reads(m) == m.command = "MODE" /\ m.channel \in channels /\ letter <= Len(m.changes)
Fails(m) == Reads(m) /\ Takes(m.changes[letter]) /\ taken = Len(m.params)

\* A participant's mode, set or reset if the parameter is a participant.
Given(m) ==
    LET ch == m.changes[letter]
        x == <<m.params[taken + 1], ch.letter>>
    IN  IF ch.letter \notin Modes \/ x[1] \notin participants[m.channel]
        THEN modes
        ELSE [modes EXCEPT ![m.channel] = IF ch.sign THEN @ \union {x} ELSE @ \ {x}]

ModeLetter ==
    LET m == Head(toClient)
    IN  /\ toClient # <<>> /\ ~deaf
        /\ Reads(m) /\ ~Fails(m)
        /\ modes' = Given(m)
        /\ taken' = IF Takes(m.changes[letter]) THEN taken + 1 ELSE taken
        /\ letter' = letter + 1
        /\ UNCHANGED <<server, toClient, channels, participants, deaf, ghosts>>

\* The rest of a message.  params_.at throws when there are no more parameters;
\* what the letters before have changed stays so.
Mode(m) ==
    /\ Reads(m) => Fails(m)
    /\ deaf' = Fails(m)
    /\ UNCHANGED <<channels, participants, modes>>

Handle(m) ==
    \/ m.command = "JOIN" /\ Join(m)
    \/ m.command = "PART" /\ Part(m)
    \/ m.command = "353" /\ NamReply(m)
    \/ m.command = "MODE" /\ Mode(m)
    \/ m.command \in {"KICK", "NICK"} /\ UNCHANGED <<channels, participants, modes, deaf>>

procMessage ==
    /\ toClient # <<>> /\ ~deaf
    /\ Handle(Head(toClient))
    /\ toClient' = Tail(toClient)
    /\ letter' = 1 /\ taken' = 0
    /\ UNCHANGED <<server, ghosts>>

-----------------------------------------------------------------------------
\* The server sends nothing more to a client that does not read.
Next ==
    \/ procMessage
    \/ ModeLetter
    \/ /\ ~deaf
       /\ \E c \in Channels :
            \/ \E n \in Nicks :
                 \/ ServerJoin(c, n)
                 \/ ServerPart(c, n)
                 \/ ServerRemoves(c, n)
                 \/ \E new \in Others : ServerNick(c, n, new)
            \/ \E space, odd \in BOOLEAN : ServerJoinMe(c, space, odd)
            \/ \E m \in ModeMessages : ServerMode(c, m)
    \/ deaf /\ UNCHANGED vars

Spec == Init /\ [][Next]_vars

-----------------------------------------------------------------------------
(* Properties *)

\* The client has processed everything.
UpToDate == toClient = <<>> /\ ~deaf

\* The channels the client believes to be in are those it is in, unless it has
\* been kicked and has not left since.
ChannelsKnown ==
    UpToDate => \A c \in Channels : c \in channels <=> Me \in members[c] \/ stale[c] = Nicks

\* Of those who have not quit, been kicked or changed their nickname, or have
\* left since, the client knows who is in a channel and who is not.
ParticipantsKnown ==
    UpToDate => \A c \in channels : \A n \in Nicks \ stale[c] :
        n \in participants[c] <=> n \in members[c]

\* Nobody has a mode in the client's eyes that is not the server's, except those
\* named in a MODE the client has read with the parameters shifted, however many
\* letters the others had.  (The converse is not so: names carry only the highest
\* mode.)
ModesSound ==
    UpToDate => \A c \in channels : \A n \in Nicks \ (stale[c] \union misled[c]) :
        modes[c] \intersect Of(n) \subseteq ranks[c]
=============================================================================
