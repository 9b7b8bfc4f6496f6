-------------------------- MODULE IrcChannelProofs --------------------------
(***************************************************************************)
(* The client knows the channels it is in and who is there, and gives      *)
(* nobody a mode he has not, for every set of nicknames and channels.      *)
(*                                                                         *)
(* The properties speak of a client that has processed everything.  The    *)
(* invariant says what the messages on their way will tell it: each of     *)
(* them is about what has just become true at the server (Mail), and a     *)
(* mode the client holds wrongly is taken away by the next one (Sound).    *)
(* The lemmas on letters say whose mode a letter of a MODE message is      *)
(* taken for, by counting the parameters taken before it.                  *)
(***************************************************************************)
EXTENDS IrcChannel, FiniteSetTheorems, TLAPS

Types ==
    /\ members \in [Channels -> SUBSET Nicks]
    /\ stale \in [Channels -> SUBSET Nicks]
    /\ channels \subseteq Channels
    /\ participants \in [Channels -> SUBSET (Nicks \union {NoNick})]

\* The first of the messages t is this one.
Comes(t, command, c, n) ==
    /\ t # <<>>
    /\ Head(t).command = command /\ Head(t).channel = c /\ Head(t).nick = n

\* The names of c are the last of t.
Naming(t, c) ==
    /\ t # <<>>
    /\ t[Len(t)].command = "353" /\ t[Len(t)].channel = c

NamesOf(c, m) ==
    /\ m.command = "353" /\ m.channel = c
    /\ m.nicks \ {NoNick} = members[c] /\ Me \in members[c]

\* What is on its way has just become true.
Mail ==
    \/ toClient = <<>>
    \/ \E c \in Channels :
         \/ \E n \in members[c] \ {Me} : toClient = <<Message("JOIN", c, n)>>
         \/ \E n \in Nicks \ members[c] : toClient = <<Message("PART", c, n)>>
         \/ \E command \in {"KICK", "NICK"}, n \in Nicks :
              toClient = <<Message(command, c, n)>>
         \/ \E m : m.command = "MODE" /\ toClient = <<m>>
         \/ \E m : NamesOf(c, m) /\ (toClient = <<m>>
                                      \/ toClient = <<Message("JOIN", c, Me), m>>)

\* Whether the client knows c, once it has processed t.
Known(t, c) ==
    Comes(t, "JOIN", c, Me) \/ (~Comes(t, "PART", c, Me) /\ c \in channels)

Empty == \A c \in Channels \ channels : participants[c] = {}

Belongs ==
    ~deaf => \A c \in Channels : Known(toClient, c) <=> Me \in members[c] \/ stale[c] = Nicks

\* What the client knows of n, unless a message about n is next.
Told(t, c, n) ==
    \/ Comes(t, "JOIN", c, n) \/ Comes(t, "PART", c, n)
    \/ IF Naming(t, c) THEN n \in participants[c] => n \in members[c]
                       ELSE n \in participants[c] <=> n \in members[c]

Who ==
    ~deaf => \A c \in Channels : \A n \in Nicks \ stale[c] :
        Known(toClient, c) => Told(toClient, c, n)

IInv == Types /\ Mail /\ Empty /\ Belongs /\ Who

-----------------------------------------------------------------------------
(* Messages *)

LEMMA NoMessage ==
    /\ \A command, c, n : ~Comes(<<>>, command, c, n)
    /\ \A c : ~Naming(<<>>, c)
  BY DEF Comes, Naming

LEMMA OneMessage ==
    ASSUME NEW m
    PROVE  /\ <<m>> # <<>> /\ Head(<<m>>) = m /\ Tail(<<m>>) = <<>>
           /\ \A command, c, n : Comes(<<m>>, command, c, n)
                <=> m.command = command /\ m.channel = c /\ m.nick = n
           /\ \A c : Naming(<<m>>, c) <=> m.command = "353" /\ m.channel = c
<1> DEFINE t == <<m>>
<1>1. t # <<>> /\ Head(t) = m /\ Tail(t) = <<>> /\ Len(t) = 1 /\ t[1] = m
  OBVIOUS
<1> HIDE DEF t
<1>2. /\ \A command, c, n : Comes(t, command, c, n)
           <=> m.command = command /\ m.channel = c /\ m.nick = n
      /\ \A c : Naming(t, c) <=> m.command = "353" /\ m.channel = c
  BY <1>1 DEF Comes, Naming
<1> QED
  BY <1>1, <1>2 DEF t

\* The fields of a message.
LEMMA MessageFields ==
    \A command, c, n : /\ Message(command, c, n).command = command
                       /\ Message(command, c, n).channel = c
                       /\ Message(command, c, n).nick = n
  BY DEF Message

-----------------------------------------------------------------------------
(* The steps of the server *)

\* The client has processed everything: it knows the channels and who is there.
LEMMA NothingOnItsWay ==
    ASSUME IInv, toClient = <<>>, ~deaf
    PROVE  \A c \in Channels :
             /\ c \in channels <=> Me \in members[c] \/ stale[c] = Nicks
             /\ c \in channels => \A n \in Nicks \ stale[c] :
                  n \in participants[c] <=> n \in members[c]
<1>1. \A c : Known(toClient, c) <=> c \in channels
  BY NoMessage DEF Known
<1>2. \A c, n : Told(toClient, c, n) => (n \in participants[c] <=> n \in members[c])
  BY NoMessage DEF Told
<1> QED
  BY <1>1, <1>2 DEF IInv, Belongs, Who

\* What happens in a channel the client is not in.
LEMMA UnseenStep ==
    ASSUME IInv, ~deaf, toClient = <<>>, toClient' = <<>>, UNCHANGED <<client, stale>>,
           NEW c \in Channels, Me \notin members[c],
           NEW m \in SUBSET Nicks, Me \notin m, members' = [members EXCEPT ![c] = m]
    PROVE  IInv'
<1>0. UNCHANGED <<channels, participants, deaf>>
  BY DEF client
<1>1. Types'
  BY <1>0 DEF IInv, Types
<1>2. Mail' /\ Empty'
  BY <1>0 DEF IInv, Mail, Empty
<1>3. members'[c] = m /\ \A d \in Channels \ {c} : members'[d] = members[d]
  BY DEF IInv, Types
<1>4. \A d : Known(toClient, d)' <=> d \in channels
  BY <1>0, NoMessage DEF Known
<1>5. Belongs'
  BY <1>0, <1>3, <1>4, NothingOnItsWay DEF Belongs
<1>6. Who'
  BY <1>0, <1>3, <1>4, NothingOnItsWay, NoMessage DEF Who, Told
<1> QED
  BY <1>1, <1>2, <1>5, <1>6 DEF IInv

\* Something happens in c, and the client is told of it by t; m are its members
\* and s what is not known of it after that.
Sees(c, m, s, t) ==
    /\ ~deaf /\ toClient = <<>> /\ UNCHANGED client
    /\ members' = [members EXCEPT ![c] = m] /\ m \in SUBSET Nicks
    /\ stale' = [stale EXCEPT ![c] = s] /\ s \in SUBSET Nicks
    /\ toClient' = t /\ Mail'
    /\ \A d \in Channels \ {c} :
          ~Naming(t, d) /\ \A command \in {"JOIN", "PART"} : \A n : ~Comes(t, command, d, n)
    /\ Known(t, c)' <=> Me \in m \/ s = Nicks
    /\ Known(t, c)' => \A n \in Nicks \ s : Told(t, c, n)'

LEMMA SeenStep ==
    ASSUME IInv, NEW c \in Channels, NEW m, NEW s, NEW t, Sees(c, m, s, t)
    PROVE  IInv'
<1> USE DEF Sees
<1>0. UNCHANGED <<channels, participants, deaf>>
  BY DEF client
<1>1. Types'
  BY <1>0 DEF IInv, Types
<1>2. Empty'
  BY <1>0 DEF IInv, Empty
<1>3. /\ members'[c] = m /\ \A d \in Channels \ {c} : members'[d] = members[d]
      /\ stale'[c] = s /\ \A d \in Channels \ {c} : stale'[d] = stale[d]
  BY DEF IInv, Types
<1>4. \A d \in Channels \ {c} : Known(t, d)' <=> d \in channels
  BY <1>0 DEF Known
<1>5. Belongs'
  BY <1>0, <1>3, <1>4, NothingOnItsWay DEF Belongs
<1>6. Who'
  BY <1>0, <1>3, <1>4, NothingOnItsWay DEF Who, Told
<1> QED
  BY <1>1, <1>2, <1>5, <1>6 DEF IInv

LEMMA MessageComes ==
    ASSUME NEW command \in {"JOIN", "PART", "KICK", "NICK"}, NEW c, NEW n
    PROVE  /\ \A co, d, k : Comes(<<Message(command, c, n)>>, co, d, k)
                <=> co = command /\ d = c /\ k = n
           /\ \A d : ~Naming(<<Message(command, c, n)>>, d)
<1> DEFINE m == Message(command, c, n)
<1>1. m.command = command /\ m.channel = c /\ m.nick = n
  BY MessageFields
<1> HIDE DEF m
<1>2. /\ \A co, d, k : Comes(<<m>>, co, d, k) <=> co = command /\ d = c /\ k = n
      /\ \A d : ~Naming(<<m>>, d)
  BY <1>1, OneMessage
<1> QED
  BY <1>2 DEF m

\* A message about n goes to the client, which knows c; m are its members and
\* s what is not known of it after that.
Tells(c, m, s, command, n) ==
    /\ ~deaf /\ toClient = <<>> /\ UNCHANGED client /\ Me \in members[c]
    /\ members' = [members EXCEPT ![c] = m] /\ m \in SUBSET Nicks
    /\ stale' = [stale EXCEPT ![c] = s] /\ s \in SUBSET Nicks
    /\ toClient' = <<Message(command, c, n)>>
    /\ command = "JOIN" => n # Me /\ n \in m
    /\ command = "PART" => n \notin m
    /\ command \in {"KICK", "NICK"} => n \in s
    /\ \A k \in (Nicks \ s) \ {n} : k \in m <=> k \in members[c]
    /\ IF n = Me /\ command = "PART"
       THEN Me \notin m /\ s # Nicks
       ELSE (Me \in m \/ s = Nicks) /\ stale[c] \subseteq s \union {n}

LEMMA TellStep ==
    ASSUME IInv, NEW c \in Channels, NEW m, NEW s, NEW n \in Nicks,
           NEW command \in {"JOIN", "PART", "KICK", "NICK"},
           Tells(c, m, s, command, n)
    PROVE  IInv'
<1> USE DEF Tells
<1> DEFINE t == <<Message(command, c, n)>>
<1>1. /\ \A co, d, k : Comes(t, co, d, k) <=> co = command /\ d = c /\ k = n
      /\ \A d : ~Naming(t, d)
  BY MessageComes
<1>2. toClient' = t
  OBVIOUS
<1>3. members'[c] = m /\ UNCHANGED <<channels, participants>>
  BY DEF IInv, Types, client
<1>4. Mail'
  BY <1>3 DEF Mail
<1> HIDE DEF t
<1>5. c \in channels
  BY NothingOnItsWay
<1>6. Known(t, c)' <=> ~(n = Me /\ command = "PART")
  BY <1>1, <1>3, <1>5 DEF Known
<1>7. Known(t, c)' <=> Me \in m \/ s = Nicks
  BY <1>6
<1>8. ASSUME Known(t, c)', NEW k \in Nicks \ s PROVE Told(t, c, k)'
  <2>1. CASE k = n
    BY <1>1, <2>1 DEF Told
  <2>2. CASE k # n
    <3>1. k \in Nicks \ stale[c]
      BY <1>6, <1>8, <2>2
    <3>2. k \in participants[c] <=> k \in members[c]
      BY <1>5, <3>1, NothingOnItsWay
    <3> QED
      BY <1>1, <1>3, <2>2, <3>2 DEF Told
  <2> QED
    BY <2>1, <2>2
<1>9. Sees(c, m, s, t)
  BY <1>1, <1>2, <1>4, <1>7, <1>8 DEF Sees
<1> QED
  BY <1>9, SeenStep

LEMMA ServerStep ==
    ASSUME IInv, ~deaf, NEW c \in Channels,
           \/ \E n \in Nicks : \/ ServerJoin(c, n) \/ ServerPart(c, n)
                               \/ ServerRemoves(c, n)
                               \/ \E new \in Others : ServerNick(c, n, new)
           \/ \E space, odd \in BOOLEAN : ServerJoinMe(c, space, odd)
           \/ \E m \in ModeMessages : ServerMode(c, m)
    PROVE  IInv'
<1>0. /\ members \in [Channels -> SUBSET Nicks] /\ stale \in [Channels -> SUBSET Nicks]
      /\ members[c] \in SUBSET Nicks /\ stale[c] \in SUBSET Nicks
      /\ stale = [stale EXCEPT ![c] = stale[c]]
      /\ members = [members EXCEPT ![c] = members[c]]
      /\ Me \in Nicks
  BY NickAssumption DEF IInv, Types
<1>1. ASSUME NEW n \in Nicks, ServerJoin(c, n) PROVE IInv'
  <2> DEFINE m == members[c] \union {n}
  <2>1. /\ n # Me /\ m \in SUBSET Nicks /\ members' = [members EXCEPT ![c] = m]
        /\ toClient = <<>> /\ UNCHANGED <<client, stale>>
        /\ toClient' = IF Me \in members[c] THEN <<Message("JOIN", c, n)>> ELSE <<>>
    BY <1>0, <1>1 DEF ServerJoin, Tell, Others, ghosts
  <2>2. CASE Me \in members[c]
    <3>1. Tells(c, m, stale[c], "JOIN", n)
      BY <1>0, <2>1, <2>2 DEF Tells
    <3> QED
      BY <3>1, TellStep
  <2>3. CASE Me \notin members[c]
    BY <2>1, <2>3, UnseenStep
  <2> QED
    BY <2>2, <2>3
<1>2. ASSUME NEW n \in Nicks, ServerPart(c, n) PROVE IInv'
  <2> DEFINE m == members[c] \ {n}
             s == IF n = Me THEN {} ELSE stale[c] \ {n}
  <2>1. /\ m \in SUBSET Nicks /\ members' = [members EXCEPT ![c] = m]
        /\ toClient = <<>> /\ UNCHANGED client
        /\ toClient' = IF Me \in members[c] THEN <<Message("PART", c, n)>> ELSE <<>>
        /\ n \in members[c]
    BY <1>0, <1>2 DEF ServerPart, Tell, Gone
  <2>2. CASE Me \in members[c]
    <3>1. stale' = [stale EXCEPT ![c] = s] /\ s \in SUBSET Nicks
      BY <1>0, <1>2, <2>2 DEF ServerPart, Forgets
    <3>2. Tells(c, m, s, "PART", n)
      BY <1>0, <2>1, <2>2, <3>1 DEF Tells
    <3> HIDE DEF m, s
    <3> QED
      BY <3>2, TellStep
  <2>3. CASE Me \notin members[c]
    <3>1. stale' = stale
      BY <1>0, <1>2, <2>1, <2>3 DEF ServerPart, Forgets
    <3> QED
      BY <2>1, <2>3, <3>1, UnseenStep
  <2> QED
    BY <2>2, <2>3
<1>3. ASSUME NEW n \in Nicks, ServerRemoves(c, n) PROVE IInv'
  <2> DEFINE m == members[c] \ {n}
             s == IF n = Me THEN Nicks ELSE stale[c] \union {n}
  <2>1. /\ m \in SUBSET Nicks /\ members' = [members EXCEPT ![c] = m]
        /\ toClient = <<>> /\ UNCHANGED client
        /\ toClient' = IF Me \in members[c] THEN <<Message("KICK", c, n)>> ELSE <<>>
        /\ n \in members[c]
    BY <1>0, <1>3 DEF ServerRemoves, Tell, Gone
  <2>2. CASE Me \in members[c]
    <3>1. stale' = [stale EXCEPT ![c] = s] /\ s \in SUBSET Nicks
      BY <1>0, <1>3, <2>2 DEF ServerRemoves
    <3>2. Tells(c, m, s, "KICK", n)
      BY <1>0, <2>1, <2>2, <3>1 DEF Tells
    <3> HIDE DEF m, s
    <3> QED
      BY <3>2, TellStep
  <2>3. CASE Me \notin members[c]
    <3>1. stale' = stale
      BY <1>0, <1>3, <2>1, <2>3 DEF ServerRemoves
    <3> QED
      BY <2>1, <2>3, <3>1, UnseenStep
  <2> QED
    BY <2>2, <2>3
<1>4. ASSUME NEW n \in Nicks, NEW new \in Others, ServerNick(c, n, new) PROVE IInv'
  <2> DEFINE m == (members[c] \ {n}) \union {new}
             s == stale[c] \union {n, new}
  <2>1. /\ m \in SUBSET Nicks /\ members' = [members EXCEPT ![c] = m]
        /\ toClient = <<>> /\ UNCHANGED client
        /\ toClient' = IF Me \in members[c] THEN <<Message("NICK", c, n)>> ELSE <<>>
        /\ n # Me /\ new # Me /\ new \in Nicks
    BY <1>0, <1>4 DEF ServerNick, Tell, Others
  <2>2. CASE Me \in members[c]
    <3>1. stale' = [stale EXCEPT ![c] = s] /\ s \in SUBSET Nicks
      BY <1>0, <1>4, <2>1, <2>2 DEF ServerNick
    <3>2. Tells(c, m, s, "NICK", n)
      BY <1>0, <2>1, <2>2, <3>1 DEF Tells
    <3> HIDE DEF m, s
    <3> QED
      BY <3>2, TellStep
  <2>3. CASE Me \notin members[c]
    <3>1. stale' = stale
      BY <1>4, <2>3 DEF ServerNick
    <3> QED
      BY <2>1, <2>3, <3>1, UnseenStep
  <2> QED
    BY <2>2, <2>3
<1>5. ASSUME NEW space \in BOOLEAN, NEW odd \in BOOLEAN, ServerJoinMe(c, space, odd)
      PROVE  IInv'
  <2> DEFINE m == members[c] \union {Me}
             r == IF members[c] = {} THEN {<<Me, "o">>} ELSE ranks[c]
             join == Message("JOIN", c, Me)
  <2> PICK names : names = Names(c, m, r, space, odd)
    OBVIOUS
  <2> DEFINE t == <<join, names>>
  <2>1. /\ m \in SUBSET Nicks /\ members' = [members EXCEPT ![c] = m]
        /\ toClient = <<>> /\ UNCHANGED <<client, stale>> /\ toClient' = t
        /\ Me \notin members[c]
    BY <1>0, <1>5 DEF ServerJoinMe, ghosts
  <2>2. members'[c] = m /\ UNCHANGED <<channels, participants>>
    BY <2>1, <1>0 DEF client
  <2>3. /\ names.command = "353" /\ names.channel = c
        /\ names.nicks \ {NoNick} = m
    BY <2>1, NickAssumption DEF Names
  <2>4. NamesOf(c, names)'
    BY <2>2, <2>3 DEF NamesOf
  <2>5. Mail'
    BY <2>1, <2>4 DEF Mail
  <2>6. join.command = "JOIN" /\ join.channel = c /\ join.nick = Me
    BY MessageFields
  <2> HIDE DEF join
  <2>7. /\ \A co, d, k : Comes(t, co, d, k) <=> co = "JOIN" /\ d = c /\ k = Me
        /\ \A d : Naming(t, d) <=> d = c
    <3>1. t # <<>> /\ Head(t) = join /\ Len(t) = 2 /\ t[2] = names
      OBVIOUS
    <3> HIDE DEF t
    <3> QED
      BY <2>3, <2>6, <3>1 DEF Comes, Naming
  <2> HIDE DEF t
  <2>8. Known(t, c)' /\ Me \in m
    BY <2>7 DEF Known
  <2>9. ASSUME NEW k \in Nicks \ stale[c] PROVE Told(t, c, k)'
    <3>1. c \notin channels
      BY <1>0, <2>1, NothingOnItsWay
    <3>2. participants'[c] = {}
      BY <2>2, <3>1 DEF IInv, Empty
    <3> QED
      BY <2>7, <3>2 DEF Told
  <2>10. Sees(c, m, stale[c], t)
    BY <1>0, <2>1, <2>5, <2>7, <2>8, <2>9 DEF Sees
  <2> HIDE DEF m
  <2> QED
    BY <2>10, SeenStep
<1>6. ASSUME NEW m \in ModeMessages, ServerMode(c, m)
      PROVE  IInv'
  <2> DEFINE mode == [command |-> "MODE", channel |-> c,
                      changes |-> m.changes, params |-> m.params]
             t == <<mode>>
  <2>1. /\ toClient = <<>> /\ UNCHANGED <<client, members, stale>>
        /\ toClient' = IF Me \in members[c] THEN t ELSE <<>>
        /\ members' = [members EXCEPT ![c] = members[c]]
        /\ stale' = [stale EXCEPT ![c] = stale[c]]
    BY <1>0, <1>6 DEF ServerMode, Tell
  <2>2. CASE Me \in members[c]
    <3>1. mode.command = "MODE"
      OBVIOUS
    <3>2. Mail'
      BY <2>1, <2>2, <3>1 DEF Mail
    <3>3. UNCHANGED <<channels, participants>> /\ toClient' = t
      BY <2>1, <2>2 DEF client
    <3> HIDE DEF mode
    <3>4. /\ \A co \in {"JOIN", "PART"} : \A d, k : ~Comes(t, co, d, k)
          /\ \A d : ~Naming(t, d)
      BY <3>1, OneMessage
    <3> HIDE DEF t
    <3>5. c \in channels
      BY <2>1, <2>2, NothingOnItsWay
    <3>6. Known(t, c)' /\ Me \in members[c]
      BY <2>2, <3>3, <3>4, <3>5 DEF Known
    <3>7. ASSUME NEW k \in Nicks \ stale[c] PROVE Told(t, c, k)'
      <4>1. k \in participants[c] <=> k \in members[c]
        BY <2>1, <3>5, NothingOnItsWay
      <4> QED
        BY <2>1, <3>3, <3>4, <4>1 DEF Told
    <3>8. Sees(c, members[c], stale[c], t)
      BY <1>0, <2>1, <3>2, <3>3, <3>4, <3>6, <3>7 DEF Sees
    <3> QED
      BY <3>8, SeenStep
  <2>3. CASE Me \notin members[c]
    BY <1>0, <2>1, <2>3, UnseenStep
  <2> QED
    BY <2>2, <2>3
<1> QED
  BY <1>1, <1>2, <1>3, <1>4, <1>5, <1>6

-----------------------------------------------------------------------------
(* The steps of the client *)

\* The last message is processed.
Done ==
    /\ toClient' = <<>> /\ UNCHANGED <<members, stale>> /\ Types' /\ Empty'
    /\ ~deaf' => \A d \in Channels : d \in channels' <=> Known(toClient, d)
    /\ ~deaf' => \A d \in channels' : \A k \in Nicks \ stale[d] :
                   k \in participants'[d] <=> k \in members[d]

LEMMA DoneStep ==
    ASSUME IInv, ~deaf, Done
    PROVE  IInv'
<1>1. \A d : Known(toClient, d)' <=> d \in channels'
  BY NoMessage DEF Done, Known
<1>2. Belongs'
  BY <1>1 DEF Done, IInv, Belongs
<1>3. Mail'
  BY DEF Done, Mail
<1>4. Who'
  BY <1>1 DEF Done, Who, Told
<1> QED
  BY <1>2, <1>3, <1>4 DEF Done, IInv

\* A message of command about n in c is the last.
LEMMA AboutStep ==
    ASSUME IInv, NEW c \in Channels, NEW n \in Nicks,
           NEW command \in {"JOIN", "PART", "KICK", "NICK"},
           toClient = <<Message(command, c, n)>>, procMessage,
           command = "JOIN" => n \in members[c] \ {Me},
           command = "PART" => n \notin members[c]
    PROVE  IInv'
<1> DEFINE m == Message(command, c, n)
<1>1. m.command = command /\ m.channel = c /\ m.nick = n
  BY MessageFields
<1>2. /\ \A co, d, k : Comes(toClient, co, d, k) <=> co = command /\ d = c /\ k = n
      /\ \A d : ~Naming(toClient, d)
  BY MessageComes
<1>3. Handle(m) /\ toClient' = <<>> /\ UNCHANGED <<members, stale>> /\ ~deaf
  BY DEF procMessage, server, ghosts
<1> HIDE DEF m
<1>4. Types /\ Empty /\ participants[c] \in SUBSET (Nicks \union {NoNick})
  BY DEF IInv, Types
<1>5. \A d \in Channels : Known(toClient, d)
        <=> d \in channels /\ ~(command = "PART" /\ n = Me /\ d = c)
  BY <1>2 DEF Known
<1>6. \A d \in Channels : \A k \in Nicks \ stale[d] :
        d \in channels /\ ~(command \in {"JOIN", "PART"} /\ k = n /\ d = c)
          /\ ~(command = "PART" /\ n = Me /\ d = c)
        => (k \in participants[d] <=> k \in members[d])
  BY <1>2, <1>3, <1>5 DEF IInv, Who, Told
<1>7. CASE command = "JOIN"
  <2>1. Join(m) /\ n # Me
    BY <1>1, <1>3, <1>7 DEF Handle
  <2>2. /\ channels' = channels
        /\ participants' = IF c \in channels
                           THEN [participants EXCEPT ![c] = @ \union {n}]
                           ELSE participants
    BY <1>1, <2>1 DEF Join, isMyPrefix
  <2>3. Types' /\ Empty'
    BY <1>3, <1>4, <2>2 DEF Types, Empty
  <2>4. \A d \in Channels : d \in channels' <=> Known(toClient, d)
    BY <1>5, <1>7, <2>2
  <2>5. \A d \in channels' : \A k \in Nicks \ stale[d] :
          k \in participants'[d] <=> k \in members[d]
    BY <1>4, <1>6, <1>7, <2>2 DEF Types
  <2> QED
    BY <1>3, <2>3, <2>4, <2>5, DoneStep DEF Done
<1>8. CASE command = "PART" /\ n = Me
  <2>1. Part(m)
    BY <1>1, <1>3, <1>8 DEF Handle
  <2>2. /\ channels' = channels \ {c}
        /\ participants' = [participants EXCEPT ![c] = {}]
    BY <1>1, <1>8, <2>1 DEF Part, isMyPrefix
  <2>3. Types' /\ Empty'
    BY <1>3, <1>4, <2>2 DEF Types, Empty
  <2>4. \A d \in Channels : d \in channels' <=> Known(toClient, d)
    BY <1>4, <1>5, <1>8, <2>2 DEF Types
  <2>5. \A d \in channels' : \A k \in Nicks \ stale[d] :
          k \in participants'[d] <=> k \in members[d]
    BY <1>4, <1>6, <1>8, <2>2 DEF Types
  <2> QED
    BY <1>3, <2>3, <2>4, <2>5, DoneStep DEF Done
<1>9. CASE command = "PART" /\ n # Me
  <2>1. Part(m)
    BY <1>1, <1>3, <1>9 DEF Handle
  <2>2. /\ channels' = channels
        /\ participants' = [participants EXCEPT ![c] = @ \ {n}]
    BY <1>1, <1>9, <2>1 DEF Part, isMyPrefix
  <2>3. Types' /\ Empty'
    BY <1>3, <1>4, <2>2 DEF Types, Empty
  <2>4. \A d \in Channels : d \in channels' <=> Known(toClient, d)
    BY <1>5, <1>9, <2>2
  <2>5. \A d \in channels' : \A k \in Nicks \ stale[d] :
          k \in participants'[d] <=> k \in members[d]
    BY <1>4, <1>6, <1>9, <2>2 DEF Types
  <2> QED
    BY <1>3, <2>3, <2>4, <2>5, DoneStep DEF Done
<1>10. CASE command \in {"KICK", "NICK"}
  <2>1. UNCHANGED <<channels, participants>>
    BY <1>1, <1>3, <1>10 DEF Handle
  <2>2. Types' /\ Empty'
    BY <1>3, <1>4, <2>1 DEF Types, Empty
  <2>3. \A d \in Channels : d \in channels' <=> Known(toClient, d)
    BY <1>5, <1>10, <2>1
  <2>4. \A d \in channels' : \A k \in Nicks \ stale[d] :
          k \in participants'[d] <=> k \in members[d]
    BY <1>4, <1>6, <1>10, <2>1 DEF Types
  <2> QED
    BY <1>3, <2>2, <2>3, <2>4, DoneStep DEF Done
<1> QED
  BY <1>7, <1>8, <1>9, <1>10

\* A MODE message is the last.
LEMMA ModeStep ==
    ASSUME IInv, NEW m, m.command = "MODE", toClient = <<m>>, procMessage
    PROVE  IInv'
<1>1. Mode(m) /\ toClient' = <<>> /\ UNCHANGED <<members, stale>> /\ ~deaf
  BY OneMessage DEF procMessage, server, ghosts, Handle
<1>2. UNCHANGED <<channels, participants>>
  BY <1>1 DEF Mode
<1>3. Types' /\ Empty'
  BY <1>1, <1>2 DEF IInv, Types, Empty
<1>4. /\ \A co \in {"JOIN", "PART"} : \A d, k : ~Comes(toClient, co, d, k)
      /\ \A d : ~Naming(toClient, d)
  BY OneMessage
<1>5. \A d \in Channels : d \in channels <=> Known(toClient, d)
  BY <1>4 DEF Known
<1>6. \A d \in channels : \A k \in Nicks \ stale[d] :
        k \in participants[d] <=> k \in members[d]
  BY <1>1, <1>4, <1>5 DEF IInv, Types, Who, Told
<1> QED
  BY <1>1, <1>2, <1>3, <1>5, <1>6, DoneStep DEF Done

\* The names of a channel are the last.
LEMMA NamesStep ==
    ASSUME IInv, NEW c \in Channels, NEW m, NamesOf(c, m), toClient = <<m>>,
           procMessage
    PROVE  IInv'
<1>0. /\ m.command = "353" /\ m.channel = c
      /\ m.nicks \ {NoNick} = members[c] /\ Me \in members[c]
  BY DEF NamesOf
<1>1. NamReply(m) /\ toClient' = <<>> /\ UNCHANGED <<members, stale>> /\ ~deaf
  BY <1>0, OneMessage DEF procMessage, server, ghosts, Handle
<1>2. /\ \A co \in {"JOIN", "PART"} : \A d, k : ~Comes(toClient, co, d, k)
      /\ \A d : Naming(toClient, d) <=> d = c
  BY <1>0, OneMessage
<1>3. \A d \in Channels : d \in channels <=> Known(toClient, d)
  BY <1>2 DEF Known
<1>4. c \in channels
  BY <1>0, <1>1, <1>3 DEF IInv, Belongs
<1>5. PICK new \in SUBSET (m.nicks \ participants[c]) :
         /\ channels' = channels
         /\ participants' = [participants EXCEPT ![c] = @ \union new]
         /\ ~deaf' => new = m.nicks \ participants[c]
  BY <1>0, <1>1, <1>4 DEF NamReply
<1>6. Types /\ Empty /\ m.nicks \subseteq Nicks \union {NoNick}
  BY <1>0 DEF IInv, Types
<1>7. Types' /\ Empty'
  BY <1>1, <1>4, <1>5, <1>6 DEF Types, Empty
<1>8. \A d \in channels : \A k \in Nicks \ stale[d] :
        IF d = c THEN k \in participants[d] => k \in members[d]
                 ELSE k \in participants[d] <=> k \in members[d]
  BY <1>1, <1>2, <1>3, <1>6 DEF IInv, Types, Who, Told
<1>9. ASSUME ~deaf'
      PROVE  \A d \in channels : \A k \in Nicks \ stale[d] :
               k \in participants'[d] <=> k \in members[d]
  BY <1>0, <1>5, <1>6, <1>8, <1>9, NickAssumption DEF Types
<1> QED
  BY <1>1, <1>3, <1>5, <1>7, <1>9, DoneStep DEF Done

\* The client's own JOIN comes, with the names after it.
LEMMA JoinedStep ==
    ASSUME IInv, NEW c \in Channels, NEW m, NamesOf(c, m),
           toClient = <<Message("JOIN", c, Me), m>>, procMessage
    PROVE  IInv'
<1>0. /\ m.command = "353" /\ m.channel = c /\ Me \in members[c]
  BY DEF NamesOf
<1> DEFINE join == Message("JOIN", c, Me)
<1>1. join.command = "JOIN" /\ join.channel = c /\ join.nick = Me
  BY MessageFields
<1>2. /\ toClient # <<>> /\ Head(toClient) = join /\ Tail(toClient) = <<m>>
      /\ Len(toClient) = 2 /\ toClient[2] = m
  OBVIOUS
<1> HIDE DEF join
<1>3. /\ \A co, d, k : Comes(toClient, co, d, k) <=> co = "JOIN" /\ d = c /\ k = Me
      /\ \A d : Naming(toClient, d) <=> d = c
  BY <1>0, <1>1, <1>2 DEF Comes, Naming
<1>4. Join(join) /\ toClient' = <<m>> /\ UNCHANGED <<members, stale>> /\ ~deaf
  BY <1>1, <1>2 DEF procMessage, server, ghosts, Handle
<1>5. channels' = channels \union {c} /\ UNCHANGED participants
  BY <1>1, <1>4 DEF Join, isMyPrefix
<1>6. Types' /\ Empty'
  BY <1>4, <1>5 DEF IInv, Types, Empty
<1>7. /\ \A co \in {"JOIN", "PART"} : \A d, k : ~Comes(<<m>>, co, d, k)
      /\ \A d : Naming(<<m>>, d) <=> d = c
  BY <1>0, OneMessage
<1>8. Mail'
  <2>1. NamesOf(c, m)'
    BY <1>4 DEF NamesOf
  <2> QED
    BY <1>4, <2>1 DEF Mail
<1> DEFINE t == <<m>>
<1>9. /\ toClient' = t
      /\ \A co \in {"JOIN", "PART"} : \A d, k : ~Comes(t, co, d, k)
      /\ \A d : Naming(t, d) <=> d = c
  BY <1>4, <1>7
<1> HIDE DEF t
<1>10. /\ \A d \in Channels : Known(toClient, d) <=> d = c \/ d \in channels
       /\ \A d \in Channels : Known(toClient, d)' <=> d = c \/ d \in channels
  BY <1>3, <1>5, <1>9 DEF Known
<1>11. Belongs'
  BY <1>4, <1>10 DEF IInv, Belongs
<1>12. Who'
  BY <1>0, <1>3, <1>4, <1>5, <1>9, <1>10 DEF IInv, Who, Told
<1> QED
  BY <1>6, <1>8, <1>11, <1>12 DEF IInv

LEMMA ProcessStep ==
    ASSUME IInv, procMessage
    PROVE  IInv'
<1>1. toClient # <<>> /\ Mail /\ members \in [Channels -> SUBSET Nicks] /\ Me \in Nicks
  BY NickAssumption DEF procMessage, IInv, Types
<1>2. PICK c \in Channels :
         \/ \E n \in members[c] \ {Me} : toClient = <<Message("JOIN", c, n)>>
         \/ \E n \in Nicks \ members[c] : toClient = <<Message("PART", c, n)>>
         \/ \E command \in {"KICK", "NICK"}, n \in Nicks :
              toClient = <<Message(command, c, n)>>
         \/ \E m : m.command = "MODE" /\ toClient = <<m>>
         \/ \E m : NamesOf(c, m) /\ (toClient = <<m>>
                                      \/ toClient = <<Message("JOIN", c, Me), m>>)
  BY <1>1 DEF Mail
<1>3. ASSUME NEW n \in members[c] \ {Me}, toClient = <<Message("JOIN", c, n)>>
      PROVE  IInv'
  BY <1>1, <1>3, AboutStep
<1>4. ASSUME NEW n \in Nicks \ members[c], toClient = <<Message("PART", c, n)>>
      PROVE  IInv'
  BY <1>4, AboutStep
<1>5. ASSUME NEW command \in {"KICK", "NICK"}, NEW n \in Nicks,
             toClient = <<Message(command, c, n)>>
      PROVE  IInv'
  BY <1>5, AboutStep
<1>6. ASSUME NEW m, m.command = "MODE", toClient = <<m>> PROVE IInv'
  BY <1>6, ModeStep
<1>7. ASSUME NEW m, NamesOf(c, m), toClient = <<m>> PROVE IInv'
  BY <1>7, NamesStep
<1>8. ASSUME NEW m, NamesOf(c, m), toClient = <<Message("JOIN", c, Me), m>> PROVE IInv'
  BY <1>8, JoinedStep
<1> QED
  BY <1>2, <1>3, <1>4, <1>5, <1>6, <1>7, <1>8

-----------------------------------------------------------------------------
(* The theorems *)

LEMMA InitInv == Init => IInv
<1> SUFFICES ASSUME Init PROVE IInv
  OBVIOUS
<1>1. Types /\ Mail /\ Empty
  BY DEF Init, Types, Mail, Empty, Others
<1>2. \A c \in Channels : Me \notin members[c] /\ stale[c] = {} /\ c \notin channels
  BY DEF Init, Others
<1>3. \A c : Known(toClient, c) <=> c \in channels
  BY NoMessage DEF Init, Known
<1>4. Belongs /\ Who
  BY <1>2, <1>3, NickAssumption DEF Belongs, Who
<1> QED
  BY <1>1, <1>4 DEF IInv

LEMMA NextStep ==
    ASSUME IInv, [Next]_vars
    PROVE  IInv'
<1>1. CASE procMessage
  BY <1>1, ProcessStep
<1>2. ASSUME ~deaf, NEW c \in Channels,
             \/ \E n \in Nicks : \/ ServerJoin(c, n) \/ ServerPart(c, n)
                                 \/ ServerRemoves(c, n)
                                 \/ \E new \in Others : ServerNick(c, n, new)
             \/ \E space, odd \in BOOLEAN : ServerJoinMe(c, space, odd)
             \/ \E m \in ModeMessages : ServerMode(c, m)
      PROVE  IInv'
  BY <1>2, ServerStep
<1>3. CASE ModeLetter \/ UNCHANGED vars
  <2>1. UNCHANGED <<members, toClient, channels, participants, stale, deaf>>
    BY <1>3 DEF vars, server, client, ghosts, ModeLetter
  <2> QED
    BY <2>1 DEF IInv, Types, Mail, Empty, Belongs, Who, NamesOf, Known, Told
<1> QED
  BY <1>1, <1>2, <1>3 DEF Next

LEMMA Invariance == Spec => []IInv
<1>1. IInv /\ [Next]_vars => IInv'
  BY NextStep
<1> QED
  BY InitInv, <1>1, PTL DEF Spec

\* When an IrcClient has processed every message, the channels it holds are
\* those it is in, but for one it has been kicked from and not left since:
\* procMessage does not handle KICK.
THEOREM ChannelsCorrect == Spec => []ChannelsKnown
<1>1. IInv => ChannelsKnown
  BY NothingOnItsWay DEF ChannelsKnown, UpToDate
<1> QED
  BY Invariance, <1>1, PTL

\* When an IrcClient has processed every message, the participants of a channel
\* are the members it has at the server, but for those whose QUIT, KICK or NICK
\* procMessage did not handle.
THEOREM ParticipantsCorrect == Spec => []ParticipantsKnown
<1>1. IInv => ParticipantsKnown
  <2> SUFFICES ASSUME IInv, UpToDate
               PROVE  \A c \in channels : \A n \in Nicks \ stale[c] :
                        n \in participants[c] <=> n \in members[c]
    BY DEF ParticipantsKnown
  <2>1. channels \subseteq Channels /\ toClient = <<>> /\ ~deaf
    BY DEF IInv, Types, UpToDate
  <2> QED
    BY <2>1, NothingOnItsWay
<1> QED
  BY Invariance, <1>1, PTL

-----------------------------------------------------------------------------
(* The letters of a MODE message *)

Proper(m) ==
    /\ m.changes \in Seq(Letters) /\ m.params \in Seq(Nicks \union {Key})
    /\ Len(m.params) = Place(m, Len(m.changes))

\* Each letter that has a parameter has the next one.
LEMMA PlaceIs ==
    ASSUME NEW m, m.changes \in Seq(Letters)
    PROVE  /\ Place(m, 0) = 0
           /\ \A i \in 0..Len(m.changes) : Place(m, i) \in Nat
           /\ \A i \in 1..Len(m.changes) :
                Place(m, i) = Place(m, i - 1) + IF HasParam(m.changes[i]) THEN 1 ELSE 0
<1> DEFINE With(i) == {j \in 1..i : HasParam(m.changes[j])}
<1>1. Len(m.changes) \in Nat
  OBVIOUS
<1>2. \A i \in 0..Len(m.changes) : IsFiniteSet(With(i)) /\ Cardinality(With(i)) \in Nat
  <2> SUFFICES ASSUME NEW i \in 0..Len(m.changes)
               PROVE  IsFiniteSet(With(i)) /\ Cardinality(With(i)) \in Nat
    OBVIOUS
  <2>1. IsFiniteSet(1..i) /\ With(i) \subseteq 1..i
    BY <1>1, FS_Interval
  <2> QED
    BY <2>1, FS_Subset, FS_CardinalityType
<1>3. Place(m, 0) = 0
  <2>1. With(0) = {}
    OBVIOUS
  <2> QED
    BY <2>1, FS_EmptySet DEF Place
<1>4. ASSUME NEW i \in 1..Len(m.changes)
      PROVE  Place(m, i) = Place(m, i - 1) + IF HasParam(m.changes[i]) THEN 1 ELSE 0
  <2>1. i - 1 \in 0..Len(m.changes) /\ i \notin With(i - 1) /\ 1..i = (1..i - 1) \union {i}
    BY <1>1
  <2>2. With(i) = With(i - 1) \union (IF HasParam(m.changes[i]) THEN {i} ELSE {})
    BY <2>1
  <2>3. IsFiniteSet(With(i - 1)) /\ Cardinality(With(i - 1)) \in Nat
    BY <1>2, <2>1
  <2>4. Place(m, i) = Cardinality(With(i)) /\ Place(m, i - 1) = Cardinality(With(i - 1))
    BY DEF Place
  <2> HIDE DEF With
  <2>5. CASE HasParam(m.changes[i])
    <3> PICK S : S = With(i - 1)
      OBVIOUS
    <3>1. Cardinality(S \union {i}) = Cardinality(S) + 1
      BY <2>1, <2>3, FS_AddElement
    <3>2. With(i) = S \union {i}
      BY <2>2, <2>5
    <3> QED
      BY <2>4, <2>5, <3>1, <3>2
  <2>6. CASE ~HasParam(m.changes[i])
    <3>1. With(i) = With(i - 1)
      BY <2>2, <2>6
    <3> QED
      BY <2>3, <2>4, <2>6, <3>1
  <2> QED
    BY <2>5, <2>6
<1>5. \A i \in 0..Len(m.changes) : Place(m, i) \in Nat
  BY <1>2 DEF Place
<1> QED
  BY <1>3, <1>4, <1>5

LEMMA PlaceWithin ==
    ASSUME NEW m, m.changes \in Seq(Letters), NEW i \in 1..Len(m.changes),
           HasParam(m.changes[i])
    PROVE  Place(m, i) \in 1..Place(m, Len(m.changes))
<1> DEFINE With(k) == {j \in 1..k : HasParam(m.changes[j])}
<1>1. Len(m.changes) \in Nat /\ i - 1 \in 0..Len(m.changes)
  OBVIOUS
<1>2. /\ IsFiniteSet(1..Len(m.changes)) /\ With(Len(m.changes)) \subseteq 1..Len(m.changes)
      /\ With(i) \subseteq With(Len(m.changes))
  <2>1. IsFiniteSet(1..Len(m.changes))
    BY <1>1, FS_Interval
  <2>2. 1..i \subseteq 1..Len(m.changes)
    BY <1>1
  <2> QED
    BY <2>1, <2>2
<1>3. Cardinality(With(i)) <= Cardinality(With(Len(m.changes)))
  <2> HIDE DEF With
  <2> QED
    BY <1>2, FS_Subset
<1>4. Place(m, i) <= Place(m, Len(m.changes))
  BY <1>3 DEF Place
<1>5. Place(m, i) = Place(m, i - 1) + 1
  BY PlaceIs
<1>6. Place(m, i - 1) \in Nat /\ Place(m, Len(m.changes)) \in Nat
  BY <1>1, PlaceIs
<1> QED
  BY <1>4, <1>5, <1>6

\* A letter that does not shift the parameters is read as it is meant.
LEMMA TakesIsHasParam ==
    ASSUME NEW ch \in Letters, ~Shifts(ch)
    PROVE  Takes(ch) <=> HasParam(ch)
  BY DEF Letters, Shifts, Takes, HasParam, Modes

\* How far the client is in m: as long as no letter shifts the parameters, it has
\* taken those of the letters it has read.
Within(m) ==
    /\ letter \in 1..Len(m.changes) + 1 /\ taken \in 0..Len(m.params)
    /\ (\A i \in 1..letter - 1 : ~Shifts(m.changes[i])) => taken = Place(m, letter - 1)

LEMMA WithinStep ==
    ASSUME NEW m, Proper(m), Within(m), letter <= Len(m.changes),
           ~(Takes(m.changes[letter]) /\ taken = Len(m.params)),
           taken' = IF Takes(m.changes[letter]) THEN taken + 1 ELSE taken,
           letter' = letter + 1
    PROVE  Within(m)'
<1> PICK ch : ch = m.changes[letter]
  OBVIOUS
<1>1. /\ Len(m.changes) \in Nat /\ Len(m.params) \in Nat /\ ch \in Letters
      /\ letter \in 1..Len(m.changes) /\ letter - 1 \in 0..Len(m.changes)
  BY DEF Proper, Within
<1>2. letter' \in 1..Len(m.changes) + 1 /\ taken' \in 0..Len(m.params)
  BY <1>1 DEF Within
<1>3. ASSUME \A i \in 1..letter : ~Shifts(m.changes[i])
      PROVE  taken' = Place(m, letter)
  <2>1. taken = Place(m, letter - 1) /\ ~Shifts(ch)
    BY <1>1, <1>3 DEF Within
  <2>2. Place(m, letter) = Place(m, letter - 1) + IF HasParam(ch) THEN 1 ELSE 0
    BY <1>1, PlaceIs DEF Proper
  <2>3. Place(m, letter - 1) \in Nat
    BY <1>1, PlaceIs DEF Proper
  <2> QED
    BY <1>1, <2>1, <2>2, <2>3, TakesIsHasParam
<1>4. letter' - 1 = letter
  BY <1>1
<1> QED
  BY <1>2, <1>3, <1>4 DEF Within

\* Unless m misleads, the mode of a participant is given to whom it is meant for.
LEMMA RightParam ==
    ASSUME NEW m, Proper(m), Within(m), letter <= Len(m.changes),
           m.changes[letter].letter \in Modes, ~Misleads(m)
    PROVE  taken + 1 = Place(m, letter)
<1>1. /\ letter \in 1..Len(m.changes) /\ letter - 1 \in 0..Len(m.changes)
      /\ DOMAIN m.changes = 1..Len(m.changes) /\ Len(m.changes) \in Nat
  BY DEF Proper, Within
<1>2. \A i \in 1..letter - 1 : ~Shifts(m.changes[i])
  BY <1>1 DEF Misleads
<1>3. taken = Place(m, letter - 1) /\ Place(m, letter - 1) \in Nat
  BY <1>1, <1>2, PlaceIs DEF Within, Proper
<1>4. HasParam(m.changes[letter])
  BY DEF HasParam
<1> QED
  BY <1>1, <1>3, <1>4, PlaceIs DEF Proper

-----------------------------------------------------------------------------
(* Modes *)

\* Whose modes the client cannot know.
Unsure(c) == stale[c] \union misled[c]

\* The modes the client holds are of participants.
RankTypes ==
    /\ ranks \in [Channels -> SUBSET (Nicks \X Modes)]
    /\ misled \in [Channels -> SUBSET Nicks]
    /\ modes \in [Channels -> SUBSET ((Nicks \union {NoNick}) \X Modes)]
    /\ \A c \in Channels : modes[c] \subseteq participants[c] \X Modes
    /\ letter \in Nat \ {0} /\ taken \in 0..letter - 1
    /\ deaf \in BOOLEAN

\* Letter i of m is about the mode x.
IsAbout(m, i, x) == i \in About(m, x)

\* The letters of m from i on take x away.
TakenFrom(m, i, x) == \E j \in About(m, x) : j >= i /\ ~m.changes[j].sign

\* What m gives the server has, unless m takes it away again; those it misleads
\* about are known to be.
Gives(c, m) ==
    /\ \A i \in DOMAIN m.changes : \A x \in Nicks \X Modes :
          IsAbout(m, i, x) /\ m.changes[i].sign => x \in ranks[c] \/ TakenFrom(m, i + 1, x)
    /\ Misleads(m) => \A n \in Nicks :
          (\E i \in DOMAIN m.params : m.params[i] = n) => n \in misled[c]

\* m is a MODE message the client has begun to read.
Reading(c, m) ==
    /\ m.command = "MODE" /\ m.channel = c
    /\ Proper(m) /\ Within(m) /\ Gives(c, m)

RankedNames(c, m) ==
    /\ m.command = "353" /\ m.channel = c /\ m.modes \subseteq ranks[c]

NoLetter == letter = 1 /\ taken = 0

RankMail ==
    \/ toClient = <<>> /\ NoLetter
    \/ \E c \in Channels :
         \/ /\ NoLetter
            /\ \E command \in {"JOIN", "PART", "KICK", "NICK"}, n \in Nicks :
                  toClient = <<Message(command, c, n)>>
         \/ \E m : Reading(c, m) /\ toClient = <<m>>
         \/ /\ NoLetter
            /\ \E m : RankedNames(c, m) /\ (toClient = <<m>>
                                             \/ toClient = <<Message("JOIN", c, Me), m>>)

\* The mode x is taken away by the message m, or by what is left of it.
TakesAway(m, x) ==
    \/ m.command = "PART" /\ m.nick \in {x[1], Me}
    \/ m.command = "MODE" /\ TakenFrom(m, letter, x)

Lost(t, c, x) == t # <<>> /\ Head(t).channel = c /\ TakesAway(Head(t), x)

\* A mode the client holds is the server's, unless the next message takes it.
Sound ==
    ~deaf => \A c \in Channels : \A x \in modes[c] :
        x[1] \in Nicks \ Unsure(c) => x \in ranks[c] \/ Lost(toClient, c, x)

RInv == RankTypes /\ RankMail /\ Sound

LEMMA NothingLost == \A c, x : ~Lost(<<>>, c, x)
  BY DEF Lost

\* What the client holds when it has processed everything.
LEMMA Held ==
    ASSUME IInv, RInv, toClient = <<>>, ~deaf, NEW c \in Channels
    PROVE  /\ \A x \in modes[c] : x[1] \in Nicks \ Unsure(c) => x \in ranks[c]
           /\ Me \notin members[c] => \A x \in modes[c] : x[1] \notin Nicks \ Unsure(c)
<1>1. \A x \in modes[c] : x[1] \in Nicks \ Unsure(c) => x \in ranks[c]
  BY NothingLost DEF RInv, Sound
<1>2. ASSUME Me \notin members[c], NEW x \in modes[c], x[1] \in Nicks \ Unsure(c)
      PROVE  FALSE
  <2>1. stale[c] # Nicks
    BY <1>2 DEF Unsure
  <2>2. c \notin channels
    BY <1>2, <2>1, NothingOnItsWay
  <2>3. participants[c] = {}
    BY <2>2 DEF IInv, Empty
  <2>4. modes[c] \subseteq participants[c] \X Modes
    BY DEF RInv, RankTypes
  <2> QED
    BY <1>2, <2>3, <2>4
<1> QED
  BY <1>1, <1>2

\* The server's modes in c become r, and s those whose modes cannot be known.
Ranks(c, r, s) ==
    /\ toClient = <<>> /\ UNCHANGED client
    /\ ranks' = [ranks EXCEPT ![c] = r] /\ r \in SUBSET (Nicks \X Modes)
    /\ misled' \in [Channels -> SUBSET Nicks]
    /\ Unsure(c)' = s /\ \A d \in Channels \ {c} : Unsure(d)' = Unsure(d)
    /\ RankMail'
    /\ ~deaf => \A x \in modes[c] :
                  x[1] \in Nicks \ s => x \in r \/ Lost(toClient, c, x)'

LEMMA RankStep ==
    ASSUME IInv, RInv, NEW c \in Channels, NEW r, NEW s, Ranks(c, r, s)
    PROVE  RInv'
<1>1. UNCHANGED <<participants, modes, letter, taken, deaf>>
  BY DEF Ranks, client
<1>2. ranks \in [Channels -> SUBSET (Nicks \X Modes)]
  BY DEF RInv, RankTypes
<1>3. ranks' \in [Channels -> SUBSET (Nicks \X Modes)]
  BY <1>2, SMT DEF Ranks
<1>4. RankTypes'
  BY <1>1, <1>3 DEF RInv, RankTypes, Ranks
<1>5. ranks'[c] = r /\ \A d \in Channels \ {c} : ranks'[d] = ranks[d]
  BY <1>2, SMT DEF Ranks
<1>6. Sound'
  <2> SUFFICES ASSUME ~deaf, NEW d \in Channels, NEW x \in modes[d],
                      x[1] \in Nicks \ Unsure(d)'
               PROVE  x \in ranks'[d] \/ Lost(toClient, d, x)'
    BY <1>1 DEF Sound
  <2>1. CASE d = c
    BY <1>5, <2>1 DEF Ranks
  <2>2. CASE d # c
    <3>1. toClient = <<>> /\ Unsure(d)' = Unsure(d)
      BY <2>2 DEF Ranks
    <3> QED
      BY <1>5, <2>2, <3>1, Held
  <2> QED
    BY <2>1, <2>2
<1>7. RankMail'
  BY DEF Ranks
<1> QED
  BY <1>4, <1>6, <1>7 DEF RInv

\* What happens in a channel the client is not in does not concern it.
LEMMA UnseenRank ==
    ASSUME IInv, RInv, NEW c \in Channels, NEW r \in SUBSET (Nicks \X Modes),
           Me \notin members[c], toClient = <<>>, UNCHANGED client, RankMail',
           ranks' = [ranks EXCEPT ![c] = r], UNCHANGED ghosts
    PROVE  RInv'
<1>1. \A d \in Channels : Unsure(d)' = Unsure(d)
  BY DEF Unsure, ghosts
<1>2. ~deaf => \A x \in modes[c] :
                 x[1] \in Nicks \ Unsure(c) => x \in r \/ Lost(toClient, c, x)'
  BY Held
<1>3. Ranks(c, r, Unsure(c))
  BY <1>1, <1>2 DEF Ranks, RInv, RankTypes, ghosts
<1> QED
  BY <1>3, RankStep

\* No letter of a MODE has been read when there is no message.
LEMMA NoneRead ==
    ASSUME RankMail, toClient = <<>>
    PROVE  NoLetter
<1>1. \A m, l : <<m>> # <<>> /\ <<m, l>> # <<>>
  OBVIOUS
<1> QED
  BY <1>1, Zenon DEF RankMail

LEMMA ToldMail ==
    ASSUME RankMail, toClient = <<>>, UNCHANGED client, NEW c \in Channels, NEW n \in Nicks,
           NEW command \in {"JOIN", "PART", "KICK", "NICK"},
           toClient' = IF Me \in members[c] THEN <<Message(command, c, n)>> ELSE <<>>
    PROVE  RankMail'
<1>1. NoLetter'
  BY NoneRead DEF NoLetter, client
<1> QED
  BY <1>1 DEF RankMail

LEMMA PartLost ==
    ASSUME NEW c, NEW n, NEW x, n \in {x[1], Me},
           toClient' = <<Message("PART", c, n)>>
    PROVE  Lost(toClient, c, x)'
<1> PICK m : m = Message("PART", c, n)
  OBVIOUS
<1>1. m.command = "PART" /\ m.channel = c /\ m.nick = n
  BY MessageFields
<1>2. TakesAway(m, x)'
  BY <1>1 DEF TakesAway
<1>3. toClient' # <<>> /\ Head(toClient') = m
  BY OneMessage
<1> QED
  BY <1>1, <1>2, <1>3 DEF Lost

LEMMA JoinRank ==
    ASSUME IInv, RInv, NEW c \in Channels, NEW n \in Nicks, ServerJoin(c, n)
    PROVE  RInv'
<1> DEFINE r == IF members[c] = {} THEN {<<n, "o">>} ELSE ranks[c]
<1>1. /\ toClient = <<>> /\ UNCHANGED <<client, ghosts>>
      /\ toClient' = IF Me \in members[c] THEN <<Message("JOIN", c, n)>> ELSE <<>>
      /\ ranks' = [ranks EXCEPT ![c] = r]
  BY DEF ServerJoin, Tell
<1>2. RankMail'
  BY <1>1, ToldMail DEF RInv
<1>3. r \in SUBSET (Nicks \X Modes)
  BY DEF RInv, RankTypes, Modes
<1>4. CASE Me \notin members[c]
  <2> HIDE DEF r
  <2> QED
    BY <1>1, <1>2, <1>3, <1>4, UnseenRank
<1>5. CASE Me \in members[c]
  <2>1. r = ranks[c]
    BY <1>5
  <2>2. UNCHANGED <<stale, misled>> /\ \A d \in Channels : Unsure(d)' = Unsure(d)
    BY <1>1 DEF Unsure, ghosts
  <2>3. Ranks(c, r, Unsure(c))
    BY <1>1, <1>2, <1>3, <2>1, <2>2, Held DEF Ranks, RInv, RankTypes
  <2> HIDE DEF r
  <2> QED
    BY <2>3, RankStep
<1> QED
  BY <1>4, <1>5

LEMMA PartRank ==
    ASSUME IInv, RInv, NEW c \in Channels, NEW n \in Nicks, ServerPart(c, n)
    PROVE  RInv'
<1> DEFINE r == ranks[c] \ Of(n)
           s == IF n = Me THEN {} ELSE Unsure(c) \ {n}
<1>1. /\ toClient = <<>> /\ UNCHANGED client
      /\ toClient' = IF Me \in members[c] THEN <<Message("PART", c, n)>> ELSE <<>>
      /\ ranks' = [ranks EXCEPT ![c] = r]
      /\ n \in members[c]
  BY DEF ServerPart, Tell, Gone
<1>2. RankMail'
  BY <1>1, ToldMail DEF RInv
<1>3. r \in SUBSET (Nicks \X Modes) /\ stale \in [Channels -> SUBSET Nicks]
  BY DEF IInv, Types, RInv, RankTypes
<1> DEFINE Parted(known) == IF n = Me THEN {} ELSE known \ {n}
<1>4. CASE Me \notin members[c]
  <2>1. UNCHANGED ghosts
    BY <1>1, <1>3, <1>4 DEF ServerPart, Forgets, ghosts, RInv, RankTypes
  <2> HIDE DEF r
  <2> QED
    BY <1>1, <1>2, <1>3, <1>4, <2>1, UnseenRank
<1>5. CASE Me \in members[c]
  <2>1. /\ stale' = [stale EXCEPT ![c] = Parted(stale[c])]
        /\ misled' = [misled EXCEPT ![c] = Parted(misled[c])]
        /\ misled \in [Channels -> SUBSET Nicks]
    BY <1>3, <1>5 DEF ServerPart, Forgets, RInv, RankTypes
  <2>2. ASSUME ~deaf, NEW x \in modes[c], x[1] \in Nicks \ s
        PROVE  x \in r \/ Lost(toClient, c, x)'
    <3>1. toClient' = <<Message("PART", c, n)>>
      BY <1>1, <1>5
    <3>2. CASE n \in {x[1], Me}
      BY <3>1, <3>2, PartLost
    <3>3. CASE n \notin {x[1], Me}
      <4>1. x[1] \in Nicks \ Unsure(c)
        BY <2>2, <3>3
      <4>2. x \in ranks[c]
        BY <1>1, <2>2, <4>1, Held
      <4> QED
        BY <3>3, <4>2 DEF Of
    <3> QED
      BY <3>2, <3>3
  <2>3. /\ Unsure(c)' = s /\ \A d \in Channels \ {c} : Unsure(d)' = Unsure(d)
        /\ misled' \in [Channels -> SUBSET Nicks]
    <3>1. /\ stale'[c] = Parted(stale[c]) /\ misled'[c] = Parted(misled[c])
          /\ \A d \in Channels \ {c} : stale'[d] = stale[d] /\ misled'[d] = misled[d]
      BY <1>3, <2>1
    <3>2. Parted(misled[c]) \in SUBSET Nicks
      BY <2>1
    <3> QED
      BY <2>1, <3>1, <3>2 DEF Unsure
  <2>4. Ranks(c, r, s)
    BY <1>1, <1>2, <1>3, <2>2, <2>3 DEF Ranks
  <2> HIDE DEF r, s
  <2> QED
    BY <2>4, RankStep
<1> QED
  BY <1>4, <1>5

LEMMA RemovesRank ==
    ASSUME IInv, RInv, NEW c \in Channels, NEW n \in Nicks, ServerRemoves(c, n)
    PROVE  RInv'
<1> DEFINE r == ranks[c] \ Of(n)
           s == IF n = Me THEN Nicks ELSE stale[c] \union {n}
<1>1. /\ toClient = <<>> /\ UNCHANGED client
      /\ toClient' = IF Me \in members[c] THEN <<Message("KICK", c, n)>> ELSE <<>>
      /\ ranks' = [ranks EXCEPT ![c] = r]
      /\ n \in members[c]
  BY DEF ServerRemoves, Tell, Gone
<1>2. RankMail'
  BY <1>1, ToldMail DEF RInv
<1>3. r \in SUBSET (Nicks \X Modes) /\ stale \in [Channels -> SUBSET Nicks]
  BY DEF IInv, Types, RInv, RankTypes
<1>4. CASE Me \notin members[c]
  <2>1. UNCHANGED ghosts
    BY <1>1, <1>3, <1>4 DEF ServerRemoves, ghosts
  <2> HIDE DEF r
  <2> QED
    BY <1>1, <1>2, <1>3, <1>4, <2>1, UnseenRank
<1>5. CASE Me \in members[c]
  <2>1. stale' = [stale EXCEPT ![c] = s] /\ misled' = misled
    BY <1>3, <1>5 DEF ServerRemoves
  <2>2. ASSUME ~deaf, NEW x \in modes[c], x[1] \in Nicks \ (s \union misled[c])
        PROVE  x \in r
    <3>1. x[1] # n /\ x[1] \in Nicks \ Unsure(c)
      BY <2>2 DEF Unsure
    <3>2. x \in ranks[c]
      BY <1>1, <2>2, <3>1, Held
    <3> QED
      BY <3>1, <3>2 DEF Of
  <2>3. /\ Unsure(c)' = s \union misled[c]
        /\ \A d \in Channels \ {c} : Unsure(d)' = Unsure(d)
        /\ misled' \in [Channels -> SUBSET Nicks]
    BY <1>3, <2>1 DEF Unsure, RInv, RankTypes
  <2>4. Ranks(c, r, s \union misled[c])
    BY <1>1, <1>2, <1>3, <2>2, <2>3 DEF Ranks
  <2> HIDE DEF r, s
  <2> QED
    BY <2>4, RankStep
<1> QED
  BY <1>4, <1>5

LEMMA NickRank ==
    ASSUME IInv, RInv, NEW c \in Channels, NEW n \in Nicks, NEW new \in Others,
           ServerNick(c, n, new)
    PROVE  RInv'
<1> DEFINE r == (ranks[c] \ Of(n))
                  \union {<<new, x[2]>> : x \in ranks[c] \intersect Of(n)}
           s == stale[c] \union {n, new}
<1>1. /\ toClient = <<>> /\ UNCHANGED client
      /\ toClient' = IF Me \in members[c] THEN <<Message("NICK", c, n)>> ELSE <<>>
      /\ ranks' = [ranks EXCEPT ![c] = r]
  BY DEF ServerNick, Tell
<1>2. RankMail'
  BY <1>1, ToldMail DEF RInv
<1>3. r \in SUBSET (Nicks \X Modes) /\ stale \in [Channels -> SUBSET Nicks]
  <2>1. /\ ranks[c] \in SUBSET (Nicks \X Modes)
        /\ stale \in [Channels -> SUBSET Nicks] /\ new \in Nicks
    BY DEF IInv, Types, RInv, RankTypes, Others
  <2>2. \A x \in Of(n) : <<new, x[2]>> \in Nicks \X Modes
    BY <2>1 DEF Of
  <2> QED
    BY <2>1, <2>2
<1>4. CASE Me \notin members[c]
  <2>1. UNCHANGED ghosts
    BY <1>4 DEF ServerNick, ghosts
  <2> HIDE DEF r
  <2> QED
    BY <1>1, <1>2, <1>3, <1>4, <2>1, UnseenRank
<1>5. CASE Me \in members[c]
  <2>1. stale' = [stale EXCEPT ![c] = s] /\ misled' = misled
    BY <1>3, <1>5 DEF ServerNick
  <2>2. ASSUME ~deaf, NEW x \in modes[c], x[1] \in Nicks \ (s \union misled[c])
        PROVE  x \in r
    <3>1. x[1] # n /\ x[1] \in Nicks \ Unsure(c)
      BY <2>2 DEF Unsure
    <3>2. x \in ranks[c]
      BY <1>1, <2>2, <3>1, Held
    <3> QED
      BY <3>1, <3>2 DEF Of
  <2> HIDE DEF r, s
  <2>3. /\ Unsure(c)' = s \union misled[c]
        /\ \A d \in Channels \ {c} : Unsure(d)' = Unsure(d)
        /\ misled' \in [Channels -> SUBSET Nicks]
    BY <1>3, <2>1 DEF Unsure, RInv, RankTypes
  <2>4. Ranks(c, r, s \union misled[c])
    BY <1>1, <1>2, <1>3, <2>2, <2>3 DEF Ranks
  <2> QED
    BY <2>4, RankStep
<1> QED
  BY <1>4, <1>5

LEMMA JoinMeRank ==
    ASSUME IInv, RInv, NEW c \in Channels, NEW space \in BOOLEAN,
           NEW odd \in BOOLEAN, ServerJoinMe(c, space, odd)
    PROVE  RInv'
<1> DEFINE m == members[c] \union {Me}
           r == IF members[c] = {} THEN {<<Me, "o">>} ELSE ranks[c]
<1>1. PICK names : names = Names(c, m, r, space, odd)
  OBVIOUS
<1>2. /\ toClient = <<>> /\ UNCHANGED <<client, ghosts>> /\ Me \notin members[c]
      /\ toClient' = <<Message("JOIN", c, Me), names>>
      /\ ranks' = [ranks EXCEPT ![c] = r]
  BY <1>1 DEF ServerJoinMe
<1>3. names.command = "353" /\ names.channel = c /\ names.modes \subseteq r
  BY <1>1 DEF Names
<1>4. r \in SUBSET (Nicks \X Modes)
  BY NickAssumption DEF RInv, RankTypes, Modes
<1>5. RankMail'
  <2>1. ranks'[c] = r
    BY <1>2 DEF RInv, RankTypes
  <2> HIDE DEF r
  <2>2. RankedNames(c, names)'
    BY <1>3, <2>1 DEF RankedNames
  <2>3. NoLetter'
    BY <1>2, NoneRead DEF RInv, NoLetter, client
  <2> QED
    BY <1>2, <2>2, <2>3 DEF RankMail
<1> HIDE DEF r
<1> QED
  BY <1>2, <1>4, <1>5, UnseenRank

\* The message the server sends of m, and the modes after it.
Sent(c, m) ==
    [command |-> "MODE", channel |-> c, changes |-> m.changes, params |-> m.params]

LEMMA SentIs ==
    ASSUME NEW c, NEW m, NEW l, l = Sent(c, m)
    PROVE  /\ l.command = "MODE" /\ l.channel = c
           /\ l.changes = m.changes /\ l.params = m.params
           /\ \A i : Place(l, i) = Place(m, i)
           /\ \A x : About(l, x) = About(m, x)
           /\ Misleads(l) <=> Misleads(m)
<1>1. /\ l.command = "MODE" /\ l.channel = c
      /\ l.changes = m.changes /\ l.params = m.params
  BY DEF Sent
<1>2. \A i : Place(l, i) = Place(m, i)
  BY <1>1 DEF Place
<1>3. \A x : About(l, x) = About(m, x)
  BY <1>1, <1>2 DEF About
<1> QED
  BY <1>1, <1>2, <1>3 DEF Misleads

\* What was there or is given is there after m, unless m takes it away later.
LEMMA RankedIs ==
    ASSUME NEW m, m.changes \in Seq(Letters), NEW r \in SUBSET (Nicks \X Modes)
    PROVE  /\ Ranked(r, m) \in SUBSET (Nicks \X Modes)
           /\ \A x \in r : x \in Ranked(r, m) \/ TakenFrom(m, 1, x)
           /\ \A i \in DOMAIN m.changes : \A x \in Nicks \X Modes :
                IsAbout(m, i, x) /\ m.changes[i].sign
                  => x \in Ranked(r, m) \/ TakenFrom(m, i + 1, x)
<1>1. /\ Len(m.changes) \in Nat /\ DOMAIN m.changes = 1..Len(m.changes)
      /\ \A x : About(m, x) \subseteq 1..Len(m.changes)
  BY DEF About
<1>2. ASSUME NEW x \in r PROVE x \in Ranked(r, m) \/ TakenFrom(m, 1, x)
  BY <1>1, <1>2 DEF Ranked, TakenFrom
<1>3. ASSUME NEW i \in DOMAIN m.changes, NEW x \in Nicks \X Modes,
             IsAbout(m, i, x), m.changes[i].sign, ~TakenFrom(m, i + 1, x)
      PROVE  x \in Ranked(r, m)
  <2>1. i \in About(m, x)
    BY <1>3 DEF IsAbout
  <2>2. ASSUME NEW j \in About(m, x), j >= i PROVE m.changes[j].sign
    <3>1. j = i \/ j >= i + 1
      BY <1>1, <2>2
    <3> QED
      BY <1>3, <2>2, <3>1 DEF TakenFrom
  <2> QED
    BY <2>1, <2>2 DEF Ranked
<1>4. Ranked(r, m) \in SUBSET (Nicks \X Modes)
  BY DEF Ranked
<1> QED
  BY <1>2, <1>3, <1>4

LEMMA ModeRank ==
    ASSUME IInv, RInv, NEW c \in Channels, NEW m \in ModeMessages, ServerMode(c, m)
    PROVE  RInv'
<1> PICK l : l = Sent(c, m)
  OBVIOUS
<1> PICK r : r = Ranked(ranks[c], m)
  OBVIOUS
<1> PICK named : named = {n \in Nicks : \E i \in DOMAIN m.params : m.params[i] = n}
  OBVIOUS
<1>0. /\ m.changes \in Seq(Letters) /\ m.params \in Seq(Nicks \union {Key})
      /\ Len(m.params) = Place(m, Len(m.changes))
  BY ModeAssumption
<1>1. /\ toClient = <<>> /\ UNCHANGED client /\ UNCHANGED stale
      /\ toClient' = IF Me \in members[c] THEN <<l>> ELSE <<>>
      /\ ranks' = [ranks EXCEPT ![c] = r]
      /\ misled' = IF Me \in members[c] /\ Misleads(m)
                    THEN [misled EXCEPT ![c] = @ \union named] ELSE misled
  BY DEF ServerMode, Tell, Sent
<1>2. /\ ranks \in [Channels -> SUBSET (Nicks \X Modes)] /\ r \in SUBSET (Nicks \X Modes)
      /\ misled \in [Channels -> SUBSET Nicks] /\ NoLetter
  BY <1>0, <1>1, RankedIs, NoneRead DEF RInv, RankTypes
<1>3. NoLetter'
  BY <1>1, <1>2 DEF NoLetter, client
<1>4. CASE Me \notin members[c]
  <2>1. RankMail'
    BY <1>1, <1>3, <1>4 DEF RankMail
  <2>2. UNCHANGED ghosts
    BY <1>1, <1>4 DEF ghosts
  <2> QED
    BY <1>1, <1>2, <1>4, <2>1, <2>2, UnseenRank
<1>5. CASE Me \in members[c]
  <2>1. /\ misled' \in [Channels -> SUBSET Nicks] /\ misled[c] \subseteq misled'[c]
        /\ Misleads(m) => named \subseteq misled'[c]
        /\ \A d \in Channels \ {c} : misled'[d] = misled[d]
    BY <1>1, <1>2, <1>5
  <2>2. ranks'[c] = r
    BY <1>1, <1>2
  <2>3. Reading(c, l)'
    <3>1. Proper(l)
      BY <1>0, SentIs DEF Proper
    <3>2. Within(l)'
      <4>1. Place(l, 0) = 0 /\ Len(l.changes) \in Nat /\ Len(l.params) \in Nat
        BY <3>1, PlaceIs DEF Proper
      <4>2. letter' = 1 /\ taken' = 0
        BY <1>3 DEF NoLetter
      <4>3. Place(l, letter' - 1) = 0
        BY <4>1, <4>2
      <4>4. letter' \in 1..Len(l.changes) + 1 /\ taken' \in 0..Len(l.params)
        BY <4>1, <4>2
      <4> QED
        BY <4>2, <4>3, <4>4 DEF Within
    <3>3. Gives(c, l)'
      <4>1. ASSUME NEW i \in DOMAIN l.changes, NEW x \in Nicks \X Modes,
                   IsAbout(l, i, x), l.changes[i].sign
            PROVE  x \in r \/ TakenFrom(l, i + 1, x)
        <5>1. i \in DOMAIN m.changes /\ IsAbout(m, i, x) /\ m.changes[i].sign
          BY <4>1, SentIs DEF IsAbout
        <5>2. x \in r \/ TakenFrom(m, i + 1, x)
          BY <1>0, <1>2, <4>1, <5>1, RankedIs
        <5> QED
          BY <5>2, SentIs DEF TakenFrom
      <4>2. ASSUME Misleads(l), NEW n \in Nicks, \E i \in DOMAIN l.params : l.params[i] = n
            PROVE  n \in misled'[c]
        BY <2>1, <4>2, SentIs
      <4> QED
        BY <2>2, <4>1, <4>2 DEF Gives
    <3> QED
      BY <3>1, <3>2, <3>3, SentIs DEF Reading
  <2>4. RankMail'
    BY <1>1, <1>5, <2>3 DEF RankMail
  <2>5. /\ \A d \in Channels \ {c} : Unsure(d)' = Unsure(d)
        /\ Unsure(c) \subseteq Unsure(c)'
    BY <1>1, <2>1 DEF Unsure
  <2>6. ASSUME ~deaf, NEW x \in modes[c], x[1] \in Nicks \ Unsure(c)'
        PROVE  x \in r \/ Lost(toClient, c, x)'
    <3>1. x \in ranks[c]
      BY <1>1, <2>5, <2>6, Held
    <3>2. x \in r \/ TakenFrom(m, 1, x)
      BY <1>0, <1>2, <3>1, RankedIs
    <3>3. ASSUME TakenFrom(m, 1, x) PROVE Lost(toClient, c, x)'
      <4>1. TakenFrom(l, 1, x)
        BY <3>3, SentIs DEF TakenFrom
      <4>2. TakesAway(l, x)'
        BY <1>3, <4>1, SentIs DEF TakesAway, NoLetter
      <4>3. toClient' # <<>> /\ Head(toClient') = l
        BY <1>1, <1>5, OneMessage
      <4> QED
        BY <4>2, <4>3, SentIs DEF Lost
    <3> QED
      BY <3>2, <3>3
  <2>7. Ranks(c, r, Unsure(c)')
    BY <1>1, <1>2, <2>1, <2>4, <2>5, <2>6 DEF Ranks
  <2> QED
    BY <2>7, RankStep
<1> QED
  BY <1>4, <1>5

\* The last message is processed: what the client holds is the server's.
Read ==
    /\ toClient' = <<>> /\ UNCHANGED <<ranks, stale, misled>>
    /\ letter' = 1 /\ taken' = 0 /\ RankTypes'
    /\ ~deaf' => \A d \in Channels : \A x \in modes'[d] :
                   x[1] \in Nicks \ Unsure(d) => x \in ranks[d]

LEMMA ReadStep ==
    ASSUME Read
    PROVE  RInv'
<1>1. RankMail'
  BY DEF Read, RankMail, NoLetter
<1>2. Sound'
  BY DEF Read, Sound, Unsure
<1> QED
  BY <1>1, <1>2 DEF Read, RInv

\* A message takes a mode away only in its own channel.
LEMMA OneLost ==
    ASSUME NEW m, NEW d, NEW x, Lost(<<m>>, d, x)
    PROVE  m.channel = d /\ TakesAway(m, x)
<1> PICK t : t = <<m>>
  OBVIOUS
<1>1. Head(t) = m /\ Lost(t, d, x)
  BY OneMessage
<1> QED
  BY <1>1 DEF Lost

LEMMA AboutRead ==
    ASSUME IInv, RInv, NEW c \in Channels, NEW n \in Nicks,
           NEW command \in {"JOIN", "PART", "KICK", "NICK"},
           toClient = <<Message(command, c, n)>>, procMessage, IInv'
    PROVE  RInv'
<1> DEFINE m == Message(command, c, n)
<1>1. m.command = command /\ m.channel = c /\ m.nick = n
  BY MessageFields
<1>2. /\ Handle(m) /\ toClient' = <<>> /\ UNCHANGED <<ranks, stale, misled>>
      /\ letter' = 1 /\ taken' = 0 /\ ~deaf /\ toClient = <<m>>
  BY DEF procMessage, server, ghosts
<1> HIDE DEF m
<1>3. ASSUME NEW d \in Channels, NEW x \in modes[d], x[1] \in Nicks \ Unsure(d)
      PROVE  x \in ranks[d] \/ (command = "PART" /\ d = c /\ n \in {x[1], Me})
  <2>1. x \in ranks[d] \/ Lost(<<m>>, d, x)
    BY <1>2, <1>3 DEF RInv, Sound
  <2>2. ASSUME Lost(<<m>>, d, x)
        PROVE  command = "PART" /\ d = c /\ n \in {x[1], Me}
    BY <1>1, <2>2, OneLost DEF TakesAway
  <2> QED
    BY <2>1, <2>2
<1>4. /\ RankTypes
      /\ participants \in [Channels -> SUBSET (Nicks \union {NoNick})]
      /\ participants' \in [Channels -> SUBSET (Nicks \union {NoNick})]
  BY DEF IInv, Types, RInv
<1>5. CASE command # "PART"
  <2>1. /\ modes' = modes /\ deaf' = deaf
        /\ \A d \in Channels : participants[d] \subseteq participants'[d]
    <3>1. CASE command = "JOIN"
      <4>1. Join(m)
        BY <1>1, <1>2, <3>1 DEF Handle
      <4> QED
        BY <1>4, <4>1 DEF Join
    <3>2. CASE command \in {"KICK", "NICK"}
      BY <1>1, <1>2, <3>2 DEF Handle
    <3> QED
      BY <1>5, <3>1, <3>2
  <2>2. RankTypes'
    BY <1>2, <1>4, <2>1 DEF RankTypes
  <2>3. Read
    BY <1>2, <1>3, <1>5, <2>1, <2>2 DEF Read
  <2> QED
    BY <2>3, ReadStep
<1>6. CASE command = "PART"
  <2>1. Part(m) /\ deaf' = deaf
    BY <1>1, <1>2, <1>6 DEF Handle, Part
  <2>2. /\ \A d \in Channels \ {c} :
             modes'[d] = modes[d] /\ participants'[d] = participants[d]
        /\ n = Me => modes'[c] = {} /\ participants'[c] = {}
        /\ n # Me => /\ modes'[c] = modes[c] \ Of(n)
                     /\ participants'[c] = participants[c] \ {n}
    BY <1>1, <1>4, <2>1 DEF Part, isMyPrefix, RankTypes
  <2>3. modes' \in [Channels -> SUBSET ((Nicks \union {NoNick}) \X Modes)]
    BY <1>1, <1>4, <2>1 DEF Part, isMyPrefix, RankTypes
  <2>4. \A d \in Channels : \A x \in modes'[d] :
          x \in modes[d] /\ (d = c => n # Me /\ x \notin Of(n))
    BY <2>2
  <2>5. \A d \in Channels : \A x \in modes[d] :
          x \in participants[d] \X Modes
    BY <1>4 DEF RankTypes
  <2>6. \A x : x \in participants[c] \X Modes /\ x \notin Of(n)
          => x \in (participants[c] \ {n}) \X Modes /\ x[1] # n
    BY DEF Of
  <2>7. \A d \in Channels : modes'[d] \subseteq participants'[d] \X Modes
    <3> SUFFICES ASSUME NEW d \in Channels, NEW x \in modes'[d]
                 PROVE  x \in participants'[d] \X Modes
      OBVIOUS
    <3>1. CASE d # c
      BY <2>2, <2>4, <2>5, <3>1
    <3>2. CASE d = c
      <4>1. n # Me /\ x \in (participants[c] \ {n}) \X Modes
        BY <2>4, <2>5, <2>6, <3>2
      <4> QED
        BY <2>2, <3>2, <4>1
    <3> QED
      BY <3>1, <3>2
  <2>8. RankTypes'
    BY <1>2, <1>4, <2>1, <2>3, <2>7 DEF RankTypes
  <2>9. ASSUME NEW d \in Channels, NEW x \in modes'[d], x[1] \in Nicks \ Unsure(d)
        PROVE  x \in ranks[d]
    BY <1>3, <2>4, <2>5, <2>6, <2>9
  <2>10. Read
    BY <1>2, <2>8, <2>9 DEF Read
  <2> QED
    BY <2>10, ReadStep
<1> QED
  BY <1>5, <1>6

\* The mode a letter gives or takes away is that of a participant; it is the one
\* meant, or somebody's of whom the client cannot know.
LEMMA LetterGives ==
    ASSUME IInv, RInv, NEW c \in Channels, NEW m, Reading(c, m), letter <= Len(m.changes),
           ~(Takes(m.changes[letter]) /\ taken = Len(m.params)),
           m.changes[letter].letter \in Modes, NEW x,
           x = <<m.params[taken + 1], m.changes[letter].letter>>
    PROVE  /\ x[1] \in Nicks \ Unsure(c) => x \in Nicks \X Modes /\ IsAbout(m, letter, x)
           /\ letter \in DOMAIN m.changes
<1>1. /\ letter \in DOMAIN m.changes /\ taken \in 0..Len(m.params)
      /\ taken + 1 \in DOMAIN m.params /\ x[1] = m.params[taken + 1]
  BY DEF Reading, Proper, Within, Takes
<1>2. CASE Misleads(m)
  <2>1. x[1] \in Nicks => x[1] \in misled[c]
    BY <1>1, <1>2 DEF Reading, Gives
  <2> QED
    BY <1>1, <2>1 DEF Unsure
<1>3. CASE ~Misleads(m)
  <2>1. taken + 1 = Place(m, letter)
    BY <1>3, RightParam DEF Reading
  <2>2. IsAbout(m, letter, x)
    BY <1>1, <2>1 DEF IsAbout, About
  <2> QED
    BY <1>1, <2>2
<1> QED
  BY <1>2, <1>3

\* One more letter is read.
LEMMA LetterStep ==
    ASSUME IInv, RInv, ModeLetter
    PROVE  RInv'
<1> PICK m : m = Head(toClient)
  OBVIOUS
<1>1. /\ toClient # <<>> /\ ~deaf /\ Reads(m) /\ ~Fails(m)
      /\ modes' = Given(m) /\ letter' = letter + 1
      /\ taken' = IF Takes(m.changes[letter]) THEN taken + 1 ELSE taken
      /\ UNCHANGED <<ranks, toClient, participants, deaf, stale, misled>>
  BY DEF ModeLetter, server, ghosts
<1>2. m.command = "MODE" /\ m.channel \in channels /\ letter <= Len(m.changes)
  BY <1>1 DEF Reads
<1>3. ~(Takes(m.changes[letter]) /\ taken = Len(m.params))
  BY <1>1 DEF Fails
<1>4. PICK c \in Channels : Reading(c, m) /\ toClient = <<m>>
  <2>1. \A command, c, n : /\ Head(<<Message(command, c, n)>>).command = command
                           /\ \A l : Head(<<Message(command, c, n), l>>).command = command
    BY DEF Message
  <2>2. \A l : Head(<<l>>) = l
    BY OneMessage
  <2>3. \A c, l : RankedNames(c, l) => l.command = "353"
    BY DEF RankedNames
  <2>4. PICK c \in Channels :
          \/ \E command \in {"JOIN", "PART", "KICK", "NICK"}, n \in Nicks :
               toClient = <<Message(command, c, n)>>
          \/ \E l : Reading(c, l) /\ toClient = <<l>>
          \/ \E l : RankedNames(c, l) /\ (toClient = <<l>>
                                           \/ toClient = <<Message("JOIN", c, Me), l>>)
    BY <1>1, Zenon DEF RInv, RankMail
  <2>5. \E l : Reading(c, l) /\ toClient = <<l>>
    BY <1>2, <2>1, <2>2, <2>3, <2>4
  <2> QED
    BY <2>2, <2>5
<1>5. m.channel = c /\ Proper(m) /\ Within(m) /\ Gives(c, m)
  BY <1>4 DEF Reading
<1> PICK ch : ch = m.changes[letter]
  OBVIOUS
<1> PICK x : x = <<m.params[taken + 1], ch.letter>>
  OBVIOUS
<1>6. /\ RankTypes /\ participants[c] \in SUBSET (Nicks \union {NoNick})
      /\ letter \in Nat \ {0} /\ taken \in 0..letter - 1
  BY DEF IInv, Types, RInv, RankTypes
<1>7. /\ \A d \in Channels \ {c} : modes'[d] = modes[d]
      /\ modes' \in [Channels -> SUBSET ((Nicks \union {NoNick}) \X Modes)]
      /\ modes'[c] \subseteq participants[c] \X Modes
      /\ IF ch.letter \notin Modes \/ x[1] \notin participants[c] THEN modes'[c] = modes[c]
         ELSE modes'[c] = IF ch.sign THEN modes[c] \union {x} ELSE modes[c] \ {x}
  <2>1. modes[c] \in SUBSET ((Nicks \union {NoNick}) \X Modes)
        /\ modes[c] \subseteq participants[c] \X Modes
        /\ modes \in [Channels -> SUBSET ((Nicks \union {NoNick}) \X Modes)]
    BY <1>6 DEF RankTypes
  <2>2. CASE ch.letter \notin Modes \/ x[1] \notin participants[c]
    <3>1. modes' = modes
      BY <1>1, <1>5, <2>2 DEF Given
    <3> QED
      BY <2>1, <2>2, <3>1
  <2>3. CASE ~(ch.letter \notin Modes \/ x[1] \notin participants[c])
    <3> PICK k : k = IF ch.sign THEN modes[c] \union {x} ELSE modes[c] \ {x}
      OBVIOUS
    <3>1. modes' = [modes EXCEPT ![c] = k]
      BY <1>1, <1>5, <2>3 DEF Given
    <3>2. x \in participants[c] \X Modes /\ x \in (Nicks \union {NoNick}) \X Modes
      BY <1>6, <2>3
    <3>3. k \in SUBSET ((Nicks \union {NoNick}) \X Modes) /\ k \subseteq participants[c] \X Modes
      BY <2>1, <3>2
    <3> QED
      BY <2>1, <2>3, <3>1, <3>3
  <2> QED
    BY <2>2, <2>3
<1>8. RankTypes'
  <2>1. letter' \in Nat \ {0} /\ taken' \in 0..letter' - 1
    BY <1>1, <1>6
  <2>2. \A d \in Channels : modes'[d] \subseteq participants'[d] \X Modes
    BY <1>1, <1>6, <1>7 DEF RankTypes
  <2> QED
    BY <1>1, <1>6, <1>7, <2>1, <2>2 DEF RankTypes
<1>9. RankMail'
  <2>1. Within(m)'
    BY <1>1, <1>2, <1>3, <1>5, WithinStep
  <2>2. Gives(c, m)'
    BY <1>1, <1>5 DEF Gives
  <2>3. Reading(c, m)'
    BY <1>2, <1>5, <2>1, <2>2 DEF Reading
  <2> QED
    BY <1>1, <1>4, <2>3 DEF RankMail
<1>10. ASSUME NEW d \in Channels, NEW y \in modes'[d], y[1] \in Nicks \ Unsure(d)
       PROVE  y \in ranks[d] \/ (d = c /\ TakenFrom(m, letter + 1, y))
  <2>1. y \in modes[d] => y \in ranks[d] \/ (d = c /\ TakenFrom(m, letter, y))
    <3>1. ASSUME y \in modes[d] PROVE y \in ranks[d] \/ Lost(<<m>>, d, y)
      BY <1>1, <1>4, <1>10, <3>1 DEF RInv, Sound
    <3>2. ASSUME Lost(<<m>>, d, y) PROVE d = c /\ TakenFrom(m, letter, y)
      BY <1>2, <1>5, <3>2, OneLost DEF TakesAway
    <3> QED
      BY <3>1, <3>2
  <2>2. CASE d # c
    BY <1>7, <1>10, <2>1, <2>2
  <2>3. CASE d = c
    <3>1. /\ y \in modes[c] \/ (y = x /\ ch.letter \in Modes /\ ch.sign)
          /\ y = x /\ ch.letter \in Modes /\ ~ch.sign => y[1] \notin participants[c]
      BY <1>7, <1>10, <2>3
    <3>2. y[1] \in participants[c]
      BY <1>7, <1>10, <2>3
    <3>3. CASE y = x /\ ch.letter \in Modes /\ ch.sign
      <4>1. x \in Nicks \X Modes /\ IsAbout(m, letter, x) /\ letter \in DOMAIN m.changes
        BY <1>2, <1>3, <1>4, <1>10, <2>3, <3>3, LetterGives
      <4> QED
        BY <1>5, <2>3, <3>3, <4>1 DEF Gives
    <3>4. CASE y \in modes[c] /\ ~(y = x /\ ch.letter \in Modes)
      <4>1. y \in ranks[c] \/ TakenFrom(m, letter, y)
        BY <2>1, <2>3, <3>4
      <4>2. ASSUME TakenFrom(m, letter, y), ~TakenFrom(m, letter + 1, y) PROVE FALSE
        <5>1. letter \in About(m, y) /\ ~ch.sign
          <6>1. PICK j \in About(m, y) : j >= letter /\ ~m.changes[j].sign
            BY <4>2 DEF TakenFrom
          <6>2. j \in Nat /\ ~(j >= letter + 1)
            BY <1>5, <4>2, <6>1 DEF TakenFrom, About, Proper
          <6>3. j = letter
            BY <1>6, <6>1, <6>2
          <6> QED
            BY <6>1, <6>3
        <5>2. ch.letter = y[2] /\ m.params[Place(m, letter)] = y[1]
          BY <5>1 DEF About
        <5>3. y \in participants[c] \X Modes
          BY <1>7, <1>10, <2>3
        <5>4. ch.letter \in Modes
          BY <5>2, <5>3
        <5>5. CASE Misleads(m)
          <6>1. letter \in 1..Len(m.changes) /\ DOMAIN m.params = 1..Len(m.params)
            BY <1>2, <1>5 DEF Proper, Within
          <6>2. Place(m, letter) \in DOMAIN m.params
            BY <1>5, <5>4, <6>1, PlaceWithin DEF HasParam, Proper
          <6>3. y[1] \in misled[c]
            BY <1>5, <1>10, <5>2, <5>5, <6>2 DEF Gives
          <6> QED
            BY <1>10, <2>3, <6>3 DEF Unsure
        <5>6. CASE ~Misleads(m)
          <6>1. taken + 1 = Place(m, letter)
            BY <1>2, <1>5, <5>4, <5>6, RightParam
          <6>2. y = <<y[1], y[2]>>
            BY <5>3
          <6>3. y = x
            BY <5>2, <6>1, <6>2
          <6> QED
            BY <3>4, <5>4, <6>3
        <5> QED
          BY <5>5, <5>6
      <4> QED
        BY <2>3, <4>1, <4>2
    <3> QED
      BY <3>1, <3>2, <3>3, <3>4
  <2> QED
    BY <2>2, <2>3
<1>11. Sound'
  <2>1. ASSUME NEW y, TakenFrom(m, letter + 1, y) PROVE Lost(toClient, c, y)'
    <3>1. TakesAway(m, y)'
      BY <1>1, <1>2, <2>1 DEF TakesAway
    <3> QED
      BY <1>1, <1>5, <3>1 DEF Lost
  <2>2. \A d \in Channels : Unsure(d)' = Unsure(d)
    BY <1>1 DEF Unsure
  <2> QED
    BY <1>1, <1>10, <2>1, <2>2 DEF Sound
<1> QED
  BY <1>8, <1>9, <1>11 DEF RInv

\* The rest of a MODE message: all its letters are read, the channel is not known,
\* or procMessage throws.
LEMMA ModeRead ==
    ASSUME IInv, RInv, NEW c \in Channels, NEW m, Reading(c, m),
           toClient = <<m>>, procMessage, IInv'
    PROVE  RInv'
<1>1. m.command = "MODE" /\ m.channel = c /\ Proper(m) /\ Within(m)
  BY DEF Reading
<1>2. /\ Mode(m) /\ toClient' = <<>> /\ UNCHANGED <<ranks, stale, misled>>
      /\ letter' = 1 /\ taken' = 0 /\ ~deaf
  BY <1>1, OneMessage DEF procMessage, server, ghosts, Handle
<1>3. deaf' = Fails(m) /\ UNCHANGED <<participants, modes>> /\ (Reads(m) => Fails(m))
  BY <1>2 DEF Mode
<1>4. RankTypes'
  <2>1. deaf' \in BOOLEAN
    BY <1>3 DEF Fails, Reads
  <2> QED
    BY <1>2, <1>3, <2>1 DEF RInv, RankTypes
<1>5. ASSUME ~deaf', NEW d \in Channels, NEW x \in modes[d], x[1] \in Nicks \ Unsure(d)
      PROVE  x \in ranks[d]
  <2>1. x \in ranks[d] \/ Lost(<<m>>, d, x)
    BY <1>2, <1>5 DEF RInv, Sound
  <2>2. ASSUME Lost(<<m>>, d, x) PROVE FALSE
    <3>1. d = c /\ TakenFrom(m, letter, x)
      BY <1>1, <2>2, OneLost DEF TakesAway
    <3>2. CASE c \notin channels
      <4>1. participants[c] = {} /\ modes[c] \subseteq participants[c] \X Modes
        BY <3>2 DEF IInv, Empty, RInv, RankTypes
      <4> QED
        BY <1>5, <3>1, <4>1
    <3>3. CASE c \in channels
      <4>1. ~(letter <= Len(m.changes))
        BY <1>1, <1>3, <1>5, <3>3 DEF Reads
      <4>2. PICK j \in About(m, x) : j >= letter
        BY <3>1 DEF TakenFrom
      <4>3. j \in 1..Len(m.changes) /\ letter \in Nat /\ Len(m.changes) \in Nat
        BY <1>1, <4>2 DEF About, Proper, Within
      <4> QED
        BY <4>1, <4>2, <4>3
    <3> QED
      BY <3>2, <3>3
  <2> QED
    BY <2>1, <2>2
<1>6. Read
  BY <1>2, <1>3, <1>4, <1>5 DEF Read
<1> QED
  BY <1>6, ReadStep

LEMMA NamesRead ==
    ASSUME IInv, RInv, NEW c \in Channels, NEW m, RankedNames(c, m),
           toClient = <<m>>, procMessage, IInv'
    PROVE  RInv'
<1>0. m.command = "353" /\ m.channel = c /\ m.modes \subseteq ranks[c]
  BY DEF RankedNames
<1>1. /\ NamReply(m) /\ toClient' = <<>> /\ UNCHANGED <<ranks, stale, misled>>
      /\ letter' = 1 /\ taken' = 0 /\ ~deaf
  BY <1>0, OneMessage DEF procMessage, server, ghosts, Handle
<1>2. ASSUME NEW d \in Channels, NEW x \in modes[d], x[1] \in Nicks \ Unsure(d)
      PROVE  x \in ranks[d]
  <2>1. x \in ranks[d] \/ Lost(<<m>>, d, x)
    BY <1>1, <1>2 DEF RInv, Sound
  <2>2. ~Lost(<<m>>, d, x)
    BY <1>0, OneLost DEF TakesAway
  <2> QED
    BY <2>1, <2>2
<1>3. /\ RankTypes /\ deaf' \in BOOLEAN
      /\ participants \in [Channels -> SUBSET (Nicks \union {NoNick})]
      /\ participants' \in [Channels -> SUBSET (Nicks \union {NoNick})]
  BY <1>1 DEF IInv, Types, RInv, NamReply
<1>4. CASE c \notin channels
  <2>1. modes' = modes /\ participants' = participants
    BY <1>0, <1>1, <1>4 DEF NamReply
  <2>2. RankTypes'
    BY <1>1, <1>3, <2>1 DEF RankTypes
  <2>3. Read
    BY <1>1, <1>2, <2>1, <2>2 DEF Read
  <2> QED
    BY <2>3, ReadStep
<1>5. CASE c \in channels
  <2> PICK new \in SUBSET (m.nicks \ participants[c]) :
         /\ participants' = [participants EXCEPT ![c] = @ \union new]
         /\ modes' = [modes EXCEPT ![c] =
                        @ \union UNION {parseParticipant(m, n) : n \in new}]
    BY <1>0, <1>1, <1>5, Zenon DEF NamReply
  <2> DEFINE given == UNION {parseParticipant(m, n) : n \in new}
  <2>1. /\ participants' = [participants EXCEPT ![c] = @ \union new]
        /\ modes' = [modes EXCEPT ![c] = @ \union given]
    OBVIOUS
  <2>2. \A x \in given : x \in ranks[c] /\ x[1] \in new
    BY <1>0 DEF parseParticipant
  <2> HIDE DEF given
  <2>3. /\ modes'[c] = modes[c] \union given
        /\ participants'[c] = participants[c] \union new
        /\ \A d \in Channels \ {c} :
             modes'[d] = modes[d] /\ participants'[d] = participants[d]
    BY <1>3, <2>1 DEF RankTypes
  <2>4. given \subseteq (Nicks \X Modes) \intersect (participants'[c] \X Modes)
    <3> SUFFICES ASSUME NEW x \in given
                 PROVE  x \in Nicks \X Modes /\ x \in participants'[c] \X Modes
      OBVIOUS
    <3>1. x \in Nicks \X Modes
      BY <1>3, <2>2 DEF RankTypes
    <3>2. x[1] \in participants'[c]
      BY <2>2, <2>3
    <3> QED
      BY <3>1, <3>2
  <2>5. modes[c] \subseteq participants[c] \X Modes
        /\ modes[c] \in SUBSET ((Nicks \union {NoNick}) \X Modes)
    BY <1>3 DEF RankTypes
  <2>6. modes'[c] \subseteq participants'[c] \X Modes
    <3>1. participants[c] \X Modes \subseteq participants'[c] \X Modes
      BY <2>3
    <3> QED
      BY <2>3, <2>4, <2>5, <3>1
  <2>7. modes' \in [Channels -> SUBSET ((Nicks \union {NoNick}) \X Modes)]
    <3>1. modes[c] \union given \in SUBSET ((Nicks \union {NoNick}) \X Modes)
      BY <2>4, <2>5
    <3> QED
      BY <1>3, <2>1, <3>1 DEF RankTypes
  <2>8. RankTypes'
    BY <1>1, <1>3, <2>3, <2>6, <2>7 DEF RankTypes
  <2>9. Read
    BY <1>1, <1>2, <2>2, <2>3, <2>8 DEF Read
  <2> QED
    BY <2>9, ReadStep
<1> QED
  BY <1>4, <1>5

LEMMA JoinedRead ==
    ASSUME IInv, RInv, NEW c \in Channels, NEW m, RankedNames(c, m),
           toClient = <<Message("JOIN", c, Me), m>>, procMessage
    PROVE  RInv'
<1> PICK join : join = Message("JOIN", c, Me)
  OBVIOUS
<1>1. join.command = "JOIN" /\ join.channel = c /\ join.nick = Me
  BY MessageFields
<1>2. Head(toClient) = join /\ Tail(toClient) = <<m>> /\ toClient # <<>>
  OBVIOUS
<1>3. /\ Join(join) /\ toClient' = <<m>> /\ UNCHANGED <<ranks, stale, misled>>
      /\ letter' = 1 /\ taken' = 0 /\ ~deaf
  BY <1>1, <1>2 DEF procMessage, server, ghosts, Handle
<1>4. UNCHANGED <<participants, modes, deaf>>
  BY <1>1, <1>3 DEF Join, isMyPrefix
<1>5. RankTypes'
  BY <1>3, <1>4 DEF RInv, RankTypes
<1>6. RankMail'
  <2>1. RankedNames(c, m)'
    BY <1>3 DEF RankedNames
  <2> QED
    BY <1>3, <2>1 DEF RankMail, NoLetter
<1>7. \A d, x : ~Lost(toClient, d, x)
  BY <1>1, <1>2 DEF Lost, TakesAway
<1>8. Sound'
  BY <1>3, <1>4, <1>7 DEF RInv, Sound, Unsure
<1> QED
  BY <1>5, <1>6, <1>8 DEF RInv

LEMMA ReadsStep ==
    ASSUME IInv, RInv, procMessage
    PROVE  RInv'
<1>1. toClient # <<>> /\ RankMail /\ Me \in Nicks /\ IInv'
  BY ProcessStep, NickAssumption DEF procMessage, RInv
<1>2. PICK c \in Channels :
         \/ \E command \in {"JOIN", "PART", "KICK", "NICK"}, n \in Nicks :
              toClient = <<Message(command, c, n)>>
         \/ \E m : Reading(c, m) /\ toClient = <<m>>
         \/ \E m : RankedNames(c, m) /\ (toClient = <<m>>
                                          \/ toClient = <<Message("JOIN", c, Me), m>>)
  BY <1>1, Zenon DEF RankMail
<1>3. ASSUME NEW command \in {"JOIN", "PART", "KICK", "NICK"}, NEW n \in Nicks,
             toClient = <<Message(command, c, n)>>
      PROVE  RInv'
  BY <1>1, <1>3, AboutRead
<1>4. ASSUME NEW m, Reading(c, m), toClient = <<m>> PROVE RInv'
  BY <1>1, <1>4, ModeRead
<1>5. ASSUME NEW m, RankedNames(c, m), toClient = <<m>> PROVE RInv'
  BY <1>1, <1>5, NamesRead
<1>6. ASSUME NEW m, RankedNames(c, m), toClient = <<Message("JOIN", c, Me), m>>
      PROVE RInv'
  BY <1>6, JoinedRead
<1> QED
  BY <1>2, <1>3, <1>4, <1>5, <1>6

LEMMA RankInit == Init => RInv
<1> SUFFICES ASSUME Init PROVE RInv
  OBVIOUS
<1>1. RankTypes
  <2>1. letter \in Nat \ {0} /\ taken \in 0..letter - 1
    BY DEF Init
  <2>2. \A c \in Channels : modes[c] \subseteq participants[c] \X Modes
    BY DEF Init
  <2>3. /\ ranks \in [Channels -> SUBSET (Nicks \X Modes)]
        /\ misled \in [Channels -> SUBSET Nicks]
        /\ modes \in [Channels -> SUBSET ((Nicks \union {NoNick}) \X Modes)]
        /\ deaf \in BOOLEAN
    BY DEF Init
  <2> QED
    BY <2>1, <2>2, <2>3 DEF RankTypes
<1>2. RankMail /\ Sound
  BY DEF Init, RankMail, NoLetter, Sound
<1> QED
  BY <1>1, <1>2 DEF RInv

LEMMA RankNext ==
    ASSUME IInv, RInv, [Next]_vars
    PROVE  RInv'
<1>1. CASE procMessage
  BY <1>1, ReadsStep
<1>2. ASSUME NEW c \in Channels,
             \/ \E n \in Nicks : \/ ServerJoin(c, n) \/ ServerPart(c, n)
                                 \/ ServerRemoves(c, n)
                                 \/ \E new \in Others : ServerNick(c, n, new)
             \/ \E space, odd \in BOOLEAN : ServerJoinMe(c, space, odd)
             \/ \E m \in ModeMessages : ServerMode(c, m)
      PROVE  RInv'
  BY <1>2, JoinRank, PartRank, RemovesRank, NickRank, JoinMeRank, ModeRank
<1>3. CASE ModeLetter
  BY <1>3, LetterStep
<1>4. CASE UNCHANGED vars
  <2>1. /\ UNCHANGED <<ranks, toClient, participants, modes, deaf, stale>>
        /\ UNCHANGED <<letter, taken, misled>>
    BY <1>4 DEF vars, server, client, ghosts
  <2>2. RankTypes'
    BY <2>1 DEF RInv, RankTypes
  <2>3. \A c, x : Lost(toClient, c, x)' <=> Lost(toClient, c, x)
    BY <2>1 DEF Lost, TakesAway
  <2>4. Sound'
    BY <2>1, <2>3 DEF RInv, Sound, Unsure
  <2>5. RankMail'
    <3>1. /\ \A c, m : Reading(c, m) => Reading(c, m)'
          /\ \A c, m : RankedNames(c, m) => RankedNames(c, m)'
          /\ NoLetter => NoLetter'
      BY <2>1 DEF Reading, Within, Gives, RankedNames, NoLetter
    <3>2. RankMail /\ toClient' = toClient
      BY <2>1 DEF RInv
    <3> QED
      BY <3>1, <3>2, Zenon DEF RankMail
  <2> QED
    BY <2>2, <2>4, <2>5 DEF RInv
<1> QED
  BY <1>1, <1>2, <1>3, <1>4 DEF Next

LEMMA RankInvariance == Spec => [](IInv /\ RInv)
<1>1. IInv /\ RInv /\ [Next]_vars => RInv'
  BY RankNext
<1> QED
  BY Invariance, RankInit, <1>1, PTL DEF Spec

\* The types of what an IrcClient holds: in particular that no channel holds
\* participants the client is not in, or modes of somebody it does not list.
THEOREM ChannelTyped == Spec => []TypeOK
<1>1. IInv /\ RInv => TypeOK
  <2> SUFFICES ASSUME IInv, RInv PROVE TypeOK
    OBVIOUS
  <2>1. Len(toClient) <= 2
    <3>1. \/ toClient = <<>> \/ \E m : toClient = <<m>>
          \/ \E m, l : toClient = <<m, l>>
      BY DEF RInv, RankMail
    <3>2. /\ Len(<<>>) <= 2 /\ \A m : Len(<<m>>) <= 2
          /\ \A m, l : Len(<<m, l>>) <= 2
      OBVIOUS
    <3> QED
      BY <3>1, <3>2
  <2> QED
    BY <2>1 DEF IInv, Types, Empty, RInv, RankTypes, TypeOK
<1> QED
  BY RankInvariance, <1>1, PTL

\* When an IrcClient has processed every message and procMessage has not thrown,
\* nobody has a mode in its eyes that is not the server's, but for those of whom
\* a message was not handled, and those named in a MODE in which a letter it does
\* not know to have a parameter, or takes for one that has, comes before the mode
\* of a participant.  However many letters another MODE has, and whatever their
\* parameters, each participant gets the mode that is meant for him.
THEOREM ModesCorrect == Spec => []ModesSound
<1>1. IInv /\ RInv => ModesSound
  <2> SUFFICES ASSUME IInv, RInv, UpToDate, NEW c \in channels,
                      NEW n \in Nicks \ Unsure(c), NEW x \in modes[c] \intersect Of(n)
               PROVE  x \in ranks[c]
    BY DEF ModesSound, Unsure
  <2>1. c \in Channels /\ toClient = <<>> /\ ~deaf
    BY DEF IInv, Types, UpToDate
  <2>2. x[1] = n
    BY DEF Of
  <2> QED
    BY <2>1, <2>2, Held
<1> QED
  BY RankInvariance, <1>1, PTL
=============================================================================
