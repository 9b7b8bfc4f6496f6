------------------------------ MODULE IrcParser ------------------------------
(***************************************************************************)
(* IrcParser.cpp: lines and messages out of the bytes of an IRC server,    *)
(* one at a time, so that a read may end at any of them; and the text that *)
(* IrcClient.cpp makes of a message (encodeMessage).                       *)
(*                                                                         *)
(* Of the characters it matters whether they end a line, separate words,   *)
(* begin a prefix or trailing parameter, or may be part of a command: a    *)
(* letter "a" or a digit "1".                                              *)
(*                                                                         *)
(* An operator Mut<Name> has a bug a change of the code could introduce;   *)
(* Next does not use it.                                                   *)
(***************************************************************************)
EXTENDS Naturals, FiniteSets, SequencesExt

CONSTANTS
    BufferSizeThreshold,    \* 4096
    MaxParams,              \* 15
    MaxInput                \* bound: characters the server sends

ASSUME ParserAssumption ==
    BufferSizeThreshold \in Nat /\ MaxParams \in Nat \ {0} /\ MaxInput \in Nat

Newlines == {"CR", "LF"}
Chars == Newlines \union {" ", ":", "a", "1"}

Space == <<" ">>
Colon == <<":">>

VARIABLES
    input,          \* what the server has sent
    state,          \* state_
    buffer,         \* buffer_
    delivered,      \* messages called back
    failed          \* parse has returned false: handleRead closes the connection

vars == <<input, state, buffer, delivered, failed>>

Messages == [prefix : Seq(Chars), command : Seq(Chars), params : Seq(Seq(Chars))]

\* In a line, and nowhere else, there is something in the buffer, except when
\* the line before ended with a LF alone.
TypeOK ==
    /\ input \in Seq(Chars)
    /\ state \in {"None", "InLine", "WaitLf", "Error"}
    /\ buffer \in Seq(Chars \ Newlines)
    /\ Len(buffer) <= BufferSizeThreshold + 1
    /\ state \in {"None", "WaitLf"} => buffer = <<>>
    /\ delivered \in Seq(Messages)
    /\ failed \in BOOLEAN

Init ==
    /\ input = <<>>
    /\ state = "None" /\ buffer = <<>>
    /\ delivered = <<>> /\ failed = FALSE

-----------------------------------------------------------------------------
(* A line: parseMessage *)

\* split at every space: n spaces make n + 1 words, which may be empty.
Split(words, ch) ==
    IF ch = " " THEN Append(words, <<>>)
                ELSE Append(Front(words), Append(Last(words), ch))

Words(line) ==
    LET words[i \in 0..Len(line)] ==
          IF i = 0 THEN <<<<>>>> ELSE Split(words[i - 1], line[i])
    IN  words[Len(line)]

\* CommandRegex: letters, or three digits.
IsCommand(word) ==
    \/ word # <<>> /\ \A i \in 1..Len(word) : word[i] = "a"
    \/ word = <<"1", "1", "1">>

Message(prefix, command, params) ==
    [prefix |-> prefix, command |-> command, params |-> params]

Begin == [at |-> "None", message |-> Message(<<>>, <<>>, <<>>)]
Bad == [Begin EXCEPT !.at = "Bad"]

\* A word of the line after what p has of it: a prefix, the command, a
\* parameter, or a part of the trailing parameter.
Prefix(word) ==
    IF Tail(word) = <<>> THEN Bad
    ELSE [at |-> "WaitCommand", message |-> Message(Tail(word), <<>>, <<>>)]

Command(p, word) ==
    [at |-> "InParam", message |-> [p.message EXCEPT !.command = word]]

Param(p, word) ==
    LET colon == Head(word) = ":"
        params == Append(p.message.params, IF colon THEN Tail(word) ELSE word)
    IN  [at |-> IF colon \/ Len(params) >= MaxParams THEN "InTrailing" ELSE "InParam",
         message |-> [p.message EXCEPT !.params = params]]

Trailing(p, word) ==
    [p EXCEPT !.message.params[Len(p.message.params)] = @ \o Space \o word]

MutParseWord(p, word) ==
    IF p.at = "Bad" \/ word = <<>> THEN Bad
    ELSE CASE p.at = "None" /\ Head(word) = ":" -> Prefix(word)
           [] p.at = "None" /\ Head(word) # ":" -> Command(p, word)
           [] p.at = "WaitCommand" -> Command(p, word)
           [] p.at = "InParam" -> Param(p, word)
           [] p.at = "InTrailing" -> Trailing(p, word)
ParseWord(p, word) ==
    IF p.at = "Bad" \/ (p.at # "InTrailing" /\ word = <<>>) THEN Bad
    ELSE CASE p.at = "None" /\ Head(word) = ":" -> Prefix(word)
           [] p.at = "None" /\ Head(word) # ":" -> Command(p, word)
           [] p.at = "WaitCommand" -> Command(p, word)
           [] p.at = "InParam" -> Param(p, word)
           [] p.at = "InTrailing" -> Trailing(p, word)

Parsed(words) ==
    LET p[i \in 0..Len(words)] ==
          IF i = 0 THEN Begin ELSE ParseWord(p[i - 1], words[i])
    IN  p[Len(words)]

\* The messages of a line: one, or none if the line is wrong.
parseMessage(line) ==
    LET p == Parsed(Words(line))
    IN  IF p.at # "Bad" /\ IsCommand(p.message.command) THEN <<p.message>> ELSE <<>>

-----------------------------------------------------------------------------
(* The characters: parse *)

Fail == failed' = TRUE /\ UNCHANGED <<buffer, delivered>>

\* append(ch); without room, it is in the buffer and parse returns false.
AppendChar(ch) ==
    /\ buffer' = Append(buffer, ch)
    /\ failed' = (Len(buffer') > BufferSizeThreshold)
    /\ UNCHANGED delivered

\* Nothing sets the state "Error" when a line in progress becomes too long.
None(ch) ==
    /\ state = "None"
    /\ IF ch \in Newlines
       THEN state' = "Error" /\ Fail
       ELSE AppendChar(ch) /\ state' = IF failed' THEN "Error" ELSE "InLine"

\* buffer_ is moved from when the message is parsed, and then cleared.
EndLine(ch) ==
    LET messages == parseMessage(buffer)
    IN  /\ buffer' = <<>>
        /\ delivered' = delivered \o messages
        /\ failed' = (messages = <<>>)
        /\ state' = CASE messages = <<>> -> "Error"
                      [] messages # <<>> /\ ch = "CR" -> "WaitLf"
                      [] messages # <<>> /\ ch = "LF" -> state

InLine(ch) ==
    /\ state = "InLine"
    /\ IF ch \in Newlines THEN EndLine(ch) ELSE AppendChar(ch) /\ UNCHANGED state

MutWaitLf(ch) ==
    /\ state = "WaitLf"
    /\ IF ch = "LF"
       THEN state' = "None" /\ UNCHANGED <<buffer, delivered, failed>>
       ELSE AppendChar(ch) /\ state' = "InLine"
WaitLf(ch) ==
    /\ state = "WaitLf"
    /\ IF ch = "LF"
       THEN state' = "None" /\ UNCHANGED <<buffer, delivered, failed>>
       ELSE state' = "Error" /\ Fail

Receive(ch) ==
    /\ ~failed /\ Len(input) < MaxInput
    /\ input' = Append(input, ch)
    /\ None(ch) \/ InLine(ch) \/ WaitLf(ch)

\* The server has sent everything, or the connection is closed.
Rest ==
    /\ failed \/ Len(input) = MaxInput
    /\ UNCHANGED vars

Next == (\E ch \in Chars : Receive(ch)) \/ Rest

Spec == Init /\ [][Next]_vars

-----------------------------------------------------------------------------
(* The text of a message: encodeMessage *)

\* Parameters, with a space before each.
Spaced(params) ==
    LET text[i \in 0..Len(params)] ==
          IF i = 0 THEN <<>> ELSE text[i - 1] \o Space \o params[i]
    IN  text[Len(params)]

PrefixText(m) == IF m.prefix = <<>> THEN <<>> ELSE Colon \o m.prefix \o Space

\* All but the last parameter.
MiddleText(m) == Spaced(Front(m.params))

MutEncodeMessage(m) ==
    PrefixText(m) \o m.command \o MiddleText(m)
        \o IF m.params = <<>> THEN <<>> ELSE Space \o Last(m.params)
encodeMessage(m) ==
    PrefixText(m) \o m.command \o MiddleText(m)
        \o IF m.params = <<>> THEN <<>> ELSE Space \o Colon \o Last(m.params)

-----------------------------------------------------------------------------
(* Properties *)

\* Where the lines of what has been sent end: at a CR, or at a LF that does not
\* belong to one.
LineEnds(sent) ==
    {i \in 1..Len(sent) : \/ sent[i] = "CR"
                          \/ sent[i] = "LF" /\ (i = 1 \/ sent[i - 1] # "CR")}

\* A line begins after the end of the one before, and after the LF that goes
\* with it.
After(sent, e) ==
    IF e < Len(sent) /\ sent[e] = "CR" /\ sent[e + 1] = "LF" THEN e + 2 ELSE e + 1

\* The place of the k-th end, in a set.
Ends(sent, k) ==
    {e \in LineEnds(sent) : Cardinality({d \in LineEnds(sent) : d <= e}) = k}

End(sent, k) == CHOOSE e \in Ends(sent, k) : TRUE

Start(sent, k) == IF k = 1 THEN 1 ELSE After(sent, End(sent, k - 1))

Lines(sent) == [k \in 1..Cardinality(LineEnds(sent)) |->
                   SubSeq(sent, Start(sent, k), End(sent, k) - 1)]

\* The line that is not complete yet.
Unfinished(sent) ==
    SubSeq(sent, Start(sent, Cardinality(LineEnds(sent)) + 1), Len(sent))

IsMiddle(word) == word # <<>> /\ Head(word) # ":" /\ ~Contains(word, " ")

WellFormed(m) ==
    /\ IsCommand(m.command)
    /\ ~Contains(m.prefix, " ")
    /\ Len(m.params) <= MaxParams
    /\ \A i \in 1..(Len(m.params) - 1) : IsMiddle(m.params[i])

\* The ways to write a message: the last parameter needs no colon if it is a
\* word, or if there are so many that it is the rest of the line.
Spellings(m) ==
    {encodeMessage(m)} \union
    LET last == Last(m.params)
        rest == Len(m.params) = MaxParams /\ last # <<>> /\ Head(last) \notin {":", " "}
    IN  IF m.params # <<>> /\ (IsMiddle(last) \/ rest)
        THEN {PrefixText(m) \o m.command \o MiddleText(m) \o Space \o last}
        ELSE {}

\* However the input is cut, the messages called back are those of its lines,
\* one each and in order: each is well-formed, and its line is a way to write
\* it, which says everything of it.
LinesAreMessages ==
    /\ ~failed => Len(delivered) = Len(Lines(input))
    /\ Len(delivered) <= Len(Lines(input))
    /\ \A i \in 1..Len(delivered) :
         WellFormed(delivered[i]) /\ Lines(input)[i] \in Spellings(delivered[i])

\* A command, perhaps after a prefix, and no empty word before the trailing
\* parameter.
IsMessageLine(line) ==
    LET words == Words(line)
        colon(k) == words[k] # <<>> /\ Head(words[k]) = ":"
        c == IF colon(1) THEN 2 ELSE 1
    IN  /\ Len(words) >= c /\ IsCommand(words[c])
        /\ c = 2 => words[1] # Colon
        /\ \A j \in (c + 1)..Len(words) :
             \/ words[j] # <<>>
             \/ j > c + MaxParams
             \/ \E k \in (c + 1)..(j - 1) : colon(k)

\* The parser gives up only on a line that is no message, on a CR without its
\* LF, or on a line that is too long.
OnlyBadInputFails ==
    failed =>
        \/ \E i \in 1..Len(Lines(input)) : ~IsMessageLine(Lines(input)[i])
        \/ \E i \in 1..(Len(input) - 1) : input[i] = "CR" /\ input[i + 1] # "LF"
        \/ Len(Unfinished(input)) > BufferSizeThreshold

\* What the client writes back of a message it has read (a PONG has the
\* parameters of its PING) is read as the same message.
EncodingReadBack ==
    \A i \in 1..Len(delivered) :
        parseMessage(encodeMessage(delivered[i])) = <<delivered[i]>>
==============================================================================
