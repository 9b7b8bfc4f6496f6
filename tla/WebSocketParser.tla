-------------------------- MODULE WebSocketParser --------------------------
(***************************************************************************)
(* WebSocketParser.cpp: what parse() makes of the bytes of a web socket's  *)
(* client, one at a time, so that a read may end at any of them.  Of a     *)
(* frame it matters how long its parts are and which they are; of its      *)
(* payload, which part of a JSON request it is.                            *)
(*                                                                         *)
(* The client is external: it sends any sequence of frames.  What is read  *)
(* of a frame is read from the frame the client is sending, which is the   *)
(* one the parser is in as long as InSync holds.  What a payload reads as  *)
(* depends on the key it is decoded with, its own or any other.            *)
(* ParseInsitu rewrites the strings of a text it cannot parse; such a text *)
(* is taken to be no JSON the next time either.                            *)
(*                                                                         *)
(* parse begins with a check for the state "error", which it never sets.   *)
(* An operator Mut<Name> has a bug a change of the code could introduce;   *)
(* Next does not use it.                                                   *)
(***************************************************************************)
EXTENDS Integers, Sequences

CONSTANTS
    Keys,           \* masking keys
    Zeros,          \* the key of four zeros, which changes nothing
    Frames,         \* the frames the client may send
    MaxFrames       \* bound: how many it sends

\* "text" stands for every opcode without the bit of control frames, "reserved"
\* for a control opcode without a meaning.
Control == {"close", "ping", "pong", "reserved"}
Opcodes == Control \union {"text"}

\* A payload reads as a request, the first or second half of one, some other
\* JSON, or no JSON; what an empty one reads as does not matter.
Parts == {"request", "half1", "half2", "otherJson", "junk"}

\* A length below 126 is in the header, a longer one in the 2 or 8 bytes that
\* follow it (here, also a length that is not longer).  as is what the payload
\* reads as, decoded with each key.
Frame == [fin : BOOLEAN, opcode : Opcodes, ext : {0, 2, 8}, masked : BOOLEAN,
          key : Keys, size : Nat, as : [Keys -> Parts]]

ASSUME FrameAssumption ==
    Zeros \in Keys /\ Frames \subseteq Frame /\ MaxFrames \in Nat

VARIABLES
    received,       \* the frames of the client, the last one in progress
    pos,            \* bytes of the last one that have been parsed
    state,          \* state_
    buffered,       \* buffer_.size()
    header,         \* finalFragment_, opcode_, masked_, payloadLen1_: the frame
    payloadLen,     \* payloadLen_
    maskingKey,     \* maskingKey_
    totalPayload,   \* totalPayload_: pieces, and NULs
    delivered,      \* the requests called back
    rejected,       \* parseFrame or parseEmptyFrame has returned false
    crashed         \* the process, or its thread by an exception, has ended

parser == <<state, buffered, header, payloadLen, maskingKey>>
outcome == <<totalPayload, delivered, rejected, crashed>>
vars == <<received, pos, parser, outcome>>

Bytes(f) == 2 + f.ext + (IF f.masked THEN 4 ELSE 0) + f.size
Current == received[Len(received)]

\* A piece of text is the payload of a frame, decoded with a key, or a NUL.
Nul == <<0, Zeros>>

\* The parser is in the header or the payload of a frame, and the text it keeps
\* is of frames it has received.
TypeOK ==
    /\ received \in Seq(Frames) /\ pos \in Nat
    /\ state \in {"header", "payload", "error"}
    /\ buffered \in Nat
    /\ state = "header" => buffered <= 13
    /\ state = "payload" => buffered < payloadLen
    /\ header \in Frames \union {<<>>}
    /\ payloadLen \in Nat /\ maskingKey \in Keys
    /\ totalPayload \in Seq((0..Len(received)) \X Keys)
    /\ rejected \in BOOLEAN /\ crashed \in BOOLEAN

Init ==
    /\ received = <<>> /\ pos = 0
    /\ state = "header" /\ buffered = 0
    /\ header = <<>> /\ payloadLen = 0 /\ maskingKey = Zeros
    /\ totalPayload = <<>>
    /\ delivered = <<>> /\ rejected = FALSE /\ crashed = FALSE

-----------------------------------------------------------------------------
\* A request called back: a Close or Ping, or a message, of these pieces.
Request(command, pieces) == [command |-> command, pieces |-> pieces]

\* The payload of the frame in progress, decoded with the key k if it is masked.
Piece(f, k) == <<Len(received), IF f.masked THEN k ELSE Zeros>>

\* What ParseInsitu reads: the text before the first NUL.
Text(s) == LET nuls == {i \in 1..Len(s) : s[i] = Nul}
           IN  SubSeq(s, 1, (CHOOSE i \in nuls : \A j \in nuls : i <= j) - 1)

PartsOf(s) == [i \in 1..Len(s) |-> received[s[i][1]].as[s[i][2]]]
IsRequest(s) == PartsOf(s) \in {<<"request">>, <<"half1", "half2">>}
IsJson(s) == IsRequest(s) \/ PartsOf(s) = <<"otherJson">>

\* A frame ends: the parser calls back the requests in cb, rejects it, and keeps
\* payload as totalPayload_.
Ends(cb, reject, payload) ==
    /\ delivered' = delivered \o cb
    /\ rejected' = (rejected \/ reject)
    /\ totalPayload' = payload
    /\ UNCHANGED crashed

Crashes ==
    /\ crashed' = TRUE
    /\ UNCHANGED <<delivered, rejected, totalPayload>>

\* parsePayload, and the clear() that follows unless it fails.  JSON without an
\* integer _reqid and a string _method fails the assert of RapidJSON in
\* operator[], GetInt or GetString, which ends the process.  With NDEBUG it is
\* undefined: the program ends too, throws, or goes on with what it read there.
Payload(payload) ==
    LET t == Append(payload, Nul)
        text == Text(t)
    IN  \/ IsJson(text) /\ Ends(<<Request("message", text)>>, FALSE, <<>>)
        \/ IsJson(text) /\ ~IsRequest(text) /\ Crashes
        \/ ~IsJson(text) /\ Ends(<<>>, TRUE, t)

MutFragmentedClose(f) ==
    IF f.opcode \in Control
    THEN IF f.opcode = "close"
         THEN Ends(<<Request("close", <<>>)>>, FALSE, totalPayload)
         ELSE Ends(<<>>, ~f.fin \/ f.opcode \in {"ping", "pong"}, totalPayload)
    ELSE IF f.fin THEN Payload(totalPayload)
                  ELSE Ends(<<>>, FALSE, totalPayload)
MutEmptyEnd(f) ==
    IF f.opcode \in Control
    THEN IF f.fin /\ f.opcode = "close"
         THEN Ends(<<Request("close", <<>>)>>, FALSE, totalPayload)
         ELSE Ends(<<>>, ~f.fin \/ f.opcode \in {"ping", "pong"}, totalPayload)
    ELSE Ends(<<>>, FALSE, totalPayload)
parseEmptyFrame(f) ==
    IF f.opcode \in Control
    THEN IF f.fin /\ f.opcode = "close"
         THEN Ends(<<Request("close", <<>>)>>, FALSE, totalPayload)
         ELSE Ends(<<>>, ~f.fin \/ f.opcode \in {"ping", "pong"}, totalPayload)
    ELSE IF f.fin THEN Payload(totalPayload)
                  ELSE Ends(<<>>, FALSE, totalPayload)

MutParseFrame(f) ==
    LET piece == Piece(f, maskingKey)
        all == Append(totalPayload, piece)
    IN  IF f.opcode \in Control
        THEN IF f.fin /\ (f.opcode = "close" \/ (f.opcode = "ping" /\ f.masked))
             THEN Ends(<<Request(f.opcode, <<piece>>)>>, FALSE, <<>>)
             ELSE Ends(<<>>, ~f.fin \/ f.opcode = "ping", totalPayload)
        ELSE IF f.fin THEN Payload(all) ELSE Ends(<<>>, FALSE, all)
parseFrame(f) ==
    LET piece == Piece(f, maskingKey)
        all == Append(totalPayload, piece)
    IN  IF f.opcode \in Control
        THEN IF f.fin /\ (f.opcode = "close" \/ (f.opcode = "ping" /\ f.masked))
             THEN Ends(<<Request(f.opcode, <<piece>>)>>, FALSE, totalPayload)
             ELSE Ends(<<>>, ~f.fin \/ f.opcode = "ping", totalPayload)
        ELSE IF f.fin THEN Payload(all) ELSE Ends(<<>>, FALSE, all)

\* parse ignores what parseFrame and parseEmptyFrame return.
FrameEnds(f) ==
    /\ state' = "header" /\ buffered' = 0
    /\ IF payloadLen' = 0 THEN parseEmptyFrame(f) ELSE parseFrame(f)

MutPayloadBegins ==
    /\ state' = "payload" /\ buffered' = buffered + 1
    /\ UNCHANGED outcome
PayloadBegins ==
    /\ state' = "payload" /\ buffered' = 0
    /\ UNCHANGED outcome

KeepsBuffering ==
    /\ buffered' = buffered + 1
    /\ UNCHANGED <<state, outcome>>

HeaderEnds(f) == IF payloadLen' = 0 THEN FrameEnds(f) ELSE PayloadBegins

-----------------------------------------------------------------------------
\* The client begins a frame.
Send(f) ==
    /\ ~crashed /\ Len(received) < MaxFrames
    /\ received # <<>> => pos = Bytes(Current)
    /\ received' = Append(received, f)
    /\ pos' = 0
    /\ UNCHANGED <<parser, outcome>>

Next1 ==
    /\ ~crashed
    /\ received # <<>> /\ pos < Bytes(Current)
    /\ pos' = pos + 1
    /\ UNCHANGED received

\* One of the first two bytes.  The second completes the header; a frame with
\* nothing between header and payload goes on from there.
HeaderByte ==
    /\ Next1 /\ state = "header" /\ buffered < 2
    /\ header' = IF buffered = 1 THEN Current ELSE header
    /\ payloadLen' = IF buffered = 1 /\ Current.ext = 0 THEN Current.size
                                                        ELSE payloadLen
    /\ maskingKey' = maskingKey
    /\ IF buffered = 1 /\ Current.ext = 0 /\ ~Current.masked
       THEN HeaderEnds(Current)
       ELSE KeepsBuffering

\* The rest of what comes before the payload: waitFor bytes in all.  A key that
\* follows the header directly is not copied (the condition of line 179).
MutWaitFor(f) == 2 + f.ext + (IF f.masked /\ f.ext = 0 THEN 4 ELSE 0)
WaitFor(f) == 2 + f.ext + (IF f.masked THEN 4 ELSE 0)
ExtendedByte ==
    /\ Next1 /\ state = "header" /\ buffered >= 2
    /\ header' = header
    /\ IF buffered + 1 = WaitFor(header)
       THEN /\ payloadLen' = IF header.ext = 0 THEN payloadLen ELSE header.size
            /\ maskingKey' = IF header.ext # 0 /\ header.masked THEN header.key
                                                                ELSE maskingKey
            /\ HeaderEnds(header)
       ELSE /\ UNCHANGED <<payloadLen, maskingKey>>
            /\ KeepsBuffering

PayloadByte ==
    /\ Next1 /\ state = "payload"
    /\ UNCHANGED <<header, payloadLen, maskingKey>>
    /\ IF buffered + 1 = payloadLen THEN FrameEnds(header) ELSE KeepsBuffering

\* The client has sent its last frame, or the process has ended.
Rest ==
    /\ crashed \/ (Len(received) = MaxFrames /\ pos = Bytes(Current))
    /\ UNCHANGED vars

Next ==
    \/ \E f \in Frames : Send(f)
    \/ HeaderByte
    \/ ExtendedByte
    \/ PayloadByte
    \/ Rest

Spec == Init /\ [][Next]_vars

-----------------------------------------------------------------------------
(* Properties *)

\* How many frames have been parsed to their end.
Parsed == IF received = <<>> THEN 0
          ELSE IF pos = Bytes(Current) THEN Len(received) ELSE Len(received) - 1

\* The parser is at the beginning of a frame when the client is, and only
\* then: a length, an extended length or a key that is counted wrong would make
\* it take payload for a header.
InSync ==
    state = "header" /\ buffered = 0
        <=> received = <<>> \/ pos \in {0, Bytes(Current)}

Accepted(f) ==
    /\ f.fin
    /\ f.opcode = "close" \/ (f.opcode = "ping" /\ f.masked /\ f.size > 0)

\* What a client means by its frames: a Close or Ping stands for itself, even
\* between the fragments of a message, and a message is its fragments up to the
\* final one, whatever is in them.  was is what frame i finds: the fragments of
\* a message that is not complete, and the requests made.
Means(was, i) ==
    LET f == received[i]
        all == was.open \o IF f.size > 0 THEN <<i>> ELSE <<>>
    IN  CASE f.opcode \in Control /\ Accepted(f) ->
               [was EXCEPT !.requests = Append(@, Request(f.opcode, <<>>))]
          [] f.opcode \in Control /\ ~Accepted(f) -> was
          [] f.opcode \notin Control /\ ~f.fin -> [was EXCEPT !.open = all]
          [] f.opcode \notin Control /\ f.fin ->
               [open |-> <<>>,
                requests |-> Append(was.requests, Request("message", all))]

NothingMeant == [open |-> <<>>, requests |-> <<>>]

\* What the first n frames mean.
Meaning(n) ==
    LET m[i \in 0..n] == IF i = 0 THEN NothingMeant ELSE Means(m[i - 1], i)
    IN  m[n]

Reference == Meaning(Parsed).requests

IsMessage(r) == r.command = "message"
IsControl(r) == r.command # "message"

\* The requests called back: a message by its frames, a Close or Ping without
\* its payload.
FramesOf(pieces) == [i \in 1..Len(pieces) |-> pieces[i][1]]
Called == [i \in 1..Len(delivered) |->
             Request(delivered[i].command,
                     IF IsMessage(delivered[i]) THEN FramesOf(delivered[i].pieces)
                                                ELSE <<>>)]

\* SelectSeq(s, IsControl), as a function that a proof can unfold.
Controls(s) ==
    LET c[i \in 0..Len(s)] ==
          IF i = 0 THEN <<>>
          ELSE IF IsControl(s[i]) THEN Append(c[i - 1], s[i]) ELSE c[i - 1]
    IN  c[Len(s)]

\* The Close and Ping frames called back are those the client sent and the
\* parser accepts, each once and in order, whatever fragments, unparsable text
\* or rejected frames are in between.
ControlAnswered == Controls(Called) = Controls(Reference)

\* A piece of text with an extended length, or not masked, was decoded with its
\* own key.
RightKey(p) ==
    LET f == received[p[1]]
    IN  f.ext # 0 \/ ~f.masked => p[2] = IF f.masked THEN f.key ELSE Zeros

\* A message called back is one the client sent, of all its fragments in order,
\* also after frames that were rejected.  Its fragments with an extended length
\* were decoded with their own keys, those that are not masked with none; what
\* a short masked one was decoded with is not said: its own key is not copied,
\* and the one kept is of an earlier frame, or zeros (179).
MessagesWhole ==
    \A i \in 1..Len(delivered) : IsMessage(delivered[i]) =>
        /\ \E j \in 1..Len(Reference) : Reference[j] = Called[i]
        /\ \A k \in 1..Len(delivered[i].pieces) : RightKey(delivered[i].pieces[k])

\* totalPayload_ still holds a text that was no JSON: parsePayload leaves it
\* there, with a NUL behind which everything later is appended.
Stuck == \E i \in 1..Len(totalPayload) : totalPayload[i] = Nul

\* Until a text is no JSON as it is decoded, or ends the process, every request
\* is called back, in order and once, and nothing else: rejected control frames
\* lose none.
AllDelivered == crashed \/ Stuck \/ Called = Reference

\* "cannot be fragmented", "must have payload", "ping payload must be masked"
\* (WebSocketParser.cpp 220, 232, 283): a frame that breaks such a rule is an
\* error, after which parse returns false (102) and the connection is closed.
RulesEnforced == rejected => state = "error"
=============================================================================
