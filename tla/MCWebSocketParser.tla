-------------------------- MODULE MCWebSocketParser --------------------------
(***************************************************************************)
(* Frames for TLC: text in all parts, final or not, masked or not, with    *)
(* and without an extended length, reading as different parts with         *)
(* different keys; control frames in the header's length.                  *)
(***************************************************************************)
EXTENDS WebSocketParser

CONSTANT TextSize

Fields(fin, opcode, ext, masked, key, size, as) ==
    [fin |-> fin, opcode |-> opcode, ext |-> ext, masked |-> masked, key |-> key,
     size |-> size, as |-> as]

Always(part) == [k \in Keys |-> part]
Reads(own, key, otherwise) == [k \in Keys |-> IF k = key THEN own ELSE otherwise]

\* Not masked.
PlainTexts ==
    {Fields(fin, "text", ext, FALSE, Zeros, TextSize, Always(part)) :
        fin \in BOOLEAN, ext \in {0, 2}, part \in Parts \ {"otherJson"}}
    \union {Fields(TRUE, "text", 0, FALSE, Zeros, TextSize, Always("otherJson"))}

\* Masked, with an extended length: no JSON but with its own key.
LongTexts ==
    {Fields(fin, "text", 2, TRUE, 1, TextSize, Reads(part, 1, "junk")) :
        fin \in BOOLEAN, part \in {"request", "half1", "half2"}}
    \union {Fields(TRUE, "text", 8, TRUE, 2, TextSize, Reads(part, 2, "junk")) :
              part \in {"request", "half2"}}

\* Masked and short: any part with its own key, and any with another.
ShortTexts ==
    {Fields(fin, "text", 0, TRUE, 1, TextSize, Reads(parts[1], 1, parts[2])) :
        fin \in BOOLEAN,
        parts \in {<<"request", "junk">>, <<"junk", "request">>, <<"half1", "half2">>,
                   <<"half2", "half1">>, <<"request", "otherJson">>}}

EmptyTexts ==
    {Fields(fin, "text", ext, masked, Zeros, 0, Always("junk")) :
        fin \in BOOLEAN, ext \in {0, 8}, masked \in BOOLEAN}

ControlFrames ==
    {Fields(fin, opcode, 0, masked, Zeros, size, Always("junk")) :
        fin \in BOOLEAN, opcode \in {"close", "ping"}, masked \in BOOLEAN, size \in {0, 1}}
    \union {Fields(TRUE, opcode, 0, FALSE, Zeros, size, Always("junk")) :
              opcode \in {"pong", "reserved"}, size \in {0, 1}}

MCFrames == PlainTexts \union LongTexts \union ShortTexts \union EmptyTexts \union ControlFrames
==============================================================================
