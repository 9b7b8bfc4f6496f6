---------------------- MODULE WebSocketConnectionProofs ----------------------
(***************************************************************************)
(* A WebSocket connection sends one Close frame and does not hang up on a  *)
(* client that has not asked for it, for every number and size of chunks;  *)
(* it sends at most one frame for a request, and its timer expires once.   *)
(***************************************************************************)
EXTENDS WebSocketConnection, SequenceTheorems, TLAPS

AnyFrames == [kind : FrameKinds, number : Nat]

\* What handleRead can have left to execute of one request.
Closes == {<<"closeReady", "sendClose", "arm">>, <<"sendClose", "arm">>, <<"arm">>,
           <<"cancel", "closeSocket">>, <<"closeSocket">>}
Lists == {<<>>, <<"pong">>, <<"segfault">>} \union Closes

\* The Close frames the writer has accepted.
CloseFrames == {f \in AnyFrames : f.kind = "Close" /\ (W!In(f, queue) \/ W!In(f, wire))}

Types ==
    /\ queue \in Seq(AnyFrames) /\ wire \in Seq(AnyFrames)
    /\ chunk \in Seq(Requests) /\ todo \in Lists
    /\ expired \in Nat /\ closing \in Nat

\* closeReady_ is set before the Close frame is submitted, and never again.
SentOnce ==
    /\ ~closeReady \/ todo = <<"sendClose", "arm">> => CloseFrames = {}
    /\ todo = <<"closeReady", "sendClose", "arm">> => ~closeReady
    /\ todo = <<"sendClose", "arm">> => closeReady
    /\ \A f, g \in CloseFrames : f = g

\* Nothing closes the connection before the client has sent a Close frame.
Asked == closeReady \/ armed \/ expired > 0 \/ todo \in Closes => closeReceived

\* What failed, and what closes, has its cause in the client, or the socket is
\* closed.
Failed ==
    /\ \A o \in owed : o.ec = "err" => Cause \/ ~open
    /\ closing > 0 => Cause \/ ~open

IInv == Types /\ SentOnce /\ Asked /\ Failed

-----------------------------------------------------------------------------
(* The lists of statements *)

LEMMA ListFacts ==
    /\ Head(<<"pong">>) = "pong" /\ Tail(<<"pong">>) = <<>>
    /\ Head(<<"segfault">>) = "segfault" /\ Tail(<<"segfault">>) = <<>>
    /\ Head(<<"closeReady", "sendClose", "arm">>) = "closeReady"
    /\ Tail(<<"closeReady", "sendClose", "arm">>) = <<"sendClose", "arm">>
    /\ Head(<<"sendClose", "arm">>) = "sendClose"
    /\ Tail(<<"sendClose", "arm">>) = <<"arm">>
    /\ Head(<<"arm">>) = "arm" /\ Tail(<<"arm">>) = <<>>
    /\ Head(<<"cancel", "closeSocket">>) = "cancel"
    /\ Tail(<<"cancel", "closeSocket">>) = <<"closeSocket">>
    /\ Head(<<"closeSocket">>) = "closeSocket" /\ Tail(<<"closeSocket">>) = <<>>
    /\ <<"pong">> # <<>> /\ <<"segfault">> # <<>> /\ <<>> \notin Closes
    /\ <<"closeReady", "sendClose", "arm">> \notin {<<"sendClose", "arm">>, <<"arm">>}
    /\ <<"sendClose", "arm">> # <<"arm">>
    /\ <<"pong">> \notin Closes /\ <<"segfault">> \notin Closes
    /\ {<<"cancel", "closeSocket">>, <<"closeSocket">>} \intersect
         {<<"closeReady", "sendClose", "arm">>, <<"sendClose", "arm">>} = {}
  BY DEF Closes

\* Executing a statement.
LEMMA DoFacts ==
    ASSUME Types, NEW s, Do(s)
    PROVE  /\ todo' \in Lists
           /\ todo' \in Closes => todo \in Closes
           /\ s \in {"closeReady", "sendClose", "arm", "cancel", "closeSocket"}
                => todo \in Closes
           /\ s = "closeReady" <=> todo = <<"closeReady", "sendClose", "arm">>
           /\ s = "sendClose" <=> todo = <<"sendClose", "arm">>
           /\ s = "closeReady" <=> todo' = <<"sendClose", "arm">>
           /\ todo' # <<"closeReady", "sendClose", "arm">>
<1> USE DEF Types, Lists, Closes, Do
<1>1. CASE todo = <<"pong">>
  BY <1>1, ListFacts
<1>2. CASE todo = <<"segfault">>
  BY <1>2, ListFacts
<1>3. CASE todo = <<"closeReady", "sendClose", "arm">>
  BY <1>3, ListFacts
<1>4. CASE todo = <<"sendClose", "arm">>
  BY <1>4, ListFacts
<1>5. CASE todo = <<"arm">>
  BY <1>5, ListFacts
<1>6. CASE todo = <<"cancel", "closeSocket">>
  BY <1>6, ListFacts
<1>7. CASE todo = <<"closeSocket">>
  BY <1>7, ListFacts
<1> QED
  BY <1>1, <1>2, <1>3, <1>4, <1>5, <1>6, <1>7

-----------------------------------------------------------------------------
(* The writer *)

\* A frame is accepted.
LEMMA SubmitFacts ==
    ASSUME Types, NEW f \in AnyFrames, W!Submit(f)
    PROVE  /\ queue' \in Seq(AnyFrames) /\ wire' = wire
           /\ CloseFrames' = CloseFrames \union (IF f.kind = "Close" THEN {f} ELSE {})
<1>1. queue' = Append(queue, f) /\ wire' = wire
  BY DEF W!Submit
<1>2. /\ queue' \in Seq(AnyFrames) /\ Len(queue') = Len(queue) + 1
      /\ Len(queue) \in Nat /\ queue'[Len(queue) + 1] = f
      /\ \A i \in 1..Len(queue) : queue'[i] = queue[i]
  BY <1>1 DEF Types
<1>3. \A g : W!In(g, queue') <=> W!In(g, queue) \/ g = f
  BY <1>2 DEF W!In
<1> QED
  BY <1>1, <1>2, <1>3 DEF CloseFrames

\* The writer goes on with what it has accepted.
LEMMA WriterFacts ==
    ASSUME Types, W!Transmit \/ \E r : W!Settle(r)
    PROVE  /\ queue' \in Seq(AnyFrames) /\ wire' \in Seq(AnyFrames)
           /\ CloseFrames' \subseteq CloseFrames
<1>1. CASE W!Transmit
  <2>1. queue # <<>> /\ queue' = queue /\ wire' = Append(wire, Head(queue))
    BY <1>1 DEF W!Transmit
  <2>2. Head(queue) \in AnyFrames /\ W!In(Head(queue), queue)
    BY <2>1 DEF Types, W!In
  <2>3. /\ wire' \in Seq(AnyFrames) /\ Len(wire') = Len(wire) + 1
        /\ Len(wire) \in Nat /\ wire'[Len(wire) + 1] = Head(queue)
        /\ \A i \in 1..Len(wire) : wire'[i] = wire[i]
    BY <2>1, <2>2 DEF Types
  <2>4. \A g : W!In(g, wire') => W!In(g, wire) \/ g = Head(queue)
    BY <2>3 DEF W!In
  <2> QED
    BY <2>1, <2>2, <2>3, <2>4 DEF CloseFrames, Types
<1>2. ASSUME NEW r, W!Settle(r)
      PROVE  /\ queue' \in Seq(AnyFrames) /\ wire' \in Seq(AnyFrames)
             /\ CloseFrames' \subseteq CloseFrames
  <2>1. queue # <<>> /\ wire' = wire /\ queue' = Tail(queue)
    BY <1>2 DEF W!Settle
  <2>2. /\ queue' \in Seq(AnyFrames) /\ Len(queue') = Len(queue) - 1
        /\ \A i \in 1..Len(queue') : queue'[i] = queue[i + 1]
        /\ Len(queue) \in Nat
    BY <2>1 DEF Types
  <2>3. ASSUME NEW g, W!In(g, queue') PROVE W!In(g, queue)
    <3>1. PICK i \in 1..Len(queue') : queue'[i] = g
      BY <2>3 DEF W!In
    <3>2. i + 1 \in 1..Len(queue) /\ queue[i + 1] = g
      BY <2>2, <3>1
    <3> QED
      BY <3>2 DEF W!In
  <2> QED
    BY <2>1, <2>2, <2>3 DEF CloseFrames, Types
<1> QED
  BY <1>1, <1>2

LEMMA CloseFramesKept ==
    ASSUME UNCHANGED <<queue, wire>> PROVE CloseFrames' = CloseFrames
  BY DEF CloseFrames, W!In

-----------------------------------------------------------------------------
(* The steps *)

\* Nothing that could close the connection changes.
LEMMA QuietStep ==
    ASSUME IInv, UNCHANGED <<queue, wire, todo, closeReady, armed, expired>>,
           chunk' \in Seq(Requests), (closeReceived => closeReceived'), (open' => open),
           (lost => lost'), (ended => ended'),
           closing' \in Nat, closing' > 0 => closing > 0 \/ Cause \/ ~open,
           owed' \subseteq owed
    PROVE  IInv'
<1>1. Types'
  BY DEF IInv, Types
<1>2. SentOnce'
  BY CloseFramesKept DEF IInv, SentOnce
<1>3. Asked'
  BY DEF IInv, Asked
<1>4. Failed'
  BY DEF IInv, Failed, Cause
<1> QED
  BY <1>1, <1>2, <1>3, <1>4 DEF IInv

\* Whoever waits in socket_->close() has its cause.
LEMMA ClosingFacts ==
    ASSUME IInv, Closing
    PROVE  Cause \/ ~open
<1>1. CASE closing > 0
  BY <1>1 DEF IInv, Failed
<1>2. CASE Stopping
  <2>1. todo \in Closes
    BY <1>2, ListFacts, Zenon DEF IInv, Types, Lists, Stopping
  <2> QED
    BY <2>1 DEF IInv, Asked, Cause
<1> QED
  BY <1>1, <1>2 DEF Closing

LEMMA ProcRequestStep == IInv /\ ProcRequest => IInv'
<1> SUFFICES ASSUME IInv, ProcRequest PROVE IInv'
  OBVIOUS
<1>0. /\ UNCHANGED <<queue, wire, closeReady, armed, expired, owed, closing, open, lost,
                     ended>>
      /\ chunk # <<>> /\ chunk' = Tail(chunk) /\ todo' = Answer(Head(chunk))
      /\ closeReceived' = (closeReceived \/ Head(chunk) = "close")
  BY DEF ProcRequest, timer, writer, others
<1>1. Head(chunk) \in Requests /\ chunk' \in Seq(Requests)
  BY <1>0 DEF IInv, Types
<1>2. /\ todo' \in Lists
      /\ todo' \in Closes => Head(chunk) = "close"
      /\ todo' = <<"closeReady", "sendClose", "arm">> => ~closeReady
      /\ todo' # <<"sendClose", "arm">>
  <2>1. CASE Head(chunk) = "ping"
    BY <1>0, <2>1, ListFacts DEF Answer, Lists, Closes
  <2>2. CASE Head(chunk) = "longPing"
    BY <1>0, <2>2, ListFacts DEF Answer, Lists, Closes
  <2>3. CASE Head(chunk) = "close"
    BY <1>0, <2>3, ListFacts DEF Answer, close, Lists, Closes
  <2> QED
    BY <1>1, <2>1, <2>2, <2>3 DEF Requests
<1>3. Types'
  BY <1>0, <1>1, <1>2 DEF IInv, Types
<1>4. SentOnce'
  BY <1>0, <1>2, CloseFramesKept DEF IInv, SentOnce
<1>5. Asked'
  BY <1>0, <1>2 DEF IInv, Asked
<1>6. Failed'
  BY <1>0 DEF IInv, Failed, Cause
<1> QED
  BY <1>3, <1>4, <1>5, <1>6 DEF IInv

\* sendWebSocketResponse.
LEMMA SendStep ==
    ASSUME IInv,
           NEW s, NEW kind \in {"Pong", "Close"}, Send(s, kind),
           kind = "Close" <=> s = "sendClose", s # "closeReady"
    PROVE  IInv'
<1> DEFINE f == [kind |-> kind, number |-> Accepted]
<1>1. f \in AnyFrames /\ f.kind = kind
  <2>1. Accepted \in Nat
    BY DEF Accepted, IInv, Types
  <2> QED
    BY <2>1 DEF AnyFrames, FrameKinds
<1>2. /\ W!Submit(f) /\ Do(s)
      /\ UNCHANGED <<chunk, closeReceived, closeReady, armed, expired, closing, open,
                     lost, ended>>
      /\ owed' = owed
  BY DEF Send, timer, others, W!Submit
<1> HIDE DEF f
<1>3. /\ queue' \in Seq(AnyFrames) /\ wire' = wire
      /\ CloseFrames' = CloseFrames \union (IF kind = "Close" THEN {f} ELSE {})
  BY <1>1, <1>2, SubmitFacts DEF IInv
<1>4. /\ todo' \in Lists
      /\ todo' \in Closes => todo \in Closes
      /\ s = "sendClose" <=> todo = <<"sendClose", "arm">>
      /\ todo' # <<"sendClose", "arm">>
      /\ todo' # <<"closeReady", "sendClose", "arm">>
  BY <1>2, DoFacts DEF IInv
<1>5. Types'
  BY <1>2, <1>3, <1>4 DEF IInv, Types
<1>6. SentOnce'
  <2>1. kind = "Close" => CloseFrames = {} /\ closeReady
    <3>1. kind = "Close" => todo = <<"sendClose", "arm">>
      BY <1>4
    <3> QED
      BY <3>1 DEF IInv, SentOnce
  <2> QED
    BY <1>2, <1>3, <1>4, <2>1 DEF IInv, SentOnce
<1>7. Asked'
  BY <1>2, <1>4 DEF IInv, Asked
<1>8. Failed'
  BY <1>2 DEF IInv, Failed, Cause
<1> QED
  BY <1>5, <1>6, <1>7, <1>8 DEF IInv

\* The statements that do not write.
Plain(s) ==
    /\ Do(s) /\ s # "sendClose"
    /\ UNCHANGED <<chunk, queue, wire, closeReceived, expired, owed, closing, lost, ended>>
    /\ closeReady' = (IF s = "closeReady" THEN TRUE ELSE closeReady)
    /\ armed' => armed \/ s = "arm"
    /\ open' => open

LEMMA StatementStep == ASSUME IInv, NEW s, Plain(s) PROVE IInv'
<1> USE DEF Plain
<1>1. /\ todo' \in Lists
      /\ todo' \in Closes => todo \in Closes
      /\ s \in {"closeReady", "arm"} => todo \in Closes
      /\ s = "closeReady" <=> todo = <<"closeReady", "sendClose", "arm">>
      /\ s = "closeReady" <=> todo' = <<"sendClose", "arm">>
      /\ todo' # <<"closeReady", "sendClose", "arm">>
  BY DoFacts DEF IInv
<1>2. Types'
  BY <1>1 DEF IInv, Types
<1>3. SentOnce'
  BY <1>1, CloseFramesKept DEF IInv, SentOnce
<1>4. Asked'
  BY <1>1 DEF IInv, Asked
<1>5. Failed'
  BY DEF IInv, Failed, Cause
<1> QED
  BY <1>2, <1>3, <1>4, <1>5 DEF IInv

LEMMA WriterStep ==
    ASSUME IInv, Transmit \/ \E r \in W!Results : Settle(r)
    PROVE  IInv'
<1>1. /\ UNCHANGED <<chunk, todo, closeReady, closeReceived, armed, expired, closing,
                     open, lost, ended>>
      /\ W!Transmit \/ \E r : W!Settle(r)
  BY DEF Transmit, Settle, conn, timer, others
<1>2. /\ queue' \in Seq(AnyFrames) /\ wire' \in Seq(AnyFrames)
      /\ CloseFrames' \subseteq CloseFrames
  BY <1>1, WriterFacts DEF IInv
<1>3. Types' /\ SentOnce' /\ Asked'
  BY <1>1, <1>2 DEF IInv, Types, SentOnce, Asked
<1>4. Failed'
  <2>1. CASE Transmit
    BY <1>1, <2>1 DEF Transmit, W!Transmit, IInv, Failed, Cause
  <2>2. ASSUME NEW r \in W!Results, Settle(r) PROVE Failed'
    <3>1. /\ owed' = owed \union {[frame |-> Head(queue), ec |-> r]}
          /\ r = "err" => Released \/ Closing
      BY <2>2 DEF Settle, W!Settle
    <3>2. r = "err" => Cause \/ ~open
      BY <3>1, ClosingFacts DEF Released, Cause
    <3>3. Cause' <=> Cause
      BY <1>1 DEF Cause
    <3> QED
      BY <1>1, <3>1, <3>2, <3>3 DEF IInv, Failed
  <2> QED
    BY <2>1, <2>2
<1> QED
  BY <1>3, <1>4 DEF IInv

LEMMA NextStep == IInv /\ [Next]_vars => IInv'
<1> SUFFICES ASSUME IInv, [Next]_vars PROVE IInv'
  OBVIOUS
<1> USE DEF conn, timer, writer, others
<1>0. chunk \in Seq(Requests) /\ closing \in Nat
  BY DEF IInv, Types
<1>1. CASE ReadFails
  <2>1. Cause \/ ~open
    BY <1>1, ClosingFacts DEF ReadFails, ReadsError, Released, Cause
  <2>2. closing' \in Nat
    BY <1>0, <1>1 DEF ReadFails
  <2> QED
    BY <1>0, <1>1, <2>1, <2>2, QuietStep DEF ReadFails
<1>2. ASSUME NEW c \in Chunks, ReadData(c) PROVE IInv'
  <2>1. c \in Seq(Requests)
    BY BoundAssumption DEF Chunks
  <2> QED
    BY <1>0, <1>2, <2>1, QuietStep DEF ReadData
<1>3. CASE ProcRequest
  BY <1>3, ProcRequestStep
<1>4. CASE ReadAgain
  BY <1>0, <1>4, QuietStep DEF ReadAgain
<1>5. CASE Send("pong", "Pong") \/ Send("sendClose", "Close")
  BY <1>5, SendStep
<1>6. CASE Segfault
  <2>1. Plain("segfault")
    BY <1>6 DEF Segfault, Plain
  <2> QED
    BY <2>1, StatementStep
<1>7. CASE CloseReady
  <2>1. Plain("closeReady")
    BY <1>7 DEF CloseReady, Plain
  <2> QED
    BY <2>1, StatementStep
<1>8. CASE SetTimer
  <2>1. ASSUME NEW s \in {"arm", "cancel"}, Do(s), armed' = (s = "arm")
        PROVE  IInv'
    <3>1. Plain(s)
      BY <1>8, <2>1 DEF SetTimer, Plain
    <3> QED
      BY <3>1, StatementStep
  <2> QED
    BY <1>8, <2>1 DEF SetTimer
<1>9. CASE CloseSocket
  <2>1. Plain("closeSocket")
    BY <1>9 DEF CloseSocket, Plain
  <2> QED
    BY <2>1, StatementStep
<1>16. CASE CloseReturns
  <2>1. /\ closing > 0 /\ closing' = closing - 1 /\ ~open'
        /\ UNCHANGED <<queue, wire, todo, closeReady, armed, expired, chunk, closeReceived,
                       lost, ended, owed>>
    BY <1>16 DEF CloseReturns
  <2>2. closing' \in Nat
    BY <1>0, <2>1
  <2> QED
    BY <1>0, <2>1, <2>2, QuietStep
<1>10. CASE Transmit \/ \E r \in W!Results : Settle(r)
  BY <1>10, WriterStep
<1>11. ASSUME NEW o \in owed, HandleWrite(o) PROVE IInv'
  <2>1. /\ UNCHANGED <<queue, wire, todo, closeReady, armed, expired, chunk, closeReceived,
                       open, lost, ended>>
        /\ owed' \subseteq owed
    BY <1>11 DEF HandleWrite, W!Report
  <2>2. closing' = closing \/ (closing' = closing + 1 /\ o.ec = "err")
    BY <1>0, <1>11 DEF HandleWrite
  <2>3. o.ec = "err" => Cause \/ ~open
    BY DEF IInv, Failed
  <2>4. closing' \in Nat
    BY <1>0, <2>2
  <2> QED
    BY <1>0, <2>1, <2>2, <2>3, <2>4, QuietStep
<1>12. CASE TimerExpires
  <2>1. /\ UNCHANGED <<chunk, todo, closeReady, closeReceived, queue, wire, owed,
                       closing, open, lost, ended>>
        /\ armed /\ expired' = expired + 1
    BY <1>12 DEF TimerExpires
  <2>2. Types' /\ Asked' /\ Failed'
    BY <2>1 DEF IInv, Types, Asked, Failed, Cause
  <2>3. SentOnce'
    BY <2>1, CloseFramesKept DEF IInv, SentOnce
  <2> QED
    BY <2>2, <2>3 DEF IInv
<1>13. CASE HandleCloseTimeout
  <2>1. /\ UNCHANGED <<chunk, todo, closeReady, closeReceived, armed, queue, wire,
                       owed, open, lost, ended>>
        /\ expired > 0 /\ expired' = expired - 1 /\ closing' = closing + 1
    BY <1>13 DEF HandleCloseTimeout
  <2>2. Types' /\ Asked' /\ Failed'
    BY <2>1 DEF IInv, Types, Asked, Failed, Cause
  <2>3. SentOnce'
    BY <2>1, CloseFramesKept DEF IInv, SentOnce
  <2> QED
    BY <2>2, <2>3 DEF IInv
<1>14. CASE ClientGone \/ ClientEnds
  BY <1>0, <1>14, QuietStep DEF ClientGone, ClientEnds
<1>15. CASE UNCHANGED vars
  BY <1>0, <1>15, QuietStep DEF vars
<1> QED
  BY <1>1, <1>2, <1>3, <1>4, <1>5, <1>6, <1>7, <1>8, <1>9, <1>10, <1>11,
     <1>12, <1>13, <1>14, <1>15, <1>16 DEF Next, Handler, Rest

LEMMA InitInv == Init => IInv
<1> SUFFICES ASSUME Init PROVE IInv
  OBVIOUS
<1>1. /\ chunk \in Chunks /\ todo = <<>> /\ wire = <<>> /\ owed = {}
      /\ ~closeReady /\ ~armed /\ expired = 0 /\ closing = 0
      /\ queue = <<[kind |-> "upgrade", number |-> 1]>>
  BY DEF Init
<1>2. Types
  <2>1. chunk \in Seq(Requests)
    BY <1>1, BoundAssumption DEF Chunks
  <2> QED
    BY <1>1, <2>1 DEF Types, Lists, AnyFrames, FrameKinds
<1>3. CloseFrames = {}
  BY <1>1 DEF CloseFrames, W!In
<1> QED
  BY <1>1, <1>2, <1>3, ListFacts DEF IInv, SentOnce, Asked, Failed

\* However many Close frames the client sends, in however many reads, it is
\* sent one.
THEOREM OneCloseCorrect == Spec => []OneCloseFrame
<1>1. IInv => OneCloseFrame
  <2> SUFFICES ASSUME IInv, NEW i \in 1..Len(wire \o queue),
                      NEW j \in 1..Len(wire \o queue),
                      (wire \o queue)[i].kind = "Close",
                      (wire \o queue)[j].kind = "Close"
               PROVE  (wire \o queue)[i] = (wire \o queue)[j]
    BY DEF OneCloseFrame
  <2>1. ASSUME NEW k \in 1..Len(wire \o queue), (wire \o queue)[k].kind = "Close"
        PROVE  (wire \o queue)[k] \in CloseFrames
    <3>1. /\ Len(wire) \in Nat /\ Len(queue) \in Nat
          /\ Len(wire \o queue) = Len(wire) + Len(queue)
          /\ (wire \o queue)[k]
               = IF k <= Len(wire) THEN wire[k] ELSE queue[k - Len(wire)]
      BY DEF IInv, Types
    <3>2. CASE k <= Len(wire)
      <4>1. k \in 1..Len(wire) /\ wire[k] \in AnyFrames
        BY <3>1, <3>2 DEF IInv, Types
      <4> QED
        BY <2>1, <3>1, <3>2, <4>1 DEF CloseFrames, W!In
    <3>3. CASE ~(k <= Len(wire))
      <4>1. k - Len(wire) \in 1..Len(queue) /\ queue[k - Len(wire)] \in AnyFrames
        BY <3>1, <3>3 DEF IInv, Types
      <4> QED
        BY <2>1, <3>1, <3>3, <4>1 DEF CloseFrames, W!In
    <3> QED
      BY <3>2, <3>3
  <2> QED
    BY <2>1 DEF IInv, SentOnce
<1> QED
  BY <1>1, InitInv, NextStep, PTL DEF Spec

\* The server does not hang up on a client that is there, has not ended the TLS
\* session and has not sent a Close frame: whoever waits in socket_->close(),
\* and every step that returns from it, has its cause in the client.
THEOREM NoHangUpCorrect == Spec => NoHangUp
<1>1. IInv /\ [Next]_vars => (open /\ ~open' => Cause)
  <2> SUFFICES ASSUME IInv, [Next]_vars, open, ~open' PROVE Cause
    OBVIOUS
  <2>1. CASE CloseSocket \/ CloseReturns
    <3>1. Closing
      BY <2>1 DEF CloseSocket, CloseReturns, Do, Closing, Stopping
    <3> QED
      BY <3>1, ClosingFacts
  <2>2. CASE Handler
    BY <2>2 DEF Handler, ProcRequest, ReadAgain, Send, Segfault, CloseReady, SetTimer,
                timer, writer, others
  <2>3. ASSUME NEW o \in owed, HandleWrite(o) PROVE FALSE
    BY <2>3 DEF HandleWrite
  <2> QED
    BY <2>1, <2>2, <2>3 DEF Next, ReadFails, ReadData, Transmit, Settle, TimerExpires,
       HandleCloseTimeout, ClientGone, ClientEnds, Rest, vars, conn, timer, writer, others
<1> QED
  BY <1>1, InitInv, NextStep, PTL DEF Spec, NoHangUp

-----------------------------------------------------------------------------
(* The types: how many frames there are, and that the timer is set once *)

\* Frames are in the queue once, and only the first has been transmitted.
Distinct(q, w) ==
    /\ \A i, j \in 1..Len(q) : q[i] = q[j] => i = j
    /\ \A i \in 2..Len(q) : ~W!In(q[i], w)

\* The frames the writer has accepted.
Count(q, w) == Len(w) + Len(q) - (IF q # <<>> /\ W!In(Head(q), w) THEN 1 ELSE 0)

\* The frames a list of statements sends.
Sends(t) ==
    IF t \in {<<"pong">>, <<"closeReady", "sendClose", "arm">>, <<"sendClose", "arm">>}
    THEN 1 ELSE 0

\* Requests the client has not sent after k chunks.
Left(k) == (MaxChunks - k) * MaxPipeline

FlagTypes ==
    /\ {read, running, closeReceived, closeReady} \subseteq BOOLEAN
    /\ {armed, open, lost, ended, writing, crashed} \subseteq BOOLEAN

FrameTypes ==
    /\ queue \in Seq(Frames) /\ wire \in Seq(Frames)
    /\ owed \subseteq W!Reports /\ reported \subseteq W!Reports
    /\ Distinct(queue, wire)

\* The frames all requests may make: a request is answered by one at most.
Most == MaxChunks * MaxPipeline

Budget ==
    /\ Len(chunk) <= MaxPipeline /\ chunks \in 1..MaxChunks
    /\ Count(queue, wire) + Sends(todo) + Len(chunk) + Left(chunks)
         <= 1 + Most

\* The timer is set by the statements after closeReady_, which are never
\* executed again.
Unarmed == ~armed /\ expired = 0

Timed ==
    /\ ~closeReady => Unarmed /\ todo \notin {<<"sendClose", "arm">>, <<"arm">>}
    /\ todo \in {<<"closeReady", "sendClose", "arm">>, <<"sendClose", "arm">>, <<"arm">>}
         => Unarmed
    /\ expired \in 0..1 /\ (armed => expired = 0)

TInv == FlagTypes /\ FrameTypes /\ Budget /\ Timed

LEMMA InAppend ==
    ASSUME NEW S, NEW w \in Seq(S), NEW f \in S
    PROVE  \A g : W!In(g, Append(w, f)) <=> W!In(g, w) \/ g = f
<1> PICK v : v = Append(w, f)
  OBVIOUS
<1>1. /\ Len(w) \in Nat /\ Len(v) = Len(w) + 1 /\ v[Len(w) + 1] = f
      /\ \A i \in 1..Len(w) : v[i] = w[i]
  OBVIOUS
<1>2. \A g : W!In(g, v) <=> W!In(g, w) \/ g = f
  BY <1>1 DEF W!In
<1> QED
  BY <1>2

LEMMA CountFacts ==
    ASSUME NEW S, NEW q \in Seq(S), NEW w \in Seq(S)
    PROVE  Count(q, w) \in Nat
<1>1. Len(q) \in Nat /\ Len(w) \in Nat /\ (q # <<>> => Len(q) > 0)
  OBVIOUS
<1> QED
  BY <1>1 DEF Count

\* A frame is accepted that was not.
LEMMA QueueSubmit ==
    ASSUME NEW S, NEW q \in Seq(S), NEW w \in Seq(S), NEW f \in S,
           ~W!In(f, q), ~W!In(f, w), Distinct(q, w)
    PROVE  Distinct(Append(q, f), w) /\ Count(Append(q, f), w) = Count(q, w) + 1
<1> PICK p : p = Append(q, f)
  OBVIOUS
<1>1. /\ p \in Seq(S) /\ Len(q) \in Nat /\ Len(w) \in Nat
      /\ Len(p) = Len(q) + 1 /\ p[Len(q) + 1] = f
      /\ \A i \in 1..Len(q) : p[i] = q[i]
      /\ p # <<>> /\ Head(p) = p[1] /\ (q # <<>> => Head(q) = q[1] /\ 1 \in 1..Len(q))
      /\ q = <<>> => Len(q) = 0
  OBVIOUS
<1>2. \A i \in 1..Len(q) : q[i] # f
  BY DEF W!In
<1>3. Distinct(p, w)
  BY <1>1, <1>2 DEF Distinct
<1>4. W!In(Head(p), w) <=> q # <<>> /\ W!In(Head(q), w)
  <2>1. CASE q = <<>>
    BY <1>1, <2>1
  <2>2. CASE q # <<>>
    BY <1>1, <2>2
  <2> QED
    BY <2>1, <2>2
<1>5. Count(p, w) = Count(q, w) + 1
  BY <1>1, <1>4 DEF Count
<1> QED
  BY <1>3, <1>5

\* The oldest is given to the transport.
LEMMA QueueTransmit ==
    ASSUME NEW S, NEW q \in Seq(S), NEW w \in Seq(S), q # <<>>,
           ~W!In(Head(q), w), Distinct(q, w)
    PROVE  Distinct(q, Append(w, Head(q))) /\ Count(q, Append(w, Head(q))) = Count(q, w)
<1> PICK f : f = Head(q)
  OBVIOUS
<1> PICK v : v = Append(w, f)
  OBVIOUS
<1>1. /\ f \in S /\ v \in Seq(S) /\ Len(w) \in Nat /\ Len(q) \in Nat
      /\ Len(v) = Len(w) + 1 /\ f = q[1] /\ 1 \in 1..Len(q)
  OBVIOUS
<1>2. \A g : W!In(g, v) <=> W!In(g, w) \/ g = f
  BY <1>1, InAppend
<1>3. \A i \in 2..Len(q) : i \in 1..Len(q) /\ q[i] # f
  BY <1>1 DEF Distinct
<1>4. Distinct(q, v)
  BY <1>2, <1>3 DEF Distinct
<1>5. Count(q, v) = Count(q, w)
  <2>1. W!In(Head(q), v) /\ ~W!In(Head(q), w) /\ q # <<>>
    BY <1>2
  <2>2. Count(q, v) = Len(v) + Len(q) - 1 /\ Count(q, w) = Len(w) + Len(q) - 0
    BY <2>1, Zenon DEF Count
  <2> QED
    BY <1>1, <2>2
<1> QED
  BY <1>4, <1>5

\* The oldest leaves the queue.
LEMMA QueueSettle ==
    ASSUME NEW S, NEW q \in Seq(S), NEW w \in Seq(S), q # <<>>,
           W!In(Head(q), w), Distinct(q, w)
    PROVE  Distinct(Tail(q), w) /\ Count(Tail(q), w) = Count(q, w)
<1> PICK p : p = Tail(q)
  OBVIOUS
<1>1. /\ p \in Seq(S) /\ Len(w) \in Nat /\ Len(q) \in Nat /\ Len(p) = Len(q) - 1
      /\ \A i \in 1..Len(p) : p[i] = q[i + 1] /\ i + 1 \in 2..Len(q)
      /\ p # <<>> => Head(p) = p[1] /\ 1 \in 1..Len(p)
  OBVIOUS
<1>2. \A i \in 1..Len(p) : ~W!In(p[i], w)
  BY <1>1 DEF Distinct
<1>3. \A i, j \in 1..Len(p) : p[i] = p[j] => i = j
  <2> SUFFICES ASSUME NEW i \in 1..Len(p), NEW j \in 1..Len(p), p[i] = p[j]
               PROVE  i = j
    OBVIOUS
  <2>1. i + 1 \in 1..Len(q) /\ j + 1 \in 1..Len(q) /\ q[i + 1] = q[j + 1]
    BY <1>1
  <2>2. i + 1 = j + 1
    BY <2>1 DEF Distinct
  <2> QED
    BY <2>2
<1>4. Distinct(p, w)
  BY <1>1, <1>2, <1>3 DEF Distinct
<1>5. Count(p, w) = Count(q, w)
  <2>1. W!In(Head(q), w) /\ q # <<>> /\ ~(p # <<>> /\ W!In(Head(p), w))
    BY <1>1, <1>2
  <2>2. Count(p, w) = Len(w) + Len(p) - 0 /\ Count(q, w) = Len(w) + Len(q) - 1
    BY <2>1, Zenon DEF Count
  <2> QED
    BY <1>1, <2>2
<1> QED
  BY <1>4, <1>5

\* What the client has not sent becomes less by a chunk of any size.
LEMMA LeftFacts ==
    /\ \A k \in 1..MaxChunks : Left(k) \in Nat
    /\ \A k \in 1..(MaxChunks - 1) : Left(k + 1) + MaxPipeline = Left(k)
    /\ Left(1) + MaxPipeline = Most
    /\ Most \in Nat
<1>1. \A a \in Nat : a * MaxPipeline \in Nat /\ (a + 1) * MaxPipeline = a * MaxPipeline + MaxPipeline
  BY BoundAssumption
<1>2. \A k \in 1..MaxChunks : Left(k) \in Nat
  <2> SUFFICES ASSUME NEW k \in 1..MaxChunks PROVE Left(k) \in Nat
    OBVIOUS
  <2>1. MaxChunks - k \in Nat
    BY BoundAssumption
  <2> QED
    BY <1>1, <2>1 DEF Left
<1>3. \A k \in 1..(MaxChunks - 1) : Left(k + 1) + MaxPipeline = Left(k)
  <2> SUFFICES ASSUME NEW k \in 1..(MaxChunks - 1)
               PROVE  Left(k + 1) + MaxPipeline = Left(k)
    OBVIOUS
  <2> PICK a : a = MaxChunks - (k + 1)
    OBVIOUS
  <2>1. a \in Nat /\ a + 1 = MaxChunks - k
    BY BoundAssumption
  <2>2. Left(k + 1) = a * MaxPipeline /\ Left(k) = (a + 1) * MaxPipeline
    BY <2>1 DEF Left
  <2> QED
    BY <1>1, <2>1, <2>2
<1>4. Left(1) + MaxPipeline = Most
  <2> PICK a : a = MaxChunks - 1
    OBVIOUS
  <2>1. a \in Nat /\ a + 1 = MaxChunks
    BY BoundAssumption
  <2>2. Left(1) = a * MaxPipeline /\ Most = (a + 1) * MaxPipeline
    BY <2>1 DEF Left, Most
  <2> QED
    BY <1>1, <2>1, <2>2
<1>5. Most \in Nat
  BY <1>1, BoundAssumption DEF Most
<1> QED
  BY <1>2, <1>3, <1>4, <1>5

\* The reads, and the handlers that write nothing and leave the timer alone.
LEMMA QuietTyped ==
    ASSUME IInv, TInv, UNCHANGED <<queue, wire, todo, closeReady, armed, expired>>,
           owed' \subseteq owed, reported' \subseteq W!Reports, FlagTypes',
           \/ UNCHANGED <<chunk, chunks>>
           \/ /\ Len(chunk') <= MaxPipeline /\ Len(chunk') \in Nat
              /\ chunks' \in 1..MaxChunks
              /\ Len(chunk') + Left(chunks') <= Len(chunk) + Left(chunks)
    PROVE  TInv'
<1>1. FrameTypes'
  BY DEF TInv, FrameTypes
<1>2. CASE UNCHANGED <<chunk, chunks>>
  <2>1. Budget'
    BY <1>2 DEF TInv, Budget
  <2>2. Timed'
    BY DEF TInv, Timed, Unarmed
  <2> QED
    BY <1>1, <2>1, <2>2 DEF TInv
<1>3. CASE ~UNCHANGED <<chunk, chunks>>
  <2>0. /\ Len(chunk') <= MaxPipeline /\ Len(chunk') \in Nat
        /\ chunks' \in 1..MaxChunks
        /\ Len(chunk') + Left(chunks') <= Len(chunk) + Left(chunks)
    BY <1>3
  <2>1. /\ Count(queue, wire) \in Nat /\ Sends(todo) \in Nat /\ Len(chunk) \in Nat
        /\ Left(chunks) \in Nat /\ Left(chunks') \in Nat
        /\ Most \in Nat
    BY CountFacts, LeftFacts DEF IInv, Types, TInv, FrameTypes, Budget, Sends
  <2>2. Count(queue, wire)' = Count(queue, wire) /\ Sends(todo)' = Sends(todo)
    OBVIOUS
  <2>3. Count(queue, wire) + Sends(todo) + Len(chunk) + Left(chunks) <= 1 + Most
    BY DEF TInv, Budget
  <2>4. Count(queue, wire) + Sends(todo) + Len(chunk') + Left(chunks') <= 1 + Most
    BY <2>0, <2>1, <2>3
  <2>5. Budget'
    BY <2>0, <2>2, <2>4 DEF Budget
  <2>6. Timed'
    BY DEF TInv, Timed, Unarmed
  <2> QED
    BY <1>1, <2>5, <2>6 DEF TInv
<1> QED
  BY <1>2, <1>3

\* A statement is executed, or a request answered: what it may still send is
\* paid for by what is left to do.
LEMMA BudgetStep ==
    ASSUME IInv, TInv, chunks' = chunks, Types', FrameTypes',
           Len(chunk') <= MaxPipeline,
           Count(queue, wire)' + Sends(todo)' + Len(chunk')
             <= Count(queue, wire) + Sends(todo) + Len(chunk)
    PROVE  Budget'
<1>1. /\ Count(queue, wire) \in Nat /\ Sends(todo) \in Nat /\ Len(chunk) \in Nat
      /\ Count(queue, wire)' \in Nat /\ Sends(todo)' \in Nat /\ Len(chunk') \in Nat
      /\ Left(chunks) \in Nat /\ Most \in Nat
  <2>1. Count(queue, wire) \in Nat /\ Len(chunk) \in Nat
    BY CountFacts DEF IInv, Types, TInv, FrameTypes
  <2>2. Count(queue, wire)' \in Nat /\ Len(chunk') \in Nat
    BY CountFacts DEF Types, FrameTypes
  <2>3. Sends(todo) \in Nat /\ Sends(todo)' \in Nat
    BY DEF Sends
  <2> QED
    BY <2>1, <2>2, <2>3, LeftFacts DEF TInv, Budget
<1>2. Count(queue, wire) + Sends(todo) + Len(chunk) + Left(chunks) <= 1 + Most
  BY DEF TInv, Budget
<1>3. Count(queue, wire)' + Sends(todo)' + Len(chunk') + Left(chunks) <= 1 + Most
  <2> DEFINE n == Count(queue, wire) + Sends(todo) + Len(chunk)
             nn == Count(queue, wire)' + Sends(todo)' + Len(chunk')
  <2>1. n \in Nat /\ nn \in Nat /\ nn <= n /\ n + Left(chunks) <= 1 + Most
    BY <1>1, <1>2
  <2> HIDE DEF n, nn
  <2>2. nn + Left(chunks) <= 1 + Most
    BY <1>1, <2>1
  <2> QED
    BY <2>2 DEF nn
<1> QED
  BY <1>3 DEF Budget, TInv

LEMMA AnswerSends ==
    /\ \A t : Sends(t) \in 0..1
    /\ Sends(<<>>) = 0
    /\ Sends(<<"arm">>) = 0 /\ Sends(<<"cancel", "closeSocket">>) = 0
    /\ Sends(<<"closeSocket">>) = 0 /\ Sends(<<"segfault">>) = 0
    /\ Sends(<<"pong">>) = 1
    /\ Sends(<<"closeReady", "sendClose", "arm">>) = 1
    /\ Sends(<<"sendClose", "arm">>) = 1
<1>1. \A t : Sends(t) \in 0..1
  BY DEF Sends
<1>2. /\ Sends(<<"pong">>) = 1
      /\ Sends(<<"closeReady", "sendClose", "arm">>) = 1
      /\ Sends(<<"sendClose", "arm">>) = 1
  BY DEF Sends
<1>3. /\ Sends(<<>>) = 0
      /\ Sends(<<"arm">>) = 0 /\ Sends(<<"cancel", "closeSocket">>) = 0
      /\ Sends(<<"closeSocket">>) = 0 /\ Sends(<<"segfault">>) = 0
  BY DEF Sends
<1> QED
  BY <1>1, <1>2, <1>3

LEMMA ProcTyped ==
    ASSUME IInv, TInv, ProcRequest, IInv'
    PROVE  TInv'
<1>0. /\ UNCHANGED <<queue, wire, owed, reported, closeReady, armed, expired, chunks>>
      /\ todo = <<>> /\ chunk # <<>> /\ chunk' = Tail(chunk)
      /\ todo' = Answer(Head(chunk))
  BY DEF ProcRequest, timer, writer, others
<1>1. FlagTypes'
  BY DEF TInv, FlagTypes, ProcRequest, timer, writer, others
<1>2. FrameTypes'
  BY <1>0 DEF TInv, FrameTypes
<1>3. Head(chunk) \in Requests /\ Len(chunk') = Len(chunk) - 1 /\ Len(chunk) \in Nat
  BY <1>0 DEF IInv, Types
<1>4. Budget'
  <2>1. Count(queue, wire)' = Count(queue, wire) /\ Sends(todo) = 0 /\ Sends(todo)' \in 0..1
    BY <1>0, AnswerSends
  <2>2. Count(queue, wire) \in Nat
    BY CountFacts DEF TInv, FrameTypes
  <2>3. Len(chunk') <= MaxPipeline
    BY <1>3, BoundAssumption DEF TInv, Budget
  <2>4. Types'
    BY DEF IInv
  <2>5. Count(queue, wire)' + Sends(todo)' + Len(chunk')
          <= Count(queue, wire) + Sends(todo) + Len(chunk)
    <3> PICK n, s, k : n = Count(queue, wire) /\ s = Sends(todo)' /\ k = Len(chunk)
      OBVIOUS
    <3>1. n + s + (k - 1) <= n + 0 + k
      BY <1>3, <2>1, <2>2
    <3> QED
      BY <1>3, <2>1, <3>1
  <2> QED
    BY <1>0, <1>2, <2>3, <2>4, <2>5, BudgetStep
<1>5. Timed'
  <2>1. /\ todo' \in {<<"closeReady", "sendClose", "arm">>, <<"sendClose", "arm">>, <<"arm">>}
             => ~closeReady
        /\ todo' \notin {<<"sendClose", "arm">>, <<"arm">>}
    <3>1. CASE Head(chunk) = "ping"
      BY <1>0, <3>1, ListFacts DEF Answer, Closes
    <3>2. CASE Head(chunk) = "longPing"
      BY <1>0, <3>2, ListFacts DEF Answer, Closes
    <3>3. CASE Head(chunk) = "close"
      BY <1>0, <3>3, ListFacts DEF Answer, close
    <3> QED
      BY <1>3, <3>1, <3>2, <3>3 DEF Requests
  <2> QED
    BY <1>0, <2>1 DEF TInv, Timed, Unarmed
<1> QED
  BY <1>1, <1>2, <1>4, <1>5 DEF TInv

\* The list after a statement.
LEMMA DoTyped ==
    ASSUME Types, NEW s, Do(s)
    PROVE  /\ Sends(todo') = Sends(todo) - (IF s \in {"pong", "sendClose"} THEN 1 ELSE 0)
           /\ todo' = <<"sendClose", "arm">> <=> s = "closeReady"
           /\ todo' = <<"arm">> <=> s = "sendClose"
           /\ s = "arm" <=> todo = <<"arm">>
           /\ s \in {"closeReady", "sendClose", "arm"} =>
                todo \in {<<"closeReady", "sendClose", "arm">>, <<"sendClose", "arm">>, <<"arm">>}
           /\ todo' # <<"closeReady", "sendClose", "arm">>
<1> USE DEF Types, Lists, Closes, Do
<1>1. CASE todo = <<"pong">>
  BY <1>1, ListFacts, AnswerSends
<1>2. CASE todo = <<"segfault">>
  BY <1>2, ListFacts, AnswerSends
<1>3. CASE todo = <<"closeReady", "sendClose", "arm">>
  BY <1>3, ListFacts, AnswerSends
<1>4. CASE todo = <<"sendClose", "arm">>
  BY <1>4, ListFacts, AnswerSends
<1>5. CASE todo = <<"arm">>
  BY <1>5, ListFacts, AnswerSends
<1>6. CASE todo = <<"cancel", "closeSocket">>
  BY <1>6, ListFacts, AnswerSends
<1>7. CASE todo = <<"closeSocket">>
  BY <1>7, ListFacts, AnswerSends
<1> QED
  BY <1>1, <1>2, <1>3, <1>4, <1>5, <1>6, <1>7

\* sendWebSocketResponse: the number of the frame is within the bound.
LEMMA SendTyped ==
    ASSUME IInv, TInv, IInv',
           NEW s \in {"pong", "sendClose"}, NEW kind \in {"Pong", "Close"}, Send(s, kind)
    PROVE  TInv'
<1> PICK f : f = [kind |-> kind, number |-> Accepted]
  OBVIOUS
<1>0. /\ W!Submit(f) /\ Do(s)
      /\ UNCHANGED <<chunk, chunks, closeReady, armed, expired, owed, reported>>
  BY DEF Send, timer, others, W!Submit
<1>1. FlagTypes'
  BY DEF TInv, FlagTypes, Send, timer, others, W!Submit
<1>2. /\ Sends(todo) = 1 /\ Sends(todo') = 0
      /\ todo' # <<"sendClose", "arm">> /\ todo' # <<"closeReady", "sendClose", "arm">>
      /\ todo' = <<"arm">> => todo = <<"sendClose", "arm">>
  BY <1>0, DoFacts, DoTyped, AnswerSends DEF IInv
<1>3. queue \in Seq(Frames) /\ wire \in Seq(Frames) /\ Distinct(queue, wire)
  BY DEF TInv, FrameTypes
<1>4. /\ Count(queue, wire) \in Nat /\ Len(chunk) \in Nat /\ Left(chunks) \in Nat
      /\ Most \in Nat
      /\ Count(queue, wire) + 1 + Len(chunk) + Left(chunks) <= 1 + Most
  BY <1>2, <1>3, CountFacts, LeftFacts DEF IInv, Types, TInv, Budget
<1>5. Accepted = Count(queue, wire) + 1
  <2>1. Len(queue) \in Nat /\ Len(wire) \in Nat
    BY <1>3
  <2> QED
    BY <2>1 DEF Accepted, InFlight, Count
<1>6. f \in Frames
  <2>1. Accepted \in 1..(1 + Most)
    BY <1>4, <1>5
  <2>2. kind \in FrameKinds
    BY DEF FrameKinds
  <2> QED
    BY <2>1, <2>2 DEF Frames, Most
<1>7. /\ queue' = Append(queue, f) /\ wire' = wire
      /\ ~W!In(f, queue) /\ ~W!In(f, wire)
  BY <1>0 DEF W!Submit
<1>8. /\ Distinct(queue, wire)' /\ Count(queue, wire)' = Count(queue, wire) + 1
      /\ queue' \in Seq(Frames)
  BY <1>3, <1>6, <1>7, QueueSubmit
<1>9. FrameTypes'
  BY <1>0, <1>7, <1>8 DEF TInv, FrameTypes
<1>10. Budget'
  <2>1. Count(queue, wire)' + Sends(todo)' + Len(chunk')
          <= Count(queue, wire) + Sends(todo) + Len(chunk)
    BY <1>0, <1>2, <1>4, <1>8
  <2>2. Len(chunk') <= MaxPipeline
    BY <1>0 DEF TInv, Budget
  <2> QED
    BY <1>0, <1>9, <2>1, <2>2, BudgetStep DEF IInv
<1>11. Timed'
  BY <1>0, <1>2 DEF TInv, Timed, Unarmed
<1> QED
  BY <1>1, <1>9, <1>10, <1>11 DEF TInv

\* The statements that do not write.
PlainTimer(s) ==
    /\ Plain(s) /\ FlagTypes'
    /\ s \notin {"pong", "sendClose"}
    /\ chunks' = chunks /\ reported' = reported
    /\ armed' = (IF s = "arm" THEN TRUE ELSE IF s = "cancel" THEN FALSE ELSE armed)

LEMMA PlainTyped ==
    ASSUME IInv, TInv, IInv', NEW s, PlainTimer(s)
    PROVE  TInv'
<1> USE DEF PlainTimer, Plain
<1>1. /\ Sends(todo') = Sends(todo)
      /\ todo' = <<"sendClose", "arm">> <=> s = "closeReady"
      /\ todo' # <<"arm">>
      /\ s = "arm" <=> todo = <<"arm">>
      /\ s \in {"closeReady", "arm"} =>
           todo \in {<<"closeReady", "sendClose", "arm">>, <<"sendClose", "arm">>, <<"arm">>}
      /\ todo' # <<"closeReady", "sendClose", "arm">>
  <2>1. Sends(todo) \in Nat
    BY AnswerSends
  <2> QED
    BY <2>1, DoTyped DEF IInv
<1>2. FrameTypes'
  BY DEF TInv, FrameTypes
<1>3. Budget'
  <2>1. Count(queue, wire)' = Count(queue, wire)
    OBVIOUS
  <2>2. Count(queue, wire) \in Nat /\ Sends(todo) \in Nat /\ Len(chunk) \in Nat
    <3>1. Count(queue, wire) \in Nat
      BY CountFacts DEF TInv, FrameTypes
    <3>2. Len(chunk) \in Nat
      BY DEF IInv, Types
    <3> QED
      BY <3>1, <3>2, AnswerSends
  <2>3. Count(queue, wire)' + Sends(todo)' + Len(chunk')
          <= Count(queue, wire) + Sends(todo) + Len(chunk)
    <3> DEFINE n == Count(queue, wire) + Sends(todo) + Len(chunk)
    <3>1. Sends(todo)' = Sends(todo) /\ Len(chunk') = Len(chunk)
      BY <1>1
    <3>2. n \in Nat
      BY <2>2
    <3>3. Count(queue, wire)' + Sends(todo)' + Len(chunk') = n
      BY <2>1, <3>1, Zenon
    <3> HIDE DEF n
    <3>4. n <= n
      BY <3>2
    <3> QED
      BY <3>3, <3>4 DEF n
  <2>4. Len(chunk') <= MaxPipeline
    BY DEF TInv, Budget
  <2> QED
    BY <1>2, <2>3, <2>4, BudgetStep DEF IInv
<1>4. Timed'
  <2>1. s = "arm" => closeReady /\ Unarmed
    BY <1>1 DEF TInv, Timed
  <2>2. s = "closeReady" => Unarmed
    BY <1>1 DEF TInv, Timed
  <2> QED
    BY <1>1, <2>1, <2>2 DEF TInv, Timed, Unarmed
<1> QED
  BY <1>2, <1>3, <1>4 DEF TInv

LEMMA WriterTyped ==
    ASSUME IInv, TInv, IInv', Transmit \/ \E r \in W!Results : Settle(r)
    PROVE  TInv'
<1>0. UNCHANGED <<conn, timer, others>> /\ reported' = reported
  BY DEF Transmit, Settle, W!Transmit, W!Settle
<1>1. queue \in Seq(Frames) /\ wire \in Seq(Frames) /\ Distinct(queue, wire)
  BY DEF TInv, FrameTypes
<1>2. /\ queue' \in Seq(Frames) /\ wire' \in Seq(Frames) /\ Distinct(queue, wire)'
      /\ Count(queue, wire)' = Count(queue, wire)
      /\ owed' \subseteq W!Reports /\ writing' \in BOOLEAN
  <2>1. CASE Transmit
    <3>1. /\ queue # <<>> /\ ~W!In(Head(queue), wire) /\ queue' = queue
          /\ wire' = Append(wire, Head(queue)) /\ owed' = owed /\ writing' = writing
      BY <2>1 DEF Transmit, W!Transmit
    <3>2. wire' \in Seq(Frames)
      BY <1>1, <3>1
    <3> QED
      BY <1>1, <3>1, <3>2, QueueTransmit DEF TInv, FrameTypes, FlagTypes
  <2>2. ASSUME NEW r \in W!Results, Settle(r)
        PROVE  /\ queue' \in Seq(Frames) /\ wire' \in Seq(Frames) /\ Distinct(queue, wire)'
               /\ Count(queue, wire)' = Count(queue, wire)
               /\ owed' \subseteq W!Reports /\ writing' \in BOOLEAN
    <3>1. /\ queue # <<>> /\ W!In(Head(queue), wire) /\ wire' = wire
          /\ queue' = Tail(queue) /\ writing' = (r = "ok")
          /\ owed' = owed \union {[frame |-> Head(queue), ec |-> r]}
      BY <2>2 DEF Settle, W!Settle
    <3>2. Head(queue) \in Frames /\ queue' \in Seq(Frames)
      BY <1>1, <3>1
    <3>3. owed' \subseteq W!Reports
      BY <3>1, <3>2 DEF TInv, FrameTypes, W!Reports
    <3> QED
      BY <1>1, <3>1, <3>2, <3>3, QueueSettle
  <2> QED
    BY <2>1, <2>2
<1>3. FlagTypes'
  BY <1>0, <1>2 DEF TInv, FlagTypes, conn, timer, others
<1>4. FrameTypes'
  BY <1>0, <1>2 DEF TInv, FrameTypes
<1>5. Budget'
  BY <1>0, <1>2 DEF TInv, Budget, conn, others
<1>6. Timed'
  BY <1>0 DEF TInv, Timed, Unarmed, conn, timer
<1> QED
  BY <1>3, <1>4, <1>5, <1>6 DEF TInv

LEMMA TypedStep == IInv /\ TInv /\ [Next]_vars => TInv'
<1> SUFFICES ASSUME IInv, TInv, [Next]_vars PROVE TInv'
  OBVIOUS
<1> USE DEF conn, timer, writer, others
<1>0. /\ IInv' /\ reported \subseteq W!Reports
      /\ Len(chunk) \in Nat /\ Len(chunk) <= MaxPipeline /\ chunks \in 1..MaxChunks
  BY NextStep DEF IInv, Types, TInv, FrameTypes, Budget
<1>1. CASE ReadFails
  <2>1. FlagTypes'
    BY <1>1 DEF ReadFails, ReadsError, TInv, FlagTypes
  <2> QED
    BY <1>0, <1>1, <2>1, QuietTyped DEF ReadFails
<1>2. ASSUME NEW c \in Chunks, ReadData(c) PROVE TInv'
  <2>1. FlagTypes'
    BY <1>2 DEF ReadData, TInv, FlagTypes
  <2>2. Len(c) \in 0..MaxPipeline
    BY BoundAssumption DEF Chunks
  <2>3. /\ chunks < MaxChunks /\ chunk' = c /\ chunks' = chunks + 1
        /\ UNCHANGED <<queue, wire, owed, reported, todo, closeReady, armed, expired>>
    BY <1>2 DEF ReadData
  <2>4. chunks \in 1..(MaxChunks - 1) /\ chunks' \in 1..MaxChunks
    BY <1>0, <2>3, BoundAssumption
  <2>5. /\ Left(chunks') + MaxPipeline = Left(chunks)
        /\ Left(chunks') \in Nat /\ Left(chunks) \in Nat
    <3> PICK k : k = chunks
      OBVIOUS
    <3>1. k \in 1..(MaxChunks - 1) /\ k \in 1..MaxChunks /\ k + 1 \in 1..MaxChunks
      BY <1>0, <2>4, <2>3, BoundAssumption
    <3>2. /\ Left(k + 1) + MaxPipeline = Left(k)
          /\ Left(k + 1) \in Nat /\ Left(k) \in Nat
      BY <3>1, LeftFacts
    <3> QED
      BY <2>3, <3>2
  <2>6. Len(chunk') + Left(chunks') <= Len(chunk) + Left(chunks)
    <3> PICK l, ll, k, kk : /\ l = Left(chunks) /\ ll = Left(chunks')
                            /\ k = Len(chunk) /\ kk = Len(chunk')
      OBVIOUS
    <3>1. kk + ll <= k + l
      BY <1>0, <2>2, <2>3, <2>5, BoundAssumption
    <3> QED
      BY <3>1
  <2> QED
    BY <1>0, <2>1, <2>2, <2>3, <2>4, <2>6, BoundAssumption, QuietTyped
<1>3. CASE ProcRequest
  BY <1>0, <1>3, ProcTyped
<1>4. CASE ReadAgain
  <2>1. FlagTypes'
    BY <1>4 DEF ReadAgain, TInv, FlagTypes
  <2> QED
    BY <1>0, <1>4, <2>1, QuietTyped DEF ReadAgain
<1>5. CASE Send("pong", "Pong") \/ Send("sendClose", "Close")
  BY <1>0, <1>5, SendTyped
<1>6. CASE Segfault
  <2>1. FlagTypes'
    BY <1>6 DEF Segfault, TInv, FlagTypes
  <2>2. PlainTimer("segfault")
    BY <1>6, <2>1 DEF Segfault, Plain, PlainTimer
  <2> QED
    BY <1>0, <2>2, PlainTyped
<1>7. CASE CloseReady
  <2>1. FlagTypes'
    BY <1>7 DEF CloseReady, TInv, FlagTypes
  <2>2. PlainTimer("closeReady")
    BY <1>7, <2>1 DEF CloseReady, Plain, PlainTimer
  <2> QED
    BY <1>0, <2>2, PlainTyped
<1>8. CASE SetTimer
  <2>1. FlagTypes'
    BY <1>8 DEF SetTimer, TInv, FlagTypes
  <2>2. ASSUME NEW s \in {"arm", "cancel"}, Do(s), armed' = (s = "arm")
        PROVE  TInv'
    <3>1. PlainTimer(s)
      BY <1>8, <2>1, <2>2 DEF SetTimer, Plain, PlainTimer
    <3> QED
      BY <1>0, <3>1, PlainTyped
  <2> QED
    BY <1>8, <2>2 DEF SetTimer
<1>9. CASE CloseSocket
  <2>1. FlagTypes'
    BY <1>9 DEF CloseSocket, TInv, FlagTypes
  <2>2. PlainTimer("closeSocket")
    BY <1>9, <2>1 DEF CloseSocket, Plain, PlainTimer
  <2> QED
    BY <1>0, <2>2, PlainTyped
<1>15. CASE CloseReturns
  <2>1. FlagTypes'
    BY <1>15 DEF CloseReturns, TInv, FlagTypes
  <2> QED
    BY <1>0, <1>15, <2>1, QuietTyped DEF CloseReturns
<1>10. CASE Transmit \/ \E r \in W!Results : Settle(r)
  BY <1>0, <1>10, WriterTyped
<1>11. ASSUME NEW o \in owed, HandleWrite(o) PROVE TInv'
  <2>1. FlagTypes'
    BY <1>11 DEF HandleWrite, W!Report, TInv, FlagTypes
  <2>2. owed' \subseteq owed /\ reported' \subseteq W!Reports
    BY <1>11 DEF HandleWrite, W!Report, TInv, FrameTypes
  <2>3. UNCHANGED <<queue, wire, todo, closeReady, armed, expired, chunk, chunks>>
    BY <1>11 DEF HandleWrite, W!Report
  <2> QED
    BY <1>0, <2>1, <2>2, <2>3, QuietTyped
<1>12. CASE TimerExpires \/ HandleCloseTimeout
  <2>1. /\ UNCHANGED <<conn, writer, chunks>>
        /\ \/ armed /\ ~armed' /\ expired' = expired + 1
           \/ armed' = armed /\ expired > 0 /\ expired' = expired - 1
    BY <1>12 DEF TimerExpires, HandleCloseTimeout
  <2>2. FlagTypes'
    BY <1>12 DEF TimerExpires, HandleCloseTimeout, TInv, FlagTypes
  <2>3. FrameTypes' /\ Budget'
    BY <2>1 DEF TInv, FrameTypes, Budget
  <2>4. Timed'
    BY <2>1 DEF TInv, Timed, Unarmed
  <2> QED
    BY <2>2, <2>3, <2>4 DEF TInv
<1>13. CASE ClientGone \/ ClientEnds
  <2>1. FlagTypes'
    BY <1>13 DEF ClientGone, ClientEnds, TInv, FlagTypes
  <2> QED
    BY <1>0, <1>13, <2>1, QuietTyped DEF ClientGone, ClientEnds
<1>14. CASE UNCHANGED vars
  BY <1>14 DEF vars, TInv, FlagTypes, FrameTypes, Budget, Timed, Unarmed
<1> QED
  BY <1>1, <1>2, <1>3, <1>4, <1>5, <1>6, <1>7, <1>8, <1>9, <1>10, <1>11,
     <1>12, <1>13, <1>14, <1>15 DEF Next, Handler, Rest

LEMMA TypedInit == Init => TInv
<1> SUFFICES ASSUME Init PROVE TInv
  OBVIOUS
<1> PICK f : f = [kind |-> "upgrade", number |-> 1]
  OBVIOUS
<1> PICK q : q = queue
  OBVIOUS
<1>1. /\ chunk \in Chunks /\ todo = <<>> /\ wire = <<>> /\ owed = {} /\ reported = {}
      /\ ~closeReady /\ ~armed /\ expired = 0 /\ chunks = 1
      /\ q = <<f>>
  BY DEF Init
<1>2. f \in Frames
  <2>1. 1 \in 1..(1 + Most) /\ "upgrade" \in FrameKinds
    BY LeftFacts DEF FrameKinds
  <2> QED
    BY <2>1 DEF Frames, Most
<1>3. /\ q \in Seq(Frames) /\ Len(q) = 1 /\ \A i \in 1..Len(q) : i = 1
  BY <1>1, <1>2
<1>4. \A g : ~W!In(g, wire)
  BY <1>1 DEF W!In
<1>5. FlagTypes
  BY DEF Init, FlagTypes
<1>6. FrameTypes
  <2>1. Distinct(q, wire)
    BY <1>3, <1>4 DEF Distinct
  <2> QED
    BY <1>1, <1>3, <2>1 DEF FrameTypes
<1>7. Budget
  <2>1. Count(q, wire) = 1
    BY <1>1, <1>3, <1>4 DEF Count
  <2>2. Len(chunk) \in 0..MaxPipeline
    BY <1>1, BoundAssumption DEF Chunks
  <2>3. Sends(todo) = 0
    BY <1>1, AnswerSends
  <2>4. Left(1) + MaxPipeline = Most /\ Left(1) \in Nat /\ Most \in Nat
    BY LeftFacts, BoundAssumption
  <2>5. 1 + 0 + Len(chunk) + Left(1) <= 1 + Most
    BY <2>2, <2>4, BoundAssumption
  <2>6. chunks \in 1..MaxChunks /\ Len(chunk) <= MaxPipeline
    BY <1>1, <2>2, BoundAssumption
  <2> QED
    BY <1>1, <2>1, <2>3, <2>5, <2>6 DEF Budget
<1>8. Timed
  BY <1>1, ListFacts DEF Timed, Unarmed, Closes
<1> QED
  BY <1>5, <1>6, <1>7, <1>8 DEF TInv

\* The types of a WebSocket connection: it sends no more than one frame for a
\* request of the client, and closeTimer_ is set once, so that its handler runs
\* at most once.
THEOREM ConnectionTyped == Spec => []TypeOK
<1>1. IInv /\ TInv => TypeOK
  <2> SUFFICES ASSUME IInv, TInv PROVE TypeOK
    OBVIOUS
  <2>1. todo \in Seq(Statements)
    <3>1. /\ <<>> \in Seq(Statements) /\ <<"pong">> \in Seq(Statements)
          /\ <<"segfault">> \in Seq(Statements)
          /\ <<"closeReady", "sendClose", "arm">> \in Seq(Statements)
          /\ <<"sendClose", "arm">> \in Seq(Statements) /\ <<"arm">> \in Seq(Statements)
          /\ <<"cancel", "closeSocket">> \in Seq(Statements)
          /\ <<"closeSocket">> \in Seq(Statements)
      BY DEF Statements
    <3>2. todo \in Lists
      BY DEF IInv, Types
    <3> QED
      BY <3>1, <3>2, Zenon DEF Lists, Closes
  <2> QED
    BY <2>1, BoundAssumption DEF IInv, Types, TInv, FlagTypes, FrameTypes, Budget, Timed, TypeOK
<1> QED
  BY <1>1, InitInv, NextStep, TypedInit, TypedStep, PTL DEF Spec
=============================================================================
