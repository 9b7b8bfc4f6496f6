------------------------ MODULE WebSocketConnection ------------------------
(***************************************************************************)
(* One WebSocketConnection (WebSocketServer.cpp) and its client, from the  *)
(* point where HttpConnection has moved its socket into it and called      *)
(* handleRead with what it had read behind the upgrade.  The chain of      *)
(* reads, the handlers of the writes and the close timer run side by side  *)
(* on the io threads; as in HttpConnection, todo is what handleRead has    *)
(* still to execute, the writer is WriteQueue, the client may stay and be  *)
(* silent, and socket_->close() waits for it: on the io thread that calls  *)
(* it, until the client has ended the TLS session too or is gone.          *)
(*                                                                         *)
(* What the parser makes of the data is a list of requests; a message is   *)
(* left out, since no message has an answer: procSudaGureumRequest asks    *)
(* for a parameter, and parsePayload fills in none and takes the           *)
(* exception.                                                              *)
(*                                                                         *)
(* An operator Mut<Name> has a bug a change of the code could introduce;   *)
(* Next does not use it.                                                   *)
(***************************************************************************)
EXTENDS Naturals, Sequences

CONSTANTS
    MaxChunks,      \* bound: chunks of requests the client sends
    MaxPipeline     \* bound: requests in a chunk

ASSUME BoundAssumption == MaxChunks \in Nat \ {0} /\ MaxPipeline \in Nat

\* A ping is long when its payload takes more than one byte to give its length.
Requests == {"ping", "longPing", "close"}

\* "upgrade" is the 101 response, which HttpConnection submitted.
FrameKinds == {"upgrade", "Pong", "Close"}
Frames == [kind : FrameKinds, number : 1..(1 + MaxChunks * MaxPipeline)]

Statements == {"pong", "segfault", "closeReady", "sendClose", "arm", "cancel",
               "closeSocket"}

VARIABLES
    read,               \* async_read_some is in progress
    running,            \* handleRead is running
    chunk,              \* requests of the data it has not come to
    todo,               \* what it will do before it parses the next one
    closeReceived,      \* closeReceived_
    closeReady,         \* closeReady_
    armed,              \* closeTimer_ is waiting
    expired,            \* handleCloseTimeout calls ready to run, with no error
    closing,            \* handlers of asio that wait in socket_->close()
    open,               \* socket_ has not been closed
    lost,               \* the client is gone
    ended,              \* the client has ended the TLS session, or broken it
    writing,            \* the writer goes on with the front of its queue
    queue, wire, owed, reported,    \* of the writer: see WriteQueue
    crashed,            \* a null or invalid pointer was used
    chunks              \* chunks the client has sent

conn == <<read, running, chunk, todo, closeReceived, closeReady>>
timer == <<armed, expired>>
writer == <<writing, queue, wire, owed, reported>>
others == <<closing, open, lost, ended, crashed, chunks>>
vars == <<conn, timer, writer, others>>

W == INSTANCE WriteQueue

\* procWebSocketRequest, or a handler of asio, waits in socket_->close().
Stopping == todo # <<>> /\ Head(todo) = "closeSocket"
Closing == closing > 0 \/ Stopping

\* Nobody waits for the client: it is gone, or the TCP socket is closed.
Released == lost \/ ~open

Chunks == UNION {[1..n -> Requests] : n \in 0..MaxPipeline}

\* handleRead runs requests of one chunk at a time, the frames are those this
\* connection and its HttpConnection submit, and the timer is set once.
TypeOK ==
    /\ {read, running, closeReceived, closeReady, armed, open, lost, ended,
        writing, crashed} \subseteq BOOLEAN
    /\ closing \in Nat
    /\ chunk \in Seq(Requests) /\ Len(chunk) <= MaxPipeline
    /\ todo \in Seq(Statements)
    /\ expired \in 0..1
    /\ queue \in Seq(Frames) /\ wire \in Seq(Frames)
    /\ owed \subseteq W!Reports /\ reported \subseteq W!Reports
    /\ chunks \in 0..MaxChunks

\* handleRead, called by HttpConnection while the 101 response is in the queue.
Init ==
    /\ read = FALSE /\ running = TRUE
    /\ chunk \in Chunks /\ todo = <<>>
    /\ closeReceived = FALSE /\ closeReady = FALSE
    /\ armed = FALSE /\ expired = 0
    /\ closing = 0 /\ open = TRUE /\ lost = FALSE /\ ended = FALSE
    /\ writing = TRUE
    /\ queue = <<[kind |-> "upgrade", number |-> 1]>> /\ wire = <<>>
    /\ owed = {} /\ reported = {}
    /\ crashed = FALSE
    /\ chunks = 1

-----------------------------------------------------------------------------
(* The chain of reads *)

\* handleRead with an error: the client is gone or has ended the TLS session,
\* or the server ends it or has closed the socket.
ReadsError == read /\ (Released \/ ended \/ Closing)

MutReadFails ==
    /\ ReadsError
    /\ read' = FALSE
    /\ UNCHANGED <<running, chunk, todo, closeReceived, closeReady, timer, writer,
                   others>>
ReadFails ==
    /\ ReadsError
    /\ read' = FALSE
    /\ closing' = closing + IF closeReady THEN 0 ELSE 1
    /\ UNCHANGED <<running, chunk, todo, closeReceived, closeReady, timer, writer,
                   open, lost, ended, crashed, chunks>>

ReadData(c) ==
    /\ read /\ open /\ chunks < MaxChunks
    /\ read' = FALSE /\ running' = TRUE
    /\ chunk' = c
    /\ chunks' = chunks + 1
    /\ UNCHANGED <<todo, closeReceived, closeReady, timer, writer, closing,
                   open, lost, ended, crashed>>

\* close(): closeReady_, a Close frame, the timer.
close == <<"closeReady", "sendClose", "arm">>

\* procWebSocketRequest.
MutAnswer(request) ==
    CASE request = "ping" -> <<"pong">>
      [] request = "longPing" -> <<"segfault">>
      [] request = "close" -> close
Answer(request) ==
    CASE request = "ping" -> <<"pong">>
      [] request = "longPing" -> <<"segfault">>
      [] request = "close" ->
           IF closeReady THEN <<"cancel", "closeSocket">> ELSE close

\* The parser calls back; closeReceived_ is of this chain alone.
ProcRequest ==
    /\ running /\ todo = <<>> /\ chunk # <<>>
    /\ todo' = Answer(Head(chunk))
    /\ chunk' = Tail(chunk)
    /\ closeReceived' = (closeReceived \/ Head(chunk) = "close")
    /\ UNCHANGED <<read, running, closeReady, timer, writer, others>>

\* The end of handleRead.
ReadAgain ==
    /\ running /\ todo = <<>> /\ chunk = <<>>
    /\ running' = FALSE
    /\ read' = ~closeReceived
    /\ UNCHANGED <<chunk, todo, closeReceived, closeReady, timer, writer, others>>

Do(s) ==
    /\ todo # <<>> /\ Head(todo) = s
    /\ todo' = Tail(todo)

InFlight == queue # <<>> /\ W!In(Head(queue), wire)
Accepted == Len(wire) + Len(queue) + IF InFlight THEN 0 ELSE 1

\* sendWebSocketResponse: encodeFrame, then asyncWrite(data, handler).
Send(s, kind) ==
    /\ Do(s)
    /\ W!Submit([kind |-> kind, number |-> Accepted])
    /\ writing' = (writing \/ ~InFlight)
    /\ UNCHANGED <<read, running, chunk, closeReceived, closeReady, timer, others>>

\* encodeFrame takes the value of the length for a pointer to its bytes, when
\* the payload does not fit the first byte.
Segfault ==
    /\ Do("segfault")
    /\ crashed' = TRUE
    /\ UNCHANGED <<read, running, chunk, closeReceived, closeReady, timer, writer,
                   closing, open, lost, ended, chunks>>

MutCloseReady ==
    /\ Do("closeReady")
    /\ UNCHANGED <<closeReady, read, running, chunk, closeReceived, timer, writer,
                   others>>
CloseReady ==
    /\ Do("closeReady")
    /\ closeReady' = TRUE
    /\ UNCHANGED <<read, running, chunk, closeReceived, timer, writer, others>>

\* The timer is set, or cancelled: a handler that is ready runs all the same.
SetTimer ==
    /\ \/ Do("arm") /\ armed' = TRUE
       \/ Do("cancel") /\ armed' = FALSE
    /\ UNCHANGED <<read, running, chunk, closeReceived, closeReady, expired,
                   writer, others>>

\* socket_->close() returns, to procWebSocketRequest or to a handler.
CloseSocket ==
    /\ Do("closeSocket")
    /\ open' = FALSE
    /\ UNCHANGED <<read, running, chunk, closeReceived, closeReady, timer, writer,
                   closing, lost, ended, crashed, chunks>>
CloseReturns ==
    /\ closing > 0
    /\ closing' = closing - 1
    /\ open' = FALSE
    /\ UNCHANGED <<conn, timer, writer, lost, ended, crashed, chunks>>

-----------------------------------------------------------------------------
(* The writer, its handlers and the timer *)

Transmit ==
    /\ writing
    /\ W!Transmit
    /\ UNCHANGED <<writing, conn, timer, others>>

\* What is written to a client that is gone may be buffered all the same; a
\* stream that is being shut down takes nothing more.
Settle(r) ==
    /\ IF r = "ok" THEN open ELSE Released \/ Closing
    /\ W!Settle(r)
    /\ writing' = (r = "ok")
    /\ UNCHANGED <<conn, timer, others>>

\* handleWrite; that of HttpConnection, for the 101 response, closes a socket
\* it no longer has.
MutHandleWrite(o) ==
    /\ W!Report(o)
    /\ closing' = closing + IF closeReady \/ o.frame.kind = "upgrade" THEN 0 ELSE 1
    /\ crashed' = (o.ec = "err" /\ o.frame.kind = "upgrade")
    /\ UNCHANGED <<writing, conn, timer, open, lost, ended, chunks>>
HandleWrite(o) ==
    /\ W!Report(o)
    /\ LET failed == o.ec = "err"
           mine == o.frame.kind # "upgrade"
       IN  /\ closing' = closing + IF failed /\ mine /\ ~closeReady THEN 1 ELSE 0
           /\ crashed' = (failed /\ ~mine)
    /\ UNCHANGED <<writing, conn, timer, open, lost, ended, chunks>>

TimerExpires ==
    /\ armed
    /\ armed' = FALSE /\ expired' = expired + 1
    /\ UNCHANGED <<conn, writer, others>>

HandleCloseTimeout ==
    /\ expired > 0
    /\ expired' = expired - 1
    /\ closing' = closing + 1
    /\ UNCHANGED <<conn, armed, writer, open, lost, ended, crashed, chunks>>

ClientGone ==
    /\ ~lost
    /\ lost' = TRUE
    /\ UNCHANGED <<conn, timer, writer, closing, open, ended, crashed, chunks>>

ClientEnds ==
    /\ ~lost /\ ~ended
    /\ ended' = TRUE
    /\ UNCHANGED <<conn, timer, writer, closing, open, lost, crashed, chunks>>

-----------------------------------------------------------------------------
Handler ==
    \/ ProcRequest \/ ReadAgain
    \/ Send("pong", "Pong") \/ Send("sendClose", "Close")
    \/ Segfault \/ CloseReady \/ SetTimer

\* Nothing is left to do but what the client chooses to do.
Rest ==
    /\ crashed \/ (~running /\ owed = {} /\ ~armed /\ expired = 0)
    /\ UNCHANGED vars

Next ==
    \/ /\ ~crashed
       /\ \/ ReadFails
          \/ \E c \in Chunks : ReadData(c)
          \/ Handler
          \/ CloseSocket \/ CloseReturns
          \/ Transmit
          \/ \E r \in W!Results : Settle(r)
          \/ \E o \in owed : HandleWrite(o)
          \/ TimerExpires
          \/ HandleCloseTimeout
          \/ ClientGone \/ ClientEnds
    \/ Rest

Spec == Init /\ [][Next]_vars

\* The same as of HttpConnection: handlers that are ready run, timers expire,
\* and a read, a write or a close() ends for a client that is gone; a client
\* that stays need not read, answer or end the TLS session.  Two io threads of
\* four at most wait in close() of one connection.
Fairness ==
    /\ WF_vars(~crashed /\ (Released \/ ended) /\ ReadFails)
    /\ WF_vars(~crashed /\ Handler)
    /\ WF_vars(~crashed /\ Released /\ CloseSocket)
    /\ WF_vars(~crashed /\ Released /\ CloseReturns)
    /\ WF_vars(~crashed /\ Transmit)
    /\ WF_vars(~crashed /\ Released /\ \E r \in W!Results : Settle(r))
    /\ WF_vars(~crashed /\ \E o \in owed : HandleWrite(o))
    /\ WF_vars(~crashed /\ TimerExpires)
    /\ WF_vars(~crashed /\ HandleCloseTimeout)

FairSpec == Spec /\ Fairness

-----------------------------------------------------------------------------
(* Properties *)

\* "close frame is already sent" (WebSocketServer.cpp 223): however many Close
\* frames the client sends, in one read or two, it is sent one.
OneCloseFrame ==
    \A i, j \in 1..Len(wire \o queue) :
        (wire \o queue)[i].kind = "Close" /\ (wire \o queue)[j].kind = "Close"
            => (wire \o queue)[i] = (wire \o queue)[j]

\* The server does not hang up on a client that is there and has not asked for
\* it, by a Close frame or by ending the TLS session, whatever timers and
\* writes are in progress.
Cause == lost \/ ended \/ closeReceived
NoHangUp == [][open /\ ~open' => Cause]_vars

\* Nothing reads, and handleRead is over or waits in socket_->close().
Unread == ~read /\ (~running \/ Stopping)

\* A call of socket_->close() waits for a client that is there.
Held == ~lost /\ open /\ Closing

\* When nothing reads the connection any more, its socket is eventually closed:
\* by the failed read, by a second Close frame or by the timer, although after
\* a Close frame neither a failed write nor a read closes it; unless a client
\* that stays for ever keeps socket_->close() itself waiting.
ClosedAfterReading == Unread ~> (~open \/ crashed \/ []Held)
=============================================================================
