--------------------------- MODULE HttpConnection ---------------------------
(***************************************************************************)
(* One HttpConnection of the SSL server (HttpServer.cpp) and its client.   *)
(* Three things run on the io threads, side by side: the chain of reads    *)
(* (handleHandshake, handleRead, procHttpRequest), the handlers of the     *)
(* writes (handleWrite) and the keep-alive timer.  The frames go through   *)
(* the socket's BufferedWriterSocket, taken here as what it promises, an   *)
(* instance of WriteQueue, with the one thing a caller must know besides:  *)
(* after a failed write it stops until asyncWrite is called again.         *)
(*                                                                         *)
(* The client may stay and be silent: send nothing, read nothing, answer   *)
(* nothing.  close() waits for it (TcpSslSocket::close), on its io thread: *)
(* it shuts the TLS stream down, which returns when the client has done    *)
(* its part or is gone, and closes the TCP socket only then.               *)
(*                                                                         *)
(* handleRead is a list of statements, todo, that is executed one at a     *)
(* time: between any two of them a write may complete or the timer run.    *)
(* A read returns a chunk of whole requests; a request is its kind.  An    *)
(* operator Mut<Name> is <Name> with a bug a change of that code could     *)
(* introduce; Next does not use it.                                        *)
(***************************************************************************)
EXTENDS Integers, Sequences

CONSTANTS
    KeepAliveMax,   \* http_server_keep_alive_max_count
    CountModulus,   \* keepAliveCount_ wraps: 2^64 in the program
    MaxChunks,      \* bound: chunks the client sends
    MaxPipeline     \* bound: requests in a chunk

ASSUME CountAssumption ==
    /\ CountModulus \in Nat \ {0}
    /\ KeepAliveMax \in 0..CountModulus - 1

ASSUME BoundAssumption == MaxChunks \in Nat /\ MaxPipeline \in Nat

\* A request is keep-alive or not; asks for the web socket, with another
\* version or HTTP/1.0, without one of the headers the upgrade needs, or for
\* another protocol; has no origin-form target (completeRequest fails); or is
\* no HTTP at all.
Kinds == {"keep", "close", "webSocket", "wrongVersion", "noHeader",
          "otherProtocol", "noTarget", "malformed"}

\* The bound on frames the bounds on chunks and requests imply.
Frames == 1..(4 * MaxChunks * MaxPipeline)

Statements == {"send", "arm", "stop", "fail", "upgrade", "throw",
               "leave", "close"}

VARIABLES
    read,               \* the outstanding operation of the chain of reads
    running,            \* handleRead is running
    chunk,              \* requests of the data it has not parsed
    todo,               \* what it will do before it parses the next one
    parser,             \* http_parser: "ok", or "stopped" by an error
    continueRead,       \* continueRead_
    keepAliveCount,     \* keepAliveCount_
    armed,              \* keepAliveTimer_ is waiting
    expired,            \* its handler is ready to run, with no error
    socket,             \* socket_: "own", or "moved" to the web socket
    shutting,           \* calls of handleWrite that wait in close()
    closedBy,           \* who closed the TCP socket first
    lost,               \* the client is gone
    writing,            \* the writer goes on with the front of its queue
    queue, wire, owed, reported,    \* of the writer: see WriteQueue
    crashed,            \* a null socket_ was used
    chunks,             \* chunks the client has sent
    promises            \* responses that promised to keep the connection

conn == <<read, running, chunk, todo, parser, continueRead, keepAliveCount>>
timer == <<armed, expired>>
writer == <<writing, queue, wire, owed, reported>>
others == <<socket, shutting, closedBy, lost, crashed, chunks, promises>>
vars == <<conn, timer, writer, others>>

W == INSTANCE WriteQueue

open == closedBy = "nobody"

\* The end of socket_->close(), again and again without harm.
CloseSocket(who) == closedBy' = IF open THEN who ELSE closedBy

\* handleRead waits in close().
Closing == todo # <<>> /\ Head(todo) = "close"

\* Nobody waits for the client: it is gone, or the TCP socket is closed.
Released == lost \/ ~open

InFlight == queue # <<>> /\ W!In(Head(queue), wire)

\* The connection reads, or runs the statements of handleRead, with chunks no
\* longer than the client sends and the keep-alive count within its width.
TypeOK ==
    /\ read \in {"handshake", "pending", "none"}
    /\ running \in BOOLEAN
    /\ chunk \in Seq(Kinds) /\ Len(chunk) <= MaxPipeline
    /\ todo \in Seq(Statements)
    /\ parser \in {"ok", "stopped"}
    /\ continueRead \in BOOLEAN
    /\ keepAliveCount \in 0..CountModulus - 1
    /\ armed \in BOOLEAN /\ expired \in Nat
    /\ socket \in {"own", "moved"}
    /\ shutting \in Nat
    /\ closedBy \in {"nobody", "read", "write"}
    /\ {lost, writing, crashed} \subseteq BOOLEAN
    /\ queue \in Seq(Frames) /\ wire \in Seq(Frames)
    /\ owed \subseteq W!Reports /\ reported \subseteq W!Reports
    /\ chunks \in 0..MaxChunks /\ promises \in Nat

Init ==
    /\ read = "handshake"
    /\ running = FALSE
    /\ chunk = <<>> /\ todo = <<>>
    /\ parser = "ok"
    /\ continueRead = TRUE
    /\ keepAliveCount = KeepAliveMax
    /\ armed = FALSE /\ expired = 0
    /\ socket = "own" /\ lost = FALSE
    /\ shutting = 0 /\ closedBy = "nobody"
    /\ writing = FALSE
    /\ W!Init
    /\ crashed = FALSE /\ chunks = 0 /\ promises = 0

-----------------------------------------------------------------------------
(* The chain of reads *)

\* The handshake fails if the client is gone, or does not do its part.
HandshakeDone ==
    /\ read = "handshake"
    /\ read' \in IF lost THEN {"none"} ELSE {"none", "pending"}
    /\ UNCHANGED <<running, chunk, todo, parser, continueRead, keepAliveCount,
                   timer, writer, others>>

\* The client may also end the TLS session, or break it, and stay.
ReadsError == read = "pending"
ReadsData == read = "pending" /\ open /\ chunks < MaxChunks

\* handleRead after the keep-alive timeout: it returns, whatever was read.
ReadAfterTimeout ==
    /\ ~continueRead
    /\ ReadsError
    /\ read' = "none"
    /\ UNCHANGED <<running, chunk, todo, parser, continueRead, keepAliveCount,
                   timer, writer, others>>

\* handleRead with an error: it calls close().
ReadFails ==
    /\ continueRead /\ ReadsError
    /\ read' = "none" /\ running' = TRUE
    /\ armed' = FALSE
    /\ todo' = <<"close">>
    /\ UNCHANGED <<chunk, parser, continueRead, keepAliveCount, expired, writer,
                   others>>

ReadData(c) ==
    /\ continueRead /\ ReadsData
    /\ read' = "none" /\ running' = TRUE
    /\ armed' = FALSE
    /\ chunk' = c
    /\ chunks' = chunks + 1
    /\ UNCHANGED <<todo, parser, continueRead, keepAliveCount, expired, writer,
                   socket, shutting, closedBy, lost, crashed, promises>>

\* sendHttpResponse: a frame for the header and one for the body.
Response == <<"send", "send">>
BadRequest == Response \o <<"leave">>

\* What procHttpRequest does for a request, and what parse and handleRead
\* make of its result.
MutProgram(kind, keepAlive) ==
    CASE kind \in {"keep", "close"} ->
           Response \o IF keepAlive THEN <<"arm">> ELSE <<>>
      [] kind = "webSocket" -> <<"send", "upgrade">>
      [] kind = "otherProtocol" -> Response \o BadRequest
      [] kind = "noHeader" -> <<"throw">>
      [] kind = "noTarget" -> <<"fail">>
      [] OTHER -> BadRequest
Program(kind, keepAlive) ==
    CASE kind \in {"keep", "close"} ->
           Response \o IF keepAlive THEN <<"arm">> ELSE <<"stop">>
      [] kind = "webSocket" -> <<"send", "upgrade">>
      [] kind = "otherProtocol" ->
           Response \o (IF keepAlive THEN <<"arm">> ELSE <<"stop">>)
                    \o BadRequest
      [] kind = "noHeader" -> <<"throw">>
      [] kind = "noTarget" -> <<"fail">>
      [] OTHER -> BadRequest

\* completeRequest calls back procHttpRequest, which takes one off the
\* keep-alive count, for a request it could parse.
MutParseRequest ==
    /\ running /\ todo = <<>> /\ parser = "ok" /\ chunk # <<>>
    /\ todo' = Program(Head(chunk), Head(chunk) # "close" /\ keepAliveCount > 0)
    /\ keepAliveCount' = keepAliveCount - 1
    /\ chunk' = Tail(chunk)
    /\ UNCHANGED <<read, running, parser, continueRead, timer, writer, others>>
ParseRequest ==
    /\ running /\ todo = <<>> /\ parser = "ok" /\ chunk # <<>>
    /\ LET kind == Head(chunk)
           called == kind \notin {"noTarget", "malformed"}
       IN  /\ todo' = Program(kind, kind # "close" /\ keepAliveCount > 0)
           /\ keepAliveCount' =
                IF called THEN (keepAliveCount - 1) % CountModulus
                          ELSE keepAliveCount
    /\ chunk' = Tail(chunk)
    /\ UNCHANGED <<read, running, parser, continueRead, timer, writer, others>>

\* Bytes after the request at which http_parser stopped: a bad request.
ParseFails ==
    /\ running /\ todo = <<>> /\ parser = "stopped" /\ chunk # <<>>
    /\ todo' = BadRequest
    /\ chunk' = <<>>
    /\ UNCHANGED <<read, running, parser, continueRead, keepAliveCount, timer,
                   writer, others>>

\* The end of handleRead.
ReadAgain ==
    /\ running /\ todo = <<>> /\ chunk = <<>>
    /\ running' = FALSE
    /\ read' = IF continueRead THEN "pending" ELSE "none"
    /\ UNCHANGED <<chunk, todo, parser, continueRead, keepAliveCount, timer,
                   writer, others>>

Do(s) ==
    /\ todo # <<>> /\ Head(todo) = s
    /\ todo' = Tail(todo)

\* sendRaw: asyncWrite(data, handler).
Send ==
    /\ Do("send")
    /\ W!Submit(Len(wire) + Len(queue) + IF InFlight THEN 0 ELSE 1)
    /\ writing' = (writing \/ ~InFlight)
    /\ UNCHANGED <<read, running, chunk, parser, continueRead, keepAliveCount,
                   timer, others>>

\* setKeepAliveTimeout, after a response that promised to keep the connection.
SetKeepAliveTimeout ==
    /\ Do("arm")
    /\ armed' = TRUE
    /\ promises' = promises + 1
    /\ UNCHANGED <<read, running, chunk, parser, continueRead, keepAliveCount,
                   expired, writer, socket, shutting, closedBy, lost, crashed,
                   chunks>>

\* procHttpRequest returns false, which stops http_parser.
StopReading ==
    /\ Do("stop") \/ Do("fail")
    /\ parser' = "stopped"
    /\ continueRead' = (continueRead /\ Head(todo) = "fail")
    /\ UNCHANGED <<read, running, chunk, keepAliveCount, timer, writer, others>>

\* The socket is moved to a WebSocketConnection, with the rest of the data.
Upgrade ==
    /\ Do("upgrade")
    /\ socket' = "moved"
    /\ running' = FALSE /\ chunk' = <<>>
    /\ UNCHANGED <<read, parser, continueRead, keepAliveCount, timer, writer,
                   shutting, closedBy, lost, crashed, chunks, promises>>

\* at() throws out of handleRead, which ends the io thread it runs on.
Throw ==
    /\ Do("throw")
    /\ running' = FALSE /\ chunk' = <<>>
    /\ UNCHANGED <<read, parser, continueRead, keepAliveCount, timer, writer,
                   others>>

\* handleRead returns and nothing reads: "socket closed after writing".
Leave ==
    /\ Do("leave")
    /\ running' = FALSE /\ chunk' = <<>>
    /\ UNCHANGED <<read, parser, continueRead, keepAliveCount, timer, writer,
                   others>>

\* close() returns to handleRead.
CloseByRead ==
    /\ Do("close")
    /\ running' = FALSE
    /\ CloseSocket("read")
    /\ UNCHANGED <<read, chunk, parser, continueRead, keepAliveCount, timer,
                   writer, socket, shutting, lost, crashed, chunks, promises>>

-----------------------------------------------------------------------------
(* The writer, its handlers and the timer *)

Transmit ==
    /\ writing
    /\ W!Transmit
    /\ UNCHANGED <<writing, conn, timer, others>>

\* What is written to a client that is gone may be buffered all the same; a
\* stream that is being shut down takes nothing more.
Settle(r) ==
    /\ IF r = "ok" THEN open ELSE Released \/ Closing \/ shutting > 0
    /\ W!Settle(r)
    /\ writing' = (r = "ok")
    /\ UNCHANGED <<conn, timer, others>>

HandleWriteOk(o) ==
    /\ o.ec = "ok"
    /\ W!Report(o)
    /\ UNCHANGED <<writing, conn, timer, others>>

\* close(), called by handleWrite: socket_ is null once it has been moved.
MutHandleWriteFails(o) ==
    /\ o.ec = "err"
    /\ W!Report(o)
    /\ UNCHANGED <<writing, conn, timer, others>>
HandleWriteFails(o) ==
    /\ o.ec = "err"
    /\ W!Report(o)
    /\ armed' = FALSE
    /\ IF socket = "own" THEN shutting' = shutting + 1 /\ crashed' = crashed
                         ELSE crashed' = TRUE /\ shutting' = shutting
    /\ UNCHANGED <<writing, conn, expired, socket, closedBy, lost, chunks,
                   promises>>

\* close() returns to handleWrite.
CloseByWrite ==
    /\ shutting > 0
    /\ shutting' = shutting - 1
    /\ CloseSocket("write")
    /\ UNCHANGED <<conn, timer, writer, socket, lost, crashed, chunks, promises>>

TimerExpires ==
    /\ armed
    /\ armed' = FALSE /\ expired' = expired + 1
    /\ UNCHANGED <<conn, writer, others>>

\* handleKeepAliveTimeout.  The read in progress, if any, goes on.
HandleKeepAliveTimeout ==
    /\ expired > 0
    /\ expired' = expired - 1
    /\ continueRead' = FALSE
    /\ UNCHANGED <<read, running, chunk, todo, parser, keepAliveCount, armed,
                   writer, others>>

ClientGone ==
    /\ ~lost
    /\ lost' = TRUE
    /\ UNCHANGED <<conn, timer, writer, socket, shutting, closedBy, crashed,
                   chunks, promises>>

-----------------------------------------------------------------------------
Chunks == UNION {[1..n -> Kinds] : n \in 1..MaxPipeline}

\* handleRead goes on by itself.
Handler ==
    \/ ParseRequest \/ ParseFails \/ ReadAgain
    \/ Send \/ SetKeepAliveTimeout \/ StopReading \/ Upgrade \/ Throw \/ Leave

\* What may have to wait for the client.
Waiting ==
    \/ ReadFails \/ ReadAfterTimeout
    \/ CloseByRead \/ CloseByWrite
    \/ \E r \in W!Results : Settle(r)

Progress ==
    \/ Handler
    \/ Transmit
    \/ \E o \in owed : HandleWriteOk(o) \/ HandleWriteFails(o)
    \/ TimerExpires
    \/ HandleKeepAliveTimeout

\* Nothing is left to do but what the client chooses to do.
Rest ==
    /\ crashed \/ (~running /\ owed = {} /\ ~armed /\ expired = 0)
    /\ UNCHANGED vars

Next ==
    \/ /\ ~crashed
       /\ \/ Progress
          \/ Waiting
          \/ HandshakeDone
          \/ \E c \in Chunks : ReadData(c)
          \/ ClientGone
    \/ Rest

Spec == Init /\ [][Next]_vars

\* The io threads run every handler that is ready, and timers expire.  What
\* may have to wait for the client ends if the client is gone or the socket is
\* closed, and need not end otherwise: the client owes nothing, it may neither
\* read nor answer and stay.  This connection takes no more than two of the
\* four io threads for good, by close() or by an exception.
Fairness ==
    /\ WF_vars(~crashed /\ Handler)
    /\ WF_vars(~crashed /\ Transmit)
    /\ WF_vars(~crashed /\ \E o \in owed : HandleWriteOk(o) \/ HandleWriteFails(o))
    /\ WF_vars(~crashed /\ TimerExpires)
    /\ WF_vars(~crashed /\ HandleKeepAliveTimeout)
    /\ WF_vars(~crashed /\ Released /\ (HandshakeDone \/ ReadFails \/ ReadAfterTimeout))
    /\ WF_vars(~crashed /\ Released /\ CloseByRead)
    /\ WF_vars(~crashed /\ Released /\ CloseByWrite)
    /\ WF_vars(~crashed /\ Released /\ \E r \in W!Results : Settle(r))

FairSpec == Spec /\ Fairness

-----------------------------------------------------------------------------
(* Properties *)

\* What holds a shared_ptr of the connection: an operation in progress, the
\* handlers that run, the timer, and the handlers of frames in the writer,
\* which the connection itself owns.
Alive == read # "none" \/ running \/ shutting > 0 \/ armed \/ expired > 0
         \/ queue # <<>> \/ owed # {}

\* The socket is closed, by close() or because the connection is destroyed.
Closed == ~open \/ (socket = "own" /\ ~Alive)

\* No more keep-alive responses than keep_alive_max_count, although the count
\* wraps when the last request is served: the parser stops in time, also when
\* requests are pipelined.
KeepAliveBound == promises <= KeepAliveMax

\* Nothing reads any more, and nothing is left of handleRead but its close().
Unread == read = "none" /\ socket = "own" /\ (~running \/ Closing)

\* The client is there and the server waits for it: for it to read what is
\* written to it, or in close() for the end of the TLS session.
Held == ~lost /\ open /\ (InFlight \/ Closing \/ shutting > 0)

\* "do not continue read -> socket closed after writing" (HttpServer.cpp 276
\* and 292), and the same after a failed handshake, after a response that
\* does not keep the connection, after an exception and after a read error:
\* when nothing reads the connection any more, its socket is eventually
\* closed, unless the client stays for ever and never lets the server finish.
ClosedAfterWriting == Unread ~> (Closed \/ []Held)

\* "close(); // implies forcely canceling write" (HttpServer.cpp 264): every
\* write that was submitted is over soon after handleRead called close().
CloseCancelsWrites == closedBy = "read" ~> queue = <<>>

\* close() finds a socket to close, in handleRead and in handleWrite
\* ("implies forcely canceling read", HttpServer.cpp 310).
CloseFindsSocket == ~crashed
=============================================================================
