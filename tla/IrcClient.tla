----------------------------- MODULE IrcClient -----------------------------
(***************************************************************************)
(* The life of one IrcClient of the pool (IrcClient.cpp): connection,      *)
(* registration under one of the nicknames of the user, QUIT and its       *)
(* timeout, loss of the connection, removal from the pool; with the parts  *)
(* that act on it: the thread of main (Application.cpp), the signal        *)
(* handler of the pool, the io threads, and the IRC server.                *)
(*                                                                         *)
(* An actor is a handler, or main: todo[a] is the list of statements it    *)
(* has still to execute, one at a time, and the actors interleave between  *)
(* statements.  Handlers of one kind run one after the other: a client has *)
(* one connect, at most one read and at most one write in progress.  (What *)
(* is left of a handleWrite when the next write ends is the call of        *)
(* write() that every sender makes too.)                                   *)
(*                                                                         *)
(* The client has a write queue of its own.  sendMessage appends under     *)
(* bufferWriteLock_, then calls write(), which holds writeLock_ to its end *)
(* and is left at the one point where the lock matters: after it has found *)
(* the queue empty, before it resets inWrite_.                             *)
(*                                                                         *)
(* The server may stay and be silent.  socket_->close() waits for it       *)
(* (TcpSslSocket::close), on the io thread that calls it: it shuts the TLS *)
(* stream down, which returns when the server has ended it too or is gone. *)
(***************************************************************************)
EXTENDS Naturals, Sequences

CONSTANTS
    NickCount,      \* nicknameCandidates_.size()
    MaxTraffic      \* bound: PINGs of the server and lines of standard input

ASSUME NickAssumption == NickCount \in Nat \ {0}
ASSUME TrafficAssumption == MaxTraffic \in Nat

Actors == {"connect", "reader", "writer", "timer", "signal", "main"}
ServerMessages == {"433", "001", "PING", "ERROR", "bad"}

VARIABLES
    todo,               \* statements each actor has still to execute
    connecting,         \* async_connect: "pending", "ok", "err", "over"
    connected,          \* ghost: it succeeded
    open,               \* socket_ has not been closed
    reading,            \* async_read_some is in progress
    chunk,              \* messages read and not processed
    out,                \* bufferToWrite_
    inFlight,           \* the message of the socket write, as a sequence
    inWrite,            \* inWrite_
    writeLock,          \* writeLock_ is held, by who is to reset inWrite_
    connectBeginning,   \* connectBeginning_
    index,              \* currentNicknameIndex_, from 1
    nickname,           \* nickname_: an index, 0 before any
    quitReady,          \* quitReady_
    clearMe,            \* clearMe_
    armed,              \* closeTimer_ is waiting
    expired,            \* handleCloseTimeout is ready to run, with no error
    pooled,             \* pool_.clients_ has the client
    clientsLock,        \* clientsLock_ is held, by closeAll
    crashed,            \* the program used a null or dangling pointer
    forced,             \* ghost: forceClose has been called
    ended,              \* main has left the loop that reads standard input
    signaled,           \* the signal has been received
    deaf,               \* procMessage has thrown: nothing reads any more
    stopped,            \* the io threads ran out of work and have returned
    joined,             \* pool.join() has returned
    toClient,           \* what the server has sent
    serverNick,         \* the nickname the server registered, or 0
    serverGone,         \* the server closed the connection
    traffic             \* messages of the server unasked, and lines typed

client == <<connectBeginning, index, nickname, quitReady, clearMe>>
socket == <<connecting, connected, open>>
input == <<reading, chunk>>
output == <<out, inFlight, inWrite, writeLock>>
timer == <<armed, expired>>
pool == <<pooled, clientsLock>>
app == <<ended, signaled, traffic, stopped, joined>>
ghosts == <<crashed, forced, deaf>>
server == <<toClient, serverNick, serverGone>>
vars == <<todo, client, socket, input, output, timer, pool, app, ghosts, server>>

Nicks == 1..NickCount
\* What is sent: "text" is a message the server does not answer (USER, MODE,
\* JOIN, PONG, PRIVMSG).
Messages == {<<"text">>, <<"QUIT">>} \union {<<"NICK", n>> : n \in Nicks}

Statements ==
    {"text", "NICK", "QUIT", "write", "unset", "read", "next",
     "closeSocket", "closed", "closedIfClearMe", "quitReady", "clearMe",
     "keepMe", "arm", "closeAll", "clear", "join"}

\* Every actor runs statements of the program, at most one socket write is in
\* progress, and only nicknames of the user are sent and taken.
TypeOK ==
    /\ todo \in [Actors -> Seq(Statements)]
    /\ connecting \in {"pending", "ok", "err", "over"}
    /\ {connected, open, reading, connectBeginning, quitReady, clearMe, armed,
        expired, pooled, clientsLock, inWrite, writeLock, crashed, forced, deaf,
        ended, signaled, stopped, joined, serverGone}
         \subseteq BOOLEAN
    /\ chunk \in Seq(ServerMessages) /\ toClient \in Seq(ServerMessages)
    /\ out \in Seq(Messages)
    /\ inFlight \in Seq(Messages) /\ Len(inFlight) <= 1
    /\ (inFlight # <<>> => inWrite)
    /\ index \in 1..NickCount + 1
    /\ nickname \in 0..NickCount /\ serverNick \in 0..NickCount
    /\ traffic \in 0..MaxTraffic

\* After Users::load: connect has been called and the client is in the pool.
Init ==
    /\ todo = [a \in Actors |-> <<>>]
    /\ connecting = "pending" /\ connected = FALSE /\ open = TRUE
    /\ reading = FALSE /\ chunk = <<>>
    /\ out = <<>> /\ inFlight = <<>> /\ inWrite = FALSE /\ writeLock = FALSE
    /\ connectBeginning = FALSE /\ index = 1 /\ nickname = 0
    /\ quitReady = FALSE /\ clearMe = FALSE
    /\ armed = FALSE /\ expired = FALSE
    /\ pooled = TRUE /\ clientsLock = FALSE
    /\ crashed = FALSE /\ forced = FALSE /\ deaf = FALSE
    /\ ended = FALSE /\ signaled = FALSE /\ traffic = 0
    /\ stopped = FALSE /\ joined = FALSE
    /\ toClient = <<>> /\ serverNick = 0 /\ serverGone = FALSE

\* What holds a shared_ptr of the client: the pool, the operations of asio,
\* their handlers, and main while it sends a line.  The handler of
\* async_connect does not: it is a lambda that captures this.
Alive ==
    \/ pooled \/ reading \/ inFlight # <<>> \/ armed \/ expired
    \/ \E a \in {"reader", "writer", "timer"} : todo[a] # <<>>
    \/ todo["main"] # <<>> /\ Head(todo["main"]) \in {"text", "write", "unset"}

\* An actor waits in socket_->close().
Shutting == \E a \in Actors : todo[a] # <<>> /\ Head(todo[a]) = "closeSocket"

\* No operation waits for the server: it is gone, or the socket is closed.
Released == ~open \/ serverGone

-----------------------------------------------------------------------------
(* Functions of the program, as the statements they execute *)

forceClose == <<"closeSocket", "closed">>
close(clear) == <<"quitReady", clear, "QUIT", "arm">>

\* An idle actor begins a function.
Begin(a, stmts) == todo[a] = <<>> /\ todo' = [todo EXCEPT ![a] = stmts]

\* An actor executes its next statement, s.
Do(a, s) ==
    /\ todo[a] # <<>> /\ Head(todo[a]) = s
    /\ todo' = [todo EXCEPT ![a] = Tail(@)]

\* An actor executes its next statement, s, which goes on with stmts.
Call(a, s, stmts) ==
    /\ todo[a] # <<>> /\ Head(todo[a]) = s
    /\ todo' = [todo EXCEPT ![a] = stmts \o Tail(@)]

\* s is sendMessage(m): bufferToWrite_.push_back, then write().
sendMessage(a, s, m) ==
    /\ Call(a, s, <<"write">>)
    /\ out' = Append(out, m)
    /\ UNCHANGED <<inFlight, inWrite, writeLock>>

-----------------------------------------------------------------------------
(* Connection *)

\* The system connects and shakes hands, or fails to, or finds the socket
\* closed.
Resolve(r) ==
    /\ connecting = "pending"
    /\ (r = "ok" => open)
    /\ connecting' = r
    /\ UNCHANGED <<todo, client, connected, open, input, output, timer, pool,
                   app, ghosts, server>>

\* The lambda of connect: it uses this, whatever became of the client, only
\* when the connection succeeded.  On an error the client just stays as it is.
ConnectFails ==
    /\ connecting = "err"
    /\ connecting' = "over"
    /\ UNCHANGED <<todo, client, connected, open, input, output, timer, pool,
                   app, ghosts, server>>

Connected ==
    /\ connecting = "ok" /\ Alive
    /\ connecting' = "over" /\ connected' = TRUE
    /\ connectBeginning' = TRUE
    /\ Begin("connect", <<"text", "NICK", "read">>)
    /\ UNCHANGED <<index, nickname, quitReady, clearMe, open, input, output,
                   timer, pool, app, ghosts, server>>

Dangle ==
    /\ ~Alive
    /\ (connecting = "ok" \/ todo["connect"] # <<>>)
    /\ crashed' = TRUE
    /\ UNCHANGED <<todo, client, socket, input, output, timer, pool, app,
                   forced, deaf, server>>

-----------------------------------------------------------------------------
(* Statements *)

Send(a) ==
    /\ \E m \in {"text", "QUIT"} : sendMessage(a, m, <<m>>)
    /\ UNCHANGED <<client, socket, input, timer, pool, app, ghosts, server>>

\* nickname(nicknameCandidates_[0]) or [currentNicknameIndex_]
Candidate(a) == IF a = "connect" THEN 1 ELSE index

MutNick(a) ==
    /\ nickname' = 1
    /\ sendMessage(a, "NICK", <<"NICK", Candidate(a)>>)
    /\ UNCHANGED <<connectBeginning, index, quitReady, clearMe, socket, input,
                   timer, pool, app, ghosts, server>>
Nick(a) ==
    /\ nickname' = Candidate(a)
    /\ sendMessage(a, "NICK", <<"NICK", Candidate(a)>>)
    /\ UNCHANGED <<connectBeginning, index, quitReady, clearMe, socket, input,
                   timer, pool, app, ghosts, server>>

\* write(): whoever finds inWrite_ set leaves; a message that is there is
\* taken out of the queue and written; else inWrite_ is to be reset.
MutWriteBusy(a) ==
    /\ inWrite
    /\ Do(a, "write")
    /\ UNCHANGED output
WriteBusy(a) ==
    /\ ~writeLock /\ inWrite
    /\ Do(a, "write")
    /\ UNCHANGED output
WriteFront(a) ==
    /\ ~writeLock /\ ~inWrite /\ out # <<>>
    /\ Do(a, "write")
    /\ inFlight' = <<Head(out)>> /\ out' = Tail(out)
    /\ inWrite' = TRUE /\ writeLock' = FALSE
WriteNothing(a) ==
    /\ ~writeLock /\ ~inWrite /\ out = <<>>
    /\ Call(a, "write", <<"unset">>)
    /\ inWrite' = TRUE /\ writeLock' = TRUE
    /\ UNCHANGED <<out, inFlight>>
Unset(a) ==
    /\ Do(a, "unset")
    /\ inWrite' = FALSE /\ writeLock' = FALSE
    /\ UNCHANGED <<out, inFlight>>
Write(a) ==
    /\ WriteBusy(a) \/ WriteFront(a) \/ WriteNothing(a) \/ Unset(a)
    /\ UNCHANGED <<client, socket, input, timer, pool, app, ghosts, server>>

Read(a) ==
    /\ Do(a, "read")
    /\ reading' = TRUE
    /\ UNCHANGED <<client, socket, chunk, output, timer, pool, app, ghosts, server>>

\* socket_->close() returns.
CloseSocket(a) ==
    /\ Do(a, "closeSocket")
    /\ open' = FALSE
    /\ forced' = (forced \/ Tail(todo[a]) = <<"closed">>)
    /\ UNCHANGED <<client, connecting, connected, input, output, timer, pool, app,
                   crashed, deaf, server>>

\* IrcClientPool::closed, or nothing if clearMe_ is not set after an ERROR.
MutClosed(a) ==
    /\ \/ Do(a, "closed") /\ ~clientsLock /\ pooled' = FALSE
       \/ Do(a, "closedIfClearMe") /\ pooled' = pooled
    /\ UNCHANGED <<clientsLock, client, socket, input, output, timer, app, ghosts,
                   server>>
Closed(a) ==
    /\ \/ Do(a, "closed") /\ ~clientsLock /\ pooled' = FALSE
       \/ Do(a, "closedIfClearMe") /\ clearMe /\ ~clientsLock /\ pooled' = FALSE
       \/ Do(a, "closedIfClearMe") /\ ~clearMe /\ pooled' = pooled
    /\ UNCHANGED <<clientsLock, client, socket, input, output, timer, app, ghosts,
                   server>>

QuitReady(a) ==
    /\ Do(a, "quitReady")
    /\ quitReady' = TRUE
    /\ UNCHANGED <<connectBeginning, index, nickname, clearMe, socket, input,
                   output, timer, pool, app, ghosts, server>>

ClearMe(a) ==
    /\ \/ Do(a, "clearMe") /\ clearMe' = TRUE
       \/ Do(a, "keepMe") /\ clearMe' = FALSE
    /\ UNCHANGED <<connectBeginning, index, nickname, quitReady, socket, input,
                   output, timer, pool, app, ghosts, server>>

\* The wait holds the client; expires_from_now cancels an earlier wait.
MutArm(a) ==
    /\ Do(a, "arm")
    /\ UNCHANGED <<client, socket, input, output, timer, pool, app, ghosts, server>>
Arm(a) ==
    /\ Do(a, "arm")
    /\ armed' = TRUE
    /\ UNCHANGED <<client, socket, input, output, expired, pool, app, ghosts,
                   server>>

\* closeAll: lock, close(false) for every client in the pool, clear, unlock.
MutCloseAll(a) ==
    /\ ~clientsLock
    /\ clientsLock' = TRUE
    /\ Call(a, "closeAll",
            (IF pooled THEN close("keepMe") \o <<"closed">> ELSE <<>>) \o <<"clear">>)
    /\ UNCHANGED <<pooled, client, socket, input, output, timer, app, ghosts,
                   server>>
CloseAll(a) ==
    /\ ~clientsLock
    /\ clientsLock' = TRUE
    /\ Call(a, "closeAll",
            (IF pooled THEN close("keepMe") ELSE <<>>) \o <<"clear">>)
    /\ UNCHANGED <<pooled, client, socket, input, output, timer, app, ghosts,
                   server>>

Clear(a) ==
    /\ Do(a, "clear")
    /\ pooled' = FALSE
    /\ clientsLock' = FALSE
    /\ UNCHANGED <<client, socket, input, output, timer, app, ghosts, server>>

-----------------------------------------------------------------------------
(* handleRead and procMessage *)

ReadFails ==
    /\ reading /\ (Released \/ Shutting)
    /\ Begin("reader", IF quitReady THEN <<>> ELSE forceClose)
    /\ reading' = FALSE
    /\ UNCHANGED <<client, socket, chunk, output, timer, pool, app, ghosts, server>>

\* n of the messages the server has sent are in what is read.
ReadData(n) ==
    /\ reading /\ open
    /\ Begin("reader", <<"next">>)
    /\ reading' = FALSE
    /\ chunk' = SubSeq(toClient, 1, n)
    /\ toClient' = SubSeq(toClient, n + 1, Len(toClient))
    /\ UNCHANGED <<client, socket, output, timer, pool, app, ghosts, serverNick,
                   serverGone>>

\* With every candidate refused, the client quits.
MutTryNextNickname ==
    IF index > NickCount THEN close("clearMe") ELSE <<"NICK">>
tryNextNickname ==
    IF index + 1 > NickCount THEN close("clearMe") ELSE <<"NICK">>

\* User::onIrcClientConnect: MODE, and JOIN for the one channel of the user.
onConnect == <<"text", "text">>

\* What procMessage does for the next message of the chunk.
Handle(m) ==
    CASE m = "PING" -> <<"text">>
      [] m = "001" -> onConnect
      [] m = "ERROR" /\ quitReady -> <<"closeSocket", "closedIfClearMe">>
      [] m = "433" /\ connectBeginning -> tryNextNickname
      [] OTHER -> <<>>

\* How it ends.  IrcParser rejects a "bad" message, or the message has too few
\* parameters, as the welcome may have: params_.at throws, out of handleRead,
\* which ends the io thread; operator[] and the iterators of 001, 005, NOTICE
\* and PRIVMSG go past the end, which is undefined: the program goes on,
\* throws or crashes.
Outcomes(m) ==
    CASE m = "bad" -> {"next", "throw", "crash", "reject"}
      [] m = "001" -> {"next", "throw", "crash"}
      [] OTHER     -> {"next"}

\* What handleRead does then.
After(end) ==
    CASE end = "next"   -> <<"next">>
      [] end = "reject" -> forceClose
      [] OTHER          -> <<>>

ProcMessage(end) ==
    /\ todo["reader"] = <<"next">> /\ chunk # <<>>
    /\ LET m == Head(chunk)
       IN  /\ end \in Outcomes(m)
           /\ todo' = [todo EXCEPT !["reader"] = Handle(m) \o After(end)]
           /\ connectBeginning' = (connectBeginning /\ m # "001")
           /\ index' = IF m = "433" /\ connectBeginning THEN index + 1 ELSE index
    /\ chunk' = IF end = "next" THEN Tail(chunk) ELSE <<>>
    /\ deaf' = (deaf \/ end = "throw")
    /\ crashed' = (end = "crash")
    /\ UNCHANGED <<nickname, quitReady, clearMe, socket, reading, output, timer,
                   pool, app, forced, server>>

ReadAgain ==
    /\ todo["reader"] = <<"next">> /\ chunk = <<>>
    /\ todo' = [todo EXCEPT !["reader"] = <<"read">>]
    /\ UNCHANGED <<client, socket, input, output, timer, pool, app, ghosts, server>>

-----------------------------------------------------------------------------
(* handleWrite *)

\* The server has the message, and answers it if it is still there.  (After
\* QUIT, too, ServerCloses happens any time, or never.)
WriteDone ==
    /\ inFlight # <<>> /\ connected /\ open /\ ~stopped
    /\ Begin("writer", <<"write">>)
    /\ inFlight' = <<>> /\ inWrite' = FALSE
    /\ LET m == Head(inFlight)
           registering == m[1] = "NICK" /\ serverNick = 0 /\ ~serverGone
           quitting == m[1] = "QUIT" /\ ~serverGone
       IN  \/ /\ registering
              /\ toClient' = Append(toClient, "001")
              /\ serverNick' = m[2]
              /\ serverGone' = serverGone
           \/ /\ registering
              /\ toClient' = Append(toClient, "433")
              /\ UNCHANGED <<serverNick, serverGone>>
           \/ /\ quitting
              /\ toClient' = Append(toClient, "ERROR")
              /\ UNCHANGED <<serverNick, serverGone>>
           \/ /\ ~registering /\ ~quitting
              /\ UNCHANGED <<toClient, serverNick, serverGone>>
    /\ UNCHANGED <<out, writeLock, client, socket, input, timer, pool, app, ghosts>>

\* Writes to a socket that is closed, or being shut down, not connected (yet),
\* or broken.
WriteFails ==
    /\ inFlight # <<>> /\ (Released \/ Shutting \/ ~connected) /\ ~stopped
    /\ Begin("writer", IF quitReady THEN <<>> ELSE forceClose)
    /\ inFlight' = <<>> /\ inWrite' = FALSE
    /\ UNCHANGED <<client, socket, input, out, writeLock, timer, pool, app, ghosts, server>>

-----------------------------------------------------------------------------
(* The timer, main, the signal *)

Expire ==
    /\ armed
    /\ armed' = FALSE /\ expired' = TRUE
    /\ UNCHANGED <<todo, client, socket, input, output, pool, app, ghosts, server>>

handleCloseTimeout ==
    /\ expired
    /\ Begin("timer", forceClose)
    /\ expired' = FALSE
    /\ UNCHANGED <<client, socket, input, output, armed, pool, app, ghosts, server>>

\* client1.lock()->privmsg(...): lock() is null when the client is gone.
Line ==
    /\ ~ended /\ traffic < MaxTraffic
    /\ traffic' = traffic + 1
    /\ Begin("main", IF Alive THEN <<"text">> ELSE <<>>)
    /\ crashed' = ~Alive
    /\ UNCHANGED <<client, socket, input, output, timer, pool, ended, signaled,
                   stopped, joined, forced, deaf, server>>

\* The end of standard input, or an empty line.
EndOfInput ==
    /\ ~ended
    /\ Begin("main", <<"closeAll", "join">>)
    /\ ended' = TRUE
    /\ UNCHANGED <<client, socket, input, output, timer, pool, signaled, traffic,
                   stopped, joined, ghosts, server>>

\* io_service::run returns when no operation is outstanding and no handler is
\* running; signals_.async_wait is one until the signal comes.
OutOfWork ==
    /\ signaled /\ connecting = "over"
    /\ ~reading /\ inFlight = <<>> /\ ~armed /\ ~expired
    /\ \A a \in Actors \ {"main"} : todo[a] = <<>>

RunReturns ==
    /\ OutOfWork /\ ~stopped
    /\ stopped' = TRUE
    /\ UNCHANGED <<todo, client, socket, input, output, timer, pool, ended,
                   signaled, traffic, joined, ghosts, server>>

\* pool.join(): every io thread has returned.
Join ==
    /\ Do("main", "join") /\ stopped
    /\ joined' = TRUE
    /\ UNCHANGED <<client, socket, input, output, timer, pool, ended, signaled,
                   traffic, stopped, ghosts, server>>

Signal ==
    /\ ~signaled
    /\ Begin("signal", <<"closeAll">>)
    /\ signaled' = TRUE
    /\ UNCHANGED <<client, socket, input, output, timer, pool, ended, traffic,
                   stopped, joined, ghosts, server>>

-----------------------------------------------------------------------------
(* What the server does unasked *)

ServerSends(m) ==
    /\ connected /\ ~serverGone
    /\ traffic < MaxTraffic
    /\ traffic' = traffic + 1
    /\ toClient' = Append(toClient, m)
    /\ UNCHANGED <<todo, client, socket, input, output, timer, pool, ended,
                   signaled, stopped, joined, ghosts, serverNick, serverGone>>

\* The server closes the connection, or it is lost.
ServerCloses ==
    /\ connected /\ ~serverGone
    /\ serverGone' = TRUE
    /\ UNCHANGED <<todo, client, socket, input, output, timer, pool, app, ghosts,
                   toClient, serverNick>>

-----------------------------------------------------------------------------
Statement(a) ==
    \/ Send(a) \/ Write(a) \/ Nick(a) \/ Read(a) \/ Closed(a)
    \/ QuitReady(a) \/ ClearMe(a) \/ Arm(a) \/ CloseAll(a) \/ Clear(a)
Step(a) ==
    /\ todo[a] # <<>>
    /\ (a = "connect" => Alive)
    /\ Statement(a)
Endings == {"next", "throw", "crash", "reject"}
Process == ReadAgain \/ \E end \in Endings : ProcMessage(end)

Rest ==
    /\ crashed \/ (/\ \A a \in Actors : todo[a] \in {<<>>, <<"join">>}
                   /\ ~armed /\ ~expired)
    /\ UNCHANGED vars

\* What the program and the system do of themselves.
Progress ==
    \/ Connected \/ ConnectFails \/ Dangle
    \/ \E a \in Actors : Step(a)
    \/ Process
    \/ \E n \in 1..Len(toClient) : ReadData(n)
    \/ Expire \/ handleCloseTimeout
    \/ RunReturns \/ Join

\* What may have to wait for the server.
Waiting ==
    \/ \E r \in {"ok", "err"} : Resolve(r)
    \/ ReadFails
    \/ WriteFails
    \/ \E a \in Actors : CloseSocket(a)

Next ==
    \/ /\ ~crashed
       /\ \/ Progress
          \/ Waiting
          \/ WriteDone
          \/ Line
          \/ EndOfInput
          \/ Signal
          \/ \E m \in {"PING", "bad", "ERROR"} : ServerSends(m)
          \/ ServerCloses
    \/ Rest

Spec == Init /\ [][Next]_vars

\* There is no TLS session to shut down before the handshake is over.
NoSession == ~connected /\ connecting # "ok"

\* The io threads run every handler that is ready, and main runs; timers
\* expire; what the server has sent is read.  What may have to wait for the
\* server ends if the server is gone or the socket is closed, and need not end
\* otherwise: nothing is assumed of the server, nor that a write to it ever
\* succeeds.
\*
\* Something of that happens as long as any is possible.  (Fairness for each
\* part by itself implies it, and would show no more: the bounded model can
\* take finitely many steps only.)
Fairness ==
    WF_vars(/\ ~crashed
            /\ \/ Progress
               \/ Released /\ Waiting
               \/ NoSession /\ \E a \in Actors : CloseSocket(a))

FairSpec == Spec /\ Fairness

-----------------------------------------------------------------------------
(* Properties *)

\* Once the server has registered the client and the client knows it, the
\* client goes by the nickname the server registered.
NicknameAgreed ==
    serverNick # 0 /\ connected /\ ~connectBeginning => nickname = serverNick

\* A client whose socket was closed is out of the pool, once the handlers
\* that close it have run: nothing in the pool is without a connection,
\* except a client that could not connect.
ClosedLeavesPool ==
    ~open /\ (\A a \in Actors : \A i \in 1..Len(todo[a]) :
                todo[a][i] \notin {"closed", "closedIfClearMe", "clear"})
        => ~pooled

\* The lambda of connect uses this without holding the client.  Shutting down
\* while the connection is being made is safe all the same, because the wait
\* of the close timer holds it: only forceClose, after a failed write or the
\* timeout, can free the client before the lambda is done.
LambdaOutlived ==
    ~Alive /\ (connecting \in {"pending", "ok"} \/ todo["connect"] # <<>>)
        => forced

\* No lost wakeup in the client's write queue: on a connection that works, a
\* message that no write will fetch is still to be followed by the write() of
\* somebody.  A sender, the sender before it that found the queue empty, and
\* the handler of the last write never leave it to each other.
NothingStranded ==
    out # <<>> /\ ~inWrite /\ connected /\ ~Released /\ ~Shutting
        => \E a \in Actors : \E i \in 1..Len(todo[a]) :
             todo[a][i] \in {"text", "NICK", "QUIT", "write"}

\* When pool.join() has returned, so that main goes on to stop the HTTP server
\* and to destroy the pool, the client has been closed and is out of the pool:
\* whatever became of its connection, registration or QUIT, and although the
\* thread of its reader may have died, the io threads do not return before.
JoinedClosed == joined => ~open /\ ~pooled

\* socket_->close() waits for a server that is there.
Held == ~Released /\ Shutting

\* A client that is to quit, or has lost its connection, is closed, removed
\* from the pool and freed: no handler, timer or write keeps it for ever, and
\* closeAll does not wait for itself.  Only a server that stays for ever, and
\* does not end the TLS session, can keep socket_->close() from returning.
\* (A client whose reader has thrown does not see that the connection is lost:
\* it is freed when it is to quit.)
ClosedAndFreed ==
    \/ quitReady \/ (connected /\ serverGone)
         ~> \/ ~open /\ (~Alive \/ stopped)
            \/ crashed
            \/ deaf /\ ~quitReady
    \/ <>[]Held

\* Once standard input has ended and a signal has come, join returns, with the
\* same exception.  (The end of input alone is not enough: signals_.async_wait
\* keeps the threads running.)
EventuallyJoined == (ended /\ signaled ~> joined \/ crashed) \/ <>[]Held
=============================================================================
