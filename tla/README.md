# A verification of SudaGureum in TLA+

SudaGureum (`src/SudaGureum/`, C++) is an IRC bouncer: it keeps connections to
IRC servers for its users, and serves browsers over HTTPS, which upgrade to a
web socket. Everything runs as callbacks of asio on threads that share an
`io_service`: four threads for the IRC clients, four for the HTTP server, and
the main thread, which reads lines from standard input. The repository has no
tests and its README is a title, so the reference is the code and its comments.

Paths below are relative to `src/SudaGureum/`. `PROJECT.json` holds the
components, the runs, the map from definitions to source lines, the hazards and
the theorems.

## Components

| Component | State | Operations | Talks to |
|---|---|---|---|
| `BufferedWriterSocket` (Socket.h) | deque of frames with their handlers, two mutexes, `inWrite_` | `asyncWrite(data, handler)`, `asyncWrite()`, `handleWrite`, `close` | called by connections on any io thread; calls back their handlers |
| `HttpConnection` (HttpServer.cpp) | `socket_`, `parser_`, `continueRead_`, `keepAliveCount_`, `keepAliveTimer_` | `handleHandshake`, `handleRead`, `procHttpRequest`, `handleWrite`, `handleKeepAliveTimeout`, `close` | the writer, the parser, the resource processors; moves its socket to a `WebSocketConnection` |
| `HttpServer` | acceptor, next connection, processors | accept, re-arm | makes `HttpConnection`s |
| `HttpParser` | request being read, over http_parser | `parse`, `completeRequest` | calls back `procHttpRequest` |
| `WebSocketConnection` (WebSocketServer.cpp) | `closeReady_`, `closeReceived_`, timer, parser | read, close handshake, requests | the writer |
| `WebSocketParser` | frame and payload states | `parse` | calls back the connection |
| `IrcClient` (IrcClient.cpp) | socket, own write deque with two mutexes and `inWrite_`, nickname candidates, `quitReady_`, `clearMe_`, timer, channels | connect, read, write, `procMessage`, `close`, `forceClose` | IRC server, its pool, events to `User` |
| `IrcClientPool` | map of clients under `clientsLock_`, signals | `connect`, `closed`, `closeAll` | owns the clients; main and the signal handler call `closeAll` |
| `IrcParser` | state, buffer | `parse` | calls back `procMessage` |
| `Users`, `User` (User.cpp) | users, their servers | `load`, `connectToServers`, event handlers | the pool, `Archive` |
| `UserContext`, `UserSessions` (User.cpp, Session.cpp) | who a connection is; sessions under a mutex | `authorize`, `alloc`, `get` | `Users::checkPassword`; no caller yet |
| `Archive`, `ArchiveDB`, `UserDB` (DB.cpp) | SQLite | fetch, insert | `User`; no caller yet |
| `SCrypt`, `Utility` | none | hash check, encodings | `Users`, HTTP |
| `MtIoService` | threads | `run`, `stop`, `join` | runs every handler |
| `Application` | none | start, loop on standard input, stop | everything |
| `Configure`, `Log`, `Event`, `Singleton`, ... | values, a log | | |

What is hard here:

* handlers of one connection run at the same time on different threads, with
  flags that are not atomic and timers whose handlers may be queued when they
  are cancelled;
* the write queue is shared by all of them, and the socket writes out of a
  buffer inside it;
* lifetime is by `shared_ptr` in handlers: an object lives as long as some
  operation holds it, and two places do not hold what they use (the handler of
  `IrcClient::connect`, the socket an upgrade moves);
* failure is by closing the socket and waiting for the operations to fail, in
  any order; and closing it waits for the peer, since the sockets are
  `TcpSslSocket`s whose `close()` shuts the TLS session down synchronously
  (Socket.cpp 113);
* parsers keep a state between reads that cut messages anywhere.

What makes each component correct: the writer sends every frame once, in order,
and reports each with its own result, without losing a wakeup; an HTTP
connection keeps its keep-alive bound and is closed when nobody reads it; a
client agrees with its server on its nickname, leaves the pool when its
connection ends and is freed; a parser gives the same messages however its
input is cut; a channel's participants are those the server told of; an archive
query returns the lines of its range, each once however the range is cut; a
password is checked against its hash.

## Modules

* `WriteQueue` - the promise of a buffered writer: frames are submitted to a
  queue, transmitted one at a time and in order, settled, and reported once.
* `BufferedWriter` - the code of `BufferedWriterSocket`. Each io thread has a
  program counter (`pc`); the labels are the points of `asyncWrite` and
  `handleWrite` between which another thread can see or change something.
  `bufferToWrite`, `inWrite`, `bufferLock`, `writeLock` are the members of the
  class; `ops` is the write in progress at asio; `wire` and `reported` are the
  history. `ImplementsWriteQueue` is the refinement: a frame leaves the queue at
  `pop_front` and is owed a report until its handler is called.
  `MCBufferedWriter` has the instances, `BufferedWriterProofs` the theorems.
* `HttpConnection` - one connection and its client. `handleRead` is a list of
  statements (`todo`) executed one by one, so that writes and the timer come in
  between; "throw" is an `at()` that throws out of it. `close()` waits for the
  client: `handleRead` stays at its statement, and `shutting` counts the calls of
  `handleWrite` that wait. The writer is an `INSTANCE` of `WriteQueue`, plus `writing`: after a
  failed write it stops until `asyncWrite` is called again (Socket.h 192-195).
  `HttpConnectionProofs` has the theorems.
* `IrcClient` - one client, its pool, main, the signal handler and the IRC
  server. Each actor is a list of statements; handlers of one kind run one
  after the other, handlers of different kinds interleave. `sendMessage` is two
  statements, the append and `write()`, and `write()` is cut where it matters:
  whoever found the queue empty holds `writeLock` until it resets `inWrite`.
  "closeSocket" is `close()`, at which an actor may wait for the server.
  `Outcomes` says how a message may end `procMessage`: it goes on, throws, or
  reads past the parameters, which is undefined.
  `RunReturns` is `io_service::run` running out of work, `Join` main's
  `pool.join()`. `IrcClientProofs` has the theorems: the write queue, the pool, the
  lambda of `connect`, the nickname.
* `Archive`, `Accounts` - what the program keeps of its users: the table `Log`
  and the two queries (`fetchRange`, `fetchLast`, in ticks and whole seconds);
  the password hashes, the sessions and the contexts that log in. `MCAccounts`
  has the instance, `AccountsProofs` the theorems.
* `IrcChannel` - what a client knows of its channels, against the server's own
  view, which is external: members and their modes, the messages the server
  sends of every change. `Join`, `Part`, `NamReply` and `Mode` are the branches
  of `procMessage`; QUIT, KICK and NICK have none. A MODE is read one letter a
  step (`ModeLetter`), with the count of the parameters taken, as the loop of the
  code does; the server's view of the same message is `Ranked`. Two ghosts say
  what the client cannot be expected to know: `stale`, who quit, was kicked or
  changed nicknames, and `misled`, who was named in a MODE that the client reads
  with the parameters shifted. `MCIrcChannel` has the MODE messages,
  `IrcChannelProofs` the theorems.
* `IrcParser` - `parse`, one character at a time (so a read may end at any), one
  action per state, and `parseMessage`: the words of a line (`Words`), and what is
  read of them one after the other (`Parsed`), both recursive functions.
  `encodeMessage` of IrcClient.cpp is its inverse. `IrcParserProofs` has the theorems.
* `WebSocketConnection` - the connection an upgrade makes, from its first
  `handleRead`: `todo` as in `HttpConnection`, the writer again `WriteQueue`;
  `closing` counts the handlers that wait in `close()`.
  `WebSocketConnectionProofs` has the theorems.
* `WebSocketParser` - `parse`, one byte at a time, over the frames a client
  sends; `parseFrame`, `parseEmptyFrame` and `parsePayload` at the end of each. A
  piece of text is a payload and the key it was decoded with (`Piece`), and reads
  as what that key makes of it (`PartsOf`). `Crashes` is the failed assert.
  `Reference` says what the client means by its frames. `MCWebSocketParser` has
  the frames, `WebSocketParserProofs` the theorems.

Nothing joins `WebSocketConnection` and `WebSocketParser`, or `IrcClient` and
`IrcParser`: a connection sees of its parser what it calls back, one request
after the other, and the parser keeps nothing that a connection reads.

An operator `Mut<Name>` is `<Name>` with a bug that a change of the code could
introduce. No specification uses it; replacing `<Name>` by it makes a property
of a run fail, which is how each property is shown to depend on the code.

### What the models abstract

* The deque is read without its lock at Socket.h 151-156 and 180. The reader
  sees it before or after a concurrent append: both are behaviours of the
  model. What else an unsynchronized read of a `std::deque` could give is not.
* A frame of zero bytes is a frame of the set `EmptyFrames`. It arises from a
  response with an empty body.
* A chunk of HTTP is a sequence of whole requests, a request its kind: the
  bytes, the headers and the resource are not there. Half requests would only
  delay `ParseRequest`. A request that makes `headers_.at` throw (332, 340, 355)
  is one kind.
* `close()` is one step, which a silent peer may delay for ever; what it waits for
  is not taken apart. It runs on one io thread while a read or a write of the same
  TLS stream may run on another: asio does not allow that, what it does is
  undefined, and only that such operations fail, or go on, is modelled. When two
  calls of `close()` meet, each returns when the peer lets it.
* The four io threads are not counted. One connection keeps two of them at most
  for good, in `close()` or by an exception: `handleRead` or the timer, and one
  `handleWrite` (the writer stops when a write has failed). Several such
  connections could keep them all; the models have one.
* `keepAliveCount_` wraps at `CountModulus`, in place of 2^64.
* A message to the IRC server is `text` (nothing depends on it), `NICK` or
  `QUIT`; one from it is one of those that change the life of the client. The
  messages of channels are in `IrcChannel`.
* `bufferWriteLock_` of `IrcClient` guards single steps and is not there;
  `writeLock_` is.
* `User::onIrcClientConnect` joins one channel, as `Users::load` gives the user.
* Rows of the archive are a user, server and channel, and a second. SQLite
  answers a statement by what it says. Lines come with any time, in any order.
* Nothing in `src/` calls `Archive` or `UserContext::authorize` yet: their
  callers are external and may do anything with the arguments of their types.
* A hash is its number of parts, its format and the password it was made of:
  what `crypto_scrypt` computes, and the parts 2 to 4, are not there. The
  branches of `check` behind its first test are one comparison.
* In `IrcChannel` the server goes on when the client has processed what it was
  sent. Nothing the server does depends on the client, so a server that is
  further ahead sends the same messages. Participants have two modes of five,
  channels no topic, and the client's own nickname does not change. Of the other
  letters of MODE, `k` stands for those of lines 484-498, which have a parameter
  that is not taken; `f` for a letter of the third group of CHANMODES; `i` for one
  without a parameter. A parameter is any nickname, or none (`Key`). A letter of
  PREFIX that is none of `qaohv` occurs in the names of a channel, where it throws
  (317; `odd`).
* A character of an IRC line is a CR, a LF, a space, a colon, a letter or a
  digit. Letters and digits of one kind are alike to `parseMessage`.
* A web socket frame has its sizes and its payload's part in a JSON request.
  Lengths that need 2 or 8 bytes are given the small sizes of the instance: the
  parser compares them with what it has buffered, and with nothing else. What a
  payload reads as with each key is any function of the key (`as`). A text that
  `ParseInsitu` has failed on before and has written into is no JSON the next
  time either. A payload with a NUL in it is not modelled. With `NDEBUG`, what JSON
  without its members does is undefined: in the model it is called back, or
  nothing more is parsed.
* Messages of a web socket are left out of `WebSocketConnection`:
  `procSudaGureumRequest` only asks for a parameter (245), `params_` is empty,
  and `parsePayload` takes the exception (341).
* A write to a socket that is not connected yet may fail or wait, as the
  systems differ (`WriteFails`, `WriteDone`).
* A message of the IRC server that lacks a parameter is `bad`, and the welcome may
  lack them: `at()` throws out of `handleRead`, and nothing reads any more
  (`deaf`); `operator[]` and the iterators of 001, 005, NOTICE and PRIVMSG go past
  the end, after which the program goes on, throws or crashes. A resource
  processor that throws anything but `out_of_range` is not modelled.
* In `IrcClient`, nothing is written once the io threads have returned: a message
  sent after that stays with the `io_service` until it is destroyed.

## Runs

| Run | Shows | States | Bounds |
|---|---|---|---|
| `bw` | types, `FrontIsBorrowed`, `NoLostWakeup`, refinement of `WriteQueue`, `EventuallyReported`, `CallsReturn` | 62 932 | 3 threads, 3 frames of which one empty, all faults |
| `http` | types, `KeepAliveBound`, `ClosedAfterWriting` | 802 503 | keep-alive 1, modulus 4, 2 chunks of at most 2 requests |
| `http_close_null` | violates `CloseFindsSocket` | | the same |
| `http_close_writes` | violates `CloseCancelsWrites` | | the same |
| `irc_safety` | types, `NicknameAgreed`, `ClosedLeavesPool`, `LambdaOutlived`, `NothingStranded`, `JoinedClosed` | 3 762 848 | 2 nicknames, one message unasked or typed line |
| `irc_live` | `ClosedAndFreed`, `EventuallyJoined` | 361 559 | 2 nicknames, none of those |
| `irc_channel` | types, `ChannelsKnown`, `ParticipantsKnown`, `ModesSound` | 1 219 499 | the client, 2 others (symmetric), 1 channel, 2 modes, 76 MODE messages of up to 3 letters |
| `irc_parser` | types, `LinesAreMessages`, `OnlyBadInputFails`, `EncodingReadBack` | 254 275 | 9 characters, lines of 7, 2 parameters |
| `ws_connection` | types, `OneCloseFrame`, `NoHangUp`, `ClosedAfterReading` | 317 432 | 2 chunks of at most 2 requests |
| `ws_parser` | types, `InSync`, `ControlAnswered`, `MessagesWhole`, `AllDelivered` | 1 877 562 | 3 frames of 63 kinds, 3 keys, payloads of 2 bytes |
| `ws_rules` | violates `RulesEnforced` | | the same |
| `accounts` | `RangesMeet`, `PagesMeet` | 17 105 | 2 channels, 4 lines, 3 seconds of 2 ticks; 1 user, 2 passwords, 2 contexts, 2 keys |

Why the bounds are enough: the writer's races need a thread that leaves the
loop, one that appends and one that is given a completion, hence three, and its
safety is proved for every number of threads and frames; three frames are one in
progress, one behind it, and one being submitted. One keep-alive response and one past
it, a full chunk behind them and a second chunk reach every path of the count,
and a modulus of 4 lets it wrap within the four requests. Two nicknames are
accepted first, accepted second or both refused. A PING or a typed line only
adds a message to the queue at some moment, and a message that throws ends the
reader: one is enough to have one where there was none. The liveness run leaves
them out: what they add to it is the time it takes to write, and a reader that
throws, which the welcome has there too. A client whose reader has thrown is
excepted from `ClosedAndFreed` unless it is to quit.
Four lines hold a page and what is before it, and lines before and after a cut
with the same second; two ticks a second make a time that is none of the
database's; a second channel must not be seen. Two contexts and two keys would be
one that logs in and one that uses its session.

In a channel, two others are enough for one to be mistaken for the other, and
for a nickname to be changed to one that was used before. The MODE messages are
every letter by itself; a participant's mode with another mode, a key or another
setting before it, whose parameter may be a nickname; and three letters of which
the first shifts the parameters of the two others. They are so chosen that the
client takes too many parameters, too few, or gives a mode to the wrong one. The
two others are interchangeable in everything, and the run has no liveness
property, so the symmetry is sound.
Channels do not depend on each other. Nine characters hold a prefix, a command
of three digits and the end of a line; two parameters, an empty word and a
trailing one past the maximum; and several short lines with either end. Three
frames hold a message in two fragments with a control frame between them, and a
message after one that failed; three keys, one of them zeros, are that of a long
frame, that of a short one, and the one kept of neither. Short masked texts read
as a request with another key, as the other half of one, or as JSON that ends the
process. A payload of two bytes has a first and a last.

### What the violations show

* `http_close_null`: HttpServer.cpp 310, "close(); // implies forcely canceling
  read". The write of the 101 response ends after the socket was moved to the
  web socket (285). If it fails, `close()` uses a null `socket_` (220).
* `http_close_writes`: HttpServer.cpp 264, "close(); // implies forcely
  canceling write". Closing ends the write in progress, and only that one: the
  frames behind it stay in the deque with handlers that hold the connection,
  which holds the socket, which holds the deque. The connection is never freed.

* `ws_rules`: WebSocketParser.cpp 220, 232, 269 and 283 name rules - control
  frames "cannot be fragmented", a Ping "must have payload", which "must be
  masked" - and return false; `parse` ignores it (127, 187, 204), and nothing
  ever sets the state `PARSE_ERROR` it checks for (102). `handleRead` of the
  connection therefore never takes its branch for invalid data (180).

Other things the models contain and that no text of the repository speaks against,
so that no run is made of them: the next line typed after the client is gone
dereferences a null pointer (Application.cpp 150, 152; `Line`), and `forceClose`
while a connection is still being made frees the client its handler will use
(IrcClient.cpp 177; `Dangle`; `LambdaOutlived` says that `forceClose` is the only
way to it). The key of a masked frame shorter than 126 bytes is never copied
(WebSocketParser.cpp 179 has `!masked_` where 151 asserts `masked_`), so that its
payload is decoded with the key of an earlier, longer frame, or with zeros, and
called back if that reads as a request. After a text that is no JSON,
`totalPayload_` keeps it and its NUL, and no later message is read (243, 301).
JSON without an integer `_reqid` and a string `_method` fails an assert of
RapidJSON and ends the process, whoever sends it: the macro that would make it the
exception of line 337 is commented out (RapidJson.h 15; `Crashes`). Where `NDEBUG`
is defined, as in the release builds (SudaGureum.vcxproj 136, 160), what it does
instead is undefined. A Pong of 126 bytes or more uses its length as a pointer
(WebSocketServer.cpp 28, 36; `Segfault`). A MODE that unsets a letter of the third
group of CHANMODES, last in its message, throws out of `handleRead` (IrcClient.cpp
507; `deaf`): `operation` is an optional and is true when it holds false. A MODE
in which `k`, or such an unset letter, comes before a participant's mode gives
that mode to the wrong one (484-507): after `+ko bob alice` the client takes bob
for the operator. `misled` excepts those named in such a message, until they or
the client part. `Scrypt::check` (SCrypt.cpp 85) asks of one string to be `s0` and
`s1`, so that it throws at every hash and nobody can log in; nothing calls it yet.
`pool.join()` at the end of standard input waits for a signal (`EventuallyJoined`
asks for one). The ranges of `Archive::read` are "[begin, end)" (Archive.cpp 17)
for whole seconds only: a line logged within the second of `end` and before it is
left out, one within the second of `begin` and before it is returned; `RangesMeet`
says what is true for any times, that ranges which meet lose and repeat nothing.

### Fairness

* `BufferedWriter`: every thread that can take a step takes it (the scheduler;
  the mutexes need no strong fairness, since the properties allow for the other
  threads to go on only a bounded number of times: frames are finite); asio ends
  every write and hands every completion to a thread. No call is forced.
* `HttpConnection`: handlers that are ready run, and timers expire. What waits for
  the client - the handshake, a read, a write in progress, a `close()` - ends if the
  client is gone or the TCP socket is closed, and need not end otherwise: the client
  owes nothing, it may stay and neither read nor answer. That is why
  `ClosedAfterWriting` excepts a client that holds the server for ever
  (`[]Held`): the code does wait for it then.
* `WebSocketConnection`: the same.
* `IrcClient`: one condition, that something goes on as long as anything can of
  what the program and the system do of themselves (`Progress`: handlers that are
  ready, main's statements, timers, the reading of what has been sent), or of what
  waits for the server (`Waiting`: an attempt to connect, a read or write that
  fails, a `close()`) once it is gone or the socket is closed (`Released`), or before
  there is a TLS session (`NoSession`). The server owes nothing, not even reading
  what it is sent or ending the session, so a write or a `close()` may stay as it is
  for ever; both properties except a `close()` that does (`<>[]Held`). Nor do a
  signal, a line or the end of standard input come of themselves.

## Proofs

`BufferedWriterProofs` proves, for every set of threads, frames and faults:

* `TypeCorrect`: `Spec => []TypeOK`
* `BorrowCorrect`: `Spec => []FrontIsBorrowed`
* `WakeupCorrect`: `Spec => []NoLostWakeup`
* `Implementation`: `Spec => ImplementsWriteQueue`

from four assumptions on the constants (empty frames are frames, the two "none"
values are not threads or frames, faults are those the model knows).

None of these is inductive. The invariant `IInv` adds what the code keeps
between its lines:

* `Mutexes` - a mutex is owned by the thread inside the block it guards;
* `Token` - `inWrite_` is a token: when it is set, exactly one of a thread
  between its exchange and its reset, the write in progress, or the thread that
  was given its completion holds it. This is why handleWrite may pop without
  being told what was written;
* `Frame`, `Deque` - a frame is submitted by one thread, is in the deque at
  most once, and on the wire only when it is at the front and borrowed;
* `Borrowed`, `Settled` - the borrowed frame is the front and on the wire; the
  handlers moved out and not yet called are of distinct frames;
* `Errors` - the error code of a thread is that of the handleWrite it is in;
* `NoLostWakeup` itself, whose step needs `Token` and `Mutexes`: the thread
  about to reset `inWrite_` has `writeLock_`, so nobody can have found it set
  since that thread looked at the deque, except by way of a thread that is
  still to look.

Each part has a lemma with one step per action. The refinement follows with one
lemma per action that is not a stutter: `AppendSubmits`, `StartTransmits`,
`PopSettles`, `CallReports`.

`HttpConnectionProofs` proves `KeepAliveCorrect`, `Spec => []KeepAliveBound`, for
every maximum, width of the count, number of chunks and depth of pipelining. The
count alone is no invariant: `CountAssumption` lets it wrap below zero, and the
code does make it wrap, when it serves the last request. Its `IInv` has three
parts:

* `Types` - of the variables the argument is about;
* `Shape` - statements belong to a `handleRead` that runs, no read is outstanding
  while it runs, it sets the timer at most once for a request, and a statement
  that ends it is its last;
* `Budget` - while the connection is `Serving` (the parser has not stopped and no
  statement to come will stop it or end `handleRead`), the promises made, the one
  about to be made and what is left of the count are at most the maximum. A
  connection that stopped serving never serves again, so the count may wrap.

`ProgramFacts` says what each list of `Program` contains, `AdvanceStep` that
executing any statement keeps `IInv`, `ParseRequestStep` that a request takes one
off the count before it promises, `QuietStep` that the rest changes nothing.

It also proves `ConnectionTyped`, `Spec => []TypeOK`. What is not plain there is that
the frames of the queue are `Frames`, of which there are four for each request: the
invariant `TInv` counts, besides the frames accepted (`Count`, where the one that is
in the queue and on the wire is one), those the statements in `todo` are to send
(`Sends`), four for each request not parsed yet, and four for each the client may
still send (`Left`), and says that all together are no more than `Most`
(`FrameBudget`). `SendTyped`, `ParseTyped` and `ReadTyped` move them from one to the
next; `Distinct` says that a frame is accepted once.

`IrcClientProofs` proves `StrandedCorrect`, `Spec => []NothingStranded`, for
every number of nicknames and messages. The property speaks of the moments when
`inWrite_` is clear; the invariant `IInv` also of those when `writeLock_` is held
by somebody who found the queue empty (`Followed`), and needs that only the
holder of the lock is to reset the flag (`UnsetLocked`), and does so next
(`UnsetFirst`). `DoStep`, `BeginStep`, `CallStep` are what an actor may do without
the queue, `SendStep` and `WriteStep` what it does with it; `NextStep` has one step
per action.

It also proves `LeavesCorrect` (`ClosedLeavesPool`) and `JoinsCorrect`
(`JoinedClosed`) from one invariant, `Closing`, about what each actor has still to
execute, as a set of statements (`Members`) with what may follow what (`Order`):

* `Owners`, `Companions`, `Locked` - who may have a statement, which statements
  come together, and that whoever is to clear the pool holds `clientsLock_`;
* `Leaves` - a client that is closed and pooled is about to leave the pool. The
  one place where it might stay is an ERROR with `clearMe_` not set: `Kept` says
  that `closeAll` is then at work;
* `Ends` - a client that has left the pool, or is about to, is closed, or the close
  timer or a `forceClose` will close it;
* `Joins` - the io threads return only after the signal has emptied the pool; with
  `Ends`, and nothing left to run, the client is closed.

There is one lemma for each statement and handler that touches the pool
(`ClosedMove`, `CloseAllMove`, `RunReturnsMove`...), and `QuietMove` for the rest.

`OutlivedCorrect` (`LambdaOutlived`) comes on top of it. Unless `forceClose` has
been called, a client leaves the pool through `closeAll`, which sets the close timer
first (`Holds`), or through an ERROR, which is not read before the lambda of
`connect` has returned (`Reads`).

`ClientTyped` (`TypeOK`) and `NicknameCorrect` (`NicknameAgreed`) have the invariant
`Naming`: the types, and `Attempts`. An attempt to get a nickname is in one of six
places: a NICK to be sent by the lambda of `connect` or by the reader, one in the
queue or in the socket, a refusal (433) on its way or read and not processed. There is one at a
time (`AtMostOne`, `Onces`), the NICK asks for `nickname_` (`Asked`), and once the
server has registered a nickname there is none and it is `nickname_` (`Registered`):
`tryNextNickname`, which is called for a refusal only, cannot change it any more.

`AccountsProofs` proves, for every number of ticks in a second, users, hashes and
lines: `TypeCorrect`; from the types `RangesCorrect` (`RangesMeet`) and
`PagesCorrect` (`PagesMeet`), whose arguments are that `to_time_t` keeps order
(`SecondsKeepOrder`) and that a second is read back as itself
(`SecondReadBack`).

`IrcChannelProofs` proves `ChannelsCorrect` (`ChannelsKnown`) and
`ParticipantsCorrect` (`ParticipantsKnown`), for every set of nicknames and
channels. Both speak of a client that has processed everything; the invariant says
what is on its way: a message is about what has just become true at the server
(`Mail`), and the client knows a channel (`Belongs`) and who is in it (`Who`) up to
what that message will tell it (`Known`, `Told`). Its own JOIN comes with the names
of the channel, which only add: that a participant the client already holds is a
member needs that channels it is not in have none (`Empty`), which `Part` sees to.
`SeenStep` and `TellStep` are what the server does to a channel, `AboutStep`,
`ModeStep`, `JoinedStep` and `NamesStep` what `procMessage` does with a message.

`ChannelTyped` and `ModesCorrect` (`ModesSound`), for every set of MODE messages of
any length which have the parameters of their letters (`ModeAssumption`), add `RankTypes`, `RankMail` (the messages under way, with the modes they
tell of) and `Sound`: a mode the client holds is the server's, or the rest of the
message it is reading takes it away. Why a MODE takes away what it says is a count:
until a letter shifts the parameters, the client has taken as many as the server
wrote for the letters before (`Within`, from `PlaceIs` and `TakesIsHasParam`), so that
it reads the parameter that was meant (`RightParam`). Behind such a letter nothing is
known but that the nicknames it touches are named in the message, hence `misled`.
`LetterGives` and `LetterStep` are one letter, `ModeRead` the end of the message, the
exception of `at()` included; `RankedIs` is what the message does at the server.

`WebSocketConnectionProofs` proves `OneCloseCorrect` (`OneCloseFrame`) and
`NoHangUpCorrect` (`NoHangUp`), for every number and size of chunks. `closeReady_`
is set one statement before the Close frame is submitted: `SentOnce` says that until
the frame is submitted there is none, for a `handleRead` that has set the flag too,
and that all there are, in the queue or on the wire, are one. `Asked` says that the flag, the
timer and the statements that close all come of a Close frame of the client, `Failed`
that a write or its report failed because the client was lost, or the socket closed
or being closed.
`ConnectionTyped` (`TypeOK`) counts frames as `HttpConnectionProofs` does (`Budget`);
that the close timer expires once at most is `Timed`: the statement that sets it
follows the one that sets `closeReady_`, and is not executed twice.

`WebSocketParserProofs` proves `TypeCorrect` (`TypeOK`), `BeginsWithTheClient`
(`InSync`) and `CallsWhatIsMeant` (`ControlAnswered`, `MessagesWhole`,
`AllDelivered`), for every set of frames, whatever their sizes and keys, and any
number of them. `Position` relates where the client is in its frame to the parser's
state and what it has buffered: `ABytePasses` says that a byte which ends a frame for
the one ends it for the other. `Agrees` says of the frames parsed to their end that
the payloads kept are those of the message that is open, each with its right key
where the code copies it (`Kept`), and that what was called back is what they mean
(`CallsAgree`), until a text is stuck or ends the process. What the frames
mean is a recursive function of their number (`Meaning`): that it is defined, and
unfolds one frame at a time (`MeaningUnfolds`), is proved by taking the least number
where it would not (`LeastNatural`), since the library's induction theorems take the
property as a parameter; likewise `Controls`.

`IrcParserProofs` proves `ParserTyped` (`TypeOK`), `LinesCorrect`
(`LinesAreMessages`), `FailuresCorrect` (`OnlyBadInputFails`) and `EncodingCorrect`
(`EncodingReadBack`), for every input, every `BufferSizeThreshold` and every
`MaxParams` but 0. The argument has three parts:

* A line that is read is written in one of the ways of its message.
  `Reading` relates what has been read of the words (`p`) to the part of the line
  they make: the same text, by the prefix, the command and the parameters in `p`.
  `ReadingStep` is one word more, `MessageRead` the whole line; `ReadIsWritten`
  follows. The other way, `MessageReadBack` reads the text of a message word by
  word. `MessageLineRead` says that a line that `IsMessageLine` is read.
* The lines of an input are defined by where they end (`LineEnds`), with no regard to
  the parser. `GrowsBy`, `EndsLine` and `EndsSecond` say what one more character does
  to them: it belongs to the unfinished line, it ends a line, or it is the LF of the
  CR before.
* The parser follows: by the invariant `Inv`, as long as it has not given up, the
  buffer is the unfinished line, there is a message for each line, and the parser is
  in `WaitLf` exactly when the input ends in a CR (`UpToDate`); each message is what
  is parsed of its line (`ReadSoFar`); and if it has given up the input is bad
  (`BadInput`). There is one lemma per action, and one for a character of a line and
  for the end of one.

Words and lines are sequences of any length, so these are proofs by induction. The
library's theorems for it take the property as an operator, which the provers cannot
instantiate; `Induction`, over the natural numbers, and `SequenceInduction` are stated
with a set instead, and proved from the well-foundedness of `<`. With them, that the
recursive functions of the model are defined, and what one more element does to them
(`WordsUnfold`, `ParsedUnfold`, `SpacedUnfold`).

Three modules have an assumption for these theorems that bounds a model, not the
program: the number of messages unasked for (`TrafficAssumption`), of chunks and
requests (`BoundAssumption`) and of characters (`ParserAssumption`, which also says
that a message may have a parameter) are natural numbers. The web socket's first chunk is
there from the start, so its `MaxChunks` is not 0.

Only model-checked: liveness (`EventuallyReported`, `CallsReturn`,
`ClosedAfterWriting`, `ClosedAndFreed`, `EventuallyJoined`, `ClosedAfterReading`),
which is out of the prover's reach, as is ENABLED. Every invariant that a run checks
and finds to hold is stated by a theorem.

## Plan

1. Done: every module, and the proofs of every safety property.
2. The lemmas of `SequenceInduction` and of the recursive functions of
   `IrcParserProofs` are what a proof about the HTTP request parser would need, if
   its bytes are modelled one day.

## Not modelled

* The accept loop of `HttpServer` (one handler that re-arms itself), its `stop`
  and `join` after everything else has ended, the resource processors (constant
  pages) and deflate.
* Start-up (`Application`, `Configure`, the daemon), logging, the wrappers of
  `Event.h` and the like: no state that another part depends on.
* Topics and the options of 005 in `IrcClient`, which are stored and read by
  nothing that changes state; several clients in a pool, since `Users::load` makes
  one; several HTTP connections, which share nothing.
* `Utility`: functions without state. The padding of `encodeBase64` (Utility.h 48)
  is computed from the length of the encoded text: the accept key of an upgrade
  (20 bytes) gets no `=` where base64 has one.
* asio, SSL, SQLite, http_parser, rapidjson and the hash functions, which are
  libraries: modelled, where they are, by how the code uses them.
