--------------------------- MODULE BufferedWriter ---------------------------
(***************************************************************************)
(* BufferedWriterSocket (Socket.h): the write queue every server           *)
(* connection writes through.  Any io thread may call asyncWrite(data,     *)
(* handler), any io thread may be given the completion of the socket write *)
(* in progress, and the two meet on the deque bufferToWrite_, two mutexes  *)
(* and the atomic flag inWrite_.  A thread is a program counter; a step is *)
(* what the code does between two points where another thread can see or   *)
(* change what it uses.                                                    *)
(*                                                                         *)
(* The deque is read without bufferWriteLock_ at lines 151-156 and 180     *)
(* while another thread may be appending: the reader sees the deque either *)
(* before or after the append, which are the two orders of the steps Look  *)
(* (or TakeHandler) and AppendFrame.  An operator Mut<Name> is <Name> with *)
(* a bug a change of that code could introduce; Next does not use it.      *)
(***************************************************************************)
EXTENDS Naturals, Sequences

CONSTANTS
    Threads,        \* the io threads
    Frames,         \* the data of the calls of asyncWrite, each used once
    EmptyFrames,    \* those that are zero bytes long
    NoThread,       \* the owner of a free mutex
    NoFrame,        \* no frame
    Faults          \* what may go wrong: "reset", "close", "throw"

ASSUME EmptyAssumption == EmptyFrames \subseteq Frames
ASSUME NoThreadAssumption == NoThread \notin Threads
ASSUME NoFrameAssumption == NoFrame \notin Frames
ASSUME FaultsAssumption == Faults \subseteq {"reset", "close", "throw"}

VARIABLES
    pc,             \* where each thread is
    frame,          \* the data argument of the asyncWrite call of a thread
    handler,        \* the handler handleWrite has moved out, as its frame
    ec,             \* the error code argument of handleWrite
    bufferToWrite,  \* the deque
    bufferLock,     \* bufferWriteLock_: its owner
    writeLock,      \* writeLock_: its owner
    inWrite,        \* inWrite_
    ops,            \* socket writes started and not yet given to a thread
    open,           \* the socket has not been closed
    wire,           \* frames given to the socket, in that order
    reported        \* handlers called so far, with their error codes

vars == <<pc, frame, handler, ec, bufferToWrite, bufferLock, writeLock,
          inWrite, ops, open, wire, reported>>

Labels == {"idle", "push", "append", "kick", "exchange", "look", "reset",
           "unlock", "take", "lockPop", "pop", "clear", "call", "dead"}
Results == {"ok", "err"}
Ops == [by : Threads, frame : Frames, ec : Results \union {"pending"}]

In(f, s) == \E i \in 1..Len(s) : s[i] = f

\* A thread is at one of the points of asyncWrite or handleWrite; the deque
\* and the wire hold frames, and the mutexes are free or owned by a thread.
TypeOK ==
    /\ pc \in [Threads -> Labels]
    /\ frame \in [Threads -> Frames \union {NoFrame}]
    /\ handler \in [Threads -> Frames \union {NoFrame}]
    /\ ec \in [Threads -> Results]
    /\ bufferToWrite \in Seq(Frames)
    /\ bufferLock \in Threads \union {NoThread}
    /\ writeLock \in Threads \union {NoThread}
    /\ inWrite \in BOOLEAN
    /\ ops \subseteq Ops
    /\ open \in BOOLEAN
    /\ wire \in Seq(Frames)
    /\ reported \subseteq [frame : Frames, ec : Results]

Init ==
    /\ pc = [t \in Threads |-> "idle"]
    /\ frame = [t \in Threads |-> NoFrame]
    /\ handler = [t \in Threads |-> NoFrame]
    /\ ec = [t \in Threads |-> "ok"]
    /\ bufferToWrite = <<>>
    /\ bufferLock = NoThread
    /\ writeLock = NoThread
    /\ inWrite = FALSE
    /\ ops = {}
    /\ open = TRUE
    /\ wire = <<>>
    /\ reported = {}

Goto(t, from, to) == pc[t] = from /\ pc' = [pc EXCEPT ![t] = to]

-----------------------------------------------------------------------------
(* asyncWrite(data, handler) *)

\* A connection calls asyncWrite with data it has not submitted before.
Call(t, f) ==
    /\ ~In(f, wire) /\ ~In(f, bufferToWrite) /\ \A u \in Threads : frame[u] # f
    /\ Goto(t, "idle", "push")
    /\ frame' = [frame EXCEPT ![t] = f]
    /\ UNCHANGED <<handler, ec, bufferToWrite, bufferLock, writeLock, inWrite,
                   ops, open, wire, reported>>

LockBuffer(t, from, to) ==
    /\ Goto(t, from, to)
    /\ bufferLock = NoThread
    /\ bufferLock' = t
    /\ UNCHANGED <<frame, handler, ec, bufferToWrite, writeLock, inWrite, ops,
                   open, wire, reported>>

\* emplace_back, and bufferWriteLock_ is released at the end of the block.
AppendFrame(t) ==
    /\ Goto(t, "append", "kick")
    /\ bufferToWrite' = Append(bufferToWrite, frame[t])
    /\ frame' = [frame EXCEPT ![t] = NoFrame]
    /\ bufferLock' = NoThread
    /\ UNCHANGED <<handler, ec, writeLock, inWrite, ops, open, wire, reported>>

-----------------------------------------------------------------------------
(* asyncWrite(), called by asyncWrite(data, handler) and by handleWrite *)

MutLockWrite(t) ==
    /\ Goto(t, "kick", "exchange")
    /\ writeLock' = t
    /\ UNCHANGED <<frame, handler, ec, bufferToWrite, bufferLock, inWrite, ops,
                   open, wire, reported>>
LockWrite(t) ==
    /\ Goto(t, "kick", "exchange")
    /\ writeLock = NoThread
    /\ writeLock' = t
    /\ UNCHANGED <<frame, handler, ec, bufferToWrite, bufferLock, inWrite, ops,
                   open, wire, reported>>

\* A write is in progress: its completion will look at the deque again.
MutExchangeBusy(t) ==
    /\ inWrite
    /\ Goto(t, "exchange", "idle")
    /\ UNCHANGED <<frame, handler, ec, bufferToWrite, bufferLock, writeLock,
                   inWrite, ops, open, wire, reported>>
ExchangeBusy(t) ==
    /\ inWrite
    /\ Goto(t, "exchange", "unlock")
    /\ UNCHANGED <<frame, handler, ec, bufferToWrite, bufferLock, writeLock,
                   inWrite, ops, open, wire, reported>>

ExchangeFree(t) ==
    /\ ~inWrite
    /\ inWrite' = TRUE
    /\ Goto(t, "exchange", "look")
    /\ UNCHANGED <<frame, handler, ec, bufferToWrite, bufferLock, writeLock,
                   ops, open, wire, reported>>

Front == IF bufferToWrite = <<>> THEN NoFrame ELSE Head(bufferToWrite)

\* frame && !frame->empty()
MutHasFrame == Front \notin EmptyFrames
HasFrame == Front \notin EmptyFrames \union {NoFrame}

\* The socket is given the frame at the front, which stays in the deque.
StartWrite(t) ==
    /\ HasFrame
    /\ Goto(t, "look", "unlock")
    /\ ops' = ops \union
         {[by |-> t, frame |-> Front, ec |-> "pending"]}
    /\ wire' = Append(wire, Front)
    /\ UNCHANGED <<frame, handler, ec, bufferToWrite, bufferLock, writeLock,
                   inWrite, open, reported>>

NothingToWrite(t) ==
    /\ ~HasFrame
    /\ Goto(t, "look", "reset")
    /\ UNCHANGED <<frame, handler, ec, bufferToWrite, bufferLock, writeLock,
                   inWrite, ops, open, wire, reported>>

ResetInWrite(t) ==
    /\ Goto(t, "reset", "unlock")
    /\ inWrite' = FALSE
    /\ UNCHANGED <<frame, handler, ec, bufferToWrite, bufferLock, writeLock,
                   ops, open, wire, reported>>

\* The socket throws; inWrite_ is reset, the lock released by unwinding, and
\* the exception ends the io thread (MtIoService::runImpl).
StartThrows(t) ==
    /\ "throw" \in Faults
    /\ HasFrame
    /\ Goto(t, "look", "dead")
    /\ inWrite' = FALSE
    /\ writeLock' = NoThread
    /\ UNCHANGED <<frame, handler, ec, bufferToWrite, bufferLock, ops, open,
                   wire, reported>>

UnlockWrite(t) ==
    /\ Goto(t, "unlock", "idle")
    /\ writeLock' = NoThread
    /\ UNCHANGED <<frame, handler, ec, bufferToWrite, bufferLock, inWrite, ops,
                   open, wire, reported>>

-----------------------------------------------------------------------------
(* handleWrite *)

\* io_service::run gives the completion of a socket write to a free thread.
Complete(t, op) ==
    /\ op \in ops /\ op.ec # "pending"
    /\ Goto(t, "idle", "take")
    /\ ec' = [ec EXCEPT ![t] = op.ec]
    /\ ops' = ops \ {op}
    /\ UNCHANGED <<frame, handler, bufferToWrite, bufferLock, writeLock,
                   inWrite, open, wire, reported>>

\* The handler is moved out of the front of the deque, without a lock.
MutTakeHandler(t) ==
    /\ Goto(t, "take", "lockPop")
    /\ handler' = [handler EXCEPT ![t] = Front]
    /\ inWrite' = FALSE
    /\ UNCHANGED <<frame, ec, bufferToWrite, bufferLock, writeLock, ops, open,
                   wire, reported>>
TakeHandler(t) ==
    /\ Goto(t, "take", "lockPop")
    /\ handler' = [handler EXCEPT ![t] = Front]
    /\ UNCHANGED <<frame, ec, bufferToWrite, bufferLock, writeLock, inWrite,
                   ops, open, wire, reported>>

\* assert(!bufferToWrite_.empty()) holds: see FrontIsBorrowed.
MutPopFrame(t) ==
    /\ Goto(t, "pop", "clear")
    /\ bufferToWrite' = Tail(bufferToWrite)
    /\ handler' = [handler EXCEPT ![t] = Front']
    /\ bufferLock' = NoThread
    /\ UNCHANGED <<frame, ec, writeLock, inWrite, ops, open, wire, reported>>
PopFrame(t) ==
    /\ Goto(t, "pop", "clear")
    /\ bufferToWrite' = Tail(bufferToWrite)
    /\ bufferLock' = NoThread
    /\ UNCHANGED <<frame, handler, ec, writeLock, inWrite, ops, open, wire,
                   reported>>

ClearInWrite(t) ==
    /\ Goto(t, "clear", "call")
    /\ inWrite' = FALSE
    /\ UNCHANGED <<frame, handler, ec, bufferToWrite, bufferLock, writeLock,
                   ops, open, wire, reported>>

\* handler(ec, bytesTransferred), then asyncWrite() unless the write failed.
MutCallHandler(t) ==
    /\ Goto(t, "call", "idle")
    /\ reported' = reported \union {[frame |-> handler[t], ec |-> ec[t]]}
    /\ handler' = [handler EXCEPT ![t] = NoFrame]
    /\ ec' = [ec EXCEPT ![t] = "ok"]
    /\ UNCHANGED <<frame, bufferToWrite, bufferLock, writeLock, inWrite, ops,
                   open, wire>>
CallHandler(t) ==
    /\ Goto(t, "call", IF ec[t] = "ok" THEN "kick" ELSE "idle")
    /\ reported' = reported \union {[frame |-> handler[t], ec |-> ec[t]]}
    /\ handler' = [handler EXCEPT ![t] = NoFrame]
    /\ ec' = [ec EXCEPT ![t] = "ok"]
    /\ UNCHANGED <<frame, bufferToWrite, bufferLock, writeLock, inWrite, ops,
                   open, wire>>

-----------------------------------------------------------------------------
(* the socket *)

\* close(), called by the connection on an io thread.
Close(t) ==
    /\ "close" \in Faults
    /\ pc[t] = "idle" /\ open
    /\ open' = FALSE
    /\ UNCHANGED <<pc, frame, handler, ec, bufferToWrite, bufferLock,
                   writeLock, inWrite, ops, wire, reported>>

\* The whole frame is written, or the write fails: because the socket is
\* closed, or because the peer is gone.
SocketDone(op, r) ==
    /\ op \in ops /\ op.ec = "pending"
    /\ \/ r = "ok" /\ open
       \/ r = "err" /\ (~open \/ "reset" \in Faults)
    /\ ops' = (ops \ {op}) \union {[by |-> op.by, frame |-> op.frame, ec |-> r]}
    /\ UNCHANGED <<pc, frame, handler, ec, bufferToWrite, bufferLock,
                   writeLock, inWrite, open, wire, reported>>

-----------------------------------------------------------------------------
Step(t) ==
    \/ LockBuffer(t, "push", "append")
    \/ AppendFrame(t)
    \/ LockWrite(t)
    \/ ExchangeBusy(t)
    \/ ExchangeFree(t)
    \/ StartWrite(t)
    \/ StartThrows(t)
    \/ NothingToWrite(t)
    \/ ResetInWrite(t)
    \/ UnlockWrite(t)
    \/ TakeHandler(t)
    \/ LockBuffer(t, "lockPop", "pop")
    \/ PopFrame(t)
    \/ ClearInWrite(t)
    \/ CallHandler(t)

\* Every call has returned and no socket write is in progress: the writer
\* rests, possibly for ever.
Rest ==
    /\ \A t \in Threads : pc[t] \in {"idle", "dead"}
    /\ ops = {} \/ \A t \in Threads : pc[t] = "dead"
    /\ UNCHANGED vars

Next ==
    \/ \E t \in Threads : Step(t)
    \/ \E t \in Threads, f \in Frames : Call(t, f)
    \/ \E t \in Threads : \E op \in ops : Complete(t, op)
    \/ \E t \in Threads : Close(t)
    \/ \E op \in ops : \E r \in Results : SocketDone(op, r)
    \/ Rest

\* The scheduler runs every thread that can take a step, the transport
\* finishes every write and io_service::run hands every completion to some
\* free thread.  Nobody is obliged to call asyncWrite or close.
Fairness ==
    /\ \A t \in Threads : WF_vars(Step(t))
    /\ WF_vars(\E op \in ops : \E r \in Results : SocketDone(op, r))
    /\ WF_vars(\E t \in Threads : \E op \in ops : Complete(t, op))

Spec == Init /\ [][Next]_vars
FairSpec == Spec /\ Fairness

-----------------------------------------------------------------------------
(* Properties *)

\* Threads between the completion of a socket write and its pop_front.
Settling == {t \in Threads : pc[t] \in {"take", "lockPop", "pop"}}

\* A socket write borrows the bytes of the front of the deque, and handleWrite
\* pops the front without being told which frame was written.  So, from the
\* start of a write to its pop_front: it is the only one, and its frame stays
\* at the front; the handler moved out is that frame's.
FrontIsBorrowed ==
    /\ \A o1, o2 \in ops : o1 = o2
    /\ \A t, u \in Settling : t = u
    /\ ops = {} \/ Settling = {}
    /\ \A o \in ops : bufferToWrite # <<>> /\ o.frame = Head(bufferToWrite)
    /\ \A t \in Settling :
         /\ bufferToWrite # <<>>
         /\ In(Head(bufferToWrite), wire)
         /\ pc[t] # "take" => handler[t] = Head(bufferToWrite)

\* A write has failed, or could not be started.
Faulted ==
    \/ \E t \in Threads : pc[t] = "dead" \/ ec[t] = "err"
    \/ \E o \in ops : o.ec = "err"
    \/ \E r \in reported : r.ec = "err"

\* Threads that will look at the deque before they are done.
WillLook ==
    {t \in Threads :
        \/ pc[t] \in {"kick", "exchange", "look"}
        \/ pc[t] \in {"take", "lockPop", "pop", "clear", "call"} /\ ec[t] = "ok"}

\* While nothing has failed, a frame at the front that is not empty is in the
\* hands of the socket, or some thread will still look at the deque: no
\* wakeup is lost between an exchange that finds a write in progress and the
\* reset of inWrite_ by the thread that found the deque empty.
NoLostWakeup == HasFrame /\ ~Faulted => ops # {} \/ WillLook # {}

\* The promise of the writer, under the mapping in which a frame leaves the
\* queue at pop_front and is owed a report until its handler is called.
Owed == {[frame |-> handler[t], ec |-> ec[t]] :
            t \in {u \in Threads : pc[u] \in {"clear", "call"}}}

Abstract == INSTANCE WriteQueue WITH queue <- bufferToWrite, owed <- Owed

\* BufferedWriterSocket writes the frames once each, in the order of the
\* emplace_backs, and calls each handler once, with the result of its frame.
ImplementsWriteQueue == Abstract!Spec

\* Every frame in the deque is eventually reported, unless a write failed or
\* a frame of zero bytes reached the front: asyncWrite() starts nothing for
\* it, so it stays there for ever with everything behind it.
EventuallyReported ==
    \A f \in Frames :
        In(f, bufferToWrite) ~>
            \/ \E r \in reported : r.frame = f
            \/ Faulted
            \/ bufferToWrite # <<>> /\ Head(bufferToWrite) \in EmptyFrames

\* asyncWrite and handleWrite return: no thread waits for ever on a mutex.
CallsReturn == \A t \in Threads : pc[t] # "idle" ~> pc[t] \in {"idle", "dead"}
=============================================================================
