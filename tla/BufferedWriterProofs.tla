------------------------ MODULE BufferedWriterProofs ------------------------
(***************************************************************************)
(* For every number of threads and frames, and whatever faults occur:      *)
(* BufferedWriter keeps its types, a socket write borrows the front of the *)
(* deque and nothing else, no wakeup is lost, and every step of the writer *)
(* is a step of WriteQueue.                                                *)
(***************************************************************************)
EXTENDS BufferedWriter, TLAPS

\* Threads inside the block that writeLock_ guards, and inside the blocks
\* that bufferWriteLock_ guards.
InWriteLock == {"exchange", "look", "reset", "unlock"}
InBufferLock == {"append", "pop"}

Mutexes ==
    \A t \in Threads :
        /\ pc[t] \in InWriteLock <=> writeLock = t
        /\ pc[t] \in InBufferLock <=> bufferLock = t

\* inWrite_ is a token.  It is held by one thread between its exchange and
\* its reset, or by the one socket write in progress, or by one thread
\* between the completion of that write and "inWrite_ = false".
Holds(t) == pc[t] \in {"look", "reset", "take", "lockPop", "pop", "clear"}

Token ==
    /\ \A t, u \in Threads : Holds(t) /\ Holds(u) => t = u
    /\ \A o1, o2 \in ops : o1 = o2
    /\ ops # {} => \A t \in Threads : ~Holds(t)
    /\ ~inWrite => ops = {} /\ \A t \in Threads : ~Holds(t)
    /\ inWrite => ops # {} \/ \E t \in Threads : Holds(t)

\* The writer of a frame, from the call to the report.
Calling(t) == pc[t] \in {"push", "append"}
Owing(t) == pc[t] \in {"clear", "call"}

Frame ==
    /\ \A t \in Threads :
        /\ Calling(t) <=> frame[t] # NoFrame
        /\ Calling(t) => ~In(frame[t], wire) /\ ~In(frame[t], bufferToWrite)
    /\ \A t, u \in Threads : Calling(t) /\ frame[t] = frame[u] => t = u

\* Frames of the deque are distinct, and none but the front is on the wire,
\* which is there exactly while it is borrowed.
Deque ==
    /\ \A i, j \in 1..Len(bufferToWrite) :
          bufferToWrite[i] = bufferToWrite[j] => i = j
    /\ \A i \in 1..Len(bufferToWrite) :
          In(bufferToWrite[i], wire) => i = 1 /\ (ops # {} \/ Settling # {})

Borrowed ==
    /\ \A o \in ops : /\ bufferToWrite # <<>>
                      /\ o.frame = Head(bufferToWrite)
                      /\ In(o.frame, wire)
    /\ \A t \in Settling : /\ bufferToWrite # <<>>
                           /\ In(Head(bufferToWrite), wire)
                           /\ pc[t] # "take" => handler[t] = Head(bufferToWrite)

Settled ==
    /\ \A t \in Threads : Owing(t) => /\ handler[t] \in Frames
                                      /\ In(handler[t], wire)
                                      /\ ~In(handler[t], bufferToWrite)
    /\ \A t, u \in Threads :
          Owing(t) /\ Owing(u) /\ handler[t] = handler[u] => t = u

\* An error code is held by handleWrite only.
Errors ==
    \A t \in Threads :
        ec[t] = "err" => pc[t] \in {"take", "lockPop", "pop", "clear", "call"}

\* The inductive invariant.
IInv ==
    /\ TypeOK
    /\ Mutexes
    /\ Token
    /\ Frame
    /\ Deque
    /\ Borrowed
    /\ Settled
    /\ Errors
    /\ NoLostWakeup
-----------------------------------------------------------------------------
\* Every action keeps the types.
LEMMA TypeStep == IInv /\ [Next]_vars => TypeOK'
<1> SUFFICES ASSUME IInv, [Next]_vars PROVE TypeOK'
  OBVIOUS
<1> USE DEF IInv, Goto, TypeOK, Labels, Results, Ops, Frame, Calling, Settled, Owing,
           Borrowed, Settling
<1>1. CASE \E t \in Threads, f \in Frames : Call(t, f)
  BY <1>1 DEF Call
<1>2. CASE \E t \in Threads : LockBuffer(t, "push", "append")
  BY <1>2 DEF LockBuffer
<1>3. CASE \E t \in Threads : AppendFrame(t)
  BY <1>3 DEF AppendFrame
<1>4. CASE \E t \in Threads : LockWrite(t)
  BY <1>4 DEF LockWrite
<1>5. CASE \E t \in Threads : ExchangeBusy(t)
  BY <1>5 DEF ExchangeBusy
<1>6. CASE \E t \in Threads : ExchangeFree(t)
  BY <1>6 DEF ExchangeFree
<1>7. CASE \E t \in Threads : StartWrite(t)
  BY <1>7 DEF StartWrite, HasFrame, Front
<1>8. CASE \E t \in Threads : StartThrows(t)
  BY <1>8 DEF StartThrows
<1>9. CASE \E t \in Threads : NothingToWrite(t)
  BY <1>9 DEF NothingToWrite
<1>10. CASE \E t \in Threads : ResetInWrite(t)
  BY <1>10 DEF ResetInWrite
<1>11. CASE \E t \in Threads : UnlockWrite(t)
  BY <1>11 DEF UnlockWrite
<1>12. CASE \E t \in Threads : \E op \in ops : Complete(t, op)
  BY <1>12 DEF Complete
<1>13. CASE \E t \in Threads : TakeHandler(t)
  BY <1>13 DEF TakeHandler, HasFrame, Front
<1>14. CASE \E t \in Threads : LockBuffer(t, "lockPop", "pop")
  BY <1>14 DEF LockBuffer
<1>15. CASE \E t \in Threads : PopFrame(t)
  BY <1>15 DEF PopFrame
<1>16. CASE \E t \in Threads : ClearInWrite(t)
  BY <1>16 DEF ClearInWrite
<1>17. CASE \E t \in Threads : CallHandler(t)
  BY <1>17 DEF CallHandler
<1>18. CASE \E t \in Threads : Close(t)
  BY <1>18 DEF Close
<1>19. CASE \E op \in ops : \E r \in Results : SocketDone(op, r)
  BY <1>19 DEF SocketDone
<1>20. CASE UNCHANGED vars
  BY <1>20 DEF vars
<1> QED
  BY <1>1, <1>2, <1>3, <1>4, <1>5, <1>6, <1>7, <1>8, <1>9, <1>10, <1>11,
     <1>12, <1>13, <1>14, <1>15, <1>16, <1>17, <1>18, <1>19, <1>20
     DEF Next, Step, Rest

\* A mutex is owned by the one thread in a block it guards.
LEMMA MutexesStep == IInv /\ [Next]_vars => Mutexes'
<1> SUFFICES ASSUME IInv, [Next]_vars PROVE Mutexes'
  OBVIOUS
<1> USE DEF IInv, Goto, TypeOK, Mutexes, InWriteLock, InBufferLock
<1>1. CASE \E t \in Threads, f \in Frames : Call(t, f)
  BY <1>1 DEF Call
<1>2. CASE \E t \in Threads : LockBuffer(t, "push", "append")
  BY <1>2, NoThreadAssumption DEF LockBuffer
<1>3. CASE \E t \in Threads : AppendFrame(t)
  BY <1>3, NoThreadAssumption DEF AppendFrame
<1>4. CASE \E t \in Threads : LockWrite(t)
  BY <1>4, NoThreadAssumption DEF LockWrite
<1>5. CASE \E t \in Threads : ExchangeBusy(t)
  BY <1>5 DEF ExchangeBusy
<1>6. CASE \E t \in Threads : ExchangeFree(t)
  BY <1>6 DEF ExchangeFree
<1>7. CASE \E t \in Threads : StartWrite(t)
  BY <1>7 DEF StartWrite
<1>8. CASE \E t \in Threads : StartThrows(t)
  BY <1>8, NoThreadAssumption DEF StartThrows
<1>9. CASE \E t \in Threads : NothingToWrite(t)
  BY <1>9 DEF NothingToWrite
<1>10. CASE \E t \in Threads : ResetInWrite(t)
  BY <1>10 DEF ResetInWrite
<1>11. CASE \E t \in Threads : UnlockWrite(t)
  BY <1>11, NoThreadAssumption DEF UnlockWrite
<1>12. CASE \E t \in Threads : \E op \in ops : Complete(t, op)
  BY <1>12 DEF Complete
<1>13. CASE \E t \in Threads : TakeHandler(t)
  BY <1>13 DEF TakeHandler
<1>14. CASE \E t \in Threads : LockBuffer(t, "lockPop", "pop")
  BY <1>14, NoThreadAssumption DEF LockBuffer
<1>15. CASE \E t \in Threads : PopFrame(t)
  BY <1>15, NoThreadAssumption DEF PopFrame
<1>16. CASE \E t \in Threads : ClearInWrite(t)
  BY <1>16 DEF ClearInWrite
<1>17. CASE \E t \in Threads : CallHandler(t)
  BY <1>17 DEF CallHandler
<1>18. CASE \E t \in Threads : Close(t)
  BY <1>18 DEF Close
<1>19. CASE \E op \in ops : \E r \in Results : SocketDone(op, r)
  BY <1>19 DEF SocketDone
<1>20. CASE UNCHANGED vars
  BY <1>20 DEF vars
<1> QED
  BY <1>1, <1>2, <1>3, <1>4, <1>5, <1>6, <1>7, <1>8, <1>9, <1>10, <1>11,
     <1>12, <1>13, <1>14, <1>15, <1>16, <1>17, <1>18, <1>19, <1>20
     DEF Next, Step, Rest

\* inWrite_ is passed on, never duplicated: writeLock_ matters when a thread
\* exchanges it, the completion of the write when handleWrite clears it.
LEMMA TokenStep == IInv /\ [Next]_vars => Token'
<1> SUFFICES ASSUME IInv, [Next]_vars PROVE Token'
  OBVIOUS
<1> USE DEF IInv, Goto, TypeOK, Token, Holds, Mutexes, InWriteLock
<1>1. CASE \E t \in Threads, f \in Frames : Call(t, f)
  BY <1>1 DEF Call
<1>2. CASE \E t \in Threads : LockBuffer(t, "push", "append")
  BY <1>2 DEF LockBuffer
<1>3. CASE \E t \in Threads : AppendFrame(t)
  BY <1>3 DEF AppendFrame
<1>4. CASE \E t \in Threads : LockWrite(t)
  BY <1>4 DEF LockWrite
<1>5. CASE \E t \in Threads : ExchangeBusy(t)
  BY <1>5 DEF ExchangeBusy
<1>6. CASE \E t \in Threads : ExchangeFree(t)
  BY <1>6 DEF ExchangeFree
<1>7. CASE \E t \in Threads : StartWrite(t)
  <2> PICK t \in Threads : StartWrite(t)
    BY <1>7
  <2> DEFINE new == [by |-> t, frame |-> Front, ec |-> "pending"]
  <2>1. ops = {}
    BY DEF StartWrite
  <2>2. ops' = {new}
    BY <2>1 DEF StartWrite
  <2>3. \A u \in Threads : ~Holds(u)'
    BY DEF StartWrite
  <2>4. inWrite'
    BY DEF StartWrite
  <2> QED
    BY <2>2, <2>3, <2>4
<1>8. CASE \E t \in Threads : StartThrows(t)
  BY <1>8 DEF StartThrows
<1>9. CASE \E t \in Threads : NothingToWrite(t)
  BY <1>9 DEF NothingToWrite
<1>10. CASE \E t \in Threads : ResetInWrite(t)
  BY <1>10 DEF ResetInWrite
<1>11. CASE \E t \in Threads : UnlockWrite(t)
  BY <1>11 DEF UnlockWrite
<1>12. CASE \E t \in Threads : \E op \in ops : Complete(t, op)
  BY <1>12 DEF Complete
<1>13. CASE \E t \in Threads : TakeHandler(t)
  BY <1>13 DEF TakeHandler
<1>14. CASE \E t \in Threads : LockBuffer(t, "lockPop", "pop")
  BY <1>14 DEF LockBuffer
<1>15. CASE \E t \in Threads : PopFrame(t)
  BY <1>15 DEF PopFrame
<1>16. CASE \E t \in Threads : ClearInWrite(t)
  BY <1>16 DEF ClearInWrite
<1>17. CASE \E t \in Threads : CallHandler(t)
  BY <1>17 DEF CallHandler
<1>18. CASE \E t \in Threads : Close(t)
  BY <1>18 DEF Close
<1>19. CASE \E op \in ops : \E r \in Results : SocketDone(op, r)
  <2> PICK op \in ops, r \in Results : SocketDone(op, r)
    BY <1>19
  <2> DEFINE done == [by |-> op.by, frame |-> op.frame, ec |-> r]
  <2>1. ops' = {done}
    BY DEF SocketDone
  <2>2. \A t \in Threads : ~Holds(t)'
    BY DEF SocketDone
  <2>3. inWrite'
    BY DEF SocketDone
  <2> QED
    BY <2>1, <2>2, <2>3
<1>20. CASE UNCHANGED vars
  BY <1>20 DEF vars
<1> QED
  BY <1>1, <1>2, <1>3, <1>4, <1>5, <1>6, <1>7, <1>8, <1>9, <1>10, <1>11,
     <1>12, <1>13, <1>14, <1>15, <1>16, <1>17, <1>18, <1>19, <1>20
     DEF Next, Step, Rest

\* A frame is submitted once, by one thread.
LEMMA FrameStep == IInv /\ [Next]_vars => Frame'
<1> SUFFICES ASSUME IInv, [Next]_vars PROVE Frame'
  OBVIOUS
<1> USE DEF IInv, Goto, TypeOK, Frame, Calling, In, Borrowed, Settling
<1>1. CASE \E t \in Threads, f \in Frames : Call(t, f)
  BY <1>1 DEF Call
<1>2. CASE \E t \in Threads : LockBuffer(t, "push", "append")
  BY <1>2 DEF LockBuffer
<1>3. CASE \E t \in Threads : AppendFrame(t)
  BY <1>3 DEF AppendFrame
<1>4. CASE \E t \in Threads : LockWrite(t)
  BY <1>4 DEF LockWrite
<1>5. CASE \E t \in Threads : ExchangeBusy(t)
  BY <1>5 DEF ExchangeBusy
<1>6. CASE \E t \in Threads : ExchangeFree(t)
  BY <1>6 DEF ExchangeFree
<1>7. CASE \E t \in Threads : StartWrite(t)
  BY <1>7 DEF StartWrite, HasFrame, Front
<1>8. CASE \E t \in Threads : StartThrows(t)
  BY <1>8 DEF StartThrows
<1>9. CASE \E t \in Threads : NothingToWrite(t)
  BY <1>9 DEF NothingToWrite
<1>10. CASE \E t \in Threads : ResetInWrite(t)
  BY <1>10 DEF ResetInWrite
<1>11. CASE \E t \in Threads : UnlockWrite(t)
  BY <1>11 DEF UnlockWrite
<1>12. CASE \E t \in Threads : \E op \in ops : Complete(t, op)
  BY <1>12 DEF Complete
<1>13. CASE \E t \in Threads : TakeHandler(t)
  BY <1>13 DEF TakeHandler
<1>14. CASE \E t \in Threads : LockBuffer(t, "lockPop", "pop")
  BY <1>14 DEF LockBuffer
<1>15. CASE \E t \in Threads : PopFrame(t)
  BY <1>15 DEF PopFrame
<1>16. CASE \E t \in Threads : ClearInWrite(t)
  BY <1>16 DEF ClearInWrite
<1>17. CASE \E t \in Threads : CallHandler(t)
  BY <1>17 DEF CallHandler
<1>18. CASE \E t \in Threads : Close(t)
  BY <1>18 DEF Close
<1>19. CASE \E op \in ops : \E r \in Results : SocketDone(op, r)
  BY <1>19 DEF SocketDone
<1>20. CASE UNCHANGED vars
  BY <1>20 DEF vars
<1> QED
  BY <1>1, <1>2, <1>3, <1>4, <1>5, <1>6, <1>7, <1>8, <1>9, <1>10, <1>11,
     <1>12, <1>13, <1>14, <1>15, <1>16, <1>17, <1>18, <1>19, <1>20
     DEF Next, Step, Rest

\* Only the front of the deque is ever on the wire.
LEMMA DequeStep == IInv /\ [Next]_vars => Deque'
<1> SUFFICES ASSUME IInv, [Next]_vars PROVE Deque'
  OBVIOUS
<1> USE DEF IInv, Goto, TypeOK, Deque, Frame, Calling, In, Token, Holds, Borrowed, Settling
<1>1. CASE \E t \in Threads, f \in Frames : Call(t, f)
  <2> PICK t \in Threads, f \in Frames : Call(t, f)
    BY <1>1
  <2>1. Settling' = Settling
    BY DEF Call
  <2> QED
    BY <2>1 DEF Call
<1>2. CASE \E t \in Threads : LockBuffer(t, "push", "append")
  BY <1>2 DEF LockBuffer
<1>3. CASE \E t \in Threads : AppendFrame(t)
  BY <1>3 DEF AppendFrame
<1>4. CASE \E t \in Threads : LockWrite(t)
  BY <1>4 DEF LockWrite
<1>5. CASE \E t \in Threads : ExchangeBusy(t)
  BY <1>5 DEF ExchangeBusy
<1>6. CASE \E t \in Threads : ExchangeFree(t)
  BY <1>6 DEF ExchangeFree
<1>7. CASE \E t \in Threads : StartWrite(t)
  <2> PICK t \in Threads : StartWrite(t)
    BY <1>7
  <2>1. ops = {} /\ Settling = {}
    BY DEF StartWrite
  <2>2. ops' # {}
    BY DEF StartWrite
  <2>3. \A i \in 1..Len(bufferToWrite) : ~In(bufferToWrite[i], wire)
    BY <2>1
  <2>4. /\ bufferToWrite # <<>>
        /\ Front = bufferToWrite[1]
        /\ wire' = Append(wire, Front)
        /\ bufferToWrite' = bufferToWrite
    BY NoFrameAssumption DEF StartWrite, HasFrame, Front
  <2>5. \A f \in Frames : In(f, wire') => In(f, wire) \/ f = Front
    BY <2>4
  <2>6. \A i \in 1..Len(bufferToWrite) : In(bufferToWrite[i], wire') => i = 1
    BY <2>3, <2>4, <2>5
  <2> QED
    BY <2>2, <2>4, <2>6
<1>8. CASE \E t \in Threads : StartThrows(t)
  BY <1>8 DEF StartThrows
<1>9. CASE \E t \in Threads : NothingToWrite(t)
  BY <1>9 DEF NothingToWrite
<1>10. CASE \E t \in Threads : ResetInWrite(t)
  BY <1>10 DEF ResetInWrite
<1>11. CASE \E t \in Threads : UnlockWrite(t)
  BY <1>11 DEF UnlockWrite
<1>12. CASE \E t \in Threads : \E op \in ops : Complete(t, op)
  BY <1>12 DEF Complete
<1>13. CASE \E t \in Threads : TakeHandler(t)
  BY <1>13 DEF TakeHandler
<1>14. CASE \E t \in Threads : LockBuffer(t, "lockPop", "pop")
  BY <1>14 DEF LockBuffer
<1>15. CASE \E t \in Threads : PopFrame(t)
  BY <1>15 DEF PopFrame
<1>16. CASE \E t \in Threads : ClearInWrite(t)
  BY <1>16 DEF ClearInWrite
<1>17. CASE \E t \in Threads : CallHandler(t)
  BY <1>17 DEF CallHandler
<1>18. CASE \E t \in Threads : Close(t)
  BY <1>18 DEF Close
<1>19. CASE \E op \in ops : \E r \in Results : SocketDone(op, r)
  <2> PICK op \in ops, r \in Results : SocketDone(op, r)
    BY <1>19
  <2>1. ops' # {} /\ UNCHANGED <<bufferToWrite, wire>>
    BY DEF SocketDone
  <2> QED
    BY <2>1
<1>20. CASE UNCHANGED vars
  BY <1>20 DEF vars
<1> QED
  BY <1>1, <1>2, <1>3, <1>4, <1>5, <1>6, <1>7, <1>8, <1>9, <1>10, <1>11,
     <1>12, <1>13, <1>14, <1>15, <1>16, <1>17, <1>18, <1>19, <1>20
     DEF Next, Step, Rest

\* The front stays where it is until the write that borrows it is settled.
LEMMA BorrowedStep == IInv /\ [Next]_vars => Borrowed'
<1> SUFFICES ASSUME IInv, [Next]_vars PROVE Borrowed'
  OBVIOUS
<1> USE DEF IInv, Goto, TypeOK, Token, Holds, In, Borrowed, Settling
<1>1. CASE \E t \in Threads, f \in Frames : Call(t, f)
  BY <1>1 DEF Call
<1>2. CASE \E t \in Threads : LockBuffer(t, "push", "append")
  BY <1>2 DEF LockBuffer
<1>3. CASE \E t \in Threads : AppendFrame(t)
  BY <1>3 DEF AppendFrame
<1>4. CASE \E t \in Threads : LockWrite(t)
  BY <1>4 DEF LockWrite
<1>5. CASE \E t \in Threads : ExchangeBusy(t)
  BY <1>5 DEF ExchangeBusy
<1>6. CASE \E t \in Threads : ExchangeFree(t)
  BY <1>6 DEF ExchangeFree
<1>7. CASE \E t \in Threads : StartWrite(t)
  BY <1>7 DEF StartWrite, HasFrame, Front
<1>8. CASE \E t \in Threads : StartThrows(t)
  BY <1>8 DEF StartThrows
<1>9. CASE \E t \in Threads : NothingToWrite(t)
  BY <1>9 DEF NothingToWrite
<1>10. CASE \E t \in Threads : ResetInWrite(t)
  BY <1>10 DEF ResetInWrite
<1>11. CASE \E t \in Threads : UnlockWrite(t)
  BY <1>11 DEF UnlockWrite
<1>12. CASE \E t \in Threads : \E op \in ops : Complete(t, op)
  BY <1>12 DEF Complete
<1>13. CASE \E t \in Threads : TakeHandler(t)
  BY <1>13 DEF TakeHandler, HasFrame, Front
<1>14. CASE \E t \in Threads : LockBuffer(t, "lockPop", "pop")
  BY <1>14 DEF LockBuffer
<1>15. CASE \E t \in Threads : PopFrame(t)
  BY <1>15 DEF PopFrame
<1>16. CASE \E t \in Threads : ClearInWrite(t)
  BY <1>16 DEF ClearInWrite
<1>17. CASE \E t \in Threads : CallHandler(t)
  BY <1>17 DEF CallHandler
<1>18. CASE \E t \in Threads : Close(t)
  BY <1>18 DEF Close
<1>19. CASE \E op \in ops : \E r \in Results : SocketDone(op, r)
  BY <1>19 DEF SocketDone
<1>20. CASE UNCHANGED vars
  BY <1>20 DEF vars
<1> QED
  BY <1>1, <1>2, <1>3, <1>4, <1>5, <1>6, <1>7, <1>8, <1>9, <1>10, <1>11,
     <1>12, <1>13, <1>14, <1>15, <1>16, <1>17, <1>18, <1>19, <1>20
     DEF Next, Step, Rest

\* The handlers that handleWrite has moved out are those of distinct frames.
LEMMA SettledStep == IInv /\ [Next]_vars => Settled'
<1> SUFFICES ASSUME IInv, [Next]_vars PROVE Settled'
  OBVIOUS
<1> USE DEF IInv, Goto, TypeOK, Results, Settled, Owing, Frame, Calling, In, Borrowed,
           Settling, Token, Holds, Deque
<1>1. CASE \E t \in Threads, f \in Frames : Call(t, f)
  BY <1>1 DEF Call
<1>2. CASE \E t \in Threads : LockBuffer(t, "push", "append")
  BY <1>2 DEF LockBuffer
<1>3. CASE \E t \in Threads : AppendFrame(t)
  BY <1>3 DEF AppendFrame
<1>4. CASE \E t \in Threads : LockWrite(t)
  BY <1>4 DEF LockWrite
<1>5. CASE \E t \in Threads : ExchangeBusy(t)
  BY <1>5 DEF ExchangeBusy
<1>6. CASE \E t \in Threads : ExchangeFree(t)
  BY <1>6 DEF ExchangeFree
<1>7. CASE \E t \in Threads : StartWrite(t)
  BY <1>7 DEF StartWrite, HasFrame, Front
<1>8. CASE \E t \in Threads : StartThrows(t)
  <2> PICK t \in Threads : StartThrows(t)
    BY <1>8
  <2>1. \A u \in Threads : Owing(u)' => Owing(u)
    BY DEF StartThrows
  <2> QED
    BY <2>1 DEF StartThrows
<1>9. CASE \E t \in Threads : NothingToWrite(t)
  BY <1>9 DEF NothingToWrite
<1>10. CASE \E t \in Threads : ResetInWrite(t)
  BY <1>10 DEF ResetInWrite
<1>11. CASE \E t \in Threads : UnlockWrite(t)
  BY <1>11 DEF UnlockWrite
<1>12. CASE \E t \in Threads : \E op \in ops : Complete(t, op)
  BY <1>12 DEF Complete
<1>13. CASE \E t \in Threads : TakeHandler(t)
  BY <1>13 DEF TakeHandler
<1>14. CASE \E t \in Threads : LockBuffer(t, "lockPop", "pop")
  BY <1>14 DEF LockBuffer
<1>15. CASE \E t \in Threads : PopFrame(t)
  BY <1>15 DEF PopFrame
<1>16. CASE \E t \in Threads : ClearInWrite(t)
  BY <1>16 DEF ClearInWrite
<1>17. CASE \E t \in Threads : CallHandler(t)
  BY <1>17 DEF CallHandler
<1>18. CASE \E t \in Threads : Close(t)
  BY <1>18 DEF Close
<1>19. CASE \E op \in ops : \E r \in Results : SocketDone(op, r)
  BY <1>19 DEF SocketDone
<1>20. CASE UNCHANGED vars
  BY <1>20 DEF vars
<1> QED
  BY <1>1, <1>2, <1>3, <1>4, <1>5, <1>6, <1>7, <1>8, <1>9, <1>10, <1>11,
     <1>12, <1>13, <1>14, <1>15, <1>16, <1>17, <1>18, <1>19, <1>20
     DEF Next, Step, Rest

\* handleWrite forgets the error code when it returns.
LEMMA ErrorsStep == IInv /\ [Next]_vars => Errors'
<1> SUFFICES ASSUME IInv, [Next]_vars PROVE Errors'
  OBVIOUS
<1> USE DEF IInv, Goto, TypeOK, Results, Errors
<1>1. CASE \E t \in Threads, f \in Frames : Call(t, f)
  BY <1>1 DEF Call
<1>2. CASE \E t \in Threads : LockBuffer(t, "push", "append")
  BY <1>2 DEF LockBuffer
<1>3. CASE \E t \in Threads : AppendFrame(t)
  BY <1>3 DEF AppendFrame
<1>4. CASE \E t \in Threads : LockWrite(t)
  BY <1>4 DEF LockWrite
<1>5. CASE \E t \in Threads : ExchangeBusy(t)
  BY <1>5 DEF ExchangeBusy
<1>6. CASE \E t \in Threads : ExchangeFree(t)
  BY <1>6 DEF ExchangeFree
<1>7. CASE \E t \in Threads : StartWrite(t)
  BY <1>7 DEF StartWrite
<1>8. CASE \E t \in Threads : StartThrows(t)
  BY <1>8 DEF StartThrows
<1>9. CASE \E t \in Threads : NothingToWrite(t)
  BY <1>9 DEF NothingToWrite
<1>10. CASE \E t \in Threads : ResetInWrite(t)
  BY <1>10 DEF ResetInWrite
<1>11. CASE \E t \in Threads : UnlockWrite(t)
  BY <1>11 DEF UnlockWrite
<1>12. CASE \E t \in Threads : \E op \in ops : Complete(t, op)
  BY <1>12 DEF Complete, Ops
<1>13. CASE \E t \in Threads : TakeHandler(t)
  BY <1>13 DEF TakeHandler
<1>14. CASE \E t \in Threads : LockBuffer(t, "lockPop", "pop")
  BY <1>14 DEF LockBuffer
<1>15. CASE \E t \in Threads : PopFrame(t)
  BY <1>15 DEF PopFrame
<1>16. CASE \E t \in Threads : ClearInWrite(t)
  BY <1>16 DEF ClearInWrite
<1>17. CASE \E t \in Threads : CallHandler(t)
  BY <1>17 DEF CallHandler
<1>18. CASE \E t \in Threads : Close(t)
  BY <1>18 DEF Close
<1>19. CASE \E op \in ops : \E r \in Results : SocketDone(op, r)
  BY <1>19 DEF SocketDone
<1>20. CASE UNCHANGED vars
  BY <1>20 DEF vars
<1> QED
  BY <1>1, <1>2, <1>3, <1>4, <1>5, <1>6, <1>7, <1>8, <1>9, <1>10, <1>11,
     <1>12, <1>13, <1>14, <1>15, <1>16, <1>17, <1>18, <1>19, <1>20
     DEF Next, Step, Rest

\* Whoever leaves the loop with the front of the deque not written leaves
\* another thread, or a socket write, to go on.
LEMMA WakeupStep == IInv /\ [Next]_vars => NoLostWakeup'
<1> SUFFICES ASSUME IInv, [Next]_vars PROVE NoLostWakeup'
  OBVIOUS
<1> USE DEF IInv, Goto, TypeOK, Results, NoLostWakeup, WillLook, Faulted, Errors, Token,
           Holds, Mutexes, InWriteLock, HasFrame, Front
<1>1. CASE \E t \in Threads, f \in Frames : Call(t, f)
  BY <1>1 DEF Call
<1>2. CASE \E t \in Threads : LockBuffer(t, "push", "append")
  BY <1>2 DEF LockBuffer
<1>3. CASE \E t \in Threads : AppendFrame(t)
  BY <1>3 DEF AppendFrame
<1>4. CASE \E t \in Threads : LockWrite(t)
  BY <1>4 DEF LockWrite
<1>5. CASE \E t \in Threads : ExchangeBusy(t)
  BY <1>5 DEF ExchangeBusy
<1>6. CASE \E t \in Threads : ExchangeFree(t)
  BY <1>6 DEF ExchangeFree
<1>7. CASE \E t \in Threads : StartWrite(t)
  BY <1>7 DEF StartWrite
<1>8. CASE \E t \in Threads : StartThrows(t)
  BY <1>8 DEF StartThrows
<1>9. CASE \E t \in Threads : NothingToWrite(t)
  BY <1>9 DEF NothingToWrite
<1>10. CASE \E t \in Threads : ResetInWrite(t)
  BY <1>10 DEF ResetInWrite
<1>11. CASE \E t \in Threads : UnlockWrite(t)
  BY <1>11 DEF UnlockWrite
<1>12. CASE \E t \in Threads : \E op \in ops : Complete(t, op)
  <2> PICK t \in Threads, op \in ops : Complete(t, op)
    BY <1>12
  <2>1. CASE op.ec = "err"
    <3>1. ec'[t] = "err"
      BY <2>1 DEF Complete
    <3> QED
      BY <3>1
  <2>2. CASE op.ec = "ok"
    <3>1. pc'[t] = "take" /\ ec'[t] = "ok"
      BY <2>2 DEF Complete
    <3> QED
      BY <3>1
  <2> QED
    BY <2>1, <2>2 DEF Complete, Ops
<1>13. CASE \E t \in Threads : TakeHandler(t)
  BY <1>13 DEF TakeHandler
<1>14. CASE \E t \in Threads : LockBuffer(t, "lockPop", "pop")
  BY <1>14 DEF LockBuffer
<1>15. CASE \E t \in Threads : PopFrame(t)
  BY <1>15 DEF PopFrame
<1>16. CASE \E t \in Threads : ClearInWrite(t)
  BY <1>16 DEF ClearInWrite
<1>17. CASE \E t \in Threads : CallHandler(t)
  <2> PICK t \in Threads : CallHandler(t)
    BY <1>17
  <2>1. CASE ec[t] = "err"
    <3>1. [frame |-> handler[t], ec |-> "err"] \in reported'
      BY <2>1 DEF CallHandler
    <3> QED
      BY <3>1
  <2>2. CASE ec[t] = "ok"
    <3>1. pc'[t] = "kick"
      BY <2>2 DEF CallHandler
    <3> QED
      BY <3>1
  <2> QED
    BY <2>1, <2>2
<1>18. CASE \E t \in Threads : Close(t)
  BY <1>18 DEF Close
<1>19. CASE \E op \in ops : \E r \in Results : SocketDone(op, r)
  BY <1>19 DEF SocketDone
<1>20. CASE UNCHANGED vars
  BY <1>20 DEF vars
<1> QED
  BY <1>1, <1>2, <1>3, <1>4, <1>5, <1>6, <1>7, <1>8, <1>9, <1>10, <1>11,
     <1>12, <1>13, <1>14, <1>15, <1>16, <1>17, <1>18, <1>19, <1>20
     DEF Next, Step, Rest
-----------------------------------------------------------------------------
\* Before any call the invariant holds: the writer is idle and empty.
LEMMA InitInv == Init => IInv
<1> SUFFICES ASSUME Init PROVE IInv
  OBVIOUS
<1> USE DEF Init
<1>1. TypeOK
  <2>1. pc \in [Threads -> Labels] /\ ec \in [Threads -> Results]
    BY DEF Labels, Results
  <2>2. /\ frame \in [Threads -> Frames \union {NoFrame}]
        /\ handler \in [Threads -> Frames \union {NoFrame}]
    OBVIOUS
  <2>3. bufferToWrite \in Seq(Frames) /\ wire \in Seq(Frames)
    OBVIOUS
  <2>4. ops \subseteq Ops /\ reported \subseteq [frame : Frames, ec : Results]
    OBVIOUS
  <2> QED
    BY <2>1, <2>2, <2>3, <2>4 DEF TypeOK
<1>2. Mutexes
  BY NoThreadAssumption DEF Mutexes, InWriteLock, InBufferLock
<1>3. Token
  BY DEF Token, Holds
<1>4. Frame
  BY DEF Frame, Calling
<1>5. Deque /\ Borrowed
  BY DEF Deque, Borrowed, Settling
<1>6. Settled /\ Errors
  BY DEF Settled, Owing, Errors
<1>7. NoLostWakeup
  BY DEF NoLostWakeup, HasFrame, Front
<1> QED
  BY <1>1, <1>2, <1>3, <1>4, <1>5, <1>6, <1>7 DEF IInv

\* The invariant of asyncWrite and handleWrite holds in every behaviour.
LEMMA Invariance == Spec => []IInv
<1>1. IInv /\ [Next]_vars => IInv'
  BY TypeStep, MutexesStep, TokenStep, FrameStep, DequeStep, BorrowedStep,
     SettledStep, ErrorsStep, WakeupStep DEF IInv
<1> QED
  BY InitInv, <1>1, PTL DEF Spec

\* The variables of the writer keep their types.
THEOREM TypeCorrect == Spec => []TypeOK
<1>1. IInv => TypeOK
  BY DEF IInv
<1> QED
  BY Invariance, <1>1, PTL

\* A socket write borrows the front of the deque, alone, until it is popped:
\* handleWrite always pops the frame that was written and calls its handler.
THEOREM BorrowCorrect == Spec => []FrontIsBorrowed
<1>1. IInv => FrontIsBorrowed
  <2> SUFFICES ASSUME IInv PROVE FrontIsBorrowed
    OBVIOUS
  <2>1. /\ \A o1, o2 \in ops : o1 = o2
        /\ \A t, u \in Settling : t = u
        /\ ops = {} \/ Settling = {}
    BY DEF IInv, Token, Holds, Settling
  <2> QED
    BY <2>1 DEF IInv, Borrowed, FrontIsBorrowed
<1> QED
  BY Invariance, <1>1, PTL

\* With writeLock_ held around the exchange, the look and the reset, no frame
\* is left in the deque with nobody to write it.
THEOREM WakeupCorrect == Spec => []NoLostWakeup
<1>1. IInv => NoLostWakeup
  BY DEF IInv
<1> QED
  BY Invariance, <1>1, PTL

-----------------------------------------------------------------------------
(* BufferedWriter implements WriteQueue. *)

\* emplace_back is the abstract Submit.
LEMMA AppendSubmits ==
  ASSUME IInv, NEW t \in Threads, AppendFrame(t)
  PROVE  Abstract!Submit(frame[t]) /\ frame[t] \in Frames
<1> USE DEF IInv, AppendFrame, Goto
<1>1. Calling(t)
  BY DEF Calling
<1>2. frame[t] \in Frames
  BY <1>1 DEF Frame, TypeOK
<1>3. ~In(frame[t], bufferToWrite) /\ ~In(frame[t], wire)
  BY <1>1 DEF Frame
<1>4. Owed' = Owed
  BY DEF Owed, TypeOK
<1> QED
  BY <1>2, <1>3, <1>4 DEF Abstract!Submit, Abstract!In, In

\* The start of a socket write is the abstract Transmit.
LEMMA StartTransmits ==
  ASSUME IInv, NEW t \in Threads, StartWrite(t)
  PROVE  Abstract!Transmit
<1> USE DEF IInv, StartWrite, Goto
<1>1. ops = {} /\ Settling = {}
  BY DEF Token, Holds, Settling
<1>2. bufferToWrite # <<>> /\ Front = Head(bufferToWrite)
  BY DEF HasFrame, Front
<1>3. ~In(Head(bufferToWrite), wire)
  <2>1. 1 \in 1..Len(bufferToWrite) /\ Head(bufferToWrite) = bufferToWrite[1]
    BY <1>2 DEF TypeOK
  <2> QED
    BY <1>1, <2>1 DEF Deque
<1>4. Owed' = Owed
  BY DEF Owed, TypeOK
<1> QED
  BY <1>2, <1>3, <1>4 DEF Abstract!Transmit, Abstract!In, In

\* pop_front is the abstract Settle, with the error code of handleWrite.
LEMMA PopSettles ==
  ASSUME IInv, NEW t \in Threads, PopFrame(t)
  PROVE  Abstract!Settle(ec[t]) /\ ec[t] \in Results
<1> USE DEF IInv, PopFrame, Goto
<1>1. t \in Settling
  BY DEF Settling
<1>2. /\ bufferToWrite # <<>>
      /\ In(Head(bufferToWrite), wire)
      /\ handler[t] = Head(bufferToWrite)
  BY <1>1 DEF Borrowed
<1>3. Owed' = Owed \union {[frame |-> Head(bufferToWrite), ec |-> ec[t]]}
  <2>1. {u \in Threads : pc'[u] \in {"clear", "call"}}
          = {u \in Threads : pc[u] \in {"clear", "call"}} \union {t}
    BY DEF TypeOK
  <2> QED
    BY <1>2, <2>1 DEF Owed
<1> QED
  BY <1>2, <1>3 DEF Abstract!Settle, Abstract!In, In, TypeOK

\* The call of the handler is the abstract Report.
LEMMA CallReports ==
  ASSUME IInv, NEW t \in Threads, CallHandler(t)
  PROVE  \E o \in Abstract!Reports : Abstract!Report(o)
<1> USE DEF IInv, CallHandler, Goto
<1> DEFINE o == [frame |-> handler[t], ec |-> ec[t]]
           S == {u \in Threads : pc[u] \in {"clear", "call"}}
<1>1. t \in S /\ S' = S \ {t}
  BY DEF TypeOK
<1>2. o \in Abstract!Reports
  <2>1. handler[t] \in Frames
    BY DEF Settled, Owing
  <2>2. ec[t] \in {"ok", "err"}
    BY DEF TypeOK, Results
  <2> QED
    BY <2>1, <2>2 DEF Abstract!Reports, Abstract!Results
<1>3. \A u \in S : handler[u] = handler[t] => u = t
  BY DEF Settled, Owing
<1>4. \A u \in S \ {t} : handler'[u] = handler[u] /\ ec'[u] = ec[u]
  BY DEF TypeOK
<1>5. Owed = {[frame |-> handler[u], ec |-> ec[u]] : u \in S}
  BY DEF Owed
<1>6. Owed' = {[frame |-> handler[u], ec |-> ec[u]] : u \in S \ {t}}
  <2>1. Owed' = {[frame |-> handler'[u], ec |-> ec'[u]] : u \in S \ {t}}
    BY <1>1 DEF Owed
  <2> QED
    BY <1>4, <2>1
<1>7. o \in Owed
  BY <1>1, <1>5
<1>8. Owed' = Owed \ {o}
  BY <1>3, <1>5, <1>6
<1> QED
  BY <1>2, <1>7, <1>8 DEF Abstract!Report

\* BufferedWriterSocket keeps the promise of WriteQueue: frames go out once
\* each, in the order of the emplace_backs, and every frame popped has its own
\* handler called once with its own result.
THEOREM Implementation == Spec => ImplementsWriteQueue
<1>1. Init => Abstract!Init
  BY DEF Init, Abstract!Init, Owed
<1>2. IInv /\ [Next]_vars => [Abstract!Next]_(Abstract!vars)
  <2> SUFFICES ASSUME IInv, [Next]_vars
               PROVE  Abstract!Next \/ UNCHANGED Abstract!vars
    OBVIOUS
  <2>1. CASE \E t \in Threads : AppendFrame(t)
    BY <2>1, AppendSubmits DEF Abstract!Next
  <2>2. CASE \E t \in Threads : StartWrite(t)
    BY <2>2, StartTransmits DEF Abstract!Next
  <2>3. CASE \E t \in Threads : PopFrame(t)
    BY <2>3, PopSettles DEF Abstract!Next, Abstract!Results, Results
  <2>4. CASE \E t \in Threads : CallHandler(t)
    BY <2>4, CallReports DEF Abstract!Next
  <2> DEFINE Quiet == UNCHANGED <<bufferToWrite, wire, reported>> /\ Owed' = Owed
  <2>5. Quiet => UNCHANGED Abstract!vars
    BY DEF Abstract!vars
  <2> HIDE DEF Quiet
  <2> USE DEF IInv, TypeOK, Goto, Owed, Quiet
  <2>6. CASE \E t \in Threads, f \in Frames : Call(t, f)
    BY <2>6, <2>5 DEF Call
  <2>7. CASE \E t \in Threads : LockBuffer(t, "push", "append")
                             \/ LockBuffer(t, "lockPop", "pop")
    BY <2>7, <2>5 DEF LockBuffer
  <2>8. CASE \E t \in Threads : LockWrite(t)
    BY <2>8, <2>5 DEF LockWrite
  <2>9. CASE \E t \in Threads : ExchangeBusy(t) \/ ExchangeFree(t)
    BY <2>9, <2>5 DEF ExchangeBusy, ExchangeFree
  <2>10. CASE \E t \in Threads : NothingToWrite(t) \/ ResetInWrite(t)
    BY <2>10, <2>5 DEF NothingToWrite, ResetInWrite
  <2>11. CASE \E t \in Threads : StartThrows(t)
    BY <2>11, <2>5 DEF StartThrows
  <2>12. CASE \E t \in Threads : UnlockWrite(t)
    BY <2>12, <2>5 DEF UnlockWrite
  <2>13. CASE \E t \in Threads : \E op \in ops : Complete(t, op)
    BY <2>13, <2>5 DEF Complete
  <2>14. CASE \E t \in Threads : TakeHandler(t)
    BY <2>14, <2>5 DEF TakeHandler
  <2>15. CASE \E t \in Threads : ClearInWrite(t)
    BY <2>15, <2>5 DEF ClearInWrite
  <2>16. CASE \E t \in Threads : Close(t)
    BY <2>16, <2>5 DEF Close
  <2>17. CASE \E op \in ops : \E r \in Results : SocketDone(op, r)
    BY <2>17, <2>5 DEF SocketDone
  <2>18. CASE UNCHANGED vars
    BY <2>18, <2>5 DEF vars
  <2> QED
    BY <2>1, <2>2, <2>3, <2>4, <2>6, <2>7, <2>8, <2>9, <2>10, <2>11, <2>12,
       <2>13, <2>14, <2>15, <2>16, <2>17, <2>18 DEF Next, Step, Rest
<1> QED
  BY Invariance, <1>1, <1>2, PTL DEF Spec, ImplementsWriteQueue, Abstract!Spec
=============================================================================
