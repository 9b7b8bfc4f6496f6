-------------------------- MODULE IrcClientProofs --------------------------
(***************************************************************************)
(* For every number of nicknames and however much the server sends and     *)
(* main types: the write queue of IrcClient loses no wakeup, a client that *)
(* is closed leaves the pool, main's join returns only when it has, the    *)
(* lambda of connect does not outlive it, and the client goes by the       *)
(* nickname it is registered with.                                         *)
(*                                                                         *)
(* NothingStranded is not inductive: while writeLock_ is held by somebody  *)
(* who is about to reset inWrite_, a message may be appended.  IInv says   *)
(* that its sender is then still to call write(), and that only the holder *)
(* of the lock is to reset the flag.                                       *)
(*                                                                         *)
(* The pool and the lambda follow from one invariant, Closing, which is    *)
(* about what each actor has still to execute: who may have which          *)
(* statements, which of them come with which, and what the flags say while *)
(* they are to come.                                                       *)
(***************************************************************************)
EXTENDS IrcClient, SequenceTheorems, TLAPS

-----------------------------------------------------------------------------
(* The write queue *)

\* Statements that write a message, or lead to one.
Writers == {"text", "NICK", "QUIT", "write"}

Writes(t) == \E i \in 1..Len(t) : t[i] \in Writers
KeepsWriters(t, new) == Writes(t) => Writes(new)

\* Somebody is still to call write().
Pending(lists) == \E a \in Actors : Writes(lists[a])

Types == todo \in [Actors -> Seq(Statements)]

\* "unset" is the next statement of whoever has it.
UnsetFirst ==
    \A a \in Actors : \A i \in 1..Len(todo[a]) : todo[a][i] = "unset" => i = 1

\* Only the holder of writeLock_ is to reset inWrite_.
UnsetLocked ==
    \A a \in Actors : todo[a] # <<>> /\ Head(todo[a]) = "unset" =>
        /\ writeLock
        /\ \A b \in Actors : todo[b] # <<>> /\ Head(todo[b]) = "unset" => b = a

\* A message that no write will fetch is to be followed by a write().
Followed ==
    out # <<>> /\ (writeLock \/ ~inWrite) /\ connected /\ ~Released /\ ~Shutting
        => Pending(todo)

IInv == Types /\ UnsetFirst /\ UnsetLocked /\ Followed

\* The next statement of an actor is socket_->close().
Leaving(a) == todo[a] # <<>> /\ Head(todo[a]) = "closeSocket"

\* Statements a function may begin with: all but the one within write().
Stmts == Seq(Statements \ {"unset"})

-----------------------------------------------------------------------------
(* The lists of statements *)

\* What is left after a statement has no "unset".
LEMMA TailFacts ==
    ASSUME Types, UnsetFirst, NEW a \in Actors, todo[a] # <<>>
    PROVE  /\ Tail(todo[a]) \in Stmts
           /\ Len(Tail(todo[a])) = Len(todo[a]) - 1
           /\ \A i \in 1..Len(Tail(todo[a])) : Tail(todo[a])[i] = todo[a][i + 1]
<1> DEFINE t == todo[a]
<1>1. t \in Seq(Statements) /\ t # <<>>
  BY DEF Types
<1>2. /\ Tail(t) \in Seq(Statements) /\ Len(Tail(t)) = Len(t) - 1
      /\ \A i \in 1..Len(Tail(t)) : Tail(t)[i] = t[i + 1]
  BY <1>1
<1>3. ASSUME NEW i \in 1..Len(Tail(t))
      PROVE  Tail(t)[i] \in Statements \ {"unset"}
  <2>1. i + 1 \in 1..Len(t) /\ i + 1 # 1
    BY <1>1, <1>2
  <2> QED
    BY <1>1, <1>2, <2>1 DEF UnsetFirst
<1>4. Tail(t) \in Stmts
  <2> DEFINE n == Len(Tail(t))  S == Statements \ {"unset"}
  <2>1. n \in Nat /\ Tail(t) \in [1..n -> Statements]
    BY <1>2, LenProperties
  <2>2. Tail(t) \in [1..n -> S]
    BY <1>3, <2>1
  <2> HIDE DEF S
  <2>3. Tail(t) \in Seq(S)
    BY <2>1, <2>2, SeqDef
  <2> QED
    BY <2>3 DEF Stmts, S
<1> QED
  BY <1>2, <1>4

\* A statement that goes on with others: nothing is lost but the statement.
LEMMA CallFacts ==
    ASSUME Types, UnsetFirst, NEW a \in Actors, NEW s, NEW stmts \in Stmts,
           Call(a, s, stmts)
    PROVE  /\ stmts \o Tail(todo[a]) \in Stmts
           /\ todo' = [todo EXCEPT ![a] = stmts \o Tail(todo[a])]
           /\ s \notin Writers => KeepsWriters(todo[a], stmts \o Tail(todo[a]))
           /\ Writes(stmts) => Writes(stmts \o Tail(todo[a]))
<1> DEFINE t == todo[a]  new == stmts \o Tail(t)
<1>1. t \in Seq(Statements) /\ t # <<>> /\ t[1] = s
  BY DEF Types, Call
<1>2. /\ Tail(t) \in Stmts /\ Len(Tail(t)) = Len(t) - 1
      /\ \A i \in 1..Len(Tail(t)) : Tail(t)[i] = t[i + 1]
  BY <1>1, TailFacts
<1>3. new \in Stmts
  BY <1>2 DEF Stmts
<1>4. /\ Len(new) = Len(stmts) + Len(Tail(t))
      /\ Len(stmts) \in Nat
      /\ \A j \in 1..Len(stmts) : j \in 1..Len(new) /\ new[j] = stmts[j]
      /\ \A j \in 1..Len(Tail(t)) :
            Len(stmts) + j \in 1..Len(new) /\ new[Len(stmts) + j] = Tail(t)[j]
  BY <1>2 DEF Stmts
<1>5. ASSUME s \notin Writers, NEW i \in 1..Len(t), t[i] \in Writers
      PROVE  Writes(new)
  <2>1. i # 1
    BY <1>1, <1>5
  <2>2. i - 1 \in 1..Len(Tail(t)) /\ Tail(t)[i - 1] = t[i]
    BY <1>1, <1>2, <2>1
  <2>3. Len(stmts) + (i - 1) \in 1..Len(new) /\ new[Len(stmts) + (i - 1)] = t[i]
    BY <1>4, <2>2
  <2> QED
    BY <1>5, <2>3 DEF Writes
<1>6. s \notin Writers => KeepsWriters(t, new)
  BY <1>5 DEF KeepsWriters, Writes
<1>7. Writes(stmts) => Writes(new)
  BY <1>4 DEF Writes
<1> QED
  BY <1>3, <1>6, <1>7 DEF Call

LEMMA DoFacts ==
    ASSUME Types, UnsetFirst, NEW a \in Actors, NEW s, Do(a, s)
    PROVE  /\ Tail(todo[a]) \in Stmts
           /\ todo' = [todo EXCEPT ![a] = Tail(todo[a])]
           /\ s \notin Writers => KeepsWriters(todo[a], Tail(todo[a]))
<1>1. todo[a] # <<>>
  BY DEF Do
<1>2. <<>> \o Tail(todo[a]) = Tail(todo[a]) /\ <<>> \in Stmts
  BY <1>1, TailFacts DEF Stmts
<1>3. Call(a, s, <<>>)
  BY <1>2 DEF Do, Call
<1> QED
  BY <1>2, <1>3, CallFacts

-----------------------------------------------------------------------------
(* The steps *)

\* An actor replaces its statements by others without "unset": the types and
\* who is to reset inWrite_ stay right.
LEMMA Replace ==
    ASSUME Types, UnsetFirst, UnsetLocked,
           NEW a \in Actors, NEW new \in Stmts,
           todo' = [todo EXCEPT ![a] = new],
           \/ writeLock' = writeLock
           \/ ~writeLock \/ (todo[a] # <<>> /\ Head(todo[a]) = "unset")
    PROVE  Types' /\ UnsetFirst' /\ UnsetLocked'
<1>1. Types'
  BY DEF Types, Stmts
<1>2. \A i \in 1..Len(new) : new[i] # "unset"
  BY DEF Stmts
<1>3. UnsetFirst'
  BY <1>2 DEF UnsetFirst, Types
<1>4. new # <<>> => Head(new) # "unset"
  BY <1>2 DEF Stmts
<1>5. ASSUME NEW b \in Actors, todo'[b] # <<>>, Head(todo'[b]) = "unset"
      PROVE  b # a /\ todo[b] # <<>> /\ Head(todo[b]) = "unset"
  BY <1>4, <1>5 DEF Types
<1> QED
  BY <1>1, <1>3, <1>5 DEF UnsetLocked

\* Who had a write to call has one still.
LEMMA KeepsPending ==
    ASSUME Types, NEW a \in Actors, NEW new \in Stmts,
           todo' = [todo EXCEPT ![a] = new],
           KeepsWriters(todo[a], new),
           Pending(todo)
    PROVE  Pending(todo')
  BY DEF Pending, KeepsWriters, Types

\* Whoever waits in socket_->close() waits on, unless the step is its return.
LEMMA KeepsShutting ==
    ASSUME Types, NEW a \in Actors, NEW new,
           todo' = [todo EXCEPT ![a] = new],
           Leaving(a) => Released', Shutting
    PROVE  Shutting' \/ Released'
<1>1. PICK b \in Actors : Leaving(b)
  BY DEF Shutting, Leaving
<1>2. CASE b = a
  BY <1>1, <1>2
<1>3. CASE b # a
  <2>1. todo'[b] = todo[b]
    BY <1>3 DEF Types
  <2> QED
    BY <1>1, <2>1 DEF Shutting, Leaving
<1> QED
  BY <1>2, <1>3

\* A step that leaves the queue alone and takes no write() from anybody.
LEMMA QuietStep ==
    ASSUME IInv, NEW a \in Actors, NEW new \in Stmts,
           todo' = [todo EXCEPT ![a] = new],
           KeepsWriters(todo[a], new),
           UNCHANGED <<out, inWrite, writeLock, connected>>,
           Released => Released', Leaving(a) => Released'
    PROVE  IInv'
<1>1. Types' /\ UnsetFirst' /\ UnsetLocked'
  BY Replace DEF IInv
<1>2. Pending(todo) => Pending(todo')
  BY KeepsPending DEF IInv
<1>3. Shutting => Shutting' \/ Released'
  BY KeepsShutting DEF IInv
<1>4. Followed'
  BY <1>2, <1>3 DEF IInv, Followed
<1> QED
  BY <1>1, <1>4 DEF IInv

\* The same, for a step in which no actor moves.
LEMMA IdleStep ==
    ASSUME IInv,
           UNCHANGED <<todo, out, inWrite, writeLock, connected>>,
           Released => Released'
    PROVE  IInv'
<1>1. Shutting => Shutting'
  BY DEF Shutting
<1>2. Pending(todo) => Pending(todo')
  BY DEF Pending
<1>3. Followed'
  BY <1>1, <1>2 DEF IInv, Followed
<1> QED
  BY <1>3 DEF IInv, Types, UnsetFirst, UnsetLocked

\* The three ways in which an actor moves without writing.
LEMMA DoStep ==
    ASSUME IInv, NEW a \in Actors, NEW s, s \notin Writers, Do(a, s),
           UNCHANGED <<out, inWrite, writeLock, connected>>,
           Released => Released', s = "closeSocket" => Released'
    PROVE  IInv'
<1>1. /\ Tail(todo[a]) \in Stmts
      /\ todo' = [todo EXCEPT ![a] = Tail(todo[a])]
      /\ KeepsWriters(todo[a], Tail(todo[a]))
  BY DoFacts DEF IInv
<1>2. Leaving(a) => Released'
  BY DEF Leaving, Do
<1> QED
  BY <1>1, <1>2, QuietStep

LEMMA BeginStep ==
    ASSUME IInv, NEW a \in Actors, NEW stmts \in Stmts, Begin(a, stmts),
           UNCHANGED <<out, inWrite, writeLock, connected>>,
           Released => Released'
    PROVE  IInv'
<1>1. todo' = [todo EXCEPT ![a] = stmts] /\ KeepsWriters(todo[a], stmts)
  BY DEF Begin, KeepsWriters, Writes
<1>2. ~Leaving(a)
  BY DEF Begin, Leaving
<1> QED
  BY <1>1, <1>2, QuietStep

LEMMA CallStep ==
    ASSUME IInv, NEW a \in Actors, NEW s, s \notin Writers,
           NEW stmts \in Stmts, Call(a, s, stmts),
           UNCHANGED <<out, inWrite, writeLock, connected>>,
           Released => Released', s # "closeSocket"
    PROVE  IInv'
<1>1. /\ stmts \o Tail(todo[a]) \in Stmts
      /\ todo' = [todo EXCEPT ![a] = stmts \o Tail(todo[a])]
      /\ KeepsWriters(todo[a], stmts \o Tail(todo[a]))
  BY CallFacts DEF IInv
<1>2. ~Leaving(a)
  BY DEF Call, Leaving
<1> QED
  BY <1>1, <1>2, QuietStep

\* A step after which its actor is still to call write().
LEMMA WriterStep ==
    ASSUME IInv, NEW a \in Actors, NEW new \in Stmts,
           todo' = [todo EXCEPT ![a] = new], Writes(new),
           writeLock' = writeLock
    PROVE  IInv'
<1>1. Types' /\ UnsetFirst' /\ UnsetLocked'
  BY Replace DEF IInv
<1>2. Pending(todo')
  BY DEF Pending, IInv, Types
<1> QED
  BY <1>1, <1>2 DEF IInv, Followed

\* sendMessage: its sender is to call write().
LEMMA SendStep ==
    ASSUME IInv, NEW a \in Actors, NEW s, NEW m, sendMessage(a, s, m)
    PROVE  IInv'
<1>1. <<"write">> \in Stmts /\ Writes(<<"write">>)
  BY DEF Stmts, Statements, Writes, Writers
<1>2. /\ <<"write">> \o Tail(todo[a]) \in Stmts
      /\ todo' = [todo EXCEPT ![a] = <<"write">> \o Tail(todo[a])]
      /\ Writes(<<"write">> \o Tail(todo[a]))
  BY <1>1, CallFacts DEF sendMessage, IInv
<1>3. writeLock' = writeLock
  BY DEF sendMessage
<1> QED
  BY <1>2, <1>3, WriterStep

\* write(): whoever leaves the queue to others has seen inWrite_ set, and
\* whoever sets it has the lock until the flag is reset.
LEMMA WriteStep ==
    ASSUME IInv, NEW a \in Actors, Write(a)
    PROVE  IInv'
<1> USE DEF IInv
<1>0. connected' = connected /\ Released' = Released
  BY DEF Write, socket, server, Released
<1>1. ASSUME Do(a, "write"), ~writeLock, inWrite',
             writeLock' = writeLock \/ writeLock' = FALSE
      PROVE  IInv'
  <2>1. /\ Tail(todo[a]) \in Stmts
        /\ todo' = [todo EXCEPT ![a] = Tail(todo[a])]
    BY <1>1, DoFacts
  <2>2. Types' /\ UnsetFirst' /\ UnsetLocked'
    BY <1>1, <2>1, Replace
  <2> QED
    BY <1>1, <2>2 DEF Followed
<1>2. CASE WriteBusy(a)
  BY <1>1, <1>2 DEF WriteBusy, output
<1>3. CASE WriteFront(a)
  BY <1>1, <1>3 DEF WriteFront
<1>4. CASE WriteNothing(a)
  <2> DEFINE new == <<"unset">> \o Tail(todo[a])
  <2>1. /\ todo[a] # <<>> /\ Tail(todo[a]) \in Stmts
        /\ todo' = [todo EXCEPT ![a] = new]
    BY <1>4, TailFacts DEF WriteNothing, Call
  <2>2. new \in Seq(Statements) /\ Head(new) = "unset"
    BY <2>1 DEF Stmts, Statements
  <2>3. \A i \in 1..Len(new) : new[i] = "unset" => i = 1
    BY <2>1 DEF Stmts
  <2>4. Types'
    BY <2>1, <2>2 DEF Types
  <2> HIDE DEF new
  <2>5. UnsetFirst'
    BY <2>1, <2>3 DEF Types, UnsetFirst
  <2>6. \A b \in Actors : todo[b] # <<>> => Head(todo[b]) # "unset"
    BY <1>4 DEF WriteNothing, UnsetLocked
  <2>7. UnsetLocked'
    BY <1>4, <2>1, <2>6 DEF WriteNothing, UnsetLocked, Types
  <2>8. Followed'
    BY <1>4 DEF WriteNothing, Followed
  <2> QED
    BY <2>4, <2>5, <2>7, <2>8
<1>5. CASE Unset(a)
  <2>1. /\ Tail(todo[a]) \in Stmts
        /\ todo' = [todo EXCEPT ![a] = Tail(todo[a])]
        /\ KeepsWriters(todo[a], Tail(todo[a]))
    BY <1>5, DoFacts DEF Unset, Writers
  <2>2. todo[a] # <<>> /\ Head(todo[a]) = "unset"
    BY <1>5 DEF Unset, Do
  <2>3. Types' /\ UnsetFirst' /\ UnsetLocked'
    BY <2>1, <2>2, Replace
  <2>4. Pending(todo) => Pending(todo')
    BY <2>1, KeepsPending
  <2>5. ~Leaving(a)
    BY <2>2 DEF Leaving
  <2>6. Shutting => Shutting' \/ Released'
    BY <2>1, <2>5, KeepsShutting
  <2>7. Followed'
    BY <1>0, <1>5, <2>2, <2>4, <2>6 DEF Unset, UnsetLocked, Followed
  <2> QED
    BY <2>3, <2>7
<1> QED
  BY <1>2, <1>3, <1>4, <1>5 DEF Write

\* The lists the program's functions begin with.
LEMMA StmtsFacts ==
    /\ <<>> \in Stmts /\ <<"text">> \in Stmts /\ <<"next">> \in Stmts
    /\ <<"read">> \in Stmts /\ <<"write">> \in Stmts /\ Writes(<<"write">>)
    /\ forceClose \in Stmts
    /\ <<"closeAll">> \in Stmts /\ <<"closeAll", "join">> \in Stmts
    /\ \A clear \in {"clearMe", "keepMe"} :
         close(clear) \in Stmts /\ close(clear) \o <<"clear">> \in Stmts
    /\ <<"clear">> \in Stmts
<1>1. forceClose \in Stmts
  BY DEF forceClose, Stmts, Statements
<1>2. ASSUME NEW clear \in {"clearMe", "keepMe"}
      PROVE  close(clear) \in Stmts /\ close(clear) \o <<"clear">> \in Stmts
  <2>1. close(clear) \in Stmts
    BY DEF close, Stmts, Statements
  <2>2. <<"clear">> \in Stmts
    BY DEF Stmts, Statements
  <2> QED
    BY <2>1, <2>2 DEF Stmts
<1> QED
  BY <1>1, <1>2 DEF Stmts, Statements, Writes, Writers

LEMMA HandleFacts == \A m, end : Handle(m) \o After(end) \in Stmts
<1> TAKE m, end
<1>1. Handle(m) \in Stmts
  <2>1. /\ <<"closeSocket", "closedIfClearMe">> \in Stmts
        /\ onConnect \in Stmts /\ <<"NICK">> \in Stmts
    BY DEF onConnect, Stmts, Statements
  <2>2. tryNextNickname \in Stmts
    BY <2>1, StmtsFacts DEF tryNextNickname
  <2> QED
    BY <2>1, <2>2, StmtsFacts DEF Handle
<1>2. After(end) \in Stmts
  BY StmtsFacts DEF After
<1> QED
  BY <1>1, <1>2 DEF Stmts

LEMMA StatementStep ==
    ASSUME IInv, NEW a \in Actors, Statement(a)
    PROVE  IInv'
<1> USE DEF output, socket, server, Released
<1>1. CASE Send(a)
  BY <1>1, SendStep DEF Send
<1>2. CASE Write(a)
  BY <1>2, WriteStep
<1>3. CASE Nick(a)
  BY <1>3, SendStep DEF Nick
<1>4. CASE Read(a)
  BY <1>4, DoStep DEF Read, Writers
<1>6. CASE Closed(a)
  BY <1>6, DoStep DEF Closed, Writers
<1>7. CASE QuitReady(a)
  BY <1>7, DoStep DEF QuitReady, Writers
<1>8. CASE ClearMe(a)
  BY <1>8, DoStep DEF ClearMe, Writers
<1>9. CASE Arm(a)
  BY <1>9, DoStep DEF Arm, Writers
<1>10. CASE CloseAll(a)
  <2> DEFINE stmts == (IF pooled THEN close("keepMe") ELSE <<>>) \o <<"clear">>
  <2>1. stmts \in Stmts
    <3>1. <<>> \o <<"clear">> \in Stmts
      BY DEF Stmts, Statements
    <3> QED
      BY <3>1, StmtsFacts
  <2>2. Call(a, "closeAll", stmts)
    BY <1>10 DEF CloseAll
  <2>3. UNCHANGED <<out, inWrite, writeLock, connected, Released>>
    BY <1>10 DEF CloseAll
  <2> HIDE DEF stmts
  <2> QED
    BY <2>1, <2>2, <2>3, CallStep DEF Writers
<1>11. CASE Clear(a)
  BY <1>11, DoStep DEF Clear, Writers
<1> QED
  BY <1>1, <1>2, <1>3, <1>4, <1>6, <1>7, <1>8, <1>9, <1>10, <1>11
     DEF Statement

LEMMA NextStep == IInv /\ [Next]_vars => IInv'
<1> SUFFICES ASSUME IInv, [Next]_vars PROVE IInv'
  OBVIOUS
<1> USE DEF output, socket, server, Actors, Released
<1>1. ASSUME NEW r, Resolve(r) PROVE IInv'
  BY <1>1, IdleStep DEF Resolve
<1>2. CASE Connected
  <2> DEFINE stmts == <<"text", "NICK", "read">>
  <2>1. stmts \in Stmts /\ Writes(stmts)
    BY DEF Stmts, Statements, Writes, Writers
  <2>2. todo' = [todo EXCEPT !["connect"] = stmts] /\ writeLock' = writeLock
    BY <1>2 DEF Connected, Begin
  <2> HIDE DEF stmts
  <2> QED
    BY <2>1, <2>2, WriterStep
<1>3. CASE ConnectFails
  BY <1>3, IdleStep DEF ConnectFails
<1>4. CASE Dangle
  BY <1>4, IdleStep DEF Dangle
<1>5. ASSUME NEW a \in Actors, Step(a) PROVE IInv'
  BY <1>5, StatementStep DEF Step
<1>6. ASSUME NEW end, ProcMessage(end) PROVE IInv'
  <2> DEFINE new == Handle(Head(chunk)) \o After(end)
  <2>1. new \in Stmts
    BY HandleFacts
  <2>2. todo' = [todo EXCEPT !["reader"] = new] /\ todo["reader"] = <<"next">>
    BY <1>6 DEF ProcMessage
  <2> HIDE DEF new
  <2>3. KeepsWriters(todo["reader"], new) /\ ~Leaving("reader")
    BY <2>2 DEF KeepsWriters, Writes, Writers, Leaving
  <2>4. UNCHANGED <<out, inWrite, writeLock, connected, Released>>
    BY <1>6 DEF ProcMessage
  <2> QED
    BY <2>1, <2>2, <2>3, <2>4, QuietStep
<1>7. CASE ReadAgain
  <2>1. KeepsWriters(todo["reader"], <<"read">>) /\ ~Leaving("reader")
    BY <1>7 DEF ReadAgain, KeepsWriters, Writes, Writers, Leaving
  <2> QED
    BY <1>7, <2>1, StmtsFacts, QuietStep DEF ReadAgain
<1>8. CASE ReadFails
  BY <1>8, StmtsFacts, BeginStep DEF ReadFails
<1>9. ASSUME NEW n, ReadData(n) PROVE IInv'
  BY <1>9, StmtsFacts, BeginStep DEF ReadData
<1>10. CASE WriteDone
  BY <1>10, StmtsFacts, WriterStep DEF WriteDone, Begin
<1>11. CASE WriteFails
  <2> DEFINE new == IF quitReady THEN <<>> ELSE forceClose
  <2>1. new \in Stmts /\ todo' = [todo EXCEPT !["writer"] = new]
    BY <1>11, StmtsFacts DEF WriteFails, Begin
  <2> HIDE DEF new
  <2>2. Types' /\ UnsetFirst' /\ UnsetLocked'
    BY <1>11, <2>1, Replace DEF WriteFails, IInv
  <2>3. Shutting => Shutting' \/ Released'
    BY <1>11, <2>1, KeepsShutting DEF WriteFails, Begin, Leaving, IInv
  <2>4. Followed'
    BY <1>11, <2>3 DEF WriteFails, Followed
  <2> QED
    BY <2>2, <2>4 DEF IInv
<1>12. CASE Expire
  BY <1>12, IdleStep DEF Expire
<1>13. CASE handleCloseTimeout
  BY <1>13, StmtsFacts, BeginStep DEF handleCloseTimeout
<1>14. CASE Line
  BY <1>14, StmtsFacts, BeginStep DEF Line
<1>15. CASE EndOfInput
  BY <1>15, StmtsFacts, BeginStep DEF EndOfInput
<1>16. CASE Signal
  BY <1>16, StmtsFacts, BeginStep DEF Signal
<1>17. CASE RunReturns
  BY <1>17, IdleStep DEF RunReturns
<1>18. CASE Join
  BY <1>18, DoStep DEF Join, Writers
<1>19. ASSUME NEW m, ServerSends(m) PROVE IInv'
  BY <1>19, IdleStep DEF ServerSends
<1>20. CASE ServerCloses
  BY <1>20, IdleStep DEF ServerCloses
<1>21. CASE UNCHANGED vars
  BY <1>21, IdleStep DEF vars
<1>22. ASSUME NEW a \in Actors, CloseSocket(a) PROVE IInv'
  BY <1>22, DoStep DEF CloseSocket, Writers
<1> QED
  BY <1>1, <1>2, <1>3, <1>4, <1>5, <1>6, <1>7, <1>8, <1>9, <1>10, <1>11, <1>12,
     <1>13, <1>14, <1>15, <1>16, <1>17, <1>18, <1>19, <1>20, <1>21, <1>22
     DEF Next, Progress, Waiting, Process, Rest

LEMMA InitInv == Init => IInv
<1> SUFFICES ASSUME Init PROVE IInv
  OBVIOUS
<1>1. todo = [a \in Actors |-> <<>>] /\ out = <<>>
  BY DEF Init
<1>2. Types
  BY <1>1 DEF Types
<1> QED
  BY <1>1, <1>2 DEF IInv, UnsetFirst, UnsetLocked, Followed

\* No message is stranded: on a connection that works, a message that no write
\* will fetch is to be followed by the write() of somebody.
THEOREM StrandedCorrect == Spec => []NothingStranded
<1>1. IInv => NothingStranded
  BY DEF IInv, Followed, NothingStranded, Pending, Writes, Writers
<1> QED
  BY <1>1, InitInv, NextStep, PTL DEF Spec

-----------------------------------------------------------------------------
(* The pool *)

Members(t) == {t[i] : i \in 1..Len(t)}

\* What actor a is to execute.
M(a) == Members(todo[a])

\* What may come behind a statement.
Follows(x, y) ==
    /\ x \notin {"closed", "join", "read"}
    /\ x \in {"clear", "closeAll"} => y = "join"
    /\ x = "closedIfClearMe" => y = "next"
    /\ x = "clearMe" => y # "quitReady"
    /\ x = "NICK" => y # "NICK"

Ordered(t) == \A i, j \in 1..Len(t) : i < j => Follows(t[i], t[j])

Order == \A a \in Actors : Ordered(todo[a])

\* Who may have a statement, and what is true until it is executed.
Owners ==
    \A a \in Actors :
        /\ "clearMe" \in M(a) => a = "reader"
        /\ "closedIfClearMe" \in M(a) => a = "reader" /\ quitReady
        /\ "closeSocket" \in M(a) => a \in {"reader", "writer", "timer"}
        /\ "arm" \in M(a) /\ a # "reader" => pooled

\* Which statements come with which.
Companions ==
    \A a \in Actors :
        /\ "closeSocket" \in M(a) => "closed" \in M(a) \/ "closedIfClearMe" \in M(a)
        /\ "closed" \in M(a) \/ "closedIfClearMe" \in M(a)
             => "closeSocket" \in M(a) \/ ~open
        /\ "keepMe" \in M(a) => "clear" \in M(a)
        /\ "quitReady" \in M(a) => "clear" \in M(a) \/ "clearMe" \in M(a)
        /\ "arm" \in M(a) /\ a # "reader" => "clear" \in M(a)

\* closeAll holds clientsLock_ until it has cleared the pool.
Locked ==
    \A a, b \in Actors : "clear" \in M(a) =>
        clientsLock /\ ("clear" \in M(b) => a = b)

\* A client that is closed and in the pool is about to leave it.
Leaves ==
    pooled /\ ~open => \E a \in Actors :
        "closed" \in M(a) \/ "closedIfClearMe" \in M(a) \/ "clear" \in M(a)

\* So is one that is to quit and is not to be removed by its ERROR.
Kept ==
    pooled /\ quitReady /\ ~clearMe =>
        "clearMe" \in M("reader") \/ \E a \in Actors : "clear" \in M(a)

\* A client that has left the pool, or is about to, is closed or will be.
Ends ==
    ~pooled \/ (\E a \in Actors : "clear" \in M(a)) =>
        \/ ~open \/ armed \/ expired
        \/ \E a \in Actors : "arm" \in M(a) \/ "closeSocket" \in M(a)

\* The signal empties the pool; the io threads return after that.
Joins ==
    /\ signaled /\ pooled => "closeAll" \in M("signal") \/ "clear" \in M("signal")
    /\ stopped => ~pooled /\ ~open
    /\ joined => stopped

Closing ==
    /\ Types /\ Order /\ Owners /\ Companions /\ Locked
    /\ Leaves /\ Kept /\ Ends /\ Joins

-----------------------------------------------------------------------------
(* Lists of statements *)

LEMMA MembersOfTail ==
    ASSUME NEW t \in Seq(Statements), t # <<>>, Ordered(t)
    PROVE  /\ Tail(t) \in Seq(Statements) /\ Ordered(Tail(t))
           /\ Members(t) = {Head(t)} \union Members(Tail(t))
           /\ \A y \in Members(Tail(t)) : Follows(Head(t), y)
<1>1. /\ Tail(t) \in Seq(Statements) /\ Len(Tail(t)) = Len(t) - 1
      /\ \A i \in 1..Len(Tail(t)) : Tail(t)[i] = t[i + 1]
      /\ Len(t) \in Nat \ {0} /\ Head(t) = t[1]
  BY HeadTailProperties, EmptySeq
<1>2. Ordered(Tail(t))
  <2> SUFFICES ASSUME NEW i \in 1..Len(Tail(t)), NEW j \in 1..Len(Tail(t)), i < j
               PROVE  Follows(Tail(t)[i], Tail(t)[j])
    BY DEF Ordered
  <2>1. i + 1 \in 1..Len(t) /\ j + 1 \in 1..Len(t) /\ i + 1 < j + 1
    BY <1>1
  <2> QED
    BY <1>1, <2>1 DEF Ordered
<1>3. \A y \in Members(Tail(t)) : Follows(Head(t), y)
  <2> SUFFICES ASSUME NEW i \in 1..Len(Tail(t)) PROVE Follows(t[1], Tail(t)[i])
    BY <1>1 DEF Members
  <2>1. 1 \in 1..Len(t) /\ i + 1 \in 1..Len(t) /\ 1 < i + 1
    BY <1>1
  <2> QED
    BY <1>1, <2>1 DEF Ordered
<1>4. Members(t) \subseteq {Head(t)} \union Members(Tail(t))
  <2> SUFFICES ASSUME NEW i \in 1..Len(t)
               PROVE  t[i] \in {Head(t)} \union Members(Tail(t))
    BY DEF Members
  <2>1. CASE i = 1
    BY <1>1, <2>1
  <2>2. CASE i # 1
    <3>1. i - 1 \in 1..Len(Tail(t)) /\ Tail(t)[i - 1] = t[i]
      BY <1>1, <2>2
    <3> QED
      BY <3>1 DEF Members
  <2> QED
    BY <2>1, <2>2
<1>5. {Head(t)} \union Members(Tail(t)) \subseteq Members(t)
  <2>1. Head(t) \in Members(t)
    BY <1>1 DEF Members
  <2>2. ASSUME NEW i \in 1..Len(Tail(t)) PROVE Tail(t)[i] \in Members(t)
    <3>1. i + 1 \in 1..Len(t) /\ Tail(t)[i] = t[i + 1]
      BY <1>1
    <3> QED
      BY <3>1 DEF Members
  <2> QED
    BY <2>1, <2>2 DEF Members
<1> QED
  BY <1>1, <1>2, <1>3, <1>4, <1>5

LEMMA MembersOfConcat ==
    ASSUME NEW s \in Seq(Statements), NEW t \in Seq(Statements),
           Ordered(s), Ordered(t),
           \A x \in Members(s), y \in Members(t) : Follows(x, y)
    PROVE  /\ s \o t \in Seq(Statements) /\ Ordered(s \o t)
           /\ Members(s \o t) = Members(s) \union Members(t)
<1>1. /\ s \o t \in Seq(Statements)
      /\ Len(s \o t) = Len(s) + Len(t) /\ Len(s) \in Nat /\ Len(t) \in Nat
      /\ \A i \in 1..Len(s) + Len(t) :
           (s \o t)[i] = IF i <= Len(s) THEN s[i] ELSE t[i - Len(s)]
  BY ConcatProperties, LenProperties
<1>2. ASSUME NEW i \in 1..Len(s \o t), NEW j \in 1..Len(s \o t), i < j
      PROVE  Follows((s \o t)[i], (s \o t)[j])
  <2>1. CASE j <= Len(s)
    <3>1. i \in 1..Len(s) /\ j \in 1..Len(s)
      BY <1>1, <1>2, <2>1
    <3> QED
      BY <1>1, <1>2, <3>1 DEF Ordered
  <2>2. CASE i <= Len(s) /\ ~(j <= Len(s))
    <3>1. i \in 1..Len(s) /\ j - Len(s) \in 1..Len(t)
      BY <1>1, <1>2, <2>2
    <3>2. s[i] \in Members(s) /\ t[j - Len(s)] \in Members(t)
      BY <3>1 DEF Members
    <3> QED
      BY <1>1, <2>2, <3>2
  <2>3. CASE ~(i <= Len(s))
    <3>1. /\ i - Len(s) \in 1..Len(t) /\ j - Len(s) \in 1..Len(t)
          /\ i - Len(s) < j - Len(s) /\ ~(j <= Len(s))
      BY <1>1, <1>2, <2>3
    <3> QED
      BY <1>1, <2>3, <3>1 DEF Ordered
  <2> QED
    BY <1>1, <1>2, <2>1, <2>2, <2>3
<1>3. Members(s \o t) \subseteq Members(s) \union Members(t)
  <2> SUFFICES ASSUME NEW i \in 1..Len(s \o t)
               PROVE  (s \o t)[i] \in Members(s) \union Members(t)
    BY DEF Members
  <2>1. CASE i <= Len(s)
    <3>1. i \in 1..Len(s)
      BY <1>1, <2>1
    <3> QED
      BY <1>1, <2>1, <3>1 DEF Members
  <2>2. CASE ~(i <= Len(s))
    <3>1. i - Len(s) \in 1..Len(t)
      BY <1>1, <2>2
    <3> QED
      BY <1>1, <2>2, <3>1 DEF Members
  <2> QED
    BY <2>1, <2>2
<1>4. Members(s) \subseteq Members(s \o t)
  <2> SUFFICES ASSUME NEW i \in 1..Len(s) PROVE s[i] \in Members(s \o t)
    BY DEF Members
  <2>1. i \in 1..Len(s \o t) /\ (s \o t)[i] = s[i]
    BY <1>1
  <2> QED
    BY <2>1 DEF Members
<1>5. Members(t) \subseteq Members(s \o t)
  <2> SUFFICES ASSUME NEW i \in 1..Len(t) PROVE t[i] \in Members(s \o t)
    BY DEF Members
  <2>1. Len(s) + i \in 1..Len(s \o t) /\ (s \o t)[Len(s) + i] = t[i]
    BY <1>1
  <2> QED
    BY <2>1 DEF Members
<1> QED
  BY <1>1, <1>2, <1>3, <1>4, <1>5 DEF Ordered
-----------------------------------------------------------------------------
(* What a move of an actor does to the statements *)

LEMMA Lists ==
    ASSUME Types, Order, NEW a \in Actors,
           NEW new \in Seq(Statements), Ordered(new),
           todo' = [todo EXCEPT ![a] = new]
    PROVE  /\ Types' /\ Order' /\ Members(todo'[a]) = Members(new)
           /\ \A b \in Actors \ {a} : Members(todo'[b]) = Members(todo[b])
<1>1. todo'[a] = new /\ \A b \in Actors \ {a} : todo'[b] = todo[b]
  BY DEF Types
<1>2. Types'
  BY DEF Types
<1>3. Order'
  BY <1>1 DEF Order
<1> QED
  BY <1>1, <1>2, <1>3

LEMMA BeginLists ==
    ASSUME Types, Order, NEW a \in Actors,
           NEW new \in Seq(Statements), Ordered(new), Begin(a, new)
    PROVE  /\ Types' /\ Order'
           /\ Members(todo[a]) = {} /\ Members(todo'[a]) = Members(new)
           /\ \A b \in Actors \ {a} : Members(todo'[b]) = Members(todo[b])
<1>1. Members(<<>>) = {}
  BY DEF Members
<1> QED
  BY <1>1, Lists DEF Begin

LEMMA CallLists ==
    ASSUME Types, Order, NEW a \in Actors, NEW s,
           NEW stmts \in Seq(Statements), Ordered(stmts), Call(a, s, stmts),
           \A x \in Members(stmts), y \in Members(Tail(todo[a])) : Follows(x, y)
    PROVE  /\ Types' /\ Order'
           /\ Members(todo[a]) = {s} \union Members(Tail(todo[a]))
           /\ Members(todo'[a]) = Members(stmts) \union Members(Tail(todo[a]))
           /\ \A y \in Members(Tail(todo[a])) : Follows(s, y)
           /\ \A b \in Actors \ {a} : Members(todo'[b]) = Members(todo[b])
<1> DEFINE t == todo[a]
<1>1. t \in Seq(Statements) /\ t # <<>> /\ Head(t) = s /\ Ordered(t)
  BY DEF Types, Order, Call
<1>2. /\ Tail(t) \in Seq(Statements) /\ Ordered(Tail(t))
      /\ Members(t) = {Head(t)} \union Members(Tail(t))
      /\ \A y \in Members(Tail(t)) : Follows(Head(t), y)
  BY <1>1, MembersOfTail
<1>3. /\ stmts \o Tail(t) \in Seq(Statements) /\ Ordered(stmts \o Tail(t))
      /\ Members(stmts \o Tail(t)) = Members(stmts) \union Members(Tail(t))
  BY <1>2, MembersOfConcat
<1>4. todo' = [todo EXCEPT ![a] = stmts \o Tail(t)]
  BY DEF Call
<1>5. /\ Types' /\ Order' /\ Members(todo'[a]) = Members(stmts \o Tail(t))
      /\ \A b \in Actors \ {a} : Members(todo'[b]) = Members(todo[b])
  BY <1>3, <1>4, Lists
<1> QED
  BY <1>1, <1>2, <1>3, <1>5

LEMMA DoLists ==
    ASSUME Types, Order, NEW a \in Actors, NEW s, Do(a, s)
    PROVE  /\ Types' /\ Order'
           /\ Members(todo[a]) = {s} \union Members(todo'[a])
           /\ \A y \in Members(todo'[a]) : Follows(s, y)
           /\ \A b \in Actors \ {a} : Members(todo'[b]) = Members(todo[b])
<1>1. todo[a] \in Seq(Statements) /\ todo[a] # <<>> /\ Ordered(todo[a])
  BY DEF Types, Order, Do
<1>2. /\ Tail(todo[a]) \in Seq(Statements) /\ Ordered(Tail(todo[a]))
      /\ Members(todo[a]) = {s} \union Members(Tail(todo[a]))
      /\ \A y \in Members(Tail(todo[a])) : Follows(s, y)
  BY <1>1, MembersOfTail DEF Do
<1>3. todo' = [todo EXCEPT ![a] = Tail(todo[a])]
  BY DEF Do
<1> QED
  BY <1>2, <1>3, Lists

\* The lists the program's functions begin with.
LEMMA MembersOfLists ==
    /\ Members(<<>>) = {} /\ Ordered(<<>>)
    /\ \A x : Members(<<x>>) = {x} /\ Ordered(<<x>>)
    /\ Members(forceClose) = {"closeSocket", "closed"} /\ Ordered(forceClose)
    /\ \A clear \in {"clearMe", "keepMe"} :
         /\ Members(close(clear)) = {"quitReady", clear, "QUIT", "arm"}
         /\ Ordered(close(clear))
    /\ Members(<<"text", "NICK", "read">>) = {"text", "NICK", "read"}
    /\ Ordered(<<"text", "NICK", "read">>)
    /\ Members(<<"closeAll", "join">>) = {"closeAll", "join"}
    /\ Ordered(<<"closeAll", "join">>)
    /\ Members(onConnect) = {"text"} /\ Ordered(onConnect)
    /\ Members(<<"closeSocket", "closedIfClearMe">>)
         = {"closeSocket", "closedIfClearMe"}
    /\ Ordered(<<"closeSocket", "closedIfClearMe">>)
<1> USE DEF Members, Ordered, Follows
<1>1. Members(<<>>) = {} /\ Ordered(<<>>)
  OBVIOUS
<1>2. \A x : Members(<<x>>) = {x} /\ Ordered(<<x>>)
  OBVIOUS
<1>3. Members(forceClose) = {"closeSocket", "closed"} /\ Ordered(forceClose)
  BY DEF forceClose
<1>4. ASSUME NEW clear \in {"clearMe", "keepMe"}
      PROVE  /\ Members(close(clear)) = {"quitReady", clear, "QUIT", "arm"}
             /\ Ordered(close(clear))
  BY <1>4 DEF close
<1>5. /\ Members(<<"text", "NICK", "read">>) = {"text", "NICK", "read"}
      /\ Ordered(<<"text", "NICK", "read">>)
  OBVIOUS
<1>6. /\ Members(<<"closeAll", "join">>) = {"closeAll", "join"}
      /\ Ordered(<<"closeAll", "join">>)
  OBVIOUS
<1>7. Members(onConnect) = {"text"} /\ Ordered(onConnect)
  BY DEF onConnect
<1>8. /\ Members(<<"closeSocket", "closedIfClearMe">>)
           = {"closeSocket", "closedIfClearMe"}
      /\ Ordered(<<"closeSocket", "closedIfClearMe">>)
  OBVIOUS
<1> HIDE DEF Members, Ordered, Follows
<1> QED
  BY <1>1, <1>2, <1>3, <1>4, <1>5, <1>6, <1>7, <1>8

-----------------------------------------------------------------------------
(* The steps *)

Flags == <<open, quitReady, clearMe, armed, expired, pool, signaled, stopped,
           joined>>

\* The statements the invariant is about.
Marked == {"closeSocket", "closed", "closedIfClearMe", "quitReady", "clearMe",
           "keepMe", "arm", "clear"}

\* A step that keeps the flags, and who is to execute which marked statement.
LEMMA QuietMove ==
    ASSUME Closing, Types', Order', UNCHANGED Flags,
           \A a \in Actors : \A x \in Marked :
              x \in Members(todo'[a]) <=> x \in Members(todo[a]),
           "closeAll" \in Members(todo["signal"])
             => "closeAll" \in Members(todo'["signal"])
    PROVE  Closing'
<1> USE DEF M, Marked, Flags, pool
<1>1. Owners'
  BY DEF Closing, Owners
<1>2. Companions'
  BY DEF Closing, Companions
<1>3. Locked'
  BY DEF Closing, Locked
<1>4. Leaves'
  BY DEF Closing, Leaves
<1>5. Kept'
  BY DEF Closing, Kept, Actors
<1>6. Ends'
  BY DEF Closing, Ends
<1>7. Joins'
  BY DEF Closing, Joins, Actors
<1> QED
  BY <1>1, <1>2, <1>3, <1>4, <1>5, <1>6, <1>7 DEF Closing

\* The same, for a step in which no actor moves.
LEMMA QuietIdle ==
    ASSUME Closing, UNCHANGED todo, UNCHANGED Flags
    PROVE  Closing'
<1>1. Types' /\ Order'
  BY DEF Closing, Types, Order
<1> QED
  BY <1>1, QuietMove

LEMMA QuietDo ==
    ASSUME Closing, UNCHANGED Flags,
           NEW a \in Actors, NEW s, s \notin Marked \union {"closeAll"}, Do(a, s)
    PROVE  Closing'
<1>1. /\ Types' /\ Order'
      /\ Members(todo[a]) = {s} \union Members(todo'[a])
      /\ \A b \in Actors \ {a} : Members(todo'[b]) = Members(todo[b])
  BY DoLists DEF Closing
<1> QED
  BY <1>1, QuietMove DEF Actors, Marked

LEMMA QuietCall ==
    ASSUME Closing, UNCHANGED Flags,
           NEW a \in Actors, NEW s, s \notin Marked \union {"closeAll"},
           NEW x \in {"write", "unset"}, Call(a, s, <<x>>)
    PROVE  Closing'
<1>1. <<x>> \in Seq(Statements) /\ Members(<<x>>) = {x} /\ Ordered(<<x>>)
  BY MembersOfLists DEF Statements
<1>2. \A y : Follows(x, y)
  BY DEF Follows
<1>3. /\ Types' /\ Order'
      /\ Members(todo[a]) = {s} \union Members(Tail(todo[a]))
      /\ Members(todo'[a]) = {x} \union Members(Tail(todo[a]))
      /\ \A b \in Actors \ {a} : Members(todo'[b]) = Members(todo[b])
  <2>1. \A v \in Members(<<x>>), y \in Members(Tail(todo[a])) : Follows(v, y)
    BY <1>1, <1>2
  <2>2. Types /\ Order
    BY DEF Closing
  <2> DEFINE stmts == <<x>>
  <2>3. /\ stmts \in Seq(Statements) /\ Members(stmts) = {x} /\ Ordered(stmts)
        /\ Call(a, s, stmts)
        /\ \A v \in Members(stmts), y \in Members(Tail(todo[a])) : Follows(v, y)
    BY <1>1, <2>1
  <2> HIDE DEF stmts
  <2> QED
    BY <2>2, <2>3, CallLists
<1> QED
  BY <1>3, QuietMove DEF Actors, Marked

LEMMA QuietBegin ==
    ASSUME Closing, UNCHANGED Flags,
           NEW a \in Actors, NEW stmts \in Seq(Statements),
           Ordered(stmts), Members(stmts) \intersect Marked = {}, Begin(a, stmts)
    PROVE  Closing'
<1>1. /\ Types' /\ Order'
      /\ Members(todo[a]) = {} /\ Members(todo'[a]) = Members(stmts)
      /\ \A b \in Actors \ {a} : Members(todo'[b]) = Members(todo[b])
  BY BeginLists DEF Closing
<1> QED
  BY <1>1, QuietMove DEF Actors, Marked

\* forceClose: the socket is to be closed, and the client to leave the pool.
LEMMA ForceMove ==
    ASSUME Closing, NEW a \in {"reader", "writer", "timer"},
           Begin(a, forceClose),
           UNCHANGED <<open, quitReady, clearMe, pool, signaled, stopped, joined>>
    PROVE  Closing'
<1> USE DEF M, pool
<1>1. /\ Types' /\ Order' /\ a \in Actors
      /\ Members(todo[a]) = {} /\ Members(todo'[a]) = {"closeSocket", "closed"}
      /\ \A b \in Actors \ {a} : Members(todo'[b]) = Members(todo[b])
  <2>1. a \in Actors /\ forceClose \in Seq(Statements)
    BY DEF Actors, forceClose, Statements
  <2> QED
    BY <2>1, BeginLists, MembersOfLists DEF Closing
<1>2. Owners'
  BY <1>1 DEF Closing, Owners
<1>3. Companions'
  BY <1>1 DEF Closing, Companions
<1>4. Locked'
  BY <1>1 DEF Closing, Locked
<1>5. Leaves'
  BY <1>1 DEF Closing, Leaves
<1>6. Kept'
  BY <1>1 DEF Closing, Kept, Actors
<1>7. Ends'
  BY <1>1 DEF Ends
<1>8. Joins'
  BY <1>1 DEF Closing, Joins, Actors
<1> QED
  BY <1>1, <1>2, <1>3, <1>4, <1>5, <1>6, <1>7, <1>8 DEF Closing

LEMMA CloseSocketMove ==
    ASSUME Closing, NEW a \in Actors, CloseSocket(a)
    PROVE  Closing'
<1> USE DEF M
<1>0. /\ ~open'
      /\ UNCHANGED <<quitReady, clearMe, pooled, clientsLock, armed, expired,
                     signaled, stopped, joined>>
  BY DEF CloseSocket, client, timer, pool, app
<1>1. /\ Types' /\ Order'
      /\ Members(todo[a]) = {"closeSocket"} \union Members(todo'[a])
      /\ \A b \in Actors \ {a} : Members(todo'[b]) = Members(todo[b])
  BY DoLists DEF Closing, CloseSocket
<1>2. Owners'
  BY <1>0, <1>1 DEF Closing, Owners
<1>3. Companions'
  BY <1>0, <1>1 DEF Closing, Companions
<1>4. Locked'
  BY <1>0, <1>1 DEF Closing, Locked
<1>5. Leaves'
  BY <1>1 DEF Closing, Companions, Leaves
<1>6. Kept'
  BY <1>0, <1>1 DEF Closing, Kept, Actors
<1>7. Ends'
  BY <1>0 DEF Ends
<1>8. Joins'
  BY <1>0, <1>1 DEF Closing, Joins, Actors
<1> QED
  BY <1>1, <1>2, <1>3, <1>4, <1>5, <1>6, <1>7, <1>8 DEF Closing

\* IrcClientPool::closed: what closes a client has closed its socket before.
LEMMA ClosedMove ==
    ASSUME Closing, NEW a \in Actors, Closed(a)
    PROVE  Closing'
<1> USE DEF M
<1>0. UNCHANGED <<open, quitReady, clearMe, clientsLock, armed, expired, signaled,
                  stopped, joined>>
  BY DEF Closed, client, socket, timer, app
<1>1. ASSUME NEW s \in {"closed", "closedIfClearMe"}, Do(a, s)
      PROVE  /\ Types' /\ Order'
             /\ Members(todo[a]) = {s} \union Members(todo'[a])
             /\ Members(todo'[a]) \subseteq {"next"}
             /\ \A b \in Actors \ {a} : Members(todo'[b]) = Members(todo[b])
  BY <1>1, DoLists DEF Closing, Follows
<1>2. ASSUME NEW s \in {"closed", "closedIfClearMe"}, Do(a, s),
             ~clientsLock, ~pooled'
      PROVE  Closing'
  <2>1. \A b \in Actors : "clear" \notin Members(todo[b])
    BY <1>2 DEF Closing, Locked
  <2>2. ~open
    BY <1>1, <1>2 DEF Closing, Companions
  <2>3. Owners'
    BY <1>0, <1>1, <1>2, <2>1 DEF Closing, Owners, Companions
  <2>4. Companions'
    BY <1>0, <1>1, <1>2 DEF Closing, Companions
  <2>5. Locked'
    BY <1>0, <1>1, <1>2 DEF Closing, Locked
  <2>6. Leaves' /\ Kept'
    BY <1>2 DEF Leaves, Kept
  <2>7. Ends'
    BY <1>0, <2>2 DEF Ends
  <2>8. Joins'
    BY <1>0, <1>2 DEF Closing, Joins
  <2> QED
    BY <1>1, <1>2, <2>3, <2>4, <2>5, <2>6, <2>7, <2>8 DEF Closing
<1>3. ASSUME Do(a, "closedIfClearMe"), ~clearMe, pooled' = pooled
      PROVE  Closing'
  <2>0. /\ Types' /\ Order'
        /\ Members(todo[a]) = {"closedIfClearMe"} \union Members(todo'[a])
        /\ Members(todo'[a]) \subseteq {"next"}
        /\ \A b \in Actors \ {a} : Members(todo'[b]) = Members(todo[b])
    BY <1>1, <1>3
  <2>1. a = "reader" /\ quitReady
    BY <2>0 DEF Closing, Owners
  <2>2. pooled => \E b \in Actors : "clear" \in Members(todo[b])
    BY <1>3, <2>0, <2>1 DEF Closing, Kept
  <2>3. Owners'
    BY <1>0, <1>3, <2>0 DEF Closing, Owners
  <2>4. Companions'
    BY <1>0, <2>0 DEF Closing, Companions
  <2>5. Locked'
    BY <1>0, <2>0 DEF Closing, Locked
  <2>6. Leaves' /\ Kept'
    BY <1>3, <2>0, <2>2 DEF Leaves, Kept
  <2>7. Ends'
    BY <1>0, <1>3, <2>0 DEF Closing, Ends
  <2>8. Joins'
    BY <1>0, <1>3, <2>0, <2>1 DEF Closing, Joins, Actors
  <2> QED
    BY <2>0, <2>3, <2>4, <2>5, <2>6, <2>7, <2>8 DEF Closing
<1> QED
  BY <1>2, <1>3 DEF Closed

\* quitReady_ comes with what is to remove the client.
LEMMA QuitReadyMove ==
    ASSUME Closing, NEW a \in Actors, QuitReady(a)
    PROVE  Closing'
<1> USE DEF M
<1>0. /\ quitReady'
      /\ UNCHANGED <<open, clearMe, pooled, clientsLock, armed, expired, signaled,
                     stopped, joined>>
  BY DEF QuitReady, socket, timer, pool, app
<1>1. /\ Types' /\ Order'
      /\ Members(todo[a]) = {"quitReady"} \union Members(todo'[a])
      /\ \A b \in Actors \ {a} : Members(todo'[b]) = Members(todo[b])
  BY DoLists DEF Closing, QuitReady
<1>2. Owners'
  BY <1>0, <1>1 DEF Closing, Owners
<1>3. Companions'
  BY <1>0, <1>1 DEF Closing, Companions
<1>4. Locked'
  BY <1>0, <1>1 DEF Closing, Locked
<1>5. Leaves'
  BY <1>0, <1>1 DEF Closing, Leaves
<1>6. Kept'
  <2>1. "clear" \in Members(todo'[a]) \/ "clearMe" \in Members(todo'[a])
    BY <1>1 DEF Closing, Companions
  <2>2. "clearMe" \in Members(todo[a]) => a = "reader"
    BY DEF Closing, Owners
  <2> QED
    BY <1>1, <2>1, <2>2 DEF Kept
<1>7. Ends'
  BY <1>0, <1>1 DEF Closing, Ends
<1>8. Joins'
  BY <1>0, <1>1 DEF Closing, Joins, Actors
<1> QED
  BY <1>1, <1>2, <1>3, <1>4, <1>5, <1>6, <1>7, <1>8 DEF Closing

LEMMA ClearMeMove ==
    ASSUME Closing, NEW a \in Actors, ClearMe(a)
    PROVE  Closing'
<1> USE DEF M
<1>0. UNCHANGED <<open, quitReady, pooled, clientsLock, armed, expired, signaled,
                  stopped, joined>>
  BY DEF ClearMe, socket, timer, pool, app
<1> PICK s \in {"clearMe", "keepMe"} : Do(a, s) /\ clearMe' = (s = "clearMe")
  BY DEF ClearMe
<1>1. /\ Types' /\ Order'
      /\ Members(todo[a]) = {s} \union Members(todo'[a])
      /\ \A y \in Members(todo'[a]) : Follows(s, y)
      /\ \A b \in Actors \ {a} : Members(todo'[b]) = Members(todo[b])
  BY DoLists DEF Closing
<1>2. Owners'
  BY <1>0, <1>1 DEF Closing, Owners
<1>3. Companions'
  BY <1>0, <1>1 DEF Closing, Companions, Follows
<1>4. Locked'
  BY <1>0, <1>1 DEF Closing, Locked
<1>5. Leaves'
  BY <1>0, <1>1 DEF Closing, Leaves
<1>6. Kept'
  <2>1. CASE s = "keepMe"
    BY <1>1, <2>1 DEF Closing, Companions, Kept
  <2>2. CASE s = "clearMe"
    BY <2>2 DEF Kept
  <2> QED
    BY <2>1, <2>2
<1>7. Ends'
  BY <1>0, <1>1 DEF Closing, Ends
<1>8. Joins'
  BY <1>0, <1>1 DEF Closing, Joins, Actors
<1> QED
  BY <1>1, <1>2, <1>3, <1>4, <1>5, <1>6, <1>7, <1>8 DEF Closing

LEMMA ArmMove ==
    ASSUME Closing, NEW a \in Actors, Arm(a)
    PROVE  Closing'
<1> USE DEF M
<1>0. /\ armed'
      /\ UNCHANGED <<open, quitReady, clearMe, pooled, clientsLock, signaled,
                     stopped, joined>>
  BY DEF Arm, client, socket, pool, app
<1>1. /\ Types' /\ Order'
      /\ Members(todo[a]) = {"arm"} \union Members(todo'[a])
      /\ \A b \in Actors \ {a} : Members(todo'[b]) = Members(todo[b])
  BY DoLists DEF Closing, Arm
<1>2. Owners'
  BY <1>0, <1>1 DEF Closing, Owners
<1>3. Companions'
  BY <1>0, <1>1 DEF Closing, Companions
<1>4. Locked'
  BY <1>0, <1>1 DEF Closing, Locked
<1>5. Leaves' /\ Kept'
  BY <1>0, <1>1 DEF Closing, Leaves, Kept, Actors
<1>6. Ends'
  BY <1>0 DEF Ends
<1>7. Joins'
  BY <1>0, <1>1 DEF Closing, Joins, Actors
<1> QED
  BY <1>1, <1>2, <1>3, <1>4, <1>5, <1>6, <1>7 DEF Closing

\* What closeAll does before it clears the pool.
Begun == IF pooled THEN {"quitReady", "keepMe", "QUIT", "arm"} ELSE {}

LEMMA CloseAllLists ==
    ASSUME Closing, NEW a \in Actors, CloseAll(a)
    PROVE  /\ Types' /\ Order'
           /\ Members(todo[a]) = {"closeAll"} \union Members(Tail(todo[a]))
           /\ Members(Tail(todo[a])) \subseteq {"join"}
           /\ Members(todo'[a])
                = Begun \union {"clear"} \union Members(Tail(todo[a]))
           /\ \A b \in Actors \ {a} : Members(todo'[b]) = Members(todo[b])
<1> USE DEF M, Begun
<1> DEFINE stmts == (IF pooled THEN close("keepMe") ELSE <<>>) \o <<"clear">>
<1>1. /\ stmts \in Seq(Statements) /\ Ordered(stmts)
      /\ Members(stmts) = Begun \union {"clear"}
  <2>1. <<"clear">> \in Seq(Statements) /\ <<>> \in Seq(Statements)
    BY DEF Statements
  <2>2. close("keepMe") \in Seq(Statements)
    BY DEF close, Statements
  <2>3. \A x \in Begun, y \in Members(<<"clear">>) : Follows(x, y)
    BY MembersOfLists DEF Follows
  <2>4. CASE pooled
    <3>1. Members(close("keepMe")) = Begun /\ Ordered(close("keepMe"))
      BY <2>4, MembersOfLists
    <3>2. Members(<<"clear">>) = {"clear"} /\ Ordered(<<"clear">>)
      BY MembersOfLists
    <3>3. stmts = close("keepMe") \o <<"clear">>
      BY <2>4
    <3> HIDE DEF stmts, Begun
    <3> QED
      BY <2>1, <2>2, <2>3, <3>1, <3>2, <3>3, MembersOfConcat
  <2>5. CASE ~pooled
    <3>1. stmts = <<"clear">> /\ Begun = {}
      BY <2>5
    <3> HIDE DEF stmts, Begun
    <3> QED
      BY <2>1, <3>1, MembersOfLists
  <2> QED
    BY <2>4, <2>5
<1>2. Call(a, "closeAll", stmts)
  BY DEF CloseAll
<1> HIDE DEF stmts
<1>3. Members(Tail(todo[a])) \subseteq {"join"}
  <2>1. /\ todo[a] \in Seq(Statements) /\ todo[a] # <<>> /\ Ordered(todo[a])
        /\ Head(todo[a]) = "closeAll"
    BY <1>2 DEF Closing, Types, Order, Call
  <2> QED
    BY <2>1, MembersOfTail DEF Follows
<1>4. \A x \in Members(stmts), y \in Members(Tail(todo[a])) : Follows(x, y)
  BY <1>1, <1>3 DEF Follows
<1>5. /\ Types' /\ Order'
      /\ Members(todo[a]) = {"closeAll"} \union Members(Tail(todo[a]))
      /\ Members(todo'[a]) = Begun \union {"clear"} \union Members(Tail(todo[a]))
      /\ \A b \in Actors \ {a} : Members(todo'[b]) = Members(todo[b])
  BY <1>1, <1>2, <1>4, CallLists DEF Closing
<1> QED
  BY <1>3, <1>5

\* closeAll begins to close the client, if it is there, and is to clear the pool.
LEMMA CloseAllMove ==
    ASSUME Closing, NEW a \in Actors, CloseAll(a)
    PROVE  Closing'
<1> USE DEF M, Begun
<1>0. /\ ~clientsLock /\ clientsLock'
      /\ UNCHANGED <<open, quitReady, clearMe, pooled, armed, expired, signaled,
                     stopped, joined>>
  BY DEF CloseAll, client, socket, timer, app
<1>1. Members(Tail(todo[a])) \subseteq {"join"}
  BY CloseAllLists
<1>2. /\ Types' /\ Order'
      /\ Members(todo[a]) = {"closeAll"} \union Members(Tail(todo[a]))
      /\ Members(todo'[a]) = Begun \union {"clear"} \union Members(Tail(todo[a]))
      /\ \A b \in Actors \ {a} : Members(todo'[b]) = Members(todo[b])
  BY CloseAllLists
<1>3. \A b \in Actors : "clear" \notin Members(todo[b])
  BY <1>0 DEF Closing, Locked
<1>4. Owners'
  BY <1>0, <1>1, <1>2 DEF Closing, Owners
<1>5. Companions'
  BY <1>0, <1>1, <1>2 DEF Closing, Companions
<1>6. Locked'
  BY <1>0, <1>2, <1>3 DEF Locked
<1>7. Leaves' /\ Kept'
  BY <1>2 DEF Leaves, Kept
<1>8. Ends'
  BY <1>0, <1>1, <1>2 DEF Closing, Ends
<1>9. Joins'
  BY <1>0, <1>2 DEF Closing, Joins, Actors
<1> QED
  BY <1>2, <1>4, <1>5, <1>6, <1>7, <1>8, <1>9 DEF Closing

LEMMA ClearMove ==
    ASSUME Closing, NEW a \in Actors, Clear(a)
    PROVE  Closing'
<1> USE DEF M
<1>0. /\ ~pooled'
      /\ UNCHANGED <<open, quitReady, clearMe, armed, expired, signaled, stopped,
                     joined>>
  BY DEF Clear, client, socket, timer, app
<1>1. /\ Types' /\ Order'
      /\ Members(todo[a]) = {"clear"} \union Members(todo'[a])
      /\ Members(todo'[a]) \subseteq {"join"}
      /\ \A b \in Actors \ {a} : Members(todo'[b]) = Members(todo[b])
  BY DoLists DEF Closing, Clear, Follows
<1>2. \A b \in Actors : "clear" \notin Members(todo'[b])
  BY <1>1 DEF Closing, Locked
<1>3. Owners'
  BY <1>0, <1>1, <1>2 DEF Closing, Owners, Companions
<1>4. Companions'
  BY <1>0, <1>1, <1>2 DEF Closing, Companions
<1>5. Locked'
  BY <1>2 DEF Locked
<1>6. Leaves' /\ Kept'
  BY <1>0 DEF Leaves, Kept
<1>7. Ends'
  BY <1>0, <1>1 DEF Closing, Ends
<1>8. Joins'
  BY <1>0 DEF Closing, Joins
<1> QED
  BY <1>1, <1>3, <1>4, <1>5, <1>6, <1>7, <1>8 DEF Closing

\* What the reader does for a message: nothing marked, or the client is to
\* quit, or it has and is closed.
LEMMA HandleMembers ==
    ASSUME NEW m
    PROVE  /\ Handle(m) \in Seq(Statements) /\ Ordered(Handle(m))
           /\ \/ Members(Handle(m)) \subseteq {"text", "NICK"}
              \/ Members(Handle(m)) = {"quitReady", "clearMe", "QUIT", "arm"}
              \/ /\ Members(Handle(m)) = {"closeSocket", "closedIfClearMe"}
                 /\ quitReady
           /\ \A x \in Members(Handle(m)) : Follows(x, "next")
<1>1. \/ Handle(m) \in {<<>>, <<"text">>, onConnect, <<"NICK">>, close("clearMe")}
      \/ quitReady /\ Handle(m) = <<"closeSocket", "closedIfClearMe">>
  BY Zenon DEF Handle, tryNextNickname
<1>2. /\ <<>> \in Seq(Statements) /\ <<"text">> \in Seq(Statements)
      /\ <<"NICK">> \in Seq(Statements) /\ onConnect \in Seq(Statements)
      /\ close("clearMe") \in Seq(Statements)
      /\ <<"closeSocket", "closedIfClearMe">> \in Seq(Statements)
  BY DEF Statements, onConnect, close
<1>3. CASE Handle(m) \in {<<>>, <<"text">>, onConnect, <<"NICK">>}
  <2>1. /\ Members(<<>>) = {} /\ Members(<<"text">>) = {"text"}
        /\ Members(onConnect) = {"text"} /\ Members(<<"NICK">>) = {"NICK"}
        /\ Ordered(<<>>) /\ Ordered(<<"text">>)
        /\ Ordered(onConnect) /\ Ordered(<<"NICK">>)
    BY MembersOfLists
  <2>2. /\ Handle(m) \in Seq(Statements) /\ Ordered(Handle(m))
        /\ Members(Handle(m)) \subseteq {"text", "NICK"}
    BY <1>2, <1>3, <2>1
  <2> QED
    BY <2>2 DEF Follows
<1>4. CASE Handle(m) = close("clearMe")
  BY <1>2, <1>4, MembersOfLists DEF Follows
<1>5. CASE quitReady /\ Handle(m) = <<"closeSocket", "closedIfClearMe">>
  BY <1>2, <1>5, MembersOfLists DEF Follows
<1> QED
  BY <1>1, <1>3, <1>4, <1>5

\* What the reader goes on with.
Processed(new) ==
    \/ Members(new) \subseteq {"text", "NICK", "next"}
    \/ Members(new) = {"quitReady", "clearMe", "QUIT", "arm", "next"}
    \/ new = forceClose /\ Members(new) = {"closeSocket", "closed"}
    \/ Members(new) = {"closeSocket", "closedIfClearMe", "next"} /\ quitReady

LEMMA ProcessedIs ==
    ASSUME NEW end, ProcMessage(end)
    PROVE  \E new \in Seq(Statements) :
              /\ todo' = [todo EXCEPT !["reader"] = new]
              /\ Ordered(new) /\ Processed(new)
<1> DEFINE m == Head(chunk)  h == Handle(m)  after == After(end)  new == h \o after
<1>1. todo' = [todo EXCEPT !["reader"] = new] /\ end \in Outcomes(m)
  BY DEF ProcMessage
<1>2. /\ h \in Seq(Statements) /\ Ordered(h)
      /\ \/ Members(h) \subseteq {"text", "NICK"}
         \/ Members(h) = {"quitReady", "clearMe", "QUIT", "arm"}
         \/ Members(h) = {"closeSocket", "closedIfClearMe"} /\ quitReady
      /\ \A x \in Members(h) : Follows(x, "next")
  BY HandleMembers
<1>3. m = "bad" => h = <<>>
  BY DEF Handle
<1>4. m = "001" => h = onConnect
  BY DEF Handle
<1>5. CASE end = "reject"
  <2>1. h = <<>>
    BY <1>1, <1>3, <1>5 DEF Outcomes
  <2>2. after = forceClose /\ forceClose \in Seq(Statements)
    BY <1>5 DEF After, forceClose, Statements
  <2> HIDE DEF h, after
  <2>3. new = forceClose
    BY <2>1, <2>2
  <2> HIDE DEF new
  <2> QED
    BY <1>1, <2>2, <2>3, MembersOfLists DEF Processed
<1>6. CASE end \in {"throw", "crash"}
  <2>1. h \in {<<>>, onConnect}
    BY <1>1, <1>3, <1>4, <1>6 DEF Outcomes
  <2>2. after = <<>>
    BY <1>6 DEF After
  <2> HIDE DEF h, after
  <2>3. new = h
    BY <1>2, <2>2
  <2>4. Members(h) \subseteq {"text"}
    BY <2>1, MembersOfLists
  <2> HIDE DEF new
  <2> QED
    BY <1>1, <1>2, <2>3, <2>4 DEF Processed
<1>7. CASE end = "next"
  <2>1. after = <<"next">>
    BY <1>7 DEF After
  <2>2. /\ after \in Seq(Statements)
        /\ Members(after) = {"next"} /\ Ordered(after)
    BY <2>1, MembersOfLists DEF Statements
  <2> HIDE DEF h, after
  <2>3. /\ new \in Seq(Statements) /\ Ordered(new)
        /\ Members(new) = Members(h) \union {"next"}
    BY <1>2, <2>2, MembersOfConcat
  <2> HIDE DEF new
  <2>4. Processed(new)
    <3>1. CASE Members(h) \subseteq {"text", "NICK"}
      BY <2>3, <3>1 DEF Processed
    <3>2. CASE Members(h) = {"quitReady", "clearMe", "QUIT", "arm"}
      <4>1. Members(new) = {"quitReady", "clearMe", "QUIT", "arm", "next"}
        BY <2>3, <3>2
      <4> QED
        BY <4>1 DEF Processed
    <3>3. CASE Members(h) = {"closeSocket", "closedIfClearMe"} /\ quitReady
      <4>1. Members(new) = {"closeSocket", "closedIfClearMe", "next"}
        BY <2>3, <3>3
      <4> QED
        BY <3>3, <4>1 DEF Processed
    <3> QED
      BY <1>2, <3>1, <3>2, <3>3
  <2> QED
    BY <1>1, <2>3, <2>4
<1> QED
  BY <1>1, <1>5, <1>6, <1>7 DEF Outcomes

LEMMA ProcMessageMove ==
    ASSUME Closing, NEW end, ProcMessage(end)
    PROVE  Closing'
<1> USE DEF M
<1>0. /\ UNCHANGED <<open, quitReady, clearMe, pooled, clientsLock, armed, expired,
                     signaled, stopped, joined>>
      /\ "reader" \in Actors
  BY DEF ProcMessage, socket, timer, pool, app, Actors
<1>1. Members(todo["reader"]) = {"next"}
  BY MembersOfLists DEF ProcMessage
<1>2. PICK new \in Seq(Statements) :
         /\ todo' = [todo EXCEPT !["reader"] = new]
         /\ Ordered(new) /\ Processed(new)
  BY ProcessedIs
<1>3. /\ new \in Seq(Statements) /\ Ordered(new)
      /\ \/ Members(new) \subseteq {"text", "NICK", "next"}
         \/ Members(new) = {"quitReady", "clearMe", "QUIT", "arm", "next"}
         \/ Members(new) = {"closeSocket", "closed"}
         \/ Members(new) = {"closeSocket", "closedIfClearMe", "next"} /\ quitReady
  BY <1>2 DEF Processed
<1>4. /\ Types' /\ Order' /\ Members(todo'["reader"]) = Members(new)
      /\ \A b \in Actors \ {"reader"} : Members(todo'[b]) = Members(todo[b])
  BY <1>0, <1>2, <1>3, Lists DEF Closing
<1>5. Owners'
  BY <1>0, <1>3, <1>4 DEF Closing, Owners
<1>6. Companions'
  BY <1>0, <1>3, <1>4 DEF Closing, Companions
<1>7. Locked'
  BY <1>0, <1>3, <1>4 DEF Closing, Locked
<1>8. Leaves'
  BY <1>0, <1>1, <1>4 DEF Closing, Leaves
<1>9. Kept'
  BY <1>0, <1>1, <1>4 DEF Closing, Kept
<1>10. Ends'
  BY <1>0, <1>1, <1>3, <1>4 DEF Closing, Ends
<1>11. Joins'
  BY <1>0, <1>4 DEF Closing, Joins, Actors
<1> QED
  BY <1>4, <1>5, <1>6, <1>7, <1>8, <1>9, <1>10, <1>11 DEF Closing

\* The io threads return when nothing is left to them: the signal has emptied
\* the pool, and the client, which is to be closed, is.
LEMMA RunReturnsMove ==
    ASSUME Closing, RunReturns
    PROVE  Closing'
<1> USE DEF M
<1>0. /\ UNCHANGED <<todo, open, quitReady, clearMe, pooled, clientsLock, armed,
                     expired, signaled, joined>>
      /\ stopped' /\ signaled /\ ~armed /\ ~expired
      /\ \A a \in Actors \ {"main"} : Members(todo[a]) = {}
  BY MembersOfLists DEF RunReturns, OutOfWork, client, socket, timer, pool
<1>1. ~pooled
  BY <1>0 DEF Closing, Joins, Actors
<1>2. ~open
  BY <1>0, <1>1 DEF Closing, Owners, Ends
<1>3. Types' /\ Order' /\ Owners' /\ Companions' /\ Locked'
  BY <1>0 DEF Closing, Types, Order, Owners, Companions, Locked
<1>4. Leaves' /\ Kept' /\ Ends'
  BY <1>0, <1>1, <1>2 DEF Leaves, Kept, Ends
<1>5. Joins'
  BY <1>0, <1>1, <1>2 DEF Closing, Joins
<1> QED
  BY <1>3, <1>4, <1>5 DEF Closing

LEMMA SignalMove ==
    ASSUME Closing, Signal
    PROVE  Closing'
<1> USE DEF M
<1>0. /\ UNCHANGED <<open, quitReady, clearMe, pooled, clientsLock, armed,
                     expired, stopped, joined>>
      /\ "signal" \in Actors
  BY DEF Signal, client, socket, timer, pool, Actors
<1>1. /\ Types' /\ Order'
      /\ Members(todo["signal"]) = {} /\ Members(todo'["signal"]) = {"closeAll"}
      /\ \A b \in Actors \ {"signal"} : Members(todo'[b]) = Members(todo[b])
  <2>1. <<"closeAll">> \in Seq(Statements) /\ Begin("signal", <<"closeAll">>)
    BY DEF Statements, Signal
  <2>2. Ordered(<<"closeAll">>) /\ Members(<<"closeAll">>) = {"closeAll"}
    BY MembersOfLists
  <2> DEFINE stmts == <<"closeAll">>
  <2>3. /\ stmts \in Seq(Statements) /\ Begin("signal", stmts)
        /\ Ordered(stmts) /\ Members(stmts) = {"closeAll"}
    BY <2>1, <2>2
  <2> HIDE DEF stmts
  <2> QED
    BY <1>0, <2>3, BeginLists DEF Closing
<1>2. Owners' /\ Companions' /\ Locked'
  BY <1>0, <1>1 DEF Closing, Owners, Companions, Locked
<1>3. Leaves' /\ Kept' /\ Ends'
  BY <1>0, <1>1 DEF Closing, Leaves, Kept, Ends, Actors
<1>4. Joins'
  BY <1>0, <1>1 DEF Closing, Joins
<1> QED
  BY <1>1, <1>2, <1>3, <1>4 DEF Closing

LEMMA JoinMove ==
    ASSUME Closing, Join
    PROVE  Closing'
<1> USE DEF M
<1>0. /\ UNCHANGED <<open, quitReady, clearMe, pooled, clientsLock, armed,
                     expired, signaled, stopped>>
      /\ stopped /\ "main" \in Actors
  BY DEF Join, client, socket, timer, pool, Actors
<1>1. /\ Types' /\ Order'
      /\ Members(todo["main"]) = {"join"} \union Members(todo'["main"])
      /\ \A b \in Actors \ {"main"} : Members(todo'[b]) = Members(todo[b])
  BY <1>0, DoLists DEF Closing, Join
<1>2. Owners' /\ Companions' /\ Locked'
  BY <1>0, <1>1 DEF Closing, Owners, Companions, Locked
<1>3. Leaves' /\ Kept' /\ Ends'
  BY <1>0, <1>1 DEF Closing, Leaves, Kept, Ends, Actors
<1>4. Joins'
  BY <1>0, <1>1 DEF Closing, Joins, Actors
<1> QED
  BY <1>1, <1>2, <1>3, <1>4 DEF Closing

\* The timeout: what was to close the client, is still.
LEMMA ExpireMove ==
    ASSUME Closing, Expire
    PROVE  Closing'
<1> USE DEF M
<1>0. /\ UNCHANGED <<todo, open, quitReady, clearMe, pooled, clientsLock,
                     signaled, stopped, joined>>
      /\ expired'
  BY DEF Expire, client, socket, pool, app
<1>1. Types' /\ Order' /\ Owners' /\ Companions' /\ Locked'
  BY <1>0 DEF Closing, Types, Order, Owners, Companions, Locked
<1>2. Leaves' /\ Kept' /\ Ends' /\ Joins'
  BY <1>0 DEF Closing, Leaves, Kept, Ends, Joins
<1> QED
  BY <1>1, <1>2 DEF Closing

-----------------------------------------------------------------------------
LEMMA StatementMove ==
    ASSUME Closing, NEW a \in Actors, Statement(a)
    PROVE  Closing'
<1> USE DEF Marked
<1> USE DEF Flags, client, socket, timer, pool, app
<1>1. CASE Send(a)
  BY <1>1, QuietCall DEF Send, sendMessage
<1>2. CASE Nick(a)
  BY <1>2, QuietCall DEF Nick, sendMessage
<1>3. CASE Write(a)
  <2>1. UNCHANGED Flags
    BY <1>3 DEF Write
  <2>2. Call(a, "write", <<"unset">>) \/ Do(a, "write") \/ Do(a, "unset")
    BY <1>3 DEF Write, WriteBusy, WriteFront, WriteNothing, Unset
  <2> QED
    BY <2>1, <2>2, QuietCall, QuietDo
<1>4. CASE Read(a)
  BY <1>4, QuietDo DEF Read
<1>6. CASE Closed(a)
  BY <1>6, ClosedMove
<1>7. CASE QuitReady(a)
  BY <1>7, QuitReadyMove
<1>8. CASE ClearMe(a)
  BY <1>8, ClearMeMove
<1>9. CASE Arm(a)
  BY <1>9, ArmMove
<1>10. CASE CloseAll(a)
  BY <1>10, CloseAllMove
<1>11. CASE Clear(a)
  BY <1>11, ClearMove
<1> QED
  BY <1>1, <1>2, <1>3, <1>4, <1>6, <1>7, <1>8, <1>9, <1>10, <1>11
     DEF Statement

\* The lists without a marked statement that a handler or main begins with.
LEMMA QuietLists ==
    \A stmts \in {<<>>, <<"text">>, <<"next">>, <<"read">>, <<"write">>,
                  <<"text", "NICK", "read">>, <<"closeAll", "join">>} :
        /\ stmts \in Seq(Statements) /\ Ordered(stmts)
        /\ Members(stmts) \intersect Marked = {}
<1> DEFINE Quiet(stmts) ==
        /\ stmts \in Seq(Statements) /\ Ordered(stmts)
        /\ Members(stmts) \intersect Marked = {}
<1>1. Quiet(<<>>)
  BY MembersOfLists
<1>2. ASSUME NEW x \in {"text", "next", "read", "write"} PROVE Quiet(<<x>>)
  <2>1. <<x>> \in Seq(Statements) /\ Ordered(<<x>>) /\ Members(<<x>>) = {x}
    BY MembersOfLists DEF Statements
  <2> QED
    BY <2>1 DEF Marked
<1>3. Quiet(<<"text", "NICK", "read">>)
  BY MembersOfLists DEF Statements, Marked
<1>4. Quiet(<<"closeAll", "join">>)
  BY MembersOfLists DEF Statements, Marked
<1> HIDE DEF Quiet
<1>5. \A stmts \in {<<>>, <<"text">>, <<"next">>, <<"read">>, <<"write">>,
                    <<"text", "NICK", "read">>, <<"closeAll", "join">>} :
         Quiet(stmts)
  BY <1>1, <1>2, <1>3, <1>4
<1> QED
  BY <1>5 DEF Quiet

LEMMA ClosingStep == Closing /\ [Next]_vars => Closing'
<1> SUFFICES ASSUME Closing, [Next]_vars PROVE Closing'
  OBVIOUS
<1> USE DEF Flags, client, socket, timer, pool, app, Actors
<1>1. ASSUME NEW r, Resolve(r) PROVE Closing'
  BY <1>1, QuietIdle DEF Resolve
<1>2. CASE Connected
  BY <1>2, QuietBegin, QuietLists DEF Connected
<1>3. CASE ConnectFails
  BY <1>3, QuietIdle DEF ConnectFails
<1>4. CASE Dangle
  BY <1>4, QuietIdle DEF Dangle
<1>5. ASSUME NEW a \in Actors, Step(a) PROVE Closing'
  BY <1>5, StatementMove DEF Step
<1>6. ASSUME NEW end, ProcMessage(end) PROVE Closing'
  BY <1>6, ProcMessageMove
<1>7. CASE ReadAgain
  <2>1. /\ Types /\ Order /\ "reader" \in Actors
        /\ todo' = [todo EXCEPT !["reader"] = <<"read">>]
        /\ todo["reader"] = <<"next">>
    BY <1>7 DEF Closing, ReadAgain
  <2>2. /\ <<"read">> \in Seq(Statements) /\ Ordered(<<"read">>)
        /\ Members(<<"read">>) = {"read"} /\ Members(<<"next">>) = {"next"}
    BY QuietLists, MembersOfLists
  <2>3. /\ Types' /\ Order' /\ Members(todo'["reader"]) = {"read"}
        /\ \A b \in Actors \ {"reader"} : Members(todo'[b]) = Members(todo[b])
    BY <2>1, <2>2, Lists
  <2>4. UNCHANGED Flags
    BY <1>7 DEF ReadAgain
  <2> QED
    BY <2>1, <2>2, <2>3, <2>4, QuietMove DEF Marked
<1>8. CASE ReadFails
  BY <1>8, ForceMove, QuietBegin, QuietLists DEF ReadFails
<1>9. ASSUME NEW n, ReadData(n) PROVE Closing'
  BY <1>9, QuietBegin, QuietLists DEF ReadData
<1>10. CASE WriteDone
  BY <1>10, QuietBegin, QuietLists DEF WriteDone
<1>11. CASE WriteFails
  BY <1>11, ForceMove, QuietBegin, QuietLists DEF WriteFails
<1>12. CASE Expire
  BY <1>12, ExpireMove
<1>13. CASE handleCloseTimeout
  BY <1>13, ForceMove DEF handleCloseTimeout
<1>14. CASE Line
  BY <1>14, QuietBegin, QuietLists DEF Line
<1>15. CASE EndOfInput
  BY <1>15, QuietBegin, QuietLists DEF EndOfInput
<1>16. CASE Signal
  BY <1>16, SignalMove
<1>17. CASE RunReturns
  BY <1>17, RunReturnsMove
<1>18. CASE Join
  BY <1>18, JoinMove
<1>19. ASSUME NEW m, ServerSends(m) PROVE Closing'
  BY <1>19, QuietIdle DEF ServerSends
<1>20. CASE ServerCloses
  BY <1>20, QuietIdle DEF ServerCloses
<1>21. CASE UNCHANGED vars
  BY <1>21, QuietIdle DEF vars
<1>22. ASSUME NEW a \in Actors, CloseSocket(a) PROVE Closing'
  BY <1>22, CloseSocketMove
<1> QED
  BY <1>1, <1>2, <1>3, <1>4, <1>5, <1>6, <1>7, <1>8, <1>9, <1>10, <1>11, <1>12,
     <1>13, <1>14, <1>15, <1>16, <1>17, <1>18, <1>19, <1>20, <1>21, <1>22
     DEF Next, Progress, Waiting, Process, Rest

LEMMA ClosingInit == Init => Closing
<1> SUFFICES ASSUME Init PROVE Closing
  OBVIOUS
<1>1. /\ todo = [a \in Actors |-> <<>>]
      /\ open /\ pooled /\ ~quitReady /\ ~signaled /\ ~stopped /\ ~joined
  BY DEF Init
<1>2. \A a \in Actors : todo[a] = <<>> /\ M(a) = {} /\ Ordered(todo[a])
  BY <1>1, MembersOfLists DEF M
<1>3. Types /\ Order
  BY <1>1, <1>2 DEF Types, Order
<1>4. Owners /\ Companions /\ Locked /\ Leaves /\ Kept /\ Ends /\ Joins
  BY <1>1, <1>2 DEF Owners, Companions, Locked, Leaves, Kept, Ends, Joins
<1> QED
  BY <1>3, <1>4 DEF Closing

\* A client whose socket was closed is out of the pool, once the handlers that
\* close it have run: through a lost connection, a refused nickname, QUIT and
\* its timeout or the end of the program, in whatever order they come.
THEOREM LeavesCorrect == Spec => []ClosedLeavesPool
<1>1. Closing => ClosedLeavesPool
  BY DEF Closing, Leaves, ClosedLeavesPool, M, Members
<1> QED
  BY <1>1, ClosingInit, ClosingStep, PTL DEF Spec

\* When pool.join() has returned, the client is closed and out of the pool.
THEOREM JoinsCorrect == Spec => []JoinedClosed
<1>1. Closing => JoinedClosed
  BY DEF Closing, Joins, JoinedClosed
<1> QED
  BY <1>1, ClosingInit, ClosingStep, PTL DEF Spec
-----------------------------------------------------------------------------
(* The lambda of connect does not outlive the client unless forceClose has   *)
(* been called: what removes the client from the pool otherwise is closeAll, *)
(* after it has set the close timer, or an ERROR, which is read after the    *)
(* lambda has returned.                                                      *)

\* The connection is being made, or its lambda runs.
Connects == connecting \in {"pending", "ok"} \/ M("connect") # {}

\* The close timer, or its handler, holds the client.
TimerHolds == armed \/ expired \/ M("timer") # {}

\* Who is to call closed() has it from forceClose.
Forcing ==
    /\ \A a \in Actors :
        /\ "closed" \in M(a) => todo[a] \in {forceClose, <<"closed">>}
        /\ todo[a] = <<"closed">> => forced
    /\ M("timer") # {} => "closed" \in M("timer")

\* Nothing is read before the lambda has returned.
Reads ==
    /\ reading \/ M("reader") # {} => connecting = "over" /\ M("connect") = {}
    /\ M("connect") # {} => connecting = "over"
    /\ \A a \in Actors : "read" \in M(a) => a \in {"connect", "reader"}

\* The timer is set before the pool is cleared.
Holds ==
    ~forced /\ Connects =>
        /\ ~pooled => TimerHolds
        /\ \A a \in Actors : "clear" \in M(a) /\ "arm" \notin M(a) => TimerHolds

Outliving == Closing /\ Forcing /\ Reads /\ Holds

-----------------------------------------------------------------------------
LEMMA NothingToDo ==
    ASSUME Types, Order, NEW a \in Actors
    PROVE  M(a) = {} <=> todo[a] = <<>>
<1>1. todo[a] = <<>> => M(a) = {}
  BY MembersOfLists DEF M
<1>2. ASSUME todo[a] # <<>> PROVE M(a) # {}
  <2>1. todo[a] \in Seq(Statements) /\ Ordered(todo[a])
    BY DEF Types, Order
  <2>2. Members(todo[a]) = {Head(todo[a])} \union Members(Tail(todo[a]))
    BY <1>2, <2>1, MembersOfTail
  <2> QED
    BY <2>2 DEF M
<1> QED
  BY <1>1, <1>2

LEMMA NamedLists ==
    /\ forceClose \in Seq(Statements) /\ <<"closed">> \in Seq(Statements)
    /\ Head(forceClose) = "closeSocket" /\ Tail(forceClose) = <<"closed">>
    /\ forceClose # <<>> /\ <<"closed">> # <<>> /\ forceClose # <<"closed">>
    /\ Head(<<"closed">>) = "closed" /\ Tail(<<"closed">>) = <<>>
    /\ Members(forceClose) = {"closeSocket", "closed"}
    /\ Members(<<"closed">>) = {"closed"}
  BY MembersOfLists DEF forceClose, Statements

\* No actor moves.
Idles ==
    /\ UNCHANGED <<todo, pooled, reading, forced, armed, expired>>
    /\ \/ connecting' = connecting
       \/ connecting = "pending"
       \/ connecting = "err" /\ connecting' = "over"

LEMMA OutlivingIdle ==
    ASSUME Outliving, Closing', Idles
    PROVE  Outliving'
<1> USE DEF M, Outliving, Idles
<1>1. Forcing'
  BY DEF Forcing
<1>2. Reads'
  BY DEF Reads
<1>3. Holds'
  BY DEF Holds, Connects, TimerHolds
<1> QED
  BY <1>1, <1>2, <1>3

\* An actor moves, and the client stays where it is, or may leave it.
Moves(a, new) ==
    /\ todo' = [todo EXCEPT ![a] = new]
    /\ connecting' = connecting
    /\ pooled => pooled' \/ forced' \/ TimerHolds \/ ~Connects
    /\ (forced => forced') /\ (armed => armed')
    /\ reading' => reading \/ (connecting = "over" /\
                      IF a = "connect" THEN Members(new) = {} ELSE M("connect") = {})
    /\ expired => expired' \/ (a = "timer" /\ Members(new) # {})
    /\ "closed" \in Members(new)
         => new = forceClose \/ (new = <<"closed">> /\ forced')
    /\ a = "timer" => "closed" \in Members(new) \/ (Members(new) = {} /\ forced')
    /\ "read" \in Members(new) => a \in {"connect", "reader"}
    /\ a = "connect" /\ Members(new) # {} => M(a) # {}
    /\ a = "reader" /\ Members(new) # {} => M(a) # {} \/ reading
    /\ "clear" \in Members(new) /\ "arm" \notin Members(new)
         => \/ armed' \/ forced' \/ TimerHolds \/ ~Connects
            \/ "clear" \in M(a) /\ "arm" \notin M(a)

LEMMA OutlivingMove ==
    ASSUME Outliving, Closing', NEW a \in Actors, NEW new, Moves(a, new)
    PROVE  Outliving'
<1> USE DEF Moves
<1> USE DEF M, Outliving
<1>1. /\ todo'[a] = new /\ \A b \in Actors \ {a} : todo'[b] = todo[b]
      /\ "timer" \in Actors /\ "reader" \in Actors /\ "connect" \in Actors
  BY DEF Closing, Types, Actors
<1>2. Forcing'
  <2>1. \A b \in Actors :
          /\ "closed" \in Members(todo'[b]) => todo'[b] \in {forceClose, <<"closed">>}
          /\ todo'[b] = <<"closed">> => forced'
    BY <1>1, NamedLists DEF Forcing
  <2>2. Members(todo'["timer"]) # {} => "closed" \in Members(todo'["timer"])
    BY <1>1 DEF Forcing
  <2> QED
    BY <2>1, <2>2 DEF Forcing
<1>3. Reads'
  BY <1>1 DEF Reads
<1>4. Holds'
  <2>1. Connects' => Connects
    BY <1>1 DEF Connects
  <2>2. TimerHolds /\ ~forced' => TimerHolds'
    BY <1>1 DEF TimerHolds
  <2>3. ASSUME NEW b \in Actors, ~forced', Connects',
               "clear" \in Members(todo'[b]), "arm" \notin Members(todo'[b])
        PROVE  TimerHolds'
    <3>1. armed' \/ forced' => TimerHolds'
      BY <2>3 DEF TimerHolds
    <3> QED
      BY <1>1, <2>1, <2>2, <2>3, <3>1 DEF Holds
  <2> QED
    BY <2>1, <2>2, <2>3 DEF Holds
<1> QED
  BY <1>2, <1>3, <1>4

\* An actor with a statement that is not of forceClose.
LEMMA NotForcing ==
    ASSUME Outliving, NEW a \in Actors, todo[a] # <<>>,
           Head(todo[a]) \notin {"closeSocket", "closed"}
    PROVE  "closed" \notin M(a) /\ a # "timer" /\ M(a) # {}
<1>1. "closed" \notin M(a)
  BY NamedLists DEF Outliving, Forcing
<1>2. M(a) # {}
  BY NothingToDo DEF Outliving, Closing
<1> QED
  BY <1>1, <1>2 DEF Outliving, Forcing

\* A statement that is not about the pool, the timer or the socket.
LEMMA OutlivingDo ==
    ASSUME Outliving, Closing', NEW a \in Actors, NEW s, Do(a, s),
           s \notin {"closeSocket", "closed", "arm"},
           UNCHANGED <<connecting, pooled, reading, forced, armed, expired>>
    PROVE  Outliving'
<1> USE DEF M
<1>1. "closed" \notin M(a) /\ a # "timer" /\ M(a) # {}
  BY NotForcing DEF Do
<1>2. /\ Members(todo[a]) = {s} \union Members(todo'[a])
      /\ todo' = [todo EXCEPT ![a] = Tail(todo[a])]
  BY DoLists DEF Do, Outliving, Closing
<1> DEFINE new == Tail(todo[a])
<1>3. Members(todo[a]) = {s} \union Members(new) /\ todo' = [todo EXCEPT ![a] = new]
  BY <1>2 DEF Outliving, Closing, Types
<1> HIDE DEF new
<1>4. "read" \in Members(new) => a \in {"connect", "reader"}
  BY <1>3 DEF Outliving, Reads
<1>5. /\ "closed" \notin Members(new)
      /\ "clear" \in Members(new) /\ "arm" \notin Members(new)
           => "clear" \in M(a) /\ "arm" \notin M(a)
  BY <1>1, <1>3
<1>6. Moves(a, new)
  BY <1>1, <1>3, <1>4, <1>5 DEF Moves
<1> QED
  BY <1>6, OutlivingMove

LEMMA OutlivingCall ==
    ASSUME Outliving, Closing', NEW a \in Actors, NEW s,
           s \notin {"closeSocket", "closed", "arm", "clear"},
           NEW x \in {"write", "unset"}, Call(a, s, <<x>>),
           UNCHANGED <<connecting, pooled, reading, forced, armed, expired>>
    PROVE  Outliving'
<1> USE DEF M
<1> DEFINE stmts == <<x>>
<1>1. "closed" \notin M(a) /\ a # "timer" /\ M(a) # {}
  BY NotForcing DEF Call
<1>2. /\ stmts \in Seq(Statements) /\ Members(stmts) = {x} /\ Ordered(stmts)
      /\ \A y : Follows(x, y)
  BY MembersOfLists DEF Statements, Follows
<1>3. Types /\ Order /\ Call(a, s, stmts)
  BY DEF Outliving, Closing
<1> HIDE DEF stmts
<1>4. /\ Members(todo[a]) = {s} \union Members(Tail(todo[a]))
      /\ Members(todo'[a]) = {x} \union Members(Tail(todo[a]))
  BY <1>2, <1>3, CallLists
<1> DEFINE new == stmts \o Tail(todo[a])
<1>5. todo' = [todo EXCEPT ![a] = new] /\ todo'[a] = new
  BY <1>3 DEF Call, Types
<1> HIDE DEF new
<1>6. "read" \in Members(new) => a \in {"connect", "reader"}
  BY <1>4, <1>5 DEF Outliving, Reads
<1>7. /\ "closed" \notin Members(new)
      /\ "clear" \in Members(new) /\ "arm" \notin Members(new)
           => "clear" \in M(a) /\ "arm" \notin M(a)
  BY <1>1, <1>4, <1>5
<1>8. Moves(a, new)
  BY <1>1, <1>5, <1>6, <1>7 DEF Moves
<1> QED
  BY <1>8, OutlivingMove

\* A handler or main begins with one of these.
LEMMA OutlivingBegin ==
    ASSUME Outliving, Closing', NEW a \in Actors \ {"connect", "timer"},
           NEW stmts \in {<<>>, forceClose, <<"text">>, <<"next">>, <<"write">>,
                          <<"closeAll">>, <<"closeAll", "join">>},
           Begin(a, stmts), a = "reader" => reading, reading' => reading,
           UNCHANGED <<connecting, pooled, forced, armed, expired>>
    PROVE  Outliving'
<1>1. todo' = [todo EXCEPT ![a] = stmts]
  BY DEF Begin
<1>2. /\ "closed" \in Members(stmts) => stmts = forceClose
      /\ "read" \notin Members(stmts) /\ "clear" \notin Members(stmts)
  BY MembersOfLists
<1>3. Moves(a, stmts)
  BY <1>1, <1>2 DEF Moves
<1> QED
  BY <1>3, OutlivingMove

-----------------------------------------------------------------------------
\* The socket is closed within forceClose, or after an ERROR by the reader.
LEMMA OutlivingCloseSocket ==
    ASSUME Outliving, Closing', NEW a \in Actors, CloseSocket(a)
    PROVE  Outliving'
<1> USE DEF M
<1> DEFINE new == Tail(todo[a])
<1>1. /\ Members(todo[a]) = {"closeSocket"} \union Members(new)
      /\ todo' = [todo EXCEPT ![a] = new]
      /\ todo[a] # <<>> /\ Head(todo[a]) = "closeSocket"
  <2>1. Do(a, "closeSocket")
    BY DEF CloseSocket
  <2>2. Types /\ Order /\ todo'[a] = new
    BY <2>1 DEF Outliving, Closing, Types, Do
  <2> QED
    BY <2>1, <2>2, DoLists DEF Do
<1>2. /\ UNCHANGED <<connecting, pooled, reading, armed, expired>>
      /\ forced => forced'
      /\ new = <<"closed">> => forced'
  BY DEF CloseSocket, input, timer, pool
<1>3. "closed" \in Members(new) => new = <<"closed">>
  BY <1>1, NamedLists DEF Outliving, Forcing
<1>4. a = "timer" => "closed" \in Members(new)
  BY <1>1 DEF Outliving, Forcing
<1>5. "read" \in Members(new) => a \in {"connect", "reader"}
  BY <1>1 DEF Outliving, Reads
<1> HIDE DEF new
<1>6. Moves(a, new)
  BY <1>1, <1>2, <1>3, <1>4, <1>5 DEF Moves
<1> QED
  BY <1>6, OutlivingMove

\* The client leaves the pool at the end of forceClose, or for its ERROR.
LEMMA OutlivingClosed ==
    ASSUME Outliving, Closing', NEW a \in Actors, Closed(a)
    PROVE  Outliving'
<1> USE DEF M
<1>0. UNCHANGED <<connecting, reading, armed, expired, forced>>
  BY DEF Closed, socket, input, timer, ghosts
<1>1. ASSUME Do(a, "closed")
      PROVE  Outliving'
  <2>1. /\ "closed" \in Members(todo[a])
        /\ todo[a] # <<>> /\ Head(todo[a]) = "closed"
    <3>1. Types /\ Order
      BY DEF Outliving, Closing
    <3>2. Members(todo[a]) = {"closed"} \union Members(todo'[a])
      BY <1>1, <3>1, DoLists
    <3> QED
      BY <1>1, <3>2 DEF Do
  <2>2. todo[a] = <<"closed">> /\ forced
    BY <2>1, NamedLists DEF Outliving, Forcing
  <2>3. todo' = [todo EXCEPT ![a] = <<>>] /\ Members(<<>>) = {}
    BY <1>1, <2>2, NamedLists, MembersOfLists DEF Do
  <2>4. Moves(a, <<>>)
    BY <1>0, <2>2, <2>3 DEF Moves
  <2> QED
    BY <2>4, OutlivingMove
<1>2. ASSUME Do(a, "closedIfClearMe")
      PROVE  Outliving'
  <2> DEFINE new == Tail(todo[a])
  <2>1. "closed" \notin M(a) /\ a # "timer" /\ M(a) # {}
    BY <1>2, NotForcing DEF Do
  <2>2. /\ Members(todo[a]) = {"closedIfClearMe"} \union Members(new)
        /\ todo' = [todo EXCEPT ![a] = new]
    <3>1. Types /\ Order /\ todo'[a] = new
      BY <1>2 DEF Outliving, Closing, Types, Do
    <3> QED
      BY <1>2, <3>1, DoLists DEF Do
  <2>3. a = "reader"
    BY <2>2 DEF Outliving, Closing, Owners
  <2>4. ~Connects
    BY <2>1, <2>3 DEF Outliving, Reads, Connects
  <2> HIDE DEF new
  <2>5. Moves(a, new)
    BY <1>0, <2>1, <2>2, <2>3, <2>4 DEF Moves
  <2> QED
    BY <2>5, OutlivingMove
<1> QED
  BY <1>1, <1>2 DEF Closed

LEMMA OutlivingArm ==
    ASSUME Outliving, Closing', NEW a \in Actors, Arm(a)
    PROVE  Outliving'
<1> USE DEF M
<1> DEFINE new == Tail(todo[a])
<1>0. /\ UNCHANGED <<connecting, pooled, reading, forced, expired>>
      /\ armed' /\ Do(a, "arm")
  BY DEF Arm, socket, input, pool, ghosts
<1>1. "closed" \notin M(a) /\ a # "timer" /\ M(a) # {}
  BY <1>0, NotForcing DEF Do
<1>2. /\ Members(todo[a]) = {"arm"} \union Members(new)
      /\ todo' = [todo EXCEPT ![a] = new]
  <2>1. Types /\ Order /\ todo'[a] = new
    BY <1>0 DEF Outliving, Closing, Types, Do
  <2> QED
    BY <1>0, <2>1, DoLists DEF Do
<1>3. "read" \in Members(new) => a \in {"connect", "reader"}
  BY <1>2 DEF Outliving, Reads
<1> HIDE DEF new
<1>4. Moves(a, new)
  BY <1>0, <1>1, <1>2, <1>3 DEF Moves
<1> QED
  BY <1>4, OutlivingMove

\* closeAll sets the timer, unless the client has left the pool.
LEMMA OutlivingCloseAll ==
    ASSUME Outliving, Closing', NEW a \in Actors, CloseAll(a)
    PROVE  Outliving'
<1> USE DEF M
<1> DEFINE new == (IF pooled THEN close("keepMe") ELSE <<>>) \o <<"clear">>
                    \o Tail(todo[a])
<1>0. /\ UNCHANGED <<connecting, pooled, reading, forced, armed, expired>>
      /\ todo[a] # <<>> /\ Head(todo[a]) = "closeAll"
      /\ todo' = [todo EXCEPT ![a] = new]
  BY DEF CloseAll, Call, socket, input, timer, ghosts
<1>1. "closed" \notin M(a) /\ a # "timer" /\ M(a) # {}
  BY <1>0, NotForcing
<1> HIDE DEF new
<1>2. todo'[a] = new
  BY <1>0 DEF Outliving, Closing, Types
<1>3. /\ Members(new) = Begun \union {"clear"} \union Members(Tail(todo[a]))
      /\ Members(Tail(todo[a])) \subseteq {"join"}
  BY <1>2, CloseAllLists DEF Outliving
<1>4. /\ "closed" \notin Members(new) /\ "read" \notin Members(new)
      /\ pooled => "arm" \in Members(new)
  BY <1>3 DEF Begun
<1>5. ~pooled => forced \/ TimerHolds \/ ~Connects
  BY DEF Outliving, Holds
<1>6. Moves(a, new)
  BY <1>0, <1>1, <1>4, <1>5 DEF Moves
<1> QED
  BY <1>6, OutlivingMove

LEMMA OutlivingClear ==
    ASSUME Outliving, Closing', NEW a \in Actors, Clear(a)
    PROVE  Outliving'
<1> USE DEF M
<1> DEFINE new == Tail(todo[a])
<1>0. /\ UNCHANGED <<connecting, reading, forced, armed, expired>>
      /\ Do(a, "clear")
  BY DEF Clear, socket, input, timer, ghosts
<1>1. "closed" \notin M(a) /\ a # "timer" /\ M(a) # {}
  BY <1>0, NotForcing DEF Do
<1>2. /\ Members(todo[a]) = {"clear"} \union Members(new)
      /\ Members(new) \subseteq {"join"}
      /\ todo' = [todo EXCEPT ![a] = new]
  <2>1. Types /\ Order /\ todo'[a] = new
    BY <1>0 DEF Outliving, Closing, Types, Do
  <2> QED
    BY <1>0, <2>1, DoLists DEF Do, Follows
<1> HIDE DEF new
<1>3. forced \/ TimerHolds \/ ~Connects
  BY <1>2 DEF Outliving, Holds
<1>4. Moves(a, new)
  BY <1>0, <1>1, <1>2, <1>3 DEF Moves
<1> QED
  BY <1>4, OutlivingMove

\* The lambda's last statement is to read.
LEMMA OutlivingRead ==
    ASSUME Outliving, Closing', NEW a \in Actors, Read(a)
    PROVE  Outliving'
<1> USE DEF M
<1> DEFINE new == Tail(todo[a])
<1>0. /\ UNCHANGED <<connecting, pooled, forced, armed, expired>>
      /\ Do(a, "read")
  BY DEF Read, socket, timer, pool, ghosts
<1>1. "closed" \notin M(a) /\ a # "timer" /\ M(a) # {}
  BY <1>0, NotForcing DEF Do
<1>2. /\ Members(todo[a]) = {"read"} \union Members(new)
      /\ Members(new) = {}
      /\ todo' = [todo EXCEPT ![a] = new]
  <2>1. Types /\ Order /\ todo'[a] = new
    BY <1>0 DEF Outliving, Closing, Types, Do
  <2> QED
    BY <1>0, <2>1, DoLists DEF Do, Follows
<1>3. /\ a \in {"connect", "reader"} /\ connecting = "over"
      /\ a = "reader" => M("connect") = {}
  BY <1>1, <1>2 DEF Outliving, Reads
<1> HIDE DEF new
<1>4. Moves(a, new)
  BY <1>0, <1>1, <1>2, <1>3 DEF Moves
<1> QED
  BY <1>4, OutlivingMove

LEMMA OutlivingStatement ==
    ASSUME Outliving, Closing', NEW a \in Actors, Statement(a)
    PROVE  Outliving'
<1> USE DEF client, socket, input, timer, pool, ghosts
<1>1. CASE Send(a)
  BY <1>1, OutlivingCall DEF Send, sendMessage
<1>2. CASE Nick(a)
  BY <1>2, OutlivingCall DEF Nick, sendMessage
<1>3. CASE Write(a)
  <2>1. UNCHANGED <<connecting, pooled, reading, forced, armed, expired>>
    BY <1>3 DEF Write
  <2>2. Call(a, "write", <<"unset">>) \/ Do(a, "write") \/ Do(a, "unset")
    BY <1>3 DEF Write, WriteBusy, WriteFront, WriteNothing, Unset
  <2> QED
    BY <2>1, <2>2, OutlivingCall, OutlivingDo
<1>4. CASE QuitReady(a)
  BY <1>4, OutlivingDo DEF QuitReady
<1>5. CASE ClearMe(a)
  BY <1>5, OutlivingDo DEF ClearMe
<1> QED
  BY <1>1, <1>2, <1>3, <1>4, <1>5, OutlivingRead, OutlivingClosed,
     OutlivingArm, OutlivingCloseAll, OutlivingClear
     DEF Statement

\* The lambda of connect begins.
LEMMA OutlivingConnected ==
    ASSUME Outliving, Closing', Connected
    PROVE  Outliving'
<1> USE DEF M
<1> DEFINE new == <<"text", "NICK", "read">>
<1>0. /\ connecting = "ok" /\ connecting' = "over"
      /\ UNCHANGED <<pooled, reading, forced, armed, expired>>
      /\ todo' = [todo EXCEPT !["connect"] = new]
      /\ Members(new) = {"text", "NICK", "read"}
  BY MembersOfLists DEF Connected, Begin, input, timer, pool, ghosts
<1>1. new # <<"closed">>
  OBVIOUS
<1> HIDE DEF new
<1>2. /\ todo'["connect"] = new
      /\ \A b \in Actors \ {"connect"} : todo'[b] = todo[b]
      /\ "timer" \in Actors /\ "reader" \in Actors /\ "connect" \in Actors
  BY <1>0 DEF Outliving, Closing, Types, Actors
<1>3. Forcing'
  <2>1. \A b \in Actors :
          /\ "closed" \in Members(todo'[b]) => todo'[b] \in {forceClose, <<"closed">>}
          /\ todo'[b] = <<"closed">> => forced'
    <3>1. /\ \A b \in Actors :
                /\ "closed" \in M(b) => todo[b] \in {forceClose, <<"closed">>}
                /\ todo[b] = <<"closed">> => forced
          /\ "closed" \notin Members(new) /\ forced' = forced
      BY <1>0 DEF Outliving, Forcing
    <3> QED
      BY <1>1, <1>2, <3>1
  <2>2. Members(todo'["timer"]) # {} => "closed" \in Members(todo'["timer"])
    BY <1>2 DEF Outliving, Forcing
  <2> QED
    BY <2>1, <2>2 DEF Forcing
<1>4. Reads'
  BY <1>0, <1>2 DEF Outliving, Reads
<1>5. Holds'
  <2>1. Connects
    BY <1>0 DEF Connects
  <2>2. TimerHolds => TimerHolds'
    BY <1>0, <1>2 DEF TimerHolds
  <2> QED
    BY <1>0, <1>2, <2>1, <2>2 DEF Outliving, Holds
<1> QED
  BY <1>3, <1>4, <1>5 DEF Outliving

LEMMA OutlivingProcMessage ==
    ASSUME Outliving, Closing', NEW end, ProcMessage(end)
    PROVE  Outliving'
<1> USE DEF M
<1>0. PICK new \in Seq(Statements) :
         /\ todo' = [todo EXCEPT !["reader"] = new]
         /\ Ordered(new) /\ Processed(new)
  BY ProcessedIs
<1>1. /\ todo' = [todo EXCEPT !["reader"] = new]
      /\ UNCHANGED <<connecting, pooled, reading, forced, armed, expired>>
      /\ todo["reader"] = <<"next">>
  BY <1>0 DEF ProcMessage, socket, timer, pool
<1>2. \/ new = forceClose
      \/ {"closed", "read", "clear"} \intersect Members(new) = {}
  BY <1>0 DEF Processed
<1>3. M("reader") # {}
  <2>1. Members(<<"next">>) = {"next"}
    BY MembersOfLists
  <2> QED
    BY <1>1, <2>1
<1>4. Moves("reader", new)
  BY <1>1, <1>2, <1>3, NamedLists DEF Moves
<1>5. "reader" \in Actors
  BY DEF Actors
<1> QED
  BY <1>4, <1>5, OutlivingMove

LEMMA OutlivingTimer ==
    ASSUME Outliving, Closing', Expire \/ handleCloseTimeout
    PROVE  Outliving'
<1> USE DEF M
<1>1. CASE Expire
  <2>1. /\ UNCHANGED <<todo, connecting, pooled, reading, forced>>
        /\ expired'
    BY <1>1 DEF Expire, socket, input, pool, ghosts
  <2>2. Forcing' /\ Reads' /\ TimerHolds'
    BY <2>1 DEF Outliving, Forcing, Reads, TimerHolds
  <2> QED
    BY <2>2 DEF Outliving, Holds
<1>2. CASE handleCloseTimeout
  <2>1. /\ UNCHANGED <<connecting, pooled, reading, forced, armed>>
        /\ todo' = [todo EXCEPT !["timer"] = forceClose]
    BY <1>2 DEF handleCloseTimeout, Begin, socket, input, pool, ghosts
  <2>2. Moves("timer", forceClose) /\ "timer" \in Actors
    BY <2>1, NamedLists DEF Moves, Actors
  <2> QED
    BY <2>2, OutlivingMove
<1> QED
  BY <1>1, <1>2

LEMMA OutlivingStep == Outliving /\ [Next]_vars => Outliving'
<1> SUFFICES ASSUME Outliving, [Next]_vars PROVE Outliving'
  OBVIOUS
<1>0. Closing'
  BY ClosingStep DEF Outliving
<1> USE DEF client, socket, input, timer, pool, app, ghosts
<1>1. ASSUME NEW r \in {"ok", "err"}, Resolve(r) PROVE Outliving'
  BY <1>0, <1>1, OutlivingIdle DEF Idles, Resolve
<1>2. CASE Connected
  BY <1>0, <1>2, OutlivingConnected
<1>3. CASE ConnectFails
  BY <1>0, <1>3, OutlivingIdle DEF Idles, ConnectFails
<1>4. CASE Dangle
  BY <1>0, <1>4, OutlivingIdle DEF Idles, Dangle
<1>5. ASSUME NEW a \in Actors, Step(a) PROVE Outliving'
  BY <1>0, <1>5, OutlivingStatement DEF Step
<1>6. ASSUME NEW end, ProcMessage(end) PROVE Outliving'
  BY <1>0, <1>6, OutlivingProcMessage
<1>7. CASE ReadAgain
  <2>1. /\ Members(<<"next">>) = {"next"} /\ Members(<<"read">>) = {"read"}
        /\ todo["reader"] = <<"next">>
        /\ todo' = [todo EXCEPT !["reader"] = <<"read">>]
        /\ UNCHANGED <<connecting, pooled, reading, forced, armed, expired>>
    BY <1>7, MembersOfLists DEF ReadAgain
  <2>2. Moves("reader", <<"read">>) /\ "reader" \in Actors
    BY <2>1 DEF Moves, M, Actors
  <2> QED
    BY <1>0, <2>2, OutlivingMove
<1>8. CASE ReadFails
  BY <1>0, <1>8, OutlivingBegin DEF ReadFails, Actors
<1>9. ASSUME NEW n, ReadData(n) PROVE Outliving'
  BY <1>0, <1>9, OutlivingBegin DEF ReadData, Actors
<1>10. CASE WriteDone
  BY <1>0, <1>10, OutlivingBegin DEF WriteDone, Actors
<1>11. CASE WriteFails
  BY <1>0, <1>11, OutlivingBegin DEF WriteFails, Actors
<1>12. CASE Expire \/ handleCloseTimeout
  BY <1>0, <1>12, OutlivingTimer
<1>13. CASE Line
  BY <1>0, <1>13, OutlivingBegin DEF Line, Actors
<1>14. CASE EndOfInput
  BY <1>0, <1>14, OutlivingBegin DEF EndOfInput, Actors
<1>15. CASE Signal
  BY <1>0, <1>15, OutlivingBegin DEF Signal, Actors
<1>16. CASE RunReturns
  BY <1>0, <1>16, OutlivingIdle DEF Idles, RunReturns
<1>17. CASE Join
  BY <1>0, <1>17, OutlivingDo DEF Join, Actors
<1>18. ASSUME NEW m, ServerSends(m) PROVE Outliving'
  BY <1>0, <1>18, OutlivingIdle DEF Idles, ServerSends
<1>19. CASE ServerCloses
  BY <1>0, <1>19, OutlivingIdle DEF Idles, ServerCloses
<1>20. CASE UNCHANGED vars
  BY <1>0, <1>20, OutlivingIdle DEF Idles, vars
<1>21. ASSUME NEW a \in Actors, CloseSocket(a) PROVE Outliving'
  BY <1>0, <1>21, OutlivingCloseSocket
<1> QED
  BY <1>1, <1>2, <1>3, <1>4, <1>5, <1>6, <1>7, <1>8, <1>9, <1>10, <1>11,
     <1>12, <1>13, <1>14, <1>15, <1>16, <1>17, <1>18, <1>19, <1>20, <1>21
     DEF Next, Progress, Waiting, Process, Rest

LEMMA OutlivingInit == Init => Outliving
<1> SUFFICES ASSUME Init PROVE Outliving
  OBVIOUS
<1>1. Closing /\ pooled /\ ~reading
  BY ClosingInit DEF Init
<1>2. \A a \in Actors : todo[a] = <<>> /\ M(a) = {}
  BY MembersOfLists DEF Init, M
<1>3. Forcing /\ Reads /\ Holds
  BY <1>1, <1>2, NamedLists DEF Forcing, Reads, Holds, Actors
<1> QED
  BY <1>1, <1>3 DEF Outliving

\* The lambda of connect, which does not hold the client, never uses one that
\* is gone, whoever shuts it down and when, unless forceClose has been called.
THEOREM OutlivedCorrect == Spec => []LambdaOutlived
<1>1. Outliving => LambdaOutlived
  <2> SUFFICES ASSUME Outliving, ~Alive,
                      connecting \in {"pending", "ok"} \/ todo["connect"] # <<>>
               PROVE  forced
    BY DEF LambdaOutlived
  <2>1. "timer" \in Actors /\ "connect" \in Actors
    BY DEF Actors
  <2>2. ~pooled /\ ~TimerHolds
    BY <2>1, NothingToDo DEF Alive, TimerHolds, Outliving, Closing
  <2>3. Connects
    BY <2>1, NothingToDo DEF Connects, Outliving, Closing
  <2> QED
    BY <2>2, <2>3 DEF Outliving, Holds
<1> QED
  BY <1>1, OutlivingInit, OutlivingStep, PTL DEF Spec

-----------------------------------------------------------------------------
(* Nicknames.  At any time at most one attempt to get a nickname is under    *)
(* way: a NICK still to be sent, one in the queue or in the socket, or a     *)
(* refusal on its way back or read and not processed.                        *)

Asks == {<<"NICK", n>> : n \in Nicks}

Has(s, V) == \E i \in 1..Len(s) : s[i] \in V
Once(s, V) == \A i, j \in 1..Len(s) : s[i] \in V /\ s[j] \in V => i = j

Places == {"connect", "reader", "out", "inFlight", "toClient", "chunk"}

Attempt(p) ==
    \/ p \in {"connect", "reader"} /\ "NICK" \in M(p)
    \/ p = "out" /\ Has(out, Asks)
    \/ p = "inFlight" /\ Has(inFlight, Asks)
    \/ p = "toClient" /\ Has(toClient, {"433"})
    \/ p = "chunk" /\ Has(chunk, {"433"})

Trying == \E p \in Places : Attempt(p)

AtMostOne == \A p, q \in Places : Attempt(p) /\ Attempt(q) => p = q

NickOwners == \A a \in Actors : "NICK" \in M(a) => a \in {"connect", "reader"}

Onces == Once(out, Asks) /\ Once(toClient, {"433"}) /\ Once(chunk, {"433"})

\* The nickname that is asked for is the one the client goes by.
Asked ==
    /\ \A i \in 1..Len(out) : out[i] \in Asks => out[i][2] = nickname
    /\ \A i \in 1..Len(inFlight) : inFlight[i] \in Asks => inFlight[i][2] = nickname

\* Once one is registered, no other will be.
Registered == serverNick # 0 => nickname = serverNick /\ ~Trying

Attempts ==
    /\ NickOwners /\ Onces /\ Asked /\ AtMostOne /\ Registered
    /\ Trying => index <= NickCount
    /\ connecting \in {"pending", "ok"} => ~Trying /\ index = 1 /\ serverNick = 0

-----------------------------------------------------------------------------
(* Sequences *)

LEMMA OnceAppend ==
    ASSUME NEW S, NEW s \in Seq(S), NEW e \in S, NEW V
    PROVE  /\ Has(Append(s, e), V) => Has(s, V) \/ e \in V
           /\ Once(s, V) /\ (e \in V => ~Has(s, V)) => Once(Append(s, e), V)
           /\ \A i \in 1..Len(Append(s, e)) :
                Append(s, e)[i] = e \/ (i \in 1..Len(s) /\ Append(s, e)[i] = s[i])
<1> DEFINE t == Append(s, e)
<1>1. /\ Len(t) = Len(s) + 1 /\ Len(s) \in Nat /\ t[Len(s) + 1] = e
      /\ \A i \in 1..Len(s) : t[i] = s[i]
  BY AppendProperties
<1> HIDE DEF t
<1>2. \A i \in 1..Len(t) : (i = Len(s) + 1 /\ t[i] = e) \/ (i \in 1..Len(s) /\ t[i] = s[i])
  BY <1>1
<1>3. Has(t, V) => Has(s, V) \/ e \in V
  BY <1>2 DEF Has
<1>4. Once(s, V) /\ (e \in V => ~Has(s, V)) => Once(t, V)
  BY <1>2 DEF Has, Once
<1> QED
  BY <1>2, <1>3, <1>4 DEF t

LEMMA OnceTail ==
    ASSUME NEW S, NEW s \in Seq(S), s # <<>>, NEW V
    PROVE  /\ Tail(s) \in Seq(S) /\ Head(s) \in S /\ Head(s) = s[1] /\ 1 \in 1..Len(s)
           /\ Has(Tail(s), V) => Has(s, V)
           /\ Once(s, V) => Once(Tail(s), V)
           /\ Once(s, V) /\ Head(s) \in V => ~Has(Tail(s), V)
           /\ \A i \in 1..Len(Tail(s)) : i + 1 \in 1..Len(s) /\ Tail(s)[i] = s[i + 1]
<1> DEFINE t == Tail(s)
<1>1. /\ t \in Seq(S) /\ Len(t) = Len(s) - 1 /\ Len(s) \in Nat \ {0}
      /\ \A i \in 1..Len(t) : t[i] = s[i + 1]
      /\ Head(s) = s[1] /\ Head(s) \in S
  BY HeadTailProperties, EmptySeq
<1> HIDE DEF t
<1>2. \A i \in 1..Len(t) : i + 1 \in 1..Len(s) /\ t[i] = s[i + 1] /\ i + 1 # 1 /\ i \in Nat
  BY <1>1
<1>3. 1 \in 1..Len(s)
  BY <1>1
<1>4. Has(t, V) => Has(s, V)
  BY <1>2 DEF Has
<1>5. Once(s, V) => Once(t, V)
  <2> SUFFICES ASSUME Once(s, V), NEW i \in 1..Len(t), NEW j \in 1..Len(t),
                      t[i] \in V, t[j] \in V
               PROVE  i = j
    BY DEF Once
  <2>1. i + 1 = j + 1
    BY <1>2 DEF Once
  <2> QED
    BY <1>2, <2>1
<1>6. Once(s, V) /\ Head(s) \in V => ~Has(t, V)
  BY <1>1, <1>2, <1>3 DEF Has, Once
<1> QED
  BY <1>1, <1>2, <1>3, <1>4, <1>5, <1>6 DEF t

\* A sequence in two parts.
LEMMA OnceParts ==
    ASSUME NEW S, NEW s \in Seq(S), NEW n \in 1..Len(s), NEW V, Once(s, V)
    PROVE  LET front == SubSeq(s, 1, n)
               back == SubSeq(s, n + 1, Len(s))
           IN  /\ front \in Seq(S) /\ back \in Seq(S)
               /\ Once(front, V) /\ Once(back, V)
               /\ Has(front, V) => Has(s, V) /\ ~Has(back, V)
               /\ Has(back, V) => Has(s, V)
<1> DEFINE front == SubSeq(s, 1, n)  back == SubSeq(s, n + 1, Len(s))
<1>1. Len(s) \in Nat /\ n \in Nat /\ n <= Len(s)
  OBVIOUS
<1>2. /\ front \in Seq(S) /\ Len(front) = n
      /\ \A i \in 1..n : front[i] = s[i]
  BY <1>1
<1>3. /\ back \in Seq(S) /\ Len(back) = Len(s) - n
      /\ \A i \in 1..(Len(s) - n) : back[i] = s[n + i]
  BY <1>1
<1> HIDE DEF front, back
<1>4. \A i \in 1..Len(front) : i \in 1..Len(s) /\ front[i] = s[i] /\ i <= n
  BY <1>1, <1>2
<1>5. \A i \in 1..Len(back) : n + i \in 1..Len(s) /\ back[i] = s[n + i] /\ i > 0 /\ i \in Nat
  BY <1>1, <1>3
<1>6. Once(front, V)
  BY <1>4 DEF Once
<1>7. Once(back, V)
  <2> SUFFICES ASSUME NEW i \in 1..Len(back), NEW j \in 1..Len(back),
                      back[i] \in V, back[j] \in V
               PROVE  i = j
    BY DEF Once
  <2>1. n + i = n + j
    BY <1>5 DEF Once
  <2> QED
    BY <1>1, <1>5, <2>1
<1>8. ASSUME Has(front, V), Has(back, V) PROVE FALSE
  <2>1. PICK i \in 1..Len(front) : front[i] \in V
    BY <1>8 DEF Has
  <2>2. PICK j \in 1..Len(back) : back[j] \in V
    BY <1>8 DEF Has
  <2>3. i = n + j
    BY <1>4, <1>5, <2>1, <2>2 DEF Once
  <2> QED
    BY <1>1, <1>4, <1>5, <2>1, <2>2, <2>3
<1>9. (Has(front, V) => Has(s, V)) /\ (Has(back, V) => Has(s, V))
  BY <1>4, <1>5 DEF Has
<1> QED
  BY <1>2, <1>3, <1>6, <1>7, <1>8, <1>9 DEF front, back

LEMMA OnceFew ==
    /\ \A V : ~Has(<<>>, V) /\ Once(<<>>, V)
    /\ \A e : \A V : Once(<<e>>, V) /\ (Has(<<e>>, V) => e \in V)
  BY DEF Has, Once

-----------------------------------------------------------------------------
(* The lists of statements *)

NoNewNick == \A a \in Actors : "NICK" \in M(a)' => "NICK" \in M(a)

LEMMA NickMove ==
    ASSUME Types, NEW a \in Actors, NEW new,
           todo' = [todo EXCEPT ![a] = new],
           "NICK" \in Members(new) => "NICK" \in M(a)
    PROVE  NoNewNick
<1>1. \A b \in Actors : Members(todo'[b]) = IF b = a THEN Members(new) ELSE M(b)
  BY DEF Types, M
<1> QED
  BY <1>1 DEF NoNewNick, M

LEMMA NickTail ==
    ASSUME Types, NEW a \in Actors, todo[a] # <<>>
    PROVE  Tail(todo[a]) \in Seq(Statements) /\ Members(Tail(todo[a])) \subseteq M(a)
<1>1. /\ todo[a] \in Seq(Statements) /\ Tail(todo[a]) \in Seq(Statements)
      /\ \A i \in 1..Len(Tail(todo[a])) :
            i + 1 \in 1..Len(todo[a]) /\ Tail(todo[a])[i] = todo[a][i + 1]
  BY OnceTail DEF Types
<1> QED
  BY <1>1 DEF Members, M

LEMMA NickDo ==
    ASSUME Types, NEW a \in Actors, NEW s, Do(a, s)
    PROVE  NoNewNick
<1>1. todo' = [todo EXCEPT ![a] = Tail(todo[a])] /\ Members(Tail(todo[a])) \subseteq M(a)
  BY NickTail DEF Do
<1> QED
  BY <1>1, NickMove

LEMMA NickBegin ==
    ASSUME Types, NEW a \in Actors, NEW stmts, "NICK" \notin Members(stmts),
           Begin(a, stmts)
    PROVE  NoNewNick
  BY NickMove DEF Begin

LEMMA NickConcat ==
    ASSUME NEW s \in Seq(Statements), NEW t \in Seq(Statements)
    PROVE  Members(s \o t) \subseteq Members(s) \union Members(t)
<1> SUFFICES ASSUME NEW i \in 1..Len(s \o t)
             PROVE  (s \o t)[i] \in Members(s) \union Members(t)
  BY DEF Members
<1>1. /\ Len(s \o t) = Len(s) + Len(t) /\ Len(s) \in Nat /\ Len(t) \in Nat
      /\ \A k \in 1..Len(s) + Len(t) :
           (s \o t)[k] = IF k <= Len(s) THEN s[k] ELSE t[k - Len(s)]
  BY ConcatProperties, LenProperties
<1>2. CASE i <= Len(s)
  BY <1>1, <1>2 DEF Members
<1>3. CASE ~(i <= Len(s))
  <2>1. i - Len(s) \in 1..Len(t)
    BY <1>1, <1>3
  <2> QED
    BY <1>1, <1>3, <2>1 DEF Members
<1> QED
  BY <1>2, <1>3

LEMMA NickCall ==
    ASSUME Types, NEW a \in Actors, NEW s, NEW stmts \in Seq(Statements),
           "NICK" \notin Members(stmts), Call(a, s, stmts)
    PROVE  NoNewNick
<1>1. /\ todo[a] # <<>>
      /\ todo' = [todo EXCEPT ![a] = stmts \o Tail(todo[a])]
  BY DEF Call
<1>2. Members(stmts \o Tail(todo[a])) \subseteq Members(stmts) \union M(a)
  BY <1>1, NickTail, NickConcat
<1> QED
  BY <1>1, <1>2, NickMove

\* The lists that begin without a NICK.
LEMMA NoNickLists ==
    /\ "NICK" \notin Members(<<>>)
    /\ \A x : x # "NICK" => "NICK" \notin Members(<<x>>)
    /\ "NICK" \notin Members(forceClose) /\ "NICK" \notin Members(onConnect)
    /\ "NICK" \notin Members(close("clearMe"))
    /\ "NICK" \notin Members(<<"closeAll", "join">>)
    /\ "NICK" \notin Members(<<"closeSocket", "closedIfClearMe">>)
<1>1. \A x : x # "NICK" => "NICK" \notin Members(<<x>>)
  BY DEF Members
<1> QED
  BY <1>1, MembersOfLists

-----------------------------------------------------------------------------
(* An attempt moves from one place to another, or is given up. *)

Moved(from, to) ==
    \A p \in Places : Attempt(p)' =>
        IF p = to THEN Attempt(to) \/ Attempt(from)
                  ELSE Attempt(p) /\ (p = from => ~Attempt(to)')

LEMMA AttemptsMove ==
    ASSUME Attempts, NEW from \in Places, NEW to \in Places, Moved(from, to),
           NickOwners', Onces', Asked',
           serverNick' = serverNick,
           serverNick # 0 => nickname' = nickname,
           index' = index \/ (Trying /\ (Trying' => index' <= NickCount)),
           connecting' \in {"pending", "ok"} => connecting \in {"pending", "ok"}
    PROVE  Attempts'
<1>1. \A p \in Places : Attempt(p)' => \E q \in Places : Attempt(q)
  BY DEF Moved
<1>2. Trying' => Trying
  BY <1>1 DEF Trying
<1>3. AtMostOne'
  <2> SUFFICES ASSUME NEW p \in Places, NEW q \in Places, Attempt(p)', Attempt(q)'
               PROVE  p = q
    BY DEF AtMostOne
  <2>1. CASE p # to /\ q # to
    BY <2>1 DEF Moved, Attempts, AtMostOne
  <2>2. CASE p = to /\ q # to
    BY <2>2 DEF Moved, Attempts, AtMostOne
  <2>3. CASE p # to /\ q = to
    BY <2>3 DEF Moved, Attempts, AtMostOne
  <2> QED
    BY <2>1, <2>2, <2>3
<1>4. Registered'
  BY <1>2 DEF Attempts, Registered
<1>5. Trying' => index' <= NickCount
  BY <1>2 DEF Attempts
<1>6. connecting' \in {"pending", "ok"} => ~Trying' /\ index' = 1 /\ serverNick' = 0
  BY <1>2 DEF Attempts
<1> QED
  BY <1>3, <1>4, <1>5, <1>6 DEF Attempts

\* A step that is about something else.
LEMMA AttemptsStay ==
    ASSUME Attempts, NoNewNick,
           UNCHANGED <<out, inFlight, chunk, toClient, index, nickname, serverNick>>,
           connecting' \in {"pending", "ok"} => connecting \in {"pending", "ok"}
    PROVE  Attempts'
<1>1. NickOwners' /\ Onces' /\ Asked'
  BY DEF Attempts, NickOwners, NoNewNick, Onces, Once, Asked
<1>2. \A p \in Places : Attempt(p)' => Attempt(p)
  BY DEF Attempt, NoNewNick, Has, Actors
<1>3. Moved("out", "out") /\ "out" \in Places
  BY <1>2 DEF Moved, Places
<1> QED
  BY <1>1, <1>3, AttemptsMove

-----------------------------------------------------------------------------
(* What the variables hold *)

ClientFlags ==
    connectBeginning \in BOOLEAN /\ quitReady \in BOOLEAN /\ clearMe \in BOOLEAN
SocketFlags ==
    /\ connecting \in {"pending", "ok", "err", "over"}
    /\ connected \in BOOLEAN /\ open \in BOOLEAN
InputFlags == reading \in BOOLEAN
OutputFlags == inWrite \in BOOLEAN /\ writeLock \in BOOLEAN
TimerFlags == armed \in BOOLEAN /\ expired \in BOOLEAN
PoolFlags == pooled \in BOOLEAN /\ clientsLock \in BOOLEAN
AppFlags ==
    /\ ended \in BOOLEAN /\ signaled \in BOOLEAN /\ traffic \in 0..MaxTraffic
    /\ stopped \in BOOLEAN /\ joined \in BOOLEAN
GhostFlags == crashed \in BOOLEAN /\ forced \in BOOLEAN /\ deaf \in BOOLEAN
ServerFlags == serverGone \in BOOLEAN

FlagTypes ==
    /\ ClientFlags /\ SocketFlags /\ InputFlags /\ OutputFlags /\ TimerFlags
    /\ PoolFlags /\ AppFlags /\ GhostFlags /\ ServerFlags

DataTypes ==
    /\ chunk \in Seq(ServerMessages) /\ toClient \in Seq(ServerMessages)
    /\ out \in Seq(Messages)
    /\ inFlight \in Seq(Messages) /\ Len(inFlight) <= 1
    /\ index \in 1..NickCount + 1
    /\ nickname \in 0..NickCount /\ serverNick \in 0..NickCount

\* A write is in progress only while inWrite_ is set, and never while somebody
\* holds the lock to reset it.
InFlight ==
    /\ inFlight # <<>> => inWrite
    /\ writeLock => inFlight = <<>>

Naming == IInv /\ Closing /\ FlagTypes /\ DataTypes /\ InFlight /\ Attempts

LEMMA MessageFacts ==
    /\ \A m \in Messages : (m[1] = "NICK" <=> m \in Asks) /\ (m \in Asks => m[2] \in Nicks)
    /\ Asks \subseteq Messages
    /\ \A n \in Nicks : <<"NICK", n>> \in Asks
    /\ \A x \in {"text", "QUIT"} : <<x>> \in Messages /\ <<x>> \notin Asks
<1>1. \A n \in Nicks : <<"NICK", n>> \in Asks
  BY DEF Asks
<1>2. Asks \subseteq Messages
  BY DEF Asks, Messages
<1>3. \A m \in Asks : m[1] = "NICK" /\ m[2] \in Nicks
  BY DEF Asks
<1>4. <<"text">>[1] = "text" /\ <<"QUIT">>[1] = "QUIT"
  OBVIOUS
<1>5. \A m \in Messages : m \in Asks \/ m[1] \in {"text", "QUIT"}
  BY <1>4 DEF Messages, Asks
<1>6. \A x \in {"text", "QUIT"} : <<x>> \in Messages /\ <<x>> \notin Asks
  BY <1>3, <1>4 DEF Messages
<1> QED
  BY <1>1, <1>2, <1>3, <1>5, <1>6

-----------------------------------------------------------------------------
(* The queue *)

LEMMA QueuesOther ==
    ASSUME Naming, NEW a \in Actors, NEW x \in {"text", "QUIT"},
           sendMessage(a, x, <<x>>),
           UNCHANGED <<chunk, toClient, index, nickname, serverNick, connecting>>
    PROVE  DataTypes' /\ InFlight' /\ Attempts'
<1>1. NoNewNick
  <2>1. <<"write">> \in Seq(Statements) /\ "NICK" \notin Members(<<"write">>)
    BY NoNickLists DEF Statements
  <2>2. Types /\ Call(a, x, <<"write">>)
    BY DEF Naming, IInv, sendMessage
  <2> DEFINE w == <<"write">>
  <2> HIDE DEF w
  <2>3. w \in Seq(Statements) /\ "NICK" \notin Members(w) /\ Call(a, x, w)
    BY <2>1, <2>2 DEF w
  <2> QED
    BY <2>2, <2>3, NickCall
<1>2. PICK m : m = <<x>>
  OBVIOUS
<1>3. m \in Messages /\ m \notin Asks /\ out \in Seq(Messages)
  BY <1>2, MessageFacts DEF Naming, DataTypes
<1>4. out' = Append(out, m) /\ UNCHANGED <<inFlight, inWrite, writeLock>>
  BY <1>2 DEF sendMessage
<1>5. DataTypes' /\ InFlight'
  BY <1>3, <1>4 DEF Naming, DataTypes, InFlight
<1>6. /\ Has(Append(out, m), Asks) => Has(out, Asks)
      /\ Once(out, Asks) => Once(Append(out, m), Asks)
      /\ \A i \in 1..Len(Append(out, m)) :
            Append(out, m)[i] = m \/ (i \in 1..Len(out) /\ Append(out, m)[i] = out[i])
  BY <1>3, OnceAppend
<1>7. NickOwners' /\ Onces' /\ Asked'
  <2>1. NickOwners'
    BY <1>1 DEF Naming, Attempts, NickOwners, NoNewNick
  <2>2. Onces'
    BY <1>4, <1>6 DEF Naming, Attempts, Onces, Once
  <2>3. Asked'
    BY <1>3, <1>4, <1>6 DEF Naming, Attempts, Asked
  <2> QED
    BY <2>1, <2>2, <2>3
<1>8. \A p \in Places : Attempt(p)' => Attempt(p)
  <2>1. Has(out, Asks)' => Has(out, Asks)
    BY <1>4, <1>6 DEF Has
  <2> QED
    BY <1>1, <1>4, <2>1 DEF Attempt, NoNewNick, Has, Actors
<1>9. Moved("out", "out") /\ "out" \in Places
  BY <1>8 DEF Moved, Places
<1> QED
  BY <1>5, <1>7, <1>9, AttemptsMove DEF Naming

LEMMA QueuesNick ==
    ASSUME Naming, NEW a \in Actors, Nick(a)
    PROVE  DataTypes' /\ InFlight' /\ Attempts'
<1>1. /\ nickname' = Candidate(a)
      /\ Call(a, "NICK", <<"write">>) /\ out' = Append(out, <<"NICK", Candidate(a)>>)
      /\ UNCHANGED <<inFlight, inWrite, writeLock, index, connecting, chunk,
                     toClient, serverNick>>
  BY DEF Nick, sendMessage, socket, input, server
<1>2. "NICK" \in M(a) /\ a \in {"connect", "reader"} /\ a \in Places /\ Attempt(a)
  <2>1. todo[a] \in Seq(Statements) /\ todo[a] # <<>> /\ Head(todo[a]) = "NICK"
    BY <1>1 DEF Naming, IInv, Types, Call
  <2>2. "NICK" \in M(a)
    BY <2>1, OnceTail DEF M, Members
  <2> QED
    BY <2>2 DEF Naming, Attempts, NickOwners, Attempt, Places
<1>3. /\ Trying /\ index <= NickCount /\ serverNick = 0
      /\ connecting \notin {"pending", "ok"}
      /\ \A p \in Places : Attempt(p) => p = a
  BY <1>2 DEF Naming, Attempts, AtMostOne, Registered, Trying
<1>4. PICK n : n = Candidate(a)
  OBVIOUS
<1>5. n \in Nicks /\ <<"NICK", n>> \in Messages /\ <<"NICK", n>> \in Asks
  <2>1. n \in Nicks
    BY <1>3, <1>4, NickAssumption DEF Candidate, Nicks, Naming, DataTypes
  <2> QED
    BY <2>1, MessageFacts
<1>6. PICK m : m = <<"NICK", n>>
  OBVIOUS
<1>7. /\ m \in Messages /\ m \in Asks /\ m[2] = n /\ out \in Seq(Messages)
      /\ out' = Append(out, m) /\ nickname' = n
  BY <1>1, <1>4, <1>5, <1>6 DEF Naming, DataTypes
<1>8. DataTypes' /\ InFlight'
  BY <1>1, <1>5, <1>7 DEF Naming, DataTypes, InFlight, Nicks
<1>9. ~Has(out, Asks) /\ ~Has(inFlight, Asks)
  BY <1>2, <1>3 DEF Attempt, Places
<1>10. /\ Once(Append(out, m), Asks)
       /\ \A i \in 1..Len(Append(out, m)) :
            Append(out, m)[i] = m \/ (i \in 1..Len(out) /\ Append(out, m)[i] = out[i])
  BY <1>7, <1>9, OnceAppend DEF Naming, Attempts, Onces
<1>11. NoNewNick /\ "NICK" \notin M(a)'
  <2>1. Types /\ Order
    BY DEF Naming, Closing
  <2> DEFINE w == <<"write">>
  <2>2. /\ w \in Seq(Statements) /\ Members(w) = {"write"} /\ Ordered(w)
        /\ Call(a, "NICK", w)
    BY <1>1, MembersOfLists DEF Statements
  <2>3. \A y : Follows("write", y)
    BY DEF Follows
  <2> HIDE DEF w
  <2>4. NoNewNick
    BY <2>1, <2>2, NickCall
  <2>5. /\ Members(todo'[a]) = Members(w) \union Members(Tail(todo[a]))
        /\ \A y \in Members(Tail(todo[a])) : Follows("NICK", y)
    BY <2>1, <2>2, <2>3, CallLists
  <2>6. "NICK" \notin Members(todo'[a])
    BY <2>2, <2>5 DEF Follows
  <2> QED
    BY <2>4, <2>6 DEF M
<1>12. NickOwners' /\ Onces' /\ Asked'
  <2>1. NickOwners'
    BY <1>11 DEF Naming, Attempts, NickOwners, NoNewNick
  <2>2. Onces'
    BY <1>1, <1>7, <1>10 DEF Naming, Attempts, Onces, Once
  <2>3. Asked'
    BY <1>1, <1>7, <1>9, <1>10 DEF Asked, Has
  <2> QED
    BY <2>1, <2>2, <2>3
<1>13. Moved(a, "out") /\ "out" \in Places
  <2>1. \A p \in Places : Attempt(p)' => p = "out" \/ (Attempt(p) /\ p # a)
    BY <1>1, <1>2, <1>11 DEF Attempt, NoNewNick, Has, Actors
  <2> QED
    BY <1>2, <2>1 DEF Moved, Places
<1> QED
  BY <1>1, <1>2, <1>3, <1>8, <1>12, <1>13, AttemptsMove DEF Naming

\* The front of the queue goes to the socket; inWrite_ is reset when nothing is
\* there.
LEMMA QueuesWrite ==
    ASSUME Naming, NEW a \in Actors, Write(a)
    PROVE  DataTypes' /\ InFlight' /\ Attempts'
<1>1. /\ UNCHANGED <<chunk, toClient, index, nickname, serverNick, connecting>>
      /\ Types
  BY DEF Write, client, socket, input, server, Naming, IInv
<1>2. NoNewNick
  <2>1. CASE Do(a, "write") \/ Do(a, "unset")
    BY <1>1, <2>1, NickDo
  <2>2. CASE Call(a, "write", <<"unset">>)
    <3> DEFINE u == <<"unset">>
    <3>1. u \in Seq(Statements) /\ "NICK" \notin Members(u) /\ Call(a, "write", u)
      BY <2>2, NoNickLists DEF Statements
    <3> HIDE DEF u
    <3> QED
      BY <1>1, <3>1, NickCall
  <2> QED
    BY <2>1, <2>2 DEF Write, WriteBusy, WriteFront, WriteNothing, Unset
<1>3. NickOwners'
  BY <1>2 DEF Naming, Attempts, NickOwners, NoNewNick
<1>4. ASSUME UNCHANGED <<out, inFlight>>,
             inWrite' \/ inFlight = <<>>,
             writeLock' => inFlight = <<>>
      PROVE  DataTypes' /\ InFlight' /\ Attempts'
  <2>1. DataTypes' /\ InFlight'
    BY <1>1, <1>4 DEF Naming, DataTypes, InFlight
  <2> QED
    BY <1>1, <1>2, <1>4, <2>1, AttemptsStay DEF Naming
<1>5. CASE WriteBusy(a)
  BY <1>4, <1>5 DEF WriteBusy, output, Naming, InFlight
<1>6. CASE WriteNothing(a)
  BY <1>4, <1>6 DEF WriteNothing, Naming, InFlight
<1>7. CASE Unset(a)
  <2>1. todo[a] # <<>> /\ Head(todo[a]) = "unset"
    BY <1>7 DEF Unset, Do
  <2>2. inFlight = <<>>
    BY <2>1 DEF Naming, IInv, UnsetLocked, InFlight
  <2> QED
    BY <1>4, <1>7, <2>2 DEF Unset
<1>8. CASE WriteFront(a)
  <2>1. /\ inFlight = <<>> /\ out # <<>> /\ out \in Seq(Messages)
        /\ inFlight' = <<Head(out)>> /\ out' = Tail(out) /\ inWrite' /\ ~writeLock'
    BY <1>8 DEF WriteFront, Naming, InFlight, DataTypes
  <2>2. PICK m : m = Head(out)
    OBVIOUS
  <2>3. /\ Tail(out) \in Seq(Messages) /\ m \in Messages
        /\ m = out[1] /\ 1 \in 1..Len(out)
        /\ Has(Tail(out), Asks) => Has(out, Asks)
        /\ Once(out, Asks) => Once(Tail(out), Asks)
        /\ Once(out, Asks) /\ m \in Asks => ~Has(Tail(out), Asks)
        /\ \A i \in 1..Len(Tail(out)) : i + 1 \in 1..Len(out) /\ Tail(out)[i] = out[i + 1]
    BY <2>1, <2>2, OnceTail
  <2>4. inFlight' = <<m>>
    BY <2>1, <2>2
  <2>5. DataTypes' /\ InFlight'
    BY <1>1, <2>1, <2>3, <2>4 DEF Naming, DataTypes, InFlight
  <2>6. Onces' /\ Asked'
    <3>1. Onces'
      BY <1>1, <2>1, <2>3 DEF Naming, Attempts, Onces, Once
    <3>2. \A i \in 1..Len(out') : out'[i] \in Asks => out'[i][2] = nickname'
      BY <1>1, <2>1, <2>3 DEF Naming, Attempts, Asked
    <3>3. \A i \in 1..Len(inFlight') : inFlight'[i] \in Asks => inFlight'[i][2] = nickname'
      BY <1>1, <2>3, <2>4 DEF Naming, Attempts, Asked
    <3> QED
      BY <3>1, <3>2, <3>3 DEF Asked
  <2>7. Moved("out", "inFlight") /\ "out" \in Places /\ "inFlight" \in Places
    <3>1. Has(inFlight, Asks)' => m \in Asks
      BY <2>4 DEF Has
    <3>2. m \in Asks => Has(out, Asks)
      BY <2>3 DEF Has
    <3>3. Has(out, Asks)' => Has(out, Asks) /\ m \notin Asks
      BY <2>1, <2>3 DEF Has, Naming, Attempts, Onces
    <3>4. \A p \in Places : Attempt(p)' =>
             \/ p = "inFlight" /\ Attempt("out")
             \/ Attempt(p) /\ p \notin {"out", "inFlight"}
             \/ p = "out" /\ Attempt("out") /\ ~Attempt("inFlight")'
      BY <1>1, <1>2, <3>1, <3>2, <3>3 DEF Attempt, NoNewNick, Has, Actors
    <3> QED
      BY <3>4 DEF Moved, Places
  <2> QED
    BY <1>1, <1>3, <2>5, <2>6, <2>7, AttemptsMove DEF Naming
<1> QED
  BY <1>5, <1>6, <1>7, <1>8 DEF Write

\* The message of the socket write, and whether it is a NICK.
LEMMA InFlightIs ==
    ASSUME Naming, inFlight # <<>>
    PROVE  /\ Head(inFlight) \in Messages
           /\ inFlight[1] = Head(inFlight) /\ 1 \in 1..Len(inFlight)
           /\ Head(inFlight)[1] = "NICK" <=> Head(inFlight) \in Asks
           /\ Head(inFlight) \in Asks =>
                /\ Has(inFlight, Asks) /\ Attempt("inFlight") /\ Trying
                /\ Head(inFlight)[2] = nickname /\ nickname \in Nicks
           /\ ~writeLock
<1>1. inFlight \in Seq(Messages)
  BY DEF Naming, DataTypes
<1>2. /\ Head(inFlight) \in Messages
      /\ inFlight[1] = Head(inFlight) /\ 1 \in 1..Len(inFlight)
  BY <1>1, OnceTail
<1>3. PICK m : m = Head(inFlight)
  OBVIOUS
<1>4. /\ m[1] = "NICK" <=> m \in Asks
      /\ m \in Asks => m[2] \in Nicks
  BY <1>2, <1>3, MessageFacts
<1>5. m \in Asks => /\ Has(inFlight, Asks) /\ Attempt("inFlight") /\ Trying
                    /\ m[2] = nickname
  BY <1>2, <1>3 DEF Has, Attempt, Trying, Places, Naming, Attempts, Asked
<1>6. ~writeLock
  BY DEF Naming, InFlight
<1> QED
  BY <1>2, <1>3, <1>4, <1>5, <1>6

LEMMA QueuesWriteFails ==
    ASSUME Naming, WriteFails
    PROVE  DataTypes' /\ InFlight' /\ Attempts'
<1>1. /\ inFlight' = <<>>
      /\ UNCHANGED <<out, writeLock, chunk, toClient, index, nickname, serverNick,
                     connecting>>
  BY DEF WriteFails, client, socket, input, server
<1>2. NoNewNick
  <2> DEFINE new == IF quitReady THEN <<>> ELSE forceClose
  <2>1. "NICK" \notin Members(new)
    BY NoNickLists
  <2>2. Begin("writer", new)
    BY DEF WriteFails
  <2>3. "writer" \in Actors /\ Types
    BY DEF Actors, Naming, IInv
  <2> HIDE DEF new
  <2> QED
    BY <2>1, <2>2, <2>3, NickBegin
<1>3. DataTypes' /\ InFlight'
  BY <1>1 DEF Naming, DataTypes, InFlight
<1>4. NickOwners' /\ Onces' /\ Asked'
  BY <1>1, <1>2 DEF Naming, Attempts, NickOwners, NoNewNick, Onces, Once, Asked
<1>5. Moved("out", "out") /\ "out" \in Places
  <2>1. ~Has(inFlight, Asks)'
    BY <1>1 DEF Has
  <2>2. \A p \in Places : Attempt(p)' => Attempt(p)
    BY <1>1, <1>2, <2>1 DEF Attempt, NoNewNick, Has, Actors
  <2> QED
    BY <2>2 DEF Moved, Places
<1> QED
  BY <1>1, <1>3, <1>4, <1>5, AttemptsMove DEF Naming

\* The server registers the nickname that is asked for, refuses it, or the
\* message was another one.
LEMMA QueuesWriteDone ==
    ASSUME Naming, WriteDone
    PROVE  DataTypes' /\ InFlight' /\ Attempts'
<1>1. /\ inFlight # <<>> /\ inFlight' = <<>> /\ inWrite' = FALSE
      /\ UNCHANGED <<out, writeLock, chunk, index, nickname, connecting>>
  BY DEF WriteDone, client, socket, input
<1>2. PICK m : m = Head(inFlight)
  OBVIOUS
<1>3. /\ m \in Messages /\ (m[1] = "NICK" <=> m \in Asks)
      /\ m \in Asks => /\ Has(inFlight, Asks) /\ Attempt("inFlight") /\ Trying
                       /\ m[2] = nickname /\ nickname \in Nicks
  BY <1>1, <1>2, InFlightIs
<1>4. \/ /\ m \in Asks /\ serverNick = 0
         /\ toClient' = Append(toClient, "001") /\ serverNick' = m[2]
      \/ /\ m \in Asks /\ serverNick = 0
         /\ toClient' = Append(toClient, "433") /\ serverNick' = serverNick
      \/ toClient' = Append(toClient, "ERROR") /\ serverNick' = serverNick
      \/ toClient' = toClient /\ serverNick' = serverNick
  BY <1>2, <1>3 DEF WriteDone
<1>5. NoNewNick
  <2>1. "NICK" \notin Members(<<"write">>) /\ "writer" \in Actors /\ Types
    BY NoNickLists DEF Actors, Naming, IInv
  <2> DEFINE w == <<"write">>
  <2>2. Begin("writer", w)
    BY DEF WriteDone
  <2> HIDE DEF w
  <2> QED
    BY <2>1, <2>2, NickBegin DEF w
<1>6. /\ toClient \in Seq(ServerMessages)
      /\ {"001", "433", "ERROR"} \subseteq ServerMessages
  BY DEF Naming, DataTypes, ServerMessages
<1>7. DataTypes' /\ InFlight'
  <2>1. toClient' \in Seq(ServerMessages)
    BY <1>4, <1>6
  <2>2. serverNick' \in 0..NickCount
    BY <1>3, <1>4 DEF Naming, DataTypes, Nicks
  <2> QED
    BY <1>1, <2>1, <2>2 DEF Naming, DataTypes, InFlight
<1>8. NickOwners' /\ Asked'
  BY <1>1, <1>5 DEF Naming, Attempts, NickOwners, NoNewNick, Asked
<1>9. ~Has(inFlight, Asks)'
  BY <1>1 DEF Has
<1>10. ASSUME NEW x \in {"001", "ERROR"}, toClient' = Append(toClient, x) \/ toClient' = toClient
       PROVE  /\ Has(toClient, {"433"})' => Has(toClient, {"433"})
              /\ Onces'
  <2>1. /\ Has(Append(toClient, x), {"433"}) => Has(toClient, {"433"})
        /\ Once(toClient, {"433"}) => Once(Append(toClient, x), {"433"})
    BY <1>6, <1>10, OnceAppend
  <2>2. Once(toClient, {"433"})
    BY DEF Naming, Attempts, Onces
  <2>3. Once(toClient, {"433"})' /\ (Has(toClient, {"433"})' => Has(toClient, {"433"}))
    BY <1>10, <2>1, <2>2 DEF Once, Has
  <2> QED
    BY <1>1, <2>3 DEF Naming, Attempts, Onces, Once
<1>11. ASSUME ~Has(toClient, {"433"}), toClient' = Append(toClient, "433")
       PROVE  Onces'
  <2>1. Once(Append(toClient, "433"), {"433"})
    BY <1>6, <1>11, OnceAppend DEF Naming, Attempts, Onces
  <2> QED
    BY <1>1, <1>11, <2>1 DEF Naming, Attempts, Onces, Once
<1>12. CASE m \in Asks
  <2>1. /\ \A p \in Places : Attempt(p) => p = "inFlight"
        /\ ~Has(toClient, {"433"}) /\ serverNick = 0 /\ connecting \notin {"pending", "ok"}
    BY <1>3, <1>12 DEF Naming, Attempts, AtMostOne, Registered, Places, Attempt
  <2>2. CASE toClient' = Append(toClient, "433") /\ serverNick' = serverNick
    <3>1. Onces'
      BY <1>11, <2>1, <2>2
    <3>2. \A p \in Places : Attempt(p)' => p = "toClient"
      BY <1>1, <1>5, <1>9, <2>1 DEF Attempt, NoNewNick, Has, Actors, Places
    <3>3. Moved("inFlight", "toClient") /\ {"inFlight", "toClient"} \subseteq Places
      BY <1>3, <1>12, <3>2 DEF Moved, Places
    <3> QED
      BY <1>1, <1>7, <1>8, <2>2, <3>1, <3>3, AttemptsMove DEF Naming
  <2>3. CASE ~(toClient' = Append(toClient, "433") /\ serverNick' = serverNick)
    <3>1. Onces' /\ ~Has(toClient, {"433"})'
      BY <1>4, <1>10, <2>1, <2>3
    <3>2. \A p \in Places : ~Attempt(p)'
      BY <1>1, <1>5, <1>9, <2>1, <3>1 DEF Attempt, NoNewNick, Has, Actors, Places
    <3>3. ~Trying' /\ AtMostOne'
      BY <3>2 DEF Trying, AtMostOne
    <3>4. serverNick' # 0 => nickname' = serverNick'
      BY <1>1, <1>3, <1>4, <1>12, <2>1
    <3>5. Attempts'
      BY <1>1, <1>8, <2>1, <3>1, <3>3, <3>4 DEF Attempts, Registered
    <3> QED
      BY <1>7, <3>5
  <2> QED
    BY <2>2, <2>3
<1>13. CASE m \notin Asks
  <2>1. /\ serverNick' = serverNick /\ Onces'
        /\ Has(toClient, {"433"})' => Has(toClient, {"433"})
    BY <1>4, <1>10, <1>13
  <2>2. \A p \in Places : Attempt(p)' => Attempt(p)
    BY <1>1, <1>5, <1>9, <2>1 DEF Attempt, NoNewNick, Has, Actors
  <2>3. Moved("out", "out") /\ "out" \in Places
    BY <2>2 DEF Moved, Places
  <2> QED
    BY <1>1, <1>7, <1>8, <2>1, <2>3, AttemptsMove DEF Naming
<1> QED
  BY <1>12, <1>13

-----------------------------------------------------------------------------
(* The server's messages *)

LEMMA ReadsData ==
    ASSUME Naming, NEW n \in 1..Len(toClient), ReadData(n)
    PROVE  DataTypes' /\ InFlight' /\ Attempts'
<1>1. UNCHANGED <<out, inFlight, inWrite, writeLock, index, nickname, serverNick,
                  connecting>>
  BY DEF ReadData, output, client, socket
<1>2. NoNewNick
  <2> DEFINE w == <<"next">>
  <2>1. "NICK" \notin Members(w) /\ Begin("reader", w)
    BY NoNickLists DEF ReadData
  <2> HIDE DEF w
  <2> QED
    BY <2>1, NickBegin DEF Actors, Naming, IInv
<1>3. PICK front, back : /\ front = SubSeq(toClient, 1, n)
                         /\ back = SubSeq(toClient, n + 1, Len(toClient))
  OBVIOUS
<1>4. chunk' = front /\ toClient' = back
  BY <1>3 DEF ReadData
<1>5. /\ front \in Seq(ServerMessages) /\ back \in Seq(ServerMessages)
      /\ Once(front, {"433"}) /\ Once(back, {"433"})
      /\ Has(front, {"433"}) => Has(toClient, {"433"}) /\ ~Has(back, {"433"})
      /\ Has(back, {"433"}) => Has(toClient, {"433"})
  <2>1. toClient \in Seq(ServerMessages) /\ Once(toClient, {"433"})
    BY DEF Naming, DataTypes, Attempts, Onces
  <2> QED
    BY <1>3, <2>1, OnceParts
<1>6. DataTypes' /\ InFlight'
  BY <1>1, <1>4, <1>5 DEF Naming, DataTypes, InFlight
<1>7. NickOwners' /\ Onces' /\ Asked'
  <2>1. NickOwners'
    BY <1>2 DEF Naming, Attempts, NickOwners, NoNewNick
  <2>2. Onces'
    BY <1>1, <1>4, <1>5 DEF Naming, Attempts, Onces, Once
  <2>3. Asked'
    BY <1>1 DEF Naming, Attempts, Asked
  <2> QED
    BY <2>1, <2>2, <2>3
<1>8. Moved("toClient", "chunk") /\ {"toClient", "chunk"} \subseteq Places
  <2>1. /\ Has(chunk, {"433"})' => Has(toClient, {"433"}) /\ ~Has(toClient, {"433"})'
        /\ Has(toClient, {"433"})' => Has(toClient, {"433"})
    BY <1>4, <1>5 DEF Has
  <2>2. \A p \in Places : Attempt(p)' =>
           \/ p = "chunk" /\ Attempt("toClient")
           \/ p = "toClient" /\ Attempt("toClient") /\ ~Attempt("chunk")'
           \/ p \notin {"chunk", "toClient"} /\ Attempt(p)
    BY <1>1, <1>2, <2>1 DEF Attempt, NoNewNick, Has, Actors
  <2> QED
    BY <2>2 DEF Moved, Places
<1> QED
  BY <1>1, <1>6, <1>7, <1>8, AttemptsMove DEF Naming

\* A refusal makes the reader ask for the next nickname, if there is one.
LEMMA HandleNick ==
    ASSUME NEW m, index \in Nat, "NICK" \in Members(Handle(m))
    PROVE  m = "433" /\ connectBeginning /\ index + 1 <= NickCount
<1>1. \/ Handle(m) \in {<<>>, <<"text">>, onConnect, close("clearMe")}
      \/ Handle(m) = <<"closeSocket", "closedIfClearMe">>
      \/ /\ m = "433" /\ connectBeginning /\ ~(index + 1 > NickCount)
         /\ Handle(m) = <<"NICK">>
  BY Zenon DEF Handle, tryNextNickname
<1>2. \/ m = "433" /\ connectBeginning /\ ~(index + 1 > NickCount)
  <2>1. "NICK" \notin Members(<<"text">>)
    BY NoNickLists
  <2> QED
    BY <1>1, <2>1, NoNickLists
<1> QED
  BY <1>2, NickAssumption

LEMMA ProcessesMessage ==
    ASSUME Naming, NEW end, ProcMessage(end)
    PROVE  DataTypes' /\ InFlight' /\ Attempts'
<1>1. /\ UNCHANGED <<out, inFlight, inWrite, writeLock, toClient, nickname,
                     serverNick, connecting>>
      /\ chunk # <<>> /\ chunk \in Seq(ServerMessages)
      /\ Types /\ "reader" \in Actors
  BY DEF ProcMessage, output, server, socket, Naming, DataTypes, IInv, Actors
<1>2. PICK m : m = Head(chunk)
  OBVIOUS
<1> DEFINE new == Handle(m) \o After(end)
<1>3. /\ todo' = [todo EXCEPT !["reader"] = new]
      /\ end \in Outcomes(m)
      /\ chunk' = IF end = "next" THEN Tail(chunk) ELSE <<>>
      /\ index' = IF m = "433" /\ connectBeginning THEN index + 1 ELSE index
  BY <1>2 DEF ProcMessage
<1>4. /\ Tail(chunk) \in Seq(ServerMessages) /\ m = chunk[1] /\ 1 \in 1..Len(chunk)
      /\ Has(Tail(chunk), {"433"}) => Has(chunk, {"433"})
      /\ Once(Tail(chunk), {"433"})
      /\ m = "433" => Has(chunk, {"433"}) /\ ~Has(Tail(chunk), {"433"})
  <2>1. Once(chunk, {"433"})
    BY DEF Naming, Attempts, Onces
  <2> QED
    BY <1>1, <1>2, <2>1, OnceTail DEF Has
<1>5. ASSUME "NICK" \in Members(new)
      PROVE  m = "433" /\ connectBeginning /\ index + 1 <= NickCount
  <2> DEFINE h == Handle(m)  after == After(end)
  <2>1. /\ h \in Seq(Statements)
        /\ after \in Seq(Statements)
    <3>1. /\ forceClose \in Seq(Statements) /\ <<"next">> \in Seq(Statements)
          /\ <<>> \in Seq(Statements)
      BY DEF forceClose, Statements
    <3>2. after \in {forceClose, <<"next">>, <<>>}
      BY Zenon DEF After
    <3> HIDE DEF after
    <3>3. after \in Seq(Statements)
      BY <3>1, <3>2
    <3>4. h \in Seq(Statements)
      BY HandleMembers
    <3> QED
      BY <3>3, <3>4
  <2>2. "NICK" \notin Members(after)
    BY NoNickLists DEF After
  <2> HIDE DEF h, after
  <2>3. "NICK" \in Members(h)
    BY <1>5, <2>1, <2>2, NickConcat DEF h, after
  <2> QED
    BY <2>3, HandleNick DEF h, Naming, DataTypes
<1> HIDE DEF new
<1>6. /\ chunk' \in Seq(ServerMessages)
      /\ Once(chunk, {"433"})'
      /\ Has(chunk, {"433"})' => Has(chunk, {"433"}) /\ m # "433"
  <2>1. CASE end # "next"
    <3>1. chunk' = <<>>
      BY <1>3, <2>1
    <3> QED
      BY <3>1 DEF Once, Has
  <2>2. CASE end = "next"
    <3>1. chunk' = Tail(chunk)
      BY <1>3, <2>2
    <3> QED
      BY <1>4, <3>1 DEF Once, Has
  <2> QED
    BY <2>1, <2>2
<1>7. \A b \in Actors : M(b)' = IF b = "reader" THEN Members(new) ELSE M(b)
  BY <1>1, <1>3 DEF Types, M
<1>8. NickOwners' /\ Onces' /\ Asked'
  <2>1. NickOwners'
    BY <1>7 DEF Naming, Attempts, NickOwners
  <2>2. Onces'
    BY <1>1, <1>6 DEF Naming, Attempts, Onces, Once
  <2>3. Asked'
    BY <1>1 DEF Naming, Attempts, Asked
  <2> QED
    BY <2>1, <2>2, <2>3
<1>9. CASE m = "433" /\ connectBeginning
  <2>1. /\ Attempt("chunk") /\ Trying /\ index <= NickCount
        /\ \A p \in Places : Attempt(p) => p = "chunk"
    BY <1>4, <1>9 DEF Attempt, Trying, Places, Naming, Attempts, AtMostOne
  <2>2. index' = index + 1
    BY <1>3, <1>9
  <2>3. DataTypes' /\ InFlight'
    BY <1>1, <1>6, <2>1, <2>2, NickAssumption DEF Naming, DataTypes, InFlight
  <2>4. ~Has(chunk, {"433"})'
    BY <1>6, <1>9
  <2>5. \A p \in Places : Attempt(p)' => p = "reader" /\ "NICK" \in Members(new)
    BY <1>1, <1>7, <2>1, <2>4 DEF Attempt, Has, Actors, Places
  <2>6. Moved("chunk", "reader") /\ {"chunk", "reader"} \subseteq Places
    BY <2>1, <2>5 DEF Moved, Places
  <2>7. Trying' => index' <= NickCount
    BY <1>5, <2>2, <2>5 DEF Trying
  <2> QED
    BY <1>1, <1>8, <2>1, <2>3, <2>6, <2>7, AttemptsMove DEF Naming
<1>10. CASE ~(m = "433" /\ connectBeginning)
  <2>1. index' = index
    BY <1>3, <1>10
  <2>2. DataTypes' /\ InFlight'
    BY <1>1, <1>6, <2>1 DEF Naming, DataTypes, InFlight
  <2>3. "NICK" \notin Members(new)
    BY <1>5, <1>10
  <2>4. \A p \in Places : Attempt(p)' => Attempt(p)
    BY <1>1, <1>6, <1>7, <2>3 DEF Attempt, Has, Actors, Places
  <2>5. Moved("out", "out") /\ "out" \in Places
    BY <2>4 DEF Moved, Places
  <2> QED
    BY <1>1, <1>8, <2>1, <2>2, <2>5, AttemptsMove DEF Naming
<1> QED
  BY <1>9, <1>10

\* Connecting begins the first attempt.
LEMMA ConnectsFirst ==
    ASSUME Naming, Connected
    PROVE  DataTypes' /\ InFlight' /\ Attempts'
<1>1. /\ UNCHANGED <<out, inFlight, inWrite, writeLock, chunk, toClient, index,
                     nickname, serverNick>>
      /\ connecting = "ok" /\ connecting' = "over" /\ Types
  BY DEF Connected, output, input, server, Naming, IInv
<1>2. ~Trying /\ index = 1 /\ serverNick = 0
  BY <1>1 DEF Naming, Attempts
<1> DEFINE new == <<"text", "NICK", "read">>
<1>3. todo' = [todo EXCEPT !["connect"] = new]
  BY DEF Connected, Begin
<1> HIDE DEF new
<1>4. \A b \in Actors \ {"connect"} : M(b)' = M(b)
  BY <1>1, <1>3 DEF Types, M
<1>5. DataTypes' /\ InFlight'
  BY <1>1 DEF Naming, DataTypes, InFlight
<1>6. NickOwners' /\ Onces' /\ Asked'
  BY <1>1, <1>4 DEF Naming, Attempts, NickOwners, Onces, Once, Asked
<1>7. \A p \in Places : Attempt(p)' => p = "connect"
  BY <1>1, <1>2, <1>4 DEF Trying, Attempt, Has, Actors, Places
<1>8. AtMostOne' /\ Registered' /\ index' <= NickCount
  BY <1>1, <1>2, <1>7, NickAssumption DEF AtMostOne, Registered
<1> QED
  BY <1>1, <1>5, <1>6, <1>8 DEF Attempts

\* What the server sends unasked refuses nothing.
LEMMA ServerAdds ==
    ASSUME Naming, NEW s, s = toClient \/ \E x \in ServerMessages \ {"433"} : s = Append(toClient, x),
           toClient' = s,
           UNCHANGED <<todo, out, inFlight, inWrite, writeLock, chunk, index,
                       nickname, serverNick, connecting>>
    PROVE  DataTypes' /\ InFlight' /\ Attempts'
<1>1. toClient \in Seq(ServerMessages) /\ Once(toClient, {"433"})
  BY DEF Naming, DataTypes, Attempts, Onces
<1>2. /\ s \in Seq(ServerMessages) /\ Once(s, {"433"})
      /\ Has(s, {"433"}) => Has(toClient, {"433"})
  <2>1. ASSUME NEW x \in ServerMessages \ {"433"}, s = Append(toClient, x)
        PROVE  /\ s \in Seq(ServerMessages) /\ Once(s, {"433"})
               /\ Has(s, {"433"}) => Has(toClient, {"433"})
    BY <1>1, <2>1, OnceAppend
  <2> QED
    BY <1>1, <2>1
<1>3. DataTypes' /\ InFlight'
  BY <1>2 DEF Naming, DataTypes, InFlight
<1>4. NickOwners' /\ Onces' /\ Asked'
  BY <1>2 DEF Naming, Attempts, NickOwners, M, Onces, Once, Asked
<1>5. Has(toClient, {"433"})' => Has(toClient, {"433"})
  BY <1>2 DEF Has
<1>6. \A p \in Places : Attempt(p)' => Attempt(p)
  BY <1>5 DEF Attempt, M, Has
<1>7. Moved("out", "out") /\ "out" \in Places
  BY <1>6 DEF Moved, Places
<1> QED
  BY <1>3, <1>4, <1>7, AttemptsMove DEF Naming

LEMMA ServerSendsMore ==
    ASSUME Naming, NEW m \in {"PING", "bad", "ERROR"}, ServerSends(m)
    PROVE  DataTypes' /\ InFlight' /\ Attempts'
<1>1. m \in ServerMessages \ {"433"}
  BY DEF ServerMessages
<1> QED
  BY <1>1, ServerAdds DEF ServerSends, output, client, input, socket

LEMMA ServerClosesLast ==
    ASSUME Naming, ServerCloses
    PROVE  DataTypes' /\ InFlight' /\ Attempts'
<1>1. PICK s : s = toClient
  OBVIOUS
<1> QED
  BY <1>1, ServerAdds DEF ServerCloses, output, client, input, socket

-----------------------------------------------------------------------------
(* The other steps *)

\* Neither a message nor a nickname is touched.
Unnamed == <<chunk, toClient, out, inFlight, inWrite, writeLock, index, nickname,
             serverNick>>

LEMMA UnnamedStep ==
    ASSUME Naming, NoNewNick, UNCHANGED Unnamed,
           connecting' \in {"pending", "ok"} => connecting \in {"pending", "ok"}
    PROVE  DataTypes' /\ InFlight' /\ Attempts'
<1>1. DataTypes' /\ InFlight'
  BY DEF Unnamed, Naming, DataTypes, InFlight
<1> QED
  BY <1>1, AttemptsStay DEF Unnamed, Naming

LEMMA CloseAllNick ==
    ASSUME Naming, NEW a \in Actors, CloseAll(a)
    PROVE  NoNewNick
<1>1. /\ Members(todo[a]) = {"closeAll"} \union Members(Tail(todo[a]))
      /\ Members(todo'[a]) = Begun \union {"clear"} \union Members(Tail(todo[a]))
      /\ \A b \in Actors \ {a} : Members(todo'[b]) = Members(todo[b])
  BY CloseAllLists DEF Naming
<1>2. "NICK" \notin Begun
  BY DEF Begun
<1> QED
  BY <1>1, <1>2 DEF NoNewNick, M

LEMMA NamingStatement ==
    ASSUME Naming, NEW a \in Actors, Statement(a)
    PROVE  DataTypes' /\ InFlight' /\ Attempts'
<1> USE DEF client, socket, input, output, server, Unnamed
<1>0. Types
  BY DEF Naming, IInv
<1>1. CASE Send(a)
  <2>1. PICK x \in {"text", "QUIT"} : sendMessage(a, x, <<x>>)
    BY <1>1 DEF Send
  <2>2. UNCHANGED <<chunk, toClient, index, nickname, serverNick, connecting>>
    BY <1>1 DEF Send
  <2> QED
    BY <2>1, <2>2, QueuesOther
<1>2. CASE Write(a)
  BY <1>2, QueuesWrite
<1>3. CASE Nick(a)
  BY <1>3, QueuesNick
<1>4. CASE Read(a)
  <2>1. NoNewNick /\ UNCHANGED <<Unnamed, connecting>>
    BY <1>0, <1>4, NickDo DEF Read
  <2> QED
    BY <2>1, UnnamedStep
<1>6. CASE Closed(a)
  <2>1. NoNewNick /\ UNCHANGED <<Unnamed, connecting>>
    BY <1>0, <1>6, NickDo DEF Closed
  <2> QED
    BY <2>1, UnnamedStep
<1>7. CASE QuitReady(a)
  <2>1. NoNewNick /\ UNCHANGED <<Unnamed, connecting>>
    BY <1>0, <1>7, NickDo DEF QuitReady
  <2> QED
    BY <2>1, UnnamedStep
<1>8. CASE ClearMe(a)
  <2>1. NoNewNick /\ UNCHANGED <<Unnamed, connecting>>
    BY <1>0, <1>8, NickDo DEF ClearMe
  <2> QED
    BY <2>1, UnnamedStep
<1>9. CASE Arm(a)
  <2>1. NoNewNick /\ UNCHANGED <<Unnamed, connecting>>
    BY <1>0, <1>9, NickDo DEF Arm
  <2> QED
    BY <2>1, UnnamedStep
<1>10. CASE CloseAll(a)
  <2>1. NoNewNick /\ UNCHANGED <<Unnamed, connecting>>
    BY <1>10, CloseAllNick DEF CloseAll
  <2> QED
    BY <2>1, UnnamedStep
<1>11. CASE Clear(a)
  <2>1. NoNewNick /\ UNCHANGED <<Unnamed, connecting>>
    BY <1>0, <1>11, NickDo DEF Clear
  <2> QED
    BY <2>1, UnnamedStep
<1> QED
  BY <1>1, <1>2, <1>3, <1>4, <1>6, <1>7, <1>8, <1>9, <1>10, <1>11
     DEF Statement

\* What a handler begins with, but for the lambda of connect, asks for nothing.
LEMMA NamingBegin ==
    ASSUME Naming, NEW a \in Actors,
           NEW stmts \in {<<>>, forceClose, <<"text">>, <<"closeAll", "join">>, <<"closeAll">>},
           Begin(a, stmts), UNCHANGED <<Unnamed, connecting>>
    PROVE  DataTypes' /\ InFlight' /\ Attempts'
<1>1. "NICK" \notin Members(stmts)
  <2>1. "NICK" \notin Members(<<"text">>) /\ "NICK" \notin Members(<<"closeAll">>)
    BY NoNickLists
  <2> QED
    BY <2>1, NoNickLists
<1>2. NoNewNick
  BY <1>1, NickBegin DEF Naming, IInv
<1> QED
  BY <1>2, UnnamedStep

LEMMA NamingIdle ==
    ASSUME Naming, UNCHANGED <<todo, Unnamed>>,
           connecting' \in {"pending", "ok"} => connecting \in {"pending", "ok"}
    PROVE  DataTypes' /\ InFlight' /\ Attempts'
<1>1. NoNewNick
  BY DEF NoNewNick, M
<1> QED
  BY <1>1, UnnamedStep

LEMMA AttemptsNext ==
    ASSUME Naming, [Next]_vars
    PROVE  DataTypes' /\ InFlight' /\ Attempts'
<1> DEFINE Goal == DataTypes' /\ InFlight' /\ Attempts'
<1> USE DEF client, socket, input, output, server, Unnamed
<1>0. Types /\ {"reader", "writer", "timer", "signal", "main"} \subseteq Actors
  BY DEF Naming, IInv, Actors
<1>1. ASSUME NEW r \in {"ok", "err"}, Resolve(r) PROVE Goal
  BY <1>1, NamingIdle DEF Resolve
<1>2. CASE Connected
  BY <1>2, ConnectsFirst
<1>3. CASE ConnectFails
  BY <1>3, NamingIdle DEF ConnectFails
<1>4. CASE Dangle
  BY <1>4, NamingIdle DEF Dangle
<1>5. ASSUME NEW a \in Actors, Step(a) PROVE Goal
  BY <1>5, NamingStatement DEF Step
<1>6. ASSUME NEW end, ProcMessage(end) PROVE Goal
  BY <1>6, ProcessesMessage
<1>7. CASE ReadAgain
  <2> DEFINE w == <<"read">>
  <2>1. "NICK" \notin Members(w) /\ todo' = [todo EXCEPT !["reader"] = w]
    BY <1>7, NoNickLists DEF ReadAgain
  <2> HIDE DEF w
  <2>2. NoNewNick
    BY <1>0, <2>1, NickMove
  <2> QED
    BY <1>7, <2>2, UnnamedStep DEF ReadAgain
<1>8. CASE ReadFails
  BY <1>0, <1>8, NamingBegin DEF ReadFails
<1>9. ASSUME NEW n \in 1..Len(toClient), ReadData(n) PROVE Goal
  BY <1>9, ReadsData
<1>10. CASE WriteDone
  BY <1>10, QueuesWriteDone
<1>11. CASE WriteFails
  BY <1>11, QueuesWriteFails
<1>12. CASE Expire
  BY <1>12, NamingIdle DEF Expire
<1>13. CASE handleCloseTimeout
  BY <1>0, <1>13, NamingBegin DEF handleCloseTimeout
<1>14. CASE Line
  BY <1>0, <1>14, NamingBegin DEF Line
<1>15. CASE EndOfInput
  BY <1>0, <1>15, NamingBegin DEF EndOfInput
<1>16. CASE Signal
  BY <1>0, <1>16, NamingBegin DEF Signal
<1>17. CASE RunReturns
  BY <1>17, NamingIdle DEF RunReturns
<1>18. CASE Join
  <2>1. NoNewNick
    BY <1>0, <1>18, NickDo DEF Join
  <2> QED
    BY <1>18, <2>1, UnnamedStep DEF Join
<1>19. ASSUME NEW m \in {"PING", "bad", "ERROR"}, ServerSends(m) PROVE Goal
  BY <1>19, ServerSendsMore
<1>20. CASE ServerCloses
  BY <1>20, ServerClosesLast
<1>21. CASE UNCHANGED vars
  BY <1>21, NamingIdle DEF vars
<1>22. ASSUME NEW a \in Actors, CloseSocket(a) PROVE Goal
  <2>1. NoNewNick /\ UNCHANGED <<Unnamed, connecting>>
    BY <1>0, <1>22, NickDo DEF CloseSocket
  <2> QED
    BY <2>1, UnnamedStep
<1> QED
  BY <1>1, <1>2, <1>3, <1>4, <1>5, <1>6, <1>7, <1>8, <1>9, <1>10, <1>11, <1>12,
     <1>13, <1>14, <1>15, <1>16, <1>17, <1>18, <1>19, <1>20, <1>21, <1>22
     DEF Next, Progress, Waiting, Process, Rest

-----------------------------------------------------------------------------
(* The flags *)

LEMMA FlagsKept ==
    ASSUME FlagTypes
    PROVE  /\ UNCHANGED client => ClientFlags'
           /\ UNCHANGED socket => SocketFlags'
           /\ UNCHANGED input => InputFlags'
           /\ UNCHANGED output => OutputFlags'
           /\ UNCHANGED timer => TimerFlags'
           /\ UNCHANGED pool => PoolFlags'
           /\ UNCHANGED app => AppFlags'
           /\ UNCHANGED ghosts => GhostFlags'
           /\ UNCHANGED server => ServerFlags'
<1> USE DEF FlagTypes
<1>1. UNCHANGED client => ClientFlags'
  BY DEF client, ClientFlags
<1>2. UNCHANGED socket => SocketFlags'
  BY DEF socket, SocketFlags
<1>3. UNCHANGED input => InputFlags'
  BY DEF input, InputFlags
<1>4. UNCHANGED output => OutputFlags'
  BY DEF output, OutputFlags
<1>5. UNCHANGED timer => TimerFlags'
  BY DEF timer, TimerFlags
<1>6. UNCHANGED pool => PoolFlags'
  BY DEF pool, PoolFlags
<1>7. UNCHANGED app => AppFlags'
  BY DEF app, AppFlags
<1>8. UNCHANGED ghosts => GhostFlags'
  BY DEF ghosts, GhostFlags
<1>9. UNCHANGED server => ServerFlags'
  BY DEF server, ServerFlags
<1> QED
  BY <1>1, <1>2, <1>3, <1>4, <1>5, <1>6, <1>7, <1>8, <1>9

LEMMA FlagsStatement ==
    ASSUME FlagTypes, NEW a \in Actors, Statement(a)
    PROVE  FlagTypes'
<1> USE FlagsKept DEF FlagTypes
<1>1. CASE Send(a)
  BY <1>1 DEF Send, sendMessage, OutputFlags
<1>2. CASE Write(a)
  BY <1>2 DEF Write, WriteBusy, WriteFront, WriteNothing, Unset, OutputFlags
<1>3. CASE Nick(a)
  BY <1>3 DEF Nick, sendMessage, OutputFlags, ClientFlags
<1>4. CASE Read(a)
  BY <1>4 DEF Read, InputFlags
<1>6. CASE Closed(a)
  BY <1>6 DEF Closed, PoolFlags
<1>7. CASE QuitReady(a)
  BY <1>7 DEF QuitReady, ClientFlags
<1>8. CASE ClearMe(a)
  BY <1>8 DEF ClearMe, ClientFlags
<1>9. CASE Arm(a)
  BY <1>9 DEF Arm, TimerFlags
<1>10. CASE CloseAll(a)
  BY <1>10 DEF CloseAll, PoolFlags
<1>11. CASE Clear(a)
  BY <1>11 DEF Clear, PoolFlags
<1> QED
  BY <1>1, <1>2, <1>3, <1>4, <1>6, <1>7, <1>8, <1>9, <1>10, <1>11
     DEF Statement

LEMMA FlagsStep ==
    ASSUME FlagTypes, [Next]_vars
    PROVE  FlagTypes'
<1> USE FlagsKept DEF FlagTypes
<1>1. ASSUME NEW r \in {"ok", "err"}, Resolve(r) PROVE FlagTypes'
  BY <1>1 DEF Resolve, SocketFlags
<1>2. CASE Connected
  BY <1>2 DEF Connected, SocketFlags, ClientFlags
<1>3. CASE ConnectFails
  BY <1>3 DEF ConnectFails, SocketFlags
<1>4. CASE Dangle
  BY <1>4 DEF Dangle, GhostFlags
<1>5. ASSUME NEW a \in Actors, Step(a) PROVE FlagTypes'
  BY <1>5, FlagsStatement DEF Step
<1>6. ASSUME NEW end, ProcMessage(end) PROVE FlagTypes'
  BY <1>6 DEF ProcMessage, ClientFlags, InputFlags, GhostFlags
<1>7. CASE ReadAgain
  BY <1>7 DEF ReadAgain
<1>8. CASE ReadFails
  BY <1>8 DEF ReadFails, InputFlags
<1>9. ASSUME NEW n, ReadData(n) PROVE FlagTypes'
  BY <1>9 DEF ReadData, InputFlags, ServerFlags
<1>10. CASE WriteDone
  BY <1>10 DEF WriteDone, OutputFlags, ServerFlags
<1>11. CASE WriteFails
  BY <1>11 DEF WriteFails, OutputFlags
<1>12. CASE Expire
  BY <1>12 DEF Expire, TimerFlags
<1>13. CASE handleCloseTimeout
  BY <1>13 DEF handleCloseTimeout, TimerFlags
<1>14. CASE Line
  BY <1>14, TrafficAssumption DEF Line, AppFlags, GhostFlags
<1>15. CASE EndOfInput
  BY <1>15 DEF EndOfInput, AppFlags
<1>16. CASE Signal
  BY <1>16 DEF Signal, AppFlags
<1>17. CASE RunReturns
  BY <1>17 DEF RunReturns, AppFlags
<1>18. CASE Join
  BY <1>18 DEF Join, AppFlags
<1>19. ASSUME NEW m, ServerSends(m) PROVE FlagTypes'
  BY <1>19, TrafficAssumption DEF ServerSends, AppFlags, ServerFlags
<1>20. CASE ServerCloses
  BY <1>20 DEF ServerCloses, ServerFlags
<1>21. CASE UNCHANGED vars
  BY <1>21 DEF vars
<1>22. ASSUME NEW a \in Actors, CloseSocket(a) PROVE FlagTypes'
  BY <1>22 DEF CloseSocket, SocketFlags, GhostFlags
<1> QED
  BY <1>1, <1>2, <1>3, <1>4, <1>5, <1>6, <1>7, <1>8, <1>9, <1>10, <1>11, <1>12,
     <1>13, <1>14, <1>15, <1>16, <1>17, <1>18, <1>19, <1>20, <1>21, <1>22
     DEF Next, Progress, Waiting, Process, Rest

LEMMA NamingStep == Naming /\ [Next]_vars => Naming'
<1> SUFFICES ASSUME Naming, [Next]_vars PROVE Naming'
  OBVIOUS
<1>1. IInv'
  BY NextStep DEF Naming
<1>2. Closing'
  BY ClosingStep DEF Naming
<1>3. FlagTypes'
  BY FlagsStep DEF Naming
<1>4. DataTypes' /\ InFlight' /\ Attempts'
  BY AttemptsNext
<1> QED
  BY <1>1, <1>2, <1>3, <1>4 DEF Naming

LEMMA NamingInit == Init => Naming
<1> SUFFICES ASSUME Init PROVE Naming
  OBVIOUS
<1>1. IInv /\ Closing
  BY InitInv, ClosingInit
<1>2. FlagTypes
  <2>1. ClientFlags /\ SocketFlags /\ InputFlags /\ OutputFlags
    BY DEF Init, ClientFlags, SocketFlags, InputFlags, OutputFlags
  <2>2. TimerFlags /\ PoolFlags /\ GhostFlags /\ ServerFlags
    BY DEF Init, TimerFlags, PoolFlags, GhostFlags, ServerFlags
  <2>3. AppFlags
    <3>1. 0 \in 0..MaxTraffic
      BY TrafficAssumption
    <3> QED
      BY <3>1 DEF Init, AppFlags
  <2> QED
    BY <2>1, <2>2, <2>3 DEF FlagTypes
<1>3. /\ out = <<>> /\ inFlight = <<>> /\ chunk = <<>> /\ toClient = <<>>
      /\ index = 1 /\ nickname = 0 /\ serverNick = 0 /\ ~writeLock
      /\ todo = [a \in Actors |-> <<>>]
  BY DEF Init
<1>4. DataTypes /\ InFlight
  BY <1>3, NickAssumption DEF DataTypes, InFlight
<1>5. \A a \in Actors : "NICK" \notin M(a)
  BY <1>3, NoNickLists DEF M
<1>6. ~Trying
  BY <1>3, <1>5 DEF Trying, Attempt, Has, Actors
<1>7. Attempts
  BY <1>3, <1>5, <1>6
     DEF Attempts, NickOwners, Onces, Once, Asked, AtMostOne, Registered, Trying
<1> QED
  BY <1>1, <1>2, <1>4, <1>7 DEF Naming

\* Every actor runs statements of the program, at most one socket write is in
\* progress, while inWrite_ is set, and only nicknames of the user are sent
\* and taken: tryNextNickname never reads past the end of the candidates.
THEOREM ClientTyped == Spec => []TypeOK
<1>1. Naming => TypeOK
  BY DEF Naming, IInv, Types, DataTypes, InFlight, TypeOK, FlagTypes, ClientFlags,
     SocketFlags, InputFlags, OutputFlags, TimerFlags, PoolFlags, AppFlags,
     GhostFlags, ServerFlags
<1> QED
  BY <1>1, NamingInit, NamingStep, PTL DEF Spec

\* Once the server has registered the client and the client knows it, the
\* client goes by the nickname the server registered: no NICK is left in the
\* queue or in the socket, and no refusal on its way, that would change either.
THEOREM NicknameCorrect == Spec => []NicknameAgreed
<1>1. Naming => NicknameAgreed
  BY DEF Naming, Attempts, Registered, NicknameAgreed
<1> QED
  BY <1>1, NamingInit, NamingStep, PTL DEF Spec
=============================================================================
