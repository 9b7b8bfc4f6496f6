------------------------ MODULE HttpConnectionProofs ------------------------
(***************************************************************************)
(* For every keep-alive maximum, width of the count, number of chunks and  *)
(* depth of pipelining: a connection does not promise to be kept alive     *)
(* more often than the maximum, and keeps its types: the frames it submits *)
(* are new ones, and no more than four for each request.                   *)
(***************************************************************************)
EXTENDS HttpConnection, SequenceTheorems, TLAPS

Holds(seq, s) == \E i \in 1..Len(seq) : seq[i] = s

\* Statements after which handleRead parses nothing, now or later.
Last == {"upgrade", "throw", "leave", "close"}
Final == Last \union {"stop"}

\* What the proof needs of the types.
Types ==
    /\ todo \in Seq(Statements)
    /\ chunk \in Seq(Kinds)
    /\ keepAliveCount \in 0..CountModulus - 1
    /\ promises \in Nat

\* Statements belong to a handleRead that runs, no read is outstanding while
\* it runs, it sets the timer once for a request, and ends with what ends it.
Shape ==
    /\ running => read = "none"
    /\ todo # <<>> => running
    /\ \A i \in 1..Len(todo) : todo[i] \in Last => i = Len(todo)
    /\ \A i, j \in 1..Len(todo) : todo[i] = "arm" /\ todo[j] = "arm" => i = j

\* The connection may serve another request.
Serving ==
    /\ parser = "ok"
    /\ read # "none" \/ running
    /\ \A s \in Final : ~Holds(todo, s)

\* A promise made and not yet counted.
Promising(seq) == IF Holds(seq, "arm") THEN 1 ELSE 0

\* While the connection serves, what is left of the count pays for what it may
\* still promise; once it does not, the count may have wrapped.
Budget ==
    /\ promises + Promising(todo) <= KeepAliveMax
    /\ Serving => promises + Promising(todo) + keepAliveCount <= KeepAliveMax

IInv == Types /\ Shape /\ Budget

\* The count wraps only below zero.
LEMMA Decrement ==
    ASSUME NEW c \in 1..CountModulus - 1
    PROVE  (c - 1) % CountModulus = c - 1
  BY CountAssumption

\* The count keeps its width.
LEMMA CountWidth ==
    ASSUME NEW c \in 0..CountModulus - 1
    PROVE  (c - 1) % CountModulus \in 0..CountModulus - 1
  BY CountAssumption

\* Executing a statement shifts those that follow it.
LEMMA TailFacts ==
    ASSUME NEW seq \in Seq(Statements), seq # <<>>
    PROVE  /\ Tail(seq) \in Seq(Statements)
           /\ Len(Tail(seq)) = Len(seq) - 1
           /\ \A i \in 1..Len(Tail(seq)) : Tail(seq)[i] = seq[i + 1]
           /\ Head(seq) = seq[1]
           /\ Len(seq) \in Nat \ {0}
  OBVIOUS

\* The next statement of handleRead is executed: nothing is added, the order
\* is kept, and only that statement is gone.
LEMMA Advance ==
    ASSUME IInv, NEW s \in Statements, Do(s)
    PROVE  /\ running /\ read = "none"
           /\ todo' \in Seq(Statements)
           /\ Holds(todo, s)
           /\ s \in Last => todo' = <<>>
           /\ \A i \in 1..Len(todo') : todo'[i] \in Last => i = Len(todo')
           /\ \A i, j \in 1..Len(todo') :
                 todo'[i] = "arm" /\ todo'[j] = "arm" => i = j
           /\ \A x \in Statements : Holds(todo', x) => Holds(todo, x)
           /\ \A x \in Statements : Holds(todo, x) => Holds(todo', x) \/ x = s
           /\ s = "arm" => ~Holds(todo', "arm")
<1>1. todo \in Seq(Statements) /\ todo # <<>> /\ s = Head(todo) /\ todo' = Tail(todo)
  BY DEF IInv, Types, Do
<1>2. /\ todo' \in Seq(Statements)
      /\ Len(todo') = Len(todo) - 1
      /\ \A i \in 1..Len(todo') : todo'[i] = todo[i + 1]
      /\ s = todo[1]
      /\ Len(todo) \in Nat \ {0}
  BY <1>1, TailFacts
<1>3. running /\ read = "none"
  BY <1>1 DEF IInv, Shape
<1>4. Holds(todo, s)
  BY <1>2 DEF Holds
<1>5. s \in Last => todo' = <<>>
  <2>1. s \in Last => Len(todo) = 1
    BY <1>2 DEF IInv, Shape
  <2> QED BY <1>2, <2>1
<1>6. \A i \in 1..Len(todo') : todo'[i] \in Last => i = Len(todo')
  BY <1>2 DEF IInv, Shape
<1>7. \A i, j \in 1..Len(todo') : todo'[i] = "arm" /\ todo'[j] = "arm" => i = j
  BY <1>2 DEF IInv, Shape
<1>8. \A x \in Statements : Holds(todo', x) => Holds(todo, x)
  BY <1>2 DEF Holds
<1>9. \A x \in Statements : Holds(todo, x) => Holds(todo', x) \/ x = s
  <2> SUFFICES ASSUME NEW x \in Statements, Holds(todo, x), x # s
               PROVE  Holds(todo', x)
    OBVIOUS
  <2>1. PICK i \in 1..Len(todo) : todo[i] = x
    BY DEF Holds
  <2>2. i - 1 \in 1..Len(todo') /\ todo'[i - 1] = x
    BY <1>2, <2>1
  <2> QED BY <2>2 DEF Holds
<1>10. s = "arm" => ~Holds(todo', "arm")
  <2> SUFFICES ASSUME s = "arm", NEW i \in 1..Len(todo'), todo'[i] = "arm"
               PROVE  FALSE
    BY DEF Holds
  <2>1. i + 1 \in 1..Len(todo) /\ todo[i + 1] = "arm" /\ 1 \in 1..Len(todo)
    BY <1>2
  <2>2. i + 1 = 1
    BY <1>2, <2>1 DEF IInv, Shape
  <2> QED BY <2>2
<1> QED BY <1>2, <1>3, <1>4, <1>5, <1>6, <1>7, <1>8, <1>9, <1>10

\* A statement keeps the invariant: the one that sets the timer turns what
\* was promising into a promise, and those of Final end the serving.
LEMMA AdvanceStep ==
    ASSUME IInv, NEW s \in Statements, Do(s),
           UNCHANGED <<read, keepAliveCount>>,
           chunk' \in Seq(Kinds),
           running' <=> s \notin Last /\ running,
           parser' = parser \/ parser' = "stopped",
           s = "stop" => parser' = "stopped",
           promises' = IF s = "arm" THEN promises + 1 ELSE promises
    PROVE  IInv'
<1>0. /\ running /\ read = "none"
      /\ todo' \in Seq(Statements)
      /\ Holds(todo, s)
      /\ s \in Last => todo' = <<>>
      /\ \A i \in 1..Len(todo') : todo'[i] \in Last => i = Len(todo')
      /\ \A i, j \in 1..Len(todo') :
            todo'[i] = "arm" /\ todo'[j] = "arm" => i = j
      /\ \A x \in Statements : Holds(todo', x) => Holds(todo, x)
      /\ \A x \in Statements : Holds(todo, x) => Holds(todo', x) \/ x = s
      /\ s = "arm" => ~Holds(todo', "arm")
  BY Advance
<1>1. Types'
  BY <1>0 DEF IInv, Types
<1>2. Shape'
  BY <1>0 DEF Shape
<1>3. Promising(todo') + promises' = Promising(todo) + promises
  BY <1>0 DEF IInv, Types, Promising, Statements
<1>4. Serving' => Serving
  <2> SUFFICES ASSUME Serving' PROVE Serving
    OBVIOUS
  <2>1. s \notin Final /\ parser = "ok" /\ running
    BY <1>0 DEF Serving, Final
  <2>2. Final \subseteq Statements
    BY DEF Final, Last, Statements
  <2>3. \A x \in Final : ~Holds(todo, x)
    BY <1>0, <2>1, <2>2 DEF Serving
  <2> QED BY <2>1, <2>3 DEF Serving
<1>5. Promising(todo) \in 0..1 /\ Promising(todo') \in 0..1
  BY DEF Promising
<1>6. /\ promises \in Nat /\ promises' \in Nat
      /\ keepAliveCount \in Nat /\ keepAliveCount' = keepAliveCount
      /\ KeepAliveMax \in Nat
  BY <1>1, CountAssumption DEF IInv, Types
<1>7. promises' + Promising(todo') <= KeepAliveMax
  <2>1. promises + Promising(todo) <= KeepAliveMax
    BY DEF IInv, Budget
  <2> QED BY <1>3, <1>5, <1>6, <2>1
<1>8. Serving' => promises' + Promising(todo') + keepAliveCount' <= KeepAliveMax
  <2> SUFFICES ASSUME Serving'
               PROVE  promises' + Promising(todo') + keepAliveCount' <= KeepAliveMax
    OBVIOUS
  <2>1. promises + Promising(todo) + keepAliveCount <= KeepAliveMax
    BY <1>4 DEF IInv, Budget
  <2> QED BY <1>3, <1>5, <1>6, <2>1
<1>9. Budget'
  BY <1>7, <1>8 DEF Budget
<1> QED BY <1>1, <1>2, <1>9 DEF IInv

\* Two lists of statements in a row: of two and one, and of three and three.
LEMMA Join21 ==
    ASSUME NEW a \in Statements, NEW b \in Statements, NEW c \in Statements
    PROVE  <<a, b>> \o <<c>> = <<a, b, c>>
<1> DEFINE x == <<a, b>>
<1> DEFINE y == <<c>>
<1>1. x \in Seq(Statements) /\ Len(x) = 2 /\ x[1] = a /\ x[2] = b
  OBVIOUS
<1>2. y \in Seq(Statements) /\ Len(y) = 1 /\ y[1] = c
  OBVIOUS
<1> HIDE DEF x, y
<1> DEFINE q == x \o y
<1>3. /\ q \in Seq(Statements) /\ Len(q) = Len(x) + Len(y)
      /\ \A i \in 1..Len(x) + Len(y) :
            q[i] = IF i <= Len(x) THEN x[i] ELSE y[i - Len(x)]
  BY <1>1, <1>2, ConcatProperties
<1> HIDE DEF q
<1>4. q = <<a, b, c>>
  <2>1. q \in Seq(Statements) /\ Len(q) = 3 /\ q[1] = a /\ q[2] = b /\ q[3] = c
    BY <1>1, <1>2, <1>3
  <2> QED BY <2>1
<1> QED BY <1>4 DEF q, x, y

LEMMA Join33 ==
    ASSUME NEW a \in Statements, NEW b \in Statements, NEW c \in Statements,
           NEW d \in Statements, NEW e \in Statements, NEW f \in Statements
    PROVE  <<a, b, c>> \o <<d, e, f>> = <<a, b, c, d, e, f>>
<1> DEFINE x == <<a, b, c>>
<1> DEFINE y == <<d, e, f>>
<1>1. x \in Seq(Statements) /\ Len(x) = 3 /\ x[1] = a /\ x[2] = b /\ x[3] = c
  OBVIOUS
<1>2. y \in Seq(Statements) /\ Len(y) = 3 /\ y[1] = d /\ y[2] = e /\ y[3] = f
  OBVIOUS
<1> HIDE DEF x, y
<1> DEFINE q == x \o y
<1>3. /\ q \in Seq(Statements) /\ Len(q) = Len(x) + Len(y)
      /\ \A i \in 1..Len(x) + Len(y) :
            q[i] = IF i <= Len(x) THEN x[i] ELSE y[i - Len(x)]
  BY <1>1, <1>2, ConcatProperties
<1> HIDE DEF q
<1>4. q = <<a, b, c, d, e, f>>
  <2>1. /\ q \in Seq(Statements) /\ Len(q) = 6 /\ q[1] = a /\ q[2] = b /\ q[3] = c
        /\ q[4] = d /\ q[5] = e /\ q[6] = f
    BY <1>1, <1>2, <1>3
  <2> QED BY <2>1
<1> QED BY <1>4 DEF q, x, y

\* The lists of statements procHttpRequest stands for, one by one.
LEMMA Programs ==
    ASSUME NEW kind \in Kinds, NEW keepAlive \in BOOLEAN,
           NEW p, p = Program(kind, keepAlive)
    PROVE  \/ /\ p = <<"send", "send", "arm">>
              /\ keepAlive /\ kind \in {"keep", "close"}
           \/ /\ p = <<"send", "send", "arm", "send", "send", "leave">>
              /\ keepAlive /\ kind = "otherProtocol"
           \/ p = <<"send", "send", "stop">>
           \/ p = <<"send", "send", "stop", "send", "send", "leave">>
           \/ p = <<"send", "upgrade">>
           \/ p = <<"send", "send", "leave">>
           \/ p = <<"throw">>
           \/ p = <<"fail">> /\ kind = "noTarget"
<1>1. \A s \in Statements : Response \o <<s>> = <<"send", "send", s>>
  BY Join21 DEF Response, Statements
<1>2. BadRequest = <<"send", "send", "leave">>
  BY <1>1 DEF BadRequest, Statements
<1>3. \A s \in Statements : Response \o <<s>> \o BadRequest
                              = <<"send", "send", s, "send", "send", "leave">>
  <2> SUFFICES ASSUME NEW s \in Statements
               PROVE  Response \o <<s>> \o BadRequest
                        = <<"send", "send", s, "send", "send", "leave">>
    OBVIOUS
  <2>1. {"send", "leave"} \subseteq Statements
    BY DEF Statements
  <2>2. <<"send", "send", s>> \o <<"send", "send", "leave">>
          = <<"send", "send", s, "send", "send", "leave">>
    BY <2>1, Join33
  <2> QED BY <1>1, <1>2, <2>2
<1>4. "arm" \in Statements /\ "stop" \in Statements
  BY DEF Statements
<1>5. CASE kind \in {"keep", "close"}
  <2>1. p = Response \o IF keepAlive THEN <<"arm">> ELSE <<"stop">>
    BY <1>5 DEF Program
  <2> QED BY <1>1, <1>4, <1>5, <2>1
<1>6. CASE kind = "otherProtocol"
  <2>1. p = Response \o (IF keepAlive THEN <<"arm">> ELSE <<"stop">>) \o BadRequest
    BY <1>6 DEF Program
  <2> QED BY <1>3, <1>4, <1>6, <2>1
<1>7. CASE kind = "webSocket"
  BY <1>7 DEF Program
<1>8. CASE kind = "noTarget"
  BY <1>8 DEF Program
<1>9. CASE kind \in {"wrongVersion", "malformed"}
  BY <1>2, <1>9 DEF Program
<1>10. CASE kind = "noHeader"
  BY <1>10 DEF Program
<1> QED BY <1>5, <1>6, <1>7, <1>8, <1>9, <1>10 DEF Kinds

\* What such a list does to the invariant.
LEMMA ProgramFacts ==
    ASSUME NEW kind \in Kinds, NEW keepAlive \in BOOLEAN,
           NEW p, p = Program(kind, keepAlive)
    PROVE  /\ p \in Seq(Statements)
           /\ \A i \in 1..Len(p) : p[i] \in Last => i = Len(p)
           /\ \A i, j \in 1..Len(p) : p[i] = "arm" /\ p[j] = "arm" => i = j
           /\ Holds(p, "arm") => keepAlive /\ kind \notin {"noTarget", "malformed"}
           /\ \/ \E s \in Final : Holds(p, s)
              \/ keepAlive /\ kind \notin {"noTarget", "malformed"}
              \/ kind = "noTarget"
<1>1. CASE p = <<"send", "send", "arm">> /\ keepAlive /\ kind \in {"keep", "close"}
  <2>0. p = <<"send", "send", "arm">>
    BY <1>1
  <2>1. p \in Seq(Statements)
    BY <2>0 DEF Statements
  <2>2. Len(p) = 3 /\ p[1] = "send" /\ p[2] = "send" /\ p[3] = "arm"
    BY <2>0
  <2>3. \A i \in 1..Len(p) : p[i] \notin Last
    BY <2>2 DEF Last
  <2>4. \A i, j \in 1..Len(p) : p[i] = "arm" /\ p[j] = "arm" => i = j
    BY <2>2
  <2>5. kind \notin {"noTarget", "malformed"}
    BY <1>1
  <2> QED BY <1>1, <2>1, <2>3, <2>4, <2>5
<1>2. CASE /\ p = <<"send", "send", "arm", "send", "send", "leave">>
           /\ keepAlive /\ kind = "otherProtocol"
  <2>0. p = <<"send", "send", "arm", "send", "send", "leave">>
    BY <1>2
  <2>1. p \in Seq(Statements)
    BY <2>0 DEF Statements
  <2>2. /\ Len(p) = 6 /\ p[1] = "send" /\ p[2] = "send" /\ p[3] = "arm"
        /\ p[4] = "send" /\ p[5] = "send" /\ p[6] = "leave"
    BY <2>0
  <2>3. \A i \in 1..Len(p) : p[i] \in Last => i = Len(p)
    BY <2>2 DEF Last
  <2>4. \A i, j \in 1..Len(p) : p[i] = "arm" /\ p[j] = "arm" => i = j
    BY <2>2
  <2>5. kind \notin {"noTarget", "malformed"}
    BY <1>2
  <2> QED BY <1>2, <2>5, <2>1, <2>3, <2>4
<1>3. CASE p = <<"send", "send", "stop">>
  <2>1. p \in Seq(Statements)
    BY <1>3 DEF Statements
  <2>2. Len(p) = 3 /\ p[1] = "send" /\ p[2] = "send" /\ p[3] = "stop"
    BY <1>3
  <2>3. "stop" \in Final /\ Holds(p, "stop") /\ ~Holds(p, "arm")
    BY <2>2 DEF Final, Last, Holds
  <2>4. \A i \in 1..Len(p) : p[i] \notin Last /\ p[i] # "arm"
    BY <2>2 DEF Last
  <2> QED BY <2>1, <2>3, <2>4
<1>4. CASE p = <<"send", "send", "stop", "send", "send", "leave">>
  <2>1. p \in Seq(Statements)
    BY <1>4 DEF Statements
  <2>2. /\ Len(p) = 6 /\ p[1] = "send" /\ p[2] = "send" /\ p[3] = "stop"
        /\ p[4] = "send" /\ p[5] = "send" /\ p[6] = "leave"
    BY <1>4
  <2>3. "stop" \in Final /\ Holds(p, "stop") /\ ~Holds(p, "arm")
    BY <2>2 DEF Final, Last, Holds
  <2>4. \A i \in 1..Len(p) : p[i] # "arm" /\ (p[i] \in Last => i = Len(p))
    BY <2>2 DEF Last
  <2> QED BY <2>1, <2>3, <2>4
<1>5. CASE p = <<"send", "upgrade">>
  <2>1. "upgrade" \in Final /\ Holds(p, "upgrade") /\ ~Holds(p, "arm")
    BY <1>5 DEF Final, Last, Holds
  <2> QED BY <1>5, <2>1 DEF Last, Statements
<1>6. CASE p = <<"send", "send", "leave">>
  <2>1. "leave" \in Final /\ Holds(p, "leave") /\ ~Holds(p, "arm")
    BY <1>6 DEF Final, Last, Holds
  <2> QED BY <1>6, <2>1 DEF Last, Statements
<1>7. CASE p = <<"fail">> /\ kind = "noTarget"
  BY <1>7 DEF Holds, Last, Statements
<1>8. CASE p = <<"throw">>
  <2>1. "throw" \in Final /\ Holds(p, "throw") /\ ~Holds(p, "arm")
    BY <1>8 DEF Final, Last, Holds
  <2> QED BY <1>8, <2>1 DEF Last, Statements
<1> QED BY Programs, <1>1, <1>2, <1>3, <1>4, <1>5, <1>6, <1>7, <1>8

\* Whatever leaves the statements, the count and the promises alone and does
\* not revive the connection keeps the invariant.
LEMMA QuietStep ==
    ASSUME IInv, UNCHANGED <<todo, keepAliveCount, promises, parser>>,
           chunk' \in Seq(Kinds),
           running' => read' = "none",
           todo # <<>> => running',
           read' # "none" \/ running' => read # "none" \/ running
    PROVE  IInv'
<1>1. Types'
  BY DEF IInv, Types
<1>2. Shape'
  BY DEF IInv, Shape
<1>3. Budget'
  <2>1. Serving' => Serving
    BY DEF Serving
  <2>2. Promising(todo') = Promising(todo)
    OBVIOUS
  <2> QED BY <2>1, <2>2 DEF IInv, Budget
<1> QED BY <1>1, <1>2, <1>3 DEF IInv

\* A request is parsed with no statement left: it takes one off the count
\* before it may promise once.
LEMMA ParseRequestStep ==
    ASSUME IInv, ParseRequest
    PROVE  IInv'
<1> DEFINE kind == Head(chunk)
<1> DEFINE keepAlive == kind # "close" /\ keepAliveCount > 0
<1> DEFINE called == kind \notin {"noTarget", "malformed"}
<1>1. /\ running /\ todo = <<>> /\ parser = "ok" /\ chunk # <<>>
      /\ todo' = Program(kind, keepAlive)
      /\ keepAliveCount' = IF called THEN (keepAliveCount - 1) % CountModulus
                                     ELSE keepAliveCount
      /\ chunk' = Tail(chunk)
      /\ UNCHANGED <<running, read, parser, promises>>
  BY DEF ParseRequest, others
<1>2. kind \in Kinds /\ chunk' \in Seq(Kinds) /\ keepAlive \in BOOLEAN
  BY <1>1 DEF IInv, Types
<1> HIDE DEF kind, keepAlive, called
<1>3. /\ todo' \in Seq(Statements)
      /\ \A i \in 1..Len(todo') : todo'[i] \in Last => i = Len(todo')
      /\ \A i, j \in 1..Len(todo') :
            todo'[i] = "arm" /\ todo'[j] = "arm" => i = j
      /\ Holds(todo', "arm") => keepAlive /\ called
      /\ \/ \E s \in Final : Holds(todo', s)
         \/ keepAlive /\ called
         \/ ~called
  <2>1. called <=> kind \notin {"noTarget", "malformed"}
    BY DEF called
  <2> QED BY <1>1, <1>2, <2>1, ProgramFacts
<1>4. keepAliveCount \in 0..CountModulus - 1 /\ promises \in Nat /\ KeepAliveMax \in Nat
  BY CountAssumption DEF IInv, Types
<1>5. keepAliveCount' \in 0..CountModulus - 1
  <2>1. CASE called
    BY <1>1, <1>4, <2>1, CountWidth
  <2>2. CASE ~called
    BY <1>1, <1>4, <2>2
  <2> QED BY <2>1, <2>2
<1>6. Types'
  BY <1>1, <1>2, <1>3, <1>4, <1>5 DEF Types
<1>7. Shape'
  BY <1>1, <1>3 DEF IInv, Shape
<1>8. promises + keepAliveCount <= KeepAliveMax
  <2>1. \A s : ~Holds(todo, s)
    BY <1>1 DEF Holds
  <2>2. Serving
    BY <1>1, <2>1 DEF Serving
  <2>3. Promising(todo) = 0
    BY <2>1 DEF Promising
  <2>4. promises + Promising(todo) + keepAliveCount <= KeepAliveMax
    BY <2>2 DEF IInv, Budget
  <2> QED BY <1>4, <2>3, <2>4
<1>9. keepAlive => keepAliveCount > 0
  BY DEF keepAlive
<1>10. promises' = promises /\ Promising(todo') \in 0..1
  BY <1>1 DEF Promising
<1>11. ~(keepAlive /\ called) => Promising(todo') = 0
  BY <1>3 DEF Promising
<1>12. promises' + Promising(todo') <= KeepAliveMax
  <2>1. CASE keepAlive /\ called
    <3>1. keepAliveCount > 0
      BY <1>9, <2>1
    <3> QED BY <1>4, <1>8, <1>10, <3>1
  <2>2. CASE ~(keepAlive /\ called)
    <3>1. Promising(todo') = 0
      BY <1>11, <2>2
    <3> QED BY <1>4, <1>8, <1>10, <3>1
  <2> QED BY <2>1, <2>2
<1>13. Serving' => promises' + Promising(todo') + keepAliveCount' <= KeepAliveMax
  <2> SUFFICES ASSUME Serving'
               PROVE  promises' + Promising(todo') + keepAliveCount' <= KeepAliveMax
    OBVIOUS
  <2>1. (keepAlive /\ called) \/ ~called
    BY <1>3 DEF Serving
  <2>2. CASE keepAlive /\ called
    <3>1. keepAliveCount \in 1..CountModulus - 1
      <4>1. keepAliveCount > 0
        BY <1>9, <2>2
      <4> QED BY <1>4, <4>1
    <3>2. keepAliveCount' = keepAliveCount - 1
      <4>1. keepAliveCount' = (keepAliveCount - 1) % CountModulus
        BY <1>1, <2>2
      <4> QED BY <3>1, <4>1, Decrement
    <3> QED BY <1>4, <1>8, <1>10, <3>1, <3>2
  <2>3. CASE ~called
    <3>1. Promising(todo') = 0 /\ keepAliveCount' = keepAliveCount
      BY <1>1, <1>11, <2>3
    <3> QED BY <1>4, <1>8, <1>10, <3>1
  <2> QED BY <2>1, <2>2, <2>3
<1>14. Budget'
  BY <1>12, <1>13 DEF Budget
<1> QED BY <1>6, <1>7, <1>14 DEF IInv

\* handleRead gives up on the connection: what it has left to do promises
\* nothing and the connection serves no more.
LEMMA GivingUp ==
    ASSUME IInv, ReadFails \/ ParseFails
    PROVE  IInv'
<1>1. /\ read' = "none" /\ running'
      /\ UNCHANGED <<keepAliveCount, promises>>
      /\ chunk' \in Seq(Kinds)
  BY DEF ReadFails, ParseFails, ReadsError, others, IInv, Types, Shape
<1>2. /\ todo' \in Seq(Statements)
      /\ \A i \in 1..Len(todo') : todo'[i] \in Last => i = Len(todo')
      /\ ~Holds(todo', "arm")
      /\ \E s \in Final : Holds(todo', s)
  <2>1. CASE ReadFails
    <3>1. todo' = <<"close">>
      BY <2>1 DEF ReadFails
    <3>2. Holds(todo', "close") /\ "close" \in Final
      BY <3>1 DEF Holds, Final, Last
    <3> QED BY <3>1, <3>2 DEF Holds, Statements
  <2>2. CASE ParseFails
    <3>1. todo' = <<"send", "send", "leave">>
      <4>1. todo' = <<"send", "send">> \o <<"leave">>
        BY <2>2 DEF ParseFails, BadRequest, Response
      <4> QED BY <4>1, Join21 DEF Statements
    <3>2. Holds(todo', "leave") /\ "leave" \in Final
      BY <3>1 DEF Holds, Final, Last
    <3> QED BY <3>1, <3>2 DEF Holds, Statements, Last
  <2> QED BY <2>1, <2>2
<1>3. Types'
  BY <1>1, <1>2 DEF IInv, Types
<1>4. Shape'
  BY <1>1, <1>2 DEF Shape, Holds
<1>5. Budget'
  <2>1. ~Serving'
    BY <1>2 DEF Serving
  <2>2. Promising(todo') = 0
    BY <1>2 DEF Promising
  <2>3. promises + Promising(todo) <= KeepAliveMax /\ Promising(todo) \in 0..1
    BY DEF IInv, Budget, Promising
  <2>4. promises \in Nat /\ KeepAliveMax \in Nat /\ promises' = promises
    BY <1>1, CountAssumption DEF IInv, Types
  <2>5. promises' + Promising(todo') <= KeepAliveMax
    BY <2>2, <2>3, <2>4
  <2> QED BY <2>1, <2>5 DEF Budget
<1> QED BY <1>3, <1>4, <1>5 DEF IInv

\* Every connection starts with the whole count.
LEMMA InitInv == Init => IInv
<1> SUFFICES ASSUME Init PROVE IInv
  OBVIOUS
<1>1. todo = <<>> /\ chunk = <<>> /\ promises = 0 /\ keepAliveCount = KeepAliveMax
      /\ ~running
  BY DEF Init
<1>2. Types
  BY <1>1, CountAssumption DEF Types
<1>3. Shape
  BY <1>1 DEF Shape
<1>4. Promising(todo) = 0
  BY <1>1 DEF Promising, Holds
<1>5. Budget
  BY <1>1, <1>4, CountAssumption DEF Budget
<1> QED BY <1>2, <1>3, <1>5 DEF IInv

\* Every step keeps the invariant, action by action.
LEMMA Invariance == IInv /\ [Next]_vars => IInv'
<1> SUFFICES ASSUME IInv, [Next]_vars PROVE IInv'
  OBVIOUS
<1> USE DEF conn, timer, writer, others
<1>0. /\ chunk \in Seq(Kinds)
      /\ running => read = "none"
      /\ todo # <<>> => running
  BY DEF IInv, Types, Shape
<1>1. CASE UNCHANGED <<todo, chunk, keepAliveCount, promises, running, read, parser>>
  BY <1>0, <1>1, QuietStep
<1>2. CASE HandshakeDone
  BY <1>0, <1>2, QuietStep DEF HandshakeDone
<1>3. CASE ReadAfterTimeout
  BY <1>0, <1>3, QuietStep DEF ReadAfterTimeout, ReadsError
<1>4. ASSUME NEW c \in Chunks, ReadData(c) PROVE IInv'
  <2>1. c \in Seq(Kinds)
    BY DEF Chunks
  <2> QED BY <1>0, <1>4, <2>1, QuietStep DEF ReadData, ReadsData
<1>5. CASE ReadFails
  BY <1>5, GivingUp
<1>6. CASE ParseFails
  BY <1>6, GivingUp
<1>7. CASE ParseRequest
  BY <1>7, ParseRequestStep
<1>8. CASE ReadAgain
  BY <1>0, <1>8, QuietStep DEF ReadAgain
<1>9. CASE Send
  BY <1>0, <1>9, AdvanceStep DEF Send, Last, Statements
<1>10. CASE SetKeepAliveTimeout
  BY <1>0, <1>10, AdvanceStep DEF SetKeepAliveTimeout, Last, Statements
<1>11. CASE StopReading
  <2>1. CASE Do("stop")
    BY <1>0, <1>11, <2>1, AdvanceStep DEF StopReading, Last, Statements
  <2>2. CASE Do("fail")
    BY <1>0, <1>11, <2>2, AdvanceStep DEF StopReading, Last, Statements
  <2> QED BY <1>11, <2>1, <2>2 DEF StopReading
<1>12. CASE Upgrade
  BY <1>12, AdvanceStep DEF Upgrade, Last, Statements
<1>13. CASE Leave
  BY <1>13, AdvanceStep DEF Leave, Last, Statements
<1>14. CASE CloseByRead
  BY <1>0, <1>14, AdvanceStep DEF CloseByRead, Last, Statements
<1>15. CASE Transmit
  BY <1>1, <1>15 DEF Transmit
<1>16. ASSUME NEW r \in W!Results, Settle(r) PROVE IInv'
  BY <1>1, <1>16 DEF Settle
<1>17. ASSUME NEW o \in owed, HandleWriteOk(o) \/ HandleWriteFails(o) PROVE IInv'
  BY <1>1, <1>17 DEF HandleWriteOk, HandleWriteFails
<1>18. CASE TimerExpires \/ HandleKeepAliveTimeout \/ ClientGone
  BY <1>1, <1>18 DEF TimerExpires, HandleKeepAliveTimeout, ClientGone
<1>19. CASE Rest \/ UNCHANGED vars
  BY <1>1, <1>19 DEF Rest, vars
<1>20. CASE Throw
  BY <1>20, AdvanceStep DEF Throw, Last, Statements
<1>21. CASE CloseByWrite
  BY <1>1, <1>21 DEF CloseByWrite
<1> QED
  BY <1>2, <1>3, <1>4, <1>5, <1>6, <1>7, <1>8, <1>9, <1>10, <1>11, <1>12, <1>13,
     <1>14, <1>15, <1>16, <1>17, <1>18, <1>19, <1>20, <1>21
     DEF Next, Progress, Waiting, Handler

\* A connection promises to be kept alive no more than keep_alive_max_count
\* times, for every maximum, width of the count and depth of pipelining.
THEOREM KeepAliveCorrect == Spec => []KeepAliveBound
<1>1. IInv => KeepAliveBound
  <2> SUFFICES ASSUME IInv PROVE KeepAliveBound
    OBVIOUS
  <2>1. Promising(todo) \in 0..1
    BY DEF Promising
  <2> QED BY <2>1, CountAssumption DEF IInv, Types, Budget, KeepAliveBound
<1> QED BY <1>1, InitInv, Invariance, PTL DEF Spec

-----------------------------------------------------------------------------
(* The types: how many frames there are *)

\* Frames are in the queue once, and only the first has been transmitted.
Distinct(q, w) ==
    /\ \A i, j \in 1..Len(q) : q[i] = q[j] => i = j
    /\ \A i \in 2..Len(q) : ~W!In(q[i], w)

\* The frames the writer has accepted.
Count(q, w) == Len(w) + Len(q) - (IF q # <<>> /\ W!In(Head(q), w) THEN 1 ELSE 0)

\* The frames a list of statements sends: none is longer than six.
Sent(t, i) == IF i <= Len(t) /\ t[i] = "send" THEN 1 ELSE 0
Sends(t) == Sent(t, 1) + Sent(t, 2) + Sent(t, 3) + Sent(t, 4) + Sent(t, 5) + Sent(t, 6)

\* Frames that requests the client has not sent after k chunks may make.
Left(k) == 4 * ((MaxChunks - k) * MaxPipeline)

FlagTypes ==
    /\ read \in {"handshake", "pending", "none"} /\ running \in BOOLEAN
    /\ parser \in {"ok", "stopped"} /\ continueRead \in BOOLEAN
    /\ armed \in BOOLEAN /\ expired \in Nat
    /\ socket \in {"own", "moved"} /\ shutting \in Nat
    /\ closedBy \in {"nobody", "read", "write"}
    /\ {lost, writing, crashed} \subseteq BOOLEAN

FrameTypes ==
    /\ queue \in Seq(Frames) /\ wire \in Seq(Frames)
    /\ owed \subseteq W!Reports /\ reported \subseteq W!Reports
    /\ Distinct(queue, wire)

\* The frames all requests may make: a request is answered by four at most.
Most == 4 * (MaxChunks * MaxPipeline)

FrameBudget ==
    /\ Len(chunk) <= MaxPipeline /\ chunks \in 0..MaxChunks
    /\ Len(todo) <= 6
    /\ Count(queue, wire) + Sends(todo) + 4 * Len(chunk) + Left(chunks) <= Most

TInv == FlagTypes /\ FrameTypes /\ FrameBudget

LEMMA InAppend ==
    ASSUME NEW S, NEW w \in Seq(S), NEW f \in S
    PROVE  \A g : W!In(g, Append(w, f)) <=> W!In(g, w) \/ g = f
<1> PICK v : v = Append(w, f)
  OBVIOUS
<1>1. /\ Len(w) \in Nat /\ Len(v) = Len(w) + 1 /\ v[Len(w) + 1] = f
      /\ \A i \in 1..Len(w) : v[i] = w[i]
  OBVIOUS
<1>2. \A g : W!In(g, v) <=> W!In(g, w) \/ g = f
  BY <1>1 DEF W!In
<1> QED
  BY <1>2

LEMMA CountFacts ==
    ASSUME NEW S, NEW q \in Seq(S), NEW w \in Seq(S)
    PROVE  Count(q, w) \in Nat
<1>1. Len(q) \in Nat /\ Len(w) \in Nat /\ (q # <<>> => Len(q) > 0)
  OBVIOUS
<1> QED
  BY <1>1 DEF Count

\* A frame is accepted that was not.
LEMMA QueueSubmit ==
    ASSUME NEW S, NEW q \in Seq(S), NEW w \in Seq(S), NEW f \in S,
           ~W!In(f, q), ~W!In(f, w), Distinct(q, w)
    PROVE  Distinct(Append(q, f), w) /\ Count(Append(q, f), w) = Count(q, w) + 1
<1> PICK p : p = Append(q, f)
  OBVIOUS
<1>1. /\ p \in Seq(S) /\ Len(q) \in Nat /\ Len(w) \in Nat
      /\ Len(p) = Len(q) + 1 /\ p[Len(q) + 1] = f
      /\ \A i \in 1..Len(q) : p[i] = q[i]
      /\ p # <<>> /\ Head(p) = p[1] /\ (q # <<>> => Head(q) = q[1] /\ 1 \in 1..Len(q))
      /\ q = <<>> => Len(q) = 0
  OBVIOUS
<1>2. \A i \in 1..Len(q) : q[i] # f
  BY DEF W!In
<1>3. Distinct(p, w)
  BY <1>1, <1>2 DEF Distinct
<1>4. W!In(Head(p), w) <=> q # <<>> /\ W!In(Head(q), w)
  <2>1. CASE q = <<>>
    BY <1>1, <2>1
  <2>2. CASE q # <<>>
    BY <1>1, <2>2
  <2> QED
    BY <2>1, <2>2
<1>5. Count(p, w) = Count(q, w) + 1
  BY <1>1, <1>4 DEF Count
<1> QED
  BY <1>3, <1>5

\* The oldest is given to the transport.
LEMMA QueueTransmit ==
    ASSUME NEW S, NEW q \in Seq(S), NEW w \in Seq(S), q # <<>>,
           ~W!In(Head(q), w), Distinct(q, w)
    PROVE  Distinct(q, Append(w, Head(q))) /\ Count(q, Append(w, Head(q))) = Count(q, w)
<1> PICK f : f = Head(q)
  OBVIOUS
<1> PICK v : v = Append(w, f)
  OBVIOUS
<1>1. /\ f \in S /\ v \in Seq(S) /\ Len(w) \in Nat /\ Len(q) \in Nat
      /\ Len(v) = Len(w) + 1 /\ f = q[1] /\ 1 \in 1..Len(q)
  OBVIOUS
<1>2. \A g : W!In(g, v) <=> W!In(g, w) \/ g = f
  BY <1>1, InAppend
<1>3. \A i \in 2..Len(q) : i \in 1..Len(q) /\ q[i] # f
  BY <1>1 DEF Distinct
<1>4. Distinct(q, v)
  BY <1>2, <1>3 DEF Distinct
<1>5. Count(q, v) = Count(q, w)
  <2>1. W!In(Head(q), v) /\ ~W!In(Head(q), w) /\ q # <<>>
    BY <1>2
  <2>2. Count(q, v) = Len(v) + Len(q) - 1 /\ Count(q, w) = Len(w) + Len(q) - 0
    BY <2>1, Zenon DEF Count
  <2> QED
    BY <1>1, <2>2
<1> QED
  BY <1>4, <1>5

\* The oldest leaves the queue.
LEMMA QueueSettle ==
    ASSUME NEW S, NEW q \in Seq(S), NEW w \in Seq(S), q # <<>>,
           W!In(Head(q), w), Distinct(q, w)
    PROVE  Distinct(Tail(q), w) /\ Count(Tail(q), w) = Count(q, w)
<1> PICK p : p = Tail(q)
  OBVIOUS
<1>1. /\ p \in Seq(S) /\ Len(w) \in Nat /\ Len(q) \in Nat /\ Len(p) = Len(q) - 1
      /\ \A i \in 1..Len(p) : p[i] = q[i + 1] /\ i + 1 \in 2..Len(q)
      /\ p # <<>> => Head(p) = p[1] /\ 1 \in 1..Len(p)
  OBVIOUS
<1>2. \A i \in 1..Len(p) : ~W!In(p[i], w)
  BY <1>1 DEF Distinct
<1>3. \A i, j \in 1..Len(p) : p[i] = p[j] => i = j
  <2> SUFFICES ASSUME NEW i \in 1..Len(p), NEW j \in 1..Len(p), p[i] = p[j]
               PROVE  i = j
    OBVIOUS
  <2>1. i + 1 \in 1..Len(q) /\ j + 1 \in 1..Len(q) /\ q[i + 1] = q[j + 1]
    BY <1>1
  <2>2. i + 1 = j + 1
    BY <2>1 DEF Distinct
  <2> QED
    BY <2>2
<1>4. Distinct(p, w)
  BY <1>1, <1>2, <1>3 DEF Distinct
<1>5. Count(p, w) = Count(q, w)
  <2>1. W!In(Head(q), w) /\ q # <<>> /\ ~(p # <<>> /\ W!In(Head(p), w))
    BY <1>1, <1>2
  <2>2. Count(p, w) = Len(w) + Len(p) - 0 /\ Count(q, w) = Len(w) + Len(q) - 1
    BY <2>1, Zenon DEF Count
  <2> QED
    BY <1>1, <2>2
<1> QED
  BY <1>4, <1>5

LEMMA LeftFacts ==
    /\ \A k \in 0..MaxChunks : Left(k) \in Nat
    /\ \A k \in 0..(MaxChunks - 1) : Left(k + 1) + 4 * MaxPipeline = Left(k)
    /\ Left(0) = Most
    /\ Most \in Nat
    /\ Frames = 1..Most
<1>1. \A a \in Nat : /\ a * MaxPipeline \in Nat
                     /\ (a + 1) * MaxPipeline = a * MaxPipeline + MaxPipeline
  BY BoundAssumption
<1>2. ASSUME NEW k \in 0..MaxChunks PROVE Left(k) \in Nat
  <2> PICK b : b = (MaxChunks - k) * MaxPipeline
    OBVIOUS
  <2>1. MaxChunks - k \in Nat
    BY BoundAssumption
  <2>2. b \in Nat
    BY <1>1, <2>1
  <2>3. Left(k) = 4 * b
    BY DEF Left
  <2> QED
    BY <2>2, <2>3
<1>3. ASSUME NEW k \in 0..(MaxChunks - 1)
      PROVE  Left(k + 1) + 4 * MaxPipeline = Left(k)
  <2> PICK a : a = MaxChunks - (k + 1)
    OBVIOUS
  <2> PICK b, c : b = a * MaxPipeline /\ c = (a + 1) * MaxPipeline
    OBVIOUS
  <2>1. a \in Nat /\ a + 1 = MaxChunks - k
    BY BoundAssumption
  <2>2. b \in Nat /\ c = b + MaxPipeline
    BY <1>1, <2>1
  <2>3. Left(k + 1) = 4 * b /\ Left(k) = 4 * c
    BY <2>1 DEF Left
  <2> QED
    BY <2>2, <2>3, BoundAssumption
<1>4. Left(0) = Most
  BY BoundAssumption DEF Left, Most
<1>5. Most \in Nat
  <2> PICK b : b = MaxChunks * MaxPipeline
    OBVIOUS
  <2>1. b \in Nat
    BY <1>1, BoundAssumption
  <2> QED
    BY <2>1 DEF Most
<1>6. Frames = 1..Most
  <2>1. 4 * MaxChunks * MaxPipeline = 4 * (MaxChunks * MaxPipeline)
    BY BoundAssumption
  <2> QED
    BY <2>1 DEF Frames, Most
<1> QED
  BY <1>2, <1>3, <1>4, <1>5, <1>6

LEMMA SendsFacts ==
    /\ \A t : Sends(t) \in Nat
    /\ Sends(<<>>) = 0
<1>1. \A t, i : Sent(t, i) \in 0..1
  BY DEF Sent
<1>2. \A t : Sends(t) \in Nat
  BY <1>1 DEF Sends
<1>3. \A i \in 1..6 : Sent(<<>>, i) = 0
  <2>1. \A i \in 1..6 : ~(i <= Len(<<>>))
    OBVIOUS
  <2> QED
    BY <2>1 DEF Sent
<1> QED
  BY <1>2, <1>3 DEF Sends

\* Executing a statement.
LEMMA SendsTail ==
    ASSUME NEW t \in Seq(Statements), t # <<>>, Len(t) <= 6
    PROVE  /\ Len(Tail(t)) <= 6
           /\ Sends(t) = Sends(Tail(t)) + (IF Head(t) = "send" THEN 1 ELSE 0)
<1> PICK u : u = Tail(t)
  OBVIOUS
<1>1. /\ u \in Seq(Statements) /\ Len(u) = Len(t) - 1
      /\ \A i \in 1..Len(u) : u[i] = t[i + 1]
      /\ Head(t) = t[1] /\ Len(t) \in Nat \ {0}
  BY TailFacts
<1>2. /\ Sent(u, 1) = Sent(t, 2) /\ Sent(u, 2) = Sent(t, 3) /\ Sent(u, 3) = Sent(t, 4)
      /\ Sent(u, 4) = Sent(t, 5) /\ Sent(u, 5) = Sent(t, 6) /\ Sent(u, 6) = 0
  BY <1>1 DEF Sent
<1>3. Sent(t, 1) = (IF Head(t) = "send" THEN 1 ELSE 0)
  BY <1>1 DEF Sent
<1>4. \A v, i : Sent(v, i) \in 0..1
  BY DEF Sent
<1>5. Sends(t) = Sends(u) + (IF Head(t) = "send" THEN 1 ELSE 0)
  BY <1>2, <1>3, <1>4 DEF Sends
<1> QED
  BY <1>1, <1>5

\* The lists of procHttpRequest.
LEMMA SendsProgram ==
    ASSUME NEW kind \in Kinds, NEW keepAlive \in BOOLEAN,
           NEW p, p = Program(kind, keepAlive)
    PROVE  Len(p) <= 6 /\ Sends(p) <= 4
<1>1. CASE p = <<"send", "send", "arm">> \/ p = <<"send", "send", "stop">>
           \/ p = <<"send", "send", "leave">>
  <2>1. Len(p) = 3 /\ p[3] # "send"
    BY <1>1
  <2> QED
    BY <2>1 DEF Sends, Sent
<1>2. CASE p = <<"send", "send", "arm", "send", "send", "leave">>
           \/ p = <<"send", "send", "stop", "send", "send", "leave">>
  <2>1. Len(p) = 6 /\ p[3] # "send" /\ p[6] # "send"
    BY <1>2
  <2> QED
    BY <2>1 DEF Sends, Sent
<1>3. CASE p = <<"send", "upgrade">>
  <2>1. Len(p) = 2
    BY <1>3
  <2> QED
    BY <2>1 DEF Sends, Sent
<1>4. CASE p = <<"fail">> \/ p = <<"throw">>
  <2>1. Len(p) = 1 /\ p[1] # "send"
    BY <1>4
  <2> QED
    BY <2>1 DEF Sends, Sent
<1> QED
  BY <1>1, <1>2, <1>3, <1>4, Programs

LEMMA SendsBadRequest ==
    Len(BadRequest) <= 6 /\ Sends(BadRequest) <= 4
<1> PICK p : p = BadRequest
  OBVIOUS
<1>1. p = <<"send", "send", "leave">>
  <2>1. BadRequest = <<"send", "send">> \o <<"leave">>
    BY DEF BadRequest, Response
  <2> QED
    BY <2>1, Join21 DEF Statements
<1>2. Len(p) = 3
  BY <1>1
<1> QED
  BY <1>2 DEF Sends, Sent

LEMMA SendsClose == Len(<<"close">>) <= 6 /\ Sends(<<"close">>) = 0
<1> PICK p : p = <<"close">>
  OBVIOUS
<1>1. Len(p) = 1 /\ p[1] # "send"
  OBVIOUS
<1>2. Sends(p) = 0
  BY <1>1 DEF Sends, Sent
<1> QED
  BY <1>1, <1>2

\* What a state may still send.
Due == Sends(todo) + 4 * Len(chunk) + Left(chunks)

LEMMA DueFacts ==
    ASSUME IInv, TInv
    PROVE  /\ Count(queue, wire) \in Nat /\ Due \in Nat /\ Len(chunk) \in Nat
           /\ Left(chunks) \in Nat /\ Sends(todo) \in Nat /\ Most \in Nat
           /\ Count(queue, wire) + Due <= Most
<1>1. Count(queue, wire) \in Nat
  BY CountFacts DEF TInv, FrameTypes
<1>2. Len(chunk) \in Nat
  BY DEF IInv, Types
<1>3. chunks \in 0..MaxChunks
  BY DEF TInv, FrameBudget
<1>4. Left(chunks) \in Nat /\ Most \in Nat
  BY <1>3, LeftFacts
<1>5. Sends(todo) \in Nat
  BY SendsFacts
<1>6. Count(queue, wire) + Sends(todo) + 4 * Len(chunk) + Left(chunks) <= Most
  BY DEF TInv, FrameBudget
<1>7. Due \in Nat /\ Count(queue, wire) + Due <= Most
  BY <1>1, <1>2, <1>4, <1>5, <1>6 DEF Due
<1> QED
  BY <1>1, <1>2, <1>4, <1>5, <1>7

\* What is due pays for the frames that are accepted.
LEMMA BudgetKept ==
    ASSUME IInv, TInv, IInv', FrameTypes',
           chunks' \in 0..MaxChunks, Len(chunk') <= MaxPipeline, Len(todo') <= 6,
           Count(queue, wire)' + Due' <= Count(queue, wire) + Due
    PROVE  FrameBudget'
<1>1. /\ Count(queue, wire) \in Nat /\ Due \in Nat /\ Most \in Nat
      /\ Count(queue, wire) + Due <= Most
  BY DueFacts
<1>2. Count(queue, wire)' \in Nat
  BY CountFacts DEF FrameTypes
<1>3. Len(chunk') \in Nat
  BY DEF IInv, Types
<1>4. Left(chunks') \in Nat
  BY LeftFacts
<1>5. Sends(todo') \in Nat
  BY SendsFacts
<1>6. Due' = Sends(todo') + 4 * Len(chunk') + Left(chunks') /\ Due' \in Nat
  BY <1>3, <1>4, <1>5 DEF Due
<1>7. Count(queue, wire)' + Due' <= Most
  BY <1>1, <1>2, <1>6
<1>8. Count(queue, wire)' + Sends(todo') + 4 * Len(chunk') + Left(chunks') <= Most
  <2>1. Count(queue, wire)' + (Sends(todo') + 4 * Len(chunk') + Left(chunks')) <= Most
    BY <1>6, <1>7
  <2> QED
    BY <1>2, <1>3, <1>4, <1>5, <2>1
<1> QED
  BY <1>8 DEF FrameBudget

\* What leaves the frames alone.
LEMMA QuietTyped ==
    ASSUME IInv, TInv, IInv', FlagTypes', UNCHANGED <<queue, wire>>,
           owed' \subseteq owed, reported' \subseteq W!Reports,
           chunks' \in 0..MaxChunks, Len(chunk') <= MaxPipeline, Len(todo') <= 6,
           Due' <= Due
    PROVE  TInv'
<1>1. FrameTypes'
  BY DEF TInv, FrameTypes
<1>2. Count(queue, wire)' = Count(queue, wire)
  OBVIOUS
<1>3. Due' \in Int
  <2>1. Len(chunk') \in Nat /\ Left(chunks') \in Nat /\ Sends(todo') \in Nat
    BY LeftFacts, SendsFacts DEF IInv, Types
  <2> PICK s, k, l : s = Sends(todo') /\ k = Len(chunk') /\ l = Left(chunks')
    OBVIOUS
  <2>2. Due' = s + 4 * k + l
    BY DEF Due
  <2> QED
    BY <2>1, <2>2
<1>4. Count(queue, wire) \in Nat /\ Due \in Nat
  BY DueFacts
<1>5. Count(queue, wire)' + Due' <= Count(queue, wire) + Due
  <2> PICK n, d, dd : n = Count(queue, wire) /\ d = Due /\ dd = Due'
    OBVIOUS
  <2>1. n + dd <= n + d
    BY <1>3, <1>4
  <2> QED
    BY <1>2, <2>1
<1>6. FrameBudget'
  BY <1>1, <1>5, BudgetKept
<1> QED
  BY <1>1, <1>6 DEF TInv

\* The lists and the data are as they were, but for the flags.
LEMMA FlagTyped ==
    ASSUME IInv, TInv, IInv', FlagTypes', UNCHANGED <<queue, wire, todo, chunk, chunks>>,
           owed' \subseteq owed, reported' \subseteq W!Reports
    PROVE  TInv'
<1>1. Due' = Due
  BY DEF Due
<1>2. Due \in Nat
  BY DueFacts
<1>3. Due' <= Due
  BY <1>1, <1>2
<1> QED
  BY <1>3, QuietTyped DEF TInv, FrameBudget

\* A statement that sends nothing is executed.
LEMMA StatementTyped ==
    ASSUME IInv, TInv, IInv', FlagTypes', NEW s \in Statements \ {"send"}, Do(s),
           UNCHANGED <<writer, chunks>>, chunk' \in {chunk, <<>>}
    PROVE  TInv'
<1>1. /\ todo \in Seq(Statements) /\ todo # <<>> /\ Head(todo) # "send" /\ todo' = Tail(todo)
      /\ Len(todo) <= 6
  BY DEF Do, IInv, Types, TInv, FrameBudget
<1>2. Len(todo') <= 6 /\ Sends(todo) = Sends(todo') + 0
  BY <1>1, SendsTail
<1>3. /\ Len(chunk) \in Nat /\ Left(chunks) \in Nat /\ Sends(todo) \in Nat
  BY DueFacts
<1>4. Sends(todo') \in Nat
  BY SendsFacts
<1>5. Len(chunk') \in Nat /\ Len(chunk') <= Len(chunk)
  <2>1. Len(<<>>) = 0
    OBVIOUS
  <2> QED
    BY <1>3, <2>1
<1>6. Due' <= Due
  <2> PICK a, aa, k, kk, l : /\ a = Sends(todo) /\ aa = Sends(todo') /\ k = Len(chunk)
                             /\ kk = Len(chunk') /\ l = Left(chunks)
    OBVIOUS
  <2>1. aa + 4 * kk + l <= a + 4 * k + l
    BY <1>2, <1>3, <1>4, <1>5
  <2> QED
    BY <2>1 DEF Due
<1>7. Len(chunk') <= MaxPipeline
  BY <1>3, <1>5, BoundAssumption DEF TInv, FrameBudget
<1> QED
  BY <1>2, <1>6, <1>7, QuietTyped DEF writer, TInv, FrameTypes, FrameBudget

\* sendRaw: the number of the frame is within the bound.
LEMMA SendTyped ==
    ASSUME IInv, TInv, IInv', Send
    PROVE  TInv'
<1> PICK f : f = Len(wire) + Len(queue) + IF InFlight THEN 0 ELSE 1
  OBVIOUS
<1>0. /\ W!Submit(f) /\ Do("send")
      /\ UNCHANGED <<chunk, chunks, owed, reported>>
  BY DEF Send, timer, others, W!Submit
<1>1. FlagTypes'
  BY DEF TInv, FlagTypes, Send, timer, others, W!Submit, InFlight
<1>2. /\ todo \in Seq(Statements) /\ todo # <<>> /\ Head(todo) = "send" /\ todo' = Tail(todo)
      /\ Len(todo) <= 6
  BY <1>0 DEF Do, IInv, Types, TInv, FrameBudget
<1>3. Len(todo') <= 6 /\ Sends(todo) = Sends(todo') + 1
  BY <1>2, SendsTail
<1>4. queue \in Seq(Frames) /\ wire \in Seq(Frames) /\ Distinct(queue, wire)
  BY DEF TInv, FrameTypes
<1>5. f = Count(queue, wire) + 1
  <2>1. Len(queue) \in Nat /\ Len(wire) \in Nat
    BY <1>4
  <2> QED
    BY <2>1 DEF InFlight, Count
<1>6. /\ Count(queue, wire) \in Nat /\ Due \in Nat /\ Most \in Nat
      /\ Len(chunk) \in Nat /\ Left(chunks) \in Nat
      /\ Count(queue, wire) + Due <= Most
  BY DueFacts
<1>7. Sends(todo') \in Nat
  BY SendsFacts
<1>8. Due = Due' + 1 /\ Due' \in Nat
  <2>1. Due' = Sends(todo') + 4 * Len(chunk) + Left(chunks)
    BY <1>0 DEF Due
  <2>2. Due = (Sends(todo') + 1) + 4 * Len(chunk) + Left(chunks)
    BY <1>3 DEF Due
  <2>3. \A a, k, l \in Nat : /\ (a + 1) + 4 * k + l = (a + 4 * k + l) + 1
                            /\ a + 4 * k + l \in Nat
    OBVIOUS
  <2>4. /\ (Sends(todo') + 1) + 4 * Len(chunk) + Left(chunks)
             = (Sends(todo') + 4 * Len(chunk) + Left(chunks)) + 1
        /\ Sends(todo') + 4 * Len(chunk) + Left(chunks) \in Nat
    BY <1>6, <1>7, <2>3, Zenon
  <2> QED
    BY <2>1, <2>2, <2>4, Zenon
<1>9. f \in Frames
  <2>1. f \in 1..Most
    BY <1>5, <1>6, <1>8
  <2> QED
    BY <2>1, LeftFacts
<1>10. /\ queue' = Append(queue, f) /\ wire' = wire
       /\ ~W!In(f, queue) /\ ~W!In(f, wire)
  BY <1>0 DEF W!Submit
<1>11. /\ Distinct(queue, wire)' /\ Count(queue, wire)' = Count(queue, wire) + 1
       /\ queue' \in Seq(Frames)
  BY <1>4, <1>9, <1>10, QueueSubmit
<1>12. FrameTypes'
  BY <1>0, <1>10, <1>11 DEF TInv, FrameTypes
<1>13. Count(queue, wire)' + Due' <= Count(queue, wire) + Due
  BY <1>6, <1>8, <1>11
<1>14. FrameBudget'
  BY <1>0, <1>3, <1>12, <1>13, BudgetKept DEF TInv, FrameBudget
<1> QED
  BY <1>1, <1>12, <1>14 DEF TInv

\* A request is parsed, or what comes after one the parser stopped at.
LEMMA ParseTyped ==
    ASSUME IInv, TInv, IInv', ParseRequest \/ ParseFails
    PROVE  TInv'
<1>0. /\ todo = <<>> /\ chunk # <<>> /\ chunk' \in {Tail(chunk), <<>>}
      /\ UNCHANGED <<writer, chunks>>
      /\ FlagTypes'
  BY DEF ParseRequest, ParseFails, others, writer, timer, TInv, FlagTypes
<1>1. Len(todo') <= 6 /\ Sends(todo') <= 4
  <2>1. CASE ParseFails
    BY <2>1, SendsBadRequest DEF ParseFails
  <2>2. CASE ParseRequest
    <3> PICK kind, keepAlive : /\ kind = Head(chunk)
                               /\ keepAlive = (kind # "close" /\ keepAliveCount > 0)
      OBVIOUS
    <3>1. kind \in Kinds /\ keepAlive \in BOOLEAN
      BY <1>0 DEF IInv, Types
    <3>2. todo' = Program(kind, keepAlive)
      BY <2>2 DEF ParseRequest
    <3> QED
      BY <3>1, <3>2, SendsProgram
  <2> QED
    BY <2>1, <2>2
<1>2. Len(chunk) \in Nat /\ Len(chunk') \in Nat /\ Len(chunk') + 1 <= Len(chunk)
  <2>1. Len(<<>>) = 0
    OBVIOUS
  <2>2. chunk \in Seq(Kinds)
    BY DEF IInv, Types
  <2>3. Len(Tail(chunk)) = Len(chunk) - 1 /\ Len(chunk) \in Nat \ {0}
    BY <1>0, <2>2
  <2> QED
    BY <1>0, <2>1, <2>3
<1>3. Left(chunks) \in Nat
  BY DueFacts
<1>4. Due' <= Due
  <2> PICK a, k, kk, l : /\ a = Sends(todo') /\ k = Len(chunk)
                         /\ kk = Len(chunk') /\ l = Left(chunks)
    OBVIOUS
  <2>1. a \in Nat
    BY SendsFacts
  <2>2. a + 4 * kk + l <= 0 + 4 * k + l
    BY <1>1, <1>2, <1>3, <2>1
  <2> QED
    BY <1>0, <2>2, SendsFacts DEF Due, writer
<1>5. Len(chunk') <= MaxPipeline
  BY <1>2, BoundAssumption DEF TInv, FrameBudget
<1> QED
  BY <1>0, <1>1, <1>4, <1>5, QuietTyped DEF writer, TInv, FrameTypes, FrameBudget

\* A chunk of requests comes, to a connection that has no other.
LEMMA ReadTyped ==
    ASSUME IInv, TInv, IInv', NEW c \in Chunks, ReadData(c)
    PROVE  TInv'
<1>0. /\ chunks < MaxChunks /\ chunk' = c /\ chunks' = chunks + 1
      /\ UNCHANGED <<writer, todo>>
  BY DEF ReadData, ReadsData
<1>1. FlagTypes'
  BY DEF ReadData, ReadsData, writer, TInv, FlagTypes
<1>2. Len(c) \in 0..MaxPipeline
  BY BoundAssumption DEF Chunks
<1>3. chunks \in 0..(MaxChunks - 1) /\ chunks' \in 0..MaxChunks
  BY <1>0, BoundAssumption DEF TInv, FrameBudget
<1>4. Left(chunks) \in Nat /\ Len(chunk) \in Nat /\ Sends(todo) \in Nat
  BY DueFacts
<1>5. Left(chunks') + 4 * MaxPipeline = Left(chunks) /\ Left(chunks') \in Nat
  <2> PICK k : k = chunks
    OBVIOUS
  <2>1. k \in 0..(MaxChunks - 1) /\ k + 1 \in 0..MaxChunks
    BY <1>0, <1>3
  <2>2. Left(k + 1) + 4 * MaxPipeline = Left(k) /\ Left(k + 1) \in Nat
    BY <2>1, LeftFacts
  <2> QED
    BY <1>0, <2>2
<1>6. Due' <= Due
  <2> PICK a, k, kk, l, ll : /\ a = Sends(todo) /\ k = Len(chunk) /\ kk = Len(c)
                             /\ l = Left(chunks) /\ ll = Left(chunks')
    OBVIOUS
  <2>1. a + 4 * kk + ll <= a + 4 * k + l
    BY <1>2, <1>4, <1>5, BoundAssumption
  <2> QED
    BY <1>0, <2>1 DEF Due
<1>7. Len(todo') <= 6 /\ Len(chunk') <= MaxPipeline
  BY <1>0, <1>2, BoundAssumption DEF TInv, FrameBudget
<1> QED
  BY <1>0, <1>1, <1>3, <1>6, <1>7, QuietTyped DEF writer, TInv, FrameTypes

LEMMA WriterTyped ==
    ASSUME IInv, TInv, IInv', Transmit \/ \E r \in W!Results : Settle(r)
    PROVE  TInv'
<1>0. UNCHANGED <<conn, timer, others>> /\ reported' = reported
  BY DEF Transmit, Settle, W!Transmit, W!Settle
<1>1. queue \in Seq(Frames) /\ wire \in Seq(Frames) /\ Distinct(queue, wire)
  BY DEF TInv, FrameTypes
<1>2. /\ queue' \in Seq(Frames) /\ wire' \in Seq(Frames) /\ Distinct(queue, wire)'
      /\ Count(queue, wire)' = Count(queue, wire)
      /\ owed' \subseteq W!Reports /\ writing' \in BOOLEAN
  <2>1. CASE Transmit
    <3>1. /\ queue # <<>> /\ ~W!In(Head(queue), wire) /\ queue' = queue
          /\ wire' = Append(wire, Head(queue)) /\ owed' = owed /\ writing' = writing
      BY <2>1 DEF Transmit, W!Transmit
    <3>2. wire' \in Seq(Frames)
      BY <1>1, <3>1
    <3> QED
      BY <1>1, <3>1, <3>2, QueueTransmit DEF TInv, FrameTypes, FlagTypes
  <2>2. ASSUME NEW r \in W!Results, Settle(r)
        PROVE  /\ queue' \in Seq(Frames) /\ wire' \in Seq(Frames) /\ Distinct(queue, wire)'
               /\ Count(queue, wire)' = Count(queue, wire)
               /\ owed' \subseteq W!Reports /\ writing' \in BOOLEAN
    <3>1. /\ queue # <<>> /\ W!In(Head(queue), wire) /\ wire' = wire
          /\ queue' = Tail(queue) /\ writing' = (r = "ok")
          /\ owed' = owed \union {[frame |-> Head(queue), ec |-> r]}
      BY <2>2 DEF Settle, W!Settle
    <3>2. Head(queue) \in Frames /\ queue' \in Seq(Frames)
      BY <1>1, <3>1
    <3>3. owed' \subseteq W!Reports
      BY <3>1, <3>2 DEF TInv, FrameTypes, W!Reports
    <3> QED
      BY <1>1, <3>1, <3>2, <3>3, QueueSettle
  <2> QED
    BY <2>1, <2>2
<1>3. FlagTypes'
  BY <1>0, <1>2 DEF TInv, FlagTypes, conn, timer, others
<1>4. FrameTypes'
  BY <1>0, <1>2 DEF TInv, FrameTypes
<1>5. FrameBudget'
  BY <1>0, <1>2 DEF TInv, FrameBudget, conn, others
<1> QED
  BY <1>3, <1>4, <1>5 DEF TInv

LEMMA TypedStep == IInv /\ TInv /\ [Next]_vars => TInv'
<1> SUFFICES ASSUME IInv, TInv, [Next]_vars PROVE TInv'
  OBVIOUS
<1> USE DEF conn, timer, writer, others
<1>0. IInv' /\ reported \subseteq W!Reports
  BY Invariance DEF TInv, FrameTypes
<1>1. CASE HandshakeDone
  <2>1. FlagTypes'
    BY <1>1 DEF HandshakeDone, TInv, FlagTypes
  <2> QED
    BY <1>0, <1>1, <2>1, FlagTyped DEF HandshakeDone
<1>2. CASE ReadAfterTimeout
  <2>1. FlagTypes'
    BY <1>2 DEF ReadAfterTimeout, TInv, FlagTypes
  <2> QED
    BY <1>0, <1>2, <2>1, FlagTyped DEF ReadAfterTimeout
<1>3. ASSUME NEW c \in Chunks, ReadData(c) PROVE TInv'
  BY <1>0, <1>3, ReadTyped
<1>4. CASE ReadFails
  <2>1. FlagTypes'
    BY <1>4 DEF ReadFails, TInv, FlagTypes
  <2>2. todo' = <<"close">> /\ UNCHANGED <<writer, chunk, chunks>>
    BY <1>4 DEF ReadFails
  <2>3. Len(todo') <= 6 /\ Sends(todo') = 0
    BY <2>2, SendsClose
  <2>4. Due' <= Due
    <3>1. Len(chunk) \in Nat /\ Left(chunks) \in Nat /\ Sends(todo) \in Nat
      BY DueFacts
    <3> PICK a, k, l : a = Sends(todo) /\ k = Len(chunk) /\ l = Left(chunks)
      OBVIOUS
    <3>2. 0 + 4 * k + l <= a + 4 * k + l
      BY <3>1
    <3> QED
      BY <2>2, <2>3, <3>2 DEF Due
  <2> QED
    BY <1>0, <2>1, <2>2, <2>3, <2>4, QuietTyped DEF TInv, FrameBudget
<1>5. CASE ParseRequest \/ ParseFails
  BY <1>0, <1>5, ParseTyped
<1>6. CASE ReadAgain
  <2>1. FlagTypes'
    BY <1>6 DEF ReadAgain, TInv, FlagTypes
  <2> QED
    BY <1>0, <1>6, <2>1, FlagTyped DEF ReadAgain
<1>7. CASE Send
  BY <1>0, <1>7, SendTyped
<1>8. CASE SetKeepAliveTimeout
  <2>1. FlagTypes'
    BY <1>8 DEF SetKeepAliveTimeout, TInv, FlagTypes
  <2> QED
    BY <1>0, <1>8, <2>1, StatementTyped DEF SetKeepAliveTimeout, Statements
<1>9. CASE StopReading
  <2>1. FlagTypes'
    BY <1>9 DEF StopReading, TInv, FlagTypes
  <2> QED
    BY <1>0, <1>9, <2>1, StatementTyped DEF StopReading, Statements
<1>10. CASE Upgrade
  <2>1. FlagTypes'
    BY <1>10 DEF Upgrade, TInv, FlagTypes
  <2> QED
    BY <1>0, <1>10, <2>1, StatementTyped DEF Upgrade, Statements
<1>11. CASE Leave
  <2>1. FlagTypes'
    BY <1>11 DEF Leave, TInv, FlagTypes
  <2> QED
    BY <1>0, <1>11, <2>1, StatementTyped DEF Leave, Statements
<1>12. CASE CloseByRead
  <2>1. FlagTypes'
    BY <1>12 DEF CloseByRead, CloseSocket, TInv, FlagTypes
  <2> QED
    BY <1>0, <1>12, <2>1, StatementTyped DEF CloseByRead, Statements
<1>13. CASE Transmit \/ \E r \in W!Results : Settle(r)
  BY <1>0, <1>13, WriterTyped
<1>14. ASSUME NEW o \in owed, HandleWriteOk(o) \/ HandleWriteFails(o) PROVE TInv'
  <2>1. FlagTypes'
    <3>1. CASE HandleWriteOk(o)
      BY <3>1 DEF HandleWriteOk, TInv, FlagTypes
    <3>2. CASE HandleWriteFails(o)
      <4>1. shutting' \in Nat
        BY <3>2 DEF HandleWriteFails, TInv, FlagTypes
      <4>2. armed' \in BOOLEAN /\ crashed' \in BOOLEAN
        BY <3>2 DEF HandleWriteFails, TInv, FlagTypes
      <4>3. UNCHANGED <<read, running, parser, continueRead, expired, socket, closedBy,
                        lost, writing>>
        BY <3>2 DEF HandleWriteFails
      <4> QED
        BY <4>1, <4>2, <4>3 DEF TInv, FlagTypes
    <3> QED
      BY <1>14, <3>1, <3>2
  <2>2. owed' \subseteq owed /\ reported' \subseteq W!Reports
    BY <1>14 DEF HandleWriteOk, HandleWriteFails, W!Report, TInv, FrameTypes
  <2>3. UNCHANGED <<queue, wire, todo, chunk, chunks>>
    BY <1>14 DEF HandleWriteOk, HandleWriteFails, W!Report
  <2> QED
    BY <1>0, <2>1, <2>2, <2>3, FlagTyped
<1>15. CASE TimerExpires \/ HandleKeepAliveTimeout \/ ClientGone
  <2>1. FlagTypes'
    <3>1. CASE TimerExpires
      <4>1. expired' \in Nat
        BY <3>1 DEF TimerExpires, TInv, FlagTypes
      <4>2. armed' \in BOOLEAN
        BY <3>1 DEF TimerExpires
      <4>3. UNCHANGED <<read, running, parser, continueRead, socket, shutting, closedBy,
                        lost, writing, crashed>>
        BY <3>1 DEF TimerExpires
      <4> QED
        BY <4>1, <4>2, <4>3 DEF TInv, FlagTypes
    <3>2. CASE HandleKeepAliveTimeout
      <4>1. expired' \in Nat
        BY <3>2 DEF HandleKeepAliveTimeout, TInv, FlagTypes
      <4> QED
        BY <3>2, <4>1 DEF HandleKeepAliveTimeout, TInv, FlagTypes
    <3>3. CASE ClientGone
      BY <3>3 DEF ClientGone, TInv, FlagTypes
    <3> QED
      BY <1>15, <3>1, <3>2, <3>3
  <2> QED
    BY <1>0, <1>15, <2>1, FlagTyped DEF TimerExpires, HandleKeepAliveTimeout, ClientGone
<1>17. CASE Throw
  <2>1. FlagTypes'
    BY <1>17 DEF Throw, TInv, FlagTypes
  <2> QED
    BY <1>0, <1>17, <2>1, StatementTyped DEF Throw, Statements
<1>18. CASE CloseByWrite
  <2>1. FlagTypes'
    <3>1. shutting' \in Nat
      BY <1>18 DEF CloseByWrite, TInv, FlagTypes
    <3>2. closedBy' \in {"nobody", "read", "write"}
      BY <1>18 DEF CloseByWrite, CloseSocket, TInv, FlagTypes
    <3>3. UNCHANGED <<read, running, parser, continueRead, armed, expired, socket, lost,
                      writing, crashed>>
      BY <1>18 DEF CloseByWrite
    <3> QED
      BY <3>1, <3>2, <3>3 DEF TInv, FlagTypes
  <2> QED
    BY <1>0, <1>18, <2>1, FlagTyped DEF CloseByWrite
<1>16. CASE Rest \/ UNCHANGED vars
  <2>1. FlagTypes'
    BY <1>16 DEF Rest, vars, TInv, FlagTypes
  <2> QED
    BY <1>0, <1>16, <2>1, FlagTyped DEF Rest, vars
<1> QED
  BY <1>1, <1>2, <1>3, <1>4, <1>5, <1>6, <1>7, <1>8, <1>9, <1>10, <1>11,
     <1>12, <1>13, <1>14, <1>15, <1>16, <1>17, <1>18
     DEF Next, Progress, Waiting, Handler

LEMMA TypedInit == Init => TInv
<1> SUFFICES ASSUME Init PROVE TInv
  OBVIOUS
<1>1. /\ todo = <<>> /\ chunk = <<>> /\ chunks = 0 /\ queue = <<>> /\ wire = <<>>
      /\ owed = {} /\ reported = {}
  BY DEF Init, W!Init
<1>2. FlagTypes
  BY DEF Init, FlagTypes
<1>3. FrameTypes
  BY <1>1 DEF FrameTypes, Distinct
<1>4. FrameBudget
  <2>1. Count(<<>>, <<>>) = 0 /\ Len(<<>>) = 0
    BY DEF Count
  <2>2. Sends(todo) = 0
    BY <1>1, SendsFacts
  <2>3. 0 + 0 + 4 * 0 + Left(0) <= Most
    BY LeftFacts
  <2>4. chunks \in 0..MaxChunks /\ 0 <= MaxPipeline /\ 0 <= 6
    BY <1>1, BoundAssumption
  <2> QED
    BY <1>1, <2>1, <2>2, <2>3, <2>4 DEF FrameBudget
<1> QED
  BY <1>2, <1>3, <1>4 DEF TInv

\* The types of an HTTP connection: the keep-alive count keeps its width, no
\* more than four frames answer a request, and each is submitted once.
THEOREM ConnectionTyped == Spec => []TypeOK
<1>1. IInv /\ TInv => TypeOK
  <2> SUFFICES ASSUME IInv, TInv PROVE TypeOK
    OBVIOUS
  <2>1. /\ todo \in Seq(Statements) /\ chunk \in Seq(Kinds)
        /\ keepAliveCount \in 0..CountModulus - 1 /\ promises \in Nat
    BY DEF IInv, Types
  <2>2. Len(chunk) <= MaxPipeline /\ chunks \in 0..MaxChunks
    BY DEF TInv, FrameBudget
  <2> QED
    BY <2>1, <2>2 DEF TInv, FlagTypes, FrameTypes, TypeOK
<1> QED
  BY <1>1, InitInv, Invariance, TypedInit, TypedStep, PTL DEF Spec
=============================================================================
