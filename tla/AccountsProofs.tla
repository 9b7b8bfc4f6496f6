--------------------------- MODULE AccountsProofs ---------------------------
(***************************************************************************)
(* Proofs about the archive and the accounts.                              *)
(*                                                                         *)
(* What is read of the archive depends on the rows only: both properties   *)
(* of the reads follow from the type of the table, and from what cutting   *)
(* times to seconds preserves.                                             *)
(***************************************************************************)
EXTENDS Accounts, FiniteSetTheorems, TLAPS

\* to_time_t keeps the order of times.
LEMMA SecondsKeepOrder ==
    ASSUME NEW a \in Nat, NEW b \in Nat, a <= b
    PROVE  /\ to_time_t(a) \in Nat
           /\ to_time_t(b) \in Nat
           /\ to_time_t(a) <= to_time_t(b)
  BY TickAssumption, SMT DEF to_time_t

\* to_time_t reads back what from_time_t makes of a second.
LEMMA SecondReadBack ==
    ASSUME NEW s \in Nat
    PROVE  from_time_t(s) \in Nat /\ to_time_t(from_time_t(s)) = s
  BY TickAssumption, SMT DEF to_time_t, from_time_t

-----------------------------------------------------------------------------
(* Type correctness *)

LEMMA InitTyped == Init => TypeOK
<1> SUFFICES ASSUME Init PROVE TypeOK
  OBVIOUS
<1>1. log \in Seq(Row)
  BY DEF Init
<1>2. Hashes \subseteq Hash
  <2> DEFINE Foreign == [parts : {4, 5}, format : {"s0", "2a"}, of : Passwords]
  <2>1. ASSUME NEW p \in Passwords PROVE crypt(p) \in Hash
    BY DEF Hash, crypt
  <2>2. ASSUME NEW h \in Foreign PROVE h \in Hash
    <3>1. h = [parts |-> h.parts, format |-> h.format, of |-> h.of]
      OBVIOUS
    <3>2. h.parts \in {4, 5} /\ h.format \in {"s0", "2a"} /\ h.of \in Passwords
      OBVIOUS
    <3>3. h.parts \in 1..5
      BY <3>2
    <3> QED
      BY <3>1, <3>2, <3>3 DEF Hash
  <2> QED
    BY <2>1, <2>2 DEF Hashes
<1>3. DOMAIN hashes \subseteq Users /\ \A u \in DOMAIN hashes : hashes[u] \in Hash
  BY <1>2 DEF Init
<1>4. DOMAIN sessions = {} /\ context \in [Contexts -> Context]
  BY DEF Init, Context
<1> QED
  BY <1>1, <1>3, <1>4 DEF TypeOK

LEMMA NextTyped == TypeOK /\ [Next]_vars => TypeOK'
<1> SUFFICES ASSUME TypeOK, [Next]_vars PROVE TypeOK'
  OBVIOUS
<1> USE DEF TypeOK
<1>1. ASSUME NEW k \in Keys, NEW time \in Times, Insert(k, time)
      PROVE  TypeOK'
  <2>1. time \in Nat
    BY <1>1, BoundsAssumption DEF Times
  <2>2. [key |-> k, logTime |-> to_time_t(time)] \in Row
    BY <2>1, SecondsKeepOrder DEF Row
  <2>3. log' \in Seq(Row)
    BY <1>1, <2>2 DEF Insert, insertLog
  <2> QED
    BY <1>1, <2>3 DEF Insert, accounts
<1>2. ASSUME NEW c \in Contexts, NEW u \in Users, NEW p \in Passwords,
             AuthorizePassword(c, u, p)
      PROVE  TypeOK'
  <2>1. PICK key \in SessionKeys \ DOMAIN sessions :
          /\ sessions' = IF checkPassword(u, p) = "true"
                         THEN [s \in DOMAIN sessions \union {key} |->
                                 IF s = key THEN u ELSE sessions[s]]
                         ELSE sessions
          /\ context' = IF checkPassword(u, p) = "true"
                        THEN [context EXCEPT ![c] =
                                [userId |-> u, sessionKey |-> key]]
                        ELSE context
    BY <1>2 DEF AuthorizePassword, generateSessionKey, alloc
  <2>2. /\ DOMAIN sessions' \subseteq SessionKeys
        /\ \A s \in DOMAIN sessions' : sessions'[s] \in Users
    BY <2>1
  <2>3. context' \in [Contexts -> Context]
    BY <2>1 DEF Context
  <2> QED
    BY <1>2, <2>2, <2>3 DEF AuthorizePassword
<1>3. ASSUME NEW c \in Contexts, NEW key \in SessionKeys, AuthorizeKey(c, key)
      PROVE  TypeOK'
  <2>1. context' \in [Contexts -> Context]
    BY <1>3 DEF AuthorizeKey, Context
  <2> QED
    BY <1>3, <2>1 DEF AuthorizeKey
<1>4. CASE UNCHANGED vars
  BY <1>4 DEF vars, accounts
<1> QED
  BY <1>1, <1>2, <1>3, <1>4 DEF Next

\* Every row of the archive, hash, session and context is well formed.
THEOREM TypeCorrect == Spec => []TypeOK
  BY InitTyped, NextTyped, PTL DEF Spec

-----------------------------------------------------------------------------
(* The archive *)

LEMMA RowsTyped ==
    ASSUME TypeOK, NEW k \in Keys
    PROVE  /\ Rows(k) \subseteq 1..Len(log)
           /\ Len(log) \in Nat
           /\ \A i \in Rows(k) : i \in Nat /\ log[i].logTime \in Nat
<1>1. log \in Seq(Row)
  BY DEF TypeOK
<1>2. Len(log) \in Nat /\ DOMAIN log = 1..Len(log)
  BY <1>1
<1>3. \A i \in 1..Len(log) : log[i] \in Row
  BY <1>1
<1>4. Rows(k) \subseteq 1..Len(log)
  BY <1>2 DEF Rows
<1>5. \A i \in 1..Len(log) : i \in Nat /\ log[i].logTime \in Nat
  BY <1>2, <1>3 DEF Row
<1> QED
  BY <1>2, <1>4, <1>5

LEMMA RangesMeetTyped == TypeOK => RangesMeet
<1> SUFFICES ASSUME TypeOK, NEW k \in Keys,
                    NEW begin \in Times, NEW middle \in Times, NEW end \in Times,
                    begin <= middle, middle <= end
             PROVE  LET first == fetchRange(k, begin, middle)
                        second == fetchRange(k, middle, end)
                    IN  /\ first \union second = fetchRange(k, begin, end)
                        /\ InOrder(k) => \A i \in first, j \in second : i < j
                        /\ first \intersect second = {}
  BY DEF RangesMeet
<1> DEFINE b == to_time_t(begin)
           m == to_time_t(middle)
           e == to_time_t(end)
           T(i) == log[i].logTime
           first == fetchRange(k, begin, middle)
           second == fetchRange(k, middle, end)
<1>1. begin \in Nat /\ middle \in Nat /\ end \in Nat
  BY BoundsAssumption DEF Times
<1>2. b \in Nat /\ m \in Nat /\ e \in Nat /\ b <= m /\ m <= e
  BY <1>1, SecondsKeepOrder
<1>3. \A i \in Rows(k) : i \in Nat /\ T(i) \in Nat
  BY RowsTyped
\* The guard on begin and end takes nothing away: such a range is empty anyway.
<1>4. /\ first = {i \in Rows(k) : T(i) >= b /\ T(i) < m}
      /\ second = {i \in Rows(k) : T(i) >= m /\ T(i) < e}
      /\ fetchRange(k, begin, end) = {i \in Rows(k) : T(i) >= b /\ T(i) < e}
  <2>1. ASSUME NEW x \in Nat, NEW y \in Nat, x <= y
        PROVE  fetchRange(k, x, y) =
                 {i \in Rows(k) : T(i) >= to_time_t(x) /\ T(i) < to_time_t(y)}
    <3>1. CASE x = y
      <4>1. to_time_t(x) \in Nat
        BY SecondsKeepOrder
      <4>2. \A i \in Rows(k) : ~(T(i) >= to_time_t(x) /\ T(i) < to_time_t(x))
        BY <4>1, <1>3
      <4> QED
        BY <3>1, <4>2 DEF fetchRange
    <3>2. CASE x < y
      BY <3>2 DEF fetchRange
    <3> QED
      BY <2>1, <3>1, <3>2
  <2> QED
    BY <1>1, <2>1
<1>5. first \union second = fetchRange(k, begin, end)
  BY <1>2, <1>3, <1>4
<1>6. first \intersect second = {}
  BY <1>2, <1>3, <1>4
<1>7. ASSUME InOrder(k), NEW i \in first, NEW j \in second
      PROVE  i < j
  <2>1. i \in Rows(k) /\ j \in Rows(k) /\ T(i) < T(j)
    BY <1>2, <1>3, <1>4
  <2> QED
    BY <1>3, <1>7, <2>1 DEF InOrder
<1> QED
  BY <1>5, <1>6, <1>7

\* Cutting a range of times anywhere neither loses nor repeats a line, whatever
\* the table holds and however many ticks a second has.
THEOREM RangesCorrect == Spec => []RangesMeet
  BY TypeCorrect, RangesMeetTyped, PTL

LEMMA PagesMeetTyped == TypeOK => PagesMeet
<1> SUFFICES ASSUME TypeOK, NEW k \in Keys, NEW end \in Times,
                    NEW lines \in 1..MaxRows, NEW more \in 1..MaxRows,
                    NEW includeEnd \in BOOLEAN,
                    InOrder(k),
                    NEW oldest \in fetchLast(k, end, lines, includeEnd),
                    \A i \in fetchLast(k, end, lines, includeEnd) : oldest <= i
             PROVE  LET page == fetchLast(k, end, lines, includeEnd)
                        from == from_time_t(log[oldest].logTime)
                        older == fetchLast(k, from, more, TRUE)
                        strictly == fetchLast(k, from, more, FALSE)
                    IN  /\ \A i \in older, j \in Rows(k) :
                             i <= j /\ j <= oldest => j \in older \union page
                        /\ strictly \intersect page = {}
  BY DEF PagesMeet
<1> DEFINE page == fetchLast(k, end, lines, includeEnd)
           T(i) == log[i].logTime
           from == from_time_t(T(oldest))
           upTo == {i \in Rows(k) : T(i) < T(oldest) + 1}
           older == fetchLast(k, from, more, TRUE)
           strictly == fetchLast(k, from, more, FALSE)
<1>1. /\ page \subseteq Rows(k)
      /\ strictly \subseteq Rows(k)
  BY DEF fetchLast
<1>2. /\ Rows(k) \subseteq 1..Len(log)
      /\ Len(log) \in Nat
      /\ \A i \in Rows(k) : i \in Nat /\ T(i) \in Nat
  BY RowsTyped
<1>3. oldest \in Rows(k) /\ T(oldest) \in Nat
  BY <1>1, <1>2
<1>4. to_time_t(from) = T(oldest)
  BY <1>3, SecondReadBack
<1>5. older = {i \in upTo : Cardinality({j \in upTo : j > i}) < more}
  BY <1>4 DEF fetchLast
<1>6. ASSUME NEW i \in older, NEW j \in Rows(k), i <= j, j <= oldest
      PROVE  j \in older
  <2>1. i \in upTo /\ i \in Nat /\ j \in Nat
    BY <1>2, <1>5
  <2>2. T(j) <= T(oldest)
    BY <1>2, <1>3, <1>6 DEF InOrder
  <2>3. j \in upTo
    BY <1>2, <1>3, <2>2
  <2> DEFINE After(x) == {y \in upTo : y > x}
  <2>4. After(j) \subseteq After(i)
    BY <1>2, <1>6, <2>1
  <2>5. IsFiniteSet(After(i))
    <3>1. IsFiniteSet(1..Len(log))
      BY <1>2, FS_Interval
    <3>2. After(i) \subseteq 1..Len(log)
      BY <1>2
    <3> QED
      BY <3>1, <3>2, FS_Subset
  <2>6. /\ Cardinality(After(i)) \in Nat
        /\ Cardinality(After(j)) \in Nat
        /\ Cardinality(After(j)) <= Cardinality(After(i))
    BY <2>4, <2>5, FS_Subset, FS_CardinalityType
  <2>7. Cardinality(After(i)) < more
    BY <1>5
  <2>8. more \in Nat
    BY BoundsAssumption
  <2>9. Cardinality(After(j)) < more
    BY <2>6, <2>7, <2>8
  <2> QED
    BY <1>5, <2>3, <2>9
<1>7. strictly \intersect page = {}
  <2> SUFFICES ASSUME NEW i \in strictly, i \in page PROVE FALSE
    OBVIOUS
  <2>1. i \in Rows(k) /\ i \in Nat /\ T(i) \in Nat
    BY <1>1, <1>2
  <2>2. T(i) < T(oldest)
    BY <1>3, <1>4 DEF fetchLast
  <2>3. oldest <= i
    OBVIOUS
  <2>4. i # oldest
    BY <1>3, <2>1, <2>2
  <2>5. T(oldest) <= T(i)
    BY <1>2, <1>3, <2>1, <2>3, <2>4 DEF InOrder
  <2> QED
    BY <1>3, <2>1, <2>2, <2>5
<1> QED
  BY <1>6, <1>7

\* Reading an archive backwards page by page leaves no line out between two
\* pages with includeEnd, and repeats none without, for pages of any size.
THEOREM PagesCorrect == Spec => []PagesMeet
  BY TypeCorrect, PagesMeetTyped, PTL
=============================================================================
