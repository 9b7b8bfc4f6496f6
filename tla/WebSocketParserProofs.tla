----------------------- MODULE WebSocketParserProofs -----------------------
(***************************************************************************)
(* The parser is in the frame the client is in, and calls back what the    *)
(* client means: for any set of frames, whatever their sizes, and any      *)
(* number of them.                                                         *)
(***************************************************************************)
EXTENDS WebSocketParser, SequenceTheorems, WellFoundedInduction, TLAPS

-----------------------------------------------------------------------------
(* Recursive definitions *)

LEMMA LeastNatural ==
    ASSUME NEW T, T \subseteq Nat, T # {}
    PROVE  \E n \in T : \A m \in T : n <= m
<1> DEFINE R == {p \in Nat \X Nat : p[1] < p[2]}
<1>1. R = OpToRel(<, Nat)
  BY Zenon DEF OpToRel
<1>2. IsWellFoundedOn(R, Nat)
  BY <1>1, NatLessThanWellFounded, Zenon
<1>3. \A x, y \in Nat : <<y, x>> \in R <=> y < x
  OBVIOUS
<1> HIDE DEF R
<1>4. PICK x \in T : \A y \in T : ~(<<y, x>> \in R)
  BY <1>2, WFMin, Zenon
<1>5. ASSUME NEW y \in T PROVE x <= y
  <2>1. x \in Nat /\ y \in Nat
    OBVIOUS
  <2>2. ~(y < x)
    BY <1>3, <1>4, <2>1
  <2> QED
    BY <2>1, <2>2
<1> QED
  BY <1>5

\* What the frames mean is what those before the last one mean, and the last.
LEMMA MeaningUnfolds ==
    /\ Meaning(0) = NothingMeant
    /\ \A n \in Nat : Meaning(n + 1) = Means(Meaning(n), n + 1)
<1> DEFINE Is(m, n) ==
      m = [i \in 0..n |-> IF i = 0 THEN NothingMeant ELSE Means(m[i - 1], i)]
    Choice(n) == CHOOSE m : Is(m, n)
<1>1. ASSUME NEW n \in Nat, NEW k \in Nat, NEW m, NEW q, Is(m, n), Is(q, k), k <= n
      PROVE  \A i \in 0..k : m[i] = q[i]
  <2> DEFINE T == {i \in 0..k : m[i] # q[i]}
  <2>1. T \subseteq Nat
    OBVIOUS
  <2>2. ASSUME T # {} PROVE FALSE
    <3>1. PICK i \in T : \A j \in T : i <= j
      BY <2>1, <2>2, LeastNatural
    <3>2. i \in 0..k /\ m[i] # q[i]
      OBVIOUS
    <3>3. i # 0 => m[i - 1] = q[i - 1]
      BY <3>1, <3>2
    <3>4. m[i] = IF i = 0 THEN NothingMeant ELSE Means(m[i - 1], i)
      BY <1>1, <3>2
    <3>5. q[i] = IF i = 0 THEN NothingMeant ELSE Means(q[i - 1], i)
      BY <1>1, <3>2
    <3> QED
      BY <3>2, <3>3, <3>4, <3>5
  <2> QED
    BY <2>2
<1>2. \A n \in Nat : \E m : Is(m, n)
  <2> DEFINE T == {n \in Nat : ~\E m : Is(m, n)}
  <2>1. ASSUME T # {} PROVE FALSE
    <3>1. PICK n \in T : \A j \in T : n <= j
      BY <2>1, LeastNatural
    <3>2. n \in Nat /\ ~\E m : Is(m, n)
      OBVIOUS
    <3>3. CASE n = 0
      <4>1. Is([i \in 0..0 |-> NothingMeant], 0)
        OBVIOUS
      <4> QED
        BY <3>2, <3>3, <4>1
    <3>4. CASE n # 0
      <4>1. n - 1 \in Nat /\ n - 1 \notin T
        <5>1. n - 1 \in Nat /\ ~(n <= n - 1)
          BY <3>2, <3>4
        <5> HIDE DEF T
        <5> QED
          BY <3>1, <5>1
      <4>2. PICK m : Is(m, n - 1)
        BY <4>1
      <4> DEFINE q == [i \in 0..n |-> IF i = n THEN Means(m[n - 1], n) ELSE m[i]]
      <4>3. ASSUME NEW i \in 0..n
            PROVE  q[i] = IF i = 0 THEN NothingMeant ELSE Means(q[i - 1], i)
        <5>1. CASE i = n
          BY <3>2, <3>4, <5>1
        <5>2. CASE i # n
          <6>1. i \in 0..(n - 1) /\ q[i] = m[i] /\ (i # 0 => q[i - 1] = m[i - 1])
            BY <3>2, <3>4, <5>2
          <6> QED
            BY <4>2, <6>1
        <5> QED
          BY <5>1, <5>2
      <4>4. Is(q, n)
        <5>1. q = [i \in 0..n |-> q[i]]
          OBVIOUS
        <5> HIDE DEF q
        <5> QED
          BY <4>3, <5>1
      <4> QED
        BY <3>2, <4>4
    <3> QED
      BY <3>3, <3>4
  <2> QED
    BY <2>1
<1>3. \A n \in Nat : Is(Choice(n), n)
  <2> HIDE DEF Is
  <2> QED
    BY <1>2
<1>4. \A n : Meaning(n) = Choice(n)[n]
  BY Zenon DEF Meaning
<1> HIDE DEF Choice
<1>5. Meaning(0) = NothingMeant
  BY <1>3, <1>4
<1>6. ASSUME NEW n \in Nat PROVE Meaning(n + 1) = Means(Meaning(n), n + 1)
  <2>1. Choice(n + 1)[n + 1] = Means(Choice(n + 1)[n], n + 1)
    <3>1. Is(Choice(n + 1), n + 1)
      BY <1>3
    <3> QED
      BY <3>1
  <2>2. Choice(n + 1)[n] = Choice(n)[n]
    <3>1. n + 1 \in Nat /\ n <= n + 1 /\ n \in 0..n
      OBVIOUS
    <3>2. Is(Choice(n + 1), n + 1) /\ Is(Choice(n), n)
      BY <1>3, <3>1
    <3> HIDE DEF Is
    <3>3. \A i \in 0..n : Choice(n + 1)[i] = Choice(n)[i]
      BY <1>1, <3>1, <3>2
    <3> QED
      BY <3>1, <3>3
  <2> QED
    BY <1>4, <2>1, <2>2
<1> QED
  BY <1>5, <1>6

\* The control frames of a sequence are those before its last, and that one.
LEMMA ControlsUnfold ==
    /\ Controls(<<>>) = <<>>
    /\ \A S : \A s \in Seq(S), e \in S :
         Controls(Append(s, e)) =
           IF IsControl(e) THEN Append(Controls(s), e) ELSE Controls(s)
<1> DEFINE After(was, e) == IF IsControl(e) THEN Append(was, e) ELSE was
    Is(c, s, n) == c = [i \in 0..n |-> IF i = 0 THEN <<>> ELSE After(c[i - 1], s[i])]
    Choice(s) == CHOOSE c : Is(c, s, Len(s))
<1>1. \A s : Controls(s) = Choice(s)[Len(s)]
  BY Zenon DEF Controls
<1> HIDE DEF After
<1>2. ASSUME NEW s, NEW t, NEW n \in Nat, NEW k \in Nat, NEW c, NEW d,
             Is(c, s, n), Is(d, t, k), k <= n, \A i \in 1..k : s[i] = t[i]
      PROVE  \A i \in 0..k : c[i] = d[i]
  <2> DEFINE T == {i \in 0..k : c[i] # d[i]}
  <2>1. T \subseteq Nat
    OBVIOUS
  <2>2. ASSUME T # {} PROVE FALSE
    <3>1. PICK i \in T : \A j \in T : i <= j
      BY <2>1, <2>2, LeastNatural
    <3>2. i \in 0..k /\ c[i] # d[i]
      OBVIOUS
    <3>3. i # 0 => c[i - 1] = d[i - 1]
      BY <3>1, <3>2
    <3>6. i # 0 => s[i] = t[i]
      BY <1>2, <3>2
    <3>4. c[i] = IF i = 0 THEN <<>> ELSE After(c[i - 1], s[i])
      BY <1>2, <3>2
    <3>5. d[i] = IF i = 0 THEN <<>> ELSE After(d[i - 1], t[i])
      BY <1>2, <3>2
    <3> QED
      BY <3>2, <3>3, <3>4, <3>5, <3>6
  <2> QED
    BY <2>2
<1>3. \A s : \A n \in Nat : \E c : Is(c, s, n)
  <2> TAKE s
  <2> DEFINE T == {n \in Nat : ~\E c : Is(c, s, n)}
  <2>1. ASSUME T # {} PROVE FALSE
    <3>1. PICK n \in T : \A j \in T : n <= j
      BY <2>1, LeastNatural
    <3>2. n \in Nat /\ ~\E c : Is(c, s, n)
      OBVIOUS
    <3>3. CASE n = 0
      <4>1. Is([i \in 0..0 |-> <<>>], s, 0)
        OBVIOUS
      <4> QED
        BY <3>2, <3>3, <4>1
    <3>4. CASE n # 0
      <4>1. n - 1 \in Nat /\ ~(n <= n - 1)
        BY <3>2, <3>4
      <4>2. PICK c : Is(c, s, n - 1)
        <5> HIDE DEF Is
        <5> QED
          BY <3>1, <4>1
      <4> DEFINE d == [i \in 0..n |-> IF i = n THEN After(c[n - 1], s[n]) ELSE c[i]]
      <4>3. ASSUME NEW i \in 0..n
            PROVE  d[i] = IF i = 0 THEN <<>> ELSE After(d[i - 1], s[i])
        <5>1. CASE i = n
          BY <3>2, <3>4, <5>1
        <5>2. CASE i # n
          <6>1. i \in 0..(n - 1) /\ d[i] = c[i] /\ (i # 0 => d[i - 1] = c[i - 1])
            BY <3>2, <3>4, <5>2
          <6> QED
            BY <4>2, <6>1
        <5> QED
          BY <5>1, <5>2
      <4>4. Is(d, s, n)
        <5>1. d = [i \in 0..n |-> d[i]]
          OBVIOUS
        <5> HIDE DEF d
        <5> QED
          BY <4>3, <5>1
      <4> QED
        BY <3>2, <4>4
    <3> QED
      BY <3>3, <3>4
  <2> QED
    BY <2>1
<1>4. \A s : Len(s) \in Nat => Is(Choice(s), s, Len(s))
  <2> HIDE DEF Is
  <2> QED
    BY <1>3
<1> HIDE DEF Choice
<1>5. Controls(<<>>) = <<>>
  BY <1>1, <1>4
<1>6. ASSUME NEW S, NEW s \in Seq(S), NEW e \in S
      PROVE  Controls(Append(s, e)) = After(Controls(s), e)
  <2> DEFINE t == Append(s, e)  n == Len(s)
  <2>1. /\ n \in Nat /\ Len(t) = n + 1 /\ t[n + 1] = e
        /\ \A i \in 1..n : t[i] = s[i]
    BY AppendProperties
  <2> HIDE DEF t, n
  <2>2. Is(Choice(t), t, n + 1) /\ Is(Choice(s), s, n)
    BY <1>4, <2>1 DEF n
  <2>3. Choice(t)[n + 1] = After(Choice(t)[n], e)
    BY <2>1, <2>2
  <2>4. Choice(t)[n] = Choice(s)[n]
    <3> HIDE DEF Is
    <3> QED
      BY <1>2, <2>1, <2>2
  <2> QED
    BY <1>1, <2>1, <2>3, <2>4 DEF t, n
<1> QED
  BY <1>5, <1>6 DEF After

-----------------------------------------------------------------------------
(* Where the parser is *)

Requests ==
    [command : {"close", "ping", "message"}, pieces : Seq(Nat \X Keys)]

Types ==
    /\ received \in Seq(Frames) /\ pos \in Nat /\ buffered \in Nat
    /\ header \in Frames \union {<<>>}
    /\ payloadLen \in Nat /\ maskingKey \in Keys
    /\ rejected \in BOOLEAN /\ crashed \in BOOLEAN

\* The key of a masked frame with an extended length has been copied.
KeyCopied == Current.ext # 0 /\ Current.masked => maskingKey = Current.key

\* The parser is at the byte of the frame where the client is, and has what it
\* needs of the header.
Position ==
    /\ received = <<>> => state = "header" /\ buffered = 0
    /\ received # <<>> =>
         /\ pos <= Bytes(Current)
         /\ IF pos = Bytes(Current)
            THEN state = "header" /\ buffered = 0
            ELSE \/ /\ state = "header"
                    /\ buffered = pos /\ pos < WaitFor(Current)
                    /\ pos >= 2 => header = Current
                    /\ pos >= 2 /\ Current.ext = 0 => payloadLen = Current.size
                 \/ /\ state = "payload"
                    /\ pos = WaitFor(Current) + buffered
                    /\ header = Current /\ payloadLen = Current.size
                    /\ KeyCopied

\* The bytes of a frame.
LEMMA FrameFacts ==
    ASSUME NEW f \in Frames
    PROVE  /\ f.fin \in BOOLEAN /\ f.opcode \in Opcodes /\ f.ext \in {0, 2, 8}
           /\ f.masked \in BOOLEAN /\ f.key \in Keys /\ f.size \in Nat
           /\ WaitFor(f) \in 2..14 /\ Bytes(f) = WaitFor(f) + f.size
           /\ WaitFor(f) = 2 <=> f.ext = 0 /\ ~f.masked
           /\ Bytes(f) \in Nat
<1>1. f \in Frame
  BY FrameAssumption
<1>2. /\ f.fin \in BOOLEAN /\ f.opcode \in Opcodes /\ f.ext \in {0, 2, 8}
      /\ f.masked \in BOOLEAN /\ f.key \in Keys /\ f.size \in Nat
  BY <1>1 DEF Frame
<1>3. /\ WaitFor(f) \in 2..14 /\ Bytes(f) = WaitFor(f) + f.size
      /\ WaitFor(f) = 2 <=> f.ext = 0 /\ ~f.masked
  BY <1>2 DEF WaitFor, Bytes
<1>4. Bytes(f) \in Nat
  BY <1>2, <1>3
<1> QED
  BY <1>2, <1>3, <1>4

LEMMA CurrentFacts ==
    ASSUME Types, received # <<>>
    PROVE  Current \in Frames /\ Len(received) \in Nat \ {0}
  BY DEF Types, Current

\* How the frame in progress ends.
Ended == IF Current.size = 0 THEN parseEmptyFrame(Current) ELSE parseFrame(Current)

\* A byte that ends no frame.
Passes == Parsed' = Parsed /\ UNCHANGED <<delivered, rejected, totalPayload, crashed>>

\* A byte that ends one.
Finishes ==
    /\ Parsed = Len(received) - 1 /\ Parsed' = Len(received)
    /\ Ended /\ ~crashed
    /\ Current.size # 0 => KeyCopied

ABytePasses == UNCHANGED received /\ received # <<>> /\ (Passes \/ Finishes)

\* One more byte, not the last.
LEMMA Within ==
    ASSUME Types, received # <<>>, pos + 1 < Bytes(Current),
           Next1, UNCHANGED <<delivered, rejected, totalPayload, crashed>>
    PROVE  ABytePasses
<1>1. Len(received) \in Nat /\ Current \in Frames /\ pos \in Nat
  BY CurrentFacts DEF Types
<1>2. Bytes(Current) \in Nat
  BY <1>1, FrameFacts
<1>3. received' = received /\ pos' = pos + 1 /\ Current' = Current
  BY DEF Next1, Current
<1>4. pos # Bytes(Current) /\ pos' # Bytes(Current)
  BY <1>1, <1>2, <1>3
<1>5. Parsed' = Parsed
  BY <1>3, <1>4 DEF Parsed, Bytes
<1> QED
  BY <1>3, <1>5 DEF ABytePasses, Passes

\* The last byte.
LEMMA AtEnd ==
    ASSUME Types, received # <<>>, pos + 1 = Bytes(Current), Next1, Ended,
           Current.size # 0 => KeyCopied
    PROVE  ABytePasses
<1>1. Len(received) \in Nat /\ Current \in Frames /\ pos \in Nat
  BY CurrentFacts DEF Types
<1>2. Bytes(Current) \in Nat
  BY <1>1, FrameFacts
<1>3. received' = received /\ pos' = pos + 1 /\ Current' = Current
  BY DEF Next1, Current
<1>4. pos # Bytes(Current) /\ pos' = Bytes(Current)
  BY <1>1, <1>2, <1>3
<1>5. Parsed = Len(received) - 1 /\ Parsed' = Len(received)
  BY <1>3, <1>4 DEF Parsed, Bytes
<1> QED
  BY <1>3, <1>5 DEF ABytePasses, Finishes, Next1

\* What stays true of the position after a byte.
Positioned == Types' /\ Position'

\* With the last byte of the frame the parser is at the beginning of the next.
LEMMA FrameEndsStep ==
    ASSUME Types, received # <<>>, pos + 1 = Bytes(Current), Next1,
           Types', payloadLen' = Current.size, FrameEnds(Current),
           Current.size # 0 => KeyCopied
    PROVE  Positioned /\ ABytePasses
<1>1. Ended /\ state' = "header" /\ buffered' = 0
  BY DEF FrameEnds, Ended
<1>2. received' = received /\ pos' = pos + 1 /\ Current' = Current
  BY DEF Next1, Current
<1>3. Current \in Frames
  BY CurrentFacts
<1>4. Bytes(Current) \in Nat /\ Bytes(Current)' = Bytes(Current)
  BY <1>2, <1>3, FrameFacts DEF Bytes
<1>5. Position'
  BY <1>1, <1>2, <1>4 DEF Position
<1> QED
  BY <1>1, <1>5, AtEnd DEF Positioned

\* The parser has what comes before the payload.
LEMMA HeaderEndsStep ==
    ASSUME Types, received # <<>>, pos + 1 = WaitFor(Current), Next1,
           Types', header' = Current, payloadLen' = Current.size, HeaderEnds(Current),
           KeyCopied'
    PROVE  Positioned /\ ABytePasses
<1>1. Current \in Frames /\ pos \in Nat
  BY CurrentFacts DEF Types
<1>2. /\ Current.size \in Nat /\ WaitFor(Current) \in Nat
      /\ Bytes(Current) = WaitFor(Current) + Current.size
  BY <1>1, FrameFacts
<1>3. received' = received /\ pos' = pos + 1 /\ Current' = Current
  BY DEF Next1, Current
<1>4. CASE payloadLen' = 0
  <2>1. pos + 1 = Bytes(Current) /\ FrameEnds(Current) /\ Current.size = 0
    BY <1>2, <1>4 DEF HeaderEnds
  <2> QED
    BY <2>1, FrameEndsStep
<1>5. CASE payloadLen' # 0
  <2>1. PayloadBegins /\ pos + 1 < Bytes(Current)
    BY <1>1, <1>2, <1>5 DEF HeaderEnds
  <2>2. ABytePasses
    BY <2>1, Within DEF PayloadBegins, outcome
  <2>3. Bytes(Current)' = Bytes(Current) /\ WaitFor(Current)' = WaitFor(Current)
    BY <1>3 DEF Bytes, WaitFor
  <2>4. Position'
    BY <1>1, <1>2, <1>3, <2>1, <2>3 DEF Position, PayloadBegins, KeyCopied
  <2> QED
    BY <2>2, <2>4 DEF Positioned
<1> QED
  BY <1>4, <1>5

\* The parser waits for more of what comes before the payload.
LEMMA HeaderGoesOn ==
    ASSUME Types, received # <<>>, pos + 1 < WaitFor(Current), Next1, Types',
           state' = "header", buffered' = pos + 1,
           pos + 1 >= 2 => header' = Current,
           pos + 1 >= 2 /\ Current.ext = 0 => payloadLen' = Current.size,
           UNCHANGED <<delivered, rejected, totalPayload, crashed>>
    PROVE  Positioned /\ ABytePasses
<1>1. Current \in Frames /\ pos \in Nat
  BY CurrentFacts DEF Types
<1>2. /\ Current.size \in Nat /\ WaitFor(Current) \in Nat
      /\ Bytes(Current) = WaitFor(Current) + Current.size
  BY <1>1, FrameFacts
<1>3. received' = received /\ pos' = pos + 1 /\ Current' = Current
  BY DEF Next1, Current
<1>4. pos + 1 < Bytes(Current)
  BY <1>1, <1>2
<1>5. Bytes(Current)' = Bytes(Current) /\ WaitFor(Current)' = WaitFor(Current)
  BY <1>3 DEF Bytes, WaitFor
<1>6. Position'
  BY <1>1, <1>2, <1>3, <1>4, <1>5 DEF Position
<1> QED
  BY <1>4, <1>6, Within DEF Positioned

\* What ends a frame says of rejected.
LEMMA EndsType ==
    ASSUME NEW f, f.fin \in BOOLEAN, rejected \in BOOLEAN, crashed \in BOOLEAN,
           parseEmptyFrame(f) \/ parseFrame(f)
    PROVE  rejected' \in BOOLEAN /\ crashed' \in BOOLEAN
<1>1. ASSUME NEW cb, NEW b \in BOOLEAN, NEW q, Ends(cb, b, q)
      PROVE  rejected' \in BOOLEAN /\ crashed' \in BOOLEAN
  BY <1>1 DEF Ends
<1>2. ASSUME NEW q, Payload(q)
      PROVE  rejected' \in BOOLEAN /\ crashed' \in BOOLEAN
  <2>1. CASE Crashes
    BY <2>1 DEF Crashes
  <2>2. CASE ~Crashes
    <3>1. \E cb : \E b \in BOOLEAN : \E z : Ends(cb, b, z)
      BY <1>2, <2>2, Zenon DEF Payload
    <3> QED
      BY <1>1, <3>1
  <2> QED
    BY <2>1, <2>2
<1>3. \/ \E cb : \E b \in BOOLEAN : \E z : Ends(cb, b, z)
      \/ \E q : Payload(q)
  BY Zenon DEF parseEmptyFrame, parseFrame
<1> QED
  BY <1>1, <1>2, <1>3

LEMMA HeaderByteStep ==
    ASSUME Types, Position, HeaderByte
    PROVE  Positioned /\ ABytePasses
<1>1. /\ received # <<>> /\ pos < Bytes(Current) /\ Next1 /\ buffered = pos /\ pos < 2
      /\ Current \in Frames /\ pos \in Nat
  <2>1. received # <<>> /\ pos < Bytes(Current) /\ Next1 /\ state = "header" /\ buffered < 2
    BY DEF HeaderByte, Next1
  <2>2. Current \in Frames /\ pos \in Nat
    BY <2>1, CurrentFacts DEF Types
  <2>3. Bytes(Current) \in Nat
    BY <2>2, FrameFacts
  <2>4. buffered = pos
    BY <2>1, <2>2, <2>3 DEF Position
  <2> QED
    BY <2>1, <2>2, <2>4
<1>2. /\ WaitFor(Current) \in 2..14 /\ Current.size \in Nat /\ Current.fin \in BOOLEAN
      /\ WaitFor(Current) = 2 <=> Current.ext = 0 /\ ~Current.masked
  BY <1>1, FrameFacts
<1>3. /\ header' = IF pos = 1 THEN Current ELSE header
      /\ payloadLen' = IF pos = 1 /\ Current.ext = 0 THEN Current.size ELSE payloadLen
      /\ maskingKey' = maskingKey /\ received' = received /\ pos' = pos + 1
  BY <1>1 DEF HeaderByte, Next1
<1>4. CASE pos = 1 /\ WaitFor(Current) = 2
  <2>1. HeaderEnds(Current) /\ header' = Current /\ payloadLen' = Current.size
    BY <1>1, <1>2, <1>3, <1>4 DEF HeaderByte
  <2>4. KeyCopied'
    <3>1. Current' = Current /\ ~(Current.ext # 0 /\ Current.masked)
      BY <1>2, <1>3, <1>4 DEF Current
    <3> QED
      BY <3>1 DEF KeyCopied
  <2>2. rejected' \in BOOLEAN /\ crashed' \in BOOLEAN /\ buffered' \in Nat
    <3>1. rejected \in BOOLEAN /\ crashed \in BOOLEAN
      BY DEF Types
    <3>2. \/ parseEmptyFrame(Current) /\ buffered' = 0
          \/ parseFrame(Current) /\ buffered' = 0
          \/ rejected' = rejected /\ crashed' = crashed /\ buffered' = 0
      BY <2>1 DEF HeaderEnds, FrameEnds, PayloadBegins, outcome
    <3> QED
      BY <1>2, <3>1, <3>2, EndsType
  <2>3. Types'
    BY <1>1, <1>2, <1>3, <2>2 DEF Types
  <2> QED
    BY <1>1, <1>4, <2>1, <2>3, <2>4, HeaderEndsStep
<1>5. CASE ~(pos = 1 /\ WaitFor(Current) = 2)
  <2>1. KeepsBuffering /\ state' = "header" /\ buffered' = pos + 1
    BY <1>1, <1>2, <1>5 DEF HeaderByte, KeepsBuffering, outcome
  <2>2. Types'
    BY <1>1, <1>2, <1>3, <2>1 DEF Types, KeepsBuffering, outcome
  <2>3. /\ pos + 1 < WaitFor(Current)
        /\ pos + 1 >= 2 => header' = Current
        /\ pos + 1 >= 2 /\ Current.ext = 0 => payloadLen' = Current.size
    BY <1>1, <1>2, <1>3, <1>5
  <2> QED
    BY <1>1, <2>1, <2>2, <2>3, HeaderGoesOn DEF KeepsBuffering, outcome
<1> QED
  BY <1>4, <1>5

LEMMA ExtendedByteStep ==
    ASSUME Types, Position, ExtendedByte
    PROVE  Positioned /\ ABytePasses
<1>1. /\ received # <<>> /\ Next1 /\ Current \in Frames /\ pos \in Nat
      /\ buffered = pos /\ pos >= 2 /\ pos < WaitFor(Current) /\ header = Current
      /\ Current.ext = 0 => payloadLen = Current.size
  <2>1. received # <<>> /\ pos < Bytes(Current) /\ Next1 /\ state = "header" /\ buffered >= 2
    BY DEF ExtendedByte, Next1
  <2>2. Current \in Frames /\ pos \in Nat
    BY <2>1, CurrentFacts DEF Types
  <2>3. Bytes(Current) \in Nat
    BY <2>2, FrameFacts
  <2> QED
    BY <2>1, <2>2, <2>3 DEF Position
<1>2. WaitFor(Current) \in 2..14 /\ Current.size \in Nat /\ Current.fin \in BOOLEAN
      /\ Current.key \in Keys
  BY <1>1, FrameFacts
<1>3. header' = Current /\ received' = received /\ pos' = pos + 1
  BY <1>1 DEF ExtendedByte, Next1
<1>4. CASE pos + 1 = WaitFor(Current)
  <2>1. HeaderEnds(Current) /\ payloadLen' = Current.size /\ maskingKey' \in Keys
    <3>1. /\ payloadLen' = IF Current.ext = 0 THEN payloadLen ELSE Current.size
          /\ maskingKey' = IF Current.ext # 0 /\ Current.masked THEN Current.key
                                                                ELSE maskingKey
          /\ HeaderEnds(Current)
      BY <1>1, <1>4 DEF ExtendedByte
    <3> QED
      BY <1>1, <1>2, <3>1 DEF Types
  <2>4. KeyCopied'
    <3>1. Current' = Current
      BY <1>3 DEF Current
    <3>2. Current.ext # 0 /\ Current.masked => maskingKey' = Current.key
      BY <1>1, <1>4 DEF ExtendedByte
    <3> QED
      BY <3>1, <3>2 DEF KeyCopied
  <2>2. rejected' \in BOOLEAN /\ crashed' \in BOOLEAN /\ buffered' \in Nat
    <3>1. rejected \in BOOLEAN /\ crashed \in BOOLEAN
      BY DEF Types
    <3>2. \/ parseEmptyFrame(Current) /\ buffered' = 0
          \/ parseFrame(Current) /\ buffered' = 0
          \/ rejected' = rejected /\ crashed' = crashed /\ buffered' = 0
      BY <2>1 DEF HeaderEnds, FrameEnds, PayloadBegins, outcome
    <3> QED
      BY <1>2, <3>1, <3>2, EndsType
  <2>3. Types'
    BY <1>1, <1>2, <1>3, <2>1, <2>2 DEF Types
  <2> QED
    BY <1>1, <1>3, <1>4, <2>1, <2>3, <2>4, HeaderEndsStep
<1>5. CASE pos + 1 # WaitFor(Current)
  <2>1. /\ KeepsBuffering /\ state' = "header" /\ buffered' = pos + 1
        /\ payloadLen' = payloadLen /\ maskingKey' = maskingKey
    BY <1>1, <1>5 DEF ExtendedByte, KeepsBuffering, outcome
  <2>2. Types'
    BY <1>1, <1>2, <1>3, <2>1 DEF Types, KeepsBuffering, outcome
  <2>3. pos + 1 < WaitFor(Current)
    BY <1>1, <1>2, <1>5
  <2> QED
    BY <1>1, <1>3, <2>1, <2>2, <2>3, HeaderGoesOn DEF KeepsBuffering, outcome
<1> QED
  BY <1>4, <1>5

LEMMA Sums ==
    ASSUME NEW w \in Nat, NEW z \in Nat, NEW b \in Nat
    PROVE  /\ b + 1 = z => w + b + 1 = w + z
           /\ w + b < w + z /\ b + 1 # z => w + b + 1 < w + z
  OBVIOUS

LEMMA PayloadByteStep ==
    ASSUME Types, Position, PayloadByte
    PROVE  Positioned /\ ABytePasses
<1>1. /\ received # <<>> /\ pos < Bytes(Current) /\ Next1 /\ state = "payload"
      /\ Current \in Frames /\ pos \in Nat /\ buffered \in Nat
  <2>1. received # <<>> /\ pos < Bytes(Current) /\ Next1 /\ state = "payload"
    BY DEF PayloadByte, Next1
  <2> QED
    BY <2>1, CurrentFacts DEF Types
<1>2. /\ WaitFor(Current) \in 2..14 /\ Current.size \in Nat /\ Current.fin \in BOOLEAN
      /\ Bytes(Current) = WaitFor(Current) + Current.size
  BY <1>1, FrameFacts
<1>3. /\ pos = WaitFor(Current) + buffered /\ header = Current /\ payloadLen = Current.size
      /\ KeyCopied
  <2>1. Bytes(Current) \in Nat
    BY <1>1, FrameFacts
  <2> QED
    BY <1>1, <1>2, <2>1 DEF Position
<1>4. /\ header' = Current /\ payloadLen' = Current.size /\ maskingKey' = maskingKey
      /\ received' = received /\ pos' = pos + 1
  BY <1>1, <1>3 DEF PayloadByte, Next1
<1>5. CASE buffered + 1 = Current.size
  <2>1. FrameEnds(Current) /\ pos + 1 = Bytes(Current)
    <3>1. IF buffered + 1 = payloadLen THEN FrameEnds(header) ELSE KeepsBuffering
      BY DEF PayloadByte
    <3>2. FrameEnds(Current)
      BY <1>3, <1>5, <3>1, Zenon
    <3> QED
      <4> DEFINE w == WaitFor(Current)  z == Current.size
      <4>1. w \in Nat /\ z \in Nat /\ Bytes(Current) = w + z /\ pos = w + buffered
        BY <1>2, <1>3
      <4> HIDE DEF w, z
      <4>2. buffered + 1 = z
        BY <1>5 DEF z
      <4> QED
        BY <1>1, <3>2, <4>1, <4>2, Sums
  <2>2. rejected' \in BOOLEAN /\ crashed' \in BOOLEAN /\ buffered' \in Nat
    BY <1>2, <2>1, EndsType DEF FrameEnds, Types
  <2>3. Types'
    BY <1>1, <1>2, <1>4, <2>2 DEF Types
  <2> QED
    BY <1>1, <1>3, <1>4, <2>1, <2>3, FrameEndsStep
<1>6. CASE buffered + 1 # Current.size
  <2>1. KeepsBuffering
    BY <1>3, <1>6 DEF PayloadByte
  <2>2. pos + 1 < Bytes(Current) /\ buffered' = buffered + 1 /\ state' = "payload"
    <3>1. buffered' = buffered + 1 /\ state' = "payload"
      BY <1>1, <2>1 DEF KeepsBuffering, outcome
    <3> QED
      <4> DEFINE w == WaitFor(Current)  z == Current.size
      <4>1. w \in Nat /\ z \in Nat /\ Bytes(Current) = w + z /\ pos = w + buffered
        BY <1>2, <1>3
      <4> HIDE DEF w, z
      <4>2. buffered + 1 # z
        BY <1>6 DEF z
      <4> QED
        BY <1>1, <3>1, <4>1, <4>2, Sums
  <2>3. ABytePasses
    BY <1>1, <2>1, <2>2, Within DEF KeepsBuffering, outcome
  <2>4. Types'
    BY <1>1, <1>2, <1>4, <2>1, <2>2 DEF Types, KeepsBuffering, outcome
  <2>5. Current' = Current
    BY <1>4 DEF Current
  <2>6. Bytes(Current)' = Bytes(Current) /\ WaitFor(Current)' = WaitFor(Current)
    BY <2>5 DEF Bytes, WaitFor
  <2>7. Position'
    <3>1. pos' < Bytes(Current)' /\ pos' = WaitFor(Current)' + buffered'
      <4>1. /\ WaitFor(Current) \in Nat /\ WaitFor(Current)' = WaitFor(Current)
            /\ pos = WaitFor(Current) + buffered
            /\ buffered \in Nat /\ buffered' = buffered + 1
        BY <1>1, <1>2, <1>3, <2>2, <2>6
      <4>2. pos' = WaitFor(Current)' + buffered'
        <5> DEFINE w == WaitFor(Current)  v == WaitFor(Current)'
        <5>1. w \in Nat /\ v = w /\ pos = w + buffered
          BY <4>1
        <5> HIDE DEF w, v
        <5>2. pos' = v + buffered'
          BY <1>4, <4>1, <5>1
        <5> QED
          BY <5>2 DEF v
      <4> QED
        BY <1>4, <2>2, <2>6, <4>2
    <3>2. /\ received' # <<>> /\ state' = "payload"
          /\ header' = Current' /\ payloadLen' = Current'.size
      BY <1>1, <1>4, <2>2, <2>5
    <3>3. pos' \in Nat /\ Bytes(Current)' \in Nat
      <4>1. pos' \in Nat
        BY <1>1, <1>4
      <4>2. Bytes(Current) \in Nat
        BY <1>1, FrameFacts
      <4> QED
        BY <2>6, <4>1, <4>2
    <3>4. pos' <= Bytes(Current)' /\ pos' # Bytes(Current)'
      BY <3>1, <3>3
    <3>5. KeyCopied'
      BY <1>3, <1>4, <2>5, Zenon DEF KeyCopied
    <3> QED
      BY <3>1, <3>2, <3>4, <3>5 DEF Position
  <2> QED
    BY <2>3, <2>4, <2>7 DEF Positioned
<1> QED
  BY <1>5, <1>6

LEMMA RestStep ==
    ASSUME Types, Position, UNCHANGED vars
    PROVE  Positioned /\ UNCHANGED <<received, Parsed, delivered, rejected, totalPayload, crashed>>
<1>1. /\ UNCHANGED <<received, pos, state, buffered, header, payloadLen, maskingKey>>
      /\ UNCHANGED <<delivered, rejected, totalPayload, crashed>>
  BY DEF vars, parser, outcome
<1>2. Current' = Current
  BY <1>1 DEF Current
<1> QED
  BY <1>1, <1>2 DEF Types, Position, Positioned, Parsed, Bytes, WaitFor, KeyCopied

\* With a frame that begins, nothing is parsed.
LEMMA SendStep ==
    ASSUME Types, Position, NEW f \in Frames, Send(f)
    PROVE  /\ Positioned /\ received' = Append(received, f)
           /\ UNCHANGED <<Parsed, delivered, rejected, totalPayload, crashed>>
<1>1. /\ received # <<>> => pos = Bytes(Current)
      /\ received' = Append(received, f) /\ pos' = 0
      /\ UNCHANGED <<state, buffered, header, payloadLen, maskingKey>>
      /\ UNCHANGED <<delivered, rejected, totalPayload, crashed>>
  BY DEF Send, parser, outcome
<1>2. /\ Len(received) \in Nat /\ received' \in Seq(Frames)
      /\ Len(received') = Len(received) + 1 /\ received' # <<>>
      /\ Current' = f
      /\ received # <<>> => Len(received) # 0
  BY <1>1 DEF Types, Current
<1>3. state = "header" /\ buffered = 0
  BY <1>1 DEF Position, Types
<1>4. /\ Bytes(Current)' = Bytes(f) /\ WaitFor(Current)' = WaitFor(f)
      /\ WaitFor(f) \in 2..14 /\ f.size \in Nat /\ Bytes(f) = WaitFor(f) + f.size
  <2>1. Bytes(Current)' = Bytes(f) /\ WaitFor(Current)' = WaitFor(f)
    BY <1>2, Zenon DEF Bytes, WaitFor
  <2> QED
    BY <2>1, FrameFacts
<1>5. Types'
  BY <1>1, <1>2 DEF Types
<1>6. Position'
  <2>1. 0 < WaitFor(f) /\ 0 <= Bytes(f) /\ 0 # Bytes(f)
    BY <1>4
  <2>2. pos' < WaitFor(Current)' /\ pos' <= Bytes(Current)' /\ pos' # Bytes(Current)'
    BY <1>1, <1>4, <2>1
  <2> QED
    BY <1>1, <1>2, <1>3, <2>2 DEF Position
<1>7. Parsed' = Parsed
  <2>1. Parsed = IF received = <<>> THEN 0 ELSE Len(received)
    BY <1>1 DEF Parsed
  <2>2. pos' # Bytes(Current)'
    <3>1. Bytes(f) # 0
      BY <1>4
    <3> QED
      BY <1>1, <1>4, <3>1
  <2>3. Parsed' = Len(received') - 1
    BY <1>2, <2>2 DEF Parsed
  <2> QED
    BY <1>2, <2>1, <2>3
<1> QED
  BY <1>1, <1>5, <1>6, <1>7 DEF Positioned

-----------------------------------------------------------------------------
(* What the client means *)

\* Requests by their frames.
Meant == [command : {"close", "ping", "message"}, pieces : Seq(Nat)]

\* The fragments of an open message are frames that have been received.
Meanings(n) == [open : Seq(1..n), requests : Seq(Meant)]

\* The fragments of a message, with those of frame n.
LEMMA OpenType ==
    ASSUME NEW n \in Nat \ {0}, NEW open \in Seq(1..(n - 1)), NEW z \in Nat
    PROVE  LET all == open \o IF z > 0 THEN <<n>> ELSE <<>>
           IN  all \in Seq(1..n) /\ all \in Seq(Nat) /\ open \in Seq(1..n)
<1> DEFINE S == 1..n  rest == IF z > 0 THEN <<n>> ELSE <<>>
<1>1. 1..(n - 1) \subseteq S /\ n \in S /\ S \subseteq Nat
  OBVIOUS
<1> HIDE DEF S
<1>2. open \in Seq(S)
  BY <1>1, SeqMonotonic, Zenon
<1>3. rest \in Seq(S)
  BY <1>1
<1> HIDE DEF rest
<1>4. open \o rest \in Seq(S)
  BY <1>2, <1>3, ConcatProperties
<1>5. open \o rest \in Seq(Nat)
  BY <1>1, <1>4, SeqMonotonic, Zenon
<1> QED
  BY <1>2, <1>4, <1>5 DEF S, rest

LEMMA MeansType ==
    ASSUME received \in Seq(Frames), NEW n \in 1..Len(received),
           NEW was \in Meanings(n - 1)
    PROVE  Means(was, n) \in Meanings(n)
<1> DEFINE f == received[n]
    all == was.open \o IF f.size > 0 THEN <<n>> ELSE <<>>
<1>1. f \in Frames /\ n \in Nat \ {0}
  OBVIOUS
<1>2. f.opcode \in Opcodes /\ f.size \in Nat /\ f.fin \in BOOLEAN
  BY <1>1, FrameFacts
<1>3. was.open \in Seq(1..(n - 1)) /\ was.requests \in Seq(Meant)
  BY DEF Meanings
<1>4. all \in Seq(1..n) /\ all \in Seq(Nat) /\ was.open \in Seq(1..n)
  BY <1>1, <1>2, <1>3, OpenType
<1> HIDE DEF all
<1>5. CASE f.opcode \in Control /\ Accepted(f)
  <2>1. Means(was, n) = [was EXCEPT !.requests = Append(@, Request(f.opcode, <<>>))]
    BY <1>5, Zenon DEF Means
  <2>2. Request(f.opcode, <<>>) \in Meant
    BY <1>5 DEF Accepted, Request, Meant
  <2>3. Append(was.requests, Request(f.opcode, <<>>)) \in Seq(Meant)
    BY <1>3, <2>2, AppendProperties
  <2> QED
    BY <1>4, <2>1, <2>3 DEF Meanings
<1>6. CASE f.opcode \in Control /\ ~Accepted(f)
  <2>1. Means(was, n) = was
    BY <1>6, Zenon DEF Means
  <2> QED
    BY <1>3, <1>4, <2>1 DEF Meanings
<1>7. CASE f.opcode \notin Control /\ ~f.fin
  <2>1. Means(was, n) = [was EXCEPT !.open = all]
    BY <1>7, Zenon DEF Means, all
  <2> QED
    BY <1>3, <1>4, <2>1 DEF Meanings
<1>8. CASE f.opcode \notin Control /\ f.fin
  <2>1. Means(was, n) = [open |-> <<>>,
                         requests |-> Append(was.requests, Request("message", all))]
    BY <1>8, Zenon DEF Means, all
  <2>2. Request("message", all) \in Meant
    BY <1>4 DEF Request, Meant
  <2>3. Append(was.requests, Request("message", all)) \in Seq(Meant)
    BY <1>3, <2>2, AppendProperties
  <2> QED
    BY <2>1, <2>3 DEF Meanings
<1> QED
  BY <1>5, <1>6, <1>7, <1>8

LEMMA MeaningType ==
    ASSUME received \in Seq(Frames)
    PROVE  \A n \in 0..Len(received) : Meaning(n) \in Meanings(n)
<1> DEFINE T == {n \in 0..Len(received) : Meaning(n) \notin Meanings(n)}
<1>1. ASSUME T # {} PROVE FALSE
  <2>0. T \subseteq Nat
    OBVIOUS
  <2>1. PICK n \in T : \A m \in T : n <= m
    BY <1>1, <2>0, LeastNatural
  <2>2. n \in 0..Len(received) /\ Meaning(n) \notin Meanings(n)
    OBVIOUS
  <2>3. n # 0
    <3>1. <<>> \in Seq(1..0) /\ <<>> \in Seq(Meant)
      OBVIOUS
    <3>2. NothingMeant \in Meanings(0)
      <4> DEFINE S == Seq(1..0)  R == Seq(Meant)
      <4>1. <<>> \in S /\ <<>> \in R
        BY <3>1
      <4> HIDE DEF S, R
      <4>2. NothingMeant \in [open : S, requests : R]
        BY <4>1 DEF NothingMeant
      <4> QED
        BY <4>2 DEF Meanings, S, R
    <3>3. Meaning(0) \in Meanings(0)
      BY <3>2, MeaningUnfolds
    <3> QED
      BY <2>2, <3>3
  <2>4. n - 1 \in Nat /\ n \in 1..Len(received) /\ (n - 1) + 1 = n /\ ~(n <= n - 1)
    BY <2>2, <2>3
  <2>5. Meaning(n - 1) \in Meanings(n - 1)
    BY <2>1, <2>2, <2>4
  <2>6. Meaning((n - 1) + 1) = Means(Meaning(n - 1), (n - 1) + 1)
    BY <2>4, MeaningUnfolds
  <2> QED
    BY <2>2, <2>4, <2>5, <2>6, MeansType
<1> QED
  BY <1>1

\* More has been received.
Extends ==
    /\ received \in Seq(Frames) /\ received' \in Seq(Frames)
    /\ Len(received) <= Len(received')
    /\ \A i \in 1..Len(received) : received'[i] = received[i]

\* What is in the frames received stays so.
LEMMA JsonKept ==
    ASSUME Extends, NEW s \in Seq((1..Len(received)) \X Keys)
    PROVE  IsJson(s)' <=> IsJson(s)
<1>1. \A i \in 1..Len(s) : s[i][1] \in 1..Len(received)
  OBVIOUS
<1>2. \A i \in 1..Len(s) : received'[s[i][1]] = received[s[i][1]]
  BY <1>1 DEF Extends
<1>3. PartsOf(s)' = PartsOf(s)
  BY <1>2 DEF PartsOf
<1> QED
  BY <1>3, Zenon DEF IsRequest, IsJson

LEMMA MeansKept ==
    ASSUME Extends, NEW n \in 1..Len(received), NEW was
    PROVE  Means(was, n)' = Means(was, n)
<1>1. received'[n] = received[n]
  BY DEF Extends
<1> QED
  BY <1>1, Zenon DEF Means, Accepted

LEMMA MeaningKept ==
    ASSUME Extends
    PROVE  \A n \in 0..Len(received) : Meaning(n)' = Meaning(n)
<1> DEFINE T == {n \in 0..Len(received) : Meaning(n)' # Meaning(n)}
<1>1. /\ Meaning(0)' = NothingMeant
      /\ \A n \in Nat : Meaning(n + 1)' = Means(Meaning(n), n + 1)'
  <2>1. (/\ Meaning(0) = NothingMeant
         /\ \A n \in Nat : Meaning(n + 1) = Means(Meaning(n), n + 1))'
    BY MeaningUnfolds, PTL
  <2> QED
    BY <2>1
<1>2. ASSUME T # {} PROVE FALSE
  <2>1. T \subseteq Nat
    OBVIOUS
  <2>2. PICK n \in T : \A m \in T : n <= m
    BY <1>2, <2>1, LeastNatural
  <2>3. n \in 0..Len(received) /\ Meaning(n)' # Meaning(n)
    OBVIOUS
  <2>4. n # 0
    BY <1>1, <2>3, MeaningUnfolds
  <2>5. n - 1 \in 0..Len(received) /\ n \in 1..Len(received) /\ (n - 1) + 1 = n /\ ~(n <= n - 1)
    BY <2>3, <2>4
  <2>6. Meaning(n - 1)' = Meaning(n - 1) /\ Meaning(n - 1) \in Meanings(n - 1)
    BY <2>2, <2>5, MeaningType DEF Extends
  <2>7. PICK was : was = Meaning(n - 1)
    OBVIOUS
  <2>8. Meaning(n) = Means(was, n) /\ Meaning(n)' = Means(was, n)'
    <3>1. Meaning((n - 1) + 1) = Means(was, (n - 1) + 1)
      BY <2>5, <2>7, MeaningUnfolds
    <3>2. Meaning((n - 1) + 1)' = Means(Meaning(n - 1), (n - 1) + 1)'
      BY <1>1, <2>5
    <3> QED
      BY <2>5, <2>6, <2>7, <3>1, <3>2
  <2> QED
    BY <2>3, <2>5, <2>6, <2>7, <2>8, MeansKept
<1> QED
  BY <1>2

-----------------------------------------------------------------------------
(* What the parser keeps *)

Decoded == (1..Len(received)) \X Keys
Pieces == Decoded \union {Nul}

\* The first NUL of a text, and a text that was no JSON and has been kept: with
\* its NUL, it stays no JSON whatever is appended.
Cut(s, n) == s[n] = Nul /\ \A i \in 1..(n - 1) : s[i] # Nul
Spoilt(s) == \E n \in 1..Len(s) : Cut(s, n) /\ ~IsJson(SubSeq(s, 1, n - 1))

\* Pieces of frames, decoded with the right keys; and those of the fragments of
\* a message.
Right(s) == s \in Seq(Decoded) /\ \A k \in 1..Len(s) : RightKey(s[k])
Fragments(s, open) == Right(s) /\ FramesOf(s) = open

LEMMA DecodedNoNul ==
    Nul \notin Decoded
<1>1. \A e \in Decoded : e[1] \in 1..Len(received)
  BY DEF Decoded
<1> QED
  BY <1>1 DEF Nul

LEMMA TextIs ==
    ASSUME NEW S, NEW s \in Seq(S), NEW n \in 1..Len(s), Cut(s, n)
    PROVE  Text(s) = SubSeq(s, 1, n - 1)
<1> DEFINE nuls == {i \in 1..Len(s) : s[i] = Nul}
<1>1. Text(s) = SubSeq(s, 1, (CHOOSE i \in nuls : \A j \in nuls : i <= j) - 1)
  BY Zenon DEF Text
<1>2. Len(s) \in Nat
  OBVIOUS
<1>3. n \in nuls /\ \A j \in nuls : n <= j
  <2>1. ASSUME NEW j \in nuls, ~(n <= j) PROVE FALSE
    <3>1. j \in 1..(n - 1) /\ s[j] = Nul
      BY <1>2, <2>1
    <3> QED
      BY <3>1 DEF Cut
  <2> QED
    BY <2>1 DEF Cut
<1>4. \A i \in nuls : i \in Int
  OBVIOUS
<1> HIDE DEF nuls
<1>5. (CHOOSE i \in nuls : \A j \in nuls : i <= j) = n
  <2>1. PICK c : c = CHOOSE i \in nuls : \A j \in nuls : i <= j
    OBVIOUS
  <2>2. c \in nuls /\ \A j \in nuls : c <= j
    BY <1>3, <2>1, Zenon
  <2>3. c <= n /\ n <= c /\ c \in Int /\ n \in Int
    BY <1>3, <1>4, <2>2
  <2> QED
    BY <2>1, <2>3
<1> QED
  BY <1>1, <1>5

\* What is appended behind a NUL is not read.
LEMMA SpoiltAppend ==
    ASSUME NEW S, NEW s \in Seq(S), NEW e \in S, Spoilt(s)
    PROVE  Spoilt(Append(s, e))
<1> DEFINE t == Append(s, e)
<1>1. /\ t \in Seq(S) /\ Len(t) = Len(s) + 1 /\ Len(s) \in Nat
      /\ \A i \in 1..Len(s) : t[i] = s[i]
  BY AppendProperties
<1> HIDE DEF t
<1>2. PICK n \in 1..Len(s) : Cut(s, n) /\ ~IsJson(SubSeq(s, 1, n - 1))
  BY DEF Spoilt
<1>3. Cut(t, n) /\ n \in 1..Len(t)
  BY <1>1, <1>2 DEF Cut
<1>4. SubSeq(t, 1, n - 1) = SubSeq(s, 1, n - 1)
  <2>1. /\ n - 1 \in 0..Len(s) /\ n - 1 \in 0..Len(t)
    BY <1>1
  <2>2. SubSeq(t, 1, n - 1) = [i \in 1..(n - 1) |-> t[i]]
    BY <1>1, <2>1
  <2>3. SubSeq(s, 1, n - 1) = [i \in 1..(n - 1) |-> s[i]]
    BY <1>1, <2>1
  <2> QED
    BY <1>1, <2>1, <2>2, <2>3
<1> QED
  BY <1>2, <1>3, <1>4 DEF Spoilt, t

LEMMA SpoiltText ==
    ASSUME NEW S, NEW s \in Seq(S), Spoilt(s)
    PROVE  ~IsJson(Text(s))
<1>1. PICK n \in 1..Len(s) : Cut(s, n) /\ ~IsJson(SubSeq(s, 1, n - 1))
  BY DEF Spoilt
<1> QED
  BY <1>1, TextIs

\* Without one, the text is what has been kept.
LEMMA CleanText ==
    ASSUME Types, NEW s \in Seq(Decoded)
    PROVE  /\ Text(Append(s, Nul)) = s
           /\ ~IsJson(s) => Spoilt(Append(s, Nul))
<1> DEFINE t == Append(s, Nul)  n == Len(s) + 1
<1>1. s \in Seq(Pieces) /\ Nul \in Pieces
  <2>1. Decoded \subseteq Pieces /\ Nul \in Pieces
    BY DEF Pieces
  <2> QED
    BY <2>1, SeqMonotonic, Zenon
<1>2. /\ t \in Seq(Pieces) /\ Len(t) = n /\ Len(s) \in Nat /\ t[n] = Nul
      /\ \A i \in 1..Len(s) : t[i] = s[i]
  BY <1>1, AppendProperties
<1> HIDE DEF t
<1>3. \A i \in 1..Len(s) : s[i] # Nul
  BY DecodedNoNul
<1>4. Cut(t, n) /\ n \in 1..Len(t) /\ n - 1 = Len(s)
  BY <1>2, <1>3 DEF Cut
<1>5. SubSeq(t, 1, n - 1) = s
  <2>1. SubSeq(t, 1, n - 1) = [i \in 1..(n - 1) |-> t[i]]
    BY <1>2, <1>4
  <2>2. s = [i \in 1..Len(s) |-> s[i]]
    OBVIOUS
  <2> QED
    BY <1>2, <1>4, <2>1, <2>2
<1>6. Text(t) = s
  BY <1>2, <1>4, <1>5, TextIs
<1> QED
  BY <1>4, <1>5, <1>6 DEF Spoilt, t

LEMMA SpoiltKept ==
    ASSUME Extends, NEW s \in Seq(Pieces), Spoilt(s)
    PROVE  Spoilt(s)'
<1>1. PICK n \in 1..Len(s) : Cut(s, n) /\ ~IsJson(SubSeq(s, 1, n - 1))
  BY DEF Spoilt
<1> DEFINE t == SubSeq(s, 1, n - 1)
<1>2. t \in Seq(Decoded)
  <2>1. n - 1 \in Nat /\ n - 1 \in 0..Len(s)
    OBVIOUS
  <2>2. t = [i \in 1..(n - 1) |-> s[i]]
    BY <2>1
  <2>3. \A i \in 1..(n - 1) : s[i] \in Decoded
    BY <1>1 DEF Cut, Pieces
  <2>4. t \in [1..(n - 1) -> Decoded]
    BY <2>2, <2>3
  <2> HIDE DEF t
  <2> QED
    BY <2>1, <2>4
<1> HIDE DEF t
<1>3. PICK u : u = t
  OBVIOUS
<1>4. IsJson(u)' <=> IsJson(u)
  BY <1>2, <1>3, JsonKept DEF Decoded
<1> QED
  BY <1>1, <1>3, <1>4 DEF Spoilt, Cut, t

Firsts(R, S) == \A p \in R : p[1] \in S

LEMMA FramesType ==
    ASSUME NEW S, NEW R, Firsts(R, S), NEW s \in Seq(R)
    PROVE  /\ FramesOf(s) \in Seq(S) /\ Len(FramesOf(s)) = Len(s)
           /\ \A i \in 1..Len(s) : FramesOf(s)[i] = s[i][1]
<1>1. Len(s) \in Nat /\ \A i \in 1..Len(s) : s[i][1] \in S
  BY DEF Firsts
<1>2. FramesOf(s) = [i \in 1..Len(s) |-> s[i][1]]
  BY Zenon DEF FramesOf
<1> QED
  BY <1>1, <1>2

LEMMA FramesAppend ==
    ASSUME NEW S, NEW R, Firsts(R, S), NEW s \in Seq(R), NEW p \in R
    PROVE  FramesOf(Append(s, p)) = Append(FramesOf(s), p[1])
<1> DEFINE t == Append(s, p)  u == Append(FramesOf(s), p[1])
<1>1. p[1] \in S
  BY DEF Firsts
<1>2. /\ t \in Seq(R) /\ Len(t) = Len(s) + 1 /\ Len(s) \in Nat /\ t[Len(s) + 1] = p
      /\ \A i \in 1..Len(s) : t[i] = s[i]
  BY AppendProperties
<1>3. /\ FramesOf(s) \in Seq(S) /\ Len(FramesOf(s)) = Len(s)
      /\ \A i \in 1..Len(s) : FramesOf(s)[i] = s[i][1]
  BY FramesType
<1>4. /\ u \in Seq(S) /\ Len(u) = Len(s) + 1 /\ u[Len(s) + 1] = p[1]
      /\ \A i \in 1..Len(s) : u[i] = s[i][1]
  <2>1. PICK q, v : q = p[1] /\ v = FramesOf(s)
    OBVIOUS
  <2>2. /\ Append(v, q) \in Seq(S) /\ Len(Append(v, q)) = Len(v) + 1
        /\ Append(v, q)[Len(v) + 1] = q
        /\ \A i \in 1..Len(v) : Append(v, q)[i] = v[i]
    BY <1>1, <1>3, <2>1, AppendProperties
  <2> QED
    BY <1>3, <2>1, <2>2
<1> HIDE DEF t, u
<1>5. /\ FramesOf(t) \in Seq(S) /\ Len(FramesOf(t)) = Len(t)
      /\ \A i \in 1..Len(t) : FramesOf(t)[i] = t[i][1]
  BY <1>2, FramesType
<1>6. \A i \in 1..Len(t) : FramesOf(t)[i] = u[i]
  <2> TAKE i \in 1..Len(t)
  <2>1. CASE i = Len(s) + 1
    BY <1>2, <1>4, <1>5, <2>1
  <2>2. CASE i # Len(s) + 1
    <3>1. i \in 1..Len(s)
      BY <1>2, <2>2
    <3> QED
      BY <1>2, <1>4, <1>5, <3>1
  <2> QED
    BY <2>1, <2>2
<1>7. FramesOf(t) = u
  BY <1>2, <1>4, <1>5, <1>6, SeqEqual
<1> QED
  BY <1>7 DEF t, u

LEMMA PiecesKept ==
    ASSUME Extends
    PROVE  Decoded \subseteq Decoded' /\ Pieces \subseteq Pieces'
<1>1. 1..Len(received) \subseteq 1..Len(received')
  BY DEF Extends
<1>2. Decoded \subseteq Decoded'
  BY <1>1, Zenon DEF Decoded
<1> QED
  BY <1>2, Zenon DEF Pieces, Nul

LEMMA RightKept ==
    ASSUME Extends, NEW s, Right(s)
    PROVE  Right(s)'
<1>1. s \in Seq(Decoded')
  BY PiecesKept, SeqMonotonic, Zenon DEF Right
<1>2. \A k \in 1..Len(s) : s[k][1] \in 1..Len(received)
  BY DEF Right, Decoded
<1>3. \A k \in 1..Len(s) : received'[s[k][1]] = received[s[k][1]] /\ RightKey(s[k])
  BY <1>2 DEF Extends, Right
<1>4. \A k \in 1..Len(s) : RightKey(s[k])'
  BY <1>3, Zenon DEF RightKey
<1> QED
  BY <1>1, <1>4, Zenon DEF Right

\* Nothing is cut off a text of which no piece is a NUL.
LEMMA RightNoNul ==
    ASSUME Right(totalPayload)
    PROVE  ~Stuck
<1>1. \A i \in 1..Len(totalPayload) : totalPayload[i] \in Decoded
  BY DEF Right
<1> QED
  BY <1>1, DecodedNoNul DEF Stuck

-----------------------------------------------------------------------------
(* What the parser calls back *)

Whole(requests) ==
    \A i \in 1..Len(delivered) : IsMessage(delivered[i]) =>
        /\ \E j \in 1..Len(requests) : requests[j] = Called[i]
        /\ Right(delivered[i].pieces)
Complete(requests) == crashed \/ Stuck \/ Called = requests

\* The requests called back are those the client means, as far as the parser
\* accepts them.
CallsAgree(requests) ==
    /\ delivered \in Seq(Requests)
    /\ Whole(requests)
    /\ Controls(Called) = Controls(requests)
    /\ Complete(requests)

Stripped(r) == Request(r.command, IF IsMessage(r) THEN FramesOf(r.pieces) ELSE <<>>)

LEMMA StrippedType ==
    ASSUME NEW r \in Requests
    PROVE  Stripped(r) \in Meant /\ (IsControl(Stripped(r)) <=> IsControl(r))
<1>1. r.pieces \in Seq(Nat \X Keys) /\ r.command \in {"close", "ping", "message"}
  BY DEF Requests
<1>2. FramesOf(r.pieces) \in Seq(Nat) /\ <<>> \in Seq(Nat)
  <2> DEFINE R == Nat \X Keys
  <2>1. r.pieces \in Seq(R) /\ Firsts(R, Nat)
    BY <1>1 DEF Firsts
  <2> HIDE DEF R
  <2> QED
    BY <2>1, FramesType
<1> QED
  BY <1>1, <1>2 DEF Stripped, Request, Meant, IsMessage, IsControl

LEMMA CalledIs ==
    ASSUME delivered \in Seq(Requests)
    PROVE  /\ Called \in Seq(Meant) /\ Len(Called) = Len(delivered)
           /\ \A i \in 1..Len(delivered) : Called[i] = Stripped(delivered[i])
<1>1. Called = [i \in 1..Len(delivered) |-> Stripped(delivered[i])]
  BY Zenon DEF Called, Stripped
<1>2. \A i \in 1..Len(delivered) : Stripped(delivered[i]) \in Meant
  BY StrippedType
<1>3. Called \in [1..Len(delivered) -> Meant]
  BY <1>1, <1>2
<1>4. Len(delivered) \in Nat
  OBVIOUS
<1> QED
  BY <1>1, <1>3, <1>4

LEMMA CalledAppend ==
    ASSUME delivered \in Seq(Requests), NEW r \in Requests,
           delivered' = Append(delivered, r)
    PROVE  Called' = Append(Called, Stripped(r))
<1>1. Called' = [i \in 1..Len(delivered') |-> Stripped(delivered'[i])]
  BY Zenon DEF Called, Stripped
<1>2. /\ Called \in Seq(Meant) /\ Len(Called) = Len(delivered)
      /\ \A i \in 1..Len(delivered) : Called[i] = Stripped(delivered[i])
  BY CalledIs
<1>3. /\ Len(delivered) \in Nat /\ Len(delivered') = Len(delivered) + 1
      /\ delivered'[Len(delivered) + 1] = r
      /\ \A i \in 1..Len(delivered) : delivered'[i] = delivered[i]
  BY AppendProperties
<1>4. PICK e : e = Stripped(r)
  OBVIOUS
<1>5. e \in Meant
  BY <1>4, StrippedType
<1> DEFINE t == Append(Called, e)
<1>6. /\ t \in Seq(Meant) /\ Len(t) = Len(Called) + 1 /\ t[Len(Called) + 1] = e
      /\ \A i \in 1..Len(Called) : t[i] = Called[i]
  BY <1>2, <1>5, AppendProperties
<1> HIDE DEF t
<1>7. t = [i \in 1..Len(t) |-> t[i]]
  BY <1>6
<1>8. \A i \in 1..Len(t) : t[i] = Stripped(delivered'[i])
  BY <1>2, <1>3, <1>4, <1>6
<1> QED
  BY <1>1, <1>2, <1>3, <1>4, <1>6, <1>7, <1>8 DEF t

\* A message called back before stays one the client has sent.
LEMMA StaysWhole ==
    ASSUME Extends, NEW requests, Whole(requests), NEW after,
           \A j \in 1..Len(requests) : j \in 1..Len(after) /\ after[j] = requests[j],
           NEW i \in 1..Len(delivered), IsMessage(delivered[i]),
           NEW q, q = delivered[i].pieces
    PROVE  (\E j \in 1..Len(after) : after[j] = Called[i]) /\ Right(q)'
<1>1. Right(delivered[i].pieces) /\ \E j \in 1..Len(requests) : requests[j] = Called[i]
  BY Zenon DEF Whole
<1>2. PICK j \in 1..Len(requests) : requests[j] = Called[i]
  BY <1>1
<1>3. j \in 1..Len(after) /\ after[j] = Called[i]
  BY <1>2
<1>4. Right(q)
  BY <1>1
<1>5. Right(q)'
  BY <1>4, RightKept
<1> QED
  BY <1>3, <1>5

\* A request the client means is called back.
LEMMA CallsBoth ==
    ASSUME Extends, NEW requests \in Seq(Meant), CallsAgree(requests), NEW r \in Requests,
           delivered' = Append(delivered, r), crashed' = crashed, Stuck => Stuck',
           NEW q, q = r.pieces, IsMessage(r) => Right(q)'
    PROVE  CallsAgree(Append(requests, Stripped(r)))'
<1> DEFINE e == Stripped(r)  after == Append(requests, e)
<1>1. e \in Meant /\ (IsControl(e) <=> IsControl(r))
  BY StrippedType
<1>2. /\ Called' = Append(Called, e) /\ Called \in Seq(Meant)
      /\ Len(Called) = Len(delivered)
  BY CalledIs, CalledAppend DEF CallsAgree
<1>3. delivered' \in Seq(Requests)
  BY DEF CallsAgree
<1>4. Controls(Called)' = Controls(after)
  <2> HIDE DEF e
  <2>1. Controls(Append(Called, e)) = Controls(Append(requests, e))
    BY <1>1, <1>2, ControlsUnfold DEF CallsAgree
  <2>2. PICK c : c = Append(Called, e)
    OBVIOUS
  <2>3. Controls(c) = Controls(after) /\ Called' = c
    BY <1>2, <2>1, <2>2
  <2>4. Controls(Called)' = Controls(c)
    BY <2>3, Zenon DEF Controls
  <2> QED
    BY <2>3, <2>4
<1>5. Whole(after)'
  <2>1. /\ Len(delivered') = Len(delivered) + 1 /\ Len(delivered) \in Nat
        /\ delivered'[Len(delivered) + 1] = r
        /\ \A i \in 1..Len(delivered) : delivered'[i] = delivered[i]
    BY AppendProperties DEF CallsAgree
  <2>2. /\ Len(after) = Len(requests) + 1 /\ Len(requests) \in Nat
        /\ after[Len(requests) + 1] = e
        /\ \A i \in 1..Len(requests) : after[i] = requests[i]
    BY <1>1, AppendProperties
  <2>3. /\ Called'[Len(delivered) + 1] = e
        /\ \A i \in 1..Len(delivered) : Called'[i] = Called[i]
    BY <1>1, <1>2, AppendProperties
  <2>4. \A j \in 1..Len(requests) : j \in 1..Len(after) /\ after[j] = requests[j]
    BY <2>2
  <2> HIDE DEF after, e
  <2>5. ASSUME NEW i \in 1..Len(delivered'), IsMessage(delivered'[i])
        PROVE  /\ \E j \in 1..Len(after) : after[j] = Called'[i]
               /\ \A p : p = delivered'[i].pieces => Right(p)'
    <3>1. CASE i = Len(delivered) + 1
      <4>1. Len(after) \in 1..Len(after) /\ after[Len(after)] = Called'[i]
        BY <2>1, <2>2, <2>3, <3>1
      <4> QED
        BY <2>1, <2>5, <3>1, <4>1
    <3>2. CASE i # Len(delivered) + 1
      <4>1. i \in 1..Len(delivered) /\ delivered'[i] = delivered[i] /\ IsMessage(delivered[i])
        BY <2>1, <2>5, <3>2
      <4>2. PICK p : p = delivered[i].pieces
        OBVIOUS
      <4>3. (\E j \in 1..Len(after) : after[j] = Called[i]) /\ Right(p)'
        <5>1. Whole(requests)
          BY DEF CallsAgree
        <5> QED
          BY <2>4, <4>1, <4>2, <5>1, StaysWhole
      <4> QED
        BY <2>3, <4>1, <4>2, <4>3
    <3> QED
      BY <3>1, <3>2
  <2>6. ASSUME NEW i \in 1..Len(delivered'), IsMessage(delivered'[i])
        PROVE  /\ \E j \in 1..Len(after) : after[j] = Called'[i]
               /\ Right(delivered[i].pieces)'
    <3>1. PICK p : p = delivered'[i].pieces
      OBVIOUS
    <3>2. Right(p)'
      BY <2>5, <2>6, <3>1
    <3> QED
      BY <2>5, <2>6, <3>1, <3>2
  <2> QED
    BY <2>6 DEF Whole, IsMessage
<1>6. Complete(after)'
  BY <1>2 DEF CallsAgree, Complete
<1> QED
  BY <1>3, <1>4, <1>5, <1>6 DEF CallsAgree, Controls

\* Nothing is called back, and what the client means is as before, or a message
\* that is lost.
LEMMA CallsNothing ==
    ASSUME Extends, NEW requests \in Seq(Meant), CallsAgree(requests),
           delivered' = delivered, NEW after,
           \/ after = requests /\ (Stuck => Stuck') /\ (crashed => crashed')
           \/ /\ Stuck' \/ crashed'
              /\ \E r \in Meant : IsMessage(r) /\ after = Append(requests, r)
    PROVE  CallsAgree(after)'
<1>1. Called' = Called
  BY DEF Called
<1>2. /\ \A j \in 1..Len(requests) : j \in 1..Len(after) /\ after[j] = requests[j]
      /\ Controls(after) = Controls(requests)
  <2>1. CASE after = requests
    BY <2>1
  <2>2. ASSUME NEW r \in Meant, IsMessage(r), after = Append(requests, r)
        PROVE  /\ \A j \in 1..Len(requests) : j \in 1..Len(after) /\ after[j] = requests[j]
               /\ Controls(after) = Controls(requests)
    <3>1. Controls(after) = Controls(requests)
      BY <2>2, ControlsUnfold DEF IsMessage, IsControl
    <3>2. /\ Len(after) = Len(requests) + 1 /\ Len(requests) \in Nat
          /\ \A i \in 1..Len(requests) : after[i] = requests[i]
      BY <2>2, AppendProperties
    <3> QED
      BY <3>1, <3>2
  <2> QED
    BY <2>1, <2>2
<1>3. Whole(after)'
  <2>1. ASSUME NEW i \in 1..Len(delivered), IsMessage(delivered[i])
        PROVE  /\ \E j \in 1..Len(after) : after[j] = Called[i]
               /\ Right(delivered[i].pieces)'
    <3>1. PICK p : p = delivered[i].pieces
      OBVIOUS
    <3>2. (\E j \in 1..Len(after) : after[j] = Called[i]) /\ Right(p)'
      <4>1. Whole(requests)
        BY DEF CallsAgree
      <4> QED
        BY <1>2, <2>1, <3>1, <4>1, StaysWhole
    <3>3. p = delivered'[i].pieces
      BY <3>1
    <3> QED
      BY <3>2, <3>3
  <2> QED
    BY <1>1, <2>1 DEF Whole, IsMessage
<1>4. Controls(Called)' = Controls(after)
  <2>1. Controls(Called)' = Controls(Called)
    BY <1>1, Zenon DEF Controls
  <2> QED
    BY <1>2, <2>1 DEF CallsAgree
<1>5. Complete(after)'
  BY <1>1 DEF Complete, CallsAgree
<1>6. delivered' \in Seq(Requests)
  BY DEF CallsAgree
<1> QED
  BY <1>3, <1>4, <1>5, <1>6, Zenon DEF CallsAgree, Controls

-----------------------------------------------------------------------------
(* How a frame ends *)

\* What is kept are the fragments of the open message, or text that was no JSON.
Kept(open) ==
    /\ totalPayload \in Seq(Pieces)
    /\ crashed \/ Spoilt(totalPayload) \/ Fragments(totalPayload, open)

Agrees(m) == Kept(m.open) /\ CallsAgree(m.requests)

LEMMA SpoiltStuck ==
    ASSUME Spoilt(totalPayload)
    PROVE  Stuck
  BY DEF Spoilt, Cut, Stuck

LEMMA KeptStays ==
    ASSUME Extends, NEW open, Kept(open), totalPayload' = totalPayload,
           crashed => crashed'
    PROVE  Kept(open)' /\ (Stuck => Stuck')
<1>1. PICK s : s = totalPayload
  OBVIOUS
<1>2. s \in Seq(Pieces) /\ s \in Seq(Pieces')
  BY <1>1, PiecesKept, SeqMonotonic, Zenon DEF Kept
<1>3. (Spoilt(s) => Spoilt(s)') /\ (Right(s) => Right(s)')
  BY <1>2, SpoiltKept, RightKept
<1>4. totalPayload' = s
  BY <1>1
<1>5. Spoilt(totalPayload) => Spoilt(totalPayload)'
  BY <1>1, <1>3, <1>4
<1>6. Fragments(totalPayload, open) => Fragments(totalPayload, open)'
  <2>1. Fragments(s, open) => Fragments(s, open)'
    BY <1>3, Zenon DEF Fragments, FramesOf
  <2> QED
    BY <1>1, <1>4, <2>1
<1>7. Stuck => Stuck'
  BY Zenon DEF Stuck, Nul
<1>8. totalPayload' \in Seq(Pieces)'
  BY <1>2, <1>4
<1> QED
  BY <1>5, <1>6, <1>7, <1>8, Zenon DEF Kept

LEMMA RightPieces ==
    ASSUME Types, NEW s, Right(s)
    PROVE  s \in Seq(Pieces) /\ s \in Seq(Nat \X Keys)
<1>1. Decoded \subseteq Pieces
  BY DEF Pieces
<1>2. 1..Len(received) \subseteq Nat
  OBVIOUS
<1>3. Decoded \subseteq Nat \X Keys
  BY <1>2, Zenon DEF Decoded
<1> QED
  BY <1>1, <1>3, SeqMonotonic, Zenon DEF Right

\* Nothing is kept.
LEMMA KeptNothing ==
    ASSUME totalPayload' = <<>>
    PROVE  Kept(<<>>)' /\ ~Stuck'
<1>1. /\ <<>> \in Seq(Decoded)' /\ <<>> \in Seq(Pieces)' /\ 1..Len(<<>>) = {}
      /\ FramesOf(<<>>)' = <<>>
  BY DEF FramesOf
<1>2. Right(<<>>)'
  BY <1>1, Zenon DEF Right
<1>3. Fragments(<<>>, <<>>)'
  BY <1>1, <1>2, Zenon DEF Fragments
<1>4. Fragments(totalPayload, <<>>)'
  BY <1>3
<1>5. totalPayload' \in Seq(Pieces)'
  BY <1>1
<1> QED
  BY <1>1, <1>4, <1>5, Zenon DEF Kept, Stuck

\* The final frame of a message, with the text collected before it and of it.
LEMMA PayloadStep ==
    ASSUME Types, Extends, received' = received, ~crashed, NEW n \in Nat,
           NEW open \in Seq(1..n), NEW all \in Seq(Pieces), totalPayload \in Seq(Pieces),
           Spoilt(all) \/ (Fragments(all, open) /\ ~Stuck),
           NEW requests \in Seq(Meant), CallsAgree(requests), Payload(all)
    PROVE  Kept(<<>>)' /\ CallsAgree(Append(requests, Request("message", open)))'
<1> DEFINE t == Append(all, Nul)  m == Request("message", open)
<1>1. /\ delivered \in Seq(Requests) /\ t \in Seq(Pieces) /\ Nul \in Pieces
      /\ t # <<>> /\ Len(t) = Len(all) + 1 /\ Len(all) \in Nat /\ t[Len(all) + 1] = Nul
  <2>1. Nul \in Pieces
    BY DEF Pieces
  <2> QED
    BY <2>1, AppendProperties DEF CallsAgree
<1>2. \/ IsJson(Text(t)) /\ Ends(<<Request("message", Text(t))>>, FALSE, <<>>)
      \/ IsJson(Text(t)) /\ ~IsRequest(Text(t)) /\ Crashes
      \/ ~IsJson(Text(t)) /\ Ends(<<>>, TRUE, t)
  BY Zenon DEF Payload
<1>3. m \in Meant /\ IsMessage(m)
  <2>1. 1..n \subseteq Nat
    OBVIOUS
  <2>2. open \in Seq(Nat)
    BY <2>1, SeqMonotonic
  <2> QED
    BY <2>2 DEF Request, Meant, IsMessage
<1> HIDE DEF t, m
<1>4. (~IsJson(Text(t)) /\ Spoilt(t)) \/ (Text(t) = all /\ Fragments(all, open) /\ ~Stuck)
  <2>1. CASE Spoilt(all)
    BY <1>1, <2>1, SpoiltAppend, SpoiltText DEF t
  <2>2. CASE Fragments(all, open) /\ ~Stuck
    <3>1. Text(t) = all
      BY <2>2, CleanText DEF t, Fragments, Right
    <3> QED
      BY <2>2, <3>1
  <2> QED
    BY <2>1, <2>2
<1>5. CASE Ends(<<>>, TRUE, t) /\ ~IsJson(Text(t))
  <2>1. delivered' = delivered /\ totalPayload' = t
    BY <1>1, <1>5 DEF Ends
  <2>2. Stuck'
    <3>1. Len(all) + 1 \in 1..Len(t) /\ t[Len(all) + 1] = Nul /\ Nul' = Nul
      BY <1>1 DEF Nul
    <3>2. \E i \in 1..Len(totalPayload') : totalPayload'[i] = Nul'
      BY <2>1, <3>1
    <3> QED
      BY <3>2, Zenon DEF Stuck
  <2>3. CallsAgree(Append(requests, m))'
    BY <1>3, <2>1, <2>2, CallsNothing
  <2>4. Spoilt(t)
    <3>1. ASSUME Text(t) = all, Fragments(all, open) PROVE Spoilt(t)
      BY <1>5, <3>1, CleanText DEF t, Fragments, Right
    <3> QED
      BY <1>4, <3>1
  <2>5. Kept(<<>>)'
    <3>1. PICK s : s = t
      OBVIOUS
    <3>2. s \in Seq(Pieces') /\ Spoilt(s)'
      BY <1>1, <2>4, <3>1, PiecesKept, SeqMonotonic, SpoiltKept, Zenon
    <3>3. totalPayload' = s
      BY <2>1, <3>1
    <3>4. Spoilt(totalPayload)'
      BY <3>2, <3>3
    <3> QED
      BY <3>2, <3>3, <3>4, Zenon DEF Kept
  <2> QED
    BY <2>3, <2>5 DEF m
<1>6. CASE Crashes
  <2>1. delivered' = delivered /\ totalPayload' = totalPayload /\ crashed'
    BY <1>6 DEF Crashes
  <2>2. CallsAgree(Append(requests, m))'
    BY <1>3, <2>1, CallsNothing
  <2>3. Kept(<<>>)'
    <3>1. PICK s : s = totalPayload
      OBVIOUS
    <3>2. s \in Seq(Pieces)
      BY <3>1
    <3>3. s \in Seq(Pieces')
      BY <3>2, PiecesKept, SeqMonotonic, Zenon
    <3>4. totalPayload' \in Seq(Pieces)'
      BY <2>1, <3>1, <3>3
    <3> QED
      BY <2>1, <3>4, Zenon DEF Kept
  <2> QED
    BY <2>2, <2>3 DEF m
<1>7. CASE IsJson(Text(t)) /\ Ends(<<Request("message", Text(t))>>, FALSE, <<>>)
  <2>1. Text(t) = all /\ Fragments(all, open) /\ ~Stuck
    BY <1>4, <1>7
  <2>2. PICK r : r = Request("message", all)
    OBVIOUS
  <2>3. r \in Requests /\ IsMessage(r) /\ r.pieces = all /\ Stripped(r) = m
    <3>1. all \in Seq(Nat \X Keys) /\ FramesOf(all) = open
      BY <2>1, RightPieces DEF Fragments
    <3> QED
      BY <2>2, <3>1 DEF Request, Requests, IsMessage, Stripped, m
  <2>4. delivered' = delivered \o <<r>> /\ totalPayload' = <<>> /\ crashed' = crashed
    BY <1>7, <2>1, <2>2 DEF Ends
  <2>5. delivered' = Append(delivered, r)
    BY <1>1, <2>3, <2>4
  <2>6. Right(all)'
    BY <2>1, RightKept DEF Fragments
  <2>7. CallsAgree(Append(requests, Stripped(r)))'
    BY <2>1, <2>3, <2>4, <2>5, <2>6, CallsBoth
  <2> QED
    BY <2>3, <2>4, <2>7, KeptNothing DEF m
<1> QED
  BY <1>2, <1>5, <1>6, <1>7

\* The payload of a frame is one more piece of what is collected.
LEMMA Collected ==
    ASSUME Types, received # <<>>, KeyCopied, NEW n, n = Len(received),
           NEW p, p = Piece(Current, maskingKey), NEW s \in Seq(Pieces)
    PROVE  /\ p \in Decoded /\ p \in Nat \X Keys /\ p \in Pieces /\ p[1] = n
           /\ Append(s, p) \in Seq(Pieces)
           /\ Spoilt(s) => Spoilt(Append(s, p))
           /\ \A o : Fragments(s, o) => Fragments(Append(s, p), Append(o, n))
<1> DEFINE all == Append(s, p)
<1>1. n \in Nat \ {0} /\ Current \in Frames /\ Current = received[n] /\ maskingKey \in Keys
  BY CurrentFacts DEF Types, Current
<1>2. Current.masked \in BOOLEAN /\ Current.ext \in {0, 2, 8}
  BY <1>1, FrameFacts
<1>3. PICK k : k = IF Current.masked THEN maskingKey ELSE Zeros
  OBVIOUS
<1>4. p = <<n, k>> /\ k \in Keys /\ n \in 1..n
  BY <1>1, <1>3, FrameAssumption DEF Piece
<1>5. p \in Decoded /\ p \in Nat \X Keys /\ p \in Pieces /\ p[1] = n /\ p[2] = k
  BY <1>1, <1>4 DEF Decoded, Pieces
<1>6. RightKey(p)
  <2>1. Current.ext # 0 \/ ~Current.masked => k = IF Current.masked THEN Current.key ELSE Zeros
    BY <1>2, <1>3 DEF KeyCopied
  <2> QED
    BY <1>1, <1>5, <2>1, Zenon DEF RightKey
<1>7. all \in Seq(Pieces) /\ (Spoilt(s) => Spoilt(all))
  BY <1>5, SpoiltAppend, AppendProperties
<1>8. ASSUME NEW o, Fragments(s, o) PROVE Fragments(all, Append(o, n))
  <2>1. s \in Seq(Decoded) /\ FramesOf(s) = o /\ \A i \in 1..Len(s) : RightKey(s[i])
    BY <1>8, Zenon DEF Fragments, Right
  <2>2. FramesOf(all) = Append(o, n)
    <3>1. Firsts(Decoded, Nat)
      BY <1>1 DEF Decoded, Firsts
    <3> QED
      BY <1>5, <2>1, <3>1, FramesAppend
  <2>3. /\ all \in Seq(Decoded) /\ Len(all) = Len(s) + 1 /\ Len(s) \in Nat
        /\ all[Len(s) + 1] = p /\ \A i \in 1..Len(s) : all[i] = s[i]
    BY <1>5, <2>1, AppendProperties
  <2> HIDE DEF all
  <2>4. ASSUME NEW i \in 1..Len(all) PROVE RightKey(all[i])
    <3>1. CASE i = Len(s) + 1
      BY <1>6, <2>3, <3>1
    <3>2. CASE i # Len(s) + 1
      <4>1. i \in 1..Len(s)
        BY <2>3, <3>2
      <4> QED
        BY <2>1, <2>3, <4>1
    <3> QED
      BY <3>1, <3>2
  <2> QED
    BY <2>2, <2>3, <2>4, Zenon DEF Fragments, Right
<1> QED
  BY <1>5, <1>7, <1>8

\* What is kept when a frame of text has been read.
LEMMA Collects ==
    ASSUME Types, received # <<>>, ~crashed, NEW f, f = Current,
           f.size # 0 => KeyCopied, NEW n, n = Len(received),
           NEW open \in Seq(1..(n - 1)), Kept(open),
           NEW all, all = IF f.size = 0 THEN totalPayload
                          ELSE Append(totalPayload, Piece(f, maskingKey)),
           NEW opens, opens = open \o IF f.size > 0 THEN <<n>> ELSE <<>>
    PROVE  /\ all \in Seq(Pieces) /\ opens \in Seq(1..n)
           /\ Spoilt(all) \/ (Fragments(all, opens) /\ ~Stuck)
           /\ totalPayload' = all => (Stuck => Stuck')
<1>1. n \in Nat \ {0} /\ f \in Frames /\ f.size \in Nat
  BY CurrentFacts, FrameFacts
<1>2. totalPayload \in Seq(Pieces) /\ (Spoilt(totalPayload) \/ Fragments(totalPayload, open))
  BY DEF Kept
<1>3. opens \in Seq(1..n)
  BY <1>1, OpenType
<1>4. CASE f.size = 0
  <2>1. all = totalPayload /\ opens = open
    BY <1>1, <1>4
  <2>2. totalPayload' = all => (Stuck => Stuck')
    BY <2>1, Zenon DEF Stuck, Nul
  <2> QED
    BY <1>2, <1>3, <2>1, <2>2, RightNoNul DEF Fragments
<1>5. CASE f.size # 0
  <2>1. PICK p : p = Piece(f, maskingKey)
    OBVIOUS
  <2>2. all = Append(totalPayload, p) /\ opens = Append(open, n)
    <3>1. all = Append(totalPayload, p) /\ opens = open \o <<n>>
      BY <1>1, <1>5, <2>1
    <3>2. open \o <<n>> = Append(open, n)
      OBVIOUS
    <3> QED
      BY <3>1, <3>2
  <2>3. /\ p \in Pieces /\ all \in Seq(Pieces)
        /\ Spoilt(totalPayload) => Spoilt(all)
        /\ Fragments(totalPayload, open) => Fragments(all, opens)
    BY <1>2, <1>5, <2>1, <2>2, Collected
  <2>4. totalPayload' = all => (Stuck => Stuck')
    <3>1. /\ Len(all) = Len(totalPayload) + 1 /\ Len(totalPayload) \in Nat
          /\ \A i \in 1..Len(totalPayload) : all[i] = totalPayload[i]
      BY <1>2, <2>2, <2>3, AppendProperties
    <3>2. ASSUME totalPayload' = all, Stuck PROVE Stuck'
      <4>1. PICK i \in 1..Len(totalPayload) : totalPayload[i] = Nul
        BY <3>2 DEF Stuck
      <4>2. i \in 1..Len(all) /\ all[i] = Nul /\ Nul' = Nul
        BY <3>1, <4>1 DEF Nul
      <4> QED
        BY <3>2, <4>2 DEF Stuck
    <3> QED
      BY <3>2
  <2> QED
    BY <1>2, <1>3, <2>3, <2>4, RightNoNul DEF Fragments
<1> QED
  BY <1>4, <1>5

\* A frame that ends does to what is kept and called back what it means.
LEMMA EndedStep ==
    ASSUME Types, Extends, received' = received, received # <<>>, ~crashed, Ended,
           Current.size # 0 => KeyCopied,
           NEW n, n = Len(received), NEW was \in Meanings(n - 1), Agrees(was)
    PROVE  Agrees(Means(was, n))'
<1>1. PICK f : f = Current
  OBVIOUS
<1>2. /\ n \in Nat \ {0} /\ n \in 1..Len(received) /\ f \in Frames /\ f = received[n]
      /\ Current.size = f.size
  BY <1>1, CurrentFacts DEF Current
<1>3. f.opcode \in Opcodes /\ f.size \in Nat /\ f.fin \in BOOLEAN /\ f.masked \in BOOLEAN
  BY <1>2, FrameFacts
<1>4. /\ Kept(was.open) /\ CallsAgree(was.requests)
      /\ totalPayload \in Seq(Pieces) /\ delivered \in Seq(Requests)
      /\ was.requests \in Seq(Meant) /\ was.open \in Seq(1..(n - 1))
  BY DEF Agrees, Kept, CallsAgree, Meanings
<1>5. PICK is : is = Means(was, n)
  OBVIOUS
<1>6. is = Means(was, n)'
  BY <1>2, <1>5, MeansKept
<1>7. SUFFICES Kept(is.open)' /\ CallsAgree(is.requests)'
  BY <1>6 DEF Agrees
<1>8. PICK all : all = IF f.size = 0 THEN totalPayload
                       ELSE Append(totalPayload, Piece(f, maskingKey))
  OBVIOUS
<1>9. PICK open : open = was.open \o IF f.size > 0 THEN <<n>> ELSE <<>>
  OBVIOUS
<1>10. /\ all \in Seq(Pieces) /\ open \in Seq(1..n)
       /\ Spoilt(all) \/ (Fragments(all, open) /\ ~Stuck)
       /\ totalPayload' = all => (Stuck => Stuck')
  BY <1>1, <1>4, <1>8, <1>9, Collects
<1>11. IF f.size = 0 THEN parseEmptyFrame(f) ELSE parseFrame(f)
  BY <1>1 DEF Ended
<1>12. CASE f.opcode \in Control /\ Accepted(f)
  <2>1. is = [was EXCEPT !.requests = Append(@, Request(f.opcode, <<>>))]
    BY <1>2, <1>5, <1>12, Zenon DEF Means
  <2>2. is.open = was.open /\ is.requests = Append(was.requests, Request(f.opcode, <<>>))
    BY <2>1 DEF Meanings
  <2>3. PICK p : p = IF f.size = 0 THEN <<>> ELSE <<Piece(f, maskingKey)>>
    OBVIOUS
  <2>4. Ends(<<Request(f.opcode, p)>>, FALSE, totalPayload)
    <3>1. CASE f.size = 0
      <4>1. f.opcode = "close" /\ f.fin /\ f.opcode \in Control
        BY <1>12, <3>1 DEF Accepted
      <4>2. parseEmptyFrame(f) /\ p = <<>>
        BY <1>11, <2>3, <3>1
      <4>3. Ends(<<Request("close", <<>>)>>, FALSE, totalPayload)
        BY <4>1, <4>2, Zenon DEF parseEmptyFrame
      <4> QED
        BY <4>1, <4>2, <4>3
    <3>2. CASE f.size # 0
      BY <1>11, <1>12, <2>3, <3>2 DEF parseFrame, Accepted
    <3> QED
      BY <3>1, <3>2
  <2>5. PICK r : r = Request(f.opcode, p)
    OBVIOUS
  <2>6. r \in Requests /\ Stripped(r) = Request(f.opcode, <<>>) /\ ~IsMessage(r)
    <3>1. f.opcode \in {"close", "ping"}
      BY <1>12 DEF Accepted
    <3>2. p \in Seq(Nat \X Keys)
      <4>1. CASE f.size = 0
        BY <2>3, <4>1
      <4>2. CASE f.size # 0
        <5>1. Piece(f, maskingKey) \in Nat \X Keys
          BY <1>1, <1>4, <4>2, Collected
        <5> QED
          BY <2>3, <4>2, <5>1
      <4> QED
        BY <4>1, <4>2
    <3> QED
      BY <2>5, <3>1, <3>2 DEF Request, Requests, Stripped, IsMessage
  <2>7. /\ delivered' = Append(delivered, r)
        /\ totalPayload' = totalPayload /\ crashed' = crashed
    BY <1>4, <2>4, <2>5, <2>6 DEF Ends
  <2>8. Kept(was.open)' /\ (Stuck => Stuck')
    BY <1>4, <2>7, KeptStays
  <2>9. CallsAgree(Append(was.requests, Stripped(r)))'
    BY <1>4, <2>6, <2>7, <2>8, CallsBoth
  <2> QED
    BY <2>2, <2>6, <2>8, <2>9
<1>13. CASE f.opcode \in Control /\ ~Accepted(f)
  <2>1. is = was
    BY <1>2, <1>5, <1>13, Zenon DEF Means
  <2>2. PICK r \in BOOLEAN : Ends(<<>>, r, totalPayload)
    <3>1. CASE f.size = 0
      BY <1>3, <1>11, <1>13, <3>1 DEF parseEmptyFrame, Accepted
    <3>2. CASE f.size # 0
      <4>1. f.size > 0
        BY <1>3, <3>2
      <4> QED
        BY <1>3, <1>11, <1>13, <3>2, <4>1 DEF parseFrame, Accepted
    <3> QED
      BY <3>1, <3>2
  <2>3. delivered' = delivered /\ totalPayload' = totalPayload /\ crashed' = crashed
    <3>1. delivered' = delivered \o <<>> /\ totalPayload' = totalPayload /\ crashed' = crashed
      BY <2>2 DEF Ends
    <3> QED
      BY <1>4, <3>1
  <2>4. Kept(was.open)' /\ (Stuck => Stuck')
    BY <1>4, <2>3, KeptStays
  <2>5. CallsAgree(was.requests)'
    BY <1>4, <2>3, <2>4, CallsNothing
  <2> QED
    BY <2>1, <2>4, <2>5
<1>14. CASE f.opcode \notin Control /\ ~f.fin
  <2>1. is = [was EXCEPT !.open = open]
    BY <1>2, <1>5, <1>9, <1>14, Zenon DEF Means
  <2>2. is.open = open /\ is.requests = was.requests
    BY <2>1 DEF Meanings
  <2>3. Ends(<<>>, FALSE, all)
    BY <1>8, <1>11, <1>14 DEF parseEmptyFrame, parseFrame
  <2>4. delivered' = delivered /\ totalPayload' = all /\ crashed' = crashed
    <3>1. delivered' = delivered \o <<>> /\ totalPayload' = all /\ crashed' = crashed
      BY <2>3 DEF Ends
    <3> QED
      BY <1>4, <3>1
  <2>5. CallsAgree(was.requests)'
    BY <1>4, <1>10, <2>4, CallsNothing
  <2>6. all \in Seq(Pieces') /\ (Spoilt(all) => Spoilt(all)')
    BY <1>10, PiecesKept, SeqMonotonic, SpoiltKept, Zenon
  <2>7. Fragments(all, open) => Fragments(all, open)'
    BY RightKept, Zenon DEF Fragments, FramesOf
  <2>8. (Spoilt(all) \/ Fragments(all, open))'
    BY <1>10, <2>6, <2>7
  <2>9. (Spoilt(totalPayload) \/ Fragments(totalPayload, open))'
    BY <2>4, <2>8
  <2>10. totalPayload' \in Seq(Pieces)'
    BY <2>4, <2>6
  <2>11. Kept(open)'
    BY <2>9, <2>10, Zenon DEF Kept
  <2> QED
    BY <2>2, <2>5, <2>11
<1>15. CASE f.opcode \notin Control /\ f.fin
  <2>1. is = [open |-> <<>>,
              requests |-> Append(was.requests, Request("message", open))]
    BY <1>2, <1>5, <1>9, <1>15, Zenon DEF Means
  <2>2. is.open = <<>> /\ is.requests = Append(was.requests, Request("message", open))
    BY <2>1
  <2>3. Payload(all)
    BY <1>8, <1>11, <1>15 DEF parseEmptyFrame, parseFrame
  <2>4. Kept(<<>>)' /\ CallsAgree(Append(was.requests, Request("message", open)))'
    BY <1>2, <1>4, <1>10, <2>3, PayloadStep
  <2> QED
    BY <2>2, <2>4
<1> QED
  BY <1>3, <1>12, <1>13, <1>14, <1>15

-----------------------------------------------------------------------------
(* The invariant *)

IInv == Types /\ Position /\ Agrees(Meaning(Parsed))

LEMMA ParsedType ==
    ASSUME Types
    PROVE  Parsed \in 0..Len(received)
<1>1. Len(received) \in Nat /\ (received # <<>> => Len(received) # 0)
  BY DEF Types
<1> QED
  BY <1>1 DEF Parsed

LEMMA InitInv ==
    ASSUME Init
    PROVE  IInv
<1>1. Types /\ Position /\ Parsed = 0
  <2>1. received = <<>> /\ received \in Seq(Frames) /\ header \in Frames \union {<<>>}
    BY DEF Init
  <2>2. Types
    BY <2>1, FrameAssumption DEF Init, Types
  <2>3. Position
    BY <2>1, Zenon DEF Init, Position
  <2> QED
    BY <2>1, <2>2, <2>3 DEF Parsed
<1>2. PICK m : m = Meaning(Parsed)
  OBVIOUS
<1>3. m.open = <<>> /\ m.requests = <<>>
  BY <1>1, <1>2, MeaningUnfolds DEF NothingMeant
<1>4. Kept(<<>>)
  <2>1. <<>> \in Seq(Decoded) /\ <<>> \in Seq(Pieces) /\ 1..Len(<<>>) = {}
    OBVIOUS
  <2>2. FramesOf(<<>>) = <<>>
    BY DEF FramesOf
  <2>3. Fragments(<<>>, <<>>)
    BY <2>1, <2>2, Zenon DEF Fragments, Right
  <2>4. totalPayload = <<>>
    BY DEF Init
  <2> QED
    BY <2>1, <2>3, <2>4, Zenon DEF Kept
<1>5. CallsAgree(<<>>)
  <2>1. Called = <<>> /\ delivered = <<>>
    BY DEF Init, Called
  <2>2. delivered \in Seq(Requests) /\ 1..Len(delivered) = {}
    BY <2>1
  <2>3. Whole(<<>>)
    BY <2>2, Zenon DEF Whole
  <2> QED
    BY <2>1, <2>2, <2>3, Zenon DEF CallsAgree, Complete
<1> QED
  BY <1>1, <1>2, <1>3, <1>4, <1>5 DEF IInv, Agrees

\* A step that ends no frame.
LEMMA AgreesStays ==
    ASSUME IInv, Extends, UNCHANGED <<Parsed, delivered, rejected, totalPayload, crashed>>
    PROVE  Agrees(Meaning(Parsed))'
<1>1. PICK p : p = Parsed
  OBVIOUS
<1>2. p \in 0..Len(received)
  BY <1>1, ParsedType DEF IInv
<1>3. PICK m : m = Meaning(p)
  OBVIOUS
<1>4. Meaning(p)' = m
  BY <1>2, <1>3, MeaningKept
<1>5. Kept(m.open) /\ CallsAgree(m.requests)
  BY <1>1, <1>3 DEF IInv, Agrees
<1>6. Kept(m.open)' /\ CallsAgree(m.requests)'
  <2>1. PICK o, q : o = m.open /\ q = m.requests
    OBVIOUS
  <2>2. q \in Seq(Meant)
    BY <1>2, <1>3, <2>1, MeaningType DEF Extends, Meanings
  <2>3. Kept(o) /\ CallsAgree(q)
    BY <1>5, <2>1
  <2>4. Kept(o)' /\ (Stuck => Stuck')
    BY <2>3, KeptStays
  <2>5. CallsAgree(q)'
    BY <2>2, <2>3, <2>4, CallsNothing
  <2> QED
    BY <2>1, <2>4, <2>5
<1>7. Parsed' = p
  BY <1>1
<1>8. Agrees(m)'
  BY <1>6 DEF Agrees
<1> QED
  BY <1>4, <1>7, <1>8

LEMMA AgreesAfterFrame ==
    ASSUME IInv, received # <<>>, received' = received, Finishes
    PROVE  Agrees(Meaning(Parsed))'
<1>1. PICK n : n = Len(received)
  OBVIOUS
<1>2. Types /\ Extends /\ n \in Nat \ {0}
  BY <1>1, CurrentFacts DEF IInv, Types, Extends
<1>3. /\ Parsed = n - 1 /\ Parsed' = n /\ Ended /\ ~crashed
      /\ Current.size # 0 => KeyCopied
  BY <1>1 DEF Finishes
<1>4. PICK was : was = Meaning(n - 1)
  OBVIOUS
<1>5. was \in Meanings(n - 1) /\ Agrees(was)
  BY <1>1, <1>2, <1>3, <1>4, MeaningType DEF IInv, Types
<1>6. Agrees(Means(was, n))'
  BY <1>1, <1>2, <1>3, <1>5, EndedStep
<1>7. Meaning(n)' = Means(was, n)'
  <2>1. Meaning((n - 1) + 1) = Means(was, (n - 1) + 1)
    BY <1>2, <1>4, MeaningUnfolds
  <2>2. Meaning(n) = Means(was, n) /\ n \in 0..Len(received) /\ n \in 1..Len(received)
    BY <1>1, <1>2, <2>1
  <2> QED
    BY <1>2, <1>5, <2>2, MeaningKept, MeansKept
<1>8. PICK is : is = Means(was, n)'
  OBVIOUS
<1>9. Agrees(is)'
  BY <1>6, <1>8
<1> QED
  BY <1>3, <1>7, <1>8, <1>9

LEMMA NextInv ==
    ASSUME IInv, [Next]_vars
    PROVE  IInv'
<1>1. Types /\ Position
  BY DEF IInv
<1>2. ASSUME UNCHANGED received, Positioned,
             UNCHANGED <<Parsed, delivered, rejected, totalPayload, crashed>>
      PROVE  IInv'
  <2>1. Extends
    BY <1>1, <1>2 DEF Types, Extends
  <2> QED
    BY <1>2, <2>1, AgreesStays DEF IInv, Positioned
<1>3. ASSUME Positioned, ABytePasses PROVE IInv'
  <2>1. CASE Passes
    BY <1>2, <1>3, <2>1 DEF ABytePasses, Passes
  <2>2. CASE Finishes
    BY <1>3, <2>2, AgreesAfterFrame DEF ABytePasses, IInv, Positioned
  <2> QED
    BY <1>3, <2>1, <2>2 DEF ABytePasses
<1>4. ASSUME NEW f \in Frames, Send(f) PROVE IInv'
  <2>1. /\ Positioned /\ received' = Append(received, f)
        /\ UNCHANGED <<Parsed, delivered, rejected, totalPayload, crashed>>
    BY <1>1, <1>4, SendStep
  <2>2. Extends
    BY <1>1, <2>1, AppendProperties DEF Types, Extends
  <2> QED
    BY <2>1, <2>2, AgreesStays DEF IInv, Positioned
<1>5. CASE HeaderByte
  BY <1>1, <1>3, <1>5, HeaderByteStep
<1>6. CASE ExtendedByte
  BY <1>1, <1>3, <1>6, ExtendedByteStep
<1>7. CASE PayloadByte
  BY <1>1, <1>3, <1>7, PayloadByteStep
<1>8. CASE UNCHANGED vars
  <2>1. Positioned /\ UNCHANGED <<received, Parsed, delivered, rejected, totalPayload, crashed>>
    BY <1>1, <1>8, RestStep
  <2> QED
    BY <1>2, <2>1
<1> QED
  BY <1>4, <1>5, <1>6, <1>7, <1>8 DEF Next, Rest

LEMMA Invariant == Spec => []IInv
<1>1. Init => IInv
  BY InitInv
<1>2. IInv /\ [Next]_vars => IInv'
  BY NextInv
<1> QED
  BY <1>1, <1>2, PTL DEF Spec

\* The lengths the parser counts stay within the frame it is in, for frames of
\* any size: what it buffers of a header never exceeds a header (parse, 94-203).
THEOREM TypeCorrect == Spec => []TypeOK
<1>1. ASSUME IInv PROVE TypeOK
  <2>1. /\ Types /\ Position /\ totalPayload \in Seq(Pieces)
        /\ Len(received) \in Nat
    BY <1>1 DEF IInv, Agrees, Kept, Types
  <2>2. /\ state \in {"header", "payload"}
        /\ state = "header" => buffered <= 13
        /\ state = "payload" => buffered < payloadLen
    <3>1. CASE received = <<>>
      BY <2>1, <3>1 DEF Position
    <3>2. CASE received # <<>>
      <4>1. Current \in Frames /\ pos \in Nat /\ buffered \in Nat
        BY <2>1, <3>2, CurrentFacts DEF Types
      <4>2. /\ WaitFor(Current) \in 2..14 /\ Current.size \in Nat
            /\ Bytes(Current) = WaitFor(Current) + Current.size
        BY <4>1, FrameFacts
      <4>3. pos <= Bytes(Current)
        BY <2>1, <3>2 DEF Position
      <4>4. CASE pos = Bytes(Current)
        BY <2>1, <3>2, <4>4 DEF Position
      <4>5. CASE pos # Bytes(Current)
        <5>1. CASE state = "header" /\ buffered = pos /\ pos < WaitFor(Current)
          BY <4>1, <4>2, <5>1
        <5>2. CASE /\ state = "payload" /\ pos = WaitFor(Current) + buffered
                   /\ payloadLen = Current.size
          <6>1. PICK w, z : w = WaitFor(Current) /\ z = Current.size
            OBVIOUS
          <6>2. w \in Nat /\ z \in Nat /\ w + buffered < w + z
            BY <4>1, <4>2, <4>3, <4>5, <5>2, <6>1
          <6>3. buffered < z
            BY <4>1, <6>2
          <6> QED
            BY <5>2, <6>1, <6>3
        <5> QED
          BY <2>1, <3>2, <4>5, <5>1, <5>2 DEF Position
      <4> QED
        BY <4>4, <4>5
    <3> QED
      BY <3>1, <3>2
  <2>3. totalPayload \in Seq((0..Len(received)) \X Keys)
    <3>1. 1..Len(received) \subseteq 0..Len(received) /\ 0 \in 0..Len(received)
      BY <2>1
    <3> DEFINE S == (0..Len(received)) \X Keys
    <3>2. Decoded \subseteq S
      BY <3>1, Zenon DEF Decoded
    <3>3. Nul \in S
      BY <3>1, FrameAssumption DEF Nul
    <3> HIDE DEF S
    <3>4. Pieces \subseteq S
      BY <3>2, <3>3 DEF Pieces
    <3> QED
      BY <2>1, <3>4, SeqMonotonic, Zenon DEF S
  <2> QED
    BY <2>1, <2>2, <2>3 DEF TypeOK, Types
<1> QED
  BY <1>1, Invariant, PTL

\* However long the lengths, extended lengths, keys and payloads of the frames,
\* the parser begins a frame exactly where the client does (parse, 94-203).
THEOREM BeginsWithTheClient == Spec => []InSync
<1>1. ASSUME IInv PROVE InSync
  <2>1. Types /\ Position
    BY <1>1 DEF IInv
  <2>2. CASE received = <<>>
    BY <2>1, <2>2 DEF Position, InSync
  <2>3. CASE received # <<>>
    <3>1. Current \in Frames /\ pos \in Nat /\ buffered \in Nat
      BY <2>1, <2>3, CurrentFacts DEF Types
    <3>2. WaitFor(Current) \in 2..14
      BY <3>1, FrameFacts
    <3>3. \/ pos = Bytes(Current) /\ state = "header" /\ buffered = 0
          \/ pos # Bytes(Current) /\ state = "header" /\ buffered = pos
          \/ /\ pos # Bytes(Current) /\ state = "payload"
             /\ pos = WaitFor(Current) + buffered
      BY <2>1, <2>3, Zenon DEF Position
    <3>4. state = "payload" => pos # 0
      BY <3>1, <3>2, <3>3
    <3> QED
      BY <2>3, <3>3, <3>4 DEF InSync
  <2> QED
    BY <2>2, <2>3
<1> QED
  BY <1>1, Invariant, PTL

\* The requests called back against those the client means: no Close or Ping is
\* lost, doubled or answered out of order; a message called back consists of all
\* the fragments of one the client sent, those that are not masked or have an
\* extended length decoded with the right key; and nothing is missing until a
\* text is no JSON as it is decoded or ends the process (parseFrame,
\* parseEmptyFrame and parsePayload, 214-347).
THEOREM CallsWhatIsMeant ==
    Spec => [](ControlAnswered /\ MessagesWhole /\ AllDelivered)
<1>1. ASSUME IInv PROVE ControlAnswered /\ MessagesWhole /\ AllDelivered
  <2>1. CallsAgree(Reference)
    BY <1>1, Zenon DEF IInv, Agrees, Reference
  <2>2. ControlAnswered /\ AllDelivered
    BY <2>1, Zenon DEF CallsAgree, Complete, ControlAnswered, AllDelivered
  <2>3. MessagesWhole
    BY <2>1, Zenon DEF CallsAgree, Whole, Right, MessagesWhole
  <2> QED
    BY <2>2, <2>3
<1> QED
  BY <1>1, Invariant, PTL
=============================================================================
