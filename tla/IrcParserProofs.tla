-------------------------- MODULE IrcParserProofs --------------------------
(***************************************************************************)
(* What IrcParser delivers, for every input, every BufferSizeThreshold and *)
(* every MaxParams.                                                        *)
(*                                                                         *)
(* A parsed line is followed word by word (Reading): what has been read of *)
(* it, written again, is the part of the line read so far.  A message has  *)
(* one text, which is read as that message (MessageReadBack).  One more    *)
(* character extends the unfinished line, ends a line, or belongs to the   *)
(* end before it (GrowsBy, EndsLine, EndsSecond), and the parser follows   *)
(* (Inv).                                                                  *)
(*                                                                         *)
(* The library's theorems of induction take an operator; those here take   *)
(* a set.  Concatenation and Append are hidden behind ++ and Add where     *)
(* only their laws matter.                                                 *)
(***************************************************************************)
EXTENDS IrcParser, SequenceTheorems, WellFoundedInduction, FiniteSetTheorems, TLAPS


-----------------------------------------------------------------------------
(* Induction, over sets *)

LEMMA Induction ==
    ASSUME NEW T, 0 \in T, \A n \in Nat : n \in T => n + 1 \in T
    PROVE  \A n \in Nat : n \in T
<1> DEFINE R == {p \in Nat \X Nat : p[1] < p[2]}
<1>1. R = OpToRel(<, Nat)
  BY Zenon DEF OpToRel
<1>2. IsWellFoundedOn(R, Nat)
  BY <1>1, NatLessThanWellFounded, Zenon
<1>3. \A x, y \in Nat : <<y, x>> \in R <=> y < x
  OBVIOUS
<1> HIDE DEF R
<1> DEFINE U == {n \in Nat : n \notin T}
<1>4. ASSUME U # {} PROVE FALSE
  <2>1. PICK n \in U : \A m \in U : ~(<<m, n>> \in R)
    <3>1. U \subseteq Nat
      OBVIOUS
    <3> HIDE DEF U
    <3> QED
      BY <1>2, <1>4, <3>1, WFMin, Zenon
  <2>2. n \in Nat /\ n \notin T
    OBVIOUS
  <2>3. n # 0
    BY <2>2
  <2>4. n - 1 \in Nat /\ n - 1 < n /\ (n - 1) + 1 = n
    BY <2>2, <2>3
  <2>5. n - 1 \notin T
    BY <2>2, <2>4
  <2>6. n - 1 \in U
    BY <2>4, <2>5
  <2> QED
    BY <1>3, <2>1, <2>2, <2>4, <2>6
<1> QED
  BY <1>4

LEMMA SequenceInduction ==
    ASSUME NEW S, NEW T, <<>> \in T,
           \A s \in Seq(S), e \in S : s \in T => Append(s, e) \in T
    PROVE  \A s \in Seq(S) : s \in T
<1> DEFINE N == {n \in Nat : \A s \in Seq(S) : Len(s) = n => s \in T}
<1>1. 0 \in N
  <2>1. \A s \in Seq(S) : Len(s) = 0 => s = <<>>
    OBVIOUS
  <2> QED
    BY <2>1
<1>2. ASSUME NEW n \in Nat, n \in N PROVE n + 1 \in N
  <2> SUFFICES ASSUME NEW s \in Seq(S), Len(s) = n + 1 PROVE s \in T
    OBVIOUS
  <2>1. s # <<>>
    OBVIOUS
  <2>2. PICK f \in Seq(S), e \in S : s = Append(f, e)
    BY <2>1, SequenceEmptyOrAppend
  <2>3. Len(f) = n
    BY <2>2
  <2> QED
    BY <1>2, <2>2, <2>3
<1> HIDE DEF N
<1>3. \A n \in Nat : n \in N
  BY <1>1, <1>2, Induction
<1> QED
  BY <1>3 DEF N

LEMMA Agree ==
    ASSUME NEW f, NEW g, NEW n \in Nat,
           f[0] = g[0], \A i \in 1..n : f[i - 1] = g[i - 1] => f[i] = g[i]
    PROVE  \A i \in 0..n : f[i] = g[i]
<1> DEFINE T == {i \in Nat : i <= n => f[i] = g[i]}
<1>1. 0 \in T
  OBVIOUS
<1>2. ASSUME NEW i \in Nat, i \in T PROVE i + 1 \in T
  <2> SUFFICES ASSUME i + 1 <= n PROVE f[i + 1] = g[i + 1]
    OBVIOUS
  <2>1. i + 1 \in 1..n /\ (i + 1) - 1 = i /\ f[i] = g[i]
    BY <1>2
  <2> QED
    BY <2>1
<1> HIDE DEF T
<1>3. \A i \in Nat : i \in T
  BY <1>1, <1>2, Induction
<1> QED
  BY <1>3 DEF T

-----------------------------------------------------------------------------
(* What the recursive definitions are of a sequence, and of one more element *)

LEMMA WordsUnfold ==
    /\ Words(<<>>) = <<<<>>>>
    /\ \A S : \A s \in Seq(S), e \in S : Words(Append(s, e)) = Split(Words(s), e)
<1> DEFINE Zero == <<<<>>>>
    Step(was, e) == Split(was, e)
    Is(f, s, n) == f = [i \in 0..n |-> IF i = 0 THEN Zero ELSE Step(f[i - 1], s[i])]
    Choice(s) == CHOOSE f : Is(f, s, Len(s))
<1>1. \A s : Words(s) = Choice(s)[Len(s)]
  BY Zenon DEF Words
<1> HIDE DEF Zero, Step
<1>2. ASSUME NEW f, NEW s, NEW n \in Nat, Is(f, s, n)
      PROVE  /\ f[0] = Zero
             /\ \A i \in 1..n : f[i] = Step(f[i - 1], s[i])
  BY <1>2
<1>3. ASSUME NEW s, NEW n \in Nat PROVE \E f : Is(f, s, n)
  <2> DEFINE T == {k \in Nat : \E f : Is(f, s, k)}
  <2>1. 0 \in T
    <3>1. Is([i \in 0..0 |-> Zero], s, 0)
      OBVIOUS
    <3> QED
      BY <3>1
  <2>2. ASSUME NEW k \in Nat, k \in T PROVE k + 1 \in T
    <3>1. PICK f : Is(f, s, k)
      BY <2>2
    <3> DEFINE g == [i \in 0..(k + 1) |-> IF i = k + 1 THEN Step(f[k], s[k + 1]) ELSE f[i]]
    <3>2. ASSUME NEW i \in 0..(k + 1)
          PROVE  g[i] = IF i = 0 THEN Zero ELSE Step(g[i - 1], s[i])
      <4>1. CASE i = k + 1
        BY <4>1
      <4>2. CASE i # k + 1
        <5>1. i \in 0..k /\ g[i] = f[i] /\ (i # 0 => g[i - 1] = f[i - 1])
          BY <4>2
        <5> QED
          BY <3>1, <5>1
      <4> QED
        BY <4>1, <4>2
    <3>3. g = [i \in 0..(k + 1) |-> g[i]]
      OBVIOUS
    <3> HIDE DEF g
    <3>4. Is(g, s, k + 1)
      BY <3>2, <3>3
    <3> QED
      BY <3>4
  <2> HIDE DEF T
  <2>3. n \in T
    BY <2>1, <2>2, Induction
  <2> QED
    BY <2>3 DEF T
<1> HIDE DEF Is
<1>4. \A s : Len(s) \in Nat => Is(Choice(s), s, Len(s))
  BY <1>3
<1> HIDE DEF Choice
<1>5. Words(<<>>) = Zero
  <2>1. Len(<<>>) = 0
    OBVIOUS
  <2> QED
    BY <1>1, <1>2, <1>4, <2>1
<1>6. ASSUME NEW S, NEW s \in Seq(S), NEW e \in S
      PROVE  Words(Append(s, e)) = Step(Words(s), e)
  <2> DEFINE t == Append(s, e)  n == Len(s)
  <2>1. /\ n \in Nat /\ n + 1 \in Nat /\ Len(t) = n + 1 /\ t[n + 1] = e
        /\ \A i \in 1..n : t[i] = s[i] /\ i \in 1..(n + 1)
    BY AppendProperties
  <2> HIDE DEF t, n
  <2> DEFINE f == Choice(s)  g == Choice(t)
  <2>2. Is(f, s, n) /\ Is(g, t, n + 1)
    BY <1>4, <2>1 DEF n
  <2> HIDE DEF f, g
  <2>3. f[0] = Zero /\ \A i \in 1..n : f[i] = Step(f[i - 1], s[i])
    BY <1>2, <2>1, <2>2
  <2>4. g[0] = Zero /\ \A i \in 1..(n + 1) : g[i] = Step(g[i - 1], t[i])
    BY <1>2, <2>1, <2>2
  <2>5. \A i \in 1..n : f[i - 1] = g[i - 1] => f[i] = g[i]
    <3> SUFFICES ASSUME NEW i \in 1..n, f[i - 1] = g[i - 1] PROVE f[i] = g[i]
      OBVIOUS
    <3> QED
      BY <2>1, <2>3, <2>4
  <2>6. f[0] = g[0]
    BY <2>3, <2>4
  <2>7. \A i \in 0..n : f[i] = g[i]
    <3>1. n \in Nat
      BY <2>1
    <3> QED
      BY <2>5, <2>6, <3>1, Agree, ZenonT(30)
  <2>8. g[n + 1] = Step(g[n], e) /\ f[n] = g[n]
    BY <2>1, <2>4, <2>7
  <2> QED
    BY <1>1, <2>1, <2>8 DEF t, n, f, g
<1> QED
  BY <1>5, <1>6 DEF Zero, Step

LEMMA ParsedUnfold ==
    /\ Parsed(<<>>) = Begin
    /\ \A S : \A s \in Seq(S), e \in S : Parsed(Append(s, e)) = ParseWord(Parsed(s), e)
<1> DEFINE Zero == Begin
    Step(was, e) == ParseWord(was, e)
    Is(f, s, n) == f = [i \in 0..n |-> IF i = 0 THEN Zero ELSE Step(f[i - 1], s[i])]
    Choice(s) == CHOOSE f : Is(f, s, Len(s))
<1>1. \A s : Parsed(s) = Choice(s)[Len(s)]
  BY Zenon DEF Parsed
<1> HIDE DEF Zero, Step
<1>2. ASSUME NEW f, NEW s, NEW n \in Nat, Is(f, s, n)
      PROVE  /\ f[0] = Zero
             /\ \A i \in 1..n : f[i] = Step(f[i - 1], s[i])
  BY <1>2
<1>3. ASSUME NEW s, NEW n \in Nat PROVE \E f : Is(f, s, n)
  <2> DEFINE T == {k \in Nat : \E f : Is(f, s, k)}
  <2>1. 0 \in T
    <3>1. Is([i \in 0..0 |-> Zero], s, 0)
      OBVIOUS
    <3> QED
      BY <3>1
  <2>2. ASSUME NEW k \in Nat, k \in T PROVE k + 1 \in T
    <3>1. PICK f : Is(f, s, k)
      BY <2>2
    <3> DEFINE g == [i \in 0..(k + 1) |-> IF i = k + 1 THEN Step(f[k], s[k + 1]) ELSE f[i]]
    <3>2. ASSUME NEW i \in 0..(k + 1)
          PROVE  g[i] = IF i = 0 THEN Zero ELSE Step(g[i - 1], s[i])
      <4>1. CASE i = k + 1
        BY <4>1
      <4>2. CASE i # k + 1
        <5>1. i \in 0..k /\ g[i] = f[i] /\ (i # 0 => g[i - 1] = f[i - 1])
          BY <4>2
        <5> QED
          BY <3>1, <5>1
      <4> QED
        BY <4>1, <4>2
    <3>3. g = [i \in 0..(k + 1) |-> g[i]]
      OBVIOUS
    <3> HIDE DEF g
    <3>4. Is(g, s, k + 1)
      BY <3>2, <3>3
    <3> QED
      BY <3>4
  <2> HIDE DEF T
  <2>3. n \in T
    BY <2>1, <2>2, Induction
  <2> QED
    BY <2>3 DEF T
<1> HIDE DEF Is
<1>4. \A s : Len(s) \in Nat => Is(Choice(s), s, Len(s))
  BY <1>3
<1> HIDE DEF Choice
<1>5. Parsed(<<>>) = Zero
  <2>1. Len(<<>>) = 0
    OBVIOUS
  <2> QED
    BY <1>1, <1>2, <1>4, <2>1
<1>6. ASSUME NEW S, NEW s \in Seq(S), NEW e \in S
      PROVE  Parsed(Append(s, e)) = Step(Parsed(s), e)
  <2> DEFINE t == Append(s, e)  n == Len(s)
  <2>1. /\ n \in Nat /\ n + 1 \in Nat /\ Len(t) = n + 1 /\ t[n + 1] = e
        /\ \A i \in 1..n : t[i] = s[i] /\ i \in 1..(n + 1)
    BY AppendProperties
  <2> HIDE DEF t, n
  <2> DEFINE f == Choice(s)  g == Choice(t)
  <2>2. Is(f, s, n) /\ Is(g, t, n + 1)
    BY <1>4, <2>1 DEF n
  <2> HIDE DEF f, g
  <2>3. f[0] = Zero /\ \A i \in 1..n : f[i] = Step(f[i - 1], s[i])
    BY <1>2, <2>1, <2>2
  <2>4. g[0] = Zero /\ \A i \in 1..(n + 1) : g[i] = Step(g[i - 1], t[i])
    BY <1>2, <2>1, <2>2
  <2>5. \A i \in 1..n : f[i - 1] = g[i - 1] => f[i] = g[i]
    <3> SUFFICES ASSUME NEW i \in 1..n, f[i - 1] = g[i - 1] PROVE f[i] = g[i]
      OBVIOUS
    <3> QED
      BY <2>1, <2>3, <2>4
  <2>6. f[0] = g[0]
    BY <2>3, <2>4
  <2>7. \A i \in 0..n : f[i] = g[i]
    <3>1. n \in Nat
      BY <2>1
    <3> QED
      BY <2>5, <2>6, <3>1, Agree, ZenonT(30)
  <2>8. g[n + 1] = Step(g[n], e) /\ f[n] = g[n]
    BY <2>1, <2>4, <2>7
  <2> QED
    BY <1>1, <2>1, <2>8 DEF t, n, f, g
<1> QED
  BY <1>5, <1>6 DEF Zero, Step

LEMMA SpacedUnfold ==
    /\ Spaced(<<>>) = <<>>
    /\ \A S : \A s \in Seq(S), e \in S : Spaced(Append(s, e)) = Spaced(s) \o Space \o e
<1> DEFINE Zero == <<>>
    Step(was, e) == was \o Space \o e
    Is(f, s, n) == f = [i \in 0..n |-> IF i = 0 THEN Zero ELSE Step(f[i - 1], s[i])]
    Choice(s) == CHOOSE f : Is(f, s, Len(s))
<1>1. \A s : Spaced(s) = Choice(s)[Len(s)]
  BY Zenon DEF Spaced
<1> HIDE DEF Zero, Step
<1>2. ASSUME NEW f, NEW s, NEW n \in Nat, Is(f, s, n)
      PROVE  /\ f[0] = Zero
             /\ \A i \in 1..n : f[i] = Step(f[i - 1], s[i])
  BY <1>2
<1>3. ASSUME NEW s, NEW n \in Nat PROVE \E f : Is(f, s, n)
  <2> DEFINE T == {k \in Nat : \E f : Is(f, s, k)}
  <2>1. 0 \in T
    <3>1. Is([i \in 0..0 |-> Zero], s, 0)
      OBVIOUS
    <3> QED
      BY <3>1
  <2>2. ASSUME NEW k \in Nat, k \in T PROVE k + 1 \in T
    <3>1. PICK f : Is(f, s, k)
      BY <2>2
    <3> DEFINE g == [i \in 0..(k + 1) |-> IF i = k + 1 THEN Step(f[k], s[k + 1]) ELSE f[i]]
    <3>2. ASSUME NEW i \in 0..(k + 1)
          PROVE  g[i] = IF i = 0 THEN Zero ELSE Step(g[i - 1], s[i])
      <4>1. CASE i = k + 1
        BY <4>1
      <4>2. CASE i # k + 1
        <5>1. i \in 0..k /\ g[i] = f[i] /\ (i # 0 => g[i - 1] = f[i - 1])
          BY <4>2
        <5> QED
          BY <3>1, <5>1
      <4> QED
        BY <4>1, <4>2
    <3>3. g = [i \in 0..(k + 1) |-> g[i]]
      OBVIOUS
    <3> HIDE DEF g
    <3>4. Is(g, s, k + 1)
      BY <3>2, <3>3
    <3> QED
      BY <3>4
  <2> HIDE DEF T
  <2>3. n \in T
    BY <2>1, <2>2, Induction
  <2> QED
    BY <2>3 DEF T
<1> HIDE DEF Is
<1>4. \A s : Len(s) \in Nat => Is(Choice(s), s, Len(s))
  BY <1>3
<1> HIDE DEF Choice
<1>5. Spaced(<<>>) = Zero
  <2>1. Len(<<>>) = 0
    OBVIOUS
  <2> QED
    BY <1>1, <1>2, <1>4, <2>1
<1>6. ASSUME NEW S, NEW s \in Seq(S), NEW e \in S
      PROVE  Spaced(Append(s, e)) = Step(Spaced(s), e)
  <2> DEFINE t == Append(s, e)  n == Len(s)
  <2>1. /\ n \in Nat /\ n + 1 \in Nat /\ Len(t) = n + 1 /\ t[n + 1] = e
        /\ \A i \in 1..n : t[i] = s[i] /\ i \in 1..(n + 1)
    BY AppendProperties
  <2> HIDE DEF t, n
  <2> DEFINE f == Choice(s)  g == Choice(t)
  <2>2. Is(f, s, n) /\ Is(g, t, n + 1)
    BY <1>4, <2>1 DEF n
  <2> HIDE DEF f, g
  <2>3. f[0] = Zero /\ \A i \in 1..n : f[i] = Step(f[i - 1], s[i])
    BY <1>2, <2>1, <2>2
  <2>4. g[0] = Zero /\ \A i \in 1..(n + 1) : g[i] = Step(g[i - 1], t[i])
    BY <1>2, <2>1, <2>2
  <2>5. \A i \in 1..n : f[i - 1] = g[i - 1] => f[i] = g[i]
    <3> SUFFICES ASSUME NEW i \in 1..n, f[i - 1] = g[i - 1] PROVE f[i] = g[i]
      OBVIOUS
    <3> QED
      BY <2>1, <2>3, <2>4
  <2>6. f[0] = g[0]
    BY <2>3, <2>4
  <2>7. \A i \in 0..n : f[i] = g[i]
    <3>1. n \in Nat
      BY <2>1
    <3> QED
      BY <2>5, <2>6, <3>1, Agree, ZenonT(30)
  <2>8. g[n + 1] = Step(g[n], e) /\ f[n] = g[n]
    BY <2>1, <2>4, <2>7
  <2> QED
    BY <1>1, <2>1, <2>8 DEF t, n, f, g
<1> QED
  BY <1>5, <1>6 DEF Zero, Step


-----------------------------------------------------------------------------
(* Characters, words, lines, and lists of words *)

WordChars == Chars \ (Newlines \union {" "})
LineChars == Chars \ Newlines

Word == Seq(WordChars)
Line == Seq(LineChars)
WordList == Seq(Word)

Empty == <<>>

\* The provers know sequences well enough to lose their way: in what follows,
\* only the lemmas say what these do.
a ++ b == a \o b
Add(s, e) == Append(s, e)

LEMMA EmptyFacts ==
    \A S : /\ Empty \in Seq(S) /\ Len(Empty) = 0
           /\ \A s \in Seq(S) : s \o Empty = s /\ Empty \o s = s
           /\ \A s \in Seq(S) : s # Empty => \E f \in Seq(S), e \in S : s = Append(f, e)
           /\ \A s \in Seq(S), e \in S : Append(s, e) # Empty
<1> SUFFICES ASSUME NEW S
             PROVE  /\ Empty \in Seq(S) /\ Len(Empty) = 0
                    /\ \A s \in Seq(S) : s \o Empty = s /\ Empty \o s = s
                    /\ \A s \in Seq(S) : s # Empty => \E f \in Seq(S), e \in S : s = Append(f, e)
                    /\ \A s \in Seq(S), e \in S : Append(s, e) # Empty
  OBVIOUS
<1>1. Empty \in Seq(S) /\ Len(Empty) = 0
  BY EmptySeq DEF Empty
<1>2. \A s \in Seq(S) : s \o Empty = s /\ Empty \o s = s
  BY ConcatEmptySeq DEF Empty
<1>3. \A s \in Seq(S) : s # Empty => \E f \in Seq(S), e \in S : s = Append(f, e)
  BY SequenceEmptyOrAppend DEF Empty
<1>4. \A s \in Seq(S), e \in S : Append(s, e) # Empty
  BY AppendProperties DEF Empty
<1> QED
  BY <1>1, <1>2, <1>3, <1>4

LEMMA JoinFacts ==
    \A S : /\ \A s, t \in Seq(S) : s \o t \in Seq(S) /\ Len(s \o t) = Len(s) + Len(t)
           /\ \A s, t, u \in Seq(S) : (s \o t) \o u = s \o (t \o u)
  BY ConcatProperties, ConcatAssociative, SMTT(30)

LEMMA AppendFacts ==
    \A S : /\ \A s \in Seq(S), e \in S :
                 /\ Append(s, e) \in Seq(S) /\ Len(Append(s, e)) = Len(s) + 1
                 /\ <<e>> \in Seq(S) /\ Append(s, e) = s \o <<e>>
           /\ \A s, t \in Seq(S), e \in S : s \o Append(t, e) = Append(s \o t, e)
<1> SUFFICES ASSUME NEW S
             PROVE  /\ \A s \in Seq(S), e \in S :
                         /\ Append(s, e) \in Seq(S) /\ Len(Append(s, e)) = Len(s) + 1
                         /\ <<e>> \in Seq(S) /\ Append(s, e) = s \o <<e>>
                    /\ \A s, t \in Seq(S), e \in S : s \o Append(t, e) = Append(s \o t, e)
  OBVIOUS
<1>1. \A s \in Seq(S), e \in S :
         Append(s, e) \in Seq(S) /\ Len(Append(s, e)) = Len(s) + 1
  BY AppendProperties
<1>2. \A e \in S : <<e>> \in Seq(S)
  OBVIOUS
<1>3. \A s \in Seq(S), e \in S : Append(s, e) = s \o <<e>>
  BY AppendIsConcat
<1>4. ASSUME NEW s \in Seq(S), NEW t \in Seq(S), NEW e \in S
      PROVE  s \o Append(t, e) = Append(s \o t, e)
  <2>1. s \o t \in Seq(S)
    BY ConcatProperties
  <2>2. s \o (t \o <<e>>) = (s \o t) \o <<e>>
    BY <1>2, ConcatAssociative
  <2> QED
    BY <1>3, <2>1, <2>2
<1> QED
  BY <1>1, <1>2, <1>3, <1>4

LEMMA FrontLast ==
    \A S : \A s \in Seq(S), e \in S : Front(Append(s, e)) = s /\ Last(Append(s, e)) = e
<1> SUFFICES ASSUME NEW S, NEW s \in Seq(S), NEW e \in S
             PROVE  Front(Append(s, e)) = s /\ Last(Append(s, e)) = e
  OBVIOUS
<1> DEFINE t == Append(s, e)
<1>1. /\ t \in Seq(S) /\ Len(t) = Len(s) + 1 /\ Len(s) \in Nat
      /\ t[Len(s) + 1] = e /\ \A i \in 1..Len(s) : t[i] = s[i]
  BY AppendProperties
<1> HIDE DEF t
<1>2. Last(t) = e
  BY <1>1 DEF Last
<1>3. Front(t) = SubSeq(t, 1, Len(s))
  BY <1>1 DEF Front
<1>4. Front(t) = s
  <2>1. /\ Len(SubSeq(t, 1, Len(s))) = Len(s)
        /\ SubSeq(t, 1, Len(s)) \in Seq(S)
        /\ \A i \in 1..Len(s) : SubSeq(t, 1, Len(s))[i] = t[i]
    BY <1>1
  <2> QED
    BY <1>1, <1>3, <2>1, SeqEqual
<1> QED
  BY <1>2, <1>4 DEF t

LEMMA CharFacts ==
    /\ WordChars \subseteq LineChars
    /\ " " \in LineChars /\ ":" \in LineChars /\ ":" \in WordChars
    /\ \A e \in LineChars : e # " " <=> e \in WordChars
  BY DEF WordChars, LineChars, Chars, Newlines

LEMMA WordsAreLines ==
    /\ Empty \in Word /\ Empty \in Line /\ Space \in Line /\ Colon \in Line /\ Colon \in Word
    /\ \A w \in Word : w \in Line
    /\ \A w \in Word, e \in WordChars : Add(w, e) \in Word
    /\ \A a \in Line, e \in LineChars : Add(a, e) \in Line
<1>1. Empty \in Word /\ Empty \in Line
  BY EmptyFacts DEF Word, Line, ++, Add
<1>2. Space \in Line /\ Colon \in Line /\ Colon \in Word
  BY CharFacts, AppendFacts, EmptySeq DEF Space, Colon, Word, Line
<1>3. \A w \in Word : w \in Line
  BY CharFacts, SeqMonotonic DEF Word, Line, ++, Add
<1>4. /\ \A w \in Word, e \in WordChars : Add(w, e) \in Word
      /\ \A a \in Line, e \in LineChars : Add(a, e) \in Line
  BY AppendFacts DEF Word, Line, ++, Add
<1> QED
  BY <1>1, <1>2, <1>3, <1>4

LEMMA Texts ==
    /\ \A a, b \in Line : a ++ b \in Line
    /\ \A a \in Line : a ++ Empty = a /\ Empty ++ a = a
    /\ \A a \in Line : a ++ Space = Add(a, " ")
<1>1. \A a, b \in Line : a ++ b \in Line
  BY JoinFacts DEF Line, ++
<1>2. \A a \in Line : a ++ Empty = a /\ Empty ++ a = a
  BY EmptyFacts DEF Line, ++
<1>3. \A a \in Line : a ++ Space = Add(a, " ")
  BY AppendFacts, CharFacts, Zenon DEF Line, Space, ++, Add
<1> QED
  BY <1>1, <1>2, <1>3

LEMMA TextsAdd ==
    \A a, b \in Line, e \in LineChars : a ++ Add(b, e) = Add(a ++ b, e)
  BY AppendFacts DEF Line, ++, Add

LEMMA TextsJoin ==
    \A a, b, c \in Line : (a ++ b) ++ c = a ++ (b ++ c)
  BY JoinFacts DEF Line, ++

LEMMA TextsSpace ==
    /\ \A a, b \in Line : a ++ Space ++ b \in Line
    /\ \A a, b, c \in Line : a ++ (b ++ Space ++ c) = (a ++ b) ++ Space ++ c
    /\ \A a, b \in Line, e \in LineChars : a ++ Space ++ Add(b, e) = Add(a ++ Space ++ b, e)
<1>1. \A a, b \in Line : a ++ Space ++ b \in Line
  BY Texts, WordsAreLines
<1>2. ASSUME NEW a \in Line, NEW b \in Line, NEW c \in Line
      PROVE  a ++ (b ++ Space ++ c) = (a ++ b) ++ Space ++ c
  <2>1. Space \in Line /\ b ++ Space \in Line
    BY Texts, WordsAreLines
  <2>2. a ++ ((b ++ Space) ++ c) = (a ++ (b ++ Space)) ++ c
    BY <2>1, TextsJoin
  <2>3. a ++ (b ++ Space) = (a ++ b) ++ Space
    BY <2>1, TextsJoin
  <2> QED
    BY <2>2, <2>3
<1>3. ASSUME NEW a \in Line, NEW b \in Line, NEW e \in LineChars
      PROVE  a ++ Space ++ Add(b, e) = Add(a ++ Space ++ b, e)
  <2>1. a ++ Space \in Line
    BY Texts, WordsAreLines
  <2> QED
    BY <2>1, TextsAdd
<1> QED
  BY <1>1, <1>2, <1>3

LEMMA Lists ==
    /\ Empty \in WordList
    /\ \A v, w \in WordList : v ++ w \in WordList /\ Len(v ++ w) = Len(v) + Len(w)
    /\ \A v \in WordList : v ++ Empty = v /\ Empty ++ v = v
    /\ \A v \in WordList, w \in Word : Add(v, w) \in WordList /\ Add(v, w) # Empty
    /\ \A u, v \in WordList, w \in Word : u ++ Add(v, w) = Add(u ++ v, w)
    /\ \A v \in WordList : v # Empty => \E f \in WordList, w \in Word : v = Add(f, w)
<1>1. /\ Empty \in WordList
      /\ \A v \in WordList : v ++ Empty = v /\ Empty ++ v = v
      /\ \A v \in WordList : v # Empty => \E f \in WordList, w \in Word : v = Add(f, w)
      /\ \A v \in WordList, w \in Word : Add(v, w) # Empty
  BY EmptyFacts DEF WordList, ++, Add
<1>2. \A v, w \in WordList : v ++ w \in WordList /\ Len(v ++ w) = Len(v) + Len(w)
  BY JoinFacts DEF WordList, ++, Add
<1>3. /\ \A v \in WordList, w \in Word : Add(v, w) \in WordList
      /\ \A u, v \in WordList, w \in Word : u ++ Add(v, w) = Add(u ++ v, w)
  BY AppendFacts DEF WordList, ++, Add
<1> QED
  BY <1>1, <1>2, <1>3

LEMMA LineInduction ==
    ASSUME NEW T, Empty \in T, \A a \in Line, e \in LineChars : a \in T => Add(a, e) \in T
    PROVE  \A a \in Line : a \in T
  BY SequenceInduction DEF Empty, Line, Add

LEMMA WordInduction ==
    ASSUME NEW T, Empty \in T, \A a \in Word, e \in WordChars : a \in T => Add(a, e) \in T
    PROVE  \A a \in Word : a \in T
  BY SequenceInduction DEF Empty, Word, Add

LEMMA ListInduction ==
    ASSUME NEW T, Empty \in T, \A v \in WordList, w \in Word : v \in T => Add(v, w) \in T
    PROVE  \A v \in WordList : v \in T
  BY SequenceInduction DEF Empty, WordList, Add


-----------------------------------------------------------------------------
(* A line and its words *)

LEMMA SplitLast ==
    \A f \in WordList, w \in Word :
        /\ Split(Add(f, w), " ") = Add(Add(f, w), Empty)
        /\ \A e \in WordChars : Split(Add(f, w), e) = Add(f, Add(w, e))
<1> SUFFICES ASSUME NEW f \in WordList, NEW w \in Word
             PROVE  /\ Split(Add(f, w), " ") = Add(Add(f, w), Empty)
                    /\ \A e \in WordChars : Split(Add(f, w), e) = Add(f, Add(w, e))
  OBVIOUS
<1>1. Split(Add(f, w), " ") = Add(Add(f, w), Empty)
  BY Zenon DEF Split, Add, Empty
<1>2. \A e \in WordChars : e # " "
  BY DEF WordChars
<1>3. Front(Add(f, w)) = f /\ Last(Add(f, w)) = w
  BY FrontLast, Zenon DEF WordList, Add
<1>4. ASSUME NEW e \in WordChars PROVE Split(Add(f, w), e) = Add(f, Add(w, e))
  BY <1>2, <1>3, Zenon DEF Split, Add
<1> QED
  BY <1>1, <1>4

LEMMA WordsStep ==
    /\ Words(Empty) = Add(Empty, Empty)
    /\ \A a \in Line, e \in LineChars : Words(Add(a, e)) = Split(Words(a), e)
<1>1. <<<<>>>> = Append(<<>>, <<>>)
  OBVIOUS
<1>2. Words(<<>>) = <<<<>>>>
  BY WordsUnfold, Zenon
<1>3. \A a \in Line, e \in LineChars : Words(Add(a, e)) = Split(Words(a), e)
  BY WordsUnfold, Zenon DEF Line, Add
<1> QED
  BY <1>1, <1>2, <1>3, Zenon DEF Empty, Add

LEMMA SpacedStep ==
    /\ Spaced(Empty) = Empty
    /\ \A v \in WordList, w \in Word : Spaced(Add(v, w)) = Spaced(v) ++ Space ++ w
  BY SpacedUnfold, Zenon DEF Empty, WordList, Add, ++

LEMMA ParsedStep ==
    /\ Parsed(Empty) = Begin
    /\ \A v \in WordList, w \in Word : Parsed(Add(v, w)) = ParseWord(Parsed(v), w)
  BY ParsedUnfold, Zenon DEF Empty, WordList, Add, ++

\* Words with a space before each are a line.
LEMMA SpacedLine ==
    \A v \in WordList : Spaced(v) \in Line
<1> DEFINE T == {v \in WordList : Spaced(v) \in Line}
<1>1. Empty \in T
  BY SpacedStep, Lists, WordsAreLines
<1>2. ASSUME NEW v \in WordList, NEW w \in Word, v \in T PROVE Add(v, w) \in T
  BY <1>2, SpacedStep, Lists, TextsSpace, WordsAreLines
<1> HIDE DEF T
<1>3. \A v \in WordList : v \in T
  BY <1>1, <1>2, ListInduction
<1> QED
  BY <1>3 DEF T

\* The words of a line are what is between its spaces.
LEMMA WordsOf ==
    \A a \in Line : /\ Words(a) \in WordList /\ Words(a) # Empty
                    /\ Spaced(Words(a)) = Space ++ a
<1> DEFINE T == {a \in Line : /\ Words(a) \in WordList /\ Words(a) # Empty
                              /\ Spaced(Words(a)) = Space ++ a}
<1>1. Empty \in T
  <2>1. Words(Empty) \in WordList /\ Words(Empty) # Empty
    BY WordsStep, Lists, WordsAreLines
  <2>2. Spaced(Words(Empty)) = Spaced(Empty) ++ Space ++ Empty
    BY WordsStep, SpacedStep, Lists, WordsAreLines
  <2> QED
    BY <2>1, <2>2, SpacedStep, Texts, WordsAreLines
<1>2. ASSUME NEW a \in Line, NEW e \in LineChars, a \in T PROVE Add(a, e) \in T
  <2>1. PICK f \in WordList, w \in Word : Words(a) = Add(f, w)
    BY <1>2, Lists
  <2>2. Words(a) \in WordList /\ Spaced(Words(a)) = Space ++ a
    BY <1>2
  <2> HIDE DEF T
  <2>3. Words(Add(a, e)) = Split(Add(f, w), e)
    BY <2>1, WordsStep
  <2>4. Space ++ Add(a, e) = Add(Space ++ a, e) /\ Add(a, e) \in Line
    BY TextsAdd, WordsAreLines, ZenonT(30)
  <2>5. CASE e = " "
    <3>1. Words(Add(a, e)) = Add(Words(a), Empty)
      BY <2>1, <2>3, <2>5, SplitLast
    <3>2. /\ Words(Add(a, e)) \in WordList /\ Words(Add(a, e)) # Empty
          /\ Spaced(Words(Add(a, e))) = (Space ++ a) ++ Space ++ Empty
      BY <2>2, <3>1, Lists, SpacedStep, WordsAreLines
    <3>3. (Space ++ a) ++ Space ++ Empty = Add(Space ++ a, e)
      BY <2>5, Texts, WordsAreLines
    <3> QED
      BY <2>4, <3>2, <3>3 DEF T
  <2>6. CASE e \in WordChars
    <3>1. Words(Add(a, e)) = Add(f, Add(w, e)) /\ Add(w, e) \in Word
      BY <2>3, <2>6, SplitLast, CharFacts, WordsAreLines
    <3>2. /\ Words(Add(a, e)) \in WordList /\ Words(Add(a, e)) # Empty
          /\ Spaced(Words(Add(a, e))) = Spaced(f) ++ Space ++ Add(w, e)
      BY <3>1, Lists, SpacedStep
    <3>3. Spaced(f) ++ Space ++ Add(w, e) = Add(Spaced(f) ++ Space ++ w, e)
      BY SpacedLine, TextsSpace, WordsAreLines
    <3>4. Spaced(f) ++ Space ++ w = Space ++ a
      BY <2>1, <2>2, SpacedStep
    <3> QED
      BY <2>4, <3>2, <3>3, <3>4 DEF T
  <2> QED
    BY <2>5, <2>6, CharFacts
<1> HIDE DEF T
<1>3. \A a \in Line : a \in T
  BY <1>1, <1>2, LineInduction
<1> QED
  BY <1>3 DEF T

\* A text with no space is one word.
LEMMA WordsWord ==
    \A w \in Word : Words(w) = Add(Empty, w)
<1> DEFINE T == {w \in Word : Words(w) = Add(Empty, w)}
<1>1. Empty \in T
  BY WordsStep, WordsAreLines
<1>2. ASSUME NEW w \in Word, NEW e \in WordChars, w \in T PROVE Add(w, e) \in T
  <2>1. w \in Line /\ e \in LineChars /\ e # " "
    BY CharFacts, WordsAreLines
  <2>2. Words(Add(w, e)) = Split(Add(Empty, w), e)
    BY <1>2, <2>1, WordsStep
  <2>3. Split(Add(Empty, w), e) = Add(Empty, Add(w, e))
    BY <2>1, SplitLast, Lists
  <2> QED
    BY <2>2, <2>3, WordsAreLines
<1> HIDE DEF T
<1>3. \A w \in Word : w \in T
  BY <1>1, <1>2, WordInduction
<1> QED
  BY <1>3 DEF T

\* The words of two texts with a space between them are those of each.
LEMMA WordsJoin ==
    \A a, b \in Line : Words(a ++ Space ++ b) = Words(a) ++ Words(b)
<1> SUFFICES ASSUME NEW a \in Line PROVE \A b \in Line : Words(a ++ Space ++ b) = Words(a) ++ Words(b)
  OBVIOUS
<1> DEFINE T == {b \in Line : Words(a ++ Space ++ b) = Words(a) ++ Words(b)}
<1>1. PICK f \in WordList, w \in Word : Words(a) = Add(f, w)
  BY WordsOf, Lists
<1>2. Empty \in T
  <2>1. a ++ Space ++ Empty = Add(a, " ")
    BY Texts, TextsAdd, WordsAreLines
  <2>2. Words(Add(a, " ")) = Add(Words(a), Empty)
    <3>1. Words(Add(a, " ")) = Split(Add(f, w), " ")
      BY <1>1, WordsStep, CharFacts
    <3> QED
      BY <1>1, <3>1, SplitLast, CharFacts
  <2>3. Words(a) ++ Add(Empty, Empty) = Add(Words(a), Empty)
    BY WordsOf, Lists, WordsAreLines
  <2> QED
    BY <2>1, <2>2, <2>3, WordsStep, WordsAreLines
<1>3. ASSUME NEW b \in Line, NEW e \in LineChars, b \in T PROVE Add(b, e) \in T
  <2>1. PICK g \in WordList, v \in Word : Words(b) = Add(g, v)
    BY WordsOf, Lists
  <2>2. Words(a) \in WordList
    BY WordsOf
  <2>3. Words(a ++ Space ++ b) = Add(Words(a) ++ g, v) /\ Words(a) ++ g \in WordList
    BY <1>3, <2>1, <2>2, Lists
  <2> HIDE DEF T
  <2>4. a ++ Space ++ Add(b, e) = Add(a ++ Space ++ b, e) /\ a ++ Space ++ b \in Line
    BY TextsSpace
  <2>5. Words(a ++ Space ++ Add(b, e)) = Split(Add(Words(a) ++ g, v), e)
    BY <2>3, <2>4, WordsStep
  <2>6. Words(Add(b, e)) = Split(Add(g, v), e)
    BY <2>1, WordsStep
  <2>7. Split(Add(Words(a) ++ g, v), e) = Words(a) ++ Split(Add(g, v), e)
    <3>1. CASE e = " "
      <4>1. Words(a) ++ Add(Add(g, v), Empty) = Add(Add(Words(a) ++ g, v), Empty)
        BY <2>2, Lists, WordsAreLines
      <4> QED
        BY <2>3, <3>1, <4>1, SplitLast
    <3>2. CASE e \in WordChars
      <4>1. Add(v, e) \in Word
        BY <3>2, CharFacts, WordsAreLines
      <4>2. Words(a) ++ Add(g, Add(v, e)) = Add(Words(a) ++ g, Add(v, e))
        BY <2>2, <4>1, Lists
      <4> QED
        BY <2>3, <3>2, <4>2, SplitLast
    <3> QED
      BY <3>1, <3>2, CharFacts
  <2> QED
    BY <2>5, <2>6, <2>7, WordsAreLines DEF T
<1> HIDE DEF T
<1>4. \A b \in Line : b \in T
  BY <1>2, <1>3, LineInduction
<1> QED
  BY <1>4 DEF T

\* The words after a text, with a space before each, are those of the text and them.
LEMMA WordsSpaced ==
    \A a \in Line, v \in WordList : Words(a ++ Spaced(v)) = Words(a) ++ v
<1> SUFFICES ASSUME NEW a \in Line PROVE \A v \in WordList : Words(a ++ Spaced(v)) = Words(a) ++ v
  OBVIOUS
<1> DEFINE T == {v \in WordList : Words(a ++ Spaced(v)) = Words(a) ++ v}
<1>1. Words(a) \in WordList
  BY WordsOf
<1>2. Empty \in T
  <2>1. Spaced(Empty) = Empty /\ Empty \in WordList
    BY SpacedStep, Lists
  <2>2. a ++ Empty = a /\ Words(a) ++ Empty = Words(a)
    BY <1>1, Texts, Lists, ZenonT(30)
  <2> QED
    BY <2>1, <2>2
<1>3. ASSUME NEW v \in WordList, NEW w \in Word, v \in T PROVE Add(v, w) \in T
  <2>1. Words(a ++ Spaced(v)) = Words(a) ++ v
    BY <1>3
  <2> HIDE DEF T
  <2>2. a ++ Spaced(Add(v, w)) = (a ++ Spaced(v)) ++ Space ++ w /\ a ++ Spaced(v) \in Line
    <3>1. Spaced(v) \in Line /\ w \in Line /\ Spaced(Add(v, w)) = Spaced(v) ++ Space ++ w
      BY SpacedStep, SpacedLine, WordsAreLines
    <3>2. a ++ (Spaced(v) ++ Space ++ w) = (a ++ Spaced(v)) ++ Space ++ w
      BY <3>1, TextsSpace
    <3> QED
      BY <3>1, <3>2, Texts
  <2>3. Words(a ++ Spaced(Add(v, w))) = (Words(a) ++ v) ++ Add(Empty, w)
    BY <2>1, <2>2, WordsJoin, WordsWord, WordsAreLines
  <2>4. (Words(a) ++ v) ++ Add(Empty, w) = Words(a) ++ Add(v, w)
    BY <1>1, Lists
  <2> QED
    BY <2>3, <2>4, Lists DEF T
<1> HIDE DEF T
<1>4. \A v \in WordList : v \in T
  BY <1>2, <1>3, ListInduction
<1> QED
  BY <1>4 DEF T


-----------------------------------------------------------------------------
(* The words of a line, read one after the other *)

Middle == {w \in Word : w # Empty /\ Head(w) # ":"}
Middles == Seq(Middle)

\* What is read of a line.
P(at, prefix, command, params) ==
    [at |-> at, message |-> Message(prefix, command, params)]

LEMMA ColonFacts ==
    /\ \A w \in Word : w # Empty /\ Head(w) = ":" => Tail(w) \in Word /\ w = Colon ++ Tail(w)
    /\ \A w \in Word : /\ Colon ++ w \in Word /\ Colon ++ w # Empty
                       /\ Head(Colon ++ w) = ":" /\ Tail(Colon ++ w) = w
<1>1. ASSUME NEW w \in Word, w # Empty, Head(w) = ":"
      PROVE  Tail(w) \in Word /\ w = Colon ++ Tail(w)
  <2>1. Tail(w) \in Word /\ Len(Tail(w)) = Len(w) - 1 /\ Len(w) \in Nat \ {0}
        /\ \A i \in 1..Len(Tail(w)) : Tail(w)[i] = w[i + 1]
    BY <1>1, HeadTailProperties DEF Word, Empty
  <2>2. w[1] = ":"
    BY <1>1 DEF Word, Empty
  <2>3. /\ Colon \in Word /\ Len(Colon) = 1 /\ Colon[1] = ":"
    BY WordsAreLines DEF Colon
  <2> DEFINE t == Tail(w)  c == Colon
  <2> HIDE DEF t, c
  <2>4. /\ c \o t \in Word /\ Len(c \o t) = Len(w)
        /\ \A i \in 1..Len(w) : (c \o t)[i] = IF i <= 1 THEN c[i] ELSE t[i - 1]
    <3>1. /\ c \in Seq(WordChars) /\ t \in Seq(WordChars) /\ Len(t) \in Nat
          /\ Len(c) = 1 /\ Len(t) = Len(w) - 1 /\ Len(w) \in Nat
      BY <2>1, <2>3 DEF Word, t, c
    <3>2. /\ c \o t \in Word /\ Len(c \o t) = Len(c) + Len(t)
          /\ \A i \in 1..(Len(c) + Len(t)) : (c \o t)[i] = IF i <= Len(c) THEN c[i] ELSE t[i - Len(c)]
      BY <3>1, ConcatProperties, Zenon DEF Word
    <3>3. Len(c) + Len(t) = Len(w)
      BY <3>1
    <3> QED
      BY <3>1, <3>2, <3>3, Zenon
  <2>5. \A i \in 1..Len(w) : (c \o t)[i] = w[i]
    <3> SUFFICES ASSUME NEW i \in 1..Len(w) PROVE (c \o t)[i] = w[i]
      OBVIOUS
    <3>1. CASE i = 1
      BY <2>2, <2>3, <2>4, <3>1 DEF c
    <3>2. CASE i # 1
      <4>1. i - 1 \in 1..Len(t) /\ (i - 1) + 1 = i /\ ~(i <= 1)
        BY <2>1, <3>2 DEF t
      <4> QED
        BY <2>1, <2>4, <4>1 DEF t
    <3> QED
      BY <3>1, <3>2
  <2>6. w = c \o t
    BY <2>4, <2>5, SeqEqual DEF Word
  <2> QED
    BY <2>1, <2>6, Zenon DEF t, c, ++
<1>2. ASSUME NEW w \in Word
      PROVE  /\ Colon ++ w \in Word /\ Colon ++ w # Empty
             /\ Head(Colon ++ w) = ":" /\ Tail(Colon ++ w) = w
  <2> DEFINE c == Colon  x == c \o w
  <2>1. /\ c \in Word /\ Len(c) = 1 /\ c[1] = ":"
    BY WordsAreLines DEF Colon
  <2> HIDE DEF c
  <2>2. /\ x \in Word /\ Len(x) = 1 + Len(w) /\ Len(w) \in Nat
        /\ \A i \in 1..(1 + Len(w)) : x[i] = IF i <= 1 THEN c[i] ELSE w[i - 1]
    <3>1. c \in Seq(WordChars) /\ w \in Seq(WordChars) /\ Len(w) \in Nat /\ Len(c) = 1
      BY <2>1 DEF Word
    <3>2. /\ c \o w \in Word /\ Len(c \o w) = Len(c) + Len(w)
          /\ \A i \in 1..(Len(c) + Len(w)) : (c \o w)[i] = IF i <= Len(c) THEN c[i] ELSE w[i - Len(c)]
      BY <3>1, ConcatProperties, Zenon DEF Word
    <3> QED
      BY <3>1, <3>2, Zenon
  <2> HIDE DEF x
  <2>3. x # Empty
    BY <2>2, EmptyFacts
  <2>4. x[1] = ":"
    BY <2>1, <2>2
  <2>5. Head(x) = ":"
    BY <2>2, <2>3, <2>4 DEF Word, Empty
  <2>6. /\ Tail(x) \in Word /\ Len(Tail(x)) = Len(w)
        /\ \A i \in 1..Len(w) : Tail(x)[i] = x[i + 1]
    BY <2>2, <2>3, HeadTailProperties DEF Word, Empty
  <2>7. \A i \in 1..Len(w) : x[i + 1] = w[i]
    BY <2>2
  <2>8. Tail(x) = w
    BY <2>6, <2>7, SeqEqual DEF Word
  <2> QED
    BY <2>2, <2>3, <2>5, <2>8 DEF x, c, ++
<1> QED
  BY <1>1, <1>2

LEMMA MiddleFacts ==
    /\ Empty \in Middles /\ \A q \in Middles, w \in Middle : Add(q, w) \in Middles
    /\ \A q \in Middles : q \in WordList
    /\ \A q \in Middles : q # Empty => \E f \in Middles, w \in Middle : q = Add(f, w)
    /\ \A w \in Middle : w \in Word /\ w # Empty /\ Head(w) # ":"
<1>1. \A w \in Middle : w \in Word /\ w # Empty /\ Head(w) # ":"
  BY DEF Middle
<1>2. Middle \subseteq Word
  BY <1>1
<1>3. \A q \in Middles : q \in WordList
  BY <1>2, SeqMonotonic DEF Middles, WordList
<1>4. Empty \in Middles /\ \A q \in Middles, w \in Middle : Add(q, w) \in Middles
  BY EmptyFacts, AppendFacts DEF Middles, Add
<1>5. \A q \in Middles : q # Empty => \E f \in Middles, w \in Middle : q = Add(f, w)
  BY EmptyFacts DEF Middles, Add
<1> QED
  BY <1>1, <1>3, <1>4, <1>5

LEMMA MiddleInduction ==
    ASSUME NEW T, Empty \in T, \A v \in Middles, w \in Middle : v \in T => Add(v, w) \in T
    PROVE  \A v \in Middles : v \in T
  BY SequenceInduction DEF Empty, Middles, Add

\* The first word, a command after a prefix, a parameter, and what follows in
\* the trailing parameter.
LEMMA ParseFirst ==
    \A w \in Word :
        /\ w = Empty => ParseWord(Begin, w) = Bad
        /\ w # Empty /\ Head(w) = ":" /\ Tail(w) = Empty => ParseWord(Begin, w) = Bad
        /\ w # Empty /\ Head(w) = ":" /\ Tail(w) # Empty
             => ParseWord(Begin, w) = P("WaitCommand", Tail(w), Empty, Empty)
        /\ w # Empty /\ Head(w) # ":" => ParseWord(Begin, w) = P("InParam", Empty, w, Empty)
<1> SUFFICES ASSUME NEW w \in Word
    PROVE /\ w = Empty => ParseWord(Begin, w) = Bad
          /\ w # Empty /\ Head(w) = ":" /\ Tail(w) = Empty => ParseWord(Begin, w) = Bad
          /\ w # Empty /\ Head(w) = ":" /\ Tail(w) # Empty
               => ParseWord(Begin, w) = P("WaitCommand", Tail(w), Empty, Empty)
          /\ w # Empty /\ Head(w) # ":" => ParseWord(Begin, w) = P("InParam", Empty, w, Empty)
  OBVIOUS
<1>1. Begin.at = "None" /\ Begin.message = Message(Empty, Empty, Empty)
  BY DEF Begin, Empty
<1>2. w = Empty => ParseWord(Begin, w) = Bad
  BY <1>1, Zenon DEF ParseWord, Empty
<1>3. w # Empty /\ Head(w) = ":" => ParseWord(Begin, w) = Prefix(w)
  BY <1>1, Zenon DEF ParseWord, Empty
<1>4. w # Empty /\ Head(w) # ":" => ParseWord(Begin, w) = Command(Begin, w)
  BY <1>1, Zenon DEF ParseWord, Empty
<1>5. Prefix(w) = IF Tail(w) = Empty THEN Bad ELSE P("WaitCommand", Tail(w), Empty, Empty)
  BY Zenon DEF Prefix, P, Empty
<1>6. Command(Begin, w) = P("InParam", Empty, w, Empty)
  BY <1>1 DEF Command, P, Message
<1> QED
  BY <1>2, <1>3, <1>4, <1>5, <1>6

LEMMA ParseBad == \A w : ParseWord(Bad, w) = Bad
<1>1. Bad.at = "Bad"
  BY DEF Bad, Begin
<1> QED
  BY <1>1, Zenon DEF ParseWord

LEMMA ParseCommand ==
    \A prefix, w : ParseWord(P("WaitCommand", prefix, Empty, Empty), w)
                     = IF w = Empty THEN Bad ELSE P("InParam", prefix, w, Empty)
<1> SUFFICES ASSUME NEW prefix, NEW w
    PROVE ParseWord(P("WaitCommand", prefix, Empty, Empty), w)
            = IF w = Empty THEN Bad ELSE P("InParam", prefix, w, Empty)
  OBVIOUS
<1> DEFINE p == P("WaitCommand", prefix, Empty, Empty)
<1>1. p.at = "WaitCommand" /\ p.message = Message(prefix, Empty, Empty)
  BY DEF P
<1>2. Command(p, w) = P("InParam", prefix, w, Empty)
  BY <1>1 DEF Command, P, Message
<1> HIDE DEF p
<1>3. w = Empty => ParseWord(p, w) = Bad
  BY <1>1, Zenon DEF ParseWord, Empty
<1>4. w # Empty => ParseWord(p, w) = Command(p, w)
  BY <1>1, Zenon DEF ParseWord, Empty
<1> QED
  BY <1>2, <1>3, <1>4 DEF p

LEMMA ParseParam ==
    ASSUME NEW prefix, NEW command, NEW params \in WordList, NEW w \in Word
    PROVE  LET p == ParseWord(P("InParam", prefix, command, params), w)
           IN  /\ w = Empty => p = Bad
               /\ w # Empty /\ Head(w) = ":"
                    => p = P("InTrailing", prefix, command, Add(params, Tail(w)))
               /\ w # Empty /\ Head(w) # ":" /\ Len(params) + 1 >= MaxParams
                    => p = P("InTrailing", prefix, command, Add(params, w))
               /\ w # Empty /\ Head(w) # ":" /\ ~(Len(params) + 1 >= MaxParams)
                    => p = P("InParam", prefix, command, Add(params, w))
<1> DEFINE q == P("InParam", prefix, command, params)
<1>1. q.at = "InParam" /\ q.message = Message(prefix, command, params)
      /\ q.message.params = params
  BY DEF P, Message
<1>2. \A x : [q.message EXCEPT !.params = x] = Message(prefix, command, x)
  BY <1>1 DEF Message
<1> HIDE DEF q
<1>3. w = Empty => ParseWord(q, w) = Bad
  BY <1>1, Zenon DEF ParseWord, Empty
<1>4. w # Empty => ParseWord(q, w) = Param(q, w)
  BY <1>1, Zenon DEF ParseWord, Empty
<1>5. Head(w) = ":" => Param(q, w) = P("InTrailing", prefix, command, Add(params, Tail(w)))
  BY <1>1, <1>2, Zenon DEF Param, P, Add
<1>6. Len(Add(params, w)) = Len(params) + 1
  BY AppendFacts DEF WordList, Add
<1>7. Head(w) # ":" /\ Len(params) + 1 >= MaxParams
        => Param(q, w) = P("InTrailing", prefix, command, Add(params, w))
  BY <1>1, <1>2, <1>6, Zenon DEF Param, P, Add
<1>8. Head(w) # ":" /\ ~(Len(params) + 1 >= MaxParams)
        => Param(q, w) = P("InParam", prefix, command, Add(params, w))
  BY <1>1, <1>2, <1>6, Zenon DEF Param, P, Add
<1> QED
  BY <1>3, <1>4, <1>5, <1>7, <1>8 DEF q

LEMMA ParseTrailing ==
    ASSUME NEW prefix, NEW command, NEW params \in WordList, NEW t \in Line, NEW w \in Word
    PROVE  ParseWord(P("InTrailing", prefix, command, Add(params, t)), w)
             = P("InTrailing", prefix, command, Add(params, t ++ Space ++ w))
<1> DEFINE a == Add(params, t)
           q == P("InTrailing", prefix, command, a)
           x == t ++ Space ++ w
<1>1. q.at = "InTrailing" /\ q.message = Message(prefix, command, a)
      /\ q.message.params = a
  BY DEF P, Message
<1>2. ParseWord(q, w) = Trailing(q, w)
  BY <1>1, Zenon DEF ParseWord
<1>3. /\ x \in Line /\ params \in Seq(Line)
  BY TextsSpace, WordsAreLines, SeqMonotonic DEF WordList
<1>4. a[Len(a)] = t /\ a \in Seq(Line) /\ Len(a) = Len(params) + 1 /\ Len(params) \in Nat
      /\ \A i \in 1..Len(params) : a[i] = params[i]
  BY <1>3, AppendProperties DEF Add
<1> HIDE DEF a
<1>5. a[Len(a)] \o Space \o w = x
  BY <1>4, Zenon DEF ++
<1>6. q.message.params[Len(q.message.params)] \o Space \o w = x
  BY <1>1, <1>5, Zenon
<1> HIDE DEF x
<1>7. Trailing(q, w) = [q EXCEPT !.message.params[Len(q.message.params)] = x]
  BY <1>6, Zenon DEF Trailing
<1>8. Len(q.message.params) = Len(a)
  BY <1>1
<1>9. [q EXCEPT !.message.params[Len(q.message.params)] = x] = [q EXCEPT !.message.params[Len(a)] = x]
  BY <1>8
<1>10. Trailing(q, w) = P("InTrailing", prefix, command, [a EXCEPT ![Len(a)] = x])
  BY <1>7, <1>9 DEF P, Message
<1>11. [a EXCEPT ![Len(a)] = x] = Add(params, x)
  <2> DEFINE b == [a EXCEPT ![Len(a)] = x]  c == Add(params, x)
  <2>1. /\ c[Len(c)] = x /\ c \in Seq(Line) /\ Len(c) = Len(params) + 1
        /\ \A i \in 1..Len(params) : c[i] = params[i]
    BY <1>3, AppendProperties DEF Add
  <2>2. Len(a) \in 1..Len(a)
    BY <1>4
  <2>3. /\ b \in Seq(Line) /\ Len(b) = Len(a)
        /\ \A i \in 1..Len(a) : b[i] = IF i = Len(a) THEN x ELSE a[i]
    BY <1>3, <1>4, <2>2, ExceptSeq
  <2> HIDE DEF b, c
  <2>4. \A i \in 1..Len(b) : b[i] = c[i]
    BY <1>4, <2>1, <2>3
  <2>5. b = c
    BY <1>4, <2>1, <2>3, <2>4, SeqEqual
  <2> QED
    BY <2>5 DEF b, c
<1> QED
  BY <1>2, <1>10, <1>11 DEF a, x


-----------------------------------------------------------------------------
(* What is read is what is written *)

\* The text of a prefix and a command.
Opening(prefix, command) ==
    IF prefix = Empty THEN command ELSE Colon ++ prefix ++ Space ++ command

\* How the last parameter may be written.
IsLast(t, y, count) ==
    \/ y = Colon ++ t
    \/ y = t /\ t # Empty /\ Head(t) # ":" /\ Head(t) # " " /\ count + 1 = MaxParams

\* What is read of the text x is in one of these states.
ReadPrefix(p, x) == \E prefix \in Word :
    prefix # Empty /\ p = P("WaitCommand", prefix, Empty, Empty) /\ x = Colon ++ prefix

ReadParams(p, x) == \E prefix, command \in Word, params \in Middles :
    /\ Len(params) < MaxParams
    /\ p = P("InParam", prefix, command, params)
    /\ x = Opening(prefix, command) ++ Spaced(params)

ReadTrailing(p, x) == \E prefix, command \in Word, params \in Middles, t, y \in Line :
    /\ Len(params) < MaxParams /\ IsLast(t, y, Len(params))
    /\ p = P("InTrailing", prefix, command, Add(params, t))
    /\ x = Opening(prefix, command) ++ Spaced(params) ++ Space ++ y

Reading(p, x) == p = Bad \/ ReadPrefix(p, x) \/ ReadParams(p, x) \/ ReadTrailing(p, x)

LEMMA OpeningLine == \A prefix, command \in Word : Opening(prefix, command) \in Line
  BY Texts, TextsSpace, WordsAreLines DEF Opening

LEMMA WordHead == \A w \in Word : w # Empty => Head(w) # " "
<1> SUFFICES ASSUME NEW w \in Word, w # Empty PROVE Head(w) # " "
  OBVIOUS
<1>1. Head(w) \in WordChars
  BY HeadTailProperties DEF Word, Empty
<1> QED
  BY <1>1 DEF WordChars

LEMMA TextsCancel ==
    \A a, b, c \in Line : a ++ b = a ++ c => b = c
  BY ConcatSimplifications DEF Line, ++

LEMMA JoinHead ==
    \A t, w \in Line : t # Empty =>
        t ++ Space ++ w # Empty /\ Head(t ++ Space ++ w) = Head(t)
<1> SUFFICES ASSUME NEW t \in Line, NEW w \in Line, t # Empty
             PROVE  t ++ Space ++ w # Empty /\ Head(t ++ Space ++ w) = Head(t)
  OBVIOUS
<1> DEFINE r == Space ++ w  x == t \o r
<1>1. r \in Line
  BY Texts, WordsAreLines
<1>2. t ++ Space ++ w = x
  BY TextsJoin, WordsAreLines DEF ++
<1>3. t \in Seq(LineChars) /\ r \in Seq(LineChars) /\ Len(t) \in Nat \ {0} /\ Len(r) \in Nat
  BY <1>1 DEF Line, Empty
<1> HIDE DEF r
<1>4. /\ x \in Seq(LineChars) /\ Len(x) = Len(t) + Len(r)
      /\ \A i \in 1..(Len(t) + Len(r)) : x[i] = IF i <= Len(t) THEN t[i] ELSE r[i - Len(t)]
  BY <1>3, ConcatProperties, Zenon
<1> HIDE DEF x
<1>5. Len(x) # 0 /\ x[1] = t[1]
  BY <1>3, <1>4
<1>6. x # Empty /\ Head(x) = x[1] /\ Head(t) = t[1]
  BY <1>3, <1>4, <1>5 DEF Empty
<1> QED
  BY <1>2, <1>5, <1>6

LEMMA ReadingFirst ==
    \A w \in Word : Reading(ParseWord(Begin, w), w)
<1> SUFFICES ASSUME NEW w \in Word PROVE Reading(ParseWord(Begin, w), w)
  OBVIOUS
<1>1. CASE w = Empty \/ (Head(w) = ":" /\ Tail(w) = Empty)
  BY <1>1, ParseFirst DEF Reading
<1>2. CASE w # Empty /\ Head(w) = ":" /\ Tail(w) # Empty
  <2>1. ParseWord(Begin, w) = P("WaitCommand", Tail(w), Empty, Empty)
    BY <1>2, ParseFirst
  <2>2. Tail(w) \in Word /\ w = Colon ++ Tail(w)
    BY <1>2, ColonFacts
  <2> QED
    BY <1>2, <2>1, <2>2 DEF Reading, ReadPrefix
<1>3. CASE w # Empty /\ Head(w) # ":"
  <2>1. ParseWord(Begin, w) = P("InParam", Empty, w, Empty)
    BY <1>3, ParseFirst
  <2>2. Opening(Empty, w) ++ Spaced(Empty) = w
    BY SpacedStep, Texts, WordsAreLines DEF Opening
  <2>3. Len(Empty) < MaxParams
    BY EmptyFacts, ParserAssumption
  <2>4. ReadParams(P("InParam", Empty, w, Empty), w)
    BY <2>2, <2>3, MiddleFacts, WordsAreLines DEF ReadParams
  <2> QED
    BY <2>1, <2>4 DEF Reading
<1> QED
  BY <1>1, <1>2, <1>3

LEMMA ReadingPrefix ==
    ASSUME NEW p, NEW x \in Line, NEW w \in Word, ReadPrefix(p, x)
    PROVE  Reading(ParseWord(p, w), x ++ Space ++ w)
<1>1. PICK prefix \in Word :
        prefix # Empty /\ p = P("WaitCommand", prefix, Empty, Empty) /\ x = Colon ++ prefix
  BY DEF ReadPrefix
<1>2. CASE w = Empty
  BY <1>1, <1>2, ParseCommand DEF Reading
<1>3. CASE w # Empty
  <2>1. ParseWord(p, w) = P("InParam", prefix, w, Empty)
    BY <1>1, <1>3, ParseCommand
  <2>2. Opening(prefix, w) ++ Spaced(Empty) = x ++ Space ++ w
    BY <1>1, OpeningLine, SpacedStep, Texts DEF Opening
  <2>3. Len(Empty) < MaxParams
    BY EmptyFacts, ParserAssumption
  <2>4. ReadParams(P("InParam", prefix, w, Empty), x ++ Space ++ w)
    BY <2>2, <2>3, MiddleFacts DEF ReadParams
  <2> QED
    BY <2>1, <2>4 DEF Reading
<1> QED
  BY <1>2, <1>3

LEMMA ReadingParams ==
    ASSUME NEW p, NEW x \in Line, NEW w \in Word, ReadParams(p, x)
    PROVE  Reading(ParseWord(p, w), x ++ Space ++ w)
<1>1. PICK prefix \in Word, command \in Word, params \in Middles :
        /\ Len(params) < MaxParams
        /\ p = P("InParam", prefix, command, params)
        /\ x = Opening(prefix, command) ++ Spaced(params)
  BY DEF ReadParams
<1>2. params \in WordList /\ Len(params) \in Nat /\ MaxParams \in Nat
  BY MiddleFacts, ParserAssumption DEF WordList
<1>3. CASE w = Empty
  BY <1>1, <1>2, <1>3, ParseParam DEF Reading
<1>4. CASE w # Empty /\ Head(w) = ":"
  <2>1. ParseWord(p, w) = P("InTrailing", prefix, command, Add(params, Tail(w)))
    BY <1>1, <1>2, <1>4, ParseParam
  <2>2. Tail(w) \in Line /\ w \in Line /\ w = Colon ++ Tail(w)
    BY <1>4, ColonFacts, WordsAreLines
  <2>3. IsLast(Tail(w), w, Len(params))
    BY <2>2 DEF IsLast
  <2>4. ReadTrailing(ParseWord(p, w), x ++ Space ++ w)
    BY <1>1, <2>1, <2>2, <2>3, Zenon DEF ReadTrailing
  <2> QED
    BY <2>4 DEF Reading
<1>5. CASE w # Empty /\ Head(w) # ":" /\ Len(params) + 1 >= MaxParams
  <2>1. ParseWord(p, w) = P("InTrailing", prefix, command, Add(params, w))
    BY <1>1, <1>2, <1>5, ParseParam
  <2>2. w \in Line /\ Head(w) # " "
    BY <1>5, WordsAreLines, WordHead
  <2>3. Len(params) + 1 = MaxParams
    BY <1>1, <1>2, <1>5
  <2>4. IsLast(w, w, Len(params))
    BY <1>5, <2>2, <2>3 DEF IsLast
  <2>5. ReadTrailing(ParseWord(p, w), x ++ Space ++ w)
    BY <1>1, <2>1, <2>2, <2>4, Zenon DEF ReadTrailing
  <2> QED
    BY <2>5 DEF Reading
<1>6. CASE w # Empty /\ Head(w) # ":" /\ ~(Len(params) + 1 >= MaxParams)
  <2>1. ParseWord(p, w) = P("InParam", prefix, command, Add(params, w))
    BY <1>1, <1>2, <1>6, ParseParam
  <2>2. w \in Middle /\ Add(params, w) \in Middles
    BY <1>6, MiddleFacts DEF Middle
  <2>3. Len(Add(params, w)) = Len(params) + 1
    BY <1>2, AppendFacts DEF WordList, Add
  <2>4. Len(Add(params, w)) < MaxParams
    BY <1>2, <1>6, <2>3
  <2>5. Opening(prefix, command) ++ Spaced(Add(params, w)) = x ++ Space ++ w
    <3>1. Spaced(Add(params, w)) = Spaced(params) ++ Space ++ w
      BY <1>2, SpacedStep
    <3>2. Opening(prefix, command) \in Line /\ Spaced(params) \in Line /\ w \in Line
      BY <1>2, OpeningLine, SpacedLine, WordsAreLines
    <3> QED
      BY <1>1, <3>1, <3>2, TextsSpace
  <2>6. ReadParams(ParseWord(p, w), x ++ Space ++ w)
    BY <2>1, <2>2, <2>4, <2>5, Zenon DEF ReadParams
  <2> QED
    BY <2>6 DEF Reading
<1> QED
  BY <1>3, <1>4, <1>5, <1>6

LEMMA ReadingTrailing ==
    ASSUME NEW p, NEW x \in Line, NEW w \in Word, ReadTrailing(p, x)
    PROVE  Reading(ParseWord(p, w), x ++ Space ++ w)
<1>1. PICK prefix \in Word, command \in Word, params \in Middles, t \in Line, y \in Line :
        /\ Len(params) < MaxParams /\ IsLast(t, y, Len(params))
        /\ p = P("InTrailing", prefix, command, Add(params, t))
        /\ x = Opening(prefix, command) ++ Spaced(params) ++ Space ++ y
  BY DEF ReadTrailing
<1>2. params \in WordList /\ w \in Line
  BY MiddleFacts, WordsAreLines
<1> DEFINE u == t ++ Space ++ w  z == y ++ Space ++ w
           before == Opening(prefix, command) ++ Spaced(params)
<1>3. u \in Line /\ z \in Line
  BY <1>2, TextsSpace
<1>4. ParseWord(p, w) = P("InTrailing", prefix, command, Add(params, u))
  BY <1>1, <1>2, ParseTrailing
<1>5. x ++ Space ++ w = before ++ Space ++ z
  <2>1. before \in Line
    BY <1>2, OpeningLine, SpacedLine, Texts
  <2>2. before ++ Space \in Line
    BY <2>1, Texts, WordsAreLines
  <2> HIDE DEF before
  <2>3. x = (before ++ Space) ++ y
    BY <1>1 DEF before
  <2> QED
    BY <1>2, <2>2, <2>3, TextsSpace
<1>6. IsLast(u, z, Len(params))
  <2>1. CASE y = Colon ++ t
    <3>1. Colon ++ (t ++ Space ++ w) = (Colon ++ t) ++ Space ++ w
      BY <1>2, TextsSpace, WordsAreLines
    <3> QED
      BY <2>1, <3>1 DEF IsLast
  <2>2. CASE y = t /\ t # Empty /\ Head(t) # ":" /\ Head(t) # " " /\ Len(params) + 1 = MaxParams
    <3>1. u # Empty /\ Head(u) = Head(t)
      BY <1>2, <2>2, JoinHead
    <3> QED
      BY <2>2, <3>1 DEF IsLast
  <2> QED
    BY <1>1, <2>1, <2>2 DEF IsLast
<1> HIDE DEF u, z
<1>7. ReadTrailing(ParseWord(p, w), x ++ Space ++ w)
  BY <1>1, <1>3, <1>4, <1>5, <1>6, Zenon DEF ReadTrailing, before
<1> QED
  BY <1>7 DEF Reading

LEMMA ReadingStep ==
    \A p : \A x \in Line, w \in Word :
        Reading(p, x) => Reading(ParseWord(p, w), x ++ Space ++ w)
<1> SUFFICES ASSUME NEW p, NEW x \in Line, NEW w \in Word, Reading(p, x)
             PROVE  Reading(ParseWord(p, w), x ++ Space ++ w)
  OBVIOUS
<1>1. CASE p = Bad
  BY <1>1, ParseBad DEF Reading
<1> QED
  BY <1>1, ReadingPrefix, ReadingParams, ReadingTrailing DEF Reading

\* What is read of a line says what the line is.
LEMMA ReadingLine ==
    \A a \in Line : Reading(Parsed(Words(a)), a)
<1> DEFINE T == {v \in WordList : v # Empty =>
                   \E x \in Line : Spaced(v) = Space ++ x /\ Reading(Parsed(v), x)}
<1>1. Empty \in T
  BY Lists
<1>2. ASSUME NEW v \in WordList, NEW w \in Word, v \in T PROVE Add(v, w) \in T
  <2>1. Spaced(Add(v, w)) = Spaced(v) ++ Space ++ w /\ Parsed(Add(v, w)) = ParseWord(Parsed(v), w)
    BY SpacedStep, ParsedStep
  <2>2. w \in Line /\ Space \in Line /\ Add(v, w) \in WordList
    BY WordsAreLines, Lists
  <2>3. CASE v = Empty
    <3>1. Spaced(Add(v, w)) = Space ++ w /\ Parsed(Add(v, w)) = ParseWord(Begin, w)
      BY <2>1, <2>2, <2>3, SpacedStep, ParsedStep, Texts
    <3> QED
      BY <2>2, <3>1, ReadingFirst
  <2>4. CASE v # Empty
    <3>1. PICK x \in Line : Spaced(v) = Space ++ x /\ Reading(Parsed(v), x)
      BY <1>2, <2>4
    <3>2. (Space ++ x) ++ Space ++ w = Space ++ (x ++ Space ++ w)
      BY <2>2, TextsSpace
    <3>3. x ++ Space ++ w \in Line
      BY <2>2, TextsSpace
    <3>4. Reading(Parsed(Add(v, w)), x ++ Space ++ w)
      BY <2>1, <3>1, ReadingStep
    <3>5. Spaced(Add(v, w)) = Space ++ (x ++ Space ++ w)
      BY <2>1, <3>1, <3>2
    <3> QED
      BY <2>2, <3>3, <3>4, <3>5
  <2> QED
    BY <2>3, <2>4
<1> HIDE DEF T
<1>3. \A v \in WordList : v \in T
  BY <1>1, <1>2, ListInduction
<1> SUFFICES ASSUME NEW a \in Line PROVE Reading(Parsed(Words(a)), a)
  OBVIOUS
<1>4. /\ Words(a) \in T /\ Words(a) # Empty
      /\ Spaced(Words(a)) = Space ++ a
  BY <1>3, WordsOf
<1>5. PICK x \in Line : Spaced(Words(a)) = Space ++ x /\ Reading(Parsed(Words(a)), x)
  BY <1>4 DEF T
<1>6. x = a
  BY <1>4, <1>5, TextsCancel, WordsAreLines
<1> QED
  BY <1>5, <1>6


-----------------------------------------------------------------------------
(* A message and its text *)

\* The parameters of a message: none, or some words and a last one.
ReadMessage(m) == \E prefix, command \in Word :
    /\ IsCommand(command)
    /\ \/ m = Message(prefix, command, Empty)
       \/ \E params \in Middles, t \in Line :
            Len(params) < MaxParams /\ m = Message(prefix, command, Add(params, t))

\* The text a is one for the message m.
Written(m, a) == \E prefix, command \in Word :
    \/ m = Message(prefix, command, Empty) /\ a = Opening(prefix, command)
    \/ \E params \in Middles, t, y \in Line :
         /\ Len(params) < MaxParams
         /\ m = Message(prefix, command, Add(params, t))
         /\ (t \in Middle /\ y = t) \/ IsLast(t, y, Len(params))
         /\ a = Opening(prefix, command) ++ Spaced(params) ++ Space ++ y

LEMMA MessageRead ==
    ASSUME NEW a \in Line, parseMessage(a) # Empty
    PROVE  \E m : parseMessage(a) = <<m>> /\ ReadMessage(m) /\ Written(m, a)
<1> DEFINE p == Parsed(Words(a))
<1>1. p.at # "Bad" /\ IsCommand(p.message.command) /\ parseMessage(a) = <<p.message>>
  BY Zenon DEF parseMessage, Empty
<1>2. Reading(p, a)
  BY ReadingLine
<1> HIDE DEF p
<1>3. p # Bad
  BY <1>1 DEF Bad, Begin
<1>4. CASE ReadPrefix(p, a)
  <2>1. p.message.command = Empty
    BY <1>4 DEF ReadPrefix, P, Message
  <2>2. ~IsCommand(Empty)
    BY DEF IsCommand, Empty
  <2> QED
    BY <1>1, <2>1, <2>2
<1>5. CASE ReadParams(p, a)
  <2>1. PICK prefix \in Word, command \in Word, params \in Middles :
          /\ Len(params) < MaxParams
          /\ p = P("InParam", prefix, command, params)
          /\ a = Opening(prefix, command) ++ Spaced(params)
    BY <1>5 DEF ReadParams
  <2> DEFINE m == Message(prefix, command, params)
  <2>2. p.message = m /\ IsCommand(command)
    BY <1>1, <2>1 DEF P, Message
  <2>3. CASE params = Empty
    <3>1. a = Opening(prefix, command)
      BY <2>1, <2>3, OpeningLine, SpacedStep, Texts
    <3>2. ReadMessage(m)
      BY <2>2, <2>3 DEF ReadMessage
    <3>3. Written(m, a)
      BY <2>3, <3>1 DEF Written
    <3> HIDE DEF m
    <3> QED
      BY <1>1, <2>2, <3>2, <3>3
  <2>4. CASE params # Empty
    <3>1. PICK q \in Middles, w \in Middle : params = Add(q, w)
      BY <2>4, MiddleFacts
    <3>2. w \in Word /\ w \in Line /\ q \in WordList
      BY MiddleFacts, WordsAreLines
    <3>3. Len(q) < MaxParams
      <4>1. Len(params) = Len(q) + 1 /\ Len(q) \in Nat
        BY <3>1, <3>2, AppendFacts DEF WordList, Add
      <4> QED
        BY <2>1, <4>1, ParserAssumption
    <3>4. a = Opening(prefix, command) ++ Spaced(q) ++ Space ++ w
      <4>1. Spaced(params) = Spaced(q) ++ Space ++ w
        BY <3>1, <3>2, SpacedStep
      <4>2. Opening(prefix, command) \in Line /\ Spaced(q) \in Line
        BY <3>2, OpeningLine, SpacedLine
      <4> QED
        BY <2>1, <3>2, <4>1, <4>2, TextsSpace
    <3>5. ReadMessage(m)
      BY <2>2, <3>1, <3>2, <3>3, Zenon DEF ReadMessage
    <3>6. Written(m, a)
      BY <3>1, <3>2, <3>3, <3>4, Zenon DEF Written
    <3> HIDE DEF m
    <3> QED
      BY <1>1, <2>2, <3>5, <3>6
  <2> QED
    BY <2>3, <2>4
<1>6. CASE ReadTrailing(p, a)
  <2>1. PICK prefix \in Word, command \in Word, params \in Middles, t \in Line, y \in Line :
          /\ Len(params) < MaxParams /\ IsLast(t, y, Len(params))
          /\ p = P("InTrailing", prefix, command, Add(params, t))
          /\ a = Opening(prefix, command) ++ Spaced(params) ++ Space ++ y
    BY <1>6 DEF ReadTrailing
  <2> DEFINE m == Message(prefix, command, Add(params, t))
  <2>2. p.message = m /\ IsCommand(command)
    BY <1>1, <2>1 DEF P, Message
  <2>3. ReadMessage(m)
    BY <2>1, <2>2, Zenon DEF ReadMessage
  <2>4. Written(m, a)
    BY <2>1, Zenon DEF Written
  <2> HIDE DEF m
  <2> QED
    BY <1>1, <2>2, <2>3, <2>4
<1> QED
  BY <1>2, <1>3, <1>4, <1>5, <1>6 DEF Reading

LEMMA NoSpace == \A w \in Word : ~Contains(w, " ")
<1> SUFFICES ASSUME NEW w \in Word PROVE ~Contains(w, " ")
  OBVIOUS
<1>1. \A i \in 1..Len(w) : w[i] \in WordChars
  BY DEF Word
<1> QED
  BY <1>1 DEF Contains, WordChars

LEMMA MiddleIsMiddle == \A w \in Middle : IsMiddle(w)
  BY NoSpace, MiddleFacts DEF IsMiddle, Empty

LEMMA MessageFields ==
    \A x, y, z : /\ Message(x, y, z).prefix = x /\ Message(x, y, z).command = y
                 /\ Message(x, y, z).params = z
  BY DEF Message

LEMMA MessageWellFormed ==
    ASSUME NEW m, ReadMessage(m)
    PROVE  WellFormed(m)
<1>1. PICK prefix \in Word, command \in Word :
        /\ IsCommand(command)
        /\ \/ m = Message(prefix, command, Empty)
           \/ \E params \in Middles, t \in Line :
                Len(params) < MaxParams /\ m = Message(prefix, command, Add(params, t))
  BY DEF ReadMessage
<1>2. m.prefix = prefix /\ m.command = command
  BY <1>1, MessageFields
<1>3. Len(m.params) <= MaxParams /\ \A i \in 1..(Len(m.params) - 1) : IsMiddle(m.params[i])
  <2>1. CASE m = Message(prefix, command, Empty)
    <3>1. m.params = Empty /\ Len(Empty) = 0
      BY <2>1, MessageFields, EmptyFacts
    <3> QED
      BY <3>1, ParserAssumption
  <2>2. CASE m # Message(prefix, command, Empty)
    <3>1. PICK params \in Middles, t \in Line :
            Len(params) < MaxParams /\ m = Message(prefix, command, Add(params, t))
      BY <1>1, <2>2
    <3>2. m.params = Add(params, t)
      BY <3>1, MessageFields
    <3>3. params \in Seq(Line) /\ \A i \in 1..Len(params) : params[i] \in Middle
      BY MiddleFacts, WordsAreLines, SeqMonotonic DEF Middles
    <3>4. /\ Len(Add(params, t)) = Len(params) + 1 /\ Len(params) \in Nat
          /\ \A i \in 1..Len(params) : Add(params, t)[i] = params[i]
      BY <3>3, AppendProperties DEF Add
    <3>5. Len(m.params) = Len(params) + 1 /\ \A i \in 1..Len(params) : m.params[i] \in Middle
      BY <3>2, <3>3, <3>4
    <3>6. \A i \in 1..(Len(m.params) - 1) : m.params[i] \in Middle
      BY <3>4, <3>5
    <3>7. Len(m.params) <= MaxParams
      BY <3>1, <3>4, <3>5, ParserAssumption
    <3> QED
      BY <3>6, <3>7, MiddleIsMiddle
  <2> QED
    BY <2>1, <2>2
<1> QED
  BY <1>1, <1>2, <1>3, NoSpace DEF WellFormed

\* The text before the last parameter.
LEMMA HeadText ==
    \A prefix, command \in Word : \A params :
        PrefixText(Message(prefix, command, params)) ++ command = Opening(prefix, command)
<1> SUFFICES ASSUME NEW prefix \in Word, NEW command \in Word, NEW params
    PROVE PrefixText(Message(prefix, command, params)) ++ command = Opening(prefix, command)
  OBVIOUS
<1>1. CASE prefix = Empty
  <2>1. PrefixText(Message(prefix, command, params)) = Empty
    BY <1>1, MessageFields, Zenon DEF PrefixText, Empty
  <2> QED
    BY <1>1, <2>1, Texts, WordsAreLines DEF Opening
<1>2. CASE prefix # Empty
  <2>1. PrefixText(Message(prefix, command, params)) = Colon ++ prefix ++ Space
    <3> DEFINE m == Message(prefix, command, params)
    <3>1. m.prefix = prefix
      BY MessageFields
    <3> HIDE DEF m
    <3>2. PrefixText(m) = Colon \o m.prefix \o Space
      BY <1>2, <3>1, Zenon DEF PrefixText, Empty
    <3> QED
      BY <3>1, <3>2, Zenon DEF m, ++
  <2> QED
    BY <1>2, <2>1, Zenon DEF Opening
<1> QED
  BY <1>1, <1>2

LEMMA EncodeNone ==
    \A prefix, command \in Word :
        encodeMessage(Message(prefix, command, Empty)) = Opening(prefix, command)
<1> SUFFICES ASSUME NEW prefix \in Word, NEW command \in Word
    PROVE encodeMessage(Message(prefix, command, Empty)) = Opening(prefix, command)
  OBVIOUS
<1> DEFINE m == Message(prefix, command, Empty)
<1>1. m.command = command /\ m.params = Empty
  BY MessageFields
<1>2. PrefixText(m) ++ command = Opening(prefix, command)
  BY HeadText
<1> HIDE DEF m
<1>3. Front(Empty) = Empty
  BY SubSeqEmpty DEF Front, Empty
<1>4. MiddleText(m) = Empty
  BY <1>1, <1>3, SpacedStep DEF MiddleText
<1>5. encodeMessage(m) = PrefixText(m) ++ command ++ Empty ++ Empty
  BY <1>1, <1>4, Zenon DEF encodeMessage, Empty, ++
<1> QED
  BY <1>2, <1>5, OpeningLine, Texts DEF m

LEMMA EncodeSome ==
    ASSUME NEW prefix \in Word, NEW command \in Word, NEW params \in WordList, NEW t \in Line,
           NEW m, m = Message(prefix, command, Add(params, t)),
           NEW before, before = Opening(prefix, command) ++ Spaced(params) ++ Space
    PROVE  /\ PrefixText(m) ++ m.command ++ MiddleText(m) ++ Space = before
           /\ encodeMessage(m) = before ++ (Colon ++ t)
           /\ Last(m.params) = t /\ m.params # Empty
           /\ Len(m.params) = Len(params) + 1
<1>1. m.command = command /\ m.params = Add(params, t)
  BY MessageFields
<1>2. PrefixText(m) ++ command = Opening(prefix, command)
  BY HeadText
<1>3. params \in Seq(Line)
  BY WordsAreLines, SeqMonotonic DEF WordList
<1>4. Front(m.params) = params /\ Last(m.params) = t /\ m.params # Empty
      /\ Len(m.params) = Len(params) + 1
  BY <1>1, <1>3, FrontLast, EmptyFacts, AppendFacts DEF Add
<1>5. MiddleText(m) = Spaced(params)
  BY <1>4 DEF MiddleText
<1>6. PrefixText(m) ++ m.command ++ MiddleText(m) ++ Space = before
  BY <1>1, <1>2, <1>5, Zenon
<1>7. encodeMessage(m) = (before ++ Colon) ++ t
  <2>1. encodeMessage(m) = PrefixText(m) \o m.command \o MiddleText(m) \o (Space \o Colon \o t)
    BY <1>4, Zenon DEF encodeMessage, Empty
  <2>2. encodeMessage(m) = (PrefixText(m) ++ command ++ Spaced(params)) ++ (Space ++ Colon ++ t)
    BY <1>1, <1>5, <2>1, Zenon DEF ++
  <2>3. Opening(prefix, command) ++ Spaced(params) \in Line
    BY OpeningLine, SpacedLine, Texts
  <2> DEFINE o == Opening(prefix, command) ++ Spaced(params)
  <2>4. encodeMessage(m) = o ++ (Space ++ Colon ++ t)
    BY <1>2, <2>2
  <2> HIDE DEF o
  <2>5. o ++ ((Space ++ Colon) ++ t) = (o ++ (Space ++ Colon)) ++ t
        /\ o ++ (Space ++ Colon) = (o ++ Space) ++ Colon
    <3>1. o \in Line /\ Space \in Line /\ Colon \in Line /\ Space ++ Colon \in Line
      BY <2>3, Texts, WordsAreLines DEF o
    <3> QED
      BY <3>1, TextsJoin
  <2> QED
    BY <2>4, <2>5, Zenon DEF o
<1>8. (before ++ Colon) ++ t = before ++ (Colon ++ t)
  <2>1. before \in Line /\ Colon \in Line
    BY OpeningLine, SpacedLine, Texts, WordsAreLines
  <2> QED
    BY <2>1, TextsJoin
<1> QED
  BY <1>4, <1>6, <1>7, <1>8


\* A text for a message is one of its spellings.
LEMMA MessageSpelled ==
    ASSUME NEW a \in Line, NEW m, Written(m, a)
    PROVE  a \in Spellings(m)
<1>1. PICK prefix \in Word, command \in Word :
        \/ m = Message(prefix, command, Empty) /\ a = Opening(prefix, command)
        \/ \E params \in Middles, t, y \in Line :
             /\ Len(params) < MaxParams
             /\ m = Message(prefix, command, Add(params, t))
             /\ (t \in Middle /\ y = t) \/ IsLast(t, y, Len(params))
             /\ a = Opening(prefix, command) ++ Spaced(params) ++ Space ++ y
  BY DEF Written
<1>2. encodeMessage(m) \in Spellings(m)
  BY Zenon DEF Spellings
<1>3. CASE m = Message(prefix, command, Empty) /\ a = Opening(prefix, command)
  BY <1>2, <1>3, EncodeNone
<1>4. CASE \E params \in Middles, t, y \in Line :
             /\ Len(params) < MaxParams
             /\ m = Message(prefix, command, Add(params, t))
             /\ (t \in Middle /\ y = t) \/ IsLast(t, y, Len(params))
             /\ a = Opening(prefix, command) ++ Spaced(params) ++ Space ++ y
  <2>1. PICK params \in Middles, t \in Line, y \in Line :
          /\ Len(params) < MaxParams
          /\ m = Message(prefix, command, Add(params, t))
          /\ (t \in Middle /\ y = t) \/ IsLast(t, y, Len(params))
          /\ a = Opening(prefix, command) ++ Spaced(params) ++ Space ++ y
    BY <1>4
  <2> DEFINE before == Opening(prefix, command) ++ Spaced(params) ++ Space
  <2>2. params \in WordList
    BY MiddleFacts
  <2>3. before = Opening(prefix, command) ++ Spaced(params) ++ Space
    OBVIOUS
  <2>4. a = before ++ y
    BY <2>1
  <2> HIDE DEF before
  <2>5. /\ PrefixText(m) ++ m.command ++ MiddleText(m) ++ Space = before
        /\ encodeMessage(m) = before ++ (Colon ++ t)
        /\ Last(m.params) = t /\ m.params # Empty
        /\ Len(m.params) = Len(params) + 1
    BY <2>1, <2>2, <2>3, EncodeSome
  <2>6. CASE y = Colon ++ t
    BY <1>2, <2>5, <2>4, <2>6
  <2>7. CASE y = t /\ (IsMiddle(t) \/ (t # Empty /\ Head(t) # ":" /\ Head(t) # " " /\ Len(params) + 1 = MaxParams))
    <3> DEFINE last == Last(m.params)
               rest == Len(m.params) = MaxParams /\ last # <<>> /\ Head(last) \notin {":", " "}
    <3>1. IsMiddle(last) \/ rest
      BY <2>5, <2>7 DEF Empty
    <3>2. PrefixText(m) \o m.command \o MiddleText(m) \o Space \o last = a
      BY <2>5, <2>4, <2>7, Zenon DEF ++
    <3>3. m.params # <<>>
      BY <2>5 DEF Empty
    <3>4. PrefixText(m) \o m.command \o MiddleText(m) \o Space \o last \in Spellings(m)
      BY <3>1, <3>3, Zenon DEF Spellings
    <3> QED
      BY <3>2, <3>4, Zenon
  <2> QED
    BY <2>1, <2>6, <2>7, MiddleIsMiddle DEF IsLast
<1> QED
  BY <1>1, <1>3, <1>4

-----------------------------------------------------------------------------
(* What is written is what is read *)

\* A text is a word, and more words with spaces before them.
LEMMA TextWords ==
    \A a \in Line : \E t \in Word, v \in WordList : a = t ++ Spaced(v)
<1> DEFINE T == {a \in Line : \E t \in Word, v \in WordList : a = t ++ Spaced(v)}
<1>1. Empty \in T
  <2>1. Empty ++ Spaced(Empty) = Empty
    BY SpacedStep, Texts, WordsAreLines
  <2> QED
    BY <2>1, Lists, WordsAreLines
<1>2. ASSUME NEW a \in Line, NEW e \in LineChars, a \in T PROVE Add(a, e) \in T
  <2>1. PICK t \in Word, v \in WordList : a = t ++ Spaced(v)
    BY <1>2
  <2>2. t \in Line /\ Spaced(v) \in Line /\ Add(a, e) \in Line
    BY SpacedLine, WordsAreLines
  <2>3. CASE e = " "
    <3>1. Spaced(Add(v, Empty)) = Spaced(v) ++ Space ++ Empty /\ Add(v, Empty) \in WordList
      BY SpacedStep, Lists, WordsAreLines
    <3>2. t ++ (Spaced(v) ++ Space ++ Empty) = a ++ Space ++ Empty
      BY <2>1, <2>2, TextsSpace, WordsAreLines
    <3>3. a ++ Space ++ Empty = Add(a, " ")
      BY Texts, WordsAreLines
    <3>4. Add(a, e) = t ++ Spaced(Add(v, Empty))
      BY <2>3, <3>1, <3>2, <3>3
    <3> QED
      BY <2>2, <3>1, <3>4
  <2>4. CASE e \in WordChars /\ v = Empty
    <3>1. a = t
      BY <2>1, <2>2, <2>4, SpacedStep, Texts
    <3>2. Add(t, e) \in Word /\ Add(t, e) \in Line
      BY <2>4, WordsAreLines
    <3>3. Add(a, e) = Add(t, e) ++ Spaced(v)
      BY <2>4, <3>1, <3>2, SpacedStep, Texts
    <3> QED
      BY <2>2, <3>2, <3>3
  <2>5. CASE e \in WordChars /\ v # Empty
    <3>1. PICK f \in WordList, w \in Word : v = Add(f, w)
      BY <2>5, Lists
    <3>2. Add(w, e) \in Word /\ w \in Line /\ Spaced(f) \in Line /\ Add(f, Add(w, e)) \in WordList
      BY <2>5, SpacedLine, WordsAreLines, Lists
    <3>3. Spaced(Add(f, Add(w, e))) = Spaced(f) ++ Space ++ Add(w, e)
      BY <3>2, SpacedStep
    <3>4. Spaced(f) ++ Space ++ Add(w, e) = Add(Spaced(f) ++ Space ++ w, e)
      BY <3>2, TextsSpace
    <3>5. Spaced(f) ++ Space ++ w = Spaced(v)
      BY <3>1, SpacedStep
    <3>6. Add(a, e) = t ++ Spaced(Add(f, Add(w, e)))
      BY <2>1, <2>2, <3>3, <3>4, <3>5, TextsAdd
    <3> QED
      BY <2>2, <3>2, <3>6
  <2> QED
    BY <2>3, <2>4, <2>5, CharFacts
<1> HIDE DEF T
<1>3. \A a \in Line : a \in T
  BY <1>1, <1>2, LineInduction
<1> QED
  BY <1>3 DEF T

LEMMA ListsJoin ==
    \A u, v \in WordList, w \in Word : u ++ (Add(Empty, w) ++ v) = Add(u, w) ++ v
<1> SUFFICES ASSUME NEW u \in WordList, NEW v \in WordList, NEW w \in Word
             PROVE  u ++ (Add(Empty, w) ++ v) = Add(u, w) ++ v
  OBVIOUS
<1>1. Add(Empty, w) \in WordList
  BY Lists
<1>2. u ++ Add(Empty, w) = Add(u, w)
  BY Lists
<1>3. u ++ (Add(Empty, w) ++ v) = (u ++ Add(Empty, w)) ++ v
  BY <1>1, JoinFacts DEF WordList, ++
<1> QED
  BY <1>2, <1>3

\* The words of the prefix and the command are read as them.
LEMMA OpeningRead ==
    ASSUME NEW prefix \in Word, NEW command \in Word, IsCommand(command)
    PROVE  LET v == Words(Opening(prefix, command))
           IN  v \in WordList /\ Parsed(v) = P("InParam", prefix, command, Empty)
<1>1. command # Empty /\ Head(command) # ":"
  BY DEF IsCommand, Empty, Word
<1>2. CASE prefix = Empty
  <2>1. Words(Opening(prefix, command)) = Add(Empty, command)
    BY <1>2, WordsWord DEF Opening
  <2>2. Parsed(Add(Empty, command)) = ParseWord(Begin, command)
    BY ParsedStep, Lists
  <2>3. ParseWord(Begin, command) = P("InParam", prefix, command, Empty)
    BY <1>1, <1>2, ParseFirst
  <2> QED
    BY <2>1, <2>2, <2>3, Lists
<1>3. CASE prefix # Empty
  <2> DEFINE w == Colon ++ prefix
  <2>1. w \in Word /\ w # Empty /\ Head(w) = ":" /\ Tail(w) = prefix
    BY ColonFacts
  <2>2. Opening(prefix, command) = w ++ Space ++ command
    BY <1>3 DEF Opening
  <2> HIDE DEF w
  <2>3. Words(w ++ Space ++ command) = Add(Empty, w) ++ Add(Empty, command)
    BY <2>1, WordsJoin, WordsWord, WordsAreLines
  <2>4. Add(Empty, w) ++ Add(Empty, command) = Add(Add(Empty, w), command)
    BY <2>1, Lists
  <2>5. Add(Empty, w) \in WordList /\ Add(Add(Empty, w), command) \in WordList
    BY <2>1, Lists
  <2>6. Parsed(Add(Empty, w)) = P("WaitCommand", prefix, Empty, Empty)
    BY <1>3, <2>1, ParsedStep, Lists, ParseFirst
  <2>7. Parsed(Add(Add(Empty, w), command)) = P("InParam", prefix, command, Empty)
    BY <1>1, <2>5, <2>6, ParsedStep, ParseCommand
  <2> QED
    BY <2>2, <2>3, <2>4, <2>5, <2>7
<1> QED
  BY <1>2, <1>3

LEMMA ParamsRead ==
    ASSUME NEW prefix, NEW command, NEW v \in WordList,
           Parsed(v) = P("InParam", prefix, command, Empty)
    PROVE  \A params \in Middles : Len(params) < MaxParams =>
             Parsed(v ++ params) = P("InParam", prefix, command, params)
<1> DEFINE T == {params \in Middles : Len(params) < MaxParams =>
                   Parsed(v ++ params) = P("InParam", prefix, command, params)}
<1>1. Empty \in T
  BY MiddleFacts, Lists
<1>2. ASSUME NEW q \in Middles, NEW w \in Middle, q \in T PROVE Add(q, w) \in T
  <2>1. /\ q \in WordList /\ w \in Word /\ w # Empty /\ Head(w) # ":" /\ Add(q, w) \in Middles
        /\ Len(Add(q, w)) = Len(q) + 1 /\ Len(q) \in Nat
    BY MiddleFacts, AppendFacts DEF WordList, Add
  <2> SUFFICES ASSUME Len(Add(q, w)) < MaxParams
               PROVE  Parsed(v ++ Add(q, w)) = P("InParam", prefix, command, Add(q, w))
    BY <2>1
  <2>2. Len(q) < MaxParams /\ ~(Len(q) + 1 >= MaxParams)
    BY <2>1, ParserAssumption
  <2>3. Parsed(v ++ q) = P("InParam", prefix, command, q)
    BY <1>2, <2>2
  <2> HIDE DEF T
  <2>4. v ++ Add(q, w) = Add(v ++ q, w) /\ v ++ q \in WordList
    BY <2>1, Lists
  <2>5. Parsed(Add(v ++ q, w)) = ParseWord(P("InParam", prefix, command, q), w)
    BY <2>1, <2>3, <2>4, ParsedStep
  <2> QED
    BY <2>1, <2>2, <2>4, <2>5, ParseParam
<1> HIDE DEF T
<1>3. \A q \in Middles : q \in T
  BY <1>1, <1>2, MiddleInduction
<1> QED
  BY <1>3 DEF T

LEMMA TrailingRead ==
    ASSUME NEW prefix, NEW command, NEW params \in WordList, NEW t \in Line, NEW u \in WordList,
           Parsed(u) = P("InTrailing", prefix, command, Add(params, t))
    PROVE  \A v \in WordList :
             Parsed(u ++ v) = P("InTrailing", prefix, command, Add(params, t ++ Spaced(v)))
<1> DEFINE T == {v \in WordList :
             Parsed(u ++ v) = P("InTrailing", prefix, command, Add(params, t ++ Spaced(v)))}
<1>1. Empty \in T
  BY Lists, SpacedStep, Texts
<1>2. ASSUME NEW v \in WordList, NEW w \in Word, v \in T PROVE Add(v, w) \in T
  <2> DEFINE s == t ++ Spaced(v)
  <2>1. Parsed(u ++ v) = P("InTrailing", prefix, command, Add(params, s))
    BY <1>2
  <2>2. s \in Line /\ w \in Line /\ Spaced(v) \in Line
    BY SpacedLine, Texts, WordsAreLines
  <2>3. t ++ Spaced(Add(v, w)) = s ++ Space ++ w
    BY <2>2, SpacedStep, TextsSpace
  <2> HIDE DEF T, s
  <2>4. u ++ Add(v, w) = Add(u ++ v, w) /\ u ++ v \in WordList /\ Add(v, w) \in WordList
    BY Lists
  <2>5. Parsed(Add(u ++ v, w)) = ParseWord(P("InTrailing", prefix, command, Add(params, s)), w)
    BY <2>1, <2>4, ParsedStep
  <2>6. Parsed(u ++ Add(v, w)) = P("InTrailing", prefix, command, Add(params, s ++ Space ++ w))
    BY <2>2, <2>4, <2>5, ParseTrailing
  <2> QED
    BY <2>3, <2>4, <2>6 DEF T
<1> HIDE DEF T
<1>3. \A v \in WordList : v \in T
  BY <1>1, <1>2, ListInduction
<1> QED
  BY <1>3 DEF T

\* A message that has been read is read again from what is written of it.
LEMMA MessageReadBack ==
    ASSUME NEW m, ReadMessage(m)
    PROVE  parseMessage(encodeMessage(m)) = <<m>>
<1>1. PICK prefix \in Word, command \in Word :
        /\ IsCommand(command)
        /\ \/ m = Message(prefix, command, Empty)
           \/ \E params \in Middles, t \in Line :
                Len(params) < MaxParams /\ m = Message(prefix, command, Add(params, t))
  BY DEF ReadMessage
<1> DEFINE v == Words(Opening(prefix, command))
<1>2. v \in WordList /\ Parsed(v) = P("InParam", prefix, command, Empty)
  BY <1>1, OpeningRead
<1>3. ASSUME NEW at, at # "Bad", NEW params, m = Message(prefix, command, params),
             Parsed(Words(encodeMessage(m))) = P(at, prefix, command, params)
      PROVE  parseMessage(encodeMessage(m)) = <<m>>
  <2> DEFINE p == P(at, prefix, command, params)
  <2>1. p.at # "Bad" /\ p.message = m /\ IsCommand(m.command)
    BY <1>1, <1>3, MessageFields DEF P
  <2> HIDE DEF p
  <2>2. Parsed(Words(encodeMessage(m))) = p
    BY <1>3 DEF p
  <2> QED
    BY <2>1, <2>2, Zenon DEF parseMessage
<1>4. CASE m = Message(prefix, command, Empty)
  <2>1. Parsed(Words(encodeMessage(m))) = P("InParam", prefix, command, Empty)
    BY <1>2, <1>4, EncodeNone
  <2> QED
    BY <1>3, <1>4, <2>1
<1>5. CASE \E params \in Middles, t \in Line :
             Len(params) < MaxParams /\ m = Message(prefix, command, Add(params, t))
  <2>1. PICK params \in Middles, t \in Line :
          Len(params) < MaxParams /\ m = Message(prefix, command, Add(params, t))
    BY <1>5
  <2>2. params \in WordList
    BY MiddleFacts
  <2>3. encodeMessage(m) = Opening(prefix, command) ++ Spaced(params) ++ Space ++ (Colon ++ t)
    BY <2>1, <2>2, EncodeSome
  <2>4. PICK w \in Word, more \in WordList : t = w ++ Spaced(more)
    BY TextWords
  <2> DEFINE c == Colon ++ w
  <2>5. c \in Word /\ c # Empty /\ Head(c) = ":" /\ Tail(c) = w /\ c \in Line /\ w \in Line
    BY ColonFacts, WordsAreLines
  <2>6. Colon ++ t = c ++ Spaced(more)
    BY <2>4, <2>5, SpacedLine, TextsJoin, WordsAreLines
  <2> HIDE DEF c
  <2>7. Words(Colon ++ t) = Add(Empty, c) ++ more /\ Colon ++ t \in Line
    <3>1. Words(c ++ Spaced(more)) = Words(c) ++ more /\ Words(c) = Add(Empty, c)
      BY <2>5, WordsSpaced, WordsWord
    <3>2. c ++ Spaced(more) \in Line
      BY <2>5, SpacedLine, Texts
    <3> QED
      BY <2>6, <3>1, <3>2
  <2>8. /\ Opening(prefix, command) ++ Spaced(params) \in Line
        /\ Words(Opening(prefix, command) ++ Spaced(params)) = v ++ params
    BY <2>2, OpeningLine, SpacedLine, Texts, WordsSpaced
  <2> HIDE DEF v
  <2> DEFINE u == v ++ params
  <2>9. Words(encodeMessage(m)) = u ++ (Add(Empty, c) ++ more)
    BY <2>3, <2>7, <2>8, WordsJoin
  <2>10. u \in WordList /\ Parsed(u) = P("InParam", prefix, command, params)
    BY <1>2, <2>1, <2>2, Lists, ParamsRead
  <2> HIDE DEF u
  <2>11. u ++ (Add(Empty, c) ++ more) = Add(u, c) ++ more
    BY <2>5, <2>10, ListsJoin
  <2>12. Parsed(Add(u, c)) = P("InTrailing", prefix, command, Add(params, w))
    <3>1. Parsed(Add(u, c)) = ParseWord(P("InParam", prefix, command, params), c)
      BY <2>5, <2>10, ParsedStep
    <3>2. ParseWord(P("InParam", prefix, command, params), c)
            = P("InTrailing", prefix, command, Add(params, Tail(c)))
      BY <2>2, <2>5, ParseParam
    <3> QED
      BY <2>5, <3>1, <3>2
  <2>13. Parsed(Add(u, c) ++ more) = P("InTrailing", prefix, command, Add(params, w ++ Spaced(more)))
    BY <2>2, <2>5, <2>10, <2>12, Lists, TrailingRead
  <2>14. Parsed(Words(encodeMessage(m))) = P("InTrailing", prefix, command, Add(params, t))
    BY <2>4, <2>9, <2>11, <2>13
  <2> QED
    BY <1>3, <2>1, <2>14
<1> QED
  BY <1>1, <1>4, <1>5


-----------------------------------------------------------------------------
(* A line that is a message is read *)

HasColon(v, k) == v[k] # Empty /\ Head(v[k]) = ":"

CommandAt(v) == IF HasColon(v, 1) THEN 2 ELSE 1

\* The words of a line that is a message: see IsMessageLine.
IsMessageList(v) ==
    LET c == CommandAt(v)
    IN  /\ Len(v) >= c /\ IsCommand(v[c])
        /\ c = 2 => v[1] # Colon
        /\ \A j \in (c + 1)..Len(v) :
             v[j] # Empty \/ j > c + MaxParams \/ \E k \in (c + 1)..(j - 1) : HasColon(v, k)

\* What has been read of them: no trailing parameter yet, or a part of one.
InParams(v) == \E prefix, command \in Word, params \in WordList :
    /\ IsCommand(command)
    /\ Parsed(v) = P("InParam", prefix, command, params)
    /\ Len(params) < MaxParams /\ Len(v) = CommandAt(v) + Len(params)
    /\ \A k \in (CommandAt(v) + 1)..Len(v) : ~HasColon(v, k)

InTrailings(v) == \E prefix, command \in Word, params \in WordList, t \in Line :
    /\ IsCommand(command)
    /\ Parsed(v) = P("InTrailing", prefix, command, Add(params, t))

LEMMA AddElements ==
    \A v \in WordList, w \in Word :
        /\ Len(Add(v, w)) = Len(v) + 1 /\ Len(v) \in Nat
        /\ Add(v, w)[Len(v) + 1] = w
        /\ \A i \in 1..Len(v) : Add(v, w)[i] = v[i] /\ v[i] \in Word
<1> SUFFICES ASSUME NEW v \in WordList, NEW w \in Word
    PROVE /\ Len(Add(v, w)) = Len(v) + 1 /\ Len(v) \in Nat
          /\ Add(v, w)[Len(v) + 1] = w
          /\ \A i \in 1..Len(v) : Add(v, w)[i] = v[i] /\ v[i] \in Word
  OBVIOUS
<1>1. v \in Seq(Word)
  BY DEF WordList
<1>2. Len(v) \in Nat /\ \A i \in 1..Len(v) : v[i] \in Word
  BY <1>1
<1>3. /\ Len(Append(v, w)) = Len(v) + 1 /\ Append(v, w)[Len(v) + 1] = w
      /\ \A i \in 1..Len(v) : Append(v, w)[i] = v[i]
  BY <1>1, AppendProperties
<1> QED
  BY <1>2, <1>3 DEF Add

LEMMA AddFirst ==
    \A w \in Word : /\ Len(Add(Empty, w)) = 1 /\ Add(Empty, w)[1] = w
                    /\ Add(Empty, w) \in WordList
<1> SUFFICES ASSUME NEW w \in Word
    PROVE /\ Len(Add(Empty, w)) = 1 /\ Add(Empty, w)[1] = w /\ Add(Empty, w) \in WordList
  OBVIOUS
<1> DEFINE n == Len(Empty)
<1>1. n = 0 /\ n + 1 = 1
  BY EmptyFacts
<1>2. Len(Add(Empty, w)) = n + 1 /\ Add(Empty, w)[n + 1] = w /\ Add(Empty, w) \in WordList
  BY AddElements, Lists
<1> HIDE DEF n
<1> QED
  BY <1>1, <1>2

LEMMA LenZero == \A v \in WordList : Len(v) = 0 => v = Empty
  BY DEF WordList, Empty

LEMMA LenOne == \A v \in WordList : Len(v) = 1 => v[1] \in Word /\ v = Add(Empty, v[1])
<1> SUFFICES ASSUME NEW v \in WordList, Len(v) = 1
             PROVE  v[1] \in Word /\ v = Add(Empty, v[1])
  OBVIOUS
<1>1. v # Empty
  BY EmptyFacts
<1>2. PICK f \in WordList, w \in Word : v = Add(f, w)
  BY <1>1, Lists
<1>3. Len(f) = 0 /\ v[1] = w
  <2>1. Len(v) = Len(f) + 1 /\ Len(f) \in Nat /\ v[Len(f) + 1] = w
    BY <1>2, AddElements
  <2>2. Len(f) = 0
    BY <2>1
  <2> QED
    BY <2>1, <2>2
<1> QED
  BY <1>2, <1>3, LenZero

LEMMA CommandFacts ==
    \A w \in Word : IsCommand(w) => w # Empty /\ Head(w) # ":"
  BY DEF IsCommand, Empty, Word

LEMMA FirstWord ==
    ASSUME NEW w \in Word, IsCommand(w)
    PROVE  InParams(Add(Empty, w))
<1> DEFINE v == Add(Empty, w)
<1>1. Len(v) = 1 /\ v[1] = w
  BY AddFirst
<1>2. w # Empty /\ Head(w) # ":"
  BY CommandFacts
<1>3. Parsed(v) = P("InParam", Empty, w, Empty)
  BY <1>2, ParsedStep, Lists, ParseFirst
<1> HIDE DEF v
<1>4. CommandAt(v) = 1
  BY <1>1, <1>2 DEF CommandAt, HasColon
<1>5. Len(Empty) < MaxParams /\ Len(Empty) = 0
  BY EmptyFacts, ParserAssumption
<1>6. \A k \in (CommandAt(v) + 1)..Len(v) : ~HasColon(v, k)
  BY <1>1, <1>4
<1>7. Len(v) = CommandAt(v) + Len(Empty)
  BY <1>1, <1>4, <1>5
<1>8. InParams(v)
  BY <1>3, <1>5, <1>6, <1>7, Lists, WordsAreLines, Zenon DEF InParams
<1> QED
  BY <1>8 DEF v

LEMMA SecondWord ==
    ASSUME NEW p \in Word, p # Empty, Head(p) = ":", p # Colon, NEW w \in Word, IsCommand(w)
    PROVE  InParams(Add(Add(Empty, p), w))
<1> DEFINE u == Add(Empty, p)  v == Add(u, w)
<1>1. Len(u) = 1 /\ u[1] = p /\ u \in WordList
  BY AddFirst
<1>2. Tail(p) \in Word /\ Tail(p) # Empty
  <2>1. Tail(p) \in Word /\ p = Colon ++ Tail(p)
    BY ColonFacts
  <2> QED
    BY <2>1, Texts, WordsAreLines
<1>3. Parsed(u) = P("WaitCommand", Tail(p), Empty, Empty)
  BY <1>2, ParsedStep, Lists, ParseFirst
<1> HIDE DEF u
<1>4. Len(v) = 2 /\ v[1] = p
  <2>1. Len(v) = Len(u) + 1 /\ \A i \in 1..Len(u) : v[i] = u[i]
    BY <1>1, AddElements
  <2> HIDE DEF v
  <2> QED
    BY <1>1, <2>1
<1>5. w # Empty
  BY CommandFacts
<1>6. Parsed(v) = P("InParam", Tail(p), w, Empty)
  BY <1>1, <1>3, <1>5, ParsedStep, ParseCommand
<1> HIDE DEF v
<1>7. CommandAt(v) = 2
  BY <1>4 DEF CommandAt, HasColon
<1>8. Len(Empty) < MaxParams /\ Len(Empty) = 0
  BY EmptyFacts, ParserAssumption
<1>9. \A k \in (CommandAt(v) + 1)..Len(v) : ~HasColon(v, k)
  BY <1>4, <1>7
<1>10. Len(v) = CommandAt(v) + Len(Empty)
  BY <1>4, <1>7, <1>8
<1>11. InParams(v)
  BY <1>2, <1>6, <1>8, <1>9, <1>10, Lists, WordsAreLines, Zenon DEF InParams
<1> QED
  BY <1>11 DEF v, u

LEMMA NextParam ==
    ASSUME NEW v \in WordList, NEW w \in Word, Len(v) >= CommandAt(v),
           IsMessageList(Add(v, w)), InParams(v), CommandAt(Add(v, w)) = CommandAt(v)
    PROVE  InParams(Add(v, w)) \/ InTrailings(Add(v, w))
<1>1. PICK prefix \in Word, command \in Word, params \in WordList :
        /\ IsCommand(command)
        /\ Parsed(v) = P("InParam", prefix, command, params)
        /\ Len(params) < MaxParams /\ Len(v) = CommandAt(v) + Len(params)
        /\ \A k \in (CommandAt(v) + 1)..Len(v) : ~HasColon(v, k)
  BY DEF InParams
<1> DEFINE u == Add(v, w)  n == Len(v)  c == CommandAt(v)
<1>2. /\ Len(u) = n + 1 /\ n \in Nat /\ u[n + 1] = w /\ \A i \in 1..n : u[i] = v[i]
      /\ Len(params) \in Nat /\ c \in {1, 2} /\ MaxParams \in Nat
  BY AddElements, ParserAssumption DEF CommandAt, WordList
<1>3. Parsed(u) = ParseWord(P("InParam", prefix, command, params), w)
  BY <1>1, ParsedStep
<1> HIDE DEF u, n, c
<1>4. n = c + Len(params) /\ Len(params) < MaxParams /\ \A k \in (c + 1)..n : ~HasColon(v, k)
  BY <1>1 DEF n, c
<1>5. \A k \in (c + 1)..n : ~HasColon(u, k)
  BY <1>2, <1>4 DEF HasColon
<1>6. w # Empty
  <2>1. n + 1 \in (c + 1)..Len(u) /\ (n + 1) - 1 = n /\ ~(n + 1 > c + MaxParams)
    BY <1>2, <1>4
  <2>2. \A j \in (c + 1)..Len(u) :
          u[j] # Empty \/ j > c + MaxParams \/ \E k \in (c + 1)..(j - 1) : HasColon(u, k)
    BY Zenon DEF IsMessageList, u, c
  <2>3. u[n + 1] # Empty
    BY <1>5, <2>1, <2>2
  <2> QED
    BY <1>2, <2>3
<1>7. CASE Head(w) = ":"
  <2>1. Parsed(u) = P("InTrailing", prefix, command, Add(params, Tail(w)))
    BY <1>3, <1>6, <1>7, ParseParam
  <2>2. Tail(w) \in Line
    BY <1>6, <1>7, ColonFacts, WordsAreLines
  <2>3. InTrailings(u)
    BY <1>1, <2>1, <2>2, Zenon DEF InTrailings
  <2> QED
    BY <2>3 DEF u
<1>8. CASE Head(w) # ":" /\ Len(params) + 1 >= MaxParams
  <2>1. Parsed(u) = P("InTrailing", prefix, command, Add(params, w))
    BY <1>3, <1>6, <1>8, ParseParam
  <2>2. w \in Line
    BY WordsAreLines
  <2>3. InTrailings(u)
    BY <1>1, <2>1, <2>2, Zenon DEF InTrailings
  <2> QED
    BY <2>3 DEF u
<1>9. CASE Head(w) # ":" /\ ~(Len(params) + 1 >= MaxParams)
  <2>1. Parsed(u) = P("InParam", prefix, command, Add(params, w))
    BY <1>3, <1>6, <1>9, ParseParam
  <2>2. Add(params, w) \in WordList /\ Len(Add(params, w)) = Len(params) + 1
    BY Lists, AddElements
  <2>3. Len(Add(params, w)) < MaxParams
    BY <1>2, <1>9, <2>2
  <2>4. CommandAt(u) = c
    BY DEF u, c
  <2>5. Len(u) = CommandAt(u) + Len(Add(params, w))
    BY <1>2, <1>4, <2>2, <2>4
  <2>6. \A k \in (CommandAt(u) + 1)..Len(u) : ~HasColon(u, k)
    <3> SUFFICES ASSUME NEW k \in (c + 1)..(n + 1) PROVE ~HasColon(u, k)
      BY <1>2, <2>4
    <3>1. CASE k = n + 1
      BY <1>2, <1>9, <3>1 DEF HasColon
    <3>2. CASE k # n + 1
      <4>1. k \in (c + 1)..n
        BY <1>2, <3>2
      <4> QED
        BY <1>5, <4>1
    <3> QED
      BY <3>1, <3>2
  <2>7. InParams(u)
    BY <1>1, <2>1, <2>2, <2>3, <2>5, <2>6, Zenon DEF InParams
  <2> QED
    BY <2>7 DEF u
<1> QED
  BY <1>7, <1>8, <1>9

LEMMA ListRead ==
    \A v \in WordList : IsMessageList(v) => InParams(v) \/ InTrailings(v)
<1> DEFINE T == {v \in WordList : IsMessageList(v) => InParams(v) \/ InTrailings(v)}
<1>1. Empty \in T
  <2>1. ~IsMessageList(Empty)
    BY EmptyFacts DEF IsMessageList, CommandAt
  <2> QED
    BY <2>1, Lists
<1>2. ASSUME NEW v \in WordList, NEW w \in Word, v \in T PROVE Add(v, w) \in T
  <2> DEFINE u == Add(v, w)  n == Len(v)  c == CommandAt(u)
  <2> SUFFICES ASSUME IsMessageList(u) PROVE InParams(u) \/ InTrailings(u)
    BY Lists
  <2>1. IsMessageList(v) => InParams(v) \/ InTrailings(v)
    BY <1>2
  <2> HIDE DEF T
  <2>2. /\ Len(u) = n + 1 /\ n \in Nat /\ u[n + 1] = w
        /\ \A i \in 1..n : u[i] = v[i] /\ v[i] \in Word
        /\ c \in {1, 2}
    BY AddElements DEF CommandAt
  <2>3. /\ Len(u) >= c /\ IsCommand(u[c]) /\ (c = 2 => u[1] # Colon)
        /\ \A j \in (c + 1)..Len(u) :
             u[j] # Empty \/ j > c + MaxParams \/ \E k \in (c + 1)..(j - 1) : HasColon(u, k)
    BY Zenon DEF IsMessageList
  <2>4. c = 2 <=> HasColon(u, 1)
    BY DEF CommandAt
  <2> HIDE DEF c
  <2>5. CASE n = 0
    <3>1. v = Empty /\ c = 1
      BY <2>2, <2>3, <2>5, LenZero
    <3>2. IsCommand(w)
      BY <2>2, <2>3, <2>5, <3>1
    <3> QED
      BY <3>1, <3>2, FirstWord
  <2>6. CASE n = 1 /\ c = 2
    <3>1. v[1] \in Word /\ v = Add(Empty, v[1])
      BY <2>2, <2>6, LenOne
    <3>2. HasColon(u, 1) /\ u[1] = v[1] /\ u[1] # Colon /\ IsCommand(w)
      BY <2>2, <2>3, <2>4, <2>6
    <3> QED
      BY <3>1, <3>2, SecondWord DEF HasColon
  <2>7. CASE n # 0 /\ ~(n = 1 /\ c = 2)
    <3>1. n >= c /\ 1 \in 1..n /\ c \in 1..n
      <4>1. n \in Nat /\ (c = 1 \/ c = 2)
        BY <2>2
      <4> HIDE DEF n, u
      <4> QED
        BY <2>7, <4>1
    <3>2. CommandAt(v) = c
      BY <2>2, <3>1 DEF CommandAt, HasColon, c
    <3>3. IsMessageList(v)
      <4>1. IsCommand(v[c]) /\ (c = 2 => v[1] # Colon)
        BY <2>2, <2>3, <3>1
      <4>2. ASSUME NEW j \in (c + 1)..n
            PROVE  v[j] # Empty \/ j > c + MaxParams \/ \E k \in (c + 1)..(j - 1) : HasColon(v, k)
        <5>1. j \in (c + 1)..Len(u) /\ j \in 1..n /\ u[j] = v[j]
          BY <2>2
        <5>2. \A k \in (c + 1)..(j - 1) : HasColon(u, k) <=> HasColon(v, k)
          BY <2>2 DEF HasColon
        <5> QED
          BY <2>3, <5>1, <5>2
      <4> QED
        BY <3>1, <3>2, <4>1, <4>2, Zenon DEF IsMessageList, n
    <3>4. CASE InParams(v)
      <4>1. Len(v) >= CommandAt(v) /\ CommandAt(u) = CommandAt(v)
        BY <3>1, <3>2 DEF c
      <4> QED
        BY <3>4, <4>1, NextParam
    <3>5. CASE InTrailings(v)
      <4>1. PICK prefix \in Word, command \in Word, params \in WordList, t \in Line :
              /\ IsCommand(command)
              /\ Parsed(v) = P("InTrailing", prefix, command, Add(params, t))
        BY <3>5 DEF InTrailings
      <4>2. Parsed(u) = P("InTrailing", prefix, command, Add(params, t ++ Space ++ w))
        BY <4>1, ParsedStep, ParseTrailing
      <4>3. t ++ Space ++ w \in Line
        BY TextsSpace, WordsAreLines
      <4> QED
        BY <4>1, <4>2, <4>3, Zenon DEF InTrailings
    <3> QED
      BY <2>1, <3>3, <3>4, <3>5
  <2> QED
    BY <2>5, <2>6, <2>7
<1> HIDE DEF T
<1>3. \A v \in WordList : v \in T
  BY <1>1, <1>2, ListInduction
<1> QED
  BY <1>3 DEF T

LEMMA MessageLineRead ==
    \A a \in Line : IsMessageLine(a) => parseMessage(a) # Empty
<1> SUFFICES ASSUME NEW a \in Line, IsMessageLine(a) PROVE parseMessage(a) # Empty
  OBVIOUS
<1> DEFINE v == Words(a)  p == Parsed(v)
<1>1. v \in WordList
  BY WordsOf
<1>2. IsMessageList(v)
  BY Zenon DEF IsMessageLine, IsMessageList, CommandAt, HasColon, Empty
<1>3. InParams(v) \/ InTrailings(v)
  BY <1>1, <1>2, ListRead
<1> HIDE DEF v
<1>4. p.at # "Bad" /\ IsCommand(p.message.command)
  <2>1. CASE InParams(v)
    BY <2>1 DEF InParams, P, Message
  <2>2. CASE InTrailings(v)
    BY <2>2 DEF InTrailings, P, Message
  <2> QED
    BY <1>3, <2>1, <2>2
<1>5. parseMessage(a) = <<p.message>>
  BY <1>4, Zenon DEF parseMessage, v
<1> HIDE DEF p
<1> QED
  BY <1>5 DEF Empty

LEMMA EmptyLine == parseMessage(Empty) = Empty
<1>1. Parsed(Words(Empty)) = Bad
  BY WordsStep, ParsedStep, ParseFirst, Lists, WordsAreLines
<1>2. Bad.at = "Bad"
  BY DEF Bad, Begin
<1> QED
  BY <1>1, <1>2, Zenon DEF parseMessage, Empty


-----------------------------------------------------------------------------
(* The lines of what has been sent, and of one more character *)

Sent == Seq(Chars)

Count(s) == Cardinality(LineEnds(s))

Until(s, e) == {d \in LineEnds(s) : d <= e}

\* The character ch ends a line.
IsEnd(s, ch) == ch = "CR" \/ (ch = "LF" /\ (Len(s) = 0 \/ s[Len(s)] # "CR"))

LEMMA SentFacts ==
    \A s \in Sent, ch \in Chars :
        /\ Len(s) \in Nat /\ Add(s, ch) \in Sent
        /\ Len(Add(s, ch)) = Len(s) + 1 /\ Add(s, ch)[Len(s) + 1] = ch
        /\ \A i \in 1..Len(s) : Add(s, ch)[i] = s[i]
  BY AppendProperties DEF Sent, Add

LEMMA EndsFinite ==
    ASSUME NEW s \in Sent
    PROVE  /\ IsFiniteSet(LineEnds(s)) /\ Count(s) \in Nat
           /\ \A e \in LineEnds(s) : e \in 1..Len(s)
           /\ \A e : IsFiniteSet(Until(s, e)) /\ Cardinality(Until(s, e)) \in Nat
<1>1. Len(s) \in Nat
  BY DEF Sent
<1>2. LineEnds(s) \subseteq 1..Len(s)
  BY DEF LineEnds
<1>3. IsFiniteSet(1..Len(s))
  BY <1>1, FS_Interval
<1>4. IsFiniteSet(LineEnds(s))
  BY <1>2, <1>3, FS_Subset
<1>5. \A e : Until(s, e) \subseteq LineEnds(s)
  BY DEF Until
<1>6. \A e : IsFiniteSet(Until(s, e))
  BY <1>4, <1>5, FS_Subset
<1> QED
  BY <1>2, <1>4, <1>6, FS_CardinalityType DEF Count

LEMMA AddEnds ==
    ASSUME NEW s \in Sent, NEW ch \in Chars
    PROVE  /\ IsEnd(s, ch) => LineEnds(Add(s, ch)) = LineEnds(s) \union {Len(s) + 1}
           /\ ~IsEnd(s, ch) => LineEnds(Add(s, ch)) = LineEnds(s)
<1> DEFINE t == Add(s, ch)  n == Len(s)
<1>1. n \in Nat /\ Len(t) = n + 1 /\ t[n + 1] = ch /\ \A i \in 1..n : t[i] = s[i]
  BY SentFacts
<1>2. \A i : i \in LineEnds(t) <=>
        i \in 1..(n + 1) /\ (t[i] = "CR" \/ (t[i] = "LF" /\ (i = 1 \/ t[i - 1] # "CR")))
  BY <1>1 DEF LineEnds
<1>3. \A i : i \in LineEnds(s) <=>
        i \in 1..n /\ (s[i] = "CR" \/ (s[i] = "LF" /\ (i = 1 \/ s[i - 1] # "CR")))
  BY DEF LineEnds
<1>4. IsEnd(s, ch) <=> (ch = "CR" \/ (ch = "LF" /\ (n = 0 \/ s[n] # "CR")))
  BY DEF IsEnd
<1> HIDE DEF t, n
<1>5. \A i \in 1..n : i \in LineEnds(t) <=> i \in LineEnds(s)
  <2> SUFFICES ASSUME NEW i \in 1..n PROVE i \in LineEnds(t) <=> i \in LineEnds(s)
    OBVIOUS
  <2>1. i \in 1..(n + 1) /\ t[i] = s[i] /\ (i = 1 \/ t[i - 1] = s[i - 1])
    BY <1>1
  <2> QED
    BY <1>2, <1>3, <2>1
<1>6. n + 1 \in LineEnds(t) <=> IsEnd(s, ch)
  <2>1. n + 1 \in 1..(n + 1) /\ (n + 1) - 1 = n /\ (n + 1 = 1 <=> n = 0)
        /\ (n # 0 => t[n] = s[n])
    BY <1>1
  <2> QED
    BY <1>1, <1>2, <1>4, <2>1
<1>7. \A i : i \in 1..(n + 1) <=> i \in 1..n \/ i = n + 1
  BY <1>1
<1>8. /\ IsEnd(s, ch) => LineEnds(t) = LineEnds(s) \union {n + 1}
      /\ ~IsEnd(s, ch) => LineEnds(t) = LineEnds(s)
  <2>1. \A i : i \in LineEnds(t) => i \in 1..n \/ i = n + 1
    BY <1>2, <1>7
  <2>2. \A i : i \in LineEnds(s) => i \in 1..n
    BY <1>3
  <2> QED
    BY <1>5, <1>6, <2>1, <2>2
<1> QED
  BY <1>8 DEF t, n

LEMMA AddCount ==
    ASSUME NEW s \in Sent, NEW ch \in Chars
    PROVE  /\ IsEnd(s, ch) => Count(Add(s, ch)) = Count(s) + 1 /\ Len(s) + 1 \in LineEnds(Add(s, ch))
           /\ ~IsEnd(s, ch) => Count(Add(s, ch)) = Count(s)
<1>1. Len(s) + 1 \notin LineEnds(s)
  BY EndsFinite, SentFacts
<1>2. IsEnd(s, ch) => Cardinality(LineEnds(s) \union {Len(s) + 1}) = Cardinality(LineEnds(s)) + 1
  BY <1>1, EndsFinite, FS_AddElement
<1> QED
  BY <1>2, AddEnds DEF Count

\* An end at the last character is the last one.
LEMMA LastEnd ==
    ASSUME NEW s \in Sent, Len(s) \in LineEnds(s)
    PROVE  Ends(s, Count(s)) = {Len(s)} /\ \A k : k # Count(s) => Len(s) \notin Ends(s, k)
<1> DEFINE n == Len(s)
<1>1. n \in Nat /\ n \in LineEnds(s) /\ \A e \in LineEnds(s) : e \in 1..n
  BY EndsFinite, SentFacts DEF Sent
<1>2. Until(s, n) = LineEnds(s)
  BY <1>1 DEF Until
<1>3. \A k, e : e \in Ends(s, k) <=> e \in LineEnds(s) /\ Cardinality(Until(s, e)) = k
  BY DEF Ends, Until
<1>4. \A k : n \in Ends(s, k) <=> k = Count(s)
  BY <1>1, <1>2, <1>3 DEF Count
<1>5. ASSUME NEW e \in LineEnds(s), e # n PROVE Cardinality(Until(s, e)) # Count(s)
  <2>1. e < n
    BY <1>1, <1>5
  <2>2. n \notin Until(s, e) /\ Until(s, e) \subseteq LineEnds(s)
    BY <1>1, <2>1 DEF Until
  <2>3. Until(s, e) # LineEnds(s)
    BY <1>1, <2>2
  <2> QED
    BY <2>2, <2>3, EndsFinite, FS_Subset DEF Count
<1> HIDE DEF n
<1>6. Ends(s, Count(s)) = {n}
  BY <1>3, <1>4, <1>5
<1> QED
  BY <1>4, <1>6 DEF n

LEMMA OldEnds ==
    ASSUME NEW s \in Sent, NEW ch \in Chars, NEW k, IsEnd(s, ch) => k # Count(s) + 1
    PROVE  Ends(Add(s, ch), k) = Ends(s, k)
<1> DEFINE t == Add(s, ch)  n == Len(s)
<1>1. n \in Nat /\ \A e \in LineEnds(s) : e \in 1..n
  BY EndsFinite, SentFacts
<1>2. \A j, e, x : e \in Ends(x, j) <=> e \in LineEnds(x) /\ Cardinality(Until(x, e)) = j
  BY DEF Ends, Until
<1>3. CASE ~IsEnd(s, ch)
  <2>1. LineEnds(t) = LineEnds(s)
    BY <1>3, AddEnds
  <2> QED
    BY <2>1 DEF Ends
<1>4. CASE IsEnd(s, ch)
  <2>1. LineEnds(t) = LineEnds(s) \union {n + 1} /\ t \in Sent /\ Len(t) = n + 1
    BY <1>4, AddEnds, SentFacts
  <2>2. n + 1 \notin Ends(t, k)
    <3>1. Count(t) = Count(s) + 1 /\ n + 1 \in LineEnds(t)
      BY <1>4, AddCount
    <3> HIDE DEF t, n
    <3> QED
      BY <1>4, <2>1, <3>1, LastEnd
  <2> HIDE DEF t, n
  <2>3. \A e \in LineEnds(s) : Until(t, e) = Until(s, e)
    BY <1>1, <2>1 DEF Until
  <2>4. \A e : e \in Ends(t, k) <=> e \in Ends(s, k)
    <3>1. \A e : e \in LineEnds(t) <=> e \in LineEnds(s) \/ e = n + 1
      BY <2>1
    <3>2. n + 1 \notin LineEnds(s)
      BY <1>1
    <3> QED
      BY <1>2, <2>2, <2>3, <3>1, <3>2
  <2>5. Ends(t, k) = Ends(s, k)
    BY <2>4 DEF Ends
  <2> QED
    BY <2>5 DEF t
<1> QED
  BY <1>3, <1>4

\* Every end has its place.
LEMMA EndsCounted ==
    \A s \in Sent : \A k \in 1..Count(s) : Ends(s, k) # {}
<1> DEFINE T == {s \in Sent : \A k \in 1..Count(s) : Ends(s, k) # {}}
<1>1. Empty \in T
  <2>1. LineEnds(Empty) = {}
    BY EmptyFacts DEF LineEnds
  <2>2. Count(Empty) = 0
    BY <2>1, FS_EmptySet DEF Count
  <2> QED
    BY <2>2, EmptyFacts DEF Sent
<1>2. ASSUME NEW s \in Sent, NEW ch \in Chars, s \in T PROVE Add(s, ch) \in T
  <2> DEFINE t == Add(s, ch)
  <2>1. t \in Sent /\ Len(t) = Len(s) + 1 /\ Count(s) \in Nat
    BY SentFacts, EndsFinite
  <2>2. \A k \in 1..Count(s) : Ends(s, k) # {}
    BY <1>2
  <2> HIDE DEF T
  <2>3. CASE ~IsEnd(s, ch)
    <3>1. Count(t) = Count(s)
      BY <2>3, AddCount
    <3>2. \A k : Ends(t, k) = Ends(s, k)
      BY <2>3, OldEnds
    <3> HIDE DEF t
    <3>3. t \in T
      BY <2>1, <2>2, <3>1, <3>2 DEF T
    <3> QED
      BY <3>3 DEF t
  <2>4. CASE IsEnd(s, ch)
    <3>1. Count(t) = Count(s) + 1 /\ Len(t) \in LineEnds(t)
      BY <2>1, <2>4, AddCount
    <3>2. \A k : k # Count(s) + 1 => Ends(t, k) = Ends(s, k)
      BY OldEnds
    <3> HIDE DEF t
    <3>3. Ends(t, Count(t)) = {Len(t)}
      BY <2>1, <3>1, LastEnd
    <3>4. ASSUME NEW k \in 1..Count(t) PROVE Ends(t, k) # {}
      <4>1. CASE k = Count(t)
        BY <3>3, <4>1
      <4>2. CASE k # Count(t)
        <5>1. k \in 1..Count(s) /\ k # Count(s) + 1
          BY <2>1, <3>1, <4>2
        <5> QED
          BY <2>2, <3>2, <5>1
      <4> QED
        BY <4>1, <4>2
    <3>5. t \in T
      BY <2>1, <3>4 DEF T
    <3> QED
      BY <3>5 DEF t
  <2> QED
    BY <2>3, <2>4
<1> HIDE DEF T
<1>3. \A s \in Sent : s \in T
  BY <1>1, <1>2, SequenceInduction DEF Sent, Empty, Add
<1> QED
  BY <1>3 DEF T

LEMMA EndPlace ==
    ASSUME NEW s \in Sent, NEW k \in 1..Count(s)
    PROVE  /\ End(s, k) \in Ends(s, k) /\ End(s, k) \in LineEnds(s) /\ End(s, k) \in 1..Len(s)
           /\ k # Count(s) => End(s, k) # Len(s)
<1>1. Ends(s, k) # {}
  BY EndsCounted
<1>2. End(s, k) \in Ends(s, k)
  BY <1>1, Zenon DEF End
<1>3. End(s, k) \in LineEnds(s)
  BY <1>2 DEF Ends
<1>4. End(s, k) \in 1..Len(s)
  BY <1>3, EndsFinite
<1>5. ASSUME k # Count(s), End(s, k) = Len(s) PROVE FALSE
  BY <1>2, <1>3, <1>5, LastEnd
<1> QED
  BY <1>2, <1>3, <1>4, <1>5


\* A character that goes with the end before it: the LF of a CR LF.
IsSecond(s, ch) == ch = "LF" /\ Len(s) # 0 /\ s[Len(s)] = "CR"

LEMMA AfterFacts ==
    ASSUME NEW s \in Sent, NEW ch \in Chars, NEW e \in 1..Len(s)
    PROVE  /\ After(s, e) \in 2..(Len(s) + 1)
           /\ e # Len(s) => After(Add(s, ch), e) = After(s, e)
           /\ e = Len(s) => After(s, e) = Len(s) + 1
           /\ e = Len(s) /\ ~IsSecond(s, ch) => After(Add(s, ch), e) = Len(s) + 1
           /\ e = Len(s) /\ IsSecond(s, ch) => After(Add(s, ch), e) = Len(s) + 2
<1> DEFINE t == Add(s, ch)  n == Len(s)
<1>1. n \in Nat /\ Len(t) = n + 1 /\ t[n + 1] = ch /\ \A i \in 1..n : t[i] = s[i]
  BY SentFacts
<1>2. IsSecond(s, ch) <=> ch = "LF" /\ n # 0 /\ s[n] = "CR"
  BY DEF IsSecond
<1>3. After(s, e) = IF e < n /\ s[e] = "CR" /\ s[e + 1] = "LF" THEN e + 2 ELSE e + 1
  BY DEF After
<1>4. After(t, e) = IF e < n + 1 /\ t[e] = "CR" /\ t[e + 1] = "LF" THEN e + 2 ELSE e + 1
  BY <1>1 DEF After
<1> HIDE DEF t, n
<1>5. e \in Nat /\ 1 <= e /\ e <= n /\ e \in 1..n
  BY <1>1 DEF n
<1>6. After(s, e) \in 2..(n + 1)
  BY <1>1, <1>3, <1>5
<1>7. CASE e # n
  <2>1. e < n /\ e < n + 1 /\ e + 1 \in 1..n
    BY <1>1, <1>5, <1>7
  <2>2. t[e] = s[e] /\ t[e + 1] = s[e + 1]
    BY <1>1, <1>5, <2>1
  <2>3. After(t, e) = After(s, e)
    BY <1>3, <1>4, <2>1, <2>2
  <2> QED
    BY <1>6, <1>7, <2>3 DEF t, n
<1>8. CASE e = n
  <2>1. ~(e < n) /\ e < n + 1 /\ n # 0 /\ t[e] = s[n] /\ t[e + 1] = ch
    BY <1>1, <1>5, <1>8
  <2>2. After(s, e) = n + 1 /\ (IsSecond(s, ch) => After(t, e) = n + 2)
        /\ (~IsSecond(s, ch) => After(t, e) = n + 1)
    BY <1>2, <1>3, <1>4, <1>8, <2>1
  <2> QED
    BY <1>6, <1>8, <2>2 DEF t, n
<1> QED
  BY <1>7, <1>8

LEMMA StartPlace ==
    ASSUME NEW s \in Sent, NEW k \in 1..(Count(s) + 1)
    PROVE  Start(s, k) \in 1..(Len(s) + 1)
<1>1. Len(s) \in Nat /\ Count(s) \in Nat
  BY EndsFinite DEF Sent
<1>2. CASE k = 1
  BY <1>1, <1>2 DEF Start
<1>3. CASE k # 1
  <2>1. k - 1 \in 1..Count(s)
    BY <1>1, <1>3
  <2>2. End(s, k - 1) \in 1..Len(s)
    BY <2>1, EndPlace
  <2>3. "a" \in Chars
    BY DEF Chars
  <2>4. After(s, End(s, k - 1)) \in 2..(Len(s) + 1)
    BY <2>2, <2>3, AfterFacts
  <2> QED
    BY <1>1, <1>3, <2>4 DEF Start
<1> QED
  BY <1>2, <1>3

LEMMA EndSame ==
    ASSUME NEW s \in Sent, NEW ch \in Chars, NEW k \in 1..Count(s)
    PROVE  End(Add(s, ch), k) = End(s, k)
<1>1. k # Count(s) + 1
  BY EndsFinite
<1>2. Ends(Add(s, ch), k) = Ends(s, k)
  BY <1>1, OldEnds
<1> QED
  BY <1>2 DEF End

LEMMA StartSame ==
    ASSUME NEW s \in Sent, NEW ch \in Chars, NEW k \in 1..(Count(s) + 1),
           k = Count(s) + 1 => ~IsSecond(s, ch)
    PROVE  Start(Add(s, ch), k) = Start(s, k)
<1>1. Len(s) \in Nat /\ Count(s) \in Nat
  BY EndsFinite DEF Sent
<1>2. CASE k = 1
  BY <1>2 DEF Start
<1>3. CASE k # 1
  <2> DEFINE j == k - 1  e == End(s, j)  t == Add(s, ch)
  <2>1. j \in 1..Count(s) /\ (k = Count(s) + 1 <=> j = Count(s))
    BY <1>1, <1>3
  <2>2. Start(s, k) = After(s, e) /\ Start(t, k) = After(t, End(t, j))
    BY <1>3 DEF Start
  <2> HIDE DEF j
  <2>3. End(t, j) = e /\ e \in 1..Len(s) /\ (j # Count(s) => e # Len(s))
    BY <2>1, EndSame, EndPlace
  <2> HIDE DEF e, t
  <2>4. After(t, e) = After(s, e)
    BY <2>1, <2>3, AfterFacts DEF t
  <2> QED
    BY <2>2, <2>3, <2>4 DEF t
<1> QED
  BY <1>2, <1>3

LEMMA PartSame ==
    ASSUME NEW s \in Sent, NEW ch \in Chars, NEW i \in 1..(Len(s) + 1), NEW j \in 0..Len(s)
    PROVE  SubSeq(Add(s, ch), i, j) = SubSeq(s, i, j)
<1> DEFINE t == Add(s, ch)
<1>1. /\ Len(s) \in Nat /\ t \in Sent /\ Len(t) = Len(s) + 1
      /\ \A k \in 1..Len(s) : t[k] = s[k]
  BY SentFacts
<1> HIDE DEF t
<1>2. i \in Int /\ j \in Int /\ \A k \in i..j : k \in 1..Len(s) /\ s[k] \in Chars /\ t[k] = s[k]
  BY <1>1 DEF Sent
<1> DEFINE a == SubSeq(s, i, j)  b == SubSeq(t, i, j)  l == IF i <= j THEN j - i + 1 ELSE 0
<1>3. a \in Seq(Chars) /\ Len(a) = l /\ \A k \in 1..(j - i + 1) : a[k] = s[i + k - 1]
  BY <1>2, SubSeqProperties
<1>4. b \in Seq(Chars) /\ Len(b) = l /\ \A k \in 1..(j - i + 1) : b[k] = t[i + k - 1]
  BY <1>2, SubSeqProperties
<1> HIDE DEF a, b
<1>5. \A k \in 1..Len(a) : a[k] = b[k]
  <2> SUFFICES ASSUME NEW k \in 1..l PROVE a[k] = b[k]
    BY <1>3
  <2>1. k \in 1..(j - i + 1) /\ i + k - 1 \in i..j
    BY <1>2
  <2> QED
    BY <1>2, <1>3, <1>4, <2>1
<1>6. a = b
  BY <1>3, <1>4, <1>5, SeqEqual
<1> QED
  BY <1>6 DEF a, b, t

LEMMA PartAdd ==
    ASSUME NEW s \in Sent, NEW ch \in Chars, NEW i \in 1..(Len(s) + 1)
    PROVE  SubSeq(Add(s, ch), i, Len(s) + 1) = Add(SubSeq(s, i, Len(s)), ch)
<1> DEFINE t == Add(s, ch)  n == Len(s)
<1>1. /\ n \in Nat /\ t \in Seq(Chars) /\ Len(t) = n + 1 /\ t[n + 1] = ch
  BY SentFacts DEF Sent
<1>2. SubSeq(t, i, n) = SubSeq(s, i, n)
  BY <1>1, PartSame
<1>3. i \in 1..Len(t) /\ n + 1 \in i..Len(t) /\ (n + 1) - 1 = n
  BY <1>1
<1> HIDE DEF t
<1>4. SubSeq(t, i, n + 1) = SubSeq(t, i, (n + 1) - 1) \o <<t[n + 1]>>
  BY <1>1, <1>3, SubSeqRecursiveSecond
<1>5. SubSeq(t, i, n + 1) = SubSeq(s, i, n) \o <<ch>>
  BY <1>1, <1>2, <1>3, <1>4, Zenon
<1>6. SubSeq(s, i, n) \in Seq(Chars)
  <2>1. \A k \in i..n : s[k] \in Chars
    BY DEF Sent
  <2>2. i \in Int /\ n \in Int
    BY <1>1
  <2> QED
    BY <2>1, <2>2, SubSeqProperties
<1>7. Append(SubSeq(s, i, n), ch) = SubSeq(s, i, n) \o <<ch>>
  BY <1>6, AppendIsConcat
<1> QED
  BY <1>5, <1>7, Zenon DEF t, n, Add

-----------------------------------------------------------------------------
(* What one more character does to the lines *)

LEMMA LinesDomain ==
    ASSUME NEW s \in Sent
    PROVE  Len(Lines(s)) = Count(s) /\ Count(s) \in Nat
<1>1. Count(s) \in Nat
  BY EndsFinite
<1>2. Lines(s) = [k \in 1..Count(s) |-> SubSeq(s, Start(s, k), End(s, k) - 1)]
  BY DEF Lines, Count
<1> QED
  BY <1>1, <1>2

LEMMA LineIs ==
    ASSUME NEW s \in Sent, NEW k \in 1..Count(s)
    PROVE  Lines(s)[k] = SubSeq(s, Start(s, k), End(s, k) - 1)
  BY DEF Lines, Count

LEMMA LinesSame ==
    ASSUME NEW s \in Sent, NEW ch \in Chars
    PROVE  /\ Count(s) \in Nat /\ Count(Add(s, ch)) \in {Count(s), Count(s) + 1}
           /\ \A k \in 1..Count(s) : Lines(Add(s, ch))[k] = Lines(s)[k]
<1> DEFINE t == Add(s, ch)
<1>1. Count(s) \in Nat /\ (Count(t) = Count(s) \/ Count(t) = Count(s) + 1) /\ t \in Sent
      /\ Len(s) \in Nat
  BY EndsFinite, AddCount, SentFacts
<1>2. ASSUME NEW k \in 1..Count(s) PROVE Lines(t)[k] = Lines(s)[k]
  <2>1. End(t, k) = End(s, k) /\ End(s, k) \in 1..Len(s)
    BY EndSame, EndPlace
  <2>2. k \in 1..(Count(s) + 1) /\ k # Count(s) + 1 /\ k \in 1..Count(t)
    BY <1>1
  <2>3. Start(t, k) = Start(s, k) /\ Start(s, k) \in 1..(Len(s) + 1)
    BY <2>2, StartSame, StartPlace
  <2>4. End(s, k) - 1 \in 0..Len(s)
    BY <1>1, <2>1
  <2>5. SubSeq(t, Start(s, k), End(s, k) - 1) = SubSeq(s, Start(s, k), End(s, k) - 1)
    BY <2>3, <2>4, PartSame
  <2>6. Lines(t)[k] = SubSeq(t, Start(t, k), End(t, k) - 1)
    BY <1>1, <2>2, LineIs
  <2>7. Lines(s)[k] = SubSeq(s, Start(s, k), End(s, k) - 1)
    BY LineIs
  <2> QED
    BY <2>1, <2>3, <2>5, <2>6, <2>7
<1> QED
  BY <1>1, <1>2

\* A character of a line.
LEMMA GrowsBy ==
    ASSUME NEW s \in Sent, NEW ch \in LineChars
    PROVE  /\ Count(Add(s, ch)) = Count(s)
           /\ Unfinished(Add(s, ch)) = Add(Unfinished(s), ch)
<1> DEFINE t == Add(s, ch)  k == Count(s) + 1
<1>1. ch \in Chars /\ ~IsEnd(s, ch) /\ ~IsSecond(s, ch)
  BY DEF LineChars, Newlines, IsEnd, IsSecond
<1>2. Count(t) = Count(s)
  BY <1>1, AddCount
<1>3. k \in 1..(Count(s) + 1)
  BY EndsFinite
<1>4. Start(t, k) = Start(s, k) /\ Start(s, k) \in 1..(Len(s) + 1) /\ Len(t) = Len(s) + 1
  BY <1>1, <1>3, StartSame, StartPlace, SentFacts
<1>5. Unfinished(t) = SubSeq(t, Start(t, k), Len(t)) /\ Unfinished(s) = SubSeq(s, Start(s, k), Len(s))
  BY <1>2 DEF Unfinished, Count
<1>6. SubSeq(t, Start(s, k), Len(s) + 1) = Add(SubSeq(s, Start(s, k), Len(s)), ch)
  BY <1>1, <1>4, PartAdd
<1> HIDE DEF t, k
<1>7. Unfinished(t) = Add(Unfinished(s), ch)
  BY <1>4, <1>5, <1>6
<1> QED
  BY <1>2, <1>7 DEF t

\* The end of a line.
LEMMA EndsLine ==
    ASSUME NEW s \in Sent, NEW ch \in Chars, IsEnd(s, ch)
    PROVE  /\ Count(Add(s, ch)) = Count(s) + 1
           /\ Lines(Add(s, ch))[Count(s) + 1] = Unfinished(s)
           /\ Unfinished(Add(s, ch)) = Empty
<1> DEFINE t == Add(s, ch)  n == Len(s)  k == Count(s) + 1
<1>1. /\ Count(t) = k /\ t \in Sent /\ Len(t) = n + 1 /\ n \in Nat /\ Len(t) \in LineEnds(t)
      /\ Count(s) \in Nat
  BY AddCount, SentFacts, EndsFinite
<1>2. ~IsSecond(s, ch)
  BY DEF IsEnd, IsSecond
<1>3. k \in 1..(Count(s) + 1) /\ k \in 1..Count(t)
  BY <1>1
<1>4. Start(t, k) = Start(s, k) /\ Start(s, k) \in 1..(n + 1)
  BY <1>2, <1>3, StartSame, StartPlace
<1>5. Unfinished(s) = SubSeq(s, Start(s, k), n)
  BY DEF Unfinished, Count
<1> HIDE DEF k, n
<1>6. SubSeq(t, Start(s, k), n) = SubSeq(s, Start(s, k), n)
  <2>1. n \in 0..Len(s) /\ Start(s, k) \in 1..(Len(s) + 1)
    BY <1>1, <1>4 DEF n
  <2> QED
    BY <2>1, PartSame
<1> HIDE DEF t
<1>7. End(t, k) = Len(t)
  <2>1. Ends(t, Count(t)) = {Len(t)}
    BY <1>1, LastEnd
  <2> QED
    BY <1>1, <2>1 DEF End
<1>8. End(t, k) - 1 = n
  BY <1>1, <1>7
<1>9. Lines(t)[k] = Unfinished(s)
  <2>1. Lines(t)[k] = SubSeq(t, Start(t, k), End(t, k) - 1)
    BY <1>1, <1>3, LineIs
  <2> QED
    BY <1>4, <1>5, <1>6, <1>8, <2>1
<1>10. Unfinished(t) = Empty
  <2>1. Unfinished(t) = SubSeq(t, Start(t, k + 1), Len(t))
    BY <1>1 DEF Unfinished, Count
  <2>2. k \in Nat /\ k # 0 /\ k + 1 # 1 /\ (k + 1) - 1 = k
    BY <1>1 DEF k
  <2>3. Start(t, k + 1) = After(t, Len(t))
    BY <1>7, <2>2 DEF Start
  <2>4. After(t, Len(t)) = Len(t) + 1
    BY <1>1 DEF After
  <2>5. SubSeq(t, Len(t) + 1, Len(t)) = Empty
    BY <1>1, SubSeqEmpty DEF Empty
  <2> QED
    BY <2>1, <2>3, <2>4, <2>5
<1> QED
  BY <1>1, <1>9, <1>10 DEF t, k

\* The LF that goes with a CR.
LEMMA EndsSecond ==
    ASSUME NEW s \in Sent, NEW ch \in Chars, IsSecond(s, ch)
    PROVE  Count(Add(s, ch)) = Count(s) /\ Unfinished(Add(s, ch)) = Empty
<1> DEFINE t == Add(s, ch)  n == Len(s)  c == Count(s)
<1>1. ~IsEnd(s, ch)
  BY DEF IsEnd, IsSecond
<1>2. Count(t) = c /\ t \in Sent /\ Len(t) = n + 1 /\ n \in Nat /\ c \in Nat
  BY <1>1, AddCount, SentFacts, EndsFinite
<1>3. n # 0 /\ s[n] = "CR"
  BY DEF IsSecond
<1>4. n \in LineEnds(s)
  BY <1>2, <1>3 DEF LineEnds
<1>5. Ends(s, c) = {n}
  BY <1>4, LastEnd
<1>6. End(s, c) = n
  BY <1>5 DEF End
<1>7. c # 0
  <2>1. LineEnds(s) # {}
    BY <1>4
  <2> QED
    BY <2>1, EndsFinite, FS_EmptySet DEF Count
<1>8. c \in 1..Count(s)
  BY <1>2, <1>7
<1>9. End(t, c) = n
  BY <1>6, <1>8, EndSame
<1>10. After(t, n) = n + 2
  <2>1. n \in 1..Len(s)
    BY <1>2, <1>3
  <2> QED
    BY <2>1, AfterFacts
<1> HIDE DEF t, n, c
<1>11. Unfinished(t) = SubSeq(t, Start(t, c + 1), n + 1)
  BY <1>2 DEF Unfinished, Count
<1>12. Start(t, c + 1) = n + 2
  <2>1. c + 1 # 1 /\ (c + 1) - 1 = c
    BY <1>2, <1>7
  <2> QED
    BY <1>9, <1>10, <2>1 DEF Start
<1>13. SubSeq(t, n + 2, n + 1) = Empty
  <2>1. n + 1 \in Int /\ n + 2 \in Int /\ n + 1 < n + 2
    BY <1>2
  <2> QED
    BY <2>1, SubSeqEmpty DEF Empty
<1>14. Unfinished(t) = Empty
  BY <1>11, <1>12, <1>13
<1> QED
  BY <1>2, <1>14 DEF t, c


-----------------------------------------------------------------------------
(* The parser *)

\* The messages d are those of the first lines of s.
ReadSoFar(s, d) ==
    /\ Len(d) <= Count(s)
    /\ \A i \in 1..Len(d) : Lines(s)[i] \in Line /\ parseMessage(Lines(s)[i]) = <<d[i]>>

\* What the parser may give up on: see OnlyBadInputFails.
BadInput(s) ==
    \/ \E i \in 1..Len(Lines(s)) : ~IsMessageLine(Lines(s)[i])
    \/ \E i \in 1..(Len(s) - 1) : s[i] = "CR" /\ s[i + 1] # "LF"
    \/ Len(Unfinished(s)) > BufferSizeThreshold

EndsInCR(s) == Len(s) # 0 /\ s[Len(s)] = "CR"

\* While the parser has not given up, it has read every line, and the buffer is
\* the one that is not complete.
UpToDate ==
    ~failed =>
        /\ state # "Error"
        /\ buffer = Unfinished(input) /\ Len(buffer) <= BufferSizeThreshold
        /\ Len(delivered) = Count(input)
        /\ state = "WaitLf" <=> EndsInCR(input)

Inv ==
    /\ TypeOK
    /\ UpToDate
    /\ ReadSoFar(input, delivered)
    /\ failed => BadInput(input)

LEMMA TypeIs ==
    TypeOK <=>
        /\ input \in Sent
        /\ state \in {"None", "InLine", "WaitLf", "Error"}
        /\ buffer \in Line
        /\ Len(buffer) <= BufferSizeThreshold + 1
        /\ state \in {"None", "WaitLf"} => buffer = Empty
        /\ delivered \in Seq(Messages)
        /\ failed \in BOOLEAN
  BY Zenon DEF TypeOK, Sent, Line, LineChars, Empty

LEMMA ReadGrows ==
    ASSUME NEW s \in Sent, NEW ch \in Chars, NEW d \in Seq(Messages), ReadSoFar(s, d)
    PROVE  ReadSoFar(Add(s, ch), d)
<1> DEFINE t == Add(s, ch)
<1>1. /\ Count(s) \in Nat /\ Count(t) \in {Count(s), Count(s) + 1} /\ Len(d) \in Nat
      /\ \A k \in 1..Count(s) : Lines(t)[k] = Lines(s)[k]
  BY LinesSame
<1>2. /\ Len(d) <= Count(s)
      /\ \A i \in 1..Len(d) : Lines(s)[i] \in Line /\ parseMessage(Lines(s)[i]) = <<d[i]>>
  BY DEF ReadSoFar
<1> HIDE DEF t
<1>3. Len(d) <= Count(t) /\ \A i \in 1..Len(d) : i \in 1..Count(s)
  BY <1>1, <1>2
<1>4. ReadSoFar(t, d)
  BY <1>1, <1>2, <1>3, Zenon DEF ReadSoFar
<1> QED
  BY <1>4 DEF t

LEMMA ReadNext ==
    ASSUME NEW s \in Sent, NEW ch \in Chars, IsEnd(s, ch),
           NEW d \in Seq(Messages), ReadSoFar(s, d), Len(d) = Count(s),
           Unfinished(s) \in Line, NEW m \in Messages, parseMessage(Unfinished(s)) = <<m>>
    PROVE  /\ ReadSoFar(Add(s, ch), Append(d, m))
           /\ Len(Append(d, m)) = Count(Add(s, ch))
<1> DEFINE t == Add(s, ch)  e == Append(d, m)  n == Len(d)
<1>1. /\ n \in Nat /\ Len(e) = n + 1 /\ e[n + 1] = m /\ \A i \in 1..n : e[i] = d[i]
  BY AppendProperties
<1>2. /\ n = Count(s) /\ Count(t) = n + 1
      /\ \A k \in 1..n : Lines(t)[k] = Lines(s)[k]
      /\ Lines(t)[n + 1] = Unfinished(s)
  BY LinesSame, EndsLine
<1>3. \A i \in 1..n : Lines(s)[i] \in Line /\ parseMessage(Lines(s)[i]) = <<d[i]>>
  BY DEF ReadSoFar
<1> HIDE DEF t, e, n
<1>4. ASSUME NEW i \in 1..(n + 1)
      PROVE  Lines(t)[i] \in Line /\ parseMessage(Lines(t)[i]) = <<e[i]>>
  <2>1. CASE i = n + 1
    BY <1>1, <1>2, <2>1
  <2>2. CASE i # n + 1
    <3>1. i \in 1..n
      BY <1>1, <2>2
    <3> QED
      BY <1>1, <1>2, <1>3, <3>1
  <2> QED
    BY <2>1, <2>2
<1>5. ReadSoFar(t, e) /\ Len(e) = Count(t)
  <2>1. Len(e) = Count(t) /\ Len(e) <= Count(t) /\ Len(e) = n + 1
    BY <1>1, <1>2
  <2> QED
    BY <1>4, <2>1 DEF ReadSoFar
<1> QED
  BY <1>5 DEF t, e

LEMMA BadLine ==
    ASSUME NEW s \in Sent, NEW ch \in Chars, IsEnd(s, ch),
           Unfinished(s) \in Line, parseMessage(Unfinished(s)) = Empty
    PROVE  BadInput(Add(s, ch))
<1> DEFINE t == Add(s, ch)  k == Count(s) + 1
<1>1. Lines(t)[k] = Unfinished(s) /\ Count(t) = k /\ Count(s) \in Nat /\ t \in Sent
  BY EndsLine, LinesSame, SentFacts
<1>2. ~IsMessageLine(Unfinished(s))
  BY MessageLineRead
<1> HIDE DEF t
<1>3. k \in 1..Len(Lines(t))
  BY <1>1, LinesDomain
<1> HIDE DEF k
<1>4. BadInput(t)
  BY <1>1, <1>2, <1>3 DEF BadInput
<1> QED
  BY <1>4 DEF t

LEMMA MessageTyped ==
    ASSUME NEW m, ReadMessage(m)
    PROVE  m \in Messages
<1>1. PICK prefix \in Word, command \in Word :
           \/ m = Message(prefix, command, Empty)
           \/ \E params \in Middles, t \in Line : m = Message(prefix, command, Add(params, t))
  BY DEF ReadMessage
<1>2. \A a \in Line : a \in Seq(Chars)
  <2>1. LineChars \subseteq Chars
    BY DEF LineChars
  <2> QED
    BY <2>1, SeqMonotonic DEF Line
<1>3. prefix \in Seq(Chars) /\ command \in Seq(Chars)
  BY <1>2, WordsAreLines
<1>4. \A x \in Seq(Seq(Chars)) : Message(prefix, command, x) \in Messages
  BY <1>3 DEF Message, Messages
<1>5. Empty \in Seq(Seq(Chars))
  BY EmptyFacts
<1>6. \A params \in Middles, t \in Line : Add(params, t) \in Seq(Seq(Chars))
  <2> SUFFICES ASSUME NEW params \in Middles, NEW t \in Line
               PROVE  Add(params, t) \in Seq(Seq(Chars))
    OBVIOUS
  <2>1. Middle \subseteq Seq(Chars)
    BY <1>2, MiddleFacts, WordsAreLines
  <2>2. params \in Seq(Seq(Chars))
    BY <2>1, SeqMonotonic DEF Middles
  <2> QED
    BY <1>2, <2>2, AppendFacts DEF Add
<1> QED
  BY <1>1, <1>4, <1>5, <1>6

LEMMA LineRead ==
    ASSUME NEW a \in Line
    PROVE  parseMessage(a) = Empty \/ \E m \in Messages : parseMessage(a) = <<m>>
  BY MessageRead, MessageTyped

LEMMA InitInv == Init => Inv
<1> SUFFICES ASSUME Init PROVE Inv
  OBVIOUS
<1>1. input = Empty /\ state = "None" /\ buffer = Empty /\ delivered = Empty /\ failed = FALSE
  BY DEF Init, Empty
<1>2. /\ Empty \in Sent /\ Empty \in Line /\ Empty \in Seq(Messages) /\ Len(Empty) = 0
  BY EmptyFacts DEF Sent, Line
<1>3. TypeOK
  <2>1. Len(buffer) <= BufferSizeThreshold + 1
    BY <1>1, <1>2, ParserAssumption
  <2> QED
    BY <1>1, <1>2, <2>1, TypeIs
<1>4. Count(Empty) = 0
  <2>1. LineEnds(Empty) = {}
    BY <1>2 DEF LineEnds
  <2> QED
    BY <2>1, FS_EmptySet DEF Count
<1>5. Unfinished(Empty) = Empty
  <2>1. Start(Empty, 0 + 1) = 1
    BY DEF Start
  <2>2. Unfinished(Empty) = SubSeq(Empty, 1, 0)
    BY <1>2, <1>4, <2>1 DEF Unfinished, Count
  <2> QED
    BY <2>2, SubSeqEmpty DEF Empty
<1>6. UpToDate
  BY <1>1, <1>2, <1>4, <1>5, ParserAssumption DEF UpToDate, EndsInCR
<1>7. ReadSoFar(input, delivered)
  BY <1>1, <1>2, <1>4 DEF ReadSoFar
<1> QED
  BY <1>1, <1>3, <1>6, <1>7 DEF Inv


LEMMA TypeIsPrime ==
    TypeOK' <=>
        /\ input' \in Sent
        /\ state' \in {"None", "InLine", "WaitLf", "Error"}
        /\ buffer' \in Line
        /\ Len(buffer') <= BufferSizeThreshold + 1
        /\ state' \in {"None", "WaitLf"} => buffer' = Empty
        /\ delivered' \in Seq(Messages)
        /\ failed' \in BOOLEAN
  BY Zenon DEF TypeOK, Sent, Line, LineChars, Empty

\* What holds before a character, and what it ends.
LEMMA Before ==
    ASSUME Inv, NEW ch \in Chars, Receive(ch)
    PROVE  /\ input \in Sent /\ input' = Add(input, ch) /\ input' \in Sent
           /\ buffer \in Line /\ Len(buffer) <= BufferSizeThreshold
           /\ buffer = Unfinished(input) /\ Len(delivered) = Count(input)
           /\ delivered \in Seq(Messages) /\ ReadSoFar(input, delivered)
           /\ state \in {"None", "WaitLf"} => buffer = Empty
           /\ state # "WaitLf" /\ ch \in Newlines => IsEnd(input, ch)
           /\ state = "WaitLf" <=> EndsInCR(input)
           /\ EndsInCR(Add(input, ch)) <=> ch = "CR"
<1>1. ~failed /\ input' = Add(input, ch)
  BY DEF Receive, Add
<1>2. /\ input \in Sent /\ buffer \in Line /\ delivered \in Seq(Messages)
      /\ state \in {"None", "WaitLf"} => buffer = Empty
      /\ ReadSoFar(input, delivered)
  BY TypeIs DEF Inv
<1>3. /\ buffer = Unfinished(input) /\ Len(buffer) <= BufferSizeThreshold
      /\ Len(delivered) = Count(input)
      /\ state = "WaitLf" <=> EndsInCR(input)
  BY <1>1 DEF Inv, UpToDate
<1>4. input' \in Sent
  BY <1>1, <1>2, SentFacts
<1>5. state # "WaitLf" /\ ch \in Newlines => IsEnd(input, ch)
  BY <1>3 DEF IsEnd, EndsInCR, Newlines
<1>6. EndsInCR(Add(input, ch)) <=> ch = "CR"
  <2>1. Len(Add(input, ch)) = Len(input) + 1 /\ Len(input) \in Nat
        /\ Add(input, ch)[Len(input) + 1] = ch
    BY <1>2, SentFacts
  <2>2. Len(input) + 1 # 0
    BY <2>1
  <2> QED
    BY <2>1, <2>2 DEF EndsInCR
<1> QED
  BY <1>1, <1>2, <1>3, <1>4, <1>5, <1>6

\* The parser gives up.
LEMMA GivesUp ==
    ASSUME Inv, NEW ch \in Chars, Receive(ch), failed' = TRUE, delivered' = delivered,
           buffer' \in Line, Len(buffer') <= BufferSizeThreshold + 1,
           state' = "Error" \/ state' = "InLine", BadInput(input')
    PROVE  Inv'
<1>1. input' = Add(input, ch) /\ input \in Sent /\ input' \in Sent
      /\ delivered \in Seq(Messages) /\ ReadSoFar(input, delivered)
  BY Before
<1>2. TypeOK'
  BY <1>1, TypeIsPrime
<1>3. ReadSoFar(input', delivered')
  BY <1>1, ReadGrows
<1>4. UpToDate'
  BY DEF UpToDate
<1> QED
  BY <1>2, <1>3, <1>4 DEF Inv

\* A character of the line.
LEMMA AppendStep ==
    ASSUME Inv, NEW ch \in Chars, Receive(ch), ch \notin Newlines, state # "WaitLf", AppendChar(ch),
           failed' => (state' = "Error" \/ state' = "InLine"), ~failed' => state' = "InLine"
    PROVE  Inv'
<1>1. /\ input \in Sent /\ input' = Add(input, ch) /\ input' \in Sent
      /\ buffer \in Line /\ Len(buffer) <= BufferSizeThreshold
      /\ buffer = Unfinished(input) /\ Len(delivered) = Count(input)
      /\ delivered \in Seq(Messages) /\ ReadSoFar(input, delivered)
      /\ EndsInCR(Add(input, ch)) <=> ch = "CR"
  BY Before
<1>2. ch \in LineChars /\ ch # "CR"
  BY DEF LineChars, Newlines
<1>3. /\ buffer' = Add(buffer, ch) /\ delivered' = delivered
      /\ failed' = (Len(buffer') > BufferSizeThreshold)
  BY Zenon DEF AppendChar, Add
<1>4. Count(input') = Count(input) /\ Unfinished(input') = buffer'
  BY <1>1, <1>2, <1>3, GrowsBy
<1>5. buffer' \in Line /\ Len(buffer') = Len(buffer) + 1 /\ Len(buffer) \in Nat
  BY <1>1, <1>2, <1>3, AppendFacts DEF Line, Add
<1>6. Len(buffer') <= BufferSizeThreshold + 1 /\ Len(buffer') \in Nat
  BY <1>1, <1>5, ParserAssumption
<1>7. CASE Len(buffer') > BufferSizeThreshold
  <2>1. failed' = TRUE
    BY <1>3, <1>7
  <2>2. BadInput(input')
    BY <1>4, <1>7 DEF BadInput
  <2> QED
    BY <1>3, <1>5, <1>6, <2>1, <2>2, GivesUp
<1>8. CASE ~(Len(buffer') > BufferSizeThreshold)
  <2>1. failed' = FALSE /\ state' = "InLine"
    <3> DEFINE long == Len(buffer') > BufferSizeThreshold
    <3>1. failed' = FALSE
      <4>1. failed' = long /\ long = FALSE
        BY <1>3, <1>8
      <4> HIDE DEF long
      <4> QED
        BY <4>1
    <3> QED
      BY <3>1
  <2>2. Len(buffer') <= BufferSizeThreshold
    BY <1>6, <1>8, ParserAssumption
  <2>3. TypeOK'
    BY <1>1, <1>3, <1>5, <1>6, <2>1, TypeIsPrime
  <2>4. ReadSoFar(input', delivered')
    BY <1>1, <1>3, ReadGrows
  <2>5. UpToDate'
    BY <1>1, <1>2, <1>3, <1>4, <2>1, <2>2 DEF UpToDate
  <2> QED
    BY <2>1, <2>3, <2>4, <2>5 DEF Inv
<1> QED
  BY <1>7, <1>8

\* The end of a line.
LEMMA EndStep ==
    ASSUME Inv, NEW ch \in Newlines, Receive(ch), state = "InLine", EndLine(ch)
    PROVE  Inv'
<1>1. ch \in Chars /\ (ch = "CR" \/ ch = "LF")
  BY DEF Chars, Newlines
<1>2. /\ input \in Sent /\ input' = Add(input, ch) /\ input' \in Sent
      /\ buffer \in Line /\ buffer = Unfinished(input) /\ Len(delivered) = Count(input)
      /\ delivered \in Seq(Messages) /\ ReadSoFar(input, delivered)
      /\ IsEnd(input, ch)
      /\ EndsInCR(Add(input, ch)) <=> ch = "CR"
  BY <1>1, Before
<1>3. /\ buffer' = Empty
      /\ delivered' = delivered \o parseMessage(buffer)
      /\ failed' = (parseMessage(buffer) = Empty)
  BY Zenon DEF EndLine, Empty
<1>4. state' = CASE parseMessage(buffer) = <<>> -> "Error"
                [] parseMessage(buffer) # <<>> /\ ch = "CR" -> "WaitLf"
                [] parseMessage(buffer) # <<>> /\ ch = "LF" -> state
  BY Zenon DEF EndLine
<1>5. /\ parseMessage(buffer) = Empty => state' = "Error"
      /\ parseMessage(buffer) # Empty /\ ch = "CR" => state' = "WaitLf"
      /\ parseMessage(buffer) # Empty /\ ch = "LF" => state' = "InLine"
  BY <1>4, Zenon DEF Empty
<1>6. Empty \in Line /\ Len(Empty) <= BufferSizeThreshold /\ Len(Empty) <= BufferSizeThreshold + 1
  BY EmptyFacts, ParserAssumption DEF Line
<1>7. CASE parseMessage(buffer) = Empty
  <2>1. delivered' = delivered
    BY <1>2, <1>3, <1>7, EmptyFacts
  <2>2. BadInput(input')
    BY <1>1, <1>2, <1>7, BadLine
  <2> QED
    BY <1>1, <1>3, <1>5, <1>6, <1>7, <2>1, <2>2, GivesUp
<1>8. CASE parseMessage(buffer) # Empty
  <2>1. PICK m \in Messages : parseMessage(buffer) = <<m>>
    BY <1>2, <1>8, LineRead
  <2>2. delivered' = Append(delivered, m) /\ failed' = FALSE
    BY <1>2, <1>3, <1>8, <2>1, AppendIsConcat
  <2>3. ReadSoFar(input', delivered') /\ Len(delivered') = Count(input')
    BY <1>1, <1>2, <2>1, <2>2, ReadNext
  <2>4. Unfinished(input') = Empty
    BY <1>1, <1>2, EndsLine
  <2>5. delivered' \in Seq(Messages)
    BY <1>2, <2>2, AppendProperties
  <2>6. state' \in {"WaitLf", "InLine"} /\ (state' = "WaitLf" <=> ch = "CR")
    BY <1>1, <1>5, <1>8
  <2>7. TypeOK'
    BY <1>2, <1>3, <1>6, <2>2, <2>5, <2>6, TypeIsPrime
  <2>8. UpToDate'
    BY <1>2, <1>3, <1>6, <2>2, <2>3, <2>4, <2>6 DEF UpToDate
  <2> QED
    BY <2>2, <2>3, <2>7, <2>8 DEF Inv
<1> QED
  BY <1>7, <1>8

LEMMA NoneStep ==
    ASSUME Inv, NEW ch \in Chars, Receive(ch), None(ch)
    PROVE  Inv'
<1>1. /\ input \in Sent /\ input' = Add(input, ch)
      /\ buffer = Unfinished(input) /\ buffer = Empty
      /\ ch \in Newlines => IsEnd(input, ch)
  BY Before DEF None
<1>2. CASE ch \in Newlines
  <2>1. state' = "Error" /\ failed' = TRUE /\ buffer' = buffer /\ delivered' = delivered
    BY <1>2 DEF None, Fail
  <2>2. Empty \in Line /\ Len(Empty) <= BufferSizeThreshold + 1
    BY EmptyFacts, ParserAssumption DEF Line
  <2>3. BadInput(input')
    BY <1>1, <1>2, <2>2, EmptyLine, BadLine
  <2> QED
    BY <1>1, <2>1, <2>2, <2>3, GivesUp
<1>3. CASE ch \notin Newlines
  <2>1. AppendChar(ch) /\ state' = (IF failed' THEN "Error" ELSE "InLine") /\ state # "WaitLf"
    BY <1>3 DEF None
  <2> QED
    BY <1>3, <2>1, AppendStep
<1> QED
  BY <1>2, <1>3

LEMMA InLineStep ==
    ASSUME Inv, NEW ch \in Chars, Receive(ch), InLine(ch)
    PROVE  Inv'
<1>1. CASE ch \in Newlines
  BY <1>1, EndStep DEF InLine
<1>2. CASE ch \notin Newlines
  <2>1. AppendChar(ch) /\ state' = "InLine" /\ state # "WaitLf"
    BY <1>2 DEF InLine
  <2> QED
    BY <1>2, <2>1, AppendStep
<1> QED
  BY <1>1, <1>2

LEMMA WaitLfStep ==
    ASSUME Inv, NEW ch \in Chars, Receive(ch), WaitLf(ch)
    PROVE  Inv'
<1>1. /\ input \in Sent /\ input' = Add(input, ch) /\ input' \in Sent
      /\ buffer \in Line /\ Len(buffer) <= BufferSizeThreshold
      /\ buffer = Unfinished(input) /\ Len(delivered) = Count(input)
      /\ delivered \in Seq(Messages) /\ ReadSoFar(input, delivered)
      /\ buffer = Empty /\ EndsInCR(input)
      /\ EndsInCR(Add(input, ch)) <=> ch = "CR"
  BY Before DEF WaitLf
<1>2. Len(buffer) <= BufferSizeThreshold + 1
  BY <1>1, EmptyFacts, ParserAssumption
<1>3. CASE ch = "LF"
  <2>1. state' = "None" /\ buffer' = buffer /\ delivered' = delivered /\ failed' = failed /\ ~failed
    BY <1>3 DEF WaitLf, Receive
  <2>2. IsSecond(input, ch)
    BY <1>1, <1>3 DEF IsSecond, EndsInCR
  <2>3. Count(input') = Count(input) /\ Unfinished(input') = Empty
    BY <1>1, <2>2, EndsSecond
  <2>4. failed \in BOOLEAN
    BY TypeIs DEF Inv
  <2>5. TypeOK'
    BY <1>1, <1>2, <2>1, <2>4, TypeIsPrime
  <2>6. UpToDate'
    BY <1>1, <1>3, <2>1, <2>3 DEF UpToDate
  <2>7. ReadSoFar(input', delivered')
    BY <1>1, <2>1, ReadGrows
  <2> QED
    BY <2>1, <2>5, <2>6, <2>7 DEF Inv
<1>4. CASE ch # "LF"
  <2>1. state' = "Error" /\ failed' = TRUE /\ buffer' = buffer /\ delivered' = delivered
    BY <1>4 DEF WaitLf, Fail
  <2>2. BadInput(input')
    <3> DEFINE n == Len(input)  t == Add(input, ch)
    <3>1. /\ Len(t) = n + 1 /\ n \in Nat /\ n # 0 /\ input[n] = "CR" /\ t[n + 1] = ch
          /\ \A i \in 1..n : t[i] = input[i]
      BY <1>1, SentFacts DEF EndsInCR
    <3> HIDE DEF n, t
    <3>2. n \in 1..(Len(t) - 1) /\ t[n] = "CR" /\ t[n + 1] # "LF"
      BY <1>4, <3>1
    <3>3. BadInput(t)
      BY <3>2 DEF BadInput
    <3> QED
      BY <1>1, <3>3 DEF t
  <2> QED
    BY <1>1, <1>2, <2>1, <2>2, GivesUp
<1> QED
  BY <1>3, <1>4

LEMMA NextInv == Inv /\ [Next]_vars => Inv'
<1> SUFFICES ASSUME Inv, [Next]_vars PROVE Inv'
  OBVIOUS
<1>1. ASSUME NEW ch \in Chars, Receive(ch) PROVE Inv'
  <2>1. None(ch) \/ InLine(ch) \/ WaitLf(ch)
    BY <1>1 DEF Receive
  <2> QED
    BY <1>1, <2>1, NoneStep, InLineStep, WaitLfStep
<1>2. CASE UNCHANGED vars
  <2>1. /\ input' = input /\ state' = state /\ buffer' = buffer
        /\ delivered' = delivered /\ failed' = failed
    BY <1>2 DEF vars
  <2> QED
    BY <2>1 DEF Inv, TypeOK, UpToDate
<1> QED
  BY <1>1, <1>2 DEF Next, Rest

LEMMA Invariance == Spec => []Inv
<1>1. Init => Inv
  BY InitInv
<1>2. Inv /\ [Next]_vars => Inv'
  BY NextInv
<1> QED
  BY <1>1, <1>2, PTL DEF Spec

LEMMA ReadIsWritten ==
    ASSUME NEW a \in Line, NEW m, parseMessage(a) = <<m>>
    PROVE  /\ WellFormed(m) /\ a \in Spellings(m)
           /\ parseMessage(encodeMessage(m)) = <<m>>
<1>1. parseMessage(a) # Empty
  BY DEF Empty
<1>2. PICK w : parseMessage(a) = <<w>> /\ ReadMessage(w) /\ Written(w, a)
  BY <1>1, MessageRead
<1>3. w = m
  BY <1>2
<1> QED
  BY <1>2, <1>3, MessageWellFormed, MessageSpelled, MessageReadBack

\* The buffer of IrcParser holds characters of one line, and at most one more
\* than BufferSizeThreshold of them; between lines it is empty.
THEOREM ParserTyped == Spec => []TypeOK
<1>1. Inv => TypeOK
  BY DEF Inv
<1> QED
  BY <1>1, Invariance, PTL

\* For every input: the messages IrcParser calls back are those of its lines,
\* one each and in order, as long as it has not given up.
THEOREM LinesCorrect == Spec => []LinesAreMessages
<1>1. Inv => LinesAreMessages
  <2> SUFFICES ASSUME Inv PROVE LinesAreMessages
    OBVIOUS
  <2>1. input \in Sent
    BY TypeIs DEF Inv
  <2>2. Len(Lines(input)) = Count(input)
    BY <2>1, LinesDomain
  <2>3. ReadSoFar(input, delivered) /\ (~failed => Len(delivered) = Count(input))
    BY DEF Inv, UpToDate
  <2>4. ASSUME NEW i \in 1..Len(delivered)
        PROVE  WellFormed(delivered[i]) /\ Lines(input)[i] \in Spellings(delivered[i])
    <3>1. Lines(input)[i] \in Line /\ parseMessage(Lines(input)[i]) = <<delivered[i]>>
      BY <2>3 DEF ReadSoFar
    <3> QED
      BY <3>1, ReadIsWritten
  <2> QED
    BY <2>2, <2>3, <2>4 DEF LinesAreMessages, ReadSoFar
<1> QED
  BY <1>1, Invariance, PTL

\* For every input: IrcParser gives up only on a line that is no message, a CR
\* without its LF, or a line of more than BufferSizeThreshold characters.
THEOREM FailuresCorrect == Spec => []OnlyBadInputFails
<1>1. Inv => OnlyBadInputFails
  BY DEF Inv, BadInput, OnlyBadInputFails
<1> QED
  BY <1>1, Invariance, PTL

\* For every input: what encodeMessage makes of a message that IrcParser has
\* called back is parsed as that message.
THEOREM EncodingCorrect == Spec => []EncodingReadBack
<1>1. Inv => EncodingReadBack
  <2> SUFFICES ASSUME Inv, NEW i \in 1..Len(delivered)
               PROVE  parseMessage(encodeMessage(delivered[i])) = <<delivered[i]>>
    BY DEF EncodingReadBack
  <2>1. Lines(input)[i] \in Line /\ parseMessage(Lines(input)[i]) = <<delivered[i]>>
    BY DEF Inv, ReadSoFar
  <2> QED
    BY <2>1, ReadIsWritten
<1> QED
  BY <1>1, Invariance, PTL
=============================================================================
