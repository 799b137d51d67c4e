---------------------------- MODULE SequenceLemmas ----------------------------
(***************************************************************************)
(* Facts about sequences that several proofs need: induction over the      *)
(* natural numbers in the form of a set, FlattenSeq, and ascending         *)
(* sequences of numbers.                                                   *)
(***************************************************************************)
EXTENDS Integers, Sequences, SequencesExt, SequenceTheorems,
        WellFoundedInduction, TLAPS

-----------------------------------------------------------------------------
(* Induction over the set of the numbers that have a property.             *)

Less == {p \in Nat \X Nat : p[1] < p[2]}

LEMMA LessWellFounded == IsWellFoundedOn(Less, Nat)
BY NatLessThanWellFounded DEF Less, OpToRel

\* A set of natural numbers that has 0 and with every number the next has all.
LEMMA SetInduction ==
    ASSUME NEW T \in SUBSET Nat, 0 \in T, \A n \in T : n + 1 \in T
    PROVE  T = Nat
<1> SUFFICES ASSUME Nat \ T # {} PROVE FALSE
  OBVIOUS
<1>1. PICK x \in Nat \ T : \A y \in Nat \ T : ~ (<<y, x>> \in Less)
  <2>1. Nat \ T \subseteq Nat
    OBVIOUS
  <2> QED BY <2>1, LessWellFounded, WFMin
<1>2. x \in Nat /\ x # 0
  OBVIOUS
<1>3. x - 1 \in Nat /\ x - 1 < x /\ x = (x - 1) + 1
  BY <1>2
<1>4. <<x - 1, x>> \in Less
  BY <1>2, <1>3 DEF Less
<1>5. x - 1 \in T
  BY <1>1, <1>3, <1>4
<1> QED BY <1>3, <1>5

-----------------------------------------------------------------------------
(* Appending and concatenating.                                            *)

\* The parentheses of three do not matter.
Associates(x, y, z) == (x \o y) \o z = x \o (y \o z)

LEMMA ConcatAssociates ==
    ASSUME NEW S, NEW x \in Seq(S), NEW y \in Seq(S), NEW z \in Seq(S)
    PROVE  Associates(x, y, z)
BY ConcatAssociative DEF Associates

\* push_back to the last of three vectors is push_back to their concatenation.
PushesLast(r, f, p, x) == r \o f \o Append(p, x) = Append(r \o f \o p, x)

LEMMA AppendToThird ==
    ASSUME NEW S, NEW r \in Seq(S), NEW f \in Seq(S), NEW p \in Seq(S), NEW x \in S
    PROVE  PushesLast(r, f, p, x)
<1>1. PICK g \in Seq(S) : g = r \o f
  BY ConcatProperties
<1>2. PICK h \in Seq(S), e \in Seq(S) : h = g \o p /\ e = <<x>>
  <2>1. g \o p \in Seq(S)
    BY ConcatProperties
  <2>2. <<x>> \in Seq(S)
    OBVIOUS
  <2> QED BY ONLY <2>1, <2>2
<1>3. Append(p, x) = p \o e /\ Append(h, x) = h \o e
  BY <1>2, AppendIsConcat
<1>4. Associates(g, p, e)
  BY ConcatAssociates
<1> QED
  BY ONLY <1>1, <1>2, <1>3, <1>4 DEF Associates, PushesLast

\* Moving the head of the second of three vectors to the end of the first does
\* not change their concatenation.
LEMMA MoveHead ==
    ASSUME NEW S, NEW r \in Seq(S), NEW f \in Seq(S), f # <<>>
    PROVE  Append(r, Head(f)) \o Tail(f) = r \o f
<1>1. Head(f) \in S /\ Tail(f) \in Seq(S) /\ f = <<Head(f)>> \o Tail(f)
  OBVIOUS
<1>2. Append(r, Head(f)) = r \o <<Head(f)>> /\ <<Head(f)>> \in Seq(S)
  BY <1>1, AppendIsConcat
<1>3. Associates(r, <<Head(f)>>, Tail(f))
  BY <1>1, <1>2, ConcatAssociates
<1> QED
  BY ONLY <1>1, <1>2, <1>3 DEF Associates

\* The numbers 1 .. n and the next one.
LEMMA NextNumber ==
    ASSUME NEW n \in Nat
    PROVE  Append([i \in 1 .. n |-> i], n + 1) = [i \in 1 .. n + 1 |-> i]
OBVIOUS

\* Numbers up to n are numbers up to n + 1.
LEMMA NumbersGrow ==
    ASSUME NEW n \in Nat, NEW s \in Seq(1 .. n)
    PROVE  s \in Seq(1 .. n + 1)
<1>1. 1 .. n \subseteq 1 .. n + 1
  OBVIOUS
<1> QED
  BY <1>1, SeqMonotonic

-----------------------------------------------------------------------------
(* Sequences without repetitions.                                          *)

\* The elements of a typed sequence have the type.
LEMMA ElementsInType ==
    ASSUME NEW S, NEW s \in Seq(S)
    PROVE  ToSet(s) \subseteq S
BY DEF ToSet

\* Appending a new element adds it to the elements, and keeps the sequence
\* free of repetitions: push_back in append() and in Swap.
LEMMA AppendDistinct ==
    ASSUME NEW S, NEW s \in Seq(S), NEW e \in S
    PROVE  /\ Append(s, e) \in Seq(S)
           /\ Len(Append(s, e)) = Len(s) + 1
           /\ ToSet(Append(s, e)) = ToSet(s) \cup {e}
           /\ IsInjective(s) /\ e \notin ToSet(s) => IsInjective(Append(s, e))
<1>1. /\ Append(s, e) \in Seq(S)
      /\ Len(Append(s, e)) = Len(s) + 1
      /\ \A i \in 1 .. Len(s) + 1 : Append(s, e)[i] = IF i <= Len(s) THEN s[i] ELSE e
  OBVIOUS
<1>2. DOMAIN s = 1 .. Len(s) /\ DOMAIN Append(s, e) = 1 .. Len(s) + 1 /\ Len(s) \in Nat
  BY <1>1
<1>3. ToSet(Append(s, e)) = ToSet(s) \cup {e}
  <2>1. ToSet(Append(s, e)) \subseteq ToSet(s) \cup {e}
    BY <1>1, <1>2 DEF ToSet
  <2>2. \A i \in 1 .. Len(s) : s[i] = Append(s, e)[i] /\ i \in 1 .. Len(s) + 1
    BY <1>1, <1>2
  <2>3. e = Append(s, e)[Len(s) + 1] /\ Len(s) + 1 \in 1 .. Len(s) + 1
    BY <1>1, <1>2
  <2> QED
    BY <2>1, <2>2, <2>3, <1>2 DEF ToSet
<1>4. ASSUME IsInjective(s), e \notin ToSet(s)
      PROVE  IsInjective(Append(s, e))
  BY <1>1, <1>2, <1>4 DEF ToSet, IsInjective
<1> QED
  BY <1>1, <1>3, <1>4

\* A segment has some of the elements, and none of them twice: erase() and
\* resize() of the taken buffers.
LEMMA SubSeqDistinct ==
    ASSUME NEW S, NEW s \in Seq(S), NEW m \in 1 .. Len(s) + 1, NEW n \in 0 .. Len(s)
    PROVE  /\ SubSeq(s, m, n) \in Seq(S)
           /\ Len(SubSeq(s, m, n)) = IF m <= n THEN n - m + 1 ELSE 0
           /\ \A i \in 1 .. Len(SubSeq(s, m, n)) : SubSeq(s, m, n)[i] = s[m + i - 1]
           /\ ToSet(SubSeq(s, m, n)) \subseteq ToSet(s)
           /\ IsInjective(s) => IsInjective(SubSeq(s, m, n))
<1>1. /\ SubSeq(s, m, n) \in Seq(S)
      /\ Len(SubSeq(s, m, n)) = IF m <= n THEN n - m + 1 ELSE 0
      /\ \A i \in 1 .. Len(SubSeq(s, m, n)) : SubSeq(s, m, n)[i] = s[m + i - 1]
  <2>1. \A i \in m .. n : s[i] \in S
    OBVIOUS
  <2> QED
    BY <2>1, SubSeqProperties
<1>2. \A i \in 1 .. Len(SubSeq(s, m, n)) : m + i - 1 \in 1 .. Len(s)
  BY <1>1
<1> QED
  BY <1>1, <1>2 DEF ToSet, IsInjective

-----------------------------------------------------------------------------
(* FlattenSeq.  Concats(s, n, f): f[i] is the concatenation of s[1] .. s[i],  *)
(* for i up to n.                                                          *)

Concats(s, n, f) == \A i \in 1 .. n : f[i] = IF i = 1 THEN s[i] ELSE f[i - 1] \o s[i]

\* The function that FlattenSeq is defined with exists, and is unique.
LEMMA ConcatsExist ==
    ASSUME NEW S, NEW s \in Seq(Seq(S))
    PROVE  \E f \in [1 .. Len(s) -> Seq(S)] : Concats(s, Len(s), f)
<1> DEFINE T == {n \in Nat : n <= Len(s) => \E f \in [1 .. n -> Seq(S)] : Concats(s, n, f)}
<1>0. Len(s) \in Nat
  OBVIOUS
<1>1. 0 \in T
  <2>1. [i \in 1 .. 0 |-> <<>>] \in [1 .. 0 -> Seq(S)]
    OBVIOUS
  <2>2. Concats(s, 0, [i \in 1 .. 0 |-> <<>>])
    BY DEF Concats
  <2> QED BY <2>1, <2>2
<1>2. ASSUME NEW n \in T PROVE n + 1 \in T
  <2>0. n \in Nat /\ n + 1 \in Nat
    OBVIOUS
  <2> SUFFICES ASSUME n + 1 <= Len(s)
               PROVE  \E f \in [1 .. n + 1 -> Seq(S)] : Concats(s, n + 1, f)
    BY <2>0
  <2>1. n <= Len(s) /\ n + 1 \in 1 .. Len(s)
    BY <1>0, <2>0
  <2>2. PICK f \in [1 .. n -> Seq(S)] : Concats(s, n, f)
    BY <2>1
  <2> HIDE DEF T
  <2> DEFINE x == IF n = 0 THEN s[n + 1] ELSE f[n] \o s[n + 1]
  <2> DEFINE g == [i \in 1 .. n + 1 |-> IF i <= n THEN f[i] ELSE x]
  <2>3. s[n + 1] \in Seq(S) /\ (n # 0 => f[n] \in Seq(S))
    BY <2>0, <2>1
  <2>4. n # 0 => f[n] \o s[n + 1] \in Seq(S)
    BY <2>3, ConcatProperties
  <2>5. x \in Seq(S)
    BY <2>3, <2>4
  <2>6. Concats(s, n + 1, g)
    <3> SUFFICES ASSUME NEW i \in 1 .. n + 1
                 PROVE  g[i] = IF i = 1 THEN s[i] ELSE g[i - 1] \o s[i]
      BY DEF Concats
    <3>1. CASE i <= n
      <4>1. i \in 1 .. n /\ g[i] = f[i] /\ (i # 1 => g[i - 1] = f[i - 1])
        BY <2>0, <3>1
      <4>2. f[i] = IF i = 1 THEN s[i] ELSE f[i - 1] \o s[i]
        BY <2>2, <4>1 DEF Concats
      <4> QED BY <4>1, <4>2
    <3>2. CASE i = n + 1
      <4>1. g[n + 1] = x /\ (n # 0 => g[n] = f[n])
        BY <2>0
      <4> QED BY <2>0, <3>2, <4>1
    <3> QED BY <2>0, <3>1, <3>2
  <2>7. g \in [1 .. n + 1 -> Seq(S)]
    <3> HIDE DEF x
    <3>1. \A i \in 1 .. n + 1 : i <= n => f[i] \in Seq(S)
      BY <2>0
    <3> QED BY <2>5, <3>1
  <2> QED BY <2>6, <2>7
<1>3. T = Nat
  <2>1. T \in SUBSET Nat
    OBVIOUS
  <2> HIDE DEF T
  <2> QED BY <1>1, <1>2, <2>1, SetInduction
<1>4. Len(s) \in T
  BY <1>0, <1>3
<1> QED BY <1>4

Agree(s, t, n) == \A i \in 1 .. n : s[i] = t[i]

LEMMA ConcatsUnique ==
    ASSUME NEW n \in Nat, NEW s, NEW f, Concats(s, n, f),
           NEW m \in Nat, NEW t, NEW g, Concats(t, m, g),
           n <= m, Agree(s, t, n)
    PROVE  Agree(f, g, n)
<1> DEFINE T == {k \in Nat : k \in 1 .. n => f[k] = g[k]}
<1>1. 0 \in T
  OBVIOUS
<1>2. ASSUME NEW k \in T PROVE k + 1 \in T
  <2>0. k \in Nat /\ k + 1 \in Nat
    OBVIOUS
  <2> SUFFICES ASSUME k + 1 \in 1 .. n PROVE f[k + 1] = g[k + 1]
    BY <2>0
  <2>1. k + 1 \in 1 .. m /\ s[k + 1] = t[k + 1] /\ (k + 1) - 1 = k
    BY <2>0 DEF Agree
  <2>2. k + 1 # 1 => f[k] = g[k]
    BY <2>0
  <2>3. f[k + 1] = IF k + 1 = 1 THEN s[k + 1] ELSE f[(k + 1) - 1] \o s[k + 1]
    BY DEF Concats
  <2>4. g[k + 1] = IF k + 1 = 1 THEN t[k + 1] ELSE g[(k + 1) - 1] \o t[k + 1]
    BY <2>1 DEF Concats
  <2> QED BY <2>1, <2>2, <2>3, <2>4
<1>3. T = Nat
  <2>1. T \in SUBSET Nat
    OBVIOUS
  <2> HIDE DEF T
  <2> QED BY <1>1, <1>2, <2>1, SetInduction
<1> QED BY <1>3 DEF Agree

LEMMA FlattenUnfold ==
    ASSUME NEW S, NEW s \in Seq(Seq(S)), s # <<>>
    PROVE  \E f \in [1 .. Len(s) -> Seq(S)] : Concats(s, Len(s), f) /\ FlattenSeq(s) = f[Len(s)]
<1> DEFINE Def(f) == [i \in 1 .. Len(s) |-> IF i = 1 THEN s[i] ELSE f[i - 1] \o s[i]]
<1> DEFINE h == CHOOSE f : f = Def(f)
<1>1. PICK f \in [1 .. Len(s) -> Seq(S)] : Concats(s, Len(s), f)
  BY ConcatsExist
<1>2. f = Def(f)
  BY <1>1 DEF Concats
<1>3. FlattenSeq(s) = h[Len(s)]
  <2>1. Len(s) # 0
    OBVIOUS
  <2> QED BY <2>1 DEF FlattenSeq
<1>4. h = Def(h)
  <2> HIDE DEF Def
  <2> QED BY <1>2
<1> HIDE DEF h
<1>5. Concats(s, Len(s), h)
  <2>1. \A i \in 1 .. Len(s) : Def(h)[i] = IF i = 1 THEN s[i] ELSE h[i - 1] \o s[i]
    OBVIOUS
  <2> QED BY ONLY <1>4, <2>1 DEF Concats
<1>6. Len(s) \in Nat /\ Len(s) \in 1 .. Len(s)
  OBVIOUS
<1>7. h[Len(s)] = f[Len(s)]
  <2>1. Agree(s, s, Len(s))
    BY DEF Agree
  <2>2. Agree(h, f, Len(s))
    BY <1>1, <1>5, <1>6, <2>1, ConcatsUnique
  <2> QED BY <1>6, <2>2 DEF Agree
<1> QED BY <1>1, <1>3, <1>7

LEMMA FlattenEmpty == FlattenSeq(<<>>) = <<>>
BY DEF FlattenSeq

LEMMA FlattenType ==
    ASSUME NEW S, NEW s \in Seq(Seq(S))
    PROVE  FlattenSeq(s) \in Seq(S)
<1>1. CASE s = <<>>
  <2>1. FlattenSeq(s) = <<>>
    BY <1>1, FlattenEmpty, Zenon
  <2> QED BY <2>1
<1>2. CASE s # <<>>
  <2>1. Len(s) \in 1 .. Len(s)
    BY <1>2
  <2>2. PICK f \in [1 .. Len(s) -> Seq(S)] : FlattenSeq(s) = f[Len(s)]
    BY <1>2, FlattenUnfold
  <2> QED BY <2>1, <2>2
<1> QED BY <1>1, <1>2

LEMMA FlattenAppend ==
    ASSUME NEW S, NEW s \in Seq(Seq(S)), NEW x \in Seq(S)
    PROVE  FlattenSeq(Append(s, x)) = FlattenSeq(s) \o x
<1> DEFINE t == Append(s, x)  n == Len(s)
<1>1. /\ t \in Seq(Seq(S)) /\ t # <<>> /\ Len(t) = n + 1 /\ n \in Nat
      /\ \A i \in 1 .. n : t[i] = s[i]
      /\ t[n + 1] = x
  BY AppendProperties
<1> HIDE DEF t
<1>2. PICK g \in [1 .. n + 1 -> Seq(S)] : Concats(t, n + 1, g) /\ FlattenSeq(t) = g[n + 1]
  BY <1>1, FlattenUnfold
<1>3. g[n + 1] = IF n + 1 = 1 THEN x ELSE g[n] \o x
  <2>1. n + 1 \in 1 .. n + 1 /\ (n + 1) - 1 = n
    BY <1>1
  <2>2. g[n + 1] = IF n + 1 = 1 THEN t[n + 1] ELSE g[(n + 1) - 1] \o t[n + 1]
    BY <1>2, <2>1 DEF Concats
  <2> QED BY <1>1, <2>1, <2>2
<1>4. CASE s = <<>>
  <2>1. n = 0
    BY <1>4
  <2>2. FlattenSeq(s) = <<>>
    BY <1>4, FlattenEmpty, Zenon
  <2>3. <<>> \o x = x
    BY ConcatEmptySeq
  <2>4. FlattenSeq(t) = x
    BY <1>2, <1>3, <2>1
  <2> QED BY <2>2, <2>3, <2>4 DEF t
<1>5. CASE s # <<>>
  <2>1. n # 0 /\ n \in 1 .. n /\ n + 1 # 1
    BY <1>5
  <2>2. PICK f \in [1 .. n -> Seq(S)] : Concats(s, n, f) /\ FlattenSeq(s) = f[n]
    BY <1>5, FlattenUnfold
  <2>3. f[n] = g[n]
    <3>1. PICK m \in Nat : m = n + 1
      BY <1>1
    <3>2. Concats(t, m, g) /\ n <= m /\ n \in Nat /\ Agree(s, t, n)
      BY <1>1, <1>2, <3>1 DEF Agree
    <3>3. Agree(f, g, n)
      <4> HIDE DEF n
      <4> QED BY <2>2, <3>1, <3>2, ConcatsUnique
    <3> QED BY <2>1, <3>3 DEF Agree
  <2>4. FlattenSeq(t) = f[n] \o x
    BY <1>2, <1>3, <2>1, <2>3
  <2> QED BY <2>2, <2>4 DEF t
<1> QED BY <1>4, <1>5

\* The first n + 1 elements are the first n and the next.
LEMMA CutGrows ==
    ASSUME NEW S, NEW s \in Seq(S), NEW n \in Nat, n + 1 \in 1 .. Len(s)
    PROVE  SubSeq(s, 1, n) \in Seq(S) /\ SubSeq(s, 1, n + 1) = Append(SubSeq(s, 1, n), s[n + 1])
<1>1. /\ SubSeq(s, 1, n) \in Seq(S) /\ Len(SubSeq(s, 1, n)) = n
      /\ \A i \in 1 .. n : SubSeq(s, 1, n)[i] = s[i]
  BY SubSeqProperties
<1>2. /\ SubSeq(s, 1, n + 1) \in Seq(S) /\ Len(SubSeq(s, 1, n + 1)) = n + 1
      /\ \A i \in 1 .. n + 1 : SubSeq(s, 1, n + 1)[i] = s[i]
  BY SubSeqProperties
<1> DEFINE a == SubSeq(s, 1, n)  b == SubSeq(s, 1, n + 1)  e == s[n + 1]
<1>3. e \in S
  OBVIOUS
<1>4. \A i \in 1 .. n + 1 : b[i] = Append(a, e)[i]
  BY <1>1, <1>2
<1>5. Append(a, e) \in Seq(S) /\ Len(Append(a, e)) = n + 1
  BY <1>1, <1>3, AppendProperties
<1> HIDE DEF a, b, e
<1>6. b = Append(a, e)
  BY <1>2, <1>4, <1>5, SeqEqual DEF b
<1> QED BY <1>1, <1>6 DEF a, b, e

\* FlattenSeq of a concatenation, of one sequence, and from the front.
LEMMA FlattenConcat ==
    ASSUME NEW S, NEW s \in Seq(Seq(S)), NEW t \in Seq(Seq(S))
    PROVE  FlattenSeq(s \o t) = FlattenSeq(s) \o FlattenSeq(t)
<1> DEFINE Cut(n) == SubSeq(t, 1, n)
<1> DEFINE T == {n \in Nat : n <= Len(t) =>
                     FlattenSeq(s \o Cut(n)) = FlattenSeq(s) \o FlattenSeq(Cut(n))}
<1>0. Len(t) \in Nat
  OBVIOUS
<1>1. 0 \in T
  <2>1. Cut(0) = <<>> /\ s \o <<>> = s
    BY ConcatEmptySeq
  <2>2. FlattenSeq(s) \o <<>> = FlattenSeq(s)
    BY FlattenType, ConcatEmptySeq
  <2>3. FlattenSeq(s \o Cut(0)) = FlattenSeq(s) \o FlattenSeq(Cut(0))
    BY <2>1, <2>2, FlattenEmpty, Zenon
  <2> QED BY <2>3
<1>2. ASSUME NEW n \in T PROVE n + 1 \in T
  <2>0. n \in Nat /\ n + 1 \in Nat
    OBVIOUS
  <2> SUFFICES ASSUME n + 1 <= Len(t)
               PROVE  FlattenSeq(s \o Cut(n + 1)) = FlattenSeq(s) \o FlattenSeq(Cut(n + 1))
    BY <2>0
  <2>1. n + 1 \in 1 .. Len(t) /\ t[n + 1] \in Seq(S)
    BY <1>0, <2>0
  <2>2. FlattenSeq(s \o Cut(n)) = FlattenSeq(s) \o FlattenSeq(Cut(n))
    BY <2>0, <2>1
  <2>3. Cut(n) \in Seq(Seq(S)) /\ Cut(n + 1) = Append(Cut(n), t[n + 1])
    BY ONLY t \in Seq(Seq(S)), <2>0, <2>1, CutGrows DEF Cut
  <2> HIDE DEF T, Cut
  <2>4. s \o Cut(n + 1) = Append(s \o Cut(n), t[n + 1]) /\ s \o Cut(n) \in Seq(Seq(S))
    <3> DEFINE Q == Seq(S)  c == Cut(n)  e == t[n + 1]
    <3>1. s \in Seq(Q) /\ c \in Seq(Q) /\ e \in Q /\ <<e>> \in Seq(Q)
      BY <2>1, <2>3
    <3>3. s \o c \in Seq(Q)
      BY <3>1, ConcatProperties
    <3> HIDE DEF Q, c, e
    <3>2. s \o Append(c, e) = Append(s \o c, e)
      <4>1. Append(c, e) = c \o <<e>> /\ Append(s \o c, e) = (s \o c) \o <<e>>
        BY ONLY <3>1, <3>3, AppendIsConcat
      <4>2. Associates(s, c, <<e>>)
        BY ONLY <3>1, ConcatAssociates
      <4> QED BY ONLY <4>1, <4>2 DEF Associates
    <3> QED BY <2>3, <3>2, <3>3 DEF Q, c, e
  <2>5. FlattenSeq(s \o Cut(n + 1)) = FlattenSeq(s \o Cut(n)) \o t[n + 1]
    BY <2>1, <2>4, FlattenAppend
  <2>6. FlattenSeq(Cut(n + 1)) = FlattenSeq(Cut(n)) \o t[n + 1]
    BY <2>1, <2>3, FlattenAppend
  <2>7. (FlattenSeq(s) \o FlattenSeq(Cut(n))) \o t[n + 1]
            = FlattenSeq(s) \o (FlattenSeq(Cut(n)) \o t[n + 1])
    <3> DEFINE a == FlattenSeq(s)  b == FlattenSeq(Cut(n))  c == t[n + 1]
    <3>1. a \in Seq(S) /\ b \in Seq(S) /\ c \in Seq(S)
      BY <2>1, <2>3, FlattenType
    <3> HIDE DEF a, b, c
    <3>2. Associates(a, b, c)
      BY ONLY <3>1, ConcatAssociates
    <3>3. (a \o b) \o c = a \o (b \o c)
      BY ONLY <3>2 DEF Associates
    <3> QED BY <3>3 DEF a, b, c
  <2> QED BY ONLY <2>2, <2>5, <2>6, <2>7
<1>3. T = Nat
  <2>1. T \in SUBSET Nat
    OBVIOUS
  <2> HIDE DEF T
  <2> QED BY <1>1, <1>2, <2>1, SetInduction
<1>4. Len(t) \in T
  BY <1>0, <1>3
<1>5. Cut(Len(t)) = t
  BY SubSeqFull
<1>6. FlattenSeq(s \o Cut(Len(t))) = FlattenSeq(s) \o FlattenSeq(Cut(Len(t)))
  BY <1>0, <1>4
<1> QED BY <1>5, <1>6

LEMMA FlattenOne ==
    ASSUME NEW S, NEW x \in Seq(S)
    PROVE  FlattenSeq(<<x>>) = x
<1>1. <<>> \in Seq(Seq(S)) /\ Append(<<>>, x) = <<x>>
  OBVIOUS
<1>2. FlattenSeq(Append(<<>>, x)) = FlattenSeq(<<>>) \o x
  BY <1>1, FlattenAppend
<1>3. FlattenSeq(<<>>) \o x = x
  BY FlattenEmpty, ConcatEmptySeq
<1> QED BY <1>1, <1>2, <1>3

LEMMA ConcatSet ==
    ASSUME NEW S, NEW s \in Seq(S), NEW t \in Seq(S)
    PROVE  ToSet(s \o t) = ToSet(s) \cup ToSet(t)
<1>1. /\ Len(s) \in Nat /\ Len(t) \in Nat
      /\ DOMAIN s = 1 .. Len(s) /\ DOMAIN t = 1 .. Len(t)
      /\ DOMAIN (s \o t) = 1 .. Len(s) + Len(t)
      /\ \A i \in 1 .. Len(s) + Len(t) :
             (s \o t)[i] = IF i <= Len(s) THEN s[i] ELSE t[i - Len(s)]
  BY ConcatProperties, LenProperties
<1>2. ASSUME NEW x \in ToSet(s \o t) PROVE x \in ToSet(s) \cup ToSet(t)
  <2>1. PICK i \in 1 .. Len(s) + Len(t) : x = (s \o t)[i]
    BY <1>1 DEF ToSet
  <2>2. CASE i <= Len(s)
    BY <1>1, <2>1, <2>2 DEF ToSet
  <2>3. CASE i > Len(s)
    <3>1. i - Len(s) \in 1 .. Len(t)
      BY <1>1, <2>3
    <3> QED BY <1>1, <2>1, <2>3, <3>1 DEF ToSet
  <2> QED BY <1>1, <2>2, <2>3
<1>3. ASSUME NEW x \in ToSet(s) PROVE x \in ToSet(s \o t)
  <2>1. PICK i \in 1 .. Len(s) : x = s[i]
    BY <1>1 DEF ToSet
  <2>2. i \in 1 .. Len(s) + Len(t) /\ i <= Len(s)
    BY <1>1
  <2> QED BY <1>1, <2>1, <2>2 DEF ToSet
<1>4. ASSUME NEW x \in ToSet(t) PROVE x \in ToSet(s \o t)
  <2>1. PICK i \in 1 .. Len(t) : x = t[i]
    BY <1>1 DEF ToSet
  <2>2. i + Len(s) \in 1 .. Len(s) + Len(t) /\ ~ (i + Len(s) <= Len(s)) /\ (i + Len(s)) - Len(s) = i
    BY <1>1
  <2> QED BY <1>1, <2>1, <2>2 DEF ToSet
<1> QED BY <1>2, <1>3, <1>4

LEMMA FlattenElements ==
    ASSUME NEW S, NEW s \in Seq(Seq(S))
    PROVE  ToSet(FlattenSeq(s)) = UNION {ToSet(s[i]) : i \in 1 .. Len(s)}
<1> DEFINE Cut(n) == SubSeq(s, 1, n)
           All(n) == UNION {ToSet(s[i]) : i \in 1 .. n}
           T == {n \in Nat : n <= Len(s) => ToSet(FlattenSeq(Cut(n))) = All(n)}
<1>0. Len(s) \in Nat
  OBVIOUS
<1>1. 0 \in T
  <2>1. Cut(0) = <<>> /\ All(0) = {} /\ ToSet(<<>>) = {}
    BY DEF ToSet
  <2>2. ToSet(FlattenSeq(Cut(0))) = All(0)
    BY <2>1, FlattenEmpty, Zenon
  <2> QED BY <2>2
<1>2. ASSUME NEW n \in T PROVE n + 1 \in T
  <2>0. n \in Nat /\ n + 1 \in Nat
    OBVIOUS
  <2> SUFFICES ASSUME n + 1 <= Len(s)
               PROVE  ToSet(FlattenSeq(Cut(n + 1))) = All(n + 1)
    BY <2>0
  <2>1. n + 1 \in 1 .. Len(s) /\ s[n + 1] \in Seq(S)
    BY <1>0, <2>0
  <2>2. ToSet(FlattenSeq(Cut(n))) = All(n)
    BY <2>0, <2>1
  <2>3. Cut(n) \in Seq(Seq(S)) /\ Cut(n + 1) = Append(Cut(n), s[n + 1])
    BY ONLY s \in Seq(Seq(S)), <2>0, <2>1, CutGrows DEF Cut
  <2>4. All(n + 1) = All(n) \cup ToSet(s[n + 1])
    <3>1. \A i : i \in 1 .. n + 1 <=> i \in 1 .. n \/ i = n + 1
      BY <2>0
    <3> QED BY <3>1
  <2> HIDE DEF T, Cut, All
  <2>5. FlattenSeq(Cut(n + 1)) = FlattenSeq(Cut(n)) \o s[n + 1] /\ FlattenSeq(Cut(n)) \in Seq(S)
    BY <2>1, <2>3, FlattenAppend, FlattenType
  <2>6. ToSet(FlattenSeq(Cut(n)) \o s[n + 1]) = ToSet(FlattenSeq(Cut(n))) \cup ToSet(s[n + 1])
    <3> DEFINE a == FlattenSeq(Cut(n))  b == s[n + 1]
    <3>1. a \in Seq(S) /\ b \in Seq(S)
      BY <2>1, <2>5
    <3> HIDE DEF a, b
    <3>2. ToSet(a \o b) = ToSet(a) \cup ToSet(b)
      BY <3>1, ConcatSet
    <3> QED BY <3>2 DEF a, b
  <2> QED BY ONLY <2>2, <2>4, <2>5, <2>6
<1>3. T = Nat
  <2>1. T \in SUBSET Nat
    OBVIOUS
  <2> HIDE DEF T
  <2> QED BY <1>1, <1>2, <2>1, SetInduction
<1>4. Len(s) \in T
  BY <1>0, <1>3
<1>5. Cut(Len(s)) = s
  BY SubSeqFull
<1>6. ToSet(FlattenSeq(Cut(Len(s)))) = All(Len(s))
  BY <1>0, <1>4
<1> QED BY <1>5, <1>6

-----------------------------------------------------------------------------
(* Parts of sequences.                                                     *)

\* A sequence is cut where it was put together.
LEMMA CutBack ==
    ASSUME NEW S, NEW a \in Seq(S), NEW c \in Seq(S), NEW r \in Seq(S)
    PROVE  /\ Len((a \o c) \o r) = Len(a) + Len(c) + Len(r)
           /\ SubSeq((a \o c) \o r, 1, Len(a)) = a
           /\ SubSeq((a \o c) \o r, Len(a) + 1, Len(a) + Len(c)) = c
           /\ SubSeq((a \o c) \o r, Len(a) + Len(c) + 1, Len(a) + Len(c) + Len(r)) = r
OBVIOUS

LEMMA SubSeqOfFront ==
    ASSUME NEW S, NEW a \in Seq(S), NEW r \in Seq(S),
           NEW i \in 1 .. Len(a) + 1, NEW j \in 0 .. Len(a)
    PROVE  SubSeq(a \o r, i, j) = SubSeq(a, i, j)
OBVIOUS

LEMMA SubSeqOfBack ==
    ASSUME NEW S, NEW a \in Seq(S), NEW r \in Seq(S)
    PROVE  SubSeq(a \o r, Len(a) + 1, Len(a \o r)) = r
OBVIOUS

\* A sequence is the concatenation of the three parts it is cut into.
Parted(T, f, i, j) ==
    /\ SubSeq(f, 1, i) \in T
    /\ SubSeq(f, i + 1, j) \in T
    /\ SubSeq(f, j + 1, Len(f)) \in T
    /\ f = (SubSeq(f, 1, i) \o SubSeq(f, i + 1, j)) \o SubSeq(f, j + 1, Len(f))

LEMMA ThreeParts ==
    ASSUME NEW S, NEW f \in Seq(S), NEW i \in 0 .. Len(f), NEW j \in i .. Len(f)
    PROVE  Parted(Seq(S), f, i, j)
<1>1. SubSeq(f, 1, i) \o SubSeq(f, i + 1, j) = SubSeq(f, 1, j)
  <2>1. 1 \in 1 .. Len(f) + 1 /\ i \in 1 - 1 .. Len(f) /\ j \in i .. Len(f)
    OBVIOUS
  <2> QED BY <2>1, ConcatAdjacentSubSeq
<1>2. SubSeq(f, 1, j) \o SubSeq(f, j + 1, Len(f)) = SubSeq(f, 1, Len(f))
  <2>1. 1 \in 1 .. Len(f) + 1 /\ j \in 1 - 1 .. Len(f) /\ Len(f) \in j .. Len(f)
    OBVIOUS
  <2> QED BY <2>1, ConcatAdjacentSubSeq
<1>3. SubSeq(f, 1, Len(f)) = f
  BY SubSeqFull
<1>4. SubSeq(f, 1, i) \in Seq(S) /\ SubSeq(f, i + 1, j) \in Seq(S) /\ SubSeq(f, j + 1, Len(f)) \in Seq(S)
  <2>1. 1 \in 1 .. Len(f) + 1 /\ i + 1 \in 1 .. Len(f) + 1 /\ j + 1 \in 1 .. Len(f) + 1
    OBVIOUS
  <2>2. i \in 0 .. Len(f) /\ j \in 0 .. Len(f) /\ Len(f) \in 0 .. Len(f)
    OBVIOUS
  <2> QED BY <2>1, <2>2, SubSeqDistinct
<1> QED BY ONLY <1>1, <1>2, <1>3, <1>4 DEF Parted

\* The elements of an ascending sequence and of what is left of it without a
\* segment in the middle.
Ascending(s) == \A i, j \in 1 .. Len(s) : i < j => s[i] < s[j]

LEMMA CutOut ==
    ASSUME NEW a \in Seq(Nat), NEW c \in Seq(Nat), NEW r \in Seq(Nat),
           Ascending((a \o c) \o r)
    PROVE  /\ Ascending(a \o r)
           /\ ToSet(a \o r) = ToSet((a \o c) \o r) \ ToSet(c)
<1> DEFINE s == (a \o c) \o r  la == Len(a)  lc == Len(c)  lr == Len(r)
<1>1. /\ la \in Nat /\ lc \in Nat /\ lr \in Nat
      /\ Len(s) = la + lc + lr
      /\ \A i \in 1 .. la : s[i] = a[i]
      /\ \A i \in 1 .. lc : s[la + i] = c[i]
      /\ \A i \in 1 .. lr : s[la + lc + i] = r[i]
  OBVIOUS
<1>2. /\ a \o r \in Seq(Nat)
      /\ Len(a \o r) = la + lr
      /\ \A i \in 1 .. la + lr : (a \o r)[i] = IF i <= la THEN a[i] ELSE r[i - la]
  BY ConcatProperties
<1>3. \A i \in 1 .. la + lr : (a \o r)[i] = s[IF i <= la THEN i ELSE i + lc]
  <2> SUFFICES ASSUME NEW i \in 1 .. la + lr
               PROVE  (a \o r)[i] = s[IF i <= la THEN i ELSE i + lc]
    OBVIOUS
  <2>1. CASE i <= la
    <3>1. i \in 1 .. la
      BY <1>1, <2>1
    <3> HIDE DEF s
    <3> QED BY <1>1, <1>2, <2>1, <3>1
  <2>2. CASE i > la
    <3>1. i - la \in 1 .. lr /\ la + lc + (i - la) = i + lc
      BY <1>1, <2>2
    <3> HIDE DEF s
    <3> QED BY <1>1, <1>2, <2>2, <3>1
  <2>3. i \in Int /\ la \in Int
    BY <1>1
  <2>4. i <= la \/ i > la
    BY <2>3
  <2> QED BY <2>1, <2>2, <2>4
<1>4. Ascending(s)
  OBVIOUS
<1>5. ToSet(s) = ToSet(a \o r) \cup ToSet(c)
  <2>1. ToSet(s) = ToSet(a) \cup ToSet(c) \cup ToSet(r)
    <3>1. a \o c \in Seq(Nat) /\ ToSet(a \o c) = ToSet(a) \cup ToSet(c)
      BY ConcatSet, ConcatProperties
    <3>2. ToSet((a \o c) \o r) = ToSet(a \o c) \cup ToSet(r)
      <4>1. PICK d \in Seq(Nat) : d = a \o c
        BY <3>1
      <4>2. ToSet(d \o r) = ToSet(d) \cup ToSet(r)
        BY ConcatSet
      <4> QED BY <4>1, <4>2
    <3> QED BY <3>1, <3>2
  <2>2. ToSet(a \o r) = ToSet(a) \cup ToSet(r)
    BY ConcatSet
  <2> QED BY <2>1, <2>2
<1> HIDE DEF s
<1>6. Ascending(a \o r)
  <2> SUFFICES ASSUME NEW i \in 1 .. la + lr, NEW j \in 1 .. la + lr, i < j
               PROVE  (a \o r)[i] < (a \o r)[j]
    BY <1>2 DEF Ascending
  <2> DEFINE x == IF i <= la THEN i ELSE i + lc  y == IF j <= la THEN j ELSE j + lc
  <2>1. x \in 1 .. la + lc + lr /\ y \in 1 .. la + lc + lr /\ x < y
    BY <1>1
  <2>2. (a \o r)[i] = s[x] /\ (a \o r)[j] = s[y]
    BY <1>3
  <2> HIDE DEF x, y
  <2>3. s[x] < s[y]
    BY <1>1, <1>4, <2>1 DEF Ascending
  <2> QED BY <2>2, <2>3
<1>7. ToSet(a \o r) \cap ToSet(c) = {}
  <2> SUFFICES ASSUME NEW i \in 1 .. la + lr, NEW k \in 1 .. lc, (a \o r)[i] = c[k]
               PROVE  FALSE
    <3>1. DOMAIN (a \o r) = 1 .. la + lr /\ DOMAIN c = 1 .. lc
      BY <1>2, LenProperties
    <3> HIDE DEF la, lc, lr
    <3> QED BY <3>1 DEF ToSet
  <2> DEFINE x == IF i <= la THEN i ELSE i + lc  y == la + k
  <2>1. x \in 1 .. la + lc + lr /\ y \in 1 .. la + lc + lr /\ (x < y \/ y < x)
    <3> HIDE DEF la, lc, lr
    <3> QED BY <1>1
  <2>2. s[x] = s[y]
    BY <1>1, <1>3
  <2>3. (a \o r)[i] \in Nat
    BY <1>2
  <2>4. s[x] \in Nat /\ s[y] \in Nat
    BY <1>3, <2>2, <2>3
  <2> HIDE DEF x, y
  <2>5. s[x] < s[y] \/ s[y] < s[x]
    BY <1>1, <1>4, <2>1 DEF Ascending
  <2> QED BY <2>2, <2>4, <2>5
<1> QED BY <1>5, <1>6, <1>7 DEF s

\* A number that is above all that are there is put at the end.
LEMMA PutLast ==
    ASSUME NEW n \in Nat, NEW s \in Seq(1 .. n), Ascending(s)
    PROVE  Ascending(Append(s, n + 1)) /\ ToSet(Append(s, n + 1)) = ToSet(s) \cup {n + 1}
<1>1. s \in Seq(Nat) /\ n + 1 \in Nat /\ Len(s) \in Nat
  <2>1. 1 .. n \subseteq Nat
    OBVIOUS
  <2> QED BY <2>1, SeqMonotonic
<1>2. /\ Append(s, n + 1) \in Seq(Nat)
      /\ Len(Append(s, n + 1)) = Len(s) + 1
      /\ \A i \in 1 .. Len(s) : Append(s, n + 1)[i] = s[i] /\ s[i] \in 1 .. n
      /\ Append(s, n + 1)[Len(s) + 1] = n + 1
  BY <1>1, AppendProperties
<1>3. Ascending(Append(s, n + 1))
  <2> DEFINE t == Append(s, n + 1)  k == Len(s)
  <2>1. k \in Nat /\ Len(t) = k + 1 /\ t[k + 1] = n + 1
    BY <1>1, <1>2
  <2>2. \A i, j \in 1 .. k : i < j => t[i] < t[j]
    BY <1>2 DEF Ascending
  <2>3. \A i \in 1 .. k : t[i] < n + 1
    BY <1>2
  <2> HIDE DEF t, k
  <2>4. \A i, j \in 1 .. k + 1 : i < j => t[i] < t[j]
    <3> SUFFICES ASSUME NEW i \in 1 .. k + 1, NEW j \in 1 .. k + 1, i < j
                 PROVE  t[i] < t[j]
      OBVIOUS
    <3>1. i \in 1 .. k /\ (j \in 1 .. k \/ j = k + 1)
      BY <2>1
    <3> QED BY <2>1, <2>2, <2>3, <3>1
  <2> QED BY <2>1, <2>4 DEF Ascending, t
<1>4. ToSet(Append(s, n + 1)) = ToSet(s) \cup ToSet(<<n + 1>>)
  <2>1. <<n + 1>> \in Seq(Nat) /\ Append(s, n + 1) = s \o <<n + 1>> /\ s \in Seq(Nat)
    BY <1>1, AppendIsConcat
  <2>2. PICK e \in Seq(Nat) : e = <<n + 1>>
    BY ONLY <2>1
  <2>3. ToSet(s \o e) = ToSet(s) \cup ToSet(e)
    BY ONLY <2>1, e \in Seq(Nat), ConcatSet
  <2> QED BY ONLY <2>1, <2>2, <2>3
<1>5. ToSet(<<n + 1>>) = {n + 1}
  BY DEF ToSet
<1> QED BY <1>3, <1>4, <1>5

\* The parentheses do not matter: of o, h, c, r, and of o, h, r.
Regroups(o, h, c, r) ==
    /\ (o \o h) \o r = o \o (h \o r)
    /\ ((o \o h) \o c) \o r = o \o ((h \o c) \o r)

LEMMA Regroup ==
    ASSUME NEW S, NEW o \in Seq(S), NEW h \in Seq(S), NEW c \in Seq(S), NEW r \in Seq(S)
    PROVE  Regroups(o, h, c, r)
<1>1. PICK d \in Seq(S) : d = h \o c
  BY ConcatProperties
<1>2. Associates(o, h, r) /\ Associates(o, h, c) /\ Associates(o, d, r)
  BY ConcatAssociates
<1> QED BY ONLY <1>1, <1>2 DEF Regroups, Associates

\* f without the elements after the i-th, up to the j-th
Without(f, i, j) == SubSeq(f, 1, i) \o SubSeq(f, j + 1, Len(f))

\* What goes out of the middle of f when f follows o.
LEMMA LoseMiddle ==
    ASSUME NEW N \in SUBSET Nat, NEW o \in Seq(N), NEW f \in Seq(N),
           NEW i \in 0 .. Len(f), NEW j \in i .. Len(f), Ascending(o \o f)
    PROVE  /\ Ascending(o \o Without(f, i, j))
           /\ ToSet(o \o Without(f, i, j)) = ToSet(o \o f) \ ToSet(SubSeq(f, i + 1, j))
<1> DEFINE g == Without(f, i, j)
<1>1. PICK h \in Seq(N), c \in Seq(N), r \in Seq(N) :
          /\ h = SubSeq(f, 1, i) /\ c = SubSeq(f, i + 1, j) /\ r = SubSeq(f, j + 1, Len(f))
          /\ f = (h \o c) \o r
  <2>1. Parted(Seq(N), f, i, j)
    BY ThreeParts
  <2> QED BY ONLY <2>1 DEF Parted
<1>2. Regroups(o, h, c, r)
  BY Regroup
<1>3. PICK a \in Seq(N) : a = o \o h
  BY ConcatProperties
<1>4. o \o g = a \o r /\ o \o f = (a \o c) \o r
  BY ONLY <1>1, <1>2, <1>3 DEF Regroups, Without
<1>5. a \in Seq(Nat) /\ c \in Seq(Nat) /\ r \in Seq(Nat)
  BY SeqMonotonic
<1>6. Ascending((a \o c) \o r)
  BY ONLY <1>4, Ascending(o \o f)
<1>7. Ascending(a \o r) /\ ToSet(a \o r) = ToSet((a \o c) \o r) \ ToSet(c)
  BY ONLY <1>5, <1>6, CutOut
<1> QED BY ONLY <1>1, <1>4, <1>7

\* What comes to the end of f when f follows o.
LEMMA GainLast ==
    ASSUME NEW n \in Nat, NEW o \in Seq(1 .. n), NEW f \in Seq(1 .. n), Ascending(o \o f)
    PROVE  /\ Ascending(o \o Append(f, n + 1))
           /\ ToSet(o \o Append(f, n + 1)) = ToSet(o \o f) \cup {n + 1}
<1>1. o \in Seq(Nat) /\ f \in Seq(Nat) /\ n + 1 \in Nat
  <2>1. 1 .. n \subseteq Nat
    OBVIOUS
  <2> QED BY <2>1, SeqMonotonic
<1>2. PICK s \in Seq(1 .. n) : s = o \o f
  BY ConcatProperties
<1>3. o \o Append(f, n + 1) = Append(s, n + 1)
  <2>1. PICK e \in Seq(Nat) : e = <<n + 1>>
    <3>1. <<n + 1>> \in Seq(Nat)
      BY <1>1
    <3> QED BY <3>1
  <2>2. s \in Seq(Nat)
    BY <1>1, <1>2, ConcatProperties
  <2>3. Append(f, n + 1) = f \o e /\ Append(s, n + 1) = s \o e
    BY ONLY <1>1, <2>1, <2>2, AppendIsConcat
  <2>4. Associates(o, f, e)
    BY ONLY <1>1, e \in Seq(Nat), ConcatAssociates
  <2> QED BY ONLY <1>2, <2>3, <2>4 DEF Associates
<1>4. Ascending(Append(s, n + 1)) /\ ToSet(Append(s, n + 1)) = ToSet(s) \cup {n + 1}
  BY <1>2, PutLast
<1> QED BY ONLY <1>2, <1>3, <1>4

-----------------------------------------------------------------------------
(* Taking one element out of a sequence, and putting one in.               *)

\* r is s without its x-th element, and with e as the new x-th element
Skips(s, x, r) ==
    /\ Len(r) = Len(s) - 1
    /\ \A p \in 1 .. Len(s) - 1 : r[p] = IF p < x THEN s[p] ELSE s[p + 1]

Inserts(s, x, e, r) ==
    /\ Len(r) = Len(s) + 1
    /\ \A p \in 1 .. Len(s) + 1 :
           r[p] = IF p < x THEN s[p] ELSE IF p = x THEN e ELSE s[p - 1]

\* a comes before b in s
Precedes(s, a, b) == \E p, q \in 1 .. Len(s) : p < q /\ s[p] = a /\ s[q] = b

LEMMA RemoveAtSkips ==
    ASSUME NEW S, NEW s \in Seq(S), NEW x \in 1 .. Len(s)
    PROVE  RemoveAt(s, x) \in Seq(S) /\ Skips(s, x, RemoveAt(s, x))
<1> DEFINE a == SubSeq(s, 1, x - 1)  b == SubSeq(s, x + 1, Len(s))
<1>1. /\ a \in Seq(S) /\ Len(a) = x - 1
      /\ \A p \in 1 .. x - 1 : a[p] = s[p]
  BY SubSeqProperties
<1>2. /\ b \in Seq(S) /\ Len(b) = Len(s) - x
      /\ \A p \in 1 .. Len(s) - x : b[p] = s[x + p]
  BY SubSeqProperties
<1> HIDE DEF a, b
<1>3. /\ a \o b \in Seq(S)
      /\ Len(a \o b) = Len(s) - 1
      /\ \A p \in 1 .. Len(s) - 1 : (a \o b)[p] = IF p <= x - 1 THEN a[p] ELSE b[p - (x - 1)]
  <2>1. /\ a \o b \in Seq(S)
        /\ Len(a \o b) = Len(a) + Len(b)
        /\ \A p \in 1 .. Len(a) + Len(b) :
               (a \o b)[p] = IF p <= Len(a) THEN a[p] ELSE b[p - Len(a)]
    BY ONLY <1>1, <1>2, ConcatProperties
  <2>2. Len(a) + Len(b) = Len(s) - 1
    BY <1>1, <1>2
  <2> QED BY ONLY <1>1, <2>1, <2>2
<1>4. ASSUME NEW p \in 1 .. Len(s) - 1
      PROVE  (a \o b)[p] = IF p < x THEN s[p] ELSE s[p + 1]
  <2>1. CASE p < x
    <3>1. p <= x - 1 /\ p \in 1 .. x - 1
      BY <2>1
    <3> QED BY <1>1, <1>3, <2>1, <3>1
  <2>2. CASE ~ (p < x)
    <3>1. ~ (p <= x - 1) /\ p - (x - 1) \in 1 .. Len(s) - x /\ x + (p - (x - 1)) = p + 1
      BY <2>2
    <3> QED BY <1>2, <1>3, <2>2, <3>1
  <2> QED BY <2>1, <2>2
<1>5. RemoveAt(s, x) = a \o b
  BY DEF RemoveAt, a, b
<1> QED BY <1>3, <1>4, <1>5 DEF Skips

LEMMA FrontSkips ==
    ASSUME NEW S, NEW s \in Seq(S), s # <<>>
    PROVE  Front(s) \in Seq(S) /\ Len(s) \in 1 .. Len(s) /\ Skips(s, Len(s), Front(s))
<1>1. Len(s) \in Nat /\ Len(s) > 0
  OBVIOUS
<1>2. /\ Front(s) \in Seq(S) /\ Len(Front(s)) = Len(s) - 1
      /\ \A p \in 1 .. Len(s) - 1 : Front(s)[p] = s[p]
  <2>1. \A p \in 1 .. Len(s) - 1 : s[p] \in S
    BY <1>1
  <2>2. Len(s) - 1 \in Int /\ 1 \in Int /\ (Len(s) - 1) - 1 + 1 = Len(s) - 1
    BY <1>1
  <2> DEFINE t == SubSeq(s, 1, Len(s) - 1)
  <2>3. /\ t \in Seq(S)
        /\ Len(t) = IF 1 <= Len(s) - 1 THEN Len(s) - 1 - 1 + 1 ELSE 0
        /\ \A p \in 1 .. Len(s) - 1 - 1 + 1 : t[p] = s[1 + p - 1]
    BY <2>1, <2>2, SubSeqProperties
  <2>4. Front(s) = t
    BY DEF Front
  <2> HIDE DEF t
  <2>5. PICK n \in Nat : n = Len(s) /\ n > 0
    BY <1>1
  <2>6. Len(t) = n - 1 /\ \A p \in 1 .. n - 1 : t[p] = s[p]
    <3>1. Len(t) = n - 1
      BY <2>3, <2>5
    <3>2. ASSUME NEW p \in 1 .. n - 1 PROVE t[p] = s[p]
      <4>1. p \in 1 .. n - 1 - 1 + 1 /\ 1 + p - 1 = p
        BY <2>5
      <4>2. t[p] = s[1 + p - 1]
        BY ONLY <2>3, <2>5, <4>1
      <4> QED BY ONLY <4>1, <4>2
    <3> QED BY <3>1, <3>2
  <2> QED BY ONLY <2>3, <2>4, <2>5, <2>6
<1> QED BY <1>1, <1>2 DEF Skips

LEMMA MinOne == ASSUME NEW x \in Int PROVE Min({x}) = x
BY DEF Min

LEMMA MinLeast ==
    ASSUME NEW T \in SUBSET Nat, T # {}
    PROVE  Min(T) \in T /\ \A y \in T : Min(T) <= y
<1>1. PICK x \in T : \A y \in T : ~ (<<y, x>> \in Less)
  BY LessWellFounded, WFMin
<1>2. \A y \in T : x <= y
  <2> SUFFICES ASSUME NEW y \in T PROVE x <= y
    OBVIOUS
  <2>1. x \in Nat /\ y \in Nat /\ ~ (<<y, x>> \in Less)
    BY <1>1
  <2>2. y < x => <<y, x>> \in Less
    BY <2>1 DEF Less
  <2> QED BY <2>1, <2>2
<1> QED BY <1>2 DEF Min

LEMMA RemoveFirstIs ==
    ASSUME NEW S, NEW s \in Seq(S), IsInjective(s), NEW x \in 1 .. Len(s)
    PROVE  RemoveFirst(s, s[x]) = RemoveAt(s, x)
<1>1. {p \in 1 .. Len(s) : s[p] = s[x]} = {x}
  BY DEF IsInjective
<1>2. SelectInSeq(s, LAMBDA v : v = s[x]) = x
  BY <1>1, MinOne DEF SelectInSeq
<1> QED BY <1>2 DEF RemoveFirst

LEMMA InsertAtInserts ==
    ASSUME NEW S, NEW s \in Seq(S), NEW x \in 1 .. Len(s) + 1, NEW e \in S
    PROVE  InsertAt(s, x, e) \in Seq(S) /\ Inserts(s, x, e, InsertAt(s, x, e))
<1> DEFINE a == SubSeq(s, 1, x - 1)  c == <<e>>  b == SubSeq(s, x, Len(s))
<1>1. /\ a \in Seq(S) /\ Len(a) = x - 1
      /\ \A p \in 1 .. x - 1 : a[p] = s[p]
  BY SubSeqProperties
<1>2. /\ b \in Seq(S) /\ Len(b) = Len(s) - x + 1
      /\ \A p \in 1 .. Len(s) - x + 1 : b[p] = s[x + p - 1]
  BY SubSeqProperties
<1>3. c \in Seq(S) /\ Len(c) = 1 /\ c[1] = e
  OBVIOUS
<1> HIDE DEF a, b, c
<1>4. /\ a \o c \in Seq(S)
      /\ Len(a \o c) = x
      /\ \A p \in 1 .. x : (a \o c)[p] = IF p < x THEN s[p] ELSE e
  <2>1. /\ a \o c \in Seq(S) /\ Len(a \o c) = x
        /\ \A p \in 1 .. x : (a \o c)[p] = IF p <= x - 1 THEN a[p] ELSE c[p - (x - 1)]
    <3>1. /\ a \o c \in Seq(S) /\ Len(a \o c) = Len(a) + Len(c)
          /\ \A p \in 1 .. Len(a) + Len(c) :
                 (a \o c)[p] = IF p <= Len(a) THEN a[p] ELSE c[p - Len(a)]
      BY <1>1, <1>3, ConcatProperties
    <3>2. Len(a) + Len(c) = x /\ Len(a) = x - 1
      BY <1>1, <1>3
    <3> QED BY ONLY <3>1, <3>2
  <2>2. ASSUME NEW p \in 1 .. x PROVE (a \o c)[p] = IF p < x THEN s[p] ELSE e
    <3>1. CASE p < x
      <4>1. p <= x - 1 /\ p \in 1 .. x - 1
        BY <3>1
      <4> QED BY <1>1, <2>1, <3>1, <4>1
    <3>2. CASE p = x
      <4>1. ~ (p <= x - 1) /\ p - (x - 1) = 1
        BY <3>2
      <4> QED BY <1>3, <2>1, <3>2, <4>1
    <3>3. p < x \/ p = x
      OBVIOUS
    <3> QED BY <3>1, <3>2, <3>3
  <2> QED BY <2>1, <2>2
<1>5. PICK d \in Seq(S) : d = a \o c
  BY <1>4
<1>6. /\ d \o b \in Seq(S)
      /\ Len(d \o b) = Len(s) + 1
      /\ \A p \in 1 .. Len(s) + 1 : (d \o b)[p] = IF p <= x THEN d[p] ELSE b[p - x]
  <2>1. Len(d) = x
    BY <1>4, <1>5
  <2>2. /\ d \o b \in Seq(S) /\ Len(d \o b) = Len(d) + Len(b)
        /\ \A p \in 1 .. Len(d) + Len(b) :
               (d \o b)[p] = IF p <= Len(d) THEN d[p] ELSE b[p - Len(d)]
    BY <1>2, ConcatProperties
  <2>3. Len(d) + Len(b) = Len(s) + 1
    BY <1>2, <2>1
  <2> QED BY ONLY <2>1, <2>2, <2>3
<1>7. ASSUME NEW p \in 1 .. Len(s) + 1
      PROVE  (d \o b)[p] = IF p < x THEN s[p] ELSE IF p = x THEN e ELSE s[p - 1]
  <2>1. CASE p <= x
    <3>1. p \in 1 .. x
      BY <2>1
    <3>2. (d \o b)[p] = IF p < x THEN s[p] ELSE e
      BY <1>4, <1>5, <1>6, <2>1, <3>1
    <3> QED BY <2>1, <3>2
  <2>2. CASE ~ (p <= x)
    <3>1. p - x \in 1 .. Len(s) - x + 1 /\ x + (p - x) - 1 = p - 1
      BY <2>2
    <3> QED BY <1>2, <1>6, <2>2, <3>1
  <2> QED BY <2>1, <2>2
<1>8. InsertAt(s, x, e) = d \o b
  BY <1>5 DEF InsertAt, a, b, c
<1> QED BY <1>6, <1>7, <1>8 DEF Inserts

\* What is left has the other elements, once and in the same order.
LEMMA SkipDistinct ==
    ASSUME NEW S, NEW s \in Seq(S), NEW r \in Seq(S), NEW x \in 1 .. Len(s),
           Skips(s, x, r), IsInjective(s)
    PROVE  /\ IsInjective(r)
           /\ ToSet(r) = ToSet(s) \ {s[x]}
           /\ \A a, b : Precedes(r, a, b) => Precedes(s, a, b) /\ a # s[x] /\ b # s[x]
<1> DEFINE n == Len(s)  at(p) == IF p < x THEN p ELSE p + 1
<1>1. /\ n \in Nat /\ Len(r) = n - 1 /\ x \in 1 .. n
      /\ DOMAIN s = 1 .. n /\ DOMAIN r = 1 .. n - 1
      /\ \A p \in 1 .. n - 1 : r[p] = s[at(p)]
  BY LenProperties DEF Skips
<1>2. \A p \in 1 .. n : \A q \in 1 .. n : s[p] = s[q] => p = q
  BY <1>1 DEF IsInjective
<1> HIDE DEF n
<1>3. \A p \in 1 .. n - 1 : at(p) \in 1 .. n /\ at(p) # x
  BY <1>1
<1>4. \A p, q \in 1 .. n - 1 : p < q => at(p) < at(q)
  BY <1>1
<1>5. \A p, q \in 1 .. n - 1 : at(p) = at(q) => p = q
  BY <1>1
<1>6. \A y \in 1 .. n : y # x => \E p \in 1 .. n - 1 : at(p) = y
  <2> SUFFICES ASSUME NEW y \in 1 .. n, y # x PROVE \E p \in 1 .. n - 1 : at(p) = y
    OBVIOUS
  <2>1. CASE y < x
    <3>1. y \in 1 .. n - 1 /\ at(y) = y
      BY <1>1, <2>1
    <3> QED BY <3>1
  <2>2. CASE y > x
    <3>1. y - 1 \in 1 .. n - 1 /\ at(y - 1) = y
      BY <1>1, <2>2
    <3> QED BY <3>1
  <2> QED BY <1>1, <2>1, <2>2
<1> HIDE DEF at
<1>7. IsInjective(r)
  BY <1>1, <1>2, <1>3, <1>5 DEF IsInjective
<1>8. ToSet(r) = ToSet(s) \ {s[x]}
  <2>1. ASSUME NEW e \in ToSet(r) PROVE e \in ToSet(s) \ {s[x]}
    <3>1. PICK p \in 1 .. n - 1 : e = r[p]
      BY <1>1 DEF ToSet
    <3> QED BY <1>1, <1>2, <1>3, <3>1 DEF ToSet
  <2>2. ASSUME NEW e \in ToSet(s) \ {s[x]} PROVE e \in ToSet(r)
    <3>1. PICK y \in 1 .. n : e = s[y] /\ y # x
      BY <1>1 DEF ToSet
    <3>2. PICK p \in 1 .. n - 1 : at(p) = y
      BY <1>6, <3>1
    <3> QED BY <1>1, <3>1, <3>2 DEF ToSet
  <2> QED BY <2>1, <2>2
<1>9. ASSUME NEW a, NEW b, Precedes(r, a, b)
      PROVE  Precedes(s, a, b) /\ a # s[x] /\ b # s[x]
  <2>1. PICK p \in 1 .. n - 1, q \in 1 .. n - 1 : p < q /\ r[p] = a /\ r[q] = b
    BY <1>1, <1>9 DEF Precedes
  <2>2. at(p) \in 1 .. n /\ at(q) \in 1 .. n /\ at(p) < at(q) /\ s[at(p)] = a /\ s[at(q)] = b
    BY <1>1, <1>3, <1>4, <2>1
  <2>3. Precedes(s, a, b)
    BY <2>2 DEF Precedes, n
  <2> QED BY <1>1, <1>2, <1>3, <2>2, <2>3
<1> QED BY <1>7, <1>8, <1>9

\* An element that is new is put at the front.
LEMMA FrontDistinct ==
    ASSUME NEW S, NEW s \in Seq(S), NEW e \in S, IsInjective(s), e \notin ToSet(s)
    PROVE  /\ <<e>> \o s \in Seq(S) /\ <<e>> \o s # <<>>
           /\ IsInjective(<<e>> \o s)
           /\ ToSet(<<e>> \o s) = ToSet(s) \cup {e}
           /\ \A a, b : Precedes(<<e>> \o s, a, b) => Precedes(s, a, b) \/ (a = e /\ b \in ToSet(s))
<1> DEFINE r == <<e>> \o s  n == Len(s)
<1>1. /\ r \in Seq(S) /\ Len(r) = n + 1 /\ n \in Nat /\ DOMAIN s = 1 .. n /\ DOMAIN r = 1 .. n + 1
      /\ r[1] = e
      /\ \A p \in 1 .. n + 1 : p # 1 => r[p] = s[p - 1] /\ p - 1 \in 1 .. n
  OBVIOUS
<1>2. \A p \in 1 .. n : r[p + 1] = s[p] /\ p + 1 \in 1 .. n + 1
  BY <1>1
<1> HIDE DEF r, n
<1>3. IsInjective(r)
  <2> SUFFICES ASSUME NEW p \in 1 .. n + 1, NEW q \in 1 .. n + 1, r[p] = r[q] PROVE p = q
    BY <1>1 DEF IsInjective
  <2>1. CASE p = 1 \/ q = 1
    BY <1>1, <2>1 DEF ToSet
  <2>2. CASE p # 1 /\ q # 1
    <3>1. s[p - 1] = s[q - 1] /\ p - 1 \in DOMAIN s /\ q - 1 \in DOMAIN s
      BY <1>1, <2>2
    <3>2. p - 1 = q - 1
      BY <3>1 DEF IsInjective
    <3> QED BY <1>1, <3>2
  <2> QED BY <2>1, <2>2
<1>4. ToSet(r) = ToSet(s) \cup {e}
  <2>1. ToSet(r) \subseteq ToSet(s) \cup {e}
    BY <1>1 DEF ToSet
  <2>2. e \in ToSet(r)
    BY <1>1 DEF ToSet
  <2>3. ASSUME NEW y \in ToSet(s) PROVE y \in ToSet(r)
    <3>1. PICK p \in 1 .. n : y = s[p]
      BY <1>1 DEF ToSet
    <3>2. p + 1 \in DOMAIN r /\ y = r[p + 1]
      BY <1>1, <1>2, <3>1
    <3> QED BY <3>2 DEF ToSet
  <2> QED BY <2>1, <2>2, <2>3
<1>5. ASSUME NEW a, NEW b, Precedes(r, a, b) PROVE Precedes(s, a, b) \/ (a = e /\ b \in ToSet(s))
  <2>1. PICK p \in 1 .. n + 1, q \in 1 .. n + 1 : p < q /\ r[p] = a /\ r[q] = b
    BY <1>1, <1>5 DEF Precedes
  <2>2. q # 1 /\ q - 1 \in 1 .. n /\ s[q - 1] = b
    BY <1>1, <2>1
  <2>3. CASE p = 1
    BY <1>1, <2>1, <2>2, <2>3 DEF ToSet
  <2>4. CASE p # 1
    <3>1. p - 1 \in 1 .. n /\ s[p - 1] = a /\ p - 1 < q - 1
      BY <1>1, <2>1, <2>4
    <3> QED BY <2>2, <3>1 DEF Precedes, n
  <2> QED BY <2>3, <2>4
<1>6. r # <<>>
  BY <1>1
<1> QED BY <1>1, <1>3, <1>4, <1>5, <1>6 DEF r
=============================================================================
