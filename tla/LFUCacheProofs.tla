---------------------------- MODULE LFUCacheProofs ----------------------------
(***************************************************************************)
(* LFUCache keeps its lists and maps consistent, and is an LFU cache until *)
(* a file is set twice, for every capacity and every set of keys, threads  *)
(* and nodes.                                                              *)
(*                                                                         *)
(* What the operations do to the lists is said with two relations: Member, *)
(* that a node is in the small list of a frequency, and Ahead, that a node *)
(* is in front of another in a small list.                                 *)
(***************************************************************************)
EXTENDS LFUCache, SequenceLemmas, FiniteSetTheorems

Member(ls, f, n) == \E i \in 1 .. Len(ls) : ls[i].freq = f /\ n \in ToSet(ls[i].nodes)

Ahead(ls, a, b) == \E i \in 1 .. Len(ls) : Precedes(ls[i].nodes, a, b)

Rising(ls) == \A i, j \in 1 .. Len(ls) : i < j => ls[i].freq < ls[j].freq

Disjoint(ls) ==
    \A i, j \in 1 .. Len(ls) :
        i # j => ToSet(ls[i].nodes) \cap ToSet(ls[j].nodes) = {}

Distinct(ls) == \A i \in 1 .. Len(ls) : IsInjective(ls[i].nodes)

\* what the lists are at every moment of an operation
Good(ls) == ls \in Seq(SmallList) /\ Rising(ls) /\ Disjoint(ls) /\ Distinct(ls)

\* no small list is empty, but perhaps the i-th
NonEmpty(ls, i) == \A p \in 1 .. Len(ls) : p # i => ls[p].nodes # <<>>

-----------------------------------------------------------------------------
(* One step on the lists.                                                  *)

LEMMA SmallListType ==
    ASSUME NEW ls \in Seq(SmallList), NEW i \in 1 .. Len(ls)
    PROVE  /\ ls[i] \in SmallList /\ ls[i].freq \in 1 .. MaxFreq
           /\ ls[i].nodes \in Seq(Nodes)
<1>1. ls[i] \in SmallList
  OBVIOUS
<1> QED BY <1>1 DEF SmallList

\* The lists have the same nodes in the same order.
Same(ls, r) ==
    /\ \A f, m : Member(r, f, m) <=> Member(ls, f, m)
    /\ \A a, b : Ahead(r, a, b) <=> Ahead(ls, a, b)

\* A new small list changes nothing in the others.
LEMMA Grow ==
    ASSUME NEW ls, Good(ls), NonEmpty(ls, 0), NEW i \in 0 .. Len(ls), NEW f \in 1 .. MaxFreq,
           i > 0 => ls[i].freq < f, i < Len(ls) => f < ls[i + 1].freq,
           NEW r, r = InsertAt(ls, i + 1, [freq |-> f, nodes |-> <<>>])
    PROVE  /\ Good(r) /\ Same(ls, r) /\ NonEmpty(r, i + 1)
           /\ i + 1 \in 1 .. Len(r) /\ r[i + 1].freq = f /\ (i > 0 => r[i] = ls[i])
<1> DEFINE e == [freq |-> f, nodes |-> <<>>]
<1>1. e \in SmallList /\ e.freq = f /\ e.nodes = <<>>
  BY DEF SmallList
<1> HIDE DEF e
<1>2. ls \in Seq(SmallList) /\ Len(ls) \in Nat /\ i + 1 \in 1 .. Len(ls) + 1
  BY DEF Good
<1>3. r \in Seq(SmallList) /\ Inserts(ls, i + 1, e, r)
  BY <1>1, <1>2, InsertAtInserts DEF e
<1>4. PICK n \in Nat : n = Len(ls) /\ Len(r) = n + 1
  BY <1>2, <1>3 DEF Inserts
<1>5. \A p \in 1 .. n + 1 : r[p] = IF p < i + 1 THEN ls[p] ELSE IF p = i + 1 THEN e ELSE ls[p - 1]
  BY <1>3, <1>4 DEF Inserts
<1> DEFINE at(p) == IF p < i + 1 THEN p ELSE p - 1
<1>6. \A p \in 1 .. n + 1 : p # i + 1 => at(p) \in 1 .. n /\ r[p] = ls[at(p)]
  BY <1>4, <1>5
<1>7. \A p, q \in 1 .. n + 1 : p < q /\ p # i + 1 /\ q # i + 1 => at(p) < at(q)
  BY <1>4
<1>8. \A p \in 1 .. n : (\E q \in 1 .. n + 1 : q # i + 1 /\ at(q) = p)
  <2> SUFFICES ASSUME NEW p \in 1 .. n
               PROVE  \E q \in 1 .. n + 1 : q # i + 1 /\ at(q) = p
    OBVIOUS
  <2>1. CASE p < i + 1
    <3>1. p \in 1 .. n + 1 /\ p # i + 1 /\ at(p) = p
      BY <2>1, <1>4
    <3> QED BY <3>1
  <2>2. CASE ~ (p < i + 1)
    <3>1. p + 1 \in 1 .. n + 1 /\ p + 1 # i + 1 /\ at(p + 1) = p
      BY <2>2, <1>4
    <3> QED BY <3>1
  <2> QED BY <2>1, <2>2
<1>9. i + 1 \in 1 .. n + 1 /\ r[i + 1] = e /\ (i > 0 => r[i] = ls[i])
  BY <1>4, <1>5
<1>10. /\ \A p \in 1 .. n + 1 : p < i + 1 => at(p) <= i /\ i > 0
       /\ \A p \in 1 .. n + 1 : p > i + 1 => at(p) >= i + 1 /\ i < n
  BY <1>4
<1>11. \A p \in 1 .. n : ls[p].freq \in Nat
  BY <1>2, <1>4, SmallListType
<1> HIDE DEF at
<1>12. Rising(r)
  <2> SUFFICES ASSUME NEW p \in 1 .. n + 1, NEW q \in 1 .. n + 1, p < q
               PROVE  r[p].freq < r[q].freq
    BY <1>4 DEF Rising
  <2>0. \A x, y \in 1 .. n : x < y => ls[x].freq < ls[y].freq
    BY <1>4 DEF Good, Rising
  <2>1. CASE p # i + 1 /\ q # i + 1
    BY <2>0, <2>1, <1>6, <1>7
  <2>2. CASE p = i + 1
    <3>1. q > i + 1 /\ i < n /\ at(q) >= i + 1 /\ at(q) \in 1 .. n /\ r[q] = ls[at(q)]
      <4>1. q > i + 1 /\ q # i + 1
        BY <2>2
      <4> QED BY <4>1, <1>6, <1>10
    <3>2. f < ls[i + 1].freq /\ i + 1 \in 1 .. n
      <4>1. i + 1 \in 1 .. n
        BY <1>4, <3>1
      <4>2. i < Len(ls)
        BY <1>4, <3>1
      <4> QED BY <4>1, <4>2
    <3>3. ls[i + 1].freq <= ls[at(q)].freq
      <4>1. CASE at(q) = i + 1
        <5>1. ls[i + 1].freq \in Nat
          BY <1>11, <3>2
        <5> QED BY ONLY <4>1, <5>1
      <4>2. CASE at(q) # i + 1
        <5>1. i + 1 < at(q)
          BY <3>1, <4>2, <1>4
        <5>2. /\ ls[i + 1].freq < ls[at(q)].freq
              /\ ls[i + 1].freq \in Nat /\ ls[at(q)].freq \in Nat
          BY <1>11, <2>0, <3>1, <3>2, <5>1
        <5> QED BY ONLY <5>2
      <4> QED BY <4>1, <4>2
    <3>4. ls[i + 1].freq \in Nat /\ ls[at(q)].freq \in Nat /\ r[p].freq = f /\ f \in Nat
      BY <1>1, <1>9, <1>11, <2>2, <3>1, <3>2
    <3>5. PICK x \in Nat, y \in Nat : x = ls[i + 1].freq /\ y = ls[at(q)].freq
      BY <3>4
    <3>6. f < x /\ x <= y
      BY <3>2, <3>3, <3>5
    <3>7. f < y
      BY ONLY <3>4, <3>6, x \in Nat, y \in Nat
    <3>8. r[p].freq = f /\ r[q].freq = y
      BY <3>1, <3>4, <3>5
    <3> QED BY ONLY <3>7, <3>8
  <2>3. CASE q = i + 1
    <3>1. p < i + 1 /\ i > 0 /\ at(p) <= i /\ at(p) \in 1 .. n /\ r[p] = ls[at(p)]
      <4>1. p < i + 1 /\ p # i + 1
        BY <2>3
      <4> QED BY <4>1, <1>6, <1>10
    <3>2. ls[i].freq < f /\ i \in 1 .. n
      <4>1. i \in 1 .. n
        BY <1>4, <3>1
      <4> QED BY <3>1, <4>1
    <3>3. ls[at(p)].freq <= ls[i].freq
      <4>1. CASE at(p) = i
        <5>1. ls[i].freq \in Nat
          BY <1>11, <3>2
        <5> QED BY ONLY <4>1, <5>1
      <4>2. CASE at(p) # i
        <5>1. at(p) < i
          BY <3>1, <4>2
        <5>2. ls[at(p)].freq < ls[i].freq /\ ls[at(p)].freq \in Nat /\ ls[i].freq \in Nat
          BY <1>11, <2>0, <3>1, <3>2, <5>1
        <5> QED BY ONLY <5>2
      <4> QED BY <4>1, <4>2
    <3>4. ls[i].freq \in Nat /\ ls[at(p)].freq \in Nat /\ r[q].freq = f /\ f \in Nat
      BY <1>1, <1>9, <1>11, <2>3, <3>1, <3>2
    <3>5. PICK x \in Nat, y \in Nat : x = ls[at(p)].freq /\ y = ls[i].freq
      BY <3>4
    <3>6. x <= y /\ y < f
      BY <3>2, <3>3, <3>5
    <3>7. x < f
      BY ONLY <3>4, <3>6, x \in Nat, y \in Nat
    <3>8. r[p].freq = x /\ r[q].freq = f
      BY <3>1, <3>4, <3>5
    <3> QED BY ONLY <3>7, <3>8
  <2> QED BY <2>1, <2>2, <2>3
<1>13. ToSet(e.nodes) = {} /\ IsInjective(e.nodes) /\ \A a, b : ~ Precedes(e.nodes, a, b)
  BY <1>1 DEF ToSet, IsInjective, Precedes
<1>14. Disjoint(r)
  <2> SUFFICES ASSUME NEW p \in 1 .. n + 1, NEW q \in 1 .. n + 1, p # q
               PROVE  ToSet(r[p].nodes) \cap ToSet(r[q].nodes) = {}
    BY <1>4 DEF Disjoint
  <2>1. CASE p # i + 1 /\ q # i + 1
    <3>1. at(p) # at(q)
      BY <2>1, <1>6, <1>7
    <3> QED BY <3>1, <2>1, <1>4, <1>6 DEF Good, Disjoint
  <2>2. CASE p = i + 1 \/ q = i + 1
    BY <2>2, <1>9, <1>13
  <2> QED BY <2>1, <2>2
<1>15. Distinct(r)
  BY <1>4, <1>6, <1>9, <1>13 DEF Good, Distinct
<1>16. NonEmpty(r, i + 1)
  BY <1>4, <1>6 DEF NonEmpty
<1>17. ASSUME NEW g, NEW m PROVE Member(r, g, m) <=> Member(ls, g, m)
  <2>1. ASSUME Member(r, g, m) PROVE Member(ls, g, m)
    <3>1. PICK p \in 1 .. n + 1 : r[p].freq = g /\ m \in ToSet(r[p].nodes)
      BY <1>4, <2>1 DEF Member
    <3>2. at(p) \in 1 .. n /\ r[p] = ls[at(p)]
      BY <1>6, <1>9, <1>13, <3>1
    <3> QED BY <1>4, <3>1, <3>2 DEF Member
  <2>2. ASSUME Member(ls, g, m) PROVE Member(r, g, m)
    <3>1. PICK p \in 1 .. n : ls[p].freq = g /\ m \in ToSet(ls[p].nodes)
      BY <1>4, <2>2 DEF Member
    <3>2. PICK q \in 1 .. n + 1 : r[q] = ls[p]
      BY <1>6, <1>8
    <3> QED BY <1>4, <3>1, <3>2 DEF Member
  <2> QED BY <2>1, <2>2
<1>18. ASSUME NEW a, NEW b PROVE Ahead(r, a, b) <=> Ahead(ls, a, b)
  <2>1. ASSUME Ahead(r, a, b) PROVE Ahead(ls, a, b)
    <3>1. PICK p \in 1 .. n + 1 : Precedes(r[p].nodes, a, b)
      BY <1>4, <2>1 DEF Ahead
    <3>2. at(p) \in 1 .. n /\ r[p] = ls[at(p)]
      BY <1>6, <1>9, <1>13, <3>1
    <3> QED BY <1>4, <3>1, <3>2 DEF Ahead
  <2>2. ASSUME Ahead(ls, a, b) PROVE Ahead(r, a, b)
    <3>1. PICK p \in 1 .. n : Precedes(ls[p].nodes, a, b)
      BY <1>4, <2>2 DEF Ahead
    <3>2. PICK q \in 1 .. n + 1 : r[q] = ls[p]
      BY <1>6, <1>8
    <3> QED BY <1>4, <3>1, <3>2 DEF Ahead
  <2> QED BY <2>1, <2>2
<1> QED
  BY <1>1, <1>3, <1>4, <1>9, <1>12, <1>14, <1>15, <1>16, <1>17, <1>18 DEF Good, Same

\* An empty small list is given up.
LEMMA Drop ==
    ASSUME NEW ls, Good(ls), NEW i \in 1 .. Len(ls), NonEmpty(ls, i)
    PROVE  Good(DropEmpty(ls, i)) /\ NonEmpty(DropEmpty(ls, i), 0) /\ Same(ls, DropEmpty(ls, i))
<1>1. CASE ls[i].nodes # <<>>
  BY <1>1 DEF DropEmpty, NonEmpty, Same
<1>2. CASE ls[i].nodes = <<>>
  <2> DEFINE r == RemoveAt(ls, i)  at(p) == IF p < i THEN p ELSE p + 1
  <2>1. ls \in Seq(SmallList) /\ Len(ls) \in Nat
    BY DEF Good
  <2>2. r \in Seq(SmallList) /\ Skips(ls, i, r)
    BY <2>1, RemoveAtSkips
  <2> HIDE DEF r
  <2>3. PICK n \in Nat : n = Len(ls) /\ Len(r) = n - 1 /\ n > 0
    BY <2>1, <2>2 DEF Skips
  <2>4. \A p \in 1 .. n - 1 : at(p) \in 1 .. n /\ at(p) # i /\ r[p] = ls[at(p)]
    BY <2>2, <2>3 DEF Skips
  <2>5. \A p, q \in 1 .. n - 1 : p < q => at(p) < at(q)
    OBVIOUS
  <2>6. \A p \in 1 .. n : p # i => \E q \in 1 .. n - 1 : at(q) = p
    <3> SUFFICES ASSUME NEW p \in 1 .. n, p # i PROVE \E q \in 1 .. n - 1 : at(q) = p
      OBVIOUS
    <3>1. CASE p < i
      <4>1. p \in 1 .. n - 1 /\ at(p) = p
        BY <3>1, <2>3
      <4> QED BY <4>1
    <3>2. CASE p > i
      <4>1. p - 1 \in 1 .. n - 1 /\ at(p - 1) = p
        BY <3>2, <2>3
      <4> QED BY <4>1
    <3> QED BY <2>3, <3>1, <3>2
  <2> HIDE DEF at
  <2>7. ToSet(ls[i].nodes) = {} /\ \A a, b : ~ Precedes(ls[i].nodes, a, b)
    BY <1>2 DEF ToSet, Precedes
  <2>8. Good(r)
    <3>1. Rising(r)
      BY <2>3, <2>4, <2>5 DEF Good, Rising
    <3>2. Disjoint(r)
      <4> SUFFICES ASSUME NEW p \in 1 .. n - 1, NEW q \in 1 .. n - 1, p # q
                   PROVE  ToSet(r[p].nodes) \cap ToSet(r[q].nodes) = {}
        BY <2>3 DEF Disjoint
      <4>1. at(p) # at(q)
        BY <2>4, <2>5
      <4> QED BY <4>1, <2>3, <2>4 DEF Good, Disjoint
    <3>3. Distinct(r)
      BY <2>3, <2>4 DEF Good, Distinct
    <3> QED BY <2>2, <3>1, <3>2, <3>3 DEF Good
  <2>9. NonEmpty(r, 0)
    BY <2>3, <2>4 DEF NonEmpty
  <2>10. ASSUME NEW g, NEW m PROVE Member(r, g, m) <=> Member(ls, g, m)
    <3>1. ASSUME Member(r, g, m) PROVE Member(ls, g, m)
      BY <2>3, <2>4, <3>1 DEF Member
    <3>2. ASSUME Member(ls, g, m) PROVE Member(r, g, m)
      <4>1. PICK p \in 1 .. n : ls[p].freq = g /\ m \in ToSet(ls[p].nodes)
        BY <2>3, <3>2 DEF Member
      <4>2. PICK q \in 1 .. n - 1 : r[q] = ls[p]
        BY <2>4, <2>6, <2>7, <4>1
      <4> QED BY <2>3, <4>1, <4>2 DEF Member
    <3> QED BY <3>1, <3>2
  <2>11. ASSUME NEW a, NEW b PROVE Ahead(r, a, b) <=> Ahead(ls, a, b)
    <3>1. ASSUME Ahead(r, a, b) PROVE Ahead(ls, a, b)
      BY <2>3, <2>4, <3>1 DEF Ahead
    <3>2. ASSUME Ahead(ls, a, b) PROVE Ahead(r, a, b)
      <4>1. PICK p \in 1 .. n : Precedes(ls[p].nodes, a, b)
        BY <2>3, <3>2 DEF Ahead
      <4>2. PICK q \in 1 .. n - 1 : r[q] = ls[p]
        BY <2>4, <2>6, <2>7, <4>1
      <4> QED BY <2>3, <4>1, <4>2 DEF Ahead
    <3> QED BY <3>1, <3>2
  <2>12. DropEmpty(ls, i) = r
    BY <1>2 DEF DropEmpty, r
  <2> QED BY <2>8, <2>9, <2>10, <2>11, <2>12 DEF Same
<1> QED BY <1>1, <1>2

\* Only the nodes of the i-th small list change: s is one that is in no other.
Puts(ls, i, s, r) ==
    /\ Len(r) = Len(ls)
    /\ r[i].freq = ls[i].freq /\ r[i].nodes = s
    /\ \A p \in 1 .. Len(ls) : p # i => r[p] = ls[p]

LEMMA Put ==
    ASSUME NEW ls, Good(ls), NEW i \in 1 .. Len(ls), NEW s \in Seq(Nodes), IsInjective(s),
           \A p \in 1 .. Len(ls) : p # i => ToSet(ls[p].nodes) \cap ToSet(s) = {},
           NEW r, r = [ls EXCEPT ![i].nodes = s]
    PROVE  Good(r) /\ Puts(ls, i, s, r)
<1>1. ls \in Seq(SmallList) /\ Len(ls) \in Nat /\ ls[i] \in SmallList
  BY DEF Good
<1> DEFINE e == [ls[i] EXCEPT !.nodes = s]
<1>2. e \in SmallList /\ e.freq = ls[i].freq /\ e.nodes = s
  BY <1>1 DEF SmallList
<1>3. r = [ls EXCEPT ![i] = e]
  OBVIOUS
<1> HIDE DEF e
<1>4. /\ r \in Seq(SmallList) /\ Len(r) = Len(ls) /\ r[i] = e
      /\ \A p \in 1 .. Len(ls) : p # i => r[p] = ls[p]
  <2>1. /\ [ls EXCEPT ![i] = e] \in Seq(SmallList) /\ Len([ls EXCEPT ![i] = e]) = Len(ls)
        /\ [ls EXCEPT ![i] = e][i] = e
        /\ \A p \in 1 .. Len(ls) : p # i => [ls EXCEPT ![i] = e][p] = ls[p]
    BY ONLY <1>1, <1>2, i \in 1 .. Len(ls), ExceptSeq
  <2> QED BY ONLY <1>3, <2>1
<1>5. Puts(ls, i, s, r)
  BY <1>2, <1>4 DEF Puts
<1>6. \A p \in 1 .. Len(ls) : r[p].freq = ls[p].freq
  BY <1>2, <1>4
<1>7. Rising(r)
  BY <1>4, <1>6 DEF Good, Rising
<1>8. Disjoint(r)
  <2> SUFFICES ASSUME NEW p \in 1 .. Len(ls), NEW q \in 1 .. Len(ls), p # q
               PROVE  ToSet(r[p].nodes) \cap ToSet(r[q].nodes) = {}
    BY <1>4 DEF Disjoint
  <2>1. CASE p # i /\ q # i
    BY <1>4, <2>1 DEF Good, Disjoint
  <2>2. CASE p = i
    <3>1. r[p].nodes = s /\ r[q] = ls[q] /\ ToSet(ls[q].nodes) \cap ToSet(s) = {}
      BY <1>2, <1>4, <2>2
    <3> QED BY <3>1
  <2>3. CASE q = i
    <3>1. r[q].nodes = s /\ r[p] = ls[p] /\ ToSet(ls[p].nodes) \cap ToSet(s) = {}
      BY <1>2, <1>4, <2>3
    <3> QED BY <3>1
  <2> QED BY <2>1, <2>2, <2>3
<1>9. Distinct(r)
  BY <1>2, <1>4 DEF Good, Distinct
<1> QED BY <1>4, <1>5, <1>7, <1>8, <1>9 DEF Good

\* Node n is in no small list.
Unlinked(ls, n) == \A p \in 1 .. Len(ls) : n \notin ToSet(ls[p].nodes)

\* r has the nodes of ls but n, in the same order.
Loses(ls, r, n) ==
    /\ \A f, m : Member(r, f, m) <=> Member(ls, f, m) /\ m # n
    /\ \A a, b : Ahead(r, a, b) => Ahead(ls, a, b) /\ a # n /\ b # n

\* r has the nodes of ls and n, which is the first of the list of frequency f.
Gains(ls, r, n, f) ==
    /\ \A g, m : Member(r, g, m) <=> Member(ls, g, m) \/ (m = n /\ g = f)
    /\ \A a, b : Ahead(r, a, b) => Ahead(ls, a, b) \/ (a = n /\ Member(ls, f, b))

\* One node goes out of the i-th small list.
LEMMA TakeOut ==
    ASSUME NEW ls, Good(ls), NEW i \in 1 .. Len(ls), NEW x \in 1 .. Len(ls[i].nodes),
           NEW s \in Seq(Nodes), Skips(ls[i].nodes, x, s),
           NEW r, r = [ls EXCEPT ![i].nodes = s], NEW n, n = ls[i].nodes[x]
    PROVE  Good(r) /\ Puts(ls, i, s, r) /\ Loses(ls, r, n) /\ Unlinked(r, n)
<1> DEFINE t == ls[i].nodes
<1>1. t \in Seq(Nodes) /\ IsInjective(t) /\ Len(ls) \in Nat
  BY SmallListType DEF Good, Distinct
<1>2. /\ IsInjective(s) /\ ToSet(s) = ToSet(t) \ {n}
      /\ \A a, b : Precedes(s, a, b) => Precedes(t, a, b) /\ a # n /\ b # n
  BY <1>1, SkipDistinct
<1>3. n \in ToSet(t)
  <2>1. x \in DOMAIN t
    BY <1>1
  <2> QED BY <2>1 DEF ToSet
<1>4. \A p \in 1 .. Len(ls) : p # i => ToSet(ls[p].nodes) \cap ToSet(t) = {}
  BY DEF Good, Disjoint
<1> HIDE DEF t
<1>5. \A p \in 1 .. Len(ls) : p # i => ToSet(ls[p].nodes) \cap ToSet(s) = {}
  BY <1>2, <1>4
<1>6. Good(r) /\ Puts(ls, i, s, r)
  BY <1>2, <1>5, Put
<1>7. /\ Len(r) = Len(ls) /\ r[i].freq = ls[i].freq /\ r[i].nodes = s
      /\ \A p \in 1 .. Len(ls) : p # i => r[p] = ls[p]
  BY <1>6 DEF Puts
<1>8. Unlinked(r, n)
  <2> SUFFICES ASSUME NEW p \in 1 .. Len(ls), n \in ToSet(r[p].nodes) PROVE FALSE
    BY <1>7 DEF Unlinked
  <2>1. p # i
    BY <1>2, <1>7
  <2> QED BY <1>3, <1>4, <1>7, <2>1
<1>9. ASSUME NEW f, NEW m PROVE Member(r, f, m) <=> Member(ls, f, m) /\ m # n
  <2>1. ASSUME Member(r, f, m) PROVE Member(ls, f, m) /\ m # n
    <3>1. PICK p \in 1 .. Len(ls) : r[p].freq = f /\ m \in ToSet(r[p].nodes)
      BY <1>7, <2>1 DEF Member
    <3>2. m # n
      BY <1>7, <1>8, <3>1 DEF Unlinked
    <3>3. ls[p].freq = f /\ m \in ToSet(ls[p].nodes)
      BY <1>2, <1>7, <3>1 DEF t
    <3> QED BY <3>2, <3>3 DEF Member
  <2>2. ASSUME Member(ls, f, m), m # n PROVE Member(r, f, m)
    <3>1. PICK p \in 1 .. Len(ls) : ls[p].freq = f /\ m \in ToSet(ls[p].nodes)
      BY <2>2 DEF Member
    <3>2. r[p].freq = f /\ m \in ToSet(r[p].nodes)
      BY <1>2, <1>7, <2>2, <3>1 DEF t
    <3> QED BY <1>7, <3>2 DEF Member
  <2> QED BY <2>1, <2>2
<1>10. ASSUME NEW a, NEW b, Ahead(r, a, b)
       PROVE  Ahead(ls, a, b) /\ a # n /\ b # n
  <2>1. PICK p \in 1 .. Len(ls) : Precedes(r[p].nodes, a, b)
    BY <1>7, <1>10 DEF Ahead
  <2>2. CASE p = i
    <3>1. Precedes(ls[p].nodes, a, b) /\ a # n /\ b # n
      BY <1>2, <1>7, <2>1, <2>2 DEF t
    <3> QED BY <3>1 DEF Ahead
  <2>3. CASE p # i
    <3>1. r[p] = ls[p] /\ Precedes(ls[p].nodes, a, b)
      BY <1>7, <2>1, <2>3
    <3>2. ls[p].nodes \in Seq(Nodes)
      BY SmallListType DEF Good
    <3>3. a \in ToSet(ls[p].nodes) /\ b \in ToSet(ls[p].nodes)
      BY ONLY <3>1, <3>2 DEF Precedes, ToSet
    <3> QED BY <1>3, <1>4, <2>3, <3>1, <3>3 DEF Ahead
  <2> QED BY <2>2, <2>3
<1> QED BY <1>6, <1>8, <1>9, <1>10 DEF Loses

\* A node that is in no small list goes to the front of the i-th.
LEMMA PutIn ==
    ASSUME NEW ls, Good(ls), NEW i \in 1 .. Len(ls), NEW n \in Nodes, Unlinked(ls, n),
           NEW r, r = [ls EXCEPT ![i].nodes = Add(ls[i].nodes, n)]
    PROVE  /\ Good(r) /\ Puts(ls, i, Add(ls[i].nodes, n), r)
           /\ Add(ls[i].nodes, n) # <<>>
           /\ Gains(ls, r, n, ls[i].freq)
<1> DEFINE t == ls[i].nodes
<1>1. t \in Seq(Nodes) /\ IsInjective(t) /\ Len(ls) \in Nat /\ n \notin ToSet(t)
  BY SmallListType DEF Good, Distinct, Unlinked
<1> HIDE DEF t
<1>2. PICK s \in Seq(Nodes) : s = <<n>> \o t
  BY <1>1, FrontDistinct
<1>3. /\ s # <<>> /\ IsInjective(s) /\ ToSet(s) = ToSet(t) \cup {n}
      /\ \A a, b : Precedes(s, a, b) => Precedes(t, a, b) \/ (a = n /\ b \in ToSet(t))
  BY <1>1, <1>2, FrontDistinct
<1>4. r = [ls EXCEPT ![i].nodes = s] /\ s = Add(ls[i].nodes, n)
  BY <1>2 DEF Add, t
<1>5. \A p \in 1 .. Len(ls) : p # i => ToSet(ls[p].nodes) \cap ToSet(s) = {}
  <2> SUFFICES ASSUME NEW p \in 1 .. Len(ls), p # i
               PROVE  ToSet(ls[p].nodes) \cap ToSet(s) = {}
    OBVIOUS
  <2>1. ToSet(ls[p].nodes) \cap ToSet(t) = {}
    BY DEF Good, Disjoint, t
  <2>2. n \notin ToSet(ls[p].nodes) /\ ToSet(s) = ToSet(t) \cup {n}
    BY <1>3 DEF Unlinked
  <2> QED BY ONLY <2>1, <2>2
<1>6. Good(r) /\ Puts(ls, i, s, r)
  <2>1. Good(ls) /\ i \in 1 .. Len(ls) /\ r = [ls EXCEPT ![i].nodes = s]
    BY <1>4
  <2> QED BY ONLY <1>3, <1>5, <2>1, s \in Seq(Nodes), Put
<1>7. /\ Len(r) = Len(ls) /\ r[i].freq = ls[i].freq /\ r[i].nodes = s
      /\ \A p \in 1 .. Len(ls) : p # i => r[p] = ls[p]
  BY <1>6 DEF Puts
<1> DEFINE f == ls[i].freq
<1>8. ASSUME NEW g, NEW m PROVE Member(r, g, m) <=> Member(ls, g, m) \/ (m = n /\ g = f)
  <2>1. ASSUME Member(r, g, m) PROVE Member(ls, g, m) \/ (m = n /\ g = f)
    <3>1. PICK p \in 1 .. Len(ls) : r[p].freq = g /\ m \in ToSet(r[p].nodes)
      BY <1>7, <2>1 DEF Member
    <3>2. ls[p].freq = g /\ (m \in ToSet(ls[p].nodes) \/ (p = i /\ m = n))
      BY <1>3, <1>7, <3>1 DEF t
    <3> QED BY <3>2 DEF Member
  <2>2. ASSUME Member(ls, g, m) PROVE Member(r, g, m)
    <3>1. PICK p \in 1 .. Len(ls) : ls[p].freq = g /\ m \in ToSet(ls[p].nodes)
      BY <2>2 DEF Member
    <3>2. r[p].freq = g /\ m \in ToSet(r[p].nodes)
      BY <1>3, <1>7, <3>1 DEF t
    <3> QED BY <1>7, <3>2 DEF Member
  <2>3. Member(r, f, n)
    BY <1>3, <1>7 DEF Member
  <2> QED BY <2>1, <2>2, <2>3
<1>9. ASSUME NEW a, NEW b, Ahead(r, a, b)
      PROVE  Ahead(ls, a, b) \/ (a = n /\ Member(ls, f, b))
  <2>1. PICK p \in 1 .. Len(ls) : Precedes(r[p].nodes, a, b)
    BY <1>7, <1>9 DEF Ahead
  <2>2. Precedes(ls[p].nodes, a, b) \/ (p = i /\ a = n /\ b \in ToSet(ls[i].nodes))
    BY <1>3, <1>7, <2>1 DEF t
  <2> QED BY <2>2 DEF Ahead, Member
<1> QED BY <1>3, <1>4, <1>6, <1>8, <1>9 DEF Gains

-----------------------------------------------------------------------------
(* The operations on the lists.                                            *)

LEMMA UnlinkedIs ==
    ASSUME NEW ls, NEW n
    PROVE  Unlinked(ls, n) <=> \A f : ~ Member(ls, f, n)
BY DEF Unlinked, Member

\* the lists with the list of the next frequency, found or made
Grown(ls, i, f) ==
    IF Follows(ls, i, f) THEN ls ELSE InsertAt(ls, i + 1, [freq |-> f, nodes |-> <<>>])

Grows(ls, i, f, r) ==
    /\ Good(r) /\ Same(ls, r) /\ NonEmpty(r, i + 1)
    /\ i + 1 \in 1 .. Len(r) /\ r[i + 1].freq = f /\ (i > 0 => r[i] = ls[i])

\* addFreq() has the list of the next frequency.
LEMMA NextList ==
    ASSUME NEW ls, Good(ls), NonEmpty(ls, 0), NEW i \in 0 .. Len(ls),
           NEW f \in 1 .. MaxFreq, f = NextFreq(ls, i)
    PROVE  Grows(ls, i, f, Grown(ls, i, f))
<1> DEFINE r == Grown(ls, i, f)
<1>1. CASE Follows(ls, i, f)
  <2>1. Len(ls) \in Nat /\ r = ls /\ i < Len(ls) /\ ls[i + 1].freq = f
    BY <1>1 DEF Good, Follows, Grown
  <2>2. i + 1 \in 1 .. Len(ls) /\ NonEmpty(ls, i + 1)
    BY <2>1 DEF NonEmpty
  <2> QED BY <2>1, <2>2 DEF Same, Grows
<1>2. CASE ~ Follows(ls, i, f)
  <2>1. i > 0 => ls[i].freq < f
    <3>1. i > 0 => ls[i].freq \in Nat
      BY SmallListType DEF Good
    <3> QED BY <3>1 DEF NextFreq
  <2>2. ASSUME i < Len(ls) PROVE f < ls[i + 1].freq
    <3>1. i + 1 \in 1 .. Len(ls) /\ ls[i + 1].freq \in Nat /\ ls[i + 1].freq # f
      <4>1. Len(ls) \in Nat /\ i + 1 \in 1 .. Len(ls)
        BY <2>2 DEF Good
      <4> QED BY <1>2, <2>2, <4>1, SmallListType DEF Good, Follows
    <3>2. CASE i = 0
      <4>1. ls[1].freq \in 1 .. MaxFreq
        BY <3>1, <3>2, SmallListType DEF Good
      <4> QED BY <3>1, <3>2, <4>1 DEF NextFreq
    <3>3. CASE i > 0
      <4>1. i \in 1 .. Len(ls) /\ i < i + 1
        BY <3>1, <3>3
      <4>2. ls[i].freq < ls[i + 1].freq /\ ls[i].freq \in Nat
        BY <3>1, <4>1, SmallListType DEF Good, Rising
      <4> QED BY <3>1, <3>3, <4>2 DEF NextFreq
    <3> QED BY <3>2, <3>3
  <2> QED BY <1>2, <2>1, <2>2, Grow DEF Grown, Grows
<1> QED BY <1>1, <1>2

\* A new node enters the list of frequency 1.
LEMMA Enter ==
    ASSUME NEW ls, Good(ls), NonEmpty(ls, 0), NEW n \in Nodes, Unlinked(ls, n),
           NEW r, r = AddFreq(ls, n, 0)
    PROVE  Good(r) /\ NonEmpty(r, 0) /\ Gains(ls, r, n, 1)
<1>1. NextFreq(ls, 0) = 1 /\ 1 \in 1 .. MaxFreq /\ 0 \in 0 .. Len(ls) /\ 0 + 1 = 1
  BY CacheAssumption DEF NextFreq, Good
<1>2. PICK g : g = Grown(ls, 0, 1)
  OBVIOUS
<1>3. /\ Good(g) /\ Same(ls, g) /\ NonEmpty(g, 1)
      /\ 1 \in 1 .. Len(g) /\ g[1].freq = 1
  BY <1>1, <1>2, NextList DEF Grows
<1>4. r = [g EXCEPT ![1].nodes = Add(g[1].nodes, n)]
  BY <1>1, <1>2 DEF AddFreq, Grown
<1>5. Unlinked(g, n)
  BY <1>3, UnlinkedIs DEF Same
<1>6. /\ Good(r) /\ Puts(g, 1, Add(g[1].nodes, n), r)
      /\ Add(g[1].nodes, n) # <<>>
      /\ Gains(g, r, n, 1)
  BY <1>3, <1>4, <1>5, PutIn
<1>7. NonEmpty(r, 0)
  BY <1>3, <1>6 DEF Puts, NonEmpty
<1>8. Gains(ls, r, n, 1)
  BY <1>3, <1>6 DEF Gains, Same
<1> QED BY <1>6, <1>7, <1>8

\* r has the nodes of ls, with n moved to the front of the list of frequency f.
Moves(ls, r, n, f) ==
    /\ \A g, m : Member(r, g, m) <=> (Member(ls, g, m) /\ m # n) \/ (m = n /\ g = f)
    /\ \A a, b : Ahead(r, a, b) =>
           b # n /\ ((Ahead(ls, a, b) /\ a # n) \/ (a = n /\ Member(ls, f, b)))

\* A node goes up to the next list.
LEMMA Rise ==
    ASSUME NEW ls, Good(ls), NonEmpty(ls, 0), NEW i \in 1 .. Len(ls),
           NEW n \in ToSet(ls[i].nodes), ls[i].freq < MaxFreq,
           NEW r, r = AddFreq(ls, n, i)
    PROVE  Good(r) /\ NonEmpty(r, 0) /\ Moves(ls, r, n, ls[i].freq + 1)
<1>1. PICK f \in 1 .. MaxFreq : f = NextFreq(ls, i) /\ f = ls[i].freq + 1
  <2>1. ls[i].freq \in 1 .. MaxFreq
    BY SmallListType DEF Good
  <2> QED BY <2>1, CacheAssumption DEF NextFreq
<1>2. PICK g : g = Grown(ls, i, f)
  OBVIOUS
<1>3. /\ Good(g) /\ Same(ls, g) /\ NonEmpty(g, i + 1)
      /\ i + 1 \in 1 .. Len(g) /\ g[i + 1].freq = f /\ g[i] = ls[i]
  <2>1. i \in 0 .. Len(ls) /\ i > 0
    OBVIOUS
  <2>2. Grows(ls, i, f, g)
    BY ONLY Good(ls), NonEmpty(ls, 0), <1>1, <1>2, <2>1, NextList
  <2> QED BY <2>1, <2>2 DEF Grows
<1>4. i \in 1 .. Len(g) /\ i # i + 1 /\ g \in Seq(SmallList)
  BY <1>3 DEF Good
<1>5. g[i].nodes \in Seq(Nodes) /\ IsInjective(g[i].nodes)
  BY <1>3, <1>4, SmallListType DEF Good, Distinct
<1>6. PICK x \in 1 .. Len(g[i].nodes) : n = g[i].nodes[x]
  BY <1>3, <1>5 DEF ToSet
<1>7. PICK s \in Seq(Nodes) : s = RemoveFirst(g[i].nodes, n) /\ Skips(g[i].nodes, x, s)
  <2>1. RemoveFirst(g[i].nodes, n) = RemoveAt(g[i].nodes, x)
    BY <1>5, <1>6, RemoveFirstIs
  <2> QED BY <1>5, <2>1, RemoveAtSkips
<1>8. PICK t : t = [g EXCEPT ![i].nodes = s]
  OBVIOUS
<1>9. Good(t) /\ Puts(g, i, s, t) /\ Loses(g, t, n) /\ Unlinked(t, n)
  BY <1>3, <1>4, <1>6, <1>7, <1>8, TakeOut
<1>10. Len(t) = Len(g) /\ i + 1 \in 1 .. Len(t) /\ t[i + 1] = g[i + 1]
  BY <1>3, <1>4, <1>9 DEF Puts
<1>11. n \in Nodes
  BY <1>5, <1>6
<1>12. PICK u : u = [t EXCEPT ![i + 1].nodes = Add(t[i + 1].nodes, n)]
  OBVIOUS
<1>13. /\ Good(u) /\ Puts(t, i + 1, Add(t[i + 1].nodes, n), u)
       /\ Add(t[i + 1].nodes, n) # <<>>
       /\ Gains(t, u, n, f)
  BY <1>3, <1>9, <1>10, <1>11, <1>12, PutIn
<1>14. i \in 1 .. Len(u) /\ NonEmpty(u, i)
  BY <1>3, <1>4, <1>9, <1>13 DEF Puts, NonEmpty
<1>15. r = DropEmpty(u, i)
  <2>1. t = [g EXCEPT ![i].nodes = RemoveFirst(g[i].nodes, n)] /\ i # 0
    BY <1>7, <1>8
  <2> QED BY <1>1, <1>2, <1>12, <2>1 DEF AddFreq, Grown
<1>16. Good(r) /\ NonEmpty(r, 0) /\ Same(u, r)
  BY <1>13, <1>14, <1>15, Drop
<1>17. Moves(ls, r, n, f)
  <2>1. ASSUME NEW h, NEW m
        PROVE  Member(r, h, m) <=> (Member(ls, h, m) /\ m # n) \/ (m = n /\ h = f)
    BY <1>3, <1>9, <1>13, <1>16 DEF Same, Loses, Gains
  <2>2. ASSUME NEW a, NEW b, Ahead(r, a, b)
        PROVE  b # n /\ ((Ahead(ls, a, b) /\ a # n) \/ (a = n /\ Member(ls, f, b)))
    BY <1>3, <1>9, <1>13, <1>16, <2>2 DEF Same, Loses, Gains
  <2> QED BY <2>1, <2>2 DEF Moves
<1> QED BY <1>1, <1>16, <1>17

\* The last node of the first list is given up.
LEMMA Leave ==
    ASSUME NEW ls, Good(ls), NonEmpty(ls, 0), ls # <<>>,
           NEW n, n = Last(ls[1].nodes),
           NEW r, r = DropEmpty([ls EXCEPT ![1].nodes = Front(ls[1].nodes)], 1)
    PROVE  /\ Good(r) /\ NonEmpty(r, 0) /\ Loses(ls, r, n) /\ n \in ToSet(ls[1].nodes)
           /\ \A m \in ToSet(ls[1].nodes) \ {n} : Precedes(ls[1].nodes, m, n)
<1>1. ls \in Seq(SmallList) /\ Len(ls) \in Nat /\ 1 \in 1 .. Len(ls)
  BY DEF Good
<1> DEFINE w == ls[1].nodes
<1>2. w \in Seq(Nodes) /\ w # <<>>
  BY <1>1, SmallListType DEF NonEmpty
<1> HIDE DEF w
<1>3. PICK s \in Seq(Nodes) : s = Front(w) /\ Skips(w, Len(w), s)
  BY <1>2, FrontSkips
<1>4. PICK x \in 1 .. Len(w) : x = Len(w) /\ n = w[x]
  BY <1>2, FrontSkips DEF Last, w
<1>5. PICK t : t = [ls EXCEPT ![1].nodes = s]
  OBVIOUS
<1>6. Good(t) /\ Puts(ls, 1, s, t) /\ Loses(ls, t, n)
  BY <1>1, <1>3, <1>4, <1>5, TakeOut DEF w
<1>7. 1 \in 1 .. Len(t) /\ NonEmpty(t, 1)
  BY <1>1, <1>6 DEF Puts, NonEmpty
<1>8. r = DropEmpty(t, 1)
  BY <1>3, <1>5 DEF w
<1>9. Good(r) /\ NonEmpty(r, 0) /\ Same(t, r)
  BY <1>6, <1>7, <1>8, Drop
<1>10. Loses(ls, r, n)
  BY <1>6, <1>9 DEF Loses, Same
<1>11. DOMAIN w = 1 .. Len(w)
  BY <1>2
<1>12. n \in ToSet(w)
  BY <1>4, <1>11 DEF ToSet
<1>13. ASSUME NEW m \in ToSet(w) \ {n} PROVE Precedes(w, m, n)
  <2>1. PICK y \in 1 .. Len(w) : w[y] = m
    BY <1>11 DEF ToSet
  <2>2. y < x
    BY <1>2, <1>4, <2>1
  <2> QED BY <1>4, <2>1, <2>2 DEF Precedes
<1> QED BY <1>9, <1>10, <1>12, <1>13 DEF w

-----------------------------------------------------------------------------
(* The invariant.                                                          *)

\* the maps name living nodes and the right small lists
MapsRight ==
    /\ DOMAIN kmap_ = DOMAIN fmap_
    /\ \A k \in DOMAIN kmap_ : key_[kmap_[k]] = k /\ Member(lists, fmap_[k], kmap_[k])

\* the nodes of the lists are those of the maps, in the small lists they name
NoStrays ==
    \A f, n : Member(lists, f, n) =>
        key_[n] \in DOMAIN kmap_ /\ kmap_[key_[n]] = n /\ fmap_[key_[n]] = f

\* the order of last use is between cached keys and goes one way
OneWay ==
    /\ older \subseteq (DOMAIN fmap_) \X (DOMAIN fmap_)
    /\ \A a, b : <<a, b>> \in older => <<b, a>> \notin older

\* what is further back in a small list is longer unused
OldestLast == \A a, b : Ahead(lists, a, b) => <<key_[b], key_[a]>> \in older

LFUInv ==
    /\ TypeOK
    /\ Good(lists)
    /\ NonEmpty(lists, 0)
    /\ MapsRight
    /\ OneWay
    /\ IsFiniteSet(DOMAIN kmap_)
    /\ ~ twice => NoStrays /\ OldestLast /\ Cardinality(DOMAIN kmap_) <= capacity_

\* The nodes of a pair that is in order are in the lists.
LEMMA AheadMember ==
    ASSUME NEW ls, Good(ls), NEW a, NEW b, Ahead(ls, a, b)
    PROVE  \E f : Member(ls, f, a) /\ Member(ls, f, b)
<1>1. PICK i \in 1 .. Len(ls) : Precedes(ls[i].nodes, a, b)
  BY DEF Ahead
<1>2. ls[i].nodes \in Seq(Nodes)
  BY SmallListType DEF Good
<1>3. a \in ToSet(ls[i].nodes) /\ b \in ToSet(ls[i].nodes)
  BY <1>1, <1>2 DEF Precedes, ToSet
<1> QED BY <1>3 DEF Member

\* The use of a key keeps the order one way.
LEMMA UseOneWay ==
    ASSUME NEW D, NEW k, NEW r, r = UsedLast(D, k), OneWay
    PROVE  /\ r \subseteq (D \cup {k}) \X (D \cup {k})
           /\ \A a, b : <<a, b>> \in r => <<b, a>> \notin r
<1>1. r = (older \cap ((D \ {k}) \X (D \ {k}))) \cup ((D \ {k}) \X {k})
  BY DEF UsedLast
<1>2. \A a, b : <<a, b>> \in r =>
          /\ a \in D \ {k}
          /\ (b \in D \ {k} /\ <<a, b>> \in older) \/ b = k
  BY <1>1
<1>3. \A x \in r : x = <<x[1], x[2]>>
  BY <1>1
<1> QED
  <2>1. r \subseteq (D \cup {k}) \X (D \cup {k})
    BY <1>1
  <2>2. ASSUME NEW a, NEW b, <<a, b>> \in r, <<b, a>> \in r PROVE FALSE
    BY <1>2, <2>2 DEF OneWay
  <2> QED BY <2>1, <2>2

\* ListOf(k) is the small list in which the node of k is.
LEMMA ListOfIs ==
    ASSUME Good(lists), MapsRight, NEW k \in DOMAIN fmap_
    PROVE  /\ ListOf(k) \in 1 .. Len(lists)
           /\ lists[ListOf(k)].freq = fmap_[k]
           /\ kmap_[k] \in ToSet(lists[ListOf(k)].nodes)
<1>1. PICK i \in 1 .. Len(lists) :
          lists[i].freq = fmap_[k] /\ kmap_[k] \in ToSet(lists[i].nodes)
  BY DEF MapsRight, Member
<1>2. {p \in 1 .. Len(lists) : lists[p].freq = fmap_[k]} = {i}
  <2>1. ASSUME NEW p \in 1 .. Len(lists), lists[p].freq = fmap_[k] PROVE p = i
    <3>1. lists[p].freq \in Nat /\ lists[i].freq \in Nat
      BY SmallListType DEF Good
    <3>2. ~ (p < i) /\ ~ (i < p)
      BY <1>1, <2>1, <3>1 DEF Good, Rising
    <3> QED BY <3>2
  <2> QED BY <1>1, <2>1
<1>3. ListOf(k) = i
  BY <1>2, MinOne DEF ListOf, SelectInSeq
<1> QED BY <1>1, <1>3

\* A hit keeps the invariant.
LEMMA HitKeeps ==
    ASSUME LFUInv, NEW k \in Keys, GetHit(k)
    PROVE  LFUInv'
<1> DEFINE n == kmap_[k]  i == ListOf(k)  f == fmap_[k]
<1>1. /\ k \in DOMAIN fmap_ /\ DOMAIN fmap_ = DOMAIN kmap_ /\ f \in 1 .. MaxFreq /\ f < MaxFreq
      /\ n \in Nodes /\ key_[n] = k
      /\ i \in 1 .. Len(lists) /\ lists[i].freq = f /\ n \in ToSet(lists[i].nodes)
  BY ListOfIs DEF LFUInv, TypeOK, MapsRight, GetHit
<1>2. /\ lists' = AddFreq(lists, n, i) /\ fmap_' = [fmap_ EXCEPT ![k] = f + 1]
      /\ older' = UsedLast(DOMAIN fmap_, k)
      /\ key_' = key_ /\ kmap_' = kmap_ /\ want' = want /\ twice' = twice
  BY DEF GetHit
<1> HIDE DEF n, i, f
<1>3. Good(lists') /\ NonEmpty(lists', 0) /\ Moves(lists, lists', n, f + 1)
  BY <1>1, <1>2, Rise DEF LFUInv
<1>4. /\ DOMAIN fmap_' = DOMAIN fmap_ /\ fmap_'[k] = f + 1
      /\ \A j \in DOMAIN fmap_ : j # k => fmap_'[j] = fmap_[j]
  BY <1>1, <1>2
<1>5. MapsRight'
  <2>1. ASSUME NEW j \in DOMAIN kmap_
        PROVE  key_[kmap_[j]] = j /\ Member(lists', fmap_'[j], kmap_[j])
    <3>1. CASE j = k
      BY <1>1, <1>3, <1>4, <3>1 DEF Moves, n
    <3>2. CASE j # k
      <4>1. key_[kmap_[j]] = j /\ Member(lists, fmap_[j], kmap_[j]) /\ kmap_[j] # n
        BY <1>1, <3>2 DEF LFUInv, MapsRight
      <4> QED BY <1>1, <1>3, <1>4, <3>2, <4>1 DEF Moves
    <3> QED BY <3>1, <3>2
  <2> QED BY <1>1, <1>2, <1>4, <2>1 DEF MapsRight
<1>6. OneWay'
  <2>1. /\ older' \subseteq (DOMAIN fmap_ \cup {k}) \X (DOMAIN fmap_ \cup {k})
        /\ \A a, b : <<a, b>> \in older' => <<b, a>> \notin older'
    BY <1>2, UseOneWay DEF LFUInv
  <2>2. DOMAIN fmap_ \cup {k} = DOMAIN fmap_'
    BY <1>1, <1>4
  <2> QED BY ONLY <2>1, <2>2 DEF OneWay
<1>7. ASSUME ~ twice PROVE NoStrays'
  <2>1. ASSUME NEW g, NEW m, Member(lists', g, m)
        PROVE  key_[m] \in DOMAIN kmap_ /\ kmap_[key_[m]] = m /\ fmap_'[key_[m]] = g
    <3>1. CASE m = n /\ g = f + 1
      BY <1>1, <1>4, <3>1 DEF n
    <3>2. CASE Member(lists, g, m) /\ m # n
      <4>1. key_[m] \in DOMAIN kmap_ /\ kmap_[key_[m]] = m /\ fmap_[key_[m]] = g
        BY <1>7, <3>2 DEF LFUInv, NoStrays
      <4>2. key_[m] # k
        BY <3>2, <4>1 DEF n
      <4> QED BY <1>1, <1>4, <4>1, <4>2
    <3> QED BY <1>3, <2>1, <3>1, <3>2 DEF Moves
  <2> QED BY <1>2, <2>1 DEF NoStrays
<1>8. ASSUME ~ twice PROVE OldestLast'
  <2>1. ASSUME NEW a, NEW b, Ahead(lists', a, b)
        PROVE  <<key_[b], key_[a]>> \in older'
    <3>0. \A g, m : Member(lists, g, m) /\ m # n => key_[m] \in DOMAIN fmap_ \ {k}
      BY <1>1, <1>8 DEF LFUInv, NoStrays, n
    <3>1. CASE b # n /\ Ahead(lists, a, b) /\ a # n
      <4>1. key_[a] \in DOMAIN fmap_ \ {k} /\ key_[b] \in DOMAIN fmap_ \ {k}
        BY <3>0, <3>1, AheadMember DEF LFUInv
      <4>2. <<key_[b], key_[a]>> \in older
        BY <1>8, <3>1 DEF LFUInv, OldestLast
      <4> QED BY <1>2, <4>1, <4>2 DEF UsedLast
    <3>2. CASE b # n /\ a = n /\ Member(lists, f + 1, b)
      <4>1. key_[b] \in DOMAIN fmap_ \ {k} /\ key_[a] = k
        BY <1>1, <3>0, <3>2
      <4> QED BY <1>2, <4>1 DEF UsedLast
    <3> QED BY <1>3, <2>1, <3>1, <3>2 DEF Moves
  <2> QED BY <1>2, <2>1 DEF OldestLast
<1>9. TypeOK'
  <2>1. lists' \in Seq(SmallList)
    BY <1>3 DEF Good
  <2>2. \A j \in DOMAIN fmap_' : fmap_'[j] \in 1 .. MaxFreq
    <3>1. f + 1 \in 1 .. MaxFreq
      BY <1>1, CacheAssumption
    <3> QED BY <1>4, <3>1 DEF LFUInv, TypeOK
  <2>3. older' \subseteq Keys \X Keys
    <3>1. DOMAIN fmap_' \subseteq Keys /\ older' \subseteq (DOMAIN fmap_') \X (DOMAIN fmap_')
      BY <1>4, <1>6 DEF OneWay, LFUInv, TypeOK
    <3> QED BY ONLY <3>1
  <2> QED BY <1>2, <1>4, <2>1, <2>2, <2>3 DEF LFUInv, TypeOK
<1> QED BY <1>2, <1>3, <1>5, <1>6, <1>7, <1>8, <1>9 DEF LFUInv

\* What is true of the lists and maps into which set() puts the new node: they
\* are a part of what was there, without the nodes whose memory is free.
LEMMA RoomIs ==
    ASSUME LFUInv, capacity_ > 0
    PROVE  /\ Good(Room.lists) /\ NonEmpty(Room.lists, 0)
           /\ DOMAIN Room.kmap_ = DOMAIN Room.fmap_ /\ DOMAIN Room.kmap_ \subseteq DOMAIN kmap_
           /\ \A j \in DOMAIN Room.kmap_ :
                  /\ Room.kmap_[j] = kmap_[j] /\ Room.fmap_[j] = fmap_[j]
                  /\ Member(Room.lists, fmap_[j], kmap_[j])
           /\ \A f, m : Member(Room.lists, f, m) =>
                  Member(lists, f, m) /\ ~ (Full /\ m = Victim) /\ m \notin Free
           /\ \A a, b : Ahead(Room.lists, a, b) => Ahead(lists, a, b)
           /\ Full => lists # <<>> /\ Victim \in ToSet(lists[1].nodes)
           /\ Full => DOMAIN Room.kmap_ = DOMAIN kmap_ \ {key_[Victim]}
           /\ ~ Full => DOMAIN Room.kmap_ = DOMAIN kmap_
<1>0. /\ \A m : m \in Linked <=> \E f : Member(lists, f, m)
      /\ DOMAIN lists = 1 .. Len(lists) /\ Len(lists) \in Nat
  <2>1. DOMAIN lists = 1 .. Len(lists) /\ Len(lists) \in Nat
    BY DEF LFUInv, Good
  <2> QED BY <2>1 DEF Linked, Member
<1>1. CASE ~ Full
  <2>1. Room.lists = lists /\ Room.kmap_ = kmap_ /\ Room.fmap_ = fmap_
    BY <1>1 DEF Room
  <2>2. \A f, m : Member(lists, f, m) => m \notin Free
    BY <1>0, <1>1 DEF Free
  <2> QED BY <1>1, <2>1, <2>2 DEF LFUInv, MapsRight
<1>2. CASE Full
  <2> DEFINE v == Victim
  <2>1. lists # <<>>
    <3>1. DOMAIN kmap_ # {}
      BY <1>2, FS_EmptySet, CacheAssumption DEF Full
    <3>2. PICK k \in DOMAIN kmap_ : Member(lists, fmap_[k], kmap_[k])
      BY <3>1 DEF LFUInv, MapsRight
    <3> QED BY <3>2 DEF Member
  <2>2. /\ Room.lists = DropEmpty([lists EXCEPT ![1].nodes = Front(lists[1].nodes)], 1)
        /\ Room.kmap_ = [j \in DOMAIN kmap_ \ {key_[v]} |-> kmap_[j]]
        /\ Room.fmap_ = [j \in DOMAIN fmap_ \ {key_[v]} |-> fmap_[j]]
    BY <1>2 DEF Room, Evicted, Forget
  <2>3. /\ Good(Room.lists) /\ NonEmpty(Room.lists, 0) /\ Loses(lists, Room.lists, v)
        /\ v \in ToSet(lists[1].nodes)
    BY <2>1, <2>2, Leave DEF LFUInv, Victim
  <2> HIDE DEF v
  <2>4. /\ DOMAIN Room.kmap_ = DOMAIN kmap_ \ {key_[v]}
        /\ DOMAIN Room.fmap_ = DOMAIN fmap_ \ {key_[v]}
        /\ DOMAIN kmap_ = DOMAIN fmap_
    BY <2>2 DEF LFUInv, MapsRight
  <2>5. ASSUME NEW j \in DOMAIN Room.kmap_
        PROVE  /\ Room.kmap_[j] = kmap_[j] /\ Room.fmap_[j] = fmap_[j]
               /\ Member(Room.lists, fmap_[j], kmap_[j])
    <3>1. Room.kmap_[j] = kmap_[j] /\ Room.fmap_[j] = fmap_[j] /\ j \in DOMAIN kmap_ /\ j # key_[v]
      BY <2>2, <2>4
    <3>2. key_[kmap_[j]] = j /\ Member(lists, fmap_[j], kmap_[j]) /\ kmap_[j] # v
      BY <3>1 DEF LFUInv, MapsRight
    <3> QED BY <2>3, <3>1, <3>2 DEF Loses
  <2>6. \A f, m : Member(Room.lists, f, m) => Member(lists, f, m) /\ m # v /\ m \notin Free
    BY <1>0, <2>3 DEF Loses, Free, v
  <2>7. \A a, b : Ahead(Room.lists, a, b) => Ahead(lists, a, b)
    BY <2>3 DEF Loses
  <2> QED BY <1>2, <2>1, <2>3, <2>4, <2>5, <2>6, <2>7 DEF v
<1> QED BY <1>1, <1>2

\* set() of a file keeps the invariant.
LEMMA InsertKeeps ==
    ASSUME LFUInv, capacity_ > 0, NEW k \in Keys, Insert(k),
           want' \in [Threads -> Keys \cup {None}]
    PROVE  LFUInv'
<1> DEFINE ls == Room.lists  km == Room.kmap_  fm == Room.fmap_
<1>1. /\ Good(ls) /\ NonEmpty(ls, 0)
      /\ DOMAIN km = DOMAIN fm /\ DOMAIN km \subseteq DOMAIN kmap_
      /\ \A j \in DOMAIN km :
             km[j] = kmap_[j] /\ fm[j] = fmap_[j] /\ Member(ls, fmap_[j], kmap_[j])
      /\ \A f, m : Member(ls, f, m) =>
             Member(lists, f, m) /\ ~ (Full /\ m = Victim) /\ m \notin Free
      /\ \A a, b : Ahead(ls, a, b) => Ahead(lists, a, b)
      /\ Full => lists # <<>> /\ Victim \in ToSet(lists[1].nodes)
      /\ Full => DOMAIN km = DOMAIN kmap_ \ {key_[Victim]}
      /\ ~ Full => DOMAIN km = DOMAIN kmap_
  BY RoomIs
<1> HIDE DEF ls, km, fm
<1>2. PICK n \in Free :
          /\ key_' = [m \in Nodes |-> IF m = n THEN k
                                      ELSE IF Full /\ m = Victim THEN None ELSE key_[m]]
          /\ lists' = AddFreq(ls, n, 0)
          /\ kmap_' = [j \in DOMAIN km \cup {k} |-> IF j = k THEN n ELSE km[j]]
          /\ fmap_' = [j \in DOMAIN fm \cup {k} |-> IF j = k THEN 1 ELSE fm[j]]
          /\ older' = UsedLast(DOMAIN fm, k)
          /\ twice' = (twice \/ k \in DOMAIN kmap_)
  <2>1. Free # {}
    BY DEF Insert
  <2>2. PICK n : n = CHOOSE m \in Free : TRUE
    OBVIOUS
  <2>3. n \in Free
    BY <2>1, <2>2
  <2> QED BY <2>2, <2>3 DEF Insert, ls, km, fm
<1>3. n \in Nodes
  <2>1. CASE Full /\ n = Victim
    <3>1. 1 \in 1 .. Len(lists)
      BY <1>1, <2>1 DEF LFUInv, Good
    <3>2. lists[1].nodes \in Seq(Nodes)
      BY <3>1, SmallListType DEF LFUInv, Good
    <3> QED BY <1>1, <2>1, <3>2 DEF ToSet
  <2>2. CASE ~ (Full /\ n = Victim)
    BY <1>2, <2>2 DEF Free
  <2> QED BY <2>1, <2>2
<1>4. Unlinked(ls, n)
  BY <1>1, <1>2, UnlinkedIs
<1>5. Good(lists') /\ NonEmpty(lists', 0) /\ Gains(ls, lists', n, 1)
  BY <1>1, <1>2, <1>3, <1>4, Enter
<1>6. /\ DOMAIN kmap_' = DOMAIN km \cup {k} /\ DOMAIN fmap_' = DOMAIN km \cup {k}
      /\ kmap_'[k] = n /\ fmap_'[k] = 1 /\ key_'[n] = k
      /\ \A j \in DOMAIN km : j # k => kmap_'[j] = kmap_[j] /\ fmap_'[j] = fmap_[j]
  BY <1>1, <1>2, <1>3
<1>7. \A f, m : Member(ls, f, m) => m \in Nodes /\ m # n /\ key_'[m] = key_[m]
  <2> SUFFICES ASSUME NEW f, NEW m, Member(ls, f, m)
               PROVE  m \in Nodes /\ m # n /\ key_'[m] = key_[m]
    OBVIOUS
  <2>1. m # n /\ ~ (Full /\ m = Victim)
    BY <1>1, <1>2
  <2>2. m \in Nodes
    <3>1. PICK i \in 1 .. Len(ls) : m \in ToSet(ls[i].nodes)
      BY DEF Member
    <3>2. ls[i].nodes \in Seq(Nodes)
      BY <1>1, SmallListType DEF Good
    <3> QED BY <3>1, <3>2 DEF ToSet
  <2> QED BY <1>2, <2>1, <2>2
<1>8. MapsRight'
  <2>1. ASSUME NEW j \in DOMAIN km \cup {k}
        PROVE  key_'[kmap_'[j]] = j /\ Member(lists', fmap_'[j], kmap_'[j])
    <3>1. CASE j = k
      BY <1>5, <1>6, <3>1 DEF Gains
    <3>2. CASE j # k
      <4>1. Member(ls, fmap_[j], kmap_[j]) /\ key_[kmap_[j]] = j
        BY <1>1, <3>2 DEF LFUInv, MapsRight
      <4>2. kmap_'[j] = kmap_[j] /\ fmap_'[j] = fmap_[j]
        BY <1>6, <3>2
      <4> QED BY <1>5, <1>7, <4>1, <4>2 DEF Gains
    <3> QED BY <3>1, <3>2
  <2> QED BY <1>6, <2>1 DEF MapsRight
<1>9. OneWay'
  <2>1. /\ older' \subseteq (DOMAIN fm \cup {k}) \X (DOMAIN fm \cup {k})
        /\ \A a, b : <<a, b>> \in older' => <<b, a>> \notin older'
    BY <1>2, UseOneWay DEF LFUInv
  <2>2. DOMAIN fm \cup {k} = DOMAIN fmap_'
    BY <1>1, <1>6
  <2> QED BY ONLY <2>1, <2>2 DEF OneWay
<1>10. ASSUME ~ twice' PROVE ~ twice /\ k \notin DOMAIN kmap_ /\ k \notin DOMAIN km
  BY <1>1, <1>2, <1>10
<1>11. ASSUME ~ twice', NEW g, NEW m, Member(ls, g, m)
       PROVE  key_[m] \in DOMAIN km /\ key_[m] # k /\ kmap_[key_[m]] = m /\ fmap_[key_[m]] = g
  <2>1. Member(lists, g, m) /\ ~ (Full /\ m = Victim)
    BY <1>1, <1>11
  <2>2. key_[m] \in DOMAIN kmap_ /\ kmap_[key_[m]] = m /\ fmap_[key_[m]] = g
    BY <1>10, <1>11, <2>1 DEF LFUInv, NoStrays
  <2>3. ASSUME Full PROVE key_[m] # key_[Victim]
    <3>1. 1 \in 1 .. Len(lists)
      BY <1>1, <2>3 DEF LFUInv, Good
    <3>2. Member(lists, lists[1].freq, Victim)
      BY <1>1, <2>3, <3>1 DEF Member
    <3>3. kmap_[key_[Victim]] = Victim
      BY <1>10, <1>11, <3>2 DEF LFUInv, NoStrays
    <3> QED BY <2>1, <2>2, <2>3, <3>3
  <2> QED BY <1>1, <1>10, <1>11, <2>2, <2>3
<1>12. ASSUME ~ twice' PROVE NoStrays'
  <2>1. ASSUME NEW g, NEW m, Member(lists', g, m)
        PROVE  key_'[m] \in DOMAIN kmap_' /\ kmap_'[key_'[m]] = m /\ fmap_'[key_'[m]] = g
    <3>1. CASE m = n /\ g = 1
      BY <1>6, <3>1
    <3>2. CASE Member(ls, g, m)
      BY <1>6, <1>7, <1>11, <1>12, <3>2
    <3> QED BY <1>5, <2>1, <3>1, <3>2 DEF Gains
  <2> QED BY <2>1 DEF NoStrays
<1>13. ASSUME ~ twice' PROVE OldestLast'
  <2>1. ASSUME NEW a, NEW b, Ahead(lists', a, b)
        PROVE  <<key_'[b], key_'[a]>> \in older'
    <3>1. CASE Ahead(ls, a, b)
      <4>1. PICK g : Member(ls, g, a) /\ Member(ls, g, b)
        BY <1>1, <3>1, AheadMember
      <4>2. /\ key_'[a] = key_[a] /\ key_[a] \in DOMAIN fm \ {k}
            /\ key_'[b] = key_[b] /\ key_[b] \in DOMAIN fm \ {k}
        BY <1>1, <1>7, <1>11, <1>13, <4>1
      <4>3. <<key_[b], key_[a]>> \in older
        BY <1>1, <1>10, <1>13, <3>1 DEF LFUInv, OldestLast
      <4> QED BY <1>2, <4>2, <4>3 DEF UsedLast
    <3>2. CASE a = n /\ Member(ls, 1, b)
      <4>1. key_'[a] = k /\ key_'[b] = key_[b] /\ key_[b] \in DOMAIN fm \ {k}
        BY <1>1, <1>6, <1>7, <1>11, <1>13, <3>2
      <4> QED BY <1>2, <4>1 DEF UsedLast
    <3> QED BY <1>5, <2>1, <3>1, <3>2 DEF Gains
  <2> QED BY <2>1 DEF OldestLast
<1>14. IsFiniteSet(DOMAIN kmap_')
  <2>1. IsFiniteSet(DOMAIN km)
    BY <1>1, FS_Subset DEF LFUInv
  <2> QED BY <1>6, <2>1, FS_AddElement
<1>15. ASSUME ~ twice' PROVE Cardinality(DOMAIN kmap_') <= capacity_
  <2>1. IsFiniteSet(DOMAIN km) /\ Cardinality(DOMAIN kmap_) \in Nat
    BY <1>1, FS_Subset, FS_CardinalityType DEF LFUInv
  <2>2. Cardinality(DOMAIN km) < capacity_ /\ Cardinality(DOMAIN km) \in Nat
    <3>1. CASE Full
      <4>1. 1 \in 1 .. Len(lists)
        BY <1>1, <3>1 DEF LFUInv, Good
      <4>2. Member(lists, lists[1].freq, Victim)
        BY <1>1, <3>1, <4>1 DEF Member
      <4>3. key_[Victim] \in DOMAIN kmap_
        BY <1>10, <1>15, <4>2 DEF LFUInv, NoStrays
      <4>4. Cardinality(DOMAIN km) = Cardinality(DOMAIN kmap_) - 1
        BY <1>1, <3>1, <4>3, FS_RemoveElement DEF LFUInv
      <4> QED BY <2>1, <3>1, <4>4, FS_CardinalityType DEF Full
    <3>2. CASE ~ Full
      BY <1>1, <1>10, <1>15, <2>1, <3>2, CacheAssumption DEF Full, LFUInv
    <3> QED BY <3>1, <3>2
  <2>3. Cardinality(DOMAIN kmap_') = Cardinality(DOMAIN km) + 1
    BY <1>6, <1>10, <1>15, <2>1, FS_AddElement
  <2> QED BY <2>2, <2>3, CacheAssumption
<1>16. TypeOK'
  <2>1. lists' \in Seq(SmallList)
    BY <1>5 DEF Good
  <2>2. key_' \in [Nodes -> Keys \cup {None}]
    BY <1>2 DEF LFUInv, TypeOK
  <2>3. DOMAIN kmap_' \subseteq Keys /\ DOMAIN fmap_' \subseteq Keys
    BY <1>1, <1>6 DEF LFUInv, TypeOK
  <2>4. \A j \in DOMAIN kmap_' : kmap_'[j] \in Nodes /\ fmap_'[j] \in 1 .. MaxFreq
    <3>1. 1 \in 1 .. MaxFreq
      BY CacheAssumption
    <3>2. \A j \in DOMAIN km : kmap_[j] \in Nodes /\ fmap_[j] \in 1 .. MaxFreq
      BY <1>1 DEF LFUInv, TypeOK, MapsRight
    <3> QED BY <1>3, <1>6, <3>1, <3>2
  <2>5. older' \subseteq Keys \X Keys
    <3>1. DOMAIN fmap_' \subseteq Keys /\ older' \subseteq (DOMAIN fmap_') \X (DOMAIN fmap_')
      BY <1>9, <2>3 DEF OneWay
    <3> QED BY ONLY <3>1
  <2>6. twice' \in BOOLEAN
    BY <1>2
  <2> QED BY <1>6, <2>1, <2>2, <2>3, <2>4, <2>5, <2>6 DEF TypeOK
<1> QED
  BY <1>5, <1>8, <1>9, <1>10, <1>12, <1>13, <1>14, <1>15, <1>16 DEF LFUInv

-----------------------------------------------------------------------------
(* The theorems.                                                           *)

\* The cache starts empty.
LEMMA InitHolds == ASSUME Init PROVE LFUInv
<1>1. lists = <<>> /\ kmap_ = <<>> /\ fmap_ = <<>> /\ older = {} /\ twice = FALSE
  BY DEF Init
<1>2. DOMAIN kmap_ = {} /\ DOMAIN fmap_ = {} /\ Len(lists) = 0 /\ lists \in Seq(SmallList)
  BY <1>1
<1>3. Good(lists) /\ NonEmpty(lists, 0)
  BY <1>2 DEF Good, Rising, Disjoint, Distinct, NonEmpty
<1>4. (\A f, n : ~ Member(lists, f, n)) /\ (\A a, b : ~ Ahead(lists, a, b))
  BY <1>2 DEF Member, Ahead
<1>5. IsFiniteSet(DOMAIN kmap_) /\ Cardinality(DOMAIN kmap_) <= capacity_
  BY <1>2, FS_EmptySet, CacheAssumption
<1>6. TypeOK
  BY <1>1, <1>2 DEF Init, TypeOK
<1>7. MapsRight /\ OneWay /\ NoStrays /\ OldestLast
  BY <1>1, <1>2, <1>4 DEF MapsRight, OneWay, NoStrays, OldestLast
<1> QED BY <1>3, <1>5, <1>6, <1>7 DEF LFUInv

\* Every operation keeps the invariant.
LEMMA NextKeeps == ASSUME LFUInv, [Next]_vars PROVE LFUInv'
<1>1. CASE UNCHANGED vars
  BY <1>1 DEF vars, maps, hist, LFUInv, TypeOK, MapsRight, OneWay, NoStrays, OldestLast
<1>2. ASSUME NEW t \in Threads, Set(t) PROVE LFUInv'
  <2>1. want[t] \in Keys /\ want' \in [Threads -> Keys \cup {None}]
    BY <1>2 DEF Set, LFUInv, TypeOK
  <2>2. CASE capacity_ = 0
    <3>1. UNCHANGED <<lists, key_, kmap_, fmap_, older, twice>>
      BY <1>2, <2>2 DEF Set, maps, hist
    <3> QED BY <2>1, <3>1 DEF LFUInv, TypeOK, MapsRight, OneWay, NoStrays, OldestLast
  <2>3. CASE capacity_ # 0
    BY <1>2, <2>1, <2>3, InsertKeeps, CacheAssumption DEF Set
  <2> QED BY <2>2, <2>3
<1>3. ASSUME NEW t \in Threads, NEW k \in Keys, GetMiss(t, k) PROVE LFUInv'
  <2>1. want' \in [Threads -> Keys \cup {None}]
    BY <1>3 DEF GetMiss, LFUInv, TypeOK
  <2>2. UNCHANGED <<lists, key_, kmap_, fmap_, older, twice>>
    BY <1>3 DEF GetMiss, maps, hist
  <2> QED BY <2>1, <2>2 DEF LFUInv, TypeOK, MapsRight, OneWay, NoStrays, OldestLast
<1>4. ASSUME NEW k \in Keys, GetHit(k) PROVE LFUInv'
  BY <1>4, HitKeeps
<1> QED BY <1>1, <1>2, <1>3, <1>4 DEF Next, Get

\* The lists are in order, without empty ones, and the maps are right about them;
\* until a file is set twice every node is its key's, each small list is in the
\* order of the last use, and the cache is within its capacity (get() and set(),
\* LFUCache.cc:117-159).
THEOREM Invariant == Spec => []LFUInv
<1>1. Init => LFUInv
  BY InitHolds
<1>2. LFUInv /\ [Next]_vars => LFUInv'
  BY NextKeeps
<1> QED BY <1>1, <1>2, PTL DEF Spec

\* The lists, the maps and the nodes keep their types: in particular the
\* frequencies that fmap_ names are counted from 1 and never pass the bound.
THEOREM TypeCorrect == Spec => []TypeOK
<1>1. LFUInv => TypeOK
  BY DEF LFUInv
<1> QED BY <1>1, Invariant, PTL

\* addFreq() keeps the big list ascending and without empty small lists, and a
\* node in one small list, whatever is looked up, set and given up (addFreq(),
\* LFUCache.cc:85).
THEOREM ListsHold == Spec => []Lists
<1>1. ASSUME LFUInv PROVE Lists
  <2>1. DOMAIN lists = 1 .. Len(lists) /\ Len(lists) \in Nat
    BY <1>1 DEF LFUInv, Good
  <2>2. \A i \in 1 .. Len(lists) : i # 0
    BY <2>1
  <2>3. \A i \in 1 .. Len(lists) : lists[i].nodes # <<>>
    BY <1>1, <2>2 DEF LFUInv, NonEmpty
  <2> QED BY <1>1, <2>1, <2>3 DEF LFUInv, Good, Rising, Disjoint, Distinct, Lists
<1> QED BY <1>1, Invariant, PTL

\* The two maps agree and are right about the lists, also after two loops have
\* set the same file (get() and set(), LFUCache.cc:117 and 132).
THEOREM MapsHold == Spec => []MapsAgree
<1>1. ASSUME LFUInv PROVE MapsAgree
  <2>1. DOMAIN lists = 1 .. Len(lists)
    BY <1>1 DEF LFUInv, Good
  <2> QED BY <1>1, <2>1 DEF LFUInv, MapsRight, Member, MapsAgree
<1> QED BY <1>1, Invariant, PTL

\* A node in the lists is the one its key is mapped to until a file is set that
\* is in the cache (set() does not look whether it is, LFUCache.cc:132).
THEOREM StrayNode == Spec => []NoStrayNode
<1>1. ASSUME LFUInv PROVE NoStrayNode
  <2>1. DOMAIN lists = 1 .. Len(lists)
    BY <1>1 DEF LFUInv, Good
  <2>2. ASSUME NEW n \in Linked PROVE \E f : Member(lists, f, n)
    BY <2>1, <2>2 DEF Linked, Member
  <2> QED BY <1>1, <2>2 DEF LFUInv, NoStrays, NoStrayNode
<1> QED BY <1>1, Invariant, PTL

\* The last node of the first list is the least used file, and of these the one
\* that is unused for longest.
LEMMA VictimIs ==
    ASSUME LFUInv, ~ twice, capacity_ > 0, Full
    PROVE  Policy!Victim = key_[Victim]
<1> DEFINE v == key_[Victim]  first == lists[1].freq
           Best(k) == \A j \in Policy!LeastUsed \ {k} : <<k, j>> \in older
<1>1. /\ 1 \in 1 .. Len(lists) /\ Victim \in ToSet(lists[1].nodes)
      /\ NoStrays /\ MapsRight /\ OneWay /\ OldestLast /\ Good(lists)
  BY RoomIs DEF LFUInv, Good
<1>2. v \in DOMAIN fmap_ /\ kmap_[v] = Victim /\ fmap_[v] = first /\ first \in Nat
  <2>1. Member(lists, first, Victim)
    BY <1>1 DEF Member
  <2> QED BY <1>1, <2>1, SmallListType DEF NoStrays, MapsRight, Good
<1>3. ASSUME NEW j \in DOMAIN fmap_
      PROVE  /\ first <= fmap_[j] /\ fmap_[j] \in Nat
             /\ fmap_[j] = first => kmap_[j] \in ToSet(lists[1].nodes)
  <2>1. PICK i \in 1 .. Len(lists) : lists[i].freq = fmap_[j] /\ kmap_[j] \in ToSet(lists[i].nodes)
    BY <1>1 DEF MapsRight, Member
  <2>2. lists[i].freq \in Nat
    BY <1>1, SmallListType DEF Good
  <2>3. CASE i = 1
    BY <1>2, <2>1, <2>3
  <2>4. CASE i # 1
    <3>1. 1 < i
      BY <2>4
    <3>2. first < lists[i].freq
      BY <1>1, <3>1 DEF Good, Rising
    <3> QED BY <1>2, <2>1, <2>2, <3>2
  <2> QED BY <2>3, <2>4
<1>4. Policy!LeastUsed = {k \in DOMAIN fmap_ : \A j \in DOMAIN fmap_ : fmap_[k] <= fmap_[j]}
  BY DEF Policy!LeastUsed, Policy!Cached
<1>5. v \in Policy!LeastUsed
  BY <1>2, <1>3, <1>4
<1>6. ASSUME NEW j \in Policy!LeastUsed \ {v} PROVE <<v, j>> \in older
  <2>1. j \in DOMAIN fmap_ /\ fmap_[j] <= fmap_[v]
    BY <1>2, <1>4
  <2>2. fmap_[j] = first /\ kmap_[j] \in ToSet(lists[1].nodes)
    <3>1. fmap_[j] \in Nat /\ first <= fmap_[j] /\ (fmap_[j] = first => kmap_[j] \in ToSet(lists[1].nodes))
      BY <1>3, <2>1
    <3>2. fmap_[j] <= first
      BY <1>2, <2>1
    <3> QED BY <1>2, <3>1, <3>2
  <2>3. key_[kmap_[j]] = j /\ kmap_[j] # Victim
    BY <1>1, <1>2, <2>1 DEF MapsRight
  <2>4. Precedes(lists[1].nodes, kmap_[j], Victim)
    <3>1. lists # <<>>
      BY RoomIs
    <3> QED BY <1>1, <2>2, <2>3, <3>1, Leave DEF LFUInv, Victim
  <2>5. Ahead(lists, kmap_[j], Victim)
    BY <1>1, <2>4 DEF Ahead
  <2> QED BY <1>1, <2>3, <2>5 DEF OldestLast
<1> HIDE DEF v
<1>7. ASSUME NEW k \in Policy!LeastUsed, Best(k) PROVE k = v
  <2>1. CASE k # v
    <3>1. <<k, v>> \in older /\ <<v, k>> \in older
      BY <1>5, <1>6, <1>7, <2>1
    <3> QED BY <1>1, <3>1 DEF OneWay
  <2> QED BY <2>1
<1>8. Policy!Victim = CHOOSE k \in Policy!LeastUsed : Best(k)
  BY DEF Policy!Victim
<1>9. Best(v)
  BY <1>6
<1> HIDE DEF Best
<1>10. (CHOOSE k \in Policy!LeastUsed : Best(k)) = v
  BY <1>5, <1>7, <1>9
<1> QED BY <1>8, <1>10 DEF v

\* The Cardinality of LFUPolicy is that of LFUCache.
LEMMA PolicyCardinality == \A D : Policy!Cardinality(D) = Cardinality(D)
BY Zenon DEF Cardinality, Policy!Cardinality

\* A hit is a hit of the policy.
LEMMA HitFollows ==
    ASSUME LFUInv, NEW k \in Keys, GetHit(k)
    PROVE  Policy!Hit(k)
BY DEF GetHit, UsedLast, Policy!Hit, Policy!Cached, Policy!UsedLast

\* set() of a file that is not there is a fill of the policy.
LEMMA InsertFollows ==
    ASSUME LFUInv, capacity_ > 0, NEW k \in Keys, Insert(k), ~ twice'
    PROVE  Policy!Fill(k)
<1>1. ~ twice /\ k \notin DOMAIN kmap_
  BY DEF Insert
<1>2. DOMAIN kmap_ = DOMAIN fmap_ /\ Cardinality(DOMAIN kmap_) <= capacity_
      /\ Cardinality(DOMAIN kmap_) \in Nat
  BY <1>1, FS_CardinalityType DEF LFUInv, MapsRight
<1>3. DOMAIN Room.fmap_ = Policy!Kept
  <2>1. CASE Full
    <3>1. DOMAIN Room.fmap_ = DOMAIN fmap_ \ {key_[Victim]}
      BY <1>2, <2>1, RoomIs
    <3>2. ~ (Cardinality(DOMAIN fmap_) < capacity_)
      BY <1>2, <2>1, CacheAssumption DEF Full
    <3> QED BY <1>1, <2>1, <3>1, <3>2, VictimIs, PolicyCardinality DEF Policy!Kept, Policy!Cached
  <2>2. CASE ~ Full
    <3>1. DOMAIN Room.fmap_ = DOMAIN fmap_
      BY <1>2, <2>2, RoomIs
    <3>2. Cardinality(DOMAIN fmap_) < capacity_
      BY <1>2, <2>2, CacheAssumption DEF Full
    <3> QED BY <3>1, <3>2, PolicyCardinality DEF Policy!Kept, Policy!Cached
  <2> QED BY <2>1, <2>2
<1>4. \A j \in DOMAIN Room.fmap_ : Room.fmap_[j] = fmap_[j]
  BY RoomIs
<1>5. /\ fmap_' = [j \in DOMAIN Room.fmap_ \cup {k} |-> IF j = k THEN 1 ELSE Room.fmap_[j]]
      /\ older' = UsedLast(DOMAIN Room.fmap_, k)
  BY DEF Insert
<1>6. fmap_' = [j \in Policy!Kept \cup {k} |-> IF j = k THEN 1 ELSE fmap_[j]]
  BY <1>3, <1>4, <1>5
<1>7. older' = Policy!UsedLast(Policy!Kept, k)
  BY <1>3, <1>5 DEF UsedLast, Policy!UsedLast
<1> QED BY <1>1, <1>2, <1>6, <1>7 DEF Policy!Fill, Policy!Cached

\* Until a file is set that is in the cache, what the lists and the maps do is
\* what LFUCache.h:56 and LFUCache.cc:136 promise: hits count the uses, and set() of a file makes
\* room for it by giving up the least used file, of these the one that is unused
\* for longest.
THEOREM LFUPolicyFollowed == Spec => FollowsPolicy
<1>1. Init => Policy!Init
  BY DEF Init, Policy!Init
<1>2. ASSUME LFUInv, Next PROVE twice' \/ Policy!Next \/ UNCHANGED <<fmap_, older>>
  <2>1. ASSUME NEW t \in Threads, Set(t), ~ twice'
        PROVE  Policy!Next \/ UNCHANGED <<fmap_, older>>
    <3>1. want[t] \in Keys
      BY <1>2, <2>1 DEF Set, LFUInv, TypeOK
    <3>2. CASE capacity_ = 0
      BY <2>1, <3>2 DEF Set, maps, hist
    <3>3. CASE capacity_ # 0
      <4>1. Policy!Fill(want[t])
        BY <1>2, <2>1, <3>1, <3>3, InsertFollows, CacheAssumption DEF Set
      <4> QED BY <3>1, <4>1 DEF Policy!Next
    <3> QED BY <3>2, <3>3
  <2>2. ASSUME NEW t \in Threads, NEW k \in Keys, GetMiss(t, k) PROVE UNCHANGED <<fmap_, older>>
    BY <2>2 DEF GetMiss, maps, hist
  <2>3. ASSUME NEW k \in Keys, GetHit(k) PROVE Policy!Next
    BY <1>2, <2>3, HitFollows DEF Policy!Next
  <2> QED BY <1>2, <2>1, <2>2, <2>3 DEF Next, Get
<1>3. LFUInv /\ [Next]_vars => [twice' \/ Policy!Next \/ UNCHANGED <<fmap_, older>>]_vars
  BY <1>2
<1> QED BY <1>1, <1>3, Invariant, PTL DEF Spec, FollowsPolicy
-----------------------------------------------------------------------------
(* A single loop.                                                          *)

\* A file that get() did not find is still not in the cache when set() comes.
StillMissing == \A t \in Threads : want[t] # None /\ capacity_ > 0 => want[t] \notin DOMAIN kmap_

LEMMA StillMissingKept ==
    ASSUME NEW loop, Threads = {loop}, LFUInv, ~ twice, StillMissing, [Next]_vars
    PROVE  ~ twice' /\ StillMissing'
<1>1. CASE UNCHANGED vars
  BY <1>1 DEF vars, maps, hist, StillMissing
<1>2. ASSUME NEW t \in Threads, Set(t) PROVE ~ twice' /\ StillMissing'
  <2>1. want'[loop] = None
    BY <1>2 DEF Set, LFUInv, TypeOK
  <2>2. StillMissing'
    BY <2>1 DEF StillMissing
  <2>3. CASE capacity_ = 0
    BY <1>2, <2>2, <2>3 DEF Set, hist
  <2>4. CASE capacity_ # 0
    <3>1. capacity_ > 0
      BY <2>4, CacheAssumption
    <3>2. want[t] \notin DOMAIN kmap_ /\ Insert(want[t])
      BY <1>2, <2>4, <3>1 DEF Set, StillMissing
    <3> QED BY <2>2, <3>2 DEF Insert
  <2> QED BY <2>3, <2>4
<1>3. ASSUME NEW t \in Threads, NEW k \in Keys, GetMiss(t, k) PROVE ~ twice' /\ StillMissing'
  <2>1. want'[loop] = k /\ kmap_' = kmap_ /\ ~ twice'
    BY <1>3 DEF GetMiss, maps, hist, LFUInv, TypeOK
  <2>2. capacity_ > 0 => k \notin DOMAIN kmap_
    BY <1>3 DEF GetMiss, LFUInv, MapsRight
  <2> QED BY <2>1, <2>2 DEF StillMissing
<1>4. ASSUME NEW k \in Keys, GetHit(k) PROVE ~ twice' /\ StillMissing'
  BY <1>4 DEF GetHit, StillMissing
<1> QED BY <1>1, <1>2, <1>3, <1>4 DEF Next, Get

\* With one loop nobody comes between get() and set() of a connection
\* (HttpConnection.cc:459), no file is set twice, and the cache keeps to its capacity
\* (LFUCache.cc:135): what more than one loop can break.
THEOREM OneLoopBounded ==
    ASSUME NEW CONSTANT loop, Threads = {loop}
    PROVE  Spec => [](Bounded /\ ~ twice)
<1>1. Init => ~ twice /\ StillMissing
  BY DEF Init, StillMissing
<1>2. LFUInv /\ ~ twice /\ StillMissing /\ [Next]_vars => ~ twice' /\ StillMissing'
  BY StillMissingKept
<1>3. LFUInv /\ ~ twice => Bounded
  BY DEF LFUInv, Bounded
<1> QED BY <1>1, <1>2, <1>3, Invariant, PTL DEF Spec

\* The cache of a single loop implements the LFU policy, from its first step to
\* its last (get() and set(), LFUCache.cc:117-159).
THEOREM OneLoopIsLFU ==
    ASSUME NEW CONSTANT loop, Threads = {loop}
    PROVE  Spec => Policy!Spec
<1>1. /\ ~ twice'
      /\ [twice' \/ Policy!Next \/ UNCHANGED <<fmap_, older>>]_vars
      => [Policy!Next]_<<fmap_, older>>
  BY DEF vars, maps, hist
<1> QED BY <1>1, OneLoopBounded, LFUPolicyFollowed, PTL DEF FollowsPolicy, Policy!Spec
=============================================================================
