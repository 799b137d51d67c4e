------------------------ MODULE AsyncLoggingRefinement ------------------------
(***************************************************************************)
(* Proof that the asynchronous logger implements the pipe of LogPipe, for  *)
(* any number of buffers and lines and any sizes, and that therefore no    *)
(* line is written twice or out of order.                                  *)
(***************************************************************************)
EXTENDS AsyncLoggingProofs

\* written counts what the back end has written of this round, and a buffer
\* without bytes has no lines.
RoundInv ==
    /\ backend = "trim" => written = 0
    /\ backend = "recycle" => written = Len(buffersToWrite)
    /\ \A b \in Buffers : length[b] = 0 => text[b] = <<>>

AllInv == IInv /\ DataOK /\ RoundInv

-----------------------------------------------------------------------------
(* The lines of a sequence s of buffers whose texts are t.                 *)

LinesOf(t, s) == FlattenSeq([i \in DOMAIN s |-> t[s[i]]])

Texts(B, S) == [B -> Seq(S)]

LEMMA TextsType ==
    ASSUME NEW B, NEW S, NEW t \in Texts(B, S), NEW s \in Seq(B)
    PROVE  [i \in DOMAIN s |-> t[s[i]]] \in Seq(Seq(S))
<1>1. DOMAIN s = 1 .. Len(s) /\ Len(s) \in Nat
  OBVIOUS
<1>2. \A i \in 1 .. Len(s) : t[s[i]] \in Seq(S)
  BY DEF Texts
<1> QED BY <1>1, <1>2

LEMMA LinesOfType ==
    ASSUME NEW B, NEW S, NEW t \in Texts(B, S), NEW s \in Seq(B)
    PROVE  LinesOf(t, s) \in Seq(S)
<1> DEFINE ts == [i \in DOMAIN s |-> t[s[i]]]
<1>1. ts \in Seq(Seq(S))
  BY TextsType
<1> HIDE DEF ts
<1>2. FlattenSeq(ts) \in Seq(S)
  BY <1>1, FlattenType
<1> QED BY <1>2 DEF LinesOf, ts

LEMMA LinesOfEmpty == ASSUME NEW t PROVE LinesOf(t, <<>>) = <<>>
<1>1. [i \in DOMAIN <<>> |-> t[<<>>[i]]] = <<>>
  OBVIOUS
<1> QED BY ONLY <1>1, FlattenEmpty, Zenon DEF LinesOf

\* The texts of the buffers of s are all that matters.
LEMMA LinesOfAgree ==
    ASSUME NEW B, NEW s \in Seq(B), NEW t, NEW u, \A b \in ToSet(s) : t[b] = u[b]
    PROVE  LinesOf(t, s) = LinesOf(u, s)
<1>1. \A i \in DOMAIN s : t[s[i]] = u[s[i]]
  BY DEF ToSet
<1>2. [i \in DOMAIN s |-> t[s[i]]] = [i \in DOMAIN s |-> u[s[i]]]
  BY <1>1
<1> QED BY <1>2 DEF LinesOf

LEMMA LinesOfConcat ==
    ASSUME NEW B, NEW S, NEW t \in Texts(B, S), NEW s \in Seq(B), NEW r \in Seq(B)
    PROVE  LinesOf(t, s \o r) = LinesOf(t, s) \o LinesOf(t, r)
<1> DEFINE ts == [i \in DOMAIN s |-> t[s[i]]]
           tr == [i \in DOMAIN r |-> t[r[i]]]
           tsr == [i \in DOMAIN (s \o r) |-> t[(s \o r)[i]]]
           Q == Seq(S)
<1>1. s \o r \in Seq(B)
  BY ConcatProperties
<1>2. ts \in Seq(Q) /\ tr \in Seq(Q) /\ tsr \in Seq(Q)
  BY <1>1, TextsType
<1>3. /\ Len(ts) = Len(s) /\ Len(tr) = Len(r) /\ Len(tsr) = Len(s) + Len(r)
      /\ \A i \in 1 .. Len(s) : ts[i] = t[s[i]]
      /\ \A i \in 1 .. Len(r) : tr[i] = t[r[i]]
      /\ \A i \in 1 .. Len(s) + Len(r) : tsr[i] = t[(s \o r)[i]]
  BY ConcatProperties
<1>4. \A i \in 1 .. Len(s) + Len(r) : (s \o r)[i] = IF i <= Len(s) THEN s[i] ELSE r[i - Len(s)]
  BY ConcatProperties
<1> DEFINE p == Len(s)  q == Len(r)
<1>5. p \in Nat /\ q \in Nat
  OBVIOUS
<1> HIDE DEF ts, tr, tsr, Q
<1>6. /\ ts \o tr \in Seq(Q) /\ Len(ts \o tr) = p + q
      /\ \A i \in 1 .. p + q : (ts \o tr)[i] = IF i <= p THEN ts[i] ELSE tr[i - p]
  <2>1. /\ ts \o tr \in Seq(Q) /\ Len(ts \o tr) = Len(ts) + Len(tr)
        /\ \A i \in 1 .. Len(ts) + Len(tr) :
               (ts \o tr)[i] = IF i <= Len(ts) THEN ts[i] ELSE tr[i - Len(ts)]
    BY <1>2, ConcatProperties
  <2> QED BY <1>3, <2>1
<1>7. \A i \in 1 .. p + q : tsr[i] = (ts \o tr)[i]
  <2>1. /\ \A i \in 1 .. p + q : tsr[i] = t[(s \o r)[i]]
        /\ \A i \in 1 .. p + q : (s \o r)[i] = IF i <= p THEN s[i] ELSE r[i - p]
        /\ \A i \in 1 .. p : ts[i] = t[s[i]]
        /\ \A i \in 1 .. q : tr[i] = t[r[i]]
    BY <1>3, <1>4
  <2> HIDE DEF p, q
  <2> SUFFICES ASSUME NEW i \in 1 .. p + q PROVE tsr[i] = (ts \o tr)[i]
    OBVIOUS
  <2>2. CASE i <= p
    <3>1. i \in 1 .. p
      BY <1>5, <2>2
    <3>2. tsr[i] = t[(s \o r)[i]] /\ (s \o r)[i] = s[i] /\ ts[i] = t[s[i]]
      BY ONLY <2>1, <2>2, <3>1, i \in 1 .. p + q
    <3>3. (ts \o tr)[i] = ts[i]
      BY ONLY <1>6, <2>2, i \in 1 .. p + q
    <3> QED BY ONLY <3>2, <3>3
  <2>3. CASE ~ (i <= p)
    <3>1. i - p \in 1 .. q
      BY <1>5, <2>3
    <3>2. tsr[i] = t[(s \o r)[i]] /\ (s \o r)[i] = r[i - p] /\ tr[i - p] = t[r[i - p]]
      BY ONLY <2>1, <2>3, <3>1, i \in 1 .. p + q
    <3>3. (ts \o tr)[i] = tr[i - p]
      BY ONLY <1>6, <2>3, i \in 1 .. p + q
    <3> QED BY ONLY <3>2, <3>3
  <2> QED BY <2>2, <2>3
<1>8. tsr = ts \o tr
  BY <1>2, <1>3, <1>6, <1>7, SeqEqual
<1>9. FlattenSeq(ts \o tr) = FlattenSeq(ts) \o FlattenSeq(tr)
  BY <1>2, FlattenConcat DEF Q
<1> QED BY <1>8, <1>9 DEF LinesOf, ts, tr, tsr

LEMMA LinesOfOne ==
    ASSUME NEW B, NEW S, NEW t \in Texts(B, S), NEW b \in B
    PROVE  LinesOf(t, <<b>>) = t[b]
<1>1. [i \in DOMAIN <<b>> |-> t[<<b>>[i]]] = <<t[b]>>
  OBVIOUS
<1>2. t[b] \in Seq(S)
  BY DEF Texts
<1> QED BY <1>1, <1>2, FlattenOne DEF LinesOf

LEMMA LinesOfAppend ==
    ASSUME NEW B, NEW S, NEW t \in Texts(B, S), NEW s \in Seq(B), NEW b \in B
    PROVE  LinesOf(t, Append(s, b)) = LinesOf(t, s) \o t[b]
<1> DEFINE r == <<b>>
<1>1. r \in Seq(B) /\ Append(s, b) = s \o r
  BY AppendIsConcat
<1>2. LinesOf(t, r) = t[b]
  BY LinesOfOne
<1> HIDE DEF r
<1>3. LinesOf(t, s \o r) = LinesOf(t, s) \o LinesOf(t, r)
  BY <1>1, LinesOfConcat
<1> QED BY <1>1, <1>2, <1>3

LEMMA LinesOfElements ==
    ASSUME NEW B, NEW S, NEW t \in Texts(B, S), NEW s \in Seq(B)
    PROVE  ToSet(LinesOf(t, s)) = UNION {ToSet(t[b]) : b \in ToSet(s)}
<1> DEFINE ts == [i \in DOMAIN s |-> t[s[i]]]
<1>1. ts \in Seq(Seq(S)) /\ Len(ts) = Len(s) /\ DOMAIN s = 1 .. Len(s)
      /\ \A i \in 1 .. Len(s) : ts[i] = t[s[i]]
  BY TextsType
<1> HIDE DEF ts
<1>2. ToSet(FlattenSeq(ts)) = UNION {ToSet(ts[i]) : i \in 1 .. Len(ts)}
  BY <1>1, FlattenElements
<1>3. UNION {ToSet(ts[i]) : i \in 1 .. Len(ts)} = UNION {ToSet(t[b]) : b \in ToSet(s)}
  <2>1. ToSet(s) = {s[i] : i \in 1 .. Len(s)}
    BY <1>1 DEF ToSet
  <2>2. \A b \in ToSet(s) : \E i \in 1 .. Len(s) : b = s[i]
    BY <2>1
  <2>3. \A i \in 1 .. Len(s) : s[i] \in ToSet(s) /\ ts[i] = t[s[i]]
    BY <1>1, <2>1
  <2>4. Len(ts) = Len(s)
    BY <1>1
  <2> QED BY ONLY <2>2, <2>3, <2>4
<1> QED BY <1>2, <1>3 DEF LinesOf, ts

-----------------------------------------------------------------------------
(* What is pending, and the invariant.                                     *)

\* what is left to write of the round
ToWrite == SubSeq(buffersToWrite, written + 1, Len(buffersToWrite))

LEMMA PendingIs ==
    /\ Pending = (LinesOf(text, ToWrite) \o LinesOf(text, buffers_)) \o text[currentBuffer_]
    /\ Pending' = (LinesOf(text', ToWrite') \o LinesOf(text', buffers_')) \o text'[currentBuffer_']
BY DEF Pending, Lines, LinesOf, ToWrite

LEMMA PendingParts ==
    ASSUME IInv, DataOK
    PROVE  /\ ToWrite \in Seq(Buffers) /\ ToSet(ToWrite) \subseteq ToSet(buffersToWrite)
           /\ buffers_ \in Seq(Buffers) /\ currentBuffer_ \in Buffers
           /\ LinesOf(text, ToWrite) \in Seq(1 .. appended)
           /\ LinesOf(text, buffers_) \in Seq(1 .. appended)
           /\ text[currentBuffer_] \in Seq(1 .. appended)
           /\ Pending \in Seq(1 .. appended)
<1> DEFINE n == Len(buffersToWrite)
<1>1. buffers_ \in Seq(Buffers) /\ currentBuffer_ \in Buffers
  BY DEF IInv, PtrOK, Ptr, ExclusiveOwnership
<1>2. ToWrite \in Seq(Buffers) /\ ToSet(ToWrite) \subseteq ToSet(buffersToWrite)
  <2>1. buffersToWrite \in Seq(Buffers) /\ written + 1 \in 1 .. n + 1 /\ n \in 0 .. n
    BY DEF IInv, PtrOK
  <2> QED BY <2>1, SubSeqDistinct DEF ToWrite
<1>3. text \in [Buffers -> Seq(1 .. appended)]
  BY DEF DataOK
<1>4. LinesOf(text, ToWrite) \in Seq(1 .. appended) /\ LinesOf(text, buffers_) \in Seq(1 .. appended)
  <2>1. text \in Texts(Buffers, 1 .. appended)
    BY <1>3 DEF Texts
  <2> QED BY <1>1, <1>2, <2>1, LinesOfType
<1>5. text[currentBuffer_] \in Seq(1 .. appended)
  BY <1>1, <1>3
<1>6. Pending \in Seq(1 .. appended)
  BY <1>4, <1>5, PendingIs, ConcatProperties
<1> QED BY <1>1, <1>2, <1>4, <1>5, <1>6

\* What append() does to the buffers and the lines.
LEMMA AppendText ==
    ASSUME IInv, DataOK, NEW l \in 1 .. MaxLine, AppendLine(l)
    PROVE  /\ appended' = appended + 1
           /\ UNCHANGED <<output, lost, buffersToWrite, written>>
           /\ backend' \in {backend, "woken"}
           /\ currentBuffer_ \in Buffers /\ currentBuffer_' \in Buffers
           /\ text' = [text EXCEPT ![currentBuffer_'] = Append(@, appended + 1)]
           /\ length' = [length EXCEPT ![currentBuffer_'] = @ + l]
           /\ \/ UNCHANGED <<currentBuffer_, buffers_>>
              \/ /\ currentBuffer_' # currentBuffer_
                 /\ length[currentBuffer_'] = 0
                 /\ buffers_' = Append(buffers_, currentBuffer_)
<1>1. appended' = appended + 1 /\ UNCHANGED <<output, buffersToWrite, written>> /\ lost' = lost
  BY AppendStep DEF AppendLine, file, back
<1>2. currentBuffer_ \in Buffers /\ currentBuffer_' \in Buffers
  BY AppendStep DEF IInv, PtrOK, Ptr, ExclusiveOwnership
<1>3. CASE AppendHere(l)
  BY <1>1, <1>2, <1>3 DEF AppendHere, PutLine, Fits, front
<1>4. CASE AppendNext(l)
  <2>1. /\ currentBuffer_' # currentBuffer_
        /\ currentBuffer_' \notin ToSet(buffers_) /\ currentBuffer_' \notin ToSet(buffersToWrite)
    <3>1. CASE nextBuffer_ # NULL
      BY <1>4, <3>1 DEF AppendNext, IInv, ExclusiveOwnership
    <3>2. CASE nextBuffer_ = NULL
      BY <1>2, <1>4, <3>2, NullAssumption DEF AppendNext, Fresh, Referenced
    <3> QED BY <3>1, <3>2
  <2>2. length[currentBuffer_'] = 0
    BY <1>2, <2>1 DEF IInv, SparesEmpty
  <2>3. Avail(currentBuffer_') > l
    BY <2>2, SizeAssumption DEF Avail
  <2>4. buffers_' = Append(buffers_, currentBuffer_) /\ backend' \in {backend, "woken"}
    BY <1>4 DEF AppendNext, Notify
  <2>5. /\ text' = [text EXCEPT ![currentBuffer_'] = Append(@, appended + 1)]
        /\ length' = [length EXCEPT ![currentBuffer_'] = @ + l]
    BY <1>4, <2>3 DEF AppendNext, PutLine
  <2> QED BY <1>1, <1>2, <2>1, <2>2, <2>4, <2>5
<1> QED BY <1>3, <1>4 DEF AppendLine

LEMMA InitRoundInv == Init => RoundInv
BY DEF Init, RoundInv

LEMMA RoundKept ==
    ASSUME AllInv, [Next]_vars
    PROVE  RoundInv'
<1> USE DEF AllInv, RoundInv, heap
<1>1. CASE Frontend
  <2>1. PICK l \in 1 .. MaxLine : AppendLine(l)
    BY <1>1 DEF Frontend
  <2>2. /\ UNCHANGED <<buffersToWrite, written>> /\ backend' \in {backend, "woken"}
        /\ currentBuffer_' \in Buffers
        /\ text' = [text EXCEPT ![currentBuffer_'] = Append(@, appended + 1)]
        /\ length' = [length EXCEPT ![currentBuffer_'] = @ + l]
    BY <2>1, AppendText
  <2>3. length \in [Buffers -> 0 .. Size] /\ l \in Nat /\ l > 0 /\ text \in [Buffers -> Seq(1 .. appended)]
    BY SizeAssumption DEF IInv, PtrOK, DataOK
  <2>4. \A b \in Buffers : length'[b] = 0 => text'[b] = <<>>
    <3> SUFFICES ASSUME NEW b \in Buffers, length'[b] = 0 PROVE text'[b] = <<>>
      OBVIOUS
    <3>1. b # currentBuffer_'
      BY <2>2, <2>3, SizeAssumption
    <3>2. length'[b] = length[b] /\ text'[b] = text[b]
      BY <2>2, <2>3, <3>1
    <3> QED BY <3>2
  <2> QED BY <2>2, <2>4
<1>2. CASE Owner \/ UNCHANGED vars
  BY <1>2 DEF Owner, Start, LatchWait, StopClear, StopNotify, StopJoin, Notify, back, vars
<1>3. CASE CountDown \/ SetUp \/ CheckRunning \/ Wait \/ Timeout \/ Exit
  BY <1>3 DEF CountDown, SetUp, CheckRunning, Wait, Timeout, Exit
<1>4. CASE Swap
  <2>1. written = 0
    BY <1>4 DEF Swap, IInv, PtrOK, Phase, HasSpares
  <2> QED BY <1>4, <2>1 DEF Swap
<1>5. ASSUME NEW S, Emptied(S)
      PROVE  \A b \in Buffers : length'[b] = 0 => text'[b] = <<>>
  BY <1>5 DEF Emptied
<1>6. CASE Trim
  BY <1>5, <1>6 DEF Trim
<1>7. CASE WriteBuffer \/ WriteError \/ WriteEnd
  BY <1>7 DEF WriteBuffer, WriteError, WriteLines, WriteEnd, back
<1>8. CASE Recycle
  BY <1>5, <1>8 DEF Recycle
<1> QED
  BY <1>1, <1>2, <1>3, <1>4, <1>6, <1>7, <1>8 DEF Next, Backend

LEMMA AllKept == AllInv /\ [Next]_vars => AllInv'
<1>1. IInv /\ DataOK /\ [Next]_vars => DataOK'
  BY AppendData, BackData DEF Next, Frontend
<1> QED BY <1>1, NextIInv, RoundKept DEF AllInv

LEMMA AllInvariant == Spec => []AllInv
<1>1. Init => AllInv
  BY InitIInv, InitDataOK, InitRoundInv DEF AllInv
<1> QED BY <1>1, AllKept, PTL DEF Spec

-----------------------------------------------------------------------------
(* Every step of the logger is a step of the pipe, or leaves it alone.     *)

pipe == <<appended, Pending, output, lost>>

LEMMA PipeSet == \A s : Pipe!ToSet(s) = ToSet(s)
BY DEF Pipe!ToSet, ToSet

\* append() puts the line at the end of what is pending, whichever buffer takes it.
LEMMA AcceptStep ==
    ASSUME AllInv, NEW l \in 1 .. MaxLine, AppendLine(l)
    PROVE  Pipe!Accept
<1> DEFINE x == appended + 1
           A == LinesOf(text, ToWrite)
           B == LinesOf(text, buffers_)
           c == text[currentBuffer_]
           N == 1 .. appended'
<1>1. /\ appended' = x
      /\ UNCHANGED <<output, lost, buffersToWrite, written>>
      /\ currentBuffer_ \in Buffers /\ currentBuffer_' \in Buffers
      /\ text' = [text EXCEPT ![currentBuffer_'] = Append(@, x)]
      /\ \/ UNCHANGED <<currentBuffer_, buffers_>>
         \/ /\ currentBuffer_' # currentBuffer_
            /\ length[currentBuffer_'] = 0
            /\ buffers_' = Append(buffers_, currentBuffer_)
  BY AppendText DEF AllInv
<1>2. /\ ToWrite \in Seq(Buffers) /\ ToSet(ToWrite) \subseteq ToSet(buffersToWrite)
      /\ buffers_ \in Seq(Buffers)
      /\ A \in Seq(1 .. appended) /\ B \in Seq(1 .. appended) /\ c \in Seq(1 .. appended)
  BY PendingParts DEF AllInv
<1>3. text \in [Buffers -> Seq(1 .. appended)] /\ appended \in Nat
  BY DEF AllInv, DataOK
<1>3a. text \in Texts(Buffers, 1 .. appended)
  BY <1>3 DEF Texts
<1>4. currentBuffer_' \notin ToSet(buffers_') /\ currentBuffer_' \notin ToSet(buffersToWrite)
  <2>1. ExclusiveOwnership'
    BY AppendStep DEF AllInv, IInv
  <2> QED BY <1>1, <2>1 DEF ExclusiveOwnership
<1>5. \A b \in Buffers : b # currentBuffer_' => text'[b] = text[b]
  BY <1>1, <1>3
<1>6. text'[currentBuffer_'] = Append(text[currentBuffer_'], x)
  BY <1>1, <1>3
<1>7. ToWrite' = ToWrite /\ LinesOf(text', ToWrite') = A
  <2>1. ToWrite' = ToWrite
    BY <1>1 DEF ToWrite
  <2>2. \A b \in ToSet(ToWrite) : text'[b] = text[b]
    BY <1>2, <1>4, <1>5, ElementsInType
  <2> QED BY <1>2, <2>1, <2>2, LinesOfAgree
<1>8. 1 .. appended \subseteq N /\ x \in N
  BY <1>1, <1>3
<1>9. A \in Seq(N) /\ B \in Seq(N) /\ c \in Seq(N)
  BY <1>2, <1>8, SeqMonotonic
<1>10. Pending = (A \o B) \o c
  BY PendingIs
<1>11. Pending' = Append(Pending, x)
  <2>1. CASE UNCHANGED <<currentBuffer_, buffers_>>
    <3>1. LinesOf(text', buffers_') = B
      <4>1. \A b \in ToSet(buffers_) : text'[b] = text[b]
        BY <1>2, <1>4, <1>5, <2>1, ElementsInType
      <4> QED BY <1>2, <2>1, <4>1, LinesOfAgree
    <3>2. Pending' = (A \o B) \o Append(c, x)
      BY <1>6, <1>7, <2>1, <3>1, PendingIs
    <3> HIDE DEF A, B, c, x, N
    <3>3. (A \o B) \o Append(c, x) = Append((A \o B) \o c, x)
      BY <1>8, <1>9, AppendToThird DEF PushesLast
    <3> QED BY <1>10, <3>2, <3>3
  <2>2. CASE /\ currentBuffer_' # currentBuffer_
             /\ length[currentBuffer_'] = 0
             /\ buffers_' = Append(buffers_, currentBuffer_)
    <3>1. LinesOf(text', buffers_') = B \o c
      <4>1. LinesOf(text, Append(buffers_, currentBuffer_)) = B \o c
        BY <1>1, <1>2, <1>3a, LinesOfAppend
      <4>2. buffers_' \in Seq(Buffers)
        BY <1>1, <1>2, <2>2, AppendProperties
      <4>3. \A b \in ToSet(buffers_') : text'[b] = text[b]
        BY <1>4, <1>5, <4>2, ElementsInType
      <4>4. LinesOf(text', buffers_') = LinesOf(text, buffers_')
        BY <4>2, <4>3, LinesOfAgree
      <4> QED BY <2>2, <4>1, <4>4
    <3>2. text'[currentBuffer_'] = <<x>>
      <4>1. text[currentBuffer_'] = <<>>
        BY <1>1, <2>2 DEF AllInv, RoundInv
      <4> QED BY <1>6, <4>1
    <3>3. Pending' = (A \o (B \o c)) \o <<x>>
      BY <1>7, <3>1, <3>2, PendingIs
    <3> HIDE DEF A, B, c, x, N
    <3>4. (A \o (B \o c)) \o <<x>> = Append((A \o B) \o c, x)
      <4>1. A \o B \in Seq(N)
        BY <1>9, ConcatProperties
      <4>2. (A \o B) \o c \in Seq(N)
        BY <1>9, <4>1, ConcatProperties
      <4>3. Associates(A, B, c)
        BY <1>9, ConcatAssociates
      <4>4. PICK d \in Seq(N) : d = (A \o B) \o c
        BY <4>2
      <4>5. Append(d, x) = d \o <<x>>
        BY <1>8, AppendIsConcat
      <4> QED BY ONLY <4>3, <4>4, <4>5 DEF Associates
    <3> QED BY <1>10, <3>3, <3>4
  <2> QED BY <1>1, <2>1, <2>2
<1> QED BY <1>1, <1>11 DEF Pipe!Accept

\* The exchange under the mutex moves what is pending from one vector to the other.
LEMMA SwapPipe ==
    ASSUME AllInv, Swap
    PROVE  UNCHANGED pipe
<1>1. /\ UNCHANGED <<appended, output, lost, text>>
      /\ written = 0 /\ written' = 0
      /\ buffersToWrite = <<>> /\ buffersToWrite' = Append(buffers_, currentBuffer_)
      /\ buffers_' = <<>>
      /\ currentBuffer_' = newBuffer1
      /\ text[newBuffer1] = <<>>
  <2>1. HasSpares /\ PtrOK
    BY DEF Swap, AllInv, IInv, Phase
  <2>2. written = 0 /\ buffersToWrite = <<>>
    BY <2>1 DEF HasSpares, PtrOK
  <2>3. text[newBuffer1] = <<>>
    <3>1. newBuffer1 \in Buffers
      BY <2>1 DEF HasSpares, PtrOK, Ptr
    <3>2. length[newBuffer1] = 0
      BY <2>1, <3>1 DEF HasSpares, AllInv, IInv, SparesEmpty, ExclusiveOwnership
    <3> QED BY <3>1, <3>2 DEF AllInv, RoundInv
  <2> QED BY <2>2, <2>3 DEF Swap, Filled, heap, file
<1> DEFINE B == LinesOf(text, buffers_)
           c == text[currentBuffer_]
           N == 1 .. appended
<1>2. buffers_ \in Seq(Buffers) /\ currentBuffer_ \in Buffers /\ B \in Seq(N) /\ c \in Seq(N)
  BY PendingParts DEF AllInv
<1>3a. text \in Texts(Buffers, N)
  BY DEF AllInv, DataOK, Texts
<1>4. ToWrite = <<>>
  BY <1>1 DEF ToWrite
<1>5. ToWrite' = Append(buffers_, currentBuffer_)
  <2>1. ToWrite' = SubSeq(buffersToWrite', 1, Len(buffersToWrite'))
    BY <1>1 DEF ToWrite
  <2>2. buffersToWrite' \in Seq(Buffers)
    BY <1>1, <1>2, AppendProperties
  <2> QED BY <1>1, <2>1, <2>2, SubSeqFull
<1>6. LinesOf(text, <<>>) = <<>>
  BY LinesOfEmpty
<1>7. Pending = (<<>> \o B) \o c
  BY <1>4, <1>6, PendingIs
<1>8. Pending' = ((B \o c) \o <<>>) \o <<>>
  <2>1. LinesOf(text, Append(buffers_, currentBuffer_)) = B \o c
    BY <1>2, <1>3a, LinesOfAppend
  <2> QED BY <1>1, <1>5, <1>6, <2>1, PendingIs
<1> HIDE DEF B, c, N
<1>9. (<<>> \o B) \o c = B \o c /\ ((B \o c) \o <<>>) \o <<>> = B \o c
  <2>1. B \o c \in Seq(N)
    BY <1>2, ConcatProperties
  <2> QED BY <1>2, <2>1, ConcatEmptySeq
<1> QED BY <1>1, <1>7, <1>8, <1>9 DEF pipe

\* clear() and reset() come when everything is written.
LEMMA RecyclePipe ==
    ASSUME AllInv, Recycle
    PROVE  UNCHANGED pipe
<1>1. /\ UNCHANGED <<appended, output, lost, buffers_, currentBuffer_>>
      /\ written = Len(buffersToWrite) /\ written' = 0
      /\ buffersToWrite' = <<>>
      /\ Emptied(ToSet(buffersToWrite))
  BY DEF Recycle, front, AllInv, RoundInv
<1>2. buffers_ \in Seq(Buffers) /\ currentBuffer_ \in Buffers /\ buffersToWrite \in Seq(Buffers)
  BY PendingParts DEF AllInv, IInv, PtrOK
<1>3. ToWrite = <<>> /\ ToWrite' = <<>>
  <2>1. Len(buffersToWrite) \in Nat
    BY <1>2
  <2> QED BY <1>1, <2>1 DEF ToWrite
<1>4. \A b \in Buffers : b \notin ToSet(buffersToWrite) => text'[b] = text[b]
  BY <1>1 DEF Emptied
<1>5. LinesOf(text', buffers_) = LinesOf(text, buffers_)
  <2>1. \A b \in ToSet(buffers_) : text'[b] = text[b]
    BY <1>2, <1>4, ElementsInType DEF AllInv, IInv, ExclusiveOwnership
  <2> QED BY <1>2, <2>1, LinesOfAgree
<1>6. text'[currentBuffer_] = text[currentBuffer_]
  BY <1>2, <1>4 DEF AllInv, IInv, ExclusiveOwnership
<1>7. LinesOf(text, <<>>) = <<>> /\ LinesOf(text', <<>>) = <<>>
  BY LinesOfEmpty
<1>8. Pending' = Pending
  BY <1>1, <1>3, <1>5, <1>6, <1>7, PendingIs
<1> QED BY <1>1, <1>8 DEF pipe

\* The steps that touch neither the buffers nor the file.
LEMMA QuietPipe ==
    ASSUME \/ Owner \/ UNCHANGED vars
           \/ CountDown \/ SetUp \/ CheckRunning \/ Wait \/ Timeout \/ WriteEnd \/ Exit
    PROVE  UNCHANGED pipe
<1>1. UNCHANGED <<appended, output, lost, text, buffers_, currentBuffer_, buffersToWrite, written>>
  BY DEF Owner, Start, LatchWait, StopClear, StopNotify, StopJoin, CountDown, SetUp,
         CheckRunning, Wait, Timeout, WriteEnd, Exit, vars, front, back, file, heap
<1>2. Pending' = Pending
  BY <1>1, PendingIs DEF ToWrite
<1> QED BY <1>1, <1>2 DEF pipe

\* What output.append() writes or loses is at the front of what is pending.
LEMMA WritePipe ==
    ASSUME AllInv, backend = "write", written < Len(buffersToWrite),
           NEW k \in 0 .. Len(NextLines), WriteLines(k)
    PROVE  Pipe!Deliver \/ UNCHANGED pipe
<1> DEFINE n == Len(buffersToWrite)
           N == 1 .. appended
           b == buffersToWrite[written + 1]
           R == LinesOf(text, ToWrite')
           B == LinesOf(text, buffers_)
           c == text[currentBuffer_]
           L == NextLines
           P == (R \o B) \o c
<1>1. /\ UNCHANGED <<appended, text, buffers_, currentBuffer_, buffersToWrite>>
      /\ output' = output \o SubSeq(L, 1, k)
      /\ lost' = lost \cup ToSet(SubSeq(L, k + 1, Len(L)))
      /\ written' = written + 1
  BY DEF WriteLines, front, heap
<1>2. /\ buffersToWrite \in Seq(Buffers) /\ written \in Nat /\ n \in Nat
      /\ written + 1 \in 1 .. n /\ b \in Buffers /\ L = text[b]
  BY DEF AllInv, IInv, PtrOK, NextLines
<1>3. text \in Texts(Buffers, N) /\ L \in Seq(N) /\ output \in Seq(N)
  BY <1>2 DEF AllInv, DataOK, Texts
<1>4. B \in Seq(N) /\ c \in Seq(N) /\ Pending \in Seq(N)
  BY PendingParts DEF AllInv
<1>5. ToWrite = <<b>> \o ToWrite' /\ ToWrite' \in Seq(Buffers)
  <2>1. ToWrite' = SubSeq(buffersToWrite, (written + 1) + 1, n)
    BY <1>1 DEF ToWrite
  <2>2. n \in written + 1 .. n
    BY <1>2
  <2>3. ToWrite = <<b>> \o ToWrite'
    BY <1>2, <2>1, <2>2, SubSeqRecursiveFirst DEF ToWrite
  <2>4. (written + 1) + 1 \in 1 .. n + 1 /\ n \in 0 .. n
    BY <1>2
  <2> QED BY <1>2, <2>1, <2>3, <2>4, SubSeqDistinct
<1>6. R \in Seq(N)
  BY <1>3, <1>5, LinesOfType
<1>7. LinesOf(text, ToWrite) = L \o R
  <2>1. PICK r \in Seq(Buffers) : r = ToWrite'
    BY <1>5
  <2>2. PICK s \in Seq(Buffers) : s = <<b>>
    <3>1. <<b>> \in Seq(Buffers)
      BY <1>2
    <3> QED BY <3>1
  <2>3. LinesOf(text, s) = L
    BY <1>2, <1>3, <2>2, LinesOfOne
  <2>4. LinesOf(text, s \o r) = LinesOf(text, s) \o LinesOf(text, r)
    <3>1. text \in Texts(Buffers, N)
      BY <1>3
    <3> HIDE DEF N
    <3> QED BY <3>1, LinesOfConcat
  <2> QED BY <1>5, <2>1, <2>2, <2>3, <2>4
<1>8. Pending = ((L \o R) \o B) \o c /\ Pending' = P
  BY <1>1, <1>7, PendingIs
<1> HIDE DEF N, R, B, c, L
<1>9. P \in Seq(N) /\ ((L \o R) \o B) \o c = L \o P
  <2>1. L \in Seq(N) /\ R \in Seq(N) /\ B \in Seq(N) /\ c \in Seq(N)
    BY <1>3, <1>4, <1>6
  <2>2. PICK d \in Seq(N) : d = R \o B
    BY <2>1, ConcatProperties
  <2>3. Associates(L, R, B)
    BY ONLY <2>1, ConcatAssociates
  <2>4. Associates(L, d, c)
    BY ONLY <2>1, d \in Seq(N), ConcatAssociates
  <2>5. d \o c \in Seq(N)
    BY <2>1, ConcatProperties
  <2> QED BY ONLY <2>2, <2>3, <2>4, <2>5 DEF Associates, P
<1> HIDE DEF P
<1>10. Pending = L \o P /\ Pending' = P
  BY <1>8, <1>9
<1>11. Len(L) \in Nat /\ Len(Pending) = Len(L) + Len(P) /\ Len(P) \in Nat /\ k \in 0 .. Len(L)
  BY <1>3, <1>9, <1>10, ConcatProperties DEF L
<1>12. CASE Len(L) = 0
  <2>1. L = <<>> /\ k = 0
    BY <1>3, <1>11, <1>12
  <2>2. SubSeq(L, 1, k) = <<>> /\ SubSeq(L, k + 1, Len(L)) = <<>> /\ ToSet(<<>>) = {}
    BY <2>1 DEF ToSet
  <2>3. output' = output /\ lost' = lost
    BY <1>1, <1>3, <2>2, ConcatEmptySeq
  <2>4. Pending' = Pending
    BY <1>9, <1>10, <2>1, ConcatEmptySeq
  <2> QED BY <1>1, <2>3, <2>4 DEF pipe
<1>13. CASE Len(L) > 0
  <2> DEFINE m == Len(L)
  <2>1. m \in 1 .. Len(Pending) /\ k \in 0 .. m
    BY <1>11, <1>13
  <2>2. SubSeq(Pending, 1, k) = SubSeq(L, 1, k)
    BY <1>3, <1>9, <1>10, <1>11, SubSeqOfFront
  <2>3. SubSeq(Pending, k + 1, m) = SubSeq(L, k + 1, m)
    <3>1. k + 1 \in 1 .. Len(L) + 1 /\ m \in 0 .. Len(L)
      BY <1>11
    <3> QED BY <1>3, <1>9, <1>10, <3>1, SubSeqOfFront
  <2>4. SubSeq(Pending, m + 1, Len(Pending)) = P
    BY <1>3, <1>9, <1>10, SubSeqOfBack
  <2>5. /\ output' = output \o SubSeq(Pending, 1, k)
        /\ lost' = lost \cup ToSet(SubSeq(Pending, k + 1, m))
        /\ Pending' = SubSeq(Pending, m + 1, Len(Pending))
        /\ UNCHANGED appended
    BY <1>1, <1>10, <2>2, <2>3, <2>4
  <2> HIDE DEF m
  <2> QED BY <2>1, <2>5, PipeSet DEF Pipe!Deliver
<1> QED BY <1>11, <1>12, <1>13

\* The buffers that are cut under overload are consecutive.
LEMMA TrimPipe ==
    ASSUME AllInv, Trim
    PROVE  Pipe!Discard \/ UNCHANGED pipe
<1> DEFINE n == Len(buffersToWrite)
           N == 1 .. appended
           h == SubSeq(buffersToWrite, 1, 2)
           cut == SubSeq(buffersToWrite, 3, n)
           H == LinesOf(text, h)
           C == LinesOf(text, cut)
           R == LinesOf(text, buffers_) \o text[currentBuffer_]
<1>1. UNCHANGED <<appended, output, buffers_, currentBuffer_>> /\ written = 0 /\ written' = 0
  BY DEF Trim, front, file, AllInv, RoundInv
<1>2. buffersToWrite \in Seq(Buffers) /\ n \in Nat
  BY DEF AllInv, IInv, PtrOK
<1>3. CASE ~ (n > DropAbove)
  <2>1. UNCHANGED <<buffersToWrite, lost, text>>
    BY <1>3 DEF Trim, heap
  <2>2. Pending' = Pending
    BY <1>1, <2>1, PendingIs DEF ToWrite
  <2> QED BY <1>1, <2>1, <2>2 DEF pipe
<1>4. CASE n > DropAbove
  <2>1. /\ buffersToWrite' = h
        /\ lost' = lost \cup LinesIn(ToSet(cut))
        /\ Emptied(ToSet(cut))
    BY <1>4 DEF Trim
  <2>2. n >= 3
    BY <1>2, <1>4, DropAssumption
  <2>3. /\ h \in Seq(Buffers) /\ Len(h) = 2 /\ ToSet(h) \subseteq ToSet(buffersToWrite)
        /\ \A i \in 1 .. 2 : h[i] = buffersToWrite[i]
    <3>1. 1 \in 1 .. n + 1 /\ 2 \in 0 .. n
      BY <1>2, <2>2
    <3> QED BY <1>2, <3>1, SubSeqDistinct
  <2>4. /\ cut \in Seq(Buffers) /\ Len(cut) = n - 2 /\ ToSet(cut) \subseteq ToSet(buffersToWrite)
        /\ \A i \in 1 .. n - 2 : cut[i] = buffersToWrite[i + 2]
    <3>1. 3 \in 1 .. n + 1 /\ n \in 0 .. n
      BY <1>2, <2>2
    <3> QED BY <1>2, <2>2, <3>1, SubSeqDistinct
  <2>5. ToSet(h) \cap ToSet(cut) = {}
    <3>1. IsInjective(buffersToWrite)
      BY DEF AllInv, IInv, ExclusiveOwnership
    <3>2. \A i \in 1 .. 2, j \in 1 .. n - 2 : buffersToWrite[i] # buffersToWrite[j + 2]
      BY <1>2, <2>2, <3>1 DEF IsInjective
    <3> QED BY <2>3, <2>4, <3>2 DEF ToSet
  <2>6. buffersToWrite = h \o cut
    <3>1. 1 \in 1 .. n + 1 /\ 2 \in 1 - 1 .. n /\ n \in 2 .. n
      BY <1>2, <2>2
    <3>2. SubSeq(buffersToWrite, 1, 2) \o SubSeq(buffersToWrite, 2 + 1, n) = SubSeq(buffersToWrite, 1, n)
      BY <1>2, <3>1, ConcatAdjacentSubSeq
    <3>3. SubSeq(buffersToWrite, 1, n) = buffersToWrite /\ 2 + 1 = 3
      BY <1>2, SubSeqFull
    <3> QED BY ONLY <3>2, <3>3
  <2>7. ToWrite = buffersToWrite /\ ToWrite' = h
    <3>1. ToWrite = SubSeq(buffersToWrite, 1, n) /\ ToWrite' = SubSeq(h, 1, Len(h))
      BY <1>1, <2>1 DEF ToWrite
    <3> QED BY <1>2, <2>3, <3>1, SubSeqFull
  <2>8. text \in Texts(Buffers, N)
    BY DEF AllInv, DataOK, Texts
  <2>9. /\ buffers_ \in Seq(Buffers) /\ currentBuffer_ \in Buffers
        /\ LinesOf(text, buffers_) \in Seq(N) /\ text[currentBuffer_] \in Seq(N)
    BY PendingParts DEF AllInv
  <2>10. H \in Seq(N) /\ C \in Seq(N) /\ R \in Seq(N)
    BY <2>3, <2>4, <2>8, <2>9, LinesOfType, ConcatProperties
  <2> HIDE DEF h, cut
  <2>11. Pending = (H \o C) \o R
    <3>1. LinesOf(text, ToWrite) = H \o C
      <4>1. LinesOf(text, h \o cut) = LinesOf(text, h) \o LinesOf(text, cut)
        <5> HIDE DEF N
        <5> QED BY <2>3, <2>4, <2>8, LinesOfConcat
      <4> QED BY <2>6, <2>7, <4>1
    <3>2. Pending = ((H \o C) \o LinesOf(text, buffers_)) \o text[currentBuffer_]
      BY <3>1, PendingIs
    <3>3. H \o C \in Seq(N)
      BY <2>10, ConcatProperties
    <3> DEFINE g == H \o C  d == LinesOf(text, buffers_)  e == text[currentBuffer_]
    <3>4. g \in Seq(N) /\ d \in Seq(N) /\ e \in Seq(N) /\ Pending = (g \o d) \o e
      BY <2>9, <3>2, <3>3
    <3> HIDE DEF g, d, e
    <3>5. Associates(g, d, e)
      BY ONLY <3>4, ConcatAssociates
    <3>6. Pending = g \o (d \o e)
      BY ONLY <3>4, <3>5 DEF Associates
    <3> QED BY <3>6 DEF g, d, e
  <2>12. \A b \in Buffers : b \notin ToSet(cut) => text'[b] = text[b]
    BY <2>1 DEF Emptied
  <2>13. LinesOf(text', h) = H
    <3>1. \A b \in ToSet(h) : text'[b] = text[b]
      BY <2>3, <2>5, <2>12, ElementsInType
    <3> QED BY <2>3, <3>1, LinesOfAgree
  <2>14. LinesOf(text', buffers_) = LinesOf(text, buffers_)
    <3>1. \A b \in ToSet(buffers_) : text'[b] = text[b]
      BY <2>4, <2>9, <2>12, ElementsInType DEF AllInv, IInv, ExclusiveOwnership
    <3> QED BY <2>9, <3>1, LinesOfAgree
  <2>15. text'[currentBuffer_] = text[currentBuffer_]
    BY <2>4, <2>9, <2>12 DEF AllInv, IInv, ExclusiveOwnership
  <2>16. Pending' = H \o R
    <3>1. Pending' = (H \o LinesOf(text, buffers_)) \o text[currentBuffer_]
      BY <1>1, <2>7, <2>13, <2>14, <2>15, PendingIs
    <3> DEFINE d == LinesOf(text, buffers_)  e == text[currentBuffer_]
    <3>2. H \in Seq(N) /\ d \in Seq(N) /\ e \in Seq(N) /\ Pending' = (H \o d) \o e
      BY <2>9, <2>10, <3>1
    <3> HIDE DEF H, d, e
    <3>3. Associates(H, d, e)
      BY ONLY <3>2, ConcatAssociates
    <3>4. Pending' = H \o (d \o e)
      BY ONLY <3>2, <3>3 DEF Associates
    <3> QED BY <3>4 DEF d, e
  <2>17. LinesIn(ToSet(cut)) = ToSet(C)
    BY <2>4, <2>8, LinesOfElements DEF LinesIn
  <2> HIDE DEF H, C, R, N
  <2>18. /\ Len(H) \in Nat /\ Len(C) \in Nat /\ Len(R) \in Nat
         /\ Len(Pending) = Len(H) + Len(C) + Len(R)
         /\ SubSeq(Pending, 1, Len(H)) = H
         /\ SubSeq(Pending, Len(H) + 1, Len(H) + Len(C)) = C
         /\ SubSeq(Pending, Len(H) + Len(C) + 1, Len(H) + Len(C) + Len(R)) = R
    BY <2>10, <2>11, CutBack
  <2>19. CASE Len(C) = 0
    <3>1. C = <<>> /\ ToSet(<<>>) = {}
      BY <2>10, <2>19 DEF ToSet
    <3>2. Pending' = Pending /\ lost' = lost
      BY <2>1, <2>10, <2>11, <2>16, <2>17, <3>1, ConcatEmptySeq
    <3> QED BY <1>1, <3>2 DEF pipe
  <2>20. CASE Len(C) > 0
    <3> DEFINE i == Len(H) + 1  j == Len(H) + Len(C)
    <3>1. /\ i \in 1 .. Len(Pending) /\ j \in 1 .. Len(Pending) /\ i <= j
          /\ i - 1 = Len(H)
      BY <2>18, <2>20
    <3>2. /\ SubSeq(Pending, i, j) = C
          /\ SubSeq(Pending, 1, i - 1) = H
          /\ SubSeq(Pending, j + 1, Len(Pending)) = R
      BY <2>18, <3>1
    <3> HIDE DEF i, j
    <3>3. /\ lost' = lost \cup ToSet(SubSeq(Pending, i, j))
          /\ Pending' = SubSeq(Pending, 1, i - 1) \o SubSeq(Pending, j + 1, Len(Pending))
          /\ UNCHANGED <<appended, output>>
      BY <1>1, <2>1, <2>16, <2>17, <3>2
    <3> QED BY <3>1, <3>3, PipeSet DEF Pipe!Discard
  <2> QED BY <2>18, <2>19, <2>20
<1> QED BY <1>3, <1>4

LEMMA InitPipe == Init => Pipe!Init
<1> SUFFICES ASSUME Init PROVE Pipe!Init
  OBVIOUS
<1>1. /\ appended = 0 /\ output = <<>> /\ lost = {}
      /\ ToWrite = <<>> /\ buffers_ = <<>> /\ text[currentBuffer_] = <<>>
  BY DEF Init, ToWrite
<1>2. Pending = (<<>> \o <<>>) \o <<>>
  BY ONLY <1>1, LinesOfEmpty, PendingIs, Zenon
<1>3. Pending = <<>>
  BY <1>2
<1> QED BY <1>1, <1>3 DEF Pipe!Init

LEMMA StepPipe ==
    ASSUME AllInv, [Next]_vars
    PROVE  Pipe!Next \/ UNCHANGED pipe
<1>1. CASE Frontend
  BY <1>1, AcceptStep DEF Frontend, Pipe!Next
<1>2. CASE \/ Owner \/ UNCHANGED vars
           \/ CountDown \/ SetUp \/ CheckRunning \/ Wait \/ Timeout \/ WriteEnd \/ Exit
  BY <1>2, QuietPipe
<1>3. CASE Swap
  BY <1>3, SwapPipe
<1>4. CASE Recycle
  BY <1>4, RecyclePipe
<1>5. CASE Trim
  BY <1>5, TrimPipe DEF Pipe!Next
<1>6. CASE WriteBuffer \/ WriteError
  <2>1. backend = "write" /\ written < Len(buffersToWrite)
    BY <1>6 DEF WriteBuffer, WriteError
  <2>2. Len(NextLines) \in Nat
    <3>1. written + 1 \in 1 .. Len(buffersToWrite) /\ buffersToWrite \in Seq(Buffers)
      BY <2>1 DEF AllInv, IInv, PtrOK
    <3>2. text \in [Buffers -> Seq(1 .. appended)]
      BY DEF AllInv, DataOK
    <3> QED BY <3>1, <3>2 DEF NextLines
  <2>3. \E k \in 0 .. Len(NextLines) : WriteLines(k)
    BY <1>6, <2>2 DEF WriteBuffer, WriteError
  <2> QED BY <2>1, <2>3, WritePipe DEF Pipe!Next
<1> QED
  BY <1>1, <1>2, <1>3, <1>4, <1>5, <1>6 DEF Next, Backend

\* The logger implements the pipe: whatever the interleaving of appends, swaps,
\* cuts, write errors and recycling, the threads that log see a FIFO pipe that
\* may discard lines and never repeats or reorders them.
THEOREM Implements == Spec => ImplementsPipe
<1>1. AllInv /\ [Next]_vars => [Pipe!Next]_(Pipe!vars)
  BY StepPipe DEF pipe, Pipe!vars
<1> QED BY <1>1, InitPipe, AllInvariant, PTL DEF Spec, ImplementsPipe, Pipe!Spec

-----------------------------------------------------------------------------
(* What the pipe guarantees of the lines.                                  *)

LEMMA InOrderIs ==
    /\ InOrderOnce <=> /\ Ascending(output \o Pending)
                       /\ ToSet(output \o Pending) = (1 .. appended) \ lost
    /\ InOrderOnce' <=> /\ Ascending(output' \o Pending')
                        /\ ToSet(output' \o Pending') = (1 .. appended') \ lost'
BY DEF InOrderOnce, IsSorted, Ascending

LEMMA InOrderKept ==
    ASSUME AllInv, InOrderOnce, Pipe!Next \/ UNCHANGED pipe
    PROVE  InOrderOnce'
<1> DEFINE n == appended
           F == Pending
<1>1. n \in Nat /\ output \in Seq(1 .. n) /\ F \in Seq(1 .. n) /\ lost \subseteq 1 .. n
  BY PendingParts DEF AllInv, DataOK
<1>2. Ascending(output \o F) /\ ToSet(output \o F) = (1 .. n) \ lost
  BY InOrderIs
<1>3. 1 .. n \in SUBSET Nat /\ Len(F) \in Nat
  BY <1>1
<1> SUFFICES /\ Ascending(output' \o Pending')
             /\ ToSet(output' \o Pending') = (1 .. appended') \ lost'
  BY InOrderIs
<1>4. CASE UNCHANGED pipe
  BY <1>2, <1>4 DEF pipe
<1>5. CASE Pipe!Accept
  <2>1. /\ appended' = n + 1 /\ output' = output /\ lost' = lost
        /\ Pending' = Append(F, n + 1)
    BY <1>5 DEF Pipe!Accept
  <2> HIDE DEF n, F
  <2>2. /\ Ascending(output \o Append(F, n + 1))
        /\ ToSet(output \o Append(F, n + 1)) = ToSet(output \o F) \cup {n + 1}
    BY ONLY <1>1, <1>2, GainLast
  <2>3. ((1 .. n) \ lost) \cup {n + 1} = (1 .. n + 1) \ lost
    BY <1>1
  <2> QED BY ONLY <1>2, <2>1, <2>2, <2>3
<1>6. ASSUME NEW i \in 0 .. Len(F), NEW j \in i .. Len(F)
      PROVE  /\ Ascending(output \o Without(F, i, j))
             /\ ToSet(output \o Without(F, i, j))
                    = (1 .. n) \ (lost \cup ToSet(SubSeq(F, i + 1, j)))
  <2> HIDE DEF F, n
  <2>1. PICK N \in SUBSET Nat : N = 1 .. n
    BY <1>3
  <2>2. PICK f \in Seq(N), o \in Seq(N) : f = F /\ o = output
    BY <1>1, <2>1
  <2>3. Ascending(o \o f) /\ i \in 0 .. Len(f) /\ j \in i .. Len(f)
    BY <1>2, <2>2
  <2>4. /\ Ascending(o \o Without(f, i, j))
        /\ ToSet(o \o Without(f, i, j)) = ToSet(o \o f) \ ToSet(SubSeq(f, i + 1, j))
    BY <2>3, LoseMiddle
  <2> QED BY ONLY <1>2, <2>2, <2>4
<1>7. CASE Pipe!Deliver
  <2>1. PICK m \in 1 .. Len(F) : \E k \in 0 .. m :
            /\ output' = output \o SubSeq(F, 1, k)
            /\ lost' = lost \cup ToSet(SubSeq(F, k + 1, m))
            /\ Pending' = SubSeq(F, m + 1, Len(F))
            /\ appended' = appended
    BY <1>7, PipeSet DEF Pipe!Deliver
  <2>2. PICK k \in 0 .. m :
            /\ output' = output \o SubSeq(F, 1, k)
            /\ lost' = lost \cup ToSet(SubSeq(F, k + 1, m))
            /\ Pending' = SubSeq(F, m + 1, Len(F))
            /\ appended' = appended
    BY <2>1
  <2>3. k \in 0 .. Len(F) /\ m \in k .. Len(F)
    BY <1>3
  <2> HIDE DEF F
  <2>4. output' \o Pending' = output \o Without(F, k, m)
    <3>1. PICK N : N = 1 .. n
      OBVIOUS
    <3>2. PICK h \in Seq(N), r \in Seq(N) :
              h = SubSeq(F, 1, k) /\ r = SubSeq(F, m + 1, Len(F))
      <4>1. Parted(Seq(N), F, k, m)
        BY <1>1, <2>3, <3>1, ThreeParts
      <4> QED BY ONLY <4>1 DEF Parted
    <3>3. Associates(output, h, r)
      <4>1. output \in Seq(N)
        BY <1>1, <3>1
      <4> QED BY ONLY <4>1, h \in Seq(N), r \in Seq(N), ConcatAssociates
    <3> QED BY ONLY <2>2, <3>2, <3>3 DEF Without, Associates
  <2> QED BY <1>6, <2>2, <2>3, <2>4
<1>8. CASE Pipe!Discard
  <2>1. PICK i \in 1 .. Len(F), j \in 1 .. Len(F) :
            /\ i <= j
            /\ lost' = lost \cup ToSet(SubSeq(F, i, j))
            /\ Pending' = SubSeq(F, 1, i - 1) \o SubSeq(F, j + 1, Len(F))
            /\ appended' = appended /\ output' = output
    BY <1>8, PipeSet DEF Pipe!Discard
  <2>2. PICK k \in 0 .. Len(F) : k = i - 1 /\ i = k + 1 /\ j \in k .. Len(F)
    <3>1. i - 1 \in 0 .. Len(F) /\ i = (i - 1) + 1 /\ j \in (i - 1) .. Len(F)
      BY <1>3, <2>1
    <3> QED BY <3>1
  <2> HIDE DEF F
  <2>3. Pending' = Without(F, k, j)
    BY <2>1, <2>2 DEF Without
  <2> QED BY <1>6, <2>1, <2>2, <2>3
<1> QED BY <1>4, <1>5, <1>7, <1>8 DEF Pipe!Next

\* What is in the file followed by what is in memory is exactly the lines
\* append() accepted and nobody discarded, once each and in the order of the
\* calls (append(), threadFunc() and LogFile::append together).
THEOREM InOrder == Spec => []InOrderOnce
<1>1. Init => InOrderOnce
  <2> SUFFICES ASSUME Init PROVE InOrderOnce
    OBVIOUS
  <2>1. appended = 0 /\ Pending = <<>> /\ output = <<>> /\ lost = {}
    BY InitPipe DEF Pipe!Init, Init
  <2>2. output \o Pending = <<>> /\ ToSet(<<>>) = {} /\ Ascending(<<>>)
    BY <2>1 DEF ToSet, Ascending
  <2>3. Ascending(output \o Pending) /\ ToSet(output \o Pending) = (1 .. appended) \ lost
    BY <2>1, <2>2
  <2> QED BY <2>3, InOrderIs
<1>2. AllInv /\ InOrderOnce /\ [Next]_vars => InOrderOnce'
  BY StepPipe, InOrderKept
<1> QED BY <1>1, <1>2, AllInvariant, PTL DEF Spec
=============================================================================
