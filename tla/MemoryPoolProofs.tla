--------------------------- MODULE MemoryPoolProofs ---------------------------
(***************************************************************************)
(* Proofs about a memory pool, for any number of threads, any size of a    *)
(* block and any number of blocks: its types, that no slot is given out    *)
(* twice, and how far beyond a block the slots may lie.                    *)
(***************************************************************************)
EXTENDS MemoryPool, FiniteSetTheorems, SequenceTheorems, TLAPS

\* The slots given out lie below currentSlot_ in the newest block: a slot that
\* is taken from there is a new one.
Below ==
    /\ currentSlot_.block = blocks
    /\ lastSlot_ = blocks
    /\ \A s \in Given : s.block <= blocks /\ (s.block = blocks => s.place < currentSlot_.place)

\* The threads that may still bump currentSlot_ on the strength of what they have
\* read of it.
Passing ==
    {t \in Threads : \/ pc[t] = "bump"
                     \/ /\ pc[t] = "compare"
                        /\ seen[t].block # lastSlot_ \/ Room(seen[t])}

\* They may all do so, and nobody can join them once currentSlot_ is beyond the
\* end of the block that lastSlot_ ends.
Crowd ==
    /\ currentSlot_.block = lastSlot_
    /\ currentSlot_.place + Cardinality(Passing) <= N + Cardinality(Threads)

OnceInv    == TypeOK /\ SlotsDistinct /\ Below
OverrunInv == TypeOK /\ Crowd /\ OverrunBounded

-----------------------------------------------------------------------------
(* Types.                                                                  *)

LEMMA NullIsSlot == Null \in Slots
BY SizeAssumption DEF Null, Slots

LEMMA InitType == Init => TypeOK
<1> SUFFICES ASSUME Init PROVE TypeOK
  OBVIOUS
<1>1. /\ blocks \in 0 .. MaxBlocks /\ lastSlot_ \in 0 .. MaxBlocks
      /\ currentSlot_ \in Slots /\ seen \in [Threads -> Slots]
  BY NullIsSlot, SizeAssumption DEF Init
<1>2. freeSlot_ \in Seq(Slots) /\ pc \in [Threads -> Pc] /\ holds \in [Threads -> SUBSET Slots]
  BY DEF Init, Pc
<1> QED
  BY <1>1, <1>2 DEF TypeOK

LEMMA ReturnType ==
    ASSUME TypeOK, NEW t \in Threads, NEW s \in Slots, Return(t, s)
    PROVE  pc' \in [Threads -> Pc] /\ holds' \in [Threads -> SUBSET Slots]
BY DEF TypeOK, Return, Goto, Pc

LEMMA StepType ==
    ASSUME TypeOK, [Next]_vars
    PROVE  TypeOK'
<1> USE DEF TypeOK
<1>1. ASSUME NEW t \in Threads, Allocate(t)  PROVE TypeOK'
  BY <1>1 DEF Allocate, Goto, Pc, other
<1>2. ASSUME NEW t \in Threads, TakeFree(t)  PROVE TypeOK'
  <2>1. CASE freeSlot_ # <<>> /\ Pop(t)
    <3>1. Head(freeSlot_) \in Slots /\ freeSlot_' \in Seq(Slots)
      BY <2>1 DEF Pop
    <3> QED
      BY <1>2, <2>1, <3>1, ReturnType DEF TakeFree, Pop, other
  <2>2. CASE freeSlot_ = <<>> /\ Goto(t, "test") /\ UNCHANGED <<freeSlot_, holds>>
    BY <1>2, <2>2 DEF TakeFree, Goto, Pc, other
  <2> QED
    BY <1>2, <2>1, <2>2 DEF TakeFree
<1>3. ASSUME NEW t \in Threads, ReadCurrent(t)  PROVE TypeOK'
  BY <1>3 DEF ReadCurrent, Goto, Pc, other
<1>4. ASSUME NEW t \in Threads, Compare(t)  PROVE TypeOK'
  BY <1>4, NullIsSlot DEF Compare, Goto, Pc, other
<1>5. ASSUME NEW t \in Threads, Bump(t)  PROVE TypeOK'
  <2>1. currentSlot_' \in Slots
    <3>1. PICK b \in Nat, p \in Nat \ {0} : currentSlot_ = [block |-> b, place |-> p]
      BY DEF Slots
    <3>2. currentSlot_' = [block |-> b, place |-> p + 1] /\ p + 1 \in Nat \ {0}
      BY <1>5, <3>1 DEF Bump
    <3> QED BY ONLY <3>2 DEF Slots
  <2> QED
    BY <1>5, <2>1, ReturnType DEF Bump
<1>6. ASSUME NEW t \in Threads, AllocateBlock(t)  PROVE TypeOK'
  <2>1. blocks' \in 1 .. MaxBlocks /\ [block |-> blocks', place |-> First] \in Slots
    BY <1>6, SizeAssumption DEF AllocateBlock, First, Slots
  <2>2. currentSlot_' \in Slots
    BY <1>6, <2>1 DEF AllocateBlock, First, Slots
  <2> QED
    BY <1>6, <2>1, <2>2, ReturnType DEF AllocateBlock
<1>7. ASSUME NEW t \in Threads, DeAllocate(t)  PROVE TypeOK'
  <2>1. PICK s \in holds[t] : freeSlot_' = <<s>> \o freeSlot_
                              /\ holds' = [holds EXCEPT ![t] = @ \ {s}]
    BY <1>7 DEF DeAllocate
  <2>2. s \in Slots /\ <<s>> \o freeSlot_ \in Seq(Slots)
    BY <2>1
  <2> QED
    BY <1>7, <2>1, <2>2 DEF DeAllocate, other
<1>8. CASE UNCHANGED vars
  BY <1>8 DEF vars, other
<1> QED
  BY <1>1, <1>2, <1>3, <1>4, <1>5, <1>6, <1>7, <1>8 DEF Next, Step

\* The pool and its callers stay within their types, blocks within the bound.
THEOREM TypeCorrect == Spec => []TypeOK
BY InitType, StepType, PTL DEF Spec

-----------------------------------------------------------------------------
(* No slot is given out twice.                                             *)

\* A step that moves no slot and no pointer.
LEMMA OnceUnmoved ==
    ASSUME OnceInv, UNCHANGED <<blocks, currentSlot_, lastSlot_, freeSlot_, holds>>
    PROVE  SlotsDistinct' /\ Below'
BY DEF OnceInv, SlotsDistinct, Below, Given, ToSet, IsInjective

\* The head of the free list goes from the list to thread t.
LEMMA OncePop ==
    ASSUME OnceInv, NEW t \in Threads, freeSlot_ # <<>>, Pop(t),
           UNCHANGED <<blocks, currentSlot_, lastSlot_>>
    PROVE  SlotsDistinct' /\ Below'
<1> DEFINE h == Head(freeSlot_)
<1>1. holds \in [Threads -> SUBSET Slots] /\ holds' = [holds EXCEPT ![t] = @ \cup {h}]
  BY DEF OnceInv, TypeOK, Pop, Return
<1>2. /\ freeSlot_ \in Seq(Slots) /\ freeSlot_' = Tail(freeSlot_) /\ h = freeSlot_[1]
      /\ 1 \in DOMAIN freeSlot_
      /\ DOMAIN Tail(freeSlot_) = 1 .. Len(freeSlot_) - 1
      /\ \A i \in DOMAIN Tail(freeSlot_) :
            Tail(freeSlot_)[i] = freeSlot_[i + 1] /\ i + 1 \in DOMAIN freeSlot_ /\ i + 1 # 1
  BY DEF OnceInv, TypeOK, Pop
<1>3. IsInjective(freeSlot_)
  BY DEF OnceInv, SlotsDistinct
<1>4. /\ IsInjective(freeSlot_')
      /\ ToSet(freeSlot_') \subseteq ToSet(freeSlot_) \ {h}
      /\ h \in ToSet(freeSlot_)
  <2>1. ASSUME NEW i \in DOMAIN freeSlot_', NEW j \in DOMAIN freeSlot_', freeSlot_'[i] = freeSlot_'[j]
        PROVE  i = j
    <3>1. freeSlot_[i + 1] = freeSlot_[j + 1] /\ i + 1 \in DOMAIN freeSlot_ /\ j + 1 \in DOMAIN freeSlot_
      BY <2>1, <1>2
    <3>2. i + 1 = j + 1 /\ i \in Nat /\ j \in Nat
      BY <3>1, <1>2, <1>3 DEF IsInjective
    <3> QED
      BY <3>2
  <2>2. ASSUME NEW i \in DOMAIN freeSlot_'
        PROVE  freeSlot_'[i] \in ToSet(freeSlot_) \ {h}
    <3>1. freeSlot_'[i] = freeSlot_[i + 1] /\ i + 1 \in DOMAIN freeSlot_ /\ i + 1 # 1
      BY <2>2, <1>2
    <3> QED
      BY <3>1, <1>2, <1>3 DEF IsInjective, ToSet
  <2>3. h \in ToSet(freeSlot_)
    BY <1>2 DEF ToSet
  <2> QED
    BY <2>1, <2>2, <2>3 DEF IsInjective, ToSet
<1>5. SlotsDistinct'
  BY <1>1, <1>4 DEF OnceInv, SlotsDistinct
<1>6. Given' \subseteq Given
  BY <1>1, <1>4 DEF Given
<1> QED
  BY <1>5, <1>6 DEF OnceInv, Below

\* A slot that was never given out goes to thread t.
LEMMA OnceFresh ==
    ASSUME OnceInv, NEW t \in Threads, NEW s \in Slots, s \notin Given,
           Return(t, s), UNCHANGED freeSlot_
    PROVE  SlotsDistinct' /\ Given' = Given \cup {s}
<1>1. holds \in [Threads -> SUBSET Slots] /\ holds' = [holds EXCEPT ![t] = @ \cup {s}]
  BY DEF OnceInv, TypeOK, Return
<1>2. SlotsDistinct'
  BY <1>1 DEF OnceInv, SlotsDistinct, Given
<1>3. Given' = Given \cup {s}
  BY <1>1 DEF Given
<1> QED
  BY <1>2, <1>3

\* A slot of thread t goes to the head of the free list.
LEMMA OnceGiveBack ==
    ASSUME OnceInv, NEW t \in Threads, NEW s \in holds[t],
           freeSlot_' = <<s>> \o freeSlot_, holds' = [holds EXCEPT ![t] = @ \ {s}],
           UNCHANGED <<blocks, currentSlot_, lastSlot_>>
    PROVE  SlotsDistinct' /\ Below'
<1>1. holds \in [Threads -> SUBSET Slots] /\ freeSlot_ \in Seq(Slots) /\ s \in Slots
  BY DEF OnceInv, TypeOK
<1>2. /\ DOMAIN freeSlot_' = 1 .. Len(freeSlot_) + 1
      /\ freeSlot_'[1] = s
      /\ \A i \in 2 .. Len(freeSlot_) + 1 : freeSlot_'[i] = freeSlot_[i - 1] /\ i - 1 \in DOMAIN freeSlot_
  BY <1>1
<1>3. IsInjective(freeSlot_) /\ s \notin ToSet(freeSlot_)
  BY DEF OnceInv, SlotsDistinct
<1>4. ToSet(freeSlot_') \subseteq ToSet(freeSlot_) \cup {s}
  BY <1>2 DEF ToSet
<1>5. IsInjective(freeSlot_')
  <2> SUFFICES ASSUME NEW i \in DOMAIN freeSlot_', NEW j \in DOMAIN freeSlot_',
                      freeSlot_'[i] = freeSlot_'[j]
               PROVE  i = j
    BY DEF IsInjective
  <2>1. \A k \in DOMAIN freeSlot_' : k # 1 => freeSlot_'[k] # s
    BY <1>1, <1>2, <1>3 DEF ToSet
  <2>2. CASE i = 1 \/ j = 1
    BY <2>1, <2>2, <1>2
  <2>3. CASE i # 1 /\ j # 1
    <3>1. /\ i \in 2 .. Len(freeSlot_) + 1 /\ j \in 2 .. Len(freeSlot_) + 1
          /\ freeSlot_[i - 1] = freeSlot_[j - 1]
      BY <1>1, <1>2, <2>3
    <3>2. i - 1 = j - 1
      BY <3>1, <1>2, <1>3 DEF IsInjective
    <3> QED
      BY <3>1, <3>2
  <2> QED
    BY <2>2, <2>3
<1>6. SlotsDistinct'
  BY <1>1, <1>4, <1>5 DEF OnceInv, SlotsDistinct
<1>7. Given' \subseteq Given
  BY <1>1, <1>4 DEF Given
<1> QED
  BY <1>6, <1>7 DEF OnceInv, Below

LEMMA InitOnce == Init => OnceInv
<1> SUFFICES ASSUME Init PROVE SlotsDistinct /\ Below
  BY InitType DEF OnceInv
<1>1. Given = {}
  BY DEF Init, Given, ToSet
<1> QED
  BY <1>1 DEF Init, SlotsDistinct, Below, Null, ToSet, IsInjective

LEMMA StepOnce ==
    ASSUME OnceInv, [Next]_vars
    PROVE  OnceInv'
<1> SUFFICES SlotsDistinct' /\ Below'
  BY StepType DEF OnceInv
<1>1. ASSUME NEW t \in Threads, Allocate(t)  PROVE SlotsDistinct' /\ Below'
  BY <1>1, OnceUnmoved DEF Allocate, other
<1>2. ASSUME NEW t \in Threads, TakeFree(t)  PROVE SlotsDistinct' /\ Below'
  BY <1>2, OncePop, OnceUnmoved DEF TakeFree, other
<1>3. ASSUME NEW t \in Threads, ReadCurrent(t)  PROVE SlotsDistinct' /\ Below'
  BY <1>3, OnceUnmoved DEF ReadCurrent, other
<1>4. ASSUME NEW t \in Threads, Compare(t)  PROVE SlotsDistinct' /\ Below'
  BY <1>4, OnceUnmoved DEF Compare, other
<1>5. ASSUME NEW t \in Threads, Bump(t)  PROVE SlotsDistinct' /\ Below'
  <2>1. currentSlot_ \in Slots /\ currentSlot_ \notin Given
    BY DEF OnceInv, TypeOK, Below, Slots
  <2>2. SlotsDistinct' /\ Given' = Given \cup {currentSlot_}
    BY <1>5, <2>1, OnceFresh DEF Bump
  <2>3. \A s \in Given : s \in Slots
    BY DEF OnceInv, TypeOK, Given, ToSet
  <2>4. Below'
    BY <1>5, <2>1, <2>2, <2>3 DEF Bump, OnceInv, Below, Slots
  <2> QED
    BY <2>2, <2>4
<1>6. ASSUME NEW t \in Threads, AllocateBlock(t)  PROVE SlotsDistinct' /\ Below'
  <2> DEFINE s == [block |-> blocks', place |-> First]
  <2>1. blocks \in Nat /\ blocks' = blocks + 1 /\ s \in Slots /\ s \notin Given
    BY <1>6, SizeAssumption DEF AllocateBlock, OnceInv, TypeOK, Below, Slots, First
  <2>2. SlotsDistinct' /\ Given' = Given \cup {s}
    BY <1>6, <2>1, OnceFresh DEF AllocateBlock
  <2>3. \A r \in Given : r \in Slots
    BY DEF OnceInv, TypeOK, Given, ToSet
  <2>4. Below'
    BY <1>6, <2>1, <2>2, <2>3 DEF AllocateBlock, OnceInv, Below, Slots, First
  <2> QED
    BY <2>2, <2>4
<1>7. ASSUME NEW t \in Threads, DeAllocate(t)  PROVE SlotsDistinct' /\ Below'
  BY <1>7, OnceGiveBack DEF DeAllocate, other
<1>8. CASE UNCHANGED vars
  BY <1>8, OnceUnmoved DEF vars, other
<1> QED
  BY <1>1, <1>2, <1>3, <1>4, <1>5, <1>6, <1>7, <1>8 DEF Next, Step

\* However the threads meet between the two mutexes, no slot has two owners: it
\* is held by one thread, or waits once on the free list, or was never given out.
THEOREM GivenOnce == Spec => []SlotsDistinct
<1>1. OnceInv => SlotsDistinct
  BY DEF OnceInv
<1> QED
  BY <1>1, InitOnce, StepOnce, PTL DEF Spec

-----------------------------------------------------------------------------
(* How far beyond a block slots may lie.                                   *)

LEMMA PassingFinite ==
    /\ IsFiniteSet(Passing) /\ Cardinality(Passing) \in Nat
    /\ IsFiniteSet(Passing') /\ Cardinality(Passing') \in Nat
    /\ Cardinality(Threads) \in Nat
<1>1. Passing \subseteq Threads /\ Passing' \subseteq Threads
  BY DEF Passing
<1> QED
  BY <1>1, ThreadsAssumption, FS_Subset, FS_CardinalityType

\* Any thread but one is a further thread.
LEMMA Others ==
    ASSUME NEW t \in Threads, NEW S, S \subseteq Threads \ {t}
    PROVE  Cardinality(S) \in Nat /\ Cardinality(S) + 1 <= Cardinality(Threads)
<1>1. IsFiniteSet(Threads \ {t}) /\ Cardinality(Threads \ {t}) = Cardinality(Threads) - 1
  BY ThreadsAssumption, FS_RemoveElement
<1>2. IsFiniteSet(S) /\ Cardinality(S) <= Cardinality(Threads \ {t})
  BY <1>1, FS_Subset
<1> QED
  BY <1>1, <1>2, ThreadsAssumption, FS_CardinalityType

\* A step that lets nobody in and gives out no slot.
LEMMA OverrunUnmoved ==
    ASSUME OverrunInv, Passing' \subseteq Passing, Given' \subseteq Given,
           UNCHANGED <<currentSlot_, lastSlot_>>
    PROVE  Crowd' /\ OverrunBounded'
<1>1. Cardinality(Passing') <= Cardinality(Passing)
  BY PassingFinite, FS_Subset
<1>2. currentSlot_.place \in Nat
  BY DEF OverrunInv, TypeOK, Slots
<1> QED
  BY <1>1, <1>2, PassingFinite, SizeAssumption DEF OverrunInv, Crowd, OverrunBounded

LEMMA InitOverrun == Init => OverrunInv
<1> SUFFICES ASSUME Init PROVE Crowd /\ OverrunBounded
  BY InitType DEF OverrunInv
<1>1. Passing = {} /\ Given = {}
  BY DEF Init, Passing, Given, ToSet
<1>2. Cardinality(Passing) = 0
  BY <1>1, FS_EmptySet
<1>3. Cardinality(Threads) >= 1
  BY ThreadsAssumption, FS_EmptySet, FS_CardinalityType
<1> QED
  BY <1>1, <1>2, <1>3, PassingFinite, SizeAssumption DEF Init, Null, Crowd, OverrunBounded

LEMMA StepOverrun ==
    ASSUME OverrunInv, [Next]_vars
    PROVE  OverrunInv'
<1> SUFFICES Crowd' /\ OverrunBounded'
  BY StepType DEF OverrunInv
<1>0. /\ currentSlot_ \in Slots /\ pc \in [Threads -> Pc] /\ seen \in [Threads -> Slots]
      /\ holds \in [Threads -> SUBSET Slots] /\ freeSlot_ \in Seq(Slots)
      /\ currentSlot_.place \in Nat \ {0}
  BY DEF OverrunInv, TypeOK, Slots
<1>1. ASSUME NEW t \in Threads, Allocate(t)  PROVE Crowd' /\ OverrunBounded'
  BY <1>0, <1>1, OverrunUnmoved DEF Allocate, Goto, other, Passing, Given
<1>2. ASSUME NEW t \in Threads, TakeFree(t)  PROVE Crowd' /\ OverrunBounded'
  <2>1. Passing' \subseteq Passing
    BY <1>0, <1>2 DEF TakeFree, Pop, Return, Goto, other, Passing
  <2>2. Given' \subseteq Given
    <3>1. CASE freeSlot_ # <<>> /\ Pop(t)
      <4>1. /\ holds' = [holds EXCEPT ![t] = @ \cup {Head(freeSlot_)}]
            /\ freeSlot_' = Tail(freeSlot_)
        BY <3>1 DEF Pop, Return
      <4>2. ToSet(Tail(freeSlot_)) \subseteq ToSet(freeSlot_) /\ Head(freeSlot_) \in ToSet(freeSlot_)
        BY <1>0, <3>1 DEF ToSet
      <4> QED
        BY <1>0, <4>1, <4>2 DEF Given
    <3>2. CASE UNCHANGED <<freeSlot_, holds>>
      BY <3>2 DEF Given
    <3> QED
      BY <1>2, <3>1, <3>2 DEF TakeFree
  <2> QED
    BY <1>2, <2>1, <2>2, OverrunUnmoved DEF TakeFree, other
<1>3. ASSUME NEW t \in Threads, ReadCurrent(t)  PROVE Crowd' /\ OverrunBounded'
  <2>1. OverrunBounded'
    BY <1>3 DEF ReadCurrent, other, OverrunInv, OverrunBounded, Given
  <2>2. CASE Room(currentSlot_)
    <3>1. Passing' \subseteq Threads /\ currentSlot_'.place <= N
      BY <1>3, <2>2 DEF ReadCurrent, other, Passing, Room
    <3>2. Cardinality(Passing') <= Cardinality(Threads)
      BY <3>1, ThreadsAssumption, FS_Subset
    <3> QED
      BY <1>0, <1>3, <2>1, <3>1, <3>2, PassingFinite, SizeAssumption DEF ReadCurrent, other, OverrunInv, Crowd
  <2>3. CASE ~ Room(currentSlot_)
    <3>1. Passing' \subseteq Passing
      BY <1>0, <1>3, <2>3 DEF ReadCurrent, Goto, other, Passing, OverrunInv, Crowd
    <3> QED
      BY <1>3, <3>1, OverrunUnmoved DEF ReadCurrent, other, Given
  <2> QED
    BY <2>2, <2>3
<1>4. ASSUME NEW t \in Threads, Compare(t)  PROVE Crowd' /\ OverrunBounded'
  <2>1. Passing' \subseteq Passing
    BY <1>0, <1>4 DEF Compare, Goto, other, Passing
  <2> QED
    BY <1>4, <2>1, OverrunUnmoved DEF Compare, other, Given
<1>5. ASSUME NEW t \in Threads, Bump(t)  PROVE Crowd' /\ OverrunBounded'
  <2>1. t \in Passing /\ Passing' \subseteq Passing \ {t}
    BY <1>0, <1>5 DEF Bump, Return, Goto, Passing
  <2>2. Cardinality(Passing \ {t}) = Cardinality(Passing) - 1
    BY <2>1, PassingFinite, FS_RemoveElement
  <2>3. Cardinality(Passing') <= Cardinality(Passing) - 1
    <3>1. IsFiniteSet(Passing \ {t})
      BY PassingFinite, FS_Subset
    <3> QED
      BY <2>1, <2>2, <3>1, FS_Subset
  <2>4. Given' = Given \cup {currentSlot_}
    BY <1>0, <1>5 DEF Bump, Return, Given
  <2>5. /\ currentSlot_'.place = currentSlot_.place + 1
        /\ currentSlot_'.block = currentSlot_.block /\ lastSlot_' = lastSlot_
    BY <1>0, <1>5 DEF Bump, Slots
  <2>6. Crowd'
    BY <1>0, <2>3, <2>5, PassingFinite, SizeAssumption DEF OverrunInv, Crowd
  <2>7. currentSlot_.place <= N + Cardinality(Threads) - 1
    BY <1>0, <2>3, PassingFinite, SizeAssumption DEF OverrunInv, Crowd
  <2> QED
    BY <2>4, <2>6, <2>7 DEF OverrunInv, OverrunBounded
<1>6. ASSUME NEW t \in Threads, AllocateBlock(t)  PROVE Crowd' /\ OverrunBounded'
  <2>1. Passing' \subseteq Threads \ {t}
    BY <1>0, <1>6 DEF AllocateBlock, Return, Goto, Passing
  <2>2. Cardinality(Passing') \in Nat /\ Cardinality(Passing') + 1 <= Cardinality(Threads)
    BY <2>1, Others
  <2>3. currentSlot_'.place = 2 /\ currentSlot_'.block = lastSlot_'
    BY <1>6 DEF AllocateBlock, First
  <2>4. Given' = Given \cup {[block |-> blocks', place |-> First]}
    BY <1>0, <1>6 DEF AllocateBlock, Return, Given
  <2>5. 1 <= N + Cardinality(Threads) - 1
    BY <2>2, PassingFinite, SizeAssumption
  <2> QED
    BY <2>2, <2>3, <2>4, <2>5, PassingFinite, SizeAssumption
       DEF OverrunInv, Crowd, OverrunBounded, First
<1>7. ASSUME NEW t \in Threads, DeAllocate(t)  PROVE Crowd' /\ OverrunBounded'
  <2>1. PICK s \in holds[t] : freeSlot_' = <<s>> \o freeSlot_
                              /\ holds' = [holds EXCEPT ![t] = @ \ {s}]
    BY <1>7 DEF DeAllocate
  <2>2. ToSet(freeSlot_') \subseteq ToSet(freeSlot_) \cup {s}
    BY <1>0, <2>1 DEF ToSet
  <2>3. Given' \subseteq Given
    BY <1>0, <2>1, <2>2 DEF Given
  <2> QED
    BY <1>7, <2>3, OverrunUnmoved DEF DeAllocate, other, Passing
<1>8. CASE UNCHANGED vars
  BY <1>8, OverrunUnmoved DEF vars, other, Passing, Given
<1> QED
  BY <1>1, <1>2, <1>3, <1>4, <1>5, <1>6, <1>7, <1>8 DEF Next, Step

\* The unlocked test costs at most one slot per further thread beyond the end of
\* a block, for any number of threads and of slots in a block.
THEOREM OverrunAtMost == Spec => []OverrunBounded
<1>1. OverrunInv => OverrunBounded
  BY DEF OverrunInv
<1> QED
  BY <1>1, InitOverrun, StepOverrun, PTL DEF Spec

\* With a single thread every slot lies in its block: the overrun is the race's.
THEOREM AloneInBlock ==
    ASSUME Cardinality(Threads) = 1
    PROVE  Spec => []InBlock
<1>1. OverrunBounded => InBlock
  BY SizeAssumption DEF OverrunBounded, InBlock
<1> QED
  BY <1>1, OverrunAtMost, PTL

-----------------------------------------------------------------------------
(* The sizes.                                                              *)

\* An object of 1 .. 512 bytes gets a slot of one of the 64 pools, with room for it
\* and less than 8 bytes to spare.
THEOREM SizesFit ==
    ASSUME NEW size \in 1 .. 512
    PROVE  /\ PoolOf(size) \in 0 .. 63
           /\ SlotSize(PoolOf(size)) \in size .. size + 7
BY DEF PoolOf, SlotSize
=============================================================================
