------------------------------ MODULE MemoryPool ------------------------------
(***************************************************************************)
(* One pool of MemoryPool/MemoryPool.cc, which hands out slots of one size *)
(* to the threads of all event loops.                                      *)
(*                                                                         *)
(* A slot is the number of its block and its place in the block; the       *)
(* places 1 .. N of a block lie inside it, the others beyond its end.      *)
(* mutexFreeSlot_ and mutexOther_ make one action each of what they guard; *)
(* the tests the code makes without them are actions of their own.         *)
(***************************************************************************)
EXTENDS Integers, Sequences, FiniteSets, SequencesExt

CONSTANTS
    Threads,  \* the threads that use the pool
    N,        \* how many slots a block of BlockSize bytes has room for
    MaxBlocks \* bound of the model: how many blocks are allocated

ASSUME ThreadsAssumption == IsFiniteSet(Threads) /\ Threads # {}
ASSUME SizeAssumption == N \in Nat \ {0} /\ MaxBlocks \in Nat

VARIABLES
    blocks,       \* how many blocks hang on currentBlock_
    currentSlot_, \* the next slot that was never used
    lastSlot_,    \* the block whose last place lastSlot_ points to
    freeSlot_,    \* the list of the slots given back, the last one first
    seen,         \* what a thread has read of currentSlot_
    pc,           \* where a thread is in allocate()
    holds         \* the slots a thread was given and nobody gave back

other == <<blocks, currentSlot_, lastSlot_>>
vars  == <<other, freeSlot_, seen, pc, holds>>

Slots == [block : Nat, place : Nat \ {0}]

Pc == {"idle", "pop", "test", "compare", "block", "bump"}

\* before the first block there is no room: null is not below null
Null == [block |-> 0, place |-> N + 1]

Init ==
    /\ blocks = 0
    /\ currentSlot_ = Null
    /\ lastSlot_ = 0
    /\ freeSlot_ = <<>>
    /\ seen = [t \in Threads |-> Null]
    /\ pc = [t \in Threads |-> "idle"]
    /\ holds = [t \in Threads |-> {}]

Goto(t, label) == pc' = [pc EXCEPT ![t] = label]

\* the thread gets the slot from allocate()
Return(t, s) ==
    /\ holds' = [holds EXCEPT ![t] = @ \cup {s}]
    /\ Goto(t, "idle")

-----------------------------------------------------------------------------
\* allocate() looks at freeSlot_ without the lock
Allocate(t) ==
    /\ pc[t] = "idle"
    /\ Goto(t, IF freeSlot_ = <<>> THEN "test" ELSE "pop")
    /\ UNCHANGED <<other, freeSlot_, seen, holds>>

\* mutant: the slot stays on the list
BugPop(t) ==
    /\ Return(t, Head(freeSlot_))
    /\ UNCHANGED freeSlot_

\* the head of the list is given out
Pop(t) ==
    /\ Return(t, Head(freeSlot_))
    /\ freeSlot_' = Tail(freeSlot_)

\* allocate() looks again with the lock
TakeFree(t) ==
    /\ pc[t] = "pop"
    /\ \/ freeSlot_ # <<>> /\ Pop(t)
       \/ freeSlot_ = <<>> /\ Goto(t, "test") /\ UNCHANGED <<freeSlot_, holds>>
    /\ UNCHANGED <<other, seen>>

\* nofreeSolve() reads currentSlot_ without a lock
ReadCurrent(t) ==
    /\ pc[t] = "test"
    /\ seen' = [seen EXCEPT ![t] = currentSlot_]
    /\ Goto(t, "compare")
    /\ UNCHANGED <<other, freeSlot_, holds>>

\* mutant: currentSlot_ > lastSlot_
BugRoom(s) == s.place <= N + 1

Room(s) == s.place <= N

\* and compares it with lastSlot_; when another thread has put in a new block in
\* between, it compares pointers into different blocks
Compare(t) ==
    /\ pc[t] = "compare"
    /\ \/ Goto(t, "bump")  /\ (seen[t].block = lastSlot_ => Room(seen[t]))
       \/ Goto(t, "block") /\ (seen[t].block = lastSlot_ => ~ Room(seen[t]))
    /\ seen' = [seen EXCEPT ![t] = Null]
    /\ UNCHANGED <<other, freeSlot_, holds>>

\* nofreeSolve() takes the next slot of the block
Bump(t) ==
    /\ pc[t] = "bump"
    /\ Return(t, currentSlot_)
    /\ currentSlot_' = [currentSlot_ EXCEPT !.place = @ + 1]
    /\ UNCHANGED <<blocks, lastSlot_, freeSlot_, seen>>

\* mutant: the header of the block is not left out
BugFirst == 0

\* the place of the first slot behind the header and the padding of a block
First == 1

\* allocateBlock()
AllocateBlock(t) ==
    /\ pc[t] = "block"
    /\ blocks < MaxBlocks
    /\ blocks' = blocks + 1
    /\ Return(t, [block |-> blocks', place |-> First])
    /\ currentSlot_' = [block |-> blocks', place |-> First + 1]
    /\ lastSlot_' = blocks'
    /\ UNCHANGED <<freeSlot_, seen>>

\* deAllocate(), in any thread, of a slot that thread t was given
DeAllocate(t) ==
    /\ \E u \in Threads : pc[u] = "idle"
    /\ \E s \in holds[t] :
           /\ freeSlot_' = <<s>> \o freeSlot_
           /\ holds' = [holds EXCEPT ![t] = @ \ {s}]
    /\ UNCHANGED <<other, seen, pc>>

Step(t) == \/ Allocate(t) \/ TakeFree(t) \/ ReadCurrent(t) \/ Compare(t)
           \/ Bump(t) \/ AllocateBlock(t) \/ DeAllocate(t)

Next == \E t \in Threads : Step(t)

Spec == Init /\ [][Next]_vars

-----------------------------------------------------------------------------
(* The sizes.                                                              *)

\* useMemory() and freeMemory(): the pool for objects of a size, 1 .. 512
PoolOf(size) == ((size + 7) \div 8) - 1

\* initMemoryPool(): the slots of a pool
SlotSize(id) == (id + 1) * 8

-----------------------------------------------------------------------------
(* Properties.                                                             *)

TypeOK ==
    /\ blocks \in 0 .. MaxBlocks
    /\ currentSlot_ \in Slots
    /\ lastSlot_ \in 0 .. MaxBlocks
    /\ freeSlot_ \in Seq(Slots)
    /\ seen \in [Threads -> Slots]
    /\ pc \in [Threads -> Pc]
    /\ holds \in [Threads -> SUBSET Slots]

\* Nobody is given a slot that another thread holds or that waits on the list of
\* free slots, whichever of the two mutexes the threads meet at, and although
\* allocate() decides without them.
SlotsDistinct ==
    /\ \A t, u \in Threads : t # u => holds[t] \cap holds[u] = {}
    /\ \A t \in Threads : holds[t] \cap ToSet(freeSlot_) = {}
    /\ IsInjective(freeSlot_)

Given == ToSet(freeSlot_) \cup UNION {holds[t] : t \in Threads}

\* The unlocked test of nofreeSolve() lets at most one slot per further thread
\* lie beyond the end of a block, and none with a single thread: however the
\* threads meet, nobody passes the test twice on the same end.
OverrunBounded ==
    \A s \in Given : s.place <= N + Cardinality(Threads) - 1

\* lastSlot_ is the last place that may hold an element (MemoryPool.h:24): every
\* slot lies inside its block.
InBlock == \A s \in Given : s.place <= N
=============================================================================
