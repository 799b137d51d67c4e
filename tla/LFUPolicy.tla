------------------------------ MODULE LFUPolicy ------------------------------
(***************************************************************************)
(* What LFUCache.h promises: a cache of at most capacity_ files that       *)
(* counts the uses of each and, when it is full, gives up the one with the *)
(* fewest uses, among these the one unused for longest.                    *)
(***************************************************************************)
EXTENDS Integers, FiniteSets

CONSTANTS Keys, capacity_

VARIABLES
    uses,  \* for each cached key, the number of its uses
    older  \* the pairs of cached keys the first of which is longer unused

Init == uses = <<>> /\ older = {}

Cached == DOMAIN uses

\* the least used keys, and of these the one that is unused for longest
LeastUsed == {k \in Cached : \A j \in Cached : uses[k] <= uses[j]}

Victim == CHOOSE k \in LeastUsed : \A j \in LeastUsed \ {k} : <<k, j>> \in older

\* the order of the keys of S when k is used last
UsedLast(S, k) ==
    LET others == S \ {k}
    IN  (older \cap (others \X others)) \cup (others \X {k})

Hit(k) ==
    /\ k \in Cached
    /\ uses' = [uses EXCEPT ![k] = @ + 1]
    /\ older' = UsedLast(Cached, k)

Kept == IF Cardinality(Cached) < capacity_ THEN Cached ELSE Cached \ {Victim}

Fill(k) ==
    /\ capacity_ > 0
    /\ k \in Keys \ Cached
    /\ uses' = [j \in Kept \cup {k} |-> IF j = k THEN 1 ELSE uses[j]]
    /\ older' = UsedLast(Kept, k)

Next == \E k \in Keys : Hit(k) \/ Fill(k)

Spec == Init /\ [][Next]_<<uses, older>>
=============================================================================
