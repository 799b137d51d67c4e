------------------------------- MODULE LFUCache -------------------------------
(***************************************************************************)
(* LFUCache/LFUCache.cc, the cache of file contents that the connections   *)
(* of all loops share, with its clients: HttpConnection::do_request() asks *)
(* with get() and, on a miss, reads the file and hands it in with set().   *)
(* Each of the two calls holds mutex_, the pair of them does not.          *)
(*                                                                         *)
(* The big list is the sequence lists of its nodes after dummyHead_, each  *)
(* a small list: its freq_ and the sequence of its nodes after its own     *)
(* dummyHead_.  A pointer to a node of a small list is the node, a pointer *)
(* to a small list is its freq_, and the content of a file is its key.     *)
(***************************************************************************)
EXTENDS Integers, FiniteSets, Sequences, SequencesExt

CONSTANTS
    Keys,      \* the names of the files
    Threads,   \* the loops whose connections use the cache
    Nodes,     \* the memory of the nodes, a bound of the model
    capacity_, \* LFU_CAPACITY
    MaxFreq,   \* bound of the model: the uses that are counted
    None

ASSUME CacheAssumption == capacity_ \in Nat /\ MaxFreq \in Nat \ {0} /\ None \notin Keys

VARIABLES
    lists,  \* the big list
    key_,   \* the key in each node
    kmap_,  \* from the cached keys to nodes
    fmap_,  \* from the cached keys to small lists
    want,   \* the key of a thread between get() and set(), or None
    older,  \* history: the pairs of cached keys the first of which is longer unused
    twice   \* history: a file was set that was in the cache

maps == <<kmap_, fmap_>>
hist == <<older, twice>>
vars == <<lists, key_, maps, want, hist>>

SmallList == [freq : 1 .. MaxFreq, nodes : Seq(Nodes)]

Linked == UNION {ToSet(lists[i].nodes) : i \in DOMAIN lists}

Init ==
    /\ lists = <<>>
    /\ key_ = [n \in Nodes |-> None]
    /\ kmap_ = <<>>
    /\ fmap_ = <<>>
    /\ want = [t \in Threads |-> None]
    /\ older = {}
    /\ twice = FALSE

-----------------------------------------------------------------------------
(* The lists.                                                              *)

\* mutant: the node is put at the end of the small list
BugAdd(nodes, n) == Append(nodes, n)

\* KeyList::add()
Add(nodes, n) == <<n>> \o nodes

\* the list after the i-th is that of frequency freq
Follows(ls, i, freq) == i < Len(ls) /\ ls[i + 1].freq = freq

\* mutant: an empty small list stays
BugDropEmpty(ls, i) == ls

\* LFUCache::del() of a small list that has become empty
DropEmpty(ls, i) == IF ls[i].nodes = <<>> THEN RemoveAt(ls, i) ELSE ls

\* mutant: the frequency of the list the node leaves
BugNextFreq(ls, i) == IF i = 0 THEN 0 ELSE ls[i].freq

\* the frequency after that of the i-th small list, dummyHead_ when i is 0
NextFreq(ls, i) == IF i = 0 THEN 1 ELSE ls[i].freq + 1

\* addFreq(): node n moves from the i-th small list to the list of the next
\* frequency, which is made if there is none
AddFreq(ls, n, i) ==
    LET freq  == NextFreq(ls, i)
        grown == IF Follows(ls, i, freq)
                 THEN ls
                 ELSE InsertAt(ls, i + 1, [freq |-> freq, nodes |-> <<>>])
        taken == IF i = 0 THEN grown ELSE [grown EXCEPT ![i].nodes = RemoveFirst(@, n)]
        added == [taken EXCEPT ![i + 1].nodes = Add(@, n)]
    IN  IF i = 0 THEN added ELSE DropEmpty(added, i)

\* the position of the small list that fmap_ has for key k
ListOf(k) == SelectInSeq(lists, LAMBDA l : l.freq = fmap_[k])

\* the order in which the files of S were last used when k is used now
UsedLast(S, k) ==
    LET others == S \ {k}
    IN  (older \cap (others \X others)) \cup (others \X {k})

-----------------------------------------------------------------------------
(* The operations.                                                         *)

\* get() finds the key
GetHit(k) ==
    /\ capacity_ > 0
    /\ k \in DOMAIN fmap_
    /\ fmap_[k] < MaxFreq
    /\ lists' = AddFreq(lists, kmap_[k], ListOf(k))
    /\ fmap_' = [fmap_ EXCEPT ![k] = @ + 1]
    /\ older' = UsedLast(DOMAIN fmap_, k)
    /\ UNCHANGED <<key_, kmap_, want, twice>>

\* get() does not, and the caller opens the file
GetMiss(t, k) ==
    /\ capacity_ = 0 \/ k \notin DOMAIN fmap_
    /\ want' = [want EXCEPT ![t] = k]
    /\ UNCHANGED <<lists, key_, maps, hist>>

Get(t, k) == want[t] = None /\ (GetHit(k) \/ GetMiss(t, k))

\* kmap_.size() == capacity_
Full == Cardinality(DOMAIN kmap_) = capacity_

\* mutant: the file of a node that is given up is forgotten in one map only
BugForget(k) == kmap_

Forget(k) == [j \in DOMAIN kmap_ \ {k} |-> kmap_[j]]

\* mutant: the maps lose the key of another node than the lists
BugVictim == Head(lists[1].nodes)

\* the last node of the first small list
Victim == Last(lists[1].nodes)

\* the lists and the maps without the victim
Evicted ==
    [lists |-> DropEmpty([lists EXCEPT ![1].nodes = Front(@)], 1),
     kmap_ |-> Forget(key_[Victim]),
     fmap_ |-> [j \in DOMAIN fmap_ \ {key_[Victim]} |-> fmap_[j]]]

\* what set() puts the new node into
Room == IF Full THEN Evicted ELSE [lists |-> lists, kmap_ |-> kmap_, fmap_ |-> fmap_]

\* the new node's memory: the one just freed will do
Free == (Nodes \ Linked) \cup (IF Full THEN {Victim} ELSE {})

Insert(k) ==
    /\ Free # {}
    /\ LET n == CHOOSE m \in Free : TRUE
       IN  /\ key_' = [m \in Nodes |-> IF m = n THEN k
                                      ELSE IF Full /\ m = Victim THEN None ELSE key_[m]]
           /\ lists' = AddFreq(Room.lists, n, 0)
           /\ kmap_' = [j \in DOMAIN Room.kmap_ \cup {k} |->
                           IF j = k THEN n ELSE Room.kmap_[j]]
           /\ fmap_' = [j \in DOMAIN Room.fmap_ \cup {k} |->
                           IF j = k THEN 1 ELSE Room.fmap_[j]]
    /\ older' = UsedLast(DOMAIN Room.fmap_, k)
    /\ twice' = (twice \/ k \in DOMAIN kmap_)

\* set() of the file that get() did not find
Set(t) ==
    /\ want[t] # None
    /\ IF capacity_ = 0
       THEN UNCHANGED <<lists, key_, maps, hist>>
       ELSE Insert(want[t])
    /\ want' = [want EXCEPT ![t] = None]

Next == \E t \in Threads : Set(t) \/ \E k \in Keys : Get(t, k)

Spec == Init /\ [][Next]_vars

-----------------------------------------------------------------------------
(* Properties.                                                             *)

TypeOK ==
    /\ lists \in Seq(SmallList)
    /\ key_ \in [Nodes -> Keys \cup {None}]
    /\ DOMAIN kmap_ \subseteq Keys /\ \A k \in DOMAIN kmap_ : kmap_[k] \in Nodes
    /\ DOMAIN fmap_ \subseteq Keys /\ \A k \in DOMAIN fmap_ : fmap_[k] \in 1 .. MaxFreq
    /\ want \in [Threads -> Keys \cup {None}]
    /\ older \subseteq Keys \X Keys
    /\ twice \in BOOLEAN

\* The big list is ascending (LFUCache.h:57) and has no empty small list, so
\* that its first list has a victim whenever the cache is full; and a node is
\* in one small list, once.
Lists ==
    /\ \A i, j \in DOMAIN lists : i < j => lists[i].freq < lists[j].freq
    /\ \A i \in DOMAIN lists : lists[i].nodes # <<>> /\ IsInjective(lists[i].nodes)
    /\ \A i, j \in DOMAIN lists :
           i # j => ToSet(lists[i].nodes) \cap ToSet(lists[j].nodes) = {}

\* The maps know the same keys, and what they say of a key is right whatever
\* the loops did in between: the node is alive, holds the file of that key, and
\* is in the small list that fmap_ names, so that a hit returns the right file
\* and moves a node of the list it unlinks it from.
MapsAgree ==
    /\ DOMAIN kmap_ = DOMAIN fmap_
    /\ \A k \in DOMAIN kmap_ :
           /\ key_[kmap_[k]] = k
           /\ \E i \in DOMAIN lists : /\ lists[i].freq = fmap_[k]
                                      /\ kmap_[k] \in ToSet(lists[i].nodes)

\* As long as no two loops have set the same file, a node in the lists is the
\* one its key is mapped to: no memory is held by a file that get() cannot find.
NoStrayNode ==
    ~ twice => \A n \in Linked : key_[n] \in DOMAIN kmap_ /\ kmap_[key_[n]] = n

\* The cache has at most capacity_ files: when it is full, set() makes room
\* (LFUCache.cc:135).
Bounded == Cardinality(DOMAIN kmap_) <= capacity_

Policy == INSTANCE LFUPolicy WITH uses <- fmap_

\* As long as no two loops have set the same file, the lists and the maps are an
\* LFU cache: its victim is the least used file and the oldest of these by its
\* last use, although a small list knows the order of entry only and the loops
\* take turns between get() and set().
FollowsPolicy ==
    Policy!Init /\ [][twice' \/ Policy!Next \/ UNCHANGED <<fmap_, older>>]_vars
=============================================================================
