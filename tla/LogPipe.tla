------------------------------- MODULE LogPipe -------------------------------
(***************************************************************************)
(* What an asynchronous logger promises to the threads that log: a line    *)
(* that was accepted travels in a FIFO pipe and comes out at the file end  *)
(* once, unless it is discarded; lines never overtake one another.  Lines  *)
(* are numbered in the order in which they are accepted.                   *)
(***************************************************************************)
EXTENDS Integers, Sequences, SequencesExt

VARIABLES
    accepted,   \* how many lines were accepted
    flight,     \* the lines in the pipe, oldest first
    sink,       \* the lines that came out
    gone        \* the lines that were discarded

vars == <<accepted, flight, sink, gone>>

Init == accepted = 0 /\ flight = <<>> /\ sink = <<>> /\ gone = {}

Accept ==
    /\ accepted' = accepted + 1
    /\ flight' = Append(flight, accepted + 1)
    /\ UNCHANGED <<sink, gone>>

\* the k oldest lines come out; a failing device eats those up to the m-th
Deliver ==
    \E m \in 1 .. Len(flight) : \E k \in 0 .. m :
        /\ sink' = sink \o SubSeq(flight, 1, k)
        /\ gone' = gone \cup ToSet(SubSeq(flight, k + 1, m))
        /\ flight' = SubSeq(flight, m + 1, Len(flight))
        /\ UNCHANGED accepted

\* under overload a run of consecutive lines is given up
Discard ==
    \E i, j \in 1 .. Len(flight) :
        /\ i <= j
        /\ gone' = gone \cup ToSet(SubSeq(flight, i, j))
        /\ flight' = SubSeq(flight, 1, i - 1) \o SubSeq(flight, j + 1, Len(flight))
        /\ UNCHANGED <<accepted, sink>>

Next == Accept \/ Deliver \/ Discard

Spec == Init /\ [][Next]_vars
=============================================================================
