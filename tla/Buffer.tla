------------------------------- MODULE Buffer -------------------------------
(***************************************************************************)
(* Buffer/Buffer.h and .cc: size is buffer_.size(), reader is readerIndex_,*)
(* data the readable bytes, so that writerIndex_ is reader + Len(data).    *)
(* The bytes are "cr", "lf" and "c" for any other character.               *)
(***************************************************************************)
EXTENDS Naturals, Sequences, SequencesExt

CONSTANTS
    kCheapPrepend, \* where the readable bytes begin in an empty buffer
    kInitialSize   \* the room of a new buffer behind that

ASSUME BufferAssumption == kCheapPrepend \in Nat /\ kInitialSize \in Nat

NewBuffer == [size |-> kCheapPrepend + kInitialSize, reader |-> kCheapPrepend,
              data |-> <<>>]

writerIndex(b)   == b.reader + Len(b.data)
writableBytes(b) == b.size - writerIndex(b)

RetrieveAll(b) == [b EXCEPT !.reader = kCheapPrepend, !.data = <<>>]

Retrieve(b, n) ==
    IF n < Len(b.data)
    THEN [b EXCEPT !.reader = @ + n, !.data = SubSeq(@, n + 1, Len(@))]
    ELSE RetrieveAll(b)

\* mutant: the buffer is not enlarged for what is in extrabuf
BugExcess(b, s) == 0

\* how many of the bytes s do not fit: readFd() reads them into extrabuf and
\* appends them to what is then a full buffer
Excess(b, s) == IF Len(s) > writableBytes(b) THEN Len(s) - writableBytes(b) ELSE 0

\* makeSpace() of a full buffer moves the bytes to the front when that makes
\* room enough.  It computes writerIndex_ from the new readerIndex_ and the old
\* writerIndex_, so that nothing is gained and append() writes behind the end.
Overruns(b, s) == Excess(b, s) > 0 /\ b.reader >= Excess(b, s) + kCheapPrepend

\* readFd() of s; makeSpace() enlarges the buffer by what does not fit
ReadFd(b, s) == [b EXCEPT !.data = @ \o s, !.size = @ + Excess(b, s)]
=============================================================================
