------------------------------ MODULE MCServer ------------------------------
(* Server on small instances.                                              *)
EXTENDS Server

\* a CR, the LF behind it with what follows, and characters with no end of a line,
\* which may come one by one, together and out of turn
Pieces == {<<"cr">>, <<"lf", "c">>, <<"c", "c">>}

Memory(state, start, length, toSend) ==
    [checkState_ |-> state, startLine_ |-> start, ContentLength_ |-> length,
     bytesToSend_ |-> toSend]

\* every state of the parser, a request with and without a body, something,
\* nothing and less than nothing to send
SomeGarbage ==
    {Memory("REQUESTLINE", "junk", 0, 0), Memory("HEADER", "junk", 1, -1),
     Memory("CONTENT", "junk", 1, 1), Memory("junk", "junk", 0, 1)}
=============================================================================
