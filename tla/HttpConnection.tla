---------------------------- MODULE HttpConnection ----------------------------
(***************************************************************************)
(* HttpConnection/HttpConnection.cc: one connection, its channel, its      *)
(* input buffer and its socket.  All of it runs in the thread of its loop; *)
(* the peer and the kernel go on meanwhile.  No code of src/ installs the  *)
(* callbacks of the channel; the names //handleRead, //handleWrite and     *)
(* //handleClose in HttpConnection.h say which method is for which.        *)
(*                                                                         *)
(* The text of a line is what its pointer shows, and that pointer is       *)
(* startLine_, never a place in the input buffer: NULL after init(), then  *)
(* the beginning of the output buffer, and before init() whatever memory   *)
(* held.  A text is known by what the parser makes of it.  alive is FALSE  *)
(* once the program has done something undefined that ends it, or that     *)
(* leaves the thread in an endless loop.                                   *)
(***************************************************************************)
EXTENDS Channel, Buffer, Integers

CONSTANTS
    MaxAnswer, \* bound of the model: the units of the longest answer
    MaxUnread, \* bound of the model: bytes that were received and not taken as lines
    Garbage    \* bound of the model: what a new connection may find in its memory

ASSUME AnswerAssumption == MaxAnswer \in Nat \ {0} /\ MaxUnread \in Nat

VARIABLES
    channel_,
    inputBuffer_,
    http,        \* the other members, see HttpType
    lineStatus,  \* of processRead()
    ret,         \* what processRead() has returned
    conn,        \* what the connection is doing
    rx,          \* the bytes the kernel has received
    room,        \* the kernel takes bytes to send
    peer,        \* "open", or it has "closed" or "reset" its end
    alive

socket == <<rx, room, peer>>
parser == <<lineStatus, ret>>
connVars == <<channel_, inputBuffer_, http, parser, conn, socket, alive>>

ConnPc == {"none", "idle", "parse", "request", "answer", "send", "freed"}
CheckStates == {"REQUESTLINE", "HEADER", "CONTENT"}
Codes == {"NO_REQUEST", "BAD_REQUEST", "NO_RESOURCE", "FORBIDDEN_REQUEST",
          "FILE_REQUEST", "EMPTY_FILE_REQUEST", "INTERNAL_ERROR"}

\* a Content-length; a negative one is compared as unsigned, like one that is
\* longer than what ever comes
Lengths == {0, 1}

\* bytesToSend_ counts in units; below zero it is only known to be negative.
\* vec is the length of the writeIovcnt_ pieces in writeVec_; a writeIovcnt_ of
\* 0 stands for pieces that are not initialised, or of a length that is none.
\* file: fileAddress_ is not empty; real: realFile_ is the name of a regular
\* file; out: outputBuffer_ is as it was made, has text, or is skewed, with
\* readerIndex_ behind writerIndex_.
HttpType ==
    [checkState_ : CheckStates \cup {"junk"}, startLine_ : {"NULL", "junk", "out"},
     ContentLength_ : Lengths, bytesToSend_ : -1 .. MaxAnswer, vec : 1 .. MaxAnswer,
     writeIovcnt_ : 0 .. 2, file : BOOLEAN, real : BOOLEAN,
     out : {"fresh", "text", "skewed"}]

ASSUME GarbageAssumption ==
    Garbage \subseteq
        [checkState_ : CheckStates \cup {"junk"}, startLine_ : {"NULL", "junk"},
         ContentLength_ : Lengths, bytesToSend_ : -1 .. MaxAnswer]

NewHttp ==
    [checkState_ |-> "junk", startLine_ |-> "junk", ContentLength_ |-> 0,
     bytesToSend_ |-> 0, vec |-> MaxAnswer, writeIovcnt_ |-> 0,
     file |-> FALSE, real |-> FALSE, out |-> "fresh"]

ConnInit ==
    /\ channel_ = NewChannel
    /\ inputBuffer_ = NewBuffer
    /\ http = NewHttp
    /\ lineStatus = "LINE_OK"
    /\ ret = "NO_REQUEST"
    /\ conn = "none"
    /\ rx = <<>>
    /\ room = TRUE
    /\ peer = "open"
    /\ alive = TRUE

\* an undefined operation: the program, or this thread, does nothing more, and
\* what its memory holds is forgotten
Undefined ==
    /\ alive' = FALSE
    /\ inputBuffer_' = NewBuffer
    /\ http' = NewHttp
    /\ UNCHANGED <<channel_, parser, conn, socket>>

-----------------------------------------------------------------------------
(* Construction, init() and closeConn().                                   *)

Initialised(h) ==
    [h EXCEPT !.checkState_ = "REQUESTLINE", !.startLine_ = "NULL", !.bytesToSend_ = 0,
              !.out = IF @ = "fresh" THEN @ ELSE "text"]

\* The constructor initialises neither checkState_ nor startLine_,
\* ContentLength_ or bytesToSend_; init() may follow.
Construct ==
    /\ conn = "none"
    /\ \E g \in Garbage :
        LET found == [http EXCEPT !.checkState_ = g.checkState_, !.startLine_ = g.startLine_,
                                  !.ContentLength_ = g.ContentLength_,
                                  !.bytesToSend_ = g.bytesToSend_]
        IN  http' \in {found, Initialised(found)}
    /\ channel_' = EnableWriting(EnableReading(channel_))
    /\ conn' = "idle"
    /\ UNCHANGED <<inputBuffer_, parser, socket, alive>>

\* the two statements at the end of a handler that leaves the connection open
EnableRead  == channel_' = EnableReading(channel_)
EnableWrite == channel_' = EnableWriting(channel_)
CloseConn   == channel_' = RemoveChannel(channel_)

\* The last reference to the connection goes: what is left is its channel, gone
\* but for the pointers to it, and a socket that is closed.  cache_ deletes the
\* static cache of getCache(), which it does not own and other connections go on
\* to use: nothing may come of it, or it is the end of the program.
Destroy ==
    /\ alive' \in BOOLEAN
    /\ conn' = "freed"
    /\ inputBuffer_' = NewBuffer
    /\ http' = NewHttp
    /\ rx' = <<>> /\ room' = TRUE /\ peer' = "closed"
    /\ UNCHANGED parser

Survive == UNCHANGED <<inputBuffer_, http, parser, conn, socket, alive>>

-----------------------------------------------------------------------------
(* handleRead: read(), then process() or closeConn().                      *)

ReadFails == rx = <<>> \/ peer = "reset"

Read ==
    /\ conn = "idle"
    /\ ~ ReadFails
    /\ inputBuffer_' = ReadFd(inputBuffer_, rx)
    /\ alive' = ~ Overruns(inputBuffer_, rx)
    /\ rx' = <<>>
    /\ conn' = "parse"
    /\ UNCHANGED <<channel_, http, parser, room, peer>>

ReadClose ==
    /\ conn = "idle"
    /\ ReadFails
    /\ CloseConn
    /\ UNCHANGED <<inputBuffer_, http, parser, conn, socket, alive>>

\* The first CR or LF of the buffer decides; what comes before is passed over.
\* A CR at the very end is left for the next time.  A LF that comes first is
\* never behind a CR: nothing passes over one.
ParseLine(b) ==
    LET i    == SelectInSeq(b.data, LAMBDA c : c # "c")
        upto == IF i = 0 THEN RetrieveAll(b) ELSE Retrieve(b, i - 1)
    IN  IF i = 0 \/ upto.data = <<"cr">> THEN [status |-> "LINE_OPEN", buffer |-> upto]
        ELSE IF IsPrefix(<<"cr", "lf">>, upto.data)
             THEN [status |-> "LINE_OK", buffer |-> Retrieve(upto, 2)]
             ELSE [status |-> "LINE_BAD", buffer |-> upto]

\* the condition of the loop of processRead()
InContent == http.checkState_ = "CONTENT" /\ lineStatus = "LINE_OK"
HasLine   == InContent \/ ParseLine(inputBuffer_).status = "LINE_OK"
Rest      == IF InContent THEN inputBuffer_ ELSE ParseLine(inputBuffer_).buffer

\* what the text behind startLine_ may turn out to be
Texts ==
    CASE http.startLine_ = "NULL"             -> {"fault"}
      [] http.startLine_ = "out" /\ http.out = "fresh" -> {"empty"}
      [] OTHER -> {"fault", "empty", "request", "length", "other"}

\* getLine() hands out startLine_, which then points to the output buffer
TakeLine(state) ==
    /\ conn = "parse"
    /\ HasLine
    /\ http.checkState_ = state
    /\ inputBuffer_' = Rest
    /\ UNCHANGED <<channel_, socket, alive>>

Taken == [http EXCEPT !.startLine_ = "out"]

\* mutant: the connection is not enabled again
BugNoRequest ==
    /\ conn = "parse"
    /\ ~ HasLine
    /\ inputBuffer_' = Rest
    /\ lineStatus' = "LINE_OK"
    /\ conn' = "idle"
    /\ UNCHANGED <<channel_, http, ret, socket, alive>>

\* no line, or a bad one: process() returns and waits for more
NoRequest ==
    /\ conn = "parse"
    /\ ~ HasLine
    /\ inputBuffer_' = Rest
    /\ EnableRead
    /\ lineStatus' = "LINE_OK"
    /\ conn' = "idle"
    /\ UNCHANGED <<http, ret, socket, alive>>

Return(code) == ret' = code /\ lineStatus' = "LINE_OK" /\ conn' = "answer"
GetRequest   == conn' = "request" /\ lineStatus' = "LINE_OK" /\ UNCHANGED ret
NextLine(s)  == lineStatus' = s /\ UNCHANGED <<ret, conn>>

ParseRequestLine ==
    /\ TakeLine("REQUESTLINE")
    /\ \E text \in Texts \ {"fault"} :
           IF text = "request"
           THEN http' = [Taken EXCEPT !.checkState_ = "HEADER"] /\ NextLine("LINE_OK")
           ELSE http' = Taken /\ Return("BAD_REQUEST")

ParseHeaders ==
    /\ TakeLine("HEADER")
    /\ \E text \in Texts \ {"fault"} :
        \/ /\ text = "empty"
           /\ IF http.ContentLength_ # 0
              THEN http' = [Taken EXCEPT !.checkState_ = "CONTENT"] /\ NextLine("LINE_OK")
              ELSE http' = Taken /\ GetRequest
        \/ /\ text = "length"
           /\ \E l \in Lengths : http' = [Taken EXCEPT !.ContentLength_ = l]
           /\ NextLine("LINE_OK")
        \/ /\ text \in {"request", "other"}
           /\ http' = Taken
           /\ NextLine("LINE_OK")

ContentComplete == Len(Rest.data) >= http.ContentLength_

\* an incomplete body ends the loop only if parseLine() finds no line in it
ParseContent ==
    /\ TakeLine("CONTENT")
    /\ http' = Taken
    /\ IF ContentComplete
       THEN Texts # {"fault"} /\ GetRequest
       ELSE NextLine("LINE_OPEN")

ParseJunk == TakeLine("junk") /\ http' = Taken /\ Return("INTERNAL_ERROR")

\* the text is not readable; strpbrk(), text[0] and text[ContentLength_] fail
ParseFault ==
    /\ conn = "parse"
    /\ HasLine
    /\ "fault" \in Texts
    /\ \/ http.checkState_ \in {"REQUESTLINE", "HEADER"}
       \/ http.checkState_ = "CONTENT" /\ ContentComplete
    /\ Undefined

-----------------------------------------------------------------------------
(* doRequest() and processWrite().                                         *)

\* realFile_ is never cleared: once it names a file, what is appended to it for
\* the next request names nothing.  The text of a file may begin with a NUL.
DoRequest ==
    /\ conn = "request"
    /\ \/ Return("NO_RESOURCE") /\ UNCHANGED http
       \/ /\ ~ http.real
          /\ Return("FORBIDDEN_REQUEST") \/ Return("BAD_REQUEST")
          /\ UNCHANGED http
       \/ /\ ~ http.real
          /\ \E file \in BOOLEAN : http' = [http EXCEPT !.real = TRUE, !.file = file]
          /\ Return("FILE_REQUEST") \/ Return("EMPTY_FILE_REQUEST")
    /\ UNCHANGED <<channel_, inputBuffer_, socket, alive>>

\* cgi_ and url_ may not be initialised, sqlPool_ is null, an empty file cannot
\* be mapped, and the text of a file need not end with a NUL
DoRequestFault == conn = "request" /\ Undefined

EndAnswer ==
    /\ ret' = "NO_REQUEST"
    /\ conn' = "idle"
    /\ UNCHANGED <<inputBuffer_, lineStatus, socket, alive>>

Written == IF http.out = "fresh" THEN "text" ELSE http.out

\* writeVec_ holds the answer; the readableBytes() of a skewed buffer wrap around
Fill ==
    /\ conn = "answer"
    /\ ret \notin {"NO_RESOURCE", "EMPTY_FILE_REQUEST"}
    /\ IF http.out = "skewed"
       THEN \E n \in {-1} \cup 1 .. MaxAnswer :
                http' = [http EXCEPT !.bytesToSend_ = n, !.writeIovcnt_ = 0]
       ELSE \E n \in 1 .. MaxAnswer :
                http' = [http EXCEPT !.out = "text", !.vec = n, !.bytesToSend_ = n,
                              !.writeIovcnt_ = IF ret = "FILE_REQUEST" THEN 2 ELSE 1]
    /\ EndAnswer

\* mutant: writing is not enabled
BugAnswered == Fill /\ UNCHANGED channel_

\* processWrite() returns true
Answered == Fill /\ EnableWrite

\* processWrite() returns false: for want of a case, or of a break after an empty
\* file, or because the text did not fit.  closeConn() removes the channel, and
\* process() enables it nevertheless.
Refused ==
    /\ conn = "answer"
    /\ ret # "FILE_REQUEST"
    /\ IF ret = "NO_RESOURCE"
       THEN UNCHANGED http
       ELSE http' \in {http, [http EXCEPT !.out = Written]}
    /\ channel_' = EnableWriting(RemoveChannel(channel_))
    /\ EndAnswer

\* addResponse() does not pass its arguments on: vsnprintf() takes what it finds
AnswerFault == conn = "answer" /\ ret # "NO_RESOURCE" /\ Undefined

-----------------------------------------------------------------------------
(* handleWrite: write(), or closeConn() if it fails.                       *)

\* nothing is left to send: init() drops what is in the buffers
WriteNothing ==
    /\ conn = "idle"
    /\ http.bytesToSend_ = 0
    /\ EnableRead
    /\ http' = Initialised(http)
    /\ inputBuffer_' = RetrieveAll(inputBuffer_)
    /\ UNCHANGED <<parser, conn, socket, alive>>

WriteBegin ==
    /\ conn = "idle"
    /\ http.bytesToSend_ # 0
    /\ conn' = "send"
    /\ UNCHANGED <<channel_, inputBuffer_, http, parser, socket, alive>>

\* unmap() of a file assigns NULL to a std::string
Unmapped == ~ http.file

\* writev() takes n units: the pieces are not advanced, so that the next call
\* begins with the first one again, whatever was sent.  When more is sent than
\* is readable, writeFd() sets readerIndex_ to the end of the buffer.
WriteSome ==
    /\ conn = "send"
    /\ room
    /\ \E n \in 1 .. http.vec, out \in {http.out, "skewed"} :
           LET left == http.bytesToSend_ - n
           IN  /\ out # http.out => http.writeIovcnt_ # 1
               /\ out # "fresh"
               /\ http' = [http EXCEPT !.out = out,
                                !.bytesToSend_ = IF left < 0 THEN -1 ELSE left]
               /\ IF left > 0
                  THEN UNCHANGED <<channel_, conn>>
                  ELSE Unmapped /\ EnableRead /\ conn' = "idle"
    /\ UNCHANGED <<inputBuffer_, parser, socket, alive>>

\* EAGAIN
WriteAgain ==
    /\ conn = "send"
    /\ ~ room
    /\ EnableWrite
    /\ conn' = "idle"
    /\ UNCHANGED <<inputBuffer_, http, parser, socket, alive>>

\* the second piece, too: writeFd() lets it point into a string that is gone
StrayPieces ==
    \/ http.writeIovcnt_ = 0
    \/ http.writeIovcnt_ = 2 /\ http.bytesToSend_ # http.vec

WriteFails ==
    /\ conn = "send"
    /\ peer = "reset" \/ StrayPieces
    /\ Unmapped
    /\ CloseConn
    /\ conn' = "idle"
    /\ UNCHANGED <<inputBuffer_, http, parser, socket, alive>>

\* the string assignment in unmap(); SIGPIPE; pieces of no length at all, with
\* which writev() returns 0 for ever
WriteFault ==
    /\ conn = "send"
    /\ http.file \/ peer = "reset" \/ http.writeIovcnt_ = 0
    /\ Undefined

-----------------------------------------------------------------------------
(* The kernel and the peer.                                                *)

Open == conn \notin {"none", "freed"}

PeerEnds ==
    /\ Open
    /\ peer = "open"
    /\ peer' \in {"closed", "reset"}
    /\ UNCHANGED <<channel_, inputBuffer_, http, parser, conn, rx, room, alive>>

RoomChanges ==
    /\ Open
    /\ room' = ~ room
    /\ UNCHANGED <<channel_, inputBuffer_, http, parser, conn, rx, peer, alive>>

Receive(bytes) ==
    /\ Open
    /\ peer = "open"
    /\ Len(inputBuffer_.data) + Len(rx) + Len(bytes) <= MaxUnread
    /\ rx' = rx \o bytes
    /\ UNCHANGED <<channel_, inputBuffer_, http, parser, conn, room, peer, alive>>

\* what epoll would report of the socket
ConnReady ==
    (IF rx # <<>> \/ peer # "open" THEN {"in"} ELSE {})
        \cup (IF peer # "open" THEN {"rdhup"} ELSE {})
        \cup (IF peer = "reset" THEN {"hup", "err"} ELSE {})
        \cup (IF room \/ peer = "reset" THEN {"out"} ELSE {})

\* the steps of process() and write() once they have begun
Handling ==
    \/ NoRequest \/ ParseRequestLine \/ ParseHeaders \/ ParseContent \/ ParseJunk
    \/ ParseFault \/ DoRequest \/ DoRequestFault \/ Answered \/ Refused \/ AnswerFault
    \/ WriteSome \/ WriteAgain \/ WriteFails \/ WriteFault

ConnTypeOK ==
    /\ channel_ \in ChannelType
    /\ inputBuffer_.reader \in kCheapPrepend .. inputBuffer_.size
    /\ alive => writableBytes(inputBuffer_) \in Nat
    /\ http \in HttpType
    /\ lineStatus \in {"LINE_OK", "LINE_OPEN"}
    /\ ret \in Codes
    /\ conn \in ConnPc
    /\ room \in BOOLEAN
    /\ peer \in {"open", "closed", "reset"}
    /\ alive \in BOOLEAN
=============================================================================
