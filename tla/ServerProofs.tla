----------------------------- MODULE ServerProofs -----------------------------
(***************************************************************************)
(* Proofs about the server, for whatever the peer sends and any timeouts,  *)
(* sizes of the buffer and contents of uninitialised memory: channels,     *)
(* poller and epoll agree, no pointer to a channel that is gone is left,   *)
(* no connection is deaf, and the types.                                   *)
(***************************************************************************)
EXTENDS Server, SequenceLemmas, TLAPS

\* What an operation on a channel may rely on, and what it leaves behind: the events
\* may have been changed without epoll knowing it yet, as update() comes last.
Tied(ch) ==
    /\ ch \in ChannelType
    /\ Registered(ch) <=> ch.status = "kAdded"
    /\ ch.mapped <=> ch.status # "kNew"

Good(ch) == ch \in ChannelType /\ Agrees(ch)

Gone(ch) == ~ ch.mapped /\ ~ Registered(ch)

\* The connection: its channel is good, and gone when the connection is.
ConnInv ==
    /\ Good(channel_)
    /\ conn \in ConnPc
    /\ conn = "freed" => Gone(channel_) /\ "conn" \notin DOMAIN activeChannels_

\* The listening channel is new until listen() and gone after the destructor: only
\* in between is it reported.
AcceptInv ==
    /\ Good(acceptChannel_)
    /\ acceptor \in {"built", "listening", "gone"}
    /\ acceptor = "built" => acceptChannel_ = NewChannel
    /\ acceptor = "gone" => Gone(acceptChannel_)
    /\ "accept" \in DOMAIN activeChannels_ => acceptor = "listening"
    /\ accepted \in Nat

\* Nothing is left of a round when the loop waits or calls the timers.
RoundInv ==
    /\ loop \in {"poll", "handle", "timers"}
    /\ loop # "handle" => DOMAIN activeChannels_ = {}

\* An open connection that is registered but disarmed is being handled, or is about
\* to be, by a handler that is set; but for an error.
DeafInv ==
    /\ Busy => loop = "handle"
    /\ "conn" \in DOMAIN activeChannels_ =>
           activeChannels_["conn"] \in {"read", "write"} \/ peer = "reset"
    /\ alive /\ Open /\ Registered(channel_) /\ ~ Armed(channel_) =>
           peer = "reset" \/ Busy \/ "conn" \in DOMAIN activeChannels_

IInv == ConnInv /\ AcceptInv /\ RoundInv /\ DeafInv

-----------------------------------------------------------------------------
(* The operations on a channel.                                            *)

LEMMA NewGood == Good(NewChannel) /\ Gone(NewChannel) /\ ~ Armed(NewChannel)
BY DEF Good, Gone, Agrees, NewChannel, ChannelType, Registered, Armed, Absent, Disarmed, Flags

LEMMA UpdateGood ==
    ASSUME NEW ch, Tied(ch)
    PROVE  Good(UpdateChannel(ch))
<1>1. ch.events # Absent
  BY DEF Tied, ChannelType, Flags, Absent
<1>2. CASE ch.status \in {"kNew", "kDeleted"}
  BY <1>1, <1>2 DEF Tied, Good, Agrees, UpdateChannel, Add, Registered, ChannelType
<1>3. CASE ch.status = "kAdded"
  BY <1>1, <1>3 DEF Tied, Good, Agrees, UpdateChannel, Mod, Del, Registered, ChannelType
<1> QED
  BY <1>2, <1>3 DEF Tied, ChannelType

LEMMA GoodTied ==
    ASSUME NEW ch, Good(ch), NEW e \in SUBSET (Flags \cup {"oneshot"})
    PROVE  Tied([ch EXCEPT !.events = e])
BY DEF Good, Agrees, Tied, ChannelType, Registered

LEMMA EnableReadingGood == ASSUME NEW ch, Good(ch) PROVE Good(EnableReading(ch))
<1>1. ch.events \cup kReadEvent \cup kCloseEvent \in SUBSET (Flags \cup {"oneshot"})
  BY DEF Good, ChannelType, kReadEvent, kCloseEvent, Flags
<1>2. EnableReading(ch) =
        UpdateChannel([ch EXCEPT !.events = ch.events \cup kReadEvent \cup kCloseEvent])
  BY DEF EnableReading
<1> QED
  BY <1>1, <1>2, GoodTied, UpdateGood

LEMMA EnableWritingGood == ASSUME NEW ch, Good(ch) PROVE Good(EnableWriting(ch))
<1>1. ch.events \cup kWriteEvent \cup kCloseEvent \in SUBSET (Flags \cup {"oneshot"})
  BY DEF Good, ChannelType, kWriteEvent, kCloseEvent, Flags
<1>2. EnableWriting(ch) =
        UpdateChannel([ch EXCEPT !.events = ch.events \cup kWriteEvent \cup kCloseEvent])
  BY DEF EnableWriting
<1> QED
  BY <1>1, <1>2, GoodTied, UpdateGood

LEMMA DisableAllGood == ASSUME NEW ch, Good(ch) PROVE Good(DisableAll(ch))
BY GoodTied, UpdateGood DEF DisableAll

\* remove() leaves nothing behind, in whatever state it finds the channel
LEMMA RemoveGood ==
    ASSUME NEW ch, Good(ch)
    PROVE  Good(RemoveChannel(ch)) /\ Gone(RemoveChannel(ch))
BY DEF Good, Gone, Agrees, RemoveChannel, Del, Registered, ChannelType

LEMMA DisarmGood ==
    ASSUME NEW ch, Good(ch)
    PROVE  Good(Disarm(ch))
BY DEF Good, Agrees, Disarm, Disarmed, Absent, Registered, ChannelType, Flags

\* enabling always arms: the registration has flags besides the one-shot one
LEMMA EnableArms ==
    ASSUME NEW ch, Good(ch)
    PROVE  Armed(EnableReading(ch)) /\ Armed(EnableWriting(ch))
<1>1. ASSUME NEW e \in SUBSET (Flags \cup {"oneshot"}), "hup" \in e
      PROVE  Armed(UpdateChannel([ch EXCEPT !.events = e]))
  <2> DEFINE new == [ch EXCEPT !.events = e]
  <2>1. Tied(new) /\ new.events = e
    BY GoodTied DEF Good, ChannelType
  <2>2. e \notin {Absent, Disarmed} /\ e # {}
    BY <1>1 DEF Absent, Disarmed
  <2>3. UpdateChannel(new).interest = e
    <3>1. CASE new.status \in {"kNew", "kDeleted"}
      BY <2>1, <3>1 DEF Tied, UpdateChannel, Add, Registered, ChannelType
    <3>2. CASE new.status = "kAdded"
      BY <2>1, <2>2, <3>2 DEF Tied, UpdateChannel, Mod, Registered, ChannelType
    <3> QED BY <2>1, <3>1, <3>2 DEF Tied, ChannelType
  <2> QED BY <2>2, <2>3 DEF Armed
<1>2. /\ ch.events \cup kReadEvent \cup kCloseEvent \in SUBSET (Flags \cup {"oneshot"})
      /\ ch.events \cup kWriteEvent \cup kCloseEvent \in SUBSET (Flags \cup {"oneshot"})
  BY DEF Good, ChannelType, kReadEvent, kWriteEvent, kCloseEvent, Flags
<1>3. "hup" \in kCloseEvent
  BY DEF kCloseEvent
<1> QED
  BY <1>1, <1>2, <1>3 DEF EnableReading, EnableWriting

\* what is gone is not reported
LEMMA GoneQuiet == ASSUME NEW ch, Gone(ch) PROVE ~ Armed(ch)
BY DEF Gone, Armed, Registered

-----------------------------------------------------------------------------
(* The steps of the connection.                                            *)

\* What the handlers, and the construction, do to the channel.
LEMMA HandlerStep ==
    ASSUME ConnInv,
           \/ Handling \/ Construct \/ Read \/ ReadClose \/ WriteNothing \/ WriteBegin
    PROVE  Good(channel_') /\ conn # "freed" /\ conn' \in ConnPc \ {"freed"}
<1> USE DEF ConnInv, ConnPc
<1> DEFINE Result == Good(channel_') /\ conn # "freed" /\ conn' \in ConnPc \ {"freed"}
<1>1. CASE NoRequest
  BY <1>1, EnableReadingGood DEF NoRequest, EnableRead
<1>2. CASE \E state : TakeLine(state) /\ (conn' = conn \/ conn' \in {"answer", "request"})
  BY <1>2 DEF TakeLine
<1>3. ASSUME ParseRequestLine \/ ParseHeaders \/ ParseContent \/ ParseJunk PROVE Result
  <2>1. CASE ParseRequestLine
    <3>1. conn' = conn \/ conn' = "answer"
      BY <2>1 DEF ParseRequestLine, Return, NextLine
    <3> QED BY <2>1, <3>1, <1>2 DEF ParseRequestLine
  <2>2. CASE ParseHeaders
    <3>1. conn' = conn \/ conn' = "request"
      BY <2>2 DEF ParseHeaders, GetRequest, NextLine
    <3> QED BY <2>2, <3>1, <1>2 DEF ParseHeaders
  <2>3. CASE ParseContent
    <3>1. conn' = conn \/ conn' = "request"
      BY <2>3 DEF ParseContent, GetRequest, NextLine
    <3> QED BY <2>3, <3>1, <1>2 DEF ParseContent
  <2>4. CASE ParseJunk
    BY <2>4, <1>2 DEF ParseJunk, Return
  <2> QED BY <1>3, <2>1, <2>2, <2>3, <2>4
<1>4. CASE ParseFault \/ DoRequestFault \/ AnswerFault \/ WriteFault
  BY <1>4 DEF ParseFault, DoRequestFault, AnswerFault, WriteFault, Undefined
<1>5. CASE DoRequest
  BY <1>5 DEF DoRequest, Return
<1>6. CASE Answered
  BY <1>6, EnableWritingGood DEF Answered, Fill, EndAnswer, EnableWrite
<1>7. CASE Refused
  BY <1>7, EnableWritingGood, RemoveGood DEF Refused, EndAnswer
<1>8. CASE WriteSome
  <2>1. (channel_' = channel_ /\ conn' = conn) \/ (EnableRead /\ conn' = "idle")
    BY <1>8 DEF WriteSome
  <2> QED BY <1>8, <2>1, EnableReadingGood DEF WriteSome, EnableRead
<1>9. CASE WriteAgain
  BY <1>9, EnableWritingGood DEF WriteAgain, EnableWrite
<1>10. CASE WriteFails
  BY <1>10, RemoveGood DEF WriteFails, CloseConn
<1>11. CASE Construct
  BY <1>11, EnableReadingGood, EnableWritingGood DEF Construct
<1>12. CASE Read
  BY <1>12 DEF Read
<1>13. CASE ReadClose
  BY <1>13, RemoveGood DEF ReadClose, CloseConn
<1>14. CASE WriteNothing
  BY <1>14, EnableReadingGood DEF WriteNothing, EnableRead
<1>15. CASE WriteBegin
  BY <1>15 DEF WriteBegin
<1> QED
  BY <1>1, <1>3, <1>4, <1>5, <1>6, <1>7, <1>8, <1>9, <1>10, <1>11, <1>12, <1>13, <1>14, <1>15
     DEF Handling

\* Every way out of a handler enables the channel, or removes it, or is not out yet.
Out == ~ alive' \/ Busy' \/ Armed(channel_') \/ ~ Registered(channel_')

LEMMA HandlingArms == ASSUME ConnInv, Handling PROVE peer' = peer /\ Busy /\ Out
<1> USE DEF ConnInv, Busy, socket, Out
<1> DEFINE Result == peer' = peer /\ Busy /\ Out
<1>1. CASE NoRequest
  BY <1>1, EnableArms DEF NoRequest, EnableRead
<1>2. ASSUME NEW state, TakeLine(state), conn' = conn \/ conn' \in {"answer", "request"}
      PROVE  Result
  BY <1>2 DEF TakeLine
<1>3. ASSUME ParseRequestLine \/ ParseHeaders \/ ParseContent \/ ParseJunk PROVE Result
  <2>1. conn' = conn \/ conn' \in {"answer", "request"}
    BY <1>3 DEF ParseRequestLine, ParseHeaders, ParseContent, ParseJunk, Return, GetRequest,
                NextLine
  <2>2. TakeLine("REQUESTLINE") \/ TakeLine("HEADER") \/ TakeLine("CONTENT") \/ TakeLine("junk")
    BY <1>3 DEF ParseRequestLine, ParseHeaders, ParseContent, ParseJunk
  <2> QED BY <1>2, <2>1, <2>2
<1>4. CASE ParseFault \/ DoRequestFault \/ AnswerFault \/ WriteFault
  BY <1>4 DEF ParseFault, DoRequestFault, AnswerFault, WriteFault, Undefined
<1>5. CASE DoRequest
  BY <1>5 DEF DoRequest, Return
<1>6. CASE Answered
  BY <1>6, EnableArms DEF Answered, Fill, EndAnswer, EnableWrite
<1>7. CASE Refused
  BY <1>7, EnableArms, RemoveGood DEF Refused, EndAnswer
<1>8. CASE WriteSome
  <2>1. (channel_' = channel_ /\ conn' = conn) \/ (EnableRead /\ conn' = "idle")
    BY <1>8 DEF WriteSome
  <2> QED BY <1>8, <2>1, EnableArms DEF WriteSome, EnableRead
<1>9. CASE WriteAgain
  BY <1>9, EnableArms DEF WriteAgain, EnableWrite
<1>10. CASE WriteFails
  BY <1>10, RemoveGood DEF WriteFails, CloseConn, Gone
<1> QED
  BY <1>1, <1>3, <1>4, <1>5, <1>6, <1>7, <1>8, <1>9, <1>10 DEF Handling

LEMMA BeginArms ==
    ASSUME ConnInv, Construct \/ Read \/ ReadClose \/ WriteNothing \/ WriteBegin
    PROVE  peer' = peer /\ Out
<1> USE DEF ConnInv, Busy, socket, Out
<1>1. CASE Construct
  BY <1>1, EnableReadingGood, EnableArms DEF Construct
<1>2. CASE Read
  BY <1>2 DEF Read
<1>3. CASE ReadClose
  BY <1>3, RemoveGood DEF ReadClose, CloseConn, Gone
<1>4. CASE WriteNothing
  BY <1>4, EnableArms DEF WriteNothing, EnableRead
<1>5. CASE WriteBegin
  BY <1>5 DEF WriteBegin
<1> QED
  BY <1>1, <1>2, <1>3, <1>4, <1>5

-----------------------------------------------------------------------------
(* The parts of the invariant.                                             *)

\* ConnInv is about the connection and the channels of the round.
LEMMA ConnStep == ASSUME IInv, [Next]_vars PROVE ConnInv'
<1> USE DEF IInv
<1> DEFINE Fewer == DOMAIN activeChannels_' \subseteq DOMAIN activeChannels_
<1>1. ASSUME channel_' = channel_, conn' = conn, Fewer PROVE ConnInv'
  BY <1>1 DEF ConnInv
<1>2. ASSUME Fewer,
             \/ Handling \/ Construct \/ Read \/ ReadClose \/ WriteNothing \/ WriteBegin
      PROVE  ConnInv'
  <2>1. Good(channel_') /\ conn' \in ConnPc \ {"freed"}
    BY <1>2, HandlerStep
  <2> QED BY <2>1 DEF ConnInv
<1>3. ASSUME NEW c, Handle(c) PROVE Fewer
  BY <1>3 DEF Handle
<1>4. CASE PollSome
  <2>1. PICK S \in (SUBSET Ready) \ {{}} :
          /\ activeChannels_' = [c \in S |-> Callback(Report[c])]
          /\ channel_' = IF "conn" \in S THEN Disarm(channel_) ELSE channel_
    BY <1>4 DEF PollSome
  <2>2. conn' = conn
    BY <1>4 DEF PollSome
  <2>3. Good(channel_')
    BY <2>1, DisarmGood DEF ConnInv
  <2>4. ASSUME conn = "freed" PROVE "conn" \notin S
    <3>1. Report["conn"] = {}
      BY <2>4, GoneQuiet DEF ConnInv, Report, Reported
    <3> QED BY <3>1 DEF Ready
  <2> QED BY <2>1, <2>2, <2>3, <2>4 DEF ConnInv
<1>5. CASE HandleConn
  <2>1. Read \/ ReadClose \/ WriteNothing \/ WriteBegin \/ UNCHANGED connVars
    BY <1>5 DEF HandleConn
  <2> QED BY <1>1, <1>2, <1>3, <1>5, <2>1 DEF HandleConn, connVars
<1>6. CASE GoOn
  BY <1>2, <1>6 DEF GoOn, poller
<1>7. CASE Accept
  <2>1. Construct \/ UNCHANGED connVars
    BY <1>7 DEF Accept
  <2> QED BY <1>1, <1>2, <1>3, <1>7, <2>1 DEF Accept, connVars
<1>8. CASE AcceptFails
  BY <1>1, <1>3, <1>8 DEF AcceptFails, connVars
<1>9. CASE Expire
  <2>1. Good(channel_') /\ Gone(channel_')
    BY <1>9, RemoveGood DEF Expire, CloseConn, ConnInv
  <2>2. conn' \in ConnPc
    BY <1>9 DEF Expire, Pop, Destroy, Survive, ConnInv, ConnPc
  <2>3. DOMAIN activeChannels_' = {}
    BY <1>9 DEF Expire, Pop, RoundInv, poller
  <2> QED BY <2>1, <2>2, <2>3 DEF ConnInv
<1>10. CASE PollNothing \/ EndHandle \/ EndTimers \/ Tick
  BY <1>1, <1>10 DEF PollNothing, EndHandle, EndTimers, Tick, connVars, poller
<1>11. CASE Listen \/ DestroyAcceptor \/ AddTimer \/ Connect
  BY <1>1, <1>11 DEF Listen, DestroyAcceptor, AddTimer, Connect, connVars, poller
<1>12. CASE Send \/ Kernel(RoomChanges) \/ Kernel(PeerEnds)
  BY <1>1, <1>12 DEF Send, Receive, Kernel, RoomChanges, PeerEnds, poller
<1>13. CASE UNCHANGED vars
  BY <1>1, <1>13 DEF vars, connVars, poller
<1> QED
  BY <1>4, <1>5, <1>6, <1>7, <1>8, <1>9, <1>10, <1>11, <1>12, <1>13
     DEF Next, LoopStep, Owner, Clients

\* AcceptInv is about the acceptor, its channel and the channels of the round.
LEMMA AcceptStep == ASSUME IInv, [Next]_vars PROVE AcceptInv'
<1> USE DEF IInv
<1> DEFINE Fewer == DOMAIN activeChannels_' \subseteq DOMAIN activeChannels_
           Same == UNCHANGED <<acceptChannel_, acceptor, accepted>>
<1>1. ASSUME Same, Fewer PROVE AcceptInv'
  BY <1>1 DEF AcceptInv
<1>2. CASE PollSome
  <2>1. PICK S \in (SUBSET Ready) \ {{}} :
          /\ activeChannels_' = [c \in S |-> Callback(Report[c])]
          /\ acceptChannel_' = IF "accept" \in S THEN Disarm(acceptChannel_)
                               ELSE acceptChannel_
    BY <1>2 DEF PollSome
  <2>2. acceptor' = acceptor /\ accepted' = accepted /\ loop = "poll"
    BY <1>2 DEF PollSome
  <2>3. CASE "accept" \notin S
    BY <2>1, <2>2, <2>3 DEF AcceptInv
  <2>4. CASE "accept" \in S
    <3>1. Armed(acceptChannel_)
      BY <2>1, <2>4 DEF Ready, Report, Reported
    <3>2. Good(acceptChannel_')
      BY <2>1, <2>4, DisarmGood DEF AcceptInv
    <3>3. acceptor \notin {"built", "gone"}
      BY <3>1, NewGood, GoneQuiet DEF AcceptInv
    <3> QED BY <2>1, <2>2, <3>2, <3>3 DEF AcceptInv
  <2> QED BY <2>3, <2>4
<1>3. CASE Accept
  <2>1. acceptor' = acceptor /\ acceptChannel_' = acceptChannel_ /\ accepted' = accepted + 1
    BY <1>3 DEF Accept
  <2>2. DOMAIN activeChannels_' = DOMAIN activeChannels_ \ {"accept"}
        /\ "accept" \in DOMAIN activeChannels_
    BY <1>3 DEF Accept, Handle, Handles
  <2> QED BY <2>1, <2>2 DEF AcceptInv
<1>4. CASE Listen
  <2>1. acceptChannel_' = EnableReading(NewChannel) /\ acceptor' = "listening"
        /\ accepted' = accepted /\ DOMAIN activeChannels_' = {}
    BY <1>4 DEF Listen, AcceptInv, RoundInv, poller
  <2>2. Good(acceptChannel_')
    BY <2>1, NewGood, EnableReadingGood
  <2> QED BY <2>1, <2>2 DEF AcceptInv
<1>5. CASE DestroyAcceptor
  <2>1. acceptor' = "gone" /\ accepted' = accepted /\ DOMAIN activeChannels_' = {}
    BY <1>5 DEF DestroyAcceptor, RoundInv, poller
  <2>2. Good(acceptChannel_') /\ Gone(acceptChannel_')
    BY <1>5, DisableAllGood, RemoveGood DEF DestroyAcceptor, AcceptInv
  <2> QED BY <2>1, <2>2 DEF AcceptInv
<1>6. CASE HandleConn \/ AcceptFails
  BY <1>1, <1>6 DEF HandleConn, AcceptFails, Handle, accepting
<1>7. CASE GoOn \/ Expire
  BY <1>1, <1>7 DEF GoOn, Expire, Pop, accepting, poller
<1>8. CASE PollNothing \/ EndHandle \/ EndTimers \/ Tick
  BY <1>1, <1>8 DEF PollNothing, EndHandle, EndTimers, Tick, accepting, poller
<1>9. CASE AddTimer \/ Connect
  BY <1>1, <1>9 DEF AddTimer, Connect, accepting, poller
<1>10. CASE Send \/ Kernel(RoomChanges) \/ Kernel(PeerEnds)
  BY <1>1, <1>10 DEF Send, Kernel, accepting, poller
<1>11. CASE UNCHANGED vars
  BY <1>1, <1>11 DEF vars, accepting, poller
<1> QED
  BY <1>2, <1>3, <1>4, <1>5, <1>6, <1>7, <1>8, <1>9, <1>10, <1>11
     DEF Next, LoopStep, Owner, Clients

LEMMA RoundStep == ASSUME IInv, [Next]_vars PROVE RoundInv'
<1> USE DEF IInv, RoundInv
<1>1. CASE PollSome
  BY <1>1 DEF PollSome
<1>2. CASE PollNothing \/ EndTimers
  BY <1>2 DEF PollNothing, EndTimers
<1>3. CASE EndHandle
  BY <1>3 DEF EndHandle, NoChannel
<1>4. CASE HandleConn \/ Accept \/ AcceptFails
  BY <1>4 DEF HandleConn, Accept, AcceptFails, Handle, Handles
<1>5. CASE UNCHANGED poller
  BY <1>5 DEF poller
<1> QED
  BY <1>1, <1>2, <1>3, <1>4, <1>5
     DEF Next, LoopStep, Owner, Clients, GoOn, Expire, Pop, Listen, DestroyAcceptor, AddTimer,
         Connect, Send, Kernel, Tick, vars

\* epoll reports errors and hang-ups of a reset connection only
LEMMA Heard ==
    ASSUME "conn" \in Ready
    PROVE  Callback(Report["conn"]) \in {"read", "write"} \/ peer = "reset"
<1>1. Report["conn"] \subseteq (IF Open THEN ConnReady ELSE {})
  BY DEF Report, Reported
<1>2. CASE "hup" \in Report["conn"] \/ "err" \in Report["conn"]
  BY <1>1, <1>2 DEF ConnReady
<1>3. CASE "hup" \notin Report["conn"] /\ "err" \notin Report["conn"]
  <2>1. Report["conn"] \subseteq {"in", "rdhup", "out"} /\ Report["conn"] # {}
    BY <1>1, <1>3 DEF ConnReady, Ready
  <2> QED BY <1>3, <2>1 DEF Callback
<1> QED BY <1>2, <1>3

\* DeafInv is about the connection, the channels of the round and the peer.
LEMMA DeafStep == ASSUME IInv, [Next]_vars PROVE DeafInv'
<1> USE DEF IInv, DeafInv, Busy, Open
<1> DEFINE Same == activeChannels_' = activeChannels_
           Quiet == /\ channel_' = channel_ /\ conn' = conn /\ Same
                    /\ peer' = peer \/ peer' = "reset" \/ (peer # "reset" /\ peer' = "closed")
                    /\ alive' = alive
           Its(A) == DOMAIN A \cap {"conn"}
           AsBefore == /\ loop' = "handle"
                       /\ Its(activeChannels_') = Its(activeChannels_)
                       /\ "conn" \in DOMAIN activeChannels_ =>
                              activeChannels_'["conn"] = activeChannels_["conn"]
<1>1. ASSUME Quiet, loop' = loop \/ ~ Busy PROVE DeafInv'
  BY <1>1 DEF Registered, Armed
<1>2. CASE PollSome
  <2>1. PICK S \in (SUBSET Ready) \ {{}} :
          /\ activeChannels_' = [c \in S |-> Callback(Report[c])]
          /\ channel_' = IF "conn" \in S THEN Disarm(channel_) ELSE channel_
    BY <1>2 DEF PollSome
  <2>2. /\ conn' = conn /\ peer' = peer /\ alive' = alive
        /\ loop = "poll" /\ loop' = "handle" /\ DOMAIN activeChannels_ = {}
    BY <1>2 DEF PollSome, socket, RoundInv
  <2>3. CASE "conn" \in S
    <3>1. "conn" \in DOMAIN activeChannels_' /\ activeChannels_'["conn"] = Callback(Report["conn"])
      BY <2>1, <2>3
    <3> QED BY <2>1, <2>2, <2>3, <3>1, Heard
  <2>4. CASE "conn" \notin S
    <3>1. "conn" \notin DOMAIN activeChannels_' /\ channel_' = channel_
      BY <2>1, <2>4
    <3> QED BY <2>2, <3>1 DEF Registered, Armed
  <2> QED BY <2>3, <2>4
<1>3. CASE HandleConn
  <2>1. /\ "conn" \notin DOMAIN activeChannels_' /\ loop' = "handle"
        /\ "conn" \in DOMAIN activeChannels_ /\ ~ Busy
    BY <1>3 DEF HandleConn, Handle, Handles
  <2>2. CASE activeChannels_["conn"] \in {"read", "write"}
    <3>1. peer' = peer /\ Out
      BY <1>3, <2>2, BeginArms DEF HandleConn
    <3> QED BY <2>1, <3>1 DEF Out
  <2>3. CASE activeChannels_["conn"] \notin {"read", "write"}
    <3>1. UNCHANGED connVars /\ peer = "reset"
      BY <1>3, <2>1, <2>3 DEF HandleConn
    <3> QED BY <2>1, <3>1 DEF connVars, socket
  <2> QED BY <2>2, <2>3
<1>4. CASE GoOn
  <2>1. peer' = peer /\ loop = "handle" /\ loop' = loop /\ Same /\ Out
    BY <1>4, HandlingArms DEF GoOn, poller
  <2> QED BY <2>1 DEF Out
<1>5. CASE Accept
  <2>1. AsBefore
    BY <1>5 DEF Accept, Handle, Handles
  <2>2. CASE Construct
    <3>1. peer' = peer /\ Out
      BY <2>2, BeginArms
    <3> QED BY <2>1, <3>1 DEF Out
  <2>3. CASE UNCHANGED connVars
    BY <2>1, <2>3 DEF connVars, socket, Registered, Armed
  <2> QED BY <1>5, <2>2, <2>3 DEF Accept
<1>6. CASE AcceptFails
  <2>1. AsBefore /\ UNCHANGED connVars
    BY <1>6 DEF AcceptFails, Handle, Handles
  <2> QED BY <2>1 DEF connVars, socket, Registered, Armed
<1>7. CASE Expire
  <2>1. channel_' = RemoveChannel(channel_) /\ Same /\ loop' = loop /\ loop = "timers"
    BY <1>7 DEF Expire, Pop, CloseConn, poller
  <2>2. ~ Registered(channel_)'
    BY <2>1, RemoveGood DEF ConnInv, Gone, Registered
  <2>3. DOMAIN activeChannels_ = {}
    BY <2>1 DEF RoundInv
  <2>4. conn' = conn \/ conn' = "freed"
    BY <1>7 DEF Expire, Pop, Destroy, Survive
  <2> QED BY <2>1, <2>2, <2>3, <2>4
<1>8. CASE EndHandle
  <2>1. ~ Busy /\ Quiet
    BY <1>8 DEF EndHandle, connVars, socket
  <2> QED BY <1>1, <2>1
<1>9. CASE PollNothing \/ EndTimers
  <2>1. ~ Busy /\ Quiet
    BY <1>9 DEF PollNothing, EndTimers, connVars, socket
  <2> QED BY <1>1, <2>1
<1>10. CASE Tick \/ Listen \/ DestroyAcceptor \/ AddTimer \/ Connect
  BY <1>1, <1>10 DEF Tick, Listen, DestroyAcceptor, AddTimer, Connect, connVars, poller, socket
<1>11. CASE Send \/ Kernel(RoomChanges) \/ Kernel(PeerEnds)
  BY <1>1, <1>11 DEF Send, Receive, Kernel, RoomChanges, PeerEnds, poller
<1>12. CASE UNCHANGED vars
  BY <1>1, <1>12 DEF vars, connVars, poller, socket
<1> QED
  BY <1>2, <1>3, <1>4, <1>5, <1>6, <1>7, <1>8, <1>9, <1>10, <1>11, <1>12
     DEF Next, LoopStep, Owner, Clients

-----------------------------------------------------------------------------
(* The theorems.                                                           *)

LEMMA InitInv == Init => IInv
BY NewGood DEF Init, ConnInit, IInv, ConnInv, AcceptInv, RoundInv, DeafInv, Busy,
              NoChannel, ConnPc, Gone

THEOREM Inductive == Spec => []IInv
<1>1. IInv /\ [Next]_vars => IInv'
  BY ConnStep, AcceptStep, RoundStep, DeafStep DEF IInv
<1> QED
  BY InitInv, <1>1, PTL DEF Spec

\* After every sequence of enabling, disabling, removing and reporting, the state
\* of a channel, the map of the poller and epoll say the same (Channel.h,
\* EpollPoller.cc), whatever the connection, its peer and the timers do.
THEOREM Registrations == Spec => []KernelAgrees
<1>1. IInv => KernelAgrees
  BY DEF IInv, ConnInv, AcceptInv, KernelAgrees, Good
<1> QED
  BY Inductive, <1>1, PTL

\* When the connection or the acceptor is destroyed neither the poller nor epoll
\* nor the round of EventLoop::loop() has a pointer to its channel.
THEOREM NonePointsAstray == Spec => []NoDangling
<1>1. IInv => NoDangling
  BY DEF IInv, ConnInv, AcceptInv, NoDangling, Gone
<1> QED
  BY Inductive, <1>1, PTL

\* Although every report disarms a one-shot registration, each way through a
\* handler arms it again or removes it (HttpConnection.cc), with whatever the
\* peer sends: when the loop waits only a connection in error is deaf.
THEOREM AlwaysHeard == Spec => []NoDeafConnection
<1>1. IInv => NoDeafConnection
  BY DEF IInv, RoundInv, DeafInv, NoDeafConnection
<1> QED
  BY Inductive, <1>1, PTL

-----------------------------------------------------------------------------
(* The buffer, and the other members of the connection.                    *)

Bytes == {"c", "cr", "lf"}

Contents == Seq(Bytes)

\* The indices of a buffer are in it and in order.
Sane(b) ==
    /\ b \in [size : Nat, reader : Nat, data : Contents]
    /\ kCheapPrepend <= b.reader
    /\ b.reader + Len(b.data) <= b.size

InputInv ==
    /\ Sane(inputBuffer_)
    /\ rx \in Contents

HttpInv ==
    /\ http \in HttpType
    /\ lineStatus \in {"LINE_OK", "LINE_OPEN"}
    /\ ret \in Codes
    /\ room \in BOOLEAN
    /\ peer \in {"open", "closed", "reset"}
    /\ alive \in BOOLEAN

\* A listening channel that is reported has a connection that waits.
QueueInv ==
    /\ DOMAIN activeChannels_ \subseteq {"accept", "conn"}
    /\ maxEvents \in Nat \ {0}
    /\ backlog \in 0 .. MaxBacklog
    /\ "accept" \in DOMAIN activeChannels_ => backlog > 0
    /\ timerQueue_ \in Seq(0 .. Timeout) /\ Len(timerQueue_) <= MaxTimers

LEMMA SaneIs ==
    ASSUME NEW b, NEW size \in Nat, NEW reader \in Nat, NEW data \in Contents,
           b = [size |-> size, reader |-> reader, data |-> data],
           kCheapPrepend <= reader, reader + Len(data) <= size
    PROVE  Sane(b)
<1>1. b.size = size /\ b.reader = reader /\ b.data = data
  OBVIOUS
<1> QED BY <1>1 DEF Sane

LEMMA SaneParts ==
    ASSUME NEW b, Sane(b)
    PROVE  /\ b = [size |-> b.size, reader |-> b.reader, data |-> b.data]
           /\ b.data \in Contents /\ b.data \in Seq(Bytes)
           /\ b.size \in Nat /\ b.reader \in Nat /\ Len(b.data) \in Nat
           /\ kCheapPrepend <= b.reader /\ b.reader + Len(b.data) <= b.size
BY DEF Sane, Contents

LEMMA Empty == <<>> \in Contents /\ Len(<<>>) = 0
<1>1. <<>> \in Seq(Bytes) /\ Len(<<>>) = 0
  OBVIOUS
<1> QED BY <1>1 DEF Contents

LEMMA NewSane == Sane(NewBuffer)
<1>1. PICK e \in Contents : e = <<>> /\ Len(e) = 0
  BY Empty
<1>2. PICK n \in Nat : n = kCheapPrepend + kInitialSize /\ kCheapPrepend <= n
  BY BufferAssumption
<1>3. NewBuffer = [size |-> n, reader |-> kCheapPrepend, data |-> e]
  BY <1>1, <1>2 DEF NewBuffer
<1> QED BY <1>1, <1>2, <1>3, SaneIs, BufferAssumption

LEMMA RetrieveAllSane == ASSUME NEW b, Sane(b) PROVE Sane(RetrieveAll(b))
<1>1. PICK e \in Contents : e = <<>> /\ Len(e) = 0
  BY Empty
<1>2. PICK n \in Nat, reader \in Nat, data \in Contents :
          b = [size |-> n, reader |-> reader, data |-> data] /\ kCheapPrepend <= n
  BY SaneParts, BufferAssumption
<1>3. RetrieveAll(b) = [size |-> n, reader |-> kCheapPrepend, data |-> e]
  <2>1. RetrieveAll(b) = [b EXCEPT !.reader = kCheapPrepend, !.data = e]
    BY <1>1 DEF RetrieveAll
  <2> QED BY ONLY <1>2, <2>1
<1> QED BY <1>1, <1>2, <1>3, SaneIs, BufferAssumption

LEMMA RetrieveSane == ASSUME NEW b, Sane(b), NEW n \in Nat PROVE Sane(Retrieve(b, n))
<1>1. CASE n < Len(b.data)
  <2>1. PICK size \in Nat, reader \in Nat, data \in Contents :
            /\ b = [size |-> size, reader |-> reader, data |-> data]
            /\ data \in Seq(Bytes) /\ Len(data) \in Nat
            /\ kCheapPrepend <= reader /\ reader + Len(data) <= size
    BY SaneParts
  <2>2. PICK s \in Contents : s = SubSeq(data, n + 1, Len(data)) /\ Len(s) = Len(data) - n
    <3>1. n < Len(data)
      BY <1>1, <2>1
    <3>2. /\ SubSeq(data, n + 1, Len(data)) \in Seq(Bytes)
          /\ Len(SubSeq(data, n + 1, Len(data))) = Len(data) - n
      BY <2>1, <3>1, SubSeqProperties
    <3> QED BY ONLY <3>2 DEF Contents
  <2>3. PICK r \in Nat : r = reader + n /\ kCheapPrepend <= r /\ r + Len(s) <= size
    BY <2>1, <2>2, BufferAssumption
  <2>4. Retrieve(b, n) = [size |-> size, reader |-> r, data |-> s]
    BY <1>1, <2>1, <2>2, <2>3 DEF Retrieve
  <2> QED BY <2>3, <2>4, SaneIs
<1>2. CASE ~ (n < Len(b.data))
  BY <1>2, RetrieveAllSane DEF Retrieve
<1> QED BY <1>1, <1>2

\* readFd() makes room for what it reads.
LEMMA ReadFdSane ==
    ASSUME NEW b, Sane(b), NEW s \in Contents
    PROVE  Sane(ReadFd(b, s))
<1>1. PICK size \in Nat, reader \in Nat, data \in Contents :
          /\ b = [size |-> size, reader |-> reader, data |-> data]
          /\ data \in Seq(Bytes) /\ Len(data) \in Nat
          /\ kCheapPrepend <= reader /\ reader + Len(data) <= size
  BY SaneParts
<1>2. PICK d \in Contents : d = data \o s /\ Len(d) = Len(data) + Len(s) /\ Len(s) \in Nat
  <2>1. s \in Seq(Bytes) /\ Len(s) \in Nat
    BY DEF Contents
  <2>2. data \o s \in Seq(Bytes) /\ Len(data \o s) = Len(data) + Len(s)
    BY <1>1, <2>1, ConcatProperties
  <2> QED BY ONLY <2>1, <2>2 DEF Contents
<1>3. PICK e \in Nat : e = Excess(b, s) /\ reader + Len(d) <= size + e
  <2>1. writableBytes(b) = size - (reader + Len(data))
    BY <1>1 DEF writableBytes, writerIndex
  <2>2. PICK m \in Nat, n \in Nat :
            m = Len(s) /\ n = Len(data) /\ Len(d) = n + m /\ reader + n <= size
    BY <1>1, <1>2
  <2>3. Excess(b, s) = IF m > size - (reader + n) THEN m - (size - (reader + n)) ELSE 0
    BY ONLY <2>1, <2>2 DEF Excess
  <2>4. Excess(b, s) \in Nat /\ reader + (n + m) <= size + Excess(b, s)
    BY ONLY <2>2, <2>3, size \in Nat, reader \in Nat, n \in Nat, m \in Nat
  <2> QED BY ONLY <2>2, <2>4
<1>4. ReadFd(b, s) = [size |-> size + e, reader |-> reader, data |-> d]
  <2>1. ReadFd(b, s) = [b EXCEPT !.data = d, !.size = size + e]
    <3>1. d = b.data \o s /\ b.size = size
      BY <1>1, <1>2
    <3> QED BY <1>3, <3>1 DEF ReadFd
  <2> QED BY ONLY <1>1, <2>1
<1>5. size + e \in Nat
  OBVIOUS
<1> QED BY <1>1, <1>3, <1>4, <1>5, SaneIs

LEMMA RestSane == ASSUME Sane(inputBuffer_) PROVE Sane(Rest)
<1> DEFINE b == inputBuffer_
           i == SelectInSeq(b.data, LAMBDA c : c # "c")
           upto == IF i = 0 THEN RetrieveAll(b) ELSE Retrieve(b, i - 1)
<1>1. b.data \in Seq(Bytes) /\ Len(b.data) \in Nat
  BY SaneParts
<1>2. i = 0 \/ i \in 1 .. Len(b.data)
  <2> DEFINE T == {p \in 1 .. Len(b.data) : b.data[p] # "c"}
  <2>1. i = IF T # {} THEN Min(T) ELSE 0
    BY DEF SelectInSeq
  <2>2. T \in SUBSET Nat /\ T \subseteq 1 .. Len(b.data)
    OBVIOUS
  <2> HIDE DEF T, i
  <2>3. T # {} => Min(T) \in T
    BY <2>2, MinLeast
  <2> QED BY <2>1, <2>2, <2>3
<1>3. ParseLine(b).buffer \in {upto, Retrieve(upto, 2)}
  BY DEF ParseLine
<1> HIDE DEF i
<1>4. Sane(upto)
  <2>1. CASE i = 0
    BY <2>1, RetrieveAllSane
  <2>2. CASE i # 0
    <3>1. i - 1 \in Nat
      BY <1>1, <1>2, <2>2
    <3> QED BY <2>2, <3>1, RetrieveSane
  <2> QED BY <2>1, <2>2
<1> HIDE DEF upto
<1>5. Sane(Retrieve(upto, 2))
  BY <1>4, RetrieveSane
<1> QED BY <1>3, <1>4, <1>5 DEF Rest

\* The handlers keep the buffer sane.
LEMMA InputStep == ASSUME InputInv, [Next]_vars PROVE InputInv'
<1> DEFINE Lines == inputBuffer_' \in {inputBuffer_, NewBuffer, Rest, RetrieveAll(inputBuffer_)}
<1>1. ASSUME Lines, rx' \in {rx, <<>>} PROVE InputInv'
  <2>1. Sane(inputBuffer_) /\ <<>> \in Contents
    BY Empty DEF InputInv
  <2>2. Sane(inputBuffer_')
    BY <1>1, <2>1, NewSane, RestSane, RetrieveAllSane
  <2> QED BY <1>1, <2>1, <2>2 DEF InputInv
<1>2. ASSUME Handling PROVE Lines /\ rx' = rx
  BY <1>2 DEF Handling, NoRequest, ParseRequestLine, ParseHeaders, ParseContent, ParseJunk,
              TakeLine, ParseFault, DoRequest, DoRequestFault, Undefined, Answered, Fill,
              Refused, EndAnswer, AnswerFault, WriteSome, WriteAgain, WriteFails, WriteFault,
              socket
<1>3. CASE GoOn
  BY <1>1, <1>2, <1>3 DEF GoOn
<1>4. CASE HandleConn
  <2>1. CASE Read
    <3>1. Sane(inputBuffer_') /\ rx' = <<>> /\ <<>> \in Contents
      BY <2>1, ReadFdSane, Empty DEF Read, InputInv
    <3> QED BY <3>1 DEF InputInv
  <2>2. CASE ReadClose \/ WriteNothing \/ WriteBegin \/ UNCHANGED connVars
    <3>1. Lines /\ rx' = rx
      BY <2>2 DEF ReadClose, WriteNothing, WriteBegin, connVars, socket
    <3> QED BY <1>1, <3>1
  <2> QED BY <1>4, <2>1, <2>2 DEF HandleConn
<1>5. CASE Expire
  BY <1>1, <1>5 DEF Expire, Pop, Destroy, Survive, socket
<1>6. CASE Accept
  BY <1>1, <1>6 DEF Accept, Construct, connVars, socket
<1>7. CASE PollSome \/ PollNothing \/ AcceptFails \/ EndHandle \/ EndTimers \/ Tick
  BY <1>1, <1>7 DEF PollSome, PollNothing, AcceptFails, EndHandle, EndTimers, Tick, connVars,
                    socket
<1>8. CASE Listen \/ DestroyAcceptor \/ AddTimer \/ Connect
  BY <1>1, <1>8 DEF Listen, DestroyAcceptor, AddTimer, Connect, connVars, socket
<1>9. CASE Kernel(RoomChanges) \/ Kernel(PeerEnds)
  BY <1>1, <1>9 DEF Kernel, RoomChanges, PeerEnds
<1>10. CASE Send
  <2>1. PICK bytes \in Chunks : Kernel(Receive(bytes))
    BY <1>10 DEF Send
  <2>2. bytes \in Contents
    BY ServerAssumption DEF Contents, Bytes
  <2>3. inputBuffer_' = inputBuffer_ /\ rx' = rx \o bytes
    BY <2>1 DEF Kernel, Receive
  <2>4. rx' \in Contents
    BY <2>2, <2>3, ConcatProperties DEF InputInv, Contents
  <2> QED BY <2>3, <2>4 DEF InputInv
<1>11. CASE UNCHANGED vars
  BY <1>1, <1>11 DEF vars, connVars, socket
<1> QED
  BY <1>3, <1>4, <1>5, <1>6, <1>7, <1>8, <1>9, <1>10, <1>11
     DEF Next, LoopStep, Owner, Clients

\* The handlers keep the other members typed.
LEMMA HttpHandling ==
    ASSUME HttpInv, Handling
    PROVE  HttpInv'
<1> USE DEF HttpInv, socket, parser
<1>0. "text" \in {"fresh", "text", "skewed"} /\ NewHttp \in HttpType
  BY AnswerAssumption DEF NewHttp, HttpType, CheckStates, Lengths
<1>1. ASSUME NEW state, TakeLine(state) PROVE /\ UNCHANGED <<room, peer, alive>>
                                             /\ Taken \in HttpType
  BY <1>1 DEF TakeLine, Taken, HttpType
<1>2. CASE NoRequest
  BY <1>2 DEF NoRequest
<1>3. CASE ParseRequestLine
  <2>1. /\ http' \in HttpType
        /\ ret' \in Codes /\ lineStatus' \in {"LINE_OK", "LINE_OPEN"}
    <3>1. /\ http' \in {Taken, [Taken EXCEPT !.checkState_ = "HEADER"]}
          /\ ret' \in {ret, "BAD_REQUEST"} /\ lineStatus' = "LINE_OK"
      BY <1>3 DEF ParseRequestLine, Return, NextLine
    <3>2. Taken \in HttpType /\ "HEADER" \in CheckStates
      BY <1>1, <1>3 DEF ParseRequestLine, CheckStates
    <3>3. [Taken EXCEPT !.checkState_ = "HEADER"] \in HttpType
      BY <3>2 DEF HttpType
    <3> QED BY <3>1, <3>2, <3>3 DEF Codes
  <2> QED BY <1>1, <1>3, <2>1 DEF ParseRequestLine
<1>4. CASE ParseHeaders
  <2>1. /\ \/ http' \in {Taken, [Taken EXCEPT !.checkState_ = "CONTENT"]}
           \/ \E l \in Lengths : http' = [Taken EXCEPT !.ContentLength_ = l]
        /\ ret' = ret /\ lineStatus' = "LINE_OK"
    BY <1>4 DEF ParseHeaders, GetRequest, NextLine
  <2>2. Taken \in HttpType /\ "CONTENT" \in CheckStates
    BY <1>1, <1>4 DEF ParseHeaders, CheckStates
  <2>3. [Taken EXCEPT !.checkState_ = "CONTENT"] \in HttpType
    BY <2>2 DEF HttpType
  <2>4. \A l \in Lengths : [Taken EXCEPT !.ContentLength_ = l] \in HttpType
    BY <2>2 DEF HttpType
  <2>5. http' \in HttpType
    BY <2>1, <2>2, <2>3, <2>4
  <2> QED BY <1>1, <1>4, <2>1, <2>5 DEF ParseHeaders
<1>5. CASE ParseContent
  BY <1>1, <1>5 DEF ParseContent, GetRequest, NextLine
<1>6. CASE ParseJunk
  BY <1>1, <1>6 DEF ParseJunk, Return, Codes
<1>7. CASE ParseFault \/ DoRequestFault \/ AnswerFault \/ WriteFault
  BY <1>0, <1>7 DEF ParseFault, DoRequestFault, AnswerFault, WriteFault, Undefined
<1>8. CASE DoRequest
  <2>1. http' \in HttpType
    BY <1>8 DEF DoRequest, HttpType
  <2>2. ret' \in Codes /\ lineStatus' = "LINE_OK"
    BY <1>8 DEF DoRequest, Return, Codes
  <2> QED BY <1>8, <2>1, <2>2 DEF DoRequest
<1>9. ASSUME EndAnswer, http' \in HttpType PROVE HttpInv'
  BY <1>9 DEF EndAnswer, Codes
<1>10. CASE Answered
  <2>1. CASE http.out = "skewed"
    <3>1. PICK n \in {-1} \cup 1 .. MaxAnswer :
              http' = [http EXCEPT !.bytesToSend_ = n, !.writeIovcnt_ = 0]
      BY <1>10, <2>1 DEF Answered, Fill
    <3>2. n \in -1 .. MaxAnswer /\ 0 \in 0 .. 2
      BY AnswerAssumption
    <3>3. http' \in HttpType
      BY <3>1, <3>2 DEF HttpType
    <3> QED BY <1>9, <1>10, <3>3 DEF Answered, Fill
  <2>2. CASE http.out # "skewed"
    <3>1. PICK n \in 1 .. MaxAnswer :
              http' = [http EXCEPT !.out = "text", !.vec = n, !.bytesToSend_ = n,
                            !.writeIovcnt_ = IF ret = "FILE_REQUEST" THEN 2 ELSE 1]
      BY <1>10, <2>2 DEF Answered, Fill
    <3>2. n \in -1 .. MaxAnswer /\ (IF ret = "FILE_REQUEST" THEN 2 ELSE 1) \in 0 .. 2
      BY AnswerAssumption
    <3>3. http' \in HttpType
      BY <1>0, <3>1, <3>2 DEF HttpType
    <3> QED BY <1>9, <1>10, <3>3 DEF Answered, Fill
  <2> QED BY <2>1, <2>2
<1>11. CASE Refused
  <2>1. Written \in {"fresh", "text", "skewed"}
    BY DEF Written, HttpType
  <2>2. [http EXCEPT !.out = Written] \in HttpType
    BY <2>1 DEF HttpType
  <2>3. http' \in HttpType
    BY <1>11, <2>2 DEF Refused
  <2> QED BY <1>9, <1>11, <2>3 DEF Refused
<1>12. CASE WriteSome
  <2>1. PICK n \in 1 .. http.vec, out \in {http.out, "skewed"} :
            http' = [http EXCEPT !.out = out,
                          !.bytesToSend_ = IF http.bytesToSend_ - n < 0 THEN -1
                                           ELSE http.bytesToSend_ - n]
    BY <1>12 DEF WriteSome
  <2>2. http.bytesToSend_ \in -1 .. MaxAnswer /\ http.vec \in 1 .. MaxAnswer
    BY DEF HttpType
  <2>3. (IF http.bytesToSend_ - n < 0 THEN -1 ELSE http.bytesToSend_ - n) \in -1 .. MaxAnswer
    BY <2>2, AnswerAssumption
  <2>4. out \in {"fresh", "text", "skewed"}
    BY DEF HttpType
  <2>5. http' \in HttpType
    BY <2>1, <2>3, <2>4 DEF HttpType
  <2> QED BY <1>12, <2>5 DEF WriteSome
<1>13. CASE WriteAgain \/ WriteFails
  BY <1>13 DEF WriteAgain, WriteFails
<1> QED
  BY <1>2, <1>3, <1>4, <1>5, <1>6, <1>7, <1>8, <1>10, <1>11, <1>12, <1>13 DEF Handling

LEMMA InitialisedType ==
    ASSUME NEW h \in HttpType
    PROVE  Initialised(h) \in HttpType
<1>1. /\ "REQUESTLINE" \in CheckStates /\ "NULL" \in {"NULL", "junk", "out"}
      /\ 0 \in -1 .. MaxAnswer
      /\ (IF h.out = "fresh" THEN h.out ELSE "text") \in {"fresh", "text", "skewed"}
  BY AnswerAssumption DEF CheckStates
<1> QED BY <1>1 DEF Initialised, HttpType

LEMMA HttpStep == ASSUME HttpInv, [Next]_vars PROVE HttpInv'
<1> DEFINE Kept == UNCHANGED <<http, lineStatus, ret, room, peer, alive>>
<1>1. ASSUME Kept PROVE HttpInv'
  BY <1>1 DEF HttpInv
<1>2. CASE GoOn
  BY <1>2, HttpHandling DEF GoOn
<1>3. CASE HandleConn
  <2>1. CASE Read
    BY <2>1 DEF Read, HttpInv, parser
  <2>2. CASE WriteNothing
    BY <2>2, InitialisedType DEF WriteNothing, HttpInv, parser, socket
  <2>3. CASE ReadClose \/ WriteBegin \/ UNCHANGED connVars
    BY <1>1, <2>3 DEF ReadClose, WriteBegin, connVars, parser, socket
  <2> QED BY <1>3, <2>1, <2>2, <2>3 DEF HandleConn
<1>4. CASE Accept
  <2>1. CASE Construct
    <3>1. PICK g \in Garbage :
            LET found == [http EXCEPT !.checkState_ = g.checkState_, !.startLine_ = g.startLine_,
                                      !.ContentLength_ = g.ContentLength_,
                                      !.bytesToSend_ = g.bytesToSend_]
            IN  http' \in {found, Initialised(found)}
      BY <2>1 DEF Construct
    <3> DEFINE found == [http EXCEPT !.checkState_ = g.checkState_, !.startLine_ = g.startLine_,
                                     !.ContentLength_ = g.ContentLength_,
                                     !.bytesToSend_ = g.bytesToSend_]
    <3>2. /\ g.checkState_ \in CheckStates \cup {"junk"} /\ g.startLine_ \in {"NULL", "junk", "out"}
          /\ g.ContentLength_ \in Lengths /\ g.bytesToSend_ \in -1 .. MaxAnswer
      BY GarbageAssumption
    <3>3. found \in HttpType
      BY <3>2 DEF HttpInv, HttpType
    <3>4. http' \in {found, Initialised(found)}
      BY <3>1
    <3> HIDE DEF found
    <3>5. http' \in HttpType
      BY <3>3, <3>4, InitialisedType
    <3> QED BY <2>1, <3>5 DEF Construct, HttpInv, parser, socket
  <2>2. CASE UNCHANGED connVars
    BY <1>1, <2>2 DEF connVars, parser, socket
  <2> QED BY <1>4, <2>1, <2>2 DEF Accept
<1>5. CASE Expire
  <2>1. NewHttp \in HttpType
    BY AnswerAssumption DEF NewHttp, HttpType, CheckStates, Lengths
  <2>2. UNCHANGED parser
    BY <1>5 DEF Expire, Pop, Destroy, Survive
  <2>3. CASE Destroy
    <3>1. http' = NewHttp /\ room' = TRUE /\ peer' = "closed"
      BY <2>3 DEF Destroy
    <3>2. room' \in BOOLEAN
      BY <3>1
    <3>3. alive' \in BOOLEAN
      BY <2>3, Zenon DEF Destroy
    <3> QED BY <2>1, <2>2, <3>1, <3>2, <3>3 DEF HttpInv, parser
  <2>4. CASE Survive
    BY <2>2, <2>4 DEF Survive, HttpInv, parser, socket
  <2> QED BY <1>5, <2>3, <2>4 DEF Expire, Pop
<1>6. CASE PollSome \/ PollNothing \/ AcceptFails \/ EndHandle \/ EndTimers \/ Tick
  BY <1>1, <1>6 DEF PollSome, PollNothing, AcceptFails, EndHandle, EndTimers, Tick, connVars,
                    parser, socket
<1>7. CASE Listen \/ DestroyAcceptor \/ AddTimer \/ Connect \/ Send
  BY <1>1, <1>7 DEF Listen, DestroyAcceptor, AddTimer, Connect, Send, Kernel, Receive, connVars,
                    parser, socket
<1>8. CASE Kernel(RoomChanges) \/ Kernel(PeerEnds)
  BY <1>8 DEF Kernel, RoomChanges, PeerEnds, HttpInv, parser
<1>9. CASE UNCHANGED vars
  BY <1>1, <1>9 DEF vars, connVars, parser, socket
<1> QED
  BY <1>2, <1>3, <1>4, <1>5, <1>6, <1>7, <1>8, <1>9 DEF Next, LoopStep, Owner, Clients

LEMMA ElementOf ==
    ASSUME NEW S, NEW s \in Seq(S), NEW i \in 1 .. Len(s)
    PROVE  s[i] \in S
OBVIOUS

\* What is reported of the listening channel has a connection behind it until it
\* is handled, and there is room for the timers.
LEMMA QueueStep == ASSUME IInv, QueueInv, [Next]_vars PROVE QueueInv'
<1> DEFINE Fewer == DOMAIN activeChannels_' \subseteq DOMAIN activeChannels_
           Same == UNCHANGED <<maxEvents, backlog>>
           Timers == timerQueue_' \in Seq(0 .. Timeout) /\ Len(timerQueue_') <= MaxTimers
<1>0. timerQueue_ \in Seq(0 .. Timeout) /\ Len(timerQueue_) <= MaxTimers
  BY DEF QueueInv
<1>1. ASSUME Fewer, Same, Timers PROVE QueueInv'
  BY <1>1 DEF QueueInv
<1>2. ASSUME NEW c, Handle(c)
      PROVE  /\ Fewer /\ maxEvents' = maxEvents /\ c \in DOMAIN activeChannels_
             /\ c \notin DOMAIN activeChannels_'
  BY <1>2 DEF Handle, Handles
<1>3. CASE PollSome
  <2>1. PICK S \in (SUBSET Ready) \ {{}} :
          /\ activeChannels_' = [c \in S |-> Callback(Report[c])]
          /\ maxEvents' = IF Cardinality(S) = maxEvents THEN 2 * maxEvents ELSE maxEvents
    BY <1>3 DEF PollSome
  <2>2. DOMAIN activeChannels_' = S /\ S \subseteq {"accept", "conn"}
    BY <2>1 DEF Ready, Report
  <2>3. ASSUME "accept" \in S PROVE backlog > 0
    <3>1. Report["accept"] # {}
      BY <2>3 DEF Ready
    <3>2. Report["accept"] \subseteq (IF backlog > 0 THEN {"in"} ELSE {})
      BY DEF Report, Reported
    <3> QED BY <3>1, <3>2
  <2>4. maxEvents' \in Nat \ {0}
    <3>1. maxEvents' = maxEvents \/ maxEvents' = 2 * maxEvents
      BY <2>1
    <3> QED BY <3>1 DEF QueueInv
  <2>5. backlog' = backlog /\ timerQueue_' = timerQueue_
    BY <1>3 DEF PollSome
  <2> QED BY <2>2, <2>3, <2>4, <2>5 DEF QueueInv
<1>4. CASE HandleConn
  BY <1>0, <1>1, <1>2, <1>4 DEF HandleConn, accepting
<1>5. CASE Accept
  <2>1. backlog' = backlog - 1 /\ backlog > 0 /\ backlog \in 0 .. MaxBacklog
    BY <1>2, <1>5 DEF Accept, QueueInv
  <2>2. Timers
    <3>1. Timeout \in 0 .. Timeout /\ MaxTimers >= 1
      BY ServerAssumption
    <3>2. <<Timeout>> \in Seq(0 .. Timeout) /\ Len(<<Timeout>>) <= MaxTimers
      BY <3>1, ServerAssumption
    <3>3. timerQueue_' \in {timerQueue_, <<Timeout>>}
      BY <1>5 DEF Accept
    <3> QED BY <1>0, <3>2, <3>3
  <2>3. backlog' \in 0 .. MaxBacklog
    BY <2>1, ServerAssumption
  <2> QED BY <1>2, <1>5, <2>2, <2>3 DEF Accept, QueueInv
<1>6. CASE AcceptFails
  <2>1. backlog' \in {backlog - 1, backlog} /\ backlog > 0 /\ backlog \in 0 .. MaxBacklog
    BY <1>2, <1>6 DEF AcceptFails, QueueInv
  <2>2. backlog' \in 0 .. MaxBacklog
    BY <2>1, ServerAssumption
  <2>3. timerQueue_' = timerQueue_
    BY <1>6 DEF AcceptFails
  <2> QED BY <1>0, <1>2, <1>6, <2>2, <2>3 DEF AcceptFails, QueueInv
<1>7. CASE Expire
  <2>1. Tail(timerQueue_) \in Seq(0 .. Timeout) /\ Len(Tail(timerQueue_)) <= MaxTimers
    <3>1. timerQueue_ # <<>>
      BY <1>7 DEF Expire, Pop
    <3>2. Tail(timerQueue_) \in Seq(0 .. Timeout) /\ Len(Tail(timerQueue_)) = Len(timerQueue_) - 1
      BY <1>0, <3>1, HeadTailProperties
    <3> QED BY <1>0, <3>2, ServerAssumption
  <2> QED BY <1>1, <1>7, <2>1 DEF Expire, Pop, poller, accepting
<1>8. CASE AddTimer
  <2>1. timerQueue_' = Append(timerQueue_, Timeout) /\ Len(timerQueue_) < MaxTimers
    BY <1>8 DEF AddTimer
  <2>2. Timeout \in 0 .. Timeout
    BY ServerAssumption
  <2>3. timerQueue_' \in Seq(0 .. Timeout) /\ Len(timerQueue_') = Len(timerQueue_) + 1
    BY <1>0, <2>1, <2>2, AppendProperties
  <2>4. Timers
    BY <1>0, <2>1, <2>3, ServerAssumption
  <2> QED BY <1>1, <1>8, <2>4 DEF AddTimer, poller, accepting
<1>9. CASE Tick
  <2>1. timerQueue_' = [i \in 1 .. Len(timerQueue_) |->
                          IF timerQueue_[i] > 0 THEN timerQueue_[i] - 1 ELSE 0]
    BY <1>0, <1>9 DEF Tick
  <2>2. ASSUME NEW i \in 1 .. Len(timerQueue_)
        PROVE  (IF timerQueue_[i] > 0 THEN timerQueue_[i] - 1 ELSE 0) \in 0 .. Timeout
    <3>1. timerQueue_[i] \in 0 .. Timeout
      BY <1>0, ElementOf
    <3> QED BY <3>1, ServerAssumption
  <2>3. timerQueue_' \in Seq(0 .. Timeout) /\ Len(timerQueue_') = Len(timerQueue_)
    BY <1>0, <2>1, <2>2
  <2>4. Timers
    BY <1>0, <2>3
  <2> QED BY <1>1, <1>9, <2>4 DEF Tick, poller, accepting
<1>10. CASE PollNothing \/ EndHandle \/ EndTimers
  BY <1>0, <1>1, <1>10 DEF PollNothing, EndHandle, EndTimers, accepting
<1>11. CASE GoOn \/ Listen \/ Send \/ Kernel(RoomChanges) \/ Kernel(PeerEnds)
  BY <1>0, <1>1, <1>11 DEF GoOn, Listen, Send, Kernel, poller, accepting
<1>12. CASE Connect
  <2>1. backlog' = backlog + 1 /\ backlog < MaxBacklog /\ backlog \in 0 .. MaxBacklog
    BY <1>12 DEF Connect, QueueInv
  <2>2. backlog' \in 0 .. MaxBacklog /\ backlog' > 0
    BY <2>1, ServerAssumption
  <2> QED BY <1>12, <2>2 DEF Connect, QueueInv, poller
<1>13. CASE DestroyAcceptor
  <2>1. DOMAIN activeChannels_ = {}
    BY <1>13 DEF DestroyAcceptor, IInv, RoundInv
  <2>2. backlog' = 0 /\ backlog' \in 0 .. MaxBacklog
    BY <1>13, ServerAssumption DEF DestroyAcceptor
  <2> QED BY <1>13, <2>1, <2>2 DEF DestroyAcceptor, QueueInv, poller
<1>14. CASE UNCHANGED vars
  BY <1>0, <1>1, <1>14 DEF vars, poller, accepting
<1> QED
  BY <1>3, <1>4, <1>5, <1>6, <1>7, <1>8, <1>9, <1>10, <1>11, <1>12, <1>13, <1>14
     DEF Next, LoopStep, Owner, Clients

LEMMA InitTypes == Init => InputInv /\ HttpInv /\ QueueInv
<1> SUFFICES ASSUME Init PROVE InputInv /\ HttpInv /\ QueueInv
  OBVIOUS
<1>1. InputInv
  BY NewSane, Empty DEF Init, ConnInit, InputInv
<1>2. HttpInv
  <2>1. NewHttp \in HttpType
    BY AnswerAssumption DEF NewHttp, HttpType, CheckStates, Lengths
  <2> QED BY <2>1 DEF Init, ConnInit, HttpInv, Codes
<1>3. QueueInv
  <2>1. <<>> \in Seq(0 .. Timeout) /\ Len(<<>>) = 0
    OBVIOUS
  <2>2. DOMAIN activeChannels_ = {} /\ backlog = 0 /\ maxEvents \in Nat \ {0} /\ timerQueue_ = <<>>
    BY ServerAssumption DEF Init, NoChannel
  <2> QED BY <2>1, <2>2, ServerAssumption DEF QueueInv
<1> QED BY <1>1, <1>2, <1>3

\* The variables keep their types.  In particular the indices of the input buffer
\* stay in it and in order whatever readFd() appends and the parser retrieves
\* (Buffer.cc), the reader never behind the prepended bytes, and the backlog does
\* not run below zero: a listening channel is reported only with a connection that
\* waits, and accept4() takes one connection per report (Acceptor.cc:50).
THEOREM TypeCorrect == Spec => []TypeOK
<1> DEFINE All == IInv /\ InputInv /\ HttpInv /\ QueueInv
<1>1. Init => All
  BY InitInv, InitTypes
<1>2. All /\ [Next]_vars => All'
  <2>1. IInv /\ [Next]_vars => IInv'
    BY ConnStep, AcceptStep, RoundStep, DeafStep DEF IInv
  <2> QED BY <2>1, InputStep, HttpStep, QueueStep
<1>3. ASSUME All PROVE TypeOK
  <2>1. /\ inputBuffer_.reader \in kCheapPrepend .. inputBuffer_.size
        /\ writableBytes(inputBuffer_) \in Nat
    <3>1. PICK size \in Nat, reader \in Nat, n \in Nat :
              /\ size = inputBuffer_.size /\ reader = inputBuffer_.reader
              /\ n = Len(inputBuffer_.data)
              /\ kCheapPrepend <= reader /\ reader + n <= size
      <4>1. Sane(inputBuffer_)
        BY <1>3 DEF InputInv
      <4> QED BY <4>1, SaneParts
    <3>2. reader \in kCheapPrepend .. size /\ size - (reader + n) \in Nat
      BY <3>1, BufferAssumption
    <3> QED BY <3>1, <3>2 DEF writableBytes, writerIndex
  <2>2. ConnTypeOK
    BY <1>3, <2>1 DEF ConnTypeOK, IInv, ConnInv, Good, HttpInv
  <2>3. /\ acceptChannel_ \in ChannelType /\ acceptor \in {"built", "listening", "gone"}
        /\ accepted \in Nat /\ loop \in {"poll", "handle", "timers"}
    BY <1>3 DEF IInv, AcceptInv, RoundInv, Good
  <2> QED BY <1>3, <2>2, <2>3 DEF QueueInv, TypeOK
<1> QED BY <1>1, <1>2, <1>3, PTL DEF Spec
=============================================================================
