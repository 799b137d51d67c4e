-------------------------------- MODULE Server --------------------------------
(***************************************************************************)
(* One loop thread with its EpollPoller (Reactor/EpollPoller.cc), an       *)
(* Acceptor (Reactor/Acceptor.cc), the first connection it accepts         *)
(* (HttpConnection) and the TimerManager (Timer/Timer.cc).  main() is      *)
(* empty: that the four meet in one thread, that handleExpiredEvent() is   *)
(* called between two rounds, that newConnectionCallback_ constructs the   *)
(* connection and calls addTimer(), and that nothing but the timers keeps  *)
(* the connection alive, is how the code is meant to be put together.      *)
(* addTimer() gives its Timer to nobody, so that update() and clear()      *)
(* never reach one that is in the heap.  A timer is the time it has left,  *)
(* and as all begin with Timeout, the heap is the sequence of their ages.  *)
(* Time, the kernel and the peer go on where the thread next looks at what *)
(* they change: when it waits, before it handles a channel, while it sends.*)
(* The acceptor and an open connection have nothing in common: what becomes*)
(* of the one meanwhile is left to the time before or after the other.     *)
(***************************************************************************)
EXTENDS HttpConnection

CONSTANTS
    Chunks,             \* what the peer may send at once, sequences of bytes
    Timeout,            \* the argument of addTimer()
    MaxTimers,          \* bound of the model: timers in the heap
    MaxBacklog,         \* bound of the model: connections that wait
    kInitEventListSize

ASSUME ServerAssumption ==
    /\ Chunks \subseteq Seq({"c", "cr", "lf"})
    /\ Timeout \in Nat /\ MaxTimers \in Nat \ {0} /\ MaxBacklog \in Nat
    /\ kInitEventListSize \in Nat \ {0}

VARIABLES
    loop,             \* "poll", "handle" or "timers"
    activeChannels_,  \* the callback of each channel that was reported
    maxEvents,        \* events_.size() of the poller
    acceptChannel_,
    acceptor,         \* "built", "listening" or "gone"
    newConnectionCallback_, \* is set
    backlog,          \* connections the kernel has ready
    accepted,         \* history: how many were accepted
    timerQueue_

poller == <<loop, activeChannels_, maxEvents>>
accepting == <<acceptChannel_, acceptor, newConnectionCallback_, backlog, accepted>>
vars == <<connVars, poller, accepting, timerQueue_>>

NoChannel == [c \in {} |-> "none"]

Init ==
    /\ ConnInit
    /\ loop = "poll"
    /\ activeChannels_ = NoChannel
    /\ maxEvents = kInitEventListSize
    /\ acceptChannel_ = NewChannel
    /\ acceptor = "built"
    /\ newConnectionCallback_ \in BOOLEAN
    /\ backlog = 0
    /\ accepted = 0
    /\ timerQueue_ = <<>>

-----------------------------------------------------------------------------
(* The poller.                                                             *)

Report ==
    [c \in {"accept", "conn"} |->
        IF c = "accept"
        THEN Reported(acceptChannel_, IF backlog > 0 THEN {"in"} ELSE {})
        ELSE Reported(channel_, IF Open THEN ConnReady ELSE {})]

Ready == {c \in DOMAIN Report : Report[c] # {}}

\* epoll_wait() returns what the list has room for; a full list is doubled
PollSome ==
    /\ loop = "poll"
    /\ \E S \in (SUBSET Ready) \ {{}} :
        /\ S = Ready \/ Cardinality(S) = maxEvents
        /\ Cardinality(S) <= maxEvents
        /\ activeChannels_' = [c \in S |-> Callback(Report[c])]
        /\ maxEvents' = IF Cardinality(S) = maxEvents THEN 2 * maxEvents ELSE maxEvents
        /\ acceptChannel_' = IF "accept" \in S THEN Disarm(acceptChannel_) ELSE acceptChannel_
        /\ channel_' = IF "conn" \in S THEN Disarm(channel_) ELSE channel_
    /\ loop' = "handle"
    /\ UNCHANGED <<inputBuffer_, http, parser, conn, socket, alive, acceptor,
                   newConnectionCallback_, backlog, accepted, timerQueue_>>

\* kPollTimeMs have passed, or a signal has come
PollNothing ==
    /\ loop = "poll"
    /\ Ready = {}
    /\ loop' = "timers"
    /\ UNCHANGED <<connVars, activeChannels_, maxEvents, accepting, timerQueue_>>

Busy == conn \in {"parse", "request", "answer", "send"}

Handles(c) == loop = "handle" /\ ~ Busy /\ c \in DOMAIN activeChannels_

\* the next channel of the round
Handle(c) ==
    /\ Handles(c)
    /\ activeChannels_' = [d \in DOMAIN activeChannels_ \ {c} |-> activeChannels_[d]]
    /\ UNCHANGED <<loop, maxEvents>>

EndHandle ==
    /\ loop = "handle"
    /\ ~ Busy
    /\ activeChannels_ = NoChannel
    /\ loop' = "timers"
    /\ UNCHANGED <<connVars, activeChannels_, maxEvents, accepting, timerQueue_>>

-----------------------------------------------------------------------------
(* The connection.                                                         *)

\* No error callback is ever meant to be set, and handleClose is never called: a
\* hang-up comes with "in", which every connection is enabled for.
HandleConn ==
    /\ Handle("conn")
    /\ CASE activeChannels_["conn"] = "read"  -> Read \/ ReadClose
         [] activeChannels_["conn"] = "write" -> WriteNothing \/ WriteBegin
         [] OTHER -> UNCHANGED connVars
    /\ UNCHANGED <<accepting, timerQueue_>>

GoOn == Handling /\ UNCHANGED <<poller, accepting, timerQueue_>>

-----------------------------------------------------------------------------
(* TimerManager.                                                           *)

\* a new timer for the connection at an event of it, the only way to give it more
\* time; the earlier ones stay
AddTimer ==
    /\ Handles("conn")
    /\ Len(timerQueue_) < MaxTimers
    /\ timerQueue_' = Append(timerQueue_, Timeout)
    /\ UNCHANGED <<connVars, poller, accepting>>

\* the first timer is popped; with the last one the connection is destroyed
Pop ==
    /\ loop = "timers"
    /\ timerQueue_ # <<>>
    /\ Head(timerQueue_) = 0
    /\ timerQueue_' = Tail(timerQueue_)
    /\ IF Tail(timerQueue_) = <<>> THEN Destroy ELSE Survive
    /\ UNCHANGED <<poller, accepting>>

\* mutant: the timer goes without closing the connection
BugExpire == Pop /\ UNCHANGED channel_

\* handleExpiredEvent(): the destructor of the timer calls closeConn() and gives
\* up its share of the connection
Expire == Pop /\ CloseConn

EndTimers ==
    /\ loop = "timers"
    /\ \A i \in DOMAIN timerQueue_ : timerQueue_[i] > 0
    /\ loop' = "poll"
    /\ UNCHANGED <<connVars, activeChannels_, maxEvents, accepting, timerQueue_>>

\* time(nullptr)
Tick ==
    /\ alive
    /\ loop = "poll"
    /\ timerQueue_' = [i \in DOMAIN timerQueue_ |->
                         IF timerQueue_[i] > 0 THEN timerQueue_[i] - 1 ELSE 0]
    /\ timerQueue_' # timerQueue_
    /\ UNCHANGED <<connVars, poller, accepting>>

-----------------------------------------------------------------------------
(* The acceptor.                                                           *)

Listen ==
    /\ loop = "poll"
    /\ acceptor = "built"
    /\ acceptor' = "listening"
    /\ acceptChannel_' = EnableReading(acceptChannel_)
    /\ UNCHANGED <<connVars, poller, newConnectionCallback_, backlog, accepted,
                   timerQueue_>>

\* accept4() succeeds; handleRead() leaves its channel as it is
Accept ==
    /\ Handle("accept")
    /\ backlog' = backlog - 1
    /\ accepted' = accepted + 1
    /\ IF newConnectionCallback_ /\ conn = "none"
       THEN Construct /\ timerQueue_' = <<Timeout>>
       ELSE UNCHANGED <<connVars, timerQueue_>>
    /\ UNCHANGED <<acceptChannel_, acceptor, newConnectionCallback_>>

\* accept4() fails: the connection is gone, or there are too many descriptors
AcceptFails ==
    /\ Handle("accept")
    /\ backlog' \in {backlog - 1, backlog}
    /\ UNCHANGED <<connVars, acceptChannel_, acceptor, newConnectionCallback_, accepted, timerQueue_>>

\* ~Acceptor(), between two rounds; its socket is closed with what waits there
DestroyAcceptor ==
    /\ loop = "poll"
    /\ ~ Open
    /\ acceptor # "gone"
    /\ acceptor' = "gone"
    /\ acceptChannel_' = RemoveChannel(DisableAll(acceptChannel_))
    /\ backlog' = 0
    /\ UNCHANGED <<connVars, poller, newConnectionCallback_, accepted, timerQueue_>>

-----------------------------------------------------------------------------
(* The clients.                                                            *)

Connect ==
    /\ acceptor = "listening"
    /\ ~ Open
    /\ backlog < MaxBacklog
    /\ backlog' = backlog + 1
    /\ UNCHANGED <<connVars, poller, acceptChannel_, acceptor, newConnectionCallback_,
                   accepted, timerQueue_>>

Kernel(A) == A /\ UNCHANGED <<poller, accepting, timerQueue_>>

\* the peer may go on for ever: what is bounded is what the connection has not read
\* or not taken as lines
Send == \E bytes \in Chunks : Kernel(Receive(bytes))

-----------------------------------------------------------------------------
LoopStep ==
    alive /\ ( \/ PollSome \/ PollNothing \/ HandleConn \/ GoOn \/ Accept \/ AcceptFails
               \/ EndHandle \/ Expire \/ EndTimers )

Owner == alive /\ (Listen \/ DestroyAcceptor \/ AddTimer)

Clients ==
    /\ alive
    /\ \/ loop = "poll" /\ (Connect \/ Send \/ Kernel(RoomChanges) \/ Kernel(PeerEnds))
       \/ Handles("conn") /\ Kernel(PeerEnds)
       \/ conn = "send" /\ (Kernel(RoomChanges) \/ Kernel(PeerEnds))

Next == LoopStep \/ Owner \/ Clients \/ Tick

Spec == Init /\ [][Next]_vars

\* The loop goes on; epoll_wait() returns after kPollTimeMs at the latest.
FairSpec == Spec /\ WF_vars(LoopStep)

-----------------------------------------------------------------------------
(* Properties.                                                             *)

TypeOK ==
    /\ ConnTypeOK
    /\ acceptChannel_ \in ChannelType
    /\ loop \in {"poll", "handle", "timers"}
    /\ DOMAIN activeChannels_ \subseteq {"accept", "conn"}
    /\ maxEvents \in Nat \ {0}
    /\ acceptor \in {"built", "listening", "gone"}
    /\ backlog \in 0 .. MaxBacklog
    /\ accepted \in Nat
    /\ timerQueue_ \in Seq(0 .. Timeout) /\ Len(timerQueue_) <= MaxTimers

\* A channel, the map of the poller and epoll agree on what is registered, after
\* every sequence of enable, disableAll and remove that the handlers, the timers
\* and the destructors make, in whatever state they find the channel.
KernelAgrees == Agrees(channel_) /\ Agrees(acceptChannel_)

\* Although every report disarms a channel, a connection that is registered when
\* the loop waits can be reported again, whatever way its handler took: only an
\* error leaves it deaf, for want of an error callback.
NoDeafConnection ==
    alive /\ loop = "poll" /\ Open /\ Registered(channel_) =>
        Armed(channel_) \/ peer = "reset"

\* No pointer to a channel that is gone is left: neither in the poller nor in
\* epoll nor among the channels of the round.
NoDangling ==
    /\ conn = "freed" => /\ ~ channel_.mapped /\ ~ Registered(channel_)
                         /\ "conn" \notin DOMAIN activeChannels_
    /\ acceptor = "gone" => /\ ~ acceptChannel_.mapped /\ ~ Registered(acceptChannel_)
                            /\ "accept" \notin DOMAIN activeChannels_

\* "an event on listenfd is a new client" (Acceptor.cc:42), and for each that it
\* hears of handleRead() calls newConnectionCallback_ (Acceptor.h:12): a client
\* that connects after the first one is accepted, too, in the end, unless the
\* acceptor is destroyed or accept4() fails and takes the client away.
NextClientAccepted ==
    newConnectionCallback_ /\ accepted = 1 /\ backlog > 0 ~>
        accepted > 1 \/ backlog = 0 \/ acceptor = "gone" \/ ~ alive

\* What a registered connection receives is read in the end, without the help of
\* a timer, unless the peer resets it.
InputRead ==
    rx # <<>> /\ Registered(channel_) ~>
        rx = <<>> \/ ~ Registered(channel_) \/ peer = "reset" \/ ~ alive

\* An answer that is ready is begun to be written, although whatever has come in
\* is read first, once the kernel goes on taking bytes and the peer has stopped
\* sending, unless the peer has ended or the connection was closed meanwhile.  A
\* peer that sends for ever keeps its answer waiting for ever: a report is handled
\* by one callback, and reading comes first.
AnswerSent ==
    <>[](room /\ rx = <<>>) =>
        ( conn = "idle" /\ http.bytesToSend_ > 0 /\ Registered(channel_) ~>
              conn = "send" \/ ~ Registered(channel_) \/ peer # "open" \/ ~ alive )

\* Every connection is removed from the loop when its time is over, a deaf one
\* and one that was reopened after a refusal included, if time goes on.
TimeoutCloses ==
    SF_vars(Tick) => (Open /\ Registered(channel_) ~> ~ Registered(channel_) \/ ~ alive)
=============================================================================
