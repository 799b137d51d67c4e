# A TLA+ model of the one-loop-per-thread web server

The repository is a C++ web server in the style of muduo ("one loop per
thread"): a reactor, threads that each run one event loop, an asynchronous
logger, an LFU cache of files, a memory pool, a pool of SQL connections, timers
and an HTTP connection. `HttpWebserver.cc` has an empty `main()`: no code yet
puts the parts together, and the only program that runs is
`LogSystem/Logtest.cc`. The model therefore treats each part with the callers
its interface admits, and composes parts where one calls the other.

## 1. Inventory

**AsyncLogging** (`LogSystem/`). State: the current buffer, the spare and the
queue of filled buffers of the front end, all under `mutex_`; the two spares
and the taken buffers of the back-end thread; `running_`; the latch. Operations:
`append()` by any thread, `start()` and `stop()` by the owner, `threadFunc()`.
The parts meet in the swap under the lock and in the condition variable with its
time limit. Hard: ownership of buffers across swap and recycling, order of lines,
overload (more than 25 buffers), write errors, notification without the lock,
`stop()`. Right when: no buffer has two users, what is written is what was
accepted, in order, and `stop()` returns.
*CountDownLatch*, *LogFile*, *FixedBuffer* are modelled as far as it uses them.
*LogStream* and *Logger* format text.

**EventLoop** (`Reactor/EventLoop.*`). State: pending functors under `mutex_`, the
vector `doPendingFunctors()` works on, `callingPendingFunctors_`, `looping_`,
`quit_`, the eventfd and its channel, the active channels. Operations: `loop()`,
`quit()`, `runInLoop()`, `queueInLoop()`, `wakeup()`, `handleRead()`. Other
threads queue functors and wake the loop. Hard: the wake-up protocol, functors
that queue functors, `quit()` at any moment. Right when: every functor is called
once, in order, in the loop thread, and soon; `quit()` ends the loop.

**EpollPoller and Channel**. State: `channels_`, each channel's `status_`, `events_`,
`revents_`, the kernel's interest set with the one-shot state. Operations:
`updateChannel()`, `removeChannel()`, `poll()`, `handleEvent()`. Hard: agreement
of four copies of one fact, one-shot registrations, raw pointers in the active
list. Right when: the kernel watches what `events_` says while `status_` is
`kAdded`, and no handler runs on a removed channel.

**EventLoopThread, Thread, EventLoopThreadPool** (`ThreadPool/`). State: `loop_` under
`mutex_`, the thread; the pool's `loops_` and `next_`. Operations: `startLoop()`,
the destructor, `threadFunc()`; the pool's `start()` and `getNextLoop()`. Hard: the
address of a stack object published to another thread, the unlocked test in the
destructor. Right when: the loop outlives its use, the destructor joins, the
loops are handed out evenly.

**Acceptor**: a listening socket with a one-shot channel; `listen()`, `handleRead()`.
Right when: no client waits for ever.

**LFUCache**. State: a list of lists of nodes by frequency, two maps. Operations:
`get()` and `set()`, each under `mutex_`; `HttpConnection::doRequest()` calls them one
after the other without a lock around both. Hard: pointers between the four
structures, double misses. Right when: it is an LFU cache of at most `capacity_` files.

**HttpConnection, Buffer, Timer**. State: the parser's `checkState_`, the buffers' indices,
what is left to send, the channel; a heap of timers. Operations: `read()`,
`process()`, `write()`, `closeConn()`; `addTimer()`, `handleExpiredEvent()`. Hard:
requests that come in pieces, partial writes, re-arming of the channel on every
path, closing twice, members the constructor leaves uninitialised. Right when: a
connection is always either armed or removed, what it receives is read, what it
answers is written, and its timer ends it.

**MemoryPool**. State: blocks, the bump pointer, the free list, two mutexes, both also read
outside them. Operations: `allocate()`, `deAllocate()`. Right when: live slots are
disjoint and inside their blocks.

**SqlConnectionPool**. State: the list of connections, two counters, a semaphore.
Operations: `init()`, `getConnection()`, `releaseConnection()`. Right when: a
connection has one user, and `getConnection()` returns when one is free.

**Socket, InetAddress, Timestamp, Locker**: thin wrappers without a protocol of their
own. `LogSystem/build/` is generated.

`PROJECT.json` lists the hazards of each part at their lines.

## 2. Plan

| order | module | models | composes | theorems |
|---|---|---|---|---|
| done | `LogPipe` | what the logger promises: a FIFO pipe with discards | | |
| done | `AsyncLogging` | the logger | `LogPipe` (refinement) | types, ownership, assertions, no drop in `append()`, no sleep on full buffers, the refinement, order of lines |
| done | `EventLoop` | loop, functors, wake-up | | types, functors once and in order, first wake-up |
| done | `EventLoopThread` | life of a loop on its thread | extends `EventLoop` | the loop outlives its use unless quit, no orphan |
| done | `EventLoopThreadPool` | `start()`, round robin, destruction | extends `EventLoopThread` | types, loops in turn |
| done | `LFUPolicy`, `LFUCache` | policy, lists and maps, several loops | `LFUPolicy` (step simulation) | types, lists, maps, no stray node, the policy |
| done | `MemoryPool` | slots and blocks, several threads | | types, one owner per slot, bound of the overrun, sizes |
| done | `Channel` | registration states, interest set, one-shot, dispatch | | what each operation keeps, in `ServerProofs` |
| done | `Buffer` | indices of the input buffer | | |
| done | `HttpConnection` | requests, answers, re-arming | extends `Channel`, `Buffer` | |
| done | `Server` | one loop: poller, `Acceptor`, a connection, timers | extends `HttpConnection` | types with the input buffer, registrations, no deaf connection, no stray pointer |
| done | `SqlConnectionPool` | semaphore, list, counters | | |
| done | `SequenceLemmas` | | | the sequences all proofs use, by induction over their length |

## 3. Modules and the code

**`AsyncLogging.tla`.** Every critical section of `mutex_` is one action; between two of
them other threads may step. `Frontend` is `append()` (`AppendHere`, `AppendNext`),
`Owner` is `start()` and `stop()`, `Backend` is `threadFunc()`, whose program counter
`backend` names the points between its statements: `check` the test of
`running_`, `lock` and `waiting` the condition wait, `trim` the cut, `write` the
loop over the buffers, `recycle` the refill. Buffers have identity, like the
`shared_ptr`s; a line is its number and takes an amount of room. The wait is a state of
the back end that `Notify`, `StopNotify` or `Timeout` ends; the predicate-less
`wait_for` may also end without any of them, which `Timeout` covers. A line the back
end cannot write (`WriteError`) is lost with the rest of its buffer, as `LogFile::append()`
returns at the first error; the failure of `fflush` is ignored by the code and so here.
`running_` is a plain `bool` read without a lock: the loop contains lock and wait
calls the compiler cannot see through, so the read is taken to be fresh in every round.
Not modelled: time stamps, the contents of a line.

**`EventLoop.tla`.** The loop thread's program counter `loop` goes through `clear`, `test`,
`poll`, `handle`, `drain`, `run`. `looping_ = true` and `quit_ = false` at the head of `loop()` are two
actions (`EnterLoop`, `ClearQuit`), as another thread's `quit()` may come between them. A functor is its number in the order of the `push_back`. A
callback or functor may itself queue one functor and may quit. `PollWakeup`,
`PollOther` and `PollNothing` are the outcomes of `epoll_wait`; reporting the
wake-up channel clears `armed`, because `kReadEvent` contains `EPOLLONESHOT`, and
no action of the loop sets it again, because `handleRead()` does not. All other channels are
one, `"other"`, which may be ready at any time.

**`EventLoopThread.tla`** extends it by the thread that builds, publishes, runs and clears
the loop, and by the owner. Any caller and any callback may call `quit()`, so the loop may end
before its owner's destructor. `UseLive` is the use of a loop that is there. `UseDead` is the
use of one that is gone, `OwnerQuit` and `OwnerWakeup` after the end likewise: the code does not
prevent them, and what comes of them is undefined (`Undefined`: nothing, or the end of the program, which
clears `alive`). `DestroyLoop` is the end of `threadFunc()`. It is undefined as well, always:
`wakeupChannel_` is made by `newElement()` from a block of the memory pool (`EventLoop.cc:22`) and
deleted by the plain `delete` of its `unique_ptr` (`EventLoop.h:43`).

**`EventLoopThreadPool.tla`** extends that by the pool: `start()` creates the threads one
after the other, `getNextLoop()` hands their loops out in turn, the destructor destroys
them. One thread of the pool, `Detail`, is the `EventLoopThread` with all its steps, and
the callers of its `EventLoop` are threads that `getNextLoop()` has given this loop. Of the
others the model uses that `startLoop()` returns, which the run shows for the detailed one; that
their destructors return is not assumed (`EndOther` is not fair), and their loops end with the same
undefined `delete`. Their number, zero included, is chosen at the start.

**`Channel.tla`** has the operations of a channel as functions on a record: `events_`,
`status_`, whether `channels_` of the poller has it, and what epoll has of it. `UpdateChannel` and
`RemoveChannel` are those of `EpollPoller`; an `EPOLL_CTL_ADD` of what is registered and a
`MOD` of what is not change nothing, as the code only logs them. `Reported` and `Disarm`
are what `epoll_wait()` does with a registration, `Callback` is the dispatch of
`handleEventWithGuard()`.

**`Buffer.tla`** has the input buffer: its size, `readerIndex_` and the readable bytes. A byte
is a CR, a LF or anything else. When compaction in `makeSpace()` lets `append()` write
behind the vector (`Overruns`), the model ends.

**`HttpConnection.tla`** has one connection. A handler is several steps only where the
kernel or the peer can change in between what it looks at (`write()`'s loop), or where the
code branches on what the model leaves open (the loop of `processRead()`, a line at a
time, then `doRequest()`, then `processWrite()`). `getLine()` hands out `startLine_`, which never
points into the input buffer, so the text of a line is unrelated to what was received:
the parser may be given any text (`Texts`), an empty one while the output buffer is as it
was made, or memory that cannot be read. Uninitialised members take any of the values
of `Garbage`. Whatever the standard leaves undefined and ends the program, or runs
for ever (`Undefined`), sets `alive` to false; the alternatives in which the undefined operation
goes well stay in the model. The end of a connection is one of them: `cache_` is a `shared_ptr` made of
the address of the static cache (`HttpConnection.cc:34`), so that `Destroy` deletes a cache that is
not the connection's and that others go on to use. Abstracted: which file is asked for, `cgi_`, the login and
registration forms, the text of the answers.

**`Server.tla`** is one loop thread: `poll()`, the handlers, the expired timers, round after
round, with an acceptor, the first connection it accepts, and the timers. As `main()` is
empty, three things are assumed from the interfaces and comments: the handlers are
connected as the comments `//handleRead`, `//handleWrite` and `//handleClose` in
`HttpConnection.h` say; `handleExpiredEvent()` is called between two rounds; the callback of the
acceptor constructs a connection and calls `addTimer()`, and only timers own the
connection. `init()` may follow the construction or not. The peer and the kernel step
where the thread next looks at what they change (section 4).

**`SqlConnectionPool.tla`** has the list, the counters and the semaphore; the `sem_` that
`init()` declares is a variable of its own, `localSem`, and every other use is the member.
`destroySqlConnectionPool()` deletes each connection a second time after `mysql_close()`, and
`initSqlResult()` deletes the one it got and does not give back: both may end the program.

**`LFUCache.tla`.** The big list is a sequence of small lists, a small list a frequency and a
sequence of nodes; `AddFreq`, `DropEmpty`, `Evicted` are the pointer operations on
them. `kmap_` and `fmap_` are kept separately from the lists and hold pointers: a
node, and a small list named by its frequency. Freed nodes are used again, so that
a pointer left behind would show as a wrong key. Between `get()` and `set()` a loop
remembers the file in `want`.

**`MemoryPool.tla`.** One of the 64 pools; they share nothing. A slot is the number of
its block and its place in it, and places beyond `N` lie outside the block. What
`mutexFreeSlot_` or `mutexOther_` guards is one action; the unlocked reads of `freeSlot_`
(`Allocate`) and of `currentSlot_` and `lastSlot_` (`ReadCurrent`, `Compare`) are
actions of their own. When a new block comes between the two reads, pointers into
different blocks are compared, and the outcome is free. Slots go back through any
idle thread, not only the one that got them. The pool is taken to be initialised:
`initMemoryPool()` is called by a test only, and an uninitialised pool divides by
its slot size 0.

## 4. Runs

| run | instance | shows |
|---|---|---|
| `async` | 6 buffers of 3 units, lines of 1 or 2, cut above 2 buffers, 4 lines | assertions, ownership, order of lines, no sleep on full buffers, `append()` drops nothing, the logger implements `LogPipe`, every line gets to the disk unless discarded or the logger is stopped, `stop()` returns |
| `async_drain` | as above, 2 lines | violated: `stop()` may return with accepted lines still in memory |
| `loop` | 2 callers, 3 functors, 2 quits | functors once and in order, first wake-up, every functor is called, `quit()` ends the loop |
| `loop_wakeup` | 2 callers, 3 functors, 1 quit | violated: from the second wake-up on nothing ends the sleep but another event or 30 s |
| `pool` | up to 3 threads, the second in detail, 2 callers, 2 functors, 1 `quit()` by callers or callbacks, 4 calls of `getNextLoop()` | unless somebody quits it the loop outlives its use, no thread is orphaned, the loops are given out evenly, `start()` and the destructor return (with the exceptions of section 5) |
| `lfu` | 2 loops, 3 files, room for 2, frequencies up to 3, 4 nodes | sorted disjoint lists, maps that agree with them; until a file is set twice, the LFU policy and no stray node |
| `lfu_bound` | 2 loops, 4 files, room for 2 | violated: the cache grows past its capacity |
| `mem` | 3 threads, 2 blocks of 1 slot | no slot has two owners; at most one slot per further thread lies beyond a block |
| `mem_end` | 2 threads, 2 blocks of 2 slots | violated: a slot lies beyond the end of its block |
| `sql` | 2 connections, 2 workers | violated: `getConnection()` never returns |
| `server` | room for 1 byte, answers of up to 2 units, 2 timers of 1 unit of time, the pieces of lines, up to 3 unread bytes, 1 waiting client | registrations agree, no deaf connection, nothing dangles, input is read, answers are begun, timers close |
| `server_accept` | as `server` | violated: a second client is accepted in the end |

Why the bounds are enough. Six buffers are the four the logger starts with and two fresh
ones, so that `append()` runs out of its spare and the cut finds three buffers or more;
with lines of two units in buffers of three a line fails to fit a buffer that is
not full. Four lines pass through at least two swaps, so both spares are used again.
Three functors are one being called, one queued by it and one queued meanwhile by
another thread. In the cache three files compete for two places, and four
nodes leave room for the two stray ones that a double miss can make; frequency 3 is
enough for a list to empty, disappear and be made again between two others.
Two blocks are the least in which a thread can compare pointers into different
ones, and with three threads one may put in a block while a second has passed the
test and a third has read an old pointer; blocks of one slot are at their
end at once.
In the server the peer may send for ever. What is bounded, by `MaxUnread`, is what it has sent and the
connection has not read or not taken as lines: as the parser takes what it looks at, the bound
throttles the peer. A CR, a LF with a character behind it, and two characters, in any order and number,
one after the other or at once, make a line that comes at once or in two reads, that is incomplete or bad, and
characters with which the peer may go on for ever; a buffer of one byte is enlarged by the first read of two,
and a character that is left before a CR makes `Overruns` happen. Two units of answer are the least that can
be sent in part. Two timers are the least with which one expires while another keeps
the connection. The callbacks make one connection only, since the acceptor accepts only
one (`server_accept`), and `SomeGarbage` puts the parser in each of its states rather than in every
combination of uninitialised members. The kernel, the peer and the clock step only where
the thread is about to look at what they change: everywhere else their steps commute
with the thread's. What happens to the acceptor while a connection is open is left to
the time before or after, as the two share nothing.
The pool has three threads so that one is started, and destroyed, before and one after the
detailed one, and four rounds of `getNextLoop()` pass the end of the vector. One `quit()` ends the loop
at any point of its life, the owner's destructor included; two, the first of which may be forgotten, are in the run `loop`. Two functors are
one that runs and one that comes meanwhile.
The bounds `MaxLines`, `MaxFunctors`, `MaxQuits`, `MaxFreq`, `Nodes`,
`MaxBlocks`, `MaxGiven`, `MaxTimers`, `MaxBacklog`, `MaxUnread` and `MaxAnswer` are guards of the
model only; TLC deadlocks at them and at the end of the program, so the runs do not
check for deadlock and state as liveness what must return.

Symmetry is used in safety runs only. `AsyncLogging` takes the first free buffer where the
code allocates one (`Pick`): the free ones differ in nothing but their name, and the choice
is made the same way every time, so no symmetry is needed in the run that also
checks liveness.

**Fairness.** The operating system runs runnable threads: weak fairness of each
thread's next step. Timed waits end: `wait_for` after `flushInterval_`,
`epoll_wait` after `kPollTimeMs`. Nothing is assumed of callers (no `append()`,
`queueInLoop()` or `quit()` need ever come) nor of the network (`PollOther` is not
fair): `EventuallyRuns` therefore rests on the time limit alone. In `Server` the loop thread
goes on (`epoll_wait` has its time limit again); `TimeoutCloses` supposes that time
passes and `AnswerSent` that the kernel has room in the end and that the peer stops sending, and both
say so. In the pool the destructors of the other threads are not fair. In
`SqlConnectionPool` a worker gives its connection back and the semaphore is fair to those that wait,
the most that can be granted to the pool.

**What is a history variable.** `lost`, `stopMark`, `ran`, `early`, `older`, `twice` and `accepted` record the
past for the properties; no action reads them in a guard. `older` holds the pairs of cached files of which
the first has been unused for longer; `LFUPolicy` chooses its victim by it, the lists of the cache do not.

## 5. What the violated runs say

* `async_drain`: `threadFunc()` leaves its loop as soon as it sees `running_` false and
  flushes the FILE; it does not take a last round over `buffers_` and
  `currentBuffer_`. `AsyncLogging.h:30` describes it as writing the log of the
  buffers into the file.
* `loop_wakeup`: the wake-up channel is reported once and then disarmed for good.
  `FirstWakeup` shows that the protocol around it is right up to that point, and
  `EventuallyRuns` that the loop survives on the time limit.
* `lfu_bound`: two loops that miss the same file both call `set()`. The older
  node stays in the lists without being in the maps; its eviction erases the map
  entries of the live one; the eviction of that one erases nothing, and `kmap_` is one
  larger than `capacity_` after the insertion. The test `==` never succeeds again.
* `mem_end`: `nofreeSolve()` tests without `mutexOther_` whether the block has room and does not
  test again with it, as `allocate()` does for the free list. Two threads that pass the
  test for the last slot get one each. `OverrunBounded` and `SlotsDistinct` say what is left: the
  overrun is at most one slot per further thread, and nobody shares a slot.

* `sql`: the last statement of `init()` declares a local `sem_`, and the member keeps the value
  0 it was constructed with. Every `getConnection()` of a filled pool waits for ever, that
  of `initSqlResult()` included; when the pool is empty it returns at once, without a connection.
* `server_accept`: the listening channel is registered with `kReadEvent`, hence one-shot, and
  `Acceptor::handleRead()` accepts one connection and does not enable it again. TLC's behaviour: a client is
  accepted, its timer ends it, a second client connects, and the loop waits for ever. The comments
  at `Acceptor.cc:42`, `:50` and `Acceptor.h:12` speak of every new client.

The passing properties of `Server` have exceptions that a reader should know.
`NoDeafConnection` and `InputRead` except a connection the peer has reset: the error is dispatched to
`errorCallback_`, which nobody sets, so that only the timer removes it. A refused answer
closes the connection and enables it again (`HttpConnection.cc:116-120`); `TimeoutCloses` covers what is left of
it. `AnswerSent` supposes that the peer stops sending. Without that premise TLC refutes it: a report is
handled by one callback, reading before writing (`Channel.cc:26-33`), so that a peer whose bytes are there
at every report keeps its answer waiting for ever. As nothing calls
`disableWriting()`, a connection the kernel takes bytes for is reported in every round, to do
nothing. A file in `fileAddress_` makes `unmap()` assign a null pointer to a string, and the
second answer of a connection looks for a file whose name is the first one's and its own in a
row, as `realFile_` is never cleared. And `parseLine()` takes what it looks at
out of the buffer (`HttpConnection.cc:242`), and nothing keeps it: when the rest of a line comes it is taken for
the whole, although `NO_REQUEST` (`HttpConnection.h:57`) is described as a request that is not complete yet.

A `quit()` that comes before `loop()` has cleared `quit_` (`EventLoop.cc:41`) is forgotten, and so is one that
already finds `looping_` set (`:40`). The destructor of an `EventLoopThread` called right after `startLoop()`
may therefore wait for ever. Nothing in the repository says otherwise; `QuitEndsLoop` and
`DestructorReturns` are stated for a loop that has come to its `while` (`Entered`), and TLC refutes both
without that condition. `startLoop()` has the opposite exception: `loop_` is cleared when the
loop has ended, so that a loop which a functor or an event ends before the owner has looked leaves the owner
waiting for ever; `PoolStarts` excepts a `quit()`.

`LoopOutlivesUse` speaks of the time before anybody has called `quit()`. Once a loop is ended by somebody else,
the pointers that the pool gave out are stale, and the destructor's test of `loop_` and its
`loop_->quit()` may find a null pointer or a dead loop. `NoOrphan` and `DestructorReturns` still hold,
as far as the program survives.

Undefined ends of objects are open in the model and no property is stated of what follows: the `delete` of
the pool's `Channel` in `~EventLoop()`, the deletion of the static cache with each connection, and the second
deletion of each `MYSQL`. After each of them the model either goes on as if nothing had come of it or
stops.

## 6. Proofs

`AsyncLoggingProofs.tla` proves for every set of buffers, every size and number of lines:
`TypeCorrect`, `Ownership` (`ExclusiveOwnership`), `NoAssertFails` (`AssertsHold`) and
`NeverDrops` (`AppendNeverDrops`), from the named assumptions on the constants. `ExclusiveOwnership`
is not inductive: that the refill finds enough written buffers depends on the
point `threadFunc()` has reached. `IInv` adds `Phase`, what the back end holds at
each point (two spares and nothing taken; no first spare and enough taken; nothing),
that the front end's spare is missing only when a buffer is queued, and the
handshake of `start()`; and `SparesEmpty`, only the current and the queued buffers hold
bytes, which the assertions on the length of the spares need. The proof has a lemma for
each step that moves buffers (`SetUpStep`, `SwapStep`, `TrimStep`, `RecycleStep`,
`AppendStep`), one for all the others (`QuietStep`), and lemmas on sequences without
repetitions. The types of the lines follow in a second invariant on top.

`EventLoopProofs.tla` proves for every set of callers and number of functors: `TypeCorrect`,
`InOrder` (`OnceInOrder`) and `WokenOnce` (`FirstWakeup`). The strengthening `IInv` adds
`Phase`, that the vector of `doPendingFunctors()` is empty outside its loop (so that the swap
loses nothing) and that `callingPendingFunctors_` is set inside it (so that a
functor that queues a functor wakes the next round), and `WakeInv`, the wake-up
property at all points but those between `epoll_wait` and `doPendingFunctors()`,
where the loop thread queues without a wake-up because it comes past the queue next.

`MemoryPoolProofs.tla` proves for every set of threads, size of a block and number of blocks:
`TypeCorrect`, `GivenOnce` (`SlotsDistinct`), `OverrunAtMost` (`OverrunBounded`), `AloneInBlock` (with a
single thread the property that `mem_end` refutes holds) and `SizesFit`, the arithmetic
of `useMemory()`. `SlotsDistinct` needs `Below`: every slot given out lies below `currentSlot_`
in the newest block or in an older block. `OverrunBounded` needs `Crowd`: `currentSlot_` and the
number of threads that may still bump it (`Passing`) are together bounded. A thread
joins them only while there is room, at most all threads are in it, every bump takes
one out of it, and a new block sets the place back while its thread is outside.

`ServerProofs.tla` proves for every input and garbage, every timeout, size of a buffer and
bound: `Registrations` (`KernelAgrees`), `AlwaysHeard` (`NoDeafConnection`) and `NonePointsAstray`
(`NoDangling`). The lemmas on the channel say what `update()`, `remove()`
and a report leave behind, for any channel that is `Good`; between the change of its events and the
`update()` that follows it is only `Tied`. `IInv` has four parts. `ConnInv`: the channel of the connection is good,
and gone with it. `AcceptInv`: the listening channel is good, new before `listen()` and gone after the
destructor, and reported in between only. `RoundInv`: no channel of a round outlives it.
`DeafInv`: between two polls a registered connection may be disarmed, but then its handler is
running or to be called, with a callback that is set. `HandlingArms` and `BeginArms` go
through all the ways out of a handler.

The types of the whole server (`TypeCorrect`) rest on three further parts of the invariant.
`InputInv` says that the reader index is never in front of the prepended bytes and the readable bytes end
within the vector; each of `readFd()`, `retrieve()` and `parseLine()` is shown to keep it, so the length
of a line is irrelevant. `QueueInv` has the reason why the backlog does not run below zero: a listening channel
that is reported has a client that waits, and nothing but its handler takes one. `HttpInv` bounds
`bytesToSend_` and the parser's members from the values an uninitialised connection may find.

`AsyncLoggingProofs.tla` also proves `NoSleep` (`NoSleepOnFullBuffer`), and `AsyncLoggingRefinement.tla` the two
results the logger is for: `Implements` (`ImplementsPipe`, the refinement of `LogPipe`) and `InOrder`
(`InOrderOnce`). The map takes what is in memory to the lines of the taken buffers not
yet written, of the queue and of the current buffer, in this order. A swap and a recycling are then stutters, which
needs `RoundInv`: everything taken was written when the refill drops it, and nothing when the cut
starts, and an empty buffer has no lines, so that what is reused and what is spare adds none. A cut
is a discard in the middle, an append an accept, and a write moves the first lines to the file. That the
pipe keeps lines in order and once is an invariant of its own steps, so `InOrder` follows
from the refinement and not from the buffers once more. `FlattenSeq` is a recursive function in the library; what it does to
a concatenation is proved in `SequenceLemmas.tla`.

`EventLoopThreadPoolProofs.tla` proves for every number of threads and callers: `PoolTypeCorrect`, `LoopLives`
(`LoopOutlivesUse`), `ThreadJoined` (`NoOrphan`), `Turns` (`Balanced`) and `LoopOfPool`, that what is proved of a loop
with arbitrary callers holds of one in a pool. `ThreadInv` ties the three program counters:
`loop_` is set exactly while the thread is in the loop, an owner that has started and not quit
finds it there or finds that it has ended, and a loop whose `quit_` is set or that has ended was told so by the
destructor or by somebody else's `quit()`. Nothing is assumed of who calls `quit()`: the last part is what
`LoopOutlivesUse` and `NoOrphan` need to say that without one the loop lives. The steps of
undefined behaviour change nothing but `alive` and the caller's program counter. `LoopsInv`: the vector
is the loops in their order, nothing is given out before `start()` is through, and `next_` is in range.

`LFUCacheProofs.tla` proves for every set of files, loops and nodes and every capacity: `TypeCorrect`, `ListsHold` (`Lists`),
`MapsHold` (`MapsAgree`), `StrayNode` (`NoStrayNode`) and `LFUPolicyFollowed` (`FollowsPolicy`), all from one
inductive invariant, `LFUInv`. Its parts: the big list is ascending, without empty small lists but the one
`addFreq()` is about to fill or drop, and its nodes are distinct (`Good`, `NonEmpty`); the maps name the node and
the list of a file (`MapsRight`); and, until a file is set twice, every node is its key's (`NoStrays`), the
files of one small list stand in the order of their last use (`OldestLast`), the last of which the code
evicts without any record of uses, and the cache is within its capacity. The last three
depend on each other: a stray node may be the victim, and its key another's. The operations on the lists are
described by two relations that do not mention positions, `Member` (a node in the list of a frequency) and `Ahead` (a node
before another in a small list). Two theorems bound what `lfu_bound` shows: with one loop no file is set twice,
so the cache keeps to its capacity (`OneLoopBounded`) and implements `LFUPolicy` without reservation
(`OneLoopIsLFU`). Their invariant says that a file which `get()` did not find is still missing when
`set()` comes.

`SequenceLemmas.tla` holds what the proofs share: sequences without repetitions, ascending ones, insertion and removal at
a place, the order of two elements, flattening. Induction over the length is done on sets
of numbers (`SetInduction`), which needs no operator as a parameter.

Each proof rests only on the named assumptions of the modules, which give the constants
their types and the bounds of the model a value of at least one where an action needs it.
TLC evaluates them in every run.

Only model-checked: the liveness properties (`EventuallyOnDisk`, `StopReturns`, `EventuallyRuns`, `QuitEndsLoop`,
`PoolStarts`, `DestructorReturns`, `InputRead`, `AnswerSent`, `TimeoutCloses`), as the prover has neither fairness
nor `ENABLED`. Every invariant that a passing run checks, and every action property and refinement, is
also a theorem. `SqlConnectionPool` has no theorem: the run shows that the first `getConnection()` of a filled pool
never returns, and what would hold after it is never reached.

## 7. Not modelled

* the formatting of log lines (`LogStream`, `Logger`) and of answers, and the text of requests:
  sequential conversions, on which no branch of the protocol depends but those the
  model leaves open;
* sockets, addresses, time stamps, the opening and closing of files: pure I/O. What
  `accept()`, `listen()` and `close()` mean for a channel is in `Server`;
* `Timer::update()`, `Timer::clear()`, `linkTimer()`, `disableReading()`, `disableWriting()`, `tie()`,
  `hasChannel()`: they have no caller;
* several loops with a connection each: a loop, its poller and its connections share with
  others the cache and the pools only, which have runs of their own; and the acceptor
  never makes a second connection (`server_accept`);
* the bytes the peer gets: a write that is taken up again begins with the first
  byte, and the second piece points into a string that is gone, so there is no order
  to state;
* memory exhaustion, and errors of `eventfd` and `epoll_wait` other than an interruption;
* `HttpWebserver.cc`, whose `main()` is empty.
