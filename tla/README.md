# kj-cpp-redis: a TLA+ verification project

kj-cpp-redis is a Redis client library: a host program builds commands, commits
them in batches ("command pipelines"), and gets replies through callbacks or by
blocking. A worker thread with a kj event loop keeps one TCP connection to Redis
and promises "Auto reconnect" (README.md of the repository). A second worker does
the same for publish/subscribe.

This directory holds the models of that machinery, the TLC configurations that
check them, and proofs of what holds for every size. All paths below are under
`src/src/`.

## 1. The system

| Component | Code | State it keeps | Operations | Talks to |
|---|---|---|---|---|
| Front end | `RedisClient.*`, `RedisCommandBuilder.h` | `_allCommands`, `_builtNum`, `_nextSn` | one method per Redis command (build), `Commit`, `BlockingCommit`, `Shutdown` | work queue (enqueue), trunk queue (callbacks) |
| Work queue | `io/KjRedisClientWorkQueue.*` | `_callbacks` (SPSC queue), `_done`, `_finished`, a pipe | `Add`, `Finish` (main thread); `read_pipe_loop`, `check_quit_loop`, `Run` (worker) | connection (`Send`, `Commit`) |
| Connection | `io/KjRedisClientConn.*`, `io/KjRedisTcpConn.*` | `_dqInit`, `_dqCommon`, `_committing_num`, `_bDelayReconnecting`; `_stream`, `_bConnected`, `_disconnectFulfiller` | `Open`, `Send`, `Commit`/`CommitLoop`, `OnClientConnect`, `OnClientReceive`, `taskFailed`, `DelayReconnect`; `Connect`, `Reconnect`, `Write`, `FlushStream`, read loop | Redis over TCP; builder; a pipeline's callbacks |
| Pipelines | `base/RedisReply.h`, `CreateCmdPipeline` | `_sn`, `_built_num`, `_processed_num`, `_state` | | |
| Trunk queue | `io/RedisClientTrunkQueue.*`, `base/CamelReaderWriterQueue.*` | `_callbacks`, `_close` | `Add` (worker), `RunOnce`, `Close` (main thread) | the caller's callbacks |
| Parser and builder | `base/reply_parser/*`, `io/KjReplyBuilder.*`, `base/nx_array.c` | parser state, a stack of open arrays, finished replies | `ProcessInput`, `PopReply`, `Reset` | ring buffer, connection |
| Ring buffer | `base/bip_buf.*` | one region A of committed bytes in a doubled allocation, a reservation behind it | reserve, commit, decommit, growth | TCP read loop, parser |
| Subscriber | `RedisSubscriber.*`, `io/KjRedisSubscriber*` | subscription counters, callback holders, and what the client has | `Subscribe` ... `Pubsub`, message dispatch | a connection of its own |
| Cache and list proxies | `base/Redis{Cache,List}Proxy.*` | none of their own: hashes, lists and tables of what is dirty, in Redis | build scripts, unpack replies; a saver loots what is dirty and restores | front end, other clients of the same Redis |
| List observers | `CRedisListSubject` in `base/RedisListProxy.*` | registrations per channel | `SetObservable`, `AttachObserver`, `DetachObserver`, dispatch | subscriber |
| Ranking proxy | `base/RedisRankingProxy.*` | none | one command per method | front end |
| Service | `RedisService.*` | one client, one subscriber, `_bShutdown` | `Shutdown`, `ParseDumpedData` | host program |
| RDB parser | `base/rdb_parser/*` | decoder state | decode a dump | |

Vendored (kj under `capnp/`, readerwriterqueue, lzf, crc64, printf, memcpy) and
unused files (`KjTcpConnection.*`, `KjSimple*IoContext.*`, `RedisTrunkQueue.*`,
`RedisCacheProxyClassic.*`) are left aside.

What makes it correct, component by component:

* connection: no pipeline is lost, doubled or reordered however often the
  connection breaks; each callback gets the last reply of its own pipeline; there
  is always exactly one thing keeping the connection alive; nothing is written
  twice on one connection.
* front end, queues: each committed pipeline reaches the connection, in order; no
  wakeup is lost; a blocking call gets its own reply and returns; nothing runs
  after `Shutdown()`.
* parser, ring buffer: cutting the input anywhere does not change the replies; no
  byte is lost, repeated or read before it is committed.
* subscriber: the counters of who wants a channel agree with what the server sends;
  its messages reach each registered callback once, in order, and are never taken
  for replies.
* proxies: what is removed from Redis has been saved; commands that are executed
  again after a reconnection do no harm; scripts that compare and set marks exclude
  other clients.
* observers: everyone attached is counted once and called once per message.

What makes it hard: two threads and three queues between them; resending after a
failure with state left over from the connection before; callbacks that throw half
way; resets evaluated later than the failure that asked for them; two kinds of
timers that may be armed when they go off. `PROJECT.json` lists each hazard at its
line, with the properties that watch it.

## 2. Modules

| Module | Models |
|---|---|
| `CmdPipeline` | a pipeline and the loops over a deque of them |
| `KjRedisClientConn` | one connection on its event loop, with the TCP link and the server at the other end |
| `ReplyService` | what a caller may count on, with no connection in it: the abstract specification |
| `AtLeastOnce` | what the server sees of single commands: executed in order, and again after a lost connection; abstract specification |
| `RedisClient` | main thread, work queue, worker and trunk queue; EXTENDS the connection and composes with it |
| `RedisSubscriber` | the subscriber's main thread, queues and connection; EXTENDS `RedisClient`, whose code it repeats |
| `BipBuf` | the input ring buffer, byte by byte |
| `ByteQueue` | a queue of bytes: what the buffer promises |
| `ReplyParser` | read loop, parser and builder, from bytes to replies |
| `CacheProxy`, `ListProxy` | one cache, one list: the scripts in Redis, clients that share them, the saver |
| `ListSubject` | the observers of one list over the subscriber's counter |
| `Selection` | the filtering of a sequence by position, without recursion |
| `MC...` | the modules TLC runs on: inputs and symmetry |
| `..._proofs` | lemmas and theorems of the module they are named after |

### The connection

A kj event loop runs one callback at a time to its end, so an action is one
callback. `OnClientReceive` handles all the replies of a chunk in a loop; nothing
of the connection runs between two rounds of it, so an action is one round.

| Variable | Code |
|---|---|
| `dqCommon`, `committing_num`, `bDelayReconnecting` | the members of `KjRedisClientConn` |
| `bConnected`, `stream` | `KjRedisTcpConn::_bConnected`, `_stream != nullptr` |
| `connectTask`, `readTask` | a connect (first or later) in flight, the read loop alive; both end when `_disconnectPromise` is fulfilled |
| `delayTasks` | timers armed by `DelayReconnect()` (3 s) |
| `commitLoops` | timers armed by `CommitLoop()` before the first connection (1 s) |
| `failures` | runs of the function `taskFailed()` gave to evalLater still to come |
| `link`, `requests`, `replies` | the TCP connection, what was written and not yet executed, what was answered and not yet read |
| `nextSn`, `completed`, `faults` | pipelines handed over; what each callback was given (history); faults so far |

| Action | Code |
|---|---|
| `HandOver` / `SendAndCommit` | `read_pipe_loop`: `Send()` for all, then `Commit()` |
| `CommitWrites` (in the actions that commit) | `CommitLoop()` when connected, including `Write()` throwing at any pipeline |
| `CommitLoopTimer` | `CommitLoop()` from its timer |
| `ConnectSucceeds`, `ConnectThenReadThrows`, `ConnectFails` | `StartConnect()`, its continuation and `OnClientConnect()` |
| `ReceiveError`, `ReceiveUnexpected`, `ReceiveNonTail`, `ReceiveBadSha`, `ReceiveTail` | the ways through a round of `OnClientReceive()` |
| `ReadFails` | the stream ends |
| `ResetAfterFailure` | the function `taskFailed()` evaluates later, with `FlushStream()` and `DelayReconnect()` |
| `DelayElapsed` | the 3 s timer and `Reconnect()` |
| `LoseLink`, `ServerExecutes` | the network and Redis (external) |

`_bConnected` is never cleared while the connection lives (only the destructor
does): `CommitLoop()` after a failure finds itself "connected" with a null stream,
marks and counts pipelines without writing them, and `OnClientConnect` counts them
again. The model keeps this, and `CommittingNumCovers` shows that the counter errs
on the safe side only.

### The client

`mainPc` says where the main thread is inside a call, so that the worker's steps
fall between enqueue and wakeup, before a blocking call waits, and during
`Finish()`. Every step of the connection is a step of the worker; when it runs a
callback, `Post` puts the reply into the trunk queue or sets the promise of the
blocking call. `promised` is that promise with the reply stored beside it.
`pipeByte` says whether a byte is in the pipe: `tryRead` takes all bytes at once
and the queue is then drained whole, so that their number does not matter.

### The subscriber

`KjRedisSubscriberConn.cpp` and its queues repeat the client's code, so the module
adds to `RedisClient` only what differs. `counter` and `holders` are the maps of
counters and the vectors of callbacks; `cmds[sn]` says what pipeline `sn` does; `subs`
is what the server has for the current connection (it dies with it, `WithConnection`).
`Subscribe` ... `Pubsub`, `AddMessageCb` and `RemoveMessageCb` are the methods;
`ReceiveReply` and `ReceiveMessage` are the two ways of a round of `OnClientReceive()`:
a message is passed to the trunk queue and leaves the deque alone. `DispatchOne` is a
round of `RunOnce()`, with the two work callbacks. `PUBLISH` and `PUBSUB` on a
connection with a subscription are answered with an error, as Redis does, and an
error costs a reconnection.

### Ring buffer and parser

`BipBuf` has the allocation `mem`, twice `capacity` long, and the four positions. The
calls that return NULL are guards. Its actions are the functions of `bip_buf.c` that
change anything; `ForceReserve` is `Reserve`'s work or `Grow`.

`ReplyParser` takes the buffer as the queue `BipBuf` implements. A script is what the
server has to say: replies in prefix notation, sequences of tokens, of which `Reading`
gives the value they stand for. `ServerWrites` puts the next token on `wire`; `Receive(n)`
reads some of the bytes, cut anywhere; one step of `Parse` is
one round of an `RRB_LOOP` on the top of `stack_rrb`: `BuildType`, `BuildContent`,
`BuildLen`, `BuildBulkPlain`, `BuildSimplePlain`, `BuildOver`, one per builder state.
`Break` is a lost connection with `Reset()` of builder and buffer, after which the
server answers the unanswered commands again. The server writes no further ahead than one
read can see: how much more is under way makes no difference to who reads.

### The proxies

A client of `CacheProxy` and `ListProxy` is what `AtLeastOnce` says it is: a queue of
unanswered calls, some of which (`served`) have been executed and whose answers are on
their way; `Lose(c)` drops answers, and their calls are executed again. Each script is
one atomic action (`Execute` and one disjunct of `Run`). `LootDirtyEntry`'s script,
its answer and the writing of the batch to the database are three steps of a saver.
`truth`, `saved` and the like are history: what a list or a cache was last made to be,
and what the caller's database has. What `ListProxy` promises depends on what its
callers use it for, which the code leaves to them: a behaviour has one `usage`, a set of
calls for each client, and `LockDiscipline` and `VersionDiscipline` say of a usage that
marks are locks, or versions, in it and nothing else.

| `ListProxy` action | Code |
|---|---|
| `PlainPush`, `PlainPop` | `LPushToList` ... `RPop` |
| `PopEverything` | `s_sPopAll`, `s_sPopAllAndMark` |
| `CompareAndSet` | `s_sLPushCAS`, `s_sRPushCAS`, `s_sSetCAS`, `s_sResetCAS` |
| `Count` | `s_sIncrByIntCAS`, `s_sDecrByIntCAS` |
| `Clear`, `ClearExits` | `s_sClear`; the exit of a process that cleared a dirty list |
| `LootExecuted`, `RestoreExecuted` | `s_sLootDirtyEntry`, `s_sRestore` |

### The observers

`ListSubject` has one channel. `regs` is the vector of registrations with their
`_is_deleted` flags; `counter` is the subscriber's, shared with direct callers of
`Subscribe()` and `Unsubscribe()` (`others`). `pos` and `running` are the loop of
`OnGotChannelMessage()`: while a callback runs, callers' actions may happen inside it.
The server's part is a queue of commands executed in order.

## 3. Runs

| Run | Question | Bounds | Distinct states |
|---|---|---|---|
| `conn_single` | does the connection keep the promise of `ReplyService` (safety and liveness), and execute in the order of `AtLeastOnce`? | 1 own command, 3 commits of one command, 2 faults | 9,755 |
| `conn_resend` | what survives failures with pipelines of several commands? | 2 own commands, 2 commits of one or two commands, 3 faults | 99,853 |
| `conn_tail_reply` | violation: the tail reply after a resend | 2 commits of one or two commands, 1 fault | |
| `conn_rejected` | violation: an error reply | 1 commit, which Redis rejects, no fault | |
| `client` | the composition: order between threads, wakeups, blocking calls, shutdown | 2 commits through either call, 1 fault, shutdown at any time | 25,902 |
| `bipbuf` | is the buffer a queue of bytes, in bounds? | capacity 2 growing to 4, 2 values of a byte | 43,067 |
| `parser` | are the replies those sent, however they are cut? | 199 scripts of two or three replies (below), nesting of 3; reads of 1 to 4 bytes, 2 broken connections | 93,483 |
| `subscriber` | do counters and server agree, and is each message heard once, in order, and kept apart from replies? | 1 channel, 1 pattern, 2 callers each, 2 commits, 2 messages, 1 callback name, 1 fault | 4.89 million |
| `subscriber_live` | are commands answered and messages dispatched? | 1 channel, `PUBLISH`, `PUBSUB`, 2 commits, 1 message, 1 fault | 109,076 |
| `cache` | is every change in the database, in the saver's hands or still dirty? | 2 clients of 2 calls, 1 field, 2 values, 2 lootings, 1 fault | 2.34 million, symmetric |
| `list` | does a lock exclude, is an item popped once, is what is not dirty saved? | 3 clients and a saver of 2 calls each, 2 marks, 2 items, 1 fault, 3 usages | 3.12 million |
| `list_observers` | is everyone counted and called once? | 3 observers, 1 direct caller, 2 messages, 3 commands in flight | 9,744, symmetric |

Why the bounds suffice. A fault is a broken link, a failed connect, a first read
that throws, a passing error of the server, or a wrong hash. Three faults are
needed for the deepest interleaving the code has: a failure, a second one while the
reset of the first is waiting, and one of the new connection; they also reach
every action. Two pipelines are needed for one to take the other's reply, three for
one to be done, one answered and one queued. Two commands in a pipeline are what
distinguishes a tail reply. Committing stops at `MaxCommits` and failing at
`MaxFaults`, and the caller may simply stop asking: states with nothing left to do
are reached, so deadlock checking is off (`bipbuf`, which never stops, keeps it on).

In `bipbuf` a capacity of 4 has room for a move that would overlap and for a growth
that takes a region with it. The scripts of `parser` hold what a cut can split: a line
end, two digits, a line end inside a bulk string, an array in an array; a bulk string
longer than the buffer's first size; a read may
hold the end of one reply and the start of the next. They leave out what the code is
known to spoil, simple strings and errors of more than two bytes (finding 4) and null
arrays as whole replies (finding 5), and have errors only as elements of an array, since
the connection throws at one that is a whole reply (finding 2).
Two callers of a topic are what a counter must not confuse, two commits a subscription
and its end, two messages what has an order. Two clients are what a script can be
interleaved with; two calls each let one be executed again behind another's; a third
client pops what two push. In the proxies a fault loses any number of answers on their
way.

The usages of `MCListProxy` are `Locking` (clients that take and release a lock and pop),
`Queueing` (producers that number their pushes with `LPushCAS` and `RPushCAS`, and one
that pops in three ways) and `Everything` (every call there is, and a saver that
restores). `HolderIsMarked` speaks of the first kind, `TakenOnce` of the second:
with a mark that returns to an earlier value, a push executed again would push again.

The type invariants of the modules say what each variable may hold. `TypeOK` of the
connection is an invariant of `conn_single`; `TypeOK` of the buffer, the cache and the
observers are theorems (section 5). The others (`ClientTypeOK`, `SubscriberTypeOK`,
`TypeOK` of `ReplyParser` and `ListProxy`) hold in the runs of their modules too, when
added to the cfg; so small a claim has no run of its own. All of them are theorems as
well.

What a property is conditional on, it does not see. `KeepsPromise` and `ResendsInOrder`
are run with pipelines of one command, so that the stale count of finding 1 is for
`TailReplyDelivered` alone; `OwnReply` and `CallsReturn` take callers who commit
commands, and before `Shutdown()`; `CountersMatchServer` speaks of the time before a
connection is lost (finding 7), `NothingForgotten` and `CleanIsSaved` of savers that lose
no answer (finding 8), `CountsEveryone` of callers who detach only what is attached. A
hazard that such a condition keeps out is listed in `PROJECT.json` without that property,
and the findings say which change of a configuration shows what happens.

What each property says is in the comment above it. The mutants listed in
`PROJECT.json` are small operators defined before the one they replace (for
instance `BuilderKept` before `BuilderReset`): a property of a passing run fails
when its mutant takes the place of the code's operator.

## 4. Fairness

* `FairSpec` of the connection: weak fairness of `ConnProgress` as a whole. The
  event loop does not sleep while a callback is due, timers go off, the server
  answers what it has received. It is one condition for all of these together, as
  the code has no priorities to justify more. Nothing is assumed of the caller, and
  faults need not happen; they are bounded, i.e. the network works in the end.
* `ClientFairSpec`: weak fairness of the main thread inside a call and in draining
  the trunk queue (its host calls `OnUpdate()`, and the queue writes to a pipe its
  loop reads), and of the worker reading the pipe, running the connection and
  noticing `_done` (`check_quit_loop` polls on its own timer). No fairness of
  building, committing or shutting down.
* `SubscriberFairSpec`: the same for the subscriber. The host keeps calling
  `RunOnce()`; messages and replies share the event loop's one condition.
* `ReplyParser`: weak fairness of `Parse`, which is a C call that has begun. Nothing is
  assumed of the network.

The buffer, the proxies and the observers have no liveness property: each of their
actions is a call that somebody may or may not make.

## 5. Proofs

`tlapm` checks all of them from nothing; the only assumptions are the named ASSUMEs
on the constants: bounds and counts are naturals, capacities are powers of two between
a positive first one and the largest, junk is no byte and "no value" no value, clients of
a list are positive numbers (0 is a free lock), there are finitely many observers, and
what a server has to say are complete replies.

**Deques** (`CmdPipeline_proofs`). The loops over a deque of any
length. The filter of `OnClientConnect` is written without recursion as
`Selected(s, S)`: the positions in `S` in increasing order, the k-th found by its rank.
`RankIsOnto` shows that every k has such a position (the rank is injective, hence
onto); `SelectedSuffix` that selecting the positions behind m is dropping the first m;
`QueueRebuilt` that the rebuilt deque is in order if the old one was. The observers use
the same operator for the registrations that `OnGotChannelMessage()` really deletes.

**The connection** (`RedisClient_proofs`, part 1).

* `TypeCorrect`: `TypeOK` is inductive by itself.
* `AlwaysSomeTaskPending`, `AlwaysOneTaskAtATime`: neither is inductive. `TaskInv`
  adds that the flag `bDelayReconnecting` is set exactly while the one timer is
  armed, and that a connect, a read loop and the timer exclude each other. The
  interesting steps are `ResetAfterFailure`, which hands over from whatever was
  there to the timer, and `DelayElapsed`, which may clear the flag only because
  nothing else is alive.
* `AlwaysNothingLost`, `AlwaysCallbacksInOrder`: they need each other (callbacks run
  for the front of the deque) and a third part, that nothing in the deque is
  `PROCESS_OVER`, since the rebuilding would drop it. `QueueInv` is the conjunction,
  inductive relative to `TypeOK`.
* `AlwaysCommittingNumCovers`: inductive relative to `TypeOK`, with the pipelines in
  flight counted as a finite set. `OnClientConnect` counts on top of what a failed
  `CommitLoop()` counted; the set only ever shrinks there.
* For pipelines of one command, the only ones for which it always holds (finding 1):
  `SingleInv` says that while the read loop runs, the replies under way are those of
  the front of the deque, that while the link is up as well the requests are those of
  the rest, and that nothing is left of the last connection when the next one is made.
  The difficulty is that the three facts break and are restored by different actions,
  so that each has its own condition. It gives `SingleWireMatchesDeque`,
  `SingleTailReplyDelivered` and both refinements: `SinglePromiseKept` (the safety part
  of `ReplyService`) and `SingleResendsInOrder` (`AtLeastOnce`; each action is shown
  to be an `Ask`, `Serve`, `Answer`, `Lose` or a stutter of it). The theorems have the
  hypothesis `BuiltNums \subseteq {1}`; `TailReplyDelivered` without it is what
  `conn_tail_reply` refutes.
* For pipelines of any length but zero, `UninterruptedTailReplyDelivered`: under
  `UninterruptedSpec`, the behaviours in which `OnClientConnect` finds no caller's
  pipeline half answered. Connections may still break, between two pipelines or before
  the first reply of one, and everything else that can fail may. The invariant is
  `LineInv`. What the deque waits for is a line of places, each a command of a pipeline;
  the replies under way answer a walk along it that begins at the front pipeline's next
  command (`Walks`), and the requests begin where the walk ends, the first of them with
  the commands before that place executed (`WaitsFrom`). The walk is a function of the
  replies that the invariant says exists, so that nothing is defined by recursion: a
  counted reply drops its first place (`WalkCounted`), a popped pipeline moves all of them
  forward (`WalkPopped`), an executed command adds one (`WalkOn`), a broken link keeps a
  prefix (`WalkPrefix`). Behind the front pipeline no reply is counted (`Sized`), and its
  own are never all counted (`FrontWaits`): hence the reply the code takes for the tail
  reply is the one of the last command. (With `SPECIFICATION UninterruptedSpec` in
  `conn_tail_reply.cfg` TLC finds no violation, nor with three commits of up to three
  commands and two faults: 465,372 states.)

**The client** (`RedisClient_proofs`, part 2). The connection's lemmas are about its callbacks,
which are the same steps here, and carry over.

* `AlwaysNoLostWakeup`: inductive by itself.
* `AlwaysPipelinesInOrder`: `OrderInv` adds how many pipelines have passed the work
  queue, so that `QueueInv` holds for those, and that the work queue holds the next ones,
  fresh, up to the shutdown.
* `AlwaysPromiseHasOwner`, `ClientTypeCorrect`: `OwnerInv` says that only the last call
  can be a blocking one without an answer, and that the main thread is then still in it.
* `AlwaysEachOnceInOrder`: `PostInv` adds that the trunk queue and the promise hold
  completions of their own kind of call only.
* `SingleOwnReply`: what callers are given has passed through two queues since
  `SingleInv` made it right. The hypotheses `MaxBuilt = 1` and `~EmptyCommits` are those
  of a caller that commits one command at a time.

**The subscriber** (`RedisSubscriber_proofs`). Leaving the messages on the wire out, its
connection is a client's whose pipelines are of one command: `Cl` instantiates
`RedisClient_proofs` with `AnswersIn(replies)` for `replies`, and the client's lemmas hold
for every step the subscriber shares with it. What is proved on top:

* `AlwaysAnswersMatchDeque`: `SubscriberWire` is the client's `TaskInv` and `SingleInv` on
  the answers. Reading a message changes none of them.
* `AlwaysMessagesInOrder`: `MessageInv` is the order and completeness of the messages in
  `delivered`, `trunkQueue` and `replies` taken as one sequence. A message that was read
  before the connection was lost stays in the trunk queue, the rest is dropped.
* `AlwaysHeardOnceInOrder`: `HeardInv` adds that a vector of callbacks holds a name once,
  and that what a callback has heard is older than every message still under way.
* `AlwaysCountersMatchServer`, `AlwaysNoGhostSubscription`: they compare the counters with
  what the server will have subscribed to after a sequence of commands in three places.
  `CounterInv` says that a counter is positive exactly if the last of all commands about
  the topic subscribes; `CommandOrder` and `PendingNumbers` that the pending commands are
  all those after the last one served, in order; `SubsInv` that a topic subscribed to
  is one the commands served so far leave subscribed, and the converse as long as no
  connection was lost. After a loss the pending ones begin with the first command not
  answered, and those answered before are forgotten by the server: hence only the one
  half, which is all there is to be had (finding 7). The properties
  are stated over the last command about each topic, since a fold over the commands
  would need induction over data.
* `SubscriberTypeCorrect`: `KnownInv` bounds the numbers of requests, without which the
  server could execute a command nobody recorded.

**The ring buffer** (`BipBuf_proofs`). `BufferInv` is `TypeOK`, `RegionsInBuffer` and
`CommittedIsWritten` (region A holds bytes, not what malloc left). It gives
`BufferTypeCorrect`, `AlwaysInBuffer`, `AlwaysDisjoint` and, with one lemma per action on
what happens to the block, the refinement `BufferIsQueue`: initial states are empty
queues, and every call puts, takes or drops bytes of the queue or stutters.
`NextPowerOfTwo` is the growth: the least power that is large enough exists and stays
below the largest.

**The cache** (`CacheProxy_proofs`). `NothingForgotten` relates five tables and is not
inductive without knowing that the batch in flight is empty unless a looting has been
answered (`BatchInFlight`) and that a cache not listed has no dirty field
(`DirtyIsListed`): a looting of a cache that is not listed returns nothing and must
have nothing to return. `IInv` is the conjunction with `TypeOK`; writing a batch is
idempotent on fields written since (`CleanWrites` and its neighbours).

**The list** (`ListProxy_proofs`). `AlwaysDirtyIsListed` and `AlwaysCleanIsSaved` follow
from `SaveInv`, in which every script is treated by what it does to the flag
(`RunKeepsSaved`). `AlwaysHolderIsMarked` is the deep one. That a client's mark stands
while it believes it holds the lock needs, under `LockDiscipline`: that its calls not
yet answered are of the disciplined kind and only the last one can be waited for
(`CallsInOrder`); that an answer on its way which says "locked" speaks the truth
(`AnswerSafe`); and that none of its calls still to be executed, or executed again,
unlocks what it holds (`HolderSafe`). A usage without discipline makes the theorem
trivially true, as it should. `AlwaysTakenOnce` is the other: `VersionInv` says that an
item is in at most one place (the list, one answer on its way, the client that took it:
`OnePlace`) and that once it is in any, its push is spent, the mark having moved beyond
what it expects (`PushSpent`), for good, since under `VersionDiscipline` marks only grow.
A lost answer drops the items in it, but the push that is executed again stays spent.
`AlwaysTyped` is `TypeOK`, with one lemma per action; that calls are well formed is
assumed of the usages.

**The observers** (`ListSubject_proofs`). `Registered` says that a name is in the vector
once, and not deleted exactly if its owner is attached; `ServerFollows` that the last
command on its way is what the counter says; `LoopInv` where the loop over the vector
is: who was called is behind it, who is owed a call is in front. `CountsEveryone` counts
with cardinalities of finite sets.

**The parser** (`ReplyParser_proofs`). Everything is proved for any script: any number of
replies, of any kind, length and nesting, whatever the reads return and whenever the
connection breaks. There is one invariant, `InStep`, and it says two things.

* *Bytes.* What is in the buffer and on the wire, put together, is what the server writes
  from where the parser is in the script to where the server is (`Written`, a least fixed
  point, so that it can be extended at one end by `ServerWrites` and opened at the other
  by the parser). Where the parser is depends on the state of the top frame, which has a
  phase for each: before a token (`TypePhase`), behind its first byte (`ContentPhase`,
  `LenPhase`), in its bytes (`BulkPhase`, `SimplePhase`), or behind the last element of an
  array (`OverPhase`). Only the bulk builder keeps bytes of an unfinished token; its phase
  counts them in.
* *Values.* `Fits` says what the frames are worth: if each array on the stack took its
  missing elements from what the remaining tokens say, the result would be what all tokens
  of the reply say. Reading a leaf, opening an array, closing one: each keeps this
  (`FitsLeaf`, `FitsOpen`, `FitsMore`, `FitsOver`), and at the bottom it is the reply
  (`FitsBottom`).

`Outcomes` is `Reading` with what this code does to a value: a simple string of more than
two bytes may be overlaid when it is cut (finding 4). `EachReplyAnswers` is the
theorem with no hypothesis: every reply is one of the outcomes of its own tokens, or the
empty array of finding 5. A script without such strings and without top-level null arrays
has one outcome, its reading, which gives `Faithful` and `AllThereAtTheEnd`; that a string
of two bytes is safe is proved too (`SimpleCut`: a cut leaves at least a byte behind). After
a round the parser is in a phase again, has stopped because the bytes of the phase do not
suffice (`Resting`), or has thrown (`Stuck`, and every later round throws the same way).
From these: `NoReplyHeldBack`, since what rests with nothing on the wire is before a token
the server has not written; `ErrorsGenuine`; and `BufferSmall`, since a parser at rest
leaves less than a line of digits. The hypothesis of the last is that one read and such a
line fit the buffer: 4096 and 22 bytes in 8192. `MCReplyParser` assumes the hypotheses of
its own scripts, so that TLC evaluates them.

The recursive definitions (`Reading`, `Decimal`, `NumberOf`, `next_power_of_two`) are
functions on intervals of numbers. That they exist, and what they give, is shown by
induction over a set of numbers (`SetInduction`), for which the library's well-founded
minimum of a set is enough; `DecimalRead` shows that a parser that multiplies by ten and
adds weights reads what a server wrote by dividing. `InStep` quantifies over sets of byte
strings, so TLC cannot evaluate it; it was found by proving.

Only model-checked: liveness (`ParserReturns` among it), and with it the fair half of
`KeepsPromise`: fairness is beyond the prover.

## 6. Findings

Checked by runs of their own:

1. **A resent pipeline keeps its count.** `_processed_num` is not reset when
   `OnClientConnect` sends a pipeline again. A pipeline of two or more commands
   interrupted after its first reply is then popped too early, its callback gets a
   reply that is not its last, and all later pipelines get their predecessors'
   replies (`conn_tail_reply`). Single-command pipelines are safe (`conn_single`), and
   so are all as long as none is interrupted that way (`UninterruptedTailReplyDelivered`).
2. **Error replies never reach the caller.** They are thrown, the connection is torn
   down, and the same command is sent again on the next one, for ever
   (`conn_rejected`), although the code that handles replies tests for them.

Met while modelling, and easily seen by changing a configuration:

3. **A full buffer does not grow.** `bip_buf_force_reserve()` (`base/bip_buf.c:267`)
   returns NULL when there is no free space at all, where `bip_buf.h:45` says it "would
   expand buffer if not enough free space". Add `ForceReserveExpands` to `bipbuf.cfg`.
4. **A line in two parts is put together wrongly.** `r_build_simple_string.c:88` copies
   the second part of a simple string or error over the first where the comment above it
   says "append". Use `LongScripts` of `MCReplyParser`: `RepliesFaithful` fails.
5. **A null array at the top level becomes an empty one** (`io/KjReplyBuilder.cpp:160`
   does not look at `is_null`, as it does for its elements). Use `NullArrayScripts`.
6. **After a protocol error nothing is read any more.** `OnClientReceive()` swallows the
   exception and returns, the parser is stuck in the middle of the broken reply, and the
   next reads fill the buffer until finding 3 meets `assert(bufbase)` in
   `io/KjRedisTcpConn.cpp:211`. Use `Resp3Scripts`: `ReadHasRoom` fails.
7. **Subscriptions do not survive a reconnection.** `KjRedisSubscriberConn.cpp:117` sends
   again only pipelines that are not answered: a confirmed SUBSCRIBE is gone with its
   connection while callers still count on it. Add `SubscriptionsKept` to
   `subscriber.cfg`.
8. **A lost answer to `LootDirtyEntry()` loses changes.** The script deletes what it
   returns (`RedisCacheProxy.cpp:53`, `RedisListProxy.cpp:67`); executed again it
   finds nothing, and `Clear()` then removes what no database has. Drop `~lootLost`
   from `NothingForgotten` or `CleanIsSaved`.
9. **A `Remove` executed again blocks its client for good.** `RedisCacheProxy.cpp:49`
   passes the `false` of `HGET` to `HSET`, which fails, and finding 2 does the rest
   (`ErrorResets` of `CacheProxy`, for ever).

Consequences and curiosities of the same kind:

* connection: commands are executed at least once, not exactly once; an
  address that cannot be resolved leaves `_addr` null for the reconnect to dereference;
  the promise of `write()` is dropped, which cancels what the kernel did not take;
  replies read before a broken one in the same chunk are held back.
* client: `BlockingCommit()` after `Shutdown()` never returns; in a release build a
  commit of no command shifts all later replies (set `EmptyCommits = TRUE` in
  `client.cfg` to see `OwnReply` fail); the serial number overflows after 2^31 - 1
  commits; `_done` and `_finished` are volatile, not atomic.
* subscriber: `as_array()` is moved out of every array reply before it is known to be a
  message, so `Pubsub()` always returns an empty array; `PUBLISH` and `PUBSUB` are
  refused while subscribed and cost the connection, and with finding 7 the
  subscriptions; a callback that adds or removes callbacks invalidates the loop.
* ring buffer: the comment at `base/bip_buf.c:23` says that `fast_strstr()` "finds the
  first occurrence", but it finds one only at the first `'\r'`: behind it the sum it
  compares by leaves the `'\r'` of `"\r\n"` out (and, where char is signed, is right for a
  `'\r'` before 0xFD). No line of the protocol has a `'\r'` in it, and the search always
  starts in a line, so that no reply is affected. `LineEnd` models the first `'\r'` only.
* parser: lines longer than 4096 bytes meet finding 4 in one part; with 16 frames on the
  stack the pop writes behind it.
* cache: two savers may write their batches in the opposite order of their lootings.
* list: a `SetCAS` executed again answers false to the client it has locked for, so
  that the lock stays with nobody who knows; the counting calls executed again count
  twice, and taking n off a mark that is not there makes it n; plain pushes and
  pops bypass the dirty flag; a lost answer to `PopAll` loses the items; `Clear()`
  deletes the marks with the list.
* observers: detaching what is not attached takes away someone else's subscription;
  registrations marked deleted stay until a message comes; a callback that attaches
  a new observer resizes the vector under the loop.
* ranking: `Clear()` passes one key to a script that reads three and always fails, with
  finding 2 (`RedisRankingProxy.cpp:107`).

## 7. Not modelled

* `RedisRankingProxy`: each method is one command with no state of its own; `Service`:
  owns a client and a subscriber that share nothing, each of which is shut down in its
  own model; the RDB parser: one call that decodes one buffer, a pure conversion over
  thousands of inputs and better served by tests.
* Vendored and unused code, which is most of the repository's lines: kj (twice, in
  `include/` and `src/`), the SPSC queue, printf, memcpy, crc and lzf. The models
  use kj's event loop and the queue by what this code relies on. This is why the mapped
  lines are a small part of all lines: the core that keeps state is a few thousand.
* The text of commands and typed wrappers; name resolution; real time (a timer goes off
  some time after it is armed); short writes; memory pools; the crash log; weaker orders
  of memory than sequential consistency; the destruction of objects; a connection so old
  that the server executes what is left in it after the next connection's commands.
  AUTH is treated as one of the connection's own commands: it has no callback and is
  answered like a script load that is not refused.
* Callbacks that change the vector they are called from, where C++ leaves the
  behaviour undefined and the code leaves the care to its callers.

## 8. Plan

Done: all components with state that is not a single call's (sections 2 and 3), the
theorems of section 5. What is left, in this order:

1. A cache with two savers, and the caller's rule under which their batches cannot pass
   each other.
2. The parser's memory pools: the depth of the stack and the chunks of long lines.
