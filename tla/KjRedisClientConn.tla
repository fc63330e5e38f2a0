-------------------------- MODULE KjRedisClientConn --------------------------
(***************************************************************************)
(* One client connection: KjRedisClientConn with the KjRedisTcpConn it     *)
(* owns (src/io), as they run on the kj event loop of the client's worker  *)
(* thread, against a Redis server reached over TCP.                        *)
(*                                                                         *)
(* Every action is one callback of that event loop, run to its end (the    *)
(* loop has one thread), or one step of the network or of the server.  A   *)
(* task of the TaskSet that waits is a flag or a counter; an exception     *)
(* that leaves a task reaches taskFailed, which puts one more run of its   *)
(* evalLater function on the queue.                                        *)
(*                                                                         *)
(* Bytes are abstracted to whole commands and whole replies.  TCP may cut  *)
(* the replies into chunks anywhere, and OnClientReceive handles every     *)
(* complete reply of a chunk in one loop: since nothing else of the        *)
(* connection runs between two rounds of that loop, a chunk of n replies   *)
(* behaves as n chunks of one, and an action handles one reply.  When a    *)
(* round throws, the replies behind it in the chunk are discarded: here    *)
(* the read task is gone, nothing reads them, and the reset drops them.    *)
(***************************************************************************)
EXTENDS CmdPipeline

CONSTANTS
    InitNum,      \* how many pipelines Init() builds (a subscriber without password: none)
    BuiltNums,    \* the numbers of commands a caller's pipeline may have
    Rejected,     \* serial numbers of the pipelines Redis always answers with an error
    MaxCommits,   \* bound: pipelines handed to the connection
    MaxFaults     \* bound: faults of the network and passing errors of the server

ASSUME InitNumAssumption == InitNum \in Nat
ASSUME BuiltNumsAssumption == BuiltNums \subseteq Nat
ASSUME RejectedAssumption == Rejected \subseteq Nat \ {0}
ASSUME BoundsAssumption == MaxCommits \in Nat /\ MaxFaults \in Nat

VARIABLES
    \* members of KjRedisClientConn
    dqCommon,             \* _dqCommon: pipelines sent or to be sent, in order
    committing_num,       \* _committing_num
    bDelayReconnecting,   \* _bDelayReconnecting
    \* members of KjRedisTcpConn
    bConnected,           \* _bConnected
    stream,               \* whether _stream is non-null
    \* tasks on the event loop
    connectTask,          \* a Connect or Reconnect is in flight
    readTask,             \* the AsyncReadLoop is alive
    delayTasks,           \* timers of DelayReconnect() (3 s) that are armed
    commitLoops,          \* CommitLoop timers (1 s) that are armed
    failures,             \* evalLater functions of taskFailed still to run
    \* the TCP connection behind the stream, and the server at its other end
    link,                 \* the connection is up
    requests,             \* pipelines written and not yet wholly executed
    replies,              \* replies on their way to the client
    \* the caller's side
    nextSn,               \* serial number of the last pipeline handed over
    completed,            \* history: what was passed to which reply callback
    faults                \* faults so far, up to MaxFaults

tcpVars    == <<bConnected, stream, connectTask>>
delayVars  == <<bDelayReconnecting, delayTasks>>
serverVars == <<link, requests, replies>>
connVars   == <<dqCommon, committing_num, delayVars, tcpVars, readTask,
                commitLoops, failures, serverVars, completed, faults>>
vars       == <<connVars, nextSn>>

-----------------------------------------------------------------------------
(* Values.                                                                  *)

(* What a server says to one command: the answer, an error ("-ERR ..."), or,
   to a SCRIPT LOAD, an answer that is not the hash the caller configured. *)
ReplyKind == {"ok", "error", "badsha"}

(* The reply to command number idx of pipeline sn. *)
Reply == [sn : Nat, idx : Nat, kind : ReplyKind]

(* A pipeline on the wire, of which the server has executed `served` commands. *)
Request == [sn : Nat, built_num : Nat, served : Nat]

RequestOf(cp) == [sn |-> cp.sn, built_num |-> cp.built_num, served |-> 0]

(* One run of a caller's reply callback. *)
Completion == [sn : Nat, built_num : Nat, reply : Reply]

CompletionOf(cp, reply) == [sn |-> cp.sn, built_num |-> cp.built_num, reply |-> reply]

(* Init(): AUTH and the SCRIPT LOADs, one command each.  (AUTH, sent first when a
   password is set, has no callback: it is a SCRIPT LOAD that is never refused.) *)
dqInit == [i \in 1 .. InitNum |-> CreateCmdPipeline(0, 1)]

Init ==
    /\ dqCommon = <<>>
    /\ committing_num = 0
    /\ bDelayReconnecting = FALSE
    /\ bConnected = FALSE
    /\ stream = FALSE
    /\ connectTask = TRUE          \* Open() is called before the loop runs
    /\ readTask = FALSE
    /\ delayTasks = 0
    /\ commitLoops = 0
    /\ failures = 0
    /\ link = FALSE
    /\ requests = <<>>
    /\ replies = <<>>
    /\ nextSn = 0
    /\ completed = <<>>
    /\ faults = 0

Fault == faults < MaxFaults /\ faults' = faults + 1

-----------------------------------------------------------------------------
(* "++_committing_num" for each of n pipelines. *)
CommittedOnce(num, n) == IF n > 0 THEN num + 1 ELSE num     \* mutant: once per loop
Committed(num, n)     == num + n

(* CommitLoop() on a connection that counts as connected.  It writes every
   SENDING pipeline of dq, in order.  Write() does nothing on a null stream
   (open is FALSE) and may throw on a stream whose peer is gone (up is FALSE):
   then the pipelines before position i have been marked, the others have not,
   and the exception reaches taskFailed. *)
CommitWrites(dq, open, up) ==
    LET sending == Positions(dq, IsSending)
        written == Selected(dq, sending)
    IN  \/ /\ dqCommon' = Marked(dq, sending, COMMITTING)
           /\ committing_num' = Committed(committing_num, Cardinality(sending))
           /\ requests' = IF open /\ up
                          THEN requests \o [k \in DOMAIN written |-> RequestOf(written[k])]
                          ELSE requests
           /\ UNCHANGED failures
        \/ /\ open /\ ~up
           /\ \E i \in sending :
                LET before == {j \in sending : j < i}
                IN  /\ dqCommon' = Marked(dq, before, COMMITTING)
                    /\ committing_num' = Committed(committing_num, Cardinality(before))
           /\ failures' = failures + 1
           /\ UNCHANGED requests

(* Send() for every pipeline of a batch. *)
SentToFront(dq, batch) == Marked(batch, DOMAIN batch, SENDING) \o dq    \* mutant: emplace_front
Sent(dq, batch)        == dq \o Marked(batch, DOMAIN batch, SENDING)

(* Send() for every pipeline of the batch the worker has just dequeued, then
   Commit().  Before the first connection CommitLoop() only arms a timer. *)
SendAndCommit(batch) ==
    LET sent == Sent(dqCommon, batch)
    IN  /\ \/ /\ bConnected
              /\ CommitWrites(sent, stream, link)
              /\ UNCHANGED commitLoops
           \/ /\ ~bConnected
              /\ dqCommon' = sent
              /\ commitLoops' = commitLoops + 1
              /\ UNCHANGED <<committing_num, requests, failures>>
        /\ UNCHANGED <<delayVars, tcpVars, readTask, link, replies, completed, faults>>

(* The 1 s timer of CommitLoop(): it arms itself again (a step that changes
   nothing) until the connection has been made once. *)
CommitLoopTimer ==
    /\ commitLoops > 0
    /\ bConnected
    /\ commitLoops' = commitLoops - 1
    /\ CommitWrites(dqCommon, stream, link)
    /\ UNCHANGED <<delayVars, tcpVars, readTask, link, replies, nextSn, completed, faults>>

-----------------------------------------------------------------------------
(* Connecting.                                                              *)

(* "resending": everything in the deque is to be written again. *)
ResentInit(dq) == Marked(dq, 1 .. InitNum, SENDING)    \* mutant: the callers' pipelines are not
Resent(dq)     == Marked(dq, DOMAIN dq, SENDING)

(* StartConnect()'s continuation and OnClientConnect(): the read loop starts,
   the deque is rebuilt, everything in it is to be sent again, and Commit()
   sends it.  The peer may close the connection at once (~up). *)
ConnectSucceeds ==
    /\ connectTask
    /\ connectTask' = FALSE
    /\ bConnected' = TRUE
    /\ stream' = TRUE
    /\ readTask' = TRUE
    /\ \/ link' = TRUE /\ UNCHANGED faults
       \/ link' = FALSE /\ Fault
    /\ CommitWrites(Resent(Rebuilt(dqInit, dqCommon)), TRUE, link')
    /\ UNCHANGED <<delayVars, commitLoops, replies, nextSn, completed>>

(* The same, when the first read of StartReadOp() throws: OnClientConnect()
   is left before it touches the deque, but the stream is set. *)
ConnectThenReadThrows ==
    /\ connectTask
    /\ Fault
    /\ connectTask' = FALSE
    /\ bConnected' = TRUE
    /\ stream' = TRUE
    /\ link' = FALSE
    /\ failures' = failures + 1
    /\ UNCHANGED <<dqCommon, committing_num, delayVars, readTask,
                   commitLoops, requests, replies, nextSn, completed>>

ConnectFails ==
    /\ connectTask
    /\ Fault
    /\ connectTask' = FALSE
    /\ failures' = failures + 1
    /\ UNCHANGED <<dqCommon, committing_num, delayVars, bConnected, stream,
                   readTask, commitLoops, serverVars, nextSn, completed>>

-----------------------------------------------------------------------------
(* Receiving: the rounds of OnClientReceive()'s loop.                       *)

HasReply == readTask /\ replies # <<>>

(* An exception leaves the read loop: the task is over, taskFailed runs. *)
ReadTaskThrows == readTask' = FALSE /\ failures' = failures + 1

(* The checks before a reply is counted. *)
IsExpected ==
    /\ committing_num > 0
    /\ dqCommon # <<>>
    /\ Head(dqCommon).state >= COMMITTING

(* The front pipeline once its reply is counted. *)
Counted == [Head(dqCommon) EXCEPT !.processed_num = @ + 1, !.state = PROCESSING]

(* Whether the counted reply is taken for the tail reply. *)
IsTail == Counted.processed_num >= Counted.built_num

receiveFrame == <<delayVars, tcpVars, commitLoops, link, requests, nextSn, faults>>

(* reply.is_error(): thrown before the pipeline is looked at. *)
ReceiveError ==
    /\ HasReply
    /\ Head(replies).kind = "error"
    /\ replies' = Tail(replies)
    /\ ReadTaskThrows
    /\ UNCHANGED <<dqCommon, committing_num, completed, receiveFrame>>

(* "got reply but the cmd pipeline is already discarded" or "in a corrupted
   state". *)
ReceiveUnexpected ==
    /\ HasReply
    /\ Head(replies).kind # "error"
    /\ ~IsExpected
    /\ replies' = Tail(replies)
    /\ ReadTaskThrows
    /\ UNCHANGED <<dqCommon, committing_num, completed, receiveFrame>>

(* A non-tail reply is skipped. *)
ReceiveNonTail ==
    /\ HasReply
    /\ Head(replies).kind # "error"
    /\ IsExpected
    /\ ~IsTail
    /\ replies' = Tail(replies)
    /\ dqCommon' = <<Counted>> \o Tail(dqCommon)
    /\ UNCHANGED <<committing_num, readTask, failures, completed, receiveFrame>>

(* The script-load callback of Init() does not get the hash it wants. *)
IsRefused ==
    Head(dqCommon).sn = 0 /\ (Head(replies).kind # "ok" \/ Head(replies).sn # 0)

(* It throws, and the pipeline is not popped. *)
ReceiveBadSha ==
    /\ HasReply
    /\ Head(replies).kind # "error"
    /\ IsExpected
    /\ IsTail
    /\ IsRefused
    /\ replies' = Tail(replies)
    /\ dqCommon' = <<Counted>> \o Tail(dqCommon)
    /\ ReadTaskThrows
    /\ UNCHANGED <<committing_num, completed, receiveFrame>>

(* Process over: the reply goes to the callback, the pipeline is popped.  The
   callbacks of the connection's own pipelines leave no trace. *)
ReceiveTail ==
    /\ HasReply
    /\ Head(replies).kind # "error"
    /\ IsExpected
    /\ IsTail
    /\ ~IsRefused
    /\ replies' = Tail(replies)
    /\ dqCommon' = Tail(dqCommon)
    /\ committing_num' = committing_num - 1
    /\ completed' = IF Head(dqCommon).sn = 0
                    THEN completed
                    ELSE Append(completed, CompletionOf(Head(dqCommon), Head(replies)))
    /\ UNCHANGED <<readTask, failures, receiveFrame>>

(* The stream ends or breaks, and everything that arrived has been read. *)
ReadFails ==
    /\ readTask
    /\ ~link
    /\ replies = <<>>
    /\ ReadTaskThrows
    /\ UNCHANGED <<dqCommon, committing_num, replies, completed, receiveFrame>>

-----------------------------------------------------------------------------
(* Failure and reconnection.                                                *)

(* _builder.Reset(): no reply of the old connection is left to be popped. *)
BuilderKept  == UNCHANGED replies      \* mutant: Reset() is not called
BuilderReset == replies' = <<>>

(* DelayReconnect(). *)
DelayAlways == bDelayReconnecting' = TRUE /\ delayTasks' = delayTasks + 1     \* mutant: flag not tested
DelayReconnect ==
    /\ bDelayReconnecting' = TRUE
    /\ delayTasks' = IF bDelayReconnecting THEN delayTasks ELSE delayTasks + 1

(* The evalLater function of taskFailed(): FlushStream() drops the stream and
   fulfils the disconnect promise, which ends the read loop and any connect in
   flight; the builder is reset; every pipeline goes back to the queue; and
   DelayReconnect() arms its timer unless it is armed. *)
ResetAfterFailure ==
    /\ failures > 0
    /\ failures' = failures - 1
    /\ stream' = FALSE
    /\ readTask' = FALSE
    /\ connectTask' = FALSE
    /\ link' = FALSE
    /\ requests' = <<>>
    /\ BuilderReset
    /\ dqCommon' = Marked(dqCommon, DOMAIN dqCommon, QUEUEING)
    /\ committing_num' = 0
    /\ DelayReconnect
    /\ UNCHANGED <<bConnected, commitLoops, nextSn, completed, faults>>

(* What the 3 s timer does to the flag. *)
FlagKept    == UNCHANGED bDelayReconnecting      \* mutant: it is never cleared
FlagCleared == bDelayReconnecting' = FALSE

(* The 3 s timer: Reconnect(). *)
DelayElapsed ==
    /\ delayTasks > 0
    /\ delayTasks' = delayTasks - 1
    /\ FlagCleared
    /\ connectTask' = TRUE
    /\ UNCHANGED <<dqCommon, committing_num, bConnected, stream, readTask,
                   commitLoops, failures, serverVars, nextSn, completed, faults>>

-----------------------------------------------------------------------------
(* The network and the server.                                              *)

(* The connection breaks: what the server has not read is lost, and of the
   replies under way a prefix still arrives. *)
LoseLink ==
    /\ link
    /\ Fault
    /\ link' = FALSE
    /\ requests' = <<>>
    /\ \E n \in 0 .. Len(replies) : replies' = SubSeq(replies, 1, n)
    /\ UNCHANGED <<dqCommon, committing_num, delayVars, tcpVars, readTask,
                   commitLoops, failures, nextSn, completed>>

(* The server executes the next command and answers it.  A command of a
   rejected pipeline is always answered with an error; any other may be, for
   the time being (-LOADING, -BUSY). *)
ServerExecutes ==
    /\ link
    /\ requests # <<>>
    /\ LET r    == Head(requests)
           idx  == r.served + 1
           rest == IF idx >= r.built_num THEN Tail(requests)
                   ELSE <<[r EXCEPT !.served = idx]>> \o Tail(requests)
       IN  IF r.built_num = 0       \* nothing was written for it
           THEN requests' = Tail(requests) /\ UNCHANGED <<replies, faults>>
           ELSE /\ requests' = rest
                /\ \E kind \in ReplyKind :
                     /\ replies' = Append(replies, [sn |-> r.sn, idx |-> idx, kind |-> kind])
                     /\ r.sn \in Rejected => kind = "error"
                     /\ kind = "badsha" => r.sn = 0
                     /\ IF kind = "ok" \/ r.sn \in Rejected THEN UNCHANGED faults ELSE Fault
    /\ UNCHANGED <<dqCommon, committing_num, delayVars, tcpVars, readTask,
                   commitLoops, failures, link, nextSn, completed>>

-----------------------------------------------------------------------------
(* The component by itself: a caller hands over pipelines whenever it likes. *)

(* What the event loop and its timers do by themselves, receiving apart. *)
LoopStep ==
    \/ CommitLoopTimer
    \/ ConnectSucceeds
    \/ ReadFails
    \/ ResetAfterFailure \/ DelayElapsed

OnClientReceive ==
    ReceiveError \/ ReceiveUnexpected \/ ReceiveNonTail \/ ReceiveBadSha \/ ReceiveTail

ConnProgress == LoopStep \/ OnClientReceive \/ ServerExecutes

(* What goes wrong. *)
ConnFault == ConnectThenReadThrows \/ ConnectFails \/ LoseLink

(* read_pipe_loop() finds n new pipelines in the work queue. *)
HandOver ==
    \E n \in 1 .. (MaxCommits - nextSn) : \E built \in [1 .. n -> BuiltNums] :
        /\ SendAndCommit([k \in 1 .. n |-> CreateCmdPipeline(nextSn + k, built[k])])
        /\ nextSn' = nextSn + n

Next ==
    \/ HandOver
    \/ ConnProgress
    \/ ConnFault

Spec == Init /\ [][Next]_vars

(* The event loop does not stop while a callback is due, its timers go off, and
   the server answers what it receives: as long as one of these can happen, one
   of them does.  Nothing is assumed of the caller or of the faults, and not
   even that the event loop is fair to each of its tasks. *)
FairSpec == Spec /\ WF_vars(ConnProgress)

-----------------------------------------------------------------------------
(* Properties.                                                              *)

(* Every variable has its type. *)
TypeOK ==
    /\ dqCommon \in Seq(Pipeline)
    /\ committing_num \in Int
    /\ bDelayReconnecting \in BOOLEAN
    /\ bConnected \in BOOLEAN
    /\ stream \in BOOLEAN
    /\ connectTask \in BOOLEAN
    /\ readTask \in BOOLEAN
    /\ delayTasks \in Nat
    /\ commitLoops \in Nat
    /\ failures \in Nat
    /\ link \in BOOLEAN
    /\ requests \in Seq(Request)
    /\ replies \in Seq(Reply)
    /\ nextSn \in Nat
    /\ completed \in Seq(Completion)
    /\ faults \in Nat

(* Reply callbacks run in the order of the commits, each at most once, however
   often the connection is lost and the pipelines are sent again: resending in
   OnClientConnect neither reorders nor repeats what is already over. *)
CallbacksInOrder == \A i \in DOMAIN completed : completed[i].sn = i

(* No pipeline is lost or duplicated: _dqCommon always holds what is left of the
   connection's own pipelines and then exactly the callers' unanswered ones, in
   order -- through the rebuilding in OnClientConnect, the resets, and
   callbacks that throw half way. *)
NothingLost == HoldsUnanswered(dqCommon, Len(completed), nextSn)

(* A caller's callback gets the reply of the last command of its own pipeline
   ("it is tail reply(the last reply of the cmd pipeline), run callback on it"). *)
TailReplyDelivered ==
    \A i \in DOMAIN completed :
        /\ completed[i].reply.sn = completed[i].sn
        /\ completed[i].reply.idx = completed[i].built_num

(* A caller's pipeline some of whose replies have been counted, but not the last. *)
HalfAnswered == \E i \in DOMAIN dqCommon :
                    dqCommon[i].sn > 0 /\ dqCommon[i].processed_num > 0

(* The behaviours in which OnClientConnect() never sends such a pipeline again.  Of
   pipelines that have commands, those are the only ones that can part callers from
   their replies (_processed_num is not reset): here connections are lost between two
   pipelines, or before the first reply of one. *)
UninterruptedSpec == Init /\ [][Next /\ ~(ConnectSucceeds /\ HalfAnswered)]_vars

(* _committing_num never falls below the number of pipelines that are committed
   or being processed, so that its check cannot refuse their replies. *)
CommittingNumCovers ==
    committing_num >= Cardinality({i \in DOMAIN dqCommon : dqCommon[i].state >= COMMITTING})

(* The connection never dies quietly: something is always on its way that will
   make it work, or notice that it does not. *)
SomeTaskPending == connectTask \/ readTask \/ delayTasks > 0 \/ failures > 0

(* There is one connection attempt, one read loop or one reconnect timer at a
   time, and never two of them: a second stream would orphan the first, and a
   second read loop would share its buffer. *)
OneTaskAtATime ==
    delayTasks + (IF connectTask THEN 1 ELSE 0)
        + (IF readTask THEN 1 ELSE 0) <= 1

(* While a link works, the replies under way and then the commands not yet executed
   are, in order, exactly those the committed pipelines wait for: nothing is written
   twice on one connection, nothing is skipped.  (Of pipelines of one command: of the
   others, those resent half way are answered twice.) *)
WireMatchesDeque ==
    link /\ readTask =>
        LET waiting == Selected(dqCommon, Positions(dqCommon, LAMBDA cp : cp.state >= COMMITTING))
        IN  [k \in DOMAIN replies |-> <<replies[k].sn, replies[k].idx>>]
              \o [k \in DOMAIN requests |-> <<requests[k].sn, requests[k].served + 1>>]
            = [k \in DOMAIN waiting |-> <<waiting[k].sn, waiting[k].processed_num + 1>>]

Told == [i \in DOMAIN completed |->
            [sn  |-> completed[i].sn,
             own |-> /\ completed[i].reply.sn = completed[i].sn
                     /\ completed[i].reply.idx = completed[i].built_num]]

Promise == INSTANCE ReplyService WITH asked <- nextSn, told <- Told

(* The connection keeps the promise of ReplyService: in order, once, with the own
   reply, and in the end. *)
KeepsPromise == Promise!FairSpec

OfCallers(s) == Selected(s, Positions(s, LAMBDA x : x.sn > 0))
Waiting      == [k \in DOMAIN OfCallers(dqCommon) |-> OfCallers(dqCommon)[k].sn]
Arriving     == IF readTask THEN OfCallers(replies) ELSE <<>>
Executed     == [k \in DOMAIN Arriving |-> [sn |-> Arriving[k].sn, kind |-> Arriving[k].kind]]

Server == INSTANCE AtLeastOnce WITH queue <- Waiting, served <- Executed

(* To the server the connection is AtLeastOnce: commands are executed in the order of
   the commits, and those executed again are, after any sequence of failures, a run
   that begins with the first unanswered one and leaves nothing out. *)
ResendsInOrder == Server!Spec

(* Every pipeline handed over is answered in the end. *)
EveryCommitAnswered ==
    \A n \in 1 .. MaxCommits : (nextSn >= n) ~> (Len(completed) >= n)

=============================================================================
