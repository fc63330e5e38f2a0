------------------------- MODULE RedisClient_proofs -------------------------
(***************************************************************************)
(* Proofs about the client, in two parts.                                  *)
(*                                                                         *)
(* Part 1, one connection (KjRedisClientConn), for every number of its own *)
(* commands, of commits, of commands in a pipeline and of faults.  The     *)
(* inductive invariants, each with the same three facts (it holds          *)
(* initially, every action keeps it, it implies the property):             *)
(*   TaskInv   which tasks are on the event loop; by itself                *)
(*   TypeOK    the types; by itself                                        *)
(*   QueueInv  what the deque holds; on top of TypeOK                      *)
(*   CommittingNumCovers  the counter; on top of TypeOK                    *)
(*   SingleInv what is under way on a link; on top of TypeOK and TaskInv,  *)
(*             and only for pipelines of one command                       *)
(*   LineInv   the same for pipelines of any length, of the behaviours in  *)
(*             which none is sent again half answered; on top of both      *)
(* Its end shows the connection to implement ReplyService (without its     *)
(* fairness) and AtLeastOnce, on top of all of them.                       *)
(*                                                                         *)
(* Part 2, the client (RedisClient): the main thread, the two queues and   *)
(* the connection on the worker thread, for every interleaving of the      *)
(* threads.  The connection's invariants carry over, since its callbacks   *)
(* are the same steps here; to them come                                   *)
(*   NoLostWakeup  by itself                                               *)
(*   OrderInv      what the deque and the work queue hold together         *)
(*   OwnerInv      which blocking calls are still unanswered; on top of    *)
(*                 OrderInv                                                *)
(*   PostInv       what the trunk queue and the promise hold; on top of    *)
(*                 both                                                    *)
(*   OwnInv        whose replies they are; on top of OrderInv, and only    *)
(*                 for pipelines of one command                            *)
(***************************************************************************)
EXTENDS RedisClient, CmdPipeline_proofs

-----------------------------------------------------------------------------
(* PART 1: the connection.                                                  *)

-----------------------------------------------------------------------------
(* The tasks.  SomeTaskPending and OneTaskAtATime are not inductive: the flag
   bDelayReconnecting has to be tied to the timer it stands for.             *)

TaskInv ==
    /\ bDelayReconnecting \in BOOLEAN
    /\ connectTask \in BOOLEAN
    /\ readTask \in BOOLEAN
    /\ failures \in Nat
    /\ delayTasks = IF bDelayReconnecting THEN 1 ELSE 0
    /\ connectTask => ~readTask /\ delayTasks = 0
    /\ readTask => delayTasks = 0
    /\ SomeTaskPending

taskVars == <<bDelayReconnecting, connectTask, readTask, failures, delayTasks>>

(* What CommitLoop() does to the tasks: at most one more failure. *)
LEMMA CommitWritesFailures ==
    ASSUME failures \in Nat, NEW dq, NEW open, NEW up, CommitWrites(dq, open, up)
    PROVE  failures' \in Nat /\ failures' >= failures
BY DEF CommitWrites

(* A step that at most adds failures and leaves the other tasks keeps TaskInv. *)
LEMMA TasksKept ==
    ASSUME TaskInv, failures' \in Nat, failures' >= failures,
           UNCHANGED <<bDelayReconnecting, delayTasks, connectTask, readTask>>
    PROVE  TaskInv'
BY DEF TaskInv, SomeTaskPending

(* Handing over pipelines does. *)
LEMMA SendAndCommitTasks ==
    ASSUME TaskInv, NEW batch, SendAndCommit(batch)
    PROVE  TaskInv'
<1>1. failures \in Nat
  BY DEF TaskInv
<1>2. UNCHANGED <<bDelayReconnecting, delayTasks, connectTask, readTask>>
  BY DEF SendAndCommit, delayVars, tcpVars
<1>3. failures' \in Nat /\ failures' >= failures
  BY <1>1, CommitWritesFailures DEF SendAndCommit
<1> QED
  BY <1>2, <1>3, TasksKept

(* It holds before the first connection attempt. *)
LEMMA TaskInvInit == Init => TaskInv
<1> SUFFICES ASSUME Init PROVE TaskInv
  OBVIOUS
<1>1. connectTask /\ ~readTask /\ ~bDelayReconnecting
  BY DEF Init
<1>2. bDelayReconnecting \in BOOLEAN /\ connectTask \in BOOLEAN /\ readTask \in BOOLEAN
  BY DEF Init
<1>3. failures = 0 /\ delayTasks = 0
  BY DEF Init
<1> QED
  BY <1>1, <1>2, <1>3 DEF TaskInv, SomeTaskPending

(* Every callback of the event loop keeps it. *)
LEMMA TaskInvNext == TaskInv /\ [Next]_vars => TaskInv'
<1> SUFFICES ASSUME TaskInv, [Next]_vars PROVE TaskInv'
  OBVIOUS
<1>1. failures \in Nat
  BY DEF TaskInv
<1>2. CASE HandOver
  BY <1>2, SendAndCommitTasks DEF HandOver
<1>3. CASE CommitLoopTimer
  <2>1. failures' \in Nat /\ failures' >= failures
    BY <1>3, <1>1, CommitWritesFailures DEF CommitLoopTimer
  <2> QED
    BY <1>3, <2>1, TasksKept DEF CommitLoopTimer, delayVars, tcpVars
<1>4. CASE ConnectSucceeds
  <2>1. failures' \in Nat
    BY <1>4, <1>1, CommitWritesFailures DEF ConnectSucceeds
  <2> QED
    BY <1>4, <2>1 DEF ConnectSucceeds, TaskInv, SomeTaskPending, delayVars
<1>5. CASE ConnectThenReadThrows
  <2>1. ~connectTask' /\ connectTask' \in BOOLEAN
    BY <1>5 DEF ConnectThenReadThrows
  <2>2. failures' = failures + 1 /\ UNCHANGED <<bDelayReconnecting, delayTasks, readTask>>
    BY <1>5 DEF ConnectThenReadThrows, delayVars
  <2> QED
    BY <2>1, <2>2 DEF TaskInv, SomeTaskPending
<1>6. CASE ConnectFails
  <2>1. ~connectTask' /\ connectTask' \in BOOLEAN
    BY <1>6 DEF ConnectFails
  <2>2. failures' = failures + 1 /\ UNCHANGED <<bDelayReconnecting, delayTasks, readTask>>
    BY <1>6 DEF ConnectFails, delayVars
  <2> QED
    BY <2>1, <2>2 DEF TaskInv, SomeTaskPending
<1>7. CASE ReceiveError \/ ReceiveUnexpected \/ ReceiveBadSha \/ ReadFails
  <2>1. ~readTask' /\ readTask' \in BOOLEAN
    BY <1>7 DEF ReceiveError, ReceiveUnexpected, ReceiveBadSha, ReadFails, ReadTaskThrows
  <2>2. failures' = failures + 1 /\ UNCHANGED <<bDelayReconnecting, delayTasks, connectTask>>
    BY <1>7 DEF ReceiveError, ReceiveUnexpected, ReceiveBadSha, ReadFails, ReadTaskThrows,
                receiveFrame, delayVars, tcpVars
  <2> QED
    BY <2>1, <2>2 DEF TaskInv, SomeTaskPending
<1>8. CASE ReceiveNonTail \/ ReceiveTail
  BY <1>8, <1>1, TasksKept DEF ReceiveNonTail, ReceiveTail, receiveFrame, delayVars, tcpVars
<1>9. CASE ResetAfterFailure
  <2>1. /\ ~readTask' /\ readTask' \in BOOLEAN
        /\ ~connectTask' /\ connectTask' \in BOOLEAN
    BY <1>9 DEF ResetAfterFailure
  <2>2. bDelayReconnecting' /\ bDelayReconnecting' \in BOOLEAN
    BY <1>9 DEF ResetAfterFailure, DelayReconnect
  <2>3. failures' \in Nat /\ delayTasks' = 1
    BY <1>9 DEF ResetAfterFailure, DelayReconnect, TaskInv
  <2> QED
    BY <2>1, <2>2, <2>3 DEF TaskInv, SomeTaskPending
<1>10. CASE DelayElapsed
  <2>1. ~bDelayReconnecting' /\ bDelayReconnecting' \in BOOLEAN
    BY <1>10 DEF DelayElapsed, FlagCleared
  <2>2. connectTask' /\ connectTask' \in BOOLEAN
    BY <1>10 DEF DelayElapsed
  <2>3. ~readTask' /\ readTask' \in BOOLEAN /\ delayTasks' = 0 /\ failures' \in Nat
    BY <1>10 DEF DelayElapsed, TaskInv
  <2> QED
    BY <2>1, <2>2, <2>3 DEF TaskInv, SomeTaskPending
<1>11. CASE LoseLink \/ ServerExecutes
  BY <1>11, <1>1, TasksKept DEF LoseLink, ServerExecutes, delayVars, tcpVars
<1>12. CASE UNCHANGED vars
  BY <1>12, <1>1, TasksKept DEF vars, connVars, delayVars, tcpVars
<1> QED
  BY <1>2, <1>3, <1>4, <1>5, <1>6, <1>7, <1>8, <1>9, <1>10, <1>11, <1>12
     DEF Next, ConnProgress, LoopStep, OnClientReceive, ConnFault

(* Hence it always holds. *)
LEMMA TaskInvAlways == Spec => []TaskInv
BY TaskInvInit, TaskInvNext, PTL DEF Spec

(* The connection never dies quietly, whatever the network does: something is
   always due that will use it, make it, or notice that it is gone (taskFailed,
   DelayReconnect and OnClientConnect hand the duty to each other). *)
THEOREM AlwaysSomeTaskPending == Spec => []SomeTaskPending
<1>1. TaskInv => SomeTaskPending
  BY DEF TaskInv
<1> QED
  BY <1>1, TaskInvAlways, PTL

(* There are never two connection attempts, read loops or reconnect timers, nor
   two of different kinds: the flag of DelayReconnect() and the disconnect
   promise of FlushStream() are enough to exclude it. *)
THEOREM AlwaysOneTaskAtATime == Spec => []OneTaskAtATime
<1>1. TaskInv => OneTaskAtATime
  BY DEF TaskInv, OneTaskAtATime
<1> QED
  BY <1>1, TaskInvAlways, PTL

-----------------------------------------------------------------------------
(* Types.                                                                   *)

LEMMA WrittenType ==
    ASSUME NEW dq \in Seq(Pipeline)
    PROVE  LET written == Selected(dq, Positions(dq, IsSending))
           IN  [k \in DOMAIN written |-> RequestOf(written[k])] \in Seq(Request)
<1> DEFINE written == Selected(dq, Positions(dq, IsSending))
<1>1. Positions(dq, IsSending) \in SUBSET DOMAIN dq
  BY DEF Positions
<1>2. written \in Seq(Pipeline)
  BY <1>1, SelectedType
<1> HIDE DEF written
<1>3. Len(written) \in Nat /\ DOMAIN written = 1 .. Len(written)
  BY <1>2
<1>4. \A k \in 1 .. Len(written) : RequestOf(written[k]) \in Request
  <2>1. ASSUME NEW k \in 1 .. Len(written) PROVE RequestOf(written[k]) \in Request
    <3>1. written[k] \in Pipeline
      BY <1>2, <2>1, ElementOfSeq
    <3> QED
      BY <3>1 DEF RequestOf, Request, Pipeline
  <2> QED
    BY <2>1
<1>5. [k \in 1 .. Len(written) |-> RequestOf(written[k])] \in Seq(Request)
  BY <1>3, <1>4, IsASeq
<1> QED
  BY <1>3, <1>5 DEF written

(* What CommitLoop() leaves: the deque with some states set, and more requests. *)
LEMMA CommitWritesType ==
    ASSUME NEW dq \in Seq(Pipeline), NEW open, NEW up,
           committing_num \in Int, failures \in Nat, requests \in Seq(Request),
           CommitWrites(dq, open, up)
    PROVE  /\ \E S : dqCommon' = Marked(dq, S, COMMITTING)
           /\ dqCommon' \in Seq(Pipeline)
           /\ committing_num' \in Int
           /\ failures' \in Nat
           /\ requests' \in Seq(Request)
<1> DEFINE sending == Positions(dq, IsSending)
           written == Selected(dq, sending)
           sent    == [k \in DOMAIN written |-> RequestOf(written[k])]
<1>1. COMMITTING \in PipelineState
  BY DEF COMMITTING, PipelineState, QUEUEING, PROCESS_OVER
<1>2. Len(dq) \in Nat /\ DOMAIN dq = 1 .. Len(dq) /\ sending \in SUBSET (1 .. Len(dq))
  BY DEF Positions
<1>3. ASSUME NEW S \in SUBSET (1 .. Len(dq)) PROVE Cardinality(S) \in Nat
  BY <1>2, RankIsOnto
<1>4. sent \in Seq(Request)
  BY WrittenType
<1> HIDE DEF sending, sent
<1>5. \/ /\ dqCommon' = Marked(dq, sending, COMMITTING)
         /\ committing_num' = Committed(committing_num, Cardinality(sending))
         /\ requests' = IF open /\ up THEN requests \o sent ELSE requests
         /\ UNCHANGED failures
      \/ \E i \in sending :
            /\ dqCommon' = Marked(dq, {j \in sending : j < i}, COMMITTING)
            /\ committing_num' = Committed(committing_num, Cardinality({j \in sending : j < i}))
            /\ failures' = failures + 1
            /\ UNCHANGED requests
  BY DEF CommitWrites, sending, sent
<1>6. CASE /\ dqCommon' = Marked(dq, sending, COMMITTING)
           /\ committing_num' = Committed(committing_num, Cardinality(sending))
           /\ requests' = IF open /\ up THEN requests \o sent ELSE requests
           /\ UNCHANGED failures
  <2>1. dqCommon' \in Seq(Pipeline)
    BY <1>1, <1>6, MarkedType
  <2>2. requests \o sent \in Seq(Request)
    BY <1>4, ConcatProperties
  <2>3. committing_num' \in Int
    BY <1>2, <1>3, <1>6 DEF Committed
  <2> QED
    BY <1>6, <2>1, <2>2, <2>3
<1>7. ASSUME NEW i \in sending,
             dqCommon' = Marked(dq, {j \in sending : j < i}, COMMITTING),
             committing_num' = Committed(committing_num, Cardinality({j \in sending : j < i})),
             failures' = failures + 1,
             UNCHANGED requests
      PROVE  /\ \E S : dqCommon' = Marked(dq, S, COMMITTING)
             /\ dqCommon' \in Seq(Pipeline)
             /\ committing_num' \in Int
             /\ failures' \in Nat
             /\ requests' \in Seq(Request)
  <2> DEFINE before == {j \in sending : j < i}
  <2>1. before \in SUBSET (1 .. Len(dq))
    BY <1>2
  <2>2. Cardinality(before) \in Nat
    BY <1>3, <2>1
  <2>3. committing_num' \in Int
    BY <1>7, <2>2 DEF Committed
  <2>4. dqCommon' \in Seq(Pipeline)
    BY <1>1, <1>7, MarkedType
  <2>5. \E S : dqCommon' = Marked(dq, S, COMMITTING)
    BY <1>7
  <2>6. failures' \in Nat /\ requests' \in Seq(Request)
    BY <1>7
  <2> QED
    BY <2>3, <2>4, <2>5, <2>6
<1> QED
  BY <1>5, <1>6, <1>7

(* The pipelines the worker hands over. *)
LEMMA BatchType ==
    ASSUME nextSn \in Nat, MaxCommits \in Nat,
           NEW n \in 1 .. (MaxCommits - nextSn), NEW built \in [1 .. n -> BuiltNums],
           NEW batch, batch = [k \in 1 .. n |-> CreateCmdPipeline(nextSn + k, built[k])]
    PROVE  /\ batch \in Seq(Pipeline)
           /\ Len(batch) = n
           /\ \A k \in DOMAIN batch : batch[k].sn = nextSn + k
<1>1. n \in Nat
  OBVIOUS
<1>2. ASSUME NEW k \in 1 .. n
      PROVE  /\ CreateCmdPipeline(nextSn + k, built[k]) \in Pipeline
             /\ CreateCmdPipeline(nextSn + k, built[k]).sn = nextSn + k
  <2>1. nextSn + k \in Nat /\ built[k] \in Nat
    <3>1. nextSn + k \in Nat
      BY <1>1
    <3>2. built[k] \in BuiltNums
      OBVIOUS
    <3> QED
      BY <3>1, <3>2, BuiltNumsAssumption
  <2> QED
    BY <2>1 DEF CreateCmdPipeline, Pipeline, PipelineState, QUEUEING, PROCESS_OVER
<1>3. [k \in 1 .. n |-> CreateCmdPipeline(nextSn + k, built[k])] \in Seq(Pipeline)
  BY <1>1, <1>2, IsASeq
<1> QED
  BY <1>1, <1>2, <1>3

(* The connection's own pipelines are pipelines. *)
LEMMA InitPipelinesType ==
    dqInit \in Seq(Pipeline) /\ \A i \in DOMAIN dqInit : dqInit[i].sn = 0 /\ dqInit[i].state < PROCESS_OVER
<1>1. InitNum \in Nat
  BY InitNumAssumption
<1>2. CreateCmdPipeline(0, 1) \in Pipeline
  BY DEF CreateCmdPipeline, Pipeline, PipelineState, QUEUEING, PROCESS_OVER
<1>3. dqInit \in Seq(Pipeline)
  BY <1>1, <1>2, IsASeq DEF dqInit
<1>4. \A i \in 1 .. InitNum : dqInit[i].sn = 0 /\ dqInit[i].state < PROCESS_OVER
  BY DEF dqInit, CreateCmdPipeline, QUEUEING, PROCESS_OVER
<1> QED
  BY <1>3, <1>4 DEF dqInit

(* The types hold initially. *)
LEMMA TypeInit == Init => TypeOK
<1> SUFFICES ASSUME Init PROVE TypeOK
  OBVIOUS
<1>1. /\ bDelayReconnecting \in BOOLEAN /\ bConnected \in BOOLEAN /\ stream \in BOOLEAN
      /\ connectTask \in BOOLEAN /\ readTask \in BOOLEAN /\ link \in BOOLEAN
  BY DEF Init
<1>2. /\ dqCommon \in Seq(Pipeline) /\ requests \in Seq(Request)
      /\ replies \in Seq(Reply) /\ completed \in Seq(Completion)
  BY EmptySeq DEF Init
<1>3. /\ committing_num \in Int /\ delayTasks \in Nat /\ commitLoops \in Nat
      /\ failures \in Nat /\ nextSn \in Nat /\ faults \in Nat
  BY DEF Init
<1> QED
  BY <1>1, <1>2, <1>3 DEF TypeOK

(* Counting a reply, or a command executed, leaves a pipeline, or a request. *)
LEMMA FrontCounted ==
    ASSUME NEW cp \in Pipeline, NEW st \in PipelineState
    PROVE  LET counted == [cp EXCEPT !.processed_num = cp.processed_num + 1, !.state = st]
           IN  counted \in Pipeline /\ counted.sn = cp.sn /\ counted.state = st
<1>1. cp.processed_num + 1 \in Nat
  BY DEF Pipeline
<1>2. ASSUME NEW x \in Nat
      PROVE  /\ [cp EXCEPT !.processed_num = x, !.state = st] \in Pipeline
             /\ [cp EXCEPT !.processed_num = x, !.state = st].sn = cp.sn
             /\ [cp EXCEPT !.processed_num = x, !.state = st].state = st
  BY DEF Pipeline
<1> QED
  BY <1>1, <1>2

(* Serving one more command of a request keeps it a request. *)
LEMMA OneServed ==
    ASSUME NEW r \in Request
    PROVE  [r EXCEPT !.served = r.served + 1] \in Request
BY DEF Request

(* The front pipeline, when there is one, with one more reply counted. *)
LEMMA CountedType ==
    ASSUME TypeOK, dqCommon # <<>>
    PROVE  /\ Head(dqCommon) \in Pipeline
           /\ Counted \in Pipeline
           /\ Counted.sn = Head(dqCommon).sn
           /\ Counted.state = PROCESSING
           /\ Tail(dqCommon) \in Seq(Pipeline)
           /\ <<Counted>> \o Tail(dqCommon) \in Seq(Pipeline)
<1>1. Head(dqCommon) \in Pipeline /\ Tail(dqCommon) \in Seq(Pipeline)
  BY HeadTailProperties DEF TypeOK
<1>2. /\ Counted \in Pipeline
      /\ Counted.sn = Head(dqCommon).sn
      /\ Counted.state = PROCESSING
  <2> DEFINE cp == Head(dqCommon)
  <2>1. Counted = [cp EXCEPT !.processed_num = cp.processed_num + 1, !.state = PROCESSING]
    BY DEF Counted
  <2>2. cp \in Pipeline
    BY <1>1
  <2>3. PROCESSING \in PipelineState
    BY DEF PipelineState, QUEUEING, PROCESSING, PROCESS_OVER
  <2> QED
    BY <2>1, <2>2, <2>3, FrontCounted
<1>3. <<Counted>> \in Seq(Pipeline)
  BY <1>2
<1> QED
  BY <1>1, <1>2, <1>3, ConcatProperties

(* Send() for a batch leaves a longer deque, whose new pipelines are to be sent. *)
LEMMA SentType ==
    ASSUME NEW dq \in Seq(Pipeline), NEW batch \in Seq(Pipeline)
    PROVE  LET marked == Marked(batch, DOMAIN batch, SENDING)
           IN  /\ marked \in Seq(Pipeline) /\ Len(marked) = Len(batch)
               /\ \A k \in DOMAIN marked : /\ marked[k].sn = batch[k].sn
                                          /\ marked[k].state = SENDING
               /\ Sent(dq, batch) = dq \o marked
               /\ Sent(dq, batch) \in Seq(Pipeline)
<1>1. SENDING \in PipelineState
  BY DEF SENDING, PipelineState, QUEUEING, PROCESS_OVER
<1>2. Sent(dq, batch) = dq \o Marked(batch, DOMAIN batch, SENDING)
  BY DEF Sent
<1>3. /\ Marked(batch, DOMAIN batch, SENDING) \in Seq(Pipeline)
      /\ Len(Marked(batch, DOMAIN batch, SENDING)) = Len(batch)
      /\ DOMAIN Marked(batch, DOMAIN batch, SENDING) = DOMAIN batch
      /\ \A k \in DOMAIN batch :
            /\ Marked(batch, DOMAIN batch, SENDING)[k].sn = batch[k].sn
            /\ Marked(batch, DOMAIN batch, SENDING)[k].state = SENDING
  BY <1>1, MarkedType
<1> QED
  BY <1>2, <1>3, ConcatProperties

(* Handing over pipelines keeps the types. *)
LEMMA SendAndCommitType ==
    ASSUME TypeOK, NEW batch \in Seq(Pipeline), SendAndCommit(batch), nextSn' \in Nat
    PROVE  TypeOK'
<1> DEFINE sent == Sent(dqCommon, batch)
<1>1. sent \in Seq(Pipeline)
  BY SentType DEF TypeOK
<1>2. /\ dqCommon' \in Seq(Pipeline) /\ committing_num' \in Int /\ failures' \in Nat
      /\ requests' \in Seq(Request) /\ commitLoops' \in Nat
  <2> HIDE DEF sent
  <2>1. CASE CommitWrites(sent, stream, link) /\ UNCHANGED commitLoops
    BY <1>1, <2>1, CommitWritesType DEF TypeOK
  <2>2. CASE /\ dqCommon' = sent
             /\ commitLoops' = commitLoops + 1
             /\ UNCHANGED <<committing_num, requests, failures>>
    BY <1>1, <2>2 DEF TypeOK
  <2> QED
    BY <2>1, <2>2 DEF SendAndCommit, sent
<1>3. UNCHANGED <<bDelayReconnecting, delayTasks, bConnected, stream, connectTask, readTask,
                  link, replies, completed, faults>>
  BY DEF SendAndCommit, delayVars, tcpVars
<1> QED
  BY <1>2, <1>3 DEF TypeOK

(* Every callback keeps the types. *)
LEMMA TypeNext == TypeOK /\ [Next]_vars => TypeOK'
<1> SUFFICES ASSUME TypeOK, [Next]_vars PROVE TypeOK'
  OBVIOUS
<1> USE DEF delayVars, tcpVars, serverVars, receiveFrame
<1>1. CASE HandOver
  <2>1. PICK n \in 1 .. (MaxCommits - nextSn) : \E built \in [1 .. n -> BuiltNums] :
          /\ SendAndCommit([k \in 1 .. n |-> CreateCmdPipeline(nextSn + k, built[k])])
          /\ nextSn' = nextSn + n
    BY <1>1 DEF HandOver
  <2>2. PICK built \in [1 .. n -> BuiltNums] :
          /\ SendAndCommit([k \in 1 .. n |-> CreateCmdPipeline(nextSn + k, built[k])])
          /\ nextSn' = nextSn + n
    BY <2>1
  <2>3. [k \in 1 .. n |-> CreateCmdPipeline(nextSn + k, built[k])] \in Seq(Pipeline)
    BY BatchType, BoundsAssumption DEF TypeOK
  <2>4. nextSn' \in Nat
    BY <2>2, BoundsAssumption DEF TypeOK
  <2> QED
    BY <2>2, <2>3, <2>4, SendAndCommitType
<1>2. CASE CommitLoopTimer
  <2>1. /\ dqCommon' \in Seq(Pipeline) /\ committing_num' \in Int /\ failures' \in Nat
        /\ requests' \in Seq(Request)
    BY <1>2, CommitWritesType DEF CommitLoopTimer, TypeOK
  <2> QED
    BY <1>2, <2>1 DEF CommitLoopTimer, TypeOK
<1>3. CASE ConnectSucceeds
  <2> DEFINE sent == Resent(Rebuilt(dqInit, dqCommon))
  <2>1. sent \in Seq(Pipeline)
    <3>1. Rebuilt(dqInit, dqCommon) \in Seq(Pipeline)
      BY InitPipelinesType, RebuiltType DEF TypeOK
    <3> QED
      BY <3>1, MarkedType DEF Resent, SENDING, PipelineState, QUEUEING, PROCESS_OVER
  <2> HIDE DEF sent
  <2>2. /\ dqCommon' \in Seq(Pipeline) /\ committing_num' \in Int /\ failures' \in Nat
        /\ requests' \in Seq(Request)
    BY <1>3, <2>1, CommitWritesType DEF ConnectSucceeds, TypeOK, sent
  <2>3. /\ connectTask' \in BOOLEAN /\ bConnected' \in BOOLEAN /\ stream' \in BOOLEAN
        /\ readTask' \in BOOLEAN /\ link' \in BOOLEAN
    BY <1>3 DEF ConnectSucceeds
  <2>4. faults' \in Nat
    BY <1>3 DEF ConnectSucceeds, Fault, TypeOK
  <2> QED
    BY <1>3, <2>2, <2>3, <2>4 DEF ConnectSucceeds, TypeOK
<1>4. CASE ConnectThenReadThrows
  <2>1. /\ connectTask' \in BOOLEAN /\ bConnected' \in BOOLEAN /\ stream' \in BOOLEAN
        /\ link' \in BOOLEAN
    BY <1>4 DEF ConnectThenReadThrows
  <2> QED
    BY <1>4, <2>1 DEF ConnectThenReadThrows, Fault, TypeOK
<1>5. CASE ConnectFails
  <2>1. connectTask' \in BOOLEAN
    BY <1>5 DEF ConnectFails
  <2> QED
    BY <1>5, <2>1 DEF ConnectFails, Fault, TypeOK
<1>6. CASE ReceiveError \/ ReceiveUnexpected \/ ReceiveBadSha
  <2>1. replies' \in Seq(Reply)
    BY <1>6, HeadTailProperties
       DEF ReceiveError, ReceiveUnexpected, ReceiveBadSha, HasReply, TypeOK
  <2>2. dqCommon' \in Seq(Pipeline)
    BY <1>6, CountedType
       DEF ReceiveError, ReceiveUnexpected, ReceiveBadSha, IsExpected, TypeOK
  <2>3. readTask' \in BOOLEAN
    BY <1>6 DEF ReceiveError, ReceiveUnexpected, ReceiveBadSha, ReadTaskThrows
  <2>4. failures' \in Nat
    BY <1>6 DEF ReceiveError, ReceiveUnexpected, ReceiveBadSha, ReadTaskThrows, TypeOK
  <2> QED
    BY <1>6, <2>1, <2>2, <2>3, <2>4 DEF ReceiveError, ReceiveUnexpected, ReceiveBadSha, TypeOK
<1>7. CASE ReceiveNonTail
  <2>1. replies' \in Seq(Reply)
    BY <1>7, HeadTailProperties DEF ReceiveNonTail, HasReply, TypeOK
  <2>2. dqCommon' \in Seq(Pipeline)
    BY <1>7, CountedType DEF ReceiveNonTail, IsExpected
  <2> QED
    BY <1>7, <2>1, <2>2 DEF ReceiveNonTail, TypeOK
<1>8. CASE ReceiveTail
  <2>1. Head(replies) \in Reply /\ replies' \in Seq(Reply)
    BY <1>8, HeadTailProperties DEF ReceiveTail, HasReply, TypeOK
  <2>2. Head(dqCommon) \in Pipeline /\ dqCommon' \in Seq(Pipeline)
    BY <1>8, CountedType DEF ReceiveTail, IsExpected
  <2>3. completed' \in Seq(Completion)
    <3>1. CompletionOf(Head(dqCommon), Head(replies)) \in Completion
      BY <2>1, <2>2 DEF CompletionOf, Completion, Pipeline
    <3> QED
      BY <1>8, <3>1, AppendProperties DEF ReceiveTail, TypeOK
  <2> QED
    BY <1>8, <2>1, <2>2, <2>3 DEF ReceiveTail, TypeOK
<1>9. CASE ReadFails
  <2>1. readTask' \in BOOLEAN
    BY <1>9 DEF ReadFails, ReadTaskThrows
  <2>2. failures' \in Nat
    BY <1>9 DEF ReadFails, ReadTaskThrows, TypeOK
  <2> QED
    BY <1>9, <2>1, <2>2 DEF ReadFails, TypeOK
<1>10. CASE ResetAfterFailure
  <2>1. dqCommon' \in Seq(Pipeline)
    BY <1>10, MarkedType DEF ResetAfterFailure, TypeOK, PipelineState, QUEUEING, PROCESS_OVER
  <2>2. /\ stream' \in BOOLEAN /\ readTask' \in BOOLEAN /\ connectTask' \in BOOLEAN
        /\ link' \in BOOLEAN /\ bDelayReconnecting' \in BOOLEAN
    BY <1>10 DEF ResetAfterFailure, DelayReconnect
  <2>3. delayTasks' \in Nat /\ failures' \in Nat /\ committing_num' \in Int
    BY <1>10 DEF ResetAfterFailure, DelayReconnect, TypeOK
  <2>4. requests' \in Seq(Request) /\ replies' \in Seq(Reply)
    BY <1>10, EmptySeq DEF ResetAfterFailure, BuilderReset
  <2> QED
    BY <1>10, <2>1, <2>2, <2>3, <2>4 DEF ResetAfterFailure, TypeOK
<1>11. CASE DelayElapsed
  <2>1. bDelayReconnecting' \in BOOLEAN /\ connectTask' \in BOOLEAN
    BY <1>11 DEF DelayElapsed, FlagCleared
  <2> QED
    BY <1>11, <2>1 DEF DelayElapsed, TypeOK
<1>12. CASE LoseLink
  <2>1. link' \in BOOLEAN /\ requests' \in Seq(Request)
    BY <1>12, EmptySeq DEF LoseLink
  <2>2. replies' \in Seq(Reply)
    <3>1. PICK n \in 0 .. Len(replies) : replies' = SubSeq(replies, 1, n)
      BY <1>12 DEF LoseLink
    <3>2. \A i \in 1 .. n : replies[i] \in Reply
      BY DEF TypeOK
    <3> QED
      BY <3>1, <3>2, SubSeqProperties
  <2> QED
    BY <1>12, <2>1, <2>2 DEF LoseLink, Fault, TypeOK
<1>13. CASE ServerExecutes
  <2> DEFINE r    == Head(requests)
             idx  == r.served + 1
             more == [r EXCEPT !.served = idx]
             rest == IF idx >= r.built_num THEN Tail(requests) ELSE <<more>> \o Tail(requests)
  <2>1. r \in Request /\ Tail(requests) \in Seq(Request)
    BY <1>13, HeadTailProperties DEF ServerExecutes, TypeOK
  <2>2. rest \in Seq(Request)
    <3>1. more \in Request
      BY <2>1, OneServed
    <3>2. <<more>> \in Seq(Request)
      BY <3>1
    <3> HIDE DEF more
    <3> QED
      BY <2>1, <3>2, ConcatProperties
  <2>3. ASSUME NEW kind \in ReplyKind
        PROVE  Append(replies, [sn |-> r.sn, idx |-> idx, kind |-> kind]) \in Seq(Reply)
    <3>1. [sn |-> r.sn, idx |-> idx, kind |-> kind] \in Reply
      BY <2>1 DEF Request, Reply
    <3> QED
      BY <3>1, AppendProperties DEF TypeOK
  <2>4. requests' \in Seq(Request) /\ replies' \in Seq(Reply) /\ faults' \in Nat
    <3>1. CASE requests' = Tail(requests) /\ UNCHANGED <<replies, faults>>
      BY <2>1, <3>1 DEF TypeOK
    <3>2. ASSUME NEW kind \in ReplyKind,
                 requests' = rest,
                 replies' = Append(replies, [sn |-> r.sn, idx |-> idx, kind |-> kind]),
                 UNCHANGED faults \/ Fault
          PROVE  requests' \in Seq(Request) /\ replies' \in Seq(Reply) /\ faults' \in Nat
      BY <2>2, <2>3, <3>2 DEF Fault, TypeOK
    <3> HIDE DEF rest, idx
    <3> QED
      BY <1>13, <3>1, <3>2 DEF ServerExecutes, rest, idx
  <2> QED
    BY <1>13, <2>4 DEF ServerExecutes, TypeOK
<1>14. CASE UNCHANGED vars
  BY <1>14 DEF vars, connVars, TypeOK
<1> QED
  BY <1>1, <1>2, <1>3, <1>4, <1>5, <1>6, <1>7, <1>8, <1>9, <1>10, <1>11, <1>12, <1>13, <1>14
     DEF Next, ConnProgress, LoopStep, OnClientReceive, ConnFault

(* Every variable of the connection keeps its type, for any number of the
   connection's own commands, of pipelines, of commands in them and of faults. *)
THEOREM TypeCorrect == Spec => []TypeOK
BY TypeInit, TypeNext, PTL DEF Spec

-----------------------------------------------------------------------------
(* The deque.  NothingLost and CallbacksInOrder need each other -- a callback
   runs for the front pipeline, so the order of the callbacks is the order of
   the deque -- and they need that nothing in the deque is PROCESS_OVER: the
   rebuilding in OnClientConnect would drop it.                              *)

(* The deque and the callbacks, when the caller has handed over n pipelines. *)
QueueHolds(n) == QueueOK(dqCommon, Len(completed), n) /\ CallbacksInOrder

QueueInv == QueueHolds(nextSn)

(* It holds of the deque the connection begins with. *)
LEMMA QueueInit == Init => QueueHolds(0)
<1> SUFFICES ASSUME Init PROVE QueueHolds(0)
  OBVIOUS
<1>1. dqCommon = <<>> /\ completed = <<>>
  BY DEF Init
<1>2. Len(<<>>) = 0 /\ DOMAIN <<>> = {}
  OBVIOUS
<1> QED
  BY <1>1, <1>2 DEF QueueHolds, QueueOK, HoldsUnanswered, OwnLeft, CallbacksInOrder

(* The loop of CommitLoop() keeps the deque it is given in order, even when it is
   left by an exception. *)
LEMMA CommitWritesQueue ==
    ASSUME TypeOK, NEW dq \in Seq(Pipeline), NEW open, NEW up, CommitWrites(dq, open, up),
           NEW c \in Nat, NEW n \in Nat, QueueOK(dq, c, n)
    PROVE  QueueOK(dqCommon', c, n)
<1>1. PICK S : dqCommon' = Marked(dq, S, COMMITTING)
  BY CommitWritesType DEF TypeOK
<1>2. COMMITTING \in PipelineState /\ COMMITTING < PROCESS_OVER
  BY DEF COMMITTING, PipelineState, QUEUEING, PROCESS_OVER
<1> QED
  BY <1>1, <1>2, QueueMarked

(* A new deque and the same completions. *)
LEMMA QueueKept ==
    ASSUME NEW n, NEW m, QueueHolds(n), UNCHANGED completed,
           QueueOK(dqCommon', Len(completed), m)
    PROVE  QueueHolds(m)'
BY DEF QueueHolds, CallbacksInOrder

(* Sending more pipelines, numbered on, keeps the deque in order. *)
LEMMA SendAndCommitQueue ==
    ASSUME TypeOK, NEW n \in Nat, QueueHolds(n), NEW batch \in Seq(Pipeline),
           \A k \in DOMAIN batch : batch[k].sn = n + k,
           SendAndCommit(batch), NEW m, m = n + Len(batch)
    PROVE  QueueHolds(m)'
<1> DEFINE c      == Len(completed)
           marked == Marked(batch, DOMAIN batch, SENDING)
           sent   == Sent(dqCommon, batch)
<1>1. c \in Nat /\ dqCommon \in Seq(Pipeline) /\ QueueOK(dqCommon, c, n)
  BY DEF TypeOK, QueueHolds
<1> HIDE DEF c
<1>2. SENDING < PROCESS_OVER
  BY DEF SENDING, PROCESS_OVER
<1>3. /\ marked \in Seq(Pipeline) /\ Len(marked) = Len(batch)
      /\ \A k \in DOMAIN marked : marked[k].sn = n + k /\ marked[k].state < PROCESS_OVER
      /\ sent = dqCommon \o marked
      /\ sent \in Seq(Pipeline)
  <2>1. /\ marked \in Seq(Pipeline) /\ Len(marked) = Len(batch)
        /\ \A k \in DOMAIN marked : marked[k].sn = batch[k].sn /\ marked[k].state = SENDING
        /\ sent = dqCommon \o marked
        /\ sent \in Seq(Pipeline)
    BY <1>1, SentType
  <2>2. DOMAIN marked = DOMAIN batch
    BY <2>1
  <2> QED
    BY <1>2, <2>1, <2>2
<1>4. QueueOK(sent, c, m)
  <2> HIDE DEF marked, sent
  <2>1. QueueOK(dqCommon \o marked, c, n + Len(marked))
    BY <1>1, <1>3, QueueAppended
  <2> QED
    BY <1>3, <2>1
<1>5. m \in Nat /\ UNCHANGED completed
  BY DEF SendAndCommit
<1> HIDE DEF sent
<1>6. CommitWrites(sent, stream, link) \/ dqCommon' = sent
  BY DEF SendAndCommit, sent
<1>7. QueueOK(dqCommon', c, m)
  BY <1>1, <1>3, <1>4, <1>5, <1>6, CommitWritesQueue
<1> QED
  BY <1>5, <1>7, QueueKept DEF c

(* Only a caller's commit uses up a serial number. *)
LEMMA NextSnKept == ConnProgress \/ ConnFault => nextSn' = nextSn
BY DEF ConnProgress, LoopStep, OnClientReceive, ConnFault, CommitLoopTimer, ConnectSucceeds,
       ReadFails, ResetAfterFailure, DelayElapsed, ReceiveError, ReceiveUnexpected,
       ReceiveNonTail, ReceiveBadSha, ReceiveTail, ServerExecutes, ConnectThenReadThrows,
       ConnectFails, LoseLink, receiveFrame

(* Resetting, rebuilding and popping the deque keep it. *)
LEMMA QueueStep ==
    ASSUME TypeOK, NEW n \in Nat, QueueHolds(n), ConnProgress \/ ConnFault
    PROVE  QueueHolds(n)'
<1> DEFINE c == Len(completed)
<1> USE DEF delayVars, tcpVars, serverVars, receiveFrame
<1>1. /\ c \in Nat /\ dqCommon \in Seq(Pipeline)
      /\ QueueOK(dqCommon, c, n)
  BY DEF TypeOK, QueueHolds
<1>2. /\ QUEUEING \in PipelineState /\ QUEUEING < PROCESS_OVER
      /\ SENDING \in PipelineState /\ SENDING < PROCESS_OVER
      /\ PROCESSING < PROCESS_OVER
  BY DEF PipelineState, QUEUEING, SENDING, PROCESSING, PROCESS_OVER
<1> HIDE DEF c
<1>3. CASE CommitLoopTimer
  <2>1. CommitWrites(dqCommon, stream, link) /\ UNCHANGED completed
    BY <1>3 DEF CommitLoopTimer
  <2>2. QueueOK(dqCommon', c, n)
    BY <1>1, <2>1, CommitWritesQueue
  <2> QED
    BY <2>1, <2>2, QueueKept DEF c
<1>4. CASE ConnectSucceeds
  <2> DEFINE rebuilt == Rebuilt(dqInit, dqCommon)
             sent    == Resent(rebuilt)
  <2>1. rebuilt \in Seq(Pipeline)
    BY <1>1, InitPipelinesType, RebuiltType
  <2>2. QueueOK(rebuilt, c, n)
    BY <1>1, InitPipelinesType, QueueRebuilt
  <2>3. sent \in Seq(Pipeline) /\ QueueOK(sent, c, n)
    BY <1>1, <1>2, <2>1, <2>2, MarkedType, QueueMarked DEF Resent
  <2>4. CommitWrites(sent, TRUE, link') /\ UNCHANGED completed
    BY <1>4 DEF ConnectSucceeds
  <2> HIDE DEF sent
  <2>5. QueueOK(dqCommon', c, n)
    BY <1>1, <2>3, <2>4, CommitWritesQueue
  <2> QED
    BY <2>4, <2>5, QueueKept DEF c
<1>5. CASE ReceiveNonTail \/ ReceiveBadSha
  <2>1. /\ dqCommon # <<>> /\ dqCommon' = <<Counted>> \o Tail(dqCommon)
        /\ UNCHANGED completed
    BY <1>5 DEF ReceiveNonTail, ReceiveBadSha, IsExpected
  <2>2. Counted \in Pipeline /\ Counted.sn = Head(dqCommon).sn /\ Counted.state < PROCESS_OVER
    BY <1>2, <2>1, CountedType
  <2>3. QueueOK(dqCommon', c, n)
    BY <1>1, <2>1, <2>2, QueueFrontReplaced
  <2> QED
    BY <2>1, <2>3, QueueKept DEF c
<1>6. CASE ReceiveTail
  <2>1. /\ dqCommon # <<>> /\ dqCommon' = Tail(dqCommon)
        /\ completed' = IF Head(dqCommon).sn = 0
                        THEN completed
                        ELSE Append(completed, CompletionOf(Head(dqCommon), Head(replies)))
    BY <1>6 DEF ReceiveTail, IsExpected
  <2>2. CASE Head(dqCommon).sn = 0
    <3>1. QueueOK(dqCommon', c, n)
      BY <1>1, <2>1, <2>2, QueuePopped
    <3> QED
      BY <2>1, <2>2, <3>1, QueueKept DEF c
  <2>3. CASE Head(dqCommon).sn # 0
    <3> DEFINE new == CompletionOf(Head(dqCommon), Head(replies))
    <3>1. Head(dqCommon).sn = c + 1 /\ QueueOK(dqCommon', c + 1, n)
      BY <1>1, <2>1, <2>3, QueuePopped
    <3>2. new \in Completion /\ new.sn = c + 1
      <4>1. Head(replies) \in Reply
        BY <1>6, HeadTailProperties DEF ReceiveTail, HasReply, TypeOK
      <4>2. Head(dqCommon) \in Pipeline
        BY <2>1, CountedType
      <4> QED
        BY <3>1, <4>1, <4>2 DEF CompletionOf, Completion, Pipeline
    <3> HIDE DEF new
    <3>3. completed \in Seq(Completion) /\ completed' = Append(completed, new)
      BY <2>1, <2>3 DEF TypeOK, new
    <3>4. /\ Len(completed') = c + 1 /\ completed' \in Seq(Completion)
          /\ \A i \in 1 .. c : completed'[i] = completed[i]
          /\ completed'[c + 1] = new
      BY <3>2, <3>3, AppendProperties DEF c
    <3>5. \A i \in DOMAIN completed' : completed'[i].sn = i
      <4>1. \A i \in 1 .. c : completed[i].sn = i
        BY <3>3 DEF QueueHolds, CallbacksInOrder, c
      <4>2. DOMAIN completed' = 1 .. (c + 1)
        BY <3>4
      <4>3. ASSUME NEW i \in 1 .. (c + 1) PROVE completed'[i].sn = i
        <5>1. CASE i \in 1 .. c
          BY <3>4, <4>1, <5>1
        <5>2. CASE i = c + 1
          BY <3>2, <3>4, <5>2
        <5> QED
          BY <1>1, <5>1, <5>2
      <4> QED
        BY <4>2, <4>3
    <3>6. QueueOK(dqCommon', Len(completed'), n)
      BY <2>1, <3>1, <3>4
    <3> QED
      BY <3>5, <3>6 DEF QueueHolds, CallbacksInOrder
  <2> QED
    BY <2>2, <2>3
<1>7. CASE ResetAfterFailure
  <2>1. /\ dqCommon' = Marked(dqCommon, DOMAIN dqCommon, QUEUEING)
        /\ UNCHANGED completed
    BY <1>7 DEF ResetAfterFailure
  <2>2. QueueOK(dqCommon', c, n)
    BY <1>1, <1>2, <2>1, QueueMarked
  <2> QED
    BY <2>1, <2>2, QueueKept DEF c
<1>8. CASE UNCHANGED <<dqCommon, completed>>
  BY <1>1, <1>8, QueueKept DEF c
<1>9. ConnectThenReadThrows \/ ConnectFails \/ ReceiveError \/ ReceiveUnexpected \/ ReadFails
        \/ DelayElapsed \/ LoseLink \/ ServerExecutes
        => UNCHANGED <<dqCommon, completed>>
  BY DEF ConnectThenReadThrows, ConnectFails, ReceiveError, ReceiveUnexpected, ReadFails,
         DelayElapsed, LoseLink, ServerExecutes
<1> QED
  BY <1>3, <1>4, <1>5, <1>6, <1>7, <1>8, <1>9 DEF ConnProgress, LoopStep, OnClientReceive, ConnFault

(* The callers' pipelines are numbered as they are handed over. *)
LEMMA QueueNext == TypeOK /\ QueueInv /\ [Next]_vars => QueueInv'
<1> SUFFICES ASSUME TypeOK, QueueInv, [Next]_vars PROVE QueueInv'
  OBVIOUS
<1>1. PICK m \in Nat : m = nextSn
  BY DEF TypeOK
<1>2. QueueHolds(m)
  BY <1>1 DEF QueueInv
<1>3. CASE HandOver
  <2>1. PICK n \in 1 .. (MaxCommits - nextSn) : \E built \in [1 .. n -> BuiltNums] :
          /\ SendAndCommit([k \in 1 .. n |-> CreateCmdPipeline(nextSn + k, built[k])])
          /\ nextSn' = nextSn + n
    BY <1>3 DEF HandOver
  <2>2. PICK built \in [1 .. n -> BuiltNums] :
          /\ SendAndCommit([k \in 1 .. n |-> CreateCmdPipeline(nextSn + k, built[k])])
          /\ nextSn' = nextSn + n
    BY <2>1
  <2> DEFINE batch == [k \in 1 .. n |-> CreateCmdPipeline(nextSn + k, built[k])]
  <2>3. /\ batch \in Seq(Pipeline) /\ Len(batch) = n
        /\ \A k \in DOMAIN batch : batch[k].sn = nextSn + k
    BY <1>1, BatchType, BoundsAssumption
  <2>4. SendAndCommit(batch)
    BY <2>2
  <2> HIDE DEF batch
  <2>5. \A k \in DOMAIN batch : batch[k].sn = m + k
    BY <1>1, <2>3
  <2>6. QueueHolds(m + n)'
    BY <1>2, <2>3, <2>4, <2>5, SendAndCommitQueue
  <2>7. nextSn' = m + n
    BY <1>1, <2>2
  <2> QED
    BY <2>6, <2>7 DEF QueueInv, QueueHolds
<1>4. CASE ConnProgress \/ ConnFault
  <2>1. QueueHolds(m)'
    BY <1>2, <1>4, QueueStep
  <2>2. nextSn' = m
    BY <1>1, <1>4, NextSnKept
  <2> QED
    BY <2>1, <2>2 DEF QueueInv, QueueHolds
<1>5. CASE UNCHANGED vars
  BY <1>5 DEF vars, connVars, QueueInv, QueueHolds, CallbacksInOrder
<1> QED
  BY <1>3, <1>4, <1>5 DEF Next

(* Hence it always holds. *)
LEMMA QueueInvAlways == Spec => []QueueInv
<1>1. Init => QueueInv
  BY QueueInit DEF Init, QueueInv
<1> QED
  BY <1>1, TypeInit, TypeNext, QueueNext, PTL DEF Spec

(* The deque always holds what is left of the connection's own pipelines and then
   exactly the callers' unanswered ones, in order, through every reconnection and
   every callback left by an exception. *)
THEOREM AlwaysNothingLost == Spec => []NothingLost
<1>1. QueueInv => NothingLost
  BY DEF QueueInv, QueueHolds, QueueOK, NothingLost
<1> QED
  BY <1>1, QueueInvAlways, PTL

(* The reply callbacks run in the order of the commits, each at most once. *)
THEOREM AlwaysCallbacksInOrder == Spec => []CallbacksInOrder
<1>1. QueueInv => CallbacksInOrder
  BY DEF QueueInv, QueueHolds
<1> QED
  BY <1>1, QueueInvAlways, PTL

-----------------------------------------------------------------------------
(* The count of what is committed.  CommittingNumCovers is inductive by itself,
   given the types: the counter may exceed what is in flight -- pipelines that are
   counted on a lost connection are counted again on the next one -- but every way
   of losing count also takes the pipelines out of flight.                      *)

LEMMA CoversIsInFlight ==
    CommittingNumCovers <=> committing_num >= Cardinality(InFlight(dqCommon))
BY DEF CommittingNumCovers, InFlight

(* Whether or not Write() throws, CommitLoop() counts each pipeline it marks. *)
LEMMA CommitWritesCovers ==
    ASSUME TypeOK, NEW dq \in Seq(Pipeline), NEW open, NEW up, CommitWrites(dq, open, up),
           committing_num >= Cardinality(InFlight(dq))
    PROVE  CommittingNumCovers'
<1> DEFINE sending == Positions(dq, IsSending)
<1>1. Len(dq) \in Nat /\ DOMAIN dq = 1 .. Len(dq) /\ sending \in SUBSET (1 .. Len(dq))
  BY DEF Positions
<1> HIDE DEF sending
<1>2. PICK S \in SUBSET DOMAIN dq :
        /\ dqCommon' = Marked(dq, S, COMMITTING)
        /\ committing_num' = Committed(committing_num, Cardinality(S))
  <2>1. \A i \in sending : {j \in sending : j < i} \in SUBSET DOMAIN dq
    BY <1>1
  <2>2. sending \in SUBSET DOMAIN dq
    BY <1>1
  <2> QED
    BY <2>1, <2>2 DEF CommitWrites, sending
<1>3. /\ Cardinality(S) \in Nat
      /\ Cardinality(InFlight(dqCommon')) <= Cardinality(InFlight(dq)) + Cardinality(S)
  BY <1>2, InFlightMarked
<1>4. Cardinality(InFlight(dq)) \in Nat /\ committing_num \in Int
  BY InFlightCount DEF TypeOK
<1>5. Cardinality(InFlight(dqCommon')) \in Nat
  <2>1. dqCommon' \in Seq(Pipeline)
    BY CommitWritesType DEF TypeOK
  <2> QED
    BY <2>1, InFlightCount
<1>6. committing_num' >= Cardinality(InFlight(dqCommon'))
  BY <1>2, <1>3, <1>4, <1>5 DEF Committed
<1> QED
  BY <1>6 DEF CommittingNumCovers, InFlight

(* Pipelines handed over are counted when they are committed, and not before. *)
LEMMA SendAndCommitCovers ==
    ASSUME TypeOK, CommittingNumCovers, NEW batch \in Seq(Pipeline), SendAndCommit(batch)
    PROVE  CommittingNumCovers'
<1> DEFINE marked == Marked(batch, DOMAIN batch, SENDING)
           sent   == Sent(dqCommon, batch)
<1>1. /\ dqCommon \in Seq(Pipeline)
      /\ marked \in Seq(Pipeline) /\ \A k \in DOMAIN marked : marked[k].state = SENDING
      /\ sent = dqCommon \o marked /\ sent \in Seq(Pipeline)
  BY SentType DEF TypeOK
<1> HIDE DEF marked, sent
<1>2. InFlight(sent) = InFlight(dqCommon)
  BY <1>1, InFlightAppended
<1>3. committing_num >= Cardinality(InFlight(sent))
  BY <1>2, CoversIsInFlight
<1>4. CASE CommitWrites(sent, stream, link)
  BY <1>1, <1>3, <1>4, CommitWritesCovers
<1>5. CASE dqCommon' = sent /\ UNCHANGED committing_num
  <2>1. committing_num' >= Cardinality(InFlight(dqCommon'))
    BY <1>3, <1>5
  <2> QED
    BY <2>1 DEF CommittingNumCovers, InFlight
<1> QED
  BY <1>4, <1>5 DEF SendAndCommit, sent

(* A step that neither touches the deque nor the counter keeps it. *)
LEMMA CoversKept ==
    ASSUME CommittingNumCovers, UNCHANGED <<dqCommon, committing_num>>
    PROVE  CommittingNumCovers'
BY DEF CommittingNumCovers

(* Every callback keeps it. *)
LEMMA CoversNext == TypeOK /\ CommittingNumCovers /\ [Next]_vars => CommittingNumCovers'
<1> SUFFICES ASSUME TypeOK, CommittingNumCovers, [Next]_vars PROVE CommittingNumCovers'
  OBVIOUS
<1> USE DEF delayVars, tcpVars, serverVars, receiveFrame
<1>1. /\ dqCommon \in Seq(Pipeline) /\ committing_num \in Int
      /\ Cardinality(InFlight(dqCommon)) \in Nat
      /\ committing_num >= Cardinality(InFlight(dqCommon))
  BY InFlightCount, CoversIsInFlight DEF TypeOK
<1>2. CASE HandOver
  <2>1. PICK n \in 1 .. (MaxCommits - nextSn) : \E built \in [1 .. n -> BuiltNums] :
          SendAndCommit([k \in 1 .. n |-> CreateCmdPipeline(nextSn + k, built[k])])
    BY <1>2 DEF HandOver
  <2>2. PICK built \in [1 .. n -> BuiltNums] :
          SendAndCommit([k \in 1 .. n |-> CreateCmdPipeline(nextSn + k, built[k])])
    BY <2>1
  <2>3. [k \in 1 .. n |-> CreateCmdPipeline(nextSn + k, built[k])] \in Seq(Pipeline)
    BY BatchType, BoundsAssumption DEF TypeOK
  <2> QED
    BY <2>2, <2>3, SendAndCommitCovers
<1>3. CASE CommitLoopTimer
  BY <1>1, <1>3, CommitWritesCovers DEF CommitLoopTimer
<1>4. CASE ConnectSucceeds
  <2> DEFINE rebuilt == Rebuilt(dqInit, dqCommon)
             sent    == Resent(rebuilt)
  <2>1. rebuilt \in Seq(Pipeline)
    BY <1>1, InitPipelinesType, RebuiltType
  <2>2. SENDING \in PipelineState /\ SENDING < COMMITTING
    BY DEF SENDING, COMMITTING, PipelineState, QUEUEING, PROCESS_OVER
  <2> HIDE DEF rebuilt
  <2>3. sent \in Seq(Pipeline) /\ Cardinality(InFlight(sent)) = 0
    BY <2>1, <2>2, MarkedType, InFlightNone DEF Resent
  <2>4. CommitWrites(sent, TRUE, link')
    BY <1>4 DEF ConnectSucceeds, rebuilt
  <2> HIDE DEF sent
  <2>5. committing_num >= Cardinality(InFlight(sent))
    BY <1>1, <2>3
  <2> QED
    BY <2>3, <2>4, <2>5, CommitWritesCovers
<1>5. CASE ReceiveNonTail \/ ReceiveBadSha
  <2>1. /\ dqCommon # <<>> /\ Head(dqCommon).state >= COMMITTING
        /\ dqCommon' = <<Counted>> \o Tail(dqCommon)
        /\ UNCHANGED committing_num
    BY <1>5 DEF ReceiveNonTail, ReceiveBadSha, IsExpected
  <2>2. Counted \in Pipeline /\ Counted.state >= COMMITTING
    BY <2>1, CountedType DEF PROCESSING, COMMITTING
  <2>3. InFlight(dqCommon') = InFlight(dqCommon)
    BY <1>1, <2>1, <2>2, InFlightFrontReplaced
  <2>4. committing_num' >= Cardinality(InFlight(dqCommon'))
    BY <1>1, <2>1, <2>3
  <2> QED
    BY <2>4 DEF CommittingNumCovers, InFlight
<1>6. CASE ReceiveTail
  <2>1. /\ dqCommon # <<>> /\ Head(dqCommon).state >= COMMITTING
        /\ dqCommon' = Tail(dqCommon)
        /\ committing_num' = committing_num - 1
    BY <1>6 DEF ReceiveTail, IsExpected
  <2>2. Cardinality(InFlight(dqCommon')) <= Cardinality(InFlight(dqCommon)) - 1
    BY <1>1, <2>1, InFlightPopped
  <2>3. Cardinality(InFlight(dqCommon')) \in Nat
    <3>1. dqCommon' \in Seq(Pipeline)
      BY <1>1, <2>1, HeadTailProperties
    <3> QED
      BY <3>1, InFlightCount
  <2>4. committing_num' >= Cardinality(InFlight(dqCommon'))
    BY <1>1, <2>1, <2>2, <2>3
  <2> QED
    BY <2>4 DEF CommittingNumCovers, InFlight
<1>7. CASE ResetAfterFailure
  <2>1. dqCommon' = Marked(dqCommon, DOMAIN dqCommon, QUEUEING) /\ committing_num' = 0
    BY <1>7 DEF ResetAfterFailure
  <2>2. QUEUEING \in PipelineState /\ QUEUEING < COMMITTING
    BY DEF COMMITTING, PipelineState, QUEUEING, PROCESS_OVER
  <2>3. Cardinality(InFlight(dqCommon')) = 0
    BY <1>1, <2>1, <2>2, InFlightNone
  <2>4. committing_num' >= Cardinality(InFlight(dqCommon'))
    BY <2>1, <2>3
  <2> QED
    BY <2>4 DEF CommittingNumCovers, InFlight
<1>8. CASE UNCHANGED <<dqCommon, committing_num>>
  BY <1>8, CoversKept
<1>9. ConnectThenReadThrows \/ ConnectFails \/ ReceiveError \/ ReceiveUnexpected \/ ReadFails
        \/ DelayElapsed \/ LoseLink \/ ServerExecutes \/ UNCHANGED vars
        => UNCHANGED <<dqCommon, committing_num>>
  BY DEF ConnectThenReadThrows, ConnectFails, ReceiveError, ReceiveUnexpected, ReadFails,
         DelayElapsed, LoseLink, ServerExecutes, vars, connVars
<1> QED
  BY <1>2, <1>3, <1>4, <1>5, <1>6, <1>7, <1>8, <1>9
     DEF Next, ConnProgress, LoopStep, OnClientReceive, ConnFault

(* The counter OnClientReceive checks never falls below the number of pipelines that
   wait for replies, whatever CommitLoop(), taskFailed() and OnClientConnect() do to
   it: a reply that is due is never refused for the counter's sake. *)
THEOREM AlwaysCommittingNumCovers == Spec => []CommittingNumCovers
<1>1. Init => CommittingNumCovers
  <2> SUFFICES ASSUME Init PROVE CommittingNumCovers
    OBVIOUS
  <2>1. dqCommon = <<>> /\ committing_num = 0
    BY DEF Init
  <2>2. InFlight(<<>>) = {}
    BY DEF InFlight
  <2>3. Cardinality(InFlight(dqCommon)) = 0
    BY <2>1, <2>2, FS_EmptySet
  <2> QED
    BY <2>1, <2>3, CoversIsInFlight
<1> QED
  BY <1>1, TypeInit, TypeNext, CoversNext, PTL DEF Spec

-----------------------------------------------------------------------------
(* The wire, for pipelines of one command each.  (For longer ones the facts below
   are false: see the run conn_tail_reply.)  SingleInv is inductive on top of TypeOK
   and TaskInv: while the read loop runs, the replies on their way are those of the
   front of the deque; while the link is up as well, the requests are those of the
   rest of it; and before a connection is made nothing is left of the last one.   *)

(* rqs are the requests of the pipelines of dq after the first r. *)
RequestsFor(rqs, dq, r) == \A k \in DOMAIN rqs : rqs[k] = RequestOf(dq[r + k])

(* dq waits for the replies to the pipelines rqs, and for r replies before those. *)
Awaits(dq, rqs, r) ==
    /\ Len(dq) = r + Len(rqs)
    /\ \A i \in DOMAIN dq : dq[i].state >= COMMITTING /\ dq[i].processed_num = 0
    /\ RequestsFor(rqs, dq, r)

(* Of dq the first m pipelines are written, the others are to be sent. *)
WrittenUpTo(dq, m) ==
    \A i \in DOMAIN dq : /\ dq[i].processed_num = 0
                         /\ i <= m => dq[i].state >= COMMITTING
                         /\ i > m => dq[i].state = SENDING

(* The first pipelines of dq are those that rps answers. *)
Answers(rps, dq) ==
    /\ Len(rps) <= Len(dq)
    /\ \A k \in DOMAIN rps : rps[k].sn = dq[k].sn /\ rps[k].idx = 1

LinkIsOpen      == link => stream /\ bConnected
NothingUnderWay == connectTask \/ delayTasks > 0 => ~link /\ requests = <<>> /\ replies = <<>>
RepliesMatch    == readTask => Answers(replies, dqCommon)
RequestsMatch   == link /\ readTask => Awaits(dqCommon, requests, Len(replies))
OnlyOwnRefused  == \A k \in DOMAIN replies : replies[k].kind = "badsha" => replies[k].sn = 0

SingleInv ==
    /\ AllSingle(dqCommon)
    /\ LinkIsOpen
    /\ NothingUnderWay
    /\ RepliesMatch
    /\ RequestsMatch
    /\ OnlyOwnRefused
    /\ TailReplyDelivered

LEMMA SingleInit == Init => SingleInv
<1> SUFFICES ASSUME Init PROVE SingleInv
  OBVIOUS
<1>1. ~link /\ ~readTask /\ dqCommon = <<>> /\ requests = <<>> /\ replies = <<>> /\ completed = <<>>
  BY DEF Init
<1>2. DOMAIN <<>> = {}
  OBVIOUS
<1> QED
  BY <1>1, <1>2 DEF SingleInv, AllSingle, LinkIsOpen, NothingUnderWay, RepliesMatch, RequestsMatch,
                    OnlyOwnRefused, TailReplyDelivered

(* CommitLoop() changes states only. *)
LEMMA CommitWritesKeeps ==
    ASSUME TypeOK, NEW dq \in Seq(Pipeline), NEW open, NEW up, CommitWrites(dq, open, up),
           AllSingle(dq)
    PROVE  /\ AllSingle(dqCommon')
           /\ Len(dqCommon') = Len(dq)
           /\ \A i \in DOMAIN dq : dqCommon'[i].sn = dq[i].sn
<1>1. PICK S : dqCommon' = Marked(dq, S, COMMITTING)
  BY CommitWritesType DEF TypeOK
<1>2. COMMITTING \in PipelineState
  BY DEF COMMITTING, PipelineState, QUEUEING, PROCESS_OVER
<1>3. AllSingle(Marked(dq, S, COMMITTING))
  BY <1>2, SingleMarked
<1>4. /\ Len(Marked(dq, S, COMMITTING)) = Len(dq)
      /\ \A i \in DOMAIN dq : Marked(dq, S, COMMITTING)[i].sn = dq[i].sn
  BY <1>2, MarkedType
<1> QED
  BY <1>1, <1>3, <1>4

(* Of dq the first m pipelines are committed, the others are to be sent. *)
ToSendAfter(dq, m) ==
    \A i \in DOMAIN dq : /\ i <= m => dq[i].state >= COMMITTING
                         /\ i > m => dq[i].state = SENDING

(* The loop of CommitLoop() finds those that are not written. *)
LEMMA SendingSuffix ==
    ASSUME NEW dq \in Seq(Pipeline), NEW m \in 0 .. Len(dq), ToSendAfter(dq, m)
    PROVE  /\ Positions(dq, IsSending) = (m + 1) .. Len(dq)
           /\ Selected(dq, Positions(dq, IsSending)) = [k \in 1 .. (Len(dq) - m) |-> dq[m + k]]
<1>1. Len(dq) \in Nat /\ DOMAIN dq = 1 .. Len(dq) /\ m \in 0 .. Len(dq)
  OBVIOUS
<1>2. Positions(dq, IsSending) = (m + 1) .. Len(dq)
  <2>1. \A i \in DOMAIN dq : IsSending(dq[i]) <=> i > m
    BY <1>1 DEF IsSending, SENDING, COMMITTING, ToSendAfter
  <2> QED
    BY <1>1, <2>1 DEF Positions
<1>3. Selected(dq, (m + 1) .. Len(dq)) = [k \in 1 .. (Len(dq) - m) |-> dq[m + k]]
  BY <1>1, SelectedSuffix
<1> QED
  BY <1>2, <1>3

(* On a link that is up it writes exactly what was to be sent, after what is written. *)
LEMMA CommitWritesRest ==
    ASSUME TypeOK, NEW dq \in Seq(Pipeline), NEW open, NEW up, open = TRUE, up = TRUE,
           CommitWrites(dq, open, up),
           NEW m \in 0 .. Len(dq), ToSendAfter(dq, m)
    PROVE  /\ Len(dqCommon') = Len(dq) /\ DOMAIN dqCommon' = DOMAIN dq
           /\ \A i \in DOMAIN dq : /\ dqCommon'[i].sn = dq[i].sn
                                   /\ dqCommon'[i].built_num = dq[i].built_num
                                   /\ dqCommon'[i].processed_num = dq[i].processed_num
                                   /\ dqCommon'[i].state >= COMMITTING
           /\ requests' \in Seq(Request) /\ Len(requests') = Len(requests) + (Len(dq) - m)
           /\ \A k \in 1 .. Len(requests) + (Len(dq) - m) :
                 requests'[k] = IF k <= Len(requests) THEN requests[k]
                                ELSE RequestOf(dq[m + (k - Len(requests))])
<1> DEFINE sending == Positions(dq, IsSending)
           written == Selected(dq, sending)
           more    == [k \in DOMAIN written |-> RequestOf(written[k])]
           mk      == Marked(dq, sending, COMMITTING)
<1>1. /\ Len(dq) \in Nat /\ DOMAIN dq = 1 .. Len(dq) /\ m \in Nat
      /\ requests \in Seq(Request) /\ Len(requests) \in Nat /\ DOMAIN requests = 1 .. Len(requests)
  BY DEF TypeOK
<1>2. sending = (m + 1) .. Len(dq)
  BY SendingSuffix
<1>3. written = [k \in 1 .. (Len(dq) - m) |-> dq[m + k]]
  BY SendingSuffix
<1>4. /\ more \in Seq(Request) /\ Len(more) = Len(dq) - m
      /\ \A k \in 1 .. (Len(dq) - m) : more[k] = RequestOf(dq[m + k])
  <2>1. DOMAIN written = 1 .. (Len(dq) - m)
    BY <1>3
  <2>2. more \in Seq(Request)
    BY WrittenType
  <2>3. more = [k \in 1 .. (Len(dq) - m) |-> RequestOf(dq[m + k])]
    BY <1>3, <2>1
  <2>4. Len(dq) - m \in Nat
    BY <1>1
  <2> HIDE DEF more
  <2> QED
    BY <2>2, <2>3, <2>4
<1>5. dqCommon' = mk /\ requests' = requests \o more
  BY DEF CommitWrites
<1>6. /\ Len(mk) = Len(dq) /\ DOMAIN mk = DOMAIN dq
      /\ \A i \in DOMAIN dq : /\ mk[i].sn = dq[i].sn
                              /\ mk[i].built_num = dq[i].built_num
                              /\ mk[i].processed_num = dq[i].processed_num
                              /\ mk[i].state = IF i \in sending THEN COMMITTING ELSE dq[i].state
  <2>1. COMMITTING \in PipelineState
    BY DEF COMMITTING, PipelineState, QUEUEING, PROCESS_OVER
  <2> QED
    BY <2>1, MarkedType
<1> HIDE DEF sending, written, more, mk
<1>7. \A i \in DOMAIN dq : mk[i].state >= COMMITTING
  <2>1. \A i \in DOMAIN dq : i <= m \/ i \in sending
    BY <1>1, <1>2
  <2> QED
    BY <1>6, <2>1 DEF COMMITTING, ToSendAfter
<1>8. /\ requests' \in Seq(Request) /\ Len(requests') = Len(requests) + (Len(dq) - m)
      /\ \A k \in 1 .. Len(requests) + (Len(dq) - m) :
            requests'[k] = IF k <= Len(requests) THEN requests[k] ELSE more[k - Len(requests)]
  <2>1. /\ requests \o more \in Seq(Request) /\ Len(requests \o more) = Len(requests) + Len(more)
        /\ \A k \in 1 .. Len(requests) + Len(more) :
              (requests \o more)[k] = IF k <= Len(requests) THEN requests[k] ELSE more[k - Len(requests)]
    <3>1. requests \in Seq(Request) /\ more \in Seq(Request)
      BY <1>1, <1>4
    <3> QED
      BY <3>1, ConcatProperties
  <2> QED
    BY <1>4, <1>5, <2>1
<1>9. ASSUME NEW k \in 1 .. Len(requests) + (Len(dq) - m), ~(k <= Len(requests))
      PROVE  more[k - Len(requests)] = RequestOf(dq[m + (k - Len(requests))])
  <2>1. k - Len(requests) \in 1 .. (Len(dq) - m)
    BY <1>1, <1>9
  <2> QED
    BY <1>4, <2>1
<1> QED
  BY <1>5, <1>6, <1>7, <1>8, <1>9

LEMMA CommitWritesAwaits ==
    ASSUME TypeOK, NEW dq \in Seq(Pipeline), NEW open, NEW up, open = TRUE, up = TRUE,
           CommitWrites(dq, open, up),
           NEW r \in Nat, NEW m \in 0 .. Len(dq), m = r + Len(requests),
           WrittenUpTo(dq, m), RequestsFor(requests, dq, r)
    PROVE  Awaits(dqCommon', requests', r)
<1>1. /\ Len(dq) \in Nat /\ DOMAIN dq = 1 .. Len(dq) /\ m \in Nat
      /\ Len(requests) \in Nat /\ DOMAIN requests = 1 .. Len(requests)
  BY DEF TypeOK
<1>2. ToSendAfter(dq, m) /\ \A i \in DOMAIN dq : dq[i].processed_num = 0
  BY DEF WrittenUpTo, ToSendAfter
<1>3. /\ Len(dqCommon') = Len(dq) /\ DOMAIN dqCommon' = DOMAIN dq
      /\ \A i \in DOMAIN dq : /\ dqCommon'[i].sn = dq[i].sn
                              /\ dqCommon'[i].built_num = dq[i].built_num
                              /\ dqCommon'[i].processed_num = dq[i].processed_num
                              /\ dqCommon'[i].state >= COMMITTING
      /\ requests' \in Seq(Request) /\ Len(requests') = Len(requests) + (Len(dq) - m)
      /\ \A k \in 1 .. Len(requests) + (Len(dq) - m) :
            requests'[k] = IF k <= Len(requests) THEN requests[k]
                           ELSE RequestOf(dq[m + (k - Len(requests))])
  BY <1>2, CommitWritesRest
<1>4. Len(dqCommon') = r + Len(requests')
  BY <1>1, <1>3
<1>5. ASSUME NEW k \in DOMAIN requests' PROVE requests'[k] = RequestOf(dqCommon'[r + k])
  <2>1. k \in 1 .. Len(requests) + (Len(dq) - m) /\ r + k \in DOMAIN dq
    BY <1>1, <1>3
  <2>2. requests'[k] = RequestOf(dq[r + k])
    <3>1. CASE k <= Len(requests)
      BY <1>1, <1>3, <2>1, <3>1 DEF RequestsFor
    <3>2. CASE ~(k <= Len(requests))
      <4>1. m + (k - Len(requests)) = r + k
        BY <1>1, <2>1
      <4> QED
        BY <1>3, <2>1, <3>2, <4>1
    <3> QED
      BY <3>1, <3>2
  <2>3. RequestOf(dqCommon'[r + k]) = RequestOf(dq[r + k])
    BY <1>3, <2>1 DEF RequestOf
  <2> QED
    BY <2>2, <2>3
<1> QED
  BY <1>2, <1>3, <1>4, <1>5 DEF Awaits, RequestsFor

(* A batch as a caller makes it: one command each, and no reply yet. *)
FreshSingle(batch) == \A k \in DOMAIN batch : batch[k].built_num = 1 /\ batch[k].processed_num = 0

(* Send() of such a batch, behind a deque whose replies are awaited, leaves it to be
   written. *)
LEMMA SentSingle ==
    ASSUME NEW dq \in Seq(Pipeline), NEW batch \in Seq(Pipeline), FreshSingle(batch), AllSingle(dq)
    PROVE  /\ Sent(dq, batch) \in Seq(Pipeline)
           /\ AllSingle(Sent(dq, batch))
           /\ Len(Sent(dq, batch)) \in Nat /\ Len(dq) \in 0 .. Len(Sent(dq, batch))
           /\ \A i \in DOMAIN dq : Sent(dq, batch)[i] = dq[i]
           /\ (\A i \in DOMAIN dq : dq[i].state >= COMMITTING /\ dq[i].processed_num = 0)
                 => WrittenUpTo(Sent(dq, batch), Len(dq))
<1> DEFINE marked == Marked(batch, DOMAIN batch, SENDING)
           sent   == Sent(dq, batch)
<1>1. SENDING \in PipelineState
  BY DEF SENDING, PipelineState, QUEUEING, PROCESS_OVER
<1>2. /\ marked \in Seq(Pipeline) /\ DOMAIN marked = DOMAIN batch
      /\ \A k \in DOMAIN batch : /\ marked[k].processed_num = batch[k].processed_num
                                 /\ marked[k].state = SENDING
  BY <1>1, MarkedType
<1>3. AllSingle(batch)
  BY DEF FreshSingle, AllSingle, Single
<1>4. AllSingle(marked)
  BY <1>1, <1>3, SingleMarked
<1>5. sent = dq \o marked
  BY DEF Sent
<1> HIDE DEF marked, sent
<1>6. /\ sent \in Seq(Pipeline) /\ Len(sent) = Len(dq) + Len(marked)
      /\ \A i \in 1 .. Len(dq) + Len(marked) :
            sent[i] = IF i <= Len(dq) THEN dq[i] ELSE marked[i - Len(dq)]
  BY <1>2, <1>5, ConcatProperties
<1>7. AllSingle(sent)
  BY <1>2, <1>4, <1>5, SingleAppended
<1>8. /\ Len(dq) \in Nat /\ DOMAIN dq = 1 .. Len(dq)
      /\ Len(marked) \in Nat /\ DOMAIN marked = 1 .. Len(marked)
      /\ DOMAIN sent = 1 .. Len(dq) + Len(marked)
  BY <1>2, <1>6
<1>9. \A i \in DOMAIN dq : sent[i] = dq[i]
  BY <1>6, <1>8
<1>10. ASSUME \A i \in DOMAIN dq : dq[i].state >= COMMITTING /\ dq[i].processed_num = 0
       PROVE  WrittenUpTo(sent, Len(dq))
  <2>1. ASSUME NEW i \in DOMAIN sent
        PROVE  /\ sent[i].processed_num = 0
               /\ i <= Len(dq) => sent[i].state >= COMMITTING
               /\ i > Len(dq) => sent[i].state = SENDING
    <3>1. CASE i <= Len(dq)
      <4>1. i \in DOMAIN dq /\ ~(i > Len(dq))
        BY <1>8, <3>1
      <4> QED
        BY <1>9, <1>10, <4>1
    <3>2. CASE i > Len(dq)
      <4>1. /\ i - Len(dq) \in DOMAIN marked /\ sent[i] = marked[i - Len(dq)]
            /\ ~(i <= Len(dq))
        BY <1>6, <1>8, <3>2
      <4> QED
        BY <1>2, <4>1 DEF FreshSingle
    <3> QED
      BY <1>8, <3>1, <3>2
  <2> QED
    BY <2>1 DEF WrittenUpTo
<1> QED
  BY <1>6, <1>7, <1>8, <1>9, <1>10 DEF sent

(* A longer deque, or one with other states, is answered by the same replies. *)
LEMMA AnswersLonger ==
    ASSUME NEW rps \in Seq(Reply), NEW dq \in Seq(Pipeline), NEW new \in Seq(Pipeline),
           Answers(rps, dq), Len(new) >= Len(dq), \A i \in DOMAIN dq : new[i].sn = dq[i].sn
    PROVE  Answers(rps, new)
<1>1. /\ Len(rps) \in Nat /\ DOMAIN rps = 1 .. Len(rps) /\ Len(dq) \in Nat /\ Len(new) \in Nat
      /\ DOMAIN dq = 1 .. Len(dq)
  OBVIOUS
<1>2. DOMAIN rps \subseteq DOMAIN dq
  BY <1>1 DEF Answers
<1> QED
  BY <1>1, <1>2 DEF Answers

(* The requests of a deque are those of a longer one. *)
LEMMA RequestsForLonger ==
    ASSUME NEW rqs \in Seq(Request), NEW dq \in Seq(Pipeline), NEW new, NEW r \in Nat,
           Awaits(dq, rqs, r), \A i \in DOMAIN dq : new[i] = dq[i]
    PROVE  RequestsFor(rqs, new, r)
<1>1. ASSUME NEW k \in DOMAIN rqs PROVE rqs[k] = RequestOf(new[r + k])
  <2>1. r + k \in DOMAIN dq
    BY DEF Awaits
  <2> QED
    BY <2>1 DEF Awaits, RequestsFor
<1> QED
  BY <1>1 DEF RequestsFor

(* Handing over a batch of single commands keeps all of it. *)
LEMMA SendAndCommitSingle ==
    ASSUME TypeOK, SingleInv, NEW batch \in Seq(Pipeline), FreshSingle(batch), SendAndCommit(batch)
    PROVE  SingleInv'
<1> DEFINE dq   == dqCommon
           sent == Sent(dqCommon, batch)
<1>1. /\ dq \in Seq(Pipeline) /\ AllSingle(dq) /\ replies \in Seq(Reply) /\ requests \in Seq(Request)
      /\ Len(replies) \in Nat /\ Len(requests) \in Nat
      /\ UNCHANGED <<link, stream, bConnected, connectTask, delayTasks, readTask, replies, completed>>
  BY DEF TypeOK, SingleInv, SendAndCommit, delayVars, tcpVars
<1>2. /\ sent \in Seq(Pipeline) /\ AllSingle(sent)
      /\ Len(sent) \in Nat /\ Len(dq) \in 0 .. Len(sent)
      /\ \A i \in DOMAIN dq : sent[i] = dq[i]
      /\ (\A i \in DOMAIN dq : dq[i].state >= COMMITTING /\ dq[i].processed_num = 0)
            => WrittenUpTo(sent, Len(dq))
  BY <1>1, SentSingle
<1> HIDE DEF sent, dq
<1>3. \/ CommitWrites(sent, stream, link) /\ bConnected
      \/ dqCommon' = sent /\ ~bConnected /\ UNCHANGED requests
  BY DEF SendAndCommit, sent
<1>4. dqCommon' \in Seq(Pipeline)
  BY <1>2, <1>3, CommitWritesType DEF TypeOK
<1>5. /\ AllSingle(dqCommon')
      /\ Len(dqCommon') = Len(sent)
      /\ \A i \in DOMAIN sent : dqCommon'[i].sn = sent[i].sn
  BY <1>2, <1>3, CommitWritesKeeps
<1>6. Len(dqCommon') >= Len(dq) /\ \A i \in DOMAIN dq : dqCommon'[i].sn = dq[i].sn
  <2>1. DOMAIN dq \subseteq DOMAIN sent /\ Len(sent) >= Len(dq)
    BY <1>1, <1>2
  <2> QED
    BY <1>2, <1>5, <2>1
<1>7. ~link => UNCHANGED requests
  BY <1>3 DEF CommitWrites
<1>8. RepliesMatch'
  BY <1>1, <1>4, <1>6, AnswersLonger DEF SingleInv, RepliesMatch, dq
<1>9. RequestsMatch'
  <2> SUFFICES ASSUME link', readTask' PROVE Awaits(dqCommon', requests', Len(replies'))
    BY DEF RequestsMatch
  <2>1. /\ link = TRUE /\ stream = TRUE /\ bConnected
        /\ Awaits(dq, requests, Len(replies))
    BY <1>1 DEF SingleInv, LinkIsOpen, RequestsMatch, TypeOK, dq
  <2>2. WrittenUpTo(sent, Len(dq))
    BY <1>2, <2>1 DEF Awaits
  <2>3. RequestsFor(requests, sent, Len(replies))
    BY <1>1, <1>2, <2>1, RequestsForLonger
  <2>4. CommitWrites(sent, stream, link)
    BY <1>3, <2>1
  <2>5. PICK r \in Nat : r = Len(replies)
    BY <1>1
  <2>6. PICK m \in 0 .. Len(sent) : m = Len(dq)
    BY <1>2
  <2>7. m = r + Len(requests) /\ WrittenUpTo(sent, m) /\ RequestsFor(requests, sent, r)
    BY <2>1, <2>2, <2>3, <2>5, <2>6 DEF Awaits
  <2>8. Awaits(dqCommon', requests', r)
    BY <1>2, <2>1, <2>4, <2>7, CommitWritesAwaits
  <2> QED
    BY <1>1, <2>5, <2>8
<1>10. LinkIsOpen' /\ NothingUnderWay' /\ OnlyOwnRefused' /\ TailReplyDelivered'
  BY <1>1, <1>7 DEF SingleInv, LinkIsOpen, NothingUnderWay, OnlyOwnRefused, TailReplyDelivered
<1> QED
  BY <1>5, <1>8, <1>9, <1>10 DEF SingleInv

(* The reply that is read is that of the front pipeline, and its only one. *)
LEMMA FrontIsAnswered ==
    ASSUME TypeOK, AllSingle(dqCommon), RepliesMatch, HasReply, dqCommon # <<>>
    PROVE  /\ Head(replies) \in Reply /\ Tail(replies) \in Seq(Reply)
           /\ Head(replies) = replies[1] /\ Len(replies) \in Nat \ {0}
           /\ Head(replies).sn = Head(dqCommon).sn
           /\ Head(replies).idx = 1
           /\ Head(dqCommon) \in Pipeline
           /\ Single(Head(dqCommon))
           /\ IsTail
<1>1. /\ replies \in Seq(Reply) /\ replies # <<>> /\ readTask /\ dqCommon \in Seq(Pipeline)
  BY DEF TypeOK, HasReply
<1>2. /\ Head(replies) \in Reply /\ Tail(replies) \in Seq(Reply)
      /\ Head(replies) = replies[1] /\ 1 \in DOMAIN replies /\ Len(replies) \in Nat \ {0}
  BY <1>1, HeadTailProperties, EmptySeq
<1>3. Head(dqCommon) \in Pipeline /\ Head(dqCommon) = dqCommon[1] /\ Single(Head(dqCommon))
  BY <1>1, HeadTailProperties, SinglePopped
<1>4. Head(replies).sn = Head(dqCommon).sn /\ Head(replies).idx = 1
  BY <1>1, <1>2, <1>3 DEF RepliesMatch, Answers
<1>5. IsTail
  <2> DEFINE cp == Head(dqCommon)
  <2>1. cp \in Pipeline /\ cp.built_num = 1
    BY <1>3 DEF Single
  <2>2. Counted = [cp EXCEPT !.processed_num = cp.processed_num + 1, !.state = PROCESSING]
    BY DEF Counted
  <2> HIDE DEF cp
  <2>3. Counted.processed_num = cp.processed_num + 1 /\ Counted.built_num = 1
    BY <2>1, <2>2 DEF Pipeline
  <2> QED
    BY <2>1, <2>3 DEF IsTail, Pipeline
<1> QED
  BY <1>2, <1>3, <1>4, <1>5

(* The deque stays one of single commands. *)
LEMMA SingleStaysSingle ==
    ASSUME TypeOK, SingleInv, ConnProgress \/ ConnFault
    PROVE  AllSingle(dqCommon')
<1> USE DEF delayVars, tcpVars, serverVars, receiveFrame
<1>1. dqCommon \in Seq(Pipeline) /\ AllSingle(dqCommon) /\ RepliesMatch
  BY DEF TypeOK, SingleInv
<1>2. CASE CommitLoopTimer
  BY <1>1, <1>2, CommitWritesKeeps DEF CommitLoopTimer
<1>3. CASE ConnectSucceeds
  <2> DEFINE rebuilt == Rebuilt(dqInit, dqCommon)
             sent    == Resent(rebuilt)
  <2>1. AllSingle(dqInit)
    BY DEF dqInit, CreateCmdPipeline, AllSingle, Single
  <2>2. rebuilt \in Seq(Pipeline) /\ AllSingle(rebuilt)
    BY <1>1, <2>1, InitPipelinesType, RebuiltType, SingleRebuilt
  <2>3. SENDING \in PipelineState
    BY DEF SENDING, PipelineState, QUEUEING, PROCESS_OVER
  <2> HIDE DEF rebuilt
  <2>4. sent \in Seq(Pipeline) /\ AllSingle(sent)
    BY <2>2, <2>3, MarkedType, SingleMarked DEF Resent
  <2>5. CommitWrites(sent, TRUE, link')
    BY <1>3 DEF ConnectSucceeds, rebuilt
  <2> HIDE DEF sent
  <2> QED
    BY <2>4, <2>5, CommitWritesKeeps
<1>4. CASE ReceiveNonTail
  BY <1>1, <1>4, FrontIsAnswered DEF ReceiveNonTail, IsExpected
<1>5. CASE ReceiveBadSha
  <2>1. /\ dqCommon # <<>> /\ IsRefused /\ HasReply
        /\ dqCommon' = <<Counted>> \o Tail(dqCommon)
    BY <1>5 DEF ReceiveBadSha, IsExpected
  <2>2. Single(Head(dqCommon)) /\ Head(dqCommon) \in Pipeline /\ Head(dqCommon).sn = 0
    BY <1>1, <2>1, FrontIsAnswered DEF IsRefused
  <2>3. Counted \in Pipeline /\ Single(Counted)
    <3>1. Counted \in Pipeline /\ Counted.sn = 0
      BY <2>1, <2>2, CountedType
    <3>2. Counted.built_num = 1
      BY <2>2 DEF Counted, Single, Pipeline
    <3> QED
      BY <3>1, <3>2 DEF Single
  <2> QED
    BY <1>1, <2>1, <2>3, SingleFrontReplaced
<1>6. CASE ReceiveTail
  BY <1>1, <1>6, SinglePopped DEF ReceiveTail, IsExpected
<1>7. CASE ResetAfterFailure
  <2>1. QUEUEING \in PipelineState
    BY DEF PipelineState, QUEUEING, PROCESS_OVER
  <2> QED
    BY <1>1, <1>7, <2>1, SingleMarked DEF ResetAfterFailure
<1>8. ConnectThenReadThrows \/ ConnectFails \/ ReceiveError \/ ReceiveUnexpected \/ ReadFails
        \/ DelayElapsed \/ LoseLink \/ ServerExecutes
        => dqCommon' = dqCommon
  BY DEF ConnectThenReadThrows, ConnectFails, ReceiveError, ReceiveUnexpected, ReadFails,
         DelayElapsed, LoseLink, ServerExecutes
<1> QED
  BY <1>1, <1>2, <1>3, <1>4, <1>5, <1>6, <1>7, <1>8
     DEF ConnProgress, LoopStep, OnClientReceive, ConnFault

(* A link that is up is that of the stream, of a connection that was made; and between
   two connections nothing is under way: one connection task, or timer, excludes the
   read loop. *)
LEMMA LinkStays ==
    ASSUME TaskInv, LinkIsOpen, NothingUnderWay, ConnProgress \/ ConnFault
    PROVE  LinkIsOpen' /\ NothingUnderWay'
<1> USE DEF delayVars, tcpVars, serverVars, receiveFrame
<1>1. /\ link => stream /\ bConnected
      /\ connectTask \/ delayTasks > 0 => ~link /\ requests = <<>> /\ replies = <<>>
      /\ readTask => ~connectTask /\ ~(delayTasks > 0)
      /\ connectTask => ~(delayTasks > 0)
  BY DEF LinkIsOpen, NothingUnderWay, TaskInv
<1> USE DEF LinkIsOpen, NothingUnderWay
<1>2. CASE CommitLoopTimer
  <2>1. UNCHANGED <<link, stream, bConnected, connectTask, delayTasks, replies>>
    BY <1>2 DEF CommitLoopTimer
  <2>2. ~link => requests' = requests
    BY <1>2 DEF CommitLoopTimer, CommitWrites
  <2> QED
    BY <1>1, <2>1, <2>2
<1>3. CASE ConnectSucceeds
  <2>1. connectTask /\ ~connectTask' /\ delayTasks' = delayTasks /\ stream' /\ bConnected'
    BY <1>3 DEF ConnectSucceeds
  <2> QED
    BY <1>1, <2>1
<1>4. CASE ConnectThenReadThrows
  <2>1. connectTask /\ ~connectTask' /\ delayTasks' = delayTasks /\ ~link'
    BY <1>4 DEF ConnectThenReadThrows
  <2> QED
    BY <1>1, <2>1
<1>5. CASE ConnectFails
  <2>1. connectTask /\ ~connectTask' /\ UNCHANGED <<delayTasks, link, stream, bConnected>>
    BY <1>5 DEF ConnectFails
  <2> QED
    BY <1>1, <2>1
<1>6. CASE OnClientReceive \/ ReadFails
  <2>1. readTask /\ UNCHANGED <<link, stream, bConnected, connectTask, delayTasks>>
    BY <1>6 DEF OnClientReceive, ReadFails, ReceiveError, ReceiveUnexpected, ReceiveNonTail,
                ReceiveBadSha, ReceiveTail, HasReply
  <2> QED
    BY <1>1, <2>1
<1>7. CASE ResetAfterFailure
  <2>1. ~link' /\ requests' = <<>> /\ replies' = <<>>
    BY <1>7 DEF ResetAfterFailure, BuilderReset
  <2> QED
    BY <2>1
<1>8. CASE DelayElapsed
  <2>1. delayTasks > 0 /\ UNCHANGED <<link, requests, replies>>
    BY <1>8 DEF DelayElapsed
  <2> QED
    BY <1>1, <2>1
<1>9. CASE LoseLink
  <2>1. link /\ ~link' /\ UNCHANGED <<connectTask, delayTasks>>
    BY <1>9 DEF LoseLink
  <2> QED
    BY <1>1, <2>1
<1>10. CASE ServerExecutes
  <2>1. link /\ UNCHANGED <<link, stream, bConnected, connectTask, delayTasks>>
    BY <1>10 DEF ServerExecutes
  <2> QED
    BY <1>1, <2>1
<1> QED
  BY <1>2, <1>3, <1>4, <1>5, <1>6, <1>7, <1>8, <1>9, <1>10 DEF ConnProgress, LoopStep, ConnFault

(* The next reply is read, and its pipeline popped. *)
LEMMA AnswersPopped ==
    ASSUME NEW rps \in Seq(Reply), NEW dq \in Seq(Pipeline), rps # <<>>, dq # <<>>,
           Answers(rps, dq)
    PROVE  Answers(Tail(rps), Tail(dq))
<1> DEFINE rrest == Tail(rps)
           drest == Tail(dq)
<1>1. /\ Len(rps) \in Nat \ {0} /\ Len(dq) \in Nat \ {0} /\ DOMAIN rps = 1 .. Len(rps)
  BY EmptySeq
<1>2. /\ Len(rrest) = Len(rps) - 1 /\ DOMAIN rrest = 1 .. (Len(rps) - 1)
      /\ \A k \in 1 .. (Len(rps) - 1) : rrest[k] = rps[k + 1]
  BY <1>1, HeadTailProperties
<1>3. /\ Len(drest) = Len(dq) - 1
      /\ \A k \in 1 .. (Len(dq) - 1) : drest[k] = dq[k + 1]
  BY <1>1, HeadTailProperties
<1> HIDE DEF rrest, drest
<1>4. ASSUME NEW k \in DOMAIN rrest PROVE rrest[k].sn = drest[k].sn /\ rrest[k].idx = 1
  <2>1. k + 1 \in DOMAIN rps /\ k \in 1 .. (Len(rps) - 1) /\ k \in 1 .. (Len(dq) - 1)
    BY <1>1, <1>2 DEF Answers
  <2> QED
    BY <1>2, <1>3, <2>1 DEF Answers
<1>5. Len(rrest) <= Len(drest)
  BY <1>1, <1>2, <1>3 DEF Answers
<1> QED
  BY <1>4, <1>5 DEF Answers, rrest, drest

LEMMA AwaitsPopped ==
    ASSUME NEW rqs \in Seq(Request), NEW dq \in Seq(Pipeline), dq # <<>>, NEW r \in Nat \ {0},
           Awaits(dq, rqs, r)
    PROVE  Awaits(Tail(dq), rqs, r - 1)
<1> DEFINE drest == Tail(dq)
<1>1. Len(dq) \in Nat \ {0} /\ DOMAIN dq = 1 .. Len(dq) /\ Len(rqs) \in Nat /\ DOMAIN rqs = 1 .. Len(rqs)
  BY EmptySeq
<1>2. /\ Len(drest) = Len(dq) - 1 /\ DOMAIN drest = 1 .. (Len(dq) - 1)
      /\ \A k \in 1 .. (Len(dq) - 1) : drest[k] = dq[k + 1]
  BY <1>1, HeadTailProperties
<1> HIDE DEF drest
<1>3. ASSUME NEW i \in DOMAIN drest PROVE drest[i].state >= COMMITTING /\ drest[i].processed_num = 0
  <2>1. i + 1 \in DOMAIN dq /\ drest[i] = dq[i + 1]
    BY <1>1, <1>2
  <2> QED
    BY <2>1 DEF Awaits
<1>4. ASSUME NEW k \in DOMAIN rqs PROVE rqs[k] = RequestOf(drest[(r - 1) + k])
  <2>1. (r - 1) + k \in 1 .. (Len(dq) - 1) /\ ((r - 1) + k) + 1 = r + k
    BY <1>1 DEF Awaits
  <2>2. drest[(r - 1) + k] = dq[r + k]
    BY <1>2, <2>1
  <2> QED
    BY <2>2 DEF Awaits, RequestsFor
<1>5. Len(drest) = (r - 1) + Len(rqs)
  BY <1>1, <1>2 DEF Awaits
<1> QED
  BY <1>3, <1>4, <1>5 DEF Awaits, RequestsFor, drest

(* Of the replies under way a prefix arrives. *)
LEMMA AnswersPrefix ==
    ASSUME NEW rps \in Seq(Reply), NEW dq \in Seq(Pipeline), Answers(rps, dq),
           NEW n \in 0 .. Len(rps)
    PROVE  /\ Answers(SubSeq(rps, 1, n), dq)
           /\ Len(SubSeq(rps, 1, n)) = n /\ SubSeq(rps, 1, n) \in Seq(Reply)
           /\ \A k \in 1 .. n : SubSeq(rps, 1, n)[k] = rps[k]
<1> DEFINE part == SubSeq(rps, 1, n)
<1>1. Len(rps) \in Nat /\ DOMAIN rps = 1 .. Len(rps) /\ Len(dq) \in Nat /\ n \in Nat
  OBVIOUS
<1>2. \A i \in 1 .. n : rps[i] \in Reply
  BY <1>1
<1>3. /\ part \in Seq(Reply) /\ Len(part) = n
      /\ \A i \in 1 .. n : part[i] = rps[i]
  BY <1>1, <1>2, SubSeqProperties
<1>4. DOMAIN part = 1 .. n /\ 1 .. n \subseteq DOMAIN rps
  BY <1>1, <1>3
<1> HIDE DEF part
<1>5. Answers(part, dq)
  BY <1>1, <1>3, <1>4 DEF Answers
<1> QED
  BY <1>3, <1>5 DEF part

(* The next request is executed. *)
LEMMA NextIsServed ==
    ASSUME NEW rps \in Seq(Reply), NEW rqs \in Seq(Request), NEW dq \in Seq(Pipeline),
           rqs # <<>>, Answers(rps, dq), Awaits(dq, rqs, Len(rps)), AllSingle(dq),
           NEW kind \in ReplyKind
    PROVE  /\ Len(rps) + 1 \in DOMAIN dq
           /\ Head(rqs).sn = dq[Len(rps) + 1].sn
           /\ Head(rqs).built_num = 1 /\ Head(rqs).served = 0
           /\ Answers(Append(rps, [sn |-> Head(rqs).sn, idx |-> 1, kind |-> kind]), dq)
           /\ Awaits(dq, Tail(rqs), Len(rps) + 1)
<1> DEFINE n    == Len(rps)
           new  == [sn |-> Head(rqs).sn, idx |-> 1, kind |-> kind]
           more == Append(rps, new)
           rest == Tail(rqs)
<1>1. /\ n \in Nat /\ DOMAIN rps = 1 .. n /\ Len(dq) \in Nat /\ DOMAIN dq = 1 .. Len(dq)
      /\ Len(rqs) \in Nat \ {0} /\ DOMAIN rqs = 1 .. Len(rqs)
  BY EmptySeq
<1>2. /\ Head(rqs) = rqs[1] /\ Head(rqs) \in Request
      /\ Len(rest) = Len(rqs) - 1 /\ DOMAIN rest = 1 .. (Len(rqs) - 1)
      /\ \A k \in 1 .. (Len(rqs) - 1) : rest[k] = rqs[k + 1]
  BY <1>1, HeadTailProperties
<1>3. n + 1 \in DOMAIN dq /\ 1 \in DOMAIN rqs /\ Len(dq) = n + Len(rqs)
  BY <1>1 DEF Awaits
<1>4. Head(rqs) = RequestOf(dq[n + 1])
  BY <1>2, <1>3 DEF Awaits, RequestsFor
<1>5. Head(rqs).sn = dq[n + 1].sn /\ Head(rqs).built_num = 1 /\ Head(rqs).served = 0
  BY <1>3, <1>4 DEF RequestOf, AllSingle, Single
<1>6. new \in Reply
  BY <1>2 DEF Reply, Request
<1>7. new.sn = dq[n + 1].sn /\ new.idx = 1
  BY <1>5
<1> HIDE DEF new
<1>8. /\ Len(more) = n + 1 /\ DOMAIN more = 1 .. (n + 1)
      /\ \A k \in 1 .. n : more[k] = rps[k]
      /\ more[n + 1] = new
  BY <1>1, <1>6, AppendProperties
<1> HIDE DEF more, rest, n
<1>9. ASSUME NEW k \in DOMAIN more PROVE more[k].sn = dq[k].sn /\ more[k].idx = 1
  <2>1. CASE k \in 1 .. n
    BY <1>1, <1>8, <2>1 DEF Answers, n
  <2>2. CASE k = n + 1
    BY <1>7, <1>8, <2>2
  <2> QED
    BY <1>1, <1>8, <2>1, <2>2
<1>10. Len(more) <= Len(dq)
  BY <1>1, <1>3, <1>8
<1>11. ASSUME NEW k \in DOMAIN rest PROVE rest[k] = RequestOf(dq[(n + 1) + k])
  <2>1. k + 1 \in DOMAIN rqs /\ rest[k] = rqs[k + 1] /\ n + (k + 1) = (n + 1) + k
    BY <1>1, <1>2
  <2>2. rqs[k + 1] = RequestOf(dq[n + (k + 1)])
    BY <2>1 DEF Awaits, RequestsFor, n
  <2> QED
    BY <2>1, <2>2
<1>12. Len(dq) = (n + 1) + Len(rest)
  BY <1>1, <1>2, <1>3
<1>13. Answers(more, dq)
  BY <1>9, <1>10 DEF Answers
<1>14. Awaits(dq, rest, n + 1)
  BY <1>11, <1>12 DEF Awaits, RequestsFor
<1> QED
  BY <1>3, <1>5, <1>13, <1>14 DEF more, rest, n, new

(* What the server does next, on a link whose replies are read. *)
LEMMA ServerAnswersNext ==
    ASSUME TypeOK, SingleInv, ServerExecutes, readTask
    PROVE  \E kind \in ReplyKind :
              /\ Len(replies) + 1 \in DOMAIN dqCommon
              /\ replies' = Append(replies, [sn   |-> dqCommon[Len(replies) + 1].sn,
                                             idx  |-> 1,
                                             kind |-> kind])
              /\ kind = "badsha" => dqCommon[Len(replies) + 1].sn = 0
              /\ Answers(replies', dqCommon)
              /\ Awaits(dqCommon, requests', Len(replies'))
<1> DEFINE r    == Head(requests)
           rest == IF r.served + 1 >= r.built_num THEN Tail(requests)
                   ELSE <<[r EXCEPT !.served = r.served + 1]>> \o Tail(requests)
<1>1. /\ link /\ requests # <<>>
      /\ dqCommon \in Seq(Pipeline) /\ requests \in Seq(Request) /\ replies \in Seq(Reply)
      /\ Answers(replies, dqCommon) /\ Awaits(dqCommon, requests, Len(replies))
      /\ AllSingle(dqCommon)
  BY DEF ServerExecutes, SingleInv, RepliesMatch, RequestsMatch, TypeOK
<1>2. /\ Len(replies) + 1 \in DOMAIN dqCommon
      /\ r.sn = dqCommon[Len(replies) + 1].sn
      /\ r.built_num = 1 /\ r.served = 0
      /\ Awaits(dqCommon, Tail(requests), Len(replies) + 1)
  BY <1>1, NextIsServed DEF ReplyKind
<1>3. rest = Tail(requests) /\ r.built_num # 0 /\ r.served + 1 = 1
  BY <1>2
<1>4. PICK kind \in ReplyKind :
        /\ requests' = rest
        /\ replies' = Append(replies, [sn |-> r.sn, idx |-> r.served + 1, kind |-> kind])
        /\ kind = "badsha" => r.sn = 0
  <2> HIDE DEF rest
  <2> QED
    BY <1>3 DEF ServerExecutes, rest
<1> HIDE DEF r, rest
<1>5. replies' = Append(replies, [sn |-> r.sn, idx |-> 1, kind |-> kind])
  BY <1>3, <1>4
<1>6. Answers(replies', dqCommon)
  BY <1>1, <1>5, NextIsServed DEF r
<1>7. Len(replies') = Len(replies) + 1
  <2>1. r \in Request
    BY <1>1, HeadTailProperties DEF r
  <2>2. [sn |-> r.sn, idx |-> 1, kind |-> kind] \in Reply
    BY <2>1 DEF Reply, Request
  <2> QED
    BY <1>1, <1>5, <2>2, AppendProperties
<1>8. Awaits(dqCommon, requests', Len(replies'))
  BY <1>2, <1>3, <1>4, <1>7
<1> QED
  BY <1>2, <1>4, <1>5, <1>6, <1>8

(* The replies under way stay those of the front of the deque, and the requests, as
   long as the link is up, those of the rest. *)
LEMMA WireStays ==
    ASSUME TypeOK, TaskInv, SingleInv, ConnProgress \/ ConnFault
    PROVE  RepliesMatch' /\ RequestsMatch'
<1> USE DEF delayVars, tcpVars, serverVars, receiveFrame
<1>1. /\ dqCommon \in Seq(Pipeline) /\ AllSingle(dqCommon) /\ RepliesMatch /\ RequestsMatch
      /\ replies \in Seq(Reply) /\ requests \in Seq(Request)
      /\ Len(replies) \in Nat /\ Len(requests) \in Nat
      /\ link \in BOOLEAN /\ stream \in BOOLEAN
  BY DEF TypeOK, SingleInv
<1>2. CASE CommitLoopTimer
  <2>1. CommitWrites(dqCommon, stream, link) /\ UNCHANGED <<link, readTask, replies>>
    BY <1>2 DEF CommitLoopTimer
  <2>2. dqCommon' \in Seq(Pipeline)
    BY <1>1, <2>1, CommitWritesType DEF TypeOK
  <2>3. Len(dqCommon') = Len(dqCommon) /\ \A i \in DOMAIN dqCommon : dqCommon'[i].sn = dqCommon[i].sn
    BY <1>1, <2>1, CommitWritesKeeps
  <2>4. RepliesMatch'
    <3>1. Len(dqCommon') >= Len(dqCommon)
      BY <1>1, <2>3
    <3>2. readTask => Answers(replies, dqCommon')
      BY <1>1, <2>2, <2>3, <3>1, AnswersLonger DEF RepliesMatch
    <3> QED
      BY <2>1, <3>2 DEF RepliesMatch
  <2>5. ASSUME link', readTask' PROVE Awaits(dqCommon', requests', Len(replies'))
    <3>1. link = TRUE /\ stream = TRUE /\ Awaits(dqCommon, requests, Len(replies))
      BY <1>1, <2>1, <2>5 DEF RequestsMatch, SingleInv, LinkIsOpen
    <3>2. PICK r \in Nat : r = Len(replies)
      BY <1>1
    <3>3. PICK m \in 0 .. Len(dqCommon) : m = Len(dqCommon)
      BY <1>1
    <3>4. /\ m = r + Len(requests) /\ RequestsFor(requests, dqCommon, r)
          /\ WrittenUpTo(dqCommon, m)
      BY <1>1, <3>1, <3>2, <3>3 DEF Awaits, WrittenUpTo
    <3>5. Awaits(dqCommon', requests', r)
      BY <1>1, <2>1, <3>1, <3>4, CommitWritesAwaits
    <3> QED
      BY <2>1, <3>2, <3>5
  <2> QED
    BY <2>4, <2>5 DEF RequestsMatch
<1>3. CASE ConnectSucceeds
  <2> DEFINE rebuilt == Rebuilt(dqInit, dqCommon)
             sent    == Resent(rebuilt)
  <2>1. connectTask /\ UNCHANGED replies /\ CommitWrites(sent, TRUE, link')
    BY <1>3 DEF ConnectSucceeds
  <2>2. requests = <<>> /\ replies = <<>>
    BY <2>1 DEF SingleInv, NothingUnderWay
  <2>3. rebuilt \in Seq(Pipeline)
    BY <1>1, InitPipelinesType, RebuiltType
  <2>4. \A i \in DOMAIN rebuilt : rebuilt[i].processed_num = 0
    <3>1. \A i \in DOMAIN dqInit : dqInit[i].processed_num = 0
      BY DEF dqInit, CreateCmdPipeline
    <3>2. \A i \in DOMAIN dqCommon : dqCommon[i].sn > 0 => dqCommon[i].processed_num = 0
      BY <1>1 DEF AllSingle, Single
    <3>3. \A i \in DOMAIN rebuilt :
             \/ \E j \in DOMAIN dqInit : rebuilt[i] = dqInit[j]
             \/ \E j \in DOMAIN dqCommon : dqCommon[j].sn > 0 /\ rebuilt[i] = dqCommon[j]
      BY <1>1, InitPipelinesType, RebuiltMembers
    <3> HIDE DEF rebuilt
    <3> QED
      BY <3>1, <3>2, <3>3
  <2> HIDE DEF rebuilt
  <2>5. SENDING \in PipelineState
    BY DEF SENDING, PipelineState, QUEUEING, PROCESS_OVER
  <2>6. sent \in Seq(Pipeline) /\ WrittenUpTo(sent, 0)
    <3>1. /\ sent \in Seq(Pipeline) /\ DOMAIN sent = DOMAIN rebuilt
          /\ \A i \in DOMAIN rebuilt : /\ sent[i].processed_num = rebuilt[i].processed_num
                                       /\ sent[i].state = SENDING
      BY <2>3, <2>5, MarkedType DEF Resent
    <3>2. \A i \in DOMAIN rebuilt : ~(i <= 0)
      BY <2>3
    <3> HIDE DEF sent
    <3> QED
      BY <2>4, <3>1, <3>2 DEF WrittenUpTo
  <2> HIDE DEF sent
  <2>7. RepliesMatch'
    <3>1. replies' = <<>> /\ DOMAIN <<>> = {} /\ Len(<<>>) = 0
      BY <2>1, <2>2
    <3>2. dqCommon' \in Seq(Pipeline)
      BY <2>1, <2>6, CommitWritesType DEF TypeOK
    <3> QED
      BY <3>1, <3>2 DEF RepliesMatch, Answers
  <2>8. ASSUME link' PROVE Awaits(dqCommon', requests', Len(replies'))
    <3>1. link' = TRUE
      BY <1>3, <2>8 DEF ConnectSucceeds
    <3>2. 0 \in Nat /\ 0 \in 0 .. Len(sent) /\ 0 = 0 + Len(requests) /\ RequestsFor(requests, sent, 0)
      BY <2>2, <2>6 DEF RequestsFor
    <3>3. Awaits(dqCommon', requests', 0)
      BY <2>1, <2>6, <3>1, <3>2, CommitWritesAwaits
    <3> QED
      BY <2>1, <2>2, <3>3
  <2> QED
    BY <2>7, <2>8 DEF RequestsMatch
<1>4. CASE ReceiveNonTail
  BY <1>1, <1>4, FrontIsAnswered DEF ReceiveNonTail, IsExpected
<1>5. CASE ReceiveTail
  <2>1. /\ HasReply /\ dqCommon # <<>> /\ replies # <<>> /\ readTask
        /\ replies' = Tail(replies) /\ dqCommon' = Tail(dqCommon)
        /\ UNCHANGED <<link, requests, readTask>>
    BY <1>5 DEF ReceiveTail, HasReply, IsExpected
  <2>2. Answers(replies', dqCommon')
    BY <1>1, <2>1, AnswersPopped DEF RepliesMatch
  <2>3. link => Awaits(dqCommon', requests', Len(replies) - 1)
    <3>1. Len(replies) \in Nat \ {0}
      BY <1>1, <2>1, EmptySeq
    <3> QED
      BY <1>1, <2>1, <3>1, AwaitsPopped DEF RequestsMatch
  <2>4. Len(replies') = Len(replies) - 1
    BY <1>1, <2>1, HeadTailProperties
  <2> QED
    BY <2>1, <2>2, <2>3, <2>4 DEF RepliesMatch, RequestsMatch
<1>6. CASE LoseLink
  <2>1. PICK n \in 0 .. Len(replies) : replies' = SubSeq(replies, 1, n)
    BY <1>6 DEF LoseLink
  <2>2. ~link' /\ UNCHANGED <<readTask, dqCommon>>
    BY <1>6 DEF LoseLink
  <2> QED
    BY <1>1, <2>1, <2>2, AnswersPrefix DEF RepliesMatch, RequestsMatch
<1>7. CASE ServerExecutes
  <2>1. UNCHANGED <<readTask, dqCommon>>
    BY <1>7 DEF ServerExecutes
  <2>2. readTask => Answers(replies', dqCommon) /\ Awaits(dqCommon, requests', Len(replies'))
    BY <1>7, ServerAnswersNext
  <2> QED
    BY <2>1, <2>2 DEF RepliesMatch, RequestsMatch
<1>8. CASE ReceiveError \/ ReceiveUnexpected \/ ReceiveBadSha \/ ReadFails \/ ResetAfterFailure
  <2>1. ~readTask'
    BY <1>8 DEF ReceiveError, ReceiveUnexpected, ReceiveBadSha, ReadFails, ResetAfterFailure,
                ReadTaskThrows
  <2> QED
    BY <2>1 DEF RepliesMatch, RequestsMatch
<1>9. CASE ConnectThenReadThrows
  <2>1. ~link' /\ UNCHANGED <<readTask, replies, dqCommon>>
    BY <1>9 DEF ConnectThenReadThrows
  <2> QED
    BY <1>1, <2>1 DEF RepliesMatch, RequestsMatch
<1>10. CASE ConnectFails \/ DelayElapsed
  <2>1. UNCHANGED <<readTask, replies, requests, link, dqCommon>>
    BY <1>10 DEF ConnectFails, DelayElapsed
  <2> QED
    BY <1>1, <2>1 DEF RepliesMatch, RequestsMatch
<1> QED
  BY <1>2, <1>3, <1>4, <1>5, <1>6, <1>7, <1>8, <1>9, <1>10
     DEF ConnProgress, LoopStep, OnClientReceive, ConnFault

(* Nobody else's command is refused, and every callback gets its own tail reply. *)
LEMMA RepliesStayOwn ==
    ASSUME TypeOK, SingleInv, ConnProgress \/ ConnFault
    PROVE  OnlyOwnRefused' /\ TailReplyDelivered'
<1> USE DEF delayVars, tcpVars, serverVars, receiveFrame
<1>1. /\ dqCommon \in Seq(Pipeline) /\ AllSingle(dqCommon) /\ RepliesMatch
      /\ replies \in Seq(Reply) /\ completed \in Seq(Completion)
      /\ OnlyOwnRefused /\ TailReplyDelivered
  BY DEF TypeOK, SingleInv
<1>2. CASE ReceiveTail
  <2>1. /\ HasReply /\ dqCommon # <<>> /\ replies # <<>> /\ replies' = Tail(replies)
        /\ completed' = IF Head(dqCommon).sn = 0
                        THEN completed
                        ELSE Append(completed, CompletionOf(Head(dqCommon), Head(replies)))
    BY <1>2 DEF ReceiveTail, HasReply, IsExpected
  <2>2. OnlyOwnRefused'
    <3>1. /\ Len(replies) \in Nat \ {0} /\ DOMAIN replies = 1 .. Len(replies)
          /\ Len(replies') = Len(replies) - 1 /\ DOMAIN replies' = 1 .. (Len(replies) - 1)
          /\ \A k \in 1 .. (Len(replies) - 1) : replies'[k] = replies[k + 1]
      BY <1>1, <2>1, EmptySeq, HeadTailProperties
    <3>2. \A k \in 1 .. (Len(replies) - 1) : k + 1 \in DOMAIN replies
      BY <3>1
    <3> QED
      BY <1>1, <3>1, <3>2 DEF OnlyOwnRefused
  <2>3. TailReplyDelivered'
    <3> DEFINE new == CompletionOf(Head(dqCommon), Head(replies))
    <3>1. /\ Head(replies).sn = Head(dqCommon).sn /\ Head(replies).idx = 1
          /\ Head(dqCommon).built_num = 1
          /\ Head(replies) \in Reply /\ Head(dqCommon) \in Pipeline
      BY <1>1, <2>1, FrontIsAnswered DEF Single
    <3>2. new \in Completion
      BY <3>1 DEF CompletionOf, Completion, Pipeline
    <3>3. new.reply.sn = new.sn /\ new.reply.idx = new.built_num
      BY <3>1 DEF CompletionOf
    <3> HIDE DEF new
    <3>4. CASE completed' = Append(completed, new)
      <4>1. /\ Len(completed) \in Nat /\ DOMAIN completed = 1 .. Len(completed)
            /\ DOMAIN completed' = 1 .. (Len(completed) + 1)
            /\ \A i \in 1 .. Len(completed) : completed'[i] = completed[i]
            /\ completed'[Len(completed) + 1] = new
        BY <1>1, <3>2, <3>4, AppendProperties
      <4>2. ASSUME NEW i \in DOMAIN completed'
            PROVE  /\ completed'[i].reply.sn = completed'[i].sn
                   /\ completed'[i].reply.idx = completed'[i].built_num
        <5>1. CASE i \in DOMAIN completed
          BY <1>1, <4>1, <5>1 DEF TailReplyDelivered
        <5>2. CASE i = Len(completed) + 1
          BY <3>3, <4>1, <5>2
        <5> QED
          BY <4>1, <5>1, <5>2
      <4> QED
        BY <4>2 DEF TailReplyDelivered
    <3>5. CASE completed' = completed
      BY <1>1, <3>5 DEF TailReplyDelivered
    <3> QED
      BY <2>1, <3>4, <3>5 DEF new
  <2> QED
    BY <2>2, <2>3
<1>3. CASE ServerExecutes
  <2>1. UNCHANGED completed
    BY <1>3 DEF ServerExecutes
  <2>2. \/ replies' = replies
        \/ \E new \in Reply : /\ replies' = Append(replies, new)
                              /\ new.kind = "badsha" => new.sn = 0
    <3> DEFINE r == Head(requests)
    <3>1. r \in Request
      BY <1>3, HeadTailProperties DEF ServerExecutes, TypeOK
    <3>2. ASSUME NEW kind \in ReplyKind
          PROVE  /\ [sn |-> r.sn, idx |-> r.served + 1, kind |-> kind] \in Reply
                 /\ [sn |-> r.sn, idx |-> r.served + 1, kind |-> kind].kind = kind
                 /\ [sn |-> r.sn, idx |-> r.served + 1, kind |-> kind].sn = r.sn
      BY <3>1 DEF Reply, Request
    <3>3. \/ replies' = replies
          \/ \E kind \in ReplyKind :
                /\ replies' = Append(replies, [sn |-> r.sn, idx |-> r.served + 1, kind |-> kind])
                /\ kind = "badsha" => r.sn = 0
      BY <1>3 DEF ServerExecutes
    <3> HIDE DEF r
    <3> QED
      BY <3>2, <3>3
  <2>3. ASSUME NEW new \in Reply, replies' = Append(replies, new),
               new.kind = "badsha" => new.sn = 0
        PROVE  OnlyOwnRefused'
    <3>1. /\ Len(replies) \in Nat /\ DOMAIN replies = 1 .. Len(replies)
          /\ DOMAIN replies' = 1 .. (Len(replies) + 1)
          /\ \A k \in 1 .. Len(replies) : replies'[k] = replies[k]
          /\ replies'[Len(replies) + 1] = new
      BY <1>1, <2>3, AppendProperties
    <3>2. \A k \in DOMAIN replies' : k \in DOMAIN replies \/ k = Len(replies) + 1
      BY <3>1
    <3> QED
      BY <1>1, <2>3, <3>1, <3>2 DEF OnlyOwnRefused
  <2>4. CASE replies' = replies
    BY <1>1, <2>1, <2>4 DEF OnlyOwnRefused, TailReplyDelivered
  <2> QED
    BY <1>1, <2>1, <2>2, <2>3, <2>4 DEF TailReplyDelivered
<1>4. CASE LoseLink
  <2>1. PICK n \in 0 .. Len(replies) : replies' = SubSeq(replies, 1, n)
    BY <1>4 DEF LoseLink
  <2>2. UNCHANGED completed
    BY <1>4 DEF LoseLink
  <2>3. /\ n \in Nat /\ Len(replies) \in Nat /\ DOMAIN replies = 1 .. Len(replies)
        /\ 1 .. n \subseteq DOMAIN replies
    BY <1>1
  <2>4. DOMAIN replies' = 1 .. n /\ \A k \in 1 .. n : replies'[k] = replies[k]
    <3>1. \A i \in 1 .. n : replies[i] \in Reply
      BY <1>1, <2>3
    <3> QED
      BY <2>1, <2>3, <3>1, SubSeqProperties
  <2> QED
    BY <1>1, <2>2, <2>3, <2>4 DEF OnlyOwnRefused, TailReplyDelivered
<1>5. CASE ReceiveError \/ ReceiveUnexpected \/ ReceiveNonTail \/ ReceiveBadSha
  <2>1. replies # <<>> /\ replies' = Tail(replies) /\ UNCHANGED completed
    BY <1>5 DEF ReceiveError, ReceiveUnexpected, ReceiveNonTail, ReceiveBadSha, HasReply
  <2>2. /\ Len(replies) \in Nat \ {0} /\ DOMAIN replies = 1 .. Len(replies)
        /\ Len(replies') = Len(replies) - 1 /\ DOMAIN replies' = 1 .. (Len(replies) - 1)
        /\ \A k \in 1 .. (Len(replies) - 1) : replies'[k] = replies[k + 1]
    BY <1>1, <2>1, EmptySeq, HeadTailProperties
  <2>3. \A k \in 1 .. (Len(replies) - 1) : k + 1 \in DOMAIN replies
    BY <2>2
  <2> QED
    BY <1>1, <2>1, <2>2, <2>3 DEF OnlyOwnRefused, TailReplyDelivered
<1>6. CASE ResetAfterFailure
  <2>1. replies' = <<>> /\ UNCHANGED completed /\ DOMAIN <<>> = {}
    BY <1>6 DEF ResetAfterFailure, BuilderReset
  <2> QED
    BY <1>1, <2>1 DEF OnlyOwnRefused, TailReplyDelivered
<1>7. CASE UNCHANGED <<replies, completed>>
  BY <1>1, <1>7 DEF OnlyOwnRefused, TailReplyDelivered
<1>8. CommitLoopTimer \/ ConnectSucceeds \/ ConnectThenReadThrows \/ ConnectFails \/ ReadFails
        \/ DelayElapsed
        => UNCHANGED <<replies, completed>>
  BY DEF CommitLoopTimer, ConnectSucceeds, ConnectThenReadThrows, ConnectFails, ReadFails,
         DelayElapsed
<1> QED
  BY <1>2, <1>3, <1>4, <1>5, <1>6, <1>7, <1>8
     DEF ConnProgress, LoopStep, OnClientReceive, ConnFault

(* Every callback keeps the wire of single commands in step. *)
LEMMA SingleStep ==
    ASSUME TypeOK, TaskInv, SingleInv, ConnProgress \/ ConnFault
    PROVE  SingleInv'
BY SingleStaysSingle, LinkStays, WireStays, RepliesStayOwn DEF SingleInv

(* And so does a caller, if its pipelines are of one command. *)
LEMMA SingleNext ==
    ASSUME BuiltNums \subseteq {1}
    PROVE  TypeOK /\ TaskInv /\ SingleInv /\ [Next]_vars => SingleInv'
<1> SUFFICES ASSUME TypeOK, TaskInv, SingleInv, [Next]_vars PROVE SingleInv'
  OBVIOUS
<1>1. CASE HandOver
  <2>1. PICK n \in 1 .. (MaxCommits - nextSn) : \E built \in [1 .. n -> BuiltNums] :
          SendAndCommit([k \in 1 .. n |-> CreateCmdPipeline(nextSn + k, built[k])])
    BY <1>1 DEF HandOver
  <2>2. PICK built \in [1 .. n -> BuiltNums] :
          SendAndCommit([k \in 1 .. n |-> CreateCmdPipeline(nextSn + k, built[k])])
    BY <2>1
  <2> DEFINE batch == [k \in 1 .. n |-> CreateCmdPipeline(nextSn + k, built[k])]
  <2>3. batch \in Seq(Pipeline)
    BY BatchType, BoundsAssumption DEF TypeOK
  <2>4. \A k \in 1 .. n : built[k] = 1
    OBVIOUS
  <2>5. FreshSingle(batch)
    BY <2>4 DEF FreshSingle, CreateCmdPipeline
  <2>6. SendAndCommit(batch)
    BY <2>2
  <2> HIDE DEF batch
  <2> QED
    BY <2>3, <2>5, <2>6, SendAndCommitSingle
<1>2. CASE ConnProgress \/ ConnFault
  BY <1>2, SingleStep
<1>3. CASE UNCHANGED vars
  BY <1>3 DEF vars, connVars, delayVars, tcpVars, serverVars, SingleInv, LinkIsOpen,
              NothingUnderWay, RepliesMatch, RequestsMatch, OnlyOwnRefused, TailReplyDelivered
<1> QED
  BY <1>1, <1>2, <1>3 DEF Next

LEMMA SingleInvAlways ==
    ASSUME BuiltNums \subseteq {1}
    PROVE  Spec => [](TypeOK /\ TaskInv /\ SingleInv)
BY SingleInit, SingleNext, TaskInvInit, TaskInvNext, TypeInit, TypeNext, PTL DEF Spec

(* A caller whose pipelines are of one command always gets the reply of its own
   command, whatever is lost and sent again. *)
THEOREM SingleTailReplyDelivered ==
    ASSUME BuiltNums \subseteq {1}
    PROVE  Spec => []TailReplyDelivered
<1>1. SingleInv => TailReplyDelivered
  BY DEF SingleInv
<1> QED
  BY <1>1, SingleInvAlways, PTL

(* What is under way on a link that works is what the deque waits for. *)
LEMMA SingleMatches == TypeOK /\ SingleInv => WireMatchesDeque
<1> SUFFICES ASSUME TypeOK, SingleInv, link, readTask PROVE WireMatchesDeque
  BY DEF WireMatchesDeque
<1> DEFINE Commits(cp) == cp.state >= COMMITTING
           S       == Positions(dqCommon, Commits)
           waiting == Selected(dqCommon, S)
           n       == Len(dqCommon)
           r       == Len(replies)
           rk      == [k \in DOMAIN replies |-> <<replies[k].sn, replies[k].idx>>]
           qk      == [k \in DOMAIN requests |-> <<requests[k].sn, requests[k].served + 1>>]
           wk      == [k \in DOMAIN waiting |-> <<waiting[k].sn, waiting[k].processed_num + 1>>]
<1>1. /\ dqCommon \in Seq(Pipeline) /\ replies \in Seq(Reply) /\ requests \in Seq(Request)
      /\ Answers(replies, dqCommon) /\ Awaits(dqCommon, requests, r)
  BY DEF TypeOK, SingleInv, RepliesMatch, RequestsMatch
<1>2. /\ n \in Nat /\ DOMAIN dqCommon = 1 .. n
      /\ r \in Nat /\ DOMAIN replies = 1 .. r
      /\ Len(requests) \in Nat /\ DOMAIN requests = 1 .. Len(requests)
      /\ n = r + Len(requests)
  BY <1>1 DEF Awaits
<1>3. waiting = [k \in 1 .. n |-> dqCommon[k]]
  <2>1. S = (0 + 1) .. n
    BY <1>1, <1>2 DEF Positions, Awaits
  <2>2. Selected(dqCommon, (0 + 1) .. n) = [k \in 1 .. (n - 0) |-> dqCommon[0 + k]]
    <3>1. n \in Nat /\ 0 \in 0 .. n
      BY <1>2
    <3> HIDE DEF n
    <3> QED
      BY <3>1, SelectedSuffix
  <2>3. n - 0 = n /\ \A k \in 1 .. n : 0 + k = k
    BY <1>2
  <2> HIDE DEF S, n
  <2> QED
    BY <2>1, <2>2, <2>3
<1>4. wk = [k \in 1 .. n |-> <<dqCommon[k].sn, 1>>]
  <2>1. \A k \in 1 .. n : dqCommon[k].processed_num + 1 = 1
    BY <1>1, <1>2 DEF Awaits
  <2> HIDE DEF waiting
  <2> QED
    BY <1>3, <2>1
<1>5. rk = [k \in 1 .. r |-> <<dqCommon[k].sn, 1>>]
  BY <1>1, <1>2 DEF Answers
<1>6. qk = [k \in 1 .. (n - r) |-> <<dqCommon[r + k].sn, 1>>]
  <2>1. ASSUME NEW k \in 1 .. (n - r)
        PROVE  requests[k].sn = dqCommon[r + k].sn /\ requests[k].served + 1 = 1
    <3>1. requests[k] = RequestOf(dqCommon[r + k])
      BY <1>1, <1>2 DEF Awaits, RequestsFor
    <3> QED
      BY <3>1 DEF RequestOf
  <2>2. DOMAIN requests = 1 .. (n - r)
    BY <1>2
  <2> QED
    BY <2>1, <2>2
<1> HIDE DEF rk, qk, wk, n, r
<1>7. rk \o qk = wk
  <2>1. wk \in Seq({<<dqCommon[k].sn, 1>> : k \in 1 .. n}) /\ Len(wk) = n
    BY <1>2, <1>4
  <2>2. r \in 0 .. Len(wk)
    BY <1>2, <2>1
  <2>3. [k \in 1 .. r |-> wk[k]] \o [k \in 1 .. (Len(wk) - r) |-> wk[r + k]] = wk
    BY <2>1, <2>2, FirstAndRest
  <2>4. rk = [k \in 1 .. r |-> wk[k]]
    BY <1>2, <1>4, <1>5
  <2>5. qk = [k \in 1 .. (Len(wk) - r) |-> wk[r + k]]
    BY <1>2, <1>4, <1>6, <2>1
  <2> QED
    BY <2>3, <2>4, <2>5
<1> QED
  BY <1>7 DEF WireMatchesDeque, rk, qk, wk, waiting, S, Commits

(* And while a link works, what is under way on it is what the deque waits for. *)
THEOREM SingleWireMatchesDeque ==
    ASSUME BuiltNums \subseteq {1}
    PROVE  Spec => []WireMatchesDeque
BY SingleMatches, SingleInvAlways, PTL

-----------------------------------------------------------------------------
(* The wire, for pipelines of any length, as long as none is sent again that is half
   answered.  What the deque waits for is a line of places, each a command of a pipeline;
   LineInv says that the replies on their way are those of a walk along it, which begins
   at the first command of the front pipeline without a reply, and that the requests
   begin where the walk ends.                                                         *)

(* Command number idx of the pipeline at position at. *)
Place == [at : Nat \ {0}, idx : Nat \ {0}]

Earlier(p, q) == p.at < q.at \/ (p.at = q.at /\ p.idx < q.idx)

NextPlace(dq, p) == IF p.idx < dq[p.at].built_num
                    THEN [at |-> p.at, idx |-> p.idx + 1]
                    ELSE [at |-> p.at + 1, idx |-> 1]

FrontPlace(dq) == [at |-> 1, idx |-> IF dq = <<>> THEN 1 ELSE dq[1].processed_num + 1]

(* Walking along dq, walk[k] is the place rps[k] answers; the last is the next to be
   answered. *)
Walks(walk, dq, rps) ==
    /\ walk \in [1 .. Len(rps) + 1 -> Place]
    /\ walk[1] = FrontPlace(dq)
    /\ \A j, k \in 1 .. Len(rps) + 1 : j < k => Earlier(walk[j], walk[k])
    /\ \A k \in 1 .. Len(rps) :
          /\ walk[k].at \in DOMAIN dq /\ walk[k].idx <= dq[walk[k].at].built_num
          /\ rps[k].sn = dq[walk[k].at].sn /\ rps[k].idx = walk[k].idx
          /\ walk[k + 1] = NextPlace(dq, walk[k])

(* A request of which some commands are executed. *)
RequestAt(cp, served) == [sn |-> cp.sn, built_num |-> cp.built_num, served |-> served]

(* The requests are those of dq from p on, and all of dq is written. *)
RequestsFrom(rqs, dq, p) ==
    \A k \in DOMAIN rqs : rqs[k] = RequestAt(dq[(p.at - 1) + k], IF k = 1 THEN p.idx - 1 ELSE 0)

WaitsFrom(dq, rqs, p) ==
    /\ Len(dq) = (p.at - 1) + Len(rqs)
    /\ \A i \in DOMAIN dq : dq[i].state >= COMMITTING
    /\ RequestsFrom(rqs, dq, p)
    /\ IF rqs = <<>> THEN p.idx = 1 ELSE p.idx <= dq[p.at].built_num

(* Every pipeline has a command, and only the front one replies. *)
Sized(dq) == \A i \in DOMAIN dq : dq[i].built_num > 0 /\ (i > 1 => dq[i].processed_num = 0)

(* And not yet all of them. *)
FrontWaits(dq) == dq # <<>> => dq[1].processed_num < dq[1].built_num

InLine(dq, rps, rqs, up) ==
    \E walk : Walks(walk, dq, rps) /\ (up => WaitsFrom(dq, rqs, walk[Len(rps) + 1]))

LineInv ==
    /\ Sized(dqCommon)
    /\ LinkIsOpen
    /\ NothingUnderWay
    /\ readTask => FrontWaits(dqCommon) /\ InLine(dqCommon, replies, requests, link)
    /\ TailReplyDelivered

LEMMA LineInit == Init => LineInv
<1> SUFFICES ASSUME Init PROVE LineInv
  OBVIOUS
<1>1. ~link /\ ~readTask /\ dqCommon = <<>> /\ requests = <<>> /\ replies = <<>> /\ completed = <<>>
  BY DEF Init
<1>2. DOMAIN <<>> = {}
  OBVIOUS
<1> QED
  BY <1>1, <1>2 DEF LineInv, Sized, LinkIsOpen, NothingUnderWay, TailReplyDelivered

(* One step along the line. *)
LEMMA NextPlaceType ==
    ASSUME NEW dq \in Seq(Pipeline), NEW p \in Place, p.at \in DOMAIN dq
    PROVE  /\ NextPlace(dq, p) \in Place
           /\ Earlier(p, NextPlace(dq, p))
           /\ \A q \in Place : Earlier(q, p) => Earlier(q, NextPlace(dq, p))
<1>1. p.at \in Nat \ {0} /\ p.idx \in Nat \ {0}
  BY DEF Place
<1>2. CASE p.idx < dq[p.at].built_num
  <2>1. NextPlace(dq, p) = [at |-> p.at, idx |-> p.idx + 1]
    BY <1>2 DEF NextPlace
  <2> QED
    BY <1>1, <2>1 DEF Place, Earlier
<1>3. CASE ~(p.idx < dq[p.at].built_num)
  <2>1. NextPlace(dq, p) = [at |-> p.at + 1, idx |-> 1]
    BY <1>3 DEF NextPlace
  <2> QED
    BY <1>1, <2>1 DEF Place, Earlier
<1> QED
  BY <1>2, <1>3

(* The line begins somewhere. *)
LEMMA FrontPlaceType ==
    ASSUME NEW dq \in Seq(Pipeline)
    PROVE  /\ FrontPlace(dq) \in Place /\ FrontPlace(dq).at = 1
           /\ dq = <<>> => FrontPlace(dq).idx = 1
           /\ dq # <<>> => FrontPlace(dq).idx = dq[1].processed_num + 1
<1>1. dq # <<>> => dq[1].processed_num \in Nat
  <2>1. dq # <<>> => 1 \in DOMAIN dq
    BY EmptySeq
  <2>2. dq # <<>> => dq[1] \in Pipeline
    BY <2>1
  <2> QED
    BY <2>2 DEF Pipeline
<1> QED
  BY <1>1 DEF FrontPlace, Place

(* No replies, no steps. *)
LEMMA WalkOfNone ==
    ASSUME NEW dq \in Seq(Pipeline), NEW rps, rps = <<>>
    PROVE  Walks([k \in {1} |-> FrontPlace(dq)], dq, rps)
<1>1. Len(rps) = 0 /\ 1 .. Len(rps) = {} /\ 1 .. Len(rps) + 1 = {1}
  OBVIOUS
<1>2. FrontPlace(dq) \in Place
  BY FrontPlaceType
<1>3. [k \in {1} |-> FrontPlace(dq)] \in [{1} -> Place]
  BY <1>2
<1> QED
  BY <1>1, <1>3 DEF Walks

(* The walk along a deque is one along a longer deque, and other states do not matter. *)
LEMMA WalkLonger ==
    ASSUME NEW dq \in Seq(Pipeline), NEW new \in Seq(Pipeline), NEW rps \in Seq(Reply), NEW walk,
           Walks(walk, dq, rps),
           Len(new) >= Len(dq),
           \A i \in DOMAIN dq : /\ new[i].sn = dq[i].sn
                                /\ new[i].built_num = dq[i].built_num
                                /\ new[i].processed_num = dq[i].processed_num,
           \A i \in DOMAIN new : i \notin DOMAIN dq => new[i].processed_num = 0
    PROVE  Walks(walk, new, rps)
<1>1. /\ Len(dq) \in Nat /\ DOMAIN dq = 1 .. Len(dq) /\ Len(new) \in Nat /\ DOMAIN new = 1 .. Len(new)
      /\ DOMAIN dq \subseteq DOMAIN new
  OBVIOUS
<1>2. FrontPlace(new) = FrontPlace(dq)
  <2>1. CASE dq # <<>>
    <3>1. 1 \in DOMAIN dq /\ new # <<>>
      BY <1>1, <2>1, EmptySeq
    <3> QED
      BY <2>1, <3>1 DEF FrontPlace
  <2>2. CASE dq = <<>> /\ new # <<>>
    <3>1. 1 \in DOMAIN new /\ 1 \notin DOMAIN dq
      BY <1>1, <2>2, EmptySeq
    <3> QED
      BY <2>2, <3>1 DEF FrontPlace
  <2>3. CASE dq = <<>> /\ new = <<>>
    BY <2>3
  <2> QED
    BY <2>1, <2>2, <2>3
<1>3. \A k \in 1 .. Len(rps) : NextPlace(new, walk[k]) = NextPlace(dq, walk[k])
  BY DEF NextPlace, Walks
<1>4. ASSUME NEW k \in 1 .. Len(rps)
      PROVE  /\ walk[k].at \in DOMAIN new /\ walk[k].idx <= new[walk[k].at].built_num
             /\ rps[k].sn = new[walk[k].at].sn /\ rps[k].idx = walk[k].idx
             /\ walk[k + 1] = NextPlace(new, walk[k])
  BY <1>1, <1>3 DEF Walks
<1> QED
  BY <1>2, <1>4 DEF Walks

(* Of the replies under way a prefix arrives. *)
LEMMA WalkPrefix ==
    ASSUME NEW dq, NEW rps \in Seq(Reply), NEW walk, Walks(walk, dq, rps), NEW n \in 0 .. Len(rps)
    PROVE  Walks([k \in 1 .. n + 1 |-> walk[k]], dq, SubSeq(rps, 1, n))
<1> DEFINE part  == SubSeq(rps, 1, n)
           short == [k \in 1 .. n + 1 |-> walk[k]]
<1>1. Len(rps) \in Nat /\ DOMAIN rps = 1 .. Len(rps) /\ n \in Nat
  OBVIOUS
<1>2. Len(part) = n /\ \A i \in 1 .. n : part[i] = rps[i]
  <2>1. \A i \in 1 .. n : rps[i] \in Reply
    BY <1>1
  <2> QED
    BY <1>1, <2>1, SubSeqProperties
<1>3. 1 .. n + 1 \subseteq 1 .. Len(rps) + 1 /\ 1 .. n \subseteq 1 .. Len(rps)
      /\ \A k \in 1 .. n : k + 1 \in 1 .. n + 1 /\ k \in 1 .. n + 1
      /\ 1 \in 1 .. n + 1
  BY <1>1
<1> HIDE DEF part
<1>4. short \in [1 .. n + 1 -> Place] /\ \A k \in 1 .. n + 1 : short[k] = walk[k]
  BY <1>3 DEF Walks
<1> HIDE DEF short
<1>5. Walks(short, dq, part)
  BY <1>2, <1>3, <1>4, SMTT(30) DEF Walks
<1> QED
  BY <1>5 DEF part, short

(* The next command is answered. *)
LEMMA WalkOn ==
    ASSUME NEW dq \in Seq(Pipeline), NEW rps \in Seq(Reply), NEW walk, Walks(walk, dq, rps),
           NEW p, p = walk[Len(rps) + 1],
           p.at \in DOMAIN dq, p.idx <= dq[p.at].built_num,
           NEW new \in Reply, new.sn = dq[p.at].sn, new.idx = p.idx
    PROVE  \E on : /\ Walks(on, dq, Append(rps, new))
                   /\ on[Len(Append(rps, new)) + 1] = NextPlace(dq, p)
<1> DEFINE n    == Len(rps)
           more == Append(rps, new)
           on   == [k \in 1 .. n + 2 |-> IF k = n + 2 THEN NextPlace(dq, p) ELSE walk[k]]
<1>1. n \in Nat
  OBVIOUS
<1>2. /\ Len(more) = n + 1
      /\ \A k \in 1 .. n : more[k] = rps[k]
      /\ more[n + 1] = new
  BY AppendProperties
<1>3. walk \in [1 .. n + 1 -> Place] /\ p \in Place
  BY <1>1 DEF Walks
<1>4. /\ NextPlace(dq, p) \in Place /\ Earlier(p, NextPlace(dq, p))
      /\ \A q \in Place : Earlier(q, p) => Earlier(q, NextPlace(dq, p))
  BY <1>3, NextPlaceType
<1> HIDE DEF more, n
<1>5. /\ 1 .. (n + 1) + 1 = 1 .. n + 2 /\ 1 \in 1 .. n + 1 /\ n + 1 \in 1 .. n + 1
      /\ \A k \in 1 .. n + 2 : k \in 1 .. n + 1 \/ k = n + 2
      /\ \A k \in 1 .. n + 1 : k # n + 2 /\ k \in 1 .. n + 2 /\ ~(n + 2 < k)
      /\ \A k \in 1 .. n + 1 : k = n + 1 \/ k < n + 1
      /\ \A k \in 1 .. n : k \in 1 .. n + 1 /\ k + 1 \in 1 .. n + 1
      /\ \A k \in 1 .. n + 1 : k \in 1 .. n \/ (k = n + 1 /\ k + 1 = n + 2)
      /\ ~(n + 2 < n + 2) /\ (n + 1) + 1 = n + 2 /\ n + 2 \in 1 .. n + 2
  BY <1>1
<1>6. /\ on \in [1 .. n + 2 -> Place] /\ on[n + 2] = NextPlace(dq, p)
      /\ \A k \in 1 .. n + 1 : on[k] = walk[k]
  BY <1>3, <1>4, <1>5
<1> HIDE DEF on
<1>7. on[1] = FrontPlace(dq)
  BY <1>5, <1>6 DEF Walks
<1>8. ASSUME NEW j \in 1 .. n + 2, NEW k \in 1 .. n + 2, j < k PROVE Earlier(on[j], on[k])
  <2>1. CASE k \in 1 .. n + 1
    <3>1. j \in 1 .. n + 1
      BY <1>5, <1>8, <2>1
    <3> QED
      BY <1>6, <1>8, <2>1, <3>1 DEF Walks, n
  <2>2. CASE k = n + 2
    <3>1. j \in 1 .. n + 1
      BY <1>5, <1>8, <2>2
    <3>2. on[j] = p \/ Earlier(on[j], p)
      BY <1>5, <1>6, <3>1 DEF Walks, n
    <3>3. on[j] \in Place
      BY <1>6
    <3> QED
      BY <1>4, <1>6, <2>2, <3>2, <3>3
  <2> QED
    BY <1>5, <2>1, <2>2
<1>9. ASSUME NEW k \in 1 .. n + 1
      PROVE  /\ on[k].at \in DOMAIN dq /\ on[k].idx <= dq[on[k].at].built_num
             /\ more[k].sn = dq[on[k].at].sn /\ more[k].idx = on[k].idx
             /\ on[k + 1] = NextPlace(dq, on[k])
  <2>1. CASE k \in 1 .. n
    <3>1. on[k] = walk[k] /\ on[k + 1] = walk[k + 1] /\ more[k] = rps[k]
      BY <1>2, <1>5, <1>6, <2>1
    <3> QED
      BY <2>1, <3>1 DEF Walks, n
  <2>2. CASE k = n + 1
    <3>1. on[k] = p /\ on[k + 1] = NextPlace(dq, p) /\ more[k] = new
      BY <1>2, <1>5, <1>6, <2>2 DEF n
    <3> QED
      BY <3>1
  <2> QED
    BY <1>5, <2>1, <2>2
<1>10. Walks(on, dq, more)
  BY <1>2, <1>5, <1>6, <1>7, <1>8, <1>9 DEF Walks
<1>11. on[Len(more) + 1] = NextPlace(dq, p)
  BY <1>2, <1>5, <1>6
<1> QED
  BY <1>10, <1>11 DEF more

(* A reply is counted that is not the front pipeline's last. *)
LEMMA WalkCounted ==
    ASSUME NEW dq \in Seq(Pipeline), dq # <<>>, NEW rps \in Seq(Reply), rps # <<>>,
           NEW walk, Walks(walk, dq, rps),
           NEW new \in Seq(Pipeline), DOMAIN new = DOMAIN dq,
           \A i \in DOMAIN dq : new[i].sn = dq[i].sn /\ new[i].built_num = dq[i].built_num,
           new[1].processed_num = dq[1].processed_num + 1,
           dq[1].processed_num + 1 < dq[1].built_num
    PROVE  /\ Walks([k \in 1 .. Len(rps) |-> walk[k + 1]], new, Tail(rps))
           /\ Len(Tail(rps)) = Len(rps) - 1 /\ Len(rps) \in Nat \ {0}
<1> DEFINE n    == Len(rps)
           rest == Tail(rps)
           on   == [k \in 1 .. n |-> walk[k + 1]]
<1>1. n \in Nat \ {0}
  BY EmptySeq
<1>2. Len(rest) = n - 1 /\ \A k \in 1 .. n - 1 : rest[k] = rps[k + 1]
  BY <1>1, HeadTailProperties
<1>3. walk \in [1 .. n + 1 -> Place]
  BY DEF Walks
<1> HIDE DEF rest, n
<1>4. /\ (n - 1) + 1 = n /\ 1 \in 1 .. n
      /\ \A k \in 1 .. n : k + 1 \in 1 .. n + 1
      /\ \A k \in 1 .. n - 1 : k \in 1 .. n /\ k + 1 \in 1 .. n
      /\ \A j, k \in 1 .. n : j < k => j + 1 < k + 1
  BY <1>1
<1>5. on \in [1 .. n -> Place] /\ \A k \in 1 .. n : on[k] = walk[k + 1]
  BY <1>3, <1>4
<1> HIDE DEF on
<1>6. on[1] = FrontPlace(new)
  <2>1. walk[1] = [at |-> 1, idx |-> dq[1].processed_num + 1]
    BY DEF Walks, FrontPlace
  <2>2. walk[2] = [at |-> 1, idx |-> (dq[1].processed_num + 1) + 1]
    <3>1. walk[1 + 1] = NextPlace(dq, walk[1])
      BY <1>4 DEF Walks, n
    <3> QED
      BY <2>1, <3>1 DEF NextPlace
  <2>3. new # <<>>
    <3>1. 1 \in DOMAIN dq
      BY EmptySeq
    <3> QED
      BY <3>1
  <2> QED
    BY <1>4, <1>5, <2>2, <2>3 DEF FrontPlace
<1>7. \A j, k \in 1 .. n : j < k => Earlier(on[j], on[k])
  BY <1>4, <1>5 DEF Walks, n
<1>8. ASSUME NEW k \in 1 .. n - 1
      PROVE  /\ on[k].at \in DOMAIN new /\ on[k].idx <= new[on[k].at].built_num
             /\ rest[k].sn = new[on[k].at].sn /\ rest[k].idx = on[k].idx
             /\ on[k + 1] = NextPlace(new, on[k])
  <2>1. k + 1 \in 1 .. n /\ on[k] = walk[k + 1] /\ on[k + 1] = walk[(k + 1) + 1]
        /\ rest[k] = rps[k + 1]
    BY <1>2, <1>4, <1>5
  <2>2. PICK j \in 1 .. n : j = k + 1
    BY <2>1
  <2>3. /\ walk[j].at \in DOMAIN dq /\ walk[j].idx <= dq[walk[j].at].built_num
        /\ rps[j].sn = dq[walk[j].at].sn /\ rps[j].idx = walk[j].idx
        /\ walk[j + 1] = NextPlace(dq, walk[j])
    BY DEF Walks, n
  <2>4. NextPlace(new, walk[j]) = NextPlace(dq, walk[j])
    BY <2>3 DEF NextPlace
  <2> QED
    BY <2>1, <2>2, <2>3, <2>4
<1>9. Walks(on, new, rest)
  BY <1>2, <1>4, <1>5, <1>6, <1>7, <1>8 DEF Walks
<1> QED
  BY <1>1, <1>2, <1>9 DEF n, rest, on

Back(p) == [at |-> p.at - 1, idx |-> p.idx]

(* The front pipeline's last reply is counted, and the pipeline popped. *)
LEMMA WalkPopped ==
    ASSUME NEW dq \in Seq(Pipeline), dq # <<>>, Sized(dq), NEW rps \in Seq(Reply), rps # <<>>,
           NEW walk, Walks(walk, dq, rps),
           dq[1].processed_num + 1 >= dq[1].built_num
    PROVE  /\ Walks([k \in 1 .. Len(rps) |-> Back(walk[k + 1])], Tail(dq), Tail(rps))
           /\ Len(Tail(rps)) = Len(rps) - 1 /\ Len(rps) \in Nat \ {0}
           /\ walk[Len(rps) + 1] \in Place /\ walk[Len(rps) + 1].at > 1
<1> DEFINE n     == Len(rps)
           rest  == Tail(rps)
           drest == Tail(dq)
           on    == [k \in 1 .. n |-> Back(walk[k + 1])]
<1>1. n \in Nat \ {0} /\ Len(dq) \in Nat \ {0} /\ DOMAIN dq = 1 .. Len(dq) /\ 1 \in DOMAIN dq
  BY EmptySeq
<1>2. Len(rest) = n - 1 /\ \A k \in 1 .. n - 1 : rest[k] = rps[k + 1]
  BY <1>1, HeadTailProperties
<1>3. /\ drest \in Seq(Pipeline) /\ DOMAIN drest = 1 .. Len(dq) - 1
      /\ \A i \in 1 .. Len(dq) - 1 : drest[i] = dq[i + 1] /\ i + 1 \in DOMAIN dq
  BY <1>1, HeadTailProperties
<1>4. walk \in [1 .. n + 1 -> Place]
  BY DEF Walks
<1> HIDE DEF rest, drest, n
<1>5. /\ (n - 1) + 1 = n /\ 1 \in 1 .. n /\ 2 \in 1 .. n + 1
      /\ \A k \in 1 .. n : k + 1 \in 1 .. n + 1 /\ (k + 1 = 2 \/ 2 < k + 1)
      /\ \A k \in 1 .. n - 1 : k \in 1 .. n /\ k + 1 \in 1 .. n
      /\ \A j, k \in 1 .. n : j < k => j + 1 < k + 1
  BY <1>1
<1>6. walk[2] = [at |-> 2, idx |-> 1]
  <2>1. walk[1] = [at |-> 1, idx |-> dq[1].processed_num + 1]
    BY DEF Walks, FrontPlace
  <2>2. walk[1 + 1] = NextPlace(dq, walk[1])
    BY <1>5 DEF Walks, n
  <2>3. dq[1].processed_num \in Nat /\ dq[1].built_num \in Nat
    <3>1. dq[1] \in Pipeline
      BY <1>1
    <3> QED
      BY <3>1 DEF Pipeline
  <2>4. ~(dq[1].processed_num + 1 < dq[1].built_num)
    BY <2>3
  <2> QED
    BY <2>1, <2>2, <2>4 DEF NextPlace
<1>7. ASSUME NEW k \in 1 .. n
      PROVE  walk[k + 1] \in Place /\ walk[k + 1].at > 1 /\ Back(walk[k + 1]) \in Place
  <2>1. PICK p \in Place : p = walk[k + 1]
    BY <1>4, <1>5
  <2>2. walk[k + 1] = walk[2] \/ Earlier(walk[2], walk[k + 1])
    BY <1>5 DEF Walks, n
  <2>3. p.at \in Nat \ {0} /\ p.idx \in Nat \ {0}
    BY DEF Place
  <2>4. p.at > 1
    BY <1>6, <2>1, <2>2, <2>3 DEF Earlier
  <2>5. Back(p) \in Place
    BY <2>3, <2>4 DEF Back, Place
  <2> QED
    BY <2>1, <2>4, <2>5
<1>8. on \in [1 .. n -> Place] /\ \A k \in 1 .. n : on[k] = Back(walk[k + 1])
  BY <1>7
<1> HIDE DEF on
<1>9. on[1] = FrontPlace(drest)
  <2>1. on[1] = [at |-> 1, idx |-> 1]
    BY <1>5, <1>6, <1>8 DEF Back
  <2>2. drest # <<>> => drest[1].processed_num = 0
    <3>1. ASSUME drest # <<>> PROVE 1 \in 1 .. Len(dq) - 1
      BY <1>3, <3>1, EmptySeq
    <3> QED
      BY <1>3, <3>1 DEF Sized
  <2> QED
    BY <2>1, <2>2 DEF FrontPlace
<1>10. ASSUME NEW j \in 1 .. n, NEW k \in 1 .. n, j < k PROVE Earlier(on[j], on[k])
  <2>1. Earlier(walk[j + 1], walk[k + 1])
    BY <1>5, <1>10 DEF Walks, n
  <2>2. PICK p \in Place, q \in Place : p = walk[j + 1] /\ q = walk[k + 1]
    BY <1>7
  <2>3. Earlier(Back(p), Back(q))
    BY <2>1, <2>2, SMTT(30) DEF Earlier, Back, Place
  <2> QED
    BY <1>8, <2>2, <2>3
<1>11. ASSUME NEW k \in 1 .. n - 1
       PROVE  /\ on[k].at \in DOMAIN drest /\ on[k].idx <= drest[on[k].at].built_num
              /\ rest[k].sn = drest[on[k].at].sn /\ rest[k].idx = on[k].idx
              /\ on[k + 1] = NextPlace(drest, on[k])
  <2>1. k + 1 \in 1 .. n /\ on[k] = Back(walk[k + 1]) /\ on[k + 1] = Back(walk[(k + 1) + 1])
        /\ rest[k] = rps[k + 1]
    BY <1>2, <1>5, <1>8
  <2>2. PICK j \in 1 .. n : j = k + 1
    BY <2>1
  <2>3. PICK p \in Place : p = walk[j] /\ p.at > 1
    BY <1>5, <1>7, <2>2
  <2>4. /\ p.at \in DOMAIN dq /\ p.idx <= dq[p.at].built_num
        /\ rps[j].sn = dq[p.at].sn /\ rps[j].idx = p.idx
        /\ walk[j + 1] = NextPlace(dq, p)
    BY <2>3 DEF Walks, n
  <2>5. /\ p.at \in Nat /\ p.at - 1 \in 1 .. Len(dq) - 1 /\ (p.at - 1) + 1 = p.at
    BY <1>1, <2>3, <2>4 DEF Place
  <2>6. drest[p.at - 1] = dq[p.at] /\ p.at - 1 \in DOMAIN drest
    BY <1>3, <2>5
  <2>7. Back(NextPlace(dq, p)) = NextPlace(drest, Back(p))
    BY <2>5, <2>6 DEF NextPlace, Back
  <2>8. on[k] = Back(p) /\ on[k].at = p.at - 1 /\ on[k].idx = p.idx
    BY <2>1, <2>2, <2>3 DEF Back
  <2> QED
    BY <2>1, <2>2, <2>4, <2>6, <2>7, <2>8
<1>12. Walks(on, drest, rest)
  BY <1>2, <1>5, <1>8, <1>9, <1>10, <1>11 DEF Walks
<1>13. walk[n + 1] \in Place /\ walk[n + 1].at > 1
  <2>1. n \in 1 .. n
    BY <1>1
  <2> QED
    BY <1>7, <2>1
<1> QED
  BY <1>1, <1>2, <1>12, <1>13 DEF n, rest, drest, on

(* The requests are the same for a deque that is longer or has other states. *)
LEMMA RequestsLonger ==
    ASSUME NEW dq, NEW new, NEW rqs \in Seq(Request), NEW p \in Place,
           dq \in Seq(Pipeline), Len(dq) = (p.at - 1) + Len(rqs), RequestsFrom(rqs, dq, p),
           \A i \in DOMAIN dq : new[i].sn = dq[i].sn /\ new[i].built_num = dq[i].built_num
    PROVE  RequestsFrom(rqs, new, p)
<1>1. ASSUME NEW k \in DOMAIN rqs
      PROVE  rqs[k] = RequestAt(new[(p.at - 1) + k], IF k = 1 THEN p.idx - 1 ELSE 0)
  <2>1. (p.at - 1) + k \in DOMAIN dq
    BY DEF Place
  <2> QED
    BY <2>1 DEF RequestsFrom, RequestAt
<1> QED
  BY <1>1 DEF RequestsFrom

(* The front pipeline is popped. *)
LEMMA WaitsPopped ==
    ASSUME NEW dq \in Seq(Pipeline), dq # <<>>, NEW rqs \in Seq(Request), NEW p \in Place,
           p.at > 1, WaitsFrom(dq, rqs, p)
    PROVE  WaitsFrom(Tail(dq), rqs, Back(p))
<1> DEFINE drest == Tail(dq)
<1>1. /\ Len(dq) \in Nat \ {0} /\ DOMAIN dq = 1 .. Len(dq)
      /\ Len(rqs) \in Nat /\ DOMAIN rqs = 1 .. Len(rqs) /\ p.at \in Nat
      /\ (rqs = <<>> <=> Len(rqs) = 0)
  BY EmptySeq DEF Place
<1>2. /\ Len(drest) = Len(dq) - 1 /\ DOMAIN drest = 1 .. Len(dq) - 1
      /\ \A i \in 1 .. Len(dq) - 1 : drest[i] = dq[i + 1]
  BY <1>1, HeadTailProperties
<1> HIDE DEF drest
<1>3. Len(dq) = (p.at - 1) + Len(rqs) /\ Back(p).at = p.at - 1 /\ Back(p).idx = p.idx
  BY DEF WaitsFrom, Back
<1>4. \A i \in DOMAIN drest : drest[i].state >= COMMITTING
  <2>1. \A i \in DOMAIN drest : i + 1 \in DOMAIN dq /\ drest[i] = dq[i + 1]
    BY <1>1, <1>2
  <2> QED
    BY <2>1 DEF WaitsFrom
<1>5. ASSUME NEW k \in DOMAIN rqs
      PROVE  rqs[k] = RequestAt(drest[(Back(p).at - 1) + k], IF k = 1 THEN Back(p).idx - 1 ELSE 0)
  <2>1. (p.at - 2) + k \in 1 .. Len(dq) - 1 /\ ((p.at - 2) + k) + 1 = (p.at - 1) + k
        /\ (Back(p).at - 1) + k = (p.at - 2) + k
    BY <1>1, <1>3, SMTT(30)
  <2>2. drest[(Back(p).at - 1) + k] = dq[(p.at - 1) + k]
    BY <1>2, <2>1
  <2> QED
    BY <1>3, <2>2 DEF WaitsFrom, RequestsFrom
<1>6. IF rqs = <<>> THEN Back(p).idx = 1 ELSE Back(p).idx <= drest[Back(p).at].built_num
  <2>1. CASE rqs = <<>>
    BY <1>3, <2>1 DEF WaitsFrom
  <2>2. CASE rqs # <<>>
    <3>1. p.at - 1 \in 1 .. Len(dq) - 1 /\ (p.at - 1) + 1 = p.at
      BY <1>1, <1>3, <2>2
    <3>2. drest[p.at - 1] = dq[p.at]
      BY <1>2, <3>1
    <3> QED
      BY <1>3, <2>2, <3>2 DEF WaitsFrom
  <2> QED
    BY <2>1, <2>2
<1>7. Len(drest) = (Back(p).at - 1) + Len(rqs)
  BY <1>1, <1>2, <1>3
<1> QED
  BY <1>4, <1>5, <1>6, <1>7 DEF WaitsFrom, RequestsFrom, drest

(* The next command is executed. *)
LEMMA WaitsServed ==
    ASSUME NEW dq \in Seq(Pipeline), Sized(dq), NEW rqs \in Seq(Request), rqs # <<>>,
           NEW p \in Place, WaitsFrom(dq, rqs, p)
    PROVE  /\ p.at \in DOMAIN dq /\ p.idx <= dq[p.at].built_num
           /\ Head(rqs) = RequestAt(dq[p.at], p.idx - 1)
           /\ p.idx >= dq[p.at].built_num => WaitsFrom(dq, Tail(rqs), NextPlace(dq, p))
           /\ p.idx < dq[p.at].built_num =>
                 WaitsFrom(dq, <<RequestAt(dq[p.at], p.idx)>> \o Tail(rqs), NextPlace(dq, p))
<1> DEFINE rest == Tail(rqs)
           cp   == dq[p.at]
<1>1. /\ Len(dq) \in Nat /\ DOMAIN dq = 1 .. Len(dq)
      /\ Len(rqs) \in Nat \ {0} /\ DOMAIN rqs = 1 .. Len(rqs)
      /\ p.at \in Nat \ {0} /\ p.idx \in Nat \ {0}
  BY EmptySeq DEF Place
<1>2. /\ Head(rqs) = rqs[1] /\ rest \in Seq(Request)
      /\ Len(rest) = Len(rqs) - 1 /\ DOMAIN rest = 1 .. Len(rqs) - 1
      /\ \A k \in 1 .. Len(rqs) - 1 : rest[k] = rqs[k + 1]
      /\ (rest = <<>> <=> Len(rest) = 0)
  <2>1. /\ Head(rqs) = rqs[1] /\ rest \in Seq(Request)
        /\ Len(rest) = Len(rqs) - 1
        /\ \A k \in 1 .. Len(rqs) - 1 : rest[k] = rqs[k + 1]
    BY HeadTailProperties
  <2> HIDE DEF rest
  <2>2. DOMAIN rest = 1 .. Len(rqs) - 1 /\ (rest = <<>> <=> Len(rest) = 0)
    BY <2>1, EmptySeq
  <2> QED
    BY <2>1, <2>2
<1> HIDE DEF rest
<1>3. Len(dq) = (p.at - 1) + Len(rqs) /\ p.at \in DOMAIN dq /\ p.idx <= cp.built_num
  BY <1>1 DEF WaitsFrom
<1>4. \A k \in 1 .. Len(rqs) :
         rqs[k] = RequestAt(dq[(p.at - 1) + k], IF k = 1 THEN p.idx - 1 ELSE 0)
  BY <1>1 DEF WaitsFrom, RequestsFrom
<1>5. Head(rqs) = RequestAt(cp, p.idx - 1)
  <2>1. 1 \in 1 .. Len(rqs) /\ (p.at - 1) + 1 = p.at
    BY <1>1
  <2> QED
    BY <1>2, <1>4, <2>1
<1>6. cp \in Pipeline /\ cp.built_num \in Nat
  <2>1. cp \in Pipeline
    BY <1>3
  <2> QED
    BY <2>1 DEF Pipeline
<1>7. \A k \in 1 .. Len(rqs) - 1 : rest[k] = RequestAt(dq[p.at + k], 0)
  <2>1. PICK a \in Nat, n \in Nat : a = p.at /\ n = Len(rqs)
    BY <1>1
  <2>2. \A k \in 1 .. n - 1 : k + 1 \in 1 .. n /\ k + 1 # 1 /\ (a - 1) + (k + 1) = a + k
    OBVIOUS
  <2> QED
    BY <1>2, <1>4, <2>1, <2>2, SMTT(30)
<1> HIDE DEF cp
<1>8. ASSUME p.idx >= cp.built_num PROVE WaitsFrom(dq, rest, NextPlace(dq, p))
  <2>1. NextPlace(dq, p) = [at |-> p.at + 1, idx |-> 1]
    BY <1>1, <1>6, <1>8 DEF NextPlace, cp
  <2>2. Len(dq) = ((p.at + 1) - 1) + Len(rest)
    BY <1>1, <1>2, <1>3
  <2>3. ASSUME NEW k \in DOMAIN rest
        PROVE  rest[k] = RequestAt(dq[((p.at + 1) - 1) + k], IF k = 1 THEN 1 - 1 ELSE 0)
    <3>1. ((p.at + 1) - 1) + k = p.at + k /\ (IF k = 1 THEN 1 - 1 ELSE 0) = 0
      BY <1>1, <1>2
    <3> QED
      BY <1>2, <1>7, <3>1
  <2>4. rest # <<>> => 1 <= dq[p.at + 1].built_num
    <3>1. ASSUME rest # <<>> PROVE p.at + 1 \in DOMAIN dq
      BY <1>1, <1>2, <1>3, <3>1, SMTT(30)
    <3>2. ASSUME NEW i \in DOMAIN dq PROVE 1 <= dq[i].built_num
      <4>1. dq[i] \in Pipeline
        OBVIOUS
      <4>2. dq[i].built_num > 0 /\ dq[i].built_num \in Nat
        BY <4>1 DEF Sized, Pipeline
      <4> QED
        BY <4>2
    <3> QED
      BY <3>1, <3>2
  <2> QED
    BY <2>1, <2>2, <2>3, <2>4 DEF WaitsFrom, RequestsFrom
<1>9. ASSUME p.idx < cp.built_num
      PROVE  WaitsFrom(dq, <<RequestAt(cp, p.idx)>> \o rest, NextPlace(dq, p))
  <2> DEFINE one == <<RequestAt(cp, p.idx)>>
             new == one \o rest
  <2>1. NextPlace(dq, p) = [at |-> p.at, idx |-> p.idx + 1]
    BY <1>9 DEF NextPlace, cp
  <2>2. RequestAt(cp, p.idx) \in Request
    BY <1>1, <1>6 DEF RequestAt, Request, Pipeline
  <2>3. one \in Seq(Request) /\ Len(one) = 1 /\ one[1] = RequestAt(cp, p.idx)
    BY <2>2
  <2> HIDE DEF one
  <2>4. /\ Len(new) = 1 + Len(rest) /\ new \in Seq(Request)
        /\ \A k \in 1 .. 1 + Len(rest) : new[k] = IF k <= 1 THEN one[k] ELSE rest[k - 1]
    <3>1. one \in Seq(Request) /\ rest \in Seq(Request)
      BY <1>2, <2>3
    <3>2. /\ Len(new) = Len(one) + Len(rest) /\ new \in Seq(Request)
          /\ \A k \in 1 .. Len(one) + Len(rest) :
                new[k] = IF k <= Len(one) THEN one[k] ELSE rest[k - Len(one)]
      BY <3>1, ConcatProperties
    <3> HIDE DEF new
    <3> QED
      BY <2>3, <3>2
  <2> HIDE DEF new
  <2>5. DOMAIN new = 1 .. Len(rqs) /\ Len(new) = Len(rqs) /\ new # <<>>
    BY <1>1, <1>2, <2>4
  <2>6. ASSUME NEW k \in DOMAIN new
        PROVE  new[k] = RequestAt(dq[(p.at - 1) + k], IF k = 1 THEN (p.idx + 1) - 1 ELSE 0)
    <3>1. CASE k = 1
      <4>1. new[1] = RequestAt(cp, p.idx) /\ (p.at - 1) + 1 = p.at /\ (p.idx + 1) - 1 = p.idx
        BY <1>1, <1>2, <2>3, <2>4
      <4> QED
        BY <3>1, <4>1 DEF cp
    <3>2. CASE k # 1
      <4>1. /\ k - 1 \in 1 .. Len(rqs) - 1 /\ p.at + (k - 1) = (p.at - 1) + k
            /\ k \in 1 .. 1 + Len(rest) /\ ~(k <= 1)
        <5>1. k \in 1 .. Len(rqs)
          BY <2>5, SMTT(30)
        <5>2. PICK a \in Nat, n \in Nat : a = p.at /\ n = Len(rqs)
          BY <1>1
        <5>3. /\ k - 1 \in 1 .. n - 1 /\ a + (k - 1) = (a - 1) + k /\ ~(k <= 1)
              /\ 1 + (n - 1) = n
          BY <3>2, <5>1, <5>2
        <5> QED
          BY <1>2, <5>1, <5>2, <5>3
      <4>2. new[k] = rest[k - 1]
        BY <2>4, <4>1
      <4> QED
        BY <1>7, <3>2, <4>1, <4>2
    <3> QED
      BY <3>1, <3>2
  <2>7. p.idx + 1 <= cp.built_num
    BY <1>1, <1>6, <1>9
  <2> QED
    BY <1>3, <2>1, <2>5, <2>6, <2>7 DEF WaitsFrom, RequestsFrom, cp, new, one
<1> QED
  BY <1>3, <1>5, <1>8, <1>9 DEF rest, cp

(* The places of a deque that is the same but for states and counted replies. *)
LEMMA WaitsKept ==
    ASSUME NEW dq \in Seq(Pipeline), NEW new \in Seq(Pipeline), NEW rqs \in Seq(Request),
           NEW p \in Place, WaitsFrom(dq, rqs, p), Len(new) = Len(dq), DOMAIN new = DOMAIN dq,
           \A i \in DOMAIN dq : /\ new[i].sn = dq[i].sn
                                /\ new[i].built_num = dq[i].built_num
                                /\ new[i].state >= COMMITTING
    PROVE  WaitsFrom(new, rqs, p)
<1>1. Len(dq) = (p.at - 1) + Len(rqs) /\ RequestsFrom(rqs, dq, p)
  BY DEF WaitsFrom
<1>2. RequestsFrom(rqs, new, p)
  BY <1>1, RequestsLonger
<1>3. ASSUME rqs # <<>> PROVE p.at \in DOMAIN dq
  <2>1. Len(rqs) \in Nat \ {0} /\ p.at \in Nat \ {0} /\ DOMAIN dq = 1 .. Len(dq)
    BY <1>3, EmptySeq DEF Place
  <2> QED
    BY <1>1, <2>1
<1> QED
  BY <1>1, <1>2, <1>3 DEF WaitsFrom

(* Committing writes, after what is written, what is sent behind it. *)
LEMMA CommitWritesWaits ==
    ASSUME TypeOK, NEW old \in Seq(Pipeline), NEW p \in Place, WaitsFrom(old, requests, p),
           NEW dq \in Seq(Pipeline), Sized(dq), Len(dq) >= Len(old),
           \A i \in DOMAIN old : dq[i] = old[i],
           \A i \in DOMAIN dq : i \notin DOMAIN old => dq[i].state = SENDING,
           NEW open, NEW up, open = TRUE, up = TRUE, CommitWrites(dq, open, up)
    PROVE  WaitsFrom(dqCommon', requests', p)
<1>1. /\ Len(dq) \in Nat /\ DOMAIN dq = 1 .. Len(dq) /\ Len(old) \in Nat /\ DOMAIN old = 1 .. Len(old)
      /\ requests \in Seq(Request) /\ Len(requests) \in Nat /\ DOMAIN requests = 1 .. Len(requests)
      /\ p.at \in Nat \ {0} /\ p.idx \in Nat \ {0}
  BY DEF TypeOK, Place
<1>2. PICK m \in 0 .. Len(dq) : m = Len(old)
  <2>1. Len(old) \in 0 .. Len(dq)
    BY <1>1
  <2> QED
    BY <2>1
<1>3. m = (p.at - 1) + Len(requests) /\ RequestsFrom(requests, old, p)
  BY <1>2 DEF WaitsFrom
<1>4. ToSendAfter(dq, m)
  <2>1. \A i \in DOMAIN dq : (i <= m <=> i \in DOMAIN old) /\ (i > m <=> i \notin DOMAIN old)
    BY <1>1, <1>2
  <2> QED
    BY <2>1 DEF ToSendAfter, WaitsFrom
<1>5. /\ Len(dqCommon') = Len(dq) /\ DOMAIN dqCommon' = DOMAIN dq
      /\ \A i \in DOMAIN dq : /\ dqCommon'[i].sn = dq[i].sn
                              /\ dqCommon'[i].built_num = dq[i].built_num
                              /\ dqCommon'[i].processed_num = dq[i].processed_num
                              /\ dqCommon'[i].state >= COMMITTING
      /\ requests' \in Seq(Request) /\ Len(requests') = Len(requests) + (Len(dq) - m)
      /\ \A k \in 1 .. Len(requests) + (Len(dq) - m) :
            requests'[k] = IF k <= Len(requests) THEN requests[k]
                           ELSE RequestOf(dq[m + (k - Len(requests))])
  BY <1>4, CommitWritesRest
<1>6. Len(dqCommon') = (p.at - 1) + Len(requests')
  BY <1>1, <1>3, <1>5, SMTT(30)
<1>7. requests = <<>> => p.idx = 1
  BY DEF WaitsFrom
<1>8. ASSUME NEW k \in DOMAIN requests'
      PROVE  requests'[k] = RequestAt(dqCommon'[(p.at - 1) + k], IF k = 1 THEN p.idx - 1 ELSE 0)
  <2>1. k \in 1 .. Len(requests) + (Len(dq) - m) /\ (p.at - 1) + k \in DOMAIN dq
    <3>1. k \in 1 .. Len(requests')
      BY <1>5
    <3>2. k \in 1 .. Len(requests) + (Len(dq) - m)
      BY <1>5, <3>1
    <3>3. PICK a \in Nat, n \in Nat, len \in Nat :
             a = p.at - 1 /\ n = Len(requests) /\ len = Len(dq)
      <4>1. p.at - 1 \in Nat
        BY <1>1
      <4>2. Len(requests) \in Nat /\ Len(dq) \in Nat
        BY <1>1
      <4> QED
        BY <4>1, <4>2, Zenon
    <3>4. k \in Nat \ {0} /\ k <= n + (len - (a + n))
      BY <1>3, <3>2, <3>3, SMTT(30)
    <3>5. a + k \in 1 .. len
      BY <3>3, <3>4, SMTT(30)
    <3> QED
      BY <1>1, <3>2, <3>3, <3>5
  <2>2. requests'[k] = RequestAt(dq[(p.at - 1) + k], IF k = 1 THEN p.idx - 1 ELSE 0)
    <3>1. CASE k <= Len(requests)
      <4>1. k \in DOMAIN requests /\ (p.at - 1) + k \in DOMAIN old
        BY <1>1, <1>2, <1>3, <2>1, <3>1, SMTT(30)
      <4> QED
        BY <1>3, <1>5, <2>1, <3>1, <4>1 DEF RequestsFrom
    <3>2. CASE ~(k <= Len(requests))
      <4>1. m + (k - Len(requests)) = (p.at - 1) + k
        BY <1>1, <1>3, <2>1
      <4>2. requests'[k] = RequestOf(dq[(p.at - 1) + k])
        BY <1>5, <2>1, <3>2, <4>1
      <4>3. (IF k = 1 THEN p.idx - 1 ELSE 0) = 0
        <5>1. ASSUME k = 1 PROVE requests = <<>>
          BY <1>1, <3>2, <5>1, EmptySeq
        <5> QED
          BY <1>7, <5>1
      <4> QED
        BY <4>2, <4>3 DEF RequestOf, RequestAt
    <3> QED
      BY <3>1, <3>2
  <2> QED
    BY <1>5, <2>1, <2>2 DEF RequestAt
<1>9. IF requests' = <<>> THEN p.idx = 1 ELSE p.idx <= dqCommon'[p.at].built_num
  <2>1. CASE requests = <<>> /\ requests' = <<>>
    BY <1>7, <2>1
  <2>2. CASE requests = <<>> /\ requests' # <<>>
    <3>1. Len(requests') \in Nat \ {0} /\ Len(requests) = 0
      BY <1>5, <2>2, EmptySeq
    <3>2. p.at \in DOMAIN dq
      BY <1>1, <1>3, <1>5, <3>1
    <3>3. dq[p.at] \in Pipeline /\ dq[p.at].built_num > 0
      BY <3>2 DEF Sized
    <3>4. 1 <= dq[p.at].built_num
      BY <3>3 DEF Pipeline
    <3>5. dqCommon'[p.at].built_num = dq[p.at].built_num /\ p.idx = 1
      BY <1>5, <1>7, <2>2, <3>2
    <3> QED
      BY <2>2, <3>4, <3>5, SMTT(30)
  <2>3. CASE requests # <<>>
    <3>1. Len(requests) \in Nat \ {0}
      BY <1>1, <2>3, EmptySeq
    <3>2. p.at \in DOMAIN old /\ p.at \in DOMAIN dq
      BY <1>1, <1>2, <1>3, <3>1
    <3>3. p.idx <= dqCommon'[p.at].built_num
      BY <1>5, <2>3, <3>2 DEF WaitsFrom
    <3>4. Len(requests') > 0
      BY <1>1, <1>5, <3>1
    <3>5. requests' # <<>>
      BY <3>4
    <3> QED
      BY <3>3, <3>5
  <2> QED
    BY <2>1, <2>2, <2>3
<1>10. \A i \in DOMAIN dqCommon' : dqCommon'[i].state >= COMMITTING
  BY <1>5
<1> QED
  BY <1>6, <1>8, <1>9, <1>10 DEF WaitsFrom, RequestsFrom

(* CommitLoop() changes states only. *)
LEMMA CommitWritesFields ==
    ASSUME TypeOK, NEW dq \in Seq(Pipeline), NEW open, NEW up, CommitWrites(dq, open, up)
    PROVE  /\ dqCommon' \in Seq(Pipeline) /\ Len(dqCommon') = Len(dq) /\ DOMAIN dqCommon' = DOMAIN dq
           /\ \A i \in DOMAIN dq : /\ dqCommon'[i].sn = dq[i].sn
                                   /\ dqCommon'[i].built_num = dq[i].built_num
                                   /\ dqCommon'[i].processed_num = dq[i].processed_num
<1>1. dqCommon' \in Seq(Pipeline) /\ \E S : dqCommon' = Marked(dq, S, COMMITTING)
  BY CommitWritesType DEF TypeOK
<1>2. COMMITTING \in PipelineState
  BY DEF COMMITTING, PipelineState, QUEUEING, PROCESS_OVER
<1> QED
  BY <1>1, <1>2, MarkedType

LEMMA SizedKept ==
    ASSUME NEW dq, NEW new, Sized(dq), DOMAIN new = DOMAIN dq,
           \A i \in DOMAIN dq : /\ new[i].built_num = dq[i].built_num
                                /\ i > 1 => new[i].processed_num = dq[i].processed_num
    PROVE  Sized(new)
BY DEF Sized

(* CommitLoop(), run on a deque that begins with the old one and goes on with what is to
   be sent, goes on with the line. *)
LEMMA CommitKeepsLine ==
    ASSUME TypeOK, NEW old \in Seq(Pipeline), NEW dq \in Seq(Pipeline), Sized(dq), FrontWaits(old),
           Len(dq) >= Len(old), \A i \in DOMAIN old : dq[i] = old[i],
           \A i \in DOMAIN dq : i \notin DOMAIN old =>
              dq[i].state = SENDING /\ dq[i].processed_num = 0,
           NEW open \in BOOLEAN, NEW up \in BOOLEAN, up => open,
           \/ CommitWrites(dq, open, up)
           \/ dqCommon' = dq /\ ~up,
           InLine(old, replies, requests, up)
    PROVE  FrontWaits(dqCommon') /\ InLine(dqCommon', replies, requests', up)
<1>1. /\ dqCommon' \in Seq(Pipeline) /\ Len(dqCommon') = Len(dq) /\ DOMAIN dqCommon' = DOMAIN dq
      /\ \A i \in DOMAIN dq : /\ dqCommon'[i].sn = dq[i].sn
                              /\ dqCommon'[i].built_num = dq[i].built_num
                              /\ dqCommon'[i].processed_num = dq[i].processed_num
  BY CommitWritesFields
<1>2. DOMAIN old \subseteq DOMAIN dq /\ replies \in Seq(Reply) /\ Len(replies) \in Nat
  BY DEF TypeOK
<1>3. PICK walk : /\ Walks(walk, old, replies)
                  /\ up => WaitsFrom(old, requests, walk[Len(replies) + 1])
  BY DEF InLine
<1>4. Walks(walk, dqCommon', replies)
  <2>1. \A i \in DOMAIN old : /\ dqCommon'[i].sn = old[i].sn
                              /\ dqCommon'[i].built_num = old[i].built_num
                              /\ dqCommon'[i].processed_num = old[i].processed_num
    BY <1>1, <1>2
  <2>2. \A i \in DOMAIN dqCommon' : i \notin DOMAIN old => dqCommon'[i].processed_num = 0
    BY <1>1
  <2>3. Len(dqCommon') >= Len(old)
    BY <1>1
  <2> QED
    BY <1>1, <1>2, <1>3, <2>1, <2>2, <2>3, WalkLonger
<1>5. ASSUME up PROVE WaitsFrom(dqCommon', requests', walk[Len(replies) + 1])
  <2>1. PICK p \in Place : p = walk[Len(replies) + 1]
    BY <1>2, <1>3 DEF Walks
  <2>2. WaitsFrom(old, requests, p)
    BY <1>3, <1>5, <2>1
  <2>3. CommitWrites(dq, open, up) /\ open = TRUE /\ up = TRUE
    BY <1>5
  <2>4. WaitsFrom(dqCommon', requests', p)
    BY <2>2, <2>3, CommitWritesWaits
  <2> QED
    BY <2>1, <2>4
<1>6. FrontWaits(dqCommon')
  <2> SUFFICES ASSUME dqCommon' # <<>> PROVE dqCommon'[1].processed_num < dqCommon'[1].built_num
    BY DEF FrontWaits
  <2>1. 1 \in DOMAIN dq /\ dq[1] \in Pipeline
    <3>1. 1 \in DOMAIN dq
      BY <1>1, EmptySeq
    <3> QED
      BY <3>1
  <2>2. dq[1].processed_num < dq[1].built_num
    <3>1. CASE 1 \in DOMAIN old
      <4>1. old # <<>>
        BY <3>1
      <4> QED
        BY <3>1, <4>1 DEF FrontWaits
    <3>2. CASE 1 \notin DOMAIN old
      BY <2>1, <3>2 DEF Sized, Pipeline
    <3> QED
      BY <3>1, <3>2
  <2> QED
    BY <1>1, <2>1, <2>2
<1> QED
  BY <1>3, <1>4, <1>5, <1>6 DEF InLine

(* A batch as a caller makes it: some commands each, and no reply yet. *)
Fresh(batch) == \A k \in DOMAIN batch : batch[k].built_num > 0 /\ batch[k].processed_num = 0

LEMMA SentSized ==
    ASSUME NEW dq \in Seq(Pipeline), NEW batch \in Seq(Pipeline), Fresh(batch), Sized(dq)
    PROVE  /\ Sent(dq, batch) \in Seq(Pipeline) /\ Sized(Sent(dq, batch))
           /\ Len(Sent(dq, batch)) >= Len(dq)
           /\ \A i \in DOMAIN dq : Sent(dq, batch)[i] = dq[i]
           /\ \A i \in DOMAIN Sent(dq, batch) : i \notin DOMAIN dq =>
                 Sent(dq, batch)[i].state = SENDING /\ Sent(dq, batch)[i].processed_num = 0
<1> DEFINE marked == Marked(batch, DOMAIN batch, SENDING)
           sent   == Sent(dq, batch)
<1>1. SENDING \in PipelineState
  BY DEF SENDING, PipelineState, QUEUEING, PROCESS_OVER
<1>2. /\ marked \in Seq(Pipeline) /\ DOMAIN marked = DOMAIN batch
      /\ \A k \in DOMAIN batch : /\ marked[k].processed_num = batch[k].processed_num
                                 /\ marked[k].built_num = batch[k].built_num
                                 /\ marked[k].state = SENDING
  BY <1>1, MarkedType
<1>3. sent = dq \o marked
  BY DEF Sent
<1> HIDE DEF marked, sent
<1>4. /\ sent \in Seq(Pipeline) /\ Len(sent) = Len(dq) + Len(marked)
      /\ \A i \in 1 .. Len(dq) + Len(marked) :
            sent[i] = IF i <= Len(dq) THEN dq[i] ELSE marked[i - Len(dq)]
  BY <1>2, <1>3, ConcatProperties
<1>5. /\ Len(dq) \in Nat /\ DOMAIN dq = 1 .. Len(dq)
      /\ Len(marked) \in Nat /\ DOMAIN marked = 1 .. Len(marked)
      /\ DOMAIN sent = 1 .. Len(dq) + Len(marked)
  BY <1>2, <1>4
<1>6. \A i \in DOMAIN dq : sent[i] = dq[i]
  BY <1>4, <1>5
<1>7. ASSUME NEW i \in DOMAIN sent, i \notin DOMAIN dq
      PROVE  sent[i].state = SENDING /\ sent[i].processed_num = 0 /\ sent[i].built_num > 0
  <2>1. i - Len(dq) \in DOMAIN marked /\ sent[i] = marked[i - Len(dq)]
    BY <1>4, <1>5, <1>7
  <2> QED
    BY <1>2, <2>1 DEF Fresh
<1>8. Sized(sent)
  BY <1>6, <1>7 DEF Sized
<1>9. Len(sent) >= Len(dq)
  BY <1>4, <1>5
<1> QED
  BY <1>4, <1>6, <1>7, <1>8, <1>9 DEF sent

(* Handing over a batch keeps all of it. *)
LEMMA SendAndCommitLine ==
    ASSUME TypeOK, LineInv, NEW batch \in Seq(Pipeline), Fresh(batch), SendAndCommit(batch)
    PROVE  LineInv'
<1> DEFINE sent == Sent(dqCommon, batch)
<1>1. /\ dqCommon \in Seq(Pipeline) /\ Sized(dqCommon) /\ link \in BOOLEAN /\ stream \in BOOLEAN
      /\ UNCHANGED <<link, stream, bConnected, connectTask, delayTasks, readTask, replies, completed>>
  BY DEF TypeOK, LineInv, SendAndCommit, delayVars, tcpVars
<1>2. /\ sent \in Seq(Pipeline) /\ Sized(sent)
      /\ Len(sent) >= Len(dqCommon)
      /\ \A i \in DOMAIN dqCommon : sent[i] = dqCommon[i]
      /\ \A i \in DOMAIN sent : i \notin DOMAIN dqCommon =>
            sent[i].state = SENDING /\ sent[i].processed_num = 0
  BY <1>1, SentSized
<1> HIDE DEF sent
<1>3. \/ CommitWrites(sent, stream, link) /\ bConnected
      \/ dqCommon' = sent /\ ~bConnected /\ UNCHANGED requests
  BY DEF SendAndCommit, sent
<1>4. Sized(dqCommon')
  <2>1. CASE CommitWrites(sent, stream, link)
    <3>1. /\ DOMAIN dqCommon' = DOMAIN sent
          /\ \A i \in DOMAIN sent : /\ dqCommon'[i].built_num = sent[i].built_num
                                    /\ dqCommon'[i].processed_num = sent[i].processed_num
      BY <1>2, <2>1, CommitWritesFields
    <3> QED
      BY <1>2, <3>1, SizedKept
  <2> QED
    BY <1>2, <1>3, <2>1
<1>5. link => stream /\ bConnected
  BY DEF LineInv, LinkIsOpen
<1>6. ASSUME readTask' PROVE FrontWaits(dqCommon') /\ InLine(dqCommon', replies', requests', link')
  <2>1. FrontWaits(dqCommon) /\ InLine(dqCommon, replies, requests, link)
    BY <1>1, <1>6 DEF LineInv
  <2>2. FrontWaits(dqCommon') /\ InLine(dqCommon', replies, requests', link)
    <3>1. CommitWrites(sent, stream, link) \/ (dqCommon' = sent /\ ~link)
      BY <1>3, <1>5
    <3> QED
      BY <1>1, <1>2, <1>5, <2>1, <3>1, CommitKeepsLine
  <2> QED
    BY <1>1, <2>2
<1>7. ~link => UNCHANGED requests
  BY <1>3 DEF CommitWrites
<1>8. LinkIsOpen' /\ NothingUnderWay' /\ TailReplyDelivered'
  BY <1>1, <1>7 DEF LineInv, LinkIsOpen, NothingUnderWay, TailReplyDelivered
<1> QED
  BY <1>4, <1>6, <1>8 DEF LineInv

(* The first reply under way is that of the front pipeline's next command. *)
LEMMA FrontIsNext ==
    ASSUME TypeOK, LineInv, HasReply, dqCommon # <<>>
    PROVE  /\ 1 \in DOMAIN dqCommon /\ dqCommon[1] = Head(dqCommon) /\ Head(dqCommon) \in Pipeline
           /\ Head(dqCommon).processed_num < Head(dqCommon).built_num
           /\ Head(replies) \in Reply
           /\ Head(replies).sn = Head(dqCommon).sn
           /\ Head(replies).idx = Head(dqCommon).processed_num + 1
<1>1. /\ dqCommon \in Seq(Pipeline) /\ replies \in Seq(Reply) /\ replies # <<>>
      /\ FrontWaits(dqCommon) /\ InLine(dqCommon, replies, requests, link)
  BY DEF TypeOK, HasReply, LineInv
<1>2. /\ Head(dqCommon) = dqCommon[1] /\ 1 \in DOMAIN dqCommon /\ dqCommon[1] \in Pipeline
  <2>1. Head(dqCommon) = dqCommon[1]
    BY <1>1, HeadTailProperties
  <2>2. 1 \in DOMAIN dqCommon
    BY <1>1, EmptySeq
  <2> QED
    BY <1>1, <2>1, <2>2
<1>3. /\ Head(replies) = replies[1] /\ 1 \in 1 .. Len(replies) /\ Head(replies) \in Reply
  <2>1. Head(replies) = replies[1] /\ Head(replies) \in Reply
    BY <1>1, HeadTailProperties
  <2>2. Len(replies) \in Nat \ {0}
    BY <1>1, EmptySeq
  <2> QED
    BY <2>1, <2>2
<1>4. PICK walk : Walks(walk, dqCommon, replies)
  BY <1>1 DEF InLine
<1>5. walk[1] = [at |-> 1, idx |-> dqCommon[1].processed_num + 1]
  BY <1>4 DEF Walks, FrontPlace
<1>6. replies[1].sn = dqCommon[walk[1].at].sn /\ replies[1].idx = walk[1].idx
  BY <1>3, <1>4 DEF Walks
<1>7. dqCommon[1].processed_num < dqCommon[1].built_num
  BY <1>1 DEF FrontWaits
<1> QED
  BY <1>2, <1>3, <1>5, <1>6, <1>7

(* What counting a reply does to the front pipeline. *)
LEMMA CountedFields ==
    ASSUME TypeOK, dqCommon # <<>>
    PROVE  /\ Counted \in Pipeline
           /\ Counted.sn = Head(dqCommon).sn
           /\ Counted.built_num = Head(dqCommon).built_num
           /\ Counted.processed_num = Head(dqCommon).processed_num + 1
           /\ Counted.state >= COMMITTING
<1> DEFINE cp == Head(dqCommon)
<1>1. Counted = [cp EXCEPT !.processed_num = cp.processed_num + 1, !.state = PROCESSING]
  BY DEF Counted
<1>2. Counted \in Pipeline /\ Counted.state >= COMMITTING
  BY CountedType DEF PROCESSING, COMMITTING
<1>3. cp \in Pipeline
  BY CountedType
<1> HIDE DEF cp
<1>4. /\ Counted.sn = cp.sn /\ Counted.built_num = cp.built_num
      /\ Counted.processed_num = cp.processed_num + 1
  BY <1>1, <1>3 DEF Pipeline
<1> QED
  BY <1>2, <1>4 DEF cp

(* The deque once the front pipeline's reply is counted. *)
LEMMA FrontCountedFields ==
    ASSUME TypeOK, dqCommon # <<>>, NEW new, new = <<Counted>> \o Tail(dqCommon)
    PROVE  /\ new \in Seq(Pipeline) /\ Len(new) = Len(dqCommon) /\ DOMAIN new = DOMAIN dqCommon
           /\ 1 \in DOMAIN dqCommon /\ new[1] = Counted
           /\ \A i \in DOMAIN dqCommon : i > 1 => new[i] = dqCommon[i]
           /\ \A i \in DOMAIN dqCommon : new[i].sn = dqCommon[i].sn
                                         /\ new[i].built_num = dqCommon[i].built_num
<1>1. dqCommon \in Seq(Pipeline) /\ Counted \in Pipeline
      /\ Counted.sn = Head(dqCommon).sn /\ Counted.built_num = Head(dqCommon).built_num
  BY CountedFields DEF TypeOK
<1>2. /\ new \in Seq(Pipeline) /\ Len(new) = Len(dqCommon) /\ DOMAIN new = DOMAIN dqCommon
      /\ new[1] = Counted
      /\ \A i \in DOMAIN dqCommon : i > 1 => new[i] = dqCommon[i]
  BY <1>1, FrontReplaced
<1>3. 1 \in DOMAIN dqCommon /\ Head(dqCommon) = dqCommon[1]
      /\ \A i \in DOMAIN dqCommon : i = 1 \/ i > 1
  BY <1>1, EmptySeq
<1>4. \A i \in DOMAIN dqCommon : new[i].sn = dqCommon[i].sn /\ new[i].built_num = dqCommon[i].built_num
  BY <1>1, <1>2, <1>3
<1> QED
  BY <1>2, <1>3, <1>4

(* What OnClientConnect() sends again, if nothing of it is half answered, is as it was
   handed over. *)
LEMMA ResentSized ==
    ASSUME TypeOK, Sized(dqCommon), ~HalfAnswered
    PROVE  LET sent == Resent(Rebuilt(dqInit, dqCommon))
           IN  /\ sent \in Seq(Pipeline) /\ Sized(sent)
               /\ \A i \in DOMAIN sent : sent[i].state = SENDING /\ sent[i].processed_num = 0
<1> DEFINE rebuilt == Rebuilt(dqInit, dqCommon)
           sent    == Resent(rebuilt)
<1>1. dqCommon \in Seq(Pipeline) /\ dqInit \in Seq(Pipeline) /\ rebuilt \in Seq(Pipeline)
  BY InitPipelinesType, RebuiltType DEF TypeOK
<1>2. \A i \in DOMAIN rebuilt :
         \/ \E j \in DOMAIN dqInit : rebuilt[i] = dqInit[j]
         \/ \E j \in DOMAIN dqCommon : dqCommon[j].sn > 0 /\ rebuilt[i] = dqCommon[j]
  BY <1>1, RebuiltMembers
<1>3. \A j \in DOMAIN dqInit : dqInit[j].built_num > 0 /\ dqInit[j].processed_num = 0
  BY DEF dqInit, CreateCmdPipeline
<1>4. ASSUME NEW j \in DOMAIN dqCommon, dqCommon[j].sn > 0
      PROVE  dqCommon[j].built_num > 0 /\ dqCommon[j].processed_num = 0
  <2>1. dqCommon[j] \in Pipeline
    BY <1>1
  <2>2. ~(dqCommon[j].processed_num > 0)
    BY <1>4 DEF HalfAnswered
  <2> QED
    BY <2>1, <2>2 DEF Sized, Pipeline
<1> HIDE DEF rebuilt
<1>5. \A i \in DOMAIN rebuilt : rebuilt[i].built_num > 0 /\ rebuilt[i].processed_num = 0
  BY <1>2, <1>3, <1>4
<1>6. SENDING \in PipelineState
  BY DEF SENDING, PipelineState, QUEUEING, PROCESS_OVER
<1>7. /\ sent \in Seq(Pipeline) /\ DOMAIN sent = DOMAIN rebuilt
      /\ \A i \in DOMAIN rebuilt : /\ sent[i].built_num = rebuilt[i].built_num
                                   /\ sent[i].processed_num = rebuilt[i].processed_num
                                   /\ sent[i].state = SENDING
  BY <1>1, <1>6, MarkedType DEF Resent
<1> HIDE DEF sent
<1> QED
  BY <1>5, <1>7 DEF Sized, sent, rebuilt

(* Every pipeline keeps its commands, and only the front one replies. *)
LEMMA SizedStays ==
    ASSUME TypeOK, LineInv, ConnProgress \/ ConnFault, ~(ConnectSucceeds /\ HalfAnswered)
    PROVE  Sized(dqCommon')
<1> USE DEF delayVars, tcpVars, serverVars, receiveFrame
<1>1. dqCommon \in Seq(Pipeline) /\ Sized(dqCommon)
  BY DEF TypeOK, LineInv
<1>2. CASE CommitLoopTimer
  <2>1. CommitWrites(dqCommon, stream, link)
    BY <1>2 DEF CommitLoopTimer
  <2>2. /\ DOMAIN dqCommon' = DOMAIN dqCommon
        /\ \A i \in DOMAIN dqCommon : /\ dqCommon'[i].built_num = dqCommon[i].built_num
                                      /\ dqCommon'[i].processed_num = dqCommon[i].processed_num
    BY <1>1, <2>1, CommitWritesFields
  <2> QED
    BY <1>1, <2>2, SizedKept
<1>3. CASE ConnectSucceeds
  <2> DEFINE sent == Resent(Rebuilt(dqInit, dqCommon))
  <2>1. sent \in Seq(Pipeline) /\ Sized(sent)
    BY <1>1, <1>3, ResentSized
  <2>2. CommitWrites(sent, TRUE, link')
    BY <1>3 DEF ConnectSucceeds
  <2> HIDE DEF sent
  <2>3. /\ DOMAIN dqCommon' = DOMAIN sent
        /\ \A i \in DOMAIN sent : /\ dqCommon'[i].built_num = sent[i].built_num
                                  /\ dqCommon'[i].processed_num = sent[i].processed_num
    BY <2>1, <2>2, CommitWritesFields
  <2> QED
    BY <2>1, <2>3, SizedKept
<1>4. CASE ReceiveNonTail \/ ReceiveBadSha
  <2>1. dqCommon # <<>> /\ dqCommon' = <<Counted>> \o Tail(dqCommon)
    BY <1>4 DEF ReceiveNonTail, ReceiveBadSha, IsExpected
  <2>2. /\ DOMAIN dqCommon' = DOMAIN dqCommon
        /\ \A i \in DOMAIN dqCommon : i > 1 => dqCommon'[i] = dqCommon[i]
        /\ \A i \in DOMAIN dqCommon : dqCommon'[i].built_num = dqCommon[i].built_num
    BY <2>1, FrontCountedFields
  <2> QED
    BY <1>1, <2>2, SizedKept
<1>5. CASE ReceiveTail
  <2>1. dqCommon # <<>> /\ dqCommon' = Tail(dqCommon)
    BY <1>5 DEF ReceiveTail, IsExpected
  <2>2. Len(dqCommon) \in Nat \ {0} /\ DOMAIN dqCommon = 1 .. Len(dqCommon)
    BY <1>1, <2>1, EmptySeq
  <2>3. /\ DOMAIN dqCommon' = 1 .. Len(dqCommon) - 1
        /\ \A i \in 1 .. Len(dqCommon) - 1 : dqCommon'[i] = dqCommon[i + 1]
    BY <1>1, <2>1, <2>2, HeadTailProperties
  <2>4. \A i \in DOMAIN dqCommon' : /\ i + 1 \in DOMAIN dqCommon /\ i + 1 > 1
                                    /\ dqCommon'[i] = dqCommon[i + 1]
    BY <2>2, <2>3
  <2> QED
    BY <1>1, <2>4 DEF Sized
<1>6. CASE ResetAfterFailure
  <2>1. dqCommon' = Marked(dqCommon, DOMAIN dqCommon, QUEUEING)
    BY <1>6 DEF ResetAfterFailure
  <2>2. QUEUEING \in PipelineState
    BY DEF PipelineState, QUEUEING, PROCESS_OVER
  <2>3. /\ DOMAIN dqCommon' = DOMAIN dqCommon
        /\ \A i \in DOMAIN dqCommon : /\ dqCommon'[i].built_num = dqCommon[i].built_num
                                      /\ dqCommon'[i].processed_num = dqCommon[i].processed_num
    BY <1>1, <2>1, <2>2, MarkedType
  <2> QED
    BY <1>1, <2>3, SizedKept
<1>7. ConnectThenReadThrows \/ ConnectFails \/ ReceiveError \/ ReceiveUnexpected \/ ReadFails
        \/ DelayElapsed \/ LoseLink \/ ServerExecutes
        => dqCommon' = dqCommon
  BY DEF ConnectThenReadThrows, ConnectFails, ReceiveError, ReceiveUnexpected, ReadFails,
         DelayElapsed, LoseLink, ServerExecutes
<1> QED
  BY <1>1, <1>2, <1>3, <1>4, <1>5, <1>6, <1>7 DEF ConnProgress, LoopStep, OnClientReceive, ConnFault

(* The server answers the next command in line. *)
LEMMA ServerGoesOn ==
    ASSUME TypeOK, LineInv, ServerExecutes, readTask
    PROVE  InLine(dqCommon, replies', requests', link)
<1> DEFINE r    == Head(requests)
           rest == IF r.served + 1 >= r.built_num THEN Tail(requests)
                   ELSE <<[r EXCEPT !.served = r.served + 1]>> \o Tail(requests)
<1>1. /\ link /\ requests # <<>>
      /\ dqCommon \in Seq(Pipeline) /\ requests \in Seq(Request) /\ replies \in Seq(Reply)
      /\ Len(replies) \in Nat /\ Sized(dqCommon) /\ InLine(dqCommon, replies, requests, link)
  <2>1. link /\ requests # <<>>
    BY DEF ServerExecutes
  <2>2. /\ dqCommon \in Seq(Pipeline) /\ requests \in Seq(Request) /\ replies \in Seq(Reply)
        /\ Len(replies) \in Nat
    BY DEF TypeOK
  <2>3. Sized(dqCommon) /\ InLine(dqCommon, replies, requests, link)
    BY DEF LineInv
  <2> QED
    BY <2>1, <2>2, <2>3
<1>2. PICK walk : /\ Walks(walk, dqCommon, replies)
                  /\ WaitsFrom(dqCommon, requests, walk[Len(replies) + 1])
  BY <1>1 DEF InLine
<1>3. PICK p \in Place : p = walk[Len(replies) + 1]
  BY <1>1, <1>2 DEF Walks
<1>4. /\ p.at \in DOMAIN dqCommon /\ p.idx <= dqCommon[p.at].built_num
      /\ r = RequestAt(dqCommon[p.at], p.idx - 1)
      /\ p.idx >= dqCommon[p.at].built_num =>
            WaitsFrom(dqCommon, Tail(requests), NextPlace(dqCommon, p))
      /\ p.idx < dqCommon[p.at].built_num =>
            WaitsFrom(dqCommon, <<RequestAt(dqCommon[p.at], p.idx)>> \o Tail(requests),
                      NextPlace(dqCommon, p))
  BY <1>1, <1>2, <1>3, WaitsServed
<1>5. /\ dqCommon[p.at] \in Pipeline /\ p.idx \in Nat \ {0}
  BY <1>1, <1>4 DEF Place
<1>6. /\ r.sn = dqCommon[p.at].sn /\ r.built_num = dqCommon[p.at].built_num
      /\ r.served + 1 = p.idx /\ r.built_num # 0
  <2>1. /\ RequestAt(dqCommon[p.at], p.idx - 1).sn = dqCommon[p.at].sn
        /\ RequestAt(dqCommon[p.at], p.idx - 1).built_num = dqCommon[p.at].built_num
        /\ RequestAt(dqCommon[p.at], p.idx - 1).served = p.idx - 1
    BY DEF RequestAt
  <2>2. dqCommon[p.at].built_num > 0
    BY <1>1, <1>4 DEF Sized
  <2> QED
    BY <1>4, <1>5, <2>1, <2>2 DEF Pipeline
<1>7. [r EXCEPT !.served = r.served + 1] = RequestAt(dqCommon[p.at], p.idx)
  <2>1. [RequestAt(dqCommon[p.at], p.idx - 1) EXCEPT !.served = p.idx]
        = RequestAt(dqCommon[p.at], p.idx)
    BY DEF RequestAt
  <2> QED
    BY <1>4, <1>6, <2>1
<1>8. PICK kind \in ReplyKind :
        /\ requests' = rest
        /\ replies' = Append(replies, [sn |-> r.sn, idx |-> r.served + 1, kind |-> kind])
  <2> HIDE DEF rest
  <2> QED
    BY <1>6 DEF ServerExecutes, rest
<1> HIDE DEF r
<1>9. WaitsFrom(dqCommon, requests', NextPlace(dqCommon, p))
  <2>1. CASE p.idx >= dqCommon[p.at].built_num
    <3>1. requests' = Tail(requests)
      BY <1>6, <1>8, <2>1
    <3> QED
      BY <1>4, <2>1, <3>1
  <2>2. CASE ~(p.idx >= dqCommon[p.at].built_num)
    <3>1. requests' = <<RequestAt(dqCommon[p.at], p.idx)>> \o Tail(requests)
      BY <1>6, <1>7, <1>8, <2>2
    <3>2. p.idx < dqCommon[p.at].built_num
      BY <1>5, <2>2 DEF Pipeline
    <3> QED
      BY <1>4, <3>1, <3>2
  <2> QED
    BY <2>1, <2>2
<1>10. PICK new \in Reply : /\ new.sn = dqCommon[p.at].sn /\ new.idx = p.idx
                            /\ replies' = Append(replies, new)
  <2>1. [sn |-> r.sn, idx |-> r.served + 1, kind |-> kind] \in Reply
    BY <1>5, <1>6 DEF Reply, Pipeline
  <2> QED
    BY <1>6, <1>8, <2>1
<1>11. \E on : /\ Walks(on, dqCommon, Append(replies, new))
               /\ on[Len(Append(replies, new)) + 1] = NextPlace(dqCommon, p)
  BY <1>1, <1>2, <1>3, <1>4, <1>10, WalkOn
<1> QED
  BY <1>9, <1>10, <1>11 DEF InLine

(* A reply that is not the last of the front pipeline is skipped. *)
LEMMA NonTailGoesOn ==
    ASSUME TypeOK, LineInv, ReceiveNonTail
    PROVE  FrontWaits(dqCommon') /\ InLine(dqCommon', replies', requests, link)
<1> DEFINE n == Len(replies)
<1>1. /\ readTask /\ replies # <<>> /\ dqCommon # <<>> /\ ~IsTail
      /\ replies' = Tail(replies) /\ dqCommon' = <<Counted>> \o Tail(dqCommon)
      /\ dqCommon \in Seq(Pipeline) /\ replies \in Seq(Reply) /\ requests \in Seq(Request)
      /\ InLine(dqCommon, replies, requests, link)
  BY DEF TypeOK, LineInv, ReceiveNonTail, HasReply, IsExpected
<1>2. /\ dqCommon' \in Seq(Pipeline) /\ Len(dqCommon') = Len(dqCommon)
      /\ DOMAIN dqCommon' = DOMAIN dqCommon
      /\ 1 \in DOMAIN dqCommon /\ dqCommon'[1] = Counted
      /\ \A i \in DOMAIN dqCommon : i > 1 => dqCommon'[i] = dqCommon[i]
      /\ \A i \in DOMAIN dqCommon : dqCommon'[i].sn = dqCommon[i].sn
                                    /\ dqCommon'[i].built_num = dqCommon[i].built_num
  BY <1>1, FrontCountedFields
<1>3. /\ dqCommon[1] = Head(dqCommon) /\ Counted \in Pipeline
      /\ Counted.built_num = dqCommon[1].built_num
      /\ Counted.processed_num = dqCommon[1].processed_num + 1
      /\ Counted.state >= COMMITTING
  BY <1>1, CountedFields
<1>4. dqCommon[1].processed_num + 1 < dqCommon[1].built_num
  <2>1. ~(Counted.processed_num >= Counted.built_num)
    BY <1>1 DEF IsTail
  <2>2. Counted.processed_num < Counted.built_num
    BY <1>3, <2>1 DEF Pipeline
  <2> QED
    BY <1>3, <2>2
<1>5. FrontWaits(dqCommon')
  BY <1>2, <1>3, <1>4 DEF FrontWaits
<1>6. PICK walk : /\ Walks(walk, dqCommon, replies)
                  /\ link => WaitsFrom(dqCommon, requests, walk[n + 1])
  BY <1>1 DEF InLine
<1> DEFINE on == [k \in 1 .. n |-> walk[k + 1]]
<1>7. Walks(on, dqCommon', replies') /\ Len(replies') = n - 1 /\ n \in Nat \ {0}
  <2>1. PICK new \in Seq(Pipeline) : new = dqCommon'
    BY <1>2
  <2>2. /\ DOMAIN new = DOMAIN dqCommon
        /\ \A i \in DOMAIN dqCommon : /\ new[i].sn = dqCommon[i].sn
                                      /\ new[i].built_num = dqCommon[i].built_num
        /\ new[1].processed_num = dqCommon[1].processed_num + 1
    BY <1>2, <1>3, <2>1
  <2>3. Walks(on, new, Tail(replies)) /\ Len(Tail(replies)) = n - 1 /\ n \in Nat \ {0}
    BY <1>1, <1>4, <1>6, <2>2, WalkCounted
  <2> QED
    BY <1>1, <2>1, <2>3
<1>8. on[Len(replies') + 1] = walk[n + 1] /\ walk[n + 1] \in Place
  <2>1. (n - 1) + 1 = n /\ n \in 1 .. n /\ n + 1 \in 1 .. n + 1
    BY <1>7
  <2> QED
    BY <1>6, <1>7, <2>1 DEF Walks
<1>9. ASSUME link PROVE WaitsFrom(dqCommon', requests, walk[n + 1])
  <2>1. PICK p \in Place : p = walk[n + 1]
    BY <1>8
  <2>2. WaitsFrom(dqCommon, requests, p)
    BY <1>6, <1>9, <2>1
  <2>3. ASSUME NEW i \in DOMAIN dqCommon PROVE dqCommon'[i].state >= COMMITTING
    <3>1. i = 1 \/ i > 1
      BY <1>1
    <3>2. dqCommon[i].state >= COMMITTING
      BY <2>2 DEF WaitsFrom
    <3> QED
      BY <1>2, <1>3, <3>1, <3>2
  <2>4. WaitsFrom(dqCommon', requests, p)
    BY <1>1, <1>2, <2>2, <2>3, WaitsKept
  <2> QED
    BY <2>1, <2>4
<1> HIDE DEF on, n
<1> QED
  BY <1>5, <1>7, <1>8, <1>9 DEF InLine

(* The last reply of the front pipeline is passed on, and the next pipeline is in front. *)
LEMMA TailGoesOn ==
    ASSUME TypeOK, LineInv, ReceiveTail
    PROVE  FrontWaits(dqCommon') /\ InLine(dqCommon', replies', requests, link)
<1> DEFINE n == Len(replies)
<1>1. /\ readTask /\ replies # <<>> /\ dqCommon # <<>> /\ IsTail
      /\ replies' = Tail(replies) /\ dqCommon' = Tail(dqCommon)
      /\ dqCommon \in Seq(Pipeline) /\ replies \in Seq(Reply) /\ requests \in Seq(Request)
      /\ Sized(dqCommon) /\ InLine(dqCommon, replies, requests, link)
  BY DEF TypeOK, LineInv, ReceiveTail, HasReply, IsExpected
<1>2. dqCommon[1].processed_num + 1 >= dqCommon[1].built_num
  <2>1. dqCommon[1] = Head(dqCommon)
    BY <1>1, HeadTailProperties
  <2>2. Counted.processed_num >= Counted.built_num
    BY <1>1 DEF IsTail
  <2> QED
    BY <1>1, <2>1, <2>2, CountedFields
<1>3. PICK walk : /\ Walks(walk, dqCommon, replies)
                  /\ link => WaitsFrom(dqCommon, requests, walk[n + 1])
  BY <1>1 DEF InLine
<1> DEFINE on == [k \in 1 .. n |-> Back(walk[k + 1])]
<1>4. /\ Walks(on, dqCommon', replies')
      /\ Len(replies') = n - 1 /\ n \in Nat \ {0}
      /\ walk[n + 1] \in Place /\ walk[n + 1].at > 1
  BY <1>1, <1>2, <1>3, WalkPopped
<1>5. on[Len(replies') + 1] = Back(walk[n + 1])
  <2>1. (n - 1) + 1 = n /\ n \in 1 .. n
    BY <1>4
  <2> QED
    BY <1>4, <2>1
<1>6. link => WaitsFrom(dqCommon', requests, Back(walk[n + 1]))
  BY <1>1, <1>3, <1>4, WaitsPopped
<1>7. FrontWaits(dqCommon')
  <2> SUFFICES ASSUME dqCommon' # <<>> PROVE dqCommon'[1].processed_num < dqCommon'[1].built_num
    BY DEF FrontWaits
  <2>1. Len(dqCommon) \in Nat \ {0} /\ DOMAIN dqCommon = 1 .. Len(dqCommon)
    BY <1>1, EmptySeq
  <2>2. /\ Len(dqCommon') = Len(dqCommon) - 1 /\ dqCommon' \in Seq(Pipeline)
        /\ \A i \in 1 .. Len(dqCommon) - 1 : dqCommon'[i] = dqCommon[i + 1]
    BY <1>1, HeadTailProperties
  <2>3. 1 \in 1 .. Len(dqCommon) - 1 /\ 2 \in DOMAIN dqCommon /\ 1 + 1 = 2
    <3>1. Len(dqCommon') \in Nat \ {0}
      BY <2>2, EmptySeq
    <3> QED
      BY <2>1, <2>2, <3>1
  <2>4. dqCommon'[1] = dqCommon[2] /\ dqCommon[2].processed_num = 0 /\ dqCommon[2].built_num > 0
        /\ dqCommon[2] \in Pipeline
    BY <1>1, <2>2, <2>3 DEF Sized
  <2> QED
    BY <2>4 DEF Pipeline
<1> HIDE DEF on, n
<1> QED
  BY <1>4, <1>5, <1>6, <1>7 DEF InLine

(* While the read loop runs, the line goes on. *)
LEMMA LineStays ==
    ASSUME TypeOK, TaskInv, LineInv, ConnProgress \/ ConnFault, ~(ConnectSucceeds /\ HalfAnswered),
           readTask'
    PROVE  FrontWaits(dqCommon') /\ InLine(dqCommon', replies', requests', link')
<1> USE DEF delayVars, tcpVars, serverVars, receiveFrame
<1>1. /\ dqCommon \in Seq(Pipeline) /\ replies \in Seq(Reply) /\ requests \in Seq(Request)
      /\ link \in BOOLEAN /\ stream \in BOOLEAN /\ (link => stream)
      /\ Sized(dqCommon)
      /\ readTask => FrontWaits(dqCommon) /\ InLine(dqCommon, replies, requests, link)
  BY DEF TypeOK, LineInv, LinkIsOpen
<1>2. CASE CommitLoopTimer
  <2>1. CommitWrites(dqCommon, stream, link) /\ UNCHANGED <<link, readTask, replies>>
    BY <1>2 DEF CommitLoopTimer
  <2>2. FrontWaits(dqCommon) /\ InLine(dqCommon, replies, requests, link)
    BY <1>1, <2>1
  <2>3. Len(dqCommon) >= Len(dqCommon)
    BY <1>1
  <2>4. FrontWaits(dqCommon') /\ InLine(dqCommon', replies, requests', link)
    BY <1>1, <2>1, <2>2, <2>3, CommitKeepsLine
  <2> QED
    BY <2>1, <2>4
<1>3. CASE ConnectSucceeds
  <2> DEFINE sent == Resent(Rebuilt(dqInit, dqCommon))
  <2>1. connectTask /\ UNCHANGED replies /\ CommitWrites(sent, TRUE, link') /\ link' \in BOOLEAN
    BY <1>3 DEF ConnectSucceeds
  <2>2. requests = <<>> /\ replies = <<>>
    BY <2>1 DEF LineInv, NothingUnderWay
  <2>3. /\ sent \in Seq(Pipeline) /\ Sized(sent)
        /\ \A i \in DOMAIN sent : sent[i].state = SENDING /\ sent[i].processed_num = 0
    BY <1>1, <1>3, ResentSized
  <2> HIDE DEF sent
  <2>4. <<>> \in Seq(Pipeline) /\ Len(<<>>) = 0 /\ DOMAIN <<>> = {} /\ Len(sent) >= 0
    BY <2>3
  <2>5. FrontWaits(<<>>)
    BY DEF FrontWaits
  <2>6. PICK none : none = <<>> /\ none \in Seq(Pipeline) /\ Len(none) = 0 /\ DOMAIN none = {}
    BY <2>4
  <2>7. \A up : InLine(none, replies, requests, up)
    <3> DEFINE walk == [k \in {1} |-> FrontPlace(none)]
    <3>1. Walks(walk, none, replies)
      BY <2>2, <2>6, WalkOfNone
    <3>2. walk[Len(replies) + 1] = FrontPlace(none)
      BY <2>2
    <3>3. FrontPlace(none).at = 1 /\ FrontPlace(none).idx = 1
      BY <2>6, FrontPlaceType
    <3>4. WaitsFrom(none, requests, FrontPlace(none))
      <4>1. Len(requests) = 0 /\ DOMAIN requests = {}
        BY <2>2
      <4> QED
        BY <2>2, <2>6, <3>3, <4>1 DEF WaitsFrom, RequestsFrom
    <3> HIDE DEF walk
    <3> QED
      BY <3>1, <3>2, <3>4 DEF InLine
  <2>8. FrontWaits(dqCommon') /\ InLine(dqCommon', replies, requests', link')
    BY <2>1, <2>3, <2>4, <2>5, <2>6, <2>7, CommitKeepsLine
  <2> QED
    BY <2>1, <2>8
<1>4. CASE ReceiveNonTail
  <2>1. UNCHANGED <<requests, link>>
    BY <1>4 DEF ReceiveNonTail
  <2> QED
    BY <1>4, <2>1, NonTailGoesOn
<1>5. CASE ReceiveTail
  <2>1. UNCHANGED <<requests, link>>
    BY <1>5 DEF ReceiveTail
  <2> QED
    BY <1>5, <2>1, TailGoesOn
<1>6. CASE LoseLink
  <2>1. PICK n \in 0 .. Len(replies) : replies' = SubSeq(replies, 1, n)
    BY <1>6 DEF LoseLink
  <2>2. ~link' /\ UNCHANGED <<readTask, dqCommon>>
    BY <1>6 DEF LoseLink
  <2>3. PICK walk : Walks(walk, dqCommon, replies)
    BY <1>1, <2>2 DEF InLine
  <2>4. Walks([k \in 1 .. n + 1 |-> walk[k]], dqCommon, replies')
    BY <1>1, <2>1, <2>3, WalkPrefix
  <2> QED
    BY <1>1, <2>2, <2>4 DEF InLine
<1>7. CASE ServerExecutes
  <2>1. UNCHANGED <<readTask, dqCommon, link>>
    BY <1>7 DEF ServerExecutes
  <2> QED
    BY <1>1, <1>7, <2>1, ServerGoesOn
<1>8. CASE ReceiveError \/ ReceiveUnexpected \/ ReceiveBadSha \/ ReadFails \/ ResetAfterFailure
  BY <1>8 DEF ReceiveError, ReceiveUnexpected, ReceiveBadSha, ReadFails, ResetAfterFailure,
              ReadTaskThrows
<1>9. CASE ConnectThenReadThrows
  <2>1. ~link' /\ UNCHANGED <<readTask, replies, dqCommon>>
    BY <1>9 DEF ConnectThenReadThrows
  <2> QED
    BY <1>1, <2>1 DEF InLine
<1>10. CASE ConnectFails \/ DelayElapsed
  <2>1. UNCHANGED <<readTask, replies, requests, link, dqCommon>>
    BY <1>10 DEF ConnectFails, DelayElapsed
  <2> QED
    BY <1>1, <2>1
<1> QED
  BY <1>2, <1>3, <1>4, <1>5, <1>6, <1>7, <1>8, <1>9, <1>10
     DEF ConnProgress, LoopStep, OnClientReceive, ConnFault

(* What a callback gets is the tail reply of its own pipeline. *)
LEMMA TailStays ==
    ASSUME TypeOK, LineInv, ConnProgress \/ ConnFault
    PROVE  TailReplyDelivered'
<1> USE DEF delayVars, tcpVars, serverVars, receiveFrame
<1>1. completed \in Seq(Completion) /\ TailReplyDelivered
  BY DEF TypeOK, LineInv
<1>2. CASE ReceiveTail
  <2> DEFINE new == CompletionOf(Head(dqCommon), Head(replies))
  <2>1. /\ HasReply /\ dqCommon # <<>> /\ IsTail
        /\ completed' = completed \/ completed' = Append(completed, new)
    BY <1>2 DEF ReceiveTail, IsExpected
  <2>2. /\ Head(dqCommon) \in Pipeline /\ Head(replies) \in Reply
        /\ Head(dqCommon).processed_num < Head(dqCommon).built_num
        /\ Head(replies).sn = Head(dqCommon).sn
        /\ Head(replies).idx = Head(dqCommon).processed_num + 1
    BY <2>1, FrontIsNext
  <2>3. Head(dqCommon).processed_num + 1 >= Head(dqCommon).built_num
    BY <2>1, CountedFields DEF IsTail
  <2>4. Head(replies).idx = Head(dqCommon).built_num
    BY <2>2, <2>3 DEF Pipeline
  <2>5. new \in Completion
    BY <2>2 DEF CompletionOf, Completion, Pipeline
  <2>6. new.reply.sn = new.sn /\ new.reply.idx = new.built_num
    BY <2>2, <2>4 DEF CompletionOf
  <2> HIDE DEF new
  <2>7. CASE completed' = Append(completed, new)
    <3>1. /\ Len(completed) \in Nat /\ DOMAIN completed = 1 .. Len(completed)
          /\ DOMAIN completed' = 1 .. (Len(completed) + 1)
          /\ \A i \in 1 .. Len(completed) : completed'[i] = completed[i]
          /\ completed'[Len(completed) + 1] = new
      BY <1>1, <2>5, <2>7, AppendProperties
    <3>2. ASSUME NEW i \in DOMAIN completed'
          PROVE  /\ completed'[i].reply.sn = completed'[i].sn
                 /\ completed'[i].reply.idx = completed'[i].built_num
      <4>1. CASE i \in DOMAIN completed
        BY <1>1, <3>1, <4>1 DEF TailReplyDelivered
      <4>2. CASE i = Len(completed) + 1
        BY <2>6, <3>1, <4>2
      <4> QED
        BY <3>1, <4>1, <4>2
    <3> QED
      BY <3>2 DEF TailReplyDelivered
  <2>8. CASE completed' = completed
    BY <1>1, <2>8 DEF TailReplyDelivered
  <2> QED
    BY <2>1, <2>7, <2>8
<1>3. ~ReceiveTail => UNCHANGED completed
  BY DEF ConnProgress, LoopStep, OnClientReceive, ConnFault, CommitLoopTimer, ConnectSucceeds,
         ReadFails, ResetAfterFailure, DelayElapsed, ReceiveError, ReceiveUnexpected,
         ReceiveNonTail, ReceiveBadSha, ServerExecutes, ConnectThenReadThrows, ConnectFails, LoseLink
<1> QED
  BY <1>1, <1>2, <1>3 DEF TailReplyDelivered

LEMMA LineNext ==
    ASSUME 0 \notin BuiltNums
    PROVE  TypeOK /\ TaskInv /\ LineInv /\ [Next /\ ~(ConnectSucceeds /\ HalfAnswered)]_vars
           => LineInv'
<1> SUFFICES ASSUME TypeOK, TaskInv, LineInv, [Next /\ ~(ConnectSucceeds /\ HalfAnswered)]_vars
             PROVE  LineInv'
  OBVIOUS
<1>1. CASE HandOver
  <2>1. PICK n \in 1 .. (MaxCommits - nextSn) : \E built \in [1 .. n -> BuiltNums] :
          SendAndCommit([k \in 1 .. n |-> CreateCmdPipeline(nextSn + k, built[k])])
    BY <1>1 DEF HandOver
  <2>2. PICK built \in [1 .. n -> BuiltNums] :
          SendAndCommit([k \in 1 .. n |-> CreateCmdPipeline(nextSn + k, built[k])])
    BY <2>1
  <2> DEFINE batch == [k \in 1 .. n |-> CreateCmdPipeline(nextSn + k, built[k])]
  <2>3. batch \in Seq(Pipeline)
    BY BatchType, BoundsAssumption DEF TypeOK
  <2>4. \A k \in 1 .. n : built[k] > 0
    <3>1. \A b \in BuiltNums : b \in Nat /\ b # 0
      BY BuiltNumsAssumption
    <3>2. \A k \in 1 .. n : built[k] \in BuiltNums
      OBVIOUS
    <3> QED
      BY <3>1, <3>2
  <2>5. Fresh(batch)
    BY <2>4 DEF Fresh, CreateCmdPipeline
  <2>6. SendAndCommit(batch)
    BY <2>2
  <2> HIDE DEF batch
  <2> QED
    BY <2>3, <2>5, <2>6, SendAndCommitLine
<1>2. CASE (ConnProgress \/ ConnFault) /\ ~(ConnectSucceeds /\ HalfAnswered)
  <2>1. LinkIsOpen' /\ NothingUnderWay'
    BY <1>2, LinkStays DEF LineInv
  <2>2. Sized(dqCommon') /\ TailReplyDelivered'
    BY <1>2, SizedStays, TailStays
  <2>3. readTask' => FrontWaits(dqCommon') /\ InLine(dqCommon', replies', requests', link')
    BY <1>2, LineStays
  <2> QED
    BY <2>1, <2>2, <2>3 DEF LineInv
<1>3. CASE UNCHANGED vars
  BY <1>3 DEF vars, connVars, delayVars, tcpVars, serverVars, LineInv, LinkIsOpen,
              NothingUnderWay, TailReplyDelivered
<1> QED
  BY <1>1, <1>2, <1>3 DEF Next

(* Whatever is lost and sent again, and however long the pipelines are: a caller gets the
   tail reply of its own pipeline, as long as OnClientConnect() finds none half answered.
   (That it may find one is what the run conn_tail_reply shows.) *)
THEOREM UninterruptedTailReplyDelivered ==
    ASSUME 0 \notin BuiltNums
    PROVE  UninterruptedSpec => []TailReplyDelivered
<1>1. [Next /\ ~(ConnectSucceeds /\ HalfAnswered)]_vars => [Next]_vars
  OBVIOUS
<1>2. LineInv => TailReplyDelivered
  BY DEF LineInv
<1> QED
  BY <1>1, <1>2, LineInit, LineNext, TaskInvInit, TaskInvNext, TypeInit, TypeNext, PTL
     DEF UninterruptedSpec

-----------------------------------------------------------------------------
(* The promise of ReplyService.                                             *)

(* What a callback of the event loop does to the callers' callbacks. *)
LEMMA CompletedGrows ==
    ASSUME ConnProgress \/ ConnFault
    PROVE  \/ UNCHANGED completed
           \/ /\ ReceiveTail
              /\ Head(dqCommon).sn # 0
              /\ completed' = Append(completed, CompletionOf(Head(dqCommon), Head(replies)))
BY DEF ConnProgress, LoopStep, OnClientReceive, ConnFault, CommitLoopTimer, ConnectSucceeds,
       ReadFails, ResetAfterFailure, DelayElapsed, ReceiveError, ReceiveUnexpected,
       ReceiveNonTail, ReceiveBadSha, ReceiveTail, ServerExecutes, ConnectThenReadThrows,
       ConnectFails, LoseLink, receiveFrame

(* The invariants together: for pipelines of one command. *)
ConnInv == TypeOK /\ TaskInv /\ QueueInv /\ SingleInv

LEMMA ConnInvInit == Init => ConnInv
<1>1. Init => QueueInv
  BY QueueInit DEF Init, QueueInv
<1> QED
  BY <1>1, TypeInit, TaskInvInit, SingleInit DEF ConnInv

LEMMA ConnInvNext ==
    ASSUME BuiltNums \subseteq {1}
    PROVE  ConnInv /\ [Next]_vars => ConnInv'
BY TypeNext, TaskInvNext, QueueNext, SingleNext DEF ConnInv

(* What the callers were told: the completions, in order, each their own. *)
ToldInOrder ==
    /\ Len(Told) = Len(completed) /\ Len(completed) \in Nat
    /\ Len(completed) <= nextSn /\ nextSn \in Nat
    /\ Told = [i \in 1 .. Len(completed) |-> [sn |-> i, own |-> TRUE]]

LEMMA ToldIsInOrder == ConnInv => ToldInOrder
<1> SUFFICES ASSUME ConnInv PROVE ToldInOrder
  OBVIOUS
<1>1. /\ Len(completed) \in Nat /\ DOMAIN completed = 1 .. Len(completed)
      /\ Len(completed) <= nextSn /\ nextSn \in Nat
  BY DEF ConnInv, TypeOK, QueueInv, QueueHolds, QueueOK, HoldsUnanswered
<1>2. \A i \in DOMAIN completed : /\ completed[i].sn = i
                                  /\ completed[i].reply.sn = completed[i].sn
                                  /\ completed[i].reply.idx = completed[i].built_num
  BY DEF ConnInv, QueueInv, QueueHolds, CallbacksInOrder, SingleInv, TailReplyDelivered
<1>3. Told = [i \in 1 .. Len(completed) |-> [sn |-> i, own |-> TRUE]]
  BY <1>1, <1>2 DEF Told
<1>4. Len(Told) = Len(completed)
  BY <1>1, <1>3
<1> QED
  BY <1>1, <1>3, <1>4 DEF ToldInOrder

(* A callback is a Tell, a commit an Ask, and everything else changes nothing here. *)
LEMMA PromiseStep ==
    ASSUME BuiltNums \subseteq {1}
    PROVE  ConnInv /\ [Next]_vars => [Promise!Next]_(Promise!vars)
<1> SUFFICES ASSUME ConnInv, [Next]_vars PROVE [Promise!Next]_(Promise!vars)
  OBVIOUS
<1>1. ConnInv'
  BY ConnInvNext
<1>2. /\ Len(completed) \in Nat /\ nextSn \in Nat
      /\ Len(Told) = Len(completed)
      /\ Told = [i \in 1 .. Len(completed) |-> [sn |-> i, own |-> TRUE]]
  BY ToldIsInOrder DEF ToldInOrder
<1>3. /\ Len(completed') <= nextSn'
      /\ Told' = [i \in 1 .. Len(completed') |-> [sn |-> i, own |-> TRUE]]
  <2>1. ToldInOrder'
    BY <1>1, ToldIsInOrder, PTL
  <2> QED
    BY <2>1 DEF ToldInOrder
<1>4. CASE UNCHANGED completed
  <2>1. Told' = Told
    BY <1>4 DEF Told
  <2>2. nextSn' = nextSn \/ (nextSn' \in Nat /\ nextSn' > nextSn)
    <3>1. CASE HandOver
      <4>1. PICK n \in 1 .. (MaxCommits - nextSn) : nextSn' = nextSn + n
        BY <3>1 DEF HandOver
      <4> QED
        BY <1>2, <4>1
    <3>2. CASE ConnProgress \/ ConnFault
      BY <3>2, NextSnKept
    <3>3. CASE UNCHANGED vars
      BY <3>3 DEF vars
    <3> QED
      BY <3>1, <3>2, <3>3 DEF Next
  <2> QED
    BY <2>1, <2>2 DEF Promise!Next, Promise!Ask, Promise!vars
<1>5. CASE ~UNCHANGED completed
  <2>1. ConnProgress \/ ConnFault
    BY <1>5 DEF Next, HandOver, SendAndCommit, vars, connVars
  <2>2. /\ nextSn' = nextSn
        /\ ReceiveTail
        /\ completed' = Append(completed, CompletionOf(Head(dqCommon), Head(replies)))
    BY <1>5, <2>1, NextSnKept, CompletedGrows
  <2>3. Len(completed') = Len(completed) + 1
    <3>1. completed \in Seq(Completion) /\ completed' \in Seq(Completion)
      BY <1>1 DEF ConnInv, TypeOK
    <3> QED
      BY <2>2, <3>1
  <2>4. Told' = [i \in 1 .. (Len(completed) + 1) |-> [sn |-> i, own |-> TRUE]]
    BY <1>1, <1>3, <2>3
  <2>5. Told' = Append(Told, [sn |-> Len(Told) + 1, own |-> TRUE])
    <3> DEFINE A == [sn : Nat, own : BOOLEAN]
    <3>1. Told \in Seq(A) /\ Told' \in Seq(A) /\ [sn |-> Len(Told) + 1, own |-> TRUE] \in A
      <4>1. \A i \in Nat : [sn |-> i, own |-> TRUE] \in A
        OBVIOUS
      <4>2. (\A i \in 1 .. Len(completed) : i \in Nat) /\ \A i \in 1 .. (Len(completed) + 1) : i \in Nat
        BY <1>2
      <4> HIDE DEF A
      <4> QED
        BY <1>2, <2>4, <4>1, <4>2
    <3> HIDE DEF A
    <3>2. /\ Append(Told, [sn |-> Len(Told) + 1, own |-> TRUE]) \in Seq(A)
          /\ Len(Append(Told, [sn |-> Len(Told) + 1, own |-> TRUE])) = Len(Told) + 1
          /\ \A i \in 1 .. Len(Told) :
                Append(Told, [sn |-> Len(Told) + 1, own |-> TRUE])[i] = Told[i]
          /\ Append(Told, [sn |-> Len(Told) + 1, own |-> TRUE])[Len(Told) + 1]
                = [sn |-> Len(Told) + 1, own |-> TRUE]
      BY <3>1, AppendProperties
    <3>3. Len(Told') = Len(Told) + 1
      BY <1>2, <2>4
    <3>4. \A i \in 1 .. Len(Told') :
             Told'[i] = Append(Told, [sn |-> Len(Told) + 1, own |-> TRUE])[i]
      <4>1. ASSUME NEW i \in 1 .. (Len(completed) + 1)
            PROVE  Told'[i] = Append(Told, [sn |-> Len(Told) + 1, own |-> TRUE])[i]
        <5>1. CASE i \in 1 .. Len(completed)
          BY <1>2, <2>4, <3>2, <5>1
        <5>2. CASE i = Len(completed) + 1
          BY <1>2, <2>4, <3>2, <5>2
        <5> QED
          BY <1>2, <5>1, <5>2
      <4> QED
        BY <1>2, <3>3, <4>1
    <3> QED
      BY <3>1, <3>2, <3>3, <3>4, SeqEqual
  <2>6. Len(Told) < nextSn
    BY <1>1, <1>2, <1>3, <2>2, <2>3
  <2> QED
    BY <2>2, <2>5, <2>6 DEF Promise!Next, Promise!Tell
<1> QED
  BY <1>4, <1>5

(* The connection keeps the promise a caller relies on, in order, once and with its own
   reply: what KeepsPromise says, without the fairness. *)
THEOREM SinglePromiseKept ==
    ASSUME BuiltNums \subseteq {1}
    PROVE  Spec => Promise!Spec
<1>1. Init => Promise!Init
  <2> SUFFICES ASSUME Init PROVE Promise!Init
    OBVIOUS
  <2>1. nextSn = 0 /\ completed = <<>> /\ DOMAIN <<>> = {}
    BY DEF Init
  <2> QED
    BY <2>1 DEF Promise!Init, Told
<1> QED
  BY <1>1, ConnInvInit, ConnInvNext, PromiseStep, PTL DEF Spec, Promise!Spec

-----------------------------------------------------------------------------
(* The refinement of AtLeastOnce.                                           *)

(* The callers' elements of a sequence that begins with m of the connection's own. *)
LEMMA OfCallersSuffix ==
    ASSUME NEW T, NEW s \in Seq(T), NEW m \in 0 .. Len(s),
           \A i \in DOMAIN s : (s[i].sn > 0) <=> i > m
    PROVE  OfCallers(s) = [k \in 1 .. (Len(s) - m) |-> s[m + k]]
<1> DEFINE Caller(x) == x.sn > 0
<1>1. Len(s) \in Nat /\ DOMAIN s = 1 .. Len(s) /\ m \in 0 .. Len(s)
  OBVIOUS
<1>2. Positions(s, Caller) = (m + 1) .. Len(s)
  BY <1>1 DEF Positions
<1>3. Selected(s, (m + 1) .. Len(s)) = [k \in 1 .. (Len(s) - m) |-> s[m + k]]
  BY <1>1, SelectedSuffix
<1> QED
  BY <1>2, <1>3 DEF OfCallers

(* How many of the connection's own pipelines the deque begins with, and how many of
   the replies under way are theirs. *)
OwnPipelines == OwnLeft(dqCommon, Len(completed), nextSn)
OwnReplies   == IF OwnPipelines <= Len(replies) THEN OwnPipelines ELSE Len(replies)

(* The commands c + 1 .. n, *)
Numbers(c, n) == [k \in 1 .. (n - c) |-> c + k]

(* and how those fared that the replies after the first m of rps answer. *)
Fates(rps, m, c) == [k \in 1 .. (Len(rps) - m) |-> [sn |-> c + k, kind |-> rps[m + k].kind]]

Fate == [sn : Nat, kind : ReplyKind]

LEMMA NumbersType ==
    ASSUME NEW c \in Nat, NEW n \in Nat, c <= n
    PROVE  /\ Numbers(c, n) \in Seq(Nat) /\ Len(Numbers(c, n)) = n - c
           /\ \A k \in 1 .. (n - c) : Numbers(c, n)[k] = c + k
<1>1. n - c \in Nat
  OBVIOUS
<1>2. \A k \in 1 .. (n - c) : c + k \in Nat
  OBVIOUS
<1>3. Numbers(c, n) \in Seq(Nat)
  BY <1>1, <1>2, IsASeq DEF Numbers
<1> QED
  BY <1>1, <1>3 DEF Numbers

(* The first is answered, *)
LEMMA NumbersTail ==
    ASSUME NEW c \in Nat, NEW n \in Nat, c < n
    PROVE  Tail(Numbers(c, n)) = Numbers(c + 1, n)
<1> DEFINE s == Numbers(c, n)
           t == Numbers(c + 1, n)
<1>1. c + 1 \in Nat /\ c <= n /\ c + 1 <= n
  OBVIOUS
<1>2. s \in Seq(Nat) /\ Len(s) = n - c /\ \A k \in 1 .. (n - c) : s[k] = c + k
  BY <1>1, NumbersType
<1>3. t \in Seq(Nat) /\ Len(t) = n - (c + 1) /\ \A k \in 1 .. (n - (c + 1)) : t[k] = (c + 1) + k
  BY <1>1, NumbersType
<1> HIDE DEF s, t
<1>4. s # <<>>
  BY <1>2
<1>5. /\ Tail(s) \in Seq(Nat) /\ Len(Tail(s)) = Len(s) - 1
      /\ \A k \in 1 .. Len(Tail(s)) : Tail(s)[k] = s[k + 1]
  BY <1>2, <1>4, HeadTailProperties
<1>6. Len(Tail(s)) = Len(t)
  BY <1>2, <1>3, <1>5
<1>7. ASSUME NEW k \in 1 .. Len(Tail(s)) PROVE Tail(s)[k] = t[k]
  <2>1. k + 1 \in 1 .. (n - c) /\ k \in 1 .. (n - (c + 1)) /\ c + (k + 1) = (c + 1) + k
    BY <1>2, <1>5
  <2> QED
    BY <1>2, <1>3, <1>5, <2>1
<1>8. Tail(s) = t
  BY <1>3, <1>5, <1>6, <1>7, SeqEqual
<1> QED
  BY <1>8 DEF s, t

(* or more are asked for. *)
LEMMA NumbersLonger ==
    ASSUME NEW c \in Nat, NEW n \in Nat, NEW m \in Nat, c <= n, n < m
    PROVE  SubSeq(Numbers(c, m), 1, Len(Numbers(c, n))) = Numbers(c, n)
<1> DEFINE s == Numbers(c, n)
           t == Numbers(c, m)
           u == SubSeq(t, 1, Len(s))
<1>1. s \in Seq(Nat) /\ Len(s) = n - c /\ \A k \in 1 .. (n - c) : s[k] = c + k
  BY NumbersType
<1>2. t \in Seq(Nat) /\ Len(t) = m - c /\ \A k \in 1 .. (m - c) : t[k] = c + k
  <2>1. c <= m
    OBVIOUS
  <2> QED
    BY <2>1, NumbersType
<1> HIDE DEF s, t
<1>3. \A k \in 1 .. Len(s) : k \in 1 .. (m - c) /\ t[k] \in Nat
  BY <1>1, <1>2
<1>4. u \in Seq(Nat) /\ Len(u) = Len(s) /\ \A k \in 1 .. Len(s) : u[k] = t[k]
  <2>1. 1 \in Int /\ Len(s) \in Nat
    BY <1>1
  <2> QED
    BY <1>3, <2>1, SubSeqProperties
<1>5. \A k \in 1 .. Len(s) : u[k] = s[k]
  BY <1>1, <1>2, <1>3, <1>4
<1>6. u = s
  BY <1>1, <1>4, <1>5, SeqEqual
<1> QED
  BY <1>6 DEF s, t

LEMMA FatesType ==
    ASSUME NEW rps \in Seq(Reply), NEW m \in 0 .. Len(rps), NEW c \in Nat
    PROVE  /\ Fates(rps, m, c) \in Seq(Fate) /\ Len(Fates(rps, m, c)) = Len(rps) - m
           /\ \A k \in 1 .. (Len(rps) - m) :
                 Fates(rps, m, c)[k] = [sn |-> c + k, kind |-> rps[m + k].kind]
<1>1. Len(rps) \in Nat /\ Len(rps) - m \in Nat
  OBVIOUS
<1>2. ASSUME NEW k \in 1 .. (Len(rps) - m) PROVE [sn |-> c + k, kind |-> rps[m + k].kind] \in Fate
  <2>1. m + k \in 1 .. Len(rps) /\ c + k \in Nat
    OBVIOUS
  <2>2. rps[m + k] \in Reply
    BY <2>1, ElementOfSeq
  <2> QED
    BY <2>1, <2>2 DEF Reply, Fate
<1>3. PICK n \in Nat : n = Len(rps) - m
  BY <1>1
<1> DEFINE e(k) == [sn |-> c + k, kind |-> rps[m + k].kind]
<1>4. \A k \in 1 .. n : e(k) \in Fate
  BY <1>2, <1>3
<1>5. Fates(rps, m, c) = [k \in 1 .. n |-> e(k)]
  BY <1>3 DEF Fates
<1> HIDE DEF e
<1>6. [k \in 1 .. n |-> e(k)] \in Seq(Fate)
  BY <1>4, IsASeq
<1>7. PICK s \in Seq(Fate) : s = [k \in 1 .. n |-> e(k)]
  BY <1>6
<1>8. Len(s) = n /\ \A k \in 1 .. n : s[k] = e(k)
  BY <1>7
<1>9. \A k \in 1 .. n : s[k] = [sn |-> c + k, kind |-> rps[m + k].kind]
  BY <1>8 DEF e
<1> QED
  BY <1>3, <1>5, <1>7, <1>8, <1>9

(* The first answer arrives, *)
LEMMA FatesTail ==
    ASSUME NEW rps \in Seq(Reply), rps # <<>>, NEW c \in Nat
    PROVE  /\ Fates(rps, 0, c) # <<>>
           /\ Head(Fates(rps, 0, c)).kind = Head(rps).kind
           /\ Fates(Tail(rps), 0, c + 1) = Tail(Fates(rps, 0, c))
<1> DEFINE s == Fates(rps, 0, c)
           t == Fates(Tail(rps), 0, c + 1)
           n == Len(rps)
<1>1. /\ n \in Nat \ {0} /\ Head(rps) = rps[1] /\ 0 \in 0 .. n /\ c + 1 \in Nat
      /\ Tail(rps) \in Seq(Reply) /\ Len(Tail(rps)) = n - 1 /\ 0 \in 0 .. (n - 1)
      /\ \A k \in 1 .. (n - 1) : Tail(rps)[k] = rps[k + 1]
  BY EmptySeq, HeadTailProperties
<1>2. /\ s \in Seq(Fate) /\ Len(s) = n - 0
      /\ \A k \in 1 .. (n - 0) : s[k] = [sn |-> c + k, kind |-> rps[0 + k].kind]
  BY <1>1, FatesType
<1>3. /\ t \in Seq(Fate) /\ Len(t) = (n - 1) - 0
      /\ \A k \in 1 .. ((n - 1) - 0) : t[k] = [sn |-> (c + 1) + k, kind |-> Tail(rps)[0 + k].kind]
  <2> DEFINE p == Tail(rps)
  <2>1. p \in Seq(Reply) /\ Len(p) = n - 1 /\ 0 \in 0 .. Len(p) /\ c + 1 \in Nat
    BY <1>1
  <2>2. t = Fates(p, 0, c + 1)
    OBVIOUS
  <2> HIDE DEF p, t
  <2>3. /\ t \in Seq(Fate) /\ Len(t) = Len(p) - 0
        /\ \A k \in 1 .. (Len(p) - 0) : t[k] = [sn |-> (c + 1) + k, kind |-> p[0 + k].kind]
    BY <2>1, <2>2, FatesType
  <2> QED
    BY <2>1, <2>3 DEF p
<1> HIDE DEF s, t, n
<1>4. s # <<>> /\ Head(s) = s[1]
  BY <1>1, <1>2
<1>5. /\ Tail(s) \in Seq(Fate) /\ Len(Tail(s)) = Len(s) - 1
      /\ \A k \in 1 .. Len(Tail(s)) : Tail(s)[k] = s[k + 1]
  BY <1>2, <1>4, HeadTailProperties
<1>6. Len(t) = Len(Tail(s))
  BY <1>1, <1>2, <1>3, <1>5
<1>7. ASSUME NEW k \in 1 .. Len(t) PROVE t[k] = Tail(s)[k]
  <2>1. /\ k \in 1 .. (n - 1) /\ k + 1 \in 1 .. (n - 0) /\ k \in 1 .. ((n - 1) - 0)
        /\ 0 + k = k /\ 0 + (k + 1) = k + 1 /\ (c + 1) + k = c + (k + 1)
        /\ k \in 1 .. Len(Tail(s))
    BY <1>1, <1>3, <1>6
  <2>2. t[k] = [sn |-> c + (k + 1), kind |-> rps[k + 1].kind]
    BY <1>1, <1>3, <2>1
  <2>3. Tail(s)[k] = [sn |-> c + (k + 1), kind |-> rps[k + 1].kind]
    BY <1>2, <1>5, <2>1
  <2> QED
    BY <2>2, <2>3
<1>8. t = Tail(s)
  BY <1>3, <1>5, <1>6, <1>7, SeqEqual
<1>9. Head(s).kind = Head(rps).kind
  <2>1. 1 \in 1 .. (n - 0) /\ 0 + 1 = 1
    BY <1>1
  <2> QED
    BY <1>1, <1>2, <1>4, <2>1
<1> QED
  BY <1>4, <1>8, <1>9 DEF s, t

(* or that to one of the connection's own commands; *)
LEMMA FatesOwn ==
    ASSUME NEW rps \in Seq(Reply), NEW m \in 1 .. Len(rps), NEW c \in Nat
    PROVE  Fates(Tail(rps), m - 1, c) = Fates(rps, m, c)
<1> DEFINE s == Fates(rps, m, c)
           t == Fates(Tail(rps), m - 1, c)
           n == Len(rps)
<1>1. /\ n \in Nat \ {0} /\ m \in 0 .. n /\ m \in Nat \ {0}
      /\ Tail(rps) \in Seq(Reply) /\ Len(Tail(rps)) = n - 1 /\ m - 1 \in 0 .. (n - 1)
      /\ \A k \in 1 .. (n - 1) : Tail(rps)[k] = rps[k + 1]
  <2>1. n \in Nat \ {0} /\ rps # <<>>
    OBVIOUS
  <2> QED
    BY <2>1, HeadTailProperties
<1>2. /\ s \in Seq(Fate) /\ Len(s) = n - m
      /\ \A k \in 1 .. (n - m) : s[k] = [sn |-> c + k, kind |-> rps[m + k].kind]
  BY <1>1, FatesType
<1>3. /\ t \in Seq(Fate) /\ Len(t) = (n - 1) - (m - 1)
      /\ \A k \in 1 .. ((n - 1) - (m - 1)) :
            t[k] = [sn |-> c + k, kind |-> Tail(rps)[(m - 1) + k].kind]
  <2> DEFINE p == Tail(rps)
  <2>1. p \in Seq(Reply) /\ Len(p) = n - 1 /\ m - 1 \in 0 .. Len(p)
    BY <1>1
  <2>2. t = Fates(p, m - 1, c)
    OBVIOUS
  <2> HIDE DEF p, t
  <2>3. /\ t \in Seq(Fate) /\ Len(t) = Len(p) - (m - 1)
        /\ \A k \in 1 .. (Len(p) - (m - 1)) :
              t[k] = [sn |-> c + k, kind |-> p[(m - 1) + k].kind]
    BY <2>1, <2>2, FatesType
  <2> QED
    BY <2>1, <2>3 DEF p
<1> HIDE DEF s, t, n
<1>4. Len(t) = Len(s)
  BY <1>1, <1>2, <1>3
<1>5. ASSUME NEW k \in 1 .. Len(t) PROVE t[k] = s[k]
  <2>1. /\ k \in 1 .. (n - m) /\ k \in 1 .. ((n - 1) - (m - 1)) /\ (m - 1) + k \in 1 .. (n - 1)
        /\ ((m - 1) + k) + 1 = m + k
    BY <1>1, <1>3
  <2>2. Tail(rps)[(m - 1) + k] = rps[m + k]
    BY <1>1, <2>1
  <2> QED
    BY <1>2, <1>3, <2>1, <2>2
<1>6. t = s
  BY <1>2, <1>3, <1>4, <1>5, SeqEqual
<1> QED
  BY <1>6 DEF s, t

(* the server answers another; *)
LEMMA FatesAppend ==
    ASSUME NEW rps \in Seq(Reply), NEW m \in 0 .. Len(rps), NEW c \in Nat, NEW x \in Reply
    PROVE  Fates(Append(rps, x), m, c)
             = Append(Fates(rps, m, c), [sn |-> c + (Len(rps) - m) + 1, kind |-> x.kind])
<1> DEFINE n == Len(rps)
           y == [sn |-> c + (n - m) + 1, kind |-> x.kind]
           s == Fates(rps, m, c)
           t == Fates(Append(rps, x), m, c)
           u == Append(s, y)
<1>1. /\ n \in Nat /\ m \in Nat /\ m <= n
      /\ Append(rps, x) \in Seq(Reply) /\ Len(Append(rps, x)) = n + 1 /\ m \in 0 .. (n + 1)
      /\ \A k \in 1 .. n : Append(rps, x)[k] = rps[k]
      /\ Append(rps, x)[n + 1] = x
  BY AppendProperties
<1>2. /\ s \in Seq(Fate) /\ Len(s) = n - m
      /\ \A k \in 1 .. (n - m) : s[k] = [sn |-> c + k, kind |-> rps[m + k].kind]
  BY <1>1, FatesType
<1>3. /\ t \in Seq(Fate) /\ Len(t) = (n + 1) - m
      /\ \A k \in 1 .. ((n + 1) - m) :
            t[k] = [sn |-> c + k, kind |-> Append(rps, x)[m + k].kind]
  <2> DEFINE p == Append(rps, x)
  <2>1. p \in Seq(Reply) /\ Len(p) = n + 1 /\ m \in 0 .. Len(p)
    BY <1>1
  <2>2. t = Fates(p, m, c)
    OBVIOUS
  <2> HIDE DEF p, t
  <2>3. /\ t \in Seq(Fate) /\ Len(t) = Len(p) - m
        /\ \A k \in 1 .. (Len(p) - m) : t[k] = [sn |-> c + k, kind |-> p[m + k].kind]
    BY <2>1, <2>2, FatesType
  <2> QED
    BY <2>1, <2>3 DEF p
<1>4. y \in Fate
  <2>1. c + (n - m) + 1 \in Nat
    BY <1>1
  <2> QED
    BY <2>1 DEF Fate, Reply
<1> HIDE DEF s, t, n, y
<1>5. /\ u \in Seq(Fate) /\ Len(u) = Len(s) + 1
      /\ \A k \in 1 .. Len(s) : u[k] = s[k]
      /\ u[Len(s) + 1] = y
  BY <1>2, <1>4, AppendProperties
<1> HIDE DEF u
<1>6. Len(t) = Len(u)
  BY <1>1, <1>2, <1>3, <1>5
<1>7. ASSUME NEW k \in 1 .. Len(t) PROVE t[k] = u[k]
  <2>1. CASE k <= n - m
    <3>1. k \in 1 .. (n - m) /\ k \in 1 .. ((n + 1) - m) /\ m + k \in 1 .. n /\ k \in 1 .. Len(s)
      BY <1>1, <1>2, <1>3, <2>1
    <3>2. t[k] = [sn |-> c + k, kind |-> rps[m + k].kind]
      BY <1>1, <1>3, <3>1
    <3>3. u[k] = [sn |-> c + k, kind |-> rps[m + k].kind]
      BY <1>2, <1>5, <3>1
    <3> QED
      BY <3>2, <3>3
  <2>2. CASE k > n - m
    <3>1. k = Len(s) + 1 /\ m + k = n + 1 /\ k \in 1 .. ((n + 1) - m) /\ c + k = c + (n - m) + 1
      BY <1>1, <1>2, <1>3, <2>2
    <3>2. t[k] = [sn |-> c + (n - m) + 1, kind |-> x.kind]
      BY <1>1, <1>3, <3>1
    <3> QED
      BY <1>5, <3>1, <3>2 DEF y
  <2>3. k <= n - m \/ k > n - m
    BY <1>1, <1>3
  <2> QED
    BY <2>1, <2>2, <2>3
<1>8. t = u
  BY <1>3, <1>5, <1>6, <1>7, SeqEqual
<1> QED
  BY <1>8 DEF s, t, u, n, y

(* or the last answers are lost. *)
LEMMA FatesPrefix ==
    ASSUME NEW rps \in Seq(Reply), NEW m \in 0 .. Len(rps), NEW j \in m .. Len(rps), NEW c \in Nat
    PROVE  Fates(SubSeq(rps, 1, j), m, c) = SubSeq(Fates(rps, m, c), 1, j - m)
<1> DEFINE n == Len(rps)
           s == Fates(rps, m, c)
           p == SubSeq(rps, 1, j)
           t == Fates(p, m, c)
           u == SubSeq(s, 1, j - m)
<1>1. n \in Nat /\ m \in Nat /\ j \in Nat /\ m <= j /\ j <= n
  OBVIOUS
<1>2. /\ p \in Seq(Reply) /\ Len(p) = j
      /\ \A k \in 1 .. j : p[k] = rps[k]
  <2>1. \A i \in 1 .. j : rps[i] \in Reply
    BY <1>1
  <2> QED
    BY <1>1, <2>1, SubSeqProperties
<1>3. /\ s \in Seq(Fate) /\ Len(s) = n - m
      /\ \A k \in 1 .. (n - m) : s[k] = [sn |-> c + k, kind |-> rps[m + k].kind]
  BY <1>1, FatesType
<1> HIDE DEF n, p
<1>4. /\ t \in Seq(Fate) /\ Len(t) = j - m
      /\ \A k \in 1 .. (j - m) : t[k] = [sn |-> c + k, kind |-> p[m + k].kind]
  <2>1. m \in 0 .. Len(p)
    BY <1>1, <1>2
  <2>2. /\ t \in Seq(Fate) /\ Len(t) = Len(p) - m
        /\ \A k \in 1 .. (Len(p) - m) : t[k] = [sn |-> c + k, kind |-> p[m + k].kind]
    BY <1>2, <2>1, FatesType
  <2> HIDE DEF t
  <2> QED
    BY <1>2, <2>2
<1> HIDE DEF s, t
<1>5. /\ u \in Seq(Fate) /\ Len(u) = j - m
      /\ \A k \in 1 .. (j - m) : u[k] = s[k]
  <2>1. j - m \in Nat /\ \A i \in 1 .. (j - m) : s[i] \in Fate
    BY <1>1, <1>3
  <2> QED
    BY <2>1, SubSeqProperties
<1> HIDE DEF u
<1>6. ASSUME NEW k \in 1 .. Len(t) PROVE t[k] = u[k]
  <2>1. k \in 1 .. (j - m) /\ k \in 1 .. (n - m) /\ m + k \in 1 .. j
    BY <1>1, <1>4
  <2> QED
    BY <1>2, <1>3, <1>4, <1>5, <2>1
<1>7. t = u
  BY <1>4, <1>5, <1>6, SeqEqual
<1> QED
  BY <1>7 DEF s, t, u, p

(* To the server the deque is the numbers of the unanswered commands, *)
WaitingInOrder ==
    /\ Len(completed) \in Nat /\ nextSn \in Nat /\ Len(completed) <= nextSn
    /\ Waiting = Numbers(Len(completed), nextSn)

LEMMA WaitingIsInOrder == ConnInv => WaitingInOrder
<1> SUFFICES ASSUME ConnInv PROVE WaitingInOrder
  OBVIOUS
<1> DEFINE c    == Len(completed)
           left == OwnPipelines
<1>1. /\ dqCommon \in Seq(Pipeline) /\ Len(dqCommon) \in Nat /\ DOMAIN dqCommon = 1 .. Len(dqCommon)
      /\ c \in Nat /\ nextSn \in Nat /\ c <= nextSn /\ nextSn - c \in Nat
      /\ left \in 0 .. Len(dqCommon) /\ Len(dqCommon) - left = nextSn - c
      /\ \A i \in DOMAIN dqCommon : dqCommon[i].sn = IF i <= left THEN 0 ELSE c + i - left
  BY DEF ConnInv, TypeOK, QueueInv, QueueHolds, QueueOK, HoldsUnanswered, OwnLeft, OwnPipelines
<1> HIDE DEF left, c
<1>2. \A i \in DOMAIN dqCommon : (dqCommon[i].sn > 0) <=> i > left
  BY <1>1
<1>3. OfCallers(dqCommon) = [k \in 1 .. (nextSn - c) |-> dqCommon[left + k]]
  <2>1. OfCallers(dqCommon) = [k \in 1 .. (Len(dqCommon) - left) |-> dqCommon[left + k]]
    BY <1>1, <1>2, OfCallersSuffix
  <2> QED
    BY <1>1, <2>1
<1>4. \A k \in 1 .. (nextSn - c) : dqCommon[left + k].sn = c + k
  <2>1. ASSUME NEW k \in 1 .. (nextSn - c) PROVE dqCommon[left + k].sn = c + k
    <3>1. left + k \in DOMAIN dqCommon /\ ~(left + k <= left) /\ c + (left + k) - left = c + k
      BY <1>1
    <3> QED
      BY <1>1, <3>1
  <2> QED
    BY <2>1
<1> QED
  BY <1>1, <1>3, <1>4 DEF Waiting, WaitingInOrder, Numbers, c

(* and what it has executed are the first of them. *)
ExecutedInOrder ==
    IF readTask
    THEN /\ OwnReplies \in 0 .. Len(replies)
         /\ Executed = Fates(replies, OwnReplies, Len(completed))
    ELSE Executed = <<>>

LEMMA ExecutedIsInOrder == ConnInv => ExecutedInOrder
<1> SUFFICES ASSUME ConnInv PROVE ExecutedInOrder
  OBVIOUS
<1> DEFINE c    == Len(completed)
           left == OwnPipelines
           m    == OwnReplies
           r    == Len(replies)
<1>1. CASE readTask
  <2>1. /\ dqCommon \in Seq(Pipeline) /\ Len(dqCommon) \in Nat /\ DOMAIN dqCommon = 1 .. Len(dqCommon)
        /\ replies \in Seq(Reply) /\ r \in Nat /\ DOMAIN replies = 1 .. r
        /\ c \in Nat /\ nextSn - c \in Nat
        /\ left \in 0 .. Len(dqCommon) /\ Len(dqCommon) - left = nextSn - c
        /\ \A i \in DOMAIN dqCommon : dqCommon[i].sn = IF i <= left THEN 0 ELSE c + i - left
    BY DEF ConnInv, TypeOK, QueueInv, QueueHolds, QueueOK, HoldsUnanswered, OwnLeft, OwnPipelines
  <2>2. r <= Len(dqCommon) /\ \A k \in 1 .. r : replies[k].sn = dqCommon[k].sn
    BY <1>1, <2>1 DEF ConnInv, SingleInv, RepliesMatch, Answers
  <2>3. m = IF left <= r THEN left ELSE r
    BY DEF OwnReplies
  <2> HIDE DEF c, left, m, r
  <2>4. /\ m \in Nat /\ m <= r /\ m \in 0 .. r
        /\ \A k \in 1 .. r : (k <= left) <=> (k <= m)
        /\ \A k \in 1 .. (r - m) : m = left
    BY <2>1, <2>3
  <2>5. \A k \in 1 .. r : replies[k].sn = IF k <= m THEN 0 ELSE c + k - m
    <3>1. ASSUME NEW k \in 1 .. r PROVE replies[k].sn = IF k <= m THEN 0 ELSE c + k - m
      <4>1. k \in DOMAIN dqCommon
        BY <2>1, <2>2
      <4>2. CASE k <= m
        BY <2>1, <2>2, <2>4, <4>1, <4>2
      <4>3. CASE ~(k <= m)
        <5>1. ~(k <= left) /\ m = left
          BY <2>1, <2>3, <2>4, <4>3
        <5> QED
          BY <2>1, <2>2, <4>1, <5>1
      <4> QED
        BY <4>2, <4>3
    <3> QED
      BY <3>1
  <2>6. \A k \in DOMAIN replies : (replies[k].sn > 0) <=> k > m
    BY <2>1, <2>4, <2>5
  <2>7. Arriving = [k \in 1 .. (r - m) |-> replies[m + k]]
    <3>1. m \in 0 .. Len(replies)
      BY <2>4 DEF r
    <3>2. OfCallers(replies) = [k \in 1 .. (Len(replies) - m) |-> replies[m + k]]
      BY <2>1, <2>6, <3>1, OfCallersSuffix
    <3> QED
      BY <1>1, <3>2 DEF Arriving, r
  <2>8. \A k \in 1 .. (r - m) : replies[m + k].sn = c + k
    <3>1. ASSUME NEW k \in 1 .. (r - m) PROVE replies[m + k].sn = c + k
      <4>1. m + k \in 1 .. r /\ ~(m + k <= m) /\ c + (m + k) - m = c + k
        BY <2>1, <2>4
      <4> QED
        BY <2>5, <4>1
    <3> QED
      BY <3>1
  <2>9. Executed = [k \in 1 .. (r - m) |-> [sn |-> c + k, kind |-> replies[m + k].kind]]
    BY <2>7, <2>8 DEF Executed
  <2> QED
    BY <1>1, <2>4, <2>9 DEF ExecutedInOrder, Fates, c, m, r
<1>2. CASE ~readTask
  <2>1. Arriving = <<>>
    BY <1>2 DEF Arriving
  <2>2. Executed = <<>>
    BY <2>1 DEF Executed
  <2> QED
    BY <1>2, <2>2 DEF ExecutedInOrder
<1> QED
  BY <1>1, <1>2

LEMMA NoFates ==
    ASSUME NEW rps \in Seq(Reply), NEW c \in Nat
    PROVE  Fates(rps, Len(rps), c) = <<>>
<1> DEFINE s == Fates(rps, Len(rps), c)
<1>1. Len(rps) \in 0 .. Len(rps) /\ Len(rps) - Len(rps) = 0
  OBVIOUS
<1>2. s \in Seq(Fate) /\ Len(s) = 0
  BY <1>1, FatesType
<1> HIDE DEF s
<1>3. s = <<>>
  BY <1>2, EmptySeq
<1> QED
  BY <1>3 DEF s

(* What the refinement needs to know of a state. *)
LEMMA ServerState ==
    ASSUME ConnInv
    PROVE  /\ dqCommon \in Seq(Pipeline) /\ Len(dqCommon) \in Nat /\ DOMAIN dqCommon = 1 .. Len(dqCommon)
           /\ replies \in Seq(Reply) /\ Len(replies) \in Nat
           /\ Len(completed) \in Nat /\ nextSn \in Nat /\ Len(completed) <= nextSn
           /\ OwnPipelines = Len(dqCommon) - (nextSn - Len(completed))
           /\ OwnPipelines \in 0 .. Len(dqCommon)
           /\ \A i \in DOMAIN dqCommon :
                 dqCommon[i].sn = IF i <= OwnPipelines THEN 0
                                  ELSE Len(completed) + i - OwnPipelines
           /\ Waiting = Numbers(Len(completed), nextSn)
           /\ Executed \in Seq(Fate)
<1>1. /\ dqCommon \in Seq(Pipeline) /\ Len(dqCommon) \in Nat /\ DOMAIN dqCommon = 1 .. Len(dqCommon)
      /\ replies \in Seq(Reply) /\ Len(replies) \in Nat
      /\ Len(completed) \in Nat
  BY DEF ConnInv, TypeOK
<1>2. /\ nextSn \in Nat /\ Len(completed) <= nextSn
      /\ OwnPipelines = Len(dqCommon) - (nextSn - Len(completed))
      /\ OwnPipelines \in 0 .. Len(dqCommon)
      /\ \A i \in DOMAIN dqCommon :
            dqCommon[i].sn = IF i <= OwnPipelines THEN 0 ELSE Len(completed) + i - OwnPipelines
  BY <1>1 DEF ConnInv, TypeOK, QueueInv, QueueHolds, QueueOK, HoldsUnanswered, OwnLeft, OwnPipelines
<1>3. Waiting = Numbers(Len(completed), nextSn)
  BY WaitingIsInOrder DEF WaitingInOrder
<1>4. Executed \in Seq(Fate)
  <2>1. CASE readTask
    <3>1. OwnReplies \in 0 .. Len(replies) /\ Executed = Fates(replies, OwnReplies, Len(completed))
      BY <2>1, ExecutedIsInOrder DEF ExecutedInOrder
    <3> HIDE DEF OwnReplies
    <3> QED
      BY <1>1, <3>1, FatesType
  <2>2. CASE ~readTask
    <3>1. Executed = <<>>
      BY <2>2, ExecutedIsInOrder DEF ExecutedInOrder
    <3> QED
      BY <3>1
  <2> QED
    BY <2>1, <2>2
<1> QED
  BY <1>1, <1>2, <1>3, <1>4

(* The server does not see the steps that lose the last answers, or none. *)
LEMMA LosesOrStays ==
    ASSUME Executed \in Seq(Fate), Waiting' = Waiting,
           NEW j \in 0 .. Len(Executed), Executed' = SubSeq(Executed, 1, j)
    PROVE  [Server!Next]_(Server!vars)
<1>1. Len(Executed) \in Nat
  OBVIOUS
<1>2. CASE j = Len(Executed)
  <2>1. SubSeq(Executed, 1, Len(Executed)) = Executed
    <3>1. /\ SubSeq(Executed, 1, Len(Executed)) \in Seq(Fate)
          /\ Len(SubSeq(Executed, 1, Len(Executed))) = Len(Executed)
          /\ \A i \in 1 .. Len(Executed) : SubSeq(Executed, 1, Len(Executed))[i] = Executed[i]
      <4>1. \A i \in 1 .. Len(Executed) : Executed[i] \in Fate
        OBVIOUS
      <4> QED
        BY <1>1, <4>1, SubSeqProperties
    <3> QED
      BY <3>1, SeqEqual
  <2> QED
    BY <1>2, <2>1 DEF Server!vars
<1>3. CASE j # Len(Executed)
  <2>1. j \in 0 .. Len(Executed) - 1
    BY <1>1, <1>3
  <2> QED
    BY <2>1 DEF Server!Next, Server!Lose
<1> QED
  BY <1>2, <1>3

LEMMA LosesAll ==
    ASSUME Executed \in Seq(Fate), Waiting' = Waiting, Executed' = <<>>
    PROVE  [Server!Next]_(Server!vars)
<1>1. 0 \in 0 .. Len(Executed)
  OBVIOUS
<1>2. SubSeq(Executed, 1, 0) = <<>>
  OBVIOUS
<1> QED
  BY <1>1, <1>2, LosesOrStays

(* A commit is an Ask, *)
LEMMA CommitIsAsk ==
    ASSUME ConnInv, ConnInv', HandOver
    PROVE  [Server!Next]_(Server!vars)
<1>1. /\ Len(completed) \in Nat /\ nextSn \in Nat /\ Len(completed) <= nextSn
      /\ Waiting = Numbers(Len(completed), nextSn)
  BY ServerState
<1>2. WaitingInOrder'
  BY WaitingIsInOrder, PTL
<1>3. /\ nextSn' \in Nat /\ nextSn < nextSn'
      /\ completed' = completed /\ replies' = replies /\ readTask' = readTask
  <2>1. PICK n \in 1 .. (MaxCommits - nextSn) : nextSn' = nextSn + n
    BY DEF HandOver
  <2>2. completed' = completed /\ replies' = replies /\ readTask' = readTask
    BY DEF HandOver, SendAndCommit
  <2> QED
    BY <1>1, <2>1, <2>2
<1>4. Waiting' = Numbers(Len(completed), nextSn')
  BY <1>2, <1>3 DEF WaitingInOrder
<1>5. Executed' = Executed
  BY <1>3 DEF Executed, Arriving
<1>6. PICK c \in Nat, n \in Nat, m \in Nat : c = Len(completed) /\ n = nextSn /\ m = nextSn'
  BY <1>1, <1>3
<1>7. /\ SubSeq(Numbers(c, m), 1, Len(Numbers(c, n))) = Numbers(c, n)
      /\ Numbers(c, m) \in Seq(Nat) /\ Len(Numbers(c, m)) = m - c
      /\ Len(Numbers(c, n)) = n - c
  <2>1. c <= n /\ n < m /\ c <= m
    BY <1>1, <1>3, <1>6
  <2> QED
    BY <2>1, NumbersLonger, NumbersType
<1>8. /\ Waiting = Numbers(c, n) /\ Waiting' = Numbers(c, m)
  BY <1>1, <1>4, <1>6
<1>9. m - c > n - c
  BY <1>1, <1>3, <1>6
<1> HIDE DEF Numbers, Waiting
<1> QED
  BY <1>5, <1>7, <1>8, <1>9 DEF Server!Next, Server!Ask

(* a callback an Answer, and the answer to one of the connection's own commands
   nothing; *)
LEMMA CallbackIsAnswer ==
    ASSUME ConnInv, ConnInv', ReceiveTail
    PROVE  [Server!Next]_(Server!vars)
<1> DEFINE c   == Len(completed)
           own == OwnPipelines
           r   == Len(replies)
           m   == OwnReplies
<1>1. /\ dqCommon \in Seq(Pipeline) /\ Len(dqCommon) \in Nat /\ DOMAIN dqCommon = 1 .. Len(dqCommon)
      /\ replies \in Seq(Reply) /\ r \in Nat
      /\ c \in Nat /\ nextSn \in Nat /\ c <= nextSn
      /\ own = Len(dqCommon) - (nextSn - c) /\ own \in 0 .. Len(dqCommon)
      /\ \A i \in DOMAIN dqCommon : dqCommon[i].sn = IF i <= own THEN 0 ELSE c + i - own
      /\ Waiting = Numbers(c, nextSn)
  <2> HIDE DEF c, own, r
  <2> QED
    BY ServerState DEF c, own, r
<1>2. /\ readTask /\ readTask' = readTask /\ replies # <<>> /\ dqCommon # <<>>
      /\ nextSn' = nextSn /\ replies' = Tail(replies) /\ dqCommon' = Tail(dqCommon)
      /\ Head(replies).kind # "error"
      /\ completed' = IF Head(dqCommon).sn = 0 THEN completed
                      ELSE Append(completed, CompletionOf(Head(dqCommon), Head(replies)))
  BY DEF ReceiveTail, HasReply, IsExpected, receiveFrame
<1>3. /\ Head(replies).sn = Head(dqCommon).sn /\ Head(replies) = replies[1]
      /\ Head(replies) \in Reply /\ r \in Nat \ {0}
      /\ Head(replies).kind = "badsha" => Head(replies).sn = 0
  <2>1. /\ Head(replies).sn = Head(dqCommon).sn /\ Head(replies) = replies[1]
        /\ Head(replies) \in Reply /\ r \in Nat \ {0}
    BY <1>2, FrontIsAnswered DEF ConnInv, SingleInv, HasReply
  <2>2. 1 \in DOMAIN replies
    BY <1>1, <2>1
  <2> QED
    BY <2>1, <2>2 DEF ConnInv, SingleInv, OnlyOwnRefused
<1>4. /\ Len(dqCommon) \in Nat \ {0} /\ Head(dqCommon) = dqCommon[1]
      /\ Len(dqCommon') = Len(dqCommon) - 1 /\ Len(replies') = r - 1
      /\ replies' \in Seq(Reply)
  BY <1>1, <1>2, <1>3, HeadTailProperties, EmptySeq
<1>5. /\ m = IF own <= r THEN own ELSE r
      /\ Executed = Fates(replies, m, c)
      /\ OwnReplies' = IF OwnPipelines' <= Len(replies') THEN OwnPipelines' ELSE Len(replies')
      /\ OwnPipelines' = Len(dqCommon') - (nextSn' - Len(completed'))
      /\ Executed' = Fates(replies', OwnReplies', Len(completed'))
      /\ Len(completed') <= nextSn'
      /\ Waiting' = Numbers(Len(completed'), nextSn')
  <2>1. Executed = Fates(replies, m, c)
    BY <1>2, ExecutedIsInOrder DEF ExecutedInOrder
  <2>2. ExecutedInOrder' /\ WaitingInOrder'
    BY ExecutedIsInOrder, WaitingIsInOrder, PTL
  <2>3. Executed' = Fates(replies', OwnReplies', Len(completed'))
    BY <1>2, <2>2 DEF ExecutedInOrder
  <2>4. m = IF own <= r THEN own ELSE r
    BY DEF OwnReplies
  <2>5. /\ OwnReplies' = IF OwnPipelines' <= Len(replies') THEN OwnPipelines' ELSE Len(replies')
        /\ OwnPipelines' = Len(dqCommon') - (nextSn' - Len(completed'))
    BY DEF OwnReplies, OwnPipelines, OwnLeft
  <2>6. Len(completed') <= nextSn' /\ Waiting' = Numbers(Len(completed'), nextSn')
    BY <2>2 DEF WaitingInOrder
  <2> QED
    BY <2>1, <2>3, <2>4, <2>5, <2>6
<1>6. nextSn' = nextSn
  BY <1>2
<1>7. Len(completed') <= nextSn /\ Waiting' = Numbers(Len(completed'), nextSn)
  BY <1>5, <1>6
<1>8. OwnPipelines' = (Len(dqCommon) - 1) - (nextSn - Len(completed'))
  <2>1. Len(dqCommon') = Len(dqCommon) - 1
    BY <1>4
  <2>2. OwnPipelines' = Len(dqCommon') - (nextSn' - Len(completed'))
    BY <1>5
  <2> QED
    BY <1>6, <2>1, <2>2
<1>9. OwnReplies' = IF OwnPipelines' <= r - 1 THEN OwnPipelines' ELSE r - 1
  <2>1. Len(replies') = r - 1
    BY <1>4
  <2>2. OwnReplies' = IF OwnPipelines' <= Len(replies') THEN OwnPipelines' ELSE Len(replies')
    BY <1>5
  <2> QED
    BY <2>1, <2>2
<1>10. Executed' = Fates(Tail(replies), OwnReplies', Len(completed'))
  <2>1. Executed' = Fates(replies', OwnReplies', Len(completed')) /\ replies' = Tail(replies)
    BY <1>2, <1>5
  <2> QED
    BY <2>1
<1>11. CASE Head(dqCommon).sn # 0
  <2>1. own = 0
    <3>1. 1 \in DOMAIN dqCommon
      BY <1>4, <1>1
    <3>2. ~(1 <= own)
      BY <1>1, <1>4, <1>11, <3>1
    <3> QED
      BY <1>1, <3>2
  <2>2. Len(completed') = c + 1
    <3>1. completed \in Seq(Completion) /\ completed' \in Seq(Completion)
      BY DEF ConnInv, TypeOK
    <3> QED
      BY <1>2, <1>11, <3>1
  <2>3. OwnPipelines' = 0
    BY <1>1, <1>8, <2>1, <2>2
  <2>4. m = 0 /\ OwnReplies' = 0
    BY <1>1, <1>3, <1>5, <1>9, <2>1, <2>3
  <2>5. /\ Executed = Fates(replies, 0, c) /\ Executed' = Fates(Tail(replies), 0, c + 1)
        /\ Waiting = Numbers(c, nextSn) /\ Waiting' = Numbers(c + 1, nextSn)
        /\ c < nextSn
    <3>1. Executed' = Fates(Tail(replies), 0, c + 1)
      BY <1>10, <2>2, <2>4
    <3>2. Executed = Fates(replies, 0, c)
      BY <1>5, <2>4
    <3>3. Waiting' = Numbers(c + 1, nextSn) /\ c + 1 <= nextSn
      BY <1>7, <2>2
    <3> QED
      BY <1>1, <3>1, <3>2, <3>3
  <2> HIDE DEF c
  <2>6. Waiting' = Tail(Waiting)
    <3>1. PICK n \in Nat : n = nextSn
      BY <1>1
    <3>2. Tail(Numbers(c, n)) = Numbers(c + 1, n)
      BY <1>1, <2>5, <3>1, NumbersTail
    <3> QED
      BY <2>5, <3>1, <3>2
  <2>7. /\ Executed # <<>> /\ Head(Executed).kind = Head(replies).kind /\ Executed' = Tail(Executed)
    <3>1. /\ Fates(replies, 0, c) # <<>>
          /\ Head(Fates(replies, 0, c)).kind = Head(replies).kind
          /\ Fates(Tail(replies), 0, c + 1) = Tail(Fates(replies, 0, c))
      BY <1>1, <1>2, FatesTail
    <3> QED
      BY <2>5, <3>1
  <2>8. Head(replies).kind = "ok"
    BY <1>2, <1>3, <1>11 DEF Reply, ReplyKind
  <2> HIDE DEF Waiting, Executed
  <2> QED
    BY <2>6, <2>7, <2>8 DEF Server!Next, Server!Answer
<1>12. CASE Head(dqCommon).sn = 0
  <2>1. completed' = completed
    BY <1>2, <1>12
  <2>2. own \in 1 .. Len(dqCommon)
    <3>1. 1 \in DOMAIN dqCommon
      BY <1>4, <1>1
    <3>2. 1 <= own
      BY <1>1, <1>4, <1>12, <3>1
    <3> QED
      BY <1>1, <3>2
  <2>3. Len(completed') = c
    BY <2>1
  <2>4. OwnPipelines' = own - 1
    BY <1>1, <1>8, <2>3
  <2>5. m \in 1 .. r /\ OwnReplies' = m - 1
    BY <1>1, <1>3, <1>5, <1>9, <2>2, <2>4
  <2>6. Executed = Fates(replies, m, c) /\ Executed' = Fates(Tail(replies), m - 1, c)
    BY <1>5, <1>10, <2>3, <2>5
  <2>7. Waiting' = Waiting
    BY <1>1, <1>7, <2>3
  <2> HIDE DEF m, c
  <2>8. Fates(Tail(replies), m - 1, c) = Fates(replies, m, c)
    BY <1>1, <2>5, FatesOwn
  <2> QED
    BY <2>6, <2>7, <2>8 DEF Server!vars
<1> QED
  BY <1>11, <1>12

(* the execution of a command a Serve, or nothing if it is the connection's own; *)
LEMMA ExecutionIsServe ==
    ASSUME ConnInv, ConnInv', ServerExecutes
    PROVE  [Server!Next]_(Server!vars)
<1> DEFINE c   == Len(completed)
           own == OwnPipelines
           r   == Len(replies)
<1>1. /\ dqCommon \in Seq(Pipeline) /\ Len(dqCommon) \in Nat /\ DOMAIN dqCommon = 1 .. Len(dqCommon)
      /\ replies \in Seq(Reply) /\ r \in Nat
      /\ c \in Nat /\ nextSn \in Nat /\ c <= nextSn
      /\ own = Len(dqCommon) - (nextSn - c) /\ own \in 0 .. Len(dqCommon)
      /\ \A i \in DOMAIN dqCommon : dqCommon[i].sn = IF i <= own THEN 0 ELSE c + i - own
      /\ Waiting = Numbers(c, nextSn)
  <2> HIDE DEF c, own, r
  <2> QED
    BY ServerState DEF c, own, r
<1>2. UNCHANGED <<dqCommon, readTask, nextSn, completed>>
  BY DEF ServerExecutes, delayVars, tcpVars
<1>3. Waiting' = Waiting
  BY <1>2 DEF Waiting
<1>4. CASE ~readTask
  <2>1. Arriving = <<>> /\ Arriving' = <<>>
    BY <1>2, <1>4 DEF Arriving
  <2>2. Executed' = Executed
    BY <2>1 DEF Executed
  <2> QED
    BY <1>3, <2>2 DEF Server!vars
<1>5. CASE readTask
  <2>1. PICK kind \in ReplyKind :
          /\ r + 1 \in DOMAIN dqCommon
          /\ replies' = Append(replies, [sn |-> dqCommon[r + 1].sn, idx |-> 1, kind |-> kind])
          /\ kind = "badsha" => dqCommon[r + 1].sn = 0
    BY <1>5, ServerAnswersNext DEF ConnInv
  <2> DEFINE x == [sn |-> dqCommon[r + 1].sn, idx |-> 1, kind |-> kind]
  <2>2. x \in Reply /\ x.kind = kind
    <3>1. dqCommon[r + 1] \in Pipeline
      BY <1>1, <2>1
    <3>2. dqCommon[r + 1].sn \in Nat
      BY <3>1 DEF Pipeline
    <3> QED
      BY <3>2 DEF Reply
  <2>3. replies' = Append(replies, x)
    BY <2>1
  <2> HIDE DEF x
  <2>4. Append(replies, x) \in Seq(Reply) /\ Len(Append(replies, x)) = r + 1
    BY <1>1, <2>2, AppendProperties
  <2>5. /\ Executed = Fates(replies, OwnReplies, c)
        /\ Executed' = Fates(Append(replies, x), OwnReplies', c)
    <3>1. ExecutedInOrder /\ ExecutedInOrder'
      BY ExecutedIsInOrder, PTL
    <3>2. Executed' = Fates(replies', OwnReplies', Len(completed'))
      BY <1>2, <1>5, <3>1 DEF ExecutedInOrder
    <3>3. Executed = Fates(replies, OwnReplies, c)
      BY <1>5, <3>1 DEF ExecutedInOrder
    <3> QED
      BY <1>2, <2>3, <3>2, <3>3
  <2>6. /\ OwnReplies = IF own <= r THEN own ELSE r
        /\ OwnReplies' = IF own <= r + 1 THEN own ELSE r + 1
    <3>1. OwnPipelines' = own
      BY <1>2 DEF OwnPipelines
    <3>2. Len(replies') = r + 1
      BY <2>3, <2>4
    <3>3. OwnReplies' = IF OwnPipelines' <= Len(replies') THEN OwnPipelines' ELSE Len(replies')
      BY DEF OwnReplies
    <3> QED
      BY <3>1, <3>2, <3>3 DEF OwnReplies
  <2>7. CASE own <= r
    <3>1. own \in 0 .. r /\ OwnReplies = own /\ OwnReplies' = own
      BY <1>1, <2>6, <2>7
    <3>2. Executed = Fates(replies, own, c) /\ Executed' = Fates(Append(replies, x), own, c)
      BY <2>5, <3>1
    <3> HIDE DEF c, own
    <3>3. /\ Fates(Append(replies, x), own, c)
               = Append(Fates(replies, own, c), [sn |-> c + (r - own) + 1, kind |-> kind])
          /\ Len(Fates(replies, own, c)) = r - own
      <4>1. Fates(Append(replies, x), own, c)
               = Append(Fates(replies, own, c), [sn |-> c + (r - own) + 1, kind |-> x.kind])
        BY <1>1, <2>2, <3>1, FatesAppend
      <4>2. Len(Fates(replies, own, c)) = r - own
        BY <1>1, <3>1, FatesType
      <4> QED
        BY <2>2, <4>1, <4>2
    <3>4. /\ Executed' = Append(Executed, [sn |-> c + (r - own) + 1, kind |-> kind])
          /\ Len(Executed) = r - own
      BY <3>2, <3>3
    <3>5. kind \in {"ok", "error"}
      <4>1. ~(r + 1 <= own)
        BY <1>1, <3>1
      <4>2. dqCommon[r + 1].sn = c + (r + 1) - own
        BY <1>1, <2>1, <4>1
      <4>3. c + (r + 1) - own # 0
        <5>1. c \in Nat /\ r \in Nat /\ own \in Int /\ own <= r
          BY <1>1, <3>1
        <5> HIDE DEF r
        <5> QED
          BY <5>1
      <4> QED
        BY <2>1, <4>2, <4>3 DEF ReplyKind
    <3>6. /\ (r - own) + 1 \in 1 .. (nextSn - c)
      BY <1>1, <2>1, <3>1
    <3>7. /\ Len(Waiting) = nextSn - c
          /\ Waiting[(r - own) + 1] = c + ((r - own) + 1)
      <4>1. PICK n \in Nat : n = nextSn
        BY <1>1
      <4>2. /\ Len(Numbers(c, n)) = n - c
            /\ \A k \in 1 .. (n - c) : Numbers(c, n)[k] = c + k
        BY <1>1, <4>1, NumbersType
      <4> QED
        BY <1>1, <3>6, <4>1, <4>2
    <3>8. /\ Len(Executed) < Len(Waiting)
          /\ Waiting[Len(Executed) + 1] = c + (r - own) + 1
      BY <1>1, <3>1, <3>4, <3>6, <3>7
    <3>9. Executed' = Append(Executed, [sn |-> Waiting[Len(Executed) + 1], kind |-> kind])
      BY <3>4, <3>8
    <3> HIDE DEF Executed, Waiting
    <3> QED
      BY <1>3, <3>5, <3>8, <3>9 DEF Server!Next, Server!Serve, Server!Kind
  <2>8. CASE ~(own <= r)
    <3>1. OwnReplies = r /\ OwnReplies' = r + 1
      BY <1>1, <2>6, <2>8
    <3>2. Executed = Fates(replies, Len(replies), c)
      BY <2>5, <3>1
    <3>3. Executed' = Fates(Append(replies, x), Len(Append(replies, x)), c)
      BY <2>4, <2>5, <3>1
    <3> HIDE DEF c
    <3>4. Executed = <<>> /\ Executed' = <<>>
      BY <1>1, <2>4, <3>2, <3>3, NoFates
    <3> QED
      BY <1>3, <3>4 DEF Server!vars
  <2> QED
    BY <2>7, <2>8
<1> QED
  BY <1>4, <1>5

(* a link that breaks loses the last of the answers. *)
LEMMA BreakIsLose ==
    ASSUME ConnInv, ConnInv', LoseLink
    PROVE  [Server!Next]_(Server!vars)
<1> DEFINE c   == Len(completed)
           own == OwnPipelines
           r   == Len(replies)
<1>1. /\ Executed \in Seq(Fate) /\ replies \in Seq(Reply) /\ r \in Nat /\ c \in Nat /\ own \in Nat
  BY ServerState
<1>2. UNCHANGED <<dqCommon, readTask, nextSn, completed>>
  BY DEF LoseLink, tcpVars, delayVars
<1>3. Waiting' = Waiting
  BY <1>2 DEF Waiting
<1>4. CASE ~readTask
  <2>1. Arriving' = <<>>
    BY <1>2, <1>4 DEF Arriving
  <2>2. Executed' = <<>>
    BY <2>1 DEF Executed
  <2> QED
    BY <1>1, <1>3, <2>2, LosesAll
<1>5. CASE readTask
  <2>1. PICK j \in 0 .. r : replies' = SubSeq(replies, 1, j)
    BY DEF LoseLink
  <2> DEFINE p == SubSeq(replies, 1, j)
  <2>2. p \in Seq(Reply) /\ Len(p) = j
    <3>1. j \in Nat /\ \A i \in 1 .. j : replies[i] \in Reply
      BY <1>1, <2>1
    <3> QED
      BY <3>1, SubSeqProperties
  <2>3. replies' = p
    BY <2>1
  <2> HIDE DEF p
  <2>4. /\ Executed = Fates(replies, OwnReplies, c)
        /\ Executed' = Fates(p, OwnReplies', c)
    <3>1. ExecutedInOrder /\ ExecutedInOrder'
      BY ExecutedIsInOrder, PTL
    <3>2. Executed' = Fates(replies', OwnReplies', Len(completed'))
      BY <1>2, <1>5, <3>1 DEF ExecutedInOrder
    <3>3. Executed = Fates(replies, OwnReplies, c)
      BY <1>5, <3>1 DEF ExecutedInOrder
    <3> QED
      BY <1>2, <2>3, <3>2, <3>3
  <2>5. /\ OwnReplies = IF own <= r THEN own ELSE r
        /\ OwnReplies' = IF own <= j THEN own ELSE j
    <3>1. OwnPipelines' = own
      BY <1>2 DEF OwnPipelines
    <3>2. Len(replies') = j
      BY <2>2, <2>3
    <3>3. OwnReplies' = IF OwnPipelines' <= Len(replies') THEN OwnPipelines' ELSE Len(replies')
      BY DEF OwnReplies
    <3> QED
      BY <3>1, <3>2, <3>3 DEF OwnReplies
  <2>6. CASE own <= j
    <3>1. own \in 0 .. r /\ j \in own .. r /\ OwnReplies = own /\ OwnReplies' = own
      BY <1>1, <2>1, <2>5, <2>6
    <3>2. Executed = Fates(replies, own, c) /\ Executed' = Fates(p, own, c)
      BY <2>4, <3>1
    <3> HIDE DEF c, own
    <3>3. /\ Fates(p, own, c) = SubSeq(Fates(replies, own, c), 1, j - own)
          /\ Len(Fates(replies, own, c)) = r - own
      BY <1>1, <3>1, FatesPrefix, FatesType DEF p
    <3>4. Executed' = SubSeq(Executed, 1, j - own) /\ j - own \in 0 .. Len(Executed)
      BY <1>1, <3>1, <3>2, <3>3
    <3> HIDE DEF Executed, Waiting
    <3> QED
      BY <1>1, <1>3, <3>4, LosesOrStays
  <2>7. CASE ~(own <= j)
    <3>1. OwnReplies' = j
      BY <1>1, <2>1, <2>5, <2>7
    <3>2. Executed' = Fates(p, Len(p), c)
      BY <2>2, <2>4, <3>1
    <3> HIDE DEF c
    <3>3. Executed' = <<>>
      BY <1>1, <2>2, <3>2, NoFates
    <3> QED
      BY <1>1, <1>3, <3>3, LosesAll
  <2> QED
    BY <2>6, <2>7
<1> QED
  BY <1>4, <1>5

(* Everything else loses all the answers under way, or is not seen. *)
LEMMA OtherSteps ==
    ASSUME ConnInv, ConnInv', [Next]_vars, ~HandOver, ~ReceiveTail, ~ServerExecutes, ~LoseLink
    PROVE  [Server!Next]_(Server!vars)
<1> USE DEF delayVars, tcpVars, serverVars, receiveFrame
<1>1. UNCHANGED <<nextSn, completed>>
  BY DEF Next, ConnProgress, LoopStep, OnClientReceive, ConnFault, CommitLoopTimer,
         ConnectSucceeds, ReadFails, ResetAfterFailure, DelayElapsed, ReceiveError,
         ReceiveUnexpected, ReceiveNonTail, ReceiveBadSha, ConnectThenReadThrows,
         ConnectFails, vars, connVars
<1>2. Waiting' = Waiting
  <2>1. WaitingInOrder /\ WaitingInOrder'
    BY WaitingIsInOrder, PTL
  <2>2. Waiting' = Numbers(Len(completed'), nextSn')
    BY <2>1 DEF WaitingInOrder
  <2>3. Waiting = Numbers(Len(completed), nextSn)
    BY <2>1 DEF WaitingInOrder
  <2> QED
    BY <1>1, <2>2, <2>3
<1>3. Executed \in Seq(Fate)
  BY ServerState
<1>4. CASE ~readTask'
  <2>1. Arriving' = <<>>
    BY <1>4 DEF Arriving
  <2>2. Executed' = <<>>
    BY <2>1 DEF Executed
  <2> QED
    BY <1>2, <1>3, <2>2, LosesAll
<1>5. CASE UNCHANGED <<readTask, replies>>
  <2>1. Arriving' = Arriving
    BY <1>5 DEF Arriving
  <2>2. Executed' = Executed
    BY <2>1 DEF Executed
  <2> QED
    BY <1>2, <2>2 DEF Server!vars
<1>6. CASE ConnectSucceeds
  <2>1. ~readTask /\ replies' = <<>> /\ readTask'
    BY <1>6 DEF ConnectSucceeds, ConnInv, TaskInv, SingleInv, NothingUnderWay
  <2>2. Executed' = <<>>
    <3>1. ExecutedInOrder'
      BY ExecutedIsInOrder, PTL
    <3>2. /\ OwnReplies' \in 0 .. Len(replies')
          /\ Executed' = Fates(replies', OwnReplies', Len(completed'))
      BY <2>1, <3>1 DEF ExecutedInOrder
    <3>3. Len(replies') = 0 /\ <<>> \in Seq(Reply) /\ Len(completed') \in Nat
      BY <2>1 DEF ConnInv, TypeOK
    <3>4. OwnReplies' = Len(<<>>)
      BY <3>2, <3>3
    <3>5. PICK c \in Nat : c = Len(completed')
      BY <3>3
    <3>6. Fates(<<>>, Len(<<>>), c) = <<>>
      BY <3>3, NoFates
    <3> HIDE DEF OwnReplies
    <3> QED
      BY <2>1, <3>2, <3>4, <3>5, <3>6
  <2> QED
    BY <1>2, <1>3, <2>2, LosesAll
<1>7. CASE ReceiveNonTail
  <2>1. HasReply /\ IsExpected /\ ~IsTail
    BY <1>7 DEF ReceiveNonTail
  <2> QED
    BY <2>1, FrontIsAnswered DEF IsExpected, ConnInv, SingleInv
<1>8. \/ UNCHANGED <<readTask, replies>> \/ ConnectSucceeds \/ ReceiveNonTail \/ ~readTask'
  BY DEF Next, ConnProgress, LoopStep, OnClientReceive, ConnFault, CommitLoopTimer,
         ReadFails, ResetAfterFailure, DelayElapsed, ReceiveError, ReceiveUnexpected,
         ReceiveBadSha, ReadTaskThrows, ConnectThenReadThrows, ConnectFails, vars, connVars
<1> QED
  BY <1>4, <1>5, <1>6, <1>7, <1>8

LEMMA ServerStep ==
    ASSUME BuiltNums \subseteq {1}
    PROVE  ConnInv /\ [Next]_vars => [Server!Next]_(Server!vars)
<1> SUFFICES ASSUME ConnInv, [Next]_vars PROVE [Server!Next]_(Server!vars)
  OBVIOUS
<1>1. ConnInv'
  BY ConnInvNext
<1> QED
  BY <1>1, CommitIsAsk, CallbackIsAnswer, ExecutionIsServe, BreakIsLose, OtherSteps

(* To the server the connection is AtLeastOnce: through every loss of the connection, every
   reset and every resending in OnClientConnect, single commands are executed in the order
   of the commits, and what is executed again is a run that begins with the first
   unanswered command and leaves nothing out. *)
THEOREM SingleResendsInOrder ==
    ASSUME BuiltNums \subseteq {1}
    PROVE  Spec => ResendsInOrder
<1>1. Init => Server!Init
  <2> SUFFICES ASSUME Init PROVE Server!Init
    OBVIOUS
  <2>1. ConnInv
    BY ConnInvInit
  <2>2. ~readTask /\ nextSn = 0 /\ completed = <<>>
    BY DEF Init
  <2>3. Executed = <<>>
    BY <2>1, <2>2, ExecutedIsInOrder DEF ExecutedInOrder
  <2>4. Waiting = Numbers(0, 0)
    BY <2>1, <2>2, WaitingIsInOrder DEF WaitingInOrder
  <2>5. Numbers(0, 0) = <<>>
    <3>1. Numbers(0, 0) \in Seq(Nat) /\ Len(Numbers(0, 0)) = 0 - 0
      BY NumbersType
    <3> HIDE DEF Numbers
    <3> QED
      BY <3>1, EmptySeq
  <2> QED
    BY <2>3, <2>4, <2>5 DEF Server!Init
<1> QED
  BY <1>1, ConnInvInit, ConnInvNext, ServerStep, PTL DEF Spec, Server!Spec, ResendsInOrder

-----------------------------------------------------------------------------
(* PART 2: the client.                                                      *)

-----------------------------------------------------------------------------
(* The invariants.                                                          *)

(* The types but for the length of promised, which OwnerInv bounds. *)
ClientTypes ==
    /\ TypeOK
    /\ mainPc \in MainPc
    /\ builtNum \in 0 .. MaxBuilt
    /\ how \in Seq(Call) /\ Len(how) = nextSn
    /\ delivered \in Seq(Completion)
    /\ workQueue \in Seq(Pipeline)
    /\ pipeByte \in BOOLEAN /\ pipeLoop \in BOOLEAN
    /\ done \in BOOLEAN /\ finished \in BOOLEAN
    /\ trunkQueue \in Seq(Completion) /\ trunkClosed \in BOOLEAN
    /\ promised \in Seq(Completion)

(* The connection has been given the first m pipelines, and the work queue holds the
   next ones: all the others, unless they were committed after the shutdown. *)
HandedOver(m) ==
    /\ QueueHolds(m)
    /\ \A k \in DOMAIN workQueue : workQueue[k].sn = m + k /\ workQueue[k].state = QUEUEING
    /\ m + Len(workQueue) <= nextSn
    /\ ~done => m + Len(workQueue) = nextSn

OrderInv == \E m \in Nat : HandedOver(m)

InBlockingCommit == mainPc \in {"notify", "waiting"}

(* Only the last call can be a BlockingCommit() without an answer, and then the main
   thread is still in it; so is it if the answer is there. *)
OwnerInv ==
    /\ mainPc = "notify" => nextSn > 0
    /\ \A k \in 1 .. nextSn :
          k > Len(completed) /\ how[k] = "BlockingCommit" => k = nextSn /\ InBlockingCommit
    /\ promised # <<>> => /\ Len(promised) = 1
                          /\ promised[1].sn = nextSn
                          /\ how[nextSn] = "BlockingCommit"
                          /\ Len(completed) >= nextSn
                          /\ InBlockingCommit

(* The completions of s are of pipelines that were committed through call. *)
AllThrough(s, call) == \A k \in DOMAIN s : s[k].sn \in 1 .. nextSn /\ how[s[k].sn] = call

PostInv ==
    /\ EachOnceInOrder
    /\ \A k \in DOMAIN delivered : delivered[k].sn \in 1 .. nextSn
    /\ AllThrough(trunkQueue, "Commit")
    /\ AllThrough(promised, "BlockingCommit")

(* The replies of s are each the last of its own pipeline. *)
AllOwn(s) == \A k \in DOMAIN s : s[k].reply.sn = s[k].sn /\ s[k].reply.idx = s[k].built_num

OwnInv ==
    /\ TaskInv
    /\ SingleInv
    /\ FreshSingle(workQueue)
    /\ AllOwn(delivered) /\ AllOwn(trunkQueue) /\ AllOwn(promised)

-----------------------------------------------------------------------------
(* What the connection does for the client.                                 *)

LEMMA FaultTellsNobody == ConnFault => UNCHANGED completed
BY DEF ConnFault, ConnectThenReadThrows, ConnectFails, LoseLink

LEMMA CommitTellsNobody ==
    ASSUME NEW batch, SendAndCommit(batch)
    PROVE  UNCHANGED completed
BY DEF SendAndCommit

(* A callback of the event loop runs one reply callback or none. *)
LEMMA CallbackPosts ==
    ASSUME TypeOK, TypeOK', ConnProgress, PostCompleted
    PROVE  \/ UNCHANGED <<completed, trunkQueue, promised>>
           \/ \E x \in Completion : /\ completed' = Append(completed, x)
                                    /\ Len(completed') = Len(completed) + 1
                                    /\ completed'[Len(completed) + 1] = x
                                    /\ Post(x)
<1>1. CASE completed' = completed
  BY <1>1 DEF PostCompleted
<1>2. CASE completed' # completed
  <2> DEFINE x == CompletionOf(Head(dqCommon), Head(replies))
             n == Len(completed)
  <2>1. completed' = Append(completed, x) /\ ReceiveTail
    BY <1>2, CompletedGrows
  <2>2. /\ completed \in Seq(Completion) /\ completed' \in Seq(Completion) /\ n \in Nat
    BY DEF TypeOK
  <2>3. x \in Completion
    <3>1. Head(dqCommon) \in Pipeline /\ Head(replies) \in Reply
      <4>1. /\ dqCommon \in Seq(Pipeline) /\ dqCommon # <<>>
            /\ replies \in Seq(Reply) /\ replies # <<>>
        BY <2>1 DEF ReceiveTail, HasReply, IsExpected, TypeOK
      <4> QED
        BY <4>1, HeadTailProperties
    <3> QED
      BY <3>1 DEF CompletionOf, Completion, Pipeline
  <2> HIDE DEF x, n
  <2>4. Len(completed') = n + 1 /\ completed'[n + 1] = x
    <3>1. Len(Append(completed, x)) = n + 1 /\ Append(completed, x)[n + 1] = x
      BY <2>2, <2>3, AppendProperties DEF n
    <3> QED
      BY <2>1, <3>1
  <2>5. Post(x)
    BY <1>2, <2>4 DEF PostCompleted
  <2> QED
    BY <2>1, <2>3, <2>4, <2>5 DEF n
<1> QED
  BY <1>1, <1>2

(* The worker hands over what is in the work queue, if there is anything. *)
LEMMA ReadPipeHandsOver ==
    ASSUME ReadPipe
    PROVE  /\ UNCHANGED <<mainPc, builtNum, how, delivered, nextSn, done, finished,
                          trunkQueue, trunkClosed, promised, completed>>
           /\ workQueue' = <<>> /\ pipeByte' = FALSE /\ pipeByte /\ pipeLoop
           /\ pipeLoop' = ~done
           /\ (workQueue = <<>> /\ UNCHANGED connVars) \/ SendAndCommit(workQueue)
BY CommitTellsNobody DEF ReadPipe, mainVars, trunkVars, connVars

-----------------------------------------------------------------------------
(* No lost wakeup.                                                          *)

LEMMA NoLostWakeupNext == NoLostWakeup /\ [ClientNext]_clientVars => NoLostWakeup'
<1> SUFFICES ASSUME NoLostWakeup, [ClientNext]_clientVars PROVE NoLostWakeup'
  OBVIOUS
<1> USE DEF NoLostWakeup, mainVars, queueVars, trunkVars
<1>1. CASE \E call \in Call : CommitPipeline(call)
  <2>1. PICK call \in Call : CommitCommands(call, builtNum)
    BY <1>1 DEF CommitPipeline
  <2> QED
    BY <2>1 DEF CommitCommands
<1>2. CASE Notify
  BY <1>2 DEF Notify, PipeNotify
<1>3. CASE ReadPipe
  BY <1>3, ReadPipeHandsOver
<1>4. CASE BuildCommand \/ BlockingCommitReturns \/ RunOnce \/ Shutdown \/ ShutdownReturns
  BY <1>4 DEF BuildCommand, BlockingCommitReturns, RunOnce, Shutdown, ShutdownReturns
<1>5. CASE WorkerStep \/ FaultStep \/ WorkerQuits
  BY <1>5 DEF WorkerStep, FaultStep, WorkerQuits
<1>6. CASE UNCHANGED clientVars
  BY <1>6 DEF clientVars
<1> QED
  BY <1>1, <1>2, <1>3, <1>4, <1>5, <1>6 DEF ClientNext, MainStep

(* A pipeline in the work queue is never left unnoticed: the main thread enqueues it before
   it writes the byte, and the worker takes the byte before it empties the queue, so that
   in no interleaving of the two the worker waits for a byte that will not come. *)
THEOREM AlwaysNoLostWakeup == ClientSpec => []NoLostWakeup
<1>1. ClientInit => NoLostWakeup
  BY DEF ClientInit, NoLostWakeup
<1> QED
  BY <1>1, NoLostWakeupNext, PTL DEF ClientSpec

-----------------------------------------------------------------------------
(* Types.                                                                   *)

LEMMA ClientTypesInit == ClientInit => ClientTypes
<1> SUFFICES ASSUME ClientInit PROVE ClientTypes
  OBVIOUS
<1>1. TypeOK
  BY TypeInit DEF ClientInit
<1>2. how \in Seq(Call) /\ Len(how) = nextSn
  BY DEF ClientInit, Init
<1>3. mainPc \in MainPc /\ builtNum \in 0 .. MaxBuilt
  BY MaxBuiltAssumption DEF ClientInit, MainPc
<1>4. /\ delivered \in Seq(Completion) /\ trunkQueue \in Seq(Completion)
      /\ promised \in Seq(Completion) /\ workQueue \in Seq(Pipeline)
  BY DEF ClientInit
<1>5. /\ pipeByte \in BOOLEAN /\ pipeLoop \in BOOLEAN
      /\ done \in BOOLEAN /\ finished \in BOOLEAN /\ trunkClosed \in BOOLEAN
  BY DEF ClientInit
<1> QED
  BY <1>1, <1>2, <1>3, <1>4, <1>5 DEF ClientTypes

(* The connection's part of the types, in the steps of the client. *)
LEMMA ClientConnType ==
    ASSUME ClientTypes, [ClientNext]_clientVars
    PROVE  TypeOK' /\ nextSn' \in Nat
<1>1. TypeOK /\ nextSn \in Nat
  BY DEF ClientTypes, TypeOK
<1> USE DEF mainVars, queueVars, trunkVars
<1>2. CASE UNCHANGED connVars /\ nextSn' \in Nat
  BY <1>1, <1>2 DEF TypeOK, connVars, delayVars, tcpVars, serverVars
<1>3. CASE ConnProgress \/ ConnFault
  <2>1. Next
    BY <1>3 DEF Next
  <2> QED
    BY <1>1, <2>1, TypeNext DEF TypeOK
<1>4. CASE ReadPipe
  <2>1. nextSn' = nextSn
    BY <1>4, ReadPipeHandsOver
  <2>2. CASE UNCHANGED connVars
    BY <1>1, <1>2, <2>1, <2>2
  <2>3. CASE SendAndCommit(workQueue)
    <3>1. workQueue \in Seq(Pipeline)
      BY DEF ClientTypes
    <3> QED
      BY <1>1, <2>1, <2>3, <3>1, SendAndCommitType
  <2> QED
    BY <1>4, <2>2, <2>3, ReadPipeHandsOver
<1>5. CASE MainStep \/ WorkerQuits \/ UNCHANGED clientVars
  <2>1. UNCHANGED connVars
    BY <1>5 DEF MainStep, BuildCommand, CommitPipeline, CommitCommands, Notify,
                BlockingCommitReturns, RunOnce, Shutdown, ShutdownReturns, WorkerQuits, clientVars
  <2>2. nextSn' = nextSn \/ nextSn' = nextSn + 1
    BY <1>5 DEF MainStep, BuildCommand, CommitPipeline, CommitCommands, Notify,
                BlockingCommitReturns, RunOnce, Shutdown, ShutdownReturns, WorkerQuits, clientVars
  <2> QED
    BY <1>1, <1>2, <2>1, <2>2
<1> QED
  BY <1>3, <1>4, <1>5 DEF ClientNext, WorkerStep, FaultStep

(* What a commit leaves in the work queue. *)
LEMMA CommitsPipeline ==
    ASSUME workQueue \in Seq(Pipeline), nextSn \in Nat, NEW call, NEW n \in Nat,
           CommitCommands(call, n)
    PROVE  workQueue' \in Seq(Pipeline)
<1> DEFINE cp == CreateCmdPipeline(nextSn + 1, n)
<1>1. cp \in Pipeline
  BY DEF CreateCmdPipeline, Pipeline, PipelineState, QUEUEING, PROCESS_OVER
<1>2. workQueue' = workQueue \/ workQueue' = Append(workQueue, cp)
  BY DEF CommitCommands
<1> HIDE DEF cp
<1>3. Append(workQueue, cp) \in Seq(Pipeline)
  BY <1>1, AppendProperties
<1> QED
  BY <1>2, <1>3

LEMMA ClientTypesNext == ClientTypes /\ [ClientNext]_clientVars => ClientTypes'
<1> SUFFICES ASSUME ClientTypes, [ClientNext]_clientVars PROVE ClientTypes'
  OBVIOUS
<1>1. /\ TypeOK /\ TypeOK' /\ nextSn \in Nat /\ nextSn' \in Nat
      /\ mainPc \in MainPc
      /\ builtNum \in 0 .. MaxBuilt
      /\ how \in Seq(Call) /\ Len(how) = nextSn
      /\ delivered \in Seq(Completion)
      /\ workQueue \in Seq(Pipeline)
      /\ pipeByte \in BOOLEAN /\ pipeLoop \in BOOLEAN
      /\ done \in BOOLEAN /\ finished \in BOOLEAN
      /\ trunkQueue \in Seq(Completion) /\ trunkClosed \in BOOLEAN
      /\ promised \in Seq(Completion)
      /\ MaxBuilt \in Nat \ {0}
  BY ClientConnType, MaxBuiltAssumption DEF ClientTypes, TypeOK
<1>2. {"idle", "notify", "waiting", "finishing"} \subseteq MainPc
  BY DEF MainPc
<1> USE DEF mainVars, queueVars, trunkVars
<1>3. CASE BuildCommand
  <2>1. builtNum + 1 \in 0 .. MaxBuilt
    BY <1>1, <1>3 DEF BuildCommand
  <2>2. /\ UNCHANGED <<mainPc, how, delivered, nextSn, queueVars, trunkVars>>
        /\ builtNum' = builtNum + 1
    BY <1>3 DEF BuildCommand
  <2> QED
    BY <1>1, <2>1, <2>2 DEF ClientTypes
<1>4. CASE \E call \in Call : CommitPipeline(call)
  <2>1. PICK call \in Call : CommitCommands(call, builtNum)
    BY <1>4 DEF CommitPipeline
  <2>2. how' = Append(how, call) /\ nextSn' = nextSn + 1 /\ builtNum' = 0
    BY <2>1 DEF CommitCommands
  <2>3. how' \in Seq(Call) /\ Len(how') = nextSn'
    BY <1>1, <2>2, AppendProperties
  <2>4. mainPc' \in MainPc
    BY <1>2, <2>1 DEF CommitCommands, AfterAdd
  <2>5. workQueue' \in Seq(Pipeline)
    BY <1>1, <2>1, CommitsPipeline
  <2>6. UNCHANGED <<delivered, pipeByte, pipeLoop, done, finished, trunkQueue, trunkClosed,
  promised>>
    BY <2>1 DEF CommitCommands
  <2>7. builtNum' \in 0 .. MaxBuilt
    BY <1>1, <2>2
  <2> QED
    BY <1>1, <2>3, <2>4, <2>5, <2>6, <2>7 DEF ClientTypes
<1>5. CASE Notify
  <2>1. mainPc' \in MainPc
    BY <1>2, <1>5 DEF Notify, AfterAdd
  <2>2. /\ UNCHANGED <<builtNum, how, delivered, nextSn, workQueue, pipeLoop, done, finished,
                       trunkQueue, trunkClosed, promised>>
        /\ pipeByte' = TRUE
    BY <1>5 DEF Notify, PipeNotify
  <2> QED
    BY <1>1, <2>1, <2>2 DEF ClientTypes
<1>6. CASE BlockingCommitReturns
  <2>1. /\ UNCHANGED <<builtNum, how, nextSn, queueVars, trunkQueue, trunkClosed>>
        /\ mainPc' = "idle" /\ delivered' = delivered \o promised /\ promised' = <<>>
    BY <1>6 DEF BlockingCommitReturns
  <2>2. delivered' \in Seq(Completion) /\ promised' \in Seq(Completion)
    BY <1>1, <2>1, ConcatProperties
  <2> QED
    BY <1>1, <1>2, <2>1, <2>2 DEF ClientTypes
<1>7. CASE RunOnce
  <2>1. /\ UNCHANGED <<mainPc, builtNum, how, nextSn, queueVars, trunkClosed, promised>>
        /\ trunkQueue # <<>> /\ trunkQueue' = Tail(trunkQueue)
        /\ delivered' = Append(delivered, Head(trunkQueue))
    BY <1>7 DEF RunOnce
  <2>2. Head(trunkQueue) \in Completion /\ Tail(trunkQueue) \in Seq(Completion)
    BY <1>1, <2>1, HeadTailProperties
  <2>3. delivered' \in Seq(Completion)
    BY <1>1, <2>1, <2>2, AppendProperties
  <2> QED
    BY <1>1, <2>1, <2>2, <2>3 DEF ClientTypes
<1>8. CASE Shutdown
  BY <1>1, <1>2, <1>8 DEF Shutdown, ClientTypes
<1>9. CASE ShutdownReturns
  BY <1>1, <1>2, <1>9 DEF ShutdownReturns, ClientTypes
<1>10. CASE ReadPipe
  <2>1. <<>> \in Seq(Pipeline)
    OBVIOUS
  <2> QED
    BY <1>1, <1>10, <2>1, ReadPipeHandsOver DEF ClientTypes
<1>11. CASE WorkerStep
  <2>1. ConnProgress /\ PostCompleted
    BY <1>11 DEF WorkerStep
  <2>2. /\ UNCHANGED <<mainPc, builtNum, how, delivered, queueVars, trunkClosed>>
        /\ nextSn' = nextSn
    BY <1>11, <2>1, NextSnKept DEF WorkerStep
  <2>3. trunkQueue' \in Seq(Completion) /\ promised' \in Seq(Completion)
    <3>1. CASE UNCHANGED <<completed, trunkQueue, promised>>
      BY <1>1, <3>1
    <3>2. CASE \E x \in Completion : Post(x)
      <4>1. PICK x \in Completion : Post(x)
        BY <3>2
      <4>2. Append(trunkQueue, x) \in Seq(Completion) /\ Append(promised, x) \in Seq(Completion)
        BY <1>1, AppendProperties
      <4> QED
        BY <1>1, <4>1, <4>2 DEF Post
    <3> QED
      BY <1>1, <2>1, <3>1, <3>2, CallbackPosts
  <2> QED
    BY <1>1, <2>2, <2>3 DEF ClientTypes
<1>12. CASE FaultStep
  <2>1. ConnFault /\ UNCHANGED <<mainPc, builtNum, how, delivered, queueVars, trunkVars>>
    BY <1>12 DEF FaultStep
  <2>2. nextSn' = nextSn
    BY <2>1, NextSnKept
  <2> QED
    BY <1>1, <2>1, <2>2 DEF ClientTypes
<1>13. CASE WorkerQuits
  BY <1>1, <1>13 DEF WorkerQuits, ClientTypes
<1>14. CASE UNCHANGED clientVars
  BY <1>1, <1>14 DEF clientVars, ClientTypes
<1> QED
  BY <1>3, <1>4, <1>5, <1>6, <1>7, <1>8, <1>9, <1>10, <1>11, <1>12, <1>13, <1>14
     DEF ClientNext, MainStep

-----------------------------------------------------------------------------
(* The order of the pipelines.                                              *)

LEMMA OrderInvInit == ClientInit => OrderInv
<1> SUFFICES ASSUME ClientInit PROVE OrderInv
  OBVIOUS
<1>1. QueueHolds(0)
  BY QueueInit DEF ClientInit
<1>2. workQueue = <<>> /\ nextSn = 0
  BY DEF ClientInit, Init
<1>3. HandedOver(0)
  BY <1>1, <1>2 DEF HandedOver
<1> QED
  BY <1>3 DEF OrderInv

(* The deque and the completions alone do not tell whether it is still handed over. *)
LEMMA HandedOverKept ==
    ASSUME NEW m \in Nat, HandedOver(m), QueueHolds(m)', UNCHANGED <<workQueue, nextSn, done>>
    PROVE  HandedOver(m)'
BY DEF HandedOver

LEMMA QueueUnchanged ==
    ASSUME NEW m \in Nat, QueueHolds(m), UNCHANGED <<dqCommon, completed>>
    PROVE  QueueHolds(m)'
BY DEF QueueHolds, CallbacksInOrder

(* A commit enqueues the next pipeline, or after the shutdown none. *)
LEMMA CommitInOrder ==
    ASSUME workQueue \in Seq(Pipeline), nextSn \in Nat, done \in BOOLEAN,
           NEW m \in Nat, HandedOver(m), NEW call, NEW n \in Nat, CommitCommands(call, n)
    PROVE  HandedOver(m)'
<1>1. Len(workQueue) \in Nat /\ DOMAIN workQueue = 1 .. Len(workQueue)
  OBVIOUS
<1>2. QueueHolds(m)
  BY DEF HandedOver
<1>3. QueueHolds(m)'
  <2>1. UNCHANGED <<dqCommon, completed>>
    BY DEF CommitCommands, connVars
  <2> QED
    BY <1>2, <2>1, QueueUnchanged
<1>4. nextSn' = nextSn + 1 /\ done' = done
  BY DEF CommitCommands
<1>5. CASE done
  <2>1. workQueue' = workQueue
    BY <1>5 DEF CommitCommands
  <2>2. m + Len(workQueue) <= nextSn + 1
    BY <1>1 DEF HandedOver
  <2> QED
    BY <1>3, <1>4, <1>5, <2>1, <2>2 DEF HandedOver
<1>6. CASE ~done
  <2> DEFINE cp == CreateCmdPipeline(nextSn + 1, n)
  <2>1. workQueue' = Append(workQueue, cp)
    BY <1>4, <1>6 DEF CommitCommands
  <2>2. cp \in Pipeline /\ cp.sn = nextSn + 1 /\ cp.state = QUEUEING
    BY DEF CreateCmdPipeline, Pipeline, PipelineState, QUEUEING, PROCESS_OVER
  <2> HIDE DEF cp
  <2>3. /\ Len(Append(workQueue, cp)) = Len(workQueue) + 1
        /\ \A k \in 1 .. Len(workQueue) : Append(workQueue, cp)[k] = workQueue[k]
        /\ Append(workQueue, cp)[Len(workQueue) + 1] = cp
        /\ DOMAIN Append(workQueue, cp) = 1 .. (Len(workQueue) + 1)
    BY <1>1, <2>2, AppendProperties
  <2>4. m + Len(workQueue) = nextSn
    BY <1>6 DEF HandedOver
  <2>5. ASSUME NEW k \in 1 .. (Len(workQueue) + 1)
        PROVE  Append(workQueue, cp)[k].sn = m + k /\ Append(workQueue, cp)[k].state = QUEUEING
    <3>1. CASE k \in 1 .. Len(workQueue)
      BY <1>1, <2>3, <3>1 DEF HandedOver
    <3>2. CASE k = Len(workQueue) + 1
      <4>1. m + k = nextSn + 1
        BY <1>1, <2>4, <3>2
      <4> QED
        BY <2>2, <2>3, <3>2, <4>1
    <3>3. k \in 1 .. Len(workQueue) \/ k = Len(workQueue) + 1
      BY <1>1
    <3> QED
      BY <3>1, <3>2, <3>3
  <2>6. m + (Len(workQueue) + 1) = nextSn + 1
    BY <1>1, <2>4
  <2>7. \A k \in DOMAIN workQueue' : workQueue'[k].sn = m + k /\ workQueue'[k].state = QUEUEING
    BY <2>1, <2>3, <2>5
  <2>8. m + Len(workQueue') = nextSn' /\ nextSn' \in Nat
    BY <1>4, <2>1, <2>3, <2>6
  <2> QED
    BY <1>3, <2>7, <2>8 DEF HandedOver
<1> QED
  BY <1>5, <1>6

(* The worker hands over all that is in the work queue. *)
LEMMA ReadPipeInOrder ==
    ASSUME TypeOK, workQueue \in Seq(Pipeline), NEW m \in Nat, HandedOver(m), ReadPipe,
           NEW n, n = m + Len(workQueue)
    PROVE  HandedOver(n)'
<1>1. n \in Nat /\ QueueHolds(m)
  BY DEF HandedOver
<1>2. UNCHANGED <<nextSn, done>> /\ workQueue' = <<>>
  BY ReadPipeHandsOver
<1>3. QueueHolds(n)'
  <2>1. CASE workQueue = <<>> /\ UNCHANGED connVars
    <3>1. n = m
      BY <2>1
    <3>2. UNCHANGED <<dqCommon, completed>>
      BY <2>1 DEF connVars
    <3> QED
      BY <1>1, <3>1, <3>2, QueueUnchanged
  <2>2. CASE SendAndCommit(workQueue)
    <3>1. \A k \in DOMAIN workQueue : workQueue[k].sn = m + k
      BY DEF HandedOver
    <3> QED
      BY <1>1, <2>2, <3>1, SendAndCommitQueue
  <2> QED
    BY <2>1, <2>2, ReadPipeHandsOver
<1>4. n <= nextSn /\ (~done => n = nextSn) /\ n + Len(<<>>) = n
  BY <1>1 DEF HandedOver
<1> QED
  BY <1>2, <1>3, <1>4 DEF HandedOver

LEMMA OrderInvNext == ClientTypes /\ OrderInv /\ [ClientNext]_clientVars => OrderInv'
<1> SUFFICES ASSUME ClientTypes, OrderInv, [ClientNext]_clientVars PROVE OrderInv'
  OBVIOUS
<1>1. /\ TypeOK /\ nextSn \in Nat /\ done \in BOOLEAN
      /\ workQueue \in Seq(Pipeline) /\ Len(workQueue) \in Nat
      /\ DOMAIN workQueue = 1 .. Len(workQueue)
      /\ builtNum \in Nat
  BY MaxBuiltAssumption DEF ClientTypes, TypeOK
<1>2. PICK m \in Nat : HandedOver(m)
  BY DEF OrderInv
<1>3. QueueHolds(m)
  BY <1>2 DEF HandedOver
<1> USE DEF mainVars, queueVars, trunkVars
<1>4. CASE \E call \in Call : CommitPipeline(call)
  <2>1. PICK call \in Call : CommitCommands(call, builtNum)
    BY <1>4 DEF CommitPipeline
  <2>2. HandedOver(m)'
    BY <1>1, <1>2, <2>1, CommitInOrder
  <2> QED
    BY <2>2 DEF OrderInv
<1>5. CASE ReadPipe
  <2>1. PICK n \in Nat : n = m + Len(workQueue)
    BY <1>1
  <2>2. HandedOver(n)'
    BY <1>1, <1>2, <1>5, <2>1, ReadPipeInOrder
  <2> QED
    BY <2>2 DEF OrderInv
<1>6. CASE WorkerStep \/ FaultStep
  <2>1. ConnProgress \/ ConnFault
    BY <1>6 DEF WorkerStep, FaultStep
  <2>2. QueueHolds(m)'
    BY <1>1, <1>3, <2>1, QueueStep
  <2>3. UNCHANGED <<workQueue, nextSn, done>>
    BY <1>6, <2>1, NextSnKept DEF WorkerStep, FaultStep
  <2>4. HandedOver(m)'
    BY <1>2, <2>2, <2>3, HandedOverKept
  <2> QED
    BY <2>4 DEF OrderInv
<1>7. CASE \/ BuildCommand \/ Notify \/ BlockingCommitReturns \/ RunOnce \/ Shutdown
           \/ ShutdownReturns \/ WorkerQuits \/ UNCHANGED clientVars
  <2>1. UNCHANGED <<dqCommon, completed, workQueue, nextSn>> /\ (done' = done \/ done')
    BY <1>7 DEF BuildCommand, Notify, BlockingCommitReturns, RunOnce, Shutdown,
       ShutdownReturns, WorkerQuits, clientVars, connVars
  <2>2. QueueHolds(m)'
    BY <1>3, <2>1, QueueUnchanged
  <2>3. HandedOver(m)'
    BY <1>2, <2>1, <2>2 DEF HandedOver
  <2> QED
    BY <2>3 DEF OrderInv
<1> QED
  BY <1>4, <1>5, <1>6, <1>7 DEF ClientNext, MainStep

LEMMA OrderInvAlways == ClientSpec => [](ClientTypes /\ OrderInv)
BY ClientTypesInit, ClientTypesNext, OrderInvInit, OrderInvNext, PTL DEF ClientSpec

(* Between the two threads no pipeline is lost, repeated or overtaken: the callbacks have run
   in the order of the commits, and what is left of them is in the connection's deque and
   then in the work queue, in order, up to the shutdown. *)
THEOREM AlwaysPipelinesInOrder == ClientSpec => []PipelinesInOrder
<1>1. ClientTypes /\ OrderInv => PipelinesInOrder
  <2> SUFFICES ASSUME ClientTypes, OrderInv PROVE PipelinesInOrder
    OBVIOUS
  <2>1. PICK m \in Nat : HandedOver(m)
    BY DEF OrderInv
  <2>2. /\ dqCommon \in Seq(Pipeline) /\ workQueue \in Seq(Pipeline)
        /\ Len(completed) \in Nat /\ Len(workQueue) \in Nat /\ nextSn \in Nat
    BY DEF ClientTypes, TypeOK
  <2>3. PICK c \in Nat : c = Len(completed)
    BY <2>2
  <2>4. QueueOK(dqCommon, c, m) /\ CallbacksInOrder
    BY <2>1, <2>3 DEF HandedOver, QueueHolds
  <2>5. \A k \in DOMAIN workQueue : workQueue[k].sn = m + k /\ workQueue[k].state < PROCESS_OVER
    BY <2>1 DEF HandedOver, QUEUEING, PROCESS_OVER
  <2>6. QueueOK(dqCommon \o workQueue, c, m + Len(workQueue))
    BY <2>2, <2>4, <2>5, QueueAppended
  <2>7. HoldsUnanswered(dqCommon \o workQueue, Len(completed), m + Len(workQueue))
    BY <2>3, <2>6 DEF QueueOK
  <2>8. m + Len(workQueue) \in 0 .. nextSn /\ (~done => m + Len(workQueue) = nextSn)
    BY <2>1, <2>2 DEF HandedOver
  <2> QED
    BY <2>4, <2>7, <2>8 DEF PipelinesInOrder
<1> QED
  BY <1>1, OrderInvAlways, PTL

-----------------------------------------------------------------------------
(* The owner of the promise.                                                *)

(* What is answered, of what was committed. *)
Bounded ==
    /\ Len(completed) \in Nat /\ nextSn \in Nat /\ Len(completed) <= nextSn
    /\ completed \in Seq(Completion)
    /\ CallbacksInOrder

LEMMA CompletedBounds == ClientTypes /\ OrderInv => Bounded
<1> SUFFICES ASSUME ClientTypes, OrderInv PROVE Bounded
  OBVIOUS
<1>1. PICK m \in Nat : HandedOver(m)
  BY DEF OrderInv
<1>2. /\ Len(completed) \in Nat /\ nextSn \in Nat /\ Len(workQueue) \in Nat
      /\ completed \in Seq(Completion)
  BY DEF ClientTypes, TypeOK
<1>3. Len(completed) <= m /\ CallbacksInOrder
  BY <1>1 DEF HandedOver, QueueHolds, QueueOK, HoldsUnanswered
<1>4. m + Len(workQueue) <= nextSn
  BY <1>1 DEF HandedOver
<1> QED
  BY <1>2, <1>3, <1>4 DEF Bounded

LEMMA OwnerInvInit == ClientInit => OwnerInv
BY DEF ClientInit, Init, OwnerInv

(* The worker tells a waiting BlockingCommit() its own answer. *)
LEMMA OwnerInvCallback ==
    ASSUME ClientTypes, OrderInv, OwnerInv, ClientTypes', OrderInv', WorkerStep
    PROVE  OwnerInv'
<1>1. Bounded /\ Bounded'
  BY CompletedBounds, PTL
<1>2. /\ UNCHANGED <<mainPc, how>> /\ ConnProgress /\ PostCompleted
  BY DEF WorkerStep
<1>3. nextSn' = nextSn
  BY <1>2, NextSnKept
<1>4. CASE UNCHANGED <<completed, trunkQueue, promised>>
  BY <1>2, <1>3, <1>4 DEF OwnerInv, InBlockingCommit
<1>5. CASE \E x \in Completion : /\ completed' = Append(completed, x)
                                 /\ Len(completed') = Len(completed) + 1
                                 /\ completed'[Len(completed) + 1] = x
                                 /\ Post(x)
  <2>1. PICK x \in Completion : /\ Len(completed') = Len(completed) + 1
                                /\ completed'[Len(completed) + 1] = x
                                /\ Post(x)
    BY <1>5
  <2>2. /\ Len(completed) \in Nat /\ nextSn \in Nat /\ Len(completed) + 1 <= nextSn
        /\ how \in Seq(Call) /\ Len(how) = nextSn
    <3>1. Len(completed') <= nextSn'
      BY <1>1 DEF Bounded
    <3> QED
      BY <1>1, <1>3, <2>1, <3>1 DEF ClientTypes, Bounded
  <2>3. x.sn = Len(completed) + 1
    <3>1. CallbacksInOrder' /\ completed' \in Seq(Completion)
      BY <1>1 DEF Bounded
    <3>2. Len(completed) + 1 \in DOMAIN completed'
      BY <2>1, <2>2, <3>1
    <3> QED
      BY <2>1, <3>1, <3>2 DEF CallbacksInOrder
  <2>4. promised = <<>>
    BY <2>2 DEF OwnerInv
  <2>5. CASE how[x.sn] = "Commit"
    <3>1. promised' = <<>>
      BY <2>1, <2>4, <2>5 DEF Post
    <3> QED
      BY <1>2, <1>3, <2>1, <2>2, <3>1 DEF OwnerInv, InBlockingCommit
  <2>6. CASE how[x.sn] # "Commit"
    <3>1. x.sn \in 1 .. nextSn
      BY <2>2, <2>3
    <3>2. how[x.sn] = "BlockingCommit"
      <4>1. how[x.sn] \in Call
        BY <2>2, <3>1
      <4> QED
        BY <2>6, <4>1 DEF Call
    <3>3. x.sn = nextSn /\ InBlockingCommit
      BY <2>2, <2>3, <3>1, <3>2 DEF OwnerInv
    <3>4. promised' = <<x>>
      BY <2>1, <2>4, <2>6 DEF Post
    <3>5. Len(promised') = 1 /\ promised'[1] = x
      BY <3>4
    <3> QED
      BY <1>2, <1>3, <2>1, <2>2, <2>3, <3>2, <3>3, <3>5 DEF OwnerInv, InBlockingCommit
  <2> QED
    BY <2>5, <2>6
<1> QED
  <2>1. TypeOK /\ TypeOK'
    BY DEF ClientTypes
  <2> QED
    BY <1>2, <1>4, <1>5, <2>1, CallbackPosts

LEMMA OwnerInvNext ==
    ASSUME ClientTypes, OrderInv, OwnerInv, ClientTypes', OrderInv', [ClientNext]_clientVars
    PROVE  OwnerInv'
<1> USE DEF mainVars, queueVars, trunkVars
<1>1. /\ Len(completed) \in Nat /\ nextSn \in Nat /\ Len(completed) <= nextSn
      /\ how \in Seq(Call) /\ Len(how) = nextSn
  BY CompletedBounds DEF ClientTypes, Bounded
<1>2. CASE \E call \in Call : CommitPipeline(call)
  <2>1. PICK call \in Call : CommitCommands(call, builtNum)
    BY <1>2 DEF CommitPipeline
  <2>2. /\ mainPc = "idle" /\ nextSn' = nextSn + 1 /\ how' = Append(how, call)
        /\ completed' = completed /\ promised' = promised
        /\ mainPc' = "notify" \/ mainPc' = AfterAdd(call)
    BY <2>1 DEF CommitCommands, connVars
  <2>3. /\ promised = <<>>
        /\ \A k \in 1 .. nextSn : k > Len(completed) => how[k] # "BlockingCommit"
    BY <2>2 DEF OwnerInv, InBlockingCommit
  <2>4. /\ \A k \in 1 .. nextSn : how'[k] = how[k]
        /\ how'[nextSn + 1] = call
    BY <1>1, <2>2, AppendProperties
  <2>5. call = "BlockingCommit" => mainPc' = "notify" \/ mainPc' = "waiting"
    BY <2>2 DEF AfterAdd
  <2>6. ASSUME NEW k \in 1 .. nextSn', k > Len(completed), how'[k] = "BlockingCommit"
        PROVE  k = nextSn' /\ InBlockingCommit'
    <3>1. ~(k \in 1 .. nextSn)
      BY <2>3, <2>4, <2>6
    <3>2. k = nextSn + 1
      BY <1>1, <2>2, <3>1
    <3> QED
      BY <2>2, <2>4, <2>5, <2>6, <3>2 DEF InBlockingCommit
  <2>7. nextSn' > 0
    BY <1>1, <2>2
  <2> QED
    BY <2>2, <2>3, <2>6, <2>7 DEF OwnerInv
<1>3. CASE Notify
  <2>1. /\ mainPc = "notify" /\ mainPc' = AfterAdd(how[nextSn])
        /\ UNCHANGED <<how, nextSn, completed, promised>>
    BY <1>3 DEF Notify, connVars
  <2>2. nextSn \in 1 .. nextSn
    BY <1>1, <2>1 DEF OwnerInv
  <2>3. CASE how[nextSn] = "BlockingCommit"
    <3>1. mainPc' = "waiting"
      BY <2>1, <2>3 DEF AfterAdd
    <3> QED
      BY <2>1, <3>1 DEF OwnerInv, InBlockingCommit
  <2>4. CASE how[nextSn] # "BlockingCommit"
    <3>1. promised = <<>>
      BY <2>4 DEF OwnerInv
    <3>2. \A k \in 1 .. nextSn : k > Len(completed) => how[k] # "BlockingCommit"
      BY <2>4 DEF OwnerInv
    <3>3. mainPc' # "notify"
      BY <2>1 DEF AfterAdd
    <3> QED
      BY <2>1, <3>1, <3>2, <3>3 DEF OwnerInv
  <2> QED
    BY <2>3, <2>4
<1>4. CASE BlockingCommitReturns
  <2>1. /\ mainPc' = "idle" /\ promised # <<>> /\ promised' = <<>>
        /\ UNCHANGED <<how, nextSn, completed>>
    BY <1>4 DEF BlockingCommitReturns, connVars
  <2>2. Len(completed) >= nextSn
    BY <2>1 DEF OwnerInv
  <2>3. ~ \E k \in 1 .. nextSn : k > Len(completed)
    BY <1>1, <2>2
  <2> QED
    BY <2>1, <2>3 DEF OwnerInv
<1>5. CASE Shutdown \/ ShutdownReturns
  <2>1. /\ mainPc \in {"idle", "finishing"} /\ mainPc' \in {"idle", "finishing"}
        /\ UNCHANGED <<how, nextSn, completed, promised>>
    BY <1>5 DEF Shutdown, ShutdownReturns, connVars
  <2> QED
    BY <2>1 DEF OwnerInv, InBlockingCommit
<1>6. CASE BuildCommand \/ RunOnce \/ ReadPipe \/ FaultStep \/ WorkerQuits \/ UNCHANGED clientVars
  <2>1. UNCHANGED <<how, nextSn, completed, promised, mainPc>>
    <3>1. CASE ReadPipe
      BY <3>1, ReadPipeHandsOver
    <3>2. CASE FaultStep
      BY <3>2, FaultTellsNobody, NextSnKept DEF FaultStep
    <3>3. CASE BuildCommand \/ RunOnce \/ WorkerQuits \/ UNCHANGED clientVars
      BY <3>3 DEF BuildCommand, RunOnce, WorkerQuits, clientVars, connVars
    <3> QED
      BY <1>6, <3>1, <3>2, <3>3
  <2> QED
    BY <2>1 DEF OwnerInv, InBlockingCommit
<1>7. CASE WorkerStep
  BY <1>7, OwnerInvCallback
<1> QED
  BY <1>2, <1>3, <1>4, <1>5, <1>6, <1>7 DEF ClientNext, MainStep

LEMMA OwnerInvAlways == ClientSpec => [](ClientTypes /\ OrderInv /\ OwnerInv)
<1>1. ClientTypes /\ OrderInv /\ OwnerInv /\ [ClientNext]_clientVars
        => (ClientTypes /\ OrderInv /\ OwnerInv)'
  BY ClientTypesNext, OrderInvNext, OwnerInvNext
<1> QED
  BY <1>1, ClientTypesInit, OrderInvInit, OwnerInvInit, PTL DEF ClientSpec

(* A promise is only ever set for the BlockingCommit() that waits for it, or is about to:
   in no interleaving does the worker write into the frame of a call that has returned. *)
THEOREM AlwaysPromiseHasOwner == ClientSpec => []PromiseHasOwner
<1>1. OwnerInv => PromiseHasOwner
  BY DEF OwnerInv, InBlockingCommit, PromiseHasOwner
<1> QED
  BY <1>1, OwnerInvAlways, PTL

(* Every variable of the client has its type; of replies to a blocking call there is never
   more than one. *)
THEOREM ClientTypeCorrect == ClientSpec => []ClientTypeOK
<1>1. ClientTypes /\ OwnerInv => ClientTypeOK
  <2>1. ASSUME OwnerInv PROVE Len(promised) <= 1
    <3>1. CASE promised = <<>>
      BY <3>1
    <3>2. CASE promised # <<>>
      <4>1. Len(promised) = 1
        BY <2>1, <3>2 DEF OwnerInv
      <4> QED
        BY <4>1
    <3> QED
      BY <3>1, <3>2
  <2> QED
    BY <2>1 DEF ClientTypes, ClientTypeOK
<1> QED
  BY <1>1, OwnerInvAlways, PTL

-----------------------------------------------------------------------------
(* What reaches the callers.                                                *)

(* Moving the first of a queue to the end of another. *)
LEMMA MovedOver ==
    ASSUME NEW T, NEW s \in Seq(T), NEW q \in Seq(T), q # <<>>
    PROVE  Append(s, Head(q)) \o Tail(q) = s \o q
<1> DEFINE a == Append(s, Head(q))
           b == Tail(q)
           u == a \o b
           v == s \o q
<1>1. /\ Len(s) \in Nat /\ Len(q) \in Nat \ {0} /\ Head(q) = q[1] /\ Head(q) \in T
      /\ b \in Seq(T) /\ Len(b) = Len(q) - 1
      /\ \A i \in 1 .. (Len(q) - 1) : b[i] = q[i + 1]
  BY EmptySeq, HeadTailProperties
<1>2. /\ a \in Seq(T) /\ Len(a) = Len(s) + 1
      /\ \A i \in 1 .. Len(s) : a[i] = s[i]
      /\ a[Len(s) + 1] = q[1]
  BY <1>1, AppendProperties
<1> HIDE DEF a, b
<1>3. /\ u \in Seq(T) /\ Len(u) = Len(a) + Len(b)
      /\ \A i \in 1 .. Len(u) : u[i] = IF i <= Len(a) THEN a[i] ELSE b[i - Len(a)]
  <2>1. a \in Seq(T) /\ b \in Seq(T)
    BY <1>1, <1>2
  <2> QED
    BY <2>1, ConcatProperties
<1>4. /\ v \in Seq(T) /\ Len(v) = Len(s) + Len(q)
      /\ \A i \in 1 .. Len(v) : v[i] = IF i <= Len(s) THEN s[i] ELSE q[i - Len(s)]
  BY ConcatProperties
<1> HIDE DEF u, v
<1>5. Len(u) = Len(v)
  BY <1>1, <1>2, <1>3, <1>4
<1>6. ASSUME NEW i \in 1 .. Len(u) PROVE u[i] = v[i]
  <2>1. i \in 1 .. Len(v)
    BY <1>5
  <2>2. CASE i <= Len(s)
    <3>1. i <= Len(a) /\ i \in 1 .. Len(s)
      BY <1>1, <1>2, <2>2
    <3> QED
      BY <1>2, <1>3, <1>4, <2>1, <2>2, <3>1
  <2>3. CASE i = Len(s) + 1
    <3>1. i <= Len(a) /\ ~(i <= Len(s)) /\ i - Len(s) = 1
      BY <1>1, <1>2, <2>3
    <3> QED
      BY <1>2, <1>3, <1>4, <2>1, <2>3, <3>1
  <2>4. CASE i > Len(s) + 1
    <3>1. /\ ~(i <= Len(a)) /\ ~(i <= Len(s))
          /\ i - Len(a) \in 1 .. (Len(q) - 1)
          /\ (i - Len(a)) + 1 = i - Len(s)
      BY <1>1, <1>2, <1>3, <2>4
    <3>2. b[i - Len(a)] = q[i - Len(s)]
      BY <1>1, <3>1
    <3> QED
      BY <1>3, <1>4, <2>1, <3>1, <3>2
  <2>5. i <= Len(s) \/ i = Len(s) + 1 \/ i > Len(s) + 1
    <3>1. i \in Int /\ Len(s) \in Int
      BY <1>1, <1>3
    <3> QED
      BY <3>1
  <2> QED
    BY <2>2, <2>3, <2>4, <2>5
<1>7. u = v
  BY <1>3, <1>4, <1>5, <1>6, SeqEqual
<1> QED
  BY <1>7 DEF u, v, a, b

(* Adding one at the end of the second of two queues. *)
LEMMA AddedBehind ==
    ASSUME NEW T, NEW s \in Seq(T), NEW q \in Seq(T), NEW x \in T
    PROVE  s \o Append(q, x) = Append(s \o q, x)
<1> DEFINE b == Append(q, x)
           u == s \o b
           v == s \o q
           w == Append(v, x)
<1>1. /\ Len(s) \in Nat /\ Len(q) \in Nat
      /\ b \in Seq(T) /\ Len(b) = Len(q) + 1
      /\ \A i \in 1 .. Len(q) : b[i] = q[i]
      /\ b[Len(q) + 1] = x
  BY AppendProperties
<1> HIDE DEF b
<1>2. /\ u \in Seq(T) /\ Len(u) = Len(s) + Len(b)
      /\ \A i \in 1 .. Len(u) : u[i] = IF i <= Len(s) THEN s[i] ELSE b[i - Len(s)]
  <2>1. b \in Seq(T)
    BY <1>1
  <2> QED
    BY <2>1, ConcatProperties
<1>3. /\ v \in Seq(T) /\ Len(v) = Len(s) + Len(q)
      /\ \A i \in 1 .. Len(v) : v[i] = IF i <= Len(s) THEN s[i] ELSE q[i - Len(s)]
  BY ConcatProperties
<1> HIDE DEF u, v
<1>4. /\ w \in Seq(T) /\ Len(w) = Len(v) + 1
      /\ \A i \in 1 .. Len(v) : w[i] = v[i]
      /\ w[Len(v) + 1] = x
  <2>1. v \in Seq(T)
    BY <1>3
  <2> QED
    BY <2>1, AppendProperties
<1> HIDE DEF w
<1>5. Len(u) = Len(w)
  BY <1>1, <1>2, <1>3, <1>4
<1>6. ASSUME NEW i \in 1 .. Len(u) PROVE u[i] = w[i]
  <2>1. CASE i <= Len(s)
    <3>1. i \in 1 .. Len(v)
      BY <1>1, <1>2, <1>3, <2>1
    <3> QED
      BY <1>2, <1>3, <1>4, <2>1, <3>1
  <2>2. CASE i > Len(s) /\ i <= Len(v)
    <3>1. i \in 1 .. Len(v) /\ ~(i <= Len(s)) /\ i - Len(s) \in 1 .. Len(q)
      BY <1>1, <1>2, <1>3, <2>2
    <3> QED
      BY <1>1, <1>2, <1>3, <1>4, <3>1
  <2>3. CASE i > Len(v)
    <3>1. i = Len(v) + 1 /\ ~(i <= Len(s)) /\ i - Len(s) = Len(q) + 1
      BY <1>1, <1>2, <1>3, <2>3
    <3> QED
      BY <1>1, <1>2, <1>4, <3>1
  <2>4. i <= Len(s) \/ (i > Len(s) /\ i <= Len(v)) \/ i > Len(v)
    BY <1>1, <1>2, <1>3
  <2> QED
    BY <2>1, <2>2, <2>3, <2>4
<1>7. u = w
  BY <1>2, <1>4, <1>5, <1>6, SeqEqual
<1> QED
  BY <1>7 DEF u, v, w, b

(* The elements of s whose pipelines were committed through call, if h tells how. *)
Kept(h, s, call) == Selected(s, {i \in DOMAIN s : h[s[i].sn] = call})

LEMMA KeptType ==
    ASSUME NEW h, NEW call, NEW s \in Seq(Completion)
    PROVE  Kept(h, s, call) \in Seq(Completion)
BY SelectedType DEF Kept

LEMMA KeptAppend ==
    ASSUME NEW h, NEW call, NEW s \in Seq(Completion), NEW x \in Completion
    PROVE  Kept(h, Append(s, x), call)
             = IF h[x.sn] = call THEN Append(Kept(h, s, call), x) ELSE Kept(h, s, call)
<1> DEFINE S == {i \in DOMAIN s : h[s[i].sn] = call}
           U == {i \in DOMAIN Append(s, x) : h[Append(s, x)[i].sn] = call}
           n == Len(s)
<1>1. /\ n \in Nat /\ DOMAIN s = 1 .. n
      /\ DOMAIN Append(s, x) = 1 .. (n + 1)
      /\ \A i \in 1 .. n : Append(s, x)[i] = s[i]
      /\ Append(s, x)[n + 1] = x
  BY AppendProperties
<1>2. S \in SUBSET DOMAIN s
  OBVIOUS
<1>3. CASE h[x.sn] = call
  <2>1. ASSUME NEW i PROVE i \in U <=> i \in S \/ i = n + 1
    <3>1. i \in 1 .. (n + 1) <=> i \in 1 .. n \/ i = n + 1
      BY <1>1
    <3>2. n + 1 \in 1 .. (n + 1) /\ n + 1 \notin 1 .. n
      BY <1>1
    <3> HIDE DEF n
    <3> QED
      BY <1>1, <1>3, <3>1, <3>2
  <2>2. U = S \cup {n + 1}
    BY <2>1
  <2> HIDE DEF S, U
  <2>3. Selected(Append(s, x), S \cup {n + 1}) = Append(Selected(s, S), x)
    BY <1>2, SelectedWith
  <2> QED
    BY <1>3, <2>2, <2>3 DEF Kept, S, U
<1>4. CASE h[x.sn] # call
  <2>1. ASSUME NEW i PROVE i \in U <=> i \in S
    <3>1. i \in 1 .. (n + 1) <=> i \in 1 .. n \/ i = n + 1
      BY <1>1
    <3>2. n + 1 \notin 1 .. n
      BY <1>1
    <3> HIDE DEF n
    <3> QED
      BY <1>1, <1>4, <3>1, <3>2
  <2>2. U = S
    BY <2>1
  <2> HIDE DEF S, U
  <2>3. Selected(Append(s, x), S) = Selected(s, S)
    BY <1>2, SelectedWithout
  <2> QED
    BY <1>4, <2>2, <2>3 DEF Kept, S, U
<1> QED
  BY <1>3, <1>4

(* How later pipelines are committed does not matter. *)
LEMMA KeptLater ==
    ASSUME NEW h, NEW g, NEW call, NEW s,
           \A i \in DOMAIN s : g[s[i].sn] = h[s[i].sn]
    PROVE  Kept(g, s, call) = Kept(h, s, call)
<1>1. {i \in DOMAIN s : g[s[i].sn] = call} = {i \in DOMAIN s : h[s[i].sn] = call}
  OBVIOUS
<1> QED
  BY <1>1 DEF Kept

(* EachOnceInOrder, in these terms. *)
KeptInOrder ==
    /\ Kept(how, delivered, "Commit") \o trunkQueue = Kept(how, completed, "Commit")
    /\ Kept(how, delivered, "BlockingCommit") \o promised = Kept(how, completed, "BlockingCommit")

LEMMA EachOnceIsKept == EachOnceInOrder <=> KeptInOrder
<1>1. ASSUME NEW s, NEW call PROVE Through(s, call) = Kept(how, s, call)
  BY DEF Through, Kept, Positions
<1> QED
  BY <1>1 DEF EachOnceInOrder, KeptInOrder

LEMMA PostInvInit == ClientInit => PostInv
<1> SUFFICES ASSUME ClientInit PROVE PostInv
  OBVIOUS
<1>1. /\ delivered = <<>> /\ trunkQueue = <<>> /\ promised = <<>> /\ completed = <<>>
      /\ how = <<>>
  BY DEF ClientInit, Init
<1>2. ASSUME NEW call PROVE Kept(<<>>, <<>>, call) = <<>>
  <2>1. {i \in DOMAIN <<>> : <<>>[<<>>[i].sn] = call} = {}
    OBVIOUS
  <2>2. Selected(<<>>, {}) = <<>>
    <3>1. {} \in SUBSET DOMAIN <<>> /\ <<>> \in Seq(Completion) /\ Cardinality({}) = 0
      BY FS_EmptySet
    <3>2. Selected(<<>>, {}) \in Seq(Completion) /\ Len(Selected(<<>>, {})) = 0
      BY <3>1, SelectedType
    <3> QED
      BY <3>2, EmptySeq
  <2> QED
    BY <2>1, <2>2 DEF Kept
<1>3. KeptInOrder
  BY <1>1, <1>2 DEF KeptInOrder
<1> QED
  BY <1>1, <1>3, EachOnceIsKept DEF PostInv, AllThrough

(* A callback leaves its reply at the end of the trunk queue, or in the promise. *)
LEMMA PostInvCallback ==
    ASSUME ClientTypes, OrderInv, PostInv, ClientTypes', OrderInv', WorkerStep
    PROVE  PostInv'
<1>1. Bounded /\ Bounded'
  BY CompletedBounds, PTL
<1>2. /\ KeptInOrder /\ TypeOK /\ TypeOK'
      /\ delivered \in Seq(Completion) /\ trunkQueue \in Seq(Completion)
      /\ promised \in Seq(Completion) /\ completed \in Seq(Completion)
      /\ how \in Seq(Call) /\ Len(how) = nextSn
  BY <1>1, EachOnceIsKept DEF ClientTypes, PostInv, Bounded
<1>3. /\ UNCHANGED <<how, delivered>> /\ ConnProgress /\ PostCompleted
  BY DEF WorkerStep
<1>4. nextSn' = nextSn
  BY <1>3, NextSnKept
<1>5. CASE UNCHANGED <<completed, trunkQueue, promised>>
  <2>1. KeptInOrder'
    BY <1>2, <1>3, <1>5 DEF KeptInOrder
  <2>2. EachOnceInOrder'
    BY <2>1, EachOnceIsKept, PTL
  <2> QED
    BY <1>3, <1>4, <1>5, <2>2 DEF PostInv, AllThrough
<1>6. CASE \E x \in Completion : /\ completed' = Append(completed, x)
                                 /\ Len(completed') = Len(completed) + 1
                                 /\ completed'[Len(completed) + 1] = x
                                 /\ Post(x)
  <2>1. PICK x \in Completion : /\ completed' = Append(completed, x)
                                /\ Len(completed') = Len(completed) + 1
                                /\ completed'[Len(completed) + 1] = x
                                /\ Post(x)
    BY <1>6
  <2>2. x.sn \in 1 .. nextSn
    <3>1. /\ Len(completed) \in Nat /\ nextSn \in Nat
          /\ CallbacksInOrder' /\ completed' \in Seq(Completion)
          /\ Len(completed') <= nextSn'
      BY <1>1 DEF Bounded
    <3>2. Len(completed) + 1 \in DOMAIN completed'
      BY <2>1, <3>1
    <3>3. x.sn = Len(completed) + 1
      BY <2>1, <3>1, <3>2 DEF CallbacksInOrder
    <3> QED
      BY <1>4, <2>1, <3>1, <3>3
  <2>3. how[x.sn] \in Call
    BY <1>2, <2>2
  <2> DEFINE dc == Kept(how, delivered, "Commit")
             db == Kept(how, delivered, "BlockingCommit")
             cc == Kept(how, completed, "Commit")
             cb == Kept(how, completed, "BlockingCommit")
  <2>4. dc \in Seq(Completion) /\ db \in Seq(Completion)
    BY <1>2, KeptType
  <2>5. dc \o trunkQueue = cc /\ db \o promised = cb
    BY <1>2 DEF KeptInOrder
  <2>6. /\ Kept(how, Append(completed, x), "Commit")
             = IF how[x.sn] = "Commit" THEN Append(cc, x) ELSE cc
        /\ Kept(how, Append(completed, x), "BlockingCommit")
             = IF how[x.sn] = "BlockingCommit" THEN Append(cb, x) ELSE cb
    BY <1>2, KeptAppend
  <2>7. CASE how[x.sn] = "Commit"
    <3>1. trunkQueue' = Append(trunkQueue, x) /\ promised' = promised
      BY <2>1, <2>7 DEF Post
    <3>2. /\ Kept(how, Append(completed, x), "Commit") = Append(cc, x)
          /\ Kept(how, Append(completed, x), "BlockingCommit") = cb
      BY <2>6, <2>7
    <3>3. dc \o Append(trunkQueue, x) = Append(dc \o trunkQueue, x)
      <4> HIDE DEF dc
      <4> QED
        BY <1>2, <2>4, AddedBehind
    <3>4. KeptInOrder'
      BY <1>3, <2>1, <2>5, <3>1, <3>2, <3>3 DEF KeptInOrder
    <3>5. EachOnceInOrder'
      BY <3>4, EachOnceIsKept, PTL
    <3>6. AllThrough(trunkQueue, "Commit")'
      <4> DEFINE q == Append(trunkQueue, x)
      <4>1. /\ DOMAIN q = 1 .. (Len(trunkQueue) + 1) /\ Len(trunkQueue) \in Nat
            /\ DOMAIN trunkQueue = 1 .. Len(trunkQueue)
            /\ \A i \in 1 .. Len(trunkQueue) : q[i] = trunkQueue[i]
            /\ q[Len(trunkQueue) + 1] = x
        BY <1>2, AppendProperties
      <4>2. trunkQueue' = q
        BY <3>1
      <4> HIDE DEF q
      <4>3. ASSUME NEW k \in DOMAIN q PROVE q[k].sn \in 1 .. nextSn /\ how[q[k].sn] = "Commit"
        <5>1. CASE k \in 1 .. Len(trunkQueue)
          BY <4>1, <5>1 DEF PostInv, AllThrough
        <5>2. CASE k = Len(trunkQueue) + 1
          BY <2>2, <2>7, <4>1, <5>2
        <5>3. k \in 1 .. Len(trunkQueue) \/ k = Len(trunkQueue) + 1
          BY <4>1
        <5> QED
          BY <5>1, <5>2, <5>3
      <4> QED
        BY <1>3, <1>4, <4>2, <4>3 DEF AllThrough
    <3> QED
      BY <1>3, <1>4, <3>1, <3>5, <3>6 DEF PostInv, AllThrough
  <2>8. CASE how[x.sn] = "BlockingCommit"
    <3>1. promised' = Append(promised, x) /\ trunkQueue' = trunkQueue
      BY <2>1, <2>8 DEF Post
    <3>2. /\ Kept(how, Append(completed, x), "Commit") = cc
          /\ Kept(how, Append(completed, x), "BlockingCommit") = Append(cb, x)
      BY <2>6, <2>8
    <3>3. db \o Append(promised, x) = Append(db \o promised, x)
      <4> HIDE DEF db
      <4> QED
        BY <1>2, <2>4, AddedBehind
    <3>4. KeptInOrder'
      BY <1>3, <2>1, <2>5, <3>1, <3>2, <3>3 DEF KeptInOrder
    <3>5. EachOnceInOrder'
      BY <3>4, EachOnceIsKept, PTL
    <3>6. AllThrough(promised, "BlockingCommit")'
      <4> DEFINE q == Append(promised, x)
      <4>1. /\ DOMAIN q = 1 .. (Len(promised) + 1) /\ Len(promised) \in Nat
            /\ DOMAIN promised = 1 .. Len(promised)
            /\ \A i \in 1 .. Len(promised) : q[i] = promised[i]
            /\ q[Len(promised) + 1] = x
        BY <1>2, AppendProperties
      <4>2. promised' = q
        BY <3>1
      <4> HIDE DEF q
      <4>3. ASSUME NEW k \in DOMAIN q PROVE q[k].sn \in 1 .. nextSn /\ how[q[k].sn] = "BlockingCommit"
        <5>1. CASE k \in 1 .. Len(promised)
          BY <4>1, <5>1 DEF PostInv, AllThrough
        <5>2. CASE k = Len(promised) + 1
          BY <2>2, <2>8, <4>1, <5>2
        <5>3. k \in 1 .. Len(promised) \/ k = Len(promised) + 1
          BY <4>1
        <5> QED
          BY <5>1, <5>2, <5>3
      <4> QED
        BY <1>3, <1>4, <4>2, <4>3 DEF AllThrough
    <3> QED
      BY <1>3, <1>4, <3>1, <3>5, <3>6 DEF PostInv, AllThrough
  <2> QED
    BY <2>3, <2>7, <2>8 DEF Call
<1> QED
  BY <1>2, <1>3, <1>5, <1>6, CallbackPosts

(* A commit does not change how the earlier ones were made. *)
LEMMA PostInvCommit ==
    ASSUME ClientTypes, OrderInv, PostInv, NEW call \in Call, CommitCommands(call, builtNum)
    PROVE  PostInv'
<1>1. /\ nextSn \in Nat /\ how \in Seq(Call) /\ Len(how) = nextSn
      /\ completed \in Seq(Completion) /\ CallbacksInOrder /\ Len(completed) <= nextSn
  BY CompletedBounds DEF ClientTypes, Bounded
<1>2. /\ how' = Append(how, call) /\ nextSn' = nextSn + 1
      /\ UNCHANGED <<delivered, trunkQueue, promised, completed>>
  BY DEF CommitCommands, connVars, trunkVars
<1>3. \A k \in 1 .. nextSn : how'[k] = how[k] /\ k \in 1 .. nextSn'
  <2>1. \A k \in 1 .. nextSn : how'[k] = how[k]
    BY <1>1, <1>2, AppendProperties
  <2> QED
    BY <1>1, <1>2, <2>1
<1>4. \A k \in DOMAIN completed : completed[k].sn \in 1 .. nextSn
  BY <1>1 DEF CallbacksInOrder
<1>5. \A k \in DOMAIN delivered : delivered[k].sn \in 1 .. nextSn
  BY DEF PostInv
<1>6. ASSUME NEW c PROVE /\ Kept(how', delivered, c) = Kept(how, delivered, c)
                         /\ Kept(how', completed, c) = Kept(how, completed, c)
  BY <1>3, <1>4, <1>5, KeptLater
<1>7. KeptInOrder'
  <2>1. KeptInOrder
    BY EachOnceIsKept DEF PostInv
  <2> QED
    BY <1>2, <1>6, <2>1 DEF KeptInOrder
<1>8. EachOnceInOrder'
  BY <1>7, EachOnceIsKept, PTL
<1>9. \A k \in DOMAIN delivered' : delivered'[k].sn \in 1 .. nextSn'
  BY <1>2, <1>3, <1>5
<1>10. AllThrough(trunkQueue, "Commit")' /\ AllThrough(promised, "BlockingCommit")'
  BY <1>2, <1>3 DEF PostInv, AllThrough
<1> QED
  BY <1>8, <1>9, <1>10 DEF PostInv

(* The main thread takes the first reply of the trunk queue. *)
LEMMA PostInvRunOnce ==
    ASSUME ClientTypes, PostInv, RunOnce
    PROVE  PostInv'
<1>1. /\ delivered \in Seq(Completion) /\ trunkQueue \in Seq(Completion)
  BY DEF ClientTypes
<1>2. /\ trunkQueue # <<>> /\ trunkQueue' = Tail(trunkQueue)
      /\ delivered' = Append(delivered, Head(trunkQueue))
      /\ UNCHANGED <<how, nextSn, promised, completed>>
  BY DEF RunOnce, connVars
<1>3. PICK x \in Completion : x = Head(trunkQueue) /\ x = trunkQueue[1] /\ 1 \in DOMAIN trunkQueue
  <2>1. Head(trunkQueue) \in Completion /\ Head(trunkQueue) = trunkQueue[1]
    BY <1>1, <1>2, HeadTailProperties
  <2>2. 1 \in DOMAIN trunkQueue
    BY <1>1, <1>2, EmptySeq
  <2> QED
    BY <2>1, <2>2
<1>4. x.sn \in 1 .. nextSn /\ how[x.sn] = "Commit"
  BY <1>3 DEF PostInv, AllThrough
<1> DEFINE dc == Kept(how, delivered, "Commit")
           db == Kept(how, delivered, "BlockingCommit")
<1>5. Kept(how, Append(delivered, x), "Commit") = Append(dc, x)
  BY <1>1, <1>4, KeptAppend
<1>6. Kept(how, Append(delivered, x), "BlockingCommit") = db
  BY <1>1, <1>4, KeptAppend
<1>7. dc \in Seq(Completion)
  BY <1>1, KeptType
<1>8. Append(dc, x) \o Tail(trunkQueue) = dc \o trunkQueue
  <2> HIDE DEF dc
  <2> QED
    BY <1>1, <1>2, <1>3, <1>7, MovedOver
<1>9. KeptInOrder'
  <2>1. KeptInOrder
    BY EachOnceIsKept DEF PostInv
  <2> QED
    BY <1>2, <1>3, <1>5, <1>6, <1>8, <2>1 DEF KeptInOrder
<1>10. EachOnceInOrder'
  BY <1>9, EachOnceIsKept, PTL
<1>11. \A k \in DOMAIN delivered' : delivered'[k].sn \in 1 .. nextSn'
  <2>1. /\ DOMAIN Append(delivered, x) = 1 .. (Len(delivered) + 1) /\ Len(delivered) \in Nat
        /\ DOMAIN delivered = 1 .. Len(delivered)
        /\ \A i \in 1 .. Len(delivered) : Append(delivered, x)[i] = delivered[i]
        /\ Append(delivered, x)[Len(delivered) + 1] = x
    BY <1>1, AppendProperties
  <2>2. ASSUME NEW k \in 1 .. (Len(delivered) + 1) PROVE Append(delivered, x)[k].sn \in 1 .. nextSn
    <3>1. CASE k \in 1 .. Len(delivered)
      BY <2>1, <3>1 DEF PostInv
    <3>2. CASE k = Len(delivered) + 1
      BY <1>4, <2>1, <3>2
    <3>3. k \in 1 .. Len(delivered) \/ k = Len(delivered) + 1
      BY <2>1
    <3> QED
      BY <3>1, <3>2, <3>3
  <2> QED
    BY <1>2, <1>3, <2>1, <2>2
<1>12. AllThrough(trunkQueue, "Commit")'
  <2>1. /\ DOMAIN Tail(trunkQueue) = 1 .. (Len(trunkQueue) - 1)
        /\ DOMAIN trunkQueue = 1 .. Len(trunkQueue) /\ Len(trunkQueue) \in Nat
        /\ \A i \in 1 .. (Len(trunkQueue) - 1) : Tail(trunkQueue)[i] = trunkQueue[i + 1]
    BY <1>1, <1>2, HeadTailProperties
  <2>2. ASSUME NEW i \in 1 .. (Len(trunkQueue) - 1)
        PROVE  /\ Tail(trunkQueue)[i].sn \in 1 .. nextSn
               /\ how[Tail(trunkQueue)[i].sn] = "Commit"
    <3>1. i + 1 \in DOMAIN trunkQueue
      BY <2>1
    <3> QED
      BY <2>1, <3>1 DEF PostInv, AllThrough
  <2> QED
    BY <1>2, <2>1, <2>2 DEF AllThrough
<1> QED
  BY <1>2, <1>10, <1>11, <1>12 DEF PostInv, AllThrough

(* The waiting BlockingCommit() takes its one reply. *)
LEMMA PostInvReturns ==
    ASSUME ClientTypes, OwnerInv, PostInv, BlockingCommitReturns
    PROVE  PostInv'
<1>1. /\ delivered \in Seq(Completion) /\ promised \in Seq(Completion)
  BY DEF ClientTypes
<1>2. /\ promised # <<>> /\ promised' = <<>> /\ delivered' = delivered \o promised
      /\ UNCHANGED <<how, nextSn, trunkQueue, completed>>
  BY DEF BlockingCommitReturns, connVars
<1>3. PICK x \in Completion : /\ x = Head(promised) /\ x = promised[1]
                              /\ 1 \in DOMAIN promised /\ Tail(promised) = <<>>
  <2>1. Head(promised) \in Completion /\ Head(promised) = promised[1]
    BY <1>1, <1>2, HeadTailProperties
  <2>2. 1 \in DOMAIN promised
    BY <1>1, <1>2, EmptySeq
  <2>3. Tail(promised) \in Seq(Completion) /\ Len(Tail(promised)) = Len(promised) - 1
    BY <1>1, <1>2, HeadTailProperties
  <2>4. Len(promised) = 1
    BY <1>2 DEF OwnerInv
  <2>5. Tail(promised) = <<>>
    <3>1. PICK t \in Seq(Completion) : t = Tail(promised)
      BY <2>3
    <3>2. Len(t) = 0
      BY <2>3, <2>4, <3>1
    <3>3. t = <<>>
      BY <3>2, EmptySeq
    <3> QED
      BY <3>1, <3>3
  <2> QED
    BY <2>1, <2>2, <2>5
<1>4. x.sn \in 1 .. nextSn /\ how[x.sn] = "BlockingCommit"
  BY <1>3 DEF PostInv, AllThrough
<1> DEFINE dc == Kept(how, delivered, "Commit")
           db == Kept(how, delivered, "BlockingCommit")
<1>5. delivered' = Append(delivered, x)
  <2>1. Append(delivered, x) \o <<>> = delivered \o promised
    BY <1>1, <1>2, <1>3, MovedOver
  <2>2. Append(delivered, x) \in Seq(Completion)
    BY <1>1, AppendProperties
  <2>3. Append(delivered, x) \o <<>> = Append(delivered, x)
    BY <2>2, ConcatEmptySeq
  <2> QED
    BY <1>2, <2>1, <2>3
<1>6. Kept(how, Append(delivered, x), "BlockingCommit") = Append(db, x)
  BY <1>1, <1>4, KeptAppend
<1>7. Kept(how, Append(delivered, x), "Commit") = dc
  BY <1>1, <1>4, KeptAppend
<1>8. db \in Seq(Completion)
  BY <1>1, KeptType
<1>9. Append(db, x) \o <<>> = db \o promised
  <2> HIDE DEF db
  <2> QED
    BY <1>1, <1>2, <1>3, <1>8, MovedOver
<1>10. KeptInOrder'
  <2>1. KeptInOrder
    BY EachOnceIsKept DEF PostInv
  <2> QED
    BY <1>2, <1>5, <1>6, <1>7, <1>9, <2>1 DEF KeptInOrder
<1>11. EachOnceInOrder'
  BY <1>10, EachOnceIsKept, PTL
<1>12. \A k \in DOMAIN delivered' : delivered'[k].sn \in 1 .. nextSn'
  <2>1. /\ DOMAIN Append(delivered, x) = 1 .. (Len(delivered) + 1) /\ Len(delivered) \in Nat
        /\ DOMAIN delivered = 1 .. Len(delivered)
        /\ \A i \in 1 .. Len(delivered) : Append(delivered, x)[i] = delivered[i]
        /\ Append(delivered, x)[Len(delivered) + 1] = x
    BY <1>1, AppendProperties
  <2>2. ASSUME NEW k \in 1 .. (Len(delivered) + 1) PROVE Append(delivered, x)[k].sn \in 1 .. nextSn
    <3>1. CASE k \in 1 .. Len(delivered)
      BY <2>1, <3>1 DEF PostInv
    <3>2. CASE k = Len(delivered) + 1
      BY <1>4, <2>1, <3>2
    <3>3. k \in 1 .. Len(delivered) \/ k = Len(delivered) + 1
      BY <2>1
    <3> QED
      BY <3>1, <3>2, <3>3
  <2> QED
    BY <1>2, <1>5, <2>1, <2>2
<1> QED
  BY <1>2, <1>11, <1>12 DEF PostInv, AllThrough

LEMMA PostInvNext ==
    ASSUME ClientTypes, OrderInv, OwnerInv, PostInv, ClientTypes', OrderInv',
           [ClientNext]_clientVars
    PROVE  PostInv'
<1> USE DEF mainVars, queueVars, trunkVars
<1>1. CASE \E call \in Call : CommitPipeline(call)
  BY <1>1, PostInvCommit DEF CommitPipeline
<1>2. CASE BuildCommand \/ Notify \/ Shutdown \/ ShutdownReturns \/ WorkerQuits
           \/ ReadPipe \/ FaultStep \/ UNCHANGED clientVars
  <2>1. UNCHANGED <<how, nextSn, delivered, completed, trunkQueue, promised>>
    <3>1. CASE ReadPipe
      BY <3>1, ReadPipeHandsOver
    <3>2. CASE FaultStep
      BY <3>2, FaultTellsNobody, NextSnKept DEF FaultStep
    <3>3. CASE BuildCommand \/ Notify \/ Shutdown \/ ShutdownReturns \/ WorkerQuits
               \/ UNCHANGED clientVars
      BY <3>3 DEF BuildCommand, Notify, Shutdown, ShutdownReturns, WorkerQuits,
                  clientVars, connVars
    <3> QED
      BY <1>2, <3>1, <3>2, <3>3
  <2>2. KeptInOrder'
    <3>1. KeptInOrder
      BY EachOnceIsKept DEF PostInv
    <3> QED
      BY <2>1, <3>1 DEF KeptInOrder
  <2>3. EachOnceInOrder'
    BY <2>2, EachOnceIsKept, PTL
  <2> QED
    BY <2>1, <2>3 DEF PostInv, AllThrough
<1>3. CASE RunOnce
  BY <1>3, PostInvRunOnce
<1>4. CASE BlockingCommitReturns
  BY <1>4, PostInvReturns
<1>5. CASE WorkerStep
  BY <1>5, PostInvCallback
<1> QED
  BY <1>1, <1>2, <1>3, <1>4, <1>5 DEF ClientNext, MainStep

(* Whatever the two threads interleave, the completions that have reached the callers of
   Commit(), then those in the trunk queue, are those the connection made for them, in its
   order, each once; and so are those of BlockingCommit() and its promise. *)
THEOREM AlwaysEachOnceInOrder == ClientSpec => []EachOnceInOrder
<1>1. ClientTypes /\ OrderInv /\ OwnerInv /\ PostInv /\ [ClientNext]_clientVars
        => (ClientTypes /\ OrderInv /\ OwnerInv /\ PostInv)'
  BY ClientTypesNext, OrderInvNext, OwnerInvNext, PostInvNext
<1>2. PostInv => EachOnceInOrder
  BY DEF PostInv
<1> QED
  BY <1>1, <1>2, ClientTypesInit, OrderInvInit, OwnerInvInit, PostInvInit, PTL DEF ClientSpec

-----------------------------------------------------------------------------
(* Whose replies reach the callers, if every pipeline is of one command.    *)

LEMMA OwnInvInit == ClientInit => OwnInv
<1> SUFFICES ASSUME ClientInit PROVE OwnInv
  OBVIOUS
<1>1. TaskInv /\ SingleInv
  BY TaskInvInit, SingleInit DEF ClientInit
<1>2. workQueue = <<>> /\ delivered = <<>> /\ trunkQueue = <<>> /\ promised = <<>>
  BY DEF ClientInit
<1> QED
  BY <1>1, <1>2 DEF OwnInv, FreshSingle, AllOwn

(* The wire of single commands stays in step in the steps of the client. *)
LEMMA OwnWire ==
    ASSUME ClientTypes, OwnInv, [ClientNext]_clientVars
    PROVE  TaskInv' /\ SingleInv'
<1>1. TypeOK /\ TaskInv /\ SingleInv /\ workQueue \in Seq(Pipeline) /\ FreshSingle(workQueue)
  BY DEF ClientTypes, OwnInv
<1>2. CASE UNCHANGED connVars
  <2>1. TaskInv'
    BY <1>1, <1>2 DEF connVars, delayVars, tcpVars, TaskInv, SomeTaskPending
  <2>2. SingleInv'
    BY <1>1, <1>2 DEF connVars, delayVars, tcpVars, serverVars, SingleInv, LinkIsOpen,
                      NothingUnderWay, RepliesMatch, RequestsMatch, OnlyOwnRefused,
                      TailReplyDelivered
  <2> QED
    BY <2>1, <2>2
<1>3. CASE SendAndCommit(workQueue)
  BY <1>1, <1>3, SendAndCommitSingle, SendAndCommitTasks
<1>4. CASE ConnProgress \/ ConnFault
  <2>1. Next
    BY <1>4 DEF Next
  <2> QED
    BY <1>1, <1>4, <2>1, SingleStep, TaskInvNext
<1>5. UNCHANGED connVars \/ SendAndCommit(workQueue) \/ ConnProgress \/ ConnFault
  <2>1. CASE MainStep \/ WorkerQuits \/ UNCHANGED clientVars
    BY <2>1 DEF MainStep, BuildCommand, CommitPipeline, CommitCommands, Notify,
                BlockingCommitReturns, RunOnce, Shutdown, ShutdownReturns, WorkerQuits, clientVars
  <2>2. CASE ReadPipe
    BY <2>2, ReadPipeHandsOver
  <2>3. CASE WorkerStep \/ FaultStep
    BY <2>3 DEF WorkerStep, FaultStep
  <2> QED
    BY <2>1, <2>2, <2>3 DEF ClientNext
<1> QED
  BY <1>2, <1>3, <1>4, <1>5

(* One more reply, in whichever queue. *)
LEMMA OwnAppended ==
    ASSUME NEW s \in Seq(Completion), AllOwn(s), NEW x \in Completion,
           x.reply.sn = x.sn, x.reply.idx = x.built_num
    PROVE  AllOwn(Append(s, x))
<1> DEFINE q == Append(s, x)
<1>1. /\ DOMAIN q = 1 .. (Len(s) + 1) /\ Len(s) \in Nat
      /\ DOMAIN s = 1 .. Len(s)
      /\ \A i \in 1 .. Len(s) : q[i] = s[i]
      /\ q[Len(s) + 1] = x
  BY AppendProperties
<1> HIDE DEF q
<1>2. ASSUME NEW k \in DOMAIN q PROVE q[k].reply.sn = q[k].sn /\ q[k].reply.idx = q[k].built_num
  <2>1. CASE k \in 1 .. Len(s)
    BY <1>1, <2>1 DEF AllOwn
  <2>2. CASE k = Len(s) + 1
    BY <1>1, <2>2
  <2>3. k \in 1 .. Len(s) \/ k = Len(s) + 1
    BY <1>1
  <2> QED
    BY <2>1, <2>2, <2>3
<1> QED
  BY <1>2 DEF AllOwn, q

(* A commit of one command puts a single command into the work queue. *)
LEMMA CommitsSingle ==
    ASSUME workQueue \in Seq(Pipeline), nextSn \in Nat, FreshSingle(workQueue),
           NEW call, CommitCommands(call, 1)
    PROVE  FreshSingle(workQueue')
<1>1. workQueue \in Seq(Pipeline) /\ nextSn + 1 \in Nat
  OBVIOUS
<1> DEFINE cp == CreateCmdPipeline(nextSn + 1, 1)
<1>2. workQueue' = workQueue \/ workQueue' = Append(workQueue, cp)
  BY DEF CommitCommands
<1>3. cp \in Pipeline /\ cp.built_num = 1 /\ cp.processed_num = 0
  BY <1>1 DEF CreateCmdPipeline, Pipeline, PipelineState, QUEUEING, PROCESS_OVER
<1> HIDE DEF cp
<1>4. FreshSingle(Append(workQueue, cp))
  <2> DEFINE q == Append(workQueue, cp)
  <2>1. /\ DOMAIN q = 1 .. (Len(workQueue) + 1) /\ Len(workQueue) \in Nat
        /\ DOMAIN workQueue = 1 .. Len(workQueue)
        /\ \A i \in 1 .. Len(workQueue) : q[i] = workQueue[i]
        /\ q[Len(workQueue) + 1] = cp
    BY <1>1, <1>3, AppendProperties
  <2> HIDE DEF q
  <2>2. ASSUME NEW k \in DOMAIN q PROVE q[k].built_num = 1 /\ q[k].processed_num = 0
    <3>1. CASE k \in 1 .. Len(workQueue)
      BY <2>1, <3>1 DEF FreshSingle
    <3>2. CASE k = Len(workQueue) + 1
      BY <1>3, <2>1, <3>2
    <3>3. k \in 1 .. Len(workQueue) \/ k = Len(workQueue) + 1
      BY <2>1
    <3> QED
      BY <3>1, <3>2, <3>3
  <2> QED
    BY <2>2 DEF FreshSingle, q
<1> QED
  BY <1>2, <1>4

LEMMA OwnInvNext ==
    ASSUME MaxBuilt = 1, EmptyCommits = FALSE
    PROVE  ClientTypes /\ OwnerInv /\ OwnInv /\ ClientTypes' /\ [ClientNext]_clientVars => OwnInv'
<1> SUFFICES ASSUME ClientTypes, OwnerInv, OwnInv, ClientTypes', [ClientNext]_clientVars
             PROVE  OwnInv'
  OBVIOUS
<1>1. /\ TypeOK /\ TypeOK'
      /\ delivered \in Seq(Completion) /\ trunkQueue \in Seq(Completion)
      /\ promised \in Seq(Completion) /\ completed \in Seq(Completion)
      /\ FreshSingle(workQueue) /\ AllOwn(delivered) /\ AllOwn(trunkQueue) /\ AllOwn(promised)
  BY DEF ClientTypes, TypeOK, OwnInv
<1>2. TaskInv' /\ SingleInv'
  BY OwnWire
<1> USE DEF mainVars, queueVars, trunkVars
<1>3. CASE \E call \in Call : CommitPipeline(call)
  <2>1. PICK call \in Call : CommitPipeline(call)
    BY <1>3
  <2>2. UNCHANGED <<delivered, trunkQueue, promised>>
    BY <2>1 DEF CommitPipeline, CommitCommands
  <2>3. FreshSingle(workQueue')
    <3>1. builtNum = 1
      <4>1. builtNum \in 0 .. 1 /\ builtNum > 0
        BY <2>1 DEF ClientTypes, CommitPipeline
      <4> QED
        BY <4>1
    <3>2. CommitCommands(call, 1)
      BY <2>1, <3>1 DEF CommitPipeline
    <3>3. workQueue \in Seq(Pipeline) /\ nextSn \in Nat
      BY <1>1 DEF ClientTypes, TypeOK
    <3> QED
      BY <1>1, <3>2, <3>3, CommitsSingle
  <2> QED
    BY <1>1, <1>2, <2>2, <2>3 DEF OwnInv
<1>4. CASE RunOnce
  <2>1. /\ trunkQueue # <<>> /\ trunkQueue' = Tail(trunkQueue)
        /\ delivered' = Append(delivered, Head(trunkQueue))
        /\ UNCHANGED <<workQueue, promised>>
    BY <1>4 DEF RunOnce
  <2>2. /\ Head(trunkQueue) \in Completion /\ Head(trunkQueue) = trunkQueue[1]
        /\ DOMAIN Tail(trunkQueue) = 1 .. (Len(trunkQueue) - 1)
        /\ DOMAIN trunkQueue = 1 .. Len(trunkQueue) /\ Len(trunkQueue) \in Nat
        /\ \A i \in 1 .. (Len(trunkQueue) - 1) : Tail(trunkQueue)[i] = trunkQueue[i + 1]
    BY <1>1, <2>1, HeadTailProperties
  <2>3. 1 \in DOMAIN trunkQueue
    BY <1>1, <2>1, EmptySeq
  <2>4. AllOwn(delivered')
    <3>1. PICK x \in Completion : x = Head(trunkQueue) /\ x = trunkQueue[1]
      BY <2>2
    <3>2. x.reply.sn = x.sn /\ x.reply.idx = x.built_num
      BY <1>1, <2>3, <3>1 DEF AllOwn
    <3>3. AllOwn(Append(delivered, x))
      BY <1>1, <3>2, OwnAppended
    <3> QED
      BY <2>1, <3>1, <3>3
  <2>5. AllOwn(Tail(trunkQueue))
    <3>1. ASSUME NEW i \in 1 .. (Len(trunkQueue) - 1)
          PROVE  i + 1 \in DOMAIN trunkQueue /\ Tail(trunkQueue)[i] = trunkQueue[i + 1]
      BY <2>2
    <3> QED
      BY <1>1, <2>2, <3>1 DEF AllOwn
  <2> QED
    BY <1>1, <1>2, <2>1, <2>4, <2>5 DEF OwnInv
<1>5. CASE BlockingCommitReturns
  <2>1. /\ promised # <<>> /\ promised' = <<>> /\ delivered' = delivered \o promised
        /\ UNCHANGED <<workQueue, trunkQueue>>
    BY <1>5 DEF BlockingCommitReturns
  <2>2. AllOwn(delivered \o promised)
    <3> DEFINE q == delivered \o promised
    <3>1. /\ q \in Seq(Completion) /\ Len(q) = Len(delivered) + Len(promised)
          /\ \A i \in 1 .. Len(q) : q[i] = IF i <= Len(delivered) THEN delivered[i]
                                           ELSE promised[i - Len(delivered)]
      BY <1>1, ConcatProperties
    <3>2. /\ Len(delivered) \in Nat /\ DOMAIN delivered = 1 .. Len(delivered)
          /\ Len(promised) \in Nat /\ DOMAIN promised = 1 .. Len(promised)
          /\ DOMAIN q = 1 .. Len(q)
      BY <1>1, <3>1
    <3> HIDE DEF q
    <3>3. ASSUME NEW i \in DOMAIN q PROVE q[i].reply.sn = q[i].sn /\ q[i].reply.idx = q[i].built_num
      <4>1. CASE i <= Len(delivered)
        <5>1. i \in DOMAIN delivered
          BY <3>1, <3>2, <4>1
        <5> QED
          BY <1>1, <3>1, <3>2, <4>1, <5>1 DEF AllOwn
      <4>2. CASE ~(i <= Len(delivered))
        <5>1. i - Len(delivered) \in DOMAIN promised
          BY <3>1, <3>2, <4>2
        <5> QED
          BY <1>1, <3>1, <3>2, <4>2, <5>1 DEF AllOwn
      <4> QED
        BY <4>1, <4>2
    <3> QED
      BY <3>3 DEF AllOwn, q
  <2>3. AllOwn(<<>>)
    BY DEF AllOwn
  <2> QED
    BY <1>1, <1>2, <2>1, <2>2, <2>3 DEF OwnInv
<1>6. CASE ReadPipe
  <2>1. UNCHANGED <<delivered, trunkQueue, promised>> /\ workQueue' = <<>>
    BY <1>6, ReadPipeHandsOver
  <2>2. FreshSingle(<<>>)
    BY DEF FreshSingle
  <2> QED
    BY <1>1, <1>2, <2>1, <2>2 DEF OwnInv
<1>7. CASE WorkerStep
  <2>1. ConnProgress /\ PostCompleted /\ UNCHANGED <<delivered, workQueue>>
    BY <1>7 DEF WorkerStep
  <2>2. CASE UNCHANGED <<completed, trunkQueue, promised>>
    BY <1>1, <1>2, <2>1, <2>2 DEF OwnInv
  <2>3. CASE \E x \in Completion : /\ completed' = Append(completed, x)
                                   /\ Len(completed') = Len(completed) + 1
                                   /\ completed'[Len(completed) + 1] = x
                                   /\ Post(x)
    <3>1. PICK x \in Completion : /\ Len(completed') = Len(completed) + 1
                                  /\ completed'[Len(completed) + 1] = x
                                  /\ Post(x)
      BY <2>3
    <3>2. x.reply.sn = x.sn /\ x.reply.idx = x.built_num
      <4>1. TailReplyDelivered'
        BY <1>2 DEF SingleInv
      <4>2. completed' \in Seq(Completion) /\ Len(completed) \in Nat
        BY <1>1 DEF TypeOK
      <4>3. Len(completed) + 1 \in DOMAIN completed'
        BY <3>1, <4>2
      <4> QED
        BY <3>1, <4>1, <4>3 DEF TailReplyDelivered
    <3>3. AllOwn(Append(trunkQueue, x)) /\ AllOwn(Append(promised, x))
      BY <1>1, <3>2, OwnAppended
    <3>4. AllOwn(trunkQueue') /\ AllOwn(promised')
      BY <1>1, <3>1, <3>3 DEF Post
    <3> QED
      BY <1>1, <1>2, <2>1, <3>4 DEF OwnInv
  <2> QED
    BY <1>1, <2>1, <2>2, <2>3, CallbackPosts
<1>8. CASE BuildCommand \/ Notify \/ Shutdown \/ ShutdownReturns \/ WorkerQuits \/ FaultStep
           \/ UNCHANGED clientVars
  <2>1. UNCHANGED <<delivered, trunkQueue, promised, workQueue>>
    BY <1>8 DEF BuildCommand, Notify, Shutdown, ShutdownReturns, WorkerQuits, FaultStep,
                clientVars
  <2> QED
    BY <1>1, <1>2, <2>1 DEF OwnInv
<1> QED
  BY <1>3, <1>4, <1>5, <1>6, <1>7, <1>8 DEF ClientNext, MainStep

(* A caller that commits each command by itself is always given the reply to that command:
   through its callback or from BlockingCommit(), whatever is lost and sent again meanwhile.
   (With more commands in a pipeline a resend can give it another's; see conn_tail_reply.) *)
THEOREM SingleOwnReply ==
    ASSUME MaxBuilt = 1, EmptyCommits = FALSE
    PROVE  ClientSpec => []OwnReply
<1>1. ClientTypes /\ OrderInv /\ OwnerInv /\ OwnInv /\ [ClientNext]_clientVars
        => (ClientTypes /\ OrderInv /\ OwnerInv /\ OwnInv)'
  BY ClientTypesNext, OrderInvNext, OwnerInvNext, OwnInvNext
<1>2. OwnInv => OwnReply
  BY DEF OwnInv, AllOwn, OwnReply
<1> QED
  BY <1>1, <1>2, ClientTypesInit, OrderInvInit, OwnerInvInit, OwnInvInit, PTL DEF ClientSpec

=============================================================================
