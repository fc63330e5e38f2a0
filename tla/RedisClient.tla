----------------------------- MODULE RedisClient -----------------------------
(***************************************************************************)
(* The client from the caller's side: CRedisClient, its work queue         *)
(* (CKjRedisClientWorkQueue) and its trunk queue (CRedisClientTrunkQueue   *)
(* on a CCamelReaderWriterQueue), composed with the connection of          *)
(* KjRedisClientConn.                                                      *)
(*                                                                         *)
(* Two threads: the main thread builds commands, commits them, runs the    *)
(* reply callbacks and shuts the client down; the worker thread runs the   *)
(* event loop with the connection.  Pipelines go to the worker through the *)
(* single-producer single-consumer queue _callbacks, whose wakeup is a     *)
(* byte in a pipe, written after the element; replies come back through    *)
(* the trunk queue, which the main thread drains whenever it is woken or   *)
(* its host calls OnUpdate().                                              *)
(***************************************************************************)
EXTENDS KjRedisClientConn

CONSTANTS
    MaxBuilt,      \* bound: commands built between two commits
    EmptyCommits   \* whether the caller also commits with no command built

ASSUME MaxBuiltAssumption == MaxBuilt \in Nat \ {0}
ASSUME EmptyCommitsAssumption == EmptyCommits \in BOOLEAN

VARIABLES
    \* main thread
    mainPc,       \* what the main thread is in the middle of
    builtNum,     \* _builtNum
    how,          \* how[sn]: through which call pipeline sn was committed
    delivered,    \* history: completions that reached the caller, in order
    \* work queue
    workQueue,    \* _callbacks of CKjRedisClientWorkQueue
    pipeByte,     \* an opcode byte waits in the pipe to the worker
    pipeLoop,     \* read_pipe_loop is alive
    done,         \* _done
    finished,     \* _finished
    \* replies on their way to the main thread
    trunkQueue,   \* _callbacks of CCamelReaderWriterQueue
    trunkClosed,  \* _close
    promised      \* the reply for which BlockingCommit() waits, once set_value() ran

mainVars  == <<mainPc, builtNum, how, delivered, nextSn>>
queueVars == <<workQueue, pipeByte, pipeLoop, done, finished>>
trunkVars == <<trunkQueue, trunkClosed, promised>>
clientVars == <<connVars, mainVars, queueVars, trunkVars>>

-----------------------------------------------------------------------------
(* What the main thread is in the middle of: nothing; Add() between enqueue
   and PipeNotify; BlockingCommit() waiting for its future; Finish() waiting
   for the worker. *)
MainPc == {"idle", "notify", "waiting", "finishing"}

Call == {"Commit", "BlockingCommit"}

ClientInit ==
    /\ Init
    /\ mainPc = "idle"
    /\ builtNum = 0
    /\ how = <<>>
    /\ delivered = <<>>
    /\ workQueue = <<>>
    /\ pipeByte = FALSE
    /\ pipeLoop = TRUE
    /\ done = FALSE
    /\ finished = FALSE
    /\ trunkQueue = <<>>
    /\ trunkClosed = FALSE
    /\ promised = <<>>

-----------------------------------------------------------------------------
(* Main thread.                                                             *)

(* Set(), Get(), EvalSha() ...: one more command of the pipeline being built. *)
BuildCommand ==
    /\ mainPc = "idle"
    /\ builtNum < MaxBuilt
    /\ builtNum' = builtNum + 1
    /\ UNCHANGED <<connVars, mainPc, how, delivered, nextSn, queueVars, trunkVars>>

(* The main thread's next step in a call, after Add() has enqueued or refused. *)
ReturnAtOnce(call) == "idle"      \* mutant: BlockingCommit() does not wait for its future
AfterAdd(call) == IF call = "Commit" THEN "idle" ELSE "waiting"

(* Commit() and BlockingCommit() of n commands up to the enqueue in Add().  Add()
   refuses once _done is set; neither caller looks at what it returns. *)
CommitCommands(call, n) ==
    /\ mainPc = "idle"
    /\ nextSn < MaxCommits
    /\ nextSn' = nextSn + 1
    /\ how' = Append(how, call)
    /\ builtNum' = 0
    /\ IF done
       THEN mainPc' = AfterAdd(call) /\ UNCHANGED workQueue
       ELSE /\ mainPc' = "notify"
            /\ workQueue' = Append(workQueue, CreateCmdPipeline(nextSn', n))
    /\ UNCHANGED <<connVars, delivered, pipeByte, pipeLoop, done, finished, trunkVars>>

CommitPipeline(call) ==
    /\ builtNum > 0 \/ EmptyCommits
    /\ CommitCommands(call, builtNum)

NotifyLost == UNCHANGED pipeByte      \* mutant: the byte is not written
PipeNotify == pipeByte' = TRUE

(* The rest of Add(): PipeNotify, one opcode byte into the pipe. *)
Notify ==
    /\ mainPc = "notify"
    /\ PipeNotify
    /\ mainPc' = AfterAdd(how[nextSn])
    /\ UNCHANGED <<connVars, builtNum, how, delivered, nextSn, workQueue, pipeLoop,
                   done, finished, trunkVars>>

(* The future of BlockingCommit() is ready. *)
BlockingCommitReturns ==
    /\ mainPc = "waiting"
    /\ promised # <<>>
    /\ mainPc' = "idle"
    /\ delivered' = delivered \o promised
    /\ promised' = <<>>
    /\ UNCHANGED <<connVars, builtNum, how, nextSn, queueVars, trunkQueue, trunkClosed>>

MayRun == ~trunkClosed

(* One round of CCamelReaderWriterQueue::RunOnce(): the caller's callback. *)
RunOnce ==
    /\ mainPc = "idle"
    /\ MayRun
    /\ trunkQueue # <<>>
    /\ trunkQueue' = Tail(trunkQueue)
    /\ delivered' = Append(delivered, Head(trunkQueue))
    /\ UNCHANGED <<connVars, mainPc, builtNum, how, nextSn, queueVars, trunkClosed, promised>>

(* Shutdown(): Finish() sets _done ... *)
Shutdown ==
    /\ mainPc = "idle"
    /\ ~done
    /\ done' = TRUE
    /\ mainPc' = "finishing"
    /\ UNCHANGED <<connVars, builtNum, how, delivered, nextSn, workQueue, pipeByte,
                   pipeLoop, finished, trunkVars>>

(* ... sleeps until _finished is set, and the trunk queue is closed. *)
ShutdownReturns ==
    /\ mainPc = "finishing"
    /\ finished
    /\ trunkClosed' = TRUE
    /\ mainPc' = "idle"
    /\ UNCHANGED <<connVars, builtNum, how, delivered, nextSn, queueVars, trunkQueue, promised>>

-----------------------------------------------------------------------------
(* Worker thread.                                                           *)

(* read_pipe_loop: the bytes are read and the queue is emptied; the loop ends
   once _done is set. *)
ReadPipe ==
    /\ ~finished
    /\ pipeLoop
    /\ pipeByte
    /\ pipeByte' = FALSE
    /\ pipeLoop' = ~done
    /\ workQueue' = <<>>
    /\ IF workQueue = <<>> THEN UNCHANGED connVars ELSE SendAndCommit(workQueue)
    /\ UNCHANGED <<mainVars, done, finished, trunkVars>>

PostTwice(c) ==      \* mutant: a blocking call's reply also goes into the trunk queue
    /\ trunkQueue' = Append(trunkQueue, c)
    /\ promised' = IF how[c.sn] = "Commit" THEN promised ELSE Append(promised, c)

(* A pipeline's callback: the reply goes into the trunk queue, or into the
   reply of BlockingCommit(), whose dispose callback sets the promise. *)
Post(c) ==
    IF how[c.sn] = "Commit"
    THEN trunkQueue' = Append(trunkQueue, c) /\ UNCHANGED promised
    ELSE promised' = Append(promised, c) /\ UNCHANGED trunkQueue

PostCompleted ==
    IF completed' = completed
    THEN UNCHANGED <<trunkQueue, promised>>
    ELSE Post(completed'[Len(completed')])

(* A step of the connection, with the callback it runs, if any. *)
WorkerStep ==
    /\ ~finished
    /\ ConnProgress
    /\ PostCompleted
    /\ UNCHANGED <<mainPc, builtNum, how, delivered, queueVars, trunkClosed>>

FaultStep ==
    /\ ~finished
    /\ ConnFault
    /\ UNCHANGED <<mainPc, builtNum, how, delivered, queueVars, trunkVars>>

(* check_quit_loop sees _done; Run() destroys the connection and returns. *)
WorkerQuits ==
    /\ done
    /\ ~finished
    /\ finished' = TRUE
    /\ UNCHANGED <<connVars, mainVars, workQueue, pipeByte, pipeLoop, done, trunkVars>>

-----------------------------------------------------------------------------

MainStep ==
    \/ BuildCommand
    \/ \E call \in Call : CommitPipeline(call)
    \/ Notify \/ BlockingCommitReturns \/ RunOnce
    \/ Shutdown \/ ShutdownReturns

ClientNext == MainStep \/ ReadPipe \/ WorkerStep \/ FaultStep \/ WorkerQuits

ClientSpec == ClientInit /\ [][ClientNext]_clientVars

(* Neither thread stops in the middle of something: the main thread finishes
   the calls it has begun and its host keeps calling OnUpdate(); the worker's
   event loop runs what is due.  The caller need not commit or shut down. *)
MainProgress == Notify \/ BlockingCommitReturns \/ RunOnce \/ ShutdownReturns

ClientFairSpec ==
    /\ ClientSpec
    /\ WF_clientVars(MainProgress)
    /\ WF_clientVars(ReadPipe)
    /\ WF_clientVars(WorkerStep)
    /\ WF_clientVars(WorkerQuits)

-----------------------------------------------------------------------------
(* Properties.                                                              *)

(* Every variable has its type. *)
ClientTypeOK ==
    /\ TypeOK
    /\ mainPc \in MainPc
    /\ builtNum \in 0 .. MaxBuilt
    /\ how \in Seq(Call) /\ Len(how) = nextSn
    /\ delivered \in Seq(Completion)
    /\ workQueue \in Seq(Pipeline)
    /\ pipeByte \in BOOLEAN /\ pipeLoop \in BOOLEAN
    /\ done \in BOOLEAN /\ finished \in BOOLEAN
    /\ trunkQueue \in Seq(Completion) /\ trunkClosed \in BOOLEAN
    /\ promised \in Seq(Completion) /\ Len(promised) <= 1

(* Between the threads no pipeline is lost, repeated or overtaken: after those whose
   callback has run, those with the connection and those in the work queue are, in
   this order, all the others that were committed before the shutdown. *)
PipelinesInOrder ==
    /\ CallbacksInOrder
    /\ \E n \in 0 .. nextSn : /\ HoldsUnanswered(dqCommon \o workQueue, Len(completed), n)
                              /\ ~done => n = nextSn

(* Each callback and each BlockingCommit() gets the reply of its own pipeline. *)
OwnReply ==
    \A k \in DOMAIN delivered :
        delivered[k].reply.sn = delivered[k].sn /\ delivered[k].reply.idx = delivered[k].built_num

Through(s, call) == Selected(s, Positions(s, LAMBDA c : how[c.sn] = call))

(* The completions that wait for, or have reached, callers of the one call are those
   the connection made, in its order, each once. *)
EachOnceInOrder ==
    /\ Through(delivered, "Commit") \o trunkQueue = Through(completed, "Commit")
    /\ Through(delivered, "BlockingCommit") \o promised = Through(completed, "BlockingCommit")

(* A pipeline in the work queue is never left unnoticed by a worker that waits for
   the pipe: the opcode is in the pipe, or the main thread is about to put it there. *)
NoLostWakeup ==
    workQueue # <<>> /\ pipeLoop => pipeByte \/ mainPc = "notify"

(* A promise is never set for a BlockingCommit() that is no longer, or not yet,
   waiting: its reply variable and its promise live on the waiting call's stack. *)
PromiseHasOwner ==
    promised # <<>> => /\ mainPc \in {"notify", "waiting"}
                       /\ promised[1].sn = nextSn

(* A BlockingCommit() called before the shutdown returns, and so does Shutdown(). *)
CallsReturn ==
    /\ (mainPc = "waiting" /\ ~done) ~> (mainPc = "idle")
    /\ (mainPc = "finishing") ~> (mainPc = "idle")

=============================================================================
