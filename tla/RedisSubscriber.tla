--------------------------- MODULE RedisSubscriber ---------------------------
(***************************************************************************)
(* The subscriber: CRedisSubscriber, its two queues and its connection     *)
(* KjRedisSubscriberConn, against a Redis server and other clients that    *)
(* publish.                                                                *)
(*                                                                         *)
(* KjRedisSubscriberConn.cpp repeats KjRedisClientConn.cpp line by line,   *)
(* and the two queues repeat the client's, except for what this module     *)
(* adds to RedisClient: every pipeline has one command, a reply that is a  *)
(* message leaves the deque of pipelines alone, and the main thread counts *)
(* who wants which channel.  A topic is a channel or a pattern; SUBSCRIBE  *)
(* and PSUBSCRIBE differ in nothing but the kind of topic.                 *)
(***************************************************************************)
EXTENDS RedisClient, SequencesExt

CONSTANTS
    Channel,      \* names passed to Subscribe() and Unsubscribe()
    Pattern,      \* names passed to Psubscribe() and Punsubscribe()
    Holder,       \* names under which message callbacks are registered
    Asked,        \* which of PUBLISH and PUBSUB the caller also uses
    MaxCount,     \* bound: size of a subscription counter
    MaxMessages   \* bound: messages the server sends

ASSUME TopicAssumption == Channel \cap Pattern = {}
ASSUME AskedAssumption == Asked \subseteq {"PUBLISH", "PUBSUB"}
ASSUME SubscriberBounds == MaxCount \in Nat /\ MaxMessages \in Nat

VARIABLES
    \* main thread
    counter,    \* _mapChannelSubscriberCounter and _mapPatternSubscriberCounter
    holders,    \* _vChanMsgCbHolder and _vPatMsgCbHolder
    cmds,       \* history: cmds[sn] is the command of pipeline sn
    heard,      \* history: calls of message callbacks
    \* server
    subs,       \* topics the current connection is subscribed to
    pushed,     \* history: topics of the messages sent, in order
    lost        \* history: a connection that had been made was lost

subscriberVars == <<counter, holders, cmds, heard, subs, pushed, lost>>
allVars == <<clientVars, subscriberVars>>

-----------------------------------------------------------------------------
Topic == Channel \cup Pattern

Op == {"SUBSCRIBE", "UNSUBSCRIBE", "PUBLISH", "PUBSUB"}

(* Which of the two vectors of callbacks and of the two work callbacks. *)
KindOf(topic) == IF topic \in Channel THEN "channel" ELSE "pattern"

(* A message on its way; idx tells it from the others. *)
Message(topic, idx) == [sn |-> 0, idx |-> idx, kind |-> "message", topic |-> topic]

IsMessage(r) == "topic" \in DOMAIN r

SubscriberInit ==
    /\ ClientInit
    /\ counter = [t \in Topic |-> 0]
    /\ holders = [k \in {"channel", "pattern"} |-> <<>>]
    /\ cmds = <<>>
    /\ heard = <<>>
    /\ subs = {}
    /\ pushed = <<>>
    /\ lost = FALSE

-----------------------------------------------------------------------------
(* Main thread.                                                             *)

CountIs(topic, n) == counter' = [counter EXCEPT ![topic] = n]

(* BuildCommand() and CommitChannel(), CommitPattern(), Commit() or BlockingCommit(). *)
CommitOne(call, op, topic) ==
    /\ CommitCommands(call, 1)
    /\ cmds' = Append(cmds, [op |-> op, topic |-> topic])

NothingCommitted == mainPc = "idle" /\ UNCHANGED <<clientVars, cmds>>

quietMain == <<holders, heard, subs, pushed, lost>>

(* Subscribe(): the first caller of a channel sends the command. *)
Subscribe(channel) ==
    /\ counter[channel] < MaxCount
    /\ IF counter[channel] = 0
       THEN CommitOne("Commit", "SUBSCRIBE", channel)
       ELSE NothingCommitted
    /\ CountIs(channel, counter[channel] + 1)
    /\ UNCHANGED quietMain

(* Psubscribe(): the same, and a negative counter counts as zero. *)
Psubscribe(pattern) ==
    /\ counter[pattern] < MaxCount
    /\ IF counter[pattern] <= 0
       THEN CommitOne("Commit", "SUBSCRIBE", pattern) /\ CountIs(pattern, 1)
       ELSE NothingCommitted /\ CountIs(pattern, counter[pattern] + 1)
    /\ UNCHANGED quietMain

UnsubscribeAtOnce(channel) ==      \* mutant: the other callers are forgotten
    /\ counter[channel] > 0
    /\ CommitOne("Commit", "UNSUBSCRIBE", channel)
    /\ CountIs(channel, counter[channel] - 1)
    /\ UNCHANGED quietMain
(* Unsubscribe(): the last caller sends the command. *)
Unsubscribe(channel) ==
    /\ counter[channel] > 0
    /\ IF counter[channel] = 1
       THEN CommitOne("Commit", "UNSUBSCRIBE", channel)
       ELSE NothingCommitted
    /\ CountIs(channel, counter[channel] - 1)
    /\ UNCHANGED quietMain

(* Punsubscribe(): the counter of a pattern nobody wants becomes negative. *)
Punsubscribe(pattern) ==
    /\ counter[pattern] > -MaxCount
    /\ IF counter[pattern] = 1
       THEN CommitOne("Commit", "UNSUBSCRIBE", pattern)
       ELSE NothingCommitted
    /\ CountIs(pattern, counter[pattern] - 1)
    /\ UNCHANGED quietMain

(* Publish(). *)
Publish(channel) ==
    /\ CommitOne("Commit", "PUBLISH", channel)
    /\ UNCHANGED <<counter, quietMain>>

(* Pubsub() waits for the answer. *)
Pubsub(topic) ==
    /\ CommitOne("BlockingCommit", "PUBSUB", topic)
    /\ UNCHANGED <<counter, quietMain>>

(* AddChannelMessageCb(), AddPatternMessageCb(): a name that is there only gets
   another function. *)
AddMessageCbTwice(kind, name) ==      \* mutant: the name is not looked for
    /\ mainPc = "idle"
    /\ Len(holders[kind]) < 2
    /\ holders' = [holders EXCEPT ![kind] = Append(@, name)]
    /\ UNCHANGED <<clientVars, counter, cmds, heard, subs, pushed, lost>>
AddMessageCb(kind, name) ==
    /\ mainPc = "idle"
    /\ holders' = [holders EXCEPT ![kind] =
                      IF name \in Range(@) THEN @ ELSE Append(@, name)]
    /\ UNCHANGED <<clientVars, counter, cmds, heard, subs, pushed, lost>>

(* RemoveChannelMessageCb(), RemovePatternMessageCb(). *)
RemoveMessageCb(kind, name) ==
    /\ mainPc = "idle"
    /\ holders' = [holders EXCEPT ![kind] = RemoveFirst(@, name)]
    /\ UNCHANGED <<clientVars, counter, cmds, heard, subs, pushed, lost>>

(* One round of RunOnce(): the function of a message calls every callback of its
   kind, as they are registered now; that of a reply calls a callback that
   leaves no trace. *)
DispatchOne ==
    /\ RunOnce
    /\ LET r  == Head(trunkQueue)
           hs == holders[KindOf(r.topic)]
       IN  heard' = IF IsMessage(r)
                    THEN heard \o [k \in DOMAIN hs |-> [holder |-> hs[k], idx |-> r.idx]]
                    ELSE heard
    /\ UNCHANGED <<counter, holders, cmds, subs, pushed, lost>>

(* The rest of a call, as in the client. *)
CallGoesOn ==
    /\ Notify \/ BlockingCommitReturns \/ ShutdownReturns
    /\ UNCHANGED subscriberVars

ShutdownBegins == Shutdown /\ UNCHANGED subscriberVars

-----------------------------------------------------------------------------
(* Worker thread: KjRedisSubscriberConn.                                    *)

quietWorker == <<mainPc, builtNum, how, delivered, queueVars, trunkClosed>>

(* A subscription lasts as long as its connection. *)
WithConnection ==
    /\ subs' = IF link' THEN subs ELSE {}
    /\ lost' = (lost \/ (link /\ ~link'))
    /\ UNCHANGED <<counter, holders, cmds, heard, pushed>>

ReadPipeAndCommit == ReadPipe /\ UNCHANGED subscriberVars

(* OnClientConnect(), CommitLoop(), taskFailed(), DelayReconnect(): statement by
   statement those of the client connection. *)
OnClientConnect == ConnectSucceeds
CommitLoop      == CommitLoopTimer
TaskFailed      == ResetAfterFailure
ReconnectTimer  == DelayElapsed

LoopRuns ==
    /\ ~finished
    /\ OnClientConnect \/ CommitLoop \/ ReadFails \/ TaskFailed \/ ReconnectTimer
    /\ WithConnection
    /\ UNCHANGED <<quietWorker, trunkQueue, promised>>

(* A reply that is no message belongs to the front pipeline, as in the client. *)
ReceiveReply ==
    /\ ~finished
    /\ HasReply
    /\ ~IsMessage(Head(replies))
    /\ OnClientReceive
    /\ PostCompleted
    /\ WithConnection
    /\ UNCHANGED quietWorker

MessageRead ==
    /\ ~finished
    /\ HasReply
    /\ IsMessage(Head(replies))
    /\ UNCHANGED <<readTask, failures, receiveFrame, promised, quietWorker, subscriberVars>>

ToTrunk == trunkQueue' = Append(trunkQueue, Head(replies))

ReceivePeeked ==      \* mutant: the message is not popped from the builder
    MessageRead /\ ToTrunk /\ UNCHANGED <<replies, dqCommon, committing_num, completed>>
ReceiveDropped ==     \* mutant: it is popped and forgotten
    /\ MessageRead
    /\ replies' = Tail(replies)
    /\ UNCHANGED <<trunkQueue, dqCommon, committing_num, completed>>
ReceiveCounted ==     \* mutant: it is also taken for the front pipeline's reply
    /\ MessageRead
    /\ ToTrunk
    /\ replies' = Tail(replies)
    /\ IF IsExpected
       THEN /\ dqCommon' = Tail(dqCommon)
            /\ committing_num' = committing_num - 1
            /\ completed' = Append(completed, CompletionOf(Head(dqCommon), Head(replies)))
       ELSE UNCHANGED <<dqCommon, committing_num, completed>>

(* A message goes to the trunk queue through one of the two work callbacks. *)
ReceiveMessage ==
    /\ MessageRead
    /\ ToTrunk
    /\ replies' = Tail(replies)
    /\ UNCHANGED <<dqCommon, committing_num, completed>>

(* What goes wrong; StartReadOp() may throw in OnClientConnect(). *)
ConnectionFault ==
    /\ ~finished
    /\ ConnFault
    /\ WithConnection
    /\ UNCHANGED <<quietWorker, trunkQueue, promised>>

(* Run() destroys the connection and returns. *)
Quits == WorkerQuits /\ UNCHANGED subscriberVars

-----------------------------------------------------------------------------
(* The server.                                                              *)

CommandOf(sn) == IF sn = 0 THEN [op |-> "AUTH"] ELSE cmds[sn]

(* The topics a connection is subscribed to after one more command. *)
Applied(S, cmd) ==
    CASE cmd.op = "SUBSCRIBE"   -> S \cup {cmd.topic}
      [] cmd.op = "UNSUBSCRIBE" -> S \ {cmd.topic}
      [] OTHER                  -> S

(* A connection with subscriptions is refused every other command. *)
RefusedBySubscriber(cmd) == subs # {} /\ cmd.op \in {"PUBLISH", "PUBSUB"}

Answer(kind) ==
    replies' = Append(replies, [sn |-> Head(requests).sn, idx |-> 1, kind |-> kind])

(* It executes the next command, or refuses it, for good or (-LOADING) for now. *)
ServerAnswers ==
    /\ ~finished
    /\ link
    /\ requests # <<>>
    /\ requests' = Tail(requests)
    /\ LET cmd == CommandOf(Head(requests).sn)
       IN  \/ ~RefusedBySubscriber(cmd) /\ Answer("ok")
              /\ subs' = Applied(subs, cmd) /\ UNCHANGED faults
           \/ RefusedBySubscriber(cmd) /\ Answer("error") /\ UNCHANGED <<subs, faults>>
           \/ Fault /\ Answer("error") /\ UNCHANGED subs
    /\ UNCHANGED <<dqCommon, committing_num, delayVars, tcpVars, readTask, commitLoops,
                   failures, link, completed, mainVars, queueVars, trunkVars,
                   counter, holders, cmds, heard, pushed, lost>>

(* Another client publishes to a topic of this connection. *)
ServerPushes(topic) ==
    /\ ~finished
    /\ link
    /\ topic \in subs
    /\ Len(pushed) < MaxMessages
    /\ pushed' = Append(pushed, topic)
    /\ replies' = Append(replies, Message(topic, Len(pushed')))
    /\ UNCHANGED <<dqCommon, committing_num, delayVars, tcpVars, readTask, commitLoops,
                   failures, link, requests, completed, faults, mainVars, queueVars,
                   trunkVars, counter, holders, cmds, heard, subs, lost>>

-----------------------------------------------------------------------------

Ask ==
    \/ \E c \in Channel : Subscribe(c) \/ Unsubscribe(c)
    \/ \E p \in Pattern : Psubscribe(p) \/ Punsubscribe(p)
    \/ \E c \in Channel : \/ "PUBLISH" \in Asked /\ Publish(c)
                          \/ "PUBSUB" \in Asked /\ Pubsub(c)
    \/ \E kind \in {"channel", "pattern"}, h \in Holder :
          AddMessageCb(kind, h) \/ RemoveMessageCb(kind, h)

WorkerRuns == ReadPipeAndCommit \/ LoopRuns \/ ReceiveReply \/ ReceiveMessage \/ ServerAnswers

SubscriberNext ==
    \/ Ask
    \/ DispatchOne \/ CallGoesOn \/ ShutdownBegins
    \/ WorkerRuns \/ Quits
    \/ ConnectionFault
    \/ \E t \in Topic : ServerPushes(t)

SubscriberSpec == SubscriberInit /\ [][SubscriberNext]_allVars

(* As for the client: calls that have begun go on, the host keeps calling
   RunOnce(), the event loop and the server do what is due. *)
SubscriberFairSpec ==
    /\ SubscriberSpec
    /\ WF_allVars(CallGoesOn \/ DispatchOne)
    /\ WF_allVars(ReadPipeAndCommit)
    /\ WF_allVars(LoopRuns \/ ReceiveReply \/ ReceiveMessage \/ ServerAnswers)
    /\ WF_allVars(Quits)

-----------------------------------------------------------------------------
(* Properties.                                                              *)

(* Every variable the subscriber adds has its type; the trunk queue and the wire
   carry messages as well as what the client's carry. *)
SubscriberTypeOK ==
    /\ counter \in [Topic -> -MaxCount .. MaxCount]
    /\ \A c \in Channel : counter[c] >= 0
    /\ \A k \in DOMAIN holders : holders[k] \in Seq(Holder)
    /\ cmds \in Seq([op : Op, topic : Topic]) /\ Len(cmds) = nextSn
    /\ heard \in Seq([holder : Holder, idx : Nat])
    /\ subs \subseteq Topic
    /\ pushed \in Seq(Topic)
    /\ lost \in BOOLEAN
    /\ dqCommon \in Seq(Pipeline) /\ completed \in Seq(Completion)
    /\ \A k \in DOMAIN replies : ~IsMessage(replies[k]) => replies[k] \in Reply

(* The serial numbers of those pipelines or requests of s that callers made. *)
Sns(s) == [k \in DOMAIN OfCallers(s) |-> OfCallers(s)[k].sn]

(* The topics callers of the subscriber still want. *)
Wanted == {t \in Topic : counter[t] > 0}

(* This connection will do: it works, and nothing has happened to it that ends it. *)
Sound == link /\ readTask /\ ~ \E k \in DOMAIN replies : replies[k].kind = "error"

Unwritten == Selected(dqCommon, Positions(dqCommon, LAMBDA cp : cp.state < COMMITTING))

(* The commands that are still to be executed, on this connection if it will do, and
   else on the next, in their order. *)
Pending == (IF Sound THEN Sns(requests) \o Sns(Unwritten) ELSE Sns(dqCommon)) \o Sns(workQueue)

(* What the server sends once it has executed them, each command in its turn: a topic
   some command subscribes to, or the connection is subscribed to already (a new one
   begins with nothing), and no later one unsubscribes from. *)
AfterPending ==
    LET seq == Pending
        Does(k, op, t) == CommandOf(seq[k]) = [op |-> op, topic |-> t]
        Undone(t, k) == \E l \in DOMAIN seq : l > k /\ Does(l, "UNSUBSCRIBE", t)
    IN  {t \in Topic :
            \/ \E k \in DOMAIN seq : Does(k, "SUBSCRIBE", t) /\ ~Undone(t, k)
            \/ Sound /\ t \in subs /\ ~Undone(t, 0)}

(* As long as no connection has been lost, the counters and the server agree: once it
   has executed what is on its way, it sends exactly the topics that some caller
   wants, whatever the order in which callers come and go. *)
CountersMatchServer == ~lost /\ ~done /\ (link => Sound) => AfterPending = Wanted

(* And at all times, whatever is lost and sent again, a topic nobody wants any more
   is not subscribed to in the end: resent commands undo one another in order. *)
NoGhostSubscription == ~done => AfterPending \subseteq Wanted

(* What the connection would have to read if there were no messages. *)
AnswersIn(s) == Selected(s, Positions(s, LAMBDA r : ~IsMessage(r)))

Answering == INSTANCE KjRedisClientConn WITH replies <- AnswersIn(replies)

(* While a link works, the answers under way, messages left out, and the commands
   not yet executed are in order what the committed pipelines wait for: a message
   in between is never counted as an answer. *)
AnswersMatchDeque == Answering!WireMatchesDeque

(* Messages are dispatched in the order the server sent them, each at most once and with
   its own topic, and only those are missing that were on their way when a connection
   was lost. *)
MessagesInOrder ==
    LET all == delivered \o trunkQueue \o replies
        ms  == {i \in DOMAIN all : IsMessage(all[i])}
    IN  /\ \A i \in ms : all[i].idx \in DOMAIN pushed /\ all[i].topic = pushed[all[i].idx]
        /\ \A i, j \in ms : i < j => all[i].idx < all[j].idx
        /\ ~lost => \A n \in DOMAIN pushed : \E i \in ms : all[i].idx = n

(* No callback is called twice for one message, or for an older one later: a name
   that is registered again replaces its callback. *)
HeardOnceInOrder ==
    \A i, j \in DOMAIN heard :
        i < j /\ heard[i].holder = heard[j].holder => heard[i].idx < heard[j].idx

(* Every command is answered in the end, unless the subscriber is shut down, even
   those the server refuses on a connection with subscriptions. *)
CommandsAnswered ==
    \A n \in 1 .. MaxCommits : (nextSn >= n) ~> (done \/ Len(completed) >= n)

(* A message the server has sent is dispatched in the end, unless the subscriber is
   shut down or the connection is lost under it. *)
MessagesDispatched ==
    \A n \in 1 .. MaxMessages :
        (Len(pushed) >= n)
            ~> (done \/ lost
                  \/ \E k \in DOMAIN delivered : IsMessage(delivered[k]) /\ delivered[k].idx = n)

(* What "Auto reconnect" should mean to a subscriber: when every command has been
   answered and the connection is up, the wanted topics are subscribed to.  It does
   not hold: OnClientConnect() sends again only what was not answered yet. *)
SubscriptionsKept == Sound /\ ~done /\ Pending = <<>> => Wanted \subseteq subs

=============================================================================
