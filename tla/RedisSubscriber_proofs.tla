----------------------- MODULE RedisSubscriber_proofs -----------------------
(***************************************************************************)
(* Proofs about the subscriber, for every set of topics and callbacks and  *)
(* every number of commands, messages and faults.                          *)
(*                                                                         *)
(* Connection and queues are the client's, and so are their steps, if one  *)
(* looks at the answers on the wire only: Cl is the client on those, its   *)
(* lemmas are cited for the steps they share, and what is proved here is   *)
(* what the messages in between and the subscriptions add.                 *)
(*   SubscriberTypes  the types of all but the server's subscriptions      *)
(*   SubscriberWire   what the client knows of requests and answers        *)
(*   MessageInv       the messages dispatched, queued and on the wire are  *)
(*                    in order, and complete up to a lost connection       *)
(*   HeardInv         a vector of callbacks holds a name once, and nobody  *)
(*                    has heard a message that is still under way          *)
(*   CommandOrder     the deque and the work queue hold the commands not   *)
(*                    yet answered, in order                               *)
(*   CounterInv       a counter is positive exactly if the last command    *)
(*                    about its topic subscribes                           *)
(*   SubsInv          what is subscribed to, the commands served so far    *)
(*                    leave subscribed; and the converse, as long as no    *)
(*                    connection was lost                                  *)
(* ServerInv is their conjunction without HeardInv.  The pending commands  *)
(* are then those after the ones served (PendingNumbers), and the last     *)
(* command about a topic decides (EndsAsWanted).                           *)
(***************************************************************************)
EXTENDS RedisSubscriber, CmdPipeline_proofs

(* The client as the subscriber runs it, on the answers alone: its lemmas hold of the
   subscriber's steps, whatever messages come in between. *)
Cl == INSTANCE RedisClient_proofs WITH replies <- AnswersIn(replies)

(* What the lemmas of the client ask of its parameters. *)
LEMMA Parameters ==
    /\ InitNum \in Nat
    /\ BuiltNums \subseteq Nat
    /\ Rejected \subseteq Nat \ {0}
    /\ MaxCommits \in Nat /\ MaxFaults \in Nat
    /\ MaxBuilt \in Nat \ {0}
    /\ EmptyCommits \in BOOLEAN
BY InitNumAssumption, BuiltNumsAssumption, RejectedAssumption, BoundsAssumption,
   MaxBuiltAssumption, EmptyCommitsAssumption

-----------------------------------------------------------------------------
(* Messages among answers and completions.                                  *)

Messages == [sn : {0}, idx : Nat, kind : {"message"}, topic : Topic]

Incoming == Reply \cup Messages
Outgoing == Completion \cup Messages

LEMMA Kinds ==
    /\ \A x \in Reply : ~IsMessage(x)
    /\ \A x \in Completion : ~IsMessage(x)
    /\ \A x \in Messages : IsMessage(x)
BY DEF Reply, Completion, Messages, IsMessage

LEMMA AnswersType ==
    ASSUME NEW s \in Seq(Incoming)
    PROVE  AnswersIn(s) \in Seq(Reply)
<1> DEFINE S == {i \in DOMAIN s : ~IsMessage(s[i])}
<1>1. AnswersIn(s) = Selected(s, S)
  BY DEF AnswersIn, Positions
<1>2. /\ Selected(s, S) \in Seq(Incoming)
      /\ \A k \in DOMAIN Selected(s, S) : \E i \in S : Selected(s, S)[k] = s[i]
  <2>1. S \in SUBSET DOMAIN s
    OBVIOUS
  <2> HIDE DEF S
  <2> QED
    BY <2>1, SelectedType, SelectedMembers
<1>3. \A i \in S : s[i] \in Reply
  BY Kinds DEF Incoming
<1>4. \A k \in DOMAIN Selected(s, S) : Selected(s, S)[k] \in Reply
  BY <1>2, <1>3
<1> HIDE DEF S
<1>5. PICK q \in Seq(Incoming) : q = Selected(s, S)
  BY <1>2
<1>6. q = [k \in 1 .. Len(q) |-> q[k]] /\ Len(q) \in Nat /\ \A k \in 1 .. Len(q) : q[k] \in Reply
  BY <1>4, <1>5
<1>7. q \in Seq(Reply)
  BY <1>6, IsASeq
<1> QED
  BY <1>1, <1>5, <1>7

LEMMA AnswersNone == AnswersIn(<<>>) = <<>>
<1> DEFINE S == {i \in DOMAIN << >> : ~IsMessage(<< >>[i])}
<1>1. S = {} /\ Cardinality(S) = 0
  <2>1. S = {}
    OBVIOUS
  <2> QED
    BY <2>1, FS_EmptySet
<1>2. AnswersIn(<<>>) = [k \in 1 .. Cardinality(S) |-> <<>>[CHOOSE i \in S : Rank(S, i) = k]]
  BY DEF AnswersIn, Positions, Selected
<1> QED
  BY <1>1, <1>2

LEMMA AnswersAppend ==
    ASSUME NEW s \in Seq(Incoming), NEW x \in Incoming
    PROVE  AnswersIn(Append(s, x)) = IF IsMessage(x) THEN AnswersIn(s)
                                                     ELSE Append(AnswersIn(s), x)
<1> DEFINE q == Append(s, x)
           S == {i \in DOMAIN s : ~IsMessage(s[i])}
           U == {i \in DOMAIN q : ~IsMessage(q[i])}
<1>1. AnswersIn(s) = Selected(s, S) /\ AnswersIn(q) = Selected(q, U)
  BY DEF AnswersIn, Positions
<1>2. /\ DOMAIN q = 1 .. (Len(s) + 1) /\ Len(s) \in Nat
      /\ DOMAIN s = 1 .. Len(s)
      /\ \A i \in 1 .. Len(s) : q[i] = s[i]
      /\ q[Len(s) + 1] = x
  BY AppendProperties
<1> HIDE DEF q
<1>3. CASE IsMessage(x)
  <2>1. U = S
    BY <1>2, <1>3
  <2>2. Selected(q, S) = Selected(s, S)
    BY SelectedWithout DEF q
  <2> QED
    BY <1>1, <1>3, <2>1, <2>2 DEF q
<1>4. CASE ~IsMessage(x)
  <2>1. U = S \cup {Len(s) + 1}
    BY <1>2, <1>4
  <2>2. Selected(q, S \cup {Len(s) + 1}) = Append(Selected(s, S), x)
    BY SelectedWith DEF q
  <2> QED
    BY <1>1, <1>4, <2>1, <2>2 DEF q
<1> QED
  BY <1>3, <1>4

LEMMA AnswersTail ==
    ASSUME NEW s \in Seq(Incoming), s # <<>>
    PROVE  /\ IsMessage(Head(s)) => AnswersIn(Tail(s)) = AnswersIn(s)
           /\ ~IsMessage(Head(s)) => /\ AnswersIn(s) # <<>>
                                     /\ Head(AnswersIn(s)) = Head(s)
                                     /\ Tail(AnswersIn(s)) = AnswersIn(Tail(s))
<1> DEFINE t == Tail(s)
           S == {i \in DOMAIN s : ~IsMessage(s[i])}
           R == {i \in DOMAIN t : ~IsMessage(t[i])}
<1>1. AnswersIn(s) = Selected(s, S) /\ AnswersIn(t) = Selected(t, R)
  BY DEF AnswersIn, Positions
<1>2. /\ t \in Seq(Incoming) /\ DOMAIN t = 1 .. (Len(s) - 1) /\ Head(s) = s[1]
      /\ DOMAIN s = 1 .. Len(s) /\ Len(s) \in Nat /\ 1 \in DOMAIN s
      /\ Head(s) \in Incoming
      /\ \A i \in 1 .. (Len(s) - 1) : t[i] = s[i + 1]
  BY HeadTailProperties, EmptySeq
<1> HIDE DEF t
<1>3. R = {i \in DOMAIN t : i + 1 \in S}
  BY <1>2
<1>4. /\ 1 \in S => Selected(s, S) = <<Head(s)>> \o Selected(t, R)
      /\ 1 \notin S => Selected(s, S) = Selected(t, R)
  <2>1. S \in SUBSET DOMAIN s
    OBVIOUS
  <2>2. R \in SUBSET DOMAIN Tail(s) /\ \A i \in DOMAIN Tail(s) : i \in R <=> i + 1 \in S
    BY <1>3 DEF t
  <2> HIDE DEF S, R
  <2>3. /\ 1 \in S => Selected(s, S) = <<Head(s)>> \o Selected(Tail(s), R)
        /\ 1 \notin S => Selected(s, S) = Selected(Tail(s), R)
    BY <2>1, <2>2, SelectedTail
  <2> QED
    BY <2>3 DEF t
<1>5. 1 \in S <=> ~IsMessage(Head(s))
  BY <1>2
<1> HIDE DEF S, R
<1>6. CASE ~IsMessage(Head(s))
  <2>1. PICK q \in Seq(Reply) : q = AnswersIn(t)
    BY <1>2, AnswersType
  <2>2. Head(s) \in Reply
    BY <1>2, <1>6, Kinds DEF Incoming
  <2>3. PICK x \in Reply : x = Head(s)
    BY <2>2
  <2>4. <<x>> \o q # <<>> /\ Head(<<x>> \o q) = x /\ Tail(<<x>> \o q) = q
    OBVIOUS
  <2> QED
    BY <1>1, <1>4, <1>5, <1>6, <2>1, <2>3, <2>4 DEF t
<1>7. CASE IsMessage(Head(s))
  BY <1>1, <1>4, <1>5, <1>7 DEF t
<1> QED
  BY <1>6, <1>7

LEMMA AnswersPrefixed ==
    ASSUME NEW s \in Seq(Incoming), NEW n \in 0 .. Len(s)
    PROVE  \E m \in 0 .. Len(AnswersIn(s)) :
              AnswersIn(SubSeq(s, 1, n)) = SubSeq(AnswersIn(s), 1, m)
<1> DEFINE t == SubSeq(s, 1, n)
           S == {i \in DOMAIN s : ~IsMessage(s[i])}
           R == {i \in DOMAIN t : ~IsMessage(t[i])}
<1>1. AnswersIn(s) = Selected(s, S) /\ AnswersIn(t) = Selected(t, R)
  BY DEF AnswersIn, Positions
<1>2. /\ DOMAIN t = 1 .. n /\ DOMAIN s = 1 .. Len(s) /\ Len(s) \in Nat /\ n \in Nat
      /\ \A i \in 1 .. n : t[i] = s[i]
  BY SubSeqProperties
<1> HIDE DEF t
<1>3. R = {i \in S : i <= n}
  BY <1>2
<1>4. /\ S \in SUBSET DOMAIN s
      /\ Len(Selected(s, S)) = Cardinality(S)
  BY SelectedType
<1> HIDE DEF S, R
<1>5. /\ Cardinality(R) \in 0 .. Cardinality(S)
      /\ Selected(t, R) = SubSeq(Selected(s, S), 1, Cardinality(R))
  BY <1>3, <1>4, SelectedPrefix DEF t
<1> QED
  BY <1>1, <1>4, <1>5 DEF t

-----------------------------------------------------------------------------
(* The steps of the subscriber as steps of the client.                      *)

LEMMA AnswersKept == UNCHANGED replies => AnswersIn(replies)' = AnswersIn(replies)
OBVIOUS

LEMMA CommitsAsClient ==
    ASSUME NEW call, CommitCommands(call, 1)
    PROVE  Cl!CommitCommands(call, 1)
<1>1. UNCHANGED AnswersIn(replies)
  BY AnswersKept DEF CommitCommands, connVars, serverVars
<1> QED
  BY <1>1 DEF CommitCommands, Cl!CommitCommands, connVars, Cl!connVars, serverVars, Cl!serverVars,
              delayVars, Cl!delayVars, tcpVars, Cl!tcpVars, trunkVars, Cl!trunkVars,
              AfterAdd, Cl!AfterAdd, CreateCmdPipeline, Cl!CreateCmdPipeline, QUEUEING, Cl!QUEUEING

LEMMA WritesAsClient ==
    ASSUME NEW dq, NEW open, NEW up, CommitWrites(dq, open, up)
    PROVE  Cl!CommitWrites(dq, open, up)
BY DEF CommitWrites, Cl!CommitWrites, RequestOf, Cl!RequestOf, Cardinality, Cl!Cardinality,
       Positions, Cl!Positions, IsSending, Cl!IsSending, SENDING, Cl!SENDING,
       Selected, Cl!Selected, Rank, Cl!Rank, Marked, Cl!Marked, COMMITTING, Cl!COMMITTING,
       Committed, Cl!Committed

LEMMA SendsAsClient ==
    ASSUME NEW batch, SendAndCommit(batch)
    PROVE  Cl!SendAndCommit(batch)
<1>1. UNCHANGED AnswersIn(replies)
  BY AnswersKept DEF SendAndCommit
<1>2. Sent(dqCommon, batch) = Cl!Sent(dqCommon, batch)
  BY DEF Sent, Cl!Sent, Marked, Cl!Marked, SENDING, Cl!SENDING
<1> QED
  BY <1>1, <1>2, WritesAsClient
     DEF SendAndCommit, Cl!SendAndCommit, delayVars, Cl!delayVars, tcpVars, Cl!tcpVars

LEMMA ConnectsAsClient == ConnectSucceeds => Cl!ConnectSucceeds
<1> SUFFICES ASSUME ConnectSucceeds PROVE Cl!ConnectSucceeds
  OBVIOUS
<1>1. UNCHANGED AnswersIn(replies)
  BY AnswersKept DEF ConnectSucceeds
<1>2. Resent(Rebuilt(dqInit, dqCommon)) = Cl!Resent(Cl!Rebuilt(Cl!dqInit, dqCommon))
  BY DEF Resent, Cl!Resent, Rebuilt, Cl!Rebuilt, dqInit, Cl!dqInit,
         CreateCmdPipeline, Cl!CreateCmdPipeline, QUEUEING, Cl!QUEUEING,
         Marked, Cl!Marked, SENDING, Cl!SENDING, Unfinished, Cl!Unfinished,
         PROCESS_OVER, Cl!PROCESS_OVER, Positions, Cl!Positions, Selected, Cl!Selected,
         Rank, Cl!Rank, Cardinality, Cl!Cardinality
<1>3. CommitWrites(Resent(Rebuilt(dqInit, dqCommon)), TRUE, link')
  BY DEF ConnectSucceeds
<1>4. Cl!CommitWrites(Cl!Resent(Cl!Rebuilt(Cl!dqInit, dqCommon)), TRUE, link')
  BY <1>2, <1>3, WritesAsClient
<1> QED
  BY <1>1, <1>4 DEF ConnectSucceeds, Cl!ConnectSucceeds, Fault, Cl!Fault, delayVars, Cl!delayVars

LEMMA TimerAsClient == CommitLoopTimer => Cl!CommitLoopTimer
<1> SUFFICES ASSUME CommitLoopTimer PROVE Cl!CommitLoopTimer
  OBVIOUS
<1>1. UNCHANGED AnswersIn(replies)
  BY AnswersKept DEF CommitLoopTimer
<1> QED
  BY <1>1, WritesAsClient DEF CommitLoopTimer, Cl!CommitLoopTimer, delayVars, Cl!delayVars,
                              tcpVars, Cl!tcpVars

LEMMA LoopAsClient ==
    OnClientConnect \/ CommitLoop \/ ReadFails \/ TaskFailed \/ ReconnectTimer => Cl!ConnProgress
<1>1. CASE OnClientConnect
  BY <1>1, ConnectsAsClient DEF OnClientConnect, Cl!ConnProgress, Cl!LoopStep
<1>2. CASE CommitLoop
  BY <1>2, TimerAsClient DEF CommitLoop, Cl!ConnProgress, Cl!LoopStep
<1>3. CASE ReadFails
  <2>1. UNCHANGED AnswersIn(replies) /\ AnswersIn(replies) = <<>>
    BY <1>3, AnswersKept, AnswersNone DEF ReadFails
  <2>2. Cl!ReadFails
    BY <1>3, <2>1 DEF ReadFails, Cl!ReadFails, ReadTaskThrows, Cl!ReadTaskThrows,
                      receiveFrame, Cl!receiveFrame, delayVars, Cl!delayVars, tcpVars, Cl!tcpVars
  <2> QED
    BY <2>2 DEF Cl!ConnProgress, Cl!LoopStep
<1>4. CASE TaskFailed
  <2>1. AnswersIn(replies)' = <<>>
    BY <1>4, AnswersNone DEF TaskFailed, ResetAfterFailure, BuilderReset
  <2>2. Cl!ResetAfterFailure
    BY <1>4, <2>1 DEF TaskFailed, ResetAfterFailure, Cl!ResetAfterFailure, Cl!BuilderReset,
                      Marked, Cl!Marked, QUEUEING, Cl!QUEUEING, DelayReconnect, Cl!DelayReconnect
  <2> QED
    BY <2>2 DEF Cl!ConnProgress, Cl!LoopStep
<1>5. CASE ReconnectTimer
  <2>1. UNCHANGED AnswersIn(replies)
    BY <1>5, AnswersKept DEF ReconnectTimer, DelayElapsed, serverVars
  <2>2. Cl!DelayElapsed
    BY <1>5, <2>1 DEF ReconnectTimer, DelayElapsed, Cl!DelayElapsed, FlagCleared, Cl!FlagCleared,
                      serverVars, Cl!serverVars
  <2> QED
    BY <2>2 DEF Cl!ConnProgress, Cl!LoopStep
<1> QED
  BY <1>1, <1>2, <1>3, <1>4, <1>5

LEMMA ReceivesAsClient ==
    ASSUME replies \in Seq(Incoming), HasReply, ~IsMessage(Head(replies)), OnClientReceive
    PROVE  Cl!OnClientReceive
<1>1. replies' = Tail(replies)
  BY DEF OnClientReceive, ReceiveError, ReceiveUnexpected, ReceiveNonTail, ReceiveBadSha,
         ReceiveTail
<1>2. /\ AnswersIn(replies) # <<>> /\ Head(AnswersIn(replies)) = Head(replies)
      /\ Tail(AnswersIn(replies)) = AnswersIn(replies)'
  <2>1. replies # <<>>
    BY DEF HasReply
  <2>2. PICK s \in Seq(Incoming) : s = replies
    OBVIOUS
  <2>3. AnswersIn(replies)' = AnswersIn(Tail(s))
    BY <1>1, <2>2
  <2> QED
    BY <2>1, <2>2, <2>3, AnswersTail
<1>3. Cl!HasReply
  BY <1>2 DEF HasReply, Cl!HasReply
<1> QED
  BY <1>1, <1>2, <1>3
     DEF OnClientReceive, ReceiveError, ReceiveUnexpected, ReceiveNonTail, ReceiveBadSha,
     ReceiveTail,
         Cl!OnClientReceive, Cl!ReceiveError, Cl!ReceiveUnexpected, Cl!ReceiveNonTail,
         Cl!ReceiveBadSha, Cl!ReceiveTail, ReadTaskThrows, Cl!ReadTaskThrows,
         IsExpected, Cl!IsExpected, IsTail, Cl!IsTail, Counted, Cl!Counted, IsRefused, Cl!IsRefused,
         CompletionOf, Cl!CompletionOf, COMMITTING, Cl!COMMITTING, PROCESSING, Cl!PROCESSING,
         receiveFrame, Cl!receiveFrame, delayVars, Cl!delayVars, tcpVars, Cl!tcpVars

LEMMA FaultsAsClient ==
    ASSUME replies \in Seq(Incoming), ConnFault
    PROVE  Cl!ConnFault
<1>1. CASE ConnectThenReadThrows \/ ConnectFails
  <2>1. UNCHANGED AnswersIn(replies)
    BY <1>1, AnswersKept DEF ConnectThenReadThrows, ConnectFails, serverVars
  <2> QED
    BY <1>1, <2>1 DEF ConnectThenReadThrows, ConnectFails, Cl!ConnectThenReadThrows,
                      Cl!ConnectFails,
                      Cl!ConnFault, Fault, Cl!Fault, delayVars, Cl!delayVars,
                      serverVars, Cl!serverVars
<1>2. CASE LoseLink
  <2>1. PICK n \in 0 .. Len(replies) : replies' = SubSeq(replies, 1, n)
    BY <1>2 DEF LoseLink
  <2>2. \E m \in 0 .. Len(AnswersIn(replies)) :
           AnswersIn(SubSeq(replies, 1, n)) = SubSeq(AnswersIn(replies), 1, m)
    <3>1. PICK s \in Seq(Incoming) : s = replies
      OBVIOUS
    <3>2. PICK k \in 0 .. Len(s) : k = n
      BY <3>1
    <3> QED
      BY <3>1, <3>2, AnswersPrefixed
  <2>3. AnswersIn(replies)' = AnswersIn(SubSeq(replies, 1, n))
    BY <2>1
  <2>4. \E m \in 0 .. Len(AnswersIn(replies)) : AnswersIn(replies)' = SubSeq(AnswersIn(replies), 1, m)
    BY <2>2, <2>3
  <2>5. Cl!LoseLink
    BY <1>2, <2>4 DEF LoseLink, Cl!LoseLink, Fault, Cl!Fault, delayVars, Cl!delayVars,
                      tcpVars, Cl!tcpVars
  <2> QED
    BY <2>5 DEF Cl!ConnFault
<1> QED
  BY <1>1, <1>2 DEF ConnFault

-----------------------------------------------------------------------------
(* Registered names.                                                        *)

Distinct(s) == \A i, j \in DOMAIN s : s[i] = s[j] => i = j

(* One of some positions is the first. *)
LEMMA FirstPosition ==
    ASSUME NEW n \in Nat, NEW S \in SUBSET (1 .. n), S # {}
    PROVE  \E i \in S : \A j \in S : i <= j
<1>1. /\ IsFiniteSet(S) /\ Cardinality(S) \in Nat
      /\ \A i \in S : Rank(S, i) \in 1 .. Cardinality(S)
      /\ \A i, j \in S : Rank(S, i) = Rank(S, j) => i = j
  BY RankIsInto
<1>2. 1 \in 1 .. Cardinality(S)
  <2>1. PICK x \in S : TRUE
    OBVIOUS
  <2>2. PICK r \in 1 .. Cardinality(S) : r = Rank(S, x)
    BY <1>1, <2>1
  <2> QED
    BY <1>1, <2>2
<1>3. PICK i \in S : Rank(S, i) = 1
  BY <1>2, RankIsOnto
<1>4. ASSUME NEW j \in S, j < i PROVE FALSE
  <2>1. {k \in S : k <= j} \subseteq {k \in S : k <= i}
    <3>1. i \in Int /\ j \in Int /\ j <= i /\ \A k \in S : k \in Int
      BY <1>4
    <3>2. \A k \in Int : k <= j => k <= i
      BY <3>1
    <3> QED
      BY <3>1, <3>2
  <2>2. IsFiniteSet({k \in S : k <= i})
    BY <1>1, FS_Subset
  <2>3. Cardinality({k \in S : k <= j}) <= Cardinality({k \in S : k <= i})
    BY <2>1, <2>2, FS_Subset
  <2>4. Rank(S, j) <= 1
    BY <1>3, <2>3 DEF Rank
  <2>5. Rank(S, j) = 1
    BY <1>1, <2>4
  <2>6. j = i
    BY <1>1, <1>3, <2>5
  <2> QED
    BY <1>4, <2>6
<1>5. \A j \in S : j \in Int /\ i \in Int
  OBVIOUS
<1> QED
  BY <1>4, <1>5

(* RemoveFirst() leaves the other names as they are. *)
LEMMA RemovedOnce ==
    ASSUME NEW T, NEW s \in Seq(T), NEW e
    PROVE  /\ RemoveFirst(s, e) \in Seq(T)
           /\ Distinct(s) => Distinct(RemoveFirst(s, e))
<1>1. CASE ~ \E i \in 1 .. Len(s) : s[i] = e
  BY <1>1 DEF RemoveFirst
<1>2. CASE \E i \in 1 .. Len(s) : s[i] = e
  <2> DEFINE I == {i \in 1 .. Len(s) : s[i] = e}
  <2>1. RemoveFirst(s, e) = RemoveAt(s, Min(I))
    BY <1>2 DEF RemoveFirst, SelectInSeq
  <2>2. Min(I) \in 1 .. Len(s)
    <3>1. PICK n \in Nat : n = Len(s)
      OBVIOUS
    <3>2. I \in SUBSET (1 .. n) /\ I # {}
      BY <1>2, <3>1
    <3> HIDE DEF I
    <3>3. \E i \in I : \A j \in I : i <= j
      BY <3>2, FirstPosition
    <3>4. Min(I) \in I
      BY <3>3 DEF Min
    <3> QED
      BY <3>1, <3>2, <3>4
  <2>3. PICK m \in 1 .. Len(s) : m = Min(I)
    BY <2>2
  <2> DEFINE a == SubSeq(s, 1, m - 1)
             b == SubSeq(s, m + 1, Len(s))
  <2>4. /\ a \in Seq(T) /\ Len(a) = m - 1 /\ \A k \in 1 .. (m - 1) : a[k] = s[k]
        /\ b \in Seq(T) /\ Len(b) = Len(s) - m /\ \A k \in 1 .. (Len(s) - m) : b[k] = s[m + k]
        /\ Len(s) \in Nat /\ DOMAIN s = 1 .. Len(s)
    <3>1. /\ a \in Seq(T) /\ Len(a) = m - 1 /\ \A k \in 1 .. (m - 1) : a[k] = s[k]
      BY SubSeqProperties
    <3>2. b \in Seq(T) /\ Len(b) = Len(s) - m
      BY SubSeqProperties
    <3>3. \A k \in 1 .. (Len(s) - m) : b[k] = s[m + k]
      OBVIOUS
    <3> QED
      BY <3>1, <3>2, <3>3
  <2> HIDE DEF a, b, I
  <2> DEFINE q == a \o b
  <2>5. /\ q \in Seq(T) /\ Len(q) = Len(s) - 1
        /\ \A k \in 1 .. (Len(s) - 1) : q[k] = s[IF k < m THEN k ELSE k + 1]
    <3>1. /\ q \in Seq(T) /\ Len(q) = Len(a) + Len(b)
          /\ \A k \in 1 .. (Len(a) + Len(b)) : q[k] = IF k <= Len(a) THEN a[k] ELSE b[k - Len(a)]
      BY <2>4, ConcatProperties
    <3> HIDE DEF q
    <3>2. ASSUME NEW k \in 1 .. (Len(s) - 1) PROVE q[k] = s[IF k < m THEN k ELSE k + 1]
      <4>1. CASE k < m
        <5>1. k <= Len(a) /\ k \in 1 .. (m - 1) /\ k \in 1 .. (Len(a) + Len(b))
          BY <2>4, <4>1
        <5>2. q[k] = a[k] /\ a[k] = s[k]
          BY <2>4, <3>1, <5>1
        <5> QED
          BY <4>1, <5>2
      <4>2. CASE k >= m
        <5>1. ~(k <= Len(a)) /\ k - Len(a) \in 1 .. (Len(s) - m) /\ m + (k - Len(a)) = k + 1
              /\ k \in 1 .. (Len(a) + Len(b)) /\ ~(k < m)
          BY <2>4, <4>2
        <5>2. q[k] = b[k - Len(a)] /\ b[k - Len(a)] = s[k + 1]
          BY <2>4, <3>1, <5>1
        <5> QED
          BY <5>1, <5>2
      <4>3. k < m \/ k >= m
        <5>1. k \in Int /\ m \in Int
          BY <2>4
        <5> QED
          BY <5>1
      <4> QED
        BY <4>1, <4>2, <4>3
    <3> QED
      BY <2>4, <3>1, <3>2
  <2>6. RemoveFirst(s, e) = q
    BY <2>1, <2>3 DEF RemoveAt, a, b
  <2> HIDE DEF q
  <2>7. ASSUME Distinct(s), NEW i \in 1 .. (Len(s) - 1), NEW j \in 1 .. (Len(s) - 1), q[i] = q[j]
        PROVE  i = j
    <3>1. PICK x \in 1 .. Len(s) : x = (IF i < m THEN i ELSE i + 1)
      BY <2>4
    <3>2. PICK y \in 1 .. Len(s) : y = (IF j < m THEN j ELSE j + 1)
      BY <2>4
    <3>3. s[x] = s[y]
      BY <2>5, <2>7, <3>1, <3>2
    <3>4. x = y
      BY <2>4, <2>7, <3>3 DEF Distinct
    <3> QED
      BY <2>4, <3>1, <3>2, <3>4
  <2>8. DOMAIN q = 1 .. (Len(s) - 1)
    BY <2>5
  <2> QED
    BY <2>5, <2>6, <2>7, <2>8 DEF Distinct
<1> QED
  BY <1>1, <1>2

-----------------------------------------------------------------------------
(* Types.                                                                   *)

Commands == [op : Op, topic : Topic]

SubscriberTypes ==
    /\ Cl!TypeOK
    /\ replies \in Seq(Incoming)
    /\ trunkQueue \in Seq(Outgoing) /\ delivered \in Seq(Outgoing)
    /\ promised \in Seq(Completion)
    /\ workQueue \in Seq(Pipeline)
    /\ done \in BOOLEAN
    /\ counter \in [Topic -> -MaxCount .. MaxCount] /\ \A c \in Channel : counter[c] >= 0
    /\ holders \in [{"channel", "pattern"} -> Seq(Holder)]
    /\ cmds \in Seq(Commands) /\ Len(cmds) = nextSn
    /\ heard \in Seq([holder : Holder, idx : Nat])
    /\ pushed \in Seq(Topic)
    /\ lost \in BOOLEAN

LEMMA SetsAsClient ==
    /\ Cl!Pipeline = Pipeline /\ Cl!Reply = Reply /\ Cl!Completion = Completion
    /\ Cl!Request = Request
BY DEF Pipeline, Cl!Pipeline, PipelineState, Cl!PipelineState, QUEUEING, Cl!QUEUEING,
       PROCESS_OVER, Cl!PROCESS_OVER, Reply, Cl!Reply, ReplyKind, Cl!ReplyKind,
       Completion, Cl!Completion, Request, Cl!Request

(* The server numbers the messages. *)
LEMMA PushedMessage ==
    ASSUME pushed \in Seq(Topic), NEW topic \in Topic, ServerPushes(topic)
    PROVE  \E y \in Messages :
              /\ y.idx = Len(pushed) + 1 /\ y.topic = topic
              /\ replies' = Append(replies, y)
<1>1. pushed' = Append(pushed, topic) /\ replies' = Append(replies, Message(topic, Len(pushed')))
  BY DEF ServerPushes
<1>2. Len(pushed') = Len(pushed) + 1 /\ Len(pushed) \in Nat
  BY <1>1
<1>3. PICK n \in Nat : n = Len(pushed')
  BY <1>2
<1>4. Message(topic, n) \in Messages /\ Message(topic, n).idx = n /\ Message(topic, n).topic = topic
  BY DEF Message, Messages
<1> QED
  BY <1>1, <1>2, <1>3, <1>4

(* Every step is to the connection one of the client, or none, but for the server's. *)
LEMMA ConnSteps ==
    ASSUME replies \in Seq(Incoming), pushed \in Seq(Topic), [SubscriberNext]_allVars
    PROVE  \/ UNCHANGED Cl!connVars
           \/ Cl!SendAndCommit(workQueue) /\ ReadPipe
           \/ (Cl!ConnProgress \/ Cl!ConnFault) /\ UNCHANGED <<workQueue, nextSn>>
           \/ ServerAnswers
<1> DEFINE Quiet == UNCHANGED Cl!connVars
<1>1. ASSUME UNCHANGED connVars PROVE Quiet
  <2>1. UNCHANGED AnswersIn(replies)
    BY <1>1, AnswersKept DEF connVars, serverVars
  <2> QED
    BY <1>1, <2>1 DEF connVars, Cl!connVars, serverVars, Cl!serverVars, delayVars, Cl!delayVars,
                      tcpVars, Cl!tcpVars
<1>2. CASE Ask \/ DispatchOne \/ CallGoesOn \/ ShutdownBegins \/ Quits \/ UNCHANGED allVars
  <2>1. UNCHANGED connVars
    BY <1>2 DEF Ask, Subscribe, Unsubscribe, Psubscribe, Punsubscribe, Publish, Pubsub, CommitOne,
                CommitCommands, NothingCommitted, clientVars, AddMessageCb, RemoveMessageCb,
                DispatchOne, RunOnce, CallGoesOn, Notify, BlockingCommitReturns, ShutdownReturns,
                ShutdownBegins, Shutdown, Quits, WorkerQuits, allVars
  <2> QED
    BY <1>1, <2>1
<1>3. CASE ReadPipeAndCommit
  <2>1. ReadPipe
    BY <1>3 DEF ReadPipeAndCommit
  <2>2. CASE workQueue = <<>>
    BY <1>1, <2>1, <2>2 DEF ReadPipe
  <2>3. CASE workQueue # <<>>
    BY <2>1, <2>3, SendsAsClient DEF ReadPipe
  <2> QED
    BY <2>2, <2>3
<1>4. CASE LoopRuns
  <2>1. UNCHANGED <<workQueue, nextSn>>
    BY <1>4 DEF LoopRuns, quietWorker, queueVars, OnClientConnect, ConnectSucceeds, CommitLoop,
                CommitLoopTimer, ReadFails, receiveFrame, TaskFailed, ResetAfterFailure,
                ReconnectTimer, DelayElapsed
  <2> QED
    BY <1>4, <2>1, LoopAsClient DEF LoopRuns
<1>5. CASE ReceiveReply
  <2>1. UNCHANGED <<workQueue, nextSn>>
    BY <1>5 DEF ReceiveReply, quietWorker, queueVars, OnClientReceive, ReceiveError,
                ReceiveUnexpected,
                ReceiveNonTail, ReceiveBadSha, ReceiveTail, receiveFrame
  <2>2. Cl!OnClientReceive
    BY <1>5, ReceivesAsClient DEF ReceiveReply
  <2> QED
    BY <2>1, <2>2 DEF Cl!ConnProgress
<1>6. CASE ReceiveMessage
  <2>1. AnswersIn(replies)' = AnswersIn(replies)
    <3>1. PICK s \in Seq(Incoming) : s = replies
      OBVIOUS
    <3>2. s # <<>> /\ IsMessage(Head(s)) /\ replies' = Tail(s)
      BY <1>6, <3>1 DEF ReceiveMessage, MessageRead, HasReply
    <3>3. AnswersIn(replies)' = AnswersIn(Tail(s))
      BY <3>2
    <3> QED
      BY <3>1, <3>2, <3>3, AnswersTail
  <2> QED
    BY <1>6, <2>1 DEF ReceiveMessage, MessageRead, receiveFrame, delayVars, Cl!delayVars,
                      tcpVars, Cl!tcpVars, Cl!connVars, Cl!serverVars
<1>7. CASE ConnectionFault
  <2>1. UNCHANGED <<workQueue, nextSn>>
    BY <1>7 DEF ConnectionFault, quietWorker, queueVars, ConnFault, ConnectThenReadThrows,
                ConnectFails, LoseLink
  <2> QED
    BY <1>7, <2>1, FaultsAsClient DEF ConnectionFault
<1>8. ASSUME NEW topic \in Topic, ServerPushes(topic) PROVE Quiet
  <2>1. PICK s \in Seq(Incoming) : s = replies
    OBVIOUS
  <2>2. PICK y \in Messages : replies' = Append(s, y)
    BY <1>8, <2>1, PushedMessage
  <2>3. y \in Incoming /\ IsMessage(y)
    BY Kinds DEF Incoming
  <2>4. AnswersIn(replies)' = AnswersIn(Append(s, y))
    BY <2>2
  <2>5. AnswersIn(replies)' = AnswersIn(replies)
    BY <2>1, <2>3, <2>4, AnswersAppend
  <2> QED
    BY <1>8, <2>5 DEF ServerPushes, delayVars, Cl!delayVars, tcpVars, Cl!tcpVars, Cl!connVars,
                      Cl!serverVars
<1> QED
  BY <1>2, <1>3, <1>4, <1>5, <1>6, <1>7, <1>8 DEF SubscriberNext, WorkerRuns

(* The server answers one command with one reply. *)
LEMMA OneAnswer ==
    ASSUME Cl!TypeOK, replies \in Seq(Incoming), ServerAnswers
    PROVE  \E x \in Reply :
              /\ x.sn = Head(requests).sn /\ x.idx = 1 /\ x.kind \in {"ok", "error"}
              /\ replies' = Append(replies, x)
              /\ AnswersIn(replies)' = Append(AnswersIn(replies), x)
<1>1. requests # <<>> /\ requests \in Seq(Request)
  BY SetsAsClient DEF ServerAnswers, Cl!TypeOK
<1>2. PICK kind \in {"ok", "error"} : replies' = Append(replies, [sn |-> Head(requests).sn, idx |-> 1, kind |-> kind])
  BY DEF ServerAnswers, Answer
<1>3. Head(requests) \in Request
  BY <1>1, HeadTailProperties
<1>4. PICK x \in Reply : x = [sn |-> Head(requests).sn, idx |-> 1, kind |-> kind]
  BY <1>2, <1>3 DEF Request, Reply, ReplyKind
<1>5. PICK s \in Seq(Incoming) : s = replies
  OBVIOUS
<1>6. x \in Incoming /\ ~IsMessage(x)
  BY Kinds DEF Incoming
<1>7. AnswersIn(replies)' = AnswersIn(Append(s, x))
  BY <1>2, <1>4, <1>5
<1>8. AnswersIn(replies)' = Append(AnswersIn(replies), x)
  BY <1>5, <1>6, <1>7, AnswersAppend
<1> QED
  BY <1>2, <1>4, <1>8

LEMMA SubscriberConnType ==
    ASSUME SubscriberTypes, [SubscriberNext]_allVars, nextSn' \in Nat
    PROVE  Cl!TypeOK'
<1>1. Cl!TypeOK /\ replies \in Seq(Incoming) /\ pushed \in Seq(Topic) /\ workQueue \in Seq(Cl!Pipeline)
  BY SetsAsClient DEF SubscriberTypes
<1>2. CASE UNCHANGED Cl!connVars
  BY <1>1, <1>2 DEF Cl!TypeOK, Cl!connVars, Cl!delayVars, Cl!tcpVars, Cl!serverVars
<1>3. CASE Cl!SendAndCommit(workQueue)
  BY <1>1, <1>3, Parameters, Cl!SendAndCommitType
<1>4. CASE (Cl!ConnProgress \/ Cl!ConnFault) /\ nextSn' = nextSn
  <2>1. Cl!Next
    BY <1>4 DEF Cl!Next
  <2> QED
    BY <1>1, <2>1, Parameters, Cl!TypeNext
<1>5. CASE ServerAnswers
  <2>1. PICK x \in Reply : AnswersIn(replies)' = Append(AnswersIn(replies), x)
    BY <1>1, <1>5, OneAnswer
  <2>2. AnswersIn(replies)' \in Seq(Cl!Reply)
    <3>1. PICK q \in Seq(Cl!Reply) : q = AnswersIn(replies)
      BY <1>1 DEF Cl!TypeOK
    <3> QED
      BY <2>1, <3>1, SetsAsClient, AppendProperties
  <2>3. requests' \in Seq(Cl!Request)
    <3>1. requests \in Seq(Cl!Request) /\ requests # <<>> /\ requests' = Tail(requests)
      BY <1>1, <1>5 DEF Cl!TypeOK, ServerAnswers
    <3> QED
      BY <3>1, HeadTailProperties
  <2>4. faults' \in Nat
    BY <1>1, <1>5 DEF Cl!TypeOK, ServerAnswers, Fault
  <2> QED
    BY <1>1, <1>5, <2>2, <2>3, <2>4 DEF Cl!TypeOK, ServerAnswers, delayVars, tcpVars, mainVars
<1> QED
  BY <1>1, <1>2, <1>3, <1>4, <1>5, ConnSteps

(* The wire of the subscriber, messages left out, is that of a client whose pipelines
   are of one command each. *)
SubscriberWire == Cl!TaskInv /\ Cl!SingleInv /\ Cl!FreshSingle(workQueue)

LEMMA AnswersOnWire ==
    ASSUME Cl!TypeOK, replies \in Seq(Incoming), Cl!SingleInv, ServerAnswers
    PROVE  Cl!SingleInv'
<1>1. PICK x \in Reply : /\ x.sn = Head(requests).sn /\ x.idx = 1 /\ x.kind \in {"ok", "error"}
                         /\ AnswersIn(replies)' = Append(AnswersIn(replies), x)
  BY OneAnswer
<1>2. PICK rps \in Seq(Cl!Reply) : rps = AnswersIn(replies)
  BY DEF Cl!TypeOK
<1>3. /\ link /\ requests # <<>> /\ requests' = Tail(requests)
      /\ UNCHANGED <<dqCommon, connectTask, delayTasks, readTask, link, bConnected, stream,
                     completed, bDelayReconnecting>>
  BY DEF ServerAnswers, delayVars, tcpVars
<1>4. x = [sn |-> Head(requests).sn, idx |-> 1, kind |-> x.kind] /\ x.kind \in Cl!ReplyKind
  BY <1>1 DEF Reply, Cl!ReplyKind
<1>5. Cl!OnlyOwnRefused'
  <2>1. \A k \in DOMAIN rps : rps[k].kind = "badsha" => rps[k].sn = 0
    BY <1>2 DEF Cl!SingleInv, Cl!OnlyOwnRefused
  <2>2. \A k \in DOMAIN Append(rps, x) :
            Append(rps, x)[k].kind = "badsha" => Append(rps, x)[k].sn = 0
    BY <1>1, <2>1
  <2> QED
    BY <1>1, <1>2, <2>2 DEF Cl!OnlyOwnRefused
<1>6. CASE readTask
  <2>1. Cl!Answers(rps, dqCommon) /\ Cl!Awaits(dqCommon, requests, Len(rps)) /\ Cl!AllSingle(dqCommon)
    BY <1>2, <1>3, <1>6 DEF Cl!SingleInv, Cl!RepliesMatch, Cl!RequestsMatch
  <2>2. /\ Cl!Answers(Append(rps, x), dqCommon)
        /\ Cl!Awaits(dqCommon, Tail(requests), Len(rps) + 1)
    <3>1. dqCommon \in Seq(Cl!Pipeline) /\ requests \in Seq(Cl!Request)
      BY DEF Cl!TypeOK
    <3>2. PICK kind \in Cl!ReplyKind : kind = x.kind
      BY <1>4
    <3>3. /\ Cl!Answers(Append(rps, [sn |-> Head(requests).sn, idx |-> 1, kind |-> kind]), dqCommon)
          /\ Cl!Awaits(dqCommon, Tail(requests), Len(rps) + 1)
      BY <1>3, <2>1, <3>1, Parameters, Cl!NextIsServed
    <3> QED
      BY <1>4, <3>2, <3>3
  <2>3. Len(Append(rps, x)) = Len(rps) + 1
    BY <1>2
  <2>4. Cl!RepliesMatch' /\ Cl!RequestsMatch'
    BY <1>1, <1>2, <1>3, <2>2, <2>3 DEF Cl!RepliesMatch, Cl!RequestsMatch
  <2> QED
    BY <1>3, <1>5, <2>4 DEF Cl!SingleInv, Cl!LinkIsOpen, Cl!NothingUnderWay, Cl!TailReplyDelivered
<1>7. CASE ~readTask
  <2>1. Cl!RepliesMatch' /\ Cl!RequestsMatch'
    BY <1>3, <1>7 DEF Cl!RepliesMatch, Cl!RequestsMatch
  <2> QED
    BY <1>3, <1>5, <2>1 DEF Cl!SingleInv, Cl!LinkIsOpen, Cl!NothingUnderWay, Cl!TailReplyDelivered
<1> QED
  BY <1>6, <1>7

LEMMA CommitOneTypes ==
    ASSUME SubscriberTypes, NEW call, NEW op \in Op, NEW topic \in Topic, CommitOne(call, op, topic)
    PROVE  /\ nextSn' \in Nat /\ nextSn' = nextSn + 1
           /\ workQueue' \in Seq(Pipeline)
           /\ cmds' \in Seq(Commands) /\ Len(cmds') = nextSn'
           /\ cmds' = Append(cmds, [op |-> op, topic |-> topic])
           /\ UNCHANGED <<replies, trunkQueue, delivered, promised, done>>
<1>1. /\ workQueue \in Seq(Cl!Pipeline) /\ nextSn \in Nat /\ cmds \in Seq(Commands) /\ Len(cmds) = nextSn
  BY SetsAsClient DEF SubscriberTypes, Cl!TypeOK
<1>2. CommitCommands(call, 1) /\ cmds' = Append(cmds, [op |-> op, topic |-> topic])
  BY DEF CommitOne
<1>3. workQueue' \in Seq(Cl!Pipeline)
  BY <1>1, <1>2, CommitsAsClient, Parameters, Cl!CommitsPipeline
<1>4. [op |-> op, topic |-> topic] \in Commands
  BY DEF Commands
<1>5. cmds' \in Seq(Commands) /\ Len(cmds') = nextSn + 1
  BY <1>1, <1>2, <1>4, AppendProperties
<1>6. /\ nextSn' = nextSn + 1
      /\ UNCHANGED <<replies, trunkQueue, delivered, promised, done>>
  BY <1>2 DEF CommitCommands, connVars, serverVars, trunkVars
<1> QED
  BY <1>1, <1>2, <1>3, <1>5, <1>6, SetsAsClient

(* A command whose topic is a channel or a pattern changes its counter by one, and stays
   within the bounds. *)
LEMMA AskTypes ==
    ASSUME SubscriberTypes, Ask
    PROVE  SubscriberTypes'
<1> DEFINE CounterOK == counter' \in [Topic -> -MaxCount .. MaxCount] /\ \A c \in Channel : counter'[c] >= 0
           Committing == \E call \in Call, op \in Op, topic \in Topic : CommitOne(call, op, topic)
<1>1. /\ counter \in [Topic -> -MaxCount .. MaxCount] /\ MaxCount \in Nat
      /\ \A c \in Channel : counter[c] >= 0
      /\ Channel \subseteq Topic /\ Pattern \subseteq Topic /\ Channel \cap Pattern = {}
  BY SubscriberBounds, TopicAssumption DEF SubscriberTypes, Topic
<1>2. ASSUME NEW t \in Topic, NEW n \in -MaxCount .. MaxCount, t \in Channel => n >= 0, CountIs(t, n)
      PROVE  CounterOK
  BY <1>1, <1>2 DEF CountIs
<1>3. ASSUME Committing, CounterOK, UNCHANGED <<holders, heard, pushed, lost>>
      PROVE  SubscriberTypes'
  <2>1. PICK call \in Call, op \in Op, topic \in Topic : CommitOne(call, op, topic)
    BY <1>3
  <2>2. /\ nextSn' \in Nat
        /\ workQueue' \in Seq(Pipeline)
        /\ cmds' \in Seq(Commands) /\ Len(cmds') = nextSn'
        /\ UNCHANGED <<replies, trunkQueue, delivered, promised, done>>
    BY <2>1, CommitOneTypes
  <2>3. Cl!CommitCommands(call, 1)
    BY <2>1, CommitsAsClient DEF CommitOne
  <2>4. Cl!TypeOK'
    <3>1. UNCHANGED Cl!connVars /\ Cl!TypeOK
      BY <2>3 DEF Cl!CommitCommands, SubscriberTypes
    <3> QED
      BY <2>2, <3>1 DEF Cl!TypeOK, Cl!connVars, Cl!delayVars, Cl!tcpVars, Cl!serverVars
  <2> QED
    BY <1>3, <2>2, <2>4 DEF SubscriberTypes
<1>4. ASSUME UNCHANGED <<clientVars, cmds, heard, pushed, lost>>, CounterOK,
             holders' \in [{"channel", "pattern"} -> Seq(Holder)]
      PROVE  SubscriberTypes'
  <2>1. UNCHANGED <<replies, trunkQueue, delivered, promised, done, workQueue, nextSn, connVars>>
    BY <1>4 DEF clientVars, connVars, serverVars, mainVars, queueVars, trunkVars
  <2>2. UNCHANGED AnswersIn(replies)
    BY <2>1, AnswersKept
  <2>3. Cl!TypeOK'
    BY <2>1, <2>2 DEF SubscriberTypes, Cl!TypeOK, connVars, delayVars, tcpVars, serverVars
  <2> QED
    BY <1>4, <2>1, <2>3 DEF SubscriberTypes
<1>5. holders \in [{"channel", "pattern"} -> Seq(Holder)]
  BY DEF SubscriberTypes
<1>6. ASSUME NEW c \in Channel, Subscribe(c) \/ Unsubscribe(c) PROVE SubscriberTypes'
  <2>1. c \in Topic /\ counter[c] \in -MaxCount .. MaxCount /\ counter[c] >= 0
    BY <1>1
  <2>2. CounterOK
    <3>1. \E n \in -MaxCount .. MaxCount : n >= 0 /\ CountIs(c, n)
      BY <1>1, <1>6, <2>1 DEF Subscribe, Unsubscribe
    <3> QED
      BY <1>2, <2>1, <3>1
  <2>3. Committing \/ UNCHANGED <<clientVars, cmds>>
    BY <1>6, <2>1 DEF Subscribe, Unsubscribe, NothingCommitted, Op, Call
  <2>4. UNCHANGED <<holders, heard, pushed, lost>>
    BY <1>6 DEF Subscribe, Unsubscribe, quietMain
  <2> QED
    BY <1>3, <1>4, <1>5, <2>2, <2>3, <2>4
<1>7. ASSUME NEW p \in Pattern, Psubscribe(p) \/ Punsubscribe(p) PROVE SubscriberTypes'
  <2>1. p \in Topic /\ p \notin Channel /\ counter[p] \in -MaxCount .. MaxCount
    BY <1>1
  <2>2. CounterOK
    <3>1. \E n \in -MaxCount .. MaxCount : CountIs(p, n)
      BY <1>1, <1>7, <2>1 DEF Psubscribe, Punsubscribe
    <3> QED
      BY <1>2, <2>1, <3>1
  <2>3. Committing \/ UNCHANGED <<clientVars, cmds>>
    BY <1>7, <2>1 DEF Psubscribe, Punsubscribe, NothingCommitted, Op, Call
  <2>4. UNCHANGED <<holders, heard, pushed, lost>>
    BY <1>7 DEF Psubscribe, Punsubscribe, quietMain
  <2> QED
    BY <1>3, <1>4, <1>5, <2>2, <2>3, <2>4
<1>8. ASSUME NEW c \in Channel, Publish(c) \/ Pubsub(c) PROVE SubscriberTypes'
  <2>1. c \in Topic
    BY <1>1
  <2>2. CounterOK /\ UNCHANGED <<holders, heard, pushed, lost>>
    BY <1>1, <1>8 DEF Publish, Pubsub, quietMain
  <2>3. Committing
    BY <1>8, <2>1 DEF Publish, Pubsub, Op, Call
  <2> QED
    BY <1>3, <2>2, <2>3
<1>9. ASSUME NEW kind \in {"channel", "pattern"}, NEW h \in Holder,
             AddMessageCb(kind, h) \/ RemoveMessageCb(kind, h)
      PROVE  SubscriberTypes'
  <2>1. holders' \in [{"channel", "pattern"} -> Seq(Holder)]
    <3>1. PICK q \in Seq(Holder) : q = holders[kind]
      BY <1>5
    <3>2. Append(q, h) \in Seq(Holder) /\ RemoveFirst(q, h) \in Seq(Holder)
      BY RemovedOnce
    <3>3. \E r \in Seq(Holder) : holders' = [holders EXCEPT ![kind] = r]
      BY <1>9, <3>1, <3>2 DEF AddMessageCb, RemoveMessageCb
    <3> QED
      BY <1>5, <3>3
  <2>2. UNCHANGED <<clientVars, cmds, heard, pushed, lost>> /\ CounterOK
    BY <1>1, <1>9 DEF AddMessageCb, RemoveMessageCb
  <2> QED
    BY <1>4, <2>1, <2>2
<1> QED
  BY <1>6, <1>7, <1>8, <1>9 DEF Ask

LEMMA QuietTypes ==
    ASSUME SubscriberTypes, [SubscriberNext]_allVars,
           UNCHANGED <<nextSn, cmds, counter, holders, heard>>,
           replies' \in Seq(Incoming), trunkQueue' \in Seq(Outgoing), delivered' \in Seq(Outgoing),
           promised' \in Seq(Completion), workQueue' \in Seq(Pipeline), done' \in BOOLEAN,
           pushed' \in Seq(Topic), lost' \in BOOLEAN
    PROVE  SubscriberTypes'
<1>1. nextSn' \in Nat
  BY DEF SubscriberTypes, Cl!TypeOK
<1>2. Cl!TypeOK'
  BY <1>1, SubscriberConnType
<1> QED
  BY <1>2 DEF SubscriberTypes

(* A step of the main thread, after a call has committed its pipeline. *)
LEMMA MainTypes ==
    ASSUME SubscriberTypes, CallGoesOn \/ ShutdownBegins
    PROVE  SubscriberTypes'
<1>1. [SubscriberNext]_allVars
  BY DEF SubscriberNext
<1>2. delivered' \in Seq(Outgoing) /\ promised' \in Seq(Completion)
  <2>1. CASE BlockingCommitReturns
    <3>1. PICK p \in Seq(Completion) : p = promised
      BY DEF SubscriberTypes
    <3>2. PICK d \in Seq(Outgoing) : d = delivered
      BY DEF SubscriberTypes
    <3>3. p \in Seq(Outgoing)
      BY DEF Outgoing
    <3>4. d \o p \in Seq(Outgoing)
      BY <3>3
    <3> QED
      BY <2>1, <3>1, <3>2, <3>4 DEF BlockingCommitReturns
  <2>2. CASE ~BlockingCommitReturns
    BY <2>2 DEF CallGoesOn, Notify, ShutdownReturns, ShutdownBegins, Shutdown, trunkVars,
                SubscriberTypes
  <2> QED
    BY <2>1, <2>2
<1>3. UNCHANGED <<nextSn, workQueue, replies, trunkQueue>> /\ done' \in BOOLEAN
  BY DEF CallGoesOn, Notify, BlockingCommitReturns, ShutdownReturns, ShutdownBegins, Shutdown,
         queueVars, trunkVars, connVars, serverVars, SubscriberTypes
<1>4. UNCHANGED subscriberVars
  BY DEF CallGoesOn, ShutdownBegins
<1> QED
  BY <1>1, <1>2, <1>3, <1>4, QuietTypes DEF subscriberVars, SubscriberTypes

LEMMA DispatchTypes ==
    ASSUME SubscriberTypes, DispatchOne
    PROVE  SubscriberTypes'
<1> DEFINE r == Head(trunkQueue)
           hs == holders[KindOf(r.topic)]
           calls == [k \in DOMAIN hs |-> [holder |-> hs[k], idx |-> r.idx]]
<1>1. /\ RunOnce /\ UNCHANGED <<counter, holders, cmds, subs, pushed, lost>>
      /\ heard' = IF IsMessage(r) THEN heard \o calls ELSE heard
  BY DEF DispatchOne
<1>2. /\ trunkQueue # <<>> /\ trunkQueue' = Tail(trunkQueue)
      /\ delivered' = Append(delivered, Head(trunkQueue))
      /\ UNCHANGED <<connVars, nextSn, workQueue, done, promised>>
  BY <1>1 DEF RunOnce, queueVars
<1>3. PICK s \in Seq(Outgoing) : s = trunkQueue
  BY DEF SubscriberTypes
<1>4. Head(s) \in Outgoing /\ Tail(s) \in Seq(Outgoing)
  BY <1>2, <1>3, HeadTailProperties
<1>5. delivered' \in Seq(Outgoing)
  <2>1. PICK d \in Seq(Outgoing) : d = delivered
    BY DEF SubscriberTypes
  <2>2. PICK x \in Outgoing : x = Head(trunkQueue)
    BY <1>3, <1>4
  <2> QED
    BY <1>2, <2>1, <2>2, AppendProperties
<1>6. heard' \in Seq([holder : Holder, idx : Nat])
  <2> DEFINE Call1 == [holder : Holder, idx : Nat]
  <2>1. PICK h \in Seq(Call1) : h = heard
    BY DEF SubscriberTypes
  <2>2. CASE IsMessage(r)
    <3>1. r \in Messages
      BY <1>3, <1>4, <2>2, Kinds DEF Outgoing
    <3>2. PICK n \in Nat : n = r.idx
      BY <3>1 DEF Messages
    <3>3. PICK q \in Seq(Holder) : q = hs
      <4>1. KindOf(r.topic) \in {"channel", "pattern"}
        BY DEF KindOf
      <4> QED
        BY <4>1 DEF SubscriberTypes
    <3>4. calls = [k \in 1 .. Len(q) |-> [holder |-> q[k], idx |-> n]]
      BY <3>2, <3>3
    <3>5. Len(q) \in Nat /\ \A k \in 1 .. Len(q) : [holder |-> q[k], idx |-> n] \in Call1
      OBVIOUS
    <3> HIDE DEF Call1, calls
    <3>6. calls \in Seq(Call1)
      BY <3>4, <3>5, IsASeq
    <3>7. PICK c \in Seq(Call1) : c = calls
      BY <3>6
    <3>8. h \o c \in Seq(Call1)
      OBVIOUS
    <3>9. heard' = h \o c
      BY <1>1, <2>1, <2>2, <3>7
    <3> QED
      BY <3>8, <3>9 DEF Call1
  <2>3. CASE ~IsMessage(r)
    BY <1>1, <2>1, <2>3
  <2> QED
    BY <2>2, <2>3
<1>7. Cl!TypeOK'
  <2>1. nextSn' \in Nat
    BY <1>2 DEF SubscriberTypes, Cl!TypeOK
  <2>2. [SubscriberNext]_allVars
    BY DEF SubscriberNext
  <2> QED
    BY <2>1, <2>2, SubscriberConnType
<1>8. UNCHANGED replies
  BY <1>2 DEF connVars, serverVars
<1> QED
  BY <1>1, <1>2, <1>3, <1>4, <1>5, <1>6, <1>7, <1>8 DEF SubscriberTypes

(* What the loop, a callback or a fault leaves of the replies. *)
LEMMA RepliesLeft ==
    ASSUME replies \in Seq(Incoming), LoopRuns \/ ConnectionFault
    PROVE  /\ \E n \in 0 .. Len(replies) : replies' = SubSeq(replies, 1, n)
           /\ ~TaskFailed /\ ~LoseLink => UNCHANGED replies
           /\ TaskFailed => replies' = <<>>
           /\ UNCHANGED <<nextSn, cmds, counter, holders, heard, trunkQueue, delivered, promised,
                          workQueue, done, pushed>>
<1>1. PICK s \in Seq(Incoming) : s = replies
  OBVIOUS
<1>2. Len(s) \in Nat /\ SubSeq(s, 1, Len(s)) = s /\ SubSeq(s, 1, 0) = <<>>
  OBVIOUS
<1>3. UNCHANGED <<nextSn, cmds, counter, holders, heard, trunkQueue, delivered, promised,
                  workQueue, done, pushed>>
  BY DEF LoopRuns, ConnectionFault, quietWorker, queueVars, WithConnection, OnClientConnect,
         ConnectSucceeds, CommitLoop, CommitLoopTimer, ReadFails, receiveFrame, TaskFailed,
         ResetAfterFailure, ReconnectTimer, DelayElapsed, ConnFault, ConnectThenReadThrows,
         ConnectFails, LoseLink
<1>4. CASE TaskFailed
  <2>1. replies' = <<>>
    BY <1>4 DEF TaskFailed, ResetAfterFailure, BuilderReset
  <2>2. replies' = SubSeq(replies, 1, 0) /\ 0 \in 0 .. Len(replies)
    BY <1>1, <1>2, <2>1
  <2> QED
    BY <1>3, <1>4, <2>1, <2>2
<1>5. CASE LoseLink /\ ~TaskFailed
  BY <1>3, <1>5 DEF LoseLink
<1>6. CASE ~LoseLink /\ ~TaskFailed
  <2>1. UNCHANGED replies
    BY <1>6 DEF LoopRuns, OnClientConnect, ConnectSucceeds, CommitLoop, CommitLoopTimer, ReadFails,
                ReconnectTimer, DelayElapsed, ConnectionFault, ConnFault, ConnectThenReadThrows,
                ConnectFails, serverVars
  <2>2. replies' = SubSeq(replies, 1, Len(replies)) /\ Len(replies) \in 0 .. Len(replies)
    BY <1>1, <1>2, <2>1
  <2> QED
    BY <1>3, <1>6, <2>1, <2>2
<1> QED
  BY <1>4, <1>5, <1>6

(* A reply to the front pipeline has at most one callback. *)
LEMMA ReplyPosted ==
    ASSUME Cl!TypeOK, Cl!TypeOK', replies \in Seq(Incoming), ReceiveReply
    PROVE  /\ replies' = Tail(replies) /\ replies # <<>> /\ ~IsMessage(Head(replies))
           /\ \/ UNCHANGED <<completed, trunkQueue, promised>>
              \/ \E x \in Completion : completed' = Append(completed, x) /\ Post(x)
           /\ UNCHANGED <<nextSn, cmds, counter, holders, heard, delivered, workQueue, done, pushed>>
<1>1. /\ HasReply /\ ~IsMessage(Head(replies)) /\ OnClientReceive /\ PostCompleted
      /\ UNCHANGED quietWorker /\ WithConnection
  BY DEF ReceiveReply
<1>2. replies' = Tail(replies) /\ replies # <<>> /\ UNCHANGED nextSn
  BY <1>1 DEF HasReply, OnClientReceive, ReceiveError, ReceiveUnexpected, ReceiveNonTail,
              ReceiveBadSha,
              ReceiveTail, receiveFrame
<1>3. Cl!OnClientReceive
  BY <1>1, ReceivesAsClient
<1>4. Cl!PostCompleted
  BY <1>1 DEF PostCompleted, Cl!PostCompleted, Post, Cl!Post
<1>5. \/ UNCHANGED <<completed, trunkQueue, promised>>
      \/ \E x \in Cl!Completion : completed' = Append(completed, x) /\ Cl!Post(x)
  BY <1>3, <1>4, Parameters, Cl!CallbackPosts DEF Cl!ConnProgress
<1>6. \/ UNCHANGED <<completed, trunkQueue, promised>>
      \/ \E x \in Completion : completed' = Append(completed, x) /\ Post(x)
  BY <1>5, SetsAsClient DEF Post, Cl!Post
<1> QED
  BY <1>1, <1>2, <1>6 DEF quietWorker, queueVars, WithConnection

LEMMA WorkerTypes ==
    ASSUME SubscriberTypes, WorkerRuns \/ ConnectionFault \/ Quits \/ (\E t \in Topic : ServerPushes(t))
    PROVE  SubscriberTypes'
<1>1. /\ [SubscriberNext]_allVars
      /\ Cl!TypeOK /\ replies \in Seq(Incoming) /\ trunkQueue \in Seq(Outgoing)
      /\ delivered \in Seq(Outgoing) /\ promised \in Seq(Completion)
      /\ workQueue \in Seq(Pipeline) /\ done \in BOOLEAN /\ pushed \in Seq(Topic) /\ lost \in BOOLEAN
      /\ nextSn \in Nat
  BY DEF SubscriberNext, SubscriberTypes, Cl!TypeOK
<1>2. CASE ReadPipeAndCommit
  <2>1. /\ workQueue' = <<>>
        /\ UNCHANGED <<nextSn, cmds, counter, holders, heard, replies, trunkQueue, delivered,
                       promised, done, pushed, lost>>
    BY <1>2 DEF ReadPipeAndCommit, ReadPipe, mainVars, trunkVars, subscriberVars, connVars,
                serverVars,
                SendAndCommit
  <2>2. workQueue' \in Seq(Pipeline)
    BY <2>1
  <2> QED
    BY <1>1, <2>1, <2>2, QuietTypes
<1>3. CASE LoopRuns \/ ConnectionFault
  <2>1. PICK n \in 0 .. Len(replies) : replies' = SubSeq(replies, 1, n)
    BY <1>1, <1>3, RepliesLeft
  <2>2. replies' \in Seq(Incoming)
    <3>1. PICK s \in Seq(Incoming) : s = replies
      BY <1>1
    <3> QED
      BY <2>1, <3>1, SubSeqProperties
  <2>3. lost' \in BOOLEAN
    <3>1. lost' = (lost \/ (link /\ ~link'))
      BY <1>3 DEF LoopRuns, ConnectionFault, WithConnection
    <3> QED
      BY <3>1
  <2>4. UNCHANGED <<nextSn, cmds, counter, holders, heard, trunkQueue, delivered, promised,
                    workQueue, done, pushed>>
    BY <1>1, <1>3, RepliesLeft
  <2> QED
    BY <1>1, <2>2, <2>3, <2>4, QuietTypes
<1>4. CASE ReceiveReply
  <2>1. nextSn' \in Nat
    BY <1>1, <1>4 DEF ReceiveReply, OnClientReceive, ReceiveError, ReceiveUnexpected,
                      ReceiveNonTail,
                      ReceiveBadSha, ReceiveTail, receiveFrame
  <2>2. Cl!TypeOK'
    BY <1>1, <2>1, SubscriberConnType
  <2>3. /\ replies' = Tail(replies) /\ replies # <<>>
        /\ \/ UNCHANGED <<completed, trunkQueue, promised>>
           \/ \E x \in Completion : completed' = Append(completed, x) /\ Post(x)
        /\ UNCHANGED <<nextSn, cmds, counter, holders, heard, delivered, workQueue, done, pushed>>
    BY <1>1, <1>4, <2>2, ReplyPosted
  <2>4. replies' \in Seq(Incoming)
    BY <1>1, <2>3, HeadTailProperties
  <2>5. trunkQueue' \in Seq(Outgoing) /\ promised' \in Seq(Completion)
    <3>1. PICK q \in Seq(Outgoing) : q = trunkQueue
      BY <1>1
    <3>2. PICK p \in Seq(Completion) : p = promised
      BY <1>1
    <3>3. ASSUME NEW x \in Completion
          PROVE  Append(q, x) \in Seq(Outgoing) /\ Append(p, x) \in Seq(Completion)
      BY DEF Outgoing
    <3> QED
      BY <2>3, <3>1, <3>2, <3>3 DEF Post
  <2>6. lost' \in BOOLEAN
    <3>1. lost' = (lost \/ (link /\ ~link'))
      BY <1>4 DEF ReceiveReply, WithConnection
    <3> QED
      BY <3>1
  <2> QED
    BY <1>1, <2>3, <2>4, <2>5, <2>6, QuietTypes
<1>5. CASE ReceiveMessage
  <2>1. /\ replies # <<>> /\ IsMessage(Head(replies)) /\ replies' = Tail(replies)
        /\ trunkQueue' = Append(trunkQueue, Head(replies))
        /\ UNCHANGED <<nextSn, cmds, counter, holders, heard, delivered, promised, workQueue, done,
                       pushed, lost>>
    BY <1>5 DEF ReceiveMessage, MessageRead, ToTrunk, HasReply, receiveFrame, quietWorker,
                queueVars,
                subscriberVars
  <2>2. replies' \in Seq(Incoming) /\ Head(replies) \in Incoming
    BY <1>1, <2>1, HeadTailProperties
  <2>3. PICK y \in Messages : y = Head(replies)
    BY <2>1, <2>2, Kinds DEF Incoming
  <2>4. trunkQueue' \in Seq(Outgoing)
    <3>1. PICK q \in Seq(Outgoing) : q = trunkQueue
      BY <1>1
    <3>2. y \in Outgoing
      BY DEF Outgoing
    <3> QED
      BY <2>1, <2>3, <3>1, <3>2, AppendProperties
  <2> QED
    BY <1>1, <2>1, <2>2, <2>4, QuietTypes
<1>6. CASE Quits
  BY <1>1, <1>6, QuietTypes DEF Quits, WorkerQuits, connVars, serverVars, mainVars, trunkVars,
                                subscriberVars
<1>7. CASE ServerAnswers
  <2>1. PICK x \in Reply : replies' = Append(replies, x)
    BY <1>1, <1>7, OneAnswer
  <2>2. replies' \in Seq(Incoming)
    <3>1. PICK s \in Seq(Incoming) : s = replies
      BY <1>1
    <3>2. x \in Incoming
      BY DEF Incoming
    <3> QED
      BY <2>1, <3>1, <3>2, AppendProperties
  <2>3. UNCHANGED <<nextSn, cmds, counter, holders, heard, trunkQueue, delivered, promised,
                    workQueue, done, pushed, lost>>
    BY <1>7 DEF ServerAnswers, mainVars, queueVars, trunkVars
  <2> QED
    BY <1>1, <2>2, <2>3, QuietTypes
<1>8. ASSUME NEW t \in Topic, ServerPushes(t) PROVE SubscriberTypes'
  <2>1. PICK y \in Messages : replies' = Append(replies, y)
    BY <1>1, <1>8, PushedMessage
  <2>2. replies' \in Seq(Incoming)
    <3>1. PICK s \in Seq(Incoming) : s = replies
      BY <1>1
    <3>2. y \in Incoming
      BY DEF Incoming
    <3> QED
      BY <2>1, <3>1, <3>2, AppendProperties
  <2>3. pushed' \in Seq(Topic)
    <3>1. PICK s \in Seq(Topic) : s = pushed
      BY <1>1
    <3> QED
      BY <1>8, <3>1, AppendProperties DEF ServerPushes
  <2>4. UNCHANGED <<nextSn, cmds, counter, holders, heard, trunkQueue, delivered, promised,
                    workQueue, done, lost>>
    BY <1>8 DEF ServerPushes, mainVars, queueVars, trunkVars
  <2> QED
    BY <1>1, <2>2, <2>3, <2>4, QuietTypes
<1> QED
  BY <1>2, <1>3, <1>4, <1>5, <1>6, <1>7, <1>8 DEF WorkerRuns

LEMMA SubscriberTypesNext == SubscriberTypes /\ [SubscriberNext]_allVars => SubscriberTypes'
<1> SUFFICES ASSUME SubscriberTypes, [SubscriberNext]_allVars PROVE SubscriberTypes'
  OBVIOUS
<1>1. CASE UNCHANGED allVars
  BY <1>1, QuietTypes DEF allVars, clientVars, connVars, serverVars, mainVars, queueVars, trunkVars,
                          subscriberVars, SubscriberTypes
<1> QED
  BY <1>1, AskTypes, DispatchTypes, MainTypes, WorkerTypes DEF SubscriberNext

LEMMA SubscriberTypesInit == SubscriberInit => SubscriberTypes
<1> SUFFICES ASSUME SubscriberInit PROVE SubscriberTypes
  OBVIOUS
<1>1. Cl!Init
  <2>1. replies = <<>>
    BY DEF SubscriberInit, ClientInit, Init
  <2> QED
    BY <2>1, AnswersNone DEF SubscriberInit, ClientInit, Init, Cl!Init
<1>2. Cl!TypeOK
  BY <1>1, Parameters, Cl!TypeInit
<1>3. [t \in Topic |-> 0] \in [Topic -> -MaxCount .. MaxCount] /\ \A c \in Channel : c \in Topic
  BY SubscriberBounds DEF Topic
<1>4. /\ replies \in Seq(Incoming)
      /\ trunkQueue \in Seq(Outgoing) /\ delivered \in Seq(Outgoing)
      /\ promised \in Seq(Completion)
      /\ workQueue \in Seq(Pipeline)
      /\ done \in BOOLEAN
      /\ cmds \in Seq(Commands) /\ Len(cmds) = nextSn
      /\ heard \in Seq([holder : Holder, idx : Nat])
      /\ pushed \in Seq(Topic)
      /\ lost \in BOOLEAN
  <2>1. /\ replies = <<>> /\ trunkQueue = <<>> /\ delivered = <<>> /\ promised = <<>>
        /\ workQueue = <<>> /\ cmds = <<>> /\ heard = <<>> /\ pushed = <<>>
        /\ nextSn = 0 /\ done = FALSE /\ lost = FALSE
    BY DEF SubscriberInit, ClientInit, Init
  <2>2. \A T : <<>> \in Seq(T)
    OBVIOUS
  <2>3. Len(<<>>) = 0
    OBVIOUS
  <2> QED
    BY <2>1, <2>2, <2>3
<1>5. /\ counter \in [Topic -> -MaxCount .. MaxCount] /\ \A c \in Channel : counter[c] >= 0
      /\ holders \in [{"channel", "pattern"} -> Seq(Holder)]
  BY <1>3 DEF SubscriberInit
<1> QED
  BY <1>2, <1>4, <1>5 DEF SubscriberTypes

LEMMA SubscriberWireInit == SubscriberInit => SubscriberWire
<1> SUFFICES ASSUME SubscriberInit PROVE SubscriberWire
  OBVIOUS
<1>1. Cl!Init
  <2>1. replies = <<>>
    BY DEF SubscriberInit, ClientInit, Init
  <2> QED
    BY <2>1, AnswersNone DEF SubscriberInit, ClientInit, Init, Cl!Init
<1>2. Cl!TaskInv /\ Cl!SingleInv
  BY <1>1, Parameters, Cl!TaskInvInit, Cl!SingleInit
<1>3. Cl!FreshSingle(workQueue)
  BY DEF SubscriberInit, ClientInit, Cl!FreshSingle
<1> QED
  BY <1>2, <1>3 DEF SubscriberWire

(* The main thread only adds pipelines of one command to the work queue. *)
LEMMA QueueStaysFresh ==
    ASSUME SubscriberTypes, Cl!FreshSingle(workQueue), [SubscriberNext]_allVars
    PROVE  Cl!FreshSingle(workQueue')
<1>1. ASSUME NEW call, NEW op, NEW topic, CommitOne(call, op, topic)
      PROVE  Cl!FreshSingle(workQueue')
  <2>1. Cl!CommitCommands(call, 1)
    BY <1>1, CommitsAsClient DEF CommitOne
  <2>2. workQueue \in Seq(Cl!Pipeline) /\ nextSn \in Nat
    BY SetsAsClient DEF SubscriberTypes, Cl!TypeOK
  <2> QED
    BY <2>1, <2>2, Parameters, Cl!CommitsSingle
<1>2. CASE UNCHANGED workQueue
  BY <1>2
<1>3. CASE ReadPipe
  BY <1>3 DEF ReadPipe, Cl!FreshSingle
<1>4. CASE Ask
  BY <1>1, <1>2, <1>4 DEF Ask, Subscribe, Unsubscribe, Psubscribe, Punsubscribe, Publish, Pubsub,
       NothingCommitted, AddMessageCb, RemoveMessageCb, clientVars, queueVars
<1>5. CASE ~Ask /\ ~ReadPipeAndCommit
  <2>1. UNCHANGED workQueue
    BY <1>5 DEF SubscriberNext, WorkerRuns, DispatchOne, RunOnce, CallGoesOn, Notify,
         BlockingCommitReturns, ShutdownReturns, ShutdownBegins, Shutdown, Quits, WorkerQuits,
         LoopRuns,
         ReceiveReply, ReceiveMessage, MessageRead, ConnectionFault, ServerAnswers, ServerPushes,
         quietWorker,
         queueVars, allVars, clientVars
  <2> QED
    BY <1>2, <2>1
<1> QED
  BY <1>3, <1>4, <1>5 DEF ReadPipeAndCommit

LEMMA SubscriberWireNext ==
    SubscriberTypes /\ SubscriberWire /\ [SubscriberNext]_allVars => SubscriberWire'
<1> SUFFICES ASSUME SubscriberTypes, SubscriberWire, [SubscriberNext]_allVars
             PROVE  Cl!TaskInv' /\ Cl!SingleInv'
  <2>1. SubscriberTypes /\ SubscriberWire /\ [SubscriberNext]_allVars => Cl!FreshSingle(workQueue)'
    BY QueueStaysFresh DEF SubscriberWire
  <2> QED
    BY <2>1 DEF SubscriberWire
<1>1. /\ Cl!TypeOK /\ replies \in Seq(Incoming) /\ pushed \in Seq(Topic)
      /\ workQueue \in Seq(Cl!Pipeline)
      /\ Cl!TaskInv /\ Cl!SingleInv /\ Cl!FreshSingle(workQueue)
  BY SetsAsClient DEF SubscriberTypes, SubscriberWire
<1>2. CASE UNCHANGED Cl!connVars
  <2>1. Cl!TaskInv'
    BY <1>1, <1>2 DEF Cl!TaskInv, Cl!SomeTaskPending, Cl!connVars, Cl!delayVars, Cl!tcpVars
  <2>2. Cl!SingleInv'
    BY <1>1, <1>2
       DEF Cl!SingleInv, Cl!LinkIsOpen, Cl!NothingUnderWay, Cl!RepliesMatch, Cl!RequestsMatch,
           Cl!OnlyOwnRefused, Cl!TailReplyDelivered, Cl!connVars, Cl!delayVars, Cl!tcpVars,
           Cl!serverVars
  <2> QED
    BY <2>1, <2>2
<1>3. CASE Cl!SendAndCommit(workQueue)
  BY <1>1, <1>3, Parameters, Cl!SendAndCommitTasks, Cl!SendAndCommitSingle
<1>4. CASE (Cl!ConnProgress \/ Cl!ConnFault) /\ nextSn' = nextSn
  <2>1. Cl!Next
    BY <1>4 DEF Cl!Next
  <2> QED
    BY <1>1, <1>4, <2>1, Parameters, Cl!TaskInvNext, Cl!SingleStep
<1>5. CASE ServerAnswers
  <2>1. /\ UNCHANGED <<bDelayReconnecting, delayTasks, connectTask, readTask>>
        /\ failures' = failures /\ failures \in Nat
    BY <1>1, <1>5 DEF ServerAnswers, delayVars, tcpVars, Cl!TaskInv
  <2>2. failures' \in Nat /\ failures' >= failures
    BY <2>1
  <2> QED
    BY <1>1, <1>5, <2>1, <2>2, Parameters, Cl!TasksKept, AnswersOnWire
<1> QED
  BY <1>1, <1>2, <1>3, <1>4, <1>5, ConnSteps

LEMMA SubscriberWireAlways == SubscriberSpec => [](SubscriberTypes /\ SubscriberWire)
<1>1. SubscriberInit => SubscriberTypes /\ SubscriberWire
  BY SubscriberTypesInit, SubscriberWireInit
<1>2. SubscriberTypes /\ SubscriberWire /\ [SubscriberNext]_allVars
        => SubscriberTypes' /\ SubscriberWire'
  BY SubscriberTypesNext, SubscriberWireNext
<1> QED
  BY <1>1, <1>2, PTL DEF SubscriberSpec

(* As long as a link works, a reply that is no message belongs to the front pipeline
   (AnswersMatchDeque): KjRedisSubscriberConn counts no message for an answer and no
   answer for a message, whatever is published and however often it reconnects. *)
THEOREM AlwaysAnswersMatchDeque == SubscriberSpec => []AnswersMatchDeque
<1>1. SubscriberTypes /\ SubscriberWire => Cl!WireMatchesDeque
  BY Parameters, Cl!SingleMatches DEF SubscriberTypes, SubscriberWire
<1>2. Cl!WireMatchesDeque => AnswersMatchDeque
  BY DEF AnswersMatchDeque, Answering!WireMatchesDeque, Cl!WireMatchesDeque,
         Answering!Selected, Cl!Selected, Answering!Positions, Cl!Positions, Answering!Rank,
         Cl!Rank,
         Answering!COMMITTING, Cl!COMMITTING, Answering!Cardinality, Cl!Cardinality
<1>3. SubscriberTypes /\ SubscriberWire => AnswersMatchDeque
  BY <1>1, <1>2
<1> QED
  BY <1>3, SubscriberWireAlways, PTL

-----------------------------------------------------------------------------
(* Messages in a sequence.                                                  *)

(* The messages among the items of s; idx tells them apart. *)
Msgs(s) == {s[i] : i \in {i \in DOMAIN s : IsMessage(s[i])}}

Ascending(s) ==
    \A i, j \in DOMAIN s : IsMessage(s[i]) /\ IsMessage(s[j]) /\ i < j => s[i].idx < s[j].idx

Before(M, N) == \A x \in M, y \in N : x.idx < y.idx

LEMMA MessageAppended ==
    ASSUME NEW T, NEW s \in Seq(T), NEW x \in T
    PROVE  /\ Msgs(Append(s, x)) = IF IsMessage(x) THEN Msgs(s) \cup {x} ELSE Msgs(s)
           /\ Ascending(s) /\ Before(Msgs(s), {x}) => Ascending(Append(s, x))
           /\ Ascending(s) /\ ~IsMessage(x) => Ascending(Append(s, x))
<1> DEFINE q == Append(s, x)
<1>1. /\ DOMAIN q = 1 .. (Len(s) + 1) /\ Len(s) \in Nat /\ DOMAIN s = 1 .. Len(s)
      /\ \A i \in 1 .. Len(s) : q[i] = s[i]
      /\ q[Len(s) + 1] = x
  BY AppendProperties
<1> HIDE DEF q
<1>2. \A i \in DOMAIN q : i \in DOMAIN s \/ i = Len(s) + 1
  BY <1>1
<1>3. \A i \in DOMAIN s : i \in DOMAIN q /\ q[i] = s[i]
  BY <1>1
<1>4. Len(s) + 1 \in DOMAIN q
  BY <1>1
<1>5. Msgs(q) = IF IsMessage(x) THEN Msgs(s) \cup {x} ELSE Msgs(s)
  BY <1>1, <1>2, <1>3, <1>4 DEF Msgs
<1>6. ASSUME Ascending(s), Before(Msgs(s), {x}) \/ ~IsMessage(x) PROVE Ascending(q)
  <2> SUFFICES ASSUME NEW i \in DOMAIN q, NEW j \in DOMAIN q,
                      IsMessage(q[i]), IsMessage(q[j]), i < j
               PROVE  q[i].idx < q[j].idx
    BY DEF Ascending
  <2>1. i \in DOMAIN s /\ q[i] = s[i]
    BY <1>1
  <2>2. CASE j \in DOMAIN s
    BY <1>3, <1>6, <2>1, <2>2 DEF Ascending
  <2>3. CASE j = Len(s) + 1
    BY <1>1, <1>6, <2>1, <2>3 DEF Before, Msgs
  <2> QED
    BY <1>2, <2>2, <2>3
<1> QED
  BY <1>5, <1>6 DEF q

LEMMA MessagesTail ==
    ASSUME NEW T, NEW s \in Seq(T), s # <<>>
    PROVE  /\ Msgs(s) = IF IsMessage(Head(s)) THEN Msgs(Tail(s)) \cup {Head(s)} ELSE Msgs(Tail(s))
           /\ Ascending(s) => Ascending(Tail(s))
           /\ Ascending(s) /\ IsMessage(Head(s)) => Before({Head(s)}, Msgs(Tail(s)))
<1> DEFINE t == Tail(s)
<1>1. /\ t \in Seq(T) /\ DOMAIN t = 1 .. (Len(s) - 1) /\ Head(s) = s[1]
      /\ DOMAIN s = 1 .. Len(s) /\ Len(s) \in Nat /\ 1 \in DOMAIN s
      /\ \A i \in 1 .. (Len(s) - 1) : t[i] = s[i + 1]
  BY HeadTailProperties, EmptySeq
<1> HIDE DEF t
<1>2. \A i \in DOMAIN t : i + 1 \in DOMAIN s /\ t[i] = s[i + 1] /\ 1 < i + 1 /\ i \in Nat
  BY <1>1
<1>3. \A i \in DOMAIN s : i = 1 \/ \E j \in DOMAIN t : i = j + 1
  <2> TAKE i \in DOMAIN s
  <2>1. i = 1 \/ (i - 1 \in DOMAIN t /\ i = (i - 1) + 1)
    BY <1>1
  <2> QED
    BY <2>1
<1>4. Msgs(s) = IF IsMessage(Head(s)) THEN Msgs(t) \cup {Head(s)} ELSE Msgs(t)
  <2>1. \A i \in DOMAIN s : s[i] = Head(s) \/ \E j \in DOMAIN t : s[i] = t[j]
    BY <1>1, <1>2, <1>3
  <2>2. \A j \in DOMAIN t : \E i \in DOMAIN s : t[j] = s[i]
    BY <1>2
  <2>3. \E i \in DOMAIN s : s[i] = Head(s)
    BY <1>1
  <2> QED
    BY <2>1, <2>2, <2>3 DEF Msgs
<1>5. ASSUME Ascending(s) PROVE Ascending(t)
  <2> SUFFICES ASSUME NEW i \in DOMAIN t, NEW j \in DOMAIN t,
                      IsMessage(t[i]), IsMessage(t[j]), i < j
               PROVE  t[i].idx < t[j].idx
    BY DEF Ascending
  <2>1. i + 1 < j + 1
    BY <1>2
  <2> QED
    BY <1>2, <1>5, <2>1 DEF Ascending
<1>6. ASSUME Ascending(s), IsMessage(Head(s)) PROVE Before({Head(s)}, Msgs(t))
  <2> SUFFICES ASSUME NEW j \in DOMAIN t, IsMessage(t[j]) PROVE Head(s).idx < t[j].idx
    BY DEF Before, Msgs
  <2>1. j + 1 \in DOMAIN s /\ t[j] = s[j + 1] /\ 1 < j + 1 /\ 1 \in DOMAIN s /\ Head(s) = s[1]
    BY <1>1, <1>2
  <2> QED
    BY <1>6, <2>1 DEF Ascending
<1> QED
  BY <1>4, <1>5, <1>6 DEF t

LEMMA MessagesPrefix ==
    ASSUME NEW T, NEW s \in Seq(T), NEW n \in 0 .. Len(s)
    PROVE  /\ Msgs(SubSeq(s, 1, n)) \subseteq Msgs(s)
           /\ Ascending(s) => Ascending(SubSeq(s, 1, n))
<1> DEFINE q == SubSeq(s, 1, n)
<1>1. \A i \in DOMAIN q : i \in DOMAIN s /\ q[i] = s[i]
  <2>1. /\ DOMAIN q = 1 .. n /\ DOMAIN s = 1 .. Len(s) /\ Len(s) \in Nat /\ n \in Nat
        /\ \A i \in 1 .. n : q[i] = s[i]
    BY SubSeqProperties
  <2> QED
    BY <2>1
<1> HIDE DEF q
<1>2. Msgs(q) \subseteq Msgs(s)
  BY <1>1 DEF Msgs
<1>3. Ascending(s) => Ascending(q)
  BY <1>1 DEF Ascending
<1> QED
  BY <1>2, <1>3 DEF q

LEMMA MessagesNone ==
    ASSUME NEW s, \A i \in DOMAIN s : ~IsMessage(s[i])
    PROVE  Msgs(s) = {} /\ Ascending(s)
BY DEF Msgs, Ascending

(* An item of s \o q is one of s or one of q. *)
LEMMA ConcatItems ==
    ASSUME NEW T, NEW s \in Seq(T), NEW q \in Seq(T), NEW r, r = s \o q
    PROVE  /\ DOMAIN r \subseteq Int /\ Len(s) \in Nat
           /\ \A k \in DOMAIN r :
                 \/ k \in DOMAIN s /\ r[k] = s[k]
                 \/ k > Len(s) /\ k - Len(s) \in DOMAIN q /\ r[k] = q[k - Len(s)]
           /\ \A i \in DOMAIN s : i <= Len(s) /\ i \in DOMAIN r /\ r[i] = s[i]
           /\ \A i \in DOMAIN r : i <= Len(s) => i \in DOMAIN s
           /\ \A i \in DOMAIN q : Len(s) + i \in DOMAIN r /\ r[Len(s) + i] = q[i]
<1>1. /\ DOMAIN r = 1 .. (Len(s) + Len(q)) /\ Len(s) \in Nat /\ Len(q) \in Nat
      /\ DOMAIN s = 1 .. Len(s) /\ DOMAIN q = 1 .. Len(q)
      /\ \A k \in 1 .. (Len(s) + Len(q)) : r[k] = IF k <= Len(s) THEN s[k] ELSE q[k - Len(s)]
  BY ConcatProperties
<1>2. ASSUME NEW k \in DOMAIN r
      PROVE  \/ k \in DOMAIN s /\ r[k] = s[k]
             \/ k > Len(s) /\ k - Len(s) \in DOMAIN q /\ r[k] = q[k - Len(s)]
  <2>1. k \in Int /\ k >= 1 /\ k <= Len(s) + Len(q)
    BY <1>1
  <2>2. CASE k <= Len(s)
    BY <1>1, <2>1, <2>2
  <2>3. CASE k > Len(s)
    <3>1. ~(k <= Len(s)) /\ k - Len(s) \in DOMAIN q
      BY <1>1, <2>1, <2>3
    <3> QED
      BY <1>1, <2>3, <3>1
  <2>4. k <= Len(s) \/ k > Len(s)
    BY <1>1, <2>1
  <2> QED
    BY <2>2, <2>3, <2>4
<1>3. ASSUME NEW i \in DOMAIN q PROVE Len(s) + i \in DOMAIN r /\ r[Len(s) + i] = q[i]
  <2>1. Len(s) + i \in DOMAIN r /\ ~(Len(s) + i <= Len(s)) /\ (Len(s) + i) - Len(s) = i
    BY <1>1
  <2> QED
    BY <1>1, <2>1
<1>4. \A i \in DOMAIN s : i <= Len(s) /\ i \in DOMAIN r /\ r[i] = s[i]
  BY <1>1
<1>5. \A i \in DOMAIN r : i <= Len(s) => i \in DOMAIN s
  BY <1>1
<1>6. DOMAIN r \subseteq Int /\ Len(s) \in Nat
  BY <1>1
<1> QED
  BY <1>2, <1>3, <1>4, <1>5, <1>6

(* The messages of s and q one behind the other. *)
LEMMA MessagesConcat ==
    ASSUME NEW T, NEW s \in Seq(T), NEW q \in Seq(T)
    PROVE  /\ Msgs(s \o q) = Msgs(s) \cup Msgs(q)
           /\ Ascending(s) /\ Ascending(q) /\ Before(Msgs(s), Msgs(q)) => Ascending(s \o q)
<1> DEFINE r == s \o q
<1> HIDE DEF r
<1>1. /\ DOMAIN r \subseteq Int /\ Len(s) \in Nat
      /\ \A i \in DOMAIN r : i <= Len(s) => i \in DOMAIN s
      /\ \A i \in DOMAIN s : i <= Len(s)
  BY ConcatItems DEF r
<1>2. \A k \in DOMAIN r :
         \/ k \in DOMAIN s /\ r[k] = s[k]
         \/ k > Len(s) /\ k - Len(s) \in DOMAIN q /\ r[k] = q[k - Len(s)]
  BY ConcatItems DEF r
<1>3. \A i \in DOMAIN s : i \in DOMAIN r /\ r[i] = s[i]
  BY ConcatItems DEF r
<1>4. \A i \in DOMAIN q : Len(s) + i \in DOMAIN r /\ r[Len(s) + i] = q[i]
  BY ConcatItems DEF r
<1>5. Msgs(r) = Msgs(s) \cup Msgs(q)
  <2>1. \A k \in DOMAIN r : (\E i \in DOMAIN s : r[k] = s[i]) \/ (\E i \in DOMAIN q : r[k] = q[i])
    BY <1>2
  <2>2. /\ \A i \in DOMAIN s : \E k \in DOMAIN r : s[i] = r[k]
        /\ \A i \in DOMAIN q : \E k \in DOMAIN r : q[i] = r[k]
    BY <1>3, <1>4
  <2> QED
    BY <2>1, <2>2 DEF Msgs
<1>6. ASSUME Ascending(s), Ascending(q), Before(Msgs(s), Msgs(q)) PROVE Ascending(r)
  <2> SUFFICES ASSUME NEW i \in DOMAIN r, NEW j \in DOMAIN r,
                      IsMessage(r[i]), IsMessage(r[j]), i < j
               PROVE  r[i].idx < r[j].idx
    BY DEF Ascending
  <2>1. CASE j \in DOMAIN s /\ r[j] = s[j]
    <3>1. i \in DOMAIN s /\ r[i] = s[i]
      BY <1>1, <1>2, <2>1
    <3> QED
      BY <1>6, <2>1, <3>1 DEF Ascending
  <2>2. CASE j > Len(s) /\ j - Len(s) \in DOMAIN q /\ r[j] = q[j - Len(s)]
    <3>1. CASE i \in DOMAIN s /\ r[i] = s[i]
      <4>1. r[i] \in Msgs(s) /\ r[j] \in Msgs(q)
        BY <2>2, <3>1 DEF Msgs
      <4> QED
        BY <1>6, <4>1 DEF Before
    <3>2. CASE i > Len(s) /\ i - Len(s) \in DOMAIN q /\ r[i] = q[i - Len(s)]
      <4>1. i - Len(s) < j - Len(s)
        <5>1. i \in Int /\ j \in Int /\ Len(s) \in Int
          BY <1>1
        <5> QED
          BY <5>1
      <4> QED
        BY <1>6, <2>2, <3>2, <4>1 DEF Ascending
    <3> QED
      BY <1>2, <3>1, <3>2
  <2> QED
    BY <1>2, <2>1, <2>2
<1> QED
  BY <1>5, <1>6 DEF r

(* Where the messages are that the server has sent. *)
InOrder(D, T, R) == Before(D, T \cup R) /\ Before(T, R)

Genuine(M, p) == \A x \in M : x.idx \in DOMAIN p /\ x.topic = p[x.idx]

Covered(M, p) == \A n \in DOMAIN p : \E x \in M : x.idx = n

AllMsgs == Msgs(delivered) \cup Msgs(trunkQueue) \cup Msgs(replies)

(* Dispatched, waiting for RunOnce() or on their way, messages are in the server's order;
   a connection that was never made has none. *)
MessageInv ==
    /\ Ascending(delivered) /\ Ascending(trunkQueue) /\ Ascending(replies)
    /\ InOrder(Msgs(delivered), Msgs(trunkQueue), Msgs(replies))
    /\ Genuine(AllMsgs, pushed)
    /\ ~lost => Covered(AllMsgs, pushed)
    /\ ~lost /\ ~link => replies = <<>>

LEMMA MessageInvInit == SubscriberInit => MessageInv
<1> SUFFICES ASSUME SubscriberInit PROVE MessageInv
  OBVIOUS
<1>1. delivered = <<>> /\ trunkQueue = <<>> /\ replies = <<>> /\ pushed = <<>>
  BY DEF SubscriberInit, ClientInit, Init
<1>2. Msgs(<<>>) = {} /\ Ascending(<<>>)
  BY DEF Msgs, Ascending
<1> QED
  BY <1>1, <1>2 DEF MessageInv, InOrder, Before, Genuine, Covered, AllMsgs

LEMMA MessagesDispatch ==
    ASSUME SubscriberTypes, MessageInv, DispatchOne
    PROVE  MessageInv'
<1>1. /\ trunkQueue # <<>> /\ trunkQueue' = Tail(trunkQueue)
      /\ delivered' = Append(delivered, Head(trunkQueue))
      /\ UNCHANGED <<replies, pushed, lost, link>>
  BY DEF DispatchOne, RunOnce, connVars, serverVars
<1>2. PICK t \in Seq(Outgoing) : t = trunkQueue
  BY DEF SubscriberTypes
<1>3. PICK d \in Seq(Outgoing) : d = delivered
  BY DEF SubscriberTypes
<1>4. PICK x \in Outgoing : x = Head(t)
  BY <1>1, <1>2, HeadTailProperties
<1>5. /\ Msgs(t) = IF IsMessage(x) THEN Msgs(Tail(t)) \cup {x} ELSE Msgs(Tail(t))
      /\ Ascending(t) => Ascending(Tail(t))
      /\ Ascending(t) /\ IsMessage(x) => Before({x}, Msgs(Tail(t)))
  BY <1>1, <1>2, <1>4, MessagesTail
<1>6. /\ Msgs(Append(d, x)) = IF IsMessage(x) THEN Msgs(d) \cup {x} ELSE Msgs(d)
      /\ Ascending(d) /\ Before(Msgs(d), {x}) => Ascending(Append(d, x))
      /\ Ascending(d) /\ ~IsMessage(x) => Ascending(Append(d, x))
  BY MessageAppended
<1>7. trunkQueue' = Tail(t) /\ delivered' = Append(d, x)
  BY <1>1, <1>2, <1>3, <1>4
<1>8. /\ Ascending(delivered)' /\ Ascending(trunkQueue)'
      /\ InOrder(Msgs(delivered), Msgs(trunkQueue), Msgs(replies))'
      /\ AllMsgs' = AllMsgs
  <2>1. /\ Ascending(d) /\ Ascending(t)
        /\ InOrder(Msgs(d), Msgs(t), Msgs(replies))
    BY <1>2, <1>3 DEF MessageInv
  <2>2. /\ Ascending(Append(d, x)) /\ Ascending(Tail(t))
        /\ InOrder(Msgs(Append(d, x)), Msgs(Tail(t)), Msgs(replies))
    BY <1>5, <1>6, <2>1 DEF InOrder, Before
  <2>3. Msgs(Append(d, x)) \cup Msgs(Tail(t)) = Msgs(d) \cup Msgs(t)
    BY <1>5, <1>6
  <2>4. UNCHANGED Msgs(replies)
    BY <1>1
  <2> QED
    BY <1>2, <1>3, <1>7, <2>2, <2>3, <2>4 DEF AllMsgs
<1> QED
  BY <1>1, <1>8 DEF MessageInv

LEMMA MessagesReceive ==
    ASSUME SubscriberTypes, MessageInv, ReceiveMessage
    PROVE  MessageInv'
<1>1. /\ replies # <<>> /\ IsMessage(Head(replies)) /\ replies' = Tail(replies)
      /\ trunkQueue' = Append(trunkQueue, Head(replies))
      /\ UNCHANGED <<delivered, pushed, lost, link>>
  BY DEF ReceiveMessage, MessageRead, ToTrunk, HasReply, receiveFrame, quietWorker, subscriberVars
<1>2. PICK r \in Seq(Incoming) : r = replies
  BY DEF SubscriberTypes
<1>3. PICK t \in Seq(Outgoing) : t = trunkQueue
  BY DEF SubscriberTypes
<1>4. PICK x \in Messages : x = Head(r)
  <2>1. Head(r) \in Incoming
    BY <1>1, <1>2, HeadTailProperties
  <2> QED
    BY <1>1, <1>2, <2>1, Kinds DEF Incoming
<1>5. /\ Msgs(r) = Msgs(Tail(r)) \cup {x}
      /\ Ascending(r) => Ascending(Tail(r)) /\ Before({x}, Msgs(Tail(r)))
  BY <1>1, <1>2, <1>4, MessagesTail
<1>6. /\ Msgs(Append(t, x)) = Msgs(t) \cup {x}
      /\ Ascending(t) /\ Before(Msgs(t), {x}) => Ascending(Append(t, x))
  <2>1. x \in Outgoing /\ IsMessage(x)
    BY Kinds DEF Outgoing
  <2> QED
    BY <2>1, MessageAppended
<1>7. replies' = Tail(r) /\ trunkQueue' = Append(t, x)
  BY <1>1, <1>2, <1>3, <1>4
<1>8. /\ Ascending(trunkQueue)' /\ Ascending(replies)'
      /\ InOrder(Msgs(delivered), Msgs(trunkQueue), Msgs(replies))'
      /\ AllMsgs' = AllMsgs
  <2>1. Ascending(t) /\ Ascending(r) /\ InOrder(Msgs(delivered), Msgs(t), Msgs(r))
    BY <1>2, <1>3 DEF MessageInv
  <2>2. /\ Ascending(Append(t, x)) /\ Ascending(Tail(r))
        /\ InOrder(Msgs(delivered), Msgs(Append(t, x)), Msgs(Tail(r)))
    BY <1>5, <1>6, <2>1 DEF InOrder, Before
  <2>3. Msgs(Append(t, x)) \cup Msgs(Tail(r)) = Msgs(t) \cup Msgs(r)
    BY <1>5, <1>6
  <2>4. UNCHANGED Msgs(delivered)
    BY <1>1
  <2> QED
    BY <1>2, <1>3, <1>7, <2>2, <2>3, <2>4 DEF AllMsgs
<1>9. ~lost' /\ ~link' => replies' = <<>>
  BY <1>1 DEF MessageInv
<1> QED
  BY <1>1, <1>8, <1>9 DEF MessageInv

(* What concerns no message. *)
LEMMA MessagesApart ==
    ASSUME MessageInv, UNCHANGED pushed,
           Msgs(delivered)' = Msgs(delivered), Msgs(trunkQueue)' = Msgs(trunkQueue),
           Msgs(replies)' \subseteq Msgs(replies), lost' \/ Msgs(replies)' = Msgs(replies),
           Ascending(delivered)', Ascending(trunkQueue)', Ascending(replies)',
           lost => lost', ~lost' /\ ~link' => replies' = <<>>
    PROVE  MessageInv'
<1>1. AllMsgs' \subseteq AllMsgs /\ (lost' \/ AllMsgs' = AllMsgs)
  BY DEF AllMsgs
<1>2. InOrder(Msgs(delivered), Msgs(trunkQueue), Msgs(replies))'
  BY DEF MessageInv, InOrder, Before
<1>3. Genuine(AllMsgs, pushed)'
  BY <1>1 DEF MessageInv, Genuine
<1>4. ~lost' => Covered(AllMsgs, pushed)'
  BY <1>1 DEF MessageInv, Covered
<1> QED
  BY <1>2, <1>3, <1>4 DEF MessageInv

(* What ends a connection that was up counts as a loss. *)
LEMMA LossSeen ==
    ASSUME WithConnection
    PROVE  (lost => lost') /\ (~lost' /\ ~link' => ~lost /\ ~link)
BY DEF WithConnection

LEMMA MessagesOfLoop ==
    ASSUME SubscriberTypes, MessageInv, LoopRuns \/ ConnectionFault
    PROVE  MessageInv'
<1>1. PICK r \in Seq(Incoming) : r = replies
  BY DEF SubscriberTypes
<1>2. /\ \E n \in 0 .. Len(replies) : replies' = SubSeq(replies, 1, n)
      /\ ~TaskFailed /\ ~LoseLink => UNCHANGED replies
      /\ TaskFailed => replies' = <<>>
      /\ UNCHANGED <<trunkQueue, delivered, pushed>>
  BY <1>1, RepliesLeft
<1>3. PICK n \in 0 .. Len(r) : replies' = SubSeq(r, 1, n)
  BY <1>1, <1>2
<1>4. (lost => lost') /\ (~lost' /\ ~link' => ~lost /\ ~link)
  BY LossSeen DEF LoopRuns, ConnectionFault
<1>5. Msgs(SubSeq(r, 1, n)) \subseteq Msgs(r) /\ (Ascending(r) => Ascending(SubSeq(r, 1, n)))
  BY MessagesPrefix
<1>6. Msgs(replies)' \subseteq Msgs(replies) /\ Ascending(replies)'
  BY <1>1, <1>3, <1>5 DEF MessageInv
<1>7. ~lost' => UNCHANGED replies
  <2>1. CASE TaskFailed
    BY <1>2, <1>4, <2>1 DEF MessageInv, TaskFailed, ResetAfterFailure
  <2>2. CASE LoseLink
    <3>1. lost' = (lost \/ (link /\ ~link')) /\ link /\ ~link'
      BY <2>2 DEF LoseLink, LoopRuns, ConnectionFault, WithConnection
    <3> QED
      BY <3>1
  <2> QED
    BY <1>2, <2>1, <2>2
<1>8. lost' \/ Msgs(replies)' = Msgs(replies)
  BY <1>7
<1>9. ~lost' /\ ~link' => replies' = <<>>
  BY <1>4, <1>7 DEF MessageInv
<1>10. Ascending(delivered)' /\ Ascending(trunkQueue)'
       /\ Msgs(delivered)' = Msgs(delivered) /\ Msgs(trunkQueue)' = Msgs(trunkQueue)
  BY <1>2 DEF MessageInv
<1> QED
  BY <1>2, <1>4, <1>6, <1>8, <1>9, <1>10, MessagesApart

LEMMA MessagesOfReply ==
    ASSUME SubscriberTypes, SubscriberTypes', MessageInv, ReceiveReply
    PROVE  MessageInv'
<1>1. /\ replies' = Tail(replies) /\ replies # <<>> /\ ~IsMessage(Head(replies))
      /\ \/ UNCHANGED <<completed, trunkQueue, promised>>
         \/ \E x \in Completion : completed' = Append(completed, x) /\ Post(x)
      /\ UNCHANGED <<delivered, pushed>>
  BY ReplyPosted DEF SubscriberTypes
<1>2. PICK r \in Seq(Incoming) : r = replies
  BY DEF SubscriberTypes
<1>3. PICK t \in Seq(Outgoing) : t = trunkQueue
  BY DEF SubscriberTypes
<1>4. (lost => lost') /\ (~lost' /\ ~link' => ~lost /\ ~link)
  BY LossSeen DEF ReceiveReply
<1>5. Msgs(replies)' = Msgs(replies) /\ Ascending(replies)'
  <2>1. Msgs(r) = Msgs(Tail(r)) /\ (Ascending(r) => Ascending(Tail(r)))
    BY <1>1, <1>2, MessagesTail
  <2> QED
    BY <1>1, <1>2, <2>1 DEF MessageInv
<1>6. Msgs(trunkQueue)' = Msgs(trunkQueue) /\ Ascending(trunkQueue)'
  <2>1. CASE UNCHANGED trunkQueue
    BY <2>1 DEF MessageInv
  <2>2. ASSUME NEW x \in Completion, trunkQueue' = Append(t, x)
        PROVE  Msgs(trunkQueue)' = Msgs(trunkQueue) /\ Ascending(trunkQueue)'
    <3>1. x \in Outgoing /\ ~IsMessage(x)
      BY Kinds DEF Outgoing
    <3>2. /\ Msgs(Append(t, x)) = Msgs(t)
          /\ Ascending(t) => Ascending(Append(t, x))
      BY <3>1, MessageAppended
    <3> QED
      BY <1>3, <2>2, <3>2 DEF MessageInv
  <2> QED
    BY <1>1, <1>3, <2>1, <2>2 DEF Post
<1>7. ~(~lost' /\ ~link')
  BY <1>1, <1>4 DEF MessageInv
<1>8. Ascending(delivered)' /\ Msgs(delivered)' = Msgs(delivered)
  BY <1>1 DEF MessageInv
<1> QED
  BY <1>1, <1>4, <1>5, <1>6, <1>7, <1>8, MessagesApart

LEMMA MessagesOfServer ==
    ASSUME SubscriberTypes, MessageInv, ServerAnswers \/ (\E topic \in Topic : ServerPushes(topic))
    PROVE  MessageInv'
<1>1. PICK r \in Seq(Incoming) : r = replies
  BY DEF SubscriberTypes
<1>2. link' /\ UNCHANGED <<delivered, trunkQueue, lost>>
  BY DEF ServerAnswers, ServerPushes, mainVars, trunkVars
<1>3. /\ Ascending(delivered)' /\ Msgs(delivered)' = Msgs(delivered)
      /\ Ascending(trunkQueue)' /\ Msgs(trunkQueue)' = Msgs(trunkQueue)
  BY <1>2 DEF MessageInv
<1>4. CASE ServerAnswers
  <2>1. UNCHANGED pushed
    BY <1>4 DEF ServerAnswers
  <2>2. PICK x \in Reply : replies' = Append(r, x)
    BY <1>1, <1>4, OneAnswer DEF SubscriberTypes
  <2>3. x \in Incoming /\ ~IsMessage(x)
    BY Kinds DEF Incoming
  <2>4. Msgs(Append(r, x)) = Msgs(r) /\ (Ascending(r) => Ascending(Append(r, x)))
    BY <2>3, MessageAppended
  <2>5. Msgs(replies)' = Msgs(replies) /\ Ascending(replies)'
    BY <1>1, <2>2, <2>4 DEF MessageInv
  <2> QED
    BY <1>2, <1>3, <2>1, <2>5, MessagesApart
<1>5. ASSUME NEW topic \in Topic, ServerPushes(topic) PROVE MessageInv'
  <2>1. PICK p \in Seq(Topic) : p = pushed
    BY DEF SubscriberTypes
  <2>2. pushed' = Append(p, topic)
    BY <1>5, <2>1 DEF ServerPushes
  <2>3. PICK y \in Messages : y.idx = Len(p) + 1 /\ y.topic = topic /\ replies' = Append(r, y)
    BY <1>1, <1>5, <2>1, PushedMessage
  <2>4. y \in Incoming /\ IsMessage(y)
    BY Kinds DEF Incoming
  <2>5. /\ Msgs(Append(r, y)) = Msgs(r) \cup {y}
        /\ Ascending(r) /\ Before(Msgs(r), {y}) => Ascending(Append(r, y))
    BY <2>4, MessageAppended
  <2>6. AllMsgs' = AllMsgs \cup {y}
    BY <1>1, <1>3, <2>3, <2>5 DEF AllMsgs
  <2>7. /\ Len(p) \in Nat /\ DOMAIN p = 1 .. Len(p)
        /\ DOMAIN Append(p, topic) = 1 .. (Len(p) + 1)
        /\ \A k \in 1 .. Len(p) : Append(p, topic)[k] = p[k]
        /\ Append(p, topic)[Len(p) + 1] = topic
    BY AppendProperties
  <2>8. Before(AllMsgs, {y})
    <3>1. \A x \in AllMsgs : x.idx \in 1 .. Len(p)
      BY <2>1, <2>7 DEF MessageInv, Genuine
    <3> QED
      BY <2>3, <2>7, <3>1 DEF Before
  <2>9. Ascending(replies)' /\ InOrder(Msgs(delivered), Msgs(trunkQueue), Msgs(replies))'
    <3>1. /\ Before(Msgs(delivered), {y}) /\ Before(Msgs(trunkQueue), {y}) /\ Before(Msgs(r), {y})
      BY <1>1, <2>8 DEF Before, AllMsgs
    <3>2. Msgs(replies)' = Msgs(r) \cup {y} /\ Ascending(replies)'
      BY <1>1, <2>3, <2>5, <3>1 DEF MessageInv
    <3> QED
      BY <1>1, <1>3, <3>1, <3>2 DEF MessageInv, InOrder, Before
  <2>10. Genuine(AllMsgs', Append(p, topic))
    <3>1. Genuine(AllMsgs, p)
      BY <2>1 DEF MessageInv
    <3>2. \A x \in AllMsgs : x.idx \in DOMAIN Append(p, topic) /\ x.topic = Append(p, topic)[x.idx]
      BY <2>7, <3>1 DEF Genuine
    <3>3. y.idx \in DOMAIN Append(p, topic) /\ y.topic = Append(p, topic)[y.idx]
      BY <2>3, <2>7
    <3> QED
      BY <2>6, <3>2, <3>3 DEF Genuine
  <2>11. ~lost => Covered(AllMsgs', Append(p, topic))
    <3>1. \A n \in DOMAIN Append(p, topic) : n \in DOMAIN p \/ n = Len(p) + 1
      BY <2>7
    <3> QED
      BY <2>1, <2>3, <2>6, <3>1 DEF MessageInv, Covered
  <2> QED
    BY <1>2, <1>3, <2>2, <2>9, <2>10, <2>11 DEF MessageInv
<1> QED
  BY <1>4, <1>5

(* BlockingCommit() hands its caller a reply, never a message. *)
LEMMA MessagesOfMain ==
    ASSUME SubscriberTypes, MessageInv,
           Ask \/ CallGoesOn \/ ShutdownBegins \/ ReadPipeAndCommit \/ Quits \/ UNCHANGED allVars
    PROVE  MessageInv'
<1>1. UNCHANGED <<trunkQueue, replies, link, pushed, lost>>
  BY DEF Ask, Subscribe, Unsubscribe, Psubscribe, Punsubscribe, Publish, Pubsub, CommitOne,
         CommitCommands, NothingCommitted, clientVars, AddMessageCb, RemoveMessageCb, quietMain,
         CallGoesOn, Notify, BlockingCommitReturns, ShutdownReturns, ShutdownBegins, Shutdown,
         ReadPipeAndCommit, ReadPipe, SendAndCommit, Quits, WorkerQuits, allVars, subscriberVars,
         connVars, serverVars, trunkVars
<1>2. Msgs(delivered)' = Msgs(delivered) /\ Ascending(delivered)'
  <2>1. CASE UNCHANGED delivered
    BY <2>1 DEF MessageInv
  <2>2. CASE BlockingCommitReturns
    <3>1. PICK p \in Seq(Completion) : p = promised
      BY DEF SubscriberTypes
    <3>2. PICK d \in Seq(Outgoing) : d = delivered
      BY DEF SubscriberTypes
    <3>3. p \in Seq(Outgoing) /\ \A i \in DOMAIN p : ~IsMessage(p[i])
      BY Kinds DEF Outgoing
    <3>4. Msgs(p) = {} /\ Ascending(p)
      BY <3>3, MessagesNone
    <3>5. /\ Msgs(d \o p) = Msgs(d) \cup Msgs(p)
          /\ Ascending(d) /\ Ascending(p) /\ Before(Msgs(d), Msgs(p)) => Ascending(d \o p)
      BY <3>3, MessagesConcat
    <3>6. Before(Msgs(d), Msgs(p))
      BY <3>4 DEF Before
    <3>7. delivered' = d \o p
      BY <2>2, <3>1, <3>2 DEF BlockingCommitReturns
    <3>8. Ascending(d)
      BY <3>2 DEF MessageInv
    <3> QED
      BY <3>2, <3>4, <3>5, <3>6, <3>7, <3>8
  <2>3. CASE ~BlockingCommitReturns
    <3>1. UNCHANGED delivered
      BY <2>3
         DEF Ask, Subscribe, Unsubscribe, Psubscribe, Punsubscribe, Publish, Pubsub, CommitOne,
             CommitCommands, NothingCommitted, clientVars, AddMessageCb, RemoveMessageCb,
             CallGoesOn, Notify, ShutdownReturns, ShutdownBegins, Shutdown,
             ReadPipeAndCommit, ReadPipe, Quits, WorkerQuits, allVars, mainVars
    <3> QED
      BY <2>1, <3>1
  <2> QED
    BY <2>2, <2>3
<1>3. /\ Msgs(trunkQueue)' = Msgs(trunkQueue) /\ Ascending(trunkQueue)'
      /\ Msgs(replies)' = Msgs(replies) /\ Ascending(replies)'
      /\ (~lost' /\ ~link' => replies' = <<>>)
  BY <1>1 DEF MessageInv
<1> QED
  BY <1>1, <1>2, <1>3, MessagesApart

LEMMA MessageInvNext ==
    SubscriberTypes /\ SubscriberTypes' /\ MessageInv /\ [SubscriberNext]_allVars => MessageInv'
BY MessagesOfMain, MessagesDispatch, MessagesReceive, MessagesOfReply, MessagesOfLoop,
   MessagesOfServer
   DEF SubscriberNext, WorkerRuns

LEMMA MessageInvAlways == SubscriberSpec => [](SubscriberTypes /\ MessageInv)
<1>1. SubscriberInit => SubscriberTypes /\ MessageInv
  BY SubscriberTypesInit, MessageInvInit
<1>2. SubscriberTypes /\ MessageInv /\ [SubscriberNext]_allVars => SubscriberTypes' /\ MessageInv'
  BY SubscriberTypesNext, MessageInvNext
<1> QED
  BY <1>1, <1>2, PTL DEF SubscriberSpec

(* RunOnce() dispatches messages in the server's order, each at most once and with its
   own topic, and none is missing but those that were on their way when a connection
   was lost (MessagesInOrder): between the two, the reply builder, the deque, the trunk
   queue and the replies of blocking calls neither repeat, lose nor exchange any. *)
THEOREM AlwaysMessagesInOrder == SubscriberSpec => []MessagesInOrder
<1>1. ASSUME SubscriberTypes, MessageInv PROVE MessagesInOrder
  <2>1. PICK d \in Seq(Outgoing) : d = delivered
    BY <1>1 DEF SubscriberTypes
  <2>2. PICK t \in Seq(Outgoing) : t = trunkQueue
    BY <1>1 DEF SubscriberTypes
  <2>3. PICK r \in Seq(Incoming) : r = replies
    BY <1>1 DEF SubscriberTypes
  <2> DEFINE T   == Incoming \cup Outgoing
             dt  == d \o t
             all == dt \o r
  <2>4. d \in Seq(T) /\ t \in Seq(T) /\ r \in Seq(T) /\ dt \in Seq(T)
    OBVIOUS
  <2>5. /\ Msgs(dt) = Msgs(d) \cup Msgs(t)
        /\ Ascending(d) /\ Ascending(t) /\ Before(Msgs(d), Msgs(t)) => Ascending(dt)
    BY <2>4, MessagesConcat
  <2>6. /\ Msgs(all) = Msgs(dt) \cup Msgs(r)
        /\ Ascending(dt) /\ Ascending(r) /\ Before(Msgs(dt), Msgs(r)) => Ascending(all)
    <3> HIDE DEF dt, T
    <3> QED
      BY <2>4, MessagesConcat
  <2>7. /\ Ascending(d) /\ Ascending(t) /\ Ascending(r)
        /\ InOrder(Msgs(d), Msgs(t), Msgs(r))
        /\ Genuine(Msgs(d) \cup Msgs(t) \cup Msgs(r), pushed)
        /\ ~lost => Covered(Msgs(d) \cup Msgs(t) \cup Msgs(r), pushed)
    BY <1>1, <2>1, <2>2, <2>3 DEF MessageInv, AllMsgs
  <2> HIDE DEF dt, all
  <2>8. Ascending(all)
    BY <2>5, <2>6, <2>7 DEF InOrder, Before
  <2>9. Genuine(Msgs(all), pushed) /\ (~lost => Covered(Msgs(all), pushed))
    BY <2>5, <2>6, <2>7
  <2>10. /\ \A i \in {i \in DOMAIN all : IsMessage(all[i])} :
              all[i].idx \in DOMAIN pushed /\ all[i].topic = pushed[all[i].idx]
         /\ \A i, j \in {i \in DOMAIN all : IsMessage(all[i])} :
              i < j => all[i].idx < all[j].idx
         /\ ~lost => \A n \in DOMAIN pushed :
                        \E i \in {i \in DOMAIN all : IsMessage(all[i])} : all[i].idx = n
    BY <2>8, <2>9 DEF Ascending, Genuine, Covered, Msgs
  <2>11. all = delivered \o trunkQueue \o replies
    BY <2>1, <2>2, <2>3 DEF all, dt
  <2> QED
    BY <2>10, <2>11 DEF MessagesInOrder
<1> QED
  BY <1>1, MessageInvAlways, PTL

-----------------------------------------------------------------------------
(* Message callbacks.                                                       *)

Underway == Msgs(trunkQueue) \cup Msgs(replies)

(* Callbacks of one kind have different names, and have been called for messages before
   all that are still to be dispatched. *)
HeardInv ==
    /\ \A kind \in {"channel", "pattern"} : Distinct(holders[kind])
    /\ HeardOnceInOrder
    /\ \A k \in DOMAIN heard : /\ heard[k].idx \in DOMAIN pushed
                               /\ \A x \in Underway : heard[k].idx < x.idx

LEMMA HeardInvInit == SubscriberInit => HeardInv
BY DEF SubscriberInit, HeardInv, HeardOnceInOrder, Distinct

LEMMA NameAdded ==
    ASSUME NEW T, NEW s \in Seq(T), NEW e \in T, Distinct(s), e \notin Range(s)
    PROVE  Distinct(Append(s, e))
<1>1. /\ DOMAIN Append(s, e) = 1 .. (Len(s) + 1) /\ Len(s) \in Nat /\ DOMAIN s = 1 .. Len(s)
      /\ \A i \in 1 .. Len(s) : Append(s, e)[i] = s[i]
      /\ Append(s, e)[Len(s) + 1] = e
  BY AppendProperties
<1>2. \A i \in DOMAIN s : s[i] # e
  BY DEF Range
<1> QED
  BY <1>1, <1>2 DEF Distinct

(* Registering or removing a callback leaves the names different. *)
LEMMA NamesStayDistinct ==
    ASSUME SubscriberTypes, \A kind \in {"channel", "pattern"} : Distinct(holders[kind]),
           [SubscriberNext]_allVars
    PROVE  \A kind \in {"channel", "pattern"} : Distinct(holders'[kind])
<1>1. holders \in [{"channel", "pattern"} -> Seq(Holder)]
  BY DEF SubscriberTypes
<1>2. ASSUME NEW kind \in {"channel", "pattern"}, NEW h \in Holder,
             AddMessageCb(kind, h) \/ RemoveMessageCb(kind, h)
      PROVE  \A k \in {"channel", "pattern"} : Distinct(holders'[k])
  <2>1. PICK q \in Seq(Holder) : q = holders[kind] /\ Distinct(q)
    BY <1>1
  <2>2. Distinct(RemoveFirst(q, h)) /\ (h \notin Range(q) => Distinct(Append(q, h)))
    BY <2>1, RemovedOnce, NameAdded
  <2>3. \E r : Distinct(r) /\ holders' = [holders EXCEPT ![kind] = r]
    BY <1>2, <2>1, <2>2 DEF AddMessageCb, RemoveMessageCb
  <2> QED
    BY <1>1, <2>3
<1>3. CASE UNCHANGED holders
  BY <1>3
<1>4. CASE ~ \E kind \in {"channel", "pattern"}, h \in Holder :
                AddMessageCb(kind, h) \/ RemoveMessageCb(kind, h)
  <2>1. UNCHANGED holders
    BY <1>4
       DEF SubscriberNext, Ask, Subscribe, Unsubscribe, Psubscribe, Punsubscribe, Publish, Pubsub,
           quietMain, DispatchOne, CallGoesOn, ShutdownBegins, WorkerRuns, ReadPipeAndCommit,
           LoopRuns,
           WithConnection, ReceiveReply, ReceiveMessage, MessageRead, ConnectionFault, Quits,
           ServerAnswers, ServerPushes, subscriberVars, allVars
  <2> QED
    BY <1>3, <2>1
<1> QED
  BY <1>2, <1>4

LEMMA HeardDispatch ==
    ASSUME SubscriberTypes, MessageInv, HeardInv, DispatchOne,
           \A kind \in {"channel", "pattern"} : Distinct(holders'[kind])
    PROVE  HeardInv'
<1>1. /\ trunkQueue # <<>> /\ trunkQueue' = Tail(trunkQueue)
      /\ UNCHANGED <<replies, pushed, holders>>
  BY DEF DispatchOne, RunOnce, connVars, serverVars
<1>2. PICK t \in Seq(Outgoing) : t = trunkQueue
  BY DEF SubscriberTypes
<1>3. PICK x \in Outgoing : x = Head(t)
  BY <1>1, <1>2, HeadTailProperties
<1>4. /\ Msgs(t) = IF IsMessage(x) THEN Msgs(Tail(t)) \cup {x} ELSE Msgs(Tail(t))
      /\ Ascending(t) /\ IsMessage(x) => Before({x}, Msgs(Tail(t)))
  BY <1>1, <1>2, <1>3, MessagesTail
<1>5. Underway' = Msgs(Tail(t)) \cup Msgs(replies) /\ Underway = Msgs(t) \cup Msgs(replies)
  BY <1>1, <1>2 DEF Underway
<1>6. Underway' \subseteq Underway
  BY <1>4, <1>5
<1>7. CASE ~IsMessage(x)
  <2>1. UNCHANGED heard
    BY <1>2, <1>3, <1>7 DEF DispatchOne
  <2> QED
    BY <1>1, <1>6, <2>1 DEF HeardInv, HeardOnceInOrder
<1>8. CASE IsMessage(x)
  <2> DEFINE CallOf == [holder : Holder, idx : Nat]
  <2>1. x \in Messages /\ KindOf(x.topic) \in {"channel", "pattern"}
    BY <1>8, Kinds DEF Outgoing, KindOf
  <2>2. PICK hs \in Seq(Holder) : hs = holders[KindOf(x.topic)] /\ Distinct(hs)
    BY <2>1 DEF SubscriberTypes, HeardInv
  <2>3. PICK n \in Nat : n = x.idx
    BY <2>1 DEF Messages
  <2>4. PICK h \in Seq(CallOf) : h = heard
    BY DEF SubscriberTypes
  <2> DEFINE c == [k \in 1 .. Len(hs) |-> [holder |-> hs[k], idx |-> n]]
  <2>5. c \in Seq(CallOf) /\ Len(c) = Len(hs) /\ DOMAIN c = DOMAIN hs
        /\ \A k \in DOMAIN c : c[k].holder = hs[k] /\ c[k].idx = n
    <3>1. Len(hs) \in Nat /\ \A k \in 1 .. Len(hs) : [holder |-> hs[k], idx |-> n] \in CallOf
      OBVIOUS
    <3>2. c \in Seq(CallOf)
      <4> HIDE DEF CallOf
      <4> QED
        BY <3>1, IsASeq
    <3> QED
      BY <3>2
  <2>6. heard' = h \o c
    <3>1. heard' = heard \o [k \in DOMAIN hs |-> [holder |-> hs[k], idx |-> x.idx]]
      BY <1>2, <1>3, <1>8, <2>2 DEF DispatchOne
    <3>2. c = [k \in DOMAIN hs |-> [holder |-> hs[k], idx |-> x.idx]]
      BY <2>3
    <3> QED
      BY <2>4, <3>1, <3>2
  <2> HIDE DEF c, CallOf
  <2> DEFINE g == h \o c
  <2> HIDE DEF g
  <2>7. PICK calls \in Seq(CallOf) : calls = c
    BY <2>5
  <2>8. /\ DOMAIN g \subseteq Int /\ Len(h) \in Nat
        /\ \A k \in DOMAIN g :
              \/ k \in DOMAIN h /\ g[k] = h[k]
              \/ k > Len(h) /\ k - Len(h) \in DOMAIN c /\ g[k] = c[k - Len(h)]
        /\ \A i \in DOMAIN h : i <= Len(h)
        /\ \A i \in DOMAIN g : i <= Len(h) => i \in DOMAIN h
        /\ \A i \in DOMAIN h : g[i] = h[i]
    <3>1. g = h \o calls
      BY <2>7 DEF g
    <3> QED
      BY <2>7, <3>1, ConcatItems
  <2>9. x \in Underway /\ x \in AllMsgs
    BY <1>2, <1>4, <1>5, <1>8 DEF AllMsgs
  <2>10. \A k \in DOMAIN h : h[k].idx < n /\ h[k].idx \in DOMAIN pushed
    BY <2>3, <2>4, <2>9 DEF HeardInv
  <2>11. n \in DOMAIN pushed
    BY <2>3, <2>9 DEF MessageInv, Genuine
  <2>12. \A y \in Underway' : n < y.idx
    <3>1. Before({x}, Msgs(Tail(t))) /\ Before({x}, Msgs(replies))
      BY <1>2, <1>4, <1>8 DEF MessageInv, InOrder, Before
    <3> QED
      BY <1>5, <2>3, <3>1 DEF Before
  <2>13. \A k \in DOMAIN g : g[k].idx \in DOMAIN pushed /\ \A y \in Underway' : g[k].idx < y.idx
    <3>1. \A k \in DOMAIN h : \A y \in Underway' : h[k].idx < y.idx
      BY <1>6, <2>4 DEF HeardInv
    <3> QED
      BY <2>5, <2>8, <2>10, <2>11, <2>12, <3>1
  <2>14. \A i, j \in DOMAIN g : i < j /\ g[i].holder = g[j].holder => g[i].idx < g[j].idx
    <3> SUFFICES ASSUME NEW i \in DOMAIN g, NEW j \in DOMAIN g, i < j, g[i].holder = g[j].holder
                 PROVE  g[i].idx < g[j].idx
      OBVIOUS
    <3>1. i \in Int /\ j \in Int /\ Len(h) \in Int
      BY <2>8
    <3>2. CASE j \in DOMAIN h /\ g[j] = h[j]
      <4>1. i \in DOMAIN h /\ g[i] = h[i]
        <5>1. i <= Len(h)
          BY <2>8, <3>1, <3>2
        <5> QED
          BY <2>8, <5>1
      <4> QED
        BY <2>4, <3>2, <4>1 DEF HeardInv, HeardOnceInOrder
    <3>3. CASE j > Len(h) /\ j - Len(h) \in DOMAIN c /\ g[j] = c[j - Len(h)]
      <4>1. CASE i \in DOMAIN h /\ g[i] = h[i]
        BY <2>5, <2>10, <3>3, <4>1
      <4>2. CASE i > Len(h) /\ i - Len(h) \in DOMAIN c /\ g[i] = c[i - Len(h)]
        <5>1. hs[i - Len(h)] = hs[j - Len(h)]
          BY <2>5, <3>3, <4>2
        <5>2. i - Len(h) = j - Len(h)
          BY <2>2, <2>5, <3>3, <4>2, <5>1 DEF Distinct
        <5> QED
          BY <3>1, <5>2
      <4> QED
        BY <2>8, <4>1, <4>2
    <3> QED
      BY <2>8, <3>2, <3>3
  <2>15. heard' = g
    BY <2>6 DEF g
  <2> QED
    BY <1>1, <2>13, <2>14, <2>15 DEF HeardInv, HeardOnceInOrder
<1> QED
  BY <1>7, <1>8

(* A step that dispatches nothing adds to what is under way only a message newer than all. *)
LEMMA HeardKept ==
    ASSUME HeardInv, UNCHANGED heard, \A kind \in {"channel", "pattern"} : Distinct(holders'[kind]),
           DOMAIN pushed \subseteq DOMAIN pushed',
           \A x \in Underway' : x \in Underway \/ \A n \in DOMAIN pushed : n < x.idx
    PROVE  HeardInv'
BY DEF HeardInv, HeardOnceInOrder

LEMMA UnderwayReceive ==
    ASSUME SubscriberTypes, SubscriberTypes', ReceiveMessage \/ ReceiveReply
    PROVE  Underway' = Underway
<1>1. PICK r \in Seq(Incoming) : r = replies
  BY DEF SubscriberTypes
<1>2. PICK t \in Seq(Outgoing) : t = trunkQueue
  BY DEF SubscriberTypes
<1>3. CASE ReceiveMessage
  <2>1. /\ r # <<>> /\ IsMessage(Head(r)) /\ replies' = Tail(r)
        /\ trunkQueue' = Append(t, Head(r))
    BY <1>1, <1>2, <1>3 DEF ReceiveMessage, MessageRead, ToTrunk, HasReply
  <2>2. PICK x \in Messages : x = Head(r)
    BY <2>1, HeadTailProperties, Kinds DEF Incoming
  <2>3. x \in Outgoing /\ IsMessage(x)
    BY Kinds DEF Outgoing
  <2>4. Msgs(r) = Msgs(Tail(r)) \cup {x} /\ Msgs(Append(t, x)) = Msgs(t) \cup {x}
    BY <2>1, <2>2, <2>3, MessagesTail, MessageAppended
  <2> QED
    BY <1>1, <1>2, <2>1, <2>2, <2>4 DEF Underway
<1>4. CASE ReceiveReply
  <2>1. /\ replies' = Tail(r) /\ r # <<>> /\ ~IsMessage(Head(r))
        /\ UNCHANGED trunkQueue \/ \E x \in Completion : trunkQueue' = Append(t, x)
    BY <1>1, <1>2, <1>4, ReplyPosted DEF SubscriberTypes, Post
  <2>2. Msgs(r) = Msgs(Tail(r))
    BY <2>1, MessagesTail
  <2>3. ASSUME NEW x \in Completion PROVE Msgs(Append(t, x)) = Msgs(t)
    <3>1. x \in Outgoing /\ ~IsMessage(x)
      BY Kinds DEF Outgoing
    <3> QED
      BY <3>1, MessageAppended
  <2>4. Msgs(trunkQueue)' = Msgs(t)
    BY <1>2, <2>1, <2>3
  <2> QED
    BY <1>1, <1>2, <2>1, <2>2, <2>4 DEF Underway
<1> QED
  BY <1>3, <1>4

LEMMA UnderwayKept ==
    ASSUME SubscriberTypes, SubscriberTypes', MessageInv, [SubscriberNext]_allVars, ~DispatchOne
    PROVE  /\ DOMAIN pushed \subseteq DOMAIN pushed'
           /\ \A x \in Underway' : x \in Underway \/ \A n \in DOMAIN pushed : n < x.idx
<1>1. CASE LoopRuns \/ ConnectionFault
  <2>1. PICK r \in Seq(Incoming) : r = replies
    BY DEF SubscriberTypes
  <2>2. PICK n \in 0 .. Len(r) : replies' = SubSeq(r, 1, n)
    BY <1>1, <2>1, RepliesLeft
  <2>3. Msgs(SubSeq(r, 1, n)) \subseteq Msgs(r)
    BY MessagesPrefix
  <2>4. UNCHANGED <<trunkQueue, pushed>>
    BY <1>1, <2>1, RepliesLeft
  <2> QED
    BY <2>1, <2>2, <2>3, <2>4 DEF Underway
<1>2. CASE ReceiveMessage \/ ReceiveReply
  <2>1. UNCHANGED pushed
    BY <1>2 DEF ReceiveMessage, MessageRead, subscriberVars, ReceiveReply, WithConnection
  <2> QED
    BY <1>2, <2>1, UnderwayReceive
<1>3. CASE ServerAnswers
  <2>1. PICK r \in Seq(Incoming) : r = replies
    BY DEF SubscriberTypes
  <2>2. PICK x \in Reply : replies' = Append(r, x)
    BY <1>3, <2>1, OneAnswer DEF SubscriberTypes
  <2>3. x \in Incoming /\ ~IsMessage(x)
    BY Kinds DEF Incoming
  <2>4. Msgs(Append(r, x)) = Msgs(r)
    BY <2>3, MessageAppended
  <2>5. UNCHANGED <<trunkQueue, pushed>>
    BY <1>3 DEF ServerAnswers, trunkVars
  <2> QED
    BY <2>1, <2>2, <2>4, <2>5 DEF Underway
<1>4. ASSUME NEW topic \in Topic, ServerPushes(topic)
      PROVE  /\ DOMAIN pushed \subseteq DOMAIN pushed'
             /\ \A x \in Underway' : x \in Underway \/ \A n \in DOMAIN pushed : n < x.idx
  <2>1. PICK r \in Seq(Incoming) : r = replies
    BY DEF SubscriberTypes
  <2>2. PICK p \in Seq(Topic) : p = pushed
    BY DEF SubscriberTypes
  <2>3. PICK y \in Messages : y.idx = Len(p) + 1 /\ replies' = Append(r, y)
    BY <1>4, <2>1, <2>2, PushedMessage
  <2>4. y \in Incoming /\ IsMessage(y)
    BY Kinds DEF Incoming
  <2>5. Msgs(Append(r, y)) = Msgs(r) \cup {y}
    BY <2>4, MessageAppended
  <2>6. UNCHANGED trunkQueue /\ pushed' = Append(p, topic)
    BY <1>4, <2>2 DEF ServerPushes, trunkVars
  <2>7. DOMAIN p \subseteq DOMAIN Append(p, topic) /\ \A n \in DOMAIN p : n < Len(p) + 1
    BY AppendProperties
  <2>8. Underway' = Underway \cup {y}
    BY <2>1, <2>3, <2>5, <2>6 DEF Underway
  <2> QED
    BY <2>2, <2>3, <2>6, <2>7, <2>8
<1>5. CASE Ask \/ CallGoesOn \/ ShutdownBegins \/ ReadPipeAndCommit \/ Quits \/ UNCHANGED allVars
  <2>1. UNCHANGED <<trunkQueue, replies, pushed>>
    BY <1>5
       DEF Ask, Subscribe, Unsubscribe, Psubscribe, Punsubscribe, Publish, Pubsub, CommitOne,
           CommitCommands, NothingCommitted, clientVars, AddMessageCb, RemoveMessageCb, quietMain,
           CallGoesOn, Notify, BlockingCommitReturns, ShutdownReturns, ShutdownBegins, Shutdown,
           ReadPipeAndCommit, ReadPipe, SendAndCommit, Quits, WorkerQuits, allVars, subscriberVars,
           connVars, serverVars, trunkVars
  <2> QED
    BY <2>1 DEF Underway
<1> QED
  BY <1>1, <1>2, <1>3, <1>4, <1>5 DEF SubscriberNext, WorkerRuns

LEMMA HeardInvNext ==
    ASSUME SubscriberTypes, SubscriberTypes', MessageInv, HeardInv, [SubscriberNext]_allVars
    PROVE  HeardInv'
<1>1. \A kind \in {"channel", "pattern"} : Distinct(holders'[kind])
  BY NamesStayDistinct DEF HeardInv
<1>2. CASE DispatchOne
  BY <1>1, <1>2, HeardDispatch
<1>3. CASE ~DispatchOne
  <2>1. UNCHANGED heard
    BY <1>3
       DEF SubscriberNext, Ask, Subscribe, Unsubscribe, Psubscribe, Punsubscribe, Publish, Pubsub,
           quietMain, AddMessageCb, RemoveMessageCb, CallGoesOn, ShutdownBegins, WorkerRuns,
           ReadPipeAndCommit, LoopRuns, WithConnection, ReceiveReply, ReceiveMessage, MessageRead,
           ConnectionFault, Quits, ServerAnswers, ServerPushes, subscriberVars, allVars
  <2> QED
    BY <1>1, <1>3, <2>1, UnderwayKept, HeardKept
<1> QED
  BY <1>2, <1>3

(* However callbacks are registered, replaced and removed between messages, none is called
   twice for a message, or for an older one later (HeardOnceInOrder): the vectors of
   CRedisSubscriber hold a name once. *)
THEOREM AlwaysHeardOnceInOrder == SubscriberSpec => []HeardOnceInOrder
<1>1. SubscriberInit => SubscriberTypes /\ MessageInv /\ HeardInv
  BY SubscriberTypesInit, MessageInvInit, HeardInvInit
<1>2. SubscriberTypes /\ MessageInv /\ HeardInv /\ [SubscriberNext]_allVars
        => SubscriberTypes' /\ MessageInv' /\ HeardInv'
  BY SubscriberTypesNext, MessageInvNext, HeardInvNext
<1>3. HeardInv => HeardOnceInOrder
  BY DEF HeardInv
<1> QED
  BY <1>1, <1>2, <1>3, PTL DEF SubscriberSpec

-----------------------------------------------------------------------------
(* Commands and subscriptions.                                              *)

(* The pipelines of the commands between the threads, as in the client. *)
CommandOrder == \E m \in Nat : Cl!HandedOver(m)

LEMMA ReadsAsClient == ReadPipe => Cl!ReadPipe
<1> SUFFICES ASSUME ReadPipe PROVE Cl!ReadPipe
  OBVIOUS
<1>1. workQueue = <<>> => UNCHANGED Cl!connVars
  <2>1. UNCHANGED connVars => UNCHANGED AnswersIn(replies)
    BY AnswersKept DEF connVars, serverVars
  <2> QED
    BY <2>1 DEF ReadPipe, connVars, Cl!connVars, serverVars, Cl!serverVars, delayVars, Cl!delayVars,
                tcpVars, Cl!tcpVars
<1>2. workQueue # <<>> => Cl!SendAndCommit(workQueue)
  BY SendsAsClient DEF ReadPipe
<1> QED
  BY <1>1, <1>2 DEF ReadPipe, Cl!ReadPipe, mainVars, Cl!mainVars, trunkVars, Cl!trunkVars

LEMMA CommandOrderInit == SubscriberInit => CommandOrder
<1> SUFFICES ASSUME SubscriberInit PROVE CommandOrder
  OBVIOUS
<1>1. Cl!ClientInit
  <2>1. replies = <<>>
    BY DEF SubscriberInit, ClientInit, Init
  <2> QED
    BY <2>1, AnswersNone DEF SubscriberInit, ClientInit, Init, Cl!ClientInit, Cl!Init
<1>2. Cl!OrderInv
  BY <1>1, Parameters, Cl!OrderInvInit
<1> QED
  BY <1>2 DEF Cl!OrderInv, CommandOrder

(* Which steps touch the queues of pipelines. *)
LEMMA QueueSteps ==
    ASSUME replies \in Seq(Incoming), pushed \in Seq(Topic), [SubscriberNext]_allVars
    PROVE  \/ \E call, op, topic : CommitOne(call, op, topic)
           \/ ReadPipe
           \/ Cl!ConnProgress \/ Cl!ConnFault
           \/ UNCHANGED <<dqCommon, completed>>
<1>1. \/ UNCHANGED Cl!connVars
      \/ Cl!SendAndCommit(workQueue) /\ ReadPipe
      \/ (Cl!ConnProgress \/ Cl!ConnFault) /\ UNCHANGED <<workQueue, nextSn>>
      \/ ServerAnswers
  BY ConnSteps
<1>2. ServerAnswers => UNCHANGED <<dqCommon, completed>>
  BY DEF ServerAnswers
<1>3. UNCHANGED Cl!connVars => UNCHANGED <<dqCommon, completed>>
  BY DEF Cl!connVars
<1> QED
  BY <1>1, <1>2, <1>3

LEMMA AskCommits ==
    ASSUME Ask
    PROVE  (\E call, op, topic : CommitOne(call, op, topic)) \/ UNCHANGED clientVars
<1> DEFINE Goal == (\E call, op, topic : CommitOne(call, op, topic)) \/ UNCHANGED clientVars
<1>1. ASSUME NEW c \in Channel, Subscribe(c) \/ Unsubscribe(c) PROVE Goal
  BY <1>1 DEF Subscribe, Unsubscribe, NothingCommitted
<1>2. ASSUME NEW p \in Pattern, Psubscribe(p) \/ Punsubscribe(p) PROVE Goal
  BY <1>2 DEF Psubscribe, Punsubscribe, NothingCommitted
<1>3. ASSUME NEW c \in Channel, Publish(c) \/ Pubsub(c) PROVE Goal
  BY <1>3 DEF Publish, Pubsub
<1>4. ASSUME NEW kind \in {"channel", "pattern"}, NEW h \in Holder,
             AddMessageCb(kind, h) \/ RemoveMessageCb(kind, h)
      PROVE  Goal
  BY <1>4 DEF AddMessageCb, RemoveMessageCb
<1> HIDE DEF Goal
<1>5. Goal
  BY <1>1, <1>2, <1>3, <1>4 DEF Ask
<1> QED
  BY <1>5 DEF Goal

LEMMA QueuesApart ==
    ASSUME replies \in Seq(Incoming), [SubscriberNext]_allVars, ~ReadPipe,
           ~ \E call, op, topic : CommitOne(call, op, topic)
    PROVE  UNCHANGED <<workQueue, nextSn>> /\ (done => done')
<1>1. CASE Ask
  <2>1. \/ \E call, op, topic : CommitOne(call, op, topic)
        \/ UNCHANGED clientVars
    BY <1>1, AskCommits
  <2>2. UNCHANGED clientVars
    BY <2>1
  <2> QED
    BY <2>2 DEF clientVars, mainVars, queueVars
<1>2. CASE DispatchOne \/ CallGoesOn \/ ShutdownBegins \/ Quits \/ UNCHANGED allVars
  BY <1>2 DEF DispatchOne, RunOnce, CallGoesOn, Notify, BlockingCommitReturns, ShutdownReturns,
       ShutdownBegins, Shutdown, Quits, WorkerQuits, mainVars, queueVars, allVars, clientVars
<1>3. CASE LoopRuns \/ ConnectionFault
  BY <1>3, RepliesLeft
<1>4. CASE ReceiveReply
  BY <1>4 DEF ReceiveReply, OnClientReceive, ReceiveError, ReceiveUnexpected, ReceiveNonTail,
       ReceiveBadSha, ReceiveTail, receiveFrame, quietWorker, queueVars
<1>5. CASE ReceiveMessage \/ ServerAnswers \/ \E t \in Topic : ServerPushes(t)
  BY <1>5 DEF ReceiveMessage, MessageRead, receiveFrame, ServerAnswers, ServerPushes, quietWorker,
       mainVars, queueVars
<1> QED
  BY <1>1, <1>2, <1>3, <1>4, <1>5 DEF SubscriberNext, WorkerRuns, ReadPipeAndCommit

LEMMA CommandOrderNext ==
    ASSUME SubscriberTypes, CommandOrder, [SubscriberNext]_allVars
    PROVE  CommandOrder'
<1>1. /\ Cl!TypeOK /\ replies \in Seq(Incoming) /\ pushed \in Seq(Topic) /\ nextSn \in Nat
      /\ done \in BOOLEAN
      /\ workQueue \in Seq(Cl!Pipeline) /\ Len(workQueue) \in Nat
  BY SetsAsClient DEF SubscriberTypes, Cl!TypeOK
<1>2. PICK m \in Nat : Cl!HandedOver(m)
  BY DEF CommandOrder
<1>3. Cl!QueueHolds(m)
  BY <1>2 DEF Cl!HandedOver
<1>4. ASSUME NEW call, NEW op, NEW topic, CommitOne(call, op, topic) PROVE CommandOrder'
  <2>1. Cl!CommitCommands(call, 1)
    BY <1>4, CommitsAsClient DEF CommitOne
  <2>2. Cl!HandedOver(m)'
    BY <1>1, <1>2, <2>1, Parameters, Cl!CommitInOrder
  <2> QED
    BY <2>2 DEF CommandOrder
<1>5. CASE ReadPipe
  <2>1. PICK n \in Nat : n = m + Len(workQueue)
    BY <1>1
  <2>2. Cl!HandedOver(n)'
    BY <1>1, <1>2, <1>5, <2>1, Parameters, ReadsAsClient, Cl!ReadPipeInOrder
  <2> QED
    BY <2>2 DEF CommandOrder
<1>6. CASE /\ ~ReadPipe
           /\ ~ \E call, op, topic : CommitOne(call, op, topic)
  <2>1. UNCHANGED <<workQueue, nextSn>> /\ (done => done')
    BY <1>1, <1>6, QueuesApart
  <2>2. Cl!QueueHolds(m)'
    <3>1. CASE Cl!ConnProgress \/ Cl!ConnFault
      BY <1>1, <1>3, <3>1, Parameters, Cl!QueueStep
    <3>2. CASE UNCHANGED <<dqCommon, completed>>
      BY <1>3, <3>2, Parameters, Cl!QueueUnchanged
    <3> QED
      BY <1>1, <1>6, <3>1, <3>2, QueueSteps
  <2>3. Cl!HandedOver(m)'
    BY <1>2, <2>1, <2>2 DEF Cl!HandedOver
  <2> QED
    BY <2>3 DEF CommandOrder
<1> QED
  BY <1>4, <1>5, <1>6

(* Whether the last of the first x commands about t subscribes to it. *)
LastSubscribes(s, x, t) ==
    \E n \in 1 .. x : /\ s[n] = [op |-> "SUBSCRIBE", topic |-> t]
                      /\ \A l \in 1 .. x : l > n => s[l] # [op |-> "UNSUBSCRIBE", topic |-> t]

LEMMA OneCommandMore ==
    ASSUME NEW s, NEW x \in Nat, NEW t
    PROVE  LastSubscribes(s, x + 1, t)
             <=> \/ s[x + 1] = [op |-> "SUBSCRIBE", topic |-> t]
                 \/ LastSubscribes(s, x, t) /\ s[x + 1] # [op |-> "UNSUBSCRIBE", topic |-> t]
<1> DEFINE On(n)  == s[n] = [op |-> "SUBSCRIBE", topic |-> t]
           Off(n) == s[n] = [op |-> "UNSUBSCRIBE", topic |-> t]
<1>1. \A n : ~(On(n) /\ Off(n))
  <2> SUFFICES ASSUME NEW n, On(n), Off(n) PROVE FALSE
    OBVIOUS
  <2>1. s[n].op = "SUBSCRIBE" /\ s[n].op = "UNSUBSCRIBE"
    OBVIOUS
  <2> QED
    BY <2>1
<1>2. /\ \A n \in 1 .. (x + 1) : n \in 1 .. x \/ n = x + 1
      /\ \A n \in 1 .. x : n \in 1 .. (x + 1) /\ x + 1 > n /\ ~(n > x + 1)
      /\ x + 1 \in 1 .. (x + 1) /\ ~(x + 1 > x + 1)
  OBVIOUS
<1>3. /\ LastSubscribes(s, x, t) <=> \E n \in 1 .. x : On(n) /\ \A l \in 1 .. x : l > n => ~Off(l)
      /\ LastSubscribes(s, x + 1, t)
           <=> \E n \in 1 .. (x + 1) : On(n) /\ \A l \in 1 .. (x + 1) : l > n => ~Off(l)
  BY DEF LastSubscribes
<1> HIDE DEF On, Off
<1>4. On(x + 1) => LastSubscribes(s, x + 1, t)
  BY <1>2, <1>3
<1>5. LastSubscribes(s, x, t) /\ ~Off(x + 1) => LastSubscribes(s, x + 1, t)
  BY <1>2, <1>3
<1>6. LastSubscribes(s, x + 1, t) => On(x + 1) \/ (LastSubscribes(s, x, t) /\ ~Off(x + 1))
  BY <1>2, <1>3
<1> QED
  BY <1>1, <1>4, <1>5, <1>6 DEF On, Off

LEMMA LastOfPrefix ==
    ASSUME NEW s, NEW q, NEW x, \A n \in 1 .. x : q[n] = s[n], NEW t
    PROVE  LastSubscribes(q, x, t) <=> LastSubscribes(s, x, t)
BY DEF LastSubscribes

(* A command appended changes the answer for its own topic only. *)
LEMMA LastOfAppended ==
    ASSUME NEW s \in Seq(Commands), NEW op \in Op, NEW topic \in Topic, NEW q,
           q = Append(s, [op |-> op, topic |-> topic]), NEW t
    PROVE  /\ \A x \in 0 .. Len(s) : LastSubscribes(q, x, t) <=> LastSubscribes(s, x, t)
           /\ t # topic => (LastSubscribes(q, Len(q), t) <=> LastSubscribes(s, Len(s), t))
           /\ op = "SUBSCRIBE" => LastSubscribes(q, Len(q), topic)
           /\ op = "UNSUBSCRIBE" => ~LastSubscribes(q, Len(q), topic)
           /\ op \notin {"SUBSCRIBE", "UNSUBSCRIBE"}
                => (LastSubscribes(q, Len(q), t) <=> LastSubscribes(s, Len(s), t))
<1> DEFINE cmd == [op |-> op, topic |-> topic]
<1>1. /\ Len(s) \in Nat /\ Len(q) = Len(s) + 1 /\ \A n \in 1 .. Len(s) : q[n] = s[n]
      /\ q[Len(s) + 1] = cmd
  <2>1. cmd \in Commands
    BY DEF Commands
  <2> HIDE DEF cmd
  <2>2. q = Append(s, cmd)
    BY DEF cmd
  <2> QED
    BY <2>1, <2>2, AppendProperties
<1>2. \A x \in 0 .. Len(s) : LastSubscribes(q, x, t) <=> LastSubscribes(s, x, t)
  <2> TAKE x \in 0 .. Len(s)
  <2>1. \A n \in 1 .. x : q[n] = s[n]
    BY <1>1
  <2> QED
    BY <2>1, LastOfPrefix
<1>3. /\ cmd.op = op /\ cmd.topic = topic
      /\ \A o, u : [op |-> o, topic |-> u].op = o /\ [op |-> o, topic |-> u].topic = u
  OBVIOUS
<1>4. LastSubscribes(q, Len(q), t)
        <=> \/ cmd = [op |-> "SUBSCRIBE", topic |-> t]
            \/ LastSubscribes(s, Len(s), t) /\ cmd # [op |-> "UNSUBSCRIBE", topic |-> t]
  <2>1. PICK x \in Nat : x = Len(s)
    BY <1>1
  <2>2. LastSubscribes(q, x, t) <=> LastSubscribes(s, x, t)
    BY <1>2, <2>1
  <2>3. LastSubscribes(q, x + 1, t)
          <=> \/ q[x + 1] = [op |-> "SUBSCRIBE", topic |-> t]
              \/ LastSubscribes(q, x, t) /\ q[x + 1] # [op |-> "UNSUBSCRIBE", topic |-> t]
    BY OneCommandMore
  <2> HIDE DEF cmd
  <2> QED
    BY <1>1, <2>1, <2>2, <2>3
<1>5. LastSubscribes(q, Len(q), topic)
        <=> \/ cmd = [op |-> "SUBSCRIBE", topic |-> topic]
            \/ LastSubscribes(q, Len(s), topic) /\ cmd # [op |-> "UNSUBSCRIBE", topic |-> topic]
  <2>1. PICK x \in Nat : x = Len(s)
    BY <1>1
  <2>2. LastSubscribes(q, x + 1, topic)
          <=> \/ q[x + 1] = [op |-> "SUBSCRIBE", topic |-> topic]
              \/ LastSubscribes(q, x, topic) /\ q[x + 1] # [op |-> "UNSUBSCRIBE", topic |-> topic]
    BY OneCommandMore
  <2> HIDE DEF cmd
  <2> QED
    BY <1>1, <2>1, <2>2
<1>6. op = "SUBSCRIBE" => LastSubscribes(q, Len(q), topic)
  BY <1>5
<1>7. op = "UNSUBSCRIBE" => ~LastSubscribes(q, Len(q), topic)
  BY <1>3, <1>5
<1>8. t # topic \/ op \notin {"SUBSCRIBE", "UNSUBSCRIBE"}
        => cmd # [op |-> "SUBSCRIBE", topic |-> t] /\ cmd # [op |-> "UNSUBSCRIBE", topic |-> t]
  BY <1>3
<1> HIDE DEF cmd
<1> QED
  BY <1>2, <1>4, <1>6, <1>7, <1>8

(* A topic is wanted just if the last command about it subscribes to it. *)
CounterInv == \A t \in Topic : counter[t] > 0 <=> LastSubscribes(cmds, Len(cmds), t)

LEMMA CounterInvInit == SubscriberInit => CounterInv
<1> SUFFICES ASSUME SubscriberInit, NEW t \in Topic
             PROVE  ~(counter[t] > 0) /\ ~LastSubscribes(cmds, Len(cmds), t)
  BY DEF CounterInv
<1>1. counter[t] = 0 /\ Len(cmds) = 0
  BY DEF SubscriberInit
<1> QED
  BY <1>1 DEF LastSubscribes

LEMMA CounterCommits ==
    ASSUME SubscriberTypes, CounterInv,
           NEW call, NEW op \in Op, NEW topic \in Topic, CommitOne(call, op, topic),
           \A t \in Topic : t # topic => counter'[t] = counter[t],
           op = "SUBSCRIBE" => counter'[topic] > 0,
           op = "UNSUBSCRIBE" => ~(counter'[topic] > 0),
           op \notin {"SUBSCRIBE", "UNSUBSCRIBE"} => counter'[topic] = counter[topic]
    PROVE  CounterInv'
<1>1. PICK s \in Seq(Commands) : s = cmds
  BY DEF SubscriberTypes
<1>2. PICK q : q = cmds' /\ q = Append(s, [op |-> op, topic |-> topic])
  BY <1>1 DEF CommitOne
<1>3. ASSUME NEW t \in Topic
      PROVE  counter'[t] > 0 <=> LastSubscribes(q, Len(q), t)
  <2>1. counter[t] > 0 <=> LastSubscribes(s, Len(s), t)
    BY <1>1 DEF CounterInv
  <2>2. CASE t # topic
    BY <1>2, <2>1, <2>2, LastOfAppended
  <2>3. CASE t = topic
    BY <1>2, <2>1, <2>3, LastOfAppended
  <2> QED
    BY <2>2, <2>3
<1>4. \A t \in Topic : counter'[t] > 0 <=> LastSubscribes(cmds', Len(cmds'), t)
  BY <1>2, <1>3
<1> QED
  BY <1>4 DEF CounterInv

LEMMA CounterSilent ==
    ASSUME CounterInv, UNCHANGED cmds, \A t \in Topic : counter'[t] > 0 <=> counter[t] > 0
    PROVE  CounterInv'
BY DEF CounterInv

LEMMA CounterInvNext ==
    ASSUME SubscriberTypes, CounterInv, [SubscriberNext]_allVars
    PROVE  CounterInv'
<1>1. /\ counter \in [Topic -> -MaxCount .. MaxCount] /\ MaxCount \in Nat
      /\ \A c \in Channel : counter[c] >= 0
      /\ Channel \subseteq Topic /\ Pattern \subseteq Topic
  BY SubscriberBounds DEF SubscriberTypes, Topic
<1>2. ASSUME NEW t \in Topic, NEW n \in Int, CountIs(t, n)
      PROVE  counter'[t] = n /\ \A u \in Topic : u # t => counter'[u] = counter[u]
  BY <1>1, <1>2 DEF CountIs
<1>3. ASSUME NEW c \in Channel, Subscribe(c) PROVE CounterInv'
  <2>1. c \in Topic /\ counter[c] \in Int /\ counter[c] >= 0 /\ counter[c] + 1 \in Int
    BY <1>1
  <2>2. CountIs(c, counter[c] + 1)
    BY <1>3 DEF Subscribe
  <2>3. counter'[c] = counter[c] + 1 /\ \A u \in Topic : u # c => counter'[u] = counter[u]
    BY <1>2, <2>1, <2>2
  <2>4. CASE counter[c] = 0
    <3>1. CommitOne("Commit", "SUBSCRIBE", c) /\ counter'[c] > 0
      BY <1>3, <2>3, <2>4 DEF Subscribe
    <3> QED
      BY <2>1, <2>3, <3>1, CounterCommits DEF Op
  <2>5. CASE counter[c] # 0
    <3>1. UNCHANGED cmds /\ counter[c] > 0 /\ counter'[c] > 0
      BY <1>3, <2>1, <2>3, <2>5 DEF Subscribe, NothingCommitted
    <3> QED
      BY <2>3, <3>1, CounterSilent
  <2> QED
    BY <2>4, <2>5
<1>4. ASSUME NEW p \in Pattern, Psubscribe(p) PROVE CounterInv'
  <2>1. p \in Topic /\ counter[p] \in Int /\ counter[p] + 1 \in Int
    BY <1>1
  <2>2. CASE counter[p] <= 0
    <3>1. CommitOne("Commit", "SUBSCRIBE", p) /\ CountIs(p, 1)
      BY <1>4, <2>2 DEF Psubscribe
    <3>2. counter'[p] = 1 /\ \A u \in Topic : u # p => counter'[u] = counter[u]
      BY <1>2, <2>1, <3>1
    <3>3. counter'[p] > 0
      BY <3>2
    <3> QED
      BY <2>1, <3>1, <3>2, <3>3, CounterCommits DEF Op
  <2>3. CASE ~(counter[p] <= 0)
    <3>1. UNCHANGED cmds /\ CountIs(p, counter[p] + 1)
      BY <1>4, <2>3 DEF Psubscribe, NothingCommitted
    <3>2. counter'[p] = counter[p] + 1 /\ \A u \in Topic : u # p => counter'[u] = counter[u]
      BY <1>2, <2>1, <3>1
    <3>3. counter[p] > 0 /\ counter'[p] > 0
      BY <2>1, <2>3, <3>2
    <3> QED
      BY <3>1, <3>2, <3>3, CounterSilent
  <2> QED
    BY <2>2, <2>3
<1>5. ASSUME NEW t \in Topic, Unsubscribe(t) \/ Punsubscribe(t) PROVE CounterInv'
  <2>1. counter[t] \in Int /\ counter[t] - 1 \in Int
    BY <1>1
  <2>2. CountIs(t, counter[t] - 1)
    BY <1>5 DEF Unsubscribe, Punsubscribe
  <2>3. counter'[t] = counter[t] - 1 /\ \A u \in Topic : u # t => counter'[u] = counter[u]
    BY <1>2, <2>1, <2>2
  <2>4. CASE counter[t] = 1
    <3>1. CommitOne("Commit", "UNSUBSCRIBE", t) /\ ~(counter'[t] > 0)
      BY <1>5, <2>3, <2>4 DEF Unsubscribe, Punsubscribe
    <3> QED
      BY <2>3, <3>1, CounterCommits DEF Op
  <2>5. CASE counter[t] # 1
    <3>1. UNCHANGED cmds
      BY <1>5, <2>5 DEF Unsubscribe, Punsubscribe, NothingCommitted
    <3>2. counter'[t] > 0 <=> counter[t] > 0
      BY <2>1, <2>3, <2>5
    <3> QED
      BY <2>3, <3>1, <3>2, CounterSilent
  <2> QED
    BY <2>4, <2>5
<1>6. ASSUME NEW c \in Channel, Publish(c) \/ Pubsub(c) PROVE CounterInv'
  <2>1. c \in Topic /\ UNCHANGED counter
    BY <1>1, <1>6 DEF Publish, Pubsub
  <2>2. CASE Publish(c)
    <3>1. CommitOne("Commit", "PUBLISH", c)
      BY <2>2 DEF Publish
    <3> QED
      BY <2>1, <3>1, CounterCommits DEF Op
  <2>3. CASE Pubsub(c)
    <3>1. CommitOne("BlockingCommit", "PUBSUB", c)
      BY <2>3 DEF Pubsub
    <3> QED
      BY <2>1, <3>1, CounterCommits DEF Op
  <2> QED
    BY <1>6, <2>2, <2>3
<1>7. CASE UNCHANGED <<counter, cmds>>
  BY <1>7, CounterSilent
<1>8. ASSUME NEW kind \in {"channel", "pattern"}, NEW h \in Holder,
             AddMessageCb(kind, h) \/ RemoveMessageCb(kind, h)
      PROVE  CounterInv'
  <2>1. UNCHANGED <<counter, cmds>>
    BY <1>8 DEF AddMessageCb, RemoveMessageCb
  <2> QED
    BY <1>7, <2>1
<1>9. CASE Ask
  BY <1>1, <1>3, <1>4, <1>5, <1>6, <1>8, <1>9 DEF Ask
<1>10. CASE ~Ask
  <2>1. UNCHANGED <<counter, cmds>>
    BY <1>10 DEF SubscriberNext, WorkerRuns, DispatchOne, CallGoesOn, ShutdownBegins,
                 ReadPipeAndCommit,
         LoopRuns, WithConnection, ReceiveReply, ReceiveMessage, MessageRead, ConnectionFault,
         Quits,
         ServerAnswers, ServerPushes, subscriberVars, allVars
  <2> QED
    BY <1>7, <2>1
<1> QED
  BY <1>9, <1>10

(* How many of the callers' commands a connection that will do has seen executed: those
   that are answered, and all it has handed over but those still under way to the server. *)
Later(c, u) == IF u > c THEN u ELSE c

ServedUpTo == Later(Len(completed), nextSn - Len(workQueue) - Len(requests))

(* The wire in numbers. *)
LEMMA WireNumbers ==
    ASSUME SubscriberTypes, CommandOrder, ~done
    PROVE  /\ Len(completed) \in Nat /\ Len(workQueue) \in Nat /\ nextSn - Len(workQueue) \in Nat
           /\ Len(dqCommon) \in Nat /\ Len(AnswersIn(replies)) \in Nat
           /\ Len(completed) <= nextSn - Len(workQueue) /\ nextSn - Len(workQueue) <= nextSn
           /\ (nextSn - Len(workQueue)) - Len(completed) <= Len(dqCommon)
           /\ DOMAIN dqCommon = 1 .. Len(dqCommon)
           /\ LET p == Len(dqCommon) - ((nextSn - Len(workQueue)) - Len(completed))
              IN  \A i \in DOMAIN dqCommon :
                     dqCommon[i].sn = IF i <= p THEN 0 ELSE Len(completed) + i - p
           /\ \A k \in DOMAIN workQueue : workQueue[k].sn = (nextSn - Len(workQueue)) + k
<1>1. /\ Len(completed) \in Nat /\ Len(workQueue) \in Nat /\ Len(dqCommon) \in Nat
      /\ Len(AnswersIn(replies)) \in Nat /\ nextSn \in Nat
      /\ DOMAIN dqCommon = 1 .. Len(dqCommon)
  BY SetsAsClient DEF SubscriberTypes, Cl!TypeOK
<1>2. PICK m \in Nat : Cl!HandedOver(m)
  BY DEF CommandOrder
<1>3. /\ m + Len(workQueue) = nextSn
      /\ \A k \in DOMAIN workQueue : workQueue[k].sn = m + k
      /\ HoldsUnanswered(dqCommon, Len(completed), m)
  BY <1>2 DEF Cl!HandedOver, Cl!QueueHolds, Cl!QueueOK, HoldsUnanswered, Cl!HoldsUnanswered,
              OwnLeft, Cl!OwnLeft
<1>4. m = nextSn - Len(workQueue)
  BY <1>1, <1>3
<1>5. /\ Len(dqCommon) - (m - Len(completed)) >= 0 /\ Len(completed) <= m
      /\ \A i \in DOMAIN dqCommon :
            dqCommon[i].sn = IF i <= Len(dqCommon) - (m - Len(completed)) THEN 0
                             ELSE Len(completed) + i - (Len(dqCommon) - (m - Len(completed)))
  BY <1>3 DEF HoldsUnanswered, OwnLeft
<1>6. m - Len(completed) <= Len(dqCommon) /\ m <= nextSn
  BY <1>1, <1>3, <1>5
<1> QED
  BY <1>1, <1>3, <1>4, <1>5, <1>6

(* What a connection that will do waits for. *)
LEMMA SoundWire ==
    ASSUME SubscriberTypes, SubscriberWire, Sound
    PROVE  /\ Len(dqCommon) = Len(AnswersIn(replies)) + Len(requests)
           /\ Len(requests) \in Nat /\ DOMAIN requests = 1 .. Len(requests)
           /\ \A i \in DOMAIN dqCommon : dqCommon[i].state >= COMMITTING
           /\ \A k \in DOMAIN requests : requests[k].sn = dqCommon[Len(AnswersIn(replies)) + k].sn
<1>1. Cl!Awaits(dqCommon, requests, Len(AnswersIn(replies)))
  BY DEF Sound, SubscriberWire, Cl!SingleInv, Cl!RequestsMatch
<1>2. requests \in Seq(Cl!Request)
  BY DEF SubscriberTypes, Cl!TypeOK
<1> QED
  BY <1>1, <1>2 DEF Cl!Awaits, Cl!RequestsFor, Cl!RequestOf, COMMITTING, Cl!COMMITTING

LEMMA ServedBounds ==
    ASSUME SubscriberTypes, SubscriberWire, CommandOrder, Sound, ~done
    PROVE  /\ ServedUpTo \in Nat /\ ServedUpTo <= Len(cmds)
           /\ Len(completed) <= ServedUpTo /\ ServedUpTo <= nextSn - Len(workQueue)
<1>1. /\ Len(completed) \in Nat /\ nextSn - Len(workQueue) \in Nat
      /\ Len(completed) <= nextSn - Len(workQueue) /\ nextSn - Len(workQueue) <= nextSn
  BY WireNumbers
<1>2. Len(requests) \in Nat
  BY SoundWire
<1>3. Len(cmds) = nextSn /\ nextSn \in Nat
  BY DEF SubscriberTypes, Cl!TypeOK
<1>4. ASSUME NEW c \in Nat, NEW m \in Nat, NEW r \in Nat, c <= m
      PROVE  Later(c, m - r) \in Nat /\ c <= Later(c, m - r) /\ Later(c, m - r) <= m
  BY <1>4 DEF Later
<1>5. /\ ServedUpTo \in Nat
      /\ Len(completed) <= ServedUpTo /\ ServedUpTo <= nextSn - Len(workQueue)
  BY <1>1, <1>2, <1>4 DEF ServedUpTo
<1> QED
  BY <1>1, <1>3, <1>5

(* The server's subscriptions follow the commands it has executed; as long as nothing was
   lost, they are all there are. *)
SubsFollow ==
    Sound /\ ~done =>
        \A t \in Topic : /\ t \in subs => LastSubscribes(cmds, ServedUpTo, t)
                         /\ ~lost /\ LastSubscribes(cmds, ServedUpTo, t) => t \in subs

SubsInv ==
    /\ subs # {} => link
    /\ ~lost /\ ~link => completed = <<>>
    /\ SubsFollow

LEMMA SubsInvInit == SubscriberInit => SubsInv
BY DEF SubscriberInit, ClientInit, Init, SubsInv, SubsFollow, Sound

LEMMA FollowsKept ==
    ASSUME SubsFollow, UNCHANGED <<subs, cmds>>, lost => lost',
           Sound' /\ ~done' => Sound /\ ~done /\ ServedUpTo' = ServedUpTo
    PROVE  SubsFollow'
<1> SUFFICES ASSUME Sound', ~done', NEW t \in Topic
             PROVE  /\ t \in subs => LastSubscribes(cmds, ServedUpTo, t)
                    /\ ~lost' /\ LastSubscribes(cmds, ServedUpTo, t) => t \in subs
  <2>1. Sound' /\ ~done' => \A t \in Topic :
           /\ t \in subs' => LastSubscribes(cmds', ServedUpTo', t)
           /\ ~lost' /\ LastSubscribes(cmds', ServedUpTo', t) => t \in subs'
    BY DEF LastSubscribes
  <2> QED
    BY <2>1 DEF SubsFollow
<1> QED
  BY DEF SubsFollow

LEMMA FollowsQuiet ==
    ASSUME SubsFollow, lost => lost', done => done',
           UNCHANGED <<subs, cmds, completed, nextSn, workQueue, requests, link, readTask, replies>>
    PROVE  SubsFollow'
<1>1. (Sound' <=> Sound) /\ ServedUpTo' = ServedUpTo
  BY DEF Sound, ServedUpTo, Later
<1> QED
  BY <1>1, FollowsKept

(* What the main thread does: only a commit adds a command, and it is pending. *)
LEMMA FollowsCommit ==
    ASSUME SubscriberTypes, SubscriberWire, CommandOrder, SubsFollow,
           NEW call, NEW op \in Op, NEW topic \in Topic, CommitOne(call, op, topic),
           UNCHANGED <<subs, lost>>
    PROVE  SubsFollow'
<1>1. /\ UNCHANGED <<completed, requests, link, readTask, replies, done>>
      /\ nextSn' = nextSn + 1 /\ nextSn \in Nat
      /\ ~done => workQueue' = Append(workQueue, CreateCmdPipeline(nextSn', 1))
      /\ cmds' = Append(cmds, [op |-> op, topic |-> topic])
  <2>1. nextSn \in Nat
    BY DEF SubscriberTypes, Cl!TypeOK
  <2> QED
    BY <2>1 DEF CommitOne, CommitCommands, connVars, serverVars, tcpVars
<1>2. Sound' <=> Sound
  BY <1>1 DEF Sound
<1>3. CASE ~Sound \/ done
  BY <1>1, <1>2, <1>3 DEF SubsFollow
<1>4. CASE Sound /\ ~done
  <2>1. Len(workQueue') = Len(workQueue) + 1 /\ Len(workQueue) \in Nat
    <3>1. workQueue \in Seq(Pipeline) /\ CreateCmdPipeline(nextSn', 1) \in Pipeline
      BY <1>1, SMTT(20) DEF SubscriberTypes, CreateCmdPipeline, Pipeline, PipelineState, QUEUEING,
                            PROCESS_OVER
    <3> HIDE DEF CreateCmdPipeline
    <3> QED
      BY <1>1, <1>4, <3>1, AppendProperties
  <2>2. ServedUpTo' = ServedUpTo
    <3>1. nextSn' - Len(workQueue') - Len(requests') = nextSn - Len(workQueue) - Len(requests)
      <4>1. Len(requests) \in Nat
        BY <1>4, SoundWire
      <4> QED
        BY <1>1, <2>1, <4>1
    <3> QED
      BY <1>1, <3>1 DEF ServedUpTo
  <2>3. PICK x \in 0 .. Len(cmds) : x = ServedUpTo
    <3>1. ServedUpTo \in Nat /\ ServedUpTo <= Len(cmds) /\ Len(cmds) \in Nat
      BY <1>4, ServedBounds, LenProperties DEF SubscriberTypes
    <3> QED
      BY <3>1
  <2>4. PICK s \in Seq(Commands) : s = cmds
    BY DEF SubscriberTypes
  <2>5. PICK q : s = cmds /\ q = cmds' /\ q = Append(s, [op |-> op, topic |-> topic])
    BY <1>1, <2>4
  <2>6. ASSUME NEW t \in Topic
        PROVE  LastSubscribes(q, x, t) <=> LastSubscribes(s, x, t)
    BY <2>3, <2>5, LastOfAppended
  <2>7. \A t \in Topic : /\ t \in subs => LastSubscribes(s, x, t)
                         /\ ~lost /\ LastSubscribes(s, x, t) => t \in subs
    BY <1>4, <2>3, <2>5 DEF SubsFollow
  <2>8. \A t \in Topic : /\ t \in subs' => LastSubscribes(cmds', ServedUpTo', t)
                         /\ ~lost' /\ LastSubscribes(cmds', ServedUpTo', t) => t \in subs'
    BY <2>2, <2>3, <2>5, <2>6, <2>7
  <2> QED
    BY <2>8 DEF SubsFollow
<1> QED
  BY <1>3, <1>4

LEMMA LengthsAreNat ==
    SubscriberTypes => /\ Len(AnswersIn(replies)) \in Nat /\ Len(workQueue) \in Nat
                       /\ Len(dqCommon) \in Nat /\ Len(completed) \in Nat /\ nextSn \in Nat
BY SetsAsClient DEF SubscriberTypes, Cl!TypeOK

(* The same, and what the last lemmas say of lengths, as facts that also hold after a step. *)
WaitsForAll == Len(dqCommon) = Len(AnswersIn(replies)) + Len(requests) /\ Len(requests) \in Nat

LEMMA SoundWaits == SubscriberTypes /\ SubscriberWire /\ Sound => WaitsForAll
BY SoundWire DEF WaitsForAll

AllHandedOver ==
    /\ nextSn \in Nat /\ Len(workQueue) \in Nat
    /\ (nextSn - Len(workQueue)) - Len(completed) <= Len(dqCommon)

LEMMA HandedOverWaits == SubscriberTypes /\ CommandOrder /\ ~done => AllHandedOver
BY LengthsAreNat, WireNumbers DEF AllHandedOver

(* The deque grows by the batch the worker hands over. *)
LEMMA BatchAdded ==
    ASSUME Cl!TypeOK, Cl!SingleInv, workQueue \in Seq(Pipeline), Cl!FreshSingle(workQueue),
           SendAndCommit(workQueue)
    PROVE  Len(dqCommon') = Len(dqCommon) + Len(workQueue)
<1>1. PICK batch \in Seq(Cl!Pipeline) : batch = workQueue
  BY SetsAsClient
<1>2. PICK dq \in Seq(Cl!Pipeline) : dq = dqCommon
  BY DEF Cl!TypeOK
<1>3. Cl!SendAndCommit(batch)
  BY <1>1, SendsAsClient
<1>4. PICK sent : sent = Cl!Sent(dq, batch)
  OBVIOUS
<1>5. sent \in Seq(Cl!Pipeline) /\ Cl!AllSingle(sent)
  <2>1. Cl!AllSingle(dq) /\ Cl!FreshSingle(batch)
    BY <1>1, <1>2 DEF Cl!SingleInv
  <2> QED
    BY <1>4, <2>1, Parameters, Cl!SentSingle
<1>6. Len(sent) = Len(dq) + Len(batch)
  <2>1. PICK S : S = DOMAIN batch
    OBVIOUS
  <2>2. Cl!SENDING \in Cl!PipelineState
    BY DEF Cl!PipelineState, Cl!SENDING, Cl!QUEUEING, Cl!PROCESS_OVER
  <2>3. /\ Cl!Marked(batch, S, Cl!SENDING) \in Seq(Cl!Pipeline)
        /\ Len(Cl!Marked(batch, S, Cl!SENDING)) = Len(batch)
    BY <2>2, Parameters, Cl!MarkedType
  <2>4. PICK marked \in Seq(Cl!Pipeline) : marked = Cl!Marked(batch, S, Cl!SENDING)
    BY <2>3
  <2>5. sent = dq \o marked /\ Len(marked) = Len(batch)
    BY <1>4, <2>1, <2>3, <2>4 DEF Cl!Sent
  <2>6. Len(dq \o marked) = Len(dq) + Len(marked)
    BY ConcatProperties
  <2> QED
    BY <2>5, <2>6
<1>7. CASE dqCommon' = sent
  BY <1>1, <1>2, <1>6, <1>7
<1>8. CASE Cl!CommitWrites(sent, stream, link)
  <2>1. Len(dqCommon') = Len(sent)
    BY <1>5, <1>8, Parameters, Cl!CommitWritesKeeps
  <2> QED
    BY <1>1, <1>2, <1>6, <2>1
<1> QED
  BY <1>2, <1>3, <1>4, <1>7, <1>8 DEF Cl!SendAndCommit

LEMMA FollowsRead ==
    ASSUME SubscriberTypes, SubscriberTypes', SubscriberWire, SubscriberWire', SubsFollow,
           ReadPipeAndCommit
    PROVE  SubsFollow'
<1>1. /\ UNCHANGED <<nextSn, done, cmds, subs, lost>>
      /\ workQueue' = <<>>
      /\ workQueue = <<>> => UNCHANGED connVars
      /\ workQueue # <<>> => SendAndCommit(workQueue)
  BY DEF ReadPipeAndCommit, ReadPipe, mainVars, subscriberVars
<1>2. CASE workQueue = <<>>
  <2>1. UNCHANGED <<completed, workQueue, requests, link, readTask, replies>>
    BY <1>1, <1>2 DEF connVars, tcpVars, serverVars
  <2> QED
    BY <1>1, <2>1, FollowsQuiet
<1>3. CASE workQueue # <<>>
  <2>1. SendAndCommit(workQueue)
    BY <1>1, <1>3
  <2>2. UNCHANGED <<link, readTask, replies, completed>>
    BY <2>1 DEF SendAndCommit
  <2>3. Sound' <=> Sound
    BY <2>2 DEF Sound
  <2>4. ASSUME Sound PROVE ServedUpTo' = ServedUpTo
    <3>1. Len(dqCommon') = Len(dqCommon) + Len(workQueue)
      BY <2>1, BatchAdded DEF SubscriberTypes, SubscriberWire
    <3>2. AnswersIn(replies)' = AnswersIn(replies)
      BY <2>2, AnswersKept
    <3>3. /\ Len(dqCommon) = Len(AnswersIn(replies)) + Len(requests)
          /\ Len(requests) \in Nat
      BY <2>4, SoundWire
    <3>4. /\ Len(dqCommon') = Len(AnswersIn(replies)') + Len(requests')
          /\ Len(requests') \in Nat
      <4>1. WaitsForAll'
        BY <2>3, <2>4, SoundWaits, PTL
      <4> QED
        BY <4>1 DEF WaitsForAll
    <3>5. /\ Len(AnswersIn(replies)) \in Nat /\ Len(workQueue) \in Nat /\ nextSn \in Nat
          /\ Len(workQueue') = 0
      BY <1>1, LengthsAreNat
    <3>6. Len(requests') = Len(requests) + Len(workQueue)
      BY <3>1, <3>2, <3>3, <3>4, <3>5
    <3>7. nextSn - Len(workQueue') - Len(requests') = nextSn - Len(workQueue) - Len(requests)
      BY <3>3, <3>5, <3>6
    <3> QED
      BY <1>1, <2>2, <3>7 DEF ServedUpTo
  <2> QED
    BY <1>1, <2>3, <2>4, FollowsKept
<1> QED
  BY <1>2, <1>3

(* The 1 s timer writes what was left to write: the deque keeps its length. *)
LEMMA FollowsTimer ==
    ASSUME SubscriberTypes, SubscriberTypes', SubscriberWire, SubscriberWire', SubsFollow,
           CommitLoopTimer, UNCHANGED <<workQueue, done, cmds, subs>>, lost => lost'
    PROVE  SubsFollow'
<1>1. UNCHANGED <<link, readTask, replies, completed, nextSn>>
  BY DEF CommitLoopTimer, delayVars, tcpVars
<1>2. Sound' <=> Sound
  BY <1>1 DEF Sound
<1>3. ASSUME Sound PROVE ServedUpTo' = ServedUpTo
  <2>1. Len(dqCommon') = Len(dqCommon)
    <3>1. PICK dq \in Seq(Cl!Pipeline) : dq = dqCommon
      BY DEF SubscriberTypes, Cl!TypeOK
    <3>2. Cl!CommitWrites(dq, stream, link)
      BY <3>1, TimerAsClient DEF Cl!CommitLoopTimer
    <3>3. Cl!TypeOK /\ Cl!AllSingle(dq)
      BY <3>1 DEF SubscriberTypes, SubscriberWire, Cl!SingleInv
    <3>4. Len(dqCommon') = Len(dq)
      BY <3>2, <3>3, Parameters, Cl!CommitWritesKeeps
    <3> QED
      BY <3>1, <3>4
  <2>2. AnswersIn(replies)' = AnswersIn(replies)
    BY <1>1, AnswersKept
  <2>3. /\ Len(dqCommon) = Len(AnswersIn(replies)) + Len(requests)
        /\ Len(requests) \in Nat
    BY <1>3, SoundWire
  <2>4. /\ Len(dqCommon') = Len(AnswersIn(replies)') + Len(requests')
        /\ Len(requests') \in Nat
    <3>1. WaitsForAll'
      BY <1>2, <1>3, SoundWaits, PTL
    <3> QED
      BY <3>1 DEF WaitsForAll
  <2>5. Len(AnswersIn(replies)) \in Nat
    BY LengthsAreNat
  <2>6. Len(requests') = Len(requests)
    BY <2>1, <2>2, <2>3, <2>4, <2>5
  <2> QED
    BY <1>1, <2>6 DEF ServedUpTo
<1> QED
  BY <1>2, <1>3, FollowsKept

(* A new connection begins without subscriptions; unless one was lost before, no command
   was answered and none is executed yet. *)
LEMMA FollowsConnect ==
    ASSUME SubscriberTypes, SubscriberWire, SubscriberTypes', SubscriberWire', CommandOrder',
           SubsInv, ConnectSucceeds, WithConnection
    PROVE  SubsFollow'
<1>1. connectTask /\ UNCHANGED <<replies, completed>>
  BY DEF ConnectSucceeds
<1>2. ~link /\ AnswersIn(replies) = <<>>
  BY <1>1 DEF SubscriberWire, Cl!SingleInv, Cl!NothingUnderWay
<1>3. subs' = {}
  BY <1>2 DEF SubsInv, WithConnection
<1>4. ~lost' => ~lost /\ completed' = <<>>
  BY <1>1, <1>2 DEF SubsInv, WithConnection
<1>5. ASSUME Sound', ~done', ~lost' PROVE ServedUpTo' = 0
  <2>1. /\ Len(dqCommon') = Len(AnswersIn(replies)') + Len(requests')
        /\ Len(requests') \in Nat
    <3>1. WaitsForAll'
      BY <1>5, SoundWaits, PTL
    <3> QED
      BY <3>1 DEF WaitsForAll
  <2>2. AnswersIn(replies)' = <<>>
    BY <1>1, <1>2, AnswersKept
  <2>3. AllHandedOver'
    BY <1>5, HandedOverWaits, PTL
  <2>4. /\ nextSn' \in Nat /\ Len(workQueue') \in Nat
        /\ (nextSn' - Len(workQueue')) - Len(completed') <= Len(dqCommon')
    BY <2>3 DEF AllHandedOver
  <2>5. Len(completed') = 0 /\ Len(AnswersIn(replies)') = 0
    BY <1>4, <1>5, <2>2
  <2>6. ~(nextSn' - Len(workQueue') - Len(requests') > Len(completed'))
    BY <2>1, <2>4, <2>5
  <2> QED
    BY <2>5, <2>6 DEF ServedUpTo, Later
<1>6. ASSUME Sound', ~done', NEW t \in Topic
      PROVE  /\ t \in subs' => LastSubscribes(cmds', ServedUpTo', t)
             /\ ~lost' /\ LastSubscribes(cmds', ServedUpTo', t) => t \in subs'
  BY <1>3, <1>5, <1>6 DEF LastSubscribes
<1>7. (Sound' /\ ~done' =>
        \A t \in Topic : /\ t \in subs' => LastSubscribes(cmds', ServedUpTo', t)
                         /\ ~lost' /\ LastSubscribes(cmds', ServedUpTo', t) => t \in subs')
  BY <1>6
<1> QED
  BY <1>7 DEF SubsFollow, LastSubscribes

LEMMA FollowsLoop ==
    ASSUME SubscriberTypes, SubscriberTypes', SubscriberWire, SubscriberWire', CommandOrder',
           SubsInv, LoopRuns \/ ConnectionFault
    PROVE  SubsFollow'
<1>1. /\ UNCHANGED <<nextSn, cmds, workQueue, done>>
      /\ WithConnection /\ (lost => lost') /\ SubsFollow
  <2>1. UNCHANGED <<nextSn, cmds, workQueue, done>>
    BY RepliesLeft DEF SubscriberTypes
  <2>2. WithConnection
    BY DEF LoopRuns, ConnectionFault
  <2> QED
    BY <2>1, <2>2, LossSeen DEF SubsInv
<1>2. CASE ~Sound'
  BY <1>2 DEF SubsFollow
<1>3. CASE Sound'
  <2>1. link' /\ readTask'
    BY <1>3 DEF Sound
  <2>2. CASE ConnectSucceeds
    BY <1>1, <2>2, FollowsConnect
  <2>3. CASE CommitLoopTimer
    <3>1. link' = link
      BY <2>3 DEF CommitLoopTimer, tcpVars
    <3>2. UNCHANGED subs
      BY <1>1, <2>1, <3>1 DEF WithConnection
    <3> QED
      BY <1>1, <2>3, <3>2, FollowsTimer
  <2>4. CASE DelayElapsed
    <3>1. UNCHANGED <<completed, requests, link, readTask, replies>>
      BY <2>4 DEF DelayElapsed, serverVars
    <3>2. UNCHANGED subs
      BY <1>1, <2>1, <3>1 DEF WithConnection
    <3> QED
      BY <1>1, <3>1, <3>2, FollowsQuiet
  <2>5. ~ReadFails /\ ~ResetAfterFailure /\ ~ConnectThenReadThrows /\ ~LoseLink
    BY <2>1 DEF ReadFails, ReadTaskThrows, ResetAfterFailure, ConnectThenReadThrows, LoseLink
  <2>6. ~ConnectFails
    <3> SUFFICES ASSUME ConnectFails PROVE FALSE
      OBVIOUS
    <3>1. connectTask /\ readTask' = readTask
      BY DEF ConnectFails
    <3> QED
      BY <2>1, <3>1 DEF SubscriberWire, Cl!TaskInv
  <2> QED
    BY <2>2, <2>3, <2>4, <2>5, <2>6
       DEF LoopRuns, ConnectionFault, ConnFault, OnClientConnect, CommitLoop, TaskFailed,
       ReconnectTimer
<1> QED
  BY <1>2, <1>3

LEMMA SoundBefore ==
    ASSUME replies \in Seq(Incoming), replies # <<>>, replies' = Tail(replies),
           Head(replies).kind # "error", link' = link, readTask' = readTask, Sound'
    PROVE  Sound
<1>1. \A k \in DOMAIN replies :
         replies[k] = Head(replies) \/ \E j \in DOMAIN replies' : replies'[j] = replies[k]
  <2> SUFFICES ASSUME NEW k \in DOMAIN replies, k # 1
               PROVE  \E j \in DOMAIN Tail(replies) : Tail(replies)[j] = replies[k]
    OBVIOUS
  <2>1. k - 1 \in DOMAIN Tail(replies) /\ Tail(replies)[k - 1] = replies[k]
    OBVIOUS
  <2> QED
    BY <2>1
<1> QED
  BY <1>1 DEF Sound

(* A message is no answer, and of nobody's command. *)
LEMMA FollowsMessages ==
    ASSUME SubscriberTypes, SubsFollow, ReceiveMessage \/ (\E t \in Topic : ServerPushes(t))
    PROVE  SubsFollow'
<1>1. CASE ReceiveMessage
  <2>1. /\ replies \in Seq(Incoming) /\ replies # <<>> /\ IsMessage(Head(replies))
        /\ replies' = Tail(replies)
        /\ UNCHANGED <<nextSn, workQueue, done, link, readTask, requests, completed,
                       subs, cmds, lost>>
    BY <1>1 DEF ReceiveMessage, MessageRead, HasReply, receiveFrame, quietWorker, queueVars,
                subscriberVars, SubscriberTypes
  <2>2. Head(replies).kind # "error"
    <3>1. Head(replies) \in Messages
      <4>1. Head(replies) \in Incoming
        BY <2>1
      <4> QED
        BY <2>1, <4>1, Kinds DEF Incoming
    <3> QED
      BY <3>1 DEF Messages
  <2>3. Sound' => Sound
    BY <2>1, <2>2, SoundBefore
  <2>4. ServedUpTo' = ServedUpTo
    BY <2>1 DEF ServedUpTo
  <2> QED
    BY <2>1, <2>3, <2>4, FollowsKept
<1>2. ASSUME NEW t \in Topic, ServerPushes(t) PROVE SubsFollow'
  <2>1. /\ replies \in Seq(Incoming) /\ pushed \in Seq(Topic)
        /\ UNCHANGED <<nextSn, workQueue, done, link, readTask, requests, completed,
                       subs, cmds, lost>>
    BY <1>2 DEF ServerPushes, mainVars, queueVars, tcpVars, SubscriberTypes
  <2>2. PICK y \in Messages : replies' = Append(replies, y)
    BY <1>2, <2>1, PushedMessage
  <2>3. \A k \in DOMAIN replies : k \in DOMAIN replies' /\ replies'[k] = replies[k]
    <3>1. y \in Incoming
      BY DEF Incoming
    <3> QED
      BY <2>1, <2>2, <3>1, AppendProperties
  <2>4. Sound' => Sound
    BY <2>1, <2>3 DEF Sound
  <2>5. ServedUpTo' = ServedUpTo
    BY <2>1 DEF ServedUpTo
  <2> QED
    BY <2>1, <2>4, <2>5, FollowsKept
<1> QED
  BY <1>1, <1>2

(* The callback of a command that is answered moves it from those executed to those
   completed. *)
LEMMA FollowsReply ==
    ASSUME SubscriberTypes, SubscriberWire, CommandOrder, SubsFollow, ReceiveReply
    PROVE  SubsFollow'
<1>1. /\ replies \in Seq(Incoming) /\ replies # <<>> /\ ~IsMessage(Head(replies))
      /\ UNCHANGED <<nextSn, workQueue, done, link, requests, cmds>>
      /\ lost => lost'
      /\ link' => UNCHANGED subs
      /\ OnClientReceive
  <2>1. UNCHANGED <<nextSn, workQueue, done, link, requests, cmds>>
    BY DEF ReceiveReply, OnClientReceive, ReceiveError, ReceiveUnexpected, ReceiveNonTail,
           ReceiveBadSha, ReceiveTail, receiveFrame, quietWorker, queueVars, WithConnection
  <2>2. (lost => lost') /\ (link' => UNCHANGED subs)
    BY DEF ReceiveReply, WithConnection
  <2> QED
    BY <2>1, <2>2 DEF ReceiveReply, HasReply, SubscriberTypes
<1>2. CASE ~Sound' \/ done
  BY <1>1, <1>2 DEF SubsFollow
<1>3. CASE Sound' /\ ~done
  <2>1. link' /\ readTask'
    BY <1>3 DEF Sound
  <2>2. ReceiveNonTail \/ ReceiveTail
    BY <1>1, <2>1 DEF OnClientReceive, ReceiveError, ReceiveUnexpected, ReceiveBadSha,
                      ReadTaskThrows
  <2>3. /\ readTask' = readTask /\ replies' = Tail(replies) /\ Head(replies).kind # "error"
        /\ dqCommon # <<>>
    BY <2>2 DEF ReceiveNonTail, ReceiveTail, IsExpected
  <2>4. Sound
    BY <1>1, <1>3, <2>3, SoundBefore
  <2>5. ServedUpTo' = ServedUpTo
    <3>1. CASE UNCHANGED completed
      BY <1>1, <3>1 DEF ServedUpTo
    <3>2. CASE ~UNCHANGED completed
      <4>1. /\ Head(dqCommon).sn # 0
            /\ completed' = Append(completed, CompletionOf(Head(dqCommon), Head(replies)))
        BY <2>2, <3>2 DEF ReceiveNonTail, ReceiveTail
      <4>2. PICK c \in Nat, m \in Nat, n \in Nat, r \in Nat, q \in Nat :
               /\ c = Len(completed) /\ m = nextSn - Len(workQueue) /\ n = Len(dqCommon)
               /\ r = Len(AnswersIn(replies)) /\ q = Len(requests)
        BY <1>3, <2>4, WireNumbers, SoundWire
      <4>3. n = r + q /\ r > 0 /\ m - c <= n
        <5>1. AnswersIn(replies) # <<>> /\ AnswersIn(replies) \in Seq(Reply)
          BY <1>1, AnswersTail, AnswersType
        <5>2. Len(AnswersIn(replies)) > 0
          BY <5>1
        <5> QED
          BY <1>3, <2>4, <4>2, <5>2, WireNumbers, SoundWire
      <4>4. Head(dqCommon).sn = IF 1 <= n - (m - c) THEN 0 ELSE c + 1 - (n - (m - c))
        <5>1. dqCommon \in Seq(Cl!Pipeline)
          BY DEF SubscriberTypes, Cl!TypeOK
        <5>2. Head(dqCommon) = dqCommon[1] /\ 1 \in DOMAIN dqCommon
          BY <2>3, <5>1
        <5> QED
          BY <1>3, <4>2, <5>2, WireNumbers
      <4>5. m - q > c
        BY <4>1, <4>3, <4>4
      <4>6. Len(completed') = c + 1
        <5>1. PICK s \in Seq(Cl!Completion) : s = completed
          BY DEF SubscriberTypes, Cl!TypeOK
        <5>2. completed' = Append(s, CompletionOf(Head(dqCommon), Head(replies)))
          BY <4>1, <5>1
        <5> QED
          BY <4>2, <5>1, <5>2
      <4>7. Later(c, m - q) = m - q /\ Later(c + 1, m - q) = m - q
        BY <4>5 DEF Later
      <4>8. nextSn' - Len(workQueue') - Len(requests') = m - q
        BY <1>1, <4>2
      <4> QED
        BY <1>1, <4>2, <4>6, <4>7, <4>8 DEF ServedUpTo
    <3> QED
      BY <3>1, <3>2
  <2> QED
    BY <1>1, <1>3, <2>1, <2>4, <2>5, FollowsKept
<1> QED
  BY <1>2, <1>3

LEMMA AppliedTopic ==
    ASSUME NEW S, NEW cmd \in Commands, NEW t
    PROVE  t \in Applied(S, cmd) <=> \/ cmd = [op |-> "SUBSCRIBE", topic |-> t]
                                     \/ t \in S /\ cmd # [op |-> "UNSUBSCRIBE", topic |-> t]
<1>1. PICK op \in Op, topic \in Topic : cmd = [op |-> op, topic |-> topic]
  BY DEF Commands
<1>2. /\ cmd.op = op /\ cmd.topic = topic
      /\ \A o, u : [op |-> o, topic |-> u].op = o /\ [op |-> o, topic |-> u].topic = u
  BY <1>1
<1>3. /\ cmd = [op |-> "SUBSCRIBE", topic |-> t] <=> op = "SUBSCRIBE" /\ topic = t
      /\ cmd = [op |-> "UNSUBSCRIBE", topic |-> t] <=> op = "UNSUBSCRIBE" /\ topic = t
  BY <1>1, <1>2
<1> QED
  BY <1>2, <1>3 DEF Applied

(* One more command is executed, in its turn. *)
LEMMA FollowsServer ==
    ASSUME SubscriberTypes, SubscriberWire, CommandOrder, SubsFollow, ServerAnswers
    PROVE  SubsFollow'
<1>1. /\ UNCHANGED <<nextSn, workQueue, done, link, readTask, completed, cmds, lost>>
      /\ requests # <<>> /\ requests' = Tail(requests)
  BY DEF ServerAnswers, mainVars, queueVars, tcpVars
<1>2. CASE ~Sound' \/ done
  BY <1>1, <1>2 DEF SubsFollow
<1>3. CASE Sound' /\ ~done
  <2>1. PICK x \in Reply : /\ x.kind \in {"ok", "error"}
                           /\ replies' = Append(replies, x)
    BY OneAnswer DEF SubscriberTypes
  <2>2. /\ \A k \in DOMAIN replies : k \in DOMAIN replies' /\ replies'[k] = replies[k]
        /\ Len(replies) + 1 \in DOMAIN replies' /\ replies'[Len(replies) + 1] = x
    <3>1. replies \in Seq(Incoming) /\ x \in Incoming
      BY DEF SubscriberTypes, Incoming
    <3> QED
      BY <2>1, <3>1, AppendProperties
  <2>3. Sound
    BY <1>1, <1>3, <2>2 DEF Sound
  <2>4. x.kind # "error"
    BY <1>3, <2>2 DEF Sound
  <2>5. subs' = Applied(subs, CommandOf(Head(requests).sn))
    <3>1. ~Answer("error")
      <4> SUFFICES ASSUME Answer("error") PROVE FALSE
        OBVIOUS
      <4>1. replies' = Append(replies, [sn |-> Head(requests).sn, idx |-> 1, kind |-> "error"])
        BY DEF Answer
      <4>2. PICK y \in Reply : y = [sn |-> Head(requests).sn, idx |-> 1, kind |-> "error"]
        <5>1. requests \in Seq(Cl!Request)
          BY DEF SubscriberTypes, Cl!TypeOK
        <5>2. Head(requests) \in Cl!Request
          BY <1>1, <5>1
        <5>3. Head(requests).sn \in Nat
          BY <5>2 DEF Cl!Request
        <5> QED
          BY <5>3 DEF Reply, ReplyKind
      <4>3. replies \in Seq(Incoming) /\ y \in Incoming
        BY DEF SubscriberTypes, Incoming
      <4>4. replies'[Len(replies) + 1] = y
        BY <4>1, <4>2, <4>3, AppendProperties
      <4> QED
        BY <2>2, <2>4, <4>2, <4>4
    <3> QED
      BY <3>1 DEF ServerAnswers
  <2>6. PICK c \in Nat, m \in Nat, n \in Nat, r \in Nat, q \in Nat :
           /\ c = Len(completed) /\ m = nextSn - Len(workQueue) /\ n = Len(dqCommon)
           /\ r = Len(AnswersIn(replies)) /\ q = Len(requests)
    BY <1>3, <2>3, WireNumbers, SoundWire
  <2>7. n = r + q /\ c <= m /\ m <= nextSn /\ q > 0 /\ nextSn = Len(cmds)
    <3>1. requests \in Seq(Cl!Request)
      BY DEF SubscriberTypes, Cl!TypeOK
    <3>2. q > 0
      BY <1>1, <2>6, <3>1
    <3>3. nextSn = Len(cmds)
      BY DEF SubscriberTypes
    <3> QED
      BY <1>3, <2>3, <2>6, <3>2, <3>3, WireNumbers, SoundWire
  <2>8. PICK sn : sn = Head(requests).sn
    OBVIOUS
  <2>9. sn = IF r + 1 <= n - (m - c) THEN 0 ELSE c + (r + 1) - (n - (m - c))
    <3>1. Head(requests) = requests[1] /\ 1 \in DOMAIN requests
      <4>1. requests \in Seq(Cl!Request)
        BY DEF SubscriberTypes, Cl!TypeOK
      <4> QED
        BY <1>1, <4>1
    <3>2. sn = dqCommon[r + 1].sn
      BY <2>3, <2>6, <2>8, <3>1, SoundWire
    <3>3. r + 1 \in 1 .. n
      BY <2>7
    <3>4. r + 1 \in DOMAIN dqCommon
      BY <1>3, <2>6, <3>3, WireNumbers
    <3> QED
      BY <1>3, <2>6, <3>2, <3>4, WireNumbers
  <2>10. nextSn' - Len(workQueue') - Len(requests') = (m - q) + 1
    <3>1. Len(requests') = q - 1
      <4>1. requests \in Seq(Cl!Request)
        BY DEF SubscriberTypes, Cl!TypeOK
      <4> QED
        BY <1>1, <2>6, <4>1
    <3> QED
      BY <1>1, <2>6, <3>1
  <2>11. CASE sn = 0
    <3>1. m - q + 1 <= c
      BY <2>7, <2>9, <2>11
    <3>2. Later(c, m - q) = c /\ Later(c, (m - q) + 1) = c
      BY <3>1 DEF Later
    <3>3. ServedUpTo' = ServedUpTo
      BY <1>1, <2>6, <2>10, <3>2 DEF ServedUpTo
    <3>4. subs' = subs
      BY <2>5, <2>8, <2>11 DEF CommandOf, Applied
    <3> QED
      BY <1>1, <1>3, <2>3, <3>3, <3>4, FollowsKept
  <2>12. CASE sn # 0
    <3>1. m - q >= c /\ sn = (m - q) + 1 /\ m - q \in Nat /\ sn \in 1 .. Len(cmds)
      BY <2>7, <2>9, <2>12
    <3>2. Later(c, m - q) = m - q /\ Later(c, (m - q) + 1) = sn
      BY <3>1 DEF Later
    <3>3. PICK k \in Nat : k = m - q /\ sn = k + 1
      BY <3>1
    <3>4. ServedUpTo = k /\ ServedUpTo' = k + 1
      BY <1>1, <2>6, <2>10, <3>2, <3>3 DEF ServedUpTo
    <3>5. cmds[k + 1] \in Commands /\ subs' = Applied(subs, cmds[k + 1])
      <4>1. cmds \in Seq(Commands)
        BY DEF SubscriberTypes
      <4>2. cmds[k + 1] \in Commands
        BY <3>1, <3>3, <4>1
      <4> QED
        BY <2>5, <2>8, <2>12, <3>3, <4>2 DEF CommandOf
    <3>6. ASSUME NEW t \in Topic
          PROVE  /\ t \in subs' => LastSubscribes(cmds, k + 1, t)
                 /\ ~lost /\ LastSubscribes(cmds, k + 1, t) => t \in subs'
      <4>1. t \in subs' <=> \/ cmds[k + 1] = [op |-> "SUBSCRIBE", topic |-> t]
                            \/ t \in subs /\ cmds[k + 1] # [op |-> "UNSUBSCRIBE", topic |-> t]
        BY <3>5, AppliedTopic
      <4>2. LastSubscribes(cmds, k + 1, t)
              <=> \/ cmds[k + 1] = [op |-> "SUBSCRIBE", topic |-> t]
                  \/ LastSubscribes(cmds, k, t) /\ cmds[k + 1] # [op |-> "UNSUBSCRIBE", topic |-> t]
        BY OneCommandMore
      <4>3. /\ t \in subs => LastSubscribes(cmds, k, t)
            /\ ~lost /\ LastSubscribes(cmds, k, t) => t \in subs
        BY <1>3, <2>3, <3>4 DEF SubsFollow
      <4> QED
        BY <4>1, <4>2, <4>3
    <3>7. \A t \in Topic : /\ t \in subs' => LastSubscribes(cmds', ServedUpTo', t)
                           /\ ~lost' /\ LastSubscribes(cmds', ServedUpTo', t) => t \in subs'
      BY <1>1, <3>4, <3>6
    <3> QED
      BY <3>7 DEF SubsFollow, LastSubscribes
  <2> QED
    BY <2>11, <2>12
<1> QED
  BY <1>2, <1>3

LEMMA FollowsAsk ==
    ASSUME SubscriberTypes, SubscriberWire, CommandOrder, SubsFollow, Ask
    PROVE  SubsFollow'
<1>1. UNCHANGED <<subs, lost>>
  BY DEF Ask, Subscribe, Unsubscribe, Psubscribe, Punsubscribe, Publish, Pubsub, quietMain,
         AddMessageCb, RemoveMessageCb
<1>2. ASSUME NEW call, NEW op \in Op, NEW topic \in Topic, CommitOne(call, op, topic)
      PROVE  SubsFollow'
  BY <1>1, <1>2, FollowsCommit
<1>3. ASSUME UNCHANGED clientVars, UNCHANGED cmds PROVE SubsFollow'
  BY <1>1, <1>3, FollowsQuiet DEF clientVars, connVars, tcpVars, serverVars, mainVars, queueVars
<1>4. {"SUBSCRIBE", "UNSUBSCRIBE", "PUBLISH", "PUBSUB"} \subseteq Op
      /\ Channel \subseteq Topic /\ Pattern \subseteq Topic
  BY DEF Op, Topic
<1>5. ASSUME NEW t \in Topic, Subscribe(t) \/ Unsubscribe(t) PROVE SubsFollow'
  <2>1. \/ CommitOne("Commit", "SUBSCRIBE", t) \/ CommitOne("Commit", "UNSUBSCRIBE", t)
        \/ UNCHANGED clientVars /\ UNCHANGED cmds
    BY <1>5 DEF Subscribe, Unsubscribe, NothingCommitted
  <2> QED
    BY <1>2, <1>3, <1>4, <2>1
<1>6. ASSUME NEW t \in Topic, Psubscribe(t) \/ Punsubscribe(t) PROVE SubsFollow'
  <2>1. \/ CommitOne("Commit", "SUBSCRIBE", t) \/ CommitOne("Commit", "UNSUBSCRIBE", t)
        \/ UNCHANGED clientVars /\ UNCHANGED cmds
    BY <1>6 DEF Psubscribe, Punsubscribe, NothingCommitted
  <2> QED
    BY <1>2, <1>3, <1>4, <2>1
<1>7. ASSUME NEW t \in Topic, Publish(t) \/ Pubsub(t) PROVE SubsFollow'
  <2>1. CommitOne("Commit", "PUBLISH", t) \/ CommitOne("BlockingCommit", "PUBSUB", t)
    BY <1>7 DEF Publish, Pubsub
  <2> QED
    BY <1>2, <1>4, <2>1
<1>8. ASSUME NEW kind \in {"channel", "pattern"}, NEW h \in Holder,
             AddMessageCb(kind, h) \/ RemoveMessageCb(kind, h)
      PROVE  SubsFollow'
  BY <1>3, <1>8 DEF AddMessageCb, RemoveMessageCb
<1> QED
  BY <1>4, <1>5, <1>6, <1>7, <1>8 DEF Ask

LEMMA SubsInvNext ==
    ASSUME SubscriberTypes, SubscriberTypes', SubscriberWire, SubscriberWire',
           CommandOrder, CommandOrder', MessageInv, SubsInv, [SubscriberNext]_allVars
    PROVE  SubsInv'
<1>1. SubsFollow
  BY DEF SubsInv
<1>2. CASE LoopRuns \/ ConnectionFault
  <2>1. WithConnection /\ SubsFollow'
    BY <1>2, FollowsLoop DEF LoopRuns, ConnectionFault
  <2>2. UNCHANGED completed
    BY <1>2 DEF LoopRuns, ConnectionFault, OnClientConnect, ConnectSucceeds, CommitLoop,
         CommitLoopTimer, ReadFails, TaskFailed, ResetAfterFailure, ReconnectTimer, DelayElapsed,
         ConnFault, ConnectThenReadThrows, ConnectFails, LoseLink, serverVars, receiveFrame
  <2>3. ~lost' /\ ~link' => ~lost /\ ~link
    BY <2>1, LossSeen
  <2> QED
    BY <2>1, <2>2, <2>3 DEF SubsInv, WithConnection
<1>3. CASE ReceiveReply
  <2>1. WithConnection /\ replies # <<>> /\ SubsFollow'
    BY <1>1, <1>3, FollowsReply DEF ReceiveReply, HasReply
  <2>2. ~lost' /\ ~link' => ~lost /\ ~link
    BY <2>1, LossSeen
  <2>3. lost' \/ link'
    BY <2>1, <2>2 DEF MessageInv
  <2> QED
    BY <2>1, <2>3 DEF SubsInv, WithConnection
<1>4. CASE ServerAnswers
  <2>1. link' /\ SubsFollow'
    BY <1>1, <1>4, FollowsServer DEF ServerAnswers
  <2> QED
    BY <2>1 DEF SubsInv
<1>5. ASSUME UNCHANGED <<subs, link, lost, completed>>, SubsFollow' PROVE SubsInv'
  BY <1>5 DEF SubsInv
<1>6. CASE Ask
  <2>1. UNCHANGED <<subs, lost>>
    BY <1>6 DEF Ask, Subscribe, Unsubscribe, Psubscribe, Punsubscribe, Publish, Pubsub, quietMain,
         AddMessageCb, RemoveMessageCb
  <2>2. UNCHANGED <<link, completed>>
    BY <1>6 DEF Ask, Subscribe, Unsubscribe, Psubscribe, Punsubscribe, Publish, Pubsub, CommitOne,
         CommitCommands, NothingCommitted, AddMessageCb, RemoveMessageCb, clientVars, connVars,
         tcpVars, serverVars
  <2>3. SubsFollow'
    BY <1>1, <1>6, FollowsAsk
  <2> QED
    BY <1>5, <2>1, <2>2, <2>3
<1>7. CASE DispatchOne \/ CallGoesOn \/ ShutdownBegins \/ Quits \/ UNCHANGED allVars
  <2>1. /\ UNCHANGED <<subs, lost, cmds, completed, nextSn, workQueue, requests, link, readTask, replies>>
        /\ done => done'
    BY <1>7 DEF DispatchOne, RunOnce, CallGoesOn, Notify, BlockingCommitReturns, ShutdownReturns,
         ShutdownBegins, Shutdown, Quits, WorkerQuits, allVars, clientVars, subscriberVars,
         connVars,
         tcpVars, serverVars, mainVars, queueVars
  <2>2. SubsFollow'
    BY <1>1, <2>1, FollowsQuiet
  <2> QED
    BY <1>5, <2>1, <2>2
<1>8. CASE ReadPipeAndCommit
  <2>1. UNCHANGED <<subs, link, lost, completed>>
    BY <1>8 DEF ReadPipeAndCommit, ReadPipe, SendAndCommit, subscriberVars, connVars, serverVars
  <2>2. SubsFollow'
    BY <1>1, <1>8, FollowsRead
  <2> QED
    BY <1>5, <2>1, <2>2
<1>9. CASE ReceiveMessage \/ \E t \in Topic : ServerPushes(t)
  <2>1. UNCHANGED <<subs, link, lost, completed>>
    BY <1>9 DEF ReceiveMessage, MessageRead, receiveFrame, subscriberVars, ServerPushes
  <2>2. SubsFollow'
    BY <1>1, <1>9, FollowsMessages
  <2> QED
    BY <1>5, <2>1, <2>2
<1> QED
  BY <1>2, <1>3, <1>4, <1>6, <1>7, <1>8, <1>9 DEF SubscriberNext, WorkerRuns

-----------------------------------------------------------------------------
(* What is pending.                                                         *)

(* The serial numbers after c, up to n. *)
Following(c, n) == [k \in 1 .. (n - c) |-> c + k]

LEMMA FollowingJoined ==
    ASSUME NEW a \in Nat, NEW b \in Nat, NEW c \in Nat, a <= b, b <= c
    PROVE  Following(a, b) \o Following(b, c) = Following(a, c)
<1>1. /\ Following(a, b) \in Seq(Nat) /\ Len(Following(a, b)) = b - a
      /\ Following(b, c) \in Seq(Nat) /\ Len(Following(b, c)) = c - b
      /\ Following(a, c) \in Seq(Nat) /\ Len(Following(a, c)) = c - a
  BY DEF Following
<1>2. /\ \A k \in 1 .. (b - a) : Following(a, b)[k] = a + k
      /\ \A k \in 1 .. (c - b) : Following(b, c)[k] = b + k
      /\ \A k \in 1 .. (c - a) : Following(a, c)[k] = a + k
  BY DEF Following
<1>3. PICK s \in Seq(Nat) : s = Following(a, b)
  BY <1>1
<1>4. PICK q \in Seq(Nat) : q = Following(b, c)
  BY <1>1
<1>5. PICK u \in Seq(Nat) : s = Following(a, b) /\ q = Following(b, c) /\ u = Following(a, c)
  BY <1>1, <1>3, <1>4
<1>6. s \o q \in Seq(Nat) /\ Len(s \o q) = c - a
  <2>1. s \o q \in Seq(Nat) /\ Len(s \o q) = Len(s) + Len(q)
    BY ConcatProperties
  <2>2. Len(s) = b - a /\ Len(q) = c - b
    BY <1>1, <1>5
  <2>3. (b - a) + (c - b) = c - a
    OBVIOUS
  <2> QED
    BY <2>1, <2>2, <2>3
<1>7. \A k \in 1 .. (c - a) : (s \o q)[k] = a + k
  <2> TAKE k \in 1 .. (c - a)
  <2>1. (s \o q)[k] = IF k <= Len(s) THEN s[k] ELSE q[k - Len(s)]
    BY <1>1, <1>5, ConcatProperties
  <2>2. CASE k <= b - a
    BY <1>1, <1>2, <1>5, <2>1, <2>2
  <2>3. CASE k > b - a
    <3>1. PICK j \in 1 .. (c - b) : j = k - (b - a)
      BY <2>3
    <3>2. q[j] = b + j
      BY <1>2, <1>5
    <3> QED
      BY <1>1, <1>5, <2>1, <2>3, <3>1, <3>2
  <2>4. k <= b - a \/ k > b - a
    OBVIOUS
  <2> QED
    BY <2>2, <2>3, <2>4
<1>8. s \o q = u
  <2>1. Len(u) = c - a /\ \A k \in 1 .. (c - a) : u[k] = a + k
    BY <1>1, <1>2, <1>5
  <2>2. Len(s \o q) = Len(u) /\ \A k \in 1 .. Len(u) : (s \o q)[k] = u[k]
    BY <1>6, <1>7, <2>1
  <2> QED
    BY <1>6, <2>2, SeqEqual
<1> QED
  BY <1>5, <1>8

LEMMA SnsSuffix ==
    ASSUME NEW T, NEW s \in Seq(T), NEW m \in 0 .. Len(s), NEW a \in Nat,
           \A i \in DOMAIN s : s[i].sn = IF i <= m THEN 0 ELSE a + (i - m)
    PROVE  Sns(s) = Following(a, a + (Len(s) - m))
<1>1. Len(s) \in Nat /\ DOMAIN s = 1 .. Len(s)
  OBVIOUS
<1>2. Positions(s, LAMBDA x : x.sn > 0) = (m + 1) .. Len(s)
  BY <1>1 DEF Positions
<1>3. OfCallers(s) = [k \in 1 .. (Len(s) - m) |-> s[m + k]]
  BY <1>1, <1>2, SelectedSuffix DEF OfCallers
<1>4. Sns(s) = [k \in 1 .. (Len(s) - m) |-> s[m + k].sn]
  BY <1>3 DEF Sns
<1>5. \A k \in 1 .. (Len(s) - m) : s[m + k].sn = a + k
  BY <1>1
<1>6. (a + (Len(s) - m)) - a = Len(s) - m
  BY <1>1
<1> QED
  BY <1>4, <1>5, <1>6 DEF Following

(* On a connection that will do, everything in the deque is written. *)
LEMMA NothingUnwritten ==
    ASSUME SubscriberTypes, SubscriberWire, Sound
    PROVE  Sns(Unwritten) = <<>>
<1>1. \A i \in DOMAIN dqCommon : dqCommon[i].state >= COMMITTING /\ dqCommon[i].state \in Int
  <2>1. dqCommon \in Seq(Pipeline)
    BY SetsAsClient DEF SubscriberTypes, Cl!TypeOK
  <2>2. \A i \in DOMAIN dqCommon : dqCommon[i] \in Pipeline
    BY <2>1
  <2> QED
    BY <2>2, SoundWire DEF Pipeline, PipelineState, QUEUEING, PROCESS_OVER
<1>2. Positions(dqCommon, LAMBDA cp : cp.state < COMMITTING) = {}
  BY <1>1 DEF Positions, COMMITTING
<1>3. PICK n \in Nat : n = 0
  OBVIOUS
<1>4. PICK m \in 0 .. n : m = 0
  BY <1>3
<1>5. Selected(dqCommon, (m + 1) .. n) = [k \in 1 .. (n - m) |-> dqCommon[m + k]]
  BY SelectedSuffix
<1>6. (m + 1) .. n = {} /\ 1 .. (n - m) = {}
  BY <1>3, <1>4
<1>7. Unwritten = [k \in {} |-> dqCommon[m + k]]
  BY <1>2, <1>5, <1>6 DEF Unwritten
<1>8. Unwritten = <<>>
  BY <1>7
<1>9. <<>> \in Seq(Pipeline) /\ Len(<<>>) = 0 /\ DOMAIN <<>> = {}
  OBVIOUS
<1>10. PICK none \in Seq(Pipeline) : none = <<>> /\ Len(none) = 0 /\ DOMAIN none = {}
  BY <1>9
<1>11. PICK j \in 0 .. Len(none) : j = 0
  BY <1>10
<1>12. Sns(none) = Following(n, n + (Len(none) - j))
  <2>1. \A i \in DOMAIN none : none[i].sn = IF i <= j THEN 0 ELSE n + (i - j)
    BY <1>10
  <2> QED
    BY <2>1, SnsSuffix
<1>13. n + (Len(none) - j) = n /\ 1 .. (n - n) = {}
  BY <1>3, <1>10, <1>11
<1>14. Following(n, n) = <<>>
  <2>1. Following(n, n) = [k \in {} |-> n + k]
    BY <1>13 DEF Following
  <2> QED
    BY <2>1
<1> QED
  BY <1>8, <1>10, <1>12, <1>13, <1>14

LEMMA RequestNumbers ==
    ASSUME SubscriberTypes, SubscriberWire, CommandOrder, Sound, ~done
    PROVE  Sns(requests) = Following(ServedUpTo, nextSn - Len(workQueue))
<1>1. PICK c \in Nat, m \in Nat, n \in Nat, r \in Nat, q \in Nat :
         /\ c = Len(completed) /\ m = nextSn - Len(workQueue) /\ n = Len(dqCommon)
         /\ r = Len(AnswersIn(replies)) /\ q = Len(requests)
  BY WireNumbers, SoundWire
<1>2. n = r + q /\ c <= m /\ m - c <= n
  BY <1>1, WireNumbers, SoundWire
<1>3. PICK rs \in Seq(Cl!Request) : rs = requests
  BY DEF SubscriberTypes, Cl!TypeOK
<1>4. ASSUME NEW k \in DOMAIN rs
      PROVE  /\ k \in 1 .. q
             /\ rs[k].sn = IF r + k <= n - (m - c) THEN 0 ELSE c + (r + k) - (n - (m - c))
  <2>1. k \in 1 .. q
    BY <1>1, <1>3
  <2>2. rs[k].sn = dqCommon[r + k].sn
    BY <1>1, <1>3, SoundWire
  <2>3. r + k \in 1 .. n
    BY <1>2, <2>1
  <2>4. r + k \in DOMAIN dqCommon
    BY <1>1, <2>3, WireNumbers
  <2> QED
    BY <1>1, <2>1, <2>2, <2>4, WireNumbers
<1>5. CASE m - q > c
  <2>1. PICK a \in Nat : a = m - q
    BY <1>5
  <2>2. ServedUpTo = a
    BY <1>1, <1>5, <2>1 DEF ServedUpTo, Later
  <2>3. PICK own \in 0 .. Len(rs) : own = 0
    BY <1>3
  <2>4. \A k \in DOMAIN rs : rs[k].sn = IF k <= own THEN 0 ELSE a + (k - own)
    BY <1>2, <1>4, <1>5, <2>1, <2>3
  <2>5. Sns(rs) = Following(a, a + (Len(rs) - own))
    BY <2>4, SnsSuffix
  <2>6. a + (Len(rs) - own) = m
    BY <1>1, <1>3, <2>1, <2>3
  <2> QED
    BY <1>1, <1>3, <2>2, <2>5, <2>6
<1>6. CASE ~(m - q > c)
  <2>1. ServedUpTo = c
    BY <1>1, <1>6 DEF ServedUpTo, Later
  <2>2. (q - m) + c \in 0 .. q
    BY <1>2, <1>6
  <2>3. PICK own \in 0 .. Len(rs) : own = (q - m) + c
    BY <1>1, <1>3, <2>2
  <2>4. \A k \in DOMAIN rs : rs[k].sn = IF k <= own THEN 0 ELSE c + (k - own)
    BY <1>2, <1>4, <2>3
  <2>5. Sns(rs) = Following(c, c + (Len(rs) - own))
    BY <2>4, SnsSuffix
  <2>6. c + (Len(rs) - own) = m
    <3>1. Len(rs) = q
      BY <1>1, <1>3
    <3>2. c + (q - ((q - m) + c)) = m
      OBVIOUS
    <3> QED
      BY <2>3, <3>1, <3>2
  <2> QED
    BY <1>1, <1>3, <2>1, <2>5, <2>6
<1> QED
  BY <1>5, <1>6

(* The commands that are still to be executed are the last ones, in order: all after those
   this connection's server has executed or, if it will not do, after those answered. *)
LEMMA PendingNumbers ==
    ASSUME SubscriberTypes, SubscriberWire, CommandOrder, ~done
    PROVE  Pending = Following(IF Sound THEN ServedUpTo ELSE Len(completed), nextSn)
<1>1. PICK c \in Nat, m \in Nat, n \in Nat, w \in Nat :
         /\ c = Len(completed) /\ m = nextSn - Len(workQueue) /\ n = Len(dqCommon)
         /\ w = Len(workQueue)
  BY WireNumbers
<1>2. c <= m /\ m <= nextSn /\ m - c <= n /\ nextSn \in Nat /\ m + w = nextSn
  BY <1>1, LengthsAreNat, WireNumbers
<1>3. Sns(workQueue) = Following(m, nextSn)
  <2>1. PICK wq \in Seq(Pipeline) : wq = workQueue
    BY DEF SubscriberTypes
  <2>2. PICK own \in 0 .. Len(wq) : own = 0
    BY <1>1, <2>1
  <2>3. \A k \in DOMAIN wq : wq[k].sn = IF k <= own THEN 0 ELSE m + (k - own)
    BY <1>1, <2>1, <2>2, WireNumbers
  <2>4. Sns(wq) = Following(m, m + (Len(wq) - own))
    BY <2>3, SnsSuffix
  <2>5. m + (Len(wq) - own) = nextSn
    BY <1>1, <1>2, <2>1, <2>2
  <2> QED
    BY <2>1, <2>4, <2>5
<1>4. CASE Sound
  <2>1. PICK a \in Nat : a = ServedUpTo /\ a <= m
    BY <1>1, <1>4, ServedBounds
  <2>2. Sns(requests) = Following(a, m)
    BY <1>1, <1>4, <2>1, RequestNumbers
  <2>3. Sns(Unwritten) = <<>>
    BY <1>4, NothingUnwritten
  <2>4. Following(a, m) \o <<>> = Following(a, m)
    <3>1. Following(a, m) \in Seq(Nat)
      BY <2>1 DEF Following
    <3> HIDE DEF Following
    <3> QED
      BY <3>1
  <2>5. Following(a, m) \o Following(m, nextSn) = Following(a, nextSn)
    BY <1>2, <2>1, FollowingJoined
  <2>6. Pending = (Sns(requests) \o Sns(Unwritten)) \o Sns(workQueue)
    BY <1>4 DEF Pending
  <2> QED
    BY <1>3, <1>4, <2>1, <2>2, <2>3, <2>4, <2>5, <2>6
<1>5. CASE ~Sound
  <2>1. PICK dq \in Seq(Cl!Pipeline) : dq = dqCommon
    BY DEF SubscriberTypes, Cl!TypeOK
  <2>2. n - (m - c) \in 0 .. n /\ Len(dq) = n
    BY <1>1, <1>2, <2>1
  <2>3. PICK own \in 0 .. Len(dq) : own = n - (m - c)
    BY <2>2
  <2>4. \A k \in DOMAIN dq : dq[k].sn = IF k <= own THEN 0 ELSE c + (k - own)
    BY <1>1, <2>1, <2>3, WireNumbers
  <2>5. Sns(dq) = Following(c, c + (Len(dq) - own))
    BY <2>4, SnsSuffix
  <2>6. c + (Len(dq) - own) = m
    BY <1>2, <2>2, <2>3
  <2>7. Following(c, m) \o Following(m, nextSn) = Following(c, nextSn)
    BY <1>2, FollowingJoined
  <2>8. Pending = Sns(dqCommon) \o Sns(workQueue)
    BY <1>5 DEF Pending
  <2> QED
    BY <1>1, <1>3, <1>5, <2>1, <2>5, <2>6, <2>7, <2>8
<1> QED
  BY <1>4, <1>5

(* What a topic comes to once the commands after b have been executed, if S is what the
   connection is subscribed to now. *)
Ends(b, S, t) ==
    \/ \E n \in (b + 1) .. Len(cmds) :
          /\ cmds[n] = [op |-> "SUBSCRIBE", topic |-> t]
          /\ \A l \in (b + 1) .. Len(cmds) : l > n => cmds[l] # [op |-> "UNSUBSCRIBE", topic |-> t]
    \/ /\ t \in S
       /\ \A l \in (b + 1) .. Len(cmds) : cmds[l] # [op |-> "UNSUBSCRIBE", topic |-> t]

LEMMA EndsLast ==
    ASSUME cmds \in Seq(Commands), NEW b \in Nat, b <= Len(cmds), NEW S, NEW t
    PROVE  /\ Ends(b, S, t) /\ (t \in S => LastSubscribes(cmds, b, t))
                => LastSubscribes(cmds, Len(cmds), t)
           /\ LastSubscribes(cmds, Len(cmds), t) /\ (LastSubscribes(cmds, b, t) => t \in S)
                => Ends(b, S, t)
<1> DEFINE On(n)  == cmds[n] = [op |-> "SUBSCRIBE", topic |-> t]
           Off(n) == cmds[n] = [op |-> "UNSUBSCRIBE", topic |-> t]
<1>1. PICK N \in Nat : N = Len(cmds) /\ b <= N
  OBVIOUS
<1>2. /\ Ends(b, S, t)
           <=> \/ \E n \in (b + 1) .. N : On(n) /\ \A l \in (b + 1) .. N : l > n => ~Off(l)
               \/ t \in S /\ \A l \in (b + 1) .. N : ~Off(l)
      /\ LastSubscribes(cmds, Len(cmds), t) <=> \E n \in 1 .. N : On(n) /\ \A l \in 1 .. N : l > n => ~Off(l)
      /\ LastSubscribes(cmds, b, t) <=> \E n \in 1 .. b : On(n) /\ \A l \in 1 .. b : l > n => ~Off(l)
  BY <1>1 DEF Ends, LastSubscribes
<1> HIDE DEF On, Off
<1>3. /\ \A n \in (b + 1) .. N : n \in 1 .. N /\ \A l \in 1 .. N : l > n => l \in (b + 1) .. N
      /\ \A n \in 1 .. N : n \in 1 .. b \/ n \in (b + 1) .. N
      /\ \A n \in 1 .. b : n \in 1 .. N /\ \A l \in (b + 1) .. N : l > n
  BY <1>1
<1>4. Ends(b, S, t) /\ (t \in S => LastSubscribes(cmds, b, t)) => LastSubscribes(cmds, Len(cmds), t)
  BY <1>2, <1>3
<1>5. LastSubscribes(cmds, Len(cmds), t) /\ (LastSubscribes(cmds, b, t) => t \in S) => Ends(b, S, t)
  BY <1>2, <1>3
<1> QED
  BY <1>4, <1>5

LEMMA AfterPendingEnds ==
    ASSUME cmds \in Seq(Commands), NEW b \in Nat, Pending = Following(b, Len(cmds)), b <= Len(cmds),
           NEW t \in Topic
    PROVE  t \in AfterPending <=> Ends(b, IF Sound THEN subs ELSE {}, t)
<1> DEFINE N == Len(cmds)
           On(n)  == cmds[n] = [op |-> "SUBSCRIBE", topic |-> t]
           Off(n) == cmds[n] = [op |-> "UNSUBSCRIBE", topic |-> t]
<1>1. N \in Nat /\ b <= N
  OBVIOUS
<1>2. N \in Nat /\ DOMAIN Pending = 1 .. (N - b) /\ \A k \in 1 .. (N - b) : Pending[k] = b + k
  BY DEF Following
<1>3. \A k \in 1 .. (N - b) : CommandOf(Pending[k]) = cmds[b + k]
  BY <1>2 DEF CommandOf
<1>4. /\ \A k \in DOMAIN Pending : CommandOf(Pending[k]) = [op |-> "SUBSCRIBE", topic |-> t] <=> On(b + k)
      /\ \A k \in DOMAIN Pending : CommandOf(Pending[k]) = [op |-> "UNSUBSCRIBE", topic |-> t] <=> Off(b + k)
  BY <1>2, <1>3
<1>5. t \in AfterPending
        <=> \/ \E k \in DOMAIN Pending :
                  /\ CommandOf(Pending[k]) = [op |-> "SUBSCRIBE", topic |-> t]
                  /\ ~ \E l \in DOMAIN Pending :
                         l > k /\ CommandOf(Pending[l]) = [op |-> "UNSUBSCRIBE", topic |-> t]
            \/ /\ Sound /\ t \in subs
               /\ ~ \E l \in DOMAIN Pending :
                         l > 0 /\ CommandOf(Pending[l]) = [op |-> "UNSUBSCRIBE", topic |-> t]
  BY Zenon DEF AfterPending
<1>6. Ends(b, IF Sound THEN subs ELSE {}, t)
        <=> \/ \E n \in (b + 1) .. N : On(n) /\ \A l \in (b + 1) .. N : l > n => ~Off(l)
            \/ Sound /\ t \in subs /\ \A l \in (b + 1) .. N : ~Off(l)
  BY DEF Ends
<1> HIDE DEF On, Off, N
<1>7. t \in AfterPending
        <=> \/ \E k \in 1 .. (N - b) : On(b + k) /\ ~ \E l \in 1 .. (N - b) : l > k /\ Off(b + l)
            \/ Sound /\ t \in subs /\ ~ \E l \in 1 .. (N - b) : l > 0 /\ Off(b + l)
  BY <1>2, <1>4, <1>5
<1>8. /\ \A k \in 1 .. (N - b) : b + k \in (b + 1) .. N /\ k > 0
      /\ \A n \in (b + 1) .. N : n - b \in 1 .. (N - b) /\ b + (n - b) = n
      /\ \A k, l \in 1 .. (N - b) : l > k <=> b + l > b + k
  BY <1>2
<1>9. (\E k \in 1 .. (N - b) : On(b + k) /\ ~ \E l \in 1 .. (N - b) : l > k /\ Off(b + l))
        <=> \E n \in (b + 1) .. N : On(n) /\ \A l \in (b + 1) .. N : l > n => ~Off(l)
  <2>1. ASSUME NEW k \in 1 .. (N - b), On(b + k), ~ \E l \in 1 .. (N - b) : l > k /\ Off(b + l)
        PROVE  \E n \in (b + 1) .. N : On(n) /\ \A l \in (b + 1) .. N : l > n => ~Off(l)
    <3>1. ASSUME NEW l \in (b + 1) .. N, l > b + k, Off(l) PROVE FALSE
      <4>1. PICK j \in 1 .. (N - b) : j = l - b /\ b + j = l
        BY <1>8
      <4>2. j > k
        BY <1>8, <3>1, <4>1
      <4> QED
        BY <2>1, <3>1, <4>1, <4>2
    <3> QED
      BY <1>8, <2>1, <3>1
  <2>2. ASSUME NEW n \in (b + 1) .. N, On(n), \A l \in (b + 1) .. N : l > n => ~Off(l)
        PROVE  \E k \in 1 .. (N - b) : On(b + k) /\ ~ \E l \in 1 .. (N - b) : l > k /\ Off(b + l)
    <3>1. PICK k \in 1 .. (N - b) : k = n - b /\ b + k = n
      BY <1>8
    <3>2. ASSUME NEW l \in 1 .. (N - b), l > k, Off(b + l) PROVE FALSE
      <4>1. b + l \in (b + 1) .. N /\ b + l > n
        BY <1>8, <3>1, <3>2
      <4> QED
        BY <2>2, <3>2, <4>1
    <3> QED
      BY <2>2, <3>1, <3>2
  <2> QED
    BY <2>1, <2>2
<1>10. (~ \E l \in 1 .. (N - b) : l > 0 /\ Off(b + l)) <=> \A l \in (b + 1) .. N : ~Off(l)
  BY <1>8
<1> QED
  BY <1>7, <1>6, <1>9, <1>10

ServerInv ==
    SubscriberTypes /\ SubscriberWire /\ MessageInv /\ CommandOrder /\ CounterInv /\ SubsInv

LEMMA ServerInvAlways == SubscriberSpec => []ServerInv
<1>1. SubscriberInit => ServerInv
  BY SubscriberTypesInit, SubscriberWireInit, MessageInvInit, CommandOrderInit, CounterInvInit,
     SubsInvInit DEF ServerInv
<1>2. ServerInv /\ [SubscriberNext]_allVars => ServerInv'
  <2> SUFFICES ASSUME ServerInv, [SubscriberNext]_allVars PROVE ServerInv'
    OBVIOUS
  <2>1. SubscriberTypes' /\ SubscriberWire' /\ CommandOrder' /\ CounterInv'
    BY SubscriberTypesNext, SubscriberWireNext, CommandOrderNext, CounterInvNext DEF ServerInv
  <2>2. MessageInv'
    BY <2>1, MessageInvNext DEF ServerInv
  <2>3. SubsInv'
    BY <2>1, SubsInvNext DEF ServerInv
  <2> QED
    BY <2>1, <2>2, <2>3 DEF ServerInv
<1> QED
  BY <1>1, <1>2, PTL DEF SubscriberSpec

(* Where the pending commands begin, and what the connection is subscribed to by then. *)
LEMMA PendingBegin ==
    ASSUME ServerInv, ~done
    PROVE  \E b \in Nat :
              /\ b <= Len(cmds) /\ Pending = Following(b, Len(cmds))
              /\ \A t \in Topic :
                    /\ Sound /\ t \in subs => LastSubscribes(cmds, b, t)
                    /\ ~lost /\ (link => Sound) /\ LastSubscribes(cmds, b, t) => Sound /\ t \in subs
<1>1. Len(cmds) = nextSn
  BY DEF ServerInv, SubscriberTypes
<1>2. CASE Sound
  <2>1. PICK b \in Nat : b = ServedUpTo /\ b <= Len(cmds)
    BY <1>2, ServedBounds DEF ServerInv
  <2>2. Pending = Following(b, Len(cmds))
    BY <1>1, <1>2, <2>1, PendingNumbers DEF ServerInv
  <2>3. \A t \in Topic : /\ t \in subs => LastSubscribes(cmds, b, t)
                         /\ ~lost /\ LastSubscribes(cmds, b, t) => t \in subs
    BY <1>2, <2>1 DEF ServerInv, SubsInv, SubsFollow
  <2> QED
    BY <1>2, <2>1, <2>2, <2>3
<1>3. CASE ~Sound
  <2>1. PICK b \in Nat : b = Len(completed) /\ b <= Len(cmds)
    <3>1. Len(completed) \in Nat /\ Len(completed) <= nextSn
      BY LengthsAreNat, WireNumbers DEF ServerInv
    <3> QED
      BY <1>1, <3>1
  <2>2. Pending = Following(b, Len(cmds))
    BY <1>1, <1>3, <2>1, PendingNumbers DEF ServerInv
  <2>3. ~lost /\ (link => Sound) => b = 0
    BY <1>3, <2>1 DEF ServerInv, SubsInv
  <2>4. \A t : b = 0 => ~LastSubscribes(cmds, b, t)
    BY DEF LastSubscribes
  <2> QED
    BY <1>3, <2>1, <2>2, <2>3, <2>4
<1> QED
  BY <1>2, <1>3

LEMMA EndsAsWanted ==
    ASSUME ServerInv, ~done, NEW t \in Topic
    PROVE  /\ t \in AfterPending => t \in Wanted
           /\ ~lost /\ (link => Sound) /\ t \in Wanted => t \in AfterPending
<1>1. PICK b \in Nat :
         /\ b <= Len(cmds) /\ Pending = Following(b, Len(cmds))
         /\ Sound /\ t \in subs => LastSubscribes(cmds, b, t)
         /\ ~lost /\ (link => Sound) /\ LastSubscribes(cmds, b, t) => Sound /\ t \in subs
  BY PendingBegin
<1>2. PICK S : S = IF Sound THEN subs ELSE {}
  OBVIOUS
<1>3. cmds \in Seq(Commands)
  BY DEF ServerInv, SubscriberTypes
<1>4. t \in AfterPending <=> Ends(b, S, t)
  BY <1>1, <1>2, <1>3, AfterPendingEnds
<1>5. t \in Wanted <=> LastSubscribes(cmds, Len(cmds), t)
  BY DEF Wanted, ServerInv, CounterInv
<1>6. t \in S <=> Sound /\ t \in subs
  BY <1>2
<1>7. /\ Ends(b, S, t) /\ (t \in S => LastSubscribes(cmds, b, t)) => LastSubscribes(cmds, Len(cmds), t)
      /\ LastSubscribes(cmds, Len(cmds), t) /\ (LastSubscribes(cmds, b, t) => t \in S) => Ends(b, S, t)
  BY <1>1, <1>3, EndsLast
<1> QED
  BY <1>1, <1>4, <1>5, <1>6, <1>7

(* Whatever is lost and sent again, and in whatever order callers come and go, a topic
   nobody wants any more is not subscribed to in the end (NoGhostSubscription): what
   OnClientConnect() sends again undoes itself in order. *)
THEOREM AlwaysNoGhostSubscription == SubscriberSpec => []NoGhostSubscription
<1>1. ServerInv => NoGhostSubscription
  BY EndsAsWanted DEF NoGhostSubscription, AfterPending
<1> QED
  BY <1>1, ServerInvAlways, PTL

(* As long as no connection is lost, the counters of Subscribe() and Psubscribe() and the
   server agree on the topics that are wanted (CountersMatchServer), once it has executed
   what is on its way. *)
THEOREM AlwaysCountersMatchServer == SubscriberSpec => []CountersMatchServer
<1>1. ServerInv => CountersMatchServer
  <2> SUFFICES ASSUME ServerInv, ~lost, ~done, link => Sound PROVE AfterPending = Wanted
    BY DEF CountersMatchServer
  <2>1. \A t \in Topic : t \in AfterPending <=> t \in Wanted
    BY EndsAsWanted
  <2>2. AfterPending \subseteq Topic /\ Wanted \subseteq Topic
    BY DEF AfterPending, Wanted
  <2> QED
    BY <2>1, <2>2
<1> QED
  BY <1>1, ServerInvAlways, PTL

-----------------------------------------------------------------------------
(* Types.                                                                   *)

(* What is written comes from the deque. *)
LEMMA WritesFromDeque ==
    ASSUME requests \in Seq(Request), NEW dq \in Seq(Pipeline), NEW open, NEW up,
           CommitWrites(dq, open, up)
    PROVE  \A k \in DOMAIN requests' :
              \/ \E j \in DOMAIN requests : requests'[k] = requests[j]
              \/ \E i \in DOMAIN dqCommon' : requests'[k].sn = dqCommon'[i].sn
<1>1. CASE UNCHANGED requests
  BY <1>1
<1>2. CASE ~UNCHANGED requests
  <2>1. PICK S : S = Positions(dq, IsSending) /\ S \in SUBSET DOMAIN dq
    BY DEF Positions
  <2>2. PICK written \in Seq(Pipeline) : written = Selected(dq, S)
    BY <2>1, SelectedType
  <2>3. PICK new : new = [k \in DOMAIN written |-> RequestOf(written[k])]
    OBVIOUS
  <2>4. requests' = requests \o new /\ dqCommon' = Marked(dq, S, COMMITTING)
    BY <1>2, <2>1, <2>2, <2>3 DEF CommitWrites
  <2>5. \A k \in DOMAIN written : written[k] \in Pipeline
    BY <2>2
  <2>6. /\ new \in Seq(Request) /\ DOMAIN new = DOMAIN written
        /\ \A k \in DOMAIN new : new[k].sn = written[k].sn
    <3>1. \A k \in DOMAIN written : /\ RequestOf(written[k]) \in Request
                                    /\ RequestOf(written[k]).sn = written[k].sn
      BY <2>5 DEF RequestOf, Request, Pipeline
    <3>2. DOMAIN written = 1 .. Len(written) /\ Len(written) \in Nat
      BY <2>2
    <3> QED
      BY <2>3, <3>1, <3>2
  <2>7. PICK r : r = requests \o new
    OBVIOUS
  <2>8. /\ \A k \in DOMAIN r : \/ k \in DOMAIN requests /\ r[k] = requests[k]
                               \/ k > Len(requests) /\ k - Len(requests) \in DOMAIN new
                                    /\ r[k] = new[k - Len(requests)]
    BY <2>6, <2>7, ConcatItems
  <2>9. \A k \in DOMAIN written : \E i \in DOMAIN dq : written[k] = dq[i]
    BY <2>1, <2>2, SelectedMembers
  <2>10. /\ DOMAIN Marked(dq, S, COMMITTING) = DOMAIN dq
         /\ \A i \in DOMAIN dq : Marked(dq, S, COMMITTING)[i].sn = dq[i].sn
    <3>1. COMMITTING \in PipelineState
      BY DEF COMMITTING, PipelineState, QUEUEING, PROCESS_OVER
    <3> QED
      BY <3>1, MarkedType
  <2>11. ASSUME NEW k \in DOMAIN new PROVE \E i \in DOMAIN dqCommon' : new[k].sn = dqCommon'[i].sn
    BY <2>4, <2>6, <2>9, <2>10
  <2> QED
    BY <2>4, <2>7, <2>8, <2>11
<1> QED
  BY <1>1, <1>2

(* The server knows no number that was not given away, and no topic that is none. *)
KnownInv ==
    /\ \A k \in DOMAIN requests : requests[k].sn <= nextSn
    /\ subs \subseteq Topic

NumbersGiven == \A i \in DOMAIN dqCommon : dqCommon[i].sn <= nextSn

LEMMA DequeNumbers == SubscriberTypes /\ CommandOrder => NumbersGiven
<1> SUFFICES ASSUME SubscriberTypes, CommandOrder, NEW i \in DOMAIN dqCommon
             PROVE  dqCommon[i].sn <= nextSn
  BY DEF NumbersGiven
<1>1. PICK m \in Nat : Cl!HandedOver(m)
  BY DEF CommandOrder
<1>2. m + Len(workQueue) <= nextSn /\ HoldsUnanswered(dqCommon, Len(completed), m)
  BY <1>1 DEF Cl!HandedOver, Cl!QueueHolds, Cl!QueueOK, HoldsUnanswered, Cl!HoldsUnanswered,
              OwnLeft, Cl!OwnLeft
<1>3. /\ Len(completed) \in Nat /\ Len(workQueue) \in Nat /\ nextSn \in Nat
      /\ i \in 1 .. Len(dqCommon) /\ Len(dqCommon) \in Nat
  <2>1. dqCommon \in Seq(Cl!Pipeline)
    BY DEF SubscriberTypes, Cl!TypeOK
  <2> QED
    BY <2>1, LengthsAreNat
<1>4. dqCommon[i].sn = IF i <= Len(dqCommon) - (m - Len(completed)) THEN 0
                       ELSE Len(completed) + i - (Len(dqCommon) - (m - Len(completed)))
  BY <1>2 DEF HoldsUnanswered, OwnLeft
<1>5. ASSUME NEW c \in Nat, NEW n \in Nat, NEW j \in 1 .. n
      PROVE  (IF j <= n - (m - c) THEN 0 ELSE c + j - (n - (m - c))) <= m
  OBVIOUS
<1>6. dqCommon[i].sn <= m
  BY <1>3, <1>4, <1>5
<1>7. dqCommon[i].sn \in Int
  BY <1>3, <1>4
<1> QED
  BY <1>2, <1>3, <1>6, <1>7

LEMMA WrittenKnown ==
    ASSUME SubscriberTypes, SubscriberTypes', CommandOrder', KnownInv, nextSn' = nextSn,
           NEW dq \in Seq(Pipeline), NEW open, NEW up, CommitWrites(dq, open, up)
    PROVE  \A k \in DOMAIN requests' : requests'[k].sn <= nextSn'
<1>1. \A i \in DOMAIN dqCommon' : dqCommon'[i].sn <= nextSn'
  <2>1. NumbersGiven'
    BY DequeNumbers, PTL
  <2> QED
    BY <2>1 DEF NumbersGiven
<1>2. requests \in Seq(Request)
  BY SetsAsClient DEF SubscriberTypes, Cl!TypeOK
<1>3. \A k \in DOMAIN requests' :
         \/ \E j \in DOMAIN requests : requests'[k] = requests[j]
         \/ \E i \in DOMAIN dqCommon' : requests'[k].sn = dqCommon'[i].sn
  BY <1>2, WritesFromDeque
<1> QED
  BY <1>1, <1>3 DEF KnownInv

LEMMA DequesWritten ==
    ASSUME SubscriberTypes
    PROVE  /\ dqCommon \in Seq(Pipeline)
           /\ Sent(dqCommon, workQueue) \in Seq(Pipeline)
           /\ Resent(Rebuilt(dqInit, dqCommon)) \in Seq(Pipeline)
<1>1. PICK dq \in Seq(Pipeline) : dq = dqCommon
  BY SetsAsClient DEF SubscriberTypes, Cl!TypeOK
<1>2. PICK batch \in Seq(Pipeline) : batch = workQueue
  BY DEF SubscriberTypes
<1>3. SENDING \in PipelineState
  BY DEF SENDING, PipelineState, QUEUEING, PROCESS_OVER
<1>4. \A S : \A s \in Seq(Pipeline) : Marked(s, S, SENDING) \in Seq(Pipeline)
  BY <1>3, MarkedType
<1>5. dq \o Marked(batch, DOMAIN batch, SENDING) \in Seq(Pipeline)
  <2>1. PICK new \in Seq(Pipeline) : new = Marked(batch, DOMAIN batch, SENDING)
    BY <1>4
  <2>2. dq \o new \in Seq(Pipeline)
    BY ConcatProperties
  <2> QED
    BY <2>1, <2>2
<1>6. PICK init \in Seq(Pipeline) : init = dqInit
  <2>1. InitNum \in Nat
    BY Parameters
  <2>2. CreateCmdPipeline(0, 1) \in Pipeline
    BY DEF CreateCmdPipeline, Pipeline, PipelineState, QUEUEING, PROCESS_OVER
  <2>3. PICK cp \in Pipeline : cp = CreateCmdPipeline(0, 1)
    BY <2>2
  <2>4. [i \in 1 .. InitNum |-> cp] \in Seq(Pipeline)
    BY <2>1
  <2>5. dqInit \in Seq(Pipeline)
    BY <2>3, <2>4 DEF dqInit
  <2> QED
    BY <2>5
<1>7. Rebuilt(init, dq) \in Seq(Pipeline)
  BY RebuiltType
<1>8. Resent(Rebuilt(init, dq)) \in Seq(Pipeline)
  BY <1>4, <1>7 DEF Resent
<1> QED
  BY <1>1, <1>2, <1>5, <1>6, <1>8 DEF Sent

LEMMA KnownAnswers ==
    ASSUME SubscriberTypes, KnownInv, ServerAnswers
    PROVE  KnownInv'
<1>1. /\ requests # <<>> /\ requests' = Tail(requests) /\ UNCHANGED nextSn
      /\ subs' = subs \/ subs' = Applied(subs, CommandOf(Head(requests).sn))
  BY DEF ServerAnswers, mainVars
<1>2. PICK rs \in Seq(Request) : rs = requests
  BY SetsAsClient DEF SubscriberTypes, Cl!TypeOK
<1>3. \A k \in DOMAIN Tail(rs) : k + 1 \in DOMAIN rs /\ Tail(rs)[k] = rs[k + 1]
  BY <1>1, <1>2
<1>4. \A k \in DOMAIN requests' : requests'[k].sn <= nextSn'
  BY <1>1, <1>2, <1>3 DEF KnownInv
<1>5. Head(rs).sn \in Nat /\ Head(rs).sn <= nextSn
  <2>1. Head(rs) = rs[1] /\ 1 \in DOMAIN rs /\ rs[1] \in Request
    BY <1>1, <1>2
  <2> QED
    BY <1>2, <2>1 DEF KnownInv, Request
<1>6. PICK sn \in Nat : sn = Head(requests).sn /\ sn <= nextSn
  BY <1>2, <1>5
<1>7. subs' \subseteq Topic
  <2>1. CASE sn = 0
    BY <1>1, <1>6, <2>1 DEF CommandOf, Applied, KnownInv
  <2>2. CASE sn # 0
    <3>1. cmds[sn] \in Commands
      <4>1. cmds \in Seq(Commands) /\ Len(cmds) = nextSn /\ nextSn \in Nat
        BY DEF SubscriberTypes, Cl!TypeOK
      <4> QED
        BY <1>6, <2>2, <4>1
    <3>2. PICK cmd \in Commands : cmd = cmds[sn]
      BY <3>1
    <3>3. subs' = subs \/ subs' = Applied(subs, cmd)
      BY <1>1, <1>6, <2>2, <3>2 DEF CommandOf
    <3>4. Applied(subs, cmd) \subseteq subs \cup {cmd.topic} /\ cmd.topic \in Topic
      BY DEF Applied, Commands
    <3> QED
      BY <3>3, <3>4 DEF KnownInv
  <2> QED
    BY <2>1, <2>2
<1> QED
  BY <1>4, <1>7 DEF KnownInv

LEMMA KnownInvNext ==
    ASSUME SubscriberTypes, SubscriberTypes', CommandOrder', KnownInv, [SubscriberNext]_allVars
    PROVE  KnownInv'
<1>1. ASSUME requests' = requests \/ requests' = <<>>,
             nextSn' = nextSn \/ nextSn' = nextSn + 1, subs' \subseteq subs
      PROVE  KnownInv'
  <2>1. nextSn \in Nat /\ \A k \in DOMAIN requests : requests[k].sn \in Nat
    <3>1. requests \in Seq(Request) /\ nextSn \in Nat
      BY SetsAsClient DEF SubscriberTypes, Cl!TypeOK
    <3>2. \A k \in DOMAIN requests : requests[k] \in Request
      BY <3>1
    <3> QED
      BY <3>1, <3>2 DEF Request
  <2>2. \A k \in DOMAIN requests : requests[k].sn <= nextSn'
    BY <1>1, <2>1 DEF KnownInv
  <2> QED
    BY <1>1, <2>2 DEF KnownInv
<1>2. ASSUME NEW dq \in Seq(Pipeline), NEW open, NEW up, CommitWrites(dq, open, up),
             nextSn' = nextSn, subs' \subseteq subs
      PROVE  KnownInv'
  BY <1>2, WrittenKnown DEF KnownInv
<1>3. CASE ServerAnswers
  BY <1>3, KnownAnswers
<1>4. CASE ReadPipeAndCommit
  <2>1. nextSn' = nextSn /\ subs' = subs
    BY <1>4 DEF ReadPipeAndCommit, ReadPipe, mainVars, subscriberVars
  <2>2. CASE requests' = requests
    BY <1>1, <2>1, <2>2
  <2>3. CASE requests' # requests
    <3>1. CommitWrites(Sent(dqCommon, workQueue), stream, link)
      BY <1>4, <2>3 DEF ReadPipeAndCommit, ReadPipe, SendAndCommit, connVars, serverVars
    <3> QED
      BY <1>2, <2>1, <3>1, DequesWritten
  <2> QED
    BY <2>2, <2>3
<1>5. CASE LoopRuns \/ ConnectionFault
  <2>1. subs' \subseteq subs /\ nextSn' = nextSn
    BY <1>5, RepliesLeft DEF LoopRuns, ConnectionFault, WithConnection, SubscriberTypes
  <2>2. CASE ConnectSucceeds
    <3>1. CommitWrites(Resent(Rebuilt(dqInit, dqCommon)), TRUE, link')
      BY <2>2 DEF ConnectSucceeds
    <3> QED
      BY <1>2, <2>1, <3>1, DequesWritten
  <2>3. CASE CommitLoopTimer
    <3>1. CommitWrites(dqCommon, stream, link)
      BY <2>3 DEF CommitLoopTimer
    <3> QED
      BY <1>2, <2>1, <3>1, DequesWritten
  <2>4. CASE ~ConnectSucceeds /\ ~CommitLoopTimer
    <3>1. requests' = requests \/ requests' = <<>>
      BY <1>5, <2>4 DEF LoopRuns, ConnectionFault, OnClientConnect, CommitLoop, ReadFails,
                        TaskFailed,
           ResetAfterFailure, ReconnectTimer, DelayElapsed, ConnFault, ConnectThenReadThrows,
           ConnectFails, LoseLink, serverVars, receiveFrame
    <3> QED
      BY <1>1, <2>1, <3>1
  <2> QED
    BY <2>2, <2>3, <2>4
<1>6. CASE Ask
  <2>1. requests' = requests /\ subs' = subs
    BY <1>6 DEF Ask, Subscribe, Unsubscribe, Psubscribe, Punsubscribe, Publish, Pubsub, CommitOne,
         CommitCommands, NothingCommitted, quietMain, AddMessageCb, RemoveMessageCb, clientVars,
         connVars, serverVars
  <2>2. nextSn' = nextSn \/ nextSn' = nextSn + 1
    BY <1>6 DEF Ask, Subscribe, Unsubscribe, Psubscribe, Punsubscribe, Publish, Pubsub, CommitOne,
         CommitCommands, NothingCommitted, AddMessageCb, RemoveMessageCb, clientVars, mainVars
  <2> QED
    BY <1>1, <2>1, <2>2
<1>7. CASE DispatchOne \/ CallGoesOn \/ ShutdownBegins \/ Quits \/ UNCHANGED allVars
  <2>1. UNCHANGED <<requests, nextSn, subs>>
    BY <1>7 DEF DispatchOne, RunOnce, CallGoesOn, Notify, BlockingCommitReturns, ShutdownReturns,
         ShutdownBegins, Shutdown, Quits, WorkerQuits, allVars, clientVars, subscriberVars,
         connVars,
         serverVars, mainVars
  <2> QED
    BY <1>1, <2>1
<1>8. CASE ReceiveReply
  <2>1. UNCHANGED <<requests, nextSn>> /\ subs' \subseteq subs
    BY <1>8 DEF ReceiveReply, OnClientReceive, ReceiveError, ReceiveUnexpected, ReceiveNonTail,
           ReceiveBadSha, ReceiveTail, receiveFrame, WithConnection
  <2> QED
    BY <1>1, <2>1
<1>9. CASE ReceiveMessage \/ \E t \in Topic : ServerPushes(t)
  <2>1. UNCHANGED <<requests, nextSn, subs>>
    BY <1>9 DEF ReceiveMessage, MessageRead, receiveFrame, subscriberVars, ServerPushes, mainVars
  <2> QED
    BY <1>1, <2>1
<1> QED
  BY <1>3, <1>4, <1>5, <1>6, <1>7, <1>8, <1>9 DEF SubscriberNext, WorkerRuns

(* Every variable of the subscriber has its type (SubscriberTypeOK): no counter of a channel
   falls below zero, and the server's subscriptions are topics some caller named. *)
THEOREM SubscriberTypeCorrect == SubscriberSpec => []SubscriberTypeOK
<1>1. SubscriberInit => ServerInv /\ KnownInv
  BY SubscriberTypesInit, SubscriberWireInit, MessageInvInit, CommandOrderInit, CounterInvInit,
     SubsInvInit DEF ServerInv, KnownInv, SubscriberInit, ClientInit, Init
<1>2. ServerInv /\ ServerInv' /\ KnownInv /\ [SubscriberNext]_allVars => KnownInv'
  BY KnownInvNext DEF ServerInv
<1>3. ServerInv /\ KnownInv => SubscriberTypeOK
  <2> SUFFICES ASSUME ServerInv, KnownInv PROVE SubscriberTypeOK
    OBVIOUS
  <2>1. SubscriberTypes
    BY DEF ServerInv
  <2>2. dqCommon \in Seq(Pipeline) /\ completed \in Seq(Completion)
    BY <2>1, SetsAsClient DEF SubscriberTypes, Cl!TypeOK
  <2>3. \A k \in DOMAIN replies : ~IsMessage(replies[k]) => replies[k] \in Reply
    <3>1. \A k \in DOMAIN replies : replies[k] \in Incoming
      BY <2>1 DEF SubscriberTypes
    <3> QED
      BY <3>1, Kinds DEF Incoming
  <2>4. \A k \in DOMAIN holders : holders[k] \in Seq(Holder)
    BY <2>1 DEF SubscriberTypes
  <2> QED
    BY <2>1, <2>2, <2>3, <2>4 DEF SubscriberTypeOK, SubscriberTypes, Commands, KnownInv
<1> QED
  BY <1>1, <1>2, <1>3, ServerInvAlways, PTL DEF SubscriberSpec

=============================================================================
