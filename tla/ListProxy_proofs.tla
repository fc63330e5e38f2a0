--------------------------- MODULE ListProxy_proofs ---------------------------
(***************************************************************************)
(* Proofs about one list, for any number of clients, marks, items, calls   *)
(* and lost answers.  SaveInv is about what is dirty, LockInv about marks  *)
(* used as locks, VersionInv about marks used as versions.                 *)
(***************************************************************************)
EXTENDS ListProxy, FiniteSetTheorems, SequenceTheorems, TLAPS

-----------------------------------------------------------------------------
(* What is dirty.                                                           *)

(* While the list is dirty it is what a script last made of it; and the saver has an
   answer only between getting it and writing it down. *)
Tracked ==
    /\ DirtyIsListed
    /\ dirty /\ ~untracked => truth = [list |-> list, mark |-> mark]
    /\ batch # <<>> => saver = "looted"

SaveInv == Tracked /\ CleanIsSaved

(* What every script keeps of it. *)
LEMMA RunKeepsSaved ==
    ASSUME SaveInv, NEW cmd, NEW answer, Run(cmd, answer), UNCHANGED saverVars
    PROVE  SaveInv'
<1>1. UNCHANGED <<saver, batch, saved, lootLost>> /\ Kept' = Kept
  BY DEF saverVars, Kept
<1> USE DEF SaveInv, Tracked, DirtyIsListed, CleanIsSaved
<1>2. CASE PlainPush(cmd, answer)
  BY <1>1, <1>2 DEF PlainPush, NotTouched
<1>3. CASE PlainPop(cmd, answer)
  <2>1. dirty' = dirty /\ listed' = listed /\ truth' = truth /\ mark' = mark
    BY <1>3 DEF PlainPop, NotTouched
  <2>2. untracked' = TRUE \/ (untracked' = untracked /\ list' = list)
    BY <1>3 DEF PlainPop
  <2> QED
    BY <1>1, <2>1, <2>2
<1>4. CASE PopEverything(cmd, answer)
  BY <1>1, <1>4 DEF PopEverything, Touched
<1>5. CASE CompareAndSet(cmd, answer)
  BY <1>1, <1>5 DEF CompareAndSet, Touched, NotTouched
<1>6. CASE Count(cmd, answer)
  BY <1>1, <1>6 DEF Count, Touched, NotTouched
<1>7. CASE Clear(cmd, answer)
  BY <1>1, <1>7 DEF Clear, NotTouched
<1> QED
  BY <1>2, <1>3, <1>4, <1>5, <1>6, <1>7 DEF Run

(* It holds initially. *)
LEMMA SaveInvInit == Init => SaveInv
BY DEF Init, SaveInv, Tracked, DirtyIsListed, CleanIsSaved, Kept

(* Every step keeps it. *)
LEMMA SaveInvNext == SaveInv /\ [Next]_vars => SaveInv'
<1> SUFFICES ASSUME SaveInv, [Next]_vars PROVE SaveInv'
  OBVIOUS
<1> USE DEF SaveInv, Tracked, DirtyIsListed, CleanIsSaved
<1>1. ASSUME UNCHANGED redisVars, UNCHANGED saverVars
      PROVE  SaveInv'
  BY <1>1 DEF redisVars, saverVars, Kept
<1>2. CASE UNCHANGED vars
  BY <1>1, <1>2 DEF vars
<1>3. ASSUME NEW c \in Client, NEW cmd \in usage.calls[c], Send(c, cmd) PROVE SaveInv'
  BY <1>1, <1>3 DEF Send
<1>4. ASSUME NEW c \in Client, Execute(c) PROVE SaveInv'
  <2>1. UNCHANGED saverVars /\ \E cmd, answer : Run(cmd, answer)
    BY <1>4 DEF Execute
  <2> QED
    BY <2>1, RunKeepsSaved
<1>5. ASSUME NEW c \in Client, Answer(c) \/ ClearExits(c) \/ Lose(c) PROVE SaveInv'
  BY <1>1, <1>5 DEF Answer, ClearExits, Lose
<1>6. ASSUME NEW call \in {"loot", "restore"}, SaverCalls(call) PROVE SaveInv'
  <2>1. UNCHANGED <<list, mark, dirty, listed, truth, untracked, batch, saved, lootLost>>
        /\ saver = "idle"
    BY <1>6 DEF SaverCalls, redisVars
  <2> QED
    BY <2>1 DEF Kept
<1>7. CASE LootExecuted
  <2>1. /\ UNCHANGED <<list, mark, truth, untracked, saved, lootLost>>
        /\ saver = "loot" /\ saver' = "looted"
        /\ batch' = IF listed /\ dirty THEN <<[list |-> list, mark |-> mark]>> ELSE <<>>
        /\ dirty' = (dirty /\ ~listed) /\ listed' = FALSE
    BY <1>7 DEF LootExecuted
  <2>2. batch = <<>> /\ Kept = saved
    BY <2>1 DEF Kept
  <2>3. CASE dirty
    <3>1. batch' = <<[list |-> list, mark |-> mark]>>
      BY <2>1, <2>3
    <3>2. Kept' = [list |-> list, mark |-> mark]
      BY <3>1 DEF Kept
    <3> QED
      BY <2>1, <2>3, <3>2
  <2>4. CASE ~dirty
    <3>1. Kept' = saved
      BY <2>1, <2>4 DEF Kept
    <3> QED
      BY <2>1, <2>2, <2>4, <3>1
  <2> QED
    BY <2>3, <2>4
<1>8. CASE LootAnswered
  <2>1. /\ UNCHANGED <<list, mark, dirty, listed, truth, untracked, lootLost>>
        /\ saved' = Kept /\ batch' = <<>>
    BY <1>8 DEF LootAnswered, redisVars
  <2>2. Kept' = Kept
    BY <2>1 DEF Kept
  <2> QED
    BY <2>1, <2>2
<1>9. CASE RestoreExecuted
  <2>1. /\ UNCHANGED <<listed, untracked, batch, saved, lootLost>>
        /\ saver = "restore" /\ dirty' = FALSE /\ truth' = saved
    BY <1>9 DEF RestoreExecuted
  <2>2. batch = <<>> /\ Kept' = saved
    BY <2>1 DEF Kept
  <2> QED
    BY <2>1, <2>2
<1>10. CASE RestoreAnswered
  <2>1. UNCHANGED <<list, mark, dirty, listed, truth, untracked, batch, saved, lootLost>>
        /\ saver = "restored"
    BY <1>10 DEF RestoreAnswered, redisVars
  <2> QED
    BY <2>1 DEF Kept
<1>11. CASE SaverAnswerLost
  <2>1. UNCHANGED <<list, mark, dirty, listed, truth, untracked, saved>> /\ batch' = <<>>
    BY <1>11 DEF SaverAnswerLost, redisVars
  <2>2. CASE saver = "looted" /\ lootLost' = TRUE
    BY <2>1, <2>2
  <2>3. CASE saver = "restored" /\ UNCHANGED lootLost
    <3>1. batch = <<>> /\ Kept' = Kept
      BY <2>1, <2>3 DEF Kept
    <3> QED
      BY <2>1, <2>3, <3>1
  <2> QED
    BY <1>11, <2>2, <2>3 DEF SaverAnswerLost
<1> QED
  BY <1>2, <1>3, <1>4, <1>5, <1>6, <1>7, <1>8, <1>9, <1>10, <1>11 DEF Next

-----------------------------------------------------------------------------
(* Locks.                                                                   *)

Plain == {"LPush", "RPush", "LPop", "RPop", "PopAll"}

(* Nobody's usage of the list changes. *)
LEMMA UsageKept == [Next]_vars => usage' = usage
BY DEF Next, vars, Send, Execute, Answer, ClearExits, Lose, Fault, SaverCalls,
       LootExecuted, LootAnswered, RestoreExecuted, RestoreAnswered, SaverAnswerLost

(* What follows of a sequence from its being one, whatever its items are. *)
IsSeq(s) == \E S : s \in Seq(S)

(* A sequence with one more element is one. *)
LEMMA AppendIsSeq ==
    ASSUME NEW s, IsSeq(s), NEW x
    PROVE  /\ IsSeq(Append(s, x)) /\ Len(s) \in Nat /\ Len(Append(s, x)) = Len(s) + 1
           /\ DOMAIN s = 1 .. Len(s)
           /\ \A i \in 1 .. Len(s) : Append(s, x)[i] = s[i]
           /\ Append(s, x)[Len(s) + 1] = x
<1>1. PICK S : s \in Seq(S)
  BY DEF IsSeq
<1> DEFINE T == S \cup {x}
<1>2. s \in Seq(T) /\ x \in T
  BY <1>1
<1> HIDE DEF T
<1> QED
  BY <1>2 DEF IsSeq

(* So is its beginning. *)
LEMMA PartIsSeq ==
    ASSUME NEW s, IsSeq(s), NEW n \in 0 .. Len(s)
    PROVE  /\ IsSeq(SubSeq(s, 1, n)) /\ Len(SubSeq(s, 1, n)) = n
           /\ \A i \in 1 .. n : SubSeq(s, 1, n)[i] = s[i]
           /\ s # <<>> => /\ IsSeq(Tail(s)) /\ Len(Tail(s)) = Len(s) - 1
                          /\ Len(s) > 0 /\ Head(s) = s[1]
                          /\ \A i \in 1 .. Len(s) - 1 : Tail(s)[i] = s[i + 1]
BY DEF IsSeq

(* What the elements of a longer sequence are. *)
LEMMA AppendToSeq ==
    ASSUME NEW S, NEW s \in Seq(S), NEW x \in S
    PROVE  /\ Append(s, x) \in Seq(S) /\ Len(Append(s, x)) = Len(s) + 1
           /\ Len(s) \in Nat /\ DOMAIN s = 1 .. Len(s)
           /\ \A i \in DOMAIN s : i \in DOMAIN Append(s, x) /\ Append(s, x)[i] = s[i]
           /\ \A i \in DOMAIN Append(s, x) :
                 \/ i \in DOMAIN s /\ Append(s, x)[i] = s[i]
                 \/ i = Len(s) + 1 /\ Append(s, x)[i] = x
OBVIOUS

(* And those of a shorter one. *)
LEMMA TailOfSeq ==
    ASSUME NEW S, NEW s \in Seq(S), Len(s) > 0
    PROVE  /\ s # <<>> /\ Head(s) = s[1] /\ Head(s) \in S
           /\ Tail(s) \in Seq(S) /\ Len(Tail(s)) = Len(s) - 1
           /\ \A i \in 1 .. Len(s) - 1 : Tail(s)[i] = s[i + 1]
OBVIOUS

(* A blocking call is the last one its client has made. *)
CallsInOrder ==
    /\ DOMAIN queue = Client /\ DOMAIN served = Client /\ DOMAIN waiting = Client
    /\ \A c \in Client :
        /\ queue[c] \in Seq(usage.calls[c]) /\ IsSeq(served[c])
        /\ Len(served[c]) <= Len(queue[c])
        /\ \A i \in DOMAIN queue[c] :
              queue[c][i].op = "SetCAS" => i = Len(queue[c]) /\ waiting[c]

(* Who holds a lock has no call on its way that lets go of it. *)
HolderSafe ==
    \A c \in Client, id \in Id : <<c, id>> \in holds =>
        /\ mark[id] = c
        /\ \A i \in DOMAIN queue[c] : Unlocks(c, queue[c][i]) => queue[c][i].id # id

(* Who will be told that it has the lock has it. *)
AnswerSafe ==
    \A c \in Client : \A i \in DOMAIN served[c] :
        Locks(c, queue[c][i]) /\ served[c][i].ok => mark[queue[c][i].id] = c

LockInv ==
    /\ holds \subseteq Client \X Id
    /\ mark \in [Id -> Mark]
    /\ saver \notin {"restore", "restored"} /\ usage \in Usages
    /\ CallsInOrder /\ HolderSafe /\ AnswerSafe

(* What discipline says of a call. *)
LEMMA LockCall ==
    ASSUME usage \in Usages, LockDiscipline, NEW c \in Client, NEW cmd \in usage.calls[c]
    PROVE  \/ cmd.op \in Plain
           \/ (Locks(c, cmd) \/ Unlocks(c, cmd)) /\ cmd.id \in Id
<1>1. \/ cmd.op \in {"LPush", "RPush", "LPop", "RPop", "PopAll"}
      \/ Locks(c, cmd) \/ Unlocks(c, cmd)
  BY DEF LockDiscipline
<1>2. cmd.op = "SetCAS" => cmd.id \in Id
  <2>1. cmd \in Command
    BY UsagesAssumption
  <2> QED
    BY <2>1 DEF Command, PushCAS
<1>3. ASSUME cmd.op \notin Plain
      PROVE  (Locks(c, cmd) \/ Unlocks(c, cmd)) /\ cmd.id \in Id
  <2>1. Locks(c, cmd) \/ Unlocks(c, cmd)
    BY <1>1, <1>3 DEF Plain
  <2>2. cmd.op = "SetCAS"
    BY <2>1 DEF Locks, Unlocks
  <2> QED
    BY <1>2, <2>1, <2>2
<1> QED
  BY <1>3

(* Numbers of clients are neither Free nor no mark. *)
LEMMA ClientNumbers ==
    ASSUME NEW c \in Client
    PROVE  c \in Nat /\ c # Free /\ c # None
BY ClientAssumption DEF Free

(* A call that does not set a mark changes none. *)
LEMMA OthersLeaveMarks ==
    ASSUME NEW cmd, NEW answer, Run(cmd, answer), cmd.op \in Plain
    PROVE  mark' = mark
<1>1. CASE PlainPush(cmd, answer)
  BY <1>1 DEF PlainPush
<1>2. CASE PlainPop(cmd, answer)
  BY <1>2 DEF PlainPop
<1>3. CASE PopEverything(cmd, answer)
  BY <1>3 DEF PopEverything, Plain
<1>4. cmd.op \notin {"SetCAS", "ResetCAS", "LPushCAS", "RPushCAS", "IncrByIntCAS", "DecrByIntCAS", "Clear"}
  BY DEF Plain
<1> QED
  BY <1>1, <1>2, <1>3, <1>4 DEF Run, CompareAndSet, Count, Clear, PushCAS

(* A SetCAS that passes sets its mark; one that does not changes nothing and says so. *)
LEMMA SetCASRun ==
    ASSUME NEW cmd, NEW answer, Run(cmd, answer), cmd.op = "SetCAS"
    PROVE  \/ /\ mark[cmd.id] \in {None, cmd.expect}
              /\ mark' = [mark EXCEPT ![cmd.id] = cmd.dest]
           \/ mark' = mark /\ answer = Refused
<1>1. CompareAndSet(cmd, answer)
  BY DEF Run, PlainPush, PlainPop, PopEverything, Count, Clear
<1> QED
  BY <1>1 DEF CompareAndSet, Passes

(* What the call of a client does to marks: only it lets go of its lock, and it is told
   that it has a lock only when it has. *)
LEMMA DisciplinedRun ==
    ASSUME usage \in Usages, LockDiscipline, mark \in [Id -> Mark],
           NEW c \in Client, NEW cmd \in usage.calls[c], NEW answer, Run(cmd, answer)
    PROVE  /\ mark' \in [Id -> Mark]
           /\ \A d \in Client, id \in Id :
                 mark[id] = d => mark'[id] = d \/ (d = c /\ Unlocks(c, cmd) /\ cmd.id = id)
           /\ Locks(c, cmd) /\ answer.ok => mark'[cmd.id] = c
<1>1. CASE cmd.op \in Plain
  <2>1. mark' = mark
    BY <1>1, OthersLeaveMarks
  <2>2. cmd.op # "SetCAS"
    BY <1>1 DEF Plain
  <2> QED
    BY <2>1, <2>2 DEF Locks
<1>2. ASSUME Locks(c, cmd) \/ Unlocks(c, cmd), cmd.id \in Id
      PROVE  /\ mark' \in [Id -> Mark]
             /\ \A d \in Client, id \in Id :
                   mark[id] = d => mark'[id] = d \/ (d = c /\ Unlocks(c, cmd) /\ cmd.id = id)
             /\ Locks(c, cmd) /\ answer.ok => mark'[cmd.id] = c
  <2>1. cmd.op = "SetCAS" /\ cmd.expect \in {Free, c} /\ cmd.dest \in {Free, c}
    BY <1>2 DEF Locks, Unlocks
  <2>2. cmd.expect = c => Unlocks(c, cmd)
    BY <1>2, ClientNumbers DEF Locks
  <2>3. Locks(c, cmd) => cmd.dest = c
    BY DEF Locks
  <2>4. cmd.dest \in Mark
    BY <2>1, ClientNumbers DEF Mark, Free
  <2>5. \A d \in Client : d # None /\ d # Free
    BY ClientNumbers
  <2>6. CASE mark[cmd.id] \in {None, cmd.expect} /\ mark' = [mark EXCEPT ![cmd.id] = cmd.dest]
    <3>1. mark'[cmd.id] = cmd.dest /\ \A id \in Id : id # cmd.id => mark'[id] = mark[id]
      BY <1>2, <2>6
    <3>2. mark' \in [Id -> Mark]
      BY <2>4, <2>6
    <3>3. ASSUME NEW d \in Client, mark[cmd.id] = d
          PROVE  d = c /\ Unlocks(c, cmd)
      BY <2>1, <2>2, <2>5, <2>6, <3>3
    <3> QED
      BY <2>3, <3>1, <3>2, <3>3
  <2>7. CASE mark' = mark /\ answer = Refused
    BY <2>7 DEF Refused
  <2> QED
    BY <2>1, <2>6, <2>7, SetCASRun
<1> QED
  BY <1>1, <1>2, LockCall

(* The server executes a call. *)
LEMMA ExecuteKeeps ==
    ASSUME LockDiscipline, LockInv, usage' = usage, NEW c \in Client, Execute(c)
    PROVE  LockInv'
<1> USE DEF LockInv
<1> DEFINE n == Len(served[c]) + 1
<1>1. /\ Len(served[c]) < Len(queue[c])
      /\ UNCHANGED <<queue, waiting, holds, saver>>
  BY DEF Execute, saverVars
<1>2. PICK cmd, answer :
         /\ cmd = queue[c][n] /\ Run(cmd, answer)
         /\ served' = [served EXCEPT ![c] = Append(@, answer)]
  BY DEF Execute
<1>3. n \in DOMAIN queue[c] /\ cmd \in usage.calls[c]
  <2>1. IsSeq(served[c]) /\ queue[c] \in Seq(usage.calls[c])
    BY DEF CallsInOrder
  <2>2. Len(served[c]) \in Nat
    BY <2>1, AppendIsSeq
  <2> QED
    BY <1>1, <1>2, <2>1, <2>2
<1>4. /\ mark' \in [Id -> Mark]
      /\ \A d \in Client, id \in Id :
            mark[id] = d => mark'[id] = d \/ (d = c /\ Unlocks(c, cmd) /\ cmd.id = id)
      /\ Locks(c, cmd) /\ answer.ok => mark'[cmd.id] = c
  BY <1>2, <1>3, DisciplinedRun
<1>5. ASSUME NEW d \in Client
      PROVE  /\ IsSeq(served'[d]) /\ Len(served'[d]) \in Nat
             /\ Len(served'[d]) <= Len(queue[d])
             /\ DOMAIN served'[d] = 1 .. Len(served'[d])
             /\ \A i \in DOMAIN served'[d] :
                   \/ i \in DOMAIN served[d] /\ served'[d][i] = served[d][i]
                   \/ d = c /\ i = n /\ served'[d][i] = answer
  <2>1. IsSeq(served[d]) /\ Len(served[d]) <= Len(queue[d]) /\ queue[d] \in Seq(usage.calls[d])
    BY DEF CallsInOrder
  <2>2. Len(served[d]) \in Nat /\ DOMAIN served[d] = 1 .. Len(served[d])
    BY <2>1, AppendIsSeq
  <2>3. CASE d # c
    <3>1. served'[d] = served[d]
      BY <1>2, <2>3 DEF CallsInOrder
    <3> QED
      BY <2>1, <2>2, <3>1
  <2>4. CASE d = c
    <3> DEFINE s == Append(served[c], answer)
    <3>1. served'[c] = s
      BY <1>2 DEF CallsInOrder
    <3>2. /\ IsSeq(s) /\ Len(s) = n /\ s[n] = answer
          /\ \A i \in 1 .. Len(served[c]) : s[i] = served[c][i]
      <4>1. IsSeq(served[c])
        BY <2>1, <2>4
      <4> QED
        BY <4>1, AppendIsSeq, Zenon
    <3>3. DOMAIN s = 1 .. n
      BY <2>2, <2>4, <3>2 DEF IsSeq
    <3> HIDE DEF s
    <3> QED
      BY <1>1, <2>1, <2>2, <2>4, <3>1, <3>2, <3>3
  <2> QED
    BY <2>3, <2>4
<1>6. CallsInOrder'
  <2>1. DOMAIN queue' = Client /\ DOMAIN served' = Client /\ DOMAIN waiting' = Client
    BY <1>1, <1>2 DEF CallsInOrder
  <2> QED
    BY <1>1, <1>5, <2>1 DEF CallsInOrder
<1>7. HolderSafe'
  BY <1>1, <1>2, <1>3, <1>4 DEF HolderSafe
<1>8. AnswerSafe'
  <2> SUFFICES ASSUME NEW d \in Client, NEW i \in DOMAIN served'[d],
                      Locks(d, queue[d][i]), served'[d][i].ok
               PROVE  mark'[queue[d][i].id] = d
    BY <1>1 DEF AnswerSafe
  <2>1. CASE d = c /\ i = n /\ served'[d][i] = answer
    BY <1>2, <1>4, <2>1
  <2>2. CASE i \in DOMAIN served[d] /\ served'[d][i] = served[d][i]
    <3>1. mark[queue[d][i].id] = d
      BY <2>2 DEF AnswerSafe
    <3>2. i = Len(queue[d]) /\ i \in 1 .. Len(served[d]) /\ Len(served[d]) <= Len(queue[d])
      <4>1. i \in DOMAIN queue[d] /\ i \in 1 .. Len(served[d]) /\ Len(served[d]) <= Len(queue[d])
        <5>1. IsSeq(served[d]) /\ Len(served[d]) <= Len(queue[d]) /\ queue[d] \in Seq(usage.calls[d])
          BY DEF CallsInOrder
        <5> QED
          BY <2>2, <5>1, AppendIsSeq
      <4>2. queue[d][i].op = "SetCAS"
        BY DEF Locks
      <4> QED
        BY <4>1, <4>2 DEF CallsInOrder
    <3>3. d # c
      <4>1. Len(served[d]) \in Nat
        BY AppendIsSeq DEF CallsInOrder
      <4>2. Len(queue[d]) \in Nat
        BY DEF CallsInOrder
      <4> QED
        BY <1>1, <3>2, <4>1, <4>2
    <3>4. queue[d][i].id \in Id
      <4>1. i \in DOMAIN queue[d] /\ queue[d] \in Seq(usage.calls[d]) /\ queue[d][i].op = "SetCAS"
        <5>1. IsSeq(served[d]) /\ queue[d] \in Seq(usage.calls[d])
          BY DEF CallsInOrder
        <5>2. Len(served[d]) \in Nat
          BY <5>1, AppendIsSeq
        <5> QED
          BY <3>2, <5>1, <5>2 DEF Locks
      <4>2. queue[d][i] \in usage.calls[d]
        BY <4>1
      <4> QED
        BY <4>1, <4>2, LockCall DEF Plain
    <3> QED
      BY <1>4, <3>1, <3>3, <3>4
  <2> QED
    BY <1>5, <2>1, <2>2
<1> QED
  BY <1>1, <1>4, <1>6, <1>7, <1>8

(* A client makes a call. *)
LEMMA SendKeeps ==
    ASSUME LockDiscipline, LockInv, usage' = usage,
           NEW c \in Client, NEW cmd \in usage.calls[c], Send(c, cmd)
    PROVE  LockInv'
<1> USE DEF LockInv
<1> DEFINE n == Len(queue[c]) + 1
<1>1. /\ ~waiting[c]
      /\ queue' = [queue EXCEPT ![c] = Append(@, cmd)]
      /\ waiting' = [waiting EXCEPT ![c] = cmd.op \notin {"LPush", "RPush"}]
      /\ holds' = IF Unlocks(c, cmd) THEN holds \ {<<c, cmd.id>>} ELSE holds
      /\ UNCHANGED <<served, mark, saver>>
  BY DEF Send, redisVars, saverVars
<1>2. ASSUME NEW d \in Client
      PROVE  /\ queue'[d] \in Seq(usage.calls[d])
             /\ Len(served[d]) <= Len(queue'[d])
             /\ \A i \in DOMAIN served[d] : i \in DOMAIN queue[d] /\ queue'[d][i] = queue[d][i]
             /\ \A i \in DOMAIN queue'[d] :
                   \/ i \in DOMAIN queue[d] /\ queue'[d][i] = queue[d][i]
                   \/ d = c /\ i = n /\ Len(queue'[d]) = n /\ queue'[d][i] = cmd
             /\ d # c => queue'[d] = queue[d] /\ waiting'[d] = waiting[d]
  <2>1. /\ IsSeq(served[d]) /\ queue[d] \in Seq(usage.calls[d])
        /\ Len(served[d]) <= Len(queue[d])
    BY DEF CallsInOrder
  <2>2. Len(served[d]) \in Nat /\ DOMAIN served[d] = 1 .. Len(served[d])
    BY <2>1, AppendIsSeq
  <2>3. CASE d # c
    <3>1. queue'[d] = queue[d] /\ waiting'[d] = waiting[d]
      BY <1>1, <2>3 DEF CallsInOrder
    <3> QED
      BY <2>1, <2>2, <2>3, <3>1
  <2>4. CASE d = c
    <3> DEFINE s == Append(queue[c], cmd)
    <3>1. queue'[c] = s
      BY <1>1 DEF CallsInOrder
    <3>2. /\ s \in Seq(usage.calls[c]) /\ Len(s) = n
          /\ Len(queue[c]) \in Nat /\ DOMAIN queue[c] = 1 .. Len(queue[c])
          /\ \A i \in DOMAIN queue[c] : s[i] = queue[c][i]
          /\ \A i \in DOMAIN s :
                (i \in DOMAIN queue[c] /\ s[i] = queue[c][i]) \/ (i = n /\ s[i] = cmd)
      <4>1. queue[c] \in Seq(usage.calls[c]) /\ cmd \in usage.calls[c]
        BY <2>1, <2>4
      <4>2. /\ s \in Seq(usage.calls[c]) /\ Len(s) = Len(queue[c]) + 1
            /\ Len(queue[c]) \in Nat /\ DOMAIN queue[c] = 1 .. Len(queue[c])
            /\ \A i \in DOMAIN queue[c] : i \in DOMAIN s /\ s[i] = queue[c][i]
            /\ \A i \in DOMAIN s :
                  \/ i \in DOMAIN queue[c] /\ s[i] = queue[c][i]
                  \/ i = Len(queue[c]) + 1 /\ s[i] = cmd
        <5>1. PICK C : C = usage.calls[c]
          OBVIOUS
        <5>2. PICK q : q = queue[c]
          OBVIOUS
        <5>3. q \in Seq(C) /\ cmd \in C
          BY <4>1, <5>1, <5>2
        <5> DEFINE t == Append(q, cmd)
        <5>4. /\ t \in Seq(C) /\ Len(t) = Len(q) + 1
              /\ Len(q) \in Nat /\ DOMAIN q = 1 .. Len(q)
              /\ \A i \in DOMAIN q : i \in DOMAIN t /\ t[i] = q[i]
              /\ \A i \in DOMAIN t :
                    \/ i \in DOMAIN q /\ t[i] = q[i]
                    \/ i = Len(q) + 1 /\ t[i] = cmd
          BY <5>3, AppendToSeq
        <5> QED
          BY <5>1, <5>2, <5>4
      <4> HIDE DEF s
      <4> QED
        BY <4>2
    <3> HIDE DEF s
    <3>3. Len(served[c]) <= Len(s)
      BY <2>1, <2>2, <2>4, <3>2
    <3>4. \A i \in DOMAIN served[c] : i \in DOMAIN queue[c]
      BY <2>1, <2>2, <2>4, <3>2
    <3> QED
      BY <2>4, <3>1, <3>2, <3>3, <3>4
  <2> QED
    BY <2>3, <2>4
<1>3. cmd.op = "SetCAS" => waiting'[c]
  BY <1>1 DEF CallsInOrder
<1>4. CallsInOrder'
  <2>1. DOMAIN queue' = Client /\ DOMAIN served' = Client /\ DOMAIN waiting' = Client
    BY <1>1 DEF CallsInOrder
  <2>2. ASSUME NEW d \in Client, NEW i \in DOMAIN queue'[d], queue'[d][i].op = "SetCAS"
        PROVE  i = Len(queue'[d]) /\ waiting'[d]
    <3>1. CASE d = c /\ i = n /\ Len(queue'[d]) = n /\ queue'[d][i] = cmd
      BY <1>3, <2>2, <3>1
    <3>2. CASE i \in DOMAIN queue[d] /\ queue'[d][i] = queue[d][i]
      <4>1. i = Len(queue[d]) /\ waiting[d]
        BY <2>2, <3>2 DEF CallsInOrder
      <4> QED
        BY <1>1, <1>2, <4>1
    <3> QED
      BY <1>2, <3>1, <3>2
  <2> QED
    BY <1>1, <1>2, <2>1, <2>2 DEF CallsInOrder
<1>5. HolderSafe'
  <2> SUFFICES ASSUME NEW d \in Client, NEW id \in Id, <<d, id>> \in holds'
               PROVE  /\ mark[id] = d
                      /\ \A i \in DOMAIN queue'[d] :
                            Unlocks(d, queue'[d][i]) => queue'[d][i].id # id
    BY <1>1 DEF HolderSafe
  <2>1. <<d, id>> \in holds
    BY <1>1
  <2>2. /\ mark[id] = d
        /\ \A i \in DOMAIN queue[d] : Unlocks(d, queue[d][i]) => queue[d][i].id # id
    BY <2>1 DEF HolderSafe
  <2>3. d = c /\ Unlocks(c, cmd) => cmd.id # id
    BY <1>1
  <2> QED
    BY <1>2, <2>2, <2>3
<1>6. AnswerSafe'
  BY <1>1, <1>2 DEF AnswerSafe
<1>7. holds' \subseteq Client \X Id
  BY <1>1
<1> QED
  BY <1>1, <1>4, <1>5, <1>6, <1>7

(* A client is answered, its process exits, or its connection is lost: its queue and
   the answers on their way become parts of what they were. *)
LEMMA AnswerKeeps ==
    ASSUME LockDiscipline, LockInv, usage' = usage, NEW c \in Client, Answer(c)
    PROVE  LockInv'
<1> USE DEF LockInv
<1>1. /\ served[c] # <<>>
      /\ queue' = [queue EXCEPT ![c] = Tail(@)]
      /\ served' = [served EXCEPT ![c] = Tail(@)]
      /\ waiting' = [waiting EXCEPT ![c] = @ /\ Len(queue[c]) > 1]
      /\ UNCHANGED <<mark, saver>>
  BY DEF Answer, redisVars, saverVars
<1>2. holds' = IF Locks(c, Head(queue[c])) /\ Head(served[c]).ok
               THEN holds \cup {<<c, Head(queue[c]).id>>} ELSE holds
  BY DEF Answer
<1>3. /\ IsSeq(served[c]) /\ queue[c] \in Seq(usage.calls[c])
      /\ Len(served[c]) <= Len(queue[c])
  BY DEF CallsInOrder
<1>4. /\ Len(served[c]) \in Nat \ {0} /\ Head(served[c]) = served[c][1]
      /\ DOMAIN served[c] = 1 .. Len(served[c])
      /\ IsSeq(Tail(served[c])) /\ Len(Tail(served[c])) = Len(served[c]) - 1
      /\ DOMAIN Tail(served[c]) = 1 .. Len(served[c]) - 1
      /\ \A i \in 1 .. Len(served[c]) - 1 : Tail(served[c])[i] = served[c][i + 1]
  <2>1. /\ Len(served[c]) \in Nat \ {0} /\ DOMAIN served[c] = 1 .. Len(served[c])
    BY <1>1, <1>3 DEF IsSeq
  <2>2. /\ IsSeq(Tail(served[c])) /\ Len(Tail(served[c])) = Len(served[c]) - 1
        /\ Head(served[c]) = served[c][1]
        /\ \A i \in 1 .. Len(served[c]) - 1 : Tail(served[c])[i] = served[c][i + 1]
    BY <1>1, <1>3, <2>1 DEF IsSeq
  <2> QED
    BY <2>1, <2>2 DEF IsSeq
<1>5. /\ queue[c] # <<>> /\ Head(queue[c]) = queue[c][1] /\ Head(queue[c]) \in usage.calls[c]
      /\ Tail(queue[c]) \in Seq(usage.calls[c]) /\ Len(Tail(queue[c])) = Len(queue[c]) - 1
      /\ \A i \in 1 .. Len(queue[c]) - 1 : Tail(queue[c])[i] = queue[c][i + 1]
  <2>1. Len(queue[c]) > 0
    BY <1>3, <1>4
  <2> QED
    BY <1>3, <2>1, TailOfSeq
<1>6. /\ queue'[c] = Tail(queue[c]) /\ served'[c] = Tail(served[c])
      /\ waiting[c] /\ Len(queue[c]) > 1 => waiting'[c]
      /\ \A d \in Client \ {c} :
            queue'[d] = queue[d] /\ served'[d] = served[d] /\ waiting'[d] = waiting[d]
  BY <1>1 DEF CallsInOrder
<1>7. ASSUME NEW i \in DOMAIN queue'[c]
      PROVE  i + 1 \in DOMAIN queue[c] /\ queue'[c][i] = queue[c][i + 1] /\ i \in Nat \ {0}
             /\ i \in 1 .. Len(queue[c]) - 1
  BY <1>3, <1>5, <1>6
<1>8. CallsInOrder'
  <2>1. DOMAIN queue' = Client /\ DOMAIN served' = Client /\ DOMAIN waiting' = Client
    BY <1>1 DEF CallsInOrder
  <2>2. ASSUME NEW i \in DOMAIN queue'[c], queue'[c][i].op = "SetCAS"
        PROVE  i = Len(queue'[c]) /\ waiting'[c]
    <3>1. i + 1 = Len(queue[c]) /\ waiting[c] /\ i \in Nat \ {0}
      BY <1>7, <2>2 DEF CallsInOrder
    <3>2. Len(queue[c]) > 1 /\ i = Len(queue[c]) - 1
      BY <1>3, <3>1
    <3> QED
      BY <1>5, <1>6, <3>1, <3>2
  <2>3. queue'[c] \in Seq(usage.calls[c]) /\ IsSeq(served'[c]) /\ Len(served'[c]) <= Len(queue'[c])
    BY <1>3, <1>4, <1>5, <1>6
  <2> QED
    BY <1>6, <2>1, <2>2, <2>3 DEF CallsInOrder
<1>9. ASSUME Locks(c, Head(queue[c])), Head(served[c]).ok
      PROVE  /\ Head(queue[c]).id \in Id /\ mark[Head(queue[c]).id] = c
             /\ DOMAIN queue'[c] = {}
  <2>1. queue[c][1].op = "SetCAS" /\ 1 \in DOMAIN queue[c] /\ 1 \in DOMAIN served[c]
    BY <1>3, <1>4, <1>5, <1>9 DEF Locks
  <2>2. Len(queue[c]) = 1
    BY <2>1 DEF CallsInOrder
  <2>3. mark[queue[c][1].id] = c
    BY <1>4, <1>5, <1>9, <2>1 DEF AnswerSafe
  <2>4. Head(queue[c]).id \in Id
    BY <1>5, <2>1, LockCall DEF Plain
  <2> QED
    BY <1>5, <1>7, <2>2, <2>3, <2>4
<1>10. HolderSafe'
  <2> SUFFICES ASSUME NEW d \in Client, NEW id \in Id, <<d, id>> \in holds'
               PROVE  /\ mark[id] = d
                      /\ \A i \in DOMAIN queue'[d] :
                            Unlocks(d, queue'[d][i]) => queue'[d][i].id # id
    BY <1>1 DEF HolderSafe
  <2>1. CASE <<d, id>> \in holds
    <3>1. /\ mark[id] = d
          /\ \A i \in DOMAIN queue[d] : Unlocks(d, queue[d][i]) => queue[d][i].id # id
      BY <2>1 DEF HolderSafe
    <3>2. CASE d # c
      BY <1>6, <3>1, <3>2
    <3>3. CASE d = c
      BY <1>7, <3>1, <3>3
    <3> QED
      BY <3>2, <3>3
  <2>2. CASE <<d, id>> \notin holds
    <3>1. /\ Locks(c, Head(queue[c])) /\ Head(served[c]).ok
          /\ d = c /\ id = Head(queue[c]).id
      BY <1>2, <2>2
    <3> QED
      BY <1>9, <3>1
  <2> QED
    BY <2>1, <2>2
<1>11. AnswerSafe'
  <2> SUFFICES ASSUME NEW d \in Client, NEW i \in DOMAIN served'[d],
                      Locks(d, queue'[d][i]), served'[d][i].ok
               PROVE  mark[queue'[d][i].id] = d
    BY <1>1 DEF AnswerSafe
  <2>1. CASE d # c
    <3>1. queue'[d] = queue[d] /\ served'[d] = served[d]
      BY <1>6, <2>1
    <3> QED
      BY <3>1 DEF AnswerSafe
  <2>2. CASE d = c
    <3>1. i \in 1 .. Len(served[c]) - 1 /\ i \in DOMAIN queue'[c]
      <4>1. i \in 1 .. Len(served[c]) - 1
        BY <1>4, <1>6, <2>2
      <4>2. DOMAIN queue'[c] = 1 .. Len(queue[c]) - 1 /\ Len(queue[c]) \in Nat
        BY <1>3, <1>5, <1>6
      <4> QED
        BY <1>3, <1>4, <4>1, <4>2
    <3>2. /\ served'[c][i] = served[c][i + 1] /\ queue'[c][i] = queue[c][i + 1]
          /\ i + 1 \in DOMAIN served[c]
      BY <1>4, <1>6, <1>7, <3>1
    <3> QED
      BY <2>2, <3>2 DEF AnswerSafe
  <2> QED
    BY <2>1, <2>2
<1>12. holds' \subseteq Client \X Id
  BY <1>2, <1>9
<1> QED
  BY <1>1, <1>8, <1>10, <1>11, <1>12

(* A client that exits, or loses its connection, disturbs no lock. *)
LEMMA ExitOrLossKeeps ==
    ASSUME LockInv, usage' = usage, NEW c \in Client, ClearExits(c) \/ Lose(c)
    PROVE  LockInv'
<1> USE DEF LockInv
<1>1. UNCHANGED <<mark, saver, holds, waiting>>
  BY DEF ClearExits, Lose, redisVars, saverVars
<1>2. \/ queue' = [queue EXCEPT ![c] = <<>>] /\ served' = [served EXCEPT ![c] = <<>>]
      \/ /\ queue' = queue
         /\ \E n \in 0 .. Len(served[c]) - 1 :
               served' = [served EXCEPT ![c] = SubSeq(@, 1, n)]
  BY DEF ClearExits, Lose
<1>3. IsSeq(<<>>) /\ Len(<<>>) = 0 /\ DOMAIN <<>> = {} /\ \A S : <<>> \in Seq(S)
  BY DEF IsSeq
<1>4. /\ IsSeq(served[c]) /\ queue[c] \in Seq(usage.calls[c])
      /\ Len(served[c]) <= Len(queue[c]) /\ Len(served[c]) \in Nat
      /\ DOMAIN served[c] = 1 .. Len(served[c])
  <2>1. /\ IsSeq(served[c]) /\ queue[c] \in Seq(usage.calls[c])
        /\ Len(served[c]) <= Len(queue[c])
    BY DEF CallsInOrder
  <2> QED
    BY <2>1, AppendIsSeq
<1>5. /\ queue'[c] \in Seq(usage.calls[c]) /\ IsSeq(served'[c])
      /\ Len(served'[c]) <= Len(queue'[c])
      /\ DOMAIN queue'[c] = {} \/ queue' = queue
      /\ \A i \in DOMAIN served'[c] :
            i \in DOMAIN served[c] /\ served'[c][i] = served[c][i] /\ queue' = queue
  <2>1. CASE queue' = [queue EXCEPT ![c] = <<>>] /\ served' = [served EXCEPT ![c] = <<>>]
    <3>1. queue'[c] = <<>> /\ served'[c] = <<>>
      BY <2>1 DEF CallsInOrder
    <3> QED
      BY <1>3, <3>1
  <2>2. ASSUME queue' = queue, NEW n \in 0 .. Len(served[c]) - 1,
               served' = [served EXCEPT ![c] = SubSeq(@, 1, n)]
        PROVE  /\ IsSeq(served'[c]) /\ Len(served'[c]) <= Len(queue[c])
               /\ \A i \in DOMAIN served'[c] :
                     i \in DOMAIN served[c] /\ served'[c][i] = served[c][i]
    <3>1. served'[c] = SubSeq(served[c], 1, n)
      BY <2>2 DEF CallsInOrder
    <3>2. n \in Nat /\ n \in 0 .. Len(served[c])
      BY <1>4
    <3>3. /\ IsSeq(SubSeq(served[c], 1, n)) /\ Len(SubSeq(served[c], 1, n)) = n
          /\ \A i \in 1 .. n : SubSeq(served[c], 1, n)[i] = served[c][i]
      BY <1>4, <3>2, PartIsSeq
    <3>4. DOMAIN SubSeq(served[c], 1, n) = 1 .. n
      BY <3>3 DEF IsSeq
    <3>5. n <= Len(queue[c])
      BY <1>4, <3>2
    <3> QED
      BY <1>4, <3>1, <3>2, <3>3, <3>4, <3>5
  <2> QED
    BY <1>2, <1>4, <2>1, <2>2
<1>6. \A d \in Client \ {c} : queue'[d] = queue[d] /\ served'[d] = served[d]
  BY <1>2 DEF CallsInOrder
<1>7. DOMAIN queue' = Client /\ DOMAIN served' = Client
  BY <1>2 DEF CallsInOrder
<1>8. CallsInOrder'
  BY <1>1, <1>5, <1>6, <1>7 DEF CallsInOrder
<1>9. HolderSafe'
  BY <1>1, <1>5, <1>6 DEF HolderSafe
<1>10. AnswerSafe'
  BY <1>1, <1>5, <1>6 DEF AnswerSafe
<1> QED
  BY <1>1, <1>8, <1>9, <1>10

(* It holds initially. *)
LEMMA LockInvInit == Init => LockInv
<1> SUFFICES ASSUME Init PROVE LockInv
  OBVIOUS
<1>1. /\ usage \in Usages
      /\ mark = NoMarks /\ holds = {} /\ saver = "idle"
      /\ queue = [c \in Client |-> <<>>] /\ served = [c \in Client |-> <<>>]
      /\ waiting = [c \in Client |-> FALSE]
  BY DEF Init
<1>2. IsSeq(<<>>) /\ Len(<<>>) = 0 /\ DOMAIN <<>> = {} /\ \A S : <<>> \in Seq(S)
  BY DEF IsSeq
<1>3. mark \in [Id -> Mark]
  BY <1>1 DEF NoMarks, Mark
<1>4. ASSUME NEW c \in Client PROVE queue[c] = <<>> /\ served[c] = <<>>
  BY <1>1
<1>5. CallsInOrder
  BY <1>1, <1>2, <1>4 DEF CallsInOrder
<1>6. HolderSafe /\ AnswerSafe
  BY <1>1, <1>2, <1>4 DEF HolderSafe, AnswerSafe
<1> QED
  BY <1>1, <1>3, <1>5, <1>6 DEF LockInv

(* Every step keeps it. *)
LEMMA LockInvNext == LockDiscipline /\ LockInv /\ [Next]_vars => LockInv'
<1> SUFFICES ASSUME LockDiscipline, LockInv, [Next]_vars PROVE LockInv'
  OBVIOUS
<1> usage' = usage
  BY UsageKept
<1>1. ASSUME UNCHANGED <<mark, queue, served, waiting, holds>>,
             saver' \notin {"restore", "restored"}
      PROVE  LockInv'
  BY <1>1 DEF LockInv, CallsInOrder, HolderSafe, AnswerSafe
<1>2. CASE UNCHANGED vars
  BY <1>1, <1>2 DEF vars, redisVars, clientVars, saverVars, LockInv
<1>3. ASSUME NEW c \in Client, NEW cmd \in usage.calls[c], Send(c, cmd) PROVE LockInv'
  BY <1>3, SendKeeps
<1>4. ASSUME NEW c \in Client, Execute(c) PROVE LockInv'
  BY <1>4, ExecuteKeeps
<1>5. ASSUME NEW c \in Client, Answer(c) PROVE LockInv'
  BY <1>5, AnswerKeeps
<1>6. ASSUME NEW c \in Client, ClearExits(c) \/ Lose(c) PROVE LockInv'
  BY <1>6, ExitOrLossKeeps
<1>7. ASSUME NEW call \in {"loot", "restore"}, SaverCalls(call) PROVE LockInv'
  <2>1. ~usage.restores
    BY DEF LockDiscipline
  <2>2. saver' = "loot" /\ UNCHANGED <<mark, queue, served, waiting, holds>>
    BY <1>7, <2>1 DEF SaverCalls, redisVars, clientVars
  <2> QED
    BY <1>1, <2>2
<1>8. CASE LootExecuted \/ LootAnswered
  BY <1>1, <1>8 DEF LootExecuted, LootAnswered, redisVars, clientVars
<1>9. CASE RestoreExecuted \/ RestoreAnswered
  BY <1>9 DEF RestoreExecuted, RestoreAnswered, LockInv
<1>10. CASE SaverAnswerLost
  <2>1. saver # "restored"
    BY DEF LockInv
  <2>2. saver' = "loot" /\ UNCHANGED <<mark, queue, served, waiting, holds>>
    BY <1>10, <2>1 DEF SaverAnswerLost, redisVars, clientVars
  <2> QED
    BY <1>1, <2>2
<1> QED
  BY <1>2, <1>3, <1>4, <1>5, <1>6, <1>7, <1>8, <1>9, <1>10 DEF Next

-----------------------------------------------------------------------------
(* Versions.  Every item is in at most one place: in the list, in an answer on its way,
   or with the client that took it; and once it has been pushed, its push can never
   pass again, since the mark it compares has moved beyond what it expects.           *)

Holds(s, v) == \E i \in DOMAIN s : s[i] = v
Once(s) == \A i, j \in DOMAIN s : s[i] = s[j] => i = j

InAnswer(c, k, v) == Holds(served[c][k].items, v)

PushOf(cmd, v) == cmd.op \in PushCAS /\ cmd.value = v

(* The push cmd does not pass any more. *)
Spent(cmd) == mark[cmd.id] # None /\ mark[cmd.id] > cmd.expect

(* The call that pushes v is one of one client. *)
OnePush ==
    \A c, d \in Client : \A i \in DOMAIN queue[c], j \in DOMAIN queue[d] : \A v \in Value :
        PushOf(queue[c][i], v) /\ PushOf(queue[d][j], v) => c = d /\ i = j /\ v \in pushes

Present(v) ==
    \/ Holds(list, v)
    \/ \E c \in Client : \E k \in DOMAIN served[c] : InAnswer(c, k, v)
    \/ takes[v] > 0

PushSpent ==
    \A v \in Value : Present(v) =>
        /\ v \in pushes
        /\ \A c \in Client : \A i \in DOMAIN queue[c] :
              PushOf(queue[c][i], v) => Spent(queue[c][i])

OnePlace ==
    /\ Once(list)
    /\ \A c \in Client : \A k \in DOMAIN served[c] : Once(served[c][k].items)
    /\ \A v \in Value : Holds(list, v) => takes[v] = 0
    /\ \A c \in Client : \A k \in DOMAIN served[c] : \A v \in Value :
          InAnswer(c, k, v) => ~Holds(list, v) /\ takes[v] = 0
    /\ \A c, d \in Client : \A k \in DOMAIN served[c], l \in DOMAIN served[d] : \A v \in Value :
          InAnswer(c, k, v) /\ InAnswer(d, l, v) => c = d /\ k = l

CallsTyped ==
    /\ DOMAIN queue = Client /\ DOMAIN served = Client
    /\ \A c \in Client : /\ queue[c] \in Seq(usage.calls[c])
                         /\ served[c] \in Seq(Answers)
                         /\ Len(served[c]) <= Len(queue[c])

VersionTypes ==
    /\ usage \in Usages
    /\ list \in Seq(Value) /\ mark \in [Id -> Mark]
    /\ takes \in [Value -> {0, 1}]
    /\ saver \notin {"restore", "restored"}
    /\ CallsTyped

VersionInv == VersionTypes /\ OnePush /\ PushSpent /\ OnePlace

(* An item that is not in a sequence is added at one of its ends. *)
LEMMA PushedOnce ==
    ASSUME NEW S, NEW s \in Seq(S), NEW x \in S, NEW t, t = Append(s, x) \/ t = <<x>> \o s
    PROVE  /\ t \in Seq(S)
           /\ \A v : Holds(t, v) => Holds(s, v) \/ v = x
           /\ Once(s) /\ ~Holds(s, x) => Once(t)
<1>1. Len(s) \in Nat /\ DOMAIN s = 1 .. Len(s)
  OBVIOUS
<1>2. CASE t = Append(s, x)
  <2>1. /\ t \in Seq(S) /\ DOMAIN t = 1 .. (Len(s) + 1)
        /\ \A i \in 1 .. Len(s) : t[i] = s[i]
        /\ t[Len(s) + 1] = x
    BY <1>2, AppendProperties
  <2>2. \A i \in DOMAIN t : i \in DOMAIN s \/ i = Len(s) + 1
    BY <1>1, <2>1
  <2> QED
    BY <1>1, <2>1, <2>2 DEF Holds, Once
<1>3. CASE t = <<x>> \o s
  <2>1. <<x>> \in Seq(S) /\ Len(<<x>>) = 1 /\ <<x>>[1] = x
    OBVIOUS
  <2>2. /\ t \in Seq(S) /\ Len(t) = 1 + Len(s)
        /\ \A i \in 1 .. Len(t) : t[i] = IF i <= 1 THEN <<x>>[i] ELSE s[i - 1]
    BY <1>3, <2>1, ConcatProperties
  <2>3. DOMAIN t = 1 .. (Len(s) + 1)
    BY <1>1, <2>2
  <2>4. t[1] = x /\ \A i \in 2 .. (Len(s) + 1) : t[i] = s[i - 1] /\ i - 1 \in DOMAIN s
    BY <1>1, <2>1, <2>2
  <2>5. \A i \in DOMAIN t : i = 1 \/ i \in 2 .. (Len(s) + 1)
    BY <1>1, <2>3
  <2>6. \A i, j \in 2 .. (Len(s) + 1) : i - 1 = j - 1 => i = j
    BY <1>1
  <2>7. \A v : Holds(t, v) => Holds(s, v) \/ v = x
    BY <2>4, <2>5 DEF Holds
  <2>8. ASSUME Once(s), ~Holds(s, x), NEW i \in DOMAIN t, NEW j \in DOMAIN t, t[i] = t[j]
        PROVE  i = j
    <3>1. CASE i = 1 \/ j = 1
      BY <2>4, <2>5, <2>8, <3>1 DEF Holds
    <3>2. CASE i \in 2 .. (Len(s) + 1) /\ j \in 2 .. (Len(s) + 1)
      <4>1. i - 1 = j - 1
        BY <2>4, <2>8, <3>2 DEF Once
      <4> QED
        BY <2>6, <3>2, <4>1
    <3> QED
      BY <2>5, <3>1, <3>2
  <2>9. Once(s) /\ ~Holds(s, x) => Once(t)
    BY <2>8 DEF Once
  <2> QED
    BY <2>2, <2>7, <2>9
<1> QED
  BY <1>2, <1>3

(* An item is removed. *)
LEMMA RemovedOnce ==
    ASSUME NEW S, NEW s \in Seq(S), NEW at \in DOMAIN s
    PROVE  /\ RemoveAt(s, at) \in Seq(S)
           /\ \A v : Holds(RemoveAt(s, at), v) => Holds(s, v)
           /\ Once(s) => Once(RemoveAt(s, at)) /\ ~Holds(RemoveAt(s, at), s[at])
<1> DEFINE a == SubSeq(s, 1, at - 1)
           b == SubSeq(s, at + 1, Len(s))
           t == a \o b
<1>1. Len(s) \in Nat /\ DOMAIN s = 1 .. Len(s) /\ at \in 1 .. Len(s)
  OBVIOUS
<1>2. /\ a \in Seq(S) /\ Len(a) = at - 1 /\ \A i \in 1 .. (at - 1) : a[i] = s[i]
  BY <1>1
<1>3. /\ b \in Seq(S) /\ Len(b) = Len(s) - at
      /\ \A i \in 1 .. (Len(s) - at) : b[i] = s[at + i]
  BY <1>1
<1> HIDE DEF a, b
<1>4. /\ t \in Seq(S) /\ Len(t) = Len(a) + Len(b)
      /\ \A i \in 1 .. Len(t) : t[i] = IF i <= Len(a) THEN a[i] ELSE b[i - Len(a)]
  <2>1. a \in Seq(S) /\ b \in Seq(S)
    BY <1>2, <1>3
  <2> QED
    BY <2>1, ConcatProperties
<1> HIDE DEF t
<1>5. DOMAIN t = 1 .. (Len(s) - 1)
  BY <1>1, <1>2, <1>3, <1>4
<1>6. ASSUME NEW i \in 1 .. (Len(s) - 1)
      PROVE  /\ i < at => i \in DOMAIN s /\ t[i] = s[i]
             /\ i >= at => i + 1 \in DOMAIN s /\ t[i] = s[i + 1]
  <2>1. i \in 1 .. Len(t)
    BY <1>1, <1>2, <1>3, <1>4
  <2>2. CASE i < at
    <3>1. i <= Len(a) /\ i \in 1 .. (at - 1) /\ i \in DOMAIN s
      BY <1>1, <1>2, <2>2
    <3> QED
      BY <1>2, <1>4, <2>1, <2>2, <3>1
  <2>3. CASE i >= at
    <3>1. /\ ~(i <= Len(a)) /\ i - Len(a) \in 1 .. (Len(s) - at)
          /\ at + (i - Len(a)) = i + 1 /\ i + 1 \in DOMAIN s
      BY <1>1, <1>2, <2>3
    <3>2. t[i] = b[i - Len(a)]
      BY <1>4, <2>1, <3>1
    <3>3. b[i - Len(a)] = s[at + (i - Len(a))]
      BY <1>3, <3>1
    <3> QED
      BY <2>3, <3>1, <3>2, <3>3
  <2>4. i < at \/ i >= at
    BY <1>1
  <2>5. ~(i < at /\ i >= at)
    BY <1>1
  <2> QED
    BY <2>2, <2>3, <2>4, <2>5
<1>7. \A i \in DOMAIN t : \E j \in DOMAIN s : t[i] = s[j]
  <2>1. \A i \in 1 .. (Len(s) - 1) : i < at \/ i >= at
    BY <1>1
  <2> QED
    BY <1>5, <1>6, <2>1
<1>8. ASSUME Once(s) PROVE Once(t) /\ ~Holds(t, s[at])
  <2>1. ASSUME NEW i \in 1 .. (Len(s) - 1), NEW j \in 1 .. (Len(s) - 1), t[i] = t[j]
        PROVE  i = j
    <3>1. CASE i < at /\ j < at
      BY <1>6, <1>8, <2>1, <3>1 DEF Once
    <3>2. CASE i >= at /\ j >= at
      <4>1. i + 1 = j + 1
        BY <1>6, <1>8, <2>1, <3>2 DEF Once
      <4> QED
        BY <4>1
    <3>3. CASE i < at /\ j >= at
      <4>1. i = j + 1
        BY <1>6, <1>8, <2>1, <3>3 DEF Once
      <4> QED
        BY <1>1, <3>3, <4>1
    <3>4. CASE i >= at /\ j < at
      <4>1. i + 1 = j
        BY <1>6, <1>8, <2>1, <3>4 DEF Once
      <4> QED
        BY <1>1, <3>4, <4>1
    <3> QED
      BY <1>1, <3>1, <3>2, <3>3, <3>4
  <2>2. ASSUME NEW i \in 1 .. (Len(s) - 1) PROVE t[i] # s[at]
    <3>1. CASE i < at
      <4>1. t[i] = s[at] => i = at
        BY <1>6, <1>8, <3>1 DEF Once
      <4> QED
        BY <1>1, <3>1, <4>1
    <3>2. CASE i >= at
      <4>1. t[i] = s[at] => i + 1 = at
        BY <1>6, <1>8, <3>2 DEF Once
      <4> QED
        BY <1>1, <3>2, <4>1
    <3> QED
      BY <1>1, <3>1, <3>2
  <2> QED
    BY <1>5, <2>1, <2>2 DEF Once, Holds
<1> QED
  BY <1>4, <1>7, <1>8 DEF t, a, b, RemoveAt, Holds

(* How often an answer has an item. *)
LEMMA TimesInAnswer ==
    ASSUME NEW s, IsSeq(s), Once(s), NEW v
    PROVE  Cardinality({i \in DOMAIN s : s[i] = v}) = IF Holds(s, v) THEN 1 ELSE 0
<1> DEFINE I == {i \in DOMAIN s : s[i] = v}
<1>1. CASE Holds(s, v)
  <2>1. PICK i \in DOMAIN s : s[i] = v
    BY <1>1 DEF Holds
  <2>2. I = {i}
    BY <2>1 DEF Once
  <2> HIDE DEF I
  <2>3. Cardinality(I) = 1
    BY <2>2, FS_Singleton
  <2> QED
    BY <1>1, <2>3 DEF I
<1>2. CASE ~Holds(s, v)
  <2>1. I = {}
    BY <1>2 DEF Holds
  <2> HIDE DEF I
  <2>2. Cardinality(I) = 0
    BY <2>1, FS_EmptySet
  <2> QED
    BY <1>2, <2>2 DEF I
<1> QED
  BY <1>1, <1>2

(* What discipline says of a call here. *)
LEMMA VersionCall ==
    ASSUME usage \in Usages, VersionDiscipline, NEW c \in Client, NEW cmd \in usage.calls[c]
    PROVE  \/ /\ cmd.op \in PushCAS /\ cmd.id \in Id /\ cmd.value \in Value
              /\ cmd.expect \in Int /\ cmd.dest \in Int /\ cmd.expect < cmd.dest
           \/ cmd.op \in {"LPop", "RPop", "PopAll"}
<1>1. \/ cmd.op \in PushCAS /\ cmd.expect < cmd.dest
      \/ cmd.op \in {"LPop", "RPop", "PopAll"}
  BY DEF VersionDiscipline
<1>2. cmd.op \in PushCAS =>
         cmd.id \in Id /\ cmd.value \in Value /\ cmd.expect \in Int /\ cmd.dest \in Int
  <2>1. cmd \in Command
    BY UsagesAssumption
  <2> QED
    BY <2>1 DEF Command, PushCAS
<1> QED
  BY <1>1, <1>2

(* A push passes, and its mark moves on; or items move from the list to the answer. *)
LEMMA VersionRun ==
    ASSUME usage \in Usages, VersionDiscipline, list \in Seq(Value), mark \in [Id -> Mark],
           NEW c \in Client, NEW cmd \in usage.calls[c], NEW answer, Run(cmd, answer)
    PROVE  /\ list' \in Seq(Value)
           /\ \/ /\ cmd.op \in PushCAS /\ cmd.id \in Id /\ cmd.value \in Value
                 /\ cmd.expect \in Int /\ cmd.dest \in Int /\ cmd.expect < cmd.dest
                 /\ mark[cmd.id] \in {None, cmd.expect}
                 /\ mark' = [mark EXCEPT ![cmd.id] = cmd.dest]
                 /\ list' \in {Append(list, cmd.value), <<cmd.value>> \o list}
                 /\ answer.items = <<>>
              \/ /\ mark' = mark
                 /\ \A v : /\ Holds(list', v) => Holds(list, v)
                           /\ Holds(answer.items, v) => Holds(list, v)
                 /\ Once(list) => /\ Once(list') /\ Once(answer.items)
                                  /\ \A v : ~(Holds(list', v) /\ Holds(answer.items, v))
<1>1. CASE cmd.op \in PushCAS
  <2>1. CompareAndSet(cmd, answer)
    BY <1>1 DEF Run, PlainPush, PlainPop, PopEverything, Count, Clear, PushCAS
  <2>2. /\ cmd.id \in Id /\ cmd.value \in Value
        /\ cmd.expect \in Int /\ cmd.dest \in Int /\ cmd.expect < cmd.dest
    BY <1>1, VersionCall DEF PushCAS
  <2>3. CASE /\ Passes(cmd)
             /\ mark' = [mark EXCEPT ![cmd.id] = cmd.dest]
             /\ list' = Pushed(cmd)
             /\ answer = Done(<<>>)
    <3>1. mark[cmd.id] \in {None, cmd.expect}
      BY <1>1, <2>3 DEF Passes, PushCAS
    <3>2. list' \in {Append(list, cmd.value), <<cmd.value>> \o list}
      BY <2>3 DEF Pushed
    <3>3. list' \in Seq(Value)
      BY <2>2, <3>2, PushedOnce
    <3>4. answer.items = <<>>
      BY <2>3 DEF Done
    <3> QED
      BY <1>1, <2>2, <2>3, <3>1, <3>2, <3>3, <3>4
  <2>4. CASE UNCHANGED <<list, mark>> /\ answer = Refused
    <3>1. answer.items = <<>>
      BY <2>4 DEF Refused
    <3>2. \A v : ~Holds(<<>>, v)
      BY DEF Holds
    <3>3. Once(<<>>)
      BY DEF Once
    <3> QED
      BY <2>4, <3>1, <3>2, <3>3
  <2> QED
    BY <1>1, <2>1, <2>3, <2>4 DEF CompareAndSet
<1>2. CASE cmd.op \in {"LPop", "RPop"}
  <2>1. PlainPop(cmd, answer)
    BY <1>2 DEF Run, PlainPush, PopEverything, CompareAndSet, Count, Clear, PushCAS
  <2>2. mark' = mark
    BY <2>1 DEF PlainPop
  <2>3. CASE list = <<>>
    <3>1. list' = list /\ answer = Done(<<>>)
      BY <2>1, <2>3 DEF PlainPop
    <3>2. answer.items = <<>>
      BY <3>1 DEF Done
    <3>3. (\A v : ~Holds(<<>>, v)) /\ Once(<<>>)
      BY DEF Holds, Once
    <3> QED
      BY <2>2, <3>1, <3>2, <3>3
  <2>4. CASE list # <<>>
    <3>1. PICK at : /\ at = IF cmd.op = "LPop" THEN 1 ELSE Len(list)
                    /\ list' = RemoveAt(list, at) /\ answer = Done(<<list[at]>>)
      BY <2>1, <2>4 DEF PlainPop
    <3>2. Len(list) \in Nat \ {0} /\ DOMAIN list = 1 .. Len(list)
      BY <2>4, EmptySeq
    <3>3. at \in DOMAIN list
      BY <3>1, <3>2
    <3>4. /\ list' \in Seq(Value)
          /\ \A v : Holds(list', v) => Holds(list, v)
          /\ Once(list) => Once(list') /\ ~Holds(list', list[at])
      BY <3>1, <3>3, RemovedOnce
    <3>5. answer.items = <<list[at]>>
      BY <3>1 DEF Done
    <3>6. (\A v : Holds(answer.items, v) <=> v = list[at]) /\ Once(answer.items)
      BY <3>5 DEF Holds, Once
    <3>7. Holds(list, list[at])
      BY <3>3 DEF Holds
    <3> QED
      BY <2>2, <3>4, <3>6, <3>7
  <2> QED
    BY <2>3, <2>4
<1>3. CASE cmd.op = "PopAll"
  <2>1. PopEverything(cmd, answer)
    BY <1>3 DEF Run, PlainPush, PlainPop, CompareAndSet, Count, Clear, PushCAS
  <2>2. mark' = mark /\ list' = <<>> /\ answer.items = list
    BY <1>3, <2>1 DEF PopEverything, Done
  <2>3. (\A v : ~Holds(<<>>, v)) /\ Once(<<>>)
    BY DEF Holds, Once
  <2> QED
    BY <2>2, <2>3
<1> QED
  BY <1>1, <1>2, <1>3, VersionCall

(* The server executes a call. *)
LEMMA ExecuteVersion ==
    ASSUME VersionDiscipline, VersionInv, usage' = usage, NEW c \in Client, Execute(c)
    PROVE  VersionInv'
<1> DEFINE n == Len(served[c]) + 1
<1>1. /\ Len(served[c]) < Len(queue[c])
      /\ UNCHANGED <<queue, takes, saver, pushes>>
  BY DEF Execute, saverVars
<1>2. /\ usage \in Usages /\ list \in Seq(Value) /\ mark \in [Id -> Mark]
      /\ takes \in [Value -> {0, 1}] /\ DOMAIN queue = Client /\ DOMAIN served = Client
      /\ \A d \in Client : /\ queue[d] \in Seq(usage.calls[d])
                           /\ served[d] \in Seq(Answers)
                           /\ Len(served[d]) <= Len(queue[d])
      /\ saver \notin {"restore", "restored"}
  BY DEF VersionInv, VersionTypes, CallsTyped
<1>3. PICK cmd, answer :
         /\ cmd = queue[c][n] /\ Run(cmd, answer) /\ answer \in Answers
         /\ served' = [served EXCEPT ![c] = Append(@, answer)]
  <2>1. PICK cmd : /\ cmd = queue[c][n]
                   /\ \E items \in {<<>>, list} \cup {<<v>> : v \in Value}, ok \in BOOLEAN :
                         /\ Run(cmd, [ok |-> ok, items |-> items])
                         /\ served' = [served EXCEPT ![c] = Append(@, [ok |-> ok, items |-> items])]
    BY DEF Execute
  <2>2. PICK items \in {<<>>, list} \cup {<<v>> : v \in Value}, ok \in BOOLEAN :
             /\ Run(cmd, [ok |-> ok, items |-> items])
             /\ served' = [served EXCEPT ![c] = Append(@, [ok |-> ok, items |-> items])]
    BY <2>1
  <2>3. items \in Seq(Value)
    <3>1. CASE items = <<>> \/ items = list
      <4>1. <<>> \in Seq(Value)
        OBVIOUS
      <4>2. list \in Seq(Value)
        BY <1>2
      <4> QED
        BY <3>1, <4>1, <4>2
    <3>2. ASSUME NEW v \in Value, items = <<v>> PROVE items \in Seq(Value)
      <4>1. <<v>> \in Seq(Value)
        OBVIOUS
      <4> QED
        BY <3>2, <4>1
    <3> QED
      BY <2>2, <3>1, <3>2, Zenon
  <2>4. [ok |-> ok, items |-> items] \in Answers
    BY <2>3 DEF Answers
  <2> QED
    BY <2>1, <2>2, <2>4
<1>4. /\ Len(served[c]) \in Nat /\ n \in DOMAIN queue[c] /\ cmd \in usage.calls[c]
      /\ n <= Len(queue[c])
  BY <1>1, <1>3, <1>2
<1>5. /\ list' \in Seq(Value)
      /\ \/ /\ cmd.op \in PushCAS /\ cmd.id \in Id /\ cmd.value \in Value
            /\ cmd.expect \in Int /\ cmd.dest \in Int /\ cmd.expect < cmd.dest
            /\ mark[cmd.id] \in {None, cmd.expect}
            /\ mark' = [mark EXCEPT ![cmd.id] = cmd.dest]
            /\ list' \in {Append(list, cmd.value), <<cmd.value>> \o list}
            /\ answer.items = <<>>
         \/ /\ mark' = mark
            /\ \A v : /\ Holds(list', v) => Holds(list, v)
                      /\ Holds(answer.items, v) => Holds(list, v)
            /\ Once(list) => /\ Once(list') /\ Once(answer.items)
                             /\ \A v : ~(Holds(list', v) /\ Holds(answer.items, v))
  BY <1>3, <1>4, <1>2, VersionRun
<1>6. ASSUME NEW d \in Client
      PROVE  /\ served'[d] \in Seq(Answers)
             /\ Len(served'[d]) <= Len(queue[d])
             /\ \A i \in DOMAIN served'[d] :
                   \/ i \in DOMAIN served[d] /\ served'[d][i] = served[d][i]
                   \/ d = c /\ i = n /\ served'[d][i] = answer
  <2>1. served[d] \in Seq(Answers) /\ Len(served[d]) <= Len(queue[d])
    BY <1>2
  <2>2. CASE d # c
    <3>1. served'[d] = served[d]
      BY <1>3, <1>2, <2>2
    <3> QED
      BY <2>1, <3>1
  <2>3. CASE d = c
    <3>1. served'[c] = Append(served[c], answer)
      BY <1>3, <1>2
    <3>2. PICK s \in Seq(Answers) : s = served[c]
      BY <2>1, <2>3
    <3>3. /\ Append(s, answer) \in Seq(Answers) /\ Len(Append(s, answer)) = Len(s) + 1
          /\ \A i \in DOMAIN Append(s, answer) :
                \/ i \in DOMAIN s /\ Append(s, answer)[i] = s[i]
                \/ i = Len(s) + 1 /\ Append(s, answer)[i] = answer
      BY <1>3, AppendToSeq
    <3> QED
      BY <1>4, <2>3, <3>1, <3>2, <3>3
  <2> QED
    BY <2>2, <2>3
<1>7. VersionTypes'
  <2>1. mark' \in [Id -> Mark]
    BY <1>5, <1>2 DEF Mark
  <2>2. DOMAIN served' = Client
    BY <1>3, <1>2
  <2>3. CallsTyped'
    BY <1>1, <1>6, <1>2, <2>2 DEF CallsTyped
  <2> QED
    BY <1>1, <1>5, <1>2, <2>1, <2>3 DEF VersionTypes
<1>8. OnePush'
  BY <1>1 DEF VersionInv, OnePush
<1>9. PushSpent /\ OnePlace /\ OnePush
  BY DEF VersionInv
<1>10. CASE /\ cmd.op \in PushCAS /\ cmd.id \in Id /\ cmd.value \in Value
            /\ cmd.expect \in Int /\ cmd.dest \in Int /\ cmd.expect < cmd.dest
            /\ mark[cmd.id] \in {None, cmd.expect}
            /\ mark' = [mark EXCEPT ![cmd.id] = cmd.dest]
            /\ list' \in {Append(list, cmd.value), <<cmd.value>> \o list}
            /\ answer.items = <<>>
  <2>1. /\ \A v : Holds(list', v) => Holds(list, v) \/ v = cmd.value
        /\ Once(list) /\ ~Holds(list, cmd.value) => Once(list')
    <3>1. PICK x \in Value : x = cmd.value
      BY <1>10
    <3>2. PICK t : t = list'
      OBVIOUS
    <3>3. list \in Seq(Value) /\ (t = Append(list, x) \/ t = <<x>> \o list)
      BY <1>10, <1>2, <3>1, <3>2
    <3>4. /\ t \in Seq(Value)
          /\ \A v : Holds(t, v) => Holds(list, v) \/ v = x
          /\ Once(list) /\ ~Holds(list, x) => Once(t)
      BY <3>3, PushedOnce
    <3> QED
      BY <3>1, <3>2, <3>4
  <2>2. \A v : ~Holds(<<>>, v)
    BY DEF Holds
  <2>3. PushOf(queue[c][n], cmd.value) /\ ~Spent(queue[c][n])
    <3>1. PushOf(cmd, cmd.value)
      BY <1>10 DEF PushOf
    <3>2. ~Spent(cmd)
      BY <1>10 DEF Spent
    <3> QED
      BY <1>3, <3>1, <3>2
  <2>4. ~Present(cmd.value)
    BY <1>4, <1>9, <1>10, <2>3 DEF PushSpent
  <2>5. /\ ~Holds(list, cmd.value) /\ takes[cmd.value] = 0
        /\ \A d \in Client : \A k \in DOMAIN served[d] : ~InAnswer(d, k, cmd.value)
    <3>1. ~(takes[cmd.value] > 0) /\ takes[cmd.value] \in {0, 1}
      BY <1>10, <1>2, <2>4 DEF Present
    <3> QED
      BY <2>4, <3>1 DEF Present
  <2>6. ASSUME NEW d \in Client, NEW k \in DOMAIN served'[d], NEW v, InAnswer(d, k, v)'
        PROVE  k \in DOMAIN served[d] /\ InAnswer(d, k, v)
    BY <1>6, <1>10, <2>2, <2>6 DEF InAnswer
  <2>7. ASSUME NEW d \in Client, NEW k \in DOMAIN served'[d] PROVE Once(served'[d][k].items)
    <3>1. Once(<<>>)
      BY DEF Once
    <3> QED
      BY <1>6, <1>9, <1>10, <3>1 DEF OnePlace
  <2>8. OnePlace'
    <3>1. Once(list')
      BY <1>9, <2>1, <2>5 DEF OnePlace
    <3>2. ASSUME NEW v \in Value, Holds(list', v)
          PROVE  /\ takes'[v] = 0
                 /\ \A d \in Client : \A k \in DOMAIN served'[d] : ~InAnswer(d, k, v)'
      <4>1. CASE Holds(list, v)
        BY <1>1, <1>9, <2>6, <4>1 DEF OnePlace
      <4>2. CASE v = cmd.value
        BY <1>1, <2>5, <2>6, <4>2
      <4> QED
        BY <2>1, <3>2, <4>1, <4>2
    <3>3. ASSUME NEW v \in Value, NEW d \in Client, NEW k \in DOMAIN served'[d], InAnswer(d, k, v)'
          PROVE  /\ takes'[v] = 0
                 /\ \A e \in Client : \A l \in DOMAIN served'[e] :
                       InAnswer(e, l, v)' => d = e /\ k = l
      BY <1>1, <1>9, <2>6, <3>3 DEF OnePlace
    <3> QED
      BY <2>7, <3>1, <3>2, <3>3 DEF OnePlace
  <2>9. ASSUME NEW v \in Value, Present(v)' PROVE Present(v) \/ v = cmd.value
    BY <1>1, <2>1, <2>6, <2>9 DEF Present
  <2>10. ASSUME NEW d \in Client, NEW i \in DOMAIN queue[d], NEW v \in Value,
                PushOf(queue[d][i], v), Present(v) \/ v = cmd.value
         PROVE  v \in pushes /\ mark'[queue[d][i].id] # None
                /\ mark'[queue[d][i].id] > queue[d][i].expect
    <3>1. /\ mark'[cmd.id] = cmd.dest /\ cmd.dest # None
          /\ \A id \in Id : id # cmd.id => mark'[id] = mark[id]
      BY <1>10, <1>2, ClientAssumption
    <3>2. CASE v = cmd.value
      <4>1. d = c /\ i = n /\ v \in pushes
        BY <1>4, <1>9, <2>3, <2>10, <3>2 DEF OnePush
      <4> QED
        BY <1>3, <1>10, <3>1, <4>1
    <3>3. CASE Present(v)
      <4>1. v \in pushes /\ mark[queue[d][i].id] # None /\ mark[queue[d][i].id] > queue[d][i].expect
        BY <1>9, <2>10, <3>3 DEF PushSpent, Spent
      <4>2. queue[d][i] \in usage.calls[d]
        BY <1>2
      <4>3. queue[d][i].id \in Id /\ queue[d][i].expect \in Int
        BY <1>2, <2>10, <4>2, VersionCall DEF PushOf, PushCAS
      <4>4. CASE queue[d][i].id = cmd.id
        <5>1. mark[cmd.id] = cmd.expect
          BY <1>10, <4>1, <4>4
        <5> QED
          BY <1>10, <3>1, <4>1, <4>3, <4>4, <5>1
      <4>5. CASE queue[d][i].id # cmd.id
        BY <3>1, <4>1, <4>3, <4>5
      <4> QED
        BY <4>4, <4>5
    <3> QED
      BY <2>10, <3>2, <3>3
  <2>11. ASSUME NEW v \in Value, Present(v)' PROVE v \in pushes
    <3>1. CASE Present(v)
      BY <1>9, <3>1 DEF PushSpent
    <3>2. CASE v = cmd.value
      BY <1>4, <1>9, <2>3, <1>10, <3>2 DEF OnePush
    <3> QED
      BY <2>9, <2>11, <3>1, <3>2
  <2>12. PushSpent'
    BY <1>1, <2>9, <2>10, <2>11 DEF PushSpent, Spent
  <2> QED
    BY <1>7, <1>8, <2>8, <2>12 DEF VersionInv
<1>11. CASE /\ mark' = mark
            /\ \A v : /\ Holds(list', v) => Holds(list, v)
                      /\ Holds(answer.items, v) => Holds(list, v)
            /\ Once(list) => /\ Once(list') /\ Once(answer.items)
                             /\ \A v : ~(Holds(list', v) /\ Holds(answer.items, v))
  <2>1. /\ Once(list') /\ Once(answer.items)
        /\ \A v : ~(Holds(list', v) /\ Holds(answer.items, v))
    BY <1>9, <1>11 DEF OnePlace
  <2>2. ASSUME NEW d \in Client, NEW k \in DOMAIN served'[d], NEW v, InAnswer(d, k, v)'
        PROVE  \/ k \in DOMAIN served[d] /\ InAnswer(d, k, v)
               \/ d = c /\ k = n /\ Holds(answer.items, v)
    BY <1>6, <2>2 DEF InAnswer
  <2>3. ASSUME NEW d \in Client, NEW k \in DOMAIN served'[d] PROVE Once(served'[d][k].items)
    BY <1>6, <1>9, <2>1 DEF OnePlace
  <2>4. ASSUME NEW v \in Value, Holds(list', v)
        PROVE  /\ takes'[v] = 0
               /\ \A d \in Client : \A k \in DOMAIN served'[d] : ~InAnswer(d, k, v)'
    <3>1. Holds(list, v) /\ ~Holds(answer.items, v)
      BY <1>11, <2>1, <2>4
    <3> QED
      BY <1>1, <1>9, <2>2, <3>1 DEF OnePlace
  <2>5. ASSUME NEW v \in Value, NEW d \in Client, NEW k \in DOMAIN served'[d], InAnswer(d, k, v)'
        PROVE  takes'[v] = 0
    <3>1. CASE k \in DOMAIN served[d] /\ InAnswer(d, k, v)
      BY <1>1, <1>9, <3>1 DEF OnePlace
    <3>2. CASE Holds(answer.items, v)
      BY <1>1, <1>9, <1>11, <3>2 DEF OnePlace
    <3> QED
      BY <2>2, <2>5, <3>1, <3>2
  <2>6. ASSUME NEW v \in Value,
               NEW d \in Client, NEW k \in DOMAIN served'[d], InAnswer(d, k, v)',
               NEW e \in Client, NEW l \in DOMAIN served'[e], InAnswer(e, l, v)'
        PROVE  d = e /\ k = l
    <3>1. CASE Holds(answer.items, v)
      <4>1. \A f \in Client : \A m \in DOMAIN served[f] : ~InAnswer(f, m, v)
        BY <1>9, <1>11, <3>1 DEF OnePlace
      <4> QED
        BY <2>2, <2>6, <4>1
    <3>2. CASE ~Holds(answer.items, v)
      <4>1. /\ k \in DOMAIN served[d] /\ InAnswer(d, k, v)
            /\ l \in DOMAIN served[e] /\ InAnswer(e, l, v)
        BY <2>2, <2>6, <3>2
      <4> QED
        BY <1>9, <4>1 DEF OnePlace
    <3> QED
      BY <3>1, <3>2
  <2>7. OnePlace'
    BY <2>1, <2>3, <2>4, <2>5, <2>6 DEF OnePlace
  <2>8. ASSUME NEW v \in Value, Present(v)' PROVE Present(v)
    BY <1>1, <1>11, <2>2, <2>8 DEF Present
  <2>9. PushSpent'
    BY <1>1, <1>9, <1>11, <2>8 DEF PushSpent, Spent
  <2> QED
    BY <1>7, <1>8, <2>7, <2>9 DEF VersionInv
<1> QED
  BY <1>5, <1>10, <1>11

(* A client makes a call. *)
LEMMA SendVersion ==
    ASSUME VersionInv, usage' = usage,
           NEW c \in Client, NEW cmd \in usage.calls[c], Send(c, cmd)
    PROVE  VersionInv'
<1> DEFINE n == Len(queue[c]) + 1
<1>1. /\ cmd.op \in Push => cmd.value \notin pushes
      /\ queue' = [queue EXCEPT ![c] = Append(@, cmd)]
      /\ pushes' = IF cmd.op \in Push THEN pushes \cup {cmd.value} ELSE pushes
      /\ UNCHANGED <<served, list, mark, takes, saver>>
  BY DEF Send, redisVars, saverVars
<1>2. /\ usage \in Usages /\ DOMAIN queue = Client /\ DOMAIN served = Client
      /\ \A d \in Client : /\ queue[d] \in Seq(usage.calls[d])
                           /\ served[d] \in Seq(Answers)
                           /\ Len(served[d]) <= Len(queue[d])
      /\ OnePush /\ PushSpent /\ OnePlace
  BY DEF VersionInv, VersionTypes, CallsTyped
<1>3. ASSUME NEW d \in Client
      PROVE  /\ queue'[d] \in Seq(usage.calls[d])
             /\ Len(served[d]) <= Len(queue'[d])
             /\ \A i \in DOMAIN queue'[d] :
                   \/ i \in DOMAIN queue[d] /\ queue'[d][i] = queue[d][i]
                   \/ d = c /\ i = n /\ queue'[d][i] = cmd
  <2>1. CASE d # c
    <3>1. queue'[d] = queue[d]
      BY <1>1, <1>2, <2>1
    <3> QED
      BY <1>2, <3>1
  <2>2. CASE d = c
    <3>1. queue'[c] = Append(queue[c], cmd)
      BY <1>1, <1>2
    <3>2. PICK C : C = usage.calls[c]
      OBVIOUS
    <3>3. PICK q \in Seq(C) : q = queue[c]
      BY <1>2, <3>2
    <3>4. cmd \in C
      BY <3>2
    <3>5. /\ Append(q, cmd) \in Seq(C) /\ Len(Append(q, cmd)) = Len(q) + 1 /\ Len(q) \in Nat
          /\ \A i \in DOMAIN Append(q, cmd) :
                \/ i \in DOMAIN q /\ Append(q, cmd)[i] = q[i]
                \/ i = Len(q) + 1 /\ Append(q, cmd)[i] = cmd
      BY <3>4, AppendToSeq
    <3>6. Len(served[c]) <= Len(q) + 1
      <4>1. served[c] \in Seq(Answers) /\ Len(served[c]) <= Len(q)
        BY <1>2, <3>3
      <4>2. Len(served[c]) \in Nat
        BY <4>1
      <4> QED
        BY <3>5, <4>1, <4>2
    <3> QED
      BY <2>2, <3>1, <3>2, <3>3, <3>5, <3>6
  <2> QED
    BY <2>1, <2>2
<1>4. VersionTypes'
  <2>1. DOMAIN queue' = Client
    BY <1>1, <1>2
  <2>2. CallsTyped'
    BY <1>1, <1>3, <1>2, <2>1 DEF CallsTyped
  <2> QED
    BY <1>1, <2>2 DEF VersionInv, VersionTypes
<1>5. ASSUME NEW v, PushOf(cmd, v)
      PROVE  v \notin pushes /\ v \in pushes'
  <2>1. cmd.op \in Push /\ cmd.value = v
    BY <1>5 DEF PushOf, Push
  <2> QED
    BY <1>1, <2>1
<1>6. pushes \subseteq pushes'
  BY <1>1
<1>7. OnePush'
  <2> SUFFICES ASSUME NEW d \in Client, NEW e \in Client,
                      NEW i \in DOMAIN queue'[d], NEW j \in DOMAIN queue'[e], NEW v \in Value,
                      PushOf(queue'[d][i], v), PushOf(queue'[e][j], v)
               PROVE  d = e /\ i = j /\ v \in pushes'
    BY DEF OnePush, PushOf
  <2>1. CASE i \in DOMAIN queue[d] /\ queue'[d][i] = queue[d][i]
    <3>1. v \in pushes
      BY <1>2, <2>1 DEF OnePush
    <3>2. j \in DOMAIN queue[e] /\ queue'[e][j] = queue[e][j]
      BY <1>3, <1>5, <3>1
    <3> QED
      BY <1>6, <1>2, <2>1, <3>2 DEF OnePush
  <2>2. CASE d = c /\ i = n /\ queue'[d][i] = cmd
    <3>1. v \notin pushes /\ v \in pushes'
      BY <1>5, <2>2
    <3>2. ~(j \in DOMAIN queue[e] /\ queue'[e][j] = queue[e][j])
      BY <1>2, <3>1 DEF OnePush
    <3> QED
      BY <1>3, <2>2, <3>1, <3>2
  <2> QED
    BY <1>3, <2>1, <2>2
<1>8. \A v : Present(v)' <=> Present(v)
  BY <1>1 DEF Present, InAnswer
<1>9. PushSpent'
  <2> SUFFICES ASSUME NEW v \in Value, Present(v)
               PROVE  /\ v \in pushes'
                      /\ \A d \in Client : \A i \in DOMAIN queue'[d] :
                            PushOf(queue'[d][i], v) => Spent(queue'[d][i])
    BY <1>1, <1>8 DEF PushSpent, Spent, PushOf
  <2>1. /\ v \in pushes
        /\ \A d \in Client : \A i \in DOMAIN queue[d] :
              PushOf(queue[d][i], v) => Spent(queue[d][i])
    BY <1>2 DEF PushSpent
  <2>2. ~PushOf(cmd, v)
    BY <1>5, <2>1
  <2> QED
    BY <1>3, <1>6, <2>1, <2>2
<1>10. OnePlace'
  BY <1>1, <1>2 DEF OnePlace, InAnswer
<1> QED
  BY <1>4, <1>7, <1>9, <1>10 DEF VersionInv

(* A client is answered, and takes the items of the answer. *)
LEMMA AnswerVersion ==
    ASSUME VersionInv, usage' = usage, NEW c \in Client, Answer(c)
    PROVE  VersionInv'
<1> DEFINE first == served[c][1]
           shift(d) == IF d = c THEN 1 ELSE 0
<1>1. /\ usage \in Usages /\ DOMAIN queue = Client /\ DOMAIN served = Client
      /\ \A d \in Client : /\ queue[d] \in Seq(usage.calls[d])
                           /\ served[d] \in Seq(Answers)
                           /\ Len(served[d]) <= Len(queue[d])
      /\ takes \in [Value -> {0, 1}]
      /\ OnePush /\ PushSpent /\ OnePlace
  BY DEF VersionInv, VersionTypes, CallsTyped
<1>2. /\ served[c] # <<>>
      /\ queue' = [queue EXCEPT ![c] = Tail(@)]
      /\ served' = [served EXCEPT ![c] = Tail(@)]
      /\ takes' = [v \in Value |->
            takes[v] + Cardinality({i \in DOMAIN Head(served[c]).items : Head(served[c]).items[i] = v})]
      /\ UNCHANGED <<list, mark, pushes, saver>>
  BY DEF Answer, redisVars, saverVars
<1>3. /\ Len(served[c]) \in Nat \ {0} /\ Len(queue[c]) \in Nat \ {0}
      /\ Head(served[c]) = first /\ 1 \in DOMAIN served[c]
  <2>1. served[c] \in Seq(Answers) /\ queue[c] \in Seq(usage.calls[c])
        /\ Len(served[c]) <= Len(queue[c])
    BY <1>1
  <2>2. Len(served[c]) \in Nat \ {0}
    BY <1>2, <2>1, EmptySeq
  <2>3. Len(queue[c]) \in Nat
    BY <2>1
  <2> QED
    BY <1>2, <2>1, <2>2, <2>3
<1>4. /\ queue'[c] = Tail(queue[c]) /\ served'[c] = Tail(served[c])
      /\ \A d \in Client \ {c} : queue'[d] = queue[d] /\ served'[d] = served[d]
      /\ DOMAIN queue' = Client /\ DOMAIN served' = Client
  BY <1>2, <1>1
<1>5. /\ queue'[c] \in Seq(usage.calls[c]) /\ Len(queue'[c]) = Len(queue[c]) - 1
      /\ \A i \in DOMAIN queue'[c] : i + 1 \in DOMAIN queue[c] /\ queue'[c][i] = queue[c][i + 1]
  <2>1. PICK C : C = usage.calls[c]
    OBVIOUS
  <2>2. PICK q \in Seq(C) : q = queue[c]
    BY <1>1, <2>1
  <2>3. Len(q) > 0
    BY <1>3, <2>2
  <2>4. /\ Tail(q) \in Seq(C) /\ Len(Tail(q)) = Len(q) - 1
        /\ \A i \in 1 .. Len(q) - 1 : Tail(q)[i] = q[i + 1]
    BY <2>3, TailOfSeq
  <2>5. \A i \in DOMAIN Tail(q) : i \in 1 .. Len(q) - 1 /\ i + 1 \in DOMAIN q
    BY <2>4
  <2> QED
    BY <1>4, <2>1, <2>2, <2>4, <2>5
<1>6. /\ served'[c] \in Seq(Answers) /\ Len(served'[c]) = Len(served[c]) - 1
      /\ \A i \in DOMAIN served'[c] :
            /\ i + 1 \in DOMAIN served[c] /\ i + 1 # 1 /\ served'[c][i] = served[c][i + 1]
  <2>1. PICK s \in Seq(Answers) : s = served[c]
    BY <1>1
  <2>2. Len(s) > 0
    BY <1>3, <2>1
  <2>3. /\ Tail(s) \in Seq(Answers) /\ Len(Tail(s)) = Len(s) - 1
        /\ \A i \in 1 .. Len(s) - 1 : Tail(s)[i] = s[i + 1]
    BY <2>2, TailOfSeq
  <2>4. \A i \in DOMAIN Tail(s) : i \in 1 .. Len(s) - 1 /\ i + 1 \in DOMAIN s /\ i + 1 # 1
    BY <2>3
  <2> QED
    BY <1>4, <2>1, <2>3, <2>4
<1>7. ASSUME NEW d \in Client
      PROVE  /\ \A i \in DOMAIN queue'[d] : /\ i + shift(d) \in DOMAIN queue[d]
                                            /\ queue'[d][i] = queue[d][i + shift(d)]
             /\ \A k \in DOMAIN served'[d] : /\ k + shift(d) \in DOMAIN served[d]
                                             /\ served'[d][k] = served[d][k + shift(d)]
                                             /\ d = c => k + shift(d) # 1
  <2>1. CASE d = c
    BY <1>5, <1>6, <2>1
  <2>2. CASE d # c
    <3>1. queue'[d] = queue[d] /\ served'[d] = served[d]
      BY <1>4, <2>2
    <3>2. queue[d] \in Seq(usage.calls[d]) /\ served[d] \in Seq(Answers)
      BY <1>1
    <3>3. \A i \in DOMAIN queue[d] : i + 0 = i
      BY <3>2
    <3>4. \A i \in DOMAIN served[d] : i + 0 = i
      BY <3>2
    <3> QED
      BY <2>2, <3>1, <3>3, <3>4
  <2> QED
    BY <2>1, <2>2
<1>8. ASSUME NEW d \in Client, NEW k \in DOMAIN served'[d], NEW v, InAnswer(d, k, v)'
      PROVE  /\ k + shift(d) \in DOMAIN served[d] /\ InAnswer(d, k + shift(d), v)
             /\ d = c => k + shift(d) # 1
  BY <1>7, <1>8 DEF InAnswer
<1>9. ASSUME NEW v \in Value
      PROVE  /\ takes'[v] = IF InAnswer(c, 1, v) THEN 1 ELSE takes[v]
             /\ takes[v] \in {0, 1} /\ takes'[v] \in {0, 1}
  <2>1. IsSeq(first.items) /\ Once(first.items)
    <3>1. first \in Answers
      <4>1. PICK s \in Seq(Answers) : s = served[c]
        BY <1>1
      <4>2. s[1] \in Answers
        BY <1>3, <4>1
      <4> QED
        BY <4>1, <4>2
    <3>2. first.items \in Seq(Value)
      BY <3>1 DEF Answers
    <3>3. Once(first.items)
      BY <1>3, <1>1 DEF OnePlace
    <3> QED
      BY <3>2, <3>3 DEF IsSeq
  <2>2. Cardinality({i \in DOMAIN first.items : first.items[i] = v})
          = IF InAnswer(c, 1, v) THEN 1 ELSE 0
    BY <2>1, TimesInAnswer DEF InAnswer
  <2>3. takes'[v] = takes[v] + (IF InAnswer(c, 1, v) THEN 1 ELSE 0)
    BY <1>2, <1>3, <2>2
  <2>4. takes[v] \in {0, 1} /\ (InAnswer(c, 1, v) => takes[v] = 0)
    BY <1>3, <1>1 DEF OnePlace
  <2> QED
    BY <2>3, <2>4
<1> HIDE DEF first, shift
<1>10. VersionTypes'
  <2>1. CallsTyped'
    <3>1. ASSUME NEW d \in Client
          PROVE  queue'[d] \in Seq(usage.calls[d]) /\ served'[d] \in Seq(Answers)
                 /\ Len(served'[d]) <= Len(queue'[d])
      <4>1. CASE d = c
        <5>1. Len(served[c]) <= Len(queue[c])
          BY <1>1
        <5> QED
          BY <1>3, <1>5, <1>6, <4>1, <5>1
      <4>2. CASE d # c
        BY <1>4, <1>1, <4>2
      <4> QED
        BY <4>1, <4>2
    <3> QED
      BY <1>4, <3>1 DEF CallsTyped
  <2>2. takes' \in [Value -> {0, 1}]
    <3>1. DOMAIN takes' = Value /\ takes' = [v \in Value |-> takes'[v]]
      BY <1>2
    <3> QED
      BY <1>9, <3>1
  <2> QED
    BY <1>2, <2>1, <2>2 DEF VersionInv, VersionTypes
<1>11. OnePush'
  <2> SUFFICES ASSUME NEW d \in Client, NEW e \in Client,
                      NEW i \in DOMAIN queue'[d], NEW j \in DOMAIN queue'[e], NEW v \in Value,
                      PushOf(queue'[d][i], v), PushOf(queue'[e][j], v)
               PROVE  d = e /\ i = j /\ v \in pushes
    BY <1>2 DEF OnePush, PushOf
  <2>1. /\ i + shift(d) \in DOMAIN queue[d] /\ PushOf(queue[d][i + shift(d)], v)
        /\ j + shift(e) \in DOMAIN queue[e] /\ PushOf(queue[e][j + shift(e)], v)
    BY <1>7
  <2>2. d = e /\ i + shift(d) = j + shift(e) /\ v \in pushes
    BY <1>1, <2>1 DEF OnePush
  <2>3. i \in Int /\ j \in Int /\ shift(d) \in Int
    <3>1. queue'[d] \in Seq(usage.calls[d]) /\ queue'[e] \in Seq(usage.calls[e])
      BY <1>4, <1>5, <1>1
    <3> QED
      BY <3>1 DEF shift
  <2> QED
    BY <2>2, <2>3
<1>12. ASSUME NEW v \in Value, Present(v)' PROVE Present(v)
  <2>1. CASE Holds(list', v)
    BY <1>2, <2>1 DEF Present
  <2>2. CASE \E d \in Client : \E k \in DOMAIN served'[d] : InAnswer(d, k, v)'
    BY <1>8, <2>2 DEF Present
  <2>3. CASE takes'[v] > 0
    BY <1>3, <1>9, <2>3 DEF Present
  <2> QED
    BY <1>4, <1>12, <2>1, <2>2, <2>3 DEF Present
<1>13. PushSpent'
  <2> SUFFICES ASSUME NEW v \in Value, Present(v)'
               PROVE  /\ v \in pushes
                      /\ \A d \in Client : \A i \in DOMAIN queue'[d] :
                            PushOf(queue'[d][i], v) => Spent(queue'[d][i])
    BY <1>2 DEF PushSpent, Spent, PushOf
  <2>1. Present(v)
    BY <1>12
  <2> QED
    BY <1>7, <1>1, <2>1 DEF PushSpent
<1>14. OnePlace'
  <2>1. Once(list')
    BY <1>2, <1>1 DEF OnePlace
  <2>2. ASSUME NEW d \in Client, NEW k \in DOMAIN served'[d] PROVE Once(served'[d][k].items)
    BY <1>7, <1>1 DEF OnePlace
  <2>3. ASSUME NEW v \in Value, Holds(list', v) PROVE takes'[v] = 0
    <3>1. Holds(list, v)
      BY <1>2, <2>3
    <3> QED
      BY <1>3, <1>9, <1>1, <3>1 DEF OnePlace
  <2>4. ASSUME NEW v \in Value, NEW d \in Client, NEW k \in DOMAIN served'[d], InAnswer(d, k, v)'
        PROVE  ~Holds(list', v) /\ takes'[v] = 0
    <3>1. /\ k + shift(d) \in DOMAIN served[d] /\ InAnswer(d, k + shift(d), v)
          /\ d = c => k + shift(d) # 1
      BY <1>8, <2>4
    <3>2. ~InAnswer(c, 1, v)
      BY <1>3, <1>1, <3>1 DEF OnePlace
    <3> QED
      BY <1>2, <1>9, <1>1, <3>1, <3>2 DEF OnePlace
  <2>5. ASSUME NEW v \in Value,
               NEW d \in Client, NEW k \in DOMAIN served'[d], InAnswer(d, k, v)',
               NEW e \in Client, NEW l \in DOMAIN served'[e], InAnswer(e, l, v)'
        PROVE  d = e /\ k = l
    <3>1. /\ k + shift(d) \in DOMAIN served[d] /\ InAnswer(d, k + shift(d), v)
          /\ l + shift(e) \in DOMAIN served[e] /\ InAnswer(e, l + shift(e), v)
      BY <1>8, <2>5
    <3>2. d = e /\ k + shift(d) = l + shift(e)
      BY <1>1, <3>1 DEF OnePlace
    <3>3. k \in Int /\ l \in Int /\ shift(d) \in Int
      <4>1. served'[d] \in Seq(Answers) /\ served'[e] \in Seq(Answers)
        BY <1>4, <1>6, <1>1
      <4> QED
        BY <4>1 DEF shift
    <3> QED
      BY <3>2, <3>3
  <2> QED
    BY <2>1, <2>2, <2>3, <2>4, <2>5 DEF OnePlace
<1> QED
  BY <1>10, <1>11, <1>13, <1>14 DEF VersionInv

(* A client exits, or its connection is lost: answers vanish, and perhaps calls. *)
LEMMA ExitOrLossVersion ==
    ASSUME VersionInv, usage' = usage, NEW c \in Client, ClearExits(c) \/ Lose(c)
    PROVE  VersionInv'
<1>1. /\ usage \in Usages /\ DOMAIN queue = Client /\ DOMAIN served = Client
      /\ \A d \in Client : /\ queue[d] \in Seq(usage.calls[d])
                           /\ served[d] \in Seq(Answers)
                           /\ Len(served[d]) <= Len(queue[d])
      /\ OnePush /\ PushSpent /\ OnePlace
  BY DEF VersionInv, VersionTypes, CallsTyped
<1>2. UNCHANGED <<list, mark, takes, pushes, saver>>
  BY DEF ClearExits, Lose, redisVars, saverVars
<1>3. \/ queue' = [queue EXCEPT ![c] = <<>>] /\ served' = [served EXCEPT ![c] = <<>>]
      \/ /\ queue' = queue
         /\ \E n \in 0 .. Len(served[c]) - 1 :
               served' = [served EXCEPT ![c] = SubSeq(@, 1, n)]
  BY DEF ClearExits, Lose
<1>4. Len(<<>>) = 0 /\ DOMAIN <<>> = {} /\ \A S : <<>> \in Seq(S)
  OBVIOUS
<1>5. /\ queue'[c] \in Seq(usage.calls[c]) /\ served'[c] \in Seq(Answers)
      /\ Len(served'[c]) <= Len(queue'[c])
      /\ DOMAIN queue'[c] = {} \/ queue'[c] = queue[c]
      /\ \A i \in DOMAIN served'[c] : i \in DOMAIN served[c] /\ served'[c][i] = served[c][i]
  <2>1. CASE queue' = [queue EXCEPT ![c] = <<>>] /\ served' = [served EXCEPT ![c] = <<>>]
    <3>1. queue'[c] = <<>> /\ served'[c] = <<>>
      BY <1>1, <2>1
    <3> QED
      BY <1>4, <3>1
  <2>2. ASSUME queue' = queue, NEW n \in 0 .. Len(served[c]) - 1,
               served' = [served EXCEPT ![c] = SubSeq(@, 1, n)]
        PROVE  /\ served'[c] \in Seq(Answers) /\ Len(served'[c]) <= Len(queue[c])
               /\ \A i \in DOMAIN served'[c] :
                     i \in DOMAIN served[c] /\ served'[c][i] = served[c][i]
    <3>1. served'[c] = SubSeq(served[c], 1, n)
      BY <1>1, <2>2
    <3>2. PICK s \in Seq(Answers) : s = served[c]
      BY <1>1
    <3>3. n \in Nat /\ n \in 0 .. Len(s) /\ Len(s) \in Nat /\ DOMAIN s = 1 .. Len(s)
      BY <3>2
    <3>4. /\ SubSeq(s, 1, n) \in Seq(Answers) /\ Len(SubSeq(s, 1, n)) = n
          /\ \A i \in 1 .. n : SubSeq(s, 1, n)[i] = s[i]
      BY <3>3
    <3>5. \A i \in DOMAIN SubSeq(s, 1, n) : i \in 1 .. n /\ i \in DOMAIN s
      BY <3>3, <3>4
    <3>6. queue[c] \in Seq(usage.calls[c]) /\ Len(s) <= Len(queue[c])
      BY <1>1, <3>2
    <3>7. n <= Len(queue[c])
      BY <3>3, <3>6
    <3> QED
      BY <3>1, <3>2, <3>4, <3>5, <3>7
  <2> QED
    BY <1>3, <1>1, <2>1, <2>2
<1>6. \A d \in Client \ {c} : queue'[d] = queue[d] /\ served'[d] = served[d]
  BY <1>3, <1>1
<1>7. DOMAIN queue' = Client /\ DOMAIN served' = Client
  BY <1>3, <1>1
<1>8. ASSUME NEW d \in Client
      PROVE  /\ \A i \in DOMAIN queue'[d] : i \in DOMAIN queue[d] /\ queue'[d][i] = queue[d][i]
             /\ \A k \in DOMAIN served'[d] : k \in DOMAIN served[d] /\ served'[d][k] = served[d][k]
  BY <1>5, <1>6
<1>9. VersionTypes'
  <2>1. CallsTyped'
    BY <1>5, <1>6, <1>7, <1>1 DEF CallsTyped
  <2> QED
    BY <1>2, <2>1 DEF VersionInv, VersionTypes
<1>10. OnePush'
  BY <1>2, <1>8, <1>1 DEF OnePush
<1>11. \A d \in Client : \A k \in DOMAIN served'[d] : \A v :
          InAnswer(d, k, v)' => k \in DOMAIN served[d] /\ InAnswer(d, k, v)
  BY <1>8 DEF InAnswer
<1>12. \A v : Present(v)' => Present(v)
  BY <1>2, <1>11 DEF Present
<1>13. PushSpent'
  BY <1>2, <1>8, <1>12, <1>1 DEF PushSpent, Spent
<1>14. OnePlace'
  <2>1. ASSUME NEW d \in Client, NEW k \in DOMAIN served'[d] PROVE Once(served'[d][k].items)
    BY <1>8, <1>1 DEF OnePlace
  <2> QED
    BY <1>2, <1>11, <1>1, <2>1 DEF OnePlace
<1> QED
  BY <1>9, <1>10, <1>13, <1>14 DEF VersionInv

(* It holds initially. *)
LEMMA VersionInvInit == Init => VersionInv
<1> SUFFICES ASSUME Init PROVE VersionInv
  OBVIOUS
<1>1. /\ usage \in Usages /\ list = <<>>
      /\ mark = NoMarks /\ saver = "idle"
      /\ queue = [c \in Client |-> <<>>] /\ served = [c \in Client |-> <<>>]
      /\ takes = [v \in Value |-> 0]
  BY DEF Init
<1>2. Len(<<>>) = 0 /\ DOMAIN <<>> = {} /\ \A S : <<>> \in Seq(S)
  OBVIOUS
<1>3. \A c \in Client : queue[c] = <<>> /\ served[c] = <<>>
  BY <1>1
<1>4. VersionTypes
  BY <1>1, <1>2, <1>3 DEF VersionTypes, CallsTyped, NoMarks, Mark
<1>5. ASSUME NEW v \in Value PROVE ~Present(v)
  BY <1>1, <1>2, <1>3 DEF Present, Holds
<1>6. OnePush
  BY <1>2, <1>3 DEF OnePush
<1>7. PushSpent
  BY <1>5 DEF PushSpent
<1>8. OnePlace
  BY <1>1, <1>2, <1>3 DEF OnePlace, Once, Holds
<1> QED
  BY <1>4, <1>6, <1>7, <1>8 DEF VersionInv

(* Every step keeps it. *)
LEMMA VersionInvNext == VersionDiscipline /\ VersionInv /\ [Next]_vars => VersionInv'
<1> SUFFICES ASSUME VersionDiscipline, VersionInv, [Next]_vars PROVE VersionInv'
  OBVIOUS
<1> usage' = usage
  BY UsageKept
<1>1. ASSUME UNCHANGED <<list, mark, queue, served, takes, pushes>>,
             saver' \notin {"restore", "restored"}
      PROVE  VersionInv'
  BY <1>1 DEF VersionInv, VersionTypes, CallsTyped, OnePush, PushSpent, Present, OnePlace,
              InAnswer, Spent
<1>2. CASE UNCHANGED vars
  BY <1>1, <1>2 DEF vars, redisVars, clientVars, saverVars, VersionInv, VersionTypes
<1>3. ASSUME NEW c \in Client, NEW cmd \in usage.calls[c], Send(c, cmd) PROVE VersionInv'
  BY <1>3, SendVersion
<1>4. ASSUME NEW c \in Client, Execute(c) PROVE VersionInv'
  BY <1>4, ExecuteVersion
<1>5. ASSUME NEW c \in Client, Answer(c) PROVE VersionInv'
  BY <1>5, AnswerVersion
<1>6. ASSUME NEW c \in Client, ClearExits(c) \/ Lose(c) PROVE VersionInv'
  BY <1>6, ExitOrLossVersion
<1>7. ASSUME NEW call \in {"loot", "restore"}, SaverCalls(call) PROVE VersionInv'
  <2>1. ~usage.restores
    BY DEF VersionDiscipline
  <2>2. saver' = "loot" /\ UNCHANGED <<list, mark, queue, served, takes, pushes>>
    BY <1>7, <2>1 DEF SaverCalls, redisVars, clientVars
  <2> QED
    BY <1>1, <2>2
<1>8. CASE LootExecuted \/ LootAnswered
  BY <1>1, <1>8 DEF LootExecuted, LootAnswered, redisVars, clientVars
<1>9. CASE RestoreExecuted \/ RestoreAnswered
  BY <1>9 DEF RestoreExecuted, RestoreAnswered, VersionInv, VersionTypes
<1>10. CASE SaverAnswerLost
  <2>1. saver # "restored"
    BY DEF VersionInv, VersionTypes
  <2>2. saver' = "loot" /\ UNCHANGED <<list, mark, queue, served, takes, pushes>>
    BY <1>10, <2>1 DEF SaverAnswerLost, redisVars, clientVars
  <2> QED
    BY <1>1, <2>2
<1> QED
  BY <1>2, <1>3, <1>4, <1>5, <1>6, <1>7, <1>8, <1>9, <1>10 DEF Next

-----------------------------------------------------------------------------
(* Types.                                                                   *)

(* What a call carries. *)
LEMMA CommandCarries ==
    ASSUME NEW cmd \in Command
    PROVE  /\ cmd.op \in Push => cmd.value \in Value
           /\ cmd.op \in PushCAS \cup {"PopAllAndMark", "SetCAS", "ResetCAS"} =>
                 cmd.id \in Id /\ cmd.dest \in Int
           /\ cmd.op \in {"IncrByIntCAS", "DecrByIntCAS"} => cmd.id \in Id /\ cmd.by \in Int
<1>1. CASE cmd \in [op : {"LPush", "RPush"}, value : Value]
           \/ cmd \in [op : {"LPop", "RPop", "PopAll", "Clear"}]
  BY <1>1 DEF Push, PushCAS
<1>2. CASE cmd \in [op : {"PopAllAndMark"}, id : Id, dest : Int]
           \/ cmd \in [op : {"SetCAS", "ResetCAS"}, id : Id, expect : Int, dest : Int]
  BY <1>2 DEF Push, PushCAS
<1>3. CASE cmd \in [op : PushCAS, id : Id, expect : Int, dest : Int, value : Value]
  BY <1>3 DEF Push, PushCAS
<1>4. CASE cmd \in [op : {"IncrByIntCAS", "DecrByIntCAS"}, id : Id, by : Int, limit : Int]
  BY <1>4 DEF Push, PushCAS
<1> QED
  BY <1>1, <1>2, <1>3, <1>4 DEF Command

(* The types of what the scripts work on. *)
RedisTypes ==
    /\ list \in Seq(Value) /\ mark \in [Id -> Mark]
    /\ dirty \in BOOLEAN /\ listed \in BOOLEAN
    /\ truth \in Entry /\ untracked \in BOOLEAN

(* The items of an answer can be counted. *)
LEMMA TimesIsNat ==
    ASSUME NEW s \in Seq(Value), NEW v
    PROVE  Cardinality({i \in DOMAIN s : s[i] = v}) \in Nat
<1> DEFINE I == {i \in DOMAIN s : s[i] = v}
<1>1. IsFiniteSet(1 .. Len(s))
  BY FS_Interval
<1>2. I \subseteq 1 .. Len(s)
  OBVIOUS
<1> HIDE DEF I
<1>3. IsFiniteSet(I)
  BY <1>1, <1>2, FS_Subset
<1>4. Cardinality(I) \in Nat
  BY <1>3, FS_CardinalityType
<1> QED
  BY <1>4 DEF I

(* An item is put on the list. *)
LEMMA PushedTyped ==
    ASSUME list \in Seq(Value), NEW cmd \in Command, cmd.op \in Push
    PROVE  Pushed(cmd) \in Seq(Value)
<1>1. cmd.value \in Value
  BY CommandCarries
<1>2. <<cmd.value>> \in Seq(Value)
  BY <1>1
<1>3. <<cmd.value>> \o list \in Seq(Value)
  BY <1>2, ConcatProperties
<1>4. Append(list, cmd.value) \in Seq(Value)
  BY <1>1
<1> QED
  BY <1>3, <1>4 DEF Pushed

(* A script keeps the types, and answers with items. *)
LEMMA RunKeepsTypes ==
    ASSUME RedisTypes, NEW cmd \in Command, NEW answer, Run(cmd, answer)
    PROVE  RedisTypes' /\ answer \in Answers
<1>1. <<>> \in Seq(Value) /\ Done(<<>>) \in Answers /\ Refused \in Answers
  BY DEF Done, Refused, Answers
<1>2. ASSUME NEW id \in Id, NEW m \in Int PROVE [mark EXCEPT ![id] = m] \in [Id -> Mark]
  BY DEF RedisTypes, Mark
<1>3. Touched /\ list' \in Seq(Value) /\ mark' \in [Id -> Mark]
         => dirty' \in BOOLEAN /\ listed' \in BOOLEAN /\ truth' \in Entry
  BY DEF Touched, Entry
<1>4. NotTouched => dirty' \in BOOLEAN /\ listed' \in BOOLEAN /\ truth' \in Entry
  BY DEF NotTouched, RedisTypes
<1>5. CASE PlainPush(cmd, answer)
  <2>1. list' \in Seq(Value)
    BY <1>5, PushedTyped DEF PlainPush, Push, RedisTypes
  <2> QED
    BY <1>1, <1>4, <1>5, <2>1 DEF PlainPush, RedisTypes
<1>6. CASE PlainPop(cmd, answer)
  <2> DEFINE at == IF cmd.op = "LPop" THEN 1 ELSE Len(list)
  <2>1. list \in Seq(Value) /\ untracked \in BOOLEAN /\ mark' = mark /\ NotTouched
    BY <1>6 DEF PlainPop, RedisTypes
  <2>2. CASE list = <<>>
    <3>1. UNCHANGED <<list, untracked>> /\ answer = Done(<<>>)
      BY <1>6, <2>2 DEF PlainPop
    <3> QED
      BY <1>1, <1>4, <2>1, <3>1 DEF RedisTypes
  <2>3. CASE list # <<>>
    <3>1. list' = RemoveAt(list, at) /\ untracked' = TRUE /\ answer = Done(<<list[at]>>)
      BY <1>6, <2>3 DEF PlainPop
    <3>2. Len(list) \in Nat \ {0}
      BY <2>1, <2>3, EmptySeq
    <3>3. at \in DOMAIN list
      BY <2>1, <3>2
    <3>4. list[at] \in Value
      BY <2>1, <3>3
    <3> HIDE DEF at
    <3>5. RemoveAt(list, at) \in Seq(Value)
      BY <2>1, <3>3, RemovedOnce
    <3>6. answer \in Answers
      BY <3>1, <3>4 DEF Done, Answers
    <3> QED
      BY <1>4, <2>1, <3>1, <3>5, <3>6 DEF RedisTypes
  <2> QED
    BY <2>2, <2>3
<1>7. CASE PopEverything(cmd, answer)
  <2>1. mark' \in [Id -> Mark]
    <3>1. CASE cmd.op = "PopAll"
      BY <1>7, <3>1 DEF PopEverything, RedisTypes
    <3>2. CASE cmd.op = "PopAllAndMark"
      <4>1. cmd.id \in Id /\ cmd.dest \in Int
        BY <3>2, CommandCarries
      <4> QED
        BY <1>2, <1>7, <3>2, <4>1 DEF PopEverything
    <3> QED
      BY <1>7, <3>1, <3>2 DEF PopEverything
  <2>2. answer \in Answers
    BY <1>7 DEF PopEverything, Done, Answers, RedisTypes
  <2> QED
    BY <1>1, <1>3, <1>7, <2>1, <2>2 DEF PopEverything, RedisTypes
<1>8. CASE CompareAndSet(cmd, answer)
  <2>1. untracked' = untracked
    BY <1>8 DEF CompareAndSet
  <2>2. CASE ~Passes(cmd)
    BY <1>1, <1>4, <1>8, <2>1, <2>2 DEF CompareAndSet, RedisTypes
  <2>3. CASE Passes(cmd)
    <3>1. /\ mark' = [mark EXCEPT ![cmd.id] = cmd.dest]
          /\ list' = IF cmd.op \in PushCAS THEN Pushed(cmd) ELSE list
          /\ Touched /\ answer = Done(<<>>)
          /\ cmd.op \in {"SetCAS", "ResetCAS"} \cup PushCAS
      BY <1>8, <2>3 DEF CompareAndSet
    <3>2. cmd.id \in Id /\ cmd.dest \in Int
      BY <3>1, CommandCarries
    <3>3. mark' \in [Id -> Mark]
      BY <1>2, <3>1, <3>2
    <3>4. list' \in Seq(Value)
      BY <3>1, PushedTyped DEF Push, RedisTypes
    <3> QED
      BY <1>1, <1>3, <2>1, <3>1, <3>3, <3>4 DEF RedisTypes
  <2> QED
    BY <2>2, <2>3
<1>9. CASE Count(cmd, answer)
  <2>1. UNCHANGED <<list, untracked>>
    BY <1>9 DEF Count
  <2>2. CASE ~WithinLimit(cmd)
    BY <1>1, <1>4, <1>9, <2>1, <2>2 DEF Count, RedisTypes
  <2>3. CASE WithinLimit(cmd)
    <3>1. /\ mark' = [mark EXCEPT ![cmd.id] = CountTo(cmd)]
          /\ Touched /\ answer = Done(<<>>)
          /\ cmd.op \in {"IncrByIntCAS", "DecrByIntCAS"}
      BY <1>9, <2>3 DEF Count
    <3>2. cmd.id \in Id /\ cmd.by \in Int
      BY <3>1, CommandCarries
    <3>3. CountTo(cmd) \in Int
      <4>1. mark[cmd.id] \in Int \cup {None}
        BY <3>2 DEF RedisTypes, Mark
      <4> QED
        BY <3>2, <4>1 DEF CountTo
    <3>4. mark' \in [Id -> Mark]
      BY <1>2, <3>1, <3>2, <3>3
    <3> QED
      BY <1>1, <1>3, <2>1, <3>1, <3>4 DEF RedisTypes
  <2> QED
    BY <2>2, <2>3
<1>10. CASE Clear(cmd, answer)
  <2>1. NoMarks \in [Id -> Mark]
    BY DEF NoMarks, Mark
  <2> QED
    BY <1>1, <1>4, <1>10, <2>1 DEF Clear, RedisTypes
<1> QED
  BY <1>5, <1>6, <1>7, <1>8, <1>9, <1>10 DEF Run

(* The variables of the clients that Send, Execute and Answer work on. *)
ClientTypes ==
    /\ queue \in [Client -> Seq(Command)]
    /\ served \in [Client -> Seq(Answers)]
    /\ \A c \in Client : Len(served[c]) <= Len(queue[c])
    /\ waiting \in [Client -> BOOLEAN] /\ asked \in [Client -> Nat]
    /\ pushes \subseteq Value /\ takes \in [Value -> Nat] /\ holds \subseteq Client \X Id

SaverTypes ==
    /\ saver \in {"idle", "loot", "looted", "restore", "restored"}
    /\ batch \in Seq(Entry) /\ saved \in Entry /\ runs \in Nat
    /\ lootLost \in BOOLEAN /\ faults \in Nat

(* A queue that only one client's step has changed. *)
LEMMA OneQueue ==
    ASSUME ClientTypes, NEW c \in Client, NEW q \in Seq(Command), NEW s \in Seq(Answers),
           Len(s) <= Len(q), queue' = [queue EXCEPT ![c] = q], served' = [served EXCEPT ![c] = s]
    PROVE  /\ queue' \in [Client -> Seq(Command)]
           /\ served' \in [Client -> Seq(Answers)]
           /\ \A d \in Client : Len(served'[d]) <= Len(queue'[d])
<1>1. queue' \in [Client -> Seq(Command)] /\ served' \in [Client -> Seq(Answers)]
  BY DEF ClientTypes
<1>2. queue'[c] = q /\ served'[c] = s
  BY DEF ClientTypes
<1>3. \A d \in Client \ {c} : queue'[d] = queue[d] /\ served'[d] = served[d]
  BY DEF ClientTypes
<1> QED
  BY <1>1, <1>2, <1>3 DEF ClientTypes

(* A call is made. *)
LEMMA SendKeepsTypes ==
    ASSUME ClientTypes, usage \in Usages,
           NEW c \in Client, NEW cmd \in usage.calls[c], Send(c, cmd)
    PROVE  ClientTypes'
<1>1. cmd \in Command
  BY UsagesAssumption
<1>2. /\ queue \in [Client -> Seq(Command)] /\ served \in [Client -> Seq(Answers)]
      /\ Len(served[c]) <= Len(queue[c])
  BY DEF ClientTypes
<1>3. /\ Append(queue[c], cmd) \in Seq(Command) /\ Len(Append(queue[c], cmd)) = Len(queue[c]) + 1
      /\ Len(queue[c]) \in Nat /\ served[c] \in Seq(Answers) /\ Len(served[c]) \in Nat
  BY <1>1, <1>2
<1>4. /\ queue' = [queue EXCEPT ![c] = Append(queue[c], cmd)]
      /\ served' = [served EXCEPT ![c] = served[c]]
  BY <1>2 DEF Send
<1>5. /\ queue' \in [Client -> Seq(Command)] /\ served' \in [Client -> Seq(Answers)]
      /\ \A d \in Client : Len(served'[d]) <= Len(queue'[d])
  <2>1. Len(served[c]) <= Len(Append(queue[c], cmd))
    BY <1>2, <1>3
  <2> QED
    BY <1>3, <1>4, <2>1, OneQueue
<1>6. waiting' \in [Client -> BOOLEAN]
  BY DEF Send, ClientTypes
<1>7. asked' \in [Client -> Nat]
  BY DEF Send, ClientTypes
<1>8. pushes' \subseteq Value
  BY <1>1, CommandCarries DEF Send, ClientTypes
<1>9. takes' \in [Value -> Nat] /\ holds' \subseteq Client \X Id
  BY DEF Send, ClientTypes
<1> QED
  BY <1>5, <1>6, <1>7, <1>8, <1>9 DEF ClientTypes

(* A call is executed. *)
LEMMA ExecuteKeepsTypes ==
    ASSUME RedisTypes, ClientTypes, NEW c \in Client, Execute(c)
    PROVE  RedisTypes' /\ ClientTypes'
<1> DEFINE n == Len(served[c]) + 1
<1>1. /\ queue \in [Client -> Seq(Command)] /\ served \in [Client -> Seq(Answers)]
      /\ Len(served[c]) < Len(queue[c])
  BY DEF ClientTypes, Execute
<1>2. /\ queue[c] \in Seq(Command) /\ served[c] \in Seq(Answers)
      /\ Len(served[c]) \in Nat /\ Len(queue[c]) \in Nat
  BY <1>1
<1>3. queue[c][n] \in Command
  <2>1. n \in 1 .. Len(queue[c])
    BY <1>1, <1>2
  <2> QED
    BY <1>2, <2>1, ElementOfSeq
<1>4. PICK answer : /\ Run(queue[c][n], answer)
                    /\ served' = [served EXCEPT ![c] = Append(served[c], answer)]
  BY DEF Execute
<1>5. RedisTypes' /\ answer \in Answers
  BY <1>3, <1>4, RunKeepsTypes
<1>6. Append(served[c], answer) \in Seq(Answers) /\ Len(Append(served[c], answer)) = n
  BY <1>2, <1>5
<1>7. queue' = [queue EXCEPT ![c] = queue[c]]
  BY <1>1 DEF Execute
<1>8. /\ queue' \in [Client -> Seq(Command)] /\ served' \in [Client -> Seq(Answers)]
      /\ \A d \in Client : Len(served'[d]) <= Len(queue'[d])
  <2>1. Len(Append(served[c], answer)) <= Len(queue[c])
    BY <1>1, <1>2, <1>6
  <2> QED
    BY <1>2, <1>4, <1>6, <1>7, <2>1, OneQueue
<1>9. UNCHANGED <<waiting, asked, pushes, takes, holds>>
  BY DEF Execute
<1> QED
  BY <1>5, <1>8, <1>9 DEF ClientTypes

(* A call is answered. *)
LEMMA AnswerKeepsTypes ==
    ASSUME ClientTypes, NEW c \in Client, Answer(c)
    PROVE  ClientTypes'
<1>1. /\ queue \in [Client -> Seq(Command)] /\ served \in [Client -> Seq(Answers)]
      /\ Len(served[c]) <= Len(queue[c]) /\ served[c] # <<>>
  BY DEF ClientTypes, Answer
<1>2. PICK q \in Seq(Command), s \in Seq(Answers) : q = queue[c] /\ s = served[c]
  BY <1>1
<1>3. Len(s) > 0 /\ Len(q) > 0 /\ Len(s) <= Len(q)
  BY <1>1, <1>2, EmptySeq
<1>4. /\ Head(q) \in Command /\ Tail(q) \in Seq(Command) /\ Len(Tail(q)) = Len(q) - 1
      /\ Head(s) \in Answers /\ Tail(s) \in Seq(Answers) /\ Len(Tail(s)) = Len(s) - 1
  BY <1>3, TailOfSeq
<1>5. queue' = [queue EXCEPT ![c] = Tail(q)] /\ served' = [served EXCEPT ![c] = Tail(s)]
  BY <1>2 DEF Answer
<1>6. /\ queue' \in [Client -> Seq(Command)] /\ served' \in [Client -> Seq(Answers)]
      /\ \A d \in Client : Len(served'[d]) <= Len(queue'[d])
  <2>1. Len(Tail(s)) <= Len(Tail(q))
    BY <1>2, <1>3, <1>4
  <2> QED
    BY <1>4, <1>5, <2>1, OneQueue
<1>7. takes' \in [Value -> Nat]
  <2>1. takes' = [v \in Value |->
           takes[v] + Cardinality({i \in DOMAIN Head(s).items : Head(s).items[i] = v})]
    BY <1>2 DEF Answer
  <2>2. Head(s).items \in Seq(Value)
    BY <1>4 DEF Answers
  <2>3. \A v \in Value : takes[v] \in Nat
    BY DEF ClientTypes
  <2>4. \A v \in Value :
           Cardinality({i \in DOMAIN Head(s).items : Head(s).items[i] = v}) \in Nat
    BY <2>2, TimesIsNat
  <2>5. \A v \in Value :
           takes[v] + Cardinality({i \in DOMAIN Head(s).items : Head(s).items[i] = v}) \in Nat
    BY <2>3, <2>4
  <2> QED
    BY <2>1, <2>5, Zenon
<1>8. holds' \subseteq Client \X Id
  <2>1. holds' = holds \/ (Locks(c, Head(q)) /\ holds' = holds \cup {<<c, Head(q).id>>})
    BY <1>2 DEF Answer
  <2>2. Locks(c, Head(q)) => Head(q).id \in Id
    BY <1>4, CommandCarries DEF Locks
  <2> QED
    BY <2>1, <2>2 DEF ClientTypes
<1>9. waiting' \in [Client -> BOOLEAN]
  BY DEF Answer, ClientTypes
<1>10. UNCHANGED <<asked, pushes>>
  BY DEF Answer
<1> QED
  BY <1>6, <1>7, <1>8, <1>9, <1>10 DEF ClientTypes

(* A client exits, or its connection is lost. *)
LEMMA ExitOrLossKeepsTypes ==
    ASSUME ClientTypes, NEW c \in Client, ClearExits(c) \/ Lose(c)
    PROVE  ClientTypes'
<1>1. /\ queue \in [Client -> Seq(Command)] /\ served \in [Client -> Seq(Answers)]
      /\ Len(served[c]) <= Len(queue[c])
      /\ queue[c] \in Seq(Command) /\ served[c] \in Seq(Answers)
      /\ Len(served[c]) \in Nat /\ Len(queue[c]) \in Nat
  BY DEF ClientTypes
<1>2. UNCHANGED <<waiting, asked, pushes, takes, holds>>
  BY DEF ClearExits, Lose
<1>3. PICK q \in Seq(Command), s \in Seq(Answers) :
         /\ Len(s) <= Len(q)
         /\ queue' = [queue EXCEPT ![c] = q] /\ served' = [served EXCEPT ![c] = s]
  <2>1. CASE ClearExits(c)
    <3>1. queue' = [queue EXCEPT ![c] = <<>>] /\ served' = [served EXCEPT ![c] = <<>>]
      BY <2>1 DEF ClearExits
    <3>2. <<>> \in Seq(Command) /\ <<>> \in Seq(Answers) /\ Len(<<>>) <= Len(<<>>)
      OBVIOUS
    <3> QED
      BY <3>1, <3>2
  <2>2. CASE Lose(c)
    <3>1. PICK n \in 0 .. Len(served[c]) - 1 :
             served' = [served EXCEPT ![c] = SubSeq(served[c], 1, n)]
      BY <2>2 DEF Lose
    <3>2. SubSeq(served[c], 1, n) \in Seq(Answers) /\ Len(SubSeq(served[c], 1, n)) = n
      BY <1>1, <3>1
    <3>3. n <= Len(queue[c])
      BY <1>1, <3>1
    <3>4. queue' = [queue EXCEPT ![c] = queue[c]]
      BY <1>1, <2>2 DEF Lose
    <3> QED
      BY <1>1, <3>1, <3>2, <3>3, <3>4
  <2> QED
    BY <2>1, <2>2
<1>4. /\ queue' \in [Client -> Seq(Command)] /\ served' \in [Client -> Seq(Answers)]
      /\ \A d \in Client : Len(served'[d]) <= Len(queue'[d])
  BY <1>3, OneQueue
<1> QED
  BY <1>2, <1>4 DEF ClientTypes

(* The saver works. *)
LEMMA SaverKeepsTypes ==
    ASSUME RedisTypes, SaverTypes,
           \/ \E call \in {"loot", "restore"} : SaverCalls(call)
           \/ LootExecuted \/ LootAnswered \/ RestoreExecuted \/ RestoreAnswered
           \/ SaverAnswerLost
    PROVE  RedisTypes' /\ SaverTypes' /\ UNCHANGED clientVars
<1>1. <<>> \in Seq(Entry) /\ [list |-> list, mark |-> mark] \in Entry
  BY DEF RedisTypes, Entry
<1>2. CASE \E call \in {"loot", "restore"} : SaverCalls(call)
  <2>1. /\ UNCHANGED <<redisVars, clientVars, batch, saved, lootLost, faults>>
        /\ saver' \in {"loot", "restore"} /\ runs' = runs + 1
    BY <1>2 DEF SaverCalls
  <2> QED
    BY <2>1 DEF RedisTypes, SaverTypes, redisVars
<1>3. CASE LootExecuted
  <2>1. batch' \in Seq(Entry)
    <3>1. <<[list |-> list, mark |-> mark]>> \in Seq(Entry)
      BY <1>1
    <3> QED
      BY <1>1, <1>3, <3>1 DEF LootExecuted
  <2> QED
    BY <1>3, <2>1 DEF LootExecuted, RedisTypes, SaverTypes
<1>4. CASE LootAnswered
  <2>1. Kept \in Entry
    <3>1. CASE batch = <<>>
      BY <3>1 DEF Kept, SaverTypes
    <3>2. CASE batch # <<>>
      <4>1. batch \in Seq(Entry) /\ Len(batch) \in Nat \ {0}
        BY <3>2, EmptySeq DEF SaverTypes
      <4>2. batch[1] \in Entry
        BY <4>1
      <4> QED
        BY <3>2, <4>2 DEF Kept
    <3> QED
      BY <3>1, <3>2
  <2> QED
    BY <1>1, <1>4, <2>1 DEF LootAnswered, RedisTypes, SaverTypes, redisVars
<1>5. CASE RestoreExecuted
  <2>1. saved.list \in Seq(Value) /\ saved.mark \in [Id -> Mark] /\ saved \in Entry
    BY DEF SaverTypes, Entry
  <2> QED
    BY <1>5, <2>1 DEF RestoreExecuted, RedisTypes, SaverTypes
<1>6. CASE RestoreAnswered
  BY <1>6 DEF RestoreAnswered, RedisTypes, SaverTypes, redisVars
<1>7. CASE SaverAnswerLost
  <2>1. /\ UNCHANGED <<redisVars, clientVars, saved, runs>>
        /\ faults' = faults + 1 /\ batch' = <<>>
    BY <1>7 DEF SaverAnswerLost, Fault
  <2>2. saver' \in {"loot", "restore"} /\ (lootLost' = TRUE \/ lootLost' = lootLost)
    BY <1>7 DEF SaverAnswerLost
  <2>3. RedisTypes'
    BY <2>1 DEF RedisTypes, redisVars
  <2>4. lootLost' \in BOOLEAN
    BY <2>2 DEF SaverTypes
  <2>5. saved' \in Entry /\ runs' \in Nat /\ faults' \in Nat /\ batch' \in Seq(Entry)
    BY <1>1, <2>1 DEF SaverTypes
  <2> QED
    BY <2>1, <2>2, <2>3, <2>4, <2>5 DEF SaverTypes
<1> QED
  BY <1>2, <1>3, <1>4, <1>5, <1>6, <1>7

(* The parts are what TypeOK says. *)
LEMMA TypesAreTypeOK ==
    TypeOK <=> usage \in Usages /\ RedisTypes /\ ClientTypes /\ SaverTypes
BY DEF TypeOK, RedisTypes, ClientTypes, SaverTypes

(* They hold initially. *)
LEMMA TypesInit == Init => TypeOK
<1> SUFFICES ASSUME Init PROVE TypeOK
  OBVIOUS
<1>1. <<>> \in Seq(Value) /\ <<>> \in Seq(Entry) /\ <<>> \in Seq(Command) /\ <<>> \in Seq(Answers)
  OBVIOUS
<1>2. NoMarks \in [Id -> Mark] /\ Empty \in Entry
  BY <1>1 DEF NoMarks, Empty, Entry, Mark
<1>3. RedisTypes /\ SaverTypes
  BY <1>1, <1>2 DEF Init, RedisTypes, SaverTypes
<1>4. ClientTypes
  BY <1>1 DEF Init, ClientTypes
<1> QED
  BY <1>3, <1>4, TypesAreTypeOK DEF Init

(* Every step keeps them. *)
LEMMA TypesNext == TypeOK /\ [Next]_vars => TypeOK'
<1> SUFFICES ASSUME TypeOK, [Next]_vars PROVE TypeOK'
  OBVIOUS
<1>1. usage \in Usages /\ RedisTypes /\ ClientTypes /\ SaverTypes
  BY TypesAreTypeOK
<1>2. usage' \in Usages
  BY <1>1, UsageKept
<1>3. UNCHANGED redisVars => RedisTypes'
  BY <1>1 DEF RedisTypes, redisVars
<1>4. UNCHANGED clientVars => ClientTypes'
  BY <1>1 DEF ClientTypes, clientVars
<1>5. UNCHANGED saverVars /\ faults' \in Nat => SaverTypes'
  BY <1>1 DEF SaverTypes, saverVars
<1>6. faults' = faults \/ faults' = faults + 1 => faults' \in Nat
  BY <1>1 DEF SaverTypes
<1>7. RedisTypes' /\ ClientTypes' /\ SaverTypes'
  <2>1. CASE UNCHANGED vars
    BY <1>3, <1>4, <1>5, <1>6, <2>1 DEF vars
  <2>2. ASSUME NEW c \in Client, NEW cmd \in usage.calls[c], Send(c, cmd)
        PROVE  RedisTypes' /\ ClientTypes' /\ SaverTypes'
    <3>1. UNCHANGED <<redisVars, saverVars, faults>>
      BY <2>2 DEF Send
    <3> QED
      BY <1>1, <1>3, <1>5, <1>6, <2>2, <3>1, SendKeepsTypes
  <2>3. ASSUME NEW c \in Client, Execute(c)
        PROVE  RedisTypes' /\ ClientTypes' /\ SaverTypes'
    <3>1. UNCHANGED <<saverVars, faults>>
      BY <2>3 DEF Execute
    <3> QED
      BY <1>1, <1>5, <1>6, <2>3, <3>1, ExecuteKeepsTypes
  <2>4. ASSUME NEW c \in Client, Answer(c)
        PROVE  RedisTypes' /\ ClientTypes' /\ SaverTypes'
    <3>1. UNCHANGED <<redisVars, saverVars, faults>>
      BY <2>4 DEF Answer
    <3> QED
      BY <1>1, <1>3, <1>5, <1>6, <2>4, <3>1, AnswerKeepsTypes
  <2>5. ASSUME NEW c \in Client, ClearExits(c) \/ Lose(c)
        PROVE  RedisTypes' /\ ClientTypes' /\ SaverTypes'
    <3>1. UNCHANGED <<redisVars, saverVars>> /\ (faults' = faults \/ faults' = faults + 1)
      BY <2>5 DEF ClearExits, Lose, Fault
    <3> QED
      BY <1>1, <1>3, <1>5, <1>6, <2>5, <3>1, ExitOrLossKeepsTypes
  <2>6. CASE \/ \E call \in {"loot", "restore"} : SaverCalls(call)
             \/ LootExecuted \/ LootAnswered \/ RestoreExecuted \/ RestoreAnswered
             \/ SaverAnswerLost
    BY <1>1, <1>4, <2>6, SaverKeepsTypes
  <2> QED
    BY <2>1, <2>2, <2>3, <2>4, <2>5, <2>6 DEF Next
<1>8. TypeOK' <=> usage' \in Usages /\ RedisTypes' /\ ClientTypes' /\ SaverTypes'
  BY DEF TypeOK, RedisTypes, ClientTypes, SaverTypes
<1> QED
  BY <1>2, <1>7, <1>8

-----------------------------------------------------------------------------
(* The theorems.                                                            *)

(* is_dirty (s_sTouch's flag in the table of marks) is never set for a list that is not
   in _listDirtyEntry: the saver is told of every change of a script. *)
THEOREM AlwaysDirtyIsListed == Spec => []DirtyIsListed
<1>1. SaveInv => DirtyIsListed
  BY DEF SaveInv, Tracked
<1> QED
  BY SaveInvInit, SaveInvNext, <1>1, PTL DEF Spec

(* Clear() removes nothing the database has not got, whatever several clients do and
   however often connections are lost, but for a lost answer to LootDirtyEntry() and
   for plain pushes and pops. *)
THEOREM AlwaysCleanIsSaved == Spec => []CleanIsSaved
<1>1. SaveInv => CleanIsSaved
  BY DEF SaveInv
<1> QED
  BY SaveInvInit, SaveInvNext, <1>1, PTL DEF Spec

(* SetCAS makes a lock of a mark: at most one client has been told it holds it, for
   any number of clients, locks, calls and lost answers. *)
THEOREM AlwaysHolderIsMarked == Spec => []HolderIsMarked
<1>1. LockInv => HolderIsMarked
  <2> SUFFICES ASSUME LockInv, NEW h \in holds PROVE mark[h[2]] = h[1]
    BY DEF HolderIsMarked
  <2>1. h \in Client \X Id
    BY DEF LockInv
  <2>2. h = <<h[1], h[2]>> /\ h[1] \in Client /\ h[2] \in Id
    BY <2>1
  <2> QED
    BY <2>2 DEF LockInv, HolderSafe
<1>2. ~LockDiscipline => HolderIsMarked
  BY DEF HolderIsMarked
<1>3. Init => (LockDiscipline => LockInv)
  BY LockInvInit
<1>4. (LockDiscipline => LockInv) /\ [Next]_vars => (LockDiscipline => LockInv)'
  <2> SUFFICES ASSUME LockDiscipline => LockInv, [Next]_vars, LockDiscipline'
               PROVE  LockInv'
    OBVIOUS
  <2>1. usage' = usage
    BY UsageKept
  <2>2. LockDiscipline
    BY <2>1 DEF LockDiscipline, Locks, Unlocks, Free
  <2> QED
    BY <2>2, LockInvNext
<1>5. (LockDiscipline => LockInv) => HolderIsMarked
  BY <1>1, <1>2
<1> QED
  BY <1>3, <1>4, <1>5, PTL DEF Spec


(* Pushes whose marks count upwards happen once: no item is given to two clients that pop,
   or to one of them twice, for any number of clients, items, calls and lost answers, and
   however often a push or a pop is executed again. *)
THEOREM AlwaysTakenOnce == Spec => []TakenOnce
<1>1. (VersionDiscipline => VersionInv) => TakenOnce
  <2> SUFFICES ASSUME VersionInv, NEW v \in Value PROVE takes[v] <= 1
    BY DEF TakenOnce
  <2>1. takes[v] \in {0, 1}
    BY DEF VersionInv, VersionTypes
  <2> QED
    BY <2>1
<1>2. Init => (VersionDiscipline => VersionInv)
  BY VersionInvInit
<1>3. (VersionDiscipline => VersionInv) /\ [Next]_vars => (VersionDiscipline => VersionInv)'
  <2> SUFFICES ASSUME VersionDiscipline => VersionInv, [Next]_vars, VersionDiscipline'
               PROVE  VersionInv'
    OBVIOUS
  <2>1. usage' = usage
    BY UsageKept
  <2>2. VersionDiscipline
    BY <2>1 DEF VersionDiscipline
  <2> QED
    BY <2>2, VersionInvNext
<1> QED
  BY <1>1, <1>2, <1>3, PTL DEF Spec

(* Every variable has its type, and no call is answered before it is made: a lost
   connection, a client that exits, and a call that is executed again never leave more
   answers on their way than calls.  What the usages call is well formed by assumption. *)
THEOREM AlwaysTyped == Spec => []TypeOK
BY TypesInit, TypesNext, PTL DEF Spec

=============================================================================
