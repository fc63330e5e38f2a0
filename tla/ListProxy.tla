------------------------------ MODULE ListProxy ------------------------------
(***************************************************************************)
(* One list of CRedisListProxy (src/base/RedisListProxy.cpp): a list in    *)
(* Redis, a hash table of marks that clients compare and set, the flag in  *)
(* it that says the list must be saved, and the table that tells a saver   *)
(* so.  Clients use marks as locks, as counters, and as versions of the    *)
(* list that let a push happen once.                                       *)
(*                                                                         *)
(* As in CacheProxy, a client's pipelines are executed in order and each   *)
(* perhaps several times (AtLeastOnce), and scripts are atomic.  Calls     *)
(* that only read (LLength, GetItemAt, TestMark) and the messages the      *)
(* scripts publish are left out.  What the code leaves to its callers is   *)
(* who uses the list for what: a behaviour has one of several usages.      *)
(***************************************************************************)
EXTENDS Integers, Sequences, SequencesExt

CONSTANTS
    Client,      \* numbers: a lock that c holds is marked c
    Id,          \* fields of the table of marks
    Value,       \* items
    None,        \* no mark
    Usages,      \* calls[c]: what client c calls; restores: whether the saver restores
    MaxAsked,    \* bound: calls per client, and of the saver
    MaxFaults    \* bound: how often answers are lost

ASSUME ClientAssumption == Client \subseteq Nat \ {0} /\ None \notin Int
ASSUME BoundAssumption ==
    MaxAsked \in Nat /\ MaxFaults \in Nat

VARIABLES
    usage,      \* the usage of this behaviour
    \* Redis
    list, mark,
    dirty,      \* is_dirty, in the table of marks
    listed,     \* whether _listDirtyEntry names the list
    \* clients
    queue,      \* queue[c]: calls not yet answered
    served,     \* served[c]: answers on their way to c
    waiting,    \* waiting[c]: c is in BlockingCommit()
    asked,      \* asked[c]: how many calls c has made
    \* saver
    saver,      \* its call: none, sent, or answered
    batch,      \* the answer: the entry of the list, or nothing
    saved,      \* the database
    runs,       \* how many calls it has made
    \* history
    pushes,     \* values some client has tried to push
    takes,      \* how often a value was given to a client that popped it
    holds,      \* <<c, id>>: c was told that it has locked id, and has not let go
    truth,      \* what list and marks were when a script last touched them
    untracked,  \* a plain push or pop has changed the list
    lootLost,   \* an answer to LootDirtyEntry() was lost
    faults

redisVars  == <<list, mark, dirty, listed, truth, untracked>>
clientVars == <<queue, served, waiting, asked, pushes, takes, holds>>
saverVars  == <<saver, batch, saved, runs, lootLost>>
vars == <<usage, redisVars, clientVars, saverVars, faults>>

-----------------------------------------------------------------------------
Mark == Int \cup {None}
Free == 0             \* what a lock is set to that nobody holds

NoMarks == [i \in Id |-> None]
Entry == [list : Seq(Value), mark : [Id -> Mark]]
Empty == [list |-> <<>>, mark |-> NoMarks]

PushCAS == {"LPushCAS", "RPushCAS"}
Push    == {"LPush", "RPush"} \cup PushCAS

Command ==
    [op : {"LPush", "RPush"}, value : Value]
      \cup [op : {"LPop", "RPop", "PopAll", "Clear"}]
      \cup [op : {"PopAllAndMark"}, id : Id, dest : Int]
      \cup [op : {"SetCAS", "ResetCAS"}, id : Id, expect : Int, dest : Int]
      \cup [op : PushCAS, id : Id, expect : Int, dest : Int, value : Value]
      \cup [op : {"IncrByIntCAS", "DecrByIntCAS"}, id : Id, by : Int, limit : Int]

ASSUME UsagesAssumption ==
    \A u \in Usages :
        u.restores \in BOOLEAN /\ \A c \in Client : \A cmd \in u.calls[c] : cmd \in Command

(* An answer: false, or the items that were popped if any. *)
Answers == [ok : BOOLEAN, items : Seq(Value)]
Done(items) == [ok |-> TRUE, items |-> items]
Refused == [ok |-> FALSE, items |-> <<>>]

(* c locks id with this call, and lets go of it with that one. *)
Locks(c, cmd) == cmd.op = "SetCAS" /\ cmd.expect = Free /\ cmd.dest = c
Unlocks(c, cmd) == cmd.op = "SetCAS" /\ cmd.expect = c /\ cmd.dest = Free

Init ==
    /\ usage \in Usages
    /\ list = <<>> /\ mark = NoMarks /\ dirty = FALSE /\ listed = FALSE
    /\ queue = [c \in Client |-> <<>>]
    /\ served = [c \in Client |-> <<>>]
    /\ waiting = [c \in Client |-> FALSE]
    /\ asked = [c \in Client |-> 0]
    /\ saver = "idle" /\ batch = <<>> /\ saved = Empty /\ runs = 0
    /\ pushes = {} /\ takes = [v \in Value |-> 0] /\ holds = {}
    /\ truth = Empty /\ untracked = FALSE /\ lootLost = FALSE /\ faults = 0

Fault == faults < MaxFaults /\ faults' = faults + 1 /\ UNCHANGED usage

-----------------------------------------------------------------------------
(* The commands and scripts.                                                *)

Pushed(cmd) ==
    IF cmd.op \in {"LPush", "LPushCAS"} THEN <<cmd.value>> \o list ELSE Append(list, cmd.value)

Touched == dirty' = TRUE /\ listed' = TRUE /\ truth' = [list |-> list', mark |-> mark']
NotTouched == UNCHANGED <<dirty, listed, truth>>

(* LPUSH, RPUSH, LPOP, RPOP, which know nothing of marks. *)
PlainPush(cmd, answer) ==
    /\ cmd.op \in {"LPush", "RPush"}
    /\ list' = Pushed(cmd)
    /\ untracked' = TRUE
    /\ UNCHANGED mark /\ NotTouched
    /\ answer = Done(<<>>)

PlainPop(cmd, answer) ==
    /\ cmd.op \in {"LPop", "RPop"}
    /\ LET at == IF cmd.op = "LPop" THEN 1 ELSE Len(list)
       IN IF list = <<>>
          THEN UNCHANGED <<list, untracked>> /\ answer = Done(<<>>)
          ELSE list' = RemoveAt(list, at) /\ untracked' = TRUE /\ answer = Done(<<list[at]>>)
    /\ UNCHANGED mark /\ NotTouched

(* s_sPopAll, s_sPopAllAndMark. *)
PopEverything(cmd, answer) ==
    /\ cmd.op \in {"PopAll", "PopAllAndMark"}
    /\ list' = <<>>
    /\ mark' = IF cmd.op = "PopAll" THEN mark ELSE [mark EXCEPT ![cmd.id] = cmd.dest]
    /\ Touched
    /\ UNCHANGED untracked
    /\ answer = Done(list)

PassesAlways(cmd) == cmd.id \in Id      \* mutant: the mark is not compared

(* A mark that is not there is as good as the expected one. *)
Passes(cmd) ==
    IF cmd.op = "ResetCAS" THEN mark[cmd.id] # cmd.expect ELSE mark[cmd.id] \in {None, cmd.expect}

(* s_sSetCAS, s_sResetCAS, s_sLPushCAS, s_sRPushCAS. *)
CompareAndSet(cmd, answer) ==
    /\ cmd.op \in {"SetCAS", "ResetCAS"} \cup PushCAS
    /\ \/ /\ Passes(cmd)
          /\ mark' = [mark EXCEPT ![cmd.id] = cmd.dest]
          /\ list' = IF cmd.op \in PushCAS THEN Pushed(cmd) ELSE list
          /\ Touched
          /\ answer = Done(<<>>)
       \/ ~Passes(cmd) /\ UNCHANGED <<list, mark>> /\ NotTouched /\ answer = Refused
    /\ UNCHANGED untracked

(* s_sIncrByIntCAS, s_sDecrByIntCAS: a counter that is not there becomes what was to
   be added to it, or taken off it. *)
CountTo(cmd) ==
    LET change == IF cmd.op = "IncrByIntCAS" THEN cmd.by ELSE -cmd.by
    IN  IF mark[cmd.id] = None THEN cmd.by ELSE mark[cmd.id] + change

WithinLimit(cmd) ==
    IF cmd.op = "IncrByIntCAS" THEN CountTo(cmd) <= cmd.limit ELSE CountTo(cmd) >= cmd.limit

Count(cmd, answer) ==
    /\ cmd.op \in {"IncrByIntCAS", "DecrByIntCAS"}
    /\ UNCHANGED <<list, untracked>>
    /\ \/ /\ WithinLimit(cmd)
          /\ mark' = [mark EXCEPT ![cmd.id] = CountTo(cmd)]
          /\ Touched
          /\ answer = Done(<<>>)
       \/ ~WithinLimit(cmd) /\ UNCHANGED mark /\ NotTouched /\ answer = Refused

ClearForgetsFlag(cmd, answer) ==      \* mutant: clears without asking
    /\ cmd.op = "Clear"
    /\ list' = <<>> /\ mark' = NoMarks /\ dirty' = FALSE /\ listed' = FALSE
    /\ UNCHANGED <<truth, untracked>>
    /\ answer = Done(<<>>)

(* s_sClear. *)
Clear(cmd, answer) ==
    /\ cmd.op = "Clear"
    /\ \/ /\ ~dirty
          /\ list' = <<>> /\ mark' = NoMarks /\ dirty' = FALSE /\ listed' = FALSE
          /\ UNCHANGED truth
          /\ answer = Done(<<>>)
       \/ dirty /\ UNCHANGED <<list, mark>> /\ NotTouched /\ answer = Refused
    /\ UNCHANGED untracked

Run(cmd, answer) ==
    \/ PlainPush(cmd, answer)
    \/ PlainPop(cmd, answer)
    \/ PopEverything(cmd, answer)
    \/ CompareAndSet(cmd, answer)
    \/ Count(cmd, answer)
    \/ Clear(cmd, answer)

-----------------------------------------------------------------------------
(* A client and its connection.                                             *)

(* A proxy method: the call is committed; all but a plain push wait for the answer.
   No two pushes push the same value. *)
Send(c, cmd) ==
    /\ ~waiting[c]
    /\ asked[c] < MaxAsked
    /\ cmd.op \in Push => cmd.value \notin pushes
    /\ asked' = [asked EXCEPT ![c] = @ + 1]
    /\ queue' = [queue EXCEPT ![c] = Append(@, cmd)]
    /\ waiting' = [waiting EXCEPT ![c] = cmd.op \notin {"LPush", "RPush"}]
    /\ pushes' = IF cmd.op \in Push THEN pushes \cup {cmd.value} ELSE pushes
    /\ holds' = IF Unlocks(c, cmd) THEN holds \ {<<c, cmd.id>>} ELSE holds
    /\ UNCHANGED <<redisVars, served, takes, saverVars, faults, usage>>

Execute(c) ==
    /\ Len(served[c]) < Len(queue[c])
    /\ LET cmd == queue[c][Len(served[c]) + 1]
       IN \E items \in {<<>>, list} \cup {<<v>> : v \in Value}, ok \in BOOLEAN :
             /\ Run(cmd, [ok |-> ok, items |-> items])
             /\ served' = [served EXCEPT ![c] = Append(@, [ok |-> ok, items |-> items])]
    /\ UNCHANGED <<queue, waiting, asked, pushes, takes, holds, saverVars, faults, usage>>

(* The front pipeline is over. *)
Answer(c) ==
    /\ served[c] # <<>>
    /\ LET cmd == Head(queue[c])
           answer == Head(served[c])
       IN /\ cmd.op = "Clear" => answer.ok
          /\ takes' = [v \in Value |->
                takes[v] + Cardinality({i \in DOMAIN answer.items : answer.items[i] = v})]
          /\ holds' = IF Locks(c, cmd) /\ answer.ok THEN holds \cup {<<c, cmd.id>>} ELSE holds
    /\ queue' = [queue EXCEPT ![c] = Tail(@)]
    /\ served' = [served EXCEPT ![c] = Tail(@)]
    /\ waiting' = [waiting EXCEPT ![c] = @ /\ Len(queue[c]) > 1]
    /\ UNCHANGED <<redisVars, asked, pushes, saverVars, faults, usage>>

(* "List(%s) is dirty": the process exits, and its connection is gone with it. *)
ClearExits(c) ==
    /\ served[c] # <<>>
    /\ Head(queue[c]).op = "Clear" /\ ~Head(served[c]).ok
    /\ queue' = [queue EXCEPT ![c] = <<>>]
    /\ served' = [served EXCEPT ![c] = <<>>]
    /\ UNCHANGED <<redisVars, waiting, asked, pushes, takes, holds, saverVars, faults, usage>>

(* The connection is lost. *)
Lose(c) ==
    /\ Fault
    /\ \E n \in 0 .. Len(served[c]) - 1 :
          served' = [served EXCEPT ![c] = SubSeq(@, 1, n)]
    /\ UNCHANGED <<redisVars, queue, waiting, asked, pushes, takes, holds, saverVars>>

-----------------------------------------------------------------------------
(* The saver: writes what it loots to the database, and restores lists.     *)

SaverCalls(call) ==
    /\ saver = "idle"
    /\ runs < MaxAsked
    /\ call = "restore" => usage.restores
    /\ saver' = call
    /\ runs' = runs + 1
    /\ UNCHANGED <<redisVars, clientVars, batch, saved, lootLost, faults, usage>>

LootKeepsFlag ==      \* mutant: is_dirty stays
    /\ saver = "loot"
    /\ saver' = "looted"
    /\ batch' = IF listed /\ dirty THEN <<[list |-> list, mark |-> mark]>> ELSE <<>>
    /\ listed' = FALSE
    /\ UNCHANGED <<list, mark, dirty, truth, untracked, clientVars, saved, runs, lootLost, faults, usage>>

(* s_sLootDirtyEntry: a list that is listed and dirty is dumped. *)
LootExecuted ==
    /\ saver = "loot"
    /\ saver' = "looted"
    /\ batch' = IF listed /\ dirty THEN <<[list |-> list, mark |-> mark]>> ELSE <<>>
    /\ dirty' = (dirty /\ ~listed)
    /\ listed' = FALSE
    /\ UNCHANGED <<list, mark, truth, untracked, clientVars, saved, runs, lootLost, faults, usage>>

(* What the database holds once it has got the answer. *)
Kept == IF batch = <<>> THEN saved ELSE batch[1]

LootAnswered ==
    /\ saver = "looted"
    /\ saver' = "idle"
    /\ saved' = Kept
    /\ batch' = <<>>
    /\ UNCHANGED <<redisVars, clientVars, runs, lootLost, faults, usage>>

(* s_sRestore: both keys are deleted, is_dirty among them. *)
RestoreExecuted ==
    /\ saver = "restore"
    /\ saver' = "restored"
    /\ list' = saved.list /\ mark' = saved.mark /\ dirty' = FALSE
    /\ truth' = saved
    /\ UNCHANGED <<listed, untracked, clientVars, batch, saved, runs, lootLost, faults, usage>>

RestoreAnswered ==
    /\ saver = "restored"
    /\ saver' = "idle"
    /\ UNCHANGED <<redisVars, clientVars, batch, saved, runs, lootLost, faults, usage>>

(* The answer is lost with the connection, and the script is sent again. *)
SaverAnswerLost ==
    /\ Fault
    /\ \/ saver = "looted" /\ saver' = "loot" /\ lootLost' = TRUE
       \/ saver = "restored" /\ saver' = "restore" /\ UNCHANGED lootLost
    /\ batch' = <<>>
    /\ UNCHANGED <<redisVars, clientVars, saved, runs>>

-----------------------------------------------------------------------------

Next ==
    \/ \E c \in Client :
          \/ \E cmd \in usage.calls[c] : Send(c, cmd)
          \/ Execute(c) \/ Answer(c) \/ ClearExits(c) \/ Lose(c)
    \/ \E call \in {"loot", "restore"} : SaverCalls(call)
    \/ LootExecuted \/ LootAnswered
    \/ RestoreExecuted \/ RestoreAnswered
    \/ SaverAnswerLost

Spec == Init /\ [][Next]_vars

-----------------------------------------------------------------------------
(* Properties.                                                              *)

(* Every variable has its type, and no call is answered before it is made. *)
TypeOK ==
    /\ usage \in Usages
    /\ list \in Seq(Value) /\ mark \in [Id -> Mark]
    /\ dirty \in BOOLEAN /\ listed \in BOOLEAN
    /\ queue \in [Client -> Seq(Command)]
    /\ served \in [Client -> Seq(Answers)]
    /\ \A c \in Client : Len(served[c]) <= Len(queue[c])
    /\ waiting \in [Client -> BOOLEAN] /\ asked \in [Client -> Nat]
    /\ saver \in {"idle", "loot", "looted", "restore", "restored"}
    /\ batch \in Seq(Entry) /\ saved \in Entry /\ runs \in Nat
    /\ pushes \subseteq Value /\ takes \in [Value -> Nat]
    /\ holds \subseteq Client \X Id
    /\ truth \in Entry /\ untracked \in BOOLEAN /\ lootLost \in BOOLEAN /\ faults \in Nat

(* Whatever scripts come between, a list that is dirty is one the saver is told of. *)
DirtyIsListed == dirty => listed

(* "List is dirty, you must clean it first": what a list last was is in the database or
   on the way there when Clear() does not refuse to remove it, and stays there when it
   does -- as long as no answer to a looting was lost, and nobody used the plain
   commands, which leave is_dirty alone. *)
CleanIsSaved == ~lootLost /\ ~untracked /\ ~dirty => Kept = truth

(* A usage in which marks serve as locks only: a client puts its number in place of
   Free, or Free in place of its number, and does nothing else that touches marks. *)
LockDiscipline ==
    /\ ~usage.restores
    /\ \A c \in Client : \A cmd \in usage.calls[c] :
          \/ cmd.op \in {"LPush", "RPush", "LPop", "RPop", "PopAll"}
          \/ Locks(c, cmd) \/ Unlocks(c, cmd)

(* A client that was told it has the lock has it, and so no other client does: a lost
   answer may leave a lock with a client that was told it failed, but never gives it
   to two. *)
HolderIsMarked == LockDiscipline => \A h \in holds : mark[h[2]] = h[1]

(* A usage in which marks are versions: every push moves its mark on, and nothing else
   touches marks. *)
VersionDiscipline ==
    /\ ~usage.restores
    /\ \A c \in Client : \A cmd \in usage.calls[c] :
          \/ cmd.op \in PushCAS /\ cmd.expect < cmd.dest
          \/ cmd.op \in {"LPop", "RPop", "PopAll"}

(* An item is then popped by at most one client, and once, though pushes and pops may
   be executed several times. *)
TakenOnce == VersionDiscipline => \A v \in Value : takes[v] <= 1

=============================================================================
