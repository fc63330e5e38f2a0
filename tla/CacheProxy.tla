------------------------------ MODULE CacheProxy ------------------------------
(***************************************************************************)
(* One cache of CRedisCacheProxy (src/base/RedisCacheProxy.cpp): a hash    *)
(* table in Redis, the hash tables that list what must still be written to *)
(* a database, the proxies of any number of clients that work on it, and a *)
(* saver that loots the dirty entries and writes them to the database.     *)
(*                                                                         *)
(* A proxy sends one command or script per pipeline.  Between it and the   *)
(* server there is a connection, which is taken for what AtLeastOnce says  *)
(* of it: commands are executed in order, each perhaps several times.      *)
(* Commands that only read (Get, GetAll, GetPartitial, BatchGet) are left  *)
(* out, and scripts are atomic.                                            *)
(***************************************************************************)
EXTENDS Integers, Sequences

CONSTANTS
    Client,      \* the clients whose proxies work on this cache
    Id,          \* fields of the hash table
    Value,       \* what a field may hold
    None,        \* no value
    MaxAsked,    \* bound: commands per client, and lootings
    MaxFaults    \* bound: how often answers are lost

ASSUME NoneAssumption == None \notin Value
ASSUME BoundAssumption == MaxAsked \in Nat /\ MaxFaults \in Nat

VARIABLES
    \* Redis
    H,          \* the hash table of the cache
    D_H,        \* copies of its dirty fields
    DS_H,       \* their states
    listed,     \* whether _cacheDirtyEntry lists the cache
    \* clients
    queue,      \* queue[c]: commands c waits for
    served,     \* served[c]: answers on their way to c
    waiting,    \* waiting[c]: c is in BlockingCommit()
    asked,      \* asked[c]: how many commands c has sent
    \* saver
    looting,    \* its LootDirtyEntry(): not called, sent, or answered
    batch,      \* the answer: fields and states
    saved,      \* the database
    loots,      \* how often it was called
    \* history
    truth,      \* what Add, Update and Remove have made of the fields, when executed
    lootLost,   \* an answer to LootDirtyEntry() was lost
    faults

redisVars  == <<H, D_H, DS_H, listed, truth>>
clientVars == <<queue, served, waiting, asked>>
saverVars  == <<looting, batch, saved, loots, lootLost>>
vars == <<redisVars, clientVars, saverVars, faults>>

-----------------------------------------------------------------------------
(* Values.                                                                  *)

(* The states of DIRTY_ENTITY_STATE_TAG that the scripts use; a field that is not in
   the table of states is "Clean". *)
State == {"Clean", "Deleted", "Modified", "Added"}

Fields   == [Id -> Value \cup {None}]
Nothing  == [i \in Id |-> None]
AllClean == [i \in Id |-> "Clean"]

Command ==
    [op : {"Add", "Update", "Set"}, id : Id, value : Value]
      \cup [op : {"Remove"}, id : Id]
      \cup [op : {"Clear"}]

Batch == [fields : Fields, states : [Id -> State]]
NoBatch == [fields |-> Nothing, states |-> AllClean]

(* What an answer tells the client: done, refused (Clear of a dirty cache), or that
   the script failed. *)
Answers == {"ok", "refused", "error"}

(* A database that held `base`, once a batch is written to it. *)
Written(base, b) ==
    [i \in Id |-> CASE b.states[i] = "Clean"   -> base[i]
                    [] b.states[i] = "Deleted" -> None
                    [] OTHER                   -> b.fields[i]]

Init ==
    /\ H = Nothing /\ D_H = Nothing /\ DS_H = AllClean /\ listed = FALSE
    /\ queue = [c \in Client |-> <<>>]
    /\ served = [c \in Client |-> <<>>]
    /\ waiting = [c \in Client |-> FALSE]
    /\ asked = [c \in Client |-> 0]
    /\ looting = "idle" /\ batch = NoBatch /\ saved = Nothing /\ loots = 0
    /\ truth = Nothing /\ lootLost = FALSE /\ faults = 0

Fault == faults < MaxFaults /\ faults' = faults + 1

-----------------------------------------------------------------------------
(* The scripts.                                                             *)

(* s_sAddToHashTable and s_sUpdateToHashTable. *)
Write(cmd, state) ==
    /\ H' = [H EXCEPT ![cmd.id] = cmd.value]
    /\ D_H' = [D_H EXCEPT ![cmd.id] = cmd.value]
    /\ DS_H' = [DS_H EXCEPT ![cmd.id] = state]
    /\ listed' = TRUE
    /\ truth' = [truth EXCEPT ![cmd.id] = cmd.value]

(* s_sRemoveFromHashTable of a field that is there. *)
RemoveField(id) ==
    /\ H' = [H EXCEPT ![id] = None]
    /\ D_H' = [D_H EXCEPT ![id] = H[id]]
    /\ DS_H' = [DS_H EXCEPT ![id] = "Deleted"]
    /\ listed' = TRUE
    /\ truth' = [truth EXCEPT ![id] = None]

ClearableAlways == listed \in BOOLEAN      \* mutant: the states are not counted

(* No field has a state. *)
Clearable == DS_H = AllClean

(* s_sClear on a cache that is not dirty. *)
ClearAll ==
    /\ H' = Nothing /\ D_H' = Nothing /\ DS_H' = AllClean /\ listed' = FALSE
    /\ UNCHANGED truth

(* What the server makes of a command, and its answer. *)
Run(cmd, answer) ==
    \/ cmd.op = "Add" /\ Write(cmd, "Added") /\ answer = "ok"
    \/ cmd.op = "Update" /\ Write(cmd, "Modified") /\ answer = "ok"
    \/ cmd.op = "Remove" /\ H[cmd.id] # None /\ RemoveField(cmd.id) /\ answer = "ok"
    \/ \* HSET is called with the false that HGET returned: the script fails
       cmd.op = "Remove" /\ H[cmd.id] = None /\ UNCHANGED redisVars /\ answer = "error"
    \/ /\ cmd.op = "Set"
       /\ H' = [H EXCEPT ![cmd.id] = cmd.value]
       /\ UNCHANGED <<D_H, DS_H, listed, truth>>
       /\ answer = "ok"
    \/ cmd.op = "Clear" /\ Clearable /\ ClearAll /\ answer = "ok"
    \/ cmd.op = "Clear" /\ ~Clearable /\ UNCHANGED redisVars /\ answer = "refused"

-----------------------------------------------------------------------------
(* A client and its connection.                                             *)

(* A proxy method: the command is committed, and Clear() waits for the answer. *)
Send(c, cmd) ==
    /\ ~waiting[c]
    /\ asked[c] < MaxAsked
    /\ asked' = [asked EXCEPT ![c] = @ + 1]
    /\ queue' = [queue EXCEPT ![c] = Append(@, cmd)]
    /\ waiting' = [waiting EXCEPT ![c] = (cmd.op = "Clear")]
    /\ UNCHANGED <<redisVars, served, saverVars, faults>>

Execute(c) ==
    /\ Len(served[c]) < Len(queue[c])
    /\ \E answer \in Answers :
          /\ Run(queue[c][Len(served[c]) + 1], answer)
          /\ served' = [served EXCEPT ![c] = Append(@, answer)]
    /\ UNCHANGED <<queue, waiting, asked, saverVars, faults>>

(* The front pipeline is over. *)
Answer(c) ==
    /\ served[c] # <<>>
    /\ Head(served[c]) = "ok"
    /\ queue' = [queue EXCEPT ![c] = Tail(@)]
    /\ served' = [served EXCEPT ![c] = Tail(@)]
    /\ waiting' = [waiting EXCEPT ![c] = @ /\ Len(queue[c]) > 1]
    /\ UNCHANGED <<redisVars, asked, saverVars, faults>>

(* "cache is dirty": the process exits, and its connection is gone with it. *)
ClearExits(c) ==
    /\ served[c] # <<>>
    /\ Head(served[c]) = "refused"
    /\ queue' = [queue EXCEPT ![c] = <<>>]
    /\ served' = [served EXCEPT ![c] = <<>>]
    /\ UNCHANGED <<redisVars, waiting, asked, saverVars, faults>>

(* "reply error": the connection is made again, and the command sent again. *)
ErrorResets(c) ==
    /\ served[c] # <<>>
    /\ Head(served[c]) = "error"
    /\ served' = [served EXCEPT ![c] = <<>>]
    /\ UNCHANGED <<redisVars, queue, waiting, asked, saverVars, faults>>

(* The connection is lost. *)
Lose(c) ==
    /\ Fault
    /\ \E n \in 0 .. Len(served[c]) - 1 :
          served' = [served EXCEPT ![c] = SubSeq(@, 1, n)]
    /\ UNCHANGED <<redisVars, queue, waiting, asked, saverVars>>

-----------------------------------------------------------------------------
(* The saver.                                                               *)

LootDirtyEntry ==
    /\ looting = "idle"
    /\ loots < MaxAsked
    /\ loots' = loots + 1
    /\ looting' = "sent"
    /\ UNCHANGED <<redisVars, clientVars, batch, saved, lootLost, faults>>

LootKeepsStates ==      \* mutant: the table of states is not deleted
    /\ looting = "sent"
    /\ looting' = "answered"
    /\ batch' = IF listed THEN [fields |-> D_H, states |-> DS_H] ELSE NoBatch
    /\ D_H' = IF listed THEN Nothing ELSE D_H
    /\ listed' = FALSE
    /\ UNCHANGED <<H, DS_H, truth, clientVars, saved, loots, lootLost, faults>>

(* s_sLootDirtyEntry: the cache is dumped and forgotten if it is listed. *)
LootExecuted ==
    /\ looting = "sent"
    /\ looting' = "answered"
    /\ batch' = IF listed THEN [fields |-> D_H, states |-> DS_H] ELSE NoBatch
    /\ D_H' = IF listed THEN Nothing ELSE D_H
    /\ DS_H' = IF listed THEN AllClean ELSE DS_H
    /\ listed' = FALSE
    /\ UNCHANGED <<H, truth, clientVars, saved, loots, lootLost, faults>>

(* The caller gets the entries and writes them to the database. *)
LootAnswered ==
    /\ looting = "answered"
    /\ looting' = "idle"
    /\ saved' = Written(saved, batch)
    /\ batch' = NoBatch
    /\ UNCHANGED <<redisVars, clientVars, loots, lootLost, faults>>

(* The answer is lost with the connection, and the script is sent again. *)
LootAnswerLost ==
    /\ Fault
    /\ looting = "answered"
    /\ looting' = "sent"
    /\ lootLost' = TRUE
    /\ batch' = NoBatch
    /\ UNCHANGED <<redisVars, clientVars, saved, loots>>

-----------------------------------------------------------------------------

Progress(c) == Execute(c) \/ Answer(c) \/ ClearExits(c) \/ ErrorResets(c)

Next ==
    \/ \E c \in Client : \/ \E cmd \in Command : Send(c, cmd)
                         \/ Progress(c)
                         \/ Lose(c)
    \/ LootDirtyEntry \/ LootExecuted \/ LootAnswered \/ LootAnswerLost

Spec == Init /\ [][Next]_vars

-----------------------------------------------------------------------------
(* Properties.                                                              *)

(* Every variable has its type, and no command is answered before it is sent. *)
TypeOK ==
    /\ H \in Fields /\ D_H \in Fields /\ DS_H \in [Id -> State] /\ listed \in BOOLEAN
    /\ queue \in [Client -> Seq(Command)]
    /\ served \in [Client -> Seq(Answers)]
    /\ \A c \in Client : Len(served[c]) <= Len(queue[c])
    /\ waiting \in [Client -> BOOLEAN]
    /\ asked \in [Client -> Nat]
    /\ looting \in {"idle", "sent", "answered"}
    /\ batch \in Batch /\ saved \in Fields /\ loots \in Nat
    /\ truth \in Fields /\ lootLost \in BOOLEAN /\ faults \in Nat

(* The four keys agree whatever scripts of whatever clients come between: the saver is
   told of the cache exactly as long as one of its fields has a state. *)
DirtyIsListed == listed <=> DS_H # AllClean

(* What the database will hold when the saver has written what it has looted and what
   there is still to loot. *)
AfterSave == Written(Written(saved, batch), [fields |-> D_H, states |-> DS_H])

(* No change is forgotten: as long as no answer to a looting was lost, every change
   that some client has made is in the database, in the saver's hands, or in the
   tables of dirty fields, and none that is newer is behind an older one -- however
   often commands are executed again and whoever clears the cache. *)
NothingForgotten == ~lootLost => AfterSave = truth

=============================================================================
