--------------------------- MODULE CacheProxy_proofs ---------------------------
(***************************************************************************)
(* Theorems about CacheProxy, for any clients, fields, values and numbers  *)
(* of commands and of faults.                                              *)
(***************************************************************************)
EXTENDS CacheProxy, TLAPS

(* The answer to a looting is only there from the execution of the script to its
   delivery. *)
BatchInFlight == looting # "answered" => batch = NoBatch

(* What every step preserves.  NothingForgotten by itself is not inductive: a looting
   that overwrote an earlier batch, or dumped a cache that is dirty but not listed,
   would forget its fields. *)
IInv == TypeOK /\ DirtyIsListed /\ BatchInFlight /\ NothingForgotten

-----------------------------------------------------------------------------
(* Databases.                                                               *)

LEMMA WrittenType ==
    ASSUME NEW base \in Fields, NEW b \in Batch
    PROVE  Written(base, b) \in Fields
BY DEF Written, Fields, Batch

(* The values everything begins with have their types. *)
LEMMA ConstantTypes ==
    Nothing \in Fields /\ AllClean \in [Id -> State] /\ NoBatch \in Batch
BY DEF Nothing, Fields, AllClean, State, NoBatch, Batch

(* Writing a batch of clean fields changes nothing. *)
LEMMA CleanWrites ==
    ASSUME NEW base \in Fields, NEW fields
    PROVE  Written(base, [fields |-> fields, states |-> AllClean]) = base
BY DEF Written, AllClean, Fields

-----------------------------------------------------------------------------
(* The initial state. *)

LEMMA IInvInit == Init => IInv
<1> SUFFICES ASSUME Init PROVE IInv
  OBVIOUS
<1>1. TypeOK
  <2>1. /\ queue \in [Client -> Seq(Command)] /\ served \in [Client -> Seq(Answers)]
        /\ \A c \in Client : Len(served[c]) <= Len(queue[c])
    BY DEF Init
  <2>2. waiting \in [Client -> BOOLEAN] /\ asked \in [Client -> Nat]
    BY DEF Init
  <2>3. /\ H \in Fields /\ D_H \in Fields /\ DS_H \in [Id -> State] /\ listed \in BOOLEAN
        /\ looting \in {"idle", "sent", "answered"} /\ batch \in Batch /\ saved \in Fields
        /\ loots \in Nat /\ truth \in Fields /\ lootLost \in BOOLEAN /\ faults \in Nat
    BY ConstantTypes DEF Init
  <2> QED
    BY <2>1, <2>2, <2>3 DEF TypeOK
<1>2. DirtyIsListed /\ BatchInFlight
  BY DEF Init, DirtyIsListed, BatchInFlight
<1>3. AfterSave = truth
  BY ConstantTypes, CleanWrites DEF Init, AfterSave, NoBatch
<1> QED
  BY <1>1, <1>2, <1>3 DEF IInv, NothingForgotten

-----------------------------------------------------------------------------
(* Types.                                                                   *)

LEMMA TypeNext == TypeOK /\ [Next]_vars => TypeOK'
<1> SUFFICES ASSUME TypeOK, [Next]_vars PROVE TypeOK'
  OBVIOUS
<1> USE ConstantTypes DEF TypeOK
<1>1. ASSUME NEW c \in Client, NEW cmd \in Command, Send(c, cmd) PROVE TypeOK'
  <2>1. queue' \in [Client -> Seq(Command)]
    BY <1>1 DEF Send
  <2>2. \A d \in Client : Len(served'[d]) <= Len(queue'[d])
    BY <1>1 DEF Send
  <2>3. waiting' \in [Client -> BOOLEAN]
    BY <1>1 DEF Send
  <2> QED
    BY <1>1, <2>1, <2>2, <2>3 DEF Send, redisVars, saverVars
<1>2. ASSUME NEW c \in Client, Execute(c) PROVE TypeOK'
  <2> DEFINE cmd == queue[c][Len(served[c]) + 1]
  <2>1. Len(served[c]) + 1 \in DOMAIN queue[c] /\ cmd \in Command
    BY <1>2 DEF Execute
  <2>2. PICK answer \in Answers :
           Run(cmd, answer) /\ served' = [served EXCEPT ![c] = Append(@, answer)]
    BY <1>2 DEF Execute
  <2>3. served' \in [Client -> Seq(Answers)]
    BY <2>2
  <2>4. \A d \in Client : Len(served'[d]) <= Len(queue'[d])
    BY <1>2, <2>2 DEF Execute
  <2>5. H' \in Fields /\ D_H' \in Fields /\ DS_H' \in [Id -> State]
          /\ listed' \in BOOLEAN /\ truth' \in Fields
    <3> HIDE DEF cmd
    <3>1. CASE cmd.op \in {"Add", "Update", "Set"}
      BY <2>1, <2>2, <3>1 DEF Run, Write, Command, Fields, State, redisVars
    <3>2. CASE cmd.op = "Remove"
      BY <2>1, <2>2, <3>2 DEF Run, RemoveField, Command, Fields, State, redisVars
    <3>3. CASE cmd.op = "Clear"
      BY <2>1, <2>2, <3>3 DEF Run, ClearAll, redisVars
    <3> QED
      BY <2>1, <3>1, <3>2, <3>3 DEF Command
  <2> QED
    BY <1>2, <2>3, <2>4, <2>5 DEF Execute, saverVars
<1>3. ASSUME NEW c \in Client, Answer(c) PROVE TypeOK'
  <2>1. queue[c] # <<>> /\ Tail(queue[c]) \in Seq(Command) /\ Tail(served[c]) \in Seq(Answers)
    BY <1>3 DEF Answer
  <2>2. \A d \in Client : Len(served'[d]) <= Len(queue'[d])
    BY <1>3, <2>1 DEF Answer
  <2>3. waiting' \in [Client -> BOOLEAN]
    BY <1>3 DEF Answer
  <2> QED
    BY <1>3, <2>1, <2>2, <2>3 DEF Answer, redisVars, saverVars
<1>4. ASSUME NEW c \in Client, ClearExits(c) \/ ErrorResets(c) PROVE TypeOK'
  <2>1. /\ queue' \in [Client -> Seq(Command)] /\ served' \in [Client -> Seq(Answers)]
        /\ \A d \in Client : Len(served'[d]) <= Len(queue'[d])
    <3>1. <<>> \in Seq(Command) /\ <<>> \in Seq(Answers) /\ Len(<<>>) = 0
      OBVIOUS
    <3>2. CASE ClearExits(c)
      BY <3>1, <3>2 DEF ClearExits
    <3>3. CASE ErrorResets(c)
      BY <3>1, <3>3 DEF ErrorResets
    <3> QED
      BY <1>4, <3>2, <3>3
  <2>2. UNCHANGED <<redisVars, waiting, asked, saverVars, faults>>
    BY <1>4 DEF ClearExits, ErrorResets
  <2> QED
    BY <2>1, <2>2 DEF redisVars, saverVars
<1>5. ASSUME NEW c \in Client, Lose(c) PROVE TypeOK'
  <2>1. PICK n \in 0 .. Len(served[c]) - 1 :
           served' = [served EXCEPT ![c] = SubSeq(@, 1, n)]
    BY <1>5 DEF Lose
  <2>2. SubSeq(served[c], 1, n) \in Seq(Answers) /\ Len(SubSeq(served[c], 1, n)) = n
    BY <2>1
  <2> QED
    BY <1>5, <2>1, <2>2 DEF Lose, Fault, redisVars, saverVars
<1>6. CASE LootDirtyEntry
  BY <1>6 DEF LootDirtyEntry, redisVars, clientVars
<1>7. CASE LootAnswerLost
  BY <1>7 DEF LootAnswerLost, Fault, redisVars, clientVars
<1>8. CASE LootExecuted
  BY <1>8 DEF LootExecuted, Batch, clientVars
<1>9. CASE LootAnswered
  BY <1>9, WrittenType DEF LootAnswered, redisVars, clientVars
<1>10. CASE UNCHANGED vars
  BY <1>10 DEF vars, redisVars, clientVars, saverVars
<1> QED
  BY <1>1, <1>2, <1>3, <1>4, <1>5, <1>6, <1>8, <1>9, <1>10, <1>7 DEF Next, Progress

-----------------------------------------------------------------------------
(* The list of dirty caches, and the answer to a looting.                   *)

LEMMA DirtyNext ==
    TypeOK /\ DirtyIsListed /\ BatchInFlight /\ [Next]_vars => DirtyIsListed' /\ BatchInFlight'
<1> SUFFICES ASSUME TypeOK, DirtyIsListed, BatchInFlight, [Next]_vars
             PROVE  DirtyIsListed' /\ BatchInFlight'
  OBVIOUS
<1> USE DEF DirtyIsListed, BatchInFlight
<1>1. ASSUME NEW c \in Client, Execute(c) PROVE DirtyIsListed' /\ BatchInFlight'
  <2> DEFINE cmd == queue[c][Len(served[c]) + 1]
  <2>1. cmd \in Command
    BY <1>1 DEF Execute, TypeOK
  <2>2. PICK answer \in Answers : Run(cmd, answer)
    BY <1>1 DEF Execute
  <2>3. BatchInFlight'
    BY <1>1 DEF Execute, saverVars
  <2> HIDE DEF cmd
  <2>4. ASSUME NEW state \in State \ {"Clean"}, NEW id \in Id,
               DS_H' = [DS_H EXCEPT ![id] = state], listed' = TRUE
        PROVE  DirtyIsListed'
    <3>1. DS_H'[id] # AllClean[id]
      BY <2>4 DEF TypeOK, AllClean
    <3> QED
      BY <2>4, <3>1
  <2>5. ASSUME NEW s \in {"Added", "Modified"}, cmd.op \in {"Add", "Update"}, Write(cmd, s)
        PROVE  DirtyIsListed'
    BY <2>1, <2>4, <2>5 DEF Write, Command, State
  <2>6. CASE cmd.op = "Remove" /\ RemoveField(cmd.id)
    BY <2>1, <2>3, <2>4, <2>6 DEF RemoveField, Command, State
  <2>7. CASE UNCHANGED <<DS_H, listed>>
    BY <2>3, <2>7
  <2>8. CASE ClearAll
    BY <2>3, <2>8 DEF ClearAll
  <2> QED
    BY <2>2, <2>3, <2>5, <2>6, <2>7, <2>8 DEF Run, redisVars
<1>2. ASSUME NEW c \in Client,
             (\E cmd \in Command : Send(c, cmd)) \/ Answer(c) \/ ClearExits(c)
               \/ ErrorResets(c) \/ Lose(c)
      PROVE  UNCHANGED <<redisVars, saverVars>>
  BY <1>2 DEF Send, Answer, ClearExits, ErrorResets, Lose
<1>3. CASE UNCHANGED <<redisVars, saverVars>>
  BY <1>3 DEF redisVars, saverVars
<1>4. CASE LootDirtyEntry \/ LootAnswered \/ LootAnswerLost
  BY <1>4 DEF LootDirtyEntry, LootAnswered, LootAnswerLost, redisVars
<1>5. CASE LootExecuted
  BY <1>5 DEF LootExecuted
<1> QED
  BY <1>1, <1>2, <1>3, <1>4, <1>5 DEF Next, Progress, vars

-----------------------------------------------------------------------------
(* The database.                                                            *)

LEMMA SavedNext == IInv /\ [Next]_vars => NothingForgotten'
<1> SUFFICES ASSUME IInv, [Next]_vars, ~lootLost' PROVE AfterSave' = truth'
  BY DEF NothingForgotten
<1> DEFINE base == Written(saved, batch)
<1>1. base \in Fields /\ D_H \in Fields /\ DS_H \in [Id -> State] /\ saved \in Fields
  BY WrittenType DEF IInv, TypeOK
<1>2. ~lootLost => AfterSave = truth
  BY DEF IInv, NothingForgotten
<1>3. ASSUME NEW c \in Client, Execute(c) PROVE AfterSave' = truth'
  <2> DEFINE cmd == queue[c][Len(served[c]) + 1]
  <2>1. cmd \in Command
    BY <1>3 DEF Execute, IInv, TypeOK
  <2>2. PICK answer \in Answers : Run(cmd, answer)
    BY <1>3 DEF Execute
  <2>3. AfterSave = truth /\ UNCHANGED <<saved, batch>>
    BY <1>2, <1>3 DEF Execute, saverVars
  <2> HIDE DEF cmd
  <2>4. CASE cmd.op \in {"Add", "Update"}
    <3>1. PICK s \in {"Added", "Modified"} : Write(cmd, s)
      BY <2>2, <2>4 DEF Run
    <3>2. cmd.id \in Id /\ cmd.value \in Value
      BY <2>1, <2>4 DEF Command
    <3>3. Written(base, [fields |-> D_H', states |-> DS_H'])
            = [Written(base, [fields |-> D_H, states |-> DS_H]) EXCEPT ![cmd.id] = cmd.value]
      <4> DEFINE f1 == D_H'
                 st1 == DS_H'
                 id == cmd.id
                 v == cmd.value
      <4>1. v \in Value \cup {None} /\ id \in Id
        BY <3>2
      <4>2. f1 = [D_H EXCEPT ![id] = v] /\ st1 = [DS_H EXCEPT ![id] = s]
        BY <3>1 DEF Write
      <4> HIDE DEF base, f1, st1, id, v
      <4>3. Written(base, [fields |-> f1, states |-> st1])
              = [Written(base, [fields |-> D_H, states |-> DS_H]) EXCEPT ![id] = v]
        BY <1>1, <4>1, <4>2 DEF Written, Fields, State
      <4> QED
        BY <4>3 DEF f1, st1, id, v
    <3> QED
      BY <2>3, <3>1, <3>3 DEF Write, AfterSave
  <2>5. CASE cmd.op = "Remove" /\ H[cmd.id] # None
    <3>1. RemoveField(cmd.id)
      BY <2>2, <2>5 DEF Run
    <3>2. cmd.id \in Id /\ H[cmd.id] \in Value \cup {None}
      BY <2>1, <2>5 DEF Command, IInv, TypeOK, Fields
    <3>3. Written(base, [fields |-> D_H', states |-> DS_H'])
            = [Written(base, [fields |-> D_H, states |-> DS_H]) EXCEPT ![cmd.id] = None]
      <4> DEFINE f1 == D_H'
                 st1 == DS_H'
                 id == cmd.id
                 v == H[id]
      <4>1. v \in Value \cup {None} /\ id \in Id
        BY <3>2
      <4>2. f1 = [D_H EXCEPT ![id] = v] /\ st1 = [DS_H EXCEPT ![id] = "Deleted"]
        BY <3>1 DEF RemoveField
      <4> HIDE DEF base, f1, st1, id, v
      <4>3. Written(base, [fields |-> f1, states |-> st1])
              = [Written(base, [fields |-> D_H, states |-> DS_H]) EXCEPT ![id] = None]
        BY <1>1, <4>1, <4>2 DEF Written, Fields, State
      <4> QED
        BY <4>3 DEF f1, st1, id, v
    <3> QED
      BY <2>3, <3>1, <3>3 DEF RemoveField, AfterSave
  <2>6. CASE UNCHANGED <<D_H, DS_H, truth>>
    BY <2>3, <2>6 DEF AfterSave
  <2>7. CASE Clearable /\ ClearAll
    <3>1. truth = base
      BY <1>1, <2>3, <2>7, CleanWrites DEF Clearable, AfterSave
    <3> QED
      BY <1>1, <2>3, <2>7, <3>1, CleanWrites DEF ClearAll, AfterSave
  <2> QED
    BY <2>1, <2>2, <2>4, <2>5, <2>6, <2>7 DEF Run, Command, redisVars
<1>4. CASE LootExecuted
  <2>1. ~lootLost /\ batch = NoBatch /\ base = saved
    BY <1>1, <1>4, CleanWrites DEF LootExecuted, IInv, BatchInFlight, NoBatch
  <2>2. CASE listed
    <3>1. AfterSave = Written(saved, batch')
      BY <1>4, <2>1, <2>2 DEF LootExecuted, AfterSave
    <3>2. AfterSave' = Written(saved, batch')
      <4>1. Written(saved, batch') \in Fields
        BY <1>1, <1>4, <2>2, WrittenType DEF LootExecuted, Batch
      <4> QED
        BY <1>4, <2>2, <4>1, CleanWrites DEF LootExecuted, AfterSave
    <3> QED
      BY <1>2, <1>4, <2>1, <3>1, <3>2 DEF LootExecuted
  <2>3. CASE ~listed
    BY <1>2, <1>4, <2>1, <2>3 DEF LootExecuted, AfterSave
  <2> QED
    BY <2>2, <2>3
<1>5. CASE LootAnswered
  <2>1. Written(saved', batch') = base
    BY <1>1, <1>5, CleanWrites DEF LootAnswered, NoBatch
  <2> QED
    BY <1>2, <1>5, <2>1 DEF LootAnswered, AfterSave, redisVars
<1>6. CASE LootAnswerLost
  BY <1>6 DEF LootAnswerLost
<1>7. CASE UNCHANGED <<redisVars, batch, saved, lootLost>>
  BY <1>2, <1>7 DEF AfterSave, redisVars
<1>8. ASSUME NEW c \in Client,
             (\E cmd \in Command : Send(c, cmd)) \/ Answer(c) \/ ClearExits(c)
               \/ ErrorResets(c) \/ Lose(c)
      PROVE  UNCHANGED <<redisVars, batch, saved, lootLost>>
  BY <1>8 DEF Send, Answer, ClearExits, ErrorResets, Lose, saverVars
<1>9. CASE LootDirtyEntry
  BY <1>7, <1>9 DEF LootDirtyEntry
<1> QED
  BY <1>3, <1>4, <1>5, <1>6, <1>7, <1>8, <1>9 DEF Next, Progress, vars, saverVars

-----------------------------------------------------------------------------
(* Theorems.                                                                *)

LEMMA IInvAlways == Spec => []IInv
<1>1. IInv /\ [Next]_vars => IInv'
  BY TypeNext, DirtyNext, SavedNext DEF IInv
<1> QED
  BY IInvInit, <1>1, PTL DEF Spec

(* Every variable keeps its type; the answers of a client never outnumber the commands
   it waits for, through executions, losses, errors and exits. *)
THEOREM CacheTypeCorrect == Spec => []TypeOK
<1>1. IInv => TypeOK
  BY DEF IInv
<1> QED
  BY IInvAlways, <1>1, PTL

(* The saver is told of a cache exactly as long as one of its fields is dirty,
   whatever scripts of whatever clients interleave. *)
THEOREM AlwaysDirtyIsListed == Spec => []DirtyIsListed
<1>1. IInv => DirtyIsListed
  BY DEF IInv
<1> QED
  BY IInvAlways, <1>1, PTL

(* As long as no answer to a looting is lost, database, looted batch and dirty tables
   together hold every change any client has made, for any number of clients, of
   commands executed again and of clearings. *)
THEOREM AlwaysNothingForgotten == Spec => []NothingForgotten
<1>1. IInv => NothingForgotten
  BY DEF IInv
<1> QED
  BY IInvAlways, <1>1, PTL

=============================================================================
