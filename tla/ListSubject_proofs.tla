-------------------------- MODULE ListSubject_proofs --------------------------
(***************************************************************************)
(* Proofs about the observers of a list, for any number of them, of direct *)
(* subscribers, of commands and of messages.                               *)
(***************************************************************************)
EXTENDS ListSubject, CmdPipeline_proofs

(* Each observer has one registration, and those not deleted are the observers that
   have attached. *)
Registered ==
    /\ \A i, j \in DOMAIN regs : regs[i].regid = regs[j].regid => i = j
    /\ \A i \in DOMAIN regs : ~regs[i].deleted => regs[i].regid \in wants
    /\ \A r \in wants : \E i \in DOMAIN regs : regs[i].regid = r /\ ~regs[i].deleted

(* What the server will think when it has executed the commands. *)
ServerFollows ==
    /\ commands = <<>> => (subscribed <=> counter > 0)
    /\ commands # <<>> => (commands[Len(commands)] = "SUBSCRIBE" <=> counter > 0)

(* Up to where the loop has been. *)
Reach == IF running THEN pos + 1 ELSE pos
Reached(i) == i < Reach

LoopInv ==
    /\ owed \subseteq wants
    /\ ~Dispatching => calls = <<>> /\ owed = {}
    /\ \A k \in DOMAIN calls : \E i \in DOMAIN regs : Reached(i) /\ regs[i].regid = calls[k]
    /\ \A k, l \in DOMAIN calls : calls[k] = calls[l] => k = l
    /\ \A i \in DOMAIN regs : Reached(i) /\ regs[i].regid \in owed =>
          \E k \in DOMAIN calls : calls[k] = regs[i].regid

IInv == TypeOK /\ Registered /\ CountsEveryone /\ ServerFollows /\ LoopInv

-----------------------------------------------------------------------------
(* The counter and the server's view of it.                                 *)

(* Subscribe() counts one more, and leaves the server knowing. *)
LEMMA SubscribeCounts ==
    ASSUME TypeOK, ServerFollows, Subscribe, subscribed' = subscribed
    PROVE  /\ counter' = counter + 1
           /\ commands' \in Seq({"SUBSCRIBE", "UNSUBSCRIBE"})
           /\ ServerFollows'
<1>1. counter \in Nat /\ commands \in Seq({"SUBSCRIBE", "UNSUBSCRIBE"})
  BY DEF TypeOK
<1>2. CASE counter = 0
  <2>1. commands' = Append(commands, "SUBSCRIBE") /\ counter' = 1
    BY <1>2 DEF Subscribe, CommandSent
  <2>2. commands' # <<>> /\ commands'[Len(commands')] = "SUBSCRIBE"
    BY <1>1, <2>1
  <2> QED
    BY <1>1, <1>2, <2>1, <2>2 DEF ServerFollows
<1>3. CASE counter # 0
  <2>1. commands' = commands /\ counter' = counter + 1
    BY <1>3 DEF Subscribe
  <2>2. (counter' > 0) = TRUE /\ (counter > 0) = TRUE
    BY <1>1, <1>3, <2>1
  <2> QED
    BY <1>1, <2>1, <2>2 DEF ServerFollows
<1> QED
  BY <1>2, <1>3

(* Unsubscribe() of a channel that someone wants counts one less, and leaves the server
   knowing. *)
LEMMA UnsubscribeCounts ==
    ASSUME TypeOK, ServerFollows, Unsubscribe, counter > 0, subscribed' = subscribed
    PROVE  /\ counter' = counter - 1 /\ counter' \in Nat
           /\ commands' \in Seq({"SUBSCRIBE", "UNSUBSCRIBE"})
           /\ ServerFollows'
<1>1. counter \in Nat /\ commands \in Seq({"SUBSCRIBE", "UNSUBSCRIBE"})
  BY DEF TypeOK
<1>2. counter' = counter - 1 /\ counter' \in Nat
  BY <1>1 DEF Unsubscribe
<1>3. CASE counter = 1
  <2>1. commands' = Append(commands, "UNSUBSCRIBE") /\ counter' = 0
    BY <1>3 DEF Unsubscribe, CommandSent
  <2>2. commands' # <<>> /\ commands'[Len(commands')] # "SUBSCRIBE"
    BY <1>1, <2>1
  <2> QED
    BY <1>1, <1>2, <2>1, <2>2 DEF ServerFollows
<1>4. CASE counter # 1
  <2>1. commands' = commands
    BY <1>4 DEF Unsubscribe
  <2>2. (counter' > 0) = TRUE /\ (counter > 0) = TRUE
    BY <1>1, <1>2, <1>4
  <2> QED
    BY <1>1, <1>2, <2>1, <2>2 DEF ServerFollows
<1> QED
  BY <1>3, <1>4

(* Sets of observers are finite. *)
LEMMA WantsFinite ==
    ASSUME TypeOK
    PROVE  IsFiniteSet(wants) /\ Cardinality(wants) \in Nat
BY RegIdAssumption, FS_Subset, FS_CardinalityType DEF TypeOK

-----------------------------------------------------------------------------
(* Callers.                                                                 *)

(* AttachObserver() keeps the invariant. *)
LEMMA AttachKeeps ==
    ASSUME IInv, NEW r \in RegId, AttachObserver(r)
    PROVE  IInv'
<1> USE DEF IInv
<1>1. /\ regs \in Seq(Reg) /\ Len(regs) \in Nat /\ DOMAIN regs = 1 .. Len(regs)
      /\ pos \in Nat
  BY DEF TypeOK
<1>2. /\ wants' = wants \cup {r}
      /\ owed' = owed /\ pos' = pos /\ running' = running /\ calls' = calls
      /\ observable' = observable /\ inbox' = inbox /\ others' = others
      /\ subscribed' = subscribed /\ published' = published
  BY DEF AttachObserver, dispatchVars, serverVars
<1>3. CASE ~Known(r)
  <2>1. ~Dispatching /\ regs' = Append(regs, [regid |-> r, deleted |-> FALSE]) /\ Subscribe
    BY <1>3 DEF AttachObserver, Known
  <2>2. r \notin wants
    BY <1>3 DEF Known, Registered
  <2>3. /\ regs' \in Seq(Reg) /\ Len(regs') = Len(regs) + 1 /\ DOMAIN regs' = 1 .. Len(regs) + 1
        /\ \A i \in DOMAIN regs : regs'[i] = regs[i]
        /\ regs'[Len(regs) + 1] = [regid |-> r, deleted |-> FALSE]
    <3>1. [regid |-> r, deleted |-> FALSE] \in Reg
      BY DEF Reg
    <3> QED
      BY <1>1, <2>1, <3>1
  <2>4. counter' = counter + 1 /\ commands' \in Seq({"SUBSCRIBE", "UNSUBSCRIBE"}) /\ ServerFollows'
    BY <1>2, <2>1, SubscribeCounts
  <2>5. CountsEveryone'
    <3>1. Cardinality(wants') = Cardinality(wants) + 1
      BY <1>2, <2>2, WantsFinite, FS_AddElement
    <3> QED
      BY <1>2, <2>4, <3>1, WantsFinite DEF CountsEveryone, TypeOK
  <2>6. Registered'
    <3>1. \A i \in DOMAIN regs : regs[i].regid # r
      BY <1>3 DEF Known
    <3>2. \A i, j \in DOMAIN regs' : regs'[i].regid = regs'[j].regid => i = j
      BY <1>1, <2>3, <3>1 DEF Registered
    <3>3. \A i \in DOMAIN regs' : ~regs'[i].deleted => regs'[i].regid \in wants'
      BY <1>1, <1>2, <2>3 DEF Registered
    <3>4. \A x \in wants' : \E i \in DOMAIN regs' : regs'[i].regid = x /\ ~regs'[i].deleted
      BY <1>1, <1>2, <2>3 DEF Registered
    <3> QED
      BY <3>2, <3>3, <3>4 DEF Registered
  <2>7. LoopInv'
    <3>1. calls = <<>> /\ owed = {} /\ pos = 0
      BY <2>1 DEF LoopInv, Dispatching
    <3> QED
      BY <1>2, <3>1 DEF LoopInv, Dispatching
  <2>8. TypeOK'
    <3>1. running = FALSE
      BY <1>1, <2>1 DEF TypeOK, Dispatching
    <3>2. counter' \in Nat
      BY <2>4 DEF TypeOK
    <3> QED
      BY <1>2, <2>3, <2>4, <3>1, <3>2 DEF TypeOK
  <2> QED
    BY <2>4, <2>5, <2>6, <2>7, <2>8
<1>4. CASE Known(r)
  <2>1. PICK i \in DOMAIN regs :
          /\ regs[i].regid = r
          /\ regs' = [regs EXCEPT ![i].deleted = FALSE]
          /\ IF regs[i].deleted THEN Subscribe ELSE UNCHANGED <<counter, commands>>
    BY <1>4 DEF AttachObserver
  <2>2. /\ regs' \in Seq(Reg) /\ Len(regs') = Len(regs) /\ DOMAIN regs' = DOMAIN regs
        /\ \A j \in DOMAIN regs : regs'[j].regid = regs[j].regid
        /\ \A j \in DOMAIN regs : j # i => regs'[j] = regs[j]
        /\ ~regs'[i].deleted
    <3>1. regs[i] \in Reg
      BY <1>1
    <3>2. \A j \in DOMAIN regs : j # i => regs'[j] = regs[j]
      BY <2>1
    <3>3. regs'[i] = [regs[i] EXCEPT !.deleted = FALSE]
      BY <2>1
    <3>4. regs'[i] \in Reg /\ regs'[i].regid = regs[i].regid
      BY <3>1, <3>3 DEF Reg
    <3>5. ~regs'[i].deleted
      BY <3>1, <3>3 DEF Reg
    <3>6. \A j \in DOMAIN regs : regs'[j] \in Reg /\ regs'[j].regid = regs[j].regid
      BY <1>1, <3>2, <3>4
    <3>7. regs' \in Seq(Reg) /\ Len(regs') = Len(regs) /\ DOMAIN regs' = DOMAIN regs
      <4>1. regs' = [j \in 1 .. Len(regs) |-> regs'[j]]
        BY <1>1, <2>1
      <4> QED
        BY <1>1, <3>6, <4>1, IsASeq
    <3> QED
      BY <3>2, <3>5, <3>6, <3>7
  <2>3. Registered'
    <3>1. \A j, k \in DOMAIN regs' : regs'[j].regid = regs'[k].regid => j = k
      BY <2>2 DEF Registered
    <3>2. \A j \in DOMAIN regs' : ~regs'[j].deleted => regs'[j].regid \in wants'
      BY <1>2, <2>1, <2>2 DEF Registered
    <3>3. \A x \in wants' : \E j \in DOMAIN regs' : regs'[j].regid = x /\ ~regs'[j].deleted
      BY <1>2, <2>1, <2>2 DEF Registered
    <3> QED
      BY <3>1, <3>2, <3>3 DEF Registered
  <2>4. LoopInv'
    BY <1>2, <2>2 DEF LoopInv, Dispatching, Reach, Reached
  <2>5. CASE regs[i].deleted
    <3>1. r \notin wants
      BY <2>1, <2>5 DEF Registered
    <3>2. counter' = counter + 1 /\ commands' \in Seq({"SUBSCRIBE", "UNSUBSCRIBE"}) /\ ServerFollows'
      BY <1>2, <2>1, <2>5, SubscribeCounts
    <3>3. Cardinality(wants') = Cardinality(wants) + 1
      BY <1>2, <3>1, WantsFinite, FS_AddElement
    <3>4. CountsEveryone'
      BY <1>2, <3>2, <3>3, WantsFinite DEF CountsEveryone, TypeOK
    <3>5. counter' \in Nat
      BY <3>2 DEF TypeOK
    <3>6. TypeOK'
      BY <1>2, <2>2, <3>2, <3>5 DEF TypeOK
    <3> QED
      BY <2>3, <2>4, <3>2, <3>4, <3>6
  <2>6. CASE ~regs[i].deleted
    <3>1. wants' = wants
      BY <1>2, <2>1, <2>6 DEF Registered
    <3>2. counter' = counter /\ commands' = commands
      BY <2>1, <2>6
    <3>3. CountsEveryone' /\ ServerFollows'
      BY <1>2, <3>1, <3>2 DEF CountsEveryone, ServerFollows
    <3>4. TypeOK'
      BY <1>2, <2>2, <3>1, <3>2 DEF TypeOK
    <3> QED
      BY <2>3, <2>4, <3>3, <3>4
  <2> QED
    BY <2>5, <2>6
<1> QED
  BY <1>3, <1>4

(* DetachObserver() keeps the invariant. *)
LEMMA DetachKeeps ==
    ASSUME IInv, NEW r \in RegId, DetachObserver(r)
    PROVE  IInv'
<1> USE DEF IInv
<1>1. /\ regs \in Seq(Reg) /\ Len(regs) \in Nat /\ DOMAIN regs = 1 .. Len(regs)
      /\ pos \in Nat
  BY DEF TypeOK
<1>2. /\ r \in wants /\ wants' = wants \ {r} /\ owed' = owed \ {r}
      /\ pos' = pos /\ running' = running /\ calls' = calls
      /\ observable' = observable /\ inbox' = inbox /\ others' = others
      /\ subscribed' = subscribed /\ published' = published
  BY DEF DetachObserver, dispatchVars, serverVars
<1>3. PICK i \in DOMAIN regs : regs[i].regid = r /\ regs' = [regs EXCEPT ![i].deleted = TRUE]
  BY DEF DetachObserver
<1>4. /\ regs' \in Seq(Reg) /\ Len(regs') = Len(regs) /\ DOMAIN regs' = DOMAIN regs
      /\ \A j \in DOMAIN regs : regs'[j].regid = regs[j].regid
      /\ \A j \in DOMAIN regs : j # i => regs'[j] = regs[j]
      /\ regs'[i].deleted
  <2>1. regs[i] \in Reg
    BY <1>1
  <2>2. \A j \in DOMAIN regs : j # i => regs'[j] = regs[j]
    BY <1>3
  <2>3. regs'[i] = [regs[i] EXCEPT !.deleted = TRUE]
    BY <1>3
  <2>4. regs'[i] \in Reg /\ regs'[i].regid = regs[i].regid
    BY <2>1, <2>3 DEF Reg
  <2>5. regs'[i].deleted
    BY <2>1, <2>3 DEF Reg
  <2>6. \A j \in DOMAIN regs : regs'[j] \in Reg /\ regs'[j].regid = regs[j].regid
    BY <1>1, <2>2, <2>4
  <2>7. regs' \in Seq(Reg) /\ Len(regs') = Len(regs) /\ DOMAIN regs' = DOMAIN regs
    <3>1. regs' = [j \in 1 .. Len(regs) |-> regs'[j]]
      BY <1>1, <1>3
    <3> QED
      BY <1>1, <2>6, <3>1, IsASeq
  <2> QED
    BY <2>2, <2>5, <2>6, <2>7
<1>5. Registered'
  <2>1. \A j, k \in DOMAIN regs' : regs'[j].regid = regs'[k].regid => j = k
    BY <1>4 DEF Registered
  <2>2. \A j \in DOMAIN regs' : ~regs'[j].deleted => regs'[j].regid \in wants'
    BY <1>2, <1>3, <1>4 DEF Registered
  <2>3. \A x \in wants' : \E j \in DOMAIN regs' : regs'[j].regid = x /\ ~regs'[j].deleted
    BY <1>2, <1>3, <1>4 DEF Registered
  <2> QED
    BY <2>1, <2>2, <2>3 DEF Registered
<1>6. LoopInv'
  <2>1. owed' \subseteq wants' /\ (~Dispatching' => calls' = <<>> /\ owed' = {})
    BY <1>2 DEF LoopInv, Dispatching
  <2>2. \A k \in DOMAIN calls' : \E j \in DOMAIN regs' : Reached(j)' /\ regs'[j].regid = calls'[k]
    BY <1>2, <1>4 DEF LoopInv, Reach, Reached
  <2>3. \A k, l \in DOMAIN calls' : calls'[k] = calls'[l] => k = l
    BY <1>2 DEF LoopInv
  <2>4. \A j \in DOMAIN regs' : Reached(j)' /\ regs'[j].regid \in owed' =>
          \E k \in DOMAIN calls' : calls'[k] = regs'[j].regid
    BY <1>2, <1>4 DEF LoopInv, Reach, Reached
  <2> QED
    BY <2>1, <2>2, <2>3, <2>4 DEF LoopInv
<1>7. Cardinality(wants') = Cardinality(wants) - 1 /\ Cardinality(wants) > 0
  <2>1. Cardinality(wants') = Cardinality(wants) - 1
    BY <1>2, WantsFinite, FS_RemoveElement
  <2>2. Cardinality(wants) # 0
    BY <1>2, WantsFinite, FS_EmptySet
  <2> QED
    BY <2>1, <2>2, WantsFinite
<1>8. counter > 0
  BY <1>7, WantsFinite DEF CountsEveryone, TypeOK
<1>9. /\ counter' = counter - 1 /\ counter' \in Nat
      /\ commands' \in Seq({"SUBSCRIBE", "UNSUBSCRIBE"}) /\ ServerFollows'
  BY <1>2, <1>8, UnsubscribeCounts DEF DetachObserver
<1>10. CountsEveryone'
  BY <1>2, <1>7, <1>9, WantsFinite DEF CountsEveryone, TypeOK
<1>11. TypeOK'
  BY <1>2, <1>4, <1>9 DEF TypeOK
<1> QED
  BY <1>5, <1>6, <1>9, <1>10, <1>11

(* So do those who subscribe directly. *)
LEMMA OthersKeep ==
    ASSUME IInv, OtherSubscribes \/ OtherUnsubscribes
    PROVE  IInv'
<1> USE DEF IInv
<1>1. /\ regs' = regs /\ wants' = wants /\ owed' = owed
      /\ pos' = pos /\ running' = running /\ calls' = calls
      /\ observable' = observable /\ inbox' = inbox
      /\ subscribed' = subscribed /\ published' = published
  BY DEF OtherSubscribes, OtherUnsubscribes, dispatchVars, serverVars
<1>2. Registered' /\ LoopInv'
  BY <1>1 DEF Registered, LoopInv, Dispatching, Reach, Reached
<1>3. others \in Nat /\ counter \in Nat
  BY DEF TypeOK
<1>4. CASE OtherSubscribes
  <2>1. counter' = counter + 1 /\ commands' \in Seq({"SUBSCRIBE", "UNSUBSCRIBE"}) /\ ServerFollows'
    BY <1>1, <1>4, SubscribeCounts DEF OtherSubscribes
  <2>2. others' = others + 1
    BY <1>4 DEF OtherSubscribes
  <2>3. CountsEveryone' /\ others' \in Nat /\ counter' \in Nat
    BY <1>1, <1>3, <2>1, <2>2, WantsFinite DEF CountsEveryone
  <2>4. TypeOK'
    BY <1>1, <2>1, <2>3 DEF TypeOK
  <2> QED
    BY <1>2, <2>1, <2>3, <2>4
<1>5. CASE OtherUnsubscribes
  <2>1. others > 0 /\ others' = others - 1
    BY <1>5 DEF OtherUnsubscribes
  <2>2. counter > 0
    BY <1>3, <2>1, WantsFinite DEF CountsEveryone
  <2>3. /\ counter' = counter - 1 /\ counter' \in Nat
        /\ commands' \in Seq({"SUBSCRIBE", "UNSUBSCRIBE"}) /\ ServerFollows'
    BY <1>1, <1>5, <2>2, UnsubscribeCounts DEF OtherUnsubscribes
  <2>4. CountsEveryone' /\ others' \in Nat
    BY <1>1, <1>3, <2>1, <2>3, WantsFinite DEF CountsEveryone
  <2>5. TypeOK'
    BY <1>1, <2>3, <2>4 DEF TypeOK
  <2> QED
    BY <1>2, <2>3, <2>4, <2>5
<1> QED
  BY <1>4, <1>5

-----------------------------------------------------------------------------
(* The loop.                                                                *)

(* DispatchBegins keeps the invariant. *)
LEMMA BeginKeeps ==
    ASSUME IInv, DispatchBegins
    PROVE  IInv'
<1> USE DEF IInv
<1>1. /\ regs' = regs /\ observable' = observable /\ counter' = counter /\ commands' = commands
      /\ running' = running /\ others' = others /\ wants' = wants
      /\ subscribed' = subscribed /\ published' = published
      /\ ~Dispatching /\ inbox' = inbox - 1 /\ inbox > 0
  BY DEF DispatchBegins, callerVars, serverVars
<1>2. Registered' /\ CountsEveryone' /\ ServerFollows'
  BY <1>1 DEF Registered, CountsEveryone, ServerFollows
<1>3. calls = <<>> /\ owed = {} /\ pos = 0 /\ ~running
  BY <1>1 DEF LoopInv, Dispatching, TypeOK
<1>4. CASE observable /\ regs # <<>>
  <2>1. pos' = 1 /\ calls' = <<>> /\ owed' = wants
    BY <1>4 DEF DispatchBegins
  <2>2. \A i \in DOMAIN regs' : ~Reached(i)'
    <3>1. DOMAIN regs = 1 .. Len(regs)
      BY DEF TypeOK
    <3>2. Reach' = 1
      BY <1>1, <1>3, <2>1 DEF Reach
    <3> QED
      BY <1>1, <3>1, <3>2 DEF Reached
  <2>3. LoopInv'
    BY <1>1, <2>1, <2>2 DEF LoopInv, Dispatching
  <2>4. TypeOK'
    BY <1>1, <1>3, <2>1 DEF TypeOK
  <2> QED
    BY <1>2, <2>3, <2>4
<1>5. CASE ~(observable /\ regs # <<>>)
  <2>1. UNCHANGED <<pos, calls, owed>>
    BY <1>5 DEF DispatchBegins
  <2>2. LoopInv' /\ TypeOK'
    BY <1>1, <2>1 DEF LoopInv, Dispatching, Reach, Reached, TypeOK
  <2> QED
    BY <1>2, <2>2
<1> QED
  BY <1>4, <1>5

(* CallsNext keeps the invariant: the one called has not been called before, since each
   observer has one registration. *)
LEMMA CallKeeps ==
    ASSUME IInv, CallsNext
    PROVE  IInv'
<1> USE DEF IInv
<1>1. /\ regs' = regs /\ observable' = observable /\ counter' = counter /\ commands' = commands
      /\ inbox' = inbox /\ owed' = owed /\ others' = others /\ wants' = wants
      /\ subscribed' = subscribed /\ published' = published
      /\ Dispatching /\ ~running /\ pos <= Len(regs)
  BY DEF CallsNext, callerVars, serverVars
<1>2. Registered' /\ CountsEveryone' /\ ServerFollows'
  BY <1>1 DEF Registered, CountsEveryone, ServerFollows
<1>3. /\ pos \in DOMAIN regs /\ pos \in Nat /\ DOMAIN regs = 1 .. Len(regs) /\ Len(regs) \in Nat
      /\ regs[pos] \in Reg /\ calls \in Seq(RegId)
  BY <1>1 DEF TypeOK, Dispatching
<1>4. CASE regs[pos].deleted
  <2>1. pos' = pos + 1 /\ running' = running /\ calls' = calls
    BY <1>4 DEF CallsNext
  <2>2. \A i \in DOMAIN regs : Reached(i)' <=> Reached(i) \/ i = pos
    <3>1. Reach = pos /\ Reach' = pos + 1
      BY <1>1, <2>1 DEF Reach
    <3> QED
      BY <1>3, <3>1 DEF Reached
  <2>3. regs[pos].regid \notin owed
    BY <1>3, <1>4 DEF Registered, LoopInv
  <2>4. LoopInv'
    <3>1. owed' \subseteq wants' /\ Dispatching'
      BY <1>1, <1>3, <2>1 DEF LoopInv, Dispatching
    <3>2. \A k \in DOMAIN calls' : \E i \in DOMAIN regs' : Reached(i)' /\ regs'[i].regid = calls'[k]
      BY <1>1, <2>1, <2>2 DEF LoopInv
    <3>3. \A k, l \in DOMAIN calls' : calls'[k] = calls'[l] => k = l
      BY <2>1 DEF LoopInv
    <3>4. \A i \in DOMAIN regs' : Reached(i)' /\ regs'[i].regid \in owed' =>
            \E k \in DOMAIN calls' : calls'[k] = regs'[i].regid
      BY <1>1, <2>1, <2>2, <2>3 DEF LoopInv
    <3> QED
      BY <3>1, <3>2, <3>3, <3>4 DEF LoopInv
  <2>5. TypeOK'
    BY <1>1, <1>3, <2>1 DEF TypeOK
  <2> QED
    BY <1>2, <2>4, <2>5
<1>5. CASE ~regs[pos].deleted
  <2>1. running' = TRUE /\ pos' = pos /\ calls' = Append(calls, regs[pos].regid)
    BY <1>5 DEF CallsNext
  <2>2. \A i \in DOMAIN regs : Reached(i)' <=> Reached(i) \/ i = pos
    <3>1. Reach = pos /\ Reach' = pos + 1
      BY <1>1, <2>1 DEF Reach
    <3> QED
      BY <1>3, <3>1 DEF Reached
  <2>3. ~Reached(pos)
    <3>1. Reach = pos
      BY <1>1 DEF Reach
    <3> QED
      BY <1>3, <3>1 DEF Reached
  <2>4. regs[pos].regid \in RegId
    BY <1>3 DEF Reg
  <2>5. /\ Len(calls) \in Nat /\ DOMAIN calls = 1 .. Len(calls)
        /\ calls' \in Seq(RegId) /\ DOMAIN calls' = 1 .. Len(calls) + 1
        /\ \A k \in DOMAIN calls : calls'[k] = calls[k]
        /\ calls'[Len(calls) + 1] = regs[pos].regid
    BY <1>3, <2>1, <2>4
  <2>6. \A k \in DOMAIN calls : calls[k] # regs[pos].regid
    BY <1>3, <2>3 DEF LoopInv, Registered
  <2>7. \A k \in DOMAIN calls' : \E i \in DOMAIN regs' : Reached(i)' /\ regs'[i].regid = calls'[k]
    <3>1. ASSUME NEW k \in DOMAIN calls
          PROVE  \E i \in DOMAIN regs' : Reached(i)' /\ regs'[i].regid = calls'[k]
      BY <1>1, <2>2, <2>5 DEF LoopInv
    <3>2. \E i \in DOMAIN regs' : Reached(i)' /\ regs'[i].regid = calls'[Len(calls) + 1]
      <4>1. PICK p \in DOMAIN regs : p = pos
        BY <1>3
      <4>2. Reached(p)' /\ regs'[p].regid = calls'[Len(calls) + 1]
        BY <1>1, <2>2, <2>5, <4>1
      <4> QED
        BY <1>1, <4>2
    <3>3. \A k \in DOMAIN calls' : k \in DOMAIN calls \/ k = Len(calls) + 1
      BY <2>5
    <3> QED
      BY <3>1, <3>2, <3>3
  <2>8. \A k, l \in DOMAIN calls' : calls'[k] = calls'[l] => k = l
    <3>1. \A k \in DOMAIN calls' : k \in DOMAIN calls \/ k = Len(calls) + 1
      BY <2>5
    <3> QED
      BY <2>5, <2>6, <3>1 DEF LoopInv
  <2>9. \A i \in DOMAIN regs' : Reached(i)' /\ regs'[i].regid \in owed' =>
          \E k \in DOMAIN calls' : calls'[k] = regs'[i].regid
    <3>1. ASSUME NEW i \in DOMAIN regs, Reached(i), regs[i].regid \in owed
          PROVE  \E k \in DOMAIN calls' : calls'[k] = regs[i].regid
      <4>1. PICK k \in DOMAIN calls : calls[k] = regs[i].regid
        BY <3>1 DEF LoopInv
      <4>2. k \in DOMAIN calls' /\ calls'[k] = regs[i].regid
        BY <2>5, <4>1
      <4> QED
        BY <4>2
    <3>2. Len(calls) + 1 \in DOMAIN calls' /\ calls'[Len(calls) + 1] = regs[pos].regid
      BY <2>5
    <3> QED
      BY <1>1, <2>2, <3>1, <3>2
  <2>10. LoopInv'
    BY <1>1, <2>1, <2>7, <2>8, <2>9 DEF LoopInv, Dispatching
  <2>11. TypeOK'
    BY <1>1, <1>3, <2>1, <2>5 DEF TypeOK
  <2> QED
    BY <1>2, <2>10, <2>11
<1> QED
  BY <1>4, <1>5

(* CallbackReturns keeps the invariant. *)
LEMMA ReturnKeeps ==
    ASSUME IInv, CallbackReturns
    PROVE  IInv'
<1> USE DEF IInv
<1>1. /\ regs' = regs /\ observable' = observable /\ counter' = counter /\ commands' = commands
      /\ inbox' = inbox /\ owed' = owed /\ calls' = calls /\ others' = others /\ wants' = wants
      /\ subscribed' = subscribed /\ published' = published
      /\ running /\ running' = FALSE /\ pos' = pos + 1
  BY DEF CallbackReturns, callerVars, serverVars
<1>2. Registered' /\ CountsEveryone' /\ ServerFollows'
  BY <1>1 DEF Registered, CountsEveryone, ServerFollows
<1>3. pos \in DOMAIN regs /\ pos \in Nat /\ DOMAIN regs = 1 .. Len(regs)
  BY <1>1 DEF TypeOK
<1>4. \A i \in DOMAIN regs : Reached(i)' <=> Reached(i)
  BY <1>1 DEF Reach, Reached
<1>5. Dispatching /\ Dispatching'
  BY <1>1, <1>3 DEF Dispatching
<1>6. LoopInv'
  BY <1>1, <1>4, <1>5 DEF LoopInv
<1>7. pos' \in Nat
  BY <1>1, <1>3
<1>8. TypeOK'
  BY <1>1, <1>7 DEF TypeOK
<1> QED
  BY <1>2, <1>6, <1>8

(* DispatchEnds keeps the invariant: what it erases has no observer. *)
LEMMA EndKeeps ==
    ASSUME IInv, DispatchEnds
    PROVE  IInv'
<1> USE DEF IInv
<1> DEFINE kept == Positions(regs, LAMBDA reg : ~reg.deleted)
<1>1. /\ observable' = observable /\ counter' = counter /\ commands' = commands
      /\ inbox' = inbox /\ running' = running /\ others' = others /\ wants' = wants
      /\ subscribed' = subscribed /\ published' = published
      /\ pos' = 0 /\ calls' = <<>> /\ owed' = {} /\ ~running
  BY DEF DispatchEnds, callerVars, serverVars
<1>2. CountsEveryone' /\ ServerFollows'
  BY <1>1 DEF CountsEveryone, ServerFollows
<1>3. kept \in SUBSET DOMAIN regs /\ \A i \in DOMAIN regs : i \in kept <=> ~regs[i].deleted
  BY DEF Positions
<1>4. regs' = Selected(regs, kept)
  BY DEF DispatchEnds
<1>5. regs \in Seq(Reg)
  BY DEF TypeOK
<1> HIDE DEF kept
<1>6. regs' \in Seq(Reg)
  BY <1>3, <1>4, <1>5, SelectedType
<1>7. /\ \A i \in kept : \E k \in DOMAIN regs' : regs'[k] = regs[i]
      /\ \A k \in DOMAIN regs' : \E i \in kept : regs'[k] = regs[i] /\ Rank(kept, i) = k
  BY <1>3, <1>4, <1>5, SelectedMembers
<1>8. Registered'
  <2>1. \A i, j \in DOMAIN regs' : regs'[i].regid = regs'[j].regid => i = j
    <3> SUFFICES ASSUME NEW i \in DOMAIN regs', NEW j \in DOMAIN regs',
                        regs'[i].regid = regs'[j].regid
                 PROVE  i = j
      OBVIOUS
    <3>1. PICK a \in kept : regs'[i] = regs[a] /\ Rank(kept, a) = i
      BY <1>7
    <3>2. PICK b \in kept : regs'[j] = regs[b] /\ Rank(kept, b) = j
      BY <1>7
    <3>3. a = b
      BY <1>3, <3>1, <3>2 DEF Registered
    <3> QED
      BY <3>1, <3>2, <3>3
  <2>2. \A i \in DOMAIN regs' : ~regs'[i].deleted => regs'[i].regid \in wants'
    BY <1>1, <1>3, <1>7 DEF Registered
  <2>3. \A r \in wants' : \E i \in DOMAIN regs' : regs'[i].regid = r /\ ~regs'[i].deleted
    <3> SUFFICES ASSUME NEW r \in wants
                 PROVE  \E i \in DOMAIN regs' : regs'[i].regid = r /\ ~regs'[i].deleted
      BY <1>1
    <3>1. PICK i \in DOMAIN regs : regs[i].regid = r /\ ~regs[i].deleted
      BY DEF Registered
    <3> QED
      BY <1>3, <1>7, <3>1
  <2> QED
    BY <2>1, <2>2, <2>3 DEF Registered
<1>9. LoopInv'
  BY <1>1 DEF LoopInv, Dispatching
<1>10. TypeOK'
  BY <1>1, <1>6 DEF TypeOK
<1> QED
  BY <1>2, <1>8, <1>9, <1>10

-----------------------------------------------------------------------------
(* The inductive invariant.                                                 *)

(* It holds initially. *)
LEMMA IInvInit == Init => IInv
<1> SUFFICES ASSUME Init PROVE IInv
  OBVIOUS
<1>1. Cardinality({}) = 0
  BY FS_EmptySet
<1>2. TypeOK
  <2>1. <<>> \in Seq(Reg) /\ <<>> \in Seq(RegId) /\ <<>> \in Seq({"SUBSCRIBE", "UNSUBSCRIBE"})
    OBVIOUS
  <2>2. 0 \in Nat /\ {} \subseteq RegId /\ FALSE \in BOOLEAN
    OBVIOUS
  <2>3. running = FALSE /\ (running => pos \in DOMAIN regs)
    BY DEF Init
  <2> QED
    BY <2>1, <2>2, <2>3 DEF Init, TypeOK
<1>3. Registered /\ ServerFollows /\ LoopInv
  BY DEF Init, Registered, ServerFollows, LoopInv, Dispatching
<1>4. CountsEveryone
  BY <1>1 DEF Init, CountsEveryone
<1> QED
  BY <1>2, <1>3, <1>4 DEF IInv

(* Every step keeps it. *)
LEMMA IInvNext == IInv /\ [Next]_vars => IInv'
<1> SUFFICES ASSUME IInv, [Next]_vars PROVE IInv'
  OBVIOUS
<1>1. CASE UNCHANGED vars
  BY <1>1 DEF vars, callerVars, dispatchVars, serverVars, IInv, TypeOK, Registered,
              CountsEveryone, ServerFollows, LoopInv, Dispatching, Reach, Reached
<1>2. ASSUME NEW flag \in BOOLEAN, SetObservable(flag) PROVE IInv'
  BY <1>2 DEF SetObservable, callerVars, dispatchVars, serverVars, IInv, TypeOK, Registered,
              CountsEveryone, ServerFollows, LoopInv, Dispatching, Reach, Reached
<1>3. ASSUME NEW r \in RegId, AttachObserver(r) PROVE IInv'
  BY <1>3, AttachKeeps
<1>4. ASSUME NEW r \in RegId, DetachObserver(r) PROVE IInv'
  BY <1>4, DetachKeeps
<1>5. CASE OtherSubscribes \/ OtherUnsubscribes
  BY <1>5, OthersKeep
<1>6. CASE DispatchBegins
  BY <1>6, BeginKeeps
<1>7. CASE CallsNext
  BY <1>7, CallKeeps
<1>8. CASE CallbackReturns
  BY <1>8, ReturnKeeps
<1>9. CASE DispatchEnds
  BY <1>9, EndKeeps
<1>10. CASE ServerExecutes
  <2>1. /\ commands # <<>> /\ commands' = Tail(commands)
        /\ subscribed' = (Head(commands) = "SUBSCRIBE")
        /\ UNCHANGED <<regs, observable, counter, inbox, owed, published, others, wants,
                       pos, running, calls>>
    BY <1>10 DEF ServerExecutes, callerVars, dispatchVars
  <2>2. commands \in Seq({"SUBSCRIBE", "UNSUBSCRIBE"})
    BY DEF IInv, TypeOK
  <2>3. ServerFollows'
    <3>1. CASE commands' = <<>>
      <4>1. Tail(commands) = <<>> /\ Len(commands) \in Nat
        BY <2>1, <2>2, <3>1
      <4>2. Len(commands) = 1
        <5>1. Len(Tail(commands)) = 0
          BY <4>1, Len(<<>>) = 0
        <5>2. Len(Tail(commands)) = Len(commands) - 1
          BY <2>1, <2>2, HeadTailProperties
        <5> QED
          BY <4>1, <5>1, <5>2
      <4>3. Head(commands) = commands[Len(commands)]
        BY <2>2, <4>2
      <4> QED
        BY <2>1, <3>1, <4>3 DEF IInv, ServerFollows
    <3>2. CASE commands' # <<>>
      <4>1. commands'[Len(commands')] = commands[Len(commands)]
        BY <2>1, <2>2, <3>2
      <4> QED
        BY <2>1, <3>2, <4>1 DEF IInv, ServerFollows
    <3> QED
      BY <3>1, <3>2
  <2>4. commands' \in Seq({"SUBSCRIBE", "UNSUBSCRIBE"}) /\ subscribed' \in BOOLEAN
    BY <2>1, <2>2
  <2> QED
    BY <2>1, <2>3, <2>4 DEF IInv, TypeOK, Registered, CountsEveryone, LoopInv, Dispatching, Reach,
                            Reached
<1>11. CASE Publish
  BY <1>11 DEF Publish, callerVars, dispatchVars, IInv, TypeOK, Registered,
               CountsEveryone, ServerFollows, LoopInv, Dispatching, Reach, Reached
<1> QED
  BY <1>1, <1>2, <1>3, <1>4, <1>5, <1>6, <1>7, <1>8, <1>9, <1>10, <1>11 DEF Next

(* It implies the invariants. *)
LEMMA IInvImplies == IInv => TypeOK /\ CountsEveryone /\ WantedIsSubscribed /\ CalledOnce
<1> SUFFICES ASSUME IInv PROVE TypeOK /\ CountsEveryone /\ WantedIsSubscribed /\ CalledOnce
  OBVIOUS
<1>1. TypeOK /\ CountsEveryone
  BY DEF IInv
<1>2. WantedIsSubscribed
  <2>1. counter = Cardinality(wants) + others /\ others \in Nat /\ Cardinality(wants) \in Nat
    BY <1>1, WantsFinite DEF CountsEveryone, TypeOK
  <2>2. Cardinality(wants) = 0 <=> wants = {}
    BY <1>1, WantsFinite, FS_EmptySet
  <2>3. counter > 0 <=> wants # {} \/ others > 0
    BY <2>1, <2>2
  <2> QED
    BY <2>3 DEF IInv, ServerFollows, WantedIsSubscribed
<1>3. CalledOnce
  <2>1. \A i, j \in DOMAIN calls : calls[i] = calls[j] => i = j
    BY DEF IInv, LoopInv
  <2>2. ASSUME pos > Len(regs), NEW r \in owed
        PROVE  r \in Range(calls)
    <3>1. PICK i \in DOMAIN regs : regs[i].regid = r
      BY DEF IInv, LoopInv, Registered
    <3>2. Reached(i)
      <4>1. i \in Nat /\ i <= Len(regs) /\ Len(regs) \in Nat /\ pos \in Nat
        BY <1>1, <3>1 DEF TypeOK
      <4>2. Reach = pos \/ Reach = pos + 1
        BY DEF Reach
      <4> QED
        BY <2>2, <4>1, <4>2 DEF Reached
    <3>3. PICK k \in DOMAIN calls : calls[k] = r
      BY <3>1, <3>2 DEF IInv, LoopInv
    <3> QED
      BY <3>3 DEF Range
  <2> QED
    BY <2>1, <2>2 DEF CalledOnce
<1> QED
  BY <1>1, <1>2, <1>3

-----------------------------------------------------------------------------
(* The theorems.                                                            *)

(* The state of the observers keeps its types, and a callback only runs in the loop. *)
THEOREM ObserversTypeCorrect == Spec => []TypeOK
<1>1. Spec => []IInv
  BY IInvInit, IInvNext, PTL DEF Spec
<1> QED
  BY <1>1, IInvImplies, PTL

(* The subscriber's counter counts every observer and every direct subscriber once. *)
THEOREM AlwaysCountsEveryone == Spec => []CountsEveryone
<1>1. Spec => []IInv
  BY IInvInit, IInvNext, PTL DEF Spec
<1> QED
  BY <1>1, IInvImplies, PTL

(* When all commands are executed, the server sends what is wanted and nothing else. *)
THEOREM AlwaysWantedIsSubscribed == Spec => []WantedIsSubscribed
<1>1. Spec => []IInv
  BY IInvInit, IInvNext, PTL DEF Spec
<1> QED
  BY <1>1, IInvImplies, PTL

(* A message calls everyone who stays attached exactly once, whatever the callbacks it
   calls attach and detach. *)
THEOREM AlwaysCalledOnce == Spec => []CalledOnce
<1>1. Spec => []IInv
  BY IInvInit, IInvNext, PTL DEF Spec
<1> QED
  BY <1>1, IInvImplies, PTL

(* No callback runs for an observer that is detached. *)
THEOREM NeverCallsDetached == Spec => OnlyAttachedAreCalled
<1>1. Spec => []IInv
  BY IInvInit, IInvNext, PTL DEF Spec
<1>2. IInv /\ [Next]_vars => [Len(calls') > Len(calls) => Last(calls') \in wants]_vars
  <2> SUFFICES ASSUME IInv, Next, Len(calls') > Len(calls)
               PROVE  Last(calls') \in wants
    BY DEF vars
  <2>1. calls \in Seq(RegId) /\ Len(calls) \in Nat
    BY DEF IInv, TypeOK
  <2>2. CASE CallsNext
    <3>1. /\ pos \in DOMAIN regs /\ ~regs[pos].deleted
          /\ calls' = Append(calls, regs[pos].regid)
      BY <2>2 DEF CallsNext, IInv, TypeOK, Dispatching
    <3>2. Last(calls') = regs[pos].regid
      BY <2>1, <3>1 DEF Last
    <3> QED
      BY <3>1, <3>2 DEF IInv, Registered
  <2>3. CASE ~CallsNext
    <3>1. calls' = calls \/ calls' = <<>>
      BY <2>3 DEF Next, SetObservable, AttachObserver, DetachObserver, OtherSubscribes,
                  OtherUnsubscribes, DispatchBegins, CallbackReturns, DispatchEnds,
                  ServerExecutes, Publish, dispatchVars
    <3>2. Len(<<>>) = 0
      OBVIOUS
    <3> QED
      BY <2>1, <3>1, <3>2
  <2> QED
    BY <2>2, <2>3
<1> QED
  BY <1>1, <1>2, PTL DEF Spec, OnlyAttachedAreCalled

=============================================================================
