----------------------------- MODULE ListSubject -----------------------------
(***************************************************************************)
(* The observers of one list: CRedisListSubject                            *)
(* (src/base/RedisListProxy.cpp) on the main thread, over the subscriber   *)
(* it shares with callers that use the list's channel directly.  While a   *)
(* message is dispatched each observer's callback runs, and may attach and *)
(* detach observers itself.                                                *)
(*                                                                         *)
(* Two things a callback may not do, since the code's vector is walked by  *)
(* iterators: attach an observer that was never there (resize() may move   *)
(* the vector) and attach itself again (its function would be replaced     *)
(* while it runs).  And nobody detaches an observer that is not attached:  *)
(* DetachObserver() would unsubscribe in the name of another.              *)
(***************************************************************************)
EXTENDS Selection, SequencesExt

CONSTANTS
    RegId,         \* names of observers
    MaxOthers,     \* bound: direct subscribers of the channel
    MaxCommands,   \* bound: commands on their way to the server
    MaxMessages    \* bound: messages published

ASSUME RegIdAssumption == IsFiniteSet(RegId)
ASSUME BoundAssumption ==
    MaxOthers \in Nat /\ MaxCommands \in Nat /\ MaxMessages \in Nat

VARIABLES
    regs,        \* s_mapObserverRegList[channel]
    observable,  \* OnGotChannelMessage() is registered with the subscriber
    counter,     \* the subscriber's counter of the channel
    others,      \* direct subscribers
    commands,    \* commands not yet executed
    subscribed,  \* the server's view
    inbox,       \* messages on their way to OnGotChannelMessage()
    published,   \* how many there have been
    pos,         \* the loop's position in regs, 0 when no message is dispatched
    running,     \* whether the callback at pos is running
    wants,       \* history: who has attached and not detached
    calls,       \* history: whose callbacks this message has called, in order
    owed         \* history: who has been attached since the loop began

callerVars   == <<others, wants>>
dispatchVars == <<pos, running, calls>>
serverVars   == <<subscribed, published>>
vars == <<regs, observable, counter, commands, inbox, owed, callerVars, dispatchVars, serverVars>>

-----------------------------------------------------------------------------
Reg == [regid : RegId, deleted : BOOLEAN]

Dispatching == pos # 0

(* The main thread is the caller's: outside of any call, or inside of a callback. *)
CallersTurn == Dispatching => running

Known(r) == \E i \in DOMAIN regs : regs[i].regid = r

Init ==
    /\ regs = <<>> /\ observable = FALSE /\ counter = 0 /\ others = 0
    /\ commands = <<>> /\ subscribed = FALSE /\ inbox = 0 /\ published = 0
    /\ pos = 0 /\ running = FALSE
    /\ wants = {} /\ calls = <<>> /\ owed = {}

-----------------------------------------------------------------------------
(* The subscriber: the first one subscribes, the last one unsubscribes.     *)

CommandSent(command) ==
    /\ Len(commands) < MaxCommands
    /\ commands' = Append(commands, command)

Subscribe ==
    /\ counter' = counter + 1
    /\ IF counter = 0 THEN CommandSent("SUBSCRIBE") ELSE UNCHANGED commands

Unsubscribe ==
    IF counter > 0
    THEN /\ counter' = counter - 1
         /\ IF counter = 1 THEN CommandSent("UNSUBSCRIBE") ELSE UNCHANGED commands
    ELSE UNCHANGED <<counter, commands>>

-----------------------------------------------------------------------------
(* Callers.                                                                 *)

(* SetObservable(), which callbacks may not call: the subscriber walks a vector too. *)
SetObservable(flag) ==
    /\ ~Dispatching
    /\ observable' = flag
    /\ UNCHANGED <<regs, counter, commands, inbox, owed, callerVars, dispatchVars, serverVars>>

AttachForgetsDeleted(r) ==      \* mutant: a deleted registration is not revived
    /\ CallersTurn
    /\ Dispatching => Known(r) /\ regs[pos].regid # r
    /\ IF Known(r)
       THEN UNCHANGED <<regs, counter, commands>>
       ELSE regs' = Append(regs, [regid |-> r, deleted |-> FALSE]) /\ Subscribe
    /\ wants' = wants \cup {r}
    /\ UNCHANGED <<observable, inbox, owed, others, dispatchVars, serverVars>>
AttachSubscribesAgain(r) ==      \* mutant: subscribes though it was attached
    /\ CallersTurn
    /\ Dispatching => Known(r) /\ regs[pos].regid # r
    /\ counter < 2 * Cardinality(RegId)
    /\ regs' = IF Known(r)
               THEN [i \in DOMAIN regs |->
                       IF regs[i].regid = r THEN [regs[i] EXCEPT !.deleted = FALSE] ELSE regs[i]]
               ELSE Append(regs, [regid |-> r, deleted |-> FALSE])
    /\ Subscribe
    /\ wants' = wants \cup {r}
    /\ UNCHANGED <<observable, inbox, owed, others, dispatchVars, serverVars>>
AttachTwice(r) ==      \* mutant: does not look whether it is there
    /\ CallersTurn
    /\ ~Dispatching
    /\ Len(regs) < 2 * Cardinality(RegId)
    /\ regs' = Append(regs, [regid |-> r, deleted |-> FALSE])
    /\ Subscribe
    /\ wants' = wants \cup {r}
    /\ UNCHANGED <<observable, inbox, owed, others, dispatchVars, serverVars>>

(* AttachObserver(): a registration that is there is used again, and counted again if
   it was deleted. *)
AttachObserver(r) ==
    /\ CallersTurn
    /\ Dispatching => Known(r) /\ regs[pos].regid # r
    /\ \/ /\ ~Known(r)
          /\ regs' = Append(regs, [regid |-> r, deleted |-> FALSE])
          /\ Subscribe
       \/ \E i \in DOMAIN regs :
             /\ regs[i].regid = r
             /\ regs' = [regs EXCEPT ![i].deleted = FALSE]
             /\ IF regs[i].deleted THEN Subscribe ELSE UNCHANGED <<counter, commands>>
    /\ wants' = wants \cup {r}
    /\ UNCHANGED <<observable, inbox, owed, others, dispatchVars, serverVars>>

(* DetachObserver(): the registration is marked, and goes with the next message. *)
DetachObserver(r) ==
    /\ CallersTurn
    /\ r \in wants
    /\ \E i \in DOMAIN regs :
          regs[i].regid = r /\ regs' = [regs EXCEPT ![i].deleted = TRUE]
    /\ Unsubscribe
    /\ wants' = wants \ {r}
    /\ owed' = owed \ {r}
    /\ UNCHANGED <<observable, inbox, others, dispatchVars, serverVars>>

(* Callers of Subscribe() and Unsubscribe() on the channel. *)
OtherSubscribes ==
    /\ CallersTurn
    /\ others < MaxOthers /\ others' = others + 1
    /\ Subscribe
    /\ UNCHANGED <<regs, observable, inbox, owed, wants, dispatchVars, serverVars>>

OtherUnsubscribes ==
    /\ CallersTurn
    /\ others > 0 /\ others' = others - 1
    /\ Unsubscribe
    /\ UNCHANGED <<regs, observable, inbox, owed, wants, dispatchVars, serverVars>>

-----------------------------------------------------------------------------
(* OnGotChannelMessage().                                                   *)

(* The subscriber takes a message; it is dispatched if there is anyone to call. *)
DispatchBegins ==
    /\ ~Dispatching
    /\ inbox > 0 /\ inbox' = inbox - 1
    /\ IF observable /\ regs # <<>>
       THEN pos' = 1 /\ calls' = <<>> /\ owed' = wants
       ELSE UNCHANGED <<pos, calls, owed>>
    /\ UNCHANGED <<regs, observable, counter, commands, running, callerVars, serverVars>>

CallsDeleted ==      \* mutant: _is_deleted is not tested
    /\ Dispatching /\ ~running /\ pos <= Len(regs)
    /\ running' = TRUE
    /\ calls' = Append(calls, regs[pos].regid)
    /\ UNCHANGED <<regs, observable, counter, commands, inbox, owed, pos, callerVars, serverVars>>

(* The loop calls a callback, or passes by one that is deleted. *)
CallsNext ==
    /\ Dispatching /\ ~running /\ pos <= Len(regs)
    /\ IF regs[pos].deleted
       THEN pos' = pos + 1 /\ UNCHANGED <<running, calls>>
       ELSE running' = TRUE /\ calls' = Append(calls, regs[pos].regid) /\ UNCHANGED pos
    /\ UNCHANGED <<regs, observable, counter, commands, inbox, owed, callerVars, serverVars>>

CallbackReturns ==
    /\ running
    /\ running' = FALSE
    /\ pos' = pos + 1
    /\ UNCHANGED <<regs, observable, counter, commands, inbox, owed, calls, callerVars, serverVars>>

(* "real delete". *)
DispatchEnds ==
    /\ Dispatching /\ ~running /\ pos > Len(regs)
    /\ regs' = Selected(regs, Positions(regs, LAMBDA reg : ~reg.deleted))
    /\ pos' = 0
    /\ calls' = <<>> /\ owed' = {}
    /\ UNCHANGED <<observable, counter, commands, inbox, running, callerVars, serverVars>>

-----------------------------------------------------------------------------
(* The server.                                                              *)

ServerExecutes ==
    /\ commands # <<>>
    /\ subscribed' = (Head(commands) = "SUBSCRIBE")
    /\ commands' = Tail(commands)
    /\ UNCHANGED <<regs, observable, counter, inbox, owed, published, callerVars, dispatchVars>>

Publish ==
    /\ subscribed
    /\ published < MaxMessages
    /\ published' = published + 1
    /\ inbox' = inbox + 1
    /\ UNCHANGED <<regs, observable, counter, commands, subscribed, owed, callerVars, dispatchVars>>

-----------------------------------------------------------------------------

Next ==
    \/ \E flag \in BOOLEAN : SetObservable(flag)
    \/ \E r \in RegId : AttachObserver(r) \/ DetachObserver(r)
    \/ OtherSubscribes \/ OtherUnsubscribes
    \/ DispatchBegins \/ CallsNext \/ CallbackReturns \/ DispatchEnds
    \/ ServerExecutes \/ Publish

Spec == Init /\ [][Next]_vars

-----------------------------------------------------------------------------
(* Properties.                                                              *)

(* Every variable has its type; a callback runs only inside the loop. *)
TypeOK ==
    /\ regs \in Seq(Reg) /\ observable \in BOOLEAN
    /\ counter \in Nat /\ others \in Nat
    /\ commands \in Seq({"SUBSCRIBE", "UNSUBSCRIBE"}) /\ subscribed \in BOOLEAN
    /\ inbox \in Nat /\ published \in Nat
    /\ pos \in Nat /\ running \in BOOLEAN
    /\ running => pos \in DOMAIN regs
    /\ wants \subseteq RegId /\ owed \subseteq RegId /\ calls \in Seq(RegId)

(* The counter of the subscriber, which observers and direct callers share, counts each
   of them once, however often they attach, detach and attach again between messages
   and in callbacks. *)
CountsEveryone == counter = Cardinality(wants) + others

(* Once the server has done what it was told, it sends the channel's messages if and
   only if someone still wants them. *)
WantedIsSubscribed == commands = <<>> => (subscribed <=> wants # {} \/ others > 0)

(* A message calls nobody twice; and whoever was attached when it came, and was not
   detached by a callback before its turn, has been called when the loop is over. *)
CalledOnce ==
    /\ \A i, j \in DOMAIN calls : calls[i] = calls[j] => i = j
    /\ Dispatching /\ pos > Len(regs) => owed \subseteq Range(calls)

(* A callback never runs for someone who is not attached, be it that another callback
   of the same message has just detached it. *)
OnlyAttachedAreCalled ==
    [][Len(calls') > Len(calls) => Last(calls') \in wants]_vars

=============================================================================
