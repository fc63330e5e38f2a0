----------------------------- MODULE CmdPipeline -----------------------------
(***************************************************************************)
(* Command pipelines: redis_cmd_pipepline_t (src/base/RedisReply.h) and    *)
(* what the connection classes do to a whole deque of them.                *)
(*                                                                         *)
(* A pipeline is one caller's batch of commands, sent as one string and    *)
(* answered by built_num replies, of which only the last one (the "tail"   *)
(* reply) reaches the caller.  The text of the commands is left out: a     *)
(* pipeline is told apart by its serial number sn, which is 0 for the      *)
(* pipelines the connection itself builds (AUTH, SCRIPT LOAD).             *)
(***************************************************************************)
EXTENDS Selection

QUEUEING     == 1
SENDING      == 2
COMMITTING   == 3
PROCESSING   == 4
PROCESS_OVER == 5

PipelineState == QUEUEING .. PROCESS_OVER

Pipeline == [sn : Nat, built_num : Nat, processed_num : Nat, state : PipelineState]

CreateUncounted(sn, built_num) ==                   \* mutant: _processed_num is not set
    [sn |-> sn, built_num |-> built_num, processed_num |-> -1, state |-> QUEUEING]
CreateCmdPipeline(sn, built_num) ==
    [sn |-> sn, built_num |-> built_num, processed_num |-> 0, state |-> QUEUEING]

-----------------------------------------------------------------------------
(* The loops over _dqCommon.                                                *)

(* "for (auto& cp : _dqCommon) cp._state = ...", over the positions S. *)
Marked(dq, S, st) ==
    [i \in DOMAIN dq |-> IF i \in S THEN [dq[i] EXCEPT !.state = st] ELSE dq[i]]

(* The test of OnClientConnect: a caller's pipeline that is not over yet. *)
NotYetCommitted(cp) == cp.sn > 0 /\ cp.state < COMMITTING    \* mutant: wrong state
Unfinished(cp) == cp.sn > 0 /\ cp.state < PROCESS_OVER

IsNotAnswered(cp) == cp.state \in {SENDING, COMMITTING}       \* mutant: written again
IsSending(cp) == cp.state = SENDING

(* The deque a new connection starts from: the connection's own pipelines
   afresh, then the callers' unfinished ones, in their order. *)
Rebuilt(init, dq) == init \o Selected(dq, Positions(dq, Unfinished))

-----------------------------------------------------------------------------
(* Whether a deque lost or repeated anything. *)

(* How many of the connection's own pipelines dq begins with, if the others are
   those numbered c + 1 .. n. *)
OwnLeft(dq, c, n) == Len(dq) - (n - c)

(* dq holds pipelines of the connection itself and then exactly the callers'
   pipelines c + 1 .. n, in order. *)
HoldsUnanswered(dq, c, n) ==
    /\ OwnLeft(dq, c, n) >= 0
    /\ c <= n
    /\ \A i \in DOMAIN dq :
          dq[i].sn = IF i <= OwnLeft(dq, c, n) THEN 0 ELSE c + i - OwnLeft(dq, c, n)

=============================================================================
