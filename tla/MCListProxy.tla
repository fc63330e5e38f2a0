------------------------------ MODULE MCListProxy ------------------------------
(***************************************************************************)
(* ListProxy for TLC: what the clients call.                               *)
(***************************************************************************)
EXTENDS ListProxy

CONSTANTS m, n, v1, v2      \* two marks, two items

SetCAS(id, expect, dest) == [op |-> "SetCAS", id |-> id, expect |-> expect, dest |-> dest]
CASPush(op, expect, dest, v) ==
    [op |-> op, id |-> m, expect |-> expect, dest |-> dest, value |-> v]

(* A lock on m for each of two clients, and the list it protects. *)
Locking ==
    [c \in Client |->
        IF c = 3 THEN {[op |-> "PopAll"]} ELSE {SetCAS(m, Free, c), SetCAS(m, c, Free)}]

(* Two producers number what they push, and a consumer pops it in every way. *)
Queueing ==
    [c \in Client |->
        IF c = 3
        THEN {[op |-> o] : o \in {"LPop", "RPop", "PopAll"}}
        ELSE {CASPush(o, k, k + 1, v) : o \in PushCAS, k \in 0 .. 1, v \in {v1, v2}}]

(* Everything there is, for one client; the second pushes, pops and clears. *)
Everything ==
    [c \in Client |->
        CASE c = 1 -> [op : {"LPush", "RPush"}, value : {v1}]
                \cup {[op |-> o] : o \in {"LPop", "RPop", "PopAll", "Clear"}}
                \cup {CASPush(o, 0, 1, v1) : o \in PushCAS}
                \cup {[op |-> "PopAllAndMark", id |-> m, dest |-> 0],
                      [op |-> "ResetCAS", id |-> m, expect |-> 0, dest |-> 0],
                      SetCAS(m, 1, 0)}
                \cup [op : {"IncrByIntCAS"}, id : {n}, by : {1}, limit : {1}]
                \cup [op : {"DecrByIntCAS"}, id : {n}, by : {1}, limit : {0}]
          [] c = 2 -> {CASPush("LPushCAS", 0, 1, v1)} \cup {[op |-> o] : o \in {"LPop", "Clear"}}
          [] OTHER -> {}]

MCUsages ==
    {[calls |-> Locking, restores |-> FALSE],
     [calls |-> Queueing, restores |-> FALSE],
     [calls |-> Everything, restores |-> TRUE]}

=============================================================================
