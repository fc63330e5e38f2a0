----------------------------- MODULE AtLeastOnce -----------------------------
(***************************************************************************)
(* What a client connection does to single commands, seen from the server: *)
(* it executes them in the order of the commits, and executes again, from  *)
(* the first one whose answer the client did not get, whenever a           *)
(* connection is lost.  An answer that is an error is never got.           *)
(***************************************************************************)
EXTENDS Naturals, Sequences

VARIABLES
    queue,     \* the commands the client waits for, in order
    served     \* those of them, and how they fared, that the server has executed
               \* and whose answers are on their way

vars == <<queue, served>>

Kind == {"ok", "error"}

Init == queue = <<>> /\ served = <<>>

Ask ==
    /\ queue' \in Seq(Nat)
    /\ Len(queue') > Len(queue)
    /\ SubSeq(queue', 1, Len(queue)) = queue
    /\ UNCHANGED served

Serve ==
    /\ Len(served) < Len(queue)
    /\ \E kind \in Kind :
          served' = Append(served, [sn |-> queue[Len(served) + 1], kind |-> kind])
    /\ UNCHANGED queue

Answer ==
    /\ served # <<>>
    /\ Head(served).kind = "ok"
    /\ queue' = Tail(queue)
    /\ served' = Tail(served)

(* The last of the answers, or all, do not reach the client. *)
Lose ==
    /\ \E n \in 0 .. Len(served) - 1 : served' = SubSeq(served, 1, n)
    /\ UNCHANGED queue

Next == Ask \/ Serve \/ Answer \/ Lose

Spec == Init /\ [][Next]_vars

=============================================================================
