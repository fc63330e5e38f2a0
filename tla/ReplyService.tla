---------------------------- MODULE ReplyService ----------------------------
(***************************************************************************)
(* What a caller of IRedisClient::Commit may count on, with no word about  *)
(* connections: pipelines are numbered as they are committed, the reply    *)
(* callbacks run in that order, each once, each with the reply to the last *)
(* command of its own pipeline, and each pipeline is answered in the end.  *)
(***************************************************************************)
EXTENDS Naturals, Sequences

VARIABLES
    asked,    \* how many pipelines have been committed
    told      \* the callbacks that have run: the pipeline, and whether the
              \* reply was its own tail reply

vars == <<asked, told>>

Init == asked = 0 /\ told = <<>>

Ask == asked' \in Nat /\ asked' > asked /\ UNCHANGED told

Tell ==
    /\ Len(told) < asked
    /\ told' = Append(told, [sn |-> Len(told) + 1, own |-> TRUE])
    /\ UNCHANGED asked

Next == Ask \/ Tell

Spec == Init /\ [][Next]_vars

FairSpec == Spec /\ WF_vars(Tell)

=============================================================================
