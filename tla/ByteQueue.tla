----------------------------- MODULE ByteQueue -----------------------------
(***************************************************************************)
(* What the users of an input buffer count on: a queue of bytes.  A writer *)
(* is promised some room, puts at most that many bytes at the end; the     *)
(* reader takes bytes from the front, in the order they were put; both may *)
(* start over with an empty queue.                                         *)
(***************************************************************************)
EXTENDS Naturals, Sequences

CONSTANT Byte

VARIABLES
    q,      \* the bytes put and not yet taken
    room    \* how many bytes the writer has been promised room for

vars == <<q, room>>

Init == q = <<>> /\ room = 0

Offer ==
    /\ room = 0
    /\ room' \in Nat \ {0}
    /\ UNCHANGED q

Put ==
    /\ q' \in Seq(Byte)
    /\ Len(q') \in Len(q) .. Len(q) + room
    /\ SubSeq(q', 1, Len(q)) = q
    /\ room' = 0

Take ==
    /\ \E n \in 1 .. Len(q) : q' = SubSeq(q, n + 1, Len(q))
    /\ UNCHANGED room

Clear == q' = <<>> /\ room' = 0

Next == Offer \/ Put \/ Take \/ Clear

Spec == Init /\ [][Next]_vars

=============================================================================
