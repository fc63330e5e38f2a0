------------------------------ MODULE Selection ------------------------------
(***************************************************************************)
(* What a loop leaves of a sequence that keeps some of its elements and    *)
(* drops the others, as OnClientConnect() does with pipelines and          *)
(* OnGotChannelMessage() with observers.  (Written without recursion so    *)
(* that theorems about it can be proved.)                                  *)
(***************************************************************************)
EXTENDS Integers, Sequences, FiniteSets

Positions(s, P(_)) == {i \in DOMAIN s : P(s[i])}

(* How many members of S are at most i: the place of i when S is listed in
   increasing order. *)
Rank(S, i) == Cardinality({j \in S : j <= i})

(* The elements of s at the positions S, in their order in s. *)
Selected(s, S) == [k \in 1 .. Cardinality(S) |-> s[CHOOSE i \in S : Rank(S, i) = k]]

=============================================================================
