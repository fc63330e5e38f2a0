----------------------------- MODULE MCCacheProxy -----------------------------
EXTENDS CacheProxy, TLC

(* Clients are interchangeable, and so are fields and values. *)
Symmetry == Permutations(Client) \cup Permutations(Id) \cup Permutations(Value)
=============================================================================
