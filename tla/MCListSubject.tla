----------------------------- MODULE MCListSubject -----------------------------
EXTENDS ListSubject

(* Observers differ in nothing but their names. *)
Symmetry == Permutations(RegId)
=============================================================================
