------------------------------- MODULE MCSpsa -------------------------------
(***************************************************************************)
(* Spsa on small instances.                                                *)
(***************************************************************************)
EXTENDS Spsa, TLC

Symmetry == Permutations(Machines) \union Permutations(Threads)
=============================================================================
