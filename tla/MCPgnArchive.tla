--------------------------- MODULE MCPgnArchive ---------------------------
(***************************************************************************)
(* PgnArchive on small instances.                                          *)
(***************************************************************************)
EXTENDS PgnArchive, TLC

Symmetry == Permutations(Reporters) \union Permutations(Threads) \union Permutations(Watchers)
=============================================================================
