---------------------------- MODULE MCPersistence ----------------------------
(* Persistence on small instances.                                           *)
EXTENDS Persistence, TLC

Symmetry == Permutations(Conns) \cup Permutations(Accounts)
=============================================================================
