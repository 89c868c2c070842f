--------------------------- MODULE MCMemoryPool ---------------------------
(* Instance of MemoryPool for TLC: the code's record sizes and alignment,  *)
(* small pages.                                                            *)
EXTENDS MemoryPool, TLC

Perms == Permutations(Areas)
=============================================================================
