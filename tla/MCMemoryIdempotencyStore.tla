---------------------- MODULE MCMemoryIdempotencyStore ----------------------
(* MemoryIdempotencyStore on small sets of calls and keys.                 *)
EXTENDS MemoryIdempotencyStore, TLC

Symmetry == Permutations(Call) \cup Permutations(Key)
=============================================================================
