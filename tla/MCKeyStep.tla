----------------------------- MODULE MCKeyStep ------------------------------
(* KeyStep on small sets of requests, keys and fingerprints.               *)
EXTENDS KeyStep, TLC

Symmetry == Permutations(Req) \cup Permutations(Key) \cup Permutations(Fingerprint)
=============================================================================
