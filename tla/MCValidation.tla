---------------------------- MODULE MCValidation ----------------------------
(* EveryRule on every request type of two types besides scalars and enums. *)
EXTENDS EveryRule
=============================================================================
