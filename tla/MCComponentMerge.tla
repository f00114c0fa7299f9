-------------------------- MODULE MCComponentMerge --------------------------
(* ComponentMerge on three names, one of which is another's Input name.    *)
EXTENDS ComponentMerge, TLC
CONSTANTS A, B, AInput, BInput, AInputInput
MCInputOf == (A :> AInput) @@ (B :> BInput) @@ (AInput :> AInputInput)
=============================================================================
