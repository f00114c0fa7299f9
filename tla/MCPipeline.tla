----------------------------- MODULE MCPipeline -----------------------------
(* Pipeline over a few statuses of every kind the code tells apart.        *)
EXTENDS Pipeline
=============================================================================
