----------------------------- MODULE MCPipelines -----------------------------
(* A small instance of Pipelines for TLC.                                  *)
EXTENDS Pipelines
=============================================================================
