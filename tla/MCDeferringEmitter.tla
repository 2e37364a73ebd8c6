------------------------- MODULE MCDeferringEmitter -------------------------
(* A small instance of DeferringEmitter for TLC.                           *)
EXTENDS DeferringEmitter
=============================================================================
