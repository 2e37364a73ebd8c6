--------------------------- MODULE MCEventBufferer ---------------------------
(* A small instance of EventBufferer, and so of Emitter, for TLC.          *)
EXTENDS EventBufferer
=============================================================================
