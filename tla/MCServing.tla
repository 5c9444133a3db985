---------------------------- MODULE MCServing ----------------------------
(* Serving for TLC. *)
EXTENDS Serving

CONSTANTS r1, r2
=========================================================================
