--------------------------- MODULE MCPrimary ----------------------------
(* Primary for TLC. *)
EXTENDS Primary
=========================================================================
