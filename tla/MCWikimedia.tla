--------------------------- MODULE MCWikimedia ---------------------------
(* Wikimedia for TLC: two fetchers and the event stream. *)
EXTENDS Wikimedia

CONSTANTS drain, retry, stream
=========================================================================
