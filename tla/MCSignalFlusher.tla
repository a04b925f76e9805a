--------------------------- MODULE MCSignalFlusher ---------------------------
(* SignalFlusher for TLC: its constants are all numbers. *)
EXTENDS SignalFlusher
=============================================================================
