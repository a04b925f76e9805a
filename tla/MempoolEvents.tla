---------------------------- MODULE MempoolEvents ----------------------------
(***************************************************************************)
(* The events that travel from the ZMQ subscriber to the pipeline          *)
(* (MempoolEvent, core/mod.rs), as the subscriber builds them: a removal   *)
(* always has reason Unknown and a block always height 0, because neither  *)
(* is in the messages it reads.  TxAdded carries the raw transaction; its  *)
(* txid field is read by nobody.                                           *)
(***************************************************************************)

TxAdded(raw) == [type |-> "TxAdded", raw |-> raw]

TxRemoved(txid) == [type |-> "TxRemoved", txid |-> txid, reason |-> "Unknown"]

BlockConnected(hash) == [type |-> "BlockConnected", block |-> hash, height |-> 0]

BlockDisconnected(hash) == [type |-> "BlockDisconnected", block |-> hash, height |-> 0]
=============================================================================
