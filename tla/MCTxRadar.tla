------------------------------ MODULE MCTxRadar ------------------------------
(* Instances of TxRadar for TLC. *)
EXTENDS TxRadar

CONSTANT b1

MirrorHashes == { <<0, 1>>, <<1, 0>> }
OneHash == { <<0, 1>> }
OneTxid == { <<1, 0>> }

OneBlock == {b1}
NoBlock == {}
OneRate == {5}
OneScore == {10}
=============================================================================
