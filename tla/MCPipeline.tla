----------------------------- MODULE MCPipeline -----------------------------
(* Instances of Pipeline for TLC. *)
EXTENDS Pipeline

CONSTANT b1

\* Two hashes that are each other's reversal: a byte order mixed up anywhere
\* turns one transaction into the other.
MirrorHashes == { <<0, 1>>, <<1, 0>> }

OneRate == {5}
OneBlock == {b1}

LoudAndQuiet == {10, 70}
=============================================================================
