---------------------------- MODULE MCMerkleLog -----------------------------
(* Trees of up to eight leaves: complete, one short of complete, and lopsided.  *)
EXTENDS MerkleLog
=============================================================================
