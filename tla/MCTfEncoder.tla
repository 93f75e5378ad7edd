---------------------------- MODULE MCTfEncoder ----------------------------
(* Instances of TfEncoder for TLC; the constants are in the cfg files. *)
EXTENDS TfEncoder
=============================================================================
