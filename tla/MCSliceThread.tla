--------------------------- MODULE MCSliceThread ---------------------------
(* Instances of SliceThread for TLC; the constants are in the cfg file. *)
EXTENDS SliceThread
=============================================================================
