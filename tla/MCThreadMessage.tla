-------------------------- MODULE MCThreadMessage --------------------------
(* Instance of ThreadMessage for TLC; the constants are in the cfg file. *)
EXTENDS ThreadMessage
=============================================================================
