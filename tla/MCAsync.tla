------------------------------ MODULE MCAsync ------------------------------
(* Instance of Async for TLC; the constants are in the cfg file. *)
EXTENDS Async
=============================================================================
