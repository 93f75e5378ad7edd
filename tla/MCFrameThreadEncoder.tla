------------------------ MODULE MCFrameThreadEncoder ------------------------
(* Instance of FrameThreadEncoder for TLC. *)
EXTENDS FrameThreadEncoder

TwoWorkersAndMain == 0 .. 2
=============================================================================
