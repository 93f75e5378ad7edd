--------------------------- MODULE MCFrameThread ---------------------------
(* Instances of FrameThread for TLC, and the kinds of codec they run. *)
EXTENDS FrameThread

\* A codec without update_thread_context whose callbacks are safe (intra only).
Intra == [update |-> FALSE, safe |-> TRUE, cap_delay |-> FALSE, reorder |-> FALSE,
          ffv1 |-> FALSE, hw |-> "none"]

AllKinds ==
  {Intra, [Intra EXCEPT !.safe = FALSE], [Intra EXCEPT !.update = TRUE, !.ffv1 = TRUE],
   [Intra EXCEPT !.update = TRUE, !.safe = FALSE, !.hw = "async_unsafe"]}
  \cup {[Intra EXCEPT !.update = TRUE, !.cap_delay = TRUE, !.reorder = TRUE, !.hw = hw] :
          hw \in Hwaccel}

\* The kinds whose threads have most to wait for.
BlockingKinds == {k \in AllKinds : k.update => k.hw = "async_unsafe"} \ {Intra}
=============================================================================
