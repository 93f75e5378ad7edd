---------------------------- MODULE MCTfDecoder ----------------------------
(* Instances of TfDecoder for TLC. *)
EXTENDS TfDecoder

\* A session that is WellSized, and a client that reads the output before it ends
\* the stream.
Modest == [depth |-> 1, flushes |-> 0, eager |-> FALSE, fails |-> FALSE,
           joint |-> FALSE, refuses |-> FALSE]

\* The same with a session that marks its last picture, or refuses buffers.
Pair   == [Modest EXCEPT !.depth = 2]
Joint  == [Pair EXCEPT !.joint = TRUE]
Picky  == [Pair EXCEPT !.refuses = TRUE]

\* A session with more pictures than extra slots, whose callback waits and whose
\* packets are refused; a client that ends the stream at any time and flushes; a
\* new session may fail, and the drain that follows then waits for ever.
Rough == [depth |-> 3, flushes |-> 1, eager |-> TRUE, fails |-> TRUE,
          joint |-> TRUE, refuses |-> TRUE]

ModestAndRough == {Pair, Joint, Picky, Rough}
OnlyEager == {[Modest EXCEPT !.eager = TRUE]}
OnlyFlush == {[Modest EXCEPT !.flushes = 1]}
=============================================================================
