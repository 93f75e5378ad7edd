------------------------------ MODULE MCRemux ------------------------------
(* Instance of Remux for TLC, and the options it runs. *)
EXTENDS Remux

Strict == [drop_pkts_on_overflow |-> FALSE, attempt_recovery |-> FALSE,
           recover_any_error |-> FALSE, max_recovery_attempts |-> 0,
           restart_with_keyframe |-> FALSE, again |-> FALSE, outage |-> FALSE]

Persistent == [Strict EXCEPT !.attempt_recovery = TRUE]
Limited    == [Persistent EXCEPT !.max_recovery_attempts = 1]
Any        == [Limited EXCEPT !.recover_any_error = TRUE]
Dropping   == [Strict EXCEPT !.drop_pkts_on_overflow = TRUE]
Live       == [Persistent EXCEPT !.drop_pkts_on_overflow = TRUE,
                                 !.restart_with_keyframe = TRUE]

Again(setup)  == [setup EXCEPT !.again = TRUE]
Outage(setup) == [setup EXCEPT !.outage = TRUE]

\* Attempts that no option limits are made during an outage only by a muxer that may
\* drop packets, and then at most one for each message.
AllSetups == {Persistent, Outage(Strict), Outage(Limited), Outage(Live),
              Again(Strict), Again(Any), Again(Dropping)}
=============================================================================
