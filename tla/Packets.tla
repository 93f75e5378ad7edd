------------------------------ MODULE Packets ------------------------------
(***************************************************************************)
(* The packets of one stream and the codes that calls return, for the      *)
(* modules that pass packets between threads.                              *)
(***************************************************************************)
EXTENDS Integers, Sequences

CONSTANTS MaxPkts,   \* bound: packets of the input
          Keys,      \* those that are keyframes
          OK, EAGAIN, EOF, EIO, EINVAL, EXIT, ENOMEM,
          NoError, Idle

Pkts == 1 .. MaxPkts

ASSUME KeysAssumption == MaxPkts \in Nat /\ Keys \subseteq Pkts
Errors == {EOF, EIO, EINVAL, EXIT, ENOMEM}

\* An error is negative; a packet is no code.
ASSUME CodesAssumption ==
  /\ EAGAIN # OK
  /\ {OK, EAGAIN, NoError, Idle} \cap Errors = {}
  /\ ({OK, EAGAIN, NoError, Idle} \cup Errors) \cap Pkts = {}
=============================================================================
