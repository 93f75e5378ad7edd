----------------------------- MODULE FifoMuxer -----------------------------
(***************************************************************************)
(* libavformat/fifo.c: a muxer that queues its packets for a thread of its *)
(* own, which drives the underlying muxer, restarts it when it fails and,  *)
(* when allowed to, drops packets rather than let the queue fill up.       *)
(*                                                                         *)
(* The queue is the MessageQueue that ThreadMessage implements.  Only the  *)
(* thread touches the underlying muxer, so that a dispatch is one step; it *)
(* may fail with any of Faults, MaxFaults times, or for ever in an outage. *)
(* Time is left out: an attempt is made once recovery_wait_time has        *)
(* passed, whenever that is.  The timeshift option is not modelled.        *)
(***************************************************************************)
EXTENDS Packets

CONSTANTS queue_size,
          Setups,     \* options of the muxer, and how the one below it fails
          Faults,     \* errors of the underlying muxer
          MaxFaults   \* bound: how often it fails when there is no outage

ASSUME FaultsAssumption == Faults \subseteq Errors /\ MaxFaults \in Nat

\* The ranges of the options (fifo.c:657-689), and two things that the underlying
\* muxer may do: fail with AVERROR(EAGAIN), and fail any number of times.
Options == [drop_pkts_on_overflow : BOOLEAN, attempt_recovery : BOOLEAN,
            recover_any_error : BOOLEAN, max_recovery_attempts : Nat,
            restart_with_keyframe : BOOLEAN,
            again : BOOLEAN, outage : BOOLEAN]

ASSUME OptionsAssumption == Setups \subseteq Options /\ queue_size \in Nat \ {0}

VARIABLES
  fifo,                                           \* the options
  queue, out_err_send, out_err_recv, out_ret,     \* fifo->queue
  overflow_flag, write_trailer_ret,               \* FifoContext
  wpc, msg, ret,                                  \* fifo_consumer_thread
  recovery_nr, drop_until_keyframe, header_written,   \* FifoThreadContext
  output,    \* what the underlying muxer wrote: headers, packets, trailers
  faults

outQueue == <<queue, out_err_send, out_err_recv, out_ret>>
muxer    == <<drop_until_keyframe, header_written, output, faults>>
writer   == <<wpc, msg, ret, recovery_nr>>
fifoVars == <<fifo, outQueue, overflow_flag, write_trailer_ret, writer, muxer>>

\* scaled: how often the packet's timestamps went from the time base of the
\* stream to that of the underlying muxer.
Message(type, n) == [type |-> type, pkt |-> n, scaled |-> 0]
Header    == Message("header", 0)
Flush     == Message("flush", 0)
Packet(n) == Message("packet", n)
Messages  == {Flush} \cup {Packet(n) : n \in Pkts}

Wrote(ev, m) == <<[ev |-> ev, pkt |-> m.pkt, scaled |-> m.scaled]>>

FifoUsers == {"main", "writer"}

Out == INSTANCE MessageQueue
         WITH Threads <- FifoUsers, Msgs <- Messages, Cap <- queue_size,
              q <- queue, err_send <- out_err_send, err_recv <- out_err_recv,
              call <- [t \in FifoUsers |-> Idle], ret <- out_ret

\* fifo_init.
FifoInit ==
  /\ fifo \in Setups
  /\ Out!Init
  /\ overflow_flag = FALSE /\ write_trailer_ret = OK
  /\ wpc = "none" /\ msg = Header /\ ret = OK
  /\ recovery_nr = 0 /\ drop_until_keyframe = FALSE /\ header_written = FALSE
  /\ output = <<>> /\ faults = 0

-----------------------------------------------------------------------------
(* The underlying muxer: the outcomes of a dispatch. *)

Failures == {e \in Faults \cup {EAGAIN} :
               /\ fifo.outage \/ faults < MaxFaults
               /\ e = EAGAIN => fifo.again}

Failed == faults' = IF fifo.outage THEN faults ELSE faults + 1

\* Options the muxer does not know are an error, but the header is written.
fifo_thread_write_header ==
  {[ret |-> OK, written |-> TRUE]}
  \cup {[ret |-> e, written |-> FALSE] : e \in Failures}
  \cup {[ret |-> e, written |-> TRUE] : e \in Failures \cap {EINVAL}}

Done(e, m, drop, out) == [ret |-> e, msg |-> m, drop |-> drop, out |-> out]

\* A packet that is tried again is converted again.  One whose write fails is taken
\* not to have been written, though mux.c may report an error of pb found after it.
fifo_thread_write_packet(m, drop) ==
  LET n == [m EXCEPT !.scaled = @ + 1] IN
  IF drop /\ m.pkt \notin Keys
  THEN {Done(OK, m, TRUE, <<>>)}
  ELSE {Done(OK, n, FALSE, Wrote("packet", n))}
       \cup {Done(e, n, FALSE, <<>>) : e \in Failures}

Handled(m, drop) ==
  CASE m.type = "header" -> {Done(OK, m, drop, <<>>)}
    [] m.type = "packet" -> fifo_thread_write_packet(m, drop)
    [] m.type = "flush"  -> {Done(e, m, drop, <<>>) : e \in {OK} \cup Failures}

\* Every way to dispatch m, the header first if it has to be written.
fifo_thread_dispatch_message(m, drop) ==
  LET heads == IF header_written THEN {[ret |-> OK, written |-> TRUE]}
               ELSE fifo_thread_write_header
      Body(h) == IF h.ret = OK THEN Handled(m, drop)
                 ELSE {Done(h.ret, m, drop, <<>>)} IN
  UNION {{[o EXCEPT !.out = IF h.written /\ ~header_written
                            THEN Wrote("header", Header) \o @ ELSE @]
            : o \in Body(h)} : h \in heads}

Dispatched(o) ==
  /\ output' = output \o o.out
  /\ header_written' = (header_written \/ (o.out # <<>> /\ o.out[1].ev = "header"))
  /\ drop_until_keyframe' = o.drop
  /\ msg' = o.msg
  /\ IF o.ret = OK THEN UNCHANGED faults ELSE Failed

fifo_thread_write_trailer ==
  IF header_written
  THEN /\ output' = output \o Wrote("trailer", Header)
       /\ \/ write_trailer_ret' = OK /\ UNCHANGED faults
          \/ write_trailer_ret' \in Failures /\ Failed
  ELSE write_trailer_ret' = OK /\ UNCHANGED <<output, faults>>

-----------------------------------------------------------------------------
(* fifo_consumer_thread *)

Dispatch ==
  /\ wpc = "dispatch"
  /\ \E o \in fifo_thread_dispatch_message(msg, drop_until_keyframe) :
       /\ Dispatched(o)
       /\ ret' = o.ret
       /\ wpc' = IF o.ret = OK THEN "check" ELSE "recover"
  /\ UNCHANGED <<fifo, outQueue, overflow_flag, write_trailer_ret, recovery_nr>>

is_recoverable(e) ==
  /\ fifo.attempt_recovery
  /\ IF fifo.recover_any_error THEN e # EXIT ELSE e \notin {EINVAL, EOF, EXIT}

\* AVERROR(EAGAIN) is not told from "too early" (:400): the packet is dropped, and a
\* muxer that may not drop repeats this step, which changes nothing, for ever.
GiveUp ==
  /\ wpc = "recover" /\ ~is_recoverable(ret)
  /\ IF ret # EAGAIN THEN wpc' = "fail"
     ELSE fifo.drop_pkts_on_overflow /\ wpc' = "check"
  /\ UNCHANGED <<fifo, outQueue, overflow_flag, write_trailer_ret, msg, ret,
                 recovery_nr, muxer>>

Recovering == wpc = "recover" /\ is_recoverable(ret)

\* The flag stays.
CloseFailed_KeepsHeader ==
  /\ Recovering /\ header_written
  /\ fifo_thread_write_trailer
  /\ UNCHANGED <<fifo, outQueue, overflow_flag, writer, drop_until_keyframe,
                 header_written>>

CloseFailed ==
  /\ Recovering /\ header_written
  /\ fifo_thread_write_trailer
  /\ header_written' = FALSE
  /\ UNCHANGED <<fifo, outQueue, overflow_flag, writer, drop_until_keyframe>>

\* Too early: the packet is dropped.  A muxer that may not drop sleeps.
AttemptEarly ==
  /\ Recovering /\ ~header_written
  /\ recovery_nr > 0 /\ fifo.drop_pkts_on_overflow
  /\ wpc' = "check"
  /\ UNCHANGED <<fifo, outQueue, overflow_flag, write_trailer_ret, msg, ret,
                 recovery_nr, muxer>>

\* One attempt too many.
Exhausted_OffByOne(n) ==
  fifo.max_recovery_attempts # 0 /\ n > fifo.max_recovery_attempts

Exhausted(n) ==
  fifo.max_recovery_attempts # 0 /\ n >= fifo.max_recovery_attempts

\* What an attempt that failed with e returns: EAGAIN for "try again", or because e
\* is EAGAIN (fifo_thread_process_recovery_failure).
AttemptResult(e, n) == IF is_recoverable(e) /\ ~Exhausted(n) THEN EAGAIN ELSE e

Attempt ==
  LET drop == \/ drop_until_keyframe
              \/ fifo.restart_with_keyframe /\ fifo.drop_pkts_on_overflow IN
  /\ Recovering /\ ~header_written
  /\ \E o \in fifo_thread_dispatch_message(msg, drop) :
       /\ Dispatched(o)
       /\ recovery_nr' = IF o.ret = OK THEN 0 ELSE recovery_nr + 1
       /\ \/ /\ o.ret = OK
             /\ wpc' = "check" /\ UNCHANGED ret
          \/ /\ o.ret # OK /\ AttemptResult(o.ret, recovery_nr') = EAGAIN
             /\ wpc' = IF fifo.drop_pkts_on_overflow THEN "check" ELSE "recover"
             /\ UNCHANGED ret
          \/ /\ o.ret # OK /\ AttemptResult(o.ret, recovery_nr') # EAGAIN
             /\ wpc' = "fail" /\ ret' = o.ret
  /\ UNCHANGED <<fifo, outQueue, overflow_flag, write_trailer_ret>>

\* Under overflow_flag_lock: the queue is emptied if it was full.
CheckOverflow ==
  /\ wpc = "check"
  /\ IF overflow_flag
     THEN /\ Out!Flush
          /\ drop_until_keyframe' = (drop_until_keyframe \/ fifo.restart_with_keyframe)
     ELSE UNCHANGED <<outQueue, drop_until_keyframe>>
  /\ overflow_flag' = FALSE
  /\ wpc' = "recv"
  /\ UNCHANGED <<fifo, write_trailer_ret, msg, ret, recovery_nr, header_written,
                 output, faults>>

\* While the output is down the next message goes straight to recovery.
Receive ==
  /\ wpc = "recv"
  /\ \/ /\ Out!Get("writer")
        /\ msg' = Head(queue) /\ ret' = OK
        /\ wpc' = IF recovery_nr = 0 THEN "dispatch" ELSE "recover"
     \/ /\ Out!GetError("writer")
        /\ ret' = out_err_recv
        /\ wpc' = "fail" /\ UNCHANGED msg
  /\ UNCHANGED <<fifo, overflow_flag, write_trailer_ret, recovery_nr, muxer>>

\* The client learns of the end from its next packet.
Fail ==
  /\ wpc = "fail"
  /\ Out!SetErrSend(ret)
  /\ wpc' = "end"
  /\ UNCHANGED <<fifo, overflow_flag, write_trailer_ret, msg, ret, recovery_nr,
                 muxer>>

Finish ==
  /\ wpc = "end"
  /\ fifo_thread_write_trailer
  /\ wpc' = "dead"
  /\ UNCHANGED <<fifo, outQueue, overflow_flag, msg, ret, recovery_nr,
                 drop_until_keyframe, header_written>>

fifo_consumer_thread ==
  \/ Dispatch \/ GiveUp \/ CloseFailed \/ AttemptEarly \/ Attempt
  \/ CheckOverflow \/ Receive \/ Fail \/ Finish

-----------------------------------------------------------------------------
(* The client's calls. *)

fifo_write_header ==
  /\ wpc = "none"
  /\ wpc' = "dispatch"
  /\ UNCHANGED <<fifo, outQueue, overflow_flag, write_trailer_ret, msg, ret,
                 recovery_nr, muxer>>

\* fifo_write_packet, for a packet or a flush: sent, refused with the error of
\* the writer, or dropped because the queue is full.
WriteSent(m) ==
  /\ Out!Put("main", m)
  /\ UNCHANGED <<fifo, overflow_flag, write_trailer_ret, writer, muxer>>

WriteFails(m) ==
  /\ Out!PutError("main", m)
  /\ UNCHANGED <<fifo, overflow_flag, write_trailer_ret, writer, muxer>>

WriteOverflows ==
  /\ fifo.drop_pkts_on_overflow /\ Out!CannotPut
  /\ Out!TryAgain("main")
  /\ UNCHANGED <<fifo, overflow_flag, write_trailer_ret, writer, muxer>>

SetOverflow ==
  /\ overflow_flag' = TRUE
  /\ UNCHANGED <<fifo, outQueue, write_trailer_ret, writer, muxer>>

EndOfPackets ==
  /\ Out!SetErrRecv(EOF)
  /\ UNCHANGED <<fifo, overflow_flag, write_trailer_ret, writer, muxer>>

\* fifo_write_trailer has joined the thread; fifo_deinit frees the queue.
JoinWriter ==
  /\ wpc = "dead"
  /\ Out!Flush
  /\ UNCHANGED <<fifo, overflow_flag, write_trailer_ret, writer, muxer>>

-----------------------------------------------------------------------------
Events == [ev : {"header", "packet", "trailer"}, pkt : 0 .. MaxPkts, scaled : Nat]

\* Types, and after max_recovery_attempts in a row the thread ends (fifo.c:56).  That
\* holds of a muxer that never fails with AVERROR(EAGAIN): the error of the last
\* attempt is returned (:306), taken for "too early" (:400), and attempts go on.
FifoTypeOK ==
  /\ queue \in Seq(Messages) /\ Len(queue) <= queue_size
  /\ {out_err_send, out_err_recv} \subseteq Errors \cup {NoError}
  /\ out_ret \in [FifoUsers -> Messages \cup Errors \cup {OK, EAGAIN}]
  /\ {overflow_flag, drop_until_keyframe, header_written} \subseteq BOOLEAN
  /\ {ret, write_trailer_ret} \subseteq Errors \cup {OK, EAGAIN}
  /\ wpc \in {"none", "dispatch", "recover", "check", "recv", "fail", "end", "dead"}
  /\ output \in Seq(Events) /\ faults \in 0 .. MaxFaults
  /\ recovery_nr \in Nat
  /\ ~fifo.again /\ fifo.max_recovery_attempts # 0 /\ wpc \notin {"fail", "end", "dead"}
       => recovery_nr < fifo.max_recovery_attempts
=============================================================================
