------------------------------- MODULE Remux -------------------------------
(***************************************************************************)
(* ffmpeg copying one stream to a fifo muxer: the thread that reads the    *)
(* input, the main thread, and the thread that writes the output, with a   *)
(* queue between each two (fftools/ffmpeg.c, transcode).                   *)
(***************************************************************************)
EXTENDS InputThread, FifoMuxer

VARIABLES pc,        \* what the main thread does next
          outgoing,  \* the message of its fifo_write_packet
          complete   \* did it take every packet, and write without an error?

main == <<pc, outgoing, complete>>
vars == <<inputVars, fifoVars, main>>

Init == /\ InputInit /\ FifoInit
        /\ pc = "header" /\ outgoing = Flush /\ complete = FALSE

\* transcode_init, then init_input_threads.
Open ==
  /\ pc = "header"
  /\ fifo_write_header
  /\ pc' = "start"
  /\ UNCHANGED <<inputVars, outgoing, complete>>

Start ==
  /\ pc = "start"
  /\ init_input_thread
  /\ pc' = "get"
  /\ UNCHANGED <<fifoVars, outgoing, complete>>

\* A packet goes on to the muxer; AVERROR(EAGAIN) makes the main thread come back
\* later; the end, or an error, ends the loop, after a flush if the client likes.
GetPacket ==
  /\ pc = "get"
  /\ get_input_packet_mt
  /\ LET r == in_ret'["main"] IN
     \/ r \in Pkts /\ outgoing' = Packet(r) /\ pc' = "write" /\ UNCHANGED complete
     \/ r = EAGAIN /\ UNCHANGED main
     \/ /\ r \in Errors
        /\ complete' = (r = EOF)
        /\ outgoing' = Flush
        /\ pc' \in {"write", "free"}
  /\ UNCHANGED fifoVars

\* The user presses q.
Quit ==
  /\ pc = "get"
  /\ pc' = "free"
  /\ UNCHANGED <<inputVars, fifoVars, outgoing, complete>>

AfterWrite == IF outgoing = Flush THEN "free" ELSE "get"

Write ==
  /\ pc = "write"
  /\ WriteSent(outgoing)
  /\ pc' = AfterWrite
  /\ UNCHANGED <<inputVars, outgoing, complete>>

\* write_packet closes the output's streams, which ends the loop.
WriteError ==
  /\ pc = "write"
  /\ WriteFails(outgoing)
  /\ pc' = "free" /\ complete' = FALSE
  /\ UNCHANGED <<inputVars, outgoing>>

WriteDropped ==
  /\ pc = "write"
  /\ WriteOverflows
  /\ pc' = "overflow"
  /\ UNCHANGED <<inputVars, outgoing, complete>>

Overflow ==
  /\ pc = "overflow"
  /\ SetOverflow
  /\ pc' = AfterWrite
  /\ UNCHANGED <<inputVars, outgoing, complete>>

\* free_input_threads
FreeInput ==
  /\ pc = "free"
  /\ StopInput
  /\ pc' = "drain"
  /\ UNCHANGED <<fifoVars, outgoing, complete>>

Drain ==
  /\ pc = "drain"
  /\ \/ DrainInput /\ UNCHANGED pc
     \/ DrainEnds /\ pc' = "join"
  /\ UNCHANGED <<fifoVars, outgoing, complete>>

Joined ==
  /\ pc = "join"
  /\ JoinInput
  /\ pc' = "trailer"
  /\ UNCHANGED <<fifoVars, outgoing, complete>>

\* av_write_trailer
WriteTrailer ==
  /\ pc = "trailer"
  /\ EndOfPackets
  /\ pc' = "wait"
  /\ UNCHANGED <<inputVars, outgoing, complete>>

Closes ==
  /\ pc = "wait"
  /\ JoinWriter
  /\ pc' = "closed"
  /\ UNCHANGED <<inputVars, outgoing, complete>>

Main == \/ Open \/ Start \/ GetPacket \/ Write \/ WriteError \/ WriteDropped
        \/ Overflow \/ FreeInput \/ Drain \/ Joined \/ WriteTrailer \/ Closes

Input  == input_thread /\ UNCHANGED <<fifoVars, main>>
Writer == fifo_consumer_thread /\ UNCHANGED <<inputVars, main>>

Next == Main \/ Quit \/ Input \/ Writer

Spec == Init /\ [][Next]_vars

\* The threads run, and av_read_frame and the underlying muxer return.
FairSpec == Spec /\ WF_vars(Main) /\ WF_vars(Input) /\ WF_vars(Writer)

-----------------------------------------------------------------------------
\* Types of the state; and after max_recovery_attempts, the "Maximal number of
\* unsuccessful successive recovery attempts" of fifo.c:56, the writer ends, unless
\* the underlying muxer fails with AVERROR(EAGAIN) (fifo.c:306, :400).
TypeOK ==
  /\ InputTypeOK /\ FifoTypeOK
  /\ pc \in {"header", "start", "get", "write", "overflow", "free", "drain", "join",
             "trailer", "wait", "closed"}
  /\ outgoing \in Messages /\ complete \in BOOLEAN

Written == {i \in DOMAIN output : output[i].ev = "packet"}

\* The output is a series of files: each has its header, then packets, then its
\* trailer, which the last one has too when the muxer is closed.
Files ==
  /\ \A i \in DOMAIN output :
       LET before == IF i = 1 THEN "trailer" ELSE output[i - 1].ev IN
       IF output[i].ev = "header" THEN before = "trailer" ELSE before # "trailer"
  /\ pc = "closed" /\ output # <<>> => output[Len(output)].ev = "trailer"

\* However often the output failed and was restarted, its files are whole, and
\* the packets in them are those of the input, in order, each once: all of them,
\* when nothing may be dropped, the client saw no error and neither did the
\* writer before the end.  Without recovery their timestamps are converted once;
\* a packet that is tried again is converted again (fifo.c:204).
OutputFaithful ==
  /\ Files
  /\ \A i \in Written : output[i].scaled = 1 \/ fifo.attempt_recovery
  /\ \A i, j \in Written : i < j => output[i].pkt < output[j].pkt
  /\ pc = "closed" /\ complete /\ ~fifo.drop_pkts_on_overflow /\ out_err_send = EOF
       => {output[i].pkt : i \in Written} = Pkts

\* The writer may not drop the message, and dispatching it fails for ever: unless
\* it gives up, which it does neither on AVERROR(EAGAIN) nor if the number of its
\* attempts is unlimited, as by default, it never leaves the loop of fifo.c:391-400.
RetriesForEver ==
  /\ ~fifo.drop_pkts_on_overflow
  /\ \/ ~fifo.attempt_recovery /\ fifo.again
     \/ /\ fifo.attempt_recovery /\ fifo.outage
        /\ fifo.max_recovery_attempts = 0 \/ fifo.again

\* The program ends, whatever fails and whenever the user quits: no thread waits for
\* ever for another.  It does not if the writer recovers for ever, as it may when it
\* RetriesForEver: the main thread is then in pthread_join (fifo.c:634), or before
\* that in a send that finds the queue full.
Ends == <>(pc = "closed") \/ <>[](wpc = "recover" /\ RetriesForEver)
=============================================================================
