----------------------------- MODULE TfEncoder -----------------------------
(***************************************************************************)
(* The Thinkforce hardware encoder (libavcodec/tfenc.c) under the          *)
(* send/receive interface of libavcodec/encode.c.                          *)
(*                                                                         *)
(* The caller of the libavcodec API feeds frames to the external session   *)
(* and keeps their timestamps in timestamp_list, its own ring.  The        *)
(* session's thread runs ff_tfenc_callback for every encoded frame, which  *)
(* puts it in output_buffer_ready_queue.  The callback writes that ring    *)
(* under the mutex, but the caller looks at it and reads it WITHOUT the    *)
(* mutex; neither looks at the free space.  A packet gets the oldest       *)
(* timestamp of the other ring.                                            *)
(*                                                                         *)
(* The callback's write is two steps, the slot and the index.  The         *)
(* caller's read is one: the callback does not look at what it moves.      *)
(* Frames are named by the order in which they were accepted, and the      *)
(* timestamp of a frame is its name.                                       *)
(***************************************************************************)
EXTENDS Fifo, FiniteSets

CONSTANTS NbBuffers,  \* slots of the two rings, 4 in the code
          Depth,      \* frames a session takes before tfenc_process_frame waits
          MaxFrames,  \* bound: frames the client sends
          MaxFlush,   \* bound: calls of avcodec_flush_buffers
          None

ASSUME NbBuffersAssumption == NbBuffers \in Nat \ {0} /\ NbBuffers + 1 < IdxMod
ASSUME DepthAssumption == Depth \in Nat \ {0}
ASSUME BoundsAssumption == MaxFrames \in Nat /\ MaxFlush \in Nat

Frames == 1 .. MaxFrames
Packets == [frame : Frames \cup {NoElem}, pts : Frames \cup {None, NoElem}]
ASSUME TokensAssumption ==
  /\ None \notin Nat /\ NoElem \notin Nat /\ None # "callback"
  /\ None \notin Packets /\ None \notin FifoType(Frames, NbBuffers)

VARIABLES
  ordered,                   \* are the stores of fifo.c:136 and :146 seen in order?
  pc, caller,                \* the API call in progress and its next statement
  sent,                      \* frames accepted so far
  buffer_frame, buffer_pkt, draining, draining_done,  \* AVCodecInternal
  frame,                     \* TfencContext.frame, empty between calls
  timestamp_list, output_buffer_ready_queue, closed, mutex,
  hw, cb,                    \* the session: frames inside, callback's next step
  received,                  \* packets the client received since the last flush
  again,                     \* sides whose last call said AVERROR(EAGAIN)
  last,                      \* result of the last avcodec_receive_packet
  flushes, mark              \* flushes so far; frames accepted before the last

call == <<pc, caller, frame>>
avci == <<buffer_frame, buffer_pkt, draining, draining_done>>
seen == <<received, again, last>>
past == <<sent, flushes, mark>>
rest == <<ordered, closed, past>>
vars == <<call, avci, seen, rest, timestamp_list, output_buffer_ready_queue,
          mutex, hw, cb>>

nb_buffers_TooFew == NbBuffers - 1
nb_buffers == NbBuffers

output_ready == av_fifo_size(output_buffer_ready_queue)

Init ==
  /\ ordered \in BOOLEAN
  /\ pc = "idle" /\ caller = None /\ frame = None
  /\ sent = 0
  /\ buffer_frame = None /\ buffer_pkt = None
  /\ draining = FALSE /\ draining_done = FALSE
  /\ timestamp_list = av_fifo_alloc(nb_buffers)
  /\ output_buffer_ready_queue = av_fifo_alloc(nb_buffers)
  /\ closed = FALSE /\ mutex = None
  /\ hw = <<>> /\ cb = "none"
  /\ received = <<>> /\ again = {} /\ last = "none"
  /\ flushes = 0 /\ mark = 0

-----------------------------------------------------------------------------
(* The libavcodec API: avcodec_send_frame, avcodec_receive_packet.         *)

SendResult(r) == again' = IF r = "EAGAIN" THEN again \cup {"send"} ELSE {}
RecvResult(r) == /\ again' = IF r = "EAGAIN" THEN again \cup {"recv"} ELSE {}
                 /\ last' = r

\* A packet is encoded ahead, unless one is already waiting.
SendAccepted ==
  IF buffer_pkt = None
  THEN pc' = "get" /\ caller' = "send" /\ UNCHANGED again
  ELSE SendResult("OK") /\ UNCHANGED <<pc, caller>>

SendRefused(r) == SendResult(r) /\ UNCHANGED <<pc, caller>>

SendFrame ==
  /\ pc = "idle" /\ sent < MaxFrames
  /\ IF draining \/ buffer_frame # None
     THEN /\ SendRefused(IF draining THEN "EOF" ELSE "EAGAIN")
          /\ UNCHANGED <<sent, buffer_frame>>
     ELSE /\ sent' = sent + 1 /\ buffer_frame' = sent + 1
          /\ SendAccepted
  /\ UNCHANGED <<frame, buffer_pkt, draining, draining_done, received, last,
                 ordered, closed, flushes, mark, timestamp_list,
                 output_buffer_ready_queue, mutex, hw, cb>>

\* The end of the stream: a NULL frame.
SendEOF ==
  /\ pc = "idle"
  /\ IF draining \/ buffer_frame # None
     THEN /\ SendRefused(IF draining THEN "EOF" ELSE "EAGAIN")
          /\ UNCHANGED draining
     ELSE draining' = TRUE /\ SendAccepted
  /\ UNCHANGED <<frame, buffer_frame, buffer_pkt, draining_done, received, last,
                 rest, timestamp_list, output_buffer_ready_queue, mutex, hw, cb>>

ReceivePacket ==
  /\ pc = "idle"
  /\ IF buffer_pkt # None
     THEN /\ received' = Append(received, buffer_pkt)
          /\ buffer_pkt' = None
          /\ RecvResult("OK")
          /\ UNCHANGED <<pc, caller>>
     ELSE /\ pc' = "get" /\ caller' = "recv"
          /\ UNCHANGED <<buffer_pkt, seen>>
  /\ UNCHANGED <<frame, buffer_frame, draining, draining_done, rest,
                 timestamp_list, output_buffer_ready_queue, mutex, hw, cb>>

\* encode_receive_packet_internal returns r, with packet p when r is "OK".
EncodeReturns(r, p) ==
  /\ pc' = "idle" /\ caller' = None
  /\ draining_done' = (draining_done \/ r = "EOF")
  /\ IF caller = "send"
     THEN /\ buffer_pkt' = p
          /\ SendResult("OK")
          /\ UNCHANGED <<received, last>>
     ELSE /\ RecvResult(r)
          /\ received' = IF r = "OK" THEN Append(received, p) ELSE received
          /\ UNCHANGED buffer_pkt

-----------------------------------------------------------------------------
(* ff_tf_enc_receive_packet *)

\* Nothing to encode: the output is not looked at, unless draining.
GetNothing ==
  /\ pc = "get"
  /\ IF draining_done
     THEN EncodeReturns("EOF", None)
     ELSE ~draining /\ buffer_frame = None /\ EncodeReturns("EAGAIN", None)
  /\ UNCHANGED <<frame, buffer_frame, draining, rest, timestamp_list,
                 output_buffer_ready_queue, mutex, hw, cb>>

GetDraining ==
  /\ pc = "get" /\ draining /\ ~draining_done
  /\ pc' = "ready"
  /\ UNCHANGED <<caller, frame, avci, seen, rest, timestamp_list,
                 output_buffer_ready_queue, mutex, hw, cb>>

GetFrame ==
  /\ pc = "get" /\ ~draining /\ ~draining_done /\ buffer_frame # None
  /\ frame' = buffer_frame /\ buffer_frame' = None
  /\ pc' = "process"
  /\ UNCHANGED <<caller, buffer_pkt, draining, draining_done, seen, rest,
                 timestamp_list, output_buffer_ready_queue, mutex, hw, cb>>

\* The timestamp is left out of the list while the session has other frames.
ProcessFrame_NoStamp ==
  /\ pc = "process" /\ Len(hw) < Depth
  /\ hw' = Append(hw, frame)
  /\ timestamp_list' = IF hw = <<>> THEN av_fifo_write(timestamp_list, frame)
                                    ELSE timestamp_list
  /\ frame' = None
  /\ pc' = "ready"
  /\ UNCHANGED <<caller, avci, seen, rest, output_buffer_ready_queue, mutex, cb>>

\* tfenc_process_frame waits until the session takes the frame.
ProcessFrame ==
  /\ pc = "process" /\ Len(hw) < Depth
  /\ hw' = Append(hw, frame)
  /\ timestamp_list' = av_fifo_write(timestamp_list, frame)
  /\ frame' = None
  /\ pc' = "ready"
  /\ UNCHANGED <<caller, avci, seen, rest, output_buffer_ready_queue, mutex, cb>>

OutputReady ==
  /\ pc = "ready" /\ output_ready > 0
  /\ pc' = "read"
  /\ UNCHANGED <<caller, frame, avci, seen, rest, timestamp_list,
                 output_buffer_ready_queue, mutex, hw, cb>>

\* A drain ends when nothing is ready, whatever the session still holds.
OutputNothing ==
  /\ pc = "ready" /\ output_ready = 0
  /\ EncodeReturns(IF draining THEN "EOF" ELSE "EAGAIN", None)
  /\ UNCHANGED <<frame, buffer_frame, draining, rest, timestamp_list,
                 output_buffer_ready_queue, mutex, hw, cb>>

\* timestamp_queue_dequeue, AV_NOPTS_VALUE (None) from an empty list.
Timestamp == IF av_fifo_size(timestamp_list) > 0
             THEN av_fifo_peek(timestamp_list) ELSE None

OutputRead ==
  /\ pc = "read"
  /\ output_buffer_ready_queue' = av_fifo_read(output_buffer_ready_queue)
  /\ timestamp_list' = IF av_fifo_size(timestamp_list) > 0
                       THEN av_fifo_read(timestamp_list) ELSE timestamp_list
  /\ EncodeReturns("OK", [frame |-> av_fifo_peek(output_buffer_ready_queue),
                          pts   |-> Timestamp])
  /\ UNCHANGED <<frame, buffer_frame, draining, rest, mutex, hw, cb>>

-----------------------------------------------------------------------------
(* The session (external): one packet for each frame, in order.  The frame *)
(* it returns keeps its place until the callback is done.                  *)

HwOutput ==
  /\ cb = "none" /\ hw # <<>>
  /\ cb' = "called"
  /\ UNCHANGED <<call, avci, seen, rest, timestamp_list,
                 output_buffer_ready_queue, mutex, hw>>

CallbackDone == cb' = "none" /\ hw' = Tail(hw) /\ mutex' = None

\* After the end there is no queue any more.
CallbackAfterEnd ==
  /\ cb = "called" /\ mutex = None /\ closed
  /\ CallbackDone
  /\ UNCHANGED <<call, avci, seen, rest, timestamp_list,
                 output_buffer_ready_queue>>

CallbackCopy ==
  /\ cb = "called" /\ mutex = None /\ ~closed
  /\ mutex' = "callback"
  /\ output_buffer_ready_queue' =
       av_fifo_copy(output_buffer_ready_queue, Head(hw))
  /\ cb' = "copied"
  /\ UNCHANGED <<call, avci, seen, rest, timestamp_list, hw>>

CallbackPublish ==
  /\ cb = "copied"
  /\ output_buffer_ready_queue' = av_fifo_publish(output_buffer_ready_queue)
  /\ CallbackDone
  /\ UNCHANGED <<call, avci, seen, rest, timestamp_list>>

\* Without a barrier the reader may see the index before the slot.
CallbackIndexFirst ==
  /\ cb = "called" /\ mutex = None /\ ~closed /\ ~ordered
  /\ mutex' = "callback"
  /\ output_buffer_ready_queue' =
       [output_buffer_ready_queue EXCEPT !.wndx = Wrap(@ + 1, IdxMod)]
  /\ cb' = "indexed"
  /\ UNCHANGED <<call, avci, seen, rest, timestamp_list, hw>>

CallbackSlotLast ==
  /\ cb = "indexed"
  /\ output_buffer_ready_queue' =
       [av_fifo_copy(output_buffer_ready_queue, Head(hw))
          EXCEPT !.wptr = Wrap(@ + 1, nb_buffers)]
  /\ CallbackDone
  /\ UNCHANGED <<call, avci, seen, rest, timestamp_list>>

\* tfenc_encoder_destroy delivers some of what the session holds and drops the
\* rest; it returns when no callback runs.
HwStop ==
  /\ pc = "close_destroy" /\ cb = "none"
  /\ hw' = <<>> /\ pc' = "closed"
  /\ UNCHANGED <<caller, frame, avci, seen, rest, timestamp_list,
                 output_buffer_ready_queue, mutex, cb>>

-----------------------------------------------------------------------------
(* avcodec_flush_buffers with ff_tf_encode_flush; ff_tf_enc_close.         *)

\* Only the timestamps are forgotten: the packets and the session are not.
Flush ==
  /\ pc = "idle" /\ flushes < MaxFlush
  /\ flushes' = flushes + 1 /\ mark' = sent
  /\ draining' = FALSE /\ draining_done' = FALSE
  /\ buffer_frame' = None /\ buffer_pkt' = None
  /\ timestamp_list' = av_fifo_reset(timestamp_list)
  /\ received' = <<>> /\ again' = {} /\ last' = "none"
  /\ UNCHANGED <<ordered, call, sent, closed, output_buffer_ready_queue, mutex, hw, cb>>

\* The flag is set before the mutex is taken.
Close ==
  /\ pc = "idle"
  /\ closed' = TRUE
  /\ pc' = "close_free"
  /\ UNCHANGED <<ordered, caller, frame, avci, seen, past, timestamp_list,
                 output_buffer_ready_queue, mutex, hw, cb>>

\* The queue is freed while a callback may be writing to it.
CloseFree_NoLock ==
  /\ pc = "close_free"
  /\ output_buffer_ready_queue' = None
  /\ pc' = "close_destroy"
  /\ UNCHANGED <<caller, frame, avci, seen, rest, timestamp_list, mutex, hw, cb>>

\* The mutex is kept until the session is destroyed.
CloseFree_Locked ==
  /\ pc = "close_free" /\ mutex = None
  /\ mutex' = "caller"
  /\ output_buffer_ready_queue' = None
  /\ pc' = "close_destroy"
  /\ UNCHANGED <<caller, frame, avci, seen, rest, timestamp_list, hw, cb>>

CloseFree ==
  /\ pc = "close_free" /\ mutex = None
  /\ output_buffer_ready_queue' = None
  /\ pc' = "close_destroy"
  /\ UNCHANGED <<caller, frame, avci, seen, rest, timestamp_list, mutex, hw, cb>>

Closed == pc = "closed" /\ UNCHANGED vars

Client == SendFrame \/ SendEOF \/ ReceivePacket \/ Flush \/ Close

InCall == \/ GetNothing \/ GetDraining \/ GetFrame \/ ProcessFrame
          \/ OutputReady \/ OutputNothing \/ OutputRead \/ CloseFree

Callback == \/ CallbackAfterEnd \/ CallbackCopy \/ CallbackPublish
            \/ CallbackIndexFirst \/ CallbackSlotLast

Next == Client \/ InCall \/ HwOutput \/ Callback \/ HwStop \/ Closed

Spec == Init /\ [][Next]_vars

\* Both threads keep running, the session encodes what it has, and
\* tfenc_encoder_destroy returns when it can.  The client calls or does not.
FairSpec == /\ Spec
            /\ WF_vars(InCall) /\ WF_vars(HwOutput)
            /\ WF_vars(Callback) /\ WF_vars(HwStop)

-----------------------------------------------------------------------------
\* Types of the state.
TypeOK ==
  /\ ordered \in BOOLEAN
  /\ pc \in {"idle", "get", "process", "ready", "read", "close_free",
             "close_destroy", "closed"}
  /\ caller \in {"send", "recv", None}
  /\ sent \in 0 .. MaxFrames
  /\ frame \in Frames \cup {None} /\ buffer_frame \in Frames \cup {None}
  /\ buffer_pkt \in Packets \cup {None}
  /\ draining \in BOOLEAN /\ draining_done \in BOOLEAN /\ closed \in BOOLEAN
  /\ timestamp_list \in FifoType(Frames, NbBuffers)
  /\ output_buffer_ready_queue \in FifoType(Frames, NbBuffers) \cup {None}
  /\ mutex \in {"callback", None}
  /\ hw \in Seq(Frames) /\ Len(hw) <= Depth
  /\ cb \in {"none", "called", "copied", "indexed"}
  /\ received \in Seq(Packets)
  /\ again \subseteq {"send", "recv"}
  /\ last \in {"none", "OK", "EAGAIN", "EOF"}
  /\ flushes \in 0 .. MaxFlush /\ mark \in 0 .. MaxFrames

\* Neither ring is written when it is full, although nobody looks at its free
\* space (tfenc.c:94 "out of range?", :101, :319): the caller takes a packet out
\* for every frame it puts in, as soon as there is one.
NoOverrun ==
  /\ av_fifo_size(timestamp_list) <= nb_buffers
  /\ ~closed => output_ready <= nb_buffers

\* No frame is lost, repeated or overtaken on its way through the session, the
\* ring and buffer_pkt, and every packet carries the timestamp of the frame it was
\* encoded from: the two rings and the session stay in step (tfenc.c:365, :456).
\* Not after a flush, which leaves the session and the packet ring as they are,
\* nor without the barrier that fifo.c:139 asks for, when the reader may see a
\* slot too early.
PacketsInStep ==
  ordered /\ flushes = 0 =>
    \A i \in 1 .. Len(received) : received[i] = [frame |-> i, pts |-> i]

\* ff_tf_enc_close does not free the queue under a callback that writes to it.
QueueAlive == cb \in {"copied", "indexed"} => output_buffer_ready_queue # None

\* Every call of the API returns, avcodec_close included.
CallReturns == (pc # "idle") ~> (pc \in {"idle", "closed"})

\* avcodec.h:3254 of AVERROR_EOF: "the encoder has been fully flushed, and there
\* will be no more output packets": every frame gave its packet.
CompleteAtEOF == last = "EOF" => Len(received) = sent - mark
=============================================================================
