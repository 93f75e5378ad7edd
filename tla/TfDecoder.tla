----------------------------- MODULE TfDecoder -----------------------------
(***************************************************************************)
(* The Thinkforce hardware decoder (libavcodec/tfvid.c) under the          *)
(* send/receive interface of libavcodec/decode.c and the bitstream filter  *)
(* of libavcodec/bsf.c.                                                    *)
(*                                                                         *)
(* Two threads share frame_queue, eos_received and closed: the caller of   *)
(* the libavcodec API, and the thread of the external decoder session that *)
(* runs ff_tfdec_callback.  The caller looks at the queue WITHOUT the      *)
(* mutex and takes it only to remove an element, so each such look is an   *)
(* action of its own; what either thread does under the mutex is one       *)
(* action, but for a callback that marks the end and queues a frame.       *)
(*                                                                         *)
(* Frames are named by the packet they were decoded from, packets by the   *)
(* order in which they were accepted.  frame_queue is a sequence: under    *)
(* the mutex an element is written only when there is room, where the ring *)
(* of Fifo appends (WriteAppends in ThreadMessageProofs).                  *)
(***************************************************************************)
EXTENDS Integers, Sequences, FiniteSets

CONSTANTS InCap,       \* input queue of a session, tfdec_query_input_queue
          Slack,       \* slots of frame_queue beyond InCap, 5 in the code
          MaxPkts,     \* bound: packets the client sends
          Setups,      \* the sessions and clients a behaviour may have
          None, EOS

\* depth: pictures a session decodes or waits to return; flushes: bound on the
\* calls of avcodec_flush_buffers; eager: may the client end the stream with
\* output unread?  fails: may a session fail to be created again on a flush?
\* joint: may the session mark its last picture with the end of the stream, rather
\* than send the end alone?  refuses: may it refuse a buffer it has room for?
Setup == [depth : Nat \ {0}, flushes : Nat, eager : BOOLEAN, fails : BOOLEAN,
          joint : BOOLEAN, refuses : BOOLEAN]

ASSUME SizesAssumption == /\ InCap \in Nat \ {0} /\ Slack \in Nat
                          /\ MaxPkts \in Nat /\ Setups \subseteq Setup
ASSUME TokensAssumption == None # EOS /\ {None, EOS} \cap Nat = {}

VARIABLES
  setup,                 \* chosen at the start
  pc, caller,            \* the API call in progress and its next statement
  pkt,                   \* the packet inside tfvid_output_frame
  sent,                  \* packets accepted so far
  bsf_pkt, bsf_eof,      \* AVBSFInternal: buffer_pkt, eof
  draining,              \* AVCodecInternal.draining
  buffer_frame,          \* AVCodecInternal.buffer_frame
  frame_queue, decoder_flushing, eos_sent, eos_received, closed,
  handle,                \* is there a session?
  inq, pipe, cb,         \* the session: input, pictures, callback running
  skipped,               \* packets that gave no picture: skipped or refused
  delivered,             \* frames the client received since the last flush
  again,                 \* sides whose last call said AVERROR(EAGAIN)
  last,                  \* result of the last avcodec_receive_frame
  flushes, mark          \* flushes so far; packets accepted before the last

api  == <<bsf_pkt, bsf_eof, draining, buffer_frame>>
ctx  == <<frame_queue, decoder_flushing, eos_sent, eos_received, closed, handle>>
hw   == <<inq, pipe, cb, skipped>>
seen == <<delivered, again, last>>
epoch == <<setup, flushes, mark>>
vars == <<pc, caller, pkt, sent, api, ctx, hw, seen, epoch>>

\* `ctx->input_queue_capacity + 5`
nb_outbuffers_TooSmall == InCap
nb_outbuffers == InCap + Slack

tfvid_is_buffer_full == Len(frame_queue) >= nb_outbuffers
tfdec_query_input_queue == InCap - Len(inq)

Init ==
  /\ setup \in Setups
  /\ pc = "idle" /\ caller = None /\ pkt = None /\ sent = 0
  /\ bsf_pkt = None /\ bsf_eof = FALSE
  /\ draining = FALSE /\ buffer_frame = None
  /\ frame_queue = <<>> /\ decoder_flushing = FALSE
  /\ eos_sent = FALSE /\ eos_received = FALSE /\ closed = FALSE
  /\ handle = TRUE
  /\ inq = <<>> /\ pipe = <<>> /\ cb = None /\ skipped = {}
  /\ delivered = <<>> /\ again = {} /\ last = "none"
  /\ flushes = 0 /\ mark = 0

-----------------------------------------------------------------------------
(* The libavcodec API: avcodec_send_packet and avcodec_receive_frame.      *)
(* "ERROR" is any code but AVERROR(EAGAIN), and but AVERROR_EOF when a     *)
(* frame is received.                                                      *)

SendResult(r) == again' = IF r = "EAGAIN" THEN again \cup {"send"} ELSE {}
RecvResult(r) == /\ again' = IF r = "EAGAIN" THEN again \cup {"recv"} ELSE {}
                 /\ last' = r

\* A client that follows the documented loop (avcodec.h:113) ends the stream
\* when it has read the output.
MayDrain == setup.eager \/ sent = mark \/ "recv" \in again

\* After the packet went to the bitstream filter a frame is decoded ahead,
\* unless one is already waiting.
SendAccepted ==
  IF buffer_frame = None
  THEN pc' = "check" /\ caller' = "send" /\ UNCHANGED again
  ELSE SendResult("OK") /\ UNCHANGED <<pc, caller>>

SendRefused(r) == SendResult(r) /\ UNCHANGED <<pc, caller>>

SendPacket ==
  /\ pc = "idle" /\ sent < MaxPkts
  /\ IF draining \/ bsf_eof
     THEN SendRefused("ERROR") /\ UNCHANGED <<sent, bsf_pkt>>
     ELSE IF bsf_pkt # None
     THEN SendRefused("EAGAIN") /\ UNCHANGED <<sent, bsf_pkt>>
     ELSE /\ sent' = sent + 1
          /\ bsf_pkt' = sent + 1
          /\ SendAccepted
  /\ UNCHANGED <<pkt, bsf_eof, draining, buffer_frame, ctx, hw, delivered, last,
                 epoch>>

\* The end of the stream: an empty packet.
SendEOF ==
  /\ pc = "idle" /\ MayDrain
  /\ IF draining
     THEN SendRefused("ERROR") /\ UNCHANGED bsf_eof
     ELSE bsf_eof' = TRUE /\ SendAccepted
  /\ UNCHANGED <<pkt, sent, bsf_pkt, draining, buffer_frame, ctx, hw, delivered,
                 last, epoch>>

ReceiveFrame ==
  /\ pc = "idle"
  /\ IF buffer_frame # None
     THEN /\ delivered' = Append(delivered, buffer_frame)
          /\ buffer_frame' = None
          /\ RecvResult("OK")
          /\ UNCHANGED <<pc, caller>>
     ELSE /\ pc' = "check" /\ caller' = "recv"
          /\ UNCHANGED <<buffer_frame, seen>>
  /\ UNCHANGED <<pkt, sent, bsf_pkt, bsf_eof, draining, ctx, hw, epoch>>

\* decode_receive_frame_internal returns r, with frame f when r is "OK".
DecodeReturns(r, f) ==
  /\ pc' = "idle" /\ caller' = None
  /\ IF caller = "send"
     THEN /\ buffer_frame' = f
          /\ SendResult(IF r = "ERROR" THEN r ELSE "OK")
          /\ UNCHANGED <<delivered, last>>
     ELSE /\ RecvResult(r)
          /\ delivered' = IF r = "OK" THEN Append(delivered, f) ELSE delivered
          /\ UNCHANGED buffer_frame

-----------------------------------------------------------------------------
(* tfvid_output_frame *)

FetchesInput == ~decoder_flushing /\ ~tfvid_is_buffer_full

AfterInput == IF decoder_flushing' /\ ~eos_sent THEN "drain" ELSE "output"

\* A full queue is an excuse to return without a frame.
NoFetch_Again ==
  /\ pc = "check" /\ ~FetchesInput
  /\ IF decoder_flushing
     THEN /\ pc' = IF eos_sent THEN "output" ELSE "drain"
          /\ UNCHANGED <<caller, buffer_frame, seen>>
     ELSE DecodeReturns("EAGAIN", None)
  /\ UNCHANGED <<pkt, sent, bsf_pkt, bsf_eof, draining, ctx, hw, epoch>>

\* The queue is full, or the stream has ended: no input is taken.
NoFetch ==
  /\ pc = "check" /\ ~FetchesInput
  /\ UNCHANGED ctx
  /\ pc' = AfterInput
  /\ UNCHANGED <<caller, pkt, sent, api, hw, seen, epoch>>

\* ff_decode_get_packet and av_bsf_receive_packet: the end of the stream comes
\* before the packet the filter holds.
FetchEOF ==
  /\ pc = "check" /\ FetchesInput
  /\ draining \/ bsf_eof
  /\ draining' = TRUE
  /\ decoder_flushing' = TRUE
  /\ pc' = AfterInput
  /\ UNCHANGED <<caller, pkt, sent, bsf_pkt, bsf_eof, buffer_frame, frame_queue,
                 eos_sent, eos_received, closed, handle, hw, seen, epoch>>

FetchNothing ==
  /\ pc = "check" /\ FetchesInput
  /\ ~draining /\ ~bsf_eof /\ bsf_pkt = None
  /\ DecodeReturns("EAGAIN", None)
  /\ UNCHANGED <<pkt, sent, bsf_pkt, bsf_eof, draining, ctx, hw, epoch>>

FetchPacket ==
  /\ pc = "check" /\ FetchesInput
  /\ ~draining /\ ~bsf_eof /\ bsf_pkt # None
  /\ pkt' = bsf_pkt /\ bsf_pkt' = None
  /\ pc' = "decode"
  /\ UNCHANGED <<caller, sent, bsf_eof, draining, buffer_frame, ctx, hw, seen,
                 epoch>>

\* tfvid_decode_packet looks at the queue again: AVERROR(EAGAIN), which the
\* caller turns into AVERROR_EXTERNAL without a word to the packet.
DecodeRefused ==
  /\ pc = "decode"
  /\ tfvid_is_buffer_full
  /\ pkt' = None
  /\ DecodeReturns("ERROR", None)
  /\ UNCHANGED <<sent, bsf_pkt, bsf_eof, draining, ctx, hw, epoch>>

DecodeAllowed ==
  /\ pc = "decode"
  /\ ~tfvid_is_buffer_full
  /\ pc' = "enqueue"
  /\ UNCHANGED <<caller, pkt, sent, api, ctx, hw, seen, epoch>>

\* Another packet is enqueued although the input queue is full.
Enqueue_NoRoom ==
  /\ pc = "enqueue" /\ handle
  /\ inq' = Append(inq, pkt)
  /\ pkt' = None
  /\ pc' = "output"
  /\ UNCHANGED <<caller, sent, api, ctx, pipe, cb, skipped, seen, epoch>>

\* tfdec_enqueue_buffer, tried until the input queue has room.
Enqueue ==
  /\ pc = "enqueue"
  /\ handle /\ tfdec_query_input_queue > 0
  /\ inq' = Append(inq, pkt)
  /\ pkt' = None
  /\ pc' = "output"
  /\ UNCHANGED <<caller, sent, api, ctx, pipe, cb, skipped, seen, epoch>>

\* Without a session, or when it refuses the packet, tfdec_enqueue_buffer fails.
EnqueueFails ==
  /\ pc = "enqueue" /\ (~handle \/ setup.refuses)
  /\ pkt' = None /\ skipped' = skipped \cup {pkt}
  /\ DecodeReturns("ERROR", None)
  /\ UNCHANGED <<sent, bsf_pkt, bsf_eof, draining, ctx, inq, pipe, cb, epoch>>

\* The session is told of the end when it has taken every packet, unless a
\* frame can be returned meanwhile.
DrainWaits == /\ frame_queue = <<>>
              /\ handle /\ tfdec_query_input_queue < InCap
              /\ ~closed

Drain ==
  /\ pc = "drain"
  /\ ~DrainWaits
  /\ pc' = "eos"
  /\ UNCHANGED <<caller, pkt, sent, api, ctx, hw, seen, epoch>>

DrainEOS ==
  /\ pc = "eos"
  /\ IF handle /\ tfdec_query_input_queue = InCap
     THEN inq' = Append(inq, EOS) /\ eos_sent' = TRUE
     ELSE UNCHANGED <<inq, eos_sent>>
  /\ pc' = "output"
  /\ UNCHANGED <<caller, pkt, sent, api, frame_queue, decoder_flushing,
                 eos_received, closed, handle, pipe, cb, skipped, seen, epoch>>

\* The session refuses the end of the stream, which counts as sent all the same.
DrainFails ==
  /\ pc = "eos" /\ handle /\ tfdec_query_input_queue = InCap /\ setup.refuses
  /\ eos_sent' = TRUE
  /\ DecodeReturns("ERROR", None)
  /\ UNCHANGED <<pkt, sent, bsf_pkt, bsf_eof, draining, frame_queue,
                 decoder_flushing, eos_received, closed, handle, hw, epoch>>

OutputWaits == /\ frame_queue = <<>>
               /\ decoder_flushing /\ ~eos_received /\ ~closed

OutputFrame ==
  /\ pc = "output" /\ frame_queue # <<>>
  /\ frame_queue' = Tail(frame_queue)
  /\ DecodeReturns("OK", Head(frame_queue))
  /\ UNCHANGED <<pkt, sent, bsf_pkt, bsf_eof, draining, decoder_flushing,
                 eos_sent, eos_received, closed, handle, hw, epoch>>

\* The end of the stream is taken from what was sent, not from what came back.
OutputNothing_EosSent ==
  /\ pc = "output" /\ frame_queue = <<>>
  /\ decoder_flushing => eos_sent
  /\ DecodeReturns(IF decoder_flushing THEN "EOF" ELSE "EAGAIN", None)
  /\ UNCHANGED <<pkt, sent, bsf_pkt, bsf_eof, draining, ctx, hw, epoch>>

OutputNothing ==
  /\ pc = "output" /\ frame_queue = <<>> /\ ~OutputWaits
  /\ DecodeReturns(IF decoder_flushing /\ eos_received THEN "EOF" ELSE "EAGAIN",
                   None)
  /\ UNCHANGED <<pkt, sent, bsf_pkt, bsf_eof, draining, ctx, hw, epoch>>

-----------------------------------------------------------------------------
(* The session (external) and ff_tfdec_callback, which runs in its thread. *)

SessionLive == handle

\* A packet enters the pipeline, or gives no picture.
HwDecode ==
  /\ SessionLive /\ inq # <<>>
  /\ \/ /\ Len(pipe) < setup.depth
        /\ pipe' = Append(pipe, Head(inq))
        /\ UNCHANGED skipped
     \/ Head(inq) # EOS /\ skipped' = skipped \cup {Head(inq)} /\ UNCHANGED pipe
  /\ inq' = Tail(inq)
  /\ UNCHANGED <<pc, caller, pkt, sent, api, ctx, cb, seen, epoch>>

\* The callback starts: the picture keeps its buffer until it returns.
HwOutput ==
  /\ SessionLive /\ cb = None /\ pipe # <<>>
  /\ cb' = Head(pipe)
  /\ UNCHANGED <<pc, caller, pkt, sent, api, ctx, inq, pipe, skipped, seen,
                 epoch>>

CallbackDone == cb' = None /\ pipe' = Tail(pipe)

\* The end of the stream comes without data: there is nothing to queue.
CallbackEOS_Ignored ==
  /\ cb = EOS
  /\ CallbackDone
  /\ UNCHANGED <<eos_received, pc, caller, pkt, sent, api, frame_queue,
                 decoder_flushing, eos_sent, closed, handle, inq, skipped, seen,
                 epoch>>
CallbackEOS ==
  /\ cb = EOS
  /\ eos_received' = TRUE
  /\ CallbackDone
  /\ UNCHANGED <<pc, caller, pkt, sent, api, frame_queue, decoder_flushing,
                 eos_sent, closed, handle, inq, skipped, seen, epoch>>

\* The last picture carries the mark, which is set before the picture is queued.
\* The mutex is let go in between only if the queue is full, but the caller looks
\* at both without it; a flush in between clears the mark, as if there were none.
CallbackMark ==
  /\ cb \in Nat /\ setup.joint
  /\ pipe = <<cb, EOS>>
  /\ eos_received' = TRUE
  /\ pipe' = <<cb>>
  /\ UNCHANGED <<pc, caller, pkt, sent, api, frame_queue, decoder_flushing,
                 eos_sent, closed, handle, inq, cb, skipped, seen, epoch>>

\* After tfvid_decode_end there is no queue any more: the frame is freed.
CallbackAfterEnd ==
  /\ cb \in Nat /\ closed
  /\ CallbackDone
  /\ UNCHANGED <<pc, caller, pkt, sent, api, ctx, inq, skipped, seen, epoch>>

\* The newest frame jumps the queue.
CallbackFrame_AtHead ==
  /\ cb \in Nat /\ ~closed /\ ~tfvid_is_buffer_full
  /\ frame_queue' = <<cb>> \o frame_queue
  /\ CallbackDone
  /\ UNCHANGED <<pc, caller, pkt, sent, api, decoder_flushing, eos_sent,
                 eos_received, closed, handle, inq, skipped, seen, epoch>>

\* On a full queue the callback lets the mutex go, sleeps and tries again.
CallbackFrame ==
  /\ cb \in Nat /\ ~closed /\ ~tfvid_is_buffer_full
  /\ frame_queue' = Append(frame_queue, cb)
  /\ CallbackDone
  /\ UNCHANGED <<pc, caller, pkt, sent, api, decoder_flushing, eos_sent,
                 eos_received, closed, handle, inq, skipped, seen, epoch>>

\* tfdec_destroy delivers some of what the session holds through the callback,
\* drops the rest, and returns when no callback runs.
HwStop ==
  /\ SessionLive /\ pc \in {"destroy", "close_destroy"} /\ cb = None
  /\ handle' = FALSE
  /\ inq' = <<>> /\ pipe' = <<>>
  /\ pc' = IF pc = "destroy" THEN "create" ELSE "closed"
  /\ UNCHANGED <<caller, pkt, sent, api, frame_queue, decoder_flushing, eos_sent,
                 eos_received, closed, cb, skipped, seen, epoch>>

-----------------------------------------------------------------------------
(* avcodec_flush_buffers and tfvid_flush; avcodec_close and                *)
(* tfvid_decode_end.                                                       *)

\* The queue and the flags under the mutex; the session after it is released.
Flush ==
  /\ pc = "idle" /\ flushes < setup.flushes
  /\ flushes' = flushes + 1 /\ mark' = sent
  /\ draining' = FALSE /\ buffer_frame' = None
  /\ frame_queue' = <<>> /\ eos_sent' = FALSE /\ eos_received' = FALSE
  /\ delivered' = <<>> /\ again' = {} /\ last' = "none"
  /\ pc' = IF handle THEN "destroy" ELSE "create"
  /\ UNCHANGED <<setup, caller, pkt, sent, bsf_pkt, bsf_eof, decoder_flushing,
                 closed, handle, hw>>

\* A new session; then av_bsf_flush.
FlushCreate ==
  /\ pc = "create"
  /\ \/ handle' = TRUE
     \/ setup.fails /\ handle' = FALSE
  /\ decoder_flushing' = FALSE
  /\ bsf_pkt' = None /\ bsf_eof' = FALSE
  /\ pc' = "idle"
  /\ UNCHANGED <<caller, pkt, sent, draining, buffer_frame, frame_queue,
                 eos_sent, eos_received, closed, hw, seen, epoch>>

\* The flag is set before the mutex is taken.
Close ==
  /\ pc = "idle"
  /\ closed' = TRUE
  /\ pc' = "close_free"
  /\ UNCHANGED <<caller, pkt, sent, api, frame_queue, decoder_flushing, eos_sent,
                 eos_received, handle, hw, seen, epoch>>

CloseFree ==
  /\ pc = "close_free"
  /\ frame_queue' = <<>>
  /\ pc' = IF handle THEN "close_destroy" ELSE "closed"
  /\ UNCHANGED <<caller, pkt, sent, api, decoder_flushing, eos_sent,
                 eos_received, closed, handle, hw, seen, epoch>>

Closed == pc = "closed" /\ UNCHANGED vars

Client == SendPacket \/ SendEOF \/ ReceiveFrame \/ Flush \/ Close

InCall == \/ NoFetch \/ FetchEOF \/ FetchNothing \/ FetchPacket
          \/ DecodeRefused \/ DecodeAllowed \/ Enqueue \/ EnqueueFails
          \/ Drain \/ DrainEOS \/ DrainFails \/ OutputFrame \/ OutputNothing
          \/ FlushCreate \/ CloseFree

Callback == CallbackEOS \/ CallbackMark \/ CallbackAfterEnd \/ CallbackFrame

Next == Client \/ InCall \/ HwDecode \/ HwOutput \/ Callback \/ HwStop \/ Closed

Spec == Init /\ [][Next]_vars

\* Both threads keep running, the session works on what it has, and
\* tfdec_destroy returns when it can.  The client calls or does not.
FairSpec == /\ Spec
            /\ WF_vars(InCall) /\ WF_vars(HwDecode) /\ WF_vars(HwOutput)
            /\ WF_vars(Callback) /\ WF_vars(HwStop)

-----------------------------------------------------------------------------
Pkts == 1 .. MaxPkts

\* Types of the state.
TypeOK ==
  /\ setup \in Setups
  /\ pc \in {"idle", "check", "decode", "enqueue", "drain", "eos", "output",
             "destroy", "create", "close_free", "close_destroy", "closed"}
  /\ caller \in {"send", "recv", None}
  /\ pkt \in Pkts \cup {None} /\ sent \in 0 .. MaxPkts
  /\ bsf_pkt \in Pkts \cup {None} /\ bsf_eof \in BOOLEAN
  /\ draining \in BOOLEAN /\ buffer_frame \in Pkts \cup {None}
  /\ frame_queue \in Seq(Pkts) /\ Len(frame_queue) <= nb_outbuffers
  /\ {decoder_flushing, eos_sent, eos_received, closed, handle} \subseteq BOOLEAN
  /\ inq \in Seq(Pkts \cup {EOS}) /\ Len(inq) <= InCap
  /\ pipe \in Seq(Pkts \cup {EOS}) /\ Len(pipe) <= setup.depth
  /\ cb \in Pkts \cup {EOS, None}
  /\ skipped \subseteq Pkts /\ delivered \in Seq(Pkts)
  /\ again \subseteq {"send", "recv"}
  /\ last \in {"none", "OK", "EAGAIN", "EOF", "ERROR"}
  /\ flushes \in 0 .. setup.flushes /\ mark \in 0 .. MaxPkts

Delivered == {delivered[i] : i \in 1 .. Len(delivered)}

\* The client receives the frames in the order of their packets and none twice,
\* although a frame may wait in the pipeline, the callback, frame_queue and
\* buffer_frame (decode.c:617, :662).
DeliveredInOrder ==
  \A i, j \in 1 .. Len(delivered) : i < j => delivered[i] < delivered[j]

\* tfvid.c:331 sets "out buffers > input buffers" to keep the output queue from
\* filling up; it does when the session holds fewer pictures than extra slots.
WellSized == setup.depth < Slack

\* AVERROR_EOF comes after the last frame: every packet accepted gave a frame the
\* client has, or no picture (avcodec.h:3197), with a session that is WellSized.
\* One frame may be missing, if the session marks its last picture with the end:
\* eos_received is set (tfvid.c:98) before the picture is queued (tfvid.c:123).
CompleteAtEOF ==
  WellSized /\ flushes = 0 /\ last = "EOF" =>
    \E f \in Pkts \cup {None} :
      /\ f # None => setup.joint
      /\ 1 .. sent \subseteq Delivered \cup skipped \cup {f}

\* A client that is told to send when it receives can send: the filter holds no
\* packet then, and the stream has not ended (avcodec.h:138, :181).  Without this
\* a client would loop for ever.
RoomAfterAgain ==
  pc = "idle" /\ "recv" \in again => bsf_pkt = None /\ ~bsf_eof

\* With a WellSized session the callback finds room, so that the session never
\* stalls (tfvid.c:331), and the packet taken from the filter is not refused by
\* the second look at the queue (tfvid.c:455, "cuvid_is_buffer_full() should
\* avoid this").
RoomInQueue ==
  /\ WellSized
  /\ (cb \in Nat /\ ~closed) \/ pc = "decode"
  => ~tfvid_is_buffer_full

\* The end of the stream will not come back, for the session never got it: there
\* was none after a flush (tfvid.c:472), or it refused the end, which eos_sent,
\* set before the buffer is enqueued (tfvid.c:400), keeps from being sent again.
EndLost == /\ ~handle \/ (setup.refuses /\ eos_sent)
           /\ inq = <<>> /\ pipe = <<>>

\* Every call of the API returns if the session goes on with what it holds.  The
\* one exception is a drain whose end is lost, which waits in tfvid.c:483 for ever.
CallReturns ==
  (pc # "idle") ~> \/ pc \in {"idle", "closed"}
                   \/ pc = "output" /\ OutputWaits /\ EndLost

\* What a client receives after a flush was sent after it (avcodec.h:3956,
\* "Reset the internal codec state / flush internal buffers").
NothingStale == \A f \in Delivered : f > mark
=============================================================================
