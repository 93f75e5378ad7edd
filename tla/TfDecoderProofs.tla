-------------------------- MODULE TfDecoderProofs --------------------------
(***************************************************************************)
(* TfDecoder for every size of the queues, every session and every number  *)
(* of packets: frames come in order, the callback of a session that is     *)
(* WellSized finds room, and the end of the stream comes after the last    *)
(* frame.                                                                  *)
(***************************************************************************)
EXTENDS TfDecoder, TLAPS

-----------------------------------------------------------------------------
(* The inductive invariant: types, what a thread knows at each statement,  *)
(* and three facts about the frames on their way.                          *)

Flags ==
  /\ bsf_eof \in BOOLEAN /\ draining \in BOOLEAN /\ decoder_flushing \in BOOLEAN
  /\ eos_sent \in BOOLEAN /\ eos_received \in BOOLEAN
  /\ closed \in BOOLEAN /\ handle \in BOOLEAN

CallTypes ==
  /\ setup \in Setups
  /\ pc \in {"idle", "check", "decode", "enqueue", "drain", "eos", "output",
             "destroy", "create", "close_free", "close_destroy", "closed"}
  /\ caller \in {"send", "recv", None}
  /\ again \in SUBSET {"send", "recv"}
  /\ last \in {"none", "OK", "EAGAIN", "EOF", "ERROR"}
  /\ flushes \in Nat /\ flushes <= setup.flushes

PacketTypes ==
  /\ sent \in Nat /\ sent <= MaxPkts /\ mark \in Nat /\ mark <= sent
  /\ pkt \in Pkts \cup {None} /\ bsf_pkt \in Pkts \cup {None}
  /\ buffer_frame \in Pkts \cup {None}
  /\ skipped \in SUBSET Pkts /\ delivered \in Seq(Pkts)

QueueTypes ==
  /\ frame_queue \in Seq(Pkts) /\ Len(frame_queue) <= InCap + Slack
  /\ inq \in Seq(Pkts \cup {EOS}) /\ Len(inq) <= InCap
  /\ pipe \in Seq(Pkts \cup {EOS}) /\ Len(pipe) <= setup.depth
  /\ cb \in Pkts \cup {EOS, None}

\* The statements of decode_receive_frame_internal and below.
Decoding == pc \in {"check", "decode", "enqueue", "drain", "eos", "output"}

CallState ==
  /\ Decoding => buffer_frame = None
  /\ pkt # None <=> pc \in {"decode", "enqueue"}
  /\ pc \in {"decode", "enqueue"} =>
       bsf_pkt = None /\ ~bsf_eof /\ ~draining /\ ~decoder_flushing
  /\ pc = "output" /\ ~decoder_flushing =>
       (bsf_pkt = None /\ ~bsf_eof) \/ frame_queue # <<>>
  /\ pc \in {"drain", "eos"} => decoder_flushing /\ ~eos_sent
  /\ closed <=> pc \in {"close_free", "close_destroy", "closed"}

SessionState ==
  /\ pc = "create" => ~handle
  /\ ~handle => inq = <<>> /\ pipe = <<>> /\ cb = None
  /\ cb # None => pipe # <<>> /\ cb = Head(pipe)

\* Frames wait in a line: what the client has, buffer_frame, frame_queue, the
\* pipeline, the input queue, the packet in hand and the one in the filter.  The
\* numbers a to e separate them.
InRange(s, lo, hi) ==
  \A i \in 1 .. Len(s) : s[i] # EOS => lo < s[i] /\ s[i] <= hi
Rising(s) ==
  \A i, j \in 1 .. Len(s) : i < j /\ s[i] # EOS /\ s[j] # EOS => s[i] < s[j]
Stage(s, lo, hi) == InRange(s, lo, hi) /\ Rising(s)
One(x, lo, hi)   == x # None => lo < x /\ x <= hi

LineAt(a, b, c, d, e) ==
  /\ a <= b /\ b <= c /\ c <= d /\ d <= e /\ e <= sent
  /\ Stage(delivered, 0, a) /\ One(buffer_frame, a, b)
  /\ Stage(frame_queue, b, c) /\ Stage(pipe, c, d) /\ Stage(inq, d, e)
  /\ One(pkt, e, sent) /\ One(bsf_pkt, e, sent)
Line == \E a, b, c, d, e \in Nat : LineAt(a, b, c, d, e)

\* No more packets are on their way than the session holds, and one that a call has
\* put in before it took a frame out.
Here(x)  == IF x = None THEN 0 ELSE 1
InFlight == Len(frame_queue) + Len(pipe) + Len(inq) + Here(pkt)
Room ==
  InFlight <= setup.depth + InCap + IF pc \in {"decode", "enqueue", "output"} THEN 1 ELSE 0

\* Before the first flush: the end of the stream is the last thing a session gets,
\* and comes when the filter is empty, if the client is not eager.
NoEOS(s)   == \A i \in 1 .. Len(s) : s[i] # EOS
LastEOS(s) == /\ s # <<>> /\ s[Len(s)] = EOS
              /\ \A i \in 1 .. Len(s) : s[i] = EOS => i = Len(s)
EndFlags ==
  /\ mark = 0 /\ handle /\ pc \notin {"destroy", "create"}
  /\ decoder_flushing => draining
  /\ draining => bsf_eof
  /\ bsf_eof /\ ~setup.eager => bsf_pkt = None
  /\ eos_sent => decoder_flushing
  /\ last = "EOF" => draining
EndQueues ==
  /\ ~eos_sent => NoEOS(inq) /\ NoEOS(pipe) /\ ~eos_received
  /\ eos_sent /\ ~eos_received => \/ inq = <<EOS>> /\ NoEOS(pipe)
                                  \/ inq = <<>> /\ LastEOS(pipe)
                                  \/ setup.refuses /\ inq = <<>> /\ NoEOS(pipe)
  /\ eos_received => /\ inq = <<>>
                     /\ \/ pipe = <<>>
                        \/ setup.joint /\ cb \in Pkts /\ pipe = <<cb>>
EndState == flushes = 0 /\ ~closed => EndFlags /\ EndQueues

\* Before the first flush no packet is lost.
Has(s, n) == \E i \in 1 .. Len(s) : s[i] = n
Kept(n) == \/ Has(delivered, n) \/ buffer_frame = n \/ Has(frame_queue, n)
           \/ Has(pipe, n) \/ Has(inq, n) \/ pkt = n \/ bsf_pkt = n \/ n \in skipped
NoneLost == WellSized /\ flushes = 0 /\ ~closed => \A n \in 1 .. sent : Kept(n)

Complete == ~setup.eager => CompleteAtEOF

Basics == Flags /\ CallTypes /\ PacketTypes /\ QueueTypes /\ CallState /\ SessionState
IInv == Basics /\ RoomAfterAgain /\ Line /\ Room /\ EndState /\ NoneLost /\ Complete

-----------------------------------------------------------------------------
LEMMA Sizes ==
  /\ InCap \in Nat /\ InCap >= 1 /\ Slack \in Nat /\ MaxPkts \in Nat
  /\ None # EOS /\ None \notin Nat /\ EOS \notin Nat
  BY SizesAssumption, TokensAssumption

USE Sizes

LEMMA SetupFields ==
  ASSUME setup \in Setups
  PROVE  /\ setup.depth \in Nat /\ setup.depth >= 1 /\ setup.flushes \in Nat
         /\ {setup.eager, setup.joint, setup.refuses} \subseteq BOOLEAN
  BY SizesAssumption DEF Setup

LEMMA PktsAreNumbers ==
  /\ \A n \in Pkts : n \in Nat /\ n >= 1 /\ n # None /\ n # EOS
  /\ None \notin Pkts /\ EOS \notin Pkts
  BY DEF Pkts

\* An element more at the end, and one less at the front.
LEMMA AppendFacts ==
  ASSUME NEW S, NEW s \in Seq(S), NEW x \in S
  PROVE  /\ Append(s, x) \in Seq(S) /\ Len(Append(s, x)) = Len(s) + 1
         /\ Append(s, x)[Len(s) + 1] = x
         /\ \A i \in 1 .. Len(s) : Append(s, x)[i] = s[i]
         /\ Len(s) \in Nat /\ Append(s, x) # <<>>
  OBVIOUS

LEMMA TailFacts ==
  ASSUME NEW S, NEW s \in Seq(S), s # <<>>
  PROVE  /\ Tail(s) \in Seq(S) /\ Len(Tail(s)) = Len(s) - 1
         /\ \A i \in 1 .. Len(s) - 1 : Tail(s)[i] = s[i + 1]
         /\ Head(s) = s[1] /\ Head(s) \in S
         /\ Len(s) \in Nat /\ Len(s) >= 1
  OBVIOUS

LEMMA EmptyFacts ==
  ASSUME NEW S
  PROVE  /\ <<>> \in Seq(S) /\ Len(<<>>) = 0
  OBVIOUS

\* The types are those of TfDecoder.
LEMMA Types == IInv => TypeOK
  <1> SUFFICES ASSUME IInv PROVE TypeOK
    OBVIOUS
  <1> USE DEF IInv, Basics
  <1>1. {decoder_flushing, eos_sent, eos_received, closed, handle} \subseteq BOOLEAN
    BY DEF Flags
  <1>2. sent \in 0 .. MaxPkts /\ mark \in 0 .. MaxPkts
    BY DEF PacketTypes
  <1>3. flushes \in 0 .. setup.flushes
    BY SetupFields DEF CallTypes
  <1> QED
    BY <1>1, <1>2, <1>3
    DEF TypeOK, Flags, CallTypes, PacketTypes, QueueTypes, nb_outbuffers

\* What a call of the API leaves when it returns from the decoder.
LEMMA Returns ==
  ASSUME PacketTypes, CallTypes, buffer_frame = None,
         NEW r \in {"OK", "EAGAIN", "EOF", "ERROR"}, NEW f \in Pkts \cup {None},
         r = "OK" <=> f # None,
         DecodeReturns(r, f)
  PROVE  /\ pc' = "idle" /\ caller' = None
         /\ again' \in SUBSET {"send", "recv"}
         /\ last' \in {"none", "OK", "EAGAIN", "EOF", "ERROR"}
         /\ "recv" \in again' => r = "EAGAIN"
         /\ last' = "EOF" => last = "EOF" \/ r = "EOF"
         /\ \/ buffer_frame' = f /\ delivered' = delivered /\ last' = last
            \/ /\ buffer_frame' = None
               /\ delivered' = IF f = None THEN delivered ELSE Append(delivered, f)
               /\ last' = r
         /\ buffer_frame' \in Pkts \cup {None} /\ delivered' \in Seq(Pkts)
  <1>1. /\ pc' = "idle" /\ caller' = None
    BY DEF DecodeReturns
  <1>2. CASE caller = "send"
    BY <1>1, <1>2 DEF DecodeReturns, SendResult, PacketTypes, CallTypes
  <1>3. CASE caller # "send"
    <2>1. /\ buffer_frame' = None /\ last' = r
          /\ delivered' = IF f = None THEN delivered ELSE Append(delivered, f)
          /\ again' = IF r = "EAGAIN" THEN again \cup {"recv"} ELSE {}
      BY <1>3 DEF DecodeReturns, RecvResult
    <2>2. delivered' \in Seq(Pkts)
      BY <2>1, AppendFacts DEF PacketTypes
    <2> QED
      BY <1>1, <2>1, <2>2 DEF CallTypes
  <1> QED
    BY <1>2, <1>3


-----------------------------------------------------------------------------
(* Basics and RoomAfterAgain.                                              *)

BInv == Basics /\ RoomAfterAgain

LEMMA InitBInv == Init => BInv
  <1> SUFFICES ASSUME Init PROVE BInv
    OBVIOUS
  <1>1. Flags
    BY DEF Init, Flags
  <1>2. CallTypes
    BY SizesAssumption, SetupFields DEF Init, CallTypes
  <1>3. PacketTypes
    BY EmptyFacts DEF Init, PacketTypes
  <1>4. QueueTypes
    BY <1>2, EmptyFacts, SetupFields DEF Init, QueueTypes, CallTypes
  <1>5. CallState /\ SessionState /\ RoomAfterAgain
    BY DEF Init, CallState, Decoding, SessionState, RoomAfterAgain
  <1> QED
    BY <1>1, <1>2, <1>3, <1>4, <1>5 DEF BInv, Basics

\* The calls of the client.
LEMMA ClientBInv == ASSUME BInv, Client PROVE BInv'
  <1> USE DEF BInv, Basics
  <1>1. pc = "idle" /\ UNCHANGED <<setup, pkt, hw, handle>>
    BY DEF Client, SendPacket, SendEOF, ReceiveFrame, Flush, Close, epoch, ctx
  <1>2. SessionState'
    BY <1>1 DEF SessionState, hw, Client, SendPacket, SendEOF, ReceiveFrame, Flush, Close,
       SendRefused, SendAccepted
  <1>3. CASE SendPacket
    <2>1. /\ UNCHANGED <<pkt, bsf_eof, draining, buffer_frame, ctx, hw, delivered, last, epoch>>
          /\ sent < MaxPkts
          /\ \/ /\ sent' = sent /\ bsf_pkt' = bsf_pkt /\ pc' = "idle" /\ caller' = caller
                /\ again' = {} \/ again' = again \cup {"send"}
             \/ /\ sent' = sent + 1 /\ bsf_pkt' = sent + 1
                /\ pc' = "idle" /\ caller' = caller /\ again' = {}
             \/ /\ sent' = sent + 1 /\ bsf_pkt' = sent + 1
                /\ pc' = "check" /\ caller' = "send" /\ buffer_frame = None
                /\ again' = again
      <3>1. CASE draining \/ bsf_eof
        BY <1>1, <1>3, <3>1 DEF SendPacket, SendRefused, SendResult
      <3>2. CASE ~(draining \/ bsf_eof) /\ bsf_pkt # None
        BY <1>1, <1>3, <3>2 DEF SendPacket, SendRefused, SendResult
      <3>3. CASE ~(draining \/ bsf_eof) /\ bsf_pkt = None
        BY <1>1, <1>3, <3>3 DEF SendPacket, SendAccepted, SendResult
      <3> QED
        BY <3>1, <3>2, <3>3
    <2>2. Flags' /\ CallTypes'
      BY ZenonT(30), <1>1, <2>1 DEF Flags, CallTypes, ctx, epoch
    <2>3. PacketTypes'
      BY <2>1 DEF PacketTypes, Pkts, hw, epoch
    <2>4. QueueTypes'
      BY <2>1 DEF QueueTypes, hw, ctx, epoch
    <2>5. CallState'
      BY <1>1, <2>1 DEF CallState, Decoding, ctx
    <2>6. RoomAfterAgain'
      BY <1>1, <2>1 DEF RoomAfterAgain
    <2> QED
      BY <1>2, <2>2, <2>3, <2>4, <2>5, <2>6
  <1>4. CASE SendEOF
    <2>1. /\ UNCHANGED <<pkt, sent, bsf_pkt, draining, buffer_frame, ctx, hw, delivered, last, epoch>>
          /\ \/ pc' = "idle" /\ caller' = caller /\ again' = {}
             \/ pc' = "check" /\ caller' = "send" /\ buffer_frame = None /\ again' = again
      BY <1>1, <1>4 DEF SendEOF, SendRefused, SendAccepted, SendResult
    <2>2. bsf_eof' = bsf_eof \/ bsf_eof' = TRUE
      BY <1>4 DEF SendEOF
    <2>3. Flags' /\ CallTypes'
      BY ZenonT(30), <1>1, <2>1, <2>2 DEF Flags, CallTypes, ctx, epoch
    <2>4. PacketTypes' /\ QueueTypes'
      BY <2>1 DEF PacketTypes, QueueTypes, hw, ctx, epoch
    <2>5. CallState'
      BY <1>1, <2>1 DEF CallState, Decoding, ctx
    <2>6. RoomAfterAgain'
      BY <1>1, <2>1 DEF RoomAfterAgain
    <2> QED
      BY <1>2, <2>3, <2>4, <2>5, <2>6
  <1>5. CASE ReceiveFrame
    <2>1. /\ UNCHANGED <<pkt, sent, bsf_pkt, bsf_eof, draining, ctx, hw, epoch>>
          /\ \/ /\ pc' = "idle" /\ caller' = caller /\ again' = {} /\ last' = "OK"
                /\ buffer_frame \in Pkts /\ buffer_frame' = None
                /\ delivered' = Append(delivered, buffer_frame)
             \/ /\ pc' = "check" /\ caller' = "recv" /\ buffer_frame = None
                /\ UNCHANGED <<again, last, delivered, buffer_frame>>
      BY <1>1, <1>5 DEF ReceiveFrame, RecvResult, seen, PacketTypes
    <2>2. Flags' /\ CallTypes'
      BY ZenonT(30), <1>1, <2>1 DEF Flags, CallTypes, ctx, epoch
    <2>3. PacketTypes'
      BY <2>1, AppendFacts DEF PacketTypes, hw, epoch
    <2>4. QueueTypes'
      BY <2>1 DEF QueueTypes, hw, ctx, epoch
    <2>5. CallState'
      BY <1>1, <2>1 DEF CallState, Decoding, ctx
    <2>6. RoomAfterAgain'
      BY <1>1, <2>1 DEF RoomAfterAgain
    <2> QED
      BY <1>2, <2>2, <2>3, <2>4, <2>5, <2>6
  <1>6. CASE Flush
    <2>0. /\ pc' \in {"destroy", "create"} /\ flushes' = flushes + 1 /\ mark' = sent
          /\ flushes < setup.flushes /\ again' = {} /\ last' = "none"
          /\ UNCHANGED <<setup, caller, pkt, sent, bsf_pkt, bsf_eof, decoder_flushing,
                         closed, handle, hw>>
      BY <1>6 DEF Flush
    <2>1. Flags'
      BY <1>6 DEF Flags, Flush
    <2>2. CallTypes'
      BY <2>0, SetupFields DEF CallTypes
    <2>3. PacketTypes'
      BY <1>6, <2>0, EmptyFacts DEF Flush, PacketTypes, hw
    <2>4. QueueTypes'
      BY <1>6, EmptyFacts DEF Flush, QueueTypes, hw
    <2>5. CallState' /\ RoomAfterAgain'
      BY <1>1, <1>6, <2>0 DEF CallState, Decoding, RoomAfterAgain
    <2> QED
      BY <1>2, <2>1, <2>2, <2>3, <2>4, <2>5
  <1>7. CASE Close
    <2>1. Flags' /\ CallTypes'
      BY <1>7 DEF Close, Flags, CallTypes, seen, epoch, api
    <2>2. PacketTypes' /\ QueueTypes'
      BY <1>7 DEF Close, PacketTypes, QueueTypes, seen, epoch, api, hw
    <2>3. CallState' /\ RoomAfterAgain'
      BY <1>1, <1>7 DEF Close, CallState, Decoding, RoomAfterAgain
    <2> QED
      BY <1>2, <2>1, <2>2, <2>3
  <1> QED
    BY <1>3, <1>4, <1>5, <1>6, <1>7 DEF Client

\* The steps of a call that return from the decoder without a frame.
LEMMA NoFrameReturned ==
  ASSUME BInv, FetchNothing \/ DecodeRefused \/ EnqueueFails \/ OutputNothing
  PROVE  /\ Decoding /\ pc' = "idle" /\ caller' = None
         /\ again' \in SUBSET {"send", "recv"}
         /\ last' \in {"none", "OK", "EAGAIN", "EOF", "ERROR"}
         /\ "recv" \in again' => bsf_pkt = None /\ ~bsf_eof
         /\ last' = "EOF" =>
              \/ last = "EOF"
              \/ OutputNothing /\ decoder_flushing /\ eos_received /\ frame_queue = <<>>
         /\ buffer_frame = None /\ buffer_frame' = None /\ delivered' = delivered
         /\ pkt' = None
         /\ \/ skipped' = skipped
            \/ EnqueueFails /\ pkt \in Pkts /\ skipped' = skipped \cup {pkt}
         /\ UNCHANGED <<sent, bsf_pkt, bsf_eof, draining, ctx, inq, pipe, cb, epoch>>
  <1> USE DEF BInv, Basics, hw
  <1>1. Decoding /\ buffer_frame = None /\ None \in Pkts \cup {None}
    BY DEF FetchNothing, DecodeRefused, EnqueueFails, OutputNothing, Decoding, CallState
  <1>2. CASE FetchNothing
    <2>1. /\ DecodeReturns("EAGAIN", None) /\ pc = "check" /\ bsf_pkt = None /\ ~bsf_eof
          /\ UNCHANGED <<pkt, sent, bsf_pkt, bsf_eof, draining, ctx, hw, epoch>>
      BY <1>2 DEF FetchNothing
    <2>2. pkt' = None
      BY <2>1 DEF CallState
    <2>3. \/ buffer_frame' = None /\ delivered' = delivered /\ last' = last
          \/ buffer_frame' = None /\ delivered' = delivered /\ last' = "EAGAIN"
      BY <1>1, <2>1, Returns
    <2> QED
      BY <1>1, <2>1, <2>2, <2>3, Returns
  <1>3. CASE DecodeRefused \/ EnqueueFails
    <2>1. /\ DecodeReturns("ERROR", None) /\ pkt' = None
          /\ \/ skipped' = skipped
             \/ EnqueueFails /\ skipped' = skipped \cup {pkt}
          /\ UNCHANGED <<sent, bsf_pkt, bsf_eof, draining, ctx, inq, pipe, cb, epoch>>
      BY <1>3 DEF DecodeRefused, EnqueueFails
    <2>2. EnqueueFails => pkt \in Pkts
      BY DEF EnqueueFails, CallState, PacketTypes
    <2>3. \/ buffer_frame' = None /\ delivered' = delivered /\ last' = last
          \/ buffer_frame' = None /\ delivered' = delivered /\ last' = "ERROR"
      BY <1>1, <2>1, Returns
    <2> QED
      BY <1>1, <2>1, <2>2, <2>3, Returns
  <1>4. CASE OutputNothing
    <2>1. PICK r \in {"EOF", "EAGAIN"} :
            /\ r = IF decoder_flushing /\ eos_received THEN "EOF" ELSE "EAGAIN"
            /\ DecodeReturns(r, None)
      BY <1>4 DEF OutputNothing
    <2>2. /\ pc = "output" /\ frame_queue = <<>> /\ ~OutputWaits
          /\ UNCHANGED <<pkt, sent, bsf_pkt, bsf_eof, draining, ctx, hw, epoch>>
      BY <1>4 DEF OutputNothing
    <2>3. r = "EAGAIN" => bsf_pkt = None /\ ~bsf_eof
      BY <2>1, <2>2 DEF OutputWaits, CallState
    <2>4. pkt' = None
      BY <2>2 DEF CallState
    <2>5. \/ buffer_frame' = None /\ delivered' = delivered /\ last' = last
          \/ buffer_frame' = None /\ delivered' = delivered /\ last' = r
      BY <1>1, <2>1, Returns
    <2>6. /\ pc' = "idle" /\ caller' = None /\ again' \in SUBSET {"send", "recv"}
          /\ last' \in {"none", "OK", "EAGAIN", "EOF", "ERROR"}
          /\ "recv" \in again' => r = "EAGAIN"
          /\ last' = "EOF" => last = "EOF" \/ r = "EOF"
      BY <1>1, <2>1, Returns
    <2> QED
      BY <1>1, <1>4, <2>1, <2>2, <2>3, <2>4, <2>5, <2>6
  <1> QED
    BY <1>2, <1>3, <1>4

\* The step in which the session refuses the end of the stream.
LEMMA EndRefused ==
  ASSUME BInv, DrainFails
  PROVE  /\ pc = "eos" /\ pc' = "idle" /\ caller' = None
         /\ again' = {}
         /\ last' \in {"none", "OK", "EAGAIN", "EOF", "ERROR"}
         /\ last' = "EOF" => last = "EOF"
         /\ setup.refuses /\ inq = <<>> /\ eos_sent' = TRUE
         /\ buffer_frame = None /\ pkt = None
         /\ buffer_frame' = None /\ delivered' = delivered
         /\ UNCHANGED <<pkt, sent, bsf_pkt, bsf_eof, draining, frame_queue,
                        decoder_flushing, eos_received, closed, handle, hw, epoch>>
  <1> USE DEF BInv, Basics
  <1>1. /\ pc = "eos" /\ setup.refuses /\ eos_sent' = TRUE
        /\ tfdec_query_input_queue = InCap
        /\ DecodeReturns("ERROR", None)
        /\ UNCHANGED <<pkt, sent, bsf_pkt, bsf_eof, draining, frame_queue,
                       decoder_flushing, eos_received, closed, handle, hw, epoch>>
    BY DEF DrainFails
  <1>2. /\ buffer_frame = None /\ pkt = None /\ None \in Pkts \cup {None}
        /\ "ERROR" = "OK" <=> None # None
    BY <1>1 DEF CallState, Decoding
  <1>3. inq = <<>>
    BY <1>1 DEF tfdec_query_input_queue, QueueTypes
  <1>4. /\ pc' = "idle" /\ caller' = None
        /\ last' \in {"none", "OK", "EAGAIN", "EOF", "ERROR"}
        /\ last' = "EOF" => last = "EOF" \/ "ERROR" = "EOF"
        /\ \/ buffer_frame' = None /\ delivered' = delivered
           \/ /\ buffer_frame' = None
              /\ delivered' = IF None = None THEN delivered ELSE Append(delivered, None)
    BY <1>1, <1>2, Returns
  <1>5. again' = {}
    BY <1>1 DEF DecodeReturns, SendResult, RecvResult
  <1> QED
    BY <1>1, <1>2, <1>3, <1>4, <1>5

\* The step that returns the first frame of the queue.
LEMMA FrameReturned ==
  ASSUME BInv, OutputFrame
  PROVE  /\ pc = "output" /\ pc' = "idle" /\ caller' = None
         /\ again' = {}
         /\ last' \in {"none", "OK", "EAGAIN", "EOF", "ERROR"}
         /\ last' = "EOF" => last = "EOF"
         /\ frame_queue # <<>> /\ frame_queue' = Tail(frame_queue)
         /\ buffer_frame = None /\ pkt = None
         /\ \/ buffer_frame' = Head(frame_queue) /\ delivered' = delivered
            \/ buffer_frame' = None /\ delivered' = Append(delivered, Head(frame_queue))
         /\ buffer_frame' \in Pkts \cup {None} /\ delivered' \in Seq(Pkts)
         /\ UNCHANGED <<pkt, sent, bsf_pkt, bsf_eof, draining, decoder_flushing,
                        eos_sent, eos_received, closed, handle, hw, epoch>>
  <1> USE DEF BInv, Basics
  <1>1. /\ pc = "output" /\ frame_queue # <<>> /\ frame_queue' = Tail(frame_queue)
        /\ DecodeReturns("OK", Head(frame_queue))
        /\ UNCHANGED <<pkt, sent, bsf_pkt, bsf_eof, draining, decoder_flushing,
                       eos_sent, eos_received, closed, handle, hw, epoch>>
    BY DEF OutputFrame
  <1>2. buffer_frame = None /\ pkt = None
    BY <1>1 DEF CallState, Decoding
  <1>3. PICK h \in Pkts : h = Head(frame_queue)
    BY <1>1, TailFacts DEF QueueTypes
  <1>4. h # None /\ h \in Pkts \cup {None} /\ DecodeReturns("OK", h)
    BY <1>1, <1>3, PktsAreNumbers
  <1>5. /\ pc' = "idle" /\ caller' = None
        /\ "recv" \in again' => "OK" = "EAGAIN"
        /\ last' \in {"none", "OK", "EAGAIN", "EOF", "ERROR"}
        /\ last' = "EOF" => last = "EOF" \/ "OK" = "EOF"
        /\ \/ buffer_frame' = h /\ delivered' = delivered
           \/ buffer_frame' = None /\ delivered' = Append(delivered, h)
        /\ buffer_frame' \in Pkts \cup {None} /\ delivered' \in Seq(Pkts)
    BY <1>2, <1>4, Returns
  <1>6. again' = {}
    BY <1>1 DEF DecodeReturns, SendResult, RecvResult
  <1> QED
    BY <1>1, <1>2, <1>3, <1>5, <1>6

LEMMA InCallBInv == ASSUME BInv, InCall PROVE BInv'
  <1> USE DEF BInv, Basics
  <1>1. CASE FetchNothing \/ DecodeRefused \/ EnqueueFails \/ OutputNothing
    <2>1. /\ pc' = "idle" /\ caller' = None
          /\ again' \in SUBSET {"send", "recv"}
          /\ last' \in {"none", "OK", "EAGAIN", "EOF", "ERROR"}
          /\ "recv" \in again' => bsf_pkt = None /\ ~bsf_eof
          /\ Decoding /\ buffer_frame = None /\ buffer_frame' = None /\ delivered' = delivered
          /\ pkt' = None
          /\ skipped' = skipped \/ (pkt \in Pkts /\ skipped' = skipped \cup {pkt})
          /\ UNCHANGED <<sent, bsf_pkt, bsf_eof, draining, ctx, inq, pipe, cb, epoch>>
      BY <1>1, NoFrameReturned
    <2>2. Flags' /\ CallTypes'
      BY <2>1 DEF Flags, CallTypes, ctx, epoch
    <2>3. PacketTypes' /\ QueueTypes'
      BY <2>1 DEF PacketTypes, QueueTypes, ctx, epoch
    <2>4. CallState' /\ SessionState'
      BY <2>1 DEF CallState, Decoding, SessionState, ctx
    <2>5. RoomAfterAgain'
      BY <2>1 DEF RoomAfterAgain
    <2> QED
      BY <2>2, <2>3, <2>4, <2>5
  <1>2. CASE OutputFrame
    <2>1. /\ pc = "output" /\ pc' = "idle" /\ caller' = None /\ again' = {}
          /\ last' \in {"none", "OK", "EAGAIN", "EOF", "ERROR"}
          /\ frame_queue # <<>> /\ frame_queue' = Tail(frame_queue) /\ pkt = None
          /\ buffer_frame' \in Pkts \cup {None} /\ delivered' \in Seq(Pkts)
          /\ UNCHANGED <<pkt, sent, bsf_pkt, bsf_eof, draining, decoder_flushing,
                         eos_sent, eos_received, closed, handle, hw, epoch>>
      BY <1>2, FrameReturned
    <2>2. Flags' /\ CallTypes'
      BY <2>1 DEF Flags, CallTypes, epoch
    <2>3. PacketTypes'
      BY <2>1 DEF PacketTypes, hw, epoch
    <2>4. QueueTypes'
      <3>1. frame_queue' \in Seq(Pkts) /\ Len(frame_queue') <= InCap + Slack
        BY <2>1, TailFacts DEF QueueTypes
      <3> QED
        BY <2>1, <3>1 DEF QueueTypes, hw, epoch
    <2>5. CallState' /\ SessionState' /\ RoomAfterAgain'
      BY <2>1 DEF CallState, Decoding, SessionState, RoomAfterAgain, hw
    <2> QED
      BY <2>2, <2>3, <2>4, <2>5
  <1>3. CASE NoFetch \/ FetchEOF
    <2>1. /\ pc = "check" /\ pc' \in {"drain", "output"}
          /\ UNCHANGED <<caller, pkt, sent, bsf_pkt, bsf_eof, buffer_frame, frame_queue,
                         eos_sent, eos_received, closed, handle, hw, seen, epoch>>
          /\ pc' = "drain" => decoder_flushing' /\ ~eos_sent
      BY <1>3 DEF NoFetch, FetchEOF, AfterInput, ctx, api
    <2>2. /\ decoder_flushing' = decoder_flushing \/ decoder_flushing' = TRUE
          /\ draining' = draining \/ draining' = TRUE
      BY <1>3 DEF NoFetch, FetchEOF, ctx, api
    <2>3. decoder_flushing' \/ frame_queue # <<>>
      <3>1. CASE FetchEOF
        BY <3>1 DEF FetchEOF
      <3>2. CASE NoFetch
        <4>1. decoder_flushing \/ Len(frame_queue) >= InCap + Slack
          BY <3>2 DEF NoFetch, FetchesInput, tfvid_is_buffer_full, nb_outbuffers
        <4> QED
          BY <3>2, <4>1, EmptyFacts DEF NoFetch, ctx
      <3> QED
        BY <1>3, <3>1, <3>2
    <2>4. Flags'
      BY <2>1, <2>2 DEF Flags
    <2>5. CallTypes' /\ PacketTypes' /\ QueueTypes'
      BY <2>1 DEF CallTypes, PacketTypes, QueueTypes, hw, seen, epoch
    <2>6. CallState' /\ SessionState' /\ RoomAfterAgain'
      BY <2>1, <2>3 DEF CallState, Decoding, SessionState, RoomAfterAgain, hw
    <2> QED
      BY <2>4, <2>5, <2>6
  <1>4. CASE FetchPacket
    <2>1. bsf_pkt \in Pkts /\ bsf_pkt # None
      BY <1>4 DEF FetchPacket, PacketTypes
    <2>2. Flags' /\ CallTypes'
      BY <1>4 DEF FetchPacket, Flags, CallTypes, ctx, seen, epoch
    <2>3. PacketTypes' /\ QueueTypes'
      BY <1>4, <2>1 DEF FetchPacket, PacketTypes, QueueTypes, ctx, hw, seen, epoch
    <2>4. CallState' /\ SessionState' /\ RoomAfterAgain'
      BY <1>4, <2>1 DEF FetchPacket, FetchesInput, CallState, Decoding, SessionState,
         RoomAfterAgain, ctx, hw
    <2> QED
      BY <2>2, <2>3, <2>4
  <1>5. CASE DecodeAllowed \/ Drain
    <2>1. /\ \/ pc = "decode" /\ pc' = "enqueue"
             \/ pc = "drain" /\ pc' = "eos"
          /\ UNCHANGED <<caller, pkt, sent, api, ctx, hw, seen, epoch>>
      BY <1>5 DEF DecodeAllowed, Drain
    <2>2. Flags' /\ CallTypes' /\ PacketTypes' /\ QueueTypes'
      BY <2>1 DEF Flags, CallTypes, PacketTypes, QueueTypes, api, ctx, hw, seen, epoch
    <2>3. CallState' /\ SessionState' /\ RoomAfterAgain'
      BY <2>1 DEF CallState, Decoding, SessionState, RoomAfterAgain, api, ctx, hw
    <2> QED
      BY <2>2, <2>3
  <1>6. CASE Enqueue
    <2>1. pkt \in Pkts /\ pc = "enqueue" /\ Len(inq) < InCap /\ handle
      BY <1>6 DEF Enqueue, CallState, PacketTypes, tfdec_query_input_queue, QueueTypes
    <2>2. inq' \in Seq(Pkts \cup {EOS}) /\ Len(inq') <= InCap
      BY <1>6, <2>1, AppendFacts DEF Enqueue, QueueTypes
    <2>3. Flags' /\ CallTypes' /\ PacketTypes'
      BY <1>6 DEF Enqueue, Flags, CallTypes, PacketTypes, api, ctx, seen, epoch
    <2>4. QueueTypes'
      BY <1>6, <2>2 DEF Enqueue, QueueTypes, ctx, epoch
    <2>5. CallState' /\ SessionState' /\ RoomAfterAgain'
      BY <1>6, <2>1 DEF Enqueue, CallState, Decoding, SessionState, RoomAfterAgain, api, ctx
    <2> QED
      BY <2>3, <2>4, <2>5
  <1>7. CASE DrainEOS
    <2>1. /\ pc = "eos" /\ pc' = "output"
          /\ UNCHANGED <<caller, pkt, sent, api, frame_queue, decoder_flushing,
                         eos_received, closed, handle, pipe, cb, skipped, seen, epoch>>
          /\ \/ handle /\ Len(inq) = 0 /\ inq' = Append(inq, EOS) /\ eos_sent' = TRUE
             \/ inq' = inq /\ eos_sent' = eos_sent
      BY <1>7 DEF DrainEOS, tfdec_query_input_queue, QueueTypes
    <2>2. inq' \in Seq(Pkts \cup {EOS}) /\ Len(inq') <= InCap
      BY <2>1, AppendFacts DEF QueueTypes
    <2>6. Flags'
      BY <2>1 DEF Flags, api
    <2>3. Flags' /\ CallTypes' /\ PacketTypes'
      BY <2>1, <2>6 DEF CallTypes, PacketTypes, api, seen, epoch
    <2>4. QueueTypes'
      BY <2>1, <2>2 DEF QueueTypes, epoch
    <2>5. CallState' /\ SessionState' /\ RoomAfterAgain'
      BY <2>1 DEF CallState, Decoding, SessionState, RoomAfterAgain, api
    <2> QED
      BY <2>3, <2>4, <2>5
  <1>10. CASE DrainFails
    <2>1. Flags' /\ CallTypes'
      BY <1>10, EndRefused DEF Flags, CallTypes, epoch
    <2>2. PacketTypes' /\ QueueTypes'
      BY <1>10, EndRefused DEF PacketTypes, QueueTypes, hw, epoch
    <2>3. /\ pc = "eos" /\ pc' = "idle" /\ again' = {} /\ pkt = None
          /\ UNCHANGED <<pkt, bsf_pkt, bsf_eof, closed, handle, inq, pipe, cb>>
      BY <1>10, EndRefused DEF hw
    <2>4. CallState'
      BY <2>3 DEF CallState, Decoding
    <2>5. SessionState' /\ RoomAfterAgain'
      BY <2>3 DEF SessionState, RoomAfterAgain
    <2> QED
      BY <2>1, <2>2, <2>4, <2>5
  <1>8. CASE FlushCreate
    <2>1. Flags'
      BY <1>8 DEF FlushCreate, Flags
    <2>2. CallTypes' /\ PacketTypes' /\ QueueTypes'
      BY <1>8 DEF FlushCreate, CallTypes, PacketTypes, QueueTypes, hw, seen, epoch
    <2>3. CallState'
      BY <1>8 DEF FlushCreate, CallState, Decoding
    <2>4. SessionState'
      BY <1>8 DEF FlushCreate, SessionState, hw
    <2>5. RoomAfterAgain'
      BY <1>8 DEF FlushCreate, RoomAfterAgain
    <2> QED
      BY <2>1, <2>2, <2>3, <2>4, <2>5
  <1>9. CASE CloseFree
    <2>1. Flags' /\ CallTypes'
      BY <1>9 DEF CloseFree, Flags, CallTypes, api, seen, epoch
    <2>2. PacketTypes'
      BY <1>9 DEF CloseFree, PacketTypes, api, hw, seen, epoch
    <2>3. QueueTypes'
      BY <1>9, EmptyFacts DEF CloseFree, QueueTypes, hw, epoch
    <2>4. CallState' /\ SessionState' /\ RoomAfterAgain'
      BY <1>9 DEF CloseFree, CallState, Decoding, SessionState, RoomAfterAgain, seen, api, hw
    <2> QED
      BY <2>1, <2>2, <2>3, <2>4
  <1> QED
    BY <1>1, <1>2, <1>3, <1>4, <1>5, <1>6, <1>7, <1>8, <1>9, <1>10 DEF InCall

\* A callback that returns its buffer.
Returned == CallbackEOS \/ CallbackAfterEnd \/ CallbackFrame

\* A session's steps, and its callback.
LEMMA SessionBInv ==
  ASSUME BInv, HwDecode \/ HwOutput \/ Callback \/ HwStop
  PROVE  BInv'
  <1> USE DEF BInv, Basics
  <1>1. CASE HwDecode
    <2>1. /\ handle /\ inq # <<>> /\ inq' = Tail(inq)
          /\ \/ Len(pipe) < setup.depth /\ pipe' = Append(pipe, Head(inq)) /\ skipped' = skipped
             \/ Head(inq) # EOS /\ skipped' = skipped \cup {Head(inq)} /\ pipe' = pipe
          /\ UNCHANGED <<pc, caller, pkt, sent, api, ctx, cb, seen, epoch>>
      BY <1>1 DEF HwDecode, SessionLive
    <2>2. /\ inq' \in Seq(Pkts \cup {EOS}) /\ Len(inq') <= InCap
          /\ Head(inq) \in Pkts \cup {EOS}
      BY <2>1, TailFacts DEF QueueTypes
    <2>3. /\ pipe' \in Seq(Pkts \cup {EOS}) /\ Len(pipe') <= setup.depth
          /\ pipe # <<>> => pipe' # <<>> /\ Head(pipe') = Head(pipe)
      <3>1. CASE pipe' = pipe
        BY <3>1 DEF QueueTypes
      <3>2. CASE Len(pipe) < setup.depth /\ pipe' = Append(pipe, Head(inq))
        <4>1. /\ pipe' \in Seq(Pkts \cup {EOS}) /\ Len(pipe') = Len(pipe) + 1
              /\ pipe' # <<>> /\ \A i \in 1 .. Len(pipe) : pipe'[i] = pipe[i]
              /\ pipe \in Seq(Pkts \cup {EOS})
          BY <3>2, <2>2, AppendFacts DEF QueueTypes
        <4>2. pipe # <<>> => Head(pipe') = Head(pipe)
          BY <4>1, TailFacts
        <4> QED
          BY <3>2, <4>1, <4>2, SetupFields DEF CallTypes
      <3> QED
        BY <2>1, <3>1, <3>2
    <2>4. Flags' /\ CallTypes'
      BY <2>1 DEF Flags, CallTypes, api, ctx, seen, epoch
    <2>5. PacketTypes'
      BY <2>1, <2>2 DEF PacketTypes, api, seen, epoch
    <2>6. QueueTypes'
      BY <2>1, <2>2, <2>3 DEF QueueTypes, ctx, epoch
    <2>7. CallState' /\ SessionState' /\ RoomAfterAgain'
      BY <2>1, <2>3 DEF CallState, Decoding, SessionState, RoomAfterAgain, seen, api, ctx
    <2> QED
      BY <2>4, <2>5, <2>6, <2>7
  <1>2. CASE HwOutput
    <2>1. /\ handle /\ cb = None /\ pipe # <<>> /\ cb' = Head(pipe)
          /\ UNCHANGED <<pc, caller, pkt, sent, api, ctx, inq, pipe, skipped, seen, epoch>>
      BY <1>2 DEF HwOutput, SessionLive
    <2>2. cb' \in Pkts \cup {EOS}
      BY <2>1, TailFacts DEF QueueTypes
    <2>3. Flags' /\ CallTypes' /\ PacketTypes'
      BY <2>1 DEF Flags, CallTypes, PacketTypes, api, ctx, seen, epoch
    <2>4. QueueTypes'
      BY <2>1, <2>2 DEF QueueTypes, ctx, epoch
    <2>5. CallState' /\ SessionState' /\ RoomAfterAgain'
      BY <2>1 DEF CallState, Decoding, SessionState, RoomAfterAgain, seen, api, ctx
    <2> QED
      BY <2>3, <2>4, <2>5
  <1>3. CASE Returned
    <2>1. /\ cb # None /\ cb' = None /\ pipe' = Tail(pipe)
          /\ UNCHANGED <<pc, caller, pkt, sent, api, decoder_flushing, eos_sent, closed,
                         handle, inq, skipped, seen, epoch>>
      BY <1>3 DEF Returned, CallbackEOS, CallbackAfterEnd, CallbackFrame, CallbackDone, ctx
    <2>2. eos_received' = eos_received \/ eos_received' = TRUE
      BY <1>3 DEF Returned, CallbackEOS, CallbackAfterEnd, CallbackFrame, ctx
    <2>3. /\ pipe # <<>> /\ handle /\ pipe' \in Seq(Pkts \cup {EOS})
          /\ Len(pipe') <= setup.depth
      BY <2>1, TailFacts, SetupFields DEF QueueTypes, SessionState, CallTypes
    <2>4. /\ frame_queue' \in Seq(Pkts) /\ Len(frame_queue') <= InCap + Slack
          /\ frame_queue # <<>> => frame_queue' # <<>>
      <3>1. CASE frame_queue' = frame_queue
        BY <3>1 DEF QueueTypes
      <3>2. CASE CallbackFrame
        <4>1. /\ cb \in Pkts /\ frame_queue' = Append(frame_queue, cb)
              /\ ~(Len(frame_queue) >= InCap + Slack)
          BY <3>2, Sizes DEF CallbackFrame, QueueTypes, tfvid_is_buffer_full, nb_outbuffers
        <4> QED
          BY <4>1, AppendFacts DEF QueueTypes
      <3> QED
        BY <1>3, <3>1, <3>2 DEF Returned, CallbackEOS, CallbackAfterEnd, ctx
    <2>5. Flags'
      BY <2>1, <2>2 DEF Flags, api
    <2>6. CallTypes' /\ PacketTypes'
      BY <2>1 DEF CallTypes, PacketTypes, api, seen, epoch
    <2>7. QueueTypes'
      BY <2>1, <2>3, <2>4 DEF QueueTypes, epoch
    <2>8. CallState' /\ SessionState' /\ RoomAfterAgain'
      BY <2>1, <2>3, <2>4 DEF CallState, Decoding, SessionState, RoomAfterAgain, seen, api
    <2> QED
      BY <2>5, <2>6, <2>7, <2>8
  <1>4. CASE HwStop
    <2>1. /\ pc \in {"destroy", "close_destroy"} /\ cb = None /\ handle' = FALSE
          /\ inq' = <<>> /\ pipe' = <<>>
          /\ pc' = IF pc = "destroy" THEN "create" ELSE "closed"
          /\ UNCHANGED <<caller, pkt, sent, api, frame_queue, decoder_flushing, eos_sent,
                         eos_received, closed, cb, skipped, seen, epoch>>
      BY <1>4 DEF HwStop
    <2>2. Flags'
      BY <2>1 DEF Flags, api
    <2>3. CallTypes' /\ PacketTypes'
      BY <2>1 DEF CallTypes, PacketTypes, api, seen, epoch
    <2>4. QueueTypes'
      BY <2>1, EmptyFacts, SetupFields DEF QueueTypes, CallTypes, epoch
    <2>5. CallState' /\ SessionState' /\ RoomAfterAgain'
      BY <2>1 DEF CallState, Decoding, SessionState, RoomAfterAgain, seen, api
    <2> QED
      BY <2>2, <2>3, <2>4, <2>5
  <1>5. CASE CallbackMark
    <2>1. /\ cb \in Nat /\ pipe = <<cb, EOS>> /\ pipe' = <<cb>> /\ eos_received' = TRUE
          /\ UNCHANGED <<pc, caller, pkt, sent, api, frame_queue, decoder_flushing, eos_sent,
                         closed, handle, inq, cb, skipped, seen, epoch>>
      BY <1>5 DEF CallbackMark
    <2>2. cb \in Pkts
      BY <2>1 DEF QueueTypes
    <2>3. /\ pipe' \in Seq(Pkts \cup {EOS}) /\ Len(pipe') = 1 /\ setup.depth >= 1
          /\ pipe' # <<>> /\ Head(pipe') = cb /\ Len(pipe') <= setup.depth
      BY <2>1, <2>2, SetupFields DEF CallTypes
    <2>4. Flags'
      BY <2>1 DEF Flags, api
    <2>5. CallTypes' /\ PacketTypes'
      BY <2>1 DEF CallTypes, PacketTypes, api, seen, epoch
    <2>6. QueueTypes'
      BY <2>1, <2>3 DEF QueueTypes, epoch
    <2>7. handle /\ cb # None
      BY <2>1 DEF SessionState
    <2>8. CallState' /\ SessionState' /\ RoomAfterAgain'
      BY <2>1, <2>3, <2>7 DEF CallState, Decoding, SessionState, RoomAfterAgain, seen, api
    <2> QED
      BY <2>4, <2>5, <2>6, <2>8
  <1> QED
    BY <1>1, <1>2, <1>3, <1>4, <1>5 DEF Callback, Returned

LEMMA NextBInv == ASSUME BInv, [Next]_vars PROVE BInv'
  <1>1. CASE UNCHANGED vars
    BY <1>1 DEF vars, BInv, Basics, Flags, CallTypes, PacketTypes, QueueTypes, CallState,
       Decoding, SessionState, RoomAfterAgain, seen, api, ctx, hw, seen, epoch
  <1> QED
    BY <1>1, ClientBInv, InCallBInv, SessionBInv DEF Next, Closed

-----------------------------------------------------------------------------
(* How a packet moves along the line.                                      *)

MSend == /\ bsf_pkt = None /\ bsf_pkt' = sent + 1 /\ sent' = sent + 1
         /\ UNCHANGED <<delivered, buffer_frame, frame_queue, pipe, inq, pkt, skipped>>
MTake == /\ buffer_frame \in Pkts /\ buffer_frame' = None
         /\ delivered' = Append(delivered, buffer_frame)
         /\ UNCHANGED <<frame_queue, pipe, inq, pkt, bsf_pkt, sent, skipped>>
MFetch == /\ bsf_pkt \in Pkts /\ pkt' = bsf_pkt /\ bsf_pkt' = None /\ pkt = None
          /\ UNCHANGED <<delivered, buffer_frame, frame_queue, pipe, inq, sent, skipped>>
MDrop == /\ DecodeRefused
         /\ pkt' = None
         /\ UNCHANGED <<delivered, buffer_frame, frame_queue, pipe, inq, bsf_pkt, sent, skipped>>
MRefuse == /\ pkt' = None /\ skipped' = skipped \cup {pkt}
           /\ UNCHANGED <<delivered, buffer_frame, frame_queue, pipe, inq, bsf_pkt, sent>>
MEnqueue == /\ pkt \in Pkts /\ inq' = Append(inq, pkt) /\ pkt' = None
            /\ UNCHANGED <<delivered, buffer_frame, frame_queue, pipe, bsf_pkt, sent, skipped>>
MEnd == /\ inq' = Append(inq, EOS)
        /\ UNCHANGED <<delivered, buffer_frame, frame_queue, pipe, pkt, bsf_pkt, sent, skipped>>
MAhead == /\ frame_queue # <<>> /\ frame_queue' = Tail(frame_queue)
          /\ buffer_frame = None /\ buffer_frame' = Head(frame_queue)
          /\ UNCHANGED <<delivered, pipe, inq, pkt, bsf_pkt, sent, skipped>>
MReturn == /\ frame_queue # <<>> /\ frame_queue' = Tail(frame_queue)
           /\ buffer_frame = None /\ buffer_frame' = None
           /\ delivered' = Append(delivered, Head(frame_queue))
           /\ UNCHANGED <<pipe, inq, pkt, bsf_pkt, sent, skipped>>
MDecode == /\ inq # <<>> /\ inq' = Tail(inq) /\ pipe' = Append(pipe, Head(inq))
           /\ UNCHANGED <<delivered, buffer_frame, frame_queue, pkt, bsf_pkt, sent, skipped>>
MSkip == /\ inq # <<>> /\ inq' = Tail(inq) /\ Head(inq) # EOS
         /\ skipped' = skipped \cup {Head(inq)}
         /\ UNCHANGED <<delivered, buffer_frame, frame_queue, pipe, pkt, bsf_pkt, sent>>
MDone == /\ pipe # <<>> /\ pipe' = Tail(pipe)
         /\ Head(pipe) = EOS \/ closed
         /\ UNCHANGED <<delivered, buffer_frame, frame_queue, inq, pkt, bsf_pkt, sent, skipped>>
MMark == /\ cb \in Pkts /\ pipe = <<cb, EOS>> /\ pipe' = <<cb>>
         /\ UNCHANGED <<delivered, buffer_frame, frame_queue, inq, pkt, bsf_pkt, sent, skipped>>
MCallback == /\ pipe # <<>> /\ pipe' = Tail(pipe) /\ Head(pipe) \in Pkts
             /\ frame_queue' = Append(frame_queue, Head(pipe))
             /\ UNCHANGED <<delivered, buffer_frame, inq, pkt, bsf_pkt, sent, skipped>>
MStop == /\ pipe' = <<>> /\ inq' = <<>> /\ pc \in {"destroy", "close_destroy"}
         /\ UNCHANGED <<delivered, buffer_frame, frame_queue, pkt, bsf_pkt, sent, skipped>>
MFlush == /\ delivered' = <<>> /\ buffer_frame' = None /\ frame_queue' = <<>>
          /\ flushes' # 0
          /\ UNCHANGED <<pipe, inq, pkt, bsf_pkt, sent, skipped>>
MCreate == /\ bsf_pkt' = None /\ pc = "create"
           /\ UNCHANGED <<delivered, buffer_frame, frame_queue, pipe, inq, pkt, sent, skipped>>
MFree == /\ frame_queue' = <<>> /\ closed
         /\ UNCHANGED <<delivered, buffer_frame, pipe, inq, pkt, bsf_pkt, sent, skipped>>
MNone == UNCHANGED <<delivered, buffer_frame, frame_queue, pipe, inq, pkt, bsf_pkt, sent,
                     skipped>>

Move == \/ MSend \/ MTake \/ MFetch \/ MDrop \/ MEnqueue \/ MEnd \/ MAhead \/ MReturn
        \/ MDecode \/ MSkip \/ MDone \/ MCallback \/ MStop \/ MFlush \/ MCreate \/ MFree
        \/ MNone \/ MRefuse \/ MMark

LEMMA Moves == ASSUME BInv, [Next]_vars PROVE Move
  <1> USE DEF BInv, Basics
  <1>1. CASE Client
    <2>1. CASE SendPacket
      BY <2>1 DEF SendPacket, SendRefused, MSend, MNone, Move, ctx, hw
    <2>2. CASE SendEOF
      BY <2>2 DEF SendEOF, MNone, Move, ctx, hw
    <2>3. CASE ReceiveFrame
      BY <2>3 DEF ReceiveFrame, MTake, MNone, Move, ctx, hw, seen, PacketTypes
    <2>4. CASE Flush
      <3>1. flushes' # 0
        BY <2>4 DEF Flush, CallTypes
      <3> QED
        BY <2>4, <3>1 DEF Flush, MFlush, Move, hw
    <2>5. CASE Close
      BY <2>5 DEF Close, MNone, Move, hw, api, seen
    <2> QED
      BY <1>1, <2>1, <2>2, <2>3, <2>4, <2>5 DEF Client
  <1>2. CASE InCall
    <2>1. CASE NoFetch \/ FetchEOF \/ DecodeAllowed \/ Drain
      BY <2>1 DEF NoFetch, FetchEOF, DecodeAllowed, Drain, MNone, Move, hw, api, seen, ctx
    <2>2. CASE FetchNothing \/ OutputNothing
      <3>1. pkt = None
        BY <2>2 DEF FetchNothing, OutputNothing, CallState
      <3> QED
        BY <2>2, <3>1, NoFrameReturned DEF EnqueueFails, FetchNothing, OutputNothing, MNone, Move, ctx
    <2>3. CASE FetchPacket
      BY <2>3 DEF FetchPacket, MFetch, Move, CallState, PacketTypes, hw, ctx, seen
    <2>4. CASE DecodeRefused
      BY <2>4, NoFrameReturned DEF DecodeRefused, EnqueueFails, MDrop, Move, ctx
    <2>10. CASE EnqueueFails
      <3>1. skipped' = skipped \cup {pkt}
        BY <2>10 DEF EnqueueFails
      <3> QED
        BY <2>10, <3>1, NoFrameReturned DEF MRefuse, Move, ctx
    <2>11. CASE DrainFails
      BY <2>11, EndRefused DEF MNone, Move, hw
    <2>5. CASE Enqueue
      BY <2>5 DEF Enqueue, CallState, PacketTypes, MEnqueue, Move, api, ctx, seen
    <2>6. CASE DrainEOS
      BY <2>6 DEF DrainEOS, MEnd, MNone, Move, api, seen
    <2>7. CASE OutputFrame
      BY <2>7, FrameReturned DEF MAhead, MReturn, Move, hw
    <2>8. CASE FlushCreate
      BY <2>8 DEF FlushCreate, MCreate, Move, hw, seen
    <2>9. CASE CloseFree
      BY <2>9 DEF CloseFree, CallState, MFree, Move, hw, api, seen
    <2> QED
      BY <1>2, <2>1, <2>2, <2>3, <2>4, <2>5, <2>6, <2>7, <2>8, <2>9, <2>10, <2>11 DEF InCall
  <1>3. CASE HwDecode
    BY <1>3 DEF HwDecode, MDecode, MSkip, Move, api, ctx, seen
  <1>4. CASE HwOutput \/ HwStop
    BY <1>4 DEF HwOutput, HwStop, MNone, MStop, Move, api, ctx, seen
  <1>5. CASE Callback
    <2>1. CASE CallbackEOS
      BY <2>1 DEF CallbackEOS, CallbackDone, SessionState, MDone, Move, api, seen
    <2>2. CASE CallbackAfterEnd
      BY <2>2 DEF CallbackAfterEnd, CallbackDone, SessionState, MDone, Move, api, seen, ctx
    <2>3. CASE CallbackFrame
      <3>1. cb \in Pkts /\ cb = Head(pipe) /\ pipe # <<>>
        BY <2>3 DEF CallbackFrame, SessionState, QueueTypes
      <3> QED
        BY <2>3, <3>1 DEF CallbackFrame, CallbackDone, MCallback, Move, api, seen
    <2>4. CASE CallbackMark
      <3>1. cb \in Pkts
        BY <2>4 DEF CallbackMark, QueueTypes
      <3> QED
        BY <2>4, <3>1 DEF CallbackMark, MMark, Move, api, seen
    <2> QED
      BY <1>5, <2>1, <2>2, <2>3, <2>4 DEF Callback
  <1>6. CASE UNCHANGED vars
    BY <1>6 DEF vars, MNone, Move, api, ctx, hw, seen
  <1> QED
    BY <1>1, <1>2, <1>3, <1>4, <1>5, <1>6 DEF Next, Closed

-----------------------------------------------------------------------------
(* The line keeps its order.                                               *)

LEMMA StageAppend ==
  ASSUME NEW s \in Seq(Pkts \cup {EOS}), NEW x \in Pkts \cup {EOS},
         NEW lo \in Nat, NEW hi \in Nat, NEW hi2 \in Nat,
         Stage(s, lo, hi), lo <= hi, hi <= hi2, x # EOS => hi < x /\ x <= hi2
  PROVE  Stage(Append(s, x), lo, hi2)
  <1> DEFINE t == Append(s, x)
  <1>1. /\ Len(t) = Len(s) + 1 /\ t[Len(s) + 1] = x /\ Len(s) \in Nat
        /\ \A i \in 1 .. Len(s) : t[i] = s[i] /\ s[i] \in Pkts \cup {EOS}
    BY AppendFacts
  <1> HIDE DEF t
  <1>2. \A i \in 1 .. Len(t) : i \in 1 .. Len(s) \/ i = Len(s) + 1
    BY <1>1
  <1>3. InRange(t, lo, hi2)
    <2> SUFFICES ASSUME NEW i \in 1 .. Len(t), t[i] # EOS
                 PROVE  lo < t[i] /\ t[i] <= hi2
      BY DEF InRange
    <2>1. CASE i \in 1 .. Len(s)
      <3>1. t[i] = s[i] /\ s[i] \in Pkts /\ lo < s[i] /\ s[i] <= hi
        BY <1>1, <2>1 DEF Stage, InRange
      <3> QED
        BY <3>1, PktsAreNumbers
    <2>2. CASE i = Len(s) + 1
      <3>1. t[i] = x /\ x \in Pkts
        BY <1>1, <2>2
      <3> QED
        BY <3>1, PktsAreNumbers
    <2> QED
      BY <1>2, <2>1, <2>2
  <1>4. Rising(t)
    <2> SUFFICES ASSUME NEW i \in 1 .. Len(t), NEW j \in 1 .. Len(t), i < j,
                        t[i] # EOS, t[j] # EOS
                 PROVE  t[i] < t[j]
      BY DEF Rising
    <2>1. i \in 1 .. Len(s)
      BY <1>1
    <2>2. CASE j \in 1 .. Len(s)
      BY <1>1, <2>1, <2>2 DEF Stage, Rising
    <2>3. CASE j = Len(s) + 1
      <3>1. t[j] = x /\ x \in Pkts /\ hi < x
        BY <1>1, <2>3
      <3>2. t[i] = s[i] /\ s[i] \in Pkts /\ s[i] <= hi
        BY <1>1, <2>1 DEF Stage, InRange
      <3> QED
        BY <3>1, <3>2, PktsAreNumbers
    <2> QED
      BY <1>2, <2>2, <2>3
  <1> QED
    BY <1>3, <1>4 DEF Stage, t

LEMMA StageAdd ==
  ASSUME NEW s \in Seq(Pkts \cup {EOS}), NEW m \in Pkts, NEW lo \in Nat, NEW hi \in Nat,
         Stage(s, lo, hi), lo <= hi, hi < m
  PROVE  Stage(Append(s, m), lo, m)
  <1>1. m \in Nat /\ m \in Pkts \cup {EOS} /\ hi <= m /\ m <= m
    BY PktsAreNumbers
  <1> QED
    BY <1>1, StageAppend

LEMMA StageEOS ==
  ASSUME NEW s \in Seq(Pkts \cup {EOS}), NEW lo \in Nat, NEW hi \in Nat,
         Stage(s, lo, hi), lo <= hi
  PROVE  Stage(Append(s, EOS), lo, hi)
  <1>1. EOS \in Pkts \cup {EOS} /\ hi <= hi
    OBVIOUS
  <1> QED
    BY <1>1, StageAppend

LEMMA StageTail ==
  ASSUME NEW s \in Seq(Pkts \cup {EOS}), s # <<>>, NEW lo \in Nat, NEW hi \in Nat,
         Stage(s, lo, hi)
  PROVE  /\ Stage(Tail(s), lo, hi)
         /\ Head(s) # EOS => /\ lo < Head(s) /\ Head(s) <= hi
                             /\ Head(s) \in Nat /\ Stage(Tail(s), Head(s), hi)
  <1> DEFINE t == Tail(s)
  <1>1. /\ Len(t) = Len(s) - 1 /\ Len(s) \in Nat /\ Len(s) >= 1
        /\ \A i \in 1 .. Len(t) : t[i] = s[i + 1] /\ i + 1 \in 1 .. Len(s)
        /\ Head(s) = s[1] /\ Head(s) \in Pkts \cup {EOS}
    BY TailFacts
  <1> HIDE DEF t
  <1>2. InRange(t, lo, hi)
    BY <1>1 DEF Stage, InRange
  <1>3. Rising(t)
    BY SMTT(30), <1>1 DEF Stage, Rising
  <1>4. ASSUME Head(s) # EOS
        PROVE  lo < Head(s) /\ Head(s) <= hi /\ Head(s) \in Nat /\ InRange(t, Head(s), hi)
    <2>1. lo < Head(s) /\ Head(s) <= hi /\ Head(s) \in Nat
      BY <1>1, <1>4, PktsAreNumbers DEF Stage, InRange
    <2>2. \A i \in 1 .. Len(t) : t[i] # EOS => Head(s) < t[i]
      BY SMTT(30), <1>1, <1>4 DEF Stage, Rising
    <2> QED
      BY <1>2, <2>1, <2>2 DEF InRange
  <1> QED
    BY <1>2, <1>3, <1>4 DEF Stage, t

LEMMA StageEmpty == ASSUME NEW lo, NEW hi PROVE Stage(<<>>, lo, hi)
  BY DEF Stage, InRange, Rising

\* A frame joins or leaves a queue of frames: no EOS among them.
LEMMA FramesAreItems == Seq(Pkts) \subseteq Seq(Pkts \cup {EOS})
  OBVIOUS

LEMMA LineNext == ASSUME BInv, Line, Move PROVE Line'
  <1> USE DEF BInv, Basics
  <1>0. /\ delivered \in Seq(Pkts \cup {EOS}) /\ frame_queue \in Seq(Pkts \cup {EOS})
        /\ pipe \in Seq(Pkts \cup {EOS}) /\ inq \in Seq(Pkts \cup {EOS}) /\ sent \in Nat
        /\ EOS \notin Pkts /\ None \notin Pkts
    BY FramesAreItems, PktsAreNumbers DEF PacketTypes, QueueTypes
  <1>1. PICK a \in Nat, b \in Nat, c \in Nat, d \in Nat, e \in Nat : LineAt(a, b, c, d, e)
    BY DEF Line
  <1>2. /\ a <= b /\ b <= c /\ c <= d /\ d <= e /\ e <= sent
        /\ Stage(delivered, 0, a) /\ One(buffer_frame, a, b)
        /\ Stage(frame_queue, b, c) /\ Stage(pipe, c, d) /\ Stage(inq, d, e)
        /\ One(pkt, e, sent) /\ One(bsf_pkt, e, sent) /\ 0 \in Nat /\ 0 <= a
    BY <1>1 DEF LineAt
  <1>3. CASE MSend
    <2>1. LineAt(a, b, c, d, e)'
      BY <1>0, <1>2, <1>3 DEF MSend, LineAt, One, PacketTypes, Pkts
    <2> QED
      BY <2>1 DEF Line
  <1>4. CASE MTake
    <2>1. buffer_frame \in Nat /\ a < buffer_frame /\ buffer_frame <= b
      BY <1>2, <1>4, PktsAreNumbers DEF MTake, One
    <2>2. PICK m \in Nat : m = buffer_frame
      BY <2>1
    <2>3. Stage(Append(delivered, m), 0, m)
      BY <1>0, <1>2, <1>4, <2>1, <2>2, StageAdd DEF MTake
    <2>4. LineAt(m, b, c, d, e)'
      BY <1>2, <1>4, <2>1, <2>2, <2>3 DEF MTake, LineAt, One
    <2> QED
      BY <2>4 DEF Line
  <1>5. CASE MFetch \/ MDrop
    <2>1. LineAt(a, b, c, d, e)'
      BY <1>2, <1>5 DEF MFetch, MDrop, LineAt, One
    <2> QED
      BY <2>1 DEF Line
  <1>6. CASE MEnqueue
    <2>1. pkt \in Nat /\ e < pkt /\ pkt <= sent /\ pkt \in Pkts
      BY <1>2, <1>6, PktsAreNumbers DEF MEnqueue, One
    <2>2. PICK m \in Nat : m = pkt
      BY <2>1
    <2>3. Stage(Append(inq, m), d, m)
      BY <1>0, <1>2, <2>1, <2>2, StageAdd
    <2>4. bsf_pkt = None
      BY <2>1, <1>0 DEF CallState, PacketTypes
    <2>5. LineAt(a, b, c, d, m)'
      BY <1>2, <1>6, <2>1, <2>2, <2>3, <2>4 DEF MEnqueue, LineAt, One
    <2> QED
      BY <2>5 DEF Line
  <1>7. CASE MEnd
    <2>1. Stage(Append(inq, EOS), d, e)
      BY <1>0, <1>2, StageEOS
    <2>2. LineAt(a, b, c, d, e)'
      BY <1>2, <1>7, <2>1 DEF MEnd, LineAt
    <2> QED
      BY <2>2 DEF Line
  <1>8. CASE MAhead \/ MReturn
    <2>1. frame_queue # <<>> /\ Head(frame_queue) \in Pkts
      BY <1>8, TailFacts DEF MAhead, MReturn, QueueTypes
    <2>2. PICK m \in Nat : m = Head(frame_queue)
      BY <2>1, PktsAreNumbers
    <2>3. b < m /\ m <= c /\ Stage(Tail(frame_queue), m, c)
      BY <1>0, <1>2, <2>1, <2>2, StageTail
    <2>4. CASE MAhead
      <3>1. LineAt(a, m, c, d, e)'
        BY <1>2, <2>2, <2>3, <2>4 DEF MAhead, LineAt, One
      <3> QED
        BY <3>1 DEF Line
    <2>5. CASE MReturn
      <3>1. Stage(Append(delivered, m), 0, m)
        <4>1. a < m
          BY <1>2, <2>3
        <4> QED
          BY <1>0, <1>2, <2>1, <2>2, <4>1, StageAdd
      <3>2. LineAt(m, m, c, d, e)'
        BY <1>2, <2>2, <2>3, <2>5, <3>1 DEF MReturn, LineAt, One
      <3> QED
        BY <3>2 DEF Line
    <2> QED
      BY <1>8, <2>4, <2>5
  <1>9. CASE MDecode
    <2>1. inq # <<>> /\ Head(inq) \in Pkts \cup {EOS}
      BY <1>9, TailFacts DEF MDecode, QueueTypes
    <2>2. Stage(Tail(inq), d, e)
      BY <1>0, <1>2, <2>1, StageTail
    <2>3. CASE Head(inq) = EOS
      <3>1. Stage(Append(pipe, Head(inq)), c, d)
        BY <1>0, <1>2, <2>1, <2>3, StageEOS
      <3>2. LineAt(a, b, c, d, e)'
        BY <1>2, <1>9, <2>2, <3>1 DEF MDecode, LineAt
      <3> QED
        BY <3>2 DEF Line
    <2>4. CASE Head(inq) # EOS
      <3>1. PICK m \in Nat : m = Head(inq)
        BY <2>1, <2>4, PktsAreNumbers
      <3>2. d < m /\ m <= e /\ Stage(Tail(inq), m, e)
        BY <1>0, <1>2, <2>1, <2>4, <3>1, StageTail
      <3>3. Stage(Append(pipe, m), c, m)
        BY <1>0, <1>2, <2>1, <2>4, <3>1, <3>2, StageAdd
      <3>4. LineAt(a, b, c, m, e)'
        BY <1>2, <1>9, <3>1, <3>2, <3>3 DEF MDecode, LineAt
      <3> QED
        BY <3>4 DEF Line
    <2> QED
      BY <2>3, <2>4
  <1>10. CASE MSkip
    <2>1. Stage(Tail(inq), d, e)
      BY <1>0, <1>2, <1>10, StageTail DEF MSkip
    <2>2. LineAt(a, b, c, d, e)'
      BY <1>2, <1>10, <2>1 DEF MSkip, LineAt
    <2> QED
      BY <2>2 DEF Line
  <1>11. CASE MDone
    <2>1. Stage(Tail(pipe), c, d)
      BY <1>0, <1>2, <1>11, StageTail DEF MDone
    <2>2. LineAt(a, b, c, d, e)'
      BY <1>2, <1>11, <2>1 DEF MDone, LineAt
    <2> QED
      BY <2>2 DEF Line
  <1>12. CASE MCallback
    <2>1. PICK m \in Nat : m = Head(pipe)
      BY <1>12, PktsAreNumbers DEF MCallback
    <2>2. c < m /\ m <= d /\ Stage(Tail(pipe), m, d)
      BY <1>0, <1>2, <1>12, <2>1, StageTail DEF MCallback
    <2>3. Stage(Append(frame_queue, m), b, m)
      BY <1>0, <1>2, <1>12, <2>1, <2>2, StageAdd DEF MCallback
    <2>4. LineAt(a, b, m, d, e)'
      BY <1>2, <1>12, <2>1, <2>2, <2>3 DEF MCallback, LineAt
    <2> QED
      BY <2>4 DEF Line
  <1>13. CASE MStop \/ MFree \/ MCreate \/ MNone
    <2>1. LineAt(a, b, c, d, e)'
      BY <1>2, <1>13, StageEmpty DEF MStop, MFree, MCreate, MNone, LineAt, One
    <2> QED
      BY <2>1 DEF Line
  <1>15. CASE MRefuse
    <2>1. LineAt(a, b, c, d, e)'
      BY <1>2, <1>15 DEF MRefuse, LineAt, One
    <2> QED
      BY <2>1 DEF Line
  <1>16. CASE MMark
    <2>1. Stage(<<cb>>, c, d)
      <3>1. /\ Len(<<cb, EOS>>) = 2 /\ <<cb, EOS>>[1] = cb /\ cb # EOS
            /\ Len(<<cb>>) = 1 /\ <<cb>>[1] = cb
        BY <1>16, PktsAreNumbers DEF MMark
      <3>2. c < cb /\ cb <= d
        BY <1>2, <1>16, <3>1 DEF MMark, Stage, InRange
      <3> QED
        BY <3>1, <3>2 DEF Stage, InRange, Rising
    <2>2. LineAt(a, b, c, d, e)'
      BY <1>2, <1>16, <2>1 DEF MMark, LineAt
    <2> QED
      BY <2>2 DEF Line
  <1>14. CASE MFlush
    <2>1. LineAt(a, b, c, d, e)'
      BY <1>2, <1>14, StageEmpty DEF MFlush, LineAt, One
    <2> QED
      BY <2>1 DEF Line
  <1> QED
    BY <1>3, <1>4, <1>5, <1>6, <1>7, <1>8, <1>9, <1>10, <1>11, <1>12, <1>13, <1>14,
       <1>15, <1>16 DEF Move

-----------------------------------------------------------------------------
(* The line keeps to its room.                                             *)

\* Room without primes: the lengths after the step are q, p, i and h.
LEMMA RoomBy ==
  ASSUME NEW q \in Nat, NEW p \in Nat, NEW i \in Nat, NEW h \in {0, 1},
         Len(frame_queue') = q, Len(pipe') = p, Len(inq') = i, Here(pkt') = h,
         setup' = setup, setup.depth \in Nat,
         \/ q + p + i + h <= setup.depth + InCap
         \/ /\ q + p + i + h <= setup.depth + InCap + 1
            /\ pc' \in {"decode", "enqueue", "output"}
  PROVE  Room'
  BY DEF Room, InFlight, Here

LEMMA SetupStays == ASSUME [Next]_vars PROVE setup' = setup
  <1> USE DEF epoch
  <1>1. CASE Client
    BY <1>1 DEF Client, SendPacket, SendEOF, ReceiveFrame, Flush, Close
  <1>2. CASE InCall
    BY <1>2 DEF InCall, NoFetch, FetchEOF, FetchNothing, FetchPacket, DecodeRefused,
       DecodeAllowed, Enqueue, EnqueueFails, Drain, DrainEOS, OutputFrame, OutputNothing,
       FlushCreate, CloseFree, DrainFails
  <1>3. CASE HwDecode \/ HwOutput \/ Callback \/ HwStop
    BY <1>3 DEF HwDecode, HwOutput, Callback, CallbackEOS, CallbackAfterEnd, CallbackFrame,
       CallbackMark, HwStop
  <1>4. CASE UNCHANGED vars
    BY <1>4 DEF vars
  <1> QED
    BY <1>1, <1>2, <1>3, <1>4 DEF Next, Closed

LEMMA RoomNext == ASSUME BInv, Room, [Next]_vars PROVE Room'
  <1> USE DEF BInv, Basics
  <1> DEFINE q == Len(frame_queue)
             p == Len(pipe)
             i == Len(inq)
             h == Here(pkt)
             D == setup.depth
             more == IF pc \in {"decode", "enqueue", "output"} THEN 1 ELSE 0
  <1>0. /\ q \in Nat /\ p \in Nat /\ i \in Nat /\ h \in {0, 1} /\ D \in Nat
        /\ p <= D /\ i <= InCap /\ q + p + i + h <= D + InCap + more
        /\ 0 \in Nat /\ 0 \in {0, 1} /\ Len(<<>>) = 0 /\ Here(None) = 0
    BY SetupFields DEF QueueTypes, CallTypes, Room, InFlight, Here
  <1>s. setup' = setup
    BY SetupStays
  \* The queue of frames or all queues are emptied, at a statement that is not in a call.
  <1>1. CASE Client \/ CloseFree \/ HwStop
    <2>1. /\ more = 0 /\ pkt' = pkt
          /\ frame_queue' = frame_queue \/ frame_queue' = <<>>
          /\ \/ pipe' = pipe /\ inq' = inq
             \/ pipe' = <<>> /\ inq' = <<>>
      BY <1>1 DEF Client, SendPacket, SendEOF, ReceiveFrame, Flush, Close, CloseFree, HwStop,
         ctx, hw
    <2>2. /\ q + p + i + h <= D + InCap /\ 0 + p + i + h <= D + InCap
          /\ q + 0 + 0 + h <= D + InCap /\ 0 + 0 + 0 + h <= D + InCap
      BY <1>0, <2>1
    <2>3. CASE pipe' = pipe /\ inq' = inq
      BY <1>0, <1>s, <2>1, <2>2, <2>3, RoomBy
    <2>4. CASE pipe' = <<>> /\ inq' = <<>>
      BY <1>0, <1>s, <2>1, <2>2, <2>4, RoomBy
    <2> QED
      BY <2>1, <2>3, <2>4
  <1>2. CASE NoFetch \/ FetchEOF \/ Drain \/ DrainFails \/ FlushCreate
    <2>1. more = 0 /\ UNCHANGED <<frame_queue, pipe, inq, pkt>>
      BY <1>2 DEF NoFetch, FetchEOF, Drain, DrainFails, FlushCreate, ctx, hw
    <2>2. q + p + i + h <= D + InCap
      BY <1>0, <2>1
    <2> QED
      BY <1>0, <1>s, <2>1, <2>2, RoomBy
  <1>3. CASE FetchNothing \/ DecodeRefused \/ EnqueueFails \/ OutputNothing
    <2>1. UNCHANGED <<frame_queue, pipe, inq>> /\ pkt' = None
      BY <1>3, NoFrameReturned DEF ctx
    <2>2. q + p + i + 0 <= D + InCap
      <3>1. CASE FetchNothing
        BY <1>0, <3>1 DEF FetchNothing
      <3>2. CASE DecodeRefused \/ EnqueueFails
        <4>1. h = 1
          BY <3>2 DEF DecodeRefused, EnqueueFails, CallState, Here
        <4> QED
          BY <1>0, <4>1
      <3>3. CASE OutputNothing
        <4>1. q = 0
          BY <1>0, <3>3 DEF OutputNothing
        <4> QED
          BY <1>0, <4>1
      <3> QED
        BY <1>3, <3>1, <3>2, <3>3
    <2> QED
      BY <1>0, <1>s, <2>1, <2>2, RoomBy
  <1>4. CASE FetchPacket
    <2>1. /\ more = 0 /\ UNCHANGED <<frame_queue, pipe, inq>> /\ pc' = "decode"
          /\ h = 0 /\ Here(pkt') = 1
      BY <1>4 DEF FetchPacket, CallState, Here, ctx, hw
    <2>2. q + p + i + 1 <= D + InCap + 1 /\ 1 \in {0, 1}
      BY <1>0, <2>1
    <2> QED
      BY <1>0, <1>s, <2>1, <2>2, RoomBy
  <1>5. CASE DecodeAllowed
    <2>1. more = 1 /\ UNCHANGED <<frame_queue, pipe, inq, pkt>> /\ pc' = "enqueue"
      BY <1>5 DEF DecodeAllowed, ctx, hw
    <2>2. /\ Len(frame_queue') = q /\ Len(pipe') = p /\ Len(inq') = i
          /\ Here(pkt') = h /\ q + p + i + h <= D + InCap + 1
      BY <1>0, <2>1
    <2> HIDE DEF q, p, i, h
    <2> QED
      BY <1>0, <1>s, <2>1, <2>2, RoomBy
  <1>6. CASE Enqueue
    <2>1. /\ more = 1 /\ UNCHANGED <<frame_queue, pipe>> /\ pc' = "output"
          /\ h = 1 /\ pkt' = None /\ inq' = Append(inq, pkt) /\ pkt \in Pkts \cup {EOS}
      BY <1>6 DEF Enqueue, CallState, Here, ctx, PacketTypes
    <2>2. Len(inq') = i + 1
      BY <2>1, AppendFacts DEF QueueTypes
    <2>3. q + p + (i + 1) + 0 <= D + InCap + 1 /\ i + 1 \in Nat
      BY <1>0, <2>1
    <2> QED
      BY <1>0, <1>s, <2>1, <2>2, <2>3, RoomBy
  <1>7. CASE DrainEOS
    <2>1. /\ more = 0 /\ UNCHANGED <<frame_queue, pipe, pkt>> /\ pc' = "output"
          /\ inq' = inq \/ inq' = Append(inq, EOS)
      BY <1>7 DEF DrainEOS
    <2>2. Len(inq') = i \/ Len(inq') = i + 1
      BY <2>1, AppendFacts DEF QueueTypes
    <2>3. /\ q + p + i + h <= D + InCap
          /\ q + p + (i + 1) + h <= D + InCap + 1 /\ i + 1 \in Nat
      BY <1>0, <2>1
    <2> QED
      BY <1>0, <1>s, <2>1, <2>2, <2>3, RoomBy
  <1>8. CASE OutputFrame
    <2>1. /\ frame_queue # <<>> /\ frame_queue' = Tail(frame_queue)
          /\ UNCHANGED <<pipe, inq, pkt>>
      BY <1>8, FrameReturned DEF hw
    <2>2. Len(frame_queue') = q - 1 /\ q >= 1
      BY <2>1, TailFacts DEF QueueTypes
    <2>3. (q - 1) + p + i + h <= D + InCap /\ q - 1 \in Nat
      BY <1>0, <2>2
    <2> QED
      BY <1>0, <1>s, <2>1, <2>2, <2>3, RoomBy
  <1>9. CASE HwDecode
    <2>1. /\ UNCHANGED <<frame_queue, pkt, pc>> /\ inq # <<>> /\ inq' = Tail(inq)
          /\ pipe' = pipe \/ pipe' = Append(pipe, Head(inq))
      BY <1>9 DEF HwDecode, ctx
    <2>2. Len(inq') = i - 1 /\ i >= 1 /\ Head(inq) \in Pkts \cup {EOS}
      BY <2>1, TailFacts DEF QueueTypes
    <2>3. Len(pipe') = p \/ Len(pipe') = p + 1
      BY <2>1, <2>2, AppendFacts DEF QueueTypes
    <2>4. /\ q + p + (i - 1) + h <= D + InCap + more /\ i - 1 \in Nat
          /\ q + (p + 1) + (i - 1) + h <= D + InCap + more /\ p + 1 \in Nat
      BY <1>0, <2>2
    <2>5. \/ more = 0
          \/ more = 1 /\ pc' \in {"decode", "enqueue", "output"}
      BY <2>1
    <2>6. CASE more = 0
      <3>1. q + p + (i - 1) + h <= D + InCap /\ q + (p + 1) + (i - 1) + h <= D + InCap
        BY <1>0, <2>2, <2>4, <2>6
      <3> QED
        BY <1>0, <1>s, <2>1, <2>2, <2>3, <2>4, <3>1, RoomBy
    <2>7. CASE more = 1 /\ pc' \in {"decode", "enqueue", "output"}
      BY <1>0, <1>s, <2>1, <2>2, <2>3, <2>4, <2>7, RoomBy
    <2> QED
      BY <2>5, <2>6, <2>7
  <1>10. CASE Returned
    <2>1. /\ UNCHANGED <<inq, pkt, pc>> /\ pipe # <<>> /\ pipe' = Tail(pipe)
          /\ \/ frame_queue' = frame_queue
             \/ cb \in Pkts /\ frame_queue' = Append(frame_queue, cb)
      BY <1>10 DEF Returned, CallbackEOS, CallbackAfterEnd, CallbackFrame, CallbackDone, ctx,
         SessionState, QueueTypes
    <2>2. Len(pipe') = p - 1 /\ p >= 1
      BY <2>1, TailFacts DEF QueueTypes
    <2>3. Len(frame_queue') = q \/ Len(frame_queue') = q + 1
      BY <2>1, AppendFacts DEF QueueTypes
    <2>4. /\ q + (p - 1) + i + h <= D + InCap + more /\ p - 1 \in Nat
          /\ (q + 1) + (p - 1) + i + h <= D + InCap + more /\ q + 1 \in Nat
      BY <1>0, <2>2
    <2>5. \/ more = 0
          \/ more = 1 /\ pc' \in {"decode", "enqueue", "output"}
      BY <2>1
    <2>6. CASE more = 0
      <3>1. q + (p - 1) + i + h <= D + InCap /\ (q + 1) + (p - 1) + i + h <= D + InCap
        BY <1>0, <2>2, <2>4, <2>6
      <3> QED
        BY <1>0, <1>s, <2>1, <2>2, <2>3, <2>4, <3>1, RoomBy
    <2>7. CASE more = 1 /\ pc' \in {"decode", "enqueue", "output"}
      BY <1>0, <1>s, <2>1, <2>2, <2>3, <2>4, <2>7, RoomBy
    <2> QED
      BY <2>5, <2>6, <2>7
  <1>11. CASE HwOutput \/ UNCHANGED vars
    <2>1. UNCHANGED <<frame_queue, pipe, inq, pkt, pc>>
      BY <1>11 DEF HwOutput, vars, ctx, hw
    <2>2. /\ Len(frame_queue') = q /\ Len(pipe') = p /\ Len(inq') = i
          /\ Here(pkt') = h
      BY <2>1
    <2>3. \/ q + p + i + h <= D + InCap
          \/ /\ q + p + i + h <= D + InCap + 1
             /\ pc' \in {"decode", "enqueue", "output"}
      BY <1>0, <2>1
    <2> HIDE DEF q, p, i, h
    <2> QED
      BY <1>0, <1>s, <2>2, <2>3, RoomBy
  <1>12. CASE CallbackMark
    <2>1. /\ UNCHANGED <<inq, pkt, pc, frame_queue>> /\ p = 2 /\ Len(pipe') = 1
      BY <1>12 DEF CallbackMark
    <2>2. /\ Len(frame_queue') = q /\ Len(inq') = i /\ Here(pkt') = h /\ 1 \in Nat
          /\ \/ q + 1 + i + h <= D + InCap
             \/ /\ q + 1 + i + h <= D + InCap + 1
                /\ pc' \in {"decode", "enqueue", "output"}
      BY <1>0, <2>1
    <2> HIDE DEF q, p, i, h
    <2> QED
      BY <1>0, <1>s, <2>1, <2>2, RoomBy
  <1> QED
    BY <1>1, <1>2, <1>3, <1>4, <1>5, <1>6, <1>7, <1>8, <1>9, <1>10, <1>11, <1>12
    DEF Next, InCall, Closed, Callback, Returned

-----------------------------------------------------------------------------
(* The end of the stream, before the first flush.                          *)

LEMMA NoEOSAppend ==
  ASSUME NEW s \in Seq(Pkts \cup {EOS}), NoEOS(s), NEW x \in Pkts
  PROVE  NoEOS(Append(s, x))
  <1>1. Append(s, x)[Len(s) + 1] = x /\ x # EOS /\ Len(Append(s, x)) = Len(s) + 1
    BY PktsAreNumbers, AppendFacts
  <1>2. \A i \in 1 .. Len(s) : Append(s, x)[i] = s[i]
    BY AppendFacts
  <1> QED
    BY <1>1, <1>2 DEF NoEOS

LEMMA NoEOSTail ==
  ASSUME NEW s \in Seq(Pkts \cup {EOS}), NoEOS(s), s # <<>>
  PROVE  NoEOS(Tail(s)) /\ Head(s) \in Pkts
  BY TailFacts DEF NoEOS

LEMMA LastEOSAppend ==
  ASSUME NEW s \in Seq(Pkts \cup {EOS}), NoEOS(s)
  PROVE  LastEOS(Append(s, EOS))
  <1>1. /\ Append(s, EOS)[Len(s) + 1] = EOS /\ Len(Append(s, EOS)) = Len(s) + 1
        /\ Append(s, EOS) # <<>> /\ Len(s) \in Nat
        /\ \A i \in 1 .. Len(s) : Append(s, EOS)[i] = s[i]
    BY AppendFacts
  <1> QED
    BY <1>1 DEF NoEOS, LastEOS

LEMMA LenZero == ASSUME NEW S, NEW s \in Seq(S) PROVE s = <<>> <=> Len(s) = 0
  OBVIOUS

LEMMA LastEOSTail ==
  ASSUME NEW s \in Seq(Pkts \cup {EOS}), LastEOS(s)
  PROVE  /\ Head(s) = EOS => Tail(s) = <<>>
         /\ Head(s) # EOS => LastEOS(Tail(s))
  <1> DEFINE t == Tail(s)
             n == Len(s)
  <1>1. /\ Len(t) = n - 1 /\ Head(s) = s[1] /\ n \in Nat /\ n >= 1
        /\ \A i \in 1 .. n - 1 : t[i] = s[i + 1]
        /\ t \in Seq(Pkts \cup {EOS})
    BY TailFacts DEF LastEOS
  <1>2. s[n] = EOS /\ \A i \in 1 .. n : s[i] = EOS => i = n
    BY DEF LastEOS
  <1>3. t = <<>> <=> n = 1
    <2>1. t = <<>> <=> Len(t) = 0
      BY <1>1, LenZero
    <2> QED
      BY <1>1, <2>1
  <1> HIDE DEF t, n
  <1>4. CASE Head(s) = EOS
    <2>1. 1 \in 1 .. n
      BY <1>1
    <2> QED
      BY <1>1, <1>2, <1>3, <1>4, <2>1 DEF t
  <1>5. CASE Head(s) # EOS
    <2>1. n >= 2 /\ n - 1 \in 1 .. n - 1
      BY <1>1, <1>2, <1>5
    <2>2. t # <<>> /\ t[n - 1] = EOS
      BY <1>1, <1>2, <1>3, <2>1
    <2>3. \A i \in 1 .. n - 1 : t[i] = EOS => i = n - 1
      BY <1>1, <1>2
    <2>4. LastEOS(t)
      BY <1>1, <2>2, <2>3 DEF LastEOS
    <2> QED
      BY <1>5, <2>4 DEF t
  <1> QED
    BY <1>4, <1>5

\* The filter is empty before the first packet.
LEMMA NothingSent == ASSUME Basics, Line, sent = 0 PROVE bsf_pkt = None
  <1>1. PICK a \in Nat, b \in Nat, c \in Nat, d \in Nat, e \in Nat : LineAt(a, b, c, d, e)
    BY DEF Line
  <1>2. One(bsf_pkt, e, sent)
    BY <1>1 DEF LineAt
  <1>3. bsf_pkt \in Pkts => e < bsf_pkt /\ bsf_pkt <= 0
    BY <1>2, PktsAreNumbers DEF One
  <1> QED
    BY <1>3, PktsAreNumbers DEF Basics, PacketTypes

LEMMA EarlyStays ==
  ASSUME BInv, [Next]_vars, flushes' = 0, ~closed'
  PROVE  flushes = 0 /\ ~closed /\ ~Flush /\ ~Close
  <1>1. ~Flush /\ ~Close
    BY DEF Flush, Close, BInv, Basics, CallTypes
  <1> USE DEF epoch, ctx
  <1>2. CASE Client
    BY <1>1, <1>2 DEF Client, SendPacket, SendEOF, ReceiveFrame
  <1>3. CASE InCall
    BY <1>1, <1>3 DEF InCall, NoFetch, FetchEOF, FetchNothing, FetchPacket, DecodeRefused,
       DecodeAllowed, Enqueue, EnqueueFails, Drain, DrainEOS, OutputFrame, OutputNothing,
       FlushCreate, CloseFree, DrainFails
  <1>4. CASE HwDecode \/ HwOutput \/ Callback \/ HwStop
    BY <1>1, <1>4 DEF HwDecode, HwOutput, Callback, CallbackEOS, CallbackAfterEnd, CallbackFrame,
       CallbackMark, HwStop
  <1>5. CASE UNCHANGED vars
    BY <1>1, <1>5 DEF vars
  <1> QED
    BY <1>2, <1>3, <1>4, <1>5 DEF Next, Closed

LEMMA EndFlagsNext ==
  ASSUME BInv, Line, [Next]_vars, flushes' = 0, ~closed', EndFlags
  PROVE  EndFlags'
  <1> USE DEF EndFlags
  <1>0. flushes = 0 /\ ~closed /\ ~Flush /\ ~Close
    BY EarlyStays
  <1>1. CASE SendPacket
    <2>1. /\ UNCHANGED <<mark, handle, decoder_flushing, draining, bsf_eof, eos_sent, last, setup>>
          /\ pc' \notin {"destroy", "create"}
          /\ bsf_eof => bsf_pkt' = bsf_pkt
      BY <1>1 DEF SendPacket, SendRefused, SendAccepted, ctx, epoch
    <2> QED
      BY <2>1
  <1>2. CASE SendEOF
    <2>1. /\ UNCHANGED <<mark, handle, decoder_flushing, draining, bsf_pkt, eos_sent, last, setup>>
          /\ pc' \notin {"destroy", "create"}
          /\ bsf_eof' = bsf_eof \/ bsf_eof' = TRUE
          /\ bsf_eof => bsf_eof'
      BY <1>2 DEF SendEOF, SendRefused, SendAccepted, ctx, epoch
    <2>2. ~setup.eager => bsf_pkt = None
      BY <1>2, NothingSent DEF SendEOF, MayDrain, RoomAfterAgain, BInv
    <2> QED
      BY <2>1, <2>2
  <1>3. CASE ReceiveFrame
    <2>1. /\ UNCHANGED <<mark, handle, decoder_flushing, draining, bsf_pkt, bsf_eof, eos_sent, setup>>
          /\ pc' \notin {"destroy", "create"}
          /\ last' = last \/ last' = "OK"
      BY <1>3 DEF ReceiveFrame, RecvResult, ctx, epoch, seen
    <2> QED
      BY <2>1
  <1>4. CASE FetchEOF
    <2>1. /\ UNCHANGED <<mark, handle, bsf_pkt, bsf_eof, eos_sent, last, setup>>
          /\ pc' \notin {"destroy", "create"} /\ draining' = TRUE /\ decoder_flushing' = TRUE
          /\ draining \/ bsf_eof
      BY <1>4 DEF FetchEOF, AfterInput, epoch, seen
    <2> QED
      BY <2>1
  <1>5. CASE NoFetch \/ DecodeAllowed \/ Enqueue \/ Drain
    <2>1. /\ UNCHANGED <<mark, handle, decoder_flushing, draining, bsf_eof, bsf_pkt, eos_sent,
                         last, setup>>
          /\ pc' \notin {"destroy", "create"}
      BY <1>5 DEF NoFetch, DecodeAllowed, Enqueue, Drain, AfterInput, epoch, seen, ctx, api
    <2> QED
      BY <2>1
  <1>6. CASE FetchPacket
    <2>1. /\ UNCHANGED <<mark, handle, decoder_flushing, draining, bsf_eof, eos_sent, last, setup>>
          /\ pc' \notin {"destroy", "create"} /\ bsf_pkt' = None
      BY <1>6 DEF FetchPacket, epoch, seen, ctx
    <2> QED
      BY <2>1
  <1>7. CASE FetchNothing \/ DecodeRefused \/ EnqueueFails \/ OutputNothing
    <2>1. /\ UNCHANGED <<mark, handle, decoder_flushing, draining, bsf_eof, bsf_pkt, eos_sent, setup>>
          /\ pc' \notin {"destroy", "create"}
          /\ last' = "EOF" => last = "EOF" \/ decoder_flushing
      BY <1>7, NoFrameReturned DEF ctx, epoch
    <2> QED
      BY <2>1
  <1>8. CASE OutputFrame
    <2>1. /\ UNCHANGED <<mark, handle, decoder_flushing, draining, bsf_eof, bsf_pkt, eos_sent, setup>>
          /\ pc' \notin {"destroy", "create"}
          /\ last' = "EOF" => last = "EOF"
      BY <1>8, FrameReturned DEF epoch
    <2> QED
      BY <2>1
  <1>9. CASE DrainEOS
    <2>1. /\ UNCHANGED <<mark, handle, decoder_flushing, draining, bsf_eof, bsf_pkt, last, setup>>
          /\ pc' \notin {"destroy", "create"} /\ decoder_flushing
      BY <1>9 DEF DrainEOS, epoch, seen, api, BInv, Basics, CallState
    <2> QED
      BY <2>1
  <1>12. CASE DrainFails
    <2>1. /\ UNCHANGED <<mark, handle, decoder_flushing, draining, bsf_eof, bsf_pkt, setup>>
          /\ pc' \notin {"destroy", "create"} /\ decoder_flushing
          /\ last' = "EOF" => last = "EOF"
      BY <1>12, EndRefused DEF epoch, BInv, Basics, CallState
    <2> QED
      BY <2>1
  <1>10. CASE FlushCreate \/ CloseFree \/ HwStop
    BY <1>0, <1>10 DEF FlushCreate, CloseFree, HwStop, BInv, Basics, CallState
  <1>11. CASE HwDecode \/ HwOutput \/ Callback \/ UNCHANGED vars
    <2>1. UNCHANGED <<mark, handle, pc, decoder_flushing, draining, bsf_eof, bsf_pkt, eos_sent,
                      last, setup>>
      BY <1>11 DEF HwDecode, HwOutput, Callback, CallbackEOS, CallbackFrame, CallbackAfterEnd,
         CallbackMark,
         vars, epoch, seen, api, ctx
    <2> QED
      BY <2>1
  <1> QED
    BY <1>0, <1>1, <1>2, <1>3, <1>4, <1>5, <1>6, <1>7, <1>8, <1>9, <1>10, <1>11, <1>12
    DEF Next, Client, InCall, Closed

LEMMA EndQueuesNext ==
  ASSUME BInv, [Next]_vars, flushes' = 0, ~closed', EndFlags, EndQueues
  PROVE  EndQueues'
  <1>0. /\ ~closed /\ ~Flush /\ ~Close
        /\ inq \in Seq(Pkts \cup {EOS}) /\ pipe \in Seq(Pkts \cup {EOS})
    BY EarlyStays DEF BInv, Basics, QueueTypes
  <1>s. setup' = setup
    BY SetupStays
  <1>1. CASE UNCHANGED <<inq, pipe, cb, eos_sent, eos_received>>
    BY <1>1, <1>s DEF EndQueues
  <1>2. CASE Enqueue
    <2>1. ~eos_sent /\ pkt \in Pkts
      BY <1>2 DEF Enqueue, EndFlags, BInv, Basics, CallState, PacketTypes
    <2>2. NoEOS(Append(inq, pkt))
      BY <1>0, <2>1, NoEOSAppend DEF EndQueues
    <2>3. inq' = Append(inq, pkt) /\ UNCHANGED <<pipe, cb, eos_sent, eos_received>>
      BY <1>2 DEF Enqueue, ctx
    <2> QED
      BY <2>1, <2>2, <2>3 DEF EndQueues
  <1>3. CASE DrainEOS
    <2>1. ~eos_sent /\ UNCHANGED <<pipe, cb, eos_received>>
      BY <1>3 DEF DrainEOS, BInv, Basics, CallState
    <2>2. CASE handle /\ tfdec_query_input_queue = InCap
      <3>1. inq = <<>>
        <4>1. InCap - Len(inq) = InCap /\ Len(inq) \in Nat
          BY <1>0, <2>2 DEF tfdec_query_input_queue
        <4> QED
          BY <1>0, <4>1, LenZero
      <3>2. inq' = <<EOS>> /\ eos_sent' = TRUE
        BY <1>3, <2>2, <3>1 DEF DrainEOS
      <3> QED
        BY <2>1, <3>2 DEF EndQueues
    <2>3. CASE ~(handle /\ tfdec_query_input_queue = InCap)
      BY <1>1, <1>3, <2>1, <2>3 DEF DrainEOS
    <2> QED
      BY <2>2, <2>3
  <1>11. CASE DrainFails
    <2>1. /\ ~eos_sent /\ UNCHANGED <<inq, pipe, eos_received>> /\ inq = <<>>
          /\ eos_sent' = TRUE /\ setup.refuses
      BY <1>11, EndRefused DEF hw, BInv, Basics, CallState, DrainFails
    <2>2. ~eos_received /\ NoEOS(pipe)
      BY <2>1 DEF EndQueues
    <2> QED
      BY <1>s, <2>1, <2>2 DEF EndQueues
  <1>12. CASE HwOutput
    <2>1. UNCHANGED <<inq, pipe, eos_sent, eos_received>> /\ cb = None
      BY <1>12 DEF HwOutput, ctx
    <2> QED
      BY <1>s, <2>1, PktsAreNumbers DEF EndQueues
  <1>13. CASE CallbackMark
    <2>1. /\ setup.joint /\ cb \in Pkts /\ pipe = <<cb, EOS>> /\ pipe' = <<cb>>
          /\ eos_received' = TRUE /\ UNCHANGED <<inq, cb, eos_sent>>
      BY <1>13 DEF CallbackMark, BInv, Basics, QueueTypes
    <2>2. ~NoEOS(pipe) /\ pipe # <<>> /\ pipe # <<cb>>
      <3>1. Len(pipe) = 2 /\ pipe[2] = EOS /\ Len(<<cb>>) = 1 /\ Len(<<>>) = 0
        BY <2>1
      <3> QED
        BY <3>1 DEF NoEOS
    <2>3. eos_sent /\ inq = <<>>
      BY <2>2 DEF EndQueues
    <2> QED
      BY <1>s, <2>1, <2>3 DEF EndQueues
  <1>4. CASE HwDecode
    <2>1. /\ inq # <<>> /\ inq' = Tail(inq) /\ UNCHANGED <<cb, eos_sent, eos_received>>
          /\ \/ pipe' = Append(pipe, Head(inq))
             \/ Head(inq) # EOS /\ pipe' = pipe
      BY <1>4 DEF HwDecode, ctx
    <2>2. ~eos_received
      BY <2>1 DEF EndQueues
    <2>3. CASE ~eos_sent
      <3>1. NoEOS(inq) /\ NoEOS(pipe)
        BY <2>3 DEF EndQueues
      <3>2. NoEOS(Tail(inq)) /\ NoEOS(Append(pipe, Head(inq)))
        BY <1>0, <2>1, <3>1, NoEOSTail, NoEOSAppend
      <3> QED
        BY <2>1, <2>2, <2>3, <3>1, <3>2 DEF EndQueues
    <2>4. CASE eos_sent
      <3>1. inq = <<EOS>> /\ NoEOS(pipe)
        BY <2>1, <2>2, <2>4 DEF EndQueues
      <3>2. Head(inq) = EOS /\ Tail(inq) = <<>>
        BY <3>1
      <3>3. LastEOS(Append(pipe, EOS))
        BY <1>0, <3>1, LastEOSAppend
      <3> QED
        BY <2>1, <2>2, <2>4, <3>2, <3>3 DEF EndQueues
    <2> QED
      BY <2>3, <2>4
  <1>5. CASE Returned
    <2>1. /\ pipe # <<>> /\ cb = Head(pipe) /\ pipe' = Tail(pipe)
          /\ UNCHANGED <<inq, eos_sent>>
      BY <1>5 DEF Returned, CallbackEOS, CallbackFrame, CallbackAfterEnd, CallbackDone, ctx,
         BInv, Basics, SessionState
    <2>2. CASE eos_received
      <3>1. inq = <<>> /\ cb \in Pkts /\ pipe = <<cb>>
        BY <2>1, <2>2 DEF EndQueues
      <3>2. Tail(pipe) = <<>> /\ eos_sent /\ cb # EOS
        BY <2>2, <3>1, PktsAreNumbers DEF EndQueues
      <3>3. eos_received' = eos_received
        BY <1>5, <3>2 DEF Returned, CallbackEOS, CallbackFrame, CallbackAfterEnd, ctx
      <3> QED
        BY <2>1, <2>2, <3>1, <3>2, <3>3 DEF EndQueues
    <2>3. CASE ~eos_received /\ cb = EOS
      <3>1. eos_received' = TRUE
        BY <1>5, <2>3 DEF Returned, CallbackEOS, CallbackFrame, CallbackAfterEnd
      <3>2. ~NoEOS(pipe)
        BY <1>0, <2>1, <2>3, NoEOSTail, PktsAreNumbers
      <3>3. eos_sent /\ inq = <<>> /\ LastEOS(pipe)
        BY <2>3, <3>2 DEF EndQueues
      <3>4. Tail(pipe) = <<>>
        BY <1>0, <2>1, <2>3, <3>3, LastEOSTail
      <3> QED
        BY <2>1, <3>1, <3>3, <3>4 DEF EndQueues
    <2>4. CASE ~eos_received /\ cb # EOS
      <3>1. eos_received' = eos_received
        BY <1>5, <2>4 DEF Returned, CallbackEOS, CallbackFrame, CallbackAfterEnd, ctx
      <3>2. NoEOS(pipe) => NoEOS(Tail(pipe))
        BY <1>0, <2>1, NoEOSTail
      <3>3. LastEOS(pipe) => LastEOS(Tail(pipe))
        BY <1>0, <2>1, <2>4, LastEOSTail
      <3> QED
        BY <1>s, <2>1, <2>4, <3>1, <3>2, <3>3 DEF EndQueues
    <2> QED
      BY <2>2, <2>3, <2>4
  <1>6. CASE SendPacket \/ SendEOF \/ ReceiveFrame \/ UNCHANGED vars
    BY <1>1, <1>6 DEF SendPacket, SendEOF, ReceiveFrame, vars, ctx, hw
  <1>7. CASE NoFetch \/ FetchEOF \/ FetchPacket \/ DecodeAllowed \/ Drain
    BY <1>1, <1>7 DEF NoFetch, FetchEOF, FetchPacket, DecodeAllowed, Drain, ctx, hw
  <1>8. CASE FetchNothing \/ DecodeRefused \/ EnqueueFails \/ OutputNothing
    BY <1>1, <1>8, NoFrameReturned DEF ctx
  <1>9. CASE OutputFrame
    BY <1>1, <1>9, FrameReturned DEF hw
  <1>10. CASE FlushCreate \/ CloseFree \/ HwStop
    BY <1>0, <1>10 DEF EndFlags, FlushCreate, CloseFree, HwStop, BInv, Basics, CallState
  <1> QED
    BY <1>0, <1>2, <1>3, <1>4, <1>5, <1>6, <1>7, <1>8, <1>9, <1>10, <1>11, <1>12, <1>13
    DEF Next, Client, InCall, Closed, Callback, Returned

LEMMA EndNext == ASSUME BInv, Line, EndState, [Next]_vars PROVE EndState'
  BY EarlyStays, EndFlagsNext, EndQueuesNext DEF EndState

-----------------------------------------------------------------------------
(* No packet is lost before the first flush.                               *)

\* With no more on its way than Room says, a WellSized queue is not full when a
\* frame comes or a packet is taken.
LEMMA RoomSuffices == ASSUME Basics, Room PROVE RoomInQueue
  <1> SUFFICES ASSUME WellSized, (cb \in Nat /\ ~closed) \/ pc = "decode"
               PROVE  ~tfvid_is_buffer_full
    BY DEF RoomInQueue
  <1>1. /\ Len(frame_queue) \in Nat /\ Len(pipe) \in Nat /\ Len(inq) \in Nat
        /\ setup.depth \in Nat /\ setup.depth < Slack
    BY SetupFields DEF Basics, CallTypes, QueueTypes, WellSized
  <1>2. Len(pipe) >= 1 \/ Here(pkt) = 1
    <2>1. CASE pc = "decode"
      BY <2>1 DEF Basics, CallState, Here
    <2>2. CASE cb \in Nat
      <3>1. pipe # <<>>
        BY <2>2 DEF Basics, SessionState
      <3> QED
        BY <1>1, <3>1, LenZero DEF Basics, QueueTypes
    <2> QED
      BY <2>1, <2>2
  <1>3. InFlight <= setup.depth + InCap + 1 /\ Here(pkt) \in {0, 1}
    BY <1>1 DEF Room, InFlight, Here
  <1>4. Len(frame_queue) + 1 <= setup.depth + InCap + 1
    BY <1>1, <1>2, <1>3 DEF InFlight
  <1> QED
    BY <1>1, <1>4 DEF tfvid_is_buffer_full, nb_outbuffers

LEMMA HasAppend ==
  ASSUME NEW S, NEW s \in Seq(S), NEW x \in S, NEW n, Has(s, n) \/ n = x
  PROVE  Has(Append(s, x), n)
  <1>1. /\ Len(Append(s, x)) = Len(s) + 1 /\ Append(s, x)[Len(s) + 1] = x /\ Len(s) \in Nat
        /\ \A i \in 1 .. Len(s) : Append(s, x)[i] = s[i]
    BY AppendFacts
  <1> QED
    BY <1>1 DEF Has

LEMMA HasTail ==
  ASSUME NEW S, NEW s \in Seq(S), s # <<>>, NEW n, Has(s, n), n # Head(s)
  PROVE  Has(Tail(s), n)
  <1>1. /\ Len(Tail(s)) = Len(s) - 1 /\ Head(s) = s[1] /\ Len(s) \in Nat
        /\ \A i \in 1 .. Len(s) - 1 : Tail(s)[i] = s[i + 1]
    BY TailFacts
  <1>2. PICK i \in 1 .. Len(s) : s[i] = n
    BY DEF Has
  <1>3. i - 1 \in 1 .. Len(s) - 1 /\ s[(i - 1) + 1] = n
    BY <1>1, <1>2
  <1> QED
    BY <1>1, <1>3 DEF Has

LEMMA HasEmpty == ASSUME NEW n PROVE ~Has(<<>>, n)
  BY DEF Has

LEMMA KeptNext ==
  ASSUME BInv, Room, Move, WellSized, flushes' = 0, ~closed, EndFlags,
         NEW n \in Pkts, Kept(n)
  PROVE  Kept(n)'
  <1>0. /\ delivered \in Seq(Pkts) /\ frame_queue \in Seq(Pkts)
        /\ pipe \in Seq(Pkts \cup {EOS}) /\ inq \in Seq(Pkts \cup {EOS})
        /\ n # None /\ n # EOS /\ \A x \in Pkts : x \in Pkts \cup {EOS}
    BY PktsAreNumbers DEF BInv, Basics, PacketTypes, QueueTypes
  <1>1. CASE MSend \/ MNone
    BY <1>0, <1>1 DEF MSend, MNone, Kept
  <1>2. CASE MTake
    BY <1>0, <1>2, HasAppend DEF MTake, Kept
  <1>3. CASE MFetch
    BY <1>0, <1>3 DEF MFetch, Kept
  <1>4. CASE MDrop
    <2>1. ~DecodeRefused
      BY RoomSuffices DEF DecodeRefused, RoomInQueue, BInv
    <2> QED
      BY <1>4, <2>1 DEF MDrop
  <1>5. CASE MEnqueue
    BY <1>0, <1>5, HasAppend DEF MEnqueue, Kept
  <1>6. CASE MEnd
    BY <1>0, <1>6, HasAppend DEF MEnd, Kept
  <1>7. CASE MAhead
    BY <1>0, <1>7, HasTail DEF MAhead, Kept
  <1>8. CASE MReturn
    <2>1. Head(frame_queue) \in Pkts
      BY <1>0, <1>8, TailFacts DEF MReturn
    <2> QED
      BY <1>0, <1>8, <2>1, HasTail, HasAppend DEF MReturn, Kept
  <1>9. CASE MDecode
    <2>1. Head(inq) \in Pkts \cup {EOS}
      BY <1>0, <1>9, TailFacts DEF MDecode
    <2> QED
      BY <1>0, <1>9, <2>1, HasTail, HasAppend DEF MDecode, Kept
  <1>10. CASE MSkip
    BY <1>0, <1>10, HasTail DEF MSkip, Kept
  <1>11. CASE MDone
    BY <1>0, <1>11, HasTail DEF MDone, Kept
  <1>12. CASE MCallback
    BY <1>0, <1>12, HasTail, HasAppend DEF MCallback, Kept
  <1>14. CASE MRefuse
    BY <1>0, <1>14 DEF MRefuse, Kept
  <1>15. CASE MMark
    <2>1. Has(pipe, n) => n = cb
      BY <1>0, <1>15 DEF MMark, Has
    <2>2. Has(<<cb>>, cb)
      BY DEF Has
    <2> QED
      BY <1>0, <1>15, <2>1, <2>2 DEF MMark, Kept
  <1>13. CASE MStop \/ MFlush \/ MCreate \/ MFree
    BY <1>13 DEF MStop, MFlush, MCreate, MFree, EndFlags, BInv, Basics, CallState
  <1> QED
    BY <1>1, <1>2, <1>3, <1>4, <1>5, <1>6, <1>7, <1>8, <1>9, <1>10, <1>11, <1>12, <1>13,
       <1>14, <1>15
    DEF Move

LEMMA NoneLostNext ==
  ASSUME BInv, Room, EndState, NoneLost, [Next]_vars
  PROVE  NoneLost'
  <1> SUFFICES ASSUME WellSized', flushes' = 0, ~closed', NEW n \in 1 .. sent'
               PROVE  Kept(n)'
    BY DEF NoneLost
  <1>1. WellSized /\ flushes = 0 /\ ~closed /\ EndFlags /\ Move
    BY EarlyStays, SetupStays, Moves DEF WellSized, EndState
  <1>2. sent \in Nat /\ sent <= MaxPkts
    BY DEF BInv, Basics, PacketTypes
  <1>3. CASE MSend /\ n = sent + 1
    BY <1>3 DEF MSend, Kept
  <1>4. CASE n \in 1 .. sent
    <2>1. n \in Pkts /\ Kept(n)
      BY <1>1, <1>2, <1>4 DEF Pkts, NoneLost
    <2> QED
      BY <1>1, <2>1, KeptNext
  <1>5. sent' = sent \/ MSend
    BY <1>1 DEF Move, MTake, MFetch, MDrop, MEnqueue, MEnd, MAhead, MReturn, MDecode, MSkip,
       MDone, MCallback, MStop, MFlush, MCreate, MFree, MNone, MRefuse, MMark
  <1>6. n \in 1 .. sent \/ (MSend /\ n = sent + 1)
    <2>1. CASE sent' = sent
      BY <2>1
    <2>2. CASE MSend
      <3>1. n \in 1 .. sent + 1
        BY <2>2 DEF MSend
      <3> QED
        BY <1>2, <2>2, <3>1
    <2> QED
      BY <1>5, <2>1, <2>2
  <1> QED
    BY <1>3, <1>4, <1>6

-----------------------------------------------------------------------------
(* The end of the stream comes after the last frame.                       *)

LEMMA FlushesCount == ASSUME [Next]_vars PROVE flushes' = flushes \/ Flush
  <1> USE DEF epoch
  <1>1. CASE Client
    BY <1>1 DEF Client, SendPacket, SendEOF, ReceiveFrame, Close
  <1>2. CASE InCall
    BY <1>2 DEF InCall, NoFetch, FetchEOF, FetchNothing, FetchPacket, DecodeRefused,
       DecodeAllowed, Enqueue, EnqueueFails, Drain, DrainEOS, OutputFrame, OutputNothing,
       FlushCreate, CloseFree, DrainFails
  <1>3. CASE HwDecode \/ HwOutput \/ Callback \/ HwStop
    BY <1>3 DEF HwDecode, HwOutput, Callback, CallbackEOS, CallbackAfterEnd, CallbackFrame,
       CallbackMark, HwStop
  <1>4. CASE UNCHANGED vars
    BY <1>4 DEF vars
  <1> QED
    BY <1>1, <1>2, <1>3, <1>4 DEF Next, Closed

\* The only step that begins to say AVERROR_EOF.
LEMMA EOFComes ==
  ASSUME BInv, [Next]_vars, last' = "EOF"
  PROVE  \/ last = "EOF"
         \/ /\ OutputNothing /\ decoder_flushing /\ eos_received /\ frame_queue = <<>>
            /\ buffer_frame = None /\ pkt = None
            /\ UNCHANGED <<sent, delivered, skipped>>
  <1> USE DEF seen
  <1>1. CASE Client
    BY <1>1 DEF Client, SendPacket, SendEOF, ReceiveFrame, RecvResult, Flush, Close
  <1>2. CASE FetchNothing \/ DecodeRefused \/ EnqueueFails \/ OutputNothing
    <2>1. OutputNothing => pkt = None /\ skipped' = skipped
      BY DEF OutputNothing, BInv, Basics, CallState, hw
    <2> QED
      BY <1>2, <2>1, NoFrameReturned
  <1>3. CASE OutputFrame
    BY <1>3, FrameReturned
  <1>7. CASE DrainFails
    BY <1>7, EndRefused
  <1>4. CASE \/ NoFetch \/ FetchEOF \/ FetchPacket \/ DecodeAllowed \/ Enqueue \/ Drain
             \/ DrainEOS \/ FlushCreate \/ CloseFree
    BY <1>4 DEF NoFetch, FetchEOF, FetchPacket, DecodeAllowed, Enqueue, Drain, DrainEOS,
       FlushCreate, CloseFree
  <1>5. CASE HwDecode \/ HwOutput \/ Callback \/ HwStop
    BY <1>5 DEF HwDecode, HwOutput, Callback, CallbackEOS, CallbackAfterEnd, CallbackFrame,
       CallbackMark, HwStop
  <1>6. CASE UNCHANGED vars
    BY <1>6 DEF vars
  <1> QED
    BY <1>1, <1>2, <1>3, <1>4, <1>5, <1>6, <1>7 DEF Next, InCall, Closed

\* A packet is accepted between two calls, if the stream has not ended.
LEMMA SentStays ==
  ASSUME BInv, [Next]_vars, pc # "idle" \/ draining
  PROVE  sent' = sent
  <1>1. CASE Client
    BY <1>1 DEF Client, SendPacket, SendEOF, ReceiveFrame, Flush, Close
  <1>2. CASE FetchNothing \/ DecodeRefused \/ EnqueueFails \/ OutputNothing
    BY <1>2, NoFrameReturned
  <1>3. CASE \/ NoFetch \/ FetchEOF \/ FetchPacket \/ DecodeAllowed \/ Enqueue \/ Drain
             \/ DrainEOS \/ DrainFails \/ OutputFrame \/ FlushCreate \/ CloseFree
    BY <1>3 DEF NoFetch, FetchEOF, FetchPacket, DecodeAllowed, Enqueue, Drain, DrainEOS,
       DrainFails, OutputFrame, FlushCreate, CloseFree
  <1>4. CASE HwDecode \/ HwOutput \/ Callback \/ HwStop \/ UNCHANGED vars
    BY <1>4 DEF HwDecode, HwOutput, Callback, CallbackEOS, CallbackAfterEnd, CallbackFrame,
       CallbackMark, HwStop, vars
  <1> QED
    BY <1>1, <1>2, <1>3, <1>4 DEF Next, InCall, Closed

LEMMA CompleteNext ==
  ASSUME BInv, EndState, NoneLost, Complete, [Next]_vars
  PROVE  Complete'
  <1> SUFFICES ASSUME ~setup'.eager, WellSized', flushes' = 0, last' = "EOF"
               PROVE  \E f \in Pkts \cup {None} :
                        /\ f # None => setup'.joint
                        /\ (1 .. sent \subseteq Delivered \cup skipped \cup {f})'
    BY DEF Complete, CompleteAtEOF
  <1>s. setup' = setup
    BY SetupStays
  <1>1. /\ ~setup.eager /\ WellSized /\ flushes = 0 /\ ~Flush
        /\ delivered \in Seq(Pkts) /\ sent \in Nat /\ sent <= MaxPkts
    BY SetupStays, FlushesCount DEF WellSized, Flush, BInv, Basics, CallTypes, PacketTypes
  <1>2. CASE last = "EOF"
    <2>1. PICK f \in Pkts \cup {None} :
            /\ f # None => setup.joint
            /\ 1 .. sent \subseteq Delivered \cup skipped \cup {f}
      BY <1>1, <1>2 DEF Complete, CompleteAtEOF
    <2>2. sent' = sent
      <3>1. closed => pc # "idle"
        BY DEF BInv, Basics, CallState
      <3>2. ~closed => draining
        BY <1>1, <1>2 DEF EndState, EndFlags
      <3> QED
        BY <3>1, <3>2, SentStays
    <2>3. /\ skipped \subseteq skipped'
          /\ \/ delivered' = delivered
             \/ \E x \in Pkts : delivered' = Append(delivered, x)
      <3>1. Move /\ ~MFlush
        BY Moves DEF MFlush
      <3>2. MReturn => Head(frame_queue) \in Pkts
        BY TailFacts DEF MReturn, BInv, Basics, QueueTypes
      <3> QED
        BY <3>1, <3>2 DEF Move, MSend, MTake, MFetch, MDrop, MEnqueue, MEnd, MAhead, MReturn,
           MDecode, MSkip, MDone, MCallback, MStop, MCreate, MFree, MNone, MRefuse, MMark
    <2>4. ASSUME NEW n, Has(delivered, n) PROVE Has(delivered', n)
      BY <1>1, <2>3, <2>4, HasAppend
    <2>5. Delivered \subseteq Delivered'
      BY <2>4 DEF Has, Delivered
    <2> QED
      BY <1>s, <2>1, <2>2, <2>3, <2>5
  <1>3. CASE last # "EOF"
    <2>1. /\ OutputNothing /\ decoder_flushing /\ eos_received /\ frame_queue = <<>>
          /\ buffer_frame = None /\ pkt = None
          /\ UNCHANGED <<sent, delivered, skipped>>
      BY <1>3, EOFComes
    <2>2. ~closed
      BY <2>1 DEF OutputNothing, BInv, Basics, CallState
    <2>3. /\ inq = <<>> /\ bsf_pkt = None
          /\ pipe = <<>> \/ (setup.joint /\ cb \in Pkts /\ pipe = <<cb>>)
      BY <1>1, <2>1, <2>2 DEF EndState, EndFlags, EndQueues
    \* The picture that carries the mark and is not queued yet.
    <2>4. PICK f \in Pkts \cup {None} :
            /\ f # None => setup.joint
            /\ \A n \in Pkts : Has(pipe, n) => n = f
      <3>1. CASE pipe = <<>>
        BY <3>1, HasEmpty
      <3>2. CASE setup.joint /\ cb \in Pkts /\ pipe = <<cb>>
        BY <3>2 DEF Has
      <3> QED
        BY <2>3, <3>1, <3>2
    <2>5. ASSUME NEW n \in 1 .. sent PROVE n \in Delivered \cup skipped \cup {f}
      <3>1. Kept(n) /\ n # None /\ n \in Pkts
        BY <1>1, <2>2 DEF NoneLost, Pkts
      <3>2. Has(delivered, n) \/ n \in skipped \/ n = f
        BY <2>1, <2>3, <2>4, <3>1, HasEmpty DEF Kept
      <3> QED
        BY <3>2 DEF Has, Delivered
    <2>6. Delivered' = Delivered
      BY <2>1 DEF Delivered
    <2> QED
      BY <1>s, <2>1, <2>4, <2>5, <2>6
  <1> QED
    BY <1>2, <1>3

-----------------------------------------------------------------------------
LEMMA InitIInv == Init => IInv
  <1> SUFFICES ASSUME Init PROVE IInv
    OBVIOUS
  <1>1. BInv
    BY InitBInv
  <1>2. Line
    <2>1. LineAt(0, 0, 0, 0, 0)
      BY StageEmpty DEF Init, LineAt, One
    <2> QED
      BY <2>1 DEF Line
  <1>3. Room
    BY SizesAssumption, SetupFields DEF Init, Room, InFlight, Here
  <1>4. EndState
    BY DEF Init, EndState, EndFlags, EndQueues, NoEOS
  <1>5. NoneLost /\ Complete
    BY DEF Init, NoneLost, Complete, CompleteAtEOF
  <1> QED
    BY <1>1, <1>2, <1>3, <1>4, <1>5 DEF IInv, BInv

LEMMA NextIInv == IInv /\ [Next]_vars => IInv'
  <1> SUFFICES ASSUME IInv, [Next]_vars PROVE IInv'
    OBVIOUS
  <1>1. /\ BInv /\ Line /\ Room /\ EndState /\ NoneLost /\ Complete
        /\ Move
    BY Moves DEF IInv, BInv
  <1>2. BInv'
    BY <1>1, NextBInv
  <1>3. Line' /\ Room' /\ EndState'
    BY <1>1, LineNext, RoomNext, EndNext
  <1>4. NoneLost' /\ Complete'
    BY <1>1, NoneLostNext, CompleteNext
  <1> QED
    BY <1>2, <1>3, <1>4 DEF IInv, BInv

\* The threads of tfvid.c and the session keep the inductive invariant.
THEOREM Invariance == Spec => []IInv
  BY InitIInv, NextIInv, PTL DEF Spec

\* The state of decode.c, bsf.c and tfvid.c keeps its types: frame_queue in
\* particular never holds more than nb_outbuffers frames.
THEOREM TypeCorrect == Spec => []TypeOK
  <1>1. IInv => TypeOK
    BY Types
  <1> QED
    BY <1>1, Invariance, PTL

\* Frames come to the client in the order of their packets and none twice, for
\* every size of the queues and across flushes, eager clients and a session that
\* could not be created again (decode.c:617, :662).
THEOREM FramesInOrder == Spec => []DeliveredInOrder
  <1>1. IInv => DeliveredInOrder
    <2> SUFFICES ASSUME IInv PROVE DeliveredInOrder
      OBVIOUS
    <2>1. PICK a \in Nat, b \in Nat, c \in Nat, d \in Nat, e \in Nat : LineAt(a, b, c, d, e)
      BY DEF IInv, Line
    <2>2. Rising(delivered)
      BY <2>1 DEF LineAt, Stage
    <2>3. \A i \in 1 .. Len(delivered) : delivered[i] # EOS
      BY PktsAreNumbers DEF IInv, Basics, PacketTypes
    <2> QED
      BY <2>2, <2>3 DEF DeliveredInOrder, Rising
  <1> QED
    BY <1>1, Invariance, PTL

\* In a WellSized session the callback finds room and a packet taken from the
\* filter is not refused by the second look at the queue (tfvid.c:331, :455).
THEOREM RoomForFrames == Spec => []RoomInQueue
  <1>1. IInv => RoomInQueue
    BY RoomSuffices DEF IInv
  <1> QED
    BY <1>1, Invariance, PTL

\* A client that is told to send when it receives can send (avcodec.h:138, :181).
THEOREM RoomToSend == Spec => []RoomAfterAgain
  <1>1. IInv => RoomAfterAgain
    BY DEF IInv
  <1> QED
    BY <1>1, Invariance, PTL

\* To a client that reads the output before it ends the stream, AVERROR_EOF comes
\* after the last frame (avcodec.h:3197): every packet gave a frame it has, or no
\* picture.  A session that marks its last picture with the end, rather than send
\* the end alone, may hide that one picture (tfvid.c:98 before :123), and no other.
\* An eager client loses the packet the filter holds.
THEOREM EndIsComplete == Spec => [](~setup.eager => CompleteAtEOF)
  <1>1. IInv => (~setup.eager => CompleteAtEOF)
    BY DEF IInv, Complete
  <1> QED
    BY <1>1, Invariance, PTL
=============================================================================
