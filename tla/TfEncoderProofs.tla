-------------------------- MODULE TfEncoderProofs --------------------------
(***************************************************************************)
(* TfEncoder for every number of slots, every depth of the session, every  *)
(* width of the indices and every number of frames.  With a session that   *)
(* takes fewer frames than the rings have slots neither ring overruns,     *)
(* and then frames, packets and timestamps stay in step.                   *)
(***************************************************************************)
EXTENDS TfEncoder, SequenceTheorems, TLAPS

-----------------------------------------------------------------------------
(* The operations of libavutil/fifo.c on a ring with room, and on one that *)
(* may be written when it is full or half a write at a time.               *)

\* A ring as it may occur between two operations.
Ring(f, Elem, cap) == f \in FifoType(Elem, cap) /\ Coherent(f)

\* The type of a ring, field by field.
FieldTypes(f, Elem, cap) ==
  /\ f.buffer \in [0 .. cap - 1 -> Elem \cup {NoElem}]
  /\ f.end = cap
  /\ f.rptr \in 0 .. cap - 1 /\ f.wptr \in 0 .. cap - 1
  /\ f.rndx \in 0 .. IdxMod - 1 /\ f.wndx \in 0 .. IdxMod - 1

\* Linear facts about the ring: the size is a number of slots.
LEMMA SizeType ==
  ASSUME NEW Elem, NEW cap \in Nat \ {0}, NEW f \in FifoType(Elem, cap)
  PROVE  /\ av_fifo_size(f) \in Nat
         /\ av_fifo_space(f) = cap - av_fifo_size(f)
  BY IdxModAssumption DEF FifoType, av_fifo_size, av_fifo_space

LEMMA RingFields ==
  ASSUME NEW Elem, NEW cap, NEW f \in FifoType(Elem, cap)
  PROVE  FieldTypes(f, Elem, cap)
  BY DEF FifoType, FieldTypes

\* av_fifo_alloc returns an empty ring (fifo.c:43).
LEMMA AllocEmpty ==
  ASSUME NEW Elem, NEW cap \in Nat \ {0}
  PROVE  /\ Ring(av_fifo_alloc(cap), Elem, cap)
         /\ av_fifo_size(av_fifo_alloc(cap)) = 0
         /\ Contents(av_fifo_alloc(cap)) = <<>>
  <1>1. av_fifo_alloc(cap) \in FifoType(Elem, cap)
    BY IdxModAssumption DEF FifoType, av_fifo_alloc
  <1>2. av_fifo_size(av_fifo_alloc(cap)) = 0
    BY DEF av_fifo_size, av_fifo_alloc
  <1>3. Coherent(av_fifo_alloc(cap))
    BY <1>2 DEF Coherent, Wrap, av_fifo_alloc
  <1> QED
    BY <1>1, <1>2, <1>3 DEF Ring, Contents

\* av_fifo_generic_write of an element into a ring with room appends it
\* (fifo.c:122).
Extended(f, x) == Append(Contents(f), x)

LEMMA WriteExtends ==
  ASSUME NEW Elem, NEW cap \in Nat \ {0}, cap < IdxMod,
         NEW f, Ring(f, Elem, cap), NEW x \in Elem, av_fifo_space(f) >= 1
  PROVE  /\ Ring(av_fifo_write(f, x), Elem, cap)
         /\ av_fifo_size(av_fifo_write(f, x)) = av_fifo_size(f) + 1
         /\ Contents(av_fifo_write(f, x)) = Extended(f, x)
  <1> DEFINE g == av_fifo_write(f, x)
             n == av_fifo_size(f)
  <1>1. f \in FifoType(Elem, cap) /\ Coherent(f) /\ IdxMod \in Nat \ {0}
    BY IdxModAssumption DEF Ring
  <1>2. n \in Nat /\ n + 1 <= cap
    BY <1>1, SizeType
  <1>3. g \in FifoType(Elem, cap)
    <2>1. FieldTypes(f, Elem, cap)
      BY <1>1, RingFields
    <2>2. /\ Wrap(f.wptr + 1, cap) \in 0 .. cap - 1
          /\ Wrap(f.wndx + 1, IdxMod) \in 0 .. IdxMod - 1
      BY SMTT(30), <1>1, <2>1 DEF FieldTypes, Wrap
    <2>3. [f.buffer EXCEPT ![f.wptr] = x] \in [0 .. cap - 1 -> Elem \cup {NoElem}]
      BY <2>1 DEF FieldTypes
    <2> QED
      BY <1>1, <2>1, <2>2, <2>3 DEF FifoType, FieldTypes, av_fifo_write
  <1>4. av_fifo_size(g) = n + 1
    BY SMTT(30), <1>1, <1>2 DEF FifoType, av_fifo_write, av_fifo_size, Wrap
  <1>5. Coherent(g)
    BY <1>1, <1>2, <1>4 DEF FifoType, Coherent, av_fifo_write, Wrap
  <1>6. Contents(g) = Append(Contents(f), x)
    <2>1. ASSUME NEW i \in 1 .. n
          PROVE  av_fifo_peek_at(g, i - 1) = av_fifo_peek_at(f, i - 1)
      <3>1. Wrap(f.rptr + (i - 1), cap) # f.wptr
        BY <1>1, <1>2 DEF FifoType, Coherent, Wrap
      <3>2. Wrap(f.rptr + (i - 1), cap) \in 0 .. cap - 1
        BY <1>1, <1>2 DEF FifoType, Wrap
      <3>3. g.rptr = f.rptr /\ g.end = cap /\ f.end = cap
        BY <1>1 DEF FifoType, av_fifo_write
      <3>4. g.buffer = [f.buffer EXCEPT ![f.wptr] = x]
        BY <1>1 DEF FifoType, av_fifo_write
      <3>5. f.buffer \in [0 .. cap - 1 -> Elem \cup {NoElem}]
        BY <1>1 DEF FifoType
      <3> QED
        BY <3>1, <3>2, <3>3, <3>4, <3>5 DEF av_fifo_peek_at
    <2>2. av_fifo_peek_at(g, n) = x
      <3>1. Wrap(f.rptr + n, cap) = f.wptr
        BY <1>1 DEF FifoType, Coherent
      <3> QED
        BY <1>1, <3>1 DEF FifoType, av_fifo_peek_at, av_fifo_write
    <2>3. Contents(g) = [i \in 1 .. n + 1 |-> av_fifo_peek_at(g, i - 1)]
      BY <1>4 DEF Contents
    <2>4. Contents(f) = [i \in 1 .. n |-> av_fifo_peek_at(f, i - 1)]
      BY DEF Contents
    <2>5. Append([i \in 1 .. n |-> av_fifo_peek_at(f, i - 1)], x)
          = [i \in 1 .. n + 1 |->
               IF i <= n THEN av_fifo_peek_at(f, i - 1) ELSE x]
      BY <1>2
    <2>6. ASSUME NEW i \in 1 .. n + 1
          PROVE  av_fifo_peek_at(g, i - 1)
                 = IF i <= n THEN av_fifo_peek_at(f, i - 1) ELSE x
      <3>1. CASE i <= n
        BY <1>2, <2>1, <3>1
      <3>2. CASE i = n + 1
        BY <1>2, <2>2, <3>2
      <3> QED
        BY <1>2, <3>1, <3>2
    <2> HIDE DEF g, n
    <2> QED
      BY <2>3, <2>4, <2>5, <2>6
  <1> QED
    BY <1>3, <1>4, <1>5, <1>6 DEF Ring, Extended

\* av_fifo_generic_read of an element returns the oldest one and removes it
\* (fifo.c:213).
LEMMA ReadTakesHead ==
  ASSUME NEW Elem, NEW cap \in Nat \ {0}, cap < IdxMod,
         NEW f, Ring(f, Elem, cap), av_fifo_size(f) >= 1
  PROVE  /\ Ring(av_fifo_read(f), Elem, cap)
         /\ av_fifo_size(av_fifo_read(f)) = av_fifo_size(f) - 1
         /\ Contents(f) # <<>>
         /\ Head(Contents(f)) = av_fifo_peek(f)
         /\ Contents(av_fifo_read(f)) = Tail(Contents(f))
  <1> DEFINE g == av_fifo_read(f)
             n == av_fifo_size(f)
  <1>1. f \in FifoType(Elem, cap) /\ Coherent(f) /\ IdxMod \in Nat \ {0}
    BY IdxModAssumption DEF Ring
  <1>2. n \in Nat /\ n >= 1 /\ n <= cap
    BY <1>1, SizeType DEF Coherent, FifoType
  <1>3. g \in FifoType(Elem, cap)
    <2>1. FieldTypes(f, Elem, cap)
      BY <1>1, RingFields
    <2>2. /\ Wrap(f.rptr + 1, cap) \in 0 .. cap - 1
          /\ Wrap(f.rndx + 1, IdxMod) \in 0 .. IdxMod - 1
      BY SMTT(30), <1>1, <2>1 DEF FieldTypes, Wrap
    <2> QED
      BY <1>1, <2>1, <2>2 DEF FifoType, FieldTypes, av_fifo_read, av_fifo_drain
  <1>4. av_fifo_size(g) = n - 1
    BY SMTT(30), <1>1, <1>2 DEF FifoType, av_fifo_read, av_fifo_drain, av_fifo_size, Wrap
  <1>5. Coherent(g)
    BY SMTT(30), <1>1, <1>2, <1>4
    DEF FifoType, Coherent, av_fifo_read, av_fifo_drain, Wrap
  <1>6. ASSUME NEW i \in 1 .. n - 1
        PROVE  av_fifo_peek_at(g, i - 1) = av_fifo_peek_at(f, (i + 1) - 1)
    <2>1. g.buffer = f.buffer /\ g.end = cap /\ f.end = cap
          /\ g.rptr = Wrap(f.rptr + 1, cap)
      BY <1>1 DEF FifoType, av_fifo_read, av_fifo_drain
    <2>2. Wrap(Wrap(f.rptr + 1, cap) + (i - 1), cap)
          = Wrap(f.rptr + ((i + 1) - 1), cap)
      BY SMTT(30), <1>1, <1>2 DEF FifoType, Wrap
    <2> QED
      BY <2>1, <2>2 DEF av_fifo_peek_at
  <1>7. av_fifo_peek_at(f, 0) = av_fifo_peek(f)
    BY <1>1 DEF FifoType, av_fifo_peek_at, av_fifo_peek, Wrap
  <1>8. Contents(f) = [i \in 1 .. n |-> av_fifo_peek_at(f, i - 1)]
    BY DEF Contents
  <1>9. Contents(g) = [i \in 1 .. n - 1 |-> av_fifo_peek_at(g, i - 1)]
    BY <1>4 DEF Contents
  <1>10. Contents(f) # <<>> /\ Head(Contents(f)) = av_fifo_peek(f)
    <2> HIDE DEF n
    <2>1. Contents(f)[1] = av_fifo_peek_at(f, 0)
      BY <1>2, <1>8
    <2>2. Contents(f) # <<>>
      BY <1>2, <1>8
    <2> QED
      BY <1>7, <2>1, <2>2
  <1>11. Contents(g) = Tail(Contents(f))
    <2> HIDE DEF n, g
    <2>1. Tail([i \in 1 .. n |-> av_fifo_peek_at(f, i - 1)])
          = [i \in 1 .. n - 1 |-> av_fifo_peek_at(f, (i + 1) - 1)]
      BY <1>2
    <2> QED
      BY <1>6, <1>8, <1>9, <2>1
  <1> QED
    BY <1>3, <1>4, <1>5, <1>10, <1>11 DEF Ring

\* Every operation keeps the types, whatever the ring holds.
LEMMA OperationsKeepType ==
  ASSUME NEW Elem, NEW cap \in Nat \ {0}, NEW f \in FifoType(Elem, cap), NEW x \in Elem
  PROVE  /\ av_fifo_write(f, x) \in FifoType(Elem, cap)
         /\ av_fifo_copy(f, x) \in FifoType(Elem, cap)
         /\ av_fifo_publish(f) \in FifoType(Elem, cap)
         /\ av_fifo_read(f) \in FifoType(Elem, cap)
         /\ av_fifo_reset(f) \in FifoType(Elem, cap)
  <1>1. FieldTypes(f, Elem, cap) /\ IdxMod \in Nat \ {0}
    BY RingFields, IdxModAssumption
  <1>w. ASSUME NEW n \in Nat \ {0}, NEW p \in 0 .. n - 1 PROVE Wrap(p + 1, n) \in 0 .. n - 1
    BY DEF Wrap
  <1>2. /\ Wrap(f.wptr + 1, cap) \in 0 .. cap - 1
        /\ Wrap(f.wndx + 1, IdxMod) \in 0 .. IdxMod - 1
        /\ Wrap(f.rptr + 1, cap) \in 0 .. cap - 1
        /\ Wrap(f.rndx + 1, IdxMod) \in 0 .. IdxMod - 1
        /\ 0 \in 0 .. cap - 1 /\ 0 \in 0 .. IdxMod - 1
    <2>1. /\ f.wptr \in 0 .. cap - 1 /\ f.rptr \in 0 .. cap - 1
          /\ f.wndx \in 0 .. IdxMod - 1 /\ f.rndx \in 0 .. IdxMod - 1
      BY <1>1 DEF FieldTypes
    <2>2. Wrap(f.wptr + 1, cap) \in 0 .. cap - 1 /\ Wrap(f.rptr + 1, cap) \in 0 .. cap - 1
      BY <1>w, <2>1
    <2>3. Wrap(f.wndx + 1, IdxMod) \in 0 .. IdxMod - 1 /\ Wrap(f.rndx + 1, IdxMod) \in 0 .. IdxMod - 1
      BY <1>1, <1>w, <2>1
    <2>4. 0 \in 0 .. cap - 1 /\ 0 \in 0 .. IdxMod - 1
      BY <1>1
    <2> QED BY <2>2, <2>3, <2>4
  <1>3. [f.buffer EXCEPT ![f.wptr] = x] \in [0 .. cap - 1 -> Elem \cup {NoElem}]
    BY <1>1 DEF FieldTypes
  <1>4. av_fifo_write(f, x) \in FifoType(Elem, cap)
    BY <1>1, <1>2, <1>3 DEF FifoType, FieldTypes, av_fifo_write
  <1>5. av_fifo_copy(f, x) \in FifoType(Elem, cap)
    BY <1>1, <1>2, <1>3 DEF FifoType, FieldTypes, av_fifo_copy
  <1>6. av_fifo_publish(f) \in FifoType(Elem, cap)
    BY <1>1, <1>2 DEF FifoType, FieldTypes, av_fifo_publish
  <1>7. av_fifo_read(f) \in FifoType(Elem, cap)
    BY <1>1, <1>2 DEF FifoType, FieldTypes, av_fifo_read, av_fifo_drain
  <1>8. av_fifo_reset(f) \in FifoType(Elem, cap)
    BY <1>1, <1>2 DEF FifoType, FieldTypes, av_fifo_reset
  <1> QED
    BY <1>4, <1>5, <1>6, <1>7, <1>8

LEMMA ReadKeepsType ==
  ASSUME NEW Elem, NEW cap \in Nat \ {0}, NEW f \in FifoType(Elem, cap)
  PROVE  av_fifo_read(f) \in FifoType(Elem, cap)
  <1>1. FieldTypes(f, Elem, cap) /\ IdxMod \in Nat \ {0}
    BY RingFields, IdxModAssumption
  <1>2. /\ Wrap(f.rptr + 1, cap) \in 0 .. cap - 1
        /\ Wrap(f.rndx + 1, IdxMod) \in 0 .. IdxMod - 1
    BY SMTT(30), <1>1 DEF FieldTypes, Wrap
  <1> QED
    BY <1>1, <1>2 DEF FifoType, FieldTypes, av_fifo_read, av_fifo_drain

\* The size counts writes and reads until the indices overflow twice.
LEMMA SizeCounts ==
  ASSUME NEW Elem, NEW cap \in Nat \ {0}, NEW f \in FifoType(Elem, cap), NEW x
  PROVE  /\ av_fifo_size(f) + 1 < IdxMod =>
              /\ av_fifo_size(av_fifo_write(f, x)) = av_fifo_size(f) + 1
              /\ av_fifo_size(av_fifo_publish(f)) = av_fifo_size(f) + 1
         /\ av_fifo_size(av_fifo_copy(f, x)) = av_fifo_size(f)
         /\ av_fifo_size(f) >= 1 => av_fifo_size(av_fifo_read(f)) = av_fifo_size(f) - 1
         /\ av_fifo_size(av_fifo_reset(f)) = 0
  <1> USE IdxModAssumption DEF FifoType, av_fifo_size, Wrap
  <1>1. av_fifo_size(f) + 1 < IdxMod =>
              /\ av_fifo_size(av_fifo_write(f, x)) = av_fifo_size(f) + 1
              /\ av_fifo_size(av_fifo_publish(f)) = av_fifo_size(f) + 1
    BY SMTT(30) DEF av_fifo_write, av_fifo_publish
  <1>2. av_fifo_size(av_fifo_copy(f, x)) = av_fifo_size(f)
    BY DEF av_fifo_copy
  <1>3. av_fifo_size(f) >= 1 => av_fifo_size(av_fifo_read(f)) = av_fifo_size(f) - 1
    BY SMTT(30) DEF av_fifo_read, av_fifo_drain
  <1>4. av_fifo_size(av_fifo_reset(f)) = 0
    BY DEF av_fifo_reset
  <1> QED
    BY <1>1, <1>2, <1>3, <1>4

\* The slot a writer fills, in a ring with room, is not one the ring holds.
LEMMA CopyUnseen ==
  ASSUME NEW Elem, NEW cap \in Nat \ {0},
         NEW f, Ring(f, Elem, cap), NEW x \in Elem, av_fifo_space(f) >= 1
  PROVE  /\ Ring(av_fifo_copy(f, x), Elem, cap)
         /\ Contents(av_fifo_copy(f, x)) = Contents(f)
         /\ av_fifo_copy(f, x).buffer[av_fifo_copy(f, x).wptr] = x
  <1> DEFINE g == av_fifo_copy(f, x)
             n == av_fifo_size(f)
  <1>1. f \in FifoType(Elem, cap) /\ Coherent(f)
    BY DEF Ring
  <1>2. n \in Nat /\ n + 1 <= cap
    BY <1>1, SizeType
  <1>3. g \in FifoType(Elem, cap) /\ av_fifo_size(g) = n
    BY <1>1, OperationsKeepType, SizeCounts
  <1>4. /\ g.rptr = f.rptr /\ g.end = cap /\ f.end = cap /\ g.wptr = f.wptr
        /\ g.buffer = [f.buffer EXCEPT ![f.wptr] = x]
        /\ f.buffer \in [0 .. cap - 1 -> Elem \cup {NoElem}]
        /\ f.wptr \in 0 .. cap - 1
    BY <1>1 DEF FifoType, av_fifo_copy
  <1>5. Coherent(g)
    BY <1>1, <1>3, <1>4 DEF Coherent
  <1>6. ASSUME NEW i \in 1 .. n
        PROVE  av_fifo_peek_at(g, i - 1) = av_fifo_peek_at(f, i - 1)
    <2>1. Wrap(f.rptr + (i - 1), cap) # f.wptr
      BY <1>1, <1>2 DEF FifoType, Coherent, Wrap
    <2>2. Wrap(f.rptr + (i - 1), cap) \in 0 .. cap - 1
      BY <1>1, <1>2 DEF FifoType, Wrap
    <2> QED
      BY <1>4, <2>1, <2>2 DEF av_fifo_peek_at
  <1>7. Contents(g) = Contents(f)
    <2>1. Contents(g) = [i \in 1 .. n |-> av_fifo_peek_at(g, i - 1)]
      BY <1>3 DEF Contents
    <2>2. Contents(f) = [i \in 1 .. n |-> av_fifo_peek_at(f, i - 1)]
      BY DEF Contents
    <2> HIDE DEF g, n
    <2> QED
      BY <1>6, <2>1, <2>2
  <1>8. g.buffer[g.wptr] = x
    BY <1>4
  <1> QED
    BY <1>3, <1>5, <1>7, <1>8 DEF Ring

\* Publishing a filled slot completes the write.
LEMMA PublishWrites ==
  ASSUME NEW Elem, NEW cap \in Nat \ {0}, NEW f \in FifoType(Elem, cap)
  PROVE  av_fifo_publish(f) = av_fifo_write(f, f.buffer[f.wptr])
  <1>1. [f.buffer EXCEPT ![f.wptr] = f.buffer[f.wptr]] = f.buffer
    BY DEF FifoType
  <1> QED
    BY <1>1 DEF FifoType, av_fifo_publish, av_fifo_write

-----------------------------------------------------------------------------
(* The inductive invariant.                                                *)

queue == output_buffer_ready_queue

Flags == /\ ordered \in BOOLEAN /\ draining \in BOOLEAN /\ draining_done \in BOOLEAN
         /\ closed \in BOOLEAN

CallTypes ==
  /\ pc \in {"idle", "get", "process", "ready", "read", "close_free",
             "close_destroy", "closed"}
  /\ caller \in {"send", "recv", None}
  /\ again \in SUBSET {"send", "recv"} /\ last \in {"none", "OK", "EAGAIN", "EOF"}
  /\ sent \in Nat /\ sent <= MaxFrames /\ mark \in Nat /\ mark <= sent
  /\ flushes \in Nat /\ flushes <= MaxFlush

FrameTypes ==
  /\ frame \in Frames \cup {None} /\ buffer_frame \in Frames \cup {None}
  /\ buffer_pkt \in Packets \cup {None} /\ received \in Seq(Packets)
  /\ hw \in Seq(Frames) /\ Len(hw) <= Depth

RingTypes ==
  /\ timestamp_list \in FifoType(Frames, NbBuffers)
  /\ queue # None => queue \in FifoType(Frames, NbBuffers)
  /\ queue = None <=> pc \in {"close_destroy", "closed"}

CallState ==
  /\ pc \in {"get", "process", "ready", "read"} => buffer_pkt = None
  /\ frame # None <=> pc = "process"
  /\ closed <=> pc \in {"close_free", "close_destroy", "closed"}

CallbackState ==
  /\ cb \in {"none", "called", "copied", "indexed"} /\ mutex \in {"callback", None}
  /\ mutex = "callback" <=> cb \in {"copied", "indexed"}
  /\ cb \in {"copied", "indexed"} => pc \notin {"close_destroy", "closed"}
  /\ cb # "none" => hw # <<>>
  /\ cb = "indexed" => ~ordered

Basics == Flags /\ CallTypes /\ FrameTypes /\ RingTypes /\ CallState /\ CallbackState

\* What is on its way: a frame whose index is already counted is still in hw.
One(b) == IF b THEN 1 ELSE 0
Total  == output_ready + Len(hw) - One(cb = "indexed")

\* A frame goes in before a packet is taken out, so that a call may hold one frame
\* more than the session takes.
Count ==
  /\ av_fifo_size(timestamp_list) <= Depth + 1
  /\ ~closed => /\ av_fifo_size(timestamp_list) <= Total
                /\ Total <= Depth + One(pc \in {"ready", "read"})
                /\ pc = "read" => output_ready >= 1

\* The packets, the slots of the ring, the session, the frame in hand and the one
\* that waits carry the numbers from 1 on; so does the other ring, from the first
\* packet that is not out yet.
Out == Len(received) + One(buffer_pkt # None)
From(s, n) == \A i \in 1 .. Len(s) : s[i] = n + i
Received == \A i \in 1 .. Len(received) : received[i] = [frame |-> i, pts |-> i]
InLine ==
  /\ Coherent(timestamp_list) /\ Coherent(queue)
  /\ buffer_pkt # None => buffer_pkt = [frame |-> Out, pts |-> Out]
  /\ From(Contents(queue), Out) /\ From(hw, Out + output_ready)
  /\ From(Contents(timestamp_list), Out)
  /\ av_fifo_size(timestamp_list) = output_ready + Len(hw)
  /\ cb = "copied" => queue.buffer[queue.wptr] = Head(hw)
  /\ frame # None => frame = Out + output_ready + Len(hw) + 1
  /\ buffer_frame # None => buffer_frame = sent
  /\ sent = Out + output_ready + Len(hw) + One(frame # None) + One(buffer_frame # None)
InStep == ordered /\ flushes = 0 => Received /\ (~closed => InLine)

\* The session takes fewer frames than the rings have slots.
WellSized == Depth < NbBuffers

IInv == Basics /\ (WellSized => Count /\ InStep)

-----------------------------------------------------------------------------
LEMMA Sizes ==
  /\ NbBuffers \in Nat \ {0} /\ NbBuffers + 1 < IdxMod /\ IdxMod \in Nat \ {0}
  /\ Depth \in Nat /\ Depth >= 1 /\ MaxFrames \in Nat /\ MaxFlush \in Nat
  /\ None \notin Nat /\ NoElem \notin Nat /\ None # "callback"
  /\ None \notin Packets /\ None \notin FifoType(Frames, NbBuffers)
  BY NbBuffersAssumption, IdxModAssumption, DepthAssumption, BoundsAssumption, TokensAssumption

USE Sizes

LEMMA FramesAreNumbers ==
  /\ \A n \in Frames : n \in Nat /\ n >= 1 /\ n # None /\ n # NoElem
  /\ None \notin Frames /\ NoElem \notin Frames
  BY DEF Frames

LEMMA Types == IInv => TypeOK
  <1> SUFFICES ASSUME IInv PROVE TypeOK
    OBVIOUS
  <1> USE DEF IInv, Basics
  <1>1. sent \in 0 .. MaxFrames /\ mark \in 0 .. MaxFrames /\ flushes \in 0 .. MaxFlush
    BY DEF CallTypes
  <1> QED
    BY <1>1 DEF TypeOK, Flags, CallTypes, FrameTypes, RingTypes, CallbackState, queue

\* What a call of the API leaves when it returns from the encoder.
LEMMA Returns ==
  ASSUME Basics, buffer_pkt = None, NEW r \in {"OK", "EAGAIN", "EOF"},
         NEW p \in Packets \cup {None}, r = "OK" <=> p # None,
         EncodeReturns(r, p)
  PROVE  /\ pc' = "idle" /\ caller' = None
         /\ draining_done' \in BOOLEAN
         /\ again' \in SUBSET {"send", "recv"}
         /\ last' \in {"none", "OK", "EAGAIN", "EOF"}
         /\ buffer_pkt' \in Packets \cup {None} /\ received' \in Seq(Packets)
         /\ \/ buffer_pkt' = p /\ received' = received
            \/ /\ buffer_pkt' = None
               /\ received' = IF p = None THEN received ELSE Append(received, p)
  <1>1. pc' = "idle" /\ caller' = None /\ draining_done' \in BOOLEAN
    BY DEF EncodeReturns
  <1>2. CASE caller = "send"
    BY <1>1, <1>2 DEF EncodeReturns, SendResult, Basics, FrameTypes, CallTypes
  <1>3. CASE caller # "send"
    <2>1. /\ buffer_pkt' = None /\ last' = r
          /\ received' = IF p = None THEN received ELSE Append(received, p)
          /\ again' = IF r = "EAGAIN" THEN again \cup {"recv"} ELSE {}
      BY <1>3 DEF EncodeReturns, RecvResult
    <2>2. received' \in Seq(Packets)
      BY <2>1, AppendProperties DEF Basics, FrameTypes
    <2> QED
      BY <1>1, <2>1, <2>2 DEF Basics, CallTypes
  <1> QED
    BY <1>2, <1>3

\* A call that finds no packet.
LEMMA NothingReturned ==
  ASSUME Basics, GetNothing \/ OutputNothing
  PROVE  /\ pc \in {"get", "ready"} /\ pc' = "idle" /\ caller' = None
         /\ draining_done' \in BOOLEAN
         /\ again' \in SUBSET {"send", "recv"}
         /\ last' \in {"none", "OK", "EAGAIN", "EOF"}
         /\ buffer_pkt = None /\ buffer_pkt' = None /\ received' = received
         /\ UNCHANGED <<frame, buffer_frame, draining, rest, timestamp_list,
                        output_buffer_ready_queue, mutex, hw, cb>>
  <1>1. /\ pc \in {"get", "ready"} /\ buffer_pkt = None /\ None \in Packets \cup {None}
        /\ UNCHANGED <<frame, buffer_frame, draining, rest, timestamp_list,
                       output_buffer_ready_queue, mutex, hw, cb>>
    BY DEF GetNothing, OutputNothing, Basics, CallState
  <1>2. PICK r \in {"EAGAIN", "EOF"} : EncodeReturns(r, None)
    BY DEF GetNothing, OutputNothing
  <1>3. /\ buffer_pkt' = None /\ received' = received
    BY <1>1, <1>2, Returns
  <1> QED
    BY <1>1, <1>2, <1>3, Returns

\* The packet that OutputRead makes: the slot of one ring, the timestamp of the other.
TheRead == [frame |-> av_fifo_peek(queue), pts |-> Timestamp]

LEMMA PacketReturned ==
  ASSUME Basics, OutputRead
  PROVE  /\ pc = "read" /\ pc' = "idle" /\ caller' = None
         /\ draining_done' \in BOOLEAN
         /\ again' \in SUBSET {"send", "recv"}
         /\ last' \in {"none", "OK", "EAGAIN", "EOF"}
         /\ buffer_pkt = None /\ TheRead \in Packets
         /\ buffer_pkt' \in Packets \cup {None} /\ received' \in Seq(Packets)
         /\ \/ buffer_pkt' = TheRead /\ received' = received
            \/ buffer_pkt' = None /\ received' = Append(received, TheRead)
         /\ queue \in FifoType(Frames, NbBuffers) /\ queue' = av_fifo_read(queue)
         /\ timestamp_list' = IF av_fifo_size(timestamp_list) > 0
                              THEN av_fifo_read(timestamp_list) ELSE timestamp_list
         /\ UNCHANGED <<frame, buffer_frame, draining, rest, mutex, hw, cb>>
  <1>1. /\ pc = "read" /\ queue' = av_fifo_read(queue) /\ EncodeReturns("OK", TheRead)
        /\ timestamp_list' = IF av_fifo_size(timestamp_list) > 0
                              THEN av_fifo_read(timestamp_list) ELSE timestamp_list
        /\ UNCHANGED <<frame, buffer_frame, draining, rest, mutex, hw, cb>>
    BY DEF OutputRead, TheRead, queue
  <1>2. /\ buffer_pkt = None /\ queue \in FifoType(Frames, NbBuffers)
        /\ timestamp_list \in FifoType(Frames, NbBuffers)
    BY <1>1 DEF Basics, CallState, RingTypes
  <1>3. TheRead \in Packets
    <2>1. ASSUME NEW f \in FifoType(Frames, NbBuffers)
          PROVE  av_fifo_peek(f) \in Frames \cup {NoElem}
      BY DEF FifoType, av_fifo_peek
    <2> QED
      BY <1>2, <2>1 DEF TheRead, Packets, Timestamp
  <1>4. TheRead \in Packets \cup {None} /\ TheRead # None
    BY <1>3
  <1>5. /\ pc' = "idle" /\ caller' = None /\ draining_done' \in BOOLEAN
        /\ again' \in SUBSET {"send", "recv"}
        /\ last' \in {"none", "OK", "EAGAIN", "EOF"}
        /\ buffer_pkt' \in Packets \cup {None} /\ received' \in Seq(Packets)
        /\ \/ buffer_pkt' = TheRead /\ received' = received
           \/ buffer_pkt' = None /\ received' = Append(received, TheRead)
    BY <1>1, <1>2, <1>4, Returns
  <1> QED
    BY <1>1, <1>2, <1>3, <1>5

-----------------------------------------------------------------------------
(* Types and the state of the two threads.                                 *)

LEMMA InitBasics == Init => Basics
  <1> SUFFICES ASSUME Init PROVE Basics
    OBVIOUS
  <1>1. CallTypes
    BY DEF Init, CallTypes
  <1>0. Flags
    BY DEF Init, Flags
  <1>2. FrameTypes
    BY EmptySeq DEF Init, FrameTypes
  <1>3. RingTypes
    <2>1. av_fifo_alloc(nb_buffers) \in FifoType(Frames, NbBuffers)
      BY AllocEmpty DEF Ring, nb_buffers
    <2> QED
      BY <2>1 DEF Init, RingTypes, queue
  <1>4. CallState /\ CallbackState
    BY DEF Init, CallState, CallbackState
  <1> QED
    BY <1>0, <1>1, <1>2, <1>3, <1>4 DEF Basics

LEMMA ClientBasics == ASSUME Basics, Client PROVE Basics'
  <1> USE DEF Basics
  <1>1. pc = "idle" /\ UNCHANGED <<ordered, frame, queue, mutex, hw, cb>>
    BY DEF Client, SendFrame, SendEOF, ReceivePacket, Flush, Close, rest, call, queue
  <1>0. pc' \notin {"close_destroy", "closed"}
    BY <1>1 DEF Client, SendFrame, SendEOF, ReceivePacket, Flush, Close, call, SendRefused,
       SendAccepted
  <1>2. CallbackState'
    BY <1>0, <1>1 DEF CallbackState
  <1>3. CASE SendFrame
    <2>1. /\ UNCHANGED <<frame, buffer_pkt, draining, draining_done, received, last,
                         ordered, closed, flushes, mark, timestamp_list, hw>>
          /\ sent < MaxFrames
          /\ \/ /\ sent' = sent /\ buffer_frame' = buffer_frame /\ pc' = pc /\ caller' = caller
                /\ again' = {} \/ again' = again \cup {"send"}
             \/ /\ sent' = sent + 1 /\ buffer_frame' = sent + 1
                /\ \/ pc' = pc /\ caller' = caller /\ again' = {}
                   \/ /\ pc' = "get" /\ caller' = "send" /\ buffer_pkt = None
                      /\ again' = again
      <3>1. CASE draining \/ buffer_frame # None
        BY <1>1, <1>3, <3>1 DEF SendFrame, SendRefused, SendResult
      <3>2. CASE ~(draining \/ buffer_frame # None)
        BY <1>1, <1>3, <3>2 DEF SendFrame, SendAccepted, SendResult
      <3> QED
        BY <3>1, <3>2
    <2>2. Flags'
      BY <2>1 DEF Flags
    <2>3. CallTypes'
      <3>1. again' \in SUBSET {"send", "recv"}
        BY <2>1 DEF CallTypes
      <3>2. sent' \in Nat /\ sent' <= MaxFrames /\ mark' \in Nat /\ mark' <= sent'
        BY <2>1 DEF CallTypes
      <3> QED
        BY <1>1, <2>1, <3>1, <3>2 DEF CallTypes
    <2>4. FrameTypes'
      BY <2>1 DEF FrameTypes, Frames, CallTypes
    <2>5. RingTypes' /\ CallState'
      BY <1>1, <2>1 DEF RingTypes, CallState
    <2> QED
      BY <1>2, <2>2, <2>3, <2>4, <2>5
  <1>4. CASE SendEOF
    <2>1. /\ UNCHANGED <<frame, buffer_frame, buffer_pkt, draining_done, received, last,
                         rest, timestamp_list, hw>>
          /\ draining' = draining \/ draining' = TRUE
          /\ \/ /\ pc' = pc /\ caller' = caller
                /\ again' = {} \/ again' = again \cup {"send"}
             \/ pc' = "get" /\ caller' = "send" /\ buffer_pkt = None /\ again' = again
      BY <1>1, <1>4 DEF SendEOF, SendRefused, SendAccepted, SendResult
    <2>2. Flags'
      BY <2>1 DEF Flags, rest
    <2>3. CallTypes'
      BY <2>1 DEF CallTypes, rest, past
    <2>4. FrameTypes'
      BY <2>1 DEF FrameTypes
    <2>5. RingTypes' /\ CallState'
      BY <1>1, <2>1 DEF RingTypes, CallState, rest
    <2> QED
      BY <1>2, <2>2, <2>3, <2>4, <2>5
  <1>5. CASE ReceivePacket
    <2>1. /\ UNCHANGED <<frame, buffer_frame, draining, draining_done, rest,
                         timestamp_list, hw>>
          /\ \/ /\ pc' = pc /\ caller' = caller /\ again' = {} /\ last' = "OK"
                /\ buffer_pkt \in Packets /\ buffer_pkt' = None
                /\ received' = Append(received, buffer_pkt)
             \/ /\ pc' = "get" /\ caller' = "recv" /\ buffer_pkt = None
                /\ UNCHANGED <<buffer_pkt, seen>>
      BY <1>1, <1>5 DEF ReceivePacket, RecvResult, FrameTypes
    <2>2. Flags'
      BY <2>1 DEF Flags, rest
    <2>3. CallTypes'
      BY <2>1 DEF CallTypes, rest, past, seen
    <2>4. FrameTypes'
      <3>1. received' \in Seq(Packets)
        BY <2>1, AppendProperties DEF FrameTypes, seen
      <3> QED
        BY <2>1, <3>1 DEF FrameTypes
    <2>5. RingTypes' /\ CallState'
      BY <1>1, <2>1 DEF RingTypes, CallState, rest
    <2> QED
      BY <1>2, <2>2, <2>3, <2>4, <2>5
  <1>6. CASE Flush
    <2>1. Flags'
      BY <1>6 DEF Flush, Flags
    <2>2. CallTypes'
      BY <1>6 DEF Flush, CallTypes, call
    <2>3. FrameTypes'
      BY <1>6, EmptySeq DEF Flush, FrameTypes, call
    <2>4. RingTypes'
      <3>1. ASSUME NEW f \in FifoType(Frames, NbBuffers)
            PROVE  av_fifo_reset(f) \in FifoType(Frames, NbBuffers)
        <4>1. FieldTypes(f, Frames, NbBuffers) /\ 0 \in 0 .. NbBuffers - 1 /\ 0 \in 0 .. IdxMod - 1
          BY RingFields
        <4> QED
          BY <4>1 DEF FieldTypes, FifoType, av_fifo_reset
      <3> QED
        BY <1>1, <1>6, <3>1 DEF Flush, RingTypes, call
    <2>5. CallState'
      BY <1>1, <1>6 DEF Flush, CallState, call
    <2> QED
      BY <1>2, <2>1, <2>2, <2>3, <2>4, <2>5
  <1>7. CASE Close
    <2>1. Flags' /\ CallTypes'
      BY <1>7 DEF Close, Flags, CallTypes, avci, seen, past
    <2>2. FrameTypes' /\ RingTypes'
      BY <1>1, <1>7 DEF Close, FrameTypes, RingTypes, avci, seen, past
    <2>3. CallState'
      BY <1>1, <1>7 DEF Close, CallState, avci
    <2> QED
      BY <1>2, <2>1, <2>2, <2>3
  <1> QED
    BY <1>3, <1>4, <1>5, <1>6, <1>7 DEF Client

LEMMA InCallBasics == ASSUME Basics, InCall PROVE Basics'
  <1> USE DEF Basics
  <1>1. CASE GetNothing \/ OutputNothing
    <2>1. /\ pc \in {"get", "ready"} /\ pc' = "idle" /\ caller' = None
          /\ draining_done' \in BOOLEAN /\ again' \in SUBSET {"send", "recv"}
          /\ last' \in {"none", "OK", "EAGAIN", "EOF"} /\ buffer_pkt' = None
          /\ received' = received
          /\ UNCHANGED <<frame, buffer_frame, draining, ordered, closed, sent, flushes, mark,
                         timestamp_list, queue, mutex, hw, cb>>
      BY <1>1, NothingReturned DEF rest, past, queue
    <2>2. Flags' /\ CallTypes'
      BY <2>1 DEF Flags, CallTypes
    <2>3. FrameTypes' /\ RingTypes'
      BY <2>1 DEF FrameTypes, RingTypes
    <2>4. CallState' /\ CallbackState'
      BY <2>1 DEF CallState, CallbackState
    <2> QED
      BY <2>2, <2>3, <2>4
  <1>2. CASE GetDraining \/ OutputReady
    <2>1. /\ \/ pc = "get" /\ pc' = "ready"
             \/ pc = "ready" /\ pc' = "read"
          /\ UNCHANGED <<caller, frame, avci, seen, rest, timestamp_list, queue, mutex, hw, cb>>
      BY <1>2 DEF GetDraining, OutputReady, queue
    <2>2. Flags' /\ CallTypes'
      BY <2>1 DEF Flags, CallTypes, avci, seen, rest, past
    <2>3. FrameTypes' /\ RingTypes'
      BY <2>1 DEF FrameTypes, RingTypes, avci, seen
    <2>4. CallState' /\ CallbackState'
      BY <2>1 DEF CallState, CallbackState, avci, rest
    <2> QED
      BY <2>2, <2>3, <2>4
  <1>3. CASE GetFrame
    <2>1. /\ pc = "get" /\ pc' = "process" /\ frame' = buffer_frame /\ buffer_frame' = None
          /\ buffer_frame # None
          /\ UNCHANGED <<caller, buffer_pkt, draining, draining_done, seen, rest,
                         timestamp_list, queue, mutex, hw, cb>>
      BY <1>3 DEF GetFrame, queue
    <2>2. Flags' /\ CallTypes'
      BY <2>1 DEF Flags, CallTypes, seen, rest, past
    <2>3. FrameTypes' /\ RingTypes'
      BY <2>1 DEF FrameTypes, RingTypes, seen
    <2>4. CallState' /\ CallbackState'
      BY <2>1 DEF CallState, CallbackState, rest
    <2> QED
      BY <2>2, <2>3, <2>4
  <1>4. CASE ProcessFrame
    <2>1. /\ pc = "process" /\ pc' = "ready" /\ frame \in Frames /\ frame' = None
          /\ Len(hw) < Depth /\ hw' = Append(hw, frame)
          /\ timestamp_list' = av_fifo_write(timestamp_list, frame)
          /\ UNCHANGED <<caller, avci, seen, rest, queue, mutex, cb>>
      BY <1>4 DEF ProcessFrame, queue, CallState, FrameTypes
    <2>2. hw' \in Seq(Frames) /\ Len(hw') <= Depth /\ hw' # <<>>
      <3>1. hw' \in Seq(Frames) /\ Len(hw') = Len(hw) + 1 /\ hw' # <<>> /\ Len(hw) \in Nat
        BY <2>1, AppendProperties, LenProperties DEF FrameTypes
      <3> QED
        BY <2>1, <3>1
    <2>3. timestamp_list' \in FifoType(Frames, NbBuffers)
      BY <2>1, OperationsKeepType DEF RingTypes
    <2>4. Flags' /\ CallTypes'
      BY <2>1 DEF Flags, CallTypes, avci, seen, rest, past
    <2>5. FrameTypes' /\ RingTypes'
      BY <2>1, <2>2, <2>3 DEF FrameTypes, RingTypes, avci, seen
    <2>6. CallState' /\ CallbackState'
      BY <2>1, <2>2 DEF CallState, CallbackState, avci, rest
    <2> QED
      BY <2>4, <2>5, <2>6
  <1>5. CASE OutputRead
    <2>1. /\ pc = "read" /\ pc' = "idle" /\ caller' = None
          /\ draining_done' \in BOOLEAN /\ again' \in SUBSET {"send", "recv"}
          /\ last' \in {"none", "OK", "EAGAIN", "EOF"}
          /\ buffer_pkt' \in Packets \cup {None} /\ received' \in Seq(Packets)
          /\ queue \in FifoType(Frames, NbBuffers) /\ queue' = av_fifo_read(queue)
          /\ timestamp_list' = av_fifo_read(timestamp_list) \/ timestamp_list' = timestamp_list
          /\ UNCHANGED <<frame, buffer_frame, draining, ordered, closed, sent, flushes, mark,
                         mutex, hw, cb>>
      BY <1>5, PacketReturned DEF rest, past
    <2>2. /\ queue' \in FifoType(Frames, NbBuffers)
          /\ timestamp_list' \in FifoType(Frames, NbBuffers)
      <3>1. ASSUME NEW f \in FifoType(Frames, NbBuffers)
            PROVE  av_fifo_read(f) \in FifoType(Frames, NbBuffers)
        BY ReadKeepsType
      <3> QED
        BY <2>1, <3>1 DEF RingTypes
    <2>3. Flags' /\ CallTypes'
      BY <2>1 DEF Flags, CallTypes
    <2>4. FrameTypes' /\ RingTypes'
      BY <2>1, <2>2 DEF FrameTypes, RingTypes
    <2>5. CallState' /\ CallbackState'
      BY <2>1 DEF CallState, CallbackState
    <2> QED
      BY <2>3, <2>4, <2>5
  <1>6. CASE CloseFree
    <2>1. /\ pc = "close_free" /\ mutex = None /\ queue' = None /\ pc' = "close_destroy"
          /\ UNCHANGED <<caller, frame, avci, seen, rest, timestamp_list, mutex, hw, cb>>
      BY <1>6 DEF CloseFree, queue
    <2>2. Flags' /\ CallTypes'
      BY <2>1 DEF Flags, CallTypes, avci, seen, rest, past
    <2>3. FrameTypes' /\ RingTypes'
      BY <2>1 DEF FrameTypes, RingTypes, avci, seen
    <2>4. CallState' /\ CallbackState'
      BY <2>1 DEF CallState, CallbackState, avci, rest
    <2> QED
      BY <2>2, <2>3, <2>4
  <1> QED
    BY <1>1, <1>2, <1>3, <1>4, <1>5, <1>6 DEF InCall

LEMMA WptrKeepsType ==
  ASSUME NEW f \in FifoType(Frames, NbBuffers)
  PROVE  [f EXCEPT !.wptr = Wrap(@ + 1, NbBuffers)] \in FifoType(Frames, NbBuffers)
  <1>1. FieldTypes(f, Frames, NbBuffers)
    BY RingFields
  <1>2. Wrap(f.wptr + 1, NbBuffers) \in 0 .. NbBuffers - 1
    BY <1>1 DEF FieldTypes, Wrap
  <1> QED
    BY <1>1, <1>2 DEF FifoType, FieldTypes

LEMMA WndxKeepsType ==
  ASSUME NEW f \in FifoType(Frames, NbBuffers)
  PROVE  [f EXCEPT !.wndx = Wrap(@ + 1, IdxMod)] \in FifoType(Frames, NbBuffers)
  <1>1. FieldTypes(f, Frames, NbBuffers)
    BY RingFields
  <1>2. Wrap(f.wndx + 1, IdxMod) \in 0 .. IdxMod - 1
    BY <1>1 DEF FieldTypes, Wrap
  <1> QED
    BY <1>1, <1>2 DEF FifoType, FieldTypes

LEMMA SessionBasics == ASSUME Basics, HwOutput \/ Callback \/ HwStop PROVE Basics'
  <1> USE DEF Basics
  <1>1. CASE HwOutput
    <2>1. /\ cb = "none" /\ hw # <<>> /\ cb' = "called"
          /\ UNCHANGED <<call, avci, seen, rest, timestamp_list, queue, mutex, hw>>
      BY <1>1 DEF HwOutput, queue
    <2>2. Flags' /\ CallTypes' /\ FrameTypes' /\ RingTypes'
      BY <2>1 DEF Flags, CallTypes, FrameTypes, RingTypes, call, avci, seen, rest, past
    <2>3. CallState' /\ CallbackState'
      BY <2>1 DEF CallState, CallbackState, call, avci, rest
    <2> QED
      BY <2>2, <2>3
  <1>2. CASE CallbackAfterEnd \/ CallbackPublish \/ CallbackSlotLast
    <2>1. /\ cb # "none" /\ hw # <<>> /\ cb' = "none" /\ hw' = Tail(hw) /\ mutex' = None
          /\ UNCHANGED <<call, avci, seen, rest, timestamp_list>>
      BY <1>2 DEF CallbackAfterEnd, CallbackPublish, CallbackSlotLast, CallbackDone,
         CallbackState
    <2>2. hw' \in Seq(Frames) /\ Len(hw') <= Depth /\ Head(hw) \in Frames
      <3>1. /\ hw' \in Seq(Frames) /\ Len(hw') = Len(hw) - 1 /\ Len(hw) \in Nat
            /\ Head(hw) \in Frames
        BY <2>1, HeadTailProperties, LenProperties DEF FrameTypes
      <3> QED
        BY <3>1 DEF FrameTypes
    <2>3. /\ queue = None <=> queue' = None
          /\ queue' # None => queue' \in FifoType(Frames, NbBuffers)
      <3>1. CASE CallbackAfterEnd
        BY <3>1 DEF CallbackAfterEnd, RingTypes, queue
      <3>2. CASE CallbackPublish
        <4>1. queue \in FifoType(Frames, NbBuffers) /\ queue' = av_fifo_publish(queue)
          BY <3>2 DEF CallbackPublish, RingTypes, CallbackState, queue
        <4>2. queue' \in FifoType(Frames, NbBuffers)
          BY <2>2, <4>1, OperationsKeepType
        <4> QED
          BY <4>1, <4>2
      <3>3. CASE CallbackSlotLast
        <4>1. PICK f : f = av_fifo_copy(queue, Head(hw))
          OBVIOUS
        <4>2. /\ queue \in FifoType(Frames, NbBuffers)
              /\ queue' = [f EXCEPT !.wptr = Wrap(@ + 1, NbBuffers)]
          BY <3>3, <4>1 DEF CallbackSlotLast, RingTypes, CallbackState, queue, nb_buffers
        <4>3. f \in FifoType(Frames, NbBuffers)
          BY <2>2, <4>1, <4>2, OperationsKeepType
        <4>4. queue' \in FifoType(Frames, NbBuffers)
          BY <4>2, <4>3, WptrKeepsType
        <4> QED
          BY <4>2, <4>4
      <3> QED
        BY <1>2, <3>1, <3>2, <3>3
    <2>4. Flags' /\ CallTypes'
      BY <2>1 DEF Flags, CallTypes, call, avci, seen, rest, past
    <2>5. FrameTypes' /\ RingTypes'
      BY <2>1, <2>2, <2>3 DEF FrameTypes, RingTypes, call, avci, seen
    <2>6. CallState' /\ CallbackState'
      BY <2>1 DEF CallState, CallbackState, call, avci, rest
    <2> QED
      BY <2>4, <2>5, <2>6
  <1>3. CASE CallbackCopy \/ CallbackIndexFirst
    <2>1. /\ cb = "called" /\ ~closed /\ mutex' = "callback" /\ cb' \in {"copied", "indexed"}
          /\ hw # <<>>
          /\ cb' = "indexed" => ~ordered
          /\ UNCHANGED <<call, avci, seen, rest, timestamp_list, hw>>
      BY <1>3 DEF CallbackCopy, CallbackIndexFirst, CallbackState
    <2>2. queue \in FifoType(Frames, NbBuffers) /\ Head(hw) \in Frames
      BY <2>1, HeadTailProperties DEF RingTypes, CallState, FrameTypes
    <2>3. queue' \in FifoType(Frames, NbBuffers)
      <3>1. CASE CallbackCopy
        BY <2>2, <3>1, OperationsKeepType DEF CallbackCopy, queue
      <3>2. CASE CallbackIndexFirst
        <4>1. queue' = [queue EXCEPT !.wndx = Wrap(@ + 1, IdxMod)]
          BY <3>2 DEF CallbackIndexFirst, queue
        <4> QED
          BY <2>2, <4>1, WndxKeepsType
      <3> QED
        BY <1>3, <3>1, <3>2
    <2>4. Flags' /\ CallTypes'
      BY <2>1 DEF Flags, CallTypes, call, avci, seen, rest, past
    <2>5. FrameTypes' /\ RingTypes'
      BY <2>1, <2>2, <2>3 DEF FrameTypes, RingTypes, call, avci, seen
    <2>6. CallState' /\ CallbackState'
      BY <2>1 DEF CallState, CallbackState, call, avci, rest
    <2> QED
      BY <2>4, <2>5, <2>6
  <1>4. CASE HwStop
    <2>1. /\ pc = "close_destroy" /\ cb = "none" /\ hw' = <<>> /\ pc' = "closed"
          /\ UNCHANGED <<caller, frame, avci, seen, rest, timestamp_list, queue, mutex, cb>>
      BY <1>4 DEF HwStop, queue
    <2>2. Flags' /\ CallTypes'
      BY <2>1 DEF Flags, CallTypes, avci, seen, rest, past
    <2>3. FrameTypes' /\ RingTypes'
      BY <2>1, EmptySeq DEF FrameTypes, RingTypes, avci, seen
    <2>4. CallState' /\ CallbackState'
      BY <2>1 DEF CallState, CallbackState, avci, rest
    <2> QED
      BY <2>2, <2>3, <2>4
  <1> QED
    BY <1>1, <1>2, <1>3, <1>4 DEF Callback

LEMMA NextBasics == ASSUME Basics, [Next]_vars PROVE Basics'
  <1>1. CASE UNCHANGED vars
    BY <1>1 DEF vars, Basics, Flags, CallTypes, FrameTypes, RingTypes, CallState, CallbackState,
       queue, call, avci, seen, rest, past
  <1> QED
    BY <1>1, ClientBasics, InCallBasics, SessionBasics DEF Next, Closed

-----------------------------------------------------------------------------
(* Neither ring overruns.                                                  *)

\* Count without primes: the sizes after the step are t, q and h.
LEMMA CountBy ==
  ASSUME NEW t \in Nat, NEW q \in Nat, NEW h \in Nat, NEW i \in {0, 1},
         av_fifo_size(timestamp_list') = t, av_fifo_size(queue') = q, Len(hw') = h,
         One(cb' = "indexed") = i,
         t <= Depth + 1, t <= q + h - i,
         \/ q + h - i <= Depth
         \/ q + h - i <= Depth + 1 /\ pc' \in {"ready", "read"},
         pc' = "read" => q >= 1
  PROVE  Count'
  <1>1. Total' = q + h - i
    BY DEF Total, output_ready, queue
  <1>2. One(pc' \in {"ready", "read"}) \in {0, 1}
    BY DEF One
  <1>3. pc' \in {"ready", "read"} => One(pc' \in {"ready", "read"}) = 1
    BY DEF One
  <1>4. q + h - i <= Depth + One(pc' \in {"ready", "read"})
    BY <1>2, <1>3
  <1> QED
    BY <1>1, <1>4 DEF Count, output_ready, queue

LEMMA CountClosed ==
  ASSUME closed', Count,
         timestamp_list' = timestamp_list \/ av_fifo_size(timestamp_list') = 0
  PROVE  Count'
  BY DEF Count

LEMMA IndexedSizes ==
  ASSUME NEW f \in FifoType(Frames, NbBuffers)
  PROVE  /\ av_fifo_size(f) + 1 < IdxMod =>
              av_fifo_size([f EXCEPT !.wndx = Wrap(@ + 1, IdxMod)]) = av_fifo_size(f) + 1
         /\ av_fifo_size([f EXCEPT !.wptr = Wrap(@ + 1, NbBuffers)]) = av_fifo_size(f)
  <1> DEFINE g == [f EXCEPT !.wndx = Wrap(@ + 1, IdxMod)]
             k == [f EXCEPT !.wptr = Wrap(@ + 1, NbBuffers)]
  <1>1. f.wndx \in 0 .. IdxMod - 1 /\ f.rndx \in 0 .. IdxMod - 1
    BY RingFields DEF FieldTypes
  <1>2. /\ g.wndx = Wrap(f.wndx + 1, IdxMod) /\ g.rndx = f.rndx
        /\ k.wndx = f.wndx /\ k.rndx = f.rndx
    BY DEF FifoType
  <1> HIDE DEF g, k
  <1>3. av_fifo_size(k) = av_fifo_size(f)
    BY <1>1, <1>2 DEF av_fifo_size
  <1>4. av_fifo_size(f) + 1 < IdxMod => av_fifo_size(g) = av_fifo_size(f) + 1
    BY <1>1, <1>2 DEF av_fifo_size, Wrap
  <1> QED
    BY <1>3, <1>4 DEF g, k

\* What Count says of an encoder that is open, in numbers.
LEMMA CountFacts ==
  ASSUME Basics, Count, WellSized, ~closed
  PROVE  /\ queue \in FifoType(Frames, NbBuffers)
         /\ timestamp_list \in FifoType(Frames, NbBuffers)
         /\ av_fifo_size(queue) \in Nat /\ av_fifo_size(timestamp_list) \in Nat
         /\ Len(hw) \in Nat /\ Len(hw) <= Depth
         /\ output_ready = av_fifo_size(queue)
         /\ One(cb = "indexed") \in {0, 1}
         /\ One(cb = "indexed") = 1 => Len(hw) >= 1
         /\ av_fifo_size(timestamp_list) <= av_fifo_size(queue) + Len(hw) - One(cb = "indexed")
         /\ av_fifo_size(queue) + Len(hw) - One(cb = "indexed") <= Depth + 1
         /\ pc \notin {"ready", "read"} =>
              av_fifo_size(queue) + Len(hw) - One(cb = "indexed") <= Depth
         /\ pc = "read" => av_fifo_size(queue) >= 1
         /\ Depth + 1 <= NbBuffers /\ Depth + 2 < IdxMod
  <1>1. /\ queue \in FifoType(Frames, NbBuffers)
        /\ timestamp_list \in FifoType(Frames, NbBuffers)
    BY DEF Basics, RingTypes, CallState
  <1>2. av_fifo_size(queue) \in Nat /\ av_fifo_size(timestamp_list) \in Nat
    BY <1>1, SizeType
  <1>3. Len(hw) \in Nat /\ Len(hw) <= Depth
    BY LenProperties DEF Basics, FrameTypes
  <1>4. cb = "indexed" => Len(hw) >= 1
    BY EmptySeq, <1>3 DEF Basics, FrameTypes, CallbackState
  <1>5. /\ One(cb = "indexed") \in {0, 1}
        /\ One(cb = "indexed") = 1 => Len(hw) >= 1
    BY <1>4 DEF One
  <1>6. /\ output_ready = av_fifo_size(queue)
        /\ Total = av_fifo_size(queue) + Len(hw) - One(cb = "indexed")
    BY DEF output_ready, queue, Total
  <1>7. /\ av_fifo_size(timestamp_list) <= Total
        /\ Total <= Depth + One(pc \in {"ready", "read"})
        /\ pc = "read" => output_ready >= 1
    BY DEF Count
  <1>8. /\ One(pc \in {"ready", "read"}) \in {0, 1}
        /\ pc \notin {"ready", "read"} => One(pc \in {"ready", "read"}) = 0
    BY DEF One
  <1>9. Depth + 1 <= NbBuffers /\ Depth + 2 < IdxMod
    BY DEF WellSized
  <1> QED
    BY <1>1, <1>2, <1>3, <1>5, <1>6, <1>7, <1>8, <1>9

LEMMA CountNext == ASSUME Basics, Count, WellSized, [Next]_vars PROVE Count'
  <1> DEFINE t == av_fifo_size(timestamp_list)
             q == av_fifo_size(queue)
             h == Len(hw)
             i == One(cb = "indexed")
  <1>0. t \in Nat /\ t <= Depth + 1 /\ 0 \in Nat /\ av_fifo_size(timestamp_list) = t
    BY SizeType DEF Count, Basics, RingTypes
  \* An encoder that is closed, or is being closed.
  <1>1. CASE closed'
    <2>1. closed \/ Close
      BY <1>1 DEF Next, Client, SendFrame, SendEOF, ReceivePacket, Flush, InCall, GetNothing,
         GetDraining, GetFrame, ProcessFrame, OutputReady, OutputNothing, OutputRead, CloseFree,
         HwOutput, Callback, CallbackAfterEnd, CallbackCopy, CallbackPublish, CallbackIndexFirst,
         CallbackSlotLast, HwStop, Closed, vars, rest
    <2>2. CASE Close
      BY <1>1, <2>2, CountClosed DEF Close
    <2>3. CASE closed
      <3>1. pc \in {"close_free", "close_destroy", "closed"}
        BY <2>3 DEF Basics, CallState
      <3>2. timestamp_list' = timestamp_list
        BY <3>1 DEF Next, Client, SendFrame, SendEOF, ReceivePacket, Flush, Close, InCall,
           GetNothing, GetDraining, GetFrame, ProcessFrame, OutputReady, OutputNothing,
           OutputRead, CloseFree, HwOutput, Callback, CallbackAfterEnd, CallbackCopy,
           CallbackPublish, CallbackIndexFirst, CallbackSlotLast, HwStop, Closed, vars
      <3> QED
        BY <1>1, <3>2, CountClosed
    <2> QED
      BY <2>1, <2>2, <2>3
  <1> SUFFICES ASSUME ~closed' PROVE Count'
    BY <1>1
  <1>2. ~closed
    <2>1. Close => closed'
      BY DEF Close
    <2> QED
      BY <2>1 DEF Next, Client, SendFrame, SendEOF, ReceivePacket, Flush, InCall, GetNothing,
         GetDraining, GetFrame, ProcessFrame, OutputReady, OutputNothing, OutputRead, CloseFree,
         HwOutput, Callback, CallbackAfterEnd, CallbackCopy, CallbackPublish, CallbackIndexFirst,
         CallbackSlotLast, HwStop, Closed, vars, rest
  <1>3. /\ queue \in FifoType(Frames, NbBuffers)
        /\ timestamp_list \in FifoType(Frames, NbBuffers)
        /\ q \in Nat /\ h \in Nat /\ h <= Depth /\ output_ready = q /\ i \in {0, 1}
        /\ i = 1 => h >= 1
        /\ t <= q + h - i /\ q + h - i <= Depth + 1
        /\ pc \notin {"ready", "read"} => q + h - i <= Depth
        /\ pc = "read" => q >= 1
        /\ Depth + 1 <= NbBuffers /\ Depth + 2 < IdxMod
    BY <1>2, CountFacts
  \* The queues do not move, or the timestamps are forgotten.
  <1>4. CASE \/ SendFrame \/ SendEOF \/ ReceivePacket \/ GetNothing \/ GetDraining \/ GetFrame
             \/ OutputNothing \/ OutputReady \/ HwOutput \/ UNCHANGED vars \/ Flush
    <2>1. /\ UNCHANGED <<queue, hw>> /\ One(cb' = "indexed") = i
          /\ timestamp_list' = timestamp_list \/ timestamp_list' = av_fifo_reset(timestamp_list)
      <3>1. CASE \/ SendFrame \/ SendEOF \/ ReceivePacket \/ GetNothing \/ GetDraining \/ GetFrame
                 \/ OutputNothing \/ OutputReady \/ UNCHANGED vars \/ Flush
        BY <3>1 DEF SendFrame, SendEOF, ReceivePacket, GetNothing, GetDraining, GetFrame,
           OutputNothing, OutputReady, vars, Flush, queue
      <3>2. CASE HwOutput
        BY <3>2 DEF HwOutput, One, queue
      <3> QED
        BY <1>4, <3>1, <3>2
    <2>2. av_fifo_size(timestamp_list') = t \/ av_fifo_size(timestamp_list') = 0
      BY <2>1, <1>3, SizeCounts
    <2>3. /\ \/ q + h - i <= Depth
             \/ q + h - i <= Depth + 1 /\ pc' \in {"ready", "read"}
          /\ pc' = "read" => q >= 1
      <3>1. CASE OutputNothing
        <4>1. q = 0 /\ pc' = "idle"
          BY <1>3, <3>1 DEF OutputNothing, EncodeReturns
        <4> QED
          BY <1>3, <4>1
      <3>2. CASE OutputReady
        <4>1. q > 0 /\ pc' = "read"
          BY <1>3, <3>2 DEF OutputReady
        <4> QED
          BY <1>3, <4>1
      <3>3. CASE HwOutput \/ UNCHANGED vars
        <4>1. pc' = pc
          BY <3>3 DEF HwOutput, vars, call
        <4> QED
          BY <1>3, <4>1
      <3>4. CASE \/ SendFrame \/ SendEOF \/ ReceivePacket \/ GetNothing \/ GetDraining
                 \/ GetFrame \/ Flush
        <4>1. pc \in {"idle", "get"} /\ pc' # "read"
          BY <3>4 DEF SendFrame, SendEOF, ReceivePacket, GetNothing, GetDraining, GetFrame, Flush,
             SendRefused, SendAccepted, EncodeReturns, call
        <4> QED
          BY <1>3, <4>1
      <3> QED
        BY <1>4, <3>1, <3>2, <3>3, <3>4
    <2>4. 0 <= Depth + 1 /\ 0 <= q + h - i
      BY <1>3
    <2>5. CASE av_fifo_size(timestamp_list') = t
      BY <1>0, <1>3, <2>1, <2>3, <2>5, CountBy
    <2>6. CASE av_fifo_size(timestamp_list') = 0
      <3>1. PICK z \in Nat : z = 0
        BY <1>0
      <3>2. /\ av_fifo_size(timestamp_list') = z /\ z <= Depth + 1 /\ z <= q + h - i
            /\ av_fifo_size(queue') = q /\ Len(hw') = h
        BY <2>1, <2>4, <2>6, <3>1
      <3> QED
        BY <1>3, <2>1, <2>3, <3>2, CountBy
    <2> QED
      BY <2>2, <2>5, <2>6
  <1>5. CASE ProcessFrame
    <2>1. /\ pc = "process" /\ pc' = "ready" /\ UNCHANGED <<queue, cb>> /\ frame \in Frames
          /\ hw' = Append(hw, frame) /\ timestamp_list' = av_fifo_write(timestamp_list, frame)
      BY <1>5 DEF ProcessFrame, queue, Basics, CallState, FrameTypes
    <2>2. Len(hw') = h + 1
      BY <2>1, AppendProperties DEF Basics, FrameTypes
    <2>3. t + 1 < IdxMod /\ t + 1 <= Depth + 1
      BY <1>0, <1>3, <2>1
    <2>4. av_fifo_size(timestamp_list') = t + 1
      BY <1>3, <2>1, <2>3, SizeCounts
    <2>5. t + 1 <= q + (h + 1) - i /\ q + (h + 1) - i <= Depth + 1
      BY <1>0, <1>3, <2>1
    <2>6. t + 1 \in Nat /\ h + 1 \in Nat
      BY <1>0, <1>3
    <2> QED
      BY <1>3, <2>1, <2>2, <2>3, <2>4, <2>5, <2>6, CountBy
  <1>6. CASE OutputRead
    <2>1. /\ pc = "read" /\ pc' = "idle" /\ queue' = av_fifo_read(queue)
          /\ timestamp_list' = IF t > 0 THEN av_fifo_read(timestamp_list) ELSE timestamp_list
          /\ UNCHANGED <<hw, cb>>
      BY <1>6, PacketReturned
    <2>2. av_fifo_size(queue') = q - 1 /\ q - 1 \in Nat
      BY <1>3, <2>1, SizeCounts
    <2>3. CASE t > 0
      <3>1. av_fifo_size(timestamp_list') = t - 1 /\ t - 1 \in Nat
        BY <1>0, <1>3, <2>1, <2>3, SizeCounts
      <3>2. t - 1 <= Depth + 1 /\ t - 1 <= (q - 1) + h - i /\ (q - 1) + h - i <= Depth
        BY <1>0, <1>3
      <3> QED
        BY <1>3, <2>1, <2>2, <3>1, <3>2, CountBy
    <2>4. CASE t = 0
      <3>1. av_fifo_size(timestamp_list') = 0
        BY <2>1, <2>4
      <3>2. 0 <= Depth + 1 /\ 0 <= (q - 1) + h - i /\ (q - 1) + h - i <= Depth
        BY <1>3, <2>1
      <3> QED
        BY <1>0, <1>3, <2>1, <2>2, <3>1, <3>2, CountBy
    <2> QED
      BY <1>0, <2>3, <2>4
  <1>7. CASE CallbackCopy
    <2>1. /\ queue' = av_fifo_copy(queue, Head(hw)) /\ UNCHANGED <<pc, hw, timestamp_list>>
          /\ One(cb' = "indexed") = i
      BY <1>7 DEF CallbackCopy, queue, call, One
    <2>2. av_fifo_size(queue') = q
      BY <1>3, <2>1, SizeCounts
    <2> QED
      BY <1>0, <1>3, <2>1, <2>2, CountBy
  <1>8. CASE CallbackPublish
    <2>1. /\ queue' = av_fifo_publish(queue) /\ UNCHANGED <<pc, timestamp_list>>
          /\ hw' = Tail(hw) /\ hw # <<>> /\ i = 0 /\ One(cb' = "indexed") = 0
      BY <1>8 DEF CallbackPublish, CallbackDone, queue, call, One, Basics, CallbackState
    <2>2. Len(hw') = h - 1 /\ h >= 1
      BY <2>1, HeadTailProperties, EmptySeq DEF Basics, FrameTypes
    <2>3. q + 1 < IdxMod
      BY <1>3, <2>1, <2>2
    <2>4. av_fifo_size(queue') = q + 1
      BY <1>3, <2>1, <2>3, SizeCounts
    <2>5. /\ h - 1 \in Nat /\ q + 1 \in Nat /\ (q + 1) + (h - 1) - 0 = q + h - i /\ 0 \in {0, 1}
          /\ pc' = "read" => q + 1 >= 1
      BY <1>3, <2>1, <2>2
    <2> QED
      BY <1>0, <1>3, <2>1, <2>2, <2>4, <2>5, CountBy
  <1>9. CASE CallbackIndexFirst
    <2>1. /\ queue' = [queue EXCEPT !.wndx = Wrap(@ + 1, IdxMod)]
          /\ UNCHANGED <<pc, hw, timestamp_list>> /\ i = 0 /\ One(cb' = "indexed") = 1
          /\ hw # <<>>
      BY <1>9 DEF CallbackIndexFirst, queue, call, One, Basics, CallbackState
    <2>2. h >= 1
      BY <1>3, <2>1, EmptySeq DEF Basics, FrameTypes
    <2>3. q + 1 < IdxMod
      BY <1>3, <2>1, <2>2
    <2>4. av_fifo_size(queue') = q + 1
      BY <1>3, <2>1, <2>3, IndexedSizes
    <2>5. /\ q + 1 \in Nat /\ (q + 1) + h - 1 = q + h - i /\ 1 \in {0, 1}
          /\ pc' = "read" => q + 1 >= 1
      BY <1>3, <2>1
    <2>6. /\ t <= (q + 1) + h - 1
          /\ \/ (q + 1) + h - 1 <= Depth
             \/ (q + 1) + h - 1 <= Depth + 1 /\ pc' \in {"ready", "read"}
      BY <1>0, <1>3, <2>1, <2>5 DEF Basics, CallTypes
    <2>7. Len(hw') = h /\ av_fifo_size(timestamp_list') = t
      BY <2>1
    <2> QED
      BY <1>0, <1>3, <2>1, <2>4, <2>5, <2>6, <2>7, CountBy
  <1>10. CASE CallbackSlotLast
    <2>1. PICK f : f = av_fifo_copy(queue, Head(hw))
      OBVIOUS
    <2>2. /\ queue' = [f EXCEPT !.wptr = Wrap(@ + 1, NbBuffers)]
          /\ UNCHANGED <<pc, timestamp_list>> /\ i = 1 /\ One(cb' = "indexed") = 0
          /\ hw' = Tail(hw) /\ hw # <<>>
      BY <1>10, <2>1 DEF CallbackSlotLast, CallbackDone, queue, call, One, nb_buffers, Basics,
         CallbackState
    <2>3. Len(hw') = h - 1 /\ h >= 1 /\ Head(hw) \in Frames
      BY <2>2, HeadTailProperties, EmptySeq DEF Basics, FrameTypes
    <2>4. f \in FifoType(Frames, NbBuffers) /\ av_fifo_size(f) = q
      BY <1>3, <2>1, <2>3, OperationsKeepType, SizeCounts
    <2>5. av_fifo_size(queue') = q
      BY <2>2, <2>4, IndexedSizes
    <2>6. h - 1 \in Nat /\ q + (h - 1) - 0 = q + h - i /\ 0 \in {0, 1}
      BY <1>3, <2>2, <2>3
    <2>7. /\ t <= q + (h - 1) - 0
          /\ \/ q + (h - 1) - 0 <= Depth
             \/ q + (h - 1) - 0 <= Depth + 1 /\ pc' \in {"ready", "read"}
          /\ pc' = "read" => q >= 1
      BY <1>0, <1>3, <2>2, <2>6 DEF Basics, CallTypes
    <2>8. av_fifo_size(timestamp_list') = t
      BY <2>2
    <2> QED
      BY <1>0, <1>3, <2>2, <2>3, <2>5, <2>6, <2>7, <2>8, CountBy
  <1>11. CASE Close \/ CloseFree \/ HwStop \/ CallbackAfterEnd
    BY <1>2, <1>11 DEF Close, CloseFree, HwStop, CallbackAfterEnd, Basics, CallState
  <1> QED
    BY <1>4, <1>5, <1>6, <1>7, <1>8, <1>9, <1>10, <1>11
    DEF Next, Client, InCall, Callback, Closed

-----------------------------------------------------------------------------
(* Frames, packets and timestamps stay in step.                            *)

LEMMA ContentsAreFrames ==
  ASSUME NEW f, Ring(f, Frames, NbBuffers)
  PROVE  /\ Contents(f) \in Seq(Frames \cup {NoElem})
         /\ Len(Contents(f)) = av_fifo_size(f)
  <1> DEFINE n == av_fifo_size(f)
  <1>1. /\ f \in FifoType(Frames, NbBuffers) /\ n <= NbBuffers /\ n \in Nat
        /\ f.end = NbBuffers /\ f.rptr \in 0 .. NbBuffers - 1
        /\ f.buffer \in [0 .. NbBuffers - 1 -> Frames \cup {NoElem}]
    BY SizeType, RingFields DEF Ring, Coherent, FieldTypes
  <1> HIDE DEF n
  <1>2. ASSUME NEW i \in 1 .. n PROVE av_fifo_peek_at(f, i - 1) \in Frames \cup {NoElem}
    <2>1. Wrap(f.rptr + (i - 1), NbBuffers) \in 0 .. NbBuffers - 1
      BY <1>1 DEF Wrap
    <2> QED
      BY <1>1, <2>1 DEF av_fifo_peek_at
  <1>3. Contents(f) = [i \in 1 .. n |-> av_fifo_peek_at(f, i - 1)]
    BY DEF Contents, n
  <1>4. Contents(f) \in [1 .. n -> Frames \cup {NoElem}]
    BY <1>2, <1>3
  <1>5. Len(Contents(f)) = n
    BY <1>1, <1>3
  <1> QED
    BY <1>1, <1>4, <1>5 DEF n

LEMMA FromAppend ==
  ASSUME NEW S, NEW s \in Seq(S), NEW n \in Nat, From(s, n), NEW x \in S, x = n + Len(s) + 1
  PROVE  From(Append(s, x), n)
  <1>1. /\ Len(Append(s, x)) = Len(s) + 1 /\ Len(s) \in Nat
        /\ \A i \in 1 .. Len(s) : Append(s, x)[i] = s[i]
        /\ Append(s, x)[Len(s) + 1] = x
    BY AppendProperties, LenProperties
  <1>2. ASSUME NEW i \in 1 .. Len(s) + 1 PROVE Append(s, x)[i] = n + i
    <2>1. CASE i \in 1 .. Len(s)
      BY <1>1, <2>1 DEF From
    <2>2. CASE i = Len(s) + 1
      BY <1>1, <2>2
    <2> QED
      BY <1>1, <2>1, <2>2
  <1> QED
    BY <1>1, <1>2 DEF From

LEMMA FromTail ==
  ASSUME NEW S, NEW s \in Seq(S), s # <<>>, NEW n \in Nat, From(s, n)
  PROVE  From(Tail(s), n + 1) /\ Head(s) = n + 1
  <1>1. /\ Len(Tail(s)) = Len(s) - 1 /\ Len(s) \in Nat /\ Len(s) >= 1
        /\ \A i \in 1 .. Len(Tail(s)) : Tail(s)[i] = s[i + 1]
        /\ Head(s) = s[1]
    BY HeadTailProperties, EmptySeq, LenProperties
  <1>2. ASSUME NEW i \in 1 .. Len(s) - 1 PROVE Tail(s)[i] = (n + 1) + i
    BY <1>1 DEF From
  <1> QED
    BY <1>1, <1>2 DEF From

\* InLine without primes: o packets are out, q are in the ring and h in the session.
LEMMA InLineBy ==
  ASSUME NEW o \in Nat, NEW q \in Nat, NEW h \in Nat, Out' = o, output_ready' = q, Len(hw') = h,
         Coherent(timestamp_list'), Coherent(queue'),
         buffer_pkt' # None => buffer_pkt' = [frame |-> o, pts |-> o],
         From(Contents(queue'), o), From(hw', o + q), From(Contents(timestamp_list'), o),
         av_fifo_size(timestamp_list') = q + h,
         cb' = "copied" => queue'.buffer[queue'.wptr] = Head(hw'),
         frame' # None => frame' = o + q + h + 1,
         buffer_frame' # None => buffer_frame' = sent',
         sent' = o + q + h + One(frame' # None) + One(buffer_frame' # None)
  PROVE  InLine'
  BY DEF InLine

LEMMA ReceivedAppend ==
  ASSUME Basics, Received, NEW n \in Nat, n = Len(received) + 1, NEW p \in Packets,
         p = [frame |-> n, pts |-> n], received' = Append(received, p)
  PROVE  Received' /\ Len(received') = n
  <1>1. /\ Len(Append(received, p)) = Len(received) + 1 /\ Len(received) \in Nat
        /\ \A i \in 1 .. Len(received) : Append(received, p)[i] = received[i]
        /\ Append(received, p)[Len(received) + 1] = p
    BY AppendProperties, LenProperties DEF Basics, FrameTypes
  <1>2. ASSUME NEW i \in 1 .. Len(received) + 1
        PROVE  Append(received, p)[i] = [frame |-> i, pts |-> i]
    <2>1. CASE i \in 1 .. Len(received)
      BY <1>1, <2>1 DEF Received
    <2>2. CASE i = Len(received) + 1
      BY <1>1, <2>2
    <2> QED
      BY <1>1, <2>1, <2>2
  <1> QED
    BY <1>1, <1>2 DEF Received

\* What InLine says, with the numbers named.
LEMMA LineFacts ==
  ASSUME Basics, Count, InStep, WellSized, ~closed, ordered, flushes = 0,
         NEW o, o = Out, NEW q, q = output_ready, NEW h, h = Len(hw)
  PROVE  /\ o \in Nat /\ q \in Nat /\ h \in Nat /\ h <= Depth /\ Depth + 1 <= NbBuffers
         /\ NbBuffers < IdxMod
         /\ Ring(queue, Frames, NbBuffers) /\ Ring(timestamp_list, Frames, NbBuffers)
         /\ av_fifo_size(queue) = q /\ av_fifo_size(timestamp_list) = q + h
         /\ q + h <= Depth + 1
         /\ pc \notin {"ready", "read"} => q + h <= Depth
         /\ pc = "read" => q >= 1
         /\ cb # "indexed" /\ Received
         /\ Len(received) \in Nat /\ o = Len(received) + One(buffer_pkt # None)
         /\ buffer_pkt # None => buffer_pkt = [frame |-> o, pts |-> o]
         /\ From(Contents(queue), o) /\ From(hw, o + q) /\ From(Contents(timestamp_list), o)
         /\ cb = "copied" => queue.buffer[queue.wptr] = Head(hw)
         /\ frame # None => frame = o + q + h + 1
         /\ buffer_frame # None => buffer_frame = sent
         /\ sent = o + q + h + One(frame # None) + One(buffer_frame # None)
  <1>1. InLine /\ Received
    BY DEF InStep
  <1>2. cb # "indexed" /\ One(cb = "indexed") = 0
    BY DEF Basics, CallbackState, One
  <1>3. Len(received) \in Nat /\ One(buffer_pkt # None) \in Nat
    BY LenProperties DEF Basics, FrameTypes, One
  <1>4. o \in Nat /\ o = Len(received) + One(buffer_pkt # None)
    BY <1>3 DEF Out
  <1>5. /\ queue \in FifoType(Frames, NbBuffers)
        /\ timestamp_list \in FifoType(Frames, NbBuffers)
        /\ q \in Nat /\ av_fifo_size(queue) = q
        /\ h \in Nat /\ h <= Depth
        /\ q + h - 0 <= Depth + 1
        /\ pc \notin {"ready", "read"} => q + h - 0 <= Depth
        /\ pc = "read" => q >= 1
        /\ Depth + 1 <= NbBuffers
    BY <1>2, CountFacts
  <1>6. q + h - 0 = q + h /\ NbBuffers < IdxMod
    BY <1>5
  <1>7. Ring(queue, Frames, NbBuffers) /\ Ring(timestamp_list, Frames, NbBuffers)
    BY <1>1, <1>5 DEF Ring, InLine
  <1>8. /\ buffer_pkt # None => buffer_pkt = [frame |-> o, pts |-> o]
        /\ From(Contents(queue), o) /\ From(hw, o + q) /\ From(Contents(timestamp_list), o)
        /\ av_fifo_size(timestamp_list) = q + h
        /\ cb = "copied" => queue.buffer[queue.wptr] = Head(hw)
        /\ frame # None => frame = o + q + h + 1
        /\ buffer_frame # None => buffer_frame = sent
        /\ sent = o + q + h + One(frame # None) + One(buffer_frame # None)
    BY <1>1 DEF InLine
  <1> QED
    BY <1>1, <1>2, <1>3, <1>4, <1>5, <1>6, <1>7, <1>8

LEMMA InStepNext == ASSUME Basics, Count, InStep, WellSized, [Next]_vars PROVE InStep'
  <1> SUFFICES ASSUME ordered', flushes' = 0 PROVE Received' /\ (~closed' => InLine')
    BY DEF InStep
  <1>1. ordered /\ flushes = 0 /\ ~Flush
    <2>1. ~Flush
      <3>1. flushes \in Nat
        BY DEF Basics, CallTypes
      <3>2. flushes + 1 # 0
        BY <3>1
      <3> QED
        BY <3>2 DEF Flush
    <2> QED
      BY <2>1 DEF Next, Client, SendFrame, SendEOF, ReceivePacket, Close, InCall, GetNothing,
         GetDraining, GetFrame, ProcessFrame, OutputReady, OutputNothing, OutputRead, CloseFree,
         HwOutput, Callback, CallbackAfterEnd, CallbackCopy, CallbackPublish, CallbackIndexFirst,
         CallbackSlotLast, HwStop, Closed, vars, rest, past
  <1>2. Received
    BY <1>1 DEF InStep
  \* An encoder that is closed, or is being closed.
  <1>3. CASE closed'
    <2>1. closed \/ Close
      BY <1>3 DEF Next, Client, SendFrame, SendEOF, ReceivePacket, Flush, InCall, GetNothing,
         GetDraining, GetFrame, ProcessFrame, OutputReady, OutputNothing, OutputRead, CloseFree,
         HwOutput, Callback, CallbackAfterEnd, CallbackCopy, CallbackPublish, CallbackIndexFirst,
         CallbackSlotLast, HwStop, Closed, vars, rest
    <2>2. closed => pc \in {"close_free", "close_destroy", "closed"}
      BY DEF Basics, CallState
    <2>3. received' = received
      BY <2>1, <2>2 DEF Next, Client, SendFrame, SendEOF, ReceivePacket, Flush, Close, InCall,
         GetNothing, GetDraining, GetFrame, ProcessFrame, OutputReady, OutputNothing,
         OutputRead, CloseFree, HwOutput, Callback, CallbackAfterEnd, CallbackCopy,
         CallbackPublish, CallbackIndexFirst, CallbackSlotLast, HwStop, Closed, vars, seen
    <2> QED
      BY <1>2, <1>3, <2>3 DEF Received
  <1> SUFFICES ASSUME ~closed' PROVE Received' /\ InLine'
    BY <1>3
  <1>4. ~closed
    <2>1. Close => closed'
      BY DEF Close
    <2> QED
      BY <2>1 DEF Next, Client, SendFrame, SendEOF, ReceivePacket, Flush, InCall, GetNothing,
         GetDraining, GetFrame, ProcessFrame, OutputReady, OutputNothing, OutputRead, CloseFree,
         HwOutput, Callback, CallbackAfterEnd, CallbackCopy, CallbackPublish, CallbackIndexFirst,
         CallbackSlotLast, HwStop, Closed, vars, rest
  <1>5. PICK o, q, h : o = Out /\ q = output_ready /\ h = Len(hw)
    OBVIOUS
  <1>6. /\ o \in Nat /\ q \in Nat /\ h \in Nat /\ h <= Depth /\ Depth + 1 <= NbBuffers
        /\ NbBuffers < IdxMod
        /\ Ring(queue, Frames, NbBuffers) /\ Ring(timestamp_list, Frames, NbBuffers)
        /\ av_fifo_size(queue) = q /\ av_fifo_size(timestamp_list) = q + h
        /\ q + h <= Depth + 1
        /\ pc \notin {"ready", "read"} => q + h <= Depth
        /\ pc = "read" => q >= 1
        /\ cb # "indexed"
    BY <1>1, <1>4, <1>5, LineFacts
  <1>7. /\ Len(received) \in Nat /\ o = Len(received) + One(buffer_pkt # None)
        /\ buffer_pkt # None => buffer_pkt = [frame |-> o, pts |-> o]
        /\ From(Contents(queue), o) /\ From(hw, o + q) /\ From(Contents(timestamp_list), o)
        /\ cb = "copied" => queue.buffer[queue.wptr] = Head(hw)
        /\ frame # None => frame = o + q + h + 1
        /\ buffer_frame # None => buffer_frame = sent
        /\ sent = o + q + h + One(frame # None) + One(buffer_frame # None)
    BY <1>1, <1>4, <1>5, LineFacts
  <1>8. Coherent(queue) /\ Coherent(timestamp_list)
    BY <1>6 DEF Ring
  <1>9. hw \in Seq(Frames)
    BY DEF Basics, FrameTypes
  \* Nothing of InLine moves.
  <1>10. CASE \/ SendEOF \/ GetNothing \/ GetDraining \/ OutputReady \/ OutputNothing \/ HwOutput
              \/ UNCHANGED vars
    <2>1. /\ UNCHANGED <<queue, hw, timestamp_list, frame, buffer_frame, buffer_pkt, received, sent>>
          /\ cb' = "copied" => cb = "copied"
      <3>1. CASE GetNothing \/ OutputNothing
        BY <3>1, NothingReturned DEF queue, rest, past
      <3>2. CASE SendEOF \/ GetDraining \/ OutputReady \/ HwOutput \/ UNCHANGED vars
        BY <3>2 DEF SendEOF, GetDraining, OutputReady, HwOutput, vars, queue, call, avci, seen,
           rest, past
      <3> QED
        BY <1>10, <3>1, <3>2
    <2>2. Out' = o /\ output_ready' = q /\ Len(hw') = h
      BY <1>5, <2>1 DEF Out, output_ready, queue
    <2>3. Received'
      BY <1>2, <2>1 DEF Received
    <2>4. InLine'
      BY <1>6, <1>7, <1>8, <2>1, <2>2, InLineBy
    <2> QED
      BY <2>3, <2>4
  <1>11. CASE SendFrame
    <2>1. /\ UNCHANGED <<queue, hw, timestamp_list, frame, buffer_pkt, received, cb>>
          /\ pc = "idle"
          /\ \/ UNCHANGED <<buffer_frame, sent>>
             \/ buffer_frame = None /\ buffer_frame' = sent + 1 /\ sent' = sent + 1
      BY <1>11 DEF SendFrame, queue
    <2>2. frame = None
      BY <2>1 DEF Basics, CallState
    <2>3. Out' = o /\ output_ready' = q /\ Len(hw') = h
      BY <1>5, <2>1 DEF Out, output_ready, queue
    <2>4. Received'
      BY <1>2, <2>1 DEF Received
    <2>5. CASE UNCHANGED <<buffer_frame, sent>>
      <3>1. InLine'
        BY <1>6, <1>7, <1>8, <2>1, <2>3, <2>5, InLineBy
      <3> QED
        BY <2>4, <3>1
    <2>6. CASE buffer_frame = None /\ buffer_frame' = sent + 1 /\ sent' = sent + 1
      <3>1. sent = o + q + h
        BY <1>6, <1>7, <2>2, <2>6 DEF One
      <3>2. sent + 1 # None
        BY <1>6, <3>1
      <3>3. One(buffer_frame' # None) = 1 /\ One(frame' # None) = 0
        BY <2>1, <2>2, <2>6, <3>2 DEF One
      <3>4. sent' = o + q + h + One(frame' # None) + One(buffer_frame' # None)
        BY <1>6, <2>6, <3>1, <3>3
      <3>5. InLine'
        BY SMTT(30), <1>6, <1>7, <1>8, <2>1, <2>3, <2>6, <3>4, InLineBy
      <3> QED
        BY <2>4, <3>5
    <2> QED
      BY <2>1, <2>5, <2>6
  <1>12. CASE ReceivePacket
    <2>1. /\ UNCHANGED <<queue, hw, timestamp_list, frame, buffer_frame, sent, cb>>
          /\ \/ UNCHANGED <<buffer_pkt, received>>
             \/ /\ buffer_pkt # None /\ buffer_pkt' = None
                /\ received' = Append(received, buffer_pkt)
      BY <1>12 DEF ReceivePacket, queue, rest, past, seen
    <2>2. output_ready' = q /\ Len(hw') = h
      BY <1>5, <2>1 DEF output_ready, queue
    <2>3. Out' = o /\ Received'
      <3>1. CASE UNCHANGED <<buffer_pkt, received>>
        BY <1>2, <1>5, <3>1 DEF Out, Received
      <3>2. CASE /\ buffer_pkt # None /\ buffer_pkt' = None
                 /\ received' = Append(received, buffer_pkt)
        <4>1. o = Len(received) + 1
          BY <1>7, <3>2 DEF One
        <4>2. buffer_pkt \in Packets /\ buffer_pkt = [frame |-> o, pts |-> o]
          BY <1>7, <3>2 DEF Basics, FrameTypes
        <4>3. Received' /\ Len(received') = o
          BY <1>2, <1>6, <3>2, <4>1, <4>2, ReceivedAppend
        <4>4. Out' = o
          BY <1>6, <3>2, <4>3 DEF Out, One
        <4> QED
          BY <4>3, <4>4
      <3> QED
        BY <2>1, <3>1, <3>2
    <2>4. buffer_pkt' # None => buffer_pkt' = [frame |-> o, pts |-> o]
      BY <1>7, <2>1
    <2>5. InLine'
      BY <1>6, <1>7, <1>8, <2>1, <2>2, <2>3, <2>4, InLineBy
    <2> QED
      BY <2>3, <2>5
  <1>13. CASE GetFrame
    <2>1. /\ UNCHANGED <<queue, hw, timestamp_list, buffer_pkt, received, sent, cb>>
          /\ pc = "get" /\ buffer_frame # None /\ frame' = buffer_frame /\ buffer_frame' = None
      BY <1>13 DEF GetFrame, queue, rest, past, seen
    <2>2. frame = None
      BY <2>1 DEF Basics, CallState
    <2>3. Out' = o /\ output_ready' = q /\ Len(hw') = h
      BY <1>5, <2>1 DEF Out, output_ready, queue
    <2>4. Received'
      BY <1>2, <2>1 DEF Received
    <2>5. sent = o + q + h + 1
      BY <1>6, <1>7, <2>1, <2>2 DEF One
    <2>6. One(buffer_frame' # None) = 0 /\ One(frame' # None) = 1
      BY <2>1 DEF One
    <2>7. /\ sent' = o + q + h + One(frame' # None) + One(buffer_frame' # None)
          /\ frame' # None => frame' = o + q + h + 1
      BY <1>6, <1>7, <2>1, <2>5, <2>6
    <2>8. InLine'
      BY <1>6, <1>7, <1>8, <2>1, <2>3, <2>7, InLineBy
    <2> QED
      BY <2>4, <2>8
  <1>14. CASE ProcessFrame
    <2>1. /\ UNCHANGED <<queue, buffer_pkt, buffer_frame, received, sent, cb>>
          /\ pc = "process" /\ hw' = Append(hw, frame) /\ frame' = None
          /\ timestamp_list' = av_fifo_write(timestamp_list, frame)
      BY <1>14 DEF ProcessFrame, queue, avci, seen, rest, past
    <2>2. PICK x \in Frames : x = frame
      BY <2>1 DEF Basics, CallState, FrameTypes
    <2>3. x = o + q + h + 1 /\ frame # None
      BY <1>7, <2>1, <2>2 DEF Basics, CallState
    <2>4. Out' = o /\ output_ready' = q
      BY <1>5, <2>1 DEF Out, output_ready, queue
    <2>5. Received'
      BY <1>2, <2>1 DEF Received
    <2>6. Len(hw') = h + 1 /\ h + 1 \in Nat
      BY <1>5, <1>6, <1>9, <2>1, <2>2, AppendProperties
    <2>7. From(hw', o + q)
      <3>1. o + q \in Nat /\ x = (o + q) + Len(hw) + 1
        BY <1>5, <1>6, <2>3
      <3> QED
        BY <1>7, <1>9, <2>1, <2>2, <3>1, FromAppend
    <2>8. av_fifo_space(timestamp_list) >= 1
      <3>1. av_fifo_space(timestamp_list) = NbBuffers - (q + h)
        BY <1>6, SizeType DEF Ring
      <3> QED
        BY <1>6, <2>1, <3>1
    <2>9. /\ Ring(timestamp_list', Frames, NbBuffers)
          /\ av_fifo_size(timestamp_list') = q + h + 1
          /\ Contents(timestamp_list') = Append(Contents(timestamp_list), x)
      <3>1. PICK g : g = av_fifo_write(timestamp_list, x)
        OBVIOUS
      <3>2. /\ Ring(g, Frames, NbBuffers) /\ av_fifo_size(g) = av_fifo_size(timestamp_list) + 1
            /\ Contents(g) = Extended(timestamp_list, x)
        BY <1>6, <2>8, <3>1, WriteExtends
      <3>3. timestamp_list' = g
        BY <2>1, <2>2, <3>1
      <3> QED
        BY <1>6, <3>2, <3>3 DEF Extended
    <2>10. From(Contents(timestamp_list'), o)
      <3>1. /\ Contents(timestamp_list) \in Seq(Frames \cup {NoElem})
            /\ x = o + Len(Contents(timestamp_list)) + 1
        BY <1>6, <2>3, ContentsAreFrames
      <3> QED
        BY SMTT(30), <1>6, <1>7, <2>9, <3>1, FromAppend
    <2>11. cb' = "copied" => queue'.buffer[queue'.wptr] = Head(hw')
      <3>1. cb = "copied" => Head(Append(hw, x)) = Head(hw)
        <4>1. cb = "copied" => Len(hw) \in Nat /\ Len(hw) >= 1
          BY <1>5, <1>6, <1>9, EmptySeq DEF Basics, CallbackState
        <4> QED
          BY <1>9, <4>1, AppendProperties, HeadTailProperties
      <3> QED
        BY <1>7, <2>1, <2>2, <3>1
    <2>12. /\ av_fifo_size(timestamp_list') = q + (h + 1) /\ Coherent(timestamp_list')
           /\ sent' = o + q + (h + 1) + One(frame' # None) + One(buffer_frame' # None)
      <3>1. One(frame # None) = 1 /\ One(frame' # None) = 0
        BY <2>1, <2>3 DEF One
      <3>2. One(buffer_frame # None) \in Nat
        BY DEF One
      <3>3. sent = o + q + h + 1 + One(buffer_frame # None)
        BY <1>7, <3>1
      <3>4. sent = o + q + (h + 1) + 0 + One(buffer_frame # None)
        BY <1>6, <3>2, <3>3
      <3> QED
        BY <1>6, <2>1, <2>9, <3>1, <3>4 DEF Ring
    <2>13. InLine'
      <3>1. /\ Coherent(queue') /\ From(Contents(queue'), o)
            /\ buffer_pkt' # None => buffer_pkt' = [frame |-> o, pts |-> o]
            /\ frame' # None => frame' = o + q + (h + 1) + 1
            /\ buffer_frame' # None => buffer_frame' = sent'
        BY <1>7, <1>8, <2>1
      <3> QED
        BY <1>6, <2>4, <2>6, <2>7, <2>10, <2>11, <2>12, <3>1, InLineBy
    <2> QED
      BY <2>5, <2>13
  <1>15. CASE OutputRead
    <2>1. /\ pc = "read" /\ buffer_pkt = None /\ queue' = av_fifo_read(queue)
          /\ TheRead \in Packets
          /\ \/ buffer_pkt' = TheRead /\ received' = received
             \/ buffer_pkt' = None /\ received' = Append(received, TheRead)
          /\ timestamp_list' = IF av_fifo_size(timestamp_list) > 0
                               THEN av_fifo_read(timestamp_list) ELSE timestamp_list
          /\ UNCHANGED <<frame, buffer_frame, sent, hw, cb>>
      BY <1>15, PacketReturned DEF rest, past
    <2>2. q >= 1 /\ q + h >= 1
      BY <1>6, <2>1
    <2>3. timestamp_list' = av_fifo_read(timestamp_list)
      BY <1>6, <2>1, <2>2
    <2>4. ASSUME NEW f, Ring(f, Frames, NbBuffers), av_fifo_size(f) >= 1, From(Contents(f), o)
          PROVE  /\ Coherent(av_fifo_read(f)) /\ av_fifo_peek(f) = o + 1
                 /\ av_fifo_size(av_fifo_read(f)) = av_fifo_size(f) - 1
                 /\ From(Contents(av_fifo_read(f)), o + 1)
      <3>1. /\ Ring(av_fifo_read(f), Frames, NbBuffers)
            /\ av_fifo_size(av_fifo_read(f)) = av_fifo_size(f) - 1
            /\ Contents(f) # <<>> /\ Head(Contents(f)) = av_fifo_peek(f)
            /\ Contents(av_fifo_read(f)) = Tail(Contents(f))
        BY <1>6, <2>4, ReadTakesHead
      <3>2. Contents(f) \in Seq(Frames \cup {NoElem})
        BY <2>4, ContentsAreFrames
      <3>3. From(Tail(Contents(f)), o + 1) /\ Head(Contents(f)) = o + 1
        BY <1>6, <2>4, <3>1, <3>2, FromTail
      <3> QED
        BY <3>1, <3>3 DEF Ring
    <2>5. /\ Coherent(queue') /\ av_fifo_peek(queue) = o + 1 /\ av_fifo_size(queue') = q - 1
          /\ From(Contents(queue'), o + 1)
      BY <1>6, <1>7, <2>1, <2>2, <2>4
    <2>6. /\ Coherent(timestamp_list') /\ av_fifo_peek(timestamp_list) = o + 1
          /\ av_fifo_size(timestamp_list') = (q + h) - 1
          /\ From(Contents(timestamp_list'), o + 1)
      BY <1>6, <1>7, <2>2, <2>3, <2>4
    <2>7. PICK n \in Nat : n = o + 1
      BY <1>6
    <2>8. PICK r \in Nat : r = q - 1
      BY <1>6, <2>2
    <2>9. TheRead = [frame |-> n, pts |-> n]
      BY <1>6, <2>2, <2>5, <2>6, <2>7 DEF TheRead, Timestamp
    <2>10. PICK p \in Packets : p = TheRead
      BY <2>1
    <2>11. o = Len(received)
      BY <1>7, <2>1 DEF One
    <2>12. /\ Out' = n /\ Received'
           /\ buffer_pkt' # None => buffer_pkt' = [frame |-> n, pts |-> n]
      <3>1. CASE buffer_pkt' = TheRead /\ received' = received
        <4>1. TheRead # None
          BY <2>1
        <4> QED
          BY <1>2, <1>6, <2>7, <2>9, <2>11, <3>1, <4>1 DEF Out, One, Received
      <3>2. CASE buffer_pkt' = None /\ received' = Append(received, TheRead)
        <4>1. Received' /\ Len(received') = n
          BY <1>2, <2>7, <2>9, <2>10, <2>11, <3>2, ReceivedAppend
        <4> QED
          BY <2>7, <3>2, <4>1 DEF Out, One
      <3> QED
        BY <2>1, <3>1, <3>2
    <2>13. output_ready' = r /\ Len(hw') = h
      BY <1>5, <2>1, <2>5, <2>8 DEF output_ready, queue
    <2>14. From(hw', n + r)
      <3>1. n + r = o + q
        BY <1>6, <2>7, <2>8
      <3> QED
        BY <1>7, <2>1, <3>1
    <2>15. cb' = "copied" => queue'.buffer[queue'.wptr] = Head(hw')
      <3>1. av_fifo_read(queue).buffer = queue.buffer /\ av_fifo_read(queue).wptr = queue.wptr
        BY <1>6 DEF Ring, FifoType, av_fifo_read, av_fifo_drain
      <3> QED
        BY <1>7, <2>1, <3>1
    <2>16. /\ av_fifo_size(timestamp_list') = r + h
           /\ frame' # None => frame' = n + r + h + 1
           /\ sent' = n + r + h + One(frame' # None) + One(buffer_frame' # None)
      <3>1. r + h = (q + h) - 1 /\ n + r + h = o + q + h /\ n + r + h + 1 = o + q + h + 1
        BY <1>6, <2>7, <2>8
      <3> QED
        BY <1>7, <2>1, <2>6, <3>1
    <2>17. InLine'
      <3>1. /\ From(Contents(queue'), n) /\ From(Contents(timestamp_list'), n)
            /\ buffer_frame' # None => buffer_frame' = sent'
        BY <1>7, <2>1, <2>5, <2>6, <2>7
      <3> QED
        BY <1>6, <2>5, <2>6, <2>7, <2>8, <2>12, <2>13, <2>14, <2>15, <2>16, <3>1, InLineBy
    <2> QED
      BY <2>12, <2>17
  <1>16. CASE CallbackCopy
    <2>1. /\ UNCHANGED <<timestamp_list, frame, buffer_frame, buffer_pkt, received, sent, hw>>
          /\ queue' = av_fifo_copy(queue, Head(hw)) /\ cb = "called"
      BY <1>16 DEF CallbackCopy, queue, call, avci, seen, rest, past
    <2>2. hw # <<>>
      BY <2>1 DEF Basics, CallbackState
    <2>3. PICK x \in Frames : x = Head(hw)
      BY <1>9, <2>2, HeadTailProperties
    <2>4. h >= 1
      BY <1>5, <1>6, <1>9, <2>2, EmptySeq
    <2>5. av_fifo_space(queue) >= 1
      <3>1. av_fifo_space(queue) = NbBuffers - q
        BY <1>6, SizeType DEF Ring
      <3> QED
        BY <1>6, <2>4, <3>1
    <2>6. /\ Ring(queue', Frames, NbBuffers) /\ Contents(queue') = Contents(queue)
          /\ queue'.buffer[queue'.wptr] = x
      BY <1>6, <2>1, <2>3, <2>5, CopyUnseen
    <2>7. av_fifo_size(queue') = q
      BY <1>6, <2>1, SizeCounts DEF Ring
    <2>8. Out' = o /\ output_ready' = q /\ Len(hw') = h
      BY <1>5, <2>1, <2>7 DEF Out, output_ready, queue
    <2>9. Received'
      BY <1>2, <2>1 DEF Received
    <2>10. Coherent(queue') /\ queue'.buffer[queue'.wptr] = Head(hw')
      BY <2>1, <2>3, <2>6 DEF Ring
    <2>11. InLine'
      BY SMTT(30), <1>6, <1>7, <1>8, <2>1, <2>6, <2>8, <2>10, InLineBy
    <2> QED
      BY <2>9, <2>11
  <1>17. CASE CallbackPublish
    <2>1. /\ UNCHANGED <<timestamp_list, frame, buffer_frame, buffer_pkt, received, sent>>
          /\ queue' = av_fifo_publish(queue) /\ cb = "copied" /\ cb' = "none" /\ hw' = Tail(hw)
      BY <1>17 DEF CallbackPublish, CallbackDone, queue, call, avci, seen, rest, past
    <2>2. hw # <<>>
      BY <2>1 DEF Basics, CallbackState
    <2>3. PICK x \in Frames : x = Head(hw)
      BY <1>9, <2>2, HeadTailProperties
    <2>4. h >= 1 /\ Len(hw') = h - 1
      BY <1>5, <1>6, <1>9, <2>1, <2>2, EmptySeq, HeadTailProperties
    <2>5. x = o + q + 1 /\ From(hw', o + q + 1)
      <3>1. o + q \in Nat
        BY <1>6
      <3> QED
        BY <1>7, <1>9, <2>1, <2>2, <2>3, <3>1, FromTail
    <2>6. av_fifo_space(queue) >= 1
      <3>1. av_fifo_space(queue) = NbBuffers - q
        BY <1>6, SizeType DEF Ring
      <3> QED
        BY <1>6, <2>4, <3>1
    <2>7. queue' = av_fifo_write(queue, x)
      BY <1>6, <1>7, <2>1, <2>3, PublishWrites DEF Ring
    <2>8. /\ Ring(queue', Frames, NbBuffers) /\ av_fifo_size(queue') = q + 1
          /\ Contents(queue') = Append(Contents(queue), x)
      <3>1. PICK g : g = av_fifo_write(queue, x)
        OBVIOUS
      <3>2. /\ Ring(g, Frames, NbBuffers) /\ av_fifo_size(g) = av_fifo_size(queue) + 1
            /\ Contents(g) = Extended(queue, x)
        BY <1>6, <2>6, <3>1, WriteExtends
      <3>3. queue' = g
        BY <2>7, <3>1
      <3> QED
        BY <1>6, <3>2, <3>3 DEF Extended
    <2>9. From(Contents(queue'), o)
      <3>1. /\ Contents(queue) \in Seq(Frames \cup {NoElem})
            /\ x = o + Len(Contents(queue)) + 1
        BY <1>6, <2>5, ContentsAreFrames
      <3> QED
        BY SMTT(30), <1>6, <1>7, <2>8, <3>1, FromAppend
    <2>10. PICK n \in Nat : n = q + 1
      BY <1>6
    <2>11. PICK m \in Nat : m = h - 1
      BY <1>6, <2>4
    <2>12. Out' = o /\ output_ready' = n /\ Len(hw') = m /\ Coherent(queue')
      BY <1>5, <2>1, <2>4, <2>8, <2>10, <2>11 DEF Out, output_ready, queue, Ring
    <2>13. Received'
      BY <1>2, <2>1 DEF Received
    <2>14. /\ From(hw', o + n) /\ av_fifo_size(timestamp_list') = n + m
           /\ frame' # None => frame' = o + n + m + 1
           /\ sent' = o + n + m + One(frame' # None) + One(buffer_frame' # None)
      <3>1. /\ o + n = o + q + 1 /\ n + m = q + h /\ o + n + m = o + q + h
            /\ o + n + m + 1 = o + q + h + 1
        BY <1>6, <2>10, <2>11
      <3> QED
        BY <1>6, <1>7, <2>1, <2>5, <3>1
    <2>15. InLine'
      <3>1. /\ Coherent(timestamp_list') /\ From(Contents(timestamp_list'), o)
            /\ buffer_pkt' # None => buffer_pkt' = [frame |-> o, pts |-> o]
            /\ buffer_frame' # None => buffer_frame' = sent'
            /\ cb' = "copied" => queue'.buffer[queue'.wptr] = Head(hw')
        BY <1>7, <1>8, <2>1
      <3> QED
        BY <1>6, <2>9, <2>10, <2>11, <2>12, <2>14, <3>1, InLineBy
    <2> QED
      BY <2>13, <2>15
  <1>18. CASE \/ Close \/ CloseFree \/ HwStop \/ CallbackAfterEnd \/ CallbackIndexFirst
              \/ CallbackSlotLast
    BY <1>1, <1>4, <1>6, <1>18 DEF Close, CloseFree, HwStop, CallbackAfterEnd,
       CallbackIndexFirst, CallbackSlotLast, Basics, CallState
  <1> QED
    BY <1>1, <1>10, <1>11, <1>12, <1>13, <1>14, <1>15, <1>16, <1>17, <1>18
    DEF Next, Client, InCall, Callback, Closed

-----------------------------------------------------------------------------
LEMMA InitIInv == Init => IInv
  <1> SUFFICES ASSUME Init PROVE IInv
    OBVIOUS
  <1>1. Basics
    BY InitBasics
  <1>2. /\ timestamp_list = av_fifo_alloc(NbBuffers) /\ queue = av_fifo_alloc(NbBuffers)
        /\ output_ready = av_fifo_size(queue)
        /\ hw = <<>> /\ received = <<>> /\ cb = "none" /\ pc = "idle" /\ sent = 0 /\ closed = FALSE
        /\ frame = None /\ buffer_frame = None /\ buffer_pkt = None
    BY DEF Init, queue, nb_buffers, output_ready
  <1>3. /\ Coherent(queue) /\ av_fifo_size(queue) = 0 /\ Contents(queue) = <<>>
        /\ Coherent(timestamp_list) /\ av_fifo_size(timestamp_list) = 0
        /\ Contents(timestamp_list) = <<>>
    BY <1>2, AllocEmpty DEF Ring
  <1>4. Len(<<>>) = 0 /\ \A n : From(<<>>, n)
    BY DEF From
  <1>5. Count
    BY <1>2, <1>3, <1>4 DEF Count, Total, One
  <1>6. Out = 0
    BY <1>2, <1>4 DEF Out, One
  <1>7. InStep
    <2>1. Received
      BY <1>2, <1>4 DEF Received
    <2>2. sent = Out + output_ready + Len(hw) + One(frame # None) + One(buffer_frame # None)
      BY <1>2, <1>3, <1>4, <1>6 DEF One
    <2>3. av_fifo_size(timestamp_list) = output_ready + Len(hw)
      BY <1>2, <1>3, <1>4
    <2>4. InLine
      BY <1>2, <1>3, <1>4, <2>2, <2>3 DEF InLine
    <2> QED
      BY <2>1, <2>4 DEF InStep
  <1> QED
    BY <1>1, <1>5, <1>7 DEF IInv

LEMMA NextIInv == IInv /\ [Next]_vars => IInv'
  <1> SUFFICES ASSUME IInv, [Next]_vars PROVE IInv'
    OBVIOUS
  <1>1. Basics'
    BY NextBasics DEF IInv
  <1>2. WellSized => Count' /\ InStep'
    BY CountNext, InStepNext DEF IInv
  <1> QED
    BY <1>1, <1>2 DEF IInv, WellSized

\* The caller, the callback and the session of tfenc.c keep the inductive invariant.
THEOREM Invariance == Spec => []IInv
  BY InitIInv, NextIInv, PTL DEF Spec

\* The state of the encoder and of the session keeps its types, whatever the
\* session's depth: a ring that is overrun is still a ring (tfenc.c:101, :319).
THEOREM TypeCorrect == Spec => []TypeOK
  BY Invariance, Types, PTL

\* ff_tf_enc_close waits for the mutex before it frees the queue (tfenc.c:211, :221), so
\* that a callback never writes to a queue that is gone.
THEOREM QueueStaysAlive == Spec => []QueueAlive
  <1>1. IInv => QueueAlive
    BY DEF IInv, Basics, CallbackState, RingTypes, QueueAlive, queue
  <1> QED
    BY Invariance, <1>1, PTL

\* Nobody looks at the free space of the two rings (tfenc.c:94, :101, :319), and
\* nobody has to while the session takes fewer frames than a ring has slots.
THEOREM RingsSuffice == Spec => [](Depth < NbBuffers => NoOverrun)
  <1>1. IInv => (Depth < NbBuffers => NoOverrun)
    <2> SUFFICES ASSUME IInv, Depth < NbBuffers PROVE NoOverrun
      OBVIOUS
    <2>1. Basics /\ Count /\ WellSized
      BY DEF IInv, WellSized
    <2>2. av_fifo_size(timestamp_list) <= NbBuffers
      <3>1. av_fifo_size(timestamp_list) \in Nat /\ av_fifo_size(timestamp_list) <= Depth + 1
        BY <2>1, SizeType DEF Count, Basics, RingTypes
      <3> QED
        BY <3>1
    <2>3. ASSUME ~closed PROVE output_ready <= NbBuffers
      <3>1. /\ output_ready \in Nat /\ Len(hw) \in Nat
            /\ One(cb = "indexed") \in {0, 1}
            /\ One(cb = "indexed") = 1 => Len(hw) >= 1
            /\ output_ready + Len(hw) - One(cb = "indexed") <= Depth + 1
        BY <2>1, <2>3, CountFacts
      <3> QED
        BY <3>1
    <2> QED
      BY <2>2, <2>3 DEF NoOverrun, nb_buffers
  <1> QED
    BY Invariance, <1>1, PTL

\* The packets come out in the order of their frames, none missing, each with the
\* timestamp of its frame, although frames and timestamps travel through two rings
\* and the session, and the reader takes no mutex (tfenc.c:365, :456).
THEOREM StaysInStep == Spec => [](Depth < NbBuffers => PacketsInStep)
  <1>1. IInv => (Depth < NbBuffers => PacketsInStep)
    BY DEF IInv, WellSized, InStep, Received, PacketsInStep
  <1> QED
    BY Invariance, <1>1, PTL
=============================================================================
