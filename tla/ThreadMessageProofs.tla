------------------------ MODULE ThreadMessageProofs ------------------------
(***************************************************************************)
(* ThreadMessage for any number of threads, any queue length, any width of *)
(* the ring's indices: the ring stays coherent, no wakeup is lost, and the *)
(* queue implements the bounded queue of MessageQueue.                     *)
(***************************************************************************)
EXTENDS ThreadMessage, FiniteSetTheorems, TLAPS

-----------------------------------------------------------------------------
(* What the operations of libavutil/fifo.c do to the elements the ring     *)
(* holds, for every ring size and every width of the indices.              *)

\* A ring as it may occur between two operations.
Ring(f, Elem, cap) == f \in FifoType(Elem, cap) /\ Coherent(f)

\* The type of a ring, field by field.
FieldTypes(f, Elem, cap) ==
  /\ f.buffer \in [0 .. cap - 1 -> Elem \cup {NoElem}]
  /\ f.end = cap
  /\ f.rptr \in 0 .. cap - 1 /\ f.wptr \in 0 .. cap - 1
  /\ f.rndx \in 0 .. IdxMod - 1 /\ f.wndx \in 0 .. IdxMod - 1

\* Linear facts about the ring: the size is a number of slots.
LEMMA SizeType ==
  ASSUME NEW Elem, NEW cap \in Nat \ {0}, NEW f \in FifoType(Elem, cap)
  PROVE  /\ av_fifo_size(f) \in Nat
         /\ av_fifo_space(f) = cap - av_fifo_size(f)
  BY IdxModAssumption DEF FifoType, av_fifo_size, av_fifo_space

LEMMA RingFields ==
  ASSUME NEW Elem, NEW cap, NEW f \in FifoType(Elem, cap)
  PROVE  FieldTypes(f, Elem, cap)
  BY DEF FifoType, FieldTypes

\* The contents are a sequence as long as the size says.
LEMMA ContentsLength ==
  ASSUME NEW f, av_fifo_size(f) \in Nat
  PROVE  /\ Len(Contents(f)) = av_fifo_size(f)
         /\ Contents(f) = <<>> <=> av_fifo_size(f) = 0
  <1> DEFINE n == av_fifo_size(f)
  <1>1. Contents(f) = [i \in 1 .. n |-> av_fifo_peek_at(f, i - 1)]
    BY DEF Contents
  <1> HIDE DEF n
  <1>2. n \in Nat
    BY DEF n
  <1>3. Len(Contents(f)) = n
    BY <1>1, <1>2
  <1>4. n = 0 => Contents(f) = <<>>
    BY <1>1, <1>2
  <1> QED
    BY <1>2, <1>3, <1>4 DEF n

\* av_fifo_alloc returns an empty ring (fifo.c:43).
LEMMA AllocEmpty ==
  ASSUME NEW Elem, NEW cap \in Nat \ {0}
  PROVE  /\ Ring(av_fifo_alloc(cap), Elem, cap)
         /\ av_fifo_size(av_fifo_alloc(cap)) = 0
         /\ Contents(av_fifo_alloc(cap)) = <<>>
  <1>1. av_fifo_alloc(cap) \in FifoType(Elem, cap)
    BY IdxModAssumption DEF FifoType, av_fifo_alloc
  <1>2. av_fifo_size(av_fifo_alloc(cap)) = 0
    BY DEF av_fifo_size, av_fifo_alloc
  <1>3. Coherent(av_fifo_alloc(cap))
    BY <1>2 DEF Coherent, Wrap, av_fifo_alloc
  <1> QED
    BY <1>1, <1>2, <1>3 DEF Ring, Contents

\* av_fifo_generic_write of an element into a ring with room appends it
\* (fifo.c:122).
Extended(f, x) == Append(Contents(f), x)

LEMMA WriteExtends ==
  ASSUME NEW Elem, NEW cap \in Nat \ {0}, cap < IdxMod,
         NEW f, Ring(f, Elem, cap), NEW x \in Elem, av_fifo_space(f) >= 1
  PROVE  /\ Ring(av_fifo_write(f, x), Elem, cap)
         /\ av_fifo_size(av_fifo_write(f, x)) = av_fifo_size(f) + 1
         /\ Contents(av_fifo_write(f, x)) = Extended(f, x)
  <1> DEFINE g == av_fifo_write(f, x)
             n == av_fifo_size(f)
  <1>1. f \in FifoType(Elem, cap) /\ Coherent(f) /\ IdxMod \in Nat \ {0}
    BY IdxModAssumption DEF Ring
  <1>2. n \in Nat /\ n + 1 <= cap
    BY <1>1, SizeType
  <1>3. g \in FifoType(Elem, cap)
    <2>1. FieldTypes(f, Elem, cap)
      BY <1>1, RingFields
    <2>2. /\ Wrap(f.wptr + 1, cap) \in 0 .. cap - 1
          /\ Wrap(f.wndx + 1, IdxMod) \in 0 .. IdxMod - 1
      BY SMTT(30), <1>1, <2>1 DEF FieldTypes, Wrap
    <2>3. [f.buffer EXCEPT ![f.wptr] = x] \in [0 .. cap - 1 -> Elem \cup {NoElem}]
      BY <2>1 DEF FieldTypes
    <2> QED
      BY <1>1, <2>1, <2>2, <2>3 DEF FifoType, FieldTypes, av_fifo_write
  <1>4. av_fifo_size(g) = n + 1
    BY SMTT(30), <1>1, <1>2 DEF FifoType, av_fifo_write, av_fifo_size, Wrap
  <1>5. Coherent(g)
    BY <1>1, <1>2, <1>4 DEF FifoType, Coherent, av_fifo_write, Wrap
  <1>6. Contents(g) = Append(Contents(f), x)
    <2>1. ASSUME NEW i \in 1 .. n
          PROVE  av_fifo_peek_at(g, i - 1) = av_fifo_peek_at(f, i - 1)
      <3>1. Wrap(f.rptr + (i - 1), cap) # f.wptr
        BY <1>1, <1>2 DEF FifoType, Coherent, Wrap
      <3>2. Wrap(f.rptr + (i - 1), cap) \in 0 .. cap - 1
        BY <1>1, <1>2 DEF FifoType, Wrap
      <3>3. g.rptr = f.rptr /\ g.end = cap /\ f.end = cap
        BY <1>1 DEF FifoType, av_fifo_write
      <3>4. g.buffer = [f.buffer EXCEPT ![f.wptr] = x]
        BY <1>1 DEF FifoType, av_fifo_write
      <3>5. f.buffer \in [0 .. cap - 1 -> Elem \cup {NoElem}]
        BY <1>1 DEF FifoType
      <3> QED
        BY <3>1, <3>2, <3>3, <3>4, <3>5 DEF av_fifo_peek_at
    <2>2. av_fifo_peek_at(g, n) = x
      <3>1. Wrap(f.rptr + n, cap) = f.wptr
        BY <1>1 DEF FifoType, Coherent
      <3> QED
        BY <1>1, <3>1 DEF FifoType, av_fifo_peek_at, av_fifo_write
    <2>3. Contents(g) = [i \in 1 .. n + 1 |-> av_fifo_peek_at(g, i - 1)]
      BY <1>4 DEF Contents
    <2>4. Contents(f) = [i \in 1 .. n |-> av_fifo_peek_at(f, i - 1)]
      BY DEF Contents
    <2>5. Append([i \in 1 .. n |-> av_fifo_peek_at(f, i - 1)], x)
          = [i \in 1 .. n + 1 |->
               IF i <= n THEN av_fifo_peek_at(f, i - 1) ELSE x]
      BY <1>2
    <2>6. ASSUME NEW i \in 1 .. n + 1
          PROVE  av_fifo_peek_at(g, i - 1)
                 = IF i <= n THEN av_fifo_peek_at(f, i - 1) ELSE x
      <3>1. CASE i <= n
        BY <1>2, <2>1, <3>1
      <3>2. CASE i = n + 1
        BY <1>2, <2>2, <3>2
      <3> QED
        BY <1>2, <3>1, <3>2
    <2> HIDE DEF g, n
    <2> QED
      BY <2>3, <2>4, <2>5, <2>6
  <1> QED
    BY <1>3, <1>4, <1>5, <1>6 DEF Ring, Extended

LEMMA WriteAppends ==
  ASSUME NEW Elem, NEW cap \in Nat \ {0}, cap < IdxMod,
         NEW f, Ring(f, Elem, cap), NEW x \in Elem, av_fifo_space(f) >= 1
  PROVE  /\ Ring(av_fifo_write(f, x), Elem, cap)
         /\ av_fifo_size(av_fifo_write(f, x)) = av_fifo_size(f) + 1
         /\ Contents(av_fifo_write(f, x)) = Append(Contents(f), x)
  <1>1. /\ Ring(av_fifo_write(f, x), Elem, cap)
        /\ av_fifo_size(av_fifo_write(f, x)) = av_fifo_size(f) + 1
        /\ Contents(av_fifo_write(f, x)) = Extended(f, x)
    BY WriteExtends
  <1> QED
    BY ONLY <1>1 DEF Extended

\* av_fifo_generic_read of an element returns the oldest one and removes it
\* (fifo.c:213).
LEMMA ReadTakesHead ==
  ASSUME NEW Elem, NEW cap \in Nat \ {0}, cap < IdxMod,
         NEW f, Ring(f, Elem, cap), av_fifo_size(f) >= 1
  PROVE  /\ Ring(av_fifo_read(f), Elem, cap)
         /\ av_fifo_size(av_fifo_read(f)) = av_fifo_size(f) - 1
         /\ Contents(f) # <<>>
         /\ Head(Contents(f)) = av_fifo_peek(f)
         /\ Contents(av_fifo_read(f)) = Tail(Contents(f))
  <1> DEFINE g == av_fifo_read(f)
             n == av_fifo_size(f)
  <1>1. f \in FifoType(Elem, cap) /\ Coherent(f) /\ IdxMod \in Nat \ {0}
    BY IdxModAssumption DEF Ring
  <1>2. n \in Nat /\ n >= 1 /\ n <= cap
    BY <1>1, SizeType DEF Coherent, FifoType
  <1>3. g \in FifoType(Elem, cap)
    <2>1. FieldTypes(f, Elem, cap)
      BY <1>1, RingFields
    <2>2. /\ Wrap(f.rptr + 1, cap) \in 0 .. cap - 1
          /\ Wrap(f.rndx + 1, IdxMod) \in 0 .. IdxMod - 1
      BY SMTT(30), <1>1, <2>1 DEF FieldTypes, Wrap
    <2> QED
      BY <1>1, <2>1, <2>2 DEF FifoType, FieldTypes, av_fifo_read, av_fifo_drain
  <1>4. av_fifo_size(g) = n - 1
    BY SMTT(30), <1>1, <1>2 DEF FifoType, av_fifo_read, av_fifo_drain, av_fifo_size, Wrap
  <1>5. Coherent(g)
    BY <1>1, <1>2, <1>4
    DEF FifoType, Coherent, av_fifo_read, av_fifo_drain, Wrap
  <1>6. ASSUME NEW i \in 1 .. n - 1
        PROVE  av_fifo_peek_at(g, i - 1) = av_fifo_peek_at(f, (i + 1) - 1)
    <2>1. g.buffer = f.buffer /\ g.end = cap /\ f.end = cap
          /\ g.rptr = Wrap(f.rptr + 1, cap)
      BY <1>1 DEF FifoType, av_fifo_read, av_fifo_drain
    <2>2. Wrap(Wrap(f.rptr + 1, cap) + (i - 1), cap)
          = Wrap(f.rptr + ((i + 1) - 1), cap)
      BY SMTT(30), <1>1, <1>2 DEF FifoType, Wrap
    <2> QED
      BY <2>1, <2>2 DEF av_fifo_peek_at
  <1>7. av_fifo_peek_at(f, 0) = av_fifo_peek(f)
    BY <1>1 DEF FifoType, av_fifo_peek_at, av_fifo_peek, Wrap
  <1>8. Contents(f) = [i \in 1 .. n |-> av_fifo_peek_at(f, i - 1)]
    BY DEF Contents
  <1>9. Contents(g) = [i \in 1 .. n - 1 |-> av_fifo_peek_at(g, i - 1)]
    BY <1>4 DEF Contents
  <1>10. Contents(f) # <<>> /\ Head(Contents(f)) = av_fifo_peek(f)
    <2> HIDE DEF n
    <2>1. Contents(f)[1] = av_fifo_peek_at(f, 0)
      BY <1>2, <1>8
    <2>2. Contents(f) # <<>>
      BY <1>2, <1>8
    <2> QED
      BY <1>7, <2>1, <2>2
  <1>11. Contents(g) = Tail(Contents(f))
    <2> HIDE DEF n, g
    <2>1. Tail([i \in 1 .. n |-> av_fifo_peek_at(f, i - 1)])
          = [i \in 1 .. n - 1 |-> av_fifo_peek_at(f, (i + 1) - 1)]
      BY <1>2
    <2> QED
      BY <1>6, <1>8, <1>9, <2>1
  <1> QED
    BY <1>3, <1>4, <1>5, <1>10, <1>11 DEF Ring

\* av_fifo_drain of everything empties the ring (fifo.c:233).
LEMMA DrainEmpties ==
  ASSUME NEW Elem, NEW cap \in Nat \ {0}, cap < IdxMod,
         NEW f, Ring(f, Elem, cap)
  PROVE  LET g == av_fifo_drain(f, av_fifo_size(f))
         IN  /\ Ring(g, Elem, cap)
             /\ av_fifo_size(g) = 0
             /\ Contents(g) = <<>>
  <1> DEFINE n == av_fifo_size(f)
             g == av_fifo_drain(f, n)
  <1>1. f \in FifoType(Elem, cap) /\ Coherent(f) /\ IdxMod \in Nat \ {0}
    BY IdxModAssumption DEF Ring
  <1>2. n \in Nat /\ n <= cap
    BY <1>1, SizeType DEF Coherent, FifoType
  <1>3. g \in FifoType(Elem, cap)
    <2>1. FieldTypes(f, Elem, cap)
      BY <1>1, RingFields
    <2>2. /\ Wrap(f.rptr + n, cap) \in 0 .. cap - 1
          /\ Wrap(f.rndx + n, IdxMod) \in 0 .. IdxMod - 1
      BY SMTT(30), <1>1, <1>2, <2>1 DEF FieldTypes, Wrap
    <2> QED
      BY <1>1, <2>1, <2>2 DEF FifoType, FieldTypes, av_fifo_drain
  <1>4. av_fifo_size(g) = 0
    BY <1>1, <1>2 DEF FifoType, av_fifo_drain, av_fifo_size, Wrap
  <1>5. Coherent(g)
    BY <1>1, <1>2, <1>4 DEF FifoType, Coherent, av_fifo_drain, Wrap
  <1> QED
    BY <1>3, <1>4, <1>5 DEF Ring, Contents

-----------------------------------------------------------------------------
\* Conjuncts of the inductive invariant.  The wakeups cannot be counted
\* without the ring being coherent, nor the other way round: a send that was
\* woken for nothing looks at the ring again.
IInv == TypeOK /\ RingCoherent /\ NoLostWakeup

USE CapAssumption, ErrorAssumption, CallAssumption, IdxModAssumption

-----------------------------------------------------------------------------
\* What the operations on the ring do to one that is well typed and coherent.
LEMMA FifoSteps ==
  ASSUME TypeOK, RingCoherent
  PROVE  /\ av_fifo_size(fifo) \in 0 .. Cap
         /\ av_fifo_space(fifo) = Cap - av_fifo_size(fifo)
         /\ \A m \in Msgs : av_fifo_space(fifo) >= 1 =>
              LET g == av_fifo_write(fifo, m)
              IN  /\ g \in FifoType(Msgs, Cap) /\ Coherent(g)
                  /\ av_fifo_size(g) = av_fifo_size(fifo) + 1
                  /\ av_fifo_space(g) = av_fifo_space(fifo) - 1
                  /\ Contents(g) = Append(Contents(fifo), m)
         /\ av_fifo_size(fifo) >= 1 =>
              LET g == av_fifo_read(fifo)
              IN  /\ g \in FifoType(Msgs, Cap) /\ Coherent(g)
                  /\ av_fifo_size(g) = av_fifo_size(fifo) - 1
                  /\ av_fifo_space(g) = av_fifo_space(fifo) + 1
                  /\ Contents(fifo) # <<>>
                  /\ Head(Contents(fifo)) = av_fifo_peek(fifo)
                  /\ Contents(g) = Tail(Contents(fifo))
         /\ LET g == av_fifo_drain(fifo, av_fifo_size(fifo))
            IN  /\ g \in FifoType(Msgs, Cap) /\ Coherent(g)
                /\ av_fifo_size(g) = 0
                /\ Contents(g) = <<>>
  <1>1. Ring(fifo, Msgs, Cap) /\ fifo \in FifoType(Msgs, Cap)
    BY DEF TypeOK, RingCoherent, Ring
  <1>2. /\ av_fifo_size(fifo) \in 0 .. Cap
        /\ av_fifo_space(fifo) = Cap - av_fifo_size(fifo)
    <2>1. av_fifo_size(fifo) <= Cap
      BY <1>1 DEF Ring, Coherent, FifoType
    <2> QED
      BY <1>1, <2>1, SizeType
  <1>3. ASSUME NEW m \in Msgs, av_fifo_space(fifo) >= 1
        PROVE  LET g == av_fifo_write(fifo, m)
               IN  /\ g \in FifoType(Msgs, Cap) /\ Coherent(g)
                   /\ av_fifo_size(g) = av_fifo_size(fifo) + 1
                   /\ av_fifo_space(g) = av_fifo_space(fifo) - 1
                   /\ Contents(g) = Append(Contents(fifo), m)
    <2> DEFINE g == av_fifo_write(fifo, m)
    <2>1. /\ Ring(g, Msgs, Cap)
          /\ av_fifo_size(g) = av_fifo_size(fifo) + 1
          /\ Contents(g) = Append(Contents(fifo), m)
      <3>1. Cap \in Nat \ {0} /\ Cap < IdxMod
        BY CapAssumption
      <3> QED
        BY ONLY <1>1, <1>3, <3>1, WriteAppends
    <2> HIDE DEF g
    <2>2. av_fifo_space(g) = Cap - av_fifo_size(g)
      BY <2>1, SizeType DEF Ring
    <2>3. av_fifo_space(g) = av_fifo_space(fifo) - 1
      BY <1>2, <2>1, <2>2
    <2> QED
      BY <2>1, <2>3 DEF Ring, g
  <1>4. ASSUME av_fifo_size(fifo) >= 1
        PROVE  LET g == av_fifo_read(fifo)
               IN  /\ g \in FifoType(Msgs, Cap) /\ Coherent(g)
                   /\ av_fifo_size(g) = av_fifo_size(fifo) - 1
                   /\ av_fifo_space(g) = av_fifo_space(fifo) + 1
                   /\ Contents(fifo) # <<>>
                   /\ Head(Contents(fifo)) = av_fifo_peek(fifo)
                   /\ Contents(g) = Tail(Contents(fifo))
    <2> DEFINE g == av_fifo_read(fifo)
    <2>1. /\ Ring(g, Msgs, Cap)
          /\ av_fifo_size(g) = av_fifo_size(fifo) - 1
          /\ Contents(fifo) # <<>>
          /\ Head(Contents(fifo)) = av_fifo_peek(fifo)
          /\ Contents(g) = Tail(Contents(fifo))
      BY <1>1, <1>4, ReadTakesHead
    <2> HIDE DEF g
    <2>2. av_fifo_space(g) = Cap - av_fifo_size(g)
      BY <2>1, SizeType DEF Ring
    <2>3. av_fifo_space(g) = av_fifo_space(fifo) + 1
      BY <1>2, <2>1, <2>2
    <2> QED
      BY <2>1, <2>3 DEF Ring, g
  <1>5. LET g == av_fifo_drain(fifo, av_fifo_size(fifo))
        IN  /\ g \in FifoType(Msgs, Cap) /\ Coherent(g)
            /\ av_fifo_size(g) = 0
            /\ Contents(g) = <<>>
    BY <1>1, DrainEmpties DEF Ring
  <1> QED
    BY <1>2, <1>3, <1>4, <1>5

\* Cardinalities of sets of threads.
LEMMA ThreadSets ==
  ASSUME NEW S \in SUBSET Threads
  PROVE  /\ Cardinality(S) \in Nat
         /\ \A t \in Threads \ S : Cardinality(S \cup {t}) = Cardinality(S) + 1
         /\ \A t \in Threads : Cardinality(S \ {t}) >= Cardinality(S) - 1
         /\ \A T \in SUBSET Threads : S \subseteq T => Cardinality(T) >= Cardinality(S)
  <1>1. IsFiniteSet(S) /\ Cardinality(S) \in Nat
    BY ThreadsAssumption, FS_Subset, FS_CardinalityType
  <1>2. \A t \in Threads \ S : Cardinality(S \cup {t}) = Cardinality(S) + 1
    BY <1>1, FS_AddElement
  <1>3. ASSUME NEW t \in Threads
        PROVE  Cardinality(S \ {t}) >= Cardinality(S) - 1
    <2>1. Cardinality(S \ {t})
          = IF t \in S THEN Cardinality(S) - 1 ELSE Cardinality(S)
      BY <1>1, FS_RemoveElement
    <2> QED
      BY <1>1, <2>1
  <1>4. ASSUME NEW T \in SUBSET Threads, S \subseteq T
        PROVE  Cardinality(T) >= Cardinality(S)
    <2>1. IsFiniteSet(T) /\ Cardinality(T) \in Nat
      BY ThreadsAssumption, FS_Subset, FS_CardinalityType
    <2> QED
      BY <1>1, <1>4, <2>1, FS_Subset
  <1> QED
    BY <1>1, <1>2, <1>3, <1>4

-----------------------------------------------------------------------------
\* The pending calls of each side before and after a step.
LEMMA ReturnEnds ==
  ASSUME TypeOK, NEW t \in Threads, NEW v, Return(t, v)
  PROVE  /\ call' \in [Threads -> Calls \cup {Idle}]
         /\ DOMAIN ret' = Threads
         /\ SendPending' = SendPending \ {t}
         /\ RecvPending' = RecvPending \ {t}
  BY DEF TypeOK, Return, Calls, SendPending, RecvPending, RecvCall, SendCall

\* Every step preserves the types and the coherence of the ring.
LEMMA TypeStep ==
  ASSUME TypeOK, RingCoherent, [Next]_vars
  PROVE  TypeOK' /\ RingCoherent'
  <1> USE DEF TypeOK, RingCoherent
  <1>1. ASSUME NEW t \in Threads, NEW m \in Msgs, SendDone(t, m)
        PROVE  TypeOK' /\ RingCoherent'
    <2>1. t \notin waitSend \cup waitRecv
      BY <1>1 DEF SendDone, AtLoop
    <2>2. av_fifo_space(fifo) >= 1
      BY <1>1, FifoSteps DEF SendDone, SendFull
    <2>3. fifo' \in FifoType(Msgs, Cap) /\ Coherent(fifo')
      BY <1>1, <2>2, FifoSteps DEF SendDone
    <2>4. waitRecv' \subseteq waitRecv /\ waitSend' = waitSend
      BY <1>1 DEF SendDone, Signalled
    <2> QED
      BY <1>1, <2>1, <2>3, <2>4, ReturnEnds DEF SendDone
  <1>2. ASSUME NEW t \in Threads, RecvDone(t)
        PROVE  TypeOK' /\ RingCoherent'
    <2>1. t \notin waitSend \cup waitRecv
      BY <1>2 DEF RecvDone, AtLoop
    <2>2. fifo' \in FifoType(Msgs, Cap) /\ Coherent(fifo')
      BY <1>2, FifoSteps DEF RecvDone
    <2>3. waitSend' \subseteq waitSend /\ waitRecv' = waitRecv
      BY <1>2 DEF RecvDone, Signalled
    <2> QED
      BY <1>2, <2>1, <2>2, <2>3, ReturnEnds DEF RecvDone
  <1>3. ASSUME NEW t \in Threads, NEW m \in Msgs, SendError(t, m)
        PROVE  TypeOK' /\ RingCoherent'
    BY <1>3, ReturnEnds DEF SendError, AtLoop
  <1>4. ASSUME NEW t \in Threads, RecvError(t)
        PROVE  TypeOK' /\ RingCoherent'
    BY <1>4, ReturnEnds DEF RecvError, AtLoop
  <1>5. ASSUME NEW t \in Threads, NEW m \in Msgs, SendWait(t, m)
        PROVE  TypeOK' /\ RingCoherent'
    BY <1>5 DEF SendWait, AtLoop, Calls, SendPending, RecvPending, SendCall, RecvCall
  <1>6. ASSUME NEW t \in Threads, RecvWait(t)
        PROVE  TypeOK' /\ RingCoherent'
    BY <1>6 DEF RecvWait, AtLoop, Calls, SendPending, RecvPending, SendCall, RecvCall
  <1>7. ASSUME NEW t \in Threads, SendNonblock(t) \/ RecvNonblock(t)
        PROVE  TypeOK' /\ RingCoherent'
    <2>1. t \notin waitSend \cup waitRecv
      BY <1>7 DEF SendNonblock, RecvNonblock, SendPending, RecvPending, RecvCall
    <2> QED
      BY <1>7, <2>1, ReturnEnds DEF SendNonblock, RecvNonblock
  <1>8. ASSUME NEW t \in Threads, SpuriousWakeup(t)
        PROVE  TypeOK' /\ RingCoherent'
    BY <1>8 DEF SpuriousWakeup, SendPending, RecvPending
  <1>9. ASSUME NEW e \in Errors \cup {NoError}, SetErrSend(e) \/ SetErrRecv(e)
        PROVE  TypeOK' /\ RingCoherent'
    BY <1>9 DEF SetErrSend, SetErrRecv, SendPending, RecvPending
  <1>10. ASSUME Flush
         PROVE  TypeOK' /\ RingCoherent'
    BY <1>10, FifoSteps DEF Flush, SendPending, RecvPending
  <1>11. CASE UNCHANGED vars
    BY <1>11 DEF vars, SendPending, RecvPending
  <1> QED
    BY <1>1, <1>2, <1>3, <1>4, <1>5, <1>6, <1>7, <1>8, <1>9, <1>10, <1>11
    DEF Next, Send, Recv

-----------------------------------------------------------------------------
\* A signal to a side: the sleepers that are left still have at least one woken
\* thread more than before.
LEMMA SignalWakes ==
  ASSUME NEW W, NEW after, NEW P \in SUBSET Threads, W \subseteq P,
         Signalled(W, after), after # {}
  PROVE  Cardinality(P \ after) >= Cardinality(P \ W) + 1 /\ W # {}
  <1>1. PICK u \in W : after = W \ {u}
    BY DEF Signalled
  <1>2. P \ after = (P \ W) \cup {u} /\ u \in Threads \ (P \ W)
    BY <1>1
  <1>3. Cardinality((P \ W) \cup {u}) = Cardinality(P \ W) + 1
    BY <1>2, ThreadSets
  <1>4. Cardinality(P \ W) \in Nat
    BY ThreadSets
  <1> QED
    BY <1>1, <1>2, <1>3, <1>4

\* Every step preserves the balance of wakeups.
LEMMA WakeupStep ==
  ASSUME TypeOK, RingCoherent, NoLostWakeup, [Next]_vars
  PROVE  NoLostWakeup'
  <1> DEFINE RecvSide == waitRecv # {} => Cardinality(WokenRecv) >= av_fifo_size(fifo)
             SendSide == waitSend # {} => Cardinality(WokenSend) >= av_fifo_space(fifo)
             ErrSide  == /\ err_recv # NoError => waitRecv = {}
                         /\ err_send # NoError => waitSend = {}
  <1>0. /\ WokenRecv \in SUBSET Threads /\ WokenSend \in SUBSET Threads
        /\ Cardinality(WokenRecv) \in Nat /\ Cardinality(WokenSend) \in Nat
        /\ RecvPending \in SUBSET Threads /\ SendPending \in SUBSET Threads
        /\ waitSend \subseteq SendPending /\ waitRecv \subseteq RecvPending
    BY ThreadSets DEF WokenRecv, WokenSend, RecvPending, SendPending, TypeOK
  <1>00. RecvSide /\ SendSide /\ ErrSide
    BY DEF NoLostWakeup
  <1>1. ASSUME NEW t \in Threads, NEW m \in Msgs, SendDone(t, m)
        PROVE  RecvSide' /\ SendSide' /\ ErrSide'
    <2>1. /\ SendPending' = SendPending \ {t} /\ RecvPending' = RecvPending \ {t}
          /\ t \notin RecvPending
      BY <1>1, ReturnEnds
      DEF SendDone, AtLoop, RecvPending, RecvCall, SendCall
    <2>2. av_fifo_space(fifo) >= 1
      BY <1>1, FifoSteps DEF SendDone, SendFull
    <2>3. /\ av_fifo_size(fifo)' = av_fifo_size(fifo) + 1
          /\ av_fifo_space(fifo)' = av_fifo_space(fifo) - 1
          /\ av_fifo_size(fifo) \in Nat /\ av_fifo_space(fifo) \in Nat
      BY <1>1, <2>2, FifoSteps DEF SendDone
    <2>4. RecvSide'
      <3>1. SUFFICES ASSUME waitRecv' # {}
                     PROVE  Cardinality(WokenRecv') >= av_fifo_size(fifo)'
        OBVIOUS
      <3>2. Cardinality(RecvPending \ waitRecv') >= Cardinality(WokenRecv) + 1
            /\ waitRecv # {}
        BY <1>0, <1>1, <3>1, SignalWakes DEF SendDone, WokenRecv
      <3>3. WokenRecv' = RecvPending \ waitRecv'
        BY <2>1 DEF WokenRecv
      <3>4. Cardinality(WokenRecv') \in Nat
        BY <1>0, <3>3, ThreadSets
      <3> QED
        BY <1>0, <1>00, <2>3, <3>2, <3>3, <3>4
    <2>5. SendSide'
      <3>1. waitSend' = waitSend /\ WokenSend' = WokenSend \ {t}
        BY <1>1, <2>1 DEF SendDone, WokenSend
      <3>2. Cardinality(WokenSend \ {t}) >= Cardinality(WokenSend) - 1
            /\ Cardinality(WokenSend \ {t}) \in Nat
        BY <1>0, ThreadSets
      <3> QED
        BY <1>0, <1>00, <2>3, <3>1, <3>2
    <2>6. ErrSide'
      BY <1>1, <1>00 DEF SendDone, Signalled
    <2> QED
      BY <2>4, <2>5, <2>6
  <1>2. ASSUME NEW t \in Threads, RecvDone(t)
        PROVE  RecvSide' /\ SendSide' /\ ErrSide'
    <2>1. /\ SendPending' = SendPending \ {t} /\ RecvPending' = RecvPending \ {t}
          /\ t \notin SendPending
      BY <1>2, ReturnEnds DEF RecvDone, AtLoop, SendPending
    <2>2. /\ av_fifo_size(fifo)' = av_fifo_size(fifo) - 1
          /\ av_fifo_space(fifo)' = av_fifo_space(fifo) + 1
          /\ av_fifo_size(fifo) \in Nat /\ av_fifo_space(fifo) \in Nat
      BY <1>2, FifoSteps DEF RecvDone
    <2>3. SendSide'
      <3>1. SUFFICES ASSUME waitSend' # {}
                     PROVE  Cardinality(WokenSend') >= av_fifo_space(fifo)'
        OBVIOUS
      <3>2. Cardinality(SendPending \ waitSend') >= Cardinality(WokenSend) + 1
            /\ waitSend # {}
        BY <1>0, <1>2, <3>1, SignalWakes DEF RecvDone, WokenSend
      <3>3. WokenSend' = SendPending \ waitSend'
        BY <2>1 DEF WokenSend
      <3>4. Cardinality(WokenSend') \in Nat
        BY <1>0, <3>3, ThreadSets
      <3> QED
        BY <1>0, <1>00, <2>2, <3>2, <3>3, <3>4
    <2>4. RecvSide'
      <3>1. waitRecv' = waitRecv /\ WokenRecv' = WokenRecv \ {t}
        BY <1>2, <2>1 DEF RecvDone, WokenRecv
      <3>2. Cardinality(WokenRecv \ {t}) >= Cardinality(WokenRecv) - 1
            /\ Cardinality(WokenRecv \ {t}) \in Nat
        BY <1>0, ThreadSets
      <3> QED
        BY <1>0, <1>00, <2>2, <3>1, <3>2
    <2>5. ErrSide'
      BY <1>2, <1>00 DEF RecvDone, Signalled
    <2> QED
      BY <2>3, <2>4, <2>5
  <1>3. ASSUME NEW t \in Threads, NEW m \in Msgs, SendError(t, m)
        PROVE  RecvSide' /\ SendSide' /\ ErrSide'
    <2>1. RecvPending' = RecvPending
      BY <1>3, ReturnEnds
      DEF SendError, AtLoop, RecvPending, RecvCall, SendCall
    <2>2. waitSend' = {}
      BY <1>3, <1>00 DEF SendError
    <2> QED
      BY <1>3, <1>00, <2>1, <2>2 DEF SendError, WokenRecv
  <1>4. ASSUME NEW t \in Threads, RecvError(t)
        PROVE  RecvSide' /\ SendSide' /\ ErrSide'
    <2>1. SendPending' = SendPending
      BY <1>4, ReturnEnds DEF RecvError, AtLoop, SendPending
    <2>2. waitRecv' = {}
      BY <1>4, <1>00 DEF RecvError, RecvEmpty
    <2> QED
      BY <1>4, <1>00, <2>1, <2>2 DEF RecvError, WokenSend
  <1>5. ASSUME NEW t \in Threads, NEW m \in Msgs, SendWait(t, m)
        PROVE  RecvSide' /\ SendSide' /\ ErrSide'
    <2>1. TypeOK'
      BY <1>5, TypeStep DEF Next, Send
    <2>2. RecvPending' = RecvPending
      BY <1>5 DEF SendWait, AtLoop, RecvPending, RecvCall, SendCall, TypeOK
    <2>3. Cardinality(WokenSend') \in Nat
      <3>1. WokenSend' \in SUBSET Threads
        BY DEF WokenSend, SendPending
      <3> QED
        BY <3>1, ThreadSets
    <2>4. av_fifo_space(fifo)' = 0
      BY <1>5, FifoSteps DEF SendWait, SendFull
    <2> QED
      BY <1>5, <1>00, <2>2, <2>3, <2>4 DEF SendWait, SendFull, WokenRecv
  <1>6. ASSUME NEW t \in Threads, RecvWait(t)
        PROVE  RecvSide' /\ SendSide' /\ ErrSide'
    <2>1. SendPending' = SendPending
      BY <1>6 DEF RecvWait, AtLoop, SendPending, RecvCall, TypeOK
    <2>2. Cardinality(WokenRecv') \in Nat
      <3>1. WokenRecv' \in SUBSET Threads
        BY DEF WokenRecv, RecvPending
      <3> QED
        BY <3>1, ThreadSets
    <2>3. av_fifo_size(fifo)' = 0
      BY <1>6, FifoSteps DEF RecvWait, RecvEmpty
    <2> QED
      BY <1>6, <1>00, <2>1, <2>2, <2>3 DEF RecvWait, RecvEmpty, WokenSend
  <1>7. ASSUME NEW t \in Threads, SendNonblock(t) \/ RecvNonblock(t)
        PROVE  RecvSide' /\ SendSide' /\ ErrSide'
    <2>1. RecvPending' = RecvPending /\ SendPending' = SendPending
      BY <1>7, ReturnEnds
      DEF SendNonblock, RecvNonblock, RecvPending, SendPending, RecvCall
    <2> QED
      BY <1>7, <1>00, <2>1 DEF SendNonblock, RecvNonblock, WokenRecv, WokenSend
  <1>8. ASSUME NEW t \in Threads, SpuriousWakeup(t)
        PROVE  RecvSide' /\ SendSide' /\ ErrSide'
    <2>1. WokenRecv \subseteq WokenRecv' /\ WokenSend \subseteq WokenSend'
      BY <1>8 DEF SpuriousWakeup, WokenRecv, WokenSend, RecvPending, SendPending
    <2>2. WokenRecv' \in SUBSET Threads /\ WokenSend' \in SUBSET Threads
      BY DEF WokenRecv, WokenSend, RecvPending, SendPending
    <2>3. /\ Cardinality(WokenRecv') >= Cardinality(WokenRecv)
          /\ Cardinality(WokenSend') >= Cardinality(WokenSend)
          /\ Cardinality(WokenRecv') \in Nat /\ Cardinality(WokenSend') \in Nat
      BY <1>0, <2>1, <2>2, ThreadSets
    <2>4. fifo' = fifo /\ av_fifo_size(fifo) \in Nat /\ av_fifo_space(fifo) \in Nat
          /\ waitRecv' \subseteq waitRecv /\ waitSend' \subseteq waitSend
          /\ UNCHANGED <<err_send, err_recv>>
      BY <1>8, FifoSteps DEF SpuriousWakeup
    <2> QED
      BY <1>0, <1>00, <2>3, <2>4
  <1>9. ASSUME NEW e \in Errors \cup {NoError}, SetErrSend(e)
        PROVE  RecvSide' /\ SendSide' /\ ErrSide'
    BY <1>9, <1>00 DEF SetErrSend, WokenRecv, RecvPending
  <1>10. ASSUME NEW e \in Errors \cup {NoError}, SetErrRecv(e)
         PROVE  RecvSide' /\ SendSide' /\ ErrSide'
    BY <1>10, <1>00 DEF SetErrRecv, WokenSend, SendPending
  <1>11. ASSUME Flush
         PROVE  RecvSide' /\ SendSide' /\ ErrSide'
    <2>1. av_fifo_size(fifo)' = 0
      BY <1>11, FifoSteps DEF Flush
    <2>2. WokenRecv' = WokenRecv
      BY <1>11 DEF Flush, WokenRecv, RecvPending
    <2> QED
      BY <1>11, <1>0, <1>00, <2>1, <2>2 DEF Flush
  <1>12. ASSUME UNCHANGED vars
         PROVE  RecvSide' /\ SendSide' /\ ErrSide'
    BY <1>12, <1>00 DEF vars, WokenRecv, WokenSend, RecvPending, SendPending
  <1> HIDE DEF RecvSide, SendSide, ErrSide
  <1>13. RecvSide' /\ SendSide' /\ ErrSide'
    BY <1>1, <1>2, <1>3, <1>4, <1>5, <1>6, <1>7, <1>8, <1>9, <1>10, <1>11, <1>12
    DEF Next, Send, Recv
  <1> QED
    BY <1>13 DEF NoLostWakeup, RecvSide, SendSide, ErrSide

-----------------------------------------------------------------------------
LEMMA InitIInv == Init => IInv
  <1> SUFFICES ASSUME Init PROVE IInv
    OBVIOUS
  <1>1. Ring(fifo, Msgs, Cap)
    BY AllocEmpty DEF Init
  <1>2. TypeOK
    BY <1>1 DEF Init, TypeOK, Ring
  <1> QED
    BY <1>1, <1>2 DEF Init, IInv, Ring, RingCoherent, NoLostWakeup

\* The invariant is inductive, so it holds in every reachable state.
THEOREM Invariance == Spec => []IInv
  <1>1. Init => IInv
    BY InitIInv
  <1>2. IInv /\ [Next]_vars => IInv'
    BY TypeStep, WakeupStep DEF IInv
  <1> QED
    BY <1>1, <1>2, PTL DEF Spec

\* Types: in particular a sleeper has an unfinished call of its side.
THEOREM TypeCorrect == Spec => []TypeOK
  BY Invariance, PTL DEF IInv

\* av_fifo_generic_write never overwrites a message that was not received.
THEOREM RingStaysCoherent == Spec => []RingCoherent
  BY Invariance, PTL DEF IInv

\* One signal per message is enough: nobody is left asleep while there is work
\* that no thread already woken will take (threadmessage.c:132, :149).
THEOREM NoWakeupIsLost == Spec => []NoLostWakeup
  BY Invariance, PTL DEF IInv

-----------------------------------------------------------------------------
\* A step of the queue under its mutex is a step of the abstract queue, or
\* changes nothing the abstract queue has.
LEMMA StepRefines ==
  ASSUME TypeOK, RingCoherent, [Next]_vars
  PROVE  [Abstract!Next]_(Abstract!vars)
  <1> DEFINE q == Contents(fifo)
  <1>0. /\ av_fifo_size(fifo) \in 0 .. Cap
        /\ av_fifo_space(fifo) = Cap - av_fifo_size(fifo)
        /\ Len(q) = av_fifo_size(fifo) /\ (q = <<>> <=> av_fifo_size(fifo) = 0)
    BY FifoSteps, ContentsLength
  <1>1. ASSUME NEW t \in Threads, NEW m \in Msgs, SendDone(t, m)
        PROVE  Abstract!Put(t, m)
    <2>1. av_fifo_space(fifo) >= 1
      BY <1>0, <1>1 DEF SendDone, SendFull
    <2>2. q' = Append(q, m)
      BY <1>1, <2>1, FifoSteps DEF SendDone
    <2>3. Len(q) < Cap
      BY <1>0, <2>1
    <2> QED
      BY <1>1, <2>2, <2>3
      DEF SendDone, AtLoop, Return, SendCall, Abstract!Put, Abstract!Return,
          Abstract!SendCall
  <1>2. ASSUME NEW t \in Threads, RecvDone(t)
        PROVE  Abstract!Get(t)
    <2>1. q # <<>> /\ q' = Tail(q) /\ Head(q) = av_fifo_peek(fifo)
      BY <1>2, FifoSteps DEF RecvDone
    <2> QED
      BY <1>2, <2>1
      DEF RecvDone, AtLoop, Return, RecvCall, Abstract!Get, Abstract!Return,
          Abstract!RecvCall
  <1>3. ASSUME NEW t \in Threads, NEW m \in Msgs, SendError(t, m)
        PROVE  Abstract!PutError(t, m)
    BY <1>3 DEF SendError, AtLoop, Return, SendCall, Abstract!PutError,
                Abstract!Return, Abstract!SendCall
  <1>4. ASSUME NEW t \in Threads, RecvError(t)
        PROVE  Abstract!GetError(t)
    <2>1. q = <<>> /\ err_recv # NoError
      BY <1>0, <1>4 DEF RecvError, RecvEmpty
    <2> QED
      BY <1>4, <2>1 DEF RecvError, AtLoop, Return, RecvCall, Abstract!GetError,
                        Abstract!Return, Abstract!RecvCall
  <1>5. ASSUME NEW t \in Threads, NEW m \in Msgs, SendWait(t, m)
        PROVE  Abstract!Block(t, SendCall(m)) \/ UNCHANGED Abstract!vars
    <2>1. CASE call[t] = Idle
      <3>1. Abstract!CannotPut
        BY <1>0, <1>5 DEF SendWait, SendFull, Abstract!CannotPut
      <3>2. SendCall(m) # Abstract!RecvCall
        BY DEF SendCall, Abstract!RecvCall
      <3> QED
        BY <1>5, <2>1, <3>1, <3>2 DEF SendWait, Abstract!Block
    <2>2. CASE call[t] = SendCall(m)
      <3>1. call' = call
        BY <1>5, <2>2 DEF SendWait, TypeOK
      <3> QED
        BY <1>5, <3>1 DEF SendWait, Abstract!vars
    <2> QED
      BY <1>5, <2>1, <2>2 DEF SendWait, AtLoop
  <1>6. ASSUME NEW t \in Threads, RecvWait(t)
        PROVE  Abstract!Block(t, RecvCall) \/ UNCHANGED Abstract!vars
    <2>1. CASE call[t] = Idle
      <3>1. Abstract!CannotGet
        BY <1>0, <1>6 DEF RecvWait, RecvEmpty, Abstract!CannotGet
      <3> QED
        BY <1>6, <2>1, <3>1 DEF RecvWait, Abstract!Block, RecvCall, Abstract!RecvCall
    <2>2. CASE call[t] = RecvCall
      <3>1. call' = call
        BY <1>6, <2>2 DEF RecvWait, TypeOK
      <3> QED
        BY <1>6, <3>1 DEF RecvWait, Abstract!vars
    <2> QED
      BY <1>6, <2>1, <2>2 DEF RecvWait, AtLoop
  <1>7. ASSUME NEW t \in Threads, SendNonblock(t) \/ RecvNonblock(t)
        PROVE  Abstract!TryAgain(t)
    <2>1. Abstract!CannotPut \/ Abstract!CannotGet
      BY <1>0, <1>7 DEF SendNonblock, RecvNonblock, SendFull, RecvEmpty,
                        Abstract!CannotPut, Abstract!CannotGet
    <2> QED
      BY <1>7, <2>1 DEF SendNonblock, RecvNonblock, Return, Abstract!TryAgain,
                        Abstract!Return
  <1>8. ASSUME NEW t \in Threads, SpuriousWakeup(t)
        PROVE  UNCHANGED Abstract!vars
    BY <1>8 DEF SpuriousWakeup, Abstract!vars
  <1>9. ASSUME NEW e \in Errors \cup {NoError}, SetErrSend(e)
        PROVE  Abstract!SetErrSend(e)
    BY <1>9 DEF SetErrSend, Abstract!SetErrSend
  <1>10. ASSUME NEW e \in Errors \cup {NoError}, SetErrRecv(e)
         PROVE  Abstract!SetErrRecv(e)
    BY <1>10 DEF SetErrRecv, Abstract!SetErrRecv
  <1>11. ASSUME Flush
         PROVE  Abstract!Flush
    BY <1>11, FifoSteps DEF Flush, Abstract!Flush
  <1>12. CASE UNCHANGED vars
    BY <1>12 DEF vars, Abstract!vars
  <1>13. CASE Next
    <2>1. ASSUME NEW t \in Threads, NEW m \in Msgs, Send(t, m)
          PROVE  [Abstract!Next]_(Abstract!vars)
      <3>1. \/ Abstract!Put(t, m) \/ Abstract!PutError(t, m)
            \/ Abstract!Block(t, SendCall(m)) \/ UNCHANGED Abstract!vars
        BY <1>1, <1>3, <1>5, <2>1 DEF Send
      <3>2. SendCall(m) = Abstract!SendCall(m)
        BY DEF SendCall, Abstract!SendCall
      <3> QED
        BY <3>1, <3>2 DEF Abstract!Next
    <2>2. ASSUME NEW t \in Threads, Recv(t)
          PROVE  [Abstract!Next]_(Abstract!vars)
      <3>1. \/ Abstract!Get(t) \/ Abstract!GetError(t)
            \/ Abstract!Block(t, RecvCall) \/ UNCHANGED Abstract!vars
        BY <1>2, <1>4, <1>6, <2>2 DEF Recv
      <3>2. RecvCall = Abstract!RecvCall
        BY DEF RecvCall, Abstract!RecvCall
      <3> QED
        BY <3>1, <3>2 DEF Abstract!Next
    <2>3. ASSUME NEW t \in Threads, SendNonblock(t) \/ RecvNonblock(t)
          PROVE  [Abstract!Next]_(Abstract!vars)
      BY <1>7, <2>3 DEF Abstract!Next
    <2>4. ASSUME NEW e \in Errors \cup {NoError}, SetErrSend(e) \/ SetErrRecv(e)
          PROVE  [Abstract!Next]_(Abstract!vars)
      BY <1>9, <1>10, <2>4 DEF Abstract!Next
    <2>5. ASSUME Flush
          PROVE  [Abstract!Next]_(Abstract!vars)
      BY <1>11, <2>5 DEF Abstract!Next
    <2> QED
      BY <1>8, <1>13, <2>1, <2>2, <2>3, <2>4, <2>5 DEF Next
  <1> QED
    BY <1>12, <1>13

\* The queue of threadmessage.c implements the bounded queue of MessageQueue.
THEOREM Refinement == Spec => ImplementsQueue
  <1>1. Init => Abstract!Init
    BY AllocEmpty DEF Init, Abstract!Init
  <1>2. IInv /\ [Next]_vars => [Abstract!Next]_(Abstract!vars)
    BY StepRefines DEF IInv
  <1> QED
    BY <1>1, <1>2, Invariance, PTL DEF Spec, ImplementsQueue, Abstract!Spec
=============================================================================
