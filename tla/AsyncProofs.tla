---------------------------- MODULE AsyncProofs ----------------------------
(***************************************************************************)
(* Async for every size of the ring, of the file and of the reads: the     *)
(* ring is the part of the file around the client's position, and reads    *)
(* return what is there.                                                   *)
(***************************************************************************)
EXTENDS Async, TLAPS

-----------------------------------------------------------------------------
(* The inductive invariant.  The first four conjuncts are the types, by    *)
(* who uses the variables.                                                 *)

Flags ==
  /\ read_complete \in BOOLEAN /\ interrupt \in BOOLEAN
  /\ seek_request \in BOOLEAN /\ seek_completed \in BOOLEAN
  /\ io_eof_reached \in BOOLEAN /\ abort_request \in BOOLEAN
  /\ asleep \in SUBSET {"client", "task"}

ClientTypes ==
  /\ pc \in {"idle", "read", "request", "seek", "join", "closed"}
  /\ to_read \in Nat /\ to_read <= Max({MaxRead, FileSize + ShortSeek})
  /\ pc = "read" => to_read >= 1
  /\ new_logical_pos \in 0 .. FileSize
  /\ seek_pos \in 0 .. FileSize /\ seek_ret \in -1 .. FileSize
  /\ logical_pos \in 0 .. FileSize /\ logical_size \in {FileSize, 0}

RingTypes ==
  /\ ring \in Seq(0 .. FileSize - 1)
  /\ Len(ring) + to_copy <= Capacity + ReadBack
  /\ read_pos \in Nat /\ read_pos <= ReadBack /\ read_pos <= Len(ring)

TaskTypes ==
  /\ bpc \in {"loop", "write", "exit"}
  /\ io_error \in {"none", "EXIT", "EIO", "EOF"}
  /\ inner_io_error \in {"none", "EXIT", "EIO", "EOF"}
  /\ inner_pos \in 0 .. FileSize
  /\ ret \in Nat /\ to_copy \in Nat /\ ret + to_copy <= Chunk

\* What the background thread has in hand; it has a reason to write nothing.
TaskState ==
  /\ bpc # "write" => to_copy = 0 /\ ret = 0 /\ inner_io_error = "none"
  /\ bpc = "write" => ~io_eof_reached
  /\ bpc = "write" /\ to_copy = 0 /\ ret = 0 => inner_io_error # "none"
  /\ inner_io_error = "EOF" => inner_pos = FileSize

\* The end is known with the error that was its reason.
EndState ==
  /\ io_eof_reached <=> io_error # "none"
  /\ io_error = "EOF" => inner_pos = FileSize

\* Somebody waits for the answer to a request, unless the client gave up.
SeekState == seek_request /\ ~abort_request => pc = "seek" /\ ~seek_completed

IInv == /\ Flags /\ ClientTypes /\ RingTypes /\ TaskTypes
        /\ TaskState /\ EndState /\ SeekState
        /\ RingMatches /\ ReadCorrect

-----------------------------------------------------------------------------
\* The assumption on the constants, one by one.
LEMMA Sizes ==
  /\ Capacity \in Nat /\ Capacity >= 1 /\ Chunk \in Nat /\ Chunk >= 1
  /\ FileSize \in Nat /\ FileSize >= 1 /\ MaxRead \in Nat /\ MaxRead >= 1
  /\ ReadBack \in Nat /\ ShortSeek \in Nat
  BY SizesAssumption

USE Sizes

\* The extremes of two numbers.
LEMMA MinOfTwo ==
  ASSUME NEW a \in Int, NEW b \in Int
  PROVE  Min({a, b}) = IF a <= b THEN a ELSE b
  BY DEF Min

LEMMA MaxOfTwo ==
  ASSUME NEW a \in Int, NEW b \in Int
  PROVE  Max({a, b}) = IF a >= b THEN a ELSE b
  BY DEF Max

\* The elements of two sequences put together.
LEMMA Concatenation ==
  ASSUME NEW S, NEW s \in Seq(S), NEW t \in Seq(S)
  PROVE  /\ s \o t \in Seq(S) /\ Len(s \o t) = Len(s) + Len(t)
         /\ \A i \in 1 .. Len(s) + Len(t) :
              (s \o t)[i] = IF i <= Len(s) THEN s[i] ELSE t[i - Len(s)]
  OBVIOUS

\* What is left of a sequence, and a part of it.
LEMMA Suffix ==
  ASSUME NEW S, NEW s \in Seq(S), NEW k \in Nat, k <= Len(s)
  PROVE  /\ SubSeq(s, k + 1, Len(s)) \in Seq(S)
         /\ Len(SubSeq(s, k + 1, Len(s))) = Len(s) - k
         /\ \A i \in 1 .. Len(s) - k : SubSeq(s, k + 1, Len(s))[i] = s[k + i]
  OBVIOUS

LEMMA Part ==
  ASSUME NEW S, NEW s \in Seq(S), NEW k \in Nat, NEW n \in Nat, k + n <= Len(s)
  PROVE  LET t == SubSeq(s, k + 1, k + n)
         IN  Len(t) = n /\ \A i \in 1 .. n : t[i] = s[k + i]
  BY SMTT(30)

\* The types are those of Async.
LEMMA Types == IInv => TypeOK
  <1> SUFFICES ASSUME IInv PROVE TypeOK
    OBVIOUS
  <1>1. Len(ring) \in Nat
    BY DEF IInv, RingTypes
  <1>2. read_pos \in 0 .. Min({ReadBack, Len(ring)})
    BY <1>1, MinOfTwo DEF IInv, RingTypes
  <1>3. to_read \in 0 .. Max({MaxRead, FileSize + ShortSeek})
    BY MaxOfTwo DEF IInv, ClientTypes
  <1>4. ring_space >= 0 /\ to_copy <= ring_space
    BY <1>1 DEF IInv, RingTypes, TaskTypes, ring_space
  <1>5. {read_complete, seek_request, seek_completed, io_eof_reached,
         abort_request, interrupt} \subseteq BOOLEAN
    BY DEF IInv, Flags
  <1>6. ret \in 0 .. Chunk /\ to_copy \in 0 .. Chunk
    BY DEF IInv, TaskTypes
  <1> QED
    BY <1>2, <1>3, <1>4, <1>5, <1>6
    DEF IInv, TypeOK, Flags, ClientTypes, RingTypes, TaskTypes, Errors

\* The ring is empty, the client at the start, nothing is asked for.
LEMMA InitIInv == Init => IInv
  <1> SUFFICES ASSUME Init PROVE IInv
    OBVIOUS
  <1>1. Max({MaxRead, FileSize + ShortSeek}) \in Nat
    BY MaxOfTwo
  <1>4. to_read \in Nat /\ to_read <= Max({MaxRead, FileSize + ShortSeek})
    BY <1>1 DEF Init
  <1>5. Flags
    BY DEF Init, Flags
  <1>6. ClientTypes
    BY <1>4 DEF Init, ClientTypes
  <1>2. RingTypes /\ TaskTypes
    BY DEF Init, RingTypes, TaskTypes
  <1>3. RingMatches /\ ReadCorrect
    BY DEF Init, RingMatches, ReadCorrect, Position, NoRead
  <1> QED
    BY <1>2, <1>3, <1>5, <1>6 DEF IInv, Init, TaskState, EndState, SeekState

-----------------------------------------------------------------------------
\* A step of the background thread.
LEMMA TaskIInv == ASSUME IInv, Task PROVE IInv'
  <1> USE DEF IInv
  <1>1. CASE TaskAborts
    <2> USE <1>1 DEF TaskAborts, client, buffer, seek
    <2>1. Flags'
      BY DEF Flags
    <2>2. ClientTypes'
      BY DEF ClientTypes
    <2>3. RingTypes' /\ TaskTypes'
      BY DEF RingTypes, TaskTypes, TaskState
    <2>4. TaskState' /\ EndState' /\ SeekState'
      BY DEF Flags, TaskTypes, TaskState, EndState, SeekState
    <2>5. RingMatches'
      BY DEF Flags, ClientTypes, RingTypes, SeekState, RingMatches, Position
    <2>6. ReadCorrect'
      BY DEF ReadCorrect
    <2> QED
      BY <2>1, <2>2, <2>3, <2>4, <2>5, <2>6
  <1>2. CASE TaskSeeks
    <2> USE <1>2 DEF TaskSeeks, SeekDone, Interrupted, client
    <2>1. Flags'
      BY DEF Flags
    <2>2. ClientTypes'
      BY DEF ClientTypes
    <2>3. RingTypes' /\ TaskTypes'
      BY DEF ClientTypes, RingTypes, TaskTypes, TaskState
    <2>4. TaskState' /\ EndState' /\ SeekState'
      BY DEF Flags, TaskTypes, TaskState, EndState, SeekState
    <2>5. RingMatches'
      BY DEF Flags, ClientTypes, RingTypes, SeekState, RingMatches, Position
    <2>6. ReadCorrect'
      BY DEF ReadCorrect
    <2> QED
      BY <2>1, <2>2, <2>3, <2>4, <2>5, <2>6
  <1>3. CASE TaskSeekFails
    <2> USE <1>3 DEF TaskSeekFails, SeekDone, Interrupted, client, buffer
    <2>1. Flags'
      BY DEF Flags
    <2>2. ClientTypes'
      BY DEF ClientTypes
    <2>3. RingTypes' /\ TaskTypes'
      BY DEF RingTypes, TaskTypes, TaskState
    <2>4. TaskState' /\ EndState' /\ SeekState'
      BY DEF Flags, TaskTypes, TaskState, EndState, SeekState
    <2>5. RingMatches'
      BY DEF Flags, ClientTypes, RingTypes, SeekState, RingMatches, Position
    <2>6. ReadCorrect'
      BY DEF ReadCorrect
    <2> QED
      BY <2>1, <2>2, <2>3, <2>4, <2>5, <2>6
  <1>4. CASE TaskWaits
    <2> USE <1>4 DEF TaskWaits, Interrupted, client, buffer, seek, status, task
    <2>1. Flags'
      BY DEF Flags
    <2>2. ClientTypes'
      BY DEF ClientTypes
    <2>3. RingTypes' /\ TaskTypes'
      BY DEF RingTypes, TaskTypes, TaskState
    <2>4. TaskState' /\ EndState' /\ SeekState'
      BY DEF Flags, TaskTypes, TaskState, EndState, SeekState
    <2>5. RingMatches'
      BY DEF Flags, ClientTypes, RingTypes, SeekState, RingMatches, Position
    <2>6. ReadCorrect'
      BY DEF ReadCorrect
    <2> QED
      BY <2>1, <2>2, <2>3, <2>4, <2>5, <2>6
  <1>5. CASE TaskStarts
    <2> USE <1>5 DEF TaskStarts, Interrupted, client, buffer, seek, status
    <2>1. Flags'
      BY DEF Flags
    <2>2. ClientTypes'
      BY DEF ClientTypes
    <2>0. /\ ring_space \in Nat
          /\ to_copy' \in Nat /\ to_copy' >= 1
          /\ to_copy' <= Chunk /\ to_copy' <= ring_space
      <3>1. ring_space \in Nat
        BY DEF RingTypes, TaskTypes, ring_space
      <3> QED
        BY <3>1, MinOfTwo
    <2>3. RingTypes' /\ TaskTypes'
      BY <2>0 DEF RingTypes, TaskTypes, TaskState, ring_space
    <2>4. TaskState' /\ EndState' /\ SeekState'
      BY <2>0 DEF Flags, TaskTypes, TaskState, EndState, SeekState
    <2>5. RingMatches'
      BY DEF Flags, ClientTypes, RingTypes, SeekState, RingMatches, Position
    <2>6. ReadCorrect'
      BY DEF ReadCorrect
    <2> QED
      BY <2>1, <2>2, <2>3, <2>4, <2>5, <2>6
  <1>6. CASE TaskReadFails
    <2> USE <1>6 DEF TaskReadFails, client, buffer, seek, Interrupted
    <2>1. Flags'
      BY DEF Flags
    <2>2. ClientTypes'
      BY DEF ClientTypes
    <2>3. RingTypes' /\ TaskTypes'
      BY DEF RingTypes, TaskTypes, TaskState
    <2>4. TaskState' /\ EndState' /\ SeekState'
      BY DEF Flags, TaskTypes, TaskState, EndState, SeekState
    <2>5. RingMatches'
      BY DEF Flags, ClientTypes, RingTypes, SeekState, RingMatches, Position
    <2>6. ReadCorrect'
      BY DEF ReadCorrect
    <2> QED
      BY <2>1, <2>2, <2>3, <2>4, <2>5, <2>6
  <1>7. CASE TaskWrote
    <2> USE <1>7 DEF TaskWrote, client, buffer, seek
    <2>1. Flags'
      BY DEF Flags
    <2>2. ClientTypes'
      BY DEF ClientTypes
    <2>3. RingTypes' /\ TaskTypes'
      BY DEF RingTypes, TaskTypes, TaskState
    <2>4. TaskState' /\ EndState' /\ SeekState'
      <3>1. ~io_eof_reached /\ io_error = "none"
        BY DEF TaskState, EndState
      <3>2. io_eof_reached' = (ret = 0)
        BY <3>1 DEF TaskTypes
      <3>3. io_error' = IF ret = 0 THEN inner_io_error ELSE "none"
        BY <3>1 DEF TaskTypes
      <3> QED
        BY <3>2, <3>3 DEF TaskState, EndState, SeekState
    <2>5. RingMatches'
      BY DEF Flags, ClientTypes, RingTypes, SeekState, RingMatches, Position
    <2>6. ReadCorrect'
      BY DEF ReadCorrect
    <2> QED
      BY <2>1, <2>2, <2>3, <2>4, <2>5, <2>6
  <1>8. CASE TaskReads
    <2> USE <1>8 DEF TaskReads, client, seek, status
    <2>1. PICK n \in 1 .. Min({to_copy, FileSize - inner_pos}) :
            /\ ring' = ring \o [i \in 1 .. n |-> inner_pos + i - 1]
            /\ inner_pos' = inner_pos + n
            /\ to_copy' = to_copy - n
            /\ ret' = ret + n
      OBVIOUS
    <2>2. n \in Nat /\ n >= 1 /\ n <= to_copy /\ inner_pos + n <= FileSize
      BY <2>1, MinOfTwo DEF TaskTypes
    <2> DEFINE new == [i \in 1 .. n |-> inner_pos + i - 1]
    <2>3. /\ new \in Seq(0 .. FileSize - 1) /\ Len(new) = n
          /\ \A i \in 1 .. n : new[i] = inner_pos + i - 1
          /\ ring' = ring \o new
      BY <2>1, <2>2 DEF TaskTypes
    <2> HIDE DEF new
    <2>4. /\ ring' \in Seq(0 .. FileSize - 1) /\ Len(ring') = Len(ring) + n
          /\ \A i \in 1 .. Len(ring') :
               ring'[i] = IF i <= Len(ring) THEN ring[i] ELSE inner_pos + i - Len(ring) - 1
      <3>1. /\ ring' \in Seq(0 .. FileSize - 1) /\ Len(ring') = Len(ring) + n
            /\ \A i \in 1 .. Len(ring) + n :
                 ring'[i] = IF i <= Len(ring) THEN ring[i] ELSE new[i - Len(ring)]
        BY <2>3, Concatenation DEF RingTypes
      <3>2. ASSUME NEW i \in 1 .. Len(ring) + n, ~(i <= Len(ring))
            PROVE  new[i - Len(ring)] = inner_pos + i - Len(ring) - 1
        <4>1. Len(ring) \in Nat /\ i - Len(ring) \in 1 .. n
          BY <2>2, <3>2 DEF RingTypes
        <4> QED
          BY <2>3, <4>1 DEF TaskTypes
      <3> QED
        BY <3>1, <3>2
    <2>5. Flags' /\ ClientTypes' /\ ReadCorrect'
      BY DEF Flags, ClientTypes, ReadCorrect
    <2>6. RingTypes' /\ TaskTypes'
      BY <2>1, <2>2, <2>4 DEF RingTypes, TaskTypes
    <2>7. TaskState' /\ EndState' /\ SeekState'
      BY <2>1, <2>2 DEF TaskTypes, TaskState, EndState, SeekState
    <2>8. RingMatches'
      <3>1. Position' = Position /\ Position \in Int
        BY DEF Position, ClientTypes
      <3>2. Len(ring) \in Nat /\ read_pos' = read_pos /\ read_pos \in Nat
        BY DEF RingTypes
      <3>3. CASE abort_request
        BY <3>3 DEF RingMatches
      <3>4. CASE ~abort_request
        <4>1. inner_pos = Position - read_pos + Len(ring)
          BY <3>4 DEF RingMatches
        <4>2. inner_pos' = Position' - read_pos' + Len(ring')
          BY <2>1, <2>2, <2>4, <3>1, <3>2, <4>1
        <4>3. ASSUME NEW i \in 1 .. Len(ring')
              PROVE  ring'[i] = Position' - read_pos' + i - 1
          BY <2>2, <2>4, <3>1, <3>2, <3>4, <4>1 DEF RingMatches
        <4> QED
          BY <4>2, <4>3 DEF RingMatches
      <3> QED
        BY <3>3, <3>4
    <2> QED
      BY <2>5, <2>6, <2>7, <2>8
  <1> QED
    BY <1>1, <1>2, <1>3, <1>4, <1>5, <1>6, <1>7, <1>8 DEF Task

\* A bound on what the client asks for.
LEMMA LargestRead ==
  /\ Max({MaxRead, FileSize + ShortSeek}) \in Nat
  /\ MaxRead <= Max({MaxRead, FileSize + ShortSeek})
  /\ FileSize + ShortSeek <= Max({MaxRead, FileSize + ShortSeek})
  BY MaxOfTwo

\* A call of the client.
LEMMA CallIInv == ASSUME IInv, Call PROVE IInv'
  <1> USE DEF IInv
  <1>1. CASE Read
    <2> USE <1>1 DEF Read, buffer, seek, status, task
    <2>1. Flags'
      BY DEF Flags
    <2>2. ClientTypes'
      BY LargestRead DEF ClientTypes
    <2>3. RingTypes' /\ TaskTypes'
      BY DEF RingTypes, TaskTypes
    <2>4. TaskState' /\ EndState' /\ SeekState'
      BY DEF Flags, TaskState, EndState, SeekState
    <2>5. RingMatches'
      BY DEF Flags, ClientTypes, RingTypes, SeekState, RingMatches, Position
    <2>6. ReadCorrect'
      BY DEF ReadCorrect, NoRead
    <2> QED
      BY <2>1, <2>2, <2>3, <2>4, <2>5, <2>6
  <1>2. CASE Close
    <2> USE <1>2 DEF Close, buffer, seek, task
    <2>1. Flags'
      BY DEF Flags
    <2>2. ClientTypes'
      BY DEF ClientTypes
    <2>3. RingTypes' /\ TaskTypes'
      BY DEF RingTypes, TaskTypes
    <2>4. TaskState' /\ EndState' /\ SeekState'
      BY DEF Flags, TaskState, EndState, SeekState
    <2>5. RingMatches'
      BY DEF Flags, ClientTypes, RingTypes, SeekState, RingMatches, Position
    <2>6. ReadCorrect'
      BY DEF ReadCorrect
    <2> QED
      BY <2>1, <2>2, <2>3, <2>4, <2>5, <2>6
  <1>3. ASSUME NEW n \in 0 .. FileSize + ShortSeek, SeekForward(n) PROVE IInv'
    <2> USE <1>3 DEF SeekForward, buffer, seek, status, task
    <2>1. Flags'
      BY DEF Flags
    <2>2. ClientTypes'
      BY LargestRead DEF ClientTypes
    <2>3. RingTypes' /\ TaskTypes'
      BY DEF RingTypes, TaskTypes
    <2>4. TaskState' /\ EndState' /\ SeekState'
      BY DEF Flags, TaskState, EndState, SeekState
    <2>5. RingMatches'
      BY DEF Flags, ClientTypes, RingTypes, SeekState, RingMatches, Position
    <2>6. ReadCorrect'
      BY DEF ReadCorrect, NoRead
    <2> QED
      BY <2>1, <2>2, <2>3, <2>4, <2>5, <2>6
  <1>4. ASSUME NEW n \in 0 .. FileSize + ShortSeek, SeekBackward(n) PROVE IInv'
    <2> USE <1>4 DEF SeekBackward, Near, client, seek, status, task
    <2>1. Flags'
      BY DEF Flags
    <2>2. ClientTypes'
      BY DEF ClientTypes
    <2>3. RingTypes' /\ TaskTypes'
      BY DEF ClientTypes, RingTypes, TaskTypes
    <2>4. TaskState' /\ EndState' /\ SeekState'
      BY DEF Flags, TaskState, EndState, SeekState
    <2>5. RingMatches'
      BY DEF Flags, ClientTypes, RingTypes, SeekState, RingMatches, Position
    <2>6. ReadCorrect'
      BY DEF ReadCorrect
    <2> QED
      BY <2>1, <2>2, <2>3, <2>4, <2>5, <2>6
  <1>5. ASSUME NEW n \in 0 .. FileSize + ShortSeek, SeekFar(n) PROVE IInv'
    <2> USE <1>5 DEF SeekFar, buffer, seek, status, task
    <2>1. Flags'
      BY DEF Flags
    <2>2. ClientTypes'
      BY DEF ClientTypes
    <2>3. RingTypes' /\ TaskTypes'
      BY DEF RingTypes, TaskTypes
    <2>4. TaskState' /\ EndState' /\ SeekState'
      BY DEF Flags, TaskState, EndState, SeekState
    <2>5. RingMatches'
      BY DEF Flags, ClientTypes, RingTypes, SeekState, RingMatches, Position
    <2>6. ReadCorrect'
      BY DEF ReadCorrect, NoRead
    <2> QED
      BY <2>1, <2>2, <2>3, <2>4, <2>5, <2>6
  <1> QED
    BY <1>1, <1>2, <1>3, <1>4, <1>5 DEF Call

\* What ReadCopies does, in numbers: n bytes leave the ring, and excess bytes fall
\* out of what is kept to seek back.
CopiedStep(n, excess) ==
  /\ n >= 1 /\ n <= Len(ring) - read_pos /\ n <= to_read
  /\ excess <= Len(ring) /\ excess <= read_pos + n
  /\ read_pos + n - excess <= ReadBack
  /\ ring' = SubSeq(ring, excess + 1, Len(ring))
  /\ read_pos' = read_pos + n - excess
  /\ logical_pos' = logical_pos + n
  /\ \/ ReadReturns("OK", SubSeq(ring, read_pos + 1, read_pos + n))
     \/ /\ to_read' = to_read - n /\ SleepClient /\ to_read' >= 1
        /\ UNCHANGED <<pc, read_complete, new_logical_pos, last>>
  /\ UNCHANGED <<logical_size, seek, status, task, interrupt>>

LEMMA CopiesStep ==
  ASSUME ClientTypes, RingTypes, ReadCopies
  PROVE  \E n \in Nat, excess \in Nat : CopiedStep(n, excess)
  <1>1. /\ ring_size \in Nat /\ ring_size >= 1 /\ ring_size = Len(ring) - read_pos
        /\ to_read \in Nat /\ to_read >= 1 /\ read_pos \in Nat /\ Len(ring) \in Nat
    BY DEF ReadCopies, RingTypes, ClientTypes, ring_size
  <1> DEFINE n == Min({to_read, ring_size})
             excess == Max({read_pos + n - ReadBack, 0})
  <1>2. n = IF to_read <= ring_size THEN to_read ELSE ring_size
    BY <1>1, MinOfTwo
  <1>3. n \in Nat /\ n >= 1 /\ n <= Len(ring) - read_pos /\ n <= to_read
    BY <1>1, <1>2
  <1>4. /\ ring' = SubSeq(ring, excess + 1, Len(ring))
        /\ read_pos' = read_pos + n - excess
    BY DEF ReadCopies, ring_generic_read
  <1>5. /\ logical_pos' = logical_pos + n
        /\ UNCHANGED <<logical_size, seek, status, task, interrupt>>
    BY DEF ReadCopies
  <1>6. \/ ReadReturns("OK", SubSeq(ring, read_pos + 1, read_pos + n))
        \/ /\ to_read' = to_read - n /\ SleepClient /\ n # to_read
           /\ UNCHANGED <<pc, read_complete, new_logical_pos, last>>
    BY DEF ReadCopies
  <1> HIDE DEF n
  <1>7. excess = IF read_pos + n >= ReadBack THEN read_pos + n - ReadBack ELSE 0
    <2>1. read_pos + n - ReadBack \in Int
      BY <1>1, <1>3
    <2> QED
      BY <1>1, <1>3, <2>1, MaxOfTwo
  <1> HIDE DEF excess
  <1>8. /\ excess \in Nat /\ excess <= Len(ring) /\ excess <= read_pos + n
        /\ read_pos + n - excess <= ReadBack
    BY <1>1, <1>3, <1>7
  <1>9. \/ ReadReturns("OK", SubSeq(ring, read_pos + 1, read_pos + n))
        \/ /\ to_read' = to_read - n /\ SleepClient /\ to_read' >= 1
           /\ UNCHANGED <<pc, read_complete, new_logical_pos, last>>
    BY <1>1, <1>3, <1>6
  <1>10. CopiedStep(n, excess)
    BY <1>3, <1>4, <1>5, <1>8, <1>9 DEF CopiedStep
  <1> QED
    BY <1>3, <1>8, <1>10

\* A step within a call of the client.
LEMMA InCallIInv == ASSUME IInv, InCall PROVE IInv'
  <1> USE DEF IInv
  <1>1. CASE ReadAborts
    <2> USE <1>1 DEF ReadAborts, ReadReturns, buffer, seek, task
    <2>1. Flags'
      BY DEF Flags
    <2>2. ClientTypes'
      BY LargestRead DEF ClientTypes
    <2>3. RingTypes' /\ TaskTypes'
      BY DEF RingTypes, TaskTypes
    <2>4. TaskState' /\ EndState' /\ SeekState'
      BY DEF Flags, TaskState, EndState, SeekState
    <2>5. RingMatches'
      BY DEF Flags, ClientTypes, RingTypes, SeekState, RingMatches, Position
    <2>6. ReadCorrect'
      BY DEF ReadCorrect
    <2> QED
      BY <2>1, <2>2, <2>3, <2>4, <2>5, <2>6
  <1>2. CASE ReadEnds
    <2> USE <1>2 DEF ReadEnds, ReadReturns, buffer, seek, status, task
    <2>1. Flags'
      BY DEF Flags
    <2>2. ClientTypes'
      BY LargestRead DEF ClientTypes
    <2>3. RingTypes' /\ TaskTypes'
      BY DEF RingTypes, TaskTypes
    <2>4. TaskState' /\ EndState' /\ SeekState'
      BY DEF Flags, TaskState, EndState, SeekState
    <2>5. RingMatches'
      BY DEF Flags, ClientTypes, RingTypes, SeekState, RingMatches, Position
    <2>6. ReadCorrect'
      <3>1. CASE read_complete
        BY <3>1 DEF ReadCorrect
      <3>2. CASE ~read_complete
        <4>1. last'.ret = io_error /\ io_error # "none" /\ last'.pos = logical_pos
          BY <3>2 DEF EndState
        <4>2. io_error # "OK"
          BY DEF TaskTypes
        <4>3. ASSUME io_error = "EOF" PROVE logical_pos = FileSize
          <5>1. inner_pos = FileSize /\ Position = logical_pos /\ ~abort_request
            BY <4>3 DEF EndState, Position, Interrupted
          <5>2. ring_size = inner_pos - logical_pos /\ ring_size >= 0
            BY <5>1 DEF RingMatches, ring_size, RingTypes, ClientTypes, TaskTypes
          <5> QED
            BY <5>1, <5>2 DEF ClientTypes
        <4> QED
          BY <4>1, <4>2, <4>3 DEF ReadCorrect
      <3> QED
        BY <3>1, <3>2
    <2> QED
      BY <2>1, <2>2, <2>3, <2>4, <2>5, <2>6
  <1>3. CASE ReadWaits
    <2> USE <1>3 DEF ReadWaits, SleepClient, client, buffer, seek, status, task
    <2>1. Flags'
      BY DEF Flags
    <2>2. ClientTypes'
      BY DEF ClientTypes
    <2>3. RingTypes' /\ TaskTypes'
      BY DEF RingTypes, TaskTypes
    <2>4. TaskState' /\ EndState' /\ SeekState'
      BY DEF Flags, TaskState, EndState, SeekState
    <2>5. RingMatches'
      BY DEF Flags, ClientTypes, RingTypes, SeekState, RingMatches, Position
    <2>6. ReadCorrect'
      BY DEF ReadCorrect
    <2> QED
      BY <2>1, <2>2, <2>3, <2>4, <2>5, <2>6
  <1>4. CASE SeekRequest
    <2> USE <1>4 DEF SeekRequest, buffer, status, task
    <2>1. Flags'
      BY DEF Flags
    <2>2. ClientTypes'
      BY DEF ClientTypes
    <2>3. RingTypes' /\ TaskTypes'
      BY DEF RingTypes, TaskTypes
    <2>4. TaskState' /\ EndState' /\ SeekState'
      BY DEF Flags, TaskState, EndState, SeekState
    <2>5. RingMatches'
      BY DEF Flags, ClientTypes, RingTypes, SeekState, RingMatches, Position
    <2>6. ReadCorrect'
      BY DEF ReadCorrect
    <2> QED
      BY <2>1, <2>2, <2>3, <2>4, <2>5, <2>6
  <1>5. CASE SeekAborts
    <2> USE <1>5 DEF SeekAborts, buffer, seek, task
    <2>1. Flags'
      BY DEF Flags
    <2>2. ClientTypes'
      BY DEF ClientTypes
    <2>3. RingTypes' /\ TaskTypes'
      BY DEF RingTypes, TaskTypes
    <2>4. TaskState' /\ EndState' /\ SeekState'
      BY DEF Flags, TaskState, EndState, SeekState
    <2>5. RingMatches'
      BY DEF Flags, ClientTypes, RingTypes, SeekState, RingMatches, Position
    <2>6. ReadCorrect'
      BY DEF ReadCorrect
    <2> QED
      BY <2>1, <2>2, <2>3, <2>4, <2>5, <2>6
  <1>6. CASE SeekCompleted
    <2> USE <1>6 DEF SeekCompleted, Interrupted, buffer, status, task
    <2>1. Flags'
      BY DEF Flags
    <2>2. ClientTypes'
      BY DEF ClientTypes
    <2>3. RingTypes' /\ TaskTypes'
      BY DEF RingTypes, TaskTypes
    <2>4. TaskState' /\ EndState' /\ SeekState'
      BY DEF Flags, TaskState, EndState, SeekState
    <2>5. RingMatches'
      BY DEF Flags, ClientTypes, RingTypes, SeekState, RingMatches, Position
    <2>6. ReadCorrect'
      BY DEF ReadCorrect
    <2> QED
      BY <2>1, <2>2, <2>3, <2>4, <2>5, <2>6
  <1>7. CASE SeekWaits
    <2> USE <1>7 DEF SeekWaits, SleepClient, client, buffer, seek, status, task
    <2>1. Flags'
      BY DEF Flags
    <2>2. ClientTypes'
      BY DEF ClientTypes
    <2>3. RingTypes' /\ TaskTypes'
      BY DEF RingTypes, TaskTypes
    <2>4. TaskState' /\ EndState' /\ SeekState'
      BY DEF Flags, TaskState, EndState, SeekState
    <2>5. RingMatches'
      BY DEF Flags, ClientTypes, RingTypes, SeekState, RingMatches, Position
    <2>6. ReadCorrect'
      BY DEF ReadCorrect
    <2> QED
      BY <2>1, <2>2, <2>3, <2>4, <2>5, <2>6
  <1>8. CASE Join
    <2> USE <1>8 DEF Join, buffer, seek, status, task
    <2>1. Flags'
      BY DEF Flags
    <2>2. ClientTypes'
      BY DEF ClientTypes
    <2>3. RingTypes' /\ TaskTypes'
      BY DEF RingTypes, TaskTypes
    <2>4. TaskState' /\ EndState' /\ SeekState'
      BY DEF Flags, TaskState, EndState, SeekState
    <2>5. RingMatches'
      BY DEF Flags, ClientTypes, RingTypes, SeekState, RingMatches, Position
    <2>6. ReadCorrect'
      BY DEF ReadCorrect
    <2> QED
      BY <2>1, <2>2, <2>3, <2>4, <2>5, <2>6
  <1>9. CASE ReadCopies
    <2>0. PICK n \in Nat, excess \in Nat : CopiedStep(n, excess)
      BY <1>9, CopiesStep
    <2> DEFINE data == SubSeq(ring, read_pos + 1, read_pos + n)
    <2>1. /\ read_pos \in Nat /\ Len(ring) \in Nat /\ logical_pos \in Int
          /\ to_read \in Nat /\ n >= 1 /\ n <= Len(ring) - read_pos
          /\ n <= to_read
      BY <2>0 DEF RingTypes, ClientTypes, CopiedStep
    <2>2. /\ excess <= Len(ring) /\ excess <= read_pos + n
          /\ read_pos + n - excess <= ReadBack
      BY <2>0 DEF CopiedStep
    <2>4. /\ read_pos' = read_pos + n - excess
          /\ logical_pos' = logical_pos + n
      BY <2>0 DEF CopiedStep
    <2>5. /\ ring' \in Seq(0 .. FileSize - 1) /\ Len(ring') = Len(ring) - excess
          /\ \A i \in 1 .. Len(ring') : ring'[i] = ring[excess + i]
      <3>2. ring \in Seq(0 .. FileSize - 1) /\ ring' = SubSeq(ring, excess + 1, Len(ring))
        BY <2>0 DEF RingTypes, CopiedStep
      <3> QED
        BY SMTT(30), <2>2, <3>2, Suffix
    <2>6. /\ ~abort_request /\ pc = "read" /\ Position = logical_pos
          /\ inner_pos = logical_pos - read_pos + Len(ring)
          /\ \A i \in 1 .. Len(ring) : ring[i] = logical_pos - read_pos + i - 1
      BY <1>9 DEF ReadCopies, Interrupted, Position, RingMatches
    <2>7. \/ ReadReturns("OK", data)
          \/ /\ to_read' = to_read - n /\ SleepClient /\ to_read' >= 1
             /\ UNCHANGED <<pc, read_complete, new_logical_pos, last>>
      BY <2>0 DEF CopiedStep
    <2>14. UNCHANGED <<logical_size, seek, status, task, interrupt>>
      BY <2>0 DEF CopiedStep
    <2>8. Flags'
      BY <2>14, <2>7 DEF status, seek, Flags, ReadReturns, SleepClient
    <2>9. ClientTypes'
      <3>1. logical_pos' \in 0 .. FileSize
        BY <2>1, <2>4, <2>6 DEF ClientTypes, TaskTypes
      <3>2. to_read' \in Nat /\ to_read' <= Max({MaxRead, FileSize + ShortSeek})
        BY <2>1, <2>7, LargestRead DEF ClientTypes, ReadReturns
      <3> QED
        BY <2>14, <2>6, <2>7, <3>1, <3>2 DEF seek, ClientTypes, ReadReturns
    <2>10. RingTypes' /\ TaskTypes'
      <3>1. UNCHANGED <<status, task>>
        BY <2>14
      <3>2. read_pos' \in Nat /\ read_pos' <= ReadBack /\ read_pos' <= Len(ring')
        BY <2>1, <2>2, <2>4, <2>5
      <3>3. Len(ring') + to_copy' <= Capacity + ReadBack
        BY <2>1, <2>5, <3>1 DEF RingTypes, TaskTypes, task
      <3> QED
        BY <2>5, <3>1, <3>2, <3>3 DEF RingTypes, TaskTypes, status, task
    <2>11. TaskState' /\ EndState' /\ SeekState'
      BY <2>14, <2>6 DEF seek, status, task, TaskState, EndState, SeekState
    <2>12. RingMatches'
      <3>1. Position' = logical_pos'
        BY <2>7, <2>6 DEF ReadReturns, Position
      <3>2. inner_pos' = logical_pos' - read_pos' + Len(ring')
        <4>1. inner_pos' = inner_pos /\ logical_pos \in Int
          BY <2>14 DEF task, ClientTypes
        <4> QED
          BY <2>1, <2>4, <2>5, <2>6, <4>1
      <3>3. ASSUME NEW i \in 1 .. Len(ring')
            PROVE  ring'[i] = logical_pos' - read_pos' + i - 1
        <4>1. excess + i \in 1 .. Len(ring) /\ ring'[i] = ring[excess + i]
          <5>1. i \in 1 .. Len(ring) - excess
            BY <2>5
          <5> QED
            BY <2>1, <2>5, <5>1
        <4>2. ring[excess + i] = logical_pos - read_pos + (excess + i) - 1
          BY <2>6, <4>1
        <4> QED
          BY <2>1, <2>4, <4>1, <4>2
      <3> QED
        BY <3>1, <3>2, <3>3 DEF RingMatches
    <2>13. ReadCorrect'
      <3>1. CASE UNCHANGED last
        BY <3>1 DEF ReadCorrect
      <3>2. CASE last' = [ret |-> "OK", pos |-> logical_pos, data |-> data]
        <4>2. Len(data) = n /\ \A i \in 1 .. n : data[i] = ring[read_pos + i]
          BY <2>1, Part DEF RingTypes
        <4>3. ASSUME NEW i \in 1 .. n PROVE data[i] = logical_pos + i - 1
          <5>1. read_pos + i \in 1 .. Len(ring)
            BY <2>1
          <5>2. data[i] = ring[read_pos + i]
            BY <4>2
          <5> HIDE DEF data
          <5> QED
            BY <2>1, <2>6, <5>1, <5>2
        <4> HIDE DEF data
        <4> QED
          BY <2>1, <3>2, <4>2, <4>3 DEF ReadCorrect
      <3> QED
        BY <2>7, <3>1, <3>2 DEF ReadReturns
    <2> QED
      BY <2>8, <2>9, <2>10, <2>11, <2>12, <2>13
  <1> QED
    BY <1>1, <1>2, <1>3, <1>4, <1>5, <1>6, <1>7, <1>8, <1>9 DEF InCall

\* Every step.
LEMMA NextIInv == ASSUME IInv, [Next]_vars PROVE IInv'
  <1>1. CASE Interrupt
    BY <1>1 DEF Interrupt, IInv, Flags, ClientTypes, RingTypes, TaskTypes, TaskState,
       EndState, SeekState, RingMatches, ReadCorrect, Position, client, buffer, seek,
       status, task
  <1>2. CASE SpuriousWakeup
    BY <1>2 DEF SpuriousWakeup, IInv, Flags, ClientTypes, RingTypes, TaskTypes,
       TaskState, EndState, SeekState, RingMatches, ReadCorrect, Position, client,
       buffer, seek, status, task
  <1>3. CASE UNCHANGED vars
    BY <1>3 DEF vars, IInv, Flags, ClientTypes, RingTypes, TaskTypes, TaskState,
       EndState, SeekState, RingMatches, ReadCorrect, Position, client, buffer, seek,
       status, task
  <1> QED
    BY <1>1, <1>2, <1>3, CallIInv, InCallIInv, TaskIInv DEF Next, Closed

THEOREM Invariance == Spec => []IInv
  BY InitIInv, NextIInv, PTL DEF Spec

-----------------------------------------------------------------------------
\* Types, and the assertions of the ring: the thread has room for all it still
\* writes, although it looked at the ring before (async.c:224).
THEOREM TypeCorrect == Spec => []TypeOK
  BY Invariance, Types, PTL

\* Whatever seeks are mixed with what the thread reads ahead, the ring is the part
\* of the file around the client's position (async.c:428).
THEOREM RingIsTheFile == Spec => []RingMatches
  <1>1. IInv => RingMatches
    BY DEF IInv
  <1> QED
    BY <1>1, Invariance, PTL

\* A read returns the bytes at the client's position, and the end of the file only
\* there (async.c:310).
THEOREM ReadsAreCorrect == Spec => []ReadCorrect
  <1>1. IInv => ReadCorrect
    BY DEF IInv
  <1> QED
    BY <1>1, Invariance, PTL
=============================================================================
