------------------------------- MODULE Async -------------------------------
(***************************************************************************)
(* libavformat/async.c: a protocol that reads ahead of its client in a     *)
(* background thread and keeps what was read, to seek back.                *)
(*                                                                         *)
(* What a thread does under the mutex until it releases it or waits is one *)
(* action.  The background thread fills the ring, and the client looks at  *)
(* the ring and seeks back in it, without the mutex: each such look, each  *)
(* read of the inner protocol, is an action of its own.                    *)
(*                                                                         *)
(* The file is the sequence of its positions: the byte at position n is n. *)
(* ring is what the AVFifoBuffer holds, as a sequence: elements are        *)
(* written only when there is room (WriteAppends in ThreadMessageProofs).  *)
(* Variables nobody reads before they are set again go back to their first *)
(* value.                                                                  *)
(***************************************************************************)
EXTENDS Integers, Sequences, FiniteSetsExt

CONSTANTS Capacity,    \* BUFFER_CAPACITY
          ReadBack,    \* READ_BACK_CAPACITY
          ShortSeek,   \* SHORT_SEEK_THRESHOLD
          Chunk,       \* the 4096 bytes of one write
          FileSize,    \* bound: bytes of the inner protocol
          MaxRead      \* bound: bytes the client asks for

ASSUME SizesAssumption == /\ {Capacity, Chunk, FileSize, MaxRead} \subseteq Nat \ {0}
                          /\ {ReadBack, ShortSeek} \subseteq Nat

VARIABLES
  pc,                    \* the call of the client and its next statement
  to_read, read_complete, new_logical_pos,
  last,                  \* what the last read returned
  ring, read_pos,        \* RingBuffer
  logical_pos, logical_size,
  seek_request, seek_completed, seek_ret, seek_pos,
  io_error, io_eof_reached, abort_request,
  bpc, to_copy, ret, inner_io_error,   \* async_buffer_task
  inner_pos,             \* external: position of the inner protocol
  interrupt,             \* external: answer of the client's interrupt callback
  asleep                 \* who waits on its condition variable

client == <<pc, to_read, read_complete, new_logical_pos, last>>
buffer == <<ring, read_pos>>
seek   == <<seek_request, seek_completed, seek_ret, seek_pos>>
status == <<io_error, io_eof_reached, abort_request>>
task   == <<bpc, to_copy, ret, inner_io_error, inner_pos>>
vars   == <<client, buffer, logical_pos, logical_size, seek, status, task,
            interrupt, asleep>>

NoRead == [ret |-> "none", pos |-> 0, data |-> <<>>]
Errors == {"EXIT", "EIO", "EOF"}

\* The inner protocol may not know its size: ffurl_size fails.
Init ==
  /\ pc = "idle" /\ to_read = 0 /\ read_complete = FALSE /\ new_logical_pos = 0
  /\ last = NoRead
  /\ ring = <<>> /\ read_pos = 0
  /\ logical_pos = 0 /\ logical_size \in {FileSize, 0}
  /\ seek_request = FALSE /\ seek_completed = FALSE
  /\ seek_ret = 0 /\ seek_pos = 0
  /\ io_error = "none" /\ io_eof_reached = FALSE /\ abort_request = FALSE
  /\ bpc = "loop" /\ to_copy = 0 /\ ret = 0 /\ inner_io_error = "none"
  /\ inner_pos = 0 /\ interrupt = FALSE /\ asleep = {}

-----------------------------------------------------------------------------
ring_size  == Len(ring) - read_pos
ring_space == Capacity + ReadBack - Len(ring)

\* n bytes are read: what lies further back than read_back_capacity is dropped.
ring_generic_read_KeepsPos(n) ==
  LET excess == Max({read_pos + n - ReadBack, 0})
  IN /\ ring' = SubSeq(ring, excess + 1, Len(ring))
     /\ read_pos' = read_pos + n
ring_generic_read(n) ==
  LET excess == Max({read_pos + n - ReadBack, 0})
  IN /\ ring' = SubSeq(ring, excess + 1, Len(ring))
     /\ read_pos' = read_pos + n - excess

\* async_check_interrupt: abort_request stays set.
Interrupted == abort_request \/ interrupt

-----------------------------------------------------------------------------
(* async_buffer_task *)

Awake(t) == t \notin asleep

TaskAborts ==
  /\ bpc = "loop" /\ Awake("task") /\ Interrupted
  /\ abort_request' = TRUE /\ io_eof_reached' = TRUE /\ io_error' = "EXIT"
  /\ bpc' = "exit"
  /\ asleep' = asleep \ {"client"}
  /\ UNCHANGED <<client, buffer, logical_pos, logical_size, seek, to_copy, ret,
                 inner_io_error, inner_pos, interrupt>>

SeekDone(r) == /\ seek_completed' = TRUE /\ seek_ret' = r
               /\ seek_request' = FALSE
               /\ asleep' = asleep \ {"client"}
               /\ UNCHANGED <<client, logical_pos, logical_size, seek_pos,
                              abort_request, bpc, to_copy, ret, inner_io_error,
                              interrupt>>

\* What was read ahead stays in the ring.
TaskSeeks_NoReset ==
  /\ bpc = "loop" /\ Awake("task") /\ ~Interrupted /\ seek_request
  /\ inner_pos' = seek_pos
  /\ io_eof_reached' = FALSE /\ io_error' = "none"
  /\ UNCHANGED buffer
  /\ SeekDone(seek_pos)

TaskSeeks ==
  /\ bpc = "loop" /\ Awake("task") /\ ~Interrupted /\ seek_request
  /\ inner_pos' = seek_pos
  /\ io_eof_reached' = FALSE /\ io_error' = "none"
  /\ ring' = <<>> /\ read_pos' = 0
  /\ SeekDone(seek_pos)

TaskSeekFails ==
  /\ bpc = "loop" /\ Awake("task") /\ ~Interrupted /\ seek_request
  /\ UNCHANGED <<buffer, io_eof_reached, io_error, inner_pos>>
  /\ SeekDone(-1)

\* The thread goes to sleep without a word to the client.
TaskWaits_NoSignal ==
  /\ bpc = "loop" /\ Awake("task") /\ ~Interrupted /\ ~seek_request
  /\ io_eof_reached \/ ring_space <= 0
  /\ asleep' = asleep \cup {"task"}
  /\ UNCHANGED <<client, buffer, logical_pos, logical_size, seek, status, task,
                 interrupt>>

TaskWaits ==
  /\ bpc = "loop" /\ Awake("task") /\ ~Interrupted /\ ~seek_request
  /\ io_eof_reached \/ ring_space <= 0
  /\ asleep' = (asleep \ {"client"}) \cup {"task"}
  /\ UNCHANGED <<client, buffer, logical_pos, logical_size, seek, status, task,
                 interrupt>>

\* The free space is taken under the mutex, and used after it is released.
TaskStarts ==
  /\ bpc = "loop" /\ Awake("task") /\ ~Interrupted /\ ~seek_request
  /\ ~io_eof_reached /\ ring_space > 0
  /\ to_copy' = Min({Chunk, ring_space}) /\ ret' = 0
  /\ bpc' = "write"
  /\ UNCHANGED <<client, buffer, logical_pos, logical_size, seek, status,
                 inner_io_error, inner_pos, interrupt, asleep>>

\* One call of wrapped_url_read in av_fifo_generic_write, which goes on until it
\* has all it asked for, or a call fails.
TaskReads ==
  /\ bpc = "write" /\ to_copy > 0
  /\ \E n \in 1 .. Min({to_copy, FileSize - inner_pos}) :
       /\ ring' = ring \o [i \in 1 .. n |-> inner_pos + i - 1]
       /\ inner_pos' = inner_pos + n
       /\ to_copy' = to_copy - n
       /\ ret' = ret + n
  /\ inner_io_error' = "none"
  /\ UNCHANGED <<client, read_pos, logical_pos, logical_size, seek, status, bpc,
                 interrupt, asleep>>

\* The inner protocol asks async_check_interrupt while it waits for data.
TaskReadFails ==
  /\ bpc = "write" /\ to_copy > 0
  /\ \/ inner_io_error' = "EOF" /\ inner_pos = FileSize /\ UNCHANGED abort_request
     \/ inner_io_error' = "EIO" /\ UNCHANGED abort_request
     \/ inner_io_error' = "EXIT" /\ Interrupted /\ abort_request' = TRUE
  /\ to_copy' = 0
  /\ UNCHANGED <<client, buffer, logical_pos, logical_size, seek, io_error,
                 io_eof_reached, bpc, ret, inner_pos, interrupt, asleep>>

TaskWrote ==
  /\ bpc = "write" /\ to_copy = 0
  /\ io_eof_reached' = (ret <= 0 \/ io_eof_reached)
  /\ io_error' = IF ret <= 0 /\ inner_io_error # "none" THEN inner_io_error
                                                        ELSE io_error
  /\ bpc' = "loop" /\ ret' = 0 /\ inner_io_error' = "none"
  /\ asleep' = asleep \ {"client"}
  /\ UNCHANGED <<client, buffer, logical_pos, logical_size, seek, abort_request,
                 to_copy, inner_pos, interrupt>>

Task == \/ TaskAborts \/ TaskSeeks \/ TaskSeekFails \/ TaskWaits \/ TaskStarts
        \/ TaskReads \/ TaskReadFails \/ TaskWrote

-----------------------------------------------------------------------------
(* async_read and async_read_internal *)

Read ==
  /\ pc = "idle"
  /\ to_read' \in 1 .. MaxRead
  /\ read_complete' = FALSE /\ last' = NoRead
  /\ pc' = "read"
  /\ UNCHANGED <<new_logical_pos, buffer, logical_pos, logical_size, seek,
                 status, task, interrupt, asleep>>

\* A read returns r, with the bytes of data that were at pos; a forward seek has
\* no use for them.
ReadReturns(r, data) ==
  /\ pc' = "idle" /\ to_read' = 0 /\ read_complete' = FALSE
  /\ last' = IF read_complete THEN last
             ELSE [ret |-> r, pos |-> logical_pos, data |-> data]
  /\ asleep' = asleep \ {"task"}
  /\ UNCHANGED new_logical_pos

SleepClient == asleep' = (asleep \ {"task"}) \cup {"client"}

ReadAborts ==
  /\ pc = "read" /\ Awake("client") /\ Interrupted
  /\ abort_request' = TRUE
  /\ ReadReturns("EXIT", <<>>)
  /\ UNCHANGED <<buffer, logical_pos, logical_size, seek, io_error,
                 io_eof_reached, task, interrupt>>

ReadCopies ==
  /\ pc = "read" /\ Awake("client") /\ ~Interrupted
  /\ ring_size > 0
  /\ LET n == Min({to_read, ring_size}) IN
       /\ ring_generic_read(n)
       /\ logical_pos' = logical_pos + n
       /\ IF n = to_read \/ ~read_complete
          THEN ReadReturns("OK", SubSeq(ring, read_pos + 1, read_pos + n))
          ELSE /\ to_read' = to_read - n
               /\ SleepClient
               /\ UNCHANGED <<pc, read_complete, new_logical_pos, last>>
  /\ UNCHANGED <<logical_size, seek, status, task, interrupt>>

ReadEnds ==
  /\ pc = "read" /\ Awake("client") /\ ~Interrupted
  /\ ring_size <= 0 /\ io_eof_reached
  /\ ReadReturns(IF io_error # "none" THEN io_error ELSE "EOF", <<>>)
  /\ UNCHANGED <<buffer, logical_pos, logical_size, seek, status, task, interrupt>>

ReadWaits ==
  /\ pc = "read" /\ Awake("client") /\ ~Interrupted
  /\ ring_size <= 0 /\ ~io_eof_reached
  /\ SleepClient
  /\ UNCHANGED <<client, buffer, logical_pos, logical_size, seek, status, task,
                 interrupt>>

-----------------------------------------------------------------------------
(* async_seek to position n: up to the request, without the mutex. *)

Near(n) == /\ n >= logical_pos - read_pos
           /\ n < logical_pos + ring_size + ShortSeek

SeekForward(n) ==
  /\ pc = "idle" /\ Near(n) /\ n > logical_pos
  /\ to_read' = n - logical_pos /\ read_complete' = TRUE
  /\ pc' = "read" /\ last' = NoRead
  /\ UNCHANGED <<new_logical_pos, buffer, logical_pos, logical_size, seek,
                 status, task, interrupt, asleep>>

\* A seek back that moves only the ring.
SeekBackward_KeepsPos(n) ==
  /\ pc = "idle" /\ Near(n) /\ n < logical_pos
  /\ read_pos' = read_pos + n - logical_pos
  /\ UNCHANGED <<client, ring, logical_pos, logical_size, seek, status, task,
                 interrupt, asleep>>
SeekBackward(n) ==
  /\ pc = "idle" /\ Near(n) /\ n < logical_pos
  /\ read_pos' = read_pos + n - logical_pos
  /\ logical_pos' = n
  /\ UNCHANGED <<client, ring, logical_size, seek, status, task, interrupt, asleep>>

\* Seeks to the current position and refused seeks change nothing.
SeekFar(n) ==
  /\ pc = "idle" /\ ~Near(n) /\ n # logical_pos
  /\ logical_size > 0 /\ n <= logical_size
  /\ new_logical_pos' = n
  /\ pc' = "request" /\ last' = NoRead
  /\ UNCHANGED <<to_read, read_complete, buffer, logical_pos, logical_size,
                 seek, status, task, interrupt, asleep>>

SeekRequest ==
  /\ pc = "request"
  /\ seek_request' = TRUE /\ seek_completed' = FALSE
  /\ seek_ret' = 0 /\ seek_pos' = new_logical_pos
  /\ pc' = "seek" /\ new_logical_pos' = 0
  /\ UNCHANGED <<to_read, read_complete, last, buffer,
                 logical_pos, logical_size, status, task, interrupt, asleep>>

SeekAborts ==
  /\ pc = "seek" /\ Awake("client") /\ Interrupted
  /\ abort_request' = TRUE
  /\ pc' = "idle"
  /\ UNCHANGED <<to_read, read_complete, new_logical_pos, last, buffer,
                 logical_pos, logical_size, seek, io_error, io_eof_reached, task,
                 interrupt, asleep>>

SeekCompleted ==
  /\ pc = "seek" /\ Awake("client") /\ ~Interrupted /\ seek_completed
  /\ logical_pos' = IF seek_ret >= 0 THEN seek_ret ELSE logical_pos
  /\ pc' = "idle"
  /\ seek_completed' = FALSE /\ seek_ret' = 0 /\ seek_pos' = 0
  /\ UNCHANGED <<to_read, read_complete, new_logical_pos, last, buffer,
                 logical_size, seek_request, status, task, interrupt, asleep>>

SeekWaits ==
  /\ pc = "seek" /\ Awake("client") /\ ~Interrupted /\ ~seek_completed
  /\ SleepClient
  /\ UNCHANGED <<client, buffer, logical_pos, logical_size, seek, status, task,
                 interrupt>>

-----------------------------------------------------------------------------
(* async_close *)

Close ==
  /\ pc = "idle"
  /\ abort_request' = TRUE
  /\ asleep' = asleep \ {"task"}
  /\ pc' = "join"
  /\ UNCHANGED <<to_read, read_complete, new_logical_pos, last, buffer,
                 logical_pos, logical_size, seek, io_error, io_eof_reached, task,
                 interrupt>>

Join ==
  /\ pc = "join" /\ bpc = "exit"
  /\ pc' = "closed"
  /\ UNCHANGED <<to_read, read_complete, new_logical_pos, last, buffer,
                 logical_pos, logical_size, seek, status, task, interrupt, asleep>>

Closed == pc = "closed" /\ UNCHANGED vars

-----------------------------------------------------------------------------
\* The client's callback asks for the end; POSIX lets a wait return at any time.
Interrupt ==
  /\ ~interrupt /\ interrupt' = TRUE
  /\ UNCHANGED <<client, buffer, logical_pos, logical_size, seek, status, task,
                 asleep>>

SpuriousWakeup ==
  /\ \E t \in asleep : asleep' = asleep \ {t}
  /\ UNCHANGED <<client, buffer, logical_pos, logical_size, seek, status, task,
                 interrupt>>

Call == \/ Read \/ Close
        \/ \E n \in 0 .. FileSize + ShortSeek :
             SeekForward(n) \/ SeekBackward(n) \/ SeekFar(n)

InCall == \/ ReadAborts \/ ReadCopies \/ ReadEnds \/ ReadWaits
          \/ SeekRequest \/ SeekAborts \/ SeekCompleted \/ SeekWaits \/ Join

Next == Call \/ InCall \/ Task \/ Interrupt \/ SpuriousWakeup \/ Closed

Spec == Init /\ [][Next]_vars

\* Both threads run, and the inner protocol answers.
FairSpec == Spec /\ WF_vars(InCall) /\ WF_vars(Task)

-----------------------------------------------------------------------------
\* Types of the state, and the assertions of ring_generic_read,
\* ring_generic_write and ring_drain: there is room for what the thread still
\* writes, although it looked at the ring before.
TypeOK ==
  /\ pc \in {"idle", "read", "request", "seek", "join", "closed"}
  /\ to_read \in 0 .. Max({MaxRead, FileSize + ShortSeek})
  /\ {read_complete, seek_request, seek_completed, io_eof_reached,
      abort_request, interrupt} \subseteq BOOLEAN
  /\ new_logical_pos \in 0 .. FileSize /\ seek_pos \in 0 .. FileSize
  /\ seek_ret \in -1 .. FileSize
  /\ ring \in Seq(0 .. FileSize - 1) /\ ring_space >= 0
  /\ read_pos \in 0 .. Min({ReadBack, Len(ring)})
  /\ logical_pos \in 0 .. FileSize /\ logical_size \in {FileSize, 0}
  /\ io_error \in Errors \cup {"none"} /\ inner_io_error \in Errors \cup {"none"}
  /\ bpc \in {"loop", "write", "exit"} /\ inner_pos \in 0 .. FileSize
  /\ ret \in 0 .. Chunk
  /\ to_copy \in 0 .. Chunk /\ to_copy <= ring_space
  /\ asleep \subseteq {"client", "task"}

\* The position of the client, or the one it learns when it wakes up in
\* async_seek.
Position == IF pc = "seek" /\ seek_completed /\ seek_ret >= 0 THEN seek_ret
                                                              ELSE logical_pos

\* The ring is the part of the file around logical_pos that inner_pos ends,
\* whatever seeks, fast or not, were mixed with what the thread reads ahead,
\* until the client aborts.
RingMatches ==
  ~abort_request =>
    /\ inner_pos = Position - read_pos + Len(ring)
    /\ \A i \in 1 .. Len(ring) : ring[i] = Position - read_pos + i - 1

\* What a read returns are the bytes at the position of the client, at least one
\* of them, and AVERROR_EOF only at the end of the file.
ReadCorrect ==
  /\ last.ret = "OK" => /\ last.data # <<>>
                        /\ \A i \in 1 .. Len(last.data) :
                             last.data[i] = last.pos + i - 1
  /\ last.ret = "EOF" => last.pos = FileSize

\* Read, seek and close return, although the client is woken only by the thread,
\* and the thread only by the client.
CallReturns == (pc # "idle") ~> (pc \in {"idle", "closed"})
=============================================================================
