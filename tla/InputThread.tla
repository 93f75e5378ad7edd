---------------------------- MODULE InputThread ----------------------------
(***************************************************************************)
(* The thread of ffmpeg that reads an input file (fftools/ffmpeg.c:4093),  *)
(* and what its main thread does with that thread's queue.  The queue is   *)
(* the MessageQueue that ThreadMessage implements; a call that blocks is   *)
(* one whose action is not enabled.                                        *)
(***************************************************************************)
EXTENDS Packets

CONSTANT thread_queue_size

\* Without a queue there is no thread (ffmpeg.c:4173).
ASSUME QueueAssumption == thread_queue_size \in Nat \ {0}

VARIABLES inq, in_err_send, in_err_recv, in_ret,   \* f->in_thread_queue
          non_blocking,                            \* f->non_blocking
          ipc,                                     \* next statement of the thread
          flags,                                   \* is its send NONBLOCK?
          nread                                    \* packets read

inQueue   == <<inq, in_err_send, in_err_recv, in_ret>>
inThread  == <<ipc, flags, nread>>
inputVars == <<inQueue, inThread, non_blocking>>

InputUsers == {"input", "main"}

In == INSTANCE MessageQueue
        WITH Threads <- InputUsers, Msgs <- Pkts, Cap <- thread_queue_size,
             q <- inq, err_send <- in_err_send, err_recv <- in_err_recv,
             call <- [t \in InputUsers |-> Idle], ret <- in_ret

InputInit ==
  /\ In!Init
  /\ non_blocking \in BOOLEAN
  /\ ipc = "none" /\ flags = FALSE /\ nread = 0

\* The thread is created.
init_input_thread ==
  /\ ipc = "none"
  /\ ipc' = "read" /\ flags' = non_blocking
  /\ UNCHANGED <<inQueue, nread, non_blocking>>

-----------------------------------------------------------------------------
(* input_thread.  AVERROR(EAGAIN) of av_read_frame changes nothing. *)

ReadPacket ==
  /\ ipc = "read" /\ nread < MaxPkts
  /\ nread' = nread + 1
  /\ ipc' = "send"
  /\ UNCHANGED <<inQueue, flags, non_blocking>>

\* The end of the file, an error, or no memory for the packet that was read.
ReadFails ==
  /\ ipc = "read"
  /\ \E e \in {EOF, EIO, ENOMEM} :
       /\ (e = EOF) <=> (nread = MaxPkts)
       /\ In!SetErrRecv(e)
  /\ ipc' = "dead"
  /\ UNCHANGED <<flags, nread, non_blocking>>

SendPacket ==
  /\ ipc = "send"
  /\ In!Put("input", nread)
  /\ ipc' = "read"
  /\ UNCHANGED <<flags, nread, non_blocking>>

\* The queue is full: from now on the thread waits for room.
SendWouldBlock ==
  /\ ipc = "send" /\ flags /\ In!CannotPut
  /\ In!TryAgain("input")
  /\ flags' = FALSE
  /\ UNCHANGED <<ipc, nread, non_blocking>>

SendFails ==
  /\ ipc = "send"
  /\ In!PutError("input", nread)
  /\ ipc' = "report"
  /\ UNCHANGED <<flags, nread, non_blocking>>

\* The thread just ends.
ReportFailure_Silent ==
  /\ ipc = "report"
  /\ ipc' = "dead"
  /\ UNCHANGED <<inQueue, flags, nread, non_blocking>>

ReportFailure ==
  /\ ipc = "report"
  /\ In!SetErrRecv(in_ret["input"])
  /\ ipc' = "dead"
  /\ UNCHANGED <<flags, nread, non_blocking>>

input_thread == \/ ReadPacket \/ ReadFails \/ SendPacket \/ SendWouldBlock
                \/ SendFails \/ ReportFailure

-----------------------------------------------------------------------------
(* The main thread's calls. *)

get_input_packet_mt ==
  /\ \/ In!Get("main") \/ In!GetError("main")
     \/ non_blocking /\ In!CannotGet /\ In!TryAgain("main")
  /\ UNCHANGED <<inThread, non_blocking>>

StopInput ==
  /\ In!SetErrSend(EOF)
  /\ UNCHANGED <<inThread, non_blocking>>

DrainInput ==
  /\ In!Get("main")
  /\ UNCHANGED <<inThread, non_blocking>>

DrainEnds ==
  /\ In!GetError("main")
  /\ UNCHANGED <<inThread, non_blocking>>

JoinInput ==
  /\ ipc \in {"none", "dead"}
  /\ UNCHANGED inputVars

-----------------------------------------------------------------------------
InputTypeOK ==
  /\ inq \in Seq(Pkts) /\ Len(inq) <= thread_queue_size
  /\ {in_err_send, in_err_recv} \subseteq Errors \cup {NoError}
  /\ in_ret \in [InputUsers -> Pkts \cup Errors \cup {OK, EAGAIN}]
  /\ {non_blocking, flags} \subseteq BOOLEAN
  /\ ipc \in {"none", "read", "send", "report", "dead"}
  /\ nread \in 0 .. MaxPkts
=============================================================================
