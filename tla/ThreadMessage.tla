--------------------------- MODULE ThreadMessage ---------------------------
(***************************************************************************)
(* libavutil/threadmessage.c: the message queue between threads, a ring    *)
(* under one mutex with a condition variable for each side.                *)
(*                                                                         *)
(* A call holds the mutex from its entry to its return except inside       *)
(* pthread_cond_wait.  So what a thread does between two acquisitions of   *)
(* the mutex is one action: it either finishes the call or goes to sleep   *)
(* in one of the two wait sets.  A signal moves one sleeper, any of them,  *)
(* out of its wait set and a broadcast all of them; a thread that was      *)
(* moved out evaluates its loop condition again when it next acquires the  *)
(* mutex, after any number of steps of the others.                         *)
(***************************************************************************)
EXTENDS Fifo, FiniteSets

CONSTANTS Threads, Msgs,
          Errors,      \* the error codes a client may set
          Cap,         \* nelem
          NoError,     \* err_send or err_recv is 0
          OK, EAGAIN, Idle

ASSUME CapAssumption == Cap \in Nat \ {0} /\ Cap < IdxMod
ASSUME ThreadsAssumption == IsFiniteSet(Threads)
ASSUME ErrorAssumption == NoError \notin Errors
ASSUME CallAssumption ==
  /\ \A m \in Msgs : Idle # [op |-> "send", msg |-> m]
  /\ Idle # [op |-> "recv"]

VARIABLES fifo, err_send, err_recv,
          waitSend, waitRecv,   \* who sleeps on cond_send and on cond_recv
          call,                 \* call[t]: the unfinished call of t, or Idle
          ret                   \* ret[t]: what the last finished call returned

vars == <<fifo, err_send, err_recv, waitSend, waitRecv, call, ret>>

SendCall(m) == [op |-> "send", msg |-> m]
RecvCall    == [op |-> "recv"]
Calls       == {SendCall(m) : m \in Msgs} \cup {RecvCall}

Init == /\ fifo = av_fifo_alloc(Cap)
        /\ err_send = NoError /\ err_recv = NoError
        /\ waitSend = {} /\ waitRecv = {}
        /\ call = [t \in Threads |-> Idle]
        /\ ret  = [t \in Threads |-> OK]

\* Thread t evaluates the loop condition of call c: it has just entered it, or
\* it has been woken.
AtLoop(t, c) == call[t] \in {Idle, c} /\ t \notin waitSend \cup waitRecv

Return(t, v) == /\ call' = [call EXCEPT ![t] = Idle]
                /\ ret'  = [ret EXCEPT ![t] = v]

\* pthread_cond_signal: the wait set afterwards.
Signalled(waiters, after) ==
  \/ waiters = {} /\ after = {}
  \/ \E t \in waiters : after = waiters \ {t}

-----------------------------------------------------------------------------
(* av_thread_message_queue_send *)

\* Off by one: one message more than there are slots.
SendFull_OffByOne == err_send = NoError /\ av_fifo_space(fifo) < 0

SendFull == err_send = NoError /\ av_fifo_space(fifo) < 1

SendDone(t, m) ==
  /\ AtLoop(t, SendCall(m))
  /\ ~SendFull /\ err_send = NoError
  /\ fifo' = av_fifo_write(fifo, m)
  /\ Signalled(waitRecv, waitRecv')
  /\ Return(t, OK)
  /\ UNCHANGED <<err_send, err_recv, waitSend>>

SendError(t, m) ==
  /\ AtLoop(t, SendCall(m))
  /\ err_send # NoError
  /\ Return(t, err_send)
  /\ UNCHANGED <<fifo, err_send, err_recv, waitSend, waitRecv>>

SendWait(t, m) ==
  /\ AtLoop(t, SendCall(m))
  /\ SendFull
  /\ call' = [call EXCEPT ![t] = SendCall(m)]
  /\ waitSend' = waitSend \cup {t}
  /\ UNCHANGED <<fifo, err_send, err_recv, waitRecv, ret>>

\* AV_THREAD_MESSAGE_NONBLOCK: such a call never sleeps, so it is never resumed.
SendNonblock(t) ==
  /\ call[t] = Idle
  /\ SendFull
  /\ Return(t, EAGAIN)
  /\ UNCHANGED <<fifo, err_send, err_recv, waitSend, waitRecv>>

-----------------------------------------------------------------------------
(* av_thread_message_queue_recv *)

RecvEmpty == err_recv = NoError /\ av_fifo_size(fifo) < 1

\* Without the signal to the senders.
RecvDone_NoSignal(t) ==
  /\ AtLoop(t, RecvCall)
  /\ av_fifo_size(fifo) >= 1
  /\ fifo' = av_fifo_read(fifo)
  /\ Return(t, av_fifo_peek(fifo))
  /\ UNCHANGED <<err_send, err_recv, waitSend, waitRecv>>

\* The messages that are left are delivered before an error is reported.
RecvDone(t) ==
  /\ AtLoop(t, RecvCall)
  /\ av_fifo_size(fifo) >= 1
  /\ fifo' = av_fifo_read(fifo)
  /\ Signalled(waitSend, waitSend')
  /\ Return(t, av_fifo_peek(fifo))
  /\ UNCHANGED <<err_send, err_recv, waitRecv>>

\* The error first, whatever the queue still holds.
RecvError_TooEarly(t) ==
  /\ AtLoop(t, RecvCall)
  /\ err_recv # NoError
  /\ Return(t, err_recv)
  /\ UNCHANGED <<fifo, err_send, err_recv, waitSend, waitRecv>>

RecvError(t) ==
  /\ AtLoop(t, RecvCall)
  /\ ~RecvEmpty /\ av_fifo_size(fifo) < 1
  /\ Return(t, err_recv)
  /\ UNCHANGED <<fifo, err_send, err_recv, waitSend, waitRecv>>

RecvWait(t) ==
  /\ AtLoop(t, RecvCall)
  /\ RecvEmpty
  /\ call' = [call EXCEPT ![t] = RecvCall]
  /\ waitRecv' = waitRecv \cup {t}
  /\ UNCHANGED <<fifo, err_send, err_recv, waitSend, ret>>

RecvNonblock(t) ==
  /\ call[t] = Idle
  /\ RecvEmpty
  /\ Return(t, EAGAIN)
  /\ UNCHANGED <<fifo, err_send, err_recv, waitSend, waitRecv>>

-----------------------------------------------------------------------------
\* Without the broadcast.
SetErrSend_NoBroadcast(e) ==
  /\ err_send' = e
  /\ UNCHANGED <<fifo, err_recv, waitSend, waitRecv, call, ret>>

SetErrSend(e) ==
  /\ err_send' = e
  /\ waitSend' = {}
  /\ UNCHANGED <<fifo, err_recv, waitRecv, call, ret>>

SetErrRecv(e) ==
  /\ err_recv' = e
  /\ waitRecv' = {}
  /\ UNCHANGED <<fifo, err_send, waitSend, call, ret>>

\* One sender is woken, although every slot is now free.
Flush_SignalsOne ==
  /\ fifo' = av_fifo_drain(fifo, av_fifo_size(fifo))
  /\ Signalled(waitSend, waitSend')
  /\ UNCHANGED <<err_send, err_recv, waitRecv, call, ret>>

\* av_thread_message_flush.  Only the senders are woken: a receiver has
\* nothing to read.
Flush ==
  /\ fifo' = av_fifo_drain(fifo, av_fifo_size(fifo))
  /\ waitSend' = {}
  /\ UNCHANGED <<err_send, err_recv, waitRecv, call, ret>>

\* POSIX lets pthread_cond_wait return with no signal.
SpuriousWakeup(t) ==
  /\ t \in waitSend \cup waitRecv
  /\ waitSend' = waitSend \ {t}
  /\ waitRecv' = waitRecv \ {t}
  /\ UNCHANGED <<fifo, err_send, err_recv, call, ret>>

Send(t, m) == SendDone(t, m) \/ SendError(t, m) \/ SendWait(t, m)
Recv(t)    == RecvDone(t) \/ RecvError(t) \/ RecvWait(t)

Next ==
  \/ \E t \in Threads :
       \/ \E m \in Msgs : Send(t, m)
       \/ Recv(t)
       \/ SendNonblock(t) \/ RecvNonblock(t)
       \/ SpuriousWakeup(t)
  \/ \E e \in Errors \cup {NoError} : SetErrSend(e) \/ SetErrRecv(e)
  \/ Flush

Spec == Init /\ [][Next]_vars

\* A thread that was woken acquires the mutex again after a while: nobody
\* keeps it for longer than one of the actions above.
Resume(t) == /\ call[t] # Idle
             /\ \/ \E m \in Msgs : Send(t, m)
                \/ Recv(t)

FairSpec == Spec /\ \A t \in Threads : WF_vars(Resume(t))

-----------------------------------------------------------------------------
SendPending == {t \in Threads : call[t] # Idle /\ call[t] # RecvCall}
RecvPending == {t \in Threads : call[t] = RecvCall}
WokenSend   == SendPending \ waitSend
WokenRecv   == RecvPending \ waitRecv

\* Types of the state; the sleepers of a side have an unfinished call of
\* that side.
TypeOK ==
  /\ fifo \in FifoType(Msgs, Cap)
  /\ err_send \in Errors \cup {NoError} /\ err_recv \in Errors \cup {NoError}
  /\ call \in [Threads -> Calls \cup {Idle}]
  /\ DOMAIN ret = Threads
  /\ waitSend \subseteq SendPending /\ waitRecv \subseteq RecvPending

\* The ring never holds more than its slots and its two positions agree with
\* its two indices, although the indices overflow: av_fifo_generic_write does
\* not check, the loop condition of send_locked does.
RingCoherent == Coherent(fifo)

\* No wakeup is lost.  While anybody sleeps on a side there are as many threads
\* already woken on that side as there are messages to take, or slots to fill;
\* and nobody sleeps on a side that has an error.  A signal for each message
\* (threadmessage.c:133, :150) and broadcasts for the errors and the flush are
\* enough only because of this.
NoLostWakeup ==
  /\ waitRecv # {} => Cardinality(WokenRecv) >= av_fifo_size(fifo)
  /\ waitSend # {} => Cardinality(WokenSend) >= av_fifo_space(fifo)
  /\ err_recv # NoError => waitRecv = {}
  /\ err_send # NoError => waitSend = {}

\* The ring, the mutex, the wait sets and the signals implement a bounded
\* first-in first-out queue: every call returns what it would return if it
\* took effect at once, at the step where it finishes.
Abstract == INSTANCE MessageQueue WITH q <- Contents(fifo)
ImplementsQueue == Abstract!Spec

\* A receive does not stay blocked while messages can be taken, nor a send while
\* there is room: either the situation ends again and again, or messages are
\* taken, or sent, again and again.
Progress ==
  /\ \/ []<>(RecvPending = {} \/ av_fifo_size(fifo) = 0)
     \/ []<><<\E t \in Threads : RecvDone(t)>>_vars
  /\ \/ []<>(SendPending = {} \/ av_fifo_space(fifo) = 0 \/ err_send # NoError)
     \/ []<><<\E t \in Threads, m \in Msgs : SendDone(t, m)>>_vars

\* An error set on a side ends the calls blocked on that side, unless it is
\* taken back: threadmessage.h:76-77 and :86-88, "will return it immediately".
ErrorUnblocks ==
  \A t \in Threads :
    /\ (t \in SendPending /\ err_send # NoError) ~> (t \notin SendPending \/ err_send = NoError)
    /\ (t \in RecvPending /\ err_recv # NoError) ~> (t \notin RecvPending \/ err_recv = NoError)
=============================================================================
