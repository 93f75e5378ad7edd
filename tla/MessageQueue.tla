---------------------------- MODULE MessageQueue ----------------------------
(***************************************************************************)
(* What libavutil/threadmessage.h promises: a bounded first-in first-out   *)
(* queue of messages shared by threads, whose send blocks while the queue  *)
(* is full and whose receive blocks while it is empty, with an error code  *)
(* for each side that ends the blocking (threadmessage.h:67-88).           *)
(*                                                                         *)
(* There is no lock, no condition variable, no signal and no ring here: a  *)
(* pending call takes effect and returns in one step.                      *)
(***************************************************************************)
EXTENDS Integers, Sequences

CONSTANTS Threads, Msgs, Errors, Cap, NoError, OK, EAGAIN, Idle

VARIABLES q,          \* the messages, oldest first
          err_send, err_recv,
          call,       \* call[t]: the blocked call of thread t, or Idle
          ret         \* ret[t]: what the last finished call of t returned

vars == <<q, err_send, err_recv, call, ret>>

SendCall(m) == [op |-> "send", msg |-> m]
RecvCall    == [op |-> "recv"]

Init == /\ q = <<>>
        /\ err_send = NoError /\ err_recv = NoError
        /\ call = [t \in Threads |-> Idle]
        /\ ret  = [t \in Threads |-> OK]

Return(t, v) == /\ call' = [call EXCEPT ![t] = Idle]
                /\ ret'  = [ret EXCEPT ![t] = v]

\* A send takes effect: only on a queue with room and without an error.
Put(t, m) == /\ call[t] \in {Idle, SendCall(m)}
             /\ err_send = NoError /\ Len(q) < Cap
             /\ q' = Append(q, m)
             /\ Return(t, OK)
             /\ UNCHANGED <<err_send, err_recv>>

PutError(t, m) == /\ call[t] \in {Idle, SendCall(m)}
                  /\ err_send # NoError
                  /\ Return(t, err_send)
                  /\ UNCHANGED <<q, err_send, err_recv>>

\* A receive takes the oldest message.
Get(t) == /\ call[t] \in {Idle, RecvCall}
          /\ q # <<>>
          /\ q' = Tail(q)
          /\ Return(t, Head(q))
          /\ UNCHANGED <<err_send, err_recv>>

\* A receive returns the error only when no message is left.
GetError(t) == /\ call[t] \in {Idle, RecvCall}
               /\ q = <<>> /\ err_recv # NoError
               /\ Return(t, err_recv)
               /\ UNCHANGED <<q, err_send, err_recv>>

CannotPut == err_send = NoError /\ Len(q) = Cap
CannotGet == err_recv = NoError /\ q = <<>>

\* A call that cannot be served blocks, or gives up at once when the caller
\* asked for that.
Block(t, c) == /\ call[t] = Idle
               /\ IF c = RecvCall THEN CannotGet ELSE CannotPut
               /\ call' = [call EXCEPT ![t] = c]
               /\ UNCHANGED <<q, err_send, err_recv, ret>>

TryAgain(t) == /\ call[t] = Idle
               /\ CannotPut \/ CannotGet
               /\ Return(t, EAGAIN)
               /\ UNCHANGED <<q, err_send, err_recv>>

SetErrSend(e) == /\ err_send' = e
                 /\ UNCHANGED <<q, err_recv, call, ret>>

SetErrRecv(e) == /\ err_recv' = e
                 /\ UNCHANGED <<q, err_send, call, ret>>

Flush == /\ q' = <<>>
         /\ UNCHANGED <<err_send, err_recv, call, ret>>

Next ==
  \/ \E t \in Threads :
       \/ \E m \in Msgs : Put(t, m) \/ PutError(t, m) \/ Block(t, SendCall(m))
       \/ Get(t) \/ GetError(t) \/ Block(t, RecvCall) \/ TryAgain(t)
  \/ \E e \in Errors \cup {NoError} : SetErrSend(e) \/ SetErrRecv(e)
  \/ Flush

Spec == Init /\ [][Next]_vars
=============================================================================
