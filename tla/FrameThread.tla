---------------------------- MODULE FrameThread ----------------------------
(***************************************************************************)
(* libavcodec/pthread_frame.c: frame threading.  Packet n is decoded by    *)
(* thread n mod thread_count.  A thread first sets up (it parses headers,  *)
(* gets its buffer); then the next thread may copy its context and start,  *)
(* while it goes on decoding.  The caller gets results in packet order,    *)
(* thread_count - 1 packets late, and through the same calls, with empty   *)
(* packets, what is left at the end.                                       *)
(*                                                                         *)
(* The codec is part of the environment: Kinds lists what is known of it,  *)
(* and what it does with a packet is a choice.  p->mutex is held by the    *)
(* worker except while it waits for a packet ("wait").  A critical section *)
(* of progress_mutex is one step.  Frames are named by their packets, 0 is *)
(* no frame and, as a packet, the empty packet of a drain.                 *)
(***************************************************************************)
EXTENDS Integers, FiniteSets

CONSTANTS
  ThreadCount,  \* avctx->thread_count
  MaxPackets,   \* bound: packets
  MaxFlushes,   \* bound: calls of avcodec_flush_buffers
  MaxFailures,  \* bound: failures of update_thread_context
  Kinds         \* [update, safe, cap_delay, reorder, ffv1: BOOLEAN, hw: Hwaccel]

Hwaccel == {"none", "async_safe", "async_unsafe"}

ASSUME CountAssumption == ThreadCount \in Nat \ {0, 1}
ASSUME BoundsAssumption == MaxPackets \in Nat /\ MaxFlushes \in Nat /\ MaxFailures \in Nat
\* A hwaccel is chosen in get_format, before the setup ends; only a codec with
\* update_thread_context ends it by itself (pthread_frame.c:208-213).
ASSUME KindsAssumption ==
  /\ Kinds \subseteq [update : BOOLEAN, safe : BOOLEAN, cap_delay : BOOLEAN,
                      reorder : BOOLEAN, ffv1 : BOOLEAN, hw : Hwaccel]
  /\ \A k \in Kinds : /\ k.hw # "none" => k.update
                      /\ k.reorder => k.update /\ k.cap_delay

Main    == -1
Threads == 0 .. ThreadCount - 1
Packets == 1 .. MaxPackets

VARIABLES
  kind,
  (* the caller *)
  mpc, avpkt, i, got, err,
  next_packet, draining, draining_done, closing, flushes, failures,
  (* FrameThreadContext *)
  prev_thread, next_decoding, next_finished, delaying, async_lock, stash_hwaccel,
  hwaccel_mutex, buffer_mutex,   \* their owners
  (* PerThreadContext, and the thread's place in the code *)
  p, wpc,
  asleep,        \* threads in pthread_cond_wait
  owner, progress,  \* of frames: ThreadFrame.owner, the frames fully reported
  (* what was done so far, for the properties *)
  taken, made, returned, hwaccel_now

call    == <<avpkt, i, got, err>>
client  == <<next_packet, draining, draining_done, closing, flushes, failures>>
fctx    == <<prev_thread, next_decoding, next_finished, delaying>>
hwvars  == <<stash_hwaccel, hwaccel_mutex>>
frames  == <<owner, progress>>
history == <<taken, made, returned, hwaccel_now>>
vars == <<kind, mpc, call, client, fctx, async_lock, hwvars, buffer_mutex,
          p, wpc, asleep, frames, history>>

NewContext == [seen |-> 0, held |-> 0, ref |-> 0]

Init ==
  /\ kind \in Kinds
  /\ mpc = "user" /\ avpkt = 0 /\ i = 0 /\ got = 0 /\ err = FALSE
  /\ next_packet = 1 /\ draining = FALSE /\ draining_done = FALSE
  /\ closing = FALSE /\ flushes = 0 /\ failures = 0
  /\ prev_thread = Main /\ next_decoding = 0 /\ next_finished = 0
  /\ delaying = TRUE /\ async_lock = TRUE /\ stash_hwaccel = "none"
  /\ hwaccel_mutex = Main /\ buffer_mutex = Main
  /\ p = [t \in Threads |->
            [state |-> "INPUT_READY", avpkt |-> 0, ctx |-> NewContext,
             hwaccel |-> "none", hwaccel_serializing |-> FALSE,
             async_serializing |-> FALSE, frame |-> 0, got_frame |-> FALSE,
             failed |-> FALSE, outcome |-> "none", out |-> 0, await |-> 0,
             back |-> "wait", die |-> FALSE]]
  /\ wpc = [t \in Threads |-> "wait"]
  /\ asleep = {}
  /\ owner = [f \in Packets |-> Main] /\ progress = {}
  /\ taken = {} /\ made = {} /\ returned = {} /\ hwaccel_now = "none"

-----------------------------------------------------------------------------
(* Condition variables.  progress_cond of a thread is shared by the thread *)
(* (get_buffer, get_format), the caller (end of setup, callbacks) and by   *)
(* threads that wait for a frame it decodes; output_cond has the caller.   *)

OnProgress(t) ==
  {x \in asleep :
     IF x = Main THEN \/ mpc = "update" /\ prev_thread = t
                      \/ mpc = "serve" /\ next_decoding = t
     ELSE \/ wpc[x] \in {"get_format", "get_buffer"} /\ x = t
          \/ wpc[x] = "await" /\ owner[p[x].await] = t}

OnOutput(t) == {x \in asleep : x = Main /\ mpc \in {"fetch", "park"} /\ i = t}

Broadcast(t) == asleep' = asleep \ OnProgress(t)

Signal(t) == IF OnProgress(t) = {} THEN UNCHANGED asleep
             ELSE \E x \in OnProgress(t) : asleep' = asleep \ {x}

MainSleeps == asleep' = asleep \cup {Main}

-----------------------------------------------------------------------------
(* ff_thread_decode_frame and submit_packet; decode_simple_internal        *)

\* Only a codec with AV_CODEC_CAP_DELAY is given the empty packet.
Submits(pkt) == pkt # 0 \/ kind.cap_delay

\* The result of the packet that is submitted is asked for at once.
Enter_Newest(pkt) ==
  /\ async_lock' = FALSE
  /\ avpkt' = pkt /\ i' = next_decoding /\ got' = 0 /\ err' = FALSE
  /\ mpc' = IF Submits(pkt) THEN "submit" ELSE "submitted"
  /\ UNCHANGED <<kind, fctx, hwvars, buffer_mutex, p, wpc, asleep, frames, history>>

\* async_unlock lets threads with a hwaccel that is not async safe go on.
Enter(pkt) ==
  /\ async_lock' = FALSE
  /\ avpkt' = pkt /\ i' = next_finished /\ got' = 0 /\ err' = FALSE
  /\ mpc' = IF Submits(pkt) THEN "submit" ELSE "submitted"
  /\ UNCHANGED <<kind, fctx, hwvars, buffer_mutex, p, wpc, asleep, frames, history>>

SendPacket ==
  /\ mpc = "user" /\ ~draining /\ next_packet <= MaxPackets
  /\ Enter(next_packet)
  /\ next_packet' = next_packet + 1
  /\ UNCHANGED <<draining, draining_done, closing, flushes, failures>>

Drain ==
  /\ mpc = "user" /\ ~draining_done
  /\ Enter(0)
  /\ draining' = TRUE
  /\ UNCHANGED <<next_packet, draining_done, closing, flushes, failures>>

\* Locks the worker's mutex: it must be waiting for a packet.
Submit ==
  /\ mpc = "submit" /\ wpc[next_decoding] = "wait"
  /\ mpc' = IF prev_thread = Main THEN "transfer" ELSE "update"
  /\ UNCHANGED <<kind, call, client, fctx, async_lock, hwvars, buffer_mutex, p,
                 wpc, asleep, frames, history>>

AwaitSetup ==
  /\ mpc = "update" /\ Main \notin asleep
  /\ p[prev_thread].state = "SETTING_UP"
  /\ MainSleeps
  /\ UNCHANGED <<kind, mpc, call, client, fctx, async_lock, hwvars, buffer_mutex,
                 p, wpc, frames, history>>

SetupDone == p[prev_thread].state # "SETTING_UP"

CopyContext(dst, src) ==
  IF kind.update THEN [p EXCEPT ![dst].ctx = p[src].ctx] ELSE p

UpdateContext ==
  /\ mpc = "update" /\ Main \notin asleep /\ SetupDone
  /\ p' = CopyContext(next_decoding, prev_thread)
  /\ mpc' = "transfer"
  /\ UNCHANGED <<kind, call, client, fctx, async_lock, hwvars, buffer_mutex,
                 wpc, asleep, frames, history>>

\* update_thread_context fails: the packet is dropped.
UpdateFails ==
  /\ mpc = "update" /\ Main \notin asleep /\ SetupDone
  /\ kind.update /\ failures < MaxFailures
  /\ failures' = failures + 1
  /\ err' = TRUE /\ mpc' = "lock"
  /\ UNCHANGED <<kind, avpkt, i, got, next_packet, draining, draining_done,
                 closing, flushes, fctx, async_lock, hwvars, buffer_mutex, p, wpc, asleep,
                 frames, history>>

Transfer ==
  /\ mpc = "transfer"
  /\ p' = [p EXCEPT ![next_decoding].hwaccel = stash_hwaccel,
                    ![next_decoding].avpkt = avpkt,
                    ![next_decoding].state = "SETTING_UP"]
  /\ stash_hwaccel' = p[next_decoding].hwaccel
  /\ taken' = taken \cup ({avpkt} \ {0})
  /\ mpc' = IF kind.safe THEN "submitted" ELSE "serve"
  /\ UNCHANGED <<kind, call, client, fctx, async_lock, hwaccel_mutex,
                 buffer_mutex, wpc, asleep, frames, made, returned, hwaccel_now>>

\* Callbacks that are not thread safe are called here, for the worker.
Serving == mpc = "serve" /\ Main \notin asleep

AwaitRequest ==
  /\ Serving /\ p[next_decoding].state = "SETTING_UP"
  /\ MainSleeps
  /\ UNCHANGED <<kind, mpc, call, client, fctx, async_lock, hwvars, buffer_mutex,
                 p, wpc, frames, history>>

ServeBuffer ==
  /\ Serving /\ p[next_decoding].state = "GET_BUFFER"
  /\ \E failed \in BOOLEAN :
       p' = [p EXCEPT ![next_decoding].failed = failed,
                      ![next_decoding].state = "SETTING_UP"]
  /\ Signal(next_decoding)
  /\ UNCHANGED <<kind, mpc, call, client, fctx, async_lock, hwvars, buffer_mutex,
                 wpc, frames, history>>

ServeFormat ==
  /\ Serving /\ p[next_decoding].state = "GET_FORMAT"
  /\ \E hw \in {"none", kind.hw} :
       /\ p' = [p EXCEPT ![next_decoding].hwaccel = hw,
                         ![next_decoding].state = "SETTING_UP"]
       /\ hwaccel_now' = hw
  /\ Signal(next_decoding)
  /\ UNCHANGED <<kind, mpc, call, client, fctx, async_lock, hwvars, buffer_mutex,
                 wpc, frames, taken, made, returned>>

Served ==
  /\ Serving /\ p[next_decoding].state \in {"SETUP_FINISHED", "INPUT_READY"}
  /\ mpc' = "submitted"
  /\ UNCHANGED <<kind, call, client, fctx, async_lock, hwvars, buffer_mutex, p,
                 wpc, asleep, frames, history>>

\* No frame is returned for the first packets.
Filled == next_decoding' > ThreadCount - 1 - (IF kind.ffv1 THEN 1 ELSE 0)

\* prev_thread is set after the increment.
Submitted_Incremented ==
  /\ mpc = "submitted"
  /\ IF Submits(avpkt)
     THEN prev_thread' = next_decoding + 1 /\ next_decoding' = next_decoding + 1
     ELSE UNCHANGED <<prev_thread, next_decoding>>
  /\ delaying' = (delaying /\ ~Filled)
  /\ mpc' = IF delaying' /\ avpkt # 0 THEN "lock" ELSE "fetch"
  /\ UNCHANGED <<kind, call, client, next_finished, async_lock, hwvars, buffer_mutex,
                 p, wpc, asleep, frames, history>>

Submitted ==
  /\ mpc = "submitted"
  /\ IF Submits(avpkt)
     THEN prev_thread' = next_decoding /\ next_decoding' = next_decoding + 1
     ELSE UNCHANGED <<prev_thread, next_decoding>>
  /\ delaying' = (delaying /\ ~Filled)
  /\ mpc' = IF delaying' /\ avpkt # 0 THEN "lock" ELSE "fetch"
  /\ UNCHANGED <<kind, call, client, next_finished, async_lock, hwvars, buffer_mutex,
                 p, wpc, asleep, frames, history>>

AwaitOutput ==
  /\ mpc = "fetch" /\ Main \notin asleep
  /\ p[i].state # "INPUT_READY"
  /\ MainSleeps
  /\ UNCHANGED <<kind, mpc, call, client, fctx, async_lock, hwvars, buffer_mutex,
                 p, wpc, frames, history>>

OutputReady == p[i].state = "INPUT_READY"

\* A thread without a frame ends the drain.
Fetch_NoSkip ==
  LET next == IF i + 1 >= ThreadCount THEN 0 ELSE i + 1
      skip == FALSE
  IN
  /\ mpc = "fetch" /\ Main \notin asleep /\ OutputReady
  /\ got' = (IF p[i].got_frame THEN p[i].frame ELSE 0) /\ err' = p[i].failed
  /\ p' = [p EXCEPT ![i].frame = 0, ![i].got_frame = FALSE, ![i].failed = FALSE]
  /\ i' = next
  /\ IF skip THEN UNCHANGED <<mpc, next_decoding, next_finished>>
     ELSE /\ mpc' = "lock"
          /\ next_decoding' = IF next_decoding >= ThreadCount THEN 0
                              ELSE next_decoding
          /\ next_finished' = next
  /\ UNCHANGED <<kind, avpkt, client, prev_thread, delaying, async_lock, hwvars,
                 buffer_mutex, wpc, asleep, frames, history>>

\* A drain skips threads that have neither a frame nor an error, once round.
Fetch ==
  LET next == IF i + 1 >= ThreadCount THEN 0 ELSE i + 1
      skip == avpkt = 0 /\ ~p[i].got_frame /\ ~p[i].failed /\ next # next_finished
  IN
  /\ mpc = "fetch" /\ Main \notin asleep /\ OutputReady
  /\ got' = (IF p[i].got_frame THEN p[i].frame ELSE 0) /\ err' = p[i].failed
  /\ p' = [p EXCEPT ![i].frame = 0, ![i].got_frame = FALSE, ![i].failed = FALSE]
  /\ i' = next
  /\ IF skip THEN UNCHANGED <<mpc, next_decoding, next_finished>>
     ELSE /\ mpc' = "lock"
          /\ next_decoding' = IF next_decoding >= ThreadCount THEN 0
                              ELSE next_decoding
          /\ next_finished' = next
  /\ UNCHANGED <<kind, avpkt, client, prev_thread, delaying, async_lock, hwvars,
                 buffer_mutex, wpc, asleep, frames, history>>

\* async_lock, and back to the caller with a frame, nothing or an error.
Return ==
  /\ mpc = "lock" /\ ~async_lock
  /\ async_lock' = TRUE
  /\ returned' = returned \cup ({got} \ {0})
  /\ draining_done' = (draining_done \/ (draining /\ got = 0 /\ ~err))
  /\ mpc' = "user"
  /\ avpkt' = 0 /\ i' = 0 /\ got' = 0 /\ err' = FALSE
  /\ UNCHANGED <<kind, next_packet, draining, closing, flushes, failures, fctx, hwvars,
                 buffer_mutex, p, wpc, asleep, frames, taken, made, hwaccel_now>>

-----------------------------------------------------------------------------
(* frame_worker_thread.  kept: what a step of a worker leaves alone.       *)

kept == <<kind, mpc, call, client, fctx>>

Goto(t, pc) == wpc' = [wpc EXCEPT ![t] = pc]

\* A codec that needs no setup, or whose callbacks are safe, is through with it.
Start(t) ==
  /\ wpc[t] = "wait" /\ p[t].state # "INPUT_READY" /\ ~p[t].die
  /\ IF ~kind.update /\ kind.safe
     THEN Goto(t, "finish_setup") /\ p' = [p EXCEPT ![t].back = "decode"]
     ELSE Goto(t, "decode") /\ UNCHANGED p
  /\ UNCHANGED <<kept, async_lock, hwvars, buffer_mutex, asleep, frames, history>>

Die(t) ==
  /\ wpc[t] = "wait" /\ p[t].die
  /\ Goto(t, "exit")
  /\ UNCHANGED <<kept, async_lock, hwvars, buffer_mutex, p, asleep, frames, history>>

\* A thread that was given a hwaccel runs alone.  codec->decode is called; what
\* it will make of the packet is chosen here.
Decode(t) ==
  /\ wpc[t] = "decode"
  /\ p[t].hwaccel # "none" => hwaccel_mutex = Main
  /\ hwaccel_mutex' = IF p[t].hwaccel # "none" THEN t ELSE hwaccel_mutex
  /\ \E outcome \in IF p[t].avpkt = 0 THEN {"none"} ELSE {"pic", "none", "err"} :
       /\ p' = [p EXCEPT ![t].hwaccel_serializing = p[t].hwaccel # "none",
                         ![t].frame = 0, ![t].got_frame = FALSE,
                         ![t].outcome = outcome]
       /\ \/ outcome = "pic" /\ kind.hw # "none" /\ Goto(t, "ff_get_format")
          \/ Goto(t, IF outcome = "pic" THEN "ff_get_buffer" ELSE "setup")
  /\ UNCHANGED <<kept, async_lock, stash_hwaccel, buffer_mutex, asleep, frames,
                 history>>

\* ff_thread_get_format
GetFormat(t) ==
  /\ wpc[t] = "ff_get_format"
  /\ IF kind.safe
     THEN /\ \E hw \in {"none", kind.hw} :
               p' = [p EXCEPT ![t].hwaccel = hw] /\ hwaccel_now' = hw
          /\ Goto(t, "ff_get_buffer")
          /\ UNCHANGED asleep
     ELSE /\ p' = [p EXCEPT ![t].state = "GET_FORMAT"]
          /\ Goto(t, "get_format") /\ Broadcast(t)
          /\ UNCHANGED hwaccel_now
  /\ UNCHANGED <<kept, async_lock, hwvars, buffer_mutex, frames, taken, made, returned>>

\* ff_thread_get_buffer
GetBuffer(t) ==
  /\ wpc[t] = "ff_get_buffer" /\ buffer_mutex = Main
  /\ owner' = [owner EXCEPT ![p[t].avpkt] = t]
  /\ IF kind.safe
     THEN /\ \E failed \in BOOLEAN :
               p' = [p EXCEPT ![t].outcome = IF failed THEN "err" ELSE "pic"]
          /\ Goto(t, "setup")
          /\ UNCHANGED <<buffer_mutex, asleep>>
     ELSE /\ p' = [p EXCEPT ![t].state = "GET_BUFFER"]
          /\ buffer_mutex' = t
          /\ Goto(t, "get_buffer") /\ Broadcast(t)
  /\ UNCHANGED <<kept, async_lock, hwvars, progress, history>>

AwaitReply(t) ==
  /\ wpc[t] \in {"get_format", "get_buffer"} /\ t \notin asleep
  /\ p[t].state # "SETTING_UP"
  /\ asleep' = asleep \cup {t}
  /\ UNCHANGED <<kept, async_lock, hwvars, buffer_mutex, p, wpc, frames, history>>

FormatReply(t) ==
  /\ wpc[t] = "get_format" /\ t \notin asleep /\ p[t].state = "SETTING_UP"
  /\ Goto(t, "ff_get_buffer")
  /\ UNCHANGED <<kept, async_lock, hwvars, buffer_mutex, p, asleep, frames, history>>

BufferReply(t) ==
  /\ wpc[t] = "get_buffer" /\ t \notin asleep /\ p[t].state = "SETTING_UP"
  /\ p' = [p EXCEPT ![t].outcome = IF p[t].failed THEN "err" ELSE "pic",
                    ![t].back = "unlock_buffer"]
  /\ Goto(t, IF kind.update THEN "unlock_buffer" ELSE "finish_setup")
  /\ UNCHANGED <<kept, async_lock, hwvars, buffer_mutex, asleep, frames, history>>

UnlockBuffer(t) ==
  /\ wpc[t] = "unlock_buffer"
  /\ buffer_mutex' = Main
  /\ Goto(t, "setup")
  /\ UNCHANGED <<kept, async_lock, hwvars, p, asleep, frames, history>>

\* The codec updates its context: a picture is output now or, by a codec that
\* reorders, in the next one's place or at the end; the one before may be
\* referred to.  Then it may say that the setup is finished.
Setup(t) ==
  LET pkt  == p[t].avpkt
      pic  == p[t].outcome = "pic"
      c    == p[t].ctx
      swap == kind.reorder /\ (pic \/ pkt = 0)
  IN
  /\ wpc[t] = "setup"
  /\ made' = made \cup (IF pic THEN {pkt} ELSE {})
  /\ \E await \in {0} \cup (IF kind.update /\ pic THEN {c.ref} ELSE {}),
        finish \in IF ~kind.update THEN {FALSE}
                  ELSE IF p[t].hwaccel # "none" THEN {TRUE} ELSE BOOLEAN :
       /\ p' = [p EXCEPT
            ![t].ctx = [seen |-> IF pkt = 0 THEN c.seen ELSE pkt,
                        held |-> IF swap THEN pkt ELSE c.held,
                        ref  |-> IF pic THEN pkt ELSE c.ref],
            ![t].out = IF swap THEN c.held ELSE IF pic /\ ~kind.reorder THEN pkt ELSE 0,
            ![t].await = await,
            ![t].back = "await"]
       /\ Goto(t, IF finish THEN "finish_setup" ELSE "await")
  /\ UNCHANGED <<kept, async_lock, hwvars, buffer_mutex, asleep, frames, taken,
                 returned, hwaccel_now>>

\* ff_thread_await_progress
Await(t) ==
  /\ wpc[t] = "await" /\ t \notin asleep
  /\ IF p[t].await \in progress \cup {0}
     THEN /\ Goto(t, IF p[t].outcome = "pic" THEN "report" ELSE "return")
          /\ UNCHANGED asleep
     ELSE asleep' = asleep \cup {t} /\ UNCHANGED wpc
  /\ UNCHANGED <<kept, async_lock, hwvars, buffer_mutex, p, frames, history>>

\* ff_thread_report_progress of the last row
Report(t) ==
  /\ wpc[t] = "report"
  /\ progress' = progress \cup {p[t].avpkt}
  /\ Broadcast(t)
  /\ Goto(t, "return")
  /\ UNCHANGED <<kept, async_lock, hwvars, buffer_mutex, p, owner, history>>

\* codec->decode returns.
AfterDecode(t) == IF p[t].hwaccel_serializing \/ p[t].hwaccel # "none"
                  THEN "decoded" ELSE "ready"

DecodeReturns(t) ==
  /\ wpc[t] = "return"
  /\ p' = [p EXCEPT ![t].frame = p[t].out, ![t].got_frame = p[t].out # 0,
                    ![t].failed = p[t].outcome = "err", ![t].back = AfterDecode(t)]
  /\ Goto(t, IF p[t].state = "SETTING_UP" THEN "finish_setup" ELSE AfterDecode(t))
  /\ UNCHANGED <<kept, async_lock, hwvars, buffer_mutex, asleep, frames, history>>

\* The hwaccel is not taken from the thread.
Decoded_NoWipe(t) ==
  /\ wpc[t] = "decoded"
  /\ p' = [p EXCEPT ![t].hwaccel_serializing = FALSE]
  /\ hwaccel_mutex' = Main
  /\ Goto(t, IF p[t].async_serializing THEN "async_unlock" ELSE "ready")
  /\ UNCHANGED <<kept, async_lock, stash_hwaccel, buffer_mutex, asleep, frames, history>>

\* The hwaccel now belongs to the next thread.
Decoded(t) ==
  /\ wpc[t] = "decoded"
  /\ p' = [p EXCEPT ![t].hwaccel = "none", ![t].hwaccel_serializing = FALSE]
  /\ hwaccel_mutex' = Main
  /\ Goto(t, IF p[t].async_serializing THEN "async_unlock" ELSE "ready")
  /\ UNCHANGED <<kept, async_lock, stash_hwaccel, buffer_mutex, asleep, frames, history>>

AsyncUnlock(t) ==
  /\ wpc[t] = "async_unlock"
  /\ p' = [p EXCEPT ![t].async_serializing = FALSE]
  /\ async_lock' = FALSE
  /\ Goto(t, "ready")
  /\ UNCHANGED <<kept, hwvars, buffer_mutex, asleep, frames, history>>

\* The caller is not signalled.
Ready_NoSignal(t) ==
  /\ wpc[t] = "ready"
  /\ p' = [p EXCEPT ![t].state = "INPUT_READY", ![t].outcome = "none",
                    ![t].out = 0, ![t].await = 0, ![t].back = "wait"]
  /\ asleep' = asleep \ OnProgress(t)
  /\ Goto(t, "wait")
  /\ UNCHANGED <<kept, async_lock, hwvars, buffer_mutex, frames, history>>

\* The worker then waits for the next packet; what it knew of this one is gone.
Ready(t) ==
  /\ wpc[t] = "ready"
  /\ p' = [p EXCEPT ![t].state = "INPUT_READY", ![t].outcome = "none",
                    ![t].out = 0, ![t].await = 0, ![t].back = "wait"]
  /\ asleep' = asleep \ (OnProgress(t) \cup OnOutput(t))
  /\ Goto(t, "wait")
  /\ UNCHANGED <<kept, async_lock, hwvars, buffer_mutex, frames, history>>

-----------------------------------------------------------------------------
(* ff_thread_finish_setup                                                  *)

FinishSetup(t) ==
  /\ wpc[t] = "finish_setup"
  /\ LET lock == p[t].hwaccel # "none" /\ ~p[t].hwaccel_serializing IN
       /\ lock => hwaccel_mutex = Main
       /\ hwaccel_mutex' = IF lock THEN t ELSE hwaccel_mutex
       /\ p' = [p EXCEPT ![t].hwaccel_serializing = lock \/ @]
  /\ Goto(t, IF p[t].hwaccel = "async_unsafe" THEN "async_lock" ELSE "stash")
  /\ UNCHANGED <<kept, async_lock, stash_hwaccel, buffer_mutex, asleep, frames, history>>

\* async_lock does not wait.
AsyncLock_NoWait(t) ==
  /\ wpc[t] = "async_lock"
  /\ async_lock' = TRUE
  /\ p' = [p EXCEPT ![t].async_serializing = TRUE]
  /\ Goto(t, "stash")
  /\ UNCHANGED <<kept, hwvars, buffer_mutex, asleep, frames, history>>

\* Not while the caller is outside of the decoder.
AsyncLock(t) ==
  /\ wpc[t] = "async_lock" /\ ~async_lock
  /\ async_lock' = TRUE
  /\ p' = [p EXCEPT ![t].async_serializing = TRUE]
  /\ Goto(t, "stash")
  /\ UNCHANGED <<kept, hwvars, buffer_mutex, asleep, frames, history>>

Stash(t) ==
  /\ wpc[t] = "stash"
  /\ stash_hwaccel' = p[t].hwaccel
  /\ Goto(t, "setup_finished")
  /\ UNCHANGED <<kept, async_lock, hwaccel_mutex, buffer_mutex, p, asleep, frames, history>>

SetupFinished(t) ==
  /\ wpc[t] = "setup_finished"
  /\ p' = [p EXCEPT ![t].state = "SETUP_FINISHED"]
  /\ Broadcast(t)
  /\ Goto(t, p[t].back)
  /\ UNCHANGED <<kept, async_lock, hwvars, buffer_mutex, frames, history>>

-----------------------------------------------------------------------------
(* park_frame_worker_threads, ff_thread_flush and ff_frame_thread_free     *)

Park ==
  /\ async_lock' = FALSE
  /\ mpc' = "park" /\ i' = 0
  /\ UNCHANGED <<kind, avpkt, got, err, next_packet, draining, draining_done,
                 failures, fctx, hwvars, buffer_mutex, p, wpc, asleep, frames, history>>

Flush ==
  /\ mpc = "user" /\ flushes < MaxFlushes
  /\ flushes' = flushes + 1
  /\ Park
  /\ UNCHANGED closing

Free ==
  /\ mpc = "user"
  /\ closing' = TRUE
  /\ Park
  /\ UNCHANGED flushes

AwaitIdle ==
  /\ mpc = "park" /\ Main \notin asleep /\ i < ThreadCount
  /\ p[i].state # "INPUT_READY"
  /\ MainSleeps
  /\ UNCHANGED <<kind, mpc, call, client, fctx, async_lock, hwvars, buffer_mutex,
                 p, wpc, frames, history>>

Idle ==
  /\ mpc = "park" /\ Main \notin asleep /\ i < ThreadCount
  /\ p[i].state = "INPUT_READY"
  /\ p' = [p EXCEPT ![i].got_frame = FALSE]
  /\ i' = i + 1
  /\ UNCHANGED <<kind, mpc, avpkt, got, err, client, fctx, async_lock, hwvars,
                 buffer_mutex, wpc, asleep, frames, history>>

\* Thread 0 goes on with its own context.
Newest_Left == p

\* The newest context goes to thread 0, which takes the next packet.
Newest == IF prev_thread = Main THEN p ELSE CopyContext(0, prev_thread)

\* avcodec_flush_buffers; codec->flush drops the pictures held back.
Flushed ==
  /\ mpc = "park" /\ i = ThreadCount /\ ~closing /\ ~async_lock
  /\ async_lock' = TRUE
  /\ p' = [t \in Threads |->
             [Newest[t] EXCEPT !.frame = 0, !.got_frame = FALSE, !.failed = FALSE,
                               !.ctx.held = 0, !.ctx.ref = 0]]
  /\ next_decoding' = 0 /\ next_finished' = 0 /\ delaying' = TRUE
  /\ prev_thread' = Main
  /\ draining' = FALSE /\ draining_done' = FALSE
  /\ made' = returned
  /\ mpc' = "user" /\ i' = 0
  /\ UNCHANGED <<kind, avpkt, got, err, next_packet, closing, flushes, failures,
                 hwvars, buffer_mutex, wpc, asleep, frames, taken, returned, hwaccel_now>>

Freeing ==
  /\ mpc = "park" /\ i = ThreadCount /\ closing /\ ~async_lock
  /\ async_lock' = TRUE
  /\ p' = Newest
  /\ mpc' = "kill" /\ i' = 0
  /\ UNCHANGED <<kind, avpkt, got, err, client, fctx, hwvars, buffer_mutex, wpc,
                 asleep, frames, history>>

Kill ==
  /\ mpc = "kill" /\ i < ThreadCount /\ wpc[i] = "wait"
  /\ p' = [p EXCEPT ![i].die = TRUE]
  /\ mpc' = "join"
  /\ UNCHANGED <<kind, call, client, fctx, async_lock, hwvars, buffer_mutex, wpc,
                 asleep, frames, history>>

\* pthread_join; codec->close
Join ==
  /\ mpc = "join" /\ wpc[i] = "exit"
  /\ mpc' = "kill" /\ i' = i + 1
  /\ UNCHANGED <<kind, avpkt, got, err, client, fctx, async_lock, hwvars,
                 buffer_mutex, p, wpc, asleep, frames, history>>

\* The stashed hwaccel goes to the caller's context, where it is freed.
Freed ==
  /\ mpc = "kill" /\ i = ThreadCount
  /\ stash_hwaccel' = "none"
  /\ mpc' = "end"
  /\ UNCHANGED <<kind, call, client, fctx, async_lock, hwaccel_mutex, buffer_mutex,
                 p, wpc, asleep, frames, history>>

Ended == mpc = "end" /\ UNCHANGED vars

-----------------------------------------------------------------------------
Client == SendPacket \/ Drain \/ Flush \/ Free

\* pthread_cond_wait may return without a signal.
SpuriousWakeup ==
  /\ \E x \in asleep : asleep' = asleep \ {x}
  /\ UNCHANGED <<kind, mpc, call, client, fctx, async_lock, hwvars, buffer_mutex,
                 p, wpc, frames, history>>

CallStep ==
  \/ Submit \/ AwaitSetup \/ UpdateContext \/ UpdateFails \/ Transfer
  \/ AwaitRequest \/ ServeBuffer \/ ServeFormat \/ Served \/ Submitted
  \/ AwaitOutput \/ Fetch \/ Return
  \/ AwaitIdle \/ Idle \/ Flushed \/ Freeing \/ Kill \/ Join \/ Freed

WorkerStep(t) ==
  \/ Start(t) \/ Die(t) \/ Decode(t) \/ GetFormat(t) \/ GetBuffer(t)
  \/ AwaitReply(t) \/ FormatReply(t) \/ BufferReply(t) \/ UnlockBuffer(t)
  \/ Setup(t) \/ Await(t) \/ Report(t) \/ DecodeReturns(t) \/ Decoded(t)
  \/ AsyncUnlock(t) \/ Ready(t)
  \/ FinishSetup(t) \/ AsyncLock(t) \/ Stash(t) \/ SetupFinished(t)

Next == Client \/ CallStep \/ (\E t \in Threads : WorkerStep(t)) \/ SpuriousWakeup \/ Ended

Spec == Init /\ [][Next]_vars

\* Every thread that can run does; the caller runs while it is in a call.  A
\* mutex is given to each thread that keeps asking for it.
FairSpec == /\ Spec
            /\ WF_vars(CallStep)
            /\ \A t \in Threads : WF_vars(WorkerStep(t))

-----------------------------------------------------------------------------
(* Properties                                                              *)

\* Types of the state.
TypeOK ==
  /\ kind \in Kinds
  /\ mpc \in {"user", "submit", "update", "transfer", "serve", "submitted",
              "fetch", "lock", "park", "kill", "join", "end"}
  /\ avpkt \in Packets \cup {0} /\ got \in Packets \cup {0} /\ err \in BOOLEAN
  /\ i \in 0 .. ThreadCount
  /\ next_packet \in 1 .. MaxPackets + 1
  /\ {draining, draining_done, closing, delaying, async_lock} \subseteq BOOLEAN
  /\ flushes \in 0 .. MaxFlushes /\ failures \in 0 .. MaxFailures
  /\ {prev_thread, hwaccel_mutex, buffer_mutex} \subseteq Threads \cup {Main}
  /\ next_decoding \in 0 .. ThreadCount /\ next_finished \in Threads
  /\ stash_hwaccel \in Hwaccel /\ hwaccel_now \in Hwaccel
  /\ asleep \subseteq Threads \cup {Main}
  /\ owner \in [Packets -> Threads \cup {Main}]
  /\ progress \subseteq Packets /\ taken \subseteq Packets
  /\ made \subseteq Packets /\ returned \subseteq Packets

\* The assertions of pthread_frame.c:173, :214, :248, :460 and :671, and that
\* fctx->threads is not indexed beyond its end (:538).
Assertions ==
  /\ mpc = "submit" => next_decoding < ThreadCount
  /\ mpc = "transfer" => p[next_decoding].hwaccel = "none"
  /\ \A t \in Threads :
       /\ wpc[t] = "decode" => ~p[t].hwaccel_serializing
       /\ wpc[t] = "stash" => stash_hwaccel = "none"
       /\ wpc[t] \in {"async_unlock", "ready"} => p[t].hwaccel = "none"
       /\ wpc[t] = "async_unlock" => async_lock

\* Frames are returned in the order of their packets, none twice and each
\* complete, whichever thread decoded it and however late (:566, :590).
FramesInOrder ==
  [][/\ \A f \in returned' \ returned : \A g \in returned : g < f
     /\ got' # 0 => got' \in progress']_vars

\* When the end is reached, every picture that was decoded was returned, also
\* one a codec held back and one of a thread the drain skipped (:590).
NoFrameLost == draining_done /\ mpc = "user" => made = returned

\* A thread sets up with the context the thread of the packet before left, across
\* a flush too (:984).
ContextHandedOver ==
  \A t \in Threads :
    kind.update /\ wpc[t] = "setup" =>
      LET before == taken \ {p[t].avpkt} IN
        /\ p[t].ctx.seen \in before \cup {0}
        /\ \A n \in before : n <= p[t].ctx.seen

UsesHwaccel(t) ==
  /\ p[t].hwaccel # "none"
  /\ wpc[t] \in {"setup_finished", "await", "report", "return", "decoded"}

\* A packet is set up with the hwaccel that get_format chose last, which is used
\* by one thread at a time; one that is not async safe never while the caller is
\* outside of the decoder (:648, :666).
HwaccelAlone ==
  \A t \in Threads :
    /\ wpc[t] \in {"ff_get_format", "ff_get_buffer", "get_buffer", "unlock_buffer",
                   "setup"} => p[t].hwaccel = hwaccel_now
    /\ UsesHwaccel(t) =>
         /\ \A u \in Threads \ {t} : ~UsesHwaccel(u)
         /\ p[t].hwaccel = "async_unsafe" => mpc # "user"

\* Every call returns: decode, flush and free.
CallReturns == (mpc # "user") ~> (mpc \in {"user", "end"})

=============================================================================
