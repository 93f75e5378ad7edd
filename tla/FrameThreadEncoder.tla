-------------------------- MODULE FrameThreadEncoder --------------------------
(***************************************************************************)
(* libavcodec/frame_thread_encoder.c: an encoder whose frames are encoded  *)
(* by several threads, under the send/receive interface of                 *)
(* libavcodec/encode.c, with frames from a BufferPool.                     *)
(*                                                                         *)
(* The client gets a buffer from the pool, draws frame n into it, sends it *)
(* and drops its own reference, while the threads drop theirs, so that     *)
(* buffers return to the pool from either side.  What is done under a      *)
(* mutex is one action; buffer_mutex is held by the thread that returns    *)
(* its frame.                                                              *)
(***************************************************************************)
EXTENDS BufferPool, FiniteSets

CONSTANTS ThreadCount,  \* avctx->thread_count
          MaxFrames,    \* bound: frames the client sends
          Unencodable,  \* the frames for which encode2 fails
          None

ASSUME CountAssumption == ThreadCount \in Nat \ {0, 1} /\ MaxFrames \in Nat
ASSUME NoneAssumption ==
  /\ None \notin {"send", "recv"}
  /\ None \notin [pts : 1 .. MaxFrames, buf : Buffers]
  /\ None \notin [pts : 1 .. MaxFrames, shows : 1 .. MaxFrames]
ASSUME ThreadsAssumption == Threads = 0 .. ThreadCount

Main == 0
Workers == 1 .. ThreadCount

\* One more than the tasks that can be outstanding (frame_thread_encoder.c:34).
max_tasks == ThreadCount + 2
Slots == 0 .. max_tasks - 1

VARIABLES
  pc, caller,                 \* the API call in progress and its next statement
  draining, draining_done, buffer_frame, buffer_pkt,   \* AVCodecInternal
  tasks, task_index, next_task_index, finished_task_index, exit,
  wpc, mine,                  \* the threads: next statement, index of the task
  asleep,                     \* who waits on its condition variable
  spawned,                    \* threads created so far
  frame,                      \* the client's frame
  sent, received,
  cut                         \* did an error end the drain?

api     == <<pc, caller, draining, draining_done, buffer_frame, buffer_pkt>>
indices == <<task_index, next_task_index, finished_task_index>>
ring    == <<tasks, indices, exit>>
threads == <<wpc, mine, asleep, spawned>>
user    == <<frame, sent, received, cut>>
vars    == <<poolVars, api, ring, threads, user>>

\* A task without a packet when it is finished returned an error.
NoTask == [indata |-> None, outdata |-> None, finished |-> FALSE]

Init ==
  /\ PoolInit
  /\ pc = "init" /\ caller = None
  /\ draining = FALSE /\ draining_done = FALSE
  /\ buffer_frame = None /\ buffer_pkt = None
  /\ tasks = [i \in Slots |-> NoTask]
  /\ task_index = 0 /\ next_task_index = 0 /\ finished_task_index = 0
  /\ exit = FALSE
  /\ wpc = [w \in Workers |-> "none"] /\ mine = [w \in Workers |-> 0]
  /\ asleep = {} /\ spawned = 0
  /\ frame = None
  /\ sent = 0 /\ received = <<>> /\ cut = FALSE

Next_(i) == (i + 1) % max_tasks

-----------------------------------------------------------------------------
(* ff_frame_thread_encoder_init *)

Spawn ==
  /\ pc = "init"
  /\ spawned' = spawned + 1
  /\ wpc' = [wpc EXCEPT ![spawned + 1] = "loop"]
  /\ pc' = IF spawned' = ThreadCount THEN "idle" ELSE "init"
  /\ UNCHANGED <<poolVars, caller, draining, draining_done, buffer_frame,
                 buffer_pkt, ring, mine, asleep, user>>

\* A context or a thread cannot be created: those there are are freed.
SpawnFails ==
  /\ pc = "init"
  /\ pc' = "free"
  /\ UNCHANGED <<poolVars, caller, draining, draining_done, buffer_frame,
                 buffer_pkt, ring, threads, user>>

-----------------------------------------------------------------------------
(* worker *)

Awake(t) == t \notin asleep

buffer_mutex_free(w) ==
  \A u \in Workers \ {w} : wpc[u] = "unref" => busy[u] = Free

\* The test of exit without the mutex, at the head of the loop, ends the thread
\* as this one does; it closes its own context under buffer_mutex.
WorkerExits(w) ==
  /\ wpc[w] = "loop" /\ Awake(w) /\ exit /\ buffer_mutex_free(w)
  /\ wpc' = [wpc EXCEPT ![w] = "dead"]
  /\ UNCHANGED <<poolVars, api, ring, mine, asleep, spawned, user>>

WorkerWaits(w) ==
  /\ wpc[w] = "loop" /\ Awake(w) /\ ~exit
  /\ next_task_index = task_index
  /\ asleep' = asleep \cup {w}
  /\ UNCHANGED <<poolVars, api, ring, wpc, mine, spawned, user>>

WorkerTakes(w) ==
  /\ wpc[w] = "loop" /\ Awake(w) /\ ~exit
  /\ next_task_index # task_index
  /\ mine' = [mine EXCEPT ![w] = next_task_index]
  /\ next_task_index' = Next_(next_task_index)
  /\ wpc' = [wpc EXCEPT ![w] = "encode"]
  /\ UNCHANGED <<poolVars, api, tasks, task_index, finished_task_index, exit,
                 asleep, spawned, user>>

\* encode2, for encoders that give one packet for each frame: it shows what the
\* buffer shows, with the timestamp of the frame.
WorkerEncodes(w) ==
  LET i == mine[w]
      in == tasks[i].indata IN
  /\ wpc[w] = "encode"
  /\ tasks' = IF in.pts \in Unencodable THEN tasks
              ELSE [tasks EXCEPT ![i].outdata = [pts   |-> in.pts,
                                                 shows |-> data[in.buf]]]
  /\ wpc' = [wpc EXCEPT ![w] = "unref"]
  /\ UNCHANGED <<poolVars, api, indices, exit, mine, asleep, spawned, user>>

WorkerUnrefs(w) ==
  LET i == mine[w] IN
  /\ wpc[w] = "unref" /\ buffer_mutex_free(w) /\ tasks[i].indata # None
  /\ av_buffer_unref(w, tasks[i].indata.buf)
  /\ tasks' = [tasks EXCEPT ![i].indata = None]
  /\ UNCHANGED <<api, indices, exit, threads, user>>

WorkerFinishes(w) ==
  /\ wpc[w] = "unref" /\ busy[w] = Free /\ tasks[mine[w]].indata = None
  /\ tasks' = [tasks EXCEPT ![mine[w]].finished = TRUE]
  /\ asleep' = asleep \ {Main}
  /\ wpc' = [wpc EXCEPT ![w] = "loop"] /\ mine' = [mine EXCEPT ![w] = 0]
  /\ UNCHANGED <<poolVars, api, indices, exit, spawned, user>>

Worker(w) ==
  \/ WorkerExits(w) \/ WorkerWaits(w) \/ WorkerTakes(w) \/ WorkerEncodes(w)
  \/ WorkerUnrefs(w) \/ WorkerFinishes(w)
  \/ Release(w) /\ UNCHANGED <<api, ring, threads, user>>
-----------------------------------------------------------------------------
(* The client's frames: refcounts and the pool. *)

Ready == busy[Main] = Free

GetBuffer ==
  /\ pc = "idle" /\ frame = None /\ ~draining /\ sent < MaxFrames
  /\ \E b \in Buffers : av_buffer_pool_get(Main, b)
  /\ UNCHANGED <<api, ring, threads, user>>

Draw ==
  /\ PoolCount(Main)
  /\ data' = [data EXCEPT ![busy[Main].buf] = sent + 1]
  /\ frame' = [pts |-> sent + 1, buf |-> busy[Main].buf]
  /\ UNCHANGED <<api, ring, threads, sent, received, cut>>

DropFrame ==
  /\ pc \in {"idle", "closed"} /\ frame # None
  /\ frame.pts <= sent \/ draining \/ pc = "closed"
  /\ av_buffer_unref(Main, frame.buf)
  /\ frame' = None
  /\ UNCHANGED <<api, ring, threads, sent, received, cut>>

Uninit ==
  /\ pc = "closed" \/ (pc = "idle" /\ draining)
  /\ av_buffer_pool_uninit(Main)
  /\ UNCHANGED <<api, ring, threads, user>>

-----------------------------------------------------------------------------
(* avcodec_send_frame and avcodec_receive_packet.  A frame is encoded ahead *)
(* unless a packet waits.                                                   *)

EncodeAhead == /\ pc' = IF buffer_pkt = None THEN "encode" ELSE "idle"
               /\ caller' = IF buffer_pkt = None THEN "send" ELSE None

SendFrame ==
  /\ pc = "idle" /\ Ready /\ frame # None /\ frame.pts > sent
  /\ ~draining /\ buffer_frame = None
  /\ av_buffer_ref(frame.buf)
  /\ buffer_frame' = frame
  /\ sent' = sent + 1
  /\ EncodeAhead
  /\ UNCHANGED <<draining, draining_done, buffer_pkt, ring, threads, frame,
                 received, cut>>

SendEOF ==
  /\ pc = "idle" /\ Ready /\ ~draining /\ buffer_frame = None
  /\ draining' = TRUE
  /\ EncodeAhead
  /\ UNCHANGED <<poolVars, draining_done, buffer_frame, buffer_pkt, ring, threads,
                 user>>

ReceivePacket ==
  /\ pc = "idle" /\ Ready
  /\ IF buffer_pkt # None
     THEN /\ received' = Append(received, buffer_pkt)
          /\ buffer_pkt' = None
          /\ UNCHANGED <<pc, caller>>
     ELSE /\ pc' = "encode" /\ caller' = "recv"
          /\ UNCHANGED <<received, buffer_pkt>>
  /\ UNCHANGED <<poolVars, draining, draining_done, buffer_frame, ring, threads,
                 frame, sent, cut>>

\* encode_receive_packet_internal returns, with packet p or without.
EncodeReturns(p) ==
  /\ pc' = "idle" /\ caller' = None
  /\ IF caller = "send"
     THEN buffer_pkt' = p /\ UNCHANGED received
     ELSE /\ received' = IF p = None THEN received ELSE Append(received, p)
          /\ UNCHANGED buffer_pkt

\* AVERROR_EOF, or AVERROR(EAGAIN) for want of a frame.
EncodeNothing ==
  /\ pc = "encode"
  /\ draining_done \/ (~draining /\ buffer_frame = None)
  /\ EncodeReturns(None)
  /\ UNCHANGED <<poolVars, draining, draining_done, buffer_frame, ring, threads,
                 frame, sent, cut>>

-----------------------------------------------------------------------------
(* ff_thread_video_encode_frame; it has a frame unless the encoder drains. *)

QueueTask ==
  /\ pc = "encode" /\ ~draining /\ buffer_frame # None
  /\ tasks' = [tasks EXCEPT ![task_index].indata = buffer_frame]
  /\ buffer_frame' = None
  /\ task_index' = Next_(task_index)
  /\ IF asleep \cap Workers = {} THEN UNCHANGED asleep
     ELSE \E w \in asleep \cap Workers : asleep' = asleep \ {w}
  /\ pc' = "fetch"
  /\ UNCHANGED <<poolVars, caller, draining, draining_done, buffer_pkt,
                 next_task_index, finished_task_index, exit, wpc, mine, spawned,
                 user>>

Fetching == pc = "fetch" \/ (pc = "encode" /\ draining /\ ~draining_done)

outtask == tasks[finished_task_index]
Outstanding == (task_index - finished_task_index + max_tasks) % max_tasks

\* One more task than there are indices for.
NothingYet_OffByOne ==
  \/ task_index = finished_task_index
  \/ ~draining /\ ~outtask.finished /\ Outstanding <= ThreadCount + 1

NothingYet ==
  \/ task_index = finished_task_index
  \/ ~draining /\ ~outtask.finished /\ Outstanding <= ThreadCount

\* No packet: encode_simple_receive_packet asks for another frame; a drain is
\* over (encode.c:249).
FetchNothing ==
  /\ Fetching /\ NothingYet
  /\ draining_done' = draining
  /\ pc' = "encode"
  /\ UNCHANGED <<poolVars, caller, draining, buffer_frame, buffer_pkt, ring,
                 threads, user>>

\* The caller tests finished, with finished_task_mutex held.
Looks == (Fetching /\ ~NothingYet) \/ (pc = "await" /\ Awake(Main))

FetchWait ==
  /\ Looks /\ ~outtask.finished
  /\ asleep' = asleep \cup {Main}
  /\ pc' = "await"
  /\ UNCHANGED <<poolVars, caller, draining, draining_done, buffer_frame,
                 buffer_pkt, ring, wpc, mine, spawned, user>>

\* "We now own outtask completely."  An error while draining ends the drain.
Take ==
  /\ Looks /\ outtask.finished
  /\ tasks' = [tasks EXCEPT ![finished_task_index].finished = FALSE,
                            ![finished_task_index].outdata = None]
  /\ finished_task_index' = Next_(finished_task_index)
  /\ EncodeReturns(outtask.outdata)
  /\ draining_done' = (draining /\ outtask.outdata = None)
  /\ cut' = draining_done'
  /\ UNCHANGED <<poolVars, draining, buffer_frame, task_index, next_task_index,
                 exit, threads, frame, sent>>

-----------------------------------------------------------------------------
(* ff_frame_thread_encoder_free *)

Close ==
  /\ pc = "idle" /\ Ready
  /\ pc' = "free"
  /\ UNCHANGED <<poolVars, caller, draining, draining_done, buffer_frame,
                 buffer_pkt, ring, threads, user>>

\* One thread is woken.
FreeExit_SignalsOne ==
  /\ pc = "free"
  /\ exit' = TRUE
  /\ IF asleep \cap Workers = {} THEN UNCHANGED asleep
     ELSE \E w \in asleep \cap Workers : asleep' = asleep \ {w}
  /\ pc' = "join"
  /\ UNCHANGED <<poolVars, caller, draining, draining_done, buffer_frame,
                 buffer_pkt, tasks, indices, wpc, mine, spawned, user>>

FreeExit ==
  /\ pc = "free"
  /\ exit' = TRUE
  /\ asleep' = asleep \ Workers
  /\ pc' = "join"
  /\ UNCHANGED <<poolVars, caller, draining, draining_done, buffer_frame,
                 buffer_pkt, tasks, indices, wpc, mine, spawned, user>>

Join ==
  /\ pc = "join"
  /\ \A w \in 1 .. spawned : wpc[w] = "dead"
  /\ pc' = "drop"
  /\ UNCHANGED <<poolVars, caller, draining, draining_done, buffer_frame,
                 buffer_pkt, ring, threads, user>>

\* Frames no thread took, then the frame that avcodec_close finds.
FreeTask ==
  /\ pc = "drop"
  /\ \E i \in Slots :
       /\ tasks[i].indata # None
       /\ \A j \in 0 .. i - 1 : tasks[j].indata = None
       /\ av_buffer_unref(Main, tasks[i].indata.buf)
       /\ tasks' = [tasks EXCEPT ![i].indata = None]
  /\ UNCHANGED <<api, indices, exit, threads, user>>

FreeFrame ==
  /\ pc = "drop" /\ buffer_frame # None
  /\ \A i \in Slots : tasks[i].indata = None
  /\ av_buffer_unref(Main, buffer_frame.buf)
  /\ buffer_frame' = None
  /\ UNCHANGED <<pc, caller, draining, draining_done, buffer_pkt, ring, threads,
                 user>>

Freed ==
  /\ pc = "drop" /\ Ready /\ buffer_frame = None
  /\ \A i \in Slots : tasks[i].indata = None
  /\ pc' = "closed"
  /\ UNCHANGED <<poolVars, caller, draining, draining_done, buffer_frame,
                 buffer_pkt, ring, threads, user>>

Closed == pc = "closed" /\ UNCHANGED vars

-----------------------------------------------------------------------------
SpuriousWakeup ==
  /\ \E t \in asleep : asleep' = asleep \ {t}
  /\ UNCHANGED <<poolVars, api, ring, wpc, mine, spawned, user>>

Client == \/ GetBuffer \/ DropFrame \/ Uninit
          \/ SendFrame \/ SendEOF \/ ReceivePacket \/ Close

InCall ==
  \/ Spawn \/ Draw
  \/ Release(Main) /\ UNCHANGED <<api, ring, threads, user>>
  \/ EncodeNothing \/ QueueTask \/ FetchNothing \/ FetchWait \/ Take
  \/ FreeExit \/ Join \/ FreeTask \/ FreeFrame \/ Freed

Next == \/ Client \/ InCall \/ SpawnFails
        \/ \E w \in Workers : Worker(w)
        \/ SpuriousWakeup \/ Closed

Spec == Init /\ [][Next]_vars

\* Every thread runs; encode2 returns.
FairSpec == /\ Spec /\ WF_vars(InCall)
            /\ \A w \in Workers : WF_vars(Worker(w))

-----------------------------------------------------------------------------
Frames == 1 .. MaxFrames
FrameType == [pts : Frames, buf : Buffers] \cup {None}
PacketType == [pts : Frames, shows : Frames] \cup {None}

\* Types of the state; the threads own different tasks, and the caller hands out
\* no task that is still somebody's (frame_thread_encoder.c:85, :320).
TypeOK ==
  /\ pc \in {"init", "idle", "encode", "fetch", "await", "free", "join", "drop",
             "closed"}
  /\ caller \in {"send", "recv", None}
  /\ {draining, draining_done, exit, cut} \subseteq BOOLEAN
  /\ {buffer_frame, frame} \subseteq FrameType /\ buffer_pkt \in PacketType
  /\ \A i \in Slots : /\ tasks[i].indata \in FrameType
                      /\ tasks[i].outdata \in PacketType
  /\ {task_index, next_task_index, finished_task_index} \subseteq Slots
  /\ wpc \in [Workers -> {"none", "loop", "encode", "unref", "dead"}]
  /\ mine \in [Workers -> Slots] /\ asleep \subseteq Threads
  /\ sent \in 0 .. MaxFrames /\ received \in Seq(PacketType \ {None})
  /\ \A w, u \in Workers :
       /\ wpc[w] = "encode" => tasks[mine[w]].indata # None
       /\ wpc[w] \in {"encode", "unref"} /\ wpc[u] \in {"encode", "unref"} /\ w # u
            => mine[w] # mine[u]
  /\ pc = "encode" /\ buffer_frame # None => tasks[task_index] = NoTask

Pts(s) == {s[i].pts : i \in DOMAIN s}

\* The packets come in the order of their frames and show what the client drew
\* into that frame, although its buffer returns to the pool as soon as it is
\* encoded; a drain that no failure cut short ends after the last packet.
PacketsInOrder ==
  /\ \A i \in 1 .. Len(received) : received[i].shows = received[i].pts
  /\ \A i, j \in 1 .. Len(received) : i < j => received[i].pts < received[j].pts
  /\ draining_done /\ pc = "idle" /\ buffer_pkt = None /\ ~cut
       => Pts(received) \cup (Unencodable \cap 1 .. sent) = 1 .. sent

\* Every call returns, avcodec_close and avcodec_open2, when a thread cannot be
\* created, included.
CallReturns == (pc # "idle") ~> (pc \in {"idle", "closed"})
=============================================================================
