# TLA+ verification of tfcodecffmpeg

This repository is FFmpeg with a decoder (`libavcodec/tfvid.c`) and an encoder
(`libavcodec/tfenc.c`) for the Thinkforce hardware codecs. This directory holds
TLA+ models of the parts of it where threads meet: the two hardware codecs under
libavcodec's send/receive interface, the message queue between threads, the
slice thread pool, frame-threaded decoding and encoding, reference-counted
buffers and their pools, the asynchronous reading protocol, and ffmpeg's input
threads and fifo muxer, composed into a program that copies a stream. TLC checks
each model on small instances; for all of them TLAPS proves the safety results for
every number of threads, slots, packets and the like.

Run in this directory: `tlc -workers 2 -config X.cfg M`, `tlapm M.tla`.
`PROJECT.json` lists the runs with their modules and properties, the source
lines of every definition, the hazards, and for each property a mutant (a
plausible bug, written next to the definition it replaces) that makes TLC find
the property violated.

## 1. Inventory

### Modelled

| Component | State | Operations | Used by |
|---|---|---|---|
| `libavutil/fifo.c` AVFifoBuffer | a ring: read and write position, two 32-bit indices that overflow | alloc, reset, size, space, write, peek, read, drain; none checks for room | threadmessage, tfvid, tfenc, async |
| `libavutil/threadmessage.c` | a ring, an error code for each side, a mutex, two condition variables | send, recv (blocking or not), set_err_send, set_err_recv, flush | ffmpeg's input threads, the fifo muxer |
| `libavutil/slicethread.c` | workers with a mutex each, two atomic counters, `done`, `finished` | create, execute, free; `thread_worker`, `run_jobs` | slice threading of libavcodec, libavfilter, libswscale |
| `libavutil/buffer.c`, parts | a reference count per buffer; a pool's free list under a mutex and its atomic count | ref, unref, pool get, release, uninit | every frame and packet |
| `libavcodec/pthread_frame.c` | a thread per packet in flight, each with a codec context; rings of threads to submit to and to fetch from; four kinds of lock | decode, flush, free; progress, get_buffer, get_format, finish_setup in the workers | `decode.c`, every frame-threaded decoder |
| `libavcodec/frame_thread_encoder.c` | a ring of tasks with three indices under two mutexes, `exit` | init, encode_frame, free; the workers | `encode.c`, intra-only encoders |
| `libavcodec/tfvid.c` | `frame_queue`, `decoder_flushing`, `eos_sent`, `eos_received`, `closed`, the session | init, receive_frame, flush, close; the session's callback | `decode.c` |
| `libavcodec/tfenc.c` | `timestamp_list`, `output_buffer_ready_queue`, `closed`, the session | init, receive_packet, flush, close; the session's callback | `encode.c` |
| `libavcodec/decode.c`, `encode.c`, `bsf.c`, parts | the packet in the bitstream filter, `draining`, the frame or packet made ahead | avcodec_send_packet, receive_frame, send_frame, receive_packet, flush_buffers | the client |
| `libavformat/async.c` | a ring that keeps what was read, the client's position, a seek request and its answer, end and error | open, read, seek, close; the background thread | any demuxer over a slow protocol |
| `libavformat/fifo.c` | a message queue, `overflow_flag`; the writer's recovery count, `drop_until_keyframe`, `header_written` | write_header, write_packet, write_trailer, deinit; the writer thread | ffmpeg's output |
| `fftools/ffmpeg.c`, input threads | a message queue per input, `non_blocking` | init, get_input_packet_mt, free; the input thread | ffmpeg's main loop |

What makes each of them correct, and what is hard about it:

- **Message queue.** First in, first out; messages before errors; a blocked call
  returns when it can. Hard: a signal wakes one thread, a woken thread may find
  its message gone, errors and flushes change the condition of many sleepers.
- **Slice threads.** Each job once; nobody in `worker_func` when the call
  returns; distinct thread numbers; no worker carries the counters of one call
  into the next. Hard: there is no lock around the counters, one thread must
  know that it is the last, and the next call may start while a worker has
  reported but does not sleep yet.
- **Buffers and pools.** A buffer is in one place: referenced, on its way back,
  free, or gone; the pool ends exactly when its last buffer is back. Hard: counts
  are atomic and the list has a mutex, but nothing covers both, and the pool may
  be dropped while its buffers are with other threads.
- **Frame threads.** Frames in order, none lost at a drain, complete when
  returned; the context and the hwaccel go from thread to thread; calls return.
  Hard: one condition variable with waiters of three kinds, callbacks that the
  caller runs for the worker, a hwaccel handed over through a stash, a lock
  (`async_lock`) that a worker takes while the caller is inside the decoder.
- **Frame-threaded encoding.** Packets in the order of their frames, each showing its
  own frame; a task has one owner. Hard: the ring is full and empty by comparing
  indices, workers finish in any order, a frame's buffer is reused as soon as
  the worker drops it, and some frames fail.
- **tfvid.** Frames in order, complete at AVERROR_EOF, none of an old stream;
  the callback must not block the session. Hard: the caller looks at the queue
  without the mutex, twice, and acts in between; end of stream and flush race
  with the callback.
- **tfenc.** A packet carries its frame's timestamp. Hard: packets and timestamps
  are paired by their places in two rings of four slots nobody checks, one of
  them read without the lock under which the other thread writes it.
- **Async protocol.** A read returns the bytes of the client's position; the end is
  reported only at the end; calls return. Hard: the thread writes to the ring
  and the client moves in it without the mutex; each wakes the other and nobody
  else does; a seek may be given up while it is answered.
- **Input threads and fifo muxer.** The output's files are whole, packets are in order
  and none is lost that may not be; the program ends. Hard: three threads and two
  bounded queues, each end of which may stop first; a failed output is closed,
  opened again and the packet tried again; packets dropped by one thread, noticed
  by the other.

### Interaction

    client -> decode.c -> bitstream filter -> tfvid.c  -> session (external)
                                                ^            |  its own thread
                                                +- callback -+
    client -> encode.c -> tfenc.c -> session -> callback -> packet ring
    client -> decode.c -> pthread_frame.c -> worker threads -> AVCodec.decode
    client -> buffer pool -> encode.c -> frame_thread_encoder.c -> workers -> encode2
                  ^                                                   |
                  +------------------- last reference ----------------+
    demuxer -> async.c -> ring <- background thread -> inner protocol
    input thread -> threadmessage.c -> ffmpeg main -> threadmessage.c -> fifo.c writer
                      (fifo ring)                       (fifo ring)        -> muxer

### Not modelled

`PROJECT.json` names every other part with a reason. Those with concurrency or
ordering of their own are on the plan (section 7): the filter graph's frame queues,
mux interleaving, ffplay's queues, udp, the codecs' slice threading. The rest (codecs,
formats, filters, scalers, assembly, devices) is most of the tree and computes on
data in one thread: what could be stated about it is numeric or about formats, which
a model checker does not reach and the repository's own tests do.

## 2. Modules and the code

| Module | Models | Form |
|---|---|---|
| `Fifo` | `libavutil/fifo.c` for elements of one size | operators on a record; indices modulo `IdxMod` |
| `MessageQueue` | what `threadmessage.h` promises | abstract specification: a sequence, calls that take effect at once |
| `ThreadMessage` | `threadmessage.c` | lock, wait sets, signals; refines `MessageQueue` |
| `ThreadMessageProofs` | | the ring implements a sequence; invariant and refinement |
| `TfDecoder` | `tfvid.c`, `avcodec_send_packet`, `avcodec_receive_frame` | |
| `TfDecoderProofs` | | order, room and completeness of the decoder |
| `TfEncoder` | `tfenc.c`, `avcodec_send_frame`, `avcodec_receive_packet` | uses `Fifo` |
| `TfEncoderProofs` | | rings that may overrun; the two rings of the encoder |
| `SliceThread` | `slicethread.c` | |
| `SliceThreadProofs` | | jobs and thread numbers |
| `FrameThread` | `pthread_frame.c`, `decode_simple_internal` | |
| `FrameThreadProofs` | | locks, contexts and frames of the threads |
| `BufferPool` | `buffer.c` | actions of a thread on a buffer, to be composed |
| `FrameThreadEncoder` | `frame_thread_encoder.c`, `encode_simple_internal` | extends `BufferPool`: client and workers share its buffers |
| `FrameThreadEncoderProofs` | | the pool and the encoder |
| `Async` | `async.c` | |
| `AsyncProofs` | | the ring is the file around the client's position |
| `Packets` | | packets and codes shared by the next three |
| `InputThread` | input threads of `ffmpeg.c` | over `MessageQueue` |
| `FifoMuxer` | `libavformat/fifo.c` | over `MessageQueue` |
| `Remux` | the main thread of `ffmpeg.c` copying a stream | composes `InputThread` and `FifoMuxer` |
| `RemuxProofs` | | types, whole files, order and completeness of the output |
| `MC*` | | instances for TLC |

**Grain.** What a thread does under one mutex, up to the release or the
`pthread_cond_wait`, is one action; whatever it reads or writes without the
mutex is an action of its own. So `ThreadMessage` has one action per passage
from one acquisition to the next; `TfDecoder` and `TfEncoder` have an action
for every unlocked look at a queue; `SliceThread` splits `run_jobs` into the
read of the call's parameters, the draw of the first job, the job, and the draw
of the next; `FrameThread` has one action for each critical section of
`progress_mutex`; `BufferPool` separates the atomic count from the list, so that
a release takes three steps; `Async` reads the inner protocol piece by piece
into the ring while the client reads and seeks.

**Composition.** `InputThread` and `FifoMuxer` do not model the queue again. Each
instantiates `MessageQueue`, once for each queue, and a blocking call is an action
that is not enabled until the call can return. `ThreadMessageProofs` shows
that this is what the code's queue does (`Refinement`), and the run
`threadmessage` that a call which can return does (`Progress`).

**Condition variables.** A wait set per condition. A signal removes one member,
any of them, a broadcast all; spurious wakeups are actions. In `FrameThread`
`OnProgress(t)` says who sleeps on thread t's `progress_cond` (the caller,
which waits for the setup or for a request; the worker; threads that wait for a
frame it decodes). In `SliceThread` and `FrameThread` a worker that sleeps
has released its own mutex, and only there can the caller take it.

**Names.** Frames and packets are the numbers of the packets they come from.
A frame's timestamp in `TfEncoder` is its number, the byte at position n of a file in
`Async` is n, and in `FrameThreadEncoder` a buffer shows the number of the frame drawn
into it, so that a packet made from a reused buffer would show. A codec under
`FrameThread` is a record of what matters (has it `update_thread_context`, are its
callbacks thread safe, has it `AV_CODEC_CAP_DELAY`, does it hold a picture back, does
it report progress like ffv1, its hwaccel); what it does with a packet is a choice. In
`FifoMuxer` a packet carries how often its timestamps were converted.

**Stores seen out of order.** `libavutil/fifo.c:139` notes that a write needs a memory
barrier before the index is published. `TfEncoder` starts with `ordered` TRUE or
FALSE; when FALSE the index may be seen before the slot (`CallbackIndexFirst`).

**The outside world.** The hardware sessions take packets or frames in order up to
`Depth`, may give no picture for a packet (decoder), return the rest in order through
the callback, and when they are destroyed deliver some of what they hold, drop the
rest, and wait for a callback that runs. This follows from how the two files use
them and from their comments (`tfvid.c:206`). A decoder's session may report the
end by itself or together with its last picture (`setup.joint`; the callback handles both,
`tfvid.c:97-123`), and may refuse any packet and the end (`setup.refuses`, `:422`). The inner protocol of `Async`
returns some of the bytes asked for, the end, an error, or AVERROR_EXIT once
interrupted; its seeks may fail. The muxer under `FifoMuxer` may fail at its
header, at a packet, at a flush and at its trailer, with an error that is
recoverable, one that is not by default, AVERROR_EXIT, or (where `fifo.again`)
AVERROR(EAGAIN); `MaxFaults` times or, where `fifo.outage`, for ever. A packet whose
write fails is taken not to have been written.

## 3. Runs

| Run | Instance | Shows |
|---|---|---|
| `threadmessage` | 3 threads, 2 slots, one message, indices modulo 3; 167,000 states | types, ring, no lost wakeup, refinement of `MessageQueue`, progress of both sides, an error unblocks |
| `tfdecoder` | input queue of 1, 3 extra slots, 5 packets; a session of 2, plain, marking its last picture as the end, or refusing buffers; one of 3 that does both, with a flush, a new session that may fail and a client that ends the stream at any time; 800,000 | order, completeness, room for the callback and for packets, room to send after AVERROR(EAGAIN), calls return |
| `tfencoder` | 3 slots, session of 2, 6 frames, indices modulo 5, a flush; 333,000 | rings not overrun, packets and timestamps in step, queue alive under the callback, calls return |
| `slicethread` | 3 threads, up to 5 jobs, 2 calls; 112,000 | jobs, numbers, counters, execute and free return |
| `framethread` | 3 threads, 3 packets, 7 kinds of codec, one failing update; 2,600,000 | order, completeness, hwaccel, assertions of the file |
| `framethread_live` | 2 threads, 3 packets, a flush, the kinds that block; 553,000 | the context is handed over; every call returns |
| `async` | file of 7, ring of 3 and 2 to go back, reads of 2, short seeks of 2; 416,000 | the ring is the file around the position, reads are right, calls return |
| `encoder_pool` | 2 workers and the client, 4 tasks, 3 buffers, 5 frames of which one fails; 246,000 | order and content of packets, one owner per task and place per buffer, end of the pool, calls return |
| `remux` | 3 packets of which two are keyframes, queues of 1, 2 failures of the output or an outage, AVERROR(EAGAIN) or not, 7 setups; 1,632,000 | files whole, packets in order and complete, attempts bounded (without AVERROR(EAGAIN)), the program ends unless the writer recovers for ever |
| `tfdecoder_stale`, `tfdecoder_eager_eof`, `tfencoder_eof` | small | violated: see section 6 |

**Why the bounds are enough for what is asked.** With two slots a ring can be
empty, partly full and full, and an index that wraps at three wraps in each of
these states. Three threads are the fewest where a woken thread is overtaken by
a third. One kind of message suffices in `threadmessage` for wakeups and lengths; that
the order of different messages is kept is proved (`Refinement`). In the
decoder the five packets exceed the four slots of `frame_queue`, so that it is full
while the session and the filter hold packets too; one session is small enough for the
queue to be safe, the other is not. In the encoder six frames pass through
three slots, so rings and indices wrap. In the thread pool five jobs on three
threads give threads no further job, one, and several; the second call meets workers late
from the first. With three frame threads a drain has threads to skip, and three
packets reach each; with two threads and three packets a thread is used again. The file
of `async` is longer than its ring, which therefore fills, drops what was read
and is left by seeks in both directions, and a short seek ends beyond it. Five frames
on four tasks and three buffers use each kind again, while a failed one
leaves a gap. In `remux` queues of one are full and empty at once; two failures are the first
and one of the attempt to recover from it, which is also enough to exceed the
`max_recovery_attempts` of `Limited`. An outage has no such bound: the setups that have one end
by giving up, or drop a message after an attempt. The one kind of setup that TLC cannot run,
unlimited attempts during an outage without dropping, counts its attempts for ever; the
safety theorems hold for it too, and `Ends` exempts it (section 4).

**Deadlock** is checked everywhere but in `tfdecoder`, where a drain waits for an end of
stream that nobody can report if the session could not be created again or refused the
end: the code does this (`tfvid.c:483`) and `CallReturns` names the exception
(`EndLost`); and in `remux`, whose program ends.

Properties of one component share a run unless their instances have to differ: of
`FrameThread`, safety needs three threads, and liveness on that instance would not fit.

## 4. Fairness

Liveness is checked under weak fairness of each thread on its own steps:

- `ThreadMessage`: a thread that was woken acquires the mutex again. Nobody
  holds it longer than one action. New calls, errors and flushes are not fair.
- `TfDecoder`, `TfEncoder`: the caller goes on while it is in a call; the
  session works on what it has and runs its callback; destroying it returns when it can.
  A session that got the end reports it. A drain whose end did not get there
  (`EndLost`) waits for ever, and `CallReturns` asks nothing of it.
  The client need not call. The spinning waits of `tfvid.c` (:465, :483) sleep
  between looks, so they starve nobody.
- `SliceThread`, `FrameThread`, `FrameThreadEncoder`: each thread that can run does.
  Jobs, decoders and `encode2` return.
- `Async`: both threads run and the inner protocol answers, with data or with an error.
- `Remux`: the three threads run; `av_read_frame` and the underlying muxer return;
  time passes, so that an attempt to recover is eventually made. Failures need not cease,
  with one exception. A writer that may not drop packets and whose attempts are unlimited (the
  default of `max_recovery_attempts`), or do not count because they fail with
  AVERROR(EAGAIN), tries again as long as the output fails (`fifo.c:391-400`), and the main
  thread waits for it (`:634`). So does a writer without recovery or dropping that gets
  AVERROR(EAGAIN) once. There `Ends` holds only if the failures cease: it says that the
  program ends or, in one of these setups (`RetriesForEver`), is in that loop for ever. The main thread
  is the program, so it goes on by itself; a user who quits is never assumed, and a
  `non_blocking` main thread that finds nothing comes back.

Spurious wakeups are never forced, and no property needs one. No property assumes that a
client calls again, nor strong fairness.

## 5. Proofs

Each `*Proofs` module extends its component and proves `Spec => []IInv` for an
inductive invariant `IInv` (checked by TLC before it was proved), one lemma for `Init`
and one for the steps, with a case per action; the theorems follow from `IInv`. All hold
for every value of the constants that satisfies the named assumptions.

The ring of `Fifo` has lemmas of its own, for every number of slots and every index
width greater than it, stated where they are used. In `ThreadMessageProofs`: after a
write, `Contents` has the element at its end; a read removes the head; a drain empties;
positions and indices stay coherent although they wrap. In `TfEncoderProofs`, which needs
most of these too and has them again, also for a ring read without a lock: the slot that
is being filled is not one the ring holds (`CopyUnseen`), and publishing it completes the
write (`PublishWrites`); and for a ring that may overrun: every operation keeps the types,
and the size counts writes and reads until the indices overflow twice (`SizeCounts`).

### Message queue

`ThreadMessageProofs`, for every finite set of threads, every set of messages
and errors, and every capacity:

| Theorem | Statement |
|---|---|
| `TypeCorrect` | `Spec => []TypeOK` |
| `RingStaysCoherent` | `Spec => []RingCoherent`: no overrun, although `av_fifo_generic_write` does not check |
| `NoWakeupIsLost` | `Spec => []NoLostWakeup` |
| `Refinement` | `Spec => ImplementsQueue`: the queue with its lock, wait sets, signals and spurious wakeups implements `MessageQueue` |

The inductive invariant is `IInv == TypeOK /\ RingCoherent /\ NoLostWakeup`.
`NoLostWakeup` is the heart: while anybody sleeps on a side, there are as
many threads already woken on that side as there are messages (or free slots).
"Nobody sleeps while a message is there" is false (a woken thread may not have run
yet), and "somebody is awake then" is not inductive: of two messages the one woken
receiver takes the first and leaves the second to a sleeper. The count makes
the argument local: a send adds a message and wakes one if any sleeps; a receive
takes a message and is itself one of the woken, or was never asleep; a flush and
an error wake all. `TypeOK` contains what the count needs (sleepers have an
unfinished call of their side) and `RingCoherent` that the size is the length of the
contents. The step lemmas have a case per action; `Refinement` maps `q` to
`Contents(fifo)` and each action to one of `MessageQueue` or to a stutter.

The assumptions are those of the modules: `Cap` is positive and smaller than
the index modulus (in C, sizes are below 2^31), `Threads` is finite, the tokens differ.

### Hardware decoder

`TfDecoderProofs`, for every size of the three queues, every session and every number of
packets:

| Theorem | Statement |
|---|---|
| `TypeCorrect` | `Spec => []TypeOK` |
| `FramesInOrder` | `Spec => []DeliveredInOrder`: across flushes, eager clients and failures |
| `RoomForFrames` | `Spec => []RoomInQueue` |
| `RoomToSend` | `Spec => []RoomAfterAgain` |
| `EndIsComplete` | `Spec => [](~setup.eager => CompleteAtEOF)` |

`DeliveredInOrder` speaks only of what the client has. The invariant `Line` puts all
places a packet can be in behind it, from `buffer_frame` to the filter, each in rising
order and separated from the next by a number, so that a step moves the first element
of one place to the end of the one before. `Room` counts what is in flight:
`frame_queue` has room for what the session may still return, whatever the callback and
the caller do between two looks at it. Completeness needs both `NoneLost` (each packet
sent is in one of the places, or the session skipped it) and `EndState`: EOS is the last
thing a session gets, so when it is received the other places are empty, but for one picture in
the callback's hand if the session marks that picture as the end: `eos_received` is then set
before it is queued (`tfvid.c:98`, `:123`), and the theorem lets the client miss that one and
no other. A packet that the session refuses counts as skipped. Eager clients are left out
because the property is false for them (run `tfdecoder_eager_eof`).

### Hardware encoder

`TfEncoderProofs`, for every number of slots, every depth of the session and every
index width above the number of slots plus one:

| Theorem | Statement |
|---|---|
| `TypeCorrect` | `Spec => []TypeOK`, overrun rings included |
| `QueueStaysAlive` | `Spec => []QueueAlive` |
| `RingsSuffice` | `Spec => [](Depth < NbBuffers => NoOverrun)` |
| `StaysInStep` | `Spec => [](Depth < NbBuffers => PacketsInStep)` |

The hypothesis is sharp: with `Depth = NbBuffers` TLC finds an overrun. `Count`
says why the rings suffice: timestamps are never more than the packets in the ring
and the frames in the session, and these exceed `Depth` by at most one, during a call
that put a frame in and has not yet taken a packet out. With stores out of order a frame may be in
the session and already counted in the ring, hence the term for "indexed". `InLine` says
that packets received, `buffer_pkt`, ring, session, frame in hand and waiting frame
are the numbers 1, 2, 3... in that order, and that the other ring has the numbers of the ring and
the session. Both need `CopyUnseen`: the reader, which takes no mutex, does not see the slot
that the callback is filling.

### Slice threads

`SliceThreadProofs`, for every number of threads, jobs and calls:

| Theorem | Statement |
|---|---|
| `TypeCorrect` | `Spec => []TypeOK` |
| `EveryJobRuns` | `Spec => []AllJobsDone` |
| `NumbersAreOwn` | `Spec => []OwnThreadnr` |
| `LocalsStayCurrent` | `Spec => []LocalsCurrent` |

The argument counts threads. Those that take part in a call either have still to take their
number (`Pending`), or are in `run_jobs` with a job (`Busy`), or have found none (`Excess`, by
which `current_job` exceeds `nb_jobs`); the three add up to `nb_active_threads`. So
`current_job` reaches `nb_jobs + nb_active_threads` once, when nobody is pending or busy,
and the thread that sees it is the last to leave: only then does a report come, and only
then may the caller change the parameters of the call. `JobsOut` says of every job whether
it was given out, runs or ran once.

### Asynchronous reading

`AsyncProofs`, for every size of the ring, the file, the reads and the short seeks:

| Theorem | Statement |
|---|---|
| `TypeCorrect` | `Spec => []TypeOK` |
| `RingIsTheFile` | `Spec => []RingMatches` |
| `ReadsAreCorrect` | `Spec => []ReadCorrect` |

Beside these two the invariant says what the background thread has in hand
(`TaskState`), that the end is known together with its reason, and that a request in flight has the client
waiting for it (`SeekState`): it is what keeps the client's position and the ring from
moving apart while the inner protocol seeks.

### Frame-threaded encoding and its buffer pool

`FrameThreadEncoderProofs`, for every number of threads above one, of frames and of
buffers, and every set of frames that fail:

| Theorem | Statement |
|---|---|
| `TypeCorrect` | `Spec => []TypeOK`: types, one owner for each task, a free slot for each frame |
| `PoolIsSafe` | `Spec => []PoolSafe` |
| `PacketsComeInOrder` | `Spec => []PacketsInOrder` |

The invariant has two halves. `PoolInv` says where a buffer is (`Places`) and what the pool's
count is (`PoolCounts`): the buffers referenced or on their way back, without the one that
is taken from the list and not yet counted, plus the threads about to count down,
plus one until uninit. So the count is zero only when all are back. Each operation of `buffer.c` keeps
it, under conditions that are the caller's: one unrefs only what it references.
`EncoderInv` gives these. `References` makes the count of a buffer the number of its holders
(client, `buffer_frame`, one task, a get in progress), so that a buffer that is emptied or drawn
into is nobody's, and `Shown` follows: what a holder's buffer shows is what was drawn for it.
`Tasks` numbers the frames: the slot at distance d from `finished_task_index` has task
d + 1 after those taken out, and taking one out moves index and number together. The
threads' tasks lie before `next_task_index` (`WorkerState`), and `Indices` bounds those
outstanding, which is why `task_index` never meets a slot in use. `AllOut` and `Rising` compare
what the client has with what was taken out. After the threads are joined only the references
matter, hence `Live`.

### Frame threads

`FrameThreadProofs`, for every number of threads above one, of packets, flushes and failures,
and every set of kinds of codec:

| Theorem | Statement |
|---|---|
| `TypeCorrect` | `Spec => []TypeOK` |
| `AssertionsHold` | `Spec => []Assertions` |
| `HwaccelIsAlone` | `Spec => []HwaccelAlone` |
| `ContextIsHandedOver` | `Spec => []ContextHandedOver` |
| `NoFrameIsLost` | `Spec => []NoFrameLost` |
| `FramesAreInOrder` | `Spec => FramesInOrder`, an action property |

The invariant has three layers, each inductive with the ones before.

`Control` says who is where. At most one thread sets up, that of the newest packet
(`OneSetup`), and the caller may leave before it is through only if the callbacks are
thread safe. The threads with a packet or a result are those from
`next_finished` to `next_decoding` (`InTurn`); `Turn(t, f)` is the distance in the ring,
and four lemmas about it are the only arithmetic modulo `thread_count`. A hwaccel is in
one place (`Token`): the one chosen last is with the thread that sets up, until that
thread stashes it, and otherwise in the stash. So the stash is empty when a thread gets
there. `Locks` makes `hwaccel_serializing` and `async_serializing` the possession of the two locks.

`Seen` says that the front thread (the newest, or thread 0 after a flush) has a context
that saw every packet taken, except its own while it has not set up. What a thread gets from
`update_context_from_thread` is then the context of the packet before, although
`prev_thread` may have gone on meanwhile: it does not change its context after its setup.

`Frames` follows the pictures. `Mark(t)` is the frame that a thread has or may still make;
marks rise with turns, above what was returned and below the one that a
codec holds back (`Ordered`). `Kept` says that every picture decoded is returned, held
back, in a thread or in hand, and that a codec which was given the empty packet holds
none; so when a drain has gone round without a result, it is complete: the threads
after the one it asked would be before it in turn. `Complete` bounds where an incomplete
frame can be. A codec that reorders gives a frame to the *next* thread while its
own still decodes it; the thread that decodes is never after the one that has the frame, so
when the frame's turn comes its decoder has been waited for.
During a flush `Line`, `Ordered`, `Kept` and `Complete` do not hold, as the caller clears
the threads' flags one by one; they hold again when `Flushed` drops everything.

### Copying a stream

`RemuxProofs`, for every number of packets and set of keyframes, every length of the two
queues, every set of options and every series of failures of the underlying muxer:

| Theorem | Statement |
|---|---|
| `TypeCorrect` | `Spec => []TypeOK`; the bound on recovery attempts is part of it, for a muxer that never fails with AVERROR(EAGAIN) (`~fifo.again`) |
| `FilesAreWhole` | `Spec => []Files` |
| `OutputInOrder` | `Spec => []PacketsInOrder`: order, no packet twice, one conversion without recovery |
| `OutputIsFaithful` | `Spec => []OutputFaithful`, if `EOF` is not among `Faults` |

The assumptions are the ranges of the options (`OptionsAssumption`, `QueueAssumption`) and
that error codes are neither `OK` nor packets (`CodesAssumption`). AVERROR(EAGAIN) is not one
of `Faults`: whether it occurs is `fifo.again`, which is not fixed.

That condition on `EOF` is needed: the writer's `set_err_send` has one code for a muxer that
failed with AVERROR_EOF and for the end of the packets (`fifo.c:433`, `:462`), so "the
client saw `EOF`" would not mean that everything was written. With `Faults = {EIO, EOF}` TLC
finds the packets missing. The other three theorems hold for every error.

The invariant has layers, each inductive with the ones before.

`TypeInv` has the types and what the recovery relies on: the writer recovers from a fault or
goes on with a recovery it has begun (`WriterFlow`), so it never gives up with `OK`, nor ends
with AVERROR(EAGAIN), which is always taken for "try again"; and
`header_written` is whether the last file is open (`OutputFiles`), which is why a header is
written exactly where a file begins. `DispatchOutcome` lists once what a dispatch can come
to, and `DispatchWrites` what each makes of the output; both the first attempt and every
later one use them.

`InputOrder` says that the input's queue has no gap: its element k is packet `Taken + k`, as
long as the main thread copies. `Ordered` lines the packets up: those in the output come
before the one in the writer's hand (`Hand`, while it is to be dispatched or tried again),
that before those in the queue, and none is past `Passed`. A step of the writer moves packets
along this line or off it (`WriterMoves`), and the main thread puts one at its end
(`MainPuts`). `NoDrop` and `Conversions` tie `overflow_flag`, `drop_until_keyframe` and the
repeated conversion to the options.

`Kept` says that nothing has left the line where nothing may be dropped and the writer has
not failed (`Fine`): every packet passed is in the output, in hand or in the queue; and once
the input's end was seen, every packet is. `Endings` is what makes this worth something at the
end: a writer that ends with `EOF` found its queue empty after the main thread had set its
last error, so nothing was put in afterwards. Then the packets in the output are all of them.

### Only model-checked

All liveness (fairness and ENABLED are beyond the prover): `Progress`, `CallReturns`, `Ends`
and their kind. Every invariant and every action property that a passing run checks is
also a theorem.

## 6. What the checks found

Each of these is a run that TLC finds violated, and a finding in `PROJECT.json`.

- `tfdecoder_stale`: a flush empties `frame_queue` and then destroys the session,
  whose last callbacks put frames of the old stream into it. They come out after
  the flush (`avcodec.h`: "flush internal buffers").
- `tfdecoder_eager_eof`: a client that ends the stream with a packet still in the
  filter loses it. The packet is there because `avcodec_send_packet` does not decode
  ahead while `buffer_frame` holds a frame (`decode.c:616`); the end then sets `eof` over it
  (`bsf.c:206`), and the filter reports its end before it looks at the packet (`:237`).
- `tfencoder_eof`: the encoder's drain ends when no packet is ready, although the
  session still encodes; the last packets are lost.

Seen while modelling, without a run of their own. Where a property would be violated
by one of these, its definition says under which condition it is stated.

Hardware codecs:

- A frame may arrive between the look at `frame_queue` that lets a packet be taken from
  the filter and the look that refuses it; the packet is then dropped, which the comment
  at `tfvid.c:455` says should not happen. This needs a session that holds at least as many
  pictures as there are extra slots; with fewer, `RoomInQueue` shows it cannot happen.
- A session that marks its last picture as the end sets `eos_received` (`tfvid.c:98`) before
  that picture is queued (`:123`), and may wait for room in between (`:113`). A receive, which
  reads the flag without the mutex, may then report AVERROR_EOF before the last frame.
  `CompleteAtEOF` allows this one frame; without the allowance TLC finds the property violated.
- `eos_sent` is set before the end is sent (`:400`). If the session refuses it, the receive
  fails with AVERROR_EXTERNAL (`:475`) and the next one waits for ever (`:483`), as it does if
  there is no session. `CallReturns` exempts these two; with only one of the exemptions it is
  violated.
- After AVERROR(EAGAIN) from send, the receive that follows may also say AVERROR(EAGAIN)
  in both codecs (`decode.c:610`, `tfenc.c:444`): `avcodec.h:188` rules it out.
  `RoomAfterAgain` is the half that holds.
- `ff_tf_encode_flush` resets only the timestamps (`tfenc.c:482`): packets of the
  old stream then carry timestamps of the new one. `PacketsInStep` is stated until
  the first flush for that reason, and for machines where stores are seen in order;
  without either condition TLC finds it violated.
- A session that takes as many frames as the rings have slots overruns them.
- Failures during init run the close functions on queues that do not exist yet
  (`tfvid.c:359`, `tfenc.c:186`); a callback after the end leaks its buffer (`tfenc.c:97`).

Frame-threaded encoding: a frame that fails while the encoder drains sets `draining_done`
(`encode.c:249`), so the packets after it are never returned. `PacketsInOrder`
demands completeness of drains that no failure cut short.

Fifo muxer (`libavformat/fifo.c`):

- Between the refused send (:577) and `overflow_flag` the writer may empty the queue and pass
  its look at the flag. The next packet is then written right after the gap, keyframe or
  not, although `restart_with_keyframe` asks to wait for one (:73, `doc/muxers.texi`).
- A packet that is tried again has its timestamps converted again (:204);
  `OutputFaithful` asks for one conversion only without recovery.
- The condition of `recovery_wait_streamtime` is inverted (:337): it subtracts
  AV_NOPTS_VALUE when there is no earlier timestamp, and does not wait when there is one.
- An AVERROR(EAGAIN) of the underlying muxer is taken for "too early" (:400), also when it is
  the error of the last attempt (:306): the attempts then exceed `max_recovery_attempts`
  ("Maximal number of recovery attempts"). `TypeOK` bounds them where `~fifo.again`. Without
  recovery and without dropping, a single AVERROR(EAGAIN) makes the writer spin (:391-400):
  the message is never written again, and nothing ends it.
- With unlimited attempts (the default) and no dropping, a writer whose output stays down never
  ends, so that the main thread stays in `pthread_join` (:634) even after q. `Ends` exempts
  this and the AVERROR(EAGAIN) cases (`RetriesForEver`); without that TLC finds it violated.
- `fifo_write_trailer` may return 0 after the output has failed for good (:641); the I/O context
  stays open when `avformat_write_header` fails (:134-146), and the message is
  not freed after the last attempt (:369).
- `fifo_deinit` without a trailer frees the queue while the writer uses it.

## 7. Not modelled inside the modelled parts, and the plan

Left out: allocation failures; pixel copies and bitstream contents; device
settings; growing a fifo; `av_thread_message_queue_free`, which its caller may
only call alone; in `pthread_frame.c` the delayed release of buffers, the copy of
the user's context fields and the failures of `init_thread`; cropping, side data
and the audio paths of `decode.c` and `encode.c`; filters that hold more than a
packet; in `buffer.c` reallocation, `make_writable` and buffers outside a pool; in
`async.c` AVSEEK_SIZE and the arithmetic of whence; in the fifo muxer `timeshift`,
`recovery_wait_streamtime` and real time (an attempt is made at any time after the failure),
and that a failed `av_write_frame` may have written its packet (`mux.c` may report an error of
`pb` found afterwards), in which case trying again writes it twice;
of ffmpeg `-stream_loop`, several inputs and outputs, and everything between a
packet read and a packet written.

Plan, most important first:

1. `FrameSync` and the filter graph's frame queue (`libavfilter/framequeue.c`,
   `framesync.c`): status after frames, inputs in step. `MuxInterleave`
   (`libavformat/mux.c`): order across streams, the flush at the end.
2. ffplay's packet and frame queues with their serial numbers; udp's circular buffer.
3. The codecs' slice threading over `SliceThread` (row progress).
4. In `FrameThread`: delayed release of buffers, failures of init. In `FifoMuxer`:
   timeshift.

With each of these modules come its proofs, laid out as those of section 5: types
first, then what each program location knows, then the safety properties. Of the
modules there are, every safety property is proved.
