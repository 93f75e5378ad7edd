---------------------- MODULE FrameThreadEncoderProofs ----------------------
(***************************************************************************)
(* FrameThreadEncoder and the BufferPool under it, for every number of     *)
(* threads, frames and buffers.                                            *)
(***************************************************************************)
EXTENDS FrameThreadEncoder, FiniteSetTheorems, SequenceTheorems, TLAPS

One(b) == IF b THEN 1 ELSE 0

-----------------------------------------------------------------------------
(* The pool.  Only the client, thread Main, gets buffers.                  *)

PoolTypes ==
  /\ refcount \in [Buffers -> Nat] /\ data \in [Buffers -> Nat]
  /\ pool_refcount \in Nat
  /\ pool \in Seq(entries) /\ entries \in SUBSET Buffers /\ freed \in SUBSET entries
  /\ uninited \in BOOLEAN /\ pool_freed \in BOOLEAN
  /\ busy \in [Threads -> Steps]

Returns(b)  == \E t \in Threads : busy[t].step = "put" /\ busy[t].buf = b
IsListed(b) == \E i \in 1 .. Len(pool) : pool[i] = b
Getting(b)  == busy[Main].step = "get" /\ busy[Main].buf = b

\* Every buffer is in one place, and once.
Places ==
  /\ \A i, j \in 1 .. Len(pool) : pool[i] = pool[j] => i = j
  /\ \A t, u \in Threads :
       busy[t].step = "put" /\ busy[u].step = "put" /\ busy[t].buf = busy[u].buf => t = u
  /\ \A b \in Buffers :
       /\ IsListed(b) => refcount[b] = 0 /\ ~Returns(b) /\ b \notin freed
       /\ Returns(b) => refcount[b] = 0 /\ b \notin freed
       /\ b \in freed => refcount[b] = 0
       /\ b \in entries <=> IsListed(b) \/ Returns(b) \/ refcount[b] > 0 \/ b \in freed
  /\ \A t \in Threads : busy[t].step = "get" => t = Main /\ ~uninited

\* The pool counts its owner, the buffers that are out and counted, and the threads
\* that are about to count down.
Out      == {b \in Buffers : (refcount[b] > 0 /\ ~Getting(b)) \/ Returns(b)}
Counting == {t \in Threads : busy[t].step = "count"}
PoolCounts ==
  /\ pool_refcount = Cardinality(Out) + Cardinality(Counting) + One(~uninited)
  /\ pool_freed <=> pool_refcount = 0
  /\ pool_freed => pool = <<>>

PoolInv == PoolTypes /\ Places /\ PoolCounts

-----------------------------------------------------------------------------
(* The encoder.                                                            *)

Flags == /\ draining \in BOOLEAN /\ draining_done \in BOOLEAN /\ exit \in BOOLEAN
         /\ cut \in BOOLEAN

TaskType == [indata : FrameType, outdata : PacketType, finished : BOOLEAN]

Types ==
  /\ pc \in {"init", "idle", "encode", "fetch", "await", "free", "join", "drop", "closed"}
  /\ caller \in {"send", "recv", None}
  /\ buffer_frame \in FrameType /\ frame \in FrameType /\ buffer_pkt \in PacketType
  /\ tasks \in [Slots -> TaskType]
  /\ task_index \in Slots /\ next_task_index \in Slots /\ finished_task_index \in Slots
  /\ wpc \in [Workers -> {"none", "loop", "encode", "unref", "dead"}]
  /\ mine \in [Workers -> Slots] /\ asleep \in SUBSET Threads
  /\ spawned \in Nat /\ spawned <= ThreadCount
  /\ sent \in Nat /\ sent <= MaxFrames /\ received \in Seq(PacketType \ {None})

CallState ==
  /\ pc \in {"encode", "fetch", "await"} => buffer_pkt = None
  /\ pc = "fetch" => ~draining
  /\ pc = "await" => ~draining_done
  /\ draining_done => draining
  /\ draining => buffer_frame = None
  /\ draining_done /\ ~cut => task_index = finished_task_index
  /\ pc = "init" => spawned < ThreadCount
  /\ \A w \in Workers : w > spawned => wpc[w] = "none"
  /\ pc \in {"drop", "closed"} => \A w \in Workers : wpc[w] \in {"none", "dead"}

\* Until ff_frame_thread_encoder_free frees what the threads have left.
Live == pc \notin {"drop", "closed"}

\* How many tasks lie between finished_task_index, here f, and i.
Dist(i, f) == IF i >= f THEN i - f ELSE i - f + max_tasks
Taken  == Dist(next_task_index, finished_task_index)
Queued == Dist(task_index, finished_task_index)
\* Frames whose task was taken out again.
Before == sent - One(buffer_frame # None) - Queued

Indices ==
  /\ Taken <= Queued
  /\ Queued <= ThreadCount + One(pc \in {"fetch", "await"})
  /\ Before >= 0

\* The task n + 1, of which the threads took those up to lo + nd and the caller queued
\* those up to lo + od.
TaskAt(x, n, lo, nd, od) ==
  /\ x.indata # None => n < lo + od /\ x.indata.pts = n + 1
  /\ x.outdata # None => n < lo + nd /\ x.outdata = [pts |-> n + 1, shows |-> n + 1]
  /\ x.finished => n < lo + nd /\ x.indata = None /\ (x.outdata = None => n + 1 \in Unencodable)
  /\ lo + nd <= n /\ n < lo + od => x.indata # None
Tasks ==
  \A i \in Slots :
    TaskAt(tasks[i], Before + Dist(i, finished_task_index), Before, Taken, Queued)

Working(w) == wpc[w] \in {"encode", "unref"}
WorkerState ==
  \A w \in Workers :
    /\ Working(w) => /\ Dist(mine[w], finished_task_index) < Taken
                     /\ ~tasks[mine[w]].finished
                     /\ \A u \in Workers : Working(u) /\ mine[u] = mine[w] => u = w
    /\ wpc[w] = "encode" => tasks[mine[w]].indata # None /\ tasks[mine[w]].outdata = None
    /\ wpc[w] = "unref" /\ tasks[mine[w]].outdata = None =>
         Before + Dist(mine[w], finished_task_index) + 1 \in Unencodable

\* Who has a reference to b, and what b shows.
Holds(x, b) == x # None /\ x.buf = b
InTasks(b)  == \E i \in Slots : Holds(tasks[i].indata, b)
Refs(b) == One(Holds(frame, b)) + One(Holds(buffer_frame, b)) + One(InTasks(b))
           + One(Getting(b))

References ==
  /\ \A b \in Buffers : refcount[b] = Refs(b)
  /\ \A i, j \in Slots : tasks[i].indata # None /\ tasks[j].indata # None
                         /\ tasks[i].indata.buf = tasks[j].indata.buf => i = j
  /\ buffer_frame # None => ~InTasks(buffer_frame.buf)
  /\ frame # None /\ frame.pts > sent => /\ ~Holds(buffer_frame, frame.buf)
                                         /\ ~InTasks(frame.buf)
  /\ frame # None => frame.pts \in {sent, sent + 1}
  /\ buffer_frame # None => buffer_frame.pts = sent
  /\ busy[Main].step = "get" =>
       /\ frame = None /\ pc = "idle" /\ ~draining /\ sent < MaxFrames
       /\ ~Holds(buffer_frame, busy[Main].buf) /\ ~InTasks(busy[Main].buf)

Shown ==
  /\ frame # None => data[frame.buf] = frame.pts
  /\ buffer_frame # None => data[buffer_frame.buf] = buffer_frame.pts
  /\ \A i \in Slots : tasks[i].indata # None => data[tasks[i].indata.buf] = tasks[i].indata.pts

\* The packets are those of the tasks taken out, but for failures.
Rising ==
  /\ \A i \in 1 .. Len(received) : received[i].shows = received[i].pts
  /\ \A i, j \in 1 .. Len(received) : i < j => received[i].pts < received[j].pts
  /\ buffer_pkt # None => /\ buffer_pkt.shows = buffer_pkt.pts
                          /\ \A i \in 1 .. Len(received) : received[i].pts < buffer_pkt.pts

HasPts(n) == \E i \in 1 .. Len(received) : received[i].pts = n
AllOut ==
  /\ \A i \in 1 .. Len(received) : received[i].pts <= Before
  /\ buffer_pkt # None => buffer_pkt.pts <= Before
  /\ \A n \in 1 .. Before : \/ n \in Unencodable \/ HasPts(n)
                            \/ buffer_pkt # None /\ buffer_pkt.pts = n

EncoderInv == /\ Flags /\ Types /\ CallState /\ References /\ Shown /\ Rising
              /\ Live => Indices /\ Tasks /\ WorkerState /\ AllOut

IInv == PoolInv /\ EncoderInv

-----------------------------------------------------------------------------
(* Constants, steps and indices.                                           *)

LEMMA Sizes ==
  /\ ThreadCount \in Nat /\ ThreadCount >= 2 /\ MaxFrames \in Nat /\ MaxBuffers \in Nat
  /\ Threads = 0 .. ThreadCount /\ Main = 0 /\ Main \in Threads
  /\ Workers = 1 .. ThreadCount
  /\ max_tasks = ThreadCount + 2 /\ Slots = 0 .. ThreadCount + 1
  BY CountAssumption, ThreadsAssumption, MaxBuffersAssumption DEF Main, Workers, max_tasks, Slots

LEMMA WorkersAreThreads == \A w \in Workers : w \in Threads /\ w # Main
  BY Sizes

LEMMA Nones ==
  /\ None \notin {"send", "recv"}
  /\ None \notin [pts : Frames, buf : Buffers]
  /\ None \notin [pts : Frames, shows : Frames]
  BY NoneAssumption DEF Frames

LEMMA Finite == IsFiniteSet(Buffers) /\ IsFiniteSet(Threads)
  <1>1. MaxBuffers \in Int /\ ThreadCount \in Int /\ 0 \in Int /\ 1 \in Int
    BY Sizes
  <1> QED
    BY <1>1, Sizes, FS_Interval DEF Buffers

LEMMA StepFacts ==
  /\ Free \in Steps /\ Free.step = "none" /\ [step |-> "count"] \in Steps
  /\ \A b \in Buffers : /\ [step |-> "get", buf |-> b] \in Steps
                        /\ [step |-> "put", buf |-> b] \in Steps
  /\ \A x \in Steps : /\ x.step \in {"none", "count", "get", "put"}
                      /\ x.step \in {"get", "put"} => x.buf \in Buffers
                      /\ x.step = "none" <=> x = Free
  BY DEF Steps, Free

LEMMA Prepend ==
  ASSUME NEW S, NEW s \in Seq(S), NEW x \in S
  PROVE  /\ <<x>> \o s \in Seq(S) /\ Len(s) \in Nat
         /\ Len(<<x>> \o s) = Len(s) + 1
         /\ \A i \in 1 .. Len(s) + 1 : (<<x>> \o s)[i] = IF i = 1 THEN x ELSE s[i - 1]
  <1>1. <<x>> \in Seq(S) /\ Len(<<x>>) = 1 /\ <<x>>[1] = x
    OBVIOUS
  <1>2. Len(s) \in Nat
    BY LenProperties
  <1>3. /\ <<x>> \o s \in Seq(S)
        /\ Len(<<x>> \o s) = Len(<<x>>) + Len(s)
        /\ \A i \in 1 .. Len(<<x>>) + Len(s) :
             (<<x>> \o s)[i] = IF i <= Len(<<x>>) THEN <<x>>[i] ELSE s[i - Len(<<x>>)]
    BY <1>1, ConcatProperties
  <1>4. \A i \in 1 .. Len(s) + 1 : (<<x>> \o s)[i] = IF i = 1 THEN x ELSE s[i - 1]
    BY <1>1, <1>2, <1>3
  <1> QED
    BY <1>1, <1>2, <1>3, <1>4

\* The indices of the ring without the remainder.
LEMMA IndexFacts ==
  /\ \A i \in Slots : /\ Next_(i) = IF i = ThreadCount + 1 THEN 0 ELSE i + 1
                      /\ Next_(i) \in Slots
  /\ \A i, f \in Slots : /\ Dist(i, f) \in Slots
                         /\ (i - f + max_tasks) % max_tasks = Dist(i, f)
                         /\ Dist(i, f) = 0 <=> i = f
  /\ \A i, j, f \in Slots : Dist(i, f) = Dist(j, f) => i = j
  <1>1. /\ max_tasks \in Nat /\ max_tasks >= 1 /\ max_tasks = ThreadCount + 2
        /\ Slots = 0 .. ThreadCount + 1 /\ ThreadCount \in Nat
    BY Sizes
  <1>2. ASSUME NEW i \in Slots
        PROVE  Next_(i) = IF i = ThreadCount + 1 THEN 0 ELSE i + 1
    <2>1. i + 1 \in Nat /\ i + 1 < 2 * max_tasks
      BY <1>1
    <2>2. (i + 1) % max_tasks = IF i + 1 < max_tasks THEN i + 1 ELSE i + 1 - max_tasks
      BY <1>1, <2>1
    <2> QED
      BY <1>1, <2>2 DEF Next_
  <1>3. ASSUME NEW i \in Slots, NEW f \in Slots
        PROVE  /\ Dist(i, f) \in Slots
               /\ (i - f + max_tasks) % max_tasks = Dist(i, f)
               /\ Dist(i, f) = 0 <=> i = f
    <2>1. i - f + max_tasks \in Nat /\ i - f + max_tasks < 2 * max_tasks
      BY <1>1
    <2>2. (i - f + max_tasks) % max_tasks
          = IF i - f + max_tasks < max_tasks THEN i - f + max_tasks
            ELSE i - f + max_tasks - max_tasks
      BY <1>1, <2>1
    <2> QED
      BY <1>1, <2>2 DEF Dist
  <1>4. ASSUME NEW i \in Slots, NEW j \in Slots, NEW f \in Slots, Dist(i, f) = Dist(j, f)
        PROVE  i = j
    BY <1>1, <1>4 DEF Dist
  <1>5. ASSUME NEW i \in Slots PROVE Next_(i) \in Slots
    BY <1>1, <1>2
  <1> QED
    BY <1>2, <1>3, <1>4, <1>5

-----------------------------------------------------------------------------
(* The operations of the pool keep PoolInv.                                *)

LEMMA CountFinite ==
  ASSUME PoolTypes
  PROVE  /\ IsFiniteSet(Out) /\ Cardinality(Out) \in Nat
         /\ IsFiniteSet(Counting) /\ Cardinality(Counting) \in Nat
  <1>1. Out \subseteq Buffers /\ Counting \subseteq Threads
    BY DEF Out, Counting
  <1>2. IsFiniteSet(Out) /\ IsFiniteSet(Counting)
    BY <1>1, Finite, FS_Subset
  <1> QED
    BY <1>2, FS_CardinalityType

\* The places of the buffers other than those an operation moves.
LEMMA BusyTypes ==
  ASSUME PoolTypes, NEW t \in Threads
  PROVE  /\ busy[t] \in Steps
         /\ busy[t].step \in {"none", "count", "get", "put"}
         /\ busy[t].step \in {"get", "put"} => busy[t].buf \in Buffers
         /\ busy[t] = Free <=> busy[t].step = "none"
  BY StepFacts DEF PoolTypes

LEMMA GetKeepsPool ==
  ASSUME PoolInv, NEW b \in Buffers, av_buffer_pool_get(Main, b)
  PROVE  PoolInv' /\ refcount[b] = 0
  <1> USE DEF PoolInv
  <1>1. /\ busy[Main].step = "none" /\ uninited = FALSE
        /\ refcount' = [refcount EXCEPT ![b] = 1]
        /\ busy' = [busy EXCEPT ![Main] = [step |-> "get", buf |-> b]]
        /\ UNCHANGED <<data, freed, pool_refcount, uninited, pool_freed>>
    BY BusyTypes, Sizes, StepFacts DEF av_buffer_pool_get, PoolTypes
  <1>2. \/ pool # <<>> /\ b = Head(pool) /\ pool' = Tail(pool) /\ entries' = entries
        \/ pool = <<>> /\ b \notin entries /\ entries' = entries \cup {b} /\ pool' = pool
    BY DEF av_buffer_pool_get, Buffers
  <1>3. /\ Len(pool) \in Nat /\ Len(pool') \in Nat /\ pool' \in Seq(entries')
        /\ pool # <<>> => /\ Len(pool) >= 1 /\ pool[1] = Head(pool)
                          /\ Len(Tail(pool)) = Len(pool) - 1
                          /\ \A i \in 1 .. Len(Tail(pool)) : Tail(pool)[i] = pool[i + 1]
    <2>1. Len(pool) \in Nat
      BY LenProperties DEF PoolTypes
    <2>2. CASE pool = <<>>
      BY <1>2, <2>1, <2>2, EmptySeq
    <2>3. CASE pool # <<>>
      <3>1. /\ Head(pool) \in entries /\ Tail(pool) \in Seq(entries)
            /\ Len(Tail(pool)) = Len(pool) - 1
            /\ \A i \in 1 .. Len(Tail(pool)) : Tail(pool)[i] = pool[i + 1]
        BY <2>3, HeadTailProperties DEF PoolTypes
      <3>2. Len(pool) >= 1 /\ pool[1] = Head(pool)
        BY <2>1, <2>3, EmptySeq DEF PoolTypes
      <3> QED
        BY <1>2, <2>1, <2>3, <3>1, <3>2
    <2> QED
      BY <2>2, <2>3
  <1>4. /\ pool # <<>> => IsListed(b)
        /\ \A c \in Buffers : c # b => (IsListed(c)' <=> IsListed(c))
        /\ ~IsListed(b)'
    <2>1. CASE pool # <<>>
      <3>1. pool' = Tail(pool) /\ pool[1] = b /\ Len(pool') = Len(pool) - 1
        BY <1>2, <1>3, <2>1
      <3>2. \A i \in 1 .. Len(pool) - 1 : pool'[i] = pool[i + 1]
        BY <1>3, <2>1, <3>1
      <3>3. IsListed(b)
        BY <1>3, <2>1, <3>1 DEF IsListed
      <3>4. ~IsListed(b)'
        BY <1>3, <3>1, <3>2 DEF IsListed, Places
      <3>5. ASSUME NEW c \in Buffers, c # b PROVE IsListed(c)' <=> IsListed(c)
        <4>1. ASSUME IsListed(c) PROVE IsListed(c)'
          <5>1. PICK i \in 1 .. Len(pool) : pool[i] = c
            BY <4>1 DEF IsListed
          <5>2. i - 1 \in 1 .. Len(pool) - 1 /\ (i - 1) + 1 = i
            BY <1>3, <3>1, <3>5, <5>1
          <5> QED
            BY <3>1, <3>2, <5>1, <5>2 DEF IsListed
        <4>2. ASSUME IsListed(c)' PROVE IsListed(c)
          <5>1. PICK i \in 1 .. Len(pool) - 1 : pool'[i] = c
            BY <3>1, <4>2 DEF IsListed
          <5>2. i + 1 \in 1 .. Len(pool)
            BY <1>3, <5>1
          <5> QED
            BY <3>2, <5>1, <5>2 DEF IsListed
        <4> QED
          BY <4>1, <4>2
      <3> QED
        BY <3>3, <3>4, <3>5
    <2>2. CASE pool = <<>>
      BY <1>2, <2>2 DEF IsListed
    <2> QED
      BY <2>1, <2>2
  <1>5. refcount[b] = 0 /\ ~Returns(b) /\ b \notin freed
    <2>1. refcount[b] \in Nat
      BY DEF PoolTypes
    <2> QED
      BY <1>2, <1>4, <2>1 DEF Places
  <1>6. \A c \in Buffers : Returns(c)' <=> Returns(c)
    BY <1>1 DEF Returns, PoolTypes
  <1>7. PoolTypes'
    BY <1>1, <1>2, <1>3, StepFacts DEF PoolTypes
  <1>8. Places'
    <2>1. \A i, j \in 1 .. Len(pool') : pool'[i] = pool'[j] => i = j
      <3>1. CASE pool # <<>>
        <4>1. /\ Len(pool') = Len(pool) - 1
              /\ \A i \in 1 .. Len(pool) - 1 : pool'[i] = pool[i + 1]
          BY <1>2, <1>3, <3>1
        <4>2. ASSUME NEW i \in 1 .. Len(pool) - 1, NEW j \in 1 .. Len(pool) - 1,
                     pool'[i] = pool'[j]
              PROVE  i = j
          <5>1. i + 1 \in 1 .. Len(pool) /\ j + 1 \in 1 .. Len(pool) /\ pool[i + 1] = pool[j + 1]
            BY <1>3, <4>1, <4>2
          <5>2. i + 1 = j + 1
            BY <5>1 DEF Places
          <5> QED
            BY <1>3, <5>2
        <4> QED
          BY <4>1, <4>2
      <3>2. CASE pool = <<>>
        BY <1>2, <3>2 DEF Places
      <3> QED
        BY <3>1, <3>2
    <2>2. /\ \A t, u \in Threads :
               busy'[t].step = "put" /\ busy'[u].step = "put" /\ busy'[t].buf = busy'[u].buf
               => t = u
          /\ \A t \in Threads : busy'[t].step = "get" => t = Main /\ ~uninited'
      BY <1>1 DEF Places, PoolTypes
    <2>3. ASSUME NEW c \in Buffers
          PROVE  /\ IsListed(c)' => refcount'[c] = 0 /\ ~Returns(c)' /\ c \notin freed'
                 /\ Returns(c)' => refcount'[c] = 0 /\ c \notin freed'
                 /\ c \in freed' => refcount'[c] = 0
                 /\ c \in entries' <=> IsListed(c)' \/ Returns(c)' \/ refcount'[c] > 0 \/ c \in freed'
      <3>1. CASE c = b
        <4>1. refcount'[c] = 1 /\ c \in entries'
          <5>1. pool # <<>> => b \in entries
            BY <1>4 DEF Places
          <5> QED
            BY <1>1, <1>2, <3>1, <5>1 DEF PoolTypes
        <4> QED
          BY <1>1, <1>4, <1>5, <1>6, <3>1, <4>1
      <3>2. CASE c # b
        <4>1. refcount'[c] = refcount[c] /\ (c \in entries' <=> c \in entries) /\ freed' = freed
          BY <1>1, <1>2, <3>2 DEF PoolTypes
        <4> QED
          BY <1>4, <1>6, <3>2, <4>1 DEF Places
      <3> QED
        BY <3>1, <3>2
    <2> QED
      BY <2>1, <2>2, <2>3 DEF Places
  <1>9. PoolCounts'
    <2>1. ASSUME NEW c \in Buffers
          PROVE  ((refcount'[c] > 0 /\ ~Getting(c)') \/ Returns(c)')
                 <=> ((refcount[c] > 0 /\ ~Getting(c)) \/ Returns(c))
      <3>1. ~Getting(c) /\ (Getting(c)' <=> c = b)
        BY <1>1, Sizes DEF Getting, PoolTypes
      <3>2. CASE c = b
        BY <1>5, <1>6, <3>1, <3>2
      <3>3. CASE c # b
        <4>1. refcount'[c] = refcount[c]
          BY <1>1, <3>3 DEF PoolTypes
        <4> QED
          BY <1>6, <3>1, <3>3, <4>1
      <3> QED
        BY <3>2, <3>3
    <2>2. Out' = Out
      BY <2>1 DEF Out
    <2>3. Counting' = Counting
      BY <1>1 DEF Counting, PoolTypes
    <2>4. pool_freed' => pool' = <<>>
      <3>1. ~pool_freed
        <4>1. pool_refcount = Cardinality(Out) + Cardinality(Counting) + 1
          BY <1>1 DEF PoolCounts, One
        <4>2. pool_refcount # 0
          BY <4>1, CountFinite
        <4> QED
          BY <4>2 DEF PoolCounts
      <3> QED
        BY <1>1, <3>1
    <2> QED
      BY <1>1, <2>2, <2>3, <2>4 DEF PoolCounts
  <1> QED
    BY <1>5, <1>7, <1>8, <1>9

\* Draw: the buffer counts, and shows what the client draws.
LEMMA CountKeepsPool ==
  ASSUME PoolInv, PoolCount(Main), data' \in [Buffers -> Nat],
         refcount[busy[Main].buf] >= 1
  PROVE  PoolInv'
  <1> USE DEF PoolInv
  <1> DEFINE b == busy[Main].buf
  <1>1. /\ busy[Main].step = "get" /\ busy' = [busy EXCEPT ![Main] = Free]
        /\ pool_refcount' = pool_refcount + 1
        /\ UNCHANGED <<refcount, pool, entries, freed, uninited, pool_freed>>
        /\ b \in Buffers /\ busy'[Main].step = "none"
        /\ \A t \in Threads : t # Main => busy'[t] = busy[t]
    BY BusyTypes, Sizes, StepFacts DEF PoolCount, PoolTypes
  <1>2. PoolTypes'
    BY <1>1, StepFacts DEF PoolTypes
  <1>3. \A c \in Buffers : /\ Returns(c)' <=> Returns(c)
                           /\ IsListed(c)' <=> IsListed(c)
                           /\ Getting(c) <=> c = b
                           /\ ~Getting(c)'
    BY <1>1 DEF Returns, IsListed, Getting
  <1>4. Places'
    <2>1. /\ \A t, u \in Threads :
               busy'[t].step = "put" /\ busy'[u].step = "put" /\ busy'[t].buf = busy'[u].buf
               => t = u
          /\ \A t \in Threads : busy'[t].step = "get" => t = Main /\ ~uninited'
      BY <1>1 DEF Places
    <2> QED
      BY <1>1, <1>3, <2>1 DEF Places
  <1>5. PoolCounts'
    <2>1. b \notin Out
      BY <1>1, <1>3 DEF Out, Places
    <2>2. Out' = Out \cup {b}
      <3>1. refcount[b] \in Nat /\ refcount[b] > 0
        BY <1>1 DEF PoolTypes
      <3>2. \A c \in Buffers : /\ ((refcount'[c] > 0 /\ ~Getting(c)') \/ Returns(c)')
                                   <=> (refcount[c] > 0 \/ Returns(c))
                               /\ c # b => ~Getting(c)
        BY <1>1, <1>3
      <3>3. \A c \in Buffers : c \in Out' <=> (c \in Out \/ c = b)
        BY <1>1, <3>1, <3>2 DEF Out
      <3> QED
        BY <1>1, <3>3 DEF Out
    <2>3. Cardinality(Out') = Cardinality(Out) + 1
      BY <2>1, <2>2, CountFinite, FS_AddElement
    <2>4. Counting' = Counting
      BY <1>1 DEF Counting
    <2>5. /\ pool_refcount \in Nat /\ Cardinality(Out) \in Nat /\ Cardinality(Counting) \in Nat
          /\ One(~uninited) \in Nat
      BY CountFinite DEF PoolTypes, One
    <2>6. pool_refcount' = Cardinality(Out') + Cardinality(Counting') + One(~uninited')
      BY <1>1, <2>3, <2>4, <2>5 DEF PoolCounts
    <2>7. pool_refcount' # 0 /\ ~pool_freed
      <3>1. ~uninited
        BY <1>1, Sizes DEF Places
      <3>2. pool_refcount # 0 /\ pool_refcount + 1 # 0
        BY <2>5, <3>1 DEF PoolCounts, One
      <3> QED
        BY <1>1, <3>2 DEF PoolCounts
    <2> QED
      BY <1>1, <2>6, <2>7 DEF PoolCounts
  <1> QED
    BY <1>2, <1>4, <1>5

LEMMA RefKeepsPool ==
  ASSUME PoolInv, NEW b \in Buffers, refcount[b] >= 1, av_buffer_ref(b)
  PROVE  PoolInv'
  <1> USE DEF PoolInv
  <1>1. /\ refcount' = [refcount EXCEPT ![b] = @ + 1]
        /\ UNCHANGED <<data, pool, entries, freed, pool_refcount, uninited, pool_freed, busy>>
    BY DEF av_buffer_ref
  <1>2. \A c \in Buffers : /\ refcount'[c] \in Nat /\ refcount[c] \in Nat
                           /\ refcount'[c] > 0 <=> refcount[c] > 0
                           /\ refcount'[c] = 0 <=> refcount[c] = 0
    BY <1>1 DEF PoolTypes
  <1>3. PoolTypes'
    BY <1>1 DEF PoolTypes
  <1>4. \A c \in Buffers : /\ Returns(c)' <=> Returns(c)
                           /\ IsListed(c)' <=> IsListed(c)
                           /\ Getting(c)' <=> Getting(c)
    BY <1>1 DEF Returns, IsListed, Getting
  <1>5. Places'
    BY <1>1, <1>2, <1>4 DEF Places
  <1>6. Out' = Out /\ Counting' = Counting
    BY <1>1, <1>2, <1>4 DEF Out, Counting
  <1>7. PoolCounts'
    BY <1>1, <1>6 DEF PoolCounts
  <1> QED
    BY <1>3, <1>5, <1>7

LEMMA UnrefKeepsPool ==
  ASSUME PoolInv, NEW t \in Threads, NEW b \in Buffers, refcount[b] >= 1, ~Getting(b),
         av_buffer_unref(t, b)
  PROVE  PoolInv'
  <1> USE DEF PoolInv
  <1>1. /\ busy[t].step = "none" /\ refcount' = [refcount EXCEPT ![b] = refcount[b] - 1]
        /\ busy' = IF refcount[b] = 1
                   THEN [busy EXCEPT ![t] = [step |-> "put", buf |-> b]] ELSE busy
        /\ UNCHANGED <<data, pool, entries, freed, pool_refcount, uninited, pool_freed>>
    BY BusyTypes DEF av_buffer_unref, PoolTypes
  <1>2. /\ refcount[b] \in Nat /\ refcount'[b] = refcount[b] - 1 /\ refcount'[b] \in Nat
        /\ \A c \in Buffers : c # b => refcount'[c] = refcount[c]
    BY <1>1 DEF PoolTypes
  <1>3. \A c \in Buffers : IsListed(c)' <=> IsListed(c)
    BY <1>1 DEF IsListed
  <1>4. ~IsListed(b) /\ ~Returns(b) /\ b \notin freed /\ b \in entries
    BY <1>2 DEF Places
  <1>5. CASE refcount[b] = 1
    <2>1. /\ busy' = [busy EXCEPT ![t] = [step |-> "put", buf |-> b]] /\ refcount'[b] = 0
          /\ busy'[t].step = "put" /\ busy'[t].buf = b
          /\ \A u \in Threads : u # t => busy'[u] = busy[u]
      BY <1>1, <1>2, <1>5 DEF PoolTypes
    <2>2. PoolTypes'
      <3>1. refcount' \in [Buffers -> Nat]
        BY <1>1, <1>2 DEF PoolTypes
      <3>2. busy' \in [Threads -> Steps]
        BY <2>1, StepFacts DEF PoolTypes
      <3> QED
        BY <1>1, <3>1, <3>2 DEF PoolTypes
    <2>3. /\ \A c \in Buffers : c # b => (Returns(c)' <=> Returns(c))
          /\ Returns(b)'
      BY <1>1, <2>1 DEF Returns
    <2>4. \A c \in Buffers : Getting(c)' <=> Getting(c)
      BY <1>1, <2>1, Sizes DEF Getting
    <2>5. Places'
      <3>1. ASSUME NEW u \in Threads, NEW v \in Threads,
                   busy'[u].step = "put", busy'[v].step = "put", busy'[u].buf = busy'[v].buf
            PROVE  u = v
        <4>1. \A x \in Threads : busy[x].step = "put" => busy[x].buf # b
          BY <1>4 DEF Returns
        <4> QED
          BY <2>1, <3>1, <4>1 DEF Places
      <3>2. \A u \in Threads : busy'[u].step = "get" => u = Main /\ ~uninited'
        BY <1>1, <2>1 DEF Places
      <3>3. ASSUME NEW c \in Buffers
            PROVE  /\ IsListed(c)' => refcount'[c] = 0 /\ ~Returns(c)' /\ c \notin freed'
                   /\ Returns(c)' => refcount'[c] = 0 /\ c \notin freed'
                   /\ c \in freed' => refcount'[c] = 0
                   /\ c \in entries' <=>
                        IsListed(c)' \/ Returns(c)' \/ refcount'[c] > 0 \/ c \in freed'
        <4>1. CASE c = b
          BY <1>1, <1>3, <1>4, <2>1, <2>3, <4>1
        <4>2. CASE c # b
          BY <1>1, <1>2, <1>3, <2>3, <4>2 DEF Places
        <4> QED
          BY <4>1, <4>2
      <3> QED
        BY <1>1, <3>1, <3>2, <3>3 DEF Places
    <2>6. Out' = Out
      <3>1. ASSUME NEW c \in Buffers
            PROVE  ((refcount'[c] > 0 /\ ~Getting(c)') \/ Returns(c)')
                   <=> ((refcount[c] > 0 /\ ~Getting(c)) \/ Returns(c))
        BY <1>2, <2>3, <2>4
      <3> QED
        BY <3>1 DEF Out
    <2>7. Counting' = Counting
      BY <1>1, <2>1 DEF Counting
    <2>8. PoolCounts'
      BY <1>1, <2>6, <2>7 DEF PoolCounts
    <2> QED
      BY <2>2, <2>5, <2>8
  <1>6. CASE refcount[b] # 1
    <2>1. busy' = busy /\ refcount'[b] >= 1 /\ refcount[b] >= 1
      BY <1>1, <1>2, <1>6
    <2>2. \A c \in Buffers : /\ refcount'[c] \in Nat /\ refcount[c] \in Nat
                             /\ refcount'[c] > 0 <=> refcount[c] > 0
                             /\ refcount'[c] = 0 <=> refcount[c] = 0
      <3>1. \A c \in Buffers : refcount[c] \in Nat
        BY DEF PoolTypes
      <3>2. refcount'[b] > 0 /\ refcount[b] > 0 /\ refcount'[b] # 0 /\ refcount[b] # 0
        BY <1>2, <1>6
      <3> QED
        BY <1>2, <3>1, <3>2
    <2>3. PoolTypes'
      BY <1>1, <1>2, <2>1 DEF PoolTypes
    <2>4. \A c \in Buffers : /\ Returns(c)' <=> Returns(c)
                             /\ Getting(c)' <=> Getting(c)
      BY <2>1 DEF Returns, Getting
    <2>5. Places'
      BY <1>1, <1>3, <2>1, <2>2, <2>4 DEF Places
    <2>6. Out' = Out /\ Counting' = Counting
      BY <2>1, <2>2, <2>4 DEF Out, Counting
    <2>7. PoolCounts'
      BY <1>1, <2>6 DEF PoolCounts
    <2> QED
      BY <2>3, <2>5, <2>7
  <1> QED
    BY <1>5, <1>6

LEMMA PutKeepsPool ==
  ASSUME PoolInv, NEW t \in Threads, pool_release_buffer(t)
  PROVE  /\ PoolInv' /\ busy[t].buf \in Buffers /\ refcount[busy[t].buf] = 0
         /\ busy[t].step = "put"
  <1> USE DEF PoolInv
  <1>0. PICK b \in Buffers : b = busy[t].buf
    BY BusyTypes DEF pool_release_buffer
  <1>1. /\ busy[t].step = "put" /\ busy[t].buf = b
        /\ data' = [data EXCEPT ![b] = 0] /\ pool' = <<b>> \o pool
        /\ busy' = [busy EXCEPT ![t] = [step |-> "count"]]
        /\ UNCHANGED <<refcount, entries, freed, pool_refcount, uninited, pool_freed>>
    BY <1>0 DEF pool_release_buffer
  <1>2. /\ busy'[t].step = "count"
        /\ \A u \in Threads : u # t => busy'[u] = busy[u]
    BY <1>1 DEF PoolTypes
  <1>3. Returns(b)
    BY <1>1 DEF Returns
  <1>4. /\ refcount[b] = 0 /\ b \notin freed /\ ~IsListed(b) /\ b \in entries
    BY <1>1, <1>3 DEF Places
  <1>5. /\ pool' \in Seq(entries) /\ Len(pool) \in Nat /\ Len(pool') = Len(pool) + 1
        /\ \A i \in 1 .. Len(pool) + 1 : pool'[i] = IF i = 1 THEN b ELSE pool[i - 1]
    BY <1>1, <1>4, Prepend DEF PoolTypes
  <1>6. PoolTypes'
    BY <1>1, <1>5, StepFacts DEF PoolTypes
  <1>7. \A c \in Buffers : IsListed(c)' <=> (IsListed(c) \/ c = b)
    <2>1. ASSUME NEW c \in Buffers, IsListed(c) PROVE IsListed(c)'
      <3>1. PICK i \in 1 .. Len(pool) : pool[i] = c
        BY <2>1 DEF IsListed
      <3>2. i + 1 \in 1 .. Len(pool) + 1 /\ i + 1 # 1 /\ (i + 1) - 1 = i
        BY <1>5, <3>1
      <3> QED
        BY <1>5, <3>1, <3>2 DEF IsListed
    <2>2. IsListed(b)'
      <3>1. 1 \in 1 .. Len(pool) + 1
        BY <1>5
      <3> QED
        BY <1>5, <3>1 DEF IsListed
    <2>3. ASSUME NEW c \in Buffers, IsListed(c)', c # b PROVE IsListed(c)
      <3>1. PICK i \in 1 .. Len(pool) + 1 : pool'[i] = c
        BY <1>5, <2>3 DEF IsListed
      <3>2. i - 1 \in 1 .. Len(pool) /\ pool[i - 1] = c
        BY <1>5, <2>3, <3>1
      <3> QED
        BY <3>2 DEF IsListed
    <2> QED
      BY <2>1, <2>2, <2>3
  <1>8. \A c \in Buffers : Returns(c)' <=> (Returns(c) /\ c # b)
    <2>1. \A u \in Threads : u # t /\ busy[u].step = "put" => busy[u].buf # b
      BY <1>1 DEF Places
    <2> QED
      BY <1>1, <1>2, <2>1 DEF Returns
  <1>9. Places'
    <2>1. \A i, j \in 1 .. Len(pool') : pool'[i] = pool'[j] => i = j
      <3>1. ASSUME NEW i \in 1 .. Len(pool) + 1, NEW j \in 1 .. Len(pool) + 1,
                   pool'[i] = pool'[j]
            PROVE  i = j
        <4>1. ASSUME NEW k \in 1 .. Len(pool) + 1, k # 1
              PROVE  k - 1 \in 1 .. Len(pool) /\ pool'[k] = pool[k - 1] /\ pool'[k] # b
          <5>1. k - 1 \in 1 .. Len(pool) /\ pool'[k] = pool[k - 1]
            BY <1>5, <4>1
          <5> QED
            BY <1>4, <5>1 DEF IsListed
        <4>2. CASE i = 1 \/ j = 1
          BY <1>5, <3>1, <4>1, <4>2
        <4>3. CASE i # 1 /\ j # 1
          <5>1. i - 1 \in 1 .. Len(pool) /\ j - 1 \in 1 .. Len(pool) /\ pool[i - 1] = pool[j - 1]
            BY <3>1, <4>1, <4>3
          <5>2. i - 1 = j - 1
            BY <5>1 DEF Places
          <5> QED
            BY <1>5, <5>2
        <4> QED
          BY <4>2, <4>3
      <3> QED
        BY <1>5, <3>1
    <2>2. /\ \A u, v \in Threads :
               busy'[u].step = "put" /\ busy'[v].step = "put" /\ busy'[u].buf = busy'[v].buf
               => u = v
          /\ \A u \in Threads : busy'[u].step = "get" => u = Main /\ ~uninited'
      BY <1>1, <1>2 DEF Places
    <2>3. ASSUME NEW c \in Buffers
          PROVE  /\ IsListed(c)' => refcount'[c] = 0 /\ ~Returns(c)' /\ c \notin freed'
                 /\ Returns(c)' => refcount'[c] = 0 /\ c \notin freed'
                 /\ c \in freed' => refcount'[c] = 0
                 /\ c \in entries' <=>
                      IsListed(c)' \/ Returns(c)' \/ refcount'[c] > 0 \/ c \in freed'
      BY <1>1, <1>4, <1>7, <1>8 DEF Places
    <2> QED
      BY <2>1, <2>2, <2>3 DEF Places
  <1>10. PoolCounts'
    <2>1. \A c \in Buffers : Getting(c)' <=> Getting(c)
      BY <1>1, <1>2, Sizes DEF Getting
    <2>2. b \in Out /\ Out' = Out \ {b}
      <3>1. \A c \in Buffers : c \in Out' <=> (c \in Out /\ c # b)
        <4>1. ~(refcount[b] > 0)
          BY <1>4
        <4> QED
          BY <1>1, <1>8, <2>1, <4>1 DEF Out
      <3> QED
        BY <1>3, <3>1 DEF Out
    <2>3. t \notin Counting /\ Counting' = Counting \cup {t}
      BY <1>1, <1>2 DEF Counting
    <2>4. Cardinality(Out') = Cardinality(Out) - 1
      BY <2>2, CountFinite, FS_RemoveElement
    <2>5. Cardinality(Counting') = Cardinality(Counting) + 1
      BY <2>3, CountFinite, FS_AddElement
    <2>6. Cardinality(Out) \in Nat /\ Cardinality(Counting) \in Nat /\ One(~uninited) \in Nat
      BY CountFinite DEF One
    <2>7. pool_refcount' = Cardinality(Out') + Cardinality(Counting') + One(~uninited')
      BY <1>1, <2>4, <2>5, <2>6 DEF PoolCounts
    <2>8. pool_refcount # 0
      <3>1. Cardinality(Out) # 0
        BY <2>2, CountFinite, FS_EmptySet
      <3> QED
        BY <2>6, <3>1 DEF PoolCounts
    <2> QED
      BY <1>1, <2>7, <2>8 DEF PoolCounts
  <1> QED
    BY <1>0, <1>1, <1>4, <1>6, <1>9, <1>10

\* An emptied list: what it held is freed.
LEMMA EmptiedPlaces ==
  ASSUME Places, PoolTypes, pool' = <<>>, freed' = freed \cup Listed,
         UNCHANGED <<refcount, entries>>,
         \A t \in Threads : busy'[t].step \in {"get", "put"} => busy'[t] = busy[t],
         \A t \in Threads : busy[t].step = "put" => busy'[t] = busy[t],
         \A t \in Threads : busy'[t].step = "get" => ~uninited'
  PROVE  /\ Places' /\ freed' \in SUBSET entries
         /\ \A c \in Buffers : Returns(c)' <=> Returns(c)
  <1>1. \A c \in Buffers : ~IsListed(c)'
    BY DEF IsListed
  <1>2. \A c \in Buffers : c \in Listed <=> IsListed(c)
    BY LenProperties DEF Listed, IsListed, PoolTypes
  <1>3. \A c \in Buffers : Returns(c)' <=> Returns(c)
    BY DEF Returns
  <1>4. freed' \in SUBSET entries
    <2>1. pool \in [1 .. Len(pool) -> entries] /\ DOMAIN pool = 1 .. Len(pool)
      BY LenProperties DEF PoolTypes
    <2> QED
      BY <2>1 DEF Listed, PoolTypes
  <1>5. ASSUME NEW c \in Buffers
        PROVE  /\ IsListed(c)' => refcount'[c] = 0 /\ ~Returns(c)' /\ c \notin freed'
               /\ Returns(c)' => refcount'[c] = 0 /\ c \notin freed'
               /\ c \in freed' => refcount'[c] = 0
               /\ c \in entries' <=>
                    IsListed(c)' \/ Returns(c)' \/ refcount'[c] > 0 \/ c \in freed'
    BY <1>1, <1>2, <1>3 DEF Places
  <1>6. /\ \A i, j \in 1 .. Len(pool') : pool'[i] = pool'[j] => i = j
        /\ \A t, u \in Threads :
             busy'[t].step = "put" /\ busy'[u].step = "put" /\ busy'[t].buf = busy'[u].buf
             => t = u
        /\ \A t \in Threads : busy'[t].step = "get" => t = Main /\ ~uninited'
    BY DEF Places
  <1> QED
    BY <1>3, <1>4, <1>5, <1>6 DEF Places

LEMMA UninitKeepsPool ==
  ASSUME PoolInv, av_buffer_pool_uninit(Main)
  PROVE  PoolInv'
  <1> USE DEF PoolInv
  <1>1. /\ busy[Main].step = "none" /\ uninited = FALSE /\ uninited' = TRUE
        /\ freed' = freed \cup Listed /\ pool' = <<>>
        /\ busy' = [busy EXCEPT ![Main] = [step |-> "count"]]
        /\ UNCHANGED <<refcount, data, entries, pool_refcount, pool_freed>>
    BY BusyTypes, Sizes DEF av_buffer_pool_uninit, PoolTypes
  <1>2. /\ busy'[Main].step = "count" /\ Main \in Threads
        /\ \A u \in Threads : u # Main => busy'[u] = busy[u]
    BY <1>1, Sizes DEF PoolTypes
  <1>3. /\ \A t \in Threads : busy'[t].step \in {"get", "put"} => busy'[t] = busy[t]
        /\ \A t \in Threads : busy[t].step = "put" => busy'[t] = busy[t]
        /\ \A t \in Threads : busy'[t].step # "get"
    BY <1>1, <1>2 DEF Places
  <1>4. /\ Places' /\ freed' \in SUBSET entries
        /\ \A c \in Buffers : Returns(c)' <=> Returns(c)
    BY <1>1, <1>3, EmptiedPlaces
  <1>5. PoolTypes'
    BY <1>1, <1>4, StepFacts, EmptySeq DEF PoolTypes
  <1>6. Out' = Out
    <2>1. \A c \in Buffers : ~Getting(c)' /\ ~Getting(c)
      BY <1>1, <1>2 DEF Getting
    <2> QED
      BY <1>1, <1>4, <2>1 DEF Out
  <1>7. Main \notin Counting /\ Counting' = Counting \cup {Main}
    BY <1>1, <1>2 DEF Counting
  <1>8. Cardinality(Counting') = Cardinality(Counting) + 1
    BY <1>7, CountFinite, FS_AddElement
  <1>9. PoolCounts'
    <2>1. Cardinality(Out) \in Nat /\ Cardinality(Counting) \in Nat
      BY CountFinite
    <2>2. One(~uninited) = 1 /\ One(~uninited') = 0
      BY <1>1 DEF One
    <2>3. pool_refcount' = Cardinality(Out') + Cardinality(Counting') + One(~uninited')
      BY <1>1, <1>6, <1>8, <2>1, <2>2 DEF PoolCounts
    <2> QED
      BY <1>1, <2>3 DEF PoolCounts
  <1> QED
    BY <1>4, <1>5, <1>9

LEMMA FreeKeepsPool ==
  ASSUME PoolInv, NEW t \in Threads, buffer_pool_free(t)
  PROVE  PoolInv' /\ UNCHANGED <<refcount, data>> /\ busy[t].step = "count"
  <1> USE DEF PoolInv
  <1>1. /\ busy[t].step = "count" /\ pool_refcount' = pool_refcount - 1
        /\ busy' = [busy EXCEPT ![t] = Free]
        /\ \/ /\ pool_refcount = 1
              /\ pool_freed' = TRUE /\ freed' = freed \cup Listed /\ pool' = <<>>
           \/ pool_refcount # 1 /\ UNCHANGED <<pool, freed, pool_freed>>
        /\ UNCHANGED <<refcount, data, entries, uninited>>
    BY DEF buffer_pool_free
  <1>2. /\ busy'[t].step = "none"
        /\ \A u \in Threads : u # t => busy'[u] = busy[u]
    BY <1>1, StepFacts DEF PoolTypes
  <1>3. /\ \A u \in Threads : busy'[u].step \in {"get", "put"} => busy'[u] = busy[u]
        /\ \A u \in Threads : busy[u].step \in {"get", "put"} => busy'[u] = busy[u]
        /\ \A u \in Threads : busy'[u].step = "get" => ~uninited'
    BY <1>1, <1>2 DEF Places
  <1>4. /\ Places' /\ freed' \in SUBSET entries /\ pool' \in Seq(entries)
        /\ \A c \in Buffers : Returns(c)' <=> Returns(c)
    <2>1. CASE pool_refcount = 1
      BY <1>1, <1>3, <2>1, EmptiedPlaces, EmptySeq
    <2>2. CASE pool_refcount # 1
      <3>1. UNCHANGED <<pool, freed>>
        BY <1>1, <2>2
      <3>2. \A c \in Buffers : /\ Returns(c)' <=> Returns(c)
                               /\ IsListed(c)' <=> IsListed(c)
        BY <1>3, <3>1 DEF Returns, IsListed
      <3>3. /\ \A u, v \in Threads :
                 busy'[u].step = "put" /\ busy'[v].step = "put" /\ busy'[u].buf = busy'[v].buf
                 => u = v
            /\ \A u \in Threads : busy'[u].step = "get" => u = Main /\ ~uninited'
        BY <1>3 DEF Places
      <3>4. Places'
        BY <1>1, <3>1, <3>2, <3>3 DEF Places
      <3> QED
        BY <3>1, <3>2, <3>4 DEF PoolTypes
    <2> QED
      BY <2>1, <2>2
  <1>5. Out' = Out
    <2>1. \A c \in Buffers : Getting(c)' <=> Getting(c)
      BY <1>3, Sizes DEF Getting
    <2> QED
      BY <1>1, <1>4, <2>1 DEF Out
  <1>6. t \in Counting /\ Counting' = Counting \ {t}
    BY <1>1, <1>2 DEF Counting
  <1>7. /\ Cardinality(Counting') = Cardinality(Counting) - 1
        /\ Cardinality(Counting) # 0
    BY <1>6, CountFinite, FS_RemoveElement, FS_EmptySet
  <1>8. Cardinality(Out) \in Nat /\ Cardinality(Counting) \in Nat /\ One(~uninited) \in Nat
    BY CountFinite DEF One
  <1>9. /\ pool_refcount = Cardinality(Out) + Cardinality(Counting) + One(~uninited)
        /\ pool_refcount \in Nat /\ pool_refcount >= 1
    BY <1>7, <1>8 DEF PoolCounts
  <1>10. PoolTypes'
    <2>1. pool_refcount' \in Nat
      BY <1>1, <1>9
    <2>2. pool_freed' \in BOOLEAN
      BY <1>1 DEF PoolTypes
    <2> QED
      BY <1>1, <1>4, <2>1, <2>2, StepFacts DEF PoolTypes
  <1>11. PoolCounts'
    <2>1. pool_refcount - 1 = Cardinality(Out) + (Cardinality(Counting) - 1) + One(~uninited)
      BY <1>8, <1>9
    <2>2. pool_refcount' = Cardinality(Out') + Cardinality(Counting') + One(~uninited')
      BY <1>1, <1>5, <1>7, <2>1
    <2>3. ~pool_freed
      BY <1>9 DEF PoolCounts
    <2>4. pool_refcount - 1 = 0 <=> pool_refcount = 1
      BY <1>9
    <2>5. /\ pool_freed' <=> pool_refcount' = 0
          /\ pool_freed' => pool' = <<>>
      BY <1>1, <2>3, <2>4
    <2> QED
      BY <2>2, <2>5 DEF PoolCounts
  <1> QED
    BY <1>1, <1>4, <1>10, <1>11

-----------------------------------------------------------------------------
(* References and what the buffers show.                                   *)

LEMMA FrameFacts ==
  /\ \A x \in FrameType : x # None => x.pts \in Nat /\ x.pts \in Frames /\ x.buf \in Buffers
  /\ \A x \in PacketType : x # None => x.pts \in Nat /\ x.pts \in Frames
                                       /\ x.shows \in Nat /\ x.shows \in Frames
  /\ None \in FrameType /\ None \in PacketType
  BY Sizes DEF FrameType, PacketType, Frames

\* A buffer somebody holds is counted, and is not one that is being got.
LEMMA HeldCounted ==
  ASSUME PoolTypes, Types, References
  PROVE  /\ frame # None => refcount[frame.buf] >= 1 /\ frame.buf \in Buffers
                            /\ ~Getting(frame.buf)
         /\ buffer_frame # None => refcount[buffer_frame.buf] >= 1 /\ buffer_frame.buf \in Buffers
                                   /\ ~Getting(buffer_frame.buf)
         /\ \A i \in Slots : tasks[i].indata # None =>
              /\ refcount[tasks[i].indata.buf] >= 1 /\ tasks[i].indata.buf \in Buffers
              /\ ~Getting(tasks[i].indata.buf) /\ tasks[i].indata \in FrameType
  <1>1. ASSUME NEW b \in Buffers, Holds(frame, b) \/ Holds(buffer_frame, b) \/ InTasks(b)
        PROVE  refcount[b] >= 1 /\ ~Getting(b)
    BY <1>1 DEF References, Refs, One, Getting, Holds
  <1>2. \A i \in Slots : tasks[i].indata \in FrameType
    BY DEF Types, TaskType
  <1>3. frame # None => frame.buf \in Buffers /\ Holds(frame, frame.buf)
    BY FrameFacts DEF Types, Holds
  <1>4. buffer_frame # None => buffer_frame.buf \in Buffers /\ Holds(buffer_frame, buffer_frame.buf)
    BY FrameFacts DEF Types, Holds
  <1>5. \A i \in Slots : tasks[i].indata # None =>
          tasks[i].indata.buf \in Buffers /\ InTasks(tasks[i].indata.buf)
    BY <1>2, FrameFacts DEF InTasks, Holds
  <1> QED
    BY <1>1, <1>2, <1>3, <1>4, <1>5

\* The holders stay.  A step that empties a buffer finds nobody holding it.
LEMMA SameReferences ==
  ASSUME PoolTypes, Types, References, Shown, UNCHANGED <<refcount, frame, buffer_frame, sent>>,
         \A i \in Slots : tasks'[i].indata = tasks[i].indata,
         busy[Main].step = "get" => busy'[Main] = busy[Main],
         busy'[Main].step = "get" =>
            busy'[Main] = busy[Main] /\ pc' = pc /\ draining' = draining,
         \A b \in Buffers : refcount[b] > 0 => data'[b] = data[b]
  PROVE  References' /\ Shown'
  <1>1. \A b : /\ InTasks(b)' <=> InTasks(b)
               /\ Getting(b)' <=> Getting(b)
               /\ Holds(frame, b)' <=> Holds(frame, b)
               /\ Holds(buffer_frame, b)' <=> Holds(buffer_frame, b)
    BY DEF InTasks, Getting, Holds
  <1>2. References'
    <2>1. ASSUME NEW b \in Buffers PROVE refcount'[b] = Refs(b)'
      <3>1. refcount[b] = Refs(b) /\ refcount'[b] = refcount[b]
        BY DEF References
      <3>2. Refs(b)' = Refs(b)
        BY <1>1, Zenon DEF Refs, One
      <3> QED
        BY <3>1, <3>2
    <2>2. /\ \A i, j \in Slots : tasks'[i].indata # None /\ tasks'[j].indata # None
                         /\ tasks'[i].indata.buf = tasks'[j].indata.buf => i = j
          /\ frame' # None => frame'.pts \in {sent', sent' + 1}
          /\ buffer_frame' # None => buffer_frame'.pts = sent'
      BY DEF References
    <2>3. PICK b : b = buffer_frame.buf
      OBVIOUS
    <2>4. PICK c : c = frame.buf
      OBVIOUS
    <2>5. /\ buffer_frame' # None => ~InTasks(b)'
          /\ frame' # None /\ frame'.pts > sent' => ~Holds(buffer_frame, c)' /\ ~InTasks(c)'
      BY <1>1, <2>3, <2>4 DEF References
    <2>6. PICK d : d = busy[Main].buf
      OBVIOUS
    <2>7. busy'[Main].step = "get" =>
            /\ frame' = None /\ pc' = "idle" /\ ~draining' /\ sent' < MaxFrames
            /\ ~Holds(buffer_frame, d)' /\ ~InTasks(d)' /\ busy'[Main].buf = d
      BY <1>1, <2>6 DEF References
    <2> QED
      BY <2>1, <2>2, <2>3, <2>4, <2>5, <2>6, <2>7 DEF References
  <1>3. Shown'
    <2>1. \A b \in Buffers : refcount[b] >= 1 => data'[b] = data[b]
      BY DEF PoolTypes
    <2>2. /\ frame # None => frame.buf \in Buffers /\ refcount[frame.buf] >= 1
          /\ buffer_frame # None => buffer_frame.buf \in Buffers /\ refcount[buffer_frame.buf] >= 1
          /\ \A i \in Slots : tasks[i].indata # None =>
               tasks[i].indata.buf \in Buffers /\ refcount[tasks[i].indata.buf] >= 1
      BY HeldCounted
    <2>3. ASSUME NEW i \in Slots, tasks'[i].indata # None
          PROVE  data'[tasks'[i].indata.buf] = tasks'[i].indata.pts
      BY <2>1, <2>2, <2>3 DEF Shown
    <2>4. /\ frame' # None => data'[frame'.buf] = frame'.pts
          /\ buffer_frame' # None => data'[buffer_frame'.buf] = buffer_frame'.pts
      BY <2>1, <2>2 DEF Shown
    <2> QED
      BY <2>3, <2>4 DEF Shown
  <1> QED
    BY <1>2, <1>3

\* Refs counts four holders.
LEMMA RefsBy ==
  ASSUME NEW b,
         Holds(frame, b)' <=> Holds(frame, b),
         Holds(buffer_frame, b)' <=> Holds(buffer_frame, b),
         InTasks(b)' <=> InTasks(b), Getting(b)' <=> Getting(b)
  PROVE  Refs(b)' = Refs(b)
  BY Zenon DEF Refs, One

LEMMA RefsNumber == \A b : Refs(b) \in Nat /\ Refs(b)' \in Nat
  BY DEF Refs, One

LEMMA NoRefs ==
  ASSUME NEW b \in Buffers, References, refcount[b] = 0
  PROVE  ~Holds(frame, b) /\ ~Holds(buffer_frame, b) /\ ~InTasks(b) /\ ~Getting(b)
  BY DEF References, Refs, One

\* Thread t drops a reference to b.
LEMMA UnrefFacts ==
  ASSUME PoolTypes, NEW t \in Threads, NEW b \in Buffers, av_buffer_unref(t, b)
  PROVE  /\ refcount'[b] = refcount[b] - 1 /\ \A c \in Buffers : c # b => refcount'[c] = refcount[c]
         /\ data' = data
         /\ busy'[Main].step = "get" => busy'[Main] = busy[Main]
         /\ busy[Main].step = "get" => busy'[Main] = busy[Main]
         /\ t = Main => busy'[Main].step # "get" /\ busy[Main].step # "get"
         /\ \A c : Getting(c)' <=> Getting(c)
  <1>1. /\ busy[t] = Free /\ busy[t].step = "none"
        /\ \A u \in Threads : u # t => busy'[u] = busy[u]
        /\ busy'[t] = busy[t] \/ busy'[t].step = "put"
        /\ Main \in Threads
    BY Sizes, StepFacts DEF av_buffer_unref, PoolTypes
  <1>2. /\ refcount'[b] = refcount[b] - 1 /\ \A c \in Buffers : c # b => refcount'[c] = refcount[c]
        /\ data' = data
    BY DEF av_buffer_unref, PoolTypes
  <1>3. /\ busy'[Main].step = "get" => busy'[Main] = busy[Main]
        /\ busy[Main].step = "get" => busy'[Main] = busy[Main]
        /\ t = Main => busy'[Main].step # "get" /\ busy[Main].step # "get"
    BY <1>1
  <1>4. \A c : Getting(c)' <=> Getting(c)
    BY <1>3 DEF Getting
  <1> QED
    BY <1>2, <1>3, <1>4

LEMMA GetBufferKeeps ==
  ASSUME PoolInv, Types, References, Shown, GetBuffer
  PROVE  PoolInv' /\ References' /\ Shown'
  <1>1. PICK b \in Buffers : av_buffer_pool_get(Main, b)
    BY DEF GetBuffer
  <1>2. PoolInv' /\ refcount[b] = 0
    BY <1>1, GetKeepsPool
  <1>3. /\ busy[Main].step = "none" /\ busy'[Main] = [step |-> "get", buf |-> b]
        /\ refcount'[b] = 1 /\ \A c \in Buffers : c # b => refcount'[c] = refcount[c]
        /\ data' = data
    BY <1>1, StepFacts, Sizes DEF av_buffer_pool_get, PoolInv, PoolTypes
  <1>4. /\ pc = "idle" /\ frame = None /\ ~draining /\ sent < MaxFrames
        /\ UNCHANGED <<pc, draining, frame, buffer_frame, tasks, sent>>
    BY DEF GetBuffer, api, ring, user
  <1>5. ~Holds(frame, b) /\ ~Holds(buffer_frame, b) /\ ~InTasks(b) /\ ~Getting(b)
    BY <1>2, NoRefs
  <1>6. \A c : /\ InTasks(c)' <=> InTasks(c)
               /\ Holds(frame, c)' <=> Holds(frame, c)
               /\ Holds(buffer_frame, c)' <=> Holds(buffer_frame, c)
               /\ Getting(c)' <=> c = b
               /\ ~Getting(c)
    BY <1>3, <1>4 DEF InTasks, Getting, Holds
  <1>7. ASSUME NEW c \in Buffers PROVE refcount'[c] = Refs(c)'
    <2>1. CASE c = b
      <3>1. Refs(c)' = 1
        BY <1>5, <1>6, <2>1 DEF Refs, One
      <3> QED
        BY <1>3, <2>1, <3>1
    <2>2. CASE c # b
      <3>1. Refs(c)' = Refs(c)
        BY <1>6, <2>2, RefsBy
      <3> QED
        BY <1>3, <2>2, <3>1 DEF References
    <2> QED
      BY <2>1, <2>2
  <1>8. /\ \A i, j \in Slots : tasks'[i].indata # None /\ tasks'[j].indata # None
                               /\ tasks'[i].indata.buf = tasks'[j].indata.buf => i = j
        /\ frame' = None
        /\ buffer_frame' # None => buffer_frame'.pts = sent'
    BY <1>4 DEF References
  <1>9. PICK d : d = buffer_frame.buf
    OBVIOUS
  <1>10. buffer_frame' # None => buffer_frame'.buf = d /\ ~InTasks(d)'
    BY <1>4, <1>6, <1>9 DEF References
  <1>11. /\ frame' = None /\ pc' = "idle" /\ ~draining' /\ sent' < MaxFrames
         /\ busy'[Main].buf = b
         /\ ~Holds(buffer_frame, b)' /\ ~InTasks(b)'
    BY <1>3, <1>4, <1>5, <1>6
  <1>12. References'
    BY <1>7, <1>8, <1>10, <1>11 DEF References
  <1>13. Shown'
    BY <1>3, <1>4 DEF Shown
  <1> QED
    BY <1>2, <1>12, <1>13

LEMMA DrawKeeps ==
  ASSUME PoolInv, Types, References, Shown, Draw
  PROVE  PoolInv' /\ References' /\ Shown' /\ frame' \in FrameType
  <1>1. busy[Main].step = "get"
    BY DEF Draw, PoolCount
  <1>2. PICK b \in Buffers : b = busy[Main].buf
    BY <1>1, BusyTypes, Sizes DEF PoolInv
  <1>3. /\ data' = [data EXCEPT ![b] = sent + 1] /\ frame' = [pts |-> sent + 1, buf |-> b]
        /\ UNCHANGED <<refcount, pc, draining, buffer_frame, tasks, sent>>
        /\ busy' = [busy EXCEPT ![Main] = Free]
    BY <1>2 DEF Draw, PoolCount, api, ring
  <1>4. /\ frame = None /\ sent < MaxFrames /\ sent \in Nat
        /\ ~Holds(buffer_frame, b) /\ ~InTasks(b) /\ Getting(b)
    BY <1>1, <1>2 DEF References, Types, Getting
  <1>5. data' \in [Buffers -> Nat]
    BY <1>3, <1>4 DEF PoolInv, PoolTypes
  <1>6. refcount[b] = Refs(b) /\ Refs(b) >= 1
    BY <1>4 DEF References, Refs, One
  <1>7. PoolInv'
    BY <1>2, <1>5, <1>6, CountKeepsPool DEF Draw
  <1>8. busy'[Main].step # "get"
    BY <1>3, StepFacts, Sizes DEF PoolInv, PoolTypes
  <1>9. \A c : /\ InTasks(c)' <=> InTasks(c)
               /\ Holds(frame, c)' <=> c = b
               /\ ~Holds(frame, c)
               /\ Holds(buffer_frame, c)' <=> Holds(buffer_frame, c)
               /\ ~Getting(c)'
               /\ Getting(c) <=> c = b
    <2>1. None # [pts |-> sent + 1, buf |-> b]
      <3>1. sent + 1 \in Frames
        BY <1>4, Sizes DEF Frames
      <3> QED
        BY <3>1, Nones
    <2> QED
      BY <1>1, <1>2, <1>3, <1>4, <1>8, <2>1 DEF InTasks, Getting, Holds
  <1>10. ASSUME NEW c \in Buffers PROVE refcount'[c] = Refs(c)'
    <2>1. Refs(c)' = Refs(c)
      BY <1>9 DEF Refs, One
    <2> QED
      BY <1>3, <2>1 DEF References
  <1>11. /\ \A i, j \in Slots : tasks'[i].indata # None /\ tasks'[j].indata # None
                               /\ tasks'[i].indata.buf = tasks'[j].indata.buf => i = j
         /\ frame' # None => frame'.pts \in {sent', sent' + 1}
         /\ buffer_frame' # None => buffer_frame'.pts = sent'
    BY <1>3 DEF References
  <1>12. PICK d : d = buffer_frame.buf
    OBVIOUS
  <1>13. buffer_frame' # None => buffer_frame'.buf = d /\ ~InTasks(d)'
    BY <1>3, <1>9, <1>12 DEF References
  <1>14. ~Holds(buffer_frame, b)' /\ ~InTasks(b)' /\ frame'.buf = b
    BY <1>3, <1>4, <1>9
  <1>15. References'
    BY <1>8, <1>10, <1>11, <1>13, <1>14 DEF References
  <1>16. Shown'
    <2>1. data'[b] = sent + 1 /\ \A c \in Buffers : c # b => data'[c] = data[c]
      BY <1>3 DEF PoolInv, PoolTypes
    <2>2. /\ buffer_frame # None => buffer_frame.buf # b /\ buffer_frame.buf \in Buffers
          /\ \A i \in Slots : tasks[i].indata # None =>
               tasks[i].indata.buf # b /\ tasks[i].indata.buf \in Buffers
      BY <1>4, HeldCounted DEF Holds, InTasks, PoolInv
    <2> QED
      BY <1>3, <2>1, <2>2 DEF Shown
  <1>17. frame' \in FrameType
    BY <1>3, <1>4, Sizes DEF FrameType, Frames
  <1> QED
    BY <1>7, <1>15, <1>16, <1>17

LEMMA DropFrameKeeps ==
  ASSUME PoolInv, Types, References, Shown, DropFrame
  PROVE  PoolInv' /\ References' /\ Shown'
  <1>1. /\ frame # None /\ frame' = None /\ av_buffer_unref(Main, frame.buf)
        /\ UNCHANGED <<pc, draining, buffer_frame, tasks, sent>>
    BY DEF DropFrame, api, ring
  <1>2. PICK b \in Buffers : b = frame.buf /\ refcount[b] >= 1 /\ ~Getting(b)
    BY <1>1, HeldCounted DEF PoolInv
  <1>3. /\ refcount'[b] = refcount[b] - 1 /\ \A c \in Buffers : c # b => refcount'[c] = refcount[c]
        /\ data' = data /\ busy'[Main].step # "get"
        /\ \A c : Getting(c)' <=> Getting(c)
    BY <1>1, <1>2, UnrefFacts, Sizes DEF PoolInv
  <1>4. PoolInv'
    BY <1>1, <1>2, UnrefKeepsPool, Sizes
  <1>5. \A c : /\ InTasks(c)' <=> InTasks(c)
               /\ Holds(buffer_frame, c)' <=> Holds(buffer_frame, c)
               /\ ~Holds(frame, c)'
               /\ Holds(frame, c) <=> c = b
    BY <1>1, <1>2 DEF InTasks, Holds
  <1>6. ASSUME NEW c \in Buffers PROVE refcount'[c] = Refs(c)'
    <2>1. CASE c = b
      <3>1. Refs(c)' = Refs(c) - 1
        BY <1>3, <1>5, <2>1 DEF Refs, One
      <3> QED
        BY <1>3, <2>1, <3>1 DEF References
    <2>2. CASE c # b
      <3>1. Refs(c)' = Refs(c)
        BY <1>3, <1>5, <2>2, RefsBy
      <3> QED
        BY <1>3, <2>2, <3>1 DEF References
    <2> QED
      BY <2>1, <2>2
  <1>7. /\ \A i, j \in Slots : tasks'[i].indata # None /\ tasks'[j].indata # None
                               /\ tasks'[i].indata.buf = tasks'[j].indata.buf => i = j
        /\ buffer_frame' # None => buffer_frame'.pts = sent'
    BY <1>1 DEF References
  <1>8. PICK d : d = buffer_frame.buf
    OBVIOUS
  <1>9. buffer_frame' # None => buffer_frame'.buf = d /\ ~InTasks(d)'
    BY <1>1, <1>5, <1>8 DEF References
  <1>10. References'
    BY <1>1, <1>3, <1>6, <1>7, <1>9 DEF References
  <1>11. Shown'
    BY <1>1, <1>3 DEF Shown
  <1> QED
    BY <1>4, <1>10, <1>11

LEMMA FreeFrameKeeps ==
  ASSUME PoolInv, Types, References, Shown, FreeFrame
  PROVE  PoolInv' /\ References' /\ Shown'
  <1>1. /\ buffer_frame # None /\ buffer_frame' = None /\ av_buffer_unref(Main, buffer_frame.buf)
        /\ UNCHANGED <<pc, draining, frame, tasks, sent>>
    BY DEF FreeFrame, ring, user
  <1>2. PICK b \in Buffers : b = buffer_frame.buf /\ refcount[b] >= 1 /\ ~Getting(b)
    BY <1>1, HeldCounted DEF PoolInv
  <1>3. /\ refcount'[b] = refcount[b] - 1 /\ \A c \in Buffers : c # b => refcount'[c] = refcount[c]
        /\ data' = data /\ busy'[Main].step # "get"
        /\ \A c : Getting(c)' <=> Getting(c)
    BY <1>1, <1>2, UnrefFacts, Sizes DEF PoolInv
  <1>4. PoolInv'
    BY <1>1, <1>2, UnrefKeepsPool, Sizes
  <1>5. \A c : /\ InTasks(c)' <=> InTasks(c)
               /\ Holds(frame, c)' <=> Holds(frame, c)
               /\ ~Holds(buffer_frame, c)'
               /\ Holds(buffer_frame, c) <=> c = b
    BY <1>1, <1>2 DEF InTasks, Holds
  <1>6. ASSUME NEW c \in Buffers PROVE refcount'[c] = Refs(c)'
    <2>1. CASE c = b
      <3>1. Refs(c)' = Refs(c) - 1
        BY <1>3, <1>5, <2>1 DEF Refs, One
      <3> QED
        BY <1>3, <2>1, <3>1 DEF References
    <2>2. CASE c # b
      <3>1. Refs(c)' = Refs(c)
        BY <1>3, <1>5, <2>2, RefsBy
      <3> QED
        BY <1>3, <2>2, <3>1 DEF References
    <2> QED
      BY <2>1, <2>2
  <1>7. /\ \A i, j \in Slots : tasks'[i].indata # None /\ tasks'[j].indata # None
                               /\ tasks'[i].indata.buf = tasks'[j].indata.buf => i = j
        /\ frame' # None => frame'.pts \in {sent', sent' + 1}
    BY <1>1 DEF References
  <1>8. PICK d : d = frame.buf
    OBVIOUS
  <1>9. frame' # None /\ frame'.pts > sent' =>
          frame'.buf = d /\ ~InTasks(d)' /\ ~Holds(buffer_frame, d)'
    BY <1>1, <1>5, <1>8 DEF References
  <1>10. References'
    BY <1>1, <1>3, <1>6, <1>7, <1>9 DEF References
  <1>11. Shown'
    BY <1>1, <1>3 DEF Shown
  <1> QED
    BY <1>4, <1>10, <1>11

LEMMA SendFrameKeeps ==
  ASSUME PoolInv, Types, References, Shown, SendFrame
  PROVE  PoolInv' /\ References' /\ Shown' /\ sent + 1 <= MaxFrames
  <1>1. /\ frame # None /\ frame.pts > sent /\ buffer_frame = None /\ buffer_frame' = frame
        /\ sent' = sent + 1 /\ av_buffer_ref(frame.buf) /\ busy[Main].step # "get"
        /\ UNCHANGED <<draining, frame, tasks>>
    BY StepFacts DEF SendFrame, Ready, ring
  <1>2. PICK b \in Buffers : b = frame.buf /\ refcount[b] >= 1 /\ ~Getting(b)
    BY <1>1, HeldCounted DEF PoolInv
  <1>3. /\ refcount'[b] = refcount[b] + 1 /\ \A c \in Buffers : c # b => refcount'[c] = refcount[c]
        /\ data' = data /\ busy' = busy
    BY <1>1, <1>2 DEF av_buffer_ref, PoolInv, PoolTypes
  <1>4. PoolInv'
    BY <1>1, <1>2, RefKeepsPool
  <1>5. \A c : /\ InTasks(c)' <=> InTasks(c)
               /\ Holds(frame, c)' <=> Holds(frame, c)
               /\ Getting(c)' <=> Getting(c)
               /\ Holds(buffer_frame, c)' <=> c = b
               /\ ~Holds(buffer_frame, c)
    BY <1>1, <1>2, <1>3 DEF InTasks, Holds, Getting
  <1>6. ASSUME NEW c \in Buffers PROVE refcount'[c] = Refs(c)'
    <2>1. CASE c = b
      <3>1. Refs(c)' = Refs(c) + 1
        BY <1>5, <2>1 DEF Refs, One
      <3> QED
        BY <1>3, <2>1, <3>1 DEF References
    <2>2. CASE c # b
      <3>1. Refs(c)' = Refs(c)
        BY <1>5, <2>2, RefsBy
      <3> QED
        BY <1>3, <2>2, <3>1 DEF References
    <2> QED
      BY <2>1, <2>2
  <1>7. /\ \A i, j \in Slots : tasks'[i].indata # None /\ tasks'[j].indata # None
                               /\ tasks'[i].indata.buf = tasks'[j].indata.buf => i = j
        /\ ~InTasks(b)
    BY <1>1, <1>2 DEF References
  <1>8. frame.pts = sent + 1 /\ sent \in Nat /\ sent + 1 \in Frames
    <2>1. sent \in Nat /\ frame.pts \in Frames
      BY <1>1, FrameFacts DEF Types
    <2> QED
      BY <1>1, <2>1 DEF References
  <1>9. sent' = sent + 1 /\ frame'.pts = sent' /\ ~(frame'.pts > sent')
    BY <1>1, <1>8
  <1>10. References'
    <2>1. buffer_frame'.buf = b /\ ~InTasks(b)'
      BY <1>1, <1>2, <1>5, <1>7
    <2>2. busy'[Main].step # "get"
      BY <1>1, <1>3
    <2> QED
      BY <1>1, <1>6, <1>7, <1>9, <2>1, <2>2 DEF References
  <1>11. Shown'
    BY <1>1, <1>3 DEF Shown
  <1> QED
    BY <1>4, <1>8, <1>10, <1>11, Sizes DEF Frames

\* The frame of a task is dropped, by a thread or by ff_frame_thread_encoder_free.
LEMMA TaskDropped ==
  ASSUME PoolInv, Types, References, Shown, NEW i \in Slots, NEW t \in Threads,
         tasks[i].indata # None, av_buffer_unref(t, tasks[i].indata.buf),
         tasks' = [tasks EXCEPT ![i].indata = None],
         UNCHANGED <<pc, draining, frame, buffer_frame, sent>>
  PROVE  PoolInv' /\ References' /\ Shown'
  <1>1. /\ tasks'[i].indata = None
        /\ \A j \in Slots : j # i => tasks'[j] = tasks[j]
    BY DEF Types, TaskType
  <1>2. PICK b \in Buffers : b = tasks[i].indata.buf /\ refcount[b] >= 1 /\ ~Getting(b)
    BY <1>1, HeldCounted DEF PoolInv
  <1>3. /\ refcount'[b] = refcount[b] - 1 /\ \A c \in Buffers : c # b => refcount'[c] = refcount[c]
        /\ data' = data
        /\ busy'[Main].step = "get" => busy'[Main] = busy[Main]
        /\ \A c : Getting(c)' <=> Getting(c)
    BY <1>2, UnrefFacts, Sizes DEF PoolInv
  <1>4. PoolInv'
    BY <1>2, UnrefKeepsPool, Sizes
  <1>5. \A c : /\ InTasks(c)' <=> (InTasks(c) /\ c # b)
               /\ Holds(frame, c)' <=> Holds(frame, c)
               /\ Holds(buffer_frame, c)' <=> Holds(buffer_frame, c)
    <2>1. \A c : /\ Holds(frame, c)' <=> Holds(frame, c)
                 /\ Holds(buffer_frame, c)' <=> Holds(buffer_frame, c)
      BY DEF Holds
    <2>2. \A j \in Slots : tasks[j].indata # None /\ tasks[j].indata.buf = b => j = i
      BY <1>2 DEF References
    <2>3. \A c : InTasks(c)' <=> (InTasks(c) /\ c # b)
      BY <1>1, <1>2, <2>2 DEF InTasks, Holds
    <2> QED
      BY <2>1, <2>3
  <1>6. InTasks(b)
    BY <1>2 DEF InTasks, Holds
  <1>7. ASSUME NEW c \in Buffers PROVE refcount'[c] = Refs(c)'
    <2>1. CASE c = b
      <3>1. Refs(c)' = Refs(c) - 1
        BY <1>3, <1>5, <1>6, <2>1 DEF Refs, One
      <3> QED
        BY <1>3, <2>1, <3>1 DEF References
    <2>2. CASE c # b
      <3>1. Refs(c)' = Refs(c)
        BY <1>3, <1>5, <2>2, RefsBy
      <3> QED
        BY <1>3, <2>2, <3>1 DEF References
    <2> QED
      BY <2>1, <2>2
  <1>8. /\ \A j, k \in Slots : tasks'[j].indata # None /\ tasks'[k].indata # None
                               /\ tasks'[j].indata.buf = tasks'[k].indata.buf => j = k
        /\ frame' # None => frame'.pts \in {sent', sent' + 1}
        /\ buffer_frame' # None => buffer_frame'.pts = sent'
    BY <1>1 DEF References
  <1>9. PICK d, e, g : d = frame.buf /\ e = buffer_frame.buf /\ g = busy[Main].buf
    OBVIOUS
  <1>10. /\ frame' # None /\ frame'.pts > sent' =>
             frame'.buf = d /\ ~InTasks(d)' /\ ~Holds(buffer_frame, d)'
         /\ buffer_frame' # None => buffer_frame'.buf = e /\ ~InTasks(e)'
         /\ busy'[Main].step = "get" =>
              /\ frame' = None /\ pc' = "idle" /\ ~draining' /\ sent' < MaxFrames
              /\ busy'[Main].buf = g /\ ~Holds(buffer_frame, g)' /\ ~InTasks(g)'
    BY <1>3, <1>5, <1>9 DEF References
  <1>11. References'
    BY <1>7, <1>8, <1>10 DEF References
  <1>12. Shown'
    BY <1>1, <1>3 DEF Shown
  <1> QED
    BY <1>4, <1>11, <1>12

LEMMA Numbers ==
  ASSUME Types
  PROVE  /\ Taken \in Nat /\ Queued \in Nat /\ Before \in Int
         /\ Taken <= ThreadCount + 1 /\ Queued <= ThreadCount + 1
         /\ \A i \in Slots : /\ Dist(i, finished_task_index) \in Nat
                             /\ Dist(i, finished_task_index) <= ThreadCount + 1
         /\ sent \in Nat /\ One(buffer_frame # None) \in {0, 1}
  <1>1. /\ task_index \in Slots /\ next_task_index \in Slots /\ finished_task_index \in Slots
        /\ sent \in Nat
    BY DEF Types
  <1>2. \A i \in Slots : /\ Dist(i, finished_task_index) \in Nat
                         /\ Dist(i, finished_task_index) <= ThreadCount + 1
    <2>1. \A i \in Slots : Dist(i, finished_task_index) \in Slots
      BY <1>1, IndexFacts
    <2> QED
      BY <2>1, Sizes
  <1>3. /\ Taken \in Nat /\ Queued \in Nat
        /\ Taken <= ThreadCount + 1 /\ Queued <= ThreadCount + 1
    BY <1>1, <1>2 DEF Taken, Queued
  <1>4. One(buffer_frame # None) \in {0, 1}
    BY DEF One
  <1>5. Before \in Int
    BY <1>1, <1>3, <1>4 DEF Before
  <1> QED
    BY <1>1, <1>2, <1>3, <1>4, <1>5

\* The slot at task_index is free: no task of it is outstanding.
LEMMA SlotFree ==
  ASSUME Types, Indices, Tasks
  PROVE  tasks[task_index] = NoTask
  <1>1. PICK lo \in Int, nd \in Nat, od \in Nat : lo = Before /\ nd = Taken /\ od = Queued /\ nd <= od
    BY Numbers DEF Indices
  <1>2. TaskAt(tasks[task_index], lo + od, lo, nd, od)
    BY <1>1 DEF Tasks, Queued, Types
  <1>3. ~(lo + od < lo + od) /\ ~(lo + od < lo + nd)
    BY <1>1
  <1>4. /\ tasks[task_index].indata = None /\ tasks[task_index].outdata = None
        /\ ~tasks[task_index].finished
    BY <1>2, <1>3 DEF TaskAt
  <1>5. tasks[task_index] \in TaskType
    BY DEF Types
  <1> QED
    BY <1>4, <1>5 DEF TaskType, NoTask

LEMMA QueueTaskKeeps ==
  ASSUME PoolInv, Types, References, Shown, QueueTask, tasks[task_index] = NoTask
  PROVE  PoolInv' /\ References' /\ Shown'
  <1>1. /\ pc = "encode" /\ buffer_frame # None /\ buffer_frame' = None
        /\ tasks' = [tasks EXCEPT ![task_index].indata = buffer_frame]
        /\ UNCHANGED <<refcount, data, pool, entries, freed, pool_refcount, uninited,
                       pool_freed, busy, frame, sent, draining>>
    BY DEF QueueTask, user, poolVars
  <1>2. task_index \in Slots /\ tasks[task_index].indata = None
    BY DEF Types, NoTask
  <1>3. /\ tasks'[task_index].indata = buffer_frame
        /\ \A j \in Slots : j # task_index => tasks'[j] = tasks[j]
    BY <1>1, <1>2 DEF Types, TaskType
  <1>4. PoolInv'
    BY <1>1 DEF PoolInv, PoolTypes, Places, PoolCounts, Returns, IsListed, Getting, Out, Counting
  <1>5. PICK b \in Buffers : b = buffer_frame.buf
    BY <1>1, HeldCounted DEF PoolInv
  <1>6. \A c : /\ InTasks(c)' <=> (InTasks(c) \/ c = b)
               /\ Holds(frame, c)' <=> Holds(frame, c)
               /\ Holds(buffer_frame, c) <=> c = b
               /\ ~Holds(buffer_frame, c)'
               /\ Getting(c)' <=> Getting(c)
    BY <1>1, <1>2, <1>3, <1>5 DEF InTasks, Holds, Getting
  <1>7. ~InTasks(b) /\ busy[Main].step # "get"
    BY <1>1, <1>5 DEF References
  <1>8. ASSUME NEW c \in Buffers PROVE refcount'[c] = Refs(c)'
    <2>1. Refs(c)' = Refs(c)
      BY <1>6, <1>7 DEF Refs, One
    <2> QED
      BY <1>1, <2>1 DEF References
  <1>9. \A j, k \in Slots : tasks'[j].indata # None /\ tasks'[k].indata # None
                               /\ tasks'[j].indata.buf = tasks'[k].indata.buf => j = k
    <2>1. \A j \in Slots : tasks[j].indata # None => tasks[j].indata.buf # b
      BY <1>7 DEF InTasks, Holds
    <2> QED
      BY <1>3, <1>5, <2>1 DEF References
  <1>10. /\ buffer_frame' = None /\ busy'[Main].step # "get"
         /\ frame' # None => frame'.pts \in {sent', sent' + 1}
    BY <1>1, <1>7 DEF References
  <1>11. PICK d : d = frame.buf
    OBVIOUS
  <1>12. frame' # None /\ frame'.pts > sent' =>
           frame'.buf = d /\ ~InTasks(d)' /\ ~Holds(buffer_frame, d)'
    BY <1>1, <1>6, <1>11 DEF References
  <1>13. References'
    BY <1>8, <1>9, <1>10, <1>12 DEF References
  <1>14. Shown'
    BY <1>1, <1>3 DEF Shown
  <1> QED
    BY <1>4, <1>13, <1>14

LEMMA ReleaseKeeps ==
  ASSUME PoolInv, Types, References, Shown, NEW t \in Threads, Release(t),
         UNCHANGED <<api, ring, threads, user>>
  PROVE  PoolInv' /\ References' /\ Shown'
  <1>1. UNCHANGED <<pc, draining, frame, buffer_frame, tasks, sent>>
    BY DEF api, ring, user
  <1>2. CASE pool_release_buffer(t)
    <2>1. /\ PoolInv' /\ busy[t].buf \in Buffers /\ refcount[busy[t].buf] = 0
          /\ busy[t].step = "put"
      BY <1>2, PutKeepsPool
    <2>2. /\ refcount' = refcount
          /\ data' = [data EXCEPT ![busy[t].buf] = 0]
          /\ busy' = [busy EXCEPT ![t] = [step |-> "count"]]
      BY <1>2 DEF pool_release_buffer
    <2>3. /\ busy[Main].step = "get" => busy'[Main] = busy[Main]
          /\ busy'[Main].step = "get" => busy'[Main] = busy[Main]
      BY <2>1, <2>2, Sizes DEF PoolInv, PoolTypes
    <2>4. \A b \in Buffers : refcount[b] > 0 => data'[b] = data[b]
      BY <2>1, <2>2 DEF PoolInv, PoolTypes
    <2> QED
      BY <1>1, <2>1, <2>2, <2>3, <2>4, SameReferences DEF PoolInv
  <1>3. CASE buffer_pool_free(t)
    <2>1. PoolInv' /\ UNCHANGED <<refcount, data>> /\ busy[t].step = "count"
      BY <1>3, FreeKeepsPool
    <2>2. busy' = [busy EXCEPT ![t] = Free]
      BY <1>3 DEF buffer_pool_free
    <2>3. /\ busy[Main].step = "get" => busy'[Main] = busy[Main]
          /\ busy'[Main].step = "get" => busy'[Main] = busy[Main]
      BY <2>1, <2>2, Sizes, StepFacts DEF PoolInv, PoolTypes
    <2> QED
      BY <1>1, <2>1, <2>3, SameReferences DEF PoolInv
  <1> QED
    BY <1>2, <1>3 DEF Release

LEMMA UninitKeeps ==
  ASSUME PoolInv, Types, References, Shown, Uninit
  PROVE  PoolInv' /\ References' /\ Shown'
  <1>1. /\ UNCHANGED <<pc, draining, frame, buffer_frame, tasks, sent>>
        /\ av_buffer_pool_uninit(Main)
    BY DEF Uninit, api, ring, user
  <1>2. /\ busy[Main] = Free /\ busy' = [busy EXCEPT ![Main] = [step |-> "count"]]
        /\ UNCHANGED <<refcount, data>>
    BY <1>1 DEF av_buffer_pool_uninit
  <1>3. busy[Main].step # "get" /\ busy'[Main].step # "get"
    BY <1>2, Sizes, StepFacts DEF PoolInv, PoolTypes
  <1> QED
    BY <1>1, <1>2, <1>3, UninitKeepsPool, SameReferences DEF PoolInv

LEMMA SamePool ==
  ASSUME PoolInv, UNCHANGED <<refcount, data, pool, entries, freed, pool_refcount, uninited,
                              pool_freed, busy>>
  PROVE  PoolInv'
  BY DEF PoolInv, PoolTypes, Places, PoolCounts, Returns, IsListed, Getting, Out, Counting

\* Steps that leave the pool and the holders of its buffers alone.
LEMMA QuietKeeps ==
  ASSUME PoolInv, Types, References, Shown,
         UNCHANGED <<poolVars, frame, buffer_frame, sent>>,
         \A i \in Slots : tasks'[i].indata = tasks[i].indata,
         busy[Main].step = "get" => pc' = pc /\ draining' = draining
  PROVE  PoolInv' /\ References' /\ Shown'
  <1>1. UNCHANGED <<refcount, data, pool, entries, freed, pool_refcount, uninited,
                       pool_freed, busy>>
    BY DEF poolVars
  <1>2. PoolInv'
    BY <1>1, SamePool
  <1> QED
    BY <1>1, <1>2, SameReferences DEF PoolInv

-----------------------------------------------------------------------------
(* Types.                                                                  *)

LEMMA TaskUpdates ==
  ASSUME Types, NEW i \in Slots
  PROVE  /\ \A x \in FrameType : [tasks EXCEPT ![i].indata = x] \in [Slots -> TaskType]
         /\ \A x \in PacketType : [tasks EXCEPT ![i].outdata = x] \in [Slots -> TaskType]
         /\ [tasks EXCEPT ![i].finished = TRUE] \in [Slots -> TaskType]
         /\ [tasks EXCEPT ![i].finished = FALSE, ![i].outdata = None] \in [Slots -> TaskType]
  <1>1. tasks \in [Slots -> TaskType] /\ tasks[i] \in TaskType
    BY DEF Types
  <1>2. None \in PacketType
    BY FrameFacts
  <1>3. \A x \in FrameType : [tasks[i] EXCEPT !.indata = x] \in TaskType
    BY <1>1 DEF TaskType
  <1>4. \A x \in PacketType : [tasks[i] EXCEPT !.outdata = x] \in TaskType
    BY <1>1 DEF TaskType
  <1>5. [tasks[i] EXCEPT !.finished = TRUE] \in TaskType
    BY <1>1 DEF TaskType
  <1>6. [tasks EXCEPT ![i].finished = FALSE, ![i].outdata = None] \in [Slots -> TaskType]
    BY <1>1, <1>2 DEF TaskType
  <1> QED
    BY <1>1, <1>3, <1>4, <1>5, <1>6

LEMMA EncodeReturnsTypes ==
  ASSUME Types, NEW p \in PacketType, EncodeReturns(p)
  PROVE  /\ pc' = "idle" /\ caller' = None /\ buffer_pkt' \in PacketType
         /\ received' \in Seq(PacketType \ {None})
  <1>1. /\ pc' = "idle" /\ caller' = None /\ buffer_pkt' \in PacketType
        /\ received' = received \/ (p # None /\ received' = Append(received, p))
    BY DEF EncodeReturns, Types
  <1>2. received \in Seq(PacketType \ {None})
    BY DEF Types
  <1>3. CASE received' = received
    BY <1>1, <1>2, <1>3
  <1>4. CASE p # None /\ received' = Append(received, p)
    BY <1>1, <1>2, <1>4, AppendProperties
  <1> QED
    BY <1>1, <1>3, <1>4

LEMMA FlagsStep ==
  ASSUME Flags, [Next]_vars
  PROVE  Flags'
  <1> USE DEF Flags
  <1>1. CASE Client
    BY <1>1 DEF Client, GetBuffer, DropFrame, Uninit, SendFrame, SendEOF, ReceivePacket, Close,
                api, ring, threads, user
  <1>2. CASE InCall
    <2>1. CASE Take
      BY <2>1 DEF Take, user
    <2>2. CASE FetchNothing
      BY <2>2 DEF FetchNothing, ring, user
    <2>3. CASE InCall /\ ~Take /\ ~FetchNothing
      BY <2>3 DEF InCall, Spawn, Draw, EncodeNothing, QueueTask, FetchWait, FreeExit, Join,
                  FreeTask, FreeFrame, Freed, api, ring, threads, user
    <2> QED
      BY <1>2, <2>1, <2>2, <2>3
  <1>3. CASE SpawnFails \/ SpuriousWakeup \/ Closed \/ UNCHANGED vars
    BY <1>3 DEF SpawnFails, SpuriousWakeup, Closed, vars, api, ring, threads, user
  <1>4. ASSUME NEW w \in Workers, Worker(w) PROVE Flags'
    BY <1>4 DEF Worker, WorkerExits, WorkerWaits, WorkerTakes, WorkerEncodes, WorkerUnrefs,
                WorkerFinishes, api, ring, threads, user
  <1> QED
    BY <1>1, <1>2, <1>3, <1>4 DEF Next

\* A thread at work has its frame: encode2 gives a packet that shows what was sent.
LEMMA EncodeFacts ==
  ASSUME PoolInv, EncoderInv, NEW w \in Workers, wpc[w] = "encode"
  PROVE  /\ Live /\ mine[w] \in Slots /\ tasks[mine[w]].indata # None
         /\ tasks[mine[w]].indata \in FrameType
         /\ data[tasks[mine[w]].indata.buf] = tasks[mine[w]].indata.pts
         /\ [pts |-> tasks[mine[w]].indata.pts, shows |-> tasks[mine[w]].indata.pts] \in PacketType
  <1>1. Live /\ mine[w] \in Slots
    BY DEF EncoderInv, CallState, Live, Types
  <1>2. tasks[mine[w]].indata # None /\ tasks[mine[w]].indata \in FrameType
    BY <1>1 DEF EncoderInv, WorkerState, Types, TaskType
  <1>3. data[tasks[mine[w]].indata.buf] = tasks[mine[w]].indata.pts
    BY <1>1, <1>2 DEF EncoderInv, Shown
  <1>4. tasks[mine[w]].indata.pts \in Frames
    BY <1>2, FrameFacts
  <1> QED
    BY <1>1, <1>2, <1>3, <1>4 DEF PacketType

LEMMA ClientTypes ==
  ASSUME PoolInv, EncoderInv, Client
  PROVE  Types'
  <1>0. Types
    BY DEF EncoderInv
  <1> USE <1>0
  <1>1. CASE GetBuffer
    BY <1>1 DEF GetBuffer, Types, api, ring, indices, threads, user
  <1>2. CASE DropFrame
    BY <1>2, FrameFacts DEF DropFrame, Types, api, ring, indices, threads
  <1>3. CASE Uninit
    BY <1>3 DEF Uninit, Types, api, ring, indices, threads, user
  <1>4. CASE SendFrame
    <2>1. /\ buffer_frame' = frame /\ sent' = sent + 1 /\ sent + 1 <= MaxFrames
          /\ pc' \in {"encode", "idle"} /\ caller' \in {"send", None}
          /\ UNCHANGED <<buffer_pkt, ring, threads, frame, received>>
      BY <1>4, SendFrameKeeps DEF SendFrame, EncodeAhead, EncoderInv
    <2> QED
      BY <2>1 DEF Types, ring, indices, threads
  <1>5. CASE SendEOF
    <2>1. /\ pc' \in {"encode", "idle"} /\ caller' \in {"send", None}
          /\ UNCHANGED <<buffer_frame, buffer_pkt, ring, threads, user>>
      BY <1>5 DEF SendEOF, EncodeAhead
    <2> QED
      BY <2>1 DEF Types, ring, indices, threads, user
  <1>6. CASE ReceivePacket
    <2>1. UNCHANGED <<buffer_frame, ring, threads, frame, sent>>
      BY <1>6 DEF ReceivePacket
    <2>2. CASE buffer_pkt # None
      <3>1. /\ received' = Append(received, buffer_pkt) /\ buffer_pkt' = None
            /\ UNCHANGED <<pc, caller>>
        BY <1>6, <2>2 DEF ReceivePacket
      <3>2. received' \in Seq(PacketType \ {None}) /\ buffer_pkt' \in PacketType
        BY <2>2, <3>1, AppendProperties, FrameFacts DEF Types
      <3> QED
        BY <2>1, <3>1, <3>2 DEF Types, ring, indices, threads
    <2>3. CASE buffer_pkt = None
      <3>1. pc' = "encode" /\ caller' = "recv" /\ UNCHANGED <<received, buffer_pkt>>
        BY <1>6, <2>3 DEF ReceivePacket
      <3> QED
        BY <2>1, <3>1 DEF Types, ring, indices, threads
    <2> QED
      BY <2>2, <2>3
  <1>7. CASE Close
    BY <1>7 DEF Close, Types, ring, indices, threads, user
  <1> QED
    BY <1>1, <1>2, <1>3, <1>4, <1>5, <1>6, <1>7 DEF Client

LEMMA InCallTypes ==
  ASSUME PoolInv, EncoderInv, InCall
  PROVE  Types'
  <1>0. Types
    BY DEF EncoderInv
  <1> USE <1>0
  <1>1. CASE Spawn
    <2>1. /\ spawned' = spawned + 1 /\ spawned < ThreadCount
          /\ wpc' = [wpc EXCEPT ![spawned + 1] = "loop"] /\ pc' \in {"idle", "init"}
          /\ UNCHANGED <<caller, buffer_frame, buffer_pkt, ring, mine, asleep, user>>
      BY <1>1 DEF Spawn, EncoderInv, CallState
    <2>2. spawned' \in Nat /\ spawned' <= ThreadCount
      BY <2>1, Sizes DEF Types
    <2> QED
      BY <2>1, <2>2 DEF Types, ring, indices, user
  <1>2. CASE Draw
    <2>1. frame' \in FrameType /\ UNCHANGED <<api, ring, threads, sent, received>>
      BY <1>2, DrawKeeps DEF Draw, EncoderInv
    <2> QED
      BY <2>1 DEF Types, api, ring, indices, threads
  <1>3. CASE Release(Main) /\ UNCHANGED <<api, ring, threads, user>>
    BY <1>3 DEF Types, api, ring, indices, threads, user
  <1>4. CASE EncodeNothing
    <2>1. EncodeReturns(None) /\ UNCHANGED <<buffer_frame, ring, threads, frame, sent>>
      BY <1>4 DEF EncodeNothing
    <2>2. /\ pc' = "idle" /\ caller' = None /\ buffer_pkt' \in PacketType
          /\ received' \in Seq(PacketType \ {None})
      BY <2>1, EncodeReturnsTypes, FrameFacts
    <2> QED
      BY <2>1, <2>2 DEF Types, ring, indices, threads
  <1>5. CASE QueueTask
    <2>1. /\ tasks' = [tasks EXCEPT ![task_index].indata = buffer_frame]
          /\ buffer_frame' = None /\ task_index' = Next_(task_index) /\ pc' = "fetch"
          /\ asleep' \in SUBSET asleep
          /\ UNCHANGED <<caller, buffer_pkt, next_task_index, finished_task_index, wpc, mine,
                         spawned, user>>
      BY <1>5 DEF QueueTask
    <2>2. tasks' \in [Slots -> TaskType] /\ task_index' \in Slots /\ buffer_frame' \in FrameType
      BY <2>1, TaskUpdates, IndexFacts, FrameFacts DEF Types
    <2> QED
      BY <2>1, <2>2 DEF Types, user
  <1>6. CASE FetchNothing
    BY <1>6 DEF FetchNothing, Types, ring, indices, threads, user
  <1>7. CASE FetchWait
    <2>1. /\ asleep' = asleep \cup {Main} /\ pc' = "await"
          /\ UNCHANGED <<caller, buffer_frame, buffer_pkt, ring, wpc, mine, spawned, user>>
      BY <1>7 DEF FetchWait
    <2> QED
      BY <2>1, Sizes DEF Types, ring, indices, user
  <1>8. CASE Take
    <2>1. /\ tasks' = [tasks EXCEPT ![finished_task_index].finished = FALSE,
                                    ![finished_task_index].outdata = None]
          /\ finished_task_index' = Next_(finished_task_index)
          /\ EncodeReturns(outtask.outdata)
          /\ UNCHANGED <<buffer_frame, task_index, next_task_index, threads, frame, sent>>
      BY <1>8 DEF Take
    <2>2. outtask.outdata \in PacketType /\ finished_task_index \in Slots
      BY DEF Types, outtask, TaskType
    <2>3. /\ pc' = "idle" /\ caller' = None /\ buffer_pkt' \in PacketType
          /\ received' \in Seq(PacketType \ {None})
      BY <2>1, <2>2, EncodeReturnsTypes
    <2>4. tasks' \in [Slots -> TaskType] /\ finished_task_index' \in Slots
      BY <2>1, <2>2, TaskUpdates, IndexFacts
    <2> QED
      BY <2>1, <2>3, <2>4 DEF Types, threads
  <1>9. CASE FreeExit \/ Join \/ Freed
    BY <1>9 DEF FreeExit, Join, Freed, Types, ring, indices, threads, user
  <1>10. CASE FreeTask
    <2>1. PICK i \in Slots : tasks' = [tasks EXCEPT ![i].indata = None]
      BY <1>10 DEF FreeTask
    <2>2. tasks' \in [Slots -> TaskType]
      BY <2>1, TaskUpdates, FrameFacts
    <2>3. UNCHANGED <<api, indices, threads, user>>
      BY <1>10 DEF FreeTask
    <2> QED
      BY <2>2, <2>3 DEF Types, api, indices, threads, user
  <1>11. CASE FreeFrame
    BY <1>11, FrameFacts DEF FreeFrame, Types, ring, indices, threads, user
  <1> QED
    BY <1>1, <1>2, <1>3, <1>4, <1>5, <1>6, <1>7, <1>8, <1>9, <1>10, <1>11 DEF InCall

LEMMA WorkerTypes ==
  ASSUME PoolInv, EncoderInv, NEW w \in Workers, Worker(w)
  PROVE  Types'
  <1>0. Types
    BY DEF EncoderInv
  <1> USE <1>0
  <1>1. CASE WorkerExits(w) \/ WorkerWaits(w)
    <2>1. /\ wpc' = wpc \/ wpc' = [wpc EXCEPT ![w] = "dead"]
          /\ asleep' = asleep \/ asleep' = asleep \cup {w}
          /\ UNCHANGED <<api, ring, mine, spawned, user>>
      BY <1>1 DEF WorkerExits, WorkerWaits
    <2> QED
      BY <2>1, WorkersAreThreads DEF Types, api, ring, indices, user
  <1>2. CASE WorkerTakes(w)
    <2>1. /\ mine' = [mine EXCEPT ![w] = next_task_index]
          /\ next_task_index' = Next_(next_task_index)
          /\ wpc' = [wpc EXCEPT ![w] = "encode"]
          /\ UNCHANGED <<api, tasks, task_index, finished_task_index, asleep, spawned, user>>
      BY <1>2 DEF WorkerTakes
    <2>2. next_task_index' \in Slots
      BY <2>1, IndexFacts DEF Types
    <2> QED
      BY <2>1, <2>2 DEF Types, api, user
  <1>3. CASE WorkerEncodes(w)
    <2>1. /\ wpc[w] = "encode" /\ wpc' = [wpc EXCEPT ![w] = "unref"]
          /\ \/ tasks' = tasks
             \/ tasks' = [tasks EXCEPT ![mine[w]].outdata =
                            [pts |-> tasks[mine[w]].indata.pts,
                             shows |-> data[tasks[mine[w]].indata.buf]]]
          /\ UNCHANGED <<api, indices, mine, asleep, spawned, user>>
      BY <1>3 DEF WorkerEncodes
    <2>2. PICK q \in PacketType :
            q = [pts |-> tasks[mine[w]].indata.pts, shows |-> data[tasks[mine[w]].indata.buf]]
      BY <2>1, EncodeFacts
    <2>3. PICK i \in Slots : i = mine[w]
      BY DEF Types
    <2>4. tasks' = tasks \/ tasks' = [tasks EXCEPT ![i].outdata = q]
      BY <2>1, <2>2, <2>3
    <2>5. [tasks EXCEPT ![i].outdata = q] \in [Slots -> TaskType]
      BY TaskUpdates
    <2>6. tasks' \in [Slots -> TaskType]
      BY <2>4, <2>5 DEF Types
    <2> QED
      BY <2>1, <2>6 DEF Types, api, indices, user
  <1>4. CASE WorkerUnrefs(w)
    <2>1. /\ tasks' = [tasks EXCEPT ![mine[w]].indata = None] /\ mine[w] \in Slots
          /\ UNCHANGED <<api, indices, threads, user>>
      BY <1>4 DEF WorkerUnrefs, Types
    <2>2. tasks' \in [Slots -> TaskType]
      BY <2>1, TaskUpdates, FrameFacts
    <2> QED
      BY <2>1, <2>2 DEF Types, api, indices, threads, user
  <1>5. CASE WorkerFinishes(w)
    <2>1. /\ tasks' = [tasks EXCEPT ![mine[w]].finished = TRUE] /\ mine[w] \in Slots
          /\ asleep' = asleep \ {Main}
          /\ wpc' = [wpc EXCEPT ![w] = "loop"] /\ mine' = [mine EXCEPT ![w] = 0]
          /\ UNCHANGED <<api, indices, spawned, user>>
      BY <1>5 DEF WorkerFinishes, Types
    <2>2. tasks' \in [Slots -> TaskType]
      BY <2>1, TaskUpdates
    <2>3. 0 \in Slots
      BY Sizes
    <2> QED
      BY <2>1, <2>2, <2>3 DEF Types, api, indices, user
  <1>6. CASE Release(w) /\ UNCHANGED <<api, ring, threads, user>>
    BY <1>6 DEF Types, api, ring, indices, threads, user
  <1> QED
    BY <1>1, <1>2, <1>3, <1>4, <1>5, <1>6 DEF Worker

LEMMA TypesStep ==
  ASSUME PoolInv, EncoderInv, [Next]_vars
  PROVE  Types'
  <1>1. CASE SpawnFails \/ SpuriousWakeup \/ Closed \/ UNCHANGED vars
    <2>1. /\ asleep' \in SUBSET asleep /\ pc' \in {pc, "free"}
          /\ UNCHANGED <<caller, buffer_frame, buffer_pkt, ring, wpc, mine, spawned, user>>
      BY <1>1 DEF SpawnFails, SpuriousWakeup, Closed, vars, api, ring, indices, threads, user
    <2> QED
      BY <2>1 DEF EncoderInv, Types, ring, indices, user
  <1> QED
    BY <1>1, ClientTypes, InCallTypes, WorkerTypes DEF Next

-----------------------------------------------------------------------------
(* The pool and the references, step by step.                              *)

\* An update of a task that leaves its frame alone.
LEMMA SameFrames ==
  ASSUME Types, NEW i \in Slots,
         \/ tasks' = tasks
         \/ \E x : tasks' = [tasks EXCEPT ![i].outdata = x]
         \/ tasks' = [tasks EXCEPT ![i].finished = TRUE]
         \/ tasks' = [tasks EXCEPT ![i].finished = FALSE, ![i].outdata = None]
  PROVE  \A j \in Slots : tasks'[j].indata = tasks[j].indata
  BY DEF Types, TaskType

LEMMA HoldersStep ==
  ASSUME PoolInv, EncoderInv, [Next]_vars
  PROVE  PoolInv' /\ References' /\ Shown'
  <1>0. /\ Types /\ References /\ Shown
        /\ busy[Main].step = "get" => pc = "idle"
        /\ Ready => busy[Main].step # "get"
    BY StepFacts DEF EncoderInv, References, Ready
  <1> USE <1>0
  <1>1. CASE GetBuffer
    BY <1>1, GetBufferKeeps
  <1>2. CASE Draw
    BY <1>2, DrawKeeps
  <1>3. CASE DropFrame
    BY <1>3, DropFrameKeeps
  <1>4. CASE Uninit
    BY <1>4, UninitKeeps
  <1>5. CASE SendFrame
    BY <1>5, SendFrameKeeps
  <1>6. CASE QueueTask
    <2>1. Live
      BY <1>6 DEF QueueTask, Live
    <2> QED
      BY <1>6, <2>1, SlotFree, QueueTaskKeeps DEF EncoderInv
  <1>7. CASE FreeTask
    <2>1. PICK i \in Slots : /\ tasks[i].indata # None
                             /\ av_buffer_unref(Main, tasks[i].indata.buf)
                             /\ tasks' = [tasks EXCEPT ![i].indata = None]
      BY <1>7 DEF FreeTask
    <2>2. UNCHANGED <<pc, draining, frame, buffer_frame, sent>>
      BY <1>7 DEF FreeTask, api, user
    <2> QED
      BY <2>1, <2>2, TaskDropped, Sizes
  <1>8. CASE FreeFrame
    BY <1>8, FreeFrameKeeps
  <1>9. ASSUME NEW w \in Workers, WorkerUnrefs(w) PROVE PoolInv' /\ References' /\ Shown'
    <2>1. PICK i \in Slots : i = mine[w]
      BY DEF Types
    <2>2. /\ tasks[i].indata # None /\ av_buffer_unref(w, tasks[i].indata.buf)
          /\ tasks' = [tasks EXCEPT ![i].indata = None]
          /\ UNCHANGED <<pc, draining, frame, buffer_frame, sent>>
      BY <1>9, <2>1 DEF WorkerUnrefs, api, user
    <2> QED
      BY <2>2, TaskDropped, WorkersAreThreads
  <1>10. ASSUME NEW t \in Threads, Release(t), UNCHANGED <<api, ring, threads, user>>
         PROVE  PoolInv' /\ References' /\ Shown'
    BY <1>10, ReleaseKeeps
  <1>11. ASSUME NEW w \in Workers,
                WorkerExits(w) \/ WorkerWaits(w) \/ WorkerTakes(w) \/ WorkerEncodes(w)
                \/ WorkerFinishes(w)
         PROVE  PoolInv' /\ References' /\ Shown'
    <2>1. PICK i \in Slots : i = mine[w]
      BY DEF Types
    <2>2. /\ UNCHANGED <<poolVars, api, user>>
          /\ \/ tasks' = tasks
             \/ \E x : tasks' = [tasks EXCEPT ![i].outdata = x]
             \/ tasks' = [tasks EXCEPT ![i].finished = TRUE]
      BY <1>11, <2>1 DEF WorkerExits, WorkerWaits, WorkerTakes, WorkerEncodes, WorkerFinishes, ring
    <2>3. \A j \in Slots : tasks'[j].indata = tasks[j].indata
      BY <2>2, SameFrames
    <2>4. UNCHANGED <<poolVars, frame, buffer_frame, sent, pc, draining>>
      BY <2>2 DEF api, user
    <2> QED
      BY <2>3, <2>4, QuietKeeps
  <1>12. CASE Take
    <2>1. PICK i \in Slots : i = finished_task_index
      BY DEF Types
    <2>2. tasks' = [tasks EXCEPT ![i].finished = FALSE, ![i].outdata = None]
      BY <1>12, <2>1 DEF Take
    <2>3. \A j \in Slots : tasks'[j].indata = tasks[j].indata
      BY <2>2, SameFrames
    <2>4. UNCHANGED <<poolVars, frame, buffer_frame, sent>> /\ pc # "idle"
      BY <1>12 DEF Take, Looks, Fetching
    <2> QED
      BY <2>3, <2>4, QuietKeeps
  <1>13. CASE \/ SendEOF \/ ReceivePacket \/ Close \/ Spawn \/ SpawnFails \/ EncodeNothing
              \/ FetchNothing \/ FetchWait \/ FreeExit \/ Join \/ Freed
    <2>1. UNCHANGED <<poolVars, frame, buffer_frame, sent, tasks>>
      BY <1>13 DEF SendEOF, ReceivePacket, Close, Spawn, SpawnFails, EncodeNothing,
                   FetchNothing, FetchWait, FreeExit, Join, Freed, ring, user
    <2>2. Ready \/ pc # "idle"
      BY <1>13 DEF SendEOF, ReceivePacket, Close, Spawn, SpawnFails, EncodeNothing,
                   FetchNothing, FetchWait, FreeExit, Join, Freed, Looks, Fetching
    <2> QED
      BY <2>1, <2>2, QuietKeeps
  <1>14. CASE SpuriousWakeup \/ Closed \/ UNCHANGED vars
    <2>1. UNCHANGED <<poolVars, frame, buffer_frame, sent, tasks, pc, draining>>
      BY <1>14 DEF SpuriousWakeup, Closed, vars, api, ring, user
    <2> QED
      BY <2>1, QuietKeeps
  <1>15. CASE Client
    BY <1>1, <1>3, <1>4, <1>5, <1>13, <1>15 DEF Client
  <1>16. CASE InCall
    BY <1>2, <1>6, <1>7, <1>8, <1>10, <1>12, <1>13, <1>16, Sizes DEF InCall
  <1>17. ASSUME NEW w \in Workers, Worker(w) PROVE PoolInv' /\ References' /\ Shown'
    BY <1>9, <1>10, <1>11, <1>17, WorkersAreThreads DEF Worker
  <1> QED
    BY <1>13, <1>14, <1>15, <1>16, <1>17 DEF Next

-----------------------------------------------------------------------------
(* The state of a call.                                                    *)

LEMMA CallStateStep ==
  ASSUME EncoderInv, [Next]_vars
  PROVE  CallState'
  <1>0. Types /\ CallState
    BY DEF EncoderInv
  <1>a. /\ draining \in BOOLEAN /\ draining_done \in BOOLEAN /\ cut \in BOOLEAN
    BY DEF EncoderInv, Flags
  <1> USE <1>0, <1>a
  <1>1. CASE \/ GetBuffer \/ Draw \/ DropFrame \/ Uninit \/ FreeTask \/ SpuriousWakeup
             \/ Closed \/ UNCHANGED vars
             \/ \E t \in Threads : Release(t) /\ UNCHANGED <<api, ring, threads, user>>
             \/ \E w \in Workers : WorkerWaits(w) \/ WorkerUnrefs(w)
    <2>1. UNCHANGED <<pc, buffer_frame, buffer_pkt, draining, draining_done, cut, task_index,
                      finished_task_index, spawned, wpc>>
      BY <1>1 DEF GetBuffer, Draw, DropFrame, Uninit, FreeTask, SpuriousWakeup, Closed,
                  WorkerWaits, WorkerUnrefs, vars, api, ring, indices, threads, user
    <2> QED
      BY <2>1 DEF CallState
  <1>2. ASSUME NEW w \in Workers,
               WorkerExits(w) \/ WorkerTakes(w) \/ WorkerEncodes(w) \/ WorkerFinishes(w)
        PROVE  CallState'
    <2>1. /\ wpc[w] \notin {"none", "dead"}
          /\ \E x : wpc' = [wpc EXCEPT ![w] = x]
          /\ UNCHANGED <<pc, buffer_frame, buffer_pkt, draining, draining_done, cut, task_index,
                         finished_task_index, spawned>>
      BY <1>2 DEF WorkerExits, WorkerTakes, WorkerEncodes, WorkerFinishes, api, ring, indices, user
    <2>2. pc \notin {"drop", "closed"} /\ ~(w > spawned)
      BY <2>1 DEF CallState
    <2>3. \A u \in Workers : u > spawned' => wpc'[u] = "none"
      BY <2>1, <2>2 DEF CallState, Types
    <2> QED
      BY <2>1, <2>2, <2>3 DEF CallState
  <1>3. CASE Spawn
    <2>1. /\ spawned' = spawned + 1 /\ wpc' = [wpc EXCEPT ![spawned + 1] = "loop"]
          /\ pc' = IF spawned' = ThreadCount THEN "idle" ELSE "init"
          /\ spawned < ThreadCount
          /\ UNCHANGED <<buffer_frame, buffer_pkt, draining, draining_done, cut, task_index,
                         finished_task_index>>
      BY <1>3 DEF Spawn, CallState, ring, indices, user
    <2>2. PICK n \in Nat : n = spawned
      BY DEF Types
    <2>3. \A u \in Workers : u > n + 1 => wpc'[u] = "none"
      BY <2>1, <2>2, Sizes DEF CallState, Types
    <2>4. pc' = "init" => n + 1 < ThreadCount
      BY <2>1, <2>2, Sizes
    <2>5. spawned' = n + 1 /\ pc' \in {"idle", "init"}
      BY <2>1, <2>2
    <2> QED
      BY <2>1, <2>3, <2>4, <2>5 DEF CallState
  <1>4. CASE SendFrame \/ SendEOF
    <2>1. /\ pc' = IF buffer_pkt = None THEN "encode" ELSE "idle"
          /\ ~draining
          /\ draining' => buffer_frame' = None
          /\ UNCHANGED <<buffer_pkt, draining_done, cut, task_index, finished_task_index, wpc,
                         spawned>>
      BY <1>4 DEF SendFrame, SendEOF, EncodeAhead, ring, indices, threads, user
    <2> QED
      BY <2>1 DEF CallState
  <1>5. CASE ReceivePacket
    <2>1. /\ \/ pc' = "idle" /\ pc = "idle"
             \/ pc' = "encode" /\ buffer_pkt' = None
          /\ UNCHANGED <<buffer_frame, draining, draining_done, cut, task_index,
                         finished_task_index, wpc, spawned>>
      BY <1>5 DEF ReceivePacket, ring, indices, threads
    <2> QED
      BY <2>1 DEF CallState
  <1>6. CASE EncodeNothing
    <2>1. /\ pc' = "idle"
          /\ UNCHANGED <<buffer_frame, draining, draining_done, cut, task_index,
                         finished_task_index, wpc, spawned>>
      BY <1>6 DEF EncodeNothing, EncodeReturns, ring, indices, threads
    <2> QED
      BY <2>1 DEF CallState
  <1>7. CASE QueueTask
    <2>1. /\ pc = "encode" /\ pc' = "fetch" /\ ~draining
          /\ UNCHANGED <<draining, draining_done, buffer_pkt, cut, wpc, spawned>>
      BY <1>7 DEF QueueTask, user
    <2> QED
      BY <2>1 DEF CallState
  <1>8. CASE FetchNothing
    <2>1. /\ pc \in {"fetch", "encode"} /\ pc' = "encode" /\ draining_done' = draining
          /\ draining => task_index = finished_task_index
          /\ UNCHANGED <<draining, buffer_frame, buffer_pkt, cut, task_index,
                         finished_task_index, wpc, spawned>>
      BY <1>8 DEF FetchNothing, Fetching, NothingYet, ring, indices, threads, user
    <2> QED
      BY <2>1 DEF CallState
  <1>9. CASE FetchWait
    <2>1. /\ pc \in {"fetch", "encode", "await"} /\ pc' = "await" /\ ~draining_done
          /\ UNCHANGED <<draining, draining_done, buffer_frame, buffer_pkt, cut, task_index,
                         finished_task_index, wpc, spawned>>
      BY <1>9 DEF FetchWait, Looks, Fetching, CallState, ring, indices, user
    <2> QED
      BY <2>1 DEF CallState
  <1>10. CASE Take
    <2>1. /\ pc' = "idle" /\ (draining_done' => draining) /\ cut' = draining_done'
          /\ UNCHANGED <<draining, buffer_frame, wpc, spawned>>
      BY <1>10 DEF Take, EncodeReturns, threads
    <2> QED
      BY <2>1 DEF CallState
  <1>11. CASE Close \/ FreeExit \/ SpawnFails
    <2>1. /\ pc' \in {"free", "join"}
          /\ UNCHANGED <<draining, draining_done, buffer_frame, buffer_pkt, cut, task_index,
                         finished_task_index, wpc, spawned>>
      BY <1>11 DEF Close, FreeExit, SpawnFails, ring, indices, threads, user
    <2> QED
      BY <2>1 DEF CallState
  <1>12. CASE Join
    <2>1. /\ pc' = "drop" /\ \A w \in 1 .. spawned : wpc[w] = "dead"
          /\ UNCHANGED <<draining, draining_done, buffer_frame, buffer_pkt, cut, task_index,
                         finished_task_index, wpc, spawned>>
      BY <1>12 DEF Join, ring, indices, threads, user
    <2>2. \A w \in Workers : wpc[w] \in {"none", "dead"}
      <3>1. ASSUME NEW w \in Workers PROVE wpc[w] \in {"none", "dead"}
        <4>1. w \in 1 .. spawned \/ w > spawned
          BY Sizes DEF Types
        <4> QED
          BY <2>1, <4>1 DEF CallState
      <3> QED
        BY <3>1
    <2> QED
      BY <2>1, <2>2 DEF CallState
  <1>13. CASE FreeFrame \/ Freed
    <2>1. /\ pc = "drop" /\ pc' \in {"drop", "closed"} /\ buffer_frame' = None
          /\ UNCHANGED <<draining, draining_done, buffer_pkt, cut, task_index,
                         finished_task_index, wpc, spawned>>
      BY <1>13 DEF FreeFrame, Freed, ring, indices, threads, user
    <2> QED
      BY <2>1 DEF CallState
  <1>14. CASE Client
    BY <1>1, <1>4, <1>5, <1>11, <1>14 DEF Client
  <1>15. CASE InCall
    BY <1>1, <1>3, <1>6, <1>7, <1>8, <1>9, <1>10, <1>11, <1>12, <1>13, <1>15, Sizes DEF InCall
  <1>16. ASSUME NEW w \in Workers, Worker(w) PROVE CallState'
    BY <1>1, <1>2, <1>16, WorkersAreThreads DEF Worker
  <1> QED
    BY <1>1, <1>11, <1>14, <1>15, <1>16 DEF Next

-----------------------------------------------------------------------------
(* The tasks and the threads.                                              *)

\* The distances move with the indices.
LEMMA DistNext ==
  /\ \A i, f \in Slots : Dist(i, Next_(f)) = IF i = f THEN ThreadCount + 1 ELSE Dist(i, f) - 1
  /\ \A i, f \in Slots : Dist(i, f) <= ThreadCount => Dist(Next_(i), f) = Dist(i, f) + 1
  <1>1. Slots = 0 .. ThreadCount + 1 /\ ThreadCount \in Nat /\ max_tasks = ThreadCount + 2
    BY Sizes
  <1>2. \A i \in Slots : Next_(i) = IF i = ThreadCount + 1 THEN 0 ELSE i + 1
    BY IndexFacts
  <1>3. ASSUME NEW i \in Slots, NEW f \in Slots
        PROVE  /\ Dist(i, Next_(f)) = IF i = f THEN ThreadCount + 1 ELSE Dist(i, f) - 1
               /\ Dist(i, f) <= ThreadCount => Dist(Next_(i), f) = Dist(i, f) + 1
    <2>1. /\ Next_(f) = IF f = ThreadCount + 1 THEN 0 ELSE f + 1
          /\ Next_(i) = IF i = ThreadCount + 1 THEN 0 ELSE i + 1
      BY <1>2
    <2> QED
      BY <1>1, <2>1 DEF Dist
  <1> QED
    BY <1>3

\* What the indices say, for given values.
LEMMA IndicesBy ==
  ASSUME NEW lo \in Int, NEW nd \in Nat, NEW od \in Nat, NEW k \in {0, 1},
         Taken' = nd, Queued' = od, Before' = lo, One(pc \in {"fetch", "await"})' = k,
         nd <= od, od <= ThreadCount + k, lo >= 0
  PROVE  Indices'
  BY DEF Indices

\* Steps that move no index.
LEMMA SameIndices ==
  ASSUME Types, Indices,
         UNCHANGED <<task_index, next_task_index, finished_task_index>>,
         sent' - One(buffer_frame # None)' = sent - One(buffer_frame # None),
         Queued <= ThreadCount \/ pc' \in {"fetch", "await"}
  PROVE  /\ Taken' = Taken /\ Queued' = Queued /\ Before' = Before
         /\ Indices'
  <1>1. /\ Taken \in Nat /\ Queued \in Nat /\ Before \in Int
        /\ Queued <= ThreadCount + 1 /\ ThreadCount \in Nat
    BY Numbers, Sizes
  <1>2. Taken' = Taken /\ Queued' = Queued
    BY DEF Taken, Queued
  <1>3. Before' = Before
    BY <1>2 DEF Before
  <1>4. PICK k \in {0, 1} : /\ One(pc \in {"fetch", "await"})' = k
                            /\ pc' \in {"fetch", "await"} => k = 1
    BY DEF One
  <1>5. Queued <= ThreadCount + k
    BY <1>1, <1>4
  <1> QED
    BY <1>1, <1>2, <1>3, <1>4, <1>5, IndicesBy DEF Indices

\* ... and no task, and leave the threads at work alone.
LEMMA SameTasks ==
  ASSUME Tasks, WorkerState, UNCHANGED <<tasks, mine, finished_task_index>>,
         Taken' = Taken, Queued' = Queued, Before' = Before,
         \A w \in Workers : wpc'[w] = wpc[w] \/ (~Working(w) /\ ~Working(w)')
  PROVE  Tasks' /\ WorkerState'
  <1>1. Tasks'
    BY DEF Tasks
  <1>2. \A w \in Workers : /\ Working(w)' <=> Working(w)
                           /\ Working(w)' => wpc'[w] = wpc[w]
                           /\ wpc'[w] \in {"encode", "unref"} => wpc'[w] = wpc[w]
    BY DEF Working
  <1>3. WorkerState'
    BY <1>2 DEF WorkerState
  <1> QED
    BY <1>1, <1>3

LEMMA SameOut ==
  ASSUME Rising, UNCHANGED <<received, buffer_pkt>>
  PROVE  Rising' /\ (AllOut /\ Before' = Before => AllOut')
  <1>1. Rising'
    BY DEF Rising
  <1>2. \A n : HasPts(n)' <=> HasPts(n)
    BY DEF HasPts
  <1>3. ASSUME AllOut, Before' = Before PROVE AllOut'
    BY <1>2, <1>3 DEF AllOut
  <1> QED
    BY <1>1, <1>3

LiveInv == Indices /\ Tasks /\ WorkerState /\ AllOut

\* What Tasks says of slot i, for given values of the indices.
LEMMA TaskFacts ==
  ASSUME Types, Indices, Tasks
  PROVE  \E lo \in Int, nd \in Nat, od \in Nat, f \in Slots :
           /\ lo = Before /\ nd = Taken /\ od = Queued /\ f = finished_task_index
           /\ nd <= od /\ od <= ThreadCount + 1 /\ lo >= 0
           /\ pc \notin {"fetch", "await"} => od <= ThreadCount
           /\ \A i \in Slots : /\ Dist(i, f) \in Nat /\ Dist(i, f) <= ThreadCount + 1
                               /\ TaskAt(tasks[i], lo + Dist(i, f), lo, nd, od)
  <1>1. /\ Taken \in Nat /\ Queued \in Nat /\ Before \in Int /\ finished_task_index \in Slots
        /\ Taken <= Queued /\ Queued <= ThreadCount + 1 /\ Before >= 0
    BY Numbers DEF Types, Indices
  <1>2. ThreadCount \in Nat /\ (pc \notin {"fetch", "await"} => Queued <= ThreadCount)
    BY <1>1, Sizes DEF Indices, One
  <1>3. \A i \in Slots : /\ Dist(i, finished_task_index) \in Nat
                         /\ Dist(i, finished_task_index) <= ThreadCount + 1
                         /\ TaskAt(tasks[i], Before + Dist(i, finished_task_index), Before,
                                   Taken, Queued)
    BY Numbers DEF Tasks
  <1> QED
    BY <1>1, <1>2, <1>3

LEMMA WorkerTakesLive ==
  ASSUME EncoderInv, LiveInv, NEW w \in Workers, WorkerTakes(w)
  PROVE  LiveInv' /\ Rising'
  <1>0. Types /\ Indices /\ Tasks /\ WorkerState /\ AllOut /\ Rising
    BY DEF EncoderInv, LiveInv
  <1> USE <1>0
  <1>1. PICK lo \in Int, nd \in Nat, od \in Nat, f \in Slots :
          /\ lo = Before /\ nd = Taken /\ od = Queued /\ f = finished_task_index
          /\ nd <= od /\ od <= ThreadCount + 1 /\ lo >= 0
          /\ pc \notin {"fetch", "await"} => od <= ThreadCount
          /\ \A i \in Slots : /\ Dist(i, f) \in Nat /\ Dist(i, f) <= ThreadCount + 1
                              /\ TaskAt(tasks[i], lo + Dist(i, f), lo, nd, od)
    BY TaskFacts
  <1>2. PICK q \in Slots : q = next_task_index
    BY DEF Types
  <1>3. /\ wpc[w] = "loop" /\ q # task_index
        /\ mine' = [mine EXCEPT ![w] = q] /\ next_task_index' = Next_(q)
        /\ wpc' = [wpc EXCEPT ![w] = "encode"]
        /\ UNCHANGED <<tasks, task_index, finished_task_index, pc, buffer_frame, buffer_pkt,
                       sent, received>>
    BY <1>2 DEF WorkerTakes, api, user
  <1>4. Dist(q, f) = nd /\ nd < od
    <2>1. Dist(q, f) = nd /\ Dist(task_index, f) = od /\ task_index \in Slots
      BY <1>1, <1>2 DEF Taken, Queued, Types
    <2>2. nd # od
      BY <1>3, <2>1, IndexFacts
    <2> QED
      BY <1>1, <2>1, <2>2
  <1>5. Taken' = nd + 1 /\ Queued' = od /\ Before' = lo /\ finished_task_index' = f
    <2>0. Dist(q, f) <= ThreadCount
      BY <1>1, <1>4, Sizes
    <2>1. Dist(Next_(q), f) = nd + 1
      BY <1>4, <2>0, DistNext
    <2>2. Taken' = nd + 1 /\ Queued' = od
      BY <1>1, <1>3, <2>1 DEF Taken, Queued
    <2> QED
      BY <1>1, <1>3, <2>2 DEF Before
  <1>6. Indices'
    <2>1. PICK k \in {0, 1} : One(pc \in {"fetch", "await"}) = k
      BY DEF One
    <2>2. One(pc \in {"fetch", "await"})' = k /\ od <= ThreadCount + k
      BY <1>1, <1>3, <2>1 DEF Indices
    <2>3. nd + 1 \in Nat /\ nd + 1 <= od
      BY <1>4
    <2> QED
      BY <1>1, <1>5, <2>2, <2>3, IndicesBy
  <1>7. Tasks'
    <2>1. ASSUME NEW i \in Slots
          PROVE  TaskAt(tasks[i], lo + Dist(i, f), lo, nd + 1, od)
      <3>1. PICK n \in Int : n = lo + Dist(i, f)
        BY <1>1
      <3>2. TaskAt(tasks[i], n, lo, nd, od)
        BY <1>1, <3>1
      <3>3. /\ n < lo + nd => n < lo + (nd + 1)
            /\ lo + (nd + 1) <= n => lo + nd <= n
        BY <1>1
      <3>4. TaskAt(tasks[i], n, lo, nd + 1, od)
        BY <3>2, <3>3 DEF TaskAt
      <3> QED
        BY <3>1, <3>4
    <2> QED
      BY <1>3, <1>5, <2>1 DEF Tasks
  <1>8. WorkerState'
    <2>1. TaskAt(tasks[q], lo + nd, lo, nd, od)
      BY <1>1, <1>4
    <2>2. ~(lo + nd < lo + nd) /\ lo + nd <= lo + nd /\ lo + nd < lo + od
      BY <1>4
    <2>3. ~tasks[q].finished /\ tasks[q].indata # None /\ tasks[q].outdata = None
      BY <2>1, <2>2 DEF TaskAt
    <2>4. \A u \in Workers : Working(u) => Dist(mine[u], f) < nd /\ mine[u] # q /\ mine[u] \in Slots
      BY <1>1, <1>4 DEF WorkerState, Types
    <2>5. /\ \A u \in Workers : u # w => wpc'[u] = wpc[u] /\ mine'[u] = mine[u]
          /\ wpc'[w] = "encode" /\ mine'[w] = q /\ ~Working(w)
      BY <1>3 DEF Types, Working
    <2>6. \A u \in Workers : Working(u)' <=> (Working(u) \/ u = w)
      BY <2>5 DEF Working
    <2>7. ASSUME NEW u \in Workers, u # w
          PROVE  /\ Working(u)' => /\ Dist(mine[u], f) < nd + 1
                                   /\ ~tasks[mine[u]].finished
                                   /\ \A v \in Workers : Working(v)' /\ mine'[v] = mine[u] => v = u
                 /\ wpc[u] = "encode" =>
                      tasks[mine[u]].indata # None /\ tasks[mine[u]].outdata = None
                 /\ wpc[u] = "unref" /\ tasks[mine[u]].outdata = None =>
                      lo + Dist(mine[u], f) + 1 \in Unencodable
      <3>1. Working(u) => Dist(mine[u], f) < nd + 1
        BY <1>1, <2>4
      <3>2. Working(u) => \A v \in Workers : Working(v)' /\ mine'[v] = mine[u] => v = u
        BY <2>4, <2>5, <2>6 DEF WorkerState
      <3>3. /\ Working(u) => ~tasks[mine[u]].finished
            /\ wpc[u] = "encode" => tasks[mine[u]].indata # None /\ tasks[mine[u]].outdata = None
            /\ wpc[u] = "unref" /\ tasks[mine[u]].outdata = None =>
                      lo + Dist(mine[u], f) + 1 \in Unencodable
        BY <1>1 DEF WorkerState
      <3> QED
        BY <2>6, <2>7, <3>1, <3>2, <3>3
    <2>8. /\ Dist(q, f) < nd + 1
          /\ \A v \in Workers : Working(v)' /\ mine'[v] = q => v = w
      BY <1>4, <2>4, <2>5, <2>6
    <2> QED
      BY <1>3, <1>5, <2>3, <2>5, <2>7, <2>8 DEF WorkerState
  <1>9. Rising' /\ AllOut'
    <2>1. Before' = Before
      BY <1>1, <1>5
    <2> QED
      BY <1>3, <2>1, SameOut
  <1> QED
    BY <1>6, <1>7, <1>8, <1>9 DEF LiveInv

\* Thread w changes its own task i only.
LEMMA OwnTask ==
  ASSUME EncoderInv, LiveInv, NEW w \in Workers, Working(w), NEW i \in Slots, i = mine[w],
         NEW x, tasks' = [tasks EXCEPT ![i] = x],
         UNCHANGED <<task_index, next_task_index, finished_task_index, pc, buffer_frame,
                     buffer_pkt, sent, received>>,
         \A u \in Workers : u # w => wpc'[u] = wpc[u] /\ mine'[u] = mine[u],
         TaskAt(x, Before + Dist(i, finished_task_index), Before, Taken, Queued),
         \/ ~Working(w)'
         \/ /\ wpc'[w] = "unref" /\ mine'[w] = i /\ ~x.finished
            /\ x.outdata = None => Before + Dist(i, finished_task_index) + 1 \in Unencodable
  PROVE  LiveInv' /\ Rising'
  <1>0. Types /\ Indices /\ Tasks /\ WorkerState /\ AllOut /\ Rising
    BY DEF EncoderInv, LiveInv
  <1> USE <1>0
  <1>1. Taken' = Taken /\ Queued' = Queued /\ Before' = Before
    BY DEF Taken, Queued, Before
  <1>2. Indices'
    BY <1>1 DEF Indices
  <1>3. tasks'[i] = x /\ \A j \in Slots : j # i => tasks'[j] = tasks[j]
    BY DEF Types
  <1>4. Tasks'
    BY <1>1, <1>3 DEF Tasks
  <1>5. \A u \in Workers : u # w => (Working(u)' <=> Working(u))
    BY DEF Working
  <1>6. \A u \in Workers : /\ Working(u) => mine[u] \in Slots
                           /\ u # w /\ Working(u) => mine[u] # i
    BY DEF WorkerState, Types
  <1>7. ASSUME NEW u \in Workers, u # w
        PROVE  /\ Working(u)' => /\ Dist(mine'[u], finished_task_index') < Taken'
                                 /\ ~tasks'[mine'[u]].finished
                                 /\ \A v \in Workers : Working(v)' /\ mine'[v] = mine'[u] => v = u
               /\ wpc'[u] = "encode" =>
                    tasks'[mine'[u]].indata # None /\ tasks'[mine'[u]].outdata = None
               /\ wpc'[u] = "unref" /\ tasks'[mine'[u]].outdata = None =>
                    Before' + Dist(mine'[u], finished_task_index') + 1 \in Unencodable
    <2>1. CASE Working(u)
      <3>1. /\ mine'[u] = mine[u] /\ wpc'[u] = wpc[u] /\ tasks'[mine'[u]] = tasks[mine[u]]
            /\ mine[u] # i
        BY <1>3, <1>6, <1>7, <2>1
      <3>2. \A v \in Workers : Working(v)' /\ mine'[v] = mine'[u] => v = u
        BY <1>5, <2>1, <3>1 DEF WorkerState
      <3> QED
        BY <1>1, <2>1, <3>1, <3>2 DEF WorkerState
    <2>2. CASE ~Working(u)
      BY <1>5, <1>7, <2>2 DEF Working
    <2> QED
      BY <2>1, <2>2
  <1>8. Dist(mine[w], finished_task_index) < Taken
    BY DEF WorkerState
  <1>9. CASE ~Working(w)'
    <2>1. wpc'[w] \notin {"encode", "unref"}
      BY <1>9 DEF Working
    <2> QED
      BY <1>2, <1>4, <1>1, <1>7, <1>9, <2>1, SameOut DEF WorkerState, LiveInv
  <1>10. CASE /\ wpc'[w] = "unref" /\ mine'[w] = i /\ ~x.finished
              /\ x.outdata = None => Before + Dist(i, finished_task_index) + 1 \in Unencodable
    <2>1. \A v \in Workers : Working(v)' /\ mine'[v] = mine'[w] => v = w
      BY <1>5, <1>6, <1>10
    <2>2. WorkerState'
      BY <1>1, <1>3, <1>7, <1>8, <1>10, <2>1 DEF WorkerState
    <2> QED
      BY <1>1, <1>2, <1>4, <2>2, SameOut DEF LiveInv
  <1> QED
    BY <1>9, <1>10

LEMMA WorkerEncodesLive ==
  ASSUME PoolInv, EncoderInv, LiveInv, NEW w \in Workers, WorkerEncodes(w)
  PROVE  LiveInv' /\ Rising'
  <1>0. Types /\ Indices /\ Tasks /\ WorkerState
    BY DEF EncoderInv, LiveInv
  <1> USE <1>0
  <1>1. wpc[w] = "encode" /\ Working(w)
    BY DEF WorkerEncodes, Working
  <1>2. PICK i \in Slots : i = mine[w]
    BY DEF Types
  <1>3. PICK q : q = tasks[i].indata
    OBVIOUS
  <1>4. /\ q # None /\ data[q.buf] = q.pts /\ tasks[i].outdata = None /\ ~tasks[i].finished
        /\ [pts |-> q.pts, shows |-> q.pts] \in PacketType /\ q.pts \in Frames
    BY <1>1, <1>2, <1>3, EncodeFacts, FrameFacts DEF WorkerState
  <1>5. PICK y : y = [pts |-> q.pts, shows |-> q.pts]
    OBVIOUS
  <1>6. y # None
    BY <1>4, <1>5, Nones
  <1>7. PICK x : x = IF q.pts \in Unencodable THEN tasks[i] ELSE [tasks[i] EXCEPT !.outdata = y]
    OBVIOUS
  <1>8. tasks' = [tasks EXCEPT ![i] = x]
    <2>1. tasks' = IF q.pts \in Unencodable THEN tasks ELSE [tasks EXCEPT ![i].outdata = y]
      BY <1>2, <1>3, <1>4, <1>5 DEF WorkerEncodes
    <2>2. tasks = [tasks EXCEPT ![i] = tasks[i]]
      BY DEF Types
    <2> QED
      BY <1>7, <2>1, <2>2
  <1>9. /\ x.indata = q /\ ~x.finished
        /\ IF q.pts \in Unencodable THEN x.outdata = None ELSE x.outdata = y
    <2>1. tasks[i] \in TaskType
      BY DEF Types
    <2> QED
      BY <1>3, <1>4, <1>7, <2>1 DEF TaskType
  <1>10. PICK lo \in Int, nd \in Nat, od \in Nat, f \in Slots :
           /\ lo = Before /\ nd = Taken /\ od = Queued /\ f = finished_task_index
           /\ nd <= od /\ od <= ThreadCount + 1 /\ lo >= 0
           /\ pc \notin {"fetch", "await"} => od <= ThreadCount
           /\ \A j \in Slots : /\ Dist(j, f) \in Nat /\ Dist(j, f) <= ThreadCount + 1
                               /\ TaskAt(tasks[j], lo + Dist(j, f), lo, nd, od)
    BY TaskFacts
  <1>11. PICK n \in Int : n = lo + Dist(i, f)
    BY <1>10
  <1>12. n < lo + nd
    <2>1. Dist(i, f) < nd /\ Dist(i, f) \in Nat
      BY <1>1, <1>2, <1>10 DEF WorkerState
    <2> QED
      BY <1>10, <1>11, <2>1
  <1>13. q.pts = n + 1 /\ n < lo + od
    BY <1>3, <1>4, <1>10, <1>11 DEF TaskAt
  <1>14. TaskAt(x, n, lo, nd, od)
    BY <1>4, <1>5, <1>9, <1>12, <1>13 DEF TaskAt
  <1>15. x.outdata = None => n + 1 \in Unencodable
    BY <1>6, <1>9, <1>13
  <1>16. /\ UNCHANGED <<task_index, next_task_index, finished_task_index, pc, buffer_frame,
                        buffer_pkt, sent, received>>
         /\ \A u \in Workers : u # w => wpc'[u] = wpc[u] /\ mine'[u] = mine[u]
         /\ wpc'[w] = "unref" /\ mine'[w] = i
    BY <1>2 DEF WorkerEncodes, Types, api, indices, user
  <1>17. /\ TaskAt(x, Before + Dist(i, finished_task_index), Before, Taken, Queued)
         /\ x.outdata = None => Before + Dist(i, finished_task_index) + 1 \in Unencodable
    BY <1>10, <1>11, <1>14, <1>15
  <1> QED
    BY <1>1, <1>2, <1>8, <1>9, <1>16, <1>17, OwnTask

\* A task that a thread has taken: its thread gives up the frame, then it is finished.
LEMMA WorkerEndsLive ==
  ASSUME PoolInv, EncoderInv, LiveInv, NEW w \in Workers, WorkerUnrefs(w) \/ WorkerFinishes(w)
  PROVE  LiveInv' /\ Rising'
  <1>0. Types /\ Indices /\ Tasks /\ WorkerState
    BY DEF EncoderInv, LiveInv
  <1> USE <1>0
  <1>1. wpc[w] = "unref" /\ Working(w)
    BY DEF WorkerUnrefs, WorkerFinishes, Working
  <1>2. PICK i \in Slots : i = mine[w]
    BY DEF Types
  <1>3. PICK lo \in Int, nd \in Nat, od \in Nat, f \in Slots :
           /\ lo = Before /\ nd = Taken /\ od = Queued /\ f = finished_task_index
           /\ nd <= od /\ od <= ThreadCount + 1 /\ lo >= 0
           /\ pc \notin {"fetch", "await"} => od <= ThreadCount
           /\ \A j \in Slots : /\ Dist(j, f) \in Nat /\ Dist(j, f) <= ThreadCount + 1
                               /\ TaskAt(tasks[j], lo + Dist(j, f), lo, nd, od)
    BY TaskFacts
  <1>4. PICK n \in Int : n = lo + Dist(i, f)
    BY <1>3
  <1>5. n < lo + nd /\ ~(lo + nd <= n)
    <2>1. Dist(i, f) < nd /\ Dist(i, f) \in Nat
      BY <1>1, <1>2, <1>3 DEF WorkerState
    <2> QED
      BY <1>3, <1>4, <2>1
  <1>6. /\ TaskAt(tasks[i], n, lo, nd, od) /\ ~tasks[i].finished
        /\ tasks[i].outdata = None => n + 1 \in Unencodable
        /\ tasks[i] \in TaskType
    BY <1>1, <1>2, <1>3, <1>4 DEF WorkerState, Types
  <1>7. CASE WorkerUnrefs(w)
    <2>1. PICK x : x = [tasks[i] EXCEPT !.indata = None]
      OBVIOUS
    <2>2. /\ x.indata = None /\ x.outdata = tasks[i].outdata /\ x.finished = tasks[i].finished
      BY <1>6, <2>1 DEF TaskType
    <2>3. /\ tasks' = [tasks EXCEPT ![i] = x]
          /\ UNCHANGED <<task_index, next_task_index, finished_task_index, pc, buffer_frame,
                        buffer_pkt, sent, received, wpc, mine>>
      BY <1>2, <1>7, <2>1 DEF WorkerUnrefs, api, indices, threads, user
    <2>4. TaskAt(x, n, lo, nd, od)
      BY <1>5, <1>6, <2>2 DEF TaskAt
    <2>5. /\ TaskAt(x, Before + Dist(i, finished_task_index), Before, Taken, Queued)
          /\ x.outdata = None => Before + Dist(i, finished_task_index) + 1 \in Unencodable
      BY <1>3, <1>4, <1>6, <2>2, <2>4
    <2>6. /\ wpc'[w] = "unref" /\ mine'[w] = i /\ ~x.finished
          /\ \A u \in Workers : u # w => wpc'[u] = wpc[u] /\ mine'[u] = mine[u]
      BY <1>1, <1>2, <1>6, <2>2, <2>3
    <2> QED
      BY <1>1, <1>2, <2>3, <2>5, <2>6, OwnTask
  <1>8. CASE WorkerFinishes(w)
    <2>1. PICK x : x = [tasks[i] EXCEPT !.finished = TRUE]
      OBVIOUS
    <2>2. x.indata = tasks[i].indata /\ x.outdata = tasks[i].outdata /\ x.finished
      BY <1>6, <2>1 DEF TaskType
    <2>3. /\ tasks' = [tasks EXCEPT ![i] = x] /\ tasks[i].indata = None
          /\ UNCHANGED <<task_index, next_task_index, finished_task_index, pc, buffer_frame,
                        buffer_pkt, sent, received>>
      BY <1>2, <1>8, <2>1 DEF WorkerFinishes, api, indices, user
    <2>4. TaskAt(x, n, lo, nd, od)
      BY <1>5, <1>6, <2>2, <2>3 DEF TaskAt
    <2>5. TaskAt(x, Before + Dist(i, finished_task_index), Before, Taken, Queued)
      BY <1>3, <1>4, <2>4
    <2>6. /\ ~Working(w)'
          /\ \A u \in Workers : u # w => wpc'[u] = wpc[u] /\ mine'[u] = mine[u]
      BY <1>8 DEF WorkerFinishes, Working, Types
    <2> QED
      BY <1>1, <1>2, <2>3, <2>5, <2>6, OwnTask
  <1> QED
    BY <1>7, <1>8

LEMMA QueueTaskLive ==
  ASSUME PoolInv, EncoderInv, LiveInv, QueueTask
  PROVE  LiveInv' /\ Rising'
  <1>0. Types /\ Indices /\ Tasks /\ WorkerState /\ AllOut /\ Rising /\ References
    BY DEF EncoderInv, LiveInv
  <1> USE <1>0
  <1>1. PICK lo \in Int, nd \in Nat, od \in Nat, f \in Slots :
           /\ lo = Before /\ nd = Taken /\ od = Queued /\ f = finished_task_index
           /\ nd <= od /\ od <= ThreadCount + 1 /\ lo >= 0
           /\ pc \notin {"fetch", "await"} => od <= ThreadCount
           /\ \A j \in Slots : /\ Dist(j, f) \in Nat /\ Dist(j, f) <= ThreadCount + 1
                               /\ TaskAt(tasks[j], lo + Dist(j, f), lo, nd, od)
    BY TaskFacts
  <1>2. PICK q \in Slots : q = task_index
    BY DEF Types
  <1>3. /\ pc = "encode" /\ buffer_frame # None /\ buffer_frame' = None
        /\ tasks' = [tasks EXCEPT ![q].indata = buffer_frame]
        /\ task_index' = Next_(q) /\ pc' = "fetch"
        /\ UNCHANGED <<next_task_index, finished_task_index, buffer_pkt, wpc, mine, sent,
                       received>>
    BY <1>2 DEF QueueTask, user
  <1>4. Dist(q, f) = od /\ od <= ThreadCount
    BY <1>1, <1>2, <1>3 DEF Queued
  <1>5. Taken' = nd /\ Queued' = od + 1 /\ Before' = lo /\ finished_task_index' = f
    <2>1. Dist(Next_(q), f) = od + 1
      BY <1>4, DistNext
    <2>2. Taken' = nd /\ Queued' = od + 1
      BY <1>1, <1>3, <2>1 DEF Taken, Queued
    <2>3. One(buffer_frame # None) = 1 /\ One(buffer_frame # None)' = 0
      BY <1>3 DEF One
    <2>4. sent \in Nat /\ lo = sent - 1 - od
      BY <1>1, <2>3 DEF Before, Types
    <2>5. Before' = sent - 0 - (od + 1)
      BY <1>3, <2>2, <2>3 DEF Before
    <2>6. sent - 0 - (od + 1) = sent - 1 - od
      BY <2>4
    <2> QED
      BY <1>1, <1>3, <2>2, <2>4, <2>5, <2>6
  <1>6. Indices'
    <2>1. One(pc \in {"fetch", "await"})' = 1
      BY <1>3 DEF One
    <2>2. od + 1 \in Nat /\ nd <= od + 1 /\ od + 1 <= ThreadCount + 1
      BY <1>1, <1>4, Sizes
    <2> QED
      BY <1>1, <1>5, <2>1, <2>2, IndicesBy
  <1>7. /\ tasks'[q].indata = buffer_frame /\ tasks'[q].outdata = None /\ ~tasks'[q].finished
        /\ \A j \in Slots : j # q => tasks'[j] = tasks[j]
    <2>1. tasks[q] = NoTask
      BY <1>2, SlotFree
    <2> QED
      BY <1>3, <2>1 DEF Types, NoTask
  <1>8. Tasks'
    <2>1. ASSUME NEW i \in Slots, i # q
          PROVE  TaskAt(tasks[i], lo + Dist(i, f), lo, nd, od + 1)
      <3>1. PICK n \in Int : n = lo + Dist(i, f) /\ n # lo + od
        BY <1>1, <1>4, <2>1, IndexFacts
      <3>2. TaskAt(tasks[i], n, lo, nd, od)
        BY <1>1, <3>1
      <3>3. n < lo + (od + 1) <=> n < lo + od
        BY <1>1, <3>1
      <3>4. TaskAt(tasks[i], n, lo, nd, od + 1)
        BY <3>2, <3>3 DEF TaskAt
      <3> QED
        BY <3>1, <3>4
    <2>2. TaskAt(tasks'[q], lo + Dist(q, f), lo, nd, od + 1)
      <3>1. buffer_frame.pts = lo + od + 1
        <4>1. One(buffer_frame # None) = 1
          BY <1>3 DEF One
        <4>2. sent \in Nat /\ lo = sent - 1 - od
          BY <1>1, <4>1 DEF Before, Types
        <4>3. buffer_frame.pts = sent
          BY <1>3 DEF References
        <4> QED
          BY <4>2, <4>3
      <3>2. lo + od < lo + (od + 1)
        BY <1>1
      <3> QED
        BY <1>3, <1>4, <1>7, <3>1, <3>2 DEF TaskAt
    <2> QED
      BY <1>5, <1>7, <2>1, <2>2 DEF Tasks
  <1>9. WorkerState'
    <2>1. \A w \in Workers : Working(w) => mine[w] # q /\ mine[w] \in Slots
      BY <1>1, <1>4 DEF WorkerState, Types
    <2>2. \A w \in Workers : Working(w)' <=> Working(w)
      BY <1>3 DEF Working
    <2>3. \A w \in Workers : wpc[w] \in {"encode", "unref"} => tasks'[mine[w]] = tasks[mine[w]]
      BY <1>7, <2>1 DEF Working
    <2>4. \A w \in Workers : Working(w) => tasks'[mine[w]] = tasks[mine[w]]
      BY <1>7, <2>1
    <2>5. Taken' = Taken /\ Before' = Before
      BY <1>1, <1>5
    <2> QED
      BY <1>3, <2>2, <2>3, <2>4, <2>5 DEF WorkerState
  <1>10. Rising' /\ AllOut'
    BY <1>1, <1>3, <1>5, SameOut
  <1> QED
    BY <1>6, <1>8, <1>9, <1>10 DEF LiveInv

\* The client is given packet p, later than those before it.
LEMMA AppendOut ==
  ASSUME Types, Rising, NEW p \in PacketType, p # None, p.shows = p.pts,
         \A i \in 1 .. Len(received) : received[i].pts < p.pts,
         received' = Append(received, p), buffer_pkt' = None
  PROVE  /\ Rising'
         /\ \A n : HasPts(n)' <=> (HasPts(n) \/ n = p.pts)
         /\ \A b \in Int : /\ p.pts <= b
                           /\ \A i \in 1 .. Len(received) : received[i].pts <= b
                           => \A i \in 1 .. Len(received') : received'[i].pts <= b
  <1>1. PICK m \in Nat : m = Len(received)
    BY LenProperties DEF Types
  <1>2. /\ Len(received') = m + 1 /\ received'[m + 1] = p
        /\ \A i \in 1 .. m : received'[i] = received[i]
    BY <1>1, AppendProperties DEF Types
  <1>3. \A i \in 1 .. m + 1 : i \in 1 .. m \/ i = m + 1
    BY <1>1
  <1>4. \A i \in 1 .. m : i \in 1 .. m + 1
    BY <1>1
  <1>5. m + 1 \in 1 .. m + 1
    BY <1>1
  <1>6. Rising'
    <2>1. \A i \in 1 .. m + 1 : received'[i].shows = received'[i].pts
      BY <1>1, <1>2, <1>3 DEF Rising
    <2>2. ASSUME NEW i \in 1 .. m + 1, NEW j \in 1 .. m + 1, i < j
          PROVE  received'[i].pts < received'[j].pts
      <3>1. i \in 1 .. m
        BY <1>1, <2>2
      <3>2. CASE j = m + 1
        BY <1>1, <1>2, <3>1, <3>2
      <3>3. CASE j \in 1 .. m
        BY <1>1, <1>2, <2>2, <3>1, <3>3 DEF Rising
      <3> QED
        BY <1>3, <3>2, <3>3
    <2> QED
      BY <1>2, <2>1, <2>2 DEF Rising
  <1>7. ASSUME NEW n PROVE HasPts(n)' <=> (HasPts(n) \/ n = p.pts)
    BY <1>1, <1>2, <1>3, <1>4, <1>5 DEF HasPts
  <1>8. ASSUME NEW b \in Int, p.pts <= b, \A i \in 1 .. Len(received) : received[i].pts <= b
        PROVE  \A i \in 1 .. Len(received') : received'[i].pts <= b
    BY <1>1, <1>2, <1>3, <1>8
  <1> QED
    BY <1>6, <1>7, <1>8

LEMMA ReceiveLive ==
  ASSUME EncoderInv, ReceivePacket
  PROVE  Rising' /\ (LiveInv => LiveInv')
  <1>0. Types /\ Rising
    BY DEF EncoderInv
  <1> USE <1>0
  <1>1. /\ pc = "idle" /\ pc' \in {"idle", "encode"}
        /\ UNCHANGED <<buffer_frame, sent, tasks, task_index, next_task_index,
                       finished_task_index, wpc, mine>>
    BY DEF ReceivePacket, ring, indices, threads
  <1>2. ASSUME LiveInv PROVE Indices' /\ Tasks' /\ WorkerState' /\ Before' = Before
    <2>1. Queued <= ThreadCount
      BY <1>1, <1>2, Numbers, Sizes DEF LiveInv, Indices, One
    <2>2. sent' - One(buffer_frame # None)' = sent - One(buffer_frame # None)
      BY <1>1
    <2>3. Taken' = Taken /\ Queued' = Queued /\ Before' = Before /\ Indices'
      BY <1>1, <1>2, <2>1, <2>2, SameIndices DEF LiveInv
    <2> QED
      BY <1>1, <1>2, <2>3, SameTasks DEF LiveInv
  <1>3. CASE buffer_pkt = None
    <2>1. UNCHANGED <<received, buffer_pkt>>
      BY <1>3 DEF ReceivePacket
    <2> QED
      BY <1>2, <2>1, SameOut DEF LiveInv
  <1>4. CASE buffer_pkt # None
    <2>1. received' = Append(received, buffer_pkt) /\ buffer_pkt' = None
      BY <1>4 DEF ReceivePacket
    <2>2. PICK p \in PacketType : p = buffer_pkt
      BY DEF Types
    <2>3. p # None /\ p.shows = p.pts /\ \A i \in 1 .. Len(received) : received[i].pts < p.pts
      BY <1>4, <2>2 DEF Rising
    <2>4. /\ Rising'
          /\ \A n : HasPts(n)' <=> (HasPts(n) \/ n = p.pts)
          /\ \A b \in Int : /\ p.pts <= b
                            /\ \A i \in 1 .. Len(received) : received[i].pts <= b
                            => \A i \in 1 .. Len(received') : received'[i].pts <= b
      BY <2>1, <2>2, <2>3, AppendOut
    <2>5. ASSUME LiveInv PROVE AllOut'
      <3>1. PICK b \in Int : b = Before /\ b = Before'
        BY <1>2, <2>5, Numbers
      <3>2. /\ p.pts <= b /\ \A i \in 1 .. Len(received) : received[i].pts <= b
            /\ \A n \in 1 .. b : n \in Unencodable \/ HasPts(n) \/ p.pts = n
        BY <1>4, <2>2, <2>5, <3>1 DEF LiveInv, AllOut
      <3>3. \A i \in 1 .. Len(received') : received'[i].pts <= b
        BY <2>4, <3>2
      <3>4. \A n \in 1 .. b : n \in Unencodable \/ HasPts(n)'
        BY <2>4, <3>2
      <3> QED
        BY <2>1, <3>1, <3>3, <3>4 DEF AllOut
    <2> QED
      BY <1>2, <2>4, <2>5 DEF LiveInv
  <1> QED
    BY <1>3, <1>4

LEMMA TakeLive ==
  ASSUME EncoderInv, LiveInv, Take
  PROVE  LiveInv' /\ Rising'
  <1>0. Types /\ Indices /\ Tasks /\ WorkerState /\ AllOut /\ Rising /\ CallState
    BY DEF EncoderInv, LiveInv
  <1> USE <1>0
  <1>1. PICK lo \in Int, nd \in Nat, od \in Nat, f \in Slots :
           /\ lo = Before /\ nd = Taken /\ od = Queued /\ f = finished_task_index
           /\ nd <= od /\ od <= ThreadCount + 1 /\ lo >= 0
           /\ pc \notin {"fetch", "await"} => od <= ThreadCount
           /\ \A j \in Slots : /\ Dist(j, f) \in Nat /\ Dist(j, f) <= ThreadCount + 1
                               /\ TaskAt(tasks[j], lo + Dist(j, f), lo, nd, od)
    BY TaskFacts
  <1>2. PICK p \in PacketType : p = tasks[f].outdata
    BY DEF Types, TaskType
  <1>3. /\ pc \in {"encode", "fetch", "await"} /\ pc' = "idle" /\ buffer_pkt = None
        /\ tasks[f].finished
        /\ tasks' = [tasks EXCEPT ![f].finished = FALSE, ![f].outdata = None]
        /\ finished_task_index' = Next_(f)
        /\ IF caller = "send" THEN buffer_pkt' = p /\ received' = received
           ELSE /\ received' = IF p = None THEN received ELSE Append(received, p)
                /\ buffer_pkt' = None
        /\ UNCHANGED <<buffer_frame, task_index, next_task_index, wpc, mine, sent>>
    BY <1>1, <1>2 DEF Take, Looks, Fetching, EncodeReturns, outtask, CallState, threads
  <1>4. Dist(f, f) = 0 /\ TaskAt(tasks[f], lo, lo, nd, od)
    <2>1. Dist(f, f) = 0
      BY IndexFacts
    <2>2. TaskAt(tasks[f], lo + 0, lo, nd, od)
      BY <1>1, <2>1
    <2> QED
      BY <1>1, <2>1, <2>2
  <1>5. /\ nd >= 1 /\ od >= 1 /\ tasks[f].indata = None
        /\ p # None => p = [pts |-> lo + 1, shows |-> lo + 1]
        /\ p = None => lo + 1 \in Unencodable
    <2>1. /\ lo < lo + nd /\ tasks[f].indata = None
          /\ p # None => p = [pts |-> lo + 1, shows |-> lo + 1]
          /\ p = None => lo + 1 \in Unencodable
      BY <1>2, <1>3, <1>4 DEF TaskAt
    <2> QED
      BY <1>1, <2>1
  <1>6. \A i \in Slots : Dist(i, Next_(f)) = IF i = f THEN ThreadCount + 1 ELSE Dist(i, f) - 1
    BY DistNext
  <1>7. /\ Taken' = nd - 1 /\ Queued' = od - 1 /\ Before' = lo + 1
        /\ finished_task_index' = Next_(f)
    <2>1. /\ next_task_index \in Slots /\ Dist(next_task_index, f) = nd
          /\ task_index \in Slots /\ Dist(task_index, f) = od
      BY <1>1 DEF Types, Taken, Queued
    <2>2. next_task_index # f /\ task_index # f
      BY <1>4, <1>5, <2>1
    <2>3. Taken' = nd - 1 /\ Queued' = od - 1
      BY <1>3, <1>6, <2>1, <2>2 DEF Taken, Queued
    <2>4. PICK k \in {0, 1} : k = One(buffer_frame # None)
      BY DEF One
    <2>5. k = One(buffer_frame # None)'
      BY <1>3, <2>4
    <2>6. sent \in Nat /\ lo = sent - k - od
      BY <1>1, <2>4 DEF Before, Types
    <2>7. Before' = sent - k - (od - 1)
      BY <1>3, <2>3, <2>5 DEF Before
    <2>8. sent - k - (od - 1) = lo + 1
      BY <2>6
    <2> QED
      BY <1>3, <2>3, <2>7, <2>8
  <1>8. Indices'
    <2>1. One(pc \in {"fetch", "await"})' = 0
      BY <1>3 DEF One
    <2>2. /\ nd - 1 \in Nat /\ od - 1 \in Nat /\ nd - 1 <= od - 1 /\ od - 1 <= ThreadCount + 0
          /\ lo + 1 \in Int /\ lo + 1 >= 0
      BY <1>1, <1>5, Sizes
    <2> QED
      BY <1>7, <2>1, <2>2, IndicesBy
  <1>9. /\ tasks'[f].indata = None /\ tasks'[f].outdata = None /\ ~tasks'[f].finished
        /\ \A j \in Slots : j # f => tasks'[j] = tasks[j]
    BY <1>3, <1>5 DEF Types, TaskType
  <1>10. Tasks'
    <2>1. ASSUME NEW i \in Slots, i # f
          PROVE  TaskAt(tasks[i], (lo + 1) + (Dist(i, f) - 1), lo + 1, nd - 1, od - 1)
      <3>1. PICK n \in Int : n = lo + Dist(i, f) /\ n = (lo + 1) + (Dist(i, f) - 1)
        BY <1>1
      <3>2. TaskAt(tasks[i], n, lo, nd, od)
        BY <1>1, <3>1
      <3>3. (lo + 1) + (nd - 1) = lo + nd /\ (lo + 1) + (od - 1) = lo + od
        BY <1>1
      <3>4. TaskAt(tasks[i], n, lo + 1, nd - 1, od - 1)
        BY <3>2, <3>3 DEF TaskAt
      <3> QED
        BY <3>1, <3>4
    <2>2. TaskAt(tasks'[f], (lo + 1) + (ThreadCount + 1), lo + 1, nd - 1, od - 1)
      <3>1. ~((lo + 1) + (ThreadCount + 1) < (lo + 1) + (od - 1))
        BY <1>1, Sizes
      <3> QED
        BY <1>9, <3>1 DEF TaskAt
    <2> QED
      BY <1>6, <1>7, <1>9, <2>1, <2>2 DEF Tasks
  <1>11. WorkerState'
    <2>1. \A w \in Workers : Working(w) =>
            /\ mine[w] # f /\ mine[w] \in Slots
            /\ tasks'[mine[w]] = tasks[mine[w]]
            /\ Dist(mine[w], Next_(f)) = Dist(mine[w], f) - 1
            /\ Dist(mine[w], f) - 1 < nd - 1
            /\ lo + Dist(mine[w], f) + 1 = (lo + 1) + (Dist(mine[w], f) - 1) + 1
      <3>1. ASSUME NEW w \in Workers, Working(w)
            PROVE  /\ mine[w] # f /\ mine[w] \in Slots
                   /\ Dist(mine[w], f) \in Nat /\ Dist(mine[w], f) < nd
        BY <1>1, <1>3, <3>1 DEF WorkerState, Types
      <3>2. ASSUME NEW w \in Workers, Working(w)
            PROVE  /\ Dist(mine[w], f) - 1 < nd - 1
                   /\ lo + Dist(mine[w], f) + 1 = (lo + 1) + (Dist(mine[w], f) - 1) + 1
        BY <1>1, <3>1, <3>2
      <3> QED
        BY <1>6, <1>9, <3>1, <3>2
    <2>2. \A w \in Workers : /\ Working(w)' <=> Working(w)
                             /\ wpc[w] \in {"encode", "unref"} => Working(w)
      BY <1>3 DEF Working
    <2>3. ASSUME NEW w \in Workers
          PROVE  /\ Working(w)' => /\ Dist(mine[w], Next_(f)) < nd - 1
                                   /\ ~tasks'[mine[w]].finished
                                   /\ \A u \in Workers : Working(u)' /\ mine[u] = mine[w] => u = w
                 /\ wpc[w] = "encode" =>
                      tasks'[mine[w]].indata # None /\ tasks'[mine[w]].outdata = None
                 /\ wpc[w] = "unref" /\ tasks'[mine[w]].outdata = None =>
                      (lo + 1) + Dist(mine[w], Next_(f)) + 1 \in Unencodable
      <3>1. CASE Working(w)
        <4>1. /\ ~tasks'[mine[w]].finished /\ Dist(mine[w], Next_(f)) < nd - 1
              /\ wpc[w] = "encode" =>
                   tasks'[mine[w]].indata # None /\ tasks'[mine[w]].outdata = None
          BY <2>1, <3>1 DEF WorkerState
        <4>2. \A u \in Workers : Working(u)' /\ mine[u] = mine[w] => u = w
          BY <2>2, <3>1 DEF WorkerState
        <4>3. wpc[w] = "unref" /\ tasks'[mine[w]].outdata = None =>
                lo + Dist(mine[w], f) + 1 \in Unencodable
          BY <1>1, <2>1, <3>1 DEF WorkerState
        <4>4. lo + Dist(mine[w], f) + 1 = (lo + 1) + Dist(mine[w], Next_(f)) + 1
          BY <2>1, <3>1
        <4> QED
          BY <4>1, <4>2, <4>3, <4>4
      <3>2. CASE ~Working(w)
        BY <2>2, <3>2
      <3> QED
        BY <3>1, <3>2
    <2> QED
      BY <1>3, <1>7, <2>3 DEF WorkerState
  <1>12. /\ \A i \in 1 .. Len(received) : received[i].pts <= lo
         /\ \A n \in 1 .. lo : n \in Unencodable \/ HasPts(n)
    BY <1>1, <1>3 DEF AllOut
  <1>13. \A i \in 1 .. Len(received) : /\ received[i].pts \in Nat
                                       /\ received[i].pts <= lo + 1 /\ received[i].pts < lo + 1
    <2>1. \A i \in 1 .. Len(received) : received[i] \in PacketType \ {None}
      BY ElementOfSeq DEF Types
    <2> QED
      BY <1>1, <1>12, <2>1, FrameFacts
  <1>14. \A n \in 1 .. lo + 1 : n \in 1 .. lo \/ n = lo + 1
    BY <1>1
  <1>15. Rising' /\ AllOut'
    <2>1. CASE p = None
      <3>1. buffer_pkt' = None /\ received' = received
        BY <1>3, <2>1
      <3>2. \A n : HasPts(n)' <=> HasPts(n)
        BY <3>1 DEF HasPts
      <3>3. \A n \in 1 .. lo + 1 : n \in Unencodable \/ HasPts(n)'
        BY <1>5, <1>12, <1>14, <2>1, <3>2
      <3> QED
        BY <1>7, <1>13, <3>1, <3>3 DEF Rising, AllOut
    <2>2. CASE p # None /\ caller = "send"
      <3>1. buffer_pkt' = p /\ received' = received /\ p.pts = lo + 1 /\ p.shows = lo + 1
        BY <1>3, <1>5, <2>2
      <3>2. \A n : HasPts(n)' <=> HasPts(n)
        BY <3>1 DEF HasPts
      <3>3. \A n \in 1 .. lo + 1 : n \in Unencodable \/ HasPts(n)' \/ p.pts = n
        BY <1>12, <1>14, <3>1, <3>2
      <3>4. p.pts <= lo + 1
        BY <1>1, <3>1
      <3>5. AllOut'
        BY <1>7, <1>13, <2>2, <3>1, <3>3, <3>4 DEF AllOut
      <3> QED
        BY <1>13, <3>1, <3>5 DEF Rising
    <2>3. CASE p # None /\ caller # "send"
      <3>1. /\ buffer_pkt' = None /\ received' = Append(received, p)
            /\ p.pts = lo + 1 /\ p.shows = p.pts /\ lo + 1 \in Int /\ p.pts <= lo + 1
        BY <1>1, <1>3, <1>5, <2>3
      <3>2. /\ Rising'
            /\ \A n : HasPts(n)' <=> (HasPts(n) \/ n = p.pts)
            /\ \A b \in Int : /\ p.pts <= b
                              /\ \A i \in 1 .. Len(received) : received[i].pts <= b
                              => \A i \in 1 .. Len(received') : received'[i].pts <= b
        BY <1>13, <2>3, <3>1, AppendOut
      <3>3. \A i \in 1 .. Len(received') : received'[i].pts <= lo + 1
        BY <1>13, <3>1, <3>2
      <3>4. \A n \in 1 .. lo + 1 : n \in Unencodable \/ HasPts(n)'
        BY <1>12, <1>14, <3>1, <3>2
      <3> QED
        BY <1>7, <3>1, <3>2, <3>3, <3>4 DEF AllOut
    <2> QED
      BY <2>1, <2>2, <2>3
  <1> QED
    BY <1>8, <1>10, <1>11, <1>15 DEF LiveInv

\* Steps that move no index, no task and no packet.
LEMMA QuietLive ==
  ASSUME EncoderInv,
         UNCHANGED <<tasks, task_index, next_task_index, finished_task_index, mine, received,
                     buffer_pkt>>,
         sent' - One(buffer_frame # None)' = sent - One(buffer_frame # None),
         \A w \in Workers : wpc'[w] = wpc[w] \/ (~Working(w) /\ ~Working(w)'),
         Live' => Live,
         (Live /\ Queued <= ThreadCount) \/ pc' \in {"fetch", "await"} \/ ~Live'
  PROVE  Rising' /\ (Live' => LiveInv')
  <1>0. Types /\ Rising
    BY DEF EncoderInv
  <1>1. Rising'
    BY <1>0, SameOut
  <1>2. ASSUME Live' PROVE LiveInv'
    <2>1. Indices /\ Tasks /\ WorkerState /\ AllOut
      BY <1>2 DEF EncoderInv
    <2>2. Taken' = Taken /\ Queued' = Queued /\ Before' = Before /\ Indices'
      BY <1>0, <1>2, <2>1, SameIndices
    <2>3. Tasks' /\ WorkerState'
      BY <2>1, <2>2, SameTasks
    <2>4. AllOut'
      BY <1>0, <2>1, <2>2, SameOut
    <2> QED
      BY <2>2, <2>3, <2>4 DEF LiveInv
  <1> QED
    BY <1>1, <1>2

LEMMA LiveStep ==
  ASSUME PoolInv, EncoderInv, [Next]_vars
  PROVE  Rising' /\ (Live' => LiveInv')
  <1>0. /\ Types /\ Rising /\ CallState
        /\ Live => LiveInv
        /\ \A w \in Workers : wpc[w] \notin {"none", "dead"} => Live
    BY DEF EncoderInv, LiveInv, CallState, Live
  <1>a. Live /\ pc \notin {"fetch", "await"} => Queued <= ThreadCount
    BY <1>0, Numbers, Sizes DEF LiveInv, Indices, One
  <1>b. \A w \in Workers : Working(w) <=> wpc[w] \in {"encode", "unref"}
    BY DEF Working
  <1>c. \A w \in Workers : Working(w)' <=> wpc'[w] \in {"encode", "unref"}
    BY DEF Working
  <1> USE <1>0
  <1>1. CASE \/ GetBuffer \/ Draw \/ DropFrame \/ Uninit \/ SpuriousWakeup \/ Closed
             \/ UNCHANGED vars
             \/ \E t \in Threads : Release(t) /\ UNCHANGED <<api, ring, threads, user>>
             \/ \E w \in Workers : WorkerWaits(w)
    <2>1. UNCHANGED <<pc, tasks, task_index, next_task_index, finished_task_index, mine, received,
                      buffer_pkt, sent, buffer_frame, wpc>>
      BY <1>1 DEF GetBuffer, Draw, DropFrame, Uninit, SpuriousWakeup, Closed, WorkerWaits, vars,
                  api, ring, indices, threads, user
    <2>2. Live' <=> Live
      BY <2>1 DEF Live
    <2>3. sent' - One(buffer_frame # None)' = sent - One(buffer_frame # None)
      BY <2>1
    <2> QED
      BY <1>a, <2>1, <2>2, <2>3, QuietLive
  <1>2. ASSUME NEW w \in Workers, WorkerExits(w) PROVE Rising' /\ (Live' => LiveInv')
    <2>1. /\ UNCHANGED <<pc, tasks, task_index, next_task_index, finished_task_index, mine,
                         received, buffer_pkt, sent, buffer_frame>>
          /\ wpc[w] = "loop" /\ wpc' = [wpc EXCEPT ![w] = "dead"]
      BY <1>2 DEF WorkerExits, api, ring, indices, user
    <2>2. \A u \in Workers : wpc'[u] = wpc[u] \/ (~Working(u) /\ ~Working(u)')
      BY <2>1 DEF Types, Working
    <2>3. Live' <=> Live
      BY <2>1 DEF Live
    <2>4. sent' - One(buffer_frame # None)' = sent - One(buffer_frame # None)
      BY <2>1
    <2> QED
      BY <1>a, <2>1, <2>2, <2>3, <2>4, QuietLive
  <1>3. CASE Spawn
    <2>1. /\ UNCHANGED <<tasks, task_index, next_task_index, finished_task_index, mine,
                         received, buffer_pkt, sent, buffer_frame>>
          /\ pc = "init" /\ pc' \in {"init", "idle"} /\ spawned \in Nat /\ spawned < ThreadCount
          /\ wpc' = [wpc EXCEPT ![spawned + 1] = "loop"]
      BY <1>3 DEF Spawn, CallState, Types, ring, indices, user
    <2>2. wpc[spawned + 1] = "none" /\ spawned + 1 \in Workers
      BY <2>1, Sizes DEF CallState
    <2>3. \A u \in Workers : wpc'[u] = wpc[u] \/ (~Working(u) /\ ~Working(u)')
      BY <2>1, <2>2 DEF Types, Working
    <2>4. Live' /\ Live /\ pc \notin {"fetch", "await"}
      BY <2>1 DEF Live
    <2>5. sent' - One(buffer_frame # None)' = sent - One(buffer_frame # None)
      BY <2>1
    <2> QED
      BY <1>a, <2>1, <2>3, <2>4, <2>5, QuietLive
  <1>4. CASE SendFrame
    <2>1. /\ UNCHANGED <<tasks, task_index, next_task_index, finished_task_index, mine,
                         received, buffer_pkt, wpc>>
          /\ pc = "idle" /\ pc' \in {"encode", "idle"}
          /\ buffer_frame = None /\ frame # None /\ buffer_frame' = frame /\ sent' = sent + 1
      BY <1>4 DEF SendFrame, EncodeAhead, ring, indices, threads
    <2>2. One(buffer_frame # None) = 0 /\ One(buffer_frame # None)' = 1
      BY <2>1 DEF One
    <2>3. (sent + 1) - 1 = sent - 0
      BY DEF Types
    <2>4. sent' - One(buffer_frame # None)' = sent - One(buffer_frame # None)
      <3>1. sent' - One(buffer_frame # None)' = (sent + 1) - 1
        BY <2>1, <2>2, Zenon
      <3>2. (sent + 1) - 1 = sent - One(buffer_frame # None)
        BY <2>2, <2>3, Zenon
      <3> QED
        BY <3>1, <3>2, Zenon
    <2>5. Live' /\ Live /\ pc \notin {"fetch", "await"}
      BY <2>1 DEF Live
    <2> QED
      BY <1>a, <2>1, <2>4, <2>5, QuietLive
  <1>5. CASE SendEOF \/ Close \/ SpawnFails \/ FreeExit
    <2>1. /\ UNCHANGED <<tasks, task_index, next_task_index, finished_task_index, mine,
                         received, buffer_pkt, wpc, sent, buffer_frame>>
          /\ pc \in {"idle", "init", "free"} /\ pc' \in {"encode", "idle", "free", "join"}
      BY <1>5 DEF SendEOF, Close, SpawnFails, FreeExit, EncodeAhead, ring, indices, threads, user
    <2>2. Live' /\ Live /\ pc \notin {"fetch", "await"}
      BY <2>1 DEF Live
    <2>3. sent' - One(buffer_frame # None)' = sent - One(buffer_frame # None)
      BY <2>1
    <2> QED
      BY <1>a, <2>1, <2>2, <2>3, QuietLive
  <1>6. CASE EncodeNothing
    <2>1. /\ UNCHANGED <<tasks, task_index, next_task_index, finished_task_index, mine,
                         received, buffer_pkt, wpc, sent, buffer_frame>>
          /\ pc = "encode" /\ pc' = "idle"
      BY <1>6 DEF EncodeNothing, EncodeReturns, CallState, ring, indices, threads
    <2>2. Live' /\ Live /\ pc \notin {"fetch", "await"}
      BY <2>1 DEF Live
    <2>3. sent' - One(buffer_frame # None)' = sent - One(buffer_frame # None)
      BY <2>1
    <2> QED
      BY <1>a, <2>1, <2>2, <2>3, QuietLive
  <1>7. CASE FetchNothing
    <2>1. /\ UNCHANGED <<tasks, task_index, next_task_index, finished_task_index, mine,
                         received, buffer_pkt, wpc, sent, buffer_frame>>
          /\ pc \in {"encode", "fetch"} /\ pc' = "encode"
          /\ task_index = finished_task_index \/ Outstanding <= ThreadCount
      BY <1>7 DEF FetchNothing, Fetching, NothingYet, ring, indices, threads, user
    <2>2. Live' /\ Live
      BY <2>1 DEF Live
    <2>3. Queued <= ThreadCount
      <3>1. task_index \in Slots /\ finished_task_index \in Slots
        BY DEF Types
      <3>2. Queued = Outstanding /\ (task_index = finished_task_index => Queued = 0)
        BY <3>1, IndexFacts DEF Queued, Outstanding
      <3> QED
        BY <2>1, <3>2, Sizes
    <2>4. sent' - One(buffer_frame # None)' = sent - One(buffer_frame # None)
      BY <2>1
    <2> QED
      BY <2>1, <2>2, <2>3, <2>4, QuietLive
  <1>8. CASE FetchWait
    <2>1. /\ UNCHANGED <<tasks, task_index, next_task_index, finished_task_index, mine,
                         received, buffer_pkt, wpc, sent, buffer_frame>>
          /\ pc \in {"encode", "fetch", "await"} /\ pc' = "await"
      BY <1>8 DEF FetchWait, Looks, Fetching, ring, indices, user
    <2>2. Live' /\ Live
      BY <2>1 DEF Live
    <2>3. sent' - One(buffer_frame # None)' = sent - One(buffer_frame # None)
      BY <2>1
    <2> QED
      BY <2>1, <2>2, <2>3, QuietLive
  <1>9. CASE Join \/ FreeTask \/ FreeFrame \/ Freed
    <2>1. UNCHANGED <<received, buffer_pkt>> /\ pc' \in {"drop", "closed"}
      BY <1>9 DEF Join, FreeTask, FreeFrame, Freed, api, user
    <2> QED
      BY <2>1, SameOut DEF Live
  <1>10. CASE ReceivePacket
    <2>1. Live
      BY <1>10 DEF ReceivePacket, Live
    <2> QED
      BY <1>10, <2>1, ReceiveLive
  <1>11. CASE QueueTask
    <2>1. Live
      BY <1>11 DEF QueueTask, Live
    <2> QED
      BY <1>11, <2>1, QueueTaskLive
  <1>12. CASE Take
    <2>1. Live
      BY <1>12 DEF Take, Looks, Fetching, Live
    <2> QED
      BY <1>12, <2>1, TakeLive
  <1>13. ASSUME NEW w \in Workers,
                WorkerTakes(w) \/ WorkerEncodes(w) \/ WorkerUnrefs(w) \/ WorkerFinishes(w)
         PROVE  Rising' /\ (Live' => LiveInv')
    <2>1. wpc[w] \notin {"none", "dead"}
      BY <1>13 DEF WorkerTakes, WorkerEncodes, WorkerUnrefs, WorkerFinishes
    <2> QED
      BY <1>13, <2>1, WorkerTakesLive, WorkerEncodesLive, WorkerEndsLive
  <1>14. CASE Client
    BY <1>1, <1>4, <1>5, <1>10, <1>14 DEF Client
  <1>15. CASE InCall
    BY <1>1, <1>3, <1>5, <1>6, <1>7, <1>8, <1>9, <1>11, <1>12, <1>15, Sizes DEF InCall
  <1>16. ASSUME NEW w \in Workers, Worker(w) PROVE Rising' /\ (Live' => LiveInv')
    BY <1>1, <1>2, <1>13, <1>16, WorkersAreThreads DEF Worker
  <1> QED
    BY <1>1, <1>5, <1>14, <1>15, <1>16 DEF Next

-----------------------------------------------------------------------------
(* The invariant and what it implies.                                      *)

LEMMA InitPool ==
  ASSUME Init
  PROVE  PoolInv
  <1>1. /\ refcount = [b \in Buffers |-> 0] /\ data = [b \in Buffers |-> 0]
        /\ pool = <<>> /\ entries = {} /\ freed = {}
        /\ pool_refcount = 1 /\ uninited = FALSE /\ pool_freed = FALSE
        /\ busy = [t \in Threads |-> Free]
    BY DEF Init, PoolInit
  <1>2. PoolTypes
    BY <1>1, StepFacts, EmptySeq DEF PoolTypes
  <1>3. \A t \in Threads : busy[t].step = "none"
    BY <1>1, StepFacts
  <1>4. \A b \in Buffers : ~Returns(b) /\ ~IsListed(b) /\ ~(refcount[b] > 0)
    BY <1>1, <1>3 DEF Returns, IsListed
  <1>5. Places
    BY <1>1, <1>3, <1>4 DEF Places
  <1>6. Out = {} /\ Counting = {}
    BY <1>3, <1>4 DEF Out, Counting
  <1>7. PoolCounts
    <2>1. Cardinality(Out) = 0 /\ Cardinality(Counting) = 0
      BY <1>6, FS_EmptySet
    <2>2. One(~uninited) = 1
      BY <1>1 DEF One
    <2> QED
      BY <1>1, <2>1, <2>2 DEF PoolCounts
  <1> QED
    BY <1>2, <1>5, <1>7 DEF PoolInv

LEMMA InitIInv == Init => IInv
  <1> SUFFICES ASSUME Init PROVE IInv
    OBVIOUS
  <1>1. PoolInv
    BY InitPool
  <1>2. /\ pc = "init" /\ caller = None /\ draining = FALSE /\ draining_done = FALSE
        /\ buffer_frame = None /\ buffer_pkt = None /\ tasks = [i \in Slots |-> NoTask]
        /\ task_index = 0 /\ next_task_index = 0 /\ finished_task_index = 0 /\ exit = FALSE
        /\ wpc = [w \in Workers |-> "none"] /\ mine = [w \in Workers |-> 0]
        /\ asleep = {} /\ spawned = 0 /\ frame = None
        /\ sent = 0 /\ received = <<>> /\ cut = FALSE
    BY DEF Init
  <1>3. Flags
    BY <1>2 DEF Flags
  <1>4. NoTask \in TaskType
    BY FrameFacts DEF NoTask, TaskType
  <1>5. Types
    BY <1>2, <1>4, Sizes, FrameFacts, EmptySeq DEF Types
  <1>6. CallState
    BY <1>2, Sizes DEF CallState
  <1>7. \A i \in Slots : tasks[i].indata = None /\ tasks[i].outdata = None /\ ~tasks[i].finished
    BY <1>2 DEF NoTask
  <1>8. busy[Main].step = "none"
    BY Sizes, StepFacts DEF Init, PoolInit
  <1>9. References
    <2>1. \A b \in Buffers : Refs(b) = 0 /\ refcount[b] = 0
      BY <1>2, <1>7, <1>8 DEF Refs, One, Holds, InTasks, Getting, Init, PoolInit
    <2> QED
      BY <1>2, <1>7, <1>8, <2>1 DEF References
  <1>10. Shown
    BY <1>2, <1>7 DEF Shown
  <1>11. Rising
    BY <1>2 DEF Rising
  <1>12. Taken = 0 /\ Queued = 0 /\ Before = 0
    <2>1. 0 \in Slots
      BY Sizes
    <2>2. Taken = 0 /\ Queued = 0
      BY <1>2, <2>1, IndexFacts DEF Taken, Queued
    <2>3. One(buffer_frame # None) = 0
      BY <1>2 DEF One
    <2> QED
      BY <1>2, <2>2, <2>3 DEF Before
  <1>13. Indices
    BY <1>2, <1>12, Sizes DEF Indices, One
  <1>14. Tasks
    <2>1. ASSUME NEW i \in Slots
          PROVE  TaskAt(tasks[i], Before + Dist(i, finished_task_index), Before, Taken, Queued)
      <3>1. PICK d \in Nat : d = Dist(i, finished_task_index)
        BY <1>5, Numbers
      <3>2. ~(0 + d < 0 + 0)
        BY <3>1
      <3> QED
        BY <1>7, <1>12, <3>1, <3>2 DEF TaskAt
    <2> QED
      BY <2>1 DEF Tasks
  <1>15. WorkerState
    BY <1>2 DEF WorkerState, Working
  <1>16. AllOut
    BY <1>2, <1>12 DEF AllOut
  <1> QED
    BY <1>1, <1>3, <1>5, <1>6, <1>9, <1>10, <1>11, <1>13, <1>14, <1>15, <1>16
       DEF IInv, EncoderInv

LEMMA NextIInv == IInv /\ [Next]_vars => IInv'
  <1> SUFFICES ASSUME IInv, [Next]_vars PROVE IInv'
    OBVIOUS
  <1>1. PoolInv /\ EncoderInv /\ Flags
    BY DEF IInv, EncoderInv
  <1>2. PoolInv' /\ References' /\ Shown'
    BY <1>1, HoldersStep
  <1>3. Flags' /\ Types' /\ CallState'
    BY <1>1, FlagsStep, TypesStep, CallStateStep
  <1>4. Rising' /\ (Live' => LiveInv')
    BY <1>1, LiveStep
  <1> QED
    BY <1>2, <1>3, <1>4 DEF IInv, EncoderInv, LiveInv

\* Every reachable state satisfies IInv: the pool's count is the number of buffers and
\* threads it waits for, a buffer's count is the number of its holders, and slot i of the
\* ring has the task that its distance from finished_task_index says.
THEOREM Invariance == Spec => []IInv
  <1>1. Init => IInv
    BY InitIInv
  <1>2. IInv /\ [Next]_vars => IInv'
    BY NextIInv
  <1> QED
    BY <1>1, <1>2, PTL DEF Spec

LEMMA IInvTypeOK == IInv => TypeOK
  <1> SUFFICES ASSUME IInv PROVE TypeOK
    OBVIOUS
  <1>1. Flags /\ Types /\ CallState
    BY DEF IInv, EncoderInv
  <1>2. {draining, draining_done, exit, cut} \subseteq BOOLEAN
    BY <1>1 DEF Flags
  <1>3. \A w \in Workers : Working(w) => Live
    BY <1>1 DEF CallState, Live, Working
  <1>4. \A w, u \in Workers :
          /\ wpc[w] = "encode" => tasks[mine[w]].indata # None
          /\ wpc[w] \in {"encode", "unref"} /\ wpc[u] \in {"encode", "unref"} /\ w # u
               => mine[w] # mine[u]
    <2>1. ASSUME NEW w \in Workers, Working(w) PROVE WorkerState
      BY <1>3, <2>1 DEF IInv, EncoderInv
    <2> QED
      BY <2>1 DEF WorkerState, Working
  <1>5. pc = "encode" => tasks[task_index] = NoTask
    BY <1>1, SlotFree DEF IInv, EncoderInv, Live
  <1>6. \A i \in Slots : tasks[i].indata \in FrameType /\ tasks[i].outdata \in PacketType
    BY <1>1 DEF Types, TaskType
  <1>7. sent \in 0 .. MaxFrames
    BY <1>1, Sizes DEF Types
  <1> QED
    BY <1>1, <1>2, <1>4, <1>5, <1>6, <1>7 DEF TypeOK, Types

\* The state keeps its types, no two threads of frame_thread_encoder.c own the same task,
\* and the slot at which ff_thread_video_encode_frame puts a frame is free.
THEOREM TypeCorrect == Spec => []TypeOK
  BY Invariance, IInvTypeOK, PTL

LEMMA IInvPoolSafe == IInv => PoolSafe
  <1> SUFFICES ASSUME IInv PROVE PoolSafe
    OBVIOUS
  <1>1. PoolInv /\ PoolTypes /\ Places /\ PoolCounts
    BY DEF IInv, PoolInv
  <1>2. PoolTypeOK
    BY <1>1 DEF PoolTypes, PoolTypeOK
  <1>3. DOMAIN pool = 1 .. Len(pool) /\ pool \in [1 .. Len(pool) -> entries]
    BY <1>1, LenProperties DEF PoolTypes
  <1>4. Listed = {b \in Buffers : IsListed(b)}
    BY <1>1, <1>3 DEF Listed, IsListed, PoolTypes
  <1>5. Returning = {b \in Buffers : Returns(b)}
    <2>1. \A t \in Threads : busy[t].step = "put" => busy[t].buf \in Buffers
      BY <1>1, BusyTypes
    <2> QED
      BY <2>1 DEF Returning, Returns
  <1>6. Referenced = {b \in Buffers : refcount[b] > 0}
    BY DEF Referenced
  <1>7. \A b \in Buffers : refcount[b] = 0 => ~(refcount[b] > 0)
    OBVIOUS
  <1>8. /\ freed \subseteq Buffers /\ entries \subseteq Buffers
    BY <1>1 DEF PoolTypes
  <1>9. /\ Listed \cap (Referenced \cup Returning \cup freed) = {}
        /\ Referenced \cap (Returning \cup freed) = {} /\ Returning \cap freed = {}
    BY <1>1, <1>4, <1>5, <1>6, <1>7 DEF Places
  <1>10. entries = Listed \cup Referenced \cup Returning \cup freed
    BY <1>1, <1>4, <1>5, <1>6, <1>8 DEF Places
  <1>11. \A i, j \in DOMAIN pool : pool[i] = pool[j] => i = j
    BY <1>1, <1>3 DEF Places
  <1>12. /\ IsFiniteSet(Out) /\ Cardinality(Out) \in Nat
         /\ IsFiniteSet(Counting) /\ Cardinality(Counting) \in Nat
    BY <1>1, CountFinite
  <1>13. ASSUME pool_freed
         PROVE  uninited /\ freed = entries /\ \A t \in Threads : busy[t] = Free
    <2>1. Cardinality(Out) + Cardinality(Counting) + One(~uninited) = 0 /\ pool = <<>>
      BY <1>1, <1>13 DEF PoolCounts
    <2>2. One(~uninited) \in {0, 1} /\ (~uninited => One(~uninited) = 1)
      BY DEF One
    <2>3. Cardinality(Out) = 0 /\ Cardinality(Counting) = 0 /\ One(~uninited) = 0
      BY <1>12, <2>1, <2>2
    <2>4. Out = {} /\ Counting = {} /\ uninited
      BY <1>12, <2>2, <2>3, FS_EmptySet
    <2>5. \A t \in Threads : busy[t].step # "get"
      BY <1>1, <2>4 DEF Places
    <2>6. \A b \in Buffers : ~Returns(b) /\ ~(refcount[b] > 0) /\ ~IsListed(b)
      <3>1. \A b \in Buffers : ~Getting(b)
        BY <2>5, Sizes DEF Getting
      <3> QED
        BY <2>1, <2>4, <3>1 DEF Out, IsListed
    <2>7. freed = entries
      BY <1>1, <1>8, <2>6 DEF Places
    <2>8. ASSUME NEW t \in Threads PROVE busy[t] = Free
      <3>1. /\ busy[t].step \in {"none", "count", "get", "put"}
            /\ busy[t].step \in {"get", "put"} => busy[t].buf \in Buffers
            /\ busy[t] = Free <=> busy[t].step = "none"
        BY <1>1, BusyTypes
      <3>2. busy[t].step # "count"
        BY <2>4 DEF Counting
      <3>3. busy[t].step # "put"
        BY <2>6, <3>1 DEF Returns
      <3> QED
        BY <2>5, <3>1, <3>2, <3>3
    <2> QED
      BY <2>4, <2>7, <2>8
  <1>14. ASSUME uninited, freed = entries, \A t \in Threads : busy[t] = Free
         PROVE  pool_freed
    <2>1. Counting = {}
      BY <1>14, StepFacts DEF Counting
    <2>2. Out = {}
      <3>1. \A b \in Buffers : ~Returns(b)
        BY <1>14, StepFacts DEF Returns
      <3>2. \A b \in Buffers : refcount[b] > 0 => b \in freed /\ refcount[b] = 0
        BY <1>1, <1>14 DEF Places
      <3> QED
        BY <1>7, <3>1, <3>2 DEF Out
    <2>3. Cardinality(Out) = 0 /\ Cardinality(Counting) = 0 /\ One(~uninited) = 0
      BY <1>14, <2>1, <2>2, FS_EmptySet DEF One
    <2> QED
      BY <1>1, <2>3 DEF PoolCounts
  <1> QED
    BY <1>2, <1>9, <1>10, <1>11, <1>13, <1>14 DEF PoolSafe

\* Whatever the order in which the client and the threads get and return buffers
\* (buffer.c: av_buffer_pool_get, pool_release_buffer, av_buffer_pool_uninit), each buffer
\* is in one place, none is used after it is freed, and the pool is freed exactly when it
\* is uninited and the last buffer has come back.
THEOREM PoolIsSafe == Spec => []PoolSafe
  BY Invariance, IInvPoolSafe, PTL

LEMMA IInvPackets == IInv => PacketsInOrder
  <1> SUFFICES ASSUME IInv PROVE PacketsInOrder
    OBVIOUS
  <1>1. Flags /\ Types /\ CallState /\ Rising
    BY DEF IInv, EncoderInv
  <1>2. ASSUME draining_done, pc = "idle", buffer_pkt = None, ~cut
        PROVE  Pts(received) \cup (Unencodable \cap 1 .. sent) = 1 .. sent
    <2>1. Live /\ AllOut /\ draining /\ buffer_frame = None /\ task_index = finished_task_index
      BY <1>1, <1>2 DEF IInv, EncoderInv, Live, CallState
    <2>2. Queued = 0 /\ One(buffer_frame # None) = 0
      BY <1>1, <2>1, IndexFacts DEF Queued, Types, One
    <2>3. Before = sent /\ sent \in Nat
      BY <1>1, <2>2 DEF Before, Types
    <2>4. /\ \A i \in 1 .. Len(received) : received[i].pts <= sent
          /\ \A n \in 1 .. sent : n \in Unencodable \/ HasPts(n)
      BY <1>2, <2>1, <2>3 DEF AllOut
    <2>5. /\ DOMAIN received = 1 .. Len(received)
          /\ \A i \in 1 .. Len(received) : received[i] \in PacketType \ {None}
      BY <1>1, LenProperties, ElementOfSeq DEF Types
    <2>6. \A i \in 1 .. Len(received) : received[i].pts \in 1 .. sent
      <3>1. \A i \in 1 .. Len(received) : received[i].pts \in Frames
        BY <2>5, FrameFacts
      <3> QED
        BY <2>3, <2>4, <3>1, Sizes DEF Frames
    <2>7. Pts(received) \subseteq 1 .. sent
      BY <2>5, <2>6 DEF Pts
    <2>8. \A n : HasPts(n) => n \in Pts(received)
      BY <2>5 DEF HasPts, Pts
    <2> QED
      BY <2>4, <2>7, <2>8
  <1> QED
    BY <1>1, <1>2 DEF PacketsInOrder, Rising

\* avcodec_receive_packet gives the packets in the order of their frames, each with the
\* picture drawn into its frame although threads finish in any order and buffers are used
\* again; a drain without an error gives one for every frame that can be encoded.
THEOREM PacketsComeInOrder == Spec => []PacketsInOrder
  BY Invariance, IInvPackets, PTL
=============================================================================
