----------------------------- MODULE BufferPool -----------------------------
(***************************************************************************)
(* libavutil/buffer.c: reference-counted buffers and the pool they return  *)
(* to.                                                                     *)
(*                                                                         *)
(* Reference counts are atomic, the free list has a mutex, and nothing     *)
(* covers both: a buffer that loses its last reference is put on the list  *)
(* and only then is the pool's count taken down, and a buffer taken from   *)
(* the list is counted only after the mutex is released.  Each of these is *)
(* an action; busy[t] is the one thread t takes next.                      *)
(*                                                                         *)
(* A buffer stands for its data, which the pool keeps; the AVBuffer around *)
(* it is created anew by every av_buffer_pool_get.                         *)
(***************************************************************************)
EXTENDS Integers, Sequences

CONSTANTS MaxBuffers,  \* bound: buffers the allocator can give
          Threads

ASSUME MaxBuffersAssumption == MaxBuffers \in Nat

Buffers == 1 .. MaxBuffers

VARIABLES refcount,        \* AVBuffer.refcount
          data,            \* what each buffer shows; 0 is memory poisoning
          pool,            \* AVBufferPool.pool, the free list
          entries,         \* buffers the pool has allocated
          freed,           \* those whose data was freed
          pool_refcount,   \* AVBufferPool.refcount
          uninited,        \* was av_buffer_pool_uninit called?
          pool_freed,      \* was buffer_pool_free called?
          busy

poolVars == <<refcount, data, pool, entries, freed, pool_refcount, uninited,
              pool_freed, busy>>

Listed == {pool[i] : i \in DOMAIN pool}

Free == [step |-> "none"]
Steps == [step : {"get", "put"}, buf : Buffers] \cup [step : {"none", "count"}]

PoolInit ==
  /\ refcount = [b \in Buffers |-> 0] /\ data = [b \in Buffers |-> 0]
  /\ pool = <<>> /\ entries = {} /\ freed = {}
  /\ pool_refcount = 1 /\ uninited = FALSE /\ pool_freed = FALSE
  /\ busy = [t \in Threads |-> Free]

\* Thread t gets buffer b: the head of the list, or a new one.
av_buffer_pool_get(t, b) ==
  /\ busy[t] = Free /\ ~uninited
  /\ \/ pool # <<>> /\ b = Head(pool) /\ pool' = Tail(pool) /\ UNCHANGED entries
     \/ /\ pool = <<>> /\ entries = 1 .. b - 1
        /\ entries' = entries \cup {b}
        /\ UNCHANGED pool
  /\ refcount' = [refcount EXCEPT ![b] = 1]
  /\ busy' = [busy EXCEPT ![t] = [step |-> "get", buf |-> b]]
  /\ UNCHANGED <<data, freed, pool_refcount, uninited, pool_freed>>

\* After the mutex: the buffer counts for the pool.  What it shows from now on is
\* its owner's business.
PoolCount(t) ==
  /\ busy[t].step = "get"
  /\ pool_refcount' = pool_refcount + 1
  /\ busy' = [busy EXCEPT ![t] = Free]
  /\ UNCHANGED <<refcount, pool, entries, freed, uninited, pool_freed>>

av_buffer_ref(b) ==
  /\ refcount' = [refcount EXCEPT ![b] = @ + 1]
  /\ UNCHANGED <<data, pool, entries, freed, pool_refcount, uninited, pool_freed,
                 busy>>

\* The last reference to b calls pool_release_buffer.
av_buffer_unref(t, b) ==
  /\ busy[t] = Free
  /\ refcount' = [refcount EXCEPT ![b] = @ - 1]
  /\ busy' = IF refcount[b] = 1
             THEN [busy EXCEPT ![t] = [step |-> "put", buf |-> b]] ELSE busy
  /\ UNCHANGED <<data, pool, entries, freed, pool_refcount, uninited, pool_freed>>

pool_release_buffer(t) ==
  /\ busy[t].step = "put"
  /\ data' = [data EXCEPT ![busy[t].buf] = 0]
  /\ pool' = <<busy[t].buf>> \o pool
  /\ busy' = [busy EXCEPT ![t] = [step |-> "count"]]
  /\ UNCHANGED <<refcount, entries, freed, pool_refcount, uninited, pool_freed>>

\* The list is emptied; buffers that are out come back to it all the same.
av_buffer_pool_uninit(t) ==
  /\ busy[t] = Free /\ ~uninited
  /\ uninited' = TRUE
  /\ freed' = freed \cup Listed /\ pool' = <<>>
  /\ busy' = [busy EXCEPT ![t] = [step |-> "count"]]
  /\ UNCHANGED <<refcount, data, entries, pool_refcount, pool_freed>>

\* The pool goes with its owner, whatever is still out.
buffer_pool_free_Early(t) ==
  /\ busy[t].step = "count"
  /\ pool_refcount' = pool_refcount - 1
  /\ busy' = [busy EXCEPT ![t] = Free]
  /\ IF uninited
     THEN pool_freed' = TRUE /\ freed' = freed \cup Listed /\ pool' = <<>>
     ELSE UNCHANGED <<pool, freed, pool_freed>>
  /\ UNCHANGED <<refcount, data, entries, uninited>>

\* The end of pool_release_buffer and of av_buffer_pool_uninit: who takes the
\* count to zero frees the pool.
buffer_pool_free(t) ==
  /\ busy[t].step = "count"
  /\ pool_refcount' = pool_refcount - 1
  /\ busy' = [busy EXCEPT ![t] = Free]
  /\ IF pool_refcount = 1
     THEN pool_freed' = TRUE /\ freed' = freed \cup Listed /\ pool' = <<>>
     ELSE UNCHANGED <<pool, freed, pool_freed>>
  /\ UNCHANGED <<refcount, data, entries, uninited>>

Release(t) == pool_release_buffer(t) \/ buffer_pool_free(t)

-----------------------------------------------------------------------------
PoolTypeOK ==
  /\ refcount \in [Buffers -> Nat] /\ data \in [Buffers -> Nat]
  /\ pool_refcount \in Nat
  /\ pool \in Seq(entries) /\ entries \subseteq Buffers /\ freed \subseteq entries
  /\ {uninited, pool_freed} \subseteq BOOLEAN
  /\ busy \in [Threads -> Steps]

Referenced == {b \in Buffers : refcount[b] > 0}
Returning  == {busy[t].buf : t \in {u \in Threads : busy[u].step = "put"}}

\* Every buffer of the pool is in one place: referenced, on its way back, on the
\* free list, once, or freed; and the pool is there until the last has come back.
\* Then it is gone, and with it every buffer (buffer_internal.h:76).
PoolSafe ==
  /\ PoolTypeOK
  /\ \A i, j \in DOMAIN pool : pool[i] = pool[j] => i = j
  /\ Listed \cap (Referenced \cup Returning \cup freed) = {}
  /\ Referenced \cap (Returning \cup freed) = {} /\ Returning \cap freed = {}
  /\ entries = Listed \cup Referenced \cup Returning \cup freed
  /\ pool_freed <=> /\ uninited /\ freed = entries
                    /\ \A t \in Threads : busy[t] = Free
=============================================================================
