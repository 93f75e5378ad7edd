---------------------------- MODULE SliceThread ----------------------------
(***************************************************************************)
(* libavutil/slicethread.c: a pool of threads that run nb_jobs calls of    *)
(* worker_func each time avpriv_slicethread_execute is called, under the   *)
(* slice threading of libavcodec, libavfilter and libswscale.              *)
(*                                                                         *)
(* Thread 0 is the caller, the others are the workers.  A worker holds its *)
(* own mutex except while it waits for work, so the caller can lock it in  *)
(* "wait" (asleep) and "check" (awake, not yet running) only.  Jobs are    *)
(* given out by two atomic counters: every thread takes its number, which  *)
(* is also its first job, from first_job, and later jobs from current_job. *)
(* The thread that takes the last possible value knows all others are      *)
(* through and reports.                                                    *)
(***************************************************************************)
EXTENDS Integers, FiniteSets

CONSTANTS NbThreads,  \* nb_threads of avpriv_slicethread_create
          MaxJobs,    \* bound: jobs of one call
          MaxCalls    \* bound: calls of avpriv_slicethread_execute

ASSUME NbThreadsAssumption == NbThreads \in Nat \ {0}
ASSUME BoundsAssumption == MaxJobs \in Nat \ {0} /\ MaxCalls \in Nat

Main    == 0
Workers == 1 .. NbThreads
Thread  == Workers \cup {Main}
Jobs    == 0 .. MaxJobs - 1

VARIABLES
  mpc, i,              \* the caller: next statement, loop index
  main_func,           \* was a main_func given?
  execute_main,        \* argument of the call
  nb_threads, nb_jobs, nb_active_threads, done, finished,  \* AVSliceThread
  first_job, current_job,
  wdone,               \* WorkerContext.done
  tpc,                 \* of each thread: its next statement
  job, threadnr,       \* of each thread: current_job and first_job of run_jobs
  local,               \* of each thread: its copy of nb_jobs, nb_active_threads
  ran,                 \* how often each job of this call was run
  calls                \* calls so far

ctx   == <<main_func, execute_main, nb_threads, nb_jobs, nb_active_threads,
           finished>>
count == <<first_job, current_job>>
mine  == <<job, threadnr, local>>
vars  == <<mpc, i, ctx, done, count, wdone, tpc, mine, ran, calls>>

nb_workers_all == IF main_func THEN nb_threads ELSE nb_threads - 1
nb_workers == IF main_func /\ execute_main THEN nb_active_threads
                                           ELSE nb_active_threads - 1

Init ==
  /\ mpc = "create" /\ i = 1
  /\ main_func \in BOOLEAN /\ execute_main = FALSE
  /\ nb_threads = NbThreads /\ nb_jobs = 0 /\ nb_active_threads = 0
  /\ done = FALSE /\ finished = FALSE
  /\ first_job = 0 /\ current_job = 0
  /\ wdone = [w \in Workers |-> FALSE]
  /\ tpc = [t \in Thread |-> IF t = Main THEN "out" ELSE "none"]
  /\ job = [t \in Thread |-> 0] /\ threadnr = [t \in Thread |-> 0]
  /\ local = [t \in Thread |-> <<0, 0>>]
  /\ ran = [j \in Jobs |-> 0] /\ calls = 0

-----------------------------------------------------------------------------
(* avpriv_slicethread_create: the workers are created one by one.          *)

\* The caller sleeps on the condition until the worker waits for work; it holds
\* the mutex until then, so the worker's signal is not lost.
Spawn ==
  /\ mpc = "create" /\ i <= nb_workers_all
  /\ tpc' = [tpc EXCEPT ![i] = "new"]
  /\ mpc' = "spawned"
  /\ UNCHANGED <<i, ctx, done, count, wdone, mine, ran, calls>>

\* pthread_create fails: what was created is freed again.
SpawnFails ==
  /\ mpc = "create" /\ i <= nb_workers_all
  /\ nb_threads' = IF main_func THEN i - 1 ELSE i
  /\ finished' = TRUE
  /\ mpc' = "stop" /\ i' = 1
  /\ UNCHANGED <<main_func, execute_main, nb_jobs, nb_active_threads, done,
                 count, wdone, tpc, mine, ran, calls>>

Spawned ==
  /\ mpc = "spawned" /\ wdone[i]
  /\ mpc' = "create" /\ i' = i + 1
  /\ UNCHANGED <<ctx, done, count, wdone, tpc, mine, ran, calls>>

Created ==
  /\ mpc = "create" /\ i > nb_workers_all
  /\ mpc' = "idle"
  /\ UNCHANGED <<i, ctx, done, count, wdone, tpc, mine, ran, calls>>

-----------------------------------------------------------------------------
(* avpriv_slicethread_execute                                              *)

Execute(jobs, with_main) ==
  /\ mpc = "idle" /\ calls < MaxCalls
  /\ calls' = calls + 1 /\ ran' = [j \in Jobs |-> 0]
  /\ nb_jobs' = jobs /\ execute_main' = with_main
  /\ nb_active_threads' = IF jobs < nb_threads THEN jobs ELSE nb_threads
  /\ first_job' = 0 /\ current_job' = nb_active_threads'
  /\ mpc' = "start" /\ i' = 1
  /\ UNCHANGED <<main_func, nb_threads, done, finished, wdone, tpc, mine>>

CanLock(w) == tpc[w] \in {"wait", "check"}
Woken(w)   == [tpc EXCEPT ![w] = "check"]

\* The worker is told while it may still be busy with the last call.
StartWorker_NoLock ==
  /\ mpc = "start" /\ i <= nb_workers
  /\ wdone' = [wdone EXCEPT ![i] = FALSE]
  /\ tpc' = IF CanLock(i) THEN Woken(i) ELSE tpc
  /\ i' = i + 1
  /\ UNCHANGED <<mpc, ctx, done, count, mine, ran, calls>>

StartWorker ==
  /\ mpc = "start" /\ i <= nb_workers
  /\ CanLock(i)
  /\ wdone' = [wdone EXCEPT ![i] = FALSE]
  /\ tpc' = Woken(i)
  /\ i' = i + 1
  /\ UNCHANGED <<mpc, ctx, done, count, mine, ran, calls>>

\* The caller runs main_func, or jobs like a worker.
Started ==
  /\ mpc = "start" /\ i > nb_workers
  /\ IF main_func /\ execute_main
     THEN mpc' = "done" /\ UNCHANGED tpc
     ELSE mpc' = "jobs" /\ tpc' = [tpc EXCEPT ![Main] = "take"]
  /\ UNCHANGED <<i, ctx, done, count, wdone, mine, ran, calls>>

\* pthread_cond_wait on done_cond, and back.
WaitDone ==
  /\ mpc = "done" /\ ~done
  /\ mpc' = "sleep"
  /\ UNCHANGED <<i, ctx, done, count, wdone, tpc, mine, ran, calls>>

\* A report that came is kept for the next call.
Done_NoReset ==
  /\ mpc = "done" /\ done
  /\ mpc' = "idle"
  /\ UNCHANGED <<i, ctx, done, count, wdone, tpc, mine, ran, calls>>

Done ==
  /\ mpc = "done" /\ done
  /\ done' = FALSE
  /\ mpc' = "idle"
  /\ UNCHANGED <<i, ctx, count, wdone, tpc, mine, ran, calls>>

-----------------------------------------------------------------------------
(* thread_worker and run_jobs                                              *)

\* A new worker, or one that is through, waits for the next call.
Park(w) ==
  /\ tpc[w] \in {"new", "park"}
  /\ wdone' = [wdone EXCEPT ![w] = TRUE]
  /\ tpc' = [tpc EXCEPT ![w] = "wait"]
  /\ UNCHANGED <<mpc, i, ctx, done, count, mine, ran, calls>>

WorkerChecks(w) ==
  /\ tpc[w] = "check"
  /\ tpc' = [tpc EXCEPT ![w] = IF wdone[w] THEN "wait"
                               ELSE IF finished THEN "exit" ELSE "take"]
  /\ UNCHANGED <<mpc, i, ctx, done, count, wdone, mine, ran, calls>>

ReadCall(t) ==
  /\ tpc[t] = "take"
  /\ local' = [local EXCEPT ![t] = <<nb_jobs, nb_active_threads>>]
  /\ tpc' = [tpc EXCEPT ![t] = "first"]
  /\ UNCHANGED <<mpc, i, ctx, done, count, wdone, job, threadnr, ran, calls>>

\* All threads get the first number.
TakeFirst_SameNumber(t) ==
  /\ tpc[t] = "first"
  /\ threadnr' = [threadnr EXCEPT ![t] = 0]
  /\ job' = [job EXCEPT ![t] = first_job]
  /\ first_job' = first_job + 1
  /\ tpc' = [tpc EXCEPT ![t] = "job"]
  /\ UNCHANGED <<mpc, i, ctx, done, current_job, wdone, local, ran, calls>>

TakeFirst(t) ==
  /\ tpc[t] = "first"
  /\ threadnr' = [threadnr EXCEPT ![t] = first_job]
  /\ job' = [job EXCEPT ![t] = first_job]
  /\ first_job' = first_job + 1
  /\ tpc' = [tpc EXCEPT ![t] = "job"]
  /\ UNCHANGED <<mpc, i, ctx, done, current_job, wdone, local, ran, calls>>

\* worker_func returns.
RunJob(t) ==
  /\ tpc[t] = "job"
  /\ ran' = [ran EXCEPT ![job[t]] = @ + 1]
  /\ tpc' = [tpc EXCEPT ![t] = "fetch"]
  /\ UNCHANGED <<mpc, i, ctx, done, count, wdone, mine, calls>>

\* The worker that takes the last job reports, not the last to be through.
IsLast_TooEarly(t) == current_job = local[t][1] + local[t][2] - 2
IsLast(t) == current_job = local[t][1] + local[t][2] - 1

\* run_jobs is over, and its variables are gone.  The last thread reports, or
\* knows it as the caller.
Through(t) ==
  /\ job' = [job EXCEPT ![t] = 0] /\ threadnr' = [threadnr EXCEPT ![t] = 0]
  /\ local' = [local EXCEPT ![t] = <<0, 0>>]
  /\ IF t = Main
     THEN /\ mpc' = IF IsLast(t) THEN "idle" ELSE "done"
          /\ tpc' = [tpc EXCEPT ![t] = "out"]
     ELSE /\ tpc' = [tpc EXCEPT ![t] = IF IsLast(t) THEN "report" ELSE "park"]
          /\ UNCHANGED mpc

\* Reading and incrementing the counter are two steps.
NextJob_NotAtomic(t) ==
  /\ tpc[t] = "fetch"
  /\ current_job' \in {current_job, current_job + 1}
  /\ IF current_job < local[t][1]
     THEN /\ job' = [job EXCEPT ![t] = current_job]
          /\ tpc' = [tpc EXCEPT ![t] = "job"]
          /\ UNCHANGED <<mpc, threadnr, local>>
     ELSE Through(t)
  /\ UNCHANGED <<i, ctx, done, first_job, wdone, ran, calls>>

NextJob(t) ==
  /\ tpc[t] = "fetch"
  /\ current_job' = current_job + 1
  /\ IF current_job < local[t][1]
     THEN /\ job' = [job EXCEPT ![t] = current_job]
          /\ tpc' = [tpc EXCEPT ![t] = "job"]
          /\ UNCHANGED <<mpc, threadnr, local>>
     ELSE Through(t)
  /\ UNCHANGED <<i, ctx, done, first_job, wdone, ran, calls>>

Report(w) ==
  /\ tpc[w] = "report"
  /\ done' = TRUE
  /\ mpc' = IF mpc = "sleep" THEN "done" ELSE mpc
  /\ tpc' = [tpc EXCEPT ![w] = "park"]
  /\ UNCHANGED <<i, ctx, count, wdone, mine, ran, calls>>

-----------------------------------------------------------------------------
(* avpriv_slicethread_free                                                 *)

Free ==
  /\ mpc = "idle"
  /\ finished' = TRUE
  /\ mpc' = "stop" /\ i' = 1
  /\ UNCHANGED <<main_func, execute_main, nb_threads, nb_jobs,
                 nb_active_threads, done, count, wdone, tpc, mine, ran, calls>>

StopWorker ==
  /\ mpc = "stop" /\ i <= nb_workers_all
  /\ CanLock(i)
  /\ wdone' = [wdone EXCEPT ![i] = FALSE]
  /\ tpc' = Woken(i)
  /\ i' = i + 1
  /\ UNCHANGED <<mpc, ctx, done, count, mine, ran, calls>>

\* pthread_join of every worker.
Join ==
  /\ mpc = "stop" /\ i > nb_workers_all
  /\ \A w \in 1 .. nb_workers_all : tpc[w] = "exit"
  /\ mpc' = "end"
  /\ UNCHANGED <<i, ctx, done, count, wdone, tpc, mine, ran, calls>>

Ended == mpc = "end" /\ UNCHANGED vars

-----------------------------------------------------------------------------
\* pthread_cond_wait may return without a signal.
SpuriousWorker(w) ==
  /\ tpc[w] = "wait"
  /\ tpc' = Woken(w)
  /\ UNCHANGED <<mpc, i, ctx, done, count, wdone, mine, ran, calls>>

SpuriousMain ==
  /\ mpc = "sleep"
  /\ mpc' = "done"
  /\ UNCHANGED <<i, ctx, done, count, wdone, tpc, mine, ran, calls>>

Client == \/ \E jobs \in 1 .. MaxJobs, with_main \in BOOLEAN :
               Execute(jobs, with_main)
          \/ Free

CallerStep == \/ Spawn \/ SpawnFails \/ Spawned \/ Created
              \/ StartWorker \/ Started \/ WaitDone \/ Done
              \/ StopWorker \/ Join

ThreadStep(t) == ReadCall(t) \/ TakeFirst(t) \/ RunJob(t) \/ NextJob(t)

WorkerStep(w) == Park(w) \/ WorkerChecks(w) \/ Report(w)

Next == \/ Client \/ CallerStep \/ SpuriousMain \/ Ended
        \/ \E t \in Thread : ThreadStep(t)
        \/ \E w \in Workers : WorkerStep(w) \/ SpuriousWorker(w)

Spec == Init /\ [][Next]_vars

\* Every thread that can run does.  Spurious wakeups need not happen.
FairSpec == /\ Spec
            /\ WF_vars(CallerStep)
            /\ \A t \in Thread : WF_vars(ThreadStep(t))
            /\ \A w \in Workers : WF_vars(WorkerStep(w))

-----------------------------------------------------------------------------
\* Types of the state.
TypeOK ==
  /\ mpc \in {"create", "spawned", "idle", "start", "jobs", "done", "sleep",
              "stop", "end"}
  /\ i \in 1 .. NbThreads + 1
  /\ main_func \in BOOLEAN /\ execute_main \in BOOLEAN
  /\ nb_threads \in 0 .. NbThreads /\ nb_jobs \in 0 .. MaxJobs
  /\ nb_active_threads \in 0 .. NbThreads
  /\ done \in BOOLEAN /\ finished \in BOOLEAN
  /\ first_job \in 0 .. NbThreads
  /\ current_job \in 0 .. MaxJobs + NbThreads
  /\ wdone \in [Workers -> BOOLEAN]
  /\ tpc \in [Thread -> {"out", "none", "new", "wait", "check", "take", "first",
                         "job", "fetch", "report", "park", "exit"}]
  /\ job \in [Thread -> Jobs] /\ threadnr \in [Thread -> 0 .. NbThreads - 1]
  /\ local \in [Thread -> (0 .. MaxJobs) \X (0 .. NbThreads)]
  /\ ran \in [Jobs -> 0 .. 1]
  /\ calls \in 0 .. MaxCalls

InJob(t) == tpc[t] \in {"take", "first", "job", "fetch"}

\* avpriv_slicethread_execute returns when every job has run exactly once and
\* no thread is in worker_func any more (slicethread.c:64, :190).
AllJobsDone ==
  mpc = "idle" /\ calls > 0 =>
    /\ \A j \in Jobs : ran[j] = IF j < nb_jobs THEN 1 ELSE 0
    /\ \A t \in Thread : ~InJob(t)

\* Threads in worker_func at the same time have different numbers, below
\* nb_active_threads: callers index per-thread scratch memory with them.
OwnThreadnr ==
  \A t, u \in Thread :
    tpc[t] = "job" => /\ threadnr[t] < nb_active_threads
                      /\ tpc[u] = "job" /\ t # u => threadnr[t] # threadnr[u]

\* A worker that is late from one call does not carry its nb_jobs and
\* nb_active_threads into the counters of the next (slicethread.c:55-58).
LocalsCurrent ==
  \A t \in Thread :
    tpc[t] \in {"first", "job", "fetch"} => local[t] = <<nb_jobs, nb_active_threads>>

\* Every call returns: execute, and free, which joins every worker, those of a
\* partly created pool included.
CallReturns == /\ (mpc = "start") ~> (mpc = "idle")
               /\ (mpc = "stop") ~> (mpc = "end")
=============================================================================
