------------------------- MODULE SliceThreadProofs -------------------------
(***************************************************************************)
(* SliceThread for every number of threads, jobs and calls: a call returns *)
(* when each of its jobs has run exactly once, and threads that run jobs   *)
(* have numbers of their own.                                              *)
(***************************************************************************)
EXTENDS SliceThread, FiniteSetTheorems, TLAPS

-----------------------------------------------------------------------------
(* The inductive invariant.                                                *)

CallerTypes ==
  /\ mpc \in {"create", "spawned", "idle", "start", "jobs", "done", "sleep",
              "stop", "end"}
  /\ i \in Nat /\ i >= 1 /\ i <= NbThreads + 1
  /\ nb_threads \in Nat /\ nb_threads <= NbThreads
  /\ nb_jobs \in Nat /\ nb_jobs <= MaxJobs
  /\ nb_active_threads \in Nat /\ nb_active_threads <= NbThreads
  /\ first_job \in Nat /\ first_job <= NbThreads
  /\ current_job \in Nat /\ current_job <= MaxJobs + NbThreads
  /\ calls \in 0 .. MaxCalls

Flags == /\ main_func \in BOOLEAN /\ execute_main \in BOOLEAN
         /\ done \in BOOLEAN /\ finished \in BOOLEAN

ThreadTypes ==
  /\ wdone \in [Workers -> BOOLEAN]
  /\ tpc \in [Thread -> {"out", "none", "new", "wait", "check", "take", "first",
                         "job", "fetch", "report", "park", "exit"}]
  /\ local \in [Thread -> (0 .. MaxJobs) \X (0 .. NbThreads)]

JobTypes ==
  /\ job \in [Thread -> Jobs] /\ threadnr \in [Thread -> 0 .. NbThreads - 1]
  /\ ran \in [Jobs -> 0 .. 1]

InCall == mpc \in {"start", "jobs", "done", "sleep"}

\* Those that take part in a call: nb_active_threads of them.
MainRuns == ~(main_func /\ execute_main)
Part     == (IF MainRuns THEN 0 ELSE 1) .. nb_workers

\* Not yet told.
Untold(t) == mpc = "start" /\ (t = Main \/ t >= i)

\* Those that still have to take their number, and those that have one.
IsPending(t) == \/ Untold(t)
                \/ tpc[t] \in {"take", "first"}
                \/ t # Main /\ tpc[t] = "check" /\ ~wdone[t]
Pending == {t \in Part : IsPending(t)}
Busy    == {t \in Part : tpc[t] \in {"job", "fetch"}}

\* How many threads have found no job.
Excess == IF current_job > nb_jobs THEN current_job - nb_jobs ELSE 0

Sizes ==
  /\ nb_active_threads >= 1 /\ nb_active_threads <= nb_jobs
  /\ current_job >= nb_active_threads

Counts ==
  /\ IsFiniteSet(Pending) /\ IsFiniteSet(Busy)
  /\ first_job = nb_active_threads - Cardinality(Pending)
  /\ Cardinality(Pending) + Cardinality(Busy) + Excess = nb_active_threads

\* Who is not told, or does not take part, is not in run_jobs; the caller is while
\* it says so.
Places ==
  /\ tpc[Main] = "out" <=> mpc # "jobs"
  /\ tpc[Main] \in {"out", "take", "first", "job", "fetch"}
  /\ mpc = "jobs" => MainRuns
  /\ \A w \in Workers :
       /\ tpc[w] \notin {"out", "exit"}
       /\ tpc[w] = "wait" => wdone[w]
       /\ w \notin Part \/ Untold(w) =>
            /\ tpc[w] \in {"none", "new", "wait", "check", "park"}
            /\ tpc[w] = "check" => wdone[w]

\* The report is the last word of a call, and comes once.
Reports ==
  /\ done \/ (\E w \in Workers : tpc[w] = "report") =>
       current_job = nb_jobs + nb_active_threads
  /\ \A w \in Workers : tpc[w] = "report" =>
       /\ ~done
       /\ \A u \in Workers : tpc[u] = "report" => u = w

Given(j)   == /\ j < nb_jobs
              /\ j < first_job \/ (nb_active_threads <= j /\ j < current_job)
Running(j) == \E t \in Thread : tpc[t] = "job" /\ job[t] = j

JobsOut ==
  /\ \A t \in Thread : tpc[t] = "job" =>
       /\ Given(job[t])
       /\ \A u \in Thread : tpc[u] = "job" /\ u # t => job[u] # job[t]
  /\ \A j \in Jobs : ran[j] = IF Given(j) /\ ~Running(j) THEN 1 ELSE 0

Numbers ==
  \A t \in Thread : tpc[t] \in {"job", "fetch"} =>
    /\ threadnr[t] < first_job
    /\ \A u \in Thread : tpc[u] \in {"job", "fetch"} /\ u # t => threadnr[u] # threadnr[t]

CallState == InCall => Sizes /\ Counts /\ Places /\ Reports /\ JobsOut /\ Numbers

\* Between two calls no worker is in run_jobs; those that are late have reported.
Quiet ==
  ~InCall =>
    /\ ~done
    /\ tpc[Main] = "out"
    /\ \A w \in Workers :
         /\ tpc[w] \in {"none", "new", "wait", "check", "park", "exit"}
         /\ tpc[w] = "wait" => wdone[w]
         /\ mpc \in {"create", "spawned", "idle"} =>
              tpc[w] # "exit" /\ (tpc[w] = "check" => wdone[w])

Pool == /\ finished <=> mpc \in {"stop", "end"}
        /\ ~finished => nb_threads = NbThreads
        /\ mpc = "spawned" => i <= nb_workers_all
        /\ mpc \in {"create", "spawned"} => calls = 0

IInv == /\ Flags /\ CallerTypes /\ ThreadTypes /\ JobTypes /\ Pool
        /\ CallState /\ Quiet /\ LocalsCurrent /\ AllJobsDone

-----------------------------------------------------------------------------
\* The assumptions on the constants, one by one.
LEMMA Bounds ==
  /\ NbThreads \in Nat /\ NbThreads >= 1 /\ MaxJobs \in Nat /\ MaxJobs >= 1
  /\ MaxCalls \in Nat
  BY NbThreadsAssumption, BoundsAssumption

USE Bounds

\* The types are those of SliceThread.
LEMMA Types == IInv => TypeOK
  <1> SUFFICES ASSUME IInv PROVE TypeOK
    OBVIOUS
  <1>1. /\ i \in 1 .. NbThreads + 1
        /\ nb_threads \in 0 .. NbThreads /\ nb_jobs \in 0 .. MaxJobs
        /\ nb_active_threads \in 0 .. NbThreads /\ first_job \in 0 .. NbThreads
        /\ current_job \in 0 .. MaxJobs + NbThreads
    BY DEF IInv, CallerTypes
  <1> QED
    BY <1>1 DEF IInv, TypeOK, Flags, CallerTypes, ThreadTypes, JobTypes

LEMMA Subsets == Main \in Thread /\ Workers \subseteq Thread /\ Main \notin Workers
  BY DEF Main, Workers, Thread

\* As many threads take part as nb_active_threads says.
LEMMA ThreadsCounted ==
  ASSUME NEW n \in Nat, n >= 1, n <= NbThreads
  PROVE  /\ 0 .. n - 1 \subseteq Thread /\ IsFiniteSet(0 .. n - 1)
         /\ Cardinality(0 .. n - 1) = n
         /\ 1 .. n \subseteq Thread /\ IsFiniteSet(1 .. n) /\ Cardinality(1 .. n) = n
  <1>1. 0 .. n - 1 \subseteq Thread /\ 1 .. n \subseteq Thread
    BY DEF Thread, Workers, Main
  <1>2. /\ IsFiniteSet(0 .. n - 1) /\ Cardinality(0 .. n - 1) = n
        /\ IsFiniteSet(1 .. n) /\ Cardinality(1 .. n) = n
    BY FS_Interval
  <1> QED
    BY <1>1, <1>2

LEMMA PartSize ==
  ASSUME CallerTypes, nb_active_threads >= 1
  PROVE  /\ Part \subseteq Thread /\ IsFiniteSet(Part)
         /\ Cardinality(Part) = nb_active_threads
  <1>1. Part = 0 .. nb_active_threads - 1 \/ Part = 1 .. nb_active_threads
    BY DEF Part, MainRuns, nb_workers, CallerTypes
  <1> QED
    BY <1>1, ThreadsCounted DEF CallerTypes

\* Threads that are in run_jobs take part in the call, and were told.
LEMMA InJobTakesPart ==
  ASSUME CallerTypes, ThreadTypes, Sizes, Places, NEW t \in Thread,
         tpc[t] \in {"take", "first", "job", "fetch"}
  PROVE  t \in Part /\ ~Untold(t) /\ (t = Main <=> t \notin Workers)
  <1>1. CASE t = Main
    <2>1. mpc = "jobs" /\ MainRuns
      BY <1>1 DEF Places
    <2>2. t \in Part
      BY <1>1, <2>1 DEF Part, Main, nb_workers, MainRuns, Sizes, CallerTypes
    <2> QED
      BY <1>1, <2>1, <2>2, Subsets DEF Untold
  <1>2. CASE t # Main
    BY <1>2, Subsets DEF Places, Thread
  <1> QED
    BY <1>1, <1>2

\* What only moves threads between states that mean the same to a call keeps what
\* is counted and what is handed out.
LEMMA Frame ==
  ASSUME Sizes, Counts, JobsOut, Numbers,
         UNCHANGED <<main_func, execute_main, nb_jobs, nb_active_threads, count>>,
         UNCHANGED <<job, threadnr, ran>>,
         \A t \in Part : IsPending(t)' = IsPending(t),
         \A t \in Thread : (tpc'[t] = "job") = (tpc[t] = "job"),
         \A t \in Thread : (tpc'[t] = "fetch") = (tpc[t] = "fetch"),
         Part \subseteq Thread
  PROVE  Sizes' /\ Counts' /\ JobsOut' /\ Numbers'
  <1>1. Part' = Part
    BY DEF Part, MainRuns, nb_workers
  <1>2. Pending' = Pending
    BY <1>1 DEF Pending
  <1>3. Busy' = Busy
    BY <1>1 DEF Busy
  <1>4. Sizes' /\ Counts'
    BY <1>2, <1>3 DEF Sizes, Counts, Excess, count
  <1>5. JobsOut'
    <2>1. \A j \in Jobs : Given(j)' = Given(j) /\ Running(j)' = Running(j)
      BY DEF Given, Running, count
    <2>2. \A t \in Thread : Given(job[t])' = Given(job[t])
      BY DEF Given, count
    <2> QED
      BY <2>1, <2>2 DEF JobsOut
  <1>6. Numbers'
    BY DEF Numbers, count
  <1> QED
    BY <1>4, <1>5, <1>6

-----------------------------------------------------------------------------
(* One lemma per group of actions.                                         *)

LEMMA InitIInv == Init => IInv
  <1> SUFFICES ASSUME Init PROVE IInv
    OBVIOUS
  <1>0. Flags
    BY DEF Init, Flags
  <1>1. CallerTypes
    BY DEF Init, CallerTypes
  <1>2. ThreadTypes /\ JobTypes
    BY DEF Init, ThreadTypes, JobTypes, Jobs
  <1>3. Pool /\ CallState /\ Quiet
    BY Subsets DEF Init, Pool, CallState, InCall, Quiet
  <1>4. LocalsCurrent /\ AllJobsDone
    BY DEF Init, LocalsCurrent, AllJobsDone
  <1> QED
    BY <1>0, <1>1, <1>2, <1>3, <1>4 DEF IInv

\* What the caller does outside of a call: create and free.
LEMMA PoolIInv ==
  ASSUME IInv, Spawn \/ SpawnFails \/ Spawned \/ Created \/ Free \/ StopWorker \/ Join
  PROVE  IInv'
  <1> USE DEF IInv
  <1>1. ~InCall /\ ~InCall'
    BY DEF InCall, Spawn, SpawnFails, Spawned, Created, Free, StopWorker, Join
  <1>2. i \in Nat /\ nb_threads \in Nat /\ nb_threads <= NbThreads
    BY DEF CallerTypes
  <1>3. i <= nb_workers_all => i \in Workers
    BY <1>2 DEF CallerTypes, Workers, nb_workers_all
  <1>0. Flags'
    BY DEF Flags, Spawn, SpawnFails, Spawned, Created, Free, StopWorker, Join, ctx
  <1>4. CallerTypes'
    <2>1. CASE SpawnFails
      BY <2>1, <1>2 DEF CallerTypes, nb_workers_all, SpawnFails, count
    <2>2. CASE Spawned \/ StopWorker
      <3>1. i <= NbThreads
        BY <2>2, <1>2 DEF Spawned, StopWorker, nb_workers_all, CallerTypes, Pool
      <3>2. i' = i + 1 /\ UNCHANGED <<ctx, count, calls>>
        BY <2>2 DEF Spawned, StopWorker
      <3> QED
        BY <3>1, <3>2, <1>2, <2>2 DEF CallerTypes, ctx, count, Spawned, StopWorker
    <2>3. CASE Spawn \/ Created \/ Free \/ Join
      BY <2>3 DEF CallerTypes, Spawn, Created, Free, Join, ctx, count
    <2> QED
      BY <2>1, <2>2, <2>3
  <1>5. ThreadTypes' /\ JobTypes'
    BY <1>3 DEF ThreadTypes, JobTypes, Spawn, SpawnFails, Spawned, Created, Free,
       StopWorker, Join, mine, Woken, Workers, Thread
  <1>6. Pool'
    BY DEF Pool, Spawn, SpawnFails, Spawned, Created, Free, StopWorker, Join, ctx,
       nb_workers_all
  <1>7. Quiet'
    BY <1>1, <1>3, Subsets DEF Quiet, ThreadTypes, Spawn, SpawnFails, Spawned, Created, Free,
       StopWorker, Join, Woken, CanLock
  <1>8. LocalsCurrent'
    BY <1>1, <1>3, <1>7 DEF Quiet, LocalsCurrent, Thread
  <1>9. AllJobsDone'
    <2>1. \A t \in Thread : ~InJob(t)'
      BY <1>1, <1>7 DEF Quiet, InJob, Thread
    <2>2. CASE Created
      BY <2>1, <2>2 DEF AllJobsDone, Pool, Created, ctx
    <2>3. CASE ~Created
      BY <2>3 DEF AllJobsDone, Spawn, SpawnFails, Spawned, Free, StopWorker, Join
    <2> QED
      BY <2>2, <2>3
  <1> QED
    BY <1>0, <1>1, <1>4, <1>5, <1>6, <1>7, <1>8, <1>9 DEF CallState

LEMMA NothingLeft == ASSUME NEW n \in Nat PROVE n - n = 0 /\ n + 0 + 0 = n
  OBVIOUS

\* A call starts: everybody that takes part is pending.
Executes == \E jobs \in 1 .. MaxJobs, with_main \in BOOLEAN : Execute(jobs, with_main)

LEMMA ExecuteIInv == ASSUME IInv, Executes PROVE IInv'
  <1> USE DEF IInv
  <1>1. /\ mpc = "idle" /\ mpc' = "start" /\ ~InCall /\ InCall' /\ i' = 1
        /\ nb_threads = NbThreads /\ ~finished
    BY DEF Executes, Execute, InCall, Pool
  <1>0. Flags'
    BY DEF Flags, Executes, Execute
  <1>2. CallerTypes'
    BY <1>1 DEF CallerTypes, Executes, Execute
  <1>3. ThreadTypes' /\ JobTypes'
    BY DEF ThreadTypes, JobTypes, Executes, Execute, mine
  <1>4. Sizes'
    BY <1>1 DEF Sizes, Executes, Execute, CallerTypes
  <1>20. /\ nb_active_threads' \in Nat /\ nb_active_threads' >= 1
         /\ nb_active_threads' <= NbThreads /\ nb_jobs' \in Nat
         /\ first_job' = 0 /\ current_job' = nb_active_threads'
         /\ nb_active_threads' <= nb_jobs'
    BY <1>2, <1>4 DEF CallerTypes, Sizes, Executes, Execute
  <1>5. /\ Part' \subseteq Thread /\ IsFiniteSet(Part')
        /\ Cardinality(Part') = nb_active_threads'
    <2>1. Part' = 0 .. nb_active_threads' - 1 \/ Part' = 1 .. nb_active_threads'
      BY <1>20 DEF Part, MainRuns, nb_workers
    <2> QED
      BY <1>20, <2>1, ThreadsCounted
  <1>6. \A t \in Thread : Untold(t)'
    BY <1>1 DEF Untold, Thread, Workers
  <1>7. tpc' = tpc /\ wdone' = wdone
    BY DEF Executes, Execute
  <1>8. \A t \in Thread : tpc[t] \notin {"take", "first", "job", "fetch", "report"}
    BY <1>1 DEF Quiet, Thread
  <1>9. Pending' = Part' /\ Busy' = {}
    BY <1>5, <1>6, <1>7, <1>8 DEF Pending, IsPending, Busy
  <1>10. Counts'
    <2>1. ~(current_job' > nb_jobs')
      BY <1>20
    <2>2. Excess' = 0
      BY <2>1 DEF Excess
    <2>3. Cardinality(Pending') = nb_active_threads' /\ Cardinality(Busy') = 0
      BY <1>5, <1>9, FS_EmptySet
    <2>4. IsFiniteSet(Pending') /\ IsFiniteSet(Busy')
      BY <1>5, <1>9, FS_EmptySet
    <2>5. first_job' = nb_active_threads' - Cardinality(Pending')
      BY <1>20, <2>3, NothingLeft
    <2>6. Cardinality(Pending') + Cardinality(Busy') + Excess' = nb_active_threads'
      BY <1>20, <2>2, <2>3, NothingLeft
    <2> QED
      BY <2>4, <2>5, <2>6 DEF Counts
  <1>11. Places'
    BY <1>1, <1>7, Subsets DEF Quiet, Places
  <1>12. Reports'
    BY <1>1, <1>7, <1>8, Subsets DEF Quiet, Reports, Executes, Execute
  <1>13. JobsOut'
    <2>2. \A j \in Jobs : ~Given(j)'
      BY <1>20 DEF Given, Jobs
    <2> QED
      BY <1>7, <1>8, <2>2 DEF JobsOut, Executes, Execute
  <1>14. Numbers'
    BY <1>7, <1>8 DEF Numbers
  <1>15. LocalsCurrent' /\ AllJobsDone' /\ Pool' /\ Quiet'
    BY <1>1, <1>7, <1>8 DEF LocalsCurrent, AllJobsDone, Pool, Quiet, Executes, Execute
  <1> QED
    BY <1>0, <1>2, <1>3, <1>4, <1>10, <1>11, <1>12, <1>13, <1>14, <1>15 DEF CallState

\* The caller wakes a worker: both before and after, it has its number to take.
LEMMA StartWorkerIInv == ASSUME IInv, StartWorker PROVE IInv'
  <1> USE DEF IInv
  <1>1. /\ mpc = "start" /\ mpc' = "start" /\ InCall /\ InCall' /\ i' = i + 1
        /\ i <= nb_workers /\ tpc[i] \in {"wait", "check"}
        /\ UNCHANGED <<ctx, done, count, mine, ran, calls>>
    BY DEF StartWorker, InCall, CanLock
  <1>2. i \in Workers /\ i \in Nat /\ i >= 1
    BY <1>1 DEF CallerTypes, nb_workers, Workers
  <1>3. /\ tpc' = [tpc EXCEPT ![i] = "check"] /\ wdone' = [wdone EXCEPT ![i] = FALSE]
    BY DEF StartWorker, Woken
  <1>4. /\ tpc'[i] = "check" /\ ~wdone'[i]
        /\ \A t \in Thread \ {i} : tpc'[t] = tpc[t]
        /\ \A w \in Workers \ {i} : wdone'[w] = wdone[w]
    BY <1>2, <1>3, Subsets DEF ThreadTypes
  <1>5. CallerTypes'
    BY <1>1, <1>2 DEF CallerTypes, nb_workers, ctx, count
  <1>6. Flags' /\ ThreadTypes' /\ JobTypes'
    BY <1>1, <1>2, <1>3 DEF Flags, ThreadTypes, JobTypes, ctx, mine, Thread
  <1>7. Sizes /\ Counts /\ Places /\ Reports /\ JobsOut /\ Numbers
    BY <1>1 DEF CallState
  <1>8. Part \subseteq Thread /\ Part' = Part
    BY <1>1, <1>7, PartSize DEF Sizes, Part, MainRuns, nb_workers, ctx
  <1>9. \A t \in Thread : Untold(t)' = (Untold(t) /\ t # i)
    <2>1. \A t \in Thread : t \in Nat
      BY DEF Thread, Workers, Main
    <2> QED
      BY <1>1, <1>2, <2>1 DEF Untold, Main
  <1>10. ASSUME NEW t \in Thread PROVE IsPending(t)' = IsPending(t)
    <2>1. CASE t = i
      BY <1>1, <1>2, <1>4, <2>1, Subsets DEF IsPending, Untold
    <2>2. CASE t # i
      <3>1. t # Main => t \in Workers
        BY DEF Thread
      <3> QED
        BY <1>4, <1>9, <2>2, <3>1 DEF IsPending
    <2> QED
      BY <2>1, <2>2
  <1>11. Sizes' /\ Counts' /\ JobsOut' /\ Numbers'
    <2>1. \A t \in Thread : /\ (tpc'[t] = "job") = (tpc[t] = "job")
                            /\ (tpc'[t] = "fetch") = (tpc[t] = "fetch")
      BY <1>1, <1>4
    <2> QED
      BY <1>1, <1>7, <1>8, <1>10, <2>1, Frame DEF ctx, mine
  <1>12. Places'
    <2>0. i \in Part
      BY <1>1, <1>2 DEF Part
    <2>1. tpc'[Main] = tpc[Main] /\ MainRuns' = MainRuns
      BY <1>1, <1>2, <1>4, Subsets DEF MainRuns, ctx
    <2>2. ASSUME NEW w \in Workers
          PROVE  /\ tpc'[w] \notin {"out", "exit"}
                 /\ tpc'[w] = "wait" => wdone'[w]
                 /\ w \notin Part' \/ Untold(w)' =>
                      /\ tpc'[w] \in {"none", "new", "wait", "check", "park"}
                      /\ tpc'[w] = "check" => wdone'[w]
      BY <1>2, <1>4, <1>7, <1>8, <1>9, <2>0, Subsets DEF Places
    <2> QED
      BY <1>1, <1>7, <2>1, <2>2 DEF Places
  <1>13. Reports'
    <2>1. \A w \in Workers : (tpc'[w] = "report") = (tpc[w] = "report")
      BY <1>1, <1>4, Subsets
    <2> QED
      BY <1>1, <1>7, <2>1 DEF Reports, ctx, count
  <1>14. LocalsCurrent' /\ AllJobsDone' /\ Pool' /\ Quiet'
    <2>1. \A t \in Thread : (tpc'[t] \in {"first", "job", "fetch"}) =
                            (tpc[t] \in {"first", "job", "fetch"})
      BY <1>1, <1>4
    <2> QED
      BY <1>1, <2>1 DEF LocalsCurrent, AllJobsDone, Pool, Quiet, ctx, mine, nb_workers_all
  <1> QED
    BY <1>5, <1>6, <1>11, <1>12, <1>13, <1>14 DEF CallState

\* The caller has woken the workers and goes to work, or to sleep.
LEMMA CallerIInv == ASSUME IInv, Started \/ WaitDone \/ SpuriousMain PROVE IInv'
  <1> USE DEF IInv
  <1>1. /\ InCall /\ InCall' /\ UNCHANGED <<i, ctx, done, count, wdone, mine, ran, calls>>
        /\ mpc' \in {"jobs", "done", "sleep"}
    BY DEF Started, WaitDone, SpuriousMain, InCall
  <1>2. /\ \A t \in Thread \ {Main} : tpc'[t] = tpc[t]
        /\ tpc'[Main] = IF mpc' = "jobs" THEN "take" ELSE tpc[Main]
        /\ mpc' = "jobs" => MainRuns /\ mpc = "start"
        /\ mpc = "start" /\ ~MainRuns => mpc' = "done"
        /\ mpc = "start" /\ MainRuns => mpc' = "jobs"
        /\ mpc = "start" => i > nb_workers
        /\ mpc # "start" => mpc \in {"done", "sleep"}
    BY Subsets DEF Started, WaitDone, SpuriousMain, ThreadTypes, MainRuns
  <1>3. CallerTypes'
    BY <1>1 DEF CallerTypes, ctx, count
  <1>4. Flags' /\ JobTypes'
    BY <1>1 DEF Flags, JobTypes, ctx, mine
  <1>5. ThreadTypes'
    BY <1>1, Subsets DEF ThreadTypes, mine, Started, WaitDone, SpuriousMain
  <1>7. Sizes /\ Counts /\ Places /\ Reports /\ JobsOut /\ Numbers
    BY <1>1 DEF CallState
  <1>8. Part \subseteq Thread /\ Part' = Part /\ MainRuns' = MainRuns
    BY <1>1, <1>7, PartSize DEF Sizes, Part, MainRuns, nb_workers, ctx
  <1>9. \A t \in Part : /\ Untold(t)' = FALSE
                        /\ Untold(t) = (t = Main /\ mpc = "start")
    <2>1. \A t \in Part : t \in Int /\ t <= nb_workers
      BY <1>7 DEF Part, nb_workers, CallerTypes
    <2>2. nb_workers \in Int /\ i \in Int
      BY DEF nb_workers, CallerTypes
    <2> QED
      BY <1>1, <1>2, <2>1, <2>2 DEF Untold
  <1>10. ASSUME NEW t \in Part PROVE IsPending(t)' = IsPending(t)
    <2>1. CASE t = Main
      <3>1. MainRuns
        BY <2>1 DEF Part, Main, nb_workers, CallerTypes
      <3>2. mpc = "start" => tpc'[Main] = "take"
        BY <1>2, <3>1
      <3>3. mpc # "start" => tpc'[Main] = tpc[Main]
        BY <1>2, <3>1
      <3> QED
        BY <1>9, <2>1, <3>2, <3>3 DEF IsPending
    <2>2. CASE t # Main
      BY <1>1, <1>2, <1>8, <1>9, <2>2 DEF IsPending
    <2> QED
      BY <2>1, <2>2
  <1>11. Sizes' /\ Counts' /\ JobsOut' /\ Numbers'
    <2>1. \A t \in Thread : /\ (tpc'[t] = "job") = (tpc[t] = "job")
                            /\ (tpc'[t] = "fetch") = (tpc[t] = "fetch")
      BY <1>2, <1>7 DEF Places
    <2> QED
      BY <1>1, <1>7, <1>8, <1>10, <2>1, Frame DEF ctx, mine
  <1>12. Places'
    <2>2. ASSUME NEW w \in Workers
          PROVE  /\ tpc'[w] \notin {"out", "exit"}
                 /\ tpc'[w] = "wait" => wdone'[w]
                 /\ w \notin Part' \/ Untold(w)' =>
                      /\ tpc'[w] \in {"none", "new", "wait", "check", "park"}
                      /\ tpc'[w] = "check" => wdone'[w]
      BY <1>1, <1>2, <1>7, <1>8, <1>9, Subsets DEF Places
    <2>3. tpc'[Main] = "out" <=> mpc' # "jobs"
      BY <1>1, <1>2, <1>7 DEF Places
    <2> QED
      BY <1>1, <1>2, <1>7, <1>8, <2>2, <2>3 DEF Places
  <1>13. Reports'
    <2>1. \A w \in Workers : (tpc'[w] = "report") = (tpc[w] = "report")
      BY <1>1, <1>2, Subsets
    <2> QED
      BY <1>1, <1>7, <2>1 DEF Reports, ctx, count
  <1>14. LocalsCurrent' /\ AllJobsDone' /\ Pool' /\ Quiet'
    <2>1. \A t \in Thread : tpc'[t] \in {"first", "job", "fetch"} =>
                            tpc[t] \in {"first", "job", "fetch"}
      BY <1>2, <1>7 DEF Places
    <2> QED
      BY <1>1, <2>1 DEF LocalsCurrent, AllJobsDone, Pool, Quiet, InCall, ctx, mine,
         nb_workers_all
  <1> QED
    BY <1>3, <1>4, <1>5, <1>11, <1>12, <1>13, <1>14 DEF CallState

\* A worker parks, looks whether it has work, wakes up or reports: none of it
\* changes who has a number to take or a job.
LEMMA WorkerIInv ==
  ASSUME IInv, NEW w \in Workers,
         Park(w) \/ WorkerChecks(w) \/ SpuriousWorker(w) \/ Report(w)
  PROVE  IInv'
  <1> USE DEF IInv
  <1>1. /\ UNCHANGED <<i, ctx, count, mine, ran, calls>>
        /\ mpc' = mpc \/ (mpc = "sleep" /\ mpc' = "done" /\ tpc[w] = "report")
        /\ InCall' <=> InCall
    BY DEF Park, WorkerChecks, SpuriousWorker, Report, InCall
  <1>2. /\ w \in Thread /\ w # Main
        /\ \A u \in Thread \ {w} : tpc'[u] = tpc[u]
        /\ \A u \in Workers \ {w} : wdone'[u] = wdone[u]
    BY Subsets DEF Park, WorkerChecks, SpuriousWorker, Report, ThreadTypes, Woken
  <1>3. \/ /\ tpc[w] \in {"new", "park"} /\ tpc'[w] = "wait" /\ wdone'[w] /\ done' = done
        \/ /\ tpc[w] = "check" /\ wdone[w] /\ tpc'[w] = "wait" /\ wdone'[w]
           /\ done' = done
        \/ /\ tpc[w] = "check" /\ ~wdone[w] /\ tpc'[w] = "take" /\ ~wdone'[w]
           /\ ~finished /\ done' = done
        \/ /\ tpc[w] = "check" /\ ~wdone[w] /\ tpc'[w] = "exit" /\ finished /\ done' = done
        \/ /\ tpc[w] = "wait" /\ tpc'[w] = "check" /\ wdone'[w] = wdone[w] /\ done' = done
        \/ /\ tpc[w] = "report" /\ tpc'[w] = "park" /\ done'
    <2>1. CASE Park(w)
      BY <1>2, <2>1 DEF Park, ThreadTypes
    <2>2. CASE WorkerChecks(w)
      BY <1>2, <2>2 DEF WorkerChecks, ThreadTypes
    <2>3. CASE SpuriousWorker(w)
      BY <1>2, <2>3 DEF SpuriousWorker, Woken, ThreadTypes
    <2>4. CASE Report(w)
      BY <1>2, <2>4 DEF Report, ThreadTypes
    <2> QED
      BY <2>1, <2>2, <2>3, <2>4
  <1>4. CallerTypes'
    BY <1>1 DEF CallerTypes, ctx, count
  <1>5. Flags' /\ JobTypes'
    BY <1>1, <1>3 DEF Flags, JobTypes, ctx, mine
  <1>6. ThreadTypes'
    BY <1>1, <1>2 DEF ThreadTypes, mine, Park, WorkerChecks, SpuriousWorker, Report, Woken
  <1>7. Pool'
    BY <1>1 DEF Pool, ctx, nb_workers_all
  <1>8. \A t \in Thread : /\ (tpc'[t] = "job") = (tpc[t] = "job")
                          /\ (tpc'[t] = "fetch") = (tpc[t] = "fetch")
                          /\ (tpc'[t] = "first") = (tpc[t] = "first")
    BY <1>2, <1>3
  <1>9. LocalsCurrent'
    BY <1>1, <1>8 DEF LocalsCurrent, ctx, mine
  <1>10. CASE InCall
    <2>1. Sizes /\ Counts /\ Places /\ Reports /\ JobsOut /\ Numbers
      BY <1>10 DEF CallState
    <2>2. ~finished /\ mpc' # "idle"
      BY <1>1, <1>10 DEF Pool, InCall
    <2>3. Part \subseteq Thread /\ Part' = Part /\ MainRuns' = MainRuns
      BY <1>1, <2>1, PartSize DEF Sizes, Part, MainRuns, nb_workers, ctx
    <2>4. \A t \in Thread : Untold(t)' = Untold(t)
      BY <1>1 DEF Untold
    <2>5. ASSUME NEW t \in Thread PROVE IsPending(t)' = IsPending(t)
      <3>1. CASE t = w
        <4>1. /\ tpc[w] \in {"take", "first"} \/ (tpc[w] = "check" /\ ~wdone[w])
                 <=> tpc'[w] \in {"take", "first"} \/ (tpc'[w] = "check" /\ ~wdone'[w])
          BY <1>3, <2>1, <2>2 DEF Places
        <4> QED
          BY <1>2, <2>4, <3>1, <4>1 DEF IsPending
      <3>2. CASE t # w
        <4>1. t # Main => t \in Workers
          BY DEF Thread
        <4> QED
          BY <1>2, <2>4, <3>2, <4>1 DEF IsPending
      <3> QED
        BY <3>1, <3>2
    <2>6. Sizes' /\ Counts' /\ JobsOut' /\ Numbers'
      BY <1>1, <1>8, <2>1, <2>3, <2>5, Frame DEF ctx, mine
    <2>7. Places'
      <3>1. ASSUME NEW u \in Workers
            PROVE  /\ tpc'[u] \notin {"out", "exit"}
                   /\ tpc'[u] = "wait" => wdone'[u]
                   /\ u \notin Part' \/ Untold(u)' =>
                        /\ tpc'[u] \in {"none", "new", "wait", "check", "park"}
                        /\ tpc'[u] = "check" => wdone'[u]
        <4>1. CASE u = w
          BY <1>3, <2>1, <2>2, <2>3, <2>4, <4>1, Subsets DEF Places
        <4>2. CASE u # w
          BY <1>2, <2>1, <2>3, <2>4, <4>2, Subsets DEF Places
        <4> QED
          BY <4>1, <4>2
      <3>2. tpc'[Main] = tpc[Main] /\ (mpc' = "jobs") = (mpc = "jobs")
        BY <1>1, <1>2, Subsets
      <3> QED
        BY <2>1, <2>3, <3>1, <3>2 DEF Places
    <2>8. Reports'
      <3>1. CASE tpc[w] = "report"
        <4>1. current_job' = nb_jobs' + nb_active_threads'
          BY <1>1, <2>1, <3>1 DEF Reports, ctx, count
        <4>2. \A u \in Workers : tpc'[u] # "report"
          BY <1>2, <1>3, <2>1, <3>1, Subsets DEF Reports
        <4> QED
          BY <4>1, <4>2 DEF Reports
      <3>2. CASE tpc[w] # "report"
        <4>1. done' = done /\ \A u \in Workers : (tpc'[u] = "report") = (tpc[u] = "report")
          BY <1>2, <1>3, <3>2, Subsets
        <4> QED
          BY <1>1, <2>1, <4>1 DEF Reports, ctx, count
      <3> QED
        BY <3>1, <3>2
    <2> QED
      BY <1>1, <1>4, <1>5, <1>6, <1>7, <1>9, <1>10, <2>2, <2>6, <2>7, <2>8
      DEF CallState, Quiet, AllJobsDone
  <1>11. CASE ~InCall
    <2>1. tpc[w] \in {"none", "new", "wait", "check", "park", "exit"} /\ mpc' = mpc
      BY <1>1, <1>11 DEF Quiet
    <2>2. Quiet'
      BY <1>1, <1>2, <1>3, <1>11, <2>1, Subsets DEF Quiet, Pool, InCall, CallerTypes
    <2>3. \A t \in Thread : ~InJob(t)'
      BY <1>1, <1>11, <2>2 DEF Quiet, InJob, Thread
    <2>4. AllJobsDone'
      BY <1>1, <2>1, <2>3 DEF AllJobsDone, ctx
    <2> QED
      BY <1>1, <1>4, <1>5, <1>6, <1>7, <1>9, <1>11, <2>2, <2>4 DEF CallState
  <1> QED
    BY <1>10, <1>11

\* The report means that all threads are through and all jobs have run.
LEMMA AllThrough ==
  ASSUME IInv, InCall, current_job = nb_jobs + nb_active_threads
  PROVE  /\ \A t \in Thread : ~InJob(t)
         /\ \A j \in Jobs : ran[j] = IF j < nb_jobs THEN 1 ELSE 0
         /\ \A t \in Part : ~IsPending(t)
  <1>1. Sizes /\ Counts /\ Places /\ JobsOut
    BY DEF CallState, IInv
  <1>2. Cardinality(Pending) \in Nat /\ Cardinality(Busy) \in Nat
    BY <1>1, FS_CardinalityType DEF Counts
  <1>3. Excess = nb_active_threads
    BY <1>1 DEF Excess, Sizes, CallerTypes, IInv
  <1>4. /\ Cardinality(Pending) = 0 /\ Cardinality(Busy) = 0
        /\ first_job = nb_active_threads
    BY <1>1, <1>2, <1>3 DEF Counts, CallerTypes, IInv
  <1>5. Pending = {} /\ Busy = {}
    BY <1>1, <1>4, FS_EmptySet DEF Counts
  <1>6. \A t \in Thread : ~InJob(t)
    BY <1>1, <1>5, InJobTakesPart DEF InJob, Pending, IsPending, Busy, IInv
  <1>7. ASSUME NEW j \in Jobs PROVE ran[j] = IF j < nb_jobs THEN 1 ELSE 0
    <2>1. ~Running(j)
      BY <1>6 DEF Running, InJob
    <2>2. Given(j) <=> j < nb_jobs
      BY <1>1, <1>4 DEF Given, Jobs, CallerTypes, IInv, Sizes
    <2> QED
      BY <1>1, <2>1, <2>2 DEF JobsOut
  <1> QED
    BY <1>5, <1>6, <1>7 DEF Pending

\* The caller has the report.
LEMMA DoneIInv == ASSUME IInv, Done PROVE IInv'
  <1> USE DEF IInv
  <1>1. /\ mpc = "done" /\ done /\ InCall /\ ~InCall' /\ mpc' = "idle" /\ ~done'
        /\ UNCHANGED <<i, ctx, count, wdone, tpc, mine, ran, calls>>
    BY DEF Done, InCall
  <1>2. Places /\ Reports /\ Sizes
    BY <1>1 DEF CallState
  <1>3. current_job = nb_jobs + nb_active_threads
    BY <1>1, <1>2 DEF Reports
  <1>4. /\ \A t \in Thread : ~InJob(t)
        /\ \A j \in Jobs : ran[j] = IF j < nb_jobs THEN 1 ELSE 0
        /\ \A t \in Part : ~IsPending(t)
    BY <1>1, <1>3, AllThrough
  <1>5. CallerTypes' /\ ThreadTypes' /\ JobTypes'
    BY <1>1 DEF CallerTypes, ThreadTypes, JobTypes, ctx, count, mine
  <1>6. Flags' /\ Pool'
    <2>1. done' = FALSE
      BY DEF Done
    <2>2. Flags'
      BY <1>1, <2>1 DEF Flags, ctx
    <2> QED
      BY <1>1, <2>2 DEF Pool, ctx, nb_workers_all
  <1>7. ASSUME NEW w \in Workers
        PROVE  /\ tpc[w] \in {"none", "new", "wait", "check", "park"}
               /\ tpc[w] = "wait" => wdone[w]
               /\ tpc[w] = "check" => wdone[w]
    <2>1. tpc[w] # "report" /\ w # Main /\ w \in Thread
      BY <1>1, <1>2, Subsets DEF Reports
    <2>2. CASE w \in Part
      <3>1. ~IsPending(w) /\ ~InJob(w)
        BY <1>4, <2>1, <2>2
      <3>2. ~finished /\ tpc[w] # "exit"
        BY <1>1, <1>2 DEF Pool, Places
      <3> QED
        BY <1>2, <2>1, <3>1, <3>2 DEF IsPending, InJob, Places, ThreadTypes
    <2>3. CASE w \notin Part
      BY <1>2, <2>3 DEF Places
    <2> QED
      BY <2>2, <2>3
  <1>8. Quiet'
    BY <1>1, <1>2, <1>7 DEF Quiet, Places
  <1>9. AllJobsDone'
    BY <1>1, <1>4 DEF AllJobsDone, InJob, ctx
  <1>10. LocalsCurrent'
    BY <1>1 DEF LocalsCurrent, ctx, mine
  <1> QED
    BY <1>1, <1>5, <1>6, <1>8, <1>9, <1>10 DEF CallState

\* A thread in run_jobs shows that there is a call, and what is known of it.
LEMMA Context ==
  ASSUME IInv, NEW t \in Thread, tpc[t] \in {"take", "first", "job", "fetch"}
  PROVE  /\ InCall /\ Sizes /\ Counts /\ Places /\ Reports /\ JobsOut /\ Numbers
         /\ ~finished /\ Part \subseteq Thread /\ t \in Part /\ ~Untold(t)
         /\ (t = Main <=> t \notin Workers) /\ (t = Main => mpc = "jobs" /\ MainRuns)
  <1>1. InCall
    BY Subsets DEF IInv, Quiet, Thread
  <1>2. Sizes /\ Counts /\ Places /\ Reports /\ JobsOut /\ Numbers
    BY <1>1 DEF IInv, CallState
  <1>3. ~finished
    BY <1>1 DEF IInv, Pool, InCall
  <1>4. t \in Part /\ ~Untold(t) /\ (t = Main <=> t \notin Workers)
    BY <1>2, InJobTakesPart DEF IInv
  <1> QED
    BY <1>1, <1>2, <1>3, <1>4, PartSize DEF IInv, Sizes, Places

\* Places and reports do not change when a thread goes on in run_jobs.
LEMMA StaysInJobs ==
  ASSUME IInv, NEW t \in Thread, tpc[t] \in {"take", "first", "job", "fetch"},
         NEW v \in {"first", "job", "fetch"},
         tpc' = [tpc EXCEPT ![t] = v],
         UNCHANGED <<mpc, i, ctx, done, wdone, calls>>
  PROVE  /\ Flags' /\ Pool' /\ Quiet' /\ InCall' /\ AllJobsDone'
         /\ Places' /\ Part' = Part
         /\ \A u \in Thread : Untold(u)' = Untold(u)
         /\ \A u \in Workers : (tpc'[u] = "report") = (tpc[u] = "report")
         /\ wdone' \in [Workers -> BOOLEAN]
         /\ tpc' \in [Thread -> {"out", "none", "new", "wait", "check", "take", "first",
                                 "job", "fetch", "report", "park", "exit"}]
  <1> USE DEF IInv
  <1>1. /\ InCall /\ Places /\ ~finished /\ t \in Part /\ ~Untold(t)
        /\ (t = Main <=> t \notin Workers) /\ (t = Main => mpc = "jobs")
    BY Context
  <1>2. InCall' /\ mpc' # "idle"
    BY <1>1 DEF InCall
  <1>3. Flags' /\ Pool'
    BY DEF Flags, Pool, ctx, nb_workers_all
  <1>4. tpc'[t] = v /\ \A u \in Thread \ {t} : tpc'[u] = tpc[u]
    BY DEF ThreadTypes
  <1>5. \A u \in Thread : Untold(u)' = Untold(u)
    BY DEF Untold
  <1>6. Part' = Part /\ MainRuns' = MainRuns
    BY DEF Part, MainRuns, nb_workers, ctx
  <1>7. \A u \in Workers : (tpc'[u] = "report") = (tpc[u] = "report")
    BY <1>4, Subsets
  <1>8. Places'
    <2>1. ASSUME NEW u \in Workers
          PROVE  /\ tpc'[u] \notin {"out", "exit"}
                 /\ tpc'[u] = "wait" => wdone'[u]
                 /\ u \notin Part' \/ Untold(u)' =>
                      /\ tpc'[u] \in {"none", "new", "wait", "check", "park"}
                      /\ tpc'[u] = "check" => wdone'[u]
      <3>1. CASE u = t
        BY <1>1, <1>4, <1>5, <1>6, <3>1, Subsets
      <3>2. CASE u # t
        BY <1>1, <1>4, <1>5, <1>6, <3>2, Subsets DEF Places
      <3> QED
        BY <3>1, <3>2
    <2>2. /\ tpc'[Main] = "out" <=> mpc' # "jobs"
          /\ tpc'[Main] \in {"out", "take", "first", "job", "fetch"}
      BY <1>1, <1>4, Subsets DEF Places
    <2> QED
      BY <1>1, <1>6, <2>1, <2>2 DEF Places
  <1> QED
    BY <1>2, <1>3, <1>5, <1>6, <1>7, <1>8 DEF Quiet, AllJobsDone, ThreadTypes

LEMMA ReadCallIInv == ASSUME IInv, NEW t \in Thread, ReadCall(t) PROVE IInv'
  <1> USE DEF IInv
  <1>1. /\ tpc[t] = "take" /\ tpc' = [tpc EXCEPT ![t] = "first"]
        /\ local' = [local EXCEPT ![t] = <<nb_jobs, nb_active_threads>>]
        /\ UNCHANGED <<mpc, i, ctx, done, count, wdone, job, threadnr, ran, calls>>
    BY DEF ReadCall
  <1>2. /\ InCall /\ Sizes /\ Counts /\ Reports /\ JobsOut /\ Numbers
        /\ Part \subseteq Thread
    BY <1>1, Context
  <1>3. /\ Flags' /\ Pool' /\ Quiet' /\ InCall' /\ AllJobsDone'
        /\ Places' /\ Part' = Part
        /\ \A u \in Thread : Untold(u)' = Untold(u)
        /\ \A u \in Workers : (tpc'[u] = "report") = (tpc[u] = "report")
        /\ wdone' \in [Workers -> BOOLEAN]
        /\ tpc' \in [Thread -> {"out", "none", "new", "wait", "check", "take", "first",
                                "job", "fetch", "report", "park", "exit"}]
    BY <1>1, StaysInJobs
  <1>4. tpc'[t] = "first" /\ \A u \in Thread \ {t} : tpc'[u] = tpc[u]
    BY <1>1 DEF ThreadTypes
  <1>5. CallerTypes' /\ JobTypes'
    BY <1>1 DEF CallerTypes, JobTypes, ctx, count
  <1>6. ThreadTypes'
    <2>1. <<nb_jobs, nb_active_threads>> \in (0 .. MaxJobs) \X (0 .. NbThreads)
      BY DEF CallerTypes
    <2> QED
      BY <1>1, <1>3, <2>1 DEF ThreadTypes
  <1>7. \A u \in Part : IsPending(u)' = IsPending(u)
    BY <1>1, <1>2, <1>3, <1>4 DEF IsPending
  <1>8. Sizes' /\ Counts' /\ JobsOut' /\ Numbers'
    <2>1. \A u \in Thread : /\ (tpc'[u] = "job") = (tpc[u] = "job")
                            /\ (tpc'[u] = "fetch") = (tpc[u] = "fetch")
      BY <1>1, <1>4
    <2> QED
      BY <1>1, <1>2, <1>7, <2>1, Frame DEF ctx
  <1>9. Reports'
    BY <1>1, <1>2, <1>3 DEF Reports, ctx, count
  <1>10. LocalsCurrent'
    BY <1>1, <1>4 DEF LocalsCurrent, ThreadTypes, ctx
  <1> QED
    BY <1>3, <1>5, <1>6, <1>8, <1>9, <1>10 DEF CallState

\* A thread takes its number, which is its first job: nobody has had either.
LEMMA TakeFirstIInv == ASSUME IInv, NEW t \in Thread, TakeFirst(t) PROVE IInv'
  <1> USE DEF IInv
  <1>1. /\ tpc[t] = "first" /\ tpc' = [tpc EXCEPT ![t] = "job"]
        /\ threadnr' = [threadnr EXCEPT ![t] = first_job]
        /\ job' = [job EXCEPT ![t] = first_job]
        /\ first_job' = first_job + 1
        /\ UNCHANGED <<mpc, i, ctx, done, current_job, wdone, local, ran, calls>>
    BY DEF TakeFirst
  <1>2. /\ InCall /\ Sizes /\ Counts /\ Reports /\ JobsOut /\ Numbers
        /\ Part \subseteq Thread /\ t \in Part /\ ~Untold(t)
    BY <1>1, Context
  <1>3. /\ Flags' /\ Pool' /\ Quiet' /\ InCall' /\ AllJobsDone'
        /\ Places' /\ Part' = Part
        /\ \A u \in Thread : Untold(u)' = Untold(u)
        /\ \A u \in Workers : (tpc'[u] = "report") = (tpc[u] = "report")
        /\ wdone' \in [Workers -> BOOLEAN]
        /\ tpc' \in [Thread -> {"out", "none", "new", "wait", "check", "take", "first",
                                "job", "fetch", "report", "park", "exit"}]
    BY <1>1, StaysInJobs
  <1>4. /\ tpc'[t] = "job" /\ job'[t] = first_job /\ threadnr'[t] = first_job
        /\ \A u \in Thread \ {t} :
             tpc'[u] = tpc[u] /\ job'[u] = job[u] /\ threadnr'[u] = threadnr[u]
    BY <1>1 DEF ThreadTypes, JobTypes
  <1>5. Pending' = Pending \ {t} /\ Busy' = Busy \cup {t} /\ t \in Pending /\ t \notin Busy
    <2>1. \A u \in Part \ {t} : IsPending(u)' = IsPending(u)
      BY <1>1, <1>2, <1>3, <1>4 DEF IsPending
    <2>2. IsPending(t) /\ ~IsPending(t)'
      BY <1>1, <1>2, <1>3, <1>4 DEF IsPending
    <2> QED
      BY <1>1, <1>2, <1>3, <1>4, <2>1, <2>2 DEF Pending, Busy
  <1>6. PICK p \in Nat, b \in Nat :
          /\ Cardinality(Pending) = p /\ Cardinality(Busy) = b /\ p >= 1
          /\ Cardinality(Pending') = p - 1 /\ Cardinality(Busy') = b + 1
          /\ IsFiniteSet(Pending') /\ IsFiniteSet(Busy')
    <2>1. Cardinality(Pending) \in Nat /\ Cardinality(Busy) \in Nat
      BY <1>2, FS_CardinalityType DEF Counts
    <2>2. Cardinality(Pending') = Cardinality(Pending) - 1 /\ IsFiniteSet(Pending')
      BY <1>2, <1>5, FS_RemoveElement DEF Counts
    <2>3. Cardinality(Busy') = Cardinality(Busy) + 1 /\ IsFiniteSet(Busy')
      BY <1>2, <1>5, FS_AddElement DEF Counts
    <2>4. Cardinality(Pending) # 0
      BY <1>2, <1>5, FS_EmptySet DEF Counts
    <2> QED
      BY <2>1, <2>2, <2>3, <2>4
  <1>7. /\ first_job \in Nat /\ nb_active_threads \in Nat /\ current_job \in Nat
        /\ nb_jobs \in Nat /\ first_job < nb_active_threads
        /\ nb_active_threads <= nb_jobs /\ nb_active_threads <= NbThreads
        /\ nb_jobs <= MaxJobs
        /\ first_job = nb_active_threads - p
    BY <1>2, <1>6 DEF Counts, Sizes, CallerTypes
  <1>8. UNCHANGED <<nb_jobs, nb_active_threads, current_job>>
    BY <1>1 DEF ctx
  <1>9. Sizes' /\ Counts'
    <2>1. Excess' = Excess
      BY <1>8 DEF Excess
    <2>2. Excess \in Int
      BY <1>7 DEF Excess
    <2>3. first_job + 1 = nb_active_threads - (p - 1)
      BY <1>7
    <2>4. (p - 1) + (b + 1) + Excess = nb_active_threads
      BY <1>2, <1>6, <2>2 DEF Counts
    <2> QED
      BY <1>1, <1>2, <1>6, <1>8, <2>1, <2>3, <2>4 DEF Sizes, Counts
  <1>10. CallerTypes'
    BY <1>1, <1>7 DEF CallerTypes, ctx
  <1>11. ThreadTypes' /\ JobTypes'
    <2>1. first_job \in Jobs /\ first_job \in 0 .. NbThreads - 1
      BY <1>7 DEF Jobs
    <2> QED
      BY <1>1, <1>3, <2>1 DEF ThreadTypes, JobTypes
  <1>12. JobsOut'
    <2>1. \A j \in Jobs : Given(j)' <=> Given(j) \/ j = first_job
      BY <1>1, <1>7, <1>8 DEF Given, Jobs
    <2>2. ~Given(first_job) /\ first_job \in Jobs
      BY <1>7 DEF Given, Jobs
    <2>3. \A u \in Thread : tpc[u] = "job" => job[u] # first_job
      BY <1>2, <2>2 DEF JobsOut
    <2>4. \A j \in Jobs : Running(j)' <=> Running(j) \/ j = first_job
      BY <1>1, <1>4 DEF Running
    <2>5. ASSUME NEW u \in Thread, tpc'[u] = "job"
          PROVE  /\ Given(job[u])'
                 /\ \A x \in Thread : tpc'[x] = "job" /\ x # u => job'[x] # job'[u]
      <3>1. job'[u] \in Jobs
        BY <1>11 DEF JobTypes
      <3>2. Given(job'[u]) \/ job'[u] = first_job
        BY <1>2, <1>4, <2>5 DEF JobsOut
      <3>3. Given(job[u])'
        BY <2>1, <3>1, <3>2 DEF Given
      <3>4. \A x \in Thread : tpc'[x] = "job" /\ x # u => job'[x] # job'[u]
        BY <1>2, <1>4, <2>3, <2>5 DEF JobsOut
      <3> QED
        BY <3>3, <3>4
    <2>6. ASSUME NEW j \in Jobs
          PROVE  ran'[j] = IF Given(j)' /\ ~Running(j)' THEN 1 ELSE 0
      BY <1>1, <1>2, <2>1, <2>2, <2>4 DEF JobsOut
    <2> QED
      BY <2>5, <2>6 DEF JobsOut
  <1>13. Numbers'
    <2>1. \A u \in Thread : tpc[u] \in {"job", "fetch"} =>
            threadnr[u] \in Int /\ threadnr[u] < first_job
      BY <1>2 DEF Numbers, JobTypes
    <2>2. \A u \in Thread : tpc'[u] \in {"job", "fetch"} => threadnr'[u] < first_job + 1
      BY <1>4, <1>7, <2>1
    <2>3. ASSUME NEW u \in Thread, tpc'[u] \in {"job", "fetch"},
                 NEW x \in Thread, tpc'[x] \in {"job", "fetch"}, x # u
          PROVE  threadnr'[x] # threadnr'[u]
      BY <1>2, <1>4, <1>7, <2>1, <2>3 DEF Numbers
    <2> QED
      BY <1>1, <2>2, <2>3 DEF Numbers
  <1>14. Reports'
    BY <1>2, <1>3, <1>8, <1>1 DEF Reports
  <1>15. LocalsCurrent'
    BY <1>1, <1>4, <1>8 DEF LocalsCurrent
  <1> QED
    BY <1>3, <1>9, <1>10, <1>11, <1>12, <1>13, <1>14, <1>15 DEF CallState

\* worker_func returns: one job more has run.
LEMMA RunJobIInv == ASSUME IInv, NEW t \in Thread, RunJob(t) PROVE IInv'
  <1> USE DEF IInv
  <1>1. /\ tpc[t] = "job" /\ tpc' = [tpc EXCEPT ![t] = "fetch"]
        /\ ran' = [ran EXCEPT ![job[t]] = @ + 1]
        /\ UNCHANGED <<mpc, i, ctx, done, count, wdone, mine, calls>>
    BY DEF RunJob
  <1>2. /\ InCall /\ Sizes /\ Counts /\ Reports /\ JobsOut /\ Numbers
        /\ Part \subseteq Thread /\ t \in Part
    BY <1>1, Context
  <1>3. /\ Flags' /\ Pool' /\ Quiet' /\ InCall' /\ AllJobsDone'
        /\ Places' /\ Part' = Part
        /\ \A u \in Thread : Untold(u)' = Untold(u)
        /\ \A u \in Workers : (tpc'[u] = "report") = (tpc[u] = "report")
        /\ wdone' \in [Workers -> BOOLEAN]
        /\ tpc' \in [Thread -> {"out", "none", "new", "wait", "check", "take", "first",
                                "job", "fetch", "report", "park", "exit"}]
    BY <1>1, StaysInJobs
  <1>4. /\ tpc'[t] = "fetch" /\ \A u \in Thread \ {t} : tpc'[u] = tpc[u]
        /\ job' = job /\ threadnr' = threadnr
    BY <1>1 DEF ThreadTypes, mine
  <1>5. /\ job[t] \in Jobs /\ Given(job[t]) /\ ran[job[t]] = 0
        /\ \A u \in Thread : tpc[u] = "job" /\ u # t => job[u] # job[t]
    BY <1>1, <1>2 DEF JobsOut, Running, JobTypes
  <1>6. Pending' = Pending /\ Busy' = Busy
    <2>1. \A u \in Part : IsPending(u)' = IsPending(u)
      BY <1>1, <1>2, <1>3, <1>4 DEF IsPending
    <2> QED
      BY <1>1, <1>2, <1>3, <1>4, <2>1 DEF Pending, Busy
  <1>7. Sizes' /\ Counts'
    BY <1>1, <1>2, <1>6 DEF Sizes, Counts, Excess, ctx, count
  <1>8. CallerTypes' /\ ThreadTypes'
    BY <1>1, <1>3 DEF CallerTypes, ThreadTypes, ctx, count, mine
  <1>9. /\ ran'[job[t]] = 1 /\ \A j \in Jobs \ {job[t]} : ran'[j] = ran[j]
        /\ ran' \in [Jobs -> 0 .. 1]
    BY <1>1, <1>5 DEF JobTypes
  <1>10. JobTypes'
    BY <1>4, <1>9 DEF JobTypes
  <1>11. JobsOut'
    <2>1. \A j \in Jobs : Given(j)' = Given(j)
      BY <1>1 DEF Given, ctx, count
    <2>2. \A j \in Jobs : Running(j)' <=> Running(j) /\ j # job[t]
      BY <1>1, <1>4, <1>5 DEF Running
    <2>3. ASSUME NEW j \in Jobs
          PROVE  ran'[j] = IF Given(j)' /\ ~Running(j)' THEN 1 ELSE 0
      BY <1>2, <1>5, <1>9, <2>1, <2>2 DEF JobsOut
    <2>4. ASSUME NEW u \in Thread, tpc'[u] = "job"
          PROVE  /\ Given(job[u])'
                 /\ \A x \in Thread : tpc'[x] = "job" /\ x # u => job'[x] # job'[u]
      <3>1. tpc[u] = "job" /\ job[u] \in Jobs /\ Given(job[u])
        BY <1>2, <1>4, <2>4 DEF JobsOut, JobTypes
      <3>2. Given(job[u])'
        BY <1>1, <1>4, <3>1 DEF Given, ctx, count
      <3> QED
        BY <1>2, <1>4, <3>1, <3>2 DEF JobsOut
    <2> QED
      BY <2>3, <2>4 DEF JobsOut
  <1>12. Numbers'
    <2>1. \A u \in Thread : (tpc'[u] \in {"job", "fetch"}) = (tpc[u] \in {"job", "fetch"})
      BY <1>1, <1>4
    <2> QED
      BY <1>1, <1>2, <1>4, <2>1 DEF Numbers, count
  <1>13. Reports'
    BY <1>2, <1>3, <1>1 DEF Reports, ctx, count
  <1>14. LocalsCurrent'
    BY <1>1, <1>4 DEF LocalsCurrent, ctx, mine
  <1> QED
    BY <1>3, <1>7, <1>8, <1>10, <1>11, <1>12, <1>13, <1>14 DEF CallState

\* A thread that looks for a job finds one: it was nobody's.
NextFound(t)   == NextJob(t) /\ current_job < local[t][1]
NextThrough(t) == NextJob(t) /\ ~(current_job < local[t][1])

LEMMA NextFoundIInv == ASSUME IInv, NEW t \in Thread, NextFound(t) PROVE IInv'
  <1> USE DEF IInv
  <1>1. /\ tpc[t] = "fetch" /\ tpc' = [tpc EXCEPT ![t] = "job"]
        /\ job' = [job EXCEPT ![t] = current_job]
        /\ current_job' = current_job + 1
        /\ UNCHANGED <<mpc, i, ctx, done, first_job, wdone, threadnr, local, ran, calls>>
    BY DEF NextFound, NextJob
  <1>2. /\ InCall /\ Sizes /\ Counts /\ Reports /\ JobsOut /\ Numbers
        /\ Part \subseteq Thread /\ t \in Part
    BY <1>1, Context
  <1>3. /\ Flags' /\ Pool' /\ Quiet' /\ InCall' /\ AllJobsDone'
        /\ Places' /\ Part' = Part
        /\ \A u \in Thread : Untold(u)' = Untold(u)
        /\ \A u \in Workers : (tpc'[u] = "report") = (tpc[u] = "report")
        /\ wdone' \in [Workers -> BOOLEAN]
        /\ tpc' \in [Thread -> {"out", "none", "new", "wait", "check", "take", "first",
                                "job", "fetch", "report", "park", "exit"}]
    BY <1>1, StaysInJobs
  <1>4. /\ tpc'[t] = "job" /\ job'[t] = current_job
        /\ \A u \in Thread \ {t} : tpc'[u] = tpc[u] /\ job'[u] = job[u]
    BY <1>1 DEF ThreadTypes, JobTypes
  <1>5. local[t] = <<nb_jobs, nb_active_threads>>
    BY <1>1 DEF LocalsCurrent
  <1>6. /\ current_job \in Nat /\ nb_jobs \in Nat /\ nb_active_threads \in Nat
        /\ first_job \in Nat /\ current_job < nb_jobs /\ nb_jobs <= MaxJobs
        /\ nb_active_threads <= current_job /\ first_job <= nb_active_threads
    <2>1. current_job < nb_jobs
      BY <1>5 DEF NextFound
    <2>2. Cardinality(Pending) \in Nat
      BY <1>2, FS_CardinalityType DEF Counts
    <2> QED
      BY <1>2, <2>1, <2>2 DEF Sizes, Counts, CallerTypes
  <1>7. UNCHANGED <<nb_jobs, nb_active_threads>>
    BY <1>1 DEF ctx
  <1>8. Pending' = Pending /\ Busy' = Busy
    <2>1. \A u \in Part : IsPending(u)' = IsPending(u)
      BY <1>1, <1>2, <1>3, <1>4 DEF IsPending
    <2> QED
      BY <1>1, <1>2, <1>3, <1>4, <2>1 DEF Pending, Busy
  <1>9. Sizes' /\ Counts'
    <2>1. Excess = 0
      BY <1>6 DEF Excess
    <2>2. ~(current_job + 1 > nb_jobs) /\ current_job + 1 >= nb_active_threads
      BY <1>6
    <2>3. Excess' = 0
      BY <1>1, <1>7, <2>2 DEF Excess
    <2> QED
      BY <1>1, <1>2, <1>7, <1>8, <2>1, <2>2, <2>3 DEF Sizes, Counts
  <1>10. CallerTypes'
    BY <1>1, <1>6 DEF CallerTypes, ctx
  <1>11. ThreadTypes' /\ JobTypes'
    <2>1. current_job \in Jobs
      BY <1>6 DEF Jobs
    <2> QED
      BY <1>1, <1>3, <2>1 DEF ThreadTypes, JobTypes
  <1>12. JobsOut'
    <2>1. \A j \in Jobs : Given(j)' <=> Given(j) \/ j = current_job
      BY <1>1, <1>6, <1>7 DEF Given, Jobs
    <2>2. ~Given(current_job) /\ current_job \in Jobs
      BY <1>6 DEF Given, Jobs
    <2>3. \A u \in Thread : tpc[u] = "job" => job[u] # current_job
      BY <1>2, <2>2 DEF JobsOut
    <2>4. \A j \in Jobs : Running(j)' <=> Running(j) \/ j = current_job
      BY <1>1, <1>4 DEF Running
    <2>5. ASSUME NEW u \in Thread, tpc'[u] = "job"
          PROVE  /\ Given(job[u])'
                 /\ \A x \in Thread : tpc'[x] = "job" /\ x # u => job'[x] # job'[u]
      <3>1. job'[u] \in Jobs
        BY <1>11 DEF JobTypes
      <3>2. Given(job'[u]) \/ job'[u] = current_job
        BY <1>2, <1>4, <2>5 DEF JobsOut
      <3>3. Given(job[u])'
        BY <2>1, <3>1, <3>2 DEF Given
      <3>4. \A x \in Thread : tpc'[x] = "job" /\ x # u => job'[x] # job'[u]
        BY <1>2, <1>4, <2>3, <2>5 DEF JobsOut
      <3> QED
        BY <3>3, <3>4
    <2>6. ASSUME NEW j \in Jobs
          PROVE  ran'[j] = IF Given(j)' /\ ~Running(j)' THEN 1 ELSE 0
      BY <1>1, <1>2, <2>1, <2>2, <2>4 DEF JobsOut
    <2> QED
      BY <2>5, <2>6 DEF JobsOut
  <1>13. Numbers'
    <2>1. \A u \in Thread : (tpc'[u] \in {"job", "fetch"}) = (tpc[u] \in {"job", "fetch"})
      BY <1>1, <1>4
    <2> QED
      BY <1>1, <1>2, <2>1 DEF Numbers
  <1>14. Reports'
    <2>1. current_job # nb_jobs + nb_active_threads
      BY <1>6
    <2> QED
      BY <1>1, <1>2, <1>3, <2>1 DEF Reports
  <1>15. LocalsCurrent'
    BY <1>1, <1>4, <1>7 DEF LocalsCurrent
  <1> QED
    BY <1>3, <1>9, <1>10, <1>11, <1>12, <1>13, <1>14, <1>15 DEF CallState

\* The thread that draws the last number is the last: the others have taken their
\* numbers, and are through.
LEMMA LastIsLast ==
  ASSUME IInv, NEW t \in Thread, tpc[t] = "fetch", ~(current_job < nb_jobs)
  PROVE  /\ current_job < nb_jobs + nb_active_threads
         /\ current_job = nb_jobs + nb_active_threads - 1 =>
              /\ \A u \in Part : ~IsPending(u)
              /\ \A u \in Thread \ {t} : ~InJob(u)
              /\ \A j \in Jobs : ran[j] = IF j < nb_jobs THEN 1 ELSE 0
  <1>1. /\ Sizes /\ Counts /\ Places /\ JobsOut /\ t \in Part
    BY Context
  <1>2. t \in Busy
    BY <1>1 DEF Busy
  <1>3. PICK p \in Nat, b \in Nat : Cardinality(Pending) = p /\ Cardinality(Busy) = b
    BY <1>1, FS_CardinalityType DEF Counts
  <1>4. b # 0
    BY <1>1, <1>2, <1>3, FS_EmptySet DEF Counts
  <1>5. /\ current_job \in Nat /\ nb_jobs \in Nat /\ nb_active_threads \in Nat
        /\ nb_active_threads <= nb_jobs /\ nb_active_threads <= current_job
    BY <1>1 DEF Sizes, CallerTypes, IInv
  <1>6. Excess = current_job - nb_jobs
    BY <1>5 DEF Excess
  <1>7. p + b + (current_job - nb_jobs) = nb_active_threads
    BY <1>1, <1>3, <1>6 DEF Counts
  <1>8. current_job < nb_jobs + nb_active_threads
    BY <1>4, <1>5, <1>7
  <1>9. ASSUME current_job = nb_jobs + nb_active_threads - 1
        PROVE  /\ \A u \in Part : ~IsPending(u)
               /\ \A u \in Thread \ {t} : ~InJob(u)
               /\ \A j \in Jobs : ran[j] = IF j < nb_jobs THEN 1 ELSE 0
    <2>1. p = 0 /\ b = 1
      BY <1>4, <1>5, <1>7, <1>9
    <2>2. Pending = {} /\ Busy = {t}
      BY <1>1, <1>2, <1>3, <2>1, FS_EmptySet, FS_Singleton DEF Counts
    <2>3. \A u \in Part : ~IsPending(u)
      BY <2>2 DEF Pending
    <2>4. \A u \in Thread \ {t} : ~InJob(u)
      BY <1>1, <2>2, InJobTakesPart DEF InJob, Pending, IsPending, Busy, IInv
    <2>5. first_job = nb_active_threads
      BY <1>1, <1>3, <1>5, <2>1 DEF Counts
    <2>6. ASSUME NEW j \in Jobs PROVE ran[j] = IF j < nb_jobs THEN 1 ELSE 0
      <3>1. ~Running(j)
        BY <2>4 DEF Running, InJob
      <3>2. Given(j) <=> j < nb_jobs
        BY <1>5, <1>9, <2>5, <1>1 DEF Given, Jobs, Sizes
      <3> QED
        BY <1>1, <3>1, <3>2 DEF JobsOut
    <2> QED
      BY <2>3, <2>4, <2>6
  <1> QED
    BY <1>8, <1>9

\* A thread that finds no job is through.
LEMMA NextThroughIInv == ASSUME IInv, NEW t \in Thread, NextThrough(t) PROVE IInv'
  <1> USE DEF IInv
  <1>1. /\ tpc[t] = "fetch" /\ Through(t) /\ current_job' = current_job + 1
        /\ UNCHANGED <<i, ctx, done, first_job, wdone, ran, calls>>
        /\ UNCHANGED <<nb_jobs, nb_active_threads>>
    BY DEF NextThrough, NextJob, ctx
  <1>2. /\ InCall /\ Sizes /\ Counts /\ Places /\ Reports /\ JobsOut /\ Numbers
        /\ ~finished /\ Part \subseteq Thread /\ t \in Part /\ ~Untold(t)
        /\ (t = Main <=> t \notin Workers) /\ (t = Main => mpc = "jobs")
    BY <1>1, Context
  <1>3. local[t] = <<nb_jobs, nb_active_threads>>
    BY <1>1 DEF LocalsCurrent
  <1>4. ~(current_job < nb_jobs) /\ (IsLast(t) <=> current_job = nb_jobs + nb_active_threads - 1)
    BY <1>3 DEF NextThrough, IsLast
  <1>5. /\ current_job \in Nat /\ nb_jobs \in Nat /\ nb_active_threads \in Nat
        /\ nb_jobs <= current_job /\ current_job < nb_jobs + nb_active_threads
        /\ nb_jobs <= MaxJobs /\ nb_active_threads <= NbThreads
        /\ nb_active_threads <= current_job
    BY <1>1, <1>2, <1>4, LastIsLast DEF CallerTypes, Sizes
  <1>6. /\ \A u \in Thread \ {t} : /\ tpc'[u] = tpc[u] /\ job'[u] = job[u]
                                   /\ threadnr'[u] = threadnr[u] /\ local'[u] = local[u]
        /\ tpc'[t] = IF t = Main THEN "out" ELSE IF IsLast(t) THEN "report" ELSE "park"
        /\ mpc' = IF t = Main THEN IF IsLast(t) THEN "idle" ELSE "done" ELSE mpc
    BY <1>1 DEF Through, ThreadTypes, JobTypes
  <1>7. Flags' /\ Pool'
    BY <1>1, <1>2, <1>6 DEF Flags, Pool, ctx, nb_workers_all
  <1>8. CallerTypes'
    BY <1>1, <1>5, <1>6 DEF CallerTypes, ctx
  <1>9. ThreadTypes' /\ JobTypes'
    <2>1. /\ 0 \in Jobs /\ 0 \in 0 .. NbThreads - 1
          /\ <<0, 0>> \in (0 .. MaxJobs) \X (0 .. NbThreads)
      BY DEF Jobs
    <2> QED
      BY <1>1, <2>1 DEF Through, ThreadTypes, JobTypes
  <1>10. LocalsCurrent'
    BY <1>1, <1>6 DEF LocalsCurrent
  <1>11. ~done /\ \A w \in Workers : tpc[w] # "report"
    <2>1. current_job # nb_jobs + nb_active_threads
      BY <1>5
    <2> QED
      BY <1>2, <2>1 DEF Reports
  <1>12. CASE t = Main /\ IsLast(t)
    <2>1. /\ \A u \in Part : ~IsPending(u)
          /\ \A u \in Thread \ {t} : ~InJob(u)
          /\ \A j \in Jobs : ran[j] = IF j < nb_jobs THEN 1 ELSE 0
      BY <1>1, <1>4, <1>12, LastIsLast
    <2>2. mpc' = "idle" /\ ~InCall' /\ tpc'[Main] = "out" /\ ~done'
      BY <1>1, <1>6, <1>11, <1>12 DEF InCall
    <2>3. ASSUME NEW w \in Workers
          PROVE  /\ tpc'[w] \in {"none", "new", "wait", "check", "park"}
                 /\ tpc'[w] = "wait" => wdone'[w]
                 /\ tpc'[w] = "check" => wdone'[w]
      <3>1. w \in Thread \ {t} /\ w # Main /\ tpc'[w] = tpc[w] /\ wdone' = wdone
        BY <1>1, <1>6, <1>12, Subsets
      <3>2. CASE w \in Part
        BY <1>2, <1>11, <2>1, <3>1, <3>2 DEF IsPending, InJob, Places, ThreadTypes
      <3>3. CASE w \notin Part
        BY <1>2, <3>1, <3>3 DEF Places
      <3> QED
        BY <3>2, <3>3
    <2>4. Quiet'
      BY <2>2, <2>3 DEF Quiet
    <2>5. AllJobsDone'
      BY <1>1, <1>6, <1>12, <2>1 DEF AllJobsDone, InJob
    <2> QED
      BY <1>7, <1>8, <1>9, <1>10, <2>2, <2>4, <2>5 DEF CallState
  <1>13. CASE ~(t = Main /\ IsLast(t))
    <2>1. InCall' /\ mpc' # "idle" /\ (mpc' = "start") = (mpc = "start")
      BY <1>2, <1>6, <1>13 DEF InCall
    <2>2. \A u \in Thread : Untold(u)' = Untold(u)
      BY <1>1, <2>1 DEF Untold
    <2>3. Part' = Part /\ MainRuns' = MainRuns
      BY <1>1 DEF Part, MainRuns, nb_workers, ctx
    <2>4. Pending' = Pending /\ Busy' = Busy \ {t} /\ t \in Busy
      <3>1. \A u \in Part \ {t} : IsPending(u)' = IsPending(u)
        BY <1>1, <1>2, <1>6, <2>2 DEF IsPending
      <3>2. ~IsPending(t) /\ ~IsPending(t)'
        BY <1>1, <1>2, <1>6, <2>2 DEF IsPending
      <3> QED
        BY <1>1, <1>2, <1>6, <2>3, <3>1, <3>2 DEF Pending, Busy
    <2>5. Sizes' /\ Counts'
      <3>1. PICK p \in Nat, b \in Nat :
              /\ Cardinality(Pending) = p /\ Cardinality(Busy) = b
              /\ Cardinality(Busy') = b - 1 /\ IsFiniteSet(Busy')
        <4>1. Cardinality(Pending) \in Nat /\ Cardinality(Busy) \in Nat
          BY <1>2, FS_CardinalityType DEF Counts
        <4>2. Cardinality(Busy') = Cardinality(Busy) - 1 /\ IsFiniteSet(Busy')
          BY <1>2, <2>4, FS_RemoveElement DEF Counts
        <4> QED
          BY <4>1, <4>2
      <3>2. Excess = current_job - nb_jobs
        BY <1>5 DEF Excess
      <3>3. Excess' = current_job + 1 - nb_jobs
        <4>1. PICK c \in Nat : c = current_job + 1 /\ c > nb_jobs
          BY <1>5
        <4>2. current_job' = c /\ nb_jobs' = nb_jobs
          BY <1>1, <4>1
        <4>3. Excess' = IF c > nb_jobs THEN c - nb_jobs ELSE 0
          BY <4>2 DEF Excess
        <4> QED
          BY <1>5, <4>1, <4>3
      <3>4. p + (b - 1) + (current_job + 1 - nb_jobs) = nb_active_threads
        BY <1>2, <1>5, <3>1, <3>2 DEF Counts
      <3>5. current_job + 1 >= nb_active_threads
        BY <1>5
      <3> QED
        BY <1>1, <1>2, <2>4, <3>1, <3>3, <3>4, <3>5 DEF Sizes, Counts
    <2>6. Places'
      <3>1. ASSUME NEW u \in Workers
            PROVE  /\ tpc'[u] \notin {"out", "exit"}
                   /\ tpc'[u] = "wait" => wdone'[u]
                   /\ u \notin Part' \/ Untold(u)' =>
                        /\ tpc'[u] \in {"none", "new", "wait", "check", "park"}
                        /\ tpc'[u] = "check" => wdone'[u]
        <4>1. CASE u = t
          BY <1>2, <1>6, <2>2, <2>3, <4>1
        <4>2. CASE u # t
          BY <1>1, <1>2, <1>6, <2>2, <2>3, <4>2, Subsets DEF Places
        <4> QED
          BY <4>1, <4>2
      <3>2. /\ tpc'[Main] = "out" <=> mpc' # "jobs"
            /\ tpc'[Main] \in {"out", "take", "first", "job", "fetch"}
            /\ mpc' = "jobs" => mpc = "jobs"
        BY <1>2, <1>6, Subsets DEF Places
      <3> QED
        BY <1>2, <2>3, <3>1, <3>2 DEF Places
    <2>7. Reports'
      <3>1. CASE IsLast(t)
        <4>1. current_job + 1 = nb_jobs + nb_active_threads
          BY <1>4, <1>5, <3>1
        <4>2. \A w \in Workers : tpc'[w] = "report" => w = t
          BY <1>6, <1>11, Subsets
        <4> QED
          BY <1>1, <1>11, <4>1, <4>2 DEF Reports
      <3>2. CASE ~IsLast(t)
        BY <1>1, <1>6, <1>11, <3>2, Subsets DEF Reports
      <3> QED
        BY <3>1, <3>2
    <2>8. JobsOut'
      <3>1. \A j \in Jobs : Given(j)' = Given(j)
        BY <1>1, <1>5 DEF Given, Jobs
      <3>2. \A j \in Jobs : Running(j)' = Running(j)
        BY <1>1, <1>6 DEF Running
      <3>3. ASSUME NEW u \in Thread, tpc'[u] = "job"
            PROVE  /\ Given(job[u])'
                   /\ \A x \in Thread : tpc'[x] = "job" /\ x # u => job'[x] # job'[u]
        <4>1. /\ tpc[u] = "job" /\ job'[u] = job[u] /\ job[u] \in Jobs /\ Given(job[u])
              /\ \A x \in Thread : tpc[x] = "job" /\ x # u => job[x] # job[u]
          BY <1>1, <1>2, <1>6, <3>3 DEF JobsOut, JobTypes
        <4>2. Given(job[u])'
          BY <3>1, <4>1 DEF Given
        <4> QED
          BY <1>6, <4>1, <4>2
      <3> QED
        BY <1>1, <1>2, <3>1, <3>2, <3>3 DEF JobsOut
    <2>9. Numbers'
      <3>1. \A u \in Thread : tpc'[u] \in {"job", "fetch"} =>
              u # t /\ tpc[u] \in {"job", "fetch"}
        BY <1>6
      <3> QED
        BY <1>1, <1>2, <1>6, <3>1 DEF Numbers
    <2> QED
      BY <1>7, <1>8, <1>9, <1>10, <2>1, <2>5, <2>6, <2>7, <2>8, <2>9
      DEF CallState, Quiet, AllJobsDone
  <1> QED
    BY <1>12, <1>13

\* Every step.
LEMMA NextIInv == ASSUME IInv, [Next]_vars PROVE IInv'
  <1>1. CASE UNCHANGED vars
    <2>1. /\ UNCHANGED <<mpc, i, main_func, execute_main, nb_threads, nb_jobs>>
          /\ UNCHANGED <<nb_active_threads, finished, done, first_job, current_job>>
          /\ UNCHANGED <<wdone, tpc, job, threadnr, local, ran, calls>>
      BY <1>1 DEF vars, ctx, count, mine
    <2>2. /\ Flags' /\ CallerTypes' /\ ThreadTypes' /\ JobTypes' /\ Pool'
          /\ Quiet' /\ LocalsCurrent' /\ AllJobsDone'
      BY <2>1 DEF IInv, Flags, CallerTypes, ThreadTypes, JobTypes, Pool, nb_workers_all,
         Quiet, InCall, LocalsCurrent, AllJobsDone, InJob
    <2>3. Part' = Part /\ Pending' = Pending /\ Busy' = Busy /\ Excess' = Excess
      BY <2>1 DEF Part, MainRuns, nb_workers, Pending, IsPending, Untold, Busy, Excess
    <2>4. CallState'
      BY <2>1, <2>3 DEF IInv, CallState, InCall, Sizes, Counts, Places, MainRuns, Untold,
         Reports, JobsOut, Given, Running, Numbers
    <2> QED
      BY <2>2, <2>4 DEF IInv
  <1>2. CASE Client
    BY <1>2, ExecuteIInv, PoolIInv DEF Client, Executes
  <1>3. CASE CallerStep \/ SpuriousMain
    BY <1>3, PoolIInv, StartWorkerIInv, CallerIInv, DoneIInv DEF CallerStep
  <1>4. CASE \E t \in Thread : ThreadStep(t)
    BY <1>4, ReadCallIInv, TakeFirstIInv, RunJobIInv, NextFoundIInv, NextThroughIInv
    DEF ThreadStep, NextFound, NextThrough
  <1>5. CASE \E w \in Workers : WorkerStep(w) \/ SpuriousWorker(w)
    BY <1>5, WorkerIInv DEF WorkerStep
  <1> QED
    BY <1>1, <1>2, <1>3, <1>4, <1>5 DEF Next, Ended

THEOREM Invariance == Spec => []IInv
  BY InitIInv, NextIInv, PTL DEF Spec

-----------------------------------------------------------------------------
\* Types, for any number of threads, jobs and calls.
THEOREM TypeCorrect == Spec => []TypeOK
  BY Invariance, Types, PTL

\* avpriv_slicethread_execute returns when every job has run exactly once and no
\* thread is in worker_func (slicethread.c:64, :190).
THEOREM EveryJobRuns == Spec => []AllJobsDone
  <1>1. IInv => AllJobsDone
    BY DEF IInv
  <1> QED
    BY <1>1, Invariance, PTL

\* Threads that are in worker_func together have different numbers below
\* nb_active_threads (slicethread.c:57).
THEOREM NumbersAreOwn == Spec => []OwnThreadnr
  <1>1. ASSUME IInv PROVE OwnThreadnr
    <2>1. ASSUME NEW t \in Thread, NEW u \in Thread, tpc[t] = "job"
          PROVE  /\ threadnr[t] < nb_active_threads
                 /\ tpc[u] = "job" /\ t # u => threadnr[t] # threadnr[u]
      <3>1. Counts /\ Numbers
        BY <1>1, <2>1, Context
      <3>2. Cardinality(Pending) \in Nat
        BY <3>1, FS_CardinalityType DEF Counts
      <3>3. first_job <= nb_active_threads
        BY <1>1, <3>1, <3>2 DEF Counts, IInv, CallerTypes
      <3>4. threadnr[t] \in Int /\ threadnr[t] < first_job
        BY <1>1, <2>1, <3>1 DEF Numbers, IInv, JobTypes
      <3> QED
        BY <1>1, <2>1, <3>1, <3>3, <3>4 DEF Numbers, IInv, CallerTypes
    <2> QED
      BY <2>1 DEF OwnThreadnr
  <1> QED
    BY <1>1, Invariance, PTL

\* A worker that is late from one call does not carry its nb_jobs and
\* nb_active_threads into the next (slicethread.c:55).
THEOREM LocalsStayCurrent == Spec => []LocalsCurrent
  <1>1. IInv => LocalsCurrent
    BY DEF IInv
  <1> QED
    BY <1>1, Invariance, PTL

=============================================================================
