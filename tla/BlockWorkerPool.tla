-------------------------- MODULE BlockWorkerPool --------------------------
(***************************************************************************)
(* MeshImpl::BlockWorkerPool (src/mesh/mesh.cpp): one thread per MeshBlock *)
(* and the thread that calls submit and, from the destructor, stop.        *)
(*                                                                         *)
(* Every critical section of mutex_ is one action.  A condition variable   *)
(* is a state of its waiters: a thread whose predicate is false goes to    *)
(* "asleep" in the step that releases the mutex and leaves it only by a    *)
(* notification or a spurious wakeup, after which it tests its predicate   *)
(* again; a notification sent before a thread sleeps does not wake it.     *)
(***************************************************************************)
EXTENDS Integers, FiniteSets

CONSTANTS Workers,   \* the worker threads, one per MeshBlock of the process
          MaxJobs,   \* bound on the calls of submit
          NoError    \* the null exception pointer

ASSUME PoolAssumption == /\ IsFiniteSet(Workers)
                         /\ Workers # {}
                         /\ MaxJobs \in Nat
                         /\ NoError \notin Nat \X Workers

VARIABLES stopping, generation, remaining,   \* the members of the pool
          func,       \* func_: a job is named by the call of submit that set it
          error,      \* error_: the exception of a job and of a worker
          cpc,        \* where the caller is in submit or stop
          wpc,        \* where each worker is in run_loop
          seen,       \* seen_generation of each worker
          task,       \* each worker's copy of func_
          calls,      \* number of calls of submit
          thrown,     \* what the last submit rethrew
          ran,        \* history: how many jobs each worker has executed
          threw       \* history: the (job, worker) pairs that raised

pool == <<stopping, generation, remaining, func, error>>
poolVars == <<pool, cpc, wpc, seen, task, calls, thrown, ran, threw>>

PoolInit == /\ stopping = FALSE
            /\ generation = 0
            /\ remaining = Cardinality(Workers)
            /\ func = 0
            /\ error = NoError
            /\ cpc = "idle"
            /\ wpc = [w \in Workers |-> "test"]
            /\ seen = [w \in Workers |-> 0]
            /\ task = [w \in Workers |-> 0]
            /\ calls = 0
            /\ thrown = NoError
            /\ ran = [w \in Workers |-> 0]
            /\ threw = {}

(* The parts of submit and run_loop that the whole protocol rests on, each *)
(* preceded by faulty variants that the properties below tell apart.       *)

NoneWoken == wpc

\* notify_all on cv_: every sleeping worker tests its predicate again.
Woken == [w \in Workers |-> IF wpc[w] = "asleep" THEN "test" ELSE wpc[w]]

CountNotReset == remaining
CountOneShort == Cardinality(Workers) - 1

\* What submit expects: one completion per worker.
Count == Cardinality(Workers)

AlwaysNew(w) == TRUE

\* The generation tells a worker that the job is not the one it has run.
NewJob(w) == generation # seen[w]

LastError(e) == e
Swallowed(e) == error

\* The handler of run_loop keeps the first exception of the job.
FirstError(e) == IF error = NoError THEN e ELSE error

-----------------------------------------------------------------------------
(* The caller: submit                                                      *)

Submit == /\ cpc = "idle"
          /\ calls < MaxJobs
          /\ ~stopping
          /\ calls' = calls + 1
          /\ func' = calls + 1
          /\ error' = NoError
          /\ remaining' = Count
          /\ generation' = generation + 1
          /\ cpc' = "notify"
          /\ UNCHANGED <<stopping, wpc, seen, task, thrown, ran, threw>>

NotifyJob == /\ cpc = "notify"
             /\ wpc' = Woken
             /\ cpc' = "await"
             /\ UNCHANGED <<pool, seen, task, calls, thrown, ran, threw>>

SleepUntilDone == /\ cpc = "await"
                  /\ remaining # 0
                  /\ cpc' = "asleep"
                  /\ UNCHANGED <<pool, wpc, seen, task, calls, thrown, ran, threw>>

\* The predicate holds: return, or take the exception out of the pool and
\* rethrow it, under the same lock.
Return == /\ cpc = "await"
          /\ remaining = 0
          /\ thrown' = error
          /\ error' = NoError
          /\ cpc' = "idle"
          /\ UNCHANGED <<stopping, generation, remaining, func,
                         wpc, seen, task, calls, ran, threw>>

-----------------------------------------------------------------------------
(* The caller: stop, called by the destructor                              *)

Stop == /\ cpc = "idle"
        /\ ~stopping
        /\ stopping' = TRUE
        /\ cpc' = "stopping"
        /\ UNCHANGED <<generation, remaining, func, error,
                       wpc, seen, task, calls, thrown, ran, threw>>

NotifyStop == /\ cpc = "stopping"
              /\ wpc' = Woken
              /\ cpc' = "join"
              /\ UNCHANGED <<pool, seen, task, calls, thrown, ran, threw>>

Join == /\ cpc = "join"
        /\ \A w \in Workers : wpc[w] = "exit"
        /\ cpc' = "joined"
        /\ UNCHANGED <<pool, wpc, seen, task, calls, thrown, ran, threw>>

-----------------------------------------------------------------------------
(* A worker: run_loop                                                      *)

Move(w, from, to) == /\ wpc[w] = from
                     /\ wpc' = [wpc EXCEPT ![w] = to]

Sleep(w) == /\ Move(w, "test", "asleep")
            /\ ~stopping
            /\ ~NewJob(w)
            /\ UNCHANGED <<pool, cpc, seen, task, calls, thrown, ran, threw>>

Exit(w) == /\ Move(w, "test", "exit")
           /\ stopping
           /\ UNCHANGED <<pool, cpc, seen, task, calls, thrown, ran, threw>>

Take(w) == /\ Move(w, "test", "run")
           /\ ~stopping
           /\ NewJob(w)
           /\ seen' = [seen EXCEPT ![w] = generation]
           /\ task' = [task EXCEPT ![w] = func]
           /\ UNCHANGED <<pool, cpc, calls, thrown, ran, threw>>

\* func(index) returns.
Succeed(w) == /\ Move(w, "run", "finish")
              /\ ran' = [ran EXCEPT ![w] = @ + 1]
              /\ UNCHANGED <<pool, cpc, seen, task, calls, thrown, threw>>

\* func(index) throws.
Raise(w) == /\ Move(w, "run", "catch")
            /\ ran' = [ran EXCEPT ![w] = @ + 1]
            /\ threw' = threw \cup {<<task[w], w>>}
            /\ UNCHANGED <<pool, cpc, seen, task, calls, thrown>>

Catch(w) == /\ Move(w, "catch", "finish")
            /\ error' = FirstError(<<task[w], w>>)
            /\ UNCHANGED <<stopping, generation, remaining, func,
                           cpc, seen, task, calls, thrown, ran, threw>>

\* The last worker to finish notifies done_cv_.
Finish(w) == /\ Move(w, "finish", "test")
             /\ remaining' = remaining - 1
             /\ cpc' = IF remaining' = 0 /\ cpc = "asleep" THEN "await" ELSE cpc
             /\ UNCHANGED <<stopping, generation, func, error,
                            seen, task, calls, thrown, ran, threw>>

-----------------------------------------------------------------------------
\* A condition variable may wake a waiter that nobody notified.
SpuriousWakeup ==
  /\ \/ /\ cpc = "asleep"
        /\ cpc' = "await"
        /\ UNCHANGED wpc
     \/ /\ \E w \in Workers : Move(w, "asleep", "test")
        /\ UNCHANGED cpc
  /\ UNCHANGED <<pool, seen, task, calls, thrown, ran, threw>>

\* The pool is destroyed: nothing happens any more.
Destroyed == cpc = "joined" /\ UNCHANGED poolVars

CallerStep == NotifyJob \/ SleepUntilDone \/ Return \/ NotifyStop \/ Join

WorkerStep(w) == \/ Sleep(w) \/ Exit(w) \/ Take(w)
                 \/ Succeed(w) \/ Raise(w) \/ Catch(w) \/ Finish(w)

PoolNext == \/ Submit \/ Stop \/ CallerStep
            \/ \E w \in Workers : WorkerStep(w)
            \/ SpuriousWakeup
            \/ Destroyed

\* A runnable thread is eventually scheduled, and a job returns or throws.
\* No fairness on Submit and Stop (the program decides) nor on wakeups that
\* nobody asked for.
PoolFairness == /\ WF_poolVars(CallerStep)
                /\ \A w \in Workers : WF_poolVars(WorkerStep(w))

PoolSpec == PoolInit /\ [][PoolNext]_poolVars /\ PoolFairness

-----------------------------------------------------------------------------
PoolTypeOK == /\ stopping \in BOOLEAN
              /\ generation \in Nat
              /\ remaining \in 0..Cardinality(Workers)
              /\ func \in Nat
              /\ error \in (Nat \X Workers) \cup {NoError}
              /\ cpc \in {"idle", "notify", "await", "asleep",
                          "stopping", "join", "joined"}
              /\ wpc \in [Workers -> {"test", "asleep", "run", "catch", "finish", "exit"}]
              /\ seen \in [Workers -> Nat]
              /\ task \in [Workers -> Nat]
              /\ calls \in Nat
              /\ thrown \in (Nat \X Workers) \cup {NoError}
              /\ ran \in [Workers -> Nat]
              /\ threw \subseteq Nat \X Workers

Busy == {"run", "catch", "finish"}

\* When submit is not in progress, every worker has executed every job that
\* was ever submitted exactly once and none is still inside one: the caller
\* may touch what the jobs touched (Mesh::forward reads the blocks between two
\* run_block_jobs).
JoinedWhenIdle ==
  cpc \notin {"notify", "await", "asleep"} =>
     \A w \in Workers : wpc[w] \notin Busy /\ ran[w] = calls

\* A worker never executes a job other than the one its caller is waiting for,
\* and never the same one twice.
OnlyTheCurrentJob ==
  \A w \in Workers :
     wpc[w] \in Busy => /\ task[w] = calls
                        /\ ran[w] = IF wpc[w] = "run" THEN calls - 1 ELSE calls

\* submit throws exactly when a worker raised in this job, and what it throws
\* was raised in this job: an exception of an earlier job is never reported
\* again and none is swallowed.
ErrorsReachTheCaller ==
  cpc = "idle" =>
     IF \E w \in Workers : <<calls, w>> \in threw
     THEN \E w \in Workers : <<calls, w>> \in threw /\ thrown = <<calls, w>>
     ELSE thrown = NoError

\* A second exception of a job never replaces the first: only the caller
\* takes an exception out of the pool.
FirstErrorKept ==
  [][error # NoError => \/ error' = error
                        \/ error' = NoError /\ cpc = "await" /\ cpc' = "idle"]_poolVars

\* Whatever the workers raise, submit returns to its caller, and the destructor
\* joins every worker.
CallerReturns == /\ cpc = "notify" ~> cpc = "idle"
                 /\ cpc = "stopping" ~> cpc = "joined"

-----------------------------------------------------------------------------
(* The pool implements a fork-join round.                                  *)

Completed == {w \in Workers : seen[w] = generation /\ wpc[w] \notin Busy}

FJ == INSTANCE ForkJoin WITH
        phase  <- IF cpc = "idle" THEN "idle"
                  ELSE IF cpc \in {"notify", "await", "asleep"} THEN "open"
                  ELSE "closed",
        round  <- calls,
        done   <- Completed,
        failed <- {w \in Completed : <<calls, w>> \in threw}

\* Every behaviour of the pool is one of the fork-join specification, fairness
\* included.
ImplementsForkJoin == FJ!Spec
=============================================================================
