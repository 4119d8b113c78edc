------------------------------ MODULE TimeLoop ------------------------------
(***************************************************************************)
(* The time loop of a run over several processes (examples/straka.cpp,     *)
(* Mesh and MeshBlock in src/mesh/): choose a step, advance the blocks,    *)
(* decide together whether the step is kept or redone with half of it,     *)
(* write the outputs, and leave the loop on a limit, on a signal or when   *)
(* the redo budget is spent.                                               *)
(*                                                                         *)
(* Each process runs the loop on its own; they meet in the collective      *)
(* operations of the process group, which pair calls by their order and    *)
(* not by their purpose.  The state of a block is the time it has been     *)
(* advanced to and the stages of the current step on top of it.            *)
(***************************************************************************)
EXTENDS Integers, FiniteSetsExt

CONSTANTS Processes,
          Blocks,         \* the numbers of blocks per process to look at
          NStages,        \* pintg->stages.size()
          MaxRedo,        \* max_redo
          nlim, tlim,     \* limits of cycles and of time
          ncycle_out,     \* cycles between diagnostics, 0 for never
          OutputDt,       \* time between restart files
          CflStep(_, _),  \* CflStep(p, t): cfl * local_max_time_step at time t
          GravityFixer,   \* gravity_work_fixer()
          ChecksSignals,  \* Mesh::check_redo (MeshBlock::check_redo: FALSE)
          MayHit,         \* processes whose blocks may break a step
          MaySignal,      \* processes that may get a signal
          SuperResolution \* some output has super-resolution

ASSUME TimeLoopAssumption ==
  /\ Blocks \subseteq Nat \ {0} /\ NStages \in Nat \ {0} /\ MaxRedo \in Nat
  /\ nlim \in Int /\ tlim \in Nat /\ ncycle_out \in Nat
  /\ OutputDt \in Nat \ {0}
  /\ GravityFixer \in BOOLEAN /\ ChecksSignals \in BOOLEAN
  /\ SuperResolution \in BOOLEAN
  /\ MayHit \subseteq Processes /\ MaySignal \subseteq Processes
  /\ \A p \in Processes, t \in 0..tlim : CflStep(p, t) \in Nat \ {0}

VARIABLES pc,          \* where each process is
          offer,       \* what each process has put in a collective, or NoOffer
          answer,      \* the result of the last collective
          cycle, time, dt, stage,  \* variables of the loop of each process
          block,       \* block[p][i]: a MeshBlock
          hits,        \* what broke the current step on each process
          sig,         \* a signal flag is up
          handler,     \* there is an instance of SignalHandler
          heard,       \* the flag was up when check_redo was called (history)
          next_time,   \* when the next restart file is due
          file,        \* the last restart file of each process
          status       \* what finalize returns

loop == <<cycle, time, dt, stage>>
signals == <<sig, handler, heard>>
vars == <<pc, offer, answer, loop, block, hits, signals, next_time, file,
          status>>

NoOffer == [op |-> "none", value |-> 0]
NoFile(n) == [time |-> 0, states |-> [i \in 1..n |-> <<0, 0>>]]

Local(p) == DOMAIN block[p]

Fresh == [cycle |-> 0, redo |-> 0, u |-> <<0, 0>>, u0 |-> <<0, 0>>,
          fixed |-> 0, pending |-> 0]

Init == /\ pc = [p \in Processes |-> "output"]
        /\ offer = [p \in Processes |-> NoOffer] /\ answer = 0
        /\ cycle = [p \in Processes |-> 0] /\ time = [p \in Processes |-> 0]
        /\ dt = [p \in Processes |-> 0] /\ stage = [p \in Processes |-> 0]
        /\ hits = [p \in Processes |-> {}]
        /\ sig = [p \in Processes |-> FALSE]
        /\ handler = [p \in Processes |-> TRUE]
        /\ heard = [p \in Processes |-> FALSE]
        /\ next_time = [p \in Processes |-> 0]
        /\ \E n \in Blocks :
             /\ block = [p \in Processes |-> [i \in 1..n |-> Fresh]]
             /\ file = [p \in Processes |-> NoFile(n)]
        /\ status = [p \in Processes |-> 0]

----------------------------------------------------------------------------
(* Collective operations: all processes call, then all go on.              *)

Go(p, from, to) == pc[p] = from /\ pc' = [pc EXCEPT ![p] = to]

Enter(p, from, op, value) ==
  /\ Go(p, from, op)
  /\ offer' = [offer EXCEPT ![p] = [op |-> op, value |-> value]]

\* p is back from the collective that it entered as op.
Back(p, op, to) == offer[p] = NoOffer /\ Go(p, op, to)

Values == {offer[p].value : p \in Processes}

\* MIN for the step; MAX, or a sum of which only "any" matters, elsewhere.
Collect ==
  /\ \A p \in Processes : offer[p] # NoOffer
  /\ answer' = IF \E p \in Processes : offer[p].op = "dt"
               THEN Min(Values) ELSE Max(Values)
  /\ offer' = [p \in Processes |-> NoOffer]
  /\ UNCHANGED <<pc, loop, block, hits, signals, next_time, file, status>>

Asks(b) == IF b THEN 1 ELSE 0

----------------------------------------------------------------------------
(* One step.                                                               *)

stop(p) == (nlim >= 0 /\ cycle[p] >= nlim) \/ time[p] >= tlim

LeaveLoop(p) ==
  /\ stop(p) /\ Go(p, "head", "finalize")
  /\ UNCHANGED <<offer, answer, loop, block, hits, signals, next_time, file,
                 status>>

\* ++cycle, set_cycle and max_time_step up to its reduction.
StartCycle(p) ==
  /\ ~stop(p)
  /\ cycle' = [cycle EXCEPT ![p] = @ + 1]
  /\ block' = [block EXCEPT ![p] = [i \in Local(p) |->
                 [@[i] EXCEPT !.cycle = cycle[p] + 1]]]
  /\ Enter(p, "head", "dt",
           Min({CflStep(p, block[p][i].u[1]) : i \in Local(p)}))
  /\ UNCHANGED <<answer, time, dt, stage, hits, signals, next_time, file,
                 status>>

Scaled(p) == answer \div 2^block[p][1].redo

DiagnosticsDue(p) == ncycle_out # 0 /\ block[p][1].cycle % ncycle_out = 0

ChooseStep(p) ==
  /\ dt' = [dt EXCEPT ![p] = Scaled(p)]
  /\ stage' = [stage EXCEPT ![p] = 0]
  /\ Back(p, "dt", IF DiagnosticsDue(p) THEN "print" ELSE "stage")
  /\ UNCHANGED <<offer, answer, cycle, time, block, hits, signals, next_time,
                 file, status>>

PrintCycle(p) ==
  /\ Enter(p, "print", "diagnostics", 0)
  /\ UNCHANGED <<answer, loop, block, hits, signals, next_time, file, status>>

Printed(p) ==
  /\ Back(p, "diagnostics", "stage")
  /\ UNCHANGED <<offer, answer, loop, block, hits, signals, next_time, file,
                 status>>

LastStage(p) == stage[p] = NStages - 1

\* Stage 0 saves the state and commits what an accepted step left pending.
Saved(b) == [b EXCEPT !.u0 = b.u, !.fixed = b.fixed + b.pending,
                      !.pending = 0]

Advanced(p, b) == [b EXCEPT !.u = IF LastStage(p) THEN <<b.u[1] + dt[p], 0>>
                                  ELSE <<b.u[1], b.u[2] + 1>>]

Breaks(p) == IF p \in MayHit THEN {{}, {"floor"}, {"limiter"}} ELSE {{}}

\* The work of one stage; the ghost exchange that ends it is GhostExchange.
Forward(p) ==
  /\ block' = [block EXCEPT ![p] = [i \in Local(p) |->
                 Advanced(p, IF stage[p] = 0 THEN Saved(@[i]) ELSE @[i])]]
  /\ IF LastStage(p)
     THEN /\ hits' \in {[hits EXCEPT ![p] = h] : h \in Breaks(p)}
          /\ IF GravityFixer
             THEN Enter(p, "stage", "fixer", Asks("limiter" \in hits'[p]))
             ELSE Go(p, "stage", "check") /\ UNCHANGED offer
          /\ UNCHANGED stage
     ELSE /\ stage' = [stage EXCEPT ![p] = @ + 1]
          /\ pc[p] = "stage" /\ UNCHANGED <<pc, hits, offer>>
  /\ UNCHANGED <<answer, cycle, time, dt, signals, next_time, file, status>>

\* A step that the redo check will discard is not corrected.
Corrected(b) == [b EXCEPT !.pending = @ + Asks(answer = 0)]

FixGravity(p) ==
  /\ Back(p, "fixer", "check")
  /\ block' = [block EXCEPT ![p] = [i \in Local(p) |-> Corrected(@[i])]]
  /\ UNCHANGED <<offer, answer, loop, hits, signals, next_time, file, status>>

----------------------------------------------------------------------------
(* check_redo                                                              *)

\* The constructor of SignalHandler clears the flags, although they are static
\* and its functions have stayed installed after the destructor.
Flag(p) == sig[p] /\ handler[p]

GetInstance(p) == /\ sig' = [sig EXCEPT ![p] = Flag(p)]
                  /\ handler' = [handler EXCEPT ![p] = TRUE]

AskRedo(p, from) == Enter(p, from, "redo", Asks(hits[p] # {}))

CheckRedo(p) ==
  /\ IF ChecksSignals
     THEN /\ GetInstance(p)
          /\ heard' = [heard EXCEPT ![p] = Flag(p)]
          /\ Enter(p, "check", "signal", Asks(Flag(p)))
     ELSE AskRedo(p, "check") /\ UNCHANGED <<signals>>
  /\ UNCHANGED <<answer, loop, block, hits, next_time, file, status>>

\* Wrong: only the flags of this process.
OwnSignal(p) == sig[p]
Signalled(p) == answer > 0

NoSignal(p) ==
  /\ offer[p] = NoOffer /\ ~Signalled(p) /\ AskRedo(p, "signal")
  /\ UNCHANGED <<answer, loop, block, hits, signals, next_time, file, status>>

SomeSignal(p) ==
  /\ Signalled(p) /\ Back(p, "signal", "finalize")
  /\ UNCHANGED <<offer, answer, loop, block, hits, signals, next_time, file,
                 status>>

\* What apply_redo leaves of a block: kept, rolled back or out of budget.
Kept(b) == [b EXCEPT !.redo = 0, !.fixed = b.fixed + b.pending, !.pending = 0]
\* Wrong: the fixer's energy stays pending; the redo is not counted.
KeptPending(b) == [b EXCEPT !.redo = @ + 1, !.u = b.u0, !.cycle = @ - 1]
Uncounted(b) == [b EXCEPT !.pending = 0, !.u = b.u0, !.cycle = @ - 1]
RolledBack(b) == [b EXCEPT !.redo = @ + 1, !.pending = 0, !.u = b.u0,
                           !.cycle = @ - 1]
Exhausted(b) == [b EXCEPT !.redo = @ + 1]

OutOfBudget(p) == {i \in Local(p) : block[p][i].redo + 1 > MaxRedo}

\* Wrong: only what happened on this process.
OwnCauses(p) == hits[p] # {}
Causes(p) == answer > 0

Accept(p) ==
  /\ ~Causes(p) /\ Back(p, "redo", "output")
  /\ block' = [block EXCEPT ![p] = [i \in Local(p) |-> Kept(@[i])]]
  /\ time' = [time EXCEPT ![p] = @ + dt[p]]
  /\ UNCHANGED <<offer, answer, cycle, dt, stage, hits, signals, next_time,
                 file, status>>

Redo(p) ==
  /\ Causes(p) /\ OutOfBudget(p) = {} /\ Back(p, "redo", "head")
  /\ block' = [block EXCEPT ![p] = [i \in Local(p) |-> RolledBack(@[i])]]
  /\ cycle' = [cycle EXCEPT ![p] = block'[p][1].cycle]
  /\ UNCHANGED <<offer, answer, time, dt, stage, hits, signals, next_time,
                 file, status>>

\* The blocks after the first one out of budget are not touched.
GiveUp(p) ==
  /\ Causes(p) /\ OutOfBudget(p) # {} /\ Back(p, "redo", "finalize")
  /\ LET first == Min(OutOfBudget(p)) IN
     block' = [block EXCEPT ![p] = [i \in Local(p) |->
                 IF i < first THEN RolledBack(@[i])
                 ELSE IF i = first THEN Exhausted(@[i]) ELSE @[i]]]
  /\ UNCHANGED <<offer, answer, loop, hits, signals, next_time, file, status>>

----------------------------------------------------------------------------
(* Outputs: the processes write their parts, the root bundles them between *)
(* two barriers.                                                           *)

Written(p) == [time |-> time[p],
               states |-> [i \in Local(p) |-> block[p][i].u]]

\* An output with super-resolution makes a MeshBlock of twice the cells; its
\* destructor destroys the signal handler of the process.  A process of
\* several blocks can only do this at the end: it also loses an entry of its
\* registry of layouts, and no exchange completes after that (LocalExchange).
WriteSuperResolution(p) ==
  /\ SuperResolution /\ handler[p]
  /\ \/ pc[p] = "output" /\ Local(p) = {1}
     \/ pc[p] = "finalize"
  /\ handler' = [handler EXCEPT ![p] = FALSE]
  /\ UNCHANGED <<pc, offer, answer, loop, block, hits, sig, heard, next_time,
                 file, status>>

RestartDue(p) == time[p] >= next_time[p]

NothingDue(p) ==
  /\ ~RestartDue(p) /\ Go(p, "output", "head")
  /\ UNCHANGED <<offer, answer, loop, block, hits, signals, next_time, file,
                 status>>

WriteRestart(p) ==
  /\ RestartDue(p) /\ Enter(p, "output", "parts", 0)
  /\ file' = [file EXCEPT ![p] = Written(p)]
  /\ UNCHANGED <<answer, loop, block, hits, signals, next_time, status>>

Bundle(p) ==
  /\ offer[p] = NoOffer /\ Enter(p, "parts", "bundle", 0)
  /\ UNCHANGED <<answer, loop, block, hits, signals, next_time, file, status>>

Released(p) ==
  /\ Back(p, "bundle", "head")
  /\ next_time' = [next_time EXCEPT ![p] = @ + OutputDt]
  /\ UNCHANGED <<offer, answer, loop, block, hits, signals, file, status>>

----------------------------------------------------------------------------
(* finalize                                                                *)

WriteFinal(p) ==
  /\ Enter(p, "finalize", "final_parts", 0)
  /\ file' = [file EXCEPT ![p] = Written(p)]
  /\ UNCHANGED <<answer, loop, block, hits, signals, next_time, status>>

BundleFinal(p) ==
  /\ offer[p] = NoOffer /\ Enter(p, "final_parts", "final_bundle", 0)
  /\ UNCHANGED <<answer, loop, block, hits, signals, next_time, file, status>>

\* The reason for the end is guessed from the flags and the limits.
Report(p) ==
  /\ Back(p, "final_bundle", "leave") /\ GetInstance(p)
  /\ status' = [status EXCEPT ![p] =
       IF \/ Flag(p) \/ time[p] >= tlim
          \/ nlim >= 0 /\ block[p][1].cycle >= nlim
       THEN 0 ELSE 1]
  /\ UNCHANGED <<offer, answer, loop, block, hits, heard, next_time, file>>

\* In MeshBlock::finalize a sum of the cells comes first; both count as one.
LastBarrier(p) ==
  /\ Enter(p, "leave", "barrier", 0)
  /\ UNCHANGED <<answer, loop, block, hits, signals, next_time, file, status>>

Shutdown(p) ==
  /\ Back(p, "barrier", "done")
  /\ UNCHANGED <<offer, answer, loop, block, hits, signals, next_time, file,
                 status>>

\* The environment: SIGTERM, SIGINT or SIGALRM.
SetSignalFlag(p) ==
  /\ p \in MaySignal /\ ~sig[p] /\ pc[p] # "done"
  /\ sig' = [sig EXCEPT ![p] = TRUE]
  /\ UNCHANGED <<pc, offer, answer, loop, block, hits, handler, heard,
                 next_time, file, status>>

Step(p) ==
  \/ LeaveLoop(p) \/ StartCycle(p) \/ ChooseStep(p) \/ PrintCycle(p)
  \/ Printed(p) \/ Forward(p) \/ FixGravity(p) \/ CheckRedo(p) \/ NoSignal(p)
  \/ SomeSignal(p) \/ Accept(p) \/ Redo(p) \/ GiveUp(p) \/ NothingDue(p)
  \/ WriteSuperResolution(p) \/ WriteRestart(p) \/ Bundle(p) \/ Released(p)
  \/ WriteFinal(p) \/ BundleFinal(p) \/ Report(p) \/ LastBarrier(p)
  \/ Shutdown(p)

Done == (\A p \in Processes : pc[p] = "done") /\ UNCHANGED vars

Next == Collect \/ Done \/ \E p \in Processes : Step(p) \/ SetSignalFlag(p)

Fairness == WF_vars(Collect) /\ \A p \in Processes : WF_vars(Step(p))

Spec == Init /\ [][Next]_vars /\ Fairness

----------------------------------------------------------------------------
(* Properties.                                                             *)

\* dt is one number for the whole run, so redo has to be one decision for
\* the whole run (tests/test_check_redo_parallel.cpp): processes that wait
\* in a collective wait in the same one, in the same cycle at the same time
\* with the same number of redos behind them; and none waits for a process
\* that has left.
OneDecision ==
  \A p, q \in Processes : offer[p] # NoOffer =>
    /\ pc[q] # "done"
    /\ offer[q] # NoOffer =>
         /\ offer[p].op = offer[q].op
         /\ cycle[p] = cycle[q] /\ time[p] = time[q]
         /\ block[p][1].redo = block[q][1].redo

\* Between two steps, after whatever rejected steps, every block has been
\* advanced by exactly the time that has passed, counts the accepted steps
\* and has counted the fixer's energy once for each of them.
BooksBalance ==
  \A p \in Processes : pc[p] = "head" => \A i \in Local(p) :
    LET b == block[p][i] IN
    /\ b.u = <<time[p], 0>> /\ b.cycle = cycle[p]
    /\ GravityFixer => b.fixed + b.pending = cycle[p]

\* A signal that some process has when it checks the step ends the run: no
\* process starts another cycle.
SignalStopsTheRun ==
  \A p, q \in Processes :
    heard[p] /\ pc[p] \notin {"signal", "redo"} => pc[q] # "head"

\* Every run ends, on every process.
EveryRunEnds == <>(\A p \in Processes : pc[p] = "done")

\* finalize returns 1 only "if the run terminated abnormally" (meshblock.hpp):
\* not when it ends on a limit or on a signal.
NormalEndIsReported ==
  \A p \in Processes :
    pc[p] = "done" /\ block[p][1].redo <= MaxRedo => status[p] = 0

\* What is stored as "last time" (restart.cpp) is the time of the state that
\* is stored with it.
FilesHoldTheirTime ==
  \A p \in Processes : \A i \in Local(p) :
    file[p].states[i] = <<file[p].time, 0>>
=============================================================================
