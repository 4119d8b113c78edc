---------------------------- MODULE RestartBundle ----------------------------
(***************************************************************************)
(* How the blocks of a run become one restart file, and a restart file     *)
(* blocks again, with crashes in between (src/output/restart.cpp,          *)
(* combine_restart.cpp, src/input/read_restart_file.cpp; the calls are     *)
(* MeshImpl::make_outputs and MeshBlockImpl::_init_from_restart).          *)
(*                                                                         *)
(* Every process writes the parts of its blocks, one after the other.      *)
(* With the last one it enters a barrier; then the root gathers whatever   *)
(* parts of this name are on disk into the bundle, while the others wait   *)
(* in a second barrier.  A barrier pairs calls by their order, not by the  *)
(* place they are made from.  A process that throws is lost, and the       *)
(* launcher then stops the others.  There is one output a step here, so    *)
(* that its file number is its time.  The netcdf files of a run are combined *)
(* along the same lines (combine_netcdf.cpp).                              *)
(***************************************************************************)
EXTENDS Integers, FiniteSetsExt

CONSTANTS Sizes,       \* <<processes, blocks_per_process>> of a run
          MaxTime,     \* bound on the time
          MaxLegs(_),  \* bound on the legs of a run of that size
          MaxFaults    \* bound on the writes that fail

ASSUME BundleAssumption ==
  /\ Sizes \subseteq (Nat \ {0}) \X (Nat \ {0})
  /\ MaxTime \in Nat /\ MaxFaults \in Nat
  /\ \A s \in Sizes : MaxLegs(s) \in Nat

VARIABLES size,     \* processes and blocks of the run
          leg,      \* how many legs have been started
          faults,   \* writes that failed
          pc,       \* where each process is
          blk,      \* the block whose turn it is in make_outputs
          count,    \* combine_counts of each process, for the current key
          name,     \* file_number, or Final, of the output being made
          time,     \* the time that the blocks of each process are at
          list,     \* file_list of the root
          threw,    \* the root failed to bundle, and will throw
          parts,    \* the part files on disk
          bundles,  \* the restart files on disk
          held      \* names of restart files this leg started from or completed (history)

memory == <<pc, blk, count, name, time, list, threw>>
disk == <<parts, bundles>>
vars == <<size, leg, faults, memory, disk, held>>

Final == -1          \* stands for "final" in a file name
Root == 0            \* process_root_rank

Processes == 0..(size[1] - 1)
BlocksPerProcess == size[2]
Ranks == 0..(size[1] * size[2] - 1)
RankOf(p, b) == p * BlocksPerProcess + b

Everyone(x) == [p \in Processes |-> x]

\* The directory may hold parts of a larger run that crashed.
Stale(s) == {[rank |-> s[1] * s[2], name |-> 0, time |-> 0,
              leg |-> 0, whole |-> w] : w \in BOOLEAN}

Init == /\ size \in Sizes /\ leg = 1 /\ faults = 0
        /\ pc = Everyone("write") /\ blk = Everyone(0) /\ count = Everyone(0)
        /\ name = Everyone(0) /\ time = Everyone(0)
        /\ list = {} /\ threw = FALSE
        /\ parts \in {{}} \cup {{f} : f \in Stale(size)}
        /\ bundles = {} /\ held = {}

Go(p, from, to) == pc[p] = from /\ pc' = [pc EXCEPT ![p] = to]

-----------------------------------------------------------------------------
(* RestartOutput::write_output_file                                        *)

PartOf(p, whole) == [rank |-> RankOf(p, blk[p]), name |-> name[p],
                     time |-> time[p], leg |-> leg, whole |-> whole]

SaveTensors(p, whole) ==
  parts' = {f \in parts : ~(f.rank = RankOf(p, blk[p]) /\ f.name = name[p])}
           \cup {PartOf(p, whole)}

OpenPart(p) ==
  /\ Go(p, "write", "save") /\ SaveTensors(p, FALSE)
  /\ UNCHANGED <<size, leg, faults, blk, count, name, time, list, threw,
                 bundles, held>>

\* The loop of make_outputs goes to the next block, or is done.
LastBlock(p) == blk[p] = BlocksPerProcess - 1
NextBlock(p) == IF LastBlock(p) THEN 0 ELSE blk[p] + 1
Return(p) == IF ~LastBlock(p) THEN "write"
             ELSE IF name[p] = Final THEN "exit" ELSE "step"

\* Wrong: the first block of two starts to combine.
ReadyTooSoon(p) == count[p] + 2 >= BlocksPerProcess

ReadyToCombine(p) == count[p] + 1 >= BlocksPerProcess

ClosePart(p) ==
  /\ SaveTensors(p, TRUE)
  /\ IF ReadyToCombine(p)
     THEN /\ Go(p, "save", "enter") /\ count' = [count EXCEPT ![p] = 0]
          /\ UNCHANGED blk
     ELSE /\ Go(p, "save", Return(p)) /\ count' = [count EXCEPT ![p] = @ + 1]
          /\ blk' = [blk EXCEPT ![p] = NextBlock(p)]
  /\ UNCHANGED <<size, leg, faults, name, time, list, threw, bundles, held>>

WriteFails(p) ==
  /\ faults < MaxFaults /\ faults' = faults + 1
  /\ Go(p, "save", "lost")
  /\ UNCHANGED <<size, leg, blk, count, name, time, list, threw, disk, held>>

-----------------------------------------------------------------------------
(* RestartOutput::combine_blocks                                           *)

Waiting == {"enter", "mirror", "step"}

\* Wrong: only the root comes to the mirror barrier.
RootOnly(p) == IF pc[p] = "enter" THEN IF p = Root THEN "combine" ELSE Return(p)
               ELSE IF threw /\ p = Root THEN "lost" ELSE Return(p)

\* Where a process goes from a barrier: into combine_blocks, or out of it.
Past(p) == IF pc[p] = "enter" THEN IF p = Root THEN "combine" ELSE "mirror"
           ELSE IF threw /\ p = Root THEN "lost" ELSE Return(p)

\* Wrong: nobody waits for the parts of the others.
PartsNotAwaited ==
  /\ \/ /\ \A p \in Processes : pc[p] \in Waiting
        /\ \E p \in Processes : pc[p] # "step"
        /\ pc' = [p \in Processes |-> Past(p)]
     \/ \E p \in Processes : /\ pc[p] = "enter"
                             /\ pc' = [pc EXCEPT ![p] = Past(p)]
  /\ blk' = [p \in Processes |->
               IF pc[p] = "mirror" /\ pc'[p] # "mirror" THEN NextBlock(p) ELSE blk[p]]
  /\ UNCHANGED <<size, leg, faults, count, name, time, list, threw, disk, held>>

Barrier ==
  /\ \A p \in Processes : pc[p] \in Waiting
  /\ \E p \in Processes : pc[p] # "step"
  /\ pc' = [p \in Processes |-> Past(p)]
  /\ blk' = [p \in Processes |-> IF pc[p] = "mirror" THEN NextBlock(p) ELSE blk[p]]
  /\ UNCHANGED <<size, leg, faults, count, name, time, list, threw, disk, held>>

\* glob, and remove the old file of this name.
Glob ==
  /\ Go(Root, "combine", "bundle")
  /\ list' = {f \in parts : f.name = name[Root]}
  /\ bundles' = {b \in bundles : b.name # name[Root]}
  /\ UNCHANGED <<size, leg, faults, blk, count, name, time, threw, parts, held>>

\* A restart file of one block is its part.
Rename ==
  /\ Cardinality(list) = 1
  /\ Go(Root, "bundle", "mirror")
  /\ bundles' = bundles \cup {[name |-> name[Root], entries |-> list, copied |-> list]}
  /\ parts' = parts \ list
  /\ held' = held \cup {name[Root]}
  /\ UNCHANGED <<size, leg, faults, blk, count, name, time, list, threw>>

\* make_restart_bundle: the index, then the parts one by one.
WriteIndex ==
  /\ Cardinality(list) > 1
  /\ Go(Root, "bundle", "copy")
  /\ bundles' = bundles \cup {[name |-> name[Root], entries |-> list, copied |-> {}]}
  /\ UNCHANGED <<size, leg, faults, blk, count, name, time, list, threw, parts,
                 held>>

CopyPart ==
  \E b \in bundles :
    /\ b.name = name[Root] /\ b.copied # b.entries
    /\ LET next == Min({f.rank : f \in b.entries \ b.copied})
           done == b.copied \cup {f \in b.entries : f.rank = next}
       IN /\ bundles' = (bundles \ {b}) \cup {[b EXCEPT !.copied = done]}
          /\ IF done = b.entries
             THEN Go(Root, "copy", "clean") /\ held' = held \cup {b.name}
             ELSE pc[Root] = "copy" /\ UNCHANGED <<pc, held>>
    /\ UNCHANGED <<size, leg, faults, blk, count, name, time, list, threw, parts>>

\* Wrong: the root throws before it has joined the mirror barrier; the failure is
\* not reported.
ThrowsAtOnce ==
  /\ faults < MaxFaults /\ faults' = faults + 1
  /\ pc[Root] \in {"bundle", "copy"}
  /\ pc' = [pc EXCEPT ![Root] = "lost"] /\ threw' = TRUE
  /\ UNCHANGED <<size, leg, blk, count, name, time, list, disk, held>>
Unreported ==
  /\ faults < MaxFaults /\ faults' = faults + 1
  /\ pc[Root] \in {"bundle", "copy"}
  /\ pc' = [pc EXCEPT ![Root] = "mirror"]
  /\ UNCHANGED <<size, leg, blk, count, name, time, list, threw, disk, held>>

BundleFails ==
  /\ faults < MaxFaults /\ faults' = faults + 1
  /\ pc[Root] \in {"bundle", "copy"}
  /\ pc' = [pc EXCEPT ![Root] = "mirror"] /\ threw' = TRUE
  /\ UNCHANGED <<size, leg, blk, count, name, time, list, disk, held>>

RemovePart ==
  /\ pc[Root] = "clean" /\ list \cap parts # {}
  /\ \E f \in list \cap parts : parts' = parts \ {f}
  /\ UNCHANGED <<size, leg, faults, memory, bundles, held>>

Cleaned ==
  /\ list \cap parts = {} /\ Go(Root, "clean", "mirror")
  /\ UNCHANGED <<size, leg, faults, blk, count, name, time, list, threw, disk,
                 held>>

-----------------------------------------------------------------------------
(* The run                                                                 *)

AllAt(place) == \A p \in Processes : pc[p] = place

\* The processes decide together (TimeLoop): one more step, or finalize.
Step ==
  /\ AllAt("step") /\ time[Root] < MaxTime
  /\ pc' = Everyone("write")
  /\ time' = [p \in Processes |-> time[p] + 1]
  /\ name' = time'
  /\ UNCHANGED <<size, leg, faults, blk, count, list, threw, disk, held>>

Finalize ==
  /\ AllAt("step")
  /\ pc' = Everyone("write") /\ name' = Everyone(Final)
  /\ UNCHANGED <<size, leg, faults, blk, count, time, list, threw, disk, held>>

\* All processes are gone: after finalize, in a crash, or stopped by the
\* launcher because one of them is lost.
Gone ==
  /\ pc' = Everyone("down")
  /\ blk' = Everyone(0) /\ count' = Everyone(0) /\ name' = Everyone(0)
  /\ time' = Everyone(0) /\ list' = {} /\ threw' = FALSE /\ held' = {}
  /\ UNCHANGED <<size, leg, faults, disk>>

Exit == AllAt("exit") /\ Gone
Stop == (\E p \in Processes : pc[p] = "lost") /\ Gone
Crash == ~AllAt("down") /\ leg < MaxLegs(size) /\ Gone

\* load_restart: rank r gets the part b has for it, if that is all there; a file of
\* one part is loaded by whoever asks.
Loaded(b, r) == {f \in b.copied : f.whole /\ (f.rank = r \/ Cardinality(b.entries) = 1)}

Complete(b) == \A r \in Ranks : Loaded(b, r) # {}

\* Each process loads the parts of its blocks and is at the time of the first one;
\* a numbered file is due again at once, the final one is not.
Resume(b) ==
  /\ AllAt("down") /\ leg < MaxLegs(size) /\ leg' = leg + 1
  /\ LET of(p) == {Loaded(b, RankOf(p, i)) : i \in 0..(BlocksPerProcess - 1)}
         place == IF b.name = Final THEN "step" ELSE "write"
     IN /\ pc' = [p \in Processes |-> IF {} \in of(p) THEN "lost" ELSE place]
        /\ time' = [p \in Processes |->
             IF {} \in of(p) THEN 0
             ELSE (CHOOSE f \in Loaded(b, RankOf(p, 0)) : TRUE).time]
  /\ name' = Everyone(b.name)
  /\ held' = {c.name : c \in {d \in bundles : Complete(d)}}
  /\ UNCHANGED <<size, faults, blk, count, list, threw, disk>>

Process(p) == OpenPart(p) \/ ClosePart(p)
RootSteps == Glob \/ Rename \/ WriteIndex \/ CopyPart \/ RemovePart \/ Cleaned

Next == \/ \E p \in Processes : Process(p) \/ WriteFails(p)
        \/ Barrier \/ RootSteps \/ BundleFails
        \/ Step \/ Finalize \/ Exit \/ Stop \/ Crash
        \/ \E b \in bundles : Resume(b)

\* A process goes on unless it waits for another; a lost one is noticed.
AnyProcess == UNION {0..(s[1] - 1) : s \in Sizes}

Fairness == /\ \A p \in AnyProcess : WF_vars(p \in Processes /\ Process(p))
            /\ WF_vars(Barrier) /\ WF_vars(RootSteps) /\ WF_vars(Stop)

Spec == Init /\ [][Next]_vars /\ Fairness
-----------------------------------------------------------------------------
\* A restart file that every rank accepts is one moment of one leg, whatever
\* crashes and leftover parts came before.
OneMoment ==
  \A b \in bundles : Complete(b) =>
    \A r, q \in Ranks : \A f \in Loaded(b, r), g \in Loaded(b, q) :
      f.time = g.time /\ f.leg = g.leg

\* tests/test_output_barrier.cpp: no process is back from make_outputs before
\* the file is complete and its parts are gone, unless the root throws.
Written(p) ==
  /\ \E b \in bundles :
       /\ b.name = name[p] /\ Complete(b)
       /\ \A r \in Ranks : \A f \in Loaded(b, r) : f.time = time[p]
  /\ \A f \in parts : f.name # name[p]

NobodyReturnsEarly ==
  \A p \in Processes :
    /\ ~threw
    /\ pc[p] = "exit" \/ (pc[p] = "step" /\ name[p] # Final)
    => Written(p)

\* A leg puts one restart file at risk at a time: of those that were complete
\* when it began, and those it completed, all but one are complete.
OneAtRisk ==
  Cardinality({n \in held : ~\E b \in bundles : b.name = n /\ Complete(b)}) <= 1

\* Processes meet in a barrier for the same file and from the same place, and a
\* root that throws leaves nobody behind in one.
Combining == {"enter", "combine", "bundle", "copy", "clean", "mirror"}

BarriersPair ==
  /\ (\A p \in Processes : pc[p] \in Waiting) =>
       \A p, q \in Processes : pc[p] = pc[q] /\ name[p] = name[q]
  /\ threw /\ pc[Root] = "lost" => \A p \in Processes : pc[p] \notin Combining

\* The two barriers around a bundle do their work, also when the root throws.
BarriersHold == NobodyReturnsEarly /\ BarriersPair

\* Once in combine_blocks a process leaves it: nothing in there waits for ever,
\* and a run that lost a process is stopped.
Combines(p) == p \in Processes /\ pc[p] \in Combining

EveryoneReturns == \A p \in AnyProcess : Combines(p) ~> ~Combines(p)
=============================================================================
