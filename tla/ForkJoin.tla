------------------------------ MODULE ForkJoin ------------------------------
(***************************************************************************)
(* What MeshImpl::run_block_jobs promises its caller: a fork-join round.   *)
(* The caller opens a round, every worker completes it exactly once, some  *)
(* of them with an exception, and the caller gets control back only when   *)
(* all have completed, with an exception exactly when one was raised in    *)
(* this very round.  BlockWorkerPool implements it.                        *)
(***************************************************************************)
EXTENDS Integers, FiniteSets

CONSTANTS Workers,   \* the block worker threads of one process
          MaxJobs,   \* bound on the number of rounds
          NoError    \* the null exception pointer

VARIABLES phase,     \* "idle", "open" or "closed"
          round,     \* number of rounds opened so far
          done,      \* workers that completed the current round
          failed,    \* those of them that completed it with an exception
          thrown     \* the exception of the last round, or NoError

vars == <<phase, round, done, failed, thrown>>

Init == /\ phase = "idle"
        /\ round = 0
        /\ done = Workers
        /\ failed = {}
        /\ thrown = NoError

Open == /\ phase = "idle"
        /\ round < MaxJobs
        /\ phase' = "open"
        /\ round' = round + 1
        /\ done' = {}
        /\ failed' = {}
        /\ UNCHANGED thrown

Complete(w) == /\ phase = "open"
               /\ w \notin done
               /\ done' = done \cup {w}
               /\ failed' \in {failed, failed \cup {w}}
               /\ UNCHANGED <<phase, round, thrown>>

Return == /\ phase = "open"
          /\ done = Workers
          /\ phase' = "idle"
          /\ IF failed = {} THEN thrown' = NoError
                            ELSE \E w \in failed : thrown' = <<round, w>>
          /\ UNCHANGED <<round, done, failed>>

Close == /\ phase = "idle"
         /\ phase' = "closed"
         /\ UNCHANGED <<round, done, failed, thrown>>

Next == Open \/ (\E w \in Workers : Complete(w)) \/ Return \/ Close

Spec == /\ Init /\ [][Next]_vars
        /\ WF_vars(\E w \in Workers : Complete(w)) /\ WF_vars(Return)
=============================================================================
