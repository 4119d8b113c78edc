------------------------ MODULE MC_BlockWorkerPool ------------------------
(* BlockWorkerPool with three workers and two jobs.                        *)
EXTENDS BlockWorkerPool

CONSTANTS w1, w2, w3
=============================================================================
