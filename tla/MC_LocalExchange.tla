------------------------- MODULE MC_LocalExchange -------------------------
(* LocalExchange with three blocks in a ring.                              *)
EXTENDS LocalExchange, TLC

CONSTANTS b1, b2, b3, intra, cross

\* A key is used twice in a row within a job, as two exchanges with the same
\* options are, and again in the next job.
const_Schedule == <<intra, intra, cross>>

const_Links == intra :> {<<b1, b2>>, <<b2, b1>>} @@ cross :> {<<b2, b3>>, <<b3, b1>>}
=============================================================================
