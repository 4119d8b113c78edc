---------------------------- MODULE MC_TimeLoop ----------------------------
(* The step is that of the slower process, and shrinks on the way.         *)
EXTENDS TimeLoop

const_CflStep(p, t) == IF t >= 8 \/ p = 1 THEN 8 ELSE 12
const_NoLimit == -1
=============================================================================
