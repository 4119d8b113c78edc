-------------------------- MODULE MC_RestartBundle --------------------------
(* One process with one block, one with two, and two with one or two.      *)
EXTENDS RestartBundle

const_Sizes == {<<1, 1>>, <<1, 2>>, <<2, 1>>, <<2, 2>>}
const_MaxLegs(s) == IF s = <<2, 2>> THEN 2 ELSE 3
=============================================================================
