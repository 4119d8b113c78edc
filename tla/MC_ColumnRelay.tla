-------------------------- MODULE MC_ColumnRelay --------------------------
(* ColumnRelay with the owners of the blocks written out.                 *)
EXTENDS ColumnRelay

const_OneProcess == [b \in Column |-> 0]

const_TwoProcesses == [b \in Column |-> IF b < 3 THEN 0 ELSE 1]

const_Alternating == [b \in Column |-> b % 2]
=============================================================================
