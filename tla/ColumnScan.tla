----------------------------- MODULE ColumnScan -----------------------------
(***************************************************************************)
(* What the well-balanced x1 reference of a column split into blocks       *)
(* promises: in every stage the blocks compute it from the top down, each  *)
(* from the one above, and then take the rows next to their seams from     *)
(* both neighbors.  ColumnRelay implements it.                             *)
(***************************************************************************)
EXTENDS Integers

CONSTANT pz              \* blocks of the column, 1 at the bottom

VARIABLES reference,     \* the stage of the reference that a block has
          complete       \* the last stage whose ghost rows it has, too

vars == <<reference, complete>>

Column == 1..pz

Seams(b) == {b - 1, b + 1} \cap Column

Init == /\ reference = [b \in Column |-> 0]
        /\ complete = [b \in Column |-> 0]

Refer(b) == /\ reference[b] = complete[b]
            /\ b < pz => reference[b + 1] = reference[b] + 1
            /\ reference' = [reference EXCEPT ![b] = @ + 1]
            /\ UNCHANGED complete

Complete(b) == /\ complete[b] < reference[b]
               /\ \A c \in Seams(b) : reference[c] >= reference[b]
               /\ complete' = [complete EXCEPT ![b] = reference[b]]
               /\ UNCHANGED reference

Next == \E b \in Column : Refer(b) \/ Complete(b)

Spec == Init /\ [][Next]_vars
=============================================================================
