----------------------------- MODULE Rendezvous -----------------------------
(***************************************************************************)
(* What the process-local part of LayoutImpl::launch_exchange promises:    *)
(* the blocks of a process meet, the data of all of them is exchanged at   *)
(* the meeting, and all leave it together.                                  *)
(* LocalExchange implements it, one meeting place per exchange key.        *)
(***************************************************************************)
EXTENDS Integers

CONSTANTS Blocks      \* the MeshBlocks of one process

VARIABLES inside,     \* the blocks that have come and not yet left
          meetings,   \* number of meetings held
          broken      \* a meeting was called off: nobody leaves it any more

vars == <<inside, meetings, broken>>

Init == /\ inside = {}
        /\ meetings = 0
        /\ broken = FALSE

Enter(b) == /\ b \notin inside
            /\ inside' = inside \cup {b}
            /\ UNCHANGED <<meetings, broken>>

Leave == /\ inside = Blocks
         /\ ~broken
         /\ inside' = {}
         /\ meetings' = meetings + 1
         /\ UNCHANGED broken

CallOff(b) == /\ inside \cup {b} = Blocks
              /\ inside' = Blocks
              /\ broken' = TRUE
              /\ UNCHANGED meetings

Next == \/ \E b \in Blocks : Enter(b) \/ CallOff(b)
        \/ Leave

Spec == Init /\ [][Next]_vars
=============================================================================
