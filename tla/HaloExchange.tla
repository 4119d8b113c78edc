---------------------------- MODULE HaloExchange ----------------------------
(***************************************************************************)
(* What MeshBlockImpl::exchange promises its callers: exchange number n    *)
(* fills a block's ghost zones with what its neighbors packed for exchange *)
(* number n.  A block may be ahead of its neighbors, but never by more than *)
(* the exchange it is in.  GhostExchange implements it.                    *)
(***************************************************************************)
EXTENDS Integers

CONSTANTS Blocks,      \* all blocks of the mesh
          Neighbors    \* Neighbors[b]: the blocks whose data b receives, and
                       \* that receive the data of b

VARIABLES packed,      \* exchanges a block has packed its data for
          unpacked,    \* exchanges a block has completed
          ghosts       \* the exchange of which b has the data of a neighbor c

vars == <<packed, unpacked, ghosts>>

Init == /\ packed = [b \in Blocks |-> 0]
        /\ unpacked = [b \in Blocks |-> 0]
        /\ ghosts = [b \in Blocks |-> [c \in Neighbors[b] |-> 0]]

Pack(b) == /\ packed[b] = unpacked[b]
           /\ packed' = [packed EXCEPT ![b] = @ + 1]
           /\ UNCHANGED <<unpacked, ghosts>>

Unpack(b) == /\ unpacked[b] < packed[b]
             /\ \A c \in Neighbors[b] : packed[c] >= packed[b]
             /\ unpacked' = [unpacked EXCEPT ![b] = packed[b]]
             /\ ghosts' = [ghosts EXCEPT ![b] = [c \in Neighbors[b] |-> packed[b]]]
             /\ UNCHANGED packed

Next == \E b \in Blocks : Pack(b) \/ Unpack(b)

Spec == Init /\ [][Next]_vars

\* Neighbors are never more than one exchange apart.
NeighborSkew == \A b \in Blocks : \A c \in Neighbors[b] : packed[c] <= packed[b] + 1
=============================================================================
