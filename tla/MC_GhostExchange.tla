------------------------- MODULE MC_GhostExchange -------------------------
(* GhostExchange on the plan of a slab layout.                             *)
EXTENDS GhostExchange

CONSTANTS px, py, periodic_x, periodic_y, blocks_per_process

const_options ==
  [type |-> "slab", px |-> px, py |-> py, pz |-> 1,
   periodic_x |-> periodic_x, periodic_y |-> periodic_y, periodic_z |-> FALSE,
   blocks_per_process |-> blocks_per_process, dim |-> 0, skip_corner |-> TRUE]

Empty == INSTANCE CartesianLayout WITH
           options <- const_options, rankof <- <<>>,
           MaxSide <- 4, MaxBlocks <- 8, Dims <- {0}, SkipCorner <- {TRUE}

Layout == INSTANCE CartesianLayout WITH
            options <- const_options, rankof <- Empty!ZOrder(const_options),
            MaxSide <- 4, MaxBlocks <- 8, Dims <- {0}, SkipCorner <- {TRUE}

const_Blocks == Layout!Ranks

const_Process == [b \in Layout!Ranks |-> Layout!OwnerProcess(b)]

const_Transfers == Layout!PlannedTransfers
=============================================================================
