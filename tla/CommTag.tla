------------------------------ MODULE CommTag ------------------------------
(***************************************************************************)
(* The tags of the messages one process sends another                      *)
(* (src/layout/layout.hpp, layout.cpp).  A message is known to its         *)
(* receiver by the pair of processes and an int tag alone, and three       *)
(* users choose tags on their own: the ghost-zone exchange                 *)
(* (make_comm_tag, plus 65536 per variable), the point-to-point messages   *)
(* of the hydro step (send_to_block) and the gather of a column            *)
(* (gather_x1).                                                            *)
(***************************************************************************)
EXTENDS Tags, FiniteSets

CONSTANTS BlocksPerProcess,  \* blocks_per_process
          PhyIds,            \* the phyid of the exchanges
          Vars,              \* positions of the variables of an exchange
          HydroTags,         \* the tags the hydro step passes to send_to_block
          MaxInFlight        \* bound on the messages in flight

\* kWbRefTag, kWbGhostUpTag, kWbGhostDnTag (0x7715, 17, 18), and kSeamFluxUpTag,
\* kSeamFluxDnTag (0x7720, 21).
KnownHydroTags == {30485, 30487, 30488, 30496, 30497}

ASSUME CommTagAssumption ==
  /\ BlocksPerProcess \in Nat \ {0} /\ BlocksPerProcess <= 16  \* send_to_block
  /\ \A p \in PhyIds : p \in Nat /\ p < 64                \* SyncOptions::phyid
  /\ \A v \in Vars : v \in Nat /\ v < 32768               \* exchange_each_var
  /\ HydroTags \subseteq KnownHydroTags
  /\ MaxInFlight \in Nat

Locals == 0..(BlocksPerProcess - 1)    \* local block indices

VarTag(m) == CommTag(m.peer, m.offset, m.phyid) + m.var * 65536

HalfFold(m) == m.tag + (m.me * BlocksPerProcess + m.peer) * 32768

BlockTag(m) == m.tag + (m.me * BlocksPerProcess + m.peer) * 65536

ColumnTag(m) == 16777216 + m.me * BlocksPerProcess + m.peer    \* 1 << 24

\* A message of an exchange is known by the block and the slot it is for.
ExchangeMessages == [kind: {"exchange"}, peer: Locals, offset: Offsets,
                     phyid: PhyIds, var: Vars]

BlockMessages == [kind: {"block"}, me: Locals, peer: Locals, tag: HydroTags]

ColumnMessages == [kind: {"column"}, me: Locals, peer: Locals]

Messages == ExchangeMessages \cup BlockMessages \cup ColumnMessages

TagOf(m) == IF m.kind = "exchange" THEN VarTag(m)
            ELSE IF m.kind = "block" THEN BlockTag(m)
            ELSE ColumnTag(m)

VARIABLE inflight   \* messages sent to one process and not yet received

TagInit == inflight = {}

Room == Cardinality(inflight) < MaxInFlight

\* exchange_each_var, for one variable.
SendVariable(m) == Room /\ inflight' = inflight \cup {m}

\* send_to_block.
SendToBlock(m) == Room /\ inflight' = inflight \cup {m}

\* gather_x1, for one piece.
SendPiece(m) == Room /\ inflight' = inflight \cup {m}

Receive(m) == inflight' = inflight \ {m}

TagNext == \/ \E m \in ExchangeMessages : SendVariable(m)
           \/ \E m \in BlockMessages : SendToBlock(m)
           \/ \E m \in ColumnMessages : SendPiece(m)
           \/ \E m \in inflight : Receive(m)

TagSpec == TagInit /\ [][TagNext]_inflight
-----------------------------------------------------------------------------
\* A receiver never takes one message for another: whatever is in flight
\* between two processes, from any block, phase, variable or user of the
\* transport, has tags of its own.
TagsTellApart == \A m, n \in inflight : TagOf(m) = TagOf(n) => m = n

\* The tags are C ints, and the test of make_comm_tag never fails.
TagsFit == \A m \in inflight :
             /\ TagOf(m) >= 0 /\ TagOf(m) <= 2147483647
             /\ m.kind = "exchange" =>
                  CommTag(m.peer, m.offset, m.phyid) < 65536

\* The low 16 bits of a hydro message are the tag the hydro step gave, which
\* no exchange has; and it stays below the tags of a column.
HydroTagsStandOut ==
  \A m, n \in inflight :
     m.kind = "block" =>
       /\ TagOf(m) % 65536 = m.tag
       /\ n.kind = "exchange" => TagOf(n) % 65536 # m.tag
       /\ n.kind = "column" => TagOf(m) < TagOf(n)
=============================================================================
