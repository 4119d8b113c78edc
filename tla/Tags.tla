-------------------------------- MODULE Tags --------------------------------
(***************************************************************************)
(* get_buffer_id and make_comm_tag (src/layout/layout.hpp): the number of  *)
(* a buffer of the ghost-zone exchange, and the tag of its message.        *)
(***************************************************************************)
EXTENDS Integers

\* Offsets of a neighbor, <<dy, dx, dz>>.
Offsets == (-1..1) \X (-1..1) \X (-1..1) \ {<<0, 0, 0>>}

\* ((v % 3) + 3) % 3 in C.
Digit(v) == v % 3

BufferId(o) == Digit(o[2]) + 3 * Digit(o[1]) + 9 * Digit(o[3])

HalfStride(lb, o, phyid) == phyid * 1024 + lb * 16 + BufferId(o)

DoubleStride(lb, o, phyid) == phyid * 2048 + lb * 32 + BufferId(o)

CommTag(lb, o, phyid) == phyid * 1024 + lb * 32 + BufferId(o)
=============================================================================
