-------------------------- MODULE CartesianLayout --------------------------
(***************************************************************************)
(* The slab and the cubed layout: which block is where, which block is     *)
(* whose neighbor, and the plan of a ghost-zone exchange that follows from *)
(* it, that is, which buffers every block packs, copies, sends, receives   *)
(* and unpacks (src/layout/slab_layout.cpp, cubed_layout.cpp,              *)
(* connectivity.cpp, layout.cpp).                                          *)
(*                                                                         *)
(* An offset is <<dy, dx, dz>>, a place <<rx, ry, rz>>, as in the code.     *)
(* Buffer o of a block goes to, or comes from, its neighbor at offset o.   *)
(* Every axis that is not periodic has a boundary function at either end;  *)
(* an axis of one cell without one has no neighbor there either.           *)
(***************************************************************************)
EXTENDS Tags, FiniteSets

CONSTANTS MaxSide,      \* bound on the blocks along an axis
          MaxBlocks,    \* bound on the blocks of a run
          Dims,         \* the values of SyncOptions::dim
          SkipCorner    \* the values of SyncOptions::skip_corner

\* Morton codes are interleaved here for up to 8 blocks a side.
ASSUME LayoutAssumption ==
  /\ MaxSide \in 1..8 /\ MaxBlocks \in Nat
  /\ Dims \subseteq 0..3 /\ SkipCorner \subseteq BOOLEAN

VARIABLES options,   \* LayoutOptions, and the SyncOptions of the exchange
          rankof     \* _rankof: the rank of the block at a place

vars == <<options, rankof>>

\* The options a run can be started with: world_size, which is the number of
\* processes times blocks_per_process, has to be the number of blocks.  Only the
\* cubed layout divides, or closes, the third axis.
Options ==
  {g \in [type: {"slab", "cubed"}, px: 1..MaxSide, py: 1..MaxSide, pz: 1..MaxSide,
          periodic_x: BOOLEAN, periodic_y: BOOLEAN, periodic_z: BOOLEAN,
          blocks_per_process: 1..MaxBlocks, dim: Dims, skip_corner: SkipCorner] :
     LET blocks == g.px * g.py * g.pz IN
     /\ blocks <= MaxBlocks
     /\ blocks % g.blocks_per_process = 0
     /\ g.type = "slab" => g.pz = 1 /\ ~g.periodic_z}

PlacesOf(g) == (0..(g.px - 1)) \X (0..(g.py - 1)) \X (0..(g.pz - 1))

Bit(v, i) == (v \div 2^i) % 2

TightSpread(v) == Bit(v, 0) + 4 * Bit(v, 1) + 16 * Bit(v, 2)

Spread(v) == Bit(v, 0) + 8 * Bit(v, 1) + 64 * Bit(v, 2)

Morton(l) == Spread(l[1]) + 2 * Spread(l[2]) + 4 * Spread(l[3])

\* build_zorder_coords2/3 and build_rank_of2/3: ranks follow the Z-order.
ZOrder(g) == [l \in PlacesOf(g) |->
                Cardinality({m \in PlacesOf(g) : Morton(m) < Morton(l)})]

Ranks == 0..(options.px * options.py * options.pz - 1)

LocOf(r) == CHOOSE l \in PlacesOf(options) : rankof[l] = r

OwnerProcess(r) == r \div options.blocks_per_process
LocalIndex(r) == r % options.blocks_per_process

NoBlock == -1

\* A coordinate one step off, on an axis of n blocks; -1 if it leaves the mesh.
WrapOnce(v, n, periodic) ==
  IF v >= 0 /\ v < n THEN v
  ELSE IF ~periodic THEN -1 ELSE IF v < 0 THEN v + n ELSE 0

WrapClamped(v, n, periodic) ==
  IF v >= 0 /\ v < n THEN v
  ELSE IF ~periodic THEN -1 ELSE IF v < 0 THEN 0 ELSE n - 1

Wrap(v, n, periodic) ==
  IF v >= 0 /\ v < n THEN v
  ELSE IF ~periodic THEN -1 ELSE IF v < 0 THEN v + n ELSE v - n

NeighborRank(l, o) ==
  LET nx == Wrap(l[1] + o[2], options.px, options.periodic_x)
      ny == Wrap(l[2] + o[1], options.py, options.periodic_y)
      nz == IF options.type = "slab" THEN 0
            ELSE Wrap(l[3] + o[3], options.pz, options.periodic_z)
  IN IF nx = -1 \/ ny = -1 \/ nz = -1 THEN NoBlock ELSE rankof[<<nx, ny, nz>>]

KeepsBoundary(rx, side, n, periodic) == rx = (IF side = -1 THEN 0 ELSE n - 1)

\* MeshBlockImpl::reset drops the boundary function of a face behind which
\* there is a block.
HasBoundary(rx, side, n, periodic) ==
  ~periodic /\ rx = (IF side = -1 THEN 0 ELSE n - 1)

\* is_physical_boundary: the first axis the offset moves along decides.
IsPhysicalBoundary(l, o) ==
  IF o[1] # 0 THEN HasBoundary(l[2], o[1], options.py, options.periodic_y)
  ELSE IF o[2] # 0 THEN HasBoundary(l[1], o[2], options.px, options.periodic_x)
  ELSE HasBoundary(l[3], o[3], options.pz, options.periodic_z)

-----------------------------------------------------------------------------
(* The plan of an exchange                                                 *)

Minus(o) == <<-o[1], -o[2], -o[3]>>

Along(dim) == IF options.dim \in {0, dim} THEN -1..1 ELSE {0}

\* DIM3 = 1 is y, DIM2 = 2 is x, DIM1 = 3 is z; a slab never leaves its plane.
Directions ==
  {o \in Along(1) \X Along(2) \X (IF options.type = "slab" THEN {0} ELSE Along(3)) :
     /\ o # <<0, 0, 0>>
     /\ options.skip_corner => Cardinality({i \in 1..3 : o[i] # 0}) = 1}

\* serialize packs these buffers of block r, deserialize unpacks them.
Buffers(r) == {o \in Directions : /\ ~IsPhysicalBoundary(LocOf(r), o)
                                  /\ NeighborRank(LocOf(r), o) # NoBlock}

NoFlip(l) == <<1, 1, 1>>

\* The first of two blocks of a periodic axis goes through its neighbors in the
\* opposite order.
Flip(l) ==
  <<IF options.periodic_y /\ options.py = 2 /\ l[2] = 0 THEN -1 ELSE 1,
    IF options.periodic_x /\ options.px = 2 /\ l[1] = 0 THEN -1 ELSE 1,
    IF options.periodic_z /\ options.pz = 2 /\ l[3] = 0 THEN -1 ELSE 1>>

RemapOffset(l, o) ==
  LET s == Flip(l) IN <<s[1] * o[1], s[2] * o[2], s[3] * o[3]>>

SamePeerOffset(o) == o

PeerOffset(o) == Minus(o)

\* _copy_local_exchange_buffers: <<sender, its buffer, receiver, its buffer>>.
CopyOf(r, o) == <<r, o, NeighborRank(LocOf(r), o), PeerOffset(o)>>

Visited == {<<r, RemapOffset(LocOf(r), d)>> : r \in Ranks, d \in Directions}

LocalCopies ==
  {CopyOf(x[1], x[2]) :
     x \in {y \in Visited :
              LET nb == NeighborRank(LocOf(y[1]), y[2]) IN
              nb # NoBlock /\ nb # y[1] /\ OwnerProcess(nb) = OwnerProcess(y[1])}}

\* The rest of exchange_remote: a block that is its own neighbor ...
SelfCopies ==
  {<<x[1], x[2], x[1], Minus(x[2])>> :
     x \in {y \in Ranks \X Directions :
              y[2] \in Buffers(y[1]) /\ NeighborRank(LocOf(y[1]), y[2]) = y[1]}}

\* ... and a neighbor in another process: RemoteExchangeOp.
RemoteOp(r, o) ==
  LET nb == NeighborRank(LocOf(r), o) IN
  [rank |-> r, buffer |-> o,
   process |-> OwnerProcess(r), remote_process |-> OwnerProcess(nb),
   send_tag |-> CommTag(LocalIndex(nb), PeerOffset(o), 0),
   recv_tag |-> CommTag(LocalIndex(r), o, 0)]

RemoteOps ==
  {RemoteOp(x[1], x[2]) :
     x \in {y \in Ranks \X Directions :
              /\ y[2] \in Buffers(y[1])
              /\ OwnerProcess(NeighborRank(LocOf(y[1]), y[2])) # OwnerProcess(y[1])}}

\* The transport gives a message to the receive posted with its tag.
Meets(s, t) == /\ s.remote_process = t.process
               /\ t.remote_process = s.process
               /\ s.send_tag = t.recv_tag

\* All that an exchange delivers: <<sender, its buffer, receiver, its buffer>>.
PlannedTransfers ==
  LocalCopies \cup SelfCopies \cup
  {<<x[1].rank, x[1].buffer, x[2].rank, x[2].buffer>> :
     x \in {y \in RemoteOps \X RemoteOps : Meets(y[1], y[2])}}

-----------------------------------------------------------------------------
Built == rankof # <<>>

Init == /\ options \in Options
        /\ rankof = <<>>

\* _initialize, which the constructor calls.
Initialize == /\ ~Built
              /\ rankof' = ZOrder(options)
              /\ UNCHANGED options

\* MeshImpl::reset drops the blocks with their layouts.
Reset == /\ Built
         /\ rankof' = <<>>
         /\ UNCHANGED options

Next == Initialize \/ Reset

Spec == Init /\ [][Next]_vars
-----------------------------------------------------------------------------
\* Every place has a rank of its own, also where the Z-order passes outside the
\* box of blocks.
TypeOK == /\ options \in Options
          /\ Built => /\ rankof \in [PlacesOf(options) -> Ranks]
                      /\ {rankof[l] : l \in PlacesOf(options)} = Ranks

\* Every block has a rank of its own, and if b is a's neighbor at offset o, a is
\* b's neighbor at the opposite one.
NeighborsAreMutual ==
  /\ TypeOK
  /\ Built =>
       \A l \in PlacesOf(options), o \in Directions :
          LET nb == NeighborRank(l, o) IN
          nb # NoBlock => NeighborRank(LocOf(nb), Minus(o)) = rankof[l]

\* Every ghost zone that a block unpacks is filled exactly once in an exchange,
\* with the buffer the neighbor packed for it, be the neighbor the block
\* itself, a block of the same process or one of another.
GhostsFilledOnce ==
  Built =>
  LET ops == RemoteOps
      here == LocalCopies \cup SelfCopies
  IN \A r \in Ranks : \A o \in Buffers(r) :
       LET nb == NeighborRank(LocOf(r), o)
           mine == {t \in ops : t.rank = r /\ t.buffer = o}
           arriving == {s \in ops : \E t \in mine : Meets(s, t)}
       IN {<<x[1], x[2]>> : x \in {y \in here : y[3] = r /\ y[4] = o}}
            \cup {<<s.rank, s.buffer>> : s \in arriving} = {<<nb, Minus(o)>>}

\* No buffer is copied or sent that its owner did not pack for this exchange,
\* or filled that its owner will not unpack.
OnlyPackedBuffers ==
  Built =>
  \A x \in LocalCopies \cup SelfCopies : /\ x[2] \in Buffers(x[1])
                                         /\ x[4] \in Buffers(x[3])

\* Every message sent meets one receive and every receive one message: nobody
\* waits forever, and nothing is left behind for the next exchange.
MessagesPairUp ==
  Built =>
  LET ops == RemoteOps IN
  \A s \in ops : /\ Cardinality({t \in ops : Meets(s, t)}) = 1
                 /\ Cardinality({t \in ops : Meets(t, s)}) = 1

\* The four parts of an exchange, which decide on their own which buffers take
\* part, agree, also on who is whose neighbor: what is packed is delivered once,
\* and nothing else.
PlanAgrees == /\ NeighborsAreMutual
              /\ GhostsFilledOnce /\ OnlyPackedBuffers /\ MessagesPairUp

\* Where a loop over the directions comes to offset o: dz, then dy, then dx.
Turn(l, o) == LET d == RemapOffset(l, o) IN 9 * d[3] + 3 * d[1] + d[2]

\* With one block per process and no corners, two blocks send each other their
\* messages in the order in which they receive them, so that even a transport
\* that ignores tags would pair them up: the purpose of the flip.
OrderMatches ==
  Built /\ options.skip_corner /\ options.blocks_per_process = 1 =>
  \A l \in PlacesOf(options) : \A o, p \in Buffers(rankof[l]) :
     LET nb == NeighborRank(l, o) IN
     nb # rankof[l] /\ NeighborRank(l, p) = nb /\ Turn(l, o) < Turn(l, p) =>
       Turn(LocOf(nb), Minus(o)) < Turn(LocOf(nb), Minus(p))
=============================================================================
