---------------------------- MODULE PanelExchange ----------------------------
(***************************************************************************)
(* A stage on the cubed sphere: the ghost-zone exchange                    *)
(* (MeshBlockImpl::exchange), in two rounds when the panels are divided,   *)
(* and the exchange of the reconstructed states on the faces of a seam     *)
(* (HydroImpl::forward, ScalarImpl::forward), for the messages of both     *)
(* (CubedSphereLayoutImpl::serialize, deserialize, exchange_remote).       *)
(*                                                                         *)
(* A value is the set of what it was computed from: <<cell of the sphere,  *)
(* stage, velocity>>, the velocity in the components of whoever holds it.  *)
(* Every cell has the same velocity in space, so that a wrong turn shows.  *)
(* The radial direction is left out.                                       *)
(*                                                                         *)
(* Blocks of one process meet to copy their buffers, which is one step     *)
(* here (LocalExchange); messages with one tag, that is for one buffer of  *)
(* one block, arrive in order (GhostExchange).                             *)
(***************************************************************************)
EXTENDS CubedSphere, Sequences, Tags

CONSTANTS Sizes,        \* <<pxy, cells of a block per side, nghost,
                      \* blocks_per_process>>
          Interleaved,  \* sizes for which every interleaving is explored
          MaxStage      \* bound on the stages

\* A strip cannot be wider than the block that packs it, nor than the depth of
\* a part is by default (PartOptions).
ASSUME SizeAssumption ==
  /\ \A s \in Sizes : s[1] \in 1..4 /\ s[2] \in Nat /\ s[2] > 1 /\ s[3] \in 1..s[2]
                       /\ s[3] <= 99 /\ s[4] \in Nat \ {0} /\ (6 * s[1] * s[1]) % s[4] = 0
  /\ Interleaved \subseteq Sizes /\ MaxStage \in Nat \ {0}

VARIABLES size,   \* of the run
          u,      \* hydro_u of each block, ghost zones included
          outer,  \* outer[b][o]: what deserialize put into the seam at offset o
          send_bufs,
          recv_bufs,
          net,    \* net[b][o]: messages for buffer o of block b
          pc,     \* the step of Program each block is at
          stage   \* the stage each block is at

bufs == <<send_bufs, recv_bufs>>
vars == <<size, u, outer, bufs, net, pc, stage>>

Pxy == size[1]
Width == size[2]
Nghost == size[3]
Blocks == Places(Pxy)
Cells == ((-Nghost)..(Width + Nghost - 1)) \X ((-Nghost)..(Width + Nghost - 1))

\* Per pxy: the neighbor of a block at each offset, the offset back, its rank.
Sides == {s[1] : s \in Sizes}
Neighbors == [p \in Sides |-> [b \in Places(p) |-> [o \in Offsets4 |-> StepOne(p, b, o)]]]
Peers == [p \in Sides |-> [b \in Places(p) |-> [o \in Offsets4 |->
            FindPeerOffset(p, StepOne(p, b, o), b)]]]
RanksOf == [p \in Sides |-> [b \in Places(p) |-> RankOf(p, b)]]

Neighbor == Neighbors[Pxy]
Peer == Peers[Pxy]
Rank == RanksOf[Pxy]
Process(b) == Rank[b] \div size[4]
Local(b, o) == Process(Neighbor[b][o]) = Process(b)

Space == <<2, 3, 1>>                        \* the velocity, in space
Here(face) == LocalOf(face, Space)

\* Cell <<x, y>> of a block, in the cells of its panel.
Inside(b, c) == <<b[3], b[1] * Width + c[1], b[2] * Width + c[2]>>
InBlock(c) == c \in (0..(Width - 1)) \X (0..(Width - 1))

Computed(b, c, t) == {<<Inside(b, c), t, Here(b[3])>>}
Unset == {<< <<-1, -1, -1>>, 0, <<0, 0, 0>> >>}

Init == /\ size \in Sizes
        /\ u = [b \in Blocks |-> [c \in Cells |->
                  IF InBlock(c) THEN Computed(b, c, 1) ELSE Unset]]
        /\ outer = [b \in Blocks |-> [o \in Offsets4 |-> <<>>]]
        /\ send_bufs = [b \in Blocks |-> [o \in Offsets4 |-> <<>>]]
        /\ recv_bufs = send_bufs
        /\ net = [b \in Blocks |-> [o \in Offsets4 |-> <<>>]]
        /\ pc = [b \in Blocks |-> 1] /\ stage = [b \in Blocks |-> 1]

-----------------------------------------------------------------------------
(* Strips                                                                  *)

\* MeshBlockImpl::part, along one axis: where the part begins, and its length.
Start(o, exterior, margin) ==
  IF o = 0 THEN -margin
  ELSE IF o < 0 THEN IF exterior THEN -Nghost ELSE 0
  ELSE IF exterior THEN Width ELSE Width - Nghost

Length(o, depth, margin) ==
  IF o = 0 THEN Width + 2 * margin ELSE IF depth < Nghost THEN depth ELSE Nghost

\* The part of a round at offset o: the strip next to the edge, and with it the
\* cells beside it for the interpolation; in a seam, the faces of the edge.
Seams == {"x2", "x3"}

Margin(round) == IF round \in {"cross", "all"} THEN Nghost ELSE 0

\* Wrong: the first face on each side, counted from the inside as for a strip.
InnerSide(o, exterior) == exterior

SeamSide(o, exterior) == o[1] + o[2] > 0

Part(round, o, exterior) ==
  LET side == IF round \in Seams THEN SeamSide(o, exterior) ELSE exterior
      depth == IF round \in Seams THEN 1 ELSE 99
  IN [x |-> Start(o[2], side, Margin(round)), w |-> Length(o[2], depth, Margin(round)),
      y |-> Start(o[1], side, Margin(round)), h |-> Length(o[1], depth, Margin(round))]

\* An array of h rows and w columns, and what flip and transpose make of it.
Array(h, w, at(_, _)) ==
  [h |-> h, w |-> w, at |-> [k \in (0..(h - 1)) \X (0..(w - 1)) |-> at(k[1], k[2])]]
FlipRows(a) == LET at(r, c) == a.at[<<a.h - 1 - r, c>>] IN Array(a.h, a.w, at)
FlipColumns(a) == LET at(r, c) == a.at[<<r, a.w - 1 - c>>] IN Array(a.h, a.w, at)
Transpose(a) == LET at(r, c) == a.at[<<c, r>>] IN Array(a.w, a.h, at)

\* A receive buffer before anything arrived in it.
Old(p) == LET at(r, c) == Unset IN Array(p.h, p.w, at)

TurnAll(table, face, value) == {<<s[1], s[2], Turn(table, face, s[3])>> : s \in value}

\* What the block has at <<x, y>> of a part; on the faces of a seam this is the
\* state on its own side: wl of the face at its right or top, wr of that at its
\* left or bottom, which are the cells before and after the face.
Held(b, round, o, x, y) ==
  IF round \in Seams /\ o[1] + o[2] > 0 THEN u[b][<<x - o[2], y - o[1]>>]
  ELSE u[b][<<x, y>>]

SamePanel(b, o) == Neighbor[b][o][3] = b[3]

\* Wrong: a strip is not turned round where it meets the same end of its
\* neighbor.
Unflipped(a, o, mine, theirs) ==
  LET rev == IF mine.rev THEN IF o[1] # 0 THEN FlipColumns(a) ELSE FlipRows(a) ELSE a
  IN IF (GetSide(o) < 2) # (theirs < 2) THEN Transpose(rev) ELSE rev

\* rev_flag, flip_flag and trans_flag: the strip as the neighbor's rows and
\* columns.
Oriented(a, o, mine, theirs) ==
  LET rev == IF mine.rev THEN IF o[1] # 0 THEN FlipColumns(a) ELSE FlipRows(a) ELSE a
      flip == IF GetSide(o) % 2 = theirs % 2
              THEN IF o[1] # 0 THEN FlipRows(rev) ELSE FlipColumns(rev) ELSE rev
  IN IF (GetSide(o) < 2) # (theirs < 2) THEN Transpose(flip) ELSE flip

\* serialize, for one buffer.
Packed(b, round, o) ==
  LET p == Part(round, o, FALSE)
      at(r, c) == LET value == Held(b, round, o, p.x + c, p.y + r)
                  IN IF SamePanel(b, o) THEN value
                     ELSE TurnAll(LocalToCart, b[3], value)
      a == Array(p.h, p.w, at)
      e == Edge(b[3], GetSide(o))
  IN IF SamePanel(b, o) THEN a ELSE Oriented(a, o, e, e.nside)

-----------------------------------------------------------------------------
(* The rounds                                                              *)

\* A step is <<what, round>>.
Phases(round) == << <<"pack", round>>, <<"launch", round>>, <<"take", round>> >>

\* Wrong: one round for all edges of a divided panel.
OneRound(pxy) == Phases("all")

\* MeshBlockImpl::exchange.
ExchangeSteps(pxy) ==
  IF pxy > 1 THEN Phases("intra") \o Phases("cross") ELSE Phases("all")

\* Wrong: the second direction begins when the first is complete.
OneByOne == Phases("x2") \o Phases("x3")

\* HydroImpl::forward: both directions are packed before either is launched, and
\* launched before either is awaited.
SeamSteps == << <<"pack", "x2">>, <<"pack", "x3">>, <<"launch", "x2">>,
                <<"launch", "x3">>, <<"take", "x2">>, <<"take", "x3">> >>

Advance == <<"advance", "block">>
Done == <<"done", "block">>

Programs == [p \in Sides |-> ExchangeSteps(p) \o SeamSteps \o <<Advance, Done>>]
Program == Programs[Pxy]

Rounds == {"all", "intra", "cross", "x2", "x3"}

Doing(b, what, round) == Program[pc[b]] = <<what, round>>

\* The buffers of a round: DIM2 is along x, DIM3 along y.
Buffers(b, round) ==
  {o \in Offsets4 : /\ round = "intra" => SamePanel(b, o)
                    /\ round \in {"cross", "x2", "x3"} => ~SamePanel(b, o)
                    /\ round = "x2" => o[2] # 0
                    /\ round = "x3" => o[1] # 0}

ProcessMates == [s \in Sizes |-> [b \in Places(s[1]) |->
  {c \in Places(s[1]) : RanksOf[s[1]][c] \div s[4] = RanksOf[s[1]][b] \div s[4]}]]
ProcessOf(b) == ProcessMates[size][b]

\* The block does not wait for another process, or for the blocks of its own.
Ready(b) ==
  \A r \in Rounds :
    /\ Doing(b, "launch", r) => \A c \in ProcessOf(b) : Doing(c, "launch", r)
    /\ Doing(b, "take", r) =>
         \A o \in Buffers(b, r) : Local(b, o) \/ net[b][o] # <<>>

\* For a size that is not interleaved, of the blocks that can go on the one that
\* is furthest behind moves.
Behind(b, c) == \/ stage[b] < stage[c]
                \/ stage[b] = stage[c] /\ pc[b] < pc[c]
                \/ stage[b] = stage[c] /\ pc[b] = pc[c]
                     /\ Rank[b] <= Rank[c]
Turns(b) == size \in Interleaved \/ ~\E c \in Blocks : ~Behind(b, c) /\ Ready(c)

At(b, what, round) == Doing(b, what, round) /\ Ready(b) /\ Turns(b)

NextStep(b) == pc' = [pc EXCEPT ![b] = @ + 1]

\* begin_exchange.  The buffers are those of the last exchange of this kind.
Pack(b) ==
  \E round \in Rounds :
    /\ At(b, "pack", round)
    /\ send_bufs' = [send_bufs EXCEPT ![b] = [o \in Offsets4 |->
         IF o \in Buffers(b, round) THEN Packed(b, round, o) ELSE @[o]]]
    /\ recv_bufs' = [recv_bufs EXCEPT ![b] = [o \in Offsets4 |->
         IF o \in Buffers(b, round) THEN Old(Part(round, o, TRUE)) ELSE @[o]]]
    /\ NextStep(b) /\ UNCHANGED <<size, u, outer, net, stage>>

\* <<sender, its buffer>> of what the blocks of a process have for buffer p of
\* block c in a round, and the buffer.
Senders(here, round, c, p) ==
  {x \in here \X Offsets4 : /\ x[2] \in Buffers(x[1], round)
                            /\ Neighbor[x[1]][x[2]] = c /\ Peer[x[1]][x[2]] = p}

Message(here, round, c, p) ==
  LET x == CHOOSE y \in Senders(here, round, c, p) : TRUE IN send_bufs[x[1]][x[2]]

\* launch_exchange: the blocks of a process meet, the last one copies what they
\* have for each other, and then each of them sends the rest.
Launch(b) ==
  \E round \in Rounds :
    LET here == ProcessOf(b) IN
    /\ At(b, "launch", round)
    /\ recv_bufs' = [c \in Blocks |-> [p \in Offsets4 |->
         IF c \in here /\ Senders(here, round, c, p) # {} THEN Message(here, round, c, p)
         ELSE recv_bufs[c][p]]]
    /\ net' = [c \in Blocks |-> [p \in Offsets4 |->
         IF c \in here \/ Senders(here, round, c, p) = {} THEN net[c][p]
         ELSE Append(net[c][p], Message(here, round, c, p))]]
    /\ pc' = [c \in Blocks |-> IF c \in here THEN pc[c] + 1 ELSE pc[c]]
    /\ UNCHANGED <<size, u, outer, send_bufs, stage>>

\* A ghost cell d cells beyond the edge, at place j along an edge of n cells, is
\* interpolated between two cells that are shifted to the middle of the edge, by
\* less than d (cs_build_ghost_usrc).
Between(j, d, n) ==
  LET low == (n - 1) \div 2
      high == n \div 2
  IN IF j < low \/ (j = low /\ low # high) THEN {k \in j..(j + d) : k <= high}
     ELSE IF j > high \/ (j = high /\ low # high) THEN {k \in (j - d)..j : k >= low}
     ELSE (j - 1)..(j + 1)

\* The offset of a ghost cell that is not in a corner; none for the others.
Beyond(x) == IF x < 0 THEN -1 ELSE IF x >= Width THEN 1 ELSE 0
OffsetOf(c) == <<Beyond(c[2]), Beyond(c[1])>>
DepthOf(x) == IF x < 0 THEN -x ELSE x - Width + 1

\* deserialize for a ghost cell across a panel edge: interp_ghost, and then the
\* components of this panel.
Interpolated(b, c, o, p, a) ==
  LET along == IF o[1] # 0 THEN 1 ELSE 2
      origin == b[along] * Width
      from == Between(origin + c[along], DepthOf(c[3 - along]), Pxy * Width)
      at(k) == IF along = 1 THEN a.at[<<c[2] - p.y, k - origin - p.x>>]
               ELSE a.at[<<k - origin - p.y, c[1] - p.x>>]
  IN TurnAll(CartToLocal, b[3], UNION {at(k) : k \in from})

Received(b, o) == IF Local(b, o) THEN recv_bufs[b][o] ELSE Head(net[b][o])

Arrived(b, round, c) ==
  LET o == OffsetOf(c)
      p == Part(round, o, TRUE)
      a == Received(b, o)
  IN IF o \notin Buffers(b, round) THEN u[b][c]
     ELSE IF SamePanel(b, o) THEN a.at[<<c[2] - p.y, c[1] - p.x>>]
     ELSE Interpolated(b, c, o, p, a)

\* fill_corners, after the last round: the mean of the next cells of both strips.
InCorner(c) == Beyond(c[1]) # 0 /\ Beyond(c[2]) # 0
Nearest(x) == IF x < 0 THEN 0 ELSE Width - 1

FillCorners(v) ==
  [c \in Cells |-> IF InCorner(c)
                   THEN v[<<c[1], Nearest(c[2])>>] \cup v[<<Nearest(c[1]), c[2]>>]
                   ELSE v[c]]

Deserialized(b, round) == [c \in Cells |-> Arrived(b, round, c)]

\* finalize_exchange: wait for the messages of the round, then unpack.
Arrivals(b, round) ==
  net' = [net EXCEPT ![b] = [o \in Offsets4 |->
            IF o \in Buffers(b, round) /\ ~Local(b, o) THEN Tail(@[o]) ELSE @[o]]]

TakeGhosts(b) ==
  \E round \in Rounds \ Seams :
    /\ At(b, "take", round)
    /\ LET v == Deserialized(b, round) IN
       u' = [u EXCEPT ![b] = IF round = "intra" THEN v ELSE FillCorners(v)]
    /\ Arrivals(b, round)
    /\ NextStep(b) /\ UNCHANGED <<size, outer, bufs, stage>>

\* The other state of each face of a seam: "hydro_wr:-" is received at the right
\* and the top, "hydro_wl:+" at the left and the bottom.
TakeSeam(b) ==
  \E round \in Seams :
    /\ At(b, "take", round)
    /\ outer' = [outer EXCEPT ![b] = [o \in Offsets4 |->
         IF o \notin Buffers(b, round) THEN @[o]
         ELSE LET a == Received(b, o) IN
              [j \in 0..(Width - 1) |->
                 TurnAll(CartToLocal, b[3],
                         IF o[1] # 0 THEN a.at[<<0, j>>] ELSE a.at[<<j, 0>>])]]]
    /\ Arrivals(b, round)
    /\ NextStep(b) /\ UNCHANGED <<size, u, bufs, stage>>

\* The rest of the stage: new values in the block, and the next stage.
AdvanceLocal(b) ==
  /\ Program[pc[b]] = Advance /\ Turns(b)
  /\ u' = [u EXCEPT ![b] = [c \in Cells |->
             IF InBlock(c) THEN Computed(b, c, stage[b] + 1) ELSE @[c]]]
  /\ outer' = [outer EXCEPT ![b] = [o \in Offsets4 |-> <<>>]]
  /\ IF stage[b] = MaxStage THEN NextStep(b) /\ UNCHANGED stage
     ELSE pc' = [pc EXCEPT ![b] = 1] /\ stage' = [stage EXCEPT ![b] = @ + 1]
  /\ UNCHANGED <<size, bufs, net>>

Finished == \A b \in Blocks : Program[pc[b]] = Done

Terminated == Finished /\ UNCHANGED vars

Block(b) == Pack(b) \/ Launch(b) \/ TakeGhosts(b) \/ TakeSeam(b) \/ AdvanceLocal(b)

Next == (\E b \in Blocks : Block(b)) \/ Terminated

Spec == Init /\ [][Next]_vars
-----------------------------------------------------------------------------
\* The ghost zones of a block are up to date from the exchange of a stage on,
\* until the block advances.
Synced(b) == Program[pc[b]] = Advance \/ \E r \in Seams :
               Doing(b, "pack", r) \/ Doing(b, "launch", r) \/ Doing(b, "take", r)

\* The cells of the sphere that the ghost cell at <<x, y>> of a panel of n cells,
\* d cells beyond its edge, is computed from.
Expected(face, n, x, y) ==
  IF x \notin 0..(n - 1)
  THEN {CellAt(face, n, x, k) : k \in Between(y, IF x < 0 THEN -x ELSE x - n + 1, n)}
  ELSE IF y \notin 0..(n - 1)
  THEN {CellAt(face, n, k, y) : k \in Between(x, IF y < 0 THEN -y ELSE y - n + 1, n)}
  ELSE {<<face, x, y>>}

Sheet(s) == ((-s[3])..(s[1] * s[2] + s[3] - 1))
              \X ((-s[3])..(s[1] * s[2] + s[3] - 1))
Sphere == [s \in Sizes |-> [f \in Faces |-> [c \in Sheet(s) |->
             Expected(f, s[1] * s[2], c[1], c[2])]]]

\* Ghost cells hold the cells that lie there on the sphere: whatever the tables
\* of the edges, the flips and the transposition make of a strip, it arrives the
\* right way round, also when the neighbor panel is divided.
GhostsMatchTheSphere ==
  \A b \in Blocks : Synced(b) =>
    \A c \in Cells : ~InBlock(c) /\ ~InCorner(c) =>
      {s[1] : s \in u[b][c]} = Sphere[size][b[3]][Tail(Inside(b, c))]

\* Everything a ghost zone is computed from is of this stage, also the cells
\* beside the strip of a neighbor, which that block had to receive itself first.
GhostsFresh ==
  \A b \in Blocks : Synced(b) =>
    \A c \in Cells : \A s \in u[b][c] : s[2] = stage[b]

\* A velocity that comes from another panel has the components of this one, in
\* the corners and on the faces of a seam as well.
VelocitiesTurned ==
  \A b \in Blocks : Synced(b) =>
    /\ \A c \in Cells : \A s \in u[b][c] : s[3] = Here(b[3])
    /\ \A o \in Offsets4 : \A j \in DOMAIN outer[b][o] :
         \A s \in outer[b][o][j] : s[3] = Here(b[3])

\* Both blocks at a seam solve the Riemann problem of a face with the same two
\* states: the one received belongs to the cell behind the very same face, and
\* is of this stage.
SeamStatesAgree ==
  \A b \in Blocks : \A o \in Offsets4 : \A j \in DOMAIN outer[b][o] :
    LET c == <<IF o[2] = 0 THEN j ELSE IF o[2] < 0 THEN -1 ELSE Width,
               IF o[1] = 0 THEN j ELSE IF o[1] < 0 THEN -1 ELSE Width>>
        i == Inside(b, c)
    IN {<<s[1], s[2]>> : s \in outer[b][o][j]}
         = {<<CellAt(b[3], Pxy * Width, i[2], i[3]), stage[b]>>}

\* What a block has from beyond a panel edge is the right cells the right way
\* round, and velocities in its own components.
GhostsHold == GhostsMatchTheSphere /\ VelocitiesTurned

\* However the blocks are spread over processes, each message between two of
\* them meets one receive, posted for the buffer it was packed for.
OpsOf(per) ==
  {LET nb == Rank[Neighbor[x[1]][x[2]]]
       me == Rank[x[1]]
       wide(o) == <<o[1], o[2], 0>>
   IN [place |-> x, process |-> me \div per, remote |-> nb \div per,
       send_tag |-> CommTag(nb % per, wide(Peer[x[1]][x[2]]), 0),
       recv_tag |-> CommTag(me % per, wide(x[2]), 0)] :
   x \in Blocks \X Offsets4}

RemoteOps(per) == {s \in OpsOf(per) : s.process # s.remote}

MessagesPairUp ==
  (\A b \in Blocks : stage[b] = 1 /\ pc[b] = 1) =>
  \A per \in {k \in 1..Cardinality(Blocks) : Cardinality(Blocks) % k = 0} :
    LET ops == RemoteOps(per) IN
    \A s \in ops :
      {t.place : t \in {r \in ops : /\ r.process = s.remote /\ r.remote = s.process
                                    /\ r.recv_tag = s.send_tag}}
        = LET nb == Neighbor[s.place[1]][s.place[2]] IN
          {<<nb, o>> : o \in {p \in Offsets4 : Neighbor[nb][p] = s.place[1]}}

\* No block waits for ever: while a stage is not complete some block can go on,
\* although a seam joins the first direction of one panel with the second
\* direction of another.  Steps are never undone, so that all stages complete.
SomebodyGoesOn ==
  ~Finished => \E b \in Blocks : Program[pc[b]] # Done /\ Ready(b)

\* Neither a message nor the order of the steps leaves a block waiting.
NobodyWaitsForEver == MessagesPairUp /\ SomebodyGoesOn
=============================================================================
