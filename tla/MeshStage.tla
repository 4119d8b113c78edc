------------------------------ MODULE MeshStage ------------------------------
(***************************************************************************)
(* The ghost zones of a mesh of several blocks through the stages of a     *)
(* step (MeshImpl::forward, MeshBlockImpl::advance_local,                  *)
(* apply_boundaries, exchange_ghost_zones; src/bc/bc_func.cpp): boundary   *)
(* functions fill the ghosts at the faces of the mesh, an exchange those   *)
(* behind which there is a block, fill_corners the corners of x2 and x3,   *)
(* and the boundary functions of x1 are called once more on what was       *)
(* exchanged.                                                              *)
(*                                                                         *)
(* Axes are x1, x2, x3; faces x1-inner, x1-outer, x2-inner, ...  A cell is *)
(* <<i1, i2, i3>>, with ghosts below zero and beyond the last one.  What   *)
(* it holds is the set of what it was computed from: <<cell of the mesh,   *)
(* version, marks>>; the marks tell which velocities a wall has reversed,  *)
(* and which radiating boundary has been at work.                          *)
(*                                                                         *)
(* A phase is one step of all blocks here: inside a process the pool joins *)
(* them (ForkJoin), between processes an exchange delivers what the        *)
(* neighbor packed for it, however far they have drifted (HaloExchange).   *)
(***************************************************************************)
EXTENDS CartesianLayout

CONSTANTS MaxStaged,   \* bound on the blocks of a mesh that is advanced
          Shapes,      \* <<cells of a block along x1, along x2, x3, nghost>>
          Walls,       \* the names of the boundary functions, face by face
          NStages      \* stages of a step, with which the model ends

Functions == {"reflecting", "periodic", "extrapolation", "outflow"}

\* A block that is narrower than its ghost zones would send ghosts.
ASSUME StageAssumption ==
  /\ MaxStaged \in Nat /\ NStages \in Nat \ {0}
  /\ \A s \in Shapes : /\ s \in [1..4 -> Nat \ {0}]
                       /\ \A a \in 1..3 : s[a] = 1 \/ s[a] >= s[4]
  /\ \A w \in Walls : w \in [1..6 -> Functions]

VARIABLES shape,   \* cells of a block and width of the ghost zones
          walls,   \* the boundary functions of the input file
          u,       \* hydro_u of each block
          phase,   \* what the blocks do next
          stage    \* stages completed

mesh == <<shape, walls, u, phase, stage>>
stageVars == <<vars, mesh>>

Blocks == <<options.pz, options.px, options.py>>
Periodic == <<options.periodic_z, options.periodic_x, options.periodic_y>>
Position(r) == LET l == LocOf(r) IN <<l[3], l[1], l[2]>>

Nghost(a) == IF shape[a] = 1 THEN 0 ELSE shape[4]
Extent(a) == (-Nghost(a))..(shape[a] + Nghost(a) - 1)
Cells == Extent(1) \X Extent(2) \X Extent(3)

\* The axes along which a cell is in a ghost zone.
Beyond(c, a) == IF c[a] < 0 THEN -1 ELSE IF c[a] >= shape[a] THEN 1 ELSE 0
Outside(c) == {a \in 1..3 : Beyond(c, a) # 0}

Axis(f) == (f + 1) \div 2
Side(f) == IF f % 2 = 0 THEN 1 ELSE -1
FaceOf(a, side) == IF side = 1 THEN 2 * a ELSE 2 * a - 1
InGhosts(c, f) == Beyond(c, Axis(f)) = Side(f)

MeshCell(r, c) == LET at == Position(r)
                  IN [a \in 1..3 |-> at[a] * shape[a] + c[a]]
Computed(r, c, version) == {<<MeshCell(r, c), version, {}>>}
Unset == {<<<<-1, -1, -1>>, 0, {}>>}

-----------------------------------------------------------------------------
(* Boundary functions                                                      *)

\* MeshBlockOptionsImpl::from_yaml: x1 is periodic between blocks in the cubed
\* layout only; a slab has periodic functions instead.
Name(f) == IF Periodic[Axis(f)] THEN "periodic" ELSE walls[f]

\* What MeshBlockImpl::reset has left; a function does nothing along an axis of
\* one cell.
Installed(r) ==
  LET at == Position(r) IN
  {f \in 1..6 : LET a == Axis(f) IN
     HasBoundary(at[a], Side(f), Blocks[a], Periodic[a])}

Called(r) == {f \in Installed(r) : shape[Axis(f)] > 1}

\* The cell along the axis from which a function fills the ghost at x.
SourceOf(name, side, x, n) ==
  CASE name = "reflecting" -> IF side < 0 THEN -1 - x ELSE 2 * n - 1 - x
    [] name = "periodic" -> x - side * n
    [] OTHER -> IF side < 0 THEN 0 ELSE n - 1

\* Normal velocities are reversed by a wall; a radiating boundary makes a state
\* of its own from the cell and the background.
MarksOf(name, a, marks) ==
  CASE name = "reflecting" -> (marks \ {a}) \cup ({a} \ marks)
    [] name = "outflow" -> marks \cup {a + 3}
    [] OTHER -> marks

\* The function of face f, called on some of the cells.
Call(v, f, cells) ==
  LET a == Axis(f) IN
  [c \in Cells |->
     IF ~(InGhosts(c, f) /\ c \in cells) THEN v[c]
     ELSE LET source == SourceOf(Name(f), Side(f), c[a], shape[a]) IN
          {<<s[1], s[2], MarksOf(Name(f), a, s[3])>> :
             s \in v[[c EXCEPT ![a] = source]]}]

\* Radiating faces in a row work on one conversion w of the block to primitive
\* variables; their ghosts are committed before another function is called.
Flush(b) ==
  [b EXCEPT !.u = [c \in Cells |-> IF \E f \in b.pending : InGhosts(c, f)
                                   THEN b.w[c] ELSE b.u[c]],
            !.pending = {}]

\* Wrong: the other functions do not wait for the radiating faces.
NoFlush(b) == b

Committed(b) == Flush(b)

\* Primitive variables need no conversion, and are written at once.
ApplyFace(b, f, primitive) ==
  IF Name(f) = "outflow" /\ ~primitive
  THEN [b EXCEPT !.w = Call(IF b.pending = {} THEN b.u ELSE b.w, f, Cells),
                 !.pending = @ \cup {f}]
  ELSE LET done == Committed(b) IN [done EXCEPT !.u = Call(done.u, f, Cells)]

\* apply_boundaries goes through the faces in order.
AtFace(r, b, f, primitive) ==
  IF f \in Called(r) THEN ApplyFace(b, f, primitive) ELSE b

ApplyBoundaries(r, v, primitive) ==
  LET face(b, f) == AtFace(r, b, f, primitive)
      x1 == face(face([u |-> v, w |-> v, pending |-> {}], 1), 2)
      x2 == face(face(x1, 3), 4)
      x3 == face(face(x2, 5), 6)
  IN Flush(x3).u

-----------------------------------------------------------------------------
(* The exchange                                                            *)

\* Wrong: the strip next to the outer end is one cell off.
LateStart(a, side, exterior) ==
  IF side = 0 THEN 0
  ELSE IF side < 0 THEN IF exterior THEN -Nghost(a) ELSE 0
  ELSE IF exterior THEN shape[a] ELSE shape[a] - Nghost(a) - 1

\* MeshBlockImpl::part: where it begins along an axis.
Start(a, side, exterior) ==
  IF side = 0 THEN 0
  ELSE IF side < 0 THEN IF exterior THEN -Nghost(a) ELSE 0
  ELSE IF exterior THEN shape[a] ELSE shape[a] - Nghost(a)

\* The cell of the neighbor at the offset of c that is sent for c.
Partner(c) == [a \in 1..3 |-> c[a] - Start(a, Beyond(c, a), TRUE)
                                   + Start(a, -Beyond(c, a), FALSE)]

Exchanged(r) ==
  LET here == LocOf(r)
      buffers == Buffers(r)
  IN [c \in Cells |->
        LET o == <<Beyond(c, 3), Beyond(c, 2), Beyond(c, 1)>> IN
        IF o \in buffers THEN u[NeighborRank(here, o)][Partner(c)] ELSE u[r][c]]

\* The corners of x2 and x3: the mean of the next cells of both strips.
Nearest(c, a) ==
  [c EXCEPT ![a] = IF c[a] < 0 THEN 0
                   ELSE IF c[a] >= shape[a] THEN shape[a] - 1 ELSE @]

FillCorners(v) ==
  [c \in Cells |-> IF Outside(c) # {2, 3} THEN v[c]
                   ELSE v[Nearest(c, 3)] \cup v[Nearest(c, 2)]]

\* Wrong: what the boundary functions wrote before the exchange stays.
Unrefreshed(r, v) == v

\* Ghosts of axis a that were exchanged.
Slab(r, a) ==
  {c \in Cells : /\ a \in Outside(c)
                 /\ \/ FaceOf(a, Beyond(c, a)) \notin Installed(r)
                    \/ Name(FaceOf(a, Beyond(c, a))) = "periodic"}

Again(r, v, f, a) ==
  IF f \in Called(r) /\ Name(f) # "outflow" THEN Call(v, f, Slab(r, a)) ELSE v

\* exchange_ghost_zones: the functions of x1, except radiating ones, once more
\* on the ghosts that were exchanged.
Refreshed(r, v) ==
  LET inner == Again(r, Again(r, v, 1, 3), 1, 2)
  IN Again(r, Again(r, inner, 2, 3), 2, 2)

-----------------------------------------------------------------------------
(* The mesh                                                                *)

\* The meshes that are advanced.  Exchanges skip corners unless they are told
\* otherwise, and nobody does.
Followed == /\ Cardinality(Ranks) <= MaxStaged
            /\ options.dim = 0 /\ options.skip_corner

\* An axis of one cell is neither divided nor periodic; walls belong in pairs.
Fits(s, w) ==
  \A a \in 1..3 :
    /\ s[a] = 1 => Blocks[a] = 1 /\ ~Periodic[a]
    /\ a # 1 \/ options.type # "slab" => w[2 * a] # "periodic"
    /\ w[2 * a] = "periodic" <=> w[2 * a - 1] = "periodic"

None == <<>>

StageInit == /\ Init
             /\ \/ /\ Followed
                   /\ shape \in Shapes /\ walls \in Walls /\ Fits(shape, walls)
                \/ ~Followed /\ shape = None /\ walls = None
             /\ u = None /\ phase = "initialize" /\ stage = 0

\* Whatever a computation leaves in the ghosts has no meaning.
Fresh(r, version) ==
  [c \in Cells |-> IF Outside(c) = {} THEN Computed(r, c, version) ELSE Unset]

\* MeshBlockImpl::initialize_local, on the cells as the user has set them.
InitializeLocal ==
  /\ Built /\ shape # None /\ phase = "initialize"
  /\ u' = [r \in Ranks |-> ApplyBoundaries(r, Fresh(r, 0), TRUE)]
  /\ phase' = "first-exchange" /\ UNCHANGED <<vars, shape, walls, stage>>

\* The rest of initialize_under_mesh, with finalize_initialization.
FirstExchange ==
  /\ phase = "first-exchange"
  /\ u' = [r \in Ranks |->
             ApplyBoundaries(r, FillCorners(Exchanged(r)), FALSE)]
  /\ phase' = "advance" /\ UNCHANGED <<vars, shape, walls, stage>>

\* Wrong: the boundaries are not applied to the cells that were fixed.
Unbounded(r, v) == v
Bounded(r, v) == ApplyBoundaries(r, v, FALSE)

LastStage == stage = NStages - 1

\* advance_local: a block that is alone in its process also lets the
\* gravity-work fixer change the energy of its cells after the last stage.
AdvanceLocal ==
  LET alone == options.blocks_per_process = 1
      version == 2 * stage + (IF LastStage /\ alone THEN 3 ELSE 2)
  IN /\ phase = "advance" /\ stage < NStages
     /\ u' = [r \in Ranks |-> ApplyBoundaries(r, Fresh(r, version), FALSE)]
     /\ phase' = IF LastStage /\ ~alone THEN "fix" ELSE "exchange"
     /\ UNCHANGED <<vars, shape, walls, stage>>

\* MeshImpl::forward runs the fixer for the blocks that are not.
FixGravityWork ==
  /\ phase = "fix"
  /\ u' = [r \in Ranks |-> Bounded(r,
             [c \in Cells |-> IF Outside(c) # {} THEN u[r][c]
                              ELSE Computed(r, c, 2 * stage + 3)])]
  /\ phase' = "exchange" /\ UNCHANGED <<vars, shape, walls, stage>>

ExchangeGhostZones ==
  /\ phase = "exchange"
  /\ u' = [r \in Ranks |-> Refreshed(r, FillCorners(Exchanged(r)))]
  /\ phase' = "advance" /\ stage' = stage + 1
  /\ UNCHANGED <<vars, shape, walls>>

Construct == Initialize /\ UNCHANGED mesh

\* The blocks go with their arrays.
Destroy == /\ Reset
           /\ u' = None /\ phase' = "initialize" /\ stage' = 0
           /\ UNCHANGED <<shape, walls>>

StageNext == \/ Construct \/ Destroy \/ InitializeLocal \/ FirstExchange
             \/ AdvanceLocal \/ FixGravityWork \/ ExchangeGhostZones

StageSpec == StageInit /\ [][StageNext]_stageVars
-----------------------------------------------------------------------------
\* The version of the cells when a stage is complete.
Version == IF stage = NStages THEN 2 * stage + 1 ELSE 2 * stage

\* A mesh that is one block: where a cell beyond its ends comes from, along one
\* axis, and with which marks.
Fold(a, x, total) ==
  IF x \in 0..(total - 1) THEN <<x, {}>>
  ELSE LET side == IF x < 0 THEN -1 ELSE 1
           name == Name(FaceOf(a, side))
       IN <<SourceOf(name, side, x, total), MarksOf(name, a, {})>>

OneMesh(g) ==
  LET folded == [a \in 1..3 |-> Fold(a, g[a], Blocks[a] * shape[a])]
  IN {<<[a \in 1..3 |-> folded[a][1]], Version,
        UNION {folded[a][2] : a \in 1..3}>>}

\* The cells a stage reads, which are those next to one face; with viscosity
\* also those along the edge of a wall of x1 (tests/test_wb_wall_corner.cpp),
\* unless the wall radiates and the edge is exchanged.
Settled(r, c) ==
  LET out == Outside(c)
      end == FaceOf(1, Beyond(c, 1))
  IN \/ Cardinality(out) <= 1
     \/ /\ Cardinality(out) = 2 /\ 1 \in out /\ end \in Installed(r)
        /\ \/ Name(end) # "outflow"
           \/ \A a \in out : FaceOf(a, Beyond(c, a)) \in Installed(r)

\* However a mesh is divided, at the start and after every stage the ghosts of
\* its blocks hold what one block of the whole mesh would hold there: the cell
\* that lies there, is mirrored there or radiates there, as it is after this
\* stage and after the fixer, with the velocities of each wall reversed once.
\* The test x2_split_matches_one_block_exactly is one case of this.
AsOneMesh ==
  phase = "advance" =>
    \A r \in Ranks, c \in Cells :
      Settled(r, c) => u[r][c] = OneMesh(MeshCell(r, c))
=============================================================================
