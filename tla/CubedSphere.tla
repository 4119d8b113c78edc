----------------------------- MODULE CubedSphere -----------------------------
(***************************************************************************)
(* The cubed sphere: six panels of pxy x pxy blocks, and what lies behind  *)
(* each edge of a panel (src/layout/cubed_sphere_layout.cpp,               *)
(* cubed_sphere_constants.h, src/coord/cubed_sphere_utils.hpp).            *)
(*                                                                         *)
(* A block is its place <<rx, ry, face>>, an offset is <<dy, dx>>, as in    *)
(* the code.  Corners are not exchanged: no caller asks for them.  The     *)
(* panels are the faces of a cube here: the curved coordinates only decide *)
(* between which two cells of a strip a ghost cell is interpolated.        *)
(***************************************************************************)
EXTENDS Integers, FiniteSetsExt

Faces == 0..5
SideL == 0
SideR == 1
SideB == 2
SideT == 3

To(nface, nside, rev) == [nface |-> nface, nside |-> nside, rev |-> rev = 1]

\* CS_FACE_EDGES: what is behind side L, R, B and T of each face.
FaceEdges ==
  << <<To(4, SideR, 0), To(1, SideL, 0), To(5, SideT, 0), To(3, SideB, 0)>>,
     <<To(0, SideR, 0), To(2, SideL, 0), To(5, SideR, 1), To(3, SideR, 0)>>,
     <<To(1, SideR, 0), To(4, SideL, 0), To(5, SideB, 1), To(3, SideT, 1)>>,
     <<To(4, SideT, 1), To(1, SideT, 0), To(0, SideT, 0), To(2, SideT, 1)>>,
     <<To(2, SideR, 0), To(0, SideL, 0), To(5, SideL, 0), To(3, SideL, 1)>>,
     <<To(4, SideB, 0), To(1, SideB, 1), To(2, SideB, 1), To(0, SideB, 0)>> >>

Edge(face, side) == FaceEdges[face + 1][side + 1]

\* In the order in which find_peer_offset tries them.
SideOffsets == << <<-1, 0>>, <<1, 0>>, <<0, -1>>, <<0, 1>> >>
Offsets4 == {SideOffsets[i] : i \in 1..4}

GetSide(o) == CASE o = <<0, -1>> -> SideL [] o = <<0, 1>> -> SideR
                [] o = <<-1, 0>> -> SideB [] o = <<1, 0>> -> SideT

Places(pxy) == (0..(pxy - 1)) \X (0..(pxy - 1)) \X Faces

\* cs_edge_map_into_neighbor.
EdgePlace(pxy, e, pos) ==
  LET along == IF e.rev THEN pxy - 1 - pos ELSE pos
  IN CASE e.nside = SideL -> <<0, along, e.nface>>
       [] e.nside = SideR -> <<pxy - 1, along, e.nface>>
       [] e.nside = SideB -> <<along, 0, e.nface>>
       [] e.nside = SideT -> <<along, pxy - 1, e.nface>>

\* _step_one, for one step along one axis.
StepOne(pxy, l, o) ==
  LET next == <<l[1] + o[2], l[2] + o[1], l[3]>>
  IN IF next \in Places(pxy) THEN next
     ELSE EdgePlace(pxy, Edge(l[3], GetSide(o)), IF o[2] # 0 THEN l[2] ELSE l[1])

\* Wrong: the offset back is the opposite one, as on a plane.
OppositeOffset(pxy, peer, target) ==
  LET o == CHOOSE p \in Offsets4 : StepOne(pxy, target, p) = peer
  IN <<-o[1], -o[2]>>

\* find_peer_offset: how block peer gets to block target.
FindPeerOffset(pxy, peer, target) ==
  SideOffsets[Min({i \in 1..4 : StepOne(pxy, peer, SideOffsets[i]) = target})]

\* build_zorder_coords2, face by face.
Bit(v, i) == (v \div 2^i) % 2
Morton(l) == Bit(l[1], 0) + 2 * Bit(l[2], 0) + 4 * Bit(l[1], 1) + 8 * Bit(l[2], 1)

RankOf(pxy, l) ==
  l[3] * pxy * pxy
    + Cardinality({m \in Places(pxy) : m[3] = l[3] /\ Morton(m) < Morton(l)})

-----------------------------------------------------------------------------
(* Velocities: <<index, sign>> of each component, cs_cart_to_local_vel and *)
(* cs_local_to_cart_vel.  The cartesian components are those along z, x    *)
(* and y, the local ones those along the normal, alpha and beta.           *)

\* Wrong: the sign of one component of the bottom panel.
OneSignWrong ==
  << << <<3, 1>>, <<1, 1>>, <<2, 1>> >>,   << <<3, 1>>, <<2, -1>>, <<1, 1>> >>,
     << <<3, 1>>, <<1, -1>>, <<2, -1>> >>, << <<1, 1>>, <<3, -1>>, <<2, 1>> >>,
     << <<3, 1>>, <<2, 1>>, <<1, -1>> >>,  << <<1, -1>>, <<3, -1>>, <<2, 1>> >> >>

CartToLocal ==
  << << <<3, 1>>, <<1, 1>>, <<2, 1>> >>,   << <<3, 1>>, <<2, -1>>, <<1, 1>> >>,
     << <<3, 1>>, <<1, -1>>, <<2, -1>> >>, << <<1, 1>>, <<3, -1>>, <<2, 1>> >>,
     << <<3, 1>>, <<2, 1>>, <<1, -1>> >>,  << <<1, -1>>, <<3, 1>>, <<2, 1>> >> >>

LocalToCart ==
  << << <<2, 1>>, <<3, 1>>, <<1, 1>> >>,   << <<3, 1>>, <<2, -1>>, <<1, 1>> >>,
     << <<2, -1>>, <<3, -1>>, <<1, 1>> >>, << <<1, 1>>, <<3, 1>>, <<2, -1>> >>,
     << <<3, -1>>, <<2, 1>>, <<1, 1>> >>,  << <<1, -1>>, <<3, 1>>, <<2, 1>> >> >>

Turn(table, face, v) ==
  LET row == table[face + 1]
      c(i) == CHOOSE k \in 1..3 : row[k][1] = i
  IN <<row[c(1)][2] * v[c(1)], row[c(2)][2] * v[c(2)], row[c(3)][2] * v[c(3)]>>

\* cs_face_xyz_from_tan: the point at (a, b) of a face at distance h.
FacePoint(face, h, a, b) ==
  CASE face = 0 -> <<h, a, b>>  [] face = 1 -> <<-a, h, b>> [] face = 2 -> <<-h, -a, b>>
    [] face = 3 -> <<-b, a, h>> [] face = 4 -> <<a, -h, b>> [] face = 5 -> <<b, a, -h>>

-----------------------------------------------------------------------------
(* The geometry the tables stand for, from cs_face_xyz_from_tan alone.  A  *)
(* panel has n x n cells; the midpoint of cell <<x, y>> is at              *)
(* (2x + 1 - n, 2y + 1 - n) on a cube of side 2n.                          *)

Dot(p, q) == p[1] * q[1] + p[2] * q[2] + p[3] * q[3]

\* The local components of a vector of space: normal, alpha, beta.
LocalOf(face, p) == <<Dot(FacePoint(face, 1, 0, 0), p),
                      Dot(FacePoint(face, 0, 1, 0), p),
                      Dot(FacePoint(face, 0, 0, 1), p)>>

Bend(a, n) == IF a > n THEN n ELSE IF a < -n THEN -n ELSE a
Excess(a, n) == IF a > n THEN a - n ELSE IF a < -n THEN -n - a ELSE 0

\* The cell of the sphere at <<x, y>> of a face, also when that is beyond one of
\* its edges: the sheet is folded over the edge of the cube.
CellAt(face, n, x, y) ==
  LET a == 2 * x + 1 - n
      b == 2 * y + 1 - n
      p == FacePoint(face, n - Excess(a, n) - Excess(b, n), Bend(a, n), Bend(b, n))
      f == CHOOSE g \in Faces : LocalOf(g, p)[1] = n
      q == LocalOf(f, p)
  IN <<f, (q[2] + n - 1) \div 2, (q[3] + n - 1) \div 2>>
=============================================================================
