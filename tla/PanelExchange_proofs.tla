------------------------ MODULE PanelExchange_proofs ------------------------
(***************************************************************************)
(* Proofs about PanelExchange, for panels of 1 to 4 blocks a side of any   *)
(* width and depth of ghost zones, for any number of blocks per process    *)
(* and any number of stages.                                               *)
(*                                                                         *)
(* The table of the edges is that of a cube; a strip, once packed, turned, *)
(* moved and interpolated, is what lies beside the edge; ControlInv says   *)
(* how far the blocks of a run and their channels are apart (NobodyWaits); *)
(* DataInv says what cells, buffers and each message under way hold        *)
(* (GhostsOfTheSphere, GhostsAreFresh, SeamsAgree).                        *)
(***************************************************************************)
EXTENDS PanelExchange, FiniteSetTheorems, WellFoundedInduction, TLAPS

LEMMA OffsetCases ==
  /\ Offsets4 = {<<-1, 0>>, <<1, 0>>, <<0, -1>>, <<0, 1>>}
  /\ \A o \in Offsets4 : GetSide(o) \in 0..3
<1>1. Offsets4 = {<<-1, 0>>, <<1, 0>>, <<0, -1>>, <<0, 1>>}
  <2>1. SideOffsets[1] = <<-1, 0>> /\ SideOffsets[2] = <<1, 0>>
        /\ SideOffsets[3] = <<0, -1>> /\ SideOffsets[4] = <<0, 1>>
    BY DEF SideOffsets
  <2>2. 1..4 = {1, 2, 3, 4}
    OBVIOUS
  <2> HIDE DEF SideOffsets
  <2> QED BY <2>1, <2>2 DEF Offsets4
<1>2. \A o \in Offsets4 : GetSide(o) \in 0..3
  BY <1>1 DEF GetSide, SideL, SideR, SideB, SideT
<1> QED BY <1>1, <1>2

\* The offset behind which a side lies.
OffsetAt(side) == CASE side = SideL -> <<0, -1>> [] side = SideR -> <<0, 1>>
                    [] side = SideB -> <<-1, 0>> [] side = SideT -> <<1, 0>>

LEMMA SideOf ==
  /\ \A o \in Offsets4 : GetSide(o) \in 0..3 /\ OffsetAt(GetSide(o)) = o
  /\ \A s \in 0..3 : OffsetAt(s) \in Offsets4 /\ GetSide(OffsetAt(s)) = s
<1>1. \A o \in Offsets4 : GetSide(o) \in 0..3 /\ OffsetAt(GetSide(o)) = o
  BY OffsetCases DEF GetSide, OffsetAt, SideL, SideR, SideB, SideT
<1>2. \A s \in 0..3 : s = 0 \/ s = 1 \/ s = 2 \/ s = 3
  OBVIOUS
<1>3. \A s \in 0..3 : OffsetAt(s) \in Offsets4 /\ GetSide(OffsetAt(s)) = s
  BY <1>2, OffsetCases DEF GetSide, OffsetAt, SideL, SideR, SideB, SideT
<1> QED BY <1>1, <1>3

LEMMA ToIs ==
  \A g, t, r : /\ To(g, t, r).nface = g /\ To(g, t, r).nside = t
               /\ To(g, t, r).rev = (r = 1)
BY Zenon DEF To

LEMMA Table ==
  /\ Edge(0, 0) = To(4, 1, 0) /\ Edge(0, 1) = To(1, 0, 0)
  /\ Edge(0, 2) = To(5, 3, 0) /\ Edge(0, 3) = To(3, 2, 0)
  /\ Edge(1, 0) = To(0, 1, 0) /\ Edge(1, 1) = To(2, 0, 0)
  /\ Edge(1, 2) = To(5, 1, 1) /\ Edge(1, 3) = To(3, 1, 0)
  /\ Edge(2, 0) = To(1, 1, 0) /\ Edge(2, 1) = To(4, 0, 0)
  /\ Edge(2, 2) = To(5, 2, 1) /\ Edge(2, 3) = To(3, 3, 1)
  /\ Edge(3, 0) = To(4, 3, 1) /\ Edge(3, 1) = To(1, 3, 0)
  /\ Edge(3, 2) = To(0, 3, 0) /\ Edge(3, 3) = To(2, 3, 1)
  /\ Edge(4, 0) = To(2, 1, 0) /\ Edge(4, 1) = To(0, 0, 0)
  /\ Edge(4, 2) = To(5, 0, 0) /\ Edge(4, 3) = To(3, 0, 1)
  /\ Edge(5, 0) = To(4, 2, 0) /\ Edge(5, 1) = To(1, 2, 1)
  /\ Edge(5, 2) = To(2, 2, 1) /\ Edge(5, 3) = To(0, 2, 0)
<1>1. /\ Edge(0, 0) = To(4, 1, 0) /\ Edge(0, 1) = To(1, 0, 0)
      /\ Edge(0, 2) = To(5, 3, 0) /\ Edge(0, 3) = To(3, 2, 0)
  BY DEF Edge, FaceEdges, SideL, SideR, SideB, SideT
<1>2. /\ Edge(1, 0) = To(0, 1, 0) /\ Edge(1, 1) = To(2, 0, 0)
      /\ Edge(1, 2) = To(5, 1, 1) /\ Edge(1, 3) = To(3, 1, 0)
  BY DEF Edge, FaceEdges, SideL, SideR, SideB, SideT
<1>3. /\ Edge(2, 0) = To(1, 1, 0) /\ Edge(2, 1) = To(4, 0, 0)
      /\ Edge(2, 2) = To(5, 2, 1) /\ Edge(2, 3) = To(3, 3, 1)
  BY DEF Edge, FaceEdges, SideL, SideR, SideB, SideT
<1>4. /\ Edge(3, 0) = To(4, 3, 1) /\ Edge(3, 1) = To(1, 3, 0)
      /\ Edge(3, 2) = To(0, 3, 0) /\ Edge(3, 3) = To(2, 3, 1)
  BY DEF Edge, FaceEdges, SideL, SideR, SideB, SideT
<1>5. /\ Edge(4, 0) = To(2, 1, 0) /\ Edge(4, 1) = To(0, 0, 0)
      /\ Edge(4, 2) = To(5, 0, 0) /\ Edge(4, 3) = To(3, 0, 1)
  BY DEF Edge, FaceEdges, SideL, SideR, SideB, SideT
<1>6. /\ Edge(5, 0) = To(4, 2, 0) /\ Edge(5, 1) = To(1, 2, 1)
      /\ Edge(5, 2) = To(2, 2, 1) /\ Edge(5, 3) = To(0, 2, 0)
  BY DEF Edge, FaceEdges, SideL, SideR, SideB, SideT
<1> QED BY <1>1, <1>2, <1>3, <1>4, <1>5, <1>6

\* The edges are those of a cube: each joins two panels, the same way seen from
\* both, and no two panels have two.
LEMMA Edges ==
  ASSUME NEW f \in Faces, NEW s \in 0..3
  PROVE  \E g \in Faces, t \in 0..3, r \in {0, 1} :
           Edge(f, s) = To(g, t, r) /\ Edge(g, t) = To(f, s, r) /\ g # f
<1>1. /\ f = 0 \/ f = 1 \/ f = 2 \/ f = 3 \/ f = 4 \/ f = 5
      /\ s = 0 \/ s = 1 \/ s = 2 \/ s = 3
  BY DEF Faces
<1>2. {0, 1, 2, 3, 4, 5} \subseteq Faces /\ {0, 1, 2, 3} \subseteq 0..3
  BY DEF Faces
<1> QED BY <1>1, <1>2, Table

LEMMA OneEdge ==
  ASSUME NEW f \in Faces, NEW s \in 0..3, NEW t \in 0..3, s # t
  PROVE  Edge(f, s).nface # Edge(f, t).nface
<1>1. /\ f = 0 \/ f = 1 \/ f = 2 \/ f = 3 \/ f = 4 \/ f = 5
      /\ s = 0 \/ s = 1 \/ s = 2 \/ s = 3
      /\ t = 0 \/ t = 1 \/ t = 2 \/ t = 3
  BY DEF Faces
<1> QED BY <1>1, Table, ToIs

Ahead(l, o) == <<l[1] + o[2], l[2] + o[1], l[3]>>

\* Where along its edge a block is.
Pos(l, o) == IF o[2] # 0 THEN l[2] ELSE l[1]

EdgeOf(l, o) == Edge(l[3], GetSide(o))

LEMMA PlaceOf ==
  ASSUME NEW n \in Nat \ {0}, NEW l \in Places(n)
  PROVE  /\ l[1] \in 0..(n - 1) /\ l[2] \in 0..(n - 1) /\ l[3] \in Faces
         /\ l = <<l[1], l[2], l[3]>>
BY DEF Places

LEMMA EdgePlaceIs ==
  ASSUME NEW n, NEW e, NEW pos, NEW along, along = (IF e.rev THEN n - 1 - pos ELSE pos)
  PROVE  /\ e.nside = 0 => EdgePlace(n, e, pos) = <<0, along, e.nface>>
         /\ e.nside = 1 => EdgePlace(n, e, pos) = <<n - 1, along, e.nface>>
         /\ e.nside = 2 => EdgePlace(n, e, pos) = <<along, 0, e.nface>>
         /\ e.nside = 3 => EdgePlace(n, e, pos) = <<along, n - 1, e.nface>>
BY DEF EdgePlace, SideL, SideR, SideB, SideT

\* A step over the edge of a panel, and where the way back is.
LEMMA StepOver ==
  ASSUME NEW n \in Nat \ {0}, NEW l \in Places(n), NEW o \in Offsets4,
         Ahead(l, o) \notin Places(n)
  PROVE  LET e == EdgeOf(l, o)
             m == StepOne(n, l, o)
             q == OffsetAt(e.nside)
         IN /\ m = EdgePlace(n, e, Pos(l, o)) /\ m \in Places(n)
            /\ m[3] = e.nface /\ e.nface # l[3] /\ e.nside \in 0..3
            /\ q \in Offsets4 /\ GetSide(q) = e.nside
            /\ Pos(m, q) = (IF e.rev THEN n - 1 - Pos(l, o) ELSE Pos(l, o))
            /\ Ahead(m, q) \notin Places(n)
            /\ EdgeOf(m, q).nside = GetSide(o) /\ EdgeOf(m, q).nface = l[3]
            /\ EdgeOf(m, q).rev = e.rev
            /\ StepOne(n, m, q) = l
<1> DEFINE e == EdgeOf(l, o)
           m == StepOne(n, l, o)
           q == OffsetAt(e.nside)
           pos == Pos(l, o)
           side == GetSide(o)
           along == IF e.rev THEN n - 1 - pos ELSE pos
<1>1. /\ l[1] \in 0..(n - 1) /\ l[2] \in 0..(n - 1) /\ l[3] \in Faces
      /\ l = <<l[1], l[2], l[3]>> /\ side \in 0..3
  BY PlaceOf, OffsetCases
<1>2. PICK g \in Faces, t \in 0..3, r \in {0, 1} :
        e = To(g, t, r) /\ Edge(g, t) = To(l[3], side, r) /\ g # l[3]
  BY <1>1, Edges DEF EdgeOf
<1>3. /\ e.nface = g /\ e.nside = t /\ e.rev = (r = 1)
  BY <1>2, ToIs
<1>4. m = EdgePlace(n, e, pos)
  BY DEF StepOne, Ahead, Pos, EdgeOf
<1>5. along \in 0..(n - 1) /\ pos \in 0..(n - 1)
  BY <1>1 DEF Pos
<1>6. t = 0 \/ t = 1 \/ t = 2 \/ t = 3
  BY <1>2
<1> HIDE DEF e, m, pos, side
<1>7. /\ t = 0 => m = <<0, along, g>>
      /\ t = 1 => m = <<n - 1, along, g>>
      /\ t = 2 => m = <<along, 0, g>>
      /\ t = 3 => m = <<along, n - 1, g>>
  BY <1>3, <1>4, EdgePlaceIs
<1>8. q \in Offsets4 /\ GetSide(q) = t
  BY <1>3, SideOf
<1>9. /\ t = 0 => q = <<0, -1>>
      /\ t = 1 => q = <<0, 1>>
      /\ t = 2 => q = <<-1, 0>>
      /\ t = 3 => q = <<1, 0>>
  BY <1>3, <1>6 DEF OffsetAt, SideL, SideR, SideB, SideT
<1>10. m \in Places(n) /\ m[3] = g
  BY <1>2, <1>5, <1>6, <1>7 DEF Places
<1>11. Pos(m, q) = along
  BY <1>6, <1>7, <1>9 DEF Pos
<1>12. Ahead(m, q) \notin Places(n)
  <2>1. CASE t = 0
    BY <1>7, <1>9, <2>1 DEF Ahead, Places
  <2>2. CASE t = 1
    BY <1>7, <1>9, <2>2 DEF Ahead, Places
  <2>3. CASE t = 2
    BY <1>7, <1>9, <2>3 DEF Ahead, Places
  <2>4. CASE t = 3
    BY <1>7, <1>9, <2>4 DEF Ahead, Places
  <2> QED BY <1>6, <2>1, <2>2, <2>3, <2>4
<1>13. EdgeOf(m, q) = To(l[3], side, r)
  BY <1>2, <1>8, <1>10 DEF EdgeOf
<1>14. /\ EdgeOf(m, q).nside = side /\ EdgeOf(m, q).nface = l[3]
       /\ EdgeOf(m, q).rev = (r = 1)
  BY <1>13, ToIs
<1>15. StepOne(n, m, q) = EdgePlace(n, EdgeOf(m, q), along)
  BY <1>11, <1>12 DEF StepOne, Ahead, EdgeOf, Pos
<1>16. (IF EdgeOf(m, q).rev THEN n - 1 - along ELSE along) = pos
  BY <1>3, <1>5, <1>14
<1>17. EdgePlace(n, EdgeOf(m, q), along) = l
  <2>1. /\ side = 0 => EdgePlace(n, EdgeOf(m, q), along) = <<0, pos, l[3]>>
        /\ side = 1 => EdgePlace(n, EdgeOf(m, q), along) = <<n - 1, pos, l[3]>>
        /\ side = 2 => EdgePlace(n, EdgeOf(m, q), along) = <<pos, 0, l[3]>>
        /\ side = 3 => EdgePlace(n, EdgeOf(m, q), along) = <<pos, n - 1, l[3]>>
    <3>1. pos = (IF EdgeOf(m, q).rev THEN n - 1 - along ELSE along)
          /\ EdgeOf(m, q).nside = side /\ EdgeOf(m, q).nface = l[3]
      BY <1>14, <1>16
    <3> HIDE DEF along, q
    <3> QED BY <3>1, EdgePlaceIs
  <2>2. o = <<-1, 0>> \/ o = <<1, 0>> \/ o = <<0, -1>> \/ o = <<0, 1>>
    BY OffsetCases
  <2> HIDE DEF along
  <2>3. CASE o = <<0, -1>>
    <3>1. side = 0 /\ l[1] = 0 /\ pos = l[2]
      BY <1>1, <2>3 DEF Ahead, Places, side, GetSide, pos, Pos, SideL
    <3> QED BY <1>1, <2>1, <3>1
  <2>4. CASE o = <<0, 1>>
    <3>1. side = 1 /\ l[1] = n - 1 /\ pos = l[2]
      BY <1>1, <2>4 DEF Ahead, Places, side, GetSide, pos, Pos, SideR
    <3> QED BY <1>1, <2>1, <3>1
  <2>5. CASE o = <<-1, 0>>
    <3>1. side = 2 /\ l[2] = 0 /\ pos = l[1]
      BY <1>1, <2>5 DEF Ahead, Places, side, GetSide, pos, Pos, SideB
    <3> QED BY <1>1, <2>1, <3>1
  <2>6. CASE o = <<1, 0>>
    <3>1. side = 3 /\ l[2] = n - 1 /\ pos = l[1]
      BY <1>1, <2>6 DEF Ahead, Places, side, GetSide, pos, Pos, SideT
    <3> QED BY <1>1, <2>1, <3>1
  <2> QED BY <2>2, <2>3, <2>4, <2>5, <2>6
<1>18. q = OffsetAt(e.nside)
  OBVIOUS
<1> HIDE DEF q, along
<1>19. /\ e.nface # l[3] /\ e.nside \in 0..3
  BY <1>2, <1>3
<1> QED BY <1>3, <1>4, <1>8, <1>10, <1>11, <1>12, <1>14, <1>15, <1>17, <1>18, <1>19
        DEF e, m, pos, side, along

Minus(o) == <<-o[1], -o[2]>>

LEMMA StepAhead ==
  ASSUME NEW n, NEW l, NEW o, Ahead(l, o) \in Places(n)
  PROVE  StepOne(n, l, o) = Ahead(l, o)
BY DEF StepOne, Ahead

\* A step to a block of the same panel.
LEMMA StepIn ==
  ASSUME NEW n \in Nat \ {0}, NEW l \in Places(n), NEW o \in Offsets4,
         Ahead(l, o) \in Places(n)
  PROVE  /\ StepOne(n, l, o) = Ahead(l, o) /\ Minus(o) \in Offsets4
         /\ Ahead(Ahead(l, o), Minus(o)) = l
         /\ StepOne(n, Ahead(l, o), Minus(o)) = l
<1>1. o = <<-1, 0>> \/ o = <<1, 0>> \/ o = <<0, -1>> \/ o = <<0, 1>>
  BY OffsetCases
<1>2. Minus(o) \in Offsets4
  BY <1>1, OffsetCases DEF Minus
<1>3. StepOne(n, l, o) = Ahead(l, o)
  BY StepAhead
<1>4. Ahead(Ahead(l, o), Minus(o)) = l
  BY <1>1, PlaceOf DEF Ahead, Minus
<1>5. StepOne(n, Ahead(l, o), Minus(o)) = l
  BY <1>4, StepAhead
<1> QED BY <1>2, <1>3, <1>4, <1>5

\* How the neighbor at an offset gets back.
Way(n, l, o) == IF Ahead(l, o) \in Places(n) THEN Minus(o)
                ELSE OffsetAt(EdgeOf(l, o).nside)

LEMMA WayBack ==
  ASSUME NEW n \in Nat \ {0}, NEW l \in Places(n), NEW o \in Offsets4
  PROVE  /\ StepOne(n, l, o) \in Places(n) /\ Way(n, l, o) \in Offsets4
         /\ StepOne(n, StepOne(n, l, o), Way(n, l, o)) = l
         /\ StepOne(n, l, o)[3] = l[3] <=> Ahead(l, o) \in Places(n)
<1>1. CASE Ahead(l, o) \in Places(n)
  <2>1. Ahead(l, o)[3] = l[3]
    BY DEF Ahead
  <2> QED BY <1>1, <2>1, StepIn DEF Way
<1>2. CASE Ahead(l, o) \notin Places(n)
  BY <1>2, StepOver DEF Way
<1> QED BY <1>1, <1>2

\* The four neighbors of a block are four blocks.
LEMMA NeighborsApart ==
  ASSUME NEW n \in Nat \ {0}, NEW l \in Places(n), NEW o \in Offsets4,
         NEW p \in Offsets4, StepOne(n, l, o) = StepOne(n, l, p)
  PROVE  o = p
<1> DEFINE m == StepOne(n, l, o)
<1>1. l[1] \in Int /\ l[2] \in Int /\ l[3] \in Faces
  BY PlaceOf
<1>2. CASE m[3] = l[3]
  <2>1. m = Ahead(l, o) /\ m = Ahead(l, p)
    BY <1>2, WayBack, StepIn
  <2>2. l[1] + o[2] = l[1] + p[2] /\ l[2] + o[1] = l[2] + p[1]
    BY <2>1 DEF Ahead
  <2>3. o[1] \in Int /\ o[2] \in Int /\ p[1] \in Int /\ p[2] \in Int
        /\ o = <<o[1], o[2]>> /\ p = <<p[1], p[2]>>
    BY OffsetCases
  <2>4. \A a, b, c \in Int : a + b = a + c => b = c
    OBVIOUS
  <2>5. o[1] = p[1] /\ o[2] = p[2]
    BY <1>1, <2>2, <2>3, <2>4, Zenon
  <2> QED BY <2>3, <2>5
<1>3. CASE m[3] # l[3]
  <2>1. m[3] = EdgeOf(l, o).nface
    BY <1>3, WayBack, StepOver
  <2>2. m[3] = EdgeOf(l, p).nface
    BY <1>3, WayBack, StepOver
  <2>3. GetSide(o) = GetSide(p)
    BY <1>1, <2>1, <2>2, OneEdge, SideOf DEF EdgeOf
  <2> QED BY <2>3, SideOf
<1> QED BY <1>2, <1>3

\* find_peer_offset finds that way.
LEMMA PeerOffsetIs ==
  ASSUME NEW n \in Nat \ {0}, NEW l \in Places(n), NEW o \in Offsets4
  PROVE  FindPeerOffset(n, StepOne(n, l, o), l) = Way(n, l, o)
<1> DEFINE m == StepOne(n, l, o)
           q == Way(n, l, o)
           I == {i \in 1..4 : StepOne(n, m, SideOffsets[i]) = l}
<1>1. m \in Places(n) /\ q \in Offsets4 /\ StepOne(n, m, q) = l
  BY WayBack
<1>2. PICK i \in 1..4 : SideOffsets[i] = q
  BY <1>1 DEF Offsets4
<1> HIDE DEF m, q
<1>3. ASSUME NEW j \in 1..4, StepOne(n, m, SideOffsets[j]) = l
      PROVE  j = i
  <2>1. SideOffsets[j] \in Offsets4
    BY DEF Offsets4
  <2>2. SideOffsets[j] = SideOffsets[i]
    BY <1>1, <1>2, <1>3, <2>1, NeighborsApart
  <2>3. i = 1 \/ i = 2 \/ i = 3 \/ i = 4
    OBVIOUS
  <2>4. j = 1 \/ j = 2 \/ j = 3 \/ j = 4
    OBVIOUS
  <2> QED BY <2>2, <2>3, <2>4 DEF SideOffsets
<1>4. I = {i}
  BY <1>1, <1>2, <1>3
<1>5. Min(I) = i
  BY <1>4 DEF Min
<1>6. FindPeerOffset(n, m, l) = q
  BY <1>2, <1>5 DEF FindPeerOffset
<1> QED BY <1>6 DEF m, q

LEMMA Bits ==
  \A v \in 0..3 : /\ Bit(v, 0) \in 0..1 /\ Bit(v, 1) \in 0..1
                  /\ v = Bit(v, 0) + 2 * Bit(v, 1)
BY DEF Bit

LEMMA MortonApart ==
  ASSUME NEW l, NEW m, l[1] \in 0..3, l[2] \in 0..3, m[1] \in 0..3, m[2] \in 0..3
  PROVE  /\ Morton(l) \in Nat
         /\ Morton(l) = Morton(m) => l[1] = m[1] /\ l[2] = m[2]
<1> DEFINE a == Bit(l[1], 0)
           b == Bit(l[2], 0)
           c == Bit(l[1], 1)
           d == Bit(l[2], 1)
           e == Bit(m[1], 0)
           f == Bit(m[2], 0)
           g == Bit(m[1], 1)
           h == Bit(m[2], 1)
<1>1. /\ a \in 0..1 /\ b \in 0..1 /\ c \in 0..1 /\ d \in 0..1
      /\ l[1] = a + 2 * c /\ l[2] = b + 2 * d
  BY Bits
<1>2. /\ e \in 0..1 /\ f \in 0..1 /\ g \in 0..1 /\ h \in 0..1
      /\ m[1] = e + 2 * g /\ m[2] = f + 2 * h
  BY Bits
<1>3. Morton(l) = a + 2 * b + 4 * c + 8 * d /\ Morton(m) = e + 2 * f + 4 * g + 8 * h
  BY DEF Morton
<1> HIDE DEF a, b, c, d, e, f, g, h
<1> QED BY <1>1, <1>2, <1>3

LEMMA PlacesFinite ==
  ASSUME NEW n \in Nat \ {0}
  PROVE  IsFiniteSet(Places(n)) /\ Cardinality(Places(n)) \in Nat
<1> DEFINE R == 0..(n - 1)
           f == [p \in (R \X R) \X Faces |-> <<p[1][1], p[1][2], p[2]>>]
<1>1. IsFiniteSet(R) /\ IsFiniteSet(Faces)
  <2>1. IsFiniteSet(R)
    BY FS_Interval
  <2>2. 0 \in Int /\ 5 \in Int
    OBVIOUS
  <2>3. IsFiniteSet(0..5)
    BY <2>2, FS_Interval
  <2> QED BY <2>1, <2>3 DEF Faces
<1>2. IsFiniteSet((R \X R) \X Faces)
  BY <1>1, FS_Product
<1>3. f \in Surjection((R \X R) \X Faces, Places(n))
  <2>1. \A p \in (R \X R) \X Faces : f[p] \in Places(n)
    BY DEF Places
  <2>2. ASSUME NEW l \in Places(n) PROVE \E p \in (R \X R) \X Faces : f[p] = l
    <3>1. << <<l[1], l[2]>>, l[3]>> \in (R \X R) \X Faces
      BY DEF Places
    <3>2. f[<< <<l[1], l[2]>>, l[3]>>] = l
      BY <3>1 DEF Places
    <3> QED BY <3>1, <3>2
  <2> QED BY <2>1, <2>2 DEF Surjection
<1> HIDE DEF f
<1>4. IsFiniteSet(Places(n))
  BY <1>2, <1>3, FS_Surjection
<1> QED BY <1>4, FS_CardinalityType

\* Ranks tell the blocks apart.
LEMMA RanksApart ==
  ASSUME NEW n \in 1..4, NEW l \in Places(n), NEW m \in Places(n)
  PROVE  /\ RankOf(n, l) \in Nat
         /\ RankOf(n, l) = RankOf(n, m) => l = m
<1> DEFINE P(f) == {b \in Places(n) : b[3] = f}
           Below(k) == {b \in Places(n) : b[3] = k[3] /\ Morton(b) < Morton(k)}
           sq == n * n
<1>1. \A f \in Faces : IsFiniteSet(P(f)) /\ Cardinality(P(f)) = sq
  <2> SUFFICES ASSUME NEW f \in Faces
               PROVE  IsFiniteSet(P(f)) /\ Cardinality(P(f)) = sq
    OBVIOUS
  <2> DEFINE R == 0..(n - 1)
             g == [p \in R \X R |-> <<p[1], p[2], f>>]
  <2>1. IsFiniteSet(R) /\ Cardinality(R) = n
    BY FS_Interval
  <2>2. IsFiniteSet(R \X R) /\ Cardinality(R \X R) = sq
    BY <2>1, FS_Product
  <2>3. g \in Bijection(R \X R, P(f))
    <3>1. \A p \in R \X R : g[p] \in P(f)
      BY DEF Places
    <3>2. \A p, q \in R \X R : g[p] = g[q] => p = q
      OBVIOUS
    <3>3. ASSUME NEW k \in P(f) PROVE \E p \in R \X R : g[p] = k
      <4>1. <<k[1], k[2]>> \in R \X R
        BY DEF Places
      <4>2. g[<<k[1], k[2]>>] = k
        BY <4>1 DEF Places
      <4> QED BY <4>1, <4>2
    <3> QED BY <3>1, <3>2, <3>3 DEF Bijection, Injection, Surjection, IsInjective
  <2> HIDE DEF g, R
  <2> QED BY <2>2, <2>3, FS_Bijection DEF ExistsBijection
<1>2. \A k \in Places(n) : k[1] \in 0..3 /\ k[2] \in 0..3 /\ k[3] \in Faces
                           /\ k = <<k[1], k[2], k[3]>>
  BY DEF Places
<1>3. sq \in Nat
  OBVIOUS
<1>4. \A k \in Places(n) : /\ IsFiniteSet(Below(k)) /\ Cardinality(Below(k)) \in Nat
                           /\ Cardinality(Below(k)) < sq
  <2> SUFFICES ASSUME NEW k \in Places(n)
               PROVE  /\ IsFiniteSet(Below(k)) /\ Cardinality(Below(k)) \in Nat
                      /\ Cardinality(Below(k)) < sq
    OBVIOUS
  <2>1. Below(k) \subseteq P(k[3]) /\ k \in P(k[3]) /\ k \notin Below(k)
    BY <1>2, MortonApart
  <2>2. IsFiniteSet(P(k[3])) /\ Cardinality(P(k[3])) = sq
    BY <1>1, <1>2
  <2> HIDE DEF Below, P, sq
  <2>3. IsFiniteSet(Below(k)) /\ Cardinality(Below(k)) \in Nat
        /\ Cardinality(Below(k)) <= sq
        /\ (sq = Cardinality(Below(k)) => P(k[3]) = Below(k))
    BY <2>1, <2>2, FS_Subset, FS_CardinalityType
  <2> QED BY <1>3, <2>1, <2>3
<1>5. \A k \in Places(n) : RankOf(n, k) = k[3] * sq + Cardinality(Below(k))
  <2>1. \A x \in Faces : x * n * n = x * (n * n)
    BY DEF Faces
  <2> QED BY <1>2, <2>1 DEF RankOf
<1>6. RankOf(n, l) \in Nat
  <2> HIDE DEF Below, P, sq
  <2>1. \A x \in Faces, c \in Nat : x * sq + c \in Nat
    BY <1>3 DEF Faces
  <2> QED BY <1>2, <1>4, <1>5, <2>1
<1>7. ASSUME RankOf(n, l) = RankOf(n, m) PROVE l = m
  <2>1. l[3] = m[3] /\ Cardinality(Below(l)) = Cardinality(Below(m))
    <3> DEFINE x == Cardinality(Below(l))
               y == Cardinality(Below(m))
    <3>1. l[3] * sq + x = m[3] * sq + y
      BY <1>5, <1>7
    <3>2. x \in 0..(sq - 1) /\ y \in 0..(sq - 1) /\ l[3] \in 0..5 /\ m[3] \in 0..5
      <4>1. x \in Nat /\ x < sq /\ y \in Nat /\ y < sq
        BY <1>4
      <4>2. \A c \in Nat : c < sq => c \in 0..(sq - 1)
        BY <1>3
      <4> HIDE DEF x, y, sq
      <4> QED BY <1>2, <4>1, <4>2 DEF Faces
    <3>3. \A f, g \in 0..5 : \A a, b \in 0..(sq - 1) :
            f * sq + a = g * sq + b => f = g /\ a = b
      <4>1. n = 1 \/ n = 2 \/ n = 3 \/ n = 4
        OBVIOUS
      <4>2. sq = 1 \/ sq = 4 \/ sq = 9 \/ sq = 16
        BY <4>1
      <4> HIDE DEF sq
      <4>3. CASE sq = 1
        BY <4>3
      <4>4. CASE sq = 4
        BY <4>4
      <4>5. CASE sq = 9
        BY <4>5
      <4>6. CASE sq = 16
        BY <4>6
      <4> QED BY <4>2, <4>3, <4>4, <4>5, <4>6
    <3> HIDE DEF x, y, sq
    <3>4. l[3] = m[3] /\ x = y
      BY <3>1, <3>2, <3>3
    <3> QED BY <3>4 DEF x, y
  <2>2. ASSUME NEW a \in Places(n), NEW b \in Places(n), a[3] = b[3],
               Morton(a) < Morton(b)
        PROVE  Cardinality(Below(a)) # Cardinality(Below(b))
    <3>1. Below(a) \subseteq Below(b) /\ a \in Below(b) /\ a \notin Below(a)
      BY <1>2, <2>2, MortonApart
    <3>2. Cardinality(Below(b)) = Cardinality(Below(a)) => Below(b) = Below(a)
      <4> HIDE DEF Below
      <4> QED BY <1>4, <3>1, FS_Subset
    <3> QED BY <3>1, <3>2
  <2>3. Morton(l) = Morton(m)
    <3> HIDE DEF Below
    <3>1. Morton(l) \in Nat /\ Morton(m) \in Nat
      BY <1>2, MortonApart
    <3>2. ~(Morton(l) < Morton(m)) /\ ~(Morton(m) < Morton(l))
      BY <2>1, <2>2
    <3> QED BY <3>1, <3>2
  <2>4. l[1] = m[1] /\ l[2] = m[2]
    BY <1>2, <2>3, MortonApart
  <2> QED BY <1>2, <2>1, <2>4
<1> QED BY <1>6, <1>7

-----------------------------------------------------------------------------
(* The messages of a run.                                                  *)

LEMMA SizeTypes ==
  ASSUME size \in Sizes
  PROVE  /\ Pxy \in 1..4 /\ Pxy \in Nat \ {0} /\ Pxy \in Sides
         /\ Width \in Nat /\ Width > 1 /\ Nghost \in 1..Width /\ Nghost <= 99
         /\ size[4] \in Nat \ {0} /\ MaxStage \in Nat \ {0}
BY SizeAssumption DEF Pxy, Width, Nghost, Sides

\* What a block has beyond an edge, and how that block sees it.
LEMMA Plan ==
  ASSUME size \in Sizes, NEW b \in Blocks, NEW o \in Offsets4
  PROVE  /\ Neighbor[b][o] = StepOne(Pxy, b, o) /\ Neighbor[b][o] \in Blocks
         /\ Peer[b][o] = Way(Pxy, b, o) /\ Peer[b][o] \in Offsets4
         /\ Neighbor[Neighbor[b][o]][Peer[b][o]] = b
         /\ Peer[Neighbor[b][o]][Peer[b][o]] = o
         /\ SamePanel(b, o) <=> Ahead(b, o) \in Places(Pxy)
<1>1. Pxy \in Nat \ {0} /\ Pxy \in Sides
  BY SizeTypes
<1>2. \A c \in Blocks, p \in Offsets4 :
        /\ Neighbor[c][p] = StepOne(Pxy, c, p)
        /\ Peer[c][p] = FindPeerOffset(Pxy, StepOne(Pxy, c, p), c)
  BY <1>1 DEF Neighbor, Neighbors, Peer, Peers, Blocks
<1>3. \A c \in Blocks, p \in Offsets4 : Peer[c][p] = Way(Pxy, c, p)
  BY <1>1, <1>2, PeerOffsetIs DEF Blocks
<1> DEFINE m == Neighbor[b][o]
           q == Peer[b][o]
<1>4. /\ m = StepOne(Pxy, b, o) /\ m \in Blocks /\ q = Way(Pxy, b, o) /\ q \in Offsets4
      /\ StepOne(Pxy, m, q) = b /\ (m[3] = b[3] <=> Ahead(b, o) \in Places(Pxy))
  BY <1>1, <1>2, <1>3, WayBack DEF Blocks
<1> HIDE DEF m, q
<1>5. Neighbor[m][q] = b
  BY <1>2, <1>4
<1>6. Peer[m][q] = o
  <2>1. Way(Pxy, m, q) \in Offsets4 /\ StepOne(Pxy, b, Way(Pxy, m, q)) = m
    BY <1>1, <1>4, WayBack DEF Blocks
  <2>2. Way(Pxy, m, q) = o
    BY <1>1, <1>4, <2>1, NeighborsApart DEF Blocks
  <2> QED BY <1>3, <1>4, <2>2
<1> QED BY <1>4, <1>5, <1>6 DEF m, q, SamePanel

LEMMA OneWay ==
  ASSUME size \in Sizes, NEW b \in Blocks, NEW o \in Offsets4, NEW p \in Offsets4,
         Neighbor[b][o] = Neighbor[b][p]
  PROVE  o = p
<1>1. Pxy \in Nat \ {0}
  BY SizeTypes
<1> QED BY <1>1, Plan, NeighborsApart DEF Blocks

LEMMA Ranks ==
  ASSUME size \in Sizes, NEW b \in Blocks, NEW c \in Blocks
  PROVE  /\ Rank[b] \in Nat /\ Process(b) \in Nat
         /\ Rank[b] = Rank[c] => b = c
<1>1. Rank[b] = RankOf(Pxy, b) /\ Rank[c] = RankOf(Pxy, c) /\ Pxy \in 1..4
  BY SizeTypes DEF Rank, RanksOf, Blocks
<1>2. Rank[b] \in Nat /\ (Rank[b] = Rank[c] => b = c)
  BY <1>1, RanksApart DEF Blocks
<1>3. \A k \in Nat, j \in Nat \ {0} : k \div j \in Nat
  OBVIOUS
<1> QED BY <1>2, <1>3, SizeTypes DEF Process

Wide(o) == <<o[1], o[2], 0>>

LEMMA TagsOfBuffers ==
  ASSUME NEW x \in Nat, NEW y \in Nat, NEW o \in Offsets4, NEW p \in Offsets4,
         CommTag(x, Wide(o), 0) = CommTag(y, Wide(p), 0)
  PROVE  x = y /\ o = p
<1>1. /\ BufferId(Wide(<<-1, 0>>)) = 6 /\ BufferId(Wide(<<1, 0>>)) = 3
      /\ BufferId(Wide(<<0, -1>>)) = 2 /\ BufferId(Wide(<<0, 1>>)) = 1
  <2>1. \A v \in -1..1 :
          (v = -1 => Digit(v) = 2) /\ (v = 0 => Digit(v) = 0) /\ (v = 1 => Digit(v) = 1)
    BY DEF Digit
  <2> QED BY <2>1 DEF BufferId, Wide
<1>2. /\ o = <<-1, 0>> \/ o = <<1, 0>> \/ o = <<0, -1>> \/ o = <<0, 1>>
      /\ p = <<-1, 0>> \/ p = <<1, 0>> \/ p = <<0, -1>> \/ p = <<0, 1>>
  BY OffsetCases
<1> DEFINE i == BufferId(Wide(o))
           j == BufferId(Wide(p))
<1>3. i \in 0..31 /\ j \in 0..31 /\ (i = j => o = p)
  <2>1. i \in {1, 2, 3, 6} /\ j \in {1, 2, 3, 6}
    BY <1>1, <1>2
  <2>2. /\ i = 6 <=> o = <<-1, 0>>
        /\ i = 3 <=> o = <<1, 0>>
        /\ i = 2 <=> o = <<0, -1>>
        /\ i = 1 <=> o = <<0, 1>>
    BY <1>1, <1>2
  <2>3. /\ j = 6 <=> p = <<-1, 0>>
        /\ j = 3 <=> p = <<1, 0>>
        /\ j = 2 <=> p = <<0, -1>>
        /\ j = 1 <=> p = <<0, 1>>
    BY <1>1, <1>2
  <2> HIDE DEF i, j
  <2> QED BY <2>1, <2>2, <2>3
<1>4. x * 32 + i = y * 32 + j
  <2>1. 0 * 1024 + x * 32 + i = 0 * 1024 + y * 32 + j
    BY DEF CommTag
  <2> HIDE DEF i, j
  <2> QED BY <1>3, <2>1
<1> HIDE DEF i, j
<1>5. x = y /\ i = j
  BY <1>3, <1>4
<1> QED BY <1>3, <1>5

OpOf(per, x) ==
  LET nb == Rank[Neighbor[x[1]][x[2]]]
      me == Rank[x[1]]
  IN [place |-> x, process |-> me \div per, remote |-> nb \div per,
      send_tag |-> CommTag(nb % per, Wide(Peer[x[1]][x[2]]), 0),
      recv_tag |-> CommTag(me % per, Wide(x[2]), 0)]

LEMMA OpsAre ==
  ASSUME NEW per
  PROVE  OpsOf(per) = {OpOf(per, x) : x \in Blocks \X Offsets4}
BY DEF OpsOf, OpOf, Wide

\* Whatever the division of the blocks among processes, every message between
\* two of them meets one receive, for the buffer it was packed for
\* (make_comm_tag).
LEMMA Paired ==
  ASSUME size \in Sizes
  PROVE  MessagesPairUp
<1> SUFFICES ASSUME NEW per \in {k \in 1..Cardinality(Blocks) : Cardinality(Blocks) % k = 0},
                    NEW s \in RemoteOps(per)
             PROVE  LET nb == Neighbor[s.place[1]][s.place[2]] IN
                    {t.place : t \in {r \in RemoteOps(per) :
                        /\ r.process = s.remote /\ r.remote = s.process
                        /\ r.recv_tag = s.send_tag}}
                      = {<<nb, o>> : o \in {p \in Offsets4 : Neighbor[nb][p] = s.place[1]}}
  BY DEF MessagesPairUp
<1>1. per \in Nat \ {0}
  <2>1. Cardinality(Blocks) \in Nat
    BY SizeTypes, PlacesFinite DEF Blocks
  <2> QED BY <2>1
<1>2. PICK x \in Blocks \X Offsets4 : s = OpOf(per, x)
  BY OpsAre DEF RemoteOps
<1> DEFINE a == x[1]
           o == x[2]
           m == Neighbor[a][o]
           q == Peer[a][o]
           Meets(r) == /\ r.process = s.remote /\ r.remote = s.process
                       /\ r.recv_tag = s.send_tag
<1>3. /\ a \in Blocks /\ o \in Offsets4 /\ x = <<a, o>> /\ m \in Blocks
      /\ q \in Offsets4 /\ Neighbor[m][q] = a /\ Peer[m][q] = o
  BY <1>2, Plan
<1>4. \A b \in Blocks : Rank[b] \in Nat /\ \A c \in Blocks : Rank[b] = Rank[c] => b = c
  BY Ranks
<1>5. /\ s.place = x /\ s.process = Rank[a] \div per /\ s.remote = Rank[m] \div per
      /\ s.process # s.remote
      /\ s.send_tag = CommTag(Rank[m] % per, Wide(q), 0)
  BY <1>2 DEF OpOf, RemoteOps
<1>6. \A y \in Blocks \X Offsets4 :
        LET r == OpOf(per, y) IN
        /\ r.place = y /\ r.process = Rank[y[1]] \div per
        /\ r.remote = Rank[Neighbor[y[1]][y[2]]] \div per
        /\ r.recv_tag = CommTag(Rank[y[1]] % per, Wide(y[2]), 0)
  BY DEF OpOf
<1>7. \A i, j \in Nat : i \div per = j \div per /\ i % per = j % per => i = j
  <2>1. \A i \in Nat : i = per * (i \div per) + (i % per)
    BY <1>1
  <2>2. \A i \in Nat : i \div per \in Nat /\ i % per \in Nat
    BY <1>1
  <2> QED BY <2>1
<1>8. ASSUME NEW r \in RemoteOps(per), Meets(r)
      PROVE  r.place = <<m, q>>
  <2>1. PICK y \in Blocks \X Offsets4 : r = OpOf(per, y)
    BY OpsAre DEF RemoteOps
  <2>2. y[1] \in Blocks /\ y[2] \in Offsets4 /\ y = <<y[1], y[2]>>
    OBVIOUS
  <2>3. CommTag(Rank[y[1]] % per, Wide(y[2]), 0) = CommTag(Rank[m] % per, Wide(q), 0)
    BY <1>5, <1>6, <1>8, <2>1
  <2>4. Rank[y[1]] \div per = Rank[m] \div per
    BY <1>5, <1>6, <1>8, <2>1
  <2>5. Rank[y[1]] \in Nat /\ Rank[m] \in Nat
    BY <1>3, <1>4, <2>2
  <2>6. Rank[y[1]] % per \in Nat /\ Rank[m] % per \in Nat
    BY <1>1, <2>5
  <2> HIDE DEF m, q
  <2>7. Rank[y[1]] % per = Rank[m] % per /\ y[2] = q
    BY <1>3, <2>2, <2>3, <2>6, TagsOfBuffers
  <2>8. y[1] = m
    BY <1>3, <1>4, <1>7, <2>2, <2>4, <2>5, <2>7
  <2> QED BY <1>6, <2>1, <2>2, <2>7, <2>8
<1>9. \E r \in RemoteOps(per) : Meets(r) /\ r.place = <<m, q>>
  <2> DEFINE y == <<m, q>>
             r == OpOf(per, y)
  <2>1. y \in Blocks \X Offsets4 /\ y[1] = m /\ y[2] = q
    BY <1>3
  <2> HIDE DEF y
  <2>2. /\ r.place = y /\ r.process = Rank[m] \div per
        /\ r.remote = Rank[a] \div per /\ r.recv_tag = CommTag(Rank[m] % per, Wide(q), 0)
    BY <1>3, <1>6, <2>1
  <2>3. r \in OpsOf(per)
    BY <2>1, OpsAre
  <2> HIDE DEF r, m, q, a
  <2>4. r \in RemoteOps(per)
    BY <1>5, <2>2, <2>3 DEF RemoteOps
  <2> QED BY <1>5, <2>2, <2>4 DEF y
<1>10. {t.place : t \in {r \in RemoteOps(per) : Meets(r)}} = {<<m, q>>}
  <2> HIDE DEF m, q, Meets
  <2> QED BY <1>8, <1>9
<1>11. {p \in Offsets4 : Neighbor[m][p] = a} = {q}
  <2>1. \A p \in Offsets4 : Neighbor[m][p] = a => p = q
    BY <1>3, OneWay
  <2> QED BY <1>3, <2>1
<1>12. {<<m, p>> : p \in {k \in Offsets4 : Neighbor[m][k] = a}} = {<<m, q>>}
  <2> HIDE DEF m, q, a
  <2> QED BY <1>11
<1>13. s.place[1] = a /\ s.place[2] = o
  BY <1>3, <1>5
<1> QED BY <1>10, <1>12, <1>13

-----------------------------------------------------------------------------
(* A strip turned round.                                                   *)

\* Row and column of the k-th element in line i of a strip along a side.
Index(side, i, k) == IF side < 2 THEN <<k, i>> ELSE <<i, k>>

\* Whether two edges are at the same end of their panels.
SameEnd(s, t) == s % 2 = t % 2

\* The line and the element of a strip of n lines of l elements that come to be
\* line i and element k.
LineFrom(s, t, n, i) == IF SameEnd(s, t) THEN n - 1 - i ELSE i
PlaceFrom(e, l, k) == IF e.rev THEN l - 1 - k ELSE k

IsStrip(a, side, n, l) ==
  /\ a.h = (IF side < 2 THEN l ELSE n)
  /\ a.w = (IF side < 2 THEN n ELSE l)

LEMMA RowsFlipped ==
  ASSUME NEW a, a.h \in Nat, a.w \in Nat
  PROVE  /\ FlipRows(a).h = a.h /\ FlipRows(a).w = a.w
         /\ \A r \in 0..(a.h - 1), c \in 0..(a.w - 1) :
              FlipRows(a).at[<<r, c>>] = a.at[<<a.h - 1 - r, c>>]
BY DEF FlipRows, Array

LEMMA ColumnsFlipped ==
  ASSUME NEW a, a.h \in Nat, a.w \in Nat
  PROVE  /\ FlipColumns(a).h = a.h /\ FlipColumns(a).w = a.w
         /\ \A r \in 0..(a.h - 1), c \in 0..(a.w - 1) :
              FlipColumns(a).at[<<r, c>>] = a.at[<<r, a.w - 1 - c>>]
BY DEF FlipColumns, Array

LEMMA Transposed ==
  ASSUME NEW a, a.h \in Nat, a.w \in Nat
  PROVE  /\ Transpose(a).h = a.w /\ Transpose(a).w = a.h
         /\ \A r \in 0..(a.w - 1), c \in 0..(a.h - 1) :
              Transpose(a).at[<<r, c>>] = a.at[<<c, r>>]
BY DEF Transpose, Array

\* Line i and element k of the strip as the neighbor reads it are the line
\* counted from the edge and the element that lies there.
RightWay(a, o, mine, theirs, n, l) ==
  \A i \in 0..(n - 1), k \in 0..(l - 1) :
    Oriented(a, o, mine, theirs).at[Index(theirs, i, k)]
      = a.at[Index(GetSide(o), LineFrom(GetSide(o), theirs, n, i), PlaceFrom(mine, l, k))]

\* Whatever the two sides are.
LEMMA OrientedStrip ==
  ASSUME NEW a, NEW o \in Offsets4, NEW mine, NEW theirs \in 0..3,
         NEW n \in Nat, NEW l \in Nat, IsStrip(a, GetSide(o), n, l)
  PROVE  RightWay(a, o, mine, theirs, n, l)
<1> SUFFICES ASSUME NEW i \in 0..(n - 1), NEW k \in 0..(l - 1)
             PROVE  Oriented(a, o, mine, theirs).at[Index(theirs, i, k)]
                      = a.at[Index(GetSide(o), LineFrom(GetSide(o), theirs, n, i),
                                   PlaceFrom(mine, l, k))]
  BY DEF RightWay
<1> DEFINE s == GetSide(o)
           ii == LineFrom(s, theirs, n, i)
           kk == PlaceFrom(mine, l, k)
           rev == IF mine.rev THEN IF o[1] # 0 THEN FlipColumns(a) ELSE FlipRows(a) ELSE a
           flip == IF SameEnd(s, theirs)
                   THEN IF o[1] # 0 THEN FlipRows(rev) ELSE FlipColumns(rev) ELSE rev
<1>1. s \in 0..3 /\ (o[1] # 0 <=> ~(s < 2))
  BY OffsetCases DEF GetSide, SideL, SideR, SideB, SideT
<1>2. /\ IsStrip(a, s, n, l)
      /\ ii = (IF SameEnd(s, theirs) THEN n - 1 - i ELSE i)
      /\ kk = (IF mine.rev THEN l - 1 - k ELSE k)
  BY DEF LineFrom, PlaceFrom
<1> HIDE DEF s, ii, kk
<1>3. IsStrip(rev, s, n, l)
  BY <1>1, <1>2, RowsFlipped, ColumnsFlipped DEF IsStrip
<1>4. \A x \in 0..(n - 1), y \in 0..(l - 1) :
        rev.at[Index(s, x, y)] = a.at[Index(s, x, IF mine.rev THEN l - 1 - y ELSE y)]
  <2> SUFFICES ASSUME NEW x \in 0..(n - 1), NEW y \in 0..(l - 1)
               PROVE  rev.at[Index(s, x, y)]
                        = a.at[Index(s, x, IF mine.rev THEN l - 1 - y ELSE y)]
    OBVIOUS
  <2>1. CASE ~mine.rev
    BY <2>1
  <2>2. CASE mine.rev /\ s < 2
    BY <1>1, <1>2, <2>2, RowsFlipped DEF IsStrip, Index
  <2>3. CASE mine.rev /\ ~(s < 2)
    BY <1>1, <1>2, <2>3, ColumnsFlipped DEF IsStrip, Index
  <2> QED BY <2>1, <2>2, <2>3
<1> HIDE DEF rev
<1>5. IsStrip(flip, s, n, l)
  BY <1>1, <1>3, RowsFlipped, ColumnsFlipped DEF IsStrip
<1>6. flip.at[Index(s, i, k)] = rev.at[Index(s, ii, k)]
  <2>1. CASE s < 2
    BY <1>1, <1>2, <1>3, <2>1, ColumnsFlipped DEF IsStrip, Index
  <2>2. CASE ~(s < 2)
    BY <1>1, <1>2, <1>3, <2>2, RowsFlipped DEF IsStrip, Index
  <2> QED BY <2>1, <2>2
<1>7. rev.at[Index(s, ii, k)] = a.at[Index(s, ii, kk)]
  <2>1. ii \in 0..(n - 1)
    BY <1>2
  <2>2. rev.at[Index(s, ii, k)] = a.at[Index(s, ii, IF mine.rev THEN l - 1 - k ELSE k)]
    BY <1>4, <2>1
  <2> QED BY <1>2, <2>2
<1>8. Oriented(a, o, mine, theirs) = IF (s < 2) # (theirs < 2) THEN Transpose(flip) ELSE flip
  BY DEF Oriented, rev, s, SameEnd
<1> HIDE DEF flip
<1>9. Oriented(a, o, mine, theirs).at[Index(theirs, i, k)] = flip.at[Index(s, i, k)]
  <2>1. CASE (s < 2) # (theirs < 2)
    BY <1>1, <1>5, <1>8, <2>1, Transposed DEF IsStrip, Index
  <2>2. CASE (s < 2) = (theirs < 2)
    BY <1>8, <2>2 DEF Index
  <2> QED BY <2>1, <2>2
<1> QED BY <1>6, <1>7, <1>9 DEF s, ii, kk

-----------------------------------------------------------------------------
(* Velocities and values.                                                  *)

LEMMA TurnIs ==
  ASSUME NEW table, NEW f, NEW v, NEW i \in 1..3, NEW j \in 1..3, NEW k \in 1..3,
         i # j, j # k, i # k,
         table[f + 1][i][1] = 1, table[f + 1][j][1] = 2, table[f + 1][k][1] = 3
  PROVE  Turn(table, f, v) = <<table[f + 1][i][2] * v[i], table[f + 1][j][2] * v[j],
                               table[f + 1][k][2] * v[k]>>
<1> DEFINE row == table[f + 1]
           c(x) == CHOOSE y \in 1..3 : row[y][1] = x
<1>1. \A y \in 1..3 : y = i \/ y = j \/ y = k
  OBVIOUS
<1>2. c(1) = i
  BY <1>1
<1>3. c(2) = j
  BY <1>1
<1>4. c(3) = k
  BY <1>1
<1>5. Turn(table, f, v) = <<row[c(1)][2] * v[c(1)], row[c(2)][2] * v[c(2)],
                            row[c(3)][2] * v[c(3)]>>
  BY DEF Turn
<1> HIDE DEF c
<1> QED BY <1>2, <1>3, <1>4, <1>5

\* The velocity in space along z, x and y.
Cart == <<1, 2, 3>>

LEMMA HereIs ==
  /\ Here(0) = <<2, 3, 1>> /\ Here(1) = <<3, -2, 1>> /\ Here(2) = <<-2, -3, 1>>
  /\ Here(3) = <<1, 3, -2>> /\ Here(4) = <<-3, 2, 1>> /\ Here(5) = <<-1, 3, 2>>
BY DEF Here, LocalOf, Dot, FacePoint, Space

\* What one panel turns into the components of space, another turns into its own.
LEMMA TurnedBothWays ==
  ASSUME NEW f \in Faces
  PROVE  /\ Turn(LocalToCart, f, Here(f)) = Cart
         /\ Turn(CartToLocal, f, Cart) = Here(f)
<1>1. f = 0 \/ f = 1 \/ f = 2 \/ f = 3 \/ f = 4 \/ f = 5
  BY DEF Faces
<1>2. Turn(LocalToCart, 0, Here(0)) = Cart /\ Turn(CartToLocal, 0, Cart) = Here(0)
  <2>1. LocalToCart[0 + 1] = << <<2, 1>>, <<3, 1>>, <<1, 1>> >>
    BY DEF LocalToCart
  <2>2. Turn(LocalToCart, 0, Here(0)) = <<1 * Here(0)[3], 1 * Here(0)[1], 1 * Here(0)[2]>>
    BY <2>1, TurnIs
  <2>3. CartToLocal[0 + 1] = << <<3, 1>>, <<1, 1>>, <<2, 1>> >>
    BY DEF CartToLocal
  <2>4. Turn(CartToLocal, 0, Cart) = <<1 * Cart[2], 1 * Cart[3], 1 * Cart[1]>>
    BY <2>3, TurnIs
  <2> QED BY <2>2, <2>4, HereIs DEF Cart
<1>3. Turn(LocalToCart, 1, Here(1)) = Cart /\ Turn(CartToLocal, 1, Cart) = Here(1)
  <2>1. LocalToCart[1 + 1] = << <<3, 1>>, <<2, -1>>, <<1, 1>> >>
    BY DEF LocalToCart
  <2>2. Turn(LocalToCart, 1, Here(1)) = <<1 * Here(1)[3], (-1) * Here(1)[2], 1 * Here(1)[1]>>
    BY <2>1, TurnIs
  <2>3. CartToLocal[1 + 1] = << <<3, 1>>, <<2, -1>>, <<1, 1>> >>
    BY DEF CartToLocal
  <2>4. Turn(CartToLocal, 1, Cart) = <<1 * Cart[3], (-1) * Cart[2], 1 * Cart[1]>>
    BY <2>3, TurnIs
  <2> QED BY <2>2, <2>4, HereIs DEF Cart
<1>4. Turn(LocalToCart, 2, Here(2)) = Cart /\ Turn(CartToLocal, 2, Cart) = Here(2)
  <2>1. LocalToCart[2 + 1] = << <<2, -1>>, <<3, -1>>, <<1, 1>> >>
    BY DEF LocalToCart
  <2>2. Turn(LocalToCart, 2, Here(2)) = <<1 * Here(2)[3], (-1) * Here(2)[1], (-1) * Here(2)[2]>>
    BY <2>1, TurnIs
  <2>3. CartToLocal[2 + 1] = << <<3, 1>>, <<1, -1>>, <<2, -1>> >>
    BY DEF CartToLocal
  <2>4. Turn(CartToLocal, 2, Cart) = <<(-1) * Cart[2], (-1) * Cart[3], 1 * Cart[1]>>
    BY <2>3, TurnIs
  <2> QED BY <2>2, <2>4, HereIs DEF Cart
<1>5. Turn(LocalToCart, 3, Here(3)) = Cart /\ Turn(CartToLocal, 3, Cart) = Here(3)
  <2>1. LocalToCart[3 + 1] = << <<1, 1>>, <<3, 1>>, <<2, -1>> >>
    BY DEF LocalToCart
  <2>2. Turn(LocalToCart, 3, Here(3)) = <<1 * Here(3)[1], (-1) * Here(3)[3], 1 * Here(3)[2]>>
    BY <2>1, TurnIs
  <2>3. CartToLocal[3 + 1] = << <<1, 1>>, <<3, -1>>, <<2, 1>> >>
    BY DEF CartToLocal
  <2>4. Turn(CartToLocal, 3, Cart) = <<1 * Cart[1], 1 * Cart[3], (-1) * Cart[2]>>
    BY <2>3, TurnIs
  <2> QED BY <2>2, <2>4, HereIs DEF Cart
<1>6. Turn(LocalToCart, 4, Here(4)) = Cart /\ Turn(CartToLocal, 4, Cart) = Here(4)
  <2>1. LocalToCart[4 + 1] = << <<3, -1>>, <<2, 1>>, <<1, 1>> >>
    BY DEF LocalToCart
  <2>2. Turn(LocalToCart, 4, Here(4)) = <<1 * Here(4)[3], 1 * Here(4)[2], (-1) * Here(4)[1]>>
    BY <2>1, TurnIs
  <2>3. CartToLocal[4 + 1] = << <<3, 1>>, <<2, 1>>, <<1, -1>> >>
    BY DEF CartToLocal
  <2>4. Turn(CartToLocal, 4, Cart) = <<(-1) * Cart[3], 1 * Cart[2], 1 * Cart[1]>>
    BY <2>3, TurnIs
  <2> QED BY <2>2, <2>4, HereIs DEF Cart
<1>7. Turn(LocalToCart, 5, Here(5)) = Cart /\ Turn(CartToLocal, 5, Cart) = Here(5)
  <2>1. LocalToCart[5 + 1] = << <<1, -1>>, <<3, 1>>, <<2, 1>> >>
    BY DEF LocalToCart
  <2>2. Turn(LocalToCart, 5, Here(5)) = <<(-1) * Here(5)[1], 1 * Here(5)[3], 1 * Here(5)[2]>>
    BY <2>1, TurnIs
  <2>3. CartToLocal[5 + 1] = << <<1, -1>>, <<3, 1>>, <<2, 1>> >>
    BY DEF CartToLocal
  <2>4. Turn(CartToLocal, 5, Cart) = <<(-1) * Cart[1], 1 * Cart[3], 1 * Cart[2]>>
    BY <2>3, TurnIs
  <2> QED BY <2>2, <2>4, HereIs DEF Cart
<1> QED BY <1>1, <1>2, <1>3, <1>4, <1>5, <1>6, <1>7

TurnsOne(table, f, x, t, v) ==
  TurnAll(table, f, {<<x, t, v>>}) = {<<x, t, Turn(table, f, v)>>}

LEMMA TurnedOne ==
  ASSUME NEW table, NEW f, NEW x, NEW t, NEW v
  PROVE  TurnsOne(table, f, x, t, v)
BY DEF TurnAll, TurnsOne

-----------------------------------------------------------------------------
(* Cells at the edges of blocks and panels.                                *)

LEMMA Strides ==
  ASSUME NEW p \in 1..4, NEW i \in 0..(p - 1), NEW w \in Nat, NEW k \in Int,
         w > 1, -w <= k, k < 2 * w
  PROVE  /\ i * w \in Nat /\ p * w \in Nat /\ p * w > 1
         /\ i = 0 => i * w = 0
         /\ i = p - 1 => i * w = p * w - w
         /\ k \in 0..(w - 1) => i * w + k \in 0..(p * w - 1)
         /\ k < 0 => (i * w + k \in 0..(p * w - 1) <=> i # 0)
         /\ k >= w => (i * w + k \in 0..(p * w - 1) <=> i # p - 1)
         /\ (p - 1 - i) * w + (w - 1 - k) = p * w - 1 - (i * w + k)
<1>1. p = 1 \/ p = 2 \/ p = 3 \/ p = 4
  OBVIOUS
<1>2. i = 0 \/ i = 1 \/ i = 2 \/ i = 3
  BY <1>1
<1>3. CASE p = 1
  BY <1>2, <1>3
<1>4. CASE p = 2
  BY <1>2, <1>4
<1>5. CASE p = 3
  BY <1>2, <1>5
<1>6. CASE p = 4
  BY <1>2, <1>6
<1> QED BY <1>1, <1>3, <1>4, <1>5, <1>6

\* The cell d deep in a block behind its edge at offset o, at place k along the
\* edge, and the one d deep beyond that edge.
InnerCell(o, d, k) ==
  CASE GetSide(o) = SideL -> <<d - 1, k>> [] GetSide(o) = SideR -> <<Width - d, k>>
    [] GetSide(o) = SideB -> <<k, d - 1>> [] GetSide(o) = SideT -> <<k, Width - d>>

OuterCell(o, d, k) ==
  CASE GetSide(o) = SideL -> <<-d, k>> [] GetSide(o) = SideR -> <<Width + d - 1, k>>
    [] GetSide(o) = SideB -> <<k, -d>> [] GetSide(o) = SideT -> <<k, Width + d - 1>>

\* The lines of a strip in which they are.
InnerLine(side, n, d) == IF side % 2 = 0 THEN d - 1 ELSE n - d
OuterLine(side, n, d) == IF side % 2 = 0 THEN n - d ELSE d - 1

Lines(round) == IF round \in Seams THEN 1 ELSE Nghost

Along(round) == (-Margin(round))..(Width - 1 + Margin(round))

LEMMA SideCases ==
  ASSUME NEW o \in Offsets4
  PROVE  \/ o = <<0, -1>> /\ o[1] = 0 /\ o[2] = -1 /\ GetSide(o) = 0
         \/ o = <<0, 1>> /\ o[1] = 0 /\ o[2] = 1 /\ GetSide(o) = 1
         \/ o = <<-1, 0>> /\ o[1] = -1 /\ o[2] = 0 /\ GetSide(o) = 2
         \/ o = <<1, 0>> /\ o[1] = 1 /\ o[2] = 0 /\ GetSide(o) = 3
BY OffsetCases DEF GetSide, SideL, SideR, SideB, SideT

LEMMA InnerCells ==
  ASSUME NEW o \in Offsets4, NEW d, NEW k
  PROVE  /\ GetSide(o) = 0 => InnerCell(o, d, k) = <<d - 1, k>>
         /\ GetSide(o) = 1 => InnerCell(o, d, k) = <<Width - d, k>>
         /\ GetSide(o) = 2 => InnerCell(o, d, k) = <<k, d - 1>>
         /\ GetSide(o) = 3 => InnerCell(o, d, k) = <<k, Width - d>>
         /\ GetSide(o) = 0 => OuterCell(o, d, k) = <<-d, k>>
         /\ GetSide(o) = 1 => OuterCell(o, d, k) = <<Width + d - 1, k>>
         /\ GetSide(o) = 2 => OuterCell(o, d, k) = <<k, -d>>
         /\ GetSide(o) = 3 => OuterCell(o, d, k) = <<k, Width + d - 1>>
BY DEF InnerCell, OuterCell, SideL, SideR, SideB, SideT

LEMMA Margins ==
  ASSUME size \in Sizes, NEW round \in Rounds
  PROVE  /\ Margin(round) \in Nat /\ Margin(round) <= Nghost
         /\ Lines(round) \in Nat /\ Lines(round) >= 1 /\ Lines(round) <= Nghost
         /\ round = "intra" => Margin(round) = 0 /\ Lines(round) = Nghost
         /\ round \in {"cross", "all"} => Margin(round) = Nghost /\ Lines(round) = Nghost
         /\ round \in Seams => Margin(round) = 0 /\ Lines(round) = 1
BY SizeTypes DEF Margin, Lines, Seams, Rounds

\* Where the parts are (MeshBlockImpl::part).
LEMMA PartIs ==
  ASSUME size \in Sizes, NEW round \in Rounds, NEW o \in Offsets4, NEW exterior \in BOOLEAN
  PROVE  LET p == Part(round, o, exterior)
             m == Margin(round)
             n == Lines(round)
             side == IF round \in Seams THEN GetSide(o) % 2 = 1 ELSE exterior
         IN /\ GetSide(o) < 2 => /\ p.y = -m /\ p.h = Width + 2 * m /\ p.w = n
                                 /\ p.x = (IF GetSide(o) = 0 THEN IF side THEN -Nghost ELSE 0
                                           ELSE IF side THEN Width ELSE Width - Nghost)
            /\ ~(GetSide(o) < 2) => /\ p.x = -m /\ p.w = Width + 2 * m /\ p.h = n
                                    /\ p.y = (IF GetSide(o) = 2 THEN IF side THEN -Nghost ELSE 0
                                              ELSE IF side THEN Width ELSE Width - Nghost)
<1> DEFINE p == Part(round, o, exterior)
           m == Margin(round)
           n == Lines(round)
           s == IF round \in Seams THEN SeamSide(o, exterior) ELSE exterior
           depth == IF round \in Seams THEN 1 ELSE 99
<1>1. /\ p.x = Start(o[2], s, m) /\ p.w = Length(o[2], depth, m)
      /\ p.y = Start(o[1], s, m) /\ p.h = Length(o[1], depth, m)
  BY DEF Part
<1>2. Nghost \in Nat /\ Nghost >= 1 /\ Nghost <= 99
  BY SizeTypes
<1>3. (IF depth < Nghost THEN depth ELSE Nghost) = n
  BY <1>2 DEF Lines
<1>4. s = IF round \in Seams THEN GetSide(o) % 2 = 1 ELSE exterior
  BY SideCases DEF SeamSide
<1> HIDE DEF p, m, n, s, depth
<1>5. GetSide(o) = 0 => /\ p.y = -m /\ p.h = Width + 2 * m /\ p.w = n
                        /\ p.x = (IF s THEN -Nghost ELSE 0)
  BY <1>1, <1>3, SideCases DEF Start, Length
<1>6. GetSide(o) = 1 => /\ p.y = -m /\ p.h = Width + 2 * m /\ p.w = n
                        /\ p.x = (IF s THEN Width ELSE Width - Nghost)
  BY <1>1, <1>3, SideCases DEF Start, Length
<1>7. GetSide(o) = 2 => /\ p.x = -m /\ p.w = Width + 2 * m /\ p.h = n
                        /\ p.y = (IF s THEN -Nghost ELSE 0)
  BY <1>1, <1>3, SideCases DEF Start, Length
<1>8. GetSide(o) = 3 => /\ p.x = -m /\ p.w = Width + 2 * m /\ p.h = n
                        /\ p.y = (IF s THEN Width ELSE Width - Nghost)
  BY <1>1, <1>3, SideCases DEF Start, Length
<1>9. GetSide(o) = 0 \/ GetSide(o) = 1 \/ GetSide(o) = 2 \/ GetSide(o) = 3
  BY SideCases
<1>10. /\ GetSide(o) < 2 => /\ p.y = -m /\ p.h = Width + 2 * m /\ p.w = n
                            /\ p.x = (IF GetSide(o) = 0 THEN IF s THEN -Nghost ELSE 0
                                      ELSE IF s THEN Width ELSE Width - Nghost)
       /\ ~(GetSide(o) < 2) => /\ p.x = -m /\ p.w = Width + 2 * m /\ p.h = n
                               /\ p.y = (IF GetSide(o) = 2 THEN IF s THEN -Nghost ELSE 0
                                         ELSE IF s THEN Width ELSE Width - Nghost)
  BY <1>5, <1>6, <1>7, <1>8, <1>9
<1> QED BY <1>4, <1>10 DEF p, m, n

\* Where a ghost cell is in the part it arrives with.
LEMMA OuterIndex ==
  ASSUME size \in Sizes, NEW round \in Rounds \ Seams, NEW o \in Offsets4,
         NEW d \in 1..Nghost, NEW k \in Int
  PROVE  LET c == OuterCell(o, d, k)
             p == Part(round, o, TRUE)
         IN <<c[2] - p.y, c[1] - p.x>>
              = Index(GetSide(o), OuterLine(GetSide(o), Nghost, d), k + Margin(round))
<1> DEFINE p == Part(round, o, TRUE)
           m == Margin(round)
           c == OuterCell(o, d, k)
<1>1. /\ GetSide(o) < 2 => p.y = -m /\ p.x = (IF GetSide(o) = 0 THEN -Nghost ELSE Width)
      /\ ~(GetSide(o) < 2) => p.x = -m /\ p.y = (IF GetSide(o) = 2 THEN -Nghost ELSE Width)
  BY PartIs
<1>2. m \in Nat /\ Nghost \in Nat /\ Width \in Nat
  BY Margins, SizeTypes
<1>3. /\ GetSide(o) = 0 => c = <<-d, k>>
      /\ GetSide(o) = 1 => c = <<Width + d - 1, k>>
      /\ GetSide(o) = 2 => c = <<k, -d>>
      /\ GetSide(o) = 3 => c = <<k, Width + d - 1>>
  BY InnerCells
<1> HIDE DEF p, m, c
<1>4. GetSide(o) = 0 \/ GetSide(o) = 1 \/ GetSide(o) = 2 \/ GetSide(o) = 3
  BY SideCases
<1>5. <<c[2] - p.y, c[1] - p.x>>
        = Index(GetSide(o), OuterLine(GetSide(o), Nghost, d), k + m)
  BY <1>1, <1>2, <1>3, <1>4 DEF Index, OuterLine
<1> QED BY <1>5 DEF p, m, c

\* What is packed is the cells next to the edge (serialize), in a seam those
\* whose states are at the faces of the edge.
LEMMA HeldIs ==
  ASSUME size \in Sizes, NEW b, NEW round \in Rounds, NEW o \in Offsets4,
         NEW d \in 1..Lines(round), NEW k \in Int
  PROVE  LET p == Part(round, o, FALSE)
             ix == Index(GetSide(o), InnerLine(GetSide(o), Lines(round), d),
                         k + Margin(round))
         IN Held(b, round, o, p.x + ix[2], p.y + ix[1]) = u[b][InnerCell(o, d, k)]
<1> DEFINE p == Part(round, o, FALSE)
           m == Margin(round)
           n == Lines(round)
           s == GetSide(o)
           ix == Index(s, InnerLine(s, n, d), k + m)
           c == InnerCell(o, d, k)
           seam == round \in Seams
<1>1. /\ s < 2 => p.y = -m /\ p.x = (IF s = 0 THEN IF seam /\ s % 2 = 1 THEN -Nghost ELSE 0
                                     ELSE IF seam /\ s % 2 = 1 THEN Width ELSE Width - Nghost)
      /\ ~(s < 2) => p.x = -m /\ p.y = (IF s = 2 THEN IF seam /\ s % 2 = 1 THEN -Nghost ELSE 0
                                        ELSE IF seam /\ s % 2 = 1 THEN Width ELSE Width - Nghost)
  BY PartIs
<1>2. /\ m \in Nat /\ Nghost \in Nat /\ Width \in Nat /\ n \in Nat
      /\ (seam => n = 1) /\ (~seam => n = Nghost) /\ d \in 1..n
  BY Margins, SizeTypes DEF Lines
<1>3. /\ s = 0 => c = <<d - 1, k>>
      /\ s = 1 => c = <<Width - d, k>>
      /\ s = 2 => c = <<k, d - 1>>
      /\ s = 3 => c = <<k, Width - d>>
  BY InnerCells
<1>4. /\ s = 0 => o[1] = 0 /\ o[2] = -1
      /\ s = 1 => o[1] = 0 /\ o[2] = 1
      /\ s = 2 => o[1] = -1 /\ o[2] = 0
      /\ s = 3 => o[1] = 1 /\ o[2] = 0
  BY SideCases
<1>5. s = 0 \/ s = 1 \/ s = 2 \/ s = 3
  BY SideCases
<1>6. Held(b, round, o, p.x + ix[2], p.y + ix[1])
        = IF seam /\ o[1] + o[2] > 0 THEN u[b][<<(p.x + ix[2]) - o[2], (p.y + ix[1]) - o[1]>>]
          ELSE u[b][<<p.x + ix[2], p.y + ix[1]>>]
  BY DEF Held
<1>7. /\ s < 2 => ix[1] = k + m /\ ix[2] = InnerLine(s, n, d)
      /\ ~(s < 2) => ix[1] = InnerLine(s, n, d) /\ ix[2] = k + m
  BY DEF Index
<1>8. InnerLine(s, n, d) = IF s = 0 \/ s = 2 THEN d - 1 ELSE n - d
  BY <1>5 DEF InnerLine
<1> HIDE DEF p, m, n, s, ix, c, seam
<1>9. IF seam /\ o[1] + o[2] > 0
      THEN <<(p.x + ix[2]) - o[2], (p.y + ix[1]) - o[1]>> = c
      ELSE <<p.x + ix[2], p.y + ix[1]>> = c
  <2>1. CASE s = 0
    BY <1>1, <1>2, <1>3, <1>4, <1>7, <1>8, <2>1
  <2>2. CASE s = 1
    BY <1>1, <1>2, <1>3, <1>4, <1>7, <1>8, <2>2
  <2>3. CASE s = 2
    BY <1>1, <1>2, <1>3, <1>4, <1>7, <1>8, <2>3
  <2>4. CASE s = 3
    BY <1>1, <1>2, <1>3, <1>4, <1>7, <1>8, <2>4
  <2> QED BY <1>5, <2>1, <2>2, <2>3, <2>4
<1>10. Held(b, round, o, p.x + ix[2], p.y + ix[1]) = u[b][c]
  BY <1>6, <1>9
<1> QED BY <1>10 DEF p, m, n, s, ix, c

LEMMA OuterIsInner ==
  ASSUME NEW s \in 0..3, NEW t \in 0..3, NEW n \in Nat, NEW d \in 1..n
  PROVE  /\ OuterLine(t, n, d) \in 0..(n - 1) /\ InnerLine(s, n, d) \in 0..(n - 1)
         /\ InnerLine(s, n, d) = LineFrom(s, t, n, OuterLine(t, n, d))
<1>1. s = 0 \/ s = 1 \/ s = 2 \/ s = 3
  OBVIOUS
<1>2. t = 0 \/ t = 1 \/ t = 2 \/ t = 3
  OBVIOUS
<1> QED BY <1>1, <1>2 DEF OuterLine, InnerLine, SameEnd, LineFrom

\* The strip of a round before it is turned round.
Strip(b, round, o) ==
  LET p == Part(round, o, FALSE)
      at(r, c) == LET value == Held(b, round, o, p.x + c, p.y + r)
                  IN IF SamePanel(b, o) THEN value
                     ELSE TurnAll(LocalToCart, b[3], value)
  IN Array(p.h, p.w, at)

LEMMA StripIs ==
  ASSUME size \in Sizes, NEW b, NEW round \in Rounds, NEW o \in Offsets4
  PROVE  /\ IsStrip(Strip(b, round, o), GetSide(o), Lines(round), Width + 2 * Margin(round))
         /\ \A d \in 1..Lines(round), k \in Along(round) :
              Strip(b, round, o).at[Index(GetSide(o), InnerLine(GetSide(o), Lines(round), d),
                                          k + Margin(round))]
                = IF SamePanel(b, o) THEN u[b][InnerCell(o, d, k)]
                  ELSE TurnAll(LocalToCart, b[3], u[b][InnerCell(o, d, k)])
<1> DEFINE p == Part(round, o, FALSE)
           m == Margin(round)
           n == Lines(round)
           s == GetSide(o)
           a == Strip(b, round, o)
           value(r, c) == Held(b, round, o, p.x + c, p.y + r)
<1>1. s \in 0..3 /\ m \in Nat /\ n \in Nat /\ Width \in Nat
  BY SideCases, Margins, SizeTypes
<1>2. /\ s < 2 => p.h = Width + 2 * m /\ p.w = n
      /\ ~(s < 2) => p.w = Width + 2 * m /\ p.h = n
  BY PartIs
<1>3. /\ a.h = p.h /\ a.w = p.w
      /\ \A r \in 0..(p.h - 1), c \in 0..(p.w - 1) :
           a.at[<<r, c>>] = IF SamePanel(b, o) THEN value(r, c)
                            ELSE TurnAll(LocalToCart, b[3], value(r, c))
  <2> HIDE DEF p
  <2> QED BY DEF Strip, Array, p
<1>4. IsStrip(a, s, n, Width + 2 * m)
  BY <1>2, <1>3 DEF IsStrip
<1>5. ASSUME NEW d \in 1..n, NEW k \in Along(round)
      PROVE  a.at[Index(s, InnerLine(s, n, d), k + m)]
               = IF SamePanel(b, o) THEN u[b][InnerCell(o, d, k)]
                 ELSE TurnAll(LocalToCart, b[3], u[b][InnerCell(o, d, k)])
  <2> DEFINE ix == Index(s, InnerLine(s, n, d), k + m)
  <2>1. k \in Int /\ k + m \in 0..(Width + 2 * m - 1)
    BY <1>1 DEF Along
  <2>2. InnerLine(s, n, d) \in 0..(n - 1)
    BY <1>1, OuterIsInner
  <2>3. ix[1] \in 0..(p.h - 1) /\ ix[2] \in 0..(p.w - 1) /\ ix = <<ix[1], ix[2]>>
    <3> HIDE DEF p, m, n, s
    <3> QED BY <1>1, <1>2, <2>1, <2>2 DEF Index
  <2>4. value(ix[1], ix[2]) = u[b][InnerCell(o, d, k)]
    BY <2>1, HeldIs
  <2> HIDE DEF value, ix, a, p, m, n, s
  <2>5. a.at[ix] = IF SamePanel(b, o) THEN value(ix[1], ix[2])
                   ELSE TurnAll(LocalToCart, b[3], value(ix[1], ix[2]))
    BY <1>3, <2>3
  <2> QED BY <2>4, <2>5 DEF ix
<1> QED BY <1>4, <1>5

\* A buffer has, where the neighbor looks for a cell beyond its edge, the cell that
\* lies there.
PackedRight(b, round, o, d, k) ==
  LET side == GetSide(Peer[b][o])
      kk == PlaceFrom(EdgeOf(b, o), Width, k)
  IN Packed(b, round, o).at[Index(side, OuterLine(side, Lines(round), d), k + Margin(round))]
       = IF SamePanel(b, o) THEN u[b][InnerCell(o, d, k)]
         ELSE TurnAll(LocalToCart, b[3], u[b][InnerCell(o, d, kk)])

LEMMA PackedIs ==
  ASSUME size \in Sizes, NEW b \in Blocks, NEW round \in Rounds, NEW o \in Offsets4,
         NEW d \in 1..Lines(round), NEW k \in Along(round)
  PROVE  PackedRight(b, round, o, d, k)
<1> DEFINE side == GetSide(Peer[b][o])
           s == GetSide(o)
           e == EdgeOf(b, o)
           m == Margin(round)
           n == Lines(round)
           l == Width + 2 * m
           a == Strip(b, round, o)
           kk == PlaceFrom(e, Width, k)
<1>1. /\ s \in 0..3 /\ m \in Nat /\ n \in Nat /\ Width \in Nat /\ l \in Nat
      /\ side \in 0..3
  BY SideCases, Margins, SizeTypes, Plan
<1>2. Packed(b, round, o) = IF SamePanel(b, o) THEN a ELSE Oriented(a, o, e, e.nside)
  BY DEF Packed, Strip, EdgeOf
<1>3. IsStrip(a, s, n, l)
  BY StripIs
<1>4. \A x \in Along(round) :
        a.at[Index(s, InnerLine(s, n, d), x + m)]
          = IF SamePanel(b, o) THEN u[b][InnerCell(o, d, x)]
            ELSE TurnAll(LocalToCart, b[3], u[b][InnerCell(o, d, x)])
  BY StripIs
<1>5. /\ k \in Along(round) /\ kk \in Along(round) /\ k + m \in 0..(l - 1)
      /\ kk + m = PlaceFrom(e, l, k + m)
  BY <1>1 DEF Along, PlaceFrom
<1>6. /\ OuterLine(side, n, d) \in 0..(n - 1)
      /\ InnerLine(s, n, d) = LineFrom(s, side, n, OuterLine(side, n, d))
  BY <1>1, OuterIsInner
<1>7. CASE SamePanel(b, o)
  <2>1. Peer[b][o] = Minus(o)
    BY <1>7, Plan DEF Way
  <2>2. ~SameEnd(s, side) /\ (s < 2 <=> side < 2)
    <3>1. GetSide(<<0, 1>>) = 1 /\ GetSide(<<0, -1>>) = 0
          /\ GetSide(<<1, 0>>) = 3 /\ GetSide(<<-1, 0>>) = 2
      BY DEF GetSide, SideL, SideR, SideB, SideT
    <3>2. \/ s = 0 /\ side = 1
          \/ s = 1 /\ side = 0
          \/ s = 2 /\ side = 3
          \/ s = 3 /\ side = 2
      BY <2>1, <3>1, SideCases DEF Minus
    <3> QED BY <3>2 DEF SameEnd
  <2>3. Index(side, OuterLine(side, n, d), k + m) = Index(s, InnerLine(s, n, d), k + m)
    BY <1>6, <2>2 DEF Index, LineFrom
  <2> HIDE DEF a, e, s, side, m, n, kk
  <2>4. Packed(b, round, o).at[Index(side, OuterLine(side, n, d), k + m)]
          = u[b][InnerCell(o, d, k)]
    BY <1>2, <1>4, <1>5, <1>7, <2>3
  <2> QED BY <1>7, <2>4 DEF side, m, n, PackedRight
<1>8. CASE ~SamePanel(b, o)
  <2>1. e.nside = side
    BY <1>8, Plan, StepOver, SizeTypes DEF Way, Blocks
  <2> HIDE DEF m, n, kk, l, s, side
  <2>2. Oriented(a, o, e, side).at[Index(side, OuterLine(side, n, d), k + m)]
          = a.at[Index(s, InnerLine(s, n, d), kk + m)]
    <3> DEFINE i == OuterLine(side, n, d)
               j == k + m
    <3>1. i \in 0..(n - 1) /\ j \in 0..(l - 1)
      BY <1>5, <1>6
    <3>2. IsStrip(a, GetSide(o), n, l) /\ n \in Nat /\ l \in Nat /\ side \in 0..3
      BY <1>1, <1>3 DEF s
    <3> HIDE DEF i, j
    <3>3. RightWay(a, o, e, side, n, l)
      BY <3>2, OrientedStrip
    <3>4. Oriented(a, o, e, side).at[Index(side, i, j)]
            = a.at[Index(GetSide(o), LineFrom(GetSide(o), side, n, i), PlaceFrom(e, l, j))]
      BY <3>1, <3>3 DEF RightWay
    <3> QED BY <1>5, <1>6, <3>4 DEF i, j, s
  <2>3. Packed(b, round, o).at[Index(side, OuterLine(side, n, d), k + m)]
          = a.at[Index(s, InnerLine(s, n, d), kk + m)]
    BY <1>2, <1>8, <2>1, <2>2
  <2>4. Packed(b, round, o).at[Index(side, OuterLine(side, n, d), k + m)]
          = TurnAll(LocalToCart, b[3], u[b][InnerCell(o, d, kk)])
    BY <1>4, <1>5, <1>8, <2>3
  <2> QED BY <1>8, <2>4 DEF side, m, n, kk, e, PackedRight
<1> QED BY <1>7, <1>8

LEMMA LocalIs ==
  ASSUME NEW x \in Int, NEW y \in Int, NEW z \in Int
  PROVE  /\ LocalOf(0, <<x, y, z>>) = <<x, y, z>>
         /\ LocalOf(1, <<x, y, z>>) = <<y, -x, z>>
         /\ LocalOf(2, <<x, y, z>>) = <<-x, -y, z>>
         /\ LocalOf(3, <<x, y, z>>) = <<z, y, -x>>
         /\ LocalOf(4, <<x, y, z>>) = <<-y, x, z>>
         /\ LocalOf(5, <<x, y, z>>) = <<-z, y, x>>
BY DEF LocalOf, Dot, FacePoint

\* The cell at a point of the cube.
FoldedAt(n, p) ==
  LET f == CHOOSE g \in Faces : LocalOf(g, p)[1] = n
      q == LocalOf(f, p)
  IN <<f, (q[2] + n - 1) \div 2, (q[3] + n - 1) \div 2>>

Within(v, n) == v \in Int /\ -n < v /\ v < n

LEMMA FoldedIs ==
  ASSUME NEW n \in Nat, n > 1, NEW x \in Int, NEW y \in Int, NEW z \in Int
  PROVE  /\ x = n /\ Within(y, n) /\ Within(z, n) =>
              FoldedAt(n, <<x, y, z>>) = <<0, (y + n - 1) \div 2, (z + n - 1) \div 2>>
         /\ y = n /\ Within(x, n) /\ Within(z, n) =>
              FoldedAt(n, <<x, y, z>>) = <<1, (-x + n - 1) \div 2, (z + n - 1) \div 2>>
         /\ x = -n /\ Within(y, n) /\ Within(z, n) =>
              FoldedAt(n, <<x, y, z>>) = <<2, (-y + n - 1) \div 2, (z + n - 1) \div 2>>
         /\ z = n /\ Within(x, n) /\ Within(y, n) =>
              FoldedAt(n, <<x, y, z>>) = <<3, (y + n - 1) \div 2, (-x + n - 1) \div 2>>
         /\ y = -n /\ Within(x, n) /\ Within(z, n) =>
              FoldedAt(n, <<x, y, z>>) = <<4, (x + n - 1) \div 2, (z + n - 1) \div 2>>
         /\ z = -n /\ Within(x, n) /\ Within(y, n) =>
              FoldedAt(n, <<x, y, z>>) = <<5, (y + n - 1) \div 2, (x + n - 1) \div 2>>
<1> DEFINE p == <<x, y, z>>
           f == CHOOSE g \in Faces : LocalOf(g, p)[1] = n
<1>1. \A g : g \in Faces <=> g = 0 \/ g = 1 \/ g = 2 \/ g = 3 \/ g = 4 \/ g = 5
  BY DEF Faces
<1>2. /\ LocalOf(0, p) = <<x, y, z>> /\ LocalOf(1, p) = <<y, -x, z>>
      /\ LocalOf(2, p) = <<-x, -y, z>> /\ LocalOf(3, p) = <<z, y, -x>>
      /\ LocalOf(4, p) = <<-y, x, z>> /\ LocalOf(5, p) = <<-z, y, x>>
  BY LocalIs
<1>3. FoldedAt(n, p) = <<f, (LocalOf(f, p)[2] + n - 1) \div 2, (LocalOf(f, p)[3] + n - 1) \div 2>>
  BY DEF FoldedAt
<1> HIDE DEF p
<1>4. x = n /\ Within(y, n) /\ Within(z, n) =>
        FoldedAt(n, p) = <<0, (y + n - 1) \div 2, (z + n - 1) \div 2>>
  <2> SUFFICES ASSUME x = n, Within(y, n), Within(z, n)
               PROVE  FoldedAt(n, p) = <<0, (y + n - 1) \div 2, (z + n - 1) \div 2>>
    OBVIOUS
  <2>1. LocalOf(0, p)[1] = n /\ \A g \in Faces : LocalOf(g, p)[1] = n => g = 0
    BY <1>1, <1>2 DEF Within
  <2>2. f = 0
    BY <1>1, <2>1
  <2> HIDE DEF f
  <2> QED BY <1>2, <1>3, <2>2
<1>5. y = n /\ Within(x, n) /\ Within(z, n) =>
        FoldedAt(n, p) = <<1, (-x + n - 1) \div 2, (z + n - 1) \div 2>>
  <2> SUFFICES ASSUME y = n, Within(x, n), Within(z, n)
               PROVE  FoldedAt(n, p) = <<1, (-x + n - 1) \div 2, (z + n - 1) \div 2>>
    OBVIOUS
  <2>1. LocalOf(1, p)[1] = n /\ \A g \in Faces : LocalOf(g, p)[1] = n => g = 1
    BY <1>1, <1>2 DEF Within
  <2>2. f = 1
    BY <1>1, <2>1
  <2> HIDE DEF f
  <2> QED BY <1>2, <1>3, <2>2
<1>6. x = -n /\ Within(y, n) /\ Within(z, n) =>
        FoldedAt(n, p) = <<2, (-y + n - 1) \div 2, (z + n - 1) \div 2>>
  <2> SUFFICES ASSUME x = -n, Within(y, n), Within(z, n)
               PROVE  FoldedAt(n, p) = <<2, (-y + n - 1) \div 2, (z + n - 1) \div 2>>
    OBVIOUS
  <2>1. LocalOf(2, p)[1] = n /\ \A g \in Faces : LocalOf(g, p)[1] = n => g = 2
    BY <1>1, <1>2 DEF Within
  <2>2. f = 2
    BY <1>1, <2>1
  <2> HIDE DEF f
  <2> QED BY <1>2, <1>3, <2>2
<1>7. z = n /\ Within(x, n) /\ Within(y, n) =>
        FoldedAt(n, p) = <<3, (y + n - 1) \div 2, (-x + n - 1) \div 2>>
  <2> SUFFICES ASSUME z = n, Within(x, n), Within(y, n)
               PROVE  FoldedAt(n, p) = <<3, (y + n - 1) \div 2, (-x + n - 1) \div 2>>
    OBVIOUS
  <2>1. LocalOf(3, p)[1] = n /\ \A g \in Faces : LocalOf(g, p)[1] = n => g = 3
    BY <1>1, <1>2 DEF Within
  <2>2. f = 3
    BY <1>1, <2>1
  <2> HIDE DEF f
  <2> QED BY <1>2, <1>3, <2>2
<1>8. y = -n /\ Within(x, n) /\ Within(z, n) =>
        FoldedAt(n, p) = <<4, (x + n - 1) \div 2, (z + n - 1) \div 2>>
  <2> SUFFICES ASSUME y = -n, Within(x, n), Within(z, n)
               PROVE  FoldedAt(n, p) = <<4, (x + n - 1) \div 2, (z + n - 1) \div 2>>
    OBVIOUS
  <2>1. LocalOf(4, p)[1] = n /\ \A g \in Faces : LocalOf(g, p)[1] = n => g = 4
    BY <1>1, <1>2 DEF Within
  <2>2. f = 4
    BY <1>1, <2>1
  <2> HIDE DEF f
  <2> QED BY <1>2, <1>3, <2>2
<1>9. z = -n /\ Within(x, n) /\ Within(y, n) =>
        FoldedAt(n, p) = <<5, (y + n - 1) \div 2, (x + n - 1) \div 2>>
  <2> SUFFICES ASSUME z = -n, Within(x, n), Within(y, n)
               PROVE  FoldedAt(n, p) = <<5, (y + n - 1) \div 2, (x + n - 1) \div 2>>
    OBVIOUS
  <2>1. LocalOf(5, p)[1] = n /\ \A g \in Faces : LocalOf(g, p)[1] = n => g = 5
    BY <1>1, <1>2 DEF Within
  <2>2. f = 5
    BY <1>1, <2>1
  <2> HIDE DEF f
  <2> QED BY <1>2, <1>3, <2>2
<1> QED BY <1>4, <1>5, <1>6, <1>7, <1>8, <1>9 DEF p

\* What lies behind the edges of a panel of n x n cells, from the table of edges:
\* the cell d deep and at place j along the edge.
Beside(n, f, side, d, j) ==
  LET e == Edge(f, side)
      along == PlaceFrom(e, n, j)
  IN CASE e.nside = SideL -> <<e.nface, d - 1, along>>
       [] e.nside = SideR -> <<e.nface, n - d, along>>
       [] e.nside = SideB -> <<e.nface, along, d - 1>>
       [] e.nside = SideT -> <<e.nface, along, n - d>>

LEMMA BesideIs ==
  ASSUME NEW n, NEW f, NEW side, NEW d, NEW j, NEW g, NEW t \in 0..3, NEW r \in {0, 1},
         Edge(f, side) = To(g, t, r)
  PROVE  LET along == IF r = 1 THEN n - 1 - j ELSE j
         IN /\ t = 0 => Beside(n, f, side, d, j) = <<g, d - 1, along>>
            /\ t = 1 => Beside(n, f, side, d, j) = <<g, n - d, along>>
            /\ t = 2 => Beside(n, f, side, d, j) = <<g, along, d - 1>>
            /\ t = 3 => Beside(n, f, side, d, j) = <<g, along, n - d>>
<1> DEFINE e == Edge(f, side)
<1>1. e.nface = g /\ e.nside = t /\ e.rev = (r = 1)
  BY ToIs
<1>2. PlaceFrom(e, n, j) = IF r = 1 THEN n - 1 - j ELSE j
  BY <1>1 DEF PlaceFrom
<1> HIDE DEF e
<1>3. /\ t = 0 => Beside(n, f, side, d, j) = <<g, d - 1, PlaceFrom(e, n, j)>>
      /\ t = 1 => Beside(n, f, side, d, j) = <<g, n - d, PlaceFrom(e, n, j)>>
      /\ t = 2 => Beside(n, f, side, d, j) = <<g, PlaceFrom(e, n, j), d - 1>>
      /\ t = 3 => Beside(n, f, side, d, j) = <<g, PlaceFrom(e, n, j), n - d>>
  BY <1>1 DEF Beside, SideL, SideR, SideB, SideT, e
<1> QED BY <1>2, <1>3

\* The same from the geometry: the point beyond an edge, folded over it.
LEMMA Sheets ==
  ASSUME NEW n \in Nat, n > 1, NEW f, NEW d \in 1..n, NEW j \in 0..(n - 1)
  PROVE  /\ CellAt(f, n, -d, j) = FoldedAt(n, FacePoint(f, n + 1 - 2 * d, -n, 2 * j + 1 - n))
         /\ CellAt(f, n, n - 1 + d, j) = FoldedAt(n, FacePoint(f, n + 1 - 2 * d, n, 2 * j + 1 - n))
         /\ CellAt(f, n, j, -d) = FoldedAt(n, FacePoint(f, n + 1 - 2 * d, 2 * j + 1 - n, -n))
         /\ CellAt(f, n, j, n - 1 + d) = FoldedAt(n, FacePoint(f, n + 1 - 2 * d, 2 * j + 1 - n, n))
<1> DEFINE a == 2 * (-d) + 1 - n
           b == 2 * j + 1 - n
           c == 2 * (n - 1 + d) + 1 - n
<1>1. /\ Bend(a, n) = -n /\ Bend(b, n) = b /\ Bend(c, n) = n
      /\ n - Excess(a, n) - Excess(b, n) = n + 1 - 2 * d
      /\ n - Excess(c, n) - Excess(b, n) = n + 1 - 2 * d
      /\ n - Excess(b, n) - Excess(a, n) = n + 1 - 2 * d
      /\ n - Excess(b, n) - Excess(c, n) = n + 1 - 2 * d
  BY DEF Bend, Excess
<1> HIDE DEF a, b, c
<1>2. \A x, y : CellAt(f, n, x, y) =
        FoldedAt(n, FacePoint(f, n - Excess(2 * x + 1 - n, n) - Excess(2 * y + 1 - n, n),
                              Bend(2 * x + 1 - n, n), Bend(2 * y + 1 - n, n)))
  BY DEF CellAt, FoldedAt
<1>3. CellAt(f, n, -d, j) = FoldedAt(n, FacePoint(f, n + 1 - 2 * d, -n, b))
  BY <1>1, <1>2 DEF a, b
<1>4. CellAt(f, n, n - 1 + d, j) = FoldedAt(n, FacePoint(f, n + 1 - 2 * d, n, b))
  BY <1>1, <1>2 DEF c, b
<1>5. CellAt(f, n, j, -d) = FoldedAt(n, FacePoint(f, n + 1 - 2 * d, b, -n))
  BY <1>1, <1>2 DEF a, b
<1>6. CellAt(f, n, j, n - 1 + d) = FoldedAt(n, FacePoint(f, n + 1 - 2 * d, b, n))
  BY <1>1, <1>2 DEF c, b
<1> QED BY <1>3, <1>4, <1>5, <1>6 DEF b

LEMMA Halves ==
  ASSUME NEW n \in Nat, NEW d \in 1..n, NEW j \in 0..(n - 1)
  PROVE  /\ (n + 1 - 2 * d + n - 1) \div 2 = n - d
         /\ (-(n + 1 - 2 * d) + n - 1) \div 2 = d - 1
         /\ (2 * j + 1 - n + n - 1) \div 2 = j
         /\ (-(2 * j + 1 - n) + n - 1) \div 2 = n - 1 - j
<1>1. n + 1 - 2 * d + n - 1 = 2 * (n - d) /\ -(n + 1 - 2 * d) + n - 1 = 2 * (d - 1)
      /\ 2 * j + 1 - n + n - 1 = 2 * j /\ -(2 * j + 1 - n) + n - 1 = 2 * (n - 1 - j)
  OBVIOUS
<1>2. \A x \in Int : (2 * x) \div 2 = x
  OBVIOUS
<1> QED BY <1>1, <1>2

\* The table of the edges is that of a cube: what it puts behind an edge is the
\* cell that lies there on the sphere.
LEMMA TableIsGeometry ==
  ASSUME NEW n \in Nat, n > 1, NEW f \in Faces, NEW d \in 1..n, NEW j \in 0..(n - 1)
  PROVE  /\ CellAt(f, n, -d, j) = Beside(n, f, 0, d, j)
         /\ CellAt(f, n, n - 1 + d, j) = Beside(n, f, 1, d, j)
         /\ CellAt(f, n, j, -d) = Beside(n, f, 2, d, j)
         /\ CellAt(f, n, j, n - 1 + d) = Beside(n, f, 3, d, j)
<1> DEFINE h == n + 1 - 2 * d
           b == 2 * j + 1 - n
<1>1. h \in Int /\ b \in Int /\ Within(h, n) /\ Within(b, n) /\ Within(-h, n) /\ Within(-b, n)
      /\ -h \in Int /\ -b \in Int /\ -n \in Int
  BY DEF Within
<1>2. /\ (h + n - 1) \div 2 = n - d /\ (-h + n - 1) \div 2 = d - 1
      /\ (b + n - 1) \div 2 = j /\ (-b + n - 1) \div 2 = n - 1 - j
  BY Halves
<1>3. /\ CellAt(f, n, -d, j) = FoldedAt(n, FacePoint(f, h, -n, b))
      /\ CellAt(f, n, n - 1 + d, j) = FoldedAt(n, FacePoint(f, h, n, b))
      /\ CellAt(f, n, j, -d) = FoldedAt(n, FacePoint(f, h, b, -n))
      /\ CellAt(f, n, j, n - 1 + d) = FoldedAt(n, FacePoint(f, h, b, n))
  BY Sheets
<1>4. -(-n) = n /\ -(-h) = h /\ -(-b) = b
  BY <1>1
<1> HIDE DEF h, b
<1>5. CASE f = 0
  <2>1. FoldedAt(n, FacePoint(0, h, -n, b)) = Beside(n, 0, 0, d, j)
    <3>1. FacePoint(0, h, -n, b) = <<h, -n, b>>
      BY <1>4 DEF FacePoint
    <3>2. FoldedAt(n, <<h, -n, b>>) = <<4, n - d, j>>
      BY <1>1, <1>2, <1>4, FoldedIs
    <3>3. Beside(n, 0, 0, d, j) = <<4, n - d, j>>
      <4>1. Edge(0, 0) = To(4, 1, 0)
        BY Table
      <4> QED BY <4>1, BesideIs
    <3> QED BY <3>1, <3>2, <3>3
  <2>2. FoldedAt(n, FacePoint(0, h, n, b)) = Beside(n, 0, 1, d, j)
    <3>1. FacePoint(0, h, n, b) = <<h, n, b>>
      BY <1>4 DEF FacePoint
    <3>2. FoldedAt(n, <<h, n, b>>) = <<1, d - 1, j>>
      BY <1>1, <1>2, <1>4, FoldedIs
    <3>3. Beside(n, 0, 1, d, j) = <<1, d - 1, j>>
      <4>1. Edge(0, 1) = To(1, 0, 0)
        BY Table
      <4> QED BY <4>1, BesideIs
    <3> QED BY <3>1, <3>2, <3>3
  <2>3. FoldedAt(n, FacePoint(0, h, b, -n)) = Beside(n, 0, 2, d, j)
    <3>1. FacePoint(0, h, b, -n) = <<h, b, -n>>
      BY <1>4 DEF FacePoint
    <3>2. FoldedAt(n, <<h, b, -n>>) = <<5, j, n - d>>
      BY <1>1, <1>2, <1>4, FoldedIs
    <3>3. Beside(n, 0, 2, d, j) = <<5, j, n - d>>
      <4>1. Edge(0, 2) = To(5, 3, 0)
        BY Table
      <4> QED BY <4>1, BesideIs
    <3> QED BY <3>1, <3>2, <3>3
  <2>4. FoldedAt(n, FacePoint(0, h, b, n)) = Beside(n, 0, 3, d, j)
    <3>1. FacePoint(0, h, b, n) = <<h, b, n>>
      BY <1>4 DEF FacePoint
    <3>2. FoldedAt(n, <<h, b, n>>) = <<3, j, d - 1>>
      BY <1>1, <1>2, <1>4, FoldedIs
    <3>3. Beside(n, 0, 3, d, j) = <<3, j, d - 1>>
      <4>1. Edge(0, 3) = To(3, 2, 0)
        BY Table
      <4> QED BY <4>1, BesideIs
    <3> QED BY <3>1, <3>2, <3>3
  <2> QED BY <1>3, <1>5, <2>1, <2>2, <2>3, <2>4
<1>6. CASE f = 1
  <2>1. FoldedAt(n, FacePoint(1, h, -n, b)) = Beside(n, 1, 0, d, j)
    <3>1. FacePoint(1, h, -n, b) = <<n, h, b>>
      BY <1>4 DEF FacePoint
    <3>2. FoldedAt(n, <<n, h, b>>) = <<0, n - d, j>>
      BY <1>1, <1>2, <1>4, FoldedIs
    <3>3. Beside(n, 1, 0, d, j) = <<0, n - d, j>>
      <4>1. Edge(1, 0) = To(0, 1, 0)
        BY Table
      <4> QED BY <4>1, BesideIs
    <3> QED BY <3>1, <3>2, <3>3
  <2>2. FoldedAt(n, FacePoint(1, h, n, b)) = Beside(n, 1, 1, d, j)
    <3>1. FacePoint(1, h, n, b) = <<-n, h, b>>
      BY <1>4 DEF FacePoint
    <3>2. FoldedAt(n, <<-n, h, b>>) = <<2, d - 1, j>>
      BY <1>1, <1>2, <1>4, FoldedIs
    <3>3. Beside(n, 1, 1, d, j) = <<2, d - 1, j>>
      <4>1. Edge(1, 1) = To(2, 0, 0)
        BY Table
      <4> QED BY <4>1, BesideIs
    <3> QED BY <3>1, <3>2, <3>3
  <2>3. FoldedAt(n, FacePoint(1, h, b, -n)) = Beside(n, 1, 2, d, j)
    <3>1. FacePoint(1, h, b, -n) = <<-b, h, -n>>
      BY <1>4 DEF FacePoint
    <3>2. FoldedAt(n, <<-b, h, -n>>) = <<5, n - d, n - 1 - j>>
      BY <1>1, <1>2, <1>4, FoldedIs
    <3>3. Beside(n, 1, 2, d, j) = <<5, n - d, n - 1 - j>>
      <4>1. Edge(1, 2) = To(5, 1, 1)
        BY Table
      <4> QED BY <4>1, BesideIs
    <3> QED BY <3>1, <3>2, <3>3
  <2>4. FoldedAt(n, FacePoint(1, h, b, n)) = Beside(n, 1, 3, d, j)
    <3>1. FacePoint(1, h, b, n) = <<-b, h, n>>
      BY <1>4 DEF FacePoint
    <3>2. FoldedAt(n, <<-b, h, n>>) = <<3, n - d, j>>
      BY <1>1, <1>2, <1>4, FoldedIs
    <3>3. Beside(n, 1, 3, d, j) = <<3, n - d, j>>
      <4>1. Edge(1, 3) = To(3, 1, 0)
        BY Table
      <4> QED BY <4>1, BesideIs
    <3> QED BY <3>1, <3>2, <3>3
  <2> QED BY <1>3, <1>6, <2>1, <2>2, <2>3, <2>4
<1>7. CASE f = 2
  <2>1. FoldedAt(n, FacePoint(2, h, -n, b)) = Beside(n, 2, 0, d, j)
    <3>1. FacePoint(2, h, -n, b) = <<-h, n, b>>
      BY <1>4 DEF FacePoint
    <3>2. FoldedAt(n, <<-h, n, b>>) = <<1, n - d, j>>
      BY <1>1, <1>2, <1>4, FoldedIs
    <3>3. Beside(n, 2, 0, d, j) = <<1, n - d, j>>
      <4>1. Edge(2, 0) = To(1, 1, 0)
        BY Table
      <4> QED BY <4>1, BesideIs
    <3> QED BY <3>1, <3>2, <3>3
  <2>2. FoldedAt(n, FacePoint(2, h, n, b)) = Beside(n, 2, 1, d, j)
    <3>1. FacePoint(2, h, n, b) = <<-h, -n, b>>
      BY <1>4 DEF FacePoint
    <3>2. FoldedAt(n, <<-h, -n, b>>) = <<4, d - 1, j>>
      BY <1>1, <1>2, <1>4, FoldedIs
    <3>3. Beside(n, 2, 1, d, j) = <<4, d - 1, j>>
      <4>1. Edge(2, 1) = To(4, 0, 0)
        BY Table
      <4>2. 0 \in 0..3 /\ 0 \in {0, 1} /\ ~(0 = 1)
        OBVIOUS
      <4>3. \A g, t, r : t \in 0..3 /\ r \in {0, 1} /\ Edge(2, 1) = To(g, t, r) /\ t = 0
                        => Beside(n, 2, 1, d, j) = <<g, d - 1, IF r = 1 THEN n - 1 - j ELSE j>>
        BY BesideIs
      <4>4. Beside(n, 2, 1, d, j) = <<4, d - 1, IF 0 = 1 THEN n - 1 - j ELSE j>>
        BY <4>1, <4>2, <4>3
      <4> QED BY <4>4
    <3> QED BY <3>1, <3>2, <3>3
  <2>3. FoldedAt(n, FacePoint(2, h, b, -n)) = Beside(n, 2, 2, d, j)
    <3>1. FacePoint(2, h, b, -n) = <<-h, -b, -n>>
      BY <1>4 DEF FacePoint
    <3>2. FoldedAt(n, <<-h, -b, -n>>) = <<5, n - 1 - j, d - 1>>
      BY <1>1, <1>2, <1>4, FoldedIs
    <3>3. Beside(n, 2, 2, d, j) = <<5, n - 1 - j, d - 1>>
      <4>1. Edge(2, 2) = To(5, 2, 1)
        BY Table
      <4> QED BY <4>1, BesideIs
    <3> QED BY <3>1, <3>2, <3>3
  <2>4. FoldedAt(n, FacePoint(2, h, b, n)) = Beside(n, 2, 3, d, j)
    <3>1. FacePoint(2, h, b, n) = <<-h, -b, n>>
      BY <1>4 DEF FacePoint
    <3>2. FoldedAt(n, <<-h, -b, n>>) = <<3, n - 1 - j, n - d>>
      BY <1>1, <1>2, <1>4, FoldedIs
    <3>3. Beside(n, 2, 3, d, j) = <<3, n - 1 - j, n - d>>
      <4>1. Edge(2, 3) = To(3, 3, 1)
        BY Table
      <4> QED BY <4>1, BesideIs
    <3> QED BY <3>1, <3>2, <3>3
  <2> QED BY <1>3, <1>7, <2>1, <2>2, <2>3, <2>4
<1>8. CASE f = 3
  <2>1. FoldedAt(n, FacePoint(3, h, -n, b)) = Beside(n, 3, 0, d, j)
    <3>1. FacePoint(3, h, -n, b) = <<-b, -n, h>>
      BY <1>4 DEF FacePoint
    <3>2. FoldedAt(n, <<-b, -n, h>>) = <<4, n - 1 - j, n - d>>
      BY <1>1, <1>2, <1>4, FoldedIs
    <3>3. Beside(n, 3, 0, d, j) = <<4, n - 1 - j, n - d>>
      <4>1. Edge(3, 0) = To(4, 3, 1)
        BY Table
      <4> QED BY <4>1, BesideIs
    <3> QED BY <3>1, <3>2, <3>3
  <2>2. FoldedAt(n, FacePoint(3, h, n, b)) = Beside(n, 3, 1, d, j)
    <3>1. FacePoint(3, h, n, b) = <<-b, n, h>>
      BY <1>4 DEF FacePoint
    <3>2. FoldedAt(n, <<-b, n, h>>) = <<1, j, n - d>>
      BY <1>1, <1>2, <1>4, FoldedIs
    <3>3. Beside(n, 3, 1, d, j) = <<1, j, n - d>>
      <4>1. Edge(3, 1) = To(1, 3, 0)
        BY Table
      <4> QED BY <4>1, BesideIs
    <3> QED BY <3>1, <3>2, <3>3
  <2>3. FoldedAt(n, FacePoint(3, h, b, -n)) = Beside(n, 3, 2, d, j)
    <3>1. FacePoint(3, h, b, -n) = <<n, b, h>>
      BY <1>4 DEF FacePoint
    <3>2. FoldedAt(n, <<n, b, h>>) = <<0, j, n - d>>
      BY <1>1, <1>2, <1>4, FoldedIs
    <3>3. Beside(n, 3, 2, d, j) = <<0, j, n - d>>
      <4>1. Edge(3, 2) = To(0, 3, 0)
        BY Table
      <4> QED BY <4>1, BesideIs
    <3> QED BY <3>1, <3>2, <3>3
  <2>4. FoldedAt(n, FacePoint(3, h, b, n)) = Beside(n, 3, 3, d, j)
    <3>1. FacePoint(3, h, b, n) = <<-n, b, h>>
      BY <1>4 DEF FacePoint
    <3>2. FoldedAt(n, <<-n, b, h>>) = <<2, n - 1 - j, n - d>>
      BY <1>1, <1>2, <1>4, FoldedIs
    <3>3. Beside(n, 3, 3, d, j) = <<2, n - 1 - j, n - d>>
      <4>1. Edge(3, 3) = To(2, 3, 1)
        BY Table
      <4> QED BY <4>1, BesideIs
    <3> QED BY <3>1, <3>2, <3>3
  <2> QED BY <1>3, <1>8, <2>1, <2>2, <2>3, <2>4
<1>9. CASE f = 4
  <2>1. FoldedAt(n, FacePoint(4, h, -n, b)) = Beside(n, 4, 0, d, j)
    <3>1. FacePoint(4, h, -n, b) = <<-n, -h, b>>
      BY <1>4 DEF FacePoint
    <3>2. FoldedAt(n, <<-n, -h, b>>) = <<2, n - d, j>>
      BY <1>1, <1>2, <1>4, FoldedIs
    <3>3. Beside(n, 4, 0, d, j) = <<2, n - d, j>>
      <4>1. Edge(4, 0) = To(2, 1, 0)
        BY Table
      <4> QED BY <4>1, BesideIs
    <3> QED BY <3>1, <3>2, <3>3
  <2>2. FoldedAt(n, FacePoint(4, h, n, b)) = Beside(n, 4, 1, d, j)
    <3>1. FacePoint(4, h, n, b) = <<n, -h, b>>
      BY <1>4 DEF FacePoint
    <3>2. FoldedAt(n, <<n, -h, b>>) = <<0, d - 1, j>>
      BY <1>1, <1>2, <1>4, FoldedIs
    <3>3. Beside(n, 4, 1, d, j) = <<0, d - 1, j>>
      <4>1. Edge(4, 1) = To(0, 0, 0)
        BY Table
      <4> QED BY <4>1, BesideIs
    <3> QED BY <3>1, <3>2, <3>3
  <2>3. FoldedAt(n, FacePoint(4, h, b, -n)) = Beside(n, 4, 2, d, j)
    <3>1. FacePoint(4, h, b, -n) = <<b, -h, -n>>
      BY <1>4 DEF FacePoint
    <3>2. FoldedAt(n, <<b, -h, -n>>) = <<5, d - 1, j>>
      BY <1>1, <1>2, <1>4, FoldedIs
    <3>3. Beside(n, 4, 2, d, j) = <<5, d - 1, j>>
      <4>1. Edge(4, 2) = To(5, 0, 0)
        BY Table
      <4> QED BY <4>1, BesideIs
    <3> QED BY <3>1, <3>2, <3>3
  <2>4. FoldedAt(n, FacePoint(4, h, b, n)) = Beside(n, 4, 3, d, j)
    <3>1. FacePoint(4, h, b, n) = <<b, -h, n>>
      BY <1>4 DEF FacePoint
    <3>2. FoldedAt(n, <<b, -h, n>>) = <<3, d - 1, n - 1 - j>>
      BY <1>1, <1>2, <1>4, FoldedIs
    <3>3. Beside(n, 4, 3, d, j) = <<3, d - 1, n - 1 - j>>
      <4>1. Edge(4, 3) = To(3, 0, 1)
        BY Table
      <4> QED BY <4>1, BesideIs
    <3> QED BY <3>1, <3>2, <3>3
  <2> QED BY <1>3, <1>9, <2>1, <2>2, <2>3, <2>4
<1>10. CASE f = 5
  <2>1. FoldedAt(n, FacePoint(5, h, -n, b)) = Beside(n, 5, 0, d, j)
    <3>1. FacePoint(5, h, -n, b) = <<b, -n, -h>>
      BY <1>4 DEF FacePoint
    <3>2. FoldedAt(n, <<b, -n, -h>>) = <<4, j, d - 1>>
      BY <1>1, <1>2, <1>4, FoldedIs
    <3>3. Beside(n, 5, 0, d, j) = <<4, j, d - 1>>
      <4>1. Edge(5, 0) = To(4, 2, 0)
        BY Table
      <4> QED BY <4>1, BesideIs
    <3> QED BY <3>1, <3>2, <3>3
  <2>2. FoldedAt(n, FacePoint(5, h, n, b)) = Beside(n, 5, 1, d, j)
    <3>1. FacePoint(5, h, n, b) = <<b, n, -h>>
      BY <1>4 DEF FacePoint
    <3>2. FoldedAt(n, <<b, n, -h>>) = <<1, n - 1 - j, d - 1>>
      BY <1>1, <1>2, <1>4, FoldedIs
    <3>3. Beside(n, 5, 1, d, j) = <<1, n - 1 - j, d - 1>>
      <4>1. Edge(5, 1) = To(1, 2, 1)
        BY Table
      <4> QED BY <4>1, BesideIs
    <3> QED BY <3>1, <3>2, <3>3
  <2>3. FoldedAt(n, FacePoint(5, h, b, -n)) = Beside(n, 5, 2, d, j)
    <3>1. FacePoint(5, h, b, -n) = <<-n, b, -h>>
      BY <1>4 DEF FacePoint
    <3>2. FoldedAt(n, <<-n, b, -h>>) = <<2, n - 1 - j, d - 1>>
      BY <1>1, <1>2, <1>4, FoldedIs
    <3>3. Beside(n, 5, 2, d, j) = <<2, n - 1 - j, d - 1>>
      <4>1. Edge(5, 2) = To(2, 2, 1)
        BY Table
      <4> QED BY <4>1, BesideIs
    <3> QED BY <3>1, <3>2, <3>3
  <2>4. FoldedAt(n, FacePoint(5, h, b, n)) = Beside(n, 5, 3, d, j)
    <3>1. FacePoint(5, h, b, n) = <<n, b, -h>>
      BY <1>4 DEF FacePoint
    <3>2. FoldedAt(n, <<n, b, -h>>) = <<0, j, d - 1>>
      BY <1>1, <1>2, <1>4, FoldedIs
    <3>3. Beside(n, 5, 3, d, j) = <<0, j, d - 1>>
      <4>1. Edge(5, 3) = To(0, 2, 0)
        BY Table
      <4> QED BY <4>1, BesideIs
    <3> QED BY <3>1, <3>2, <3>3
  <2> QED BY <1>3, <1>10, <2>1, <2>2, <2>3, <2>4
<1>11. f = 0 \/ f = 1 \/ f = 2 \/ f = 3 \/ f = 4 \/ f = 5
  BY DEF Faces
<1> QED BY <1>5, <1>6, <1>7, <1>8, <1>9, <1>10, <1>11

-----------------------------------------------------------------------------
(* What the messages hold.                                                 *)

LEMMA EdgeStrides ==
  ASSUME NEW p \in 1..4, NEW i \in 0..(p - 1), NEW w \in Nat
  PROVE  /\ i = 0 => i * w = 0
         /\ i = p - 1 => i * w = p * w - w
<1>1. p = 1 \/ p = 2 \/ p = 3 \/ p = 4
  OBVIOUS
<1> QED BY <1>1

\* Cells of a panel per side, and where the edge of a block begins along it.
Span == Pxy * Width
Origin(b, o) == Pos(b, o) * Width

LEMMA BlockTypes ==
  ASSUME size \in Sizes, NEW b \in Blocks
  PROVE  /\ b[1] \in 0..(Pxy - 1) /\ b[2] \in 0..(Pxy - 1) /\ b[3] \in Faces
         /\ b = <<b[1], b[2], b[3]>>
         /\ b[1] \in 0..3 /\ b[2] \in 0..3
         /\ \A o : Pos(b, o) \in 0..(Pxy - 1)
BY SizeTypes DEF Blocks, Places, Pos

LEMMA Neighboring ==
  ASSUME NEW i \in 0..3, NEW w \in Nat
  PROVE  i * w \in Nat /\ (i + 1) * w = i * w + w /\ (i - 1) * w = i * w - w
<1>1. i = 0 \/ i = 1 \/ i = 2 \/ i = 3
  OBVIOUS
<1> QED BY <1>1

\* A cell along the edge, seen from both sides of it.
LEMMA AlongTheEdge ==
  ASSUME size \in Sizes, NEW b \in Blocks, NEW o \in Offsets4, ~SamePanel(b, o),
         NEW k \in (-Nghost)..(Width - 1 + Nghost)
  PROVE  LET m == Neighbor[b][o]
             q == Peer[b][o]
             e == EdgeOf(b, o)
         IN /\ PlaceFrom(e, Width, k) \in (-Nghost)..(Width - 1 + Nghost)
            /\ (k \in 0..(Width - 1) => PlaceFrom(e, Width, k) \in 0..(Width - 1))
            /\ PlaceFrom(EdgeOf(m, q), Span, Origin(m, q) + k)
                 = Origin(b, o) + PlaceFrom(e, Width, k)
            /\ Origin(m, q) \in Nat /\ Origin(b, o) \in Nat
<1> DEFINE m == Neighbor[b][o]
           q == Peer[b][o]
           e == EdgeOf(b, o)
           kk == PlaceFrom(e, Width, k)
<1>1. /\ Pxy \in 1..4 /\ Pxy \in Nat \ {0} /\ Width \in Nat /\ Width > 1
      /\ Nghost \in 1..Width
  BY SizeTypes
<1>2. Ahead(b, o) \notin Places(Pxy) /\ m = StepOne(Pxy, b, o)
      /\ q = OffsetAt(e.nside)
  BY Plan DEF Way
<1>3. /\ Pos(m, q) = (IF e.rev THEN Pxy - 1 - Pos(b, o) ELSE Pos(b, o))
      /\ EdgeOf(m, q).rev = e.rev
  BY <1>1, <1>2, StepOver DEF Blocks
<1>4. kk = IF e.rev THEN Width - 1 - k ELSE k
  BY DEF PlaceFrom
<1>5. Pos(b, o) \in 0..(Pxy - 1)
  BY BlockTypes
<1>6. /\ kk \in (-Nghost)..(Width - 1 + Nghost)
      /\ (k \in 0..(Width - 1) => kk \in 0..(Width - 1))
  BY <1>1, <1>4
<1>7. PlaceFrom(EdgeOf(m, q), Span, Origin(m, q) + k)
        = IF e.rev THEN Span - 1 - (Origin(m, q) + k) ELSE Origin(m, q) + k
  BY <1>3 DEF PlaceFrom
<1> DEFINE i == Pos(b, o)
<1> HIDE DEF m, q, e, kk, i
<1>8. i * Width \in Nat /\ Span \in Nat /\ (Pxy - 1 - i) * Width \in Nat
  <2>1. Pxy - 1 - i \in 0..(Pxy - 1) /\ i \in 0..(Pxy - 1)
    BY <1>1, <1>5 DEF i
  <2> QED BY <1>1, <2>1, Strides DEF Span
<1>9. CASE e.rev
  <2>1. Origin(m, q) = (Pxy - 1 - i) * Width
    BY <1>3, <1>9 DEF Origin, i
  <2>2. kk = Width - 1 - k /\ kk \in Int /\ -Width <= kk /\ kk < 2 * Width
        /\ i \in 0..(Pxy - 1)
    BY <1>1, <1>4, <1>5, <1>9 DEF i
  <2>3. (Pxy - 1 - i) * Width + (Width - 1 - kk) = Pxy * Width - 1 - (i * Width + kk)
    BY <1>1, <2>2, Strides
  <2>4. (Pxy - 1 - i) * Width + k = Span - 1 - (i * Width + kk)
    BY <1>1, <2>2, <2>3 DEF Span
  <2>5. Span - 1 - (Origin(m, q) + k) = i * Width + kk
    BY <1>8, <2>1, <2>2, <2>4
  <2> QED BY <1>6, <1>7, <1>8, <1>9, <2>1, <2>5 DEF Origin, i, m, q, e, kk
<1>10. CASE ~e.rev
  <2>1. Origin(m, q) = i * Width /\ kk = k
    BY <1>3, <1>4, <1>10 DEF Origin, i
  <2> QED BY <1>6, <1>7, <1>8, <1>10, <2>1 DEF Origin, i, m, q, e, kk
<1> QED BY <1>9, <1>10

\* The cells at the edge of a panel are those behind the edge of its neighbor.
LEMMA InnerIsBeside ==
  ASSUME size \in Sizes, NEW b \in Blocks, NEW o \in Offsets4, ~SamePanel(b, o),
         NEW d \in Int, NEW k \in (-Nghost)..(Width - 1 + Nghost)
  PROVE  LET m == Neighbor[b][o]
             q == Peer[b][o]
         IN Inside(b, InnerCell(o, d, PlaceFrom(EdgeOf(b, o), Width, k)))
              = Beside(Span, m[3], GetSide(q), d, Origin(m, q) + k)
<1> DEFINE m == Neighbor[b][o]
           q == Peer[b][o]
           kk == PlaceFrom(EdgeOf(b, o), Width, k)
           f == EdgeOf(m, q)
           s == GetSide(o)
           along == PlaceFrom(f, Span, Origin(m, q) + k)
<1>1. /\ Pxy \in 1..4 /\ Pxy \in Nat \ {0} /\ Width \in Nat /\ Width > 1
  BY SizeTypes
<1>2. Ahead(b, o) \notin Places(Pxy) /\ m = StepOne(Pxy, b, o)
      /\ q = OffsetAt(EdgeOf(b, o).nside)
  BY Plan DEF Way
<1>3. f.nside = s /\ f.nface = b[3]
  BY <1>1, <1>2, StepOver DEF Blocks
<1>4. along = Origin(b, o) + kk
  BY AlongTheEdge
<1>5. /\ b[1] \in 0..(Pxy - 1) /\ b[2] \in 0..(Pxy - 1) /\ b[3] \in Faces
      /\ kk \in Int
  BY BlockTypes, AlongTheEdge, SizeTypes
<1>6. /\ s = 0 => o = <<0, -1>> /\ Origin(b, o) = b[2] * Width
      /\ s = 1 => o = <<0, 1>> /\ Origin(b, o) = b[2] * Width
      /\ s = 2 => o = <<-1, 0>> /\ Origin(b, o) = b[1] * Width
      /\ s = 3 => o = <<1, 0>> /\ Origin(b, o) = b[1] * Width
  BY SideCases DEF Origin, Pos
<1>7. /\ s = 0 => b[1] = 0
      /\ s = 1 => b[1] = Pxy - 1
      /\ s = 2 => b[2] = 0
      /\ s = 3 => b[2] = Pxy - 1
  BY <1>1, <1>2, <1>5, <1>6 DEF Ahead, Places
<1>8. /\ s = 0 => b[1] * Width = 0
      /\ s = 1 => b[1] * Width = Span - Width
      /\ s = 2 => b[2] * Width = 0
      /\ s = 3 => b[2] * Width = Span - Width
  <2>1. /\ b[1] = 0 => b[1] * Width = 0
        /\ b[1] = Pxy - 1 => b[1] * Width = Pxy * Width - Width
    BY <1>1, <1>5, EdgeStrides
  <2>2. /\ b[2] = 0 => b[2] * Width = 0
        /\ b[2] = Pxy - 1 => b[2] * Width = Pxy * Width - Width
    BY <1>1, <1>5, EdgeStrides
  <2> QED BY <1>7, <2>1, <2>2 DEF Span
<1>9. Beside(Span, m[3], GetSide(q), d, Origin(m, q) + k)
        = CASE f.nside = SideL -> <<f.nface, d - 1, along>>
            [] f.nside = SideR -> <<f.nface, Span - d, along>>
            [] f.nside = SideB -> <<f.nface, along, d - 1>>
            [] f.nside = SideT -> <<f.nface, along, Span - d>>
  BY DEF Beside, EdgeOf
<1>10. /\ s = 0 => InnerCell(o, d, kk) = <<d - 1, kk>>
       /\ s = 1 => InnerCell(o, d, kk) = <<Width - d, kk>>
       /\ s = 2 => InnerCell(o, d, kk) = <<kk, d - 1>>
       /\ s = 3 => InnerCell(o, d, kk) = <<kk, Width - d>>
  BY InnerCells
<1>11. s = 0 \/ s = 1 \/ s = 2 \/ s = 3
  BY SideCases
<1>12. Span \in Int
  BY <1>1, Strides DEF Span
<1> DEFINE x == Beside(Span, m[3], GetSide(q), d, Origin(m, q) + k)
           c == InnerCell(o, d, kk)
<1>13. Inside(b, c) = <<b[3], b[1] * Width + c[1], b[2] * Width + c[2]>>
  BY DEF Inside
<1> HIDE DEF x, c, along, f, s, kk, m, q
<1>14. /\ s = 0 => x = <<b[3], d - 1, along>>
       /\ s = 1 => x = <<b[3], Span - d, along>>
       /\ s = 2 => x = <<b[3], along, d - 1>>
       /\ s = 3 => x = <<b[3], along, Span - d>>
  BY <1>3, <1>9 DEF SideL, SideR, SideB, SideT, x
<1>15. Inside(b, c) = x
  <2>1. CASE s = 0
    BY <1>4, <1>5, <1>6, <1>8, <1>10, <1>12, <1>13, <1>14, <2>1 DEF c
  <2>2. CASE s = 1
    BY <1>1, <1>4, <1>5, <1>6, <1>8, <1>10, <1>12, <1>13, <1>14, <2>2 DEF c
  <2>3. CASE s = 2
    BY <1>4, <1>5, <1>6, <1>8, <1>10, <1>12, <1>13, <1>14, <2>3 DEF c
  <2>4. CASE s = 3
    BY <1>1, <1>4, <1>5, <1>6, <1>8, <1>10, <1>12, <1>13, <1>14, <2>4 DEF c
  <2> QED BY <1>11, <2>1, <2>2, <2>3, <2>4
<1> QED BY <1>15 DEF x, c, kk, m, q

\* The cells a strip is packed from are cells of the block or its ghosts.
LEMMA InnerCellTypes ==
  ASSUME size \in Sizes, NEW o \in Offsets4, NEW d \in 1..Nghost,
         NEW k \in (-Nghost)..(Width - 1 + Nghost)
  PROVE  LET c == InnerCell(o, d, k)
         IN /\ c \in Cells
            /\ k \in 0..(Width - 1) => InBlock(c)
            /\ GetSide(o) < 2 => Beyond(c[1]) = 0 /\ c[2] = k
            /\ ~(GetSide(o) < 2) => Beyond(c[2]) = 0 /\ c[1] = k
<1>1. /\ Width \in Nat /\ Nghost \in 1..Width
  BY SizeTypes
<1> DEFINE c == InnerCell(o, d, k)
           s == GetSide(o)
<1>2. /\ s = 0 => c = <<d - 1, k>>
      /\ s = 1 => c = <<Width - d, k>>
      /\ s = 2 => c = <<k, d - 1>>
      /\ s = 3 => c = <<k, Width - d>>
  BY InnerCells
<1>3. s = 0 \/ s = 1 \/ s = 2 \/ s = 3
  BY SideCases
<1>4. /\ d - 1 \in 0..(Width - 1) /\ Width - d \in 0..(Width - 1)
      /\ d - 1 \in (-Nghost)..(Width + Nghost - 1)
      /\ Width - d \in (-Nghost)..(Width + Nghost - 1)
      /\ k \in (-Nghost)..(Width + Nghost - 1)
  BY <1>1
<1>5. Beyond(d - 1) = 0 /\ Beyond(Width - d) = 0
  BY <1>1, <1>4 DEF Beyond
<1> HIDE DEF c, s
<1>6. /\ c \in Cells
      /\ k \in 0..(Width - 1) => InBlock(c)
  BY <1>2, <1>3, <1>4 DEF Cells, InBlock
<1>7. /\ s < 2 => Beyond(c[1]) = 0 /\ c[2] = k
      /\ ~(s < 2) => Beyond(c[2]) = 0 /\ c[1] = k
  BY <1>2, <1>3, <1>5
<1> QED BY <1>6, <1>7 DEF c, s

\* A ghost cell whose neighbor is on the panel.
Within4(b, c) == /\ ~InCorner(c) /\ OffsetOf(c) \in Offsets4
                 /\ SamePanel(b, OffsetOf(c))

LEMMA OnThePanel ==
  ASSUME size \in Sizes, NEW b \in Blocks, NEW o \in Offsets4, NEW d \in 1..Nghost,
         NEW k \in (-Nghost)..(Width - 1 + Nghost),
         Origin(b, o) + k \in 0..(Span - 1), k \notin 0..(Width - 1)
  PROVE  Within4(b, InnerCell(o, d, k))
<1>1. /\ Width \in Nat /\ Width > 1 /\ Nghost \in 1..Width /\ Pxy \in 1..4
  BY SizeTypes
<1> DEFINE c == InnerCell(o, d, k)
           s == GetSide(o)
<1>2. /\ s < 2 => Beyond(c[1]) = 0 /\ c[2] = k
      /\ ~(s < 2) => Beyond(c[2]) = 0 /\ c[1] = k
  BY InnerCellTypes
<1>3. /\ s < 2 => Pos(b, o) = b[2]
      /\ ~(s < 2) => Pos(b, o) = b[1]
  BY SideCases DEF Pos
<1>4. Pos(b, o) \in 0..(Pxy - 1) /\ b[1] \in 0..(Pxy - 1) /\ b[2] \in 0..(Pxy - 1)
      /\ b[3] \in Faces
  BY BlockTypes
<1>5. /\ k < 0 => Pos(b, o) # 0
      /\ k >= Width => Pos(b, o) # Pxy - 1
      /\ k \in Int /\ (k < 0 \/ k >= Width)
  <2>1. k \in Int /\ -Width <= k /\ k < 2 * Width /\ (k < 0 \/ k >= Width)
    BY <1>1
  <2> DEFINE i == Pos(b, o)
  <2>2. i \in 0..(Pxy - 1) /\ i * Width + k \in 0..(Pxy * Width - 1)
    BY <1>4 DEF Origin, Span
  <2> HIDE DEF i
  <2>3. /\ k < 0 => i # 0
        /\ k >= Width => i # Pxy - 1
    BY <1>1, <2>1, <2>2, Strides
  <2> QED BY <2>1, <2>3 DEF i
<1> HIDE DEF c, s
<1>6. /\ s < 2 => OffsetOf(c) = <<Beyond(k), 0>>
      /\ ~(s < 2) => OffsetOf(c) = <<0, Beyond(k)>>
  BY <1>2 DEF OffsetOf
<1>7. /\ k < 0 => Beyond(k) = -1
      /\ k >= Width => Beyond(k) = 1
  BY <1>1, <1>5 DEF Beyond
<1>8. OffsetOf(c) \in Offsets4
  BY <1>5, <1>6, <1>7, OffsetCases
<1>9. Ahead(b, OffsetOf(c)) \in Places(Pxy)
  <2>1. /\ s < 2 => Ahead(b, OffsetOf(c)) = <<b[1] + 0, b[2] + Beyond(k), b[3]>>
        /\ ~(s < 2) => Ahead(b, OffsetOf(c)) = <<b[1] + Beyond(k), b[2] + 0, b[3]>>
    BY <1>6 DEF Ahead
  <2> QED BY <1>1, <1>3, <1>4, <1>5, <1>7, <2>1 DEF Places
<1>10. ~InCorner(c)
  BY <1>2 DEF InCorner
<1> QED BY <1>8, <1>9, <1>10, Plan DEF Within4, c

Own(b, t) == \A c \in Cells : InBlock(c) => u[b][c] = Computed(b, c, t)

OwnPanel(b, t) == \A c \in Cells : Within4(b, c) => u[b][c] = Computed(b, c, t)

\* A message for the buffer at offset o of block b, in the rounds inside the
\* panels, across their edges and for the seams.
IntraMail(a, b, o, t) ==
  \A d \in 1..Nghost, k \in 0..(Width - 1) :
    a.at[Index(GetSide(o), OuterLine(GetSide(o), Nghost, d), k)]
      = Computed(b, OuterCell(o, d, k), t)

FromBeside(b, o, d, j, t, v) == {<<Beside(Span, b[3], GetSide(o), d, j), t, v>>}

CrossMail(a, b, o, t) ==
  \A d \in 1..Nghost, k \in (-Nghost)..(Width - 1 + Nghost) :
    Origin(b, o) + k \in 0..(Span - 1) =>
      a.at[Index(GetSide(o), OuterLine(GetSide(o), Nghost, d), k + Nghost)]
        = FromBeside(b, o, d, Origin(b, o) + k, t, Cart)

SeamMail(a, b, o, t) ==
  \A k \in 0..(Width - 1) :
    a.at[Index(GetSide(o), 0, k)] = FromBeside(b, o, 1, Origin(b, o) + k, t, Cart)

\* A strip inside a panel is the ghost zone of the neighbor.
LEMMA IntraPacked ==
  ASSUME size \in Sizes, NEW b \in Blocks, NEW o \in Offsets4, SamePanel(b, o),
         NEW t, Own(b, t)
  PROVE  IntraMail(Packed(b, "intra", o), Neighbor[b][o], Peer[b][o], t)
<1> DEFINE m == Neighbor[b][o]
           q == Peer[b][o]
<1> SUFFICES ASSUME NEW d \in 1..Nghost, NEW k \in 0..(Width - 1)
             PROVE  Packed(b, "intra", o).at[Index(GetSide(q), OuterLine(GetSide(q), Nghost, d), k)]
                      = Computed(m, OuterCell(q, d, k), t)
  BY DEF IntraMail
<1>1. /\ Width \in Nat /\ Width > 1 /\ Nghost \in 1..Width /\ Nghost \in Nat
      /\ Pxy \in Nat \ {0}
  BY SizeTypes
<1>2. "intra" \in Rounds /\ Margin("intra") = 0 /\ Lines("intra") = Nghost
      /\ Along("intra") = 0..(Width - 1)
  <2>1. "intra" \in Rounds
    BY DEF Rounds
  <2>2. Margin("intra") = 0 /\ Lines("intra") = Nghost
    BY <2>1, Margins
  <2> QED BY <1>1, <2>1, <2>2 DEF Along
<1>3. Packed(b, "intra", o).at[Index(GetSide(q), OuterLine(GetSide(q), Nghost, d), k)]
        = u[b][InnerCell(o, d, k)]
  <2>1. Packed(b, "intra", o).at[Index(GetSide(q), OuterLine(GetSide(q), Lines("intra"), d),
                                       k + Margin("intra"))]
          = u[b][InnerCell(o, d, k)]
    BY <1>2, PackedIs DEF PackedRight
  <2> QED BY <1>2, <2>1
<1>4. u[b][InnerCell(o, d, k)] = Computed(b, InnerCell(o, d, k), t)
  <2>1. k \in (-Nghost)..(Width - 1 + Nghost)
    BY <1>1
  <2> QED BY <2>1, InnerCellTypes DEF Own
<1>5. Ahead(b, o) \in Places(Pxy) /\ m = Ahead(b, o) /\ q = Minus(o)
  BY <1>1, Plan, StepAhead DEF Way
<1>6. Inside(b, InnerCell(o, d, k)) = Inside(m, OuterCell(q, d, k)) /\ m[3] = b[3]
  <2>1. b[1] \in 0..3 /\ b[2] \in 0..3
    BY BlockTypes
  <2>2. /\ b[1] * Width \in Nat /\ (b[1] + 1) * Width = b[1] * Width + Width
        /\ (b[1] - 1) * Width = b[1] * Width - Width
        /\ b[2] * Width \in Nat /\ (b[2] + 1) * Width = b[2] * Width + Width
        /\ (b[2] - 1) * Width = b[2] * Width - Width
    BY <1>1, <2>1, Neighboring
  <2>3. m = <<b[1] + o[2], b[2] + o[1], b[3]>>
    BY <1>5 DEF Ahead
  <2>4. /\ Inside(b, InnerCell(o, d, k))
             = <<b[3], b[1] * Width + InnerCell(o, d, k)[1], b[2] * Width + InnerCell(o, d, k)[2]>>
        /\ Inside(m, OuterCell(q, d, k))
             = <<m[3], m[1] * Width + OuterCell(q, d, k)[1], m[2] * Width + OuterCell(q, d, k)[2]>>
    BY DEF Inside
  <2>10. /\ o = <<0, -1>> => Minus(o) = <<0, 1>>
         /\ o = <<0, 1>> => Minus(o) = <<0, -1>>
         /\ o = <<-1, 0>> => Minus(o) = <<1, 0>>
         /\ o = <<1, 0>> => Minus(o) = <<-1, 0>>
    <3> DEFINE x == o[1]
               y == o[2]
    <3>1. /\ o = <<0, -1>> => x = 0 /\ y = -1
          /\ o = <<0, 1>> => x = 0 /\ y = 1
          /\ o = <<-1, 0>> => x = -1 /\ y = 0
          /\ o = <<1, 0>> => x = 1 /\ y = 0
      OBVIOUS
    <3>2. Minus(o) = <<-x, -y>>
      BY DEF Minus
    <3> HIDE DEF x, y
    <3>3. /\ x = 0 => -x = 0
          /\ x = 1 => -x = -1
          /\ x = -1 => -x = 1
          /\ y = 0 => -y = 0
          /\ y = 1 => -y = -1
          /\ y = -1 => -y = 1
      OBVIOUS
    <3> QED BY <3>1, <3>2, <3>3
  <2>11. /\ \A v \in 0..3 : v + 0 = v /\ v + (-1) = v - 1
         /\ m[1] = b[1] + o[2] /\ m[2] = b[2] + o[1] /\ m[3] = b[3]
    BY <2>3
  <2>5. GetSide(<<0, 1>>) = 1 /\ GetSide(<<0, -1>>) = 0
        /\ GetSide(<<1, 0>>) = 3 /\ GetSide(<<-1, 0>>) = 2
    BY DEF GetSide, SideL, SideR, SideB, SideT
  <2> HIDE DEF m, q
  <2>6. q \in Offsets4
    BY Plan DEF q
  <2>7. CASE o = <<0, -1>>
    <3>1. q = <<0, 1>>
      BY <1>5, <2>10, <2>7 DEF m, q
    <3>3. o[1] = 0 /\ o[2] = -1
      BY <2>7
    <3>4. m[1] = b[1] - 1 /\ m[2] = b[2] /\ m[3] = b[3]
      BY <2>1, <2>11, <3>3
    <3>2. InnerCell(o, d, k) = <<d - 1, k>> /\ OuterCell(q, d, k) = <<Width + d - 1, k>>
      BY <2>5, <2>6, <2>7, <3>1, InnerCells
    <3> QED BY <1>1, <2>1, <2>2, <2>4, <3>2, <3>4
  <2>8. CASE o = <<0, 1>>
    <3>1. q = <<0, -1>>
      BY <1>5, <2>10, <2>8 DEF m, q
    <3>3. o[1] = 0 /\ o[2] = 1
      BY <2>8
    <3>4. m[1] = b[1] + 1 /\ m[2] = b[2] /\ m[3] = b[3]
      BY <2>1, <2>11, <3>3
    <3>2. InnerCell(o, d, k) = <<Width - d, k>> /\ OuterCell(q, d, k) = <<-d, k>>
      BY <2>5, <2>6, <2>8, <3>1, InnerCells
    <3>5. (b[1] + 1) * Width + (-d) = b[1] * Width + (Width - d)
      BY <1>1, <2>2
    <3> QED BY <2>4, <3>2, <3>4, <3>5
  <2>9. CASE o = <<-1, 0>>
    <3>1. q = <<1, 0>>
      BY <1>5, <2>10, <2>9 DEF m, q
    <3>3. o[1] = -1 /\ o[2] = 0
      BY <2>9
    <3>4. m[1] = b[1] /\ m[2] = b[2] - 1 /\ m[3] = b[3]
      BY <2>1, <2>11, <3>3
    <3>2. InnerCell(o, d, k) = <<k, d - 1>> /\ OuterCell(q, d, k) = <<k, Width + d - 1>>
      BY <2>5, <2>6, <2>9, <3>1, InnerCells
    <3> QED BY <1>1, <2>1, <2>2, <2>4, <3>2, <3>4
  <2>12. CASE o = <<1, 0>>
    <3>1. q = <<-1, 0>>
      BY <1>5, <2>10, <2>12 DEF m, q
    <3>3. o[1] = 1 /\ o[2] = 0
      BY <2>12
    <3>4. m[1] = b[1] /\ m[2] = b[2] + 1 /\ m[3] = b[3]
      BY <2>1, <2>11, <3>3
    <3>2. InnerCell(o, d, k) = <<k, Width - d>> /\ OuterCell(q, d, k) = <<k, -d>>
      BY <2>5, <2>6, <2>12, <3>1, InnerCells
    <3>5. (b[2] + 1) * Width + (-d) = b[2] * Width + (Width - d)
      BY <1>1, <2>2
    <3> QED BY <2>4, <3>2, <3>4, <3>5
  <2> QED BY <2>7, <2>8, <2>9, <2>12, OffsetCases DEF m, q
<1>7. Computed(b, InnerCell(o, d, k), t) = Computed(m, OuterCell(q, d, k), t)
  BY <1>6 DEF Computed
<1> QED BY <1>3, <1>4, <1>7

\* A strip across the edge of a panel is the cells behind the neighbor's edge,
\* the right way round and in cartesian components, with the cells beside it that
\* the block had to receive itself.
LEMMA CrossPacked ==
  ASSUME size \in Sizes, NEW b \in Blocks, NEW o \in Offsets4, ~SamePanel(b, o),
         NEW t, Own(b, t), OwnPanel(b, t), NEW round \in {"cross", "all"}
  PROVE  CrossMail(Packed(b, round, o), Neighbor[b][o], Peer[b][o], t)
<1> DEFINE m == Neighbor[b][o]
           q == Peer[b][o]
           kk(k) == PlaceFrom(EdgeOf(b, o), Width, k)
<1> SUFFICES ASSUME NEW d \in 1..Nghost, NEW k \in (-Nghost)..(Width - 1 + Nghost),
                    Origin(m, q) + k \in 0..(Span - 1)
             PROVE  Packed(b, round, o).at[Index(GetSide(q), OuterLine(GetSide(q), Nghost, d),
                                                 k + Nghost)]
                      = FromBeside(m, q, d, Origin(m, q) + k, t, Cart)
  BY DEF CrossMail
<1> DEFINE c == InnerCell(o, d, kk(k))
           v == TurnAll(LocalToCart, b[3], u[b][c])
<1>1. /\ round \in Rounds /\ Margin(round) = Nghost /\ Lines(round) = Nghost
      /\ Along(round) = (-Nghost)..(Width - 1 + Nghost)
  <2>1. round \in Rounds
    BY DEF Rounds
  <2>2. Margin(round) = Nghost /\ Lines(round) = Nghost
    BY <2>1, Margins
  <2> QED BY <2>1, <2>2 DEF Along
<1>2. Packed(b, round, o).at[Index(GetSide(q), OuterLine(GetSide(q), Nghost, d), k + Nghost)]
        = v
  <2>1. Packed(b, round, o).at[Index(GetSide(q), OuterLine(GetSide(q), Lines(round), d),
                                     k + Margin(round))]
          = v
    <3>1. PackedRight(b, round, o, d, k)
      BY <1>1, PackedIs
    <3> QED BY <3>1 DEF PackedRight
  <2> HIDE DEF v
  <2> QED BY <1>1, <2>1
<1>3. kk(k) \in (-Nghost)..(Width - 1 + Nghost)
  BY AlongTheEdge
<1>4. PlaceFrom(EdgeOf(m, q), Span, Origin(m, q) + k) = Origin(b, o) + kk(k)
  BY AlongTheEdge
<1>5. Origin(b, o) + kk(k) \in 0..(Span - 1)
  <2>1. Span \in Int /\ Origin(m, q) + k \in Int
    BY SizeTypes, AlongTheEdge, Strides DEF Span
  <2> QED BY <1>4, <2>1 DEF PlaceFrom
<1>6. u[b][c] = Computed(b, c, t)
  <2>1. CASE kk(k) \in 0..(Width - 1)
    BY <1>3, <2>1, InnerCellTypes DEF Own
  <2>2. CASE kk(k) \notin 0..(Width - 1)
    BY <1>3, <1>5, <2>2, InnerCellTypes, OnThePanel DEF OwnPanel
  <2> QED BY <2>1, <2>2
<1>7. Inside(b, c) = Beside(Span, m[3], GetSide(q), d, Origin(m, q) + k)
  BY InnerIsBeside
<1>8. b[3] \in Faces
  BY BlockTypes
<1>9. TurnAll(LocalToCart, b[3], Computed(b, c, t))
        = {<<Inside(b, c), t, Cart>>}
  <2>1. Turn(LocalToCart, b[3], Here(b[3])) = Cart
    BY <1>8, TurnedBothWays
  <2>2. TurnAll(LocalToCart, b[3], {<<Inside(b, c), t, Here(b[3])>>})
          = {<<Inside(b, c), t, Turn(LocalToCart, b[3], Here(b[3]))>>}
    <3> DEFINE x == Inside(b, c)
               y == Here(b[3])
               f == b[3]
    <3> HIDE DEF x, y, f
    <3>1. TurnsOne(LocalToCart, f, x, t, y)
      BY TurnedOne
    <3> QED BY <3>1 DEF x, y, f, TurnsOne
  <2> QED BY <2>1, <2>2 DEF Computed
<1> QED BY <1>2, <1>6, <1>7, <1>9 DEF FromBeside

\* The state on the faces of a seam is that of the cells behind the neighbor's edge.
LEMMA SeamPacked ==
  ASSUME size \in Sizes, NEW b \in Blocks, NEW o \in Offsets4, ~SamePanel(b, o),
         NEW t, Own(b, t), NEW round \in Seams
  PROVE  SeamMail(Packed(b, round, o), Neighbor[b][o], Peer[b][o], t)
<1> DEFINE m == Neighbor[b][o]
           q == Peer[b][o]
           kk(k) == PlaceFrom(EdgeOf(b, o), Width, k)
<1> SUFFICES ASSUME NEW k \in 0..(Width - 1)
             PROVE  Packed(b, round, o).at[Index(GetSide(q), 0, k)]
                      = FromBeside(m, q, 1, Origin(m, q) + k, t, Cart)
  BY DEF SeamMail
<1> DEFINE c == InnerCell(o, 1, kk(k))
           v == TurnAll(LocalToCart, b[3], u[b][c])
<1>1. /\ round \in Rounds /\ Margin(round) = 0 /\ Lines(round) = 1
      /\ Along(round) = 0..(Width - 1)
  <2>1. round \in Rounds
    BY DEF Rounds, Seams
  <2>2. Margin(round) = 0 /\ Lines(round) = 1
    BY <2>1, Margins
  <2>3. Width \in Nat
    BY SizeTypes
  <2> QED BY <2>1, <2>2, <2>3 DEF Along
<1>10. 1 \in 1..Lines(round)
  BY <1>1
<1>2. Packed(b, round, o).at[Index(GetSide(q), 0, k)]
        = v
  <2>1. Packed(b, round, o).at[Index(GetSide(q), OuterLine(GetSide(q), Lines(round), 1),
                                     k + Margin(round))]
          = v
    <3>1. PackedRight(b, round, o, 1, k)
      BY <1>1, <1>10, PackedIs
    <3> QED BY <3>1 DEF PackedRight
  <2> HIDE DEF v
  <2>2. OuterLine(GetSide(q), 1, 1) = 0
    BY DEF OuterLine
  <2>3. k + 0 = k
    OBVIOUS
  <2> QED BY <1>1, <2>1, <2>2, <2>3
<1>3. /\ k \in (-Nghost)..(Width - 1 + Nghost) /\ 1 \in 1..Nghost
  BY SizeTypes
<1>4. kk(k) \in 0..(Width - 1) /\ kk(k) \in (-Nghost)..(Width - 1 + Nghost)
  BY <1>3, AlongTheEdge
<1>5. u[b][c] = Computed(b, c, t)
  BY <1>3, <1>4, InnerCellTypes DEF Own
<1>6. Inside(b, c) = Beside(Span, m[3], GetSide(q), 1, Origin(m, q) + k)
  BY <1>3, InnerIsBeside
<1>7. b[3] \in Faces
  BY BlockTypes
<1>8. TurnAll(LocalToCart, b[3], Computed(b, c, t))
        = {<<Inside(b, c), t, Cart>>}
  <2>1. Turn(LocalToCart, b[3], Here(b[3])) = Cart
    BY <1>7, TurnedBothWays
  <2>2. TurnAll(LocalToCart, b[3], {<<Inside(b, c), t, Here(b[3])>>})
          = {<<Inside(b, c), t, Turn(LocalToCart, b[3], Here(b[3]))>>}
    <3> DEFINE x == Inside(b, c)
               y == Here(b[3])
               f == b[3]
    <3> HIDE DEF x, y, f
    <3>1. TurnsOne(LocalToCart, f, x, t, y)
      BY TurnedOne
    <3> QED BY <3>1 DEF x, y, f, TurnsOne
  <2> QED BY <2>1, <2>2 DEF Computed
<1> QED BY <1>2, <1>5, <1>6, <1>8 DEF FromBeside

-----------------------------------------------------------------------------
(* The steps of a stage, numbered as for divided panels.                   *)

Step(b) == IF Pxy > 1 THEN pc[b] ELSE pc[b] + 3
FirstStep == IF Pxy > 1 THEN 1 ELSE 4
Ghost == IF Pxy > 1 THEN "cross" ELSE "all"
Live == {"intra", Ghost, "x2", "x3"}

PackAt(r) == CASE r = "intra" -> 1 [] r = "x2" -> 7 [] r = "x3" -> 8 [] OTHER -> 4
LaunchAt(r) == CASE r = "intra" -> 2 [] r = "x2" -> 9 [] r = "x3" -> 10 [] OTHER -> 5
TakeAt(r) == CASE r = "intra" -> 3 [] r = "x2" -> 11 [] r = "x3" -> 12 [] OTHER -> 6

LEMMA Times ==
  /\ PackAt("intra") = 1 /\ LaunchAt("intra") = 2 /\ TakeAt("intra") = 3
  /\ PackAt("cross") = 4 /\ LaunchAt("cross") = 5 /\ TakeAt("cross") = 6
  /\ PackAt("all") = 4 /\ LaunchAt("all") = 5 /\ TakeAt("all") = 6
  /\ PackAt("x2") = 7 /\ LaunchAt("x2") = 9 /\ TakeAt("x2") = 11
  /\ PackAt("x3") = 8 /\ LaunchAt("x3") = 10 /\ TakeAt("x3") = 12
BY DEF PackAt, LaunchAt, TakeAt

Task(i) ==
  CASE i = 1 -> <<"pack", "intra">> [] i = 2 -> <<"launch", "intra">>
    [] i = 3 -> <<"take", "intra">> [] i = 4 -> <<"pack", Ghost>>
    [] i = 5 -> <<"launch", Ghost>> [] i = 6 -> <<"take", Ghost>>
    [] i = 7 -> <<"pack", "x2">> [] i = 8 -> <<"pack", "x3">>
    [] i = 9 -> <<"launch", "x2">> [] i = 10 -> <<"launch", "x3">>
    [] i = 11 -> <<"take", "x2">> [] i = 12 -> <<"take", "x3">>
    [] i = 13 -> Advance [] i = 14 -> Done

Words == {"pack", "launch", "take", "advance", "done"}
           \X {"all", "intra", "cross", "x2", "x3", "block"}

LEMMA PhasesAre ==
  ASSUME NEW r \in {"all", "intra", "cross", "x2", "x3"}
  PROVE  /\ Phases(r) \in Seq(Words) /\ Len(Phases(r)) = 3
         /\ Phases(r)[1] = <<"pack", r>> /\ Phases(r)[2] = <<"launch", r>>
         /\ Phases(r)[3] = <<"take", r>>
BY DEF Phases, Words

LEMMA SeamStepsAre ==
  /\ SeamSteps \in Seq(Words) /\ Len(SeamSteps) = 6
  /\ SeamSteps[1] = <<"pack", "x2">> /\ SeamSteps[2] = <<"pack", "x3">>
  /\ SeamSteps[3] = <<"launch", "x2">> /\ SeamSteps[4] = <<"launch", "x3">>
  /\ SeamSteps[5] = <<"take", "x2">> /\ SeamSteps[6] = <<"take", "x3">>
BY DEF SeamSteps, Words

LEMMA LastStepsAre ==
  LET s == <<Advance, Done>>
  IN s \in Seq(Words) /\ Len(s) = 2 /\ s[1] = Advance /\ s[2] = Done
BY DEF Advance, Done, Words

IsJoin(f, s, t, m, n) ==
  /\ f \in Seq(Words) /\ Len(f) = m + n
  /\ \A i \in 1..(m + n) : f[i] = IF i <= m THEN s[i] ELSE t[i - m]

LEMMA Joined ==
  ASSUME NEW s \in Seq(Words), NEW t \in Seq(Words), NEW m \in Nat, NEW n \in Nat,
         Len(s) = m, Len(t) = n
  PROVE  IsJoin(s \o t, s, t, m, n)
BY DEF IsJoin

LEMMA ProgramIs ==
  ASSUME size \in Sizes, NEW b, pc[b] \in Nat, Step(b) \in FirstStep..14
  PROVE  Program[pc[b]] = Task(Step(b))
<1>1. Program = (ExchangeSteps(Pxy) \o SeamSteps) \o <<Advance, Done>>
  BY SizeTypes DEF Program, Programs
<1>2. CASE Pxy > 1
  <2> DEFINE e == Phases("intra") \o Phases("cross")
             f == e \o SeamSteps
             z == <<Advance, Done>>
  <2>1. /\ e \in Seq(Words) /\ Len(e) = 6
        /\ \A i \in 1..6 : e[i] = IF i <= 3 THEN Phases("intra")[i] ELSE Phases("cross")[i - 3]
    <3>1. IsJoin(e, Phases("intra"), Phases("cross"), 3, 3)
      BY PhasesAre, Joined
    <3> QED BY <3>1 DEF IsJoin
  <2>2. /\ f \in Seq(Words) /\ Len(f) = 12
        /\ \A i \in 1..12 : f[i] = IF i <= 6 THEN e[i] ELSE SeamSteps[i - 6]
    <3> HIDE DEF e
    <3>1. IsJoin(e \o SeamSteps, e, SeamSteps, 6, 6)
      BY <2>1, SeamStepsAre, Joined
    <3>2. IsJoin(f, e, SeamSteps, 6, 6)
      BY <3>1
    <3>3. 6 + 6 = 12
      OBVIOUS
    <3> HIDE DEF f
    <3> QED BY <3>2, <3>3 DEF IsJoin
  <2>3. \A i \in 1..14 : Program[i] = IF i <= 12 THEN f[i] ELSE z[i - 12]
    <3>1. Program = f \o z
      BY <1>1, <1>2 DEF ExchangeSteps
    <3>2. z \in Seq(Words) /\ Len(z) = 2
      BY LastStepsAre
    <3> HIDE DEF f, z
    <3>3. IsJoin(f \o z, f, z, 12, 2)
      BY <2>2, <3>2, Joined
    <3>4. 6 + 6 = 12 /\ 12 + 2 = 14 /\ 9 + 2 = 11
      OBVIOUS
    <3>5. IsJoin(Program, f, z, 12, 2)
      BY <3>1, <3>3
    <3> QED BY <3>4, <3>5 DEF IsJoin
  <2> HIDE DEF e, f
  <2>4. /\ Program[1] = <<"pack", "intra">> /\ Program[2] = <<"launch", "intra">>
        /\ Program[3] = <<"take", "intra">>
    BY <2>1, <2>2, <2>3, PhasesAre
  <2>5. /\ Program[4] = <<"pack", "cross">> /\ Program[5] = <<"launch", "cross">>
        /\ Program[6] = <<"take", "cross">>
    BY <2>1, <2>2, <2>3, PhasesAre
  <2>6. /\ Program[7] = <<"pack", "x2">> /\ Program[8] = <<"pack", "x3">>
        /\ Program[9] = <<"launch", "x2">> /\ Program[10] = <<"launch", "x3">>
        /\ Program[11] = <<"take", "x2">> /\ Program[12] = <<"take", "x3">>
    BY <2>2, <2>3, SeamStepsAre
  <2>7. Program[13] = Advance /\ Program[14] = Done
    BY <2>3, LastStepsAre DEF z
  <2>8. Step(b) = pc[b] /\ Ghost = "cross" /\ Step(b) \in 1..14
    BY <1>2 DEF Step, FirstStep, Ghost
  <2> QED BY <2>4, <2>5, <2>6, <2>7, <2>8 DEF Task
<1>3. CASE ~(Pxy > 1)
  <2> DEFINE e == Phases("all")
             f == e \o SeamSteps
             z == <<Advance, Done>>
  <2>2. /\ f \in Seq(Words) /\ Len(f) = 9
        /\ \A i \in 1..9 : f[i] = IF i <= 3 THEN e[i] ELSE SeamSteps[i - 3]
    <3>1. IsJoin(Phases("all") \o SeamSteps, Phases("all"), SeamSteps, 3, 6)
      BY PhasesAre, SeamStepsAre, Joined
    <3> QED BY <3>1 DEF IsJoin
  <2>3. \A i \in 1..11 : Program[i] = IF i <= 9 THEN f[i] ELSE z[i - 9]
    <3>1. Program = f \o z
      BY <1>1, <1>3 DEF ExchangeSteps
    <3>2. z \in Seq(Words) /\ Len(z) = 2
      BY LastStepsAre
    <3> HIDE DEF f, z
    <3>3. IsJoin(f \o z, f, z, 9, 2)
      BY <2>2, <3>2, Joined
    <3>4. 6 + 6 = 12 /\ 12 + 2 = 14 /\ 9 + 2 = 11
      OBVIOUS
    <3>5. IsJoin(Program, f, z, 9, 2)
      BY <3>1, <3>3
    <3> QED BY <3>4, <3>5 DEF IsJoin
  <2> HIDE DEF e, f
  <2>4. /\ Program[1] = <<"pack", "all">> /\ Program[2] = <<"launch", "all">>
        /\ Program[3] = <<"take", "all">>
    BY <2>2, <2>3, PhasesAre DEF e
  <2>6. /\ Program[4] = <<"pack", "x2">> /\ Program[5] = <<"pack", "x3">>
        /\ Program[6] = <<"launch", "x2">> /\ Program[7] = <<"launch", "x3">>
        /\ Program[8] = <<"take", "x2">> /\ Program[9] = <<"take", "x3">>
    BY <2>2, <2>3, SeamStepsAre
  <2>7. Program[10] = Advance /\ Program[11] = Done
    BY <2>3, LastStepsAre DEF z
  <2>8. Step(b) = pc[b] + 3 /\ Ghost = "all" /\ Step(b) \in 4..14
    BY <1>3 DEF Step, FirstStep, Ghost
  <2>9. pc[b] = Step(b) - 3
    BY <2>8
  <2> QED BY <2>4, <2>6, <2>7, <2>8, <2>9 DEF Task
<1> QED BY <1>2, <1>3

LEMMA TaskIs ==
  /\ Task(1) = <<"pack", "intra">> /\ Task(2) = <<"launch", "intra">>
  /\ Task(3) = <<"take", "intra">> /\ Task(4) = <<"pack", Ghost>>
  /\ Task(5) = <<"launch", Ghost>> /\ Task(6) = <<"take", Ghost>>
  /\ Task(7) = <<"pack", "x2">> /\ Task(8) = <<"pack", "x3">>
  /\ Task(9) = <<"launch", "x2">> /\ Task(10) = <<"launch", "x3">>
  /\ Task(11) = <<"take", "x2">> /\ Task(12) = <<"take", "x3">>
  /\ Task(13) = <<"advance", "block">> /\ Task(14) = <<"done", "block">>
BY DEF Task, Advance, Done

Stepping(b) == size \in Sizes /\ pc[b] \in Nat /\ Step(b) \in FirstStep..14

\* What a block does, by the number of its step.
LEMMA Tasks ==
  ASSUME NEW b, Stepping(b), NEW r \in Rounds
  PROVE  /\ Doing(b, "pack", r) <=> r \in Live /\ Step(b) = PackAt(r)
         /\ Doing(b, "launch", r) <=> r \in Live /\ Step(b) = LaunchAt(r)
         /\ Doing(b, "take", r) <=> r \in Live /\ Step(b) = TakeAt(r)
<1> DEFINE i == Step(b)
<1>1. Program[pc[b]] = Task(i)
  BY ProgramIs DEF Stepping
<1>2. i \in 1..14
  BY SizeTypes DEF FirstStep, Stepping
<1>3. Ghost = "cross" \/ Ghost = "all"
  BY DEF Ghost
<1> HIDE DEF i
<1>4. ASSUME NEW w \in {"pack", "launch", "take"}
      PROVE  Task(i) = <<w, r>> <=>
               \/ i = 1 /\ w = "pack" /\ r = "intra"
               \/ i = 2 /\ w = "launch" /\ r = "intra"
               \/ i = 3 /\ w = "take" /\ r = "intra"
               \/ i = 4 /\ w = "pack" /\ r = Ghost
               \/ i = 5 /\ w = "launch" /\ r = Ghost
               \/ i = 6 /\ w = "take" /\ r = Ghost
               \/ i = 7 /\ w = "pack" /\ r = "x2"
               \/ i = 8 /\ w = "pack" /\ r = "x3"
               \/ i = 9 /\ w = "launch" /\ r = "x2"
               \/ i = 10 /\ w = "launch" /\ r = "x3"
               \/ i = 11 /\ w = "take" /\ r = "x2"
               \/ i = 12 /\ w = "take" /\ r = "x3"
  <2>1. i \in 1..3 \/ i \in 4..6 \/ i \in 7..9 \/ i \in 10..12 \/ i \in 13..14
    BY <1>2
  <2>2. CASE i \in 1..3
    BY <1>3, <2>2, TaskIs
  <2>3. CASE i \in 4..6
    BY <1>3, <2>3, TaskIs
  <2>4. CASE i \in 7..9
    BY <1>3, <2>4, TaskIs
  <2>5. CASE i \in 10..12
    BY <1>3, <2>5, TaskIs
  <2>6. CASE i \in 13..14
    BY <1>3, <2>6, TaskIs
  <2> QED BY <2>1, <2>2, <2>3, <2>4, <2>5, <2>6
<1>5. \/ r = "intra" /\ PackAt(r) = 1 /\ LaunchAt(r) = 2 /\ TakeAt(r) = 3
      \/ r \in {"cross", "all"} /\ PackAt(r) = 4 /\ LaunchAt(r) = 5 /\ TakeAt(r) = 6
      \/ r = "x2" /\ PackAt(r) = 7 /\ LaunchAt(r) = 9 /\ TakeAt(r) = 11
      \/ r = "x3" /\ PackAt(r) = 8 /\ LaunchAt(r) = 10 /\ TakeAt(r) = 12
  BY Times DEF Rounds
<1>6. r \in Live <=> r \in {"intra", "x2", "x3"} \/ r = Ghost
  BY DEF Live
<1>7. Doing(b, "pack", r) <=> r \in Live /\ i = PackAt(r)
  BY <1>1, <1>2, <1>3, <1>4, <1>5, <1>6 DEF Doing
<1>8. Doing(b, "launch", r) <=> r \in Live /\ i = LaunchAt(r)
  BY <1>1, <1>2, <1>3, <1>4, <1>5, <1>6 DEF Doing
<1>9. Doing(b, "take", r) <=> r \in Live /\ i = TakeAt(r)
  BY <1>1, <1>2, <1>3, <1>4, <1>5, <1>6 DEF Doing
<1> QED BY <1>7, <1>8, <1>9 DEF i

LEMMA LastTasks ==
  ASSUME NEW b, Stepping(b)
  PROVE  /\ Program[pc[b]] = Advance <=> Step(b) = 13
         /\ Program[pc[b]] = Done <=> Step(b) = 14
<1> DEFINE i == Step(b)
<1>1. Program[pc[b]] = Task(i)
  BY ProgramIs DEF Stepping
<1>2. i \in 1..14
  BY SizeTypes DEF FirstStep, Stepping
<1> HIDE DEF i
<1>3. /\ Task(i) = <<"advance", "block">> <=> i = 13
      /\ Task(i) = <<"done", "block">> <=> i = 14
  <2>1. i \in 1..7 \/ i \in 8..14
    BY <1>2
  <2>2. CASE i \in 1..7
    BY <2>2, TaskIs
  <2>3. CASE i \in 8..14
    BY <2>3, TaskIs
  <2> QED BY <2>1, <2>2, <2>3
<1> QED BY <1>1, <1>3 DEF Advance, Done, i

-----------------------------------------------------------------------------
(* Messages of a channel and launches of a process, counted from the start. *)

One(happened) == IF happened THEN 1 ELSE 0
SeamRound(o) == IF o[2] # 0 THEN "x2" ELSE "x3"

SentBy(t, i, same, o) ==
  IF same THEN t - 1 + One(i > 2)
  ELSE 2 * (t - 1) + One(i > 5) + One(i > LaunchAt(SeamRound(o)))

TakenBy(t, i, same, o) ==
  IF same THEN t - 1 + One(i > 3)
  ELSE 2 * (t - 1) + One(i > 6) + One(i > TakeAt(SeamRound(o)))

LaunchesBy(divided, t, i) ==
  IF divided THEN 4 * (t - 1) + One(i > 2) + One(i > 5) + One(i > 9) + One(i > 10)
  ELSE 3 * (t - 1) + One(i > 5) + One(i > 9) + One(i > 10)

Launching(i, same, o) == IF same THEN i = 2 ELSE i = 5 \/ i = LaunchAt(SeamRound(o))
Taking(i, same, o) == IF same THEN i = 3 ELSE i = 6 \/ i = TakeAt(SeamRound(o))

LEMMA SeamTimes ==
  ASSUME NEW o
  PROVE  \/ o[2] # 0 /\ SeamRound(o) = "x2" /\ LaunchAt(SeamRound(o)) = 9
               /\ TakeAt(SeamRound(o)) = 11
         \/ o[2] = 0 /\ SeamRound(o) = "x3" /\ LaunchAt(SeamRound(o)) = 10
               /\ TakeAt(SeamRound(o)) = 12
BY Times DEF SeamRound

LEMMA Counting ==
  ASSUME NEW t \in Nat \ {0}, NEW i \in 1..13, NEW same \in BOOLEAN, NEW o
  PROVE  /\ SentBy(t, i, same, o) \in Nat /\ TakenBy(t, i, same, o) \in Nat
         /\ SentBy(t, 14, same, o) \in Nat /\ TakenBy(t, 14, same, o) \in Nat
         /\ SentBy(t, i + 1, same, o)
              = SentBy(t, i, same, o) + One(Launching(i, same, o))
         /\ TakenBy(t, i + 1, same, o)
              = TakenBy(t, i, same, o) + One(Taking(i, same, o))
<1>1. CASE same
  BY <1>1 DEF SentBy, TakenBy, One, Launching, Taking
<1>2. CASE ~same
  BY <1>2, SeamTimes DEF SentBy, TakenBy, One, Launching, Taking
<1> QED BY <1>1, <1>2

LEMMA CountingOn ==
  ASSUME NEW t \in Nat \ {0}, NEW i \in {1, 4}, NEW same \in BOOLEAN, NEW o, same => i = 1
  PROVE  /\ SentBy(t + 1, i, same, o) = SentBy(t, 13, same, o)
         /\ TakenBy(t + 1, i, same, o) = TakenBy(t, 13, same, o)
<1>1. CASE same
  BY <1>1 DEF SentBy, TakenBy, One
<1>2. CASE ~same
  BY <1>2, SeamTimes DEF SentBy, TakenBy, One
<1> QED BY <1>1, <1>2

LEMMA LaunchesCounted ==
  ASSUME NEW t \in Nat \ {0}, NEW i \in 1..13, NEW divided \in BOOLEAN
  PROVE  /\ LaunchesBy(divided, t, i + 1) = LaunchesBy(divided, t, i)
              + One((divided /\ i = 2) \/ i = 5 \/ i = 9 \/ i = 10)
         /\ LaunchesBy(divided, t + 1, IF divided THEN 1 ELSE 4)
              = LaunchesBy(divided, t, 13)
         /\ LaunchesBy(divided, t, i) \in Nat
<1>1. CASE divided
  BY <1>1 DEF LaunchesBy, One
<1>2. CASE ~divided
  BY <1>2 DEF LaunchesBy, One
<1> QED BY <1>1, <1>2

\* Blocks with as many launches, of which neither has more steps behind it and one is
\* about to launch, are at the same step of the same stage.
LEMMA AboutToLaunch ==
  ASSUME NEW divided \in BOOLEAN, NEW t \in Nat \ {0}, NEW s \in Nat \ {0},
         NEW i \in 1..14, NEW j \in 1..14, ~divided => i >= 4 /\ j >= 4,
         LaunchesBy(divided, t, i) = LaunchesBy(divided, s, j),
         (divided /\ i = 2) \/ i = 5 \/ i = 9 \/ i = 10,
         t < s \/ (t = s /\ i <= j)
  PROVE  s = t /\ j = i
<1>1. CASE divided
  BY <1>1 DEF LaunchesBy, One
<1>2. CASE ~divided
  BY <1>2 DEF LaunchesBy, One
<1> QED BY <1>1, <1>2

LEMMA SameStage ==
  ASSUME NEW divided \in BOOLEAN, NEW t \in Nat \ {0}, NEW s \in Nat \ {0}, NEW i \in 1..14,
         LaunchesBy(divided, t, i) = LaunchesBy(divided, s, i)
  PROVE  s = t
<1>1. CASE divided
  BY <1>1 DEF LaunchesBy, One
<1>2. CASE ~divided
  BY <1>2 DEF LaunchesBy, One
<1> QED BY <1>1, <1>2

LEMMA OnePanel ==
  ASSUME size \in Sizes, NEW b \in Blocks, NEW o \in Offsets4, ~(Pxy > 1)
  PROVE  ~SamePanel(b, o)
<1>1. Pxy = 1
  BY SizeTypes
<1>2. b[1] = 0 /\ b[2] = 0
  BY <1>1, BlockTypes
<1>3. Ahead(b, o) \notin Places(Pxy)
  BY <1>1, <1>2, SideCases DEF Ahead, Places
<1> QED BY <1>3, Plan

\* The buffers of a round are those a block launches, or takes, at that step.
LEMMA InRound ==
  ASSUME size \in Sizes, NEW b \in Blocks, NEW o \in Offsets4, NEW r \in Live
  PROVE  /\ o \in Buffers(b, r) <=> Launching(LaunchAt(r), SamePanel(b, o), o)
         /\ o \in Buffers(b, r) <=> Taking(TakeAt(r), SamePanel(b, o), o)
<1>1. o[2] # 0 <=> o[1] = 0
  BY SideCases
<1>2. CASE r = "intra"
  <2>1. o \in Buffers(b, r) <=> SamePanel(b, o)
    BY <1>2 DEF Buffers
  <2> QED BY <1>2, <2>1, Times, SeamTimes DEF Launching, Taking
<1>3. CASE r = Ghost
  <2>1. o \in Buffers(b, r) <=> ~SamePanel(b, o)
    BY <1>3, OnePanel DEF Buffers, Ghost
  <2>2. LaunchAt(r) = 5 /\ TakeAt(r) = 6
    BY <1>3, Times DEF Ghost
  <2> QED BY <2>1, <2>2, SeamTimes DEF Launching, Taking
<1>4. CASE r = "x2"
  <2>1. o \in Buffers(b, r) <=> ~SamePanel(b, o) /\ o[2] # 0
    BY <1>4 DEF Buffers
  <2> QED BY <1>4, <2>1, Times, SeamTimes DEF Launching, Taking
<1>5. CASE r = "x3"
  <2>1. o \in Buffers(b, r) <=> ~SamePanel(b, o) /\ o[1] # 0
    BY <1>5 DEF Buffers
  <2> QED BY <1>1, <1>5, <2>1, Times, SeamTimes DEF Launching, Taking
<1> QED BY <1>2, <1>3, <1>4, <1>5 DEF Live

-----------------------------------------------------------------------------
(* How far the blocks are: the blocks of a process have launched as often, *)
(* and a channel has what was sent and not taken yet.                      *)

Sent(b, o) == SentBy(stage[b], Step(b), SamePanel(b, o), o)
Taken(b, o) == TakenBy(stage[b], Step(b), SamePanel(b, o), o)
Divided == Pxy > 1

Launches(b) == LaunchesBy(Divided, stage[b], Step(b))

BlockType(b) ==
  /\ pc[b] \in Nat /\ Step(b) \in FirstStep..14 /\ stage[b] \in 1..MaxStage
  /\ Step(b) = 14 => stage[b] = MaxStage

Types ==
  /\ size \in Sizes /\ DOMAIN pc = Blocks /\ DOMAIN stage = Blocks /\ DOMAIN net = Blocks
  /\ \A b \in Blocks : BlockType(b)

Together == \A b \in Blocks, c \in Blocks :
              Process(b) = Process(c) => Launches(b) = Launches(c)

IsSeq(s) == s \in Seq({s[i] : i \in DOMAIN s})

Channel(b, o) ==
  ~Local(b, o) => /\ IsSeq(net[b][o])
                  /\ Len(net[b][o]) = Sent(Neighbor[b][o], Peer[b][o]) - Taken(b, o)

Channels == \A b \in Blocks, o \in Offsets4 : Channel(b, o)

ControlInv == Types /\ Together /\ Channels

LEMMA Steady ==
  ASSUME size' = size
  PROVE  /\ Pxy' = Pxy /\ Width' = Width /\ Nghost' = Nghost /\ Blocks' = Blocks
         /\ Neighbor' = Neighbor /\ Peer' = Peer /\ Rank' = Rank
         /\ FirstStep' = FirstStep /\ Divided' = Divided /\ Ghost' = Ghost /\ Live' = Live
         /\ \A b : Process(b)' = Process(b)
         /\ \A b, o : Local(b, o)' = Local(b, o)
         /\ \A b, o : SamePanel(b, o)' = SamePanel(b, o)
         /\ \A b, r : Buffers(b, r)' = Buffers(b, r)
BY DEF Pxy, Width, Nghost, Blocks, Neighbor, Peer, Rank, FirstStep, Divided, Ghost, Live, Process,
       Local, SamePanel, Buffers

LEMMA StepTypes ==
  ASSUME Types, NEW b \in Blocks
  PROVE  /\ Stepping(b) /\ Step(b) \in 1..14 /\ Step(b) \in FirstStep..14
         /\ ~Divided => Step(b) >= 4
         /\ stage[b] \in Nat \ {0} /\ stage[b] \in 1..MaxStage /\ pc[b] \in Nat
         /\ \A o : SamePanel(b, o) \in BOOLEAN
         /\ Divided \in BOOLEAN
<1>1. size \in Sizes /\ BlockType(b)
  BY DEF Types
<1>2. /\ Stepping(b) /\ Step(b) \in FirstStep..14 /\ pc[b] \in Nat
      /\ stage[b] \in 1..MaxStage
  BY <1>1 DEF BlockType, Stepping
<1>3. MaxStage \in Nat \ {0} /\ Pxy \in Nat
  BY <1>1, SizeTypes
<1>4. Step(b) \in 1..14 /\ (~Divided => Step(b) >= 4)
  <2>1. FirstStep \in {1, 4} /\ (~Divided => FirstStep = 4)
    BY <1>3 DEF FirstStep, Divided
  <2> QED BY <1>2, <2>1
<1> QED BY <1>2, <1>3, <1>4 DEF SamePanel, Divided

\* One block goes on by a step that is not a launch.
LEMMA OneSteps ==
  ASSUME Types, Together, NEW b \in Blocks, Step(b) \in 1..13, Step(b) \notin {2, 5, 9, 10},
         Step(b) = 13 => stage[b] = MaxStage,
         size' = size, stage' = stage, NextStep(b), DOMAIN net' = Blocks
  PROVE  /\ Types' /\ Together'
         /\ Step(b)' = Step(b) + 1
         /\ \A c \in Blocks : c # b => Step(c)' = Step(c)
         /\ \A c \in Blocks, o \in Offsets4 : Sent(c, o)' = Sent(c, o)
         /\ \A c \in Blocks, o \in Offsets4 : Taken(c, o)' = Taken(c, o)
                                              + One(c = b /\ Taking(Step(b), SamePanel(b, o), o))
<1>1. /\ pc' = [pc EXCEPT ![b] = @ + 1] /\ DOMAIN pc = Blocks /\ DOMAIN stage = Blocks
      /\ size \in Sizes
  BY DEF Types, NextStep
<1>2. /\ \A c \in Blocks : pc'[c] = IF c = b THEN pc[b] + 1 ELSE pc[c]
      /\ DOMAIN pc' = Blocks
  BY <1>1
<1>3. /\ Step(b)' = Step(b) + 1
      /\ \A c \in Blocks : c # b => Step(c)' = Step(c)
  BY <1>2, Steady, StepTypes DEF Step
<1>4. \A c \in Blocks : BlockType(c)'
  <2> SUFFICES ASSUME NEW c \in Blocks PROVE BlockType(c)'
    OBVIOUS
  <2>1. BlockType(c) /\ FirstStep' = FirstStep /\ pc[c] \in Nat
    BY Steady, StepTypes DEF Types
  <2>2. CASE c = b
    <3>1. Step(b)' \in FirstStep..14 /\ (Step(b)' = 14 => stage[b] = MaxStage)
      <4>1. Step(b) \in FirstStep..14 /\ FirstStep \in {1, 4}
        BY StepTypes DEF FirstStep
      <4> QED BY <1>3, <4>1
    <3> QED BY <1>2, <2>1, <2>2, <3>1 DEF BlockType
  <2>3. CASE c # b
    BY <1>2, <1>3, <2>1, <2>3 DEF BlockType
  <2> QED BY <2>2, <2>3
<1>5. Types'
  BY <1>1, <1>2, <1>4, Steady DEF Types
<1>6. \A c \in Blocks : Launches(c)' = Launches(c)
  <2> SUFFICES ASSUME NEW c \in Blocks PROVE Launches(c)' = Launches(c)
    OBVIOUS
  <2>1. Launches(c)' = LaunchesBy(Divided, stage[c], Step(c)')
    BY Steady DEF Launches
  <2>2. CASE c = b
    <3>1. One((Divided /\ Step(b) = 2) \/ Step(b) = 5 \/ Step(b) = 9 \/ Step(b) = 10) = 0
      BY DEF One
    <3>2. stage[b] \in Nat \ {0} /\ Divided \in BOOLEAN
      BY StepTypes
    <3>3. LaunchesBy(Divided, stage[b], Step(b) + 1) = LaunchesBy(Divided, stage[b], Step(b)) + 0
      BY <3>1, <3>2, LaunchesCounted
    <3>4. LaunchesBy(Divided, stage[b], Step(b)) \in Nat
      BY <3>2, LaunchesCounted
    <3> QED BY <1>3, <2>1, <2>2, <3>3, <3>4 DEF Launches
  <2>3. CASE c # b
    BY <1>3, <2>1, <2>3 DEF Launches
  <2> QED BY <2>2, <2>3
<1>7. Together'
  BY <1>6, Steady DEF Together
<1>8. ASSUME NEW c \in Blocks, NEW o \in Offsets4
      PROVE  /\ Sent(c, o)' = Sent(c, o)
             /\ Taken(c, o)' = Taken(c, o)
                               + One(c = b /\ Taking(Step(b), SamePanel(b, o), o))
  <2>1. /\ Sent(c, o)' = SentBy(stage[c], Step(c)', SamePanel(c, o), o)
        /\ Taken(c, o)' = TakenBy(stage[c], Step(c)', SamePanel(c, o), o)
    BY Steady DEF Sent, Taken
  <2>2. CASE c = b
    <3>1. stage[b] \in Nat \ {0} /\ SamePanel(b, o) \in BOOLEAN
      BY StepTypes
    <3>2. ~Launching(Step(b), SamePanel(b, o), o)
      BY SeamTimes DEF Launching
    <3>3. /\ SentBy(stage[b], Step(b), SamePanel(b, o), o) \in Nat
          /\ SentBy(stage[b], Step(b) + 1, SamePanel(b, o), o)
               = SentBy(stage[b], Step(b), SamePanel(b, o), o)
                   + One(Launching(Step(b), SamePanel(b, o), o))
          /\ TakenBy(stage[b], Step(b) + 1, SamePanel(b, o), o)
               = TakenBy(stage[b], Step(b), SamePanel(b, o), o)
                   + One(Taking(Step(b), SamePanel(b, o), o))
      BY <3>1, Counting
    <3>4. One(Launching(Step(b), SamePanel(b, o), o)) = 0
      BY <3>2 DEF One
    <3>5. One(c = b /\ Taking(Step(b), SamePanel(b, o), o))
            = One(Taking(Step(b), SamePanel(b, o), o))
      BY <2>2 DEF One
    <3> QED BY <1>3, <2>1, <2>2, <3>3, <3>4, <3>5 DEF Sent, Taken
  <2>3. CASE c # b
    <3>1. Step(c) \in 1..14 /\ stage[c] \in Nat \ {0} /\ SamePanel(c, o) \in BOOLEAN
      BY StepTypes
    <3>2. Sent(c, o) \in Nat /\ Taken(c, o) \in Nat
      <4>1. Step(c) \in 1..13 \/ Step(c) = 14
        BY <3>1
      <4> QED BY <3>1, <4>1, Counting DEF Sent, Taken
    <3>3. One(c = b /\ Taking(Step(b), SamePanel(b, o), o)) = 0
      BY <2>3 DEF One
    <3> QED BY <1>3, <2>1, <2>3, <3>2, <3>3 DEF Sent, Taken
  <2> QED BY <2>2, <2>3
<1> QED BY <1>3, <1>5, <1>7, <1>8

LEMMA Mates ==
  ASSUME size \in Sizes, NEW b \in Blocks
  PROVE  ProcessOf(b) = {c \in Blocks : Process(c) = Process(b)}
<1>1. Pxy \in Sides /\ Pxy = size[1]
  BY SizeTypes DEF Pxy
<1>2. Rank = RanksOf[size[1]] /\ Blocks = Places(size[1])
  BY DEF Rank, Blocks, Pxy
<1> QED BY <1>1, <1>2 DEF ProcessOf, ProcessMates, Process

\* A message arrives in the buffer its sender packed it for.
Arrives(b, r, c, p) ==
  Neighbor[c][p] \in ProcessOf(b) /\ Peer[c][p] \in Buffers(Neighbor[c][p], r)

LEMMA SendersAre ==
  ASSUME size \in Sizes, NEW b \in Blocks, NEW r \in Rounds, NEW c \in Blocks, NEW p \in Offsets4
  PROVE  /\ Arrives(b, r, c, p) =>
              Senders(ProcessOf(b), r, c, p) = {<<Neighbor[c][p], Peer[c][p]>>}
         /\ ~Arrives(b, r, c, p) => Senders(ProcessOf(b), r, c, p) = {}
<1> DEFINE m == Neighbor[c][p]
           q == Peer[c][p]
<1>1. m \in Blocks /\ q \in Offsets4 /\ Neighbor[m][q] = c /\ Peer[m][q] = p
  BY Plan
<1>2. ASSUME NEW x \in ProcessOf(b) \X Offsets4,
             Neighbor[x[1]][x[2]] = c, Peer[x[1]][x[2]] = p
      PROVE  x = <<m, q>>
  <2>1. x[1] \in Blocks /\ x[2] \in Offsets4 /\ x = <<x[1], x[2]>>
    BY Mates
  <2>2. Neighbor[c][p] = x[1] /\ Peer[c][p] = x[2]
    BY <1>2, <2>1, Plan
  <2> QED BY <2>1, <2>2
<1> HIDE DEF m, q
<1>3. CASE Arrives(b, r, c, p)
  <2>1. m \in ProcessOf(b) /\ q \in Buffers(m, r)
    BY <1>3 DEF Arrives, m, q
  <2>2. <<m, q>> \in Senders(ProcessOf(b), r, c, p)
    BY <1>1, <2>1 DEF Senders
  <2>3. Senders(ProcessOf(b), r, c, p) \subseteq {<<m, q>>}
    BY <1>2 DEF Senders
  <2> QED BY <1>3, <2>2, <2>3 DEF m, q
<1>4. CASE ~Arrives(b, r, c, p)
  <2>1. ~(m \in ProcessOf(b) /\ q \in Buffers(m, r))
    BY <1>4 DEF Arrives, m, q
  <2>2. ASSUME NEW x \in Senders(ProcessOf(b), r, c, p)
        PROVE  FALSE
    <3>1. x = <<m, q>> /\ x[1] \in ProcessOf(b) /\ x[2] \in Buffers(x[1], r)
      BY <1>2 DEF Senders
    <3> QED BY <2>1, <3>1
  <2> QED BY <1>4, <2>2
<1> QED BY <1>3, <1>4

Delivered(b, r) ==
  /\ DOMAIN recv_bufs' = Blocks /\ DOMAIN net' = Blocks
  /\ \A c \in Blocks, p \in Offsets4 :
       LET m == Neighbor[c][p]
           q == Peer[c][p]
       IN /\ recv_bufs'[c][p] = IF c \in ProcessOf(b) /\ Arrives(b, r, c, p)
                                THEN send_bufs[m][q] ELSE recv_bufs[c][p]
          /\ net'[c][p] = IF c \notin ProcessOf(b) /\ Arrives(b, r, c, p)
                          THEN Append(net[c][p], send_bufs[m][q]) ELSE net[c][p]

LEMMA LaunchIs ==
  ASSUME size \in Sizes, NEW b \in Blocks, Launch(b)
  PROVE  \E r \in Rounds :
           /\ Doing(b, "launch", r) /\ Ready(b) /\ Delivered(b, r)
           /\ pc' = [c \in Blocks |-> IF c \in ProcessOf(b) THEN pc[c] + 1 ELSE pc[c]]
           /\ UNCHANGED <<size, u, outer, send_bufs, stage>>
<1> DEFINE here == ProcessOf(b)
<1>1. PICK r \in Rounds :
        /\ At(b, "launch", r)
        /\ recv_bufs' = [c \in Blocks |-> [p \in Offsets4 |->
             IF c \in here /\ Senders(here, r, c, p) # {} THEN Message(here, r, c, p)
             ELSE recv_bufs[c][p]]]
        /\ net' = [c \in Blocks |-> [p \in Offsets4 |->
             IF c \in here \/ Senders(here, r, c, p) = {} THEN net[c][p]
             ELSE Append(net[c][p], Message(here, r, c, p))]]
        /\ pc' = [c \in Blocks |-> IF c \in here THEN pc[c] + 1 ELSE pc[c]]
        /\ UNCHANGED <<size, u, outer, send_bufs, stage>>
  BY DEF Launch
<1>2. ASSUME NEW c \in Blocks, NEW p \in Offsets4
      PROVE  /\ Senders(here, r, c, p) # {} <=> Arrives(b, r, c, p)
             /\ Arrives(b, r, c, p) =>
                  Message(here, r, c, p) = send_bufs[Neighbor[c][p]][Peer[c][p]]
  <2>1. CASE Arrives(b, r, c, p)
    <3> DEFINE x == <<Neighbor[c][p], Peer[c][p]>>
    <3>1. Senders(here, r, c, p) = {x}
      BY <2>1, SendersAre
    <3>2. (CHOOSE y \in Senders(here, r, c, p) : TRUE) = x
      BY <3>1
    <3> QED BY <2>1, <3>1, <3>2 DEF Message
  <2>2. CASE ~Arrives(b, r, c, p)
    BY <2>2, SendersAre
  <2> QED BY <2>1, <2>2
<1>3. Delivered(b, r)
  BY <1>1, <1>2 DEF Delivered
<1> QED BY <1>1, <1>3 DEF At

\* Blocks of a process that launch a round launch it at the same stage.
LEMMA TogetherAtLaunch ==
  ASSUME Types, Together, NEW b \in Blocks, NEW r \in Rounds, Doing(b, "launch", r), Ready(b)
  PROVE  /\ r \in Live
         /\ \A c \in ProcessOf(b) : Step(c) = LaunchAt(r) /\ stage[c] = stage[b]
<1>1. size \in Sizes
  BY DEF Types
<1>2. r \in Live /\ Step(b) = LaunchAt(r)
  BY StepTypes, Tasks
<1> SUFFICES ASSUME NEW c \in ProcessOf(b)
             PROVE  Step(c) = LaunchAt(r) /\ stage[c] = stage[b]
  BY <1>2
<1>3. c \in Blocks /\ Process(c) = Process(b)
  BY <1>1, Mates
<1>4. Doing(c, "launch", r)
  BY DEF Ready
<1>5. Step(c) = LaunchAt(r)
  BY <1>3, <1>4, StepTypes, Tasks
<1>6. LaunchesBy(Divided, stage[b], Step(b)) = LaunchesBy(Divided, stage[c], Step(b))
  BY <1>2, <1>3, <1>5 DEF Together, Launches
<1>7. stage[c] = stage[b]
  BY <1>3, <1>6, StepTypes, SameStage
<1> QED BY <1>5, <1>7

LEMMA LaunchTimes ==
  ASSUME NEW r \in Live
  PROVE  LaunchAt(r) \in {2, 5, 9, 10}
BY Times DEF Live, Ghost

\* The blocks of a process go on together.
LEMMA ProcessSteps ==
  ASSUME Types, Together, NEW b \in Blocks, NEW r \in Rounds, Doing(b, "launch", r), Ready(b),
         DOMAIN net' = Blocks, size' = size, stage' = stage,
         pc' = [c \in Blocks |-> IF c \in ProcessOf(b) THEN pc[c] + 1 ELSE pc[c]]
  PROVE  /\ Types' /\ Together'
         /\ \A c \in Blocks : Step(c)' = IF c \in ProcessOf(b) THEN Step(c) + 1 ELSE Step(c)
         /\ \A c \in Blocks, o \in Offsets4 :
              Sent(c, o)' = Sent(c, o) + One(c \in ProcessOf(b) /\ o \in Buffers(c, r))
         /\ \A c \in Blocks, o \in Offsets4 : Taken(c, o)' = Taken(c, o)
<1>1. size \in Sizes /\ DOMAIN stage = Blocks
  BY DEF Types
<1>2. /\ r \in Live /\ LaunchAt(r) \in {2, 5, 9, 10}
      /\ \A c \in ProcessOf(b) : Step(c) = LaunchAt(r) /\ stage[c] = stage[b]
  BY TogetherAtLaunch, LaunchTimes
<1>3. \A c \in Blocks : Step(c)' = IF c \in ProcessOf(b) THEN Step(c) + 1 ELSE Step(c)
  BY Steady, StepTypes DEF Step
<1>4. \A c \in Blocks : BlockType(c)'
  <2> SUFFICES ASSUME NEW c \in Blocks PROVE BlockType(c)'
    OBVIOUS
  <2>1. BlockType(c) /\ FirstStep' = FirstStep /\ pc[c] \in Nat /\ Step(c) \in FirstStep..14
    BY Steady, StepTypes DEF Types
  <2>2. CASE c \in ProcessOf(b)
    <3>1. Step(c) \in {2, 5, 9, 10} /\ FirstStep \in {1, 4}
      BY <1>2, <2>2 DEF FirstStep
    <3>2. Step(c)' \in FirstStep..14 /\ Step(c)' # 14
      BY <1>3, <2>1, <2>2, <3>1
    <3> QED BY <2>1, <2>2, <3>2 DEF BlockType
  <2>3. CASE c \notin ProcessOf(b)
    BY <1>3, <2>1, <2>3 DEF BlockType
  <2> QED BY <2>2, <2>3
<1>5. Types'
  BY <1>1, <1>4, Steady DEF Types
<1>6. \A c \in Blocks : Launches(c)' = Launches(c) + One(c \in ProcessOf(b))
  <2> SUFFICES ASSUME NEW c \in Blocks
               PROVE  Launches(c)' = Launches(c) + One(c \in ProcessOf(b))
    OBVIOUS
  <2>1. Launches(c)' = LaunchesBy(Divided, stage[c], Step(c)')
    BY Steady DEF Launches
  <2>2. stage[c] \in Nat \ {0} /\ Divided \in BOOLEAN /\ Step(c) \in 1..14
        /\ (~Divided => Step(c) >= 4)
    BY StepTypes
  <2>3. CASE c \in ProcessOf(b)
    <3>1. Step(c) \in {2, 5, 9, 10}
      BY <1>2, <2>3
    <3>2. One((Divided /\ Step(c) = 2) \/ Step(c) = 5 \/ Step(c) = 9 \/ Step(c) = 10) = 1
      BY <2>2, <3>1 DEF One
    <3>3. LaunchesBy(Divided, stage[c], Step(c) + 1) = LaunchesBy(Divided, stage[c], Step(c)) + 1
      <4> DEFINE t == stage[c]
                 i == Step(c)
      <4>1. t \in Nat \ {0} /\ i \in 1..13
        BY <2>2, <3>1
      <4> HIDE DEF t, i
      <4>2. LaunchesBy(Divided, t, i + 1) = LaunchesBy(Divided, t, i)
              + One((Divided /\ i = 2) \/ i = 5 \/ i = 9 \/ i = 10)
        BY <2>2, <4>1, LaunchesCounted
      <4> QED BY <3>2, <4>2 DEF t, i
    <3> QED BY <1>3, <2>1, <2>3, <3>3 DEF Launches, One
  <2>4. CASE c \notin ProcessOf(b)
    <3>1. LaunchesBy(Divided, stage[c], Step(c)) \in Int
      BY <2>2 DEF LaunchesBy, One
    <3> QED BY <1>3, <2>1, <2>4, <3>1 DEF Launches, One
  <2> QED BY <2>3, <2>4
<1>7. Together'
  <2> SUFFICES ASSUME NEW c \in Blocks, NEW d \in Blocks, Process(c) = Process(d)
               PROVE  Launches(c)' = Launches(d)'
    BY Steady DEF Together
  <2>1. c \in ProcessOf(b) <=> d \in ProcessOf(b)
    BY <1>1, Mates
  <2> QED BY <1>6, <2>1 DEF Together, One
<1>8. ASSUME NEW c \in Blocks, NEW o \in Offsets4
      PROVE  /\ Sent(c, o)' = Sent(c, o) + One(c \in ProcessOf(b) /\ o \in Buffers(c, r))
             /\ Taken(c, o)' = Taken(c, o)
  <2>1. /\ Sent(c, o)' = SentBy(stage[c], Step(c)', SamePanel(c, o), o)
        /\ Taken(c, o)' = TakenBy(stage[c], Step(c)', SamePanel(c, o), o)
    BY Steady DEF Sent, Taken
  <2>2. stage[c] \in Nat \ {0} /\ SamePanel(c, o) \in BOOLEAN /\ Step(c) \in 1..14
    BY StepTypes
  <2>3. CASE c \in ProcessOf(b)
    <3>1. Step(c) = LaunchAt(r) /\ Step(c) \in 1..13
      BY <1>2, <2>3
    <3>2. o \in Buffers(c, r) <=> Launching(Step(c), SamePanel(c, o), o)
      BY <1>1, <1>2, <3>1, InRound
    <3>3. ~Taking(Step(c), SamePanel(c, o), o)
      BY <1>2, <3>1, SeamTimes DEF Taking
    <3>4. /\ SentBy(stage[c], Step(c) + 1, SamePanel(c, o), o)
               = SentBy(stage[c], Step(c), SamePanel(c, o), o)
                   + One(Launching(Step(c), SamePanel(c, o), o))
          /\ TakenBy(stage[c], Step(c) + 1, SamePanel(c, o), o)
               = TakenBy(stage[c], Step(c), SamePanel(c, o), o)
                   + One(Taking(Step(c), SamePanel(c, o), o))
          /\ TakenBy(stage[c], Step(c), SamePanel(c, o), o) \in Nat
      BY <2>2, <3>1, Counting
    <3>5. One(Taking(Step(c), SamePanel(c, o), o)) = 0
          /\ One(Launching(Step(c), SamePanel(c, o), o))
               = One(c \in ProcessOf(b) /\ o \in Buffers(c, r))
      BY <2>3, <3>2, <3>3 DEF One
    <3> QED BY <1>3, <2>1, <2>3, <3>4, <3>5 DEF Sent, Taken
  <2>4. CASE c \notin ProcessOf(b)
    <3>1. Sent(c, o) \in Nat /\ Taken(c, o) \in Nat
      <4>1. Step(c) \in 1..13 \/ Step(c) = 14
        BY <2>2
      <4> QED BY <2>2, <4>1, Counting DEF Sent, Taken
    <3>2. One(c \in ProcessOf(b) /\ o \in Buffers(c, r)) = 0
      BY <2>4 DEF One
    <3> QED BY <1>3, <2>1, <2>4, <3>1, <3>2 DEF Sent, Taken
  <2> QED BY <2>3, <2>4
<1> QED BY <1>3, <1>5, <1>7, <1>8

\* A block goes on to the next stage.
LEMMA StageSteps ==
  ASSUME Types, Together, NEW b \in Blocks, AdvanceLocal(b)
  PROVE  /\ Types' /\ Together' /\ Step(b) = 13
         /\ Step(b)' \in {FirstStep, 14}
         /\ Step(b)' # 14 => stage[b]' = stage[b] + 1
         /\ \A c \in Blocks : c # b => Step(c)' = Step(c) /\ stage[c]' = stage[c]
         /\ \A c \in Blocks, o \in Offsets4 : Sent(c, o)' = Sent(c, o)
         /\ \A c \in Blocks, o \in Offsets4 : Taken(c, o)' = Taken(c, o)
<1>1. size \in Sizes /\ DOMAIN stage = Blocks /\ DOMAIN pc = Blocks /\ DOMAIN net = Blocks
  BY DEF Types
<1>2. Step(b) = 13 /\ size' = size /\ net' = net
  BY StepTypes, LastTasks DEF AdvanceLocal
<1>3. CASE stage[b] = MaxStage
  <2>1. NextStep(b) /\ stage' = stage
    BY <1>3 DEF AdvanceLocal
  <2>2. /\ Types' /\ Together' /\ Step(b)' = 14
        /\ \A c \in Blocks : c # b => Step(c)' = Step(c)
        /\ \A c \in Blocks, o \in Offsets4 : Sent(c, o)' = Sent(c, o)
        /\ \A c \in Blocks, o \in Offsets4 :
             Taken(c, o)' = Taken(c, o) + One(c = b /\ Taking(13, SamePanel(b, o), o))
    BY <1>1, <1>2, <1>3, <2>1, OneSteps
  <2>3. ASSUME NEW c \in Blocks, NEW o \in Offsets4 PROVE Taken(c, o)' = Taken(c, o)
    <3>1. One(c = b /\ Taking(13, SamePanel(b, o), o)) = 0
      BY SeamTimes DEF One, Taking
    <3>2. Taken(c, o) \in Nat
      <4>1. Step(c) \in 1..13 \/ Step(c) = 14
        BY StepTypes
      <4> QED BY <4>1, StepTypes, Counting DEF Taken
    <3> QED BY <2>2, <3>1, <3>2
  <2> QED BY <1>2, <2>1, <2>2, <2>3
<1>4. CASE stage[b] # MaxStage
  <2>1. pc' = [pc EXCEPT ![b] = 1] /\ stage' = [stage EXCEPT ![b] = @ + 1]
    BY <1>4 DEF AdvanceLocal
  <2>2. /\ \A c \in Blocks : c # b => pc'[c] = pc[c] /\ stage'[c] = stage[c]
        /\ pc'[b] = 1 /\ stage'[b] = stage[b] + 1
        /\ DOMAIN pc' = Blocks /\ DOMAIN stage' = Blocks
    BY <1>1, <2>1
  <2>3. /\ Step(b)' = FirstStep
        /\ \A c \in Blocks : c # b => Step(c)' = Step(c)
    BY <1>2, <2>2, Steady DEF Step, FirstStep
  <2>4. FirstStep = (IF Divided THEN 1 ELSE 4)
    BY DEF FirstStep, Divided
  <2>5. \A c \in Blocks : BlockType(c)'
    <3> SUFFICES ASSUME NEW c \in Blocks PROVE BlockType(c)'
      OBVIOUS
    <3>1. BlockType(c) /\ FirstStep' = FirstStep
      BY <1>2, Steady DEF Types
    <3>2. CASE c = b
      <4>1. stage[b] \in 1..MaxStage /\ MaxStage \in Nat
        BY <1>1, StepTypes, SizeTypes
      <4> QED BY <1>4, <2>2, <2>3, <2>4, <3>1, <3>2, <4>1 DEF BlockType
    <3>3. CASE c # b
      BY <2>2, <2>3, <3>1, <3>3 DEF BlockType
    <3> QED BY <3>2, <3>3
  <2>6. Types'
    BY <1>1, <1>2, <2>2, <2>5, Steady DEF Types
  <2>7. \A c \in Blocks : Launches(c)' = Launches(c)
    <3> SUFFICES ASSUME NEW c \in Blocks PROVE Launches(c)' = Launches(c)
      OBVIOUS
    <3>1. Launches(c)' = LaunchesBy(Divided, stage'[c], Step(c)')
      BY <1>2, Steady DEF Launches
    <3>2. CASE c = b
      <4>1. stage[b] \in Nat \ {0} /\ Divided \in BOOLEAN /\ 13 \in 1..13
        BY StepTypes
      <4>2. LaunchesBy(Divided, stage[b] + 1, FirstStep) = LaunchesBy(Divided, stage[b], 13)
        BY <2>4, <4>1, LaunchesCounted
      <4> QED BY <1>2, <2>2, <2>3, <3>1, <3>2, <4>2 DEF Launches
    <3>3. CASE c # b
      BY <2>2, <2>3, <3>1, <3>3 DEF Launches
    <3> QED BY <3>2, <3>3
  <2>8. Together'
    BY <1>2, <2>7, Steady DEF Together
  <2>9. ASSUME NEW c \in Blocks, NEW o \in Offsets4
        PROVE  Sent(c, o)' = Sent(c, o) /\ Taken(c, o)' = Taken(c, o)
    <3>1. /\ Sent(c, o)' = SentBy(stage'[c], Step(c)', SamePanel(c, o), o)
          /\ Taken(c, o)' = TakenBy(stage'[c], Step(c)', SamePanel(c, o), o)
      BY <1>2, Steady DEF Sent, Taken
    <3>2. CASE c = b
      <4>1. stage[b] \in Nat \ {0} /\ SamePanel(b, o) \in BOOLEAN /\ FirstStep \in {1, 4}
            /\ (SamePanel(b, o) => FirstStep = 1)
        BY <1>1, <2>4, StepTypes, OnePanel DEF Divided
      <4>2. /\ SentBy(stage[b] + 1, FirstStep, SamePanel(b, o), o)
                 = SentBy(stage[b], 13, SamePanel(b, o), o)
            /\ TakenBy(stage[b] + 1, FirstStep, SamePanel(b, o), o)
                 = TakenBy(stage[b], 13, SamePanel(b, o), o)
        BY <4>1, CountingOn
      <4> QED BY <1>2, <2>2, <2>3, <3>1, <3>2, <4>2 DEF Sent, Taken
    <3>3. CASE c # b
      BY <2>2, <2>3, <3>1, <3>3 DEF Sent, Taken
    <3> QED BY <3>2, <3>3
  <2> QED BY <1>2, <2>2, <2>3, <2>6, <2>8, <2>9
<1> QED BY <1>3, <1>4

-----------------------------------------------------------------------------
(* The messages of a channel.                                              *)

LEMMA SeqMade ==
  ASSUME NEW S, NEW s \in Seq(S)
  PROVE  IsSeq(s)
<1>1. \A i \in DOMAIN s : s[i] \in {s[j] : j \in DOMAIN s}
  OBVIOUS
<1>2. s = [i \in 1..Len(s) |-> s[i]] /\ Len(s) \in Nat /\ DOMAIN s = 1..Len(s)
  OBVIOUS
<1> QED BY <1>1, <1>2 DEF IsSeq

LEMMA Appended ==
  ASSUME NEW s, NEW a, IsSeq(s)
  PROVE  /\ IsSeq(Append(s, a)) /\ Len(Append(s, a)) = Len(s) + 1 /\ Len(s) \in Nat
         /\ \A i \in 1..Len(s) : Append(s, a)[i] = s[i]
         /\ Append(s, a)[Len(s) + 1] = a
<1> DEFINE S == {s[i] : i \in DOMAIN s} \cup {a}
<1>1. s \in Seq(S) /\ a \in S
  BY DEF IsSeq
<1> HIDE DEF S
<1>2. Append(s, a) \in Seq(S)
  BY <1>1
<1>3. /\ Len(Append(s, a)) = Len(s) + 1 /\ Len(s) \in Nat
      /\ \A i \in 1..Len(s) : Append(s, a)[i] = s[i]
      /\ Append(s, a)[Len(s) + 1] = a
  BY <1>1
<1> QED BY <1>2, <1>3, SeqMade

LEMMA TakenOff ==
  ASSUME NEW s, IsSeq(s), s # <<>>
  PROVE  /\ IsSeq(Tail(s)) /\ Len(Tail(s)) = Len(s) - 1 /\ Len(s) \in Nat \ {0}
         /\ \A i \in 1..(Len(s) - 1) : Tail(s)[i] = s[i + 1]
         /\ Head(s) = s[1]
<1> DEFINE S == {s[i] : i \in DOMAIN s}
<1>1. s \in Seq(S)
  BY DEF IsSeq
<1> HIDE DEF S
<1>2. Tail(s) \in Seq(S)
  BY <1>1
<1>3. /\ Len(Tail(s)) = Len(s) - 1 /\ Len(s) \in Nat \ {0}
      /\ \A i \in 1..(Len(s) - 1) : Tail(s)[i] = s[i + 1]
      /\ Head(s) = s[1]
  BY <1>1
<1> QED BY <1>2, <1>3, SeqMade

\* What all steps that take a round have in common.
Takes(b, r) ==
  /\ Doing(b, "take", r) /\ Ready(b) /\ Arrivals(b, r) /\ NextStep(b)
  /\ UNCHANGED <<size, bufs, stage>>

LEMMA TakeIs ==
  ASSUME Types, NEW b \in Blocks, NEW r \in Rounds, Takes(b, r)
  PROVE  /\ r \in Live /\ Step(b) = TakeAt(r) /\ Step(b) \in {3, 6, 11, 12}
         /\ DOMAIN net' = Blocks
         /\ \A c \in Blocks : c # b => net'[c] = net[c]
         /\ \A o \in Offsets4 : net'[b][o] = IF o \in Buffers(b, r) /\ ~Local(b, o)
                                             THEN Tail(net[b][o]) ELSE net[b][o]
         /\ \A o \in Offsets4 : o \in Buffers(b, r) <=> Taking(Step(b), SamePanel(b, o), o)
         /\ \A o \in Offsets4 : o \in Buffers(b, r) /\ ~Local(b, o) => net[b][o] # <<>>
<1>1. r \in Live /\ Step(b) = TakeAt(r)
  BY StepTypes, Tasks DEF Takes
<1>2. Step(b) \in {3, 6, 11, 12}
  BY <1>1, Times DEF Live, Ghost
<1>3. DOMAIN net = Blocks /\ size \in Sizes
  BY DEF Types
<1>4. net' = [net EXCEPT ![b] = [o \in Offsets4 |->
                IF o \in Buffers(b, r) /\ ~Local(b, o) THEN Tail(net[b][o]) ELSE net[b][o]]]
  BY DEF Takes, Arrivals
<1>5. \A o \in Offsets4 : o \in Buffers(b, r) <=> Taking(Step(b), SamePanel(b, o), o)
  BY <1>1, <1>3, InRound
<1>6. \A o \in Offsets4 : o \in Buffers(b, r) /\ ~Local(b, o) => net[b][o] # <<>>
  BY DEF Takes, Ready
<1> QED BY <1>1, <1>2, <1>3, <1>4, <1>5, <1>6

LEMMA TakeKeepsControl ==
  ASSUME ControlInv, NEW b \in Blocks, NEW r \in Rounds, Takes(b, r)
  PROVE  ControlInv'
<1> USE DEF ControlInv
<1>1. /\ r \in Live /\ Step(b) \in {3, 6, 11, 12}
      /\ DOMAIN net' = Blocks
      /\ \A c \in Blocks : c # b => net'[c] = net[c]
      /\ \A o \in Offsets4 : net'[b][o] = IF o \in Buffers(b, r) /\ ~Local(b, o)
                                          THEN Tail(net[b][o]) ELSE net[b][o]
      /\ \A o \in Offsets4 : o \in Buffers(b, r) <=> Taking(Step(b), SamePanel(b, o), o)
      /\ \A o \in Offsets4 : o \in Buffers(b, r) /\ ~Local(b, o) => net[b][o] # <<>>
  BY TakeIs
<1>2. size' = size /\ stage' = stage /\ NextStep(b)
  BY DEF Takes
<1>3. /\ Types' /\ Together'
      /\ \A c \in Blocks, o \in Offsets4 : Sent(c, o)' = Sent(c, o)
      /\ \A c \in Blocks, o \in Offsets4 :
           Taken(c, o)' = Taken(c, o) + One(c = b /\ Taking(Step(b), SamePanel(b, o), o))
  BY <1>1, <1>2, OneSteps
<1>4. ASSUME NEW c \in Blocks, NEW o \in Offsets4
      PROVE  Channel(c, o)'
  <2>1. /\ Local(c, o)' = Local(c, o) /\ Neighbor' = Neighbor /\ Peer' = Peer
    BY <1>2, Steady
  <2>2. Neighbor[c][o] \in Blocks /\ Peer[c][o] \in Offsets4
    BY Plan DEF Types
  <2>3. Sent(Neighbor[c][o], Peer[c][o])' = Sent(Neighbor[c][o], Peer[c][o])
    BY <1>3, <2>1, <2>2
  <2>4. Channel(c, o)
    BY DEF Channels
  <2>5. Sent(Neighbor[c][o], Peer[c][o]) \in Int /\ Taken(c, o) \in Int
    BY <2>2, StepTypes DEF Sent, Taken, SentBy, TakenBy, One
  <2> SUFFICES ASSUME ~Local(c, o)
               PROVE  /\ IsSeq(net'[c][o])
                      /\ Len(net'[c][o]) = Sent(Neighbor[c][o], Peer[c][o])' - Taken(c, o)'
    BY <2>1 DEF Channel
  <2>6. CASE c = b /\ o \in Buffers(b, r)
    <3>1. net'[c][o] = Tail(net[c][o]) /\ net[c][o] # <<>>
      BY <1>1, <2>6
    <3>2. Taken(c, o)' = Taken(c, o) + 1
      BY <1>1, <1>3, <2>6 DEF One
    <3>3. IsSeq(net[c][o]) /\ Len(net[c][o]) = Sent(Neighbor[c][o], Peer[c][o]) - Taken(c, o)
      BY <2>4 DEF Channel
    <3> QED BY <2>3, <2>5, <3>1, <3>2, <3>3, TakenOff
  <2>7. CASE ~(c = b /\ o \in Buffers(b, r))
    <3>1. net'[c][o] = net[c][o]
      BY <1>1, <2>7
    <3>2. Taken(c, o)' = Taken(c, o)
      BY <1>1, <1>3, <2>5, <2>7 DEF One
    <3> QED BY <2>3, <2>4, <3>1, <3>2 DEF Channel
  <2> QED BY <2>6, <2>7
<1>5. Channels'
  BY <1>2, <1>4, Steady DEF Channels
<1> QED BY <1>3, <1>5

LEMMA PackKeepsControl ==
  ASSUME ControlInv, NEW b \in Blocks, Pack(b)
  PROVE  ControlInv'
<1> USE DEF ControlInv
<1>1. PICK r \in Rounds : At(b, "pack", r)
  BY DEF Pack
<1>2. Step(b) \in {1, 4, 7, 8}
  <2>1. r \in Live /\ Step(b) = PackAt(r)
    BY <1>1, StepTypes, Tasks DEF At
  <2> QED BY <2>1, Times DEF Live, Ghost
<1>3. size' = size /\ stage' = stage /\ NextStep(b) /\ net' = net /\ DOMAIN net' = Blocks
  BY DEF Pack, Types
<1>4. /\ Types' /\ Together'
      /\ \A c \in Blocks, o \in Offsets4 : Sent(c, o)' = Sent(c, o)
      /\ \A c \in Blocks, o \in Offsets4 :
           Taken(c, o)' = Taken(c, o) + One(c = b /\ Taking(Step(b), SamePanel(b, o), o))
  BY <1>2, <1>3, OneSteps
<1>5. ASSUME NEW c \in Blocks, NEW o \in Offsets4
      PROVE  Channel(c, o)'
  <2>1. /\ Local(c, o)' = Local(c, o) /\ Neighbor' = Neighbor /\ Peer' = Peer
    BY <1>3, Steady
  <2>2. Neighbor[c][o] \in Blocks /\ Peer[c][o] \in Offsets4
    BY Plan DEF Types
  <2>3. Sent(Neighbor[c][o], Peer[c][o])' = Sent(Neighbor[c][o], Peer[c][o])
    BY <1>4, <2>1, <2>2
  <2>4. Channel(c, o) /\ net'[c][o] = net[c][o]
    BY <1>3 DEF Channels
  <2>5. Taken(c, o) \in Int
    BY StepTypes DEF Taken, TakenBy, One
  <2>6. One(c = b /\ Taking(Step(b), SamePanel(b, o), o)) = 0
    BY <1>2, SeamTimes DEF One, Taking
  <2> QED BY <1>4, <2>1, <2>3, <2>4, <2>5, <2>6 DEF Channel
<1>6. Channels'
  BY <1>3, <1>5, Steady DEF Channels
<1> QED BY <1>4, <1>6

LEMMA AdvanceKeepsControl ==
  ASSUME ControlInv, NEW b \in Blocks, AdvanceLocal(b)
  PROVE  ControlInv'
<1> USE DEF ControlInv
<1>1. /\ Types' /\ Together'
      /\ \A c \in Blocks, o \in Offsets4 : Sent(c, o)' = Sent(c, o)
      /\ \A c \in Blocks, o \in Offsets4 : Taken(c, o)' = Taken(c, o)
  BY StageSteps
<1>2. size' = size /\ net' = net
  BY DEF AdvanceLocal
<1>3. ASSUME NEW c \in Blocks, NEW o \in Offsets4
      PROVE  Channel(c, o)'
  <2>1. /\ Local(c, o)' = Local(c, o) /\ Neighbor' = Neighbor /\ Peer' = Peer
    BY <1>2, Steady
  <2>2. Neighbor[c][o] \in Blocks /\ Peer[c][o] \in Offsets4
    BY Plan DEF Types
  <2>3. Sent(Neighbor[c][o], Peer[c][o])' = Sent(Neighbor[c][o], Peer[c][o])
    BY <1>1, <2>1, <2>2
  <2>4. Channel(c, o) /\ net'[c][o] = net[c][o]
    BY <1>2 DEF Channels
  <2> QED BY <1>1, <2>1, <2>3, <2>4 DEF Channel
<1>4. Channels'
  BY <1>2, <1>3, Steady DEF Channels
<1> QED BY <1>1, <1>4

LEMMA LaunchKeepsControl ==
  ASSUME ControlInv, NEW b \in Blocks, Launch(b)
  PROVE  ControlInv'
<1> USE DEF ControlInv
<1>0. size \in Sizes
  BY DEF Types
<1>1. PICK r \in Rounds :
        /\ Doing(b, "launch", r) /\ Ready(b) /\ Delivered(b, r)
        /\ pc' = [c \in Blocks |-> IF c \in ProcessOf(b) THEN pc[c] + 1 ELSE pc[c]]
        /\ UNCHANGED <<size, u, outer, send_bufs, stage>>
  BY <1>0, LaunchIs
<1>2. DOMAIN net' = Blocks /\ size' = size /\ stage' = stage
  BY <1>1 DEF Delivered
<1>3. /\ Types' /\ Together'
      /\ \A c \in Blocks, o \in Offsets4 :
           Sent(c, o)' = Sent(c, o) + One(c \in ProcessOf(b) /\ o \in Buffers(c, r))
      /\ \A c \in Blocks, o \in Offsets4 : Taken(c, o)' = Taken(c, o)
  BY <1>1, <1>2, ProcessSteps
<1>4. ASSUME NEW c \in Blocks, NEW o \in Offsets4
      PROVE  Channel(c, o)'
  <2> DEFINE m == Neighbor[c][o]
             q == Peer[c][o]
  <2>1. /\ Local(c, o)' = Local(c, o) /\ Neighbor' = Neighbor /\ Peer' = Peer
    BY <1>2, Steady
  <2>2. m \in Blocks /\ q \in Offsets4
    BY <1>0, Plan
  <2>3. Channel(c, o)
    BY DEF Channels
  <2>4. Sent(m, q) \in Int /\ Taken(c, o) \in Int
    BY <2>2, StepTypes DEF Sent, Taken, SentBy, TakenBy, One
  <2>5. Sent(m, q)' = Sent(m, q) + One(m \in ProcessOf(b) /\ q \in Buffers(m, r))
    BY <1>3, <2>1, <2>2
  <2>6. Arrives(b, r, c, o) <=> m \in ProcessOf(b) /\ q \in Buffers(m, r)
    BY DEF Arrives
  <2> SUFFICES ASSUME ~Local(c, o)
               PROVE  /\ IsSeq(net'[c][o])
                      /\ Len(net'[c][o]) = Sent(m, q)' - Taken(c, o)'
    BY <2>1 DEF Channel
  <2>7. m \in ProcessOf(b) => c \notin ProcessOf(b)
    BY <1>0, <2>2, Mates DEF Local
  <2>8. IsSeq(net[c][o]) /\ Len(net[c][o]) = Sent(m, q) - Taken(c, o)
    BY <2>3 DEF Channel
  <2>9. net'[c][o] = IF c \notin ProcessOf(b) /\ Arrives(b, r, c, o)
                     THEN Append(net[c][o], send_bufs[m][q]) ELSE net[c][o]
    BY <1>1 DEF Delivered
  <2> HIDE DEF m, q
  <2>10. CASE Arrives(b, r, c, o)
    <3>1. net'[c][o] = Append(net[c][o], send_bufs[m][q])
      BY <2>6, <2>7, <2>9, <2>10
    <3>2. One(m \in ProcessOf(b) /\ q \in Buffers(m, r)) = 1
      BY <2>6, <2>10 DEF One
    <3>3. /\ IsSeq(net'[c][o]) /\ Len(net'[c][o]) = Len(net[c][o]) + 1
      BY <2>8, <3>1, Appended
    <3>4. Taken(c, o)' = Taken(c, o)
      BY <1>3
    <3> QED BY <2>4, <2>5, <2>8, <3>2, <3>3, <3>4
  <2>11. CASE ~Arrives(b, r, c, o)
    <3>1. net'[c][o] = net[c][o]
      BY <2>9, <2>11
    <3>2. One(m \in ProcessOf(b) /\ q \in Buffers(m, r)) = 0
      BY <2>6, <2>11 DEF One
    <3> QED BY <1>3, <2>4, <2>5, <2>8, <3>1, <3>2
  <2> QED BY <2>10, <2>11
<1>5. Channels'
  BY <1>2, <1>4, Steady DEF Channels
<1> QED BY <1>3, <1>5

LEMMA ControlStutters ==
  ASSUME ControlInv, UNCHANGED vars
  PROVE  ControlInv'
<1> USE DEF ControlInv
<1>1. size' = size /\ pc' = pc /\ stage' = stage /\ net' = net
  BY DEF vars
<1>2. \A b : Step(b)' = Step(b)
  BY <1>1, Steady DEF Step
<1>3. \A b \in Blocks : BlockType(b)' = BlockType(b)
  BY <1>1, <1>2, Steady DEF BlockType
<1>4. \A b : Launches(b)' = Launches(b)
  BY <1>1, <1>2, Steady DEF Launches
<1>5. \A b, o : Sent(b, o)' = Sent(b, o) /\ Taken(b, o)' = Taken(b, o)
  BY <1>1, <1>2, Steady DEF Sent, Taken
<1>6. Types'
  BY <1>1, <1>3, Steady DEF Types
<1>7. Together'
  BY <1>1, <1>4, Steady DEF Together
<1>8. Channels'
  BY <1>1, <1>5, Steady DEF Channels, Channel
<1> QED BY <1>6, <1>7, <1>8

LEMMA ControlStarts ==
  ASSUME Init
  PROVE  ControlInv
<1>1. size \in Sizes /\ MaxStage \in Nat \ {0}
  BY SizeAssumption DEF Init
<1>2. /\ pc = [b \in Blocks |-> 1] /\ stage = [b \in Blocks |-> 1]
      /\ net = [b \in Blocks |-> [o \in Offsets4 |-> <<>>]]
  BY DEF Init
<1>3. FirstStep \in {1, 4} /\ (Divided <=> FirstStep = 1)
  BY DEF FirstStep, Divided
<1>4. \A b \in Blocks : Step(b) = FirstStep /\ stage[b] = 1
  BY <1>2 DEF Step, FirstStep
<1>5. \A b \in Blocks : BlockType(b)
  BY <1>1, <1>2, <1>3, <1>4 DEF BlockType
<1>6. Types
  BY <1>1, <1>2, <1>5 DEF Types
<1>7. Together
  BY <1>4 DEF Together, Launches
<1>8. ASSUME NEW b \in Blocks, NEW o \in Offsets4
      PROVE  Channel(b, o)
  <2> DEFINE m == Neighbor[b][o]
             q == Peer[b][o]
  <2>1. m \in Blocks /\ q \in Offsets4
    BY <1>1, Plan
  <2>2. (SamePanel(b, o) => FirstStep = 1) /\ (SamePanel(m, q) => FirstStep = 1)
    BY <1>1, <1>3, <2>1, OnePanel DEF Divided
  <2> HIDE DEF m, q
  <2>3. Sent(m, q) = 0 /\ Taken(b, o) = 0
    BY <1>3, <1>4, <2>1, <2>2, SeamTimes DEF Sent, Taken, SentBy, TakenBy, One
  <2>4. net[b][o] = <<>> /\ IsSeq(<<>>) /\ Len(<<>>) = 0
    <3>1. <<>> \in Seq({})
      OBVIOUS
    <3> QED BY <1>2, <3>1, SeqMade
  <2> QED BY <2>3, <2>4 DEF Channel, m, q
<1> QED BY <1>6, <1>7, <1>8 DEF ControlInv, Channels

LEMMA ControlHolds ==
  Spec => []ControlInv
<1>1. Init => ControlInv
  BY ControlStarts
<1>2. ControlInv /\ [Next]_vars => ControlInv'
  <2> SUFFICES ASSUME ControlInv, [Next]_vars
               PROVE  ControlInv'
    OBVIOUS
  <2>1. ASSUME NEW b \in Blocks, Pack(b) PROVE ControlInv'
    BY <2>1, PackKeepsControl
  <2>2. ASSUME NEW b \in Blocks, Launch(b) PROVE ControlInv'
    BY <2>2, LaunchKeepsControl
  <2>3. ASSUME NEW b \in Blocks, TakeGhosts(b) PROVE ControlInv'
    <3>1. \E r \in Rounds : Takes(b, r)
      BY <2>3 DEF TakeGhosts, Takes, At
    <3> QED BY <3>1, TakeKeepsControl
  <2>4. ASSUME NEW b \in Blocks, TakeSeam(b) PROVE ControlInv'
    <3>1. \E r \in Rounds : Takes(b, r)
      BY <2>4 DEF TakeSeam, Takes, At, Seams, Rounds
    <3> QED BY <3>1, TakeKeepsControl
  <2>5. ASSUME NEW b \in Blocks, AdvanceLocal(b) PROVE ControlInv'
    BY <2>5, AdvanceKeepsControl
  <2>6. CASE UNCHANGED vars
    BY <2>6, ControlStutters
  <2>7. CASE Next
    BY <2>1, <2>2, <2>3, <2>4, <2>5, <2>6, <2>7 DEF Next, Block, Terminated
  <2> QED BY <2>6, <2>7
<1> QED BY <1>1, <1>2, PTL DEF Spec

-----------------------------------------------------------------------------
(* The block that is furthest behind can go on.                            *)

LEMMA Least ==
  ASSUME NEW T \in SUBSET Nat, T # {}
  PROVE  \E n \in T : \A m \in T : n <= m
<1> DEFINE R == OpToRel(<, Nat)
<1>1. PICK n \in T : \A m \in T : ~(<<m, n>> \in R)
  <2>1. IsWellFoundedOn(R, Nat)
    BY NatLessThanWellFounded, Zenon
  <2> HIDE DEF R
  <2> QED BY <2>1, WFMin
<1>2. \A m \in T : ~(m < n)
  BY <1>1 DEF OpToRel
<1> QED BY <1>2

NotBehind(b, c) == stage[c] < stage[b] \/ (stage[c] = stage[b] /\ Step(c) <= Step(b))

LEMMA LastBlock ==
  ASSUME Types
  PROVE  \E b \in Blocks : \A c \in Blocks : NotBehind(c, b)
<1> DEFINE at(b) == 15 * stage[b] + Step(b)
           T == {at(b) : b \in Blocks}
<1>1. \A b \in Blocks : stage[b] \in Nat /\ Step(b) \in 1..14 /\ at(b) \in Nat
  BY StepTypes
<1>2. <<0, 0, 0>> \in Blocks
  <2>1. Pxy \in Nat \ {0}
    BY SizeTypes DEF Types
  <2> QED BY <2>1 DEF Blocks, Places, Faces
<1> HIDE DEF at
<1>3. PICK n \in T : \A m \in T : n <= m
  <2>1. T \in SUBSET Nat /\ T # {}
    BY <1>1, <1>2
  <2> HIDE DEF T
  <2> QED BY <2>1, Least
<1>4. PICK b \in Blocks : n = at(b)
  OBVIOUS
<1>5. ASSUME NEW c \in Blocks PROVE NotBehind(c, b)
  <2>1. at(b) <= at(c)
    BY <1>3, <1>4
  <2> QED BY <1>1, <2>1 DEF NotBehind, at
<1> QED BY <1>5

\* What is to be taken has been sent, when the sender is not behind.
LEMMA SentBefore ==
  ASSUME NEW t \in Nat \ {0}, NEW s \in Nat \ {0}, NEW i \in 1..14, NEW j \in 1..14,
         t < s \/ (t = s /\ i <= j), NEW same \in BOOLEAN, NEW o, NEW q, Taking(i, same, o)
  PROVE  SentBy(s, j, same, q) - TakenBy(t, i, same, o) > 0
<1>1. CASE same
  BY <1>1 DEF SentBy, TakenBy, One, Taking
<1>2. CASE ~same
  <2>1. LaunchAt(SeamRound(q)) = 9 \/ LaunchAt(SeamRound(q)) = 10
    BY SeamTimes
  <2>2. TakeAt(SeamRound(o)) = 11 \/ TakeAt(SeamRound(o)) = 12
    BY SeamTimes
  <2>3. i = 6 \/ i = TakeAt(SeamRound(o))
    BY <1>2 DEF Taking
  <2>4. SentBy(s, j, same, q) = 2 * (s - 1) + One(j > 5) + One(j > LaunchAt(SeamRound(q)))
    BY <1>2 DEF SentBy
  <2>5. TakenBy(t, i, same, o) = 2 * (t - 1) + One(i > 6) + One(i > TakeAt(SeamRound(o)))
    BY <1>2 DEF TakenBy
  <2> QED BY <2>1, <2>2, <2>3, <2>4, <2>5 DEF One
<1> QED BY <1>1, <1>2

LEMMA Progress ==
  ASSUME ControlInv
  PROVE  SomebodyGoesOn
<1> USE DEF ControlInv
<1> SUFFICES ASSUME ~Finished
             PROVE  \E b \in Blocks : Program[pc[b]] # Done /\ Ready(b)
  BY DEF SomebodyGoesOn
<1>1. size \in Sizes /\ MaxStage \in Nat
  BY SizeTypes DEF Types
<1>2. PICK b \in Blocks : \A c \in Blocks : NotBehind(c, b)
  BY LastBlock
<1>3. PICK d \in Blocks : Step(d) # 14
  BY StepTypes, LastTasks DEF Finished
<1>4. Step(b) # 14
  <2>1. Step(d) \in 1..14 /\ stage[d] \in 1..MaxStage /\ Step(b) \in 1..14 /\ stage[b] \in 1..MaxStage
    BY StepTypes
  <2>2. Step(b) = 14 => stage[b] = MaxStage
    BY DEF Types, BlockType
  <2>3. stage[b] < stage[d] \/ (stage[b] = stage[d] /\ Step(b) <= Step(d))
    BY <1>2 DEF NotBehind
  <2> QED BY <1>1, <1>3, <2>1, <2>2, <2>3
<1>5. Program[pc[b]] # Done
  BY <1>4, StepTypes, LastTasks
<1>6. ASSUME NEW r \in Rounds, Doing(b, "launch", r), NEW c \in ProcessOf(b)
      PROVE  Doing(c, "launch", r)
  <2>1. r \in Live /\ Step(b) = LaunchAt(r) /\ LaunchAt(r) \in {2, 5, 9, 10}
    BY <1>6, StepTypes, Tasks, LaunchTimes
  <2>2. c \in Blocks /\ Process(c) = Process(b)
    BY <1>1, Mates
  <2>3. LaunchesBy(Divided, stage[b], Step(b)) = LaunchesBy(Divided, stage[c], Step(c))
    BY <2>2 DEF Together, Launches
  <2>4. /\ stage[b] \in Nat \ {0} /\ Step(b) \in 1..14 /\ (~Divided => Step(b) >= 4)
        /\ stage[c] \in Nat \ {0} /\ Step(c) \in 1..14 /\ (~Divided => Step(c) >= 4)
        /\ Divided \in BOOLEAN
    BY <2>2, StepTypes
  <2>5. stage[b] < stage[c] \/ (stage[b] = stage[c] /\ Step(b) <= Step(c))
    BY <1>2, <2>2 DEF NotBehind
  <2>6. (Divided /\ Step(b) = 2) \/ Step(b) = 5 \/ Step(b) = 9 \/ Step(b) = 10
    BY <2>1, <2>4
  <2>7. Step(c) = Step(b)
    <3> DEFINE t == stage[b]
               s == stage[c]
               i == Step(b)
               j == Step(c)
    <3> HIDE DEF t, s, i, j
    <3>1. j = i
      BY <2>3, <2>4, <2>5, <2>6, AboutToLaunch DEF t, s, i, j
    <3> QED BY <3>1 DEF i, j
  <2> QED BY <2>1, <2>2, <2>7, StepTypes, Tasks
<1>7. ASSUME NEW r \in Rounds, Doing(b, "take", r), NEW o \in Buffers(b, r), ~Local(b, o)
      PROVE  net[b][o] # <<>>
  <2> DEFINE m == Neighbor[b][o]
             q == Peer[b][o]
  <2>1. r \in Live /\ Step(b) = TakeAt(r)
    BY <1>7, StepTypes, Tasks
  <2>2. o \in Offsets4 /\ Taking(Step(b), SamePanel(b, o), o)
    BY <1>1, <2>1, InRound DEF Buffers
  <2>3. m \in Blocks /\ q \in Offsets4 /\ SamePanel(m, q) = SamePanel(b, o)
    BY <1>1, <2>2, Plan DEF SamePanel
  <2>4. Len(net[b][o]) = Sent(m, q) - Taken(b, o)
    BY <1>7, <2>2 DEF Channels, Channel
  <2>5. /\ stage[b] \in Nat \ {0} /\ Step(b) \in 1..14
        /\ stage[m] \in Nat \ {0} /\ Step(m) \in 1..14 /\ SamePanel(b, o) \in BOOLEAN
    BY <2>3, StepTypes
  <2>6. stage[b] < stage[m] \/ (stage[b] = stage[m] /\ Step(b) <= Step(m))
    BY <1>2, <2>3 DEF NotBehind
  <2>7. Sent(m, q) - Taken(b, o) > 0
    <3> HIDE DEF m, q
    <3>1. SentBy(stage[m], Step(m), SamePanel(b, o), q)
            - TakenBy(stage[b], Step(b), SamePanel(b, o), o) > 0
      BY <2>2, <2>5, <2>6, SentBefore
    <3> QED BY <2>3, <3>1 DEF Sent, Taken
  <2> HIDE DEF m, q
  <2>8. Len(<<>>) = 0
    OBVIOUS
  <2> QED BY <2>4, <2>7, <2>8
<1>8. Ready(b)
  BY <1>6, <1>7 DEF Ready
<1> QED BY <1>5, <1>8

\* However the blocks of a stage are interleaved, each message meets the receive
\* of the buffer it was packed for, and while blocks are not finished one of them
\* can go on (launch_exchange, finalize_exchange, HydroImpl::forward).
THEOREM NobodyWaits ==
  Spec => []NobodyWaitsForEver
<1>1. ControlInv => NobodyWaitsForEver
  BY Progress, Paired DEF ControlInv, Types, NobodyWaitsForEver
<1> QED BY <1>1, ControlHolds, PTL

-----------------------------------------------------------------------------
(* Ghost cells.                                                            *)

LEMMA OuterCellTypes ==
  ASSUME size \in Sizes, NEW o \in Offsets4, NEW d \in 1..Nghost, NEW k \in 0..(Width - 1)
  PROVE  LET c == OuterCell(o, d, k)
         IN /\ c \in Cells /\ ~InBlock(c) /\ ~InCorner(c) /\ OffsetOf(c) = o
            /\ GetSide(o) < 2 => o[1] = 0 /\ DepthOf(c[1]) = d /\ c[2] = k
            /\ ~(GetSide(o) < 2) => o[1] # 0 /\ DepthOf(c[2]) = d /\ c[1] = k
<1> DEFINE c == OuterCell(o, d, k)
           s == GetSide(o)
<1>1. /\ Width \in Nat /\ Nghost \in 1..Width
  BY SizeTypes
<1>2. /\ s = 0 => c = <<-d, k>> /\ o = <<0, -1>> /\ o[1] = 0
      /\ s = 1 => c = <<Width + d - 1, k>> /\ o = <<0, 1>> /\ o[1] = 0
      /\ s = 2 => c = <<k, -d>> /\ o = <<-1, 0>> /\ o[1] # 0
      /\ s = 3 => c = <<k, Width + d - 1>> /\ o = <<1, 0>> /\ o[1] # 0
  BY InnerCells, SideCases
<1>3. s = 0 \/ s = 1 \/ s = 2 \/ s = 3
  BY SideCases
<1>4. /\ -d \in (-Nghost)..(Width + Nghost - 1) /\ -d < 0
      /\ Width + d - 1 \in (-Nghost)..(Width + Nghost - 1) /\ Width + d - 1 >= Width
      /\ k \in (-Nghost)..(Width + Nghost - 1) /\ k >= 0 /\ k < Width
      /\ ~(Width + d - 1 < 0) /\ d \in Int /\ -(-d) = d /\ (Width + d - 1) - Width + 1 = d
  BY <1>1
<1>5. /\ Beyond(-d) = -1 /\ Beyond(Width + d - 1) = 1 /\ Beyond(k) = 0
      /\ DepthOf(-d) = d /\ DepthOf(Width + d - 1) = d
  BY <1>1, <1>4 DEF Beyond, DepthOf
<1> HIDE DEF c, s
<1>6. c \in Cells /\ ~InBlock(c)
  BY <1>1, <1>2, <1>3, <1>4 DEF Cells, InBlock
<1>7. ~InCorner(c) /\ OffsetOf(c) = o
  BY <1>2, <1>3, <1>5 DEF InCorner, OffsetOf
<1>8. /\ s < 2 => o[1] = 0 /\ DepthOf(c[1]) = d /\ c[2] = k
      /\ ~(s < 2) => o[1] # 0 /\ DepthOf(c[2]) = d /\ c[1] = k
  BY <1>2, <1>3, <1>5
<1> QED BY <1>6, <1>7, <1>8 DEF c, s

LEMMA CellTypes ==
  ASSUME size \in Sizes, NEW c \in Cells
  PROVE  /\ c = <<c[1], c[2]>>
         /\ c[1] \in (-Nghost)..(Width + Nghost - 1) /\ c[2] \in (-Nghost)..(Width + Nghost - 1)
         /\ c[1] \in Int /\ c[2] \in Int
         /\ InBlock(c) <=> Beyond(c[1]) = 0 /\ Beyond(c[2]) = 0
<1>1. Width \in Nat /\ Nghost \in 1..Width
  BY SizeTypes
<1>2. /\ c = <<c[1], c[2]>>
      /\ c[1] \in (-Nghost)..(Width + Nghost - 1) /\ c[2] \in (-Nghost)..(Width + Nghost - 1)
      /\ c[1] \in Int /\ c[2] \in Int
  BY <1>1 DEF Cells
<1>3. \A x \in Int : Beyond(x) = 0 <=> x \in 0..(Width - 1)
  BY <1>1 DEF Beyond
<1> QED BY <1>1, <1>2, <1>3 DEF InBlock

\* Each ghost cell outside the corners belongs to one edge.
LEMMA OuterOf ==
  ASSUME size \in Sizes, NEW c \in Cells, ~InBlock(c), ~InCorner(c)
  PROVE  /\ OffsetOf(c) \in Offsets4
         /\ \E d \in 1..Nghost, k \in 0..(Width - 1) : c = OuterCell(OffsetOf(c), d, k)
<1>1. Width \in Nat /\ Width > 1 /\ Nghost \in 1..Width
  BY SizeTypes
<1>2. /\ c = <<c[1], c[2]>>
      /\ c[1] \in (-Nghost)..(Width + Nghost - 1) /\ c[2] \in (-Nghost)..(Width + Nghost - 1)
  BY CellTypes
<1> DEFINE x == c[1]
           y == c[2]
<1>3. /\ Beyond(x) = (IF x < 0 THEN -1 ELSE IF x >= Width THEN 1 ELSE 0)
      /\ Beyond(y) = (IF y < 0 THEN -1 ELSE IF y >= Width THEN 1 ELSE 0)
      /\ OffsetOf(c) = <<Beyond(y), Beyond(x)>>
  BY DEF Beyond, OffsetOf
<1>4. \/ x < 0 /\ y \in 0..(Width - 1)
      \/ x >= Width /\ y \in 0..(Width - 1)
      \/ y < 0 /\ x \in 0..(Width - 1)
      \/ y >= Width /\ x \in 0..(Width - 1)
  <2>1. ~(x \in 0..(Width - 1) /\ y \in 0..(Width - 1))
    BY <1>2 DEF InBlock
  <2>2. Beyond(x) = 0 \/ Beyond(y) = 0
    BY DEF InCorner
  <2> QED BY <1>1, <1>2, <1>3, <2>1, <2>2
<1>5. /\ GetSide(<<0, 1>>) = 1 /\ GetSide(<<0, -1>>) = 0
      /\ GetSide(<<1, 0>>) = 3 /\ GetSide(<<-1, 0>>) = 2
      /\ <<0, 1>> \in Offsets4 /\ <<0, -1>> \in Offsets4
      /\ <<1, 0>> \in Offsets4 /\ <<-1, 0>> \in Offsets4
  BY OffsetCases DEF GetSide, SideL, SideR, SideB, SideT
<1> HIDE DEF x, y
<1>6. x \in Int /\ y \in Int /\ c = <<x, y>>
  BY <1>1, <1>2 DEF x, y
<1>7. CASE x < 0 /\ y \in 0..(Width - 1)
  <2>1. OffsetOf(c) = <<0, -1>> /\ -x \in 1..Nghost /\ x = -(-x)
    BY <1>1, <1>2, <1>3, <1>6, <1>7 DEF x
  <2>2. OuterCell(<<0, -1>>, -x, y) = <<-(-x), y>>
    BY <1>5, InnerCells
  <2> QED BY <1>5, <1>6, <1>7, <2>1, <2>2
<1>8. CASE x >= Width /\ y \in 0..(Width - 1)
  <2>1. OffsetOf(c) = <<0, 1>> /\ x - Width + 1 \in 1..Nghost /\ x = Width + (x - Width + 1) - 1
    BY <1>1, <1>2, <1>3, <1>6, <1>8 DEF x
  <2>2. OuterCell(<<0, 1>>, x - Width + 1, y) = <<Width + (x - Width + 1) - 1, y>>
    BY <1>5, InnerCells
  <2> QED BY <1>5, <1>6, <1>8, <2>1, <2>2
<1>9. CASE y < 0 /\ x \in 0..(Width - 1)
  <2>1. OffsetOf(c) = <<-1, 0>> /\ -y \in 1..Nghost /\ y = -(-y)
    BY <1>1, <1>2, <1>3, <1>6, <1>9 DEF y
  <2>2. OuterCell(<<-1, 0>>, -y, x) = <<x, -(-y)>>
    BY <1>5, InnerCells
  <2> QED BY <1>5, <1>6, <1>9, <2>1, <2>2
<1>10. CASE y >= Width /\ x \in 0..(Width - 1)
  <2>1. OffsetOf(c) = <<1, 0>> /\ y - Width + 1 \in 1..Nghost /\ y = Width + (y - Width + 1) - 1
    BY <1>1, <1>2, <1>3, <1>6, <1>10 DEF y
  <2>2. OuterCell(<<1, 0>>, y - Width + 1, x) = <<x, Width + (y - Width + 1) - 1>>
    BY <1>5, InnerCells
  <2> QED BY <1>5, <1>6, <1>10, <2>1, <2>2
<1> QED BY <1>4, <1>7, <1>8, <1>9, <1>10

LEMMA BetweenIn ==
  ASSUME NEW n \in Nat, n > 1, NEW j \in 0..(n - 1), NEW d \in Nat \ {0}
  PROVE  \A x \in Between(j, d, n) : x \in 0..(n - 1) /\ j - d <= x /\ x <= j + d
<1> DEFINE low == (n - 1) \div 2
           high == n \div 2
<1>1. low \in Nat /\ high \in Nat /\ low <= high /\ high <= n - 1 /\ high <= low + 1
      /\ (low = high => low >= 1 /\ high + 1 <= n - 1)
  OBVIOUS
<1> HIDE DEF low, high
<1>2. Between(j, d, n) =
        IF j < low \/ (j = low /\ low # high) THEN {x \in j..(j + d) : x <= high}
        ELSE IF j > high \/ (j = high /\ low # high) THEN {x \in (j - d)..j : x >= low}
        ELSE (j - 1)..(j + 1)
  BY DEF Between, low, high
<1>3. CASE j < low \/ (j = low /\ low # high)
  BY <1>1, <1>2, <1>3
<1>4. CASE ~(j < low \/ (j = low /\ low # high)) /\ (j > high \/ (j = high /\ low # high))
  BY <1>1, <1>2, <1>4
<1>5. CASE ~(j < low \/ (j = low /\ low # high)) /\ ~(j > high \/ (j = high /\ low # high))
  <2>1. j = low /\ low = high
    BY <1>1, <1>5
  <2> QED BY <1>1, <1>2, <1>5, <2>1
<1> QED BY <1>3, <1>4, <1>5

\* What a ghost cell across an edge is interpolated between.
Mixed(b, o, d, k, t) ==
  {<<Beside(Span, b[3], GetSide(o), d, j), t, Here(b[3])>> :
     j \in Between(Origin(b, o) + k, d, Span)}

LEMMA Places4 ==
  ASSUME size \in Sizes, NEW b \in Blocks, NEW o \in Offsets4, NEW d \in 1..Nghost,
         NEW k \in 0..(Width - 1)
  PROVE  /\ Span \in Nat /\ Span > 1 /\ Origin(b, o) \in Nat
         /\ Origin(b, o) + k \in 0..(Span - 1)
         /\ \A j \in Between(Origin(b, o) + k, d, Span) :
              /\ j \in 0..(Span - 1) /\ j \in Int
              /\ j - Origin(b, o) \in (-Nghost)..(Width - 1 + Nghost)
<1>1. /\ Width \in Nat /\ Width > 1 /\ Nghost \in 1..Width /\ Pxy \in 1..4
  BY SizeTypes
<1>2. Pos(b, o) \in 0..(Pxy - 1)
  BY BlockTypes
<1>3. k \in Int /\ -Width <= k /\ k < 2 * Width
  BY <1>1
<1>4. /\ Span \in Nat /\ Span > 1 /\ Origin(b, o) \in Nat
      /\ Origin(b, o) + k \in 0..(Span - 1)
  <2> DEFINE i == Pos(b, o)
  <2> HIDE DEF i
  <2>1. /\ i * Width \in Nat /\ Pxy * Width \in Nat /\ Pxy * Width > 1
        /\ i * Width + k \in 0..(Pxy * Width - 1)
    BY <1>1, <1>2, <1>3, Strides DEF i
  <2> QED BY <2>1 DEF Span, Origin, i
<1>5. ASSUME NEW j \in Between(Origin(b, o) + k, d, Span)
      PROVE  /\ j \in 0..(Span - 1) /\ j \in Int
             /\ j - Origin(b, o) \in (-Nghost)..(Width - 1 + Nghost)
  <2> DEFINE x == Origin(b, o) + k
  <2> HIDE DEF x
  <2>1. j \in 0..(Span - 1) /\ x - d <= j /\ j <= x + d
    BY <1>1, <1>4, <1>5, BetweenIn DEF x
  <2>2. x = Origin(b, o) + k
    BY DEF x
  <2> QED BY <1>1, <1>4, <2>1, <2>2
<1> QED BY <1>4, <1>5

Interpolates(a, b, o, d, k, t, round) ==
  Interpolated(b, OuterCell(o, d, k), o, Part(round, o, TRUE), a) = Mixed(b, o, d, k, t)

\* The interpolation of a strip that came across an edge.
LEMMA InterpolatedIs ==
  ASSUME size \in Sizes, NEW b \in Blocks, NEW o \in Offsets4,
         NEW d \in 1..Nghost, NEW k \in 0..(Width - 1), NEW t, NEW a,
         NEW round \in {"cross", "all"}, CrossMail(a, b, o, t)
  PROVE  Interpolates(a, b, o, d, k, t, round)
<1> DEFINE c == OuterCell(o, d, k)
           p == Part(round, o, TRUE)
           origin == Origin(b, o)
           from == Between(origin + k, d, Span)
           ats == IF o[1] # 0 THEN {a.at[<<c[2] - p.y, j - origin - p.x>>] : j \in from}
                  ELSE {a.at[<<j - origin - p.y, c[1] - p.x>>] : j \in from}
<1>1. /\ GetSide(o) < 2 => o[1] = 0 /\ DepthOf(c[1]) = d /\ c[2] = k
      /\ ~(GetSide(o) < 2) => o[1] # 0 /\ DepthOf(c[2]) = d /\ c[1] = k
  BY OuterCellTypes
<1>2. Interpolated(b, c, o, p, a) = TurnAll(CartToLocal, b[3], UNION ats)
  <2>1. CASE o[1] # 0
    <3>1. b[1] * Width = origin
      BY <2>1, SideCases DEF Origin, Pos
    <3>2. c[1] = k /\ DepthOf(c[2]) = d
      BY <1>1, <2>1
    <3> DEFINE along == IF o[1] # 0 THEN 1 ELSE 2
    <3>3. along = 1 /\ 3 - along = 2
      BY <2>1
    <3>4. ats = {IF along = 1 THEN a.at[<<c[2] - p.y, j - origin - p.x>>]
                 ELSE a.at[<<j - origin - p.y, c[1] - p.x>>] : j \in from}
      <4> HIDE DEF c, p, origin, from, along
      <4> QED BY <2>1, <3>3
    <3> HIDE DEF c, p, ats
    <3>5. from = Between(b[along] * Width + c[along], DepthOf(c[3 - along]), Pxy * Width)
      BY <3>1, <3>2, <3>3 DEF Span
    <3> HIDE DEF along, from
    <3> QED BY <3>1, <3>3, <3>4, <3>5 DEF Interpolated, along
  <2>2. CASE o[1] = 0
    <3>1. b[2] * Width = origin
      BY <2>2, SideCases DEF Origin, Pos
    <3>2. c[2] = k /\ DepthOf(c[1]) = d
      BY <1>1, <2>2
    <3> HIDE DEF c, p
    <3> QED BY <2>2, <3>1, <3>2 DEF Interpolated, Span
  <2> QED BY <2>1, <2>2
<1>3. ASSUME NEW j \in from
      PROVE  (IF o[1] # 0 THEN a.at[<<c[2] - p.y, j - origin - p.x>>]
              ELSE a.at[<<j - origin - p.y, c[1] - p.x>>])
               = {<<Beside(Span, b[3], GetSide(o), d, j), t, Cart>>}
  <2> DEFINE i == j - origin
             x == OuterCell(o, d, i)
  <2>1. /\ j \in 0..(Span - 1) /\ j \in Int /\ i \in (-Nghost)..(Width - 1 + Nghost)
        /\ origin \in Nat
    BY Places4
  <2>2. i \in Int /\ origin + i = j
    BY <2>1, SizeTypes
  <2>3. round \in Rounds \ Seams /\ Margin(round) = Nghost
    BY DEF Rounds, Seams, Margin
  <2>4. <<x[2] - p.y, x[1] - p.x>>
          = Index(GetSide(o), OuterLine(GetSide(o), Nghost, d), i + Nghost)
    <3>1. <<x[2] - p.y, x[1] - p.x>>
            = Index(GetSide(o), OuterLine(GetSide(o), Nghost, d), i + Margin(round))
      <4> HIDE DEF i
      <4> QED BY <2>2, <2>3, OuterIndex
    <3> QED BY <2>3, <3>1
  <2>5. a.at[<<x[2] - p.y, x[1] - p.x>>] = FromBeside(b, o, d, origin + i, t, Cart)
    BY <2>1, <2>2, <2>4 DEF CrossMail
  <2>6. /\ o[1] # 0 => x[1] = i /\ x[2] = c[2]
        /\ o[1] = 0 => x[2] = i /\ x[1] = c[1]
    <3> HIDE DEF i
    <3> QED BY SideCases, InnerCells
  <2> HIDE DEF x, p, c, i
  <2>7. o[1] # 0 => <<x[2] - p.y, x[1] - p.x>> = <<c[2] - p.y, j - origin - p.x>>
    BY <2>6 DEF i
  <2>8. o[1] = 0 => <<x[2] - p.y, x[1] - p.x>> = <<j - origin - p.y, c[1] - p.x>>
    BY <2>6 DEF i
  <2> QED BY <2>2, <2>5, <2>7, <2>8 DEF FromBeside
<1> HIDE DEF c, p, origin
<1>4. UNION ats = {<<Beside(Span, b[3], GetSide(o), d, j), t, Cart>> : j \in from}
  <2> HIDE DEF from
  <2>1. ats = {{<<Beside(Span, b[3], GetSide(o), d, j), t, Cart>>} : j \in from}
    <3>1. CASE o[1] # 0
      BY <1>3, <3>1
    <3>2. CASE o[1] = 0
      BY <1>3, <3>2
    <3> QED BY <3>1, <3>2
  <2> DEFINE one(j) == <<Beside(Span, b[3], GetSide(o), d, j), t, Cart>>
  <2>2. ats = {{one(j)} : j \in from}
    BY <2>1
  <2> HIDE DEF ats, one
  <2>3. \A e : e \in UNION ats <=> \E j \in from : e = one(j)
    BY <2>2
  <2>4. UNION ats = {one(j) : j \in from}
    BY <2>3
  <2> QED BY <2>4 DEF one
<1>5. Turn(CartToLocal, b[3], Cart) = Here(b[3])
  BY BlockTypes, TurnedBothWays
<1>6. TurnAll(CartToLocal, b[3], UNION ats)
        = {<<Beside(Span, b[3], GetSide(o), d, j), t, Here(b[3])>> : j \in from}
  <2> DEFINE at(j) == Beside(Span, b[3], GetSide(o), d, j)
  <2>1. UNION ats = {<<at(j), t, Cart>> : j \in from}
    BY <1>4
  <2> DEFINE W == UNION ats
             turned(s) == <<s[1], s[2], Turn(CartToLocal, b[3], s[3])>>
  <2> HIDE DEF ats, from, at, W
  <2>4. \A j \in from : turned(<<at(j), t, Cart>>) = <<at(j), t, Here(b[3])>>
    BY <1>5
  <2>5. W = {<<at(j), t, Cart>> : j \in from}
    BY <2>1 DEF W
  <2>6. TurnAll(CartToLocal, b[3], W) = {turned(s) : s \in W}
    BY DEF TurnAll
  <2> HIDE DEF turned
  <2>2. \A e : e \in TurnAll(CartToLocal, b[3], UNION ats)
                <=> \E j \in from : e = <<at(j), t, Here(b[3])>>
    BY <2>4, <2>5, <2>6 DEF W
  <2>3. TurnAll(CartToLocal, b[3], UNION ats) = {<<at(j), t, Here(b[3])>> : j \in from}
    <3> DEFINE T == TurnAll(CartToLocal, b[3], UNION ats)
    <3> HIDE DEF T
    <3> QED BY <2>2 DEF T
  <2> QED BY <2>3 DEF at
<1> QED BY <1>2, <1>6 DEF c, p, origin, Mixed, Interpolates

-----------------------------------------------------------------------------
(* What the cells, the buffers and the messages of a run hold.             *)

Crossed(b, t) ==
  \A o \in Offsets4, d \in 1..Nghost, k \in 0..(Width - 1) :
    ~SamePanel(b, o) => u[b][OuterCell(o, d, k)] = Mixed(b, o, d, k, t)

Corners(b) ==
  \A c \in Cells : InCorner(c) =>
    u[b][c] = u[b][<<c[1], Nearest(c[2])>>] \cup u[b][<<Nearest(c[1]), c[2]>>]

OuterSeam(b, o, t) ==
  [j \in 0..(Width - 1) |-> FromBeside(b, o, 1, Origin(b, o) + j, t, Here(b[3]))]

\* A buffer of a round.
Mail(r, a, b, o, t) ==
  IF r = "intra" THEN IntraMail(a, b, o, t)
  ELSE IF r \in Seams THEN SeamMail(a, b, o, t) ELSE CrossMail(a, b, o, t)

\* The how manieth message of its channel that of a round is.
Number(r, t) == IF r = "intra" THEN t ELSE IF r \in Seams THEN 2 * t ELSE 2 * t - 1

Numbered(a, b, o, n) ==
  \A r \in Live, t \in Nat \ {0} :
    (r = "intra" <=> SamePanel(b, o)) /\ n = Number(r, t) => Mail(r, a, b, o, t)

\* The round in which the buffer that arrives in a round was sent.
SentIn(r, q) == IF r \in Seams THEN SeamRound(q) ELSE r

HasCells(b) ==
  /\ Step(b) \in 1..13 => Own(b, stage[b])
  /\ Step(b) \in 4..13 => OwnPanel(b, stage[b])
  /\ Step(b) \in 7..13 => Crossed(b, stage[b]) /\ Corners(b)

HasSeam(b, o) ==
  outer[b][o] # <<>> =>
    Step(b) \in 12..13 /\ ~SamePanel(b, o) /\ outer[b][o] = OuterSeam(b, o, stage[b])

Sends(b, r, o) ==
  o \in Buffers(b, r) /\ PackAt(r) < Step(b) /\ Step(b) <= LaunchAt(r) =>
    Mail(r, send_bufs[b][o], Neighbor[b][o], Peer[b][o], stage[b])

Receives(b, r, o) ==
  /\ o \in Buffers(b, r) /\ Local(b, o)
  /\ LaunchAt(SentIn(r, Peer[b][o])) < Step(b) /\ Step(b) <= TakeAt(r)
  => Mail(r, recv_bufs[b][o], b, o, stage[b])

Carries(b, o) ==
  ~Local(b, o) => \A i \in 1..Len(net[b][o]) : Numbered(net[b][o][i], b, o, Taken(b, o) + i)

Domains == /\ DOMAIN u = Blocks /\ DOMAIN outer = Blocks
           /\ DOMAIN send_bufs = Blocks /\ DOMAIN recv_bufs = Blocks

DataInv ==
  /\ Domains
  /\ \A b \in Blocks : HasCells(b)
  /\ \A b \in Blocks, o \in Offsets4 : HasSeam(b, o)
  /\ \A b \in Blocks, r \in Live, o \in Offsets4 : Sends(b, r, o)
  /\ \A b \in Blocks, r \in Live, o \in Offsets4 : Receives(b, r, o)
  /\ \A b \in Blocks, o \in Offsets4 : Carries(b, o)

LEMMA SteadyMail ==
  ASSUME size' = size
  PROVE  /\ Cells' = Cells /\ Span' = Span
         /\ \A c : InBlock(c)' = InBlock(c) /\ InCorner(c)' = InCorner(c)
         /\ \A x : Nearest(x)' = Nearest(x)
         /\ \A b, c : Within4(b, c)' = Within4(b, c)
         /\ \A b, c, t : Computed(b, c, t)' = Computed(b, c, t)
         /\ \A o, d, k : OuterCell(o, d, k)' = OuterCell(o, d, k)
         /\ \A b, o, d, k, t : Mixed(b, o, d, k, t)' = Mixed(b, o, d, k, t)
         /\ \A b, o, t : OuterSeam(b, o, t)' = OuterSeam(b, o, t)
         /\ \A r, a, b, o, t : Mail(r, a, b, o, t)' = Mail(r, a, b, o, t)
         /\ \A a, b, o, n : Numbered(a, b, o, n)' = Numbered(a, b, o, n)
<1>1. Pxy' = Pxy /\ Width' = Width /\ Nghost' = Nghost
  BY Steady
<1>2. Cells' = Cells /\ Span' = Span
  BY <1>1 DEF Cells, Span
<1>3. \A c : InBlock(c)' = InBlock(c)
  BY <1>1 DEF InBlock
<1>4. \A x : Nearest(x)' = Nearest(x) /\ Beyond(x)' = Beyond(x)
  BY <1>1 DEF Nearest, Beyond
<1>5. \A c : InCorner(c)' = InCorner(c) /\ OffsetOf(c)' = OffsetOf(c)
  BY <1>4 DEF InCorner, OffsetOf
<1>6. \A b, c : Within4(b, c)' = Within4(b, c)
  BY <1>5, Steady DEF Within4
<1>7. \A b, c, t : Computed(b, c, t)' = Computed(b, c, t)
  BY <1>1 DEF Computed, Inside
<1>8. \A o, d, k : OuterCell(o, d, k)' = OuterCell(o, d, k)
  BY <1>1 DEF OuterCell
<1>9. \A b, o : Origin(b, o)' = Origin(b, o)
  BY <1>1 DEF Origin
<1>10. \A b, o, d, k, t : Mixed(b, o, d, k, t)' = Mixed(b, o, d, k, t)
  BY <1>2, <1>9 DEF Mixed
<1>11. \A b, o, d, j, t, v : FromBeside(b, o, d, j, t, v)' = FromBeside(b, o, d, j, t, v)
  BY <1>2 DEF FromBeside
<1>12. \A b, o, t : OuterSeam(b, o, t)' = OuterSeam(b, o, t)
  BY <1>1, <1>9, <1>11 DEF OuterSeam
<1>13. \A a, b, o, t : IntraMail(a, b, o, t)' = IntraMail(a, b, o, t)
  BY <1>1, <1>7, <1>8 DEF IntraMail
<1>14. \A a, b, o, t : CrossMail(a, b, o, t)' = CrossMail(a, b, o, t)
  BY <1>1, <1>2, <1>9, <1>11 DEF CrossMail
<1>15. \A a, b, o, t : SeamMail(a, b, o, t)' = SeamMail(a, b, o, t)
  BY <1>1, <1>9, <1>11 DEF SeamMail
<1>16. \A r, a, b, o, t : Mail(r, a, b, o, t)' = Mail(r, a, b, o, t)
  BY <1>13, <1>14, <1>15 DEF Mail
<1>17. \A a, b, o, n : Numbered(a, b, o, n)' = Numbered(a, b, o, n)
  BY <1>16, Steady DEF Numbered
<1> QED BY <1>2, <1>3, <1>4, <1>5, <1>6, <1>7, <1>8, <1>10, <1>12, <1>16, <1>17

LEMMA SameMail ==
  ASSUME NEW r \in Live, NEW s \in Live, NEW a, NEW b, NEW o, NEW t,
         r = "intra" <=> s = "intra", r \in Seams <=> s \in Seams
  PROVE  Mail(r, a, b, o, t) = Mail(s, a, b, o, t)
BY DEF Mail

LEMMA NumbersApart ==
  ASSUME NEW r \in Live, NEW s \in Live, NEW t \in Nat \ {0}, NEW n \in Nat \ {0},
         r = "intra" <=> s = "intra", Number(r, t) = Number(s, n)
  PROVE  t = n /\ (r \in Seams <=> s \in Seams)
<1>1. "intra" \notin Seams
  BY DEF Seams
<1>2. CASE r = "intra"
  BY <1>1, <1>2 DEF Number
<1>3. CASE r # "intra"
  BY <1>3 DEF Number
<1> QED BY <1>2, <1>3

\* The two ends of a message are buffers of the rounds it is sent and taken in.
LEMMA OtherEnd ==
  ASSUME size \in Sizes, NEW c \in Blocks, NEW p \in Offsets4, NEW r \in Live,
         p \in Buffers(c, r)
  PROVE  LET m == Neighbor[c][p]
             q == Peer[c][p]
             s == SentIn(r, q)
         IN /\ s \in Live /\ q \in Buffers(m, s)
            /\ r = "intra" <=> s = "intra"
            /\ r \in Seams <=> s \in Seams
            /\ r = "intra" <=> SamePanel(c, p)
            /\ r \in Seams => r = SeamRound(p)
            /\ r \notin Seams => s = r
<1> DEFINE m == Neighbor[c][p]
           q == Peer[c][p]
<1>1. /\ m \in Blocks /\ q \in Offsets4 /\ Neighbor[m][q] = c
      /\ SamePanel(m, q) = SamePanel(c, p)
  BY Plan DEF SamePanel
<1>2. /\ q[2] # 0 <=> q[1] = 0
      /\ p[2] # 0 <=> p[1] = 0
  BY <1>1, SideCases
<1>3. r = "intra" <=> SamePanel(c, p)
  BY OnePanel DEF Buffers, Live, Ghost
<1>4. Ghost \notin Seams /\ "intra" \notin Seams /\ Ghost # "intra"
  BY DEF Ghost, Seams
<1> HIDE DEF m, q
<1>5. CASE r \in Seams
  <2>1. r = SeamRound(p)
    BY <1>2, <1>5 DEF Buffers, SeamRound, Seams
  <2>2. q \in Buffers(m, SeamRound(q)) /\ SeamRound(q) \in Seams
    BY <1>1, <1>2, <1>3, <1>4, <1>5 DEF Buffers, SeamRound, Seams
  <2> QED BY <1>3, <1>4, <1>5, <2>1, <2>2 DEF SentIn, Live, Seams, m, q
<1>6. CASE r \notin Seams
  <2>1. q \in Buffers(m, r)
    BY <1>1, <1>3, <1>6 DEF Buffers, Live, Seams, Ghost
  <2> QED BY <1>3, <1>6, <2>1 DEF SentIn, m, q
<1> QED BY <1>5, <1>6

Unmoved(c) ==
  /\ Step(c)' = Step(c) /\ stage'[c] = stage[c] /\ u'[c] = u[c] /\ outer'[c] = outer[c]
  /\ send_bufs'[c] = send_bufs[c] /\ recv_bufs'[c] = recv_bufs[c]

\* What a block that does not move has.
LEMMA KeptCells ==
  ASSUME size' = size, NEW c, u'[c] = u[c]
  PROVE  /\ \A t : Own(c, t)' = Own(c, t)
         /\ \A t : OwnPanel(c, t)' = OwnPanel(c, t)
         /\ \A t : Crossed(c, t)' = Crossed(c, t)
         /\ Corners(c)' = Corners(c)
<1>1. \A t : Own(c, t)' = Own(c, t)
  BY SteadyMail DEF Own
<1>2. \A t : OwnPanel(c, t)' = OwnPanel(c, t)
  BY SteadyMail DEF OwnPanel
<1>3. \A t : Crossed(c, t)' = Crossed(c, t)
  BY Steady, SteadyMail DEF Crossed
<1>4. Corners(c)' = Corners(c)
  BY SteadyMail DEF Corners
<1> QED BY <1>1, <1>2, <1>3, <1>4

LEMMA Unmoving ==
  ASSUME size' = size, NEW c, Unmoved(c)
  PROVE  /\ HasCells(c) => HasCells(c)'
         /\ \A o : HasSeam(c, o) => HasSeam(c, o)'
         /\ \A r, o : Sends(c, r, o) => Sends(c, r, o)'
         /\ \A r, o : Receives(c, r, o) => Receives(c, r, o)'
<1>1. HasCells(c) => HasCells(c)'
  BY KeptCells DEF Unmoved, HasCells
<1>2. \A o : HasSeam(c, o) => HasSeam(c, o)'
  BY Steady, SteadyMail DEF Unmoved, HasSeam
<1>3. \A r, o : Sends(c, r, o) => Sends(c, r, o)'
  BY Steady, SteadyMail DEF Unmoved, Sends
<1>4. \A r, o : Receives(c, r, o) => Receives(c, r, o)'
  BY Steady, SteadyMail DEF Unmoved, Receives
<1> QED BY <1>1, <1>2, <1>3, <1>4

\* A channel that nothing is sent in or taken from.
LEMMA Untouched ==
  ASSUME size' = size, NEW c, NEW o, net'[c][o] = net[c][o], Taken(c, o)' = Taken(c, o),
         Carries(c, o)
  PROVE  Carries(c, o)'
BY Steady, SteadyMail DEF Carries

LEMMA AllTimes ==
  ASSUME NEW r \in Live
  PROVE  \/ r = "intra" /\ PackAt(r) = 1 /\ LaunchAt(r) = 2 /\ TakeAt(r) = 3
         \/ r = Ghost /\ PackAt(r) = 4 /\ LaunchAt(r) = 5 /\ TakeAt(r) = 6
         \/ r = "x2" /\ PackAt(r) = 7 /\ LaunchAt(r) = 9 /\ TakeAt(r) = 11
         \/ r = "x3" /\ PackAt(r) = 8 /\ LaunchAt(r) = 10 /\ TakeAt(r) = 12
BY Times DEF Live, Ghost

LEMMA SentTimes ==
  ASSUME NEW r \in Live, NEW q
  PROVE  LET s == SentIn(r, q)
         IN \/ r = "intra" /\ LaunchAt(s) = 2 /\ TakeAt(r) = 3
            \/ r = Ghost /\ LaunchAt(s) = 5 /\ TakeAt(r) = 6
            \/ r \in Seams /\ LaunchAt(s) \in {9, 10} /\ TakeAt(r) \in {11, 12}
<1>1. Ghost \notin Seams /\ "intra" \notin Seams
  BY DEF Ghost, Seams
<1>2. CASE r \in Seams
  <2>1. TakeAt(r) \in {11, 12}
    BY <1>2, Times DEF Seams
  <2>2. LaunchAt(SeamRound(q)) \in {9, 10}
    BY SeamTimes
  <2> QED BY <1>2, <2>1, <2>2 DEF SentIn
<1>3. CASE r \notin Seams
  BY <1>1, <1>3, AllTimes DEF SentIn, Live, Seams
<1> QED BY <1>2, <1>3

\* What a block takes in a round was sent in that round, of the same stage.
LEMMA TakesMail ==
  ASSUME ControlInv, DataInv, NEW b \in Blocks, NEW r \in Rounds, Takes(b, r),
         NEW o \in Buffers(b, r)
  PROVE  Mail(r, Received(b, o), b, o, stage[b])
<1>1. /\ r \in Live /\ Step(b) = TakeAt(r)
      /\ ~Local(b, o) => net[b][o] # <<>>
      /\ size \in Sizes /\ o \in Offsets4
  BY TakeIs DEF ControlInv, Types, Buffers
<1>2. CASE Local(b, o)
  <2>1. LaunchAt(SentIn(r, Peer[b][o])) < TakeAt(r) /\ TakeAt(r) <= TakeAt(r)
    BY <1>1, SentTimes
  <2>2. Receives(b, r, o)
    BY <1>1 DEF DataInv
  <2> QED BY <1>1, <1>2, <2>1, <2>2 DEF Receives, Received
<1>3. CASE ~Local(b, o)
  <2>1. Received(b, o) = net[b][o][1] /\ Len(net[b][o]) \in Nat \ {0}
    BY <1>1, <1>3, TakenOff DEF Received, ControlInv, Channels, Channel
  <2>2. Numbered(net[b][o][1], b, o, Taken(b, o) + 1)
    BY <1>1, <1>3, <2>1 DEF DataInv, Carries
  <2>3. /\ r = "intra" <=> SamePanel(b, o)
        /\ r \in Seams => r = SeamRound(o)
    BY <1>1, OtherEnd
  <2>4. stage[b] \in Nat \ {0}
    BY StepTypes DEF ControlInv
  <2>5. Taken(b, o) + 1 = Number(r, stage[b])
    <3>1. /\ SamePanel(b, o) => Taken(b, o) = stage[b] - 1 + One(TakeAt(r) > 3)
          /\ ~SamePanel(b, o) => Taken(b, o) = 2 * (stage[b] - 1) + One(TakeAt(r) > 6)
                                               + One(TakeAt(r) > TakeAt(SeamRound(o)))
      BY <1>1 DEF Taken, TakenBy
    <3>2. Ghost \notin Seams /\ "intra" \notin Seams /\ Ghost # "intra"
      BY DEF Ghost, Seams
    <3>3. CASE r = "intra"
      <4>1. One(TakeAt(r) > 3) = 0
        BY <3>3, Times DEF One
      <4> QED BY <2>3, <2>4, <3>1, <3>3, <4>1 DEF Number
    <3>4. CASE r = Ghost
      <4>1. One(TakeAt(r) > 6) = 0 /\ One(TakeAt(r) > TakeAt(SeamRound(o))) = 0
        <5>1. TakeAt(r) = 6
          BY <3>4, Times DEF Ghost
        <5> QED BY <5>1, SeamTimes DEF One
      <4> QED BY <2>3, <2>4, <3>1, <3>2, <3>4, <4>1 DEF Number
    <3>5. CASE r \in Seams
      <4>1. One(TakeAt(r) > 6) = 1 /\ One(TakeAt(r) > TakeAt(SeamRound(o))) = 0
        BY <2>3, <3>5, SeamTimes DEF One
      <4> QED BY <2>3, <2>4, <3>1, <3>2, <3>5, <4>1 DEF Number
    <3> QED BY <1>1, <3>3, <3>4, <3>5 DEF Live, Seams
  <2> QED BY <1>1, <2>1, <2>2, <2>3, <2>4, <2>5 DEF Numbered
<1> QED BY <1>2, <1>3

LEMMA InnerStays ==
  ASSUME size \in Sizes, NEW b, NEW c \in Cells, InBlock(c), NEW round
  PROVE  /\ ~InCorner(c) /\ ~Within4(b, c)
         /\ Arrived(b, round, c) = u[b][c]
<1>1. Beyond(c[1]) = 0 /\ Beyond(c[2]) = 0
  BY CellTypes
<1>2. OffsetOf(c) = <<0, 0>> /\ <<0, 0>> \notin Offsets4
  <2>1. <<0, 0>> \notin Offsets4
    BY OffsetCases
  <2> QED BY <1>1, <2>1 DEF OffsetOf
<1>3. OffsetOf(c) \notin Buffers(b, round)
  BY <1>2 DEF Buffers
<1> QED BY <1>1, <1>2, <1>3 DEF InCorner, Within4, Arrived

LEMMA IntraArrives ==
  ASSUME size \in Sizes, NEW b \in Blocks, NEW t, NEW c \in Cells, Within4(b, c),
         \A o \in Buffers(b, "intra") : IntraMail(Received(b, o), b, o, t)
  PROVE  Arrived(b, "intra", c) = Computed(b, c, t)
<1> DEFINE o == OffsetOf(c)
           p == Part("intra", o, TRUE)
           a == Received(b, o)
<1>1. o \in Offsets4 /\ SamePanel(b, o) /\ ~InCorner(c)
  BY DEF Within4
<1>2. o \in Buffers(b, "intra") /\ IntraMail(a, b, o, t)
  BY <1>1 DEF Buffers
<1>3. ~InBlock(c)
  BY InnerStays
<1>4. PICK d \in 1..Nghost, k \in 0..(Width - 1) : c = OuterCell(o, d, k)
  BY <1>1, <1>3, OuterOf
<1>5. <<c[2] - p.y, c[1] - p.x>> = Index(GetSide(o), OuterLine(GetSide(o), Nghost, d), k)
  <2> HIDE DEF o
  <2>1. "intra" \in Rounds \ Seams /\ Margin("intra") = 0 /\ k \in Int /\ k + 0 = k
    BY SizeTypes DEF Rounds, Seams, Margin
  <2>2. <<c[2] - p.y, c[1] - p.x>>
          = Index(GetSide(o), OuterLine(GetSide(o), Nghost, d), k + Margin("intra"))
    BY <1>1, <1>4, <2>1, OuterIndex
  <2> QED BY <2>1, <2>2
<1> HIDE DEF p, a, o
<1>6. a.at[<<c[2] - p.y, c[1] - p.x>>] = Computed(b, c, t)
  BY <1>2, <1>4, <1>5 DEF IntraMail
<1>7. Arrived(b, "intra", c) = a.at[<<c[2] - p.y, c[1] - p.x>>]
  BY <1>1, <1>2 DEF Arrived, a, p, o
<1> QED BY <1>6, <1>7

LEMMA CrossArrives ==
  ASSUME size \in Sizes, NEW b \in Blocks, NEW o \in Offsets4, ~SamePanel(b, o), NEW t,
         NEW d \in 1..Nghost, NEW k \in 0..(Width - 1), NEW round \in {"cross", "all"},
         CrossMail(Received(b, o), b, o, t)
  PROVE  Arrived(b, round, OuterCell(o, d, k)) = Mixed(b, o, d, k, t)
<1> DEFINE c == OuterCell(o, d, k)
           a == Received(b, o)
<1>1. OffsetOf(c) = o
  BY OuterCellTypes
<1>2. o \in Buffers(b, round)
  BY DEF Buffers
<1>3. Interpolates(a, b, o, d, k, t, round)
  BY InterpolatedIs
<1> HIDE DEF c, a
<1> QED BY <1>1, <1>2, <1>3 DEF Arrived, Interpolates, c, a

LEMMA NearestTypes ==
  ASSUME size \in Sizes, NEW c \in Cells, InCorner(c)
  PROVE  LET x == <<c[1], Nearest(c[2])>>
             y == <<Nearest(c[1]), c[2]>>
         IN x \in Cells /\ y \in Cells /\ ~InCorner(x) /\ ~InCorner(y)
            /\ ~InBlock(x) /\ ~InBlock(y)
<1>1. Width \in Nat /\ Width > 1 /\ Nghost \in 1..Width
  BY SizeTypes
<1>2. \A z : Nearest(z) \in 0..(Width - 1) /\ Beyond(Nearest(z)) = 0
             /\ Nearest(z) \in (-Nghost)..(Width + Nghost - 1)
  BY <1>1 DEF Nearest, Beyond
<1>3. /\ c[1] \in (-Nghost)..(Width + Nghost - 1) /\ c[2] \in (-Nghost)..(Width + Nghost - 1)
      /\ Beyond(c[1]) # 0 /\ Beyond(c[2]) # 0
  BY CellTypes DEF InCorner
<1>4. <<c[1], Nearest(c[2])>> \in Cells /\ <<Nearest(c[1]), c[2]>> \in Cells
  BY <1>2, <1>3 DEF Cells
<1>5. ~InBlock(<<c[1], Nearest(c[2])>>) /\ ~InBlock(<<Nearest(c[1]), c[2]>>)
  BY <1>3, <1>4, CellTypes
<1> QED BY <1>2, <1>4, <1>5 DEF InCorner

LEMMA TakeHasCells ==
  ASSUME ControlInv, DataInv, NEW b \in Blocks, TakeGhosts(b)
  PROVE  /\ HasCells(b)'
         /\ \A c \in Blocks : c # b => u'[c] = u[c]
<1>1. PICK r \in Rounds \ Seams :
        /\ At(b, "take", r)
        /\ u' = [u EXCEPT ![b] = IF r = "intra" THEN Deserialized(b, r)
                                 ELSE FillCorners(Deserialized(b, r))]
        /\ Arrivals(b, r)
        /\ NextStep(b) /\ UNCHANGED <<size, outer, bufs, stage>>
  BY DEF TakeGhosts
<1>2. Takes(b, r) /\ size' = size /\ stage' = stage
  BY <1>1 DEF Takes, At
<1>3. r \in Live /\ Step(b) = TakeAt(r) /\ size \in Sizes /\ DOMAIN u = Blocks
  BY <1>1, <1>2, TakeIs DEF ControlInv, Types, DataInv, Domains
<1>4. Step(b)' = Step(b) + 1
  <2>1. pc' = [pc EXCEPT ![b] = @ + 1] /\ DOMAIN pc = Blocks
    BY <1>1 DEF NextStep, ControlInv, Types
  <2>2. pc'[b] = pc[b] + 1
    BY <2>1
  <2>3. pc[b] \in Nat
    BY StepTypes DEF ControlInv
  <2> QED BY <1>2, <2>2, <2>3, Steady DEF Step
<1>5. \A o \in Buffers(b, r) : Mail(r, Received(b, o), b, o, stage[b])
  BY <1>1, <1>2, TakesMail
<1> DEFINE t == stage[b]
           v == Deserialized(b, r)
<1>6. HasCells(b)
  BY DEF DataInv
<1>7. \A c \in Cells : v[c] = Arrived(b, r, c)
  BY DEF Deserialized
<1>8. \A c \in Cells : InBlock(c) => v[c] = u[b][c] /\ ~InCorner(c)
  BY <1>3, <1>7, InnerStays
<1> HIDE DEF v
<1>9. \A c \in Blocks : c # b => u'[c] = u[c]
  BY <1>1, <1>3
<1>10. CASE r = "intra"
  <2>1. u'[b] = v /\ Step(b) = 3 /\ Step(b)' = 4
    BY <1>1, <1>3, <1>4, <1>10, Times DEF v
  <2>2. Own(b, t)
    BY <1>6, <2>1 DEF HasCells
  <2>3. Own(b, t)'
    <3>1. \A c \in Cells : InBlock(c) => u'[b][c] = Computed(b, c, t)
      BY <1>8, <2>1, <2>2 DEF Own
    <3> QED BY <1>2, <3>1, SteadyMail DEF Own
  <2>4. OwnPanel(b, t)'
    <3>1. \A o \in Buffers(b, "intra") : IntraMail(Received(b, o), b, o, t)
      BY <1>5, <1>10 DEF Mail
    <3>2. \A c \in Cells : Within4(b, c) => u'[b][c] = Computed(b, c, t)
      BY <1>3, <1>7, <1>10, <2>1, <3>1, IntraArrives
    <3> QED BY <1>2, <3>2, SteadyMail DEF OwnPanel
  <2> QED BY <1>2, <1>9, <2>1, <2>3, <2>4 DEF HasCells
<1>11. CASE r = Ghost
  <2>0. r \in {"cross", "all"} /\ r # "intra" /\ r \notin Seams
    BY <1>11 DEF Ghost, Seams
  <2>1. u'[b] = FillCorners(v) /\ Step(b) = 6 /\ Step(b)' = 7
    <3>1. TakeAt(r) = 6
      BY <2>0, Times
    <3> QED BY <1>1, <1>3, <1>4, <2>0, <3>1 DEF v
  <2>2. Own(b, t) /\ OwnPanel(b, t)
    BY <1>6, <2>1 DEF HasCells
  <2>3. /\ \A c \in Cells : ~InCorner(c) => u'[b][c] = v[c]
        /\ \A c \in Cells : InCorner(c) =>
             u'[b][c] = v[<<c[1], Nearest(c[2])>>] \cup v[<<Nearest(c[1]), c[2]>>]
    BY <2>1 DEF FillCorners
  <2>4. Own(b, t)'
    <3>1. \A c \in Cells : InBlock(c) => u'[b][c] = Computed(b, c, t)
      BY <1>8, <2>2, <2>3 DEF Own
    <3> QED BY <1>2, <3>1, SteadyMail DEF Own
  <2>5. OwnPanel(b, t)'
    <3>1. ASSUME NEW c \in Cells, Within4(b, c)
          PROVE  u'[b][c] = Computed(b, c, t)
      <4>1. OffsetOf(c) \in Offsets4 /\ SamePanel(b, OffsetOf(c)) /\ ~InCorner(c)
        BY <3>1 DEF Within4
      <4>2. OffsetOf(c) \notin Buffers(b, r)
        BY <1>3, <1>11, <4>1, OnePanel DEF Buffers, Ghost
      <4>3. Arrived(b, r, c) = u[b][c]
        BY <4>2 DEF Arrived
      <4> QED BY <1>7, <2>2, <2>3, <3>1, <4>1, <4>3 DEF OwnPanel
    <3> QED BY <1>2, <3>1, SteadyMail DEF OwnPanel
  <2>6. Crossed(b, t)'
    <3>1. ASSUME NEW o \in Offsets4, NEW d \in 1..Nghost, NEW k \in 0..(Width - 1),
                 ~SamePanel(b, o)
          PROVE  u'[b][OuterCell(o, d, k)] = Mixed(b, o, d, k, t)
      <4>1. o \in Buffers(b, r)
        BY <2>0, <3>1 DEF Buffers
      <4>2. CrossMail(Received(b, o), b, o, t)
        BY <1>5, <2>0, <4>1 DEF Mail
      <4>3. Arrived(b, r, OuterCell(o, d, k)) = Mixed(b, o, d, k, t)
        BY <1>3, <2>0, <3>1, <4>2, CrossArrives
      <4>4. OuterCell(o, d, k) \in Cells /\ ~InCorner(OuterCell(o, d, k))
        BY <1>3, OuterCellTypes
      <4> QED BY <1>7, <2>3, <4>3, <4>4
    <3> QED BY <1>2, <3>1, Steady, SteadyMail DEF Crossed
  <2>7. Corners(b)'
    <3>1. ASSUME NEW c \in Cells, InCorner(c)
          PROVE  u'[b][c] = u'[b][<<c[1], Nearest(c[2])>>] \cup u'[b][<<Nearest(c[1]), c[2]>>]
      <4>1. /\ <<c[1], Nearest(c[2])>> \in Cells /\ ~InCorner(<<c[1], Nearest(c[2])>>)
            /\ <<Nearest(c[1]), c[2]>> \in Cells /\ ~InCorner(<<Nearest(c[1]), c[2]>>)
        BY <1>3, <3>1, NearestTypes
      <4> QED BY <2>3, <3>1, <4>1
    <3> QED BY <1>2, <3>1, SteadyMail DEF Corners
  <2> QED BY <1>2, <1>9, <2>1, <2>4, <2>5, <2>6, <2>7 DEF HasCells
<1> QED BY <1>1, <1>3, <1>10, <1>11 DEF Live, Seams

\* One block moves.
LEMMA OneMoves ==
  ASSUME DataInv, size' = size, NEW b \in Blocks, Domains',
         \A c \in Blocks : c # b => Unmoved(c),
         HasCells(b)', \A o \in Offsets4 : HasSeam(b, o)',
         \A r \in Live, o \in Offsets4 : Sends(b, r, o)',
         \A r \in Live, o \in Offsets4 : Receives(b, r, o)',
         \A c \in Blocks, o \in Offsets4 : Carries(c, o)'
  PROVE  DataInv'
<1>1. Blocks' = Blocks /\ Live' = Live
  BY Steady
<1>2. \A c \in Blocks : HasCells(c)'
  BY Unmoving DEF DataInv
<1>3. \A c \in Blocks, o \in Offsets4 : HasSeam(c, o)'
  BY Unmoving DEF DataInv
<1>4. \A c \in Blocks, r \in Live, o \in Offsets4 : Sends(c, r, o)'
  BY Unmoving DEF DataInv
<1>5. \A c \in Blocks, r \in Live, o \in Offsets4 : Receives(c, r, o)'
  BY Unmoving DEF DataInv
<1> QED BY <1>1, <1>2, <1>3, <1>4, <1>5 DEF DataInv

LEMMA PackOrder ==
  ASSUME NEW r \in Live, NEW s \in Live, PackAt(s) < PackAt(r) + 1, PackAt(r) + 1 <= LaunchAt(s)
  PROVE  s = r \/ (r = "x3" /\ s = "x2")
BY AllTimes

LEMMA PackHasMail ==
  ASSUME size \in Sizes, NEW b \in Blocks, NEW r \in Live, NEW o \in Buffers(b, r), NEW t,
         Own(b, t), r = Ghost => OwnPanel(b, t)
  PROVE  Mail(r, Packed(b, r, o), Neighbor[b][o], Peer[b][o], t)
<1>1. o \in Offsets4 /\ "intra" \notin Seams
  BY DEF Buffers, Seams
<1>2. CASE r = "intra"
  <2>1. SamePanel(b, o)
    BY <1>2 DEF Buffers
  <2> QED BY <1>1, <1>2, <2>1, IntraPacked DEF Mail
<1>3. CASE r \in Seams
  <2>1. ~SamePanel(b, o)
    BY <1>3 DEF Buffers, Seams
  <2> QED BY <1>1, <1>3, <2>1, SeamPacked DEF Mail
<1>4. CASE r = Ghost
  <2>1. ~SamePanel(b, o) /\ r \in {"cross", "all"} /\ r \notin Seams /\ r # "intra"
    BY <1>1, <1>4, OnePanel DEF Buffers, Ghost, Seams
  <2> QED BY <1>1, <1>4, <2>1, CrossPacked DEF Mail
<1> QED BY <1>2, <1>3, <1>4 DEF Live, Seams

LEMMA PackKeepsData ==
  ASSUME ControlInv, DataInv, NEW b \in Blocks, Pack(b)
  PROVE  DataInv'
<1> USE DEF ControlInv
<1>1. PICK r \in Rounds :
        /\ At(b, "pack", r)
        /\ send_bufs' = [send_bufs EXCEPT ![b] = [o \in Offsets4 |->
             IF o \in Buffers(b, r) THEN Packed(b, r, o) ELSE @[o]]]
        /\ recv_bufs' = [recv_bufs EXCEPT ![b] = [o \in Offsets4 |->
             IF o \in Buffers(b, r) THEN Old(Part(r, o, TRUE)) ELSE @[o]]]
        /\ NextStep(b) /\ UNCHANGED <<size, u, outer, net, stage>>
  BY DEF Pack
<1>2. /\ r \in Live /\ Step(b) = PackAt(r) /\ size \in Sizes
      /\ size' = size /\ u' = u /\ outer' = outer /\ net' = net /\ stage' = stage
      /\ DOMAIN net' = Blocks
      /\ DOMAIN send_bufs = Blocks /\ DOMAIN recv_bufs = Blocks
  BY <1>1, StepTypes, Tasks DEF At, Types, DataInv, Domains
<1>3. Step(b) \in {1, 4, 7, 8}
  BY <1>2, AllTimes
<1>4. /\ Step(b)' = Step(b) + 1
      /\ \A c \in Blocks : c # b => Step(c)' = Step(c)
      /\ \A c \in Blocks, o \in Offsets4 :
           Taken(c, o)' = Taken(c, o) + One(c = b /\ Taking(Step(b), SamePanel(b, o), o))
  BY <1>1, <1>2, <1>3, OneSteps
<1>5. Step(b)' \in {2, 5, 8, 9}
  BY <1>3, <1>4
<1>6. /\ \A o \in Offsets4 : send_bufs'[b][o] = IF o \in Buffers(b, r) THEN Packed(b, r, o)
                                                ELSE send_bufs[b][o]
      /\ \A c \in Blocks : c # b => send_bufs'[c] = send_bufs[c] /\ recv_bufs'[c] = recv_bufs[c]
      /\ DOMAIN send_bufs' = Blocks /\ DOMAIN recv_bufs' = Blocks
  BY <1>1, <1>2
<1>7. Domains'
  BY <1>2, <1>6, Steady DEF DataInv, Domains
<1>8. \A c \in Blocks : c # b => Unmoved(c)
  BY <1>2, <1>4, <1>6 DEF Unmoved
<1>9. HasCells(b)
  BY DEF DataInv
<1>10. HasCells(b)'
  <2>1. /\ Own(b, stage[b])' = Own(b, stage[b]) /\ OwnPanel(b, stage[b])' = OwnPanel(b, stage[b])
        /\ Crossed(b, stage[b])' = Crossed(b, stage[b]) /\ Corners(b)' = Corners(b)
    BY <1>2, KeptCells
  <2>2. /\ Step(b) \in 1..13
        /\ Step(b)' \in 4..13 => Step(b) \in 4..13
        /\ Step(b)' \in 7..13 => Step(b) \in 7..13
    BY <1>3, <1>4
  <2> QED BY <1>9, <2>1, <2>2 DEF HasCells
<1>11. ASSUME NEW o \in Offsets4 PROVE HasSeam(b, o)'
  <2>1. HasSeam(b, o)
    BY DEF DataInv
  <2>2. outer[b][o] = <<>>
    BY <1>3, <2>1 DEF HasSeam
  <2> QED BY <1>2, <2>2 DEF HasSeam
<1>12. ASSUME NEW s \in Live, NEW o \in Offsets4 PROVE Sends(b, s, o)'
  <2> SUFFICES ASSUME o \in Buffers(b, s), PackAt(s) < PackAt(r) + 1, PackAt(r) + 1 <= LaunchAt(s)
               PROVE  Mail(s, send_bufs'[b][o], Neighbor[b][o], Peer[b][o], stage[b])
    BY <1>2, <1>4, Steady, SteadyMail DEF Sends
  <2>1. CASE s = r
    <3>1. Own(b, stage[b]) /\ (r = Ghost => OwnPanel(b, stage[b]))
      <4>1. r = Ghost => Step(b) = 4
        BY <1>2, Times DEF Ghost
      <4> QED BY <1>3, <1>9, <4>1 DEF HasCells
    <3> QED BY <1>2, <1>6, <2>1, <3>1, PackHasMail
  <2>2. CASE r = "x3" /\ s = "x2"
    <3>1. o \notin Buffers(b, r)
      BY <2>2, SideCases DEF Buffers
    <3>2. PackAt(s) < Step(b) /\ Step(b) <= LaunchAt(s)
      BY <1>2, <2>2, Times
    <3>3. Sends(b, s, o)
      BY DEF DataInv
    <3> QED BY <1>6, <3>1, <3>2, <3>3 DEF Sends
  <2> QED BY <1>2, <2>1, <2>2, PackOrder
<1>13. ASSUME NEW s \in Live, NEW o \in Offsets4 PROVE Receives(b, s, o)'
  <2>1. ~(LaunchAt(SentIn(s, Peer[b][o])) < Step(b)' /\ Step(b)' <= TakeAt(s))
    BY <1>5, SentTimes
  <2> QED BY <1>2, <2>1, Steady DEF Receives
<1>14. ASSUME NEW c \in Blocks, NEW o \in Offsets4 PROVE Carries(c, o)'
  <2>1. One(c = b /\ Taking(Step(b), SamePanel(b, o), o)) = 0
    BY <1>3, SeamTimes DEF One, Taking
  <2>2. Taken(c, o)' = Taken(c, o)
    <3>1. Taken(c, o) \in Int
      BY StepTypes DEF Taken, TakenBy, One
    <3> QED BY <1>4, <2>1, <3>1
  <2>3. Carries(c, o)
    BY DEF DataInv
  <2> QED BY <1>2, <2>2, <2>3, Untouched
<1> QED BY <1>2, <1>7, <1>8, <1>10, <1>11, <1>12, <1>13, <1>14, OneMoves

LEMMA SentInLive ==
  ASSUME NEW s \in Live, NEW q
  PROVE  SentIn(s, q) \in Live /\ (s \in Seams <=> SentIn(s, q) \in Seams)
         /\ (s \in Seams => SentIn(s, q) = SeamRound(q))
<1>1. SeamRound(q) \in Seams
  BY DEF SeamRound, Seams
<1> QED BY <1>1 DEF SentIn, Live, Seams

\* What a block waits for when a round has been launched was sent in that round,
\* or in the first of two seams before.
LEMMA LaunchOrder ==
  ASSUME NEW r \in Live, NEW s \in Live, NEW q,
         LaunchAt(SentIn(s, q)) < LaunchAt(r) + 1, LaunchAt(r) + 1 <= TakeAt(s)
  PROVE  \/ SentIn(s, q) = r
         \/ /\ r = "x3" /\ SentIn(s, q) = "x2" /\ s \in Seams
            /\ LaunchAt(SentIn(s, q)) < LaunchAt(r)
<1> DEFINE n == SentIn(s, q)
<1>1. n \in Live /\ (s \in Seams <=> n \in Seams)
  BY SentInLive
<1>2. Ghost \notin Seams /\ "intra" \notin Seams
  BY DEF Ghost, Seams
<1>3. \/ s = "intra" /\ n = "intra" /\ LaunchAt(n) = 2 /\ TakeAt(s) = 3
      \/ s = Ghost /\ n = Ghost /\ LaunchAt(n) = 5 /\ TakeAt(s) = 6
      \/ s \in Seams /\ n = "x2" /\ LaunchAt(n) = 9 /\ TakeAt(s) \in {11, 12}
      \/ s \in Seams /\ n = "x3" /\ LaunchAt(n) = 10 /\ TakeAt(s) \in {11, 12}
  <2>1. CASE s \in Seams
    BY <1>1, <2>1, SentTimes, Times DEF Seams
  <2>2. CASE s \notin Seams
    BY <1>2, <2>2, AllTimes DEF SentIn, Live, Seams
  <2> QED BY <2>1, <2>2
<1> HIDE DEF n
<1> QED BY <1>3, AllTimes DEF n

LEMMA SentNumber ==
  ASSUME size \in Sizes, NEW m \in Blocks, NEW r \in Live, NEW q \in Buffers(m, r),
         Step(m) = LaunchAt(r), stage[m] \in Nat \ {0}
  PROVE  Sent(m, q) + 1 = Number(r, stage[m])
<1>1. q \in Offsets4
  BY DEF Buffers
<1>2. /\ r = "intra" <=> SamePanel(m, q)
      /\ r \in Seams => r = SeamRound(q)
  BY <1>1, OtherEnd
<1>3. /\ SamePanel(m, q) => Sent(m, q) = stage[m] - 1 + One(LaunchAt(r) > 2)
      /\ ~SamePanel(m, q) => Sent(m, q) = 2 * (stage[m] - 1) + One(LaunchAt(r) > 5)
                                          + One(LaunchAt(r) > LaunchAt(SeamRound(q)))
  BY DEF Sent, SentBy
<1>4. Ghost \notin Seams /\ "intra" \notin Seams /\ Ghost # "intra"
  BY DEF Ghost, Seams
<1>5. CASE r = "intra"
  <2>1. One(LaunchAt(r) > 2) = 0
    BY <1>5, Times DEF One
  <2> QED BY <1>2, <1>3, <1>5, <2>1 DEF Number
<1>6. CASE r = Ghost
  <2>1. LaunchAt(r) = 5
    BY <1>6, Times DEF Ghost
  <2>2. One(LaunchAt(r) > 5) = 0 /\ One(LaunchAt(r) > LaunchAt(SeamRound(q))) = 0
    BY <2>1, SeamTimes DEF One
  <2> QED BY <1>2, <1>3, <1>4, <1>6, <2>2 DEF Number
<1>7. CASE r \in Seams
  <2>1. One(LaunchAt(r) > 5) = 1 /\ One(LaunchAt(r) > LaunchAt(SeamRound(q))) = 0
    BY <1>2, <1>7, SeamTimes DEF One
  <2> QED BY <1>2, <1>3, <1>4, <1>7, <2>1 DEF Number
<1> QED BY <1>5, <1>6, <1>7 DEF Live, Seams

LEMMA MailNumbered ==
  ASSUME NEW r \in Live, NEW a, NEW c, NEW p, NEW t \in Nat \ {0}, Mail(r, a, c, p, t),
         r = "intra" <=> SamePanel(c, p)
  PROVE  Numbered(a, c, p, Number(r, t))
<1> SUFFICES ASSUME NEW s \in Live, NEW n \in Nat \ {0}, s = "intra" <=> SamePanel(c, p),
                    Number(r, t) = Number(s, n)
             PROVE  Mail(s, a, c, p, n)
  BY DEF Numbered
<1>1. (r = "intra" <=> s = "intra") /\ t = n /\ (r \in Seams <=> s \in Seams)
  BY NumbersApart
<1>2. Mail(r, a, c, p, t) = Mail(s, a, c, p, t)
  BY <1>1, SameMail
<1> QED BY <1>1, <1>2

LEMMA LaunchKeepsData ==
  ASSUME ControlInv, DataInv, NEW b \in Blocks, Launch(b)
  PROVE  DataInv'
<1> USE DEF ControlInv
<1>0. size \in Sizes
  BY DEF Types
<1>1. PICK r \in Rounds :
        /\ Doing(b, "launch", r) /\ Ready(b) /\ Delivered(b, r)
        /\ pc' = [c \in Blocks |-> IF c \in ProcessOf(b) THEN pc[c] + 1 ELSE pc[c]]
        /\ UNCHANGED <<size, u, outer, send_bufs, stage>>
  BY <1>0, LaunchIs
<1>2. /\ DOMAIN net' = Blocks /\ DOMAIN recv_bufs' = Blocks
      /\ size' = size /\ stage' = stage /\ u' = u /\ outer' = outer /\ send_bufs' = send_bufs
  BY <1>1 DEF Delivered
<1>3. /\ r \in Live
      /\ \A c \in ProcessOf(b) : Step(c) = LaunchAt(r) /\ stage[c] = stage[b]
  BY <1>1, TogetherAtLaunch
<1>4. /\ \A c \in Blocks : Step(c)' = IF c \in ProcessOf(b) THEN Step(c) + 1 ELSE Step(c)
      /\ \A c \in Blocks, o \in Offsets4 : Taken(c, o)' = Taken(c, o)
  BY <1>1, <1>2, ProcessSteps
<1>5. LaunchAt(r) \in {2, 5, 9, 10}
  BY <1>3, LaunchTimes
<1>6. Blocks' = Blocks /\ Live' = Live
  BY <1>2, Steady
<1>7. Domains'
  BY <1>2, <1>6 DEF DataInv, Domains
<1>8. ASSUME NEW c \in Blocks PROVE HasCells(c)'
  <2>1. /\ \A t : Own(c, t)' = Own(c, t) /\ OwnPanel(c, t)' = OwnPanel(c, t)
                  /\ Crossed(c, t)' = Crossed(c, t)
        /\ Corners(c)' = Corners(c)
    BY <1>2, KeptCells
  <2>2. /\ Step(c)' \in 1..13 => Step(c) \in 1..13
        /\ Step(c)' \in 4..13 => Step(c) \in 4..13
        /\ Step(c)' \in 7..13 => Step(c) \in 7..13
    BY <1>3, <1>4, <1>5
  <2>3. HasCells(c)
    BY DEF DataInv
  <2> QED BY <1>2, <2>1, <2>2, <2>3 DEF HasCells
<1>9. ASSUME NEW c \in Blocks, NEW o \in Offsets4 PROVE HasSeam(c, o)'
  <2>1. HasSeam(c, o)
    BY DEF DataInv
  <2>2. CASE c \in ProcessOf(b)
    <3>1. Step(c) \in {2, 5, 9, 10}
      BY <1>3, <1>5, <2>2
    <3>2. outer[c][o] = <<>>
      BY <2>1, <3>1 DEF HasSeam
    <3> QED BY <1>2, <3>2 DEF HasSeam
  <2>3. CASE c \notin ProcessOf(b)
    BY <1>2, <1>4, <2>1, <2>3, Steady, SteadyMail DEF HasSeam
  <2> QED BY <2>2, <2>3
<1>10. ASSUME NEW c \in Blocks, NEW s \in Live, NEW o \in Offsets4 PROVE Sends(c, s, o)'
  <2>1. Sends(c, s, o)
    BY DEF DataInv
  <2>2. PackAt(s) < Step(c)' /\ Step(c)' <= LaunchAt(s)
          => PackAt(s) < Step(c) /\ Step(c) <= LaunchAt(s)
    <3>1. PackAt(s) \in {1, 4, 7, 8} /\ LaunchAt(s) \in {2, 5, 9, 10}
      BY AllTimes
    <3> QED BY <1>3, <1>4, <1>5, <3>1
  <2> QED BY <1>2, <2>1, <2>2, Steady, SteadyMail DEF Sends
<1>11. ASSUME NEW c \in Blocks, NEW s \in Live, NEW p \in Offsets4 PROVE Receives(c, s, p)'
  <2> DEFINE m == Neighbor[c][p]
             q == Peer[c][p]
             n == SentIn(s, q)
  <2>1. /\ Local(c, p)' = Local(c, p) /\ Neighbor' = Neighbor /\ Peer' = Peer
        /\ Buffers(c, s)' = Buffers(c, s)
    BY <1>2, Steady
  <2>2. m \in Blocks /\ q \in Offsets4 /\ Neighbor[m][q] = c /\ Peer[m][q] = p
    BY <1>0, Plan
  <2>3. Receives(c, s, p)
    BY DEF DataInv
  <2>4. recv_bufs'[c][p] = IF c \in ProcessOf(b) /\ Arrives(b, r, c, p)
                           THEN send_bufs[m][q] ELSE recv_bufs[c][p]
    BY <1>1 DEF Delivered
  <2>5. Arrives(b, r, c, p) <=> m \in ProcessOf(b) /\ q \in Buffers(m, r)
    BY DEF Arrives
  <2>6. c \in Blocks /\ (Local(c, p) => (c \in ProcessOf(b) <=> m \in ProcessOf(b)))
    BY <1>0, <2>2, Mates DEF Local
  <2>7. p \in Buffers(c, s) =>
          /\ n \in Live /\ q \in Buffers(m, n)
          /\ s = "intra" <=> n = "intra"
          /\ s \in Seams <=> n \in Seams
    BY <1>0, OtherEnd
  <2> HIDE DEF m, q
  <2> SUFFICES ASSUME p \in Buffers(c, s), Local(c, p),
                      LaunchAt(n) < Step(c)', Step(c)' <= TakeAt(s)
               PROVE  Mail(s, recv_bufs'[c][p], c, p, stage[c])
    BY <1>2, <2>1, SteadyMail DEF Receives, q
  <2>8. CASE c \in ProcessOf(b)
    <3>1. LaunchAt(n) < LaunchAt(r) + 1 /\ LaunchAt(r) + 1 <= TakeAt(s)
      BY <1>3, <1>4, <2>8
    <3>2. CASE n = r
      <4>1. recv_bufs'[c][p] = send_bufs[m][q] /\ m \in ProcessOf(b)
        BY <2>4, <2>5, <2>6, <2>7, <2>8, <3>2
      <4>2. stage[m] = stage[c] /\ Step(m) = LaunchAt(r)
        BY <1>3, <2>8, <4>1
      <4>3. Sends(m, r, q) /\ PackAt(r) < LaunchAt(r) /\ LaunchAt(r) \in Int
        BY <1>3, <2>2, AllTimes DEF DataInv
      <4>4. Mail(r, send_bufs[m][q], c, p, stage[c])
        BY <2>2, <2>7, <3>2, <4>2, <4>3 DEF Sends
      <4>5. Mail(s, send_bufs[m][q], c, p, stage[c]) = Mail(r, send_bufs[m][q], c, p, stage[c])
        BY <1>3, <2>7, <3>2, SameMail
      <4> QED BY <4>1, <4>4, <4>5
    <3>3. CASE n # r
      <4>1. r = "x3" /\ n = "x2" /\ s \in Seams /\ LaunchAt(n) < LaunchAt(r)
        BY <1>3, <3>1, <3>3, LaunchOrder
      <4>2. q \notin Buffers(m, r)
        <5>1. q \in Buffers(m, "x2")
          BY <2>7, <4>1
        <5> QED BY <2>2, <4>1, <5>1, SideCases DEF Buffers
      <4>3. recv_bufs'[c][p] = recv_bufs[c][p]
        BY <2>4, <2>5, <4>2
      <4>4. Step(c) = LaunchAt(r) /\ LaunchAt(r) <= TakeAt(s)
        BY <1>3, <1>5, <2>8, <3>1, AllTimes
      <4> QED BY <2>3, <4>1, <4>3, <4>4 DEF Receives, n, q
    <3> QED BY <3>2, <3>3
  <2>9. CASE c \notin ProcessOf(b)
    BY <1>4, <2>3, <2>4, <2>9 DEF Receives, n, q
  <2> QED BY <2>8, <2>9
<1>12. ASSUME NEW c \in Blocks, NEW p \in Offsets4 PROVE Carries(c, p)'
  <2> DEFINE m == Neighbor[c][p]
             q == Peer[c][p]
  <2>1. Local(c, p)' = Local(c, p)
    BY <1>2, Steady
  <2>2. m \in Blocks /\ q \in Offsets4 /\ Neighbor[m][q] = c /\ Peer[m][q] = p
        /\ (SamePanel(m, q) <=> SamePanel(c, p))
    BY <1>0, Plan DEF SamePanel
  <2>3. Carries(c, p)
    BY DEF DataInv
  <2>4. net'[c][p] = IF c \notin ProcessOf(b) /\ Arrives(b, r, c, p)
                     THEN Append(net[c][p], send_bufs[m][q]) ELSE net[c][p]
    BY <1>1 DEF Delivered
  <2>5. Arrives(b, r, c, p) <=> m \in ProcessOf(b) /\ q \in Buffers(m, r)
    BY DEF Arrives
  <2>6. ~Local(c, p) => /\ IsSeq(net[c][p]) /\ Len(net[c][p]) = Sent(m, q) - Taken(c, p)
    BY DEF Channels, Channel
  <2>7. Sent(m, q) \in Int /\ Taken(c, p) \in Int
    BY <2>2, StepTypes DEF Sent, Taken, SentBy, TakenBy, One
  <2> HIDE DEF m, q
  <2>8. CASE c \notin ProcessOf(b) /\ Arrives(b, r, c, p) /\ ~Local(c, p)
    <3> DEFINE a == send_bufs[m][q]
               l == Len(net[c][p])
    <3>1. m \in ProcessOf(b) /\ q \in Buffers(m, r) /\ Step(m) = LaunchAt(r)
          /\ stage[m] \in Nat \ {0}
      BY <1>3, <2>2, <2>5, <2>8, StepTypes
    <3>2. Sends(m, r, q) /\ PackAt(r) < LaunchAt(r) /\ LaunchAt(r) \in Int
      BY <1>3, <2>2, AllTimes DEF DataInv
    <3>3. Mail(r, a, c, p, stage[m])
      BY <2>2, <3>1, <3>2 DEF Sends
    <3>4. r = "intra" <=> SamePanel(c, p)
      BY <1>0, <1>3, <2>2, <3>1, OtherEnd
    <3>5. Numbered(a, c, p, Number(r, stage[m]))
      BY <1>3, <3>1, <3>3, <3>4, MailNumbered
    <3>6. Number(r, stage[m]) = Taken(c, p) + (l + 1)
      <4>1. Sent(m, q) + 1 = Number(r, stage[m])
        BY <1>0, <1>3, <2>2, <3>1, SentNumber
      <4> QED BY <2>6, <2>7, <2>8, <4>1
    <3>7. /\ net'[c][p] = Append(net[c][p], a) /\ Len(net'[c][p]) = l + 1 /\ l \in Nat
          /\ \A i \in 1..l : net'[c][p][i] = net[c][p][i]
          /\ net'[c][p][l + 1] = a
      BY <2>4, <2>6, <2>8, Appended
    <3>8. \A i \in 1..l : Numbered(net[c][p][i], c, p, Taken(c, p) + i)
      BY <2>3, <2>8 DEF Carries
    <3> HIDE DEF a, l
    <3>9. \A i \in 1..(l + 1) : Numbered(net'[c][p][i], c, p, Taken(c, p) + i)
      BY <3>5, <3>6, <3>7, <3>8
    <3>10. \A i \in 1..Len(net'[c][p]) : Numbered(net'[c][p][i], c, p, Taken(c, p) + i)
      BY <3>7, <3>9
    <3>11. Taken(c, p)' = Taken(c, p)
      BY <1>4
    <3> QED BY <1>2, <2>1, <3>10, <3>11, SteadyMail DEF Carries
  <2>9. CASE ~(c \notin ProcessOf(b) /\ Arrives(b, r, c, p)) /\ ~Local(c, p)
    <3>1. net'[c][p] = net[c][p]
      BY <2>4, <2>9
    <3> QED BY <1>2, <1>4, <2>3, <3>1, Untouched
  <2>10. CASE Local(c, p)
    BY <2>1, <2>10 DEF Carries
  <2> QED BY <2>8, <2>9, <2>10
<1> QED BY <1>6, <1>7, <1>8, <1>9, <1>10, <1>11, <1>12 DEF DataInv

\* What both ways to take a round leave as it should be.
LEMMA TakeKeepsMail ==
  ASSUME ControlInv, DataInv, NEW b \in Blocks, NEW r \in Rounds, Takes(b, r)
  PROVE  /\ Step(b)' = Step(b) + 1
         /\ \A c \in Blocks : c # b => Step(c)' = Step(c)
         /\ \A s \in Live, o \in Offsets4 : Sends(b, s, o)'
         /\ \A s \in Live, o \in Offsets4 : Receives(b, s, o)'
         /\ \A c \in Blocks, o \in Offsets4 : Carries(c, o)'
<1> USE DEF ControlInv
<1>1. /\ r \in Live /\ Step(b) = TakeAt(r) /\ Step(b) \in {3, 6, 11, 12}
      /\ DOMAIN net' = Blocks
      /\ \A c \in Blocks : c # b => net'[c] = net[c]
      /\ \A o \in Offsets4 : net'[b][o] = IF o \in Buffers(b, r) /\ ~Local(b, o)
                                          THEN Tail(net[b][o]) ELSE net[b][o]
      /\ \A o \in Offsets4 : o \in Buffers(b, r) <=> Taking(Step(b), SamePanel(b, o), o)
      /\ \A o \in Offsets4 : o \in Buffers(b, r) /\ ~Local(b, o) => net[b][o] # <<>>
  BY TakeIs
<1>2. /\ size' = size /\ stage' = stage /\ NextStep(b)
      /\ send_bufs' = send_bufs /\ recv_bufs' = recv_bufs
  BY DEF Takes, bufs
<1>3. /\ Step(b)' = Step(b) + 1
      /\ \A c \in Blocks : c # b => Step(c)' = Step(c)
      /\ \A c \in Blocks, o \in Offsets4 :
           Taken(c, o)' = Taken(c, o) + One(c = b /\ Taking(Step(b), SamePanel(b, o), o))
  BY <1>1, <1>2, OneSteps
<1>4. ASSUME NEW s \in Live, NEW o \in Offsets4 PROVE Sends(b, s, o)'
  <2>1. Sends(b, s, o)
    BY DEF DataInv
  <2>2. PackAt(s) < Step(b)' /\ Step(b)' <= LaunchAt(s)
          => PackAt(s) < Step(b) /\ Step(b) <= LaunchAt(s)
    <3>1. PackAt(s) \in {1, 4, 7, 8} /\ LaunchAt(s) \in {2, 5, 9, 10}
      BY AllTimes
    <3> QED BY <1>1, <1>3, <3>1
  <2> QED BY <1>2, <2>1, <2>2, Steady, SteadyMail DEF Sends
<1>5. ASSUME NEW s \in Live, NEW o \in Offsets4 PROVE Receives(b, s, o)'
  <2> DEFINE l == LaunchAt(SentIn(s, Peer[b][o]))
  <2>1. Receives(b, s, o)
    BY DEF DataInv
  <2>2. l < Step(b)' /\ Step(b)' <= TakeAt(s) => l < Step(b) /\ Step(b) <= TakeAt(s)
    <3>1. l \in {2, 5, 9, 10} /\ TakeAt(s) \in {3, 6, 11, 12}
      BY SentTimes
    <3> QED BY <1>1, <1>3, <3>1
  <2> QED BY <1>2, <2>1, <2>2, Steady, SteadyMail DEF Receives
<1>6. ASSUME NEW c \in Blocks, NEW o \in Offsets4 PROVE Carries(c, o)'
  <2>1. Carries(c, o) /\ Channel(c, o)
    BY DEF DataInv, Channels
  <2>2. Taken(c, o) \in Int
    BY StepTypes DEF Taken, TakenBy, One
  <2>3. Local(c, o)' = Local(c, o)
    BY <1>2, Steady
  <2>4. CASE c = b /\ o \in Buffers(b, r) /\ ~Local(b, o)
    <3> DEFINE s == net[b][o]
               n == Taken(b, o)
    <3>1. net'[b][o] = Tail(s) /\ s # <<>> /\ IsSeq(s)
      BY <1>1, <2>1, <2>4 DEF Channel
    <3>2. Taken(b, o)' = n + 1
      BY <1>1, <1>3, <2>4 DEF One
    <3>3. /\ Len(Tail(s)) = Len(s) - 1 /\ Len(s) \in Nat \ {0}
          /\ \A i \in 1..(Len(s) - 1) : Tail(s)[i] = s[i + 1]
      BY <3>1, TakenOff
    <3>4. \A i \in 1..Len(s) : Numbered(s[i], b, o, n + i)
      BY <2>1, <2>4 DEF Carries
    <3>5. n \in Int
      BY <2>2, <2>4
    <3> HIDE DEF s, n
    <3>6. ASSUME NEW i \in 1..Len(Tail(s)) PROVE Numbered(Tail(s)[i], b, o, n + 1 + i)
      <4>1. i + 1 \in 1..Len(s) /\ n + (i + 1) = n + 1 + i /\ i \in 1..(Len(s) - 1)
        BY <3>3, <3>5
      <4> QED BY <3>3, <3>4, <4>1
    <3>7. \A i \in 1..Len(net'[b][o]) : Numbered(net'[b][o][i], b, o, Taken(b, o)' + i)
      BY <3>1, <3>2, <3>6
    <3> QED BY <1>2, <2>3, <2>4, <3>7, SteadyMail DEF Carries
  <2>5. CASE ~(c = b /\ o \in Buffers(b, r)) /\ ~Local(c, o)
    <3>1. net'[c][o] = net[c][o]
      BY <1>1, <2>5
    <3>2. Taken(c, o)' = Taken(c, o)
      BY <1>1, <1>3, <2>2, <2>5 DEF One
    <3> QED BY <1>2, <2>1, <3>1, <3>2, Untouched
  <2>6. CASE Local(c, o)
    BY <2>3, <2>6 DEF Carries
  <2> QED BY <2>4, <2>5, <2>6
<1> QED BY <1>3, <1>4, <1>5, <1>6

LEMMA GhostsKeepData ==
  ASSUME ControlInv, DataInv, NEW b \in Blocks, TakeGhosts(b)
  PROVE  DataInv'
<1>1. PICK r \in Rounds : /\ Takes(b, r) /\ r \notin Seams /\ DOMAIN u' = DOMAIN u
                          /\ UNCHANGED <<size, outer, bufs, stage>>
  BY DEF TakeGhosts, Takes, At
<1>2. /\ size' = size /\ stage' = stage /\ outer' = outer
      /\ send_bufs' = send_bufs /\ recv_bufs' = recv_bufs
  BY <1>1 DEF bufs
<1>3. HasCells(b)' /\ \A c \in Blocks : c # b => u'[c] = u[c]
  BY TakeHasCells
<1>4. /\ Step(b)' = Step(b) + 1
      /\ \A c \in Blocks : c # b => Step(c)' = Step(c)
      /\ \A s \in Live, o \in Offsets4 : Sends(b, s, o)'
      /\ \A s \in Live, o \in Offsets4 : Receives(b, s, o)'
      /\ \A c \in Blocks, o \in Offsets4 : Carries(c, o)'
  BY <1>1, TakeKeepsMail
<1>5. Step(b) \in {3, 6}
  <2>1. r \in Live /\ Step(b) = TakeAt(r)
    BY <1>1, TakeIs DEF ControlInv
  <2> QED BY <1>1, <2>1, AllTimes DEF Seams
<1>6. ASSUME NEW o \in Offsets4 PROVE HasSeam(b, o)'
  <2>1. HasSeam(b, o)
    BY DEF DataInv
  <2>2. outer[b][o] = <<>>
    BY <1>5, <2>1 DEF HasSeam
  <2> QED BY <1>2, <2>2 DEF HasSeam
<1>7. \A c \in Blocks : c # b => Unmoved(c)
  BY <1>2, <1>3, <1>4 DEF Unmoved
<1>8. Domains'
  BY <1>1, <1>2, Steady DEF DataInv, Domains
<1> QED BY <1>2, <1>3, <1>4, <1>6, <1>7, <1>8, OneMoves

Unpacked(b, o, a) ==
  [j \in 0..(Width - 1) |->
     TurnAll(CartToLocal, b[3], IF o[1] # 0 THEN a.at[<<0, j>>] ELSE a.at[<<j, 0>>])]

\* A state that came across a seam, in the components of this panel.
LEMMA SeamArrives ==
  ASSUME size \in Sizes, NEW b \in Blocks, NEW o \in Offsets4, NEW t, NEW a,
         SeamMail(a, b, o, t)
  PROVE  Unpacked(b, o, a) = OuterSeam(b, o, t)
<1> SUFFICES ASSUME NEW j \in 0..(Width - 1)
             PROVE  TurnAll(CartToLocal, b[3],
                            IF o[1] # 0 THEN a.at[<<0, j>>] ELSE a.at[<<j, 0>>])
                      = FromBeside(b, o, 1, Origin(b, o) + j, t, Here(b[3]))
  BY DEF OuterSeam, Unpacked
<1> DEFINE x == Beside(Span, b[3], GetSide(o), 1, Origin(b, o) + j)
           e == IF o[1] # 0 THEN a.at[<<0, j>>] ELSE a.at[<<j, 0>>]
<1>1. Index(GetSide(o), 0, j) = IF o[1] # 0 THEN <<0, j>> ELSE <<j, 0>>
  BY SideCases DEF Index
<1>2. e = {<<x, t, Cart>>}
  <2>1. a.at[Index(GetSide(o), 0, j)] = {<<x, t, Cart>>}
    BY DEF SeamMail, FromBeside
  <2> HIDE DEF x
  <2> QED BY <1>1, <2>1
<1> HIDE DEF x
<1>3. TurnsOne(CartToLocal, b[3], x, t, Cart)
  BY TurnedOne
<1>4. Turn(CartToLocal, b[3], Cart) = Here(b[3])
  BY BlockTypes, TurnedBothWays
<1>5. TurnAll(CartToLocal, b[3], e) = {<<x, t, Here(b[3])>>}
  BY <1>2, <1>3, <1>4 DEF TurnsOne
<1>6. FromBeside(b, o, 1, Origin(b, o) + j, t, Here(b[3])) = {<<x, t, Here(b[3])>>}
  BY DEF FromBeside, x
<1> QED BY <1>5, <1>6

LEMMA SeamKeepsData ==
  ASSUME ControlInv, DataInv, NEW b \in Blocks, TakeSeam(b)
  PROVE  DataInv'
<1>1. PICK r \in Rounds :
        /\ Takes(b, r) /\ r \in Seams
        /\ outer' = [outer EXCEPT ![b] = [o \in Offsets4 |->
             IF o \notin Buffers(b, r) THEN @[o]
             ELSE LET a == Received(b, o) IN
                  [j \in 0..(Width - 1) |->
                     TurnAll(CartToLocal, b[3],
                             IF o[1] # 0 THEN a.at[<<0, j>>] ELSE a.at[<<j, 0>>])]]]
        /\ UNCHANGED <<size, u, bufs, stage>>
  BY DEF TakeSeam, Takes, At, Seams, Rounds
<1>2. /\ size' = size /\ stage' = stage /\ u' = u
      /\ send_bufs' = send_bufs /\ recv_bufs' = recv_bufs
      /\ size \in Sizes /\ DOMAIN outer = Blocks
  BY <1>1 DEF bufs, ControlInv, Types, DataInv, Domains
<1>3. /\ Step(b)' = Step(b) + 1
      /\ \A c \in Blocks : c # b => Step(c)' = Step(c)
      /\ \A s \in Live, o \in Offsets4 : Sends(b, s, o)'
      /\ \A s \in Live, o \in Offsets4 : Receives(b, s, o)'
      /\ \A c \in Blocks, o \in Offsets4 : Carries(c, o)'
  BY <1>1, TakeKeepsMail
<1>4. Step(b) \in {11, 12} /\ r \in Live
  <2>1. r \in Live /\ Step(b) = TakeAt(r)
    BY <1>1, TakeIs DEF ControlInv
  <2> QED BY <1>1, <2>1, Times DEF Seams
<1>5. HasCells(b)'
  <2>1. /\ Own(b, stage[b])' = Own(b, stage[b]) /\ OwnPanel(b, stage[b])' = OwnPanel(b, stage[b])
        /\ Crossed(b, stage[b])' = Crossed(b, stage[b]) /\ Corners(b)' = Corners(b)
    BY <1>2, KeptCells
  <2>2. HasCells(b)
    BY DEF DataInv
  <2> QED BY <1>2, <1>3, <1>4, <2>1, <2>2 DEF HasCells
<1>6. ASSUME NEW o \in Offsets4 PROVE HasSeam(b, o)'
  <2>1. HasSeam(b, o)
    BY DEF DataInv
  <2>2. Step(b)' \in 12..13
    BY <1>3, <1>4
  <2>3. CASE o \in Buffers(b, r)
    <3>1. ~SamePanel(b, o)
      BY <1>1, <2>3 DEF Buffers, Seams
    <3>2. SeamMail(Received(b, o), b, o, stage[b])
      <4>1. Mail(r, Received(b, o), b, o, stage[b])
        BY <1>1, <2>3, TakesMail
      <4>2. r # "intra"
        BY <1>1 DEF Seams
      <4> QED BY <1>1, <4>1, <4>2 DEF Mail
    <3> DEFINE a == Received(b, o)
    <3>3. outer'[b][o] = Unpacked(b, o, a)
      BY <1>1, <1>2, <2>3 DEF Unpacked
    <3> HIDE DEF a
    <3>4. outer'[b][o] = OuterSeam(b, o, stage[b])
      BY <1>2, <3>2, <3>3, SeamArrives DEF a
    <3> QED BY <1>2, <2>2, <3>1, <3>4, Steady, SteadyMail DEF HasSeam
  <2>4. CASE o \notin Buffers(b, r)
    <3>1. outer'[b][o] = outer[b][o]
      BY <1>1, <1>2, <2>4
    <3> QED BY <1>2, <2>1, <2>2, <3>1, Steady, SteadyMail DEF HasSeam
  <2> QED BY <2>3, <2>4
<1>7. \A c \in Blocks : c # b => outer'[c] = outer[c]
  BY <1>1, <1>2
<1>8. \A c \in Blocks : c # b => Unmoved(c)
  BY <1>2, <1>3, <1>7 DEF Unmoved
<1>9. Domains'
  BY <1>1, <1>2, Steady DEF DataInv, Domains
<1> QED BY <1>2, <1>3, <1>5, <1>6, <1>8, <1>9, OneMoves

LEMMA AdvanceKeepsData ==
  ASSUME ControlInv, DataInv, NEW b \in Blocks, AdvanceLocal(b)
  PROVE  DataInv'
<1>1. /\ size' = size /\ size \in Sizes /\ net' = net /\ DOMAIN u = Blocks /\ DOMAIN outer = Blocks
      /\ send_bufs' = send_bufs /\ recv_bufs' = recv_bufs
  BY DEF AdvanceLocal, bufs, ControlInv, Types, DataInv, Domains
<1>2. /\ u' = [u EXCEPT ![b] = [c \in Cells |->
             IF InBlock(c) THEN Computed(b, c, stage[b] + 1) ELSE @[c]]]
      /\ outer' = [outer EXCEPT ![b] = [o \in Offsets4 |-> <<>>]]
  BY DEF AdvanceLocal
<1>3. /\ Step(b)' \in {FirstStep, 14}
      /\ Step(b)' # 14 => stage[b]' = stage[b] + 1
      /\ \A c \in Blocks : c # b => Step(c)' = Step(c) /\ stage[c]' = stage[c]
      /\ \A c \in Blocks, o \in Offsets4 : Taken(c, o)' = Taken(c, o)
  BY StageSteps DEF ControlInv
<1>4. FirstStep = (IF Pxy > 1 THEN 1 ELSE 4) /\ Step(b)' \in {1, 4, 14}
  BY <1>3 DEF FirstStep
<1>5. HasCells(b)'
  <2>1. CASE Step(b)' = 14
    BY <2>1 DEF HasCells
  <2>2. CASE Step(b)' # 14
    <3>1. stage'[b] = stage[b] + 1 /\ Step(b)' = FirstStep
      BY <1>3, <2>2
    <3>2. \A c \in Cells : InBlock(c) => u'[b][c] = Computed(b, c, stage[b] + 1)
      BY <1>1, <1>2
    <3>3. Own(b, stage[b])'
      BY <1>1, <3>1, <3>2, SteadyMail DEF Own
    <3>4. Step(b)' \in 4..13 => OwnPanel(b, stage[b])'
      <4> SUFFICES ASSUME Step(b)' \in 4..13 PROVE OwnPanel(b, stage[b])'
        OBVIOUS
      <4>1. ~(Pxy > 1)
        BY <1>4, <3>1
      <4>2. \A c \in Cells : ~Within4(b, c)
        BY <1>1, <4>1, OnePanel DEF Within4
      <4> QED BY <1>1, <4>2, SteadyMail DEF OwnPanel
    <3>5. Step(b)' \notin 7..13
      BY <1>4
    <3> QED BY <3>3, <3>4, <3>5 DEF HasCells
  <2> QED BY <2>1, <2>2
<1>6. ASSUME NEW o \in Offsets4 PROVE HasSeam(b, o)'
  <2>1. outer'[b][o] = <<>>
    BY <1>1, <1>2
  <2> QED BY <2>1 DEF HasSeam
<1>7. ASSUME NEW s \in Live, NEW o \in Offsets4 PROVE Sends(b, s, o)'
  <2>1. ~(PackAt(s) < Step(b)' /\ Step(b)' <= LaunchAt(s))
    BY <1>4, AllTimes
  <2> QED BY <2>1 DEF Sends
<1>8. ASSUME NEW s \in Live, NEW o \in Offsets4 PROVE Receives(b, s, o)'
  <2>1. ~(LaunchAt(SentIn(s, Peer[b][o])) < Step(b)' /\ Step(b)' <= TakeAt(s))
    BY <1>4, SentTimes
  <2> QED BY <1>1, <2>1, Steady DEF Receives
<1>9. ASSUME NEW c \in Blocks, NEW o \in Offsets4 PROVE Carries(c, o)'
  <2>1. Carries(c, o)
    BY DEF DataInv
  <2> QED BY <1>1, <1>3, <2>1, Untouched
<1>10. \A c \in Blocks : c # b => Unmoved(c)
  BY <1>1, <1>2, <1>3 DEF Unmoved
<1>11. Domains'
  BY <1>1, <1>2, Steady DEF DataInv, Domains
<1> QED BY <1>1, <1>5, <1>6, <1>7, <1>8, <1>9, <1>10, <1>11, OneMoves

LEMMA DataStutters ==
  ASSUME DataInv, UNCHANGED vars
  PROVE  DataInv'
<1>1. /\ size' = size /\ u' = u /\ outer' = outer /\ send_bufs' = send_bufs
      /\ recv_bufs' = recv_bufs /\ net' = net /\ pc' = pc /\ stage' = stage
  BY DEF vars, bufs
<1>2. \A c : Step(c)' = Step(c)
  BY <1>1, Steady DEF Step
<1>3. \A c : Unmoved(c)
  BY <1>1, <1>2 DEF Unmoved
<1>4. \A c, o : Taken(c, o)' = Taken(c, o)
  BY <1>1, <1>2, Steady DEF Taken
<1>5. Blocks' = Blocks /\ Live' = Live
  BY <1>1, Steady
<1>6. Domains'
  BY <1>1, <1>5 DEF DataInv, Domains
<1>7. \A c \in Blocks : HasCells(c)'
  BY <1>1, <1>3, Unmoving DEF DataInv
<1>8. \A c \in Blocks, o \in Offsets4 : HasSeam(c, o)'
  BY <1>1, <1>3, Unmoving DEF DataInv
<1>9. \A c \in Blocks, r \in Live, o \in Offsets4 : Sends(c, r, o)' /\ Receives(c, r, o)'
  BY <1>1, <1>3, Unmoving DEF DataInv
<1>10. \A c \in Blocks, o \in Offsets4 : Carries(c, o)'
  BY <1>1, <1>4, Untouched DEF DataInv
<1> QED BY <1>5, <1>6, <1>7, <1>8, <1>9, <1>10 DEF DataInv

LEMMA DataStarts ==
  ASSUME Init
  PROVE  DataInv
<1>1. size \in Sizes
  BY DEF Init
<1>2. /\ u = [b \in Blocks |-> [c \in Cells |->
               IF InBlock(c) THEN Computed(b, c, 1) ELSE Unset]]
      /\ outer = [b \in Blocks |-> [o \in Offsets4 |-> <<>>]]
      /\ DOMAIN send_bufs = Blocks /\ DOMAIN recv_bufs = Blocks
      /\ net = [b \in Blocks |-> [o \in Offsets4 |-> <<>>]]
      /\ pc = [b \in Blocks |-> 1] /\ stage = [b \in Blocks |-> 1]
  BY DEF Init
<1>3. FirstStep = (IF Pxy > 1 THEN 1 ELSE 4)
  BY DEF FirstStep
<1>4. \A b \in Blocks : Step(b) = FirstStep /\ stage[b] = 1
  BY <1>2 DEF Step, FirstStep
<1>5. ASSUME NEW b \in Blocks PROVE HasCells(b)
  <2>1. Own(b, 1)
    BY <1>2 DEF Own
  <2>2. Step(b) \in 4..13 => OwnPanel(b, 1)
    <3> SUFFICES ASSUME Step(b) \in 4..13 PROVE OwnPanel(b, 1)
      OBVIOUS
    <3>1. ~(Pxy > 1)
      BY <1>3, <1>4
    <3> QED BY <1>1, <3>1, OnePanel DEF OwnPanel, Within4
  <2>3. Step(b) \notin 7..13
    BY <1>3, <1>4
  <2> QED BY <1>4, <2>1, <2>2, <2>3 DEF HasCells
<1>6. ASSUME NEW b \in Blocks, NEW o \in Offsets4 PROVE HasSeam(b, o)
  BY <1>2 DEF HasSeam
<1>7. ASSUME NEW b \in Blocks, NEW s \in Live, NEW o \in Offsets4
      PROVE  Sends(b, s, o) /\ Receives(b, s, o)
  <2>1. ~(PackAt(s) < Step(b) /\ Step(b) <= LaunchAt(s))
    BY <1>3, <1>4, AllTimes
  <2>2. ~(LaunchAt(SentIn(s, Peer[b][o])) < Step(b) /\ Step(b) <= TakeAt(s))
    BY <1>3, <1>4, SentTimes
  <2> QED BY <2>1, <2>2 DEF Sends, Receives
<1>8. ASSUME NEW b \in Blocks, NEW o \in Offsets4 PROVE Carries(b, o)
  <2>1. net[b][o] = <<>> /\ Len(<<>>) = 0
    BY <1>2
  <2> QED BY <2>1 DEF Carries
<1> QED BY <1>2, <1>5, <1>6, <1>7, <1>8 DEF DataInv, Domains

LEMMA DataHolds ==
  Spec => [](ControlInv /\ DataInv)
<1>1. Init => DataInv
  BY DataStarts
<1>2. ControlInv /\ DataInv /\ [Next]_vars => DataInv'
  <2> SUFFICES ASSUME ControlInv, DataInv, [Next]_vars
               PROVE  DataInv'
    OBVIOUS
  <2>1. ASSUME NEW b \in Blocks, Pack(b) PROVE DataInv'
    BY <2>1, PackKeepsData
  <2>2. ASSUME NEW b \in Blocks, Launch(b) PROVE DataInv'
    BY <2>2, LaunchKeepsData
  <2>3. ASSUME NEW b \in Blocks, TakeGhosts(b) PROVE DataInv'
    BY <2>3, GhostsKeepData
  <2>4. ASSUME NEW b \in Blocks, TakeSeam(b) PROVE DataInv'
    BY <2>4, SeamKeepsData
  <2>5. ASSUME NEW b \in Blocks, AdvanceLocal(b) PROVE DataInv'
    BY <2>5, AdvanceKeepsData
  <2>6. CASE UNCHANGED vars
    BY <2>6, DataStutters
  <2>7. CASE Next
    BY <2>1, <2>2, <2>3, <2>4, <2>5, <2>6, <2>7 DEF Next, Block, Terminated
  <2> QED BY <2>6, <2>7
<1> QED BY <1>1, <1>2, ControlHolds, PTL DEF Spec

-----------------------------------------------------------------------------
(* The promises of the exchange.                                           *)

LEMMA SyncedSteps ==
  ASSUME Types, NEW b \in Blocks, Synced(b)
  PROVE  Step(b) \in 7..13
<1>1. Program[pc[b]] = Advance => Step(b) = 13
  BY StepTypes, LastTasks
<1>2. ASSUME NEW r \in Seams, Doing(b, "pack", r) \/ Doing(b, "launch", r) \/ Doing(b, "take", r)
      PROVE  Step(b) \in 7..13
  <2>1. r \in Rounds /\ r \in {"x2", "x3"}
    BY DEF Seams, Rounds
  <2>2. Step(b) = PackAt(r) \/ Step(b) = LaunchAt(r) \/ Step(b) = TakeAt(r)
    BY <1>2, <2>1, StepTypes, Tasks
  <2> QED BY <2>1, <2>2, Times
<1> QED BY <1>1, <1>2 DEF Synced

\* At which edges a block ends its panel.
LEMMA EdgesOfPanel ==
  ASSUME size \in Sizes, NEW b \in Blocks, NEW o \in Offsets4
  PROVE  /\ GetSide(o) = 0 => (SamePanel(b, o) <=> b[1] # 0)
         /\ GetSide(o) = 1 => (SamePanel(b, o) <=> b[1] # Pxy - 1)
         /\ GetSide(o) = 2 => (SamePanel(b, o) <=> b[2] # 0)
         /\ GetSide(o) = 3 => (SamePanel(b, o) <=> b[2] # Pxy - 1)
<1>1. /\ b[1] \in 0..(Pxy - 1) /\ b[2] \in 0..(Pxy - 1) /\ b[3] \in Faces /\ Pxy \in Nat
  BY BlockTypes, SizeTypes
<1>2. SamePanel(b, o) <=> Ahead(b, o) \in Places(Pxy)
  BY Plan
<1>3. Ahead(b, o) \in Places(Pxy) <=> /\ b[1] + o[2] \in 0..(Pxy - 1)
                                      /\ b[2] + o[1] \in 0..(Pxy - 1)
  BY <1>1 DEF Ahead, Places
<1> QED BY <1>1, <1>2, <1>3, SideCases

Column(b, x) == b[1] * Width + x
Row(b, y) == b[2] * Width + y

\* Where the ghost cells lie beside the panel.
LEMMA OnTheSheet ==
  ASSUME size \in Sizes, NEW b \in Blocks, NEW o \in Offsets4, NEW d \in 1..Nghost,
         NEW k \in 0..(Width - 1)
  PROVE  LET c == OuterCell(o, d, k)
             x == Column(b, c[1])
             y == Row(b, c[2])
             a == Origin(b, o) + k
         IN /\ <<x, y>> \in Sheet(size)
            /\ SamePanel(b, o) => x \in 0..(Span - 1) /\ y \in 0..(Span - 1)
            /\ ~SamePanel(b, o) /\ GetSide(o) = 0 => x = -d /\ y = a
            /\ ~SamePanel(b, o) /\ GetSide(o) = 1 => x = Span - 1 + d /\ y = a
            /\ ~SamePanel(b, o) /\ GetSide(o) = 2 => x = a /\ y = -d
            /\ ~SamePanel(b, o) /\ GetSide(o) = 3 => x = a /\ y = Span - 1 + d
            /\ a \in 0..(Span - 1)
<1> DEFINE i == b[1]
           j == b[2]
           s == GetSide(o)
           c == OuterCell(o, d, k)
           a == Origin(b, o) + k
<1>1. /\ Width \in Nat /\ Width > 1 /\ Nghost \in 1..Width /\ Pxy \in 1..4
      /\ i \in 0..(Pxy - 1) /\ j \in 0..(Pxy - 1)
  BY SizeTypes, BlockTypes
<1>2. /\ d \in Int /\ k \in Int /\ -Width <= -d /\ -d < 0 /\ Width + d - 1 >= Width
      /\ Width + d - 1 < 2 * Width /\ -Width <= k /\ k < 2 * Width
      /\ -d \in Int /\ Width + d - 1 \in Int
  BY <1>1
<1>3. Span = Pxy * Width /\ Span \in Nat
  BY <1>1 DEF Span
<1> HIDE DEF i, j, s, c
<1>4. ASSUME NEW l \in 0..(Pxy - 1)
      PROVE  /\ l * Width \in Nat /\ l * Width + k \in 0..(Span - 1)
             /\ l * Width <= Span - Width
             /\ l = 0 => l * Width = 0
             /\ l = Pxy - 1 => l * Width = Span - Width
             /\ l # 0 => l * Width - d \in 0..(Span - 1)
             /\ l # Pxy - 1 => l * Width + (Width + d - 1) \in 0..(Span - 1)
  <2>1. /\ l * Width \in Nat /\ (l = 0 => l * Width = 0)
        /\ (l = Pxy - 1 => l * Width = Pxy * Width - Width)
        /\ l * Width + k \in 0..(Pxy * Width - 1)
    BY <1>1, <1>2, Strides
  <2>2. l # 0 => l * Width + (-d) \in 0..(Pxy * Width - 1)
    <3> DEFINE n == -d
    <3>1. n \in Int /\ -Width <= n /\ n < 2 * Width /\ n < 0 /\ n = -d
      BY <1>1, <1>2
    <3> HIDE DEF n
    <3>2. l # 0 => l * Width + n \in 0..(Pxy * Width - 1)
      BY <1>1, <3>1, Strides
    <3> QED BY <3>1, <3>2
  <2>3. l # Pxy - 1 => l * Width + (Width + d - 1) \in 0..(Pxy * Width - 1)
    <3> DEFINE n == Width + d - 1
    <3>1. n \in Int /\ -Width <= n /\ n < 2 * Width /\ n >= Width
      BY <1>1, <1>2
    <3> HIDE DEF n
    <3>2. l # Pxy - 1 => l * Width + n \in 0..(Pxy * Width - 1)
      BY <1>1, <3>1, Strides
    <3> QED BY <3>2 DEF n
  <2>4. l * Width + (Width - 1) \in 0..(Pxy * Width - 1)
    <3> DEFINE n == Width - 1
    <3>1. n \in Int /\ -Width <= n /\ n < 2 * Width /\ n \in 0..(Width - 1)
      BY <1>1
    <3> HIDE DEF n
    <3>2. l * Width + n \in 0..(Pxy * Width - 1)
      BY <1>1, <3>1, Strides
    <3> QED BY <3>2 DEF n
  <2> DEFINE z == l * Width
             n == Pxy * Width
  <2> HIDE DEF z, n
  <2>5. z \in Nat /\ n \in Nat /\ Span = n
    BY <1>3, <2>1 DEF z, n
  <2>6. z + (Width - 1) \in 0..(n - 1) /\ z + k \in 0..(n - 1)
    BY <2>1, <2>4 DEF z, n
  <2>7. /\ (l = 0 => z = 0) /\ (l = Pxy - 1 => z = n - Width)
        /\ l # 0 => z + (-d) \in 0..(n - 1)
        /\ l # Pxy - 1 => z + (Width + d - 1) \in 0..(n - 1)
    BY <2>1, <2>2, <2>3 DEF z, n
  <2>8. /\ z \in Nat /\ z + k \in 0..(Span - 1) /\ z <= Span - Width
        /\ l = 0 => z = 0
        /\ l = Pxy - 1 => z = Span - Width
        /\ l # 0 => z - d \in 0..(Span - 1)
        /\ l # Pxy - 1 => z + (Width + d - 1) \in 0..(Span - 1)
    BY <1>1, <1>2, <2>5, <2>6, <2>7
  <2> QED BY <2>8 DEF z
<1>5. /\ s < 2 => Origin(b, o) = j * Width
      /\ ~(s < 2) => Origin(b, o) = i * Width
  BY SideCases DEF Origin, Pos, i, j, s
<1>6. /\ s = 0 => (SamePanel(b, o) <=> i # 0)
      /\ s = 1 => (SamePanel(b, o) <=> i # Pxy - 1)
      /\ s = 2 => (SamePanel(b, o) <=> j # 0)
      /\ s = 3 => (SamePanel(b, o) <=> j # Pxy - 1)
  BY EdgesOfPanel DEF i, j, s
<1>7. /\ s = 0 => c[1] = -d /\ c[2] = k
      /\ s = 1 => c[1] = Width + d - 1 /\ c[2] = k
      /\ s = 2 => c[1] = k /\ c[2] = -d
      /\ s = 3 => c[1] = k /\ c[2] = Width + d - 1
  BY InnerCells DEF c, s
<1>8. s \in {0, 1, 2, 3}
  BY SideCases DEF s
<1> DEFINE xx == i * Width
           yy == j * Width
<1>9. /\ xx \in Nat /\ xx + k \in 0..(Span - 1) /\ xx <= Span - Width
      /\ i = 0 => xx = 0
      /\ i = Pxy - 1 => xx = Span - Width
      /\ i # 0 => xx - d \in 0..(Span - 1)
      /\ i # Pxy - 1 => xx + (Width + d - 1) \in 0..(Span - 1)
  BY <1>1, <1>4
<1>10. /\ yy \in Nat /\ yy + k \in 0..(Span - 1) /\ yy <= Span - Width
       /\ j = 0 => yy = 0
       /\ j = Pxy - 1 => yy = Span - Width
       /\ j # 0 => yy - d \in 0..(Span - 1)
       /\ j # Pxy - 1 => yy + (Width + d - 1) \in 0..(Span - 1)
  BY <1>1, <1>4
<1>11. /\ Column(b, c[1]) = xx + c[1] /\ Row(b, c[2]) = yy + c[2]
       /\ s < 2 => a = yy + k
       /\ ~(s < 2) => a = xx + k
  BY <1>5 DEF Column, Row, i, j
<1> HIDE DEF xx, yy, a
<1> DEFINE x == Column(b, c[1])
           y == Row(b, c[2])
<1>12. /\ SamePanel(b, o) => x \in 0..(Span - 1) /\ y \in 0..(Span - 1)
       /\ ~SamePanel(b, o) /\ s = 0 => x = -d /\ y = a
       /\ ~SamePanel(b, o) /\ s = 1 => x = Span - 1 + d /\ y = a
       /\ ~SamePanel(b, o) /\ s = 2 => x = a /\ y = -d
       /\ ~SamePanel(b, o) /\ s = 3 => x = a /\ y = Span - 1 + d
       /\ a \in 0..(Span - 1)
       /\ x \in (-Nghost)..(Span + Nghost - 1) /\ y \in (-Nghost)..(Span + Nghost - 1)
  <2>1. CASE s = 0
    BY <1>1, <1>2, <1>3, <1>6, <1>7, <1>9, <1>10, <1>11, <2>1
  <2>2. CASE s = 1
    BY <1>1, <1>2, <1>3, <1>6, <1>7, <1>9, <1>10, <1>11, <2>2
  <2>3. CASE s = 2
    BY <1>1, <1>2, <1>3, <1>6, <1>7, <1>9, <1>10, <1>11, <2>3
  <2>4. CASE s = 3
    BY <1>1, <1>2, <1>3, <1>6, <1>7, <1>9, <1>10, <1>11, <2>4
  <2> QED BY <1>8, <2>1, <2>2, <2>3, <2>4
<1>13. <<x, y>> \in Sheet(size)
  <2>1. Sheet(size) = ((-Nghost)..(Span + Nghost - 1)) \X ((-Nghost)..(Span + Nghost - 1))
    BY DEF Sheet, Span, Pxy, Width, Nghost
  <2> HIDE DEF x, y
  <2> QED BY <1>12, <2>1
<1> QED BY <1>12, <1>13 DEF x, y, c, s, a

LEMMA Wider ==
  ASSUME size \in Sizes
  PROVE  Span \in Nat /\ Span > 1 /\ Width <= Span
<1>1. Pxy \in 1..4 /\ Width \in Nat /\ Width > 1
  BY SizeTypes
<1>2. CASE Pxy = 1
  BY <1>1, <1>2 DEF Span
<1>3. CASE Pxy = 2
  BY <1>1, <1>3 DEF Span
<1>4. CASE Pxy = 3
  BY <1>1, <1>4 DEF Span
<1>5. CASE Pxy = 4
  BY <1>1, <1>5 DEF Span
<1> QED BY <1>1, <1>2, <1>3, <1>4, <1>5

LEMMA BesideCells ==
  ASSUME size \in Sizes, NEW b \in Blocks, NEW o \in Offsets4, NEW d \in 1..Nghost,
         NEW j \in 0..(Span - 1)
  PROVE  LET x == Beside(Span, b[3], GetSide(o), d, j)
         IN /\ GetSide(o) = 0 => CellAt(b[3], Span, -d, j) = x
            /\ GetSide(o) = 1 => CellAt(b[3], Span, Span - 1 + d, j) = x
            /\ GetSide(o) = 2 => CellAt(b[3], Span, j, -d) = x
            /\ GetSide(o) = 3 => CellAt(b[3], Span, j, Span - 1 + d) = x
<1> DEFINE n == Span
           f == b[3]
<1>1. /\ n \in Nat /\ n > 1 /\ d \in 1..n /\ f \in Faces /\ j \in 0..(n - 1)
  BY Wider, SizeTypes, BlockTypes
<1> HIDE DEF n, f
<1>2. /\ CellAt(f, n, -d, j) = Beside(n, f, 0, d, j)
      /\ CellAt(f, n, n - 1 + d, j) = Beside(n, f, 1, d, j)
      /\ CellAt(f, n, j, -d) = Beside(n, f, 2, d, j)
      /\ CellAt(f, n, j, n - 1 + d) = Beside(n, f, 3, d, j)
  BY <1>1, TableIsGeometry
<1> QED BY <1>2 DEF n, f

\* The cells of the sphere a ghost cell is to be computed from.
OnSphere(b, c) == Expected(b[3], Span, Column(b, c[1]), Row(b, c[2]))

LEMMA ExpectedInside ==
  ASSUME size \in Sizes, NEW b \in Blocks, NEW o \in Offsets4, SamePanel(b, o),
         NEW d \in 1..Nghost, NEW k \in 0..(Width - 1)
  PROVE  OnSphere(b, OuterCell(o, d, k)) = {Inside(b, OuterCell(o, d, k))}
<1> DEFINE c == OuterCell(o, d, k)
           x == Column(b, c[1])
           y == Row(b, c[2])
<1>1. x \in 0..(Span - 1) /\ y \in 0..(Span - 1)
  BY OnTheSheet
<1>2. Inside(b, c) = <<b[3], x, y>>
  BY DEF Inside, Column, Row
<1> HIDE DEF c, x, y
<1>3. Expected(b[3], Span, x, y) = {<<b[3], x, y>>}
  BY <1>1 DEF Expected
<1> QED BY <1>2, <1>3 DEF OnSphere, c, x, y

LEMMA ExpectedBeside ==
  ASSUME size \in Sizes, NEW b \in Blocks, NEW o \in Offsets4, ~SamePanel(b, o),
         NEW d \in 1..Nghost, NEW k \in 0..(Width - 1)
  PROVE  OnSphere(b, OuterCell(o, d, k))
           = {Beside(Span, b[3], GetSide(o), d, j) : j \in Between(Origin(b, o) + k, d, Span)}
<1> DEFINE c == OuterCell(o, d, k)
           x == Column(b, c[1])
           y == Row(b, c[2])
           n == Span
           f == b[3]
           s == GetSide(o)
           a == Origin(b, o) + k
           from == Between(a, d, n)
           e == {Beside(n, f, s, d, j) : j \in from}
<1>1. n \in Nat /\ n > 1 /\ d \in Nat \ {0} /\ d \in Int
  BY Wider, SizeTypes
<1>2. \A j \in from : j \in 0..(n - 1)
  BY Places4
<1>3. \A j \in from : /\ s = 0 => CellAt(f, n, -d, j) = Beside(n, f, s, d, j)
                      /\ s = 1 => CellAt(f, n, n - 1 + d, j) = Beside(n, f, s, d, j)
                      /\ s = 2 => CellAt(f, n, j, -d) = Beside(n, f, s, d, j)
                      /\ s = 3 => CellAt(f, n, j, n - 1 + d) = Beside(n, f, s, d, j)
  BY <1>2, BesideCells
<1>4. /\ s = 0 => x = -d /\ y = a
      /\ s = 1 => x = n - 1 + d /\ y = a
      /\ s = 2 => x = a /\ y = -d
      /\ s = 3 => x = a /\ y = n - 1 + d
      /\ a \in 0..(n - 1)
  BY OnTheSheet
<1>5. s = 0 \/ s = 1 \/ s = 2 \/ s = 3
  BY SideCases
<1> HIDE DEF c, x, y, n, f, s, a, from
<1>6. CASE s = 0
  <2>1. -d \notin 0..(n - 1) /\ -d < 0 /\ -(-d) = d
    BY <1>1
  <2>2. Expected(f, n, x, y) = {CellAt(f, n, -d, j) : j \in from}
    BY <1>4, <1>6, <2>1 DEF Expected, from
  <2> QED BY <1>3, <1>6, <2>2 DEF OnSphere, c, x, y, n, f, s, a, from
<1>7. CASE s = 1
  <2> DEFINE z == IF x < 0 THEN -x ELSE x - n + 1
  <2>1. x \notin 0..(n - 1) /\ z = d /\ x = n - 1 + d /\ y = a
    BY <1>1, <1>4, <1>7
  <2>3. Expected(f, n, x, y) = {CellAt(f, n, x, j) : j \in Between(y, z, n)}
    BY <2>1 DEF Expected
  <2> HIDE DEF z
  <2>2. Expected(f, n, x, y) = {CellAt(f, n, n - 1 + d, j) : j \in from}
    BY <2>1, <2>3 DEF from
  <2> QED BY <1>3, <1>7, <2>2 DEF OnSphere, c, x, y, n, f, s, a, from
<1>8. CASE s = 2
  <2>1. -d \notin 0..(n - 1) /\ -d < 0 /\ -(-d) = d
    BY <1>1
  <2>2. Expected(f, n, x, y) = {CellAt(f, n, j, -d) : j \in from}
    BY <1>4, <1>8, <2>1 DEF Expected, from
  <2> QED BY <1>3, <1>8, <2>2 DEF OnSphere, c, x, y, n, f, s, a, from
<1>9. CASE s = 3
  <2> DEFINE z == IF y < 0 THEN -y ELSE y - n + 1
  <2>1. x \in 0..(n - 1) /\ y \notin 0..(n - 1) /\ z = d /\ x = a /\ y = n - 1 + d
    BY <1>1, <1>4, <1>9
  <2>3. Expected(f, n, x, y) = {CellAt(f, n, j, y) : j \in Between(x, z, n)}
    BY <2>1 DEF Expected
  <2> HIDE DEF z
  <2>2. Expected(f, n, x, y) = {CellAt(f, n, j, n - 1 + d) : j \in from}
    BY <2>1, <2>3 DEF from
  <2> QED BY <1>3, <1>9, <2>2 DEF OnSphere, c, x, y, n, f, s, a, from
<1> QED BY <1>5, <1>6, <1>7, <1>8, <1>9

\* What a cell outside the corners holds.
LEMMA CellHas ==
  ASSUME size \in Sizes, NEW b \in Blocks, NEW t, Own(b, t), OwnPanel(b, t), Crossed(b, t),
         NEW c \in Cells, ~InCorner(c)
  PROVE  /\ \A s \in u[b][c] : s[2] = t /\ s[3] = Here(b[3])
         /\ ~InBlock(c) => {s[1] : s \in u[b][c]} = OnSphere(b, c)
         /\ ~InBlock(c) => <<Column(b, c[1]), Row(b, c[2])>> \in Sheet(size)
<1>1. CASE InBlock(c)
  <2>1. u[b][c] = {<<Inside(b, c), t, Here(b[3])>>}
    BY <1>1 DEF Own, Computed
  <2> QED BY <1>1, <2>1
<1>2. CASE ~InBlock(c)
  <2> DEFINE o == OffsetOf(c)
  <2>1. o \in Offsets4
    BY <1>2, OuterOf
  <2>2. PICK d \in 1..Nghost, k \in 0..(Width - 1) : c = OuterCell(o, d, k)
    BY <1>2, OuterOf
  <2>3. <<Column(b, c[1]), Row(b, c[2])>> \in Sheet(size)
    <3> HIDE DEF o
    <3> QED BY <2>1, <2>2, OnTheSheet
  <2>4. CASE SamePanel(b, o)
    <3>1. Within4(b, c)
      BY <2>1, <2>4 DEF Within4
    <3>2. u[b][c] = {<<Inside(b, c), t, Here(b[3])>>}
      BY <3>1 DEF OwnPanel, Computed
    <3>3. OnSphere(b, c) = {Inside(b, c)}
      <4> HIDE DEF o
      <4> QED BY <2>1, <2>2, <2>4, ExpectedInside
    <3> QED BY <2>3, <3>2, <3>3
  <2>5. CASE ~SamePanel(b, o)
    <3> HIDE DEF o
    <3> DEFINE from == Between(Origin(b, o) + k, d, Span)
               at(j) == Beside(Span, b[3], GetSide(o), d, j)
    <3>1. u[b][c] = {<<at(j), t, Here(b[3])>> : j \in from}
      BY <2>1, <2>2, <2>5 DEF Crossed, Mixed
    <3>2. OnSphere(b, c) = {at(j) : j \in from}
      BY <2>1, <2>2, <2>5, ExpectedBeside
    <3> HIDE DEF from, at
    <3>3. {s[1] : s \in u[b][c]} = {at(j) : j \in from}
      <4> DEFINE S == u[b][c]
      <4>1. S = {<<at(j), t, Here(b[3])>> : j \in from}
        BY <3>1
      <4> DEFINE first(s) == s[1]
      <4>2. \A j \in from : first(<<at(j), t, Here(b[3])>>) = at(j)
        OBVIOUS
      <4> HIDE DEF S, first
      <4>3. \A e : e \in {first(s) : s \in S} <=> \E j \in from : e = at(j)
        BY <4>1, <4>2
      <4>4. {first(s) : s \in S} = {at(j) : j \in from}
        BY <4>3
      <4> QED BY <4>4 DEF S, first
    <3>4. \A s \in u[b][c] : s[2] = t /\ s[3] = Here(b[3])
      BY <3>1
    <3> QED BY <2>3, <3>2, <3>3, <3>4
  <2> QED BY <2>4, <2>5
<1> QED BY <1>1, <1>2

\* The same for the corners, which are made of two other ghost cells.
LEMMA AllCellsHave ==
  ASSUME size \in Sizes, NEW b \in Blocks, NEW t, Own(b, t), OwnPanel(b, t), Crossed(b, t),
         Corners(b), NEW c \in Cells
  PROVE  \A s \in u[b][c] : s[2] = t /\ s[3] = Here(b[3])
<1>1. CASE ~InCorner(c)
  BY <1>1, CellHas
<1>2. CASE InCorner(c)
  <2> DEFINE x == <<c[1], Nearest(c[2])>>
             y == <<Nearest(c[1]), c[2]>>
  <2>1. x \in Cells /\ ~InCorner(x) /\ y \in Cells /\ ~InCorner(y)
    BY <1>2, NearestTypes
  <2>2. u[b][c] = u[b][x] \cup u[b][y]
    BY <1>2 DEF Corners
  <2> HIDE DEF x, y
  <2>3. \A s \in u[b][x] : s[2] = t /\ s[3] = Here(b[3])
    BY <2>1, CellHas
  <2>4. \A s \in u[b][y] : s[2] = t /\ s[3] = Here(b[3])
    BY <2>1, CellHas
  <2> QED BY <2>2, <2>3, <2>4
<1> QED BY <1>1, <1>2

LEMMA SyncedCells ==
  ASSUME ControlInv, DataInv, NEW b \in Blocks, Synced(b)
  PROVE  /\ size \in Sizes
         /\ Own(b, stage[b]) /\ OwnPanel(b, stage[b]) /\ Crossed(b, stage[b]) /\ Corners(b)
<1>1. Types /\ HasCells(b)
  BY DEF ControlInv, DataInv
<1>2. Step(b) \in 7..13
  BY <1>1, SyncedSteps
<1>3. Step(b) \in 1..13 /\ Step(b) \in 4..13
  BY <1>2
<1> QED BY <1>1, <1>2, <1>3 DEF HasCells, Types

LEMMA SphereIs ==
  ASSUME size \in Sizes, NEW f \in Faces, NEW x, NEW y, <<x, y>> \in Sheet(size)
  PROVE  Sphere[size][f][<<x, y>>] = Expected(f, Span, x, y)
<1> DEFINE c == <<x, y>>
<1>1. c[1] = x /\ c[2] = y
  OBVIOUS
<1>2. Sphere[size][f] = [e \in Sheet(size) |-> Expected(f, size[1] * size[2], e[1], e[2])]
  BY DEF Sphere
<1> HIDE DEF c
<1>3. Sphere[size][f][c] = Expected(f, size[1] * size[2], c[1], c[2])
  BY <1>2 DEF c
<1> QED BY <1>1, <1>3 DEF c, Span, Pxy, Width

LEMMA CellsMatch ==
  ASSUME ControlInv, DataInv
  PROVE  GhostsMatchTheSphere
<1> SUFFICES ASSUME NEW b \in Blocks, Synced(b), NEW c \in Cells, ~InBlock(c), ~InCorner(c)
             PROVE  {s[1] : s \in u[b][c]} = Sphere[size][b[3]][Tail(Inside(b, c))]
  BY DEF GhostsMatchTheSphere
<1>1. /\ size \in Sizes
      /\ Own(b, stage[b]) /\ OwnPanel(b, stage[b]) /\ Crossed(b, stage[b])
  BY SyncedCells
<1> DEFINE x == Column(b, c[1])
           y == Row(b, c[2])
<1>2. {s[1] : s \in u[b][c]} = OnSphere(b, c) /\ <<x, y>> \in Sheet(size)
  BY <1>1, CellHas
<1>3. Inside(b, c) = <<b[3], x, y>>
  BY DEF Inside, Column, Row
<1>4. OnSphere(b, c) = Expected(b[3], Span, x, y)
  BY DEF OnSphere
<1> HIDE DEF x, y
<1>5. Tail(Inside(b, c)) = <<x, y>>
  BY <1>3
<1>6. b[3] \in Faces
  BY <1>1, BlockTypes
<1> QED BY <1>1, <1>2, <1>4, <1>5, <1>6, SphereIs

LEMMA CellsAreFresh ==
  ASSUME ControlInv, DataInv
  PROVE  GhostsFresh
<1> SUFFICES ASSUME NEW b \in Blocks, Synced(b), NEW c \in Cells
             PROVE  \A s \in u[b][c] : s[2] = stage[b]
  BY DEF GhostsFresh
<1> QED BY SyncedCells, AllCellsHave

\* What is on the other side of a face of a seam.
LEMMA FaceHas ==
  ASSUME ControlInv, DataInv, NEW b \in Blocks, NEW o \in Offsets4,
         NEW j \in DOMAIN outer[b][o]
  PROVE  /\ size \in Sizes /\ ~SamePanel(b, o) /\ j \in 0..(Width - 1)
         /\ outer[b][o][j] = FromBeside(b, o, 1, Origin(b, o) + j, stage[b], Here(b[3]))
<1>1. size \in Sizes /\ HasSeam(b, o)
  BY DEF ControlInv, DataInv, Types
<1>2. outer[b][o] # <<>>
  OBVIOUS
<1>3. ~SamePanel(b, o) /\ outer[b][o] = OuterSeam(b, o, stage[b])
  BY <1>1, <1>2 DEF HasSeam
<1>4. j \in 0..(Width - 1)
  BY <1>3 DEF OuterSeam
<1> QED BY <1>1, <1>3, <1>4 DEF OuterSeam

LEMMA AllTurned ==
  ASSUME ControlInv, DataInv
  PROVE  VelocitiesTurned
<1> SUFFICES ASSUME NEW b \in Blocks, Synced(b)
             PROVE  /\ \A c \in Cells : \A s \in u[b][c] : s[3] = Here(b[3])
                    /\ \A o \in Offsets4 : \A j \in DOMAIN outer[b][o] :
                         \A s \in outer[b][o][j] : s[3] = Here(b[3])
  BY DEF VelocitiesTurned
<1>1. ASSUME NEW c \in Cells PROVE \A s \in u[b][c] : s[3] = Here(b[3])
  BY SyncedCells, AllCellsHave
<1>2. ASSUME NEW o \in Offsets4, NEW j \in DOMAIN outer[b][o]
      PROVE  \A s \in outer[b][o][j] : s[3] = Here(b[3])
  BY FaceHas DEF FromBeside
<1> QED BY <1>1, <1>2

LEMMA FacesMatch ==
  ASSUME ControlInv, DataInv
  PROVE  SeamStatesAgree
<1> SUFFICES ASSUME NEW b \in Blocks, NEW o \in Offsets4, NEW j \in DOMAIN outer[b][o]
             PROVE  LET c == <<IF o[2] = 0 THEN j ELSE IF o[2] < 0 THEN -1 ELSE Width,
                               IF o[1] = 0 THEN j ELSE IF o[1] < 0 THEN -1 ELSE Width>>
                        i == Inside(b, c)
                    IN {<<s[1], s[2]>> : s \in outer[b][o][j]}
                         = {<<CellAt(b[3], Pxy * Width, i[2], i[3]), stage[b]>>}
  BY DEF SeamStatesAgree
<1> DEFINE c == <<IF o[2] = 0 THEN j ELSE IF o[2] < 0 THEN -1 ELSE Width,
                  IF o[1] = 0 THEN j ELSE IF o[1] < 0 THEN -1 ELSE Width>>
           i == Inside(b, c)
           S == outer[b][o][j]
           e == OuterCell(o, 1, j)
           x == Column(b, e[1])
           y == Row(b, e[2])
           a == Origin(b, o) + j
           p == Beside(Span, b[3], GetSide(o), 1, a)
<1>1. size \in Sizes /\ ~SamePanel(b, o) /\ j \in 0..(Width - 1)
  BY FaceHas
<1>2. S = {<<p, stage[b], Here(b[3])>>}
  BY FaceHas DEF FromBeside
<1>3. Width \in Nat /\ 1 \in 1..Nghost /\ Span \in Nat
  BY <1>1, SizeTypes, Wider
<1>4. c = e
  <2>1. /\ GetSide(o) = 0 => e = <<-1, j>>
        /\ GetSide(o) = 1 => e = <<Width + 1 - 1, j>>
        /\ GetSide(o) = 2 => e = <<j, -1>>
        /\ GetSide(o) = 3 => e = <<j, Width + 1 - 1>>
    BY InnerCells
  <2>2. Width + 1 - 1 = Width
    BY <1>3
  <2>3. /\ GetSide(o) = 0 => c = <<-1, j>>
        /\ GetSide(o) = 1 => c = <<Width, j>>
        /\ GetSide(o) = 2 => c = <<j, -1>>
        /\ GetSide(o) = 3 => c = <<j, Width>>
    BY SideCases
  <2> HIDE DEF c, e
  <2> QED BY <2>1, <2>2, <2>3, SideCases
<1>5. /\ GetSide(o) = 0 => x = -1 /\ y = a
      /\ GetSide(o) = 1 => x = Span - 1 + 1 /\ y = a
      /\ GetSide(o) = 2 => x = a /\ y = -1
      /\ GetSide(o) = 3 => x = a /\ y = Span - 1 + 1
      /\ a \in 0..(Span - 1)
  BY <1>1, <1>3, OnTheSheet
<1>6. /\ GetSide(o) = 0 => CellAt(b[3], Span, -1, a) = p
      /\ GetSide(o) = 1 => CellAt(b[3], Span, Span - 1 + 1, a) = p
      /\ GetSide(o) = 2 => CellAt(b[3], Span, a, -1) = p
      /\ GetSide(o) = 3 => CellAt(b[3], Span, a, Span - 1 + 1) = p
  <2> HIDE DEF a
  <2> QED BY <1>1, <1>3, <1>5, BesideCells
<1>7. i[2] = Column(b, c[1]) /\ i[3] = Row(b, c[2])
  BY DEF Inside, Column, Row
<1> HIDE DEF c, S, e, x, y, a, p
<1>8. CellAt(b[3], Span, x, y) = p
  BY <1>5, <1>6, SideCases
<1>9. i[2] = x /\ i[3] = y
  BY <1>4, <1>7 DEF x, y
<1> HIDE DEF i
<1>10. {<<s[1], s[2]>> : s \in S} = {<<p, stage[b]>>}
  BY <1>2
<1>11. {<<s[1], s[2]>> : s \in S} = {<<CellAt(b[3], Pxy * Width, i[2], i[3]), stage[b]>>}
  BY <1>8, <1>9, <1>10 DEF Span
<1> QED BY <1>11 DEF S, i, c

\* Ghost cells hold the cells that lie there on the sphere and velocities are in
\* the components of the panel that holds them, in every run of any number of
\* stages, however the blocks are spread over processes and interleaved
\* (MeshBlockImpl::exchange, CubedSphereLayoutImpl::serialize, deserialize).
THEOREM GhostsOfTheSphere ==
  Spec => []GhostsHold
<1>1. ControlInv /\ DataInv => GhostsHold
  BY CellsMatch, AllTurned DEF GhostsHold
<1> QED BY <1>1, DataHolds, PTL

\* Nothing in a ghost zone is of an earlier or a later stage, although a block
\* that is behind may receive the strips of two stages of its neighbor
\* (MeshBlockImpl::exchange, launch_exchange, finalize_exchange).
THEOREM GhostsAreFresh ==
  Spec => []GhostsFresh
<1>1. ControlInv /\ DataInv => GhostsFresh
  BY CellsAreFresh
<1> QED BY <1>1, DataHolds, PTL

\* The two blocks at a seam compute the flux through each of its faces from the
\* same two states (HydroImpl::forward).
THEOREM SeamsAgree ==
  Spec => []SeamStatesAgree
<1>1. ControlInv /\ DataInv => SeamStatesAgree
  BY FacesMatch
<1> QED BY <1>1, DataHolds, PTL
=============================================================================
