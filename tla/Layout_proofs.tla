---------------------------- MODULE Layout_proofs ----------------------------
(***************************************************************************)
(* Proofs about CommTag, CartesianLayout and MeshStage.                    *)
(*                                                                         *)
(* Tags: every number of blocks up to the 16 that send_to_block admits,    *)
(* every phyid, every number of variables.  A tag is read as digits, which *)
(* do not overlap.                                                         *)
(*                                                                         *)
(* Layouts: every slab and cubed layout of up to 8 blocks a side, any      *)
(* periodic axes, any spread of the blocks over processes.  The Z-order    *)
(* gives every place a rank of its own (ZOrderRanks), for Morton codes in  *)
(* the box differ.  A step off and back along an axis ends where it began  *)
(* (WrapBack), so that neighbors are mutual, and a boundary function       *)
(* stands exactly where there is no neighbor (PhysicalIsOutside).  With    *)
(* that the four parts of the plan take part in the same buffers.          *)
(*                                                                         *)
(* Ghost zones: Right(r, v, c, version) says that cell c of block r holds  *)
(* in v what the whole mesh holds there (Whole).  Functions that wait for  *)
(* one another are the same as functions in turn (BoundariesInTurn); each  *)
(* is right where what it reads is right (FaceRight), which is one face    *)
(* nearer to the block (BehindOurs); a neighbor sends the cell that lies   *)
(* there (PartnerRight); and the functions of x1, called again, settle the *)
(* corners that an exchange left behind (RefreshedRight).                  *)
(***************************************************************************)
EXTENDS MeshStage, CommTag, FiniteSetTheorems, TLAPS

-----------------------------------------------------------------------------
(* Tags: arithmetic.                                                       *)

\* The digits of a tag of make_comm_tag: below 32 blocks they do not overlap.
LEMMA Digits ==
  ASSUME NEW i \in Nat, NEW j \in Nat, NEW k \in Nat, i < 64, j < 16, k < 27
  PROVE  /\ i * 1024 + j * 32 + k \in Nat
         /\ i * 1024 + j * 32 + k < 65536
         /\ (i * 1024 + j * 32 + k) % 1024 < 507
BY SMT

\* The low 16 bits and the rest.
LEMMA LowBits ==
  ASSUME NEW c \in Nat, c < 65536, NEW n \in Nat
  PROVE  (c + n * 65536) % 65536 = c
BY SMT

LEMMA LowBitsApart ==
  ASSUME NEW c \in Nat, c < 65536, NEW n \in Nat,
         NEW d \in Nat, d < 65536, NEW k \in Nat,
         c + n * 65536 = d + k * 65536
  PROVE  c = d /\ n = k
BY SMT

LEMMA Cancel ==
  ASSUME NEW a \in Nat, NEW b \in Nat, 16777216 + a = 16777216 + b
  PROVE  a = b
BY SMT

\* Two local block indices folded into one number.
LEMMA FoldBound ==
  ASSUME NEW B \in Nat, B <= 16, NEW a \in Nat, NEW b \in Nat, a < B, b < B
  PROVE  a * B + b \in Nat /\ a * B + b < 256
<1>1. a * B \in Nat /\ a * B <= 15 * 16
  <2>1. a <= 15
    BY SMT
  <2>2. a * B <= 15 * B
    BY SMT, <2>1
  <2> QED BY SMT, <2>2
<1> QED BY SMT, <1>1

LEMMA FoldApart ==
  ASSUME NEW B \in Nat, NEW a \in Nat, NEW b \in Nat, NEW c \in Nat, NEW d \in Nat,
         b < B, d < B, a * B + b = c * B + d
  PROVE  a = c /\ b = d
<1>1. ASSUME NEW p \in Nat, NEW q \in Nat, NEW r \in Nat, NEW s \in Nat,
             q < B, s < B, p * B + q = r * B + s
      PROVE  ~(p < r)
  <2>1. SUFFICES ASSUME p < r PROVE FALSE
    OBVIOUS
  <2>2. PICK e \in Nat : r = p + 1 + e
    <3>1. r - p - 1 \in Nat /\ r = p + 1 + (r - p - 1)
      BY SMT, <2>1
    <3> QED BY <3>1
  <2>3. r * B = p * B + B + e * B /\ e * B \in Nat
    BY SMT, <2>2
  <2>4. p * B \in Nat
    BY SMT
  <2> QED BY SMT, <1>1, <2>3, <2>4
<1>2. ~(a < c) /\ ~(c < a)
  BY <1>1
<1>3. a = c
  BY SMT, <1>2
<1> QED BY SMT, <1>3

-----------------------------------------------------------------------------
(* Tags: messages in flight.                                               *)

\* The messages in flight are messages of the three users of the transport.
InFlight == inflight \subseteq Messages

THEOREM InFlightInvariant == TagSpec => []InFlight
<1>1. TagInit => InFlight
  BY DEF TagInit, InFlight
<1>2. InFlight /\ [TagNext]_inflight => InFlight'
  BY DEF InFlight, TagNext, SendVariable, SendToBlock, SendPiece, Receive, Messages
<1> QED BY <1>1, <1>2, PTL DEF TagSpec

LEMMA LocalBounds == \A b \in Locals : b \in Nat /\ b < BlocksPerProcess /\ b < 16
BY SMT, CommTagAssumption DEF Locals

\* get_buffer_id numbers the 26 offsets apart.
LEMMA BufferIds ==
  /\ \A o \in Offsets : BufferId(o) \in Nat /\ BufferId(o) < 27
  /\ \A o, p \in Offsets : BufferId(o) = BufferId(p) => o = p
<1>1. \A v \in -1..1 : Digit(v) \in 0..2 /\ (v = -1 => Digit(v) = 2)
                      /\ (v = 0 => Digit(v) = 0) /\ (v = 1 => Digit(v) = 1)
  BY DEF Digit
<1>2. \A w, v \in -1..1 : Digit(w) = Digit(v) => w = v
  BY <1>1
<1>3. ASSUME NEW o \in Offsets PROVE BufferId(o) \in Nat /\ BufferId(o) < 27
  BY <1>1 DEF Offsets, BufferId
<1>4. ASSUME NEW o \in Offsets, NEW p \in Offsets, BufferId(o) = BufferId(p)
      PROVE  o = p
  <2>1. PICK a \in -1..1, b \in -1..1, c \in -1..1 : o = <<a, b, c>>
    BY DEF Offsets
  <2>2. PICK d \in -1..1, e \in -1..1, f \in -1..1 : p = <<d, e, f>>
    BY DEF Offsets
  <2>3. /\ Digit(a) \in 0..2 /\ Digit(b) \in 0..2 /\ Digit(c) \in 0..2
        /\ Digit(d) \in 0..2 /\ Digit(e) \in 0..2 /\ Digit(f) \in 0..2
    BY <1>1
  <2>4. Digit(b) + 3 * Digit(a) + 9 * Digit(c)
          = Digit(e) + 3 * Digit(d) + 9 * Digit(f)
    BY <1>4, <2>1, <2>2 DEF BufferId
  <2>5. Digit(a) = Digit(d) /\ Digit(b) = Digit(e) /\ Digit(c) = Digit(f)
    BY <2>3, <2>4
  <2> QED BY <1>2, <2>1, <2>2, <2>5
<1> QED BY <1>3, <1>4

\* What the tag of an exchange is made of.
LEMMA ExchangeTags ==
  ASSUME NEW m \in ExchangeMessages
  PROVE  /\ m.kind = "exchange" /\ m.peer \in Locals /\ m.offset \in Offsets
         /\ m.phyid \in Nat /\ m.phyid < 64 /\ m.var \in Vars
         /\ m.var \in Nat /\ m.var < 32768
         /\ CommTag(m.peer, m.offset, m.phyid)
              = m.phyid * 1024 + m.peer * 32 + BufferId(m.offset)
         /\ CommTag(m.peer, m.offset, m.phyid) \in Nat
         /\ CommTag(m.peer, m.offset, m.phyid) < 65536
         /\ CommTag(m.peer, m.offset, m.phyid) % 1024 < 507
         /\ TagOf(m) = CommTag(m.peer, m.offset, m.phyid) + m.var * 65536
<1>1. /\ m.kind = "exchange" /\ m.peer \in Locals /\ m.phyid \in PhyIds
      /\ m.offset \in Offsets /\ m.var \in Vars
  BY DEF ExchangeMessages
<1>2. m.phyid \in Nat /\ m.phyid < 64 /\ m.var \in Nat /\ m.var < 32768
  BY <1>1, CommTagAssumption
<1>3. m.peer \in Nat /\ m.peer < 16
  BY <1>1, LocalBounds
<1>4. BufferId(m.offset) \in Nat /\ BufferId(m.offset) < 27
  BY <1>1, BufferIds
<1>5. CommTag(m.peer, m.offset, m.phyid)
        = m.phyid * 1024 + m.peer * 32 + BufferId(m.offset)
  BY DEF CommTag
<1>6. TagOf(m) = CommTag(m.peer, m.offset, m.phyid) + m.var * 65536
  BY <1>1 DEF TagOf, VarTag
<1>7. /\ CommTag(m.peer, m.offset, m.phyid) \in Nat
      /\ CommTag(m.peer, m.offset, m.phyid) < 65536
      /\ CommTag(m.peer, m.offset, m.phyid) % 1024 < 507
  BY <1>2, <1>3, <1>4, <1>5, Digits
<1> QED BY <1>1, <1>2, <1>5, <1>6, <1>7

FoldPair(m) == m.me * BlocksPerProcess + m.peer

LEMMA BlockTags ==
  ASSUME NEW m \in BlockMessages
  PROVE  /\ m.kind = "block" /\ m.me \in Locals /\ m.peer \in Locals
         /\ m.tag \in Nat /\ m.tag < 65536 /\ m.tag % 1024 >= 789
         /\ FoldPair(m) \in Nat /\ FoldPair(m) < 256
         /\ TagOf(m) = m.tag + FoldPair(m) * 65536
<1>1. /\ m.kind = "block" /\ m.me \in Locals /\ m.peer \in Locals
      /\ m.tag \in HydroTags
  BY DEF BlockMessages
<1>2. m.tag \in Nat /\ m.tag < 65536 /\ m.tag % 1024 >= 789
  <2>1. m.tag \in KnownHydroTags
    BY <1>1, CommTagAssumption
  <2> QED BY SMT, <2>1 DEF KnownHydroTags
<1>3. FoldPair(m) \in Nat /\ FoldPair(m) < 256
  BY <1>1, LocalBounds, FoldBound, CommTagAssumption DEF FoldPair
<1>4. TagOf(m) = m.tag + FoldPair(m) * 65536
  BY <1>1 DEF TagOf, BlockTag, FoldPair
<1> QED BY <1>1, <1>2, <1>3, <1>4

LEMMA ColumnTags ==
  ASSUME NEW m \in ColumnMessages
  PROVE  /\ m.kind = "column" /\ m.me \in Locals /\ m.peer \in Locals
         /\ FoldPair(m) \in Nat /\ FoldPair(m) < 256
         /\ TagOf(m) = 16777216 + FoldPair(m)
<1>1. m.kind = "column" /\ m.me \in Locals /\ m.peer \in Locals
  BY DEF ColumnMessages
<1>2. FoldPair(m) \in Nat /\ FoldPair(m) < 256
  BY <1>1, LocalBounds, FoldBound, CommTagAssumption DEF FoldPair
<1>3. TagOf(m) = 16777216 + m.me * BlocksPerProcess + m.peer
  BY <1>1, SMT DEF TagOf, ColumnTag
<1>4. m.me * BlocksPerProcess \in Nat /\ m.peer \in Nat
  BY SMT, <1>1, LocalBounds, CommTagAssumption
<1>5. TagOf(m) = 16777216 + FoldPair(m)
  BY SMT, <1>3, <1>4 DEF FoldPair
<1> QED BY <1>1, <1>2, <1>5

-----------------------------------------------------------------------------
(* Tags: the theorems.                                                     *)

\* make_comm_tag never throws and exchange_each_var never overflows an int, for
\* any number of variables it admits.
THEOREM TagsFitAnInt == TagSpec => []TagsFit
<1>1. InFlight => TagsFit
  <2> SUFFICES ASSUME InFlight, NEW m \in inflight
               PROVE  /\ TagOf(m) >= 0 /\ TagOf(m) <= 2147483647
                      /\ m.kind = "exchange" =>
                           CommTag(m.peer, m.offset, m.phyid) < 65536
    BY SMT DEF TagsFit
  <2>1. CASE m \in ExchangeMessages
    <3>1. /\ CommTag(m.peer, m.offset, m.phyid) \in Nat
          /\ CommTag(m.peer, m.offset, m.phyid) < 65536
          /\ m.var \in Nat /\ m.var < 32768
          /\ TagOf(m) = CommTag(m.peer, m.offset, m.phyid) + m.var * 65536
      BY <2>1, ExchangeTags
    <3> QED BY SMT, <3>1
  <2>2. CASE m \in BlockMessages
    <3>1. /\ m.kind = "block" /\ m.tag \in Nat /\ m.tag < 65536
          /\ FoldPair(m) \in Nat /\ FoldPair(m) < 256 /\ TagOf(m) = m.tag + FoldPair(m) * 65536
      BY <2>2, BlockTags
    <3> QED BY SMT, <3>1
  <2>3. CASE m \in ColumnMessages
    <3>1. /\ m.kind = "column" /\ FoldPair(m) \in Nat /\ FoldPair(m) < 256
          /\ TagOf(m) = 16777216 + FoldPair(m)
      BY <2>3, ColumnTags
    <3> QED BY SMT, <3>1
  <2> QED BY SMT, <2>1, <2>2, <2>3 DEF InFlight, Messages
<1> QED BY <1>1, InFlightInvariant, PTL

\* The low 16 bits of a message of an exchange and of a message of the hydro
\* step: the latter has one that no former has.
LEMMA LowBitsOfTags ==
  /\ \A m \in ExchangeMessages : TagOf(m) % 65536 = CommTag(m.peer, m.offset, m.phyid)
  /\ \A m \in BlockMessages : TagOf(m) % 65536 = m.tag
  /\ \A m \in ExchangeMessages, n \in BlockMessages : TagOf(m) % 65536 # n.tag
<1>1. ASSUME NEW m \in ExchangeMessages
      PROVE  TagOf(m) % 65536 = CommTag(m.peer, m.offset, m.phyid)
  BY LowBits, ExchangeTags
<1>2. ASSUME NEW m \in BlockMessages PROVE TagOf(m) % 65536 = m.tag
  BY LowBits, BlockTags
<1>3. ASSUME NEW m \in ExchangeMessages, NEW n \in BlockMessages
      PROVE  TagOf(m) % 65536 # n.tag
  <2>1. CommTag(m.peer, m.offset, m.phyid) % 1024 < 507
    BY ExchangeTags
  <2>2. n.tag % 1024 >= 789 /\ n.tag \in Nat
    BY BlockTags
  <2>3. CommTag(m.peer, m.offset, m.phyid) # n.tag
    BY SMT, <2>1, <2>2
  <2> QED BY <1>1, <2>3
<1> QED BY <1>1, <1>2, <1>3

\* The tags of the hydro step keep their low 16 bits, which no exchange has at
\* 16 local blocks or fewer, and stay below those of a column.
THEOREM HydroTagsApart == TagSpec => []HydroTagsStandOut
<1>1. InFlight => HydroTagsStandOut
  <2> SUFFICES ASSUME InFlight, NEW m \in inflight, NEW n \in inflight,
                      m.kind = "block"
               PROVE  /\ TagOf(m) % 65536 = m.tag
                      /\ n.kind = "exchange" => TagOf(n) % 65536 # m.tag
                      /\ n.kind = "column" => TagOf(m) < TagOf(n)
    BY SMT DEF HydroTagsStandOut
  <2>1. m \in BlockMessages
    BY ExchangeTags, ColumnTags DEF InFlight, Messages
  <2>2. ASSUME n.kind = "exchange" PROVE TagOf(n) % 65536 # m.tag
    <3>1. n \in ExchangeMessages
      BY <2>2, BlockTags, ColumnTags DEF InFlight, Messages
    <3> QED BY <2>1, <3>1, LowBitsOfTags
  <2>3. ASSUME n.kind = "column" PROVE TagOf(m) < TagOf(n)
    <3>1. n \in ColumnMessages
      BY <2>3, BlockTags, ExchangeTags DEF InFlight, Messages
    <3>2. /\ m.tag \in Nat /\ m.tag < 65536 /\ FoldPair(m) \in Nat /\ FoldPair(m) < 256
          /\ TagOf(m) = m.tag + FoldPair(m) * 65536
      BY <2>1, BlockTags
    <3>3. FoldPair(n) \in Nat /\ TagOf(n) = 16777216 + FoldPair(n)
      BY <3>1, ColumnTags
    <3> QED BY SMT, <3>2, <3>3
  <2> QED BY <2>1, <2>2, <2>3, LowBitsOfTags
<1> QED BY <1>1, InFlightInvariant, PTL

\* Two messages of one user with the same tag are the same message.
LEMMA ExchangesTellApart ==
  ASSUME NEW m \in ExchangeMessages, NEW n \in ExchangeMessages,
         TagOf(m) = TagOf(n)
  PROVE  m = n
<1>1. /\ CommTag(m.peer, m.offset, m.phyid) = CommTag(n.peer, n.offset, n.phyid)
      /\ m.var = n.var
  BY ExchangeTags, LowBitsApart
<1>2. m.peer \in Nat /\ m.peer < 16 /\ n.peer \in Nat /\ n.peer < 16
  BY ExchangeTags, LocalBounds
<1>3. /\ BufferId(m.offset) \in Nat /\ BufferId(m.offset) < 27
      /\ BufferId(n.offset) \in Nat /\ BufferId(n.offset) < 27
  BY ExchangeTags, BufferIds
<1>4. m.phyid = n.phyid /\ m.peer = n.peer /\ BufferId(m.offset) = BufferId(n.offset)
  <2>1. m.phyid \in Nat /\ n.phyid \in Nat
    BY ExchangeTags
  <2>2. m.phyid * 1024 + m.peer * 32 + BufferId(m.offset)
          = n.phyid * 1024 + n.peer * 32 + BufferId(n.offset)
    BY <1>1, ExchangeTags
  <2>3. PICK i \in Nat, j \in Nat, k \in Nat :
          i = m.phyid /\ j = m.peer /\ k = BufferId(m.offset)
    BY <1>2, <1>3, <2>1
  <2>4. PICK x \in Nat, y \in Nat, z \in Nat :
          x = n.phyid /\ y = n.peer /\ z = BufferId(n.offset)
    BY <1>2, <1>3, <2>1
  <2>5. j < 16 /\ k < 27 /\ y < 16 /\ z < 27
    BY <1>2, <1>3, <2>3, <2>4
  <2>6. i * 1024 + j * 32 + k = x * 1024 + y * 32 + z
    BY <2>2, <2>3, <2>4
  <2>7. i = x /\ j = y /\ k = z
    BY SMT, <2>5, <2>6
  <2> QED BY <2>3, <2>4, <2>7
<1>5. m.offset = n.offset
  BY <1>4, BufferIds, ExchangeTags
<1> QED BY <1>1, <1>4, <1>5 DEF ExchangeMessages

LEMMA BlocksTellApart ==
  ASSUME NEW m \in BlockMessages, NEW n \in BlockMessages, TagOf(m) = TagOf(n)
  PROVE  m = n
<1>1. m.tag = n.tag /\ FoldPair(m) = FoldPair(n)
  BY BlockTags, LowBitsApart
<1>2. /\ m.me \in Nat /\ m.peer \in Nat /\ m.peer < BlocksPerProcess
      /\ n.me \in Nat /\ n.peer \in Nat /\ n.peer < BlocksPerProcess
  BY BlockTags, LocalBounds
<1>3. m.me = n.me /\ m.peer = n.peer
  <2>1. m.me * BlocksPerProcess + m.peer = n.me * BlocksPerProcess + n.peer
    BY <1>1 DEF FoldPair
  <2>2. PICK a \in Nat, b \in Nat : a = m.me /\ b = m.peer
    BY <1>2
  <2>3. PICK c \in Nat, d \in Nat : c = n.me /\ d = n.peer
    BY <1>2
  <2>4. /\ BlocksPerProcess \in Nat
        /\ a * BlocksPerProcess + b = c * BlocksPerProcess + d
        /\ b < BlocksPerProcess /\ d < BlocksPerProcess
    BY <1>2, <2>1, <2>2, <2>3, CommTagAssumption
  <2>5. a = c /\ b = d
    BY <2>4, FoldApart
  <2> QED BY <2>2, <2>3, <2>5
<1> QED BY <1>1, <1>3 DEF BlockMessages

LEMMA ColumnsTellApart ==
  ASSUME NEW m \in ColumnMessages, NEW n \in ColumnMessages, TagOf(m) = TagOf(n)
  PROVE  m = n
<1>1. FoldPair(m) = FoldPair(n)
  BY ColumnTags, Cancel
<1>2. /\ m.me \in Nat /\ m.peer \in Nat /\ m.peer < BlocksPerProcess
      /\ n.me \in Nat /\ n.peer \in Nat /\ n.peer < BlocksPerProcess
  BY ColumnTags, LocalBounds
<1>3. m.me = n.me /\ m.peer = n.peer
  <2>1. m.me * BlocksPerProcess + m.peer = n.me * BlocksPerProcess + n.peer
    BY <1>1 DEF FoldPair
  <2>2. PICK a \in Nat, b \in Nat : a = m.me /\ b = m.peer
    BY <1>2
  <2>3. PICK c \in Nat, d \in Nat : c = n.me /\ d = n.peer
    BY <1>2
  <2>4. /\ BlocksPerProcess \in Nat
        /\ a * BlocksPerProcess + b = c * BlocksPerProcess + d
        /\ b < BlocksPerProcess /\ d < BlocksPerProcess
    BY <1>2, <2>1, <2>2, <2>3, CommTagAssumption
  <2>5. a = c /\ b = d
    BY <2>4, FoldApart
  <2> QED BY <2>2, <2>3, <2>5
<1> QED BY <1>3 DEF ColumnMessages

\* The tags of gather_x1 are those of variable 256 of an exchange.
LEMMA ExchangeOrColumn ==
  ASSUME NEW m \in ExchangeMessages, NEW n \in ColumnMessages, TagOf(m) = TagOf(n)
  PROVE  m.var = 256
<1>1. CommTag(m.peer, m.offset, m.phyid) + m.var * 65536 = 16777216 + FoldPair(n)
  BY ExchangeTags, ColumnTags
<1>2. PICK c \in Nat, v \in Nat, f \in Nat :
        c = CommTag(m.peer, m.offset, m.phyid) /\ v = m.var /\ f = FoldPair(n)
  BY ExchangeTags, ColumnTags
<1>3. c < 65536 /\ f < 256
  BY <1>2, ExchangeTags, ColumnTags
<1>4. c + v * 65536 = 16777216 + f
  BY SMT, <1>1, <1>2
<1>5. v = 256
  BY SMT, <1>3, <1>4
<1> QED BY <1>2, <1>5

\* A receiver never takes one message for another, unless an exchange has a
\* variable 256.
THEOREM TagsAreUnique ==
  ASSUME 256 \notin Vars
  PROVE  TagSpec => []TagsTellApart
<1>1. ASSUME NEW m \in ExchangeMessages, NEW n \in BlockMessages
      PROVE  TagOf(m) # TagOf(n)
  BY LowBitsOfTags
<1>2. ASSUME NEW m \in ExchangeMessages, NEW n \in ColumnMessages
      PROVE  TagOf(m) # TagOf(n)
  BY ExchangeOrColumn, ExchangeTags
<1>3. ASSUME NEW m \in BlockMessages, NEW n \in ColumnMessages
      PROVE  TagOf(m) # TagOf(n)
  <2>1. /\ m.tag \in Nat /\ m.tag < 65536 /\ FoldPair(m) \in Nat /\ FoldPair(m) < 256
        /\ TagOf(m) = m.tag + FoldPair(m) * 65536
    BY BlockTags
  <2>2. FoldPair(n) \in Nat /\ TagOf(n) = 16777216 + FoldPair(n)
    BY ColumnTags
  <2> QED BY SMT, <2>1, <2>2
<1>4. ASSUME NEW m \in Messages, NEW n \in Messages, TagOf(m) = TagOf(n)
      PROVE  m = n
  BY <1>1, <1>2, <1>3, <1>4, ExchangesTellApart, BlocksTellApart,
     ColumnsTellApart DEF Messages
<1>5. InFlight => TagsTellApart
  BY <1>4 DEF InFlight, TagsTellApart
<1> QED BY <1>5, InFlightInvariant, PTL

-----------------------------------------------------------------------------
(* Layouts: places and ranks.                                              *)

Box == (0..7) \X (0..7) \X (0..7)

BlocksOf(g) == g.px * g.py * g.pz

LEMMA OptionTypes ==
  ASSUME NEW g \in Options
  PROVE  /\ g.px \in 1..8 /\ g.py \in 1..8 /\ g.pz \in 1..8
         /\ g.periodic_x \in BOOLEAN /\ g.periodic_y \in BOOLEAN
         /\ g.periodic_z \in BOOLEAN
         /\ g.blocks_per_process \in Nat \ {0}
         /\ g.type = "slab" => g.pz = 1
BY LayoutAssumption DEF Options

LEMMA Bits ==
  \A v \in 0..7 :
    /\ Bit(v, 0) \in 0..1 /\ Bit(v, 1) \in 0..1 /\ Bit(v, 2) \in 0..1
    /\ v = Bit(v, 0) + 2 * Bit(v, 1) + 4 * Bit(v, 2)
BY DEF Bit

\* Binary digits are read off one by one, the lowest first.
LEMMA LowDigit ==
  ASSUME NEW a \in 0..1, NEW b \in 0..1, NEW x \in Nat, NEW y \in Nat,
         a + 2 * x = b + 2 * y
  PROVE  a = b /\ x = y
BY SMT

LEMMA ThreeDigitsType ==
  ASSUME NEW a \in 0..1, NEW b \in 0..1, NEW c \in 0..1
  PROVE  /\ a + 2 * b + 4 * c \in Nat
         /\ \A x \in Nat : a + 2 * b + 4 * c + 8 * x \in Nat
OBVIOUS

LEMMA ThreeDigits ==
  ASSUME NEW a \in 0..1, NEW b \in 0..1, NEW c \in 0..1, NEW x \in Nat,
         NEW d \in 0..1, NEW e \in 0..1, NEW f \in 0..1, NEW y \in Nat,
         a + 2 * b + 4 * c + 8 * x = d + 2 * e + 4 * f + 8 * y
  PROVE  a = d /\ b = e /\ c = f /\ x = y
<1>1. a + 2 * (b + 2 * (c + 2 * x)) = d + 2 * (e + 2 * (f + 2 * y))
  OBVIOUS
<1>2. a = d /\ b + 2 * (c + 2 * x) = e + 2 * (f + 2 * y)
  BY <1>1, LowDigit
<1>3. b = e /\ c + 2 * x = f + 2 * y
  BY <1>2, LowDigit
<1>4. c = f /\ x = y
  BY <1>3, LowDigit
<1> QED BY <1>2, <1>3, <1>4

\* The codes of two places of the box differ.
LEMMA MortonApart ==
  ASSUME NEW l \in Box, NEW m \in Box
  PROVE  Morton(l) \in Int /\ (Morton(l) = Morton(m) => l = m)
<1>1. PICK x \in 0..7, y \in 0..7, z \in 0..7 : l = <<x, y, z>>
  BY DEF Box
<1>2. PICK a \in 0..7, b \in 0..7, c \in 0..7 : m = <<a, b, c>>
  BY DEF Box
<1>3. Morton(l) = Bit(x, 0) + 2 * Bit(y, 0) + 4 * Bit(z, 0)
                  + 8 * Bit(x, 1) + 16 * Bit(y, 1) + 32 * Bit(z, 1)
                  + 64 * Bit(x, 2) + 128 * Bit(y, 2) + 256 * Bit(z, 2)
  BY <1>1, Bits DEF Morton, Spread
<1>4. Morton(m) = Bit(a, 0) + 2 * Bit(b, 0) + 4 * Bit(c, 0)
                  + 8 * Bit(a, 1) + 16 * Bit(b, 1) + 32 * Bit(c, 1)
                  + 64 * Bit(a, 2) + 128 * Bit(b, 2) + 256 * Bit(c, 2)
  BY <1>2, Bits DEF Morton, Spread
<1>5. ASSUME Morton(l) = Morton(m)
      PROVE  /\ Bit(x, 0) = Bit(a, 0) /\ Bit(x, 1) = Bit(a, 1) /\ Bit(x, 2) = Bit(a, 2)
             /\ Bit(y, 0) = Bit(b, 0) /\ Bit(y, 1) = Bit(b, 1) /\ Bit(y, 2) = Bit(b, 2)
             /\ Bit(z, 0) = Bit(c, 0) /\ Bit(z, 1) = Bit(c, 1) /\ Bit(z, 2) = Bit(c, 2)
  <2> DEFINE p2 == Bit(x, 2) + 2 * Bit(y, 2) + 4 * Bit(z, 2)
             q2 == Bit(a, 2) + 2 * Bit(b, 2) + 4 * Bit(c, 2)
             p1 == Bit(x, 1) + 2 * Bit(y, 1) + 4 * Bit(z, 1) + 8 * p2
             q1 == Bit(a, 1) + 2 * Bit(b, 1) + 4 * Bit(c, 1) + 8 * q2
  <2>0. /\ Bit(x, 0) \in 0..1 /\ Bit(x, 1) \in 0..1 /\ Bit(x, 2) \in 0..1
        /\ Bit(y, 0) \in 0..1 /\ Bit(y, 1) \in 0..1 /\ Bit(y, 2) \in 0..1
        /\ Bit(z, 0) \in 0..1 /\ Bit(z, 1) \in 0..1 /\ Bit(z, 2) \in 0..1
        /\ Bit(a, 0) \in 0..1 /\ Bit(a, 1) \in 0..1 /\ Bit(a, 2) \in 0..1
        /\ Bit(b, 0) \in 0..1 /\ Bit(b, 1) \in 0..1 /\ Bit(b, 2) \in 0..1
        /\ Bit(c, 0) \in 0..1 /\ Bit(c, 1) \in 0..1 /\ Bit(c, 2) \in 0..1
    BY Bits
  <2>1. p2 \in Nat /\ q2 \in Nat /\ p1 \in Nat /\ q1 \in Nat
    <3>1. p2 \in Nat /\ q2 \in Nat
      BY <2>0, ThreeDigitsType
    <3> HIDE DEF p2, q2
    <3> QED BY <2>0, <3>1, ThreeDigitsType
  <2>2. Bit(x, 0) + 2 * Bit(y, 0) + 4 * Bit(z, 0) + 8 * p1
          = Bit(a, 0) + 2 * Bit(b, 0) + 4 * Bit(c, 0) + 8 * q1
    <3>1. Morton(l) = Bit(x, 0) + 2 * Bit(y, 0) + 4 * Bit(z, 0) + 8 * p1
      BY <1>3, <2>0
    <3>2. Morton(m) = Bit(a, 0) + 2 * Bit(b, 0) + 4 * Bit(c, 0) + 8 * q1
      BY <1>4, <2>0
    <3> HIDE DEF p1, q1
    <3> QED BY <1>5, <3>1, <3>2
  <2> HIDE DEF p1, q1
  <2>3. Bit(x, 0) = Bit(a, 0) /\ Bit(y, 0) = Bit(b, 0) /\ Bit(z, 0) = Bit(c, 0) /\ p1 = q1
    BY <2>0, <2>1, <2>2, ThreeDigits
  <2> HIDE DEF p2, q2
  <2>4. Bit(x, 1) + 2 * Bit(y, 1) + 4 * Bit(z, 1) + 8 * p2
          = Bit(a, 1) + 2 * Bit(b, 1) + 4 * Bit(c, 1) + 8 * q2
    BY <2>3 DEF p1, q1
  <2>5. Bit(x, 1) = Bit(a, 1) /\ Bit(y, 1) = Bit(b, 1) /\ Bit(z, 1) = Bit(c, 1) /\ p2 = q2
    BY <2>0, <2>1, <2>4, ThreeDigits
  <2>6. Bit(x, 2) + 2 * Bit(y, 2) + 4 * Bit(z, 2) + 8 * 0
          = Bit(a, 2) + 2 * Bit(b, 2) + 4 * Bit(c, 2) + 8 * 0
    BY <2>0, <2>5 DEF p2, q2
  <2>7. Bit(x, 2) = Bit(a, 2) /\ Bit(y, 2) = Bit(b, 2) /\ Bit(z, 2) = Bit(c, 2)
    BY <2>0, <2>6, ThreeDigits
  <2> QED BY <2>3, <2>5, <2>7
<1>6. Morton(l) = Morton(m) => x = a /\ y = b /\ z = c
  BY <1>5, Bits
<1>7. Morton(l) \in Int
  BY <1>3, Bits
<1> QED BY <1>1, <1>2, <1>6, <1>7

LEMMA Product ==
  ASSUME NEW S, NEW T, IsFiniteSet(S), IsFiniteSet(T)
  PROVE  IsFiniteSet(S \X T) /\ Cardinality(S \X T) = Cardinality(S) * Cardinality(T)
BY FS_Product

LEMMA PlacesFinite ==
  ASSUME NEW g \in Options
  PROVE  /\ PlacesOf(g) \subseteq Box
         /\ IsFiniteSet(PlacesOf(g)) /\ Cardinality(PlacesOf(g)) = BlocksOf(g)
         /\ BlocksOf(g) \in Nat \ {0}
<1>1. g.px \in 1..8 /\ g.py \in 1..8 /\ g.pz \in 1..8
  BY OptionTypes
<1> DEFINE X == 0..(g.px - 1)
           Y == 0..(g.py - 1)
           Z == 0..(g.pz - 1)
<1>2. /\ IsFiniteSet(X) /\ Cardinality(X) = g.px
      /\ IsFiniteSet(Y) /\ Cardinality(Y) = g.py
      /\ IsFiniteSet(Z) /\ Cardinality(Z) = g.pz
  BY <1>1, FS_Interval
<1>3. IsFiniteSet(X \X Y) /\ Cardinality(X \X Y) = g.px * g.py
  BY <1>2, FS_Product
<1>4. IsFiniteSet((X \X Y) \X Z) /\ Cardinality((X \X Y) \X Z) = g.px * g.py * g.pz
  <2> HIDE DEF X, Y, Z
  <2> DEFINE W == X \X Y
  <2> HIDE DEF W
  <2>1. IsFiniteSet(W) /\ Cardinality(W) = g.px * g.py
    BY <1>3 DEF W
  <2>2. IsFiniteSet(W \X Z) /\ Cardinality(W \X Z) = Cardinality(W) * Cardinality(Z)
    BY <1>2, <2>1, Product
  <2> QED BY <1>2, <2>1, <2>2 DEF W
<1> DEFINE f == [p \in (X \X Y) \X Z |-> <<p[1][1], p[1][2], p[2]>>]
<1>5. f \in Bijection((X \X Y) \X Z, PlacesOf(g))
  <2>1. \A p \in (X \X Y) \X Z : f[p] \in PlacesOf(g)
    BY DEF PlacesOf
  <2>2. \A p, q \in (X \X Y) \X Z : f[p] = f[q] => p = q
    OBVIOUS
  <2>3. ASSUME NEW l \in PlacesOf(g)
        PROVE  \E p \in (X \X Y) \X Z : f[p] = l
    <3>1. << <<l[1], l[2]>>, l[3]>> \in (X \X Y) \X Z
      BY DEF PlacesOf
    <3>2. f[<< <<l[1], l[2]>>, l[3]>>] = l
      BY <3>1 DEF PlacesOf
    <3> QED BY <3>1, <3>2
  <2> QED BY <2>1, <2>2, <2>3 DEF Bijection, Injection, Surjection, IsInjective
<1>6. IsFiniteSet(PlacesOf(g)) /\ Cardinality(PlacesOf(g)) = BlocksOf(g)
  BY <1>4, <1>5, FS_Bijection DEF ExistsBijection, BlocksOf
<1>7. PlacesOf(g) \subseteq Box
  BY <1>1 DEF PlacesOf, Box
<1>8. BlocksOf(g) \in Nat \ {0}
  <2>1. \A a, b \in Nat \ {0} : a * b \in Nat \ {0}
    BY SMT
  <2> QED BY <1>1, <2>1 DEF BlocksOf
<1> QED BY <1>6, <1>7, <1>8

\* Every place has a rank of its own, and every rank a place.
LEMMA ZOrderRanks ==
  ASSUME NEW g \in Options
  PROVE  ZOrder(g) \in Bijection(PlacesOf(g), 0..(BlocksOf(g) - 1))
<1> DEFINE P == PlacesOf(g)
           n == BlocksOf(g)
           Below(l) == {m \in P : Morton(m) < Morton(l)}
<1>1. IsFiniteSet(P) /\ Cardinality(P) = n /\ n \in Nat \ {0} /\ P \subseteq Box
  BY PlacesFinite
<1>2. \A l \in P : Below(l) \subseteq P /\ l \notin Below(l)
  BY <1>1, MortonApart
<1>3. \A l \in P : IsFiniteSet(Below(l)) /\ Cardinality(Below(l)) \in Nat
  BY <1>1, <1>2, FS_Subset, FS_CardinalityType
<1>4. \A l \in P : Cardinality(Below(l)) \in 0..(n - 1)
  <2> SUFFICES ASSUME NEW l \in P PROVE Cardinality(Below(l)) \in 0..(n - 1)
    OBVIOUS
  <2>1. /\ Cardinality(Below(l)) <= n
        /\ n = Cardinality(Below(l)) => P = Below(l)
    BY <1>1, <1>2, FS_Subset
  <2> HIDE DEF Below
  <2> QED BY <1>1, <1>2, <1>3, <2>1
<1>5. ASSUME NEW l \in P, NEW m \in P, Morton(l) < Morton(m)
      PROVE  Cardinality(Below(l)) < Cardinality(Below(m))
  <2>1. Below(l) \subseteq Below(m) /\ l \in Below(m)
    BY <1>1, <1>5, MortonApart
  <2>2. /\ Cardinality(Below(l)) <= Cardinality(Below(m))
        /\ Cardinality(Below(m)) = Cardinality(Below(l)) => Below(m) = Below(l)
    BY <1>3, <2>1, FS_Subset
  <2> HIDE DEF Below
  <2> QED BY <1>2, <1>3, <2>1, <2>2
<1>6. \A l \in P : ZOrder(g)[l] = Cardinality(Below(l))
  BY DEF ZOrder
<1>7. ZOrder(g) \in [P -> 0..(n - 1)]
  BY <1>4 DEF ZOrder
<1>8. ASSUME NEW l \in P, NEW m \in P, ZOrder(g)[l] = ZOrder(g)[m] PROVE l = m
  <2>1. Cardinality(Below(l)) = Cardinality(Below(m))
    BY <1>6, <1>8
  <2>2. Cardinality(Below(l)) \in Nat /\ Cardinality(Below(m)) \in Nat
    BY <1>3
  <2>3. Morton(l) \in Int /\ Morton(m) \in Int /\ (Morton(l) = Morton(m) => l = m)
    BY <1>1, MortonApart
  <2> HIDE DEF Below
  <2>4. ~(Morton(l) < Morton(m)) /\ ~(Morton(m) < Morton(l))
    BY <1>5, <2>1, <2>2
  <2> QED BY <2>3, <2>4
<1>9. ZOrder(g) \in Injection(P, 0..(n - 1))
  BY <1>7, <1>8 DEF Injection, IsInjective
<1>10. IsFiniteSet(0..(n - 1)) /\ Cardinality(0..(n - 1)) = n
  BY <1>1, FS_Interval
<1>11. ZOrder(g) \in Surjection(P, 0..(n - 1))
  BY <1>1, <1>9, <1>10, FS_Injection
<1> QED BY <1>9, <1>11 DEF Bijection

-----------------------------------------------------------------------------
(* The state.                                                              *)

LInv == /\ options \in Options
        /\ Built => rankof \in Bijection(PlacesOf(options), Ranks)

LEMMA LayoutStep == LInv /\ [Next]_vars => LInv'
<1> SUFFICES ASSUME LInv, [Next]_vars PROVE LInv'
  OBVIOUS
<1>1. CASE Initialize
  <2>1. options' = options /\ rankof' = ZOrder(options) /\ options \in Options
    BY <1>1 DEF Initialize, LInv
  <2>2. ZOrder(options) \in Bijection(PlacesOf(options), 0..(BlocksOf(options) - 1))
    BY <2>1, ZOrderRanks
  <2>3. PlacesOf(options)' = PlacesOf(options)
    BY <2>1 DEF PlacesOf
  <2>4. Ranks' = 0..(BlocksOf(options) - 1)
    BY <2>1 DEF Ranks, BlocksOf
  <2> QED BY <2>1, <2>2, <2>3, <2>4 DEF LInv
<1>2. CASE Reset
  BY <1>2 DEF Reset, LInv, Built
<1>3. CASE UNCHANGED vars
  BY <1>3 DEF vars, LInv, Built, Ranks, PlacesOf
<1> QED BY <1>1, <1>2, <1>3 DEF Next

THEOREM LayoutInvariant == Spec => []LInv
<1>1. Init => LInv
  BY DEF Init, LInv, Built
<1> QED BY <1>1, LayoutStep, PTL DEF Spec

-----------------------------------------------------------------------------
(* Directions.                                                             *)

Axes(o) == {i \in 1..3 : o[i] # 0}

LEMMA DirectionParts ==
  ASSUME NEW o \in Directions
  PROVE  \E a, b, c \in -1..1 :
           /\ o = <<a, b, c>> /\ ~(a = 0 /\ b = 0 /\ c = 0)
           /\ options.type = "slab" => c = 0
           /\ a \in Along(1) /\ b \in Along(2)
           /\ options.type # "slab" => c \in Along(3)
           /\ options.skip_corner => Cardinality(Axes(o)) = 1
BY DEF Directions, Along, Axes

\* What changes signs only makes a direction of a direction.
LEMMA DirectionOf ==
  ASSUME NEW o \in Directions, NEW a \in -1..1, NEW b \in -1..1, NEW c \in -1..1,
         a = o[1] \/ a = -o[1], b = o[2] \/ b = -o[2], c = o[3] \/ c = -o[3]
  PROVE  <<a, b, c>> \in Directions
<1>1. PICK x \in -1..1, y \in -1..1, z \in -1..1 :
        /\ o = <<x, y, z>> /\ ~(x = 0 /\ y = 0 /\ z = 0)
        /\ options.type = "slab" => z = 0
        /\ x \in Along(1) /\ y \in Along(2)
        /\ options.type # "slab" => z \in Along(3)
        /\ options.skip_corner => Cardinality(Axes(o)) = 1
  BY DirectionParts
<1>2. /\ a = x \/ a = -x
      /\ b = y \/ b = -y
      /\ c = z \/ c = -z
  BY <1>1
<1>3. /\ a \in Along(1) /\ b \in Along(2)
      /\ c \in (IF options.type = "slab" THEN {0} ELSE Along(3))
  BY <1>1, <1>2 DEF Along
<1>4. <<a, b, c>> # <<0, 0, 0>>
  BY <1>1, <1>2
<1>5. Axes(<<a, b, c>>) = Axes(o)
  BY <1>1, <1>2 DEF Axes
<1> QED BY <1>1, <1>3, <1>4, <1>5 DEF Directions, Axes

LEMMA MinusDirection ==
  ASSUME NEW o \in Directions
  PROVE  Minus(o) \in Directions /\ Minus(Minus(o)) = o /\ o \in Offsets
<1>1. PICK x \in -1..1, y \in -1..1, z \in -1..1 :
        o = <<x, y, z>> /\ ~(x = 0 /\ y = 0 /\ z = 0)
  BY DirectionParts
<1>2. Minus(o) = <<-x, -y, -z>> /\ Minus(Minus(o)) = o
  BY <1>1 DEF Minus
<1>3. o \in Offsets
  BY <1>1 DEF Offsets
<1>4. Minus(o) \in Directions
  BY <1>1, <1>2, DirectionOf
<1> QED BY <1>2, <1>3, <1>4

LEMMA Remapping ==
  ASSUME NEW l, NEW o \in Directions
  PROVE  RemapOffset(l, o) \in Directions /\ RemapOffset(l, RemapOffset(l, o)) = o
<1>1. PICK x \in -1..1, y \in -1..1, z \in -1..1 : o = <<x, y, z>>
  BY DirectionParts
<1>2. PICK a \in {-1, 1}, b \in {-1, 1}, c \in {-1, 1} : Flip(l) = <<a, b, c>>
  BY DEF Flip
<1>3. RemapOffset(l, o) = <<a * x, b * y, c * z>>
  BY <1>1, <1>2 DEF RemapOffset
<1>4. /\ a * x \in -1..1 /\ (a * x = x \/ a * x = -x) /\ a * (a * x) = x
      /\ b * y \in -1..1 /\ (b * y = y \/ b * y = -y) /\ b * (b * y) = y
      /\ c * z \in -1..1 /\ (c * z = z \/ c * z = -z) /\ c * (c * z) = z
  <2>1. \A s \in {-1, 1}, v \in -1..1 :
          s * v \in -1..1 /\ (s * v = v \/ s * v = -v) /\ s * (s * v) = v
    OBVIOUS
  <2> QED BY <2>1
<1>5. RemapOffset(l, o) \in Directions
  BY <1>1, <1>3, <1>4, DirectionOf
<1>6. RemapOffset(l, RemapOffset(l, o)) = o
  BY <1>1, <1>2, <1>3, <1>4 DEF RemapOffset
<1> QED BY <1>5, <1>6

-----------------------------------------------------------------------------
(* Neighbors.                                                              *)

LEMMA WrapBack ==
  ASSUME NEW n \in Nat \ {0}, NEW v \in 0..(n - 1), NEW d \in -1..1,
         NEW periodic \in BOOLEAN
  PROVE  \/ Wrap(v + d, n, periodic) = -1
         \/ /\ Wrap(v + d, n, periodic) \in 0..(n - 1)
            /\ Wrap(Wrap(v + d, n, periodic) + (-d), n, periodic) = v
BY DEF Wrap

Place(l, o) == <<Wrap(l[1] + o[2], options.px, options.periodic_x),
                 Wrap(l[2] + o[1], options.py, options.periodic_y),
                 IF options.type = "slab" THEN 0
                 ELSE Wrap(l[3] + o[3], options.pz, options.periodic_z)>>

OffMesh(m) == m[1] = -1 \/ m[2] = -1 \/ m[3] = -1

LEMMA PlaceParts ==
  ASSUME options \in Options, NEW l \in PlacesOf(options)
  PROVE  \E x \in 0..(options.px - 1), y \in 0..(options.py - 1), z \in 0..(options.pz - 1) :
           l = <<x, y, z>> /\ (options.type = "slab" => z = 0)
BY OptionTypes DEF PlacesOf

LEMMA StepBack ==
  ASSUME options \in Options, NEW l \in PlacesOf(options), NEW o \in Directions,
         ~OffMesh(Place(l, o))
  PROVE  Place(l, o) \in PlacesOf(options) /\ Place(Place(l, o), Minus(o)) = l
<1>1. PICK x \in 0..(options.px - 1), y \in 0..(options.py - 1),
           z \in 0..(options.pz - 1) :
        l = <<x, y, z>> /\ (options.type = "slab" => z = 0)
  BY PlaceParts
<1>2. PICK a \in -1..1, b \in -1..1, c \in -1..1 : o = <<a, b, c>>
  BY DirectionParts
<1>3. /\ options.px \in Nat \ {0} /\ options.py \in Nat \ {0}
      /\ options.pz \in Nat \ {0} /\ options.periodic_x \in BOOLEAN
      /\ options.periodic_y \in BOOLEAN /\ options.periodic_z \in BOOLEAN
      /\ options.type = "slab" => options.pz = 1
  BY OptionTypes
<1> DEFINE X == Wrap(x + b, options.px, options.periodic_x)
           Y == Wrap(y + a, options.py, options.periodic_y)
           Z == IF options.type = "slab" THEN 0
                ELSE Wrap(z + c, options.pz, options.periodic_z)
<1>4. Place(l, o) = <<X, Y, Z>> /\ X # -1 /\ Y # -1 /\ Z # -1
  BY <1>1, <1>2 DEF Place, OffMesh
<1>5. /\ X \in 0..(options.px - 1)
      /\ Wrap(X + (-b), options.px, options.periodic_x) = x
  BY <1>3, <1>4, WrapBack
<1>6. /\ Y \in 0..(options.py - 1)
      /\ Wrap(Y + (-a), options.py, options.periodic_y) = y
  BY <1>3, <1>4, WrapBack
<1>7. /\ Z \in 0..(options.pz - 1)
      /\ (IF options.type = "slab" THEN 0
          ELSE Wrap(Z + (-c), options.pz, options.periodic_z)) = z
  BY <1>1, <1>3, <1>4, WrapBack
<1> HIDE DEF X, Y, Z
<1>8. Place(l, o) \in PlacesOf(options)
  BY <1>4, <1>5, <1>6, <1>7 DEF PlacesOf
<1>9. Place(<<X, Y, Z>>, <<-a, -b, -c>>) = <<x, y, z>>
  BY <1>5, <1>6, <1>7 DEF Place
<1> QED BY <1>1, <1>2, <1>4, <1>8, <1>9 DEF Minus

Ready == LInv /\ Built

LEMMA RanksAndPlaces ==
  ASSUME Ready
  PROVE  /\ options \in Options
         /\ rankof \in [PlacesOf(options) -> Ranks]
         /\ \A l \in PlacesOf(options) : rankof[l] \in Ranks /\ LocOf(rankof[l]) = l
         /\ \A r \in Ranks : LocOf(r) \in PlacesOf(options) /\ rankof[LocOf(r)] = r
         /\ Ranks \subseteq Nat
<1>1. options \in Options /\ rankof \in Bijection(PlacesOf(options), Ranks)
  BY DEF Ready, LInv
<1>2. /\ rankof \in [PlacesOf(options) -> Ranks]
      /\ \A l, m \in PlacesOf(options) : rankof[l] = rankof[m] => l = m
      /\ \A r \in Ranks : \E l \in PlacesOf(options) : rankof[l] = r
  BY <1>1 DEF Bijection, Injection, Surjection, IsInjective
<1>3. \A r \in Ranks : LocOf(r) \in PlacesOf(options) /\ rankof[LocOf(r)] = r
  BY <1>2 DEF LocOf
<1>4. \A l \in PlacesOf(options) : rankof[l] \in Ranks /\ LocOf(rankof[l]) = l
  BY <1>2, <1>3
<1>5. Ranks \subseteq Nat
  <2>1. BlocksOf(options) \in Nat \ {0}
    BY <1>1, PlacesFinite
  <2> QED BY <2>1 DEF Ranks, BlocksOf
<1> QED BY <1>1, <1>2, <1>3, <1>4, <1>5

LEMMA NeighborOf ==
  ASSUME Ready, NEW l \in PlacesOf(options), NEW o \in Directions
  PROVE  /\ OffMesh(Place(l, o)) => NeighborRank(l, o) = NoBlock
         /\ ~OffMesh(Place(l, o)) => /\ NeighborRank(l, o) = rankof[Place(l, o)]
                                     /\ NeighborRank(l, o) \in Ranks
                                     /\ NeighborRank(l, o) # NoBlock
<1>1. NeighborRank(l, o) = IF OffMesh(Place(l, o)) THEN NoBlock
                           ELSE rankof[Place(l, o)]
  BY DEF NeighborRank, Place, OffMesh
<1>2. ~OffMesh(Place(l, o)) => rankof[Place(l, o)] \in Ranks
  BY StepBack, RanksAndPlaces
<1>3. \A r \in Ranks : r # NoBlock
  BY RanksAndPlaces DEF NoBlock
<1> QED BY <1>1, <1>2, <1>3

Nb(r, o) == NeighborRank(LocOf(r), o)

\* If b is a's neighbor at offset o, a is b's neighbor at the opposite one.
LEMMA Mutual ==
  ASSUME Ready, NEW r \in Ranks, NEW o \in Directions, Nb(r, o) # NoBlock
  PROVE  /\ Nb(r, o) \in Ranks /\ Nb(Nb(r, o), Minus(o)) = r
         /\ LocOf(Nb(r, o)) = Place(LocOf(r), o)
<1>1. options \in Options /\ LocOf(r) \in PlacesOf(options) /\ rankof[LocOf(r)] = r
  BY RanksAndPlaces
<1>2. ~OffMesh(Place(LocOf(r), o))
  BY <1>1, NeighborOf DEF Nb
<1>3. /\ Place(LocOf(r), o) \in PlacesOf(options)
      /\ Place(Place(LocOf(r), o), Minus(o)) = LocOf(r)
  BY <1>1, <1>2, StepBack
<1>4. /\ Nb(r, o) = rankof[Place(LocOf(r), o)] /\ Nb(r, o) \in Ranks
      /\ LocOf(Nb(r, o)) = Place(LocOf(r), o)
  BY <1>1, <1>2, <1>3, NeighborOf, RanksAndPlaces DEF Nb
<1>5. ~OffMesh(LocOf(r))
  BY <1>1, PlaceParts, OptionTypes DEF OffMesh
<1>6. Nb(Nb(r, o), Minus(o)) = rankof[LocOf(r)]
  BY <1>3, <1>4, <1>5, NeighborOf, MinusDirection DEF Nb
<1> QED BY <1>1, <1>4, <1>6

\* Behind a boundary function there is no block.
LEMMA PhysicalIsOutside ==
  ASSUME options \in Options, NEW l \in PlacesOf(options), NEW o \in Directions,
         IsPhysicalBoundary(l, o)
  PROVE  OffMesh(Place(l, o))
<1>1. PICK x \in 0..(options.px - 1), y \in 0..(options.py - 1),
           z \in 0..(options.pz - 1) :
        l = <<x, y, z>> /\ (options.type = "slab" => z = 0)
  BY PlaceParts
<1>2. PICK a \in -1..1, b \in -1..1, c \in -1..1 :
        /\ o = <<a, b, c>> /\ ~(a = 0 /\ b = 0 /\ c = 0)
        /\ options.type = "slab" => c = 0
  BY DirectionParts
<1>3. /\ options.px \in Nat \ {0} /\ options.py \in Nat \ {0}
      /\ options.pz \in Nat \ {0}
  BY OptionTypes
<1>4. ASSUME NEW v \in Int, NEW n \in Nat \ {0}, NEW d \in {-1, 1},
             NEW periodic, HasBoundary(v, d, n, periodic)
      PROVE  Wrap(v + d, n, periodic) = -1
  BY <1>4 DEF HasBoundary, Wrap
<1>5. CASE a # 0
  <2>1. HasBoundary(y, a, options.py, options.periodic_y)
    BY <1>1, <1>2, <1>5 DEF IsPhysicalBoundary
  <2>2. Wrap(y + a, options.py, options.periodic_y) = -1
    BY <1>2, <1>3, <1>4, <1>5, <2>1
  <2> QED BY <1>1, <1>2, <2>2 DEF Place, OffMesh
<1>6. CASE a = 0 /\ b # 0
  <2>1. HasBoundary(x, b, options.px, options.periodic_x)
    BY <1>1, <1>2, <1>6 DEF IsPhysicalBoundary
  <2>2. Wrap(x + b, options.px, options.periodic_x) = -1
    BY <1>2, <1>3, <1>4, <1>6, <2>1
  <2> QED BY <1>1, <1>2, <2>2 DEF Place, OffMesh
<1>7. CASE a = 0 /\ b = 0
  <2>1. c # 0 /\ options.type # "slab"
    BY <1>2, <1>7
  <2>2. HasBoundary(z, c, options.pz, options.periodic_z)
    BY <1>1, <1>2, <1>7 DEF IsPhysicalBoundary
  <2>3. Wrap(z + c, options.pz, options.periodic_z) = -1
    BY <1>2, <1>3, <1>4, <2>1, <2>2
  <2> QED BY <1>1, <1>2, <2>1, <2>3 DEF Place, OffMesh
<1> QED BY <1>5, <1>6, <1>7

\* A block packs a buffer for each of its neighbors.
LEMMA BuffersOf ==
  ASSUME Ready, NEW r \in Ranks
  PROVE  Buffers(r) = {o \in Directions : Nb(r, o) # NoBlock}
<1>1. options \in Options /\ LocOf(r) \in PlacesOf(options)
  BY RanksAndPlaces
<1>2. \A o \in Directions : IsPhysicalBoundary(LocOf(r), o) => Nb(r, o) = NoBlock
  BY <1>1, PhysicalIsOutside, NeighborOf DEF Nb
<1> QED BY <1>2 DEF Buffers, Nb

LEMMA BufferAnswered ==
  ASSUME Ready, NEW r \in Ranks, NEW o \in Buffers(r)
  PROVE  /\ o \in Directions /\ Minus(o) \in Directions /\ Minus(Minus(o)) = o
         /\ o \in Offsets /\ Minus(o) \in Offsets
         /\ Nb(r, o) \in Ranks /\ Nb(r, o) # NoBlock
         /\ Minus(o) \in Buffers(Nb(r, o)) /\ Nb(Nb(r, o), Minus(o)) = r
<1>1. o \in Directions /\ Nb(r, o) # NoBlock
  BY BuffersOf
<1>2. /\ Minus(o) \in Directions /\ Minus(Minus(o)) = o
      /\ o \in Offsets /\ Minus(o) \in Offsets
  BY <1>1, MinusDirection
<1>3. Nb(r, o) \in Ranks /\ Nb(Nb(r, o), Minus(o)) = r
  BY <1>1, Mutual
<1>4. r # NoBlock
  BY RanksAndPlaces DEF NoBlock
<1>5. Minus(o) \in Buffers(Nb(r, o))
  BY <1>2, <1>3, <1>4, BuffersOf
<1> QED BY <1>1, <1>2, <1>3, <1>5

-----------------------------------------------------------------------------
(* The plan of an exchange.                                                *)

LEMMA VisitedAll ==
  ASSUME Ready
  PROVE  Visited = Ranks \X Directions
<1>1. Visited \subseteq Ranks \X Directions
  BY Remapping DEF Visited
<1>2. ASSUME NEW r \in Ranks, NEW o \in Directions PROVE <<r, o>> \in Visited
  <2>1. /\ RemapOffset(LocOf(r), o) \in Directions
        /\ RemapOffset(LocOf(r), RemapOffset(LocOf(r), o)) = o
    BY Remapping
  <2> QED BY <2>1 DEF Visited
<1> QED BY <1>1, <1>2

Together(r, o) == OwnerProcess(Nb(r, o)) = OwnerProcess(r)

\* What is copied: the buffers for neighbors of the same process.
LEMMA HereCopies ==
  ASSUME Ready
  PROVE  \A y : y \in LocalCopies \cup SelfCopies <=>
                \E r \in Ranks : \E o \in Buffers(r) :
                  Together(r, o) /\ y = <<r, o, Nb(r, o), Minus(o)>>
<1>1. ASSUME NEW y \in LocalCopies
      PROVE  \E r \in Ranks : \E o \in Buffers(r) :
               Together(r, o) /\ y = <<r, o, Nb(r, o), Minus(o)>>
  <2>1. PICK x \in Visited :
          /\ Nb(x[1], x[2]) # NoBlock
          /\ OwnerProcess(Nb(x[1], x[2])) = OwnerProcess(x[1])
          /\ y = CopyOf(x[1], x[2])
    BY <1>1 DEF LocalCopies, Nb
  <2>2. x[1] \in Ranks /\ x[2] \in Directions
    BY VisitedAll
  <2>3. x[2] \in Buffers(x[1])
    BY <2>1, <2>2, BuffersOf
  <2>4. y = <<x[1], x[2], Nb(x[1], x[2]), Minus(x[2])>>
    BY <2>1 DEF CopyOf, PeerOffset, Nb
  <2> QED BY <2>1, <2>2, <2>3, <2>4 DEF Together
<1>2. ASSUME NEW y \in SelfCopies
      PROVE  \E r \in Ranks : \E o \in Buffers(r) :
               Together(r, o) /\ y = <<r, o, Nb(r, o), Minus(o)>>
  <2>1. PICK x \in Ranks \X Directions :
          /\ x[2] \in Buffers(x[1]) /\ Nb(x[1], x[2]) = x[1]
          /\ y = <<x[1], x[2], x[1], Minus(x[2])>>
    BY <1>2 DEF SelfCopies, Nb
  <2> QED BY <2>1 DEF Together
<1>3. ASSUME NEW r \in Ranks, NEW o \in Buffers(r), Together(r, o)
      PROVE  <<r, o, Nb(r, o), Minus(o)>> \in LocalCopies \cup SelfCopies
  <2>1. o \in Directions /\ Nb(r, o) # NoBlock
    BY BuffersOf
  <2>2. CASE Nb(r, o) = r
    <3>1. <<r, o>> \in {y \in Ranks \X Directions :
                  y[2] \in Buffers(y[1]) /\ NeighborRank(LocOf(y[1]), y[2]) = y[1]}
      BY <2>1, <2>2 DEF Nb
    <3>2. <<r, o, r, Minus(o)>> \in SelfCopies
      BY <3>1 DEF SelfCopies
    <3> QED BY <2>2, <3>2
  <2>3. CASE Nb(r, o) # r
    <3>1. <<r, o>> \in Visited
      BY <2>1, VisitedAll
    <3>2. CopyOf(r, o) \in LocalCopies
      BY <1>3, <2>1, <2>3, <3>1 DEF LocalCopies, Together, Nb
    <3> QED BY <3>2 DEF CopyOf, PeerOffset, Nb
  <2> QED BY <2>2, <2>3
<1> QED BY <1>1, <1>2, <1>3

\* What is sent: the buffers for neighbors of other processes.
LEMMA Ops ==
  \A s : s \in RemoteOps <=> \E r \in Ranks : \E o \in Buffers(r) :
                               ~Together(r, o) /\ s = RemoteOp(r, o)
<1>1. ASSUME NEW s \in RemoteOps
      PROVE  \E r \in Ranks : \E o \in Buffers(r) :
               ~Together(r, o) /\ s = RemoteOp(r, o)
  BY <1>1 DEF RemoteOps, Together, Nb
<1>2. ASSUME NEW r \in Ranks, NEW o \in Buffers(r), ~Together(r, o)
      PROVE  RemoteOp(r, o) \in RemoteOps
  <2>1. <<r, o>> \in Ranks \X Directions
    BY DEF Buffers
  <2> QED BY <1>2, <2>1 DEF RemoteOps, Together, Nb
<1> QED BY <1>1, <1>2

\* A block is known by its process and its number there.
LEMMA SameBlock ==
  ASSUME Ready, NEW a \in Ranks, NEW b \in Ranks,
         OwnerProcess(a) = OwnerProcess(b), LocalIndex(a) = LocalIndex(b)
  PROVE  a = b
<1>1. a \in Nat /\ b \in Nat /\ options.blocks_per_process \in Nat \ {0}
  BY RanksAndPlaces, OptionTypes
<1>2. \A r \in Nat, n \in Nat \ {0} : r = n * (r \div n) + (r % n)
  OBVIOUS
<1> QED BY <1>1, <1>2 DEF OwnerProcess, LocalIndex

LEMMA LocalIndexType ==
  ASSUME Ready, NEW a \in Ranks
  PROVE  LocalIndex(a) \in Nat
<1>1. a \in Nat /\ options.blocks_per_process \in Nat \ {0}
  BY RanksAndPlaces, OptionTypes
<1> QED BY <1>1 DEF LocalIndex

LEMMA TagDigits ==
  ASSUME NEW i \in Nat, NEW j \in Nat, NEW x \in Nat, NEW y \in Nat,
         x < 27, y < 27, 0 * 1024 + i * 32 + x = 0 * 1024 + j * 32 + y
  PROVE  i = j /\ x = y
BY SMT

\* A message meets the receive of the block and for the buffer it is meant for.
LEMMA MeetsItsReceive ==
  ASSUME Ready, NEW a \in Ranks, NEW p \in Buffers(a),
         NEW b \in Ranks, NEW q \in Buffers(b)
  PROVE  Meets(RemoteOp(a, p), RemoteOp(b, q)) <=> b = Nb(a, p) /\ q = Minus(p)
<1>1. /\ p \in Offsets /\ Minus(p) \in Offsets /\ q \in Offsets
      /\ Nb(a, p) \in Ranks /\ Nb(Nb(a, p), Minus(p)) = a
  BY BufferAnswered
<1> DEFINE tag(r, o) == CommTag(LocalIndex(r), o, 0)
<1>2. /\ RemoteOp(a, p).process = OwnerProcess(a)
      /\ RemoteOp(a, p).remote_process = OwnerProcess(Nb(a, p))
      /\ RemoteOp(a, p).send_tag = tag(Nb(a, p), Minus(p))
  BY DEF RemoteOp, PeerOffset, Nb
<1>3. /\ RemoteOp(b, q).process = OwnerProcess(b)
      /\ RemoteOp(b, q).remote_process = OwnerProcess(Nb(b, q))
      /\ RemoteOp(b, q).recv_tag = tag(b, q)
  BY DEF RemoteOp, Nb
<1>4. ASSUME tag(Nb(a, p), Minus(p)) = tag(b, q)
      PROVE  LocalIndex(Nb(a, p)) = LocalIndex(b) /\ Minus(p) = q
  <2>1. LocalIndex(Nb(a, p)) \in Nat /\ LocalIndex(b) \in Nat
    BY <1>1, LocalIndexType
  <2>2. /\ BufferId(Minus(p)) \in Nat /\ BufferId(Minus(p)) < 27
        /\ BufferId(q) \in Nat /\ BufferId(q) < 27
        /\ BufferId(Minus(p)) = BufferId(q) => Minus(p) = q
    BY <1>1, BufferIds
  <2>3. 0 * 1024 + LocalIndex(Nb(a, p)) * 32 + BufferId(Minus(p))
          = 0 * 1024 + LocalIndex(b) * 32 + BufferId(q)
    BY <1>4 DEF CommTag
  <2>4. PICK i \in Nat, j \in Nat, x \in Nat, y \in Nat :
          /\ i = LocalIndex(Nb(a, p)) /\ j = LocalIndex(b)
          /\ x = BufferId(Minus(p)) /\ y = BufferId(q)
    BY <2>1, <2>2
  <2>5. x < 27 /\ y < 27 /\ 0 * 1024 + i * 32 + x = 0 * 1024 + j * 32 + y
    BY <2>2, <2>3, <2>4
  <2>6. i = j /\ x = y
    BY <2>5, TagDigits
  <2> QED BY <2>2, <2>4, <2>6
<1> HIDE DEF tag
<1>5. ASSUME Meets(RemoteOp(a, p), RemoteOp(b, q)) PROVE b = Nb(a, p) /\ q = Minus(p)
  BY <1>1, <1>2, <1>3, <1>4, <1>5, SameBlock DEF Meets
<1>6. ASSUME b = Nb(a, p), q = Minus(p) PROVE Meets(RemoteOp(a, p), RemoteOp(b, q))
  BY <1>1, <1>2, <1>3, <1>6 DEF Meets
<1> QED BY <1>5, <1>6

LEMMA TypesHold == LInv => TypeOK
<1> SUFFICES ASSUME LInv PROVE TypeOK
  OBVIOUS
<1>1. CASE Built
  <2>1. /\ rankof \in [PlacesOf(options) -> Ranks]
        /\ \A r \in Ranks : LocOf(r) \in PlacesOf(options) /\ rankof[LocOf(r)] = r
    BY <1>1, RanksAndPlaces DEF Ready
  <2>2. {rankof[l] : l \in PlacesOf(options)} = Ranks
    BY <2>1
  <2> QED BY <2>1, <2>2 DEF TypeOK, LInv
<1> QED BY <1>1 DEF TypeOK, LInv

LEMMA MutualHolds == LInv => NeighborsAreMutual
<1> SUFFICES ASSUME LInv PROVE NeighborsAreMutual
  OBVIOUS
<1>1. ASSUME Built, NEW l \in PlacesOf(options), NEW o \in Directions,
             NeighborRank(l, o) # NoBlock
      PROVE  NeighborRank(LocOf(NeighborRank(l, o)), Minus(o)) = rankof[l]
  <2>1. Ready
    BY <1>1 DEF Ready
  <2>2. rankof[l] \in Ranks /\ LocOf(rankof[l]) = l
    BY <2>1, RanksAndPlaces
  <2>3. Nb(rankof[l], o) = NeighborRank(l, o)
    BY <2>2 DEF Nb
  <2>4. Nb(Nb(rankof[l], o), Minus(o)) = rankof[l]
    BY <1>1, <2>1, <2>2, <2>3, Mutual
  <2> QED BY <2>3, <2>4 DEF Nb
<1> QED BY <1>1, TypesHold DEF NeighborsAreMutual

LEMMA PackedHolds == LInv => OnlyPackedBuffers
<1> SUFFICES ASSUME LInv, Built, NEW x \in LocalCopies \cup SelfCopies
             PROVE  x[2] \in Buffers(x[1]) /\ x[4] \in Buffers(x[3])
  BY DEF OnlyPackedBuffers
<1>1. Ready
  BY DEF Ready
<1>2. PICK r \in Ranks, o \in Directions :
        o \in Buffers(r) /\ x = <<r, o, Nb(r, o), Minus(o)>>
  BY <1>1, HereCopies DEF Buffers
<1>3. Minus(o) \in Buffers(Nb(r, o))
  BY <1>1, <1>2, BufferAnswered
<1> QED BY <1>2, <1>3

LEMMA FilledHolds == LInv => GhostsFilledOnce
<1> DEFINE here == LocalCopies \cup SelfCopies
           copied(r, o) == {<<x[1], x[2]>> : x \in {y \in here : y[3] = r /\ y[4] = o}}
           mine(r, o) == {t \in RemoteOps : t.rank = r /\ t.buffer = o}
           arriving(r, o) == {s \in RemoteOps : \E t \in mine(r, o) : Meets(s, t)}
           arrived(r, o) == {<<s.rank, s.buffer>> : s \in arriving(r, o)}
<1> SUFFICES ASSUME LInv, Built, NEW r \in Ranks, NEW o \in Buffers(r)
             PROVE  copied(r, o) \cup arrived(r, o) = {<<Nb(r, o), Minus(o)>>}
  BY DEF GhostsFilledOnce, Nb
<1>1. Ready
  BY DEF Ready
<1>2. /\ Nb(r, o) \in Ranks /\ Minus(o) \in Buffers(Nb(r, o))
      /\ Nb(Nb(r, o), Minus(o)) = r /\ Minus(Minus(o)) = o
  BY <1>1, BufferAnswered
<1>3. ASSUME NEW a \in Ranks, NEW p \in Buffers(a), r = Nb(a, p), o = Minus(p)
      PROVE  a = Nb(r, o) /\ p = Minus(o)
  BY <1>1, <1>3, BufferAnswered
<1>4. ASSUME NEW x \in copied(r, o)
      PROVE  Together(r, o) /\ x = <<Nb(r, o), Minus(o)>>
  <2>1. PICK y \in here : y[3] = r /\ y[4] = o /\ x = <<y[1], y[2]>>
    OBVIOUS
  <2>2. PICK a \in Ranks, p \in Directions :
          p \in Buffers(a) /\ Together(a, p) /\ y = <<a, p, Nb(a, p), Minus(p)>>
    BY <1>1, HereCopies DEF Buffers
  <2>3. a = Nb(r, o) /\ p = Minus(o)
    BY <1>3, <2>1, <2>2
  <2> QED BY <1>2, <2>1, <2>2, <2>3 DEF Together
<1>5. ASSUME NEW x \in arrived(r, o)
      PROVE  ~Together(r, o) /\ x = <<Nb(r, o), Minus(o)>>
  <2>1. PICK s \in RemoteOps, t \in RemoteOps :
          /\ t.rank = r /\ t.buffer = o /\ Meets(s, t)
          /\ x = <<s.rank, s.buffer>>
    OBVIOUS
  <2>2. PICK a \in Ranks, p \in Directions :
          p \in Buffers(a) /\ ~Together(a, p) /\ s = RemoteOp(a, p)
    BY Ops DEF Buffers
  <2>3. PICK b \in Ranks, q \in Directions :
          q \in Buffers(b) /\ ~Together(b, q) /\ t = RemoteOp(b, q)
    BY Ops DEF Buffers
  <2>4. s.rank = a /\ s.buffer = p /\ b = r /\ q = o
    BY <2>1, <2>2, <2>3 DEF RemoteOp
  <2>5. r = Nb(a, p) /\ o = Minus(p)
    BY <1>1, <2>1, <2>2, <2>3, <2>4, MeetsItsReceive
  <2> QED BY <1>3, <2>1, <2>2, <2>3, <2>4, <2>5
<1>6. ASSUME Together(r, o) PROVE <<Nb(r, o), Minus(o)>> \in copied(r, o)
  <2>1. <<Nb(r, o), Minus(o), r, o>> \in here
    BY <1>1, <1>2, <1>6, HereCopies DEF Together
  <2> QED BY <2>1
<1>7. ASSUME ~Together(r, o) PROVE <<Nb(r, o), Minus(o)>> \in arrived(r, o)
  <2>1. /\ RemoteOp(r, o) \in RemoteOps
        /\ RemoteOp(Nb(r, o), Minus(o)) \in RemoteOps
    BY <1>2, <1>7, Ops DEF Together
  <2>2. Meets(RemoteOp(Nb(r, o), Minus(o)), RemoteOp(r, o))
    BY <1>1, <1>2, MeetsItsReceive
  <2>3. /\ RemoteOp(r, o).rank = r /\ RemoteOp(r, o).buffer = o
        /\ RemoteOp(Nb(r, o), Minus(o)).rank = Nb(r, o)
        /\ RemoteOp(Nb(r, o), Minus(o)).buffer = Minus(o)
    BY DEF RemoteOp
  <2>4. RemoteOp(Nb(r, o), Minus(o)) \in arriving(r, o)
    BY <2>1, <2>2, <2>3
  <2> QED BY <2>3, <2>4
<1> HIDE DEF copied, arrived
<1> QED BY <1>4, <1>5, <1>6, <1>7

LEMMA PairsHold == LInv => MessagesPairUp
<1> SUFFICES ASSUME LInv, Built, NEW s \in RemoteOps
             PROVE  /\ Cardinality({t \in RemoteOps : Meets(s, t)}) = 1
                    /\ Cardinality({t \in RemoteOps : Meets(t, s)}) = 1
  BY DEF MessagesPairUp
<1>1. Ready
  BY DEF Ready
<1>2. PICK a \in Ranks, p \in Directions :
        p \in Buffers(a) /\ ~Together(a, p) /\ s = RemoteOp(a, p)
  BY Ops DEF Buffers
<1> DEFINE back == RemoteOp(Nb(a, p), Minus(p))
<1>3. /\ Nb(a, p) \in Ranks /\ Minus(p) \in Buffers(Nb(a, p))
      /\ Nb(Nb(a, p), Minus(p)) = a /\ Minus(Minus(p)) = p
  BY <1>1, <1>2, BufferAnswered
<1>4. back \in RemoteOps
  BY <1>2, <1>3, Ops DEF Together
<1>5. Meets(s, back) /\ Meets(back, s)
  BY <1>1, <1>2, <1>3, MeetsItsReceive
<1>6. ASSUME NEW t \in RemoteOps, Meets(s, t) \/ Meets(t, s) PROVE t = back
  <2>1. PICK b \in Ranks, q \in Directions :
          q \in Buffers(b) /\ t = RemoteOp(b, q)
    BY Ops DEF Buffers
  <2>2. CASE Meets(s, t)
    BY <1>1, <1>2, <2>1, <2>2, MeetsItsReceive
  <2>3. CASE Meets(t, s)
    <3>1. a = Nb(b, q) /\ p = Minus(q)
      BY <1>1, <1>2, <2>1, <2>3, MeetsItsReceive
    <3>2. Nb(Nb(b, q), Minus(q)) = b /\ Minus(Minus(q)) = q
      BY <1>1, <2>1, BufferAnswered
    <3> QED BY <2>1, <3>1, <3>2
  <2> QED BY <1>6, <2>2, <2>3
<1> HIDE DEF back
<1>7. {t \in RemoteOps : Meets(s, t)} = {back} /\ {t \in RemoteOps : Meets(t, s)} = {back}
  BY <1>4, <1>5, <1>6
<1> QED BY <1>7, FS_Singleton

\* The four parts of an exchange agree, for any layout and any spread of its
\* blocks over processes.
THEOREM PlansAgree == Spec => []PlanAgrees
<1>1. LInv => PlanAgrees
  BY MutualHolds, FilledHolds, PackedHolds, PairsHold DEF PlanAgrees
<1> QED BY <1>1, LayoutInvariant, PTL

-----------------------------------------------------------------------------
(* The order of the messages.                                              *)

\* Two steps along an axis that end at the same block, but not where they
\* began, are opposite steps on a periodic axis of two blocks, or the same.
LEMMA TwoWays ==
  ASSUME NEW n \in Nat \ {0}, NEW v \in 0..(n - 1), NEW periodic \in BOOLEAN,
         NEW d \in {-1, 1}, NEW e \in {-1, 1}, d # e,
         Wrap(v + d, n, periodic) = Wrap(v + e, n, periodic),
         Wrap(v + d, n, periodic) # -1, Wrap(v + d, n, periodic) # v
  PROVE  /\ periodic /\ n = 2 /\ e = -d /\ v \in 0..1
         /\ Wrap(v + d, n, periodic) = 1 - v
<1>1. /\ Wrap(v + (-1), n, periodic) =
            IF v > 0 THEN v - 1 ELSE IF periodic THEN n - 1 ELSE -1
      /\ Wrap(v + 1, n, periodic) =
            IF v < n - 1 THEN v + 1 ELSE IF periodic THEN 0 ELSE -1
  BY DEF Wrap
<1>2. (d = -1 /\ e = 1) \/ (d = 1 /\ e = -1)
  OBVIOUS
<1>3. Wrap(v + (-1), n, periodic) = Wrap(v + 1, n, periodic)
      /\ Wrap(v + 1, n, periodic) # -1 /\ Wrap(v + 1, n, periodic) # v
  BY <1>2
<1>4. periodic /\ n = 2 /\ v \in 0..1
  BY <1>1, <1>3
<1>5. Wrap(v + 1, n, periodic) = 1 - v
  <2>1. n = 2 /\ periodic = TRUE /\ (v = 0 \/ v = 1)
    BY <1>4
  <2>2. CASE v = 0
    BY <2>1, <2>2 DEF Wrap
  <2>3. CASE v = 1
    BY <2>1, <2>3 DEF Wrap
  <2> QED BY <2>1, <2>2, <2>3
<1>6. Wrap(v + d, n, periodic) = 1 - v
  BY <1>2, <1>3, <1>5
<1>7. e = -d
  BY <1>2
<1> QED BY <1>4, <1>6, <1>7

\* An axis along which nothing moves.
LEMMA StandStill ==
  ASSUME NEW n \in Nat \ {0}, NEW v \in 0..(n - 1), NEW periodic
  PROVE  Wrap(v + 0, n, periodic) = v
BY DEF Wrap

\* Without corners a direction is along one axis.
Straight == {<<1, 0, 0>>, <<-1, 0, 0>>, <<0, 1, 0>>, <<0, -1, 0>>, <<0, 0, 1>>, <<0, 0, -1>>}

LEMMA StraightOn ==
  ASSUME options.skip_corner, NEW o \in Directions
  PROVE  o \in Straight /\ (options.type = "slab" => o[3] = 0)
<1>1. PICK a \in -1..1, b \in -1..1, c \in -1..1 :
        /\ o = <<a, b, c>> /\ (options.type = "slab" => c = 0)
        /\ Cardinality(Axes(o)) = 1
  BY DirectionParts
<1>2. IsFiniteSet(Axes(o))
  <2>1. IsFiniteSet(1..3)
    <3>1. 1 \in Int /\ 3 \in Int
      OBVIOUS
    <3> QED BY <3>1, FS_Interval
  <2>2. Axes(o) \in SUBSET (1..3)
    BY DEF Axes
  <2> QED BY <2>1, <2>2, FS_Subset
<1>3. PICK i : Axes(o) = {i}
  BY <1>1, <1>2, FS_Singleton
<1>4. i \in 1..3 /\ o[i] # 0 /\ \A j \in 1..3 : j # i => o[j] = 0
  BY <1>3 DEF Axes
<1>5. \/ a # 0 /\ b = 0 /\ c = 0
      \/ a = 0 /\ b # 0 /\ c = 0
      \/ a = 0 /\ b = 0 /\ c # 0
  BY <1>1, <1>4
<1> QED BY <1>1, <1>5 DEF Straight

LEMMA MinusAlong ==
  \A d \in {-1, 1} : /\ Minus(<<d, 0, 0>>) = <<-d, 0, 0>>
                     /\ Minus(<<0, d, 0>>) = <<0, -d, 0>>
                     /\ Minus(<<0, 0, d>>) = <<0, 0, -d>>
<1> SUFFICES ASSUME NEW d \in {-1, 1}, NEW n \in Int, n <= 0, n >= 0
             PROVE  /\ Minus(<<d, n, n>>) = <<-d, n, n>>
                    /\ Minus(<<n, d, n>>) = <<n, -d, n>>
                    /\ Minus(<<n, n, d>>) = <<n, n, -d>>
  OBVIOUS
<1>1. -n = n
  OBVIOUS
<1> QED BY <1>1 DEF Minus

LEMMA TurnAlong ==
  ASSUME NEW l, NEW d \in {-1, 1}
  PROVE  /\ Turn(l, <<d, 0, 0>>) = 3 * (Flip(l)[1] * d)
         /\ Turn(l, <<0, d, 0>>) = Flip(l)[2] * d
         /\ Turn(l, <<0, 0, d>>) = 9 * (Flip(l)[3] * d)
         /\ \A i \in 1..3 : Flip(l)[i] \in {-1, 1}
<1>1. PICK a \in {-1, 1}, b \in {-1, 1}, c \in {-1, 1} : Flip(l) = <<a, b, c>>
  BY DEF Flip
<1>2. /\ RemapOffset(l, <<d, 0, 0>>) = <<a * d, b * 0, c * 0>>
      /\ RemapOffset(l, <<0, d, 0>>) = <<a * 0, b * d, c * 0>>
      /\ RemapOffset(l, <<0, 0, d>>) = <<a * 0, b * 0, c * d>>
  BY <1>1 DEF RemapOffset
<1>3. a * 0 = 0 /\ b * 0 = 0 /\ c * 0 = 0
  OBVIOUS
<1>4. a * d \in Int /\ b * d \in Int /\ c * d \in Int
  OBVIOUS
<1> QED BY <1>1, <1>2, <1>3, <1>4 DEF Turn

\* Two ways to one and the same block, by offsets o and p, are opposite, and
\* that block comes to their opposites in the same turns.
LEMMA SameTurns ==
  ASSUME options \in Options, options.skip_corner, NEW l \in PlacesOf(options),
         NEW o \in Directions, NEW p \in Directions, o # p,
         Place(l, o) = Place(l, p), ~OffMesh(Place(l, o)), Place(l, o) # l
  PROVE  /\ Turn(Place(l, o), Minus(o)) = Turn(l, o)
         /\ Turn(Place(l, o), Minus(p)) = Turn(l, p)
<1> DEFINE m == Place(l, o)
<1>1. PICK x \in 0..(options.px - 1), y \in 0..(options.py - 1),
           z \in 0..(options.pz - 1) :
        l = <<x, y, z>> /\ (options.type = "slab" => z = 0)
  BY PlaceParts
<1>2. /\ options.px \in Nat \ {0} /\ options.py \in Nat \ {0}
      /\ options.pz \in Nat \ {0} /\ options.periodic_x \in BOOLEAN
      /\ options.periodic_y \in BOOLEAN /\ options.periodic_z \in BOOLEAN
  BY OptionTypes
<1> DEFINE X(d) == Wrap(x + d, options.px, options.periodic_x)
           Y(d) == Wrap(y + d, options.py, options.periodic_y)
           Z(d) == Wrap(z + d, options.pz, options.periodic_z)
<1>3. X(0) = x /\ Y(0) = y /\ Z(0) = z
  BY <1>2, StandStill
<1> HIDE DEF X, Y, Z
<1>4. \A a, b, c \in -1..1 :
        Place(l, <<a, b, c>>)
          = <<X(b), Y(a), IF options.type = "slab" THEN 0 ELSE Z(c)>>
  BY <1>1 DEF Place, X, Y, Z
<1>5. PICK a \in -1..1, b \in -1..1, c \in -1..1 :
        o = <<a, b, c>> /\ (options.type = "slab" => c = 0)
  BY DirectionParts
<1>6. PICK d \in -1..1, e \in -1..1, f \in -1..1 :
        p = <<d, e, f>> /\ (options.type = "slab" => f = 0)
  BY DirectionParts
<1>7. o \in Straight /\ p \in Straight
  BY StraightOn
<1>8. m = <<X(b), Y(a), IF options.type = "slab" THEN 0 ELSE Z(c)>>
      /\ m = <<X(e), Y(d), IF options.type = "slab" THEN 0 ELSE Z(f)>>
  BY <1>4, <1>5, <1>6
<1>9. CASE b # 0
  <2>1. a = 0 /\ c = 0 /\ b \in {-1, 1}
    BY <1>5, <1>7, <1>9 DEF Straight
  <2>2. m = <<X(b), y, z>> /\ X(b) # x /\ X(b) # -1
    BY <1>1, <1>3, <1>8, <2>1 DEF OffMesh
  <2>3. e # 0 /\ e \in {-1, 1} /\ d = 0 /\ f = 0 /\ X(e) = X(b)
    BY <1>3, <1>6, <1>7, <1>8, <2>2 DEF Straight
  <2>4. options.periodic_x /\ options.px = 2 /\ e = -b /\ x \in 0..1 /\ X(b) = 1 - x
    <3>1. b # e
      BY <1>5, <1>6, <2>1, <2>3
    <3> QED BY <1>2, <2>1, <2>2, <2>3, <3>1, TwoWays DEF X
  <2>5. Flip(m)[2] = -Flip(l)[2]
    BY <1>1, <2>2, <2>4 DEF Flip
  <2>6. Minus(o) = <<0, -b, 0>> /\ Minus(p) = <<0, -e, 0>>
    BY <1>5, <1>6, <2>1, <2>3, MinusAlong
  <2>7. /\ Turn(l, o) = Flip(l)[2] * b /\ Turn(l, p) = Flip(l)[2] * e
        /\ Turn(m, Minus(o)) = Flip(m)[2] * (-b)
        /\ Turn(m, Minus(p)) = Flip(m)[2] * (-e)
        /\ Flip(l)[2] \in {-1, 1}
    BY <1>5, <1>6, <2>1, <2>3, <2>6, TurnAlong
  <2> QED BY <2>1, <2>3, <2>5, <2>7
<1>10. CASE a # 0
  <2>1. b = 0 /\ c = 0 /\ a \in {-1, 1}
    BY <1>5, <1>7, <1>10 DEF Straight
  <2>2. m = <<x, Y(a), z>> /\ Y(a) # y /\ Y(a) # -1
    BY <1>1, <1>3, <1>8, <2>1 DEF OffMesh
  <2>3. d # 0 /\ d \in {-1, 1} /\ e = 0 /\ f = 0 /\ Y(d) = Y(a)
    BY <1>3, <1>6, <1>7, <1>8, <2>2 DEF Straight
  <2>4. options.periodic_y /\ options.py = 2 /\ d = -a /\ y \in 0..1 /\ Y(a) = 1 - y
    <3>1. a # d
      BY <1>5, <1>6, <2>1, <2>3
    <3> QED BY <1>2, <2>1, <2>2, <2>3, <3>1, TwoWays DEF Y
  <2>5. Flip(m)[1] = -Flip(l)[1]
    BY <1>1, <2>2, <2>4 DEF Flip
  <2>6. Minus(o) = <<-a, 0, 0>> /\ Minus(p) = <<-d, 0, 0>>
    BY <1>5, <1>6, <2>1, <2>3, MinusAlong
  <2>7. /\ Turn(l, o) = 3 * (Flip(l)[1] * a) /\ Turn(l, p) = 3 * (Flip(l)[1] * d)
        /\ Turn(m, Minus(o)) = 3 * (Flip(m)[1] * (-a))
        /\ Turn(m, Minus(p)) = 3 * (Flip(m)[1] * (-d))
        /\ Flip(l)[1] \in {-1, 1}
    BY <1>5, <1>6, <2>1, <2>3, <2>6, TurnAlong
  <2> QED BY <2>1, <2>3, <2>5, <2>7
<1>11. CASE c # 0
  <2>1. a = 0 /\ b = 0 /\ c \in {-1, 1} /\ options.type # "slab"
    BY <1>5, <1>7, <1>11 DEF Straight
  <2>2. m = <<x, y, Z(c)>> /\ Z(c) # z /\ Z(c) # -1
    BY <1>1, <1>3, <1>8, <2>1 DEF OffMesh
  <2>3. f # 0 /\ f \in {-1, 1} /\ d = 0 /\ e = 0 /\ Z(f) = Z(c)
    BY <1>3, <1>6, <1>7, <1>8, <2>1, <2>2 DEF Straight
  <2>4. options.periodic_z /\ options.pz = 2 /\ f = -c /\ z \in 0..1 /\ Z(c) = 1 - z
    <3>1. c # f
      BY <1>5, <1>6, <2>1, <2>3
    <3> QED BY <1>2, <2>1, <2>2, <2>3, <3>1, TwoWays DEF Z
  <2>5. Flip(m)[3] = -Flip(l)[3]
    BY <1>1, <2>2, <2>4 DEF Flip
  <2>6. Minus(o) = <<0, 0, -c>> /\ Minus(p) = <<0, 0, -f>>
    BY <1>5, <1>6, <2>1, <2>3, MinusAlong
  <2>7. /\ Turn(l, o) = 9 * (Flip(l)[3] * c) /\ Turn(l, p) = 9 * (Flip(l)[3] * f)
        /\ Turn(m, Minus(o)) = 9 * (Flip(m)[3] * (-c))
        /\ Turn(m, Minus(p)) = 9 * (Flip(m)[3] * (-f))
        /\ Flip(l)[3] \in {-1, 1}
    BY <1>5, <1>6, <2>1, <2>3, <2>6, TurnAlong
  <2> QED BY <2>1, <2>3, <2>5, <2>7
<1>12. a # 0 \/ b # 0 \/ c # 0
  BY <1>5, <1>7 DEF Straight
<1> QED BY <1>9, <1>10, <1>11, <1>12

\* Without corners two blocks send each other their messages in the order in
\* which they receive them, whether or not each has a process of its own.
THEOREM OrderIsKept == Spec => []OrderMatches
<1>1. LInv => OrderMatches
  <2> SUFFICES ASSUME LInv, Built, options.skip_corner,
                      NEW l \in PlacesOf(options),
                      NEW o \in Buffers(rankof[l]), NEW p \in Buffers(rankof[l]),
                      NeighborRank(l, o) # rankof[l],
                      NeighborRank(l, p) = NeighborRank(l, o),
                      Turn(l, o) < Turn(l, p)
               PROVE  Turn(LocOf(NeighborRank(l, o)), Minus(o))
                        < Turn(LocOf(NeighborRank(l, o)), Minus(p))
    BY DEF OrderMatches
  <2>1. Ready /\ rankof[l] \in Ranks /\ LocOf(rankof[l]) = l /\ options \in Options
    BY RanksAndPlaces DEF Ready, LInv
  <2>2. /\ o \in Directions /\ p \in Directions
        /\ NeighborRank(l, o) # NoBlock /\ NeighborRank(l, p) # NoBlock
    BY <2>1, BuffersOf DEF Nb
  <2>3. /\ LocOf(NeighborRank(l, o)) = Place(l, o)
        /\ LocOf(NeighborRank(l, p)) = Place(l, p)
    BY <2>1, <2>2, Mutual DEF Nb
  <2>4. ~OffMesh(Place(l, o)) /\ NeighborRank(l, o) = rankof[Place(l, o)]
    BY <2>1, <2>2, NeighborOf
  <2>5. Place(l, o) = Place(l, p) /\ Place(l, o) # l
    BY <2>3, <2>4
  <2>6. o # p
    <3>1. PICK x \in -1..1, y \in -1..1, z \in -1..1 : RemapOffset(l, o) = <<x, y, z>>
      BY <2>2, Remapping, DirectionParts
    <3>2. Turn(l, o) \in Int
      BY <3>1 DEF Turn
    <3> QED BY <3>2
  <2> QED BY <2>1, <2>2, <2>3, <2>4, <2>5, <2>6, SameTurns
<1> QED BY <1>1, LayoutInvariant, PTL

-----------------------------------------------------------------------------
(* What GhostExchange takes for granted.                                   *)

LEMMA TransfersAre ==
  ASSUME Ready
  PROVE  \A t : t \in PlannedTransfers <=> \E r \in Ranks : \E o \in Buffers(r) :
                                      t = <<r, o, Nb(r, o), Minus(o)>>
<1>1. ASSUME NEW s \in RemoteOps, NEW t \in RemoteOps, Meets(s, t)
      PROVE  \E r \in Ranks : \E o \in Buffers(r) :
               <<s.rank, s.buffer, t.rank, t.buffer>> = <<r, o, Nb(r, o), Minus(o)>>
  <2>1. PICK a \in Ranks, p \in Directions : p \in Buffers(a) /\ s = RemoteOp(a, p)
    BY Ops DEF Buffers
  <2>2. PICK b \in Ranks, q \in Directions : q \in Buffers(b) /\ t = RemoteOp(b, q)
    BY Ops DEF Buffers
  <2>3. b = Nb(a, p) /\ q = Minus(p)
    BY <1>1, <2>1, <2>2, MeetsItsReceive
  <2>4. s.rank = a /\ s.buffer = p /\ t.rank = b /\ t.buffer = q
    BY <2>1, <2>2 DEF RemoteOp
  <2> QED BY <2>1, <2>3, <2>4
<1>2. ASSUME NEW r \in Ranks, NEW o \in Buffers(r)
      PROVE  <<r, o, Nb(r, o), Minus(o)>> \in PlannedTransfers
  <2>1. CASE Together(r, o)
    BY <2>1, HereCopies DEF PlannedTransfers
  <2>2. CASE ~Together(r, o)
    <3> DEFINE back == RemoteOp(Nb(r, o), Minus(o))
    <3>1. /\ Nb(r, o) \in Ranks /\ Minus(o) \in Buffers(Nb(r, o))
          /\ Nb(Nb(r, o), Minus(o)) = r
      BY BufferAnswered
    <3>2. RemoteOp(r, o) \in RemoteOps /\ back \in RemoteOps
      BY <2>2, <3>1, Ops DEF Together
    <3>3. Meets(RemoteOp(r, o), back)
      BY <3>1, MeetsItsReceive
    <3>4. /\ RemoteOp(r, o).rank = r /\ RemoteOp(r, o).buffer = o
          /\ back.rank = Nb(r, o) /\ back.buffer = Minus(o)
      BY DEF RemoteOp
    <3> HIDE DEF back
    <3>5. <<RemoteOp(r, o), back>>
            \in {y \in RemoteOps \X RemoteOps : Meets(y[1], y[2])}
      BY <3>2, <3>3
    <3> QED BY <3>4, <3>5 DEF PlannedTransfers
  <2> QED BY <2>1, <2>2
<1>3. ASSUME NEW t \in PlannedTransfers
      PROVE  \E r \in Ranks : \E o \in Buffers(r) :
               t = <<r, o, Nb(r, o), Minus(o)>>
  <2>1. CASE t \in LocalCopies \cup SelfCopies
    BY <2>1, HereCopies
  <2>2. CASE t \notin LocalCopies \cup SelfCopies
    <3>1. PICK x \in RemoteOps \X RemoteOps :
            /\ Meets(x[1], x[2])
            /\ t = <<x[1].rank, x[1].buffer, x[2].rank, x[2].buffer>>
      BY <2>2 DEF PlannedTransfers
    <3> QED BY <1>1, <3>1
  <2> QED BY <2>1, <2>2
<1> QED BY <1>2, <1>3

\* The plan of any layout is one that GhostExchange assumes (PlanAssumption):
\* it is between blocks of the run, each transfer has one the other way, and no
\* two have the same receive buffer.
PlanSuits ==
  Built => /\ \A t \in PlannedTransfers : t[1] \in Ranks /\ t[3] \in Ranks
           /\ \A t \in PlannedTransfers : <<t[3], t[4], t[1], t[2]>> \in PlannedTransfers
           /\ \A s, t \in PlannedTransfers : s[3] = t[3] /\ s[4] = t[4] => s = t

\* Whatever GhostExchange_proofs proves of an exchange holds of every layout.
THEOREM PlansSuitTheExchange == Spec => []PlanSuits
<1>1. LInv => PlanSuits
  <2> SUFFICES ASSUME LInv, Built
               PROVE  /\ \A t \in PlannedTransfers : t[1] \in Ranks /\ t[3] \in Ranks
                      /\ \A t \in PlannedTransfers : <<t[3], t[4], t[1], t[2]>> \in PlannedTransfers
                      /\ \A s, t \in PlannedTransfers : s[3] = t[3] /\ s[4] = t[4] => s = t
    BY DEF PlanSuits
  <2>1. Ready
    BY DEF Ready
  <2>2. ASSUME NEW r \in Ranks, NEW o \in Buffers(r)
        PROVE  /\ Nb(r, o) \in Ranks /\ Nb(Nb(r, o), Minus(o)) = r
               /\ Minus(o) \in Buffers(Nb(r, o)) /\ Minus(Minus(o)) = o
    BY <2>1, BufferAnswered
  <2>3. ASSUME NEW t \in PlannedTransfers
        PROVE  t[1] \in Ranks /\ t[3] \in Ranks /\ <<t[3], t[4], t[1], t[2]>> \in PlannedTransfers
    <3>1. PICK r \in Ranks, o \in Directions :
            o \in Buffers(r) /\ t = <<r, o, Nb(r, o), Minus(o)>>
      BY <2>1, TransfersAre DEF Buffers
    <3>2. <<Nb(r, o), Minus(o), r, o>> \in PlannedTransfers
      BY <2>1, <2>2, <3>1, TransfersAre
    <3> QED BY <2>2, <3>1, <3>2
  <2>4. ASSUME NEW s \in PlannedTransfers, NEW t \in PlannedTransfers, s[3] = t[3], s[4] = t[4]
        PROVE  s = t
    <3>1. PICK a \in Ranks, p \in Directions :
            p \in Buffers(a) /\ s = <<a, p, Nb(a, p), Minus(p)>>
      BY <2>1, TransfersAre DEF Buffers
    <3>2. PICK b \in Ranks, q \in Directions :
            q \in Buffers(b) /\ t = <<b, q, Nb(b, q), Minus(q)>>
      BY <2>1, TransfersAre DEF Buffers
    <3>3. Nb(a, p) = Nb(b, q) /\ Minus(p) = Minus(q)
      BY <2>4, <3>1, <3>2
    <3>4. a = b /\ p = q
      BY <2>2, <3>1, <3>2, <3>3
    <3> QED BY <3>1, <3>2, <3>4
  <2> QED BY <2>3, <2>4
<1> QED BY <1>1, LayoutInvariant, PTL

-----------------------------------------------------------------------------
(* Ghost zones of a mesh: cells.                                           *)

\* A layout that is built and the input file of a mesh that is advanced.
Meshed == /\ Ready /\ Followed
          /\ shape \in [1..4 -> Nat \ {0}]
          /\ \A a \in 1..3 : shape[a] = 1 \/ shape[a] >= shape[4]
          /\ walls \in [1..6 -> Functions]
          /\ Fits(shape, walls)

LEMMA AxisParts ==
  ASSUME Meshed, NEW a \in 1..3
  PROVE  /\ Blocks[a] \in Nat \ {0} /\ Periodic[a] \in BOOLEAN
         /\ shape[a] \in Nat \ {0} /\ Nghost(a) \in Nat /\ Nghost(a) <= shape[a]
         /\ shape[a] = 1 => Nghost(a) = 0 /\ Blocks[a] = 1 /\ ~Periodic[a]
<1>1. options \in Options
  BY DEF Meshed, Ready, LInv
<1>2. /\ options.px \in Nat \ {0} /\ options.py \in Nat \ {0} /\ options.pz \in Nat \ {0}
      /\ options.periodic_x \in BOOLEAN /\ options.periodic_y \in BOOLEAN
      /\ options.periodic_z \in BOOLEAN
  BY <1>1, OptionTypes
<1>3. Blocks[a] \in Nat \ {0} /\ Periodic[a] \in BOOLEAN
  <2>1. a = 1 \/ a = 2 \/ a = 3
    OBVIOUS
  <2> QED BY <1>2, <2>1 DEF Blocks, Periodic
<1>4. shape[a] \in Nat \ {0} /\ Nghost(a) \in Nat /\ Nghost(a) <= shape[a]
  BY DEF Meshed, Nghost
<1>5. shape[a] = 1 => Nghost(a) = 0 /\ Blocks[a] = 1 /\ ~Periodic[a]
  BY DEF Meshed, Nghost, Fits
<1> QED BY <1>3, <1>4, <1>5

LEMMA CellParts ==
  ASSUME Meshed, NEW c \in Cells
  PROVE  /\ c = <<c[1], c[2], c[3]>>
         /\ c \in [1..3 -> Int]
         /\ \A a \in 1..3 : c[a] \in Int /\ -Nghost(a) <= c[a]
                              /\ c[a] < shape[a] + Nghost(a)
<1>1. PICK x \in Extent(1), y \in Extent(2), z \in Extent(3) : c = <<x, y, z>>
  BY DEF Cells
<1>2. \A a \in 1..3 : Nghost(a) \in Nat /\ shape[a] \in Nat
  BY AxisParts
<1>3. \A a \in 1..3 : Extent(a) \subseteq Int /\
         \A i \in Extent(a) : -Nghost(a) <= i /\ i < shape[a] + Nghost(a)
  BY <1>2 DEF Extent
<1>4. \A a \in 1..3 : c[a] \in Extent(a)
  <2>1. c[1] \in Extent(1) /\ c[2] \in Extent(2) /\ c[3] \in Extent(3)
    BY <1>1
  <2> QED BY <2>1
<1>5. c \in [1..3 -> Int]
  BY <1>1, <1>3
<1> QED BY <1>1, <1>3, <1>4, <1>5

LEMMA CellOf ==
  ASSUME Meshed, NEW c \in [1..3 -> Int],
         \A a \in 1..3 : -Nghost(a) <= c[a] /\ c[a] < shape[a] + Nghost(a)
  PROVE  c \in Cells
<1>1. \A a \in 1..3 : Nghost(a) \in Nat /\ shape[a] \in Nat
  BY AxisParts
<1>2. \A a \in 1..3 : c[a] \in Extent(a)
  BY <1>1 DEF Extent
<1>3. c = <<c[1], c[2], c[3]>>
  OBVIOUS
<1>4. c[1] \in Extent(1) /\ c[2] \in Extent(2) /\ c[3] \in Extent(3)
  BY <1>2
<1> QED BY <1>3, <1>4 DEF Cells

Moved(c, a, x) == [c EXCEPT ![a] = x]

LEMMA MovedParts ==
  ASSUME Meshed, NEW c \in Cells, NEW a \in 1..3, NEW x \in Int,
         -Nghost(a) <= x, x < shape[a] + Nghost(a)
  PROVE  /\ Moved(c, a, x) \in Cells /\ Moved(c, a, x)[a] = x
         /\ \A b \in 1..3 : b # a => Moved(c, a, x)[b] = c[b]
<1>1. c \in [1..3 -> Int]
  BY CellParts
<1>2. /\ Moved(c, a, x) \in [1..3 -> Int] /\ Moved(c, a, x)[a] = x
      /\ \A b \in 1..3 : b # a => Moved(c, a, x)[b] = c[b]
  BY <1>1 DEF Moved
<1>3. Moved(c, a, x) \in Cells
  <2>1. \A b \in 1..3 : -Nghost(b) <= c[b] /\ c[b] < shape[b] + Nghost(b)
    BY CellParts
  <2> QED BY <1>2, <2>1, CellOf
<1> QED BY <1>2, <1>3

LEMMA BeyondIs ==
  ASSUME Meshed, NEW c \in Cells, NEW a \in 1..3
  PROVE  /\ Beyond(c, a) \in -1..1
         /\ Beyond(c, a) = -1 <=> c[a] < 0
         /\ Beyond(c, a) = 1 <=> c[a] >= shape[a]
         /\ a \in Outside(c) <=> Beyond(c, a) # 0
         /\ a \notin Outside(c) <=> (0 <= c[a] /\ c[a] < shape[a])
         /\ Outside(c) \subseteq 1..3
BY CellParts, AxisParts DEF Beyond, Outside

LEMMA Faces ==
  ASSUME NEW f \in 1..6
  PROVE  /\ Axis(f) \in 1..3 /\ Side(f) \in {-1, 1} /\ f = FaceOf(Axis(f), Side(f))
BY DEF Axis, Side, FaceOf

LEMMA FaceAt ==
  ASSUME NEW a \in 1..3, NEW side \in {-1, 1}
  PROVE  /\ FaceOf(a, side) \in 1..6
         /\ Axis(FaceOf(a, side)) = a /\ Side(FaceOf(a, side)) = side
BY DEF Axis, Side, FaceOf

LEMMA PositionIn ==
  ASSUME Meshed, NEW r \in Ranks, NEW a \in 1..3
  PROVE  Position(r)[a] \in 0..(Blocks[a] - 1)
<1>1. options \in Options /\ LocOf(r) \in PlacesOf(options)
  BY RanksAndPlaces DEF Meshed
<1>2. PICK x \in 0..(options.px - 1), y \in 0..(options.py - 1), z \in 0..(options.pz - 1) :
        LocOf(r) = <<x, y, z>>
  BY <1>1, PlaceParts
<1>3. Position(r) = <<z, x, y>>
  BY <1>2 DEF Position
<1> QED BY <1>2, <1>3 DEF Blocks

LEMMA Products ==
  ASSUME NEW n \in Nat \ {0}, NEW s \in Nat \ {0}, NEW p \in 0..(n - 1)
  PROVE  /\ p * s \in Nat /\ n * s \in Nat /\ p * s + s <= n * s
         /\ p = n - 1 => p * s + s = n * s
         /\ p = 0 => p * s = 0
<1>1. p * s \in Nat /\ n * s \in Nat
  OBVIOUS
<1>2. (p + 1) * s <= n * s
  BY SMT
<1>3. (p + 1) * s = p * s + s
  BY SMT
<1> QED BY <1>1, <1>2, <1>3, SMT

-----------------------------------------------------------------------------
(* Ghost zones of a mesh: the ends of a block and of the whole mesh.       *)

\* Along an axis, the cell of the mesh at x of a block.
Coord(r, a, x) == Position(r)[a] * shape[a] + x

FoldAt(a, x) == Fold(a, x, Blocks[a] * shape[a])

LEMMA CoordType ==
  ASSUME Meshed, NEW r \in Ranks, NEW a \in 1..3, NEW x \in Int
  PROVE  Coord(r, a, x) \in Int
BY PositionIn, AxisParts, Products DEF Coord

LEMMA FoldInside ==
  ASSUME Meshed, NEW r \in Ranks, NEW a \in 1..3, NEW x \in Int,
         0 <= x, x < shape[a]
  PROVE  FoldAt(a, Coord(r, a, x)) = <<Coord(r, a, x), {}>>
<1>1. /\ Position(r)[a] \in 0..(Blocks[a] - 1)
      /\ Blocks[a] \in Nat \ {0} /\ shape[a] \in Nat \ {0}
  BY PositionIn, AxisParts
<1>2. /\ Position(r)[a] * shape[a] \in Nat /\ Blocks[a] * shape[a] \in Nat
      /\ Position(r)[a] * shape[a] + shape[a] <= Blocks[a] * shape[a]
  BY <1>1, Products
<1>3. Coord(r, a, x) \in 0..(Blocks[a] * shape[a] - 1)
  BY <1>1, <1>2 DEF Coord
<1> QED BY <1>3 DEF FoldAt, Fold

LEMMA InstalledAt ==
  ASSUME Meshed, NEW r \in Ranks, NEW f \in Installed(r)
  PROVE  /\ f \in 1..6 /\ ~Periodic[Axis(f)] /\ Name(f) = walls[f]
         /\ Name(f) \in Functions
         /\ Position(r)[Axis(f)] = (IF Side(f) = -1 THEN 0 ELSE Blocks[Axis(f)] - 1)
         /\ Name(f) = "periodic" => Axis(f) = 1 /\ Blocks[1] = 1
<1>1. /\ f \in 1..6 /\ ~Periodic[Axis(f)]
      /\ Position(r)[Axis(f)] = (IF Side(f) = -1 THEN 0 ELSE Blocks[Axis(f)] - 1)
  BY DEF Installed, HasBoundary
<1>2. Name(f) = walls[f] /\ walls[f] \in Functions
  BY <1>1 DEF Name, Meshed
<1>3. ASSUME walls[f] = "periodic" PROVE Axis(f) = 1 /\ Blocks[1] = 1
  <2>1. Axis(f) \in 1..3 /\ (f = 2 * Axis(f) \/ f = 2 * Axis(f) - 1)
    BY <1>1 DEF Axis
  <2>2. walls[2 * Axis(f)] = "periodic"
    BY <1>3, <2>1 DEF Meshed, Fits
  <2>3. Axis(f) = 1 /\ options.type = "slab"
    BY <2>1, <2>2 DEF Meshed, Fits
  <2>4. options.pz = 1
    BY <2>3, OptionTypes DEF Meshed, Ready, LInv
  <2> QED BY <2>3, <2>4 DEF Blocks
<1> QED BY <1>1, <1>2, <1>3

\* What a boundary function does along its axis is what the end of the whole
\* mesh does.
LEMMA AtWall ==
  ASSUME Meshed, NEW r \in Ranks, NEW f \in Installed(r), NEW x \in Int,
         -Nghost(Axis(f)) <= x, x < shape[Axis(f)] + Nghost(Axis(f)),
         Side(f) = -1 => x < 0, Side(f) = 1 => x >= shape[Axis(f)]
  PROVE  LET source == SourceOf(Name(f), Side(f), x, shape[Axis(f)]) IN
         /\ source \in Int /\ 0 <= source /\ source < shape[Axis(f)]
         /\ FoldAt(Axis(f), Coord(r, Axis(f), x)) =
              <<Coord(r, Axis(f), source), MarksOf(Name(f), Axis(f), {})>>
<1> DEFINE a == Axis(f)
           source == SourceOf(Name(f), Side(f), x, shape[a])
           p == Position(r)[a]
           total == Blocks[a] * shape[a]
<1>1. /\ f \in 1..6 /\ Name(f) \in Functions
      /\ p = (IF Side(f) = -1 THEN 0 ELSE Blocks[a] - 1)
      /\ Name(f) = "periodic" => Blocks[a] = 1
  BY InstalledAt
<1>2. a \in 1..3 /\ Side(f) \in {-1, 1} /\ f = FaceOf(a, Side(f))
  BY <1>1, Faces
<1>3. /\ p \in 0..(Blocks[a] - 1) /\ Blocks[a] \in Nat \ {0} /\ shape[a] \in Nat \ {0}
      /\ Nghost(a) \in Nat /\ Nghost(a) <= shape[a]
  BY <1>2, PositionIn, AxisParts
<1>4. /\ p * shape[a] \in Nat /\ total \in Nat
      /\ p = Blocks[a] - 1 => p * shape[a] + shape[a] = total
      /\ p = 0 => p * shape[a] = 0
  BY <1>3, Products
<1>5. Blocks[a] = 1 => total = shape[a] /\ p = 0
  BY <1>3
<1>6. /\ Coord(r, a, x) = p * shape[a] + x
      /\ Coord(r, a, source) = p * shape[a] + source
  BY DEF Coord
<1> HIDE DEF p, total
<1>7. source \in Int /\ 0 <= source /\ source < shape[a]
  BY <1>1, <1>2, <1>3 DEF SourceOf, Functions
<1>8. CASE Side(f) = -1
  <2>1. p * shape[a] = 0 /\ Coord(r, a, x) = x /\ Coord(r, a, source) = source
    BY <1>1, <1>4, <1>6, <1>7, <1>8
  <2>2. Coord(r, a, x) \notin 0..(total - 1) /\ Coord(r, a, x) < 0
    BY <1>8, <2>1
  <2>3. SourceOf(Name(f), -1, x, total) = source
    BY <1>1, <1>5, <1>8 DEF SourceOf
  <2> QED BY <1>2, <1>7, <1>8, <2>1, <2>2, <2>3 DEF FoldAt, Fold, total
<1>9. CASE Side(f) = 1
  <2>1. p * shape[a] + shape[a] = total
    BY <1>1, <1>4, <1>9
  <2>2. Coord(r, a, x) \notin 0..(total - 1) /\ ~(Coord(r, a, x) < 0)
    BY <1>3, <1>4, <1>6, <1>9, <2>1
  <2>3. SourceOf(Name(f), 1, Coord(r, a, x), total) = Coord(r, a, source)
    <3>1. CASE Name(f) = "reflecting"
      BY <1>3, <1>4, <1>6, <1>9, <2>1, <3>1 DEF SourceOf
    <3>2. CASE Name(f) = "periodic"
      BY <1>1, <1>3, <1>4, <1>5, <1>6, <1>9, <2>1, <3>2 DEF SourceOf
    <3>3. CASE Name(f) \notin {"reflecting", "periodic"}
      BY <1>3, <1>4, <1>6, <1>9, <2>1, <3>3 DEF SourceOf
    <3> QED BY <3>1, <3>2, <3>3
  <2> QED BY <1>2, <1>7, <1>9, <2>2, <2>3 DEF FoldAt, Fold, total
<1> QED BY <1>2, <1>8, <1>9

\* What one block of the whole mesh holds at g.
Whole(g, version) ==
  {<<[a \in 1..3 |-> FoldAt(a, g[a])[1]], version,
     UNION {FoldAt(a, g[a])[2] : a \in 1..3}>>}

Right(r, v, c, version) == v[c] = Whole(MeshCell(r, c), version)

LEMMA MeshCellIs ==
  \A r, c : \A a \in 1..3 : MeshCell(r, c)[a] = Coord(r, a, c[a])
BY DEF MeshCell, Coord

LEMMA MarksGrow ==
  ASSUME NEW name, NEW a, NEW marks, a \notin marks
  PROVE  MarksOf(name, a, marks) = marks \cup MarksOf(name, a, {})
BY Zenon DEF MarksOf

LEMMA FoldMarks ==
  ASSUME NEW a \in 1..3, NEW x
  PROVE  FoldAt(a, x)[2] \subseteq {a, a + 3}
<1>1. \A name : MarksOf(name, a, {}) \subseteq {a, a + 3}
  BY Zenon DEF MarksOf
<1> QED BY <1>1 DEF FoldAt, Fold

\* The cell a boundary function reads for c.
Behind(c, f) == Moved(c, Axis(f), SourceOf(Name(f), Side(f), c[Axis(f)], shape[Axis(f)]))

LEMMA BehindParts ==
  ASSUME Meshed, NEW r \in Ranks, NEW f \in Installed(r), NEW c \in Cells, InGhosts(c, f)
  PROVE  /\ Behind(c, f) \in Cells
         /\ Outside(Behind(c, f)) = Outside(c) \ {Axis(f)} /\ Axis(f) \in Outside(c)
         /\ \A b \in 1..3 : b # Axis(f) => /\ Behind(c, f)[b] = c[b]
                                           /\ Beyond(Behind(c, f), b) = Beyond(c, b)
         /\ FoldAt(Axis(f), Coord(r, Axis(f), c[Axis(f)])) =
              <<Coord(r, Axis(f), Behind(c, f)[Axis(f)]), MarksOf(Name(f), Axis(f), {})>>
         /\ 0 <= Behind(c, f)[Axis(f)] /\ Behind(c, f)[Axis(f)] < shape[Axis(f)]
         /\ Behind(c, f)[Axis(f)] \in Int
<1> DEFINE a == Axis(f)
           x == SourceOf(Name(f), Side(f), c[a], shape[a])
<1>1. f \in 1..6 /\ a \in 1..3 /\ Side(f) \in {-1, 1}
  BY InstalledAt, Faces
<1>2. /\ c[a] \in Int /\ -Nghost(a) <= c[a] /\ c[a] < shape[a] + Nghost(a)
      /\ Nghost(a) \in Nat /\ shape[a] \in Nat \ {0}
  BY <1>1, CellParts, AxisParts
<1>3. /\ Side(f) = -1 => c[a] < 0
      /\ Side(f) = 1 => c[a] >= shape[a]
      /\ a \in Outside(c)
  BY <1>1, BeyondIs DEF InGhosts
<1>4. /\ x \in Int /\ 0 <= x /\ x < shape[a]
      /\ FoldAt(a, Coord(r, a, c[a])) = <<Coord(r, a, x), MarksOf(Name(f), a, {})>>
  BY <1>2, <1>3, AtWall
<1>5. -Nghost(a) <= x /\ x < shape[a] + Nghost(a)
  BY <1>2, <1>4
<1>6. /\ Behind(c, f) \in Cells /\ Behind(c, f)[a] = x
      /\ \A b \in 1..3 : b # a => Behind(c, f)[b] = c[b]
  BY <1>1, <1>4, <1>5, MovedParts DEF Behind
<1>7. \A b \in 1..3 : b # a => Beyond(Behind(c, f), b) = Beyond(c, b)
  BY <1>6 DEF Beyond
<1>8. a \notin Outside(Behind(c, f))
  BY <1>1, <1>4, <1>6, BeyondIs
<1>9. Outside(Behind(c, f)) = Outside(c) \ {a}
  BY <1>7, <1>8 DEF Outside
<1> QED BY <1>3, <1>4, <1>6, <1>7, <1>9

-----------------------------------------------------------------------------
(* Ghost zones of a mesh: a boundary function, and the faces in turn.      *)

\* A boundary function is right about a ghost if it reads what is right.
LEMMA FaceRight ==
  ASSUME Meshed, NEW r \in Ranks, NEW f \in Installed(r), NEW c \in Cells, InGhosts(c, f),
         NEW cells, c \in cells, NEW v, NEW version,
         Right(r, v, Behind(c, f), version)
  PROVE  Right(r, Call(v, f, cells), c, version)
<1> DEFINE a == Axis(f)
           d == Behind(c, f)
           left(b) == FoldAt(b, MeshCell(r, d)[b])
           right(b) == FoldAt(b, MeshCell(r, c)[b])
           marks == UNION {left(b)[2] : b \in 1..3}
<1>1. a \in 1..3
  BY InstalledAt, Faces
<1>2. Call(v, f, cells)[c] = {<<s[1], s[2], MarksOf(Name(f), a, s[3])>> : s \in v[d]}
  BY DEF Call, Behind, Moved
<1>3. v[d] = {<<[b \in 1..3 |-> left(b)[1]], version, marks>>}
  BY DEF Right, Whole
<1>4. Call(v, f, cells)[c] =
        {<<[b \in 1..3 |-> left(b)[1]], version, MarksOf(Name(f), a, marks)>>}
  BY <1>2, <1>3
<1>5. \A b \in 1..3 : b # a => left(b) = right(b)
  BY BehindParts, MeshCellIs
<1>6. left(a) = <<Coord(r, a, d[a]), {}>>
  BY <1>1, BehindParts, MeshCellIs, FoldInside
<1>7. right(a) = <<Coord(r, a, d[a]), MarksOf(Name(f), a, {})>>
  BY <1>1, BehindParts, MeshCellIs
<1>8. [b \in 1..3 |-> left(b)[1]] = [b \in 1..3 |-> right(b)[1]]
  BY <1>5, <1>6, <1>7
<1>9. a \notin marks
  <2>1. \A b \in 1..3 : b # a => a \notin left(b)[2]
    <3> SUFFICES ASSUME NEW b \in 1..3, b # a PROVE a \notin left(b)[2]
      OBVIOUS
    <3>1. left(b)[2] \subseteq {b, b + 3}
      BY FoldMarks
    <3> QED BY <1>1, <3>1
  <2>2. a \notin left(a)[2]
    BY <1>6
  <2> QED BY <2>1, <2>2
<1>10. UNION {right(b)[2] : b \in 1..3} = marks \cup MarksOf(Name(f), a, {})
  <2>1. left(a)[2] = {} /\ right(a)[2] = MarksOf(Name(f), a, {})
    BY <1>6, <1>7
  <2> HIDE DEF left, right
  <2> QED BY <1>1, <1>5, <2>1
<1>11. MarksOf(Name(f), a, marks) = UNION {right(b)[2] : b \in 1..3}
  BY <1>9, <1>10, MarksGrow
<1> QED BY <1>4, <1>8, <1>11 DEF Right, Whole

\* What boundary functions that are called now would find.
Shown(b) == [c \in Cells |-> IF \E f \in b.pending : InGhosts(c, f) THEN b.w[c]
                             ELSE b.u[c]]

\* While radiating faces are pending, w is the block with their ghosts.
Sane(b) == /\ DOMAIN b = {"u", "w", "pending"}
           /\ b.pending # {} => \A c \in Cells : b.w[c] = Shown(b)[c]

LEMMA FlushIs ==
  ASSUME NEW b, DOMAIN b = {"u", "w", "pending"}
  PROVE  /\ Flush(b).u = Shown(b) /\ Flush(b).pending = {}
         /\ DOMAIN Flush(b) = {"u", "w", "pending"}
BY DEF Flush, Shown

LEMMA CallSame ==
  ASSUME Meshed, NEW r \in Ranks, NEW f \in Installed(r), NEW v, NEW w, NEW cells,
         \A c \in Cells : v[c] = w[c]
  PROVE  Call(v, f, cells) = Call(w, f, cells)
<1>1. ASSUME NEW c \in Cells, InGhosts(c, f)
      PROVE  v[Behind(c, f)] = w[Behind(c, f)]
  BY <1>1, BehindParts
<1>2. \A c \in Cells : InGhosts(c, f) =>
        v[[c EXCEPT ![Axis(f)] = SourceOf(Name(f), Side(f), c[Axis(f)], shape[Axis(f)])]] =
        w[[c EXCEPT ![Axis(f)] = SourceOf(Name(f), Side(f), c[Axis(f)], shape[Axis(f)])]]
  BY <1>1, Zenon DEF Behind, Moved
<1> QED BY <1>2 DEF Call

LEMMA CallKeeps ==
  ASSUME NEW v, NEW f, NEW cells, NEW c \in Cells, ~(InGhosts(c, f) /\ c \in cells)
  PROVE  Call(v, f, cells)[c] = v[c]
BY DEF Call

LEMMA CallIs ==
  ASSUME NEW v, NEW f, NEW cells
  PROVE  Call(v, f, cells) = [c \in Cells |-> Call(v, f, cells)[c]]
BY DEF Call

Turned(r, v, f) == IF f \in Called(r) THEN Call(v, f, Cells) ELSE v

\* Putting radiating faces off changes nothing.
LEMMA FaceShown ==
  ASSUME Meshed, NEW r \in Ranks, NEW b, Sane(b), NEW f, NEW primitive
  PROVE  /\ Sane(AtFace(r, b, f, primitive))
         /\ Shown(AtFace(r, b, f, primitive)) = Turned(r, Shown(b), f)
<1>1. CASE f \notin Called(r)
  BY <1>1 DEF AtFace, Turned
<1>2. CASE f \in Called(r)
  <2> DEFINE done == ApplyFace(b, f, primitive)
  <2>1. /\ f \in Installed(r) /\ Turned(r, Shown(b), f) = Call(Shown(b), f, Cells)
        /\ AtFace(r, b, f, primitive) = done
    BY <1>2 DEF Called, AtFace, Turned
  <2>2. DOMAIN b = {"u", "w", "pending"}
    BY DEF Sane
  <2>3. CASE Name(f) = "outflow" /\ ~primitive
    <3> DEFINE base == IF b.pending = {} THEN b.u ELSE b.w
    <3>1. /\ DOMAIN done = {"u", "w", "pending"} /\ done.u = b.u
          /\ done.w = Call(base, f, Cells) /\ done.pending = b.pending \cup {f}
      BY <2>2, <2>3 DEF ApplyFace
    <3>2. \A c \in Cells : base[c] = Shown(b)[c]
      <4>1. b.pending = {} => \A c \in Cells : Shown(b)[c] = b.u[c]
        BY DEF Shown
      <4> QED BY <4>1 DEF Sane
    <3>3. done.w = Call(Shown(b), f, Cells)
      BY <2>1, <3>1, <3>2, CallSame
    <3> HIDE DEF done
    <3>4. ASSUME NEW c \in Cells PROVE Shown(done)[c] = Call(Shown(b), f, Cells)[c]
      <4>1. CASE \E g \in done.pending : InGhosts(c, g)
        BY <3>3, <4>1 DEF Shown
      <4>2. CASE ~\E g \in done.pending : InGhosts(c, g)
        <5>1. ~InGhosts(c, f) /\ ~\E g \in b.pending : InGhosts(c, g)
          BY <3>1, <4>2
        <5>2. Shown(done)[c] = b.u[c] /\ Shown(b)[c] = b.u[c]
          BY <3>1, <4>2, <5>1 DEF Shown
        <5> QED BY <5>1, <5>2, CallKeeps
      <4> QED BY <4>1, <4>2
    <3>5. /\ Shown(done) = [c \in Cells |-> Shown(done)[c]]
          /\ Call(Shown(b), f, Cells) = [c \in Cells |-> Call(Shown(b), f, Cells)[c]]
      BY DEF Shown, Call
    <3>6. Shown(done) = Call(Shown(b), f, Cells)
      BY <3>4, <3>5
    <3>7. Sane(done)
      BY <3>1, <3>3, <3>6 DEF Sane
    <3> QED BY <2>1, <3>6, <3>7
  <2>4. CASE ~(Name(f) = "outflow" /\ ~primitive)
    <3>1. /\ Flush(b).u = Shown(b) /\ Flush(b).pending = {}
          /\ DOMAIN Flush(b) = {"u", "w", "pending"}
      BY <2>2, FlushIs
    <3>2. done = [Flush(b) EXCEPT !.u = Call(Flush(b).u, f, Cells)]
      BY <2>4 DEF ApplyFace, Committed
    <3> HIDE DEF done
    <3>3. /\ DOMAIN done = {"u", "w", "pending"} /\ done.pending = {}
          /\ done.u = Call(Shown(b), f, Cells)
      BY <3>1, <3>2
    <3>4. Shown(done) = [c \in Cells |-> Call(Shown(b), f, Cells)[c]]
      BY <3>3 DEF Shown
    <3>5. Shown(done) = Call(Shown(b), f, Cells)
      BY <3>4, CallIs
    <3>6. Sane(done)
      BY <3>3 DEF Sane
    <3> QED BY <2>1, <3>5, <3>6
  <2> QED BY <2>3, <2>4
<1> QED BY <1>1, <1>2

\* apply_boundaries is one function after the other, whether they radiate or not.
LEMMA BoundariesInTurn ==
  ASSUME Meshed, NEW r \in Ranks, NEW v, NEW primitive, v = [c \in Cells |-> v[c]]
  PROVE  ApplyBoundaries(r, v, primitive) =
           LET x1 == Turned(r, Turned(r, v, 1), 2)
               x2 == Turned(r, Turned(r, x1, 3), 4)
           IN Turned(r, Turned(r, x2, 5), 6)
<1> DEFINE b0 == [u |-> v, w |-> v, pending |-> {}]
           b1 == AtFace(r, b0, 1, primitive)
           b2 == AtFace(r, b1, 2, primitive)
           b3 == AtFace(r, b2, 3, primitive)
           b4 == AtFace(r, b3, 4, primitive)
           b5 == AtFace(r, b4, 5, primitive)
           b6 == AtFace(r, b5, 6, primitive)
<1>1. Sane(b0) /\ Shown(b0) = v
  BY DEF Sane, Shown
<1>2. ApplyBoundaries(r, v, primitive) = Flush(b6).u
  BY DEF ApplyBoundaries
<1> HIDE DEF b0
<1>3. Sane(b1) /\ Shown(b1) = Turned(r, Shown(b0), 1)
  BY <1>1, FaceShown
<1> HIDE DEF b1
<1>4. Sane(b2) /\ Shown(b2) = Turned(r, Shown(b1), 2)
  BY <1>3, FaceShown
<1> HIDE DEF b2
<1>5. Sane(b3) /\ Shown(b3) = Turned(r, Shown(b2), 3)
  BY <1>4, FaceShown
<1> HIDE DEF b3
<1>6. Sane(b4) /\ Shown(b4) = Turned(r, Shown(b3), 4)
  BY <1>5, FaceShown
<1> HIDE DEF b4
<1>7. Sane(b5) /\ Shown(b5) = Turned(r, Shown(b4), 5)
  BY <1>6, FaceShown
<1> HIDE DEF b5
<1>8. Sane(b6) /\ Shown(b6) = Turned(r, Shown(b5), 6)
  BY <1>7, FaceShown
<1> HIDE DEF b6
<1>9. Flush(b6).u = Shown(b6)
  BY <1>8, FlushIs DEF Sane
<1> QED BY <1>1, <1>2, <1>3, <1>4, <1>5, <1>6, <1>7, <1>8, <1>9, Zenon

\* The cells an invariant can speak of: next to a face, or along the edge of a
\* wall of x1.
Claimed(r, c) == \/ Outside(c) = {}
                 \/ \E a \in 1..3 : Outside(c) = {a}
                 \/ \E a \in {2, 3} : Outside(c) = {1, a}
                                        /\ FaceOf(1, Beyond(c, 1)) \in Installed(r)

AllWalled(r, c) == \A a \in Outside(c) : FaceOf(a, Beyond(c, a)) \in Installed(r)

\* Those a block can fill alone, or all of them once it has exchanged.
Ours(r, c, exchanged) == Claimed(r, c) /\ (exchanged \/ AllWalled(r, c))

Walled(r, c) == {f \in Called(r) : InGhosts(c, f)}

LEMMA FaceBeyond ==
  ASSUME Meshed, NEW c \in Cells, NEW a \in 1..3, a \in Outside(c)
  PROVE  LET f == FaceOf(a, Beyond(c, a)) IN
         f \in 1..6 /\ InGhosts(c, f) /\ Axis(f) = a /\ Side(f) = Beyond(c, a)
BY BeyondIs, FaceAt DEF InGhosts

LEMMA InGhostsIs ==
  ASSUME Meshed, NEW c \in Cells, NEW f \in 1..6, InGhosts(c, f)
  PROVE  f = FaceOf(Axis(f), Beyond(c, Axis(f))) /\ Axis(f) \in Outside(c)
<1>1. Axis(f) \in 1..3 /\ Side(f) \in {-1, 1} /\ f = FaceOf(Axis(f), Side(f))
  BY Faces
<1> QED BY <1>1, BeyondIs DEF InGhosts

LEMMA CalledIs ==
  ASSUME Meshed, NEW r \in Ranks, NEW c \in Cells, NEW f \in 1..6, InGhosts(c, f)
  PROVE  f \in Called(r) <=> f \in Installed(r)
<1>1. Axis(f) \in 1..3 /\ Axis(f) \in Outside(c)
  BY InGhostsIs, Faces
<1>2. shape[Axis(f)] \in Nat \ {0} /\ (shape[Axis(f)] = 1 => Nghost(Axis(f)) = 0)
  BY <1>1, AxisParts
<1>3. c[Axis(f)] \in Int /\ ~(0 <= c[Axis(f)] /\ c[Axis(f)] < shape[Axis(f)])
  BY <1>1, BeyondIs, CellParts
<1>4. /\ -Nghost(Axis(f)) <= c[Axis(f)]
      /\ c[Axis(f)] < shape[Axis(f)] + Nghost(Axis(f))
  BY <1>1, CellParts
<1>5. shape[Axis(f)] > 1
  BY <1>2, <1>3, <1>4
<1> QED BY <1>5 DEF Called

LEMMA BehindOurs ==
  ASSUME Meshed, NEW r \in Ranks, NEW f \in Called(r), NEW c \in Cells, InGhosts(c, f),
         NEW exchanged \in BOOLEAN, Ours(r, c, exchanged)
  PROVE  /\ Behind(c, f) \in Cells /\ Ours(r, Behind(c, f), exchanged)
         /\ Walled(r, Behind(c, f)) = Walled(r, c) \ {f}
<1> DEFINE d == Behind(c, f)
           a == Axis(f)
<1>1. f \in Installed(r) /\ f \in 1..6
  BY DEF Called, Installed
<1>2. /\ d \in Cells /\ Outside(d) = Outside(c) \ {a} /\ a \in Outside(c)
      /\ \A b \in 1..3 : b # a => Beyond(d, b) = Beyond(c, b)
  BY <1>1, BehindParts
<1>3. a \in 1..3 /\ Outside(c) \subseteq 1..3 /\ f = FaceOf(a, Beyond(c, a))
  BY <1>1, <1>2, Faces, BeyondIs, InGhostsIs
<1> HIDE DEF d, a
<1>4. Claimed(r, d)
  <2>1. CASE \E b \in 1..3 : Outside(c) = {b}
    <3>1. Outside(d) = {}
      BY <1>2, <2>1
    <3> QED BY <3>1 DEF Claimed
  <2>2. CASE \E b \in {2, 3} : Outside(c) = {1, b} /\ FaceOf(1, Beyond(c, 1)) \in Installed(r)
    <3>1. \E b \in 1..3 : Outside(d) = {b}
      BY <1>2, <2>2
    <3> QED BY <3>1 DEF Claimed
  <2> QED BY <1>2, <2>1, <2>2 DEF Ours, Claimed
<1>5. AllWalled(r, c) => AllWalled(r, d)
  BY <1>2, <1>3 DEF AllWalled
<1>6. ASSUME NEW g \in Called(r) PROVE InGhosts(d, g) <=> InGhosts(c, g) /\ g # f
  <2>1. g \in 1..6 /\ Axis(g) \in 1..3
    BY Faces DEF Called, Installed
  <2>2. CASE Axis(g) # a
    BY <1>2, <2>1, <2>2 DEF InGhosts, a
  <2>3. CASE Axis(g) = a
    <3>1. ~InGhosts(d, g)
      BY <1>2, <2>1, <2>3, InGhostsIs
    <3>2. InGhosts(c, g) => g = f
      BY <1>3, <2>1, <2>3, InGhostsIs
    <3> QED BY <3>1, <3>2
  <2> QED BY <2>2, <2>3
<1>7. Walled(r, d) = Walled(r, c) \ {f}
  BY <1>6 DEF Walled
<1> QED BY <1>2, <1>4, <1>5, <1>7 DEF Ours, d

\* The functions of the faces up to n have made these ghosts right.
Done(r, v, n, exchanged, version) ==
  \A c \in Cells : Ours(r, c, exchanged) /\ Walled(r, c) \subseteq 1..n =>
                     Right(r, v, c, version)

LEMMA TurnRight ==
  ASSUME Meshed, NEW r \in Ranks, NEW f \in 1..6, NEW v, NEW exchanged \in BOOLEAN,
         NEW version, Done(r, v, f - 1, exchanged, version)
  PROVE  Done(r, Turned(r, v, f), f, exchanged, version)
<1> SUFFICES ASSUME NEW c \in Cells, Ours(r, c, exchanged), Walled(r, c) \subseteq 1..f
             PROVE  Right(r, Turned(r, v, f), c, version)
  BY DEF Done
<1>1. CASE f \in Walled(r, c)
  <2>1. f \in Called(r) /\ InGhosts(c, f) /\ f \in Installed(r)
    BY <1>1 DEF Walled, Called
  <2>2. /\ Behind(c, f) \in Cells /\ Ours(r, Behind(c, f), exchanged)
        /\ Walled(r, Behind(c, f)) = Walled(r, c) \ {f}
    BY <2>1, BehindOurs
  <2>3. Walled(r, Behind(c, f)) \subseteq 1..(f - 1)
    <3>1. \A g \in 1..f : g # f => g \in 1..(f - 1)
      OBVIOUS
    <3> QED BY <2>2, <3>1
  <2>4. Right(r, v, Behind(c, f), version)
    BY <2>2, <2>3 DEF Done
  <2>5. Right(r, Call(v, f, Cells), c, version)
    BY <2>1, <2>4, FaceRight
  <2> QED BY <2>1, <2>5 DEF Turned
<1>2. CASE f \notin Walled(r, c)
  <2>1. Walled(r, c) \subseteq 1..(f - 1)
    <3>1. \A g \in 1..f : g # f => g \in 1..(f - 1)
      OBVIOUS
    <3> QED BY <1>2, <3>1
  <2>2. Right(r, v, c, version)
    BY <2>1 DEF Done
  <2>3. Turned(r, v, f)[c] = v[c]
    BY <1>2, CallKeeps DEF Turned, Walled
  <2> QED BY <2>2, <2>3 DEF Right
<1> QED BY <1>1, <1>2

\* From the cells of the block, and from its exchanged ghosts if there are any,
\* apply_boundaries makes all the ghosts right it can reach.
LEMMA BoundariesRight ==
  ASSUME Meshed, NEW r \in Ranks, NEW v, NEW primitive, v = [c \in Cells |-> v[c]],
         NEW exchanged \in BOOLEAN, NEW version,
         \A c \in Cells : Outside(c) = {} => Right(r, v, c, version),
         exchanged =>
           \A c \in Cells, a \in 1..3 :
             Outside(c) = {a} /\ FaceOf(a, Beyond(c, a)) \notin Installed(r) =>
               Right(r, v, c, version)
  PROVE  /\ \A c \in Cells : Ours(r, c, exchanged) =>
                               Right(r, ApplyBoundaries(r, v, primitive), c, version)
         /\ \A c \in Cells : Walled(r, c) = {} =>
                               ApplyBoundaries(r, v, primitive)[c] = v[c]
<1> DEFINE v1 == Turned(r, v, 1)
           v2 == Turned(r, v1, 2)
           v3 == Turned(r, v2, 3)
           v4 == Turned(r, v3, 4)
           v5 == Turned(r, v4, 5)
           v6 == Turned(r, v5, 6)
<1>1. ApplyBoundaries(r, v, primitive) = v6
  BY BoundariesInTurn, Zenon
<1>2. \A c \in Cells : \A a \in Outside(c) :
        FaceOf(a, Beyond(c, a)) \in Installed(r) => FaceOf(a, Beyond(c, a)) \in Walled(r, c)
  <2> SUFFICES ASSUME NEW c \in Cells, NEW a \in Outside(c),
                      FaceOf(a, Beyond(c, a)) \in Installed(r)
               PROVE  FaceOf(a, Beyond(c, a)) \in Walled(r, c)
    OBVIOUS
  <2>1. a \in 1..3
    BY DEF Outside
  <2>2. FaceOf(a, Beyond(c, a)) \in 1..6 /\ InGhosts(c, FaceOf(a, Beyond(c, a)))
    BY <2>1, FaceBeyond
  <2> QED BY <2>2, CalledIs DEF Walled
<1>3. Done(r, v, 0, exchanged, version)
  <2> SUFFICES ASSUME NEW c \in Cells, Ours(r, c, exchanged), Walled(r, c) \subseteq 1..0
               PROVE  Right(r, v, c, version)
    BY DEF Done
  <2>1. Walled(r, c) = {}
    OBVIOUS
  <2>2. \A a \in Outside(c) : FaceOf(a, Beyond(c, a)) \notin Installed(r)
    BY <1>2, <2>1
  <2>3. CASE Outside(c) = {}
    BY <2>3
  <2>4. CASE Outside(c) # {}
    <3>1. exchanged /\ \E a \in 1..3 : Outside(c) = {a}
      BY <2>2, <2>4 DEF Ours, Claimed, AllWalled
    <3> QED BY <2>2, <3>1
  <2> QED BY <2>3, <2>4
<1>4. ASSUME NEW f \in 1..6, NEW w, NEW c \in Cells, Walled(r, c) = {}
      PROVE  Turned(r, w, f)[c] = w[c]
  BY <1>4, CallKeeps DEF Turned, Walled
<1>5. \A c \in Cells : Walled(r, c) = {} => v6[c] = v[c]
  <2> SUFFICES ASSUME NEW c \in Cells, Walled(r, c) = {} PROVE v6[c] = v[c]
    OBVIOUS
  <2>1. v1[c] = v[c] /\ v2[c] = v1[c] /\ v3[c] = v2[c]
    BY <1>4
  <2>2. v4[c] = v3[c] /\ v5[c] = v4[c] /\ v6[c] = v5[c]
    BY <1>4
  <2> HIDE DEF v1, v2, v3, v4, v5, v6
  <2> QED BY <2>1, <2>2
<1>6. Done(r, v1, 1, exchanged, version)
  BY <1>3, TurnRight
<1> HIDE DEF v1
<1>7. Done(r, v2, 2, exchanged, version)
  BY <1>6, TurnRight
<1> HIDE DEF v2
<1>8. Done(r, v3, 3, exchanged, version)
  BY <1>7, TurnRight
<1> HIDE DEF v3
<1>9. Done(r, v4, 4, exchanged, version)
  BY <1>8, TurnRight
<1> HIDE DEF v4
<1>10. Done(r, v5, 5, exchanged, version)
  BY <1>9, TurnRight
<1> HIDE DEF v5
<1>11. Done(r, v6, 6, exchanged, version)
  BY <1>10, TurnRight
<1> HIDE DEF v6
<1>12. \A c \in Cells : Walled(r, c) \subseteq 1..6
  BY DEF Walled, Called, Installed
<1> QED BY <1>1, <1>5, <1>11, <1>12 DEF Done

-----------------------------------------------------------------------------
(* Ghost zones of a mesh: the exchange.                                    *)

LEMMA WrapStep ==
  ASSUME NEW n \in Nat \ {0}, NEW v \in 0..(n - 1), NEW d \in {-1, 1},
         NEW periodic \in BOOLEAN, ~HasBoundary(v, d, n, periodic)
  PROVE  /\ Wrap(v + d, n, periodic) \in 0..(n - 1)
         /\ \/ Wrap(v + d, n, periodic) = v + d
            \/ /\ periodic /\ v = (IF d = -1 THEN 0 ELSE n - 1)
               /\ Wrap(v + d, n, periodic) = (IF d = -1 THEN n - 1 ELSE 0)
BY DEF Wrap, HasBoundary

LEMMA WrapStill ==
  ASSUME NEW n \in Nat \ {0}, NEW v \in 0..(n - 1), NEW periodic
  PROVE  Wrap(v + 0, n, periodic) = v
BY DEF Wrap

OffsetOf(c) == <<Beyond(c, 3), Beyond(c, 2), Beyond(c, 1)>>

\* Behind a face without a boundary function there is the block next to it.
LEMMA FaceNeighbor ==
  ASSUME Meshed, NEW r \in Ranks, NEW c \in Cells, NEW a \in 1..3, Outside(c) = {a},
         FaceOf(a, Beyond(c, a)) \notin Installed(r)
  PROVE  /\ OffsetOf(c) \in Buffers(r) /\ Nb(r, OffsetOf(c)) \in Ranks
         /\ \A b \in 1..3 : b # a => Position(Nb(r, OffsetOf(c)))[b] = Position(r)[b]
         /\ Position(Nb(r, OffsetOf(c)))[a] =
              Wrap(Position(r)[a] + Beyond(c, a), Blocks[a], Periodic[a])
<1> DEFINE o == OffsetOf(c)
           d == Beyond(c, a)
<1>1. options \in Options /\ LocOf(r) \in PlacesOf(options) /\ Ready
  BY RanksAndPlaces DEF Meshed
<1>2. PICK x \in 0..(options.px - 1), y \in 0..(options.py - 1), z \in 0..(options.pz - 1) :
        LocOf(r) = <<x, y, z>> /\ (options.type = "slab" => z = 0)
  BY <1>1, PlaceParts
<1>3. /\ options.px \in Nat \ {0} /\ options.py \in Nat \ {0} /\ options.pz \in Nat \ {0}
      /\ options.periodic_x \in BOOLEAN /\ options.periodic_y \in BOOLEAN
      /\ options.periodic_z \in BOOLEAN
      /\ options.type = "slab" => options.pz = 1 /\ ~options.periodic_z
  BY <1>1, OptionTypes DEF Options
<1>4. d \in {-1, 1} /\ \A b \in 1..3 : Beyond(c, b) \in -1..1 /\ (b # a => Beyond(c, b) = 0)
  BY BeyondIs DEF Outside
<1>5. Position(r) = <<z, x, y>>
  BY <1>2 DEF Position
<1>6. ~HasBoundary(Position(r)[a], d, Blocks[a], Periodic[a])
  BY <1>4, FaceAt DEF Installed
<1>7. options.type = "slab" => Beyond(c, 1) = 0
  <2> SUFFICES ASSUME options.type = "slab", a = 1 PROVE FALSE
    BY <1>4
  <2>1. HasBoundary(z, d, options.pz, options.periodic_z)
    BY <1>2, <1>3, <1>4 DEF HasBoundary
  <2> QED BY <1>5, <1>6, <2>1 DEF Blocks, Periodic
<1>8. o \in Directions
  <2>1. options.dim = 0 /\ options.skip_corner
    BY DEF Meshed, Followed
  <2>2. {i \in 1..3 : o[i] # 0} = {4 - a}
    BY <1>4 DEF OffsetOf
  <2>3. Cardinality({i \in 1..3 : o[i] # 0}) = 1
    BY <2>2, FS_Singleton
  <2>4. o # <<0, 0, 0>>
    BY <1>4 DEF OffsetOf
  <2>5. /\ Beyond(c, 3) \in Along(1) /\ Beyond(c, 2) \in Along(2)
        /\ Beyond(c, 1) \in (IF options.type = "slab" THEN {0} ELSE Along(3))
    BY <1>4, <1>7, <2>1 DEF Along
  <2> QED BY <2>3, <2>4, <2>5 DEF Directions, OffsetOf
<1> DEFINE X == Wrap(x + Beyond(c, 2), options.px, options.periodic_x)
           Y == Wrap(y + Beyond(c, 3), options.py, options.periodic_y)
           Z == IF options.type = "slab" THEN 0
                ELSE Wrap(z + Beyond(c, 1), options.pz, options.periodic_z)
<1>9. Place(LocOf(r), o) = <<X, Y, Z>>
  BY <1>2 DEF Place, OffsetOf
<1>10. /\ X \in 0..(options.px - 1) /\ (a # 2 => X = x)
       /\ a = 2 => X = Wrap(x + d, options.px, options.periodic_x)
  <2>1. CASE a = 2
    BY <1>3, <1>4, <1>5, <1>6, <2>1, WrapStep DEF Blocks, Periodic
  <2>2. CASE a # 2
    BY <1>3, <1>4, <2>2, WrapStill
  <2> QED BY <2>1, <2>2
<1>11. /\ Y \in 0..(options.py - 1) /\ (a # 3 => Y = y)
       /\ a = 3 => Y = Wrap(y + d, options.py, options.periodic_y)
  <2>1. CASE a = 3
    BY <1>3, <1>4, <1>5, <1>6, <2>1, WrapStep DEF Blocks, Periodic
  <2>2. CASE a # 3
    BY <1>3, <1>4, <2>2, WrapStill
  <2> QED BY <2>1, <2>2
<1>12. /\ Z \in 0..(options.pz - 1) /\ (a # 1 => Z = z)
       /\ a = 1 => Z = Wrap(z + d, options.pz, options.periodic_z)
  <2>1. CASE a = 1
    BY <1>3, <1>4, <1>5, <1>6, <1>7, <2>1, WrapStep DEF Blocks, Periodic
  <2>2. CASE a # 1
    BY <1>2, <1>3, <1>4, <2>2, WrapStill
  <2> QED BY <2>1, <2>2
<1> HIDE DEF X, Y, Z, o
<1>13. ~OffMesh(Place(LocOf(r), o))
  BY <1>3, <1>9, <1>10, <1>11, <1>12 DEF OffMesh
<1>14. Nb(r, o) # NoBlock
  BY <1>1, <1>8, <1>13, NeighborOf DEF Nb
<1>15. Nb(r, o) \in Ranks /\ LocOf(Nb(r, o)) = <<X, Y, Z>>
  BY <1>1, <1>8, <1>9, <1>14, Mutual
<1>16. Position(Nb(r, o)) = <<Z, X, Y>>
  BY <1>15 DEF Position
<1>17. o \in Buffers(r)
  BY <1>1, <1>8, <1>14, BuffersOf
<1>18. \A b \in 1..3 : b # a => Position(Nb(r, o))[b] = Position(r)[b]
  BY <1>5, <1>10, <1>11, <1>12, <1>16
<1>19. Position(Nb(r, o))[a] = Wrap(Position(r)[a] + d, Blocks[a], Periodic[a])
  <2>1. CASE a = 1
    BY <1>5, <1>12, <1>16, <2>1 DEF Blocks, Periodic
  <2>2. CASE a = 2
    BY <1>5, <1>10, <1>16, <2>2 DEF Blocks, Periodic
  <2>3. CASE a = 3
    BY <1>5, <1>11, <1>16, <2>3 DEF Blocks, Periodic
  <2> QED BY <2>1, <2>2, <2>3
<1> QED BY <1>15, <1>17, <1>18, <1>19 DEF o

\* What the neighbor sends for a ghost is the cell that lies there in the mesh.
LEMMA PartnerRight ==
  ASSUME Meshed, NEW r \in Ranks, NEW c \in Cells, NEW a \in 1..3, Outside(c) = {a},
         FaceOf(a, Beyond(c, a)) \notin Installed(r), NEW version
  PROVE  /\ Partner(c) \in Cells /\ Outside(Partner(c)) = {}
         /\ Whole(MeshCell(Nb(r, OffsetOf(c)), Partner(c)), version)
              = Whole(MeshCell(r, c), version)
<1> DEFINE n == Nb(r, OffsetOf(c))
           d == Beyond(c, a)
           e == Partner(c)
<1>1. /\ n \in Ranks
      /\ \A b \in 1..3 : b # a => Position(n)[b] = Position(r)[b]
      /\ Position(n)[a] = Wrap(Position(r)[a] + d, Blocks[a], Periodic[a])
  BY FaceNeighbor
<1>2. /\ d \in {-1, 1} /\ (d = -1 <=> c[a] < 0) /\ (d = 1 <=> c[a] >= shape[a])
      /\ \A b \in 1..3 : b # a => Beyond(c, b) = 0 /\ 0 <= c[b] /\ c[b] < shape[b]
  <2>1. \A b \in 1..3 : b # a => b \notin Outside(c)
    OBVIOUS
  <2> QED BY <2>1, BeyondIs
<1>3. \A b \in 1..3 : /\ Nghost(b) \in Nat /\ shape[b] \in Nat \ {0}
                      /\ Nghost(b) <= shape[b] /\ c[b] \in Int
                      /\ -Nghost(b) <= c[b] /\ c[b] < shape[b] + Nghost(b)
  BY AxisParts, CellParts
<1>4. e[a] = c[a] - d * shape[a]
  BY <1>2, <1>3 DEF Partner, Start
<1>5. \A b \in 1..3 : b # a => e[b] = c[b]
  BY <1>2, <1>3 DEF Partner, Start
<1>6. e[a] = (IF d = -1 THEN c[a] + shape[a] ELSE c[a] - shape[a])
  BY <1>2, <1>3, <1>4
<1>7. \A b \in 1..3 : e[b] \in Int /\ 0 <= e[b] /\ e[b] < shape[b]
  <2>1. e[a] \in Int /\ 0 <= e[a] /\ e[a] < shape[a]
    BY <1>2, <1>3, <1>6
  <2> QED BY <1>2, <1>3, <1>5, <2>1
<1>8. e \in [1..3 -> Int]
  <2>1. e = [b \in 1..3 |-> e[b]]
    BY DEF Partner
  <2> HIDE DEF e
  <2> QED BY <1>7, <2>1
<1> HIDE DEF e
<1>9. e \in Cells
  <2>1. \A b \in 1..3 : -Nghost(b) <= e[b] /\ e[b] < shape[b] + Nghost(b)
    BY <1>3, <1>7
  <2> QED BY <1>8, <2>1, CellOf
<1>10. Outside(e) = {}
  BY <1>7, <1>9, BeyondIs
<1> HIDE DEF n, d
<1>11. \A b \in 1..3 : b # a => Coord(n, b, e[b]) = Coord(r, b, c[b])
  BY <1>1, <1>5 DEF Coord
<1>12. FoldAt(a, Coord(n, a, e[a])) = FoldAt(a, Coord(r, a, c[a]))
  <2> DEFINE p == Position(r)[a]
             q == Position(n)[a]
             s == shape[a]
             total == Blocks[a] * s
  <2>1. /\ p \in 0..(Blocks[a] - 1) /\ q \in 0..(Blocks[a] - 1) /\ s \in Nat \ {0}
        /\ Blocks[a] \in Nat \ {0} /\ Periodic[a] \in BOOLEAN
    BY <1>1, PositionIn, AxisParts
  <2>2. ~HasBoundary(p, d, Blocks[a], Periodic[a])
    BY <1>2, FaceAt DEF Installed, d
  <2>3. \/ q = p + d
        \/ Periodic[a] /\ p = (IF d = -1 THEN 0 ELSE Blocks[a] - 1)
             /\ q = (IF d = -1 THEN Blocks[a] - 1 ELSE 0)
    BY <1>1, <1>2, <2>1, <2>2, WrapStep
  <2>4. Coord(n, a, e[a]) = q * s + e[a] /\ Coord(r, a, c[a]) = p * s + c[a]
    BY DEF Coord
  <2>5. /\ p * s \in Nat /\ q * s \in Nat /\ total \in Nat
        /\ p = Blocks[a] - 1 => p * s + s = total
        /\ q = Blocks[a] - 1 => q * s + s = total
        /\ p = 0 => p * s = 0
        /\ q = 0 => q * s = 0
    BY <2>1, Products
  <2>6. CASE q = p + d
    <3>1. q * s = (IF d = -1 THEN p * s - s ELSE p * s + s)
      <4>1. CASE d = -1
        <5>1. (p + -1) * s = p * s - s
          BY <2>1, SMT
        <5> QED BY <2>6, <4>1, <5>1
      <4>2. CASE d = 1
        <5>1. (p + 1) * s = p * s + s
          BY <2>1, SMT
        <5> QED BY <2>6, <4>2, <5>1
      <4> QED BY <1>2, <4>1, <4>2
    <3> HIDE DEF p, q, s
    <3>2. Coord(n, a, e[a]) = Coord(r, a, c[a])
      BY <1>2, <1>3, <1>6, <2>4, <2>5, <3>1 DEF s
    <3> QED BY <3>2
  <2>7. CASE ~(q = p + d)
    <3>1. Periodic[a] /\ p = (IF d = -1 THEN 0 ELSE Blocks[a] - 1)
             /\ q = (IF d = -1 THEN Blocks[a] - 1 ELSE 0)
      BY <2>3, <2>7
    <3>2. FoldAt(a, Coord(n, a, e[a])) = <<Coord(n, a, e[a]), {}>>
      BY <1>1, <1>7, FoldInside
    <3>3. Name(FaceOf(a, d)) = "periodic"
      BY <1>2, <3>1, FaceAt DEF Name
    <3> DEFINE g == Coord(r, a, c[a])
    <3>4. CASE d = -1
      <4>1. g = c[a] /\ g < 0 /\ g \in Int
        BY <1>2, <1>3, <2>4, <2>5, <3>1, <3>4
      <4>2. Coord(n, a, e[a]) = g + total
        BY <1>3, <1>6, <2>4, <2>5, <3>1, <3>4, <4>1
      <4>3. SourceOf("periodic", -1, g, total) = g + total
        BY <2>5, <4>1 DEF SourceOf
      <4>4. FoldAt(a, g) = <<g + total, MarksOf("periodic", a, {})>>
        BY <3>3, <3>4, <4>1, <4>3 DEF FoldAt, Fold
      <4> QED BY <3>2, <4>2, <4>4 DEF MarksOf
    <3>5. CASE d = 1
      <4>1. g >= total /\ g \in Int /\ g = p * s + c[a]
        BY <1>2, <1>3, <2>4, <2>5, <3>1, <3>5
      <4>2. Coord(n, a, e[a]) = g - total
        BY <1>3, <1>6, <2>4, <2>5, <3>1, <3>5, <4>1
      <4>3. SourceOf("periodic", 1, g, total) = g - total
        BY <2>5, <4>1 DEF SourceOf
      <4>4. g \notin 0..(total - 1) /\ ~(g < 0)
        BY <2>5, <4>1
      <4>5. FoldAt(a, g) = <<g - total, MarksOf("periodic", a, {})>>
        BY <3>3, <3>5, <4>3, <4>4 DEF FoldAt, Fold
      <4> QED BY <3>2, <4>2, <4>5 DEF MarksOf
    <3> QED BY <1>2, <3>4, <3>5
  <2> QED BY <2>6, <2>7
<1>13. \A b \in 1..3 : FoldAt(b, MeshCell(n, e)[b]) = FoldAt(b, MeshCell(r, c)[b])
  BY <1>11, <1>12, MeshCellIs
<1>14. Whole(MeshCell(n, e), version) = Whole(MeshCell(r, c), version)
  BY <1>13 DEF Whole
<1> QED BY <1>9, <1>10, <1>14 DEF n, e

LEMMA ThreeAxes == IsFiniteSet(1..3)
<1>1. 1 \in Int /\ 3 \in Int
  OBVIOUS
<1> QED BY <1>1, FS_Interval

\* Buffers go to blocks behind such a face only.
LEMMA Sent ==
  ASSUME Meshed, NEW r \in Ranks, NEW c \in Cells, OffsetOf(c) \in Buffers(r)
  PROVE  \E a \in 1..3 : Outside(c) = {a} /\ FaceOf(a, Beyond(c, a)) \notin Installed(r)
<1> DEFINE o == OffsetOf(c)
<1>1. o \in Directions /\ ~IsPhysicalBoundary(LocOf(r), o) /\ options.skip_corner
  BY DEF Buffers, Meshed, Followed
<1> DEFINE moves == {j \in 1..3 : o[j] # 0}
<1>2. Cardinality(moves) = 1
  BY <1>1 DEF Directions
<1>3. PICK i : moves = {i}
  <2>1. IsFiniteSet(1..3)
    BY ThreeAxes
  <2>2. moves \in SUBSET (1..3)
    OBVIOUS
  <2> HIDE DEF moves
  <2>3. IsFiniteSet(moves)
    BY <2>1, <2>2, FS_Subset
  <2> QED BY <1>2, <2>3, FS_Singleton
<1>4. i \in 1..3
  BY <1>3
<1>5. o[1] = Beyond(c, 3) /\ o[2] = Beyond(c, 2) /\ o[3] = Beyond(c, 1)
  BY DEF OffsetOf
<1> HIDE DEF o
<1>6. Outside(c) = {4 - i} /\ 4 - i \in 1..3
  <2>1. \A j \in 1..3 : o[j] # 0 <=> j = i
    BY <1>3
  <2>2. \A b \in 1..3 : Beyond(c, b) # 0 <=> b = 4 - i
    BY <1>4, <1>5, <2>1
  <2> QED BY <1>4, <2>2 DEF Outside
<1> DEFINE a == 4 - i
<1>7. Beyond(c, a) \in {-1, 1}
  BY <1>6, BeyondIs
<1>8. ~HasBoundary(Position(r)[a], Beyond(c, a), Blocks[a], Periodic[a])
  <2>1. Position(r)[1] = LocOf(r)[3] /\ Position(r)[2] = LocOf(r)[1] /\ Position(r)[3] = LocOf(r)[2]
    BY DEF Position
  <2>2. CASE i = 1
    BY <1>1, <1>5, <1>7, <2>1, <2>2 DEF IsPhysicalBoundary, Blocks, Periodic
  <2>3. CASE i = 2
    <3>1. o[1] = 0
      BY <1>3, <2>3
    <3> QED BY <1>1, <1>5, <1>7, <2>1, <2>3, <3>1 DEF IsPhysicalBoundary, Blocks, Periodic
  <2>4. CASE i = 3
    <3>1. o[1] = 0 /\ o[2] = 0
      BY <1>3, <2>4
    <3> QED BY <1>1, <1>5, <1>7, <2>1, <2>4, <3>1 DEF IsPhysicalBoundary, Blocks, Periodic
  <2> QED BY <1>4, <2>2, <2>3, <2>4
<1>9. FaceOf(a, Beyond(c, a)) \notin Installed(r)
  BY <1>6, <1>7, <1>8, FaceAt DEF Installed
<1> QED BY <1>6, <1>9

\* From blocks whose own cells are right, an exchange makes the ghosts next to
\* such faces right, and leaves the walls as they are.
LEMMA ExchangeRight ==
  ASSUME Meshed, NEW r \in Ranks, NEW version,
         \A n \in Ranks : \A c \in Cells : Outside(c) = {} => Right(n, u[n], c, version)
  PROVE  LET v == FillCorners(Exchanged(r)) IN
         /\ v = [c \in Cells |-> v[c]]
         /\ \A c \in Cells : Outside(c) = {} => Right(r, v, c, version)
         /\ \A c \in Cells, a \in 1..3 :
              Outside(c) = {a} /\ FaceOf(a, Beyond(c, a)) \notin Installed(r) =>
                Right(r, v, c, version)
         /\ \A c \in Cells : Claimed(r, c) /\ AllWalled(r, c) => v[c] = u[r][c]
<1> DEFINE w == Exchanged(r)
           v == FillCorners(w)
<1>1. v = [c \in Cells |-> v[c]]
  BY DEF FillCorners
<1>2. \A c \in Cells : Outside(c) # {2, 3} => v[c] = w[c]
  BY DEF FillCorners
<1>3. \A c \in Cells : w[c] = IF OffsetOf(c) \in Buffers(r)
                              THEN u[Nb(r, OffsetOf(c))][Partner(c)] ELSE u[r][c]
  BY DEF Exchanged, OffsetOf, Nb
<1> HIDE DEF w, v
<1>4. ASSUME NEW c \in Cells, Outside(c) = {} PROVE Right(r, v, c, version)
  <2>1. OffsetOf(c) \notin Buffers(r)
    BY <1>4, Sent
  <2>2. v[c] = u[r][c]
    BY <1>2, <1>3, <1>4, <2>1
  <2> QED BY <1>4, <2>2 DEF Right
<1>5. ASSUME NEW c \in Cells, NEW a \in 1..3, Outside(c) = {a},
             FaceOf(a, Beyond(c, a)) \notin Installed(r)
      PROVE  Right(r, v, c, version)
  <2>1. OffsetOf(c) \in Buffers(r) /\ Nb(r, OffsetOf(c)) \in Ranks
    BY <1>5, FaceNeighbor
  <2>2. /\ Partner(c) \in Cells /\ Outside(Partner(c)) = {}
        /\ Whole(MeshCell(Nb(r, OffsetOf(c)), Partner(c)), version)
              = Whole(MeshCell(r, c), version)
    BY <1>5, PartnerRight
  <2>3. Right(Nb(r, OffsetOf(c)), u[Nb(r, OffsetOf(c))], Partner(c), version)
    BY <2>1, <2>2
  <2>4. v[c] = u[Nb(r, OffsetOf(c))][Partner(c)]
    BY <1>2, <1>3, <1>5, <2>1
  <2> QED BY <2>2, <2>3, <2>4 DEF Right
<1>6. ASSUME NEW c \in Cells, Claimed(r, c), AllWalled(r, c) PROVE v[c] = u[r][c]
  <2>1. OffsetOf(c) \notin Buffers(r)
    BY <1>6, Sent DEF AllWalled
  <2>2. Outside(c) # {2, 3}
    <3>1. CASE \E a \in {2, 3} : Outside(c) = {1, a}
      BY <3>1
    <3> QED BY <1>6, <3>1 DEF Claimed
  <2> QED BY <1>2, <1>3, <2>1, <2>2
<1> QED BY <1>1, <1>4, <1>5, <1>6 DEF v, w

-----------------------------------------------------------------------------
(* Ghost zones of a mesh: the functions of x1 once more.                   *)

EdgeRight(r, v, version) ==
  \A c \in Cells : Outside(c) = {} \/ (\E a \in 1..3 : Outside(c) = {a}) =>
                     Right(r, v, c, version)

\* The ghosts along the edge of a wall f of x1 and a side without a function.
Corner(r, c, f, b) ==
  /\ c \in Cells /\ b \in {2, 3} /\ Outside(c) = {1, b}
  /\ f = FaceOf(1, Beyond(c, 1)) /\ f \in Installed(r) /\ Name(f) # "outflow"
  /\ FaceOf(b, Beyond(c, b)) \notin Installed(r)

\* A second call of a function of x1 changes corners with an exchanged side only.
LEMMA AgainKeeps ==
  ASSUME Meshed, NEW r \in Ranks, NEW f \in {1, 2}, NEW a \in {2, 3}, NEW v,
         NEW c \in Cells, Again(r, v, f, a)[c] # v[c]
  PROVE  /\ f = FaceOf(1, Beyond(c, 1)) /\ {1, a} \subseteq Outside(c)
         /\ FaceOf(a, Beyond(c, a)) \notin Installed(r)
<1>1. InGhosts(c, f) /\ c \in Slab(r, a)
  BY CallKeeps DEF Again
<1>2. Axis(f) = 1
  BY DEF Axis
<1>3. f = FaceOf(1, Beyond(c, 1)) /\ 1 \in Outside(c)
  BY <1>1, <1>2, InGhostsIs
<1>4. a \in Outside(c)
  BY <1>1 DEF Slab
<1>5. FaceOf(a, Beyond(c, a)) \notin Installed(r)
  <2> SUFFICES ASSUME FaceOf(a, Beyond(c, a)) \in Installed(r) PROVE FALSE
    OBVIOUS
  <2>1. Name(FaceOf(a, Beyond(c, a))) = "periodic"
    BY <1>1 DEF Slab
  <2>2. Axis(FaceOf(a, Beyond(c, a))) = a
    BY <1>4, FaceBeyond
  <2> QED BY <2>1, <2>2, InstalledAt
<1> QED BY <1>3, <1>4, <1>5

LEMMA AgainRight ==
  ASSUME Meshed, NEW r \in Ranks, NEW f \in {1, 2}, NEW b \in {2, 3}, NEW v, NEW version,
         EdgeRight(r, v, version), NEW c, Corner(r, c, f, b)
  PROVE  Right(r, Again(r, v, f, b), c, version)
<1>1. /\ c \in Cells /\ Outside(c) = {1, b} /\ f \in Installed(r)
      /\ f = FaceOf(1, Beyond(c, 1)) /\ Name(f) # "outflow"
      /\ FaceOf(b, Beyond(c, b)) \notin Installed(r)
  BY DEF Corner
<1>2. InGhosts(c, f) /\ Axis(f) = 1
  BY <1>1, FaceBeyond
<1>3. f \in Called(r)
  BY <1>1, <1>2, CalledIs
<1>4. c \in Slab(r, b)
  BY <1>1 DEF Slab
<1>5. Behind(c, f) \in Cells /\ Outside(Behind(c, f)) = {b}
  BY <1>1, <1>2, BehindParts
<1>6. Right(r, v, Behind(c, f), version)
  BY <1>5 DEF EdgeRight
<1>7. Right(r, Call(v, f, Slab(r, b)), c, version)
  BY <1>1, <1>2, <1>4, <1>6, FaceRight
<1> QED BY <1>1, <1>3, <1>7 DEF Again

LEMMA EdgeKept ==
  ASSUME Meshed, NEW r \in Ranks, NEW f \in {1, 2}, NEW a \in {2, 3}, NEW v, NEW version,
         EdgeRight(r, v, version)
  PROVE  EdgeRight(r, Again(r, v, f, a), version)
<1> SUFFICES ASSUME NEW c \in Cells, Outside(c) = {} \/ (\E b \in 1..3 : Outside(c) = {b})
             PROVE  Right(r, Again(r, v, f, a), c, version)
  BY DEF EdgeRight
<1>1. ~({1, a} \subseteq Outside(c))
  OBVIOUS
<1>2. Again(r, v, f, a)[c] = v[c]
  BY <1>1, AgainKeeps
<1> QED BY <1>2 DEF EdgeRight, Right

LEMMA CornerKept ==
  ASSUME Meshed, NEW r \in Ranks, NEW f \in {1, 2}, NEW a \in {2, 3}, NEW v,
         NEW c, NEW g, NEW b, Corner(r, c, g, b), f # g \/ a # b
  PROVE  Again(r, v, f, a)[c] = v[c]
BY AgainKeeps DEF Corner

\* After the second calls the corners of walls of x1 that do not radiate hold what
\* the whole mesh holds there.
LEMMA RefreshedRight ==
  ASSUME Meshed, NEW r \in Ranks, NEW v, NEW version, EdgeRight(r, v, version),
         \A c \in Cells : Claimed(r, c) /\ AllWalled(r, c) => Right(r, v, c, version)
  PROVE  LET w == Refreshed(r, v) IN
         /\ EdgeRight(r, w, version)
         /\ \A c \in Cells : Claimed(r, c) /\ AllWalled(r, c) => Right(r, w, c, version)
         /\ \A c, f, b : Corner(r, c, f, b) => Right(r, w, c, version)
<1> DEFINE v1 == Again(r, v, 1, 3)
           v2 == Again(r, v1, 1, 2)
           v3 == Again(r, v2, 2, 3)
           v4 == Again(r, v3, 2, 2)
<1>1. Refreshed(r, v) = v4
  BY DEF Refreshed
<1>2. ASSUME NEW c \in Cells, Claimed(r, c), AllWalled(r, c)
      PROVE  Right(r, v4, c, version)
  <2>1. \A a \in {2, 3} : a \in Outside(c) => FaceOf(a, Beyond(c, a)) \in Installed(r)
    BY <1>2 DEF AllWalled
  <2>2. v1[c] = v[c]
    BY <2>1, AgainKeeps
  <2>3. v2[c] = v1[c]
    BY <2>1, AgainKeeps
  <2>4. v3[c] = v2[c]
    BY <2>1, AgainKeeps
  <2>5. v4[c] = v3[c]
    BY <2>1, AgainKeeps
  <2> HIDE DEF v1, v2, v3, v4
  <2>6. v4[c] = v[c]
    BY <2>2, <2>3, <2>4, <2>5
  <2> QED BY <1>2, <2>6 DEF Right
<1>3. EdgeRight(r, v1, version)
  BY EdgeKept
<1>4. EdgeRight(r, v2, version)
  BY <1>3, EdgeKept
<1>5. EdgeRight(r, v3, version)
  BY <1>4, EdgeKept
<1>6. EdgeRight(r, v4, version)
  BY <1>5, EdgeKept
<1>7. ASSUME NEW c, NEW f, NEW b, Corner(r, c, f, b) PROVE Right(r, v4, c, version)
  <2>1. c \in Cells /\ f \in {1, 2} /\ b \in {2, 3}
    <3>1. c \in Cells /\ b \in {2, 3} /\ Outside(c) = {1, b} /\ f = FaceOf(1, Beyond(c, 1))
      BY <1>7 DEF Corner
    <3>2. Beyond(c, 1) \in {-1, 1}
      BY <3>1, BeyondIs
    <3> QED BY <3>1, <3>2 DEF FaceOf
  <2>2. CASE f = 1 /\ b = 3
    <3>1. Right(r, v1, c, version)
      BY <1>7, <2>2, AgainRight
    <3>2. v2[c] = v1[c]
      BY <1>7, <2>2, CornerKept
    <3>3. v3[c] = v2[c]
      BY <1>7, <2>2, CornerKept
    <3>4. v4[c] = v3[c]
      BY <1>7, <2>2, CornerKept
    <3> HIDE DEF v1, v2, v3, v4
    <3> QED BY <3>1, <3>2, <3>3, <3>4 DEF Right
  <2>3. CASE f = 1 /\ b = 2
    <3>1. Right(r, v2, c, version)
      BY <1>3, <1>7, <2>3, AgainRight
    <3>2. v3[c] = v2[c]
      BY <1>7, <2>3, CornerKept
    <3>3. v4[c] = v3[c]
      BY <1>7, <2>3, CornerKept
    <3> HIDE DEF v1, v2, v3, v4
    <3> QED BY <3>1, <3>2, <3>3 DEF Right
  <2>4. CASE f = 2 /\ b = 3
    <3>1. Right(r, v3, c, version)
      BY <1>4, <1>7, <2>4, AgainRight
    <3>2. v4[c] = v3[c]
      BY <1>7, <2>4, CornerKept
    <3> HIDE DEF v1, v2, v3, v4
    <3> QED BY <3>1, <3>2 DEF Right
  <2>5. CASE f = 2 /\ b = 2
    BY <1>5, <1>7, <2>5, AgainRight
  <2> QED BY <2>1, <2>2, <2>3, <2>4, <2>5
<1> HIDE DEF v4
<1> QED BY <1>1, <1>2, <1>6, <1>7

-----------------------------------------------------------------------------
(* Ghost zones of a mesh: the stages of a step.                            *)

\* What a stage reads is next to a face, or in a corner that was filled.
LEMMA SettledIs ==
  ASSUME Meshed, NEW r \in Ranks, NEW c \in Cells, Settled(r, c)
  PROVE  /\ Claimed(r, c)
         /\ \/ Outside(c) = {}
            \/ \E a \in 1..3 : Outside(c) = {a}
            \/ AllWalled(r, c)
            \/ \E f, b : Corner(r, c, f, b)
<1> DEFINE out == Outside(c)
           end == FaceOf(1, Beyond(c, 1))
<1>1. out \subseteq 1..3 /\ IsFiniteSet(out)
  <2>1. out \subseteq 1..3
    BY BeyondIs
  <2> QED BY <2>1, ThreeAxes, FS_Subset
<1>2. \/ Cardinality(out) <= 1
      \/ /\ Cardinality(out) = 2 /\ 1 \in out /\ end \in Installed(r)
         /\ Name(end) # "outflow" \/ AllWalled(r, c)
  BY DEF Settled, AllWalled
<1> HIDE DEF out, end
<1>3. CASE Cardinality(out) <= 1
  <2>1. Cardinality(out) \in Nat
    BY <1>1, FS_CardinalityType
  <2>2. Cardinality(out) = 0 \/ Cardinality(out) = 1
    BY <1>3, <2>1
  <2>3. out = {} \/ \E a : out = {a}
    BY <1>1, <2>2, FS_EmptySet, FS_Singleton
  <2>4. out = {} \/ \E a \in 1..3 : out = {a}
    BY <1>1, <2>3
  <2> QED BY <2>4 DEF Claimed, out
<1>4. CASE Cardinality(out) = 2 /\ 1 \in out /\ end \in Installed(r)
           /\ (Name(end) # "outflow" \/ AllWalled(r, c))
  <2>1. IsFiniteSet(out \ {1}) /\ Cardinality(out \ {1}) = 1
    BY <1>1, <1>4, FS_RemoveElement
  <2>2. PICK b : out \ {1} = {b}
    BY <2>1, FS_Singleton
  <2>3. b \in {2, 3} /\ out = {1, b}
    <3>1. b \in out /\ b # 1
      BY <2>2
    <3>2. b \in 1..3
      BY <1>1, <3>1
    <3> QED BY <1>4, <2>2, <3>1, <3>2
  <2>4. Claimed(r, c)
    BY <1>4, <2>3 DEF Claimed, out, end
  <2>5. CASE AllWalled(r, c)
    BY <2>4, <2>5
  <2>6. CASE ~AllWalled(r, c)
    <3>1. FaceOf(b, Beyond(c, b)) \notin Installed(r)
      BY <1>4, <2>3, <2>6 DEF AllWalled, out, end
    <3>2. Corner(r, c, end, b)
      BY <1>4, <2>3, <2>6, <3>1 DEF Corner, out, end
    <3> QED BY <2>4, <3>2
  <2> QED BY <2>5, <2>6
<1> QED BY <1>2, <1>3, <1>4

\* A cell of the block is computed as the cell of the mesh it is.
LEMMA InteriorRight ==
  ASSUME Meshed, NEW r \in Ranks, NEW c \in Cells, Outside(c) = {}, NEW version
  PROVE  Computed(r, c, version) = Whole(MeshCell(r, c), version)
<1> DEFINE g == MeshCell(r, c)
<1>1. \A a \in 1..3 : FoldAt(a, g[a]) = <<g[a], {}>>
  <2> SUFFICES ASSUME NEW a \in 1..3 PROVE FoldAt(a, g[a]) = <<g[a], {}>>
    OBVIOUS
  <2>1. c[a] \in Int /\ 0 <= c[a] /\ c[a] < shape[a]
    BY BeyondIs, CellParts
  <2>2. g[a] = Coord(r, a, c[a])
    BY MeshCellIs
  <2> HIDE DEF g
  <2> QED BY <2>1, <2>2, FoldInside
<1>2. g = [a \in 1..3 |-> g[a]]
  BY DEF MeshCell
<1> HIDE DEF g
<1>3. [a \in 1..3 |-> FoldAt(a, g[a])[1]] = g
  BY <1>1, <1>2
<1>4. UNION {FoldAt(a, g[a])[2] : a \in 1..3} = {}
  BY <1>1
<1>5. Whole(g, version) = {<<g, version, {}>>}
  BY <1>3, <1>4 DEF Whole
<1> QED BY <1>5 DEF Computed, g

\* Boundary functions on cells that were just computed.
LEMMA Anew ==
  ASSUME Meshed, NEW r \in Ranks, NEW primitive, NEW version, NEW v,
         v = [c \in Cells |-> v[c]],
         \A c \in Cells : Outside(c) = {} => v[c] = Computed(r, c, version)
  PROVE  \A c \in Cells : Ours(r, c, FALSE) =>
                            Right(r, ApplyBoundaries(r, v, primitive), c, version)
<1>1. \A c \in Cells : Outside(c) = {} => Right(r, v, c, version)
  BY InteriorRight DEF Right
<1>2. FALSE \in BOOLEAN
  OBVIOUS
<1> QED BY <1>1, <1>2, BoundariesRight

\* What the input file has given a mesh that is advanced.
InputOK == /\ Followed
           /\ shape \in [1..4 -> Nat \ {0}]
           /\ \A a \in 1..3 : shape[a] = 1 \/ shape[a] >= shape[4]
           /\ walls \in [1..6 -> Functions]
           /\ Fits(shape, walls)

\* The blocks' own cells and the corners between walls have this version.
Filled(version) ==
  \A r \in Ranks : \A c \in Cells : Ours(r, c, FALSE) => Right(r, u[r], c, version)

\* The version an exchange delivers: the last stage ends with the fixer.
Exchangeable == IF LastStage THEN 2 * stage + 3 ELSE 2 * stage + 2

Complete == \A r \in Ranks : \A c \in Cells : Settled(r, c) => Right(r, u[r], c, Version)

\* What each phase relies on.
StageInv ==
  /\ LInv
  /\ stage \in Nat /\ stage <= NStages
  /\ phase \in {"initialize", "first-exchange", "advance", "fix", "exchange"}
  /\ shape = None \/ InputOK
  /\ phase # "initialize" => Built /\ shape # None
  /\ phase \in {"initialize", "first-exchange"} => stage = 0
  /\ phase \in {"fix", "exchange"} => stage < NStages
  /\ phase = "fix" => LastStage
  /\ phase = "first-exchange" => Filled(0)
  /\ phase = "exchange" => Filled(Exchangeable)
  /\ phase = "advance" => Complete

LEMMA RunsMeshed ==
  ASSUME StageInv, Built, shape # None
  PROVE  Meshed
BY DEF StageInv, InputOK, Meshed, Ready

LEMMA CompleteIs == StageInv => AsOneMesh
BY DEF StageInv, Complete, AsOneMesh, Right, Whole, OneMesh, FoldAt

\* The definitions about cells only change with the layout and the input.
LEMMA Unmoved ==
  ASSUME UNCHANGED <<vars, shape, walls>>
  PROVE  /\ (LInv <=> LInv') /\ (InputOK <=> InputOK') /\ (Built <=> Built')
         /\ Ranks' = Ranks /\ Cells' = Cells
         /\ \A r, c : /\ Settled(r, c)' <=> Settled(r, c)
                      /\ Ours(r, c, FALSE)' <=> Ours(r, c, FALSE)
         /\ \A r, v, c, version : Right(r, v, c, version)' <=> Right(r, v, c, version)
<1>1. /\ (LInv <=> LInv') /\ (InputOK <=> InputOK') /\ (Built <=> Built')
  BY DEF LInv, InputOK, Built, vars, Followed, Fits, Bijection, Injection, Surjection,
         PlacesOf, Ranks, Blocks, Periodic
<1>2. /\ Ranks' = Ranks /\ Cells' = Cells
  BY DEF Ranks, Cells, vars, Extent, Nghost
<1>3. \A r : LocOf(r)' = LocOf(r)
  BY DEF LocOf, PlacesOf, vars
<1>4. \A c : Outside(c)' = Outside(c) /\ \A a : Beyond(c, a)' = Beyond(c, a)
  BY DEF Outside, Beyond, vars
<1>5. \A r : Installed(r)' = Installed(r)
  BY <1>3 DEF Installed, Position, Blocks, Periodic, vars
<1>6. \A f : Name(f)' = Name(f)
  BY DEF Name, Periodic, vars
<1>7. \A r, c : /\ Settled(r, c)' <=> Settled(r, c)
                /\ Ours(r, c, FALSE)' <=> Ours(r, c, FALSE)
  BY <1>4, <1>5, <1>6 DEF Settled, Ours, Claimed, AllWalled
<1>8. \A r, v, c, version : Right(r, v, c, version)' <=> Right(r, v, c, version)
  BY <1>3, <1>6 DEF Right, Whole, FoldAt, Fold, MeshCell, Position, Blocks, Periodic, vars
<1> QED BY <1>1, <1>2, <1>7, <1>8

LEMMA Unfilled ==
  ASSUME Meshed, NEW r \in Ranks, NEW version
  PROVE  /\ Fresh(r, version) = [c \in Cells |-> Fresh(r, version)[c]]
         /\ \A c \in Cells : Outside(c) = {} => Fresh(r, version)[c] = Computed(r, c, version)
BY DEF Fresh

\* One lemma for each action.
LEMMA Constructed == ASSUME StageInv, Construct PROVE StageInv'
<1>1. ~Built /\ UNCHANGED <<options, mesh>> /\ [Next]_vars
  BY DEF Construct, Initialize, Next
<1>2. LInv'
  BY <1>1, LayoutStep DEF StageInv
<1>3. phase = "initialize" /\ UNCHANGED <<shape, walls, u, phase, stage>>
  BY <1>1 DEF StageInv, mesh
<1>4. InputOK => InputOK'
  <2>1. Ranks' = Ranks
    BY <1>1 DEF Ranks
  <2> QED BY <1>1, <1>3, <2>1 DEF InputOK, Followed, Fits, Blocks, Periodic
<1> QED BY <1>2, <1>3, <1>4 DEF StageInv

LEMMA Destroyed == ASSUME StageInv, Destroy PROVE StageInv'
<1>1. Built /\ options' = options /\ [Next]_vars
  BY DEF Destroy, Reset, Next
<1>2. LInv'
  BY <1>1, LayoutStep DEF StageInv
<1>3. phase' = "initialize" /\ stage' = 0 /\ shape' = shape /\ walls' = walls
  BY DEF Destroy
<1>4. InputOK => InputOK'
  <2>1. Ranks' = Ranks
    BY <1>1 DEF Ranks
  <2> QED BY <1>1, <1>3, <2>1 DEF InputOK, Followed, Fits, Blocks, Periodic
<1>5. NStages \in Nat
  BY StageAssumption
<1> QED BY <1>2, <1>3, <1>4, <1>5 DEF StageInv

LEMMA InitializedLocal == ASSUME StageInv, InitializeLocal PROVE StageInv'
<1>1. /\ UNCHANGED <<vars, shape, walls>> /\ stage' = stage /\ Built /\ shape # None
      /\ phase = "initialize" /\ phase' = "first-exchange"
      /\ u' = [r \in Ranks |-> ApplyBoundaries(r, Fresh(r, 0), TRUE)]
  BY DEF InitializeLocal
<1>2. Meshed
  BY <1>1, RunsMeshed
<1>3. ASSUME NEW r \in Ranks, NEW c \in Cells, Ours(r, c, FALSE)
      PROVE  Right(r, u'[r], c, 0)
  <2>1. Right(r, ApplyBoundaries(r, Fresh(r, 0), TRUE), c, 0)
    BY <1>2, <1>3, Unfilled, Anew
  <2> QED BY <1>1, <2>1
<1>4. Filled(0)'
  BY <1>1, <1>3, Unmoved DEF Filled
<1> QED BY <1>1, <1>4, Unmoved DEF StageInv

LEMMA FirstExchanged == ASSUME StageInv, FirstExchange PROVE StageInv'
<1>1. /\ UNCHANGED <<vars, shape, walls>> /\ stage' = stage
      /\ phase = "first-exchange" /\ phase' = "advance"
      /\ u' = [r \in Ranks |-> ApplyBoundaries(r, FillCorners(Exchanged(r)), FALSE)]
  BY DEF FirstExchange
<1>2. Built /\ shape # None /\ stage = 0 /\ Filled(0)
  BY <1>1 DEF StageInv
<1>3. Meshed
  BY <1>2, RunsMeshed
<1>4. \A r \in Ranks : \A c \in Cells : Outside(c) = {} => Right(r, u[r], c, 0)
  BY <1>2 DEF Filled, Ours, Claimed, AllWalled
<1>5. ASSUME NEW r \in Ranks, NEW c \in Cells, Settled(r, c)
      PROVE  Right(r, u'[r], c, 0)
  <2> DEFINE v == FillCorners(Exchanged(r))
  <2>1. /\ v = [d \in Cells |-> v[d]]
        /\ \A d \in Cells : Outside(d) = {} => Right(r, v, d, 0)
        /\ \A d \in Cells, a \in 1..3 :
             Outside(d) = {a} /\ FaceOf(a, Beyond(d, a)) \notin Installed(r) =>
               Right(r, v, d, 0)
    BY <1>3, <1>4, ExchangeRight
  <2>2. Ours(r, c, TRUE)
    BY <1>3, <1>5, SettledIs DEF Ours
  <2> HIDE DEF v
  <2>3. \A d \in Cells : Ours(r, d, TRUE) => Right(r, ApplyBoundaries(r, v, FALSE), d, 0)
    BY <1>3, <2>1, BoundariesRight
  <2> QED BY <1>1, <2>2, <2>3 DEF v
<1>6. Version' = 0
  <2>1. NStages # 0
    BY StageAssumption
  <2> QED BY <1>1, <1>2, <2>1 DEF Version
<1>7. Complete'
  BY <1>1, <1>5, <1>6, Unmoved DEF Complete
<1> QED BY <1>1, <1>7, Unmoved DEF StageInv

LEMMA AdvancedLocal == ASSUME StageInv, AdvanceLocal PROVE StageInv'
<1> DEFINE alone == options.blocks_per_process = 1
           version == 2 * stage + (IF LastStage /\ alone THEN 3 ELSE 2)
<1>1. /\ UNCHANGED <<vars, shape, walls>> /\ stage' = stage
      /\ phase = "advance" /\ stage < NStages
      /\ phase' = (IF LastStage /\ ~alone THEN "fix" ELSE "exchange")
      /\ u' = [r \in Ranks |-> ApplyBoundaries(r, Fresh(r, version), FALSE)]
  BY DEF AdvanceLocal
<1>2. Meshed
  BY <1>1, RunsMeshed DEF StageInv
<1>3. ASSUME NEW r \in Ranks, NEW c \in Cells, Ours(r, c, FALSE)
      PROVE  Right(r, u'[r], c, version)
  <2> HIDE DEF version
  <2>1. Right(r, ApplyBoundaries(r, Fresh(r, version), FALSE), c, version)
    BY <1>2, <1>3, Unfilled, Anew
  <2> QED BY <1>1, <2>1
<1>4. Filled(version)'
  <2>1. version' = version
    BY <1>1 DEF LastStage, vars
  <2> HIDE DEF version
  <2> QED BY <1>1, <1>3, <2>1, Unmoved DEF Filled
<1>5. LastStage' <=> LastStage
  BY <1>1 DEF LastStage
<1>6. phase' = "exchange" => Filled(Exchangeable)'
  <2>1. phase' = "exchange" => Exchangeable' = version
    BY <1>1, <1>5 DEF Exchangeable
  <2>2. version' = version
    BY <1>1, <1>5 DEF vars
  <2> HIDE DEF version
  <2> QED BY <1>4, <2>1, <2>2 DEF Filled
<1> QED BY <1>1, <1>5, <1>6, Unmoved DEF StageInv

LEMMA FixedGravityWork == ASSUME StageInv, FixGravityWork PROVE StageInv'
<1> DEFINE version == 2 * stage + 3
           fixed(r) == [c \in Cells |-> IF Outside(c) # {} THEN u[r][c]
                                        ELSE Computed(r, c, version)]
<1>1. /\ UNCHANGED <<vars, shape, walls>> /\ stage' = stage
      /\ phase = "fix" /\ phase' = "exchange"
      /\ u' = [r \in Ranks |-> ApplyBoundaries(r, fixed(r), FALSE)]
  BY DEF FixGravityWork, Bounded
<1>2. Meshed /\ LastStage
  BY <1>1, RunsMeshed DEF StageInv
<1>3. ASSUME NEW r \in Ranks, NEW c \in Cells, Ours(r, c, FALSE)
      PROVE  Right(r, u'[r], c, version)
  <2>1. /\ fixed(r) = [d \in Cells |-> fixed(r)[d]]
        /\ \A d \in Cells : Outside(d) = {} => fixed(r)[d] = Computed(r, d, version)
    OBVIOUS
  <2> HIDE DEF version, fixed
  <2>2. Right(r, ApplyBoundaries(r, fixed(r), FALSE), c, version)
    BY <1>2, <1>3, <2>1, Anew
  <2> QED BY <1>1, <2>2
<1>4. Exchangeable' = version
  BY <1>1, <1>2 DEF Exchangeable, LastStage
<1>5. Filled(Exchangeable)'
  <2> HIDE DEF version
  <2> QED BY <1>1, <1>3, <1>4, Unmoved DEF Filled
<1> QED BY <1>1, <1>5, Unmoved DEF StageInv, LastStage

LEMMA ExchangedGhostZones == ASSUME StageInv, ExchangeGhostZones PROVE StageInv'
<1>1. /\ UNCHANGED <<vars, shape, walls>> /\ stage' = stage + 1
      /\ phase = "exchange" /\ phase' = "advance"
      /\ u' = [r \in Ranks |-> Refreshed(r, FillCorners(Exchanged(r)))]
  BY DEF ExchangeGhostZones
<1>2. Meshed /\ Filled(Exchangeable)
  BY <1>1, RunsMeshed DEF StageInv
<1>3. \A r \in Ranks : \A c \in Cells : Outside(c) = {} => Right(r, u[r], c, Exchangeable)
  BY <1>2 DEF Filled, Ours, Claimed, AllWalled
<1>4. ASSUME NEW r \in Ranks, NEW c \in Cells, Settled(r, c)
      PROVE  Right(r, u'[r], c, Exchangeable)
  <2> DEFINE v == FillCorners(Exchanged(r))
             w == Refreshed(r, v)
  <2>1. /\ \A d \in Cells : Outside(d) = {} => Right(r, v, d, Exchangeable)
        /\ \A d \in Cells, a \in 1..3 :
             Outside(d) = {a} /\ FaceOf(a, Beyond(d, a)) \notin Installed(r) =>
               Right(r, v, d, Exchangeable)
        /\ \A d \in Cells : Claimed(r, d) /\ AllWalled(r, d) => v[d] = u[r][d]
    BY <1>2, <1>3, ExchangeRight
  <2> HIDE DEF v
  <2>2. \A d \in Cells : Claimed(r, d) /\ AllWalled(r, d) => Right(r, v, d, Exchangeable)
    BY <1>2, <2>1 DEF Filled, Ours, Right
  <2>3. ASSUME NEW d \in Cells, NEW a \in 1..3, Outside(d) = {a}
        PROVE  Right(r, v, d, Exchangeable)
    <3>1. CASE FaceOf(a, Beyond(d, a)) \in Installed(r)
      BY <2>2, <2>3, <3>1 DEF Claimed, AllWalled
    <3>2. CASE FaceOf(a, Beyond(d, a)) \notin Installed(r)
      BY <2>1, <2>3, <3>2
    <3> QED BY <3>1, <3>2
  <2>4. EdgeRight(r, v, Exchangeable)
    BY <2>1, <2>3 DEF EdgeRight
  <2>5. /\ EdgeRight(r, w, Exchangeable)
        /\ \A d \in Cells : Claimed(r, d) /\ AllWalled(r, d) => Right(r, w, d, Exchangeable)
        /\ \A d, f, b : Corner(r, d, f, b) => Right(r, w, d, Exchangeable)
    BY <1>2, <2>2, <2>4, RefreshedRight
  <2> HIDE DEF w
  <2>6. Right(r, w, c, Exchangeable)
    BY <1>2, <1>4, <2>5, SettledIs DEF EdgeRight
  <2> QED BY <1>1, <2>6 DEF v, w
<1>5. stage \in Nat /\ stage < NStages /\ NStages \in Nat
  BY <1>1, StageAssumption DEF StageInv
<1>6. Version' = Exchangeable
  BY <1>1, <1>5 DEF Version, Exchangeable, LastStage
<1>7. Complete'
  BY <1>1, <1>4, <1>6, Unmoved DEF Complete
<1> QED BY <1>1, <1>5, <1>7, Unmoved DEF StageInv

\* Through every sequence of construction, initialization, stages with or without
\* the separate fixer, exchanges and destruction, every ghost that the phase may
\* rely on holds the cell of the whole mesh, in the version the phase has reached.
THEOREM StageInvariant == StageSpec => []StageInv
<1>1. StageInit => StageInv
  <2> SUFFICES ASSUME StageInit PROVE StageInv
    OBVIOUS
  <2>1. LInv /\ stage = 0 /\ phase = "initialize" /\ NStages \in Nat
    BY StageAssumption DEF StageInit, Init, LInv, Built
  <2>2. shape = None \/ InputOK
    <3>1. CASE shape \in Shapes
      BY <3>1, StageAssumption DEF StageInit, InputOK, None
    <3> QED BY <3>1 DEF StageInit
  <2> QED BY <2>1, <2>2 DEF StageInv
<1>2. StageInv /\ [StageNext]_stageVars => StageInv'
  <2> SUFFICES ASSUME StageInv, [StageNext]_stageVars PROVE StageInv'
    OBVIOUS
  <2>1. CASE UNCHANGED stageVars
    <3>1. UNCHANGED <<vars, shape, walls>> /\ UNCHANGED <<u, phase, stage>>
      BY <2>1 DEF stageVars, mesh
    <3>2. /\ Version' = Version /\ Exchangeable' = Exchangeable
          /\ (LastStage' <=> LastStage)
      BY <3>1 DEF Version, Exchangeable, LastStage
    <3>3. /\ \A version : Filled(version) => Filled(version)'
          /\ Complete => Complete'
      BY <3>1, <3>2, Unmoved DEF Filled, Complete
    <3>4. /\ Filled(0) => Filled(0)'
          /\ Filled(Exchangeable) => Filled(Exchangeable)'
      BY <3>1, <3>2, Unmoved DEF Filled
    <3> QED BY <3>1, <3>2, <3>3, <3>4, Unmoved DEF StageInv
  <2> QED BY <2>1, Constructed, Destroyed, InitializedLocal, FirstExchanged, AdvancedLocal,
             FixedGravityWork, ExchangedGhostZones DEF StageNext
<1> QED BY <1>1, <1>2, PTL DEF StageSpec

\* Every slab and cubed mesh of up to MaxStaged blocks, of any width that holds its
\* ghost zones, under any boundary functions that fit it, and for any number of
\* stages: at the start and after every stage the ghosts a stage reads hold what a
\* mesh of one block would hold there.
THEOREM GhostsAreOfOneMesh == StageSpec => []AsOneMesh
BY StageInvariant, CompleteIs, PTL
=============================================================================
