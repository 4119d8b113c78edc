------------------------ MODULE RestartBundle_proofs ------------------------
(***************************************************************************)
(* Proofs about RestartBundle for runs of any size, any number of legs,    *)
(* crashes and failing writes: OneMoment, BarriersHold and OneAtRisk.      *)
(*                                                                         *)
(* The barriers keep the processes in stages (Stages): all of them write,  *)
(* or wait while the root combines, or are back from make_outputs.  When   *)
(* the root gathers the parts of a name, those of all ranks are there,     *)
(* whole, and just written, for each has replaced what a crash had left    *)
(* under its name (PartsWait, PartsUnique).  So all that a bundle has for  *)
(* the ranks is of one moment, from its index on and whatever becomes of   *)
(* it (BundlesOfMoment); and until the root comes to the second barrier    *)
(* only the file of the present name is not complete (RootList, Risk).     *)
(***************************************************************************)
EXTENDS RestartBundle, FiniteSetTheorems, TLAPS

BlockIds == 0..(BlocksPerProcess - 1)

Places == {"write", "save", "step", "exit", "lost", "down"} \cup Combining

Types == /\ size \in Sizes
         /\ pc \in [Processes -> Places]
         /\ blk \in [Processes -> BlockIds]
         /\ count \in [Processes -> Nat]
         /\ DOMAIN name = Processes /\ DOMAIN time = Processes
         /\ IsFiniteSet(parts)

\* Everybody writes, or waits to combine.
Gathering == \A p \in Processes : pc[p] \in {"write", "save", "enter", "lost"}

\* The root combines, and the others wait for it.
Mirroring == /\ pc[Root] \in {"combine", "bundle", "copy", "clean", "mirror"}
             /\ \A p \in Processes : p # Root => pc[p] = "mirror"

\* Everybody is back from make_outputs, for a next step or for good.
Back == \/ \A p \in Processes : pc[p] \in {"step", "lost"}
        \/ \A p \in Processes : pc[p] \in {"exit", "lost"}

Stages == Gathering \/ Mirroring \/ Back \/ AllAt("down")

\* A process combines with its last block.
CountsBlocks ==
  \A p \in Processes :
    /\ pc[p] \in {"write", "save"} => count[p] = blk[p]
    /\ pc[p] \in Combining => count[p] = 0 /\ LastBlock(p)
    /\ pc[p] \in {"step", "exit", "down"} => count[p] = 0 /\ blk[p] = 0

\* The processes are at one output of one moment.
Agree == \A p, q \in Processes :
           /\ name[p] = name[q]
           /\ pc[p] # "lost" /\ pc[q] # "lost" => time[p] = time[q]

Threw == threw => \/ pc[Root] = "mirror"
                  \/ pc[Root] = "lost" /\ Back

-----------------------------------------------------------------------------
\* A file per rank and name.
PartsUnique ==
  \A f, g \in parts : f.rank = g.rank /\ f.name = g.name => f = g

Saved(p, i) == \E f \in parts : /\ f.rank = RankOf(p, i) /\ f.name = name[p]
                                /\ f.time = time[p] /\ f.leg = leg /\ f.whole

\* What a process has written is on disk until the root has gathered it.
PartsWait ==
  \A p \in Processes : \A i \in BlockIds :
    \/ pc[p] \in {"write", "save"} /\ i < blk[p]
    \/ pc[p] = "enter" \/ pc[Root] = "combine"
    => Saved(p, i)

\* The parts of all ranks, and all of one moment; what else was found under that
\* name is of no rank.
Moment(S, t, l) ==
  /\ IsFiniteSet(S)
  /\ \A f \in S : f.rank \in Ranks => f.time = t /\ f.leg = l /\ f.whole
  /\ \A r \in Ranks : \E f \in S : f.rank = r

BundlesOfMoment ==
  \A b \in bundles : /\ b = [name |-> b.name, entries |-> b.entries,
                            copied |-> b.copied]
                     /\ b.copied \subseteq b.entries
                     /\ \E g \in b.entries : Moment(b.entries, g.time, g.leg)

\* The root on its way.
RootList ==
  /\ pc[Root] \in {"bundle", "copy", "clean"} =>
       /\ Moment(list, time[Root], leg)
       /\ \A f \in parts : f.name = name[Root] => f \in list
  /\ pc[Root] = "bundle" => \A b \in bundles : b.name # name[Root]
  /\ pc[Root] = "copy" =>
       \A b \in bundles : b.name = name[Root] => b.entries = list
  /\ pc[Root] = "clean" =>
       \E b \in bundles : /\ b.name = name[Root]
                          /\ b.copied = list /\ b.entries = list
  /\ pc[Root] = "mirror" /\ ~threw => Written(Root)

\* The names of held that no complete file has.
AtRisk == {n \in held : ~\E b \in bundles : b.name = n /\ Complete(b)}

Risk == /\ AtRisk \subseteq {name[Root]}
        /\ pc[Root] = "step" => AtRisk = {}

BInv == /\ Types /\ Stages /\ CountsBlocks /\ Agree /\ Threw
        /\ PartsUnique /\ PartsWait /\ BundlesOfMoment /\ RootList /\ Risk
        /\ NobodyReturnsEarly

-----------------------------------------------------------------------------
(* Ranks                                                                   *)

LEMMA SizeTypes ==
  ASSUME Types
  PROVE  /\ size[1] \in Nat \ {0} /\ BlocksPerProcess \in Nat \ {0}
         /\ Root \in Processes /\ Processes \subseteq Nat
         /\ 0 \in BlockIds /\ BlockIds \subseteq Nat
         /\ BlocksPerProcess - 1 \in BlockIds
<1>1. size[1] \in Nat \ {0} /\ size[2] \in Nat \ {0}
  BY BundleAssumption DEF Types
<1> QED BY <1>1 DEF BlocksPerProcess, Processes, Root, BlockIds

LEMMA Multiples ==
  ASSUME NEW p \in Nat, NEW q \in Nat, NEW b \in Nat, p < q
  PROVE  p * b + b <= q * b
OBVIOUS

LEMMA Divide ==
  ASSUME NEW n \in Nat, NEW b \in Nat \ {0}
  PROVE  /\ n \div b \in Nat /\ n % b \in 0..(b - 1)
         /\ n = (n \div b) * b + (n % b)
         /\ \A m \in Nat : n < m * b => n \div b < m
OBVIOUS

\* The ranks are numbered process by process.
LEMMA RankOfIsARank ==
  ASSUME Types, NEW p \in Processes, NEW i \in BlockIds
  PROVE  RankOf(p, i) \in Ranks
<1>1. /\ size[1] \in Nat /\ size[2] \in Nat /\ p \in Nat /\ i \in Nat
      /\ p < size[1] /\ i < size[2]
  BY SizeTypes DEF Processes, BlockIds, BlocksPerProcess
<1>2. p * size[2] + size[2] <= size[1] * size[2]
  BY <1>1, Multiples
<1>3. p * size[2] \in Nat /\ size[1] * size[2] \in Nat
  BY <1>1
<1> QED BY <1>1, <1>2, <1>3 DEF RankOf, Ranks, BlocksPerProcess

LEMMA RankOnce ==
  ASSUME Types, NEW p \in Processes, NEW q \in Processes,
         NEW i \in BlockIds, NEW j \in BlockIds, RankOf(p, i) = RankOf(q, j)
  PROVE  p = q /\ i = j
<1>1. /\ size[2] \in Nat /\ p \in Nat /\ q \in Nat /\ i \in Nat /\ j \in Nat
      /\ i < size[2] /\ j < size[2]
      /\ p * size[2] + i = q * size[2] + j
  BY SizeTypes DEF Processes, BlockIds, BlocksPerProcess, RankOf
<1>2. p * size[2] \in Nat /\ q * size[2] \in Nat
  BY <1>1
<1>3. ~(p < q)
  <2> SUFFICES ASSUME p < q PROVE FALSE
    OBVIOUS
  <2>1. p * size[2] + size[2] <= q * size[2]
    BY <1>1, Multiples
  <2> QED BY <1>1, <1>2, <2>1
<1>4. ~(q < p)
  <2> SUFFICES ASSUME q < p PROVE FALSE
    OBVIOUS
  <2>1. q * size[2] + size[2] <= p * size[2]
    BY <1>1, Multiples
  <2> QED BY <1>1, <1>2, <2>1
<1>5. p = q
  BY <1>1, <1>3, <1>4
<1> QED BY <1>1, <1>2, <1>5

LEMMA EveryRank ==
  ASSUME Types, NEW r \in Ranks
  PROVE  \E p \in Processes, i \in BlockIds : r = RankOf(p, i)
<1> DEFINE p == r \div size[2]
           i == r % size[2]
<1>1. /\ size[1] \in Nat /\ size[2] \in Nat \ {0} /\ r \in Nat
      /\ r < size[1] * size[2]
  <2>1. size[1] \in Nat /\ size[2] \in Nat \ {0}
    BY SizeTypes DEF BlocksPerProcess
  <2>2. size[1] * size[2] \in Nat
    BY <2>1
  <2> QED BY <2>1, <2>2 DEF Ranks
<1>2. p \in Nat /\ i \in 0..(size[2] - 1) /\ r = p * size[2] + i
      /\ p < size[1]
  BY <1>1, Divide
<1> HIDE DEF p, i
<1> QED BY <1>1, <1>2 DEF Processes, BlockIds, BlocksPerProcess, RankOf

\* What depends on the size of the run alone stays.
LEMMA FixedSize ==
  ASSUME UNCHANGED size
  PROVE  /\ Processes' = Processes /\ Ranks' = Ranks /\ BlockIds' = BlockIds
         /\ \A p, i : RankOf(p, i)' = RankOf(p, i)
         /\ \A b, r : Loaded(b, r)' = Loaded(b, r)
         /\ \A b : Complete(b)' <=> Complete(b)
         /\ \A S, t, l : Moment(S, t, l)' <=> Moment(S, t, l)
BY DEF Processes, Ranks, BlockIds, BlocksPerProcess, RankOf, Loaded, Complete,
       Moment

-----------------------------------------------------------------------------
(* Bundles                                                                 *)

LEMMA RankZero ==
  ASSUME Types, NEW S, NEW t, NEW l, Moment(S, t, l)
  PROVE  \E g \in S : g.rank \in Ranks /\ g.time = t /\ g.leg = l /\ g.whole
<1>1. RankOf(0, 0) \in Ranks
  BY RankOfIsARank, SizeTypes DEF Root
<1>2. PICK g \in S : g.rank = RankOf(0, 0)
  BY <1>1 DEF Moment
<1> QED BY <1>1, <1>2 DEF Moment

\* A moment can be told from the files themselves.
LEMMA MomentOf ==
  ASSUME Types, NEW S, NEW t, NEW l, Moment(S, t, l)
  PROVE  \E g \in S : Moment(S, g.time, g.leg)
BY RankZero

\* Whatever a rank loads is of the moment of its bundle.
LEMMA LoadedMoment ==
  ASSUME Types, NEW b, NEW t, NEW l, Moment(b.entries, t, l),
         b.copied \subseteq b.entries,
         NEW r \in Ranks, NEW f \in Loaded(b, r)
  PROVE  f.time = t /\ f.leg = l
<1>1. f \in b.entries /\ (f.rank = r \/ Cardinality(b.entries) = 1)
  BY DEF Loaded
<1>2. CASE f.rank = r
  BY <1>1, <1>2 DEF Moment
<1>3. CASE Cardinality(b.entries) = 1
  <2>1. IsFiniteSet(b.entries)
    BY DEF Moment
  <2>2. PICK x : b.entries = {x}
    BY <1>3, <2>1, FS_Singleton
  <2>3. PICK g \in b.entries : g.time = t /\ g.leg = l
    BY RankZero
  <2> QED BY <1>1, <2>2, <2>3
<1> QED BY <1>1, <1>2, <1>3

\* A bundle with all its parts serves every rank.
LEMMA CopiedIsComplete ==
  ASSUME Types, NEW b, NEW t, NEW l, Moment(b.entries, t, l),
         b.copied = b.entries
  PROVE  /\ Complete(b)
         /\ \A r \in Ranks : \A f \in Loaded(b, r) : f.time = t
<1>1. ASSUME NEW r \in Ranks PROVE Loaded(b, r) # {}
  <2>1. PICK f \in b.entries : f.rank = r
    BY DEF Moment
  <2>2. f.whole
    BY <2>1 DEF Moment
  <2> QED BY <2>1, <2>2 DEF Loaded
<1>2. ASSUME NEW r \in Ranks, NEW f \in Loaded(b, r) PROVE f.time = t
  BY LoadedMoment
<1> QED BY <1>1, <1>2 DEF Complete

\* Init
LEMMA InitBundle == Init => BInv
<1> SUFFICES ASSUME Init PROVE BInv
  OBVIOUS
<1>1. size[1] \in Nat \ {0} /\ size[2] \in Nat \ {0} /\ size \in Sizes
  BY BundleAssumption DEF Init
<1>2. /\ \A p \in Processes : /\ pc[p] = "write" /\ blk[p] = 0 /\ count[p] = 0
                              /\ name[p] = 0 /\ time[p] = 0
      /\ Root \in Processes
      /\ bundles = {} /\ held = {} /\ threw = FALSE
  BY <1>1 DEF Init, Everyone, Processes, Root
<1>3. parts = {} \/ \E f : parts = {f}
  BY DEF Init
<1>4. Types
  <2>1. IsFiniteSet(parts)
    BY <1>3, FS_EmptySet, FS_Singleton
  <2>2. 0 \in BlockIds
    BY <1>1 DEF BlockIds, BlocksPerProcess
  <2> QED BY <1>1, <2>1, <2>2 DEF Init, Types, Everyone, Places
<1>5. Stages
  BY <1>2 DEF Stages, Gathering
<1>6. CountsBlocks /\ Agree /\ Threw
  BY <1>2 DEF CountsBlocks, Agree, Threw, Combining
<1>7. PartsUnique
  BY <1>3 DEF PartsUnique
<1>8. PartsWait
  BY <1>2, <1>4, SizeTypes DEF PartsWait, BlockIds
<1>9. BundlesOfMoment /\ RootList /\ Risk /\ NobodyReturnsEarly
  BY <1>2 DEF BundlesOfMoment, RootList, Risk, AtRisk, NobodyReturnsEarly
<1> QED BY <1>4, <1>5, <1>6, <1>7, <1>8, <1>9 DEF BInv

-----------------------------------------------------------------------------
(* Writing                                                                 *)

\* What the stage of one process says of the others.
LEMMA StageOf ==
  ASSUME Types, Stages
  PROVE  /\ \A p \in Processes :
              pc[p] \in {"write", "save", "enter"} => Gathering
         /\ pc[Root] \in {"combine", "bundle", "copy", "clean"} => Mirroring
         /\ pc[Root] = "mirror" => Mirroring
         /\ \A p \in Processes : pc[p] \in {"step", "exit"} => Back
BY SizeTypes DEF Stages, Gathering, Mirroring, Back, AllAt

\* A part replaces the one of its rank and name.
LEMMA PartSaved ==
  ASSUME Types, PartsUnique, NEW p \in Processes, NEW w \in BOOLEAN,
         SaveTensors(p, w)
  PROVE  /\ IsFiniteSet(parts')
         /\ \A f \in parts : \/ f \in parts'
                             \/ f.rank = RankOf(p, blk[p]) /\ f.name = name[p]
         /\ \E f \in parts' : /\ f.rank = RankOf(p, blk[p]) /\ f.name = name[p]
                              /\ f.time = time[p] /\ f.leg = leg /\ f.whole = w
         /\ \A f, g \in parts' : f.rank = g.rank /\ f.name = g.name => f = g
<1> DEFINE new == PartOf(p, w)
           rest == {f \in parts : ~(/\ f.rank = RankOf(p, blk[p])
                                    /\ f.name = name[p])}
<1>1. /\ new.rank = RankOf(p, blk[p]) /\ new.name = name[p]
      /\ new.time = time[p] /\ new.leg = leg /\ new.whole = w
  BY DEF PartOf
<1>2. parts' = rest \cup {new}
  BY DEF SaveTensors
<1>3. IsFiniteSet(parts')
  <2>1. IsFiniteSet(rest)
    BY FS_Subset DEF Types
  <2> QED BY <1>2, <2>1, FS_AddElement
<1> HIDE DEF new
<1>4. ASSUME NEW f \in parts', NEW g \in parts', f.rank = g.rank,
             f.name = g.name
      PROVE  f = g
  BY <1>1, <1>2, <1>4 DEF PartsUnique
<1> QED BY <1>1, <1>2, <1>3, <1>4

\* One process moves on in its make_outputs while nobody combines.
LEMMA WritingStep ==
  ASSUME BInv, NEW p \in Processes, pc[p] \in {"write", "save"},
         UNCHANGED <<size, leg, name, time, list, threw, bundles, held>>,
         Types', pc'[p] \in {"write", "save", "enter", "lost"},
         \A q \in Processes : q # p => /\ pc'[q] = pc[q] /\ blk'[q] = blk[q]
                                       /\ count'[q] = count[q],
         pc'[p] \in {"write", "save"} => count'[p] = blk'[p],
         pc'[p] = "enter" => count'[p] = 0 /\ blk'[p] = BlocksPerProcess - 1,
         UNCHANGED parts \/ \E w \in BOOLEAN : SaveTensors(p, w),
         \/ pc'[p] = "lost"
         \/ pc'[p] = "save" /\ blk'[p] = blk[p]
         \/ /\ SaveTensors(p, TRUE)
            /\ \/ pc'[p] = "enter" /\ blk'[p] = blk[p]
               \/ pc'[p] = "write" /\ blk'[p] = blk[p] + 1
  PROVE  BInv'
<1> USE DEF BInv
<1>0. /\ Processes' = Processes /\ BlockIds' = BlockIds
      /\ \A q, i : RankOf(q, i)' = RankOf(q, i)
      /\ \A b : Complete(b)' <=> Complete(b)
      /\ \A S, t, l : Moment(S, t, l)' <=> Moment(S, t, l)
      /\ BlocksPerProcess' = BlocksPerProcess
  BY FixedSize DEF BlocksPerProcess
<1>1. Gathering /\ Root \in Processes /\ ~threw /\ pc[Root] # "combine"
  <2>1. Gathering /\ Root \in Processes
    BY StageOf, SizeTypes
  <2>2. ~Back
    BY <2>1 DEF Back
  <2> QED BY <2>1, <2>2 DEF Threw, Gathering
<1>2. \A q \in Processes : pc'[q] \in {"write", "save", "enter", "lost"}
  BY <1>1 DEF Gathering
<1>3. Stages'
  BY <1>0, <1>2 DEF Stages, Gathering
<1>4. CountsBlocks'
  BY <1>0, <1>2 DEF CountsBlocks, LastBlock, Combining
<1>5. Agree' /\ Threw'
  BY <1>0, <1>1 DEF Agree, Threw
<1>6. PartsUnique'
  BY PartSaved DEF PartsUnique
<1>7. PartsWait'
  <2> SUFFICES ASSUME NEW q \in Processes, NEW i \in BlockIds,
                      \/ pc'[q] \in {"write", "save"} /\ i < blk'[q]
                      \/ pc'[q] = "enter"
               PROVE  \E f \in parts' :
                        /\ f.rank = RankOf(q, i) /\ f.name = name[q]
                        /\ f.time = time[q] /\ f.leg = leg /\ f.whole
    BY <1>0, <1>1, <1>2 DEF PartsWait, Saved
  <2>1. blk[p] \in BlockIds /\ i \in Nat /\ blk[p] \in Nat
    BY SizeTypes DEF Types
  <2>2. CASE q = p /\ i = blk[p] /\ SaveTensors(p, TRUE)
    BY <2>2, PartSaved
  <2>3. CASE ~(q = p /\ i = blk[p])
    <3>1. Saved(q, i)
      <4>1. CASE q # p
        BY <4>1 DEF PartsWait
      <4>2. CASE q = p
        <5>1. i # blk[p] /\ i <= BlocksPerProcess - 1
              /\ BlocksPerProcess \in Nat
          BY <2>3, <4>2, SizeTypes DEF BlockIds
        <5>2. ASSUME pc'[p] = "save" PROVE i < blk[p]
          BY <2>1, <4>2, <5>1, <5>2
        <5>3. ASSUME pc'[p] = "enter" PROVE i < blk[p]
          BY <2>1, <4>2, <5>1, <5>3
        <5>4. ASSUME pc'[p] = "write" PROVE i < blk[p]
          BY <2>1, <4>2, <5>1, <5>4
        <5>5. i < blk[p]
          BY <4>2, <5>2, <5>3, <5>4
        <5> QED BY <4>2, <5>5 DEF PartsWait
      <4> QED BY <4>1, <4>2
    <3>2. PICK f \in parts : /\ f.rank = RankOf(q, i) /\ f.name = name[q]
                             /\ f.time = time[q] /\ f.leg = leg /\ f.whole
      BY <3>1 DEF Saved
    <3>3. f.rank # RankOf(p, blk[p])
      BY <2>1, <2>3, <3>2, RankOnce
    <3>4. f \in parts'
      BY <3>2, <3>3, PartSaved
    <3> QED BY <3>2, <3>4
  <2>4. ASSUME q = p, i = blk[p] PROVE SaveTensors(p, TRUE)
    <3>1. ~(pc'[p] = "save" /\ blk'[p] = blk[p]) /\ pc'[p] # "lost"
      BY <2>1, <2>4
    <3> QED BY <3>1
  <2> QED BY <2>2, <2>3, <2>4
<1>8. BundlesOfMoment'
  BY <1>0 DEF BundlesOfMoment
<1>9. RootList' /\ NobodyReturnsEarly'
  BY <1>0, <1>1, <1>2 DEF RootList, NobodyReturnsEarly
<1>10. Risk'
  BY <1>0, <1>1, <1>2 DEF Risk, AtRisk
<1> QED BY <1>3, <1>4, <1>5, <1>6, <1>7, <1>8, <1>9, <1>10

LEMMA OpenPartInv == ASSUME BInv, NEW p \in Processes, OpenPart(p) PROVE BInv'
<1>1. /\ pc[p] = "write" /\ pc' = [pc EXCEPT ![p] = "save"]
      /\ SaveTensors(p, FALSE)
      /\ UNCHANGED <<size, leg, blk, count, name, time, list, threw, bundles,
                     held>>
  BY DEF OpenPart, Go
<1>2. /\ pc'[p] = "save" /\ \A q \in Processes : q # p => pc'[q] = pc[q]
      /\ pc' \in [Processes -> Places]
  BY <1>1 DEF BInv, Types, Places
<1>3. Types'
  BY <1>1, <1>2, PartSaved, FixedSize DEF BInv, Types
<1>4. count'[p] = blk'[p]
  BY <1>1 DEF BInv, CountsBlocks
<1> QED BY <1>1, <1>2, <1>3, <1>4, WritingStep

LEMMA ClosePartInv == ASSUME BInv, NEW p \in Processes, ClosePart(p) PROVE BInv'
<1>1. /\ pc[p] = "save" /\ SaveTensors(p, TRUE)
      /\ UNCHANGED <<size, leg, name, time, list, threw, bundles, held>>
  BY DEF ClosePart, Go
<1>2. /\ blk[p] \in BlockIds /\ blk[p] \in Nat /\ count[p] = blk[p]
      /\ BlocksPerProcess \in Nat
      /\ ReadyToCombine(p) <=> LastBlock(p)
  <2>1. /\ blk[p] \in BlockIds /\ blk[p] \in Nat /\ count[p] = blk[p]
        /\ BlocksPerProcess \in Nat
    BY <1>1, SizeTypes DEF BInv, Types, CountsBlocks
  <2> QED BY <2>1 DEF ReadyToCombine, LastBlock, BlockIds
<1>3. CASE ReadyToCombine(p)
  <2>1. /\ pc' = [pc EXCEPT ![p] = "enter"] /\ blk' = blk
        /\ count' = [count EXCEPT ![p] = 0]
    BY <1>3 DEF ClosePart, Go
  <2>2. /\ pc'[p] = "enter" /\ count'[p] = 0 /\ blk'[p] = BlocksPerProcess - 1
        /\ \A q \in Processes : q # p => pc'[q] = pc[q] /\ count'[q] = count[q]
        /\ pc' \in [Processes -> Places] /\ count' \in [Processes -> Nat]
    BY <1>2, <1>3, <2>1 DEF BInv, Types, Places, Combining, LastBlock
  <2>3. Types'
    BY <1>1, <2>1, <2>2, PartSaved, FixedSize DEF BInv, Types
  <2> QED BY <1>1, <2>1, <2>2, <2>3, WritingStep
<1>4. CASE ~ReadyToCombine(p)
  <2>1. /\ pc' = [pc EXCEPT ![p] = Return(p)]
        /\ count' = [count EXCEPT ![p] = @ + 1]
        /\ blk' = [blk EXCEPT ![p] = NextBlock(p)]
    BY <1>4 DEF ClosePart, Go
  <2>2. /\ Return(p) = "write" /\ NextBlock(p) = blk[p] + 1
        /\ blk[p] + 1 \in BlockIds
    BY <1>2, <1>4 DEF Return, NextBlock, LastBlock, BlockIds
  <2>3. /\ pc'[p] = "write" /\ count'[p] = count[p] + 1
        /\ blk'[p] = blk[p] + 1
        /\ \A q \in Processes : q # p => /\ pc'[q] = pc[q] /\ blk'[q] = blk[q]
                                         /\ count'[q] = count[q]
        /\ pc' \in [Processes -> Places] /\ count' \in [Processes -> Nat]
        /\ blk' \in [Processes -> BlockIds]
    BY <1>2, <2>1, <2>2 DEF BInv, Types, Places
  <2>4. Types'
    BY <1>1, <2>3, PartSaved, FixedSize DEF BInv, Types
  <2> QED BY <1>1, <1>2, <2>3, <2>4, WritingStep
<1> QED BY <1>3, <1>4

LEMMA WriteFailsInv ==
  ASSUME BInv, NEW p \in Processes, WriteFails(p) PROVE BInv'
<1>1. /\ pc[p] = "save" /\ pc' = [pc EXCEPT ![p] = "lost"]
      /\ UNCHANGED <<size, leg, blk, count, name, time, list, threw, parts,
                     bundles, held>>
  BY DEF WriteFails, Go, disk
<1>2. /\ pc'[p] = "lost" /\ \A q \in Processes : q # p => pc'[q] = pc[q]
      /\ pc' \in [Processes -> Places]
  BY <1>1 DEF BInv, Types, Places
<1>3. Types'
  BY <1>1, <1>2, FixedSize DEF BInv, Types
<1> QED BY <1>1, <1>2, <1>3, WritingStep

-----------------------------------------------------------------------------
(* Barriers                                                                *)

\* Everybody who waits waits at the same place.
LEMMA WaitTogether ==
  ASSUME Types, Stages, \A p \in Processes : pc[p] \in Waiting
  PROVE  \/ Gathering /\ \A p \in Processes : pc[p] = "enter"
         \/ Mirroring /\ \A p \in Processes : pc[p] = "mirror"
         \/ \A p \in Processes : pc[p] = "step"
<1>1. Root \in Processes
  BY SizeTypes
<1>2. CASE Gathering
  BY <1>2 DEF Gathering, Waiting
<1>3. CASE Mirroring
  BY <1>3 DEF Mirroring, Waiting
<1>4. CASE Back
  BY <1>1, <1>4 DEF Back, Waiting
<1>5. CASE AllAt("down")
  BY <1>1, <1>5 DEF AllAt, Waiting
<1> QED BY <1>2, <1>3, <1>4, <1>5 DEF Stages

LEMMA BarrierInv == ASSUME BInv, Barrier PROVE BInv'
<1> USE DEF BInv
<1>0. /\ Processes' = Processes /\ BlockIds' = BlockIds
      /\ \A q, i : RankOf(q, i)' = RankOf(q, i)
      /\ \A b, r : Loaded(b, r)' = Loaded(b, r)
      /\ \A b : Complete(b)' <=> Complete(b)
      /\ \A S, t, l : Moment(S, t, l)' <=> Moment(S, t, l)
      /\ Ranks' = Ranks /\ BlocksPerProcess' = BlocksPerProcess
  BY FixedSize DEF Barrier, BlocksPerProcess
<1>1. /\ pc' = [p \in Processes |-> Past(p)]
      /\ blk' = [p \in Processes |->
                   IF pc[p] = "mirror" THEN NextBlock(p) ELSE blk[p]]
      /\ UNCHANGED <<size, leg, count, name, time, list, threw, parts, bundles,
                     held>>
      /\ \E p \in Processes : pc[p] # "step"
      /\ \A p \in Processes : pc[p] \in Waiting
  BY DEF Barrier, disk
<1>2. Root \in Processes /\ 0 \in BlockIds
  BY SizeTypes
<1>3. CASE Gathering /\ \A p \in Processes : pc[p] = "enter"
  <2>1. /\ pc'[Root] = "combine"
        /\ \A p \in Processes : p # Root => pc'[p] = "mirror"
        /\ pc' \in [Processes -> Places] /\ blk' \in [Processes -> BlockIds]
        /\ \A p \in Processes : blk'[p] = blk[p]
    BY <1>1, <1>2, <1>3 DEF Past, Types, Places, Combining
  <2>2. ~threw
    BY <1>2, <1>3 DEF Threw
  <2>3. Types'
    BY <1>0, <1>1, <2>1 DEF Types
  <2>4. Stages' /\ Agree' /\ Threw'
    BY <1>0, <1>1, <1>2, <1>3, <2>1, <2>2 DEF Stages, Mirroring, Agree, Threw
  <2>5. CountsBlocks'
    BY <1>0, <1>1, <1>2, <1>3, <2>1 DEF CountsBlocks, LastBlock, Combining
  <2>6. PartsUnique'
    BY <1>1 DEF PartsUnique
  <2>7. PartsWait'
    <3>1. \A p \in Processes, i \in BlockIds : Saved(p, i)
      BY <1>3 DEF PartsWait
    <3>2. \A p \in Processes, i \in BlockIds : Saved(p, i)'
      BY <1>0, <1>1, <3>1 DEF Saved
    <3> QED BY <1>0, <3>2 DEF PartsWait
  <2>8. BundlesOfMoment' /\ RootList' /\ NobodyReturnsEarly'
    BY <1>0, <1>1, <1>2, <2>1
    DEF BundlesOfMoment, RootList, NobodyReturnsEarly
  <2>9. Risk'
    BY <1>0, <1>1, <2>1 DEF Risk, AtRisk
  <2> QED BY <2>3, <2>4, <2>5, <2>6, <2>7, <2>8, <2>9
<1>4. CASE Mirroring /\ \A p \in Processes : pc[p] = "mirror"
  <2>1. \A p \in Processes : LastBlock(p) /\ count[p] = 0
    BY <1>4 DEF CountsBlocks, Combining
  <2>2. /\ \A p \in Processes :
             /\ pc'[p] = IF threw /\ p = Root THEN "lost"
                         ELSE IF name[p] = Final THEN "exit" ELSE "step"
             /\ blk'[p] = 0
        /\ blk' \in [Processes -> BlockIds]
    BY <1>1, <1>2, <1>4, <2>1 DEF Past, Return, NextBlock
  <2>3. pc' \in [Processes -> Places]
    BY <1>1, <2>2 DEF Places
  <2>4. Types'
    BY <1>0, <1>1, <2>2, <2>3 DEF Types
  <2>5. Back'
    BY <1>0, <1>2, <2>2 DEF Back, Agree
  <2>6. Stages' /\ Agree' /\ Threw'
    BY <1>0, <1>1, <1>2, <1>4, <2>2, <2>5 DEF Stages, Agree, Threw
  <2>7. CountsBlocks'
    BY <1>0, <1>1, <2>1, <2>2 DEF CountsBlocks, Combining
  <2>8. PartsUnique' /\ PartsWait'
    BY <1>0, <1>1, <1>2, <2>2 DEF PartsUnique, PartsWait
  <2>9. BundlesOfMoment' /\ RootList'
    BY <1>0, <1>1, <1>2, <2>2 DEF BundlesOfMoment, RootList
  <2>10. ~threw => \A p \in Processes : Written(p)
    <3> SUFFICES ASSUME ~threw, NEW p \in Processes PROVE Written(p)
      OBVIOUS
    <3>1. Written(Root)
      BY <1>2, <1>4 DEF RootList
    <3>2. name[p] = name[Root] /\ time[p] = time[Root]
      BY <1>2, <1>4 DEF Agree
    <3> QED BY <3>1, <3>2 DEF Written
  <2>11. NobodyReturnsEarly'
    <3>1. ~threw => \A p \in Processes : Written(p)'
      BY <1>0, <1>1, <2>10 DEF Written
    <3> QED BY <1>0, <1>1, <3>1 DEF NobodyReturnsEarly
  <2>12. Risk'
    <3>1. ~threw => \E b \in bundles : b.name = name[Root] /\ Complete(b)
      BY <1>2, <2>10 DEF Written
    <3>2. ~threw => AtRisk = {}
      BY <3>1 DEF Risk, AtRisk
    <3>3. AtRisk' = AtRisk
      BY <1>0, <1>1 DEF AtRisk
    <3> QED BY <1>1, <1>2, <2>2, <3>2, <3>3 DEF Risk
  <2> QED BY <2>4, <2>6, <2>7, <2>8, <2>9, <2>11, <2>12
<1> QED BY <1>1, <1>3, <1>4, WaitTogether

-----------------------------------------------------------------------------
(* The root combines                                                       *)

\* What a step of the root while it combines leaves as it is.
LEMMA RootStep ==
  ASSUME BInv, pc[Root] \in {"combine", "bundle", "copy", "clean"},
         UNCHANGED <<size, leg, blk, count, name, time>>,
         pc' \in [Processes -> Places],
         pc'[Root] \in {"bundle", "copy", "clean", "mirror"},
         \A q \in Processes : q # Root => pc'[q] = pc[q],
         parts' \subseteq parts
  PROVE  /\ Types' /\ Stages' /\ CountsBlocks' /\ Agree'
         /\ PartsUnique' /\ PartsWait' /\ NobodyReturnsEarly'
         /\ Mirroring /\ ~threw /\ Root \in Processes
<1> USE DEF BInv
<1>0. /\ Processes' = Processes /\ BlockIds' = BlockIds
      /\ BlocksPerProcess' = BlocksPerProcess
  BY FixedSize DEF BlocksPerProcess
<1>1. Mirroring /\ Root \in Processes /\ ~threw
  BY StageOf, SizeTypes DEF Threw
<1>2. IsFiniteSet(parts')
  BY FS_Subset DEF Types
<1>3. Types'
  BY <1>0, <1>2 DEF Types
<1>4. \A q \in Processes : pc'[q] \in {"bundle", "copy", "clean", "mirror"}
  BY <1>1 DEF Mirroring
<1>5. Stages'
  BY <1>0, <1>1 DEF Stages, Mirroring
<1>6. \A q \in Processes : pc[q] \in Combining /\ pc[q] # "lost"
  BY <1>1 DEF Mirroring, Combining
<1>7. CountsBlocks'
  BY <1>0, <1>4, <1>6 DEF CountsBlocks, LastBlock
<1>8. Agree' /\ PartsUnique'
  BY <1>0, <1>4, <1>6 DEF Agree, PartsUnique
<1>9. PartsWait' /\ NobodyReturnsEarly'
  BY <1>0, <1>1, <1>4 DEF PartsWait, NobodyReturnsEarly
<1> QED BY <1>1, <1>3, <1>5, <1>7, <1>8, <1>9

\* Only the file of the present name is at risk.
LEMMA RootRisk ==
  ASSUME BInv, UNCHANGED <<size, name>>, pc'[Root] # "step",
         held' \subseteq held \cup {name[Root]},
         \A b \in bundles : b.name # name[Root] => b \in bundles'
  PROVE  Risk'
<1>1. \A b : Complete(b)' <=> Complete(b)
  BY FixedSize
<1>2. AtRisk' \subseteq AtRisk \cup {name[Root]}
  BY <1>1 DEF AtRisk
<1> QED BY <1>2 DEF Risk, BInv

LEMMA GlobInv == ASSUME BInv, Glob PROVE BInv'
<1> USE DEF BInv
<1>1. /\ pc[Root] = "combine" /\ pc' = [pc EXCEPT ![Root] = "bundle"]
      /\ list' = {f \in parts : f.name = name[Root]}
      /\ bundles' = {b \in bundles : b.name # name[Root]}
      /\ UNCHANGED <<size, leg, blk, count, name, time, threw, parts, held>>
  BY DEF Glob, Go
<1>2. /\ pc'[Root] = "bundle" /\ pc' \in [Processes -> Places]
      /\ \A q \in Processes : q # Root => pc'[q] = pc[q]
  BY <1>1, SizeTypes DEF Types, Places, Combining
<1>3. /\ Types' /\ Stages' /\ CountsBlocks' /\ Agree'
      /\ PartsUnique' /\ PartsWait' /\ NobodyReturnsEarly'
      /\ Mirroring /\ ~threw /\ Root \in Processes
  BY <1>1, <1>2, RootStep
<1>4. \A S, t, l : Moment(S, t, l)' <=> Moment(S, t, l)
  BY <1>1, FixedSize
<1>5. Moment(list', time[Root], leg)
  <2>1. IsFiniteSet(list')
    BY <1>1, FS_Subset DEF Types
  <2>2. ASSUME NEW r \in Ranks
        PROVE  \E g \in list' : /\ g.rank = r /\ g.time = time[Root]
                                /\ g.leg = leg /\ g.whole
    <3>1. PICK p \in Processes, i \in BlockIds : r = RankOf(p, i)
      BY EveryRank
    <3>2. PICK g \in parts : /\ g.rank = r /\ g.name = name[p]
                             /\ g.time = time[p] /\ g.leg = leg /\ g.whole
      BY <1>1, <3>1 DEF PartsWait, Saved
    <3>3. name[p] = name[Root] /\ time[p] = time[Root]
      BY <1>3, <3>1 DEF Agree, Mirroring
    <3> QED BY <1>1, <3>2, <3>3
  <2>3. ASSUME NEW f \in list', f.rank \in Ranks
        PROVE  f.time = time[Root] /\ f.leg = leg /\ f.whole
    <3>1. PICK g \in list' : /\ g.rank = f.rank /\ g.time = time[Root]
                             /\ g.leg = leg /\ g.whole
      BY <2>2, <2>3
    <3>2. f = g
      BY <1>1, <3>1 DEF PartsUnique
    <3> QED BY <3>1, <3>2
  <2> QED BY <2>1, <2>2, <2>3 DEF Moment
<1>6. RootList'
  BY <1>1, <1>2, <1>4, <1>5 DEF RootList
<1>7. BundlesOfMoment' /\ Threw'
  BY <1>1, <1>3, <1>4 DEF BundlesOfMoment, Threw
<1>8. Risk'
  BY <1>1, <1>2, RootRisk
<1> QED BY <1>3, <1>6, <1>7, <1>8

LEMMA RenameInv == ASSUME BInv, Rename PROVE BInv'
<1> USE DEF BInv
<1> DEFINE new == [name |-> name[Root], entries |-> list, copied |-> list]
<1>1. /\ pc[Root] = "bundle" /\ pc' = [pc EXCEPT ![Root] = "mirror"]
      /\ bundles' = bundles \cup {new} /\ parts' = parts \ list
      /\ held' = held \cup {name[Root]}
      /\ UNCHANGED <<size, leg, blk, count, name, time, list, threw>>
  BY DEF Rename, Go
<1>2. /\ new.name = name[Root] /\ new.entries = list /\ new.copied = list
      /\ new = [name |-> new.name, entries |-> new.entries,
                copied |-> new.copied]
  OBVIOUS
<1> HIDE DEF new
<1>3. /\ pc'[Root] = "mirror" /\ pc' \in [Processes -> Places]
      /\ \A q \in Processes : q # Root => pc'[q] = pc[q]
  BY <1>1, SizeTypes DEF Types, Places, Combining
<1>4. /\ Types' /\ Stages' /\ CountsBlocks' /\ Agree'
      /\ PartsUnique' /\ PartsWait' /\ NobodyReturnsEarly'
      /\ Mirroring /\ ~threw /\ Root \in Processes
  BY <1>1, <1>3, RootStep
<1>5. /\ \A S, t, l : Moment(S, t, l)' <=> Moment(S, t, l)
      /\ \A b, r : Loaded(b, r)' = Loaded(b, r)
      /\ \A b : Complete(b)' <=> Complete(b)
      /\ Ranks' = Ranks
  BY <1>1, FixedSize
<1>6. Moment(list, time[Root], leg)
  BY <1>1 DEF RootList
<1>7. BundlesOfMoment'
  <2>1. \E g \in list : Moment(list, g.time, g.leg)
    BY <1>6, MomentOf
  <2> QED BY <1>1, <1>2, <1>5, <2>1 DEF BundlesOfMoment
<1>8. Written(Root)'
  <2>1. Complete(new) /\ \A r \in Ranks : \A f \in Loaded(new, r) :
                           f.time = time[Root]
    BY <1>2, <1>6, CopiedIsComplete
  <2>2. \A f \in parts' : f.name # name[Root]
    BY <1>1 DEF RootList
  <2> QED BY <1>1, <1>2, <1>5, <2>1, <2>2 DEF Written
<1>9. RootList' /\ Threw'
  BY <1>1, <1>3, <1>4, <1>8 DEF RootList, Threw
<1>10. Risk'
  BY <1>1, <1>3, RootRisk
<1> QED BY <1>4, <1>7, <1>9, <1>10

LEMMA WriteIndexInv == ASSUME BInv, WriteIndex PROVE BInv'
<1> USE DEF BInv
<1> DEFINE new == [name |-> name[Root], entries |-> list, copied |-> {}]
<1>1. /\ pc[Root] = "bundle" /\ pc' = [pc EXCEPT ![Root] = "copy"]
      /\ bundles' = bundles \cup {new}
      /\ UNCHANGED <<size, leg, blk, count, name, time, list, threw, parts,
                     held>>
  BY DEF WriteIndex, Go
<1>2. /\ new.name = name[Root] /\ new.entries = list /\ new.copied = {}
      /\ new = [name |-> new.name, entries |-> new.entries,
                copied |-> new.copied]
  OBVIOUS
<1> HIDE DEF new
<1>3. /\ pc'[Root] = "copy" /\ pc' \in [Processes -> Places]
      /\ \A q \in Processes : q # Root => pc'[q] = pc[q]
  BY <1>1, SizeTypes DEF Types, Places, Combining
<1>4. /\ Types' /\ Stages' /\ CountsBlocks' /\ Agree'
      /\ PartsUnique' /\ PartsWait' /\ NobodyReturnsEarly'
      /\ Mirroring /\ ~threw /\ Root \in Processes
  BY <1>1, <1>3, RootStep
<1>5. \A S, t, l : Moment(S, t, l)' <=> Moment(S, t, l)
  BY <1>1, FixedSize
<1>6. Moment(list, time[Root], leg)
  BY <1>1 DEF RootList
<1>7. BundlesOfMoment'
  <2>1. \E g \in list : Moment(list, g.time, g.leg)
    BY <1>6, MomentOf
  <2> QED BY <1>1, <1>2, <1>5, <2>1 DEF BundlesOfMoment
<1>8. RootList' /\ Threw'
  BY <1>1, <1>2, <1>3, <1>4, <1>5 DEF RootList, Threw
<1>9. Risk'
  BY <1>1, <1>3, RootRisk
<1> QED BY <1>4, <1>7, <1>8, <1>9

LEMMA CopyPartInv == ASSUME BInv, CopyPart PROVE BInv'
<1> USE DEF BInv
<1>a. PICK b \in bundles :
        /\ b.name = name[Root]
        /\ LET next == Min({f.rank : f \in b.entries \ b.copied})
               done == b.copied \cup {f \in b.entries : f.rank = next}
           IN /\ bundles' = (bundles \ {b}) \cup {[b EXCEPT !.copied = done]}
              /\ IF done = b.entries
                 THEN Go(Root, "copy", "clean") /\ held' = held \cup {b.name}
                 ELSE pc[Root] = "copy" /\ UNCHANGED <<pc, held>>
        /\ UNCHANGED <<size, leg, blk, count, name, time, list, threw, parts>>
  BY DEF CopyPart
<1>1. PICK done :
        /\ b.name = name[Root]
        /\ \E r : done = b.copied \cup {f \in b.entries : f.rank = r}
        /\ bundles' = (bundles \ {b}) \cup {[b EXCEPT !.copied = done]}
        /\ IF done = b.entries
           THEN /\ Go(Root, "copy", "clean") /\ held' = held \cup {b.name}
           ELSE pc[Root] = "copy" /\ UNCHANGED <<pc, held>>
        /\ UNCHANGED <<size, leg, blk, count, name, time, list, threw, parts>>
  BY <1>a
<1> DEFINE new == [b EXCEPT !.copied = done]
<1>2. /\ b = [name |-> b.name, entries |-> b.entries, copied |-> b.copied]
      /\ b.copied \subseteq b.entries
      /\ \E g \in b.entries : Moment(b.entries, g.time, g.leg)
  BY DEF BundlesOfMoment
<1>3. new = [name |-> b.name, entries |-> b.entries, copied |-> done]
  BY <1>2
<1>4. /\ new.name = b.name /\ new.entries = b.entries /\ new.copied = done
      /\ new = [name |-> new.name, entries |-> new.entries,
                copied |-> new.copied]
  BY <1>3
<1>5. bundles' = (bundles \ {b}) \cup {new}
  BY <1>1
<1> HIDE DEF new
<1>6. /\ pc[Root] = "copy" /\ pc' \in [Processes -> Places]
      /\ done = b.entries => pc'[Root] = "clean"
      /\ done # b.entries => pc'[Root] = "copy"
      /\ \A q \in Processes : q # Root => pc'[q] = pc[q]
      /\ held' \subseteq held \cup {name[Root]}
      /\ UNCHANGED <<size, leg, blk, count, name, time, list, threw, parts>>
  <2>1. CASE done = b.entries
    <3>1. pc[Root] = "copy" /\ pc' = [pc EXCEPT ![Root] = "clean"]
      BY <1>1, <2>1 DEF Go
    <3> QED BY <1>1, <2>1, <3>1, SizeTypes DEF Types, Places, Combining
  <2>2. CASE done # b.entries
    BY <1>1, <2>2 DEF Types
  <2> QED BY <2>1, <2>2
<1>7. /\ Types' /\ Stages' /\ CountsBlocks' /\ Agree'
      /\ PartsUnique' /\ PartsWait' /\ NobodyReturnsEarly'
      /\ Mirroring /\ ~threw /\ Root \in Processes
  BY <1>6, RootStep
<1>8. \A S, t, l : Moment(S, t, l)' <=> Moment(S, t, l)
  BY <1>6, FixedSize
<1>9. BundlesOfMoment'
  <2>1. done \subseteq b.entries
    BY <1>1, <1>2
  <2> QED BY <1>2, <1>4, <1>5, <1>8, <2>1 DEF BundlesOfMoment
<1>10. RootList'
  <2>1. /\ Moment(list, time[Root], leg) /\ b.entries = list
        /\ \A f \in parts : f.name = name[Root] => f \in list
        /\ \A c \in bundles : c.name = name[Root] => c.entries = list
    BY <1>1, <1>6 DEF RootList
  <2> QED BY <1>1, <1>4, <1>5, <1>6, <1>8, <2>1 DEF RootList
<1>11. Threw' /\ Risk'
  BY <1>1, <1>5, <1>6, <1>7, RootRisk DEF Threw
<1> QED BY <1>7, <1>9, <1>10, <1>11

\* The root goes to the second barrier, or removes a part: bundles stay.
LEMMA RootLeaves ==
  ASSUME BInv, BundleFails \/ RemovePart \/ Cleaned PROVE BInv'
<1> USE DEF BInv
<1>1. /\ pc[Root] \in {"bundle", "copy", "clean"}
      /\ UNCHANGED <<size, leg, blk, count, name, time, list, bundles, held>>
      /\ parts' \subseteq parts
  BY DEF BundleFails, RemovePart, Cleaned, Go, memory, disk
<1>2. \/ pc' = [pc EXCEPT ![Root] = "mirror"] /\ threw' = TRUE
      \/ pc' = pc /\ pc[Root] = "clean" /\ threw' = threw
      \/ /\ pc' = [pc EXCEPT ![Root] = "mirror"] /\ pc[Root] = "clean"
         /\ threw' = threw /\ parts' = parts /\ list \cap parts = {}
  BY DEF BundleFails, RemovePart, Cleaned, Go, memory, disk
<1>3. /\ pc' \in [Processes -> Places] /\ pc'[Root] \in {"clean", "mirror"}
      /\ \A q \in Processes : q # Root => pc'[q] = pc[q]
  BY <1>2, SizeTypes DEF Types, Places, Combining
<1>4. /\ Types' /\ Stages' /\ CountsBlocks' /\ Agree'
      /\ PartsUnique' /\ PartsWait' /\ NobodyReturnsEarly'
      /\ Mirroring /\ ~threw /\ Root \in Processes
  BY <1>1, <1>3, RootStep
<1>5. /\ \A S, t, l : Moment(S, t, l)' <=> Moment(S, t, l)
      /\ \A b, r : Loaded(b, r)' = Loaded(b, r)
      /\ \A b : Complete(b)' <=> Complete(b)
      /\ Ranks' = Ranks
  BY <1>1, FixedSize
<1>6. BundlesOfMoment'
  BY <1>1, <1>5 DEF BundlesOfMoment
<1>7. Threw'
  BY <1>2, <1>4, SizeTypes DEF Threw, Types
<1>8. Risk'
  BY <1>1, <1>3, RootRisk
<1>9. pc[Root] = "clean" => \E b \in bundles :
        /\ b.name = name[Root] /\ Complete(b)
        /\ \A r \in Ranks : \A f \in Loaded(b, r) : f.time = time[Root]
  <2> SUFFICES ASSUME pc[Root] = "clean"
               PROVE  \E b \in bundles :
                        /\ b.name = name[Root] /\ Complete(b)
                        /\ \A r \in Ranks : \A f \in Loaded(b, r) :
                             f.time = time[Root]
    OBVIOUS
  <2>1. PICK b \in bundles : /\ b.name = name[Root]
                             /\ b.copied = list /\ b.entries = list
    BY DEF RootList
  <2>2. Moment(b.entries, time[Root], leg)
    BY <2>1 DEF RootList
  <2> QED BY <2>1, <2>2, CopiedIsComplete
<1>10. RootList'
  <2>1. CASE threw' = TRUE /\ pc'[Root] = "mirror"
    BY <2>1 DEF RootList
  <2>2. CASE pc' = pc /\ pc[Root] = "clean"
    BY <1>1, <1>5, <2>2 DEF RootList
  <2>3. CASE /\ pc'[Root] = "mirror" /\ pc[Root] = "clean"
             /\ parts' = parts /\ list \cap parts = {}
    <3>1. \A f \in parts : f.name # name[Root]
      BY <2>3 DEF RootList
    <3>2. Written(Root)'
      BY <1>1, <1>5, <1>9, <2>3, <3>1 DEF Written
    <3> QED BY <2>3, <3>2 DEF RootList
  <2> QED BY <1>2, <1>4, <2>1, <2>2, <2>3 DEF Types
<1> QED BY <1>4, <1>6, <1>7, <1>8, <1>10

-----------------------------------------------------------------------------
(* The run                                                                 *)

\* Everybody goes on to the next output together.
LEMMA NextOutputInv == ASSUME BInv, Step \/ Finalize PROVE BInv'
<1> USE DEF BInv
<1>1. /\ \A p \in Processes : pc[p] = "step"
      /\ pc' = [p \in Processes |-> "write"]
      /\ UNCHANGED <<size, leg, blk, count, list, threw, parts, bundles, held>>
  BY DEF Step, Finalize, AllAt, Everyone, disk
<1>2. /\ DOMAIN name' = Processes /\ DOMAIN time' = Processes
      /\ \A p, q \in Processes : name'[p] = name'[q] /\ time'[p] = time'[q]
  <2>1. \A p, q \in Processes : time[p] = time[q]
    BY <1>1 DEF Agree
  <2>2. CASE Step
    BY <2>1, <2>2 DEF Step
  <2>3. CASE Finalize
    BY <2>1, <2>3 DEF Finalize, Everyone, Types
  <2> QED BY <2>2, <2>3
<1>3. /\ Processes' = Processes /\ BlockIds' = BlockIds
      /\ BlocksPerProcess' = BlocksPerProcess
      /\ \A b : Complete(b)' <=> Complete(b)
      /\ \A S, t, l : Moment(S, t, l)' <=> Moment(S, t, l)
  BY <1>1, FixedSize DEF BlocksPerProcess
<1>4. Root \in Processes /\ \A p \in Processes : pc'[p] = "write"
  BY <1>1, SizeTypes
<1>5. Types'
  BY <1>1, <1>2, <1>3 DEF Types, Places
<1>6. Stages' /\ Agree'
  BY <1>2, <1>3, <1>4 DEF Stages, Gathering, Agree
<1>7. CountsBlocks'
  BY <1>1, <1>3, <1>4 DEF CountsBlocks, Combining
<1>8. Threw'
  BY <1>1, <1>4 DEF Threw
<1>9. PartsUnique'
  BY <1>1 DEF PartsUnique
<1>10. PartsWait'
  <2>1. \A p \in Processes : blk'[p] = 0
    BY <1>1 DEF CountsBlocks
  <2> QED BY <1>3, <1>4, <2>1, SizeTypes DEF PartsWait, BlockIds
<1>11. BundlesOfMoment' /\ RootList' /\ NobodyReturnsEarly'
  BY <1>1, <1>3, <1>4 DEF BundlesOfMoment, RootList, NobodyReturnsEarly
<1>12. Risk'
  <2>1. AtRisk' = {}
    BY <1>1, <1>3, <1>4 DEF Risk, AtRisk
  <2> QED BY <2>1 DEF Risk
<1> QED BY <1>5, <1>6, <1>7, <1>8, <1>9, <1>10, <1>11, <1>12

LEMMA GoneInv == ASSUME BInv, Gone PROVE BInv'
<1> USE DEF BInv
<1>1. /\ UNCHANGED <<size, leg, parts, bundles>> /\ held' = {}
      /\ threw' = FALSE
      /\ pc' = [p \in Processes |-> "down"]
      /\ blk' = [p \in Processes |-> 0] /\ count' = [p \in Processes |-> 0]
      /\ name' = [p \in Processes |-> 0] /\ time' = [p \in Processes |-> 0]
  BY DEF Gone, disk, Everyone
<1>2. /\ Processes' = Processes /\ BlockIds' = BlockIds
      /\ \A S, t, l : Moment(S, t, l)' <=> Moment(S, t, l)
  BY <1>1, FixedSize
<1>3. Root \in Processes /\ 0 \in BlockIds
  BY SizeTypes
<1>4. \A p \in Processes : /\ pc'[p] = "down" /\ blk'[p] = 0 /\ count'[p] = 0
                           /\ name'[p] = 0 /\ time'[p] = 0
  BY <1>1
<1>5. Types'
  BY <1>1, <1>2, <1>3 DEF Types, Places
<1>6. Stages' /\ Agree' /\ CountsBlocks' /\ Threw'
  BY <1>1, <1>2, <1>4 DEF Stages, AllAt, Agree, CountsBlocks, Combining, Threw
<1>7. PartsUnique' /\ PartsWait'
  BY <1>1, <1>2, <1>3, <1>4 DEF PartsUnique, PartsWait
<1>8. BundlesOfMoment' /\ RootList' /\ NobodyReturnsEarly'
  BY <1>1, <1>2, <1>3, <1>4 DEF BundlesOfMoment, RootList, NobodyReturnsEarly
<1>9. Risk'
  BY <1>1, <1>3, <1>4 DEF Risk, AtRisk
<1> QED BY <1>5, <1>6, <1>7, <1>8, <1>9

\* A next leg starts from a bundle: its processes are at the moment of it, or
\* lost.
LEMMA ResumeInv == ASSUME BInv, NEW b \in bundles, Resume(b) PROVE BInv'
<1> USE DEF BInv
<1> DEFINE of(p) == {Loaded(b, RankOf(p, i)) : i \in 0..(BlocksPerProcess - 1)}
           place == IF b.name = Final THEN "step" ELSE "write"
<1>1. /\ \A p \in Processes : pc[p] = "down"
      /\ pc' = [p \in Processes |-> IF {} \in of(p) THEN "lost" ELSE place]
      /\ time' = [p \in Processes |->
           IF {} \in of(p) THEN 0
           ELSE (CHOOSE f \in Loaded(b, RankOf(p, 0)) : TRUE).time]
      /\ name' = [p \in Processes |-> b.name]
      /\ held' = {c.name : c \in {d \in bundles : Complete(d)}}
      /\ UNCHANGED <<size, blk, count, list, threw, parts, bundles>>
  BY DEF Resume, AllAt, Everyone, disk
<1>2. /\ Processes' = Processes /\ BlockIds' = BlockIds
      /\ \A S, t, l : Moment(S, t, l)' <=> Moment(S, t, l)
      /\ \A c : Complete(c)' <=> Complete(c)
  BY <1>1, FixedSize
<1>3. Root \in Processes /\ 0 \in BlockIds
  BY SizeTypes
<1>4. PICK g \in b.entries : Moment(b.entries, g.time, g.leg)
  BY DEF BundlesOfMoment
<1>5. ASSUME NEW p \in Processes, pc'[p] # "lost"
      PROVE  time'[p] = g.time /\ pc'[p] = place
  <2>1. {} \notin of(p) /\ pc'[p] = place
    BY <1>1, <1>5
  <2>2. Loaded(b, RankOf(p, 0)) \in of(p)
    BY <1>3 DEF BlockIds
  <2>3. PICK f \in Loaded(b, RankOf(p, 0)) : time'[p] = f.time
    BY <1>1, <2>1, <2>2
  <2>4. RankOf(p, 0) \in Ranks
    BY <1>3, RankOfIsARank
  <2>5. f.time = g.time
    BY <1>4, <2>3, <2>4, LoadedMoment DEF BundlesOfMoment
  <2> QED BY <2>1, <2>3, <2>5
<1>6. \A p \in Processes : pc'[p] \in {place, "lost"} /\ name'[p] = b.name
  BY <1>1
<1> HIDE DEF of
<1>7. Types'
  <2>1. pc' \in [Processes -> Places]
    BY <1>1 DEF Places
  <2> QED BY <1>1, <1>2, <2>1 DEF Types
<1>8. Stages' /\ Agree'
  BY <1>2, <1>5, <1>6 DEF Stages, Gathering, Back, Agree
<1>9. \A p \in Processes : blk'[p] = 0 /\ count'[p] = 0
  BY <1>1 DEF CountsBlocks
<1>10. CountsBlocks'
  BY <1>2, <1>6, <1>9 DEF CountsBlocks, Combining
<1>11. Threw'
  BY <1>1, <1>3 DEF Threw
<1>12. PartsUnique' /\ PartsWait'
  BY <1>1, <1>2, <1>3, <1>6, <1>9, SizeTypes
  DEF PartsUnique, PartsWait, BlockIds
<1>13. BundlesOfMoment' /\ RootList'
  BY <1>1, <1>2, <1>3, <1>6 DEF BundlesOfMoment, RootList
<1>14. NobodyReturnsEarly'
  BY <1>2, <1>6 DEF NobodyReturnsEarly
<1>15. Risk'
  <2>1. AtRisk' = {}
    BY <1>1, <1>2 DEF AtRisk
  <2> QED BY <2>1 DEF Risk
<1> QED BY <1>7, <1>8, <1>10, <1>11, <1>12, <1>13, <1>14, <1>15

LEMMA NextBundle == BInv /\ [Next]_vars => BInv'
<1> SUFFICES ASSUME BInv, [Next]_vars PROVE BInv'
  OBVIOUS
<1>1. ASSUME UNCHANGED vars PROVE BInv'
  <2>1. UNCHANGED <<size, leg, pc, blk, count, name, time, list, threw, parts,
                    bundles, held>>
    BY <1>1 DEF vars, memory, disk
  <2> QED BY <2>1
    DEF BInv, Types, Stages, Gathering, Mirroring, Back, AllAt, CountsBlocks,
        LastBlock, Agree, Threw, PartsUnique, PartsWait, Saved, RankOf,
        BlocksPerProcess, BlockIds, Processes, Ranks, BundlesOfMoment, Moment,
        RootList, Written, Complete, Loaded, Risk, AtRisk, NobodyReturnsEarly
<1>2. ASSUME NEW p \in Processes, Process(p) \/ WriteFails(p) PROVE BInv'
  BY <1>2, OpenPartInv, ClosePartInv, WriteFailsInv DEF Process
<1>3. CASE Barrier \/ RootSteps \/ BundleFails
  BY <1>3, BarrierInv, GlobInv, RenameInv, WriteIndexInv, CopyPartInv,
     RootLeaves DEF RootSteps
<1>4. CASE Step \/ Finalize \/ Exit \/ Stop \/ Crash
  BY <1>4, NextOutputInv, GoneInv DEF Exit, Stop, Crash
<1>5. ASSUME NEW b \in bundles, Resume(b) PROVE BInv'
  BY <1>5, ResumeInv
<1> QED BY <1>1, <1>2, <1>3, <1>4, <1>5 DEF Next

THEOREM StagesHold == Spec => []BInv
BY InitBundle, NextBundle, PTL DEF Spec

-----------------------------------------------------------------------------
\* A restart file that every rank accepts is one moment of one leg, for runs of
\* any size and whatever crashes, failures and leftover parts came before.
THEOREM OneMomentHolds == Spec => []OneMoment
<1>1. ASSUME BInv PROVE OneMoment
  <2> SUFFICES ASSUME NEW b \in bundles, NEW r \in Ranks, NEW q \in Ranks,
                      NEW f \in Loaded(b, r), NEW h \in Loaded(b, q)
               PROVE  f.time = h.time /\ f.leg = h.leg
    BY DEF OneMoment
  <2>1. PICK g \in b.entries : Moment(b.entries, g.time, g.leg)
    BY <1>1 DEF BInv, BundlesOfMoment
  <2>2. b.copied \subseteq b.entries /\ Types
    BY <1>1 DEF BInv, BundlesOfMoment
  <2> DEFINE t == g.time
             l == g.leg
  <2>3. Moment(b.entries, t, l)
    BY <2>1
  <2> HIDE DEF t, l
  <2>4. ASSUME NEW s \in Ranks, NEW x \in Loaded(b, s)
        PROVE  x.time = t /\ x.leg = l
    BY <2>2, <2>3, <2>4, LoadedMoment, ZenonT(30)
  <2> QED BY <2>4
<1> QED BY <1>1, StagesHold, PTL

\* Nobody is back from make_outputs before the file is complete and its parts
\* are gone, and processes pair their barriers, also when a write fails or the
\* root throws.
THEOREM BarriersWork == Spec => []BarriersHold
<1>1. ASSUME BInv PROVE BarriersPair
  <2>1. Types /\ Stages /\ Agree /\ Threw /\ Root \in Processes
    BY <1>1, SizeTypes DEF BInv
  <2>2. ASSUME \A p \in Processes : pc[p] \in Waiting
        PROVE  \A p, q \in Processes : pc[p] = pc[q] /\ name[p] = name[q]
    BY <2>1, <2>2, WaitTogether DEF Agree
  <2>3. ASSUME threw, pc[Root] = "lost"
        PROVE  \A p \in Processes : pc[p] \notin Combining
    BY <2>1, <2>3 DEF Threw, Back, Combining
  <2> QED BY <2>2, <2>3 DEF BarriersPair
<1>2. BInv => NobodyReturnsEarly
  BY DEF BInv
<1>3. BInv => BarriersHold
  BY <1>1, <1>2 DEF BarriersHold
<1> QED BY <1>3, StagesHold, PTL

\* A leg puts at most one of its complete restart files at risk at a time.
THEOREM OneFileAtRisk == Spec => []OneAtRisk
<1>1. ASSUME BInv PROVE OneAtRisk
  <2>1. AtRisk \subseteq {name[Root]}
    BY <1>1 DEF BInv, Risk
  <2>2. IsFiniteSet({name[Root]}) /\ Cardinality({name[Root]}) = 1
    BY FS_Singleton
  <2>3. Cardinality(AtRisk) <= 1
    BY <2>1, <2>2, FS_Subset
  <2> QED BY <2>3 DEF OneAtRisk, AtRisk
<1> QED BY <1>1, StagesHold, PTL
=============================================================================
