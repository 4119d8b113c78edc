------------------------ MODULE LocalExchange_proofs ------------------------
(***************************************************************************)
(* Proofs about LocalExchange for any number of blocks, exchanges and      *)
(* jobs: MeetingKept, and the step simulation of Rendezvous.               *)
(*                                                                         *)
(* MeetingKept is not inductive.  What holds the blocks together is that   *)
(* all of them have the same number of meetings behind them (Together):    *)
(* the last one to be released ends a meeting for everybody at once, by    *)
(* the change of generation.  A block that has left a meeting is at that   *)
(* step or at the start of the next one, where nobody can copy before it   *)
(* has arrived, for arrived counts the blocks in the meeting (KeyOK).      *)
(***************************************************************************)
EXTENDS LocalExchange, FiniteSetTheorems, TLAPS

Before == {"start", "arrive"}
Waits == {"test-ready", "asleep-ready"}
Within == {"copy", "test-ready", "asleep-ready", "release", "test-gone", "asleep-gone"}

\* The meeting of its step is over for block b.
Left(b) == \/ pc[b] \in {"throw", "finalize"}
           \/ pc[b] = "test-gone" /\ gen[b] # generation[Key(b)]
           \/ pc[b] = "done" /\ b \notin early

Met(b) == IF Left(b) THEN step[b] ELSE step[b] - 1

\* A block that copies, or that threw when it should have.
Leads(b) == pc[b] = "copy" \/ b \in CalledOff(Key(b))

\* Blocks that the meeting has still to release.
ToRelease == {b \in Blocks : pc[b] \in {"test-ready", "release"}}

\* TypeOK without the ranges of the counters, which follow from their meaning.
Types == /\ generation \in [Keys -> Nat]
         /\ arrived \in [Keys -> Int]
         /\ released \in [Keys -> Int]
         /\ ready \in [Keys -> BOOLEAN]
         /\ error \in [Keys -> BOOLEAN]
         /\ registered \subseteq Blocks
         /\ job \in Nat
         /\ pc \in [Blocks -> Places]
         /\ step \in [Blocks -> 1..Steps]
         /\ gen \in [Blocks -> Nat]
         /\ threw \subseteq Blocks
         /\ early \subseteq threw
         /\ todo \subseteq Blocks \X Blocks
         /\ staged \in [Blocks -> Nat \X Nat]
         /\ received \in [Blocks -> [Blocks -> Nat \X Nat]]

\* Send buffers hold the exchange the block is at, or an earlier one.
StagedOK(b) ==
  /\ staged[b][1] <= job
  /\ staged[b][1] = job => staged[b][2] <= step[b]
  /\ pc[b] = "start" => staged[b] # Now(b)
  /\ pc[b] \notin {"start", "done"} => staged[b] = Now(b)

GenOK(b) ==
  /\ pc[b] \in Within => gen[b] <= generation[Key(b)]
  /\ pc[b] \in Within \ {"test-gone"} => gen[b] = generation[Key(b)]

\* What a block that has thrown, or will, can be doing.
ThrewOK(b) ==
  /\ b \in early => pc[b] = "done"
  /\ pc[b] \in Before \cup Waits \cup {"copy", "release", "finalize"} => b \notin threw
  /\ pc[b] = "throw" => b \in threw
  /\ pc[b] = "done" /\ b \notin threw => step[b] = Steps
  /\ pc[b] \in {"test-gone", "asleep-gone"} /\ ~Left(b) => (b \in threw <=> error[Key(b)])

\* ready as the block sees it.
ReadyOK(b) ==
  /\ pc[b] \in {"release", "test-gone", "asleep-gone"} /\ ~Left(b) => ready[Key(b)]
  /\ pc[b] = "asleep-ready" => ~ready[Key(b)]

BlockOK(b) == StagedOK(b) /\ GenOK(b) /\ ThrewOK(b) /\ ReadyOK(b)

Together == \A b, c \in Blocks : Met(b) = Met(c)

AllThrow == \A b, c \in Blocks : Left(b) /\ b \in threw => Left(c) /\ c \in threw

LeadsAlone ==
  \A b \in Blocks : Leads(b) =>
    /\ ~ready[Key(b)]
    /\ \A c \in Blocks : c # b => pc[c] \in Waits /\ step[c] = step[b]

KeyOK(k) ==
  /\ arrived[k] = Cardinality(AtMeeting(k))
  /\ ready[k] => /\ AtMeeting(k) = Blocks
                 /\ released[k] = Cardinality(ToRelease)
                 /\ ToRelease # {}
  /\ ~ready[k] => released[k] = 0 /\ ~error[k]

CopyOK(b) ==
  pc[b] = "copy" => \A l \in Links[Key(b)] : l \notin todo => received[l[2]][l[1]] = Now(b)

\* Block b will deserialize what it has, or has been told to.
Takes(b) == \/ pc[b] \in {"finalize", "test-gone"} /\ Left(b) /\ b \notin threw
            \/ pc[b] \in Within /\ ~Left(b) /\ ready[Key(b)] /\ ~error[Key(b)]

TakesOK(b) ==
  Takes(b) => \A c \in Blocks : <<c, b>> \in Links[Key(b)] => received[b][c] = Now(b)

Control == /\ \A b \in Blocks : BlockOK(b)
           /\ Together /\ AllThrow /\ LeadsAlone
           /\ \A k \in Keys : KeyOK(k)

Data == \A b \in Blocks : CopyOK(b) /\ TakesOK(b)

IInv == Types /\ Control /\ Data

-----------------------------------------------------------------------------
\* There are at least two blocks, and sets of blocks can be counted.
LEMMA Counting ==
  /\ N \in Nat /\ N > 1 /\ IsFiniteSet(Blocks)
  /\ \A S \in SUBSET Blocks : /\ IsFiniteSet(S) /\ Cardinality(S) \in 0..N
                              /\ Cardinality(S) = N => S = Blocks
<1>1. IsFiniteSet(Blocks) /\ N \in Nat /\ N > 1
  BY ExchangeAssumption, FS_CardinalityType DEF N
<1>2. ASSUME NEW S \in SUBSET Blocks
      PROVE  /\ IsFiniteSet(S) /\ Cardinality(S) \in 0..N
             /\ Cardinality(S) = N => S = Blocks
  <2>1. IsFiniteSet(S) /\ Cardinality(S) <= N /\ (Cardinality(S) = N => S = Blocks)
    BY <1>1, FS_Subset DEF N
  <2>2. Cardinality(S) \in Nat
    BY <2>1, FS_CardinalityType
  <2> QED
    BY <1>1, <2>1, <2>2
<1> QED
  BY <1>1, <1>2

\* A block is at an exchange of the schedule.
LEMMA Basics == Types => \A b \in Blocks : Key(b) \in Keys /\ step[b] \in Nat
  BY ExchangeAssumption DEF Types, Key

\* Who is in a meeting.
LEMMA AtMeetingIs ==
  ASSUME Types, Control, NEW k \in Keys
  PROVE  /\ AtMeeting(k) \subseteq Blocks
         /\ \A b \in Blocks :
              b \in AtMeeting(k) <=>
                /\ Key(b) = k
                /\ \/ pc[b] \in Within /\ ~Left(b)
                   \/ b \in early /\ staged[b] = Now(b)
<1>1. \A b \in Blocks : pc[b] \in Within /\ Key(b) = k =>
        (gen[b] = generation[k] <=> ~Left(b))
  BY DEF Control, BlockOK, GenOK, ThrewOK, Left, Within
<1> QED
  BY <1>1 DEF AtMeeting, CalledOff, Types, Within

\* When the copy is to begin, or is called off, all others wait.
LEMMA LastIsLast ==
  ASSUME Types, Control, NEW b \in Blocks, pc[b] = "arrive"
  PROVE  /\ b \notin AtMeeting(Key(b)) /\ ~ready[Key(b)]
         /\ \A c \in Blocks : ~Leads(c)
         /\ IsLast(b) => \A c \in Blocks : c # b => pc[c] \in Waits /\ step[c] = step[b]
<1>1. b \notin AtMeeting(Key(b))
  BY Basics, AtMeetingIs DEF Control, BlockOK, ThrewOK, Within
<1>2. ~ready[Key(b)]
  BY <1>1, Basics DEF Control, KeyOK
<1>3. \A c \in Blocks : ~Leads(c)
  BY DEF Control, LeadsAlone, Leads, Waits, CalledOff, BlockOK, ThrewOK
<1>4. ASSUME IsLast(b), NEW c \in Blocks, c # b
      PROVE  pc[c] \in Waits /\ step[c] = step[b]
  <2>1. Cardinality(AtMeeting(Key(b)) \cup {b}) = N
    BY <1>1, <1>4, Basics, Counting, AtMeetingIs, FS_AddElement DEF IsLast, Control, KeyOK
  <2>2. c \in AtMeeting(Key(b))
    BY <1>4, <2>1, Basics, Counting, AtMeetingIs
  <2>3. ~(c \in early /\ staged[c] = Now(c))
    BY <1>3 DEF Leads, CalledOff
  <2>4. pc[c] \in Within /\ ~Left(c) /\ Key(c) = Key(b)
    BY <2>2, <2>3, Basics, AtMeetingIs
  <2>5. pc[c] \in Waits
    BY <1>2, <1>3, <2>4 DEF Control, BlockOK, ReadyOK, Within, Waits, Leads
  <2>6. step[c] = step[b]
    BY <2>4, Basics DEF Control, Together, Met, Left, BlockOK, ThrewOK
  <2> QED
    BY <2>5, <2>6
<1> QED
  BY <1>1, <1>2, <1>3, <1>4

\* A meeting has been published: everybody is in it, at the same step.
LEMMA PublishedMeeting ==
  ASSUME Types, Control, NEW k \in Keys, ready[k], NEW b \in Blocks
  PROVE  /\ Key(b) = k /\ pc[b] \in Within \ {"copy", "asleep-ready"} /\ ~Left(b)
         /\ ~Leads(b) /\ b \notin early /\ b \in AtMeeting(k)
         /\ \A c \in Blocks : step[c] = step[b]
<1>1. \A c \in Blocks : c \in AtMeeting(k) /\ Key(c) = k
  BY AtMeetingIs DEF Control, KeyOK
<1>2. \A c \in Blocks : ~Leads(c)
  BY <1>1 DEF Control, LeadsAlone
<1>3. \A c \in Blocks : pc[c] \in Within /\ ~Left(c) /\ c \notin early
  BY <1>1, <1>2, AtMeetingIs DEF Leads, CalledOff, Control, BlockOK, ThrewOK, Within
<1>4. \A c \in Blocks : pc[c] # "copy" /\ pc[c] # "asleep-ready"
  BY <1>1, <1>2 DEF Leads, Control, BlockOK, ReadyOK
<1>5. \A c \in Blocks : step[c] = step[b]
  BY <1>3, Basics DEF Control, Together, Met
<1> QED
  BY <1>1, <1>2, <1>3, <1>4, <1>5

LEMMA InitIInv == Init => IInv
<1> SUFFICES ASSUME Init PROVE IInv
  OBVIOUS
<1>1. Types
  BY ExchangeAssumption DEF Init, Types, Places
<1>2. \A b \in Blocks : BlockOK(b) /\ ~Left(b) /\ ~Leads(b) /\ ~Takes(b) /\ CopyOK(b)
  BY Basics, <1>1 DEF Init, BlockOK, StagedOK, GenOK, ThrewOK, ReadyOK, Left, Leads, Takes,
               CalledOff, CopyOK, Within, Now
<1>3. \A k \in Keys : AtMeeting(k) = {}
  BY DEF Init, AtMeeting, CalledOff
<1>4. \A k \in Keys : KeyOK(k)
  BY <1>3, FS_EmptySet DEF Init, KeyOK
<1>5. Together /\ AllThrow /\ LeadsAlone
  BY <1>1, <1>2 DEF Together, Met, AllThrow, LeadsAlone, Init
<1> QED
  BY <1>1, <1>2, <1>4, <1>5 DEF IInv, Control, Data, TakesOK

-----------------------------------------------------------------------------
\* The states of the keys keep their types,
LEMMA StateTypes ==
  Types /\ [Next]_vars => /\ generation' \in [Keys -> Nat]
                          /\ arrived' \in [Keys -> Int] /\ released' \in [Keys -> Int]
                          /\ ready' \in [Keys -> BOOLEAN] /\ error' \in [Keys -> BOOLEAN]
<1> SUFFICES ASSUME Types, [Next]_vars
             PROVE  /\ generation' \in [Keys -> Nat]
                    /\ arrived' \in [Keys -> Int] /\ released' \in [Keys -> Int]
                    /\ ready' \in [Keys -> BOOLEAN] /\ error' \in [Keys -> BOOLEAN]
  OBVIOUS
<1>1. ASSUME NEW b \in Blocks, Arrive(b) \/ Lead(b) \/ LeadThrows(b)
      PROVE  UNCHANGED <<generation, released, ready, error>> /\ arrived' \in [Keys -> Int]
  BY <1>1, Basics DEF Arrive, Lead, LeadThrows, Types
<1>2. ASSUME NEW b \in Blocks, CopyFails(b) \/ Publish(b)
      PROVE  /\ UNCHANGED <<generation, arrived>> /\ released' \in [Keys -> Int]
             /\ ready' \in [Keys -> BOOLEAN] /\ error' \in [Keys -> BOOLEAN]
  <2>1. N \in Int
    BY Counting
  <2> QED
    BY <1>2, <2>1 DEF CopyFails, Publish, ReleasedAll, Types
<1>3. ASSUME NEW b \in Blocks, Release(b)
      PROVE  UNCHANGED <<generation, arrived, ready, error>> /\ released' \in [Keys -> Int]
  BY <1>3, Basics DEF Release, Types
<1>4. ASSUME NEW b \in Blocks, ReleaseLast(b)
      PROVE  /\ generation' \in [Keys -> Nat]
             /\ arrived' \in [Keys -> Int] /\ released' \in [Keys -> Int]
             /\ ready' \in [Keys -> BOOLEAN] /\ error' \in [Keys -> BOOLEAN]
  BY <1>4, Basics DEF ReleaseLast, Clear, Types
<1>5. ASSUME NEW b \in Blocks,
             \/ Serialize(b) \/ SerializeFails(b) \/ CopyLink(b) \/ WaitReady(b) \/ WaitGone(b)
             \/ Throw(b) \/ Finalize(b) \/ SpuriousWakeup(b) \/ WriteSuperResolution(b)
      PROVE  UNCHANGED state
  BY <1>5 DEF Serialize, SerializeFails, CopyLink, WaitReady, WaitGone, Throw, Finalize,
              SpuriousWakeup, WriteSuperResolution
<1>6. CASE NextJob \/ UNCHANGED vars
  BY <1>6 DEF NextJob, vars, state, Types
<1> QED
  BY <1>1, <1>2, <1>3, <1>4, <1>5, <1>6 DEF Next, BlockStep, state, Types

\* and so do the blocks,
LEMMA BlockTypes ==
  Types /\ [Next]_vars => /\ pc' \in [Blocks -> Places] /\ step' \in [Blocks -> 1..Steps]
                          /\ job' \in Nat /\ gen' \in [Blocks -> Nat]
<1> SUFFICES ASSUME Types, [Next]_vars
             PROVE  /\ pc' \in [Blocks -> Places] /\ step' \in [Blocks -> 1..Steps]
                    /\ job' \in Nat /\ gen' \in [Blocks -> Nat]
  OBVIOUS
<1>1. ASSUME NEW b \in Blocks, Arrive(b) \/ Lead(b) \/ LeadThrows(b)
      PROVE  /\ pc' \in [Blocks -> Places] /\ UNCHANGED <<job, step>>
             /\ gen' \in [Blocks -> Nat]
  BY <1>1, Basics DEF Arrive, Lead, LeadThrows, Move, Types, Places
<1>2. ASSUME NEW b \in Blocks, CopyFails(b) \/ Publish(b) \/ ReleaseLast(b)
      PROVE  pc' \in [Blocks -> Places] /\ UNCHANGED <<job, step, gen>>
  <2>1. PICK to \in {"release", "throw", "finalize"} : WakeAll(b, to)
    BY <1>2 DEF CopyFails, Publish, ReleaseLast, Outcome
  <2>2. pc' \in [Blocks -> Places]
    BY <2>1 DEF WakeAll, Types, Places
  <2> QED
    BY <1>2, <2>2 DEF CopyFails, Publish, ReleaseLast
<1>3. ASSUME NEW b \in Blocks,
             \/ Serialize(b) \/ SerializeFails(b) \/ WaitReady(b) \/ WaitGone(b)
             \/ Release(b) \/ Throw(b) \/ SpuriousWakeup(b)
      PROVE  pc' \in [Blocks -> Places] /\ UNCHANGED <<job, step, gen>>
  BY <1>3 DEF Serialize, SerializeFails, WaitReady, WaitGone, Throw, SpuriousWakeup, Release,
              AfterRelease, Move, Outcome, Types, Places
<1>4. ASSUME NEW b \in Blocks, Finalize(b)
      PROVE  /\ pc' \in [Blocks -> Places] /\ step' \in [Blocks -> 1..Steps]
             /\ UNCHANGED <<job, gen>>
  <2>1. /\ UNCHANGED <<job, gen>>
        /\ \/ pc' = [pc EXCEPT ![b] = "done"]
           \/ pc' = [pc EXCEPT ![b] = "start"]
    BY <1>4 DEF Finalize
  <2>2. step[b] # Steps => step[b] + 1 \in 1..Steps
    <3>1. Steps \in Nat
      BY ExchangeAssumption
    <3>2. step[b] \in 1..Steps
      BY DEF Types
    <3> QED
      BY <3>1, <3>2
  <2>3. step' \in [Blocks -> 1..Steps]
    BY <1>4, <2>2 DEF Finalize, Types
  <2> QED
    BY <2>1, <2>3 DEF Types, Places
<1>5. ASSUME NEW b \in Blocks, CopyLink(b) \/ WriteSuperResolution(b)
      PROVE  UNCHANGED <<pc, step, job, gen>>
  BY <1>5 DEF CopyLink, WriteSuperResolution
<1>6. CASE NextJob
  <2>1. 1 \in 1..Steps
    BY ExchangeAssumption
  <2> QED
    BY <1>6, <2>1 DEF NextJob, Types, Places
<1>7. CASE UNCHANGED vars
  BY <1>7 DEF vars, Types
<1> QED
  BY <1>1, <1>2, <1>3, <1>4, <1>5, <1>6, <1>7 DEF Next, BlockStep, Types

\* and the sets and buffers.
LEMMA DataTypes ==
  Types /\ [Next]_vars => /\ registered' \subseteq Blocks
                          /\ threw' \subseteq Blocks /\ early' \subseteq threw'
                          /\ todo' \subseteq Blocks \X Blocks
                          /\ staged' \in [Blocks -> Nat \X Nat]
                          /\ received' \in [Blocks -> [Blocks -> Nat \X Nat]]
<1> SUFFICES ASSUME Types, [Next]_vars
             PROVE  /\ registered' \subseteq Blocks
                    /\ threw' \subseteq Blocks /\ early' \subseteq threw'
                    /\ todo' \subseteq Blocks \X Blocks
                    /\ staged' \in [Blocks -> Nat \X Nat]
                    /\ received' \in [Blocks -> [Blocks -> Nat \X Nat]]
  OBVIOUS
<1>1. ASSUME NEW b \in Blocks, Serialize(b)
      PROVE  /\ UNCHANGED <<registered, threw, early, todo, received>>
             /\ staged' \in [Blocks -> Nat \X Nat]
  <2>1. Now(b) \in Nat \X Nat
    BY Basics DEF Types, Now
  <2> QED
    BY <1>1, <2>1 DEF Serialize, Types
<1>2. ASSUME NEW b \in Blocks, SerializeFails(b) \/ LeadThrows(b)
      PROVE  /\ UNCHANGED <<registered, data>>
             /\ threw' = threw \cup {b} /\ early' = early \cup {b}
  BY <1>2 DEF SerializeFails, LeadThrows
<1>3. ASSUME NEW b \in Blocks, Lead(b)
      PROVE  /\ UNCHANGED <<registered, threw, early, staged, received>>
             /\ todo' \subseteq Blocks \X Blocks
  BY <1>3, Basics, ExchangeAssumption DEF Lead
<1>4. ASSUME NEW b \in Blocks, CopyLink(b)
      PROVE  /\ UNCHANGED <<registered, threw, early, staged>> /\ todo' \subseteq todo
             /\ received' \in [Blocks -> [Blocks -> Nat \X Nat]]
  <2>1. PICK l \in todo : /\ received' = [received EXCEPT ![l[2]][l[1]] = staged[l[1]]]
                          /\ todo' = todo \ {l}
    BY <1>4 DEF CopyLink
  <2>2. l[1] \in Blocks /\ l[2] \in Blocks
    BY DEF Types
  <2>3. staged[l[1]] \in Nat \X Nat
    BY <2>2 DEF Types
  <2>4. received' \in [Blocks -> [Blocks -> Nat \X Nat]]
    BY <2>1, <2>2, <2>3 DEF Types
  <2> QED
    BY <1>4, <2>1, <2>4 DEF CopyLink
<1>5. ASSUME NEW b \in Blocks, CopyFails(b) \/ Publish(b)
      PROVE  /\ UNCHANGED <<registered, threw, early, staged, received>> /\ todo' \subseteq todo
  BY <1>5 DEF CopyFails, Publish, data
<1>6. ASSUME NEW b \in Blocks, Release(b) \/ ReleaseLast(b)
      PROVE  /\ UNCHANGED <<registered, early, data>>
             /\ threw' \in {threw, threw \cup {b}}
  BY <1>6 DEF Release, ReleaseLast
<1>7. ASSUME NEW b \in Blocks,
             \/ Arrive(b) \/ WaitReady(b) \/ WaitGone(b) \/ Throw(b) \/ Finalize(b)
             \/ SpuriousWakeup(b)
      PROVE  UNCHANGED <<registered, threw, early, data>>
  BY <1>7 DEF Arrive, WaitReady, WaitGone, Throw, Finalize, SpuriousWakeup
<1>8. ASSUME NEW b \in Blocks, WriteSuperResolution(b)
      PROVE  UNCHANGED <<threw, early, data>> /\ registered' \subseteq registered
  BY <1>8 DEF WriteSuperResolution
<1>9. CASE NextJob \/ UNCHANGED vars
  BY <1>9 DEF NextJob, vars, data, Types
<1>10. CASE \E b \in Blocks : BlockStep(b) \/ SpuriousWakeup(b) \/ WriteSuperResolution(b)
  BY <1>1, <1>2, <1>3, <1>4, <1>5, <1>6, <1>7, <1>8, <1>10 DEF BlockStep, data, Types
<1> QED
  BY <1>9, <1>10 DEF Next

LEMMA NextTypes == Types /\ [Next]_vars => Types'
  BY StateTypes, BlockTypes, DataTypes DEF Types

-----------------------------------------------------------------------------
\* A step of Rendezvous for one key, or none.
GoesOn(k) == Meeting(k)!Next \/ UNCHANGED Meeting(k)!vars

LEMMA MeetingStays ==
  ASSUME NEW k \in Keys, AtMeeting(k)' = AtMeeting(k), CalledOff(k)' = CalledOff(k),
         generation'[k] = generation[k]
  PROVE  GoesOn(k)
  BY DEF GoesOn, Meeting!vars

-----------------------------------------------------------------------------
\* A block fills its send buffers, or throws before it arrives.
LEMMA SerializeStep ==
  ASSUME IInv, NEW b \in Blocks, Serialize(b) \/ SerializeFails(b)
  PROVE  IInv' /\ \A k \in Keys : GoesOn(k)
<1> USE DEF IInv
<1>1. pc[b] = "start" /\ b \notin threw /\ b \notin early /\ ~Left(b)
  BY DEF Serialize, SerializeFails, Move, Control, BlockOK, ThrewOK, Before, Types, Left
<1>2. UNCHANGED <<state, job, step, gen, todo, received>>
  BY DEF Serialize, SerializeFails, data, state
<1>3. Types'
  BY NextTypes DEF Next, BlockStep
<1>4. \A c \in Blocks : /\ (Left(c)' <=> Left(c)) /\ Met(c)' = Met(c) /\ Key(c)' = Key(c)
                        /\ Now(c)' = Now(c)
                        /\ c # b => pc'[c] = pc[c] /\ staged'[c] = staged[c]
                             /\ (c \in threw' <=> c \in threw)
                             /\ (c \in early' <=> c \in early)
  BY <1>1, <1>2 DEF Serialize, SerializeFails, Move, Left, Met, Key, Now, Types, state, data
<1>5. BlockOK(b)'
  BY <1>1, <1>2, <1>4 DEF Serialize, SerializeFails, Move, Control, BlockOK, StagedOK, GenOK,
     ThrewOK, ReadyOK, Types, Within, Before, Waits, Now, Key, state, data
<1>6. \A c \in Blocks : c # b => BlockOK(c)'
  BY <1>2, <1>4 DEF Control, BlockOK, StagedOK, GenOK, ThrewOK, ReadyOK, state
<1>7. \A c \in Blocks : (Leads(c)' <=> Leads(c))
  BY <1>1, <1>2, <1>4, Basics DEF Serialize, SerializeFails, Move, Leads, CalledOff, Types,
     Control, BlockOK, StagedOK, data
<1>8. \A k \in Keys : AtMeeting(k)' = AtMeeting(k)
  BY <1>1, <1>2, <1>4 DEF Serialize, SerializeFails, Move, AtMeeting, CalledOff, Types,
     Control, BlockOK, StagedOK, data, state
<1>9. ToRelease' = ToRelease
  BY <1>1, <1>4 DEF Serialize, SerializeFails, Move, ToRelease, Types
<1>10. (\A k \in Keys : KeyOK(k))' /\ Together' /\ AllThrow'
  <2>1. (\A k \in Keys : KeyOK(k))'
    BY <1>2, <1>8, <1>9 DEF Control, KeyOK, state
  <2>2. Together' /\ AllThrow'
    BY <1>1, <1>4 DEF Control, Together, AllThrow
  <2> QED
    BY <2>1, <2>2
<1>11. LeadsAlone'
  BY <1>1, <1>2, <1>4, <1>7 DEF Control, LeadsAlone, Waits, state
<1>12. Data'
  <2>1. ~Takes(b)' /\ CopyOK(b)'
    BY <1>1, <1>4 DEF Serialize, SerializeFails, Move, Takes, CopyOK, Within, Types
  <2>2. \A c \in Blocks : c # b => CopyOK(c)' /\ TakesOK(c)'
    BY <1>2, <1>4 DEF Data, CopyOK, TakesOK, Takes, state
  <2> QED
    BY <2>1, <2>2 DEF Data, TakesOK
<1>20. \A k \in Keys : CalledOff(k)' = CalledOff(k)
  <2>1. b \in early' => staged'[b] # Now(b)'
    BY <1>1, <1>2, <1>4 DEF Serialize, SerializeFails, Control, BlockOK, StagedOK, Types, data
  <2>2. \A c \in Blocks : c \in early' /\ staged'[c] = Now(c)' <=> c \in early /\ staged[c] = Now(c)
    BY <1>1, <1>4, <2>1
  <2>3. early \subseteq Blocks /\ early' \subseteq Blocks
    BY <1>3 DEF Types
  <2> QED
    BY <1>4, <2>2, <2>3 DEF CalledOff
<1>21. \A k \in Keys : GoesOn(k)
  BY <1>2, <1>8, <1>20, MeetingStays DEF state
<1> QED
  BY <1>21, <1>3, <1>5, <1>6, <1>10, <1>11, <1>12 DEF Control

\* A block arrives; the last one begins to copy, or throws.
LEMMA ArriveStep ==
  ASSUME IInv, NEW b \in Blocks, Arrive(b) \/ Lead(b) \/ LeadThrows(b)
  PROVE  IInv' /\ \A k \in Keys : GoesOn(k)
<1> USE DEF IInv
<1>1. pc[b] = "arrive" /\ b \notin threw /\ b \notin early /\ ~Left(b) /\ staged[b] = Now(b)
  BY DEF Arrive, Lead, LeadThrows, Move, Control, BlockOK, ThrewOK, StagedOK, Before, Types, Left
<1>2. /\ UNCHANGED <<generation, released, ready, error, job, step, staged, received>>
      /\ gen' = [gen EXCEPT ![b] = generation[Key(b)]]
      /\ arrived' = [arrived EXCEPT ![Key(b)] = @ + 1]
      /\ pc'[b] \in {"test-ready", "copy", "done"}
  BY DEF Arrive, Lead, LeadThrows, Move, data, Types
<1>3. Types'
  BY NextTypes DEF Next, BlockStep
<1>4. \A c \in Blocks : /\ (Left(c)' <=> Left(c)) /\ Met(c)' = Met(c) /\ Key(c)' = Key(c)
                        /\ Now(c)' = Now(c)
                        /\ c # b => pc'[c] = pc[c] /\ gen'[c] = gen[c]
                             /\ (c \in threw' <=> c \in threw)
                             /\ (c \in early' <=> c \in early)
  <2>1. \A c \in Blocks : c # b => /\ pc'[c] = pc[c] /\ gen'[c] = gen[c]
                                   /\ (c \in threw' <=> c \in threw)
                                   /\ (c \in early' <=> c \in early)
    BY <1>2 DEF Arrive, Lead, LeadThrows, Move, Types
  <2>2. ~Left(b)'
    BY <1>2 DEF Arrive, Lead, LeadThrows, Move, Types, Left
  <2>3. \A c \in Blocks : Key(c)' = Key(c) /\ Now(c)' = Now(c)
    BY <1>2 DEF Key, Now
  <2>4. \A c \in Blocks : c # b => (Left(c)' <=> Left(c))
    BY <1>2, <2>1, <2>3 DEF Left
  <2> QED
    <3>1. \A c \in Blocks : (Left(c)' <=> Left(c))
      BY <1>1, <2>2, <2>4
    <3> QED
      BY <1>2, <2>1, <2>3, <3>1 DEF Met
<1>5. ~ready[Key(b)] /\ b \notin AtMeeting(Key(b)) /\ (\A c \in Blocks : ~Leads(c))
  BY <1>1, LastIsLast
<1>6. BlockOK(b)'
  <2>1. \/ pc'[b] \in {"test-ready", "copy"} /\ b \notin early' /\ b \notin threw'
        \/ pc'[b] = "done" /\ b \in early' /\ b \in threw'
    <3>1. CASE Arrive(b)
      BY <1>1, <3>1 DEF Arrive, Move, Types
    <3>2. CASE Lead(b)
      BY <1>1, <3>2 DEF Lead, Move, Types
    <3>3. CASE LeadThrows(b)
      BY <1>1, <3>3 DEF LeadThrows, Move, Types
    <3> QED
      BY <3>1, <3>2, <3>3
  <2>2. gen'[b] = generation'[Key(b)'] /\ generation'[Key(b)'] \in Nat
    BY <1>2, <1>4, Basics DEF Types
  <2>3. StagedOK(b)'
    <3>1. StagedOK(b) /\ pc'[b] # "start"
      BY <2>1 DEF Control, BlockOK
    <3>2. staged'[b] = Now(b)' /\ UNCHANGED <<staged, job, step>>
      BY <1>1, <1>2, <1>4
    <3> QED
      BY <3>1, <3>2 DEF StagedOK
  <2>4. GenOK(b)' /\ ReadyOK(b)' /\ ThrewOK(b)'
    BY <2>1, <2>2 DEF GenOK, ReadyOK, ThrewOK, Before, Waits, Within
  <2> QED
    BY <2>3, <2>4 DEF BlockOK
<1>7. \A c \in Blocks : c # b => BlockOK(c)'
  BY <1>2, <1>4 DEF Control, BlockOK, StagedOK, GenOK, ThrewOK, ReadyOK
<1>8. \A k \in Keys : AtMeeting(k)' = IF k = Key(b) THEN AtMeeting(k) \cup {b} ELSE AtMeeting(k)
  <2>1. ASSUME NEW k \in Keys, NEW c \in Blocks, c # b
        PROVE  c \in AtMeeting(k)' <=> c \in AtMeeting(k)
    BY <1>2, <1>4, <2>1 DEF AtMeeting, CalledOff
  <2>2. ASSUME NEW k \in Keys
        PROVE  b \in AtMeeting(k)' <=> k = Key(b)
    <3>1. gen'[b] = generation[Key(b)]
      BY <1>2 DEF Types
    <3>2. pc'[b] \in {"test-ready", "copy"} \/ b \in early'
      BY <1>2 DEF Arrive, Lead, LeadThrows, Move, Types
    <3> QED
      BY <1>1, <1>2, <1>4, <3>1, <3>2 DEF AtMeeting, CalledOff
  <2>3. \A k \in Keys : b \in AtMeeting(k) => k = Key(b)
    BY DEF AtMeeting, CalledOff
  <2>4. \A k \in Keys : AtMeeting(k) \subseteq Blocks /\ AtMeeting(k)' \subseteq Blocks
    BY <1>3 DEF AtMeeting, CalledOff, Types
  <2> QED
    BY <1>5, <2>1, <2>2, <2>3, <2>4
<1>9. ASSUME NEW k \in Keys PROVE KeyOK(k)'
  <2>1. CASE k # Key(b)
    <3>1. ~ready[k]
      BY <2>1, PublishedMeeting
    <3> QED
      BY <1>2, <1>8, <2>1, <3>1 DEF Control, KeyOK, Types
  <2>2. CASE k = Key(b)
    <3>1. Cardinality(AtMeeting(k) \cup {b}) = Cardinality(AtMeeting(k)) + 1
      BY <1>5, <2>2, Basics, Counting, AtMeetingIs, FS_AddElement
    <3>2. AtMeeting(k)' = AtMeeting(k) \cup {b}
      BY <1>8, <2>2
    <3>3. arrived'[k] = arrived[k] + 1
      BY <1>2, <2>2 DEF Types
    <3> QED
      BY <1>2, <1>5, <2>2, <3>1, <3>2, <3>3 DEF Control, KeyOK
  <2> QED
    BY <2>1, <2>2
<1>10. Together' /\ AllThrow'
  BY <1>1, <1>4 DEF Control, Together, AllThrow
<1>11. LeadsAlone'
  <2>1. \A c \in Blocks : c # b => ~Leads(c)'
    BY <1>2, <1>4, <1>5 DEF Leads, CalledOff
  <2>2. CASE Arrive(b)
    <3>1. ~Leads(b)'
      BY <1>1, <2>2 DEF Arrive, Move, Leads, CalledOff, Types
    <3> QED
      BY <2>1, <3>1 DEF LeadsAlone
  <2>3. CASE Lead(b) \/ LeadThrows(b)
    <3>1. \A c \in Blocks : c # b => pc[c] \in Waits /\ step[c] = step[b]
      BY <1>1, <2>3, LastIsLast DEF Lead, LeadThrows
    <3> QED
      BY <1>2, <1>4, <1>5, <2>1, <3>1 DEF LeadsAlone
  <2> QED
    BY <2>2, <2>3
<1>12. Data'
  <2>1. ~Takes(b)'
    BY <1>2, <1>4, <1>1, <1>5 DEF Takes
  <2>2. \A c \in Blocks : c # b => ~(pc[c] = "copy")
    BY <1>5 DEF Leads
  <2>3. CopyOK(b)'
    BY <1>2, <1>4 DEF Arrive, Lead, LeadThrows, Move, CopyOK, Types
  <2>4. \A c \in Blocks : c # b => CopyOK(c)' /\ TakesOK(c)'
    BY <1>2, <1>4, <2>2 DEF Data, CopyOK, TakesOK, Takes
  <2> QED
    BY <2>1, <2>3, <2>4 DEF Data, TakesOK
<1>20. \A k \in Keys : k # Key(b) => GoesOn(k)
  <2>1. \A k \in Keys : k # Key(b) => CalledOff(k)' = CalledOff(k)
    BY <1>1, <1>2, <1>4, <1>3 DEF CalledOff, Types
  <2> QED
    BY <1>2, <1>8, <2>1, MeetingStays
<1>21. ASSUME NEW k \in Keys, k = Key(b) PROVE GoesOn(k)
  <2>1. /\ b \notin AtMeeting(k) /\ AtMeeting(k)' = AtMeeting(k) \cup {b}
        /\ generation'[k] = generation[k]
    BY <1>2, <1>5, <1>8, <1>21
  <2>2. CASE Arrive(b) \/ Lead(b)
    <3>1. CalledOff(k)' = CalledOff(k)
      BY <1>2, <1>4, <2>2 DEF CalledOff, Arrive, Lead, Types
    <3>2. Meeting(k)!Enter(b)
      BY <2>1, <3>1 DEF Meeting!Enter
    <3> QED
      BY <3>2 DEF GoesOn, Meeting!Next
  <2>3. CASE LeadThrows(b)
    <3>1. AtMeeting(k) \cup {b} = Blocks
      <4>1. Cardinality(AtMeeting(k) \cup {b}) = N
        BY <1>5, <1>21, <2>1, <2>3, Counting, AtMeetingIs, FS_AddElement
           DEF LeadThrows, IsLast, Control, KeyOK
      <4> QED
        BY <4>1, Counting, AtMeetingIs
    <3>2. b \in CalledOff(k)'
      BY <1>1, <1>2, <1>4, <1>21, <2>3 DEF LeadThrows, CalledOff
    <3>3. Meeting(k)!CallOff(b)
      BY <2>1, <3>1, <3>2 DEF Meeting!CallOff
    <3> QED
      BY <3>3 DEF GoesOn, Meeting!Next
  <2> QED
    BY <2>2, <2>3
<1>22. \A k \in Keys : GoesOn(k)
  BY <1>20, <1>21
<1> QED
  BY <1>3, <1>6, <1>7, <1>9, <1>10, <1>11, <1>12, <1>22 DEF Control

\* While a block copies all others wait, at the same step.
LEMMA CopyingAlone ==
  ASSUME Types, Control, NEW b \in Blocks, pc[b] = "copy"
  PROVE  /\ ~ready[Key(b)]
         /\ \A c \in Blocks : /\ Key(c) = Key(b) /\ step[c] = step[b] /\ Now(c) = Now(b)
                              /\ staged[c] = Now(b) /\ gen[c] = generation[Key(b)]
                              /\ ~Left(c) /\ c \notin threw /\ c \notin early
                              /\ c # b => pc[c] \in Waits
         /\ AtMeeting(Key(b)) = Blocks
         /\ \A k \in Keys : k # Key(b) => AtMeeting(k) = {} /\ ~ready[k]
<1>1. ~ready[Key(b)] /\ \A c \in Blocks : c # b => pc[c] \in Waits /\ step[c] = step[b]
  BY DEF Control, LeadsAlone, Leads
<1>2. \A c \in Blocks : pc[c] \in Waits \cup {"copy"} /\ step[c] = step[b]
  BY <1>1
<1>3. \A c \in Blocks : Key(c) = Key(b) /\ Now(c) = Now(b)
  BY <1>2 DEF Key, Now
<1>4. \A c \in Blocks : ~Left(c) /\ c \notin threw /\ c \notin early
  BY <1>2 DEF Left, Control, BlockOK, ThrewOK, Waits, Types
<1>5. \A c \in Blocks : staged[c] = Now(c) /\ gen[c] = generation[Key(c)]
  BY <1>2 DEF Control, BlockOK, StagedOK, GenOK, Waits, Within
<1>6. AtMeeting(Key(b)) = Blocks
  <2>1. PICK k \in Keys : k = Key(b)
    BY Basics
  <2> QED
    BY <1>2, <1>3, <1>4, <2>1, AtMeetingIs DEF Waits, Within
<1>7. \A k \in Keys : k # Key(b) => AtMeeting(k) = {}
  BY <1>3, AtMeetingIs
<1>8. \A k \in Keys : k # Key(b) => ~ready[k]
  BY <1>7 DEF Control, KeyOK
<1> QED
  BY <1>1, <1>2, <1>3, <1>4, <1>5, <1>6, <1>7, <1>8

\* What Control speaks of.
Seen == <<generation, arrived, released, ready, error, job, pc, step, gen, threw, early, staged>>

LEMMA ControlUnchanged == Control /\ UNCHANGED Seen => Control'
<1> SUFFICES ASSUME Control, UNCHANGED Seen PROVE Control'
  OBVIOUS
<1>1. \A b \in Blocks : /\ Key(b)' = Key(b) /\ Now(b)' = Now(b)
                        /\ (Left(b)' <=> Left(b)) /\ Met(b)' = Met(b)
  BY DEF Seen, Key, Now, Left, Met
<1>2. \A b \in Blocks : BlockOK(b)'
  BY <1>1 DEF Seen, Control, BlockOK, StagedOK, GenOK, ThrewOK, ReadyOK
<1>3. Together' /\ AllThrow'
  BY <1>1 DEF Seen, Control, Together, AllThrow
<1>4. LeadsAlone'
  BY DEF Seen, Control, LeadsAlone, Leads, CalledOff, Key, Now
<1>5. \A k \in Keys : KeyOK(k)'
  BY DEF Seen, Control, KeyOK, AtMeeting, CalledOff, ToRelease, Key, Now
<1> QED
  BY <1>2, <1>3, <1>4, <1>5 DEF Control

\* One link is copied.
LEMMA CopyStep ==
  ASSUME IInv, NEW b \in Blocks, CopyLink(b)
  PROVE  IInv' /\ \A k \in Keys : GoesOn(k)
<1> USE DEF IInv
<1>1. Types'
  BY NextTypes DEF Next, BlockStep
<1>2. pc[b] = "copy" /\ UNCHANGED Seen
  BY DEF CopyLink, state, Seen
<1>3. Control'
  BY <1>2, ControlUnchanged
<1>4. /\ ~ready[Key(b)]
      /\ \A c \in Blocks : /\ Key(c) = Key(b) /\ staged[c] = Now(b) /\ ~Left(c)
                           /\ c # b => pc[c] \in Waits
  BY <1>2, CopyingAlone
<1>5. \A c \in Blocks : ~Takes(c)'
  <2>1. \A c \in Blocks : ~Left(c)' /\ Key(c)' = Key(b)
    BY <1>2, <1>4 DEF Seen, Left, Key
  <2> QED
    BY <1>2, <1>4, <2>1 DEF Takes, Seen
<1>6. PICK l \in todo : /\ received' = [received EXCEPT ![l[2]][l[1]] = staged[l[1]]]
                        /\ todo' = todo \ {l}
  BY DEF CopyLink
<1>7. l[1] \in Blocks /\ l[2] \in Blocks /\ l = <<l[1], l[2]>>
  BY DEF Types
<1>8. staged[l[1]] = Now(b)
  BY <1>4, <1>7
<1>9. ASSUME NEW m \in Links[Key(b)], m \notin todo'
      PROVE  received'[m[2]][m[1]] = Now(b)
  <2>1. m[1] \in Blocks /\ m[2] \in Blocks /\ m = <<m[1], m[2]>>
    BY Basics, ExchangeAssumption
  <2>2. CASE m[1] = l[1] /\ m[2] = l[2]
    BY <1>6, <1>7, <1>8, <2>2 DEF Types
  <2>3. CASE ~(m[1] = l[1] /\ m[2] = l[2])
    <3>1. m \notin todo
      BY <1>6, <1>9, <2>3
    <3>2. received[m[2]][m[1]] = Now(b)
      BY <1>2, <3>1 DEF Data, CopyOK
    <3> QED
      BY <1>6, <1>7, <2>1, <2>3, <3>2 DEF Types
  <2> QED
    BY <2>2, <2>3
<1>10. CopyOK(b)'
  BY <1>2, <1>9 DEF Seen, CopyOK, Key, Now
<1>11. \A c \in Blocks : c # b => CopyOK(c)'
  BY <1>2, <1>4 DEF Seen, CopyOK, Waits
<1>20. \A k \in Keys : CalledOff(k)' = CalledOff(k)
  BY <1>2 DEF CalledOff, Key, Now, Seen
<1>21. \A k \in Keys : GoesOn(k)
  <2>1. \A k \in Keys : AtMeeting(k)' = AtMeeting(k) /\ generation'[k] = generation[k]
    BY <1>2 DEF AtMeeting, CalledOff, Key, Now, Seen
  <2> QED
    BY <1>20, <2>1, MeetingStays
<1> QED
  BY <1>21, <1>1, <1>3, <1>5, <1>10, <1>11 DEF Data, TakesOK

\* The copy is published, or its failure.
LEMMA PublishStep ==
  ASSUME IInv, NEW b \in Blocks, CopyFails(b) \/ Publish(b)
  PROVE  IInv' /\ \A k \in Keys : GoesOn(k)
<1> USE DEF IInv
<1>1. Types'
  BY NextTypes DEF Next, BlockStep
<1>2. /\ pc[b] = "copy"
      /\ WakeAll(b, "release")
      /\ UNCHANGED <<generation, arrived, job, step, gen, threw, early, staged, received>>
      /\ todo = {} \/ ReleasedAll(Key(b), TRUE)
      /\ \E failed \in BOOLEAN : ReleasedAll(Key(b), failed)
  BY DEF CopyFails, Publish, data
<1>3. PICK k \in Keys : k = Key(b)
  BY Basics
<1>4. ready'[k] /\ released'[k] = N
  BY <1>2, <1>3 DEF ReleasedAll, Types
<1>5. \A m \in Keys : m # k => /\ ready'[m] = ready[m] /\ released'[m] = released[m]
                               /\ error'[m] = error[m]
  BY <1>2, <1>3 DEF ReleasedAll, Types
<1>6. todo = {} \/ error'[k]
  BY <1>2, <1>3 DEF ReleasedAll, Types
<1>7. \A c \in Blocks : /\ Key(c)' = k /\ Now(c)' = Now(b) /\ step'[c] = step[b]
                        /\ staged'[c] = Now(b) /\ gen'[c] = generation'[k]
                        /\ c \notin threw' /\ c \notin early'
                        /\ pc'[c] = IF c = b THEN "release" ELSE "test-ready"
  <2>1. \A c \in Blocks : Key(c)' = Key(c) /\ Now(c)' = Now(c)
    BY <1>2 DEF Key, Now
  <2>2. \A c \in Blocks : /\ Key(c) = Key(b) /\ step[c] = step[b] /\ Now(c) = Now(b)
                          /\ staged[c] = Now(b) /\ gen[c] = generation[Key(b)]
                          /\ c \notin threw /\ c \notin early
                          /\ c # b => pc[c] \in Waits
    BY <1>2, CopyingAlone
  <2>3. \A c \in Blocks : pc'[c] = IF c = b THEN "release" ELSE "test-ready"
    BY <1>2, <2>2 DEF WakeAll, Waits
  <2> QED
    BY <1>2, <1>3, <2>1, <2>2, <2>3
<1>8. \A c \in Blocks : ~Left(c)' /\ ~Leads(c)'
  BY <1>7 DEF Left, Leads, CalledOff
<1>9. \A c \in Blocks : BlockOK(c)'
  <2>1. \A c \in Blocks : StagedOK(c)'
    BY <1>2, <1>7, CopyingAlone DEF Control, BlockOK, StagedOK, Waits
  <2>2. \A c \in Blocks : GenOK(c)'
    BY <1>1, <1>3, <1>7 DEF GenOK, Within, Types
  <2>3. \A c \in Blocks : ThrewOK(c)' /\ ReadyOK(c)'
    BY <1>4, <1>7 DEF ThrewOK, ReadyOK, Before, Waits
  <2> QED
    BY <2>1, <2>2, <2>3 DEF BlockOK
<1>10. AtMeeting(k)' = Blocks /\ ToRelease' = Blocks /\ Blocks # {}
  BY <1>1, <1>7 DEF AtMeeting, CalledOff, ToRelease, Types
<1>11. \A m \in Keys : m # k => AtMeeting(m)' = {} /\ AtMeeting(m) = {}
  BY <1>1, <1>2, <1>3, <1>7, CopyingAlone DEF AtMeeting, CalledOff, Types
<1>12. AtMeeting(k) = Blocks
  BY <1>2, <1>3, CopyingAlone
<1>13. ASSUME NEW m \in Keys PROVE KeyOK(m)'
  <2>1. CASE m = k
    BY <1>2, <1>4, <1>10, <1>12, <2>1, Counting DEF Control, KeyOK, N
  <2>2. CASE m # k
    <3>1. ~ready[m]
      BY <1>2, <1>3, <2>2, CopyingAlone
    <3> QED
      BY <1>2, <1>5, <1>11, <2>2, <3>1 DEF Control, KeyOK
  <2> QED
    BY <2>1, <2>2
<1>14. Together' /\ AllThrow' /\ LeadsAlone'
  BY <1>7, <1>8 DEF Together, Met, AllThrow, LeadsAlone
<1>15. Data'
  <2>1. \A c \in Blocks : CopyOK(c)'
    BY <1>7 DEF CopyOK
  <2>2. ASSUME NEW c \in Blocks, Takes(c)', NEW d \in Blocks, <<d, c>> \in Links[k]
        PROVE  received'[c][d] = Now(b)
    <3>1. todo = {}
      BY <1>6, <1>7, <1>8, <2>2 DEF Takes
    <3> QED
      BY <1>2, <1>3, <2>2, <3>1 DEF Data, CopyOK
  <2> QED
    BY <1>7, <2>1, <2>2 DEF Data, TakesOK
<1>20. \A m \in Keys : CalledOff(m)' = CalledOff(m)
  <2>1. early \subseteq Blocks /\ \A c \in early : c \notin Blocks
    BY <1>1, <1>2, <1>7 DEF Types
  <2> QED
    BY <1>2, <2>1 DEF CalledOff
<1>21. \A m \in Keys : GoesOn(m)
  <2>1. \A m \in Keys : AtMeeting(m)' = AtMeeting(m)
    BY <1>10, <1>11, <1>12
  <2> QED
    BY <1>2, <1>20, <2>1, MeetingStays
<1> QED
  BY <1>21, <1>1, <1>9, <1>13, <1>14, <1>15 DEF Control

\* A block looks whether the copy is published, sleeps or wakes up.
LEMMA WaitReadyStep ==
  ASSUME IInv, NEW b \in Blocks, WaitReady(b) \/ SpuriousWakeup(b)
  PROVE  IInv' /\ \A k \in Keys : GoesOn(k)
<1> USE DEF IInv
<1>1. Types'
  BY NextTypes DEF Next, BlockStep
<1>2. /\ UNCHANGED <<generation, arrived, released, ready, error, job, step, gen, threw, early,
                     todo, staged, received>>
      /\ \A c \in Blocks : c # b => pc'[c] = pc[c]
      /\ \/ pc[b] = "test-ready" /\ pc'[b] = "release" /\ ready[Key(b)]
         \/ pc[b] = "test-ready" /\ pc'[b] = "asleep-ready" /\ ~CopyPublished(b)
         \/ pc[b] = "asleep-ready" /\ pc'[b] = "test-ready"
         \/ pc[b] = "asleep-gone" /\ pc'[b] = "test-gone"
  BY DEF WaitReady, SpuriousWakeup, Move, CopyPublished, state, data, Types
<1>3. /\ pc[b] \in Within /\ gen[b] = generation[Key(b)] /\ ~Left(b) /\ b \notin early
      /\ pc[b] \in Waits => b \notin threw
  BY <1>2 DEF Control, BlockOK, GenOK, ThrewOK, Left, Within, Waits
<1>4. pc[b] = "test-ready" /\ pc'[b] = "asleep-ready" => ~ready[Key(b)]
  BY <1>2, <1>3 DEF CopyPublished
<1>5. \A c \in Blocks : /\ Key(c)' = Key(c) /\ Now(c)' = Now(c) /\ Met(c)' = Met(c)
                        /\ (Left(c)' <=> Left(c))
                        /\ (pc'[c] \in Within <=> pc[c] \in Within)
  <2>1. \A c \in Blocks : Key(c)' = Key(c) /\ Now(c)' = Now(c)
    BY <1>2 DEF Key, Now
  <2>2. ~Left(b)' /\ pc'[b] \in Within
    BY <1>2, <1>3, <2>1 DEF Left, Within
  <2>3. \A c \in Blocks : c # b => (Left(c)' <=> Left(c))
    BY <1>2, <2>1 DEF Left
  <2>4. \A c \in Blocks : Left(c)' <=> Left(c)
    BY <1>3, <2>2, <2>3
  <2> QED
    BY <1>2, <1>3, <2>1, <2>2, <2>4 DEF Met
<1>6. BlockOK(b)'
  <2>1. StagedOK(b) /\ GenOK(b) /\ ThrewOK(b) /\ ReadyOK(b)
    BY DEF Control, BlockOK
  <2>2. StagedOK(b)'
    BY <1>2, <1>5, <2>1 DEF StagedOK
  <2>3. GenOK(b)'
    BY <1>2, <1>3, <1>5, <2>1 DEF GenOK
  <2>4. ThrewOK(b)'
    BY <1>2, <1>3, <1>5, <2>1 DEF ThrewOK, Before, Waits
  <2>5. ReadyOK(b)'
    BY <1>2, <1>3, <1>4, <1>5, <2>1 DEF ReadyOK
  <2> QED
    BY <2>2, <2>3, <2>4, <2>5 DEF BlockOK
<1>7. \A c \in Blocks : c # b => BlockOK(c)'
  BY <1>2, <1>5 DEF Control, BlockOK, StagedOK, GenOK, ThrewOK, ReadyOK
<1>8. \A k \in Keys : AtMeeting(k)' = AtMeeting(k)
  BY <1>2, <1>5 DEF AtMeeting, CalledOff, Within, Types
<1>9. ASSUME NEW k \in Keys, ready[k] PROVE ToRelease' = ToRelease
  <2>1. pc[b] # "asleep-ready" /\ Key(b) = k
    BY <1>9, PublishedMeeting
  <2>2. pc[b] \in {"test-ready", "release"} <=> pc'[b] \in {"test-ready", "release"}
    BY <1>2, <1>4, <1>9, <2>1
  <2> QED
    BY <1>2, <2>2 DEF ToRelease
<1>10. \A k \in Keys : KeyOK(k)'
  BY <1>2, <1>8, <1>9 DEF Control, KeyOK
<1>11. Together' /\ AllThrow'
  BY <1>2, <1>5 DEF Control, Together, AllThrow
<1>12. LeadsAlone'
  <2>1. \A c \in Blocks : Leads(c)' <=> Leads(c)
    BY <1>2, <1>5 DEF Leads, CalledOff
  <2>2. ASSUME NEW c \in Blocks, Leads(c), c # b
        PROVE  pc'[b] \in Waits
    <3>1. pc[b] \in Waits /\ step[b] = step[c] /\ ~ready[Key(c)]
      BY <2>2 DEF Control, LeadsAlone
    <3>2. Key(b) = Key(c)
      BY <3>1 DEF Key
    <3> QED
      BY <1>2, <3>1, <3>2 DEF Waits
  <2> QED
    BY <1>2, <1>5, <2>1, <2>2 DEF Control, LeadsAlone
<1>13. Data'
  <2>1. \A c \in Blocks : CopyOK(c)'
    BY <1>2, <1>5 DEF Data, CopyOK
  <2>2. \A c \in Blocks : Takes(c)' => Takes(c)
    BY <1>2, <1>3, <1>5 DEF Takes
  <2> QED
    BY <1>2, <1>5, <2>1, <2>2 DEF Data, TakesOK
<1>20. \A k \in Keys : CalledOff(k)' = CalledOff(k)
  BY <1>2, <1>5 DEF CalledOff, Types
<1>21. \A k \in Keys : GoesOn(k)
  BY <1>2, <1>8, <1>20, MeetingStays
<1> QED
  BY <1>21, <1>1, <1>6, <1>7, <1>10, <1>11, <1>12, <1>13 DEF Control

\* A block is released, with others still to come.
LEMMA ReleaseStep ==
  ASSUME IInv, NEW b \in Blocks, Release(b)
  PROVE  IInv' /\ \A k \in Keys : GoesOn(k)
<1> USE DEF IInv
<1>1. Types'
  BY NextTypes DEF Next, BlockStep
<1>2. PICK k \in Keys : k = Key(b)
  BY Basics
<1>3. /\ UNCHANGED <<generation, arrived, ready, error, job, step, gen, early, todo, staged,
                     received>>
      /\ released[k] # 1 /\ released' = [released EXCEPT ![k] = @ - 1]
      /\ pc[b] = "release" /\ pc' = [pc EXCEPT ![b] = "test-gone"]
      /\ threw' = IF error[k] THEN threw \cup {b} ELSE threw
  BY <1>2 DEF Release, Move, AfterRelease, data
<1>4. gen[b] = generation[k] /\ ~Left(b) /\ b \notin threw /\ ready[k] /\ staged[b] = Now(b)
  <2>1. ~Left(b)
    BY <1>3 DEF Left
  <2> QED
    BY <1>2, <1>3, <2>1 DEF Control, BlockOK, GenOK, ThrewOK, ReadyOK, StagedOK, Within
<1>5. \A c \in Blocks : /\ Key(c) = k /\ pc[c] \in Within /\ ~Left(c) /\ c \notin early
                        /\ ~Leads(c)
  BY <1>4, PublishedMeeting DEF Within
<1>6. \A c \in Blocks : /\ Key(c)' = k /\ Now(c)' = Now(c) /\ step'[c] = step[c]
                        /\ c # b => pc'[c] = pc[c] /\ (c \in threw' <=> c \in threw)
  BY <1>3, <1>5 DEF Key, Now, Types
<1>7. pc'[b] = "test-gone" /\ (b \in threw' <=> error[k])
  BY <1>3, <1>4 DEF Types
<1>8. \A c \in Blocks : ~Left(c)'
  <2>1. ~Left(b)'
    BY <1>3, <1>4, <1>6, <1>7 DEF Left
  <2>2. \A c \in Blocks : c # b => ~Left(c)'
    BY <1>3, <1>5, <1>6 DEF Left
  <2> QED
    BY <2>1, <2>2
<1>9. BlockOK(b)'
  <2>1. StagedOK(b)'
    BY <1>3, <1>6, <1>7 DEF Control, BlockOK, StagedOK
  <2>2. GenOK(b)'
    BY <1>1, <1>3, <1>4, <1>6, <1>7 DEF GenOK, Types
  <2>3. ThrewOK(b)'
    BY <1>3, <1>5, <1>6, <1>7 DEF ThrewOK, Before, Waits
  <2>4. ReadyOK(b)'
    BY <1>3, <1>4, <1>6, <1>7 DEF ReadyOK
  <2> QED
    BY <2>1, <2>2, <2>3, <2>4 DEF BlockOK
<1>10. \A c \in Blocks : c # b => BlockOK(c)'
  BY <1>3, <1>5, <1>6, <1>8 DEF Control, BlockOK, StagedOK, GenOK, ThrewOK, ReadyOK
<1>11. \A m \in Keys : AtMeeting(m)' = AtMeeting(m)
  BY <1>3, <1>5, <1>6, <1>7 DEF AtMeeting, CalledOff, Types
<1>12. ToRelease' = ToRelease \ {b} /\ b \in ToRelease
  BY <1>3 DEF ToRelease, Types
<1>13. ASSUME NEW m \in Keys PROVE KeyOK(m)'
  <2>1. CASE m = k
    <3>1. IsFiniteSet(ToRelease) /\ Cardinality(ToRelease) \in Nat
      BY Counting, FS_CardinalityType DEF ToRelease
    <3>2. Cardinality(ToRelease') = Cardinality(ToRelease) - 1 /\ IsFiniteSet(ToRelease')
      BY <1>12, <3>1, FS_RemoveElement
    <3>3. Cardinality(ToRelease) # 1
      BY <1>3, <1>4 DEF Control, KeyOK
    <3>4. ToRelease' # {}
      BY <3>1, <3>2, <3>3, FS_EmptySet
    <3> QED
      BY <1>3, <1>4, <1>11, <2>1, <3>2, <3>4 DEF Control, KeyOK, Types
  <2>2. CASE m # k
    <3>1. ~ready[m]
      BY <1>2, <2>2, PublishedMeeting
    <3> QED
      BY <1>3, <1>11, <2>2, <3>1 DEF Control, KeyOK, Types
  <2> QED
    BY <2>1, <2>2
<1>14. Together' /\ AllThrow' /\ LeadsAlone'
  <2>1. Together' /\ AllThrow'
    BY <1>5, <1>6, <1>8 DEF Control, Together, Met, AllThrow
  <2>2. \A c \in Blocks : ~Leads(c)'
    BY <1>3, <1>5, <1>6, <1>7 DEF Leads, CalledOff
  <2> QED
    BY <2>1, <2>2 DEF LeadsAlone
<1>15. Data'
  <2>1. \A c \in Blocks : pc'[c] # "copy"
    BY <1>5, <1>6, <1>7 DEF Leads
  <2>2. \A c \in Blocks : Takes(c)' => Takes(c)
    BY <1>3, <1>5, <1>6, <1>8 DEF Takes
  <2> QED
    BY <1>3, <1>5, <1>6, <2>1, <2>2 DEF Data, CopyOK, TakesOK
<1>20. \A m \in Keys : CalledOff(m)' = CalledOff(m)
  BY <1>3, <1>5, <1>6 DEF CalledOff, Types
<1>21. \A m \in Keys : GoesOn(m)
  BY <1>3, <1>11, <1>20, MeetingStays
<1> QED
  BY <1>21, <1>1, <1>9, <1>10, <1>13, <1>14, <1>15 DEF Control

\* The last block is released: the meeting is over, for all at once.
LEMMA ReleaseLastStep ==
  ASSUME IInv, NEW b \in Blocks, ReleaseLast(b)
  PROVE  IInv' /\ \A m \in Keys : GoesOn(m)
<1> USE DEF IInv
<1>1. Types'
  BY NextTypes DEF Next, BlockStep
<1>2. PICK k \in Keys : k = Key(b)
  BY Basics
<1>3. /\ UNCHANGED <<job, step, gen, early, todo, staged, received>>
      /\ released[k] = 1 /\ released' = [released EXCEPT ![k] = 0]
      /\ arrived' = [arrived EXCEPT ![k] = 0]
      /\ ready' = [ready EXCEPT ![k] = FALSE] /\ error' = [error EXCEPT ![k] = FALSE]
      /\ generation' = [generation EXCEPT ![k] = @ + 1]
      /\ pc[b] = "release" /\ WakeAll(b, Outcome(b, error[k]))
      /\ threw' = IF error[k] THEN threw \cup {b} ELSE threw
  BY <1>2 DEF ReleaseLast, Clear, data
<1>4. ready[k]
  <2>1. ~Left(b)
    BY <1>3 DEF Left
  <2> QED
    BY <1>2, <1>3, <2>1 DEF Control, BlockOK, ReadyOK
<1>5. \A c \in Blocks : /\ Key(c) = k /\ pc[c] \in Within \ {"copy", "asleep-ready"}
                        /\ ~Left(c) /\ c \notin early /\ step[c] = step[b]
  BY <1>4, PublishedMeeting
<1>6. \A m \in Keys : m # k => ~ready[m] /\ AtMeeting(m) = {}
  BY <1>5, PublishedMeeting, AtMeetingIs
<1>7. \A c \in Blocks : c # b => pc[c] \in {"test-gone", "asleep-gone"}
  <2>1. Cardinality(ToRelease) = 1 /\ IsFiniteSet(ToRelease)
    BY <1>3, <1>4, Counting DEF Control, KeyOK, ToRelease
  <2>2. PICK d : ToRelease = {d}
    BY <2>1, FS_Singleton
  <2>3. b \in ToRelease
    BY <1>3 DEF ToRelease
  <2>4. \A c \in Blocks : c # b => c \notin ToRelease
    BY <2>2, <2>3
  <2> QED
    BY <1>5, <2>4 DEF ToRelease, Within
<1>8. \A c \in Blocks : /\ Key(c)' = k /\ Now(c)' = Now(c) /\ step'[c] = step[b]
                        /\ gen'[c] = gen[c] /\ gen[c] \in Nat /\ gen[c] = generation[k]
                        /\ (c \in threw' <=> error[k])
                        /\ pc'[c] = IF c = b THEN IF error[k] THEN "throw" ELSE "finalize"
                                    ELSE "test-gone"
  <2>1. \A c \in Blocks : Key(c)' = k /\ Now(c)' = Now(c) /\ step'[c] = step[b]
    BY <1>3, <1>5 DEF Key, Now
  <2>2. \A c \in Blocks : gen[c] \in Nat /\ gen[c] = generation[k]
    BY <1>5, <1>7, <1>3 DEF Types, Control, BlockOK, GenOK, Left, Within
  <2>3. \A c \in Blocks : c # b => (c \in threw <=> error[k])
    BY <1>5, <1>7 DEF Control, BlockOK, ThrewOK
  <2>4. b \notin threw
    BY <1>3 DEF Control, BlockOK, ThrewOK
  <2>5. \A c \in Blocks : c \in threw' <=> error[k]
    BY <1>3, <2>3, <2>4
  <2>6. \A c \in Blocks :
          pc'[c] = IF c = b THEN IF error[k] THEN "throw" ELSE "finalize" ELSE "test-gone"
    BY <1>3, <1>7 DEF WakeAll, Outcome
  <2> QED
    BY <1>3, <2>1, <2>2, <2>5, <2>6
<1>9. generation'[k] = generation[k] + 1 /\ ~ready'[k] /\ ~error'[k]
  BY <1>3 DEF Types
<1>10. \A c \in Blocks : Left(c)' /\ ~Leads(c)'
  <2>1. \A c \in Blocks : gen'[c] # generation'[Key(c)']
    BY <1>8, <1>9
  <2> QED
    BY <1>3, <1>5, <1>8, <2>1 DEF Left, Leads, CalledOff
<1>11. \A c \in Blocks : BlockOK(c)'
  <2>1. \A c \in Blocks : StagedOK(c)'
    BY <1>3, <1>5, <1>8 DEF Control, BlockOK, StagedOK, Within
  <2>2. \A c \in Blocks : GenOK(c)'
    BY <1>8, <1>9 DEF GenOK, Within
  <2>3. \A c \in Blocks : ThrewOK(c)' /\ ReadyOK(c)'
    BY <1>3, <1>5, <1>8, <1>10 DEF ThrewOK, ReadyOK, Before, Waits
  <2> QED
    BY <2>1, <2>2, <2>3 DEF BlockOK
<1>12. \A m \in Keys : AtMeeting(m)' = {}
  BY <1>1, <1>3, <1>5, <1>8, <1>9 DEF AtMeeting, CalledOff, Types
<1>13. ASSUME NEW m \in Keys PROVE KeyOK(m)'
  <2>1. CASE m = k
    BY <1>3, <1>9, <1>12, <2>1, FS_EmptySet DEF KeyOK, Types
  <2>2. CASE m # k
    BY <1>3, <1>6, <1>12, <2>2 DEF Control, KeyOK, Types
  <2> QED
    BY <2>1, <2>2
<1>14. Together' /\ AllThrow' /\ LeadsAlone'
  BY <1>8, <1>10 DEF Together, Met, AllThrow, LeadsAlone
<1>15. Data'
  <2>1. \A c \in Blocks : CopyOK(c)'
    BY <1>8 DEF CopyOK
  <2>2. \A c \in Blocks : Takes(c)' => Takes(c)
    BY <1>4, <1>5, <1>8, <1>10 DEF Takes
  <2> QED
    BY <1>3, <1>5, <1>8, <2>1, <2>2 DEF Data, TakesOK
<1>20. \A m \in Keys : CalledOff(m) = {} /\ CalledOff(m)' = {}
  <2>1. early \subseteq Blocks /\ \A c \in early : c \notin Blocks
    BY <1>5 DEF Types
  <2> QED
    BY <1>3, <2>1 DEF CalledOff
<1>21. ASSUME NEW m \in Keys PROVE GoesOn(m)
  <2>1. CASE m = k
    <3>1. AtMeeting(m) = Blocks
      BY <1>4, <2>1 DEF Control, KeyOK
    <3>2. Meeting(m)!Leave
      BY <1>9, <1>12, <1>20, <2>1, <3>1 DEF Meeting!Leave
    <3> QED
      BY <3>2 DEF GoesOn, Meeting!Next
  <2>2. CASE m # k
    <3>1. generation'[m] = generation[m]
      BY <1>3, <2>2 DEF Types
    <3> QED
      BY <1>6, <1>12, <1>20, <2>2, <3>1, MeetingStays
  <2> QED
    BY <2>1, <2>2
<1> QED
  BY <1>1, <1>11, <1>13, <1>14, <1>15, <1>21 DEF Control

\* A block looks whether the meeting is over; one that throws leaves the job.
LEMMA WaitGoneStep ==
  ASSUME IInv, NEW b \in Blocks, WaitGone(b) \/ Throw(b)
  PROVE  IInv' /\ \A k \in Keys : GoesOn(k)
<1> USE DEF IInv
<1>1. Types'
  BY NextTypes DEF Next, BlockStep
<1>2. /\ UNCHANGED <<generation, arrived, released, ready, error, job, step, gen, threw, early,
                     todo, staged, received>>
      /\ \A c \in Blocks : c # b => pc'[c] = pc[c]
      /\ \/ /\ pc[b] = "test-gone" /\ generation[Key(b)] # gen[b]
            /\ pc'[b] = IF b \in threw THEN "throw" ELSE "finalize"
         \/ pc[b] = "test-gone" /\ pc'[b] = "asleep-gone" /\ generation[Key(b)] = gen[b]
         \/ pc[b] = "throw" /\ pc'[b] = "done"
  BY DEF WaitGone, Throw, Move, Outcome, state, data, Types
<1>3. b \notin early /\ (pc[b] = "throw" => b \in threw)
  BY <1>2 DEF Control, BlockOK, ThrewOK
<1>4. \A c \in Blocks : /\ Key(c)' = Key(c) /\ Now(c)' = Now(c) /\ Met(c)' = Met(c)
                        /\ (Left(c)' <=> Left(c))
  <2>1. \A c \in Blocks : Key(c)' = Key(c) /\ Now(c)' = Now(c)
    BY <1>2 DEF Key, Now
  <2>2. Left(b)' <=> Left(b)
    BY <1>2, <1>3, <2>1 DEF Left
  <2>3. \A c \in Blocks : c # b => (Left(c)' <=> Left(c))
    BY <1>2, <2>1 DEF Left
  <2>4. \A c \in Blocks : Left(c)' <=> Left(c)
    BY <2>2, <2>3
  <2> QED
    BY <1>2, <2>1, <2>4 DEF Met
<1>5. pc'[b] = "asleep-gone" => ~Left(b)
  BY <1>2 DEF Left
<1>6. BlockOK(b)'
  <2>1. StagedOK(b) /\ GenOK(b) /\ ThrewOK(b) /\ ReadyOK(b)
    BY DEF Control, BlockOK
  <2>2. StagedOK(b)'
    BY <1>2, <1>4, <2>1 DEF StagedOK
  <2>3. GenOK(b)'
    BY <1>1, <1>2, <1>4, <2>1, Basics DEF GenOK, Within, Types
  <2>4. ThrewOK(b)'
    BY <1>2, <1>3, <1>4, <1>5, <2>1 DEF ThrewOK, Before, Waits
  <2>5. ReadyOK(b)'
    BY <1>2, <1>4, <1>5, <2>1 DEF ReadyOK
  <2> QED
    BY <2>2, <2>3, <2>4, <2>5 DEF BlockOK
<1>7. \A c \in Blocks : c # b => BlockOK(c)'
  BY <1>2, <1>4 DEF Control, BlockOK, StagedOK, GenOK, ThrewOK, ReadyOK
<1>8. \A k \in Keys : AtMeeting(k)' = AtMeeting(k)
  BY <1>2, <1>4 DEF AtMeeting, CalledOff, Types
<1>9. ToRelease' = ToRelease
  BY <1>2 DEF ToRelease
<1>10. \A k \in Keys : KeyOK(k)'
  BY <1>2, <1>8, <1>9 DEF Control, KeyOK
<1>11. Together' /\ AllThrow'
  BY <1>2, <1>4 DEF Control, Together, AllThrow
<1>12. LeadsAlone'
  <2>1. \A c \in Blocks : c # b => ~Leads(c)
    BY <1>2 DEF Control, LeadsAlone, Waits
  <2>2. \A c \in Blocks : ~Leads(c)'
    BY <1>2, <1>3, <1>4, <2>1 DEF Leads, CalledOff
  <2> QED
    BY <2>2 DEF LeadsAlone
<1>13. Data'
  <2>1. \A c \in Blocks : CopyOK(c)'
    BY <1>2, <1>4 DEF Data, CopyOK
  <2>2. \A c \in Blocks : c # b => (Takes(c)' => Takes(c))
    BY <1>2, <1>4 DEF Takes
  <2>3. Takes(b)' => Takes(b)
    <3>1. pc[b] = "throw" => ~Takes(b)'
      BY <1>2, <1>3 DEF Takes, Within
    <3>2. pc[b] = "test-gone" /\ Left(b) => (Takes(b)' => Takes(b))
      BY <1>2, <1>4 DEF Takes
    <3>3. pc[b] = "test-gone" /\ ~Left(b) => (Takes(b)' => Takes(b))
      BY <1>2, <1>4 DEF Takes, Within
    <3> QED
      BY <1>2, <3>1, <3>2, <3>3
  <2>4. \A c \in Blocks : Takes(c)' => Takes(c)
    BY <2>2, <2>3
  <2> QED
    BY <1>2, <1>4, <2>1, <2>4 DEF Data, TakesOK
<1>20. \A k \in Keys : CalledOff(k)' = CalledOff(k)
  BY <1>2, <1>4 DEF CalledOff, Types
<1>21. \A k \in Keys : GoesOn(k)
  BY <1>2, <1>8, <1>20, MeetingStays
<1> QED
  BY <1>21, <1>1, <1>6, <1>7, <1>10, <1>11, <1>12, <1>13 DEF Control

\* A block has its data, and goes on to the next exchange.
LEMMA FinalizeStep ==
  ASSUME IInv, NEW b \in Blocks, Finalize(b)
  PROVE  IInv' /\ \A k \in Keys : GoesOn(k)
<1> USE DEF IInv
<1>1. Types'
  BY NextTypes DEF Next, BlockStep
<1>2. /\ UNCHANGED <<generation, arrived, released, ready, error, job, gen, threw, early,
                     todo, staged, received>>
      /\ pc[b] = "finalize"
      /\ \A c \in Blocks : c # b => pc'[c] = pc[c] /\ step'[c] = step[c]
      /\ \/ pc'[b] = "done" /\ step'[b] = step[b] /\ step[b] = Steps
         \/ pc'[b] = "start" /\ step'[b] = step[b] + 1
  BY DEF Finalize, state, data, Types
<1>3. /\ b \notin early /\ b \notin threw /\ Left(b) /\ ~Leads(b) /\ staged[b] = Now(b)
      /\ step[b] \in Nat
  BY <1>2, Basics DEF Control, BlockOK, ThrewOK, StagedOK, Left, Leads, CalledOff
<1>4. \A c \in Blocks : c # b => /\ Key(c)' = Key(c) /\ Now(c)' = Now(c) /\ Met(c)' = Met(c)
                                 /\ (Left(c)' <=> Left(c))
  <2>1. \A c \in Blocks : c # b => Key(c)' = Key(c) /\ Now(c)' = Now(c)
    BY <1>2 DEF Key, Now
  <2>2. \A c \in Blocks : c # b => (Left(c)' <=> Left(c))
    BY <1>2, <2>1 DEF Left
  <2> QED
    BY <1>2, <2>1, <2>2 DEF Met
<1>5. /\ Left(b)' <=> pc'[b] = "done"
      /\ Met(b)' = Met(b)
  <2>1. Left(b)' <=> pc'[b] = "done"
    BY <1>2, <1>3 DEF Left
  <2> QED
    BY <1>2, <1>3, <2>1 DEF Met
<1>6. BlockOK(b)'
  <2>1. staged'[b] = <<job, step[b]>> /\ staged'[b][1] = job /\ staged'[b][2] = step[b]
    BY <1>2, <1>3 DEF Now
  <2>2. StagedOK(b)'
    BY <1>2, <1>3, <2>1 DEF StagedOK, Now, Types
  <2>3. GenOK(b)' /\ ReadyOK(b)'
    BY <1>2 DEF GenOK, ReadyOK, Within
  <2>4. ThrewOK(b)'
    BY <1>2, <1>3 DEF ThrewOK, Before, Waits
  <2> QED
    BY <2>2, <2>3, <2>4 DEF BlockOK
<1>7. \A c \in Blocks : c # b => BlockOK(c)'
  BY <1>2, <1>4 DEF Control, BlockOK, StagedOK, GenOK, ThrewOK, ReadyOK
<1>8. \A k \in Keys : AtMeeting(k)' = AtMeeting(k)
  BY <1>2, <1>3, <1>4 DEF AtMeeting, CalledOff, Types
<1>9. ToRelease' = ToRelease
  BY <1>2 DEF ToRelease
<1>10. \A k \in Keys : KeyOK(k)'
  BY <1>2, <1>8, <1>9 DEF Control, KeyOK
<1>11. Together' /\ AllThrow'
  <2>1. \A c \in Blocks : Met(c)' = Met(c)
    BY <1>4, <1>5
  <2>2. \A c \in Blocks : ~(Left(c) /\ c \in threw)
    BY <1>3 DEF Control, AllThrow
  <2>3. AllThrow'
    BY <1>2, <1>3, <1>4, <2>2 DEF AllThrow
  <2> QED
    BY <2>1, <2>3 DEF Control, Together
<1>12. LeadsAlone'
  <2>1. \A c \in Blocks : c # b => ~Leads(c)
    BY <1>2 DEF Control, LeadsAlone, Waits
  <2>2. \A c \in Blocks : ~Leads(c)'
    BY <1>2, <1>3, <1>4, <2>1 DEF Leads, CalledOff
  <2> QED
    BY <2>2 DEF LeadsAlone
<1>13. Data'
  <2>1. \A c \in Blocks : c # b => CopyOK(c)' /\ (Takes(c)' => Takes(c))
    BY <1>2, <1>4 DEF Data, CopyOK, Takes
  <2>2. CopyOK(b)' /\ ~Takes(b)'
    BY <1>2 DEF CopyOK, Takes, Within
  <2> QED
    BY <1>2, <1>4, <2>1, <2>2 DEF Data, TakesOK
<1>20. \A k \in Keys : CalledOff(k)' = CalledOff(k)
  BY <1>2, <1>3, <1>4 DEF CalledOff, Types
<1>21. \A k \in Keys : GoesOn(k)
  BY <1>2, <1>8, <1>20, MeetingStays
<1> QED
  BY <1>21, <1>1, <1>6, <1>7, <1>10, <1>11, <1>12, <1>13 DEF Control

\* All blocks have left the job: no meeting is open, no state is in use.
LEMMA Quiet ==
  ASSUME IInv, AllDone
  PROVE  \A k \in Keys : AtMeeting(k) = {} /\ ~ready[k] /\ arrived[k] = 0
<1> USE DEF IInv
<1>1. \A b \in Blocks : \E c \in Blocks : c # b
  <2>1. ASSUME NEW b \in Blocks, \A c \in Blocks : c = b PROVE FALSE
    <3>1. Blocks = {b}
      BY <2>1
    <3> QED
      BY <3>1, Counting, FS_Singleton DEF N
  <2> QED
    BY <2>1
<1>2. \A b \in Blocks : ~Leads(b)
  BY <1>1 DEF AllDone, Control, LeadsAlone, Waits
<1>3. \A k \in Keys : AtMeeting(k) = {}
  BY <1>2, AtMeetingIs DEF AllDone, Within, Leads, CalledOff
<1>4. \A k \in Keys : arrived[k] = 0
  BY <1>3, FS_EmptySet DEF Control, KeyOK
<1>5. Blocks # {}
  BY Counting, FS_EmptySet DEF N
<1>6. \A k \in Keys : ~ready[k]
  BY <1>3, <1>5 DEF Control, KeyOK
<1> QED
  BY <1>3, <1>4, <1>6

\* The pool submits the next job.
LEMMA NextJobStep ==
  ASSUME IInv, NextJob
  PROVE  IInv' /\ \A k \in Keys : GoesOn(k)
<1> USE DEF IInv
<1>1. Types'
  BY NextTypes DEF Next
<1>2. /\ UNCHANGED <<generation, arrived, released, ready, error, gen, todo, staged, received>>
      /\ job' = job + 1 /\ threw' = {} /\ early' = {}
      /\ \A b \in Blocks : pc'[b] = "start" /\ step'[b] = 1
  BY DEF NextJob, state, data
<1>3. \A b \in Blocks : /\ ~Left(b)' /\ ~Leads(b)' /\ ~Takes(b)' /\ Met(b)' = 0
                        /\ CopyOK(b)'
  <2>1. \A b \in Blocks : ~Left(b)'
    BY <1>2 DEF Left
  <2> QED
    BY <1>2, <2>1 DEF Leads, CalledOff, Takes, Met, CopyOK, Within
<1>4. \A b \in Blocks : BlockOK(b)'
  <2>1. \A b \in Blocks : staged[b][1] <= job /\ staged[b] \in Nat \X Nat
    BY DEF Control, BlockOK, StagedOK, Types
  <2>2. \A b \in Blocks : staged'[b][1] < job'
    BY <1>2, <2>1 DEF Types
  <2>3. \A b \in Blocks : StagedOK(b)'
    BY <1>1, <1>2, <2>1, <2>2 DEF StagedOK, Now, Types
  <2>4. \A b \in Blocks : GenOK(b)' /\ ThrewOK(b)' /\ ReadyOK(b)'
    BY <1>2 DEF GenOK, ThrewOK, ReadyOK, Within
  <2> QED
    BY <2>3, <2>4 DEF BlockOK
<1>5. \A k \in Keys : AtMeeting(k)' = {}
  BY <1>2 DEF AtMeeting, CalledOff
<1>6. \A k \in Keys : KeyOK(k)'
  BY <1>2, <1>5, Quiet DEF NextJob, Control, KeyOK
<1>7. Together' /\ AllThrow' /\ LeadsAlone'
  BY <1>3 DEF Together, AllThrow, LeadsAlone
<1>20. \A k \in Keys : AtMeeting(k) = {} /\ CalledOff(k) = {} /\ CalledOff(k)' = {}
  <2>1. \A k \in Keys : AtMeeting(k) = {}
    BY Quiet DEF NextJob
  <2> QED
    BY <1>5, <2>1 DEF AtMeeting
<1>21. \A k \in Keys : GoesOn(k)
  BY <1>2, <1>5, <1>20, MeetingStays
<1> QED
  BY <1>21, <1>1, <1>3, <1>4, <1>6, <1>7 DEF Control, Data, TakesOK

\* Every step preserves the invariant, and is a step of each meeting or none.
LEMMA NextStep == IInv /\ [Next]_vars => IInv' /\ \A k \in Keys : GoesOn(k)
<1> SUFFICES ASSUME IInv, [Next]_vars PROVE IInv' /\ \A k \in Keys : GoesOn(k)
  OBVIOUS
<1>1. ASSUME NEW b \in Blocks, BlockStep(b) \/ SpuriousWakeup(b)
      PROVE  IInv' /\ \A k \in Keys : GoesOn(k)
  BY <1>1, SerializeStep, ArriveStep, CopyStep, PublishStep, WaitReadyStep, ReleaseStep,
     ReleaseLastStep, WaitGoneStep, FinalizeStep DEF BlockStep
<1>2. ASSUME UNCHANGED Seen, UNCHANGED data
      PROVE  IInv' /\ \A k \in Keys : GoesOn(k)
  <2>1. Types' /\ Control'
    BY <1>2, NextTypes, ControlUnchanged DEF IInv
  <2>2. Data'
    BY <1>2 DEF IInv, Data, CopyOK, TakesOK, Takes, Left, Key, Now, Seen, data
  <2>3. \A k \in Keys : /\ AtMeeting(k)' = AtMeeting(k) /\ CalledOff(k)' = CalledOff(k)
                        /\ generation'[k] = generation[k]
    BY <1>2 DEF AtMeeting, CalledOff, Key, Now, Seen
  <2> QED
    BY <2>1, <2>2, <2>3, MeetingStays DEF IInv
<1>3. ASSUME NEW b \in Blocks, WriteSuperResolution(b)
      PROVE  IInv' /\ \A k \in Keys : GoesOn(k)
  <2>1. UNCHANGED Seen /\ UNCHANGED data
    BY <1>3 DEF WriteSuperResolution, Seen, state, data
  <2> QED
    BY <1>2, <2>1
<1>4. CASE UNCHANGED vars
  <2>1. UNCHANGED Seen /\ UNCHANGED data
    BY <1>4 DEF vars, Seen, state, data
  <2> QED
    BY <1>2, <2>1
<1> QED
  BY <1>1, <1>3, <1>4, NextJobStep DEF Next

\* Invariance and simulation, for every number of blocks, exchanges and jobs.
THEOREM Invariance == Spec => []IInv
<1>1. IInv /\ [Next]_vars => IInv'
  BY NextStep
<1> QED
  BY InitIInv, <1>1, PTL DEF Spec

-----------------------------------------------------------------------------
\* Every block deserializes what its neighbors packed for this very exchange, the
\* copy is alone with the buffers, an exception of the copy is everybody's, and
\* nothing is left behind for the next job.
THEOREM EveryMeetingIsKept == Spec => []MeetingKept
<1>1. ASSUME IInv PROVE MeetingKept
  <2> USE <1>1 DEF IInv
  <2>1. TypeOK
    <3>1. \A k \in Keys : arrived[k] \in 0..N
      BY Counting, AtMeetingIs DEF Control, KeyOK
    <3>2. \A k \in Keys : released[k] \in 0..N
      <4>1. Cardinality(ToRelease) \in 0..N /\ 0 \in 0..N
        BY Counting DEF ToRelease
      <4> QED
        BY <4>1 DEF Control, KeyOK
    <3> QED
      BY <3>1, <3>2 DEF Types, TypeOK
  <2>2. FreshData
    BY DEF FreshData, Data, TakesOK, Takes, Left, Control, BlockOK, ThrewOK
  <2>3. CopyAlone
    <3>1. ASSUME NEW b \in Blocks, NEW c \in Blocks, pc[b] = "copy", c # b
          PROVE  Now(c) = Now(b) /\ staged[c] = Now(b) /\ pc[c] \in Waits
      BY <3>1, CopyingAlone
    <3> QED
      BY <3>1 DEF CopyAlone, Waits
  <2>4. SameOutcome
    <3> SUFFICES ASSUME NEW c \in threw, NEW b \in Blocks, Beyond(b, step[c])
                 PROVE  FALSE
      BY DEF SameOutcome
    <3>1. c \in Blocks /\ step[c] \in 1..Steps /\ step[b] \in 1..Steps /\ Steps \in Nat
      BY ExchangeAssumption DEF Types
    <3>2. Met(b) = Met(c)
      BY <3>1 DEF Control, Together
    <3>3. CASE Left(c)
      <4>1. Left(b) /\ b \in threw
        BY <3>1, <3>3 DEF Control, AllThrow
      <4>2. pc[b] # "finalize"
        BY <4>1 DEF Control, BlockOK, ThrewOK
      <4> QED
        BY <3>1, <3>2, <3>3, <4>1, <4>2 DEF Beyond, Met
    <3>4. CASE ~Left(c)
      <4>1. c \in early \/ pc[c] \in {"test-gone", "asleep-gone"}
        BY <3>1, <3>4 DEF Left, Control, BlockOK, ThrewOK, Types, Places, Before, Waits
      <4>2. CASE Left(b)
        <5>1. step[c] = step[b] + 1
          BY <3>1, <3>2, <3>4, <4>2 DEF Met
        <5>2. pc[b] = "done" /\ b \notin threw
          BY <3>1, <5>1 DEF Beyond
        <5>3. step[b] = Steps
          BY <5>2 DEF Control, BlockOK, ThrewOK
        <5> QED
          BY <3>1, <5>1, <5>3
      <4>3. CASE ~Left(b)
        <5>1. step[c] = step[b]
          BY <3>1, <3>2, <3>4, <4>3 DEF Met
        <5>2. b \in early => b \in threw
          BY DEF Types
        <5> QED
          BY <3>1, <4>3, <5>1, <5>2 DEF Beyond, Left
      <4> QED
        BY <4>2, <4>3
    <3> QED
      BY <3>3, <3>4
  <2>5. CleanBetweenJobs
    BY Quiet DEF CleanBetweenJobs, Control, KeyOK
  <2> QED
    BY <2>1, <2>2, <2>3, <2>4, <2>5 DEF MeetingKept
<1> QED
  BY <1>1, Invariance, PTL

\* The exchanges with one key are meetings that all the blocks of the process
\* attend: none leaves before all have come, and none comes twice.
THEOREM EveryKeyIsAMeetingPlace == Spec => ImplementsRendezvous
<1>1. ASSUME Init PROVE \A k \in Keys : Meeting(k)!Init
  BY <1>1 DEF Init, AtMeeting, CalledOff, Meeting!Init
<1>2. IInv /\ [Next]_vars =>
        [\A k \in Keys : Meeting(k)!Next \/ UNCHANGED Meeting(k)!vars]_vars
  BY NextStep DEF GoesOn
<1> QED
  BY <1>1, <1>2, Invariance, PTL DEF Spec, ImplementsRendezvous
=============================================================================
