------------------------ MODULE OutputSchedule_proofs ------------------------
(***************************************************************************)
(* Proofs about OutputSchedule for any set of output lists, any steps and  *)
(* any number of legs.                                                     *)
(*                                                                         *)
(* NextTimeInReach is inductive once the schedules have their types, in    *)
(* memory and on disk: a restart file may hold any schedule at all, for    *)
(* the clamp of _init_from_restart brings it within reach.                 *)
(*                                                                         *)
(* FilesOnTheGrid needs to know what a schedule means while the list is    *)
(* not edited (OnSchedule): next_time is file_number periods, it is less   *)
(* than a step behind, and ahead once the loop has passed the output.  A   *)
(* restart file saves schedules of both kinds, those already ahead and     *)
(* those still due; what it saves is OnSchedule for a loop that starts     *)
(* over.                                                                   *)
(*                                                                         *)
(* MatchIsTheLoop holds of any two lists, by induction over the turns of   *)
(* the loops; that the sets of Match are what the loop over the keys finds *)
(* rests on counting the places of a set (PlaceTaken, EveryPlace).         *)
(*                                                                         *)
(* StatsTile and OlderFilesKept rest on what a leg knows of the files it   *)
(* has written (LegInv): their numbers are those its outputs have left     *)
(* behind.  The first adds what an output has gathered since its last      *)
(* frame (Gathering), the second that every restart file saves numbers     *)
(* beyond those of the older files of its leg (BeforeFile), and that a     *)
(* resumed leg goes on from the numbers of its file (Onward).              *)
(***************************************************************************)
EXTENDS OutputSchedule, FiniteSetTheorems, WellFoundedInduction, TLAPS

ListOK(list) == /\ list \in Seq(OutputOptions)
                /\ \A m, n \in RestartPlace(list) : m = n

\* A list with the two members that the restart file saves.
Scheduled(list, next, number) ==
  /\ ListOK(list)
  /\ next \in [DOMAIN list -> Int]
  /\ number \in [DOMAIN list -> Nat]

Types == /\ phase \in {"make", "step", "final", "done", "down"}
         /\ time \in Nat
         /\ at \in Nat
         /\ edited \in BOOLEAN
         /\ Scheduled(outputs, next_time, file_number)
         /\ \A r \in restarts : /\ r.time \in Nat
                                /\ Scheduled(r.outputs, r.next_time, r.file_number)

ReachInv == Types /\ NextTimeInReach

LEMMA OptionOfList ==
  ASSUME NEW list, ListOK(list), NEW n \in DOMAIN list
  PROVE  list[n] \in OutputOptions /\ list[n].dt \in Nat
<1>1. list[n] \in OutputOptions
  <2>1. list \in Seq(OutputOptions)
    BY DEF ListOK
  <2> QED BY <2>1
<1> QED BY <1>1 DEF OutputOptions

\* What an output claims is a slot of the file, or nothing.
LEMMA MatchIsASlot ==
  ASSUME NEW r, NEW list, NEW n \in DOMAIN list
  PROVE  Match(r, list, n) \in Slots(r) \/ Match(r, list, n) = 0
<1>1. CASE n \in Own(r, list)
  BY <1>1 DEF Match, Own
<1>2. CASE n \notin Own(r, list) /\ ByKey(r, list, n) # {}
  <2>1. PICK s \in ByKey(r, list, n) : Match(r, list, n) = s
    BY <1>2 DEF Match
  <2> QED BY <2>1 DEF ByKey, SlotsFor
<1>3. CASE n \notin Own(r, list) /\ ByKey(r, list, n) = {}
  BY <1>3 DEF Match
<1> QED BY <1>1, <1>2, <1>3

\* The schedule that a leg takes over has its type.
LEMMA RestoredTypes ==
  ASSUME NEW r, NEW list, ListOK(list), r.time \in Nat,
         Scheduled(r.outputs, r.next_time, r.file_number)
  PROVE  Scheduled(list, [n \in DOMAIN list |-> RestoredTime(r, list, n)],
                   [n \in DOMAIN list |-> RestoredNumber(r, list, n)])
<1>1. ASSUME NEW n \in DOMAIN list PROVE list[n].dt \in Nat
  BY OptionOfList
<1>2. ASSUME NEW n \in DOMAIN list PROVE OnGrid(r, list, n) \in Int
  BY <1>1 DEF OnGrid
<1>3. ASSUME NEW n \in DOMAIN list PROVE RestoredTime(r, list, n) \in Int
  <2>1. Match(r, list, n) > 0 => Match(r, list, n) \in Slots(r)
    BY MatchIsASlot
  <2> QED BY <1>1, <1>2, <2>1 DEF RestoredTime, Slots, Scheduled
<1>4. ASSUME NEW n \in DOMAIN list PROVE RestoredNumber(r, list, n) \in Nat
  BY DEF RestoredNumber, Slots, Scheduled
<1> QED BY <1>3, <1>4 DEF Scheduled

\* It is within reach, whatever the file holds.
LEMMA RestoredInReach ==
  ASSUME NEW r, NEW list, ListOK(list), r.time \in Nat,
         Scheduled(r.outputs, r.next_time, r.file_number),
         NEW n \in DOMAIN list, list[n].dt > 0
  PROVE  RestoredTime(r, list, n) <= r.time + list[n].dt
<1>1. list[n].dt \in Nat
  BY OptionOfList
<1>2. OnGrid(r, list, n) <= r.time
  BY <1>1 DEF OnGrid
<1>3. OnGrid(r, list, n) \in Int
  BY <1>1 DEF OnGrid
<1>4. Match(r, list, n) > 0 => r.next_time[Match(r, list, n)] \in Int
  BY MatchIsASlot DEF Slots, Scheduled
<1> QED BY <1>1, <1>2, <1>3, <1>4 DEF RestoredTime

LEMMA InitTypes == Init => Types
<1> SUFFICES ASSUME Init PROVE Types
  OBVIOUS
<1>1. ListOK(outputs)
  BY OutputAssumption DEF Init, ListOK
<1>2. Scheduled(outputs, next_time, file_number)
  BY <1>1 DEF Init, Scheduled
<1>3. \A r \in restarts : r.time \in Nat
                          /\ Scheduled(r.outputs, r.next_time, r.file_number)
  BY DEF Init
<1>4. /\ phase \in {"make", "step", "final", "done", "down"}
      /\ time \in Nat /\ at \in Nat /\ edited \in BOOLEAN
  BY DEF Init
<1> QED BY <1>2, <1>3, <1>4 DEF Types

\* Every step keeps the types: the schedule of one output at a time moves on, or
\* all of it is saved, lost or taken over.
LEMMA NextTypes == Types /\ [Next]_vars => Types'
<1> SUFFICES ASSUME Types, [Next]_vars PROVE Types'
  OBVIOUS
<1> USE DEF Types
<1>1. ASSUME NEW n \in DOMAIN outputs, MakeOutput(n) PROVE Types'
  <2>1. outputs[n].dt \in Nat
    BY OptionOfList DEF Scheduled
  <2>2. Scheduled(outputs, next_time, file_number)'
    BY <1>1, <2>1 DEF MakeOutput, Scheduled, ListOK
  <2>3. at' \in Nat /\ phase' \in {"make", "step"}
    BY <1>1 DEF MakeOutput, NextOutput
  <2>4. \A r \in restarts' : r.time \in Nat /\ Scheduled(r.outputs, r.next_time, r.file_number)
    BY <1>1 DEF MakeOutput, WriteOutput, WriteRestart, WriteFrame
  <2> QED BY <1>1, <2>2, <2>3, <2>4 DEF MakeOutput, history
<1>2. ASSUME NEW n \in DOMAIN outputs, SkipOutput(n) PROVE Types'
  BY <1>2 DEF SkipOutput, NextOutput, disk, history, Scheduled
<1>3. ASSUME NEW n \in DOMAIN outputs, FinalOutput(n) PROVE Types'
  <2>1. \A r \in restarts' : r.time \in Nat /\ Scheduled(r.outputs, r.next_time, r.file_number)
    BY <1>3 DEF FinalOutput, WriteRestart, disk
  <2>2. at' \in Nat /\ phase' \in {"final", "done"}
    BY <1>3 DEF FinalOutput, NextOutput
  <2> QED BY <1>3, <2>1, <2>2 DEF FinalOutput, history, Scheduled
<1>4. CASE Step
  BY <1>4, OutputAssumption DEF Step, schedule, disk, history, Positive, Scheduled
<1>5. CASE Finalize
  BY <1>5 DEF Finalize, schedule, disk, history, Scheduled
<1>6. CASE End
  BY <1>6 DEF End, disk, Scheduled, ListOK, RestartPlace
<1>7. ASSUME NEW r \in restarts, NEW list \in Lists, Resume(r, list) PROVE Types'
  <2>1. ListOK(list)
    BY OutputAssumption DEF ListOK
  <2> QED BY <1>7, <2>1, RestoredTypes DEF Resume, disk
<1>8. CASE UNCHANGED vars
  BY <1>8 DEF vars, schedule, disk, history, Scheduled
<1> QED BY <1>1, <1>2, <1>3, <1>4, <1>5, <1>6, <1>7, <1>8 DEF Next

LEMMA ReachStep == ReachInv /\ [Next]_vars => NextTimeInReach'
<1> SUFFICES ASSUME ReachInv, [Next]_vars PROVE NextTimeInReach'
  OBVIOUS
<1>0. /\ time \in Nat /\ ListOK(outputs)
      /\ next_time \in [DOMAIN outputs -> Int]
      /\ \A n \in DOMAIN outputs : outputs[n].dt \in Nat
  BY OptionOfList DEF ReachInv, Types, Scheduled
<1>a. \A n \in DOMAIN outputs :
        outputs[n].dt > 0 => next_time[n] <= time + outputs[n].dt
  BY DEF ReachInv, NextTimeInReach
<1>1. ASSUME NEW n \in DOMAIN outputs, MakeOutput(n) PROVE NextTimeInReach'
  BY <1>0, <1>a, <1>1 DEF MakeOutput, Due, NextTimeInReach
<1>2. ASSUME NEW n \in DOMAIN outputs, SkipOutput(n) PROVE NextTimeInReach'
  BY <1>0, <1>a, <1>2 DEF SkipOutput, NextTimeInReach
<1>3. ASSUME NEW n \in DOMAIN outputs, FinalOutput(n) PROVE NextTimeInReach'
  BY <1>0, <1>a, <1>3 DEF FinalOutput, NextTimeInReach
<1>4. CASE Step
  <2>1. time' \in Nat /\ time' >= time
    BY <1>0, <1>4, OutputAssumption DEF Step, Positive
  <2> QED BY <1>0, <1>a, <1>4, <2>1 DEF Step, schedule, NextTimeInReach
<1>5. CASE Finalize
  BY <1>0, <1>a, <1>5 DEF Finalize, schedule, NextTimeInReach
<1>6. CASE End
  BY <1>6 DEF End, NextTimeInReach
<1>7. ASSUME NEW r \in restarts, NEW list \in Lists, Resume(r, list)
      PROVE  NextTimeInReach'
  <2>1. ListOK(list)
    BY OutputAssumption DEF ListOK
  <2> QED BY <1>7, <2>1, RestoredInReach
          DEF Resume, NextTimeInReach, ReachInv, Types
<1>8. CASE UNCHANGED vars
  BY <1>0, <1>a, <1>8 DEF vars, schedule, NextTimeInReach
<1> QED BY <1>1, <1>2, <1>3, <1>4, <1>5, <1>6, <1>7, <1>8 DEF Next

\* No output falls silent: whatever list a leg is resumed with, an output with a
\* period is due within one period of the present.
THEOREM OutputsStayInReach == Spec => []NextTimeInReach
<1>1. Init => ReachInv
  <2>1. Init => NextTimeInReach
    BY OutputAssumption, InitTypes, OptionOfList
    DEF Init, NextTimeInReach, Types, Scheduled
  <2> QED BY <2>1, InitTypes DEF ReachInv
<1>2. ReachInv /\ [Next]_vars => ReachInv'
  BY NextTypes, ReachStep DEF ReachInv
<1>3. ReachInv => NextTimeInReach
  BY DEF ReachInv
<1> QED BY <1>1, <1>2, <1>3, PTL DEF Spec

-----------------------------------------------------------------------------
\* The loop of this make_outputs has passed output n, or there is none running.
Passed(n) == phase \in {"step", "final", "done"} \/ (phase = "make" /\ n < at)

\* What next and number are to an output of period dt at time t.
OnSchedule(next, number, t, dt) ==
  dt >= MaxStep => /\ next = number * dt
                   /\ t < next + MaxStep
                   /\ next <= t + dt

MemoryOnSchedule ==
  \A n \in DOMAIN outputs :
     /\ OnSchedule(next_time[n], file_number[n], time, outputs[n].dt)
     /\ outputs[n].dt >= MaxStep /\ Passed(n) => time < next_time[n]

DiskOnSchedule ==
  \A r \in restarts : \A n \in DOMAIN r.outputs :
     OnSchedule(r.next_time[n], r.file_number[n], r.time, r.outputs[n].dt)

Unedited == MemoryOnSchedule /\ DiskOnSchedule

GridInv == Types /\ FilesOnTheGrid /\ (~edited => Unedited)

LEMMA NextPeriod ==
  ASSUME NEW k \in Nat, NEW d \in Nat PROVE (k + 1) * d = k * d + d
OBVIOUS

\* With the list it was saved with, every output gets its own slot back.
LEMMA UneditedMatch ==
  ASSUME NEW r, NEW n \in DOMAIN r.outputs
  PROVE  Match(r, r.outputs, n) = n
<1>1. CASE r.keys # "none"
  <2>1. n \in Own(r, r.outputs)
    BY <1>1 DEF Own, Slots, SameKey
  <2> QED BY <2>1 DEF Match
<1>2. CASE r.keys = "none"
  <2>1. Own(r, r.outputs) = {}
    BY <1>2 DEF Own, SameKey
  <2>2. \A m : ByKey(r, r.outputs, m) = {}
    BY <1>2 DEF ByKey, SlotsFor, SameKey
  <2>3. Claimed(r, r.outputs) = {}
    BY <2>1, <2>2 DEF Claimed
  <2> QED BY <2>1, <2>2, <2>3 DEF Match, Slots
<1> QED BY <1>1, <1>2

\* What is saved is what is restored.
LEMMA UneditedSchedule ==
  ASSUME NEW r, r.time \in Nat,
         Scheduled(r.outputs, r.next_time, r.file_number),
         NEW n \in DOMAIN r.outputs, r.outputs[n].dt >= MaxStep,
         OnSchedule(r.next_time[n], r.file_number[n], r.time, r.outputs[n].dt)
  PROVE  /\ RestoredTime(r, r.outputs, n) = r.next_time[n]
         /\ RestoredNumber(r, r.outputs, n) = r.file_number[n]
<1>1. Match(r, r.outputs, n) = n
  BY UneditedMatch
<1>2. /\ r.outputs[n].dt \in Nat /\ r.next_time[n] \in Int
      /\ r.next_time[n] <= r.time + r.outputs[n].dt
  BY OptionOfList DEF Scheduled, OnSchedule
<1>3. n > 0
  BY DEF Scheduled, ListOK
<1> QED BY <1>1, <1>2, <1>3 DEF RestoredTime, RestoredNumber, Slots

\* What the loop finds when it turns to output n: the types and the schedule of
\* the run, and, if the output is due, the name and time of its next file.
LEMMA OutputFacts ==
  ASSUME GridInv, NEW n \in DOMAIN outputs
  PROVE  /\ outputs[n].dt \in Nat /\ next_time[n] \in Int /\ time \in Nat
         /\ file_number[n] \in Nat /\ n \in Nat
         /\ MaxStep \in Nat /\ MaxStep > 0
         /\ ~edited /\ Due(n) => FirstAfter(file_number[n], outputs[n], time)
<1>1. /\ outputs[n].dt \in Nat /\ next_time[n] \in Int /\ time \in Nat
      /\ file_number[n] \in Nat /\ n \in Nat
      /\ MaxStep \in Nat /\ MaxStep > 0
  BY OptionOfList, OutputAssumption
  DEF GridInv, Types, Scheduled, ListOK, Positive
<1>2. ~edited => OnSchedule(next_time[n], file_number[n], time, outputs[n].dt)
  BY DEF GridInv, Unedited, MemoryOnSchedule
<1> QED BY <1>1, <1>2 DEF Due, FirstAfter, OnSchedule

\* The files: a frame or a restart file is written when its output is due.
LEMMA FilesStep == GridInv /\ [Next]_vars => FilesOnTheGrid'
<1> SUFFICES ASSUME GridInv, [Next]_vars, ~edited' PROVE FilesOnTheGrid'
  BY DEF FilesOnTheGrid
<1>0. ~edited
  BY DEF Next, MakeOutput, SkipOutput, FinalOutput, Step, Finalize, End, Resume,
         vars, history, GridInv, Types
<1>a. /\ \A f \in frames : FirstAfter(f.number, f.output, f.time)
      /\ \A r \in restarts : \A n \in RestartPlace(r.outputs) :
           r.name >= 0 => FirstAfter(r.name, r.outputs[n], r.time)
  BY <1>0 DEF GridInv, FilesOnTheGrid
<1>b. UNCHANGED disk => FilesOnTheGrid'
  BY <1>a DEF disk, FilesOnTheGrid
<1>1. ASSUME NEW n \in DOMAIN outputs, MakeOutput(n) PROVE FilesOnTheGrid'
  <2>1. FirstAfter(file_number[n], outputs[n], time)
    BY <1>0, <1>1, OutputFacts DEF MakeOutput
  <2>2. CASE outputs[n].type = "restart"
    <3>1. \A m \in RestartPlace(outputs) : m = n
      BY <2>2 DEF RestartPlace, GridInv, Types, Scheduled, ListOK
    <3> QED BY <1>a, <1>1, <2>1, <2>2, <3>1
            DEF MakeOutput, WriteOutput, WriteRestart, FilesOnTheGrid
  <2>3. CASE outputs[n].type # "restart"
    BY <1>a, <1>1, <2>1, <2>3
    DEF MakeOutput, WriteOutput, WriteFrame, FilesOnTheGrid
  <2> QED BY <2>2, <2>3
<1>2. ASSUME NEW n \in DOMAIN outputs, SkipOutput(n) PROVE FilesOnTheGrid'
  BY <1>b, <1>2 DEF SkipOutput
<1>3. ASSUME NEW n \in DOMAIN outputs, FinalOutput(n) PROVE FilesOnTheGrid'
  <2>1. CASE outputs[n].type = "restart"
    BY <1>a, <1>3, <2>1 DEF FinalOutput, WriteRestart, FilesOnTheGrid
  <2> QED BY <1>b, <1>3, <2>1 DEF FinalOutput
<1>4. ASSUME Step \/ Finalize \/ End \/ UNCHANGED vars PROVE FilesOnTheGrid'
  BY <1>b, <1>4 DEF Step, Finalize, End, vars
<1>5. ASSUME NEW r \in restarts, NEW list \in Lists, Resume(r, list)
      PROVE  FilesOnTheGrid'
  BY <1>b, <1>5 DEF Resume
<1> QED BY <1>1, <1>2, <1>3, <1>4, <1>5 DEF Next

\* The restart files: the loop saves schedules that it has and has not passed.
LEMMA DiskStep == GridInv /\ ~edited /\ [Next]_vars => DiskOnSchedule'
<1> SUFFICES ASSUME GridInv, ~edited, [Next]_vars PROVE DiskOnSchedule'
  OBVIOUS
<1>a. DiskOnSchedule /\ MemoryOnSchedule
  BY DEF GridInv, Unedited
<1>b. UNCHANGED restarts => DiskOnSchedule'
  BY <1>a DEF DiskOnSchedule
<1>c. ASSUME NEW name, WriteRestart(name) PROVE DiskOnSchedule'
  BY <1>a, <1>c DEF WriteRestart, DiskOnSchedule, MemoryOnSchedule
<1>1. ASSUME NEW n \in DOMAIN outputs, MakeOutput(n) PROVE DiskOnSchedule'
  BY <1>b, <1>c, <1>1 DEF MakeOutput, WriteOutput, WriteFrame
<1>2. ASSUME NEW n \in DOMAIN outputs, SkipOutput(n) PROVE DiskOnSchedule'
  BY <1>b, <1>2 DEF SkipOutput, disk
<1>3. ASSUME NEW n \in DOMAIN outputs, FinalOutput(n) PROVE DiskOnSchedule'
  BY <1>b, <1>c, <1>3 DEF FinalOutput, disk
<1>4. ASSUME Step \/ Finalize \/ End \/ UNCHANGED vars PROVE DiskOnSchedule'
  BY <1>b, <1>4 DEF Step, Finalize, End, vars, disk
<1>5. ASSUME NEW r \in restarts, NEW list \in Lists, Resume(r, list)
      PROVE  DiskOnSchedule'
  BY <1>b, <1>5 DEF Resume, disk
<1> QED BY <1>1, <1>2, <1>3, <1>4, <1>5 DEF Next

\* The schedules in memory.
LEMMA MemoryStep ==
  GridInv /\ ~edited /\ ~edited' /\ [Next]_vars => MemoryOnSchedule'
<1> SUFFICES ASSUME GridInv, ~edited, ~edited', [Next]_vars
             PROVE  MemoryOnSchedule'
  OBVIOUS
<1>a. MemoryOnSchedule
  BY DEF GridInv, Unedited
<1>b. \A n \in DOMAIN outputs :
        /\ outputs[n].dt \in Nat /\ next_time[n] \in Int /\ time \in Nat
        /\ file_number[n] \in Nat /\ n \in Nat
        /\ MaxStep \in Nat /\ MaxStep > 0
  BY OutputFacts
<1>c. /\ next_time \in [DOMAIN outputs -> Int]
      /\ file_number \in [DOMAIN outputs -> Nat]
      /\ DOMAIN outputs = 1..Len(outputs) /\ Len(outputs) \in Nat
  BY DEF GridInv, Types, Scheduled, ListOK
<1>1. ASSUME NEW n \in DOMAIN outputs, MakeOutput(n) PROVE MemoryOnSchedule'
  <2> SUFFICES ASSUME NEW m \in DOMAIN outputs, outputs[m].dt >= MaxStep
               PROVE  /\ OnSchedule(next_time'[m], file_number'[m], time, outputs[m].dt)
                      /\ Passed(m)' => time < next_time'[m]
    BY <1>1 DEF MakeOutput, MemoryOnSchedule, OnSchedule
  <2>1. CASE m = n
    <3>1. /\ next_time'[m] = next_time[m] + outputs[m].dt
          /\ file_number'[m] = file_number[m] + 1
          /\ time >= next_time[m]
      BY <1>1, <1>c, <2>1 DEF MakeOutput, Due
    <3>2. /\ next_time[m] = file_number[m] * outputs[m].dt
          /\ time < next_time[m] + MaxStep
      BY <1>a DEF MemoryOnSchedule, OnSchedule
    <3>3. (file_number[m] + 1) * outputs[m].dt
            = file_number[m] * outputs[m].dt + outputs[m].dt
      BY <1>b, NextPeriod
    <3> QED BY <1>b, <3>1, <3>2, <3>3 DEF OnSchedule
  <2>2. CASE m # n
    <3>1. next_time'[m] = next_time[m] /\ file_number'[m] = file_number[m]
      BY <1>1, <1>c, <2>2 DEF MakeOutput
    <3>2. Passed(m)' => Passed(m)
      BY <1>1, <1>b, <1>c, <2>2 DEF Passed, MakeOutput, NextOutput
    <3> QED BY <1>a, <3>1, <3>2 DEF MemoryOnSchedule
  <2> QED BY <2>1, <2>2
<1>2. ASSUME NEW n \in DOMAIN outputs, SkipOutput(n) PROVE MemoryOnSchedule'
  <2>1. time < next_time[n]
    BY <1>2, <1>b DEF SkipOutput, Due
  <2>2. \A m \in DOMAIN outputs : Passed(m)' => Passed(m) \/ m = n
    BY <1>2, <1>b, <1>c DEF Passed, SkipOutput, NextOutput
  <2> QED BY <1>a, <1>2, <2>1, <2>2 DEF SkipOutput, MemoryOnSchedule
<1>3. ASSUME NEW n \in DOMAIN outputs, FinalOutput(n) PROVE MemoryOnSchedule'
  <2>1. \A m \in DOMAIN outputs : Passed(m)' => Passed(m)
    BY <1>3 DEF Passed, FinalOutput, NextOutput
  <2> QED BY <1>a, <1>3, <2>1 DEF FinalOutput, MemoryOnSchedule
<1>4. CASE Step
  <2> SUFFICES ASSUME NEW m \in DOMAIN outputs, outputs[m].dt >= MaxStep
               PROVE  /\ OnSchedule(next_time[m], file_number[m], time', outputs[m].dt)
                      /\ ~Passed(m)'
    BY <1>4 DEF Step, schedule, MemoryOnSchedule, OnSchedule
  <2>1. /\ time < next_time[m] /\ next_time[m] <= time + outputs[m].dt
        /\ next_time[m] = file_number[m] * outputs[m].dt
    BY <1>a, <1>4 DEF MemoryOnSchedule, OnSchedule, Passed, Step
  <2>2. time' \in Nat /\ time <= time' /\ time' <= time + MaxStep
    BY <1>4, <1>b DEF Step
  <2>3. ~Passed(m)'
    BY <1>4, <1>c DEF Step, Passed
  <2> QED BY <1>b, <2>1, <2>2, <2>3 DEF OnSchedule
<1>5. CASE Finalize
  BY <1>a, <1>5 DEF Finalize, schedule, MemoryOnSchedule, Passed
<1>6. CASE End
  BY <1>6 DEF End, MemoryOnSchedule
<1>7. ASSUME NEW r \in restarts, NEW list \in Lists, Resume(r, list)
      PROVE  MemoryOnSchedule'
  <2>1. list = r.outputs
    BY <1>7 DEF Resume
  <2>2. /\ r.time \in Nat
        /\ Scheduled(r.outputs, r.next_time, r.file_number)
        /\ \A n \in DOMAIN list :
             OnSchedule(r.next_time[n], r.file_number[n], r.time, list[n].dt)
    BY <2>1 DEF GridInv, Unedited, DiskOnSchedule, Types
  <2> SUFFICES ASSUME NEW n \in DOMAIN list, list[n].dt >= MaxStep
               PROVE  /\ OnSchedule(next_time'[n], file_number'[n], time', list[n].dt)
                      /\ ~Passed(n)'
    BY <1>7 DEF Resume, MemoryOnSchedule, OnSchedule
  <2>3. next_time'[n] = r.next_time[n] /\ file_number'[n] = r.file_number[n]
    BY <1>7, <2>1, <2>2, UneditedSchedule DEF Resume
  <2>4. ~Passed(n)'
    BY <1>7, <2>1, <2>2 DEF Resume, Passed, Scheduled, ListOK
  <2> QED BY <1>7, <2>2, <2>3, <2>4 DEF Resume
<1>8. CASE UNCHANGED vars
  BY <1>a, <1>8 DEF vars, schedule, MemoryOnSchedule, Passed
<1> QED BY <1>1, <1>2, <1>3, <1>4, <1>5, <1>6, <1>7, <1>8 DEF Next

\* Crashes and resumes leave no trace: as long as the list is not edited, file
\* number k of an output holds the first moment at or after k periods, whatever
\* legs wrote it.
THEOREM FilesStayOnTheGrid == Spec => []FilesOnTheGrid
<1>1. Init => GridInv
  <2> SUFFICES ASSUME Init PROVE GridInv
    OBVIOUS
  <2>1. Types
    BY InitTypes
  <2>2. FilesOnTheGrid /\ DiskOnSchedule
    BY DEF Init, FilesOnTheGrid, DiskOnSchedule
  <2>3. \A n \in DOMAIN outputs : outputs[n].dt \in Nat /\ n \in Nat /\ n >= 1
    BY <2>1, OptionOfList DEF Types, Scheduled, ListOK
  <2>4. MemoryOnSchedule
    BY <2>3, OutputAssumption
    DEF Init, MemoryOnSchedule, OnSchedule, Passed, Positive
  <2> QED BY <2>1, <2>2, <2>4 DEF GridInv, Unedited
<1>2. GridInv /\ [Next]_vars => GridInv'
  <2> SUFFICES ASSUME GridInv, [Next]_vars PROVE GridInv'
    OBVIOUS
  <2>1. ~edited' => ~edited
    BY DEF Next, MakeOutput, SkipOutput, FinalOutput, Step, Finalize, End,
           Resume, vars, history, GridInv, Types
  <2> QED BY <2>1, NextTypes, FilesStep, DiskStep, MemoryStep DEF GridInv, Unedited
<1>3. GridInv => FilesOnTheGrid
  BY DEF GridInv
<1> QED BY <1>1, <1>2, <1>3, PTL DEF Spec

-----------------------------------------------------------------------------
\* Of two outputs with one key that are both left without their own slot, the
\* second has more ahead of it, so they do not claim the same slot.
LEMMA AheadGrows ==
  ASSUME NEW r, NEW list, DOMAIN list \subseteq Nat, IsFiniteSet(DOMAIN list),
         NEW n \in DOMAIN list, NEW m \in Ahead(r, list, n)
  PROVE  Cardinality(Ahead(r, list, m)) < Cardinality(Ahead(r, list, n))
<1>1. Ahead(r, list, m) \cup {m} \subseteq Ahead(r, list, n)
  BY DEF Ahead
<1>2. IsFiniteSet(Ahead(r, list, n)) /\ m \notin Ahead(r, list, m)
  BY FS_Subset DEF Ahead
<1>3. IsFiniteSet(Ahead(r, list, m))
  BY <1>1, <1>2, FS_Subset
<1>4. Cardinality(Ahead(r, list, m) \cup {m})
        = Cardinality(Ahead(r, list, m)) + 1
  BY <1>2, <1>3, FS_AddElement
<1>5. Cardinality(Ahead(r, list, m) \cup {m}) <= Cardinality(Ahead(r, list, n))
  BY <1>1, <1>2, FS_Subset
<1>6. /\ Cardinality(Ahead(r, list, m)) \in Nat
      /\ Cardinality(Ahead(r, list, n)) \in Nat
  BY <1>2, <1>3, FS_CardinalityType
<1> QED BY <1>4, <1>5, <1>6

LEMMA KeysClaimOnce ==
  ASSUME NEW r, NEW list, DOMAIN list \subseteq Nat, IsFiniteSet(DOMAIN list),
         NEW m \in DOMAIN list \ Own(r, list), NEW n \in DOMAIN list \ Own(r, list),
         m < n, NEW s, s \in ByKey(r, list, m), s \in ByKey(r, list, n)
  PROVE  FALSE
<1>1. /\ SameKey(r, list[m], s) /\ SameKey(r, list[n], s)
  BY DEF ByKey, SlotsFor
<1>2. Key(r.keys, list[m]) = Key(r.keys, list[n])
  BY <1>1 DEF SameKey
<1>3. SlotsFor(r, list, m) = SlotsFor(r, list, n)
  BY <1>2 DEF SlotsFor, SameKey
<1>4. Cardinality(Ahead(r, list, m)) = Cardinality(Ahead(r, list, n))
  BY <1>3 DEF ByKey
<1>5. m \in Ahead(r, list, n)
  BY <1>2 DEF Ahead
<1>6. IsFiniteSet(Ahead(r, list, n))
  BY FS_Subset DEF Ahead
<1>7. Cardinality(Ahead(r, list, n)) \in Nat
  BY <1>6, FS_CardinalityType
<1>8. Cardinality(Ahead(r, list, m)) < Cardinality(Ahead(r, list, n))
  BY <1>5, AheadGrows
<1> QED BY <1>4, <1>7, <1>8

\* What Match returns, by the loop that found it.
LEMMA MatchCases ==
  ASSUME NEW r, NEW list, NEW n \in DOMAIN list
  PROVE  \/ n \in Own(r, list) /\ Match(r, list, n) = n
         \/ n \notin Own(r, list) /\ Match(r, list, n) \in ByKey(r, list, n)
         \/ /\ n \notin Own(r, list) /\ Match(r, list, n) = n
            /\ n \notin Claimed(r, list)
         \/ Match(r, list, n) = 0
<1>1. CASE n \notin Own(r, list) /\ ByKey(r, list, n) # {}
  <2>1. PICK s \in ByKey(r, list, n) : Match(r, list, n) = s
    BY <1>1 DEF Match
  <2> QED BY <1>1, <2>1
<1>2. CASE n \in Own(r, list) \/ ByKey(r, list, n) = {}
  BY <1>2 DEF Match
<1> QED BY <1>1, <1>2

LEMMA MatchOnce ==
  ASSUME NEW r, NEW list, DOMAIN list \subseteq Nat, IsFiniteSet(DOMAIN list),
         NEW m \in DOMAIN list, NEW n \in DOMAIN list, m # n,
         Match(r, list, m) = Match(r, list, n), Match(r, list, m) > 0
  PROVE  FALSE
<1> DEFINE s == Match(r, list, m)
<1>0. s # 0 /\ s = Match(r, list, n)
  OBVIOUS
<1>1. CASE m \in Own(r, list) /\ s = m
  <2>1. m \in Claimed(r, list) /\ m \notin ByKey(r, list, n)
    BY <1>1 DEF Claimed, ByKey, SlotsFor
  <2>2. Match(r, list, n) = n \/ Match(r, list, n) \in ByKey(r, list, n)
    BY <1>0, MatchCases
  <2> QED BY <1>0, <1>1, <2>1, <2>2
<1>2. CASE n \in Own(r, list) /\ s = n
  <2>1. n \in Claimed(r, list) /\ n \notin ByKey(r, list, m)
    BY <1>2 DEF Claimed, ByKey, SlotsFor
  <2>2. s = m \/ s \in ByKey(r, list, m)
    BY <1>0, MatchCases
  <2> QED BY <1>0, <1>2, <2>1, <2>2
<1>3. CASE /\ m \notin Own(r, list) /\ s \in ByKey(r, list, m)
           /\ n \notin Own(r, list) /\ s \in ByKey(r, list, n)
  BY <1>3, KeysClaimOnce
<1>4. CASE m \notin Own(r, list) /\ s \in ByKey(r, list, m) /\ s = n
  <2>1. n \in Claimed(r, list)
    BY <1>4 DEF Claimed
  <2>2. n \in Own(r, list) \/ s \in ByKey(r, list, n)
    BY <1>0, <2>1, MatchCases
  <2> QED BY <1>2, <1>3, <1>4, <2>2
<1>5. CASE n \notin Own(r, list) /\ s \in ByKey(r, list, n) /\ s = m
  <2>1. m \in Claimed(r, list)
    BY <1>5 DEF Claimed
  <2>2. m \in Own(r, list) \/ s \in ByKey(r, list, m)
    BY <1>0, <2>1, MatchCases
  <2> QED BY <1>1, <1>3, <1>5, <2>2
<1> QED BY <1>1, <1>2, <1>3, <1>4, <1>5, MatchCases

\* No two outputs take over one schedule, for any list saved and any list resumed
\* with.
THEOREM NoSlotClaimedTwice == Spec => []SlotsClaimedOnce
<1>1. Types => SlotsClaimedOnce
  <2> SUFFICES ASSUME Types PROVE SlotsClaimedOnce
    OBVIOUS
  <2>1. DOMAIN outputs = 1..Len(outputs) /\ Len(outputs) \in Nat
    BY DEF Types, Scheduled, ListOK
  <2>2. DOMAIN outputs \subseteq Nat /\ IsFiniteSet(DOMAIN outputs)
    BY <2>1, FS_Interval
  <2>3. \A n \in DOMAIN outputs \cap Slots(origin) :
          SameKey(origin, outputs[n], n) => Match(origin, outputs, n) = n
    BY DEF Match, Own
  <2> QED BY <2>2, <2>3, MatchOnce DEF SlotsClaimedOnce
<1> QED BY <1>1, InitTypes, NextTypes, PTL DEF Spec

-----------------------------------------------------------------------------
(* The loops of _init_from_restart.  OwnAfter, KeyAfter and PositionAfter  *)
(* say where each has come after k turns, in terms of the sets that Match  *)
(* is made of.  They satisfy the equations that define the loops, so these *)
(* have a solution, and any solution is them turn by turn: at the least    *)
(* turn that differs it would have to differ already at the one before.    *)

LEMMA Least ==
  ASSUME NEW T \in SUBSET Nat, T # {}
  PROVE  \E n \in T : \A m \in T : n <= m
<1> DEFINE R == OpToRel(<, Nat)
<1>1. PICK n \in T : \A m \in T : ~(<<m, n>> \in R)
  <2>1. IsWellFoundedOn(R, Nat)
    BY NatLessThanWellFounded, Zenon
  <2> HIDE DEF R
  <2> QED BY <2>1, WFMin
<1>2. \A m \in T : ~(m < n)
  BY <1>1 DEF OpToRel
<1> QED BY <1>2

LEMMA TurnByTurn ==
  ASSUME NEW N \in Nat, NEW S, 0 \in S, \A n \in 1..N : n - 1 \in S => n \in S
  PROVE  \A n \in 0..N : n \in S
<1> SUFFICES ASSUME NEW k \in 0..N, k \notin S PROVE FALSE
  OBVIOUS
<1>1. PICK n \in 0..N : n \notin S /\ \A m \in 0..N \ S : n <= m
  <2> DEFINE T == {m \in 0..N : m \notin S}
  <2>1. T \in SUBSET Nat /\ T # {}
    OBVIOUS
  <2> HIDE DEF T
  <2>2. PICK n \in T : \A m \in T : n <= m
    BY <2>1, Least
  <2> QED BY <2>2 DEF T
<1>2. n \in 1..N /\ n - 1 \in 0..N /\ n - 1 < n
  BY <1>1
<1> QED BY <1>1, <1>2

LEMMA FirstOf ==
  ASSUME NEW S \in SUBSET Nat, S # {}
  PROVE  First(S) \in S /\ \A t \in S : First(S) <= t
BY Least DEF First

OwnAfter(r, list, k) ==
  [match |-> [n \in DOMAIN list |-> IF n \in Own(r, list) /\ n <= k THEN n ELSE 0],
   claimed |-> {n \in Own(r, list) : n <= k}]

LEMMA OwnTurns ==
  ASSUME NEW r, NEW list, ListOK(list), ListOK(r.outputs)
  PROVE  /\ OwnAfter(r, list, 0) = Start(list)
         /\ \A n \in 1..Len(list) :
              OwnTurn(r, list, n, OwnAfter(r, list, n - 1)) = OwnAfter(r, list, n)
<1>0. DOMAIN list = 1..Len(list) /\ Len(list) \in Nat
  BY DEF ListOK
<1>1. OwnAfter(r, list, 0) = Start(list)
  <2>1. \A n \in DOMAIN list : ~(n <= 0)
    BY <1>0
  <2>2. {n \in Own(r, list) : n <= 0} = {}
    BY <2>1 DEF Own
  <2> QED BY <2>1, <2>2 DEF OwnAfter, Start
<1>2. ASSUME NEW n \in 1..Len(list)
      PROVE  OwnTurn(r, list, n, OwnAfter(r, list, n - 1)) = OwnAfter(r, list, n)
  <2>1. /\ n \in Own(r, list) <=> n \in Slots(r) /\ SameKey(r, list[n], n)
        /\ Own(r, list) \subseteq 1..Len(list)
    BY <1>0 DEF Own
  <2>2. \A m \in 1..Len(list) : m <= n <=> m <= n - 1 \/ m = n
    BY <1>0
  <2>3. CASE n \in Own(r, list)
    <3>1. [OwnAfter(r, list, n - 1).match EXCEPT ![n] = n] = OwnAfter(r, list, n).match
      BY <1>0, <2>2, <2>3 DEF OwnAfter
    <3>2. OwnAfter(r, list, n - 1).claimed \cup {n} = OwnAfter(r, list, n).claimed
      BY <2>1, <2>2, <2>3 DEF OwnAfter
    <3> QED BY <2>1, <2>3, <3>1, <3>2 DEF OwnTurn, Claims, OwnAfter
  <2>4. CASE n \notin Own(r, list)
    <3>1. OwnAfter(r, list, n - 1).match = OwnAfter(r, list, n).match
      BY <1>0, <2>2, <2>4 DEF OwnAfter
    <3>2. OwnAfter(r, list, n - 1).claimed = OwnAfter(r, list, n).claimed
      BY <2>1, <2>2, <2>4 DEF OwnAfter
    <3> QED BY <2>1, <2>4, <3>1, <3>2 DEF OwnTurn, OwnAfter
  <2> QED BY <2>3, <2>4
<1> QED BY <1>1, <1>2

LEMMA OwnIs ==
  ASSUME NEW r, NEW list, ListOK(list), ListOK(r.outputs)
  PROVE  OwnLoop(r, list) = OwnAfter(r, list, Len(list))
<1> DEFINE N == Len(list)
           after == [n \in 0..N |-> OwnAfter(r, list, n)]
           Turns(f) == [n \in 0..N |-> IF n = 0 THEN Start(list)
                                       ELSE OwnTurn(r, list, n, f[n - 1])]
<1>0. N \in Nat
  BY DEF ListOK
<1>1. after = Turns(after)
  <2>1. \A n \in 0..N : n # 0 => n \in 1..N /\ n - 1 \in 0..N
    BY <1>0
  <2> QED BY <2>1, OwnTurns
<1>2. OwnLoop(r, list) = (CHOOSE f : f = Turns(f))[N]
  BY DEF OwnLoop
<1>3. PICK g : g = Turns(g) /\ OwnLoop(r, list) = g[N]
  <2> HIDE DEF Turns, N, after
  <2> QED BY <1>1, <1>2
<1>4. \A n \in 0..N : g[n] = OwnAfter(r, list, n)
  <2> DEFINE S == {n \in 0..N : g[n] = OwnAfter(r, list, n)}
  <2>1. 0 \in S
    BY <1>0, <1>3, OwnTurns
  <2>2. ASSUME NEW n \in 1..N, n - 1 \in S PROVE n \in S
    <3>1. n \in 0..N /\ n # 0 /\ g[n - 1] = OwnAfter(r, list, n - 1)
      BY <1>0, <2>2
    <3>2. g[n] = OwnTurn(r, list, n, g[n - 1])
      BY <1>3, <3>1
    <3> QED BY <3>1, <3>2, OwnTurns
  <2> HIDE DEF S
  <2>3. \A n \in 0..N : n \in S
    BY <1>0, <2>1, <2>2, TurnByTurn
  <2> QED BY <2>3 DEF S
<1> QED BY <1>0, <1>3, <1>4

\* A place in a set of numbers is known by how many are before it: no place is
\* left out, and none is shared.
LEMMA BeforeTyped ==
  ASSUME NEW N \in Nat, NEW F \in SUBSET (1..N), NEW s
  PROVE  IsFiniteSet(Before(F, s)) /\ Cardinality(Before(F, s)) \in Nat
<1>1. IsFiniteSet(1..N)
  BY FS_Interval
<1>2. Before(F, s) \subseteq 1..N
  BY DEF Before
<1> QED BY <1>1, <1>2, FS_Subset, FS_CardinalityType

LEMMA BeforeGrows ==
  ASSUME NEW N \in Nat, NEW F \in SUBSET (1..N), NEW s \in F, NEW t \in F, s < t
  PROVE  Cardinality(Before(F, s)) < Cardinality(Before(F, t))
<1>0. s \in Int /\ t \in Int /\ \A u \in F : u \in Int
  OBVIOUS
<1>1. Before(F, s) \cup {s} \subseteq Before(F, t) /\ s \notin Before(F, s)
  <2>1. s \notin Before(F, s) /\ s \in Before(F, t)
    BY <1>0 DEF Before
  <2>2. ASSUME NEW u \in Before(F, s) PROVE u \in Before(F, t)
    <3>1. u \in F /\ u < s /\ u \in Int
      BY <1>0 DEF Before
    <3>2. u < t
      BY <1>0, <3>1
    <3> QED BY <3>1, <3>2 DEF Before
  <2> QED BY <2>1, <2>2
<1>2. Cardinality(Before(F, s) \cup {s}) = Cardinality(Before(F, s)) + 1
  BY <1>1, BeforeTyped, FS_AddElement
<1>3. Cardinality(Before(F, s) \cup {s}) <= Cardinality(Before(F, t))
  BY <1>1, BeforeTyped, FS_Subset
<1>4. Cardinality(Before(F, s)) \in Nat /\ Cardinality(Before(F, t)) \in Nat
  BY BeforeTyped
<1> QED BY <1>2, <1>3, <1>4

LEMMA Greatest ==
  ASSUME NEW N \in Nat, NEW T \in SUBSET (1..N), T # {}
  PROVE  \E n \in T : \A m \in T : m <= n
<1> DEFINE U == {k \in 0..N : N - k \in T}
<1>1. U \in SUBSET Nat /\ U # {}
  <2>1. PICK n \in T : n \in 1..N
    OBVIOUS
  <2>2. N - n \in 0..N /\ N - (N - n) = n
    BY <2>1
  <2>3. N - n \in U
    BY <2>1, <2>2
  <2>4. \A k \in 0..N : k \in Nat
    OBVIOUS
  <2> QED BY <2>3, <2>4
<1>2. \A m \in T : N - m \in U
  OBVIOUS
<1>3. PICK k \in U : \A j \in U : k <= j
  <2> HIDE DEF U
  <2> QED BY <1>1, Least
<1>4. N - k \in T /\ \A m \in T : m <= N - k
  BY <1>2, <1>3
<1> QED BY <1>4

LEMMA PlaceTaken ==
  ASSUME NEW N \in Nat, NEW F \in SUBSET (1..N), NEW k \in Nat, NEW s \in F,
         Cardinality(Before(F, s)) >= k,
         \A t \in F : Cardinality(Before(F, t)) >= k => s <= t
  PROVE  Cardinality(Before(F, s)) = k
<1>0. Cardinality(Before(F, s)) \in Nat
  BY BeforeTyped
<1> SUFFICES ASSUME Cardinality(Before(F, s)) > k PROVE FALSE
  BY <1>0
<1>1. Before(F, s) \in SUBSET (1..N) /\ Before(F, s) # {}
  <2>1. Cardinality({}) = 0
    BY FS_EmptySet
  <2>2. Before(F, s) # {}
    BY <1>0, <2>1
  <2> QED BY <2>2 DEF Before
<1>2. PICK t \in Before(F, s) : \A u \in Before(F, s) : u <= t
  BY <1>1, Greatest
<1>3. t \in F /\ t < s /\ s \in 1..N /\ t \in 1..N
  BY <1>2 DEF Before
<1>4. Before(F, s) = Before(F, t) \cup {t} /\ t \notin Before(F, t)
  <2>1. \A u \in F : u \in Int
    OBVIOUS
  <2>2. \A u \in F : u < s <=> u < t \/ u = t
    BY <1>2, <1>3, <2>1 DEF Before
  <2>3. Before(F, s) = {u \in F : u < t \/ u = t}
    BY <2>2 DEF Before
  <2>4. t \notin Before(F, t)
    BY <1>3, <2>1 DEF Before
  <2> QED BY <1>3, <2>3, <2>4 DEF Before
<1>5. Cardinality(Before(F, s)) = Cardinality(Before(F, t)) + 1
  BY <1>4, BeforeTyped, FS_AddElement
<1>6. Cardinality(Before(F, t)) \in Nat
  BY BeforeTyped
<1> QED BY <1>3, <1>5, <1>6

LEMMA EveryPlace ==
  ASSUME NEW N \in Nat, NEW F \in SUBSET (1..N), NEW k \in Nat, NEW s \in F,
         Cardinality(Before(F, s)) >= k
  PROVE  \E t \in F : Cardinality(Before(F, t)) = k
<1> DEFINE T == {t \in F : Cardinality(Before(F, t)) >= k}
<1>1. T \in SUBSET Nat /\ T # {}
  <2>1. s \in T
    OBVIOUS
  <2>2. \A t \in F : t \in Nat
    OBVIOUS
  <2> QED BY <2>1, <2>2
<1>2. PICK t \in T : \A u \in T : t <= u
  <2> HIDE DEF T
  <2> QED BY <1>1, Least
<1>3. Cardinality(Before(F, t)) = k
  BY <1>2, PlaceTaken
<1> QED BY <1>3

\* The outputs ahead of n have taken the first slots of its key, one each.
LEMMA AheadTaken ==
  ASSUME NEW r, NEW list, ListOK(list), NEW n \in DOMAIN list \ Own(r, list),
         NEW k \in Nat, k < Cardinality(Ahead(r, list, n))
  PROVE  \E m \in Ahead(r, list, n) : Cardinality(Ahead(r, list, m)) = k
<1> DEFINE F == Ahead(r, list, n) \cup {n}
<1>1. DOMAIN list = 1..Len(list) /\ Len(list) \in Nat
  BY DEF ListOK
<1>2. F \in SUBSET (1..Len(list)) /\ n \in F
  BY <1>1 DEF Ahead
<1>3. Before(F, n) = Ahead(r, list, n)
  BY <1>1 DEF Before, Ahead
<1>4. \A m \in Ahead(r, list, n) : Before(F, m) = Ahead(r, list, m)
  BY <1>1 DEF Before, Ahead
<1> HIDE DEF F
<1>5. Cardinality(Before(F, n)) \in Nat
  BY <1>1, <1>2, BeforeTyped
<1>6. PICK m \in F : Cardinality(Before(F, m)) = k
  <2>1. Cardinality(Before(F, n)) >= k
    BY <1>3, <1>5
  <2> QED BY <1>1, <1>2, <2>1, EveryPlace
<1>7. m # n
  BY <1>3, <1>5, <1>6
<1> QED BY <1>4, <1>6, <1>7 DEF F

KeyMatch(r, list, n) ==
  IF n \in Own(r, list) THEN n
  ELSE IF ByKey(r, list, n) # {} THEN CHOOSE s \in ByKey(r, list, n) : TRUE ELSE 0

KeyAfter(r, list, k) ==
  [match |-> [n \in DOMAIN list |->
                IF n \in Own(r, list) \/ n <= k THEN KeyMatch(r, list, n) ELSE 0],
   claimed |-> Own(r, list) \cup
               UNION {ByKey(r, list, n) : n \in {m \in DOMAIN list \ Own(r, list) :
                                                   m <= k}}]

\* What the turn of n finds free: the slots of its key from the one on that as
\* many precede as there are outputs of its key ahead of it.
LEMMA FreeForKey ==
  ASSUME NEW r, NEW list, ListOK(list), ListOK(r.outputs),
         NEW n \in DOMAIN list \ Own(r, list),
         NEW s \in Slots(r), SameKey(r, list[n], s)
  PROVE  s \notin KeyAfter(r, list, n - 1).claimed <=>
           /\ s \in SlotsFor(r, list, n)
           /\ Cardinality(Before(SlotsFor(r, list, n), s)) >=
              Cardinality(Ahead(r, list, n))
<1> DEFINE F == SlotsFor(r, list, n)
           rank == Cardinality(Before(F, s))
<1>1. /\ DOMAIN list = 1..Len(list) /\ Len(list) \in Nat
      /\ Slots(r) = 1..Len(r.outputs) /\ Len(r.outputs) \in Nat
  BY DEF ListOK, Slots
<1>2. DOMAIN list \subseteq Nat /\ IsFiniteSet(DOMAIN list)
  BY <1>1, FS_Interval
<1>3. s \in F <=> s \notin Own(r, list)
  BY DEF SlotsFor
<1>4. /\ rank \in Nat /\ IsFiniteSet(Ahead(r, list, n))
      /\ Cardinality(Ahead(r, list, n)) \in Nat
  <2>1. F \in SUBSET (1..Len(r.outputs))
    BY <1>1 DEF SlotsFor
  <2>2. IsFiniteSet(Ahead(r, list, n))
    BY <1>2, FS_Subset DEF Ahead
  <2> HIDE DEF F
  <2>3. rank \in Nat
    BY <1>1, <2>1, BeforeTyped
  <2> QED BY <2>2, <2>3, FS_CardinalityType
<1>5. s \notin KeyAfter(r, list, n - 1).claimed <=>
        /\ s \notin Own(r, list)
        /\ \A m \in DOMAIN list \ Own(r, list) : m < n => s \notin ByKey(r, list, m)
  BY <1>1 DEF KeyAfter
<1>6. \A m \in DOMAIN list \ Own(r, list) :
        m < n /\ s \in ByKey(r, list, m) => m \in Ahead(r, list, n)
  BY DEF ByKey, SlotsFor, SameKey, Ahead
<1>7. ASSUME NEW m \in Ahead(r, list, n)
      PROVE  /\ s \in ByKey(r, list, m) <=>
                  s \in F /\ rank = Cardinality(Ahead(r, list, m))
             /\ m \in DOMAIN list \ Own(r, list) /\ m < n
             /\ Cardinality(Ahead(r, list, m)) < Cardinality(Ahead(r, list, n))
  <2>1. SlotsFor(r, list, m) = F
    BY DEF SlotsFor, SameKey, Ahead
  <2> QED BY <1>2, <2>1, AheadGrows DEF ByKey, Ahead
<1>8. rank < Cardinality(Ahead(r, list, n)) =>
        \E m \in Ahead(r, list, n) : Cardinality(Ahead(r, list, m)) = rank
  BY <1>4, AheadTaken
<1> HIDE DEF F, rank
<1>9. ASSUME s \in F PROVE
        (\A m \in DOMAIN list \ Own(r, list) : m < n => s \notin ByKey(r, list, m))
          <=> rank >= Cardinality(Ahead(r, list, n))
  <2>1. CASE rank < Cardinality(Ahead(r, list, n))
    BY <1>4, <1>7, <1>8, <1>9, <2>1
  <2>2. CASE rank >= Cardinality(Ahead(r, list, n))
    BY <1>4, <1>6, <1>7, <2>2
  <2> QED BY <1>4, <2>1, <2>2
<1> QED BY <1>3, <1>5, <1>9 DEF F, rank

\* The first of them is the one that n claims.
LEMMA FirstFree ==
  ASSUME NEW r, NEW list, ListOK(list), ListOK(r.outputs),
         NEW n \in DOMAIN list \ Own(r, list), NEW free,
         free = {s \in Slots(r) \ KeyAfter(r, list, n - 1).claimed :
                   SameKey(r, list[n], s)}
  PROVE  ByKey(r, list, n) = IF free = {} THEN {} ELSE {First(free)}
<1> DEFINE F == SlotsFor(r, list, n)
           k == Cardinality(Ahead(r, list, n))
           M == Len(r.outputs)
           rank(s) == Cardinality(Before(F, s))
<1>1. M \in Nat /\ F \in SUBSET (1..M) /\ free \in SUBSET Nat
  BY DEF ListOK, Slots, SlotsFor
<1>2. k \in Nat
  <2>1. DOMAIN list = 1..Len(list) /\ Len(list) \in Nat
    BY DEF ListOK
  <2>2. IsFiniteSet(DOMAIN list) /\ Ahead(r, list, n) \subseteq DOMAIN list
    BY <2>1, FS_Interval DEF Ahead
  <2> QED BY <2>2, FS_Subset, FS_CardinalityType
<1>3. free = {s \in F : rank(s) >= k}
  BY FreeForKey DEF SlotsFor
<1>4. ByKey(r, list, n) = {s \in F : rank(s) = k}
  BY DEF ByKey
<1> HIDE DEF F, k, M
<1>5. \A s \in F : rank(s) \in Nat
  BY <1>1, BeforeTyped
<1>6. ByKey(r, list, n) \subseteq free
  BY <1>2, <1>3, <1>4, <1>5
<1>7. CASE free # {}
  <2>1. First(free) \in free /\ \A t \in free : First(free) <= t
    BY <1>1, <1>7, FirstOf
  <2> DEFINE s == First(free)
  <2>2. /\ s \in F /\ rank(s) >= k
        /\ \A t \in F : rank(t) >= k => s <= t
    BY <1>3, <2>1
  <2> HIDE DEF s
  <2>3. rank(s) = k
    BY <1>1, <1>2, <2>2, PlaceTaken
  <2>4. ASSUME NEW t \in ByKey(r, list, n) PROVE t = s
    <3>1. t \in F /\ rank(t) = k /\ s <= t /\ s \in 1..M /\ t \in 1..M
      <4>1. t \in F /\ rank(t) = k
        BY <1>4
      <4>2. s <= t
        BY <1>2, <2>2, <4>1
      <4> QED BY <1>1, <2>2, <4>1, <4>2
    <3>2. ~(s < t)
      <4> SUFFICES ASSUME s < t PROVE FALSE
        OBVIOUS
      <4>1. rank(s) < rank(t)
        BY <1>1, <2>2, <3>1, BeforeGrows
      <4> QED BY <1>2, <2>3, <3>1, <4>1
    <3> QED BY <1>1, <3>1, <3>2
  <2>5. s \in ByKey(r, list, n)
    BY <1>4, <2>2, <2>3
  <2> QED BY <1>7, <2>4, <2>5 DEF s
<1> QED BY <1>6, <1>7

LEMMA KeyTurns ==
  ASSUME NEW r, NEW list, ListOK(list), ListOK(r.outputs)
  PROVE  /\ KeyAfter(r, list, 0) = OwnAfter(r, list, Len(list))
         /\ \A n \in 1..Len(list) :
              KeyTurn(r, list, n, KeyAfter(r, list, n - 1)) = KeyAfter(r, list, n)
<1>0. DOMAIN list = 1..Len(list) /\ Len(list) \in Nat
  BY DEF ListOK
<1>1. KeyAfter(r, list, 0) = OwnAfter(r, list, Len(list))
  <2>1. \A n \in DOMAIN list : ~(n <= 0) /\ n <= Len(list)
    BY <1>0
  <2>2. {m \in DOMAIN list \ Own(r, list) : m <= 0} = {}
    BY <2>1
  <2>3. {n \in Own(r, list) : n <= Len(list)} = Own(r, list)
    BY <2>1 DEF Own
  <2>4. KeyAfter(r, list, 0).claimed = OwnAfter(r, list, Len(list)).claimed
    BY <2>2, <2>3 DEF KeyAfter, OwnAfter
  <2>5. KeyAfter(r, list, 0).match = OwnAfter(r, list, Len(list)).match
    BY <2>1 DEF KeyAfter, OwnAfter, KeyMatch
  <2> QED BY <2>4, <2>5 DEF KeyAfter, OwnAfter
<1>2. ASSUME NEW n \in 1..Len(list)
      PROVE  KeyTurn(r, list, n, KeyAfter(r, list, n - 1)) = KeyAfter(r, list, n)
  <2> DEFINE x == KeyAfter(r, list, n - 1)
             free == {s \in Slots(r) \ x.claimed : SameKey(r, list[n], s)}
  <2> SUFFICES KeyTurn(r, list, n, x) = KeyAfter(r, list, n)
    OBVIOUS
  <2>0. free = {s \in Slots(r) \ KeyAfter(r, list, n - 1).claimed :
                  SameKey(r, list[n], s)}
    OBVIOUS
  <2>a. /\ x = [match |-> x.match, claimed |-> x.claimed]
        /\ KeyAfter(r, list, n) = [match |-> KeyAfter(r, list, n).match,
                                   claimed |-> KeyAfter(r, list, n).claimed]
    BY DEF KeyAfter
  <2>1. \A m \in 1..Len(list) : m <= n <=> m <= n - 1 \/ m = n
    BY <1>0
  <2>2. n \in DOMAIN list /\ ~(n <= n - 1) /\ n # 0
    BY <1>0
  <2>3. KeyTurn(r, list, n, x) =
          IF x.match[n] = 0 /\ free # {} THEN Claims(x, n, First(free)) ELSE x
    BY DEF KeyTurn
  <2>4. CASE n \in Own(r, list)
    <3>1. x.match[n] = n
      BY <2>2, <2>4 DEF KeyAfter, KeyMatch
    <3>2. x.match = KeyAfter(r, list, n).match
      BY <1>0, <2>1, <2>4 DEF KeyAfter
    <3>3. x.claimed = KeyAfter(r, list, n).claimed
      BY <1>0, <2>1, <2>4 DEF KeyAfter
    <3> HIDE DEF free, x
    <3> QED BY <2>a, <2>2, <2>3, <3>1, <3>2, <3>3
  <2>5. CASE n \notin Own(r, list)
    <3>1. x.match[n] = 0
      BY <2>2, <2>5 DEF KeyAfter
    <3>2. ByKey(r, list, n) = IF free = {} THEN {} ELSE {First(free)}
      <4> HIDE DEF free
      <4> QED BY <2>0, <2>2, <2>5, FirstFree
    <3>3. KeyMatch(r, list, n) = IF free = {} THEN 0 ELSE First(free)
      <4> HIDE DEF free
      <4> QED BY <2>5, <3>2 DEF KeyMatch
    <3>4. KeyAfter(r, list, n).claimed = x.claimed \cup ByKey(r, list, n)
      <4>1. {m \in DOMAIN list \ Own(r, list) : m <= n} =
            {m \in DOMAIN list \ Own(r, list) : m <= n - 1} \cup {n}
        BY <1>0, <2>1, <2>2, <2>5
      <4> QED BY <4>1 DEF KeyAfter
    <3>5. KeyAfter(r, list, n).match =
            [x.match EXCEPT ![n] = KeyMatch(r, list, n)]
      BY <1>0, <2>1, <2>2, <2>5 DEF KeyAfter
    <3>6. x.match = [x.match EXCEPT ![n] = 0]
      BY <2>2, <3>1 DEF KeyAfter
    <3> HIDE DEF free, x
    <3>7. CASE free = {}
      BY <2>a, <2>3, <3>2, <3>3, <3>4, <3>5, <3>6, <3>7
    <3>8. CASE free # {}
      BY <2>a, <2>3, <3>1, <3>2, <3>3, <3>4, <3>5, <3>8 DEF Claims
    <3> QED BY <3>7, <3>8
  <2> QED BY <2>4, <2>5
<1> QED BY <1>1, <1>2

LEMMA KeyIs ==
  ASSUME NEW r, NEW list, ListOK(list), ListOK(r.outputs)
  PROVE  KeyLoop(r, list) = KeyAfter(r, list, Len(list))
<1> DEFINE N == Len(list)
           after == [n \in 0..N |-> KeyAfter(r, list, n)]
           Turns(f) == [n \in 0..N |-> IF n = 0 THEN OwnLoop(r, list)
                                       ELSE KeyTurn(r, list, n, f[n - 1])]
<1>0. N \in Nat /\ KeyAfter(r, list, 0) = OwnLoop(r, list)
  BY KeyTurns, OwnIs DEF ListOK
<1>1. after = Turns(after)
  <2>1. \A n \in 0..N : n # 0 => n \in 1..N /\ n - 1 \in 0..N
    BY <1>0
  <2> QED BY <1>0, <2>1, KeyTurns
<1>2. KeyLoop(r, list) = (CHOOSE f : f = Turns(f))[N]
  BY DEF KeyLoop
<1>3. PICK g : g = Turns(g) /\ KeyLoop(r, list) = g[N]
  <2> HIDE DEF Turns, N, after
  <2> QED BY <1>1, <1>2
<1>4. \A n \in 0..N : g[n] = KeyAfter(r, list, n)
  <2> DEFINE S == {n \in 0..N : g[n] = KeyAfter(r, list, n)}
  <2>1. 0 \in S
    BY <1>0, <1>3
  <2>2. ASSUME NEW n \in 1..N, n - 1 \in S PROVE n \in S
    <3>1. n \in 0..N /\ n # 0 /\ g[n - 1] = KeyAfter(r, list, n - 1)
      BY <1>0, <2>2
    <3>2. g[n] = KeyTurn(r, list, n, g[n - 1])
      BY <1>3, <3>1
    <3> QED BY <3>1, <3>2, KeyTurns
  <2> HIDE DEF S
  <2>3. \A n \in 0..N : n \in S
    BY <1>0, <2>1, <2>2, TurnByTurn
  <2> QED BY <2>3 DEF S
<1> QED BY <1>0, <1>3, <1>4

PositionAfter(r, list, k) ==
  [match |-> [n \in DOMAIN list |-> IF n <= k THEN Match(r, list, n)
                                    ELSE KeyMatch(r, list, n)],
   claimed |-> Claimed(r, list) \cup
               {n \in Slots(r) : /\ n \in DOMAIN list /\ n <= k
                                 /\ KeyMatch(r, list, n) = 0}]

LEMMA PositionTurns ==
  ASSUME NEW r, NEW list, ListOK(list), ListOK(r.outputs)
  PROVE  /\ PositionAfter(r, list, 0) = KeyAfter(r, list, Len(list))
         /\ \A n \in 1..Len(list) :
              PositionTurn(r, list, n, PositionAfter(r, list, n - 1)) =
                PositionAfter(r, list, n)
<1>0. DOMAIN list = 1..Len(list) /\ Len(list) \in Nat
  BY DEF ListOK
<1>1. PositionAfter(r, list, 0) = KeyAfter(r, list, Len(list))
  <2>1. \A n \in DOMAIN list : ~(n <= 0) /\ n <= Len(list)
    BY <1>0
  <2>2. {m \in DOMAIN list \ Own(r, list) : m <= Len(list)} =
        DOMAIN list \ Own(r, list)
    BY <2>1
  <2>3. KeyAfter(r, list, Len(list)).claimed = Claimed(r, list)
    BY <2>2 DEF KeyAfter, Claimed
  <2>4. PositionAfter(r, list, 0).claimed = Claimed(r, list)
    BY <2>1 DEF PositionAfter
  <2>5. PositionAfter(r, list, 0).match = KeyAfter(r, list, Len(list)).match
    BY <2>1 DEF PositionAfter, KeyAfter
  <2> QED BY <2>3, <2>4, <2>5 DEF PositionAfter, KeyAfter
<1>2. ASSUME NEW n \in 1..Len(list)
      PROVE  PositionTurn(r, list, n, PositionAfter(r, list, n - 1)) =
               PositionAfter(r, list, n)
  <2> DEFINE x == PositionAfter(r, list, n - 1)
             y == PositionAfter(r, list, n)
  <2> SUFFICES PositionTurn(r, list, n, x) = y
    OBVIOUS
  <2>1. \A m \in 1..Len(list) : m <= n <=> m <= n - 1 \/ m = n
    BY <1>0
  <2>2. n \in DOMAIN list /\ ~(n <= n - 1) /\ n # 0
    BY <1>0
  <2>3. x.match[n] = KeyMatch(r, list, n)
    BY <2>2 DEF PositionAfter
  <2>4. y.match = [x.match EXCEPT ![n] = Match(r, list, n)]
    BY <1>0, <2>1, <2>2 DEF PositionAfter
  <2>5. y.claimed = x.claimed \cup
          (IF n \in Slots(r) /\ KeyMatch(r, list, n) = 0 THEN {n} ELSE {})
    BY <1>0, <2>1, <2>2 DEF PositionAfter
  <2>6. n \in x.claimed <=> n \in Claimed(r, list)
    BY <2>2 DEF PositionAfter
  <2>7. /\ x = [match |-> x.match, claimed |-> x.claimed]
        /\ y = [match |-> y.match, claimed |-> y.claimed]
        /\ x.match = [x.match EXCEPT ![n] = x.match[n]]
    BY DEF PositionAfter
  <2>8. Match(r, list, n) =
          IF KeyMatch(r, list, n) # 0 THEN KeyMatch(r, list, n)
          ELSE IF n \in Slots(r) \ Claimed(r, list) THEN n ELSE 0
    <3>1. ByKey(r, list, n) # {} =>
            (CHOOSE s \in ByKey(r, list, n) : TRUE) \in ByKey(r, list, n)
      OBVIOUS
    <3>2. 0 \notin ByKey(r, list, n)
      BY DEF ByKey, SlotsFor, Slots, ListOK
    <3> QED BY <2>2, <3>1, <3>2 DEF Match, KeyMatch
  <2>9. PositionTurn(r, list, n, x) =
          IF x.match[n] = 0 /\ n \in Slots(r) \ x.claimed
          THEN Claims(x, n, n) ELSE x
    BY DEF PositionTurn
  <2> HIDE DEF x, y
  <2>10. CASE KeyMatch(r, list, n) # 0
    BY <2>3, <2>4, <2>5, <2>7, <2>8, <2>9, <2>10
  <2>11. CASE KeyMatch(r, list, n) = 0 /\ n \in Slots(r) \ Claimed(r, list)
    BY <2>3, <2>4, <2>5, <2>6, <2>7, <2>8, <2>9, <2>11 DEF Claims
  <2>12. CASE KeyMatch(r, list, n) = 0 /\ n \notin Slots(r) \ Claimed(r, list)
    <3>1. y.claimed = x.claimed
      BY <2>5, <2>6, <2>12
    <3>2. y.match = x.match
      BY <2>3, <2>4, <2>7, <2>8, <2>12
    <3> QED BY <2>6, <2>7, <2>9, <2>12, <3>1, <3>2
  <2> QED BY <2>10, <2>11, <2>12
<1> QED BY <1>1, <1>2

LEMMA PositionIs ==
  ASSUME NEW r, NEW list, ListOK(list), ListOK(r.outputs)
  PROVE  PositionLoop(r, list) = PositionAfter(r, list, Len(list))
<1> DEFINE N == Len(list)
           after == [n \in 0..N |-> PositionAfter(r, list, n)]
           Turns(f) == [n \in 0..N |-> IF n = 0 THEN KeyLoop(r, list)
                                       ELSE PositionTurn(r, list, n, f[n - 1])]
<1>0. N \in Nat /\ PositionAfter(r, list, 0) = KeyLoop(r, list)
  BY PositionTurns, KeyIs DEF ListOK
<1>1. after = Turns(after)
  <2>1. \A n \in 0..N : n # 0 => n \in 1..N /\ n - 1 \in 0..N
    BY <1>0
  <2> QED BY <1>0, <2>1, PositionTurns
<1>2. PositionLoop(r, list) = (CHOOSE f : f = Turns(f))[N]
  BY DEF PositionLoop
<1>3. PICK g : g = Turns(g) /\ PositionLoop(r, list) = g[N]
  <2> HIDE DEF Turns, N, after
  <2> QED BY <1>1, <1>2
<1>4. \A n \in 0..N : g[n] = PositionAfter(r, list, n)
  <2> DEFINE S == {n \in 0..N : g[n] = PositionAfter(r, list, n)}
  <2>1. 0 \in S
    BY <1>0, <1>3
  <2>2. ASSUME NEW n \in 1..N, n - 1 \in S PROVE n \in S
    <3>1. n \in 0..N /\ n # 0 /\ g[n - 1] = PositionAfter(r, list, n - 1)
      BY <1>0, <2>2
    <3>2. g[n] = PositionTurn(r, list, n, g[n - 1])
      BY <1>3, <3>1
    <3> QED BY <3>1, <3>2, PositionTurns
  <2> HIDE DEF S
  <2>3. \A n \in 0..N : n \in S
    BY <1>0, <2>1, <2>2, TurnByTurn
  <2> QED BY <2>3 DEF S
<1> QED BY <1>0, <1>3, <1>4

\* The leg was resumed from a file whose list is one.
FilesListed == Types /\ ListOK(origin.outputs)

LEMMA FilesListedStep == FilesListed /\ [Next]_vars => FilesListed'
<1> SUFFICES ASSUME FilesListed, [Next]_vars PROVE ListOK(origin.outputs)'
  BY NextTypes DEF FilesListed
<1>1. CASE UNCHANGED origin
  BY <1>1 DEF FilesListed, ListOK
<1>2. CASE End
  BY <1>2 DEF End, NoFile, ListOK, RestartPlace
<1>3. ASSUME NEW r \in restarts, NEW list \in Lists, Resume(r, list)
      PROVE  ListOK(origin.outputs)'
  <2>1. ListOK(r.outputs)
    BY DEF FilesListed, Types, Scheduled
  <2> QED BY <1>3, <2>1 DEF Resume, ListOK
<1> QED BY <1>1, <1>2, <1>3
        DEF Next, MakeOutput, SkipOutput, FinalOutput, Step, Finalize, vars, history

\* Whatever list was saved and whatever list a leg is resumed with, what the
\* loops of _init_from_restart leave in match is Match of each output.
THEOREM LoopsMatch == Spec => []MatchIsTheLoop
<1>1. Init => FilesListed
  BY InitTypes DEF Init, FilesListed, NoFile, ListOK, RestartPlace
<1>2. FilesListed => MatchIsTheLoop
  <2> SUFFICES ASSUME FilesListed
               PROVE  [n \in DOMAIN outputs |-> Match(origin, outputs, n)] =
                        PositionLoop(origin, outputs).match
    BY DEF MatchIsTheLoop
  <2>1. ListOK(outputs) /\ ListOK(origin.outputs)
    BY DEF FilesListed, Types, Scheduled
  <2>2. \A n \in DOMAIN outputs : n <= Len(outputs)
    BY <2>1 DEF ListOK
  <2>3. PositionLoop(origin, outputs) = PositionAfter(origin, outputs, Len(outputs))
    BY <2>1, PositionIs
  <2> QED BY <2>2, <2>3 DEF PositionAfter
<1> QED BY <1>1, <1>2, FilesListedStep, PTL DEF Spec

-----------------------------------------------------------------------------
(* What a leg knows of the files that it has written: their numbers are    *)
(* those that its outputs have left behind.                                *)

FramesOfLeg ==
  \A f \in frames : f.leg = leg =>
    /\ f.pos \in DOMAIN outputs /\ f.output = outputs[f.pos]
    /\ f.number < file_number[f.pos] /\ f.time <= time

RestartsOfLeg ==
  \A r \in restarts : r.leg = leg =>
    /\ r.time <= time
    /\ r.name >= 0 => \A n \in RestartPlace(outputs) : r.name < file_number[n]

FilesTyped ==
  /\ \A f \in frames : /\ f.leg \in Nat /\ f.leg <= leg
                       /\ f.time \in Nat /\ f.number \in Nat
  /\ \A r \in restarts : r.leg \in Nat /\ r.leg <= leg /\ r.name \in Int

LegInv == /\ Types /\ leg \in Nat /\ leg > 0 /\ FilesTyped
          /\ phase # "down" => FramesOfLeg /\ RestartsOfLeg

LEMMA InitLeg == Init => LegInv
BY InitTypes DEF Init, LegInv, FilesTyped, FramesOfLeg, RestartsOfLeg

\* A frame replaces the one of its number.
LEMMA FrameWritten ==
  ASSUME NEW n, WriteFrame(n)
  PROVE  /\ restarts' = restarts
         /\ \A f \in frames' :
              \/ f \in frames /\ ~(f.pos = n /\ f.number = file_number[n])
              \/ /\ f.pos = n /\ f.number = file_number[n] /\ f.time = time
                 /\ f.leg = leg /\ f.output = outputs[n]
                 /\ f.gathered = AccumulateStats(n).elapsed
         /\ \A f \in frames : ~(f.pos = n /\ f.number = file_number[n])
                               => f \in frames'
<1> DEFINE k == file_number[n]
           new == [pos |-> n, number |-> k, time |-> time, leg |-> leg,
                   output |-> outputs[n],
                   gathered |-> AccumulateStats(n).elapsed]
<1>1. /\ restarts' = restarts
      /\ frames' = {f \in frames : ~(f.pos = n /\ f.number = k)} \cup {new}
  BY DEF WriteFrame
<1>2. /\ new.pos = n /\ new.number = k /\ new.time = time /\ new.leg = leg
      /\ new.output = outputs[n] /\ new.gathered = AccumulateStats(n).elapsed
  OBVIOUS
<1> HIDE DEF new
<1> QED BY <1>1, <1>2

\* A restart file replaces the one of its name.
LEMMA RestartWritten ==
  ASSUME NEW name, WriteRestart(name)
  PROVE  /\ frames' = frames
         /\ \A r \in restarts' :
              \/ r \in restarts /\ r.name # name
              \/ /\ r.name = name /\ r.leg = leg /\ r.time = time
                 /\ r.outputs = outputs /\ r.next_time = next_time
                 /\ r.file_number = file_number
         /\ \A r \in restarts : r.name # name => r \in restarts'
<1> DEFINE new == [name |-> name, leg |-> leg, time |-> time,
                   keys |-> writer, outputs |-> outputs,
                   next_time |-> next_time, file_number |-> file_number]
<1>1. /\ frames' = frames
      /\ restarts' = {r \in restarts : r.name # name} \cup {new}
  BY DEF WriteRestart
<1>2. /\ new.name = name /\ new.leg = leg /\ new.time = time
      /\ new.outputs = outputs /\ new.next_time = next_time
      /\ new.file_number = file_number
  OBVIOUS
<1> HIDE DEF new
<1> QED BY <1>1, <1>2

LEMMA NextLeg == LegInv /\ [Next]_vars => LegInv'
<1> SUFFICES ASSUME LegInv, [Next]_vars PROVE LegInv'
  OBVIOUS
<1>1. Types'
  BY NextTypes DEF LegInv
<1>2. /\ time \in Nat /\ file_number \in [DOMAIN outputs -> Nat]
      /\ ListOK(outputs) /\ leg \in Nat /\ leg > 0 /\ FilesTyped
      /\ phase # "down" => FramesOfLeg /\ RestartsOfLeg
  BY DEF LegInv, Types, Scheduled
<1>3. ASSUME NEW n \in DOMAIN outputs, MakeOutput(n) PROVE LegInv'
  <2>1. /\ file_number'[n] = file_number[n] + 1
        /\ \A m \in DOMAIN outputs : m # n => file_number'[m] = file_number[m]
        /\ UNCHANGED <<time, outputs, leg>> /\ WriteOutput(n) /\ phase = "make"
    BY <1>2, <1>3 DEF MakeOutput, history
  <2>2. CASE WriteFrame(n)
    <3>1. FilesTyped'
      BY <1>2, <2>1, <2>2, FrameWritten DEF FilesTyped
    <3>2. FramesOfLeg'
      BY <1>2, <2>1, <2>2, FrameWritten DEF FramesOfLeg, FilesTyped
    <3>3. RestartsOfLeg'
      BY <1>2, <2>1, <2>2, FrameWritten
      DEF RestartsOfLeg, FilesTyped, RestartPlace
    <3> QED BY <1>1, <1>2, <2>1, <3>1, <3>2, <3>3 DEF LegInv
  <2>3. CASE n \in RestartPlace(outputs) /\ WriteRestart(file_number[n])
    <3>1. FilesTyped'
      BY <1>2, <2>1, <2>3, RestartWritten DEF FilesTyped
    <3>2. FramesOfLeg'
      BY <1>2, <2>1, <2>3, RestartWritten DEF FramesOfLeg, FilesTyped
    <3>3. RestartsOfLeg'
      <4>1. \A m \in RestartPlace(outputs) : m = n
        BY <1>2, <2>3 DEF ListOK
      <4> QED BY <1>2, <2>1, <2>3, <4>1, RestartWritten
              DEF RestartsOfLeg, FilesTyped
    <3> QED BY <1>1, <1>2, <2>1, <3>1, <3>2, <3>3 DEF LegInv
  <2> QED BY <2>1, <2>2, <2>3 DEF WriteOutput, RestartPlace
<1>4. ASSUME NEW n \in DOMAIN outputs, FinalOutput(n) PROVE LegInv'
  <2>1. /\ UNCHANGED <<time, outputs, file_number, leg>> /\ phase = "final"
        /\ WriteRestart(-1) \/ UNCHANGED <<frames, restarts>>
    BY <1>4 DEF FinalOutput, disk, history
  <2>2. FilesTyped'
    BY <1>2, <2>1, RestartWritten DEF FilesTyped
  <2>3. FramesOfLeg'
    BY <1>2, <2>1, RestartWritten DEF FramesOfLeg
  <2>4. RestartsOfLeg'
    BY <1>2, <2>1, RestartWritten DEF RestartsOfLeg, FilesTyped
  <2> QED BY <1>1, <1>2, <2>1, <2>2, <2>3, <2>4 DEF LegInv
<1>5. CASE Step
  <2>1. time' \in Nat /\ time' >= time
    BY <1>2, <1>5, OutputAssumption DEF Step, Positive
  <2>2. UNCHANGED <<outputs, file_number, leg, frames, restarts>>
        /\ phase = "step"
    BY <1>5 DEF Step, schedule, disk, history
  <2>3. FilesTyped' /\ FramesOfLeg' /\ RestartsOfLeg'
    BY <1>2, <2>1, <2>2, <1>1
    DEF FilesTyped, FramesOfLeg, RestartsOfLeg, Types
  <2> QED BY <1>1, <1>2, <2>2, <2>3 DEF LegInv
<1>6. CASE \/ \E n \in DOMAIN outputs : SkipOutput(n)
           \/ Finalize \/ UNCHANGED vars
  <2>1. UNCHANGED <<time, outputs, file_number, leg, frames, restarts>>
        /\ (phase' # "down" => phase # "down")
    BY <1>6
    DEF SkipOutput, Finalize, vars, schedule, disk, history
  <2> QED BY <1>1, <1>2, <2>1
          DEF LegInv, FilesTyped, FramesOfLeg, RestartsOfLeg
<1>7. CASE End
  BY <1>1, <1>2, <1>7 DEF End, LegInv, FilesTyped, disk
<1>8. ASSUME NEW r \in restarts, NEW list \in Lists, Resume(r, list) PROVE LegInv'
  <2>1. leg' = leg + 1 /\ UNCHANGED <<frames, restarts>>
    BY <1>8 DEF Resume, disk
  <2>2. FilesTyped' /\ FramesOfLeg' /\ RestartsOfLeg'
    BY <1>2, <2>1 DEF FilesTyped, FramesOfLeg, RestartsOfLeg
  <2> QED BY <1>1, <1>2, <2>1, <2>2 DEF LegInv
<1> QED BY <1>3, <1>4, <1>5, <1>6, <1>7, <1>8 DEF Next

-----------------------------------------------------------------------------
(* Statistics.                                                             *)

StatsTyped ==
  stats \in [DOMAIN outputs -> [initialized: BOOLEAN, last: Int, elapsed: Int]]

\* An output has gathered the time since its last frame.
Gathering ==
  \A f \in frames :
    f.leg = leg /\ f.output.stat /\ f.number + 1 = file_number[f.pos] =>
      /\ stats[f.pos].initialized
      /\ stats[f.pos].elapsed = stats[f.pos].last - f.time

TileInv == /\ LegInv /\ StatsTyped
           /\ phase # "down" => Gathering
           /\ StatsTile

\* What accumulating gathers, and what a reset leaves.
LEMMA Accumulated ==
  ASSUME Types, StatsTyped, NEW n \in DOMAIN outputs
  PROVE  LET a == AccumulateStats(n)
             r == ResetStats(n)
         IN  /\ a \in [initialized: BOOLEAN, last: Int, elapsed: Int]
             /\ r \in [initialized: BOOLEAN, last: Int, elapsed: Int]
             /\ outputs[n].stat /\ stats[n].initialized =>
                  /\ a.initialized /\ a.last = time
                  /\ a.elapsed = stats[n].elapsed + (time - stats[n].last)
             /\ outputs[n].stat =>
                  r.initialized /\ r.last = time /\ r.elapsed = 0
<1>1. time \in Int
  BY DEF Types
<1>2. stats[n] \in [initialized: BOOLEAN, last: Int, elapsed: Int]
  BY DEF StatsTyped
<1>3. PICK i \in BOOLEAN, l \in Int, e \in Int :
        stats[n] = [initialized |-> i, last |-> l, elapsed |-> e]
  BY <1>2
<1>4. /\ stats[n].initialized = i /\ stats[n].last = l
      /\ stats[n].elapsed = e
  BY <1>3
<1>5. CASE ~outputs[n].stat
  BY <1>2, <1>5 DEF AccumulateStats, ResetStats
<1>6. CASE outputs[n].stat /\ ~i
  <2>1. AccumulateStats(n)
          = [initialized |-> TRUE, last |-> time, elapsed |-> e]
    BY <1>3, <1>4, <1>6 DEF AccumulateStats
  <2>2. ResetStats(n) = [initialized |-> TRUE, last |-> time, elapsed |-> 0]
    BY <1>6 DEF ResetStats
  <2> QED BY <1>1, <1>3, <1>4, <1>6, <2>1, <2>2
<1>7. CASE outputs[n].stat /\ i
  <2>1. AccumulateStats(n)
          = [initialized |-> i, last |-> time, elapsed |-> e + (time - l)]
    BY <1>3, <1>4, <1>7 DEF AccumulateStats
  <2>2. ResetStats(n) = [initialized |-> TRUE, last |-> time, elapsed |-> 0]
    BY <1>7 DEF ResetStats
  <2> QED BY <1>1, <1>3, <1>4, <1>7, <2>1, <2>2
<1> QED BY <1>5, <1>6, <1>7

LEMMA NextTile == TileInv /\ [Next]_vars => TileInv'
<1> SUFFICES ASSUME TileInv, [Next]_vars PROVE TileInv'
  OBVIOUS
<1>1. LegInv' /\ Types'
  BY NextLeg DEF TileInv, LegInv
<1>2. /\ Types /\ StatsTyped /\ time \in Nat /\ leg \in Nat
      /\ file_number \in [DOMAIN outputs -> Nat] /\ FilesTyped
      /\ DOMAIN stats = DOMAIN outputs
      /\ phase # "down" => FramesOfLeg /\ Gathering
      /\ StatsTile
  BY DEF TileInv, LegInv, Types, Scheduled, StatsTyped
<1>3. ASSUME NEW n \in DOMAIN outputs, MakeOutput(n) PROVE TileInv'
  <2>1. /\ file_number'[n] = file_number[n] + 1
        /\ \A m \in DOMAIN outputs : m # n => file_number'[m] = file_number[m]
        /\ stats'[n] = ResetStats(n) /\ DOMAIN stats' = DOMAIN outputs
        /\ \A m \in DOMAIN outputs : m # n => stats'[m] = stats[m]
        /\ UNCHANGED <<time, outputs, leg>> /\ WriteOutput(n) /\ phase = "make"
    BY <1>2, <1>3 DEF MakeOutput, history
  <2>2. StatsTyped'
    BY <1>2, <1>3, Accumulated DEF MakeOutput, StatsTyped
  <2>3. CASE WriteFrame(n)
    <3>1. Gathering'
      <4> SUFFICES ASSUME NEW f \in frames', f.leg = leg, f.output.stat,
                          f.number + 1 = file_number'[f.pos]
                   PROVE  /\ stats'[f.pos].initialized
                          /\ stats'[f.pos].elapsed
                               = stats'[f.pos].last - f.time
        BY <2>1 DEF Gathering
      <4>1. CASE f \in frames /\ f.pos # n
        BY <1>2, <2>1, <4>1 DEF Gathering, FramesOfLeg
      <4>2. CASE f \in frames /\ f.pos = n
        BY <1>2, <2>1, <4>2 DEF FramesOfLeg, FilesTyped
      <4>3. CASE f.pos = n /\ f.time = time /\ f.output = outputs[n]
        <5>1. stats'[n].initialized /\ stats'[n].last = time
              /\ stats'[n].elapsed = 0
          BY <1>2, <2>1, <4>3, Accumulated
        <5> QED BY <1>2, <4>3, <5>1
      <4> QED BY <2>3, <4>1, <4>2, <4>3, FrameWritten
    <3>2. StatsTile'
      <4> SUFFICES ASSUME NEW f \in frames', NEW g \in frames', f.pos = g.pos,
                          f.leg = g.leg, g.number = f.number + 1, f.output.stat
                   PROVE  g.gathered = g.time - f.time
        BY DEF StatsTile
      <4>1. CASE f \in frames /\ g \in frames
        BY <1>2, <4>1 DEF StatsTile
      <4>2. CASE f \in frames /\ g \notin frames
        <5>1. /\ g.pos = n /\ g.number = file_number[n] /\ g.time = time
              /\ g.leg = leg /\ g.gathered = AccumulateStats(n).elapsed
          BY <2>3, <4>2, FrameWritten
        <5>2. /\ f.output = outputs[n] /\ stats[n].initialized
              /\ stats[n].elapsed = stats[n].last - f.time
          BY <1>2, <2>1, <4>2, <5>1 DEF FramesOfLeg, Gathering
        <5>3. /\ f.time \in Int /\ stats[n].last \in Int
              /\ AccumulateStats(n).elapsed
                   = stats[n].elapsed + (time - stats[n].last)
          BY <1>2, <4>2, <5>2, Accumulated DEF FilesTyped, StatsTyped
        <5> QED BY <1>2, <5>1, <5>2, <5>3
      <4>3. CASE f \notin frames
        <5>1. f.pos = n /\ f.number = file_number[n] /\ f.leg = leg
          BY <2>3, <4>3, FrameWritten
        <5>2. g \in frames => g.number < file_number[n]
          BY <1>2, <2>1, <5>1 DEF FramesOfLeg
        <5>3. g \notin frames => g.number = file_number[n]
          BY <2>3, FrameWritten
        <5> QED BY <1>2, <5>1, <5>2, <5>3
      <4> QED BY <4>1, <4>2, <4>3
    <3> QED BY <1>1, <2>2, <3>1, <3>2 DEF TileInv
  <2>4. CASE n \in RestartPlace(outputs) /\ WriteRestart(file_number[n])
    <3>1. frames' = frames
      BY <2>4, RestartWritten
    <3>2. Gathering'
      BY <1>2, <2>1, <3>1 DEF Gathering, FramesOfLeg, FilesTyped
    <3> QED BY <1>1, <1>2, <2>2, <3>1, <3>2 DEF TileInv, StatsTile
  <2> QED BY <2>1, <2>3, <2>4 DEF WriteOutput, RestartPlace
<1>4. ASSUME NEW n \in DOMAIN outputs, SkipOutput(n) \/ FinalOutput(n)
      PROVE  TileInv'
  <2>1. /\ stats'[n] = AccumulateStats(n) /\ DOMAIN stats' = DOMAIN outputs
        /\ \A m \in DOMAIN outputs : m # n => stats'[m] = stats[m]
        /\ UNCHANGED <<time, outputs, file_number, leg>> /\ phase # "down"
    BY <1>2, <1>4 DEF SkipOutput, FinalOutput, history
  <2>2. StatsTyped'
    BY <1>2, <1>4, Accumulated DEF SkipOutput, FinalOutput, StatsTyped
  <2>3. frames' = frames
    BY <1>4, RestartWritten DEF SkipOutput, FinalOutput, disk
  <2>4. Gathering'
    <3> SUFFICES ASSUME NEW f \in frames, f.leg = leg, f.output.stat,
                        f.number + 1 = file_number[f.pos]
                 PROVE  /\ stats'[f.pos].initialized
                        /\ stats'[f.pos].elapsed = stats'[f.pos].last - f.time
      BY <2>1, <2>3 DEF Gathering
    <3>1. CASE f.pos # n
      BY <1>2, <2>1, <3>1 DEF Gathering, FramesOfLeg
    <3>2. CASE f.pos = n
      <4>1. /\ f.output = outputs[n] /\ stats[n].initialized
            /\ stats[n].elapsed = stats[n].last - f.time
        BY <1>2, <2>1, <3>2 DEF FramesOfLeg, Gathering
      <4>2. /\ f.time \in Int /\ stats[n].last \in Int
            /\ stats'[n].initialized /\ stats'[n].last = time
            /\ stats'[n].elapsed = stats[n].elapsed + (time - stats[n].last)
        BY <1>2, <2>1, <4>1, Accumulated DEF FilesTyped, StatsTyped
      <4> QED BY <1>2, <3>2, <4>1, <4>2
    <3> QED BY <3>1, <3>2
  <2> QED BY <1>1, <1>2, <2>2, <2>3, <2>4 DEF TileInv, StatsTile
<1>5. CASE Step \/ Finalize \/ UNCHANGED vars
  <2>1. /\ UNCHANGED <<stats, outputs, file_number, leg, frames>>
        /\ phase' # "down" => phase # "down"
    BY <1>5 DEF Step, Finalize, vars, schedule, disk, history
  <2> QED BY <1>1, <1>2, <2>1 DEF TileInv, StatsTyped, Gathering, StatsTile
<1>6. CASE End
  BY <1>1, <1>2, <1>6 DEF End, TileInv, StatsTyped, StatsTile, disk
<1>7. ASSUME NEW r \in restarts, NEW list \in Lists, Resume(r, list)
      PROVE  TileInv'
  <2>1. /\ leg' = leg + 1 /\ frames' = frames /\ outputs' = list
        /\ stats' = [n \in DOMAIN list |-> NoStats]
    BY <1>7 DEF Resume, disk
  <2>2. StatsTyped'
    BY <2>1 DEF StatsTyped, NoStats
  <2>3. Gathering' /\ StatsTile'
    BY <1>2, <2>1 DEF Gathering, StatsTile, FilesTyped
  <2> QED BY <1>1, <2>2, <2>3 DEF TileInv
<1> QED BY <1>3, <1>4, <1>5, <1>6, <1>7 DEF Next

\* The frames of a statistics output tile the time of a leg, whatever its period
\* and the other outputs: each covers what lies between the frame before and
\* itself.
THEOREM StatisticsTile == Spec => []StatsTile
<1>1. Init => TileInv
  BY InitLeg DEF Init, TileInv, StatsTyped, NoStats, Gathering, StatsTile
<1>2. TileInv => StatsTile
  BY DEF TileInv
<1> QED BY <1>1, <1>2, NextTile, PTL DEF Spec

-----------------------------------------------------------------------------
(* Resuming in place.                                                      *)

\* What the leg of a restart file had written before it has numbers below those
\* that the file saves.
BeforeFile(r) ==
  /\ \A f \in frames :
       f.leg = r.leg /\ f.time < r.time /\ f.pos \in Slots(r) =>
         f.number < r.file_number[f.pos]
  /\ \A s \in restarts :
       s.leg = r.leg /\ s.time < r.time /\ s.name >= 0 =>
         \A n \in RestartPlace(r.outputs) : s.name < r.file_number[n]

\* The leg goes on from the numbers of the file that it was resumed from.
Onward ==
  \A n \in DOMAIN outputs \cap Slots(origin) :
    file_number[n] >= origin.file_number[n]

OriginTyped == /\ origin.leg \in Nat /\ origin.leg < leg /\ origin.time \in Nat
               /\ Scheduled(origin.outputs, origin.next_time,
                            origin.file_number)

PlaceInv == /\ LegInv /\ OriginTyped /\ Onward
            /\ BeforeFile(origin) /\ \A r \in restarts : BeforeFile(r)

LEMMA InitPlace == Init => PlaceInv
<1> SUFFICES ASSUME Init PROVE PlaceInv
  OBVIOUS
<1>1. LegInv
  BY InitLeg
<1>2. OriginTyped
  BY DEF Init, OriginTyped, NoFile, Scheduled, ListOK, RestartPlace
<1>3. Onward /\ BeforeFile(origin) /\ \A r \in restarts : BeforeFile(r)
  BY DEF Init, Onward, BeforeFile, NoFile, Slots
<1> QED BY <1>1, <1>2, <1>3 DEF PlaceInv

\* What a leg writes leaves the files of the legs before it as they were, and
\* those of its own are not older than the restart files that it has written.
LEMMA StaysBefore ==
  ASSUME LegInv, phase # "down", NEW r, r.leg \in Nat, r.time \in Int,
         r.leg <= leg, r.leg = leg => r.time <= time, BeforeFile(r),
         \A f \in frames' : f \in frames \/ (f.leg = leg /\ f.time = time),
         \A s \in restarts' : s \in restarts \/ (s.leg = leg /\ s.time = time)
  PROVE  BeforeFile(r)'
BY DEF BeforeFile, LegInv, Types

\* A restart file saves numbers beyond those of the files of its leg.
LEMMA SavedBefore ==
  ASSUME LegInv, phase # "down", NEW r, r.leg = leg, r.time = time,
         r.outputs = outputs, r.file_number = file_number,
         \A f \in frames' : f \in frames,
         \A s \in restarts' : s \in restarts \/ (s.leg = leg /\ s.time = time)
  PROVE  BeforeFile(r)'
BY DEF BeforeFile, LegInv, Types, FramesOfLeg, RestartsOfLeg

LEMMA NextPlace == PlaceInv /\ [Next]_vars => PlaceInv'
<1> SUFFICES ASSUME PlaceInv, [Next]_vars PROVE PlaceInv'
  OBVIOUS
<1>1. LegInv' /\ Types'
  BY NextLeg DEF PlaceInv, LegInv
<1>2. /\ Types /\ LegInv /\ OriginTyped /\ Onward /\ BeforeFile(origin)
      /\ \A r \in restarts : BeforeFile(r)
      /\ file_number \in [DOMAIN outputs -> Nat] /\ time \in Nat /\ leg \in Nat
      /\ \A r \in restarts : /\ r.leg \in Nat /\ r.leg <= leg
                             /\ r.time \in Nat
      /\ phase # "down" => \A r \in restarts : r.leg = leg => r.time <= time
  BY DEF PlaceInv, LegInv, Types, Scheduled, FilesTyped, RestartsOfLeg
\* A leg that writes.
<1>3. ASSUME phase # "down", UNCHANGED <<outputs, time, leg, origin>>,
             file_number' \in [DOMAIN outputs -> Nat],
             \A n \in DOMAIN outputs : file_number'[n] >= file_number[n],
             \/ UNCHANGED disk
             \/ \E n \in DOMAIN outputs : WriteFrame(n)
             \/ \E name : WriteRestart(name)
      PROVE  PlaceInv'
  <2> DEFINE
    Fresh ==
      /\ \A f \in frames' : f \in frames \/ (f.leg = leg /\ f.time = time)
      /\ \A s \in restarts' : s \in restarts \/ (s.leg = leg /\ s.time = time)
  <2>1. Fresh
    <3>1. CASE UNCHANGED disk
      BY <3>1 DEF disk
    <3>2. ASSUME NEW n \in DOMAIN outputs, WriteFrame(n) PROVE Fresh
      BY <3>2, FrameWritten
    <3>3. ASSUME NEW name, WriteRestart(name) PROVE Fresh
      BY <3>3, RestartWritten
    <3> QED BY <1>3, <3>1, <3>2, <3>3
  <2>2. Onward'
    BY <1>2, <1>3 DEF Onward, OriginTyped, Scheduled, Slots
  <2>3. OriginTyped'
    BY <1>2, <1>3 DEF OriginTyped
  <2>4. BeforeFile(origin)'
    <3>1. BeforeFile(origin) /\ origin' = origin
      BY <1>2, <1>3
    <3>2. origin.leg \in Nat /\ origin.time \in Int /\ origin.leg < leg
      BY <1>2 DEF OriginTyped
    <3> DEFINE r == origin
    <3> HIDE DEF r
    <3> QED BY <1>2, <1>3, <2>1, <3>1, <3>2 DEF BeforeFile, Types
  <2>5. ASSUME NEW r \in restarts' PROVE BeforeFile(r)'
    <3>1. CASE r \in restarts
      BY <1>2, <1>3, <2>1, <3>1, StaysBefore
    <3>2. CASE r \notin restarts
      <4>1. PICK name : WriteRestart(name)
        BY <1>3, <3>2, FrameWritten DEF disk
      <4>2. /\ r.leg = leg /\ r.time = time /\ r.outputs = outputs
            /\ r.file_number = file_number /\ frames' = frames
        BY <3>2, <4>1, RestartWritten
      <4> QED BY <1>2, <1>3, <2>1, <4>2, SavedBefore
    <3> QED BY <3>1, <3>2
  <2> QED BY <1>1, <2>2, <2>3, <2>4, <2>5 DEF PlaceInv
<1>4. ASSUME NEW n \in DOMAIN outputs, MakeOutput(n) PROVE PlaceInv'
  <2>1. /\ phase = "make" /\ UNCHANGED <<outputs, time, leg, origin>>
        /\ WriteFrame(n) \/ WriteRestart(file_number[n])
    BY <1>4 DEF MakeOutput, WriteOutput, history
  <2>2. /\ file_number' \in [DOMAIN outputs -> Nat]
        /\ \A m \in DOMAIN outputs : file_number'[m] >= file_number[m]
    BY <1>2, <1>4 DEF MakeOutput
  <2> QED BY <1>3, <2>1, <2>2
<1>5. ASSUME NEW n \in DOMAIN outputs, SkipOutput(n) \/ FinalOutput(n)
      PROVE  PlaceInv'
  <2>1. /\ phase # "down"
        /\ UNCHANGED <<outputs, time, leg, origin, file_number>>
        /\ UNCHANGED disk \/ WriteRestart(-1)
    BY <1>5 DEF SkipOutput, FinalOutput, history
  <2> QED BY <1>2, <1>3, <2>1
<1>6. CASE Step \/ Finalize \/ UNCHANGED vars
  <2>1. UNCHANGED <<outputs, file_number, leg, origin, frames, restarts>>
    BY <1>6 DEF Step, Finalize, vars, schedule, disk, history
  <2> QED BY <1>1, <1>2, <2>1 DEF PlaceInv, OriginTyped, Onward, BeforeFile
<1>7. CASE End
  <2>1. /\ UNCHANGED <<leg, frames, restarts>> /\ origin' = NoFile
        /\ outputs' = <<>>
    BY <1>7 DEF End, disk
  <2>2. OriginTyped' /\ Onward'
    BY <1>2, <2>1
    DEF OriginTyped, NoFile, Scheduled, ListOK, RestartPlace, Onward, LegInv
  <2>3. BeforeFile(origin)'
    BY <1>2, <2>1 DEF BeforeFile, NoFile, Slots, LegInv, FilesTyped
  <2>4. \A r \in restarts' : BeforeFile(r)'
    BY <1>2, <2>1 DEF BeforeFile
  <2> QED BY <1>1, <2>2, <2>3, <2>4 DEF PlaceInv
<1>8. ASSUME NEW r \in restarts, NEW list \in Lists, Resume(r, list)
      PROVE  PlaceInv'
  <2>1. /\ leg' = leg + 1 /\ UNCHANGED <<frames, restarts>> /\ origin' = r
        /\ outputs' = list
        /\ file_number' = [n \in DOMAIN list |-> RestoredNumber(r, list, n)]
    BY <1>8 DEF Resume, disk
  <2>2. /\ Scheduled(r.outputs, r.next_time, r.file_number)
        /\ BeforeFile(r)
    BY <1>2 DEF Types
  <2>3. OriginTyped'
    BY <1>2, <2>1, <2>2 DEF OriginTyped
  <2>4. Onward'
    BY <2>1, <2>2 DEF Onward, RestoredNumber, Slots, Scheduled
  <2>5. BeforeFile(origin)' /\ \A s \in restarts' : BeforeFile(s)'
    BY <1>2, <2>1, <2>2 DEF BeforeFile
  <2> QED BY <1>1, <2>3, <2>4, <2>5 DEF PlaceInv
<1> QED BY <1>4, <1>5, <1>6, <1>7, <1>8 DEF Next

\* What OlderFilesKept says of one step.
KeepsOlder ==
  /\ \A f \in frames : OfTheBase(f) /\ f.pos \in Slots(origin) => f \in frames'
  /\ \A r \in restarts :
       /\ OfTheBase(r) /\ r.name >= 0
       /\ RestartPlace(outputs) = RestartPlace(origin.outputs)
       => r \in restarts'

LEMMA PlaceStep == PlaceInv /\ [Next]_vars => KeepsOlder
<1> SUFFICES ASSUME PlaceInv, [Next]_vars PROVE KeepsOlder
  OBVIOUS
<1>1. UNCHANGED disk => KeepsOlder
  BY DEF disk, KeepsOlder
<1>2. /\ OriginTyped /\ Onward /\ BeforeFile(origin)
      /\ file_number \in [DOMAIN outputs -> Nat]
      /\ origin.file_number \in [Slots(origin) -> Nat]
      /\ \A f \in frames : f.number \in Nat
      /\ \A s \in restarts : s.name \in Int
  BY DEF PlaceInv, OriginTyped, LegInv, FilesTyped, Types, Scheduled, Slots
<1>3. ASSUME NEW n \in DOMAIN outputs, MakeOutput(n) PROVE KeepsOlder
  <2>1. CASE WriteFrame(n)
    <3>1. ASSUME NEW f \in frames, OfTheBase(f), f.pos \in Slots(origin)
          PROVE  f \in frames'
      <4>1. f.number < origin.file_number[f.pos]
        BY <1>2, <3>1 DEF BeforeFile, OfTheBase
      <4>2. f.pos = n => origin.file_number[n] <= file_number[n]
        BY <1>2, <3>1 DEF Onward
      <4>3. ~(f.pos = n /\ f.number = file_number[n])
        BY <1>2, <3>1, <4>1, <4>2
      <4> QED BY <2>1, <4>3, FrameWritten
    <3> QED BY <2>1, <3>1, FrameWritten DEF KeepsOlder
  <2>2. CASE n \in RestartPlace(outputs) /\ WriteRestart(file_number[n])
    <3>1. ASSUME NEW s \in restarts, OfTheBase(s), s.name >= 0,
                 RestartPlace(outputs) = RestartPlace(origin.outputs)
          PROVE  s \in restarts'
      <4>1. n \in RestartPlace(origin.outputs) /\ n \in Slots(origin)
        BY <2>2, <3>1 DEF RestartPlace, Slots
      <4>2. s.name < origin.file_number[n]
        BY <1>2, <3>1, <4>1 DEF BeforeFile, OfTheBase
      <4>3. origin.file_number[n] <= file_number[n]
        BY <1>2, <4>1 DEF Onward
      <4>4. s.name # file_number[n]
        BY <1>2, <4>1, <4>2, <4>3
      <4> QED BY <2>2, <4>4, RestartWritten
    <3> QED BY <2>2, <3>1, RestartWritten DEF KeepsOlder
  <2> QED BY <1>3, <2>1, <2>2 DEF MakeOutput, WriteOutput, RestartPlace
<1>4. ASSUME NEW n \in DOMAIN outputs, FinalOutput(n) PROVE KeepsOlder
  <2>1. CASE WriteRestart(-1)
    <3>1. \A s \in restarts : s.name >= 0 => s.name # -1
      BY <1>2
    <3> QED BY <2>1, <3>1, RestartWritten DEF KeepsOlder
  <2> QED BY <1>1, <1>4, <2>1 DEF FinalOutput
<1>5. CASE \/ \E n \in DOMAIN outputs : SkipOutput(n)
           \/ Step \/ Finalize \/ End \/ UNCHANGED vars
           \/ \E r \in restarts, list \in Lists : Resume(r, list)
  BY <1>1, <1>5 DEF SkipOutput, Step, Finalize, End, Resume, vars
<1> QED BY <1>3, <1>4, <1>5 DEF Next

\* Resuming in place: whatever list a leg is resumed with, it never overwrites
\* a frame or a restart file older than the one it was resumed from.
THEOREM OldFilesStay == Spec => OlderFilesKept
<1>1. PlaceInv /\ [Next]_vars => [KeepsOlder]_vars
  BY PlaceStep
<1>2. Spec => [][KeepsOlder]_vars
  BY <1>1, InitPlace, NextPlace, PTL DEF Spec
<1> QED BY <1>2 DEF OlderFilesKept, KeepsOlder
=============================================================================
