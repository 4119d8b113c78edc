--------------------------- MODULE OutputSchedule ---------------------------
(***************************************************************************)
(* When a run writes which file, over several legs of it: the schedule of  *)
(* each output (next_time, file_number), the schedules a restart file      *)
(* carries, and how a resumed leg takes them over, with its list of        *)
(* outputs edited or not (src/mesh/meshblock.cpp, src/output/restart.cpp,  *)
(* output_type.cpp; the loop of examples/straka.cpp drives them).          *)
(*                                                                         *)
(* Outputs are known by their position in the list.  All legs write to one *)
(* directory.  One block is modelled: all blocks have the same schedules,  *)
(* and how their parts become one file is RestartBundle.                   *)
(***************************************************************************)
EXTENDS Integers, Sequences, FiniteSets

CONSTANTS Lists,     \* the output lists a leg can be started with
          MaxStep,   \* the longest time step
          tlim,      \* bound on the time
          MaxLegs,   \* bound on the legs of a run
          Printed,   \* std::to_string keeps dt \div Printed of a dt
          Writers    \* what the writers of the legs know of keys

Positive == Nat \ {0}

\* dt = 0 stands for "every step", stat for prim_stat or scalar_stat among the
\* variables.
OutputOptions == [type: {"restart", "netcdf"}, dt: Nat, variables: STRING,
                  stat: BOOLEAN]

RestartPlace(list) == {n \in DOMAIN list : list[n].type = "restart"}

\* A leg has one restart output at most: two
\* would write the same files.
ASSUME OutputAssumption ==
  /\ \A list \in Lists :
       /\ list \in Seq(OutputOptions)
       /\ \A m, n \in RestartPlace(list) : m = n
  /\ MaxStep \in Positive /\ tlim \in Nat /\ MaxLegs \in Nat
  /\ Printed \in Positive
  /\ Writers \subseteq {"precise", "legacy", "none"}

VARIABLES leg,          \* how many legs have been started
          writer,       \* the format of the restart files of this leg
          phase,        \* what the leg does
          at,           \* the next output of the loop of make_outputs
          time,         \* current_time
          outputs,      \* the options of output_types
          next_time, file_number, stats,   \* the members of each OutputType
          frames,       \* the netcdf files on disk
          restarts,     \* the restart files on disk
          origin,       \* the restart file the leg was resumed from (history)
          edited        \* some leg was resumed with another list (history)

schedule == <<outputs, next_time, file_number, stats>>
disk == <<frames, restarts>>
history == <<leg, writer, origin, edited>>
vars == <<phase, at, time, schedule, disk, history>>

NoStats == [initialized |-> FALSE, last |-> 0, elapsed |-> 0]

NoFile == [name |-> 0, leg |-> 0, time |-> 0, keys |-> "none", outputs |-> <<>>,
           next_time |-> <<>>, file_number |-> <<>>]

Init == /\ leg = 1 /\ writer \in Writers
        /\ phase = "make" /\ at = 1 /\ time = 0
        /\ outputs \in Lists
        /\ next_time = [n \in DOMAIN outputs |-> 0]
        /\ file_number = [n \in DOMAIN outputs |-> 0]
        /\ stats = [n \in DOMAIN outputs |-> NoStats]
        /\ frames = {} /\ restarts = {}
        /\ origin = NoFile /\ edited = FALSE

-----------------------------------------------------------------------------
(* make_outputs                                                            *)

\* AccumulateStats: the time a statistics output has gathered since its reset.
AccumulateStats(n) ==
  IF ~outputs[n].stat THEN stats[n]
  ELSE IF ~stats[n].initialized
  THEN [stats[n] EXCEPT !.initialized = TRUE, !.last = time]
  ELSE [stats[n] EXCEPT !.last = time, !.elapsed = @ + (time - stats[n].last)]

\* Wrong: what was gathered stays.
KeepStats(n) == AccumulateStats(n)

ResetStats(n) ==
  IF outputs[n].stat THEN [initialized |-> TRUE, last |-> time, elapsed |-> 0]
  ELSE stats[n]

\* A file replaces the one of its name.
WriteFrame(n) ==
  /\ frames' = {f \in frames : ~(f.pos = n /\ f.number = file_number[n])}
               \cup {[pos |-> n, number |-> file_number[n], time |-> time,
                      leg |-> leg, output |-> outputs[n],
                      gathered |-> AccumulateStats(n).elapsed]}
  /\ UNCHANGED restarts

\* The schedules are saved as they are amid the loop: those of the outputs ahead
\* of the restart output moved on, its own and those after it not yet.
WriteRestart(name) ==
  /\ restarts' = {r \in restarts : r.name # name}
                 \cup {[name |-> name, leg |-> leg, time |-> time,
                        keys |-> writer, outputs |-> outputs,
                        next_time |-> next_time, file_number |-> file_number]}
  /\ UNCHANGED frames

WriteOutput(n) == IF outputs[n].type = "restart"
                  THEN WriteRestart(file_number[n]) ELSE WriteFrame(n)

Due(n) == time >= next_time[n]

NextOutput(n, then) ==
  /\ at = n
  /\ IF n = Len(outputs) THEN at' = 1 /\ phase' = then
     ELSE at' = n + 1 /\ UNCHANGED phase

\* One turn of the loop; a crash may come between two turns.
MakeOutput(n) ==
  /\ phase = "make" /\ Due(n) /\ NextOutput(n, "step")
  /\ WriteOutput(n)
  /\ stats' = [stats EXCEPT ![n] = ResetStats(n)]
  /\ next_time' = [next_time EXCEPT ![n] = @ + outputs[n].dt]
  /\ file_number' = [file_number EXCEPT ![n] = @ + 1]
  /\ UNCHANGED <<time, outputs, history>>

SkipOutput(n) ==
  /\ phase = "make" /\ ~Due(n) /\ NextOutput(n, "step")
  /\ stats' = [stats EXCEPT ![n] = AccumulateStats(n)]
  /\ UNCHANGED <<time, outputs, next_time, file_number, disk, history>>

\* finalize: make_outputs with final_write, which netcdf skips.
FinalOutput(n) ==
  /\ phase = "final" /\ NextOutput(n, "done")
  /\ stats' = [stats EXCEPT ![n] = AccumulateStats(n)]
  /\ IF outputs[n].type = "restart" THEN WriteRestart(-1) ELSE UNCHANGED disk
  /\ UNCHANGED <<time, outputs, next_time, file_number, history>>

-----------------------------------------------------------------------------
(* The leg                                                                 *)

Step == /\ phase = "step" /\ time < tlim
        /\ \E dt \in 1..MaxStep : time' = time + dt
        /\ phase' = "make" /\ at' = 1
        /\ UNCHANGED <<schedule, disk, history>>

\* A limit, a signal or a spent redo budget ends the loop.
Finalize == /\ phase = "step" /\ phase' = "final"
            /\ UNCHANGED <<at, time, schedule, disk, history>>

\* The process is gone, after finalize or by a crash at any moment: what is left
\* is on disk.
End == /\ phase # "down" /\ phase' = "down" /\ at' = 1 /\ time' = 0
       /\ outputs' = <<>> /\ next_time' = <<>> /\ file_number' = <<>>
       /\ stats' = <<>> /\ origin' = NoFile
       /\ UNCHANGED <<disk, leg, writer, edited>>

-----------------------------------------------------------------------------
(* _init_from_restart                                                      *)

\* schedule_key_v2 and schedule_key: a file knows an output by the exact
\* cadence, by the printed one, or not at all.
Key(keys, o) == <<o.type, IF keys = "precise" THEN o.dt ELSE o.dt \div Printed,
                  o.variables>>

SameKey(r, o, s) == /\ r.keys # "none"
                    /\ Key(r.keys, o) = Key(r.keys, r.outputs[s])

Slots(r) == DOMAIN r.outputs

\* Outputs that still match the slot of their own position.
Own(r, list) == {n \in DOMAIN list \cap Slots(r) : SameKey(r, list[n], n)}

\* The free slots with the key of output n, and the outputs before n that take
\* one of them first.
SlotsFor(r, list, n) == {s \in Slots(r) \ Own(r, list) : SameKey(r, list[n], s)}
Ahead(r, list, n) == {m \in DOMAIN list \ Own(r, list) :
                        m < n /\ Key(r.keys, list[m]) = Key(r.keys, list[n])}

Before(S, s) == {t \in S : t < s}

\* The slot that output n claims by its key: a set of one slot or none.
ByKey(r, list, n) ==
  {s \in SlotsFor(r, list, n) :
     Cardinality(Before(SlotsFor(r, list, n), s)) =
     Cardinality(Ahead(r, list, n))}

Claimed(r, list) ==
  Own(r, list) \cup UNION {ByKey(r, list, n) : n \in DOMAIN list \ Own(r, list)}

\* Wrong: keys are not tried; a slot of one's own can be taken by another.
ByPosition(r, list, n) == IF n \in Slots(r) THEN n ELSE 0
Greedy(r, list, n) ==
  LET S == {s \in Slots(r) : SameKey(r, list[n], s)} IN
  IF S # {} THEN CHOOSE s \in S : \A t \in S : s <= t ELSE ByPosition(r, list, n)

\* The slot output n gets, 0 if none: its own by key, another by key, in the
\* end that of its position if nobody claimed it.
Match(r, list, n) ==
  IF n \in Own(r, list) THEN n
  ELSE IF ByKey(r, list, n) # {} THEN CHOOSE s \in ByKey(r, list, n) : TRUE
  ELSE IF n \in Slots(r) \ Claimed(r, list) THEN n ELSE 0

\* Wrong: the counter follows the match.
MatchedNumber(r, list, n) ==
  IF Match(r, list, n) > 0 THEN r.file_number[Match(r, list, n)] ELSE 0

\* The counter follows the position, the schedule the match.
RestoredNumber(r, list, n) == IF n \in Slots(r) THEN r.file_number[n] ELSE 0

\* A new output joins the grid of its period.
OnGrid(r, list, n) ==
  IF list[n].dt > 0 THEN r.time - (r.time % list[n].dt) ELSE r.time

\* Wrong: no saved time is used; a time far in the future stays.
Afresh(r, list, n) == OnGrid(r, list, n)
Unclamped(r, list, n) ==
  IF Match(r, list, n) > 0 THEN r.next_time[Match(r, list, n)]
  ELSE OnGrid(r, list, n)

RestoredTime(r, list, n) ==
  LET s == Match(r, list, n) IN
  LET dt == list[n].dt IN
  IF s > 0
  THEN IF dt > 0 /\ r.next_time[s] > r.time + dt THEN r.time + dt
       ELSE r.next_time[s]
  ELSE OnGrid(r, list, n)

\* The next leg reads any restart file, with any list, in the same directory; it
\* makes its outputs before its first step.
Resume(r, list) ==
  /\ phase = "down" /\ leg < MaxLegs
  /\ leg' = leg + 1 /\ writer' \in Writers
  /\ phase' = "make" /\ at' = 1 /\ time' = r.time
  /\ outputs' = list
  /\ next_time' = [n \in DOMAIN list |-> RestoredTime(r, list, n)]
  /\ file_number' = [n \in DOMAIN list |-> RestoredNumber(r, list, n)]
  /\ stats' = [n \in DOMAIN list |-> NoStats]
  /\ origin' = r /\ edited' = (edited \/ list # r.outputs)
  /\ UNCHANGED disk

Next == \/ \E n \in DOMAIN outputs : MakeOutput(n) \/ SkipOutput(n) \/ FinalOutput(n)
        \/ Step \/ Finalize \/ End
        \/ \E r \in restarts, list \in Lists : Resume(r, list)

Spec == Init /\ [][Next]_vars
-----------------------------------------------------------------------------
(* The loops of the code that Match stands for, one after the other over   *)
(* the list: who still has its own slot, who finds another by its key, who *)
(* is left the slot of its position.                                       *)

Start(list) == [match |-> [n \in DOMAIN list |-> 0], claimed |-> {}]

Claims(state, n, s) == [match |-> [state.match EXCEPT ![n] = s],
                        claimed |-> state.claimed \cup {s}]

First(S) == CHOOSE s \in S : \A t \in S : s <= t

OwnTurn(r, list, n, state) ==
  IF n \in Slots(r) /\ SameKey(r, list[n], n) THEN Claims(state, n, n) ELSE state

KeyTurn(r, list, n, state) ==
  LET free == {s \in Slots(r) \ state.claimed : SameKey(r, list[n], s)} IN
  IF state.match[n] = 0 /\ free # {} THEN Claims(state, n, First(free)) ELSE state

PositionTurn(r, list, n, state) ==
  IF state.match[n] = 0 /\ n \in Slots(r) \ state.claimed
  THEN Claims(state, n, n) ELSE state

OwnLoop(r, list) ==
  LET f[n \in 0..Len(list)] ==
        IF n = 0 THEN Start(list) ELSE OwnTurn(r, list, n, f[n - 1])
  IN f[Len(list)]

KeyLoop(r, list) ==
  LET f[n \in 0..Len(list)] ==
        IF n = 0 THEN OwnLoop(r, list) ELSE KeyTurn(r, list, n, f[n - 1])
  IN f[Len(list)]

PositionLoop(r, list) ==
  LET f[n \in 0..Len(list)] ==
        IF n = 0 THEN KeyLoop(r, list) ELSE PositionTurn(r, list, n, f[n - 1])
  IN f[Len(list)]

-----------------------------------------------------------------------------
\* An output with a period is always due within one period of the present,
\* whatever list the leg was resumed with: a shortened period takes effect, no
\* output falls silent (the clamp of _init_from_restart).
NextTimeInReach ==
  \A n \in DOMAIN outputs :
     outputs[n].dt > 0 => next_time[n] <= time + outputs[n].dt

\* Crashes and resumes leave no trace in the files of a run whose list was never
\* edited: file number k of an output, whichever leg wrote it, from whichever
\* restart file, holds the first moment at or after k periods.
FirstAfter(k, output, t) ==
  output.dt >= MaxStep => k * output.dt <= t /\ t < k * output.dt + MaxStep

FilesOnTheGrid ==
  ~edited =>
    /\ \A f \in frames : FirstAfter(f.number, f.output, f.time)
    /\ \A r \in restarts : \A n \in RestartPlace(r.outputs) :
         r.name >= 0 => FirstAfter(r.name, r.outputs[n], r.time)

\* However the list was edited, no two outputs take over one schedule, and an
\* output unchanged at its place keeps its own.
SlotsClaimedOnce ==
  LET slot(n) == Match(origin, outputs, n) IN
  /\ \A m, n \in DOMAIN outputs : slot(m) = slot(n) /\ slot(m) > 0 => m = n
  /\ \A n \in DOMAIN outputs \cap Slots(origin) :
       SameKey(origin, outputs[n], n) => slot(n) = n

\* Match, which says at once which slot an output ends up with, is what the three
\* loops of _init_from_restart compute one after the other.
MatchIsTheLoop ==
  phase = "make" /\ at = 1 =>
  [n \in DOMAIN outputs |-> Match(origin, outputs, n)] =
    PositionLoop(origin, outputs).match

\* The frames of a statistics output tile the time of a leg: each covers what
\* lies between the one before and itself, nothing twice and nothing left out.
StatsTile ==
  \A f, g \in frames :
    /\ f.pos = g.pos /\ f.leg = g.leg /\ g.number = f.number + 1
    /\ f.output.stat
    => g.gathered = g.time - f.time

\* Resuming in place: a frame that the leg of the restart file wrote before that
\* file is never written again, however the list was edited, if the file has a
\* counter for its position; nor is an older restart file of that leg, as long as
\* the restart output stays in its place.
OfTheBase(f) == f.leg = origin.leg /\ f.time < origin.time

OlderFilesKept ==
  [][/\ \A f \in frames : OfTheBase(f) /\ f.pos \in Slots(origin) => f \in frames'
     /\ \A r \in restarts :
          /\ OfTheBase(r) /\ r.name >= 0
          /\ RestartPlace(outputs) = RestartPlace(origin.outputs)
          => r \in restarts']_vars

\* tests/run_restart_inplace_reorder.py: "An in-place resume must never rewrite
\* a frame the base leg already completed".  That fails for those written
\* together with the restart file (README, section 6).
CompletedFramesKept ==
  [][\A f \in frames :
       f.leg = origin.leg /\ f.time <= origin.time /\ f.pos \in Slots(origin) =>
       \E g \in frames' : /\ g.pos = f.pos /\ g.number = f.number
                          /\ g.time = f.time /\ g.output = f.output]_vars
=============================================================================
