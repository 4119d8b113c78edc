# A TLA+ model of snapy

snapy (`src/src/`) is a finite-volume solver for atmospheres. A run is a set of
processes. Each process owns one or several MeshBlocks, advances them with one
thread per block, exchanges ghost zones with neighboring blocks in the same
process or in another one, and agrees with the other processes on every time
step. The numerics are tested elsewhere. This project is about everything
around them: threads, messages, boards, barriers and decisions that many
processes must take alike.

All paths below are relative to the repository, `src/`.

## 1. Inventory

| part | state it keeps | operations | what must hold |
|---|---|---|---|
| block worker pool (`src/mesh/mesh.cpp` 70-201) | `generation_`, `remaining_`, `func_`, `error_`, `stopping_` under a mutex, two condition variables | `submit`, `stop`, `run_loop` | a job is run once by each worker; `submit` returns when all have finished, with an error of this job exactly when one occurred |
| process-local exchange (`src/layout/layout.cpp` 129-475) | per key: generation, arrivals, releases, ready, error; registry of layouts | `_prepare_local_exchange` and both its waits | all blocks of a process copy from each other's *current* buffers, share one outcome and leave a clean state |
| message tags (`layout.hpp` 150-170, `layout.cpp`) | none | `get_buffer_id`, `make_comm_tag`, tags of variables, of hydro messages, of column pieces | two messages in flight never share a tag; tags fit an `int` |
| slab and cubed layouts (`slab_layout.cpp`, `cubed_layout.cpp`, `connectivity.*`) | `rankof`, `coords` | `rank_of`, `loc_of`, `neighbor_rank`, plan of an exchange | neighbors are mutual, each ghost zone is filled once, each message meets a receive |
| ghost zones of a mesh (`apply_boundaries`, `exchange_ghost_zones`, `part` in `meshblock.cpp`; `bc/bc_func.cpp`; `fill_corners`) | boundary functions a block keeps, ghosts of its fields | boundary functions, exchange, corners, boundary functions of x1 again; the gravity-work fixer in between | however the mesh is divided, the ghosts a stage reads hold what one block would hold there |
| halo exchange (`meshblock.cpp` 553-594, 905-975; `layout.cpp` 477-775) | cached buffers, pending works, messages in the transport | serialize, meet, post, wait, deserialize | data is of this exchange although processes drift apart |
| x1 column relay (`hydro.cpp`, `hydro_forward.cpp`, `layout.cpp` 849-975) | two boards per process, messages | take and pass the anchor, rows across seams, fluxes across processes | every value is of this stage, none is lost, nobody waits for ever |
| x1 column gather and repair (`layout.cpp` 777-846, `equation_of_state.cpp` 252-312, `eos/fix_vapor_impl.h`) | a board per column, messages, clouds and vapor | `gather_x1`, `repair_column`, `fix_vapor` | all blocks repair the same column, so that all or none throw; no water is lost or made up |
| time loop (drivers in `examples/`, `mesh.cpp` 306-503, `meshblock.cpp` 996-1276) | cycle, time, step; per block: cycle, redo count, saved state, fixer energy | choose a step, advance, `check_redo`, outputs, `finalize` | one decision on all processes; rejected steps leave no trace; every run ends |
| signals (`utils/signal_handler.cpp`) | three flags, one instance per process | handler, `CheckSignalFlags`, `GetSignalFlag`, `GetInstance`, `Destroy` | a signal to one process ends the run on all |
| restart files (`output/restart.cpp`, `combine_restart.cpp`, `read_restart_file.cpp`) | part files, bundles, `combine_counts` | write, combine, read | what a run can resume from is one moment of one run; a crash costs one file at most |
| output schedule (`make_outputs`, `_init_from_restart`) | `next_time`, `file_number` of each output | write, save, match with a saved list | no output falls silent, no file is lost or written at a wrong time, whatever crashed and however the list was edited |
| cubed-sphere layout (`cubed_sphere_layout.cpp`, `cubed_sphere_constants.h`, `cubed_sphere_utils.hpp`) | as the other layouts, six panels | neighbor across a panel edge, exchange in two rounds, exchange of face states across seams | a strip arrives the right way round, with velocities in the components of its panel; both sides of a seam solve the same Riemann problem |
| statistics of an output (`output_type.cpp` 262-330) | last time, elapsed time, sums | accumulate, reset | the frames of a leg tile its time |
| process groups (`layout/process_group.cpp`) | cache by key, store, backend | create, send, recv, collectives, shutdown | one group per key, alive while used |
| numerics (hydro, eos, riemann, recon, implicit, forcing, scalar, turbulence, sedimentation, coord, bc) | fields | kernels | out of the scope of a model checker |
| input, python bindings, diagnostics, helpers | - | parsing, forwarding, sums | sequential |

How they interact. A driver runs the time loop. Every stage is a job of the
worker pool (`run_block_jobs`), so that inside a process the blocks run
concurrently and meet in the rendezvous of `_prepare_local_exchange`, on the
boards of the column relay and on the boards of the column gather. Between
processes there are messages, known to the receiver by the pair of processes
and a tag, and collectives, which pair calls by their order alone. No process
waits for others at the end of a stage; only the halo exchange and the
collectives hold them together.

What is hard here: threads that leave a meeting while others still test its
condition; a fast process that is one exchange or one stage ahead; messages of
successive exchanges under one tag; errors thrown by one of several threads that
the others wait for; decisions taken from local data that all processes must
share; counters that are rolled back; signals at any moment. `PROJECT.json`
lists these as hazards at their lines, with the properties that cover them.

## 2. Modules

The models keep the control and abstract the data. Most often a datum is the
number of the job, exchange, stage or call it was made for, so that "fresh data"
is an equation between numbers.

| module | models | abstract specification |
|---|---|---|
| `BlockWorkerPool` | the pool: every critical section an action, sleeping and spurious wakeups explicit | `ForkJoin`: a round is opened, completed once by each worker, and joined |
| `LocalExchange` | the rendezvous of a process, with the errors of each phase and the layout registry | `Rendezvous`, one instance per key: blocks enter, one meeting, all leave |
| `Tags`, `CommTag` | buffer numbers and all tags one process sends another | - |
| `CartesianLayout` | slab and cubed layouts and the plan of an exchange (uses `Tags`) | - |
| `MeshStage` | the ghost zones of a mesh from its construction through the stages of a step: boundary functions, what an exchange puts where, corners, fixer (extends `CartesianLayout`) | `OneMesh`, the same mesh as one block |
| `GhostExchange` | the exchange of all blocks of all processes | `HaloExchange`: exchange n fills the ghosts with what neighbors packed for n |
| `ColumnRelay` | the column messages of a hydro stage | `ColumnScan`: the column is computed from the top down, then rows cross the seams |
| `ColumnRepair` | `fix_vapor` on one column | what it must keep: the mass of the column |
| `ColumnGather` | the gather of a column for the repair of its clouds and of its vapor (uses `ColumnRepair`) | - |
| `TimeLoop` | the loop of all processes with its collectives, redo, signals, restart files and `finalize` | - |
| `OutputSchedule` | the loop of `make_outputs`, the schedules a restart file saves, and how a resumed leg matches them with its list | the loops of the code against the set-based `Match` (`MatchIsTheLoop`) |
| `RestartBundle` | parts, barriers, bundle, removal and reading, with crashes, failing writes and leftover parts | - |
| `CubedSphere` | tables and operators of the cubed sphere, and the geometry they stand for | `CellAt`, a folded cube, from `cs_face_xyz_from_tan` alone |
| `PanelExchange` | a stage on the cubed sphere: exchange in one or two rounds, exchange across seams (uses `CubedSphere`, `Tags`) | - |
| `MC_*` | constants for TLC | - |
| `*_proofs` | theorems, see section 5 | - |

The models build on each other without repeating each other. `GhostExchange`
takes the meeting of a process as one step, because `LocalExchange` implements
`Rendezvous`; its plan of transfers is computed by `CartesianLayout`
(`MC_GhostExchange`). In `TimeLoop` a stage is one step of a process, because
the pool is a `ForkJoin` and the exchanges complete. `RestartBundle` takes the
joint decisions of `TimeLoop` as one step, `OutputSchedule` a bundle as one file,
and `PanelExchange` the meeting of a process as one step.

Correspondence with the code, module by module:

* `BlockWorkerPool`. `generation`, `remaining`, `func`, `error`, `stopping` are
  the members of the class; `cpc` and `wpc` are where the caller and the workers
  are; `seen` is `seen_generation` of `run_loop`. `Submit` is the block under the
  lock, `NotifyJob` the `notify_all` after it, `Take`, `Succeed`/`Raise`,
  `Catch`, `Finish` the loop of a worker. A notification wakes only those already
  asleep.
* `LocalExchange`. `generation`, `arrived`, `released`, `ready`, `error` are
  `LocalExchangeState`. The last block to arrive (`Lead`) copies link by link;
  `WaitReady`, `Release`, `WaitGone` are the waits and the departure. CUDA events
  are left out, but the mutex is dropped where a CUDA build drops it, which
  includes the CPU build's behaviors. `WriteSuperResolution` is the second
  MeshBlock made for an output, with its constructor and destructor.
* `CartesianLayout`. `Init` ranges over every option set within the bounds;
  `Initialize` builds the Z-order ranks and `Reset` the boundaries a block keeps.
  The plan (`RemoteOps`, `LocalCopies`, `SelfCopies`) is a function of the state.
* `MeshStage`. `u` is `hydro_u` of each block, a value the set of what it was
  computed from: a cell of the mesh, a version, and which walls have reversed or
  radiated it. A phase is one step of all blocks, for the pool joins them and an
  exchange of blocks that drift delivers the same (`HaloExchange`).
  `ApplyBoundaries` goes through the faces as the code does, `pending` and `w`
  are its `pending_faces` and `w`; `Start` is `MeshBlockImpl::part`. A block that
  is alone in its process runs the fixer inside `AdvanceLocal`, others after it
  (`FixGravityWork`, with its second call of the boundaries). The cells that
  `AdvanceLocal` computes are new, its ghosts anything (`Unset`).
* `CommTag`. A message is a record of what its tag is computed from; `inflight`
  is the set of messages between two processes.
* `GhostExchange`. `pc`, `round` per block; `send_bufs` by kind; `sends`, `recvs`,
  `net` are posted operations and messages per transfer, and a transfer stands for
  a tag. `Depart` and `Arrive` are the transport.
* `ColumnRelay`. Two boards (`post_to_local_block`), messages
  (`send_to_block`), `Timeout` is the five-minute limit of `take_from_local_block`
  and `take_x1_anchor`.
* `ColumnGather`. `board` is `ColumnBoard`. Waits on its condition variable are
  guards, as each change that ends a wait is followed by `notify_all`. `cons` is
  the column cell by cell, `Call` with `Borrowed` and `RepairRain`, `RepairVapor`
  are one `apply_conserved_limiter_`. `ColumnRepair` has the scan of `fix_vapor`
  as a recursion over the top of what is left, and its two loops, which stop when
  a sum is covered, as the sets and sums where they stop. Cells hold whole
  numbers, in units for which the divisions of the inputs are exact.
* `TimeLoop`. `offer` and `answer` are the process group: a collective completes
  when every process has made a call, whatever its purpose, which is how the
  backends pair them. The state of a block is `<<t, s>>`: advanced to time t and
  s stages beyond. `hits` is what a block finds in `local_redo_flags`; it may be
  anything. `heard` is a history variable. The stop test (`pintg->stop`) belongs
  to a library and is modelled from its use. `handler` is `mysignal_`:
  `WriteSuperResolution` drops the second MeshBlock, whose destructor calls
  `Destroy`, and `GetInstance` in `CheckRedo` and `Report` makes a new instance,
  with clear flags.
* `OutputSchedule`. A leg is one process life. `MakeOutput` and `SkipOutput` are
  one turn of the loop of `make_outputs`, so that a crash (`End`) falls between
  any two files of a moment. `WriteRestart` saves the schedules as they are in
  the middle of that loop. `Resume` is `_init_from_restart`: `Own`, `ByKey` and
  the rest of `Match` say at once what its three loops find turn by turn
  (`OwnLoop`, `KeyLoop`, `PositionLoop`), `RestoredTime` is the clamp,
  `RestoredNumber` the counter, which follows the position. `Writers` are the
  three formats a file may have (exact keys, printed keys, none). Times are
  whole numbers; `Printed` is what `std::to_string` loses.
* `RestartBundle`. `OpenPart` and `ClosePart` are `write_output_file`; `Barrier`
  pairs calls by order alone, wherever they come from; `Glob` to `Cleaned` are
  `combine_blocks` of the root, each write and removal a step of its own;
  `BundleFails` is the `catch` that rethrows after the second barrier. `held` is
  a history variable.
* `CubedSphere`, `PanelExchange`. `Program` is the order of the calls of a stage.
  A value is the set of what it was computed from: cell, stage, velocity.
  `Oriented` is what `serialize` does with its three flags, `Between` the two
  cells of `cs_build_ghost_usrc`, `Part` the bounds of `MeshBlockImpl::part`.

## 3. Runs

Deadlock is checked in all runs but three. In `local_exchange` a block that threw
before the meeting leaves the others waiting: that is what the code does, and
`EveryoneReturns` says exactly when. In `output_schedule` and `restart_bundle`
the last leg may be down for good.

| run | instance | shows |
|---|---|---|
| `worker_pool` | 3 workers, 2 jobs, any worker may throw, the pool may stop at any time | no stale, repeated or lost job (`OnlyTheCurrentJob`), the join (`JoinedWhenIdle`), errors reach the caller of their job, `submit` returns, the pool implements `ForkJoin` |
| `local_exchange` | 3 blocks, 2 keys, 2 jobs of 3 exchanges, failures while serializing, copying or looking up | `MeetingKept`: fresh data, the copy is alone, one outcome for all, a clean state for the next job; everyone returns unless a block threw before the copy; `Rendezvous` is implemented |
| `message_tags` | 2 blocks per process, extreme phyids and variables, 2 messages in flight | no two messages share a tag, tags fit, hydro tags stand out in the low 16 bits |
| `cartesian_layout` | every layout up to 12 blocks, 4 a side, all periodicities, every blocks-per-process, every `dim` and `skip_corner` | mutual neighbors; `PlanAgrees`: ghosts filled exactly once, only packed buffers used, messages pair up; the order of messages between two blocks agrees at both ends; up to 6 blocks, as columns, planes and boxes with ghost zones 1 and 2 wide and four sets of walls, over 2 stages: the ghosts are those of one block of the whole mesh (`AsOneMesh`) |
| `ghost_exchange` | a ring of 6 blocks on 3 processes, 3 exchanges with the same buffers and tags | `RoundsStayApart`: ghosts are fresh, buffers are stable while sent, messages meet their own receive, at most two in flight per tag; all completes; `HaloExchange` is implemented |
| `column_relay` | a column of 4 blocks on 2 processes, 3 stages, block 2 may throw | `RelayInStep`: values of this stage only, no anchor lost; everyone finishes, fails or waits for one that failed; `ColumnScan` is implemented |
| `column_gather` | a column of 2 + 1 blocks of 2 cells of uneven volume and density, two limiter calls with two gathers each, six ways to drain it, failing transport for block 1 | `RepairedAsOne`: the same column everywhere, all throw or none and only when there is less vapor than none, no water lost or made up in any repair; everyone returns |
| `time_loop` | 2 processes of 1 or 2 blocks, 2 stages, up to 2 redos, limits of cycles and time, a restart file every second step, a signal to process 1 at any time, outputs with super-resolution that destroy the signal handler | collectives match and processes agree (`OneDecision`), state, cycle and fixer energy balance after redos (`BooksBalance`), a signal stops everyone, every run ends |
| `output_schedule` | 5 lists of outputs, with reordered, retimed, dropped, added and doubled ones; time up to 4, steps of 1 or 2, 2 legs, a crash anywhere, three formats of restart files | outputs stay due within a period, files stay on the grid of their period through crashes, no slot is claimed twice, the loops match as `Match` says (`MatchIsTheLoop`), statistics tile time, older files survive an edited resume |
| `restart_bundle` | 1 or 2 processes of 1 or 2 blocks, 2 or 3 legs, 2 failing writes, a leftover part of a larger run, a crash anywhere | what can be loaded is one moment (`OneMoment`), the barriers pair and hold (`BarriersHold`), one file at risk at a time, everyone returns |
| `panel_exchange` | panels of 1, 4 and 9 blocks, 1 or 2 ghost zones, blocks spread over 1, 2, 3, 4, 6 and 24 processes, 2 stages; every interleaving for six blocks on three processes | ghosts are the cells that lie there on the sphere, with turned velocities (`GhostsHold`), of this stage; both sides of a seam have the same two states; nobody waits for ever |

One run, `final_output`, ends in a violation; section 6 explains it.

Bounds, and why they are enough. Three threads are the least at which one leads,
one waits and one is late. Two jobs, three exchanges and three stages let the
next round and the one after it overlap with the first; with one buffer kind the
second exchange reuses the buffers of the first. Six blocks on three processes
form a ring in which the skew between processes can add up (two processes could
not show it). A column of four blocks over two processes has all three kinds of
neighbor: none, local, remote. In the layouts four blocks a side include an axis
of one block (its own neighbor when periodic), of two (one neighbor twice) and
of three and four. Two redos let the budget be kept, used and exceeded; the step
is set by process 1 at first and by both later.

Six blocks are three along an axis and two along another: blocks with a
neighbor on both sides, on one and on none, corners between walls, between
neighbors and between one of each. The second stage finds in the ghosts what the
first left, and two stages are enough for the fixer to run after one of them only.

Two legs with any two lists are every edit once; the second leg starts from any
file of the first, and an edit acts through what that file holds. A third leg is
left to the proofs, which have no bound (section 5). Time 4 is two periods of the
fast output and one of the slow one, with a step of 2 skipping a moment. Two
failing writes are one for a part and one for the bundle, or both in one leg. A
third leg in three of the four sizes can resume from a file that the second one
was about to replace. Panels of one block take the exchange in one round; of
four and nine in two, nine with a block that has no panel edge; strips of one and
two cells, of even and odd length, tell the middle of an edge apart. The sizes
that are not interleaved move the block that is furthest behind, for what a strip
looks like does not depend on the order; that the order does not matter is
checked for the first size.

## 4. Fairness and assumptions

* Weak fairness of each thread's next step: the operating system runs threads
  that can run. Spurious wakeups, signals and failures are not fair.
* The transport delivers messages of one pair of processes and one tag in order
  and, as long as both ends live, eventually; a send is complete at the latest
  when its message is received. gloo and the UCX backend are used that way.
* The five minutes of a wait on a board do not expire while all blocks of the
  column run (`ColumnRelay`).
* Collectives pair calls by order. A process group of one process is the same
  model with one member.
* `RestartBundle`: weak fairness of each process, of the root in the bundle, of
  the barrier, and of `Stop`, the launcher that ends a run of which a process is
  lost (`torchrun` and `mpirun` do; the code relies on it). Crashes, failures and
  resumes are not fair.
* No property of liveness uses strong fairness.

## 5. Proofs

`tlapm` checks these for every value of the constants.

* `MeshRun_proofs`, about `BlockWorkerPool` (which has names of its own for what it
  needs, so that one module can extend it and `TimeLoop`), for any finite set of
  workers and any number of jobs: `PoolTypeCorrect` (with it, `remaining_` never
  underflows), `Joined`, `CurrentJob`,
  `ErrorsReported`, `FirstErrorStays`, and `PoolIsForkJoin`, the step simulation
  of `ForkJoin`. None of the invariants is inductive: that the caller finds
  `remaining_ = 0` tells nothing by itself. `PoolInv` says what the counters mean:
  `remaining_` is the cardinality of `Pending`, the workers that have not taken
  or not finished this job; no worker is more than one job behind; `error_` is set
  once any worker that threw has left its handler. `PoolSteps` has one step per
  action.
* `Layout_proofs`, about `CommTag`, `CartesianLayout` and `MeshStage`, which have
  names of their own for what they need so that one module can extend all.
  * Tags, for up to 16 blocks per process, any phyid below 64 and any variables but
    number 256: `TagsAreUnique` (`TagsTellApart`), `TagsFitAnInt` (`TagsFit`),
    `HydroTagsApart` (`HydroTagsStandOut`). The argument reads a tag as digits: the
    low 16 bits are phyid, block and buffer, or a hydro tag that no exchange can
    have; the rest is the variable, or the pair of blocks, or lies above 2^24 for a
    column.
  * Layouts, for every slab or cubed layout of up to 8 blocks a side (as far as the
    Morton codes of the model reach; the run has 4 a side and 12 in all), any
    periodic axes and any spread over processes: `PlansAgree` (`PlanAgrees`) and
    `OrderIsKept` (`OrderMatches`). Morton codes differ within the box, so the
    places below a place number it without gaps, also when the box is no power of
    two (`ZOrderRanks`). A step along an axis and back ends where it began
    (`WrapBack`), and where a boundary function stands there is no neighbor
    (`PhysicalIsOutside`), so that packing, copying, sending and unpacking take part
    in the same buffers (`BuffersOf`, `HereCopies`, `Ops`), and a message meets the
    receive of the block and buffer it is for and no other (`MeetsItsReceive`). Two
    ways to one neighbor are the two directions of a periodic axis of two blocks,
    whose ends go through them in opposite orders (`SameTurns`).
  * `PlansSuitTheExchange`: the transfers of any such layout are what
    `PlanAssumption` of `GhostExchange` asks of a plan, so that
    `GhostExchange_proofs` speaks of all of them.
  * Ghost zones of a mesh, for any such layout, blocks of any size that holds its
    ghost zones, any boundary functions that fit, any number of stages:
    `GhostsAreOfOneMesh` (`AsOneMesh`). `Whole(g, version)` is what one block of the
    whole mesh holds at `g`, `Right(r, v, c, version)` that block `r` holds it at
    `c`. The radiating faces that `apply_boundaries` puts off do not show: what the
    next function would find is the same as if each had been committed at once
    (`FaceShown`, `BoundariesInTurn`). What a function does at the end of a block is
    what the end of the whole mesh does (`AtWall`), so it is right about a ghost if
    it is right about the cell it reads (`FaceRight`), which is in fewer ghost zones
    (`BehindOurs`); six functions in turn (`TurnRight`) make all ghosts right whose
    faces have functions. A neighbor sends the cell that lies there, across a
    periodic axis too (`PartnerRight`). That leaves the corners between a wall of x1
    and an exchanged face, for which the functions of x1 are called again, each on
    such corners only (`AgainKeeps`, `RefreshedRight`). `StageInvariant` is the
    inductive invariant: before an exchange only the ghosts between walls are right
    (`Filled`), and in the phase of the fixer none needs to be.
* `LocalExchange_proofs`, for any number of blocks, keys, exchanges and jobs, any
  links and wherever a block throws: `EveryMeetingIsKept` (`MeetingKept`) and
  `EveryKeyIsAMeetingPlace` (`ImplementsRendezvous`, the step simulation of
  `Rendezvous` for every key). The argument: all blocks have the same number of
  meetings behind them (`Together`), because the last one to be released ends a
  meeting for everybody in one step, by the change of generation. A block that has
  left is still at that exchange or at the start of the next, where no copy can
  begin without it, for `arrived` counts the blocks in the meeting and `released`
  those it has still to release (`KeyOK`). So whoever copies, or calls the meeting
  off, is alone (`LeadsAlone`), and the links it has done hold current data
  (`CopyOK`), which nobody overwrites before all have taken it (`TakesOK`). An
  exception of the copy is everybody's, which needs `AllThrow`: the one that has
  left with it has not left alone. `NextStep` proves invariance and simulation
  together, one lemma per action.
* `GhostExchange_proofs`, for any mesh, any spread of its blocks over processes,
  any plan that satisfies `PlanAssumption`, any number of kinds and exchanges:
  `RoundsNeverMix` (`RoundsStayApart`) and `ProcessesDoNotShow` (`ImplementsHalo`,
  the step simulation of `HaloExchange`). The invariant `GInv` counts, for each
  transfer, what the sender has handed to the transport (`Sent`) and what the
  receiver has taken from it (`Received`): the messages under way are exactly
  those between the two, in order (`NetOK`); a block has at most its own exchange
  posted, because `finalize` waits for the works before the next (`PostsOK`); the
  blocks of a process have met equally often (`Together`); a buffer holds what
  its count says (`PackedOK`, `DeliveredOK`). That at most two messages of a
  transfer are under way follows from the transfer in the opposite direction
  (`Balance`, `Opposite`): the sender cannot be further ahead than its own receive
  lets it be. `NeighborsStayClose` (`NeighborSkew` of `HaloExchange`): no block has
  completed an exchange that a neighbor has not packed for, so that none is more
  than one exchange ahead of another.
* `ColumnRelay_proofs`, for any number of blocks, owners and stages and wherever a
  block throws: `StaysInStep` (`RelayInStep`) and `RelayIsScan` (`ImplementsScan`,
  the step simulation of `ColumnScan`). A stage is thirteen steps of a block;
  `RInv` says that there is a count of those each block has done with which all
  that is on a board or in a message is what has been put and not yet taken, in
  order, and on a board at most one piece. It is an existential because a block
  that threw no longer tells where it was. That an anchor board is free when
  `pass_x1_anchor` writes on it follows from the rows of the stage before, which
  came the other way.
* `MeshRun_proofs`, about `TimeLoop`, for any processes and blocks, any limits and whatever breaks
  the steps: `DecideAsOne` (`OneDecision`), `RedoLeavesNoTrace` (`BooksBalance`),
  `SignalStops` (`SignalStopsTheRun`). Collectives pair by order alone. What a
  process does from one to the next is determined by the last answer and by
  numbers that all share, so `Bound(p, e)` can say in which collective, at which
  cycle, time, step, number of redos and time of the next file it will be next;
  `Together` says that one e is right for all. The books (`Books`) tell the state
  of each block from the place of its process, in a redo also before the rollback;
  for the signal, `Obeyed` and `Waits` relate what was heard at a check to the
  answer of the reduction.
* `OutputSchedule_proofs`, for any lists, steps and number of legs:
  `OutputsStayInReach` (`NextTimeInReach`), `FilesStayOnTheGrid`
  (`FilesOnTheGrid`), `NoSlotClaimedTwice` (`SlotsClaimedOnce`), `LoopsMatch`
  (`MatchIsTheLoop`), `StatisticsTile` (`StatsTile`) and the action property
  `OldFilesStay` (`OlderFilesKept`). The first is
  inductive with the types of the schedules in memory and on disk: a restart file
  may hold any schedule at all, the clamp brings it within reach. The second needs
  what a schedule means while the list is not edited: `next_time` is `file_number`
  periods and less than a step behind, and ahead once the loop has passed the
  output; a restart file, saved in the middle of the loop, holds schedules of both
  kinds, and they are right for a loop that starts over. The third is about the
  match alone: an output that claims a slot by key is the k-th of those that want
  it and takes the k-th free slot, so that two with one key have different k
  (`KeysClaimOnce`). The fourth says where each loop has come after k turns
  (`OwnAfter`, `KeyAfter`, `PositionAfter`). Each turn takes one such state to the
  next, so the recursive function that is the loop exists and is it, turn by turn:
  an induction by the least turn that differs (`Least`, `TurnByTurn`). The turn of
  the second loop rests on counting: as the outputs of one key ahead of n have
  0, 1, 2, ... of their key ahead of them (`AheadTaken`), they have taken the first
  free slots of that key, and the first that is left is the one of n (`FirstFree`).
  The last two rest on what a leg knows of its own files: their
  numbers are those its outputs have left behind (`LegInv`). For the statistics,
  what an output has gathered begins at its last frame (`Gathering`). For the
  older files, a restart file saves counters beyond the files of its leg that are
  older than it (`BeforeFile`), and a resumed leg never goes back behind the
  counters of its file (`Onward`).
* `RestartBundle_proofs`, for runs of any size, any number of legs, crashes and
  failing writes: `OneMomentHolds` (`OneMoment`), `BarriersWork` (`BarriersHold`),
  `OneFileAtRisk` (`OneAtRisk`). The barriers keep the processes in stages
  (`Stages`): all write, or wait while the root combines, or are back. When the
  root gathers the parts of a name, those of all ranks are whole and just
  written, for each has replaced what a crash left under its name (`PartsWait`,
  `PartsUnique`); so a bundle is of one moment as far as its index says anything
  (`BundlesOfMoment`), and until the second barrier only the files of the present
  name are incomplete (`RootList`, `Risk`).
* `PanelExchange_proofs`, for panels of one to four blocks a side, blocks and ghost
  zones of any width that fits, any spread over processes, any number of stages and
  every interleaving: `GhostsOfTheSphere` (`GhostsHold`), `GhostsAreFresh`
  (`GhostsFresh`), `SeamsAgree` (`SeamStatesAgree`), `NobodyWaits`
  (`NobodyWaitsForEver`). The argument has three parts.
  * The tables are a cube. `Beside` is the cell beside an edge as the table of edges
    has it, `CellAt` the one of the folded cube; they are the same for each of the
    24 edges and any number of cells (`TableIsGeometry`). Neighbors across an edge
    see each other through opposite entries (`Plan`), so that the offset each works
    out for the other is right and a message has one receive (`Paired`). A strip,
    reversed, flipped and transposed, lies in the buffer where the receiver reads
    it, and its velocities have the components of the receiver once turned twice
    (`TurnedBothWays`). The margin of a strip reaches every cell an interpolation
    reads (`Places4`).
  * `ControlInv` says how far a run is. `Step` numbers the steps of a stage as for
    divided panels. A block has sent and taken so many messages of a channel by
    stage and step (`SentBy`, `TakenBy`), and the channel is as long as the
    difference; the blocks of a process have been at equally many launches
    (`Together`). Of all blocks the one that is furthest behind can go on: whoever
    it waits for has sent what it waits for (`SentBefore`), and the blocks of its
    process are at the same launch (`Progress`).
  * `DataInv` says what is where. What a block has received holds from the round on
    that brought it until it advances (`HasCells`): first the block, then the ghosts
    on the panel, then those across its edges and the corners. A packed buffer is
    what the neighbor is to have beside its edge (`Sends`), a copied one what this
    block is (`Receives`), and the n-th message of a channel is that of the stage and
    round that n stands for (`Carries`, `Number`): in a channel across an edge the
    odd ones are ghosts and the even ones states of the seam, and a block that is
    behind may have both waiting. The second round of a divided panel packs cells
    that the first one brought, which is why `OwnPanel` is in the invariant.

Only model-checked:

* `RepairedAsOne`: the column is drained by `ColumnRepair`, a recursion, and the
  provers cannot see through one.
* Everything about liveness or `ENABLED`, fairness included: `EveryoneReturns`
  and its like. The simulations of abstract specifications are proved step by
  step, their fairness is left to the runs.

## 6. Where code and text disagree

`final_output` ends in a violation. When `check_redo` returns -1 the step has been
taken but is neither rolled back nor added to the time. The final output and the
final restart file, written with the state of time + dt, say time; a run resumed
from it takes the step twice. This happens on every signal.

Also met; the first four can be seen with a definition that is in the modules but
in no run:

* `~LayoutImpl` erases the registry entry of its place whoever holds it. Writing
  a super-resolution output builds and drops a second MeshBlock, which takes the
  entry of the real one away; the next exchange fails the check at
  `layout.cpp:144` and the other blocks wait for ever (`RegistryComplete`, with
  the instance of `local_exchange`).
* `CheckSignalFlags` reduces the flags but does not write them back, so processes
  that did not get the signal report "Terminating abnormally" and return 1
  (`NormalEndIsReported`, with the instance of `time_loop`).
* `~MeshBlockImpl` destroys the signal handler of the process
  (`meshblock.cpp:92`), also when it is the second MeshBlock of a super-resolution
  output. The next use makes a new one with clear flags. A signal caught since the
  last check is forgotten, although `signal_handler.cpp:62` says the check returns
  true if any was caught, and after a final output of that kind a run that a
  signal ended reports "Terminating abnormally". `SignalStopsTheRun` is about
  signals that are still known at the check.
* `MeshBlock::initialize` installs the handlers but `MeshBlock::check_redo` never
  reads the flags: a loop over a MeshBlock (`examples/run_hydro.cpp`) swallows
  SIGTERM, SIGINT and SIGALRM (`SignalStopsTheRun` with `ChecksSignals = FALSE`).
* `tests/run_restart_inplace_reorder.py:2` says that an in-place resume never
  rewrites a frame the base leg completed. A frame that is written together with
  the restart file but after it in the list is due again on resume; after a swap
  of two outputs it is written at another output's position, over the frame of the
  same number there (`CompletedFramesKept` with `Lists <- const_Swapped` and
  `Writers = {"precise"}`).
* Names of restart files do not carry the position of their output, so a restart
  output that moves in the list goes on with the counter of its new position, and
  may overwrite older restart files.
* A restart file does not hold statistics: the first frame of a resumed leg covers
  the time since the resume, while `docs/user_guide/output.rst:101` promises
  statistics "over each output interval".
* An output edited from `dt = 0` to a period is due at every step until its saved
  `next_time` has caught up. A list that is shrunk and grown again numbers the new
  output from 0 and overwrites its earlier files.
* Resuming from `NNNNN.restart` writes that file again at once; a crash while it
  does leaves neither the old nor the new one (`OneAtRisk` counts it as the one).
* File numbers are printed into 6 bytes (`netcdf.cpp:100`, `restart.cpp:65`): from
  100000 on the name is cut to five digits, while `combine_restart.cpp:78` looks
  for six.
* A redo budget spent in the last allowed cycle is reported as "cycle limit" with
  status 0 (`mesh.cpp:472`).
* `CoordinateOptionsImpl::from_yaml` refuses blocks with fewer cells than ghosts
  ("Number of x1 grids must be greater than the ghost zone size",
  `coordinate.cpp:166-179`), but looks at `nx1()` to `nx3()` before `repartition`
  (line 182) sets them: they are still 1, and the test never fails. Such a block
  sends its own ghosts to its neighbors (`AsOneMesh` with
  `Shapes = {<<4, 2, 1, 3>>}`, without the second part of `StageAssumption`).
* Exchanges skip corners, and no caller asks for them. Corners of x2 and x3 are
  means of the strips beside them, those of x1 and another axis at a face behind
  which there is a block are never filled, and a radiating wall of x1 leaves its
  corners with exchanged faces a stage old. With viscosity `DiffusionImpl::forward`
  reads them (`diffusion.cpp:457`, `522`), so that a viscous run depends on how the
  mesh is divided, although `docs/user_guide/mixed_parallel_strategy.rst:342-345`
  says that decompositions "behave like the same algorithm". `AsOneMesh` claims
  the corners along the other walls of x1, which the code keeps right.
* Tags of `gather_x1` are "above exchange tags" up to variable 255 only
  (`layout.cpp:809`); no exchange passes that many.
* The user guide (`docs/user_guide/mixed_parallel_strategy.rst:118-121`) says that
  runs which split x1 across processes and own several blocks each are refused,
  and they are not.

Tried and found harmless or of use when the code changes: if the two directions of
a seam were launched and awaited one after the other (`OneByOne`), nobody would
wait for ever, but a copy inside a process would reach buffers of the previous
stage or just reset ones. `skip_corner(false)` is passed by no caller, and
`_interpolate_to_local` is never called.

## 7. Not modelled

Process groups: a thin layer over gloo, UCX or a group given from outside; their
collectives and messages are the transport of the models, and their cache by weak
pointer is not modelled. Numerics, coordinates and solids are floating-point
kernels without shared state; of the boundary functions `MeshStage` has what they
read and write. It has no custom functions and no tracers, which are filled beside
the fields they ride on. `MeshBlock::forward`, which exchanges before a stage
instead of after it, alternates the same phases; input parsing and python bindings are sequential; gloo is a
library. Two threads that make the first SignalHandler at once would make two
(`signal_handler.cpp:55`); the drivers make it from one thread, and so does
`TimeLoop`. CUDA streams and events are left out everywhere.

## 8. Plan

Done, in this order: pool, local exchange, tags, layouts, halo exchange, column
relay, column gather, time loop, output schedule, restart bundle, cubed sphere,
ghost zones of a mesh; then the proofs of section 5.

What a next step would add:

1. `ProcessGroups`: cache by key with weak pointers, creation and shutdown.
2. Pure algorithms with a reference definition: `rectify_solid`,
   `pull_neighbors`.
3. `ColumnRepair` with folds in place of its recursion, so that `RepairedAsOne` can
   be proved apart from what a repair computes.
