--------------------------- MODULE LocalExchange ---------------------------
(***************************************************************************)
(* The process-local rendezvous of a halo exchange:                        *)
(* LayoutImpl::_prepare_local_exchange (src/layout/layout.cpp) between     *)
(* serialize and deserialize, called by every block thread of a process.   *)
(*                                                                         *)
(* A job of the worker pool makes each block call the exchanges of         *)
(* Schedule in order (the intra-panel and the cross-panel phase, the       *)
(* conserved and the scalar variables, ...).  A key names the options of   *)
(* an exchange, and with them its LocalExchangeState.  A block that throws *)
(* leaves the job; the pool starts the next job when all blocks have left. *)
(*                                                                         *)
(* The code holds g_local_exchange_mutex from the end of the copy, or of   *)
(* the first wait, to the start of the second wait, except that a CUDA     *)
(* build drops it in between (completion_event->block).  Publish, Arrive   *)
(* and Release are separate steps, which covers both builds.               *)
(***************************************************************************)
EXTENDS Integers, FiniteSets

CONSTANTS Blocks,           \* the MeshBlocks of the process
          Keys,             \* the exchanges' options (LocalExchangeKey)
          Steps,            \* number of exchanges in a job
          Schedule,         \* Schedule[i] is the key of the i-th exchange
          Links,            \* Links[k]: the (sender, receiver) pairs k copies
          MaxJobs,          \* bound on the number of jobs
          SuperResolution,  \* blocks with a super-resolution output
          MayFail           \* faults considered: "serialize", "copy"

ASSUME ExchangeAssumption ==
  /\ IsFiniteSet(Blocks) /\ Cardinality(Blocks) > 1
  /\ Steps \in Nat \ {0} /\ MaxJobs \in Nat
  /\ Schedule \in [1..Steps -> Keys]
  /\ Links \in [Keys -> SUBSET (Blocks \X Blocks)]
  /\ SuperResolution \subseteq Blocks

VARIABLES
  \* the LocalExchangeState of every key
  generation, arrived, released, ready, error,
  registered,   \* blocks whose layout is in g_local_layouts
  job,          \* number of the current job
  pc,           \* where each block is
  step,         \* the exchange of the job each block is at
  gen,          \* the generation each block read on arrival
  threw,        \* the blocks that left the current job with an exception
  early,        \* those of them that left before the copy: nobody released them
  todo,         \* links the copying block has still to copy
  staged,       \* the exchange whose data is in the send buffers of a block
  received      \* the exchange whose data, sent by c, is in the buffers of b

state == <<generation, arrived, released, ready, error>>
data == <<todo, staged, received>>
vars == <<state, registered, job, pc, step, gen, threw, early, data>>

N == Cardinality(Blocks)
Key(b) == Schedule[step[b]]
Now(b) == <<job, step[b]>>     \* the exchange b is at

Init == /\ generation = [k \in Keys |-> 0]
        /\ arrived = [k \in Keys |-> 0]
        /\ released = [k \in Keys |-> 0]
        /\ ready = [k \in Keys |-> FALSE]
        /\ error = [k \in Keys |-> FALSE]
        /\ registered = Blocks
        /\ job = 1
        /\ pc = [b \in Blocks |-> "start"]
        /\ step = [b \in Blocks |-> 1]
        /\ gen = [b \in Blocks |-> 0]
        /\ threw = {}
        /\ early = {}
        /\ todo = {}
        /\ staged = [b \in Blocks |-> <<0, 0>>]
        /\ received = [b \in Blocks |-> [c \in Blocks |-> <<0, 0>>]]

Move(b, from, to) == /\ pc[b] = from
                     /\ pc' = [pc EXCEPT ![b] = to]

WakeNobody(b, to) == pc' = [pc EXCEPT ![b] = to]

\* notify_all on g_local_exchange_cv, which all keys share, by a block b that
\* goes on.
WakeAll(b, to) ==
  pc' = [c \in Blocks |-> IF c = b THEN to
                          ELSE IF pc[c] = "asleep-ready" THEN "test-ready"
                          ELSE IF pc[c] = "asleep-gone" THEN "test-gone"
                          ELSE pc[c]]

-----------------------------------------------------------------------------
(* Before the rendezvous                                                   *)

\* serialize copies the interior edges into the send buffers.
Serialize(b) == /\ Move(b, "start", "arrive")
                /\ staged' = [staged EXCEPT ![b] = Now(b)]
                /\ UNCHANGED <<state, registered, job, step, gen, threw, early,
                               todo, received>>

\* It throws, and the block leaves the job without having arrived.
SerializeFails(b) == /\ "serialize" \in MayFail
                     /\ Move(b, "start", "done")
                     /\ threw' = threw \cup {b}
                     /\ early' = early \cup {b}
                     /\ UNCHANGED <<state, registered, job, step, gen, data>>

LastButOne(b) == arrived[Key(b)] + 1 = N - 1

IsLast(b) == arrived[Key(b)] + 1 = N

Arrive(b) == /\ Move(b, "arrive", "test-ready")
             /\ ~IsLast(b)
             /\ gen' = [gen EXCEPT ![b] = generation[Key(b)]]
             /\ arrived' = [arrived EXCEPT ![Key(b)] = @ + 1]
             /\ UNCHANGED <<generation, released, ready, error, registered,
                            job, step, threw, early, data>>

\* The last block to arrive leads: it finds all the layouts and copies.
Lead(b) == /\ Move(b, "arrive", "copy")
           /\ IsLast(b)
           /\ registered = Blocks
           /\ gen' = [gen EXCEPT ![b] = generation[Key(b)]]
           /\ arrived' = [arrived EXCEPT ![Key(b)] = @ + 1]
           /\ todo' = Links[Key(b)]
           /\ UNCHANGED <<generation, released, ready, error, registered,
                          job, step, threw, early, staged, received>>

\* It misses one: local_layouts_for throws before anything is published.
LeadThrows(b) == /\ Move(b, "arrive", "done")
                 /\ IsLast(b)
                 /\ registered # Blocks
                 /\ gen' = [gen EXCEPT ![b] = generation[Key(b)]]
                 /\ arrived' = [arrived EXCEPT ![Key(b)] = @ + 1]
                 /\ threw' = threw \cup {b}
                 /\ early' = early \cup {b}
                 /\ UNCHANGED <<generation, released, ready, error, registered,
                                job, step, data>>

-----------------------------------------------------------------------------
(* The copy, with the mutex released                                       *)

CopyLink(b) == /\ pc[b] = "copy"
               /\ \E l \in todo :
                     /\ received' = [received EXCEPT ![l[2]][l[1]] = staged[l[1]]]
                     /\ todo' = todo \ {l}
               /\ UNCHANGED <<state, registered, job, pc, step, gen, threw, early,
                              staged>>

ReleasedOthers(k, failed) ==
  /\ error' = [error EXCEPT ![k] = failed]
  /\ ready' = [ready EXCEPT ![k] = TRUE]
  /\ released' = [released EXCEPT ![k] = N - 1]

ReleasedAll(k, failed) ==
  /\ error' = [error EXCEPT ![k] = failed]
  /\ ready' = [ready EXCEPT ![k] = TRUE]
  /\ released' = [released EXCEPT ![k] = N]

\* The buffers of a link have different sizes, say: the exception is kept.
CopyFails(b) == /\ "copy" \in MayFail
                /\ pc[b] = "copy"
                /\ todo # {}
                /\ todo' = {}
                /\ ReleasedAll(Key(b), TRUE)
                /\ WakeAll(b, "release")
                /\ UNCHANGED <<generation, arrived, registered, job, step, gen,
                               threw, early, staged, received>>

Publish(b) == /\ pc[b] = "copy"
              /\ todo = {}
              /\ ReleasedAll(Key(b), FALSE)
              /\ WakeAll(b, "release")
              /\ UNCHANGED <<generation, arrived, registered, job, step, gen,
                             threw, early, data>>

-----------------------------------------------------------------------------
(* The two waits                                                           *)

CopyPublished(b) == ready[Key(b)] /\ generation[Key(b)] = gen[b]

WaitReady(b) == /\ \/ CopyPublished(b) /\ Move(b, "test-ready", "release")
                   \/ ~CopyPublished(b) /\ Move(b, "test-ready", "asleep-ready")
                /\ UNCHANGED <<state, registered, job, step, gen, threw, early, data>>

OutcomeReadLate(b, failed) == IF error[Key(b)] THEN "throw" ELSE "finalize"

\* Where a block goes with the outcome of the copy that it read in Release.
Outcome(b, failed) == IF failed THEN "throw" ELSE "finalize"

LeaveAtOnce(b) == Outcome(b, error[Key(b)])

\* A block that is not the last to be released waits until all are.
AfterRelease(b) == "test-gone"

\* The block reads the outcome and counts itself out; one that is not the last
\* remembers whether it will throw.
Release(b) ==
  LET k == Key(b) IN
  /\ released[k] # 1
  /\ Move(b, "release", AfterRelease(b))
  /\ released' = [released EXCEPT ![k] = @ - 1]
  /\ threw' = IF error[k] THEN threw \cup {b} ELSE threw
  /\ UNCHANGED <<generation, arrived, ready, error, registered,
                 job, step, gen, early, data>>

KeepArrived(k) == /\ arrived' = arrived
                  /\ ready' = [ready EXCEPT ![k] = FALSE]
                  /\ error' = [error EXCEPT ![k] = FALSE]

\* The state is cleared for the next exchange with this key.
Clear(k) == /\ arrived' = [arrived EXCEPT ![k] = 0]
            /\ ready' = [ready EXCEPT ![k] = FALSE]
            /\ error' = [error EXCEPT ![k] = FALSE]

ReleaseLast(b) ==
  LET k == Key(b) IN
  /\ pc[b] = "release"
  /\ released[k] = 1
  /\ released' = [released EXCEPT ![k] = 0]
  /\ Clear(k)
  /\ generation' = [generation EXCEPT ![k] = @ + 1]
  /\ threw' = IF error[k] THEN threw \cup {b} ELSE threw
  /\ WakeAll(b, Outcome(b, error[k]))
  /\ UNCHANGED <<registered, job, step, gen, early, data>>

WaitGone(b) ==
  /\ \/ /\ generation[Key(b)] # gen[b]
        /\ Move(b, "test-gone", Outcome(b, b \in threw))
     \/ /\ generation[Key(b)] = gen[b]
        /\ Move(b, "test-gone", "asleep-gone")
  /\ UNCHANGED <<state, registered, job, step, gen, threw, early, data>>

SpuriousWakeup(b) ==
  /\ \/ Move(b, "asleep-ready", "test-ready")
     \/ Move(b, "asleep-gone", "test-gone")
  /\ UNCHANGED <<state, registered, job, step, gen, threw, early, data>>

-----------------------------------------------------------------------------
(* After the rendezvous                                                    *)

Throw(b) == /\ Move(b, "throw", "done")
            /\ UNCHANGED <<state, registered, job, step, gen, threw, early, data>>

\* finalize deserializes the receive buffers; the block goes on with its job.
Finalize(b) ==
  /\ pc[b] = "finalize"
  /\ IF step[b] = Steps
     THEN pc' = [pc EXCEPT ![b] = "done"] /\ UNCHANGED step
     ELSE pc' = [pc EXCEPT ![b] = "start"] /\ step' = [step EXCEPT ![b] = @ + 1]
  /\ UNCHANGED <<state, registered, job, gen, threw, early, data>>

AllDone == \A b \in Blocks : pc[b] = "done"

\* The pool has joined the job; the main thread submits the next one.
NextJob == /\ AllDone
           /\ job < MaxJobs
           /\ job' = job + 1
           /\ pc' = [b \in Blocks |-> "start"]
           /\ step' = [b \in Blocks |-> 1]
           /\ threw' = {}
           /\ early' = {}
           /\ UNCHANGED <<state, registered, gen, data>>

\* Between jobs the main thread writes an output with super resolution: it
\* constructs a second MeshBlock in the place of b, which registers its layout
\* over that of b, and destroys it, which erases the entry.
WriteSuperResolution(b) ==
  /\ AllDone
  /\ b \in SuperResolution
  /\ registered' = registered \ {b}
  /\ UNCHANGED <<state, job, pc, step, gen, threw, early, data>>

-----------------------------------------------------------------------------
BlockStep(b) == \/ Serialize(b) \/ SerializeFails(b)
                \/ Arrive(b) \/ Lead(b) \/ LeadThrows(b)
                \/ CopyLink(b) \/ CopyFails(b) \/ Publish(b)
                \/ WaitReady(b) \/ Release(b) \/ ReleaseLast(b) \/ WaitGone(b)
                \/ Throw(b) \/ Finalize(b)

Next == \/ \E b \in Blocks : BlockStep(b) \/ SpuriousWakeup(b)
        \/ NextJob
        \/ \E b \in Blocks : WriteSuperResolution(b)

\* The threads of the pool run, and the mutex, never held across a wait, is
\* eventually acquired.  The time loop goes on to the next job.
Fairness == /\ \A b \in Blocks : WF_vars(BlockStep(b))
            /\ WF_vars(NextJob)

Spec == Init /\ [][Next]_vars /\ Fairness
-----------------------------------------------------------------------------
Places == {"start", "arrive", "copy", "test-ready", "asleep-ready", "release",
           "test-gone", "asleep-gone", "throw", "finalize", "done"}

TypeOK == /\ generation \in [Keys -> Nat]
          /\ arrived \in [Keys -> 0..N]
          /\ released \in [Keys -> 0..N]
          /\ ready \in [Keys -> BOOLEAN]
          /\ error \in [Keys -> BOOLEAN]
          /\ registered \subseteq Blocks
          /\ job \in Nat
          /\ pc \in [Blocks -> Places]
          /\ step \in [Blocks -> 1..Steps]
          /\ gen \in [Blocks -> Nat]
          /\ threw \subseteq Blocks
          /\ early \subseteq threw
          /\ todo \subseteq Blocks \X Blocks
          /\ staged \in [Blocks -> Nat \X Nat]
          /\ received \in [Blocks -> [Blocks -> Nat \X Nat]]

\* A block deserializes the data of this very exchange from each neighbor:
\* none that the previous exchange left in the buffer, none that a neighbor
\* ahead of it has already overwritten.
FreshData ==
  \A b, c \in Blocks :
     pc[b] = "finalize" /\ <<c, b>> \in Links[Key(b)] => received[b][c] = Now(b)

\* While one block copies, every other one waits at the same exchange with its
\* send buffers filled, so that nobody writes what the copy reads, or reads
\* what it writes, outside the mutex.
CopyAlone ==
  \A b, c \in Blocks :
     pc[b] = "copy" /\ c # b => /\ Now(c) = Now(b) /\ staged[c] = Now(b)
                               /\ pc[c] \in {"test-ready", "asleep-ready"}

\* The position of a block in its job, and whether it is past the rendezvous.
Beyond(b, i) == step[b] > i \/ (step[b] = i /\ pc[b] = "finalize")
                            \/ (pc[b] = "done" /\ b \notin threw)

\* An exception of the copy is everybody's: no block goes on with an exchange
\* that another leaves with an exception.
SameOutcome == \A c \in threw, b \in Blocks : ~Beyond(b, step[c])

\* A job that failed leaves nothing behind for the next: unless a block left
\* before the copy, every state is as before the first exchange.
CleanBetweenJobs ==
  AllDone /\ early = {} =>
     \A k \in Keys : /\ arrived[k] = 0 /\ released[k] = 0
                     /\ ~ready[k] /\ ~error[k]

\* The blocks of a process trade what each of them has packed for this very
\* exchange, one copying while all others hold still, and they leave it together
\* and without a trace, with the data or with the exception.
MeetingKept == TypeOK /\ FreshData /\ CopyAlone /\ SameOutcome /\ CleanBetweenJobs

\* Every block leaves every exchange, whatever the copy does, unless one of
\* them left without the others: these then wait forever, there is no timeout.
EveryoneReturns == []<>(AllDone \/ early # {})

\* Before a copy every layout of the process is registered: the assertion
\* "missing process-local layout registration" of local_layouts_for.
RegistryComplete == \A b \in Blocks : pc[b] = "arrive" /\ IsLast(b) => registered = Blocks

-----------------------------------------------------------------------------
(* Each key is a meeting place of all the blocks.                          *)

CalledOff(k) == {b \in early : Key(b) = k /\ staged[b] = Now(b)}

AtMeeting(k) ==
  {b \in Blocks : /\ Key(b) = k /\ gen[b] = generation[k]
                  /\ pc[b] \in {"copy", "test-ready", "asleep-ready", "release",
                                "test-gone", "asleep-gone"}} \cup CalledOff(k)

Meeting(k) == INSTANCE Rendezvous WITH
                inside <- AtMeeting(k),
                meetings <- generation[k],
                broken <- CalledOff(k) # {}

\* The exchanges with one key are meetings that all blocks attend.
ImplementsRendezvous ==
  /\ \A k \in Keys : Meeting(k)!Init
  /\ [][\A k \in Keys : Meeting(k)!Next \/ UNCHANGED Meeting(k)!vars]_vars
=============================================================================
