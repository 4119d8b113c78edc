--------------------------- MODULE MeshRun_proofs ---------------------------
(***************************************************************************)
(* Proofs about a run of a mesh: the time loop of its processes (TimeLoop) *)
(* and the pool of threads on which each of them runs its blocks           *)
(* (BlockWorkerPool).                                                      *)
(***************************************************************************)
EXTENDS TimeLoop, BlockWorkerPool, FiniteSetTheorems, TLAPS

(***************************************************************************)
(* The time loop.                                                          *)
(*                                                                         *)
(* The processes of a run take every decision together, its books balance  *)
(* and a signal stops all of it, for any number of processes and blocks,   *)
(* any limits, and whatever breaks the steps.                              *)
(*                                                                         *)
(* A collective pairs calls by their order only.  What a process does from *)
(* one collective to the next is determined by the answer of the last one  *)
(* and by numbers that all processes share, so it is known at any time in  *)
(* which collective it will be next, and with which numbers.  That this is *)
(* the same for all is the invariant: a step of one process does not       *)
(* change it, and a collective changes it for all at once.                 *)
(***************************************************************************)

Ops == {"parts", "bundle", "dt", "diagnostics", "fixer", "signal", "redo",
        "final_parts", "final_bundle", "barrier"}

Final == {"finalize", "final_parts", "final_bundle", "leave", "barrier", "done"}

\* The collective that a process comes to, and the cycle, time, step, redos and
\* time of the next file it comes with, from several places of the loop.
Stops(c, t) == (nlim >= 0 /\ c >= nlim) \/ t >= tlim

FromHead(c, t, d, r, n) == IF Stops(c, t) THEN <<"final_parts", c, t, d, r, n>>
                           ELSE <<"dt", c + 1, t, d, r, n>>

FromOutput(c, t, d, r, n) == IF t >= n THEN <<"parts", c, t, d, r, n>>
                             ELSE FromHead(c, t, d, r, n)

FromCheck(c, t, d, r, n) == IF ChecksSignals THEN <<"signal", c, t, d, r, n>>
                            ELSE <<"redo", c, t, d, r, n>>

FromStage(c, t, d, r, n) == IF GravityFixer THEN <<"fixer", c, t, d, r, n>>
                            ELSE FromCheck(c, t, d, r, n)

\* The step of the answer a after r redos.
Part(a, r) == a \div 2^r

FromDt(c, t, d, r, n) == IF ncycle_out # 0 /\ c % ncycle_out = 0
                         THEN <<"diagnostics", c, t, d, r, n>>
                         ELSE FromStage(c, t, d, r, n)

\* From the collective op, with the answer a.
From(op, a, c, t, d, r, n, e) ==
  /\ op = "parts" => e = <<"bundle", c, t, d, r, n>>
  /\ op = "bundle" => e = FromHead(c, t, d, r, n + OutputDt)
  /\ op = "dt" => e = FromDt(c, t, Part(a, r), r, n)
  /\ op = "diagnostics" => e = FromStage(c, t, d, r, n)
  /\ op = "fixer" => e = FromCheck(c, t, d, r, n)
  /\ op = "signal" => e = IF a > 0 THEN <<"final_parts", c, t, d, r, n>>
                          ELSE <<"redo", c, t, d, r, n>>
  /\ op = "redo" => e = IF a > 0
                        THEN IF r + 1 > MaxRedo
                             THEN <<"final_parts", c, t, d, r + 1, n>>
                             ELSE FromHead(c - 1, t, d, r + 1, n)
                        ELSE FromOutput(c, t + d, d, 0, n)
  /\ op = "final_parts" => e = <<"final_bundle", c, t, d, r, n>>
  /\ op = "final_bundle" => e = <<"barrier", c, t, d, r, n>>
  /\ op = "barrier" => e = <<"done", c, t, d, r, n>>

\* From any other place.
Within(place, c, t, d, r, n, e) ==
  /\ place = "output" => e = FromOutput(c, t, d, r, n)
  /\ place = "head" => e = FromHead(c, t, d, r, n)
  /\ place = "print" => e = <<"diagnostics", c, t, d, r, n>>
  /\ place = "stage" => e = FromStage(c, t, d, r, n)
  /\ place = "check" => e = FromCheck(c, t, d, r, n)
  /\ place = "finalize" => e = <<"final_parts", c, t, d, r, n>>
  /\ place = "leave" => e = <<"barrier", c, t, d, r, n>>
  /\ place = "done" => e = <<"done", c, t, d, r, n>>

\* Where a process at a place with the offer o and the last answer a comes to.
Comes(place, o, a, c, t, d, r, n, e) ==
  /\ o # NoOffer => e = <<place, c, t, d, r, n>>
  /\ o = NoOffer => From(place, a, c, t, d, r, n, e)
  /\ Within(place, c, t, d, r, n, e)

Bound(p, e) == Comes(pc[p], offer[p], answer, cycle[p], time[p], dt[p],
                     block[p][1].redo, next_time[p], e)

Together == \E e : \A p \in Processes : Bound(p, e)

\* What a process at a place has put in a collective, with hits h.
Puts(place, o, h, heed) ==
  o # NoOffer =>
    /\ place \in Ops /\ o.op = place
    /\ place = "fixer" => o.value = Asks("limiter" \in h)
    /\ place = "signal" => o.value = Asks(heed)
    /\ place = "redo" => o.value = Asks(h # {})

Waits(p) == Puts(pc[p], offer[p], hits[p], heard[p])

AnyHit(hs) == \E p \in Processes : hs[p] # {}

\* The books of a block b in the course of step s of cycle c from time t, with
\* the hits hs of all processes.
Fields == {"cycle", "redo", "u", "u0", "fixed", "pending"}

Steady == {"output", "parts", "bundle", "head"}
Chosen == {"dt", "print", "diagnostics"}
Taken == {"check", "signal", "redo"}

Balanced(place, o, a, c, t, d, s, hs, b) ==
  /\ place \in Steady =>
       b.u = <<t, 0>> /\ (GravityFixer => b.fixed + b.pending = c)
  /\ (place \in Chosen \/ (place = "stage" /\ s = 0)) =>
       b.u = <<t, 0>> /\ (GravityFixer => b.fixed + b.pending = c - 1)
  /\ (place = "stage" /\ s # 0) =>
       /\ b.u = <<t, s>> /\ b.u0 = <<t, 0>>
       /\ GravityFixer => b.fixed = c - 1 /\ b.pending = 0
  /\ (place = "fixer" \/ place \in Taken) =>
       /\ b.u = <<t + d, 0>> /\ b.u0 = <<t, 0>>
       /\ GravityFixer => b.fixed = c - 1
  /\ (place = "fixer" /\ GravityFixer) => b.pending = 0
  /\ (place \in Taken /\ GravityFixer) =>
       \/ b.pending = 1
       \/ IF place = "redo" /\ o = NoOffer THEN a > 0 ELSE AnyHit(hs)

Block(b) == /\ DOMAIN b = Fields
            /\ b.fixed \in Int /\ b.pending \in Int /\ b.redo \in Nat

Account(place, o, a, c, t, d, s, hs, bs) ==
  /\ \E n \in Blocks : DOMAIN bs = 1..n
  /\ c \in Int /\ s \in 0..NStages - 1
  /\ place \in {"print", "diagnostics"} => s = 0
  /\ \A i \in DOMAIN bs :
       /\ Block(bs[i])
       /\ place \notin Final => bs[i].cycle = c /\ bs[i].redo = bs[1].redo
       /\ Balanced(place, o, a, c, t, d, s, hs, bs[i])
  /\ (GravityFixer /\ place = "fixer" /\ o = NoOffer) => a = 0 \/ AnyHit(hs)

Books(p) == Account(pc[p], offer[p], answer, cycle[p], time[p], dt[p],
                    stage[p], hits, block[p])

\* Where everybody is once somebody who has heard a signal has its answer.
Ends(place, o, a) == \/ place = "signal" /\ o = NoOffer /\ a > 0
                     \/ place \in Final

Answered(p) == heard[p] /\ ~(pc[p] = "signal" /\ offer[p] # NoOffer)

Obeyed == \A p, q \in Processes :
            Answered(p) => Ends(pc[q], offer[q], answer)

TypeOK == /\ DOMAIN pc = Processes /\ DOMAIN offer = Processes
          /\ DOMAIN cycle = Processes /\ DOMAIN time = Processes
          /\ DOMAIN dt = Processes /\ DOMAIN stage = Processes
          /\ DOMAIN block = Processes /\ DOMAIN hits = Processes
          /\ DOMAIN heard = Processes /\ DOMAIN next_time = Processes

IInv == /\ TypeOK /\ Together /\ Obeyed
        /\ \A p \in Processes : Waits(p) /\ Books(p)

\* What a step of p does not touch.
Others(p) ==
  /\ answer' = answer
  /\ \A q \in Processes \ {p} :
       /\ pc'[q] = pc[q] /\ offer'[q] = offer[q] /\ cycle'[q] = cycle[q]
       /\ time'[q] = time[q] /\ dt'[q] = dt[q] /\ stage'[q] = stage[q]
       /\ block'[q] = block[q] /\ hits'[q] = hits[q] /\ heard'[q] = heard[q]
       /\ next_time'[q] = next_time[q]

\* What a step of p keeps; only the last stage of a step changes the hits.
Keeps(p) ==
  /\ TypeOK' /\ Others(p) /\ Waits(p)' /\ Books(p)'
  /\ \A e : Bound(p, e) => Bound(p, e)'
  /\ Ends(pc[p], offer[p], answer) => Ends(pc[p], offer[p], answer)'
  /\ Answered(p)' => Answered(p)
  /\ hits' = hits \/ pc[p] = "stage"

Shared == /\ TypeOK /\ \A p \in Processes : Waits(p) /\ Books(p)

----------------------------------------------------------------------------
\* A process that goes on.
LEMMA GoMoves ==
  ASSUME TypeOK, NEW p \in Processes, NEW from, NEW to, Go(p, from, to)
  PROVE  /\ pc[p] = from /\ pc'[p] = to /\ DOMAIN pc' = Processes
         /\ \A q \in Processes \ {p} : pc'[q] = pc[q]
BY DEF Go, TypeOK

\* A process that enters a collective.
LEMMA EnterMoves ==
  ASSUME TypeOK, NEW p \in Processes, NEW from, NEW op \in Ops, NEW value,
         Enter(p, from, op, value)
  PROVE  /\ pc[p] = from /\ pc'[p] = op /\ DOMAIN pc' = Processes
         /\ \A q \in Processes \ {p} : pc'[q] = pc[q]
         /\ offer'[p].op = op /\ offer'[p].value = value
         /\ offer'[p] # NoOffer /\ DOMAIN offer' = Processes
         /\ \A q \in Processes \ {p} : offer'[q] = offer[q]
<1>1. Go(p, from, op)
  BY DEF Enter
<1>2. /\ offer'[p] = [op |-> op, value |-> value] /\ DOMAIN offer' = Processes
      /\ \A q \in Processes \ {p} : offer'[q] = offer[q]
  BY DEF Enter, TypeOK
<1>3. offer'[p].op = op /\ offer'[p].value = value /\ NoOffer.op = "none"
  BY <1>2 DEF NoOffer
<1>4. op # "none"
  BY DEF Ops
<1> QED
  BY <1>1, <1>2, <1>3, <1>4, GoMoves

\* A process outside of the collectives has put nothing in one.
LEMMA NothingOffered ==
  ASSUME Shared, NEW p \in Processes, pc[p] \notin Ops
  PROVE  offer[p] = NoOffer
BY DEF Shared, Waits, Puts

\* Nothing is owed by a process whose run has ended.
LEMMA AccountFinal ==
  ASSUME NEW place, NEW o, NEW a, NEW c, NEW t, NEW d, NEW s, NEW hs, NEW bs,
         Account(place, o, a, c, t, d, s, hs, bs),
         NEW place2 \in Final, NEW o2
  PROVE  Account(place2, o2, a, c, t, d, s, hs, bs)
BY DEF Account, Balanced, Final, Steady, Chosen, Taken

\* Between two steps.
LEMMA AccountSteady ==
  ASSUME NEW place \in Steady, NEW o, NEW a, NEW c, NEW t, NEW d, NEW s,
         NEW hs, NEW bs, Account(place, o, a, c, t, d, s, hs, bs),
         NEW place2 \in Steady, NEW o2
  PROVE  Account(place2, o2, a, c, t, d, s, hs, bs)
BY DEF Account, Balanced, Final, Steady, Chosen, Taken

\* Before the first stage.
LEMMA AccountChosen ==
  ASSUME NEW place \in Chosen, NEW o, NEW a, NEW c, NEW t, NEW d, NEW s,
         NEW hs, NEW bs, Account(place, o, a, c, t, d, s, hs, bs),
         NEW place2 \in {"print", "diagnostics", "stage"}, NEW o2, NEW d2,
         NEW s2, s2 = 0
  PROVE  Account(place2, o2, a, c, t, d2, s2, hs, bs)
<1>1. 0 \in 0..NStages - 1
  BY TimeLoopAssumption
<1> QED
  BY <1>1 DEF Account, Balanced, Final, Steady, Chosen, Taken

\* While the processes decide about a step.
LEMMA AccountTaken ==
  ASSUME NEW place \in Taken, NEW o, NEW a, NEW c, NEW t, NEW d, NEW s,
         NEW hs, NEW bs, Account(place, o, a, c, t, d, s, hs, bs),
         place = "redo" => o # NoOffer,
         NEW place2 \in Taken, NEW o2, o2 # NoOffer
  PROVE  Account(place2, o2, a, c, t, d, s, hs, bs)
BY DEF Account, Balanced, Final, Steady, Chosen, Taken

----------------------------------------------------------------------------
(* One step of a process.                                                  *)

\* The loop ends on a limit.
LEMMA LeaveLoopKeeps ==
  ASSUME Shared, NEW p \in Processes, LeaveLoop(p)
  PROVE  Keeps(p)
<1>1. TypeOK /\ Books(p)
  BY DEF Shared
<1>2. /\ pc[p] = "head" /\ pc'[p] = "finalize" /\ DOMAIN pc' = Processes
      /\ \A q \in Processes \ {p} : pc'[q] = pc[q]
  BY <1>1, GoMoves DEF LeaveLoop
<1>3. offer[p] = NoOffer
  BY <1>2, NothingOffered DEF Ops
<1>4. UNCHANGED <<answer, offer, cycle, time, dt, stage, block, hits,
                  heard, next_time>>
  BY DEF LeaveLoop, loop, signals, GetInstance
<1>5. Stops(cycle[p], time[p])
  BY DEF LeaveLoop, stop, Stops
<1>6. Books(p)'
  BY <1>1, <1>2, <1>4, <1>5, AccountFinal DEF Books, Final
<1>7. ASSUME NEW e, Bound(p, e) PROVE Bound(p, e)'
  BY <1>2, <1>3, <1>4, <1>5, <1>7 DEF Bound, Comes, Within, From, FromHead
<1>8. TypeOK' /\ Others(p)
  BY <1>1, <1>2, <1>4, <1>5 DEF TypeOK, Others
<1> QED
  BY <1>2, <1>3, <1>4, <1>6, <1>7, <1>8
  DEF Keeps, Waits, Puts, Ends, Final, Answered

\* The diagnostics are printed.
LEMMA PrintedKeeps ==
  ASSUME Shared, NEW p \in Processes, Printed(p)
  PROVE  Keeps(p)
<1>1. TypeOK /\ Books(p)
  BY DEF Shared
<1>2. /\ pc[p] = "diagnostics" /\ pc'[p] = "stage" /\ DOMAIN pc' = Processes
      /\ \A q \in Processes \ {p} : pc'[q] = pc[q]
  BY <1>1, GoMoves DEF Printed, Back
<1>3. offer[p] = NoOffer
  BY DEF Printed, Back
<1>4. UNCHANGED <<answer, offer, cycle, time, dt, stage, block, hits,
                  heard, next_time>>
  BY DEF Printed, Back, loop, signals, GetInstance
<1>5. stage[p] = 0
  BY <1>1, <1>2 DEF Books, Account
<1>6. Books(p)'
  BY <1>1, <1>2, <1>4, <1>5, AccountChosen DEF Books, Chosen
<1>7. ASSUME NEW e, Bound(p, e) PROVE Bound(p, e)'
  BY <1>2, <1>3, <1>4, <1>5, <1>7 DEF Bound, Comes, Within, From
<1>8. TypeOK' /\ Others(p)
  BY <1>1, <1>2, <1>4, <1>5 DEF TypeOK, Others
<1> QED
  BY <1>2, <1>3, <1>4, <1>6, <1>7, <1>8
  DEF Keeps, Waits, Puts, Ends, Final, Answered

\* The diagnostics sum over the cells of all processes.
LEMMA PrintCycleKeeps ==
  ASSUME Shared, NEW p \in Processes, PrintCycle(p)
  PROVE  Keeps(p)
<1>1. TypeOK /\ Books(p)
  BY DEF Shared
<1>2. Enter(p, "print", "diagnostics", 0)
  BY DEF PrintCycle, AskRedo
<1>3. /\ pc[p] = "print" /\ pc'[p] = "diagnostics"
      /\ DOMAIN pc' = Processes /\ \A q \in Processes \ {p} : pc'[q] = pc[q]
      /\ offer'[p].op = "diagnostics" /\ offer'[p].value = 0
      /\ offer'[p] # NoOffer /\ DOMAIN offer' = Processes
      /\ \A q \in Processes \ {p} : offer'[q] = offer[q]
  BY <1>1, <1>2, EnterMoves DEF Ops
<1>4. offer[p] = NoOffer
  BY <1>3, NothingOffered DEF Ops
<1>5. UNCHANGED <<answer, cycle, time, dt, stage, block, hits,
                  heard, next_time>>
  BY DEF PrintCycle, loop, signals
<1>6. stage[p] = 0
  BY <1>1, <1>3 DEF Books, Account
<1>7. Books(p)'
  BY <1>1, <1>3, <1>4, <1>5, <1>6, AccountChosen DEF Books, Chosen
<1>8. ASSUME NEW e, Bound(p, e) PROVE Bound(p, e)'
  BY <1>3, <1>4, <1>5, <1>6, <1>8 DEF Bound, Comes, Within, From
<1>9. TypeOK' /\ Others(p)
  BY <1>1, <1>3, <1>5, <1>6 DEF TypeOK, Others
<1> QED
  BY <1>3, <1>4, <1>5, <1>6, <1>7, <1>8, <1>9
  DEF Keeps, Waits, Puts, Ends, Final, Answered, Ops, Signalled

\* A signal ends the run.
LEMMA SomeSignalKeeps ==
  ASSUME Shared, NEW p \in Processes, SomeSignal(p)
  PROVE  Keeps(p)
<1>1. TypeOK /\ Books(p)
  BY DEF Shared
<1>2. /\ pc[p] = "signal" /\ pc'[p] = "finalize" /\ DOMAIN pc' = Processes
      /\ \A q \in Processes \ {p} : pc'[q] = pc[q]
  BY <1>1, GoMoves DEF SomeSignal, Back
<1>3. offer[p] = NoOffer
  BY DEF SomeSignal, Back
<1>4. UNCHANGED <<answer, offer, cycle, time, dt, stage, block, hits,
                  heard, next_time>>
  BY DEF SomeSignal, Back, loop, signals, GetInstance
<1>5. answer > 0
  BY DEF SomeSignal, Signalled
<1>6. Books(p)'
  BY <1>1, <1>2, <1>4, <1>5, AccountFinal DEF Books, Final
<1>7. ASSUME NEW e, Bound(p, e) PROVE Bound(p, e)'
  BY <1>2, <1>3, <1>4, <1>5, <1>7 DEF Bound, Comes, Within, From, Signalled
<1>8. TypeOK' /\ Others(p)
  BY <1>1, <1>2, <1>4, <1>5 DEF TypeOK, Others
<1> QED
  BY <1>2, <1>3, <1>4, <1>6, <1>7, <1>8
  DEF Keeps, Waits, Puts, Ends, Final, Answered

\* No signal: the processes decide about the step.
LEMMA NoSignalKeeps ==
  ASSUME Shared, NEW p \in Processes, NoSignal(p)
  PROVE  Keeps(p)
<1>1. TypeOK /\ Books(p)
  BY DEF Shared
<1>2. Enter(p, "signal", "redo", Asks(hits[p] # {}))
  BY DEF NoSignal, AskRedo
<1>3. /\ pc[p] = "signal" /\ pc'[p] = "redo"
      /\ DOMAIN pc' = Processes /\ \A q \in Processes \ {p} : pc'[q] = pc[q]
      /\ offer'[p].op = "redo" /\ offer'[p].value = Asks(hits[p] # {})
      /\ offer'[p] # NoOffer /\ DOMAIN offer' = Processes
      /\ \A q \in Processes \ {p} : offer'[q] = offer[q]
  BY <1>1, <1>2, EnterMoves DEF Ops
<1>4. offer[p] = NoOffer
  BY DEF NoSignal
<1>5. UNCHANGED <<answer, cycle, time, dt, stage, block, hits,
                  heard, next_time>>
  BY DEF NoSignal, loop, signals
<1>6. ~(answer > 0)
  BY DEF NoSignal, Signalled
<1>7. Books(p)'
  BY <1>1, <1>3, <1>4, <1>5, <1>6, AccountTaken DEF Books, Taken
<1>8. ASSUME NEW e, Bound(p, e) PROVE Bound(p, e)'
  BY <1>3, <1>4, <1>5, <1>6, <1>8 DEF Bound, Comes, Within, From
<1>9. TypeOK' /\ Others(p)
  BY <1>1, <1>3, <1>5, <1>6 DEF TypeOK, Others
<1> QED
  BY <1>3, <1>4, <1>5, <1>6, <1>7, <1>8, <1>9
  DEF Keeps, Waits, Puts, Ends, Final, Answered, Ops, Signalled

\* No file is due.
LEMMA NothingDueKeeps ==
  ASSUME Shared, NEW p \in Processes, NothingDue(p)
  PROVE  Keeps(p)
<1>1. TypeOK /\ Books(p)
  BY DEF Shared
<1>2. /\ pc[p] = "output" /\ pc'[p] = "head" /\ DOMAIN pc' = Processes
      /\ \A q \in Processes \ {p} : pc'[q] = pc[q]
  BY <1>1, GoMoves DEF NothingDue
<1>3. offer[p] = NoOffer
  BY <1>2, NothingOffered DEF Ops
<1>4. UNCHANGED <<answer, offer, cycle, time, dt, stage, block, hits,
                  heard, next_time>>
  BY DEF NothingDue, loop, signals, GetInstance
<1>5. ~(time[p] >= next_time[p])
  BY DEF NothingDue, RestartDue
<1>6. Books(p)'
  BY <1>1, <1>2, <1>4, <1>5, AccountSteady DEF Books, Steady
<1>7. ASSUME NEW e, Bound(p, e) PROVE Bound(p, e)'
  BY <1>2, <1>3, <1>4, <1>5, <1>7 DEF Bound, Comes, Within, From, FromOutput
<1>8. TypeOK' /\ Others(p)
  BY <1>1, <1>2, <1>4, <1>5 DEF TypeOK, Others
<1> QED
  BY <1>2, <1>3, <1>4, <1>6, <1>7, <1>8
  DEF Keeps, Waits, Puts, Ends, Final, Answered

\* The parts of a restart file.
LEMMA WriteRestartKeeps ==
  ASSUME Shared, NEW p \in Processes, WriteRestart(p)
  PROVE  Keeps(p)
<1>1. TypeOK /\ Books(p)
  BY DEF Shared
<1>2. Enter(p, "output", "parts", 0)
  BY DEF WriteRestart, AskRedo
<1>3. /\ pc[p] = "output" /\ pc'[p] = "parts"
      /\ DOMAIN pc' = Processes /\ \A q \in Processes \ {p} : pc'[q] = pc[q]
      /\ offer'[p].op = "parts" /\ offer'[p].value = 0
      /\ offer'[p] # NoOffer /\ DOMAIN offer' = Processes
      /\ \A q \in Processes \ {p} : offer'[q] = offer[q]
  BY <1>1, <1>2, EnterMoves DEF Ops
<1>4. offer[p] = NoOffer
  BY <1>3, NothingOffered DEF Ops
<1>5. UNCHANGED <<answer, cycle, time, dt, stage, block, hits,
                  heard, next_time>>
  BY DEF WriteRestart, loop, signals
<1>6. time[p] >= next_time[p]
  BY DEF WriteRestart, RestartDue
<1>7. Books(p)'
  BY <1>1, <1>3, <1>4, <1>5, <1>6, AccountSteady DEF Books, Steady
<1>8. ASSUME NEW e, Bound(p, e) PROVE Bound(p, e)'
  BY <1>3, <1>4, <1>5, <1>6, <1>8 DEF Bound, Comes, Within, From, FromOutput
<1>9. TypeOK' /\ Others(p)
  BY <1>1, <1>3, <1>5, <1>6 DEF TypeOK, Others
<1> QED
  BY <1>3, <1>4, <1>5, <1>6, <1>7, <1>8, <1>9
  DEF Keeps, Waits, Puts, Ends, Final, Answered, Ops, Signalled

\* The bundle of a restart file.
LEMMA BundleKeeps ==
  ASSUME Shared, NEW p \in Processes, Bundle(p)
  PROVE  Keeps(p)
<1>1. TypeOK /\ Books(p)
  BY DEF Shared
<1>2. Enter(p, "parts", "bundle", 0)
  BY DEF Bundle, AskRedo
<1>3. /\ pc[p] = "parts" /\ pc'[p] = "bundle"
      /\ DOMAIN pc' = Processes /\ \A q \in Processes \ {p} : pc'[q] = pc[q]
      /\ offer'[p].op = "bundle" /\ offer'[p].value = 0
      /\ offer'[p] # NoOffer /\ DOMAIN offer' = Processes
      /\ \A q \in Processes \ {p} : offer'[q] = offer[q]
  BY <1>1, <1>2, EnterMoves DEF Ops
<1>4. offer[p] = NoOffer
  BY DEF Bundle
<1>5. UNCHANGED <<answer, cycle, time, dt, stage, block, hits,
                  heard, next_time>>
  BY DEF Bundle, loop, signals
<1>6. Books(p)'
  BY <1>1, <1>3, <1>4, <1>5, AccountSteady DEF Books, Steady
<1>7. ASSUME NEW e, Bound(p, e) PROVE Bound(p, e)'
  BY <1>3, <1>4, <1>5, <1>7 DEF Bound, Comes, Within, From
<1>8. TypeOK' /\ Others(p)
  BY <1>1, <1>3, <1>5 DEF TypeOK, Others
<1> QED
  BY <1>3, <1>4, <1>5, <1>6, <1>7, <1>8
  DEF Keeps, Waits, Puts, Ends, Final, Answered, Ops, Signalled

\* The file is written and the next one is scheduled.
LEMMA ReleasedKeeps ==
  ASSUME Shared, NEW p \in Processes, Released(p)
  PROVE  Keeps(p)
<1>1. TypeOK /\ Books(p)
  BY DEF Shared
<1>2. /\ pc[p] = "bundle" /\ pc'[p] = "head" /\ DOMAIN pc' = Processes
      /\ \A q \in Processes \ {p} : pc'[q] = pc[q]
  BY <1>1, GoMoves DEF Released, Back
<1>3. offer[p] = NoOffer
  BY DEF Released, Back
<1>4. UNCHANGED <<answer, offer, cycle, time, dt, stage, block, hits, heard>>
  BY DEF Released, Back, loop, signals, GetInstance
<1>5. /\ next_time'[p] = next_time[p] + OutputDt
      /\ DOMAIN next_time' = Processes
      /\ \A q \in Processes \ {p} : next_time'[q] = next_time[q]
  BY <1>1 DEF Released, TypeOK
<1>6. Books(p)'
  BY <1>1, <1>2, <1>4, <1>5, AccountSteady DEF Books, Steady
<1>7. ASSUME NEW e, Bound(p, e) PROVE Bound(p, e)'
  BY <1>2, <1>3, <1>4, <1>5, <1>7 DEF Bound, Comes, Within, From
<1>8. TypeOK' /\ Others(p)
  BY <1>1, <1>2, <1>4, <1>5 DEF TypeOK, Others
<1> QED
  BY <1>2, <1>3, <1>4, <1>6, <1>7, <1>8
  DEF Keeps, Waits, Puts, Ends, Final, Answered

\* The parts of the final restart file.
LEMMA WriteFinalKeeps ==
  ASSUME Shared, NEW p \in Processes, WriteFinal(p)
  PROVE  Keeps(p)
<1>1. TypeOK /\ Books(p)
  BY DEF Shared
<1>2. Enter(p, "finalize", "final_parts", 0)
  BY DEF WriteFinal, AskRedo
<1>3. /\ pc[p] = "finalize" /\ pc'[p] = "final_parts"
      /\ DOMAIN pc' = Processes /\ \A q \in Processes \ {p} : pc'[q] = pc[q]
      /\ offer'[p].op = "final_parts" /\ offer'[p].value = 0
      /\ offer'[p] # NoOffer /\ DOMAIN offer' = Processes
      /\ \A q \in Processes \ {p} : offer'[q] = offer[q]
  BY <1>1, <1>2, EnterMoves DEF Ops
<1>4. offer[p] = NoOffer
  BY <1>3, NothingOffered DEF Ops
<1>5. UNCHANGED <<answer, cycle, time, dt, stage, block, hits,
                  heard, next_time>>
  BY DEF WriteFinal, loop, signals
<1>6. Books(p)'
  BY <1>1, <1>3, <1>4, <1>5, AccountFinal DEF Books, Final
<1>7. ASSUME NEW e, Bound(p, e) PROVE Bound(p, e)'
  BY <1>3, <1>4, <1>5, <1>7 DEF Bound, Comes, Within, From
<1>8. TypeOK' /\ Others(p)
  BY <1>1, <1>3, <1>5 DEF TypeOK, Others
<1> QED
  BY <1>3, <1>4, <1>5, <1>6, <1>7, <1>8
  DEF Keeps, Waits, Puts, Ends, Final, Answered, Ops, Signalled

\* The bundle of the final restart file.
LEMMA BundleFinalKeeps ==
  ASSUME Shared, NEW p \in Processes, BundleFinal(p)
  PROVE  Keeps(p)
<1>1. TypeOK /\ Books(p)
  BY DEF Shared
<1>2. Enter(p, "final_parts", "final_bundle", 0)
  BY DEF BundleFinal, AskRedo
<1>3. /\ pc[p] = "final_parts" /\ pc'[p] = "final_bundle"
      /\ DOMAIN pc' = Processes /\ \A q \in Processes \ {p} : pc'[q] = pc[q]
      /\ offer'[p].op = "final_bundle" /\ offer'[p].value = 0
      /\ offer'[p] # NoOffer /\ DOMAIN offer' = Processes
      /\ \A q \in Processes \ {p} : offer'[q] = offer[q]
  BY <1>1, <1>2, EnterMoves DEF Ops
<1>4. offer[p] = NoOffer
  BY DEF BundleFinal
<1>5. UNCHANGED <<answer, cycle, time, dt, stage, block, hits,
                  heard, next_time>>
  BY DEF BundleFinal, loop, signals
<1>6. Books(p)'
  BY <1>1, <1>3, <1>4, <1>5, AccountFinal DEF Books, Final
<1>7. ASSUME NEW e, Bound(p, e) PROVE Bound(p, e)'
  BY <1>3, <1>4, <1>5, <1>7 DEF Bound, Comes, Within, From
<1>8. TypeOK' /\ Others(p)
  BY <1>1, <1>3, <1>5 DEF TypeOK, Others
<1> QED
  BY <1>3, <1>4, <1>5, <1>6, <1>7, <1>8
  DEF Keeps, Waits, Puts, Ends, Final, Answered, Ops, Signalled

\* The reason for the end.
LEMMA ReportKeeps ==
  ASSUME Shared, NEW p \in Processes, Report(p)
  PROVE  Keeps(p)
<1>1. TypeOK /\ Books(p)
  BY DEF Shared
<1>2. /\ pc[p] = "final_bundle" /\ pc'[p] = "leave" /\ DOMAIN pc' = Processes
      /\ \A q \in Processes \ {p} : pc'[q] = pc[q]
  BY <1>1, GoMoves DEF Report, Back
<1>3. offer[p] = NoOffer
  BY DEF Report, Back
<1>4. UNCHANGED <<answer, offer, cycle, time, dt, stage, block, hits,
                  heard, next_time>>
  BY DEF Report, Back, loop, signals, GetInstance
<1>5. Books(p)'
  BY <1>1, <1>2, <1>4, AccountFinal DEF Books, Final
<1>6. ASSUME NEW e, Bound(p, e) PROVE Bound(p, e)'
  BY <1>2, <1>3, <1>4, <1>6 DEF Bound, Comes, Within, From
<1>7. TypeOK' /\ Others(p)
  BY <1>1, <1>2, <1>4 DEF TypeOK, Others
<1> QED
  BY <1>2, <1>3, <1>4, <1>5, <1>6, <1>7
  DEF Keeps, Waits, Puts, Ends, Final, Answered

\* The last barrier.
LEMMA LastBarrierKeeps ==
  ASSUME Shared, NEW p \in Processes, LastBarrier(p)
  PROVE  Keeps(p)
<1>1. TypeOK /\ Books(p)
  BY DEF Shared
<1>2. Enter(p, "leave", "barrier", 0)
  BY DEF LastBarrier, AskRedo
<1>3. /\ pc[p] = "leave" /\ pc'[p] = "barrier"
      /\ DOMAIN pc' = Processes /\ \A q \in Processes \ {p} : pc'[q] = pc[q]
      /\ offer'[p].op = "barrier" /\ offer'[p].value = 0
      /\ offer'[p] # NoOffer /\ DOMAIN offer' = Processes
      /\ \A q \in Processes \ {p} : offer'[q] = offer[q]
  BY <1>1, <1>2, EnterMoves DEF Ops
<1>4. offer[p] = NoOffer
  BY <1>3, NothingOffered DEF Ops
<1>5. UNCHANGED <<answer, cycle, time, dt, stage, block, hits,
                  heard, next_time>>
  BY DEF LastBarrier, loop, signals
<1>6. Books(p)'
  BY <1>1, <1>3, <1>4, <1>5, AccountFinal DEF Books, Final
<1>7. ASSUME NEW e, Bound(p, e) PROVE Bound(p, e)'
  BY <1>3, <1>4, <1>5, <1>7 DEF Bound, Comes, Within, From
<1>8. TypeOK' /\ Others(p)
  BY <1>1, <1>3, <1>5 DEF TypeOK, Others
<1> QED
  BY <1>3, <1>4, <1>5, <1>6, <1>7, <1>8
  DEF Keeps, Waits, Puts, Ends, Final, Answered, Ops, Signalled

\* The process group is left.
LEMMA ShutdownKeeps ==
  ASSUME Shared, NEW p \in Processes, Shutdown(p)
  PROVE  Keeps(p)
<1>1. TypeOK /\ Books(p)
  BY DEF Shared
<1>2. /\ pc[p] = "barrier" /\ pc'[p] = "done" /\ DOMAIN pc' = Processes
      /\ \A q \in Processes \ {p} : pc'[q] = pc[q]
  BY <1>1, GoMoves DEF Shutdown, Back
<1>3. offer[p] = NoOffer
  BY DEF Shutdown, Back
<1>4. UNCHANGED <<answer, offer, cycle, time, dt, stage, block, hits,
                  heard, next_time>>
  BY DEF Shutdown, Back, loop, signals, GetInstance
<1>5. Books(p)'
  BY <1>1, <1>2, <1>4, AccountFinal DEF Books, Final
<1>6. ASSUME NEW e, Bound(p, e) PROVE Bound(p, e)'
  BY <1>2, <1>3, <1>4, <1>6 DEF Bound, Comes, Within, From
<1>7. TypeOK' /\ Others(p)
  BY <1>1, <1>2, <1>4 DEF TypeOK, Others
<1> QED
  BY <1>2, <1>3, <1>4, <1>5, <1>6, <1>7
  DEF Keeps, Waits, Puts, Ends, Final, Answered
\* The step follows from the answer, its stages begin.
LEMMA ChooseStepKeeps ==
  ASSUME Shared, NEW p \in Processes, ChooseStep(p)
  PROVE  Keeps(p)
<1> DEFINE to == IF DiagnosticsDue(p) THEN "print" ELSE "stage"
<1>1. TypeOK /\ Books(p)
  BY DEF Shared
<1>2. /\ pc[p] = "dt" /\ pc'[p] = to /\ DOMAIN pc' = Processes
      /\ \A q \in Processes \ {p} : pc'[q] = pc[q]
  BY <1>1, GoMoves DEF ChooseStep, Back
<1>3. offer[p] = NoOffer
  BY DEF ChooseStep, Back
<1>4. UNCHANGED <<answer, offer, cycle, time, block, hits, heard, next_time>>
  BY DEF ChooseStep, signals
<1>5. /\ dt'[p] = Part(answer, block[p][1].redo) /\ DOMAIN dt' = Processes
      /\ \A q \in Processes \ {p} : dt'[q] = dt[q]
  BY <1>1 DEF ChooseStep, TypeOK, Scaled, Part
<1>6. /\ stage'[p] = 0 /\ DOMAIN stage' = Processes
      /\ \A q \in Processes \ {p} : stage'[q] = stage[q]
  BY <1>1 DEF ChooseStep, TypeOK
<1>7. block[p][1].cycle = cycle[p]
  <2>1. 1 \in DOMAIN block[p]
    BY <1>1, TimeLoopAssumption DEF Books, Account
  <2> QED
    BY <1>1, <1>2, <2>1 DEF Books, Account, Final
<1>8. Books(p)'
  BY <1>1, <1>2, <1>4, <1>6, AccountChosen DEF Books, Chosen
<1>9. ASSUME NEW e, Bound(p, e) PROVE Bound(p, e)'
  <2>1. CASE DiagnosticsDue(p)
    BY <1>2, <1>3, <1>4, <1>5, <1>7, <1>9, <2>1
    DEF Bound, Comes, Within, From, FromDt, DiagnosticsDue
  <2>2. CASE ~DiagnosticsDue(p)
    BY <1>2, <1>3, <1>4, <1>5, <1>7, <1>9, <2>2
    DEF Bound, Comes, Within, From, FromDt, DiagnosticsDue
  <2> QED
    BY <2>1, <2>2
<1>10. TypeOK' /\ Others(p)
  BY <1>1, <1>2, <1>4, <1>5, <1>6 DEF TypeOK, Others
<1> QED
  BY <1>2, <1>3, <1>4, <1>8, <1>9, <1>10
  DEF Keeps, Waits, Puts, Ends, Final, Answered

\* The processes compare their signals, or at once their causes for a redo.
LEMMA CheckRedoKeeps ==
  ASSUME Shared, NEW p \in Processes, CheckRedo(p)
  PROVE  Keeps(p)
<1>1. TypeOK /\ Books(p)
  BY DEF Shared
<1>2. UNCHANGED <<answer, cycle, time, dt, stage, block, hits, next_time>>
  BY DEF CheckRedo, loop
<1>3. CASE ChecksSignals
  <2>1. /\ heard'[p] = Flag(p) /\ DOMAIN heard' = Processes
        /\ \A q \in Processes \ {p} : heard'[q] = heard[q]
    BY <1>1, <1>3 DEF CheckRedo, TypeOK
  <2>2. Enter(p, "check", "signal", Asks(Flag(p)))
    BY <1>3 DEF CheckRedo
  <2>3. /\ pc[p] = "check" /\ pc'[p] = "signal" /\ DOMAIN pc' = Processes
        /\ \A q \in Processes \ {p} : pc'[q] = pc[q]
        /\ offer'[p].op = "signal" /\ offer'[p].value = Asks(Flag(p))
        /\ offer'[p] # NoOffer /\ DOMAIN offer' = Processes
        /\ \A q \in Processes \ {p} : offer'[q] = offer[q]
    BY <1>1, <2>2, EnterMoves DEF Ops
  <2>4. offer[p] = NoOffer
    BY <2>3, NothingOffered DEF Ops
  <2>5. Books(p)'
    BY <1>1, <1>2, <2>3, <2>4, AccountTaken DEF Books, Taken
  <2>6. ASSUME NEW e, Bound(p, e) PROVE Bound(p, e)'
    BY <1>2, <1>3, <2>3, <2>4, <2>6 DEF Bound, Comes, Within, From, FromCheck
  <2>7. TypeOK' /\ Others(p)
    BY <1>1, <1>2, <2>1, <2>3 DEF TypeOK, Others
  <2> QED
    BY <1>2, <2>1, <2>3, <2>4, <2>5, <2>6, <2>7
    DEF Keeps, Waits, Puts, Ends, Final, Answered, Ops
<1>4. CASE ~ChecksSignals
  <2>1. UNCHANGED heard
    BY <1>4 DEF CheckRedo, signals
  <2>2. Enter(p, "check", "redo", Asks(hits[p] # {}))
    BY <1>4 DEF CheckRedo, AskRedo
  <2>3. /\ pc[p] = "check" /\ pc'[p] = "redo" /\ DOMAIN pc' = Processes
        /\ \A q \in Processes \ {p} : pc'[q] = pc[q]
        /\ offer'[p].op = "redo" /\ offer'[p].value = Asks(hits[p] # {})
        /\ offer'[p] # NoOffer /\ DOMAIN offer' = Processes
        /\ \A q \in Processes \ {p} : offer'[q] = offer[q]
    BY <1>1, <2>2, EnterMoves DEF Ops
  <2>4. offer[p] = NoOffer
    BY <2>3, NothingOffered DEF Ops
  <2>5. Books(p)'
    BY <1>1, <1>2, <2>3, <2>4, AccountTaken DEF Books, Taken
  <2>6. ASSUME NEW e, Bound(p, e) PROVE Bound(p, e)'
    BY <1>2, <1>4, <2>3, <2>4, <2>6 DEF Bound, Comes, Within, From, FromCheck
  <2>7. TypeOK' /\ Others(p)
    BY <1>1, <1>2, <2>1, <2>3 DEF TypeOK, Others
  <2> QED
    BY <1>2, <2>1, <2>3, <2>4, <2>5, <2>6, <2>7
    DEF Keeps, Waits, Puts, Ends, Final, Answered, Ops
<1> QED
  BY <1>3, <1>4

----------------------------------------------------------------------------
(* Steps that change the blocks.                                           *)

\* The step counts one more cycle.
LEMMA CycleOf ==
  ASSUME NEW b, Block(b), NEW k
  PROVE  LET n == [b EXCEPT !.cycle = k]
         IN  /\ Block(n) /\ n.cycle = k /\ n.redo = b.redo /\ n.u = b.u
             /\ n.u0 = b.u0 /\ n.fixed = b.fixed /\ n.pending = b.pending
BY DEF Block, Fields

\* The fixer's energy is pending.
LEMMA CorrectedOf ==
  ASSUME NEW b, Block(b)
  PROVE  LET n == Corrected(b)
         IN  /\ Block(n) /\ n.cycle = b.cycle /\ n.redo = b.redo /\ n.u = b.u
             /\ n.u0 = b.u0 /\ n.fixed = b.fixed
             /\ n.pending = b.pending + Asks(answer = 0)
<1>1. Asks(answer = 0) \in Int
  BY DEF Asks
<1> QED
  BY <1>1 DEF Block, Fields, Corrected

\* The state before the step is saved, and the pending energy is counted.
LEMMA SavedOf ==
  ASSUME NEW b, Block(b)
  PROVE  LET n == Saved(b)
         IN  /\ Block(n) /\ n.cycle = b.cycle /\ n.redo = b.redo /\ n.u = b.u
             /\ n.u0 = b.u /\ n.fixed = b.fixed + b.pending /\ n.pending = 0
BY DEF Block, Fields, Saved

\* The step is accepted.
LEMMA KeptOf ==
  ASSUME NEW b, Block(b)
  PROVE  LET n == Kept(b)
         IN  /\ Block(n) /\ n.cycle = b.cycle /\ n.redo = 0 /\ n.u = b.u
             /\ n.u0 = b.u0 /\ n.fixed = b.fixed + b.pending /\ n.pending = 0
BY DEF Block, Fields, Kept

\* The step is taken back.
LEMMA RolledBackOf ==
  ASSUME NEW b, Block(b)
  PROVE  LET n == RolledBack(b)
         IN  /\ Block(n) /\ n.cycle = b.cycle - 1 /\ n.redo = b.redo + 1
             /\ n.u = b.u0 /\ n.u0 = b.u0 /\ n.fixed = b.fixed
             /\ n.pending = 0
BY DEF Block, Fields, RolledBack

\* The step is given up.
LEMMA ExhaustedOf ==
  ASSUME NEW b, Block(b)
  PROVE  Block(Exhausted(b)) /\ Exhausted(b).redo = b.redo + 1
BY DEF Block, Fields, Exhausted

\* A stage.
LEMMA AdvancedOf ==
  ASSUME NEW p, NEW b, Block(b), NEW t, NEW s, b.u = <<t, s>>
  PROVE  LET n == Advanced(p, b)
         IN  /\ Block(n) /\ n.cycle = b.cycle /\ n.redo = b.redo
             /\ n.u0 = b.u0 /\ n.fixed = b.fixed /\ n.pending = b.pending
             /\ n.u = IF LastStage(p) THEN <<t + dt[p], 0>> ELSE <<t, s + 1>>
BY DEF Block, Fields, Advanced

\* A cycle starts with the largest step that the blocks of the process take.
LEMMA StartCycleKeeps ==
  ASSUME Shared, NEW p \in Processes, StartCycle(p)
  PROVE  Keeps(p)
<1> DEFINE v == Min({CflStep(p, block[p][i].u[1]) : i \in Local(p)})
<1> DEFINE New(b) == [b EXCEPT !.cycle = cycle[p] + 1]
<1>1. TypeOK /\ Books(p)
  BY DEF Shared
<1>2. Enter(p, "head", "dt", v)
  BY DEF StartCycle
<1> HIDE DEF v
<1>3. /\ pc[p] = "head" /\ pc'[p] = "dt" /\ DOMAIN pc' = Processes
      /\ \A q \in Processes \ {p} : pc'[q] = pc[q]
      /\ offer'[p].op = "dt" /\ offer'[p].value = v
      /\ offer'[p] # NoOffer /\ DOMAIN offer' = Processes
      /\ \A q \in Processes \ {p} : offer'[q] = offer[q]
  BY <1>1, <1>2, EnterMoves DEF Ops
<1>4. offer[p] = NoOffer
  BY <1>3, NothingOffered DEF Ops
<1>5. UNCHANGED <<answer, time, dt, stage, hits, heard, next_time>>
  BY DEF StartCycle, signals
<1>6. /\ cycle'[p] = cycle[p] + 1 /\ DOMAIN cycle' = Processes
      /\ \A q \in Processes \ {p} : cycle'[q] = cycle[q]
  BY <1>1 DEF StartCycle, TypeOK
<1>7. /\ block'[p] = [i \in Local(p) |-> New(block[p][i])]
      /\ DOMAIN block' = Processes
      /\ \A q \in Processes \ {p} : block'[q] = block[q]
  BY <1>1 DEF StartCycle, TypeOK
<1>8. \A i \in Local(p) :
        /\ Block(block'[p][i]) /\ block'[p][i].cycle = cycle[p] + 1
        /\ block'[p][i].redo = block[p][i].redo
        /\ block'[p][i].u = block[p][i].u
        /\ block'[p][i].fixed = block[p][i].fixed
        /\ block'[p][i].pending = block[p][i].pending
  <2>1. SUFFICES ASSUME NEW i \in Local(p)
                 PROVE  LET n == New(block[p][i]) IN
                        /\ Block(n) /\ n.cycle = cycle[p] + 1
                        /\ n.redo = block[p][i].redo /\ n.u = block[p][i].u
                        /\ n.fixed = block[p][i].fixed
                        /\ n.pending = block[p][i].pending
    BY <1>7
  <2>2. Block(block[p][i])
    BY <1>1 DEF Books, Account, Local
  <2> QED
    BY <2>2, CycleOf
<1> HIDE DEF New
<1>9. DOMAIN block'[p] = Local(p) /\ 1 \in Local(p)
  BY <1>1, <1>7, TimeLoopAssumption DEF Books, Account, Local
<1>10. Books(p)'
  BY <1>1, <1>3, <1>4, <1>5, <1>6, <1>8, <1>9
  DEF Books, Account, Balanced, Block, Local, Steady, Chosen, Taken, Final
<1>11. ~Stops(cycle[p], time[p])
  BY DEF StartCycle, stop, Stops
<1>12. ASSUME NEW e, Bound(p, e) PROVE Bound(p, e)'
  BY <1>3, <1>4, <1>5, <1>6, <1>8, <1>9, <1>11, <1>12
  DEF Bound, Comes, Within, FromHead
<1>13. TypeOK' /\ Others(p)
  BY <1>1, <1>3, <1>5, <1>6, <1>7 DEF TypeOK, Others
<1> QED
  BY <1>3, <1>4, <1>5, <1>10, <1>12, <1>13
  DEF Keeps, Waits, Puts, Ends, Final, Answered, Ops

\* A step that is kept gets its correction.
LEMMA FixGravityKeeps ==
  ASSUME Shared, NEW p \in Processes, FixGravity(p)
  PROVE  Keeps(p)
<1>1. TypeOK /\ Books(p)
  BY DEF Shared
<1>2. /\ pc[p] = "fixer" /\ pc'[p] = "check" /\ DOMAIN pc' = Processes
      /\ \A q \in Processes \ {p} : pc'[q] = pc[q]
  BY <1>1, GoMoves DEF FixGravity, Back
<1>3. offer[p] = NoOffer
  BY DEF FixGravity, Back
<1>4. UNCHANGED <<answer, offer, cycle, time, dt, stage, hits, heard,
                  next_time>>
  BY DEF FixGravity, loop, signals
<1>5. /\ block'[p] = [i \in Local(p) |-> Corrected(block[p][i])]
      /\ DOMAIN block' = Processes
      /\ \A q \in Processes \ {p} : block'[q] = block[q]
  BY <1>1 DEF FixGravity, TypeOK
<1>6. \A i \in Local(p) :
        /\ Block(block'[p][i]) /\ block'[p][i].cycle = block[p][i].cycle
        /\ block'[p][i].redo = block[p][i].redo
        /\ block'[p][i].u = block[p][i].u /\ block'[p][i].u0 = block[p][i].u0
        /\ block'[p][i].fixed = block[p][i].fixed
        /\ block'[p][i].pending = block[p][i].pending + Asks(answer = 0)
  BY <1>1, <1>5, CorrectedOf DEF Books, Account, Local
<1>7. DOMAIN block'[p] = Local(p) /\ 1 \in Local(p)
  BY <1>1, <1>5, TimeLoopAssumption DEF Books, Account, Local
<1>8. Books(p)'
  <2>1. GravityFixer => answer = 0 \/ AnyHit(hits)
    BY <1>1, <1>2, <1>3 DEF Books, Account
  <2> QED
    BY <1>1, <1>2, <1>3, <1>4, <1>6, <1>7, <2>1
    DEF Books, Account, Balanced, Block, Local, Steady, Chosen, Taken, Final,
        Asks
<1>9. ASSUME NEW e, Bound(p, e) PROVE Bound(p, e)'
  BY <1>2, <1>3, <1>4, <1>6, <1>7, <1>9 DEF Bound, Comes, Within, From
<1>10. TypeOK' /\ Others(p)
  BY <1>1, <1>2, <1>4, <1>5 DEF TypeOK, Others
<1> QED
  BY <1>2, <1>3, <1>4, <1>8, <1>9, <1>10
  DEF Keeps, Waits, Puts, Ends, Final, Answered

\* The step is accepted.
LEMMA AcceptKeeps ==
  ASSUME Shared, NEW p \in Processes, Accept(p)
  PROVE  Keeps(p)
<1>1. TypeOK /\ Books(p)
  BY DEF Shared
<1>2. /\ pc[p] = "redo" /\ pc'[p] = "output" /\ DOMAIN pc' = Processes
      /\ \A q \in Processes \ {p} : pc'[q] = pc[q]
  BY <1>1, GoMoves DEF Accept, Back
<1>3. offer[p] = NoOffer /\ ~(answer > 0)
  BY DEF Accept, Back, Causes
<1>4. UNCHANGED <<answer, offer, cycle, dt, stage, hits, heard, next_time>>
  BY DEF Accept, signals
<1>5. /\ time'[p] = time[p] + dt[p] /\ DOMAIN time' = Processes
      /\ \A q \in Processes \ {p} : time'[q] = time[q]
  BY <1>1 DEF Accept, TypeOK
<1>6. /\ block'[p] = [i \in Local(p) |-> Kept(block[p][i])]
      /\ DOMAIN block' = Processes
      /\ \A q \in Processes \ {p} : block'[q] = block[q]
  BY <1>1 DEF Accept, TypeOK
<1>7. \A i \in Local(p) :
        /\ Block(block'[p][i]) /\ block'[p][i].cycle = block[p][i].cycle
        /\ block'[p][i].redo = 0 /\ block'[p][i].u = block[p][i].u
        /\ block'[p][i].fixed = block[p][i].fixed + block[p][i].pending
        /\ block'[p][i].pending = 0
  BY <1>1, <1>6, KeptOf DEF Books, Account, Local
<1>8. DOMAIN block'[p] = Local(p) /\ 1 \in Local(p)
  BY <1>1, <1>6, TimeLoopAssumption DEF Books, Account, Local
<1>9. Books(p)'
  <2>1. \A i \in Local(p) :
          /\ block[p][i].u = <<time[p] + dt[p], 0>>
          /\ block[p][i].cycle = cycle[p]
          /\ GravityFixer => /\ block[p][i].fixed = cycle[p] - 1
                             /\ block[p][i].pending = 1
    BY <1>1, <1>2, <1>3 DEF Books, Account, Balanced, Local, Taken, Final
  <2>2. cycle[p] \in Int
    BY <1>1 DEF Books, Account
  <2>3. ASSUME NEW i \in Local(p), GravityFixer
        PROVE  block'[p][i].fixed + block'[p][i].pending = cycle[p]
    BY <1>7, <2>1, <2>2, <2>3
  <2> QED
    BY <1>1, <1>2, <1>4, <1>5, <1>7, <1>8, <2>1, <2>3
  DEF Books, Account, Balanced, Block, Local, Steady, Chosen, Taken, Final
<1>10. ASSUME NEW e, Bound(p, e) PROVE Bound(p, e)'
  BY <1>2, <1>3, <1>4, <1>5, <1>7, <1>8, <1>10 DEF Bound, Comes, Within, From
<1>11. TypeOK' /\ Others(p)
  BY <1>1, <1>2, <1>4, <1>5, <1>6 DEF TypeOK, Others
<1> QED
  BY <1>2, <1>3, <1>4, <1>9, <1>10, <1>11
  DEF Keeps, Waits, Puts, Ends, Final, Answered

\* The blocks of a process have the same redos behind them.
LEMMA OneBudget ==
  ASSUME NEW p, Books(p), pc[p] \notin Final
  PROVE  /\ 1 \in Local(p) /\ \A i \in Local(p) : i \in Nat /\ i >= 1
         /\ OutOfBudget(p) # {} <=> block[p][1].redo + 1 > MaxRedo
         /\ OutOfBudget(p) # {} => OutOfBudget(p) = Local(p)
<1>1. 1 \in Local(p) /\ \A i \in Local(p) : i \in Nat /\ i >= 1
  BY TimeLoopAssumption DEF Books, Account, Local
<1>2. \A i \in Local(p) : block[p][i].redo = block[p][1].redo
  BY DEF Books, Account, Local
<1> QED
  BY <1>1, <1>2 DEF OutOfBudget

\* The step is taken back.
LEMMA RedoKeeps ==
  ASSUME Shared, NEW p \in Processes, Redo(p)
  PROVE  Keeps(p)
<1>1. TypeOK /\ Books(p)
  BY DEF Shared
<1>2. /\ pc[p] = "redo" /\ pc'[p] = "head" /\ DOMAIN pc' = Processes
      /\ \A q \in Processes \ {p} : pc'[q] = pc[q]
  BY <1>1, GoMoves DEF Redo, Back
<1>3. offer[p] = NoOffer /\ answer > 0
  BY DEF Redo, Back, Causes
<1>4. UNCHANGED <<answer, offer, time, dt, stage, hits, heard, next_time>>
  BY DEF Redo, signals
<1>5. /\ block'[p] = [i \in Local(p) |-> RolledBack(block[p][i])]
      /\ DOMAIN block' = Processes
      /\ \A q \in Processes \ {p} : block'[q] = block[q]
  BY <1>1 DEF Redo, TypeOK
<1>6. 1 \in Local(p) /\ ~(block[p][1].redo + 1 > MaxRedo)
  BY <1>1, <1>2, OneBudget DEF Redo, Final
<1>7. \A i \in Local(p) :
        /\ Block(block'[p][i]) /\ block'[p][i].cycle = cycle[p] - 1
        /\ block'[p][i].redo = block[p][1].redo + 1
        /\ block'[p][i].u = block[p][i].u0
        /\ block'[p][i].fixed = block[p][i].fixed
        /\ block'[p][i].pending = 0
  BY <1>1, <1>2, <1>5, RolledBackOf DEF Books, Account, Local, Final
<1>8. /\ cycle'[p] = cycle[p] - 1 /\ DOMAIN cycle' = Processes
      /\ \A q \in Processes \ {p} : cycle'[q] = cycle[q]
  BY <1>1, <1>6, <1>7 DEF Redo, TypeOK
<1>9. DOMAIN block'[p] = Local(p)
  BY <1>5
<1>10. Books(p)'
  BY <1>1, <1>2, <1>3, <1>4, <1>6, <1>7, <1>8, <1>9
  DEF Books, Account, Balanced, Block, Local, Steady, Chosen, Taken, Final
<1>11. ASSUME NEW e, Bound(p, e) PROVE Bound(p, e)'
  BY <1>2, <1>3, <1>4, <1>6, <1>7, <1>8, <1>11 DEF Bound, Comes, Within, From
<1>12. TypeOK' /\ Others(p)
  BY <1>1, <1>2, <1>4, <1>5, <1>8 DEF TypeOK, Others
<1> QED
  BY <1>2, <1>3, <1>4, <1>10, <1>11, <1>12
  DEF Keeps, Waits, Puts, Ends, Final, Answered

\* The least of a set of numbers from 1.
LEMMA MinOne ==
  ASSUME NEW S, 1 \in S, \A i \in S : i \in Nat /\ i >= 1
  PROVE  Min(S) = 1
<1>1. \A y \in S : 1 =< y
  OBVIOUS
<1>2. \A x \in S : (\A y \in S : x =< y) => x = 1
  OBVIOUS
<1>3. (\A y \in S : Min(S) =< y) /\ Min(S) \in S
  BY <1>1 DEF Min
<1> QED
  BY <1>2, <1>3

\* The budget is spent: the first block is left as it is, and so are all.
LEMMA GiveUpKeeps ==
  ASSUME Shared, NEW p \in Processes, GiveUp(p)
  PROVE  Keeps(p)
<1> DEFINE New(i) == IF i = 1 THEN Exhausted(block[p][i]) ELSE block[p][i]
<1>1. TypeOK /\ Books(p)
  BY DEF Shared
<1>2. /\ pc[p] = "redo" /\ pc'[p] = "finalize" /\ DOMAIN pc' = Processes
      /\ \A q \in Processes \ {p} : pc'[q] = pc[q]
  BY <1>1, GoMoves DEF GiveUp, Back
<1>3. offer[p] = NoOffer /\ answer > 0
  BY DEF GiveUp, Back, Causes
<1>4. UNCHANGED <<answer, offer, cycle, time, dt, stage, hits, heard,
                  next_time>>
  BY DEF GiveUp, loop, signals
<1>5. /\ 1 \in Local(p) /\ block[p][1].redo + 1 > MaxRedo
      /\ OutOfBudget(p) = Local(p) /\ \A i \in Local(p) : i \in Nat /\ i >= 1
  BY <1>1, <1>2, OneBudget DEF GiveUp, Final
<1>6. Min(OutOfBudget(p)) = 1
  BY <1>5, MinOne
<1>7. /\ block'[p] = [i \in Local(p) |-> New(i)] /\ DOMAIN block' = Processes
      /\ \A q \in Processes \ {p} : block'[q] = block[q]
  <2>1. block' = [block EXCEPT ![p] = [i \in Local(p) |->
                   IF i < 1 THEN RolledBack(@[i])
                   ELSE IF i = 1 THEN Exhausted(@[i]) ELSE @[i]]]
    BY <1>6 DEF GiveUp
  <2> QED
    BY <1>1, <1>5, <2>1 DEF TypeOK
<1>8. \A i \in Local(p) : Block(block'[p][i])
  BY <1>1, <1>7, ExhaustedOf DEF Books, Account, Local
<1>9. block'[p][1].redo = block[p][1].redo + 1
  BY <1>1, <1>5, <1>7, ExhaustedOf DEF Books, Account, Local
<1>10. DOMAIN block'[p] = Local(p)
  BY <1>7
<1>11. Books(p)'
  BY <1>1, <1>2, <1>4, <1>8, <1>10
  DEF Books, Account, Balanced, Local, Steady, Chosen, Taken, Final
<1>12. ASSUME NEW e, Bound(p, e) PROVE Bound(p, e)'
  BY <1>2, <1>3, <1>4, <1>5, <1>9, <1>12 DEF Bound, Comes, Within, From
<1>13. TypeOK' /\ Others(p)
  BY <1>1, <1>2, <1>4, <1>7 DEF TypeOK, Others
<1> QED
  BY <1>2, <1>3, <1>4, <1>11, <1>12, <1>13
  DEF Keeps, Waits, Puts, Ends, Final, Answered

\* What a stage makes of the blocks: on top of the state before the step,
\* which is saved, and with the energy of the accepted steps counted.
Staged(p, b, r) ==
  /\ Block(b) /\ b.cycle = cycle[p] /\ b.redo = r
  /\ b.u0 = <<time[p], 0>>
  /\ b.u = IF LastStage(p) THEN <<time[p] + dt[p], 0>>
           ELSE <<time[p], stage[p] + 1>>
  /\ GravityFixer => b.fixed = cycle[p] - 1 /\ b.pending = 0

LEMMA StageOf ==
  ASSUME Shared, NEW p \in Processes, Forward(p)
  PROVE  /\ pc[p] = "stage" /\ offer[p] = NoOffer
         /\ DOMAIN block' = Processes /\ DOMAIN block'[p] = Local(p)
         /\ 1 \in Local(p)
         /\ \A q \in Processes \ {p} : block'[q] = block[q]
         /\ \A i \in Local(p) : Staged(p, block'[p][i], block[p][1].redo)
<1> DEFINE Old(b) == IF stage[p] = 0 THEN Saved(b) ELSE b
<1>1. TypeOK /\ Books(p)
  BY DEF Shared
<1>2. pc[p] = "stage"
  BY DEF Forward, Enter, Go
<1>3. offer[p] = NoOffer
  BY <1>2, NothingOffered DEF Ops
<1>4. /\ block'[p] = [i \in Local(p) |-> Advanced(p, Old(block[p][i]))]
      /\ DOMAIN block' = Processes
      /\ \A q \in Processes \ {p} : block'[q] = block[q]
  BY <1>1 DEF Forward, TypeOK
<1>5. 1 \in Local(p)
  BY <1>1, TimeLoopAssumption DEF Books, Account, Local
<1>6. \A i \in Local(p) :
        /\ Block(block[p][i]) /\ block[p][i].cycle = cycle[p]
        /\ block[p][i].redo = block[p][1].redo
  BY <1>1, <1>2 DEF Books, Account, Local, Final
<1>7. ASSUME NEW i \in Local(p)
      PROVE  LET b == block[p][i]
                 o == Old(b)
             IN  /\ Block(o) /\ o.cycle = b.cycle /\ o.redo = b.redo
                 /\ o.u = <<time[p], stage[p]>> /\ o.u0 = <<time[p], 0>>
                 /\ GravityFixer => o.fixed = cycle[p] - 1 /\ o.pending = 0
  <2>1. CASE stage[p] = 0
    <3>1. /\ block[p][i].u = <<time[p], 0>>
          /\ GravityFixer =>
               block[p][i].fixed + block[p][i].pending = cycle[p] - 1
      BY <1>1, <1>2, <2>1 DEF Books, Account, Balanced, Local
    <3> QED
      BY <1>6, <2>1, <3>1, SavedOf
  <2>2. CASE stage[p] # 0
    BY <1>1, <1>2, <1>6, <2>2 DEF Books, Account, Balanced, Local
  <2> QED
    BY <2>1, <2>2
<1> HIDE DEF Old
<1>8. ASSUME NEW i \in Local(p)
      PROVE  LET o == Old(block[p][i])
                 n == Advanced(p, o)
             IN  /\ Block(n) /\ n.cycle = o.cycle /\ n.redo = o.redo
                 /\ n.u0 = o.u0 /\ n.fixed = o.fixed /\ n.pending = o.pending
                 /\ n.u = IF LastStage(p) THEN <<time[p] + dt[p], 0>>
                          ELSE <<time[p], stage[p] + 1>>
  BY <1>7, AdvancedOf
<1>9. \A i \in Local(p) :
        block'[p][i] = Advanced(p, Old(block[p][i]))
  BY <1>4
<1>10. DOMAIN block'[p] = Local(p)
  BY <1>4
<1>11. ASSUME NEW i \in Local(p)
       PROVE  Staged(p, block'[p][i], block[p][1].redo)
  BY <1>6, <1>7, <1>8, <1>9, <1>11 DEF Staged
<1> QED
  BY <1>2, <1>3, <1>4, <1>5, <1>10, <1>11

\* The blocks make an account at the place that the stage leads to.
LEMMA StageBalances ==
  ASSUME Shared, NEW p \in Processes, Forward(p),
         NEW place \in {"stage", "fixer", "check"}, NEW o, NEW hs,
         NEW s \in 0..NStages - 1,
         place = "fixer" => o # NoOffer,
         \A b : Staged(p, b, block[p][1].redo) =>
                 Balanced(place, o, answer, cycle[p], time[p], dt[p], s, hs, b)
  PROVE  Account(place, o, answer, cycle[p], time[p], dt[p], s, hs, block'[p])
<1>1. Books(p)
  BY DEF Shared
<1>2. cycle[p] \in Int /\ \E n \in Blocks : DOMAIN block'[p] = 1..n
  BY <1>1, StageOf DEF Books, Account, Local
<1>3. ASSUME NEW i \in DOMAIN block'[p]
      PROVE  /\ Block(block'[p][i]) /\ block'[p][i].cycle = cycle[p]
             /\ block'[p][i].redo = block'[p][1].redo
             /\ Balanced(place, o, answer, cycle[p], time[p], dt[p], s, hs,
                         block'[p][i])
  <2>1. /\ Staged(p, block'[p][i], block[p][1].redo)
        /\ Staged(p, block'[p][1], block[p][1].redo)
    BY StageOf
  <2> QED
    BY <2>1 DEF Staged
<1> QED
  BY <1>2, <1>3 DEF Account

\* A stage; after the last one the fixer's verdict, if there is a fixer.
LEMMA ForwardKeeps ==
  ASSUME Shared, NEW p \in Processes, Forward(p)
  PROVE  Keeps(p)
<1>1. TypeOK /\ Books(p)
  BY DEF Shared
<1>2. UNCHANGED <<answer, cycle, time, dt, heard, next_time>>
  BY DEF Forward, signals
<1>3. cycle[p] \in Int /\ stage[p] \in 0..NStages - 1
  BY <1>1 DEF Books, Account
<1>4. CASE ~LastStage(p)
  <2>1. UNCHANGED <<pc, hits, offer>>
    BY <1>4 DEF Forward
  <2>2. /\ stage'[p] = stage[p] + 1 /\ DOMAIN stage' = Processes
        /\ \A q \in Processes \ {p} : stage'[q] = stage[q]
    BY <1>1, <1>4 DEF Forward, TypeOK
  <2>3. stage[p] + 1 \in 0..NStages - 1 /\ stage[p] + 1 # 0
    BY <1>3, <1>4, TimeLoopAssumption DEF LastStage
  <2>4. Books(p)'
    <3>1. ASSUME NEW b, Staged(p, b, block[p][1].redo)
          PROVE  Balanced("stage", offer[p], answer, cycle[p], time[p], dt[p],
                          stage[p] + 1, hits, b)
      BY <1>4, <2>3, <3>1 DEF Staged, Balanced, Steady, Chosen, Taken
    <3>2. Account("stage", offer[p], answer, cycle[p], time[p], dt[p],
                  stage[p] + 1, hits, block'[p])
      BY <2>3, <3>1, StageBalances
    <3> QED
      BY <1>2, <2>1, <2>2, <3>2, StageOf DEF Books
  <2>5. ASSUME NEW e, Bound(p, e) PROVE Bound(p, e)'
    BY <1>2, <2>1, <2>5, StageOf DEF Staged, Bound
  <2>6. TypeOK' /\ Others(p)
    BY <1>1, <1>2, <2>1, <2>2, StageOf DEF TypeOK, Others
  <2> QED
    BY <1>2, <2>1, <2>4, <2>5, <2>6, StageOf
    DEF Keeps, Waits, Puts, Ends, Final, Answered
<1>5. CASE LastStage(p)
  <2>1. UNCHANGED stage
    BY <1>5 DEF Forward
  <2>2. /\ DOMAIN hits' = Processes
        /\ \A q \in Processes \ {p} : hits'[q] = hits[q]
    BY <1>1, <1>5 DEF Forward, TypeOK
  <2>3. CASE GravityFixer
    <3> DEFINE v == Asks("limiter" \in hits'[p])
    <3>1. Enter(p, "stage", "fixer", v)
      BY <1>5, <2>3 DEF Forward
    <3>2. /\ pc'[p] = "fixer" /\ DOMAIN pc' = Processes
          /\ \A q \in Processes \ {p} : pc'[q] = pc[q]
          /\ offer'[p].op = "fixer" /\ offer'[p].value = v
          /\ offer'[p] # NoOffer /\ DOMAIN offer' = Processes
          /\ \A q \in Processes \ {p} : offer'[q] = offer[q]
      <4> HIDE DEF v
      <4> QED
        BY <1>1, <3>1, EnterMoves DEF Ops
    <3>3. Books(p)'
      <4>1. ASSUME NEW b, Staged(p, b, block[p][1].redo)
            PROVE  Balanced("fixer", offer'[p], answer, cycle[p], time[p],
                            dt[p], stage[p], hits', b)
        BY <1>5, <4>1 DEF Staged, Balanced, Steady, Chosen, Taken
      <4>2. Account("fixer", offer'[p], answer, cycle[p], time[p], dt[p],
                    stage[p], hits', block'[p])
        BY <1>3, <3>2, <4>1, StageBalances
      <4> QED
        BY <1>2, <2>1, <3>2, <4>2 DEF Books
    <3>4. ASSUME NEW e, Bound(p, e) PROVE Bound(p, e)'
      BY <1>2, <2>3, <3>2, <3>4, StageOf
      DEF Staged, Bound, Comes, Within, From, FromStage
    <3>5. TypeOK' /\ Others(p)
      BY <1>1, <1>2, <2>1, <2>2, <3>2, StageOf DEF TypeOK, Others
    <3> QED
      BY <1>2, <3>2, <3>3, <3>4, <3>5, StageOf
      DEF Keeps, Waits, Puts, Ends, Final, Answered, Ops
  <2>4. CASE ~GravityFixer
    <3>1. Go(p, "stage", "check") /\ UNCHANGED offer
      BY <1>5, <2>4 DEF Forward
    <3>2. /\ pc'[p] = "check" /\ DOMAIN pc' = Processes
          /\ \A q \in Processes \ {p} : pc'[q] = pc[q]
      BY <1>1, <3>1, GoMoves
    <3>3. Books(p)'
      <4>1. ASSUME NEW b, Staged(p, b, block[p][1].redo)
            PROVE  Balanced("check", offer[p], answer, cycle[p], time[p],
                            dt[p], stage[p], hits', b)
        BY <1>5, <2>4, <4>1 DEF Staged, Balanced, Steady, Chosen, Taken
      <4>2. Account("check", offer[p], answer, cycle[p], time[p], dt[p],
                    stage[p], hits', block'[p])
        BY <1>3, <4>1, StageBalances
      <4> QED
        BY <1>2, <2>1, <3>1, <3>2, <4>2 DEF Books
    <3>4. ASSUME NEW e, Bound(p, e) PROVE Bound(p, e)'
      BY <1>2, <2>4, <3>1, <3>2, <3>4, StageOf
      DEF Staged, Bound, Comes, Within, From, FromStage
    <3>5. TypeOK' /\ Others(p)
      BY <1>1, <1>2, <2>1, <2>2, <3>1, <3>2, StageOf DEF TypeOK, Others
    <3> QED
      BY <1>2, <3>1, <3>2, <3>3, <3>4, <3>5, StageOf
      DEF Keeps, Waits, Puts, Ends, Final, Answered
  <2> QED
    BY <2>3, <2>4
<1> QED
  BY <1>4, <1>5

----------------------------------------------------------------------------
(* A step of one process and the others.                                   *)

\* Every step of a process keeps its bound, its part and its books.
LEMMA StepKeeps ==
  ASSUME Shared, NEW p \in Processes, Step(p), ~WriteSuperResolution(p)
  PROVE  Keeps(p)
<1>1. CASE LeaveLoop(p) \/ StartCycle(p) \/ ChooseStep(p) \/ PrintCycle(p)
  BY <1>1, LeaveLoopKeeps, StartCycleKeeps, ChooseStepKeeps, PrintCycleKeeps
<1>2. CASE Printed(p) \/ Forward(p) \/ FixGravity(p) \/ CheckRedo(p)
  BY <1>2, PrintedKeeps, ForwardKeeps, FixGravityKeeps, CheckRedoKeeps
<1>3. CASE NoSignal(p) \/ SomeSignal(p) \/ Accept(p) \/ Redo(p) \/ GiveUp(p)
  BY <1>3, NoSignalKeeps, SomeSignalKeeps, AcceptKeeps, RedoKeeps, GiveUpKeeps
<1>4. CASE NothingDue(p) \/ WriteRestart(p) \/ Bundle(p) \/ Released(p)
  BY <1>4, NothingDueKeeps, WriteRestartKeeps, BundleKeeps, ReleasedKeeps
<1>5. CASE WriteFinal(p) \/ BundleFinal(p) \/ Report(p)
  BY <1>5, WriteFinalKeeps, BundleFinalKeeps, ReportKeeps
<1>6. CASE LastBarrier(p) \/ Shutdown(p)
  BY <1>6, LastBarrierKeeps, ShutdownKeeps
<1> QED
  BY <1>1, <1>2, <1>3, <1>4, <1>5, <1>6 DEF Step

\* Whoever looks at the hits has left the stages behind, and who is in the
\* stages has not: with a fixer both do not occur at once.
LEMMA HitsAreRead ==
  ASSUME NEW p, NEW q, NEW e, Bound(p, e), Bound(q, e), GravityFixer,
         pc[p] = "stage", offer[p] = NoOffer
  PROVE  pc[q] \notin Taken /\ ~(pc[q] = "fixer" /\ offer[q] = NoOffer)
<1>1. e[1] = "fixer"
  BY DEF Bound, Comes, Within, FromStage
<1>2. CASE pc[q] = "check"
  BY <1>1, <1>2 DEF Bound, Comes, Within, FromCheck
<1>3. CASE pc[q] = "signal"
  BY <1>1, <1>3 DEF Bound, Comes, From
<1>4. CASE pc[q] = "redo"
  BY <1>1, <1>4 DEF Bound, Comes, From, FromOutput, FromHead
<1>5. CASE pc[q] = "fixer" /\ offer[q] = NoOffer
  BY <1>1, <1>5 DEF Bound, Comes, From, FromCheck
<1> QED
  BY <1>2, <1>3, <1>4, <1>5 DEF Taken

\* An account that does not look at the hits.
LEMMA AccountWithoutHits ==
  ASSUME NEW place, NEW o, NEW a, NEW c, NEW t, NEW d, NEW s, NEW hs, NEW bs,
         Account(place, o, a, c, t, d, s, hs, bs), NEW hs2,
         GravityFixer => place \notin Taken /\ ~(place = "fixer" /\ o = NoOffer)
  PROVE  Account(place, o, a, c, t, d, s, hs2, bs)
BY DEF Account, Balanced

\* What the step of p leaves of another process.
LEMMA OthersStay ==
  ASSUME Shared, NEW e, \A q \in Processes : Bound(q, e),
         NEW p \in Processes, Keeps(p), NEW q \in Processes \ {p}
  PROVE  /\ Bound(q, e)' /\ Waits(q)' /\ Books(q)'
         /\ Ends(pc[q], offer[q], answer)' <=> Ends(pc[q], offer[q], answer)
         /\ Answered(q)' <=> Answered(q)
<1>1. /\ answer' = answer
      /\ pc'[q] = pc[q] /\ offer'[q] = offer[q] /\ cycle'[q] = cycle[q]
      /\ time'[q] = time[q] /\ dt'[q] = dt[q] /\ stage'[q] = stage[q]
      /\ block'[q] = block[q] /\ hits'[q] = hits[q] /\ heard'[q] = heard[q]
      /\ next_time'[q] = next_time[q]
  BY DEF Keeps, Others
<1>2. Bound(q, e) /\ Waits(q) /\ Books(q)
  BY DEF Shared
<1>3. Bound(q, e)' /\ Waits(q)'
  BY <1>1, <1>2 DEF Bound, Waits
<1>4. Books(q)'
  <2>1. CASE hits' = hits
    BY <1>1, <1>2, <2>1 DEF Books
  <2>2. CASE pc[p] = "stage"
    <3>1. offer[p] = NoOffer
      BY <2>2, NothingOffered DEF Ops
    <3>2. GravityFixer => /\ pc[q] \notin Taken
                          /\ ~(pc[q] = "fixer" /\ offer[q] = NoOffer)
      BY <2>2, <3>1, HitsAreRead
    <3> QED
      BY <1>1, <1>2, <3>2, AccountWithoutHits DEF Books
  <2> QED
    BY <2>1, <2>2 DEF Keeps
<1>5. Ends(pc[q], offer[q], answer)' <=> Ends(pc[q], offer[q], answer)
  BY <1>1 DEF Ends
<1>6. Answered(q)' <=> Answered(q)
  BY <1>1 DEF Answered
<1> QED
  BY <1>3, <1>4, <1>5, <1>6

\* A step of one process keeps the invariant.
LEMMA ProcessStep ==
  ASSUME IInv, NEW p \in Processes, Keeps(p)
  PROVE  IInv'
<1>1. PICK e : \A q \in Processes : Bound(q, e)
  BY DEF IInv, Together
<1>2. Shared
  BY DEF IInv, Shared
<1>3. ASSUME NEW q \in Processes
      PROVE  /\ Bound(q, e)' /\ Waits(q)' /\ Books(q)'
             /\ Ends(pc[q], offer[q], answer) => Ends(pc[q], offer[q], answer)'
             /\ Answered(q)' => Answered(q)
  <2>1. CASE q = p
    BY <1>1, <2>1 DEF Keeps
  <2>2. CASE q # p
    BY <1>1, <1>2, <2>2, OthersStay
  <2> QED
    BY <2>1, <2>2
<1>4. Together'
  BY <1>3 DEF Together
<1>5. Obeyed'
  BY <1>3 DEF IInv, Obeyed
<1>6. TypeOK'
  BY DEF Keeps
<1> QED
  BY <1>3, <1>4, <1>5, <1>6 DEF IInv

\* What the invariant speaks of.
progress == <<pc, offer, answer, cycle, time, dt, stage, block, hits, heard,
              next_time>>

\* Files, flags and handlers are none of it.
LEMMA NothingElse ==
  ASSUME IInv, UNCHANGED progress
  PROVE  IInv'
<1>1. TypeOK' /\ Together' /\ Obeyed'
  BY DEF IInv, progress, TypeOK, Together, Obeyed, Bound, Answered
<1>2. \A p \in Processes : Waits(p)' /\ Books(p)'
  BY DEF IInv, progress, Waits, Books
<1> QED
  BY <1>1, <1>2 DEF IInv

----------------------------------------------------------------------------
(* A collective.                                                           *)

\* The greatest of bits is 1 when one of them is.
LEMMA MaxOfBits ==
  ASSUME NEW S \in SUBSET {0, 1}, S # {}
  PROVE  Max(S) \in {0, 1} /\ (Max(S) > 0 <=> 1 \in S)
<1>1. \E x \in S : \A y \in S : x >= y
  <2>1. CASE 1 \in S
    BY <2>1
  <2>2. CASE 1 \notin S
    <3>1. S = {0}
      BY <2>2
    <3> QED
      BY <3>1
  <2> QED
    BY <2>1, <2>2
<1>2. Max(S) \in S /\ \A y \in S : Max(S) >= y
  BY <1>1 DEF Max
<1>3. Max(S) = 0 \/ Max(S) = 1
  BY <1>2
<1>4. CASE Max(S) = 0
  <2>1. 1 \notin S
    BY <1>2, <1>4
  <2> QED
    BY <1>4, <2>1
<1>5. CASE Max(S) = 1
  BY <1>2, <1>5
<1> QED
  BY <1>3, <1>4, <1>5

\* Every collective leads somewhere.
LEMMA FromSome ==
  ASSUME NEW op \in Ops, NEW a, NEW c, NEW t, NEW d, NEW r, NEW n
  PROVE  \E f : From(op, a, c, t, d, r, n, f)
<1>1. CASE op = "parts"
  BY <1>1 DEF From
<1>2. CASE op = "bundle"
  BY <1>2 DEF From
<1>3. CASE op = "dt"
  BY <1>3 DEF From
<1>4. CASE op = "diagnostics"
  BY <1>4 DEF From
<1>5. CASE op = "fixer"
  BY <1>5 DEF From
<1>6. CASE op = "signal"
  BY <1>6 DEF From
<1>7. CASE op = "redo"
  BY <1>7 DEF From
<1>8. CASE op = "final_parts"
  BY <1>8 DEF From
<1>9. CASE op = "final_bundle"
  BY <1>9 DEF From
<1>10. CASE op = "barrier"
  BY <1>10 DEF From
<1> QED
  BY <1>1, <1>2, <1>3, <1>4, <1>5, <1>6, <1>7, <1>8, <1>9, <1>10 DEF Ops

\* The answer takes the place of the hits that it tells of.
LEMMA AccountAnswered ==
  ASSUME NEW place, NEW o, NEW a, NEW c, NEW t, NEW d, NEW s, NEW hs, NEW bs,
         Account(place, o, a, c, t, d, s, hs, bs), o # NoOffer, NEW a2,
         place = "fixer" => a2 = 0 \/ AnyHit(hs),
         place = "redo" /\ AnyHit(hs) => a2 > 0
  PROVE  Account(place, NoOffer, a2, c, t, d, s, hs, bs)
BY DEF Account, Balanced

\* All processes are in the same collective, and its answer is what they need.
LEMMA AnswerOf ==
  ASSUME IInv, Collect, NEW x \in Processes
  PROVE  /\ \A p \in Processes : pc[p] = pc[x] /\ offer[p] # NoOffer
         /\ pc[x] \in Ops
         /\ pc[x] = "fixer" => answer' = 0 \/ AnyHit(hits)
         /\ pc[x] = "redo" /\ AnyHit(hits) => answer' > 0
         /\ pc[x] = "signal" /\ (\E p \in Processes : heard[p]) => answer' > 0
<1>1. \A p \in Processes : offer[p] # NoOffer
  BY DEF Collect
<1>2. \A p \in Processes : pc[p] = pc[x]
  BY <1>1 DEF IInv, Together, Bound, Comes
<1>3. \A p \in Processes : /\ pc[p] \in Ops /\ offer[p].op = pc[p]
                           /\ Puts(pc[p], offer[p], hits[p], heard[p])
  BY <1>1 DEF IInv, Waits, Puts
<1>4. ASSUME pc[x] # "dt"
      PROVE  answer' = Max(Values)
  BY <1>2, <1>3, <1>4 DEF Collect
<1>5. Values # {}
  BY DEF Values
<1>6. CASE pc[x] = "fixer"
  <2>1. \A p \in Processes : offer[p].value = Asks("limiter" \in hits[p])
    BY <1>1, <1>2, <1>3, <1>6 DEF Puts
  <2>2. Values \in SUBSET {0, 1}
    BY <2>1 DEF Values, Asks
  <2>3. 1 \in Values => AnyHit(hits)
    BY <2>1 DEF Values, Asks, AnyHit
  <2> QED
    BY <1>1, <1>2, <1>3, <1>4, <1>5, <1>6, <2>2, <2>3, MaxOfBits
<1>7. CASE pc[x] = "redo"
  <2>1. \A p \in Processes : offer[p].value = Asks(hits[p] # {})
    BY <1>1, <1>2, <1>3, <1>7 DEF Puts
  <2>2. Values \in SUBSET {0, 1}
    BY <2>1 DEF Values, Asks
  <2>3. AnyHit(hits) => 1 \in Values
    BY <2>1 DEF Values, Asks, AnyHit
  <2> QED
    BY <1>1, <1>2, <1>3, <1>4, <1>5, <1>7, <2>2, <2>3, MaxOfBits
<1>8. CASE pc[x] = "signal"
  <2>1. \A p \in Processes : offer[p].value = Asks(heard[p])
    BY <1>1, <1>2, <1>3, <1>8 DEF Puts
  <2>2. Values \in SUBSET {0, 1}
    BY <2>1 DEF Values, Asks
  <2>3. (\E p \in Processes : heard[p]) => 1 \in Values
    BY <2>1 DEF Values, Asks
  <2> QED
    BY <1>1, <1>2, <1>3, <1>4, <1>5, <1>8, <2>2, <2>3, MaxOfBits
<1> QED
  BY <1>1, <1>2, <1>3, <1>6, <1>7, <1>8

\* A collective keeps the invariant.
LEMMA CollectKeeps ==
  ASSUME IInv, Collect
  PROVE  IInv'
<1>1. /\ UNCHANGED <<pc, cycle, time, dt, stage, block, hits, heard, next_time>>
      /\ offer' = [p \in Processes |-> NoOffer]
  BY DEF Collect, loop, signals
<1>2. TypeOK'
  BY <1>1 DEF IInv, TypeOK
<1>3. ASSUME NEW p \in Processes PROVE Waits(p)' /\ Books(p)'
  <2>1. Waits(p)'
    BY <1>1 DEF Waits, Puts
  <2>2. Account(pc[p], offer[p], answer, cycle[p], time[p], dt[p], stage[p],
                hits, block[p]) /\ offer[p] # NoOffer
    BY AnswerOf DEF IInv, Books
  <2>3. Account(pc[p], NoOffer, answer', cycle[p], time[p], dt[p], stage[p],
                hits, block[p])
    BY <2>2, AnswerOf, AccountAnswered
  <2> QED
    BY <1>1, <2>1, <2>3 DEF Books
<1>4. Together'
  <2>1. PICK e : \A p \in Processes : Bound(p, e)
    BY DEF IInv, Together
  <2>2. \A p \in Processes :
          /\ e = <<pc[p], cycle[p], time[p], dt[p], block[p][1].redo,
                   next_time[p]>>
          /\ pc[p] \in Ops
    BY <2>1, AnswerOf DEF Bound, Comes
  <2>3. CASE Processes = {}
    BY <2>3 DEF Together
  <2>4. CASE Processes # {}
    <3>1. e[1] \in Ops
      BY <2>2, <2>4
    <3>2. PICK f : From(e[1], answer', e[2], e[3], e[4], e[5], e[6], f)
      BY <3>1, FromSome
    <3>3. ASSUME NEW p \in Processes PROVE Bound(p, f)'
      <4>1. /\ e[1] = pc[p] /\ e[2] = cycle[p] /\ e[3] = time[p]
            /\ e[4] = dt[p] /\ e[5] = block[p][1].redo /\ e[6] = next_time[p]
        BY <2>2
      <4>2. From(pc[p], answer', cycle[p], time[p], dt[p], block[p][1].redo,
                 next_time[p], f)
        BY <3>2, <4>1
      <4>3. Within(pc[p], cycle[p], time[p], dt[p], block[p][1].redo,
                   next_time[p], f)
        BY <2>2 DEF Within, Ops
      <4> QED
        BY <1>1, <4>2, <4>3 DEF Bound, Comes
    <3> QED
      BY <3>3 DEF Together
  <2> QED
    BY <2>3, <2>4
<1>5. Obeyed'
  <2>1. SUFFICES ASSUME NEW p \in Processes, NEW q \in Processes,
                        Answered(p)'
                 PROVE  Ends(pc[q], offer[q], answer)'
    BY DEF Obeyed
  <2>2. heard[p]
    BY <1>1, <2>1 DEF Answered
  <2>3. CASE pc[p] = "signal"
    BY <1>1, <2>2, <2>3, AnswerOf DEF Ends
  <2>4. CASE pc[p] # "signal"
    <3>1. Ends(pc[q], offer[q], answer)
      BY <2>2, <2>4 DEF IInv, Obeyed, Answered
    <3>2. offer[q] # NoOffer
      BY DEF Collect
    <3> QED
      BY <1>1, <3>1, <3>2 DEF Ends
  <2> QED
    BY <2>3, <2>4
<1> QED
  BY <1>2, <1>3, <1>4, <1>5 DEF IInv

----------------------------------------------------------------------------
(* The theorems.                                                           *)

\* At the start everybody comes to the first output.
LEMMA InitKeeps ==
  ASSUME Init
  PROVE  IInv
<1>1. PICK n \in Blocks :
        block = [p \in Processes |-> [i \in 1..n |-> Fresh]]
  BY DEF Init
<1>2. n \in Nat /\ n # 0 /\ 0 \in 0..NStages - 1
  BY TimeLoopAssumption
<1>3. TypeOK
  BY <1>1 DEF Init, TypeOK
<1>4. ASSUME NEW p \in Processes
      PROVE  /\ pc[p] = "output" /\ offer[p] = NoOffer /\ cycle[p] = 0
             /\ time[p] = 0 /\ dt[p] = 0 /\ stage[p] = 0 /\ next_time[p] = 0
             /\ heard[p] = FALSE /\ DOMAIN block[p] = 1..n
             /\ \A i \in 1..n : block[p][i] = Fresh
             /\ block[p][1].redo = 0
  BY <1>1, <1>2 DEF Init, Fresh
<1>5. Together
  BY <1>4 DEF Together, Bound, Comes, From, Within
<1>6. Obeyed
  BY <1>4 DEF Obeyed, Answered
<1>7. ASSUME NEW p \in Processes PROVE Waits(p) /\ Books(p)
  <2>1. Block(Fresh) /\ Fresh.cycle = 0 /\ Fresh.redo = 0
        /\ Fresh.u = <<0, 0>> /\ Fresh.fixed + Fresh.pending = 0
    BY DEF Fresh, Block, Fields
  <2>2. Balanced("output", NoOffer, answer, 0, 0, 0, 0, hits, Fresh)
    BY <2>1 DEF Balanced, Steady, Chosen, Taken
  <2>3. Account("output", NoOffer, answer, 0, 0, 0, 0, hits, block[p])
    <3>1. \A i \in DOMAIN block[p] :
            /\ Block(block[p][i]) /\ block[p][i].cycle = 0
            /\ block[p][i].redo = block[p][1].redo
            /\ Balanced("output", NoOffer, answer, 0, 0, 0, 0, hits,
                        block[p][i])
      BY <1>4, <2>1, <2>2
    <3> QED
      BY <1>1, <1>2, <1>4, <3>1 DEF Account
  <2> QED
    BY <1>4, <2>3 DEF Waits, Puts, Books
<1> QED
  BY <1>3, <1>5, <1>6, <1>7 DEF IInv

\* Every step keeps the invariant.
LEMMA NextKeeps ==
  ASSUME IInv, [Next]_vars
  PROVE  IInv'
<1>1. Shared
  BY DEF IInv, Shared
<1>2. CASE Collect
  BY <1>2, CollectKeeps
<1>3. ASSUME NEW p \in Processes, Step(p), ~WriteSuperResolution(p) PROVE IInv'
  BY <1>1, <1>3, StepKeeps, ProcessStep
<1>4. ASSUME NEW p \in Processes, WriteSuperResolution(p) \/ SetSignalFlag(p)
      PROVE  IInv'
  BY <1>4, NothingElse
  DEF WriteSuperResolution, SetSignalFlag, progress, loop
<1>5. CASE UNCHANGED vars
  BY <1>5, NothingElse DEF vars, progress, loop, signals
<1> QED
  BY <1>2, <1>3, <1>4, <1>5 DEF Next, Done

\* The invariant that the theorems below rest on: all processes come to the
\* same collective next, what they put in it is true, the books of every block
\* fit its place in the loop, and who has heard a signal takes all along.
THEOREM Invariant == Spec => []IInv
<1>1. Init => IInv
  BY InitKeeps
<1>2. IInv /\ [Next]_vars => IInv'
  BY NextKeeps
<1> QED
  BY <1>1, <1>2, PTL DEF Spec

\* dt is one number for the whole run, so redo is one decision for the whole
\* run: processes that wait in a collective wait in the same one, in the same
\* cycle at the same time after the same number of redos, and none waits for a
\* process that has left.
THEOREM DecideAsOne == Spec => []OneDecision
<1>1. ASSUME IInv PROVE OneDecision
  <2>1. PICK e : \A p \in Processes : Bound(p, e)
    BY <1>1 DEF IInv, Together
  <2>2. SUFFICES ASSUME NEW p \in Processes, NEW q \in Processes,
                        offer[p] # NoOffer
                 PROVE  /\ pc[q] # "done"
                        /\ offer[q] # NoOffer =>
                             /\ offer[p].op = offer[q].op
                             /\ cycle[p] = cycle[q] /\ time[p] = time[q]
                             /\ block[p][1].redo = block[q][1].redo
    BY DEF OneDecision
  <2>3. /\ e = <<pc[p], cycle[p], time[p], dt[p], block[p][1].redo,
                 next_time[p]>>
        /\ pc[p] \in Ops /\ offer[p].op = pc[p]
    BY <1>1, <2>1, <2>2 DEF Bound, Comes, IInv, Waits, Puts
  <2>4. pc[q] = "done" => e[1] = "done"
    BY <2>1 DEF Bound, Comes, Within
  <2>5. pc[q] # "done"
    BY <2>3, <2>4 DEF Ops
  <2>6. ASSUME offer[q] # NoOffer
        PROVE  /\ e = <<pc[q], cycle[q], time[q], dt[q], block[q][1].redo,
                        next_time[q]>>
               /\ offer[q].op = pc[q]
    BY <1>1, <2>1, <2>6 DEF Bound, Comes, IInv, Waits, Puts
  <2> QED
    BY <2>3, <2>5, <2>6
<1> QED
  BY <1>1, Invariant, PTL

\* At the head of the loop every block of every process has been advanced by
\* exactly the time that has passed, counts the accepted steps, and has
\* counted the fixer's energy once for each of them: rejected steps, those of
\* other processes too, leave no trace.
THEOREM RedoLeavesNoTrace == Spec => []BooksBalance
<1>1. ASSUME IInv PROVE BooksBalance
  BY <1>1 DEF IInv, Books, Account, Balanced, BooksBalance, Local, Steady, Final
<1> QED
  BY <1>1, Invariant, PTL

\* A signal that some process has when it checks the step ends the run: no
\* process starts another cycle once that process has its answer.
THEOREM SignalStops == Spec => []SignalStopsTheRun
<1>1. ASSUME IInv PROVE SignalStopsTheRun
  BY <1>1 DEF IInv, Obeyed, Answered, Ends, Final, SignalStopsTheRun
<1> QED
  BY <1>1, Invariant, PTL

-----------------------------------------------------------------------------
(***************************************************************************)
(* The pool, for any finite set of workers and any number of jobs.         *)
(*                                                                         *)
(* The invariants of BlockWorkerPool are not inductive: that Return finds  *)
(* remaining = 0 says nothing about the workers by itself.  PoolInv adds   *)
(* what the counters mean: remaining is the number of workers that still   *)
(* owe a completion, a worker's seen_generation counts the jobs it has     *)
(* taken, and error_ is set as soon as a worker leaves its exception       *)
(* handler.                                                                *)
(***************************************************************************)
InSubmit == cpc \in {"notify", "await", "asleep"}

\* The workers that have not completed the current job.
Pending == {w \in Workers : seen[w] # generation \/ wpc[w] \in Busy}

\* PoolTypeOK without the range of remaining, which follows from its meaning.
PoolTypes == /\ stopping \in BOOLEAN
             /\ generation \in Nat
             /\ remaining \in Int
             /\ func \in Nat
             /\ error \in (Nat \X Workers) \cup {NoError}
             /\ cpc \in {"idle", "notify", "await", "asleep",
                         "stopping", "join", "joined"}
             /\ wpc \in [Workers -> {"test", "asleep", "run", "catch", "finish", "exit"}]
             /\ seen \in [Workers -> Nat]
             /\ task \in [Workers -> Nat]
             /\ calls \in Nat
             /\ thrown \in (Nat \X Workers) \cup {NoError}
             /\ ran \in [Workers -> Nat]
             /\ threw \subseteq Nat \X Workers

PoolCounters == /\ generation = calls
                /\ func = calls
                /\ stopping <=> cpc \in {"stopping", "join", "joined"}

WorkerOK(w) ==
  /\ seen[w] <= generation
  /\ wpc[w] \in Busy => seen[w] = generation /\ task[w] = calls
  /\ wpc[w] = "exit" => stopping
  /\ wpc[w] = "run" => seen[w] = ran[w] + 1
  /\ wpc[w] # "run" => seen[w] = ran[w]

Completion == IF InSubmit
              THEN /\ remaining = Cardinality(Pending)
                   /\ \A w \in Workers : generation <= seen[w] + 1
              ELSE /\ remaining \in 0..Cardinality(Workers)
                   /\ Pending = {}

Errors == /\ \A t \in threw : t[1] <= calls
          /\ \A w \in Workers :
                <<calls, w>> \in threw => seen[w] = generation /\ wpc[w] # "run"
          /\ IF InSubmit
             THEN /\ error # NoError =>
                        \E w \in Workers : error = <<calls, w>> /\ error \in threw
                  /\ \A w \in Workers :
                        <<calls, w>> \in threw /\ wpc[w] # "catch" => error # NoError
                  /\ \A w \in Workers : wpc[w] = "catch" => <<calls, w>> \in threw
             ELSE error = NoError

PoolInv == /\ PoolTypes
           /\ PoolCounters
           /\ \A w \in Workers : WorkerOK(w)
           /\ Completion
           /\ Errors
           /\ ErrorsReachTheCaller

-----------------------------------------------------------------------------
\* Pending is a finite set, and it is counted between 0 and the workers.
LEMMA PendingFinite ==
  /\ IsFiniteSet(Workers) /\ Cardinality(Workers) \in Nat
  /\ IsFiniteSet(Pending) /\ Cardinality(Pending) \in 0..Cardinality(Workers)
<1>1. Pending \in SUBSET Workers
  BY DEF Pending
<1>2. IsFiniteSet(Workers) /\ Cardinality(Workers) \in Nat
  BY PoolAssumption, FS_CardinalityType
<1>3. IsFiniteSet(Pending) /\ Cardinality(Pending) <= Cardinality(Workers)
  BY <1>1, <1>2, FS_Subset
<1>4. Cardinality(Pending) \in Nat
  BY <1>3, FS_CardinalityType
<1> QED
  BY <1>2, <1>3, <1>4

\* The pool starts in the invariant: no job, nothing owed.
LEMMA PoolStarts == PoolInit => PoolInv
<1> SUFFICES ASSUME PoolInit PROVE PoolInv
  OBVIOUS
<1>1. Cardinality(Workers) \in Nat
  BY PendingFinite
<1>2. PoolTypes
  <2>1. wpc \in [Workers -> {"test", "asleep", "run", "catch", "finish", "exit"}]
    BY DEF PoolInit
  <2>2. seen \in [Workers -> Nat] /\ task \in [Workers -> Nat] /\ ran \in [Workers -> Nat]
    BY DEF PoolInit
  <2>3. remaining \in Int /\ error = NoError /\ thrown = NoError /\ cpc = "idle"
    BY <1>1 DEF PoolInit
  <2>4. stopping \in BOOLEAN /\ generation \in Nat /\ func \in Nat /\ calls \in Nat
    BY DEF PoolInit
  <2>5. threw \subseteq Nat \X Workers
    BY DEF PoolInit
  <2> QED
    BY <2>1, <2>2, <2>3, <2>4, <2>5 DEF PoolTypes
<1>3. PoolCounters /\ (\A w \in Workers : WorkerOK(w))
  BY DEF PoolInit, PoolCounters, WorkerOK, Busy
<1>4. Completion
  BY <1>1 DEF PoolInit, Completion, InSubmit, Pending, Busy
<1>5. Errors /\ ErrorsReachTheCaller
  BY DEF PoolInit, Errors, InSubmit, ErrorsReachTheCaller
<1> QED
  BY <1>2, <1>3, <1>4, <1>5 DEF PoolInv

\* Every step of the caller and of a worker preserves it.
LEMMA PoolSteps == PoolInv /\ [PoolNext]_poolVars => PoolInv'
<1> SUFFICES ASSUME PoolInv, [PoolNext]_poolVars PROVE PoolInv'
  OBVIOUS
<1> USE DEF PoolInv
<1>0. NoError \notin Nat \X Workers /\ Cardinality(Workers) \in Nat
  BY PoolAssumption, PendingFinite
<1>1. CASE Submit
  <2>1. PoolTypes'
    BY <1>0, <1>1 DEF Submit, PoolTypes, Count
  <2>2. PoolCounters' /\ (\A w \in Workers : WorkerOK(w)')
    BY <1>1 DEF Submit, PoolTypes, PoolCounters, WorkerOK, Busy, Completion, InSubmit, Pending
  <2>3. Pending' = Workers /\ InSubmit'
    BY <1>1 DEF Submit, PoolTypes, Pending, WorkerOK, PoolCounters, InSubmit
  <2>4. Completion'
    <3>1. \A w \in Workers : seen[w] = generation
      BY <1>1 DEF Submit, Completion, InSubmit, Pending
    <3> QED
      BY <1>1, <2>3, <3>1 DEF Submit, Count, Completion, PoolTypes
  <2>5. \A w \in Workers : wpc[w] # "catch" /\ <<calls + 1, w>> \notin threw
    BY <1>1 DEF Submit, PoolTypes, Completion, InSubmit, Pending, Errors, Busy
  <2>6. Errors' /\ ErrorsReachTheCaller'
    BY <1>1, <2>3, <2>5 DEF Submit, PoolTypes, Errors, ErrorsReachTheCaller, InSubmit
  <2> QED
    BY <2>1, <2>2, <2>4, <2>6
<1>2. CASE NotifyJob
  <2>1. PoolTypes'
    BY <1>2 DEF NotifyJob, pool, PoolTypes, Woken
  <2>2. Pending' = Pending
    BY <1>2 DEF NotifyJob, pool, PoolTypes, Woken, Pending, Busy
  <2>3. PoolCounters' /\ (\A w \in Workers : WorkerOK(w)')
    BY <1>2 DEF NotifyJob, pool, PoolTypes, Woken, PoolCounters, WorkerOK, Busy
  <2>4. Completion'
    BY <1>2, <2>2 DEF NotifyJob, pool, Completion, InSubmit
  <2>5. Errors' /\ ErrorsReachTheCaller'
    BY <1>2 DEF NotifyJob, pool, PoolTypes, Woken, Errors, ErrorsReachTheCaller, InSubmit
  <2> QED
    BY <2>1, <2>3, <2>4, <2>5
<1>3. CASE SleepUntilDone
  <2>1. Pending' = Pending
    BY <1>3 DEF SleepUntilDone, pool, Pending
  <2> QED
    BY <1>3, <2>1 DEF SleepUntilDone, pool, PoolTypes, PoolCounters, WorkerOK, Completion,
                 Errors, ErrorsReachTheCaller, InSubmit
<1>4. CASE Return
  <2>1. Pending = {} /\ Pending' = Pending /\ InSubmit /\ ~InSubmit'
    BY <1>4, PendingFinite, FS_EmptySet DEF Return, Completion, InSubmit, Pending
  <2>2. PoolTypes' /\ PoolCounters' /\ (\A w \in Workers : WorkerOK(w)')
    BY <1>4 DEF Return, PoolTypes, PoolCounters, WorkerOK
  <2>3. Completion'
    BY <1>0, <1>4, <2>1 DEF Return, Completion
  <2>4. \A w \in Workers : wpc[w] # "catch"
    BY <2>1 DEF Pending, Busy
  <2>5. Errors'
    BY <1>4, <2>1 DEF Return, Errors
  <2>6. ErrorsReachTheCaller'
    BY <1>4, <2>1, <2>4 DEF Return, Errors, ErrorsReachTheCaller
  <2> QED
    BY <2>2, <2>3, <2>5, <2>6
<1>5. CASE Stop \/ Join \/ Destroyed \/ UNCHANGED poolVars
  <2>1. Pending' = Pending
    BY <1>5 DEF Stop, Join, Destroyed, poolVars, pool, Pending
  <2>2. InSubmit' = InSubmit
    BY <1>5 DEF Stop, Join, Destroyed, poolVars, pool, InSubmit
  <2>3. PoolTypes' /\ PoolCounters'
    <3>1. CASE Stop
      BY <3>1 DEF Stop, PoolTypes, PoolCounters
    <3>2. CASE Join
      BY <3>2 DEF Join, pool, PoolTypes, PoolCounters
    <3>3. CASE Destroyed \/ UNCHANGED poolVars
      BY <3>3 DEF Destroyed, poolVars, pool, PoolTypes, PoolCounters
    <3> QED
      BY <1>5, <3>1, <3>2, <3>3
  <2>4. \A w \in Workers : WorkerOK(w)'
    <3>1. UNCHANGED <<generation, wpc, seen, task, calls, ran>> /\ stopping' \in {stopping, TRUE}
      BY <1>5 DEF Stop, Join, Destroyed, poolVars, pool
    <3> QED
      BY <3>1 DEF WorkerOK, PoolTypes
  <2>5. Completion' /\ Errors' /\ ErrorsReachTheCaller'
    BY <1>5, <2>1, <2>2 DEF Stop, Join, Destroyed, poolVars, pool, Completion, Errors,
                            ErrorsReachTheCaller
  <2> QED
    BY <2>3, <2>4, <2>5
<1>6. CASE NotifyStop
  <2>1. Pending' = Pending
    BY <1>6 DEF NotifyStop, pool, PoolTypes, Woken, Pending, Busy
  <2> QED
    BY <1>6, <2>1 DEF NotifyStop, pool, PoolTypes, Woken, PoolCounters, WorkerOK, Completion,
                 Errors, ErrorsReachTheCaller, InSubmit, Busy
<1>7. ASSUME NEW w \in Workers, Sleep(w) \/ Exit(w)
      PROVE  PoolInv'
  <2>1. Pending' = Pending
    BY <1>7 DEF Sleep, Exit, Move, pool, PoolTypes, Pending, Busy
  <2>2. PoolTypes' /\ PoolCounters' /\ (\A v \in Workers : WorkerOK(v)')
    BY <1>7 DEF Sleep, Exit, Move, pool, PoolTypes, PoolCounters, WorkerOK, Busy
  <2>3. Completion'
    BY <1>7, <2>1 DEF Sleep, Exit, Move, pool, Completion, InSubmit
  <2>4. Errors' /\ ErrorsReachTheCaller'
    BY <1>7 DEF Sleep, Exit, Move, pool, PoolTypes, Errors, ErrorsReachTheCaller, InSubmit
  <2> QED
    BY <2>2, <2>3, <2>4
<1>8. ASSUME NEW w \in Workers, Take(w)
      PROVE  PoolInv'
  <2>1. Pending' = Pending
    BY <1>8 DEF Take, Move, NewJob, pool, PoolTypes, Pending, Busy
  <2>2. InSubmit
    BY <1>8 DEF Take, NewJob, Completion, Pending, PoolTypes
  <2>3. PoolTypes' /\ PoolCounters'
    BY <1>8 DEF Take, Move, pool, PoolTypes, PoolCounters
  <2>4. \A v \in Workers : WorkerOK(v)'
    BY <1>8, <2>2 DEF Take, Move, NewJob, pool, PoolTypes, PoolCounters, WorkerOK, Busy,
                      Completion
  <2>5. Completion'
    BY <1>8, <2>1, <2>2 DEF Take, Move, pool, PoolTypes, Completion, InSubmit
  <2>6. <<calls, w>> \notin threw
    BY <1>8 DEF Take, NewJob, Errors
  <2>7. Errors' /\ ErrorsReachTheCaller'
    BY <1>8, <2>2, <2>6 DEF Take, Move, pool, PoolTypes, Errors, ErrorsReachTheCaller, InSubmit
  <2> QED
    BY <2>3, <2>4, <2>5, <2>7
<1>9. ASSUME NEW w \in Workers, Succeed(w) \/ Raise(w)
      PROVE  PoolInv'
  <2>1. Pending' = Pending
    BY <1>9 DEF Succeed, Raise, Move, pool, PoolTypes, Pending, Busy
  <2>2. InSubmit
    BY <1>9 DEF Succeed, Raise, Move, Completion, Pending, Busy
  <2>3. task[w] = calls /\ seen[w] = generation /\ wpc[w] = "run"
    BY <1>9 DEF Succeed, Raise, Move, WorkerOK, Busy
  <2>4. PoolTypes' /\ PoolCounters'
    BY <1>9 DEF Succeed, Raise, Move, pool, PoolTypes, PoolCounters
  <2>5. \A v \in Workers : WorkerOK(v)'
    BY <1>9, <2>3 DEF Succeed, Raise, Move, pool, PoolTypes, PoolCounters, WorkerOK, Busy
  <2>6. Completion'
    BY <1>9, <2>1, <2>2 DEF Succeed, Raise, Move, pool, PoolTypes, Completion, InSubmit
  <2>7. Errors' /\ ErrorsReachTheCaller'
    <3>1. CASE Succeed(w)
      BY <3>1, <2>2, <2>3 DEF Succeed, Move, pool, PoolTypes, Errors, ErrorsReachTheCaller, InSubmit
    <3>2. CASE Raise(w)
      BY <3>2, <2>2, <2>3 DEF Raise, Move, pool, PoolTypes, Errors, ErrorsReachTheCaller, InSubmit
    <3> QED
      BY <1>9, <3>1, <3>2
  <2> QED
    BY <2>4, <2>5, <2>6, <2>7
<1>10. ASSUME NEW w \in Workers, Catch(w)
       PROVE  PoolInv'
  <2>1. Pending' = Pending
    BY <1>10 DEF Catch, Move, PoolTypes, Pending, Busy
  <2>2. InSubmit
    BY <1>10 DEF Catch, Move, Completion, Pending, Busy
  <2>3. task[w] = calls /\ <<calls, w>> \in threw /\ wpc[w] = "catch"
    BY <1>10, <2>2 DEF Catch, Move, WorkerOK, Busy, Errors
  <2>4. PoolTypes' /\ PoolCounters' /\ (\A v \in Workers : WorkerOK(v)')
    BY <1>10 DEF Catch, Move, FirstError, PoolTypes, PoolCounters, WorkerOK, Busy
  <2>5. Completion'
    BY <1>10, <2>1, <2>2 DEF Catch, Move, PoolTypes, Completion, InSubmit
  <2>6. error' # NoError /\ error' \in threw /\ \E v \in Workers : error' = <<calls, v>>
    BY <1>0, <1>10, <2>2, <2>3 DEF Catch, FirstError, PoolTypes, Errors
  <2>7. Errors' /\ ErrorsReachTheCaller'
    BY <1>10, <2>2, <2>6 DEF Catch, Move, PoolTypes, Errors, ErrorsReachTheCaller, InSubmit
  <2> QED
    BY <2>4, <2>5, <2>7
<1>11. ASSUME NEW w \in Workers, Finish(w)
       PROVE  PoolInv'
  <2>1. w \in Pending /\ Pending' = Pending \ {w}
    BY <1>11 DEF Finish, Move, PoolTypes, Pending, Busy, WorkerOK
  <2>2. InSubmit /\ InSubmit'
    BY <1>11 DEF Finish, Move, Completion, Pending, Busy, InSubmit
  <2>3. PoolTypes' /\ PoolCounters'
    BY <1>11 DEF Finish, Move, PoolTypes, PoolCounters
  <2>4. \A v \in Workers : WorkerOK(v)'
    BY <1>11 DEF Finish, Move, PoolTypes, PoolCounters, WorkerOK, Busy
  <2>5. Completion'
    <3>1. Cardinality(Pending') = Cardinality(Pending) - 1
      BY <2>1, PendingFinite, FS_RemoveElement
    <3> QED
      BY <1>11, <2>2, <3>1 DEF Finish, Completion
  <2>6. Errors' /\ ErrorsReachTheCaller'
    BY <1>11, <2>2 DEF Finish, Move, PoolTypes, Errors, ErrorsReachTheCaller, InSubmit
  <2> QED
    BY <2>3, <2>4, <2>5, <2>6
<1>12. CASE SpuriousWakeup
  <2>1. Pending' = Pending
    BY <1>12 DEF SpuriousWakeup, Move, pool, PoolTypes, Pending, Busy
  <2>2. InSubmit' = InSubmit
    BY <1>12 DEF SpuriousWakeup, InSubmit
  <2>3. PoolTypes' /\ PoolCounters' /\ (\A w \in Workers : WorkerOK(w)')
    BY <1>12 DEF SpuriousWakeup, Move, pool, PoolTypes, PoolCounters, WorkerOK, Busy
  <2>4. Completion'
    BY <1>12, <2>1, <2>2 DEF SpuriousWakeup, pool, Completion
  <2>5. Errors' /\ ErrorsReachTheCaller'
    BY <1>12, <2>2 DEF SpuriousWakeup, Move, pool, PoolTypes, Errors, ErrorsReachTheCaller
  <2> QED
    BY <2>3, <2>4, <2>5
<1> QED
  BY <1>1, <1>2, <1>3, <1>4, <1>5, <1>6, <1>7, <1>8, <1>9, <1>10, <1>11, <1>12
     DEF PoolNext, CallerStep, WorkerStep

\* The invariant holds in every state of the pool.
THEOREM PoolInvariance == PoolSpec => []PoolInv
<1> QED
  BY PoolStarts, PoolSteps, PTL DEF PoolSpec

-----------------------------------------------------------------------------
\* Every variable keeps its type; remaining_, a size_t, never passes below 0.
THEOREM PoolTypeCorrect == PoolSpec => []PoolTypeOK
<1>1. PoolInv => PoolTypeOK
  BY PendingFinite DEF PoolInv, PoolTypes, Completion, PoolTypeOK
<1> QED
  BY <1>1, PoolInvariance, PTL

\* submit returns only when every worker has executed the job exactly once and
\* has left it.
THEOREM Joined == PoolSpec => []JoinedWhenIdle
<1>1. PoolInv => JoinedWhenIdle
  BY DEF PoolInv, PoolCounters, WorkerOK, Completion, Pending, InSubmit, JoinedWhenIdle, PoolTypes, Busy
<1> QED
  BY <1>1, PoolInvariance, PTL

\* No worker executes a stale job, or a job twice.
THEOREM CurrentJob == PoolSpec => []OnlyTheCurrentJob
<1>1. PoolInv => OnlyTheCurrentJob
  BY DEF PoolInv, PoolCounters, WorkerOK, OnlyTheCurrentJob, PoolTypes, Busy
<1> QED
  BY <1>1, PoolInvariance, PTL

\* submit throws exactly when a worker raised in this job, and what it throws
\* was raised in this job.
THEOREM ErrorsReported == PoolSpec => []ErrorsReachTheCaller
<1>1. PoolInv => ErrorsReachTheCaller
  BY DEF PoolInv
<1> QED
  BY <1>1, PoolInvariance, PTL

\* An exception of a job is never replaced by a later one of the same job.
THEOREM FirstErrorStays == PoolSpec => FirstErrorKept
<1> DEFINE Keep == error # NoError =>
                     \/ error' = error
                     \/ error' = NoError /\ cpc = "await" /\ cpc' = "idle"
<1>1. PoolInv /\ [PoolNext]_poolVars => [Keep]_poolVars
  <2> SUFFICES ASSUME PoolInv, PoolNext PROVE Keep
    OBVIOUS
  <2>1. CASE Submit
    BY <2>1 DEF Submit, PoolInv, Errors, InSubmit
  <2>2. CASE Stop \/ CallerStep \/ SpuriousWakeup \/ Destroyed
    BY <2>2 DEF Stop, CallerStep, NotifyJob, SleepUntilDone, Return, NotifyStop, Join,
                SpuriousWakeup, Destroyed, poolVars, pool
  <2>3. CASE \E w \in Workers : WorkerStep(w)
    BY <2>3 DEF WorkerStep, Sleep, Exit, Take, Succeed, Raise, Catch, Finish,
                FirstError, pool
  <2> QED
    BY <2>1, <2>2, <2>3 DEF PoolNext
<1> QED
  BY <1>1, PoolInvariance, PTL DEF PoolSpec, FirstErrorKept

-----------------------------------------------------------------------------
(* The refinement of ForkJoin, without its fairness.                       *)

\* Initially no round is open and nobody owes a completion.
LEMMA InitRefines == PoolInit => FJ!Init
BY DEF PoolInit, FJ!Init, Completed, Busy

\* A step of the pool opens, completes or returns from a round, or stutters.
LEMMA StepRefines == PoolInv /\ PoolInv' /\ [PoolNext]_poolVars => [FJ!Next]_(FJ!vars)
<1> SUFFICES ASSUME PoolInv, PoolInv', [PoolNext]_poolVars PROVE [FJ!Next]_(FJ!vars)
  OBVIOUS
<1> USE DEF FJ!vars, Completed
<1>1. CASE Submit
  <2>1. seen' = seen /\ wpc' = wpc /\ generation' = generation + 1 /\ threw' = threw
    BY <1>1 DEF Submit
  <2>2. \A w \in Workers : seen[w] # generation'
    BY <2>1 DEF PoolInv, PoolTypes, WorkerOK
  <2>3. Completed' = {}
    BY <2>1, <2>2
  <2> QED
    BY <1>1, <2>3 DEF Submit, FJ!Next, FJ!Open
<1>2. CASE Return
  <2>1. Completed = Workers /\ Completed' = Completed
    BY <1>2, PendingFinite, FS_EmptySet DEF Return, PoolInv, Completion, InSubmit, Pending
  <2>2. \A w \in Workers : wpc[w] # "catch"
    BY <2>1 DEF Busy
  <2>3. IF {w \in Completed : <<calls, w>> \in threw} = {}
        THEN error = NoError
        ELSE \E w \in {w \in Completed : <<calls, w>> \in threw} : error = <<calls, w>>
    BY <1>2, <2>1, <2>2 DEF Return, PoolInv, Errors, InSubmit
  <2> QED
    BY <1>2, <2>1, <2>3 DEF Return, FJ!Next, FJ!Return
<1>3. CASE Stop
  BY <1>3 DEF Stop, FJ!Next, FJ!Close
<1>4. ASSUME NEW w \in Workers, Finish(w)
      PROVE  [FJ!Next]_(FJ!vars)
  <2>1. wpc[w] = "finish" /\ wpc'[w] = "test" /\ \A v \in Workers \ {w} : wpc'[v] = wpc[v]
    BY <1>4 DEF Finish, Move, PoolInv, PoolTypes
  <2>2. seen[w] = generation /\ UNCHANGED <<seen, generation, calls, threw, thrown>>
    BY <1>4, <2>1 DEF Finish, PoolInv, WorkerOK, Busy
  <2>3. w \notin Completed /\ Completed' = Completed \cup {w}
    BY <2>1, <2>2 DEF Busy
  <2>4. cpc \in {"await", "asleep"} \cup {"notify"} /\ cpc' \in {"await", "asleep", "notify"}
    BY <1>4, <2>1 DEF Finish, PoolInv, Completion, InSubmit, Pending, Busy
  <2>5. {v \in Completed' : <<calls', v>> \in threw'} \in
          {{v \in Completed : <<calls, v>> \in threw},
           {v \in Completed : <<calls, v>> \in threw} \cup {w}}
    BY <2>2, <2>3
  <2> QED
    BY <2>2, <2>3, <2>4, <2>5 DEF FJ!Next, FJ!Complete
<1>5. ASSUME NEW w \in Workers, Sleep(w) \/ Exit(w) \/ Take(w) \/ Succeed(w)
                                  \/ Raise(w) \/ Catch(w)
      PROVE  UNCHANGED FJ!vars
  <2>1. UNCHANGED <<generation, cpc, calls, thrown>>
    BY <1>5 DEF Sleep, Exit, Take, Succeed, Raise, Catch, pool
  <2>2. \A v \in Workers \ {w} : wpc'[v] = wpc[v] /\ seen'[v] = seen[v]
    BY <1>5 DEF Sleep, Exit, Take, Succeed, Raise, Catch, Move, PoolInv, PoolTypes
  <2>3. w \in Completed' <=> w \in Completed
    BY <1>5 DEF Sleep, Exit, Take, Succeed, Raise, Catch, Move, PoolInv, PoolTypes, NewJob,
                pool, Busy
  <2>4. Completed' = Completed
    BY <2>1, <2>2, <2>3
  <2>5. \A v \in Completed : <<calls', v>> \in threw' <=> <<calls, v>> \in threw
    BY <1>5, <2>1 DEF Sleep, Exit, Take, Succeed, Raise, Catch, Move, Busy, pool
  <2> QED
    BY <2>1, <2>4, <2>5
<1>6. CASE NotifyJob \/ NotifyStop \/ SpuriousWakeup
  <2>1. UNCHANGED <<generation, seen, calls, threw, thrown>>
    BY <1>6 DEF NotifyJob, NotifyStop, SpuriousWakeup, pool
  <2>2. \A v \in Workers : wpc'[v] \in Busy <=> wpc[v] \in Busy
    BY <1>6 DEF NotifyJob, NotifyStop, SpuriousWakeup, Woken, Move, PoolInv, PoolTypes, Busy
  <2>3. Completed' = Completed
    BY <2>1, <2>2
  <2> QED
    BY <1>6, <2>1, <2>3 DEF NotifyJob, NotifyStop, SpuriousWakeup
<1>7. CASE SleepUntilDone \/ Join \/ Destroyed \/ UNCHANGED poolVars
  BY <1>7 DEF SleepUntilDone, Join, Destroyed, poolVars, pool
<1> QED
  BY <1>1, <1>2, <1>3, <1>4, <1>5, <1>6, <1>7 DEF PoolNext, CallerStep, WorkerStep

\* Every behaviour of the pool is a behaviour of fork-join rounds.
THEOREM PoolIsForkJoin == PoolSpec => FJ!Init /\ [][FJ!Next]_(FJ!vars)
<1> QED
  BY InitRefines, StepRefines, PoolInvariance, PTL DEF PoolSpec
=============================================================================
