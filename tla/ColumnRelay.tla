---------------------------- MODULE ColumnRelay ----------------------------
(***************************************************************************)
(* The blocks of one x1 column in a hydro stage (HydroImpl::_hydro_ref_x1  *)
(* in src/hydro/hydro.cpp, the seam fluxes in src/hydro/hydro_forward.cpp, *)
(* the messages between blocks in src/layout/layout.cpp): the anchor of    *)
(* the hydrostatic reference goes down the column, rows of the reference   *)
(* go over each seam in both directions, and the fluxes of the faces       *)
(* between processes are averaged.  A block of the same process is reached *)
(* through two boards, another process through messages.                   *)
(*                                                                         *)
(* Data is the number of the stage it was computed in; 0 is no data.       *)
(* Waits on a board have a timeout of five minutes.  It is supposed not to *)
(* expire while all blocks of the column run.  The send of a message is    *)
(* complete when the transport says so: at any time after it was posted,   *)
(* for certain only once the message is received.  The halo exchanges that *)
(* end a stage and keep the blocks together are left out.                  *)
(***************************************************************************)
EXTENDS Integers, Sequences

CONSTANTS pz,          \* blocks of the column, 1 at the bottom
          Process,     \* Process[b]: owner_process_rank
          MaxStages,   \* bound on the stages of the run
          MayFail      \* blocks whose computation may throw

Column == 1..pz

ASSUME ColumnAssumption ==
  /\ pz \in Nat \ {0} /\ MaxStages \in Nat \ {0}
  /\ DOMAIN Process = Column
  /\ MayFail \subseteq Column

Seams(b) == {b - 1, b + 1} \cap Column

IsLocal(b, c) == Process[b] = Process[c]      \* is_local_block

\* kWbRefTag, kWbGhostUpTag and kWbGhostDnTag, kSeamFluxUpTag and
\* kSeamFluxDnTag: the direction follows from sender and receiver.
Tags == {"anchor", "rows", "flux"}

\* From a block to the next one, of another process, with a tag.
Channels == {m \in Column \X Column \X Tags :
               /\ m[2] \in Seams(m[1]) /\ ~IsLocal(m[1], m[2])
               /\ m[3] = "anchor" => m[2] < m[1]}

VARIABLES pc,         \* where each block is
          stage,      \* the stage each block is in
          anchor,     \* the anchor a block has taken
          reference,  \* the reference a block has computed
          rows,       \* rows[b][c]: the reference of c in the ghost rows of b
          flux,       \* flux[b][c]: the flux of c averaged into that of b
          anchors,    \* g_x1_anchors, by receiving block
          mail,       \* g_local_mail, by sender and receiver
          net         \* messages posted and not yet received

results == <<anchor, reference, rows, flux>>
boards == <<anchors, mail>>
vars == <<pc, stage, results, boards, net>>

None == 0

Init == /\ pc = [b \in Column |-> "take"]
        /\ stage = [b \in Column |-> 1]
        /\ anchor = [b \in Column |-> None]
        /\ reference = [b \in Column |-> None]
        /\ rows = [b \in Column |-> [c \in Seams(b) |-> None]]
        /\ flux = [b \in Column |-> [c \in Seams(b) |-> None]]
        /\ anchors = [b \in Column |-> None]
        /\ mail = [l \in Column \X Column |-> None]
        /\ net = [m \in Channels |-> <<>>]

Move(b, from, to) == pc[b] = from /\ pc' = [pc EXCEPT ![b] = to]

\* What b sends to the neighbors in cs that are blocks of other processes.
Sent(b, cs, tag) ==
  [m \in Channels |-> IF m[1] = b /\ m[2] \in cs /\ m[3] = tag
                      THEN Append(net[m], stage[b]) ELSE net[m]]

\* All that b sent has been received, as far as the waits for its sends tell.
Received(b) == \A m \in Channels : m[1] = b => net[m] = <<>>

-----------------------------------------------------------------------------
(* The relay of the anchor                                                 *)

TakeAnchorTop(b) == /\ b = pz
                    /\ Move(b, "take", "compute")
                    /\ UNCHANGED <<stage, results, boards, net>>

\* Faulty: the anchor stays on the board.
TakeAnchorCopy(b) == /\ b < pz /\ IsLocal(b, b + 1)
                     /\ Move(b, "take", "compute")
                     /\ anchors[b] # None
                     /\ anchor' = [anchor EXCEPT ![b] = anchors[b]]
                     /\ UNCHANGED <<stage, reference, rows, flux, boards, net>>

TakeAnchorLocal(b) == /\ b < pz /\ IsLocal(b, b + 1)
                      /\ Move(b, "take", "compute")
                      /\ anchors[b] # None
                      /\ anchor' = [anchor EXCEPT ![b] = anchors[b]]
                      /\ anchors' = [anchors EXCEPT ![b] = None]
                      /\ UNCHANGED <<stage, reference, rows, flux, mail, net>>

TakeAnchorRemote(b) ==
  LET m == <<b + 1, b, "anchor">> IN
  /\ m \in Channels
  /\ Move(b, "take", "compute")
  /\ net[m] # <<>>
  /\ anchor' = [anchor EXCEPT ![b] = Head(net[m])]
  /\ net' = [net EXCEPT ![m] = Tail(@)]
  /\ UNCHANGED <<stage, reference, rows, flux, boards>>

\* Faulty: the anchor is not passed on.
ComputeOnly(b) == /\ Move(b, "compute", "post_up")
                  /\ reference' = [reference EXCEPT ![b] = stage[b]]
                  /\ UNCHANGED <<stage, anchor, rows, flux, boards, net>>

Compute(b) == /\ Move(b, "compute", "pass")
              /\ reference' = [reference EXCEPT ![b] = stage[b]]
              /\ UNCHANGED <<stage, anchor, rows, flux, boards, net>>

\* It throws, and the block leaves the job.
ComputeFails(b) == /\ b \in MayFail
                   /\ Move(b, "compute", "failed")
                   /\ UNCHANGED <<stage, results, boards, net>>

\* pass_x1_anchor does not look whether the last anchor was taken.
Pass(b) == /\ Move(b, "pass", "pass_wait")
           /\ anchors' = IF b > 1 /\ IsLocal(b, b - 1)
                         THEN [anchors EXCEPT ![b - 1] = stage[b]] ELSE anchors
           /\ net' = Sent(b, {b - 1}, "anchor")
           /\ UNCHANGED <<stage, results, mail>>

-----------------------------------------------------------------------------
(* The ghost rows of the reference                                         *)

PostAlways(b, c) == TRUE

MayPost(b, c) == mail[<<b, c>>] = None

\* To the local block above, then to the one below: post_to_local_block waits
\* until the previous message was taken.
PostLocal(b, c, from, to) ==
  /\ Move(b, from, to)
  /\ IF c \in Seams(b) /\ IsLocal(b, c)
     THEN MayPost(b, c) /\ mail' = [mail EXCEPT ![<<b, c>>] = stage[b]]
     ELSE UNCHANGED mail
  /\ net' = Sent(b, {c}, "rows")
  /\ UNCHANGED <<stage, results, anchors>>

PostUp(b) == PostLocal(b, b + 1, "post_up", "post_down")
PostDown(b) == PostLocal(b, b - 1, "post_down", "take_below")

TakeRows(b, c, from, to) ==
  /\ Move(b, from, to)
  /\ \/ /\ c \notin Seams(b)
        /\ UNCHANGED <<rows, mail, net>>
     \/ /\ c \in Seams(b) /\ IsLocal(b, c)
        /\ mail[<<c, b>>] # None
        /\ rows' = [rows EXCEPT ![b][c] = mail[<<c, b>>]]
        /\ mail' = [mail EXCEPT ![<<c, b>>] = None]
        /\ UNCHANGED net
     \/ LET m == <<c, b, "rows">> IN
        /\ m \in Channels
        /\ net[m] # <<>>
        /\ rows' = [rows EXCEPT ![b][c] = Head(net[m])]
        /\ net' = [net EXCEPT ![m] = Tail(@)]
        /\ UNCHANGED mail
  /\ UNCHANGED <<stage, anchor, reference, flux, anchors>>

TakeBelow(b) == TakeRows(b, b - 1, "take_below", "take_above")
TakeAbove(b) == TakeRows(b, b + 1, "take_above", "rows_wait")

-----------------------------------------------------------------------------
(* The fluxes of the faces between processes                               *)

PostFlux(b) == /\ Move(b, "flux", "flux_above")
               /\ net' = Sent(b, Seams(b), "flux")
               /\ UNCHANGED <<stage, results, boards>>

TakeFlux(b, c, from, to) ==
  LET m == <<c, b, "flux">> IN
  /\ Move(b, from, to)
  /\ \/ /\ m \notin Channels
        /\ UNCHANGED <<flux, net>>
     \/ /\ m \in Channels
        /\ net[m] # <<>>
        /\ flux' = [flux EXCEPT ![b][c] = Head(net[m])]
        /\ net' = [net EXCEPT ![m] = Tail(@)]
  /\ UNCHANGED <<stage, anchor, reference, rows, boards>>

TakeFluxAbove(b) == TakeFlux(b, b + 1, "flux_above", "flux_below")
TakeFluxBelow(b) == TakeFlux(b, b - 1, "flux_below", "flux_wait")

\* The waits for sends: of the anchor, of the rows and of the fluxes.
WaitSends(b) == /\ \/ Move(b, "pass_wait", "post_up")
                   \/ Move(b, "rows_wait", "flux")
                   \/ Move(b, "flux_wait", "end")
                /\ UNCHANGED <<stage, results, boards, net>>

LastStage(b) == stage[b] = MaxStages

EndStage(b) ==
  /\ IF LastStage(b)
     THEN Move(b, "end", "done") /\ UNCHANGED stage
     ELSE Move(b, "end", "take") /\ stage' = [stage EXCEPT ![b] = @ + 1]
  /\ UNCHANGED <<results, boards, net>>

-----------------------------------------------------------------------------
WaitsForBoard(b) ==
  \/ /\ pc[b] = "take" /\ b < pz /\ IsLocal(b, b + 1)
     /\ anchors[b] = None
  \/ \E c \in Seams(b) :
        /\ IsLocal(b, c)
        /\ \/ pc[b] = "post_up" /\ c = b + 1 /\ mail[<<b, c>>] # None
           \/ pc[b] = "post_down" /\ c = b - 1 /\ mail[<<b, c>>] # None
           \/ pc[b] = "take_below" /\ c = b - 1 /\ mail[<<c, b>>] = None
           \/ pc[b] = "take_above" /\ c = b + 1 /\ mail[<<c, b>>] = None

Failed == {b \in Column : pc[b] = "failed"}

\* The timeout expires: the wait throws.
Timeout(b) == /\ Failed # {}
              /\ WaitsForBoard(b)
              /\ pc' = [pc EXCEPT ![b] = "failed"]
              /\ UNCHANGED <<stage, results, boards, net>>

BlockStep(b) == \/ TakeAnchorTop(b) \/ TakeAnchorLocal(b) \/ TakeAnchorRemote(b)
                \/ Compute(b) \/ Pass(b)
                \/ PostUp(b) \/ PostDown(b) \/ TakeBelow(b) \/ TakeAbove(b)
                \/ PostFlux(b) \/ TakeFluxAbove(b) \/ TakeFluxBelow(b)
                \/ EndStage(b)

\* The run is over, or hangs because a block failed.
Stopped == /\ \A b \in Column : pc[b] = "done" \/ Failed # {}
           /\ UNCHANGED vars

Next == \/ \E b \in Column : \/ BlockStep(b) \/ WaitSends(b)
                             \/ ComputeFails(b) \/ Timeout(b)
        \/ Stopped

\* Threads run, timeouts expire, and a send completes once it is received.
Fairness == \A b \in Column : /\ WF_vars(BlockStep(b))
                              /\ WF_vars(Received(b) /\ WaitSends(b))
                              /\ WF_vars(Timeout(b))

Spec == Init /\ [][Next]_vars /\ Fairness
-----------------------------------------------------------------------------
\* The stage is computed with the neighbors' values of this very stage: the
\* anchor, the ghost rows of the reference, and the fluxes across processes.
StageFresh ==
  \A b \in Column :
    /\ pc[b] = "compute" /\ b < pz => anchor[b] = stage[b]
    /\ \A c \in Seams(b) :
         /\ pc[b] \in {"rows_wait", "flux"} => rows[b][c] = stage[b]
         /\ pc[b] = "end" /\ ~IsLocal(b, c) => flux[b][c] = stage[b]

\* pass_x1_anchor never overwrites an anchor that was not taken, although it
\* does not look: the rows of the last stage could not have come otherwise.
NoAnchorLost ==
  \A b \in Column \ {1} :
    pc[b] = "pass" /\ IsLocal(b, b - 1) => anchors[b - 1] = None

\* What is relayed is of this stage, and nothing of it is lost.
RelayInStep == StageFresh /\ NoAnchorLost

\* A remote wait has no timeout.
WaitsForProcess(b) ==
  \/ pc[b] \in {"pass_wait", "rows_wait", "flux_wait"}
  \/ pc[b] \in {"take", "take_below", "take_above", "flux_above", "flux_below"}
     /\ \E c \in Seams(b) : ~IsLocal(b, c)

\* Every block finishes; where one fails, the others fail with it, except
\* those that wait for another process.
EveryoneReturns ==
  <>(\A b \in Column : \/ pc[b] \in {"done", "failed"}
                       \/ Failed # {} /\ WaitsForProcess(b))

-----------------------------------------------------------------------------
CompleteStage(b) ==
  IF pc[b] \in {"rows_wait", "flux", "flux_above", "flux_below", "flux_wait",
                "end", "done"}
  THEN stage[b] ELSE stage[b] - 1

Scan == INSTANCE ColumnScan WITH complete <- [b \in Column |-> CompleteStage(b)]

\* The relay is a scan of the column from the top, in every stage.
ImplementsScan == Scan!Init /\ [][Scan!Next]_(Scan!vars)
=============================================================================
