---------------------------- MODULE ColumnGather ----------------------------
(***************************************************************************)
(* The blocks of one x1 column put their pieces together                   *)
(* (LayoutImpl::gather_x1, src/layout/layout.cpp) for the repair of its    *)
(* clouds and vapors (apply_conserved_limiter_,                            *)
(* src/eos/equation_of_state.cpp).  Blocks of the same process share a     *)
(* board, pieces of other processes come in messages.                      *)
(*                                                                         *)
(* There are three species: a vapor, a cloud that it nucleates to, and     *)
(* rain, a cloud without a parent.  A limiter call gathers twice: both     *)
(* clouds for the repair of the rain, then the vapor.  A piece also says   *)
(* which gather it was made for.  The waits on the board are guards: each  *)
(* change that ends one of them is followed by notify_all.                 *)
(***************************************************************************)
EXTENDS ColumnRepair, Sequences

CONSTANTS pz,          \* blocks of the column
          nx1,         \* cells of a block
          Process,     \* Process[b]: owner_process_rank
          Limits,      \* bound on the limiter calls of the run
          Cases,       \* names of the inputs
          Start(_),    \* Start(c): the column before the first stage
          Change(_, _),   \* Change(c, n): what the n-th stage adds to it
          TransportFails  \* blocks whose wait for a message may throw

Column == 1..pz
Cells == 1..Height
Species == {"vapor", "cloud", "rain"}

ASSUME ColumnAssumption ==
  /\ pz \in Nat \ {0} /\ nx1 \in Nat \ {0} /\ Height = pz * nx1
  /\ Limits \in Nat \ {0}
  /\ DOMAIN Process = Column
  /\ TransportFails \subseteq Column
  /\ \A c \in Cases : \A s \in Species, i \in Cells : Start(c)[s][i] >= 0

\* The cells of a block: blocks split x1 evenly.
Own(b) == ((b - 1) * nx1 + 1)..(b * nx1)
BlockOf(i) == ((i - 1) \div nx1) + 1

Processes == {Process[b] : b \in Column}
Locals(p) == {b \in Column : Process[b] = p}
Peers(b) == Column \ Locals(Process[b])
Channels == {m \in Column \X Column : m[2] \in Peers(m[1])}

VARIABLES pc,        \* where each block is
          call,      \* the call each block is in
          board,     \* the ColumnBoard of each process
          net,       \* pieces sent and not yet received
          pieces,    \* pieces[b][c]: the piece of c that b has got
          case,      \* the input of the run
          cons,      \* cons[s][i]: species s in cell i
          out        \* out[n]: the column after limiter call n (history)

vars == <<pc, call, board, net, pieces, case, cons, out>>

NoPiece == [call |-> 0, field |-> <<>>]

EmptyBoard == [posted |-> 0, taken |-> 0, full |-> FALSE,
               pieces |-> [b \in Column |-> NoPiece]]

Init == /\ pc = [b \in Column |-> "call"]
        /\ call = [b \in Column |-> 1]
        /\ board = [p \in Processes |-> EmptyBoard]
        /\ net = [m \in Channels |-> <<>>]
        /\ pieces = [b \in Column |-> [c \in Column |-> NoPiece]]
        /\ case \in Cases
        /\ cons = Start(case)
        /\ out = [n \in 0..Limits |-> Start(case)]

Move(b, from, to) == pc[b] = from /\ pc' = [pc EXCEPT ![b] = to]

Alone(b) == Cardinality(Locals(Process[b])) = 1

\* Limiter call of a gather; whether it is the first gather of that call.
Limit(n) == (n + 1) \div 2
Opens(n) == n % 2 = 1

Fields(n) == IF Opens(n) THEN {"cloud", "rain"} ELSE {"vapor"}

\* A negative cloud is borrowed from the vapor of its own cell.
Borrowed(x) == [x EXCEPT !["vapor"] = [i \in Cells |-> @[i] + Min({0, x["cloud"][i]})],
                         !["cloud"] = [i \in Cells |-> Max({0, @[i]})]]

Changed(x, n) ==
  [s \in Species |-> [i \in Cells |-> x[s][i] + Change(case, n)[s][i]]]

\* x with the cells of b taken from y.
Overlay(x, y, b) ==
  [s \in Species |-> [i \in Cells |-> IF i \in Own(b) THEN y[s][i] ELSE x[s][i]]]

\* A stage has changed the block and the repair of its clouds begins, or that
\* of the vapor: the messages to the other processes are posted.
Call(b) ==
  LET x == IF Opens(call[b])
           THEN Overlay(cons, Borrowed(Changed(cons, Limit(call[b]))), b)
           ELSE cons
      piece == [call |-> call[b],
                field |-> [s \in Fields(call[b]) |-> [i \in Own(b) |-> x[s][i]]]]
  IN
  /\ Move(b, "call", IF Alone(b) THEN "works" ELSE "post")
  /\ cons' = x
  /\ net' = [m \in Channels |-> IF m[1] = b THEN Append(net[m], piece)
                                ELSE net[m]]
  /\ pieces' = [pieces EXCEPT ![b] = [c \in Column |->
                                        IF c = b THEN piece ELSE NoPiece]]
  /\ UNCHANGED <<call, board, case, out>>

AnyBoard(p) == TRUE

\* Nobody posts while some block still takes its pieces from the board.
BoardFree(p) == ~board[p].full

LastToPost(p) == board[p].posted + 1 = Cardinality(Locals(p))

Post(b) ==
  LET p == Process[b] IN
  /\ BoardFree(p)
  /\ Move(b, "post", "await")
  /\ board' = [board EXCEPT ![p].posted = @ + 1,
                            ![p].pieces[b] = pieces[b][b],
                            ![p].full = @ \/ LastToPost(p)]
  /\ UNCHANGED <<call, net, pieces, case, cons, out>>

BoardReady(p) == board[p].full

\* The board is full: the block copies the pieces of its process.
AwaitFull(b) ==
  LET p == Process[b] IN
  /\ BoardReady(p)
  /\ Move(b, "await", "works")
  /\ pieces' = [pieces EXCEPT ![b] = [c \in Column |->
                  IF c \in Locals(p) THEN board[p].pieces[c] ELSE @[c]]]
  /\ UNCHANGED <<call, board, net, case, cons, out>>

\* A piece of another process arrives in the buffer of its receive.
Receive(b, c) ==
  /\ <<c, b>> \in Channels
  /\ pc[b] \in {"post", "await", "works"}
  /\ pieces[b][c] = NoPiece
  /\ net[<<c, b>>] # <<>>
  /\ pieces' = [pieces EXCEPT ![b][c] = Head(net[<<c, b>>])]
  /\ net' = [net EXCEPT ![<<c, b>>] = Tail(@)]
  /\ UNCHANGED <<pc, call, board, case, cons, out>>

\* The waits for the receives end.  Those for the sends end, too: they are
\* complete once the message has left.
Works(b) == /\ \A c \in Peers(b) : pieces[b][c] # NoPiece
            /\ Move(b, "works", IF Alone(b) THEN "repair" ELSE "take")
            /\ UNCHANGED <<call, board, net, pieces, case, cons, out>>

\* The wait throws: the block leaves without having counted itself out.
WorkFails(b) == /\ b \in TransportFails
                /\ Peers(b) # {}
                /\ Move(b, "works", "failed")
                /\ UNCHANGED <<call, board, net, pieces, case, cons, out>>

KeepPosted(p) == [board[p] EXCEPT !.taken = 0, !.full = FALSE]

Cleared(p) == EmptyBoard

\* The last block to take clears the board.
Take(b) ==
  LET p == Process[b] IN
  /\ Move(b, "take", "repair")
  /\ board' = [board EXCEPT ![p] = IF @.taken + 1 = Cardinality(Locals(p))
                                   THEN Cleared(p)
                                   ELSE [@ EXCEPT !.taken = @ + 1]]
  /\ UNCHANGED <<call, net, pieces, case, cons, out>>

\* The pieces side by side, and what the repair makes of them.
Gathered(b, s) == [i \in Cells |-> pieces[b][BlockOf(i)].field[s][i]]
Repaired(b, s) == fix_vapor(Gathered(b, s))

\* Every block repairs the whole column for itself and keeps its own cells.
\* Rain may be beyond repair: what is still negative is set to zero.
RepairRain(b) ==
  /\ Opens(call[b]) /\ Move(b, "repair", "call")
  /\ cons' = [s \in Species |-> [i \in Cells |->
                IF s \in Fields(call[b]) /\ i \in Own(b)
                THEN Max({0, Repaired(b, s).vapor[i]}) ELSE cons[s][i]]]
  /\ call' = [call EXCEPT ![b] = @ + 1]
  /\ UNCHANGED <<board, net, pieces, case, out>>

Success(b) == Repaired(b, "vapor").err = 0

RepairVapor(b) ==
  /\ ~Opens(call[b]) /\ pc[b] = "repair" /\ Success(b)
  /\ cons' = [cons EXCEPT !["vapor"] = [i \in Cells |->
                IF i \in Own(b) THEN Repaired(b, "vapor").vapor[i] ELSE @[i]]]
  /\ out' = [out EXCEPT ![Limit(call[b])] = Overlay(@, cons', b)]
  /\ IF Limit(call[b]) = Limits
     THEN Move(b, "repair", "done") /\ UNCHANGED call
     ELSE Move(b, "repair", "call") /\ call' = [call EXCEPT ![b] = @ + 1]
  /\ UNCHANGED <<board, net, pieces, case>>

\* A vapor cannot be repaired: the block throws, before it copies anything
\* back.
RepairThrows(b) == /\ ~Opens(call[b]) /\ pc[b] = "repair" /\ ~Success(b)
                   /\ Move(b, "repair", "thrown")
                   /\ UNCHANGED <<call, board, net, pieces, case, cons, out>>

BlockStep(b) == \/ Call(b) \/ Post(b) \/ AwaitFull(b) \/ Works(b) \/ Take(b)
                \/ RepairRain(b) \/ RepairVapor(b) \/ RepairThrows(b)

Failed == {b \in Column : pc[b] = "failed"}

\* The run is over, or hangs because a message was lost.
Stopped == /\ \A b \in Column : pc[b] \in {"done", "thrown"} \/ Failed # {}
           /\ UNCHANGED vars

Next == \/ \E b \in Column : BlockStep(b) \/ WorkFails(b)
        \/ \E b, c \in Column : Receive(b, c)
        \/ Stopped

\* Threads run and the transport delivers.
Fairness == /\ \A b \in Column : WF_vars(BlockStep(b))
            /\ \A b, c \in Column : WF_vars(Receive(b, c))

Spec == Init /\ [][Next]_vars /\ Fairness
-----------------------------------------------------------------------------
\* The column a block repairs is made of the pieces of this very call, those of
\* its process and those of the others.
SameColumn ==
  \A b \in Column : pc[b] = "repair" => \A c \in Column : pieces[b][c].call = call[b]

\* A block that throws does not do so alone: no block goes on with a stage that
\* another leaves because the column cannot be repaired.
ThrowTogether ==
  \A b, c \in Column :
     pc[b] = "thrown" => call[c] <= call[b] /\ pc[c] # "done"

\* All blocks are through with limiter call n.
Through(n) == \A b \in Column : call[b] > 2 * n \/ pc[b] = "done"

\* What stage n makes of the total of a species.
Expected(s, n) == Mass(out[n - 1][s], Cells) + Mass(Change(case, n)[s], Cells)

\* The repairs move water, between cells, between blocks, from the vapor into
\* its cloud, and leave nothing negative.  Water is made up in one case only,
\* and so that nothing of the species is left: there was less rain than none.
WaterStays ==
  \A n \in 1..Limits : Through(n) =>
    /\ \A s \in Species, i \in Cells : out[n][s][i] >= 0
    /\ Mass(out[n]["vapor"], Cells) + Mass(out[n]["cloud"], Cells)
         = Expected("vapor", n) + Expected("cloud", n)
    /\ Mass(out[n]["rain"], Cells) >= Expected("rain", n)
    /\ Mass(out[n]["rain"], Cells) > Expected("rain", n)
         => Expected("rain", n) < 0

\* A run that throws has a column with less vapor than none.
ThrowsOnlyWhenShort ==
  \A b \in Column : pc[b] = "thrown" => Mass(Gathered(b, "vapor"), Cells) < 0

\* The blocks of a column repair it as one block would.
RepairedAsOne ==
  SameColumn /\ ThrowTogether /\ WaterStays /\ ThrowsOnlyWhenShort

\* All blocks come out of every gather, unless a wait for a message threw.
EveryoneReturns ==
  <>(\A b \in Column : pc[b] \in {"done", "thrown"} \/ Failed # {})
=============================================================================
