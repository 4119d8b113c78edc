--------------------------- MODULE GhostExchange ---------------------------
(***************************************************************************)
(* The ghost-zone exchange of a whole run: every block of every process    *)
(* packs its send buffers, meets the other blocks of its process, posts    *)
(* its messages to blocks of other processes, waits for them and unpacks   *)
(* (MeshBlockImpl::_exchange_once; src/mesh/meshblock.cpp,                 *)
(* src/layout/layout.cpp).                                                 *)
(*                                                                         *)
(* It composes three other modules: the meeting is one step, which is what *)
(* LocalExchange shows of _prepare_local_exchange (Rendezvous!Leave); the  *)
(* buffers and tags are a plan with the properties that CartesianLayout    *)
(* has, so that a transfer t stands for its tag.                           *)
(*                                                                         *)
(* Exchanges have kinds (the conserved variables, the scalars): the        *)
(* buffers are cached per kind, exchange_buffer_cache, but messages of all *)
(* kinds have the same tags.  The transport delivers the messages of one   *)
(* pair of processes and one tag in order.                                 *)
(***************************************************************************)
EXTENDS Integers, Sequences, FiniteSetsExt

CONSTANTS Blocks,
          Process,     \* Process[b]: owner_process_rank
          Transfers,   \* <<sender, its buffer, receiver, its buffer>>
          Kinds,       \* exchanges of a stage
          MaxRounds    \* bound on the exchanges of a block

From(t) == t[1]
To(t) == t[3]
Local(t) == Process[From(t)] = Process[To(t)]

ASSUME PlanAssumption ==
  /\ Kinds \in Nat \ {0} /\ MaxRounds \in Nat
  /\ \A t \in Transfers : From(t) \in Blocks /\ To(t) \in Blocks
  \* NeighborsAreMutual, GhostsFilledOnce and MessagesPairUp of CartesianLayout
  /\ \A t \in Transfers : <<t[3], t[4], t[1], t[2]>> \in Transfers
  /\ \A s, t \in Transfers : s[3] = t[3] /\ s[4] = t[4] => s = t

Remote == {t \in Transfers : ~Local(t)}

VARIABLES pc,         \* where each block is in the exchange
          round,      \* the number of the exchange each block is at
          send_bufs,  \* send_bufs[b][k]: the exchange b packed for, per kind
          recv_bufs,  \* recv_bufs[t][k]: the exchange whose data t delivered
          sends,      \* posted sends of t that have not left their buffer
          net,        \* messages under way, by the exchange they were packed for
          recvs,      \* posted receives of t that have not been filled
          ghosts      \* the exchange of the data unpacked from t

bufs == <<send_bufs, recv_bufs>>
transport == <<sends, net, recvs>>
vars == <<pc, round, bufs, transport, ghosts>>

Kind(n) == n % Kinds

Init == /\ pc = [b \in Blocks |-> "pack"]
        /\ round = [b \in Blocks |-> 1]
        /\ send_bufs = [b \in Blocks |-> [k \in 0..(Kinds - 1) |-> 0]]
        /\ recv_bufs = [t \in Transfers |-> [k \in 0..(Kinds - 1) |-> 0]]
        /\ sends = [t \in Remote |-> <<>>]
        /\ net = [t \in Remote |-> <<>>]
        /\ recvs = [t \in Remote |-> <<>>]
        /\ ghosts = [t \in Transfers |-> 0]

\* begin_exchange: serialize.
Pack(b) == /\ pc[b] = "pack"
           /\ pc' = [pc EXCEPT ![b] = "meet"]
           /\ send_bufs' = [send_bufs EXCEPT ![b][Kind(round[b])] = round[b]]
           /\ UNCHANGED <<round, recv_bufs, transport, ghosts>>

\* The blocks that _prepare_local_exchange lets pass together.
MeetAll(p) == {b \in Blocks : Process[b] = p}

\* The last block to come copies the local buffers, also those of a block that
\* is its own neighbor, which exchange_remote copies a moment later.
Meet(p) ==
  LET here == MeetAll(p) IN
  /\ here # {}
  /\ \A b \in here : pc[b] = "meet"
  /\ pc' = [b \in Blocks |-> IF b \in here THEN "post" ELSE pc[b]]
  /\ recv_bufs' = [t \in Transfers |->
        IF From(t) \in here /\ To(t) \in here
        THEN LET k == Kind(round[From(t)]) IN
             [recv_bufs[t] EXCEPT ![k] = send_bufs[From(t)][k]]
        ELSE recv_bufs[t]]
  /\ UNCHANGED <<round, send_bufs, transport, ghosts>>

\* Faulty: only the block of the lower process sends.
PostUpward(b) ==
  /\ pc[b] = "post"
  /\ pc' = [pc EXCEPT ![b] = "wait"]
  /\ sends' = [t \in Remote |-> IF From(t) = b /\ Process[b] < Process[To(t)]
                                THEN Append(sends[t], round[b]) ELSE sends[t]]
  /\ recvs' = [t \in Remote |-> IF To(t) = b THEN Append(recvs[t], round[b])
                                ELSE recvs[t]]
  /\ UNCHANGED <<round, bufs, net, ghosts>>

\* exchange_remote: all sends and receives of the block, under
\* g_process_comm_mutex.
Post(b) ==
  /\ pc[b] = "post"
  /\ pc' = [pc EXCEPT ![b] = "wait"]
  /\ sends' = [t \in Remote |-> IF From(t) = b THEN Append(sends[t], round[b])
                                ELSE sends[t]]
  /\ recvs' = [t \in Remote |-> IF To(t) = b THEN Append(recvs[t], round[b])
                                ELSE recvs[t]]
  /\ UNCHANGED <<round, bufs, net, ghosts>>

\* The transport reads a send buffer some time after the send was posted ...
Depart(t) ==
  /\ sends[t] # <<>>
  /\ net' = [net EXCEPT ![t] =
               Append(@, send_bufs[From(t)][Kind(Head(sends[t]))])]
  /\ sends' = [sends EXCEPT ![t] = Tail(@)]
  /\ UNCHANGED <<pc, round, bufs, recvs, ghosts>>

\* ... and writes the buffer of the oldest receive posted with the tag.
Arrive(t) ==
  /\ net[t] # <<>>
  /\ recvs[t] # <<>>
  /\ recv_bufs' = [recv_bufs EXCEPT ![t][Kind(Head(recvs[t]))] = Head(net[t])]
  /\ net' = [net EXCEPT ![t] = Tail(@)]
  /\ recvs' = [recvs EXCEPT ![t] = Tail(@)]
  /\ UNCHANGED <<pc, round, send_bufs, sends, ghosts>>

ReceivesOnly(b) == \A t \in Remote : To(t) = b => recvs[t] = <<>>

SendsOnly(b) == \A t \in Remote : From(t) = b => sends[t] = <<>>

\* Every work of the block has completed.
WorksDone(b) == \A t \in Remote : /\ From(t) = b => sends[t] = <<>>
                                  /\ To(t) = b => recvs[t] = <<>>

\* finalize: wait for the works, then deserialize.  The block goes on to its
\* next exchange, whatever it computes in between.
Finalize(b) ==
  /\ pc[b] = "wait"
  /\ WorksDone(b)
  /\ ghosts' = [t \in Transfers |-> IF To(t) = b THEN recv_bufs[t][Kind(round[b])]
                                    ELSE ghosts[t]]
  /\ IF round[b] = MaxRounds
     THEN pc' = [pc EXCEPT ![b] = "done"] /\ UNCHANGED round
     ELSE pc' = [pc EXCEPT ![b] = "pack"] /\ round' = [round EXCEPT ![b] = @ + 1]
  /\ UNCHANGED <<bufs, transport>>

\* The run is over.
Terminated == (\A b \in Blocks : pc[b] = "done") /\ UNCHANGED vars

BlockStep(b) == Pack(b) \/ Post(b) \/ Finalize(b)

Next == \/ \E b \in Blocks : BlockStep(b)
        \/ \E p \in {Process[b] : b \in Blocks} : Meet(p)
        \/ \E t \in Remote : Depart(t) \/ Arrive(t)
        \/ Terminated

\* Threads run, the meeting takes place (EveryoneReturns of LocalExchange) and
\* the transport delivers what was posted at both ends.
Fairness == /\ \A b \in Blocks : WF_vars(BlockStep(b))
            /\ \A b \in Blocks : WF_vars(Meet(Process[b]))
            /\ \A t \in Remote : WF_vars(Depart(t)) /\ WF_vars(Arrive(t))

Spec == Init /\ [][Next]_vars /\ Fairness
-----------------------------------------------------------------------------
Finished(b) == IF pc[b] = "done" THEN round[b] ELSE round[b] - 1

\* The ghost zones hold what the neighbors packed for this very exchange, also
\* where the neighbor is a block of another process that is already in its next
\* exchange, or one of another kind with the same tags.
GhostsFresh == \A t \in Transfers : ghosts[t] = Finished(To(t))

\* A posted send still finds what it was posted for in its buffer.
SendBuffersStable ==
  \A t \in Remote : \A i \in 1..Len(sends[t]) :
     send_bufs[From(t)][Kind(sends[t][i])] = sends[t][i]

\* A message never meets a receive of another exchange: the message at the
\* head of a queue is for the receive posted first.
MessagesMeetTheirReceive ==
  \A t \in Remote : net[t] # <<>> /\ recvs[t] # <<>> => Head(net[t]) = Head(recvs[t])

\* A fast process does not flood a slow neighbor: at most two messages with one
\* tag are on their way, this exchange's and the next one's.
AtMostTwoInFlight == \A t \in Remote : Len(sends[t]) + Len(net[t]) <= 2

\* However far processes drift apart, an exchange is of data of its own round:
\* in the ghost zones, in the send buffers, in the messages and in their number.
RoundsStayApart == /\ GhostsFresh /\ SendBuffersStable
                   /\ MessagesMeetTheirReceive /\ AtMostTwoInFlight

\* No run of blocks and processes waits for itself: all exchanges complete.
AllComplete == <>(\A b \in Blocks : pc[b] = "done")

-----------------------------------------------------------------------------
Packed(b) == IF pc[b] = "pack" THEN round[b] - 1 ELSE round[b]

NeighborsOf(b) == {From(t) : t \in {u \in Transfers : To(u) = b}}

Neighbors == [b \in Blocks |-> NeighborsOf(b)]

Between == [b \in Blocks |-> [c \in Neighbors[b] |->
              {t \in Transfers : To(t) = b /\ From(t) = c}]]

\* The oldest data that b has from c, over the transfers between them.
GhostsFrom(b, c) == Min({ghosts[t] : t \in Between[b][c]})

Halo == INSTANCE HaloExchange WITH
          packed <- [b \in Blocks |-> Packed(b)],
          unpacked <- [b \in Blocks |-> Finished(b)],
          ghosts <- [b \in Blocks |-> [c \in Neighbors[b] |-> GhostsFrom(b, c)]]

\* The exchange of a run of many processes is that of HaloExchange.
ImplementsHalo == Halo!Init /\ [][Halo!Next]_(Halo!vars)
=============================================================================
