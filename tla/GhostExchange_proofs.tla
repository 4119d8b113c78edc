----------------------- MODULE GhostExchange_proofs -----------------------
(***************************************************************************)
(* Proofs about GhostExchange for any mesh, any assignment of blocks to    *)
(* processes, any plan and any number of kinds and exchanges:              *)
(* RoundsStayApart, that it implements HaloExchange, and that neighbors    *)
(* are never more than one exchange apart.                                 *)
(*                                                                         *)
(* The argument counts.  A block posts an exchange only when the works of  *)
(* the one before have completed, so that there is at most one posted send *)
(* and one posted receive of a transfer (Posts), and the messages in the   *)
(* net are numbered from the first that is not received to the last that   *)
(* has left (NetOK): a tag tells everything.  How many there can be        *)
(* follows from the transfer in the opposite direction.                    *)
(***************************************************************************)
EXTENDS GhostExchange, TLAPS

Places == {"pack", "meet", "post", "wait", "done"}
KindSet == 0..(Kinds - 1)

\* The last exchange that b has met its process for, and that it has posted.
MetFor(b) == IF pc[b] \in {"post", "wait", "done"} THEN round[b] ELSE round[b] - 1
Posted(b) == IF pc[b] \in {"wait", "done"} THEN round[b] ELSE round[b] - 1

\* The last exchange of t that has left, and that has been delivered.
Sent(t) == Posted(From(t)) - Len(sends[t])
Received(t) == IF Local(t) THEN MetFor(To(t)) ELSE Posted(To(t)) - Len(recvs[t])

Types == /\ pc \in [Blocks -> Places]
         /\ round \in [Blocks -> Nat \ {0}]
         /\ send_bufs \in [Blocks -> [KindSet -> Nat]]
         /\ recv_bufs \in [Transfers -> [KindSet -> Nat]]
         /\ sends \in [Remote -> Seq(Nat)]
         /\ net \in [Remote -> Seq(Nat)]
         /\ recvs \in [Remote -> Seq(Nat)]
         /\ ghosts \in [Transfers -> Nat]

Together == \A b, c \in Blocks : Process[b] = Process[c] => MetFor(b) = MetFor(c)

PackedOK == \A b \in Blocks : pc[b] # "pack" => send_bufs[b][Kind(round[b])] = round[b]

\* What is posted is of the exchange its block waits for.
Posts(q, b) == q = <<>> \/ (pc[b] = "wait" /\ q = <<round[b]>>)

PostsOK == \A t \in Remote : Posts(sends[t], From(t)) /\ Posts(recvs[t], To(t))

NetOK == \A t \in Remote : /\ Len(net[t]) = Sent(t) - Received(t)
                           /\ \A i \in 1..Len(net[t]) : net[t][i] = Received(t) + i

DeliveredOK ==
  \A t \in Transfers : Received(t) > 0 => recv_bufs[t][Kind(Received(t))] = Received(t)

GInv == /\ Types /\ Together /\ PackedOK /\ PostsOK /\ NetOK /\ DeliveredOK
        /\ GhostsFresh

-----------------------------------------------------------------------------
\* Kinds number the buffers.
LEMMA KindIs == \A n \in Nat : Kind(n) \in KindSet
BY PlanAssumption DEF Kind, KindSet

\* Both ends of a transfer are blocks.
LEMMA Ends == \A t \in Transfers : /\ From(t) \in Blocks /\ To(t) \in Blocks
                                   /\ t \in Remote <=> ~Local(t)
BY PlanAssumption DEF Remote

\* The number of one posted exchange.
LEMMA Singleton ==
  ASSUME NEW n \in Nat
  PROVE  <<n>> \in Seq(Nat) /\ Len(<<n>>) = 1 /\ Append(<<>>, n) = <<n>>
OBVIOUS

\* A queue of posts holds one exchange or none.
LEMMA OnePost ==
  ASSUME Types, NEW b \in Blocks, NEW q \in Seq(Nat), Posts(q, b)
  PROVE  /\ Len(q) \in {0, 1} /\ (Len(q) = 0 <=> q = <<>>)
         /\ q # <<>> => pc[b] = "wait" /\ Head(q) = round[b] /\ Tail(q) = <<>>
<1>1. CASE q = <<>>
  BY <1>1
<1>2. CASE pc[b] = "wait" /\ q = <<round[b]>>
  <2>1. Len(q) = 1 /\ q # <<>> /\ Head(q) = round[b]
    BY <1>2
  <2>2. Tail(q) = <<>>
    BY <1>2
  <2> QED
    BY <1>2, <2>1, <2>2
<1> QED
  BY <1>1, <1>2 DEF Posts

\* The counts of a block.
LEMMA Counts ==
  Types => \A b \in Blocks : /\ round[b] \in Nat /\ round[b] > 0
                             /\ MetFor(b) \in Nat /\ Posted(b) \in Nat
                             /\ Posted(b) <= MetFor(b)
BY DEF Types, MetFor, Posted

\* At the start nothing is packed, posted or under way.
LEMMA InitGInv == Init => GInv
<1> SUFFICES ASSUME Init PROVE GInv
  OBVIOUS
<1>1. Types
  BY DEF Init, Types, Places, KindSet
<1>2. \A b \in Blocks : MetFor(b) = 0 /\ Posted(b) = 0 /\ Finished(b) = 0
  BY DEF Init, MetFor, Posted, Finished
<1>3. \A t \in Transfers : Received(t) = 0
  BY <1>2, Ends DEF Init, Received
<1>4. Together /\ PackedOK /\ PostsOK /\ DeliveredOK
  BY <1>2, <1>3 DEF Init, Together, PackedOK, PostsOK, Posts, DeliveredOK
<1>5. NetOK
  <2>1. \A t \in Remote : Sent(t) = 0 /\ Received(t) = 0 /\ Len(net[t]) = 0
    BY <1>2, <1>3, Ends DEF Init, Sent, Remote
  <2> QED
    BY <2>1 DEF NetOK
<1>6. GhostsFresh
  BY <1>2, Ends DEF Init, GhostsFresh
<1> QED
  BY <1>1, <1>4, <1>5, <1>6 DEF GInv

-----------------------------------------------------------------------------
\* The data of a block fills its send buffer for the kind of its exchange.
LEMMA PackStep ==
  ASSUME GInv, NEW b \in Blocks, Pack(b)
  PROVE  GInv'
<1> USE DEF GInv
<1>1. /\ pc[b] = "pack" /\ pc' = [pc EXCEPT ![b] = "meet"]
      /\ send_bufs' = [send_bufs EXCEPT ![b][Kind(round[b])] = round[b]]
      /\ UNCHANGED <<round, recv_bufs, sends, net, recvs, ghosts>>
  BY DEF Pack, transport
<1>2. round[b] \in Nat /\ Kind(round[b]) \in KindSet
  BY KindIs DEF Types
<1>3. Types'
  BY <1>1, <1>2 DEF Types, Places
<1>4. \A c \in Blocks : /\ MetFor(c)' = MetFor(c) /\ Posted(c)' = Posted(c)
                        /\ Finished(c)' = Finished(c)
  BY <1>1 DEF Types, MetFor, Posted, Finished
<1>5. \A t \in Transfers : Received(t)' = Received(t)
  BY <1>1, <1>4, Ends DEF Received
<1>6. Together' /\ DeliveredOK' /\ GhostsFresh'
  BY <1>1, <1>4, <1>5, Ends DEF Together, DeliveredOK, GhostsFresh
<1>7. PackedOK'
  BY <1>1, <1>2 DEF Types, PackedOK
<1>8. PostsOK'
  BY <1>1, Ends DEF Types, PostsOK, Posts, Remote
<1>9. NetOK'
  <2>1. \A t \in Remote : Sent(t)' = Sent(t) /\ Received(t)' = Received(t)
    BY <1>1, <1>4, <1>5, Ends DEF Sent, Remote
  <2> QED
    BY <1>1, <2>1 DEF NetOK
<1> QED
  BY <1>3, <1>6, <1>7, <1>8, <1>9

\* A process meets: its blocks get each other's data.
LEMMA MeetStep ==
  ASSUME GInv, NEW p, Meet(p)
  PROVE  GInv'
<1> USE DEF GInv
<1> DEFINE here == MeetAll(p)
<1>1. /\ \A b \in Blocks : b \in here <=> Process[b] = p
      /\ \A b \in here : b \in Blocks /\ pc[b] = "meet"
      /\ pc' = [b \in Blocks |-> IF b \in here THEN "post" ELSE pc[b]]
      /\ UNCHANGED <<round, send_bufs, sends, net, recvs, ghosts>>
  BY DEF Meet, MeetAll, transport
<1>2. recv_bufs' = [t \in Transfers |->
        IF From(t) \in here /\ To(t) \in here
        THEN [recv_bufs[t] EXCEPT ![Kind(round[From(t)])] =
                send_bufs[From(t)][Kind(round[From(t)])]]
        ELSE recv_bufs[t]]
  BY DEF Meet
<1> HIDE DEF here
<1>3. \A b \in here : /\ round[b] \in Nat /\ Kind(round[b]) \in KindSet
                      /\ send_bufs[b][Kind(round[b])] = round[b]
                      /\ \A c \in here : round[b] = round[c]
  <2>1. \A b, c \in here : round[b] = round[c]
    <3>1. \A b \in here : b \in Blocks /\ round[b] \in Nat /\ MetFor(b) = round[b] - 1
      BY <1>1 DEF MetFor, Types
    <3>2. \A b, c \in here : MetFor(b) = MetFor(c)
      BY <1>1 DEF Together
    <3> QED
      BY <3>1, <3>2
  <2> QED
    BY <1>1, <2>1, KindIs DEF Types, PackedOK
<1>4. \A t \in Transfers : From(t) \in here /\ To(t) \in here =>
         /\ recv_bufs'[t] \in [KindSet -> Nat]
         /\ recv_bufs'[t][Kind(round[To(t)])] = round[To(t)]
  BY <1>2, <1>3, KindIs DEF Types
<1>5. \A t \in Transfers : ~(From(t) \in here /\ To(t) \in here) => recv_bufs'[t] = recv_bufs[t]
  BY <1>2
<1>6. Types'
  <2>1. recv_bufs' \in [Transfers -> [KindSet -> Nat]]
    <3>1. \A t \in Transfers : recv_bufs'[t] \in [KindSet -> Nat]
      BY <1>4, <1>5 DEF Types
    <3> QED
      BY <1>2, <3>1
  <2> QED
    BY <1>1, <2>1 DEF Types, Places
<1>7. \A c \in Blocks : /\ MetFor(c)' = IF c \in here THEN round[c] ELSE MetFor(c)
                        /\ Posted(c)' = Posted(c) /\ Finished(c)' = Finished(c)
  BY <1>1 DEF Types, MetFor, Posted, Finished
<1>8. Together' /\ GhostsFresh'
  BY <1>1, <1>3, <1>7, Ends DEF Together, GhostsFresh
<1>9. \A t \in Transfers : t \in Remote => /\ Received(t)' = Received(t) /\ Sent(t)' = Sent(t)
                                           /\ recv_bufs'[t] = recv_bufs[t]
  <2>1. ASSUME NEW t \in Transfers, ~Local(t)
        PROVE  ~(From(t) \in here /\ To(t) \in here)
    BY <1>1, <2>1, Ends DEF Local
  <2> QED
    BY <1>1, <1>5, <1>7, <2>1, Ends DEF Received, Sent
<1>10. PackedOK' /\ PostsOK'
  <2>1. PackedOK'
    BY <1>1 DEF PackedOK
  <2>2. \A t \in Remote : Posts(sends[t], From(t))' /\ Posts(recvs[t], To(t))'
    BY <1>1, Ends DEF PostsOK, Posts, Remote
  <2> QED
    BY <2>1, <2>2 DEF PostsOK
<1>11. NetOK'
  BY <1>1, <1>9 DEF NetOK, Remote
<1>12. DeliveredOK'
  <2>1. ASSUME NEW t \in Transfers, Local(t), To(t) \in here
        PROVE  Received(t)' = round[To(t)] /\ From(t) \in here
    BY <1>1, <1>7, <2>1, Ends DEF Received, Local
  <2>2. ASSUME NEW t \in Transfers, Local(t), To(t) \notin here
        PROVE  Received(t)' = Received(t)
    BY <1>1, <1>7, <2>2, Ends DEF Received, Local
  <2> QED
    BY <1>4, <1>5, <1>9, <2>1, <2>2, Ends DEF DeliveredOK
<1> QED
  BY <1>6, <1>8, <1>10, <1>11, <1>12

\* A block posts its exchange; the works of the one before are done.
LEMMA PostStep ==
  ASSUME GInv, NEW b \in Blocks, Post(b)
  PROVE  GInv'
<1> USE DEF GInv
<1>1. /\ pc[b] = "post" /\ pc' = [pc EXCEPT ![b] = "wait"]
      /\ sends' = [t \in Remote |-> IF From(t) = b THEN Append(sends[t], round[b])
                                    ELSE sends[t]]
      /\ recvs' = [t \in Remote |-> IF To(t) = b THEN Append(recvs[t], round[b])
                                    ELSE recvs[t]]
      /\ UNCHANGED <<round, send_bufs, recv_bufs, net, ghosts>>
  BY DEF Post, bufs
<1>2. \A t \in Remote : /\ From(t) = b => sends[t] = <<>> /\ sends'[t] = <<round[b]>>
                        /\ To(t) = b => recvs[t] = <<>> /\ recvs'[t] = <<round[b]>>
                        /\ From(t) # b => sends'[t] = sends[t]
                        /\ To(t) # b => recvs'[t] = recvs[t]
  <2>1. \A t \in Remote : /\ From(t) = b => sends[t] = <<>>
                          /\ To(t) = b => recvs[t] = <<>>
    BY <1>1 DEF PostsOK, Posts
  <2>2. Append(<<>>, round[b]) = <<round[b]>>
    BY Singleton DEF Types
  <2> QED
    BY <1>1, <2>1, <2>2
<1>3. <<round[b]>> \in Seq(Nat) /\ Len(<<round[b]>>) = 1
  BY Singleton DEF Types
<1>4. Types'
  <2>1. \A t \in Remote : sends'[t] \in Seq(Nat) /\ recvs'[t] \in Seq(Nat)
    BY <1>2, <1>3 DEF Types
  <2>2. sends' \in [Remote -> Seq(Nat)] /\ recvs' \in [Remote -> Seq(Nat)]
    BY <1>1, <2>1
  <2> QED
    BY <1>1, <2>2 DEF Types, Places
<1>5. \A c \in Blocks : /\ MetFor(c)' = MetFor(c) /\ Finished(c)' = Finished(c)
                        /\ Posted(c)' = IF c = b THEN Posted(c) + 1 ELSE Posted(c)
  BY <1>1 DEF Types, MetFor, Posted, Finished
<1>6. \A t \in Remote : Sent(t)' = Sent(t) /\ Received(t)' = Received(t)
  <2>1. ASSUME NEW t \in Remote
        PROVE  /\ From(t) = b => Len(sends[t]) = 0 /\ Len(sends'[t]) = 1
               /\ To(t) = b => Len(recvs[t]) = 0 /\ Len(recvs'[t]) = 1
    <3>1. Len(<<>>) = 0
      OBVIOUS
    <3> QED
      BY <1>2, <1>3, <3>1
  <2>2. \A t \in Remote : From(t) \in Blocks /\ To(t) \in Blocks /\ ~Local(t)
    BY Ends DEF Remote
  <2>3. \A c \in Blocks : Posted(c) \in Nat
    BY Counts
  <2>4. ASSUME NEW t \in Remote PROVE Sent(t)' = Sent(t)
    <3>1. Posted(From(t))' = IF From(t) = b THEN Posted(From(t)) + 1 ELSE Posted(From(t))
      BY <1>5, <2>2
    <3>2. Posted(From(t)) \in Nat
      BY <2>2, <2>3
    <3>3. Sent(t) = Posted(From(t)) - Len(sends[t]) /\ Sent(t)' = Posted(From(t))' - Len(sends'[t])
      BY DEF Sent
    <3>4. CASE From(t) = b
      <4>1. Len(sends[t]) = 0 /\ Len(sends'[t]) = 1
        BY <2>1, <3>4
      <4>2. Posted(From(t))' = Posted(From(t)) + 1
        BY <3>1, <3>4
      <4> QED
        BY <3>2, <3>3, <4>1, <4>2
    <3>5. CASE From(t) # b
      BY <1>2, <3>1, <3>2, <3>3, <3>5
    <3> QED
      BY <3>4, <3>5
  <2>5. ASSUME NEW t \in Remote PROVE Received(t)' = Received(t)
    <3>1. Posted(To(t))' = IF To(t) = b THEN Posted(To(t)) + 1 ELSE Posted(To(t))
      BY <1>5, <2>2
    <3>2. Posted(To(t)) \in Nat
      BY <2>2, <2>3
    <3>3. /\ Received(t) = Posted(To(t)) - Len(recvs[t])
          /\ Received(t)' = Posted(To(t))' - Len(recvs'[t])
      BY <2>2 DEF Received
    <3>4. CASE To(t) = b
      <4>1. Len(recvs[t]) = 0 /\ Len(recvs'[t]) = 1
        BY <2>1, <3>4
      <4>2. Posted(To(t))' = Posted(To(t)) + 1
        BY <3>1, <3>4
      <4> QED
        BY <3>2, <3>3, <4>1, <4>2
    <3>5. CASE To(t) # b
      BY <1>2, <3>1, <3>2, <3>3, <3>5
    <3> QED
      BY <3>4, <3>5
  <2> QED
    BY <2>4, <2>5
<1>7. \A t \in Transfers : Received(t)' = Received(t)
  BY <1>5, <1>6, Ends DEF Received
<1>8. Together' /\ DeliveredOK' /\ GhostsFresh' /\ NetOK'
  BY <1>1, <1>5, <1>6, <1>7, Ends DEF Together, DeliveredOK, GhostsFresh, NetOK
<1>9. PackedOK'
  BY <1>1 DEF Types, PackedOK
<1>10. PostsOK'
  <2>1. pc'[b] = "wait" /\ \A c \in Blocks : c # b => pc'[c] = pc[c]
    BY <1>1 DEF Types
  <2> QED
    BY <1>1, <1>2, <2>1, Ends DEF PostsOK, Posts, Remote
<1> QED
  BY <1>4, <1>8, <1>9, <1>10

\* What a posted send finds in its buffer.
LEMMA DepartStep ==
  ASSUME GInv, NEW t \in Remote, Depart(t)
  PROVE  GInv'
<1> USE DEF GInv
<1> DEFINE a == From(t)  r == round[a]
<1>1. a \in Blocks /\ t \in Transfers /\ ~Local(t)
  BY Ends DEF Remote
<1>2. /\ pc[a] = "wait" /\ sends[t] = <<r>> /\ Head(sends[t]) = r /\ Tail(sends[t]) = <<>>
      /\ Len(sends[t]) = 1
  <2>1. sends[t] # <<>> /\ sends[t] \in Seq(Nat) /\ Posts(sends[t], a)
    BY DEF Depart, PostsOK, Types
  <2>2. sends[t] = <<r>>
    BY <2>1 DEF Posts
  <2> QED
    BY <1>1, <2>1, <2>2, OnePost
<1>3. r \in Nat /\ Posted(a) = r /\ send_bufs[a][Kind(r)] = r
  BY <1>1, <1>2 DEF Types, Posted, PackedOK
<1>4. /\ net' = [net EXCEPT ![t] = Append(net[t], r)]
      /\ sends' = [sends EXCEPT ![t] = <<>>]
      /\ UNCHANGED <<pc, round, send_bufs, recv_bufs, recvs, ghosts>>
  BY <1>2, <1>3 DEF Depart, bufs
<1> HIDE DEF a, r
<1>5. /\ net'[t] = Append(net[t], r) /\ sends'[t] = <<>> /\ Len(sends'[t]) = 0
      /\ \A u \in Remote : u # t => net'[u] = net[u] /\ sends'[u] = sends[u]
  BY <1>4 DEF Types
<1>6. net[t] \in Seq(Nat) /\ net'[t] \in Seq(Nat)
  <2>1. net[t] \in Seq(Nat)
    BY DEF Types
  <2> QED
    BY <1>3, <1>5, <2>1
<1>7. Types'
  <2>1. net' \in [Remote -> Seq(Nat)] /\ sends' \in [Remote -> Seq(Nat)]
    <3>1. <<>> \in Seq(Nat)
      OBVIOUS
    <3>2. Append(net[t], r) \in Seq(Nat)
      BY <1>5, <1>6
    <3> QED
      BY <1>4, <3>1, <3>2 DEF Types
  <2> QED
    BY <1>4, <2>1 DEF Types
<1>8. \A c \in Blocks : /\ MetFor(c)' = MetFor(c) /\ Posted(c)' = Posted(c)
                        /\ Finished(c)' = Finished(c)
  BY <1>4 DEF MetFor, Posted, Finished
<1>9. \A u \in Transfers : Received(u)' = Received(u)
  BY <1>4, <1>8, Ends DEF Received
<1>10. Together' /\ PackedOK' /\ DeliveredOK' /\ GhostsFresh'
  BY <1>4, <1>8, <1>9, Ends DEF Together, PackedOK, DeliveredOK, GhostsFresh
<1>11. PostsOK'
  BY <1>4, <1>5 DEF PostsOK, Posts
<1>12. Sent(t) = r - 1 /\ Sent(t)' = r
  <2>1. Sent(t) = Posted(a) - Len(sends[t]) /\ Sent(t)' = Posted(a)' - Len(sends'[t])
    BY DEF Sent, a
  <2> QED
    BY <1>1, <1>2, <1>3, <1>5, <1>8, <2>1
<1>13. \A u \in Remote : u # t => Sent(u)' = Sent(u)
  BY <1>5, <1>8, Ends DEF Sent, Remote
<1>14. NetOK'
  <2>1. ASSUME NEW u \in Remote, u # t
        PROVE  /\ Len(net'[u]) = Sent(u)' - Received(u)'
               /\ \A i \in 1..Len(net'[u]) : net'[u][i] = Received(u)' + i
    BY <1>5, <1>9, <1>13, <2>1 DEF NetOK, Remote
  <2>2. /\ Len(net[t]) = r - 1 - Received(t)
        /\ \A i \in 1..Len(net[t]) : net[t][i] = Received(t) + i
    BY <1>12 DEF NetOK
  <2>3. Received(t) \in Int
    BY <1>1, Ends, Counts DEF Received, Types
  <2>4. /\ Len(net'[t]) = Len(net[t]) + 1
        /\ net'[t][Len(net[t]) + 1] = r
        /\ \A i \in 1..Len(net[t]) : net'[t][i] = net[t][i]
    BY <1>3, <1>5, <1>6
  <2>5. Len(net'[t]) = r - Received(t)
    BY <1>3, <1>6, <2>2, <2>3, <2>4
  <2>6. \A i \in 1..Len(net'[t]) : net'[t][i] = Received(t) + i
    <3> SUFFICES ASSUME NEW i \in 1..Len(net'[t]) PROVE net'[t][i] = Received(t) + i
      OBVIOUS
    <3>1. Len(net[t]) \in Nat /\ (i \in 1..Len(net[t]) \/ i = Len(net[t]) + 1)
      BY <1>6, <2>4
    <3>2. CASE i \in 1..Len(net[t])
      BY <2>2, <2>4, <3>2
    <3>3. CASE i = Len(net[t]) + 1
      BY <1>3, <2>2, <2>3, <2>4, <3>1, <3>3
    <3> QED
      BY <3>1, <3>2, <3>3
  <2> QED
    BY <1>1, <1>9, <1>12, <2>1, <2>5, <2>6 DEF NetOK
<1> QED
  BY <1>7, <1>10, <1>11, <1>14

\* A message fills the buffer of the receive that waits for it.
LEMMA ArriveStep ==
  ASSUME GInv, NEW t \in Remote, Arrive(t)
  PROVE  GInv'
<1> USE DEF GInv
<1> DEFINE b == To(t)  r == round[b]
<1>1. b \in Blocks /\ t \in Transfers /\ ~Local(t)
  BY Ends DEF Remote
<1>2. /\ pc[b] = "wait" /\ recvs[t] = <<r>> /\ Head(recvs[t]) = r /\ Tail(recvs[t]) = <<>>
      /\ Len(recvs[t]) = 1
  <2>1. recvs[t] # <<>> /\ recvs[t] \in Seq(Nat) /\ Posts(recvs[t], b)
    BY DEF Arrive, PostsOK, Types
  <2>2. recvs[t] = <<r>>
    BY <2>1 DEF Posts
  <2> QED
    BY <1>1, <2>1, <2>2, OnePost
<1>3. r \in Nat /\ Posted(b) = r /\ Kind(r) \in KindSet
  BY <1>1, <1>2, KindIs DEF Types, Posted
<1>4. Received(t) = r - 1
  <2>1. Received(t) = Posted(b) - Len(recvs[t])
    BY <1>1 DEF Received, b
  <2> QED
    BY <1>2, <1>3, <2>1
<1> HIDE DEF b, r
<1>5. /\ net[t] \in Seq(Nat) /\ net[t] # <<>>
      /\ \A i \in 1..Len(net[t]) : net[t][i] = r - 1 + i
      /\ Len(net[t]) = Sent(t) - (r - 1)
  BY <1>4 DEF Arrive, NetOK, Types
<1>6. /\ Len(net[t]) \in Nat /\ Len(net[t]) > 0 /\ Head(net[t]) = r
      /\ Tail(net[t]) \in Seq(Nat) /\ Len(Tail(net[t])) = Len(net[t]) - 1
      /\ \A i \in 1..Len(Tail(net[t])) : Tail(net[t])[i] = net[t][i + 1]
  <2>1. Len(net[t]) \in Nat /\ Len(net[t]) > 0
    BY <1>5
  <2>2. Head(net[t]) = net[t][1] /\ net[t][1] = r - 1 + 1
    BY <1>5, <2>1
  <2>3. /\ Tail(net[t]) \in Seq(Nat) /\ Len(Tail(net[t])) = Len(net[t]) - 1
        /\ \A i \in 1..Len(Tail(net[t])) : Tail(net[t])[i] = net[t][i + 1]
    BY <1>5, <2>1
  <2> QED
    BY <1>3, <2>1, <2>2, <2>3
<1>7. /\ recv_bufs' = [recv_bufs EXCEPT ![t][Kind(r)] = r]
      /\ net' = [net EXCEPT ![t] = Tail(net[t])]
      /\ recvs' = [recvs EXCEPT ![t] = <<>>]
      /\ UNCHANGED <<pc, round, send_bufs, sends, ghosts>>
  BY <1>2, <1>6 DEF Arrive
<1>8. /\ net'[t] = Tail(net[t]) /\ recvs'[t] = <<>> /\ Len(recvs'[t]) = 0
      /\ recv_bufs'[t][Kind(r)] = r
      /\ \A u \in Remote : u # t => net'[u] = net[u] /\ recvs'[u] = recvs[u]
      /\ \A u \in Transfers : u # t => recv_bufs'[u] = recv_bufs[u]
  <2>1. recv_bufs'[t][Kind(r)] = r /\ \A u \in Transfers : u # t => recv_bufs'[u] = recv_bufs[u]
    BY <1>1, <1>3, <1>7 DEF Types
  <2>2. Len(<<>>) = 0
    OBVIOUS
  <2> QED
    BY <1>7, <2>1, <2>2 DEF Types
<1>9. Types'
  <2>1. net' \in [Remote -> Seq(Nat)]
    BY <1>6, <1>7 DEF Types
  <2>2. recvs' \in [Remote -> Seq(Nat)]
    <3>1. <<>> \in Seq(Nat)
      OBVIOUS
    <3> QED
      BY <1>7, <3>1 DEF Types
  <2>3. recv_bufs' \in [Transfers -> [KindSet -> Nat]]
    BY <1>1, <1>3, <1>7 DEF Types
  <2> QED
    BY <1>7, <2>1, <2>2, <2>3 DEF Types
<1>10. \A c \in Blocks : /\ MetFor(c)' = MetFor(c) /\ Posted(c)' = Posted(c)
                         /\ Finished(c)' = Finished(c)
  BY <1>7 DEF MetFor, Posted, Finished
<1>11. \A u \in Transfers : u # t => Received(u)' = Received(u)
  BY <1>8, <1>10, Ends DEF Received
<1>12. Received(t)' = r
  <2>1. Received(t)' = Posted(b)' - Len(recvs'[t])
    BY <1>1 DEF Received, b, Local
  <2> QED
    BY <1>1, <1>3, <1>8, <1>10, <2>1
<1>13. Together' /\ PackedOK' /\ GhostsFresh'
  BY <1>7, <1>10, Ends DEF Together, PackedOK, GhostsFresh
<1>14. DeliveredOK'
  BY <1>8, <1>11, <1>12 DEF DeliveredOK
<1>15. PostsOK'
  BY <1>7, <1>8 DEF PostsOK, Posts
<1>16. \A u \in Remote : Sent(u)' = Sent(u)
  BY <1>7, <1>10, Ends DEF Sent, Remote
<1>17. NetOK'
  <2>1. ASSUME NEW u \in Remote, u # t
        PROVE  /\ Len(net'[u]) = Sent(u)' - Received(u)'
               /\ \A i \in 1..Len(net'[u]) : net'[u][i] = Received(u)' + i
    BY <1>8, <1>11, <1>16, <2>1 DEF NetOK, Remote
  <2>2. Sent(t) \in Int
    BY <1>1, Ends, Counts DEF Sent, Types
  <2>3. Len(net'[t]) = Sent(t) - r
    BY <1>3, <1>5, <1>6, <1>8, <2>2
  <2>4. \A i \in 1..Len(net'[t]) : net'[t][i] = r + i
    <3> SUFFICES ASSUME NEW i \in 1..Len(net'[t]) PROVE net'[t][i] = r + i
      OBVIOUS
    <3>1. net'[t][i] = net[t][i + 1] /\ i + 1 \in 1..Len(net[t])
      BY <1>6, <1>8
    <3>2. net[t][i + 1] = r - 1 + (i + 1)
      BY <1>5, <3>1
    <3> QED
      BY <1>3, <3>1, <3>2
  <2> QED
    BY <1>12, <1>16, <2>1, <2>3, <2>4 DEF NetOK
<1> QED
  BY <1>9, <1>13, <1>14, <1>15, <1>17

\* All works of a block are done: it has what was packed for its exchange.
LEMMA FinalizeStep ==
  ASSUME GInv, NEW b \in Blocks, Finalize(b)
  PROVE  /\ GInv' /\ \A t \in Transfers : To(t) = b => Received(t) = round[b]
<1> USE DEF GInv
<1>1. /\ pc[b] = "wait" /\ WorksDone(b)
      /\ ghosts' = [t \in Transfers |-> IF To(t) = b THEN recv_bufs[t][Kind(round[b])]
                                        ELSE ghosts[t]]
      /\ UNCHANGED <<send_bufs, recv_bufs, sends, net, recvs>>
      /\ \/ pc' = [pc EXCEPT ![b] = "done"] /\ round' = round
         \/ pc' = [pc EXCEPT ![b] = "pack"] /\ round' = [round EXCEPT ![b] = @ + 1]
  BY DEF Finalize, bufs, transport
<1>2. round[b] \in Nat /\ round[b] > 0 /\ MetFor(b) = round[b] /\ Posted(b) = round[b]
  BY <1>1 DEF Types, MetFor, Posted
<1>3. \A t \in Transfers : To(t) = b => Received(t) = round[b]
  <2> SUFFICES ASSUME NEW t \in Transfers, To(t) = b PROVE Received(t) = round[b]
    OBVIOUS
  <2>1. CASE Local(t)
    BY <1>2, <2>1 DEF Received
  <2>2. CASE ~Local(t)
    <3>1. recvs[t] = <<>>
      BY <1>1, <2>2, Ends DEF WorksDone
    <3>2. Len(<<>>) = 0
      OBVIOUS
    <3> QED
      BY <1>2, <2>2, <3>1, <3>2 DEF Received
  <2> QED
    BY <2>1, <2>2
<1>4. \A t \in Transfers : To(t) = b => ghosts'[t] = round[b]
  BY <1>1, <1>2, <1>3 DEF DeliveredOK
<1>5. \A c \in Blocks : /\ c # b => pc'[c] = pc[c] /\ round'[c] = round[c]
                        /\ MetFor(c)' = MetFor(c) /\ Posted(c)' = Posted(c)
                        /\ Finished(c)' = IF c = b THEN round[b] ELSE Finished(c)
  <2>1. \A c \in Blocks : c # b => pc'[c] = pc[c] /\ round'[c] = round[c]
    BY <1>1 DEF Types
  <2>2. \/ pc'[b] = "done" /\ round'[b] = round[b]
        \/ pc'[b] = "pack" /\ round'[b] = round[b] + 1
    BY <1>1 DEF Types
  <2> QED
    BY <1>2, <2>1, <2>2 DEF MetFor, Posted, Finished
<1>6. Types'
  <2>1. ghosts' \in [Transfers -> Nat]
    <3>1. \A t \in Transfers : ghosts'[t] \in Nat
      BY <1>1, <1>2, <1>4 DEF Types
    <3> QED
      BY <1>1, <3>1
  <2>2. pc' \in [Blocks -> Places] /\ round' \in [Blocks -> Nat \ {0}]
    <3>1. round[b] + 1 \in Nat \ {0}
      BY <1>2
    <3> QED
      BY <1>1, <3>1 DEF Types, Places
  <2> QED
    BY <1>1, <2>1, <2>2 DEF Types
<1>7. GhostsFresh'
  BY <1>1, <1>4, <1>5, Ends DEF GhostsFresh
<1>8. \A t \in Transfers : Received(t)' = Received(t)
  BY <1>1, <1>5, Ends DEF Received
<1>9. Together' /\ DeliveredOK'
  BY <1>1, <1>5, <1>8 DEF Together, DeliveredOK
<1>10. PackedOK'
  <2>1. pc'[b] # "pack" => round'[b] = round[b]
    BY <1>1 DEF Types
  <2> QED
    BY <1>1, <1>5, <2>1 DEF PackedOK
<1>11. PostsOK'
  <2>1. \A t \in Remote : /\ From(t) = b => sends[t] = <<>>
                          /\ To(t) = b => recvs[t] = <<>>
    BY <1>1 DEF WorksDone
  <2> QED
    BY <1>1, <1>5, <2>1, Ends DEF PostsOK, Posts, Remote
<1>12. NetOK'
  <2>1. \A t \in Remote : Sent(t)' = Sent(t) /\ Received(t)' = Received(t)
    BY <1>1, <1>5, <1>8, Ends DEF Sent, Remote
  <2> QED
    BY <1>1, <2>1 DEF NetOK
<1> QED
  BY <1>3, <1>6, <1>7, <1>9, <1>10, <1>11, <1>12

\* Every step keeps the counts.
LEMMA NextGInv == GInv /\ [Next]_vars => GInv'
<1> SUFFICES ASSUME GInv, [Next]_vars PROVE GInv'
  OBVIOUS
<1>1. CASE UNCHANGED vars
  BY <1>1 DEF vars, bufs, transport, GInv, Types, Together, PackedOK, PostsOK, Posts, NetOK,
              DeliveredOK, GhostsFresh, MetFor, Posted, Finished, Sent, Received
<1>2. CASE Next
  BY <1>1, <1>2, PackStep, MeetStep, PostStep, DepartStep, ArriveStep, FinalizeStep
     DEF Next, BlockStep, Terminated
<1> QED
  BY <1>1, <1>2

\* The counts hold, for every mesh, plan, and number of kinds and exchanges.
THEOREM CountsHold == Spec => []GInv
BY InitGInv, NextGInv, PTL DEF Spec

-----------------------------------------------------------------------------
\* What is under way of a transfer is counted at the sender and at the receiver.
LEMMA Balance ==
  ASSUME GInv, NEW t \in Remote
  PROVE  /\ From(t) \in Blocks /\ To(t) \in Blocks
         /\ Posted(From(t)) \in Nat /\ Posted(To(t)) \in Nat
         /\ Len(sends[t]) + Len(net[t]) = Posted(From(t)) - Received(t)
         /\ Received(t) \in Int /\ Received(t) >= Posted(To(t)) - 1
         /\ Received(t) <= Posted(From(t))
<1> USE DEF GInv
<1>1. /\ From(t) \in Blocks /\ To(t) \in Blocks /\ ~Local(t)
      /\ Posted(From(t)) \in Nat /\ Posted(To(t)) \in Nat
  BY Ends, Counts DEF Remote
<1>2. Len(sends[t]) \in {0, 1} /\ Len(recvs[t]) \in {0, 1} /\ Len(net[t]) \in Nat
  <2>1. sends[t] \in Seq(Nat) /\ recvs[t] \in Seq(Nat) /\ net[t] \in Seq(Nat)
    BY DEF Types
  <2>2. Posts(sends[t], From(t)) /\ Posts(recvs[t], To(t))
    BY DEF PostsOK
  <2> QED
    BY <1>1, <2>1, <2>2, OnePost
<1>3. Received(t) = Posted(To(t)) - Len(recvs[t])
  BY <1>1 DEF Received
<1>4. Len(net[t]) = Posted(From(t)) - Len(sends[t]) - Received(t)
  BY DEF NetOK, Sent
<1>5. PICK s \in {0, 1}, r \in {0, 1}, n \in Nat, x \in Nat, y \in Nat :
        /\ s = Len(sends[t]) /\ r = Len(recvs[t]) /\ n = Len(net[t])
        /\ x = Posted(From(t)) /\ y = Posted(To(t))
  BY <1>1, <1>2
<1>6. Received(t) = y - r /\ n = x - s - Received(t)
  BY <1>3, <1>4, <1>5
<1>7. /\ Received(t) \in Int /\ Received(t) >= y - 1
      /\ s + n = x - Received(t) /\ Received(t) <= x
  BY <1>6
<1> QED
  BY <1>1, <1>5, <1>7

\* The opposite of a transfer.
LEMMA Opposite ==
  ASSUME NEW t \in Remote
  PROVE  \E u \in Remote : From(u) = To(t) /\ To(u) = From(t)
<1>1. t \in Transfers /\ ~Local(t)
  BY DEF Remote
<1> DEFINE u == <<t[3], t[4], t[1], t[2]>>
<1>2. u \in Transfers /\ From(u) = To(t) /\ To(u) = From(t)
  BY <1>1, PlanAssumption DEF From, To
<1>3. u \in Remote
  BY <1>1, <1>2 DEF Remote, Local
<1> QED
  BY <1>2, <1>3

\* However far processes drift apart, an exchange is of data of its own round:
\* ghost zones are fresh, send buffers are not overwritten, messages meet their
\* own receive, and at most two with one tag are under way.
THEOREM RoundsNeverMix == Spec => []RoundsStayApart
<1>1. ASSUME GInv PROVE RoundsStayApart
  <2> USE <1>1 DEF GInv
  <2>1. GhostsFresh
    OBVIOUS
  <2>2. SendBuffersStable
    <3> SUFFICES ASSUME NEW t \in Remote, NEW i \in 1..Len(sends[t])
                 PROVE  send_bufs[From(t)][Kind(sends[t][i])] = sends[t][i]
      BY DEF SendBuffersStable
    <3>1. sends[t] # <<>>
      BY DEF Types
    <3>2. pc[From(t)] = "wait" /\ sends[t] = <<round[From(t)]>>
      BY <3>1 DEF PostsOK, Posts
    <3>3. sends[t][i] = round[From(t)]
      BY <3>2
    <3> QED
      BY <3>2, <3>3, Balance DEF PackedOK
  <2>3. MessagesMeetTheirReceive
    <3> SUFFICES ASSUME NEW t \in Remote, net[t] # <<>>, recvs[t] # <<>>
                 PROVE  Head(net[t]) = Head(recvs[t])
      BY DEF MessagesMeetTheirReceive
    <3>1. pc[To(t)] = "wait" /\ recvs[t] = <<round[To(t)]>>
      BY DEF PostsOK, Posts
    <3>2. /\ To(t) \in Blocks /\ round[To(t)] \in Nat /\ ~Local(t)
          /\ Head(recvs[t]) = round[To(t)] /\ Len(recvs[t]) = 1
      BY <3>1, Ends DEF Types, Remote
    <3>3. Received(t) = round[To(t)] - 1
      BY <3>1, <3>2 DEF Received, Posted
    <3>4. net[t] \in Seq(Nat) /\ 1 \in 1..Len(net[t]) /\ Head(net[t]) = net[t][1]
      BY DEF Types
    <3>5. net[t][1] = Received(t) + 1
      BY <3>4 DEF NetOK
    <3> QED
      BY <3>2, <3>3, <3>4, <3>5
  <2>4. AtMostTwoInFlight
    <3> SUFFICES ASSUME NEW t \in Remote PROVE Len(sends[t]) + Len(net[t]) <= 2
      BY DEF AtMostTwoInFlight
    <3>1. PICK u \in Remote : From(u) = To(t) /\ To(u) = From(t)
      BY Opposite
    <3>2. Received(u) >= Posted(From(t)) - 1 /\ Received(u) <= Posted(To(t)) /\ Received(u) \in Int
      BY <3>1, Balance
    <3>3. /\ Len(sends[t]) + Len(net[t]) = Posted(From(t)) - Received(t)
          /\ Received(t) \in Int /\ Received(t) >= Posted(To(t)) - 1
          /\ Posted(From(t)) \in Nat /\ Posted(To(t)) \in Nat
      BY Balance
    <3>4. PICK x \in Nat, y \in Nat : x = Posted(From(t)) /\ y = Posted(To(t))
      BY <3>3
    <3>5. x - Received(t) <= 2
      BY <3>2, <3>3, <3>4
    <3> QED
      BY <3>3, <3>4, <3>5
  <2> QED
    BY <2>1, <2>2, <2>3, <2>4 DEF RoundsStayApart
<1> QED
  BY <1>1, CountsHold, PTL

-----------------------------------------------------------------------------
\* Neighbors are blocks, and the oldest data from one is that of the exchange.
LEMMA HaloGhosts ==
  ASSUME GInv
  PROVE  /\ \A b \in Blocks : \A c \in Neighbors[b] : c \in Blocks
         /\ [b \in Blocks |-> [c \in Neighbors[b] |-> GhostsFrom(b, c)]] =
            [b \in Blocks |-> [c \in Neighbors[b] |-> Finished(b)]]
<1> USE DEF GInv
<1>1. ASSUME NEW b \in Blocks, NEW c \in Neighbors[b]
      PROVE  c \in Blocks /\ GhostsFrom(b, c) = Finished(b)
  <2>1. PICK t \in Transfers : To(t) = b /\ From(t) = c
    BY DEF Neighbors, NeighborsOf
  <2>2. Between[b][c] = {u \in Transfers : To(u) = b /\ From(u) = c}
    BY DEF Between
  <2>3. {ghosts[u] : u \in Between[b][c]} = {Finished(b)}
    BY <2>1, <2>2 DEF GhostsFresh
  <2>4. Finished(b) \in Int
    BY DEF Finished, Types
  <2>5. Min({Finished(b)}) = Finished(b)
    BY <2>4 DEF Min
  <2> QED
    BY <2>1, <2>3, <2>5, Ends DEF GhostsFrom
<1> QED
  BY <1>1

\* The same after a step.
LEMMA HaloGhostsNext ==
  ASSUME GInv'
  PROVE  [b \in Blocks |-> [c \in Neighbors[b] |-> GhostsFrom(b, c)]]' =
         [b \in Blocks |-> [c \in Neighbors[b] |-> Finished(b)]]'
<1>1. (GInv => [b \in Blocks |-> [c \in Neighbors[b] |-> GhostsFrom(b, c)]] =
               [b \in Blocks |-> [c \in Neighbors[b] |-> Finished(b)]])'
  BY HaloGhosts, PTL
<1> QED
  BY <1>1

\* What HaloExchange sees of a step.
LEMMA HaloStep ==
  ASSUME GInv, [Next]_vars, GInv'
  PROVE  [Halo!Next]_(Halo!vars)
<1> USE DEF GInv
<1>1. ASSUME \A b \in Blocks : Packed(b)' = Packed(b) /\ Finished(b)' = Finished(b)
      PROVE  UNCHANGED Halo!vars
  <2>1. /\ [b \in Blocks |-> Packed(b)]' = [b \in Blocks |-> Packed(b)]
        /\ [b \in Blocks |-> Finished(b)]' = [b \in Blocks |-> Finished(b)]
        /\ [b \in Blocks |-> [c \in Neighbors[b] |-> Finished(b)]]' =
           [b \in Blocks |-> [c \in Neighbors[b] |-> Finished(b)]]
    BY <1>1
  <2> QED
    BY <2>1, HaloGhosts, HaloGhostsNext DEF Halo!vars
<1>2. ASSUME NEW b \in Blocks, Pack(b) PROVE Halo!Pack(b)
  <2>1. /\ pc[b] = "pack" /\ pc' = [pc EXCEPT ![b] = "meet"] /\ round' = round
    BY <1>2 DEF Pack
  <2>2. \A c \in Blocks : /\ Packed(c)' = IF c = b THEN Packed(c) + 1 ELSE Packed(c)
                          /\ Finished(c)' = Finished(c)
    BY <2>1 DEF Types, Packed, Finished
  <2>3. Packed(b) = Finished(b)
    BY <2>1 DEF Packed, Finished
  <2>4. /\ [c \in Blocks |-> Packed(c)]' =
             [[c \in Blocks |-> Packed(c)] EXCEPT ![b] = @ + 1]
        /\ [c \in Blocks |-> Finished(c)]' = [c \in Blocks |-> Finished(c)]
        /\ [c \in Blocks |-> [d \in Neighbors[c] |-> Finished(c)]]' =
           [c \in Blocks |-> [d \in Neighbors[c] |-> Finished(c)]]
    BY <2>2
  <2> QED
    BY <2>3, <2>4, HaloGhosts, HaloGhostsNext DEF Halo!Pack
<1>3. ASSUME NEW b \in Blocks, Finalize(b) PROVE Halo!Unpack(b)
  <2>1. /\ pc[b] = "wait" /\ UNCHANGED <<sends, net, recvs>>
        /\ \/ pc' = [pc EXCEPT ![b] = "done"] /\ round' = round
           \/ pc' = [pc EXCEPT ![b] = "pack"] /\ round' = [round EXCEPT ![b] = @ + 1]
    BY <1>3 DEF Finalize, transport
  <2>2. round[b] \in Nat /\ Packed(b) = round[b] /\ Finished(b) = round[b] - 1
    BY <2>1 DEF Types, Packed, Finished
  <2>3. \A c \in Blocks : /\ Packed(c)' = Packed(c)
                          /\ Finished(c)' = IF c = b THEN Packed(b) ELSE Finished(c)
    <3>1. \A c \in Blocks : c # b => pc'[c] = pc[c] /\ round'[c] = round[c]
      BY <2>1 DEF Types
    <3>2. \/ pc'[b] = "done" /\ round'[b] = round[b]
          \/ pc'[b] = "pack" /\ round'[b] = round[b] + 1
      BY <2>1 DEF Types
    <3> QED
      BY <2>1, <2>2, <3>1, <3>2 DEF Packed, Finished
  <2>4. ASSUME NEW c \in Neighbors[b] PROVE Packed(c) >= Packed(b)
    <3>1. PICK t \in Transfers : To(t) = b /\ From(t) = c
      BY DEF Neighbors, NeighborsOf
    <3>2. Received(t) = round[b] /\ c \in Blocks
      BY <1>3, <3>1, FinalizeStep, Ends
    <3>3. MetFor(c) \in Nat /\ Posted(c) \in Nat /\ Posted(c) <= MetFor(c) /\ MetFor(c) <= Packed(c)
          /\ Packed(c) \in Nat
      BY <3>2 DEF Types, Packed, MetFor, Posted
    <3>4. CASE Local(t)
      BY <2>2, <3>1, <3>2, <3>3, <3>4 DEF Received, Local, Together
    <3>5. CASE ~Local(t)
      <4>1. Received(t) <= Posted(c)
        BY <3>1, <3>5, Balance DEF Remote
      <4> QED
        BY <2>2, <3>2, <3>3, <4>1
    <3> QED
      BY <3>4, <3>5
  <2>5. /\ [c \in Blocks |-> Packed(c)]' = [c \in Blocks |-> Packed(c)]
        /\ [c \in Blocks |-> Finished(c)]' =
             [[c \in Blocks |-> Finished(c)] EXCEPT ![b] = Packed(b)]
        /\ [c \in Blocks |-> [d \in Neighbors[c] |-> Finished(c)]]' =
             [[c \in Blocks |-> [d \in Neighbors[c] |-> Finished(c)]]
                EXCEPT ![b] = [d \in Neighbors[b] |-> Packed(b)]]
    BY <2>3
  <2>6. /\ [c \in Blocks |-> Finished(c)][b] < [c \in Blocks |-> Packed(c)][b]
        /\ [c \in Blocks |-> Packed(c)][b] = Packed(b)
    BY <2>2
  <2>7. \A c \in Neighbors[b] :
          [d \in Blocks |-> Packed(d)][c] >= [d \in Blocks |-> Packed(d)][b]
    BY <2>4, <2>6, HaloGhosts
  <2> QED
    BY <2>5, <2>6, <2>7, HaloGhosts, HaloGhostsNext DEF Halo!Unpack
<1>4. ASSUME \/ \E b \in Blocks : Post(b)
             \/ \E p \in {Process[b] : b \in Blocks} : Meet(p)
             \/ \E t \in Remote : Depart(t) \/ Arrive(t)
             \/ UNCHANGED vars
      PROVE  \A b \in Blocks : Packed(b)' = Packed(b) /\ Finished(b)' = Finished(b)
  <2>1. ASSUME NEW b \in Blocks, Post(b)
        PROVE  \A c \in Blocks : Packed(c)' = Packed(c) /\ Finished(c)' = Finished(c)
    BY <2>1 DEF Post, Types, Packed, Finished
  <2>2. ASSUME NEW p, Meet(p)
        PROVE  \A c \in Blocks : Packed(c)' = Packed(c) /\ Finished(c)' = Finished(c)
    BY <2>2 DEF Meet, MeetAll, Types, Packed, Finished
  <2>3. ASSUME NEW t \in Remote, Depart(t) \/ Arrive(t)
        PROVE  \A c \in Blocks : Packed(c)' = Packed(c) /\ Finished(c)' = Finished(c)
    BY <2>3 DEF Depart, Arrive, Packed, Finished
  <2>4. CASE UNCHANGED vars
    BY <2>4 DEF vars, Packed, Finished
  <2> QED
    BY <1>4, <2>1, <2>2, <2>3, <2>4
<1> QED
  BY <1>1, <1>2, <1>3, <1>4 DEF Next, BlockStep, Terminated, Halo!Next

\* The exchange of a run of many processes, with its meetings, messages and
\* buffers, is the exchange of its blocks in numbered rounds.
THEOREM ProcessesDoNotShow == Spec => ImplementsHalo
<1>1. ASSUME Init PROVE Halo!Init
  <2>1. GInv
    BY <1>1, InitGInv
  <2>2. \A b \in Blocks : Packed(b) = 0 /\ Finished(b) = 0
    BY <1>1 DEF Init, Packed, Finished
  <2>3. [b \in Blocks |-> [c \in Neighbors[b] |-> GhostsFrom(b, c)]] =
        [b \in Blocks |-> [c \in Neighbors[b] |-> 0]]
    BY <2>1, <2>2, HaloGhosts
  <2> QED
    BY <2>2, <2>3 DEF Halo!Init
<1>2. GInv /\ [Next]_vars => [Halo!Next]_(Halo!vars)
  BY NextGInv, HaloStep
<1> QED
  BY <1>1, <1>2, CountsHold, PTL DEF Spec, ImplementsHalo

\* A block is ahead of a neighbor by the exchange it is in, or not at all.
LEMMA NeighborAhead ==
  ASSUME GInv, NEW t \in Transfers
  PROVE  Packed(From(t)) <= Packed(To(t)) + 1
<1> USE DEF GInv
<1> DEFINE c == From(t)
           b == To(t)
<1>1. b \in Blocks /\ c \in Blocks
  BY Ends
<1>2. /\ MetFor(b) \in Nat /\ Posted(b) \in Nat /\ Posted(b) <= Packed(b)
      /\ Packed(b) \in Nat /\ MetFor(b) <= Packed(b)
      /\ MetFor(c) \in Nat /\ Posted(c) \in Nat /\ Packed(c) \in Nat
      /\ Packed(c) <= MetFor(c) + 1 /\ Packed(c) <= Posted(c) + 1
      /\ pc[c] = "wait" => Packed(c) = Posted(c)
  BY <1>1 DEF Types, Packed, MetFor, Posted
<1>3. CASE Local(t)
  <2>1. MetFor(b) = MetFor(c)
    BY <1>1, <1>3 DEF Local, Together
  <2> QED
    BY <1>2, <2>1
<1>4. CASE ~Local(t)
  <2>1. PICK u \in Remote : From(u) = b /\ To(u) = c
    BY <1>4, Opposite DEF Remote
  <2>2. /\ Received(u) \in Int /\ Received(u) >= Posted(c) - 1
        /\ Received(u) <= Posted(b)
    BY <2>1, Balance
  <2>3. pc[c] # "wait" => Received(u) = Posted(c)
    <3> SUFFICES ASSUME pc[c] # "wait" PROVE Received(u) = Posted(c)
      OBVIOUS
    <3>1. recvs[u] = <<>> /\ ~Local(u)
      BY <2>1, Ends DEF PostsOK, Posts, Remote
    <3> QED
      BY <1>2, <2>1, <3>1 DEF Received
  <2> QED
    BY <1>2, <2>2, <2>3
<1> QED
  BY <1>3, <1>4

\* However far processes drift apart, no block is ever more than one exchange
\* ahead of a neighbor, although packing never looks at them (NeighborSkew of
\* HaloExchange).
THEOREM NeighborsStayClose == Spec => []Halo!NeighborSkew
<1>1. ASSUME GInv PROVE Halo!NeighborSkew
  <2> SUFFICES ASSUME NEW b \in Blocks, NEW c \in Neighbors[b]
               PROVE  Packed(c) <= Packed(b) + 1
    BY <1>1, HaloGhosts DEF Halo!NeighborSkew
  <2>1. PICK t \in Transfers : To(t) = b /\ From(t) = c
    BY DEF Neighbors, NeighborsOf
  <2> QED
    BY <1>1, <2>1, NeighborAhead
<1> QED
  BY <1>1, CountsHold, PTL
=============================================================================
