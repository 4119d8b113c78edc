-------------------------- MODULE ColumnRelay_proofs --------------------------
(***************************************************************************)
(* The relay of a column stays in step, and is a scan of the column, for   *)
(* any number of blocks, any owners, any number of stages and wherever a   *)
(* block throws.                                                           *)
(*                                                                         *)
(* A stage is thirteen steps of a block.  What relates two blocks is how   *)
(* often each has done the step that puts something on a board or into a   *)
(* message and the one that takes it: what is under way is what has been   *)
(* put and not taken, in order, and on a board it is one piece at most.    *)
(* That a board is free when pass_x1_anchor writes on it follows from the  *)
(* rows of the stage before, which came the other way.                     *)
(***************************************************************************)
EXTENDS ColumnRelay, TLAPS

\* The steps that put and take what goes from b to c.
PutStep(b, c, tag) == IF tag = "anchor" THEN 3
                      ELSE IF tag = "flux" THEN 10
                      ELSE IF c > b THEN 5 ELSE 6

TakeStep(b, c, tag) == IF tag = "anchor" THEN 1
                       ELSE IF tag = "flux" THEN IF b > c THEN 11 ELSE 12
                       ELSE IF b < c THEN 7 ELSE 8

\* A block at n has done the first n steps of its stage.  A failed block no
\* longer tells where it was, which is why the invariant has a w.
At(place, n) ==
  \/ place = "take" /\ n = 0
  \/ place = "compute" /\ n = 1
  \/ place = "pass" /\ n = 2
  \/ place = "pass_wait" /\ n = 3
  \/ place = "post_up" /\ n = 4
  \/ place = "post_down" /\ n = 5
  \/ place = "take_below" /\ n = 6
  \/ place = "take_above" /\ n = 7
  \/ place = "rows_wait" /\ n = 8
  \/ place = "flux" /\ n = 9
  \/ place = "flux_above" /\ n = 10
  \/ place = "flux_below" /\ n = 11
  \/ place = "flux_wait" /\ n = 12
  \/ place \in {"end", "done"} /\ n = 13
  \/ place = "failed" /\ n \in 0..7

\* How often b has done step k of a stage, in stage s[b].
Times(s, w, b, k) == IF w[b] >= k THEN s[b] ELSE s[b] - 1

\* A board, and a queue of messages, of which so many were put and taken.
Board(v, put, taken) == \/ put = taken /\ v = None
                        \/ put = taken + 1 /\ v = put

Queue(q, put, taken) == /\ q \in Seq(Nat)
                        /\ Len(q) = put - taken
                        /\ \A i \in 1..Len(q) : q[i] = taken + i

RelayTypeOK == /\ DOMAIN pc = Column
               /\ stage \in [Column -> Nat \ {0}]
               /\ anchor \in [Column -> Nat] /\ reference \in [Column -> Nat]
               /\ DOMAIN rows = Column /\ DOMAIN flux = Column
               /\ \A b \in Column : /\ rows[b] \in [Seams(b) -> Nat]
                                    /\ flux[b] \in [Seams(b) -> Nat]
               /\ anchors \in [Column -> Nat]
               /\ mail \in [Column \X Column -> Nat]
               /\ DOMAIN net = Channels

NetOK(w) ==
  \A b \in Column : \A c \in Seams(b) : \A tag \in Tags :
    <<b, c, tag>> \in Channels =>
      Queue(net[<<b, c, tag>>], Times(stage, w, b, PutStep(b, c, tag)),
                                Times(stage, w, c, TakeStep(b, c, tag)))

MailOK(w) ==
  \A b \in Column : \A c \in Seams(b) : IsLocal(b, c) =>
    Board(mail[<<b, c>>], Times(stage, w, b, PutStep(b, c, "rows")),
                          Times(stage, w, c, TakeStep(b, c, "rows")))

AnchorsOK(w) ==
  \A b \in Column : b < pz /\ IsLocal(b, b + 1) =>
    Board(anchors[b], Times(stage, w, b + 1, 3), Times(stage, w, b, 1))

ResultsOK(w) ==
  \A b \in Column :
    /\ reference[b] = Times(stage, w, b, 2)
    /\ b < pz => anchor[b] = Times(stage, w, b, 1)
    /\ \A c \in Seams(b) :
         /\ rows[b][c] = Times(stage, w, b, TakeStep(c, b, "rows"))
         /\ ~IsLocal(b, c) =>
              flux[b][c] = Times(stage, w, b, TakeStep(c, b, "flux"))

Relay(w) == /\ RelayTypeOK
            /\ \A b \in Column : At(pc[b], w[b])
            /\ NetOK(w) /\ MailOK(w) /\ AnchorsOK(w) /\ ResultsOK(w)

RInv == \E w \in [Column -> 0..13] : Relay(w)
-----------------------------------------------------------------------------
(* Queues and boards.                                                      *)

\* What is put becomes the last message.
LEMMA QueueAppend ==
  ASSUME NEW q, NEW put \in Int, NEW taken \in Int, Queue(q, put, taken),
         put + 1 \in Nat
  PROVE  Queue(Append(q, put + 1), put + 1, taken)
BY DEF Queue

\* What is taken is the piece after those that were taken before.
LEMMA QueueTail ==
  ASSUME NEW q, NEW put \in Int, NEW taken \in Int, Queue(q, put, taken),
         q # <<>>
  PROVE  Head(q) = taken + 1 /\ Queue(Tail(q), put, taken + 1)
<1>1. Len(q) \in Nat /\ Len(q) > 0
  BY DEF Queue
<1>2. /\ Tail(q) \in Seq(Nat) /\ Len(Tail(q)) = Len(q) - 1
      /\ \A i \in 1..Len(q) - 1 : Tail(q)[i] = q[i + 1]
  BY <1>1 DEF Queue
<1>. QED
  BY <1>1, <1>2 DEF Queue

-----------------------------------------------------------------------------
(* A step of a block.                                                      *)

\* What a step does to a queue of messages, a board or a result if it is the
\* k-th of block b in its stage.
Advance(b, k) == /\ stage' = stage
                 /\ \A x \in Column \ {b} : pc'[x] = pc[x]
                 /\ At(pc'[b], k)

Counts(w, v, b, k) == /\ w[b] = k - 1 /\ v[b] = k
                      /\ \A x \in Column \ {b} : v[x] = w[x]

NetMoves(b, k) ==
  \A x \in Column : \A c \in Seams(x) : \A tag \in Tags :
    <<x, c, tag>> \in Channels =>
      LET m == <<x, c, tag>> IN
      /\ x = b /\ PutStep(x, c, tag) = k => net'[m] = Append(net[m], stage[b])
      /\ c = b /\ TakeStep(x, c, tag) = k
         => net[m] # <<>> /\ net'[m] = Tail(net[m])
      /\ ~(x = b /\ PutStep(x, c, tag) = k)
         /\ ~(c = b /\ TakeStep(x, c, tag) = k) => net'[m] = net[m]

MailMoves(b, k) ==
  \A x \in Column : \A c \in Seams(x) : IsLocal(x, c) =>
    LET put == x = b /\ PutStep(x, c, "rows") = k
        take == c = b /\ TakeStep(x, c, "rows") = k
    IN /\ put => mail[<<x, c>>] = None /\ mail'[<<x, c>>] = stage[b]
       /\ take => mail[<<x, c>>] # None /\ mail'[<<x, c>>] = None
       /\ ~put /\ ~take => mail'[<<x, c>>] = mail[<<x, c>>]

AnchorMoves(b, k) ==
  \A x \in Column : x < pz /\ IsLocal(x, x + 1) =>
    LET put == x + 1 = b /\ k = 3
        take == x = b /\ k = 1
    IN /\ put => anchors[x] = None /\ anchors'[x] = stage[b]
       /\ take => anchors[x] # None /\ anchors'[x] = None
       /\ ~put /\ ~take => anchors'[x] = anchors[x]

ResultMoves(b, k) ==
  \A x \in Column :
    /\ reference'[x] = IF x = b /\ k = 2 THEN stage[b] ELSE reference[x]
    /\ x < pz => anchor'[x] = IF x = b /\ k = 1 THEN stage[b] ELSE anchor[x]
    /\ \A c \in Seams(x) :
         /\ rows'[x][c] = IF x = b /\ TakeStep(c, x, "rows") = k
                          THEN stage[b] ELSE rows[x][c]
         /\ ~IsLocal(x, c) =>
              flux'[x][c] = IF x = b /\ TakeStep(c, x, "flux") = k
                            THEN stage[b] ELSE flux[x][c]

\* The number of pieces of every kind is a number.
LEMMA TimesNat ==
  ASSUME NEW w, RelayTypeOK, NEW b \in Column, NEW k
  PROVE  Times(stage, w, b, k) \in Nat /\ stage[b] \in Nat \ {0}
BY DEF RelayTypeOK, Times

\* The step is done once more, and no other step of any block.
LEMMA AdvanceTimes ==
  ASSUME NEW w \in [Column -> 0..13], NEW b \in Column, NEW k \in 1..13,
         NEW v \in [Column -> 0..13], Counts(w, v, b, k),
         RelayTypeOK, Advance(b, k)
  PROVE  /\ Times(stage, w, b, k) = stage[b] - 1
         /\ Times(stage', v, b, k) = stage[b]
         /\ \A x \in Column : \A j \in 1..13 : ~(x = b /\ j = k) =>
              Times(stage', v, x, j) = Times(stage, w, x, j)
BY DEF Counts, Advance, Times, RelayTypeOK

\* The numbers of steps are 1 to 13, and what is put by one is not taken by it.
LEMMA StepNumbers ==
  ASSUME NEW x, NEW c, NEW tag
  PROVE  /\ PutStep(x, c, tag) \in {3, 5, 6, 10}
         /\ TakeStep(x, c, tag) \in {1, 7, 8, 11, 12}
         /\ PutStep(x, c, "rows") \in {5, 6}
         /\ TakeStep(x, c, "rows") \in {7, 8}
         /\ TakeStep(x, c, "flux") \in {11, 12}
BY DEF PutStep, TakeStep

\* The queues of messages after a step.
LEMMA NetAdvances ==
  ASSUME NEW w \in [Column -> 0..13], NEW b \in Column, NEW k \in 1..13,
         NEW v \in [Column -> 0..13], Counts(w, v, b, k),
         Relay(w), Advance(b, k), NetMoves(b, k)
  PROVE  NetOK(v)'
<1>0. RelayTypeOK /\ NetOK(w)
  BY DEF Relay
<1>1. /\ Times(stage, w, b, k) = stage[b] - 1
      /\ Times(stage', v, b, k) = stage[b]
      /\ \A x \in Column : \A j \in 1..13 :
           ~(x = b /\ j = k) => Times(stage', v, x, j) = Times(stage, w, x, j)
  BY <1>0, AdvanceTimes
<1>2. SUFFICES ASSUME NEW x \in Column, NEW c \in Seams(x), NEW tag \in Tags,
                      <<x, c, tag>> \in Channels
               PROVE  Queue(net'[<<x, c, tag>>],
                            Times(stage', v, x, PutStep(x, c, tag)),
                            Times(stage', v, c, TakeStep(x, c, tag)))
  BY DEF NetOK
<1>. DEFINE q == net[<<x, c, tag>>]
            m == PutStep(x, c, tag)
            n == TakeStep(x, c, tag)
<1>3. c \in Column /\ c # x
  BY DEF Seams, Column
<1>4. m \in {3, 5, 6, 10} /\ n \in {1, 7, 8, 11, 12}
  BY StepNumbers
<1>5. Queue(q, Times(stage, w, x, m), Times(stage, w, c, n))
  BY <1>0, <1>2 DEF NetOK
<1>6. /\ Times(stage, w, x, m) \in Nat /\ Times(stage, w, c, n) \in Nat
      /\ stage[b] \in Nat \ {0}
  BY <1>0, <1>3, TimesNat
<1>7. /\ x = b /\ m = k => q' = Append(q, stage[b])
      /\ c = b /\ n = k => q # <<>> /\ q' = Tail(q)
      /\ ~(x = b /\ m = k) /\ ~(c = b /\ n = k) => q' = q
  BY <1>2 DEF NetMoves
<1>. HIDE DEF q, m, n
<1>8. Queue(q', Times(stage', v, x, m), Times(stage', v, c, n))
  <2>1. CASE x = b /\ m = k
    <3>1. /\ Times(stage', v, x, m) = Times(stage, w, x, m) + 1
          /\ Times(stage', v, c, n) = Times(stage, w, c, n)
          /\ q' = Append(q, Times(stage, w, x, m) + 1)
          /\ Times(stage, w, x, m) + 1 \in Nat
      BY <2>1, <1>1, <1>3, <1>4, <1>6, <1>7
    <3>. QED
      BY <3>1, <1>5, <1>6, QueueAppend
  <2>2. CASE c = b /\ n = k
    <3>1. /\ Times(stage', v, x, m) = Times(stage, w, x, m)
          /\ Times(stage', v, c, n) = Times(stage, w, c, n) + 1
      BY <2>2, <1>1, <1>3, <1>4, <1>6
    <3>2. q # <<>> /\ q' = Tail(q)
      BY <2>2, <1>7
    <3>. QED
      BY <3>1, <3>2, <1>5, <1>6, QueueTail
  <2>3. CASE ~(x = b /\ m = k) /\ ~(c = b /\ n = k)
    <3>1. /\ Times(stage', v, x, m) = Times(stage, w, x, m)
          /\ Times(stage', v, c, n) = Times(stage, w, c, n) /\ q' = q
      BY <2>3, <1>1, <1>3, <1>4, <1>7
    <3>. QED
      BY <3>1, <1>5
  <2>. QED
    BY <2>1, <2>2, <2>3
<1>. QED
  BY <1>8 DEF q, m, n, PutStep, TakeStep

\* The boards of rows after a step.
LEMMA MailAdvances ==
  ASSUME NEW w \in [Column -> 0..13], NEW b \in Column, NEW k \in 1..13,
         NEW v \in [Column -> 0..13], Counts(w, v, b, k),
         Relay(w), Advance(b, k), MailMoves(b, k)
  PROVE  MailOK(v)'
<1>0. RelayTypeOK /\ MailOK(w)
  BY DEF Relay
<1>1. /\ Times(stage, w, b, k) = stage[b] - 1
      /\ Times(stage', v, b, k) = stage[b]
      /\ \A x \in Column : \A j \in 1..13 :
           ~(x = b /\ j = k) => Times(stage', v, x, j) = Times(stage, w, x, j)
  BY <1>0, AdvanceTimes
<1>2. SUFFICES ASSUME NEW x \in Column, NEW c \in Seams(x), IsLocal(x, c)
               PROVE  Board(mail'[<<x, c>>],
                            Times(stage', v, x, PutStep(x, c, "rows")),
                            Times(stage', v, c, TakeStep(x, c, "rows")))
  BY DEF MailOK, IsLocal
<1>. DEFINE q == mail[<<x, c>>]
            m == PutStep(x, c, "rows")
            n == TakeStep(x, c, "rows")
<1>3. c \in Column /\ c # x
  BY DEF Seams, Column
<1>4. m \in {3, 5, 6, 10} /\ n \in {1, 7, 8, 11, 12}
  BY StepNumbers
<1>5. Board(q, Times(stage, w, x, m), Times(stage, w, c, n))
  BY <1>0, <1>2 DEF MailOK
<1>6. /\ Times(stage, w, x, m) \in Nat /\ Times(stage, w, c, n) \in Nat
      /\ stage[b] \in Nat \ {0}
  BY <1>0, <1>3, TimesNat
<1>7. /\ x = b /\ m = k => q = None /\ q' = stage[b]
      /\ c = b /\ n = k => q # None /\ q' = None
      /\ ~(x = b /\ m = k) /\ ~(c = b /\ n = k) => q' = q
  BY <1>2 DEF MailMoves
<1>. HIDE DEF q, m, n
<1>8. Board(q', Times(stage', v, x, m), Times(stage', v, c, n))
  BY <1>1, <1>3, <1>4, <1>5, <1>6, <1>7 DEF Board, None
<1>. QED
  BY <1>8 DEF q, m, n, PutStep, TakeStep

\* The boards of anchors after a step.
LEMMA AnchorsAdvance ==
  ASSUME NEW w \in [Column -> 0..13], NEW b \in Column, NEW k \in 1..13,
         NEW v \in [Column -> 0..13], Counts(w, v, b, k),
         Relay(w), Advance(b, k), AnchorMoves(b, k)
  PROVE  AnchorsOK(v)'
<1>0. RelayTypeOK /\ AnchorsOK(w)
  BY DEF Relay
<1>1. /\ Times(stage, w, b, k) = stage[b] - 1
      /\ Times(stage', v, b, k) = stage[b]
      /\ \A x \in Column : \A j \in 1..13 :
           ~(x = b /\ j = k) => Times(stage', v, x, j) = Times(stage, w, x, j)
  BY <1>0, AdvanceTimes
<1>2. SUFFICES ASSUME NEW x \in Column, x < pz, IsLocal(x, x + 1)
               PROVE  Board(anchors'[x], Times(stage', v, x + 1, 3),
                            Times(stage', v, x, 1))
  BY DEF AnchorsOK, IsLocal
<1>3. x + 1 \in Column /\ x + 1 # x
  BY <1>2, ColumnAssumption DEF Column
<1>4. /\ Board(anchors[x], Times(stage, w, x + 1, 3), Times(stage, w, x, 1))
      /\ Times(stage, w, x + 1, 3) \in Nat /\ Times(stage, w, x, 1) \in Nat
      /\ stage[b] \in Nat \ {0}
  BY <1>0, <1>2, <1>3, TimesNat DEF AnchorsOK
<1>5. /\ x + 1 = b /\ k = 3 => anchors[x] = None /\ anchors'[x] = stage[b]
      /\ x = b /\ k = 1 => anchors[x] # None /\ anchors'[x] = None
      /\ ~(x + 1 = b /\ k = 3) /\ ~(x = b /\ k = 1) => anchors'[x] = anchors[x]
  BY <1>2 DEF AnchorMoves
<1>6. Board(anchors'[x], Times(stage', v, x + 1, 3), Times(stage', v, x, 1))
  BY <1>1, <1>3, <1>4, <1>5 DEF Board, None
<1>. QED
  BY <1>6

\* What the blocks have after a step.
LEMMA ResultsAdvance ==
  ASSUME NEW w \in [Column -> 0..13], NEW b \in Column, NEW k \in 1..13,
         NEW v \in [Column -> 0..13], Counts(w, v, b, k),
         Relay(w), Advance(b, k), ResultMoves(b, k)
  PROVE  ResultsOK(v)'
<1>0. RelayTypeOK /\ ResultsOK(w)
  BY DEF Relay
<1>1. /\ Times(stage, w, b, k) = stage[b] - 1
      /\ Times(stage', v, b, k) = stage[b]
      /\ \A x \in Column : \A j \in 1..13 :
           ~(x = b /\ j = k) => Times(stage', v, x, j) = Times(stage, w, x, j)
  BY <1>0, AdvanceTimes
<1>2. SUFFICES ASSUME NEW x \in Column
      PROVE /\ reference'[x] = Times(stage', v, x, 2)
            /\ x < pz => anchor'[x] = Times(stage', v, x, 1)
            /\ \A c \in Seams(x) :
                 /\ rows'[x][c] = Times(stage', v, x, TakeStep(c, x, "rows"))
                 /\ ~IsLocal(x, c) =>
                      flux'[x][c] = Times(stage', v, x, TakeStep(c, x, "flux"))
  BY DEF ResultsOK, IsLocal
<1>3. /\ reference'[x] = Times(stage', v, x, 2)
      /\ x < pz => anchor'[x] = Times(stage', v, x, 1)
  BY <1>0, <1>1 DEF ResultsOK, ResultMoves
<1>4. ASSUME NEW c \in Seams(x)
      PROVE  /\ rows'[x][c] = Times(stage', v, x, TakeStep(c, x, "rows"))
             /\ ~IsLocal(x, c) =>
                  flux'[x][c] = Times(stage', v, x, TakeStep(c, x, "flux"))
  <2>. DEFINE n == TakeStep(c, x, "rows")
              j == TakeStep(c, x, "flux")
  <2>1. /\ n \in {1, 7, 8, 11, 12} /\ j \in {1, 7, 8, 11, 12}
        /\ n' = n /\ j' = j
    BY StepNumbers DEF TakeStep
  <2>2. /\ rows[x][c] = Times(stage, w, x, n)
        /\ ~IsLocal(x, c) => flux[x][c] = Times(stage, w, x, j)
    BY <1>0, <1>4 DEF ResultsOK
  <2>3. /\ rows'[x][c] = IF x = b /\ n = k THEN stage[b] ELSE rows[x][c]
        /\ ~IsLocal(x, c) =>
             flux'[x][c] = IF x = b /\ j = k THEN stage[b] ELSE flux[x][c]
    BY <1>4 DEF ResultMoves
  <2>. HIDE DEF n, j
  <2>4. /\ rows'[x][c] = Times(stage', v, x, n)
        /\ ~IsLocal(x, c) => flux'[x][c] = Times(stage', v, x, j)
    BY <1>1, <2>1, <2>2, <2>3
  <2>. QED
    BY <2>4 DEF n, j, TakeStep
<1>. QED
  BY <1>3, <1>4

\* A step of a block keeps the relay.
LEMMA Advances ==
  ASSUME NEW w \in [Column -> 0..13], NEW b \in Column, NEW k \in 1..13,
         Relay(w), w[b] = k - 1, Advance(b, k), RelayTypeOK',
         NetMoves(b, k), MailMoves(b, k), AnchorMoves(b, k), ResultMoves(b, k)
  PROVE  RInv'
<1>1. PICK v \in [Column -> 0..13] : Counts(w, v, b, k)
  <2>. DEFINE v == [w EXCEPT ![b] = k]
  <2>1. v \in [Column -> 0..13] /\ Counts(w, v, b, k)
    BY DEF Counts
  <2>. QED
    BY <2>1
<1>2. ASSUME NEW x \in Column
      PROVE  At(pc'[x], v[x])
  BY <1>1 DEF Relay, Advance, Counts
<1>3. NetOK(v)' /\ MailOK(v)' /\ AnchorsOK(v)' /\ ResultsOK(v)'
  BY <1>1, NetAdvances, MailAdvances, AnchorsAdvance, ResultsAdvance
<1>4. Relay(v)'
  BY <1>2, <1>3 DEF Relay
<1>. QED
  BY <1>4 DEF RInv

-----------------------------------------------------------------------------
(* The steps one by one.                                                   *)

\* A place is one number of steps, except for a failed block.
LEMMA PlaceIs ==
  ASSUME NEW n \in 0..13
  PROVE  /\ At("take", n) => n = 0
         /\ At("compute", n) => n = 1
         /\ At("pass", n) => n = 2
         /\ At("pass_wait", n) => n = 3
         /\ At("post_up", n) => n = 4
         /\ At("post_down", n) => n = 5
         /\ At("take_below", n) => n = 6
         /\ At("take_above", n) => n = 7
         /\ At("rows_wait", n) => n = 8
         /\ At("flux", n) => n = 9
         /\ At("flux_above", n) => n = 10
         /\ At("flux_below", n) => n = 11
         /\ At("flux_wait", n) => n = 12
         /\ At("end", n) => n = 13
         /\ At("done", n) => n = 13
         /\ At("failed", n) => n \in 0..7
BY DEF At

\* Step k of a stage goes between these places.
IsStep(from, to, k) == /\ \A n \in 0..13 : At(from, n) => n = k - 1
                       /\ At(to, k)

\* The thirteen steps.
LEMMA Steps ==
  /\ IsStep("take", "compute", 1)
  /\ IsStep("compute", "pass", 2)
  /\ IsStep("pass", "pass_wait", 3)
  /\ IsStep("pass_wait", "post_up", 4)
  /\ IsStep("post_up", "post_down", 5)
  /\ IsStep("post_down", "take_below", 6)
  /\ IsStep("take_below", "take_above", 7)
  /\ IsStep("take_above", "rows_wait", 8)
  /\ IsStep("rows_wait", "flux", 9)
  /\ IsStep("flux", "flux_above", 10)
  /\ IsStep("flux_above", "flux_below", 11)
  /\ IsStep("flux_below", "flux_wait", 12)
  /\ IsStep("flux_wait", "end", 13)
BY PlaceIs DEF IsStep, At

\* What a move in the program is to the count of steps.
LEMMA MoveAdvances ==
  ASSUME NEW w \in [Column -> 0..13], NEW b \in Column, NEW k \in 1..13,
         NEW from, NEW to, IsStep(from, to, k),
         Relay(w), Move(b, from, to), stage' = stage
  PROVE  /\ w[b] = k - 1 /\ Advance(b, k)
         /\ DOMAIN pc' = Column /\ stage' \in [Column -> Nat \ {0}]
<1>1. At(from, w[b]) /\ w[b] \in 0..13
  BY DEF Relay, Move
<1>2. w[b] = k - 1 /\ At(to, k)
  BY <1>1 DEF IsStep
<1>. QED
  BY <1>2 DEF Move, Relay, RelayTypeOK, Advance

\* A channel goes over one seam, between processes; an anchor goes down.
LEMMA ChannelIs ==
  ASSUME NEW x \in Column, NEW c \in Seams(x), NEW tag \in Tags
  PROVE  /\ c \in Column /\ x \in Seams(c) /\ c # x
         /\ c = x + 1 \/ c = x - 1
         /\ IsLocal(x, c) <=> IsLocal(c, x)
         /\ <<x, c, tag>> \in Channels
            <=> ~IsLocal(x, c) /\ (tag = "anchor" => c < x)
BY DEF Channels, Seams, Column, IsLocal

\* What is sent is appended to each channel of the neighbors it is for.
LEMMA SentOver ==
  ASSUME NEW b, NEW cs, NEW tag, net' = Sent(b, cs, tag)
  PROVE  /\ DOMAIN net' = Channels
         /\ \A x, c, t : <<x, c, t>> \in Channels =>
              net'[<<x, c, t>>] = IF x = b /\ c \in cs /\ t = tag
                                  THEN Append(net[<<x, c, t>>], stage[b])
                                  ELSE net[<<x, c, t>>]
BY DEF Sent

\* Steps that neither put nor take.
LEMMA QuietSteps ==
  ASSUME NEW b \in Column, NEW k \in {2, 4, 9, 13}, UNCHANGED <<boards, net>>
  PROVE  NetMoves(b, k) /\ MailMoves(b, k) /\ AnchorMoves(b, k)
<1>1. NetMoves(b, k)
  BY StepNumbers DEF NetMoves
<1>2. MailMoves(b, k)
  BY StepNumbers DEF MailMoves, boards
<1>3. AnchorMoves(b, k)
  BY DEF AnchorMoves, boards
<1>. QED
  BY <1>1, <1>2, <1>3

\* Steps after which a block has the results it had before.
LEMMA QuietResults ==
  ASSUME NEW b \in Column, NEW k \in {3, 4, 5, 6, 9, 10, 13},
         UNCHANGED results
  PROVE  ResultMoves(b, k)
BY StepNumbers DEF ResultMoves, results

\* Steps that take a message.
LEMMA TakeMoves ==
  ASSUME NEW b \in Column, NEW k \in {1, 7, 8, 11, 12}, NEW m \in Channels,
         RelayTypeOK, net[m] # <<>>, net' = [net EXCEPT ![m] = Tail(@)],
         \A x \in Column : \A c \in Seams(x) : \A tag \in Tags :
           <<x, c, tag>> \in Channels =>
             (c = b /\ TakeStep(x, c, tag) = k <=> <<x, c, tag>> = m)
  PROVE  NetMoves(b, k) /\ DOMAIN net' = Channels
<1>1. /\ DOMAIN net' = Channels /\ net'[m] = Tail(net[m])
      /\ \A l \in Channels : l # m => net'[l] = net[l]
  BY DEF RelayTypeOK
<1>2. SUFFICES ASSUME NEW x \in Column, NEW c \in Seams(x), NEW tag \in Tags,
                      <<x, c, tag>> \in Channels
      PROVE  LET l == <<x, c, tag>> IN
             /\ PutStep(x, c, tag) # k
             /\ c = b /\ TakeStep(x, c, tag) = k
                => net[l] # <<>> /\ net'[l] = Tail(net[l])
             /\ ~(c = b /\ TakeStep(x, c, tag) = k) => net'[l] = net[l]
  BY <1>1 DEF NetMoves
<1>3. PutStep(x, c, tag) # k
  BY StepNumbers
<1>4. c = b /\ TakeStep(x, c, tag) = k <=> <<x, c, tag>> = m
  BY <1>2
<1>. QED
  BY <1>1, <1>2, <1>3, <1>4

\* The waits for sends: steps 4, 9 and 13.
LEMMA WaitSendsSteps ==
  ASSUME NEW w \in [Column -> 0..13], NEW b \in Column, Relay(w), WaitSends(b)
  PROVE  RInv'
<1>1. PICK k \in {4, 9, 13} :
         /\ w[b] = k - 1 /\ Advance(b, k)
         /\ DOMAIN pc' = Column /\ stage' \in [Column -> Nat \ {0}]
  <2>0. stage' = stage
    BY DEF WaitSends
  <2>1. CASE Move(b, "pass_wait", "post_up")
    <3>1. IsStep("pass_wait", "post_up", 4)
      BY Steps
    <3>2. /\ w[b] = 3 /\ Advance(b, 4)
          /\ DOMAIN pc' = Column /\ stage' \in [Column -> Nat \ {0}]
      BY <2>0, <2>1, <3>1, MoveAdvances
    <3>. QED
      BY <3>2
  <2>2. CASE Move(b, "rows_wait", "flux")
    <3>1. IsStep("rows_wait", "flux", 9)
      BY Steps
    <3>2. /\ w[b] = 8 /\ Advance(b, 9)
          /\ DOMAIN pc' = Column /\ stage' \in [Column -> Nat \ {0}]
      BY <2>0, <2>2, <3>1, MoveAdvances
    <3>. QED
      BY <3>2
  <2>3. CASE Move(b, "flux_wait", "end")
    <3>1. IsStep("flux_wait", "end", 13)
      BY Steps
    <3>2. /\ w[b] = 12 /\ Advance(b, 13)
          /\ DOMAIN pc' = Column /\ stage' \in [Column -> Nat \ {0}]
      BY <2>0, <2>3, <3>1, MoveAdvances
    <3>. QED
      BY <3>2
  <2>. QED
    BY <2>1, <2>2, <2>3 DEF WaitSends
<1>2. UNCHANGED <<results, boards, net>>
  BY DEF WaitSends
<1>3. RelayTypeOK'
  BY <1>1, <1>2 DEF Relay, RelayTypeOK, results, boards
<1>4. /\ NetMoves(b, k) /\ MailMoves(b, k) /\ AnchorMoves(b, k)
      /\ ResultMoves(b, k)
  BY <1>1, <1>2, QuietSteps, QuietResults
<1>. QED
  BY <1>1, <1>3, <1>4, Advances

\* Step 2.
LEMMA ComputeSteps ==
  ASSUME NEW w \in [Column -> 0..13], NEW b \in Column, Relay(w), Compute(b)
  PROVE  RInv'
<1>1. /\ w[b] = 1 /\ Advance(b, 2)
      /\ DOMAIN pc' = Column /\ stage' \in [Column -> Nat \ {0}]
  <2>1. Move(b, "compute", "pass") /\ stage' = stage
    BY DEF Compute
  <2>2. IsStep("compute", "pass", 2)
    BY Steps
  <2>. QED
    BY <2>1, <2>2, MoveAdvances
<1>2. /\ UNCHANGED <<anchor, rows, flux, boards, net>>
      /\ reference' = [reference EXCEPT ![b] = stage[b]]
  BY DEF Compute
<1>3. RelayTypeOK'
  BY <1>1, <1>2 DEF Relay, RelayTypeOK, boards
<1>4. NetMoves(b, 2) /\ MailMoves(b, 2) /\ AnchorMoves(b, 2)
  BY <1>2, QuietSteps
<1>5. ResultMoves(b, 2)
  BY <1>2, StepNumbers DEF ResultMoves, Relay, RelayTypeOK
<1>. QED
  BY <1>1, <1>3, <1>4, <1>5, Advances

\* Step 1 of the block at the top.
LEMMA TakeAnchorTopSteps ==
  ASSUME NEW w \in [Column -> 0..13], NEW b \in Column, Relay(w),
         TakeAnchorTop(b)
  PROVE  RInv'
<1>1. /\ w[b] = 0 /\ Advance(b, 1) /\ b = pz
      /\ DOMAIN pc' = Column /\ stage' \in [Column -> Nat \ {0}]
  <2>1. Move(b, "take", "compute") /\ stage' = stage /\ b = pz
    BY DEF TakeAnchorTop
  <2>2. IsStep("take", "compute", 1)
    BY Steps
  <2>. QED
    BY <2>1, <2>2, MoveAdvances
<1>2. UNCHANGED <<results, boards, net>>
  BY DEF TakeAnchorTop
<1>3. RelayTypeOK'
  BY <1>1, <1>2 DEF Relay, RelayTypeOK, results, boards
<1>4. NetMoves(b, 1)
  BY <1>1, <1>2, ChannelIs DEF NetMoves, PutStep, TakeStep, Column
<1>5. MailMoves(b, 1)
  BY <1>1, <1>2 DEF MailMoves, PutStep, TakeStep, boards
<1>6. AnchorMoves(b, 1)
  BY <1>1, <1>2, ColumnAssumption DEF AnchorMoves, Column, boards
<1>7. ResultMoves(b, 1)
  <2>1. \A x \in Column : x < pz => x # b
    BY <1>1, ColumnAssumption DEF Column
  <2>. QED
    BY <2>1, <1>2, StepNumbers DEF ResultMoves, results
<1>. QED
  BY <1>1, <1>3, <1>4, <1>5, <1>6, <1>7, Advances

\* Step 1 from the board: the anchor there is that of this stage.
LEMMA TakeAnchorLocalSteps ==
  ASSUME NEW w \in [Column -> 0..13], NEW b \in Column, Relay(w),
         TakeAnchorLocal(b)
  PROVE  RInv'
<1>1. /\ w[b] = 0 /\ Advance(b, 1)
      /\ DOMAIN pc' = Column /\ stage' \in [Column -> Nat \ {0}]
  <2>1. Move(b, "take", "compute") /\ stage' = stage
    BY DEF TakeAnchorLocal
  <2>2. IsStep("take", "compute", 1)
    BY Steps
  <2>. QED
    BY <2>1, <2>2, MoveAdvances
<1>2. /\ b < pz /\ IsLocal(b, b + 1) /\ anchors[b] # None
      /\ anchor' = [anchor EXCEPT ![b] = anchors[b]]
      /\ anchors' = [anchors EXCEPT ![b] = None]
      /\ UNCHANGED <<reference, rows, flux, mail, net>>
  BY DEF TakeAnchorLocal
<1>3. anchors[b] = stage[b]
  <2>1. Board(anchors[b], Times(stage, w, b + 1, 3), Times(stage, w, b, 1))
    BY <1>2 DEF Relay, AnchorsOK
  <2>2. Times(stage, w, b, 1) = stage[b] - 1 /\ stage[b] \in Nat
    BY <1>1 DEF Times, Relay, RelayTypeOK
  <2>. QED
    BY <1>2, <2>1, <2>2 DEF Board
<1>4. RelayTypeOK'
  BY <1>1, <1>2 DEF Relay, RelayTypeOK, None
<1>5. NetMoves(b, 1)
  <2>1. ASSUME NEW x \in Column, NEW c \in Seams(x), NEW tag \in Tags,
               <<x, c, tag>> \in Channels
        PROVE  ~(c = b /\ TakeStep(x, c, tag) = 1)
    BY <1>2, <2>1, ChannelIs DEF TakeStep, Column, IsLocal
  <2>. QED
    BY <1>2, <2>1, StepNumbers DEF NetMoves
<1>6. MailMoves(b, 1)
  BY <1>2, StepNumbers DEF MailMoves
<1>7. AnchorMoves(b, 1)
  BY <1>2 DEF AnchorMoves, Relay, RelayTypeOK
<1>8. ResultMoves(b, 1)
  <2>1. \A x \in Column :
          anchor'[x] = IF x = b THEN stage[b] ELSE anchor[x]
    BY <1>2, <1>3 DEF Relay, RelayTypeOK
  <2>. QED
    BY <1>2, <2>1, StepNumbers DEF ResultMoves
<1>. QED
  BY <1>1, <1>4, <1>5, <1>6, <1>7, <1>8, Advances

\* Step 1 from another process: the first message is that of this stage.
LEMMA TakeAnchorRemoteSteps ==
  ASSUME NEW w \in [Column -> 0..13], NEW b \in Column, Relay(w),
         TakeAnchorRemote(b)
  PROVE  RInv'
<1>. DEFINE m == <<b + 1, b, "anchor">>
<1>1. /\ w[b] = 0 /\ Advance(b, 1)
      /\ DOMAIN pc' = Column /\ stage' \in [Column -> Nat \ {0}]
  <2>1. Move(b, "take", "compute") /\ stage' = stage
    BY DEF TakeAnchorRemote
  <2>2. IsStep("take", "compute", 1)
    BY Steps
  <2>. QED
    BY <2>1, <2>2, MoveAdvances
<1>2. /\ m \in Channels /\ net[m] # <<>>
      /\ anchor' = [anchor EXCEPT ![b] = Head(net[m])]
      /\ net' = [net EXCEPT ![m] = Tail(net[m])]
      /\ UNCHANGED <<reference, rows, flux, boards>>
  BY DEF TakeAnchorRemote
<1>3. /\ b + 1 \in Column /\ b \in Seams(b + 1) /\ "anchor" \in Tags
      /\ ~IsLocal(b, b + 1)
  BY <1>2 DEF Channels, Tags, Column, Seams, IsLocal
<1>4. Head(net[m]) = stage[b]
  <2>1. PICK put \in Int : Queue(net[m], put, Times(stage, w, b, 1))
    BY <1>2, <1>3, TimesNat DEF Relay, NetOK, TakeStep
  <2>2. Times(stage, w, b, 1) = stage[b] - 1 /\ stage[b] \in Nat
    BY <1>1 DEF Times, Relay, RelayTypeOK
  <2>3. Head(net[m]) = Times(stage, w, b, 1) + 1
    BY <1>2, <2>1, <2>2, QueueTail
  <2>. QED
    BY <2>2, <2>3
<1>5. RelayTypeOK'
  BY <1>1, <1>2, <1>4 DEF Relay, RelayTypeOK, boards
<1>6. NetMoves(b, 1)
  <2>1. ASSUME NEW x \in Column, NEW c \in Seams(x), NEW tag \in Tags,
               <<x, c, tag>> \in Channels
        PROVE  c = b /\ TakeStep(x, c, tag) = 1 <=> <<x, c, tag>> = m
    <3>1. TakeStep(x, c, tag) = 1 <=> tag = "anchor"
      BY DEF TakeStep, Tags
    <3>2. c = b /\ tag = "anchor" => x = b + 1
      BY <2>1, ChannelIs DEF Column
    <3>. QED
      BY <3>1, <3>2
  <2>. QED
    BY <1>2, <2>1, TakeMoves DEF Relay
<1>7. MailMoves(b, 1)
  BY <1>2, StepNumbers DEF MailMoves, boards
<1>8. AnchorMoves(b, 1)
  BY <1>2, <1>3 DEF AnchorMoves, boards
<1>9. ResultMoves(b, 1)
  <2>1. \A x \in Column : anchor'[x] = IF x = b THEN stage[b] ELSE anchor[x]
    BY <1>2, <1>4 DEF Relay, RelayTypeOK
  <2>. QED
    BY <1>2, <2>1, StepNumbers DEF ResultMoves
<1>. QED
  BY <1>1, <1>5, <1>6, <1>7, <1>8, <1>9, Advances

\* Steps that send messages.
LEMMA SentMoves ==
  ASSUME NEW b \in Column, NEW k \in {3, 5, 6, 10}, NEW cs, NEW t,
         net' = Sent(b, cs, t),
         \A c \in Seams(b) : \A tag \in Tags : <<b, c, tag>> \in Channels =>
           (PutStep(b, c, tag) = k <=> c \in cs /\ tag = t)
  PROVE  NetMoves(b, k) /\ DOMAIN net' = Channels
<1>1. /\ DOMAIN net' = Channels
      /\ \A x, c, tag : <<x, c, tag>> \in Channels =>
           net'[<<x, c, tag>>] = IF x = b /\ c \in cs /\ tag = t
                                 THEN Append(net[<<x, c, tag>>], stage[b])
                                 ELSE net[<<x, c, tag>>]
  BY SentOver
<1>2. SUFFICES ASSUME NEW x \in Column, NEW c \in Seams(x), NEW tag \in Tags,
                      <<x, c, tag>> \in Channels
      PROVE  LET l == <<x, c, tag>> IN
             /\ TakeStep(x, c, tag) # k
             /\ x = b /\ PutStep(x, c, tag) = k
                => net'[l] = Append(net[l], stage[b])
             /\ ~(x = b /\ PutStep(x, c, tag) = k) => net'[l] = net[l]
  BY <1>1 DEF NetMoves
<1>3. TakeStep(x, c, tag) # k
  BY StepNumbers
<1>4. x = b => (PutStep(x, c, tag) = k <=> c \in cs /\ tag = t)
  BY <1>2
<1>. QED
  BY <1>1, <1>2, <1>3, <1>4

\* A block that passes its anchor has the rows of the stage before from the
\* block below, which took the anchor of that stage before it sent them.
LEMMA AnchorWasTaken ==
  ASSUME NEW w \in [Column -> 0..13], NEW b \in Column, Relay(w),
         pc[b] = "pass", b > 1, IsLocal(b, b - 1)
  PROVE  anchors[b - 1] = None
<1>1. /\ b - 1 \in Column /\ b - 1 + 1 = b /\ b - 1 < pz /\ b \in Seams(b - 1)
      /\ IsLocal(b - 1, b)
  BY ColumnAssumption DEF Column, Seams, IsLocal
<1>2. w[b] = 2
  BY PlaceIs DEF Relay
<1>3. Board(anchors[b - 1], Times(stage, w, b, 3), Times(stage, w, b - 1, 1))
  BY <1>1 DEF Relay, AnchorsOK
<1>4. Board(mail[<<b - 1, b>>], Times(stage, w, b - 1, 5),
            Times(stage, w, b, 7))
  BY <1>1 DEF Relay, MailOK, PutStep, TakeStep, Column
<1>5. /\ stage[b] \in Nat /\ stage[b - 1] \in Nat
      /\ w[b - 1] \in 0..13
  BY <1>1 DEF Relay, RelayTypeOK
<1>6. /\ Times(stage, w, b, 3) = stage[b] - 1
      /\ Times(stage, w, b, 7) = stage[b] - 1
  BY <1>2 DEF Times
<1>7. Times(stage, w, b - 1, 5) \in Int /\ Times(stage, w, b - 1, 1) \in Int
      /\ Times(stage, w, b - 1, 5) <= Times(stage, w, b - 1, 1)
  BY <1>5 DEF Times
<1>. QED
  BY <1>3, <1>4, <1>5, <1>6, <1>7 DEF Board

\* Step 3: the board is free, as AnchorWasTaken has it.
LEMMA PassSteps ==
  ASSUME NEW w \in [Column -> 0..13], NEW b \in Column, Relay(w), Pass(b)
  PROVE  RInv'
<1>1. /\ w[b] = 2 /\ Advance(b, 3)
      /\ DOMAIN pc' = Column /\ stage' \in [Column -> Nat \ {0}]
  <2>1. Move(b, "pass", "pass_wait") /\ stage' = stage
    BY DEF Pass
  <2>2. IsStep("pass", "pass_wait", 3)
    BY Steps
  <2>. QED
    BY <2>1, <2>2, MoveAdvances
<1>2. /\ anchors' = IF b > 1 /\ IsLocal(b, b - 1)
                    THEN [anchors EXCEPT ![b - 1] = stage[b]] ELSE anchors
      /\ net' = Sent(b, {b - 1}, "anchor")
      /\ UNCHANGED <<results, mail>>
      /\ pc[b] = "pass"
  BY DEF Pass, Move
<1>3. NetMoves(b, 3) /\ DOMAIN net' = Channels
  <2>1. ASSUME NEW c \in Seams(b), NEW tag \in Tags, <<b, c, tag>> \in Channels
        PROVE  PutStep(b, c, tag) = 3 <=> c \in {b - 1} /\ tag = "anchor"
    <3>1. PutStep(b, c, tag) = 3 <=> tag = "anchor"
      BY DEF PutStep
    <3>2. tag = "anchor" => c = b - 1
      BY <2>1, ChannelIs DEF Column
    <3>. QED
      BY <3>1, <3>2
  <2>. QED
    BY <1>2, <2>1, SentMoves
<1>4. MailMoves(b, 3)
  BY <1>2, StepNumbers DEF MailMoves
<1>5. /\ AnchorMoves(b, 3) /\ anchors' \in [Column -> Nat]
  <2>1. anchors \in [Column -> Nat] /\ stage[b] \in Nat
    BY DEF Relay, RelayTypeOK
  <2>2. anchors' \in [Column -> Nat]
    BY <1>2, <2>1
  <2>3. SUFFICES ASSUME NEW x \in Column, x < pz, IsLocal(x, x + 1)
        PROVE  /\ x + 1 = b => anchors[x] = None /\ anchors'[x] = stage[b]
               /\ x + 1 # b => anchors'[x] = anchors[x]
    BY <2>2 DEF AnchorMoves
  <2>4. CASE x + 1 = b
    <3>1. b > 1 /\ IsLocal(b, b - 1) /\ x = b - 1
      BY <2>3, <2>4 DEF Column, IsLocal
    <3>. QED
      BY <3>1, <2>1, <2>4, <1>2, AnchorWasTaken
  <2>5. CASE x + 1 # b
    <3>1. x # b - 1
      BY <2>5 DEF Column
    <3>. QED
      BY <3>1, <2>1, <2>5, <1>2
  <2>. QED
    BY <2>4, <2>5
<1>6. ResultMoves(b, 3)
  BY <1>2, QuietResults
<1>7. RelayTypeOK'
  BY <1>1, <1>2, <1>3, <1>5 DEF Relay, RelayTypeOK, results
<1>. QED
  BY <1>1, <1>3, <1>4, <1>5, <1>6, <1>7, Advances

\* The rows that go to c; c need not be a block.
LEMMA PostSteps ==
  ASSUME NEW w \in [Column -> 0..13], NEW b \in Column, Relay(w),
         NEW from, NEW to, NEW c \in {b - 1, b + 1}, NEW k \in {5, 6},
         IsStep(from, to, k), k = 5 <=> c = b + 1, PostLocal(b, c, from, to)
  PROVE  RInv'
<1>1. /\ w[b] = k - 1 /\ Advance(b, k)
      /\ DOMAIN pc' = Column /\ stage' \in [Column -> Nat \ {0}]
  BY MoveAdvances DEF PostLocal
<1>2. /\ IF c \in Seams(b) /\ IsLocal(b, c)
         THEN /\ mail[<<b, c>>] = None
              /\ mail' = [mail EXCEPT ![<<b, c>>] = stage[b]]
         ELSE mail' = mail
      /\ net' = Sent(b, {c}, "rows")
      /\ UNCHANGED <<results, anchors>>
  BY DEF PostLocal, MayPost
<1>3. ASSUME NEW d \in Seams(b)
      PROVE  PutStep(b, d, "rows") = k <=> d = c
  <2>1. d = b + 1 \/ d = b - 1
    BY DEF Seams
  <2>. QED
    BY <2>1 DEF PutStep, Column
<1>4. NetMoves(b, k) /\ DOMAIN net' = Channels
  <2>1. ASSUME NEW d \in Seams(b), NEW tag \in Tags, <<b, d, tag>> \in Channels
        PROVE  PutStep(b, d, tag) = k <=> d \in {c} /\ tag = "rows"
    <3>1. tag # "rows" => PutStep(b, d, tag) # k
      BY DEF PutStep, Tags
    <3>. QED
      BY <3>1, <1>3
  <2>2. k \in {3, 5, 6, 10} /\ net' = Sent(b, {c}, "rows")
    BY <1>2
  <2>. QED
    BY <2>1, <2>2, SentMoves
<1>5. MailMoves(b, k) /\ mail' \in [Column \X Column -> Nat]
  <2>1. mail \in [Column \X Column -> Nat] /\ stage[b] \in Nat
    BY DEF Relay, RelayTypeOK
  <2>2. mail' \in [Column \X Column -> Nat]
    BY <1>2, <2>1
  <2>3. SUFFICES ASSUME NEW x \in Column, NEW d \in Seams(x), IsLocal(x, d)
        PROVE  /\ TakeStep(x, d, "rows") # k
               /\ x = b /\ PutStep(x, d, "rows") = k
                  => mail[<<x, d>>] = None /\ mail'[<<x, d>>] = stage[b]
               /\ ~(x = b /\ PutStep(x, d, "rows") = k)
                  => mail'[<<x, d>>] = mail[<<x, d>>]
    BY <2>2 DEF MailMoves
  <2>4. TakeStep(x, d, "rows") # k
    BY StepNumbers
  <2>5. <<x, d>> \in Column \X Column
    BY DEF Seams
  <2>6. CASE x = b /\ d = c
    BY <1>2, <1>3, <2>1, <2>3, <2>4, <2>5, <2>6
  <2>7. CASE ~(x = b /\ d = c)
    <3>1. ~(x = b /\ PutStep(x, d, "rows") = k)
      BY <1>3, <2>7
    <3>2. mail'[<<x, d>>] = mail[<<x, d>>]
      BY <1>2, <2>1, <2>5, <2>7
    <3>. QED
      BY <2>4, <3>1, <3>2
  <2>. QED
    BY <2>6, <2>7
<1>6. AnchorMoves(b, k)
  BY <1>2 DEF AnchorMoves
<1>7. ResultMoves(b, k)
  BY <1>2, QuietResults
<1>8. RelayTypeOK'
  BY <1>1, <1>2, <1>4, <1>5 DEF Relay, RelayTypeOK, results
<1>. QED
  BY <1>1, <1>4, <1>5, <1>6, <1>7, <1>8, Advances

\* The rows that come from c; c need not be a block.
LEMMA TakeRowsSteps ==
  ASSUME NEW w \in [Column -> 0..13], NEW b \in Column, Relay(w),
         NEW from, NEW to, NEW c \in {b - 1, b + 1}, NEW k \in {7, 8},
         IsStep(from, to, k), k = 8 <=> c = b + 1, TakeRows(b, c, from, to)
  PROVE  RInv'
<1>. DEFINE m == <<c, b, "rows">>
<1>1. /\ w[b] = k - 1 /\ Advance(b, k)
      /\ DOMAIN pc' = Column /\ stage' \in [Column -> Nat \ {0}]
  <2>1. Move(b, from, to) /\ stage' = stage /\ k \in 1..13
    BY DEF TakeRows
  <2>. QED
    BY <2>1, MoveAdvances
<1>2. UNCHANGED <<anchor, reference, flux, anchors>>
  BY DEF TakeRows
<1>3. ASSUME NEW x \in Column, NEW d \in Seams(x), x = b \/ d = b
      PROVE  /\ d = b => (TakeStep(x, d, "rows") = k <=> x = c)
             /\ x = b => (TakeStep(d, x, "rows") = k <=> d = c)
  <2>1. /\ d = x + 1 \/ d = x - 1
        /\ x \in Int /\ b \in Int
    BY DEF Seams, Column
  <2>. QED
    BY <1>3, <2>1 DEF TakeStep
<1>4. Times(stage, w, b, k) = stage[b] - 1 /\ stage[b] \in Nat \ {0}
  BY <1>1 DEF Times, Relay, RelayTypeOK
<1>5. ASSUME NEW x \in Column, NEW d \in Seams(x), NEW tag \in Tags,
             d = b, TakeStep(x, d, tag) = k
      PROVE  x = c /\ tag = "rows"
  BY <1>3, <1>5 DEF TakeStep, Tags
<1>6. AnchorMoves(b, k)
  BY <1>2 DEF AnchorMoves
\* What is taken is of this stage, wherever it comes from.
<1>7. CASE c \notin Seams(b)
  <2>1. UNCHANGED <<rows, mail, net>>
    BY <1>7 DEF TakeRows, Channels, Seams
  <2>2. ASSUME NEW x \in Column, NEW d \in Seams(x), NEW tag \in Tags
        PROVE  ~(d = b /\ TakeStep(x, d, tag) = k)
    BY <1>5, <1>7 DEF Seams, Column
  <2>3. NetMoves(b, k) /\ MailMoves(b, k)
    BY <2>1, <2>2, StepNumbers DEF NetMoves, MailMoves, Tags
  <2>4. ResultMoves(b, k)
    <3>1. ASSUME NEW x \in Column, NEW d \in Seams(x)
          PROVE  ~(x = b /\ TakeStep(d, x, "rows") = k)
      BY <1>3, <1>7
    <3>. QED
      BY <1>2, <2>1, <3>1, StepNumbers DEF ResultMoves
  <2>5. RelayTypeOK'
    BY <1>1, <1>2, <2>1 DEF Relay, RelayTypeOK
  <2>. QED
    BY <1>1, <1>6, <2>3, <2>4, <2>5, Advances
<1>8. CASE c \in Seams(b)
  <2>1. /\ c \in Column /\ b \in Seams(c)
        /\ rows' = [rows EXCEPT ![b][c] = stage[b]] => ResultMoves(b, k)
        /\ rows' = [rows EXCEPT ![b][c] = stage[b]] =>
             /\ DOMAIN rows' = Column
             /\ \A x \in Column : rows'[x] \in [Seams(x) -> Nat]
    <3>1. c \in Column /\ b \in Seams(c)
      BY <1>8 DEF Seams, Column
    <3>2. /\ DOMAIN rows = Column
          /\ \A x \in Column : rows[x] \in [Seams(x) -> Nat]
      BY DEF Relay, RelayTypeOK
    <3>3. ASSUME rows' = [rows EXCEPT ![b][c] = stage[b]]
          PROVE  /\ DOMAIN rows' = Column
                 /\ \A x \in Column : rows'[x] \in [Seams(x) -> Nat]
                 /\ \A x \in Column : \A d \in Seams(x) :
                      rows'[x][d] = IF x = b /\ d = c THEN stage[b]
                                    ELSE rows[x][d]
      <4>1. /\ DOMAIN rows' = Column
            /\ rows'[b] = [rows[b] EXCEPT ![c] = stage[b]]
            /\ \A x \in Column : x # b => rows'[x] = rows[x]
        BY <3>2, <3>3
      <4>2. rows[b] \in [Seams(b) -> Nat]
        BY <3>2
      <4>3. /\ rows'[b] \in [Seams(b) -> Nat]
            /\ \A d \in Seams(b) :
                 rows'[b][d] = IF d = c THEN stage[b] ELSE rows[b][d]
        BY <4>1, <4>2, <1>4
      <4>. QED
        BY <3>2, <4>1, <4>3
    <3>4. ASSUME rows' = [rows EXCEPT ![b][c] = stage[b]]
          PROVE  ResultMoves(b, k)
      <4>1. ASSUME NEW x \in Column, NEW d \in Seams(x)
            PROVE  rows'[x][d] = IF x = b /\ TakeStep(d, x, "rows") = k
                                 THEN stage[b] ELSE rows[x][d]
        BY <3>3, <3>4, <1>3
      <4>. QED
        BY <1>2, <4>1, StepNumbers DEF ResultMoves
    <3>. QED
      BY <3>1, <3>3, <3>4
  <2>2. CASE IsLocal(b, c)
    <3>1. /\ mail[<<c, b>>] # None
          /\ rows' = [rows EXCEPT ![b][c] = mail[<<c, b>>]]
          /\ mail' = [mail EXCEPT ![<<c, b>>] = None]
          /\ net' = net
      BY <1>8, <2>1, <2>2, ChannelIs DEF TakeRows, Tags
    <3>2. mail[<<c, b>>] = stage[b]
      <4>1. PICK put \in Int :
              Board(mail[<<c, b>>], put, Times(stage, w, b, k))
        BY <1>3, <2>1, <2>2, TimesNat DEF Relay, MailOK, IsLocal
      <4>. QED
        BY <4>1, <1>4, <3>1 DEF Board
    <3>3. mail \in [Column \X Column -> Nat] /\ <<c, b>> \in Column \X Column
      BY <2>1 DEF Relay, RelayTypeOK
    <3>4. MailMoves(b, k)
      <4>1. ASSUME NEW x \in Column, NEW d \in Seams(x), IsLocal(x, d)
            PROVE  /\ PutStep(x, d, "rows") # k
                   /\ d = b /\ TakeStep(x, d, "rows") = k
                      => /\ mail[<<x, d>>] # None
                         /\ mail'[<<x, d>>] = None
                   /\ ~(d = b /\ TakeStep(x, d, "rows") = k)
                      => mail'[<<x, d>>] = mail[<<x, d>>]
        <5>1. PutStep(x, d, "rows") # k
          BY StepNumbers
        <5>2. <<x, d>> \in Column \X Column
          BY DEF Seams
        <5>3. d = b /\ TakeStep(x, d, "rows") = k <=> x = c /\ d = b
          BY <1>3
        <5>4. CASE x = c /\ d = b
          BY <5>1, <5>3, <5>4, <3>1, <3>3
        <5>5. CASE ~(x = c /\ d = b)
          <6>1. mail'[<<x, d>>] = mail[<<x, d>>]
            BY <5>2, <5>5, <3>1, <3>3
          <6>. QED
            BY <5>1, <5>3, <5>5, <6>1
        <5>. QED
          BY <5>4, <5>5
      <4>. QED
        BY <4>1 DEF MailMoves
    <3>5. NetMoves(b, k)
      <4>1. ASSUME NEW x \in Column, NEW d \in Seams(x), NEW tag \in Tags,
                   <<x, d, tag>> \in Channels
            PROVE  ~(d = b /\ TakeStep(x, d, tag) = k)
        BY <1>5, <2>2, <4>1, ChannelIs DEF IsLocal
      <4>. QED
        BY <3>1, <4>1, StepNumbers DEF NetMoves
    <3>6. RelayTypeOK'
      BY <1>1, <1>2, <2>1, <3>1, <3>2, <3>3 DEF Relay, RelayTypeOK, None
    <3>. QED
      BY <1>1, <1>6, <2>1, <3>1, <3>2, <3>4, <3>5, <3>6, Advances
  <2>3. CASE ~IsLocal(b, c)
    <3>1. /\ m \in Channels /\ net[m] # <<>>
          /\ rows' = [rows EXCEPT ![b][c] = Head(net[m])]
          /\ net' = [net EXCEPT ![m] = Tail(@)]
          /\ mail' = mail
      BY <1>8, <2>1, <2>3 DEF TakeRows
    <3>2. Head(net[m]) = stage[b]
      <4>1. PICK put \in Int : Queue(net[m], put, Times(stage, w, b, k))
        <5>1. TakeStep(c, b, "rows") = k /\ "rows" \in Tags
          BY <1>3, <2>1 DEF Tags
        <5>2. Queue(net[m], Times(stage, w, c, PutStep(c, b, "rows")),
                    Times(stage, w, b, TakeStep(c, b, "rows")))
          BY <2>1, <3>1, <5>1 DEF Relay, NetOK
        <5>. QED
          BY <2>1, <5>1, <5>2, TimesNat DEF Relay
      <4>2. Head(net[m]) = Times(stage, w, b, k) + 1
        <5>1. Times(stage, w, b, k) \in Int
          BY <1>4
        <5>. QED
          BY <3>1, <4>1, <5>1, QueueTail
      <4>. QED
        BY <4>2, <1>4
    <3>3. NetMoves(b, k) /\ DOMAIN net' = Channels
      <4>1. ASSUME NEW x \in Column, NEW d \in Seams(x), NEW tag \in Tags,
                   <<x, d, tag>> \in Channels
            PROVE  d = b /\ TakeStep(x, d, tag) = k <=> <<x, d, tag>> = m
        BY <1>3, <1>5, <2>1
      <4>2. k \in {1, 7, 8, 11, 12} /\ RelayTypeOK
        BY DEF Relay
      <4>. QED
        BY <3>1, <4>1, <4>2, TakeMoves
    <3>4. MailMoves(b, k)
      <4>1. ASSUME NEW x \in Column, NEW d \in Seams(x), IsLocal(x, d)
            PROVE  ~(d = b /\ TakeStep(x, d, "rows") = k)
        BY <1>3, <2>3, <4>1 DEF IsLocal
      <4>. QED
        BY <3>1, <4>1, StepNumbers DEF MailMoves
    <3>5. RelayTypeOK'
      BY <1>1, <1>2, <2>1, <3>1, <3>2, <3>3 DEF Relay, RelayTypeOK
    <3>6. ResultMoves(b, k)
      BY <2>1, <3>1, <3>2
    <3>. QED
      BY <1>1, <1>6, <3>3, <3>4, <3>5, <3>6, Advances
  <2>. QED
    BY <2>2, <2>3
<1>. QED
  BY <1>7, <1>8

\* Step 10.
LEMMA PostFluxSteps ==
  ASSUME NEW w \in [Column -> 0..13], NEW b \in Column, Relay(w), PostFlux(b)
  PROVE  RInv'
<1>1. /\ w[b] = 9 /\ Advance(b, 10)
      /\ DOMAIN pc' = Column /\ stage' \in [Column -> Nat \ {0}]
  <2>1. Move(b, "flux", "flux_above") /\ stage' = stage
    BY DEF PostFlux
  <2>2. IsStep("flux", "flux_above", 10)
    BY Steps
  <2>. QED
    BY <2>1, <2>2, MoveAdvances
<1>2. net' = Sent(b, Seams(b), "flux") /\ UNCHANGED <<results, boards>>
  BY DEF PostFlux
<1>3. NetMoves(b, 10) /\ DOMAIN net' = Channels
  <2>1. ASSUME NEW c \in Seams(b), NEW tag \in Tags, <<b, c, tag>> \in Channels
        PROVE  PutStep(b, c, tag) = 10 <=> c \in Seams(b) /\ tag = "flux"
    BY DEF PutStep, Tags
  <2>. QED
    BY <1>2, <2>1, SentMoves
<1>4. MailMoves(b, 10)
  BY <1>2, StepNumbers DEF MailMoves, boards
<1>5. AnchorMoves(b, 10)
  BY <1>2 DEF AnchorMoves, boards
<1>6. ResultMoves(b, 10)
  BY <1>2, QuietResults
<1>7. RelayTypeOK'
  BY <1>1, <1>2, <1>3 DEF Relay, RelayTypeOK, results, boards
<1>. QED
  BY <1>1, <1>3, <1>4, <1>5, <1>6, <1>7, Advances

\* The flux that comes from c, if c is a block of another process.
LEMMA TakeFluxSteps ==
  ASSUME NEW w \in [Column -> 0..13], NEW b \in Column, Relay(w),
         NEW from, NEW to, NEW c \in {b - 1, b + 1}, NEW k \in {11, 12},
         IsStep(from, to, k), k = 11 <=> c = b + 1, TakeFlux(b, c, from, to)
  PROVE  RInv'
<1>. DEFINE m == <<c, b, "flux">>
<1>1. /\ w[b] = k - 1 /\ Advance(b, k)
      /\ DOMAIN pc' = Column /\ stage' \in [Column -> Nat \ {0}]
  <2>1. Move(b, from, to) /\ stage' = stage /\ k \in 1..13
    BY DEF TakeFlux
  <2>. QED
    BY <2>1, MoveAdvances
<1>2. /\ UNCHANGED <<anchor, reference, rows, boards>>
      /\ \/ m \notin Channels /\ UNCHANGED <<flux, net>>
         \/ /\ m \in Channels /\ net[m] # <<>>
            /\ flux' = [flux EXCEPT ![b][c] = Head(net[m])]
            /\ net' = [net EXCEPT ![m] = Tail(@)]
  BY DEF TakeFlux
<1>3. ASSUME NEW x \in Column, NEW d \in Seams(x), x = b \/ d = b
      PROVE  /\ d = b => (TakeStep(x, d, "flux") = k <=> x = c)
             /\ x = b => (TakeStep(d, x, "flux") = k <=> d = c)
  <2>1. /\ d = x + 1 \/ d = x - 1
        /\ x \in Int /\ b \in Int
    BY DEF Seams, Column
  <2>. QED
    BY <1>3, <2>1 DEF TakeStep
<1>4. Times(stage, w, b, k) = stage[b] - 1 /\ stage[b] \in Nat \ {0}
  BY <1>1 DEF Times, Relay, RelayTypeOK
<1>5. ASSUME NEW x \in Column, NEW d \in Seams(x), NEW tag \in Tags,
             <<x, d, tag>> \in Channels
      PROVE  d = b /\ TakeStep(x, d, tag) = k <=> <<x, d, tag>> = m
  <2>1. d = b /\ TakeStep(x, d, tag) = k => tag = "flux"
    BY DEF TakeStep, Tags
  <2>. QED
    BY <1>3, <2>1
<1>6. /\ MailMoves(b, k) /\ AnchorMoves(b, k)
  BY <1>2, StepNumbers DEF MailMoves, AnchorMoves, boards
<1>7. CASE m \notin Channels
  <2>1. UNCHANGED <<flux, net>>
    BY <1>2, <1>7
  <2>2. NetMoves(b, k)
    BY <1>5, <1>7, <2>1, StepNumbers DEF NetMoves
  <2>3. ASSUME NEW x \in Column, NEW d \in Seams(x), ~IsLocal(x, d)
        PROVE  ~(x = b /\ TakeStep(d, x, "flux") = k)
    <3>1. x = b => <<d, x, "flux">> \in Channels
      BY <2>3, ChannelIs DEF Tags
    <3>. QED
      BY <3>1, <1>3, <1>7
  <2>4. ResultMoves(b, k)
    BY <1>2, <2>1, <2>3, StepNumbers DEF ResultMoves
  <2>5. RelayTypeOK'
    BY <1>1, <1>2, <2>1 DEF Relay, RelayTypeOK, boards
  <2>. QED
    BY <1>1, <1>6, <2>2, <2>4, <2>5, Advances
<1>8. CASE m \in Channels
  <2>1. /\ net[m] # <<>> /\ flux' = [flux EXCEPT ![b][c] = Head(net[m])]
        /\ net' = [net EXCEPT ![m] = Tail(@)]
    BY <1>2, <1>8
  <2>2. c \in Column /\ b \in Seams(c) /\ c \in Seams(b) /\ "flux" \in Tags
    BY <1>8 DEF Channels, Seams, Column
  <2>3. Head(net[m]) = stage[b]
    <3>1. TakeStep(c, b, "flux") = k
      BY <1>3, <2>2
    <3>2. Queue(net[m], Times(stage, w, c, PutStep(c, b, "flux")),
                Times(stage, w, b, TakeStep(c, b, "flux")))
      BY <1>8, <2>2 DEF Relay, NetOK
    <3>3. Times(stage, w, c, PutStep(c, b, "flux")) \in Int
      BY <2>2, TimesNat DEF Relay
    <3>4. Head(net[m]) = Times(stage, w, b, k) + 1
      BY <1>4, <2>1, <3>1, <3>2, <3>3, QueueTail
    <3>. QED
      BY <3>4, <1>4
  <2>4. /\ DOMAIN flux = Column
        /\ \A x \in Column : flux[x] \in [Seams(x) -> Nat]
    BY DEF Relay, RelayTypeOK
  <2>5. /\ DOMAIN flux' = Column
        /\ flux'[b] = [flux[b] EXCEPT ![c] = stage[b]]
        /\ \A x \in Column : x # b => flux'[x] = flux[x]
    BY <2>1, <2>3, <2>4
  <2>6. /\ flux'[b] \in [Seams(b) -> Nat]
        /\ \A d \in Seams(b) :
             flux'[b][d] = IF d = c THEN stage[b] ELSE flux[b][d]
    <3>1. flux[b] \in [Seams(b) -> Nat]
      BY <2>4
    <3>. QED
      BY <2>5, <3>1, <1>4
  <2>7. ResultMoves(b, k)
    <3>1. ASSUME NEW x \in Column, NEW d \in Seams(x)
          PROVE  flux'[x][d] = IF x = b /\ TakeStep(d, x, "flux") = k
                               THEN stage[b] ELSE flux[x][d]
      BY <1>3, <2>5, <2>6
    <3>. QED
      BY <1>2, <3>1, StepNumbers DEF ResultMoves
  <2>8. NetMoves(b, k) /\ DOMAIN net' = Channels
    <3>1. k \in {1, 7, 8, 11, 12} /\ RelayTypeOK
      BY DEF Relay
    <3>. QED
      BY <1>5, <1>8, <2>1, <3>1, TakeMoves
  <2>9. \A x \in Column : flux'[x] \in [Seams(x) -> Nat]
    BY <2>4, <2>5, <2>6
  <2>10. RelayTypeOK'
    BY <1>1, <1>2, <2>5, <2>8, <2>9 DEF Relay, RelayTypeOK, boards
  <2>. QED
    BY <1>1, <1>6, <2>7, <2>8, <2>10, Advances
<1>. QED
  BY <1>7, <1>8

\* Steps that leave everything where it is: v counts for the next state what w
\* counted for this one.
LEMMA Unmoved ==
  ASSUME NEW w \in [Column -> 0..13], NEW v \in [Column -> 0..13], Relay(w),
         DOMAIN pc' = Column, stage' \in [Column -> Nat \ {0}],
         UNCHANGED <<results, boards, net>>,
         \A x \in Column : At(pc'[x], v[x]),
         \A x \in Column : \A j \in 1..13 :
           Times(stage', v, x, j) = Times(stage, w, x, j)
  PROVE  RInv'
<1>1. RelayTypeOK'
  BY DEF Relay, RelayTypeOK, results, boards
<1>2. ASSUME NEW x \in Column, NEW c \in Seams(x), NEW tag
      PROVE  /\ c \in Column
             /\ Times(stage', v, x, PutStep(x, c, tag))
                = Times(stage, w, x, PutStep(x, c, tag))
             /\ Times(stage', v, c, TakeStep(x, c, tag))
                = Times(stage, w, c, TakeStep(x, c, tag))
             /\ Times(stage', v, x, TakeStep(c, x, tag))
                = Times(stage, w, x, TakeStep(c, x, tag))
  <2>1. c \in Column
    BY DEF Seams
  <2>2. /\ PutStep(x, c, tag) \in 1..13 /\ TakeStep(x, c, tag) \in 1..13
        /\ TakeStep(c, x, tag) \in 1..13
    BY StepNumbers
  <2>. QED
    BY <2>1, <2>2
<1>3. NetOK(v)'
  <2>1. SUFFICES ASSUME NEW x \in Column, NEW c \in Seams(x), NEW tag \in Tags,
                        <<x, c, tag>> \in Channels
        PROVE  Queue(net[<<x, c, tag>>],
                     Times(stage', v, x, PutStep(x, c, tag)),
                     Times(stage', v, c, TakeStep(x, c, tag)))
    BY DEF NetOK, PutStep, TakeStep
  <2>2. Queue(net[<<x, c, tag>>], Times(stage, w, x, PutStep(x, c, tag)),
              Times(stage, w, c, TakeStep(x, c, tag)))
    BY <2>1 DEF Relay, NetOK
  <2>. QED
    BY <1>2, <2>2
<1>4. MailOK(v)'
  <2>1. SUFFICES ASSUME NEW x \in Column, NEW c \in Seams(x), IsLocal(x, c)
        PROVE  Board(mail[<<x, c>>],
                     Times(stage', v, x, PutStep(x, c, "rows")),
                     Times(stage', v, c, TakeStep(x, c, "rows")))
    BY DEF MailOK, boards
  <2>2. Board(mail[<<x, c>>], Times(stage, w, x, PutStep(x, c, "rows")),
              Times(stage, w, c, TakeStep(x, c, "rows")))
    BY <2>1 DEF Relay, MailOK
  <2>. QED
    BY <1>2, <2>2
<1>5. AnchorsOK(v)'
  <2>1. SUFFICES ASSUME NEW x \in Column, x < pz, IsLocal(x, x + 1)
        PROVE  Board(anchors[x], Times(stage', v, x + 1, 3),
                     Times(stage', v, x, 1))
    BY DEF AnchorsOK, boards
  <2>2. Board(anchors[x], Times(stage, w, x + 1, 3), Times(stage, w, x, 1))
    BY <2>1 DEF Relay, AnchorsOK
  <2>3. x + 1 \in Column
    BY <2>1, ColumnAssumption DEF Column
  <2>. QED
    BY <2>2, <2>3
<1>6. ResultsOK(v)'
  <2>1. SUFFICES ASSUME NEW x \in Column
        PROVE /\ reference[x] = Times(stage', v, x, 2)
              /\ x < pz => anchor[x] = Times(stage', v, x, 1)
              /\ \A c \in Seams(x) :
                   /\ rows[x][c] = Times(stage', v, x, TakeStep(c, x, "rows"))
                   /\ ~IsLocal(x, c) =>
                        flux[x][c]
                        = Times(stage', v, x, TakeStep(c, x, "flux"))
    BY DEF ResultsOK, results
  <2>2. /\ reference[x] = Times(stage, w, x, 2)
        /\ x < pz => anchor[x] = Times(stage, w, x, 1)
        /\ \A c \in Seams(x) :
             /\ rows[x][c] = Times(stage, w, x, TakeStep(c, x, "rows"))
             /\ ~IsLocal(x, c) =>
                  flux[x][c] = Times(stage, w, x, TakeStep(c, x, "flux"))
    BY DEF Relay, ResultsOK
  <2>. QED
    BY <1>2, <2>2
<1>7. Relay(v)'
  BY <1>1, <1>3, <1>4, <1>5, <1>6 DEF Relay
<1>. QED
  BY <1>7 DEF RInv

\* The end of a stage, where the counts begin anew, or of the run.
LEMMA EndStageSteps ==
  ASSUME NEW w \in [Column -> 0..13], NEW b \in Column, Relay(w), EndStage(b)
  PROVE  RInv'
<1>1. /\ DOMAIN pc = Column /\ stage \in [Column -> Nat \ {0}]
      /\ \A x \in Column : At(pc[x], w[x])
      /\ UNCHANGED <<results, boards, net>>
  BY DEF Relay, RelayTypeOK, EndStage
<1>2. pc[b] = "end" /\ w[b] = 13
  <2>1. pc[b] = "end"
    BY DEF EndStage, Move
  <2>. QED
    BY <1>1, <2>1, PlaceIs
<1>3. CASE LastStage(b)
  <2>1. pc' = [pc EXCEPT ![b] = "done"] /\ stage' = stage
    BY <1>3 DEF EndStage, Move
  <2>2. \A x \in Column : At(pc'[x], w[x])
    BY <1>1, <1>2, <2>1 DEF At
  <2>3. DOMAIN pc' = Column
    BY <1>1, <2>1
  <2>. QED
    BY <1>1, <2>1, <2>2, <2>3, Unmoved DEF Relay
<1>4. CASE ~LastStage(b)
  <2>1. /\ pc' = [pc EXCEPT ![b] = "take"]
        /\ stage' = [stage EXCEPT ![b] = stage[b] + 1]
    BY <1>4 DEF EndStage, Move
  <2>2. PICK v \in [Column -> 0..13] :
          v[b] = 0 /\ \A x \in Column \ {b} : v[x] = w[x]
    <3>. DEFINE v == [w EXCEPT ![b] = 0]
    <3>1. /\ v \in [Column -> 0..13]
          /\ v[b] = 0 /\ \A x \in Column \ {b} : v[x] = w[x]
      OBVIOUS
    <3>. QED
      BY <3>1
  <2>3. /\ DOMAIN pc' = Column /\ pc'[b] = "take"
        /\ \A x \in Column \ {b} : pc'[x] = pc[x]
    BY <1>1, <2>1
  <2>4. /\ stage' \in [Column -> Nat \ {0}] /\ stage'[b] = stage[b] + 1
        /\ \A x \in Column \ {b} : stage'[x] = stage[x]
    BY <1>1, <2>1
  <2>5. ASSUME NEW x \in Column PROVE At(pc'[x], v[x])
    <3>1. At("take", 0)
      BY DEF At
    <3>. QED
      BY <1>1, <2>2, <2>3, <3>1
  <2>6. ASSUME NEW x \in Column, NEW j \in 1..13
        PROVE  Times(stage', v, x, j) = Times(stage, w, x, j)
    <3>1. CASE x = b
      BY <1>1, <1>2, <2>2, <2>4, <3>1 DEF Times
    <3>2. CASE x # b
      BY <2>2, <2>4, <3>2 DEF Times
    <3>. QED
      BY <3>1, <3>2
  <2>. QED
    BY <1>1, <2>3, <2>4, <2>5, <2>6, Unmoved
<1>. QED
  BY <1>3, <1>4

\* A block fails only before it has all rows.
LEMMA FailSteps ==
  ASSUME NEW w \in [Column -> 0..13], NEW b \in Column, Relay(w),
         ComputeFails(b) \/ Timeout(b)
  PROVE  RInv'
<1>1. /\ DOMAIN pc = Column /\ stage \in [Column -> Nat \ {0}]
      /\ \A x \in Column : At(pc[x], w[x])
  BY DEF Relay, RelayTypeOK
<1>2. /\ pc[b] \in {"take", "compute", "post_up", "post_down", "take_below",
                    "take_above"}
      /\ pc' = [pc EXCEPT ![b] = "failed"]
      /\ stage' = stage /\ UNCHANGED <<results, boards, net>>
  BY DEF ComputeFails, Timeout, WaitsForBoard, Move
<1>3. w[b] \in 0..7
  <2>1. At(pc[b], w[b])
    BY <1>1
  <2>. QED
    BY <1>2, <2>1 DEF At
<1>4. At("failed", w[b])
  BY <1>3 DEF At
<1>5. \A x \in Column : At(pc'[x], w[x])
  BY <1>1, <1>2, <1>4
<1>6. DOMAIN pc' = Column /\ stage' \in [Column -> Nat \ {0}]
  BY <1>1, <1>2
<1>. QED
  BY <1>2, <1>5, <1>6, Unmoved

-----------------------------------------------------------------------------
(* The theorems.                                                           *)

\* At first nothing was put and nothing taken.
LEMMA InitRelay == Init => RInv
<1>1. SUFFICES ASSUME Init PROVE RInv
  OBVIOUS
<1>2. PICK w \in [Column -> 0..13] : \A b \in Column : w[b] = 0
  <2>. DEFINE w == [b \in Column |-> 0]
  <2>1. w \in [Column -> 0..13] /\ \A b \in Column : w[b] = 0
    OBVIOUS
  <2>. QED
    BY <2>1
<1>3. RelayTypeOK
  BY <1>1 DEF Init, RelayTypeOK, None
<1>4. ASSUME NEW b \in Column, NEW j \in 1..13
      PROVE  Times(stage, w, b, j) = 0
  BY <1>1, <1>2 DEF Init, Times
<1>5. ASSUME NEW x \in Column, NEW c \in Seams(x), NEW tag
      PROVE  /\ c \in Column
             /\ Times(stage, w, x, PutStep(x, c, tag)) = 0
             /\ Times(stage, w, c, TakeStep(x, c, tag)) = 0
             /\ Times(stage, w, x, TakeStep(c, x, tag)) = 0
  <2>1. c \in Column
    BY DEF Seams
  <2>2. /\ PutStep(x, c, tag) \in 1..13 /\ TakeStep(x, c, tag) \in 1..13
        /\ TakeStep(c, x, tag) \in 1..13
    BY StepNumbers
  <2>. QED
    BY <1>4, <2>1, <2>2
<1>6. NetOK(w)
  <2>1. Queue(<<>>, 0, 0)
    BY DEF Queue
  <2>2. \A m \in Channels : net[m] = <<>>
    BY <1>1 DEF Init
  <2>. QED
    BY <1>5, <2>1, <2>2 DEF NetOK
<1>7. MailOK(w)
  <2>1. \A x \in Column : \A c \in Column : mail[<<x, c>>] = None
    BY <1>1 DEF Init
  <2>. QED
    BY <1>5, <2>1 DEF MailOK, Board
<1>8. AnchorsOK(w)
  <2>1. \A x \in Column : anchors[x] = None
    BY <1>1 DEF Init
  <2>2. ASSUME NEW x \in Column, x < pz PROVE x + 1 \in Column
    BY <2>2, ColumnAssumption DEF Column
  <2>. QED
    BY <1>4, <2>1, <2>2 DEF AnchorsOK, Board
<1>9. ResultsOK(w)
  BY <1>1, <1>4, <1>5 DEF Init, ResultsOK, None
<1>10. \A b \in Column : At(pc[b], w[b])
  BY <1>1, <1>2 DEF Init, At
<1>. QED
  BY <1>3, <1>6, <1>7, <1>8, <1>9, <1>10 DEF RInv, Relay

\* Every step keeps the counts.
LEMMA NextRelay == RInv /\ [Next]_vars => RInv'
<1>1. SUFFICES ASSUME NEW w \in [Column -> 0..13], Relay(w), [Next]_vars
               PROVE  RInv'
  BY DEF RInv
<1>2. CASE UNCHANGED vars
  <2>1. UNCHANGED <<results, boards, net>> /\ pc' = pc /\ stage' = stage
    BY <1>2 DEF vars
  <2>2. /\ DOMAIN pc' = Column /\ stage' \in [Column -> Nat \ {0}]
        /\ \A x \in Column : At(pc'[x], w[x])
    BY <1>1, <2>1 DEF Relay, RelayTypeOK
  <2>. QED
    BY <1>1, <2>1, <2>2, Unmoved
<1>3. ASSUME NEW b \in Column, BlockStep(b)
      PROVE  RInv'
  <2>. DEFINE c == b + 1
              d == b - 1
  <2>1. /\ IsStep("post_up", "post_down", 5)
        /\ IsStep("post_down", "take_below", 6)
        /\ IsStep("take_below", "take_above", 7)
        /\ IsStep("take_above", "rows_wait", 8)
        /\ IsStep("flux_above", "flux_below", 11)
        /\ IsStep("flux_below", "flux_wait", 12)
    BY Steps
  <2>2. c # d /\ c \in {b - 1, b + 1} /\ d \in {b - 1, b + 1}
    BY DEF Column
  <2>3. CASE TakeAnchorTop(b)
    BY <1>1, <2>3, TakeAnchorTopSteps
  <2>4. CASE TakeAnchorLocal(b)
    BY <1>1, <2>4, TakeAnchorLocalSteps
  <2>5. CASE TakeAnchorRemote(b)
    BY <1>1, <2>5, TakeAnchorRemoteSteps
  <2>6. CASE Compute(b)
    BY <1>1, <2>6, ComputeSteps
  <2>7. CASE Pass(b)
    BY <1>1, <2>7, PassSteps
  <2>8. CASE PostUp(b)
    <3>1. PostLocal(b, c, "post_up", "post_down")
      BY <2>8 DEF PostUp
    <3>. QED
      BY <1>1, <2>1, <2>2, <3>1, PostSteps
  <2>9. CASE PostDown(b)
    <3>1. PostLocal(b, d, "post_down", "take_below")
      BY <2>9 DEF PostDown
    <3>. QED
      BY <1>1, <2>1, <2>2, <3>1, PostSteps
  <2>10. CASE TakeBelow(b)
    <3>1. TakeRows(b, d, "take_below", "take_above")
      BY <2>10 DEF TakeBelow
    <3>. QED
      BY <1>1, <2>1, <2>2, <3>1, TakeRowsSteps
  <2>11. CASE TakeAbove(b)
    <3>1. TakeRows(b, c, "take_above", "rows_wait")
      BY <2>11 DEF TakeAbove
    <3>. QED
      BY <1>1, <2>1, <2>2, <3>1, TakeRowsSteps
  <2>12. CASE PostFlux(b)
    BY <1>1, <2>12, PostFluxSteps
  <2>13. CASE TakeFluxAbove(b)
    <3>1. TakeFlux(b, c, "flux_above", "flux_below")
      BY <2>13 DEF TakeFluxAbove
    <3>. QED
      BY <1>1, <2>1, <2>2, <3>1, TakeFluxSteps
  <2>14. CASE TakeFluxBelow(b)
    <3>1. TakeFlux(b, d, "flux_below", "flux_wait")
      BY <2>14 DEF TakeFluxBelow
    <3>. QED
      BY <1>1, <2>1, <2>2, <3>1, TakeFluxSteps
  <2>15. CASE EndStage(b)
    BY <1>1, <2>15, EndStageSteps
  <2>. QED
    BY <1>3, <2>3, <2>4, <2>5, <2>6, <2>7, <2>8, <2>9, <2>10, <2>11, <2>12,
       <2>13, <2>14, <2>15 DEF BlockStep
<1>4. ASSUME NEW b \in Column, WaitSends(b) \/ ComputeFails(b) \/ Timeout(b)
      PROVE  RInv'
  BY <1>1, <1>4, WaitSendsSteps, FailSteps
<1>5. CASE Stopped
  BY <1>2, <1>5 DEF Stopped
<1>. QED
  BY <1>1, <1>2, <1>3, <1>4, <1>5 DEF Next

\* In every reachable state, what is on a board or in a message is what was put
\* there and not yet taken, in order, and what a block has is what it took:
\* the boards of local_x1_boards.cpp and the messages of one stage after the
\* other stay in step although nobody counts stages.
THEOREM RelayCounts == Spec => []RInv
BY InitRelay, NextRelay, PTL DEF Spec

\* What _hydro_ref_x1 and the seam fluxes compute with is of this very stage,
\* and pass_x1_anchor never writes over an anchor that was not taken, for any
\* number of blocks, stages and processes, and wherever a block fails.
THEOREM StaysInStep == Spec => []RelayInStep
<1>1. RInv => RelayInStep
  <2>1. SUFFICES ASSUME NEW w \in [Column -> 0..13], Relay(w)
                 PROVE  RelayInStep
    BY DEF RInv
  <2>2. ASSUME NEW b \in Column
        PROVE  /\ w[b] \in 0..13 /\ At(pc[b], w[b]) /\ stage[b] \in Nat
               /\ b < pz => anchor[b] = Times(stage, w, b, 1)
    BY <2>1 DEF Relay, RelayTypeOK, ResultsOK
  <2>3. ASSUME NEW b \in Column, pc[b] = "compute", b < pz
        PROVE  anchor[b] = stage[b]
    <3>1. w[b] = 1
      BY <2>2, <2>3, PlaceIs
    <3>. QED
      BY <2>2, <2>3, <3>1 DEF Times
  <2>4. ASSUME NEW b \in Column, NEW c \in Seams(b),
               pc[b] \in {"rows_wait", "flux"}
        PROVE  rows[b][c] = stage[b]
    <3>1. w[b] = 8 \/ w[b] = 9
      BY <2>2, <2>4, PlaceIs
    <3>2. TakeStep(c, b, "rows") \in {7, 8}
      BY StepNumbers
    <3>3. rows[b][c] = Times(stage, w, b, TakeStep(c, b, "rows"))
      BY <2>1 DEF Relay, ResultsOK
    <3>. QED
      BY <3>1, <3>2, <3>3 DEF Times
  <2>5. ASSUME NEW b \in Column, NEW c \in Seams(b), pc[b] = "end",
               ~IsLocal(b, c)
        PROVE  flux[b][c] = stage[b]
    <3>1. w[b] = 13
      BY <2>2, <2>5, PlaceIs
    <3>2. TakeStep(c, b, "flux") \in {11, 12}
      BY StepNumbers
    <3>3. flux[b][c] = Times(stage, w, b, TakeStep(c, b, "flux"))
      BY <2>1, <2>5 DEF Relay, ResultsOK
    <3>. QED
      BY <3>1, <3>2, <3>3 DEF Times
  <2>6. ASSUME NEW b \in Column \ {1}, pc[b] = "pass", IsLocal(b, b - 1)
        PROVE  anchors[b - 1] = None
    <3>1. b > 1
      BY DEF Column
    <3>. QED
      BY <2>1, <2>6, <3>1, AnchorWasTaken
  <2>. QED
    BY <2>3, <2>4, <2>5, <2>6 DEF RelayInStep, StageFresh, NoAnchorLost
<1>. QED
  BY <1>1, RelayCounts, PTL

-----------------------------------------------------------------------------
(* The relay is a scan.                                                    *)

Complete == [b \in Column |-> CompleteStage(b)]

\* The places of a block that has all rows of its stage.
Late == {"rows_wait", "flux", "flux_above", "flux_below", "flux_wait", "end",
         "done"}

\* A block has completed a stage when it has taken the rows from above.
LEMMA CompleteIs ==
  ASSUME NEW w \in [Column -> 0..13], Relay(w), NEW b \in Column
  PROVE  Complete[b] = Times(stage, w, b, 8)
<1>1. At(pc[b], w[b])
  BY DEF Relay
<1>2. pc[b] \in Late <=> w[b] >= 8
  BY <1>1 DEF At, Late
<1>. QED
  BY <1>2 DEF Complete, CompleteStage, Late, Times

\* More was put than taken, over every seam and by whatever way.
LEMMA PutBeforeTaken ==
  ASSUME NEW w \in [Column -> 0..13], Relay(w),
         NEW b \in Column, NEW c \in Seams(b)
  PROVE  /\ Times(stage, w, c, TakeStep(b, c, "rows"))
            <= Times(stage, w, b, PutStep(b, c, "rows"))
         /\ c = b - 1 => Times(stage, w, c, 1) <= Times(stage, w, b, 3)
<1>. DEFINE put == Times(stage, w, b, PutStep(b, c, "rows"))
            taken == Times(stage, w, c, TakeStep(b, c, "rows"))
<1>1. /\ c \in Column /\ "rows" \in Tags /\ "anchor" \in Tags
      /\ \A k : Times(stage, w, b, k) \in Nat /\ Times(stage, w, c, k) \in Nat
  BY TimesNat DEF Relay, Seams, Tags
<1>2. taken <= put
  <2>1. CASE IsLocal(b, c)
    <3>1. Board(mail[<<b, c>>], put, taken)
      BY <2>1 DEF Relay, MailOK
    <3>. QED
      BY <3>1, <1>1 DEF Board
  <2>2. CASE ~IsLocal(b, c)
    <3>1. <<b, c, "rows">> \in Channels
      BY <2>2, <1>1, ChannelIs
    <3>2. Queue(net[<<b, c, "rows">>], put, taken)
      BY <3>1, <1>1 DEF Relay, NetOK
    <3>. QED
      BY <3>2, <1>1 DEF Queue
  <2>. QED
    BY <2>1, <2>2
<1>3. ASSUME c = b - 1
      PROVE  Times(stage, w, c, 1) <= Times(stage, w, b, 3)
  <2>1. c < pz /\ c + 1 = b /\ c < b
    BY <1>3, <1>1, ColumnAssumption DEF Column
  <2>2. CASE IsLocal(b, c)
    <3>1. Board(anchors[c], Times(stage, w, b, 3), Times(stage, w, c, 1))
      BY <1>1, <2>1, <2>2 DEF Relay, AnchorsOK, IsLocal
    <3>. QED
      BY <3>1, <1>1 DEF Board
  <2>3. CASE ~IsLocal(b, c)
    <3>1. <<b, c, "anchor">> \in Channels
      BY <2>1, <2>3, <1>1, ChannelIs
    <3>2. Queue(net[<<b, c, "anchor">>], Times(stage, w, b, 3),
                Times(stage, w, c, 1))
      BY <3>1, <1>1 DEF Relay, NetOK, PutStep, TakeStep
    <3>. QED
      BY <3>2, <1>1 DEF Queue
  <2>. QED
    BY <2>2, <2>3
<1>. QED
  BY <1>2, <1>3

\* The block above has computed the reference of this stage, as the anchor came
\* from there, and not that of the next, for which it needs rows of this block.
LEMMA ComputeIsRefer ==
  ASSUME NEW w \in [Column -> 0..13], Relay(w), NEW b \in Column, Compute(b)
  PROVE  Scan!Refer(b)
<1>1. /\ pc[b] = "compute" /\ pc' = [pc EXCEPT ![b] = "pass"] /\ stage' = stage
      /\ reference' = [reference EXCEPT ![b] = stage[b]]
      /\ DOMAIN pc = Column /\ reference \in [Column -> Nat]
      /\ stage[b] \in Nat /\ w[b] \in 0..13 /\ At(pc[b], w[b])
  BY DEF Compute, Move, Relay, RelayTypeOK
<1>2. w[b] = 1
  BY <1>1, PlaceIs
<1>3. reference[b] = stage[b] - 1 /\ Complete[b] = stage[b] - 1
  <2>1. reference[b] = Times(stage, w, b, 2)
    BY DEF Relay, ResultsOK
  <2>2. Complete[b] = Times(stage, w, b, 8)
    BY CompleteIs
  <2>. QED
    BY <1>2, <2>1, <2>2 DEF Times
<1>4. ASSUME b < pz
      PROVE  reference[b + 1] = stage[b]
  <2>. DEFINE c == b + 1
  <2>1. c \in Column /\ b \in Seams(c) /\ c \in Seams(b) /\ b = c - 1
    BY <1>4, ColumnAssumption DEF Column, Seams
  <2>2. /\ stage[c] \in Nat /\ w[c] \in 0..13
        /\ reference[c] = Times(stage, w, c, 2)
    BY <2>1 DEF Relay, RelayTypeOK, ResultsOK
  <2>3. /\ Times(stage, w, b, 1) <= Times(stage, w, c, 3)
        /\ Times(stage, w, c, 7) <= Times(stage, w, b, 5)
    BY <2>1, PutBeforeTaken DEF PutStep, TakeStep, Column
  <2>. HIDE DEF c
  <2>. QED
    BY <1>1, <1>2, <2>2, <2>3 DEF Times, c
<1>5. Complete' = Complete
  <2>1. ASSUME NEW x \in Column PROVE CompleteStage(x)' = CompleteStage(x)
    BY <1>1 DEF CompleteStage
  <2>. QED
    BY <2>1 DEF Complete
<1>6. /\ reference' = [reference EXCEPT ![b] = @ + 1]
      /\ reference[b] = Complete[b]
      /\ b < pz => reference[b + 1] = reference[b] + 1
  <2>1. reference[b] + 1 = stage[b]
    BY <1>1, <1>3
  <2>2. reference' = [reference EXCEPT ![b] = @ + 1]
    BY <1>1, <2>1
  <2>. QED
    BY <1>3, <1>4, <2>1, <2>2
<1>. QED
  BY <1>5, <1>6 DEF Scan!Refer, Complete

\* The rows of both neighbors were sent after their reference was computed.
LEMMA TakeAboveIsComplete ==
  ASSUME NEW w \in [Column -> 0..13], Relay(w), NEW b \in Column, TakeAbove(b)
  PROVE  Scan!Complete(b)
<1>. DEFINE d == b + 1
<1>1. /\ pc[b] = "take_above" /\ pc' = [pc EXCEPT ![b] = "rows_wait"]
      /\ stage' = stage /\ reference' = reference
      /\ DOMAIN pc = Column /\ stage[b] \in Nat /\ w[b] \in 0..13
      /\ At(pc[b], w[b])
  BY DEF TakeAbove, TakeRows, Move, Relay, RelayTypeOK
<1>2. w[b] = 7
  BY <1>1, PlaceIs
<1>3. reference[b] = stage[b] /\ Complete[b] = stage[b] - 1
  <2>1. reference[b] = Times(stage, w, b, 2)
    BY DEF Relay, ResultsOK
  <2>2. Complete[b] = Times(stage, w, b, 8)
    BY CompleteIs
  <2>. QED
    BY <1>2, <2>1, <2>2 DEF Times
<1>4. ASSUME NEW c \in Seams(b)
      PROVE  reference[c] >= stage[b]
  <2>1. /\ c \in Column /\ b \in Seams(c) /\ "rows" \in Tags
        /\ c = b - 1 \/ c = d
    BY DEF Seams, Column, Tags
  <2>2. /\ stage[c] \in Nat /\ w[c] \in 0..13
        /\ reference[c] = Times(stage, w, c, 2)
    BY <2>1 DEF Relay, RelayTypeOK, ResultsOK
  <2>3. CASE c = b - 1
    <3>1. Times(stage, w, b, 7) <= Times(stage, w, c, 5)
      BY <2>1, <2>3, PutBeforeTaken DEF PutStep, TakeStep, Column
    <3>. QED
      BY <1>1, <1>2, <2>2, <3>1 DEF Times
  <2>4. CASE c = d
    <3>1. PutStep(c, b, "rows") = 6 /\ TakeStep(c, b, "rows") = 8
      BY <2>1, <2>4 DEF PutStep, TakeStep, Column
    <3>2. Times(stage, w, c, 6) >= stage[b]
      <4>1. CASE IsLocal(b, c)
        <5>1. mail[<<c, b>>] # None
          BY <2>1, <2>4, <4>1, ChannelIs DEF TakeAbove, TakeRows
        <5>2. Board(mail[<<c, b>>], Times(stage, w, c, 6),
                    Times(stage, w, b, 8))
          BY <2>1, <3>1, <4>1 DEF Relay, MailOK, IsLocal
        <5>. QED
          BY <1>1, <1>2, <5>1, <5>2 DEF Board, Times
      <4>2. CASE ~IsLocal(b, c)
        <5>1. <<c, b, "rows">> \in Channels /\ net[<<c, b, "rows">>] # <<>>
          BY <2>1, <2>4, <4>2, ChannelIs DEF TakeAbove, TakeRows
        <5>2. Queue(net[<<c, b, "rows">>], Times(stage, w, c, 6),
                    Times(stage, w, b, 8))
          BY <2>1, <3>1, <5>1 DEF Relay, NetOK
        <5>3. /\ Len(net[<<c, b, "rows">>]) \in Nat
              /\ Len(net[<<c, b, "rows">>]) > 0
          BY <5>1, <5>2 DEF Queue
        <5>4. /\ Times(stage, w, c, 6) \in Int
              /\ Times(stage, w, b, 8) = stage[b] - 1
          BY <1>1, <1>2, <2>2 DEF Times
        <5>. QED
          BY <1>1, <5>2, <5>3, <5>4 DEF Queue
      <4>. QED
        BY <4>1, <4>2
    <3>. QED
      BY <1>1, <2>2, <3>2 DEF Times
  <2>. QED
    BY <2>1, <2>3, <2>4
<1>5. Complete' = [Complete EXCEPT ![b] = reference[b]]
  <2>1. CompleteStage(b)' = stage[b]
    BY <1>1 DEF CompleteStage
  <2>2. ASSUME NEW x \in Column, x # b
        PROVE  CompleteStage(x)' = CompleteStage(x)
    BY <1>1, <2>2 DEF CompleteStage
  <2>. QED
    BY <1>3, <2>1, <2>2 DEF Complete
<1>6. /\ Complete[b] < reference[b]
      /\ \A c \in Seams(b) : reference[c] >= reference[b]
  BY <1>1, <1>3, <1>4
<1>. QED
  BY <1>1, <1>5, <1>6 DEF Scan!Complete, Scan!Seams, Scan!Column, Complete,
                          Seams, Column

\* The other steps leave it alone who has completed what.
LEMMA OthersStutter ==
  ASSUME NEW w \in [Column -> 0..13], Relay(w), NEW b \in Column,
         \/ TakeAnchorTop(b) \/ TakeAnchorLocal(b) \/ TakeAnchorRemote(b)
         \/ Pass(b) \/ PostUp(b) \/ PostDown(b) \/ TakeBelow(b) \/ PostFlux(b)
         \/ TakeFluxAbove(b) \/ TakeFluxBelow(b) \/ EndStage(b)
         \/ WaitSends(b) \/ ComputeFails(b) \/ Timeout(b)
  PROVE  reference' = reference /\ Complete' = Complete
<1>1. reference' = reference
  BY DEF TakeAnchorTop, TakeAnchorLocal, TakeAnchorRemote, Pass, PostUp,
         PostDown, PostLocal, TakeBelow, TakeRows, PostFlux, TakeFluxAbove,
         TakeFluxBelow, TakeFlux, EndStage, WaitSends, ComputeFails, Timeout,
         results
<1>2. DOMAIN pc = Column /\ stage \in [Column -> Nat \ {0}]
  BY DEF Relay, RelayTypeOK
<1>3. /\ \A x \in Column \ {b} : pc'[x] = pc[x]
      /\ \/ stage' = stage /\ (pc[b] \in Late <=> pc'[b] \in Late)
         \/ /\ pc[b] = "end" /\ pc'[b] = "take"
            /\ stage' = [stage EXCEPT ![b] = @ + 1]
  <2>. DEFINE M(from, to) == /\ pc[b] = from /\ pc'[b] = to /\ stage' = stage
                             /\ \A x \in Column \ {b} : pc'[x] = pc[x]
  <2>1. CASE TakeAnchorTop(b) \/ TakeAnchorLocal(b) \/ TakeAnchorRemote(b)
    <3>1. M("take", "compute")
      BY <1>2, <2>1 DEF TakeAnchorTop, TakeAnchorLocal, TakeAnchorRemote, Move
    <3>. QED
      BY <3>1 DEF Late
  <2>2. CASE Pass(b)
    <3>1. M("pass", "pass_wait")
      BY <1>2, <2>2 DEF Pass, Move
    <3>. QED
      BY <3>1 DEF Late
  <2>3. CASE PostUp(b)
    <3>1. M("post_up", "post_down")
      BY <1>2, <2>3 DEF PostUp, PostLocal, Move
    <3>. QED
      BY <3>1 DEF Late
  <2>4. CASE PostDown(b)
    <3>1. M("post_down", "take_below")
      BY <1>2, <2>4 DEF PostDown, PostLocal, Move
    <3>. QED
      BY <3>1 DEF Late
  <2>5. CASE TakeBelow(b)
    <3>1. M("take_below", "take_above")
      BY <1>2, <2>5 DEF TakeBelow, TakeRows, Move
    <3>. QED
      BY <3>1 DEF Late
  <2>6. CASE PostFlux(b)
    <3>1. M("flux", "flux_above")
      BY <1>2, <2>6 DEF PostFlux, Move
    <3>. QED
      BY <3>1 DEF Late
  <2>7. CASE TakeFluxAbove(b)
    <3>1. M("flux_above", "flux_below")
      BY <1>2, <2>7 DEF TakeFluxAbove, TakeFlux, Move
    <3>. QED
      BY <3>1 DEF Late
  <2>8. CASE TakeFluxBelow(b)
    <3>1. M("flux_below", "flux_wait")
      BY <1>2, <2>8 DEF TakeFluxBelow, TakeFlux, Move
    <3>. QED
      BY <3>1 DEF Late
  <2>9. CASE EndStage(b)
    <3>1. CASE LastStage(b)
      <4>1. M("end", "done")
        BY <1>2, <2>9, <3>1 DEF EndStage, Move
      <4>. QED
        BY <4>1 DEF Late
    <3>2. CASE ~LastStage(b)
      BY <1>2, <2>9, <3>2 DEF EndStage, Move
    <3>. QED
      BY <3>1, <3>2
  <2>10. CASE WaitSends(b)
    <3>1. CASE Move(b, "pass_wait", "post_up")
      BY <1>2, <2>10, <3>1 DEF WaitSends, Move, Late
    <3>2. CASE Move(b, "rows_wait", "flux")
      BY <1>2, <2>10, <3>2 DEF WaitSends, Move, Late
    <3>3. CASE Move(b, "flux_wait", "end")
      BY <1>2, <2>10, <3>3 DEF WaitSends, Move, Late
    <3>. QED
      BY <2>10, <3>1, <3>2, <3>3 DEF WaitSends
  <2>11. CASE ComputeFails(b) \/ Timeout(b)
    <3>1. /\ pc[b] \in {"take", "compute", "post_up", "post_down",
                        "take_below", "take_above"}
          /\ pc'[b] = "failed" /\ stage' = stage
          /\ \A x \in Column \ {b} : pc'[x] = pc[x]
      BY <1>2, <2>11 DEF ComputeFails, Timeout, WaitsForBoard, Move
    <3>. QED
      BY <3>1 DEF Late
  <2>. QED
    BY <2>1, <2>2, <2>3, <2>4, <2>5, <2>6, <2>7, <2>8, <2>9, <2>10, <2>11
<1>4. ASSUME NEW x \in Column
      PROVE  CompleteStage(x)' = CompleteStage(x)
  <2>1. CASE x # b
    <3>1. stage'[x] = stage[x] /\ pc'[x] = pc[x]
      BY <1>2, <1>3, <2>1
    <3>. QED
      BY <3>1 DEF CompleteStage
  <2>2. CASE x = b /\ stage' = stage
    <3>1. stage'[b] = stage[b] /\ (pc[b] \in Late <=> pc'[b] \in Late)
      BY <1>2, <1>3, <2>2
    <3>. QED
      BY <2>2, <3>1 DEF CompleteStage, Late
  <2>3. CASE x = b /\ stage' # stage
    <3>1. /\ pc[b] = "end" /\ pc'[b] = "take" /\ stage'[b] = stage[b] + 1
          /\ stage[b] \in Nat
      BY <1>2, <1>3, <2>3
    <3>. QED
      BY <2>3, <3>1 DEF CompleteStage
  <2>. QED
    BY <2>1, <2>2, <2>3
<1>. QED
  BY <1>1, <1>4 DEF Complete

\* The scan starts where the relay does.
LEMMA InitScan == Init => Scan!Init
<1>1. SUFFICES ASSUME Init PROVE Scan!Init
  OBVIOUS
<1>2. \A b \in Column : CompleteStage(b) = 0
  BY <1>1 DEF Init, CompleteStage
<1>. QED
  BY <1>1, <1>2 DEF Init, Scan!Init, Scan!Column, Column, None

\* A step of the relay is a step of the scan or none.
LEMMA NextScan == RInv /\ [Next]_vars => [Scan!Next]_(Scan!vars)
<1>1. SUFFICES ASSUME NEW w \in [Column -> 0..13], Relay(w), [Next]_vars
               PROVE  [Scan!Next]_(Scan!vars)
  BY DEF RInv
<1>2. CASE UNCHANGED vars
  <2>1. pc' = pc /\ stage' = stage /\ reference' = reference
    BY <1>2 DEF vars, results
  <2>2. \A b \in Column : CompleteStage(b)' = CompleteStage(b)
    BY <2>1 DEF CompleteStage
  <2>. QED
    BY <2>1, <2>2 DEF Scan!vars
<1>3. ASSUME NEW b \in Column, Compute(b)
      PROVE  [Scan!Next]_(Scan!vars)
  <2>1. Scan!Refer(b) /\ b \in Scan!Column
    BY <1>1, <1>3, ComputeIsRefer DEF Column, Scan!Column
  <2>. QED
    BY <2>1 DEF Scan!Next
<1>4. ASSUME NEW b \in Column, TakeAbove(b)
      PROVE  [Scan!Next]_(Scan!vars)
  <2>1. Scan!Complete(b) /\ b \in Scan!Column
    BY <1>1, <1>4, TakeAboveIsComplete DEF Column, Scan!Column
  <2>. QED
    BY <2>1 DEF Scan!Next
<1>5. ASSUME NEW b \in Column, ~Compute(b), ~TakeAbove(b),
             \/ BlockStep(b) \/ WaitSends(b) \/ ComputeFails(b) \/ Timeout(b)
      PROVE  [Scan!Next]_(Scan!vars)
  <2>1. reference' = reference /\ Complete' = Complete
    BY <1>1, <1>5, OthersStutter DEF BlockStep
  <2>. QED
    BY <2>1 DEF Scan!vars, Complete
<1>6. CASE Stopped
  BY <1>2, <1>6 DEF Stopped
<1>. QED
  BY <1>1, <1>2, <1>3, <1>4, <1>5, <1>6 DEF Next

\* The relay of _hydro_ref_x1 over threads, boards and messages is a scan of
\* the column: in every stage the blocks compute the reference from the top
\* down, each from the one above, and then take the rows of both neighbors,
\* for any number of blocks and any owners, and wherever a block fails.
THEOREM RelayIsScan == Spec => ImplementsScan
BY InitScan, NextScan, RelayCounts, PTL DEF Spec, ImplementsScan
=============================================================================
