---------------------------- MODULE ColumnRepair ----------------------------
(***************************************************************************)
(* How a column fills the negative cells of one species without changing   *)
(* its mass (fix_vapor_impl, src/eos/fix_vapor_impl.h).  A cell holds an   *)
(* integer number of the smallest parts that the divisions of the case     *)
(* need, so that they are exact.                                           *)
(***************************************************************************)
EXTENDS Integers, FiniteSetsExt

CONSTANTS Height,   \* cells of the column, numbered from the bottom
          Major,    \* Major[i]: density of the dry gas
          Vol       \* Vol[i]: cell volume, relative to some cell

ASSUME RepairAssumption == /\ Height \in Nat \ {0}
                           /\ DOMAIN Major = 1..Height /\ DOMAIN Vol = 1..Height
                           /\ \A i \in 1..Height : Vol[i] > 0

Mass(x, cells) == MapThenSumSet(LAMBDA i : x[i] * Vol[i], cells)

\* The cells below which the cells up to top hold no less than nothing.
Floors(x, top) == {i \in 0..(top - 1) : Mass(x, (i + 1)..top) >= 0}

\* Wrong: the sums count cells, not volumes (#241).
RedistributeUnweighted(x, floor, top) ==
  LET cells == (floor + 1)..top
      Plain(y) == MapThenSumSet(LAMBDA i : y[i], cells) IN
  [i \in 1..Height |-> IF i \in cells THEN (Plain(x) * Major[i]) \div Plain(Major)
                       ELSE x[i]]

\* The cells above floor share what they have in proportion to the dry gas.
Redistribute(x, floor, top) ==
  LET cells == (floor + 1)..top IN
  [i \in 1..Height |-> IF i \in cells
                       THEN (Mass(x, cells) * Major[i]) \div Mass(Major, cells)
                       ELSE x[i]]

Shortfall(x, top) == -Mass(x, 1..top)

AboveCovers(x, top) ==
  /\ \A i \in (top + 1)..Height : Major[i] > 0
  /\ Mass(x, (top + 1)..Height) >= Shortfall(x, top)

\* The shortfall is taken from the cells above, the lowest first.
TakeFromAbove(x, top) ==
  LET Owed(i) == Shortfall(x, top) - Mass(x, (top + 1)..(i - 1)) IN
  [i \in 1..Height |-> IF i <= top THEN 0
                       ELSE IF Owed(i) <= 0 THEN x[i]
                       ELSE Max({0, x[i] - (Owed(i) \div Vol[i])})]

RECURSIVE Scan(_, _)
Scan(x, top) ==
  IF top = 0 THEN [vapor |-> x, err |-> 0]
  ELSE IF Major[top] <= 0 THEN [vapor |-> x, err |-> 1]
  ELSE IF x[top] >= 0 THEN Scan(x, top - 1)
  ELSE IF Floors(x, top) # {}
       THEN LET floor == Max(Floors(x, top)) IN
            Scan(Redistribute(x, floor, top), floor)
  ELSE IF AboveCovers(x, top) THEN [vapor |-> TakeFromAbove(x, top), err |-> 0]
  ELSE [vapor |-> x, err |-> 1]

fix_vapor(x) == Scan(x, Height)
=============================================================================
