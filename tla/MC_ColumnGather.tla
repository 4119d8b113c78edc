-------------------------- MODULE MC_ColumnGather --------------------------
(* ColumnGather with the owners and the inputs written out.  One unit is   *)
(* enough parts for two repairs in a row to be exact.                      *)
EXTENDS ColumnGather

const_TwoAndOne == [b \in Column |-> IF b < 3 THEN 0 ELSE 1]

const_Major == <<1, 1, 2, 1, 1, 1>>
const_Vol == <<1, 1, 1, 1, 2, 1>>

Unit == 1680 * 1680

In(units) == [i \in Cells |-> units[i] * Unit]

Nothing == <<0, 0, 0, 0, 0, 0>>
A(vapor, cloud, rain) == [vapor |-> In(vapor), cloud |-> In(cloud), rain |-> In(rain)]

const_Cases == 1..6

\* Columns with much and with little of each species.
const_Start(c) ==
  CASE c = 1 -> A(<<1, 1, 1, 1, 1, 1>>, <<1, 1, 1, 1, 1, 1>>, <<0, 0, 0, 0, 0, 3>>)
    [] c = 2 -> A(<<3, 0, 0, 0, 0, 3>>, Nothing, <<1, 0, 0, 1, 0, 0>>)
    [] c = 3 -> A(<<0, 0, 1, 0, 2, 3>>, <<2, 0, 0, 0, 0, 1>>, <<0, 0, 1, 0, 0, 0>>)
    [] c = 4 -> A(<<2, 2, 0, 0, 0, 0>>, Nothing, <<0, 1, 0, 0, 1, 0>>)
    [] c = 5 -> A(<<1, 0, 1, 0, 1, 0>>, <<0, 1, 0, 1, 0, 1>>, Nothing)
    [] c = 6 -> A(<<0, 1, 0, 1, 0, 2>>, Nothing, <<2, 0, 0, 0, 0, 2>>)

\* What the stages do: 1 nothing; 2 drains the middle, then all there is; 3 the
\* bottom with its cloud, which only the cells above can fill; 4 the top, and
\* more rain than there is; 5 each block of its own; 6 more vapor than there is
\* in its second stage.
const_Change(c, n) ==
  CASE c = 1 -> A(Nothing, Nothing, Nothing)
    [] c = 2 /\ n = 1 -> A(<<0, 0, -1, -2, 0, 0>>, Nothing, <<-2, 1, 0, 0, 0, 0>>)
    [] c = 2 /\ n = 2 -> A(<<-1, 0, 0, 0, 1, -4>>, Nothing, Nothing)
    [] c = 3 /\ n = 1 -> A(<<-2, 0, 0, 0, 0, 1>>, <<-3, 0, 0, 0, 1, -1>>,
                           <<0, 0, -1, -1, 0, 1>>)
    [] c = 3 /\ n = 2 -> A(<<1, -2, 0, 0, 0, 0>>, Nothing, <<1, 0, 0, 0, 0, -1>>)
    [] c = 4 /\ n = 1 -> A(<<0, 0, 0, 0, 0, -2>>, <<0, 0, 0, 0, -1, 0>>,
                           <<0, -2, 0, 0, -2, 1>>)
    [] c = 4 /\ n = 2 -> A(<<-1, 0, -1, 0, 1, 0>>, Nothing, <<0, 0, -1, 1, 0, 0>>)
    [] c = 5 /\ n = 1 -> A(<<-2, 1, -2, 1, -2, 2>>, <<0, -2, 1, -1, 1, -1>>, Nothing)
    [] c = 5 /\ n = 2 -> A(<<1, 0, 0, 1, 0, 0>>, <<0, 0, 0, -1, 0, 0>>, Nothing)
    [] c = 6 /\ n = 1 -> A(<<1, -2, 0, 1, 0, -1>>, Nothing, <<-3, 0, 0, 0, 1, -2>>)
    [] c = 6 /\ n = 2 -> A(<<0, 0, 0, -2, -2, 0>>, <<0, 1, 0, 0, 0, 0>>, Nothing)
=============================================================================
