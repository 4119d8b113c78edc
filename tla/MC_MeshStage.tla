---------------------------- MODULE MC_MeshStage ----------------------------
(* Columns, planes and boxes, ghost zones one and two cells wide, and      *)
(* walls that put each boundary function next to each of the others.       *)
EXTENDS MeshStage

const_Shapes == {<<2, 2, 2, 1>>, <<2, 3, 1, 2>>, <<3, 1, 1, 2>>}
const_Walls ==
  {<<"reflecting", "reflecting", "reflecting", "extrapolation", "outflow",
     "reflecting">>,
   <<"outflow", "reflecting", "outflow", "reflecting", "reflecting",
     "outflow">>,
   <<"extrapolation", "outflow", "outflow", "extrapolation", "extrapolation",
     "reflecting">>,
   <<"periodic", "periodic", "reflecting", "outflow", "outflow", "outflow">>}
=============================================================================
