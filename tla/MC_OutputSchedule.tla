-------------------------- MODULE MC_OutputSchedule --------------------------
(* Two frame streams and a restart output, reordered, re-timed, dropped,   *)
(* added and duplicated between the legs.                                  *)
EXTENDS OutputSchedule

Out(type, dt, variables, stat) ==
  [type |-> type, dt |-> dt, variables |-> variables, stat |-> stat]

restart == Out("restart", 2, "all", FALSE)
fast    == Out("netcdf", 2, "prim", FALSE)
faster  == Out("netcdf", 3, "prim", FALSE)
slow    == Out("netcdf", 3, "stat", TRUE)
always  == Out("netcdf", 0, "stat", TRUE)

const_Lists == {<<restart, fast, slow>>, <<slow, restart, fast>>,
                <<restart, faster, fast>>, <<fast, restart, fast>>,
                <<restart, always>>}

\* For CompletedFramesKept, which these two lists violate.
const_Swapped == {<<restart, fast, slow>>, <<restart, slow, fast>>}

=============================================================================
