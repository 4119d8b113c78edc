SPECIFICATION Spec
CONSTANTS
  Lists <- const_Lists
  MaxStep = 2
  tlim = 4
  MaxLegs = 2
  Printed = 2
  Writers = {"precise", "legacy", "none"}
INVARIANTS
  NextTimeInReach
  FilesOnTheGrid
  SlotsClaimedOnce
  StatsTile
  MatchIsTheLoop
PROPERTY OlderFilesKept
CHECK_DEADLOCK FALSE
