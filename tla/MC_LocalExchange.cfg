SPECIFICATION Spec
CONSTANTS
  b1 = b1
  b2 = b2
  b3 = b3
  intra = intra
  cross = cross
  Blocks = {b1, b2, b3}
  Keys = {intra, cross}
  Steps = 3
  Schedule <- const_Schedule
  Links <- const_Links
  MaxJobs = 2
  SuperResolution = {b1}
  MayFail = {"serialize", "copy"}
INVARIANTS
  MeetingKept
PROPERTIES
  EveryoneReturns
  ImplementsRendezvous
CHECK_DEADLOCK FALSE
