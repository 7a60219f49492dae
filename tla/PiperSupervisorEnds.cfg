SPECIFICATION FairSpec
CONSTANTS
  gpu0 = gpu0
  gpu1 = gpu1
  a0 = a0
  b0 = b0
  a1 = a1
  b1 = b1
  Worker <- MCWorker
  Item <- Item3
  Owner <- Owner3
  Threads = 1
  StaleLimit = 1
  MaxStaleKills = 1
  MaxCrashes = 1
  MaxJobFaults = 1
  DirsMade <- MCWorker
PROPERTIES SupervisorEnds MergesUnlessFaults
