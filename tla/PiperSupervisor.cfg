SPECIFICATION Spec
CONSTANTS
  gpu0 = gpu0
  gpu1 = gpu1
  a0 = a0
  b0 = b0
  a1 = a1
  b1 = b1
  Worker <- MCWorker
  Item <- MCItem
  Owner <- MCOwner
  Threads = 1
  StaleLimit = 2
  MaxStaleKills = 1
  MaxCrashes = 1
  MaxJobFaults = 1
  DirsMade <- NoDirs
SYMMETRY Symmetric
INVARIANTS TypeOK
PROPERTIES OneProcessEach ImplementsStage
