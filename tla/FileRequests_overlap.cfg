\* Two overlapping requests on one channel; nothing fails.
CONSTANTS
  t1 = t1
  t2 = t2
  Threads = {t1, t2}
  SessionIds = {1}
  Layouts <- Scanned
  Files <- SomeFiles
  Ops <- JustWrite
  MaxPieces = 1
  MaxFaults = 0
SPECIFICATION Spec
INVARIANTS
  RequestsHitTarget
CHECK_DEADLOCK FALSE
