\* Two request threads, the file endpoints, several data commands, one failing exchange.
CONSTANTS
  t1 = t1
  t2 = t2
  Threads = {t1, t2}
  SessionIds = {1, 2}
  Layouts <- Scanned
  Files <- TwoFiles
  Ops <- WritesAndBatches
  MaxPieces = 2
  MaxFaults = 1
SPECIFICATION Spec
SYMMETRY Symmetric
INVARIANTS
  TypeOK
  IsolatedRequestsHitTarget
  SessionRequestsHitTarget
  PortLossReported
  NoSessionLeak
CHECK_DEADLOCK FALSE
PROPERTIES
  KeepsPromise
