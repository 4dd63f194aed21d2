\* Two clients: reads and writes of ISIM and USIM files race scans and resets that move the applications.
CONSTANTS
  t1 = t1
  t2 = t2
  Threads = {t1, t2}
  SessionIds = {1}
  Layouts <- Moving
  Files <- TwoFiles
  Ops <- ReadWrite
  ServerOps <- ConnectReset
  AdmTypes <- Adm1
  MaxPieces = 1
  MaxFaults = 1
SPECIFICATION ServerSpec
SYMMETRY Symmetric
INVARIANTS
  IsolatedRequestsHitTarget
