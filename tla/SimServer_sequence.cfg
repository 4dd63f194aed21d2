\* One client calling every endpoint in any order; two exchanges may fail.
CONSTANTS
  t1 = t1
  Threads = {t1}
  SessionIds = {1, 2}
  Layouts <- SomeLayouts
  Files <- OneFile
  Ops <- JustRead
  ServerOps <- AllServerOps
  AdmTypes <- Adm1
  MaxPieces = 1
  MaxFaults = 2
SPECIFICATION ServerSpec
INVARIANTS
  GlobalsAgree
  ScanPublishesWhatItFound
