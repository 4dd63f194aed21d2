\* All four transfers, files up to five commands long, any command failing; BER-TLV
\* objects at every edge of their lengths; every parser.
CONSTANTS
  Ops <- AllTransfers
  Sizes <- ManySizes
  Chunk = 3
  Reach = 12
  Padded <- CsimPads
  Lengths <- EdgeLengths
  Segments <- FewSegments
  MaxCalls = 3
  MaxLosses = 2
  Targets <- EditTargets
  MaxSteps <- ManySteps
SPECIFICATION TransfersSpec
INVARIANTS
  UpdatesInOrder
  UpdateSuccessIsComplete
  ReadsInOrder
  WriteSuccessIsStored
  ReadShowsObject
  AnswersUnderstood
  WritesAreEdits
PROPERTIES
  RetrieveEnds
