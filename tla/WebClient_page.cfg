\* Every click in any order, two requests that fail, two cards.
CONSTANTS
  a = a
  b = b
  c1 = c1
  c2 = c2
  Files = {a, b}
  ArrFile = a
  Cards = {c1, c2}
  Writers = {"write", "tlv"}
  Patient = TRUE
  MaxActions = 5
  MaxFaults = 2
SPECIFICATION Spec
INVARIANTS
  CacheOfItsFile
  PaneOfSelected
  CacheIsCurrent
PROPERTIES
  LossShown
  ConnectingEnds
  ReadingEnds
CHECK_DEADLOCK FALSE
