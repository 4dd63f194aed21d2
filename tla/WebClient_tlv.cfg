\* The user closes the popup of a BER-TLV write and clicks another file while it runs.
CONSTANTS
  a = a
  b = b
  c1 = c1
  Files = {a, b}
  ArrFile = a
  Cards = {c1}
  Writers = {"tlv"}
  Patient = FALSE
  MaxActions = 5
  MaxFaults = 0
SPECIFICATION Spec
INVARIANT CacheOfItsFile
CHECK_DEADLOCK FALSE
