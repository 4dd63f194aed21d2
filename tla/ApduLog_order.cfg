\* Two threads log past the limit while the page polls and clears.
CONSTANTS
  t1 = t1
  t2 = t2
  p1 = p1
  Threads = {t1, t2}
  Polls = {p1}
  LogMax = 2
  MaxEntries = 5
  MaxClears = 1
SPECIFICATION Spec
INVARIANTS
  LogBounded
  ShownInOrder
