\* Two threads in _send, answers late or missing, an unsolicited line.
CONSTANTS
  t1 = t1
  t2 = t2
  Threads = {t1, t2}
  MaxSends = 3
  MaxUrcs = 1
SPECIFICATION Spec
INVARIANTS
  NothingStale
  UnsharedReplyIsOwn
CHECK_DEADLOCK FALSE
