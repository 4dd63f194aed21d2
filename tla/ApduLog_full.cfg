\* One thread logs more entries than the list keeps; the page keeps polling.
CONSTANTS
  t1 = t1
  p1 = p1
  Threads = {t1}
  Polls = {p1}
  LogMax = 2
  MaxEntries = 3
  MaxClears = 0
SPECIFICATION FairSpec
PROPERTIES
  EveryEntryShown
