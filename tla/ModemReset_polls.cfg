\* Both resets, four polls, a modem that answers anything at any time.
CONSTANTS
  Ops = {"cfun_reset", "apple_reset"}
  MaxPolls = 4
  Replies = {"OK", "ERROR", "GTI", "noise"}
  Waits = {19, 60}
SPECIFICATION ResetSpec
INVARIANTS
  ReadyOnEvidence
  AnswersInTime
