SPECIFICATION Spec
CONSTANTS
  Users = {u1, u2}
  Targets = {d1}
  None = None
  Requests = {r1, r2}
  TTL = 2
  Slow = 1
  MaxTime = 5
  CacheFails = TRUE
INVARIANTS AnswerIsTheCallers AnswerAgeBounded ForcedAnswerIsFresh
PROPERTY RecentIsNotRepeated
SYMMETRY Symmetry
