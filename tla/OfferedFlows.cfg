SPECIFICATION FairSpec
CONSTANTS
  Callers = {c1, c2}
  None = None
  TTL = 2
  Timeout = 2
  MaxTime = 7
  MaxOffer = 1
INVARIANTS WaitsForOneCall UnmarkedAnswerIsRecent
PROPERTIES AskedOncePerTTL LastAnswerKept EveryCallerAnswered
