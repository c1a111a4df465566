SPECIFICATION FairSpec
CONSTANTS
  Browsers = {b1}
  Sids = {s1}
  NoSid = NoSid
  Requests = {r1, r2}
  MaxGen = 2
  Rotates = TRUE
INVARIANTS TypeOK QuietSessionIsCurrent
PROPERTIES GoneStaysGone UnheldSessionGoes EveryRequestAnswered
