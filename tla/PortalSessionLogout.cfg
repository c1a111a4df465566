SPECIFICATION Spec
CONSTANTS
  Browsers = {b1}
  Sids = {s1}
  NoSid = NoSid
  Requests = {r1, r2, r3}
  MaxGen = 2
  Rotates = TRUE
INVARIANT GoneOnLogout
SYMMETRY Symmetry
