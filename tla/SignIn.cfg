SPECIFICATION Spec
CONSTANTS
  Browsers = {b1, b2}
  States = {st1, st2}
  None = None
  Starts = {t1, t2}
  Returns = {c1, c2}
  FlowTTL = 1
  MaxTime = 2
INVARIANTS SignedInWhereStarted ExchangedOnce FreshSignIn TwoTabsBothFinish
PROPERTY ParkedForItsBrowser
SYMMETRY Symmetry
