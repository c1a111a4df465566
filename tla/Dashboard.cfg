SPECIFICATION DashboardSpec
CONSTANTS
  Roots = {d1, d2}
  Envelopes = {1, 2}
  MaxTouch = 1
  MaxUntil = 2
  ChainPage = 2
  MaxTasks = 1
  MaxChanges = 1
INVARIANTS EveryListedChainHasARow NotBesideItsEnvelope
           EveryEnvelopeAccountedFor NoRowOutlivesItsDocuments
SYMMETRY Symmetry
