SPECIFICATION MaterialSpec
CONSTANTS
  Files = {f1, f2}
  People = {p1}
  Org = Org
  None = None
  Requests = {r1, r2}
  Deployments <- SomeDeployments
  MaxSlots = 1
  MaxEnvelopes = 1
  Own = Own
  Login = Login
  Card = Card
  SealIds = {s1, s2}
  AppOrigin = TRUE
  Captures <- SomeCaptures
INVARIANTS WholeSetInOneDocument InvitationsCanBeClaimed MaterialBelongsTogether
SYMMETRY Symmetry
