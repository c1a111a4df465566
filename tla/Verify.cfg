SPECIFICATION TrailSpec
CONSTANTS
  Addresses = {a1, a2}
  NoAddress = NoAddress
  Buffers = {c1, c2}
  MaxPerKey = 0
  MaxPending = 1
  Users = {u1}
  NoUser = NoUser
  Documents = {d1, d2}
  NoDocument = NoDocument
  Deployments <- SomeDeployments
  OutboxCapacity = 1
  MaxReads = 1
  MaxAccesses = 2
INVARIANTS GateCountsInFlight IdleAddressAdmitted
           EvidenceNamesItsCaller CheckedLeavesEvidenceOnce
           TrailIsTruthful ServedAccessIsOnRecord AccessLeavesOneRecord
SYMMETRY TrailSymmetry
