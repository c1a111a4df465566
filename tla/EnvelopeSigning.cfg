SPECIFICATION Spec
CONSTANTS
  Owner = own
  CoSigners = {co}
  Viewers = {own, co}
  Invitations <- MixedInvitations
  None = None
  Slots = {1, 2}
  Signings = {r1, r2}
  MaxJobs = 2
INVARIANTS SignedSlotKeepsDownload CoSignerSeesOwnOnly
           NameIsTheSigners RecordedJobIsNewest
SYMMETRY Symmetry
