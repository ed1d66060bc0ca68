SPECIFICATION FairSpec
CONSTANTS
  a1 = a1
  a2 = a2
  a3 = a3
  a4 = a4
  a5 = a5
  a6 = a6
  Address = {a1, a2, a3, a4, a5, a6}
  NoAddress = noaddr
  AdminKeys = {k1, k2}
  MaxResolvers = 5
  CandidateCommittees <- RotatedCommittees
  RotationTargets = {a1, a4}
  CandidateConfigs <- RotationConfigs
  BondAmounts = {}
  StallTimeouts = {}
  Fees = {0}
  MaxAssertions = 0
  MaxTime = 0
  MaxBondAmount = 20
  MaxChallengeWindowSecs = 2
  MaxStallTimeoutSecs = 2
CONSTRAINT InitializedFirst
INVARIANTS
  RotationFitsCommittee
PROPERTY RotationDecided
