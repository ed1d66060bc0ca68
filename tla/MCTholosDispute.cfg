SPECIFICATION FairSpec
CONSTANTS
  a1 = a1
  a2 = a2
  a3 = a3
  a4 = a4
  a5 = a5
  a6 = a6
  Address = {a1, a2, a3, a4, a5}
  NoAddress = noaddr
  AdminKeys = {k1}
  MaxResolvers = 3
  CandidateCommittees <- LaterCommittees
  RotationTargets = {}
  CandidateConfigs <- DisputeConfigs
  BondAmounts = {9, 21}
  StallTimeouts = {0, 1}
  Fees = {0, 1}
  MaxAssertions = 2
  MaxTime = 2
  MaxBondAmount = 20
  MaxChallengeWindowSecs = 2
  MaxStallTimeoutSecs = 2
CONSTRAINT FixedParties
INVARIANTS
  TypeOK
  VerdictFollowsVotes
  Solvency
  ResolvedPaysEscrow
PROPERTIES
  ImplementsOracle
  EveryClaimEnds
  ImpartialCommitteeDecides
