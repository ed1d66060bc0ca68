SPECIFICATION ConsumerSpec
CONSTANTS
  a1 = a1
  a2 = a2
  a3 = a3
  a4 = a4
  Address = {a1, a2, a3, a4}
  NoAddress = noaddr
  AdminKeys = {k1}
  MaxResolvers = 1
  CandidateCommittees <- Committees
  RotationTargets = {}
  CandidateConfigs <- Configs
  BondAmounts = {9, 10}
  StallTimeouts = {0, 1}
  Fees = {0, 1}
  MaxAssertions = 2
  MaxTime = 2
  MaxBondAmount = 20
  MaxChallengeWindowSecs = 2
  MaxStallTimeoutSecs = 2
  Consumer = a1
  InitialFunds = 15
  Pins <- BothPins
CONSTRAINT ConsumerParties
INVARIANTS
  PaidByVerdict
  CostsAtMostAgreed
