SPECIFICATION FairSpec
CONSTANTS
  Address = {p1, p2, p3, p4}
  Contract = tholos
  NoAddress = noaddr
  AdminKeys = {k1}
  NoPolicy = nopolicy
  CandidatePolicies <- LimitPolicies
  Deposits = {705, 1414}
  MaxAssertions = 1
  MaxTime = 5
  MaxBondAmount = 2000
  MaxWindowSecs = 1
  MaxAntiSnipeHardMaxSecs = 2
  MaxSettlementTotalWeight = 1414
  I128Max = 2000000
  Asserter = p1
  Disputer = p2
  SecondVoter = p4
CONSTRAINT DecidedOrPaid
INVARIANT SettlementInRange
PROPERTIES
  ResolvedPaysOutInFull
  OneVoterSuffices
  OpenRevealCloses
