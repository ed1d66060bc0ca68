SPECIFICATION Spec
CONSTANTS
  Address = {p1, p2, p3}
  Contract = tholos
  NoAddress = noaddr
  AdminKeys = {k1}
  NoPolicy = nopolicy
  CandidatePolicies <- PairPolicies
  Deposits = {15}
  MaxAssertions = 2
  MaxTime = 3
  MaxBondAmount = 20
  MaxWindowSecs = 1
  MaxAntiSnipeHardMaxSecs = 2
  MaxSettlementTotalWeight = 40
  I128Max = 20000
  Asserter = p1
  Disputer = p2
  SecondVoter = p3
CONSTRAINT PostedTogether
INVARIANT Solvency
PROPERTY ImplementsOracle
