SPECIFICATION FairSpec
CONSTANTS
  Address = {p1, p2, p3}
  Contract = tholos
  NoAddress = noaddr
  AdminKeys = {k1}
  NoPolicy = nopolicy
  CandidatePolicies <- RoundPolicies
  Deposits = {2}
  MaxAssertions = 1
  MaxTime = 4
  MaxBondAmount = 20
  MaxWindowSecs = 1
  MaxAntiSnipeHardMaxSecs = 2
  MaxSettlementTotalWeight = 12
  I128Max = 20000
PROPERTY ExpiredRegistrationAdvances
