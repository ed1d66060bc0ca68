SPECIFICATION LSpec
CONSTANTS
  Address = {p1, p2, p3}
  Contract = tholos
  NoAddress = noaddr
  AdminKeys = {k1}
  NoPolicy = nopolicy
  CandidatePolicies <- HorizonPolicies
  Deposits = {2}
  MaxAssertions = 1
  MaxTime = 8
  MaxBondAmount = 20
  MaxWindowSecs = 3
  MaxAntiSnipeHardMaxSecs = 2
  MaxSettlementTotalWeight = 12
  I128Max = 20000
  SecsPerLedger = 2
  DayInLedgers = 1
  InstanceBumpAmount = 2
  SettlementGrace = 6
  MinPersistentTtl = 1
  Asserter = p1
  Disputer = p2
  UpkeepTime = 6
INVARIANT InstanceOutlivesClaims
