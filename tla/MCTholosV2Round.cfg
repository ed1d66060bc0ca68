SPECIFICATION Spec
CONSTANTS
  Address = {p1, p2, p3, p4}
  Contract = tholos
  NoAddress = noaddr
  AdminKeys = {k1}
  NoPolicy = nopolicy
  CandidatePolicies <- RoundPolicies
  Deposits = {1, 2}
  MaxAssertions = 1
  MaxTime = 5
  MaxBondAmount = 20
  MaxWindowSecs = 1
  MaxAntiSnipeHardMaxSecs = 2
  MaxSettlementTotalWeight = 12
  I128Max = 20000
CONSTRAINT OneClaimAtStart
SYMMETRY ParticipantSymmetry
INVARIANTS
  TypeOK
  TotalsMatchPositions
  DecisionMatchesWeights
  PayoutsMatchEntitlements
  PrincipalProtected
  LiabilityMatchesCredits
PROPERTIES
  ImplementsOracle
  DecisionIsFinal
  ElectorateFrozenAfterCutoff
  RevealEndsAtDeadline
  CutoffMovesOnlyForWeight
