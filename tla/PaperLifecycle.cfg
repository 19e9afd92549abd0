SPECIFICATION FairSpec
CONSTANTS
  s1 = s1
  NumContracts = 2
  Signals = {s1}
  SignalOf <- OneSignal
  CloseOf <- Minutes
  Full = 10
  Rated = {1, 2}
  ChanceOf <- Chances
  MinRecent = 1
  MaxError = 2
  MaxFetch = 1
  MaxEvents = 1
INVARIANTS RetiredOnEvidence LiveHonoursEvidence
PROPERTIES RetirementCatchesUp LateProbeLabels
