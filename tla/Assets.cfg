SPECIFICATION AssetsSpec
CONSTANTS
  Source = {a}
  LegacySource = {a}
  Session = {x, y}
  MaxRev = 2
  MaxFault = 2
  NoOne = NoOne
  Package = {"p", "q"}
  Basis = {"b1", "b2"}
  Score <- Scores
  Population = 2
  MaxReuse = 3
  WorkCase = {w1, w2}
  NoPlan = NoPlan
INVARIANTS AssetsTypeOK LedgerVerifies PackageIsDurable AcceptedIsMaterialized
 EvidenceIsIndependent
PROPERTIES DecisionsAreFinal DecidedOnEvidence StartupEnds ImplementsShelf
CHECK_DEADLOCK FALSE
