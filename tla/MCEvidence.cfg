SPECIFICATION EvidenceSpec
CHECK_DEADLOCK FALSE
CONSTANTS
  Promoters = {"p1", "p2"}
  FilesPerRun = 2
  MaxEdits = 2
  Parts = {"promotion", "session", "campaign", "physical", "by hand", "controlled"}
  Variants <- MCVariants
  Attempts = {"run-a", "run-b", "run-009"}
  Manifests <- PhysicalManifests
  RtlVersions = {1, 2}
  Areas <- PhysicalAreas
  MaxExports = 1
  MaxRawEdits = 1
  MaxByHand = 3
  Run009 = "run-009"
  Run009Actual = 2
  Run009Manifest = "exp9"
  Ops <- ControlledOps
  Seeds = {1, 3}
  MaxForeign = 1
  MaxRuns = 3
  MaxContracts = 2
INVARIANTS
  PromotionSound
  VerdictExact
  EvidenceSound
  ScreeningSound
  AggregateSound
