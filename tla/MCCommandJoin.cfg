SPECIFICATION ShellSpec
CONSTANTS
  Parts = {"graph"}
  Candidates <- BundleCandidates
  ColdPriority <- BundlePriority
  Values = {1, 2}
  COMPARISON_POLICIES <- BundlePolicies
  ActiveLimit = 1
  MinimumActive = 1
  Budget = 2
  Manifests <- BundleManifests
  Texts <- BundleTexts
  MinimumSamples = 2
  Target <- BundleTarget
  Source <- BundleSource
  Alterations = {"pick", "better", "missing", "twice", "slow", "otherrun"}
  N = 2
  MaxRuns = 3
  MaxTampers = 1
  MaxHostEdits = 1
  MAX_NODES = 4
  Repetitions = 1
  MaxEdits = 0
  MaxLen = 4
  Family = "bare"
INVARIANT
  JoinWaits
