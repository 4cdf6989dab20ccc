SPECIFICATION ShellSpec
CONSTANTS
  Parts = {"graph", "showcase", "bundle"}
  Candidates <- BundleCandidates
  ColdPriority <- BundlePriority
  Values = {1, 2}
  COMPARISON_POLICIES <- BundlePolicies
  ActiveLimit = 1
  MinimumActive = 1
  Budget = 2
  Manifests <- BundleManifests
  Texts <- BundleTexts
  MinimumSamples = 2
  Target <- BundleTarget
  Source <- BundleSource
  Alterations = {"pick", "better", "missing", "twice", "slow", "otherrun"}
  N = 2
  MaxRuns = 3
  MaxTampers = 1
  MaxHostEdits = 1
  MAX_NODES = 3
  Repetitions = 2
  MaxEdits = 1
  MaxLen = 3
  Family = "files"
INVARIANTS
  CommitSound
  ReuseSound
  BundleSound
