SPECIFICATION DeviceSpec
CONSTANTS
  Parts = {"trace", "evidence"}
  Procs = {p, q}
  Requests = {r1, r2}
  Finalizers = {"schedule", "affine", "dag", "selected", "request"}
  MaxStarted = 5
  MaxSimulations = 2
  MaxChanges = 1
  Kinds = {"schedule", "affine", "dag", "selected", "request"}
  Side = 1
  InputWords = 16
  OutputWords = 8
  MaxSide = 3
  Profiles <- MCProfiles
  Shapes <- MCShapes
  Graphs <- MCGraphs
  Input <- MCInput
  Program <- MCProgram
  WordMod = 16
  RejectedCases = 2
  Polls = 2
  CancelPoints = {2}
  MaxFaults = 2
SYMMETRY Sym
CHECK_DEADLOCK FALSE
INVARIANTS
  TraceExact
  ProfileExact
  PresentedSound
PROPERTY
  ReceiptExact
