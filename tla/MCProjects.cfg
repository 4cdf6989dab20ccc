SPECIFICATION ProjectsSpec
CHECK_DEADLOCK FALSE
CONSTANT
  Parts = {"queue", "operators", "runs", "fork", "parents", "session"}
  Operators = {"a", "b"}
  Issues = {"i1", "i2", "i3", "i4", "i5"}
  Packets = {"i1", "i2", "i3", "i4"}
  Points = {1}
  MaxForks = 2
  MaxUser = 3
  Shapes <- SessionShapes
  MaxDim = 512
  Threshold = 500
  Lines = {"a", "b"}
  ResultPaths = {"r"}
  MaxGraphs = 2
  NChildren = 3
  MaxEdits = 2
  MaxStrays = 1
  MaxFileEdits = 1
  MaxRuns = 1
  MaxTampers = 1
  MAX_ENTRIES = 6
INVARIANTS
  BoardSound
  ProjectSound
  ParentSound
  GraphSound
PROPERTY
  ForkSound
