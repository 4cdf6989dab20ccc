SPECIFICATION PlaneSpec
CONSTANTS
  ObjectIds = {1}
  MaxObjects = 4
  U64Max = 2
  Manifests <- PlaneManifests
  Jobs <- PlaneJobs
  Bindings <- PlaneBindings
  OutputSets <- PlaneOutputSets
  Epochs = {1}
  Bytes = {0}
  MaxBytes = 1
  ObjectTableSize = 1
  RingDepth = 1
  Mix <- PlaneMix
  Tasks = {1, 2}
  CapTypes = {"PROGRAM_AUTHORITY"}
  CapObjects = {1}
  RightSets <- PlaneRightSets
  CapTableSize = 5
  GenerationMax = 1
  Programs = {1, 2}
  Graphs = {1}
  InitTask = 1
  PlaneObject = 1
  ProgramRegistrySize = 1
  GraphRegistrySize = 1
  LedgerSize = 2
INVARIANTS
  PlaneSound
PROPERTIES
  ImplementsAuthority
  ProgramRevocationCloses
