SPECIFICATION KernelSpec
CONSTANTS
  Parts = {"fold", "host", "capability", "region", "program"}
  ObjectIds = {1, 2, 3, 4, 5}
  MaxObjects = 4
  U64Max = 9
  Manifests = {}
  Jobs = {}
  Bindings = {}
  OutputSets = {}
  Epochs = {1}
  Bytes = {0, 1, 2, 3, 4, 5, 6, 7}
  MaxBytes = 1
  ObjectTableSize = 5
  RingDepth = 1
  Mix <- LoopMix
  Requests <- LoopRequests
  MaxJobs = 3
  LedgerSize = 3
  Tasks = {0, 1, 2}
  CapTypes = {"ENDPOINT", "DATA_AUTHORITY", "PROGRAM_AUTHORITY"}
  CapObjects = {0, 1}
  RightSets <- CapRightSets
  CapTableSize = 2
  GenerationMax = 3
  Height = 4
  Width = 5
  WordModulus = 8
  Descriptors <- RegionDescriptors
  Inputs <- RegionInputs
INVARIANTS
  LoopsSound
  HostSound
  RevokedStayDead
  RegionExact
  LoweringExact
