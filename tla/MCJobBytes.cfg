SPECIFICATION HSpec
CONSTANTS
  NoObject = NoObject
  ObjectIds = {1, 2}
  MaxObjects = 4
  U64Max = 3
  Manifests <- ByteManifests
  Jobs <- ByteJobs
  Bindings <- MCBindings
  OutputSets <- ByteOutputSets
  Epochs = {0, 1}
  Bytes = {0, 1}
  MaxBytes = 2
  ObjectTableSize = 2
  RingDepth = 1
  Mix <- MCMix
INVARIANTS
  IInv
PROPERTIES
  ApprovedFrozen
