SPECIFICATION FairHSpec
CONSTANTS
  ObjectIds = {1, 2}
  MaxObjects = 4
  U64Max = 2
  Manifests <- RingManifests
  Jobs <- LivenessJobs
  Bindings <- MCBindings
  OutputSets <- RingOutputSets
  Epochs = {1}
  Bytes = {0}
  MaxBytes = 1
  ObjectTableSize = 1
  RingDepth = 2
  Mix <- MCMix
  NoObject = NoObject
PROPERTIES
  JobsEnd
