SPECIFICATION HSpec
CONSTANTS
  ObjectIds = {1, 2}
  MaxObjects = 4
  U64Max = 3
  Manifests <- RingManifests
  Jobs <- RingJobs
  Bindings <- MCBindings
  OutputSets <- RingOutputSets
  Epochs = {1}
  Bytes = {0, 1}
  MaxBytes = 1
  ObjectTableSize = 2
  RingDepth = 2
  Mix <- MCMix
  NoObject = NoObject
INVARIANTS
  AuthorityInv
  RingsNeverBlock
  HistoryExact
PROPERTIES
  PublicationAtomic
  CancellationSticky
  ImplementsStore
