SPECIFICATION SpecAll
CONSTANTS
  Order <- QueueOrder
  Own <- QueueOwn
  Kind <- QueueKind
  Admits <- QueueAdmits
  Known <- QueueKnown
  Root <- QueueRoot
  Versions <- QueueVersions
  Workers = 2
  MaxEdits = 1
  MaxFaults = 1
  StrictEntries <- FiveEntries
  StrictFiles <- TwoHeaders
  StrictIncludes <- OnePath
  StrictValues <- HeaderValues
  StrictChunk <- TwoChunks
  StrictClash <- SomeClashes
  StrictLimit = 1
  MaxStrictEdits = 2
  MaxCrashes = 0
  LiveModule <- TwoModules
  LiveExact = {6}
  LiveClass <- TwoClasses
  LiveCross <- JoinedModules
  LiveChunk <- LiveChunks
  LiveFinds <- SomeFinds
  LiveVersions = {1, 2}
  MaxLiveEdits = 2
  MaxLiveFaults = 1
  ScanPairs = 4
  ScanLimit = 1
  Packable = {0, 1, 2}
  ScanVerdict <- SomeVerdicts
  MaxScanEdits = 1
  MaxScanFaults = 2
  Cases <- SomeCases
  Ignored = {"w"}
  FileHeaders = {"h", "g"}
  HeaderFiles = {"h", "g"}
  DefineAt <- Macros
  ProvenRef <- Always
  TypesProven = {}
  StageOriginal <- ThreeStages
  StageBuilds <- SomeBuilds
  MaxEvents = 3
  MaxStops = 2
  MaxProbeFaults = 1
PROPERTY ReadyIsOfItsOwn
CHECK_DEADLOCK FALSE
