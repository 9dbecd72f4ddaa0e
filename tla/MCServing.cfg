SPECIFICATION SpecAll
CONSTANTS
  Dependencies = {"doc"}
  Products = {"cdb"}
  Active = "cdb"
  Document = "doc"
  Commands = {1, 2, 3}
  Frozen <- SomeFrozen
  Clients = {"c"}
  MaxAttempts = 2
  MaxEdits = 2
  MaxFaults = 1
  GroupOf <- TwoGroups
  CohortHeaders = {"h"}
  Uses <- OneHeader
  Driver = "cc"
  Readers = {"r1", "r2"}
  Includes <- SomeIncludes
  Mains = {"m", "n"}
  Inventory = {"m", "x"}
  Helpers = {"p"}
  MaxPrepares = 1
  MaxWorkers = 2
  Packings <- SomePackings
  Unknown = 0
  Budgets <- SomeBudgets
  Generated = {"a", "b", "c"}
  Databases <- SomeDatabases
  Builds <- SomeBuilds
  Home <- SomeHome
  Unities <- ThreeUnities
  Folder <- OneFolder
  Apple = {1}
  TrustedUnities = {"u3"}
  MaxOriginals = 2
  MaxRewrites = 1
  Member = {"a", "b"}
  Dependency = {"unity", "rsp"}
  Response = "rsp"
  Passes = 2
  MaxBuildFaults = 2
  Headers = {"a", "b"}
  Spellings = {0, 1}
  Under <- SomeUnder
  InScope = {"in"}
  Aliased = {"b"}
  RunMains = {"m", "n"}
  MainEvidence = TRUE
  Drivers = {"d", "e"}
  Gives <- SomeGives
  Supported <- SomeSupported
INVARIANTS NoChangeMissed PackingIsExact EvidenceIsGenuine BaselineKept AcceptedIsProved
PROPERTIES ResultsAreCertified HandoffIsSound TakenIsOne RepairIsExact
CHECK_DEADLOCK FALSE
