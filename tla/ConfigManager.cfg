CONSTANTS
  Docs <- Documents
  Scalings <- Environments
  Absent = Absent
  Invalid = Invalid
  Garbage = Garbage
  Torn = Torn
  NoWhitelist = NoWhitelist
  NoConfig = NoConfig
  IntSpan = 64
  MaxEdits = 2
  MaxCrashes = 1
SPECIFICATION Spec
INVARIANTS TypeOK ConfigFileWhole FileOnlyFromOperator InstancesPartitionStreams
PROPERTIES StableFileApplied DestructorReturns
