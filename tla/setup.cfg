CONSTANTS
  Configs <- Releases
  SystemColumns <- System
  Folded <- Lower
  Suffixes <- None
  MaxFaults = 3
  TPs <- OnePartition
  Topics = {"changelog"}
  NameOf <- OneChangelog
SPECIFICATION FairSpec
INVARIANTS
  TypeOK
  UpMeansDeclared
  BootShowsNothing
  StartInv
  RefusalMeansDrift
  CachedWasThere
PROPERTIES
  CompactIsReported
  InterruptedStartsFinish
  PartitionsGetChecked
