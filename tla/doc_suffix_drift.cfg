CONSTANTS
  Configs <- OneColumnMoved
  SystemColumns <- System
  Folded <- Lower
  Suffixes <- IdEndsUserId
  MaxFaults = 1
  TPs <- OnePartition
  Topics = {"changelog"}
  NameOf <- OneChangelog
SPECIFICATION Spec
INVARIANTS
  UpMeansDeclared
