SPECIFICATION Spec
CONSTANTS
  Name = {"a", "ab"}
  DirName = "ab"
  Prefix <- BeginsWith
  Clusters = 7
  ClusterSize = 2
  Slots = 3
  DirCluster = 2
  FatBytes = 12
  Images <- SmallVolumes
  Garbage <- Elsewhere
  Sizes = {1, 3}
  Offsets = {0, 1, 3}
  Modes <- OpenModes
  Word = 16
  MaxSize = 4
  MaxOpen = 1
INVARIANTS TypeOK PositionInFile UncommittedOnlyWhenFull
PROPERTIES TransfersTheFile SlotsKept
