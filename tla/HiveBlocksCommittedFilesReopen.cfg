SPECIFICATION Spec
CONSTANTS
  hive = hive
  copy = copy
  Files = {hive}
  InitialDisks <- SoundDisks
  Checksum <- MCChecksum
  Word <- MCWord
  Stops <- MCStops
  Stray = {0}
  Requests = {4057}
  MaxSize = 16384
  LastSequence = 1
INVARIANT
  CommittedFilesReopen
