SPECIFICATION Spec
CONSTANTS
  hive = hive
  copy = copy
  Files = {hive}
  InitialDisks <- SoundDisks
  Checksum <- MCChecksum
  Word <- MCWord
  Stops <- MCStops
  Stray = {0}
  Requests = {1349}
  MaxSize = 20480
  LastSequence = 1
INVARIANT
  AddrIsLive
