SPECIFICATION Spec
CONSTANTS
  hive = hive
  copy = copy
  Files = {hive}
  InitialDisks <- AllDisks
  Checksum <- MCChecksum
  Word <- MCWord
  Stops <- MCStops
  Stray <- MCStray
  Requests = {3, 1349, 4057, 4065, 1000001}
  MaxSize = 16384
  LastSequence = 1
INVARIANTS
  TypeOK
  BitmapExact
  LayoutKept
  SoundFilesReopen
PROPERTIES
  NeverReusesBlocks
  ScanTerminates
