SPECIFICATION Spec
CONSTANTS
  Hives <- MCHives
  Visitors <- MCVisitors
  MaxValueLen = 10
  MaxFaults = 1
  Tick = 2
  Epoch = 1
INVARIANTS  ConvertsFaithfully XmlMirrorsHive ElementsKeepPlace
PROPERTY VisitEnds
CHECK_DEADLOCK FALSE
