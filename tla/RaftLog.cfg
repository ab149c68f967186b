SPECIFICATION Spec
CONSTANTS
  None = None
  Kinds = {"normal"}
  Votes = {1}
  MaxIndex = 3
  MaxTerm = 2
  MaxCrashes = 1
  MaxInstalls = 1
INVARIANTS
  TypeOK
  AppendedSurvive
  UnappliedInLog
  SnapshotBridgesPurge
  ExecutedInOrder
PROPERTIES
  VoteNeverBack
