SPECIFICATION Spec
CONSTANTS
  None = None
  Kinds = {"normal"}
  Votes = {1}
  MaxIndex = 1
  MaxTerm = 1
  MaxCrashes = 1
  MaxInstalls = 0
INVARIANTS
  AppliedSurvives
