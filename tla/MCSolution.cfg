SPECIFICATION Spec
CONSTANTS
  Key <- MCKey
  File <- MCFile
  Recognised = {"requirements.txt"}
  Extra = {"x", "y"}
  Solutions <- MCSolutions
  Excluded = {"tool"}
  None = None
INVARIANTS
  ReloadAgrees
  ReadsAsRequirements
