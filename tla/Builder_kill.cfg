SPECIFICATION Spec
CONSTANTS
  a = a
  b = b
  User = {a, b}
  IncludedBy <- TwoFiles
  Threads = 2
  MaxEdits = 2
  Fault = {"die"}
INVARIANTS TypeOK BuiltFlagsAreTrue SuccessMeansBuilt
