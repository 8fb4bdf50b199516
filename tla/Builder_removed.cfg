SPECIFICATION Spec
CONSTANTS
  a = a
  b = b
  User = {a}
  IncludedBy <- OneHeader
  Threads = 1
  MaxEdits = 1
  Fault = {"remove"}
INVARIANTS OutputsExist
