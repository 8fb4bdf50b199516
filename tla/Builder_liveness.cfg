SPECIFICATION FairSpec
CONSTANTS
  a = a
  b = b
  User = {a, b}
  IncludedBy <- SourceAndHeader
  Threads = 2
  MaxEdits = 2
  Fault = {"remove"}
PROPERTIES RunEnds NothingIsBuiltTwice
