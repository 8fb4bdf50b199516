CONSTANTS
  f1 = f1
  f2 = f2
  File = {f1, f2}
  MaxEdits = 3
SPECIFICATION Spec
SYMMETRY Symmetry
INVARIANTS
  IInv
  StampedIsComplete
  LinkedIsFromThisRun
  FailsOnlyWhenDisturbed
PROPERTIES FinishedIsNeverRewritten
