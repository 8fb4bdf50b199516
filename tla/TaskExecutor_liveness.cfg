\* Fair executions of two tasks; the executor may crash.
CONSTANTS
  t1 = t1
  t2 = t2
  t3 = t3
  n1 = n1
  n2 = n2
  n3 = n3
  Task = {t1, t2}
  Name = {n1, n2}
  Tiny = {}
  MaxActive = 2
  Fault = {"crash"}
SPECIFICATION FairSpec
INVARIANTS LeftoversAreMarked
PROPERTIES LaunchedIsReported DestructorEnds
