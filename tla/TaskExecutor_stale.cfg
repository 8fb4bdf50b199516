\* Collecting the cgroup files may throw and the caller goes on.
CONSTANTS
  t1 = t1
  t2 = t2
  t3 = t3
  n1 = n1
  n2 = n2
  n3 = n3
  Task = {t1, t2, t3}
  Name = {n1, n2}
  Tiny = {}
  MaxActive = 2
  Fault = {"collect"}
SPECIFICATION Spec
SYMMETRY Symmetry
INVARIANTS NoAssertionFails
