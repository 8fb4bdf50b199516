\* Three tasks, two at a time; the executor may crash, clone3 and ctl_add may fail.
CONSTANTS
  t1 = t1
  t2 = t2
  t3 = t3
  n1 = n1
  n2 = n2
  n3 = n3
  Task = {t1, t2, t3}
  Name = {n1, n2}
  Tiny = {}
  MaxActive = 2
  Fault = {"crash", "clone", "epoll"}
SPECIFICATION Spec
SYMMETRY Symmetry
INVARIANTS
  TypeOK
  EventsAreLive
  NoAssertionFails
  SlotsAreReused
  CgroupsAreExclusive
  RunsInsideItsLimit
  NothingRunsUnowned
PROPERTIES KillsOnlyWhenDue
