\* No crash; one limit under a page, so that cgroups may be shared.
CONSTANTS
  t1 = t1
  t2 = t2
  t3 = t3
  n1 = n1
  n2 = n2
  n3 = n3
  Task = {t1, t2, t3}
  Name = {n1, n2}
  Tiny = {t3}
  MaxActive = 2
  Fault = {"clone", "epoll"}
SPECIFICATION Spec
SYMMETRY Symmetry
PROPERTIES DestructorReapsAll
