SPECIFICATION Spec
CONSTANTS
  Threads = {t1, t2}
  Contexts = {c1, c2, c3}
  Surfaces = {s1, s2}
  NULL = NULL
SYMMETRY Symmetry
CHECK_DEADLOCK FALSE
 
INVARIANT CurrentInOneThread
