\* Five keys for at most four nodes, one address to spare.
CONSTANTS
  Key = {k1, k2, k3, k4, k5}
  Val = {u, v}
  Node = {n1, n2, n3, n4, n5}
  Null = Null
  Sizes = {2, 4}
SPECIFICATION Spec
INVARIANTS
  NoBadPointer
  NothingLeaks
PROPERTY IsLru
SYMMETRY Symmetry
CHECK_DEADLOCK FALSE
