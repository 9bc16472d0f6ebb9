SPECIFICATION Spec
CONSTANTS
  a = a
  b = b
  c = c
  th1 = th1
  th2 = th2
  th3 = th3
  Elem <- MCElem
  Thread <- MCThread
  NULL = NULL
SYMMETRY MCSymmetry
INVARIANTS
  WellLinked
PROPERTIES
  ImplementsDeque
