SPECIFICATION Spec
CONSTANTS
  Request = {p1, p2, p3}
  Session = {s1, s2}
  None = None
SYMMETRY Symmetry
INVARIANTS
  ChangesAreSteppedUp
