SPECIFICATION Spec
CONSTANTS
  Writers = {w1, w2}
  Pollers = {p1, p2}
  Capacity = 3
  DefaultCapacity = 2000
  MaxWrite = 2
  MaxLines = 8
SYMMETRY Symmetry
INVARIANTS TypeOK Contiguous NoRepeats GapsAreEvictions
