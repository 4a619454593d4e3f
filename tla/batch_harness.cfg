SPECIFICATION Spec
CONSTANTS
  j1 = j1
  j2 = j2
  Jobs = {j1}
  N = 2
  MaxFaults = 0
  MaxFlush = 1
SYMMETRY Sym
INVARIANTS HarnessDoesNotBlock
