SPECIFICATION Spec
CONSTANTS
  Requests = {r1, r2}
  Cases = {case1}
  Refs = {ref1}
  case1 = case1
  ref1 = ref1
  NoCase = NoCase
  NoRef = NoRef
  Keys <- SharedPair
  MaxCandidates = 2
  MaxAborts = 1
SYMMETRY Sym
INVARIANTS DecisionLinks ItemBackedByAtom
