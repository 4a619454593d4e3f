SPECIFICATION FairSpec
CONSTANTS
  Requests = {r1}
  Cases = {case1}
  Refs = {ref1}
  case1 = case1
  ref1 = ref1
  NoCase = NoCase
  NoRef = NoRef
  Keys <- SharedRefKeys
  MaxCandidates = 3
  MaxAborts = 0
PROPERTIES ImplementsLedger OwnRefGetsDecided
