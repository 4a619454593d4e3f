SPECIFICATION PageSpec
CONSTANTS
  Clicks = {c1}
  Pings = {h1}
  MaxRow = 2
  SampleOpen = {1}
  SampleClosed = {2}
INVARIANTS SampleStaysHere
CHECK_DEADLOCK FALSE
