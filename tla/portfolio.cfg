SPECIFICATION Spec
CONSTANTS
  a = a
  b = b
  c = c
  tech = tech
  food = food
  Stocks = {a, b, c}
  Sectors = {tech, food}
  Weights = {0, 1, 3, 5}
  MaxStock = 4
  MaxSector = 6
  MaxTotal = 8
  MinPosition = 2
SYMMETRY Sym
INVARIANTS OvershootIsBounded StockWithinCap
PROPERTIES UsageRisesWithinLimits
