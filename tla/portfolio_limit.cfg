SPECIFICATION Spec
CONSTANTS
  a = a
  b = b
  c = c
  tech = tech
  food = food
  Stocks = {a, b, c}
  Sectors = {tech, food}
  Weights = {0, 4}
  MaxStock = 4
  MaxSector = 6
  MaxTotal = 6
  MinPosition = 2
SYMMETRY Sym
INVARIANTS TotalEquityLimit
