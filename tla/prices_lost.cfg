SPECIFICATION PricesSpec
CONSTANTS
  Fetchers = {f1}
  FirstDay = 5
  LastDay = 8
  RefreshWindow = 2
  PrecedingWindow = 3
  MinUsable = 2
  MaxFetches = 4
PROPERTIES NoPriceIsLost
CHECK_DEADLOCK FALSE
