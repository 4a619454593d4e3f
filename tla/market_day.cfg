SPECIFICATION MCSpec
CONSTANTS
  Scores <- BoundaryScores
  EntryThreshold = 250
  Caps = {200, 300}
  MaxPosition = 150000
  TrialPosition = 50000
  morning = morning
  added = added
  abroad = abroad
  quick = quick
  main = main
  other = other
  Callers = {morning, added, abroad}
  MarketOf <- EachMarket
  Chain <- ByPriority
  MarketsOf <- EachCover
  ObserveOnly = {}
  Uncooled = {other}
  Fetchers = {f1, f2}
  FirstDay = 5
  LastDay = 7
  RefreshWindow = 2
  PrecedingWindow = 3
  MinUsable = 2
  MaxFetches = 3
  Tasks = {i1, i2}
  Cron = cron
INVARIANTS VetoStands WorseNeverTakesMore ScoreExplainsRecommendation NoScaledRow RecordsComeToRest
PROPERTIES RecoveredProviderServes RefreshSettles
