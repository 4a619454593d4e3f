SPECIFICATION MCSpec
CONSTANTS
  sameA = sameA
  sameB = sameB
  other = other
  Jobs = {j1, j2}
  N = 2
  MaxFaults = 1
  MaxFlush = 1
  None = None
  Requests = {r1, r2}
  MaxId = 1
  Quantities = {1, 2}
  Prices = {3}
  Cost = 2
  Editors = {e1, e2}
  Confidences = {20, 80}
  Procs = {p1, p2}
  Theses = {sameA, sameB, other}
  Dated = {other}
  ThesisKey <- TwoOfAKey
  NoProc = NoProc
  NoThesis = NoThesis
  SignalDays = {1, 2}
  LastDay = 5
  Horizon = 2
  MaxSpan = 2
  MaxWait = 3
  fresh = fresh
  rumour = rumour
  undated = undated
  chips = chips
  chipmakers = chipmakers
  Studies = {s1, s2}
  Topics = {chips, chipmakers}
  SlugOf <- OneSlug
  Wording <- OneStrong
  Companies = {x1}
  Articles = {fresh, rumour, undated}
  Published <- ArticleDays
  AuditedAs <- ArticleAudits
  Undated = {undated}
  AsOfDays = {120}
  MinUsable = 2
  MaxFound = 1
  first = first
  second = second
  KeyPlan <- TwoKeys
  Runs = {m1, m2}
  Threads = {t1}
  BatchSize = 2
  MaxBatches = 2
  MaxCalls = 3
  LastTradingDay = 5
  Context = 1
  PredLen = 1
  TrainEnd = 3
  ValidStart = 4
  ValidEnd = 5
  Launchers = {u1}
  MaxPreparations = 2
  Launches = {l1, l2}
  MaxSteps = 3
  Interval = 2
  Losses = {1, 2, 3}
  Clicks = {k1, k2}
  Pings = {h1, h2}
  MaxRow = 5
  SampleOpen = {1}
  SampleClosed = {2}
  TrackScores <- SomeAnswers
  FScores = {4, 8}
  Pctiles = {20, 90}
  Deltas <- SomeDeltas
  Holdings <- Timelines
  Members <- TwoStocks
  Savers = {v1, v2}
  Weeks <- ThreeWeeks
  Ttl = 1
  LastLabelDay = 2
INVARIANTS SignalComesFirst ToldIsDone EveryStockIsTreated NoThesisIsLost OneThesisPerKey BindingIsEarned WorseReportsNeverLift MaturedIsDecided ScarceMeansAsked ManifestsAreTrue SequencesMatchWindows CheckpointsAreWhole PublishedIsBest
PROPERTIES ClosedPnlIsFinal EditsKeepToTheirColumns
