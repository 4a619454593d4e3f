SPECIFICATION MCSpec
CONSTANTS
  bought = bought
  followed = followed
  remembered = remembered
  Chats = {c1, c2}
  MaxMessages = 6
  Threshold = 3
  KeepRecent = 1
  TailLimit = 2
  MaxLines = 2
  Clients = {t1, t2}
  Actions = {bought, followed, remembered}
  KindOf <- EachPart
  MaxCuts = 1
  Keys = {k1, k2}
  Days = {1}
  MaxItems = 6
  MaxAge = 2
  MaxDeaths = 1
INVARIANTS SummaryEndsAtMark ContextHasNoGap RetriesLeaveOneRow LossesLeaveALesson
PROPERTIES ExpiryTakesTheStale JudgmentsGetOutcomes
