SPECIFICATION FairSpec
CONSTANTS
  api1 = api1
  postmarket = postmarket
  stoploss = stoploss
  i1 = i1
  i2 = i2
  i3 = i3
  NoInode = NoInode
  Api = {api1}
  Jobs = {postmarket, stoploss}
  PostMarket = {postmarket}
  Inodes = {i1, i2, i3}
  Worlds <- EachTrouble
  MaxFaults = 1
PROPERTIES OnlyAResetClears TriggerTakesEffect GuardHolds LossesTrip
