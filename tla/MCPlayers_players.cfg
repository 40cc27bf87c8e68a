CONSTANTS
  a1 = a1  a2 = a2  a3 = a3  p1 = p1  p2 = p2  p3 = p3
  Key = {a1, a2, a3}
  NoKey = NoKey
  NoData = NoData
  NoSlot = NoSlot
  max_size = 2
  Name = {p1, p2, p3}
  Nobody = Nobody
  Resident <- Residents
  Renumbers = FALSE
  Distance = {1, 2, 3}
  NoReport = NoReport
  Connected = {p1, p2}
  MSG_CLOSEST_PLAYERS = 2
  MaxAnswers = 1
  MaxChanges = 3
SPECIFICATION FairSpec
INVARIANTS TypeOK TableSound ClosestIfExact
PROPERTIES EventuallyFull EventuallyReported
