CONSTANTS
  a1 = a1  a2 = a2 a3 = a3  m1 = m1  m2 = m2
  Key = {a1, a2, a3}
  NoKey = NoKey
  NoData = NoData
  NoSlot = NoSlot
  max_size = 2
  Shard = {m1, m2}
  UsedOn <- OnOneMap
  Npc = {a1, a2, a3}
  Raid = {a1, a2}
  MAX_TARGET_AGE = 2
  RESET_TIMER = 1
  Retention = 2
  MSG_TARGETS = 2
  MaxHits = 1
  MaxChanges = 2
SPECIFICATION FairSpec
INVARIANTS TypeOK TargetsSound NeverOverstated
PROPERTIES LockHolds EventuallyHidden EventuallyCurrent EventuallyReported
