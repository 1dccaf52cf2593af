SPECIFICATION FairSpec
CONSTANTS
  Caller = {c1, c2}
  Token = {t1, t2, t3}
  NoToken = none
  TTL = 2
  MaxHold = 3
  MayEvict = TRUE
INVARIANTS TypeOK OneAtATime KeyIsKept
PROPERTIES LockIsFreed
