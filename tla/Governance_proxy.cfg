SPECIFICATION FairSpec
CONSTANTS
  Poll = {p1}
  Unit = {u1}
  Resolution = {r1}
  NoOne = nobody
  NoPoll = none
  Handler = {h1}
  MaxNow = 1
  MaxEdits = 0
  Starts = {0}
  Ends = {1}
  Moves = {}
CHECK_DEADLOCK FALSE
PROPERTIES ProxyHonoured
