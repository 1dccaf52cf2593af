SPECIFICATION Spec
CONSTANTS
  Poll = {p1, p2}
  Unit = {u1}
  Resolution = {r1}
  NoOne = nobody
  NoPoll = none
  Handler = {h1, h2}
  MaxNow = 1
  MaxEdits = 2
  Starts = {0}
  Ends = {1}
  Moves = {}
SYMMETRY Symmetry
CHECK_DEADLOCK FALSE
INVARIANTS OneBallotPerUnit ResultsAreFinal
