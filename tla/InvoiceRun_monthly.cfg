SPECIFICATION FairSpec
CONSTANTS
  NumUnits = 3
  Base = {1, 3}
  Extra = {2}
  ChunkSize = 2
  Handler = {sweeper, h1}
  Sweeper = sweeper
  MaxNumber = 7
  MaxTrouble = 3
CHECK_DEADLOCK FALSE
INVARIANTS NumbersAreFree IssuedIsAnnounced
PROPERTIES EveryUnitIsBilled
