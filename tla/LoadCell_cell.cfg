SPECIFICATION FairSpec
CONSTANTS
  MaxRounds = 2
  MaxLine = 3
  MaxLate = 1
  MaxErrors = 1
INVARIANTS TypeOK TareJudged
PROPERTIES CommandEnds HeavyActs
CHECK_DEADLOCK FALSE
