SPECIFICATION FairSpec
CONSTANTS
  Tasks = {g, web}
  g = g
  web = web
  TimeoutRounds = 2
  Prompt = FALSE
  MaxId = 3
  MaxFaults = 1
INVARIANTS TypeOK AnsweredWasExecuted ResendsNeedFaults
PROPERTIES ExecutionOrder WaitEnds
CHECK_DEADLOCK FALSE
