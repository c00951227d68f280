SPECIFICATION FairSpec
CONSTANT MaxPending = 1
PROPERTY EveryHeartbeatJudged
CHECK_DEADLOCK FALSE
