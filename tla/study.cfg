SPECIFICATION FairSpec
CONSTANTS
  Creator = Creator
  Invitee = Invitee
  Call = {c1, c2}
  Need = 1
  StepCount = 2
  Mixes = {{"accept", "decline", "cancel", "ready"}, {"accept", "ready", "hour"}, {"accept", "ready", "scheduled"}, {"ready", "task"}, {"begun", "complete", "leave"}, {"begun", "beat", "complete", "capped"}, {"begun", "beat", "crash"}, {"begun", "complete", "crash"}, {"begun", "ack"}, {"begun", "ack", "task"}, {"begun", "solo", "leave", "later"}, {"begun", "solo", "beat", "later"}}
INVARIANTS TypeOK BonusIsEarned StepsReadByBoth
PROPERTY RoomCloses
CHECK_DEADLOCK FALSE
