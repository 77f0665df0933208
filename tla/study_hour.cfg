SPECIFICATION Spec
CONSTANTS
  Creator = Creator
  Invitee = Invitee
  Call = {c1}
  Need = 1
  StepCount = 2
  Mixes = {{"accept", "ready", "hour"}}
INVARIANT ReadyRoomStarts
CHECK_DEADLOCK FALSE
