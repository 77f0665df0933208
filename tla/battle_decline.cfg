SPECIFICATION Spec
CONSTANTS
  Challenger = Challenger
  Opponent = Opponent
  Call = {c1}
  NoCall = NoCall
  Stake = 1
  Rounds = 1
  SuddenMax = 1
  Mixes = {{"decline"}}
INVARIANT NothingStranded
CHECK_DEADLOCK FALSE
