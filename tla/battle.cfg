SPECIFICATION FairSpec
CONSTANTS
  Challenger = Challenger
  Opponent = Opponent
  Call = {c1, c2}
  NoCall = NoCall
  Stake = 1
  Rounds = 1
  SuddenMax = 1
  Mixes = {{"disconnect", "crowd"}, {"dry", "unseen"}, {"again", "disconnect", "crash"}, {"decline"}, {"beat"}}
INVARIANTS TypeOK RevealedComplete BestPlayerWins CoinsConserved NetMatchesResult
PROPERTY EveryStakeReturns
CHECK_DEADLOCK FALSE
