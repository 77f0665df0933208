SPECIFICATION FairSpec
CONSTANTS
  Session = {sn1, sn2, sn3}
  Key = {k1, k2}
  Mixes = {{"complete"}, {"start", "save", "complete"}}
  NoSession = NoSession
  NoKey = NoKey
INVARIANTS TypeOK PaidOnce NoRewardLost LeagueOnce
PROPERTY EveryCallAnswered
CHECK_DEADLOCK FALSE
