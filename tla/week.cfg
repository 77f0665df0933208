SPECIFICATION FairSpec
CONSTANTS
  Session = {s1, s2, s3}
  Task = {t1, t2}
  Mixes = {{"complete"}, {"complete", "move"}, {"complete", "skip"}, {"skip", "close"}, {"complete", "close", "crash"}}
  HoursNeeded = 1
  NoSession = NoSession
INVARIANTS TypeOK SealEarnedOnce CountedRight
PROPERTY EarnedWeekSeals
CHECK_DEADLOCK FALSE
