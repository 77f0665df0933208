SPECIFICATION LeaguesSpec
CONSTANTS
  m1 = m1  m2 = m2
  Member = {m1, m2}
  Line = {1, 2}
  Earner <- MCEarner
  Xp <- MCXp
  Hash <- MCHash
  Consumer = {c1, c2}
  Finalizer = {f1, f2}
  Crews = {{c1, f1}}
  Nobody = Nobody
  MaxFaults = 1
  CohortSize = {1, 2, 3, 5, 30}
  MaxEmpty = 3
  MaxIdle = 3
INVARIANT PrizeOnce
CHECK_DEADLOCK FALSE
