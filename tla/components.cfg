SPECIFICATION Spec
CONSTANTS
  c1 = c1
  c2 = c2
  u1 = u1
  u2 = u2
  u3 = u3
  i1 = i1
  i2 = i2
  k1 = k1
  k2 = k2
  p1 = p1
  Only = {"streak", "referral", "wheel", "calls", "chat", "keys", "social", "track",
    "plans", "achieve", "path", "timing", "notices", "intake", "cohorts",
    "accounts", "lobby", "flags", "pipeline", "catalog", "graph", "group",
    "rooms", "play", "questions", "versions", "forms", "evidence", "profile"}
INVARIANTS TypeOK CountedAsDone OneAtATime ShownAsIs 
PROPERTIES NothingUndone RewardsEarnedOnce
SYMMETRY Interchangeable
CHECK_DEADLOCK FALSE
