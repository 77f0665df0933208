SPECIFICATION FairSpec
CONSTANTS
  s1 = s1  s2 = s2
  kGrant = kGrant  kStore = kStore  kAgain = kAgain
  kAdmin = kAdmin  kSpin = kSpin  kPaid = kPaid
  boost = boost  chest = chest  dayRow = dayRow
  Session = {s1, s2}
  NoSession = NoSession
  Key = {kGrant, kStore, kAgain, kAdmin, kSpin, kPaid}
  Sku = {boost, chest, dayRow}
  FreezeSku = {boost}
  MaxFreeze = 2
  Limit <- Limits
  Request <- Requests
  AdminTarget <- NoGems
  ProfileChange <- OneXp
  Stocked <- OneChest
  Openings <- SomeGems
  MaxVersion = 3
  MaxSaves = 1
INVARIANTS TypeOK PaidOnce PurchaseCovered LimitHeld ProfileMirrored
PROPERTIES DoubleEntry EveryCallEnds
CHECK_DEADLOCK FALSE
