--------------------------- MODULE MCRewardLedger ---------------------------
(* Small instances of RewardLedger for TLC.                                *)
EXTENDS RewardLedger, TLC

CONSTANTS s1, s2, kGrant, kStore, kAgain, kAdmin, kSpin, kPaid, boost, chest, dayRow

Line(c, n) == [d \in Currency |-> IF d = c THEN n ELSE 0]

Ask(kind, key, ls, first, sku, units) ==
  [kind |-> kind, key |-> key, lines |-> ls, first |-> first, sku |-> sku,
   packs |-> 1, units |-> units]

Pack(kind, key, c, price, sku, units) == Ask(kind, key, Line(c, -price), c, sku, units)
Buy(kind, key, c, price, sku) == Pack(kind, key, c, price, sku, 1)

(* A completion first seen with gems only, then also with XP; one store    *)
(* key sent for two items, another key for the first; an adjustment; a     *)
(* chest won by one who has a chest; a paid re-spin.  A boost is sold in   *)
(* packs of two.  The save beside the ledger adds XP, and treats gems and  *)
(* coins as a save that adds nothing would.                                *)
Requests ==
  { Ask("grant", kGrant, Line("gems", 1), "gems", boost, 0),
    Ask("grant", kGrant, [Line("gems", 1) EXCEPT !["lifetime_xp"] = 1],
        "lifetime_xp", boost, 0),
    Pack("store", kStore, "gems", 1, boost, 2),
    Pack("store", kAgain, "gems", 1, boost, 2),
    Buy("store", kStore, "gems", 1, chest),
    Ask("admin", kAdmin, Zero, "gems", boost, 0),
    Ask("prize", kSpin, Zero, "lifetime_xp", chest, 1),
    Buy("respin", kPaid, "gems", 1, dayRow) }
RespinRequests ==
  { Buy("store", kStore, "gems", 2, boost), Buy("respin", kPaid, "gems", 2, dayRow) }

NoGems == { Line("gems", 0) }
SomeGems == { Line("gems", 2) }
Limits == [i \in Sku |-> IF i = chest THEN 2 ELSE 1]
OneChest == [i \in Sku |-> IF i = chest THEN 1 ELSE 0]
NoChest == [i \in Sku |-> 0]
OneXp == { Line("lifetime_xp", 1) }
Sessions == Permutations(Session)
=============================================================================
