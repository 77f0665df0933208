----------------------------- MODULE BattleLobby -----------------------------
(***************************************************************************)
(* Battles before and after their play: challenges, acceptance, rematches, *)
(* stale invitations, and what a settlement pays under the day's caps      *)
(* (battles.service.ts; Battle has the play of one).                       *)
(*                                                                         *)
(* A challenge is a chain of checks without a lock, and at its end a row;  *)
(* no index refuses a second one; one that stops leaves nothing.           *)
(* Acceptance and settlement lock the battle's row until they commit, and  *)
(* each is one step: two settlements of a player could only run side by    *)
(* side if challenges did, and the day's caps are not stated of such       *)
(* players.                                                                *)
(***************************************************************************)
EXTENDS Integers, FiniteSets, Sequences, Functions

CONSTANTS
  Player,
  Key,        \* idempotency keys of challenges, which a client repeats with them
  Herald,     \* handlers of challenges in flight
  Stake,
  Purse,      \* coins of each at the beginning
  PairCap,    \* BATTLE_PAIR_XP_DAILY_CAP
  CoinsCap,   \* BATTLE_PARTICIPATION_COINS_DAILY_CAP
  LeagueCap,  \* BATTLE_LEAGUE_XP_DAILY_CAP
  Xp,         \* what a battle gives each, win or lose
  MaxBattles, \* bound: battles
  LastDay     \* bound: days

LobbyAssumption ==
  /\ IsFiniteSet(Player)
  /\ {Stake, Purse, PairCap, CoinsCap, LeagueCap, Xp, MaxBattles, LastDay} \subseteq Nat

Day == 0..LastDay

(* The tables' rows.  "Playing" are the statuses from accepted to sudden   *)
(* death, "settled" completed, forfeited and refunded, "closed" declined   *)
(* and cancelled; a battle's day is that of its end.                       *)
Contest == [from : Player, to : Player, key : Key, lapsed : BOOLEAN, day : Day,
            status : {"invited", "playing", "settled", "closed", "expired"}]
Reward  == [xp : {0, Xp}, league : 0..LeagueCap, coins : {0, 1}]
Paid    == [contest : 1..MaxBattles, who : Player, day : Day, reward : Reward]

VARIABLES
  contests,   \* battles, in the order in which they were created
  paidOut,    \* battle_results, with what the ledger was given for each
  purses,     \* wallets: coins
  herald,     \* the handlers in flight
  battleDay,  \* the UTC day
  rushed      \* players of two challenges that overlapped
vars == <<contests, paidOut, purses, herald, battleDay, rushed>>

NoErrand == [at |-> "idle"]

Init ==
  /\ contests = <<>>
  /\ paidOut = {}
  /\ purses = [p \in Player |-> Purse]
  /\ herald = [h \in Herald |-> NoErrand]
  /\ battleDay = 0
  /\ rushed = {}

Active == {"invited", "playing"}
Between(b) == {contests[b].from, contests[b].to}
OpenFor(p) == {b \in DOMAIN contests : p \in Between(b) /\ contests[b].status \in Active}
Errand(h) == {herald[h].from, herald[h].to}
Running == {h \in Herald : herald[h].at # "idle"}
-----------------------------------------------------------------------------
OnlyWhilePlaying(p) ==           \* variant: an invitation does not count as open
  \A b \in OpenFor(p) : contests[b].status = "invited"

(* assertNoConflictingBattle.                                              *)
Unengaged(p) == OpenFor(p) = {}

Anew(p, key) == TRUE             \* variant: the key is not looked up

(* A challenge whose key this challenger has used is the battle it made.   *)
NewKey(p, key) == \A b \in DOMAIN contests : contests[b].from # p \/ contests[b].key # key

(* create: the key, then the challenger's battles.                         *)
Challenge(h, p, q, key) ==
  /\ herald[h].at = "idle" /\ Len(contests) + Cardinality(Running) < MaxBattles
  /\ p # q /\ NewKey(p, key) /\ Unengaged(p)
  /\ herald' = [herald EXCEPT ![h] = [at |-> "other", from |-> p, to |-> q, key |-> key]]
  /\ rushed' = rushed \cup UNION {Errand(o) \cap {p, q} : o \in Running}
  /\ UNCHANGED <<contests, paidOut, purses, battleDay>>

(* rematch: create in a settled battle's terms, by either of the two.      *)
Rematch(h, b, p, key) ==
  /\ contests[b].status = "settled" /\ p \in Between(b)
  /\ \E q \in Between(b) \ {p} : Challenge(h, p, q, key)

(* Then the opponent's battles and the challenger's purse.                 *)
CheckOther(h) ==
  /\ herald[h].at = "other"
  /\ herald' = [herald EXCEPT ![h] =
       IF Unengaged(herald[h].to) /\ purses[herald[h].from] >= Stake
       THEN [@ EXCEPT !.at = "insert"] ELSE NoErrand]
  /\ UNCHANGED <<contests, paidOut, purses, battleDay, rushed>>

Insert(h) ==
  /\ herald[h].at = "insert"
  /\ contests' = Append(contests,
       [from |-> herald[h].from, to |-> herald[h].to, key |-> herald[h].key,
        status |-> "invited", lapsed |-> FALSE, day |-> battleDay])
  /\ herald' = [herald EXCEPT ![h] = NoErrand]
  /\ UNCHANGED <<paidOut, purses, battleDay, rushed>>
-----------------------------------------------------------------------------
Status(b, s) == contests' = [contests EXCEPT ![b].status = s]

TakesFromOne(b) ==               \* variant: only the opponent, who accepts, is debited
  [purses EXCEPT ![contests[b].to] = @ - Stake]

Escrowed(b) == [p \in Player |-> IF p \in Between(b) THEN purses[p] - Stake ELSE purses[p]]

(* accept takes both stakes, or refuses: a stale invitation and too few    *)
(* coins throw, and the transaction leaves nothing.                        *)
Accept(b) ==
  /\ contests[b].status = "invited" /\ ~contests[b].lapsed
  /\ \A p \in Between(b) : purses[p] >= Stake
  /\ purses' = Escrowed(b)
  /\ Status(b, "playing")
  /\ UNCHANGED <<paidOut, herald, battleDay, rushed>>

(* decline, by either (how it races with an acceptance is Battle's).       *)
Decline(b) ==
  /\ contests[b].status = "invited"
  /\ Status(b, "closed")
  /\ UNCHANGED <<paidOut, purses, herald, battleDay, rushed>>

Lapse(b) ==
  /\ contests[b].status = "invited" /\ ~contests[b].lapsed
  /\ contests' = [contests EXCEPT ![b].lapsed = TRUE]
  /\ UNCHANGED <<paidOut, purses, herald, battleDay, rushed>>

(* expireStaleInvites, one statement of the maintenance job.               *)
ExpireStale ==
  /\ \E b \in DOMAIN contests : contests[b].status = "invited" /\ contests[b].lapsed
  /\ contests' = [b \in 1..Len(contests) |->
       IF contests[b].status = "invited" /\ contests[b].lapsed
       THEN [contests[b] EXCEPT !.status = "expired"] ELSE contests[b]]
  /\ UNCHANGED <<paidOut, purses, herald, battleDay, rushed>>
-----------------------------------------------------------------------------
Today(p) == {r \in paidOut : r.who = p /\ r.day = battleDay}

AsChallenged(b) ==               \* variant: battles that the other began are not counted
  Cardinality({c \in DOMAIN contests :
    contests[c].from = contests[b].from /\ contests[c].to = contests[b].to
      /\ contests[c].status = "settled" /\ contests[c].day = battleDay}) + 1

(* countPairBattlesToday, with the battle that is being settled.           *)
PairToday(b) ==
  Cardinality({c \in DOMAIN contests :
    Between(c) = Between(b) /\ contests[c].status = "settled"
      /\ contests[c].day = battleDay}) + 1

XpFor(b) == IF PairToday(b) > PairCap THEN 0 ELSE Xp

(* participationCoinsAllowed.                                              *)
Participation(p) == IF Cardinality(Today(p)) >= CoinsCap THEN 0 ELSE 1

AsCredited(p, xp) == IF xp <= LeagueCap THEN xp ELSE LeagueCap
                                 \* variant: the day's earlier battles are forgotten

(* battleLeagueXpToday: what is left of the day's league XP, by the XP of  *)
(* earlier results.                                                        *)
LeagueFor(p, xp) ==
  LET used == FoldFunction(+, 0, [r \in Today(p) |-> r.reward.xp])
      left == IF used >= LeagueCap THEN 0 ELSE LeagueCap - used
  IN  IF xp <= left THEN xp ELSE left

RewardFor(b, p) ==
  [xp |-> XpFor(b), league |-> LeagueFor(p, XpFor(b)), coins |-> Participation(p)]

(* settleWinner and settleDraw: the pot or the stakes, and what each       *)
(* player earns (writeResultAndRewards).                                   *)
Settle(b) ==
  /\ contests[b].status = "playing"
  /\ contests' = [contests EXCEPT ![b].status = "settled", ![b].day = battleDay]
  /\ paidOut' = paidOut \cup
       {[contest |-> b, who |-> p, day |-> battleDay, reward |-> RewardFor(b, p)] : p \in Between(b)}
  /\ \E winners \in {Between(b)} \cup {{p} : p \in Between(b)} :
       purses' = [p \in Player |->
         purses[p] + (IF p \in winners THEN (2 * Stake) \div Cardinality(winners) ELSE 0)
                   + (IF p \in Between(b) THEN Participation(p) ELSE 0)]
  /\ UNCHANGED <<herald, battleDay, rushed>>

Midnight ==
  /\ battleDay < LastDay
  /\ battleDay' = battleDay + 1
  /\ UNCHANGED <<contests, paidOut, purses, herald, rushed>>

Next ==
  \/ \E h \in Herald, p, q \in Player, key \in Key : Challenge(h, p, q, key)
  \/ \E h \in Herald, b \in DOMAIN contests, p \in Player, key \in Key : Rematch(h, b, p, key)
  \/ \E h \in Herald : CheckOther(h) \/ Insert(h)
  \/ \E b \in DOMAIN contests : Accept(b) \/ Decline(b) \/ Lapse(b) \/ Settle(b)
  \/ ExpireStale \/ Midnight

Spec == Init /\ [][Next]_vars
-----------------------------------------------------------------------------
(* The values of the variables.                                            *)
TypeOK ==
  /\ contests \in Seq(Contest) /\ Len(contests) <= MaxBattles
  /\ paidOut \subseteq Paid
  /\ purses \in [Player -> Nat]
  /\ battleDay \in Day /\ rushed \subseteq Player

(* "Already in an active battle" (battles.service.ts:1975): nobody is in   *)
(* two, as challenger or opponent, and a repeated challenge makes no       *)
(* second battle - unless challenges overlapped.                           *)
OneBattleAtATime ==
  \A p \in Player \ rushed :
    /\ Cardinality(OpenFor(p)) <= 1
    /\ \A b, c \in DOMAIN contests :
         (contests[b].from = p /\ contests[c].from = p /\ contests[b].key = contests[c].key) => b = c

(* The caps of a day, over all of a player's battles: participation coins, *)
(* league XP, and battles of a pair that give XP.  They count rows of      *)
(* earlier settlements, so they need OneBattleAtATime.                     *)
DailyCapsHeld ==
  \A p \in Player \ rushed, d \in Day :
    LET mine == {r \in paidOut : r.who = p /\ r.day = d}
    IN  /\ Cardinality({r \in mine : r.reward.coins > 0}) <= CoinsCap
        /\ FoldFunction(+, 0, [r \in mine |-> r.reward.league]) <= LeagueCap
        /\ \A q \in Player \ {p} :
             Cardinality({r \in mine : r.reward.xp > 0 /\ q \in Between(r.contest)}) <= PairCap

(* Stakes change hands and are not made or lost: what all have, what is    *)
(* staked in battles, and what participation added.                        *)
CoinsConserved ==
  FoldFunction(+, 0, purses)
    + 2 * Stake * Cardinality({b \in DOMAIN contests : contests[b].status = "playing"})
  = Purse * Cardinality(Player) + Cardinality({r \in paidOut : r.reward.coins > 0})
=============================================================================
