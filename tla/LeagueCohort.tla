---------------------------- MODULE LeagueCohort ----------------------------
(***************************************************************************)
(* Who plays where: learners are put into a cohort of the season whenever  *)
(* a request or a score event needs one (LeaguesService.ensureAssignment,  *)
(* LeagueCohortService.assignMembership), scored there (ingestQualifiedXp),*)
(* and placed anew when the season is finalized (finalizeSeason, here one  *)
(* transaction; LeagueScore has its steps).                                *)
(*                                                                         *)
(* An assignment is a chain of unlocked statements.  Its last saves the    *)
(* whole state row it began with: what others changed in the row since is  *)
(* set back.  A score event is assigned by the time at which it occurred,  *)
(* which may lie in the season before.                                     *)
(*                                                                         *)
(* Time is counted in halves of a week, of which the first is the day in   *)
(* which a joiner is not late.  One regional bucket; a placement is one of *)
(* two rungs, and which of them a scorer comes to is LeagueLadder's.       *)
(***************************************************************************)
EXTENDS Integers, FiniteSets, Sequences

CONSTANTS
  Learner,
  Clerk,      \* handlers in flight
  Weeks,      \* bound: seasons
  MaxCalls    \* bound: calls made

CohortsAssumption ==
  /\ Learner # {} /\ Weeks \in Nat \ {0} /\ MaxCalls \in Nat

Week == 1..Weeks
Rung == {0, 1}

(* The tables' rows.                                                       *)
Standing   == [membership : Nat, rung : Rung, idle : BOOLEAN, hidden : BOOLEAN]
Status     == {"none", "active", "finalized"}
Group      == [week : Week, rung : Rung, over : BOOLEAN,
               kind : {"active", "late_start", "inactive"}]
Membership == [cohort : Nat \ {0}, who : Learner, scored : {0, 1},
               privacy : {"visible", "hidden", "anonymized"}]
Result     == [week : Week, who : Learner, scored : {0, 1}, rung : Rung]

VARIABLES
  size,       \* places the other learners leave in a cohort
  time,       \* halves of a week since the first season began
  standings,  \* user_league_states; the membership is named by its cohort, 0 if none
  seasons,    \* league_seasons: status of each week
  groups,     \* league_cohorts, in the order in which they were created
  seats,      \* league_memberships
  outcome,    \* league_final_results
  aide,       \* the handlers in flight
  taken,      \* calls made
  apart,      \* learners two of whose handlers overlapped, or one of whose stopped
  swept       \* learners whose season was finalized amid a handler of theirs, or when
              \* they had a seat in the next
vars == <<size, time, standings, seasons, groups, seats, outcome, aide, taken, apart, swept>>

WeekOf(t) == 1 + t \div 2
IsLate(t) == t % 2 = 1

Idle == [at |-> "idle"]

Init ==
  /\ size \in {1, 2}
  /\ time = 0
  /\ standings = [l \in Learner |-> [membership |-> 0, rung |-> 0, idle |-> FALSE, hidden |-> FALSE]]
  /\ seasons = [w \in Week |-> "none"]
  /\ groups = <<>>
  /\ seats = {}
  /\ outcome = {}
  /\ aide = [c \in Clerk |-> Idle]
  /\ taken = 0
  /\ apart = {}
  /\ swept = {}

SeatOf(l, g) == {s \in seats : s.cohort = g /\ s.who = l}
Members(g) == {s \in seats : s.cohort = g}
Seated(l, w) == \E s \in seats : s.who = l /\ groups[s.cohort].week = w
InFlight(l) == {c \in Clerk : aide[c].at # "idle" /\ aide[c].who = l}

Goto(c, at) == aide' = [aide EXCEPT ![c].at = at]
Leave(c) == aide' = [aide EXCEPT ![c] = Idle]
-----------------------------------------------------------------------------
AlwaysAnew(g, when) == FALSE     \* variant: the membership is not looked at

(* The membership the state names will do while its season is active and   *)
(* `now` is not past its end: also for a time before its beginning.        *)
WillDo(g, when) ==
  /\ g # 0
  /\ seasons[groups[g].week] = "active"
  /\ WeekOf(when) <= groups[g].week

First(job, state, when) ==
  IF job \in {"hide", "show"} THEN "privacy"
  ELSE IF ~WillDo(state.membership, when) THEN "place"
  ELSE IF job = "score" THEN "score" ELSE "idle"

(* A call begins: it reads the state's row (ensureState makes a missing    *)
(* one with the values of Init), its membership and that one's season.  A  *)
(* score is assigned by its own time.                                      *)
Begin(c, l, job, when) ==
  /\ aide[c].at = "idle" /\ taken < MaxCalls
  /\ when = time \/ (job = "score" /\ when = time - 1 /\ when >= 0)
  /\ LET state == standings[l]
     IN  aide' = [aide EXCEPT ![c] =
           IF First(job, state, when) = "idle" THEN Idle
           ELSE [at |-> First(job, state, when), who |-> l, job |-> job, when |-> when,
                 state |-> state, cohort |-> state.membership, active |-> TRUE]]
  /\ taken' = taken + 1
  /\ apart' = IF InFlight(l) # {} THEN apart \cup {l} ELSE apart
  /\ UNCHANGED <<size, time, standings, seasons, groups, seats, outcome, swept>>

(* getOrCreateActiveSeason: the season of that time, whatever its status   *)
(* by now.  Of two that create it the unique index refuses the second: it  *)
(* is as if that call had not been made.                                   *)
Opened(week) == [seasons EXCEPT ![week] = IF @ = "none" THEN "active" ELSE @]

(* An idle learner's cohort is an inactive one of the lowest rung, a late  *)
(* joiner's a late one.                                                    *)
GroupFor(state, when) ==
  [week |-> WeekOf(when),
   rung |-> IF state.idle THEN 0 ELSE state.rung,
   kind |-> IF state.idle THEN "inactive"
            ELSE IF IsLate(when) /\ Opened(WeekOf(when))[WeekOf(when)] = "active"
                 THEN "late_start" ELSE "active",
   over |-> FALSE]

HasPlace(g) == Cardinality(Members(g)) < size

OpenCohorts(group) == {g \in DOMAIN groups : groups[g] = group /\ HasPlace(g)}

(* findOpenCohort: the oldest with a place left; a new one if there is     *)
(* none.                                                                   *)
Place(c) ==
  /\ aide[c].at = "place"
  /\ LET group == GroupFor(aide[c].state, aide[c].when)
         open  == OpenCohorts(group)
         g     == IF open = {} THEN Len(groups) + 1
                  ELSE CHOOSE o \in open : \A p \in open : o <= p
     IN  /\ seasons' = Opened(group.week)
         /\ groups' = IF open = {} THEN Append(groups, group) ELSE groups
         /\ aide' = [aide EXCEPT ![c].at = "join", ![c].cohort = g,
                                  ![c].active = (Opened(group.week)[group.week] = "active")]
  /\ UNCHANGED <<size, time, standings, seats, outcome, taken, apart, swept>>

(* A seat in the cohort, or the one the learner has there.                 *)
Join(c) ==
  /\ aide[c].at = "join"
  /\ LET a == aide[c]
     IN  seats' = IF SeatOf(a.who, a.cohort) # {} THEN seats
                  ELSE seats \cup {[cohort |-> a.cohort, who |-> a.who, scored |-> 0,
                         privacy |-> IF a.state.idle THEN "anonymized"
                                     ELSE IF a.state.hidden THEN "hidden" ELSE "visible"]}
  /\ Goto(c, "save")
  /\ UNCHANGED <<size, time, standings, seasons, groups, outcome, taken, apart, swept>>

Placed(c) == IF aide[c].job = "score" THEN Goto(c, "score") ELSE Leave(c)

SaveNothing(c) ==                \* variant: the state is not saved
  /\ aide[c].at = "save"
  /\ Placed(c)
  /\ UNCHANGED <<size, time, standings, seasons, groups, seats, outcome, taken, apart, swept>>

(* statesRepo.save: every column as it was read, with the new membership.  *)
SaveState(c) ==
  /\ aide[c].at = "save"
  /\ standings' = [standings EXCEPT ![aide[c].who] =
                     [aide[c].state EXCEPT !.membership = aide[c].cohort]]
  /\ Placed(c)
  /\ UNCHANGED <<size, time, seasons, groups, seats, outcome, taken, apart, swept>>

CountsAnyway(c) == WeekOf(aide[c].when) = groups[aide[c].cohort].week
                                 \* variant: a season that is over is scored

(* applyQualifiedXp refuses an event outside the window of the season it   *)
(* was given, and a season that was over when it was read.                 *)
Counts(c) ==
  aide[c].active /\ WeekOf(aide[c].when) = groups[aide[c].cohort].week

Score(c) ==
  /\ aide[c].at = "score"
  /\ LET a == aide[c]
     IN  seats' = IF ~Counts(c) THEN seats
                  ELSE {IF s.cohort = a.cohort /\ s.who = a.who
                        THEN [s EXCEPT !.scored = 1] ELSE s : s \in seats}
  /\ Leave(c)
  /\ UNCHANGED <<size, time, standings, seasons, groups, outcome, taken, apart, swept>>

(* setPrivacy: the state, then the membership it names.                    *)
SetPrivacy(c) ==
  /\ aide[c].at = "privacy"
  /\ LET a == aide[c]
     IN  standings' = [standings EXCEPT ![a.who] =
                         [a.state EXCEPT !.hidden = (a.job = "hide")]]
  /\ Goto(c, "shade")
  /\ UNCHANGED <<size, time, seasons, groups, seats, outcome, taken, apart, swept>>

KeepShade(c) ==                  \* variant: the membership keeps its privacy
  /\ aide[c].at = "shade"
  /\ Leave(c)
  /\ UNCHANGED <<size, time, standings, seasons, groups, seats, outcome, taken, apart, swept>>

ShadeMembership(c) ==
  /\ aide[c].at = "shade"
  /\ LET a == aide[c]
     IN  seats' = {IF s.cohort = a.state.membership /\ s.who = a.who
                   THEN [s EXCEPT !.privacy = IF a.job = "hide" THEN "hidden" ELSE "visible"]
                   ELSE s : s \in seats}
  /\ Leave(c)
  /\ UNCHANGED <<size, time, standings, seasons, groups, outcome, taken, apart, swept>>

(* The process stops between two statements.                               *)
Stop(c) ==
  /\ aide[c].at # "idle"
  /\ apart' = apart \cup {aide[c].who}
  /\ Leave(c)
  /\ UNCHANGED <<size, time, standings, seasons, groups, seats, outcome, taken, swept>>
-----------------------------------------------------------------------------
(* What a season leaves a learner: the first seat that is listed counts.   *)
Results(w) ==
  LET playing == {s \in seats : groups[s.cohort].week = w}
  IN  {s \in playing : \A t \in playing : t.who = s.who => s.cohort <= t.cohort}

StaysOnRung(state, s, rung) ==   \* variant: the result is not carried over
  [state EXCEPT !.membership = 0, !.idle = (s.scored = 0)]

After(state, s, rung) ==
  [state EXCEPT !.membership = 0, !.rung = rung, !.idle = (s.scored = 0)]

Due(w) == seasons[w] = "active" /\ WeekOf(time) > w

(* finalizeSeason, after the end.  Who scored is placed on some rung; who  *)
(* did not keeps the cohort's and is idle from now on.                     *)
Finalize(w) ==
  /\ Due(w)
  /\ seasons' = [seasons EXCEPT ![w] = "finalized"]
  /\ groups' = [g \in 1..Len(groups) |->
                  IF groups[g].week = w THEN [groups[g] EXCEPT !.over = TRUE] ELSE groups[g]]
  /\ \E next \in [Results(w) -> Rung] :
       /\ \A s \in Results(w) : s.scored = 0 => next[s] = groups[s.cohort].rung
       /\ outcome' = outcome \cup
            {[week |-> w, who |-> s.who, scored |-> s.scored, rung |-> next[s]] : s \in Results(w)}
       /\ standings' = [l \in Learner |->
            IF \E s \in Results(w) : s.who = l
            THEN LET s == CHOOSE s \in Results(w) : s.who = l
                 IN  After(standings[l], s, next[s])
            ELSE standings[l]]
  /\ swept' = swept \cup {l \in Learner : InFlight(l) # {} \/ Seated(l, w + 1)}
  /\ UNCHANGED <<size, time, seats, aide, taken, apart>>

Pass ==
  /\ time < 2 * Weeks - 1
  /\ time' = time + 1
  /\ \A c \in Clerk : aide[c].at = "idle"   \* no call takes half a week
  /\ UNCHANGED <<size, standings, seasons, groups, seats, outcome, aide, taken, apart, swept>>

Work(c) ==
  \/ Place(c) \/ Join(c) \/ SaveState(c) \/ Score(c)
  \/ SetPrivacy(c) \/ ShadeMembership(c)

Next ==
  \/ \E c \in Clerk, l \in Learner, job \in {"look", "score", "hide", "show"} :
       \E when \in {time, time - 1} : Begin(c, l, job, when)
  \/ \E c \in Clerk : Work(c) \/ Stop(c)
  \/ \E w \in Week : Finalize(w)
  \/ Pass

Spec == Init /\ [][Next]_vars
-----------------------------------------------------------------------------
(* The values of the variables.                                            *)
TypeOK ==
  /\ size \in {1, 2} /\ time \in 0..(2 * Weeks - 1)
  /\ standings \in [Learner -> Standing]
  /\ \A l \in Learner : standings[l].membership \in {0} \cup DOMAIN groups
  /\ seasons \in [Week -> Status] /\ groups \in Seq(Group)
  /\ seats \subseteq Membership /\ \A s \in seats : s.cohort \in DOMAIN groups
  /\ outcome \subseteq Result
  /\ taken \in 0..MaxCalls

(* "Ensure user has active season membership" (leagues.service.ts:101):    *)
(* while a season lasts a learner plays in one cohort of it, though        *)
(* cohorts fill up, joiners become late and every request assigns anew -   *)
(* unless the learner's handlers overlapped or stopped (or see `swept`).   *)
OneCohort ==
  \A l \in Learner \ (apart \cup swept), w \in Week :
    seasons[w] = "active" =>
      Cardinality({s \in seats : s.who = l /\ groups[s.cohort].week = w}) <= 1

(* Whoever has hidden is shown by name to nobody in the cohort of the week *)
(* (setPrivacy, assignMembership).                                         *)
HiddenIsHidden ==
  \A l \in Learner \ (apart \cup swept) :
    (standings[l].hidden /\ InFlight(l) = {}) =>
      \A s \in seats :
        (s.who = l /\ groups[s.cohort].week = WeekOf(time)) => s.privacy # "visible"

(* A learner's placement is what the last finalized season came to, and    *)
(* only who scored in it is not idle (finalizeSeason against every save of *)
(* the state's row).                                                       *)
PlacedByResult ==
  \A l \in Learner \ swept, r \in outcome :
    (r.who = l /\ \A q \in outcome : q.who = l => q.week <= r.week) =>
      standings[l].rung = r.rung /\ standings[l].idle = (r.scored = 0)

(* What was scored in a season is in its results.                          *)
ScoresCount ==
  \A s \in seats :
    (s.who \notin apart \cup swept /\ s.scored = 1 /\ seasons[groups[s.cohort].week] = "finalized") =>
      \E r \in outcome : r.week = groups[s.cohort].week /\ r.who = s.who /\ r.scored = 1
=============================================================================
