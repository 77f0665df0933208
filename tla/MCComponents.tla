--------------------------- MODULE MCComponents ---------------------------
(***************************************************************************)
(* The components that share no state with each other, one small instance  *)
(* of each. A behaviour is one of the component it has chosen, so the      *)
(* components take turns with the same variables v1, v2, ...: INSTANCE     *)
(* gives them their names. What two components promise alike is one        *)
(* property here, whose parts are stated in their modules.                 *)
(***************************************************************************)
EXTENDS Integers, FiniteSets, Sequences, TLC

CONSTANTS
  c1, c2,        \* two requests, workers or devices: they are symmetric
  u1, u2, u3,    \* users
  i1, i2,        \* invitees
  k1, k2, p1,    \* calls and idempotency keys
  Only           \* the components to explore

VARIABLES
  which,         \* the component of this behaviour
  v1, v2, v3, v4, v5, v6, v7, v8, v9, v10, v11, v12, v13

Slot == {c1, c2}
Interchangeable == Permutations(Slot)

(* Three ranks, of which the last asks for lessons and a seal.             *)
Gates == <<[xp |-> 0, lesson |-> 0, seal |-> 0],
           [xp |-> 1, lesson |-> 1, seal |-> 0],
           [xp |-> 2, lesson |-> 2, seal |-> 1]>>

(* The catalogue of the pipeline: the second skill builds on the third, the *)
(* fourth on the first; the second unit teaches two skills.                 *)
SkillNeeds == <<<<>>, <<3>>, <<>>, <<1>>>>
UnitCard(teaches, needs, minutes, role, serves, suits) ==
  [teaches |-> teaches, needs |-> needs, minutes |-> minutes, role |-> role, serves |-> serves, suits |-> suits]
UnitCards == <<UnitCard(<<1>>, {}, 30, "foundation", {1}, TRUE),
               UnitCard(<<1, 2>>, {}, 20, "checkpoint", {}, FALSE),
               UnitCard(<<3>>, {}, 10, "refresher", {}, TRUE),
               UnitCard(<<2>>, {3}, 20, "proof", {2}, TRUE),
               UnitCard(<<4>>, {1}, 10, "foundation", {}, TRUE)>>
Estimated(verified, provisional, sure, exposed, pending) ==
  [verified |-> verified, provisional |-> provisional, sure |-> sure, exposed |-> exposed, pending |-> pending]
Estimates == {Estimated(0, 3, TRUE, FALSE, FALSE), Estimated(0, 3, TRUE, TRUE, FALSE),
              Estimated(1, 2, FALSE, TRUE, TRUE)}

(* The unit catalogue: two skills and a unit to begin with; a document     *)
(* turns the prerequisite round and brings the other unit.                 *)
CatalogSkill(id, needs) == [id |-> id, needs |-> needs]
CatalogUnit(id, teaches, domain) == [id |-> id, teaches |-> teaches, domain |-> domain]
SeedDocument == [skills |-> <<CatalogSkill(1, {}), CatalogSkill(2, {})>>, units |-> {CatalogUnit(1, {1}, k1)}]
NewDocument == [skills |-> <<CatalogSkill(1, {2}), CatalogSkill(2, {})>>, units |-> {CatalogUnit(2, {1}, k2)}]

(* Packs for the skill graph: one stack of two skills, the same with the   *)
(* other skill needed, and a stack that builds on it.                      *)
GraphPack(stack, needs, required) == [stack |-> stack, needs |-> needs, role |-> k1, required |-> required]
GraphPacks == {GraphPack("s", ("a" :> {}) @@ ("b" :> {<<"s", "a">>}), TRUE),
               GraphPack("s", "a" :> {<<"s", "b">>}, FALSE),
               GraphPack("t", "a" :> {<<"s", "a">>}, FALSE)}

(* Quiz units: the second teaches both skills, the third has a question    *)
(* without a right option.                                                 *)
QuizUnit(skills, level, questions, broken) ==
  [skills |-> skills, level |-> level, questions |-> questions, broken |-> broken]
QuizUnits == <<QuizUnit(<<1>>, 1, 2, {}), QuizUnit(<<2, 1>>, 2, 2, {}), QuizUnit(<<2>>, 1, 3, {1})>>

(* What lessons teach of skills: one a part of each, the other of the first. *)
LessonParts == <<<<<<"a", {1}>>, <<"b", {1}>>>>, <<<<"a", {1}>>>>>>

S == INSTANCE Streak WITH MaxDay <- 6, MaxLag <- 1, MaxFreezes <- 1,
       ClientKey <- {k1}, RestoreDays <- {1, 3}, MonthLength <- 5,
       today <- v1, status <- v2, streak <- v3, longest <- v4, last <- v5, protected <- v6,
       recovery <- v7, freezes <- v8, overtaken <- v9, bought <- v10, pending <- v11, paid <- v12,
       done <- v13
R == INSTANCE Referral WITH Invitee <- {i1, i2}, Call <- Slot, Milestone <- {2},
       Hasty <- {i2},
       standing <- v1, facts <- v2, over <- v3, granted <- v4, milestones <- v5, call <- v6,
       qualified <- v7, regressed <- v8
W == INSTANCE LuckyWheel WITH WheelDay <- 2, MaxSpins <- 2, RespinKey <- {p1},
       Client <- Slot,
       wday <- v1, row <- v2, request <- v3, spun <- v4, respun <- v5, badge <- v6, rights <- v7,
       awards <- v8, won <- v9
K == INSTANCE Calls WITH Person <- {u1, u2, u3}, CallId <- {k1, k2}, Caller <- k1 :> u1
       @@ k2 :> u3, Callee <- k1 :> u2 @@ k2 :> u2, Handler <- Slot, Roaming <- {u1, u2},
       Beyond <- FALSE,
       state <- v1, stale <- v2, inCall <- v3, timer <- v4, grace <- v5, hand <- v6, marred <- v7,
       torn <- v8
H == INSTANCE Chat WITH User <- {u1, u2}, Text <- {1, 2}, Sender <- <<u1, u1>>, Tick <- 2,
       Handler <- Slot, MaxRequests <- 3,
       exists <- v1, ticks <- v2, post <- v3, born <- v4, deleted <- v5, lastMessage <- v6,
       member <- v7, doing <- v8, made <- v9, seen <- v10, late <- v11, crossed <- v12
Y == INSTANCE GroupChat WITH User <- {u1, u2, u3}, Founder <- u1, Friends <- {{u1, u2},
       {u1, u3}}, Guarded <- {}, Companions <- {}, Handler <- {k1}, Device <- Slot,
       MaxAsks <- 2, MaxPosts <- 0,
       member <- v1, mark <- v2, posts <- v3, blocked <- v4, badge <- v5, doing <- v6, asks <- v7,
       raced <- v8, trespass <- v9, wrap <- v10, put <- v11, mixed <- v12
G == INSTANCE SocialGraph WITH Pair <- {u1, u2}, Ask <- {1, 2}, Hand <- Slot, MaxCalls <- 3,
       asked <- v1, expired <- v2, edge <- v3, follows <- v4, blocks <- v5, counter <- v6,
       hand <- v7, calls <- v8, slipped <- v9, mirrored <- v10, overtaken <- v11, broken <- v12
T == INSTANCE TrackProgress WITH Length <- 3, Required <- {1, 2}, Exam <- {1, 2}, Worker <- Slot,
       lessonStatus <- v1, progress <- v2, results <- v3, examDone <- v4, tree <- v5, look <- v6,
       work <- v7, roadmap <- v8, graduation <- v9, misled <- v10, replayed <- v11, reopened <- v12,
       lost <- v13
P == INSTANCE RoadmapPlans WITH MaxPlans <- 2, MaxJobs <- 1, Followed <- {0},
       MaxAttempts <- 2, Worker <- Slot,
       plan <- v1, jobs <- v2, queue <- v3, hands <- v4, overlapped <- v5, stopped <- v6,
       finished <- v7, copy <- v8, resaved <- v9
A == INSTANCE Achievements WITH Kind <- <<"lesson", "seal", "lesson", "seal">>,
       Gate <- Gates, Target <- 2, Consumer <- Slot,
       event <- v1, counted <- v2, level <- v3, rankPaid <- v4, bag <- v5, owned <- v6,
       badgePaid <- v7, poll <- v8, swallowed <- v9, crowded <- v10, died <- v11
D == INSTANCE StudyPath WITH PathId <- {k1, k2}, Episode <- {i1, i2}, Units <- 2,
       Desk <- Slot, MaxVisits <- 4, Begun <- {k1},
       file <- v1, partOf <- v2, desk <- v3, visits <- v4, said <- v5, readUnits <- v6, readIn <- v7,
       met <- v8, twice <- v9, unswept <- v10
C == INSTANCE CourseTiming WITH Lesson <- {p1}, MaxVersion <- 2, Clerk <- Slot,
       MaxAsks <- 2,
       schedule <- v1, slot <- v2, reminder <- v3, learned <- v4, clerk <- v5, asks <- v6,
       shifted <- v7, tangled <- v8, failed <- v9
N == INSTANCE Notifications WITH Key <- {k1, k2}, Postman <- Slot, PushCap <- 1,
       MaxNotices <- 2,
       prefs <- v1, wished <- v2, night <- v3, notice <- v4, pushed <- v5, pushedToday <- v6,
       sent <- v7, deferred <- v8, wanted <- v9, postman <- v10, notices <- v11, raced <- v12,
       cut <- v13
I == INSTANCE IntakeChat WITH Domain <- {k1, k2}, Skill <- {p1}, Plain <- <<"hours">>,
       Phone <- Slot, MaxTurns <- 3,
       catalog <- v1, listed <- v2, interview <- v3, goals <- v4, profiles <- v5, talk <- v6,
       turns <- v7, editions <- v8, chosen <- v9, jumbled <- v10
L == INSTANCE LeagueCohort WITH Learner <- {u1}, Clerk <- {k1}, Weeks <- 2, MaxCalls <- 3,
       size <- v1, time <- v2, standings <- v3, seasons <- v4, groups <- v5, seats <- v6,
       outcome <- v7, aide <- v8, taken <- v9, apart <- v10, swept <- v11
U == INSTANCE Accounts WITH Device <- {u1, u2}, Provider <- {k1, k2}, MaxTries <- 1,
       Servant <- Slot, MaxDeeds <- 2,
       user <- v1, links <- v2, tokens <- v3, codes <- v4, paper <- v5, holds <- v6, servant <- v7,
       deeds <- v8, ended <- v9, blurred <- v10, tornLines <- v11
B == INSTANCE BattleLobby WITH Player <- {u1, u2, u3}, Key <- {k1}, Herald <- Slot,
       Stake <- 1, Purse <- 1, PairCap <- 1, CoinsCap <- 1, LeagueCap <- 3, Xp <- 2, MaxBattles <- 2,
       LastDay <- 1,
       contests <- v1, paidOut <- v2, purses <- v3, herald <- v4, battleDay <- v5, rushed <- v6
F == INSTANCE SystemFlags WITH Server <- {k1, k2}, Clerk <- Slot, Ttl <- 1, LastTick <- 2,
       MaxChanges <- 2,
       flag <- v1, copy <- v2, tick <- v3, clerks <- v4, changes <- v5, changedAt <- v6,
       dropped <- v7
M == INSTANCE RoadmapPipeline WITH Skill <- 1..4, Needs <- SkillNeeds, Field <- <<"a",
       "b", "b", "a">>, Required <- <<2, 1>>, Optional <- <<4>>, Unit <- 1..5,
       Card <- UnitCards, Target <- 3, Estimate <- Estimates, Claims <- {{}, {1}},
       TopUps <- {{}, {2}}, Budget <- {40, 50, 90}, Score <- {<<1, 2, 3, 4, 5>>, <<5, 4,
       3, 2, 1>>}, DraftSize <- 2,
       learner <- v1, stage <- v2, gap <- v3, tries <- v4, packed <- v5, plan <- v6
Q == INSTANCE UnitsCatalog WITH Skill <- {1, 2}, Unit <- {1, 2}, Domain <- {k1, k2},
       Seed <- SeedDocument, Documents <- {NewDocument}, SkillEdits <- {CatalogSkill(1,
       {2}), CatalogSkill(2, {1})}, UnitEdits <- {CatalogUnit(1, {2}, k2)},
       Clerk <- Slot, MaxEdits <- 2,
       skills <- v1, units <- v2, recipes <- v3, listed <- v4, clerk <- v5, edits <- v6,
       unseen <- v7, synced <- v8
X == INSTANCE SkillGraph WITH StackSlug <- {"s", "t"}, SkillSlug <- {"a", "b"},
       LessonSlug <- {"l"}, Role <- {k1}, Packs <- GraphPacks, Clerk <- Slot, MaxEdits <- 3,
       stacks <- v1, nodes <- v2, lessons <- v3, recipes <- v4, removed <- v5, clerk <- v6,
       edits <- v7, crossed <- v8
J == INSTANCE GroupChat WITH User <- {u1, u2, u3}, Founder <- u1, Friends <- {{u1, u2}},
       Guarded <- {}, Companions <- {{u1, u3}}, Handler <- Slot, Device <- {}, MaxAsks <- 3,
       MaxPosts <- 2,
       member <- v1, mark <- v2, posts <- v3, blocked <- v4, badge <- v5, doing <- v6, asks <- v7,
       raced <- v8, trespass <- v9, wrap <- v10, put <- v11, mixed <- v12
O == INSTANCE ChatRooms WITH User <- {u1, u2}, Server <- {k1, k2}, Socket <- 1..3,
       Owner <- <<u1, u1, u2>>, Home <- <<k1, k2, k1>>, Muted <- {}, MaxMoves <- 3,
       member <- v1, open <- v2, inRoom <- v3, steps <- v4, shown <- v5, message <- v6, got <- v7,
       delivered <- v8, moves <- v9, moved <- v10, strayed <- v11, broken <- v12
V == INSTANCE LessonPlay WITH Question <- {1, 2}, Correct <- <<1, 2>>, PassScore <- 50,
       Block <- {k1, k2}, Kind <- k1 :> "sandbox" @@ k2 :> "debate", Right <- k1 :> 1 @@
       k2 :> 0, Value <- {1, 2}, Device <- Slot, MaxCalls <- 3,
       lesson <- v1, progress <- v2, outdated <- v3, device <- v4, painter <- v5, answered <- v6,
       graded <- v7, reported <- v8, calls <- v9, crossed <- v10, reset <- v11, cut <- v12
E == INSTANCE BattleQuestions WITH Unit <- QuizUnits, Topic <- {"a", "b"}, Matches <- [a
       |-> {1}, b |-> {2}], Count <- 2, MinFactor <- 2, Window <- 1, Mix <- {<<1>>, <<1, 2,
       3, 4>>}, MaxBattles <- 2, MaxSwitches <- 1,
       active <- v1, battle <- v2, asked <- v3, switches <- v4, changed <- v5, pool <- v6,
       repeated <- v7
Z == INSTANCE ContentVersions WITH Editor <- Slot, Lesson <- {k1}, MaxVersions <- 2,
       MaxDeeds <- 4,
       version <- v1, template <- v2, lesson <- v3, editor <- v4, audit <- v5, deeds <- v6,
       overlapped <- v7, stopped <- v8, rejected <- v9
QF == INSTANCE QuestionnaireForms WITH Request <- Slot, Domain <- {1}, Role <- 2,
       MaxVersion <- 2, MaxDeeds <- 2,
       forms <- v1, cache <- v2, domains <- v3, role <- v4, request <- v5, deeds <- v6,
       overlapped <- v7, stopped <- v8, missed <- v9, trimmed <- v10, chosen <- v11,
       reseeded <- v12
SE == INSTANCE SkillEvidence WITH Skill <- {"a", "b"}, Lesson <- {1, 2},
       Teaches <- LessonParts, Checkpoint <- {2}, Serves <- <<0, 2>>, Recorder <- Slot,
       Claims <- {[stage |-> 1, skills |-> "a" :> 2]}, Target <- 3, MaxVersions <- 2,
       MaxReports <- 2,
       profile <- v1, recorder <- v2, outcome <- v3, latest <- v4, claim <- v5, proof <- v6,
       reports <- v7, overlapped <- v8, stopped <- v9, mixed <- v10
LP == INSTANCE LearnerProfile WITH Skill <- {"a", "b"},
       Frequencies <- {"work_regularly"}, Calibrations <- {"starting", "very"},
       Targets <- {"build_advanced", "job_ready"}, Sessions <- {15, 60, 90, 240},
       DayCounts <- {0, 1, 2, 7}, Role <- {k1, k2},
       answers <- v1

ASSUME S!StreakAssumption /\ R!ReferralAssumption /\ W!WheelAssumption
ASSUME K!CallsAssumption /\ H!ChatAssumption /\ Y!GroupAssumption
ASSUME G!SocialAssumption /\ T!TrackAssumption /\ P!PlansAssumption
ASSUME A!AchievementsAssumption /\ D!PathAssumption /\ C!TimingAssumption
ASSUME N!NoticesAssumption /\ I!IntakeAssumption /\ L!CohortsAssumption
ASSUME U!AccountsAssumption /\ B!LobbyAssumption /\ F!FlagsAssumption
ASSUME M!PipelineAssumption /\ Q!CatalogAssumption /\ X!GraphAssumption
ASSUME J!GroupAssumption /\ O!RoomsAssumption /\ V!PlayAssumption
ASSUME E!QuestionsAssumption /\ Z!VersionsAssumption /\ QF!FormsAssumption
ASSUME SE!EvidenceAssumption /\ LP!ProfileAssumption
-----------------------------------------------------------------------------
(* The variables after the n-th are unused by a component that has n.      *)
Unused(n) ==
  /\ IF n < 2 THEN v2 = 0 ELSE TRUE
  /\ IF n < 3 THEN v3 = 0 ELSE TRUE
  /\ IF n < 4 THEN v4 = 0 ELSE TRUE
  /\ IF n < 5 THEN v5 = 0 ELSE TRUE
  /\ IF n < 6 THEN v6 = 0 ELSE TRUE
  /\ IF n < 7 THEN v7 = 0 ELSE TRUE
  /\ IF n < 8 THEN v8 = 0 ELSE TRUE
  /\ IF n < 9 THEN v9 = 0 ELSE TRUE
  /\ IF n < 10 THEN v10 = 0 ELSE TRUE
  /\ IF n < 11 THEN v11 = 0 ELSE TRUE
  /\ IF n < 12 THEN v12 = 0 ELSE TRUE
  /\ IF n < 13 THEN v13 = 0 ELSE TRUE

StayUnused(n) ==
  /\ IF n < 2 THEN UNCHANGED v2 ELSE TRUE
  /\ IF n < 3 THEN UNCHANGED v3 ELSE TRUE
  /\ IF n < 4 THEN UNCHANGED v4 ELSE TRUE
  /\ IF n < 5 THEN UNCHANGED v5 ELSE TRUE
  /\ IF n < 6 THEN UNCHANGED v6 ELSE TRUE
  /\ IF n < 7 THEN UNCHANGED v7 ELSE TRUE
  /\ IF n < 8 THEN UNCHANGED v8 ELSE TRUE
  /\ IF n < 9 THEN UNCHANGED v9 ELSE TRUE
  /\ IF n < 10 THEN UNCHANGED v10 ELSE TRUE
  /\ IF n < 11 THEN UNCHANGED v11 ELSE TRUE
  /\ IF n < 12 THEN UNCHANGED v12 ELSE TRUE
  /\ IF n < 13 THEN UNCHANGED v13 ELSE TRUE

Init ==
  /\ which \in Only
  /\ \/ which = "streak"   /\ S!Init /\ Unused(13)
     \/ which = "referral" /\ R!Init /\ Unused(8)
     \/ which = "wheel"    /\ W!Init /\ Unused(9)
     \/ which = "calls"    /\ K!Init /\ Unused(8)
     \/ which = "chat"     /\ H!Init /\ Unused(12)
     \/ which = "keys"     /\ Y!Init /\ Unused(12)
     \/ which = "social"   /\ G!Init /\ Unused(12)
     \/ which = "track"    /\ T!Init /\ Unused(13)
     \/ which = "plans"    /\ P!Init /\ Unused(9)
     \/ which = "achieve"  /\ A!Init /\ Unused(11)
     \/ which = "path"     /\ D!Init /\ Unused(10)
     \/ which = "timing"   /\ C!Init /\ Unused(9)
     \/ which = "notices"  /\ N!Init /\ Unused(13)
     \/ which = "intake"   /\ I!Init /\ Unused(10)
     \/ which = "cohorts"  /\ L!Init /\ Unused(11)
     \/ which = "accounts" /\ U!Init /\ Unused(11)
     \/ which = "lobby"    /\ B!Init /\ Unused(6)
     \/ which = "flags"    /\ F!Init /\ Unused(7)
     \/ which = "pipeline" /\ M!Init /\ Unused(6)
     \/ which = "catalog"  /\ Q!Init /\ Unused(8)
     \/ which = "graph"    /\ X!Init /\ Unused(8)
     \/ which = "group"    /\ J!Init /\ Unused(12)
     \/ which = "rooms"    /\ O!Init /\ Unused(12)
     \/ which = "play"     /\ V!Init /\ Unused(12)
     \/ which = "questions" /\ E!Init /\ Unused(7)
     \/ which = "versions" /\ Z!Init /\ Unused(9)
     \/ which = "forms"    /\ QF!Init /\ Unused(12)
     \/ which = "evidence" /\ SE!Init /\ Unused(10)
     \/ which = "profile"  /\ LP!Init /\ Unused(1)

Next ==
  /\ UNCHANGED which
  /\ \/ which = "streak"   /\ S!Next /\ StayUnused(13)
     \/ which = "referral" /\ R!Next /\ StayUnused(8)
     \/ which = "wheel"    /\ W!Next /\ StayUnused(9)
     \/ which = "calls"    /\ K!Next /\ StayUnused(8)
     \/ which = "chat"     /\ H!Next /\ StayUnused(12)
     \/ which = "keys"     /\ Y!Next /\ StayUnused(12)
     \/ which = "social"   /\ G!Next /\ StayUnused(12)
     \/ which = "track"    /\ T!Next /\ StayUnused(13)
     \/ which = "plans"    /\ P!Next /\ StayUnused(9)
     \/ which = "achieve"  /\ A!Next /\ StayUnused(11)
     \/ which = "path"     /\ D!Next /\ StayUnused(10)
     \/ which = "timing"   /\ C!Next /\ StayUnused(9)
     \/ which = "notices"  /\ N!Next /\ StayUnused(13)
     \/ which = "intake"   /\ I!Next /\ StayUnused(10)
     \/ which = "cohorts"  /\ L!Next /\ StayUnused(11)
     \/ which = "accounts" /\ U!Next /\ StayUnused(11)
     \/ which = "lobby"    /\ B!Next /\ StayUnused(6)
     \/ which = "flags"    /\ F!Next /\ StayUnused(7)
     \/ which = "pipeline" /\ M!Next /\ StayUnused(6)
     \/ which = "catalog"  /\ Q!Next /\ StayUnused(8)
     \/ which = "graph"    /\ X!Next /\ StayUnused(8)
     \/ which = "group"    /\ J!Next /\ StayUnused(12)
     \/ which = "rooms"    /\ O!Next /\ StayUnused(12)
     \/ which = "play"     /\ V!Next /\ StayUnused(12)
     \/ which = "questions" /\ E!Next /\ StayUnused(7)
     \/ which = "versions" /\ Z!Next /\ StayUnused(9)
     \/ which = "forms"    /\ QF!Next /\ StayUnused(12)
     \/ which = "evidence" /\ SE!Next /\ StayUnused(10)
     \/ which = "profile"  /\ LP!Next /\ StayUnused(1)

vars == <<which, v1, v2, v3, v4, v5, v6, v7, v8, v9, v10, v11, v12, v13>>

Spec == Init /\ [][Next]_vars
-----------------------------------------------------------------------------
TypeOK ==
  /\ which = "streak"   => S!TypeOK
  /\ which = "referral" => R!TypeOK
  /\ which = "wheel"    => W!TypeOK
  /\ which = "calls"    => K!TypeOK
  /\ which = "chat"     => H!TypeOK
  /\ which = "keys"     => Y!TypeOK
  /\ which = "social"   => G!TypeOK
  /\ which = "track"    => T!TypeOK
  /\ which = "plans"    => P!TypeOK
  /\ which = "achieve"  => A!TypeOK
  /\ which = "path"     => D!TypeOK
  /\ which = "timing"   => C!TypeOK
  /\ which = "notices"  => N!TypeOK
  /\ which = "intake"   => I!TypeOK
  /\ which = "cohorts"  => L!TypeOK
  /\ which = "accounts" => U!TypeOK
  /\ which = "lobby"    => B!TypeOK
  /\ which = "flags"    => F!TypeOK
  /\ which = "pipeline" => M!TypeOK
  /\ which = "catalog"  => Q!TypeOK
  /\ which = "graph"    => X!TypeOK
  /\ which = "group"    => J!TypeOK
  /\ which = "rooms"    => O!TypeOK
  /\ which = "play"     => V!TypeOK
  /\ which = "questions" => E!TypeOK
  /\ which = "versions" => Z!TypeOK
  /\ which = "forms"    => QF!TypeOK
  /\ which = "evidence" => SE!TypeOK
  /\ which = "profile"  => LP!TypeOK

(* What is counted is what was done: the streak's days and restores, the   *)
(* units of a co-roadmap, the pushes of a day, what battles pay            *)
(* (closeOneUser, qualifyInTx and restore of streak.service.ts;            *)
(* advancePathStackUnit; pushCapReached); the answers of a lesson and the  *)
(* grades of its blocks; the questions of a battle; a version is worded    *)
(* once; what a lesson shows of a skill; a learner who is not tested has   *)
(* claimed little.                                                         *)
CountedAsDone ==
  /\ which = "streak"   => S!StreakEarned /\ S!EveryDayCounts /\ S!ProtectedBounded
  /\ which = "path"     => D!UnitsAreRead
  /\ which = "notices"  => N!PushIsAccountedFor
  /\ which = "lobby"    => B!DailyCapsHeld /\ B!CoinsConserved
  /\ which = "play"     => V!AnswersAreKept /\ V!BlocksGradedOnce
  /\ which = "questions" => E!SetIsFair
  /\ which = "forms"    => QF!WordedOnce
  /\ which = "evidence" => SE!LessonsCountOnce
  /\ which = "profile"  => LP!UntestedIsSafe

(* What was reached is not taken back by a handler that began earlier: a   *)
(* covered day, what was read, left or deleted in a chat, a finished       *)
(* roadmap, a co-roadmap that ended, a completed slot, a hidden            *)
(* notification, the answers of the interview, a verified address; and no  *)
(* reminder comes for what is settled; an admin's setting; a lesson that   *)
(* is open or completed; a retired version; the stages a learner has       *)
(* reached; nor is a stage for claiming more, or an aim made less feasible *)
(* by more time.                                                           *)
NothingUndone ==
  [][/\ which = "streak"   => S!StaysCovered
     /\ which = "chat"     => H!UndoesNothing
     /\ which = "plans"    => P!StaysFinished
     /\ which = "path"     => D!StaysOver
     /\ which = "timing"   => C!RemindsOfOpenSlots /\ C!StaysDone
     /\ which = "notices"  => N!StaysHidden
     /\ which = "intake"   => I!AnswersKept
     /\ which = "accounts" => U!RowKept
     /\ which = "flags"    => F!SettingStays
     /\ which = "play"     => V!CompletedWhenPassed /\ V!LessonStaysOpen
     /\ which = "versions" => Z!StaysRetired
     /\ which = "evidence" => SE!NothingTakenBack
     /\ which = "profile"  => LP!MoreIsMore]_vars

(* What there may be only one of, or so much of, at a time: a call of a    *)
(* user, a key of a conversation, a roadmap of a goal, the daily caps of   *)
(* the wheel, a co-roadmap and its room, a schedule of a roadmap, the push *)
(* of a notification, a user's profile and goal, a learner's cohort, a     *)
(* session's token, an open code, a player's battle; a lesson of a         *)
(* roadmap, its minutes; a question to the same players; a version of the  *)
(* questionnaire active.                                                   *)
OneAtATime ==
  /\ which = "calls"    => K!OneCallAtATime
  /\ which = "keys"     => Y!OneKey
  /\ which = "plans"    => P!OnePlanToFollow
  /\ which = "wheel"    => W!CapsHeld
  /\ which = "path"     => D!OneOpen
  /\ which = "timing"   => C!OneActive
  /\ which = "notices"  => N!PushedOnce
  /\ which = "intake"   => I!OneProfile
  /\ which = "cohorts"  => L!OneCohort
  /\ which = "accounts" => U!OneTokenEach /\ U!OneOpenCode
  /\ which = "lobby"    => B!OneBattleAtATime
  /\ which = "pipeline" => M!EachLessonOnce /\ M!TimeIsKept
  /\ which = "questions" => E!NothingAskedAgain
  /\ which = "forms"    => QF!OneFormActive

(* What others are shown is what there is: unread messages, friends and    *)
(* followers, nothing between users of whom one blocks the other, nothing  *)
(* that was said in a room that is over, the preferences that were set and *)
(* the ways to sign in; the value of a flag that an admin has set; what a  *)
(* lesson builds on is shown before it; skills that can be put in an       *)
(* order; prerequisites and recipes that name skills which are there; the  *)
(* unread messages of a group; who is online, and messages to members      *)
(* only; no answers in a lesson's body; topics and challenges that can be  *)
(* played; a template that points to the version which is published; the   *)
(* questionnaire that is active; the stage of a profile and what is        *)
(* verified; a plan that is shown as feasible can be done.                 *)
ShownAsIs ==
  /\ which = "chat"     => H!UnreadIsHonest
  /\ which = "social"   => G!CountersRight /\ G!BlockedApart
  /\ which = "path"     => D!ChatIsWiped
  /\ which = "notices"  => N!PreferencesKept
  /\ which = "cohorts"  => L!HiddenIsHidden
  /\ which = "accounts" => U!LinksAreWays
  /\ which = "flags"    => F!TakesHold
  /\ which = "pipeline" => M!PrerequisitesFirst
  /\ which = "catalog"  => Q!SkillsCanBeSorted
  /\ which = "graph"    => X!NamesResolve
  /\ which = "group"    => J!BadgeIsHonest
  /\ which = "rooms"    => O!OnlyMembersHear /\ O!OnlineIsConnected
  /\ which = "play"     => V!NothingGivenAway
  /\ which = "questions" => E!OffersArePlayable /\ E!PromiseIsKept
  /\ which = "versions" => Z!TemplateIsTrue /\ Z!PlayedWasReviewed
  /\ which = "forms"    => QF!SchemaIsCurrent
  /\ which = "evidence" => SE!ProfileFollows /\ SE!VerifiedIsProven
  /\ which = "profile"  => LP!PreviewIsTrue


(* Referral rewards and wheel spins implement EarnedOnce: each is earned   *)
(* before it is paid, and paid at most once.                               *)
ReferralRewards == INSTANCE EarnedOnce WITH
  Key <- R!Reward,
  earned <- IF which = "referral" THEN R!EarnedRewards ELSE {},
  paid <- IF which = "referral" THEN R!PaidRewards ELSE [r \in R!Reward |-> 0]
WheelRewards == INSTANCE EarnedOnce WITH
  Key <- W!Right,
  earned <- IF which = "wheel" THEN W!EarnedSpins ELSE {},
  paid <- IF which = "wheel" THEN W!PaidSpins ELSE [r \in W!Right |-> 0]

RewardsEarnedOnce == ReferralRewards!Spec /\ WheelRewards!Spec

(* "Record milestone progress + evaluate", ranks.controller.ts:92.         *)
ProgressRecorded == which = "achieve" => A!ProgressRecorded
=============================================================================
