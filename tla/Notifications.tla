--------------------------- MODULE Notifications ---------------------------
(***************************************************************************)
(* A user's notifications: NotificationsService                            *)
(* (src/src/notifications/notifications.service.ts).                       *)
(*                                                                         *)
(* create() is called for events and reminders that may arrive twice.  It  *)
(* reads the preferences, looks for the notification, pushes, and then     *)
(* inserts the row and its deliveries, each on its own: between two of     *)
(* them another call runs, or the process stops.  A row that was read is   *)
(* saved whole.  The indexes of the dedupe key and of the source event     *)
(* refuse a second row; here they are one key.  Every caller wants the     *)
(* notification within the app, some want push too.  Texts, links,         *)
(* categories, e-mail, the clock, expiry and devices are left out.         *)
(***************************************************************************)
EXTENDS Naturals, FiniteSets

CONSTANTS
  Key,           \* dedupe keys
  Postman,       \* calls in progress at a time
  PushCap,       \* DAILY_PUSH_SOFT_CAP
  MaxNotices     \* bound: calls ever made

NoticesAssumption == PushCap \in Nat \ {0} /\ MaxNotices \in Nat

Toggle == {"type", "push"}               \* the gate of the type, and push

VARIABLES
  prefs,         \* the preferences that are on
  wished,        \* history: those that are on as they were last set
  night,         \* whether it is within the quiet hours
  notice,        \* the notifications, by key: read and hidden
  pushed,        \* pushes given to the provider, by key
  pushedToday,   \* keys with a delivery by push of today
  sent,          \* keys with a delivery by push
  deferred,      \* keys in notification_schedules
  wanted,        \* history: keys of which the one that inserted them wanted push
  postman,       \* the calls in progress
  notices,       \* how many were made, for the bound
  raced,         \* history: what calls overlapped on
  cut            \* history: keys of which a call stopped halfway

noticeVars == <<prefs, wished, night, notice, pushed, pushedToday, sent, deferred, wanted,
                postman, notices, raced, cut>>

Resting == [at |-> "rests", on |-> {}]
Known == DOMAIN notice
Others(p) == {q \in Postman \ {p} : postman[q] # Resting}

Init ==
  /\ prefs = Toggle /\ wished = Toggle /\ night = FALSE
  /\ notice = [k \in {} |-> [read |-> FALSE, hidden |-> FALSE]]
  /\ pushed = [k \in Key |-> 0]
  /\ pushedToday = {} /\ sent = {} /\ deferred = {} /\ wanted = {}
  /\ postman = [p \in Postman |-> Resting] /\ notices = 0
  /\ raced = {} /\ cut = {}
-----------------------------------------------------------------------------
(* A call works on what it has read: a key, or the preferences.            *)
Calls(p, r) ==
  /\ postman[p] = Resting /\ notices < MaxNotices
  /\ postman' = [postman EXCEPT ![p] = r]
  /\ notices' = notices + 1
  /\ raced' = raced \union UNION {postman[q].on \intersect r.on : q \in Others(p)}
Goes(p, r) == postman' = [postman EXCEPT ![p] = r]

(* create: nothing without the preference of the type, nor when the        *)
(* notification is there.                                                  *)
AlwaysNew(k) == TRUE                                        \* variant
NotThereYet(k) == k \notin Known

Create(p, k, push) ==
  /\ "type" \in prefs /\ NotThereYet(k)
  /\ Calls(p, [at |-> "push", key |-> k, on |-> {k} \union (IF push THEN {"cap"} ELSE {}),
               push |-> push /\ "push" \in prefs])
  /\ UNCHANGED <<prefs, wished, night, notice, pushed, pushedToday, sent, deferred, wanted, cut>>

(* pushCapReached, and the push itself, before the row is there.           *)
RoomForOneMore == Cardinality(pushedToday) <= PushCap             \* variant
Room == Cardinality(pushedToday) < PushCap

Push(p) ==
  LET r == postman[p]  now == r.push /\ ~night /\ Room IN
  /\ r.at = "push"
  /\ pushed' = IF now THEN [pushed EXCEPT ![r.key] = @ + 1] ELSE pushed
  /\ Goes(p, [at |-> "insert", key |-> r.key, on |-> r.on,
              push |-> IF now THEN "now" ELSE IF r.push THEN "later" ELSE "no"])
  /\ UNCHANGED <<prefs, wished, night, notice, pushedToday, sent, deferred, wanted, notices, raced, cut>>

(* The row; one that is there already is returned.                         *)
Unseen == [read |-> FALSE, hidden |-> FALSE]
Insert(p) ==
  LET r == postman[p] IN
  /\ r.at = "insert"
  /\ IF r.key \in Known THEN Goes(p, Resting) /\ UNCHANGED <<notice, wanted>>
     ELSE /\ notice' = [k \in Known \union {r.key} |-> IF k \in Known THEN notice[k] ELSE Unseen]
          /\ wanted' = IF r.push # "no" THEN wanted \union {r.key} ELSE wanted
          /\ Goes(p, [r EXCEPT !.at = "deliver"])
  /\ UNCHANGED <<prefs, wished, night, pushed, pushedToday, sent, deferred, notices, raced, cut>>

(* The deliveries, and upsertSchedule for a push that has to wait.         *)
Deliver(p) ==
  LET r == postman[p] IN
  /\ r.at = "deliver"
  /\ IF r.push = "now" THEN sent' = sent \union {r.key} /\ pushedToday' = pushedToday \union {r.key}
     ELSE UNCHANGED <<sent, pushedToday>>
  /\ deferred' = IF r.push = "later" THEN deferred \union {r.key} ELSE deferred
  /\ Goes(p, Resting)
  /\ UNCHANGED <<prefs, wished, night, notice, pushed, wanted, notices, raced, cut>>
-----------------------------------------------------------------------------
(* markRead and hide save the row as they found it, visible.               *)
Visible(k) == k \in Known /\ ~notice[k].hidden

Touch(p, k, object) ==
  /\ Visible(k)
  /\ Calls(p, [at |-> "save", key |-> k, on |-> {k}, object |-> object])
  /\ UNCHANGED <<prefs, wished, night, notice, pushed, pushedToday, sent, deferred, wanted, cut>>
MarkRead(p, k, unread) == Touch(p, k, [read |-> ~unread, hidden |-> FALSE])
Hide(p, k) == Touch(p, k, [read |-> TRUE, hidden |-> TRUE])

Save(p) ==
  /\ postman[p].at = "save"
  /\ notice' = [notice EXCEPT ![postman[p].key] = postman[p].object]
  /\ Goes(p, Resting)
  /\ UNCHANGED <<prefs, wished, night, pushed, pushedToday, sent, deferred, wanted, notices, raced, cut>>

ReadHiddenToo == [k \in Known |-> [read |-> TRUE, hidden |-> FALSE]]  \* variant
AllRead == [k \in Known |-> IF Visible(k) THEN [notice[k] EXCEPT !.read = TRUE] ELSE notice[k]]

MarkAllRead ==
  /\ notice' = AllRead
  /\ UNCHANGED <<prefs, wished, night, pushed, pushedToday, sent, deferred, wanted, postman, notices, raced, cut>>

(* Rows of the tables.                                                     *)
NotificationRow == [read : BOOLEAN, hidden : BOOLEAN]
PreferenceRow == SUBSET Toggle

(* updatePreferences: the ones given, in the row that was read.            *)
SetPreference(p, t) ==
  LET turned == (prefs \ {t}) \union ({t} \ prefs) IN
  /\ Calls(p, [at |-> "prefs", on |-> {"prefs"}, object |-> turned])
  /\ wished' = (wished \ {t}) \union (turned \intersect {t})
  /\ UNCHANGED <<prefs, night, notice, pushed, pushedToday, sent, deferred, wanted, cut>>

SavePreferences(p) ==
  /\ postman[p].at = "prefs"
  /\ prefs' = postman[p].object
  /\ Goes(p, Resting)
  /\ UNCHANGED <<wished, night, notice, pushed, pushedToday, sent, deferred, wanted, notices, raced, cut>>

Clock ==
  /\ night' = ~night
  /\ pushedToday' \in {pushedToday, {}}
  /\ UNCHANGED <<prefs, wished, notice, pushed, sent, deferred, wanted, postman, notices, raced, cut>>

Stop(p) ==
  /\ postman[p] # Resting /\ Goes(p, Resting)
  /\ cut' = cut \union postman[p].on
  /\ UNCHANGED <<prefs, wished, night, notice, pushed, pushedToday, sent, deferred, wanted, notices, raced>>
-----------------------------------------------------------------------------
Next ==
  \/ Clock \/ MarkAllRead
  \/ \E p \in Postman :
       \/ Push(p) \/ Insert(p) \/ Deliver(p) \/ Save(p) \/ SavePreferences(p) \/ Stop(p)
       \/ \E k \in Key, b \in BOOLEAN : Create(p, k, b) \/ MarkRead(p, k, b)
       \/ \E k \in Key : Hide(p, k)
       \/ \E t \in Toggle : SetPreference(p, t)

Spec == Init /\ [][Next]_noticeVars

TypeOK ==
  /\ prefs \in PreferenceRow /\ Known \subseteq Key
  /\ \A k \in Known : notice[k] \in NotificationRow
  /\ pushed \in [Key -> Nat] /\ pushedToday \subseteq sent

(* A notification is pushed once, whatever calls for it again, unless two  *)
(* calls overlapped or one stopped before its row was there.               *)
PushedOnce == \A k \in Key \ (raced \union cut) : pushed[k] <= 1

(* A push that was wanted, and allowed, was sent or waits, and the day's   *)
(* pushes stay within the cap, unless calls overlapped or stopped.         *)
PushIsAccountedFor ==
  /\ \A k \in wanted \ cut : k \in sent \union deferred \/ \E p \in Postman : k \in postman[p].on
  /\ "cap" \notin raced \union cut => Cardinality(pushedToday) <= PushCap

(* The preferences are what they were set to, unless two settings          *)
(* overlapped: each saves the whole row.                                   *)
PreferencesKept ==
  {"prefs"} \subseteq raced \union cut \/ prefs = wished
  \/ \E p \in Postman : postman[p].at = "prefs"

(* A hidden notification does not come back, unless it was being marked    *)
(* when it was hidden.                                                     *)
StaysHidden ==
  \A k \in Known \ raced' : notice[k].hidden => notice'[k].hidden
=============================================================================
