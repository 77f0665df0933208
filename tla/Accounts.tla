------------------------------- MODULE Accounts -------------------------------
(***************************************************************************)
(* An address and who signs in with it: registration, sign-in by password  *)
(* or provider, refresh of a session, codes by mail, passwords, and the    *)
(* administration's switches (AuthService, TokenService, UsersService).    *)
(*                                                                         *)
(* No handler holds a lock: what one reads it writes back later, a user's  *)
(* row and a code's row whole.  A session is a line of refresh tokens, of  *)
(* which each is revoked when the next is issued; presenting a revoked one *)
(* ends all of the user's sessions.                                        *)
(*                                                                         *)
(* Of one user.  Mailing, hashing and signing are left out, and so is the  *)
(* provisional passcode of consumeOtp.                                     *)
(***************************************************************************)
EXTENDS Integers, FiniteSets, Sequences

CONSTANTS
  Device,
  Provider,   \* where the user can sign in instead
  MaxTries,   \* OTP_MAX_ATTEMPTS
  Servant,    \* handlers in flight
  MaxDeeds    \* bound: calls made

AccountsAssumption ==
  /\ IsFiniteSet(Device) /\ Device # {} /\ MaxTries \in Nat \ {0} /\ MaxDeeds \in Nat

Purpose == {"verify", "reset"}

(* The tables' rows.  A token's line is its sign-in; a code's age is 1     *)
(* after the resend window, 2 when it has expired.                         *)
User  == [status : {"none", "active", "inactive", "deleted"}, password : Nat,
          verified : BOOLEAN, ways : SUBSET (Provider \cup {"email"})]
Token == [line : Nat \ {0}, end : {"no", "expired", "revoked"}]
Code  == [for : Purpose, open : BOOLEAN, tries : 0..MaxTries, age : 0..2]

VARIABLES
  user,       \* users, its one row
  links,      \* auth_identities: the providers linked
  tokens,     \* refresh_tokens, in the order in which they were issued
  codes,      \* auth_challenges, likewise
  paper,      \* a reset token was handed out
  holds,      \* the token a device has, by its number; 0 when signed out
  servant,    \* the handlers in flight
  deeds,      \* calls made
  ended,      \* the last line begun before a call for a new password was over,
              \* or before a device came back with a token that such a call had revoked
  blurred,    \* of "row" and "codes": what overlapping handlers have written
  tornLines   \* sessions of which handlers overlapped, stopped, were refused, or
              \* were under way while all were ended
vars == <<user, links, tokens, codes, paper, holds, servant, deeds, ended, blurred, tornLines>>

Free == [at |-> "idle"]
Nobody == [status |-> "none", password |-> 0, verified |-> FALSE, ways |-> {}]

(* At the beginning nobody is registered, or all devices are signed in and *)
(* a reset has been asked for and confirmed.                               *)
Init ==
  /\ \/ /\ user = Nobody /\ tokens = <<>> /\ holds = [d \in Device |-> 0]
     \/ /\ user = [Nobody EXCEPT !.status = "active", !.password = 1, !.ways = {"email"}]
        /\ tokens = [n \in 1..Cardinality(Device) |-> [line |-> n, end |-> "no"]]
        /\ holds = CHOOSE h \in [Device -> DOMAIN tokens] : \A n \in DOMAIN tokens : \E d \in Device : h[d] = n
  /\ links = {}
  /\ codes = <<>>
  /\ paper = (user # Nobody)
  /\ servant = [s \in Servant |-> Free]
  /\ deeds = 0
  /\ ended = 0
  /\ blurred = {}
  /\ tornLines = {}

Found == user.status \in {"active", "inactive"}      \* soft-deleted rows are not found
Lines == {tokens[n].line : n \in DOMAIN tokens}
Live(n) == tokens[n].end = "no"
Busy == {s \in Servant : servant[s].at # "idle"}

Leave(s) == servant' = [servant EXCEPT ![s] = Free]
Goto(s, at) == servant' = [servant EXCEPT ![s].at = at]
Torn(s) == tornLines' = tornLines \cup {servant[s].line}

(* Which table's rows a call may change besides the tokens'.               *)
Touches(job) ==
  CASE job \in {"provider", "suspend", "resume", "recover", "change", "renew"} -> {"row"}
    [] job \in {"register", "code"} -> {"codes"}
    [] job \in {"right", "wrong"} -> {"row", "codes"}
    [] OTHER -> {}

(* A call begins with `at` as its next statement: what it has read goes    *)
(* with it.  `nth` is the token or code it is about, `line` its session.   *)
Take(s, job, at, d, nth, what) ==
  /\ servant[s].at = "idle" /\ deeds < MaxDeeds
  /\ deeds' = deeds + 1
  /\ LET line == IF job \in {"refresh", "logout"} THEN tokens[nth].line
                 ELSE Cardinality(Device) + deeds + 1
     IN  /\ servant' = [servant EXCEPT ![s] =
              [at |-> at, job |-> job, device |-> d, nth |-> nth, line |-> line,
               what |-> what,
               row |-> IF job \in {"provider", "suspend", "resume", "refresh"} THEN user ELSE Nobody]]
         /\ blurred' = blurred \cup UNION {Touches(job) \cap Touches(servant[o].job) : o \in Busy}
         /\ tornLines' = IF \E o \in Busy : servant[o].line = line
                         THEN tornLines \cup {line} ELSE tornLines
  /\ UNCHANGED <<user, links, tokens, codes, paper, holds, ended>>

NoDevice == CHOOSE d \in Device : TRUE
-----------------------------------------------------------------------------
(* register: refused when the address is found to be taken.                *)
Register(s, d) == ~Found /\ Take(s, "register", "create", d, 0, "verify")

(* The unique address lets one row be created, also if the user was        *)
(* deleted; with it its profile, in one transaction.                       *)
Create(s) ==
  /\ servant[s].at = "create"
  /\ IF user.status # "none" THEN Leave(s) /\ UNCHANGED user
     ELSE /\ user' = [status |-> "active", password |-> 1, verified |-> FALSE, ways |-> {"email"}]
          /\ Goto(s, "void")
  /\ UNCHANGED <<links, tokens, codes, paper, holds, deeds, ended, blurred, tornLines>>

(* login, with the password of the moment.                                 *)
Login(s, d) ==
  user.status = "active" /\ user.password # 0 /\ Take(s, "login", "issue", d, 0, "none")

(* loginWithOAuth.  A linked provider signs in; one that is not is linked  *)
(* to the user with its address - unless the provider does not vouch for   *)
(* the address and there is a password - or makes the user.                *)
ProviderLogin(s, d, p, vouched) ==
  LET go(at) == Take(s, "provider", at, d, IF vouched THEN 1 ELSE 0, p)
  IN  IF p \in links THEN user.status = "active" /\ go("issue")
      ELSE IF Found THEN (vouched \/ user.password = 0) /\ go("link")
      ELSE go("found")

(* The new user, profile and identity are one transaction.                 *)
FoundUser(s) ==
  /\ servant[s].at = "found"
  /\ IF user.status # "none" \/ servant[s].what \in links
     THEN Leave(s) /\ UNCHANGED <<user, links>>
     ELSE /\ user' = [status |-> "active", password |-> 0, verified |-> servant[s].nth = 1,
                      ways |-> {servant[s].what}]
          /\ links' = links \cup {servant[s].what}
          /\ Goto(s, "issue")
  /\ UNCHANGED <<tokens, codes, paper, holds, deeds, ended, blurred, tornLines>>

LinkForgetsWays(s) ==            \* variant: the provider replaces the others
  /\ servant[s].at = "link"
  /\ user' = [servant[s].row EXCEPT !.ways = {servant[s].what},
                !.verified = @ \/ servant[s].nth = 1]
  /\ Goto(s, "bind")
  /\ UNCHANGED <<links, tokens, codes, paper, holds, deeds, ended, blurred, tornLines>>

LinkReplacesMark(s) ==           \* variant: the provider's word on the address replaces ours
  /\ servant[s].at = "link"
  /\ user' = [servant[s].row EXCEPT !.ways = @ \cup {servant[s].what},
                !.verified = (servant[s].nth = 1)]
  /\ Goto(s, "bind")
  /\ UNCHANGED <<links, tokens, codes, paper, holds, deeds, ended, blurred, tornLines>>

(* The row as it was read, with the provider added (mergeAuthProvider: two *)
(* providers count as an address with both); then the identity.            *)
Link(s) ==
  /\ servant[s].at = "link"
  /\ user' = [servant[s].row EXCEPT
                !.ways = IF Provider \subseteq @ \cup {servant[s].what} /\ Cardinality(Provider) > 1
                         THEN Provider \cup {"email"} ELSE @ \cup {servant[s].what},
                !.verified = @ \/ servant[s].nth = 1]
  /\ Goto(s, "bind")
  /\ UNCHANGED <<links, tokens, codes, paper, holds, deeds, ended, blurred, tornLines>>

Bind(s) ==
  /\ servant[s].at = "bind"
  /\ links' = links \cup {servant[s].what}
  /\ IF servant[s].what \in links THEN Leave(s) ELSE Goto(s, "issue")
  /\ UNCHANGED <<user, tokens, codes, paper, holds, deeds, ended, blurred, tornLines>>

(* issueRefreshToken, the last statement of each sign-in and of a refresh. *)
(* A refresh for a user that is not active is refused after it.            *)
Issue(s) ==
  LET refused == servant[s].job = "refresh" /\ servant[s].row.status # "active"
      deleted == servant[s].job = "refresh" /\ servant[s].row.status = "deleted"
  IN  /\ servant[s].at = "issue"
      /\ tokens' = IF deleted THEN tokens
                   ELSE Append(tokens, [line |-> servant[s].line, end |-> "no"])
      /\ holds' = IF refused THEN holds
                  ELSE [holds EXCEPT ![servant[s].device] = Len(tokens')]
      /\ IF refused THEN Torn(s) ELSE UNCHANGED tornLines
      /\ Leave(s)
      /\ UNCHANGED <<user, links, codes, paper, deeds, ended, blurred>>
-----------------------------------------------------------------------------
AlarmIfNotLive(n) == IF Live(n) THEN "turn" ELSE "endAll"
                                 \* variant: an expired token ends all too

(* rotateRefreshToken: a revoked token ends all sessions, an expired one   *)
(* is refused.                                                             *)
NextOfToken(n) ==
  CASE tokens[n].end = "no" -> "turn"
    [] tokens[n].end = "revoked" -> "endAll"
    [] OTHER -> "idle"

Refresh(s, d) ==
  /\ holds[d] # 0
  /\ LET at == NextOfToken(holds[d])
     IN  at # "idle" /\ Take(s, "refresh", at, d, holds[d], "none")

TurnKeepsOld(s) ==               \* variant: the old token is not revoked
  /\ servant[s].at = "turn"
  /\ Goto(s, "issue")
  /\ UNCHANGED <<user, links, tokens, codes, paper, holds, deeds, ended, blurred, tornLines>>

Turn(s) ==
  /\ servant[s].at = "turn"
  /\ tokens' = [tokens EXCEPT ![servant[s].nth].end = "revoked"]
  /\ Goto(s, "issue")
  /\ UNCHANGED <<user, links, codes, paper, holds, deeds, ended, blurred, tornLines>>

(* History: a call for a new password is over, or the alarm of a session   *)
(* that such a call had ended.                                             *)
Over(s) == ended' = IF \/ servant[s].job \in {"recover", "renew"}
                       \/ servant[s].job = "refresh" /\ servant[s].line <= ended
                    THEN Cardinality(Device) + deeds ELSE ended

Signs(call) == call.job \in {"register", "login", "provider", "refresh", "logout"}

(* revokeAllForUser, one statement: the last of a reset, of the            *)
(* administration's new password, and of the alarm.                        *)
EndAll(s) ==
  /\ servant[s].at = "endAll"
  /\ tokens' = [n \in 1..Len(tokens) |-> [tokens[n] EXCEPT !.end = "revoked"]]
  /\ Over(s)
  /\ tornLines' = tornLines \cup {servant[o].line : o \in {o \in Busy \ {s} : Signs(servant[o])}}
  /\ Leave(s)
  /\ UNCHANGED <<user, links, codes, paper, holds, deeds, blurred>>

(* logout: the token is revoked unless it was, and the device forgets it.  *)
Logout(s, d) == holds[d] # 0 /\ Take(s, "logout", "drop", d, holds[d], "none")

Drop(s) ==
  /\ servant[s].at = "drop"
  /\ tokens' = [tokens EXCEPT ![servant[s].nth].end = "revoked"]
  /\ holds' = [holds EXCEPT ![servant[s].device] = IF @ = servant[s].nth THEN 0 ELSE @]
  /\ Leave(s)
  /\ UNCHANGED <<user, links, codes, paper, deeds, ended, blurred, tornLines>>

(* Bound: one token at most is seen to expire.                             *)
Expire(n) ==
  /\ Live(n) /\ \A m \in DOMAIN tokens : tokens[m].end # "expired"
  /\ tokens' = [tokens EXCEPT ![n].end = "expired"]
  /\ UNCHANGED <<user, links, codes, paper, holds, servant, deeds, ended, blurred, tornLines>>
-----------------------------------------------------------------------------
OpenCodes(purpose) == {n \in DOMAIN codes : codes[n].for = purpose /\ codes[n].open}

(* createAndSendOtp refuses while a recent code is open.  It is reached    *)
(* from requestEmailVerification and forgotPassword.                       *)
AskCode(s, purpose) ==
  /\ Found
  /\ IF purpose = "verify" THEN ~user.verified ELSE user.password # 0
  /\ \A n \in OpenCodes(purpose) : codes[n].age # 0
  /\ Take(s, "code", "void", NoDevice, 0, purpose)

VoidNothing(s) ==                \* variant: earlier codes stay open
  /\ servant[s].at = "void"
  /\ Goto(s, "post")
  /\ UNCHANGED <<user, links, tokens, codes, paper, holds, deeds, ended, blurred, tornLines>>

(* Earlier codes are consumed, then the new one is stored.                 *)
Void(s) ==
  /\ servant[s].at = "void"
  /\ codes' = [n \in 1..Len(codes) |->
                 IF codes[n].for = servant[s].what THEN [codes[n] EXCEPT !.open = FALSE] ELSE codes[n]]
  /\ Goto(s, "post")
  /\ UNCHANGED <<user, links, tokens, paper, holds, deeds, ended, blurred, tornLines>>

Post(s) ==
  /\ servant[s].at = "post"
  /\ codes' = Append(codes, [for |-> servant[s].what, open |-> TRUE, tries |-> 0, age |-> 0])
  /\ IF servant[s].job = "register" THEN Goto(s, "issue") ELSE Leave(s)
  /\ UNCHANGED <<user, links, tokens, paper, holds, deeds, ended, blurred, tornLines>>

(* consumeOtp: the latest open code, if it can still be tried.             *)
TryCode(s, purpose, right) ==
  /\ Found
  /\ purpose = "verify" => ~user.verified
  /\ OpenCodes(purpose) # {}
  /\ LET n == CHOOSE n \in OpenCodes(purpose) : \A m \in OpenCodes(purpose) : m <= n
     IN  /\ codes[n].age < 2 /\ codes[n].tries < MaxTries
         /\ Take(s, IF right THEN "right" ELSE "wrong", IF right THEN "consume" ELSE "count",
                 NoDevice, n, [for |-> purpose, tries |-> codes[n].tries])

(* A wrong code is counted: the row is saved as it was read, open.         *)
CountTry(s) ==
  /\ servant[s].at = "count"
  /\ codes' = [codes EXCEPT ![servant[s].nth].tries = servant[s].what.tries + 1,
                            ![servant[s].nth].open = TRUE]
  /\ Leave(s)
  /\ UNCHANGED <<user, links, tokens, paper, holds, deeds, ended, blurred, tornLines>>

(* The right one is consumed; a token for the reset, or the mark.          *)
Consume(s) ==
  /\ servant[s].at = "consume"
  /\ codes' = [codes EXCEPT ![servant[s].nth].open = FALSE]
  /\ IF servant[s].what.for = "reset" THEN paper' = TRUE /\ Leave(s)
     ELSE Goto(s, "mark") /\ UNCHANGED paper
  /\ UNCHANGED <<user, links, tokens, holds, deeds, ended, blurred, tornLines>>

(* markEmailVerified, one column.                                          *)
Mark(s) ==
  /\ servant[s].at = "mark"
  /\ user' = [user EXCEPT !.verified = TRUE]
  /\ Leave(s)
  /\ UNCHANGED <<links, tokens, codes, paper, holds, deeds, ended, blurred, tornLines>>

Older ==
  /\ \E n \in DOMAIN codes : codes[n].open /\ codes[n].age < 2
  /\ codes' = [n \in 1..Len(codes) |->
                 [codes[n] EXCEPT !.age = IF codes[n].open /\ @ < 2 THEN @ + 1 ELSE @]]
  /\ UNCHANGED <<user, links, tokens, paper, holds, servant, deeds, ended, blurred, tornLines>>
-----------------------------------------------------------------------------
(* resetPassword with a reset token, changePassword by the user, and the   *)
(* administration's adminSetPassword.                                      *)
NewPassword(s, job) ==
  /\ CASE job = "recover" -> paper /\ user.status = "active"
       [] job = "change"  -> user.password # 0 /\ user.status = "active"
       [] job = "renew"   -> Found
  /\ Take(s, job, "store", NoDevice, deeds + 2, "none")

StopsHere(s) == FALSE            \* variant: a new password ends no session

EndsSessions(s) == servant[s].job \in {"recover", "renew"}

(* updatePassword, two columns.                                            *)
Store(s) ==
  /\ servant[s].at = "store"
  /\ user' = [user EXCEPT !.password = servant[s].nth]
  /\ IF EndsSessions(s) THEN Goto(s, "endAll") /\ UNCHANGED ended ELSE Leave(s) /\ Over(s)
  /\ UNCHANGED <<links, tokens, codes, paper, holds, deeds, blurred, tornLines>>

(* setActive: the row as it was read.                                      *)
Switch(s, job) == Found /\ Take(s, job, "switch", NoDevice, 0, "none")

Flip(s) ==
  /\ servant[s].at = "switch"
  /\ user' = [servant[s].row EXCEPT
                !.status = IF servant[s].job = "suspend" THEN "inactive" ELSE "active"]
  /\ Leave(s)
  /\ UNCHANGED <<links, tokens, codes, paper, holds, deeds, ended, blurred, tornLines>>

Delete ==
  /\ Found
  /\ user' = [user EXCEPT !.status = "deleted"]
  /\ UNCHANGED <<links, tokens, codes, paper, holds, servant, deeds, ended, blurred, tornLines>>

(* The process stops, or its answer does not arrive.                       *)
Halt(s) ==
  /\ servant[s].at # "idle"
  /\ Leave(s)
  /\ IF servant[s].line \in Lines THEN Torn(s) ELSE UNCHANGED tornLines
  /\ UNCHANGED <<user, links, tokens, codes, paper, holds, deeds, ended, blurred>>

Begin(s) ==
  \/ \E d \in Device : Register(s, d) \/ Login(s, d) \/ Refresh(s, d) \/ Logout(s, d)
  \/ \E d \in Device, p \in Provider, vouched \in BOOLEAN : ProviderLogin(s, d, p, vouched)
  \/ \E purpose \in Purpose :
       AskCode(s, purpose) \/ \E right \in BOOLEAN : TryCode(s, purpose, right)
  \/ \E job \in {"recover", "change", "renew"} : NewPassword(s, job)
  \/ \E job \in {"suspend", "resume"} : Switch(s, job)

Continue(s) ==
  \/ Create(s) \/ FoundUser(s) \/ Link(s) \/ Bind(s) \/ Issue(s)
  \/ Turn(s) \/ EndAll(s) \/ Drop(s)
  \/ Void(s) \/ Post(s) \/ CountTry(s) \/ Consume(s) \/ Mark(s)
  \/ Store(s) \/ Flip(s)

Next ==
  \/ \E s \in Servant : Begin(s) \/ Continue(s) \/ Halt(s)
  \/ \E n \in DOMAIN tokens : Expire(n)
  \/ Older \/ Delete

Spec == Init /\ [][Next]_vars
-----------------------------------------------------------------------------
(* The values of the variables.                                            *)
TypeOK ==
  /\ user \in User /\ links \subseteq Provider
  /\ tokens \in Seq(Token) /\ codes \in Seq(Code)
  /\ paper \in BOOLEAN
  /\ holds \in [Device -> 0..Len(tokens)]
  /\ deeds \in 0..MaxDeeds /\ ended \in Nat

(* A session is one live token, however often it is refreshed and by       *)
(* whichever handlers the others are (rotateRefreshToken).                 *)
OneTokenEach ==
  \A n, m \in DOMAIN tokens :
    (Live(n) /\ Live(m) /\ tokens[n].line = tokens[m].line) =>
      n = m \/ tokens[n].line \in tornLines

(* "Invalidate prior unconsumed challenges so stale OTPs cannot win as     *)
(* latest" (auth.service.ts:664): of each purpose one code is open.        *)
OneOpenCode ==
  "codes" \in blurred \/ \A purpose \in Purpose : Cardinality(OpenCodes(purpose)) <= 1

(* Nobody is signed out by what others do: a token that a device still     *)
(* holds is only revoked by a call of its own under way, a new password,   *)
(* or the reuse of a token that was: of a torn session, or of one that a   *)
(* new password ended (rotateRefreshToken cannot tell such a device from a *)
(* thief, and signs out the devices that have signed in since).            *)
StaysSignedIn ==
  \A d \in Device :
    (holds[d] # 0 /\ tokens[holds[d]].end = "revoked") =>
      LET line == tokens[holds[d]].line
      IN  \/ \E s \in Busy : servant[s].line = line
          \/ line <= ended
          \/ tornLines # {}

(* A reset password has ended the sessions that began before it            *)
(* (resetPassword, adminSetPassword), except those refreshed or begun      *)
(* while it was.                                                           *)
ResetEndsSessions ==
  \A n \in DOMAIN tokens :
    Live(n) => tokens[n].line > ended \/ tokens[n].line \in tornLines

(* Each linked provider is one of the user's ways to sign in               *)
(* (loginWithOAuth, mergeAuthProvider).                                    *)
LinksAreWays == "row" \in blurred \/ links \subseteq user.ways

(* A verified address stays verified and a replaced password replaced,     *)
(* though rows are saved whole.                                            *)
RowKept ==
  ("row" \notin blurred' /\ user.status # "none") =>
    /\ user.verified => user'.verified
    /\ user'.password >= user.password
=============================================================================
