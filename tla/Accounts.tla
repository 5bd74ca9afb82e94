------------------------------ MODULE Accounts ------------------------------
(***************************************************************************)
(* One account of any of the three portals: its invitations                *)
(* (invitations.service.ts), its sign-in with lockout and second factor,   *)
(* its sessions and the driver app's refresh token (identity.service.ts).  *)
(*                                                                         *)
(* A sign-in loads the user's row, verifies, and saves what it changed on  *)
(* its copy; a column the copy already has at its new value is not         *)
(* written. A verified code, a password and a token's bits are left out:   *)
(* each attempt is right or wrong.                                         *)
(***************************************************************************)
EXTENDS Integers, Sequences

CONSTANTS
    Audiences,      \* which portals the account may belong to
    TotpRequired,   \* config.totp.adminRequired
    MaxAttempts,    \* config.login.maxAttempts
    Tabs,           \* sign-ins of the account's owner that can be under way at once
    Clerks,         \* requests of the back office about it
    Links,          \* acceptances of its invitations
    MaxLinks, MaxSessions, MaxSecrets, MaxMoves \* how often things happen

ASSUME AccountsAssumption ==
    /\ Audiences \subseteq {"admin", "advertiser", "driver"}
    /\ TotpRequired \in BOOLEAN
    /\ MaxAttempts \in Nat \ {0}
    /\ MaxLinks \in Nat \ {0} /\ {MaxSessions, MaxSecrets, MaxMoves} \subseteq Nat

VARIABLES
    audience,
    user,       \* its row of users
    invitations,\* user_invitations, in the order they were issued
    logins,     \* user_sessions, in the order they were issued
    tabs,       \* [Tabs -> a sign-in, or a refresh of the app's token]
    clerks,     \* [Clerks -> a request of the back office]
    claims,     \* [Links -> a call of accept]
    appToken,   \* the refresh token the driver's app holds, of which session, and
                \* whether the answer with a newer one was lost
    proven,     \* history: the secret a code was last checked against, and right
    wrong       \* history: wrong passwords and codes since the last sign-in or lock

people == <<tabs, clerks, claims>>

accountsVars == <<audience, user, invitations, logins, people, appToken, proven, wrong>>

(* lockedUntil: null, still to come, or past and not cleared yet.          *)
Locking == {"no", "yes", "over"}

UserRow == [status : {"INVITED", "ACTIVE", "DISABLED"}, email : 0 .. MaxMoves,
            attempts : 0 .. MaxAttempts - 1, locked : Locking,
            secret : 0 .. MaxSecrets, enabled : BOOLEAN]

(* What a sign-in uses again of the row it loaded.                         *)
Failures == [attempts : 0 .. MaxAttempts - 1, locked : Locking]

Clean == [attempts |-> 0, locked |-> "no"]

Invitation == [to : 0 .. MaxMoves, expired : BOOLEAN, revoked : BOOLEAN, uses : 0 .. 2]

Login == [client : {"web", "mobile"}, live : BOOLEAN, token : Nat]

AtDoor == [at |-> "door"]

AccountsTypeOK ==
    /\ audience \in Audiences
    /\ user \in UserRow
    /\ invitations \in Seq(Invitation) /\ Len(invitations) <= MaxLinks
    /\ logins \in Seq(Login) /\ Len(logins) <= MaxSessions
    /\ \A t \in Tabs : tabs[t] \in {AtDoor} \cup
          [at : {"count", "challenge", "secret", "enable", "issue", "session", "user",
                 "rotate", "answer"},
           client : {"web", "mobile"}, saw : Failures, login : 0 .. MaxSessions,
           token : Nat, challenge : BOOLEAN]
    /\ \A c \in Clerks : clerks[c] \in {AtDoor} \cup
          [at : {"email", "issue", "insert", "reset", "revoke", "disable"},
           saw : UserRow, seen : SUBSET (1 .. MaxLinks)]
    /\ \A k \in Links : claims[k] \in {AtDoor} \cup
          [at : {"claim", "revoke"}, link : 1 .. MaxLinks]
    /\ appToken \in [login : 0 .. MaxSessions, token : Nat, lost : BOOLEAN]
    /\ proven \in 0 .. MaxSecrets
    /\ wrong \in 0 .. MaxAttempts

(* createDriver and bootstrapFirstAdmin make an ACTIVE account with a      *)
(* password; everybody else's is INVITED, with the first invitation in the *)
(* same transaction.                                                       *)
AccountsInit ==
    /\ audience \in Audiences
    /\ user = [status |-> IF audience = "driver" THEN "ACTIVE" ELSE "INVITED", email |-> 0,
               attempts |-> 0, locked |-> "no", secret |-> 0, enabled |-> FALSE]
    /\ invitations = IF audience = "driver" THEN << >>
                     ELSE <<[to |-> 0, expired |-> FALSE, revoked |-> FALSE, uses |-> 0]>>
    /\ logins = << >>
    /\ tabs = [t \in Tabs |-> AtDoor]
    /\ clerks = [c \in Clerks |-> AtDoor]
    /\ claims = [k \in Links |-> AtDoor]
    /\ appToken = [login |-> 0, token |-> 0, lost |-> FALSE]
    /\ proven = 0 /\ wrong = 0

-----------------------------------------------------------------------------
(* Invitations.                                                            *)
Usable(i) == invitations[i].uses = 0 /\ ~invitations[i].revoked

LiveLinks == {i \in DOMAIN invitations : Usable(i)}

(* The rows an uncommitted issue has written: a claim of one waits.        *)
Locked(i) == \E c \in Clerks : clerks[c].at = "insert" /\ i \in clerks[c].seen

(* revokeAllSessionsFor.                                                   *)
RevokeAll == logins' = [s \in DOMAIN logins |-> [logins[s] EXCEPT !.live = FALSE]]

InvitationExpires(i) ==
    /\ ~invitations[i].expired
    /\ invitations' = [invitations EXCEPT ![i].expired = TRUE]
    /\ UNCHANGED <<audience, user, logins, people, appToken, proven, wrong>>

(* resolve.                                                                *)
BeginAccept(k, i) ==
    /\ claims[k] = AtDoor
    /\ Usable(i) /\ ~invitations[i].expired
    /\ claims' = [claims EXCEPT ![k] = [at |-> "claim", link |-> i]]
    /\ UNCHANGED <<audience, user, invitations, logins, tabs, clerks, appToken, proven, wrong>>

(* Faulty: a read followed by a write.                                     *)
ClaimsAnyway(i) == invitations[i].uses < 2

(* The conditional update; ck_invitation_not_both would stop the rest.     *)
Claims(i) == Usable(i)

Claim(k) ==
    LET i == claims[k].link
    IN  /\ claims[k].at = "claim"
        /\ ~Locked(i)
        /\ IF Claims(i) /\ ~invitations[i].revoked
           THEN /\ invitations' = [invitations EXCEPT ![i].uses = @ + 1]
                /\ user' = [user EXCEPT !.status = "ACTIVE", !.attempts = 0, !.locked = "no"]
                /\ wrong' = 0
                /\ claims' = [claims EXCEPT ![k].at = "revoke"]
           ELSE claims' = [claims EXCEPT ![k] = AtDoor] /\ UNCHANGED <<invitations, user, wrong>>
        /\ UNCHANGED <<audience, logins, tabs, clerks, appToken, proven>>

EndOldSessions(k) ==
    /\ claims[k].at = "revoke"
    /\ RevokeAll
    /\ claims' = [claims EXCEPT ![k] = AtDoor]
    /\ UNCHANGED <<audience, user, invitations, tabs, clerks, appToken, proven, wrong>>

-----------------------------------------------------------------------------
(* The back office.                                                        *)

(* What a request uses again of the row it loads: only a new password      *)
(* touches the failures, and none the second factor.                       *)
Copy(step) ==
    LET copy == [user EXCEPT !.secret = 0, !.enabled = FALSE]
    IN  IF step = "reset" THEN copy ELSE [copy EXCEPT !.attempts = 0, !.locked = "no"]

LoadUser(c, step) ==
    /\ clerks[c] = AtDoor
    /\ clerks' = [clerks EXCEPT ![c] = [at |-> step, saw |-> Copy(step), seen |-> {}]]
    /\ UNCHANGED <<audience, user, invitations, logins, tabs, claims, appToken, proven, wrong>>

(* resend: a driver is mailed a new password, everybody else a new link.   *)
Resend(c) ==
    /\ user.status # "DISABLED"
    /\ LoadUser(c, IF audience = "driver" THEN "reset" ELSE "issue")

(* updateUserProfile, where the address changes.                           *)
ChangeEmail(c) ==
    /\ user.status \in {"INVITED", "ACTIVE"}
    /\ user.email < MaxMoves
    /\ LoadUser(c, "email")

(* deleteDriver, as far as the account goes: its address is given up too.  *)
(* The sessions are ended on a connection of their own, before the         *)
(* transaction that disables the account commits.                          *)
DisableDriver(c) ==
    /\ audience = "driver" /\ clerks[c] = AtDoor
    /\ RevokeAll
    /\ clerks' = [clerks EXCEPT ![c] = [at |-> "disable", saw |-> Copy("disable"), seen |-> {}]]
    /\ UNCHANGED <<audience, user, invitations, tabs, claims, appToken, proven, wrong>>

CommitDisabled(c) ==
    /\ clerks[c].at = "disable"
    /\ user' = [user EXCEPT !.status = "DISABLED"]
    /\ clerks' = [clerks EXCEPT ![c] = AtDoor]
    /\ UNCHANGED <<audience, invitations, logins, tabs, claims, appToken, proven, wrong>>

(* An account that is not in use yet is invited again, at its new address; *)
(* one in use is signed out everywhere.                                    *)
AfterMove(saw) == IF saw.status = "INVITED" THEN "issue" ELSE "revoke"

SaveEmail(c) ==
    LET saw == clerks[c].saw
    IN  /\ clerks[c].at = "email"
        /\ user' = [user EXCEPT !.email = saw.email + 1]
        /\ clerks' = [clerks EXCEPT ![c].at = AfterMove(saw), ![c].saw.email = saw.email + 1]
        /\ UNCHANGED <<audience, invitations, logins, tabs, claims, appToken, proven, wrong>>

(* issue, up to its insert: the live links are revoked and locked.         *)
RevokeLinks(c) ==
    /\ clerks[c].at = "issue"
    /\ \A i \in LiveLinks : ~Locked(i)
    /\ clerks' = [clerks EXCEPT ![c].at = "insert", ![c].seen = LiveLinks]
    /\ UNCHANGED <<audience, user, invitations, logins, tabs, claims, appToken, proven, wrong>>

(* Its commit; uq_invitation_live undoes all of it where another call has  *)
(* issued a link meanwhile.                                                *)
InsertLink(c) ==
    LET seen == clerks[c].seen
    IN  /\ clerks[c].at = "insert"
        /\ Len(invitations) < MaxLinks
        /\ invitations' =
              IF LiveLinks \subseteq seen
              THEN Append([i \in DOMAIN invitations |->
                             [invitations[i] EXCEPT !.revoked = @ \/ i \in seen]],
                          [to |-> clerks[c].saw.email, expired |-> FALSE, revoked |-> FALSE,
                           uses |-> 0])
              ELSE invitations
        /\ clerks' = [clerks EXCEPT ![c] = AtDoor]
        /\ UNCHANGED <<audience, user, logins, tabs, claims, appToken, proven, wrong>>

ResetPassword(c) ==
    /\ clerks[c].at = "reset"
    /\ user' = [user EXCEPT
           !.status = IF clerks[c].saw.status = "ACTIVE" THEN @ ELSE "ACTIVE",
           !.attempts = IF clerks[c].saw.attempts = 0 THEN @ ELSE 0,
           !.locked = IF clerks[c].saw.locked = "no" THEN @ ELSE "no"]
    /\ wrong' = IF clerks[c].saw.attempts = 0 THEN wrong ELSE 0
    /\ clerks' = [clerks EXCEPT ![c].at = "revoke"]
    /\ UNCHANGED <<audience, invitations, logins, tabs, claims, appToken, proven>>

SignOutEverywhere(c) ==
    /\ clerks[c].at = "revoke"
    /\ RevokeAll
    /\ clerks' = [clerks EXCEPT ![c] = AtDoor]
    /\ UNCHANGED <<audience, user, invitations, tabs, claims, appToken, proven, wrong>>

ClerkSteps(c) ==
    \/ Resend(c) \/ ChangeEmail(c) \/ DisableDriver(c) \/ CommitDisabled(c) \/ SaveEmail(c)
    \/ RevokeLinks(c) \/ InsertLink(c) \/ ResetPassword(c) \/ SignOutEverywhere(c)

-----------------------------------------------------------------------------
(* Signing in.                                                             *)
Busy(t, step) == tabs' = [tabs EXCEPT ![t].at = step]

Gone(t) == tabs' = [tabs EXCEPT ![t] = AtDoor]

(* The request is answered. A challenge token that came with it is good    *)
(* for another one until it expires.                                       *)
Replied(t) ==
    tabs' = [tabs EXCEPT ![t] =
        IF tabs[t].challenge THEN [tabs[t] EXCEPT !.at = "challenge", !.saw = Clean] ELSE AtDoor]

Seen(step) ==
    IF step \in {"count", "enable", "issue"}
    THEN [attempts |-> user.attempts, locked |-> user.locked]
    ELSE Clean

Loaded(t, step) == tabs' = [tabs EXCEPT ![t].at = step, ![t].saw = Seen(step)]

Arrives(t, step, client) ==
    tabs' = [tabs EXCEPT ![t] =
        [at |-> step, client |-> client, saw |-> Seen(step), login |-> 0, token |-> 0,
         challenge |-> step = "challenge"]]

Clients == IF audience = "driver" THEN {"web", "mobile"} ELSE {"web"}

(* What a right password leads to: a session, or the second factor, which  *)
(* the app does not do.                                                    *)
AfterPassword(client) ==
    IF audience = "admin" /\ ~TotpRequired THEN {"issue"}
    ELSE IF user.enabled THEN IF client = "web" THEN {"challenge"} ELSE {}
    ELSE IF audience = "admin" THEN {"challenge"} ELSE {"issue"}

(* verifyCredentials, and what login or driverMobileLogin do next.         *)
SignIn(t, client) ==
    /\ tabs[t] = AtDoor
    /\ user.locked # "yes"
    /\ \/ Arrives(t, "count", client)
       \/ user.status = "ACTIVE" /\ \E step \in AfterPassword(client) : Arrives(t, step, client)
    /\ UNCHANGED <<audience, user, invitations, logins, clerks, claims, appToken, proven, wrong>>

(* Faulty: one attempt too many.                                           *)
LocksLate(n) == n > MaxAttempts

Locks(n) == n >= MaxAttempts

(* registerFailure, for passwords and codes alike.                         *)
Count(t) ==
    LET n == tabs[t].saw.attempts + 1
    IN  /\ tabs[t].at = "count"
        /\ user' = [user EXCEPT !.attempts = n % MaxAttempts,
                                !.locked = IF Locks(n) THEN "yes" ELSE @]
        /\ wrong' = IF Locks(n) THEN 0 ELSE wrong + 1
        /\ Replied(t)
        /\ UNCHANGED <<audience, invitations, logins, clerks, claims, appToken, proven>>

LockEnds ==
    /\ user.locked = "yes"
    /\ user' = [user EXCEPT !.locked = "over"]
    /\ UNCHANGED <<audience, invitations, logins, people, appToken, proven, wrong>>

MayEnrol == ~user.enabled

(* beginTotpEnrolment: userFromChallenge, and the secret that is saved.    *)
BeginEnrolment(t) ==
    /\ tabs[t].at = "challenge"
    /\ user.status = "ACTIVE" /\ MayEnrol
    /\ Loaded(t, "secret")
    /\ UNCHANGED <<audience, user, invitations, logins, clerks, claims, appToken, proven, wrong>>

SaveSecret(t) ==
    /\ tabs[t].at = "secret"
    /\ user.secret < MaxSecrets
    /\ user' = [user EXCEPT !.secret = @ + 1]
    /\ Busy(t, "challenge")
    /\ UNCHANGED <<audience, invitations, logins, clerks, claims, appToken, proven, wrong>>

(* verifyMfaAndCreateSession. A right code completes an enrolment. The     *)
(* lock is not looked at: userFromChallenge asks for an active account.    *)
EnterCode(t) ==
    /\ tabs[t].at = "challenge"
    /\ user.status = "ACTIVE" /\ user.secret # 0
    /\ \/ Loaded(t, "count") /\ UNCHANGED proven
       \/ Loaded(t, IF user.enabled THEN "issue" ELSE "enable") /\ proven' = user.secret
    /\ UNCHANGED <<audience, user, invitations, logins, clerks, claims, appToken, wrong>>

ChallengeExpires(t) ==
    /\ tabs[t].at = "challenge"
    /\ Gone(t)
    /\ UNCHANGED <<audience, user, invitations, logins, clerks, claims, appToken, proven, wrong>>

EnableTotp(t) ==
    /\ tabs[t].at = "enable"
    /\ user' = [user EXCEPT !.enabled = TRUE]
    /\ Busy(t, "issue")
    /\ UNCHANGED <<audience, invitations, logins, clerks, claims, appToken, proven, wrong>>

(* issueSession and issueMobileSession save first ...                      *)
ClearFailures(t) ==
    LET saw == tabs[t].saw
    IN  /\ tabs[t].at = "issue"
        /\ user' = [user EXCEPT !.attempts = IF saw.attempts = 0 THEN @ ELSE 0,
                                !.locked = IF saw.locked = "no" THEN @ ELSE "no"]
        /\ wrong' = 0
        /\ tabs' = [tabs EXCEPT ![t].at = "session", ![t].saw = Clean]
        /\ UNCHANGED <<audience, invitations, logins, clerks, claims, appToken, proven>>

(* ... and then create the session, without another look at the account.   *)
OpenSession(t) ==
    LET client == tabs[t].client
    IN  /\ tabs[t].at = "session"
        /\ Len(logins) < MaxSessions
        /\ logins' = Append(logins, [client |-> client, live |-> TRUE, token |-> 1])
        /\ appToken' = IF client = "web" THEN appToken
                       ELSE [login |-> Len(logins) + 1, token |-> 1, lost |-> FALSE]
        /\ Replied(t)
        /\ UNCHANGED <<audience, user, invitations, clerks, claims, proven, wrong>>

(* logout, or a request that liveSession turns away: the session is past   *)
(* its time, idle, or of an account that is not active.                    *)
EndSession(s) ==
    /\ logins[s].live
    /\ logins' = [logins EXCEPT ![s].live = FALSE]
    /\ UNCHANGED <<audience, user, invitations, people, appToken, proven, wrong>>

(* refreshDriverMobileSession: findLiveSession by the token's hash ...     *)
Refresh(t) ==
    LET s == appToken.login
    IN  /\ tabs[t] = AtDoor
        /\ s # 0 /\ logins[s].live /\ logins[s].token = appToken.token
        /\ tabs' = [tabs EXCEPT ![t] =
               [at |-> "user", client |-> "mobile", saw |-> Clean, login |-> s, token |-> 0,
                challenge |-> FALSE]]
        /\ UNCHANGED <<audience, user, invitations, logins, clerks, claims, appToken, proven,
                       wrong>>

(* ... the account must be active ...                                      *)
CheckAccount(t) ==
    LET s == tabs[t].login
    IN  /\ tabs[t].at = "user"
        /\ IF user.status = "ACTIVE"
           THEN Busy(t, "rotate") /\ UNCHANGED logins
           ELSE Gone(t) /\ logins' = [logins EXCEPT ![s].live = FALSE]
        /\ UNCHANGED <<audience, user, invitations, clerks, claims, appToken, proven, wrong>>

(* Faulty: the session lives longer, but its new hash is not stored.       *)
Extended(login) == login

Rotated(login) == [login EXCEPT !.token = @ + 1]

(* ... and rotateSessionToken writes by id.                                *)
Rotate(t) ==
    LET s == tabs[t].login
    IN  /\ tabs[t].at = "rotate"
        /\ logins[s].token <= MaxMoves
        /\ logins' = [logins EXCEPT ![s] = Rotated(@)]
        /\ tabs' = [tabs EXCEPT ![t].at = "answer", ![t].token = logins[s].token + 1]
        /\ UNCHANGED <<audience, user, invitations, clerks, claims, appToken, proven, wrong>>

Answer(t) ==
    /\ tabs[t].at = "answer"
    /\ appToken' \in {[login |-> tabs[t].login, token |-> tabs[t].token, lost |-> FALSE],
                      [appToken EXCEPT !.lost = TRUE]}
    /\ Gone(t)
    /\ UNCHANGED <<audience, user, invitations, logins, clerks, claims, proven, wrong>>

OwnerSteps(t) ==
    \/ \E client \in Clients : SignIn(t, client)
    \/ Count(t) \/ BeginEnrolment(t) \/ SaveSecret(t) \/ EnterCode(t) \/ ChallengeExpires(t)
    \/ EnableTotp(t) \/ ClearFailures(t) \/ OpenSession(t)
    \/ Refresh(t) \/ CheckAccount(t) \/ Rotate(t) \/ Answer(t)

AccountsNext ==
    \/ \E i \in DOMAIN invitations :
          InvitationExpires(i) \/ \E k \in Links : BeginAccept(k, i)
    \/ \E k \in Links : Claim(k) \/ EndOldSessions(k)
    \/ \E c \in Clerks : ClerkSteps(c)
    \/ \E t \in Tabs : OwnerSteps(t)
    \/ LockEnds
    \/ \E s \in DOMAIN logins : EndSession(s)

AccountsSpec == AccountsInit /\ [][AccountsNext]_accountsVars

-----------------------------------------------------------------------------
(* "Two tabs submitting the same link at once would otherwise both pass    *)
(* the check above": a link sets one password, however many accept it at   *)
(* once and whatever replaces it meanwhile; a replaced one sets none. And  *)
(* "the invitation follows the address, so the wrong mailbox is left a     *)
(* dead link": while an account is not in use, and no change of it is half *)
(* done, the one link that works is the one that went to its address. Two  *)
(* clerks at once can leave another one; and an account in use keeps a     *)
(* link it was sent again.                                                 *)
OneLinkWorks ==
    /\ \A i \in DOMAIN invitations :
          /\ invitations[i].uses <= 1
          /\ invitations[i].revoked => invitations[i].uses = 0
    /\ user.status = "INVITED" /\ (\A c \in Clerks : clerks[c] = AtDoor) =>
          \E i \in DOMAIN invitations :
              LiveLinks = {i} /\ invitations[i].to = user.email

(* A sign-in is earned. Wrong passwords and wrong codes are counted        *)
(* "against the same budget" and none is left out: the row's count holds   *)
(* every one there was, in any mixture, since the last lock or sign-in, so *)
(* that each MaxAttempts of them lock the account, also while a challenge  *)
(* is used over and over and a reset lands between. And "enrolment only    *)
(* completes when a code proves the authenticator actually holds it": the  *)
(* secret an account is asked codes of is one that a right code was given  *)
(* for. Two sign-ins at once can share one count, and two enrolments leave *)
(* a secret nobody proved; what a lock does not stop is LockHolds below.   *)
SignInIsEarned ==
    /\ wrong <= user.attempts
    /\ user.enabled => proven = user.secret

(* "An account locks for fifteen minutes": no attempt leads to a session   *)
(* of an account that was locked when it was judged. A password is turned  *)
(* away; a challenge that was given before the lock is not.                *)
LockHolds ==
    \A t \in Tabs : tabs[t].at = "issue" => tabs[t].saw.locked # "yes"

(* The token the app was last given opens its session for as long as there *)
(* is one, unless the answer that held a newer one was lost. Two refreshes *)
(* at once can leave the app with the older of two.                        *)
RefreshTokenWorks ==
    (\A t \in Tabs : tabs[t] = AtDoor) /\ appToken.login # 0 /\ ~appToken.lost
        => logins[appToken.login].token = appToken.token
=============================================================================
