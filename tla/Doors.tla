------------------------------- MODULE Doors -------------------------------
(***************************************************************************)
(* Who a request is let in as (shared/http/middleware/auth.ts over         *)
(* identity.service.ts): the three portals' cookies in one browser, a      *)
(* token in its Authorization header, and the driver's app.                *)
(*                                                                         *)
(* One person may hold an account of each portal and be signed in to all   *)
(* of them at once. A request is one step here: the sessions it looks up   *)
(* and the ones it revokes on the way. How a session is earned and how the *)
(* app's tokens rotate is in Accounts; permissions come after, and are     *)
(* left out.                                                               *)
(***************************************************************************)
EXTENDS Integers, Sequences

CONSTANT MaxSignIns     \* bound: the sessions issued

ASSUME DoorsAssumption == MaxSignIns \in Nat

VARIABLES
    issued,     \* user_sessions, in the order they were issued
    barred,     \* the portals whose account is not ACTIVE
    jar,        \* portal -> the session of its cookie in the browser, or 0
    header      \* caller -> the token in its Authorization header

doorsVars == <<issued, barred, jar, header>>

(* The order in which the guard for any of them tries.                     *)
audiences == <<"admin", "advertiser", "driver">>

Portals == {"admin", "advertiser", "driver"}

Callers == {"browser", "app"}

(* A session token, an access token of the app (expired or not), the app's *)
(* refresh token.                                                          *)
Token == [form : {"none", "session", "access", "expired", "refresh"}, of : 0 .. MaxSignIns]

NoToken == [form |-> "none", of |-> 0]

(* `over`: past its expiry or idle too long, which nothing has acted on.   *)
UserSession == [audience : Portals, client : {"web", "mobile"}, revoked : BOOLEAN,
                over : BOOLEAN]

DoorsTypeOK ==
    /\ issued \in Seq(UserSession) /\ Len(issued) <= MaxSignIns
    /\ barred \subseteq Portals
    /\ jar \in [Portals -> 0 .. Len(issued)]
    /\ header \in [Callers -> Token]
    /\ \A c \in Callers : header[c].of \in 0 .. Len(issued)

DoorsInit ==
    /\ issued = << >>
    /\ barred = {}
    /\ jar = [p \in Portals |-> 0]
    /\ header = [c \in Callers |-> NoToken]

-----------------------------------------------------------------------------
(* Sessions.                                                               *)

(* liveSession.                                                            *)
LiveSession(s) == ~issued[s].over /\ issued[s].audience \notin barred

(* authenticate: a session found by its token, of the portal that asks and *)
(* of a browser.                                                           *)
Authenticate(s, p) ==
    s # 0 /\ ~issued[s].revoked /\ issued[s].audience = p /\ issued[s].client = "web"

(* authenticateBearer: a signed access token, and the session it names.    *)
AuthenticateBearer(token, p) ==
    /\ p = "driver"
    /\ token.form = "access"
    /\ ~issued[token.of].revoked
    /\ issued[token.of].audience = "driver"

-----------------------------------------------------------------------------
(* The guards.                                                             *)
CookieFor(c, p) == IF c = "browser" THEN jar[p] ELSE 0

(* resolve: the session the caller's credential for this portal finds, or  *)
(* 0. A refresh token is a session's too, of the other client.             *)
Found(c, p) ==
    LET cookie == CookieFor(c, p)
        bearer == header[c]
    IN  IF cookie # 0 THEN IF Authenticate(cookie, p) THEN cookie ELSE 0
        ELSE IF \/ bearer.form \in {"session", "refresh"} /\ Authenticate(bearer.of, p)
                \/ AuthenticateBearer(bearer, p)
             THEN bearer.of ELSE 0

(* requireAuth: as which session the caller comes in, 0 where refused.     *)
ComesIn(c, p) == IF Found(c, p) # 0 /\ LiveSession(Found(c, p)) THEN Found(c, p) ELSE 0

(* The portal of a turn: each has one for its cookie and then, in the same *)
(* order, one for a bearer token.                                          *)
Turns == 1 .. 6

Asked(i) == audiences[IF i <= 3 THEN i ELSE i - 3]

(* Faulty: the first cookie found is the one that counts.                  *)
FirstCookie(c) ==
    LET cookies == {i \in 1 .. 3 : CookieFor(c, Asked(i)) # 0}
    IN  IF cookies = {} THEN 4 .. 6 ELSE {i \in cookies : \A j \in cookies : i <= j}

(* requireAnyAuth: "every cookie that is present, not the first one        *)
(* found", then a bearer token on every portal in turn.                    *)
Tries(c) ==
    {i \in Turns : IF i <= 3 THEN CookieFor(c, Asked(i)) # 0 ELSE header[c].form # "none"}

(* The turns a door has for the caller.                                    *)
TurnsAt(c, door) == IF door = "any" THEN Tries(c) ELSE {i \in 1 .. 3 : Asked(i) = door}

(* The tries that are made: up to the first that lets the caller in.       *)
Tried(c, door) ==
    {i \in TurnsAt(c, door) : \A j \in TurnsAt(c, door) : j < i => ComesIn(c, Asked(j)) = 0}

(* The session a door lets the caller in as, or 0.                         *)
Admitted(c, door) ==
    LET welcome == {i \in Tried(c, door) : ComesIn(c, Asked(i)) # 0}
    IN  IF welcome = {} THEN 0 ELSE ComesIn(c, Asked(CHOOSE i \in welcome : TRUE))

(* A session found over, or of an account that is barred, is revoked.      *)
RevokedBy(c, door) ==
    {Found(c, Asked(i)) : i \in Tried(c, door)} \ {0, Admitted(c, door)}

Revoke(S) ==
    issued' = [s \in DOMAIN issued |->
                  IF s \in S THEN [issued[s] EXCEPT !.revoked = TRUE] ELSE issued[s]]

Visit(c, door) ==
    /\ Revoke(RevokedBy(c, door))
    /\ UNCHANGED <<barred, jar, header>>

(* logout: the session the guard found, and the cookie of its portal.      *)
SignOut(c, door) ==
    LET s == Admitted(c, door)
    IN  /\ s # 0
        /\ Revoke({s} \cup RevokedBy(c, door))
        /\ jar' = IF c = "browser" THEN [jar EXCEPT ![issued[s].audience] = 0] ELSE jar
        /\ UNCHANGED <<barred, header>>

-----------------------------------------------------------------------------
(* Signing in, and what ends a session.                                    *)
Issue(p, client) ==
    /\ Len(issued) < MaxSignIns
    /\ p \notin barred
    /\ issued' = Append(issued, [audience |-> p, client |-> client, revoked |-> FALSE,
                                 over |-> FALSE])
    /\ UNCHANGED barred

(* issueSession: the answer sets the portal's cookie and holds the token   *)
(* as well; a browser of another site may not keep the cookie.             *)
PortalSignIn(p) ==
    /\ Issue(p, "web")
    /\ \/ jar' = [jar EXCEPT ![p] = Len(issued) + 1] /\ UNCHANGED header
       \/ /\ header' = [header EXCEPT !["browser"] =
                            [form |-> "session", of |-> Len(issued) + 1]]
          /\ jar' \in {jar, [jar EXCEPT ![p] = Len(issued) + 1]}

(* issueMobileSession.                                                     *)
AppSignIn ==
    /\ Issue("driver", "mobile")
    /\ header' = [header EXCEPT !["app"] = [form |-> "access", of |-> Len(issued) + 1]]
    /\ UNCHANGED jar

(* The access token lapses; the app may show the other one, or get a new.  *)
AppToken ==
    /\ header["app"] # NoToken
    /\ \E form \in {"access", "expired", "refresh"} :
        /\ form # header["app"].form
        /\ form = "access" => ~issued[header["app"].of].revoked
                              /\ LiveSession(header["app"].of)
        /\ header' = [header EXCEPT !["app"].form = form]
    /\ UNCHANGED <<issued, barred, jar>>

(* A session lapses. A phone in a pocket is not idle, but its refresh      *)
(* token has an end.                                                       *)
SessionLapses(s) ==
    /\ ~issued[s].over
    /\ issued' = [issued EXCEPT ![s].over = TRUE]
    /\ UNCHANGED <<barred, jar, header>>

(* An account leaves ACTIVE, or comes back to it.                          *)
AccountChanges(p) ==
    /\ barred' = IF p \in barred THEN barred \ {p} ELSE barred \cup {p}
    /\ UNCHANGED <<issued, jar, header>>

(* revokeAllSessionsFor: a password or an address has changed.             *)
RevokeSessionsOf(p) ==
    /\ Revoke({s \in DOMAIN issued : issued[s].audience = p})
    /\ UNCHANGED <<barred, jar, header>>

DoorsNext ==
    \/ \E c \in Callers : \/ \E door \in Portals \cup {"any"} : Visit(c, door)
                          \/ SignOut(c, IF c = "app" THEN "driver" ELSE "any")
    \/ \E p \in Portals : PortalSignIn(p) \/ AccountChanges(p) \/ RevokeSessionsOf(p)
    \/ AppSignIn \/ AppToken
    \/ \E s \in DOMAIN issued : SessionLapses(s)

DoorsSpec == DoorsInit /\ [][DoorsNext]_doorsVars

-----------------------------------------------------------------------------
(* Taking the first cookie "let a dead session veto a live one [...] so    *)
(* the portal looked signed in and said the session had ended": whatever   *)
(* the browser still carries of sessions that lapsed, were revoked or      *)
(* belong to a barred account, a door open to every portal lets a caller   *)
(* in exactly where the door of some portal would, and as the session that *)
(* door finds.                                                             *)
DoorsAgree ==
    \A c \in Callers :
        LET single == {ComesIn(c, p) : p \in Portals} \ {0}
        IN  IF single = {} THEN Admitted(c, "any") = 0 ELSE Admitted(c, "any") \in single
=============================================================================
