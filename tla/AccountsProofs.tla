--------------------------- MODULE AccountsProofs ---------------------------
(***************************************************************************)
(* Theorems about Accounts, Doors and NewAccounts, for any tabs, clerks,   *)
(* links, callers, forms and bounds.                                       *)
(***************************************************************************)
EXTENDS Accounts, Doors, NewAccounts, SequenceTheorems, TLAPS

(* The account, its links, its sign-ins and its sessions.                  *)

(* Where a sign-in or a refresh can be between two calls.                  *)
TabSteps == {"count", "challenge", "secret", "enable", "issue", "session", "user", "rotate",
             "answer"}

(* A tab, a clerk and a claim name rows that exist.                        *)
TabStates == {AtDoor} \cup
    {x \in [at : TabSteps, client : {"web", "mobile"}, saw : Failures,
            login : {0} \cup DOMAIN logins, token : Nat, challenge : BOOLEAN] :
        x.at \in {"user", "rotate", "answer"} => x.login # 0}

(* A clerk has read the user, and the links it will close.                 *)
ClerkStates == {AtDoor} \cup
    {x \in [at : {"email", "issue", "insert", "reset", "revoke", "disable"}, saw : UserRow,
            seen : SUBSET DOMAIN invitations] :
        x.at = "email" => x.saw.email < MaxMoves}

(* An accept names the link it was opened with.                            *)
ClaimStates == {AtDoor} \cup [at : {"claim", "revoke"}, link : DOMAIN invitations]

(* Every row, and every copy of a row a request holds, is of the tables.   *)
AccountRows ==
    /\ audience \in Audiences
    /\ user \in UserRow
    /\ invitations \in Seq(Invitation) /\ Len(invitations) <= MaxLinks
    /\ logins \in Seq(Login) /\ Len(logins) <= MaxSessions
    /\ tabs \in [Tabs -> TabStates]
    /\ clerks \in [Clerks -> ClerkStates]
    /\ claims \in [Links -> ClaimStates]
    /\ appToken \in [login : {0} \cup DOMAIN logins, token : Nat, lost : BOOLEAN]
    /\ proven \in 0 .. MaxSecrets
    /\ wrong \in Nat

(* With the count of wrong passwords bounded, that is the type invariant.  *)
LEMMA AccountRowsTyped == AccountRows /\ wrong <= MaxAttempts => AccountsTypeOK
<1> SUFFICES ASSUME AccountRows, wrong <= MaxAttempts PROVE AccountsTypeOK
    OBVIOUS
<1>1. /\ DOMAIN invitations \subseteq 1 .. MaxLinks
      /\ {0} \cup DOMAIN logins \subseteq 0 .. MaxSessions
    BY AccountsAssumption DEF AccountRows
<1>2. TabStates \subseteq {AtDoor} \cup
          [at : {"count", "challenge", "secret", "enable", "issue", "session", "user",
                 "rotate", "answer"},
           client : {"web", "mobile"}, saw : Failures, login : 0 .. MaxSessions,
           token : Nat, challenge : BOOLEAN]
    BY <1>1 DEF TabStates, TabSteps
<1>3. ClerkStates \subseteq {AtDoor} \cup
          [at : {"email", "issue", "insert", "reset", "revoke", "disable"},
           saw : UserRow, seen : SUBSET (1 .. MaxLinks)]
    BY <1>1 DEF ClerkStates
<1>4. ClaimStates \subseteq {AtDoor} \cup [at : {"claim", "revoke"}, link : 1 .. MaxLinks]
    BY <1>1 DEF ClaimStates
<1>5. appToken \in [login : 0 .. MaxSessions, token : Nat, lost : BOOLEAN]
    BY <1>1 DEF AccountRows
<1>6. wrong \in 0 .. MaxAttempts
    BY AccountsAssumption DEF AccountRows
<1> QED
    BY <1>2, <1>3, <1>4, <1>5, <1>6 DEF AccountRows, AccountsTypeOK

(* An account starts invited, or as a driver that has no login.            *)
LEMMA AccountsInitOK == AccountsInit => AccountRows
<1> SUFFICES ASSUME AccountsInit PROVE AccountRows
    OBVIOUS
<1>1. user \in UserRow
    BY AccountsAssumption DEF AccountsInit, UserRow, Locking
<1>2. invitations \in Seq(Invitation) /\ Len(invitations) <= MaxLinks
    <2> DEFINE first == [to |-> 0, expired |-> FALSE, revoked |-> FALSE, uses |-> 0]
    <2>1. first \in Invitation
        BY AccountsAssumption DEF Invitation
    <2>2. invitations = << >> \/ invitations = <<first>>
        BY DEF AccountsInit
    <2> HIDE DEF first
    <2>3. <<first>> \in Seq(Invitation) /\ Len(<<first>>) = 1
        BY <2>1
    <2>4. << >> \in Seq(Invitation) /\ Len(<< >>) = 0
        BY EmptySeq
    <2>5. MaxLinks \in Nat \ {0}
        BY AccountsAssumption
    <2>6. CASE invitations = << >>
        BY <2>4, <2>5, <2>6
    <2>7. CASE invitations = <<first>>
        BY <2>3, <2>5, <2>7
    <2> QED
        BY <2>2, <2>6, <2>7
<1>3. logins \in Seq(Login) /\ Len(logins) = 0 /\ Len(logins) <= MaxSessions
    BY EmptySeq, AccountsAssumption DEF AccountsInit
<1>4. /\ tabs \in [Tabs -> TabStates] /\ clerks \in [Clerks -> ClerkStates]
      /\ claims \in [Links -> ClaimStates]
    BY DEF AccountsInit, TabStates, ClerkStates, ClaimStates
<1>5. appToken \in [login : {0} \cup DOMAIN logins, token : Nat, lost : BOOLEAN]
    BY DEF AccountsInit
<1>6. audience \in Audiences /\ proven \in 0 .. MaxSecrets /\ wrong \in Nat
    BY AccountsAssumption DEF AccountsInit
<1> QED
    BY <1>1, <1>2, <1>3, <1>4, <1>5, <1>6 DEF AccountRows

-----------------------------------------------------------------------------
(* Rows are added and never taken away.                                    *)
LEMMA AccountsGrow ==
    ASSUME DOMAIN invitations \subseteq DOMAIN invitations', DOMAIN logins \subseteq DOMAIN logins'
    PROVE  /\ TabStates \subseteq TabStates' /\ ClerkStates \subseteq ClerkStates'
           /\ ClaimStates \subseteq ClaimStates'
           /\ [login : {0} \cup DOMAIN logins, token : Nat, lost : BOOLEAN]
                 \subseteq [login : {0} \cup DOMAIN logins', token : Nat, lost : BOOLEAN]
BY DEF TabStates, ClerkStates, ClaimStates

(* What every step below comes down to.                                    *)
LEMMA AccountsMove ==
    ASSUME AccountRows, UNCHANGED audience, user' \in UserRow,
           invitations' \in Seq(Invitation), Len(invitations') <= MaxLinks,
           DOMAIN invitations \subseteq DOMAIN invitations',
           logins' \in Seq(Login), Len(logins') <= MaxSessions,
           DOMAIN logins \subseteq DOMAIN logins',
           UNCHANGED tabs \/ \E t \in Tabs, x \in TabStates' : tabs' = [tabs EXCEPT ![t] = x],
           UNCHANGED clerks
              \/ \E c \in Clerks, x \in ClerkStates' : clerks' = [clerks EXCEPT ![c] = x],
           UNCHANGED claims
              \/ \E k \in Links, x \in ClaimStates' : claims' = [claims EXCEPT ![k] = x],
           UNCHANGED appToken
              \/ appToken' \in [login : {0} \cup DOMAIN logins', token : Nat, lost : BOOLEAN],
           proven' \in 0 .. MaxSecrets, wrong' \in Nat
    PROVE  AccountRows'
<1>1. /\ TabStates \subseteq TabStates' /\ ClerkStates \subseteq ClerkStates'
      /\ ClaimStates \subseteq ClaimStates'
      /\ [login : {0} \cup DOMAIN logins, token : Nat, lost : BOOLEAN]
            \subseteq [login : {0} \cup DOMAIN logins', token : Nat, lost : BOOLEAN]
    BY AccountsGrow
<1>2. tabs' \in [Tabs -> TabStates']
    BY <1>1 DEF AccountRows
<1>3. clerks' \in [Clerks -> ClerkStates']
    BY <1>1 DEF AccountRows
<1>4. claims' \in [Links -> ClaimStates']
    BY <1>1 DEF AccountRows
<1>5. appToken' \in [login : {0} \cup DOMAIN logins', token : Nat, lost : BOOLEAN]
    BY <1>1 DEF AccountRows
<1> QED
    BY <1>2, <1>3, <1>4, <1>5 DEF AccountRows

(* One row of a table of logins or of invitations changes.                 *)
LEMMA LoginChanged ==
    ASSUME AccountRows, NEW s \in DOMAIN logins, NEW x \in Login,
           logins' = [logins EXCEPT ![s] = x]
    PROVE  logins' \in Seq(Login) /\ Len(logins') <= MaxSessions /\ DOMAIN logins' = DOMAIN logins
<1>1. s \in 1 .. Len(logins)
    BY DEF AccountRows
<1> QED
    BY <1>1, ExceptSeq DEF AccountRows

(* A link that is spent or closed is still a link.                         *)
LEMMA InvitationChanged ==
    ASSUME AccountRows, NEW i \in DOMAIN invitations, NEW x \in Invitation,
           invitations' = [invitations EXCEPT ![i] = x]
    PROVE  /\ invitations' \in Seq(Invitation) /\ Len(invitations') <= MaxLinks
           /\ DOMAIN invitations' = DOMAIN invitations
<1>1. i \in 1 .. Len(invitations)
    BY DEF AccountRows
<1> QED
    BY <1>1, ExceptSeq DEF AccountRows

(* So are the links that are closed together.                              *)
LEMMA AllRevoked ==
    ASSUME AccountRows, RevokeAll
    PROVE  /\ logins' \in Seq(Login) /\ Len(logins') = Len(logins)
           /\ DOMAIN logins' = DOMAIN logins
           /\ \A s \in DOMAIN logins : logins'[s].token = logins[s].token
<1>1. DOMAIN logins = 1 .. Len(logins) /\ Len(logins) \in Nat
    BY DEF AccountRows
<1>2. \A s \in DOMAIN logins : logins[s] \in Login
    BY DEF AccountRows
<1>3. \A s \in DOMAIN logins : /\ [logins[s] EXCEPT !.live = FALSE] \in Login
                               /\ [logins[s] EXCEPT !.live = FALSE].token = logins[s].token
    BY <1>2 DEF Login
<1>4. logins' \in [1 .. Len(logins) -> Login]
    BY <1>1, <1>3 DEF RevokeAll
<1>5. logins' \in Seq(Login)
    BY <1>1, <1>4, SeqDef
<1>6. Len(logins') = Len(logins) /\ DOMAIN logins' = DOMAIN logins
    BY <1>1, <1>4, <1>5, LenProperties
<1>7. \A s \in DOMAIN logins : logins'[s].token = logins[s].token
    BY <1>3 DEF RevokeAll
<1> QED
    BY <1>5, <1>6, <1>7

(* The steps of the invitations.                                           *)
LEMMA InvitationStepOK ==
    ASSUME AccountRows,
           \/ \E i \in DOMAIN invitations :
                 InvitationExpires(i) \/ \E k \in Links : BeginAccept(k, i)
           \/ \E k \in Links : Claim(k) \/ EndOldSessions(k)
    PROVE  AccountRows'
<1>1. ASSUME NEW i \in DOMAIN invitations, InvitationExpires(i) PROVE AccountRows'
    <2>1. invitations[i] \in Invitation
        BY DEF AccountRows
    <2>2. [invitations[i] EXCEPT !.expired = TRUE] \in Invitation
        BY <2>1 DEF Invitation
    <2>3. invitations' = [invitations EXCEPT ![i] = [invitations[i] EXCEPT !.expired = TRUE]]
        BY <1>1 DEF InvitationExpires
    <2>4. /\ invitations' \in Seq(Invitation) /\ Len(invitations') <= MaxLinks
          /\ DOMAIN invitations' = DOMAIN invitations
        BY <2>2, <2>3, InvitationChanged
    <2>5. UNCHANGED <<audience, user, logins, people, appToken, proven, wrong>>
        BY <1>1 DEF InvitationExpires
    <2> QED
        BY <2>4, <2>5, AccountsMove DEF AccountRows, people
<1>2. ASSUME NEW i \in DOMAIN invitations, NEW k \in Links, BeginAccept(k, i)
      PROVE  AccountRows'
    <2>1. UNCHANGED <<audience, user, invitations, logins, tabs, clerks, appToken, proven, wrong>>
        BY <1>2 DEF BeginAccept
    <2>2. [at |-> "claim", link |-> i] \in ClaimStates'
        BY <2>1 DEF ClaimStates
    <2> QED
        BY <1>2, <2>1, <2>2, AccountsMove DEF AccountRows, BeginAccept
<1>3. ASSUME NEW k \in Links, Claim(k) PROVE AccountRows'
    <2> DEFINE i == claims[k].link
    <2>1. claims[k] \in ClaimStates /\ claims[k].at = "claim"
        BY <1>3 DEF Claim, AccountRows
    <2>2. i \in DOMAIN invitations
        BY <2>1 DEF ClaimStates, AtDoor
    <2>3. invitations[i] \in Invitation
        BY <2>2 DEF AccountRows
    <2>4. UNCHANGED <<audience, logins, tabs, clerks, appToken, proven>>
        BY <1>3 DEF Claim
    <2>5. CASE Claims(i) /\ ~invitations[i].revoked
        <3>1. invitations[i].uses = 0
            BY <2>5 DEF Claims, Usable
        <3>2. [invitations[i] EXCEPT !.uses = invitations[i].uses + 1] \in Invitation
            BY <2>3, <3>1 DEF Invitation
        <3>3. /\ invitations' = [invitations EXCEPT ![i] =
                                    [invitations[i] EXCEPT !.uses = invitations[i].uses + 1]]
              /\ user' = [user EXCEPT !.status = "ACTIVE", !.attempts = 0, !.locked = "no"]
              /\ wrong' = 0
              /\ claims' = [claims EXCEPT ![k] = [claims[k] EXCEPT !.at = "revoke"]]
            BY <1>3, <2>5 DEF Claim
        <3>4. /\ invitations' \in Seq(Invitation) /\ Len(invitations') <= MaxLinks
              /\ DOMAIN invitations' = DOMAIN invitations
            BY <2>2, <3>2, <3>3, InvitationChanged
        <3>5. user' \in UserRow
            <4>1. user \in UserRow /\ 0 \in 0 .. MaxAttempts - 1
                BY AccountsAssumption DEF AccountRows
            <4> QED
                BY <3>3, <4>1 DEF UserRow, Locking
        <3>6. [claims[k] EXCEPT !.at = "revoke"] \in ClaimStates'
            BY <2>1, <3>4 DEF ClaimStates, AtDoor
        <3> QED
            BY <2>4, <3>3, <3>4, <3>5, <3>6, AccountsMove DEF AccountRows
    <2>6. CASE ~(Claims(i) /\ ~invitations[i].revoked)
        <3>1. UNCHANGED <<invitations, user, wrong>> /\ claims' = [claims EXCEPT ![k] = AtDoor]
            BY <1>3, <2>6 DEF Claim
        <3>2. AtDoor \in ClaimStates'
            BY DEF ClaimStates
        <3> QED
            BY <2>4, <3>1, <3>2, AccountsMove DEF AccountRows
    <2> QED
        BY <2>5, <2>6
<1>4. ASSUME NEW k \in Links, EndOldSessions(k) PROVE AccountRows'
    <2>1. /\ UNCHANGED <<audience, user, invitations, tabs, clerks, appToken, proven, wrong>>
          /\ claims' = [claims EXCEPT ![k] = AtDoor] /\ RevokeAll
        BY <1>4 DEF EndOldSessions
    <2>2. AtDoor \in ClaimStates'
        BY DEF ClaimStates
    <2>3. /\ logins' \in Seq(Login) /\ Len(logins') <= MaxSessions
          /\ DOMAIN logins' = DOMAIN logins
        BY <2>1, AllRevoked DEF AccountRows
    <2> QED
        BY <2>1, <2>2, <2>3, AccountsMove DEF AccountRows
<1> QED
    BY <1>1, <1>2, <1>3, <1>4

(* A clerk that goes on.                                                   *)
LEMMA ClerkMoved ==
    ASSUME NEW me \in ClerkStates, me.at # "door", NEW step \in {"issue", "insert", "revoke"},
           NEW email \in 0 .. MaxMoves, NEW seen \in SUBSET DOMAIN invitations
    PROVE  /\ [me EXCEPT !.at = step] \in ClerkStates
           /\ [me EXCEPT !.at = step, !.seen = seen] \in ClerkStates
           /\ [me EXCEPT !.at = step, !.saw.email = email] \in ClerkStates
<1> DEFINE Steps == {"email", "issue", "insert", "reset", "revoke", "disable"}
           Shape == [at : Steps, saw : UserRow, seen : SUBSET DOMAIN invitations]
<1>1. me \in Shape
    BY DEF ClerkStates, AtDoor
<1>2. step \in Steps /\ step # "email"
    OBVIOUS
<1>3. [me.saw EXCEPT !.email = email] \in UserRow
    BY <1>1 DEF UserRow
<1> HIDE DEF Steps
<1>4. [me EXCEPT !.at = step] \in Shape /\ [me EXCEPT !.at = step].at = step
    BY <1>1, <1>2
<1>5. /\ [me EXCEPT !.at = step, !.seen = seen] \in Shape
      /\ [me EXCEPT !.at = step, !.seen = seen].at = step
    BY <1>1, <1>2
<1>6. /\ [me EXCEPT !.at = step, !.saw = [me.saw EXCEPT !.email = email]] \in Shape
      /\ [me EXCEPT !.at = step, !.saw = [me.saw EXCEPT !.email = email]].at = step
    BY <1>1, <1>2, <1>3
<1>7. [me EXCEPT !.at = step, !.saw.email = email]
          = [me EXCEPT !.at = step, !.saw = [me.saw EXCEPT !.email = email]]
    BY <1>1
<1>8. \A x \in Shape : x.at # "email" => x \in ClerkStates
    BY DEF ClerkStates, Steps
<1> HIDE DEF Shape
<1> QED
    BY <1>2, <1>4, <1>5, <1>6, <1>7, <1>8

(* A clerk's copy is of the row, with the account's status and address.    *)
LEMMA CopyIsRow ==
    ASSUME AccountRows, NEW step
    PROVE  /\ Copy(step) \in UserRow
           /\ Copy(step).email = user.email /\ Copy(step).status = user.status
<1>1. user \in UserRow /\ 0 \in 0 .. MaxAttempts - 1 /\ 0 \in 0 .. MaxSecrets /\ "no" \in Locking
    BY AccountsAssumption DEF AccountRows, Locking
<1> QED
    BY <1>1 DEF Copy, UserRow

(* The steps of the back office.                                           *)
LEMMA ClerkStepOK ==
    ASSUME AccountRows, NEW c \in Clerks, ClerkSteps(c) PROVE AccountRows'
<1> DEFINE me == clerks[c]
<1>1. me \in ClerkStates /\ user \in UserRow
    BY DEF AccountRows
<1>2. AtDoor \in ClerkStates /\ AtDoor \in ClerkStates'
    BY DEF ClerkStates
<1>3. 0 \in 0 .. MaxAttempts - 1 /\ 0 \in 0 .. MaxSecrets /\ MaxMoves \in Nat
    BY AccountsAssumption
<1>4. ASSUME NEW step \in {"issue", "reset", "email"}, LoadUser(c, step),
             step = "email" => user.email < MaxMoves
      PROVE  AccountRows'
    <2> DEFINE saw == Copy(step)
    <2>1. UNCHANGED <<audience, user, invitations, logins, tabs, claims, appToken, proven, wrong>>
        BY <1>4 DEF LoadUser
    <2>2. saw \in UserRow /\ saw.email = user.email
        BY CopyIsRow
    <2> HIDE DEF saw
    <2>3. [at |-> step, saw |-> saw, seen |-> {}] \in ClerkStates'
        BY <1>4, <2>2 DEF ClerkStates
    <2>4. clerks' = [clerks EXCEPT ![c] = [at |-> step, saw |-> saw, seen |-> {}]]
        BY <1>4 DEF LoadUser, saw
    <2> QED
        BY <2>1, <2>3, <2>4, AccountsMove DEF AccountRows
<1>5. CASE Resend(c) \/ ChangeEmail(c)
    BY <1>4, <1>5 DEF Resend, ChangeEmail
<1>6. CASE DisableDriver(c)
    <2>1. /\ UNCHANGED <<audience, user, invitations, tabs, claims, appToken, proven, wrong>>
          /\ clerks' = [clerks EXCEPT ![c] =
                 [at |-> "disable", saw |-> Copy("disable"), seen |-> {}]]
          /\ RevokeAll
        BY <1>6 DEF DisableDriver
    <2>2. /\ logins' \in Seq(Login) /\ Len(logins') <= MaxSessions
          /\ DOMAIN logins' = DOMAIN logins
        BY <2>1, AllRevoked DEF AccountRows
    <2>3. [at |-> "disable", saw |-> Copy("disable"), seen |-> {}] \in ClerkStates'
        BY CopyIsRow DEF ClerkStates
    <2> QED
        BY <2>1, <2>2, <2>3, AccountsMove DEF AccountRows
<1>12. CASE CommitDisabled(c)
    <2>1. /\ UNCHANGED <<audience, invitations, logins, tabs, claims, appToken, proven, wrong>>
          /\ user' = [user EXCEPT !.status = "DISABLED"]
          /\ clerks' = [clerks EXCEPT ![c] = AtDoor]
        BY <1>12 DEF CommitDisabled
    <2>2. user' \in UserRow
        BY <1>1, <2>1 DEF UserRow
    <2> QED
        BY <1>2, <2>1, <2>2, AccountsMove DEF AccountRows
<1>7. CASE SaveEmail(c)
    <2> DEFINE x == [me EXCEPT !.at = AfterMove(me.saw), !.saw.email = me.saw.email + 1]
    <2>1. /\ UNCHANGED <<audience, invitations, logins, tabs, claims, appToken, proven, wrong>>
          /\ user' = [user EXCEPT !.email = me.saw.email + 1]
          /\ clerks' = [clerks EXCEPT ![c] = x]
          /\ me.at = "email"
        BY <1>7 DEF SaveEmail
    <2>2. me.saw \in UserRow /\ me.saw.email < MaxMoves /\ me.seen \subseteq DOMAIN invitations
        BY <1>1, <2>1 DEF ClerkStates, AtDoor
    <2>3. me.saw.email + 1 \in 0 .. MaxMoves
        BY <1>3, <2>2 DEF UserRow
    <2>4. user' \in UserRow
        BY <1>1, <2>1, <2>3 DEF UserRow
    <2>5. AfterMove(me.saw) \in {"issue", "revoke"} /\ me.at # "door"
        BY <2>1 DEF AfterMove
    <2>6. x \in ClerkStates
        <3> HIDE DEF me
        <3> QED
            BY <1>1, <2>3, <2>5, ClerkMoved
    <2>8. x \in ClerkStates'
        BY <2>1, <2>6 DEF ClerkStates
    <2> QED
        BY <2>1, <2>4, <2>8, AccountsMove DEF AccountRows
<1>8. CASE RevokeLinks(c)
    <2>1. /\ UNCHANGED <<audience, user, invitations, logins, tabs, claims, appToken, proven,
                         wrong>>
          /\ clerks' = [clerks EXCEPT ![c] = [me EXCEPT !.at = "insert", !.seen = LiveLinks]]
          /\ me.at = "issue"
        BY <1>8 DEF RevokeLinks
    <2>2. LiveLinks \subseteq DOMAIN invitations /\ me.at # "door"
        BY <2>1 DEF LiveLinks
    <2>3. [me EXCEPT !.at = "insert", !.seen = LiveLinks] \in ClerkStates
        <3> HIDE DEF me
        <3>1. 0 \in 0 .. MaxMoves
            BY <1>3
        <3> QED
            BY <1>1, <2>2, <3>1, ClerkMoved
    <2>5. [me EXCEPT !.at = "insert", !.seen = LiveLinks] \in ClerkStates'
        BY <2>1, <2>3 DEF ClerkStates
    <2> QED
        BY <2>1, <2>3, <2>5, AccountsMove DEF AccountRows
<1>9. CASE InsertLink(c)
    <2> DEFINE new == [to |-> me.saw.email, expired |-> FALSE, revoked |-> FALSE, uses |-> 0]
               old == [i \in DOMAIN invitations |->
                         [invitations[i] EXCEPT !.revoked = @ \/ i \in me.seen]]
    <2>1. /\ UNCHANGED <<audience, user, logins, tabs, claims, appToken, proven, wrong>>
          /\ clerks' = [clerks EXCEPT ![c] = AtDoor]
          /\ me.at = "insert" /\ Len(invitations) < MaxLinks
          /\ UNCHANGED invitations \/ invitations' = Append(old, new)
        BY <1>9 DEF InsertLink
    <2>2. new \in Invitation
        BY <1>1, <2>1 DEF ClerkStates, AtDoor, UserRow, Invitation
    <2>3. old \in Seq(Invitation) /\ Len(old) = Len(invitations)
        <3>1. DOMAIN invitations = 1 .. Len(invitations) /\ Len(invitations) \in Nat
            BY DEF AccountRows
        <3>2. \A i \in DOMAIN invitations : invitations[i] \in Invitation
            BY DEF AccountRows
        <3>3. \A i \in DOMAIN invitations :
                  [invitations[i] EXCEPT !.revoked = @ \/ i \in me.seen] \in Invitation
            BY <3>2 DEF Invitation
        <3>4. old \in [1 .. Len(invitations) -> Invitation]
            BY <3>1, <3>3
        <3> QED
            BY <3>1, <3>4, SeqDef
    <2> HIDE DEF new, old
    <2>4. /\ Append(old, new) \in Seq(Invitation)
          /\ Len(Append(old, new)) = Len(invitations) + 1
        BY <2>2, <2>3, AppendProperties
    <2>5. /\ DOMAIN Append(old, new) = 1 .. Len(invitations) + 1
          /\ DOMAIN invitations = 1 .. Len(invitations) /\ Len(invitations) \in Nat
        BY <2>4 DEF AccountRows
    <2>6. MaxLinks \in Nat
        BY AccountsAssumption
    <2>7. /\ invitations' \in Seq(Invitation) /\ Len(invitations') <= MaxLinks
          /\ DOMAIN invitations \subseteq DOMAIN invitations'
        <3>1. CASE UNCHANGED invitations
            BY <3>1 DEF AccountRows
        <3>2. CASE invitations' = Append(old, new)
            <4>1. Len(invitations') <= MaxLinks
                BY <2>1, <2>4, <2>5, <2>6, <3>2
            <4>2. DOMAIN invitations \subseteq DOMAIN invitations'
                BY <2>5, <3>2
            <4> QED
                BY <2>4, <3>2, <4>1, <4>2
        <3> QED
            BY <2>1, <3>1, <3>2
    <2> QED
        BY <1>2, <2>1, <2>7, AccountsMove DEF AccountRows
<1>10. CASE ResetPassword(c)
    <2>1. /\ UNCHANGED <<audience, invitations, logins, tabs, claims, appToken, proven>>
          /\ clerks' = [clerks EXCEPT ![c] = [me EXCEPT !.at = "revoke"]]
          /\ me.at = "reset"
        BY <1>10 DEF ResetPassword
    <2>4. wrong' \in Nat
        BY <1>10 DEF ResetPassword, AccountRows
    <2>2. user' \in UserRow
        BY <1>1, <1>3, <1>10 DEF ResetPassword, UserRow, Locking
    <2>3. [me EXCEPT !.at = "revoke"] \in ClerkStates'
        BY <1>1, <2>1 DEF ClerkStates, AtDoor
    <2> HIDE DEF me
    <2>5. \E x \in ClerkStates' : clerks' = [clerks EXCEPT ![c] = x]
        BY <2>1, <2>3
    <2> QED
        BY <2>1, <2>2, <2>4, <2>5, AccountsMove DEF AccountRows
<1>11. CASE SignOutEverywhere(c)
    <2>1. /\ UNCHANGED <<audience, user, invitations, tabs, claims, appToken, proven, wrong>>
          /\ clerks' = [clerks EXCEPT ![c] = AtDoor] /\ RevokeAll
        BY <1>11 DEF SignOutEverywhere
    <2>2. /\ logins' \in Seq(Login) /\ Len(logins') <= MaxSessions
          /\ DOMAIN logins' = DOMAIN logins
        BY <2>1, AllRevoked DEF AccountRows
    <2> QED
        BY <1>2, <2>1, <2>2, AccountsMove DEF AccountRows
<1> QED
    BY <1>5, <1>6, <1>7, <1>8, <1>9, <1>10, <1>11, <1>12 DEF ClerkSteps

(* A tab that goes on, with what it saw.                                   *)
LEMMA TabMoved ==
    ASSUME NEW me \in TabStates, me.at # "door",
           NEW step \in TabSteps, step \in {"user", "rotate", "answer"} => me.login # 0,
           NEW saw \in Failures, NEW token \in Nat
    PROVE  /\ [me EXCEPT !.at = step] \in TabStates
           /\ [me EXCEPT !.at = step, !.saw = saw] \in TabStates
           /\ [me EXCEPT !.at = step, !.token = token] \in TabStates
<1> DEFINE Shape == [at : TabSteps, client : {"web", "mobile"}, saw : Failures,
                     login : {0} \cup DOMAIN logins, token : Nat, challenge : BOOLEAN]
           Fits(x) == x \in Shape /\ x.at = step /\ x.login = me.login
<1>1. me \in Shape
    BY DEF TabStates, AtDoor
<1>2. Fits([me EXCEPT !.at = step])
    BY <1>1
<1>3. Fits([me EXCEPT !.at = step, !.saw = saw])
    BY <1>1
<1>4. Fits([me EXCEPT !.at = step, !.token = token])
    BY <1>1
<1>5. \A x : Fits(x) => x \in TabStates
    BY DEF TabStates
<1> HIDE DEF Fits
<1> QED
    BY <1>2, <1>3, <1>4, <1>5

(* A tab whose request is answered is back at its challenge, or gone.      *)
LEMMA TabReplied ==
    ASSUME AccountRows, NEW t \in Tabs, tabs[t].at # "door", Replied(t)
    PROVE  /\ \E x \in TabStates : tabs' = [tabs EXCEPT ![t] = x]
           /\ tabs'[t].at \in {"door", "challenge"}
<1> DEFINE me == tabs[t]
           back == [me EXCEPT !.at = "challenge", !.saw = Clean]
<1>1. me \in TabStates /\ tabs \in [Tabs -> TabStates]
    BY DEF AccountRows
<1>2. Clean \in Failures
    BY AccountsAssumption DEF Clean, Failures, Locking
<1>3. back \in TabStates
    <2>1. "challenge" \in TabSteps \ {"user", "rotate", "answer"} /\ me.at # "door" /\ 0 \in Nat
        BY DEF TabSteps
    <2> HIDE DEF me
    <2> QED
        BY <1>1, <1>2, <2>1, TabMoved
<1>4. back.at = "challenge"
    BY <1>1 DEF TabStates, AtDoor
<1>5. AtDoor \in TabStates /\ AtDoor.at = "door"
    BY DEF TabStates, AtDoor
<1>6. \/ tabs' = [tabs EXCEPT ![t] = back]
      \/ tabs' = [tabs EXCEPT ![t] = AtDoor]
    BY DEF Replied
<1> HIDE DEF back
<1>7. \E x \in TabStates : tabs' = [tabs EXCEPT ![t] = x]
    BY <1>3, <1>5, <1>6
<1>8. tabs'[t].at \in {"door", "challenge"}
    BY <1>1, <1>4, <1>5, <1>6
<1> QED
    BY <1>7, <1>8

(* The owner's steps that move a tab and no login.                         *)
LEMMA TabStepOK ==
    ASSUME AccountRows, NEW t \in Tabs,
           \/ \E client \in Clients : SignIn(t, client)
           \/ BeginEnrolment(t) \/ EnterCode(t) \/ ChallengeExpires(t) \/ Refresh(t)
    PROVE  AccountRows'
<1> DEFINE me == tabs[t]
<1>1. me \in TabStates /\ user \in UserRow
    BY DEF AccountRows
<1>2. UNCHANGED <<audience, user, invitations, logins, clerks, claims, appToken, wrong>>
    BY DEF SignIn, BeginEnrolment, EnterCode, ChallengeExpires, Refresh
<1>3. TabStates' = TabStates
    BY <1>2 DEF TabStates
<1>4. Clean \in Failures /\ \A step : Seen(step) \in Failures
    BY <1>1, AccountsAssumption DEF Clean, Failures, Seen, UserRow, Locking
<1>5. ASSUME NEW step \in TabSteps \ {"user", "rotate", "answer"}, NEW client \in {"web", "mobile"},
             Arrives(t, step, client)
      PROVE  \E x \in TabStates : tabs' = [tabs EXCEPT ![t] = x]
    <2>1. [at |-> step, client |-> client, saw |-> Seen(step), login |-> 0, token |-> 0,
           challenge |-> step = "challenge"] \in TabStates
        BY <1>4 DEF TabStates
    <2> QED
        BY <1>5, <2>1 DEF Arrives
<1>6. ASSUME NEW step \in TabSteps \ {"user", "rotate", "answer"}, me.at = "challenge",
             Loaded(t, step)
      PROVE  \E x \in TabStates : tabs' = [tabs EXCEPT ![t] = x]
    <2>1. [me EXCEPT !.at = step, !.saw = Seen(step)] \in TabStates
        BY <1>1, <1>4, <1>6, TabMoved
    <2> QED
        BY <1>6, <2>1 DEF Loaded
<1>7. proven' \in 0 .. MaxSecrets
    <2>1. proven' \in {proven, user.secret}
        BY DEF SignIn, BeginEnrolment, EnterCode, ChallengeExpires, Refresh
    <2> QED
        BY <1>1, <2>1 DEF AccountRows, UserRow
<1>8. \E x \in TabStates : tabs' = [tabs EXCEPT ![t] = x]
    <2>1. ASSUME NEW client \in Clients, SignIn(t, client)
          PROVE  \E x \in TabStates : tabs' = [tabs EXCEPT ![t] = x]
        <3>1. client \in {"web", "mobile"} /\ AfterPassword(client) \subseteq {"issue", "challenge"}
            BY DEF Clients, AfterPassword
        <3> QED
            BY <1>5, <2>1, <3>1 DEF SignIn, TabSteps
    <2>2. CASE BeginEnrolment(t)
        BY <1>6, <2>2 DEF BeginEnrolment, TabSteps
    <2>3. CASE EnterCode(t)
        BY <1>6, <2>3 DEF EnterCode, TabSteps
    <2>4. CASE ChallengeExpires(t)
        BY <2>4 DEF ChallengeExpires, Gone, TabStates
    <2>5. CASE Refresh(t)
        <3>1. appToken.login \in DOMAIN logins /\ appToken.login # 0
            BY <2>5 DEF Refresh, AccountRows
        <3>2. [at |-> "user", client |-> "mobile", saw |-> Clean, login |-> appToken.login,
               token |-> 0, challenge |-> FALSE] \in TabStates
            BY <1>4, <3>1 DEF TabStates, TabSteps
        <3> QED
            BY <2>5, <3>2 DEF Refresh
    <2> QED
        BY <2>1, <2>2, <2>3, <2>4, <2>5
<1> QED
    BY <1>2, <1>3, <1>7, <1>8, AccountsMove DEF AccountRows

(* What a sign-in writes on the account.                                   *)
LEMMA CountWraps ==
    ASSUME NEW n \in 1 .. MaxAttempts
    PROVE  /\ n % MaxAttempts \in 0 .. MaxAttempts - 1
           /\ Locks(n) <=> n = MaxAttempts
           /\ n % MaxAttempts = IF Locks(n) THEN 0 ELSE n
<1>1. MaxAttempts \in Nat \ {0}
    BY AccountsAssumption
<1>2. CASE n = MaxAttempts
    BY <1>1, <1>2 DEF Locks
<1>3. CASE n < MaxAttempts
    BY <1>1, <1>3 DEF Locks
<1> QED
    BY <1>1, <1>2, <1>3

(* The steps of a sign-in.                                                 *)
LEMMA SignInStepOK ==
    ASSUME AccountRows, NEW t \in Tabs,
           \/ Count(t) \/ SaveSecret(t) \/ EnableTotp(t) \/ ClearFailures(t)
    PROVE  AccountRows'
<1> DEFINE me == tabs[t]
<1>1. me \in TabStates /\ user \in UserRow
    BY DEF AccountRows
<1>2. UNCHANGED <<audience, invitations, logins, clerks, claims, appToken, proven>>
    BY DEF Count, SaveSecret, EnableTotp, ClearFailures
<1>3. TabStates' = TabStates
    BY <1>2 DEF TabStates
<1>4. Clean \in Failures
    BY AccountsAssumption DEF Clean, Failures, Locking
<1>5. user' \in UserRow /\ wrong' \in Nat /\ \E x \in TabStates : tabs' = [tabs EXCEPT ![t] = x]
    <2>1. CASE Count(t)
        <3> DEFINE n == me.saw.attempts + 1
        <3>1. n \in 1 .. MaxAttempts
            BY <1>1, <2>1, AccountsAssumption DEF Count, TabStates, AtDoor, Failures
        <3>2. n % MaxAttempts \in 0 .. MaxAttempts - 1
            BY <3>1, CountWraps
        <3>3. /\ user' = [user EXCEPT !.attempts = n % MaxAttempts,
                                      !.locked = IF Locks(n) THEN "yes" ELSE @]
              /\ wrong' = (IF Locks(n) THEN 0 ELSE wrong + 1)
              /\ Replied(t) /\ me.at # "door"
            BY <2>1 DEF Count
        <3>4. \E x \in TabStates : tabs' = [tabs EXCEPT ![t] = x]
            BY <3>3, TabReplied
        <3> HIDE DEF n
        <3>5. user' \in UserRow
            BY <1>1, <3>2, <3>3 DEF UserRow, Locking
        <3>6. wrong' \in Nat
            BY <3>3 DEF AccountRows
        <3> QED
            BY <3>4, <3>5, <3>6
    <2>2. CASE SaveSecret(t)
        <3>1. /\ me.at = "secret" /\ user.secret < MaxSecrets
              /\ user' = [user EXCEPT !.secret = user.secret + 1] /\ UNCHANGED wrong
              /\ tabs' = [tabs EXCEPT ![t] = [me EXCEPT !.at = "challenge"]]
            BY <2>2 DEF SaveSecret, Busy
        <3>2. user.secret + 1 \in 0 .. MaxSecrets
            BY <1>1, <3>1, AccountsAssumption DEF UserRow
        <3>3. user' \in UserRow
            BY <1>1, <3>1, <3>2 DEF UserRow
        <3>4. [me EXCEPT !.at = "challenge"] \in TabStates
            <4>1. "challenge" \in TabSteps \ {"user", "rotate", "answer"}
                  /\ me.at # "door" /\ 0 \in Nat
                BY <3>1 DEF TabSteps
            <4> HIDE DEF me
            <4> QED
                BY <1>1, <1>4, <4>1, TabMoved
        <3> QED
            BY <3>1, <3>3, <3>4 DEF AccountRows
    <2>3. CASE EnableTotp(t)
        <3>1. /\ me.at = "enable"
              /\ user' = [user EXCEPT !.enabled = TRUE] /\ UNCHANGED wrong
              /\ tabs' = [tabs EXCEPT ![t] = [me EXCEPT !.at = "issue"]]
            BY <2>3 DEF EnableTotp, Busy
        <3>3. user' \in UserRow
            BY <1>1, <3>1 DEF UserRow
        <3>4. [me EXCEPT !.at = "issue"] \in TabStates
            <4>1. "issue" \in TabSteps \ {"user", "rotate", "answer"}
                  /\ me.at # "door" /\ 0 \in Nat
                BY <3>1 DEF TabSteps
            <4> HIDE DEF me
            <4> QED
                BY <1>1, <1>4, <4>1, TabMoved
        <3> QED
            BY <3>1, <3>3, <3>4 DEF AccountRows
    <2>4. CASE ClearFailures(t)
        <3>1. /\ me.at = "issue" /\ wrong' = 0
              /\ user' = [user EXCEPT !.attempts = IF me.saw.attempts = 0 THEN @ ELSE 0,
                                      !.locked = IF me.saw.locked = "no" THEN @ ELSE "no"]
              /\ tabs' = [tabs EXCEPT ![t] = [me EXCEPT !.at = "session", !.saw = Clean]]
            BY <2>4 DEF ClearFailures
        <3>2. 0 \in 0 .. MaxAttempts - 1
            BY AccountsAssumption
        <3>3. user' \in UserRow
            BY <1>1, <3>1, <3>2 DEF UserRow, Locking
        <3>4. [me EXCEPT !.at = "session", !.saw = Clean] \in TabStates
            <4>1. "session" \in TabSteps \ {"user", "rotate", "answer"}
                  /\ me.at # "door" /\ 0 \in Nat
                BY <3>1 DEF TabSteps
            <4> HIDE DEF me
            <4> QED
                BY <1>1, <1>4, <4>1, TabMoved
        <3> QED
            BY <3>1, <3>3, <3>4
    <2> QED
        BY <2>1, <2>2, <2>3, <2>4
<1> QED
    BY <1>2, <1>3, <1>5, AccountsMove DEF AccountRows

(* The steps of the sessions.                                              *)
LEMMA SessionStepOK ==
    ASSUME AccountRows, NEW t \in Tabs,
           OpenSession(t) \/ CheckAccount(t) \/ Rotate(t) \/ Answer(t)
    PROVE  AccountRows'
<1> DEFINE me == tabs[t]
           Tokens == [login : {0} \cup DOMAIN logins, token : Nat, lost : BOOLEAN]
<1>1. me \in TabStates /\ appToken \in Tokens
    BY DEF AccountRows
<1>2. UNCHANGED <<audience, user, invitations, clerks, claims, proven, wrong>>
    BY DEF OpenSession, CheckAccount, Rotate, Answer
<1>3. AtDoor \in TabStates'
    BY DEF TabStates
<1>4. Clean \in Failures
    BY AccountsAssumption DEF Clean, Failures, Locking
<1>5. DOMAIN logins = 1 .. Len(logins) /\ Len(logins) \in Nat
    BY DEF AccountRows
<1>6. CASE OpenSession(t)
    <2> DEFINE new == [client |-> me.client, live |-> TRUE, token |-> 1]
               given == [login |-> Len(logins) + 1, token |-> 1, lost |-> FALSE]
    <2>1. /\ Len(logins) < MaxSessions /\ logins' = Append(logins, new)
          /\ appToken' \in {appToken, given} /\ Replied(t) /\ me.at # "door"
        BY <1>6 DEF OpenSession
    <2>2. new \in Login
        BY <1>1, <1>6 DEF OpenSession, TabStates, AtDoor, Login
    <2> HIDE DEF new
    <2>3. logins' \in Seq(Login) /\ Len(logins') = Len(logins) + 1
        BY <2>1, <2>2, AppendProperties DEF AccountRows
    <2>4. DOMAIN logins' = 1 .. Len(logins) + 1
        BY <2>3
    <2>5. Len(logins') <= MaxSessions /\ DOMAIN logins \subseteq DOMAIN logins'
        BY <1>5, <2>1, <2>3, <2>4, AccountsAssumption
    <2>6. given \in [login : {0} \cup DOMAIN logins', token : Nat, lost : BOOLEAN]
        BY <1>5, <2>4
    <2>7. appToken' \in [login : {0} \cup DOMAIN logins', token : Nat, lost : BOOLEAN]
        BY <1>1, <2>1, <2>5, <2>6
    <2>8. \E x \in TabStates : tabs' = [tabs EXCEPT ![t] = x]
        BY <2>1, TabReplied
    <2>9. TabStates \subseteq TabStates'
        BY <2>5 DEF TabStates
    <2> QED
        BY <1>2, <2>1, <2>3, <2>5, <2>7, <2>8, <2>9, AccountsMove DEF AccountRows
<1>7. CASE CheckAccount(t)
    <2>1. UNCHANGED appToken /\ me.at = "user"
        BY <1>7 DEF CheckAccount
    <2>2. me.login \in DOMAIN logins /\ me.login # 0
        BY <1>1, <2>1 DEF TabStates, AtDoor
    <2>3. CASE user.status = "ACTIVE"
        <3>1. UNCHANGED logins /\ tabs' = [tabs EXCEPT ![t] = [me EXCEPT !.at = "rotate"]]
            BY <1>7, <2>3 DEF CheckAccount, Busy
        <3>2. [me EXCEPT !.at = "rotate"] \in TabStates
            <4>1. "rotate" \in TabSteps /\ me.at # "door" /\ 0 \in Nat
                BY <2>1 DEF TabSteps
            <4> HIDE DEF me
            <4> QED
                BY <1>1, <1>4, <2>2, <4>1, TabMoved
        <3>3. [me EXCEPT !.at = "rotate"] \in TabStates'
            BY <3>1, <3>2 DEF TabStates
        <3> QED
            BY <1>2, <2>1, <3>1, <3>3, AccountsMove DEF AccountRows
    <2>4. CASE user.status # "ACTIVE"
        <3> DEFINE ended == [logins[me.login] EXCEPT !.live = FALSE]
        <3>1. /\ tabs' = [tabs EXCEPT ![t] = AtDoor]
              /\ logins' = [logins EXCEPT ![me.login] = ended]
            BY <1>7, <2>4 DEF CheckAccount, Gone
        <3>2. logins[me.login] \in Login
            BY <2>2 DEF AccountRows
        <3>3. ended \in Login
            BY <3>2 DEF Login
        <3>4. /\ logins' \in Seq(Login) /\ Len(logins') <= MaxSessions
              /\ DOMAIN logins' = DOMAIN logins
            BY <2>2, <3>1, <3>3, LoginChanged
        <3> QED
            BY <1>2, <1>3, <2>1, <3>1, <3>4, AccountsMove DEF AccountRows
    <2> QED
        BY <2>3, <2>4
<1>8. CASE Rotate(t)
    <2> DEFINE new == Rotated(logins[me.login])
               next == [me EXCEPT !.at = "answer", !.token = logins[me.login].token + 1]
    <2>1. /\ UNCHANGED appToken /\ me.at = "rotate"
          /\ logins' = [logins EXCEPT ![me.login] = new] /\ tabs' = [tabs EXCEPT ![t] = next]
        BY <1>8 DEF Rotate
    <2>2. me.login \in DOMAIN logins /\ me.login # 0
        BY <1>1, <2>1 DEF TabStates, AtDoor
    <2>3. logins[me.login] \in Login
        BY <2>2 DEF AccountRows
    <2>4. new \in Login /\ logins[me.login].token + 1 \in Nat
        BY <2>3 DEF Login, Rotated
    <2>5. logins' \in Seq(Login) /\ Len(logins') <= MaxSessions /\ DOMAIN logins' = DOMAIN logins
        BY <2>1, <2>2, <2>4, LoginChanged
    <2>6. next \in TabStates
        <3>1. "answer" \in TabSteps /\ me.at # "door"
            BY <2>1 DEF TabSteps
        <3> HIDE DEF me
        <3> QED
            BY <1>1, <1>4, <2>2, <2>4, <3>1, TabMoved
    <2>7. next \in TabStates'
        BY <2>5, <2>6 DEF TabStates
    <2> HIDE DEF new, next
    <2> QED
        BY <1>2, <2>1, <2>5, <2>7, AccountsMove DEF AccountRows
<1>9. CASE Answer(t)
    <2>1. /\ UNCHANGED logins /\ me.at = "answer" /\ tabs' = [tabs EXCEPT ![t] = AtDoor]
          /\ appToken' \in {[login |-> me.login, token |-> me.token, lost |-> FALSE],
                            [appToken EXCEPT !.lost = TRUE]}
        BY <1>9 DEF Answer, Gone
    <2>2. me.login \in {0} \cup DOMAIN logins /\ me.token \in Nat
        BY <1>1, <2>1 DEF TabStates, AtDoor
    <2>3. appToken' \in [login : {0} \cup DOMAIN logins', token : Nat, lost : BOOLEAN]
        <3>1. /\ [login |-> me.login, token |-> me.token, lost |-> FALSE] \in Tokens
              /\ [appToken EXCEPT !.lost = TRUE] \in Tokens
            BY <1>1, <2>2
        <3>2. appToken' \in Tokens
            <4> HIDE DEF Tokens, me
            <4> QED
                BY <2>1, <3>1
        <3> QED
            BY <2>1, <3>2
    <2> QED
        BY <1>2, <1>3, <2>1, <2>3, AccountsMove DEF AccountRows
<1> QED
    BY <1>6, <1>7, <1>8, <1>9

(* Every step leaves rows of the tables.                                   *)
LEMMA AccountsStepOK == AccountRows /\ [AccountsNext]_accountsVars => AccountRows'
<1> SUFFICES ASSUME AccountRows, [AccountsNext]_accountsVars PROVE AccountRows'
    OBVIOUS
<1>1. CASE UNCHANGED accountsVars
    BY <1>1 DEF accountsVars, people, AccountRows, TabStates, ClerkStates, ClaimStates
<1>2. CASE LockEnds
    <2>1. user' \in UserRow
        BY <1>2 DEF LockEnds, AccountRows, UserRow, Locking
    <2>2. UNCHANGED <<audience, invitations, logins, people, appToken, proven, wrong>>
        BY <1>2 DEF LockEnds
    <2> QED
        BY <2>1, <2>2, AccountsMove DEF AccountRows, people
<1>3. ASSUME NEW s \in DOMAIN logins, EndSession(s) PROVE AccountRows'
    <2> DEFINE ended == [logins[s] EXCEPT !.live = FALSE]
    <2>1. /\ logins' = [logins EXCEPT ![s] = ended]
          /\ UNCHANGED <<audience, user, invitations, people, appToken, proven, wrong>>
        BY <1>3 DEF EndSession
    <2>2. logins[s] \in Login
        BY DEF AccountRows
    <2>3. ended \in Login
        BY <2>2 DEF Login
    <2>4. logins' \in Seq(Login) /\ Len(logins') <= MaxSessions /\ DOMAIN logins' = DOMAIN logins
        BY <2>1, <2>3, LoginChanged
    <2> QED
        BY <2>1, <2>4, AccountsMove DEF AccountRows, people
<1>4. ASSUME NEW t \in Tabs, OwnerSteps(t) PROVE AccountRows'
    BY <1>4, TabStepOK, SignInStepOK, SessionStepOK DEF OwnerSteps
<1> QED
    BY <1>1, <1>2, <1>3, <1>4, InvitationStepOK, ClerkStepOK DEF AccountsNext

-----------------------------------------------------------------------------
(* A link is used once, and never after it was closed.                     *)
LinkUses ==
    /\ \A i \in DOMAIN invitations :
          /\ invitations[i].uses <= 1
          /\ invitations[i].revoked => invitations[i].uses = 0
    /\ \A c \in Clerks : clerks[c].at = "insert" =>
          \A i \in clerks[c].seen : invitations[i].uses = 0

(* One link is live, and it went to the address the account has.           *)
LinkFits == \E i \in DOMAIN invitations : LiveLinks = {i} /\ invitations[i].to = user.email

(* What a clerk holds of an invited account is what the rows still say.    *)
ClerkFits(c) ==
    /\ clerks[c].at \notin {"reset", "revoke", "disable"}
    /\ clerks[c].at \in {"email", "issue", "insert"} => clerks[c].saw.email = user.email
    /\ clerks[c].at = "email" => clerks[c].saw.status = "INVITED"
    /\ clerks[c].at = "insert" => clerks[c].seen = LiveLinks

(* An invited account has its link, or a clerk at work on the next one.    *)
InvitedIInv ==
    user.status = "INVITED" =>
        /\ audience # "driver"
        /\ LinkFits \/ \E c \in Clerks : clerks[c].at \in {"issue", "insert"}
        /\ \A c \in Clerks : ClerkFits(c)

(* Only a driver is given a temporary password, or is removed.             *)
ResetIInv == \A c \in Clerks : clerks[c].at \in {"reset", "disable"} => audience = "driver"

(* What a sign-in holds: a count of failures no lower than the row, and at *)
(* its last step a code of the secret the row has.                         *)
TabEarns(t) ==
    /\ tabs[t].at = "count" => tabs[t].saw.attempts >= user.attempts
    /\ tabs[t].at = "secret" => ~user.enabled
    /\ tabs[t].at = "enable" => proven = user.secret

(* No wrong password has gone uncounted.                                   *)
EarnedIInv ==
    /\ wrong <= user.attempts
    /\ user.enabled => proven = user.secret
    /\ \A t \in Tabs : TabEarns(t)

(* A refresh is of the session the app holds; the new token is in the row  *)
(* before it is answered.                                                  *)
TabRefreshes(t) ==
    /\ tabs[t].at \in {"user", "rotate", "answer"} =>
          tabs[t].login = appToken.login /\ appToken.login # 0
    /\ tabs[t].at = "answer" => logins[appToken.login].token = tabs[t].token

(* The token the app holds is the one the row has, once nothing is on the  *)
(* wire.                                                                   *)
TokenIInv ==
    /\ \A t \in Tabs : TabRefreshes(t)
    /\ (\A t \in Tabs : tabs[t].at # "answer") /\ appToken.login # 0 /\ ~appToken.lost
          => logins[appToken.login].token = appToken.token
-----------------------------------------------------------------------------
(* What neither a claim nor the back office does.                          *)
LEMMA QuietForLinks ==
    ASSUME AccountRows,
           \/ \E i \in DOMAIN invitations, k \in Links : BeginAccept(k, i)
           \/ \E k \in Links : EndOldSessions(k)
           \/ \E t \in Tabs : OwnerSteps(t)
           \/ LockEnds \/ \E s \in DOMAIN logins : EndSession(s)
    PROVE  UNCHANGED <<audience, invitations, clerks, user.status, user.email>>
<1>1. user \in UserRow
    BY DEF AccountRows
<1>2. CASE UNCHANGED <<audience, invitations, clerks, user>>
    BY <1>2
<1>3. ASSUME NEW t \in Tabs, Count(t) \/ SaveSecret(t) \/ EnableTotp(t) \/ ClearFailures(t)
      PROVE  UNCHANGED <<audience, invitations, clerks, user.status, user.email>>
    BY <1>1, <1>3 DEF Count, SaveSecret, EnableTotp, ClearFailures, UserRow
<1>4. CASE LockEnds
    BY <1>1, <1>4 DEF LockEnds, UserRow, people
<1>5. ASSUME NEW t \in Tabs, OwnerSteps(t),
             ~(Count(t) \/ SaveSecret(t) \/ EnableTotp(t) \/ ClearFailures(t))
      PROVE  UNCHANGED <<audience, invitations, clerks, user>>
    BY <1>5 DEF OwnerSteps, SignIn, BeginEnrolment, EnterCode, ChallengeExpires, OpenSession,
                Refresh, CheckAccount, Rotate, Answer
<1>6. ASSUME NEW i \in DOMAIN invitations, NEW k \in Links, BeginAccept(k, i)
      PROVE  UNCHANGED <<audience, invitations, clerks, user>>
    BY <1>6 DEF BeginAccept
<1>7. ASSUME NEW k \in Links, EndOldSessions(k)
      PROVE  UNCHANGED <<audience, invitations, clerks, user>>
    BY <1>7 DEF EndOldSessions
<1>8. ASSUME NEW s \in DOMAIN logins, EndSession(s)
      PROVE  UNCHANGED <<audience, invitations, clerks, user>>
    BY <1>8 DEF EndSession, people
<1> QED
    BY <1>2, <1>3, <1>4, <1>5, <1>6, <1>7, <1>8

(* What a step does to the invitations: nothing, one of the four below.    *)
LEMMA LinkSteps ==
    ASSUME AccountRows, [AccountsNext]_accountsVars
    PROVE  \/ UNCHANGED <<audience, invitations, clerks, user.status, user.email>>
           \/ \E i \in DOMAIN invitations : InvitationExpires(i)
           \/ \E k \in Links : Claim(k)
           \/ \E c \in Clerks : ClerkSteps(c)
<1>1. CASE UNCHANGED accountsVars
    BY <1>1 DEF accountsVars, people
<1> QED
    BY <1>1, QuietForLinks DEF AccountsNext

(* What an issue appends and revokes.                                      *)
LEMMA LinkInserted ==
    ASSUME AccountRows, NEW c \in Clerks, InsertLink(c)
    PROVE  \/ UNCHANGED invitations /\ ~(LiveLinks \subseteq clerks[c].seen)
           \/ /\ LiveLinks \subseteq clerks[c].seen
              /\ Len(invitations) \in Nat
              /\ DOMAIN invitations = 1 .. Len(invitations)
              /\ DOMAIN invitations' = 1 .. Len(invitations) + 1
              /\ \A i \in DOMAIN invitations :
                    /\ invitations'[i].uses = invitations[i].uses
                    /\ invitations'[i].revoked <=> invitations[i].revoked \/ i \in clerks[c].seen
              /\ invitations'[Len(invitations) + 1].to = clerks[c].saw.email
              /\ invitations'[Len(invitations) + 1].uses = 0
              /\ ~invitations'[Len(invitations) + 1].revoked
<1> DEFINE seen == clerks[c].seen
           new == [to |-> clerks[c].saw.email, expired |-> FALSE, revoked |-> FALSE, uses |-> 0]
           old == [i \in DOMAIN invitations |->
                     [invitations[i] EXCEPT !.revoked = @ \/ i \in seen]]
<1>1. CASE ~(LiveLinks \subseteq seen)
    BY <1>1 DEF InsertLink
<1>2. CASE LiveLinks \subseteq seen
    <2>1. invitations' = Append(old, new)
        BY <1>2 DEF InsertLink
    <2>2. DOMAIN invitations = 1 .. Len(invitations) /\ Len(invitations) \in Nat
        BY DEF AccountRows
    <2>3. \A i \in DOMAIN invitations : invitations[i] \in Invitation
        BY DEF AccountRows
    <2>4. \A i \in DOMAIN invitations :
              /\ old[i] \in Invitation /\ old[i].uses = invitations[i].uses
              /\ old[i].revoked <=> invitations[i].revoked \/ i \in seen
        BY <2>3 DEF Invitation
    <2>5. old \in [1 .. Len(invitations) -> Invitation]
        BY <2>2, <2>4
    <2>6. new.to = clerks[c].saw.email /\ new.uses = 0 /\ ~new.revoked
        OBVIOUS
    <2>7. old \in Seq(Invitation) /\ Len(old) = Len(invitations)
        BY <2>2, <2>5, SeqDef
    <2>8. new \in Invitation
        <3>1. clerks[c] \in ClerkStates /\ clerks[c].at = "insert"
            BY DEF InsertLink, AccountRows
        <3> QED
            BY <3>1 DEF ClerkStates, AtDoor, UserRow, Invitation
    <2> HIDE DEF old, new
    <2>9. /\ \A i \in 1 .. Len(old) : Append(old, new)[i] = old[i]
          /\ Append(old, new)[Len(old) + 1] = new /\ Len(Append(old, new)) = Len(old) + 1
          /\ Append(old, new) \in Seq(Invitation)
        BY <2>7, <2>8, AppendProperties
    <2>10. /\ \A i \in DOMAIN invitations : invitations'[i] = old[i]
           /\ invitations'[Len(invitations) + 1] = new
           /\ DOMAIN invitations' = 1 .. Len(invitations) + 1
        BY <2>1, <2>2, <2>7, <2>9
    <2> QED
        BY <1>2, <2>2, <2>4, <2>6, <2>10
<1> QED
    BY <1>1, <1>2

(* No link has been used.                                                  *)
LEMMA LinkUsesInit == AccountsInit => LinkUses
<1> SUFFICES ASSUME AccountsInit PROVE LinkUses
    OBVIOUS
<1>1. \A i \in DOMAIN invitations : invitations[i].uses = 0
    BY DEF AccountsInit
<1>2. \A c \in Clerks : clerks[c].at # "insert"
    BY DEF AccountsInit, AtDoor
<1> QED
    BY <1>1, <1>2 DEF LinkUses

(* Every step uses a link at most once.                                    *)
LEMMA LinkUsesStep ==
    ASSUME AccountRows, LinkUses, [AccountsNext]_accountsVars PROVE LinkUses'
<1>1. CASE UNCHANGED <<audience, invitations, clerks, user.status, user.email>>
    BY <1>1 DEF LinkUses
<1>2. ASSUME NEW i \in DOMAIN invitations, InvitationExpires(i) PROVE LinkUses'
    <2>1. /\ invitations' = [invitations EXCEPT ![i].expired = TRUE] /\ UNCHANGED clerks
          /\ invitations \in Seq(Invitation)
        BY <1>2 DEF InvitationExpires, AccountRows, people
    <2>2. DOMAIN invitations' = DOMAIN invitations
        BY <2>1
    <2>3. \A j \in DOMAIN invitations : /\ invitations'[j].uses = invitations[j].uses
                                        /\ invitations'[j].revoked = invitations[j].revoked
        <3> SUFFICES ASSUME NEW j \in DOMAIN invitations
                     PROVE  /\ invitations'[j].uses = invitations[j].uses
                            /\ invitations'[j].revoked = invitations[j].revoked
            OBVIOUS
        <3>1. invitations[j] \in Invitation
            BY <2>1
        <3>2. invitations'[j] \in {invitations[j], [invitations[j] EXCEPT !.expired = TRUE]}
            BY <2>1
        <3> QED
            BY <3>1, <3>2 DEF Invitation
    <2>4. \A c \in Clerks : clerks[c].at = "insert" => clerks[c].seen \subseteq DOMAIN invitations
        BY DEF AccountRows, ClerkStates, AtDoor
    <2> QED
        BY <2>1, <2>2, <2>3, <2>4 DEF LinkUses
<1>3. ASSUME NEW k \in Links, Claim(k) PROVE LinkUses'
    <2> DEFINE i == claims[k].link
    <2>1. CASE UNCHANGED <<invitations, clerks>>
        BY <2>1 DEF LinkUses
    <2>2. CASE Claims(i) /\ ~invitations[i].revoked
        <3>1. /\ invitations' = [invitations EXCEPT ![i].uses = @ + 1] /\ UNCHANGED clerks
              /\ invitations[i].uses = 0 /\ ~invitations[i].revoked /\ ~Locked(i)
              /\ claims[k] \in ClaimStates /\ claims[k].at = "claim"
            BY <1>3, <2>2 DEF Claim, Claims, Usable, AccountRows
        <3>2. i \in DOMAIN invitations
            BY <3>1 DEF ClaimStates, AtDoor
        <3>3. invitations[i] \in Invitation
            BY <3>2 DEF AccountRows
        <3>4. invitations'[i].uses = 1 /\ ~invitations'[i].revoked
            BY <3>1, <3>2, <3>3 DEF Invitation
        <3>5. /\ DOMAIN invitations' = DOMAIN invitations
              /\ \A j \in DOMAIN invitations : j # i => invitations'[j] = invitations[j]
            BY <3>1
        <3>6. \A c \in Clerks : clerks[c].at = "insert" =>
                  i \notin clerks[c].seen /\ clerks[c].seen \subseteq DOMAIN invitations
            BY <3>1 DEF Locked, AccountRows, ClerkStates, AtDoor
        <3> HIDE DEF i
        <3> QED
            BY <3>1, <3>4, <3>5, <3>6 DEF LinkUses
    <2> QED
        BY <1>3, <2>1, <2>2 DEF Claim
<1>4. ASSUME NEW c \in Clerks, RevokeLinks(c) PROVE LinkUses'
    <2>1. /\ UNCHANGED invitations
          /\ clerks' = [clerks EXCEPT ![c] = [clerks[c] EXCEPT !.at = "insert", !.seen = LiveLinks]]
          /\ clerks \in [Clerks -> ClerkStates] /\ clerks[c].at = "issue"
        BY <1>4 DEF RevokeLinks, AccountRows
    <2>2. clerks'[c].seen = LiveLinks
        BY <2>1 DEF ClerkStates, AtDoor
    <2>3. \A d \in Clerks : d # c => clerks'[d] = clerks[d]
        BY <2>1
    <2> QED
        BY <2>1, <2>2, <2>3 DEF LinkUses, LiveLinks, Usable
<1>5. ASSUME NEW c \in Clerks, InsertLink(c) PROVE LinkUses'
    <2>1. /\ clerks' = [clerks EXCEPT ![c] = AtDoor] /\ clerks[c].at = "insert"
          /\ clerks \in [Clerks -> ClerkStates]
        BY <1>5 DEF InsertLink, AccountRows
    <2>2. \A d \in Clerks : clerks'[d].at = "insert" => clerks'[d] = clerks[d]
        BY <2>1 DEF AtDoor
    <2>3. \A d \in Clerks : clerks[d].at = "insert" => clerks[d].seen \subseteq DOMAIN invitations
        BY <2>1 DEF ClerkStates, AtDoor
    <2>4. CASE UNCHANGED invitations
        BY <2>2, <2>4 DEF LinkUses
    <2>5. CASE ~UNCHANGED invitations
        <3> DEFINE n == Len(invitations)
        <3>1. /\ n \in Nat /\ DOMAIN invitations = 1 .. n /\ DOMAIN invitations' = 1 .. n + 1
              /\ \A i \in DOMAIN invitations :
                    /\ invitations'[i].uses = invitations[i].uses
                    /\ invitations'[i].revoked <=> invitations[i].revoked \/ i \in clerks[c].seen
              /\ invitations'[n + 1].uses = 0 /\ ~invitations'[n + 1].revoked
            BY <1>5, <2>5, LinkInserted
        <3>2. \A i \in clerks[c].seen : invitations[i].uses = 0
            BY <2>1 DEF LinkUses
        <3> HIDE DEF n
        <3>3. \A i \in DOMAIN invitations' : i \in DOMAIN invitations \/ i = n + 1
            BY <3>1
        <3>4. \A i \in DOMAIN invitations' : /\ invitations'[i].uses <= 1
                                             /\ invitations'[i].revoked => invitations'[i].uses = 0
            BY <3>1, <3>2, <3>3 DEF LinkUses
        <3>5. \A d \in Clerks : clerks'[d].at = "insert" =>
                  \A i \in clerks'[d].seen : invitations'[i].uses = 0
            BY <2>2, <2>3, <3>1 DEF LinkUses
        <3> QED
            BY <3>4, <3>5 DEF LinkUses
    <2> QED
        BY <2>4, <2>5
<1>6. ASSUME NEW c \in Clerks, ClerkSteps(c), ~RevokeLinks(c), ~InsertLink(c) PROVE LinkUses'
    <2>1. UNCHANGED invitations
        BY <1>6 DEF ClerkSteps, Resend, ChangeEmail, LoadUser, DisableDriver, CommitDisabled,
                    SaveEmail, ResetPassword, SignOutEverywhere
    <2>2. \A d \in Clerks : d # c => clerks'[d] = clerks[d]
        BY <1>6 DEF ClerkSteps, Resend, ChangeEmail, LoadUser, DisableDriver, CommitDisabled,
                    SaveEmail, ResetPassword, SignOutEverywhere, AccountRows
    <2>3. clerks'[c].at # "insert"
        <3>1. clerks \in [Clerks -> ClerkStates]
            BY DEF AccountRows
        <3>2. CASE SaveEmail(c) \/ ResetPassword(c)
            BY <3>1, <3>2 DEF SaveEmail, ResetPassword, AfterMove, ClerkStates, AtDoor
        <3>3. CASE \/ Resend(c) \/ ChangeEmail(c) \/ DisableDriver(c) \/ CommitDisabled(c)
                 \/ SignOutEverywhere(c)
            BY <3>1, <3>3
               DEF Resend, ChangeEmail, LoadUser, DisableDriver, CommitDisabled,
                   SignOutEverywhere, AtDoor
        <3> QED
            BY <1>6, <3>2, <3>3 DEF ClerkSteps
    <2> QED
        BY <2>1, <2>2, <2>3 DEF LinkUses
<1> QED
    BY <1>1, <1>2, <1>3, <1>4, <1>5, <1>6, LinkSteps
-----------------------------------------------------------------------------
(* One request of the back office at a time.                               *)
OneClerk == \A c, d \in Clerks : c = d

(* The account is invited with its link, or needs none.                    *)
LEMMA InvitedInit == AccountsInit => InvitedIInv /\ ResetIInv
<1> SUFFICES ASSUME AccountsInit PROVE InvitedIInv /\ ResetIInv
    OBVIOUS
<1>1. \A c \in Clerks : clerks[c].at = "door"
    BY DEF AccountsInit, AtDoor
<1>2. ASSUME user.status = "INVITED" PROVE audience # "driver" /\ LinkFits
    <2> DEFINE first == [to |-> 0, expired |-> FALSE, revoked |-> FALSE, uses |-> 0]
    <2>1. audience # "driver" /\ user.email = 0 /\ invitations = <<first>>
        BY <1>2 DEF AccountsInit
    <2>2. DOMAIN invitations = {1} /\ invitations[1] = first
        BY <2>1
    <2>3. LiveLinks = {1} /\ invitations[1].to = 0
        BY <2>2 DEF LiveLinks, Usable
    <2> QED
        BY <2>1, <2>2, <2>3 DEF LinkFits
<1> QED
    BY <1>1, <1>2 DEF InvitedIInv, ResetIInv, ClerkFits

(* A reset begins for a driver, and the audience is for ever.              *)
LEMMA ResetStep ==
    ASSUME AccountRows, ResetIInv, [AccountsNext]_accountsVars PROVE ResetIInv'
<1>1. UNCHANGED clerks \/ \E c \in Clerks : ClerkSteps(c)
    BY LinkSteps DEF InvitationExpires, Claim, people
<1>2. UNCHANGED audience
    BY LinkSteps DEF InvitationExpires, Claim, ClerkSteps, Resend, ChangeEmail, LoadUser,
                     DisableDriver, CommitDisabled, SaveEmail, RevokeLinks, InsertLink,
                     ResetPassword, SignOutEverywhere
<1>3. ASSUME NEW c \in Clerks, ClerkSteps(c)
      PROVE  \A d \in Clerks : 
              clerks'[d].at \in {"reset", "disable"} =>
                  clerks'[d] = clerks[d] \/ audience = "driver"
    <2>1. clerks \in [Clerks -> ClerkStates]
        BY DEF AccountRows
    <2>2. CASE Resend(c)
        BY <2>1, <2>2 DEF Resend, LoadUser
    <2>3. CASE \/ ChangeEmail(c) \/ DisableDriver(c) \/ CommitDisabled(c) \/ InsertLink(c)
             \/ SignOutEverywhere(c)
        BY <2>1, <2>3 DEF ChangeEmail, LoadUser, DisableDriver, CommitDisabled, InsertLink,
                          SignOutEverywhere, AtDoor
    <2>4. CASE SaveEmail(c) \/ RevokeLinks(c) \/ ResetPassword(c)
        BY <2>1, <2>4 DEF SaveEmail, RevokeLinks, ResetPassword, AfterMove, ClerkStates, AtDoor
    <2> QED
        BY <1>3, <2>2, <2>3, <2>4 DEF ClerkSteps
<1> QED
    BY <1>1, <1>2, <1>3 DEF ResetIInv

(* Every step leaves an invited account its link.                          *)
LEMMA InvitedStep ==
    ASSUME OneClerk, AccountRows, InvitedIInv, ResetIInv, [AccountsNext]_accountsVars
    PROVE  InvitedIInv'
<1> SUFFICES ASSUME user'.status = "INVITED"
             PROVE  /\ audience' # "driver"
                    /\ LinkFits' \/ \E c \in Clerks : clerks'[c].at \in {"issue", "insert"}
                    /\ \A c \in Clerks : ClerkFits(c)'
    BY DEF InvitedIInv
<1> DEFINE Halfway == \E c \in Clerks : clerks[c].at \in {"issue", "insert"}
<1>1. user \in UserRow /\ clerks \in [Clerks -> ClerkStates] /\ invitations \in Seq(Invitation)
    BY DEF AccountRows
<1>2. CASE /\ UNCHANGED <<audience, clerks, user.status, user.email>>
           /\ DOMAIN invitations' = DOMAIN invitations
           /\ \A i \in DOMAIN invitations : /\ invitations'[i].uses = invitations[i].uses
                                            /\ invitations'[i].revoked = invitations[i].revoked
                                            /\ invitations'[i].to = invitations[i].to
    <2>1. LiveLinks' = LiveLinks
        BY <1>2 DEF LiveLinks, Usable
    <2>2. LinkFits => LinkFits'
        BY <1>2, <2>1 DEF LinkFits
    <2> QED
        BY <1>2, <2>1, <2>2 DEF InvitedIInv, ClerkFits
<1>3. CASE UNCHANGED <<audience, invitations, clerks, user.status, user.email>>
    BY <1>2, <1>3
<1>4. ASSUME NEW i \in DOMAIN invitations, InvitationExpires(i)
      PROVE  /\ UNCHANGED <<audience, clerks, user.status, user.email>>
             /\ DOMAIN invitations' = DOMAIN invitations
             /\ \A j \in DOMAIN invitations : /\ invitations'[j].uses = invitations[j].uses
                                              /\ invitations'[j].revoked = invitations[j].revoked
                                              /\ invitations'[j].to = invitations[j].to
    <2>1. invitations' = [invitations EXCEPT ![i].expired = TRUE]
        BY <1>4 DEF InvitationExpires
    <2>2. UNCHANGED <<audience, clerks, user>>
        BY <1>4 DEF InvitationExpires, people
    <2>3. ASSUME NEW j \in DOMAIN invitations
          PROVE  /\ invitations'[j].uses = invitations[j].uses
                 /\ invitations'[j].revoked = invitations[j].revoked
                 /\ invitations'[j].to = invitations[j].to
        <3>1. invitations[j] \in Invitation
            BY <1>1
        <3>2. invitations'[j] \in {invitations[j], [invitations[j] EXCEPT !.expired = TRUE]}
            BY <2>1
        <3> QED
            BY <3>1, <3>2 DEF Invitation
    <2> QED
        BY <2>1, <2>2, <2>3
<1>5. ASSUME NEW k \in Links, Claim(k)
      PROVE  UNCHANGED <<audience, invitations, clerks, user.status, user.email>>
    <2>1. user' # [user EXCEPT !.status = "ACTIVE", !.attempts = 0, !.locked = "no"]
        BY <1>1 DEF UserRow
    <2> QED
        BY <1>5, <2>1 DEF Claim
<1>6. ASSUME NEW c \in Clerks, ClerkSteps(c)
      PROVE  /\ audience' # "driver"
             /\ LinkFits' \/ \E d \in Clerks : clerks'[d].at \in {"issue", "insert"}
             /\ \A d \in Clerks : ClerkFits(d)'
    <2> DEFINE me == clerks[c]
    <2>1. \A d \in Clerks : d = c
        BY DEF OneClerk
    <2>2. me \in ClerkStates
        BY <1>1
    <2>3. user.status = "INVITED"
        BY <1>1, <1>6 DEF ClerkSteps, Resend, ChangeEmail, LoadUser, DisableDriver,
                          CommitDisabled, SaveEmail, RevokeLinks, InsertLink, ResetPassword,
                          SignOutEverywhere, UserRow, ResetIInv, InvitedIInv, ClerkFits
    <2>4. audience # "driver" /\ ClerkFits(c) /\ (LinkFits \/ me.at \in {"issue", "insert"})
        BY <2>1, <2>3 DEF InvitedIInv
    <2>5. UNCHANGED audience
        BY <1>6 DEF ClerkSteps, Resend, ChangeEmail, LoadUser, DisableDriver, CommitDisabled,
                    SaveEmail, RevokeLinks, InsertLink, ResetPassword, SignOutEverywhere
    <2>6. CASE Resend(c)
        <3>1. /\ UNCHANGED <<user, invitations>>
              /\ clerks' = [clerks EXCEPT ![c] = [at |-> "issue", saw |-> Copy("issue"),
                                                seen |-> {}]]
            BY <2>4, <2>6 DEF Resend, LoadUser
        <3>2. clerks'[c].at = "issue" /\ clerks'[c].saw.email = user'.email
            BY <1>1, <3>1, CopyIsRow
        <3> QED
            BY <2>1, <2>4, <2>5, <3>2 DEF ClerkFits
    <2>7. CASE ChangeEmail(c)
        <3>1. /\ UNCHANGED <<user, invitations>> /\ me = AtDoor
              /\ clerks' = [clerks EXCEPT ![c] = [at |-> "email", saw |-> Copy("email"),
                                                seen |-> {}]]
            BY <2>7 DEF ChangeEmail, LoadUser
        <3>2. /\ clerks'[c].at = "email" /\ clerks'[c].saw.email = user'.email
              /\ clerks'[c].saw.status = "INVITED"
            BY <1>1, <2>3, <3>1, CopyIsRow
        <3>3. LinkFits
            BY <2>4, <3>1 DEF AtDoor
        <3>4. LinkFits'
            BY <3>1, <3>3 DEF LinkFits, LiveLinks, Usable
        <3> QED
            BY <2>1, <2>4, <2>5, <3>2, <3>4 DEF ClerkFits
    <2>8. CASE SaveEmail(c)
        <3>1. /\ UNCHANGED invitations /\ me.at = "email"
              /\ user' = [user EXCEPT !.email = me.saw.email + 1]
              /\ clerks' = [clerks EXCEPT ![c] = [me EXCEPT !.at = AfterMove(me.saw),
                                                           !.saw.email = me.saw.email + 1]]
            BY <2>8 DEF SaveEmail
        <3>2. AfterMove(me.saw) = "issue"
            BY <2>4, <3>1 DEF ClerkFits, AfterMove
        <3>3. clerks'[c].at = "issue" /\ clerks'[c].saw.email = me.saw.email + 1
            BY <1>1, <2>2, <3>1, <3>2 DEF ClerkStates, AtDoor, UserRow
        <3>4. user'.email = me.saw.email + 1
            BY <1>1, <3>1 DEF UserRow
        <3> QED
            BY <2>1, <2>4, <2>5, <3>3, <3>4 DEF ClerkFits
    <2>9. CASE RevokeLinks(c)
        <3>1. /\ UNCHANGED <<user, invitations>> /\ me.at = "issue"
              /\ clerks' = [clerks EXCEPT ![c] = [me EXCEPT !.at = "insert", !.seen = LiveLinks]]
            BY <2>9 DEF RevokeLinks
        <3>2. clerks'[c].at = "insert" /\ clerks'[c].saw = me.saw /\ clerks'[c].seen = LiveLinks
            BY <1>1, <2>2, <3>1 DEF ClerkStates, AtDoor
        <3>3. LiveLinks' = LiveLinks
            BY <3>1 DEF LiveLinks, Usable
        <3>4. me.saw.email = user.email
            BY <2>4, <3>1 DEF ClerkFits
        <3> QED
            BY <2>1, <2>4, <2>5, <3>1, <3>2, <3>3, <3>4 DEF ClerkFits
    <2>10. CASE InsertLink(c)
        <3> DEFINE n == Len(invitations)
        <3>1. /\ UNCHANGED user /\ me.at = "insert"
              /\ clerks' = [clerks EXCEPT ![c] = AtDoor]
            BY <2>10 DEF InsertLink
        <3>2. clerks'[c].at = "door"
            BY <1>1, <3>1 DEF AtDoor
        <3>3. me.seen = LiveLinks /\ me.saw.email = user.email
            BY <2>4, <3>1 DEF ClerkFits
        <3>4. /\ n \in Nat /\ DOMAIN invitations = 1 .. n /\ DOMAIN invitations' = 1 .. n + 1
              /\ \A i \in DOMAIN invitations :
                    /\ invitations'[i].uses = invitations[i].uses
                    /\ invitations'[i].revoked <=> invitations[i].revoked \/ i \in me.seen
              /\ invitations'[n + 1].to = user.email
              /\ invitations'[n + 1].uses = 0 /\ ~invitations'[n + 1].revoked
            BY <2>10, <3>3, LinkInserted
        <3> HIDE DEF n
        <3>5. n + 1 \in DOMAIN invitations'
            BY <3>4
        <3>6. \A i \in DOMAIN invitations' :
                  i = n + 1 \/ invitations'[i].uses # 0 \/ invitations'[i].revoked
            <4> SUFFICES ASSUME NEW i \in DOMAIN invitations', i # n + 1
                         PROVE  invitations'[i].uses # 0 \/ invitations'[i].revoked
                OBVIOUS
            <4>1. i \in DOMAIN invitations
                BY <3>4
            <4> QED
                BY <3>3, <3>4, <4>1 DEF Usable, LiveLinks
        <3>7. LiveLinks' = {n + 1}
            BY <3>4, <3>5, <3>6 DEF LiveLinks, Usable
        <3>8. LinkFits'
            BY <3>1, <3>4, <3>5, <3>7 DEF LinkFits
        <3> QED
            BY <2>1, <2>4, <2>5, <3>2, <3>8 DEF ClerkFits
    <2>11. ~DisableDriver(c) /\ ~CommitDisabled(c) /\ ~ResetPassword(c) /\ ~SignOutEverywhere(c)
        BY <2>4 DEF DisableDriver, CommitDisabled, ResetPassword, SignOutEverywhere, ClerkFits
    <2> QED
        BY <1>6, <2>6, <2>7, <2>8, <2>9, <2>10, <2>11 DEF ClerkSteps
<1> QED
    BY <1>2, <1>3, <1>4, <1>5, <1>6, LinkSteps

(* That is what the invitee needs.                                         *)
LEMMA LinksFollow ==
    ASSUME LinkUses, InvitedIInv PROVE OneLinkWorks
<1>1. ASSUME user.status = "INVITED", \A c \in Clerks : clerks[c] = AtDoor
      PROVE  LinkFits
    BY <1>1 DEF InvitedIInv, AtDoor
<1> QED
    BY <1>1 DEF OneLinkWorks, LinkUses, LinkFits

(* With one clerk at a time, an invited account that nobody is at work on  *)
(* has exactly one live link, which went to its present address; and no    *)
(* link sets two passwords, or one after it was replaced.                  *)
THEOREM LinkWorks ==
    ASSUME OneClerk PROVE AccountsSpec => []OneLinkWorks
<1> DEFINE IInv == AccountRows /\ LinkUses /\ InvitedIInv /\ ResetIInv
<1>1. AccountsInit => IInv
    BY AccountsInitOK, LinkUsesInit, InvitedInit
<1>2. IInv /\ [AccountsNext]_accountsVars => IInv'
    BY AccountsStepOK, LinkUsesStep, InvitedStep, ResetStep
<1>3. IInv => OneLinkWorks
    BY LinksFollow
<1> QED
    BY <1>1, <1>2, <1>3, PTL DEF AccountsSpec
-----------------------------------------------------------------------------
(* One sign-in, or refresh, at a time.                                     *)
OneTab == \A t, u \in Tabs : t = u

(* No password has been tried.                                             *)
LEMMA EarnedInit == AccountsInit => EarnedIInv
BY DEF AccountsInit, EarnedIInv, TabEarns, AtDoor

(* What the other actors do to the count of failures and to the secret.    *)
LEMMA OthersEarn ==
    ASSUME AccountRows, EarnedIInv, [AccountsNext]_accountsVars, UNCHANGED tabs
    PROVE  EarnedIInv'
<1>1. user \in UserRow /\ wrong \in Nat
    BY DEF AccountRows
<1>2. ASSUME NEW t \in Tabs, OwnerSteps(t) PROVE UNCHANGED <<user, proven, wrong>>
    <2>1. tabs[t] \in TabStates /\ tabs \in [Tabs -> TabStates]
        BY DEF AccountRows
    <2>2. tabs'[t] = tabs[t]
        OBVIOUS
    <2>3. ~Count(t)
        BY <2>1, <2>2, TabReplied DEF Count
    <2>4. ~EnterCode(t)
        BY <2>1, <2>2 DEF EnterCode, Loaded, TabStates, AtDoor
    <2>5. ~SaveSecret(t)
        BY <2>1, <2>2 DEF SaveSecret, Busy, TabStates, AtDoor
    <2>6. ~EnableTotp(t)
        BY <2>1, <2>2 DEF EnableTotp, Busy, TabStates, AtDoor
    <2>7. ~ClearFailures(t)
        BY <2>1, <2>2 DEF ClearFailures, TabStates, AtDoor
    <2> QED
        BY <1>2, <2>3, <2>4, <2>5, <2>6, <2>7
           DEF OwnerSteps, SignIn, BeginEnrolment, ChallengeExpires, OpenSession, Refresh,
               CheckAccount, Rotate, Answer
<1>3. CASE UNCHANGED <<user, proven, wrong>>
    BY <1>3 DEF EarnedIInv, TabEarns
<1>4. CASE /\ UNCHANGED <<proven, user.enabled, user.secret>>
           /\ user'.attempts \in Nat /\ user'.attempts <= user.attempts
           /\ UNCHANGED <<user.attempts, wrong>> \/ wrong' = 0
    <2>1. wrong' <= user'.attempts
        BY <1>1, <1>4 DEF EarnedIInv
    <2>2. \A t \in Tabs : tabs[t].at = "count" => tabs[t].saw.attempts \in Nat
        BY AccountsAssumption DEF AccountRows, TabStates, AtDoor, Failures
    <2>3. user.attempts \in Nat
        BY <1>1 DEF UserRow
    <2>4. \A t \in Tabs : tabs[t].at = "count" => tabs[t].saw.attempts >= user'.attempts
        BY <1>4, <2>2, <2>3 DEF EarnedIInv, TabEarns
    <2> QED
        BY <1>4, <2>1, <2>4 DEF EarnedIInv, TabEarns
<1>5. ASSUME NEW k \in Links, Claim(k) PROVE EarnedIInv'
    <2>1. CASE UNCHANGED <<user, wrong>>
        BY <1>3, <1>5, <2>1 DEF Claim
    <2>2. CASE user' = [user EXCEPT !.status = "ACTIVE", !.attempts = 0, !.locked = "no"]
               /\ wrong' = 0
        <3>1. /\ user'.attempts = 0 /\ user'.enabled = user.enabled
              /\ user'.secret = user.secret /\ user.attempts \in Nat
            BY <1>1, <2>2 DEF UserRow
        <3>2. UNCHANGED proven
            BY <1>5 DEF Claim
        <3> QED
            BY <1>4, <2>2, <3>1, <3>2
    <2> QED
        BY <1>5, <2>1, <2>2 DEF Claim
<1>6. ASSUME NEW c \in Clerks, ClerkSteps(c) PROVE EarnedIInv'
    <2>1. CASE ResetPassword(c)
        BY <1>1, <1>4, <2>1, AccountsAssumption DEF ResetPassword, UserRow
    <2>2. CASE CommitDisabled(c) \/ SaveEmail(c)
        BY <1>1, <1>4, <2>2, AccountsAssumption DEF CommitDisabled, SaveEmail, UserRow
    <2>3. CASE ~ResetPassword(c) /\ ~CommitDisabled(c) /\ ~SaveEmail(c)
        BY <1>3, <1>6, <2>3 DEF ClerkSteps, Resend, ChangeEmail, LoadUser, DisableDriver,
                                RevokeLinks, InsertLink, SignOutEverywhere
    <2> QED
        BY <2>1, <2>2, <2>3
<1>7. CASE LockEnds
    BY <1>1, <1>4, <1>7, AccountsAssumption DEF LockEnds, UserRow
<1>8. CASE UNCHANGED accountsVars
    BY <1>3, <1>8 DEF accountsVars
<1>9. ASSUME \/ \E i \in DOMAIN invitations :
                   InvitationExpires(i) \/ \E k \in Links : BeginAccept(k, i)
             \/ \E k \in Links : EndOldSessions(k)
             \/ \E s \in DOMAIN logins : EndSession(s)
      PROVE  UNCHANGED <<user, proven, wrong>>
    BY <1>9 DEF InvitationExpires, BeginAccept, EndOldSessions, EndSession
<1> QED
    BY <1>2, <1>3, <1>5, <1>6, <1>7, <1>8, <1>9 DEF AccountsNext

(* The one tab keeps the count and the secret current.                     *)
LEMMA OwnerEarns ==
    ASSUME OneTab, AccountRows, EarnedIInv, NEW t \in Tabs, OwnerSteps(t) PROVE EarnedIInv'
<1> DEFINE me == tabs[t]
<1>1. /\ user \in UserRow /\ wrong \in Nat /\ tabs \in [Tabs -> TabStates] /\ me \in TabStates
      /\ user.attempts \in Nat
    BY DEF AccountRows, UserRow
<1>2. \A u \in Tabs : u = t
    BY DEF OneTab
<1>3. TabEarns(t) /\ wrong <= user.attempts /\ (user.enabled => proven = user.secret)
    BY DEF EarnedIInv
<1>4. SUFFICES /\ wrong' <= user'.attempts
               /\ user'.enabled => proven' = user'.secret
               /\ TabEarns(t)'
    BY <1>2 DEF EarnedIInv
<1>5. ASSUME UNCHANGED <<user, proven, wrong>>,
             tabs'[t].at \notin {"count", "secret", "enable"}
      PROVE  /\ wrong' <= user'.attempts
             /\ user'.enabled => proven' = user'.secret
             /\ TabEarns(t)'
    BY <1>3, <1>5 DEF TabEarns
<1>6. CASE \E client \in Clients : SignIn(t, client)
    <2>1. PICK client \in Clients : SignIn(t, client)
        BY <1>6
    <2>2. UNCHANGED <<user, proven, wrong>>
        BY <2>1 DEF SignIn
    <2>3. CASE Arrives(t, "count", client)
        <3>1. tabs'[t].at = "count" /\ tabs'[t].saw.attempts = user.attempts
            BY <1>1, <2>3 DEF Arrives, Seen
        <3> QED
            BY <1>1, <1>3, <2>2, <3>1 DEF TabEarns
    <2>4. ASSUME NEW step \in AfterPassword(client), Arrives(t, step, client)
          PROVE  tabs'[t].at \notin {"count", "secret", "enable"}
        BY <1>1, <2>4 DEF Arrives, AfterPassword
    <2> QED
        BY <1>5, <2>1, <2>2, <2>3, <2>4 DEF SignIn
<1>7. CASE Count(t)
    <2> DEFINE n == me.saw.attempts + 1
    <2>1. /\ user' = [user EXCEPT !.attempts = n % MaxAttempts,
                                  !.locked = IF Locks(n) THEN "yes" ELSE @]
          /\ wrong' = (IF Locks(n) THEN 0 ELSE wrong + 1)
          /\ Replied(t) /\ me.at = "count" /\ UNCHANGED proven
        BY <1>7 DEF Count
    <2>2. me.saw.attempts \in 0 .. MaxAttempts - 1
        BY <1>1, <2>1 DEF TabStates, AtDoor, Failures
    <2>3. n \in 1 .. MaxAttempts
        BY <2>2, AccountsAssumption
    <2>4. n % MaxAttempts = IF Locks(n) THEN 0 ELSE n
        BY <2>3, CountWraps
    <2>5. wrong + 1 <= n
        BY <1>1, <1>3, <2>1, <2>2 DEF TabEarns
    <2> HIDE DEF n
    <2>6. /\ user'.attempts = n % MaxAttempts
          /\ user'.enabled = user.enabled /\ user'.secret = user.secret
        BY <1>1, <2>1 DEF UserRow
    <2>7. wrong' <= user'.attempts
        BY <2>1, <2>3, <2>4, <2>5, <2>6
    <2>8. tabs'[t].at \in {"door", "challenge"}
        BY <2>1, TabReplied
    <2> QED
        BY <1>3, <2>1, <2>6, <2>7, <2>8 DEF TabEarns
<1>8. CASE BeginEnrolment(t)
    <2>1. UNCHANGED <<user, proven, wrong>> /\ ~user.enabled
        BY <1>8 DEF BeginEnrolment, MayEnrol
    <2>2. tabs'[t].at = "secret"
        BY <1>1, <1>8 DEF BeginEnrolment, Loaded, TabStates, AtDoor
    <2> QED
        BY <1>3, <2>1, <2>2 DEF TabEarns
<1>9. CASE SaveSecret(t)
    <2>1. /\ user' = [user EXCEPT !.secret = @ + 1] /\ UNCHANGED <<proven, wrong>>
          /\ ~user.enabled
        BY <1>3, <1>9 DEF SaveSecret, TabEarns
    <2>2. tabs'[t].at = "challenge"
        BY <1>1, <1>9 DEF SaveSecret, Busy, TabStates, AtDoor
    <2>3. ~user'.enabled /\ user'.attempts = user.attempts
        BY <1>1, <2>1 DEF UserRow
    <2> QED
        BY <1>3, <2>1, <2>2, <2>3 DEF TabEarns
<1>10. CASE EnterCode(t)
    <2>1. UNCHANGED <<user, wrong>> /\ me.at = "challenge"
        BY <1>10 DEF EnterCode
    <2>2. CASE Loaded(t, "count") /\ UNCHANGED proven
        <3>1. tabs'[t].at = "count" /\ tabs'[t].saw.attempts = user.attempts
            BY <1>1, <2>1, <2>2 DEF Loaded, Seen, TabStates, AtDoor
        <3> QED
            BY <1>1, <1>3, <2>1, <2>2, <3>1 DEF TabEarns
    <2>3. CASE Loaded(t, IF user.enabled THEN "issue" ELSE "enable") /\ proven' = user.secret
        <3>1. tabs'[t].at \in {"issue", "enable"}
            BY <1>1, <2>1, <2>3 DEF Loaded, TabStates, AtDoor
        <3> QED
            BY <1>3, <2>1, <2>3, <3>1 DEF TabEarns
    <2> QED
        BY <1>10, <2>2, <2>3 DEF EnterCode
<1>11. CASE EnableTotp(t)
    <2>1. /\ user' = [user EXCEPT !.enabled = TRUE] /\ UNCHANGED <<proven, wrong>>
          /\ proven = user.secret
        BY <1>3, <1>11 DEF EnableTotp, TabEarns
    <2>2. tabs'[t].at = "issue"
        BY <1>1, <1>11 DEF EnableTotp, Busy, TabStates, AtDoor
    <2>3. user'.secret = user.secret /\ user'.attempts = user.attempts
        BY <1>1, <2>1 DEF UserRow
    <2> QED
        BY <1>3, <2>1, <2>2, <2>3 DEF TabEarns
<1>12. CASE ClearFailures(t)
    <2>1. /\ wrong' = 0 /\ UNCHANGED proven
          /\ user' = [user EXCEPT !.attempts = IF me.saw.attempts = 0 THEN @ ELSE 0,
                                  !.locked = IF me.saw.locked = "no" THEN @ ELSE "no"]
        BY <1>12 DEF ClearFailures
    <2>2. tabs'[t].at = "session"
        BY <1>1, <1>12 DEF ClearFailures, TabStates, AtDoor
    <2>3. /\ user'.enabled = user.enabled /\ user'.secret = user.secret
          /\ user'.attempts \in {0, user.attempts}
        BY <1>1, <2>1 DEF UserRow
    <2> QED
        BY <1>1, <1>3, <2>1, <2>2, <2>3 DEF TabEarns
<1>13. ASSUME \/ ChallengeExpires(t) \/ OpenSession(t) \/ Refresh(t) \/ CheckAccount(t)
              \/ Rotate(t) \/ Answer(t)
       PROVE  UNCHANGED <<user, proven, wrong>> /\ tabs'[t].at \notin {"count", "secret", "enable"}
    <2>1. UNCHANGED <<user, proven, wrong>>
        BY <1>13 DEF ChallengeExpires, OpenSession, Refresh, CheckAccount, Rotate, Answer
    <2>2. CASE ChallengeExpires(t) \/ Answer(t)
        BY <1>1, <2>2 DEF ChallengeExpires, Answer, Gone, AtDoor
    <2>5. CASE OpenSession(t)
        BY <2>5, TabReplied DEF OpenSession
    <2>3. CASE Refresh(t)
        BY <1>1, <2>3 DEF Refresh
    <2>4. CASE CheckAccount(t) \/ Rotate(t)
        BY <1>1, <2>4 DEF CheckAccount, Rotate, Gone, Busy, TabStates, AtDoor
    <2> QED
        BY <1>13, <2>1, <2>2, <2>3, <2>4, <2>5
<1> QED
    BY <1>5, <1>6, <1>7, <1>8, <1>9, <1>10, <1>11, <1>12, <1>13 DEF OwnerSteps

(* A tab is moved by its own steps and by nothing else.                    *)
LEMMA OnlyOwnersMoveTabs ==
    ASSUME [AccountsNext]_accountsVars
    PROVE  UNCHANGED tabs \/ \E t \in Tabs : OwnerSteps(t)
BY DEF AccountsNext, accountsVars, people, InvitationExpires, BeginAccept, Claim, EndOldSessions,
       ClerkSteps, Resend, ChangeEmail, LoadUser, DisableDriver, CommitDisabled, SaveEmail,
       RevokeLinks, InsertLink, ResetPassword, SignOutEverywhere, LockEnds, EndSession

(* What the row counts bounds how many wrong ones there are since a lock.  *)
LEMMA EarnedFollows == AccountRows /\ EarnedIInv => SignInIsEarned /\ AccountsTypeOK
<1> SUFFICES ASSUME AccountRows, EarnedIInv PROVE SignInIsEarned /\ AccountsTypeOK
    OBVIOUS
<1>1. wrong <= MaxAttempts
    BY AccountsAssumption DEF AccountRows, EarnedIInv, UserRow
<1> QED
    BY <1>1, AccountRowsTyped DEF SignInIsEarned, EarnedIInv

(* With one sign-in at a time, every wrong password and every wrong code   *)
(* since the last lock or sign-in is in the row's count, so each           *)
(* MaxAttempts of them lock the account; and a factor is enabled only by a *)
(* code of the secret that is stored. Not that a lock stops a challenge.   *)
THEOREM SignInEarned ==
    ASSUME OneTab PROVE AccountsSpec => [](AccountsTypeOK /\ SignInIsEarned)
<1> DEFINE IInv == AccountRows /\ EarnedIInv
<1>1. AccountsInit => IInv
    BY AccountsInitOK, EarnedInit
<1>2. IInv /\ [AccountsNext]_accountsVars => IInv'
    BY AccountsStepOK, OnlyOwnersMoveTabs, OthersEarn, OwnerEarns
<1>3. IInv => AccountsTypeOK /\ SignInIsEarned
    BY EarnedFollows
<1> QED
    BY <1>1, <1>2, <1>3, PTL DEF AccountsSpec
-----------------------------------------------------------------------------
(* The app starts signed out.                                              *)
LEMMA TokenInit == AccountsInit => TokenIInv
BY DEF AccountsInit, TokenIInv, TabRefreshes, AtDoor

(* A session keeps its token, whoever ends it.                             *)
LEMMA OthersKeepTokens ==
    ASSUME AccountRows, TokenIInv, [AccountsNext]_accountsVars, UNCHANGED <<tabs, appToken>>,
           \A t \in Tabs : ~OwnerSteps(t)
    PROVE  TokenIInv'
<1>1. /\ logins \in Seq(Login)
      /\ appToken.login # 0 => appToken.login \in DOMAIN logins
    BY DEF AccountRows
<1>2. CASE \A s \in DOMAIN logins : logins'[s].token = logins[s].token
    BY <1>1, <1>2 DEF TokenIInv, TabRefreshes
<1>3. CASE UNCHANGED logins
    BY <1>2, <1>3
<1>4. CASE RevokeAll
    BY <1>2, <1>4, AllRevoked
<1>5. ASSUME NEW s \in DOMAIN logins, EndSession(s) PROVE TokenIInv'
    <2>1. logins' = [logins EXCEPT ![s].live = FALSE]
        BY <1>5 DEF EndSession
    <2>2. ASSUME NEW r \in DOMAIN logins PROVE logins'[r].token = logins[r].token
        <3>1. logins[r] \in Login
            BY <1>1
        <3>2. logins'[r] \in {logins[r], [logins[r] EXCEPT !.live = FALSE]}
            BY <2>1
        <3> QED
            BY <3>1, <3>2 DEF Login
    <2> QED
        BY <1>2, <2>2
<1>6. UNCHANGED logins \/ RevokeAll \/ \E s \in DOMAIN logins : EndSession(s)
    BY DEF AccountsNext, accountsVars, people, InvitationExpires, BeginAccept, Claim,
           EndOldSessions, ClerkSteps, Resend, ChangeEmail, LoadUser, DisableDriver,
           CommitDisabled, SaveEmail, RevokeLinks, InsertLink, ResetPassword, SignOutEverywhere,
           LockEnds
<1> QED
    BY <1>3, <1>4, <1>5, <1>6

(* The steps of the one tab keep the token of the app current.             *)
LEMMA OwnerKeepsTokens ==
    ASSUME OneTab, AccountRows, TokenIInv, NEW t \in Tabs, OwnerSteps(t) PROVE TokenIInv'
<1> DEFINE me == tabs[t]
           Kept == (me.at # "answer" /\ appToken.login # 0 /\ ~appToken.lost)
                       => logins[appToken.login].token = appToken.token
<1>1. /\ logins \in Seq(Login) /\ tabs \in [Tabs -> TabStates] /\ me \in TabStates
      /\ appToken.login # 0 => appToken.login \in DOMAIN logins
    BY DEF AccountRows
<1>2. \A u \in Tabs : u = t
    BY DEF OneTab
<1>3. TabRefreshes(t) /\ Kept
    BY <1>2 DEF TokenIInv
<1>4. SUFFICES /\ TabRefreshes(t)'
               /\ tabs'[t].at # "answer" /\ appToken'.login # 0 /\ ~appToken'.lost
                     => logins'[appToken'.login].token = appToken'.token
    BY <1>2 DEF TokenIInv
<1>5. ASSUME UNCHANGED <<logins, appToken>>, me.at # "answer",
             tabs'[t].at \notin {"user", "rotate", "answer"}
      PROVE  /\ TabRefreshes(t)'
             /\ tabs'[t].at # "answer" /\ appToken'.login # 0 /\ ~appToken'.lost
                     => logins'[appToken'.login].token = appToken'.token
    BY <1>3, <1>5 DEF TabRefreshes
<1>6. CASE \E client \in Clients : SignIn(t, client)
    <2>1. UNCHANGED <<logins, appToken>> /\ me.at # "answer"
        BY <1>6 DEF SignIn, AtDoor
    <2>2. PICK client \in Clients : SignIn(t, client)
        BY <1>6
    <2>3. tabs'[t].at \in {"count", "issue", "challenge"}
        BY <1>1, <2>2 DEF SignIn, Arrives, AfterPassword
    <2> QED
        BY <1>5, <2>1, <2>3
<1>7. ASSUME \/ Count(t) \/ BeginEnrolment(t) \/ SaveSecret(t) \/ EnterCode(t)
             \/ ChallengeExpires(t) \/ EnableTotp(t) \/ ClearFailures(t)
      PROVE  /\ UNCHANGED <<logins, appToken>> /\ me.at # "answer"
             /\ tabs'[t].at \notin {"user", "rotate", "answer"}
    <2>1. UNCHANGED <<logins, appToken>> /\ me.at # "answer" /\ me.at # "door"
        BY <1>7 DEF Count, BeginEnrolment, SaveSecret, EnterCode, ChallengeExpires, EnableTotp,
                    ClearFailures
    <2>5. CASE Count(t)
        BY <2>1, <2>5, TabReplied DEF Count
    <2>2. CASE ChallengeExpires(t)
        BY <1>1, <2>1, <2>2 DEF ChallengeExpires, Gone, AtDoor
    <2>3. CASE SaveSecret(t) \/ EnableTotp(t) \/ ClearFailures(t)
        BY <1>1, <2>1, <2>3 DEF SaveSecret, EnableTotp, ClearFailures, Busy, TabStates, AtDoor
    <2>4. CASE BeginEnrolment(t) \/ EnterCode(t)
        BY <1>1, <2>1, <2>4 DEF BeginEnrolment, EnterCode, Loaded, TabStates, AtDoor
    <2> QED
        BY <1>7, <2>1, <2>2, <2>3, <2>4, <2>5
<1>8. CASE OpenSession(t)
    <2> DEFINE new == [client |-> me.client, live |-> TRUE, token |-> 1]
               given == [login |-> Len(logins) + 1, token |-> 1, lost |-> FALSE]
    <2>1. /\ logins' = Append(logins, new) /\ appToken' \in {appToken, given}
          /\ Replied(t) /\ me.at = "session"
        BY <1>8 DEF OpenSession
    <2>2. tabs'[t].at \in {"door", "challenge"}
        BY <2>1, TabReplied
    <2>3. new \in Login /\ new.token = 1
        BY <1>1, <2>1 DEF TabStates, AtDoor, Login
    <2>4. given.login = Len(logins) + 1 /\ given.token = 1
        OBVIOUS
    <2> HIDE DEF new, given
    <2>5. logins'[Len(logins) + 1] = new /\ \A s \in DOMAIN logins : logins'[s] = logins[s]
        BY <1>1, <2>1, <2>3, AppendProperties
    <2>6. CASE appToken' = appToken
        BY <1>1, <1>3, <2>1, <2>2, <2>5, <2>6 DEF TabRefreshes
    <2>7. CASE appToken' = given
        BY <2>2, <2>3, <2>4, <2>5, <2>7 DEF TabRefreshes
    <2> QED
        BY <2>1, <2>6, <2>7
<1>9. CASE Refresh(t)
    <2>1. /\ UNCHANGED <<logins, appToken>> /\ me.at = "door" /\ appToken.login # 0
          /\ tabs' = [tabs EXCEPT ![t] = [at |-> "user", client |-> "mobile", saw |-> Clean,
                                          login |-> appToken.login, token |-> 0,
                                          challenge |-> FALSE]]
        BY <1>9 DEF Refresh, AtDoor
    <2>2. tabs'[t].at = "user" /\ tabs'[t].login = appToken.login
        BY <1>1, <2>1
    <2> QED
        BY <1>3, <2>1, <2>2 DEF TabRefreshes
<1>10. CASE CheckAccount(t)
    <2>1. UNCHANGED appToken /\ me.at = "user"
        BY <1>10 DEF CheckAccount
    <2>2. me.login = appToken.login /\ appToken.login # 0 /\ me.login \in DOMAIN logins
        BY <1>1, <1>3, <2>1 DEF TabRefreshes
    <2>3. CASE UNCHANGED logins /\ Busy(t, "rotate")
        <3>1. tabs'[t].at = "rotate" /\ tabs'[t].login = me.login
            BY <1>1, <2>1, <2>3 DEF Busy, TabStates, AtDoor
        <3> QED
            BY <1>3, <2>1, <2>2, <2>3, <3>1 DEF TabRefreshes
    <2>4. CASE Gone(t) /\ logins' = [logins EXCEPT ![me.login].live = FALSE]
        <3>1. tabs'[t].at = "door"
            BY <1>1, <2>4 DEF Gone, AtDoor
        <3>2. logins[me.login] \in Login
            BY <1>1, <2>2
        <3>3. logins'[me.login].token = logins[me.login].token
            BY <1>1, <2>2, <2>4, <3>2 DEF Login
        <3> QED
            BY <1>3, <2>1, <2>2, <3>1, <3>3 DEF TabRefreshes
    <2> QED
        BY <1>10, <2>3, <2>4 DEF CheckAccount
<1>11. CASE Rotate(t)
    <2>1. /\ UNCHANGED appToken /\ me.at = "rotate"
          /\ logins' = [logins EXCEPT ![me.login] = Rotated(logins[me.login])]
          /\ tabs' = [tabs EXCEPT ![t] = [me EXCEPT !.at = "answer",
                                                   !.token = logins[me.login].token + 1]]
        BY <1>11 DEF Rotate
    <2>2. me.login = appToken.login /\ appToken.login # 0 /\ me.login \in DOMAIN logins
        BY <1>1, <1>3, <2>1 DEF TabRefreshes
    <2>3. logins[me.login] \in Login
        BY <1>1, <2>2
    <2>4. logins'[me.login].token = logins[me.login].token + 1
        BY <1>1, <2>1, <2>2, <2>3 DEF Login, Rotated
    <2>5. /\ tabs'[t].at = "answer" /\ tabs'[t].login = me.login
          /\ tabs'[t].token = logins[me.login].token + 1
        BY <1>1, <2>1 DEF TabStates, AtDoor
    <2> QED
        BY <2>1, <2>2, <2>4, <2>5 DEF TabRefreshes
<1>12. CASE Answer(t)
    <2>1. /\ UNCHANGED logins /\ me.at = "answer" /\ tabs' = [tabs EXCEPT ![t] = AtDoor]
          /\ \/ appToken' = [login |-> me.login, token |-> me.token, lost |-> FALSE]
             \/ appToken' = [appToken EXCEPT !.lost = TRUE]
        BY <1>12 DEF Answer, Gone
    <2>2. tabs'[t].at = "door"
        BY <1>1, <2>1 DEF AtDoor
    <2>3. me.login = appToken.login /\ logins[me.login].token = me.token
        BY <1>3, <2>1 DEF TabRefreshes
    <2>4. CASE appToken' = [login |-> me.login, token |-> me.token, lost |-> FALSE]
        <3>1. appToken'.login = me.login /\ appToken'.token = me.token
            BY <2>4
        <3> QED
            BY <2>1, <2>2, <2>3, <3>1 DEF TabRefreshes
    <2>5. CASE appToken' = [appToken EXCEPT !.lost = TRUE]
        <3>1. appToken'.lost
            BY <2>5 DEF AccountRows
        <3> QED
            BY <2>2, <3>1 DEF TabRefreshes
    <2> QED
        BY <2>1, <2>4, <2>5
<1> QED
    BY <1>5, <1>6, <1>7, <1>8, <1>9, <1>10, <1>11, <1>12 DEF OwnerSteps

(* The app's own tab is the one that is given a newer token.               *)
LEMMA TokenStep ==
    ASSUME OneTab, AccountRows, TokenIInv, [AccountsNext]_accountsVars PROVE TokenIInv'
<1>1. CASE \E t \in Tabs : OwnerSteps(t)
    BY <1>1, OwnerKeepsTokens
<1>2. CASE \A t \in Tabs : ~OwnerSteps(t)
    <2>1. UNCHANGED <<tabs, appToken>>
        BY <1>2 DEF AccountsNext, accountsVars, people, InvitationExpires, BeginAccept, Claim,
                    EndOldSessions, ClerkSteps, Resend, ChangeEmail, LoadUser, DisableDriver,
                    CommitDisabled, SaveEmail, RevokeLinks, InsertLink, ResetPassword,
                    SignOutEverywhere, LockEnds, EndSession
    <2> QED
        BY <1>2, <2>1, OthersKeepTokens
<1> QED
    BY <1>1, <1>2

(* With one refresh at a time, the token the app was last given, unless an *)
(* answer was lost, is the one its session stores: the next refresh works. *)
THEOREM TokenWorks ==
    ASSUME OneTab PROVE AccountsSpec => []RefreshTokenWorks
<1> DEFINE IInv == AccountRows /\ TokenIInv
<1>1. AccountsInit => IInv
    BY AccountsInitOK, TokenInit
<1>2. IInv /\ [AccountsNext]_accountsVars => IInv'
    BY AccountsStepOK, TokenStep
<1>3. IInv => RefreshTokenWorks
    BY DEF TokenIInv, RefreshTokenWorks, AtDoor
<1> QED
    BY <1>1, <1>2, <1>3, PTL DEF AccountsSpec

-----------------------------------------------------------------------------
(* The doors of the portals.                                               *)

(* The two clients a portal serves.                                        *)
Client == {"web", "mobile"}

(* requireAnyAuth asks for portals that exist.                             *)
LEMMA AskedIsPortal == \A i \in Turns : Asked(i) \in Portals
BY DEF Turns, Asked, audiences, Portals

(* The first of the turns that let the caller in is made.                  *)
LEMMA FirstWelcome ==
    ASSUME NEW c \in Callers, NEW i \in Tries(c), ComesIn(c, Asked(i)) # 0
    PROVE  \E j \in Tried(c, "any") : ComesIn(c, Asked(j)) # 0
<1> DEFINE S == {j \in Tries(c) : ComesIn(c, Asked(j)) # 0}
<1>1. S \subseteq Turns /\ i \in S
    BY DEF Tries
<1> HIDE DEF S
<1>2. \E j \in S : \A k \in S : ~(k < j)
    <2>1. CASE 1 \in S
        BY <1>1, <2>1 DEF Turns
    <2>2. CASE 1 \notin S /\ 2 \in S
        BY <1>1, <2>2 DEF Turns
    <2>3. CASE 1 \notin S /\ 2 \notin S /\ 3 \in S
        BY <1>1, <2>3 DEF Turns
    <2>4. CASE 1 \notin S /\ 2 \notin S /\ 3 \notin S /\ 4 \in S
        BY <1>1, <2>4 DEF Turns
    <2>5. CASE 1 \notin S /\ 2 \notin S /\ 3 \notin S /\ 4 \notin S /\ 5 \in S
        BY <1>1, <2>5 DEF Turns
    <2>6. CASE S \subseteq {6}
        BY <1>1, <2>6 DEF Turns
    <2> QED
        BY <1>1, <2>1, <2>2, <2>3, <2>4, <2>5, <2>6 DEF Turns
<1>3. PICK j \in S : \A k \in S : ~(k < j)
    BY <1>2
<1>4. j \in Tries(c) /\ ComesIn(c, Asked(j)) # 0
      /\ \A k \in Tries(c) : k < j => ComesIn(c, Asked(k)) = 0
    BY <1>3 DEF S
<1> QED
    BY <1>4 DEF Tried, TurnsAt

(* Whoever a portal lets in has a turn at the door of all.                 *)
LEMMA WelcomeHasATurn ==
    ASSUME NEW c \in Callers, NEW p \in Portals, ComesIn(c, p) # 0
    PROVE  \E i \in Tries(c) : Asked(i) = p
<1>1. Found(c, p) # 0
    BY DEF ComesIn
<1>2. PICK n \in 1 .. 3 : audiences[n] = p
    BY DEF Portals, audiences
<1>3. CASE CookieFor(c, p) # 0
    <2>1. n \in Turns /\ n <= 3 /\ Asked(n) = p
        BY <1>2 DEF Turns, Asked
    <2> QED
        BY <1>3, <2>1 DEF Tries
<1>4. CASE CookieFor(c, p) = 0
    <2>1. header[c].form # "none"
        BY <1>1, <1>4 DEF Found, AuthenticateBearer
    <2>2. n + 3 \in Turns /\ ~(n + 3 <= 3) /\ Asked(n + 3) = p
        BY <1>2 DEF Turns, Asked
    <2> QED
        BY <2>1, <2>2 DEF Tries
<1> QED
    BY <1>3, <1>4

(* Whatever the cookies and the sessions: the door that asks for every     *)
(* portal lets in whoever the door of some portal lets in, and nobody      *)
(* else.                                                                   *)
LEMMA AgreeNow == DoorsAgree
<1> SUFFICES ASSUME NEW c \in Callers
             PROVE  LET single == {ComesIn(c, p) : p \in Portals} \ {0}
                    IN  IF single = {} THEN Admitted(c, "any") = 0
                        ELSE Admitted(c, "any") \in single
    BY DEF DoorsAgree
<1> DEFINE single == {ComesIn(c, p) : p \in Portals} \ {0}
           welcome == {i \in Tried(c, "any") : ComesIn(c, Asked(i)) # 0}
<1>1. \A i \in welcome : ComesIn(c, Asked(i)) \in single
    <2>1. \A i \in Tried(c, "any") : Asked(i) \in Portals
        BY AskedIsPortal DEF Tried, TurnsAt, Tries
    <2> QED
        BY <2>1
<1>2. single # {} => welcome # {}
    BY WelcomeHasATurn, FirstWelcome
<1>3. Admitted(c, "any") =
          IF welcome = {} THEN 0 ELSE ComesIn(c, Asked(CHOOSE i \in welcome : TRUE))
    BY DEF Admitted
<1>4. welcome # {} => (CHOOSE i \in welcome : TRUE) \in welcome
    OBVIOUS
<1> HIDE DEF single, welcome
<1> QED
    BY <1>1, <1>2, <1>3, <1>4 DEF single
-----------------------------------------------------------------------------
(* Whoever comes in comes in as a session that was issued.                 *)
LEMMA ComesInAsIssued ==
    ASSUME DoorsTypeOK, NEW c \in Callers, NEW p \in Portals
    PROVE  Found(c, p) \in 0 .. Len(issued) /\ ComesIn(c, p) \in 0 .. Len(issued)
<1>1. jar[p] \in 0 .. Len(issued) /\ header[c].of \in 0 .. Len(issued) /\ 0 \in 0 .. Len(issued)
    BY LenProperties DEF DoorsTypeOK
<1> QED
    BY <1>1 DEF ComesIn, Found, CookieFor

(* What a door does on its way revokes sessions.                           *)
LEMMA RevokedTyped ==
    ASSUME DoorsTypeOK, NEW S, Revoke(S)
    PROVE  issued' \in Seq(UserSession) /\ Len(issued') = Len(issued)
<1>1. issued \in Seq(UserSession) /\ issued \in [1 .. Len(issued) -> UserSession]
      /\ Len(issued) \in Nat /\ DOMAIN issued = 1 .. Len(issued)
    BY LenProperties DEF DoorsTypeOK
<1>2. \A s \in DOMAIN issued : [issued[s] EXCEPT !.revoked = TRUE] \in UserSession
    BY <1>1 DEF UserSession
<1>3. issued' \in [1 .. Len(issued) -> UserSession]
    BY <1>1, <1>2 DEF Revoke
<1>4. issued' \in Seq(UserSession)
    BY <1>1, <1>3, SeqDef
<1> QED
    BY <1>1, <1>3, <1>4, LenProperties

(* A session is issued: every number that meant one still does.            *)
LEMMA IssuedTyped ==
    ASSUME DoorsTypeOK, NEW p \in Portals, NEW client \in Client, Issue(p, client)
    PROVE  /\ issued' \in Seq(UserSession) /\ Len(issued') = Len(issued) + 1
           /\ Len(issued') <= MaxSignIns
           /\ 0 .. Len(issued) \subseteq 0 .. Len(issued') /\ Len(issued) + 1 \in 0 .. Len(issued')
           /\ 0 .. Len(issued') \subseteq 0 .. MaxSignIns
<1>1. issued \in Seq(UserSession) /\ Len(issued) \in Nat /\ Len(issued) < MaxSignIns
      /\ MaxSignIns \in Nat
    BY LenProperties, DoorsAssumption DEF DoorsTypeOK, Issue
<1>2. [audience |-> p, client |-> client, revoked |-> FALSE, over |-> FALSE] \in UserSession
    BY DEF UserSession, Client
<1>3. issued' \in Seq(UserSession) /\ Len(issued') = Len(issued) + 1
    BY <1>1, <1>2, AppendProperties DEF Issue
<1> QED
    BY <1>1, <1>3

(* Every step leaves sessions of the table.                                *)
LEMMA DoorsStepOK == DoorsTypeOK /\ [DoorsNext]_doorsVars => DoorsTypeOK'
<1> SUFFICES ASSUME DoorsTypeOK, [DoorsNext]_doorsVars PROVE DoorsTypeOK'
    OBVIOUS
<1>0. Len(issued) \in Nat /\ MaxSignIns \in Nat
    BY LenProperties, DoorsAssumption DEF DoorsTypeOK
<1>1. ASSUME NEW S, Revoke(S), barred' \subseteq Portals,
             jar' \in [Portals -> 0 .. Len(issued)], UNCHANGED header
      PROVE  DoorsTypeOK'
    BY <1>1, RevokedTyped DEF DoorsTypeOK
<1>2. ASSUME NEW c \in Callers, NEW door, Visit(c, door)
      PROVE  DoorsTypeOK'
    BY <1>1, <1>2 DEF Visit, DoorsTypeOK
<1>3. ASSUME NEW c \in Callers, NEW door \in {"any", "driver"}, SignOut(c, door)
      PROVE  DoorsTypeOK'
    <2>1. PICK s : s = Admitted(c, door)
        OBVIOUS
    <2>2. /\ Revoke({s} \cup RevokedBy(c, door))
          /\ jar' = jar \/ jar' = [jar EXCEPT ![issued[s].audience] = 0]
          /\ UNCHANGED <<barred, header>>
        BY <1>3, <2>1 DEF SignOut
    <2>3. jar' \in [Portals -> 0 .. Len(issued)]
        BY <1>0, <2>2 DEF DoorsTypeOK
    <2> QED
        BY <1>1, <2>2, <2>3 DEF DoorsTypeOK
<1>4. ASSUME NEW p \in Portals, PortalSignIn(p) PROVE DoorsTypeOK'
    <2>1. PICK n : n = Len(issued) + 1
        OBVIOUS
    <2>2. /\ issued' \in Seq(UserSession) /\ Len(issued') = n /\ n <= MaxSignIns
          /\ 0 .. Len(issued) \subseteq 0 .. n /\ n \in 0 .. n /\ 0 .. n \subseteq 0 .. MaxSignIns
          /\ UNCHANGED barred
        BY <1>4, <2>1, IssuedTyped DEF PortalSignIn, Client, Issue
    <2>3. \/ jar' = [jar EXCEPT ![p] = n] /\ UNCHANGED header
          \/ /\ header' = [header EXCEPT !["browser"] = [form |-> "session", of |-> n]]
             /\ jar' \in {jar, [jar EXCEPT ![p] = n]}
        BY <1>4, <2>1 DEF PortalSignIn
    <2>4. jar' \in [Portals -> 0 .. n]
        BY <2>2, <2>3 DEF DoorsTypeOK
    <2>5. PICK token : token = [form |-> "session", of |-> n]
        OBVIOUS
    <2>5a. token \in Token /\ token.of = n
        BY <2>2, <2>5 DEF Token
    <2>6. header' \in [Callers -> Token] /\ \A c \in Callers : header'[c].of \in 0 .. n
        <3>1. UNCHANGED header \/ header' = [header EXCEPT !["browser"] = token]
            BY <2>3, <2>5
        <3> QED
            BY <2>2, <2>5a, <3>1 DEF DoorsTypeOK
    <2> QED
        BY <2>2, <2>4, <2>6 DEF DoorsTypeOK
<1>5. CASE AppSignIn
    <2>1. PICK n : n = Len(issued) + 1
        OBVIOUS
    <2>2. /\ issued' \in Seq(UserSession) /\ Len(issued') = n /\ n <= MaxSignIns
          /\ 0 .. Len(issued) \subseteq 0 .. n /\ n \in 0 .. n /\ 0 .. n \subseteq 0 .. MaxSignIns
          /\ UNCHANGED <<barred, jar>>
        BY <1>5, <2>1, IssuedTyped DEF AppSignIn, Client, Portals, Issue
    <2>3. header' = [header EXCEPT !["app"] = [form |-> "access", of |-> n]]
        BY <1>5, <2>1 DEF AppSignIn
    <2>5. [form |-> "access", of |-> n] \in Token
        BY <2>2 DEF Token
    <2>6. header' \in [Callers -> Token] /\ \A c \in Callers : header'[c].of \in 0 .. n
        BY <2>2, <2>3, <2>5 DEF DoorsTypeOK
    <2>7. jar' \in [Portals -> 0 .. n]
        BY <2>2 DEF DoorsTypeOK
    <2> QED
        BY <2>2, <2>6, <2>7 DEF DoorsTypeOK
<1>6. CASE AppToken
    <2>1. PICK form \in {"access", "expired", "refresh"} :
              header' = [header EXCEPT !["app"].form = form]
        BY <1>6 DEF AppToken
    <2>2. PICK token : token = [header["app"] EXCEPT !.form = form]
        OBVIOUS
    <2>3. header["app"] \in Token
        BY DEF DoorsTypeOK, Callers
    <2>4. token \in Token /\ token.of = header["app"].of
        BY <2>2, <2>3 DEF Token
    <2>5. header' = [header EXCEPT !["app"] = token]
        BY <2>1, <2>2
    <2>6. header' \in [Callers -> Token] /\ \A c \in Callers : header'[c].of = header[c].of
        BY <2>4, <2>5 DEF DoorsTypeOK
    <2> QED
        BY <1>6, <2>6 DEF AppToken, DoorsTypeOK
<1>7. ASSUME NEW s \in DOMAIN issued, SessionLapses(s) PROVE DoorsTypeOK'
    <2>1. issued[s] \in UserSession
        BY ElementOfSeq DEF DoorsTypeOK
    <2>2. PICK row : row = [issued[s] EXCEPT !.over = TRUE]
        OBVIOUS
    <2>3. row \in UserSession
        BY <2>1, <2>2 DEF UserSession
    <2>4. issued' = [issued EXCEPT ![s] = row]
        BY <1>7, <2>2 DEF SessionLapses
    <2>5. issued' \in Seq(UserSession) /\ Len(issued') = Len(issued)
        BY <2>3, <2>4, ExceptSeq DEF DoorsTypeOK
    <2> QED
        BY <1>7, <2>5 DEF SessionLapses, DoorsTypeOK
<1>8. ASSUME NEW p \in Portals, AccountChanges(p) \/ RevokeSessionsOf(p) PROVE DoorsTypeOK'
    BY <1>1, <1>8 DEF AccountChanges, RevokeSessionsOf, DoorsTypeOK
<1>9. CASE UNCHANGED doorsVars
    BY <1>9 DEF doorsVars, DoorsTypeOK
<1> QED
    BY <1>2, <1>3, <1>4, <1>5, <1>6, <1>7, <1>8, <1>9 DEF DoorsNext

(* Whatever cookies a browser still carries, requireAnyAuth lets a caller  *)
(* in exactly where the door of some portal would, and as the session that *)
(* door finds: a dead session never vetoes a live one.                     *)
THEOREM DoorsLetInAlike == DoorsSpec => [](DoorsTypeOK /\ DoorsAgree)
<1>1. DoorsInit => DoorsTypeOK
    BY EmptySeq, DoorsAssumption DEF DoorsInit, DoorsTypeOK, NoToken, Token, Callers
<1>2. DoorsTypeOK => DoorsAgree
    BY AgreeNow
<1> QED
    BY <1>1, <1>2, DoorsStepOK, PTL DEF DoorsSpec

-----------------------------------------------------------------------------
(* The forms that make an account.                                         *)

(* A form whose transaction is open, and a row it has inserted in it.      *)
Inserting(c) == counter[c].form # 0 /\ ~counter[c].mail

(* The tables in which a form has left a row.                              *)
RowsLeft(n) == {p[1] : p \in {q \in tables : q[2] = n}}

(* The tables it asks for.                                                 *)
RowSet(n) == {RowsOf(sent[n])[i] : i \in DOMAIN RowsOf(sent[n])}

(* The forms sent, and the counters at work on them, are forms the back    *)
(* office has.                                                             *)
FormRows ==
    /\ sent \in Seq(MaySend) /\ Len(sent) <= MaxAccounts
    /\ counter \in [Counters -> [form : {0} \cup DOMAIN sent, rows : 0 .. 5, mail : BOOLEAN]]
    /\ \A c \in Counters : /\ counter[c].form = 0 => counter[c] = FreeCounter
                           /\ counter[c].form # 0 =>
                                 counter[c].rows \in 0 .. Len(RowsOf(sent[counter[c].form]))
    /\ tables \subseteq OneTransaction \X DOMAIN sent
    /\ removed \subseteq DOMAIN sent /\ welcomed \subseteq DOMAIN sent

(* The open transactions are of different forms, none of which has left a  *)
(* row, and their rows clash with no live row and with none of each other. *)
OpenIInv ==
    /\ \A c \in Counters : Inserting(c) =>
          /\ RowsLeft(counter[c].form) = {}
          /\ \A table \in Open(c) : ~Taken(table, counter[c].form)
    /\ \A c, d \in Counters : c # d /\ counter[c].form # 0 /\ counter[d].form # 0 =>
          counter[c].form # counter[d].form
    /\ \A c, d \in Counters : c # d /\ Inserting(c) /\ Inserting(d) =>
          \A table \in Open(c) \cap Open(d) : ~Clash(table, counter[c].form, counter[d].form)

(* A form has left all its rows or none, and they clash with no live row.  *)
LeftIInv ==
    \A n \in DOMAIN sent :
        /\ RowsLeft(n) = {} \/ RowsLeft(n) = RowSet(n)
        /\ n \notin removed => \A table \in RowsLeft(n) : ~Taken(table, n)

-----------------------------------------------------------------------------
(* What a form asks for is a short list of rows.                           *)
LEMMA RowsOfForm ==
    ASSUME NEW f \in MaySend
    PROVE  /\ RowsOf(f) \in Seq(OneTransaction) /\ Len(RowsOf(f)) <= 5 /\ Len(RowsOf(f)) \in Nat
           /\ DOMAIN RowsOf(f) = 1 .. Len(RowsOf(f))
<1> DEFINE T == OneTransaction
           company == IF f.kind = "company" THEN <<"advertisers">> ELSE << >>
           driver == IF f.kind = "driver" THEN <<"drivers">> ELSE << >>
           plate == IF f.plate # "none" THEN <<"vehicles">> ELSE << >>
           account == IF f.email = "none" THEN << >> ELSE <<"users", "user_roles">>
           link == IF f.kind \in {"company", "login"} /\ f.email # "none"
                   THEN <<"user_invitations">> ELSE << >>
<1>1. /\ company \in Seq(T) /\ driver \in Seq(T) /\ plate \in Seq(T) /\ account \in Seq(T)
      /\ link \in Seq(T)
    <2>1. << >> \in Seq(T)
        BY EmptySeq
    <2>2. /\ "advertisers" \in T /\ "drivers" \in T /\ "vehicles" \in T /\ "users" \in T
          /\ "user_roles" \in T /\ "user_invitations" \in T
        BY DEF OneTransaction
    <2> HIDE DEF T
    <2>3. /\ <<"advertisers">> \in Seq(T) /\ <<"drivers">> \in Seq(T) /\ <<"vehicles">> \in Seq(T)
          /\ <<"users", "user_roles">> \in Seq(T) /\ <<"user_invitations">> \in Seq(T)
        BY <2>2
    <2> QED
        BY <2>1, <2>3
<1>2. /\ Len(company) \in 0 .. 1 /\ Len(driver) \in 0 .. 1 /\ Len(plate) \in 0 .. 1
      /\ Len(account) \in 0 .. 2 /\ Len(link) \in 0 .. 1
    BY EmptySeq
<1>3. Len(company) + Len(driver) + Len(plate) <= 2
    BY <1>2 DEF MaySend
<1>4. RowsOf(f) = company \o driver \o plate \o account \o link
    BY DEF RowsOf
<1> HIDE DEF company, driver, plate, account, link
<1>5. /\ company \o driver \in Seq(T) /\ Len(company \o driver) = Len(company) + Len(driver)
    BY <1>1, ConcatProperties
<1>6. /\ company \o driver \o plate \in Seq(T)
      /\ Len(company \o driver \o plate) = Len(company) + Len(driver) + Len(plate)
    BY <1>1, <1>5, ConcatProperties
<1>7. /\ company \o driver \o plate \o account \in Seq(T)
      /\ Len(company \o driver \o plate \o account)
            = Len(company) + Len(driver) + Len(plate) + Len(account)
    BY <1>1, <1>6, ConcatProperties
<1>8. /\ company \o driver \o plate \o account \o link \in Seq(T)
      /\ Len(company \o driver \o plate \o account \o link)
            = Len(company) + Len(driver) + Len(plate) + Len(account) + Len(link)
    BY <1>1, <1>7, ConcatProperties
<1>9. Len(RowsOf(f)) <= 5 /\ Len(RowsOf(f)) \in Nat
    <2>1. \A a, b \in Nat : a <= 2 /\ b <= 3 => a + b <= 5 /\ a + b \in Nat
        OBVIOUS
    <2>2. /\ Len(company) + Len(driver) + Len(plate) \in 0 .. 2
          /\ Len(account) + Len(link) \in 0 .. 3
        <3>1. Len(company) + Len(driver) + Len(plate) \in 0 .. 2
            BY <1>2, <1>3
        <3>2. Len(account) \in 0 .. 2
            BY <1>2
        <3>3. Len(link) \in 0 .. 1
            BY <1>2
        <3>4. Len(account) + Len(link) \in 0 .. 3
            <4>1. \A a \in 0 .. 2, b \in 0 .. 1 : a + b \in 0 .. 3
                OBVIOUS
            <4> QED
                BY <3>2, <3>3, <4>1
        <3> QED
            BY <3>1, <3>4
    <2>3. Len(RowsOf(f)) = (Len(company) + Len(driver) + Len(plate)) + (Len(account) + Len(link))
        BY <1>2, <1>4, <1>8
    <2> HIDE DEF T
    <2> QED
        BY <2>2, <2>3
<1> QED
    BY <1>4, <1>8, <1>9
(* Forms are added and never changed, so neither are their keys.           *)
LEMMA SentStays ==
    ASSUME FormRows, UNCHANGED sent \/ \E f \in MaySend : sent' = Append(sent, f)
    PROVE  /\ sent' \in Seq(MaySend) /\ DOMAIN sent \subseteq DOMAIN sent'
           /\ \A n \in DOMAIN sent : sent'[n] = sent[n] /\ RowSet(n)' = RowSet(n)
           /\ \A n, m \in DOMAIN sent : \A table : Clash(table, n, m)' <=> Clash(table, n, m)
<1>1. sent \in Seq(MaySend) /\ DOMAIN sent = 1 .. Len(sent) /\ Len(sent) \in Nat
    BY DEF FormRows
<1>2. /\ sent' \in Seq(MaySend) /\ DOMAIN sent \subseteq DOMAIN sent'
      /\ \A n \in DOMAIN sent : sent'[n] = sent[n]
    <2>1. CASE UNCHANGED sent
        BY <1>1, <2>1
    <2>2. ASSUME NEW f \in MaySend, sent' = Append(sent, f)
          PROVE  /\ sent' \in Seq(MaySend) /\ DOMAIN sent \subseteq DOMAIN sent'
                 /\ \A n \in DOMAIN sent : sent'[n] = sent[n]
        <3>1. /\ sent' \in Seq(MaySend) /\ Len(sent') = Len(sent) + 1
              /\ \A n \in 1 .. Len(sent) : sent'[n] = sent[n]
            BY <1>1, <2>2, AppendProperties
        <3> QED
            BY <1>1, <3>1
    <2> QED
        BY <2>1, <2>2
<1>3. \A n \in DOMAIN sent : RowSet(n)' = RowSet(n)
    BY <1>2 DEF RowSet
<1>4. \A n \in DOMAIN sent : \A table : KeyOf(table, n)' = KeyOf(table, n)
    BY <1>2 DEF KeyOf
<1>5. \A n, m \in DOMAIN sent : \A table : Clash(table, n, m)' <=> Clash(table, n, m)
    BY <1>4 DEF Clash
<1> QED
    BY <1>2, <1>3, <1>5

(* A clash of two forms has no direction.                                  *)
LEMMA ClashBothWays == \A table, n, m : Clash(table, n, m) <=> Clash(table, m, n)
BY DEF Clash

(* The rows of an open transaction are of one of the tables.               *)
LEMMA OpenRows ==
    ASSUME FormRows, NEW c \in Counters, counter[c].form # 0
    PROVE  /\ counter[c].form \in DOMAIN sent /\ Open(c) \subseteq OneTransaction
           /\ sent[counter[c].form] \in MaySend
<1> DEFINE n == counter[c].form
<1>1. n \in DOMAIN sent
    BY DEF FormRows
<1>2. sent[n] \in MaySend
    BY <1>1 DEF FormRows
<1>3. RowsOf(sent[n]) \in Seq(OneTransaction) /\ Len(RowsOf(sent[n])) \in Nat
    BY <1>2, RowsOfForm
<1>4. counter[c].rows \in 0 .. Len(RowsOf(sent[n]))
    BY DEF FormRows
<1>5. \A i \in 1 .. counter[c].rows : i \in 1 .. Len(RowsOf(sent[n]))
    BY <1>3, <1>4
<1>6. \A i \in 1 .. counter[c].rows : RowsOf(sent[n])[i] \in OneTransaction
    BY <1>3, <1>5, ElementOfSeq
<1> QED
    BY <1>1, <1>2, <1>6 DEF Open

-----------------------------------------------------------------------------
(* A counter that is free again, and a driver that is removed, take        *)
(* nothing.                                                                *)
LEMMA FreeAgain ==
    ASSUME FormRows, OpenIInv, LeftIInv, UNCHANGED <<sent, tables>>,
           removed \subseteq removed', removed' \subseteq DOMAIN sent,
           welcomed' \subseteq DOMAIN sent,
           UNCHANGED counter \/ \E c \in Counters : counter' = [counter EXCEPT ![c] = FreeCounter]
    PROVE  FormRows' /\ OpenIInv' /\ LeftIInv'
<1>1. \A n, m \in DOMAIN sent : \A table : Clash(table, n, m)' <=> Clash(table, n, m)
    BY SentStays
<1>2. \A n \in DOMAIN sent : \A table : Taken(table, n)' => Taken(table, n)
    BY <1>1 DEF Taken, FormRows
<1>3. \A n : RowsLeft(n)' = RowsLeft(n) /\ RowSet(n)' = RowSet(n)
    BY DEF RowsLeft, RowSet
<1>4. counter' \in [Counters -> [form : {0} \cup DOMAIN sent, rows : 0 .. 5, mail : BOOLEAN]]
    <2>1. FreeCounter \in [form : {0} \cup DOMAIN sent, rows : 0 .. 5, mail : BOOLEAN]
        BY DEF FreeCounter
    <2> QED
        BY <2>1 DEF FormRows
<1>5. \A c \in Counters : counter'[c] \in {counter[c], FreeCounter}
    BY DEF FormRows
<1>6. FormRows'
    BY <1>4, <1>5 DEF FormRows, FreeCounter
<1>7. \A c \in Counters : counter'[c].form # 0 => counter'[c] = counter[c]
    BY <1>5 DEF FreeCounter
<1>8. \A c \in Counters : counter'[c] = counter[c] => Open(c)' = Open(c)
    BY DEF Open
<1>9. OpenIInv'
    <2>1. ASSUME NEW c \in Counters, Inserting(c)'
          PROVE  /\ RowsLeft(counter[c].form)' = {}
                 /\ \A table \in Open(c)' : ~Taken(table, counter[c].form)'
        <3>1. counter'[c] = counter[c] /\ Open(c)' = Open(c) /\ Inserting(c)
            BY <1>7, <1>8, <2>1 DEF Inserting
        <3>2. counter[c].form \in DOMAIN sent
            BY <3>1 DEF Inserting, FormRows
        <3> QED
            BY <1>2, <1>3, <3>1, <3>2 DEF OpenIInv
    <2>2. ASSUME NEW c \in Counters, NEW d \in Counters, c # d, Inserting(c)', Inserting(d)'
          PROVE  \A table \in Open(c)' \cap Open(d)' :
                     ~Clash(table, counter[c].form, counter[d].form)'
        <3>1. /\ counter'[c] = counter[c] /\ Open(c)' = Open(c) /\ Inserting(c)
              /\ counter'[d] = counter[d] /\ Open(d)' = Open(d) /\ Inserting(d)
            BY <1>7, <1>8, <2>2 DEF Inserting
        <3>2. counter[c].form \in DOMAIN sent /\ counter[d].form \in DOMAIN sent
            BY <3>1 DEF Inserting, FormRows
        <3> QED
            BY <1>1, <2>2, <3>1, <3>2 DEF OpenIInv
    <2>3. \A c, d \in Counters : c # d /\ counter'[c].form # 0 /\ counter'[d].form # 0 =>
              counter'[c].form # counter'[d].form
        BY <1>7 DEF OpenIInv
    <2> QED
        BY <2>1, <2>2, <2>3 DEF OpenIInv
<1>10. LeftIInv'
    BY <1>2, <1>3 DEF LeftIInv
<1> QED
    BY <1>6, <1>9, <1>10

(* A form arrives.                                                         *)
LEMMA SendOK ==
    ASSUME FormRows, OpenIInv, LeftIInv, NEW c \in Counters, Send(c)
    PROVE  FormRows' /\ OpenIInv' /\ LeftIInv'
<1> DEFINE new == Len(sent) + 1
<1>1. /\ counter' = [counter EXCEPT ![c].form = new] /\ counter[c] = FreeCounter
      /\ UNCHANGED <<tables, removed, welcomed>> /\ Len(sent) < MaxAccounts
    BY DEF Send
<1>2. PICK f \in MaySend : sent' = Append(sent, f)
    BY DEF Send
<1>3. /\ sent' \in Seq(MaySend) /\ DOMAIN sent \subseteq DOMAIN sent'
      /\ \A n \in DOMAIN sent : sent'[n] = sent[n] /\ RowSet(n)' = RowSet(n)
      /\ \A n, m \in DOMAIN sent : \A table : Clash(table, n, m)' <=> Clash(table, n, m)
    BY <1>2, SentStays
<1>4. /\ Len(sent') = new /\ sent'[new] = f /\ new \notin DOMAIN sent /\ new # 0
      /\ DOMAIN sent' = DOMAIN sent \cup {new} /\ new \in Nat
    BY <1>2, AppendProperties DEF FormRows
<1> HIDE DEF new
<1>5. /\ counter'[c] \in [form : {new}, rows : {0}, mail : {FALSE}]
      /\ \A d \in Counters : d # c => counter'[d] = counter[d]
    <2>1. counter' = [counter EXCEPT ![c] = [FreeCounter EXCEPT !.form = new]]
        BY <1>1
    <2>2. FreeCounter \in [form : {0}, rows : {0}, mail : {FALSE}]
        BY DEF FreeCounter
    <2>3. [FreeCounter EXCEPT !.form = new] \in [form : {new}, rows : {0}, mail : {FALSE}]
        BY <2>2
    <2> QED
        BY <2>1, <2>3 DEF FormRows
<1>5a. counter'[c].form = new /\ counter'[c].rows = 0 /\ ~counter'[c].mail
    BY <1>5
<1>6. /\ \A n \in DOMAIN sent : \A table : Taken(table, n)' <=> Taken(table, n)
      /\ \A n : RowsLeft(n)' = RowsLeft(n)
      /\ RowsLeft(new) = {} /\ Open(c)' = {}
    <2>1. \A n \in DOMAIN sent : \A table : Taken(table, n)' <=> Taken(table, n)
        BY <1>1, <1>3 DEF Taken, FormRows
    <2>2. \A n : RowsLeft(n)' = RowsLeft(n)
        BY <1>1 DEF RowsLeft
    <2>3. RowsLeft(new) = {}
        BY <1>4 DEF RowsLeft, FormRows
    <2>4. Open(c)' = {}
        BY <1>5a DEF Open
    <2> QED
        BY <2>1, <2>2, <2>3, <2>4
<1>7. \A d \in Counters : d # c /\ counter[d].form # 0 =>
          /\ counter[d].form \in DOMAIN sent
          /\ sent'[counter[d].form] = sent[counter[d].form]
          /\ Open(d)' = Open(d)
    BY <1>3, <1>5 DEF FormRows, Open
<1>8. FormRows'
    <2>1. Len(sent') <= MaxAccounts
        BY <1>1, <1>4, NewAccountsAssumption DEF FormRows, new
    <2>2. counter' \in [Counters -> [form : {0} \cup DOMAIN sent', rows : 0 .. 5, mail : BOOLEAN]]
        BY <1>1, <1>3, <1>4, <1>5 DEF FormRows
    <2>3. Len(RowsOf(f)) \in Nat
        BY RowsOfForm
    <2>4. ASSUME NEW d \in Counters
          PROVE  /\ counter'[d].form = 0 => counter'[d] = FreeCounter
                 /\ counter'[d].form # 0 =>
                        counter'[d].rows \in 0 .. Len(RowsOf(sent'[counter'[d].form]))
        <3>1. CASE d = c
            BY <1>4, <1>5a, <2>3, <3>1
        <3>2. CASE d # c
            BY <1>5, <1>7, <3>2 DEF FormRows
        <3> QED
            BY <3>1, <3>2
    <2> QED
        BY <1>1, <1>3, <2>1, <2>2, <2>4 DEF FormRows
<1>9. OpenIInv'
    <2>1. ASSUME NEW d \in Counters, Inserting(d)'
          PROVE  /\ RowsLeft(counter[d].form)' = {}
                 /\ \A table \in Open(d)' : ~Taken(table, counter[d].form)'
        BY <1>5, <1>6, <1>7, <2>1 DEF OpenIInv, Inserting
    <2>2. ASSUME NEW d \in Counters, NEW e \in Counters, d # e, Inserting(d)', Inserting(e)'
          PROVE  \A table \in Open(d)' \cap Open(e)' :
                     ~Clash(table, counter[d].form, counter[e].form)'
        <3>1. CASE d = c \/ e = c
            BY <1>6, <3>1
        <3>2. CASE d # c /\ e # c
            BY <1>3, <1>5, <1>7, <2>2, <3>2 DEF OpenIInv, Inserting
        <3> QED
            BY <3>1, <3>2
    <2>3. \A d, e \in Counters : d # e /\ counter'[d].form # 0 /\ counter'[e].form # 0 =>
              counter'[d].form # counter'[e].form
        BY <1>4, <1>5, <1>5a, <1>7 DEF OpenIInv
    <2> QED
        BY <2>1, <2>2, <2>3 DEF OpenIInv
<1>10. LeftIInv'
    <2>1. ASSUME NEW n \in DOMAIN sent'
          PROVE  /\ RowsLeft(n)' = {} \/ RowsLeft(n)' = RowSet(n)'
                 /\ n \notin removed' => \A table \in RowsLeft(n)' : ~Taken(table, n)'
        <3>1. CASE n = new
            BY <1>6, <3>1
        <3>2. CASE n \in DOMAIN sent
            BY <1>1, <1>3, <1>6, <3>2 DEF LeftIInv
        <3> QED
            BY <1>4, <3>1, <3>2
    <2> QED
        BY <2>1 DEF LeftIInv
<1> QED
    BY <1>8, <1>9, <1>10

(* A row is inserted, or the unique index refuses it and all is rolled     *)
(* back.                                                                   *)
LEMMA InsertRowOK ==
    ASSUME FormRows, OpenIInv, LeftIInv, NEW c \in Counters, InsertRow(c)
    PROVE  FormRows' /\ OpenIInv' /\ LeftIInv'
<1>0. PICK n : n = counter[c].form
    OBVIOUS
<1> DEFINE next == RowsOf(sent[n])[counter[c].rows + 1]
<1>1. /\ n # 0 /\ ~counter[c].mail /\ counter[c].rows < Len(RowsOf(sent[n]))
      /\ ~InDoubt(next, n) /\ UNCHANGED <<sent, removed, welcomed>>
    BY <1>0 DEF InsertRow
<1>2. n \in DOMAIN sent /\ sent[n] \in MaySend
    BY <1>0, <1>1, OpenRows
<1>3. /\ RowsOf(sent[n]) \in Seq(OneTransaction) /\ Len(RowsOf(sent[n])) <= 5
      /\ Len(RowsOf(sent[n])) \in Nat
    BY <1>2, RowsOfForm
<1>4. counter[c].rows \in 0 .. Len(RowsOf(sent[n]))
    BY <1>0, <1>1 DEF FormRows
<1>5. counter[c].rows + 1 \in 1 .. Len(RowsOf(sent[n]))
    BY <1>1, <1>3, <1>4
<1>6. next \in OneTransaction
    BY <1>3, <1>5, ElementOfSeq
<1>7. CASE Taken(next, n)
    BY <1>0, <1>1, <1>7, FreeAgain DEF InsertRow, FormRows
<1>8. CASE ~Taken(next, n)
    <2>1. UNCHANGED tables /\ counter' = [counter EXCEPT ![c].rows = counter[c].rows + 1]
        BY <1>0, <1>6, <1>8 DEF InsertRow
    <2>2. /\ counter'[c] = [counter[c] EXCEPT !.rows = counter[c].rows + 1]
          /\ \A d \in Counters : d # c => counter'[d] = counter[d]
        BY <2>1 DEF FormRows
    <2>3. /\ counter'[c].form = n /\ counter'[c].rows = counter[c].rows + 1
          /\ counter'[c].mail = counter[c].mail
        BY <1>0, <2>2 DEF FormRows
    <2>4. \A m, k \in DOMAIN sent : \A table : Clash(table, m, k)' <=> Clash(table, m, k)
        BY <1>1, SentStays
    <2>5. \A m \in DOMAIN sent : \A table : Taken(table, m)' <=> Taken(table, m)
        BY <1>1, <2>1, <2>4 DEF Taken, FormRows
    <2>6. \A m : RowsLeft(m)' = RowsLeft(m) /\ RowSet(m)' = RowSet(m)
        BY <1>1, <2>1 DEF RowsLeft, RowSet
    <2>7. Open(c)' = Open(c) \cup {next}
        <3>1. \A i : i \in 1 .. counter[c].rows + 1
                         <=> i \in 1 .. counter[c].rows \/ i = counter[c].rows + 1
            BY <1>3, <1>4
        <3> QED
            BY <1>0, <1>1, <2>3, <3>1 DEF Open
    <2>8. \A d \in Counters : d # c => Open(d)' = Open(d) /\ (Inserting(d)' <=> Inserting(d))
        BY <1>1, <2>2 DEF Open, Inserting
    <2>9. FormRows'
        <3>1. counter' \in
                [Counters -> [form : {0} \cup DOMAIN sent, rows : 0 .. 5, mail : BOOLEAN]]
            BY <1>3, <1>5, <2>1 DEF FormRows
        <3>2. ASSUME NEW d \in Counters
              PROVE  /\ counter'[d].form = 0 => counter'[d] = FreeCounter
                     /\ counter'[d].form # 0 =>
                            counter'[d].rows \in 0 .. Len(RowsOf(sent'[counter'[d].form]))
            <4>1. CASE d = c
                BY <1>1, <1>3, <1>5, <2>3, <4>1
            <4>2. CASE d # c
                BY <1>1, <2>2, <4>2 DEF FormRows
            <4> QED
                BY <4>1, <4>2
        <3> QED
            BY <1>1, <2>1, <3>1, <3>2 DEF FormRows
    <2>10. OpenIInv'
        <3>1. ASSUME NEW d \in Counters, Inserting(d)'
              PROVE  /\ RowsLeft(counter[d].form)' = {}
                     /\ \A table \in Open(d)' : ~Taken(table, counter[d].form)'
            <4>1. CASE d = c
                BY <1>0, <1>1, <1>2, <1>8, <2>3, <2>5, <2>6, <2>7, <4>1 DEF OpenIInv, Inserting
            <4>2. CASE d # c
                <5>1. Inserting(d) /\ counter'[d] = counter[d] /\ counter[d].form \in DOMAIN sent
                    BY <2>2, <2>8, <3>1, <4>2 DEF Inserting, FormRows
                <5> QED
                    BY <2>5, <2>6, <2>8, <4>2, <5>1 DEF OpenIInv
            <4> QED
                BY <4>1, <4>2
        <3>2. ASSUME NEW d \in Counters, d # c, Inserting(d)
              PROVE  \A table \in Open(c)' \cap Open(d) :
                         /\ ~Clash(table, counter[c].form, counter[d].form)'
                         /\ ~Clash(table, counter[d].form, counter[c].form)'
            <4>1. counter[d].form \in DOMAIN sent
                BY <3>2 DEF Inserting, FormRows
            <4>2. next \in Open(d) => ~Clash(next, n, counter[d].form)
                BY <1>1, <3>2 DEF InDoubt, Inserting
            <4>5. counter'[c].form = n /\ counter'[d].form = counter[d].form
                BY <2>2, <2>3, <3>2
            <4>3. \A table \in Open(c) \cap Open(d) : ~Clash(table, n, counter[d].form)
                BY <1>0, <1>1, <3>2 DEF OpenIInv, Inserting
            <4>4. \A table \in Open(c)' \cap Open(d) : ~Clash(table, n, counter[d].form)
                BY <2>7, <4>2, <4>3
            <4> QED
                BY <1>2, <2>4, <4>1, <4>4, <4>5, ClashBothWays
        <3>3. ASSUME NEW d \in Counters, NEW e \in Counters, d # e, Inserting(d)', Inserting(e)'
              PROVE  \A table \in Open(d)' \cap Open(e)' :
                         ~Clash(table, counter[d].form, counter[e].form)'
            <4>1. CASE d = c
                BY <2>2, <2>3, <2>8, <3>2, <3>3, <4>1
            <4>2. CASE e = c
                BY <2>2, <2>3, <2>8, <3>2, <3>3, <4>2
            <4>3. CASE d # c /\ e # c
                <5>1. counter[d].form \in DOMAIN sent /\ counter[e].form \in DOMAIN sent
                    BY <2>8, <3>3, <4>3 DEF Inserting, FormRows
                <5> QED
                    BY <2>2, <2>4, <2>8, <3>3, <4>3, <5>1 DEF OpenIInv
            <4> QED
                BY <4>1, <4>2, <4>3
        <3>4. \A d, e \in Counters : d # e /\ counter'[d].form # 0 /\ counter'[e].form # 0 =>
                  counter'[d].form # counter'[e].form
            <4>1. \A d \in Counters : counter'[d].form = counter[d].form
                BY <1>0, <2>2, <2>3
            <4> QED
                BY <4>1 DEF OpenIInv
        <3> QED
            BY <3>1, <3>3, <3>4 DEF OpenIInv
    <2>11. LeftIInv'
        BY <1>1, <2>5, <2>6 DEF LeftIInv
    <2> QED
        BY <2>9, <2>10, <2>11
<1> QED
    BY <1>7, <1>8

(* The transaction commits.                                                *)
LEMMA CommitOK ==
    ASSUME FormRows, OpenIInv, LeftIInv, NEW c \in Counters, Commit(c)
    PROVE  FormRows' /\ OpenIInv' /\ LeftIInv'
<1>0. PICK n : n = counter[c].form
    OBVIOUS
<1>1. /\ n # 0 /\ ~counter[c].mail /\ counter[c].rows = Len(RowsOf(sent[n]))
      /\ tables' = tables \cup {<<table, n>> : table \in Open(c)}
      /\ UNCHANGED <<sent, removed, welcomed>>
      /\ counter' = [counter EXCEPT ![c] = IF IsWelcomed(sent[n])
                                           THEN [counter[c] EXCEPT !.mail = TRUE] ELSE FreeCounter]
    BY <1>0 DEF Commit
<1>2. n \in DOMAIN sent /\ sent[n] \in MaySend /\ Open(c) \subseteq OneTransaction
    BY <1>0, <1>1, OpenRows
<1>3. /\ counter'[c] \in {[counter[c] EXCEPT !.mail = TRUE], FreeCounter}
      /\ \A d \in Counters : d # c => counter'[d] = counter[d]
    BY <1>1 DEF FormRows
<1>4. ~Inserting(c)' /\ (counter'[c].form # 0 => counter'[c].form = n
                                                  /\ counter'[c].rows = counter[c].rows)
    BY <1>0, <1>3 DEF Inserting, FormRows, FreeCounter
<1>5. \A m, k \in DOMAIN sent : \A table : Clash(table, m, k)' <=> Clash(table, m, k)
    BY <1>1, SentStays
<1>6. RowSet(n) = Open(c) /\ \A m : RowSet(m)' = RowSet(m)
    BY <1>0, <1>1, <1>2, RowsOfForm DEF RowSet, Open
<1>7. RowsLeft(n) = {} /\ RowsLeft(n)' = Open(c)
    <2>1. RowsLeft(n) = {}
        BY <1>0, <1>1 DEF OpenIInv, Inserting
    <2>2. \A q \in tables : q[2] # n
        BY <2>1 DEF RowsLeft
    <2>3. {q \in tables' : q[2] = n} = {<<table, n>> : table \in Open(c)}
        BY <1>1, <2>2
    <2>4. ASSUME NEW S PROVE {p[1] : p \in {<<table, n>> : table \in S}} = S
        <3>1. \A x \in S : x = <<x, n>>[1] /\ <<x, n>> \in {<<table, n>> : table \in S}
            OBVIOUS
        <3>2. \A p \in {<<table, n>> : table \in S} : p[1] \in S
            OBVIOUS
        <3> QED
            BY <3>1, <3>2
    <2> QED
        BY <2>1, <2>3, <2>4 DEF RowsLeft
<1>8. \A m : m # n => RowsLeft(m)' = RowsLeft(m)
    BY <1>1 DEF RowsLeft
<1>9. \A m \in DOMAIN sent : \A table :
          Taken(table, m)' => Taken(table, m) \/ (table \in Open(c) /\ Clash(table, m, n))
    <2> SUFFICES ASSUME NEW m \in DOMAIN sent, NEW table, Taken(table, m)'
                 PROVE  Taken(table, m) \/ (table \in Open(c) /\ Clash(table, m, n))
        OBVIOUS
    <2>1. PICK q \in tables' : q[1] = table /\ q[2] \notin removed /\ Clash(table, m, q[2])'
        BY <1>1 DEF Taken
    <2>2. CASE q \in tables
        <3>1. q[2] \in DOMAIN sent
            BY <2>2 DEF FormRows
        <3> QED
            BY <1>5, <2>1, <2>2, <3>1 DEF Taken
    <2>3. CASE q \notin tables
        <3>1. table \in Open(c) /\ q[2] = n
            BY <1>1, <2>1, <2>3
        <3> QED
            BY <1>2, <1>5, <2>1, <3>1
    <2> QED
        BY <2>2, <2>3
<1>11. FormRows'
    <2>1. counter' \in [Counters -> [form : {0} \cup DOMAIN sent, rows : 0 .. 5, mail : BOOLEAN]]
        <3> DEFINE Slot == [form : {0} \cup DOMAIN sent, rows : 0 .. 5, mail : BOOLEAN]
        <3>1. FreeCounter \in Slot
            BY DEF FreeCounter
        <3>2. counter \in [Counters -> Slot] /\ counter[c] \in Slot
            BY DEF FormRows
        <3>3. [counter[c] EXCEPT !.mail = TRUE] \in Slot
            BY <3>2
        <3> HIDE DEF Slot
        <3>4. counter' \in [Counters -> Slot]
            BY <1>1, <3>1, <3>2, <3>3
        <3> QED
            BY <3>4 DEF Slot
    <2>2. ASSUME NEW d \in Counters
          PROVE  /\ counter'[d].form = 0 => counter'[d] = FreeCounter
                 /\ counter'[d].form # 0 =>
                        counter'[d].rows \in 0 .. Len(RowsOf(sent'[counter'[d].form]))
        <3>1. CASE d = c
            <4>1. CASE counter'[c] = FreeCounter
                BY <3>1, <4>1 DEF FreeCounter
            <4>2. CASE counter'[c] = [counter[c] EXCEPT !.mail = TRUE]
                <5>1. counter'[c].form = n /\ counter'[c].rows = counter[c].rows
                    BY <1>0, <4>2 DEF FormRows
                <5> QED
                    BY <1>0, <1>1, <3>1, <5>1 DEF FormRows
            <4> QED
                BY <1>3, <4>1, <4>2
        <3>2. CASE d # c
            BY <1>1, <1>3, <3>2 DEF FormRows
        <3> QED
            BY <3>1, <3>2
    <2>3. tables' \subseteq OneTransaction \X DOMAIN sent
        BY <1>1, <1>2 DEF FormRows
    <2> QED
        BY <1>1, <2>1, <2>2, <2>3 DEF FormRows
<1>12. OpenIInv'
    <2>1. \A d \in Counters : Inserting(d)' =>
              /\ d # c /\ Inserting(d) /\ counter'[d] = counter[d] /\ Open(d)' = Open(d)
              /\ counter[d].form \in DOMAIN sent /\ counter[d].form # n
        BY <1>0, <1>1, <1>3, <1>4 DEF Inserting, Open, FormRows, OpenIInv
    <2>2. ASSUME NEW d \in Counters, Inserting(d)'
          PROVE  /\ RowsLeft(counter[d].form)' = {}
                 /\ \A table \in Open(d)' : ~Taken(table, counter[d].form)'
        <3>1. \A table \in Open(d) : ~Taken(table, counter[d].form)
            BY <2>1, <2>2 DEF OpenIInv
        <3>2. \A table \in Open(d) \cap Open(c) : ~Clash(table, counter[d].form, n)
            BY <1>0, <1>1, <2>1, <2>2 DEF OpenIInv, Inserting
        <3>3. RowsLeft(counter[d].form) = {}
            BY <2>1, <2>2 DEF OpenIInv
        <3> QED
            BY <1>8, <1>9, <2>1, <2>2, <3>1, <3>2, <3>3
    <2>3. ASSUME NEW d \in Counters, NEW e \in Counters, d # e, Inserting(d)', Inserting(e)'
          PROVE  \A table \in Open(d)' \cap Open(e)' :
                     ~Clash(table, counter[d].form, counter[e].form)'
        BY <1>5, <2>1, <2>3 DEF OpenIInv
    <2>4. \A d, e \in Counters : d # e /\ counter'[d].form # 0 /\ counter'[e].form # 0 =>
              counter'[d].form # counter'[e].form
        BY <1>0, <1>1, <1>3, <1>4 DEF OpenIInv
    <2> QED
        BY <2>2, <2>3, <2>4 DEF OpenIInv
<1>13. LeftIInv'
    <2>1. \A table \in Open(c) : ~Taken(table, n)
        BY <1>0, <1>1 DEF OpenIInv, Inserting
    <2>2. ASSUME NEW m \in DOMAIN sent'
          PROVE  /\ RowsLeft(m)' = {} \/ RowsLeft(m)' = RowSet(m)'
                 /\ m \notin removed' => \A table \in RowsLeft(m)' : ~Taken(table, m)'
        <3>1. CASE m = n
            <4>1. \A table : ~Clash(table, n, n)
                BY DEF Clash
            <4> QED
                BY <1>2, <1>6, <1>7, <1>9, <2>1, <3>1, <4>1
        <3>2. CASE m # n
            <4>0. m \in DOMAIN sent
                BY <1>1
            <4>1. RowsLeft(m)' = RowsLeft(m)
                BY <1>8, <3>2
            <4>2. ASSUME m \notin removed, NEW table \in RowsLeft(m) PROVE ~Taken(table, m)'
                <5>1. ~Taken(table, m)
                    BY <4>0, <4>2 DEF LeftIInv
                <5>2. \E q \in tables : q[1] = table /\ q[2] = m
                    BY <4>2 DEF RowsLeft
                <5>3. table \in Open(c) => ~Clash(table, n, m)
                    BY <2>1, <4>2, <5>2 DEF Taken
                <5> QED
                    BY <1>9, <4>0, <5>1, <5>3, ClashBothWays
            <4> QED
                BY <1>1, <1>6, <4>0, <4>1, <4>2 DEF LeftIInv
        <3> QED
            BY <3>1, <3>2
    <2> QED
        BY <2>2 DEF LeftIInv
<1> QED
    BY <1>11, <1>12, <1>13

(* Every step keeps all or nothing.                                        *)
LEMMA NewAccountsStepOK ==
    ASSUME FormRows, OpenIInv, LeftIInv, [NewAccountsNext]_newAccountsVars
    PROVE  FormRows' /\ OpenIInv' /\ LeftIInv'
<1>1. CASE UNCHANGED newAccountsVars
    BY <1>1, FreeAgain DEF newAccountsVars, FormRows
<1>2. ASSUME NEW c \in Counters, Welcome(c) \/ FormCrash(c)
      PROVE  FormRows' /\ OpenIInv' /\ LeftIInv'
    <2>1. /\ UNCHANGED <<sent, tables, removed>>
          /\ counter' = [counter EXCEPT ![c] = FreeCounter]
        BY <1>2 DEF Welcome, FormCrash
    <2>2. welcomed' \subseteq DOMAIN sent
        BY <1>2 DEF Welcome, FormCrash, FormRows, FreeCounter
    <2> QED
        BY <2>1, <2>2, FreeAgain DEF FormRows
<1>3. ASSUME NEW n \in DOMAIN sent, DeleteDriver(n)
      PROVE  FormRows' /\ OpenIInv' /\ LeftIInv'
    BY <1>3, FreeAgain DEF DeleteDriver, FormRows
<1> QED
    BY <1>1, <1>2, <1>3, SendOK, InsertRowOK, CommitOK DEF NewAccountsNext

(* Nothing has been sent.                                                  *)
LEMMA NewAccountsInitOK == NewAccountsInit => FormRows /\ OpenIInv /\ LeftIInv
<1> SUFFICES ASSUME NewAccountsInit PROVE FormRows /\ OpenIInv /\ LeftIInv
    OBVIOUS
<1>1. sent \in Seq(MaySend) /\ Len(sent) <= MaxAccounts /\ DOMAIN sent = {}
    BY EmptySeq, NewAccountsAssumption DEF NewAccountsInit
<1>2. FormRows
    BY <1>1 DEF NewAccountsInit, FormRows, FreeCounter
<1>3. OpenIInv
    BY DEF NewAccountsInit, OpenIInv, Inserting, FreeCounter
<1> QED
    BY <1>1, <1>2, <1>3 DEF LeftIInv

(* Whatever forms overlap, and wherever the API dies, a form has left      *)
(* every row it asked for or none, and its live rows clash with those of   *)
(* no other form.                                                          *)
THEOREM WholeForms ==
    NewAccountsSpec => [](NewAccountsTypeOK /\ OnboardedWhole)
<1> DEFINE IInv == FormRows /\ OpenIInv /\ LeftIInv
<1>1. NewAccountsInit => IInv
    BY NewAccountsInitOK
<1>2. IInv /\ [NewAccountsNext]_newAccountsVars => IInv'
    BY NewAccountsStepOK
<1>3. FormRows => NewAccountsTypeOK
    <2> SUFFICES ASSUME FormRows PROVE NewAccountsTypeOK
        OBVIOUS
    <2>1. DOMAIN sent \subseteq 1 .. MaxAccounts /\ MaxAccounts \in Nat
        BY NewAccountsAssumption DEF FormRows
    <2>2. counter \in [Counters -> [form : 0 .. MaxAccounts, rows : 0 .. 5, mail : BOOLEAN]]
        BY <2>1 DEF FormRows
    <2> QED
        BY <2>2 DEF FormRows, NewAccountsTypeOK
<1>4. LeftIInv => OnboardedWhole
    BY DEF LeftIInv, OnboardedWhole, RowsLeft, RowSet
<1> QED
    BY <1>1, <1>2, <1>3, <1>4, PTL DEF NewAccountsSpec
=============================================================================
