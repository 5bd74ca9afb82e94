---------------------------- MODULE NewAccounts ----------------------------
(***************************************************************************)
(* How an account comes to exist: the first administrator, staff           *)
(* (identity.service.ts), an advertiser and the logins of one              *)
(* (advertisers.service.ts), a driver with or without a vehicle, and the   *)
(* removal that frees what a driver had taken (drivers.service.ts).        *)
(*                                                                         *)
(* Each form is one transaction of several inserts, then a message that    *)
(* may not leave. An insert whose unique key another open transaction has  *)
(* taken waits for it to end; one whose key is taken for good ends its own *)
(* transaction. Audit rows, the transition log of a vehicle and what       *)
(* becomes of an account later (Accounts, Onboarding) are left out; no     *)
(* advertiser is CLOSED.                                                   *)
(***************************************************************************)
EXTENDS Integers, Sequences

CONSTANTS
    Counters,       \* people of the back office, each with one form at a time
    Emails, Mobiles, Plates,
    MaxAccounts     \* bound: the forms sent

ASSUME NewAccountsAssumption ==
    /\ "none" \notin Emails \cup Mobiles \cup Plates
    /\ MaxAccounts \in Nat

VARIABLES
    sent,       \* the forms, in the order they were sent
    counter,    \* counter -> the form under way and how many of its rows it has
                \* inserted, or 0
    tables,     \* the rows that are committed: <<table, form>>
    removed,    \* the forms whose driver has been removed
    welcomed    \* the forms whose message left

newAccountsVars == <<sent, counter, tables, removed, welcomed>>

Form == [kind : {"bootstrap", "staff", "company", "login", "driver"},
         email : Emails \cup {"none"}, mobile : Mobiles \cup {"none"},
         plate : Plates \cup {"none"}]

(* What the contracts let through: a company may come without a login, a   *)
(* driver without a vehicle.                                               *)
MaySend ==
    {f \in Form : /\ f.kind # "company" => f.email # "none"
                  /\ (f.kind = "driver") = (f.mobile # "none")
                  /\ f.kind # "driver" => f.plate = "none"}

(* The rows a form asks for, in the order they are inserted.               *)
RowsOf(f) ==
    LET user == IF f.email = "none" THEN << >> ELSE <<"users", "user_roles">>
        link == IF f.kind \in {"company", "login"} /\ f.email # "none"
                THEN <<"user_invitations">> ELSE << >>
    IN  (IF f.kind = "company" THEN <<"advertisers">> ELSE << >>)
            \o (IF f.kind = "driver" THEN <<"drivers">> ELSE << >>)
            \o (IF f.plate # "none" THEN <<"vehicles">> ELSE << >>)
            \o user \o link

FreeCounter == [form |-> 0, rows |-> 0, mail |-> FALSE]

NewAccountsTypeOK ==
    /\ sent \in Seq(MaySend) /\ Len(sent) <= MaxAccounts
    /\ counter \in [Counters -> [form : 0 .. MaxAccounts, rows : 0 .. 5, mail : BOOLEAN]]
    /\ \A p \in tables : p[2] \in DOMAIN sent
    /\ removed \cup welcomed \subseteq DOMAIN sent

NewAccountsInit ==
    /\ sent = << >>
    /\ counter = [c \in Counters |-> FreeCounter]
    /\ tables = {}
    /\ removed = {}
    /\ welcomed = {}

-----------------------------------------------------------------------------
(* The key of a row that no other live row may have.                       *)
KeyOf(table, n) ==
    CASE table = "users" -> sent[n].email
      [] table = "drivers" -> sent[n].mobile
      [] table = "vehicles" -> sent[n].plate
      [] OTHER -> "none"

Clash(table, n, m) == n # m /\ KeyOf(table, n) # "none" /\ KeyOf(table, n) = KeyOf(table, m)

Taken(table, n) ==
    \E p \in tables : p[1] = table /\ p[2] \notin removed /\ Clash(table, n, p[2])

(* The rows of a transaction that is still open.                           *)
Open(c) == {RowsOf(sent[counter[c].form])[i] : i \in 1 .. counter[c].rows}

InDoubt(table, n) ==
    \E c \in Counters : /\ counter[c].form # 0 /\ ~counter[c].mail
                        /\ table \in Open(c)
                        /\ Clash(table, n, counter[c].form)

-----------------------------------------------------------------------------
(* countUsers and findDriverByMobile come before the transaction.          *)
Refused(f) ==
    \/ f.kind = "bootstrap" /\ \E p \in tables : p[1] = "users"
    \/ f.kind = "driver" /\ \E p \in tables : /\ p[1] = "drivers" /\ p[2] \notin removed
                                              /\ sent[p[2]].mobile = f.mobile
    \/ f.kind = "login" /\ \A p \in tables : p[1] # "advertisers"

Send(c) ==
    /\ counter[c] = FreeCounter
    /\ Len(sent) < MaxAccounts
    /\ \E f \in MaySend : ~Refused(f) /\ sent' = Append(sent, f)
    /\ counter' = [counter EXCEPT ![c].form = Len(sent) + 1]
    /\ UNCHANGED <<tables, removed, welcomed>>

(* Faulty: the login is a call of its own, after the rows it belongs to.   *)
TwoCalls == {"users", "user_roles", "user_invitations"}

(* The rows a form inserts in its one transaction.                         *)
OneTransaction ==
    {"advertisers", "drivers", "vehicles", "users", "user_roles", "user_invitations"}

InsertRow(c) ==
    LET n == counter[c].form
        next == RowsOf(sent[n])[counter[c].rows + 1]
    IN  /\ n # 0 /\ ~counter[c].mail
        /\ counter[c].rows < Len(RowsOf(sent[n]))
        /\ ~InDoubt(next, n)
        /\ IF Taken(next, n)
           THEN counter' = [counter EXCEPT ![c] = FreeCounter] /\ UNCHANGED tables
           ELSE /\ counter' = [counter EXCEPT ![c].rows = @ + 1]
                /\ tables' = IF next \in OneTransaction THEN tables
                             ELSE tables \cup {<<next, n>>}
        /\ UNCHANGED <<sent, removed, welcomed>>

(* An advertiser's login and a driver are written to.                      *)
IsWelcomed(f) == f.kind \in {"company", "login", "driver"} /\ f.email # "none"

Commit(c) ==
    LET n == counter[c].form
    IN  /\ n # 0 /\ ~counter[c].mail
        /\ counter[c].rows = Len(RowsOf(sent[n]))
        /\ tables' = tables \cup {<<table, n>> : table \in Open(c)}
        /\ counter' = [counter EXCEPT ![c] = IF IsWelcomed(sent[n])
                                             THEN [@ EXCEPT !.mail = TRUE] ELSE FreeCounter]
        /\ UNCHANGED <<sent, removed, welcomed>>

(* deliver and sendDriverInvitation never throw: the message leaves, or    *)
(* the answer says that it did not.                                        *)
Welcome(c) ==
    /\ counter[c].mail
    /\ welcomed' \in {welcomed, welcomed \cup {counter[c].form}}
    /\ counter' = [counter EXCEPT ![c] = FreeCounter]
    /\ UNCHANGED <<sent, tables, removed>>

(* The API dies under a form: what was not committed is gone.              *)
FormCrash(c) ==
    /\ counter[c] # FreeCounter
    /\ counter' = [counter EXCEPT ![c] = FreeCounter]
    /\ UNCHANGED <<sent, tables, removed, welcomed>>

(* deleteDriver: the rows stay, and free the mobile, the plate and the     *)
(* sign-in address.                                                        *)
DeleteDriver(n) ==
    /\ <<"drivers", n>> \in tables
    /\ n \notin removed
    /\ removed' = removed \cup {n}
    /\ UNCHANGED <<sent, counter, tables, welcomed>>

NewAccountsNext ==
    \/ \E c \in Counters : Send(c) \/ InsertRow(c) \/ Commit(c) \/ Welcome(c) \/ FormCrash(c)
    \/ \E n \in DOMAIN sent : DeleteDriver(n)

NewAccountsSpec == NewAccountsInit /\ [][NewAccountsNext]_newAccountsVars

-----------------------------------------------------------------------------
(* "Both rows or neither": whatever two people submit at once, and         *)
(* wherever the API dies, a form has left all the rows it asked for or     *)
(* none, so a corrected form is never refused for what the first one left; *)
(* and no two live accounts share an address, a mobile or a plate.         *)
OnboardedWhole ==
    \A n \in DOMAIN sent :
        LET left == {p[1] : p \in {p \in tables : p[2] = n}}
        IN  /\ left = {} \/ left = {RowsOf(sent[n])[i] : i \in DOMAIN RowsOf(sent[n])}
            /\ n \notin removed => \A table \in left : ~Taken(table, n)
=============================================================================
