--------------------------- MODULE SessionsProofs ---------------------------
(***************************************************************************)
(* Theorems about Sessions, for any drivers, vehicles, campaigns, bound on *)
(* the sessions and finite set of requests.                                *)
(***************************************************************************)
EXTENDS Sessions, FiniteSetTheorems, SequenceTheorems, TLAPS

(* A start that is under way has room for its session.                     *)
Reserved == Len(sessions) + Cardinality(Starting) <= MaxSessions

(* The steps belong to the kinds of request that take them.                *)
StartSteps == {"gate", "assignment", "existing", "create"}

Shaped ==
    \A r \in Requests : requests[r] # Idle =>
        /\ requests[r].kind = "start" <=> requests[r].next \in StartSteps
        /\ requests[r].next \in {"record", "list", "release"} => requests[r].kind = "withdraw"

(* A patient driver has one request under way.                             *)
OneRequest ==
    \A d \in Patient : \A q, r \in Requests :
        requests[q] # Idle /\ requests[r] # Idle
            /\ requests[q].driver = d /\ requests[r].driver = d => q = r

(* A patient driver's start that passed the gate finds the consent it      *)
(* passed with still standing.                                             *)
StartsConsented ==
    \A r \in Requests :
        /\ requests[r] # Idle /\ requests[r].driver \in Patient
        /\ requests[r].next \in StartSteps \ {"gate"}
        => consented[requests[r].driver]

(* A request that is about to end the driver's last session.               *)
Ends(r, d) ==
    /\ requests[r] # Idle /\ requests[r].kind = "withdraw" /\ requests[r].driver = d
    /\ \/ requests[r].next = "find"
       \/ requests[r].next = "end" /\ ActiveSessions(d) \subseteq {requests[r].session}

(* Whoever is measured without consent is being stopped.                   *)
BeingStopped ==
    \A d \in Patient :
        consented[d] \/ ActiveSessions(d) = {} \/ \E r \in Requests : Ends(r, d)

IInv ==
    /\ TypeOK /\ Reserved /\ OneSessionAtATime
    /\ Shaped /\ OneRequest /\ StartsConsented /\ BeingStopped

-----------------------------------------------------------------------------
(* Facts about single steps.                                               *)

(* Two steps touch the table of sessions.                                  *)
LEMMA HandlerSessions ==
    ASSUME NEW r \in Requests, Handler(r)
    PROVE  UNCHANGED sessions \/ StartCreate(r) \/ StopEnd(r)
BY DEF Handler, StartGate, StartAssignment, StartExisting, WithdrawRecord, StopFind,
       ReleaseList, ReleaseOne

LEMMA SessionsChange ==
    ASSUME [Next]_vars
    PROVE  UNCHANGED sessions \/ \E r \in Requests : StartCreate(r) \/ StopEnd(r)
<1>1. CASE UNCHANGED vars
    BY <1>1 DEF vars
<1>2. ASSUME NEW r \in Requests, Handler(r)
      PROVE  UNCHANGED sessions \/ StartCreate(r) \/ StopEnd(r)
    BY <1>2, HandlerSessions
<1>3. ASSUME NEW d \in Drivers, Phone(d)
      PROVE  UNCHANGED sessions
    BY <1>3 DEF Phone, AskStart, AskStop, AskWithdraw, Ask, Grant
<1>4. ASSUME Operations
      PROVE  UNCHANGED sessions
    BY <1>4 DEF Operations, PauseOrResume, Complete, Assign, PutOnTheRoad, Unassign, Release
<1> QED
    BY <1>1, <1>2, <1>3, <1>4 DEF Next, Crash, Upload

LEMMA RequestTyped ==
    ASSUME TypeOK, NEW r \in Requests, requests[r] # Idle
    PROVE  requests[r] \in Request
BY DEF TypeOK

LEMMA AtTyped ==
    ASSUME TypeOK, NEW r \in Requests, NEW step \in Steps, At(r, step)
    PROVE  requests[r] \in Request /\ requests[r] # Idle
BY DEF TypeOK, At, Idle, Steps

(* Ending a session keeps the table a table.                               *)
LEMMA Ending ==
    ASSUME sessions \in Seq(Session), NEW i,
           sessions' = [sessions EXCEPT ![i].status = "ENDED"]
    PROVE  /\ sessions' \in Seq(Session) /\ Len(sessions') = Len(sessions)
           /\ \A j \in 1 .. Len(sessions) :
                 /\ sessions'[j] = IF j = i THEN [sessions[j] EXCEPT !.status = "ENDED"]
                                   ELSE sessions[j]
                 /\ sessions'[j].driver = sessions[j].driver
                 /\ sessions'[j].vehicle = sessions[j].vehicle
                 /\ sessions'[j].status = "ACTIVE" => sessions[j].status = "ACTIVE"
                 /\ i = j => sessions'[j].status = "ENDED"
<1>1. \A j \in 1 .. Len(sessions) : sessions[j] \in Session
    BY ElementOfSeq
<1>2. DOMAIN sessions = 1 .. Len(sessions) /\ DOMAIN sessions' = 1 .. Len(sessions)
    BY LenProperties
<1>3. \A j \in 1 .. Len(sessions) :
         sessions'[j] = IF j = i THEN [sessions[j] EXCEPT !.status = "ENDED"] ELSE sessions[j]
    BY <1>2
<1>4. \A j \in 1 .. Len(sessions) : sessions'[j] \in Session
    BY <1>1, <1>3 DEF Session
<1>5. sessions' = [j \in 1 .. Len(sessions) |-> sessions'[j]]
    BY <1>2
<1>6. sessions' \in [1 .. Len(sessions) -> Session] /\ Len(sessions) \in Nat
    BY <1>4, <1>5, LenProperties
<1>7. sessions' \in Seq(Session)
    BY <1>6, SeqDef
<1>8. Len(sessions') = Len(sessions)
    BY <1>2, <1>6, <1>7, LenProperties
<1> QED
    BY <1>1, <1>3, <1>7, <1>8 DEF Session

(* A handler moves its own request alone.                                  *)
LEMMA HandlerMoves ==
    ASSUME TypeOK, NEW r \in Requests, Handler(r)
    PROVE  /\ requests[r] \in Request /\ requests[r] # Idle
           /\ \A q \in Requests \ {r} : requests'[q] = requests[q]
           /\ \/ requests'[r] = Idle
              \/ /\ requests'[r] # Idle
                 /\ requests'[r].kind = requests[r].kind
                 /\ requests'[r].driver = requests[r].driver
                 /\ \/ requests[r].next = "gate" /\ requests'[r].next = "assignment"
                          /\ consented[requests[r].driver]
                    \/ requests[r].next = "assignment" /\ requests'[r].next = "existing"
                    \/ requests[r].next = "existing" /\ requests'[r].next = "create"
                    \/ requests[r].next = "record" /\ requests'[r].next = "find"
                    \/ requests[r].next = "find" /\ requests'[r].next = "end"
                          /\ requests'[r].session \in ActiveSessions(requests[r].driver)
                    \/ requests[r].next \in {"find", "end"} /\ requests'[r].next = "list"
                          /\ requests[r].kind = "withdraw"
                    \/ requests[r].next = "list" /\ requests'[r].next = "release"
                    \/ requests[r].next = "release" /\ requests'[r].next = "release"
<1>1. requests[r] \in Request /\ requests[r] # Idle
    BY AtTyped
       DEF Handler, StartGate, StartAssignment, StartExisting, StartCreate, WithdrawRecord,
           StopFind, StopEnd, ReleaseList, ReleaseOne, Steps
<1>2. \A q \in Requests \ {r} : requests'[q] = requests[q]
    BY DEF Handler, StartGate, StartAssignment, StartExisting, StartCreate, WithdrawRecord,
           StopFind, Stopped, StopEnd, ReleaseList, ReleaseOne, Advance, Finish, TypeOK
<1>4. CASE StartGate(r)
    BY <1>1, <1>2, <1>4
       DEF StartGate, MayPass, Passes, At, Advance, Finish, TypeOK, Request, Idle
<1>5. CASE StartAssignment(r) \/ StartExisting(r) \/ StartCreate(r)
    BY <1>1, <1>2, <1>5
       DEF StartAssignment, StartExisting, StartCreate, At, Advance, Finish, TypeOK, Request,
           Idle
<1>6. CASE WithdrawRecord(r) \/ ReleaseList(r)
    BY <1>1, <1>2, <1>6 DEF WithdrawRecord, ReleaseList, At, Advance, TypeOK, Request, Idle
<1>7. CASE StopFind(r) \/ StopEnd(r)
    BY <1>1, <1>2, <1>7
       DEF StopFind, StopEnd, Stopped, At, Advance, Finish, TypeOK, Request, Idle
<1>8. CASE ReleaseOne(r)
    BY <1>1, <1>2, <1>8 DEF ReleaseOne, At, Finish, TypeOK, Request, Idle
<1> QED
    BY <1>1, <1>2, <1>4, <1>5, <1>6, <1>7, <1>8 DEF Handler

-----------------------------------------------------------------------------
(* Types.                                                                  *)
LEMMA HandlerTyped ==
    ASSUME TypeOK, Reserved, NEW r \in Requests, Handler(r),
           StartCreate(r) => Len(sessions) < MaxSessions
    PROVE  TypeOK'
<1> USE SessionsAssumption
<1>1. ASSUME NEW step \in Steps, At(r, step)
      PROVE  requests[r] \in Request
    BY <1>1, AtTyped
<1>2. CASE StartGate(r)
    <2>1. requests[r] \in Request
        BY <1>1, <1>2 DEF StartGate, Steps
    <2> QED
        BY <1>2, <2>1 DEF StartGate, Advance, Finish, TypeOK, Request, Steps
<1>3. CASE StartAssignment(r)
    <2>1. requests[r] \in Request
        BY <1>1, <1>3 DEF StartAssignment, Steps
    <2>2. \A a \in LiveOf(requests[r].driver) : {a} \in SUBSET Assignments
        BY DEF LiveOf
    <2> QED
        BY <1>3, <2>1, <2>2 DEF StartAssignment, Finish, TypeOK, Request, Steps
<1>4. CASE StartExisting(r)
    <2>1. requests[r] \in Request
        BY <1>1, <1>4 DEF StartExisting, Steps
    <2> QED
        BY <1>4, <2>1 DEF StartExisting, Advance, Finish, TypeOK, Request, Steps
<1>5. CASE StartCreate(r)
    <2>1. requests[r] \in Request
        BY <1>1, <1>5 DEF StartCreate, Steps
    <2>2. PICK a \in requests[r].picks :
            sessions' = IF RefusedByIndex(requests[r].driver, a[2]) THEN sessions
                        ELSE Append(sessions, [driver |-> requests[r].driver, vehicle |-> a[2],
                                               campaign |-> a[1], status |-> "ACTIVE"])
        BY <1>5 DEF StartCreate
    <2>3. a[1] \in Campaigns /\ a[2] \in Vehicles /\ requests[r].driver \in Drivers
        BY <2>1, <2>2 DEF Request, Assignments
    <2>4. [driver |-> requests[r].driver, vehicle |-> a[2],
           campaign |-> a[1], status |-> "ACTIVE"] \in Session
        BY <2>3 DEF Session
    <2>5. sessions' \in Seq(Session) /\ Len(sessions') <= MaxSessions
        BY <2>2, <2>4, <1>5 DEF TypeOK
    <2> QED
        BY <1>5, <2>5 DEF StartCreate, Finish, TypeOK
<1>6. CASE WithdrawRecord(r)
    <2>1. requests[r] \in Request
        BY <1>1, <1>6 DEF WithdrawRecord, Steps
    <2> QED
        BY <1>6, <2>1 DEF WithdrawRecord, Advance, TypeOK, Request, Steps
<1>7. CASE StopFind(r)
    <2>1. requests[r] \in Request
        BY <1>1, <1>7 DEF StopFind, Steps
    <2>2. \A i \in ActiveSessions(requests[r].driver) : i \in 0 .. MaxSessions
        BY DEF ActiveSessions, TypeOK
    <2>3. ASSUME NEW i \in ActiveSessions(requests[r].driver),
                 requests' = [requests EXCEPT ![r].next = "end", ![r].session = i]
          PROVE  requests' \in [Requests -> Request \cup {Idle}]
        BY <2>1, <2>2, <2>3 DEF TypeOK, Request, Steps
    <2>4. ASSUME Stopped(r)
          PROVE  requests' \in [Requests -> Request \cup {Idle}]
        BY <2>1, <2>4 DEF Stopped, Advance, Finish, TypeOK, Request, Steps
    <2> QED
        BY <1>7, <2>3, <2>4 DEF StopFind, TypeOK
<1>8. CASE StopEnd(r)
    <2>1. requests[r] \in Request
        BY <1>1, <1>8 DEF StopEnd, Steps
    <2>2. sessions' \in Seq(Session) /\ Len(sessions') = Len(sessions)
        BY <1>8, Ending DEF StopEnd, TypeOK
    <2>3. requests' \in [Requests -> Request \cup {Idle}]
        BY <2>1, <1>8 DEF StopEnd, Stopped, Advance, Finish, TypeOK, Request, Steps
    <2> QED
        BY <1>8, <2>2, <2>3 DEF StopEnd, TypeOK
<1>9. CASE ReleaseList(r)
    <2>1. requests[r] \in Request
        BY <1>1, <1>9 DEF ReleaseList, Steps
    <2>2. LiveOf(requests[r].driver) \in SUBSET Assignments
        BY DEF LiveOf
    <2> QED
        BY <1>9, <2>1, <2>2 DEF ReleaseList, TypeOK, Request, Steps
<1>10. CASE ReleaseOne(r)
    <2>1. requests[r] \in Request
        BY <1>1, <1>10 DEF ReleaseOne, Steps
    <2>2. hold' \in [Assignments -> HoldStatus]
        BY <1>10 DEF ReleaseOne, TypeOK, HoldStatus
    <2>3. requests' \in [Requests -> Request \cup {Idle}]
        BY <1>10, <2>1 DEF ReleaseOne, Finish, TypeOK, Request, Steps
    <2> QED
        BY <1>10, <2>2, <2>3 DEF ReleaseOne, TypeOK
<1> QED
    BY <1>2, <1>3, <1>4, <1>5, <1>6, <1>7, <1>8, <1>9, <1>10 DEF Handler

LEMMA NextTyped ==
    ASSUME TypeOK, Reserved, [Next]_vars,
           \A r \in Requests : StartCreate(r) => Len(sessions) < MaxSessions
    PROVE  TypeOK'
<1> USE SessionsAssumption
<1>1. CASE UNCHANGED vars
    BY <1>1 DEF vars, TypeOK
<1>2. ASSUME NEW r \in Requests, Handler(r)
      PROVE  TypeOK'
    BY <1>2, HandlerTyped
<1>3. ASSUME NEW r \in Requests, Crash(r)
      PROVE  TypeOK'
    BY <1>3 DEF Crash, Finish, TypeOK
<1>4. ASSUME NEW d \in Drivers, Phone(d)
      PROVE  TypeOK'
    <2>1. ASSUME NEW r \in Requests, NEW kind \in Kinds, NEW first \in Steps,
                 Ask(r, kind, d, first)
          PROVE  TypeOK'
        <3>1. [kind |-> kind, driver |-> d, next |-> first, picks |-> {}, session |-> 0]
                \in Request
            BY DEF Request
        <3> QED
            BY <2>1, <3>1 DEF Ask, TypeOK
    <2>2. CASE Grant(d)
        BY <2>2 DEF Grant, TypeOK
    <2> QED
        BY <1>4, <2>1, <2>2 DEF Phone, AskStart, AskStop, AskWithdraw, Kinds, Steps
<1>5. ASSUME NEW i \in 1 .. Len(sessions), Upload(i)
      PROVE  TypeOK'
    <2>1. sessions[i] \in Session
        BY <1>5 DEF TypeOK
    <2>2. campaign[sessions[i].campaign] \in CampaignStatus
        BY <2>1 DEF TypeOK, Session
    <2> QED
        BY <1>5, <2>2 DEF Upload, TypeOK
<1>6. CASE Operations
    BY <1>6 DEF Operations, PauseOrResume, Complete, Assign, PutOnTheRoad, Unassign, Release,
                TypeOK, CampaignStatus, HoldStatus
<1> QED
    BY <1>1, <1>2, <1>3, <1>4, <1>5, <1>6 DEF Next

(* The room of a start is its own until it creates its session.            *)
LEMMA NextReserved ==
    ASSUME TypeOK, Reserved, Shaped, [Next]_vars
    PROVE  /\ Reserved'
           /\ \A r \in Requests : StartCreate(r) => Len(sessions) < MaxSessions
<1> USE SessionsAssumption
<1>1. /\ Starting \in SUBSET Requests /\ IsFiniteSet(Starting)
      /\ Starting' \in SUBSET Requests /\ IsFiniteSet(Starting')
      /\ Cardinality(Starting) \in Nat /\ Cardinality(Starting') \in Nat
    BY FS_Subset, FS_CardinalityType DEF Starting
<1>2. Len(sessions) \in Nat
    BY LenProperties DEF TypeOK
<1>3. ASSUME NEW r \in Requests, StartCreate(r)
      PROVE  Reserved' /\ Len(sessions) < MaxSessions
    <2>1. requests[r] \in Request /\ requests[r] # Idle /\ requests[r].next = "create"
        BY <1>3, AtTyped DEF StartCreate, At, Steps
    <2>2. r \in Starting
        BY <2>1 DEF Shaped, StartSteps, Starting
    <2>3. Starting' = Starting \ {r}
        BY <1>3, <2>1 DEF StartCreate, Finish, Starting, TypeOK
    <2>4. Cardinality(Starting') = Cardinality(Starting) - 1
        BY <1>1, <2>2, <2>3, FS_RemoveElement
    <2>5. Len(sessions') <= Len(sessions) + 1
        BY <1>3 DEF StartCreate, TypeOK
    <2>6. Len(sessions') \in Nat
        BY <1>3 DEF StartCreate, TypeOK
    <2> QED
        BY <1>1, <1>2, <2>4, <2>5, <2>6 DEF Reserved
<1>4. ASSUME NEW r \in Requests, NEW d \in Drivers, AskStart(r, d)
      PROVE  Reserved'
    <2>1. Starting' = Starting \cup {r} /\ sessions' = sessions /\ r \notin Starting
        BY <1>4 DEF AskStart, Ask, Starting, Idle, TypeOK
    <2>2. Cardinality(Starting') = Cardinality(Starting) + 1
        BY <1>1, <2>1, FS_AddElement
    <2> QED
        BY <1>1, <1>2, <1>4, <2>1, <2>2 DEF AskStart, Reserved
<1>5. ASSUME Starting' \subseteq Starting, Len(sessions') = Len(sessions)
      PROVE  Reserved'
    <2>1. Cardinality(Starting') <= Cardinality(Starting)
        BY <1>1, <1>5, FS_Subset
    <2> QED
        BY <1>1, <1>2, <1>5, <2>1 DEF Reserved
<1>6. ASSUME NEW r \in Requests, Handler(r), ~StartCreate(r)
      PROVE  Starting' \subseteq Starting /\ Len(sessions') = Len(sessions)
    <2>1. requests[r] \in Request /\ requests[r] # Idle
        BY <1>6, AtTyped
           DEF Handler, StartGate, StartAssignment, StartExisting, StartCreate, WithdrawRecord,
               StopFind, StopEnd, ReleaseList, ReleaseOne, Steps
    <2>2. /\ \A q \in Requests \ {r} : requests'[q] = requests[q]
          /\ requests'[r] = Idle \/ requests'[r].kind = requests[r].kind
        BY <1>6, <2>1, HandlerMoves
    <2>3. Starting' \subseteq Starting
        BY <2>1, <2>2 DEF Starting
    <2> QED
        BY <2>3, <1>6, HandlerSessions, Ending DEF StopEnd, TypeOK
<1>7. ASSUME NEW r \in Requests, Crash(r)
      PROVE  Starting' \subseteq Starting /\ Len(sessions') = Len(sessions)
    BY <1>7 DEF Crash, Finish, Starting, TypeOK
<1>8. ASSUME NEW r \in Requests, NEW d \in Drivers, AskStop(r, d) \/ AskWithdraw(r, d)
      PROVE  Starting' \subseteq Starting /\ Len(sessions') = Len(sessions)
    BY <1>8 DEF AskStop, AskWithdraw, Ask, Starting, TypeOK
<1>9. ASSUME UNCHANGED <<requests, sessions>>
      PROVE  Reserved'
    BY <1>9 DEF Reserved, Starting
<1>10. ASSUME Operations \/ (\E i \in 1 .. Len(sessions) : Upload(i))
                 \/ (\E d \in Drivers : Grant(d)) \/ UNCHANGED vars
       PROVE  UNCHANGED <<requests, sessions>>
    BY <1>10 DEF Operations, PauseOrResume, Complete, Assign, PutOnTheRoad, Unassign, Release,
                 Upload, Grant, vars
<1> QED
    BY <1>3, <1>4, <1>5, <1>6, <1>7, <1>8, <1>9, <1>10 DEF Next, Phone

-----------------------------------------------------------------------------
(* Consent.                                                                *)
LEMMA NextShaped ==
    ASSUME TypeOK, Shaped, [Next]_vars
    PROVE  Shaped'
<1>1. ASSUME NEW r \in Requests, Handler(r)
      PROVE  Shaped'
    BY <1>1, HandlerMoves DEF Shaped, StartSteps
<1>2. ASSUME NEW r \in Requests, Crash(r)
      PROVE  Shaped'
    BY <1>2 DEF Crash, Finish, Shaped, TypeOK
<1>3. ASSUME NEW r \in Requests, NEW d \in Drivers,
             AskStart(r, d) \/ AskStop(r, d) \/ AskWithdraw(r, d)
      PROVE  Shaped'
    BY <1>3 DEF AskStart, AskStop, AskWithdraw, Ask, Shaped, StartSteps, TypeOK
<1>4. ASSUME UNCHANGED requests
      PROVE  Shaped'
    BY <1>4 DEF Shaped
<1> QED
    BY <1>1, <1>2, <1>3, <1>4
       DEF Next, Phone, Grant, Upload, Operations, PauseOrResume, Complete, Assign,
           PutOnTheRoad, Unassign, Release, vars

LEMMA NextOneRequest ==
    ASSUME TypeOK, OneRequest, [Next]_vars
    PROVE  OneRequest'
<1>1. ASSUME NEW r \in Requests, Handler(r)
      PROVE  OneRequest'
    BY <1>1, HandlerMoves DEF OneRequest
<1>2. ASSUME NEW r \in Requests, Crash(r)
      PROVE  OneRequest'
    BY <1>2 DEF Crash, Finish, OneRequest, TypeOK
<1>3. ASSUME NEW r \in Requests, NEW d \in Drivers,
             AskStart(r, d) \/ AskStop(r, d) \/ AskWithdraw(r, d)
      PROVE  OneRequest'
    <2>1. /\ requests'[r].driver = d
          /\ \A q \in Requests \ {r} : requests'[q] = requests[q]
          /\ d \in Patient => \A q \in Requests : requests[q] # Idle => requests[q].driver # d
        BY <1>3 DEF AskStart, AskStop, AskWithdraw, Ask, MayAsk, TypeOK
    <2> QED
        BY <2>1 DEF OneRequest
<1>4. ASSUME UNCHANGED requests
      PROVE  OneRequest'
    BY <1>4 DEF OneRequest
<1> QED
    BY <1>1, <1>2, <1>3, <1>4
       DEF Next, Phone, Grant, Upload, Operations, PauseOrResume, Complete, Assign,
           PutOnTheRoad, Unassign, Release, vars

(* Consent goes only with a withdrawal on record.                          *)
LEMMA ConsentChange ==
    ASSUME TypeOK, [Next]_vars, NEW d \in Drivers, consented[d], ~consented'[d]
    PROVE  \E r \in Requests : WithdrawRecord(r) /\ requests[r].driver = d
<1>1. ASSUME NEW r \in Requests, Handler(r)
      PROVE  WithdrawRecord(r) /\ requests[r].driver = d
    <2>1. CASE WithdrawRecord(r)
        BY <2>1 DEF WithdrawRecord, TypeOK
    <2> QED
        BY <1>1, <2>1 DEF Handler, StartGate, StartAssignment, StartExisting, StartCreate,
                          StopFind, StopEnd, ReleaseList, ReleaseOne
<1>2. ASSUME NEW e \in Drivers, Phone(e)
      PROVE  FALSE
    BY <1>2 DEF Phone, AskStart, AskStop, AskWithdraw, Ask, Grant, TypeOK
<1>3. Operations => FALSE
    BY DEF Operations, PauseOrResume, Complete, Assign, PutOnTheRoad, Unassign, Release
<1> QED
    BY <1>1, <1>2, <1>3 DEF Next, Crash, Upload, vars

LEMMA NextStartsConsented ==
    ASSUME TypeOK, Shaped, OneRequest, StartsConsented, [Next]_vars
    PROVE  StartsConsented'
<1> SUFFICES ASSUME NEW r \in Requests,
                    requests'[r] # Idle, requests'[r].driver \in Patient,
                    requests'[r].next \in StartSteps \ {"gate"}
             PROVE  consented'[requests'[r].driver]
    BY DEF StartsConsented
<1> DEFINE d == requests'[r].driver
<1>1. /\ requests[r] # Idle /\ requests[r].driver = d
      /\ requests[r].next \in StartSteps /\ consented[d]
    <2>1. ASSUME NEW q \in Requests, Handler(q)
          PROVE  <1>1!:
        BY <2>1, HandlerMoves DEF StartsConsented, StartSteps
    <2>2. ASSUME NEW q \in Requests, Crash(q)
          PROVE  <1>1!:
        BY <2>2 DEF Crash, Finish, StartsConsented, StartSteps, TypeOK
    <2>3. ASSUME NEW q \in Requests, NEW e \in Drivers,
                 AskStart(q, e) \/ AskStop(q, e) \/ AskWithdraw(q, e)
          PROVE  <1>1!:
        BY <2>3 DEF AskStart, AskStop, AskWithdraw, Ask, StartsConsented, StartSteps, TypeOK
    <2>4. ASSUME UNCHANGED requests
          PROVE  <1>1!:
        BY <2>4 DEF StartsConsented
    <2> QED
        BY <2>1, <2>2, <2>3, <2>4
           DEF Next, Phone, Grant, Upload, Operations, PauseOrResume, Complete, Assign,
               PutOnTheRoad, Unassign, Release, vars
<1>2. d \in Drivers
    BY SessionsAssumption
<1>3. ASSUME ~consented'[d]
      PROVE  FALSE
    <2>1. PICK q \in Requests : WithdrawRecord(q) /\ requests[q].driver = d
        BY <1>1, <1>2, <1>3, ConsentChange
    <2>2. requests[q] # Idle /\ requests[q].next = "record"
        BY <2>1, AtTyped DEF WithdrawRecord, At, Steps
    <2>3. q = r
        BY <1>1, <2>1, <2>2 DEF OneRequest
    <2> QED
        BY <1>1, <2>2, <2>3 DEF StartSteps
<1> QED
    BY <1>3

LEMMA ActiveSessionsEnd ==
    ASSUME TypeOK, NEW r \in Requests, StopEnd(r), NEW d
    PROVE  ActiveSessions(d)' = ActiveSessions(d) \ {requests[r].session}
<1>1. /\ sessions \in Seq(Session)
      /\ sessions' = [sessions EXCEPT ![requests[r].session].status = "ENDED"]
    BY DEF StopEnd, TypeOK
<1> QED
    BY <1>1, Ending DEF ActiveSessions, Session

LEMMA NextBeingStopped ==
    ASSUME TypeOK, OneSessionAtATime, Shaped, OneRequest, StartsConsented, BeingStopped,
           [Next]_vars
    PROVE  BeingStopped'
<1> SUFFICES ASSUME NEW d \in Patient, ~consented'[d], ActiveSessions(d)' # {}
             PROVE  \E q \in Requests : Ends(q, d)'
    BY DEF BeingStopped
<1>1. d \in Drivers
    BY SessionsAssumption
(* Nobody opens a session for a driver without consent.                    *)
<1>2. ActiveSessions(d)' \subseteq ActiveSessions(d)
    <2>1. ASSUME NEW r \in Requests, StartCreate(r)
          PROVE  <1>2!:
        <3>1. requests[r] \in Request /\ requests[r] # Idle /\ requests[r].next = "create"
            BY <2>1, AtTyped DEF StartCreate, At, Steps
        <3>2. requests[r].driver # d
            BY <2>1, <3>1 DEF StartsConsented, StartSteps, StartCreate
        <3>3. PICK a \in requests[r].picks :
                sessions' = IF RefusedByIndex(requests[r].driver, a[2]) THEN sessions
                            ELSE Append(sessions,
                                        [driver |-> requests[r].driver, vehicle |-> a[2],
                                         campaign |-> a[1], status |-> "ACTIVE"])
            BY <2>1 DEF StartCreate
        <3> QED
            BY <3>2, <3>3 DEF ActiveSessions, TypeOK
    <2>2. ASSUME NEW r \in Requests, StopEnd(r)
          PROVE  <1>2!:
        BY <2>2, ActiveSessionsEnd
    <2> QED
        BY <2>1, <2>2, SessionsChange DEF ActiveSessions
<1>3. CASE consented[d]
    <2>1. PICK r \in Requests : WithdrawRecord(r) /\ requests[r].driver = d
        BY <1>1, <1>3, ConsentChange
    <2>2. requests[r] \in Request /\ requests[r] # Idle /\ requests[r].next = "record"
        BY <2>1, AtTyped DEF WithdrawRecord, At, Steps
    <2>3. requests[r].kind = "withdraw"
        BY <2>2 DEF Shaped
    <2>4. Ends(r, d)'
        BY <2>1, <2>2, <2>3 DEF WithdrawRecord, Advance, Ends, Idle, TypeOK
    <2> QED
        BY <2>4
<1>4. CASE ~consented[d]
    <2>1. PICK w \in Requests : Ends(w, d)
        BY <1>2, <1>4 DEF BeingStopped
    <2>2. ASSUME requests'[w] = requests[w]
          PROVE  Ends(w, d)'
        BY <1>2, <2>1, <2>2 DEF Ends
    <2>3. ASSUME Handler(w)
          PROVE  Ends(w, d)'
        <3>1. requests[w] \in Request /\ requests[w] # Idle
            BY <2>3, HandlerMoves
        <3>2. CASE StopFind(w)
            <4>1. PICK i \in ActiveSessions(d) :
                    requests' = [requests EXCEPT ![w].next = "end", ![w].session = i]
                BY <1>2, <2>1, <3>2 DEF StopFind, Ends
            <4>2. \A j \in ActiveSessions(d) : j = i
                BY <4>1 DEF OneSessionAtATime, ActiveSessions
            <4>3. /\ requests'[w].kind = "withdraw" /\ requests'[w].driver = d
                  /\ requests'[w].next = "end" /\ requests'[w].session = i
                BY <2>1, <3>1, <4>1 DEF Ends, Request, TypeOK
            <4>4. requests'[w] # Idle
                BY <4>3 DEF Idle
            <4>5. ActiveSessions(d)' \subseteq {i}
                BY <1>2, <4>2
            <4> QED
                BY <4>3, <4>4, <4>5 DEF Ends
        <3>3. CASE StopEnd(w)
            <4>1. requests[w].next = "end"
                BY <3>3 DEF StopEnd, At
            <4>2. ActiveSessions(d)' = {}
                BY <2>1, <3>3, <4>1, ActiveSessionsEnd DEF Ends
            <4> QED
                BY <4>2
        <3> QED
            BY <2>1, <2>3, <3>2, <3>3
               DEF Handler, StartGate, StartAssignment, StartExisting, StartCreate,
                   WithdrawRecord, ReleaseList, ReleaseOne, At, Ends
    <2>4. ASSUME NEW r \in Requests \ {w}, Handler(r)
          PROVE  requests'[w] = requests[w]
        BY <2>4, HandlerMoves
    <2>5. ASSUME NEW r \in Requests, Crash(r)
          PROVE  requests'[w] = requests[w]
        BY <2>1, <2>5 DEF Crash, Finish, Ends, TypeOK
    <2>6. ASSUME NEW r \in Requests, NEW e \in Drivers,
                 AskStart(r, e) \/ AskStop(r, e) \/ AskWithdraw(r, e)
          PROVE  requests'[w] = requests[w]
        BY <2>1, <2>6 DEF AskStart, AskStop, AskWithdraw, Ask, Ends, TypeOK
    <2>7. \/ \E r \in Requests : Handler(r) \/ Crash(r)
          \/ \E r \in Requests, e \in Drivers :
                AskStart(r, e) \/ AskStop(r, e) \/ AskWithdraw(r, e)
          \/ UNCHANGED requests
        BY DEF Next, Phone, Grant, Upload, Operations, PauseOrResume, Complete, Assign,
               PutOnTheRoad, Unassign, Release, vars
    <2> QED
        BY <2>2, <2>3, <2>4, <2>5, <2>6, <2>7
<1> QED
    BY <1>3, <1>4

LEMMA NextOneSession ==
    ASSUME TypeOK, OneSessionAtATime, [Next]_vars
    PROVE  OneSessionAtATime'
<1>1. ASSUME NEW r \in Requests, StartCreate(r)
      PROVE  OneSessionAtATime'
    <2>1. requests[r] \in Request
        BY <1>1, AtTyped DEF StartCreate, Steps
    <2>2. PICK a \in requests[r].picks :
            sessions' = IF RefusedByIndex(requests[r].driver, a[2]) THEN sessions
                        ELSE Append(sessions,
                                    [driver |-> requests[r].driver, vehicle |-> a[2],
                                     campaign |-> a[1], status |-> "ACTIVE"])
        BY <1>1 DEF StartCreate
    <2> QED
        BY <2>2 DEF OneSessionAtATime, RefusedByIndex, TypeOK
<1>2. ASSUME NEW r \in Requests, StopEnd(r)
      PROVE  OneSessionAtATime'
    <2>1. sessions \in Seq(Session)
            /\ sessions' = [sessions EXCEPT ![requests[r].session].status = "ENDED"]
        BY <1>2 DEF StopEnd, TypeOK
    <2> QED
        BY <2>1, Ending DEF OneSessionAtATime
<1> QED
    BY <1>1, <1>2, SessionsChange DEF OneSessionAtATime

-----------------------------------------------------------------------------
LEMMA InitIInv == Init => IInv
<1> SUFFICES ASSUME Init
             PROVE  IInv
    OBVIOUS
<1>1. TypeOK
    BY SessionsAssumption DEF Init, TypeOK, CampaignStatus, HoldStatus
<1>2. Starting = {} /\ Len(sessions) = 0
    BY DEF Init, Starting
<1>3. Reserved
    BY <1>2, FS_EmptySet, SessionsAssumption DEF Reserved
<1>4. OneSessionAtATime /\ Shaped /\ OneRequest /\ StartsConsented
    BY DEF Init, OneSessionAtATime, Shaped, OneRequest, StartsConsented
<1>5. BeingStopped
    BY DEF Init, BeingStopped, ActiveSessions
<1> QED
    BY <1>1, <1>3, <1>4, <1>5 DEF IInv

LEMMA NextIInv == IInv /\ [Next]_vars => IInv'
<1> SUFFICES ASSUME IInv, [Next]_vars
             PROVE  IInv'
    OBVIOUS
<1>1. Reserved' /\ \A r \in Requests : StartCreate(r) => Len(sessions) < MaxSessions
    BY NextReserved DEF IInv
<1>2. TypeOK'
    BY <1>1, NextTyped DEF IInv
<1> QED
    BY <1>1, <1>2, NextOneSession, NextShaped, NextOneRequest, NextStartsConsented,
       NextBeingStopped DEF IInv

LEMMA Invariance == Spec => []IInv
BY InitIInv, NextIInv, PTL DEF Spec

(* Every variable stays within its type, and the bound on the sessions is  *)
(* never what stops a start that has begun.                                *)
THEOREM Typed == Spec => []TypeOK
<1>1. IInv => TypeOK
    BY DEF IInv
<1> QED
    BY <1>1, Invariance, PTL

(* Neither a driver nor a vehicle ever has two sessions open, whatever     *)
(* starts overlap and whoever crashes.                                     *)
THEOREM NoSecondSession == Spec => []OneSessionAtATime
<1>1. IInv => OneSessionAtATime
    BY DEF IInv
<1> QED
    BY <1>1, Invariance, PTL

(* A withdrawal that was answered has stopped the measuring, for every     *)
(* driver whose phone waits for its answers.                               *)
THEOREM WithdrawalIsAStop == Spec => []WithdrawnMeansStopped
<1>1. IInv => WithdrawnMeansStopped
    BY DEF IInv, BeingStopped, WithdrawnMeansStopped, Withdrawing, Ends
<1> QED
    BY <1>1, Invariance, PTL
=============================================================================
