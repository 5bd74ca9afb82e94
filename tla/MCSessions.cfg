SPECIFICATION FairSpec
CONSTANTS
    d1 = d1
    d2 = d2
    v1 = v1
    v2 = v2
    Drivers = {d1, d2}
    Vehicles = {v1, v2}
    Campaigns = {a}
    OwnerOf <- OneEach
    Requests = {r1, r2}
    MaxSessions = 2
    Patient = {d1}
INVARIANTS
    OneSessionAtATime
    WithdrawnMeansStopped
PROPERTY WithdrawalStops
