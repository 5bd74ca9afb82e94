SPECIFICATION Spec
CONSTANTS
    d1 = d1
    d2 = d2
    v1 = v1
    v2 = v2
    Drivers = {d1}
    Vehicles = {v1}
    Campaigns = {a, b}
    OwnerOf <- JustOne
    Requests = {r1}
    MaxSessions = 1
    Patient = {d1}
INVARIANT OnlyRunningCharged
