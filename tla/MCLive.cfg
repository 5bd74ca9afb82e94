SPECIFICATION LiveSpec
CHECK_DEADLOCK FALSE
CONSTANTS
    Fixes <- ShortFixes
    RecordedAt <- ShortRecordedAt
    Place <- ShortPlace
    AccuracyM <- ShortAccuracyM
    Mock = {}
    RoadStart = 0
    RoadEnd = 6
    ZoneAt <- MCZoneAt
    Rate <- MCRate
    EligibleAccuracyM = 50
    RejectAccuracyM = 100
    MaxBridgeSeconds = 25
    MaxPlausible = 1
    Calls = {c1, c2}
    SerialPhone = TRUE
    MaxBatch = 2
    Drivings = {1, 2}
    CellOf <- TheCellOf
    HourOf <- TheHourOf
    Bridging = {}
    MinSamples = 1
    BatchSize = 1
    Readers = {}
    MaxTries = 2
    MaxFaults = 2
    Wraps = {w}
    Angles = {front, closeup}
    Askers = {q1, q2}
    Phones = {p1, p2}
    PatientDriver = TRUE
    MaxProofs = 2
    MaxTakes = 2
PROPERTIES
    EventuallyStored
    EveryBilledGetsAFigure
    HoldIsReleased
