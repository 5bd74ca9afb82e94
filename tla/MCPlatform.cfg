SPECIFICATION PlatformSpec
CHECK_DEADLOCK FALSE
SYMMETRY LinksAlike
CONSTANTS
    Shifts = {1, 2, 3}
    ShiftDriver <- TheShiftDriver
    ShiftCampaign <- TheShiftCampaign
    ShiftVehicle <- TheShiftVehicle
    Hops = {1, 2, 3, 4, 5}
    HopShift <- TheHopShift
    HopStart <- TheHopStart
    HopEnd <- TheHopEnd
    HopParts <- TheHopParts
    DayLength = 18
    TripGap = 4
    PageSize = 1
    HighBelow = 1
    MediumBelow = 2
    MinKm = 1
    ParkedBelow = 0
    ParkedMin = 5
    PhoneInOrder = TRUE
    Drivings = {1, 2}
    CellOf <- TheCellOf
    HourOf <- TheHourOf
    Bridging = {}
    MinSamples = 1
    BatchSize = 1
    Readers = {r}
    MaxTries = 2
    MaxFaults = 1
    Wraps = {w}
    Angles = {front, closeup}
    Askers = {q1, q2}
    Phones = {p1, p2}
    PatientDriver = TRUE
    MaxProofs = 2
    MaxTakes = 2
    Audiences <- TheAudiences
    TotpRequired = TRUE
    MaxAttempts = 2
    Tabs = {t}
    Clerks = {c}
    Links = {k1, k2}
    MaxLinks = 2
    MaxSessions = 1
    MaxSecrets = 2
    MaxMoves = 1
    OwnKinds = {LICENCE}
    VehicleKinds = {RC}
    Lapsing = {LICENCE}
    Reviewers = {c}
    Uploads = {u1, u2}
    MaxVehicles = 1
    MaxPapers = 2
    MaxTurns = 3
    Cards <- TheCards
    DefaultCard <- TheDefaultCard
    Requested <- TheRequested
    Buyers = {b}
    Openings = {o}
    Inboxes = {i1, i2}
    MaxCards = 2
    MaxEdits = 1
    MaxSpend = 4
    Parts = {1, 2}
    PartDay <- ThePartDay
    PartKm <- ThePartKm
    PartAudience <- ThePartAudience
    Periods <- ThePeriods
    MaxRange = 2
    MaxDetailRows = 1
    SampleDays = 1
    ListLength = 1
    Owners = {a, z}
    Owner = a
    Exporters = {e}
    MaxExports = 1
    Screens = {s}
    Desks = {d}
    Words = {w1, w2}
    MaxForms = 3
    MaxPictures = 2
    Counters = {c1, c2}
    Emails = {e1, e2}
    Mobiles = {m1}
    Plates = {x1}
    MaxAccounts = 2
    MaxSignIns = 2
INVARIANTS
    PlatformTypeOK
    ScreensAddUp
    RowOpensItsDrive
    FeedShowsEveryTripOnce
    AnswerIsComplete
    OneLinkWorks
    SignInIsEarned
    RefreshTokenWorks
    CompleteSetIsNoticed
    VehicleHistoryAgrees
    BudgetAtItsRates
    WarnedOnce
    ListedReportIsWhole
    PictureIsThere
    OneWayToBePaid
    OnboardedWhole
    DoorsAgree
PROPERTIES
    FigureIsFinal
    PublishedStays
