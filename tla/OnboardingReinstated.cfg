SPECIFICATION OnboardingSpec
CONSTANTS
    OwnKinds = {LICENCE}
    VehicleKinds = {RC}
    Lapsing = {LICENCE}
    Reviewers = {c}
    Uploads = {u1, u2}
    MaxVehicles = 1
    MaxPapers = 2
    MaxTurns = 4
CHECK_DEADLOCK FALSE
INVARIANT ApprovedHadPapers
