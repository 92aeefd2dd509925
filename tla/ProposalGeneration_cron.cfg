SPECIFICATION Spec
CONSTANTS
    legacy = legacy
    managed = managed
    button = button
    named = named
    Legs = {l1, l2}
    CronRuns = {legacy, managed}
    ButtonRuns = {}
    Kind <- KindOfRuns
    Strategy <- NameOfRuns
    Missing = 2
    Faults = {"fail"}
    MaxToggles = 2
    MaxFailures = 1
INVARIANTS
    RejectionRespected
    OneSystemPerLeg
    NeverBeyondTarget
CHECK_DEADLOCK FALSE
