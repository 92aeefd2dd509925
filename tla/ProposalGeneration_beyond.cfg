SPECIFICATION Spec
CONSTANTS
    legacy = legacy
    managed = managed
    button = button
    named = named
    Legs = {l1}
    CronRuns = {legacy}
    ButtonRuns = {button}
    Kind <- KindOfRuns
    Strategy <- NameOfRuns
    Missing = 1
    Faults = {}
    MaxToggles = 0
    MaxFailures = 0
INVARIANTS
    NeverBeyondTarget
CHECK_DEADLOCK FALSE
