SPECIFICATION FairSpec
CONSTANTS
    legacy = legacy
    managed = managed
    button = button
    named = named
    Legs = {l1}
    CronRuns = {legacy, managed}
    ButtonRuns = {named}
    Kind <- KindOfRuns
    Strategy <- SameName
    Missing = 1
    Faults = {"toggle", "fail"}
    MaxToggles = 2
    MaxFailures = 1
PROPERTIES
    ResidualIsProposed
CHECK_DEADLOCK FALSE
