SPECIFICATION SwitchSpec
CONSTANTS
    Requests = {t1, t2, t3}
    Overlapping = TRUE
    EnvSwitch = FALSE
    Faults = {"restart"}
    MaxRestarts = 1
    MaxLocks = 0
INVARIANTS
    SwitchHolds
CHECK_DEADLOCK FALSE
