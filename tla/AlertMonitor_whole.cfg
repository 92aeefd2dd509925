SPECIFICATION FairSpec
CONSTANTS
    Alerts = {1, 2}
    Loop = loop
    Buttons = {button}
    Action <- MCAction
    Live = {1, 2}
    Broken = {1}
    Requests = {t1}
    Overlapping = FALSE
    EnvSwitch = FALSE
    Faults = {"restart", "restore", "locked"}
    MaxRestarts = 1
    MaxLocks = 1
INVARIANTS
    TypeOK
    OneOrderPerAlert
    SpentIsAccountedFor
    SwitchHolds
PROPERTIES
    ArmedBlocks
    RipeFires
CHECK_DEADLOCK FALSE
