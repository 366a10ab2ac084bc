SPECIFICATION Spec
CONSTANTS
    Countersigns = {c1}
    Fundings = {f1}
    Notices = {}
    Loops = {}
    Responses = {}
    Viewers = {}
    Watcher = watcher
    MaxFaults = 0
    LateWrites = FALSE
    Reclaiming = TRUE
PROPERTIES
    FundedDealIsKept
CHECK_DEADLOCK FALSE
