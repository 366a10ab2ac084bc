SPECIFICATION FairSpec
CONSTANTS
    Countersigns = {c1}
    Fundings = {f1}
    Notices = {n1}
    Loops = {l1}
    Responses = {r1}
    Viewers = {}
    Watcher = watcher
    MaxFaults = 1
    LateWrites = TRUE
    Reclaiming = FALSE
PROPERTIES
    RefundEndsAccess
    WorkStartIsDelivered
CHECK_DEADLOCK FALSE
