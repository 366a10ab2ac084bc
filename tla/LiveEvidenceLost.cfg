SPECIFICATION Spec
CONSTANTS
    Countersigns = {c1}
    Fundings = {f1}
    Notices = {n1}
    Loops = {l1}
    Responses = {}
    Viewers = {}
    Watcher = watcher
    MaxFaults = 1
    LateWrites = TRUE
    Reclaiming = FALSE
INVARIANTS
    EvidenceResolves
CHECK_DEADLOCK FALSE
