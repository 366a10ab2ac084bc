SPECIFICATION Spec
CONSTANTS
    Countersigns = {c1}
    Fundings = {f1}
    Notices = {n1}
    Loops = {l1}
    Responses = {r1}
    Viewers = {v1}
    Watcher = watcher
    MaxFaults = 1
    LateWrites = FALSE
    Reclaiming = FALSE
INVARIANTS
    EvidenceResolves
    CapabilityIsWatched
CHECK_DEADLOCK FALSE
