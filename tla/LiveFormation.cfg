SPECIFICATION Spec
CONSTANTS
    Countersigns = {c1, c2}
    Fundings = {f1}
    Notices = {}
    Loops = {}
    Responses = {}
    Viewers = {v1}
    Watcher = watcher
    MaxFaults = 3
    LateWrites = TRUE
    Reclaiming = TRUE
SYMMETRY Symmetry
INVARIANTS
    TypeOK
    CommittedIsRemembered
CHECK_DEADLOCK FALSE
