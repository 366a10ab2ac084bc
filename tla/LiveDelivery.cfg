SPECIFICATION Spec
CONSTANTS
    Countersigns = {c1}
    Fundings = {f1}
    Notices = {n1}
    Loops = {l1, l2}
    Responses = {}
    Viewers = {}
    Watcher = watcher
    MaxFaults = 2
    LateWrites = TRUE
    Reclaiming = TRUE
SYMMETRY Symmetry
INVARIANTS
    DeliveredCitesItsEvidence
    AckedWorkIsUnderway
CHECK_DEADLOCK FALSE
