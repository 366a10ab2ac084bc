SPECIFICATION FairSpec
CONSTANTS
    Terms = {"t1", "t2"}
    Offered = {"t1"}
    Countersigns = {"c1", "c2"}
    Fundings = {"f1"}
    Requests = {"r1"}
    Notices = {"n1"}
    Loops = {"l1"}
    MaxFaults = 2
INVARIANTS
    TypeOK
    RememberedIsCommitted
    FundedIsRemembered
    InventoryIsVerified
    AckedWorkIsUnderway
PROPERTIES
    WorkStartIsDelivered
CHECK_DEADLOCK FALSE
