SPECIFICATION FairSpec
CONSTANTS
    Agents = {"data-seller-agent", "seller-agent"}
    MaxFaults = 2
    MaxRestarts = 1
    MaxMoves = 3
INVARIANTS
    TypeOK
    RequestsAreAccounted
PROPERTIES
    AgentGetsRegistered
    ApprovalOpensGate
    RevocationClosesGate
CHECK_DEADLOCK FALSE
