SPECIFICATION Spec
CONSTANTS
    Buyers = {b1}
    Addresses = {a1}
    Documents = {t1, t2}
    NoDocument = none
    LocalDealIds = {p1}
    LiveDealIds = {d1}
    Reports = {"COMMITTED", "CANCELLED"}
    MaxOpenNegotiations = 1
    MaxReclaimableDeals = 1
    ReclaimableDealTTL = 0
    MaxQuotes = 3
    MaxInserts = 3
    MaxClock = 1
SYMMETRY Symmetry
INVARIANTS
    TypeOK
    DealsResolve
    LinksAgree
    QuotesFollowNegotiations
PROPERTIES
    QuoteStaysWithinCap
    InsertStaysWithinCap
    AdvancedDealStays
    RevocationIsFinal
CHECK_DEADLOCK FALSE
