SPECIFICATION Spec
CONSTANTS
    Measures = {"DIABETES", "ACCESS2"}
    Premium = {"DIABETES"}
    SampleSize = 1
    RateCard <- MCRateCard
    Density <- MCDensity
    Uniform <- MCUniform
    AgeBands <- MCAgeBands
    AgeRestricted <- MCAgeRestricted
    MaxRows = 4
    Buyers = {"b1"}
    Strangers = {"x1"}
    Bodies <- MCBodies
    Files <- MCFiles
    CardTiers <- MCCardTiers
    MaxNegotiations = 2
    MaxDeals = 2
    MaxMints = 2
    MaxAge = 0
    MaxClock = 1
INVARIANTS
    TypeOK
    SignedTermsAreDelivered
    SignedAmountIsListPrice
    UnsoldColumnsDoNotShow
    CardPredictsSlice
    VerifiedUnlessReplaced
    CapabilityGoesToSigner
PROPERTIES
    DeliveredStays
    ImplementsStore
CHECK_DEADLOCK FALSE
