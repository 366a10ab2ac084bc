SPECIFICATION Spec
CONSTANTS
    Measures = {"DIABETES", "ACCESS2"}
    Premium = {"DIABETES"}
    SampleSize = 1
    RateCard <- MCRateCard
    Density <- MCDensity
    Uniform <- MCUniform
    AgeBands <- MCAgeBands
    AgeRestricted <- MCAgeRestricted
    MaxRows = 4
    Buyers = {"b1"}
    Strangers = {}
    Bodies <- MCBodies
    Files <- MCFiles
    CardTiers <- MCCardTiers
    MaxNegotiations = 1
    MaxDeals = 1
    MaxMints = 1
    MaxAge = 0
    MaxClock = 1
INVARIANTS
    ManifestSatisfiesTerms
CHECK_DEADLOCK FALSE
