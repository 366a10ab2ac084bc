----------------------------- MODULE MCDataDeal -----------------------------
(***************************************************************************)
(* DataDeal for TLC: two measures, corpora of up to three tracts, and the  *)
(* request bodies that a caller can get wrong in a way of its own.  Rates  *)
(* and bounds are smaller than the card's, in the same proportions.        *)
(***************************************************************************)
EXTENDS DataDeal

MCRateCard ==
    [baseCents |-> 100, perTractMicroCents |-> 1500, perStandardColumnCents |-> 505,
     perPremiumColumnCents |-> 500, vintageMultiplierBps |-> 9950]

MCDensity == [default |-> 1, min |-> 1, max |-> 2]

MCCardTiers == [m \in Measures |-> IF m = "DIABETES" THEN "premium" ELSE "standard"]

MCAgeBands ==
    <<[band |-> "18-34", weight |-> 300], [band |-> "35-49", weight |-> 250],
      [band |-> "50-64", weight |-> 250], [band |-> "65+", weight |-> 199]>>

MCAgeRestricted == [m \in {"ACCESS2"} |-> {"18-34", "35-49", "50-64"}]

(* Draws that spread over the bands and on both sides of the prevalences. *)
MCUniform(seed, row, field) ==
    (617 * seed + 389 * row
       + (CASE field = "age" -> 40 [] field = "DIABETES" -> 270 [] OTHER -> 650)) % 1000

-----------------------------------------------------------------------------
CensusTract(state, county, fips, adults, diabetes, access) ==
    [stateAbbr |-> state, countyName |-> county, tractFips |-> fips,
     totalPopulation |-> IF adults = Null THEN Null ELSE adults + 20, totalPop18plus |-> adults,
     values |-> [m \in Measures |-> IF m = "DIABETES" THEN diabetes ELSE access]]

(* ACCESS2 is suppressed in all of New York; a line has no state. *)
Corpus ==
    <<CensusTract("CA", "Alameda", 1, 40, 120, 300), CensusTract("", "", 0, Null, Null, Null),
      CensusTract("CA", "Kern", 2, 60, 310, 455), CensusTract("NY", "Kings", 3, Null, 250, Null)>>

(* Suppressed in one tract of California, not in the other. *)
PartlySuppressed ==
    <<CensusTract("CA", "Alameda", 1, 40, 120, 300), CensusTract("CA", "Kern", 2, 60, 310, Null)>>

MCFiles == {Corpus, PartlySuppressed, << >>}

Absent == [kind |-> "absent", items |-> << >>]
Array(items) == [kind |-> "array", items |-> items]
NoThresholds == [kind |-> "absent", items |-> << >>]
Threshold(key, min, max) ==
    [kind |-> "object", items |-> <<[key |-> key, range |-> [min |-> min, max |-> max]]>>]

Body(columns, states) ==
    [columns |-> columns, states |-> states, counties |-> Absent, minPopulation |-> Null,
     thresholds |-> NoThresholds, rowsPerTract |-> Null]

Plain == Body(Array(<<"DIABETES">>), Array(<<"CA">>))
Both == Body(Array(<<"DIABETES", "ACCESS2", "DIABETES">>), Absent)

MCBodies ==
    [b \in Callers |->
        IF b # "b1" THEN {[Both EXCEPT !.rowsPerTract = 5]}
        ELSE {[Both EXCEPT !.states = Array(<<"CA", NonString, "CA">>),
                           !.rowsPerTract = 35],                    \* clamped to 2
              [Plain EXCEPT !.states = [kind |-> "string", items |-> <<"C", "A">>],
                            !.thresholds = Threshold("DIABETES", 200, 300)],
              [Body(Array(<<"ACCESS2">>), Array(<<"NY", "CA">>)) EXCEPT
                  !.counties = Array(<<"Kern">>), !.minPopulation = 70],
              [Plain EXCEPT !.states = [kind |-> "other", items |-> << >>]],
              [Plain EXCEPT !.thresholds = Threshold("DIABETES", 125, Null)],
              [Plain EXCEPT !.thresholds = Threshold("ACCESS2", Null, 400)],
              [Plain EXCEPT !.minPopulation = Odd],
              [Plain EXCEPT !.minPopulation = 900],                 \* matches nothing
              Body(Array(<<"CONSTRUCTOR">>), Absent)}]
=============================================================================
