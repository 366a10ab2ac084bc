------------------------------ MODULE Product ------------------------------
(***************************************************************************)
(* The seller's product (product.ts): an untrusted request body becomes a  *)
(* query, and a query becomes a quote.                                     *)
(*                                                                         *)
(* A body is a record of JSON values.  A list is an array, a string (whose *)
(* items are its characters), another type, or absent; an item of an array *)
(* that is no string is NonString.  rowsPerTract is a number of tenths.  A *)
(* bound or a population is Null when it is absent, Odd when it is there   *)
(* but not the number asked for (a JSON null included).                    *)
(***************************************************************************)
EXTENDS Places

CONSTANTS
    RateCard,       \* the card's rate card
    Density         \* the card's rowsPerTract bounds: default, min, max

NonString == "<not a string>"

ASSUME ProductConstants ==
    /\ RateCard \in [baseCents : Nat, perTractMicroCents : Nat, perStandardColumnCents : Nat,
                     perPremiumColumnCents : Nat, vintageMultiplierBps : Nat]
    /\ Density.min \in Nat \ {0}
    /\ Density.max \in Nat
    /\ Density.default \in Density.min..Density.max

-----------------------------------------------------------------------------
Dedupe(s) ==
    LET firsts == InFileOrder({i \in DOMAIN s : \A j \in 1..(i - 1) : s[j] # s[i]})
    IN  [k \in DOMAIN firsts |-> s[firsts[k]]]

StrArray(v) ==
    IF v.kind = "array" THEN SelectSeq(v.items, LAMBDA x : x # NonString) ELSE << >>

(* readQuery(): anything of the wrong type becomes absent, except a        *)
(* minPopulation, which is left for validateQuery to refuse.               *)
ReadQuery(body) ==
    [columns |-> Dedupe(StrArray(body.columns)),
     states |-> ToSet(StrArray(body.states)),
     counties |-> ToSet(StrArray(body.counties)),
     minPopulation |-> body.minPopulation,
     thresholds |-> IF body.thresholds.kind = "object" THEN body.thresholds.items ELSE << >>]

(* Mutant: the upper bound of the card is not applied. *)
DensityUnclamped(body) ==
    LET asked == IF body.rowsPerTract = Null THEN 10 * Density.default ELSE body.rowsPerTract
    IN  Max({IF asked >= 10 THEN asked \div 10 ELSE 1, Density.min})

(* densityAsked(): clamped to the bounds the card publishes. *)
DensityAsked(body) ==
    LET asked == IF body.rowsPerTract = Null THEN 10 * Density.default ELSE body.rowsPerTract
    IN  Min({Max({IF asked >= 10 THEN asked \div 10 ELSE 1, Density.min}), Density.max})

(* criteriaHashOf(): taken of the body as it was written.  Lists are       *)
(* sorted, so only how often an item occurs is left; the thresholds are    *)
(* encoded in the order in which they came.                                *)
CriteriaIsIterable(body) ==
    \A list \in {body.columns, body.states, body.counties} : list.kind # "other"

CriteriaHashOf(body) ==
    [keys |-> <<"columns", "states", "counties", "minPopulation", "thresholds">>,
     columns |-> ToBag(body.columns.items), states |-> ToBag(body.states.items),
     counties |-> ToBag(body.counties.items), minPopulation |-> body.minPopulation,
     thresholds |-> body.thresholds.items]

(* composeQuote().  It throws where one of the two hashes does. *)
QuoteThrows(body, corpus) ==
    LET q == ReadQuery(body)
    IN  /\ ValidateQuery(q, corpus) = {}
        /\ \/ EvaluateQuery(q, corpus) # {} /\ ~CriteriaIsHashable(q)
           \/ ~CriteriaIsIterable(body)

ComposeQuote(body, corpus) ==
    LET q == ReadQuery(body)
        columns == ToSet(q.columns)
        slice == EvaluateQuery(q, corpus)
        stats == AggregateStats(slice, columns, corpus)
        rows == DensityAsked(body)
    IN  IF ValidateQuery(q, corpus) # {}
        THEN [accepted |-> FALSE, rejections |-> ValidateQuery(q, corpus)]
        ELSE [accepted |-> TRUE, priceable |-> slice # {},
              tractCount |-> Cardinality(slice),
              rowsPerTract |-> rows, rowCount |-> rows * Cardinality(slice),
              price |-> PriceQuery(Cardinality(slice), columns, RateCard),
              statsHash |-> StatsCommitment(stats, q).statsHash,
              criteriaHash |-> CriteriaHashOf(body),
              zeroYieldStates |-> ZeroYieldStates(q, corpus),
              sample |-> SampleRows(slice, columns, corpus)]
=============================================================================
