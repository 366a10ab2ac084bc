------------------------------- MODULE Places -------------------------------
(***************************************************************************)
(* The PLACES corpus and the query engine (engine/places.ts), as           *)
(* operators.                                                              *)
(*                                                                         *)
(* A corpus is a sequence of tracts in file order, and a slice of it is    *)
(* the set of the positions that match.  A prevalence is a whole number of *)
(* tenths of a percent, as CDC publishes it, and so is a threshold; the    *)
(* figures that a commitment covers are scaled by 10^4 as in the code.     *)
(* Null is JavaScript's null or undefined; Odd a value of another type     *)
(* than the one asked for.                                                 *)
(***************************************************************************)
EXTENDS Integers, FiniteSets, Sequences, SequencesExt

CONSTANTS
    Measures,   \* MEASURE_KEYS, the measures that are sold
    Premium,    \* those of them in the premium tier; the others are standard
    SampleSize  \* rows of the free sample (5 in the code)

Null == -1
Odd == -2

ASSUME PlacesConstants ==
    /\ IsFiniteSet(Measures)
    /\ Premium \subseteq Measures
    /\ SampleSize \in Nat

(* One census tract, its cells parsed: a blank or unreadable number is     *)
(* Null, never zero.                                                       *)
Tract == [stateAbbr : STRING, countyName : STRING, tractFips : Int,
          totalPopulation : Int, totalPop18plus : Int, values : [Measures -> Int]]

Scale == 10000

-----------------------------------------------------------------------------
(* Lines without a state are skipped. *)
LoadPlaces(lines) ==
    LET loaded[k \in 0..Len(lines)] ==
            IF k = 0 THEN << >>
            ELSE IF lines[k].stateAbbr = "" THEN loaded[k - 1]
            ELSE Append(loaded[k - 1], lines[k])
    IN  loaded[Len(lines)]

StatesOf(corpus) == {corpus[i].stateAbbr : i \in DOMAIN corpus}

CountiesOf(corpus, states) ==
    {corpus[i].countyName : i \in {j \in DOMAIN corpus : corpus[j].stateAbbr \in states}}

(* The states in which measure m has no published value at all. *)
UnavailableStates(corpus, m) ==
    {s \in StatesOf(corpus) :
        \A i \in DOMAIN corpus : corpus[i].stateAbbr = s => corpus[i].values[m] = Null}

AvailabilityIsExhaustive(corpus) ==
    \A m \in Measures, i \in DOMAIN corpus :
        corpus[i].values[m] = Null => corpus[i].stateAbbr \in UnavailableStates(corpus, m)

TierOf(m) == IF m \in Premium THEN "premium" ELSE "standard"

(* Mutant: partial suppression within a state goes unnoticed. *)
CardMatchesTotals(card, corpus) ==
    /\ card.tracts = Len(corpus)
    /\ card.states = Cardinality(StatesOf(corpus))
    /\ DOMAIN card.tiers = Measures
    /\ \A m \in Measures : /\ card.tiers[m] = TierOf(m)
                           /\ card.unavailable[m] = UnavailableStates(corpus, m)

(* assertCardMatchesCorpus(), which refuses to serve any other card. *)
CardMatchesCorpus(card, corpus) ==
    /\ card.tracts = Len(corpus)
    /\ card.states = Cardinality(StatesOf(corpus))
    /\ DOMAIN card.tiers = Measures
    /\ \A m \in Measures : /\ card.tiers[m] = TierOf(m)
                           /\ card.unavailable[m] = UnavailableStates(corpus, m)
    /\ AvailabilityIsExhaustive(corpus)

-----------------------------------------------------------------------------
(* The rejection a threshold earns, by the first rule it breaks. *)
ThresholdRejections(entry, columns) ==
    LET t == entry.range
    IN  IF t.min = Odd \/ t.max = Odd \/ (t.min = Null /\ t.max = Null)
        THEN {"THRESHOLD_FILTER_UNSUPPORTED"}
        ELSE IF entry.key \notin columns THEN {"THRESHOLD_ON_UNREQUESTED_COLUMN"}
        ELSE IF t.min # Null /\ t.max # Null /\ t.min > t.max THEN {"THRESHOLD_RANGE_EMPTY"}
        ELSE {}

(* Mutant: thresholds may be set on columns that are not purchased. *)
ValidateQueryProbing(q, corpus) ==
    LET columns == ToSet(q.columns)
    IN  (IF columns = {} THEN {"NO_COLUMNS_REQUESTED"} ELSE {})
        \cup (IF columns \subseteq Measures THEN {} ELSE {"UNKNOWN_COLUMN"})
        \cup (IF q.states \subseteq StatesOf(corpus) THEN {} ELSE {"STATE_NOT_AVAILABLE"})
        \cup UNION {ThresholdRejections(q.thresholds[i], Measures) : i \in DOMAIN q.thresholds}

(* validateQuery(): every problem of the query, not only the first.  The   *)
(* cut of a list above MAX_PROBLEMS is left out: the callers ask whether   *)
(* there is a problem, and a cut list is never empty.                      *)
ValidateQuery(q, corpus) ==
    LET columns == ToSet(q.columns)
    IN  (IF columns = {} THEN {"NO_COLUMNS_REQUESTED"} ELSE {})
        \cup (IF columns \subseteq Measures THEN {} ELSE {"UNKNOWN_COLUMN"})
        \cup (IF q.states \subseteq StatesOf(corpus) THEN {} ELSE {"STATE_NOT_AVAILABLE"})
        \cup (IF q.counties \subseteq CountiesOf(corpus, q.states) THEN {}
              ELSE {"COUNTY_FILTER_UNSUPPORTED"})
        \cup (IF q.minPopulation = Odd THEN {"POPULATION_FILTER_UNSUPPORTED"} ELSE {})
        \cup (IF Len(q.thresholds) > Cardinality(Measures)
              THEN {"THRESHOLD_FILTER_UNSUPPORTED"} ELSE {})
        \cup UNION {ThresholdRejections(q.thresholds[i], columns) :
                       i \in {j \in DOMAIN q.thresholds : j <= Cardinality(Measures)}}

(* A tract survives the filters and has a value for every purchased        *)
(* measure: a suppressed value excludes the tract, it is never a zero.     *)
Matches(q, t) ==
    /\ q.states # {} => t.stateAbbr \in q.states
    /\ q.counties # {} => t.countyName \in q.counties
    /\ q.minPopulation # Null => t.totalPopulation >= q.minPopulation
    /\ \A m \in ToSet(q.columns) : t.values[m] # Null
    /\ \A i \in DOMAIN q.thresholds :
        LET v == t.values[q.thresholds[i].key]
            range == q.thresholds[i].range
        IN  /\ v # Null
            /\ range.min # Null => v >= range.min
            /\ range.max # Null => v <= range.max

EvaluateQuery(q, corpus) == {i \in DOMAIN corpus : Matches(q, corpus[i])}

(* The requested states in which a purchased measure is suppressed. *)
ZeroYieldStates(q, corpus) ==
    {s \in q.states : \E m \in ToSet(q.columns) : s \in UnavailableStates(corpus, m)}

-----------------------------------------------------------------------------
(* num / den, rounded half up. *)
RoundHalfUp(num, den) == (2 * num + den) \div (2 * den)

(* priceQuery(): the rate card's published formula, in cents. *)
PriceQuery(tractCount, columns, terms) ==
    LET tracts == RoundHalfUp(tractCount * terms.perTractMicroCents, 1000)
        premium == Cardinality(columns \cap Premium) * terms.perPremiumColumnCents
        standard == Cardinality(columns \ Premium) * terms.perStandardColumnCents
        subtotal == terms.baseCents + tracts + standard + premium
    IN  [tracts |-> tracts, standardColumns |-> standard, premiumColumns |-> premium,
         subtotal |-> subtotal,
         listCents |-> RoundHalfUp(subtotal * terms.vintageMultiplierBps, 10000)]

(* How many positions of the slice come before i. *)
Rank(slice, i) == Cardinality({j \in slice : j < i})

InFileOrder(slice) ==
    [k \in 1..Cardinality(slice) |-> CHOOSE i \in slice : Rank(slice, i) = k - 1]

Zeroed(n) == IF n = Null THEN 0 ELSE n

(* One measure over the slice: vals maps its positions to prevalences. *)
MeasureStats(vals) ==
    LET n == Cardinality(DOMAIN vals)
        order == InFileOrder(DOMAIN vals)
        sorted == SortSeq([k \in 1..n |-> vals[order[k]]], <)
        scaled(k) == sorted[k] * (Scale \div 10)
    IN  IF n = 0 THEN [n |-> 0, min |-> 0, max |-> 0, mean |-> 0, median |-> 0]
        ELSE [n |-> n, min |-> scaled(1), max |-> scaled(n),
              mean |-> RoundHalfUp(SumFunction(vals) * (Scale \div 10), n),
              median |-> IF n % 2 = 1 THEN scaled((n + 1) \div 2)
                         ELSE (scaled(n \div 2) + scaled(n \div 2 + 1)) \div 2]

(* aggregateStats(): over the whole slice, not over the sample. *)
AggregateStats(slice, columns, corpus) ==
    [tractCount |-> Cardinality(slice),
     totalPopulation |->
        SumFunction([i \in slice |-> Zeroed(corpus[i].totalPopulation)]),
     totalPop18plus |->
        SumFunction([i \in slice |-> Zeroed(corpus[i].totalPop18plus)]),
     perMeasure |->
        [m \in columns |-> MeasureStats([i \in slice |-> corpus[i].values[m]])]]

(* sampleRows(): the first matches in file order, purchased columns only. *)
SampleRows(slice, columns, corpus) ==
    LET first == {i \in slice : Rank(slice, i) < SampleSize}
    IN  [i \in first |-> [tractFips |-> corpus[i].tractFips,
                          values |-> [m \in columns |-> corpus[i].values[m]]]]

(* statsCommitment().  A hash is the value it is taken of, with the keys   *)
(* in the order in which the encoder writes them; a sorted list is the bag *)
(* of its items.  The criteria are hashed as they are: the encoder throws  *)
(* on a number that is not whole.                                          *)
CriteriaIsHashable(q) ==
    \A i \in DOMAIN q.thresholds :
        \A x \in {q.thresholds[i].range.min, q.thresholds[i].range.max} :
            x # Null => x % 10 = 0

StatsCommitment(stats, q) ==
    [statsHash |-> stats,
     criteriaHash |->
        [keys |-> <<"columns", "counties", "minPopulation", "states", "thresholds">>,
         columns |-> ToBag(q.columns), counties |-> SetToBag(q.counties),
         minPopulation |-> q.minPopulation, states |-> SetToBag(q.states),
         thresholds |-> SetToSeq(ToSet(q.thresholds))]]
=============================================================================
