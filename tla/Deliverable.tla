---------------------------- MODULE Deliverable ----------------------------
(***************************************************************************)
(* The file that is sold: the generator (engine/synth.ts), the seller's    *)
(* generateDelivery() and the buyer's verifyDelivery() (engine/deliver.ts) *)
(*                                                                         *)
(* Uniform(seed, row, field) stands for the draw sha256(seed|row|field),   *)
(* as a number of thousandths; bytes and hashes are the values they are    *)
(* taken of.                                                               *)
(***************************************************************************)
EXTENDS Product

CONSTANTS
    Uniform(_, _, _),   \* the counter-based generator, 0..999
    AgeBands,           \* SYNTHETIC_AGE_BANDS, weights in thousandths
    AgeRestricted,      \* measure -> the age bands of its denominator
    MaxRows             \* MAX_ROWS (999 999 in the code)

Algorithm == "stratified-marginal-bernoulli/v2"

ASSUME DeliverableConstants == MaxRows \in Nat /\ Len(AgeBands) > 0

-----------------------------------------------------------------------------
(* The positions of the slice, largest adult population first, then by     *)
(* tract FIPS: the order in which a remainder is handed out.               *)
Before(corpus, i, j) ==
    LET a == Zeroed(corpus[i].totalPop18plus)
        b == Zeroed(corpus[j].totalPop18plus)
    IN  a > b \/ (a = b /\ corpus[i].tractFips < corpus[j].tractFips)

(* allocateRows() throws when the rows are too many or below the floor. *)
Allocatable(slice, rowsPerTract, total) ==
    /\ rowsPerTract >= 1
    /\ total <= MaxRows
    /\ total >= rowsPerTract * Cardinality(slice)

(* allocateRows(): a floor for every tract; the remainder goes round by    *)
(* round to the tracts in order, so a tract gets one row per full round    *)
(* and one more if its turn comes in the last.                             *)
AllocateRows(slice, rowsPerTract, total, corpus) ==
    LET n == Cardinality(slice)
        remainder == total - rowsPerTract * n
        rank(i) == Cardinality({j \in slice : Before(corpus, j, i)})
    IN  [i \in slice |-> rowsPerTract + remainder \div n
                         + (IF rank(i) < remainder % n THEN 1 ELSE 0)]

(* The band whose cumulated weight first exceeds the draw, else the last. *)
PickAgeBand(u) ==
    LET upTo(k) == SumFunctionOnSet([i \in DOMAIN AgeBands |-> AgeBands[i].weight], 1..k)
        hit == {k \in DOMAIN AgeBands : u < upTo(k)}
    IN  AgeBands[IF hit = {} THEN Len(AgeBands) ELSE Min(hit)].band

MeasureAppliesToAge(m, band) ==
    m \in DOMAIN AgeRestricted => band \in AgeRestricted[m]

(* The tract of every row: the allocation laid out in file order. *)
Assigned(alloc) ==
    LET order == InFileOrder(DOMAIN alloc)
    IN  FlattenSeq([k \in DOMAIN order |-> [r \in 1..alloc[order[k]] |-> order[k]]])

(* generateSyntheticPeople(), for a slice and a total that are allocatable. *)
GenerateSyntheticPeople(slice, total, rowsPerTract, seed, columns, corpus) ==
    LET tract == Assigned(AllocateRows(slice, rowsPerTract, total, corpus))
        band(i) == PickAgeBand(Uniform(seed, i, "age"))
        flag(i, m) == IF MeasureAppliesToAge(m, band(i))
                         /\ Uniform(seed, i, m) < Zeroed(corpus[tract[i]].values[m])
                      THEN 1 ELSE 0
    IN  [i \in 1..total |->
            [tractFips |-> corpus[tract[i]].tractFips, ageBand |-> band(i),
             flags |-> [m \in ToSet(columns) |-> flag(i, m)]]]

(* serializeCsv(): a header and a line for each person, in column order. *)
SerializeCsv(people, columns) ==
    [header |-> columns,
     rows |-> [i \in DOMAIN people |->
        <<people[i].tractFips, people[i].ageBand,
          [k \in DOMAIN columns |-> people[i].flags[columns[k]]]>>]]

(* calibrate() for one measure: the realized rate hits/den is within three *)
(* standard errors, or one percentage point, of the target, which is the   *)
(* prevalence weighted by the rows: W thousandths over w rows.             *)
WithinTolerance(m, people, slice, corpus) ==
    LET rowsOf(i) == Cardinality({r \in DOMAIN people : people[r].tractFips = corpus[i].tractFips})
        w == Len(people)
        W == SumFunction([i \in slice |-> rowsOf(i) * corpus[i].values[m]])
        inDenominator == {r \in DOMAIN people : MeasureAppliesToAge(m, people[r].ageBand)}
        den == Cardinality(inDenominator)
        hits == Cardinality({r \in inDenominator : people[r].flags[m] = 1})
        off == 1000 * w * hits - W * den
    IN  \/ den = 0
        \/ 100 * off <= 1000 * w * den /\ -100 * off <= 1000 * w * den
        \/ off * off <= 9 * W * (1000 * w - W) * den

IsCalibrated(columns, people, slice, corpus) ==
    \A m \in columns : WithinTolerance(m, people, slice, corpus)

-----------------------------------------------------------------------------
(* generateDelivery() refuses an empty slice, a slice that is no longer    *)
(* the one quoted, and a file it cannot generate or that is off target.    *)
DeliveryThrows(seed, q, rowsPerTract, quotedStatsHash, corpus) ==
    LET slice == EvaluateQuery(q, corpus)
        columns == ToSet(q.columns)
        total == rowsPerTract * Cardinality(slice)
    IN  \/ slice = {}
        \/ ~CriteriaIsHashable(q)
        \/ AggregateStats(slice, columns, corpus) # quotedStatsHash
        \/ ~Allocatable(slice, rowsPerTract, total)
        \/ ~IsCalibrated(columns,
                GenerateSyntheticPeople(slice, total, rowsPerTract, seed, q.columns, corpus),
                slice, corpus)

(* Mutant: the manifest lists the columns sorted, the file does not. *)
ManifestSorted(dealId, seed, q, rowsPerTract, quotedStatsHash, locator, corpus) ==
    LET slice == EvaluateQuery(q, corpus)
        total == rowsPerTract * Cardinality(slice)
        commitment == StatsCommitment(AggregateStats(slice, ToSet(q.columns), corpus), q)
    IN  [dealId |-> dealId, criteriaHash |-> commitment.criteriaHash,
         sourceStatsHash |-> commitment.statsHash, quotedStatsHash |-> quotedStatsHash,
         rowCount |-> total, rowsPerTract |-> rowsPerTract,
         tractCount |-> Cardinality(slice), columns |-> Reverse(q.columns), seed |-> seed,
         algorithm |-> Algorithm, calibrated |-> TRUE, locator |-> locator,
         contentHash |-> SerializeCsv(
            GenerateSyntheticPeople(slice, total, rowsPerTract, seed, q.columns, corpus),
            q.columns)]

(* The manifest of a delivery that did not throw.  Its contentHash is the  *)
(* file itself.                                                            *)
Manifest(dealId, seed, q, rowsPerTract, quotedStatsHash, locator, corpus) ==
    LET slice == EvaluateQuery(q, corpus)
        total == rowsPerTract * Cardinality(slice)
        commitment == StatsCommitment(AggregateStats(slice, ToSet(q.columns), corpus), q)
    IN  [dealId |-> dealId, criteriaHash |-> commitment.criteriaHash,
         sourceStatsHash |-> commitment.statsHash, quotedStatsHash |-> quotedStatsHash,
         rowCount |-> total, rowsPerTract |-> rowsPerTract,
         tractCount |-> Cardinality(slice), columns |-> q.columns, seed |-> seed,
         algorithm |-> Algorithm, calibrated |-> TRUE, locator |-> locator,
         contentHash |-> SerializeCsv(
            GenerateSyntheticPeople(slice, total, rowsPerTract, seed, q.columns, corpus),
            q.columns)]

(* verifyDelivery(): the buyer regenerates the file from the manifest, its *)
(* own query and its own corpus.                                           *)
VerifyDelivery(manifest, received, q, corpus) ==
    LET slice == EvaluateQuery(q, corpus)
        columns == ToSet(manifest.columns)
    IN  /\ received = manifest.contentHash
        /\ manifest.algorithm = Algorithm
        /\ slice # {}
        /\ Allocatable(slice, manifest.rowsPerTract, manifest.rowCount)
        /\ SerializeCsv(
             GenerateSyntheticPeople(slice, manifest.rowCount, manifest.rowsPerTract,
                                     manifest.seed, manifest.columns, corpus),
             manifest.columns) = manifest.contentHash
        /\ AggregateStats(slice, columns, corpus) = manifest.sourceStatsHash
        /\ manifest.quotedStatsHash = manifest.sourceStatsHash
        /\ manifest.calibrated
=============================================================================
