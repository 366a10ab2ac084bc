------------------------- MODULE DataDealStoreProofs -------------------------
(***************************************************************************)
(* DataDeal implements SellerStore: a step of the executor is a call of    *)
(* one method of the store, or leaves the store alone.                     *)
(*                                                                         *)
(* The refinement mapping names a terms document by the first quote that   *)
(* carries it.  Names are kept because later quotes have larger numbers;   *)
(* the prunes find nothing to delete because the runs of DataDeal stay     *)
(* within the caps, which is what the theorem assumes.                     *)
(***************************************************************************)
EXTENDS DataDealProofs

(* The runs are within MAX_OPEN_NEGOTIATIONS and MAX_RECLAIMABLE_DEALS. *)
WithinCaps == MaxNegotiations <= 1024 /\ MaxDeals <= 1024

-----------------------------------------------------------------------------
(* A set of numbers has a least one. *)
LEMMA LeastNumber ==
    ASSUME NEW S, S \subseteq Nat, S # {}
    PROVE  Min(S) \in S /\ \A y \in S : Min(S) <= y
<1> DEFINE R == OpToRel(<, Nat)
<1>1. IsWellFoundedOn(R, Nat)
  BY NatLessThanWellFounded
<1> HIDE DEF R
<1>2. PICK x \in S : \A y \in S : ~(<<y, x>> \in R)
  BY <1>1, WFMin
<1>3. ASSUME NEW y \in S PROVE x <= y
  <2>1. y < x => <<y, x>> \in R
    BY DEF R, OpToRel
  <2> QED BY <1>2, <2>1
<1> QED BY <1>3 DEF Min

(* Quotes, documents and deals are numbered within their bounds. *)
LEMMA Numbered ==
    ASSUME DealInv
    PROVE  /\ Len(asked) \in Nat /\ DOMAIN asked = 1..Len(asked)
           /\ DOMAIN quotes \subseteq 1..Len(asked)
           /\ \A n \in DOMAIN asked : asked[n] \in Callers
           /\ \A d \in DOMAIN deals : deals[d].negotiationId \in DOMAIN quotes
  BY LenProperties, ElementOfSeq, QuoteOfDeal DEF DealInv, QuotesInv

LEMMA NameFacts ==
    ASSUME DealInv, NEW n \in DOMAIN quotes
    PROVE  /\ DocumentName(n) \in DOMAIN quotes /\ DocumentName(n) \in 1..MaxNegotiations
           /\ quotes[DocumentName(n)].document = quotes[n].document
           /\ \A m \in DOMAIN quotes :
                quotes[m].document = quotes[n].document => DocumentName(n) <= m
<1> DEFINE S == {m \in DOMAIN quotes : quotes[m].document = quotes[n].document}
<1>1. S \subseteq Nat /\ n \in S
  BY Numbered
<1>2. Min(S) \in S /\ \A y \in S : Min(S) <= y
  <2> HIDE DEF S
  <2> QED BY <1>1, LeastNumber
<1>3. DocumentName(n) = Min(S)
  BY DEF DocumentName
<1> HIDE DEF DocumentName
<1>4. Len(asked) <= MaxNegotiations /\ MaxNegotiations \in Nat
  BY DealConstants DEF DealInv, QuotesInv
<1> QED BY <1>2, <1>3, <1>4, Numbered

(* A later quote takes no name away. *)
LEMMA NamesStay ==
    ASSUME DealInv, NEW n \in DOMAIN quotes,
           DOMAIN quotes \subseteq DOMAIN quotes',
           DOMAIN quotes' \subseteq DOMAIN quotes \cup {Len(asked) + 1},
           \A m \in DOMAIN quotes : quotes'[m] = quotes[m]
    PROVE  DocumentName(n)' = DocumentName(n)
<1>1. PICK T : T = {m \in DOMAIN quotes' : quotes'[m].document = quotes'[n].document}
  OBVIOUS
<1>2. PICK old, new : old = DocumentName(n) /\ new = Min(T)
  OBVIOUS
<1>3. DocumentName(n)' = new
  BY <1>1, <1>2 DEF DocumentName
<1>4. /\ old \in DOMAIN quotes /\ quotes[old].document = quotes[n].document
      /\ \A m \in DOMAIN quotes : quotes[m].document = quotes[n].document => old <= m
  BY <1>2, NameFacts
<1>5. n \in 1..Len(asked) /\ Len(asked) \in Nat /\ DOMAIN quotes \subseteq 1..Len(asked)
  BY Numbered
<1>6. n \in T /\ T \subseteq Nat
  BY <1>1, <1>5
<1>7. new \in T /\ \A m \in T : new <= m
  BY <1>2, <1>6, LeastNumber
<1>8. new \in DOMAIN quotes /\ quotes[new].document = quotes[n].document
  <2>1. new <= n /\ new \in Nat
    BY <1>6, <1>7
  <2>2. new \in DOMAIN quotes
    BY <1>1, <1>5, <1>7, <2>1
  <2> QED BY <1>1, <1>7, <2>2
<1>9. old \in T
  BY <1>1, <1>4
<1>10. old \in Nat /\ new \in Nat /\ new <= old /\ old <= new
  BY <1>4, <1>5, <1>6, <1>7, <1>8, <1>9
<1> QED BY <1>2, <1>3, <1>10

-----------------------------------------------------------------------------
(* The prunes find nothing below the caps. *)
LEMMA StoreCardinality == ASSUME NEW S PROVE Store!Cardinality(S) = Cardinality(S)
  BY DEF Store!Cardinality, Cardinality

LEMMA OldestOfNone ==
    ASSUME NEW S, IsFiniteSet(S), NEW num, NEW n \in Int, n <= 0
    PROVE  Store!Oldest(S, num, n) = {}
<1>1. ASSUME NEW x \in S PROVE ~(Store!Cardinality({y \in S : num[y] < num[x]}) < n)
  <2>1. PICK older : older = {y \in S : num[y] < num[x]}
    OBVIOUS
  <2>2. Cardinality(older) \in Nat
    BY <2>1, FS_Subset, FS_CardinalityType
  <2>3. Store!Cardinality(older) = Cardinality(older)
    BY StoreCardinality
  <2> QED BY <2>1, <2>2, <2>3
<1> QED BY <1>1 DEF Store!Oldest

LEMMA NothingEvicted ==
    ASSUME NEW negs, NEW ds, NEW n, NEW k \in Nat, k <= 1024, DOMAIN negs = 1..k
    PROVE  Store!Evicted(negs, ds, n) = {}
<1> DEFINE free == DOMAIN negs \ (Store!Referenced(ds) \cup {n})
<1>1. IsFiniteSet(DOMAIN negs) /\ Cardinality(DOMAIN negs) = k
  BY FS_Interval
<1>2. IsFiniteSet(free)
  BY <1>1, FS_Subset
<1> HIDE DEF free
<1>3. PICK num, m : num = [i \in free |-> i] /\ m = Store!Cardinality(DOMAIN negs) - 1024
  OBVIOUS
<1>4. m = k - 1024
  BY <1>1, <1>3, StoreCardinality
<1>5. Store!Oldest(free, num, m) = {}
  BY <1>2, <1>4, OldestOfNone
<1>6. Store!Evicted(negs, ds, n) = Store!Oldest(free, num, m)
  BY <1>3 DEF Store!Evicted, free
<1> QED BY <1>5, <1>6

LEMMA NothingReclaimed ==
    ASSUME NEW k \in Nat, k <= 1023, DOMAIN deals = 1..k
    PROVE  Store!Reclaimed = {}
<1> DEFINE reclaimable == {d \in DOMAIN StoreDeals : Store!IsReclaimableDeal(StoreDeals[d])}
           stale == {d \in reclaimable : 0 - StoreDeals[d].updatedAt > 900}
           fresh == reclaimable \ stale
<1>1. DOMAIN StoreDeals = 1..k /\ \A d \in 1..k : StoreDeals[d].updatedAt = 0
  BY DEF StoreDeals
<1>2. stale = {}
  BY <1>1
<1>3. IsFiniteSet(1..k) /\ Cardinality(1..k) = k
  BY FS_Interval
<1>4. fresh \subseteq 1..k
  BY <1>1
<1> HIDE DEF reclaimable, stale, fresh
<1>5. Cardinality(fresh) \in Nat /\ Cardinality(fresh) <= k /\ IsFiniteSet(fresh)
  <2>1. IsFiniteSet(fresh) /\ Cardinality(fresh) <= Cardinality(1..k)
    BY <1>3, <1>4, FS_Subset
  <2> QED BY <1>3, <2>1, FS_CardinalityType
<1>6. PICK num, n : /\ num = [d \in fresh |-> StoreDeals[d].order]
                    /\ n = Store!Cardinality(fresh) - (1024 - 1)
  OBVIOUS
<1>7. n \in Int /\ n <= 0
  BY <1>5, <1>6, StoreCardinality
<1>8. Store!Oldest(fresh, num, n) = {}
  BY <1>5, <1>7, OldestOfNone
<1>9. Store!Reclaimed = stale \cup Store!Oldest(fresh, num, n)
  BY <1>6 DEF Store!Reclaimed, reclaimable, stale, fresh
<1> QED BY <1>2, <1>8, <1>9

(* Map.delete of nothing. *)
LEMMA WithoutNone ==
    ASSUME NEW f, f = [x \in DOMAIN f |-> f[x]]
    PROVE  Store!Without(f, {}) = f
<1>1. DOMAIN f \ {} = DOMAIN f
  OBVIOUS
<1> QED BY <1>1 DEF Store!Without, Store!Restrict

LEMMA UnlinkedNone == Store!Unlinked({}) = StoreNegotiations
<1>1. DOMAIN Store!Unlinked({}) = DOMAIN StoreNegotiations
  BY DEF Store!Unlinked
<1>2. \A n \in DOMAIN StoreNegotiations : Store!Unlinked({})[n] = StoreNegotiations[n]
  BY DEF Store!Unlinked
<1>3. Store!Unlinked({}) = [n \in DOMAIN StoreNegotiations |-> Store!Unlinked({})[n]]
  BY DEF Store!Unlinked
<1>4. StoreNegotiations = [n \in DOMAIN StoreNegotiations |-> StoreNegotiations[n]]
  BY DEF StoreNegotiations
<1> QED BY <1>1, <1>2, <1>3, <1>4
-----------------------------------------------------------------------------
(* A step that leaves queries, quotes, deals and preparations alone. *)
LEMMA StoreStutters ==
    ASSUME UNCHANGED <<asked, quotes, deals, preparing>>
    PROVE  UNCHANGED Store!vars
<1>1. \A n : DocumentName(n)' = DocumentName(n) /\ DealsOf(n)' = DealsOf(n)
  BY DEF DocumentName, DealsOf
<1>2. StoreNegotiations' = StoreNegotiations
  BY <1>1 DEF StoreNegotiations
<1>3. StoreQuotes' = StoreQuotes /\ StoreDeals' = StoreDeals
  BY <1>1 DEF StoreQuotes, StoreDeals
<1>4. StorePreparing' = StorePreparing
  BY DEF StorePreparing
<1> QED BY <1>2, <1>3, <1>4 DEF Store!vars

LEMMA InitIsInit == Init => Store!Init
<1> SUFFICES ASSUME Init PROVE Store!Init
  OBVIOUS
<1>1. asked = << >> /\ quotes = << >> /\ deals = << >> /\ preparing = {}
  BY DEF Init
<1>2. StoreNegotiations = << >> /\ StoreQuotes = << >> /\ StoreDeals = << >>
  BY <1>1 DEF StoreNegotiations, StoreQuotes, StoreDeals
<1>3. StorePreparing = {} /\ Len(asked) = 0 /\ DOMAIN deals = {}
  BY <1>1 DEF StorePreparing
<1>4. Cardinality(DOMAIN deals) = 0
  BY <1>3, FS_EmptySet
<1> QED BY <1>2, <1>3, <1>4 DEF Store!Init

(* The query kind is quote(). *)
LEMMA QueryIsQuote ==
    ASSUME WithinCaps, DealInv, NEW x \in Callers, NEW body \in Bodies[x],
           status = "serving", Query(x, body), Len(asked) < MaxNegotiations,
           UNCHANGED <<status, corpus, deals, preparing>>
    PROVE  \E document \in 1..MaxNegotiations \cup {0} : Store!Quote(x, document)
<1>0. PICK n : n = Len(asked) + 1
  OBVIOUS
<1>1. /\ Len(asked) \in Nat /\ DOMAIN asked = 1..Len(asked) /\ Len(asked') = n
      /\ DOMAIN asked' = 1..n /\ asked'[n] = x /\ \A m \in 1..Len(asked) : asked'[m] = asked[m]
      /\ DOMAIN quotes \subseteq 1..Len(asked) /\ n <= 1024 /\ n \in Nat
      /\ MaxNegotiations \in Nat /\ n <= MaxNegotiations
  <2>1. asked \in Seq(Callers) /\ asked' = Append(asked, x)
    BY DEF DealInv, QuotesInv, Query
  <2> QED BY <1>0, <2>1, AppendProperties, LenProperties, Numbered, DealConstants
          DEF WithinCaps
<1>2. PICK name : name = IF Quoted(body) THEN DocumentName(n)' ELSE 0
  OBVIOUS
<1>3. DOMAIN quotes' = IF Quoted(body) THEN DOMAIN quotes \cup {n} ELSE DOMAIN quotes
  BY <1>0 DEF Query
<1>4. \A m \in DOMAIN quotes : quotes'[m] = quotes[m]
  BY <1>0, <1>1 DEF Query
<1>5. Quoted(body) => name \in 1..MaxNegotiations
  <2> SUFFICES ASSUME Quoted(body) PROVE name \in 1..MaxNegotiations
    OBVIOUS
  <2>1. PICK T : T = {m \in DOMAIN quotes' : quotes'[m].document = quotes'[n].document}
    OBVIOUS
  <2>2. n \in T /\ T \subseteq 1..n /\ T \subseteq Nat
    BY <1>0, <1>1, <1>3, <2>1
  <2>3. Min(T) \in T
    BY <2>2, LeastNumber
  <2>4. name = Min(T)
    BY <1>2, <2>1 DEF DocumentName
  <2>5. name \in 1..n
    BY <2>2, <2>3, <2>4
  <2> QED BY <1>1, <2>5
<1>6. \A m \in DOMAIN quotes : DocumentName(m)' = DocumentName(m)
  BY <1>0, <1>3, <1>4, NamesStay
<1>7. /\ \A m : DealsOf(m)' = DealsOf(m)
      /\ DealsOf(n) = {}
  BY <1>0, <1>1, Numbered DEF DealsOf
<1>8. StoreDeals' = StoreDeals
  BY <1>6, Numbered DEF StoreDeals
<1>9. StorePreparing' = StorePreparing
  BY DEF StorePreparing
<1> DEFINE accepted == name # 0
           negs == Store!Put(StoreNegotiations, n,
                       [buyerAgentId |-> x, dealIds |-> {},
                        state |-> IF accepted THEN "QUOTED" ELSE "REFUSED"])
           qs == IF accepted
                 THEN Store!Put(StoreQuotes, n, [buyerAgentId |-> x, termsDocumentHash |-> name])
                 ELSE StoreQuotes
<1>10. accepted <=> Quoted(body)
  BY <1>1, <1>2, <1>5
<1>11. StoreNegotiations' = negs
  <2>1. /\ DOMAIN StoreNegotiations = 1..Len(asked)
        /\ DOMAIN negs = 1..n /\ DOMAIN (StoreNegotiations') = 1..n
    BY <1>0, <1>1 DEF StoreNegotiations, Store!Put
  <2>2. ASSUME NEW m \in 1..n PROVE StoreNegotiations'[m] = negs[m]
    <3>1. CASE m = n
      <4>1. negs[n] = [buyerAgentId |-> x, dealIds |-> {},
                       state |-> IF accepted THEN "QUOTED" ELSE "REFUSED"]
        BY <2>1 DEF Store!Put
      <4>2. n \in DOMAIN quotes' <=> accepted
        BY <1>0, <1>1, <1>3, <1>10
      <4>3. DealsOf(n)' = {}
        BY <1>7
      <4> HIDE DEF negs, accepted
      <4> QED BY <1>1, <3>1, <4>1, <4>2, <4>3 DEF StoreNegotiations
    <3>2. CASE m # n
      <4>1. m \in 1..Len(asked) /\ negs[m] = StoreNegotiations[m]
        BY <1>1, <2>1, <3>2 DEF Store!Put
      <4>2. m \in DOMAIN quotes' <=> m \in DOMAIN quotes
        BY <1>3, <3>2
      <4> QED BY <1>1, <1>7, <4>1, <4>2 DEF StoreNegotiations
    <3> QED BY <3>1, <3>2
  <2> QED BY <2>1, <2>2 DEF StoreNegotiations, Store!Put
<1>12. StoreQuotes' = qs
  <2>1. CASE ~Quoted(body)
    BY <1>1, <1>3, <1>6, <1>10, <2>1 DEF StoreQuotes
  <2>2. CASE Quoted(body)
    <3>1. DOMAIN StoreQuotes = DOMAIN quotes /\ DOMAIN (StoreQuotes') = DOMAIN quotes \cup {n}
      BY <1>3, <2>2 DEF StoreQuotes
    <3>2. qs = [m \in DOMAIN quotes \cup {n} |->
                  IF m = n THEN [buyerAgentId |-> x, termsDocumentHash |-> name]
                  ELSE StoreQuotes[m]]
      BY <1>10, <2>2, <3>1 DEF Store!Put
    <3>3. ASSUME NEW m \in DOMAIN quotes \cup {n}
          PROVE  StoreQuotes'[m] = IF m = n THEN [buyerAgentId |-> x, termsDocumentHash |-> name]
                                   ELSE StoreQuotes[m]
      BY <1>1, <1>2, <1>3, <1>6, <2>2 DEF StoreQuotes
    <3> QED BY <3>1, <3>2, <3>3 DEF StoreQuotes
  <2> QED BY <2>1, <2>2
<1>13. Store!Evicted(negs, StoreDeals, n) = {}
  <2>1. DOMAIN negs = 1..n
    BY <1>1, <1>11 DEF StoreNegotiations
  <2> HIDE DEF negs
  <2> QED BY <1>1, <2>1, NothingEvicted
<1>14. Store!Without(negs, {}) = negs /\ Store!Without(qs, {}) = qs
  <2>1. negs = [m \in DOMAIN negs |-> negs[m]] /\ qs = [m \in DOMAIN qs |-> qs[m]]
    BY <1>11, <1>12 DEF StoreNegotiations, StoreQuotes
  <2> HIDE DEF negs, qs
  <2> QED BY <2>1, WithoutNone
<1>15. Store!Quote(x, name)
  BY <1>0, <1>1, <1>8, <1>9, <1>11, <1>12, <1>13, <1>14 DEF Store!Quote
<1>16. name \in 1..MaxNegotiations \cup {0}
  BY <1>2, <1>5
<1> QED BY <1>15, <1>16
-----------------------------------------------------------------------------
(* The deals change, but not which they are and what they were quoted. *)
LEMMA DealsChange ==
    ASSUME UNCHANGED <<asked, quotes>>, DOMAIN deals' = DOMAIN deals,
           \A d \in DOMAIN deals : deals'[d].negotiationId = deals[d].negotiationId
    PROVE  /\ StoreNegotiations' = StoreNegotiations /\ StoreQuotes' = StoreQuotes
           /\ \A n : DocumentName(n)' = DocumentName(n)
           /\ DOMAIN (StoreDeals') = DOMAIN StoreDeals
<1>1. \A n : DocumentName(n)' = DocumentName(n) /\ DealsOf(n)' = DealsOf(n)
  BY DEF DocumentName, DealsOf
<1> QED BY <1>1 DEF StoreNegotiations, StoreQuotes, StoreDeals

(* What the store holds of a deal. *)
StoreRecord(deal, name, token, d) ==
    [negotiationId |-> deal.negotiationId, termsDocumentHash |-> name,
     buyerAddress |-> deal.buyerAddress, state |-> deal.state, runtimeState |-> "UNSEEN",
     capabilityToken |-> token, capabilityRevoked |-> FALSE, updatedAt |-> 0, order |-> d]

LEMMA StoreDealFacts ==
    ASSUME DealInv, NEW d \in DOMAIN deals
    PROVE  /\ d \in DealIds
           /\ deals[d].negotiationId \in DOMAIN StoreQuotes
           /\ DOMAIN StoreDeals = DOMAIN deals
           /\ StoreDeals[d].negotiationId = deals[d].negotiationId
           /\ StoreDeals[d].state = deals[d].state
           /\ StoreDeals[d].order = d
<1>1. d \in DealIds
  <2>1. PICK k \in 0..MaxDeals : DOMAIN deals = 1..k
    BY DEF DealInv, DealsInv
  <2> QED BY <2>1, DealConstants DEF DealIds
<1> QED BY <1>1, QuoteOfDeal DEF StoreQuotes, StoreDeals

(* A deal of the store that is replaced. *)
LEMMA ReplacedDeal ==
    ASSUME NEW d \in DOMAIN deals, NEW new, DOMAIN deals' = DOMAIN deals,
           \A e \in DOMAIN deals \ {d} : StoreDeals'[e] = StoreDeals[e],
           StoreDeals'[d] = new
    PROVE  StoreDeals' = [StoreDeals EXCEPT ![d] = new]
<1>1. /\ DOMAIN StoreDeals = DOMAIN deals
      /\ StoreDeals' = [e \in DOMAIN deals |-> StoreDeals'[e]]
  BY DEF StoreDeals
<1> QED BY <1>1

(* The submit-proposal kind is propose(). *)
LEMMA SubmitIsPropose ==
    ASSUME WithinCaps, DealInv, NEW d, NEW n, NEW contract, NEW x \in Callers,
           SubmitProposal(d, n, contract, x),
           UNCHANGED <<asked, quotes, preparing>>
    PROVE  /\ d \in DealIds /\ n \in 1..Len(asked)
           /\ \E c \in Store!Contracts : Store!Propose(d, n, c, x)
<1>1. PICK k \in 0..MaxDeals : DOMAIN deals = 1..k
  BY DEF DealInv, DealsInv
<1>2. /\ k \in Nat /\ k <= 1023 /\ d = k + 1 /\ d \in DealIds /\ d \notin DOMAIN deals
      /\ Cardinality(DOMAIN deals) = k /\ Cardinality(DOMAIN deals \cup {d}) = k + 1
      /\ k < MaxDeals
  <2>1. k \in Nat /\ MaxDeals \in Nat
    BY <1>1, DealConstants
  <2>2. Cardinality(1..k) = k /\ Cardinality(1..(k + 1)) = k + 1
    BY <2>1, FS_Interval
  <2>3. d = k + 1 /\ d \in 1..MaxDeals
    BY <1>1, <2>2 DEF SubmitProposal, DealIds
  <2>4. 1..k \cup {d} = 1..(k + 1)
    BY <2>1, <2>3
  <2>5. k <= 1023 /\ k < MaxDeals /\ d \notin 1..k
    BY <2>1, <2>3 DEF WithinCaps
  <2>6. Cardinality(DOMAIN deals) = k /\ Cardinality(DOMAIN deals \cup {d}) = k + 1
    BY <1>1, <2>2, <2>4
  <2> QED BY <1>1, <2>1, <2>3, <2>5, <2>6 DEF DealIds
<1>3. n \in DOMAIN quotes /\ n \in 1..Len(asked) /\ n \in DOMAIN asked /\ asked[n] \in Callers
  BY Numbered DEF SubmitProposal, Selects
<1>4. /\ DOMAIN deals' = DOMAIN deals \cup {d}
      /\ \A e \in DOMAIN deals : deals'[e] = deals[e]
      /\ deals'[d].negotiationId = n /\ deals'[d].buyerAddress = x
      /\ deals'[d].state = "PROPOSED_LOCAL" /\ deals'[d].capability = 0
  BY <1>2 DEF SubmitProposal
<1>5. PICK c : c = [document |-> DocumentName(n), buyerAgentId |-> asked[n]]
  OBVIOUS
<1>6. c \in Store!Contracts /\ Store!Selects(n, c)
  BY <1>3, <1>5, NameFacts DEF Store!Contracts, Store!Selects, StoreQuotes
<1>7. Store!Reclaimed = {}
  BY <1>1, <1>2, NothingReclaimed
<1>8. Store!Without(StoreDeals, {}) = StoreDeals
  BY WithoutNone DEF StoreDeals
<1>9. \A m : DocumentName(m)' = DocumentName(m)
  BY DEF DocumentName
<1>10. StoreDeals' = Store!Put(StoreDeals, d, Store!NewDeal(n, x))
  <2>1. Store!NewDeal(n, x)
          = [negotiationId |-> n, termsDocumentHash |-> DocumentName(n), buyerAddress |-> x,
             state |-> "PROPOSED_LOCAL", runtimeState |-> "UNSEEN", capabilityToken |-> FALSE,
             capabilityRevoked |-> FALSE, updatedAt |-> 0, order |-> d]
    BY <1>2, <1>3, StoreCardinality DEF Store!NewDeal, Store!NoStatus, StoreQuotes
  <2>2. DOMAIN (StoreDeals') = DOMAIN deals \cup {d} /\ DOMAIN StoreDeals = DOMAIN deals
    BY <1>4 DEF StoreDeals
  <2>3. StoreDeals'[d] = Store!NewDeal(n, x)
    BY <1>4, <1>9, <2>1 DEF StoreDeals
  <2>4. \A e \in DOMAIN deals : StoreDeals'[e] = StoreDeals[e]
    BY <1>4, <1>9 DEF StoreDeals
  <2>5. StoreDeals' = [e \in DOMAIN deals \cup {d} |-> StoreDeals'[e]]
    BY <2>2 DEF StoreDeals
  <2> QED BY <1>2, <2>2, <2>3, <2>4, <2>5 DEF Store!Put
<1>11. StoreNegotiations' = [StoreNegotiations EXCEPT ![n].state = "AGREEMENT_STARTED",
                                                      ![n].dealIds = @ \cup {d}]
  <2>1. \A m : DealsOf(m)' = IF m = n THEN DealsOf(m) \cup {d} ELSE DealsOf(m)
    BY <1>2, <1>4 DEF DealsOf
  <2>2. DOMAIN (StoreNegotiations') = DOMAIN asked /\ DOMAIN StoreNegotiations = DOMAIN asked
    BY DEF StoreNegotiations
  <2>3. StoreNegotiations'[n] = [buyerAgentId |-> asked[n], dealIds |-> DealsOf(n) \cup {d},
                                 state |-> "AGREEMENT_STARTED"]
    BY <1>3, <2>1 DEF StoreNegotiations
  <2>4. \A m \in DOMAIN asked : m # n => StoreNegotiations'[m] = StoreNegotiations[m]
    BY <2>1 DEF StoreNegotiations
  <2>5. [StoreNegotiations[n] EXCEPT !.state = "AGREEMENT_STARTED", !.dealIds = @ \cup {d}]
          = [buyerAgentId |-> asked[n], dealIds |-> DealsOf(n) \cup {d},
             state |-> "AGREEMENT_STARTED"]
    <3>1. PICK s : StoreNegotiations[n] = [buyerAgentId |-> asked[n], dealIds |-> DealsOf(n),
                                           state |-> s]
      BY <1>3 DEF StoreNegotiations
    <3>2. PICK old, before : old = StoreNegotiations[n] /\ before = DealsOf(n)
      OBVIOUS
    <3>3. old = [buyerAgentId |-> asked[n], dealIds |-> before, state |-> s]
      BY <3>1, <3>2
    <3>4. PICK linked : linked = [old EXCEPT !.state = "AGREEMENT_STARTED",
                                             !.dealIds = old.dealIds \cup {d}]
      OBVIOUS
    <3>5. linked = [buyerAgentId |-> asked[n], dealIds |-> before \cup {d},
                    state |-> "AGREEMENT_STARTED"]
      BY <3>3, <3>4
    <3> QED BY <3>2, <3>4, <3>5
  <2> QED BY <1>3, <2>2, <2>3, <2>4, <2>5 DEF StoreNegotiations
<1>12. Store!PruneAndInsert(d, n, x)
  <2>1. Cardinality(DOMAIN deals) < MaxDeals
    BY <1>2, DealConstants
  <2>2. Cardinality(DOMAIN deals)' = Cardinality(DOMAIN deals) + 1
    BY <1>2, <1>4
  <2> QED BY <1>7, <1>8, <1>10, <1>11, <2>1, <2>2, UnlinkedNone DEF Store!PruneAndInsert
<1>13. StoreQuotes' = StoreQuotes /\ StorePreparing' = StorePreparing
  BY <1>9 DEF StoreQuotes, StorePreparing
<1>14. Store!Propose(d, n, c, x)
  BY <1>2, <1>4, <1>6, <1>12, <1>13 DEF Store!Propose
<1> QED BY <1>2, <1>3, <1>6, <1>14

(* The acceptance-request kind is accept(). *)
LEMMA AcceptIsAccept ==
    ASSUME DealInv, NEW d \in DOMAIN deals, NEW sig, MayAccept(d, sig), Accept(d),
           UNCHANGED <<corpus, asked, quotes, minted, preparing, clock>>
    PROVE  d \in DealIds /\ Store!Accept(d, TRUE)
<1>1. /\ DOMAIN deals' = DOMAIN deals
      /\ deals[d].state = "PROPOSED_LOCAL"
      /\ \A e \in DOMAIN deals \ {d} : deals'[e] = deals[e]
      /\ deals'[d].negotiationId = deals[d].negotiationId
  BY AcceptFacts
<1>2. /\ deals'[d].state = "ACCEPTED_LOCAL" /\ deals'[d].buyerAddress = deals[d].buyerAddress
      /\ deals'[d].capability = deals[d].capability
  <2>1. DealTyped(deals[d])
    BY DEF DealInv, DealsInv
  <2>2. deals'[d] = [deals[d] EXCEPT !.contract = Countersigned(deals[d].contract),
                                     !.state = "ACCEPTED_LOCAL"]
    BY DEF Accept
  <2> QED BY <2>1, <2>2 DEF DealTyped
<1>3. /\ StoreNegotiations' = StoreNegotiations /\ StoreQuotes' = StoreQuotes
      /\ \A n : DocumentName(n)' = DocumentName(n)
      /\ DOMAIN (StoreDeals') = DOMAIN StoreDeals
  BY <1>1, DealsChange
<1>4. StoreDeals' = [StoreDeals EXCEPT ![d].updatedAt = 0, ![d].state = "ACCEPTED_LOCAL"]
  <2>1. \A e \in DOMAIN deals \ {d} : StoreDeals'[e] = StoreDeals[e]
    BY <1>1, <1>3 DEF StoreDeals
  <2>2. PICK new : new = [StoreDeals[d] EXCEPT !.updatedAt = 0, !.state = "ACCEPTED_LOCAL"]
    OBVIOUS
  <2>3. StoreDeals'[d] = new
    <3>1. PICK token : token = (deals[d].capability # 0)
      OBVIOUS
    <3>2. StoreDeals[d] = StoreRecord(deals[d], DocumentName(deals[d].negotiationId), token, d)
      BY <3>1 DEF StoreDeals, StoreRecord
    <3>3. StoreDeals'[d] = StoreRecord(deals'[d], DocumentName(deals[d].negotiationId), token, d)
      BY <1>1, <1>2, <1>3, <3>1 DEF StoreDeals, StoreRecord
    <3>4. PICK name, old, r : /\ name = DocumentName(deals[d].negotiationId)
                              /\ old = deals[d] /\ r = deals'[d]
      OBVIOUS
    <3>5. /\ r.state = "ACCEPTED_LOCAL" /\ r.negotiationId = old.negotiationId
          /\ r.buyerAddress = old.buyerAddress
      BY <1>1, <1>2, <3>4
    <3>6. new = [StoreRecord(old, name, token, d) EXCEPT !.updatedAt = 0, !.state = "ACCEPTED_LOCAL"]
      BY <2>2, <3>2, <3>4
    <3>7. new = StoreRecord(r, name, token, d)
      BY <3>5, <3>6 DEF StoreRecord
    <3> QED BY <3>3, <3>4, <3>7
  <2>4. StoreDeals' = [StoreDeals EXCEPT ![d] = new]
    BY <1>1, <2>1, <2>3, ReplacedDeal
  <2> QED BY <2>2, <2>4
<1>5. StorePreparing' = StorePreparing
  BY DEF StorePreparing
<1> QED BY <1>1, <1>3, <1>4, <1>5, StoreDealFacts DEF Store!Accept

(* The request-delivery kind is prepareDelivery() up to its await. *)
LEMMA HandleIsPrepare ==
    ASSUME DealInv, NEW d \in DOMAIN deals, MayPrepare(d), NEW capability, NEW caller,
           preparing' = preparing
              \cup {[dealId |-> d, capability |-> capability, caller |-> caller]},
           UNCHANGED <<asked, quotes, deals>>
    PROVE  d \in DealIds /\ Store!PrepareDelivery(d)
<1>1. StorePreparing' = StorePreparing \cup {[dealId |-> d, order |-> d]}
  <2>1. PICK p : p = [dealId |-> d, capability |-> capability, caller |-> caller]
    OBVIOUS
  <2>2. preparing' = preparing \cup {p} /\ p.dealId = d
    BY <2>1
  <2> QED BY <2>2 DEF StorePreparing
<1>2. /\ StoreNegotiations' = StoreNegotiations /\ StoreQuotes' = StoreQuotes
      /\ \A n : DocumentName(n)' = DocumentName(n)
  BY DealsChange
<1>3. StoreDeals' = StoreDeals
  BY <1>2 DEF StoreDeals
<1>4. deals[d].state # "PROPOSED_LOCAL"
  BY DEF MayPrepare
<1> QED BY <1>1, <1>2, <1>3, <1>4, StoreDealFacts DEF Store!PrepareDelivery

(* And its rest, when the artifact is stored. *)
LEMMA PreparedIsPrepared ==
    ASSUME DealInv, NEW p \in preparing, DeliveryPrepared(p)
    PROVE  \E q \in StorePreparing : Store!DeliveryPrepared(q)
<1>1. PICK d : d = p.dealId
  OBVIOUS
<1>2. PICK q : q = [dealId |-> d, order |-> d]
  OBVIOUS
<1>3. /\ PreparingOK(p)
      /\ UNCHANGED <<asked, quotes>>
      /\ DOMAIN deals' = DOMAIN deals
      /\ \A e \in DOMAIN deals \ {d} : deals'[e] = deals[e]
      /\ deals'[d].negotiationId = deals[d].negotiationId
      /\ deals'[d].buyerAddress = deals[d].buyerAddress
      /\ deals'[d].state = "DELIVERED_LOCAL"
      /\ deals'[d].capability = p.capability
  BY <1>1, PreparedFacts
<1>4. d \in DOMAIN deals /\ p.capability # 0
  BY <1>1, <1>3, DealConstants DEF PreparingOK, DealInv, WireInv
<1>5. /\ StoreNegotiations' = StoreNegotiations /\ StoreQuotes' = StoreQuotes
      /\ \A n : DocumentName(n)' = DocumentName(n)
      /\ DOMAIN (StoreDeals') = DOMAIN StoreDeals
  BY <1>3, DealsChange
<1>6. StoreDeals' = [StoreDeals EXCEPT ![d] =
         [@ EXCEPT !.capabilityToken = TRUE, !.state = "DELIVERED_LOCAL", !.updatedAt = 0]]
  <2>1. \A e \in DOMAIN deals \ {d} : StoreDeals'[e] = StoreDeals[e]
    BY <1>3, <1>5 DEF StoreDeals
  <2>2. PICK new : new = [StoreDeals[d] EXCEPT !.capabilityToken = TRUE,
                                               !.state = "DELIVERED_LOCAL", !.updatedAt = 0]
    OBVIOUS
  <2>3. StoreDeals'[d] = new
    <3>1. PICK token : token = (deals[d].capability # 0)
      OBVIOUS
    <3>2. StoreDeals[d] = StoreRecord(deals[d], DocumentName(deals[d].negotiationId), token, d)
      BY <1>4, <3>1 DEF StoreDeals, StoreRecord
    <3>3. StoreDeals'[d] = StoreRecord(deals'[d], DocumentName(deals[d].negotiationId), TRUE, d)
      BY <1>3, <1>4, <1>5 DEF StoreDeals, StoreRecord
    <3>4. PICK name, old, r : /\ name = DocumentName(deals[d].negotiationId)
                              /\ old = deals[d] /\ r = deals'[d]
      OBVIOUS
    <3>5. /\ r.state = "DELIVERED_LOCAL" /\ r.negotiationId = old.negotiationId
          /\ r.buyerAddress = old.buyerAddress
      BY <1>3, <3>4
    <3>6. new = [StoreRecord(old, name, token, d) EXCEPT !.capabilityToken = TRUE,
                         !.state = "DELIVERED_LOCAL", !.updatedAt = 0]
      BY <2>2, <3>2, <3>4
    <3>7. new = StoreRecord(r, name, TRUE, d)
      BY <3>5, <3>6 DEF StoreRecord
    <3> QED BY <3>3, <3>4, <3>7
  <2>4. StoreDeals' = [StoreDeals EXCEPT ![d] = new]
    BY <1>3, <1>4, <2>1, <2>3, ReplacedDeal
  <2> QED BY <2>2, <2>4
<1>7. q \in StorePreparing /\ StorePreparing' \in {StorePreparing, StorePreparing \ {q}}
  <2>1. q \in StorePreparing
    BY <1>1, <1>2 DEF StorePreparing
  <2>2. preparing' = preparing \ {p}
    BY DEF DeliveryPrepared
  <2>3. StorePreparing' \subseteq StorePreparing
    BY <2>2 DEF StorePreparing
  <2>4. StorePreparing \ {q} \subseteq StorePreparing'
    BY <1>1, <1>2, <2>2 DEF StorePreparing
  <2> QED BY <2>1, <2>3, <2>4
<1>8. Store!DeliveryPrepared(q)
  BY <1>2, <1>3, <1>4, <1>5, <1>6, <1>7, StoreDealFacts DEF Store!DeliveryPrepared
<1> QED BY <1>7, <1>8
-----------------------------------------------------------------------------
(* Every step is a step of the store, or leaves it alone. *)
LEMMA NextIsNext ==
    ASSUME WithinCaps, DealInv, [Next]_vars
    PROVE  [Store!Next]_(Store!vars)
<1> USE DEF Store!Next
<1>1. ASSUME UNCHANGED <<asked, quotes, deals, preparing>>
      PROVE  [Store!Next]_(Store!vars)
  BY <1>1, StoreStutters
<1>2. ASSUME NEW x \in Callers, NEW body \in Bodies[x], status = "serving", Query(x, body),
             Len(asked) < MaxNegotiations, UNCHANGED <<status, corpus, deals, preparing>>
      PROVE  Store!Next
  BY <1>2, QueryIsQuote
<1>3. ASSUME NEW d, NEW n, NEW contract, NEW x \in Callers, SubmitProposal(d, n, contract, x),
             UNCHANGED <<asked, quotes, preparing>>
      PROVE  Store!Next
  BY <1>3, SubmitIsPropose
<1>4. ASSUME NEW d \in DOMAIN deals, NEW sig, MayAccept(d, sig), Accept(d),
             UNCHANGED <<corpus, asked, quotes, minted, preparing, clock>>
      PROVE  Store!Next
  <2>1. d \in DealIds /\ Store!Accept(d, TRUE)
    BY <1>4, AcceptIsAccept
  <2> QED BY <2>1 DEF Store!DealIds
<1> USE DEF Callers
<1>5. ASSUME NEW b \in Buyers, NEW body \in Bodies[b], BuyerAsks(b, body)
      PROVE  [Store!Next]_(Store!vars)
  <2>1. CASE QuoteThrows(body, corpus)
    BY <1>1, <1>5, <2>1 DEF BuyerAsks
  <2>2. CASE ~QuoteThrows(body, corpus)
    BY <1>2, <1>5, <2>2 DEF BuyerAsks
  <2> QED BY <2>1, <2>2
<1>6. ASSUME NEW x \in Strangers, NEW body \in Bodies[x], StrangerAsks(x, body)
      PROVE  Store!Next
  BY <1>2, <1>6 DEF StrangerAsks
<1>7. ASSUME NEW b \in Buyers, NEW d \in DealIds, BuyerProposes(b, d)
      PROVE  Store!Next
  BY <1>3, <1>7 DEF BuyerProposes
<1>8. ASSUME NEW x \in Strangers, NEW n, NEW d, StrangerProposes(x, n, d)
      PROVE  Store!Next
  <2>1. PICK contract : SubmitProposal(d, n, contract, x)
    BY <1>8 DEF StrangerProposes
  <2> QED BY <1>3, <1>8, <2>1 DEF StrangerProposes
<1>9. ASSUME NEW b \in Buyers, BuyerRequestsAcceptance(b)
      PROVE  [Store!Next]_(Store!vars)
  <2> DEFINE d == session[b].d
             sig == AgreementSig(b, d, deals[d].contract.terms)
  <2>1. d \in DOMAIN deals
    BY <1>9 DEF BuyerRequestsAcceptance, DealInv, SessionsInv, SessionTyped
  <2>2. CASE MayAccept(d, sig)
    <3>1. Accept(d) /\ UNCHANGED <<corpus, asked, quotes, minted, preparing, clock>>
      BY <1>9, <2>2 DEF BuyerRequestsAcceptance
    <3> QED BY <1>4, <2>1, <2>2, <3>1
  <2>3. CASE ~MayAccept(d, sig)
    BY <1>1, <1>9, <2>3 DEF BuyerRequestsAcceptance
  <2> QED BY <2>2, <2>3
<1>10. ASSUME NEW x \in Callers, NEW d \in DealIds, RepeatAcceptance(x, d)
       PROVE  Store!Next
  BY <1>4, <1>10 DEF RepeatAcceptance
<1>11. ASSUME NEW r \in requests, HandleDeliveryRequest(r)
       PROVE  [Store!Next]_(Store!vars)
  <2>1. CASE UNCHANGED <<minted, preparing>>
    BY <1>1, <1>11, <2>1 DEF HandleDeliveryRequest
  <2>2. CASE /\ MayPrepare(r.dealId)
             /\ preparing' = preparing \cup
                  {[dealId |-> r.dealId, capability |-> minted + 1, caller |-> r.caller]}
    <3>1. r.dealId \in DOMAIN deals
      BY DEF DealInv, WireInv, RequestOK
    <3>2. r.dealId \in DealIds /\ Store!PrepareDelivery(r.dealId)
      BY <1>11, <2>2, <3>1, HandleIsPrepare DEF HandleDeliveryRequest
    <3> QED BY <3>2 DEF Store!DealIds
  <2> QED BY <1>11, <2>1, <2>2 DEF HandleDeliveryRequest
<1>12. ASSUME NEW p \in preparing, DeliveryPrepared(p)
       PROVE  Store!Next
  BY <1>12, PreparedIsPrepared
<1>13. CASE \/ \E file \in Files : Boot(file)
            \/ \E b \in Buyers : \/ BuyerRequestsDelivery(b)
                                \/ BuyerFetchesManifest(b)
                                \/ BuyerVerifies(b)
            \/ \E x \in Strangers, d \in DealIds : StrangerRequestsDelivery(x, d)
            \/ Tick
            \/ UNCHANGED vars
  BY <1>1, <1>13 DEF Boot, BuyerRequestsDelivery, BuyerFetchesManifest, BuyerVerifies,
                     StrangerRequestsDelivery, Tick, vars
<1> HIDE DEF Store!Next, Callers
<1> QED BY <1>5, <1>6, <1>7, <1>8, <1>9, <1>10, <1>11, <1>12, <1>13 DEF Next

(* The deals of the executor are deals of the store: within the caps every *)
(* behaviour of DataDeal is, by the names of its documents, a behaviour of *)
(* the DataSeller's methods.                                               *)
THEOREM DealImplementsStore ==
    ASSUME WithinCaps
    PROVE  Spec => ImplementsStore
<1>1. Init => Store!Init
  BY InitIsInit
<1>2. DealInv /\ [Next]_vars => [Store!Next]_(Store!vars)
  BY NextIsNext
<1> QED BY <1>1, <1>2, AlwaysDeal, PTL DEF Spec, ImplementsStore, Store!Spec
=============================================================================
