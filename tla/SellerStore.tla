----------------------------- MODULE SellerStore -----------------------------
(***************************************************************************)
(* The data seller's in-memory store (class DataSeller): negotiations,     *)
(* quotes and deals, the two prunes that keep them bounded, and every      *)
(* method that changes them.  JavaScript runs each method to completion,   *)
(* so a method is one action; prepareDelivery awaits the generator and is  *)
(* two.                                                                    *)
(*                                                                         *)
(* Abstracted: a terms document, a buyer and an address are members of     *)
(* small sets; the history of a deal is kept only through updatedAt, the   *)
(* one thing the store reads back from it; a Map's insertion order is the  *)
(* numeric order of negotiation ids and the field `order' of a deal.       *)
(***************************************************************************)
EXTENDS Integers, FiniteSets, Functions, AgreementTable

CONSTANTS
    Buyers,             \* buyerAgentId
    Addresses,          \* buyerAddress
    Documents,          \* termsDocumentHash
    NoDocument,         \* termsDocumentHash === undefined
    LocalDealIds,       \* ids propose() draws at random
    LiveDealIds,        \* ids a Runtime assigned, presented to registerLiveDeal()
    Reports,            \* the Runtime states that are reported to the store
    MaxOpenNegotiations,    \* MAX_OPEN_NEGOTIATIONS (1024 in the code)
    MaxReclaimableDeals,    \* MAX_RECLAIMABLE_DEALS (1024 in the code)
    ReclaimableDealTTL,     \* RECLAIMABLE_DEAL_TTL_MS (15 minutes in the code)
    MaxQuotes,          \* bound on the calls of quote()
    MaxInserts,         \* bound on the deals ever inserted
    MaxClock            \* bound on the clock

NoStatus == "UNSEEN"          \* runtimeState === undefined

ASSUME StoreConstants ==
    /\ MaxOpenNegotiations \in Nat \ {0}
    /\ MaxReclaimableDeals \in Nat \ {0}
    /\ ReclaimableDealTTL \in Nat
    /\ MaxQuotes \in Nat /\ MaxInserts \in Nat /\ MaxClock \in Nat
    /\ LocalDealIds \cap LiveDealIds = {}
    /\ NoDocument \notin Documents
    /\ Reports \subseteq AgreementStates

VARIABLES
    negotiations,   \* negotiation id -> NegotiationRecord
    quotes,         \* negotiation id -> QuoteRecord
    deals,          \* deal id -> DealRecord
    issued,         \* number of negotiations ever issued; the next id is issued + 1
    drawn,          \* local deal ids already drawn (random ids do not repeat)
    inserted,       \* number of deals ever inserted
    preparing,      \* prepareDelivery calls awaiting the generator
    clock

vars == <<negotiations, quotes, deals, issued, drawn, inserted, preparing, clock>>

DealIds == LocalDealIds \cup LiveDealIds

NegotiationRecord ==
    [buyerAgentId : Buyers, state : {"REFUSED", "QUOTED", "AGREEMENT_STARTED"},
     dealIds : SUBSET DealIds]

QuoteRecord == [buyerAgentId : Buyers, termsDocumentHash : Documents]

DealRecord ==
    [negotiationId : Nat, termsDocumentHash : Documents, buyerAddress : Addresses,
     state : {"PROPOSED_LOCAL", "ACCEPTED_LOCAL", "DELIVERED_LOCAL"},
     runtimeState : Reports \cup {NoStatus},
     capabilityToken : BOOLEAN, capabilityRevoked : BOOLEAN,
     updatedAt : Nat, order : Nat]

PrepareCall == [dealId : DealIds, order : Nat]

(* What a buyer's contract says to the store: the terms document it pins   *)
(* in acceptanceCriteria and the buyerAgentId it names.                    *)
Contracts == [document : Documents, buyerAgentId : Buyers]

Init ==
    /\ negotiations = << >>
    /\ quotes = << >>
    /\ deals = << >>
    /\ issued = 0
    /\ drawn = {}
    /\ inserted = 0
    /\ preparing = {}
    /\ clock = 0

-----------------------------------------------------------------------------
(* Map.set and Map.delete. *)
Put(f, k, v) == [x \in DOMAIN f \cup {k} |-> IF x = k THEN v ELSE f[x]]
Without(f, S) == Restrict(f, DOMAIN f \ S)

(* The oldest members of S by the numbering num, n of them (all, if fewer). *)
Oldest(S, num, n) == {x \in S : Cardinality({y \in S : num[y] < num[x]}) < n}

Referenced(ds) == {ds[d].negotiationId : d \in DOMAIN ds}

(* Mutants of the definition that follows: pins ignored, and the   *)
(* negotiation being answered not kept.                                    *)
EvictedIgnoringDeals(negs, ds, justIssued) ==
    LET free == DOMAIN negs \ {justIssued}
    IN  Oldest(free, [n \in free |-> n],
               Cardinality(DOMAIN negs) - MaxOpenNegotiations)

EvictedWithJustIssued(negs, ds, justIssued) ==
    LET free == DOMAIN negs \ Referenced(ds)
    IN  Oldest(free, [n \in free |-> n],
               Cardinality(DOMAIN negs) - MaxOpenNegotiations)

(* The negotiations pruneNegotiations deletes: oldest first, down to the   *)
(* cap, none that a deal resolves through and not the one just issued.     *)
Evicted(negs, ds, justIssued) ==
    LET free == DOMAIN negs \ (Referenced(ds) \cup {justIssued})
    IN  Oldest(free, [n \in free |-> n],
               Cardinality(DOMAIN negs) - MaxOpenNegotiations)

IsReclaimableDeal(deal) ==
    /\ deal.runtimeState \in {NoStatus, "PROPOSED", "EXPIRED", "CANCELLED"}
    /\ deal.state \in {"PROPOSED_LOCAL", "ACCEPTED_LOCAL"}

(* Mutant: prunes to the cap, forgetting the insert that follows. *)
ReclaimedToCap ==
    LET reclaimable == {d \in DOMAIN deals : IsReclaimableDeal(deals[d])}
        stale == {d \in reclaimable : clock - deals[d].updatedAt > ReclaimableDealTTL}
        fresh == reclaimable \ stale
    IN  stale \cup Oldest(fresh, [d \in fresh |-> deals[d].order],
                          Cardinality(fresh) - MaxReclaimableDeals)

(* The deals pruneDeals deletes: the reclaimable ones past their time to   *)
(* live, then the oldest of the rest down to one below the cap.            *)
Reclaimed ==
    LET reclaimable == {d \in DOMAIN deals : IsReclaimableDeal(deals[d])}
        stale == {d \in reclaimable : clock - deals[d].updatedAt > ReclaimableDealTTL}
        fresh == reclaimable \ stale
    IN  stale \cup Oldest(fresh, [d \in fresh |-> deals[d].order],
                          Cardinality(fresh) - (MaxReclaimableDeals - 1))

(* Mutant: the negotiation is not reopened. *)
UnlinkedNotReopened(gone) ==
    [n \in DOMAIN negotiations |->
        [negotiations[n] EXCEPT
            !.dealIds = @ \ {d \in gone : deals[d].negotiationId = n}]]

(* deleteDeal's other half: the negotiation forgets the deal, and is open  *)
(* for another proposal once it has none left.                             *)
Unlinked(gone) ==
    [n \in DOMAIN negotiations |->
        LET lost == {d \in gone : deals[d].negotiationId = n}
            left == negotiations[n].dealIds \ lost
        IN  IF lost = {} THEN negotiations[n]
            ELSE [negotiations[n] EXCEPT !.dealIds = left,
                     !.state = IF left = {} THEN "QUOTED" ELSE @]]

-----------------------------------------------------------------------------
(* Mutant: the evicted negotiation leaves its quote behind. *)
QuoteKeepingOrphan(b, document) ==
    /\ issued < MaxQuotes
    /\ LET n == issued + 1
           accepted == document # NoDocument
           negs == Put(negotiations, n,
                       [buyerAgentId |-> b, dealIds |-> {},
                        state |-> IF accepted THEN "QUOTED" ELSE "REFUSED"])
       IN  /\ issued' = n
           /\ negotiations' = Without(negs, Evicted(negs, deals, n))
           /\ quotes' = IF accepted
                        THEN Put(quotes, n, [buyerAgentId |-> b,
                                             termsDocumentHash |-> document])
                        ELSE quotes
    /\ UNCHANGED <<deals, drawn, inserted, preparing, clock>>

(* quote(): a negotiation is recorded whatever the answer; a quote only    *)
(* for a query the seller accepts and can price.  Then the prune.          *)
Quote(b, document) ==
    /\ issued < MaxQuotes
    /\ LET n == issued + 1
           accepted == document # NoDocument
           negs == Put(negotiations, n,
                       [buyerAgentId |-> b, dealIds |-> {},
                        state |-> IF accepted THEN "QUOTED" ELSE "REFUSED"])
           qs == IF accepted
                 THEN Put(quotes, n, [buyerAgentId |-> b, termsDocumentHash |-> document])
                 ELSE quotes
           out == Evicted(negs, deals, n)
       IN  /\ issued' = n
           /\ negotiations' = Without(negs, out)
           /\ quotes' = Without(qs, out)
    /\ UNCHANGED <<deals, drawn, inserted, preparing, clock>>

(* selectedQuote(): the contract selects the quote of negotiation n. *)
Selects(n, contract) ==
    /\ n \in DOMAIN quotes
    /\ contract.document = quotes[n].termsDocumentHash
    /\ contract.buyerAgentId = quotes[n].buyerAgentId

NewDeal(n, address) ==
    [negotiationId |-> n, termsDocumentHash |-> quotes[n].termsDocumentHash,
     buyerAddress |-> address, state |-> "PROPOSED_LOCAL", runtimeState |-> NoStatus,
     capabilityToken |-> FALSE, capabilityRevoked |-> FALSE,
     updatedAt |-> clock, order |-> inserted + 1]

(* The deals and negotiations after pruneDeals(). *)
PruneDeals ==
    /\ deals' = Without(deals, Reclaimed)
    /\ negotiations' = Unlinked(Reclaimed)
    /\ UNCHANGED inserted

(* pruneDeals(), then the new deal d and linkNegotiation(). *)
PruneAndInsert(d, n, address) ==
    LET negs == Unlinked(Reclaimed)
    IN  /\ inserted < MaxInserts
        /\ inserted' = inserted + 1
        /\ deals' = Put(Without(deals, Reclaimed), d, NewDeal(n, address))
        /\ negotiations' = [negs EXCEPT ![n].state = "AGREEMENT_STARTED",
                                        ![n].dealIds = @ \cup {d}]

(* propose(): the prune runs even when the contract selects no quote.      *)
Propose(d, n, contract, address) ==
    /\ d \in LocalDealIds \ drawn
    /\ IF Selects(n, contract)
       THEN PruneAndInsert(d, n, address) /\ drawn' = drawn \cup {d}
       ELSE PruneDeals /\ UNCHANGED drawn
    /\ UNCHANGED <<quotes, issued, preparing, clock>>

(* Mutant: a retry rebuilds the record. *)
RegisterLiveDealAfresh(d, n, contract, address) ==
    /\ IF Selects(n, contract) THEN PruneAndInsert(d, n, address) ELSE PruneDeals
    /\ UNCHANGED <<quotes, issued, drawn, preparing, clock>>

(* registerLiveDeal(): a retry for a deal that survived the prune returns  *)
(* the record as it is, or throws when it presents another proposal.       *)
RegisterLiveDeal(d, n, contract, address) ==
    /\ IF Selects(n, contract) /\ d \notin DOMAIN deals \ Reclaimed
       THEN PruneAndInsert(d, n, address)
       ELSE PruneDeals
    /\ UNCHANGED <<quotes, issued, drawn, preparing, clock>>

(* accept(): the request and its outcome are recorded; acceptTerms either  *)
(* refuses or countersigns.  The contract it countersigns carries exactly  *)
(* one signature: a retry presents its own in live mode, while standalone  *)
(* mode presents the stored one, which has two once it was accepted.       *)
Accept(d, valid) ==
    /\ d \in DOMAIN deals
    /\ deals[d].negotiationId \in DOMAIN quotes
    /\ valid => d \in LiveDealIds \/ deals[d].state = "PROPOSED_LOCAL"
    /\ deals' = [deals EXCEPT ![d].updatedAt = clock,
                              ![d].state = IF valid THEN "ACCEPTED_LOCAL" ELSE @]
    /\ UNCHANGED <<negotiations, quotes, issued, drawn, inserted, preparing, clock>>

(* observeRuntimeStatus(): only a change is recorded. *)
ObserveRuntimeStatus(d, s) ==
    /\ d \in LiveDealIds \cap DOMAIN deals
    /\ deals' = [deals EXCEPT ![d].runtimeState = s,
                    ![d].updatedAt = IF deals[d].runtimeState # s THEN clock ELSE @]
    /\ UNCHANGED <<negotiations, quotes, issued, drawn, inserted, preparing, clock>>

(* recordInteraction(), as the handlers of the other modules call it. *)
RecordInteraction(d) ==
    /\ d \in DOMAIN deals
    /\ deals' = [deals EXCEPT ![d].updatedAt = clock]
    /\ UNCHANGED <<negotiations, quotes, issued, drawn, inserted, preparing, clock>>

(* prepareDelivery() up to its await: the call holds on to the record, so  *)
(* it is remembered with the record's order, not only with its id.         *)
PrepareDelivery(d) ==
    /\ d \in DOMAIN deals
    /\ deals[d].state # "PROPOSED_LOCAL"
    /\ deals[d].negotiationId \in DOMAIN quotes
    /\ preparing' = preparing \cup {[dealId |-> d, order |-> deals[d].order]}
    /\ UNCHANGED <<negotiations, quotes, deals, issued, drawn, inserted, clock>>

(* Mutant: the fresh token comes with a fresh, unrevoked capability. *)
DeliveryPreparedUnrevoked(p) ==
    /\ p \in preparing
    /\ preparing' \in {preparing, preparing \ {p}}
    /\ p.dealId \in DOMAIN deals
    /\ deals' = [deals EXCEPT ![p.dealId].capabilityToken = TRUE,
                              ![p.dealId].capabilityRevoked = FALSE,
                              ![p.dealId].state = "DELIVERED_LOCAL"]
    /\ UNCHANGED <<negotiations, quotes, issued, drawn, inserted, clock>>

(* Mutant: the token is stored under the id, whatever is left there. *)
DeliveryPreparedStored(p) ==
    /\ p \in preparing
    /\ preparing' \in {preparing, preparing \ {p}}
    /\ deals' = Put(deals, p.dealId, [capabilityToken |-> TRUE, order |-> p.order])
    /\ UNCHANGED <<negotiations, quotes, issued, drawn, inserted, clock>>

(* The generator answered.  A record deleted meanwhile gets its token off  *)
(* the store, and recordInteraction throws, or touches the record that     *)
(* took its id.  More than one call may be running for one record.         *)
DeliveryPrepared(p) ==
    /\ p \in preparing
    /\ preparing' \in {preparing, preparing \ {p}}
    /\ \/ /\ p.dealId \in DOMAIN deals
          /\ deals' = [deals EXCEPT ![p.dealId] =
                IF deals[p.dealId].order = p.order
                THEN [@ EXCEPT !.capabilityToken = TRUE, !.state = "DELIVERED_LOCAL",
                               !.updatedAt = clock]
                ELSE [@ EXCEPT !.updatedAt = clock]]
       \/ p.dealId \notin DOMAIN deals /\ UNCHANGED deals
    /\ UNCHANGED <<negotiations, quotes, issued, drawn, inserted, clock>>

(* The generator threw. *)
DeliveryFailed(p) ==
    /\ p \in preparing
    /\ preparing' = preparing \ {p}
    /\ UNCHANGED <<negotiations, quotes, deals, issued, drawn, inserted, clock>>

(* revokeCapability(), called for a deal of the live coordinator. *)
RevokeCapability(d) ==
    /\ d \in LiveDealIds \cap DOMAIN deals
    /\ ~deals[d].capabilityRevoked
    /\ deals' = [deals EXCEPT ![d].capabilityRevoked = TRUE, ![d].updatedAt = clock]
    /\ UNCHANGED <<negotiations, quotes, issued, drawn, inserted, preparing, clock>>

Tick ==
    /\ clock < MaxClock
    /\ clock' = clock + 1
    /\ UNCHANGED <<negotiations, quotes, deals, issued, drawn, inserted, preparing>>

Next ==
    \/ \E b \in Buyers, document \in Documents \cup {NoDocument} : Quote(b, document)
    \/ \E n \in 1..issued, contract \in Contracts, address \in Addresses :
          \/ \E d \in LocalDealIds : Propose(d, n, contract, address)
          \/ \E d \in LiveDealIds : RegisterLiveDeal(d, n, contract, address)
    \/ \E d \in DealIds :
          \/ \E valid \in BOOLEAN : Accept(d, valid)
          \/ \E s \in Reports : ObserveRuntimeStatus(d, s)
          \/ RecordInteraction(d)
          \/ PrepareDelivery(d)
          \/ RevokeCapability(d)
    \/ \E p \in preparing : DeliveryPrepared(p) \/ DeliveryFailed(p)
    \/ Tick

Spec == Init /\ [][Next]_vars
-----------------------------------------------------------------------------
(* Type invariant of the three maps and of the calls in progress. *)
TypeOK ==
    /\ DOMAIN negotiations \subseteq 1..issued
    /\ \A n \in DOMAIN negotiations : negotiations[n] \in NegotiationRecord
    /\ DOMAIN quotes \subseteq 1..issued
    /\ \A n \in DOMAIN quotes : quotes[n] \in QuoteRecord
    /\ DOMAIN deals \subseteq DealIds
    /\ \A d \in DOMAIN deals : deals[d] \in DealRecord
    /\ issued \in Nat /\ inserted \in Nat /\ clock \in Nat
    /\ drawn \subseteq LocalDealIds
    /\ preparing \subseteq PrepareCall

(* Negotiations and quotes are evicted under load while deals come and go: *)
(* every deal in the store still resolves to the quote it was proposed     *)
(* under, so accept() and prepareDelivery() never miss it.                 *)
DealsResolve ==
    \A d \in DOMAIN deals :
        LET n == deals[d].negotiationId
        IN  /\ n \in DOMAIN quotes
            /\ quotes[n].termsDocumentHash = deals[d].termsDocumentHash

(* The links are kept from both ends through every insert and prune: a     *)
(* negotiation lists exactly the deals that name it, and it says that an   *)
(* agreement was started exactly while it lists one.                       *)
LinksAgree ==
    /\ \A d \in DOMAIN deals : deals[d].negotiationId \in DOMAIN negotiations
    /\ \A n \in DOMAIN negotiations :
        /\ negotiations[n].dealIds = {d \in DOMAIN deals : deals[d].negotiationId = n}
        /\ negotiations[n].state = "AGREEMENT_STARTED" <=> negotiations[n].dealIds # {}

(* The two maps keyed by negotiation id are evicted together: a quote is   *)
(* held exactly for the open negotiations that were not refused, and for   *)
(* the same buyer.                                                         *)
QuotesFollowNegotiations ==
    /\ DOMAIN quotes = {n \in DOMAIN negotiations : negotiations[n].state # "REFUSED"}
    /\ \A n \in DOMAIN quotes : quotes[n].buyerAgentId = negotiations[n].buyerAgentId

(* What quote() leaves behind is bounded by the cap, or by the deals that  *)
(* pin their quotes plus the negotiation being answered, and that one is   *)
(* never its own victim.                                                   *)
QuoteStaysWithinCap ==
    [][issued' # issued =>
        /\ issued' \in DOMAIN negotiations'
        /\ \/ Cardinality(DOMAIN negotiations') <= MaxOpenNegotiations
           \/ Cardinality(DOMAIN negotiations') <= Cardinality(Referenced(deals)) + 1]_vars

(* After an insert the reclaimable deals number at most the cap, however   *)
(* many became reclaimable since the last prune.                           *)
InsertStaysWithinCap ==
    [][inserted' # inserted =>
        Cardinality({d \in DOMAIN deals' : IsReclaimableDeal(deals'[d])})
            <= MaxReclaimableDeals]_vars

(* A deal that advanced past formation is neither reclaimed by a prune nor *)
(* rebuilt or re-pointed by a retry of its registration.                   *)
AdvancedDealStays ==
    [][\A d \in DOMAIN deals :
        ~IsReclaimableDeal(deals[d]) =>
            /\ d \in DOMAIN deals'
            /\ deals'[d].order = deals[d].order
            /\ deals'[d].negotiationId = deals[d].negotiationId
            /\ deals'[d].buyerAddress = deals[d].buyerAddress]_vars

(* Revocation is final: no later delivery attempt hands out access to the  *)
(* same record again, although each attempt mints a fresh token.           *)
RevocationIsFinal ==
    [][\A d \in DOMAIN deals \cap DOMAIN deals' :
        deals[d].capabilityRevoked /\ deals'[d].order = deals[d].order
            => deals'[d].capabilityRevoked]_vars
=============================================================================
