-------------------------- MODULE SellerStoreProofs --------------------------
(***************************************************************************)
(* Proofs about SellerStore, for any number of buyers, documents and deals *)
(* and any caps.                                                           *)
(*                                                                         *)
(* The three referential invariants need each other, and two facts more:   *)
(* an id propose() may still draw is not in the store, and every record in *)
(* the store is older than the next one to be inserted.  The caps need a   *)
(* third: no two records are of one age.                                   *)
(***************************************************************************)
EXTENDS SellerStore, FiniteSetTheorems, TLAPS

(* Random ids do not repeat: a local deal in the store was drawn. *)
LocalDealsWereDrawn == DOMAIN deals \cap LocalDealIds \subseteq drawn

(* The insertion order of a record never exceeds the number of inserts. *)
OrdersWereIssued == \A d \in DOMAIN deals : deals[d].order \in 1..inserted

Linked == DealsResolve /\ LinksAgree /\ QuotesFollowNegotiations

StoreInv == TypeOK /\ Linked /\ LocalDealsWereDrawn /\ OrdersWereIssued

-----------------------------------------------------------------------------
(* The helpers: Map.set, Map.delete, and what the two prunes may take. *)

(* Map.delete removes the keys and leaves the others. *)
LEMMA WithoutFacts ==
    ASSUME NEW f, NEW S
    PROVE  /\ DOMAIN Without(f, S) = DOMAIN f \ S
           /\ \A x \in DOMAIN f \ S : Without(f, S)[x] = f[x]
  BY DEF Without, Restrict

(* pruneNegotiations deletes no negotiation that a deal resolves through   *)
(* and not the one being answered.                                         *)
LEMMA EvictedFacts ==
    ASSUME NEW negs, NEW ds, NEW n
    PROVE  Evicted(negs, ds, n) \subseteq DOMAIN negs \ (Referenced(ds) \cup {n})
  BY DEF Evicted, Oldest

(* pruneDeals deletes reclaimable deals only. *)
LEMMA ReclaimedFacts ==
    Reclaimed \subseteq {d \in DOMAIN deals : IsReclaimableDeal(deals[d])}
  BY DEF Reclaimed, Oldest

(* deleteDeal leaves every negotiation in place, takes the deleted deals   *)
(* off its list and reopens it when none is left.                          *)
LEMMA UnlinkedFacts ==
    ASSUME TypeOK, LinksAgree, NEW gone, gone \subseteq DOMAIN deals
    PROVE  /\ DOMAIN Unlinked(gone) = DOMAIN negotiations
           /\ \A n \in DOMAIN negotiations :
                /\ Unlinked(gone)[n] \in NegotiationRecord
                /\ Unlinked(gone)[n].buyerAgentId = negotiations[n].buyerAgentId
                /\ Unlinked(gone)[n].dealIds =
                      {d \in DOMAIN deals \ gone : deals[d].negotiationId = n}
                /\ Unlinked(gone)[n].state = "AGREEMENT_STARTED"
                      <=> Unlinked(gone)[n].dealIds # {}
                /\ Unlinked(gone)[n].state = "REFUSED"
                      <=> negotiations[n].state = "REFUSED"
<1>1. DOMAIN Unlinked(gone) = DOMAIN negotiations
  BY DEF Unlinked
<1>2. ASSUME NEW n \in DOMAIN negotiations
      PROVE  /\ Unlinked(gone)[n] \in NegotiationRecord
             /\ Unlinked(gone)[n].buyerAgentId = negotiations[n].buyerAgentId
             /\ Unlinked(gone)[n].dealIds =
                   {d \in DOMAIN deals \ gone : deals[d].negotiationId = n}
             /\ Unlinked(gone)[n].state = "AGREEMENT_STARTED"
                   <=> Unlinked(gone)[n].dealIds # {}
             /\ Unlinked(gone)[n].state = "REFUSED"
                   <=> negotiations[n].state = "REFUSED"
  <2> DEFINE lost == {d \in gone : deals[d].negotiationId = n}
             left == negotiations[n].dealIds \ lost
  <2>1. negotiations[n] \in NegotiationRecord
    BY <1>2 DEF TypeOK
  <2>2. /\ negotiations[n].dealIds = {d \in DOMAIN deals : deals[d].negotiationId = n}
        /\ negotiations[n].state = "AGREEMENT_STARTED" <=> negotiations[n].dealIds # {}
    BY <1>2 DEF LinksAgree
  <2>3. left = {d \in DOMAIN deals \ gone : deals[d].negotiationId = n}
    BY <2>2
  <2>4. CASE lost = {}
    <3>1. Unlinked(gone)[n] = negotiations[n]
      BY <1>2, <2>4 DEF Unlinked
    <3> QED BY <3>1, <2>1, <2>2, <2>3, <2>4
  <2>5. CASE lost # {}
    <3>1. Unlinked(gone)[n] = [negotiations[n] EXCEPT !.dealIds = left,
                                  !.state = IF left = {} THEN "QUOTED" ELSE @]
      BY <1>2, <2>5 DEF Unlinked
    <3>2. negotiations[n].state = "AGREEMENT_STARTED"
      BY <2>2, <2>5
    <3>3. left \subseteq DealIds
      BY <2>1 DEF NegotiationRecord
    <3> QED BY <3>1, <3>2, <3>3, <2>1, <2>3 DEF NegotiationRecord
  <2> QED BY <2>4, <2>5
<1> QED BY <1>1, <1>2

-----------------------------------------------------------------------------
(* The initial state. *)
LEMMA InitStore == Init => StoreInv
<1> SUFFICES ASSUME Init PROVE StoreInv
  OBVIOUS
<1>1. /\ DOMAIN negotiations = {} /\ DOMAIN quotes = {} /\ DOMAIN deals = {}
  BY DEF Init
<1>2. TypeOK
  BY <1>1 DEF Init, TypeOK
<1>3. Linked
  BY <1>1 DEF Linked, DealsResolve, LinksAgree, QuotesFollowNegotiations
<1>4. LocalDealsWereDrawn /\ OrdersWereIssued
  BY <1>1 DEF LocalDealsWereDrawn, OrdersWereIssued
<1> QED BY <1>2, <1>3, <1>4 DEF StoreInv

(* The methods that only touch fields of deals in the store: accept,       *)
(* observeRuntimeStatus, recordInteraction, revokeCapability and the end   *)
(* of prepareDelivery keep the record's identity.                          *)
Touches ==
    /\ DOMAIN deals' = DOMAIN deals
    /\ \A d \in DOMAIN deals :
          /\ deals'[d] \in DealRecord
          /\ deals'[d].negotiationId = deals[d].negotiationId
          /\ deals'[d].termsDocumentHash = deals[d].termsDocumentHash
          /\ deals'[d].buyerAddress = deals[d].buyerAddress
          /\ deals'[d].order = deals[d].order
          /\ deals[d].capabilityRevoked => deals'[d].capabilityRevoked
    /\ UNCHANGED <<negotiations, quotes, issued, drawn, inserted, clock>>

(* Such a step keeps the invariant, given the calls in progress. *)
LEMMA TouchKeepsStore ==
    ASSUME StoreInv, Touches, preparing' \subseteq PrepareCall
    PROVE  StoreInv'
<1>1. TypeOK'
  BY DEF StoreInv, TypeOK, Touches
<1>2. \A n : {d \in DOMAIN deals : deals[d].negotiationId = n}
           = {d \in DOMAIN deals' : deals'[d].negotiationId = n}
  BY DEF Touches
<1>3. Linked'
  <2>1. DealsResolve'
    BY DEF StoreInv, Linked, DealsResolve, Touches
  <2>2. LinksAgree'
    BY <1>2 DEF StoreInv, Linked, LinksAgree, Touches
  <2>3. QuotesFollowNegotiations'
    BY DEF StoreInv, Linked, QuotesFollowNegotiations, Touches
  <2> QED BY <2>1, <2>2, <2>3 DEF Linked
<1>4. LocalDealsWereDrawn' /\ OrdersWereIssued'
  BY DEF StoreInv, LocalDealsWereDrawn, OrdersWereIssued, Touches
<1> QED BY <1>1, <1>3, <1>4 DEF StoreInv

(* The five touching methods are such steps. *)
LEMMA TouchingMethods ==
    ASSUME StoreInv
    PROVE  /\ \A d \in DealIds, valid \in BOOLEAN : Accept(d, valid) => Touches
           /\ \A d \in DealIds, s \in Reports : ObserveRuntimeStatus(d, s) => Touches
           /\ \A d \in DealIds : RecordInteraction(d) => Touches
           /\ \A d \in DealIds : RevokeCapability(d) => Touches
           /\ \A p \in preparing : DeliveryPrepared(p) => Touches
<1> USE DEF StoreInv, TypeOK, DealRecord, Touches
<1>1. \A d \in DealIds, valid \in BOOLEAN : Accept(d, valid) => Touches
  BY DEF Accept
<1>2. \A d \in DealIds, s \in Reports : ObserveRuntimeStatus(d, s) => Touches
  BY DEF ObserveRuntimeStatus
<1>3. \A d \in DealIds : RecordInteraction(d) => Touches
  BY DEF RecordInteraction
<1>4. \A d \in DealIds : RevokeCapability(d) => Touches
  <2> SUFFICES ASSUME NEW d \in DealIds, RevokeCapability(d) PROVE Touches
    OBVIOUS
  <2> DEFINE r == [deals[d] EXCEPT !.capabilityRevoked = TRUE, !.updatedAt = clock]
  <2>1. d \in DOMAIN deals /\ deals' = [deals EXCEPT ![d] = r]
    BY DEF RevokeCapability
  <2>2. /\ r \in DealRecord /\ r.negotiationId = deals[d].negotiationId
        /\ r.termsDocumentHash = deals[d].termsDocumentHash
        /\ r.buyerAddress = deals[d].buyerAddress
        /\ r.order = deals[d].order /\ r.capabilityRevoked = TRUE
    BY <2>1
  <2> HIDE DEF r
  <2> QED BY <2>1, <2>2 DEF RevokeCapability
<1>5. \A p \in preparing : DeliveryPrepared(p) => Touches
  <2> SUFFICES ASSUME NEW p \in preparing, DeliveryPrepared(p) PROVE Touches
    OBVIOUS
  <2>1. CASE p.dealId \notin DOMAIN deals
    BY <2>1 DEF DeliveryPrepared
  <2>2. CASE p.dealId \in DOMAIN deals
    <3> DEFINE d == p.dealId
               r == IF deals[d].order = p.order
                    THEN [deals[d] EXCEPT !.capabilityToken = TRUE,
                             !.state = "DELIVERED_LOCAL", !.updatedAt = clock]
                    ELSE [deals[d] EXCEPT !.updatedAt = clock]
    <3>1. deals' = [deals EXCEPT ![d] = r]
      BY <2>2 DEF DeliveryPrepared
    <3>2. /\ r \in DealRecord /\ r.negotiationId = deals[d].negotiationId
          /\ r.termsDocumentHash = deals[d].termsDocumentHash
          /\ r.buyerAddress = deals[d].buyerAddress
          /\ r.order = deals[d].order
          /\ r.capabilityRevoked = deals[d].capabilityRevoked
      BY <2>2
    <3> HIDE DEF r
    <3> QED BY <2>2, <3>1, <3>2 DEF DeliveryPrepared
  <2> QED BY <2>1, <2>2
<1> QED BY <1>1, <1>2, <1>3, <1>4, <1>5

-----------------------------------------------------------------------------
(* quote(): the fresh negotiation is nobody's, and what the prune deletes  *)
(* no deal resolves through.                                               *)
LEMMA QuoteKeepsStore ==
    ASSUME StoreInv, NEW b \in Buyers, NEW document \in Documents \cup {NoDocument},
           Quote(b, document)
    PROVE  StoreInv'
<1> DEFINE n == issued + 1
           accepted == document # NoDocument
           fresh == [buyerAgentId |-> b, dealIds |-> {},
                     state |-> IF accepted THEN "QUOTED" ELSE "REFUSED"]
           quote == [buyerAgentId |-> b, termsDocumentHash |-> document]
           negs == Put(negotiations, n, fresh)
           qs == IF accepted THEN Put(quotes, n, quote) ELSE quotes
           out == Evicted(negs, deals, n)
<1>1. /\ issued' = n /\ negotiations' = Without(negs, out) /\ quotes' = Without(qs, out)
      /\ UNCHANGED <<deals, drawn, inserted, preparing, clock>>
  BY DEF Quote
<1>2. n \in Nat /\ n \notin DOMAIN negotiations /\ n \notin DOMAIN quotes
  BY DEF StoreInv, TypeOK
<1>3. /\ DOMAIN negs = DOMAIN negotiations \cup {n}
      /\ negs[n] = fresh
      /\ \A m \in DOMAIN negotiations : negs[m] = negotiations[m]
  BY <1>2 DEF Put
<1>4. /\ DOMAIN qs = IF accepted THEN DOMAIN quotes \cup {n} ELSE DOMAIN quotes
      /\ accepted => qs[n] = quote
      /\ \A m \in DOMAIN quotes : qs[m] = quotes[m]
  BY <1>2 DEF Put
<1>5. out \subseteq DOMAIN negs \ (Referenced(deals) \cup {n})
  BY EvictedFacts
<1>6. fresh \in NegotiationRecord
  BY DEF NegotiationRecord
<1>7. accepted => quote \in QuoteRecord
  BY DEF QuoteRecord
<1> HIDE DEF n, accepted, fresh, quote, negs, qs, out
<1>8. /\ DOMAIN negotiations' = DOMAIN negs \ out
      /\ \A m \in DOMAIN negs \ out : negotiations'[m] = negs[m]
      /\ DOMAIN quotes' = DOMAIN qs \ out
      /\ \A m \in DOMAIN qs \ out : quotes'[m] = qs[m]
  BY <1>1, WithoutFacts
<1>9. \A d \in DOMAIN deals : deals[d].negotiationId \in Referenced(deals)
  BY DEF Referenced
<1>10. TypeOK'
  <2>1. DOMAIN negotiations' \subseteq 1..issued' /\ DOMAIN quotes' \subseteq 1..issued'
    BY <1>1, <1>2, <1>3, <1>4, <1>8 DEF StoreInv, TypeOK, n
  <2>2. \A m \in DOMAIN negotiations' : negotiations'[m] \in NegotiationRecord
    BY <1>3, <1>6, <1>8 DEF StoreInv, TypeOK
  <2>3. \A m \in DOMAIN quotes' : quotes'[m] \in QuoteRecord
    BY <1>4, <1>7, <1>8 DEF StoreInv, TypeOK
  <2> QED BY <1>1, <1>2, <2>1, <2>2, <2>3 DEF StoreInv, TypeOK
<1>11. DealsResolve'
  BY <1>1, <1>4, <1>5, <1>8, <1>9 DEF StoreInv, Linked, DealsResolve
<1>12. LinksAgree'
  <2>1. \A d \in DOMAIN deals : deals[d].negotiationId \in DOMAIN negotiations'
    BY <1>3, <1>5, <1>8, <1>9 DEF StoreInv, Linked, LinksAgree
  <2>2. ASSUME NEW m \in DOMAIN negotiations'
        PROVE  /\ negotiations'[m].dealIds = {d \in DOMAIN deals : deals[d].negotiationId = m}
               /\ negotiations'[m].state = "AGREEMENT_STARTED"
                     <=> negotiations'[m].dealIds # {}
    <3>1. CASE m = n
      <4>1. negotiations'[m] = fresh
        BY <2>2, <3>1, <1>3, <1>8
      <4>2. {d \in DOMAIN deals : deals[d].negotiationId = m} = {}
        BY <3>1, <1>2 DEF StoreInv, Linked, LinksAgree
      <4> QED BY <4>1, <4>2 DEF fresh
    <3>2. CASE m # n
      <4>1. m \in DOMAIN negotiations /\ negotiations'[m] = negotiations[m]
        BY <2>2, <3>2, <1>3, <1>8
      <4> QED BY <4>1 DEF StoreInv, Linked, LinksAgree
    <3> QED BY <3>1, <3>2
  <2> QED BY <1>1, <2>1, <2>2 DEF LinksAgree
<1>13. QuotesFollowNegotiations'
  <2>1. \A m \in DOMAIN negotiations : m \in DOMAIN quotes <=> negotiations[m].state # "REFUSED"
    BY DEF StoreInv, Linked, QuotesFollowNegotiations
  <2>2. DOMAIN quotes \subseteq DOMAIN negotiations
    BY DEF StoreInv, Linked, QuotesFollowNegotiations
  <2>3. accepted <=> fresh.state # "REFUSED"
    BY DEF fresh
  <2>4. DOMAIN quotes' = {m \in DOMAIN negotiations' : negotiations'[m].state # "REFUSED"}
    BY <1>2, <1>3, <1>4, <1>8, <2>1, <2>2, <2>3
  <2>5. \A m \in DOMAIN quotes' : quotes'[m].buyerAgentId = negotiations'[m].buyerAgentId
    BY <1>2, <1>3, <1>4, <1>8, <2>2
       DEF StoreInv, Linked, QuotesFollowNegotiations, fresh, quote
  <2> QED BY <2>4, <2>5 DEF QuotesFollowNegotiations
<1>14. LocalDealsWereDrawn' /\ OrdersWereIssued'
  BY <1>1 DEF StoreInv, LocalDealsWereDrawn, OrdersWereIssued
<1> QED BY <1>10, <1>11, <1>12, <1>13, <1>14 DEF StoreInv, Linked

(* pruneDeals(): the deals that are left still resolve, and the lists of   *)
(* the negotiations follow.                                                *)
LEMMA PruneKeepsStore ==
    ASSUME StoreInv, PruneDeals, UNCHANGED <<quotes, issued, drawn, preparing, clock>>
    PROVE  StoreInv'
<1>1. Reclaimed \subseteq DOMAIN deals
  BY ReclaimedFacts
<1>2. /\ DOMAIN deals' = DOMAIN deals \ Reclaimed
      /\ \A d \in DOMAIN deals \ Reclaimed : deals'[d] = deals[d]
  BY WithoutFacts DEF PruneDeals
<1>3. /\ DOMAIN negotiations' = DOMAIN negotiations
      /\ \A n \in DOMAIN negotiations :
           /\ negotiations'[n] \in NegotiationRecord
           /\ negotiations'[n].buyerAgentId = negotiations[n].buyerAgentId
           /\ negotiations'[n].dealIds =
                 {d \in DOMAIN deals \ Reclaimed : deals[d].negotiationId = n}
           /\ negotiations'[n].state = "AGREEMENT_STARTED"
                 <=> negotiations'[n].dealIds # {}
           /\ negotiations'[n].state = "REFUSED" <=> negotiations[n].state = "REFUSED"
  BY <1>1, UnlinkedFacts DEF StoreInv, Linked, PruneDeals
<1>4. TypeOK'
  BY <1>2, <1>3 DEF StoreInv, TypeOK, PruneDeals
<1>5. DealsResolve'
  BY <1>2 DEF StoreInv, Linked, DealsResolve
<1>6. LinksAgree'
  <2>1. \A n : {d \in DOMAIN deals \ Reclaimed : deals[d].negotiationId = n}
             = {d \in DOMAIN deals' : deals'[d].negotiationId = n}
    BY <1>2
  <2> QED BY <1>2, <1>3, <2>1 DEF StoreInv, Linked, LinksAgree
<1>7. QuotesFollowNegotiations'
  BY <1>3 DEF StoreInv, Linked, QuotesFollowNegotiations
<1>8. LocalDealsWereDrawn' /\ OrdersWereIssued'
  BY <1>2 DEF StoreInv, LocalDealsWereDrawn, OrdersWereIssued, PruneDeals
<1> QED BY <1>4, <1>5, <1>6, <1>7, <1>8 DEF StoreInv, Linked

(* pruneDeals(), set and linkNegotiation(): the deal is inserted under an  *)
(* id that is free once the prune has run.                                 *)
LEMMA InsertKeepsStore ==
    ASSUME StoreInv, NEW d \in DealIds, NEW n \in DOMAIN quotes,
           NEW address \in Addresses,
           d \notin DOMAIN deals \ Reclaimed, PruneAndInsert(d, n, address),
           UNCHANGED <<quotes, issued, preparing, clock>>,
           drawn \subseteq drawn', drawn' \subseteq LocalDealIds,
           d \in LocalDealIds => d \in drawn'
    PROVE  StoreInv'
<1> DEFINE kept == DOMAIN deals \ Reclaimed
           new == NewDeal(n, address)
           negs == Unlinked(Reclaimed)
<1>1. Reclaimed \subseteq DOMAIN deals
  BY ReclaimedFacts
<1>2. /\ DOMAIN deals' = kept \cup {d}
      /\ deals'[d] = new
      /\ \A e \in kept : deals'[e] = deals[e]
  BY DEF PruneAndInsert, Put, Without, Restrict
<1>3. /\ new \in DealRecord /\ new.negotiationId = n
      /\ new.termsDocumentHash = quotes[n].termsDocumentHash
      /\ new.order = inserted + 1
  BY DEF NewDeal, DealRecord, QuoteRecord, StoreInv, TypeOK
<1>4. n \in DOMAIN negotiations /\ negotiations[n].state # "REFUSED"
  BY DEF StoreInv, Linked, QuotesFollowNegotiations
<1>5. /\ DOMAIN negs = DOMAIN negotiations
      /\ \A m \in DOMAIN negotiations :
           /\ negs[m] \in NegotiationRecord
           /\ negs[m].buyerAgentId = negotiations[m].buyerAgentId
           /\ negs[m].dealIds = {e \in kept : deals[e].negotiationId = m}
           /\ negs[m].state = "AGREEMENT_STARTED" <=> negs[m].dealIds # {}
           /\ negs[m].state = "REFUSED" <=> negotiations[m].state = "REFUSED"
  BY <1>1, UnlinkedFacts DEF StoreInv, Linked
<1>6. inserted' = inserted + 1
  BY DEF PruneAndInsert
<1>7. negotiations' = [negs EXCEPT ![n].state = "AGREEMENT_STARTED",
                                   ![n].dealIds = @ \cup {d}]
  BY DEF PruneAndInsert
<1> HIDE DEF new, negs
<1>8. /\ DOMAIN negotiations' = DOMAIN negotiations
      /\ negotiations'[n] \in NegotiationRecord
      /\ negotiations'[n].buyerAgentId = negs[n].buyerAgentId
      /\ negotiations'[n].dealIds = negs[n].dealIds \cup {d}
      /\ negotiations'[n].state = "AGREEMENT_STARTED"
      /\ \A m \in DOMAIN negotiations : m # n => negotiations'[m] = negs[m]
  <2>1. negs[n] \in NegotiationRecord
    BY <1>4, <1>5
  <2> QED BY <1>4, <1>5, <1>7, <2>1 DEF NegotiationRecord
<1>9. TypeOK'
  <2>1. \A m \in DOMAIN negotiations' : negotiations'[m] \in NegotiationRecord
    BY <1>5, <1>8
  <2>2. DOMAIN deals' \subseteq DealIds /\ \A e \in DOMAIN deals' : deals'[e] \in DealRecord
    BY <1>2, <1>3 DEF StoreInv, TypeOK
  <2> QED BY <1>6, <1>8, <2>1, <2>2 DEF StoreInv, TypeOK
<1>10. DealsResolve'
  BY <1>2, <1>3 DEF StoreInv, Linked, DealsResolve
<1>11. LinksAgree'
  <2>1. \A e \in DOMAIN deals' : deals'[e].negotiationId \in DOMAIN negotiations'
    BY <1>2, <1>3, <1>4, <1>8 DEF StoreInv, Linked, LinksAgree
  <2>2. ASSUME NEW m \in DOMAIN negotiations'
        PROVE  /\ negotiations'[m].dealIds
                     = {e \in DOMAIN deals' : deals'[e].negotiationId = m}
               /\ negotiations'[m].state = "AGREEMENT_STARTED"
                     <=> negotiations'[m].dealIds # {}
    <3>1. {e \in kept : deals'[e].negotiationId = m}
             = {e \in kept : deals[e].negotiationId = m}
      BY <1>2
    <3>2. m \in DOMAIN negotiations
      BY <2>2, <1>8
    <3>3. CASE m = n
      BY <1>2, <1>3, <1>5, <1>8, <3>1, <3>2, <3>3
    <3>4. CASE m # n
      <4>1. {e \in DOMAIN deals' : deals'[e].negotiationId = m}
               = {e \in kept : deals'[e].negotiationId = m}
        BY <1>2, <1>3, <3>4
      <4> QED BY <1>5, <1>8, <3>1, <3>2, <3>4, <4>1
    <3> QED BY <3>3, <3>4
  <2> QED BY <2>1, <2>2 DEF LinksAgree
<1>12. QuotesFollowNegotiations'
  <2>1. \A m \in DOMAIN negotiations :
           /\ negotiations'[m].state = "REFUSED" <=> negotiations[m].state = "REFUSED"
           /\ negotiations'[m].buyerAgentId = negotiations[m].buyerAgentId
    BY <1>4, <1>5, <1>8
  <2> QED BY <1>8, <2>1 DEF StoreInv, Linked, QuotesFollowNegotiations
<1>13. LocalDealsWereDrawn'
  BY <1>2 DEF StoreInv, LocalDealsWereDrawn
<1>14. OrdersWereIssued'
  BY <1>2, <1>3, <1>6 DEF StoreInv, TypeOK, OrdersWereIssued
<1> QED BY <1>9, <1>10, <1>11, <1>12, <1>13, <1>14 DEF StoreInv, Linked

-----------------------------------------------------------------------------
(* propose() keeps the store consistent: its random id is a free one. *)
LEMMA ProposeInserts ==
    ASSUME StoreInv, NEW d \in LocalDealIds, NEW n, NEW contract,
           NEW address \in Addresses, Propose(d, n, contract, address)
    PROVE  StoreInv' /\ d \notin DOMAIN deals
<1>1. d \in DealIds /\ d \notin DOMAIN deals
  BY DEF Propose, StoreInv, LocalDealsWereDrawn, DealIds
<1>2. CASE Selects(n, contract)
  <2>1. n \in DOMAIN quotes /\ PruneAndInsert(d, n, address) /\ drawn' = drawn \cup {d}
        /\ UNCHANGED <<quotes, issued, preparing, clock>>
    BY <1>2 DEF Propose, Selects
  <2>2. drawn \subseteq drawn' /\ drawn' \subseteq LocalDealIds /\ d \in drawn'
    BY <2>1 DEF StoreInv, TypeOK
  <2> QED BY <1>1, <2>1, <2>2, InsertKeepsStore
<1>3. CASE ~Selects(n, contract)
  BY <1>1, <1>3, PruneKeepsStore DEF Propose
<1> QED BY <1>2, <1>3

(* registerLiveDeal() does: it inserts only what the prune left free. *)
LEMMA RegisterInserts ==
    ASSUME StoreInv, NEW d \in LiveDealIds, NEW n, NEW contract,
           NEW address \in Addresses, RegisterLiveDeal(d, n, contract, address)
    PROVE  StoreInv'
<1>1. d \in DealIds /\ d \notin LocalDealIds
  BY StoreConstants DEF DealIds
<1>2. CASE Selects(n, contract) /\ d \notin DOMAIN deals \ Reclaimed
  <2>1. n \in DOMAIN quotes /\ PruneAndInsert(d, n, address)
        /\ UNCHANGED <<quotes, issued, drawn, preparing, clock>>
    BY <1>2 DEF RegisterLiveDeal, Selects
  <2>2. drawn \subseteq drawn' /\ drawn' \subseteq LocalDealIds
    BY <2>1 DEF StoreInv, TypeOK
  <2> QED BY <1>1, <1>2, <2>1, <2>2, InsertKeepsStore
<1>3. CASE ~(Selects(n, contract) /\ d \notin DOMAIN deals \ Reclaimed)
  BY <1>3, PruneKeepsStore DEF RegisterLiveDeal
<1> QED BY <1>2, <1>3

(* Every step keeps the invariant. *)
LEMMA NextStore == StoreInv /\ [Next]_vars => StoreInv'
<1> SUFFICES ASSUME StoreInv, [Next]_vars PROVE StoreInv'
  OBVIOUS
<1>1. ASSUME NEW b \in Buyers, NEW document \in Documents \cup {NoDocument},
             Quote(b, document)
      PROVE  StoreInv'
  BY <1>1, QuoteKeepsStore
<1>2. ASSUME NEW n \in 1..issued, NEW contract \in Contracts, NEW address \in Addresses,
             NEW d \in LocalDealIds, Propose(d, n, contract, address)
      PROVE  StoreInv'
  BY <1>2, ProposeInserts
<1>3. ASSUME NEW n \in 1..issued, NEW contract \in Contracts, NEW address \in Addresses,
             NEW d \in LiveDealIds, RegisterLiveDeal(d, n, contract, address)
      PROVE  StoreInv'
  BY <1>3, RegisterInserts
<1>4. ASSUME NEW d \in DealIds,
             \/ \E valid \in BOOLEAN : Accept(d, valid)
             \/ \E s \in Reports : ObserveRuntimeStatus(d, s)
             \/ RecordInteraction(d)
             \/ RevokeCapability(d)
      PROVE  StoreInv'
  <2>1. Touches
    BY <1>4, TouchingMethods
  <2>2. preparing' = preparing
    BY <1>4 DEF Accept, ObserveRuntimeStatus, RecordInteraction, RevokeCapability
  <2> QED BY <2>1, <2>2, TouchKeepsStore DEF StoreInv, TypeOK
<1>5. ASSUME NEW p \in preparing, DeliveryPrepared(p)
      PROVE  StoreInv'
  <2>1. Touches
    BY <1>5, TouchingMethods
  <2>2. preparing' \subseteq PrepareCall
    BY <1>5 DEF DeliveryPrepared, StoreInv, TypeOK
  <2> QED BY <2>1, <2>2, TouchKeepsStore
<1>6. ASSUME NEW d \in DealIds, PrepareDelivery(d)
      PROVE  StoreInv'
  <2>1. preparing' \subseteq PrepareCall
    BY <1>6 DEF PrepareDelivery, PrepareCall, StoreInv, TypeOK, DealRecord
  <2>2. Touches
    BY <1>6 DEF PrepareDelivery, Touches, StoreInv, TypeOK
  <2> QED BY <2>1, <2>2, TouchKeepsStore
<1>7. ASSUME NEW p \in preparing, DeliveryFailed(p)
      PROVE  StoreInv'
  <2>1. preparing' \subseteq PrepareCall
    BY <1>7 DEF DeliveryFailed, StoreInv, TypeOK
  <2>2. Touches
    BY <1>7 DEF DeliveryFailed, Touches, StoreInv, TypeOK
  <2> QED BY <2>1, <2>2, TouchKeepsStore
<1>8. ASSUME Tick PROVE StoreInv'
  BY <1>8 DEF Tick, StoreInv, TypeOK, Linked, DealsResolve, LinksAgree,
              QuotesFollowNegotiations, LocalDealsWereDrawn, OrdersWereIssued
<1>9. ASSUME UNCHANGED vars PROVE StoreInv'
  BY <1>9 DEF vars, StoreInv, TypeOK, Linked, DealsResolve, LinksAgree,
              QuotesFollowNegotiations, LocalDealsWereDrawn, OrdersWereIssued
<1> QED BY <1>1, <1>2, <1>3, <1>4, <1>5, <1>6, <1>7, <1>8, <1>9 DEF Next

-----------------------------------------------------------------------------
(* The store's maps keep their types through every method. *)
THEOREM StoreTypeOK == Spec => []TypeOK
<1>1. StoreInv => TypeOK
  BY DEF StoreInv
<1> QED BY <1>1, InitStore, NextStore, PTL DEF Spec

(* Whatever pruneNegotiations and pruneDeals delete, every deal in the     *)
(* store resolves to the quote it was proposed under.                      *)
THEOREM StoreDealsResolve == Spec => []DealsResolve
<1>1. StoreInv => DealsResolve
  BY DEF StoreInv, Linked
<1> QED BY <1>1, InitStore, NextStore, PTL DEF Spec

(* Negotiations and deals name each other, through deleteDeal,             *)
(* linkNegotiation and every retry of registerLiveDeal.                    *)
THEOREM StoreLinksAgree == Spec => []LinksAgree
<1>1. StoreInv => LinksAgree
  BY DEF StoreInv, Linked
<1> QED BY <1>1, InitStore, NextStore, PTL DEF Spec

(* The maps negotiations and quotes are evicted together. *)
THEOREM StoreQuotesFollow == Spec => []QuotesFollowNegotiations
<1>1. StoreInv => QuotesFollowNegotiations
  BY DEF StoreInv, Linked
<1> QED BY <1>1, InitStore, NextStore, PTL DEF Spec

(* What a step may do to a record that is in the store. *)
DealStays(d) ==
    /\ d \in DOMAIN deals'
    /\ deals'[d].order = deals[d].order
    /\ deals'[d].negotiationId = deals[d].negotiationId
    /\ deals'[d].buyerAddress = deals[d].buyerAddress
    /\ deals[d].capabilityRevoked => deals'[d].capabilityRevoked

(* A step keeps a record, or the record was reclaimable: then it is gone,  *)
(* or a younger one has taken its id.                                      *)
LEMMA StepKeepsOrReclaims ==
    ASSUME StoreInv, [Next]_vars, NEW d \in DOMAIN deals
    PROVE  \/ DealStays(d)
           \/ /\ IsReclaimableDeal(deals[d])
              /\ d \in DOMAIN deals' => deals'[d].order # deals[d].order
<1>1. ASSUME NEW n, NEW address, NEW e, PruneAndInsert(e, n, address),
             e \notin DOMAIN deals \ Reclaimed
      PROVE  \/ DealStays(d)
             \/ /\ IsReclaimableDeal(deals[d])
                /\ d \in DOMAIN deals' => deals'[d].order # deals[d].order
  <2>1. /\ DOMAIN deals' = (DOMAIN deals \ Reclaimed) \cup {e}
        /\ deals'[e].order = inserted + 1
        /\ \A x \in DOMAIN deals \ Reclaimed : deals'[x] = deals[x]
    BY <1>1 DEF PruneAndInsert, Put, Without, Restrict, NewDeal
  <2>2. CASE d \in Reclaimed
    BY <2>1, <2>2, ReclaimedFacts DEF StoreInv, TypeOK, OrdersWereIssued
  <2>3. CASE d \notin Reclaimed
    BY <2>1, <2>3 DEF DealStays
  <2> QED BY <2>2, <2>3
<1>2. ASSUME PruneDeals
      PROVE  \/ DealStays(d)
             \/ IsReclaimableDeal(deals[d]) /\ d \notin DOMAIN deals'
  BY <1>2, ReclaimedFacts DEF PruneDeals, Without, Restrict, DealStays
<1>3. ASSUME Touches PROVE DealStays(d)
  BY <1>3 DEF Touches, DealStays
<1>4. ASSUME UNCHANGED deals PROVE DealStays(d)
  BY <1>4 DEF DealStays
<1>5. ASSUME NEW n, NEW contract, NEW address \in Addresses, NEW e \in LocalDealIds,
             Propose(e, n, contract, address)
      PROVE  \/ PruneDeals
             \/ PruneAndInsert(e, n, address) /\ e \notin DOMAIN deals \ Reclaimed
  BY <1>5, ProposeInserts DEF Propose
<1>6. ASSUME NEW n, NEW contract, NEW address, NEW e,
             RegisterLiveDeal(e, n, contract, address)
      PROVE  \/ PruneDeals
             \/ PruneAndInsert(e, n, address) /\ e \notin DOMAIN deals \ Reclaimed
  BY <1>6 DEF RegisterLiveDeal
<1>7. CASE \E n \in 1..issued, contract \in Contracts, address \in Addresses :
              \/ \E e \in LocalDealIds : Propose(e, n, contract, address)
              \/ \E e \in LiveDealIds : RegisterLiveDeal(e, n, contract, address)
  BY <1>1, <1>2, <1>5, <1>6, <1>7
<1>8. CASE \E e \in DealIds :
              \/ \E valid \in BOOLEAN : Accept(e, valid)
              \/ \E s \in Reports : ObserveRuntimeStatus(e, s)
              \/ RecordInteraction(e)
              \/ RevokeCapability(e)
  BY <1>3, <1>8, TouchingMethods
<1>9. CASE \E p \in preparing : DeliveryPrepared(p)
  BY <1>3, <1>9, TouchingMethods
<1>10. CASE \/ \E b \in Buyers, document \in Documents \cup {NoDocument} : Quote(b, document)
            \/ \E e \in DealIds : PrepareDelivery(e)
            \/ \E p \in preparing : DeliveryFailed(p)
            \/ Tick
            \/ UNCHANGED vars
  BY <1>4, <1>10 DEF Quote, PrepareDelivery, DeliveryFailed, Tick, vars
<1> QED BY <1>7, <1>8, <1>9, <1>10 DEF Next

(* A deal past formation is neither reclaimed nor rebuilt nor re-pointed,  *)
(* whatever the load and however often its registration is repeated.       *)
THEOREM StoreAdvancedDealStays == Spec => AdvancedDealStays
<1>1. StoreInv /\ [Next]_vars =>
        [\A d \in DOMAIN deals :
            ~IsReclaimableDeal(deals[d]) =>
                /\ d \in DOMAIN deals'
                /\ deals'[d].order = deals[d].order
                /\ deals'[d].negotiationId = deals[d].negotiationId
                /\ deals'[d].buyerAddress = deals[d].buyerAddress]_vars
  BY StepKeepsOrReclaims DEF DealStays
<1> QED BY <1>1, InitStore, NextStore, PTL DEF Spec, AdvancedDealStays

(* No retry of prepareDelivery gives a revoked record its access back. *)
THEOREM StoreRevocationIsFinal == Spec => RevocationIsFinal
<1>1. StoreInv /\ [Next]_vars =>
        [\A d \in DOMAIN deals \cap DOMAIN deals' :
            deals[d].capabilityRevoked /\ deals'[d].order = deals[d].order
                => deals'[d].capabilityRevoked]_vars
  BY StepKeepsOrReclaims DEF DealStays
<1> QED BY <1>1, InitStore, NextStore, PTL DEF Spec, RevocationIsFinal

-----------------------------------------------------------------------------
(* The caps.  Both prunes take the oldest members of a set: a member is    *)
(* among the n oldest if fewer than n are older, and since no two are of   *)
(* one age, the number of older members numbers them from 0.               *)
Older(S, num, x) == {y \in S : num[y] < num[x]}

(* Two members have different numbers. *)
LEMMA OlderCounts ==
    ASSUME NEW S, IsFiniteSet(S), NEW num \in [S -> Int], NEW x \in S, NEW y \in S,
           num[x] < num[y]
    PROVE  Cardinality(Older(S, num, x)) < Cardinality(Older(S, num, y))
<1>1. IsFiniteSet(Older(S, num, x)) /\ IsFiniteSet(Older(S, num, y))
  BY FS_Subset DEF Older
<1>2. Older(S, num, x) \in SUBSET Older(S, num, y)
  BY DEF Older
<1>3. x \in Older(S, num, y) /\ x \notin Older(S, num, x)
  BY DEF Older
<1>4. Cardinality(Older(S, num, x)) # Cardinality(Older(S, num, y))
  BY <1>1, <1>2, <1>3, FS_Subset
<1>5. Cardinality(Older(S, num, x)) <= Cardinality(Older(S, num, y))
  BY <1>1, <1>2, FS_Subset
<1> QED BY <1>1, <1>4, <1>5, FS_CardinalityType

(* What is left when the n oldest go: all but n, if there are that many.   *)
LEMMA LeftByOldest ==
    ASSUME NEW S, IsFiniteSet(S), NEW num \in [S -> Int], NEW n \in Int,
           \A x, y \in S : num[x] = num[y] => x = y
    PROVE  /\ IsFiniteSet(S \ Oldest(S, num, n))
           /\ n <= 0 => Cardinality(S \ Oldest(S, num, n)) <= Cardinality(S)
           /\ 0 <= n /\ n <= Cardinality(S) =>
                 Cardinality(S \ Oldest(S, num, n)) <= Cardinality(S) - n
           /\ Cardinality(S) <= n => S \ Oldest(S, num, n) = {}
<1> DEFINE left == S \ Oldest(S, num, n)
           older == [x \in left |-> Cardinality(Older(S, num, x))]
           size == Cardinality(S)
<1>1. size \in Nat
  BY FS_CardinalityType
<1>2. left \in SUBSET S /\ IsFiniteSet(left) /\ Cardinality(left) <= size
  BY FS_Subset DEF Oldest
<1>3. ASSUME NEW x \in S
      PROVE  /\ Cardinality(Older(S, num, x)) \in 0..(size - 1)
             /\ x \in left => Cardinality(Older(S, num, x)) >= n
  <2>1. Older(S, num, x) \in SUBSET S /\ x \in S /\ x \notin Older(S, num, x)
    BY DEF Older
  <2>2. Cardinality(Older(S, num, x)) <= size /\ Cardinality(Older(S, num, x)) # size
        /\ IsFiniteSet(Older(S, num, x))
    BY <2>1, FS_Subset
  <2>3. Cardinality(Older(S, num, x)) \in Nat
    BY <2>2, FS_CardinalityType
  <2>4. x \in left => ~(Cardinality(Older(S, num, x)) < n)
    BY DEF Oldest, Older
  <2> QED BY <1>1, <2>2, <2>3, <2>4
<1>4. ASSUME 0 <= n, n <= size PROVE Cardinality(left) <= size - n
  <2>1. older \in [left -> n..(size - 1)]
    BY <1>1, <1>2, <1>3
  <2>2. ASSUME NEW x \in left, NEW y \in left, older[x] = older[y] PROVE x = y
    <3>1. x \in S /\ y \in S /\ num[x] \in Int /\ num[y] \in Int
      BY <1>2
    <3>2. Cardinality(Older(S, num, x)) = Cardinality(Older(S, num, y))
      BY <2>2
    <3>3. ~(num[x] < num[y]) /\ ~(num[y] < num[x])
      BY <1>3, <3>1, <3>2, OlderCounts
    <3> QED BY <3>1, <3>3
  <2>3. older \in Injection(left, n..(size - 1))
    BY <2>1, <2>2 DEF Injection, IsInjective
  <2>4. /\ IsFiniteSet(n..(size - 1))
        /\ Cardinality(n..(size - 1)) = IF n > size - 1 THEN 0 ELSE size - 1 - n + 1
    <3> HIDE DEF size
    <3>1. size - 1 \in Int
      BY <1>1
    <3> QED BY <3>1, FS_Interval
  <2>5. Cardinality(left) <= Cardinality(n..(size - 1))
    BY <2>3, <2>4, FS_Injection
  <2> QED BY <1>1, <1>4, <2>4, <2>5
<1>5. ASSUME size <= n PROVE left = {}
  BY <1>1, <1>2, <1>3, <1>5
<1> QED BY <1>2, <1>4, <1>5

(* quote() is the only method that issues a negotiation, and it leaves the *)
(* cap, or what deals pin and the negotiation it answers.                  *)
LEMMA QuoteCap ==
    ASSUME StoreInv, NEW b \in Buyers, NEW document \in Documents \cup {NoDocument},
           Quote(b, document)
    PROVE  /\ issued' \in DOMAIN negotiations'
           /\ \/ Cardinality(DOMAIN negotiations') <= MaxOpenNegotiations
              \/ Cardinality(DOMAIN negotiations') <= Cardinality(Referenced(deals)) + 1
<1> DEFINE n == issued + 1
           negs == Put(negotiations, n,
                       [buyerAgentId |-> b, dealIds |-> {},
                        state |-> IF document # NoDocument THEN "QUOTED" ELSE "REFUSED"])
           open == DOMAIN negs
           free == open \ (Referenced(deals) \cup {n})
           pinned == open \cap (Referenced(deals) \cup {n})
           over == Cardinality(open) - MaxOpenNegotiations
           num == [m \in free |-> m]
           out == Oldest(free, num, over)
<1>1. issued' = n /\ negotiations' = Without(negs, out)
  BY DEF Quote, Evicted
<1>2. n \in Nat /\ DOMAIN negotiations \subseteq 1..issued /\ issued \in Nat
  BY DEF StoreInv, TypeOK
<1>3. open = DOMAIN negotiations \cup {n}
  BY DEF Put
<1>4. out \subseteq free
  BY DEF Oldest
<1>5. DOMAIN negotiations' = open \ out
  BY <1>1, WithoutFacts
<1>6. n \in open /\ n \notin free /\ open \subseteq Int
  BY <1>2, <1>3
<1>7. num \in [free -> Int] /\ \A x, y \in free : num[x] = num[y] => x = y
  BY <1>6
<1>8. IsFiniteSet(DOMAIN negotiations) /\ IsFiniteSet(open)
  <2>1. IsFiniteSet(1..issued)
    BY <1>2, FS_Interval
  <2>2. IsFiniteSet(DOMAIN negotiations)
    BY <1>2, <2>1, FS_Subset
  <2> QED BY <1>3, <2>2, FS_AddElement
<1>9. /\ Referenced(deals) \subseteq DOMAIN negotiations
      /\ Referenced(deals) \cup {n} \subseteq open
  BY <1>3 DEF Referenced, StoreInv, Linked, LinksAgree
<1> HIDE DEF n, negs, num
<1>10. /\ IsFiniteSet(free) /\ IsFiniteSet(pinned) /\ IsFiniteSet(open \ out)
       /\ Cardinality(open) \in Nat /\ Cardinality(free) \in Nat
       /\ Cardinality(pinned) \in Nat
  BY <1>8, FS_Subset, FS_CardinalityType
<1>11. Cardinality(free) = Cardinality(open) - Cardinality(pinned)
  BY <1>8, FS_Difference
<1>12. pinned = Referenced(deals) \cup {n} /\ Cardinality(pinned) <= Cardinality(Referenced(deals)) + 1
       /\ Cardinality(Referenced(deals)) \in Nat
  <2>1. IsFiniteSet(Referenced(deals))
    BY <1>8, <1>9, FS_Subset
  <2>2. pinned = Referenced(deals) \cup {n}
    BY <1>9
  <2>3. Cardinality(Referenced(deals)) \in Nat
    BY <2>1, FS_CardinalityType
  <2>4. Cardinality(Referenced(deals) \cup {n}) <= Cardinality(Referenced(deals)) + 1
    <3> HIDE DEF open, pinned, free, out
    <3>1. Cardinality(Referenced(deals) \cup {n}) =
             IF n \in Referenced(deals) THEN Cardinality(Referenced(deals))
             ELSE Cardinality(Referenced(deals)) + 1
      BY <2>1, FS_AddElement
    <3> QED BY ONLY <2>3, <3>1
  <2> QED BY <2>2, <2>3, <2>4
<1>13. over \in Int /\ MaxOpenNegotiations \in Nat
  BY <1>10, StoreConstants
<1> HIDE DEF over
<1>14. /\ IsFiniteSet(free \ out)
       /\ 0 <= over /\ over <= Cardinality(free) =>
             Cardinality(free \ out) <= Cardinality(free) - over
       /\ Cardinality(free) <= over => free \ out = {}
  BY <1>7, <1>10, <1>13, LeftByOldest
<1>15. /\ open \ out = pinned \cup (free \ out)
       /\ Cardinality(open \ out) <= Cardinality(pinned) + Cardinality(free \ out)
       /\ Cardinality(free \ out) \in Nat /\ Cardinality(open \ out) \in Nat
  <2>1. open \ out = pinned \cup (free \ out)
    BY <1>4
  <2>2. Cardinality(pinned \cup (free \ out)) =
            Cardinality(pinned) + Cardinality(free \ out)
                - Cardinality(pinned \cap (free \ out))
    BY <1>10, <1>14, FS_Union
  <2>3. IsFiniteSet(pinned \cap (free \ out))
    BY <1>10, FS_Subset
  <2>4. /\ Cardinality(pinned \cap (free \ out)) \in Nat /\ Cardinality(free \ out) \in Nat
        /\ Cardinality(open \ out) \in Nat
    BY <1>10, <1>14, <2>3, FS_CardinalityType
  <2>5. Cardinality(open \ out) <= Cardinality(pinned) + Cardinality(free \ out)
    <3> HIDE DEF open, pinned, free, out
    <3>1. Cardinality(open \ out) =
             Cardinality(pinned) + Cardinality(free \ out)
                 - Cardinality(pinned \cap (free \ out))
      BY <2>1, <2>2
    <3> QED BY ONLY <1>10, <2>4, <3>1
  <2> QED BY <2>1, <2>4, <2>5
<1>16. Cardinality(open \ out) <= Cardinality(open)
  BY <1>8, FS_Subset
<1>17. over = Cardinality(open) - MaxOpenNegotiations
  BY DEF over
<1>18. issued' \in DOMAIN negotiations'
  BY <1>1, <1>4, <1>5, <1>6
<1>19. \/ Cardinality(open \ out) <= MaxOpenNegotiations
       \/ Cardinality(open \ out) <= Cardinality(Referenced(deals)) + 1
  <2>1. CASE over < 0
    <3> HIDE DEF open, out
    <3> QED BY <1>10, <1>13, <1>15, <1>16, <1>17, <2>1
  <2>2. CASE 0 <= over /\ over <= Cardinality(free)
    <3> HIDE DEF open, pinned, free, out
    <3> QED BY <1>10, <1>11, <1>13, <1>14, <1>15, <1>17, <2>2
  <2>3. CASE Cardinality(free) < over
    <3>1. free \ out = {}
      <4> HIDE DEF open, free, out
      <4> QED BY <1>10, <1>13, <1>14, <2>3
    <3>2. open \ out = pinned
      BY <1>15, <3>1
    <3> QED BY <1>12, <3>2
  <2> QED BY <1>10, <1>13, <2>1, <2>2, <2>3
<1> QED BY <1>5, <1>18, <1>19

(* Map order: no two records of the store were inserted at once. *)
OrdersDiffer == \A d, e \in DOMAIN deals : deals[d].order = deals[e].order => d = e

CapInv == StoreInv /\ OrdersDiffer

(* The orders number the store's deals, so they are finitely many. *)
LEMMA DealsAreFinite == CapInv => IsFiniteSet(DOMAIN deals)
<1> SUFFICES ASSUME CapInv PROVE IsFiniteSet(DOMAIN deals)
  OBVIOUS
<1> DEFINE order == [d \in DOMAIN deals |-> deals[d].order]
<1>1. order \in Injection(DOMAIN deals, 1..inserted)
  BY DEF CapInv, StoreInv, OrdersWereIssued, OrdersDiffer, Injection, IsInjective
<1>2. inserted \in Nat
  BY DEF CapInv, StoreInv, TypeOK
<1>3. IsFiniteSet(1..inserted)
  BY <1>2, FS_Interval
<1> HIDE DEF order
<1> QED BY <1>1, <1>3, FS_Injection

(* pruneDeals() makes room below the cap for the deal that is inserted.    *)
LEMMA InsertCap ==
    ASSUME CapInv, NEW d, NEW n, NEW address, PruneAndInsert(d, n, address)
    PROVE  Cardinality({e \in DOMAIN deals' : IsReclaimableDeal(deals'[e])})
               <= MaxReclaimableDeals
<1> DEFINE reclaimable == {e \in DOMAIN deals : IsReclaimableDeal(deals[e])}
           stale == {e \in reclaimable : clock - deals[e].updatedAt > ReclaimableDealTTL}
           fresh == reclaimable \ stale
           num == [e \in fresh |-> deals[e].order]
           over == Cardinality(fresh) - (MaxReclaimableDeals - 1)
           left == fresh \ Oldest(fresh, num, over)
           after == {e \in DOMAIN deals' : IsReclaimableDeal(deals'[e])}
<1>1. Reclaimed = stale \cup Oldest(fresh, num, over)
  BY DEF Reclaimed
<1>2. /\ DOMAIN deals' = (DOMAIN deals \ Reclaimed) \cup {d}
      /\ \A e \in (DOMAIN deals \ Reclaimed) \ {d} : deals'[e] = deals[e]
  BY DEF PruneAndInsert, Put, Without, Restrict
<1>3. after \in SUBSET (left \cup {d})
  BY <1>1, <1>2
<1>4. num \in [fresh -> Int] /\ \A x, y \in fresh : num[x] = num[y] => x = y
  BY DEF CapInv, StoreInv, OrdersWereIssued, OrdersDiffer
<1>5. IsFiniteSet(fresh) /\ Cardinality(fresh) \in Nat
  BY DealsAreFinite, FS_Subset, FS_CardinalityType
<1>6. MaxReclaimableDeals \in Nat \ {0}
  BY StoreConstants
<1>7. over = Cardinality(fresh) - (MaxReclaimableDeals - 1) /\ over \in Int
  BY <1>5, <1>6
<1> HIDE DEF fresh, num, over
<1>8. /\ IsFiniteSet(left)
      /\ over <= 0 => Cardinality(left) <= Cardinality(fresh)
      /\ 0 <= over /\ over <= Cardinality(fresh) =>
            Cardinality(left) <= Cardinality(fresh) - over
  BY <1>4, <1>5, <1>7, LeftByOldest
<1> HIDE DEF left, after
<1>9. Cardinality(left) \in Nat
  BY <1>8, FS_CardinalityType
<1>10. Cardinality(left) <= MaxReclaimableDeals - 1
  BY <1>5, <1>6, <1>7, <1>8, <1>9
<1>11. IsFiniteSet(left \cup {d}) /\ Cardinality(left \cup {d}) \in Nat
  BY <1>8, FS_AddElement, FS_CardinalityType
<1>12. Cardinality(left \cup {d}) =
          IF d \in left THEN Cardinality(left) ELSE Cardinality(left) + 1
  BY <1>8, FS_AddElement
<1>13. Cardinality(after) <= Cardinality(left \cup {d}) /\ IsFiniteSet(after)
  BY <1>3, <1>11, FS_Subset
<1>14. Cardinality(after) \in Nat
  BY <1>13, FS_CardinalityType
<1>15. Cardinality(after) <= MaxReclaimableDeals
  BY ONLY <1>6, <1>9, <1>10, <1>11, <1>12, <1>13, <1>14
<1> QED BY <1>15 DEF after

(* Which steps insert, which issue, and what the others do to the orders.  *)
Inserts ==
    \E d, n, address :
        PruneAndInsert(d, n, address) /\ d \notin DOMAIN deals \ Reclaimed

Keeps ==
    /\ inserted' = inserted
    /\ DOMAIN deals' \subseteq DOMAIN deals
    /\ \A d \in DOMAIN deals' : deals'[d].order = deals[d].order

Issues ==
    \E b \in Buyers, document \in Documents \cup {NoDocument} : Quote(b, document)

LEMMA StepsOfTheStore ==
    ASSUME StoreInv, [Next]_vars
    PROVE  (Inserts \/ Keeps) /\ (Issues \/ UNCHANGED issued)
<1>1. ASSUME PruneDeals PROVE Keeps
  BY <1>1 DEF PruneDeals, Keeps, Without, Restrict
<1>2. ASSUME Touches PROVE Keeps /\ UNCHANGED issued
  BY <1>2 DEF Touches, Keeps
<1>3. ASSUME UNCHANGED <<deals, inserted>> PROVE Keeps
  BY <1>3 DEF Keeps
<1>4. CASE \E n \in 1..issued, contract \in Contracts, address \in Addresses :
              \E e \in LocalDealIds : Propose(e, n, contract, address)
  <2>1. PICK n \in 1..issued, contract \in Contracts, address \in Addresses,
             e \in LocalDealIds : Propose(e, n, contract, address)
    BY <1>4
  <2>2. e \notin DOMAIN deals
    BY <2>1, ProposeInserts
  <2> QED BY <1>1, <2>1, <2>2 DEF Propose, Inserts
<1>5. CASE \E n \in 1..issued, contract \in Contracts, address \in Addresses :
              \E e \in LiveDealIds : RegisterLiveDeal(e, n, contract, address)
  BY <1>1, <1>5 DEF RegisterLiveDeal, Inserts
<1>6. CASE \E e \in DealIds :
              \/ \E valid \in BOOLEAN : Accept(e, valid)
              \/ \E s \in Reports : ObserveRuntimeStatus(e, s)
              \/ RecordInteraction(e)
              \/ RevokeCapability(e)
  BY <1>2, <1>6, TouchingMethods
<1>7. CASE \E p \in preparing : DeliveryPrepared(p)
  BY <1>2, <1>7, TouchingMethods
<1>8. CASE Issues
  BY <1>3, <1>8 DEF Quote, Issues
<1>9. CASE \/ \E e \in DealIds : PrepareDelivery(e)
           \/ \E p \in preparing : DeliveryFailed(p)
           \/ Tick
           \/ UNCHANGED vars
  BY <1>3, <1>9 DEF PrepareDelivery, DeliveryFailed, Tick, vars
<1> QED BY <1>4, <1>5, <1>6, <1>7, <1>8, <1>9 DEF Next, Issues

LEMMA NextCap == CapInv /\ [Next]_vars => CapInv'
<1> SUFFICES ASSUME CapInv, [Next]_vars PROVE CapInv'
  OBVIOUS
<1>1. StoreInv'
  BY NextStore DEF CapInv
<1>2. CASE Keeps
  BY <1>1, <1>2 DEF CapInv, OrdersDiffer, Keeps
<1>3. CASE Inserts
  <2>1. PICK d, n, address : PruneAndInsert(d, n, address) /\ d \notin DOMAIN deals \ Reclaimed
    BY <1>3 DEF Inserts
  <2>2. /\ DOMAIN deals' = (DOMAIN deals \ Reclaimed) \cup {d}
        /\ deals'[d].order = inserted + 1
        /\ \A e \in DOMAIN deals \ Reclaimed : deals'[e] = deals[e]
    BY <2>1 DEF PruneAndInsert, Put, Without, Restrict, NewDeal
  <2>3. /\ inserted \in Nat
        /\ \A e \in DOMAIN deals : deals[e].order \in Nat /\ deals[e].order # inserted + 1
    BY DEF CapInv, StoreInv, TypeOK, OrdersWereIssued
  <2> QED BY <1>1, <2>2, <2>3 DEF CapInv, OrdersDiffer
<1> QED BY <1>2, <1>3, StepsOfTheStore DEF CapInv

LEMMA InitCap == Init => CapInv
  BY InitStore DEF Init, CapInv, OrdersDiffer

(* Strangers' queries grow the store to the cap, or to the deals that pin  *)
(* their quotes and the one being answered, and never evict the latter.    *)
THEOREM StoreQuoteCap == Spec => QuoteStaysWithinCap
<1>1. CapInv /\ [Next]_vars =>
        [issued' # issued =>
            /\ issued' \in DOMAIN negotiations'
            /\ \/ Cardinality(DOMAIN negotiations') <= MaxOpenNegotiations
               \/ Cardinality(DOMAIN negotiations') <= Cardinality(Referenced(deals)) + 1]_vars
  BY StepsOfTheStore, QuoteCap DEF CapInv, Issues
<1> QED BY <1>1, InitCap, NextCap, PTL DEF Spec, QuoteStaysWithinCap

(* An insert leaves at most MAX_RECLAIMABLE_DEALS reclaimable deals,       *)
(* however many became reclaimable, or were observed to, since the last.   *)
THEOREM StoreInsertCap == Spec => InsertStaysWithinCap
<1>1. CapInv /\ [Next]_vars =>
        [inserted' # inserted =>
            Cardinality({d \in DOMAIN deals' : IsReclaimableDeal(deals'[d])})
                <= MaxReclaimableDeals]_vars
  BY StepsOfTheStore, InsertCap DEF CapInv, Inserts, Keeps
<1> QED BY <1>1, InitCap, NextCap, PTL DEF Spec, InsertStaysWithinCap
=============================================================================
