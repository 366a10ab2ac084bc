------------------------------ MODULE DataDeal ------------------------------
(***************************************************************************)
(* A deal with the data seller in standalone mode, by its content: the     *)
(* quote of a query, the contract that pins the quoted terms document, the *)
(* countersignature, the delivery and the buyer's verification.  The       *)
(* seller is the executor with the DataSeller behind it, the buyer is      *)
(* scripts/buyer.ts, and strangers send what any caller may.               *)
(*                                                                         *)
(* A hash is the value it is taken of; a signature names its signer and    *)
(* what it covers.  The caps of the store are out of reach here: they are  *)
(* the subject of SellerStore, which this module implements.               *)
(***************************************************************************)
EXTENDS Deliverable

CONSTANTS
    Buyers,             \* buyers that run the script; an agent id and its address
    Strangers,          \* addresses of other callers
    Bodies,             \* caller -> the request bodies it may send
    Files,              \* corpus files the seller may be booted with
    CardTiers,          \* measure -> tier, as the signed card publishes it
    MaxNegotiations,    \* bound on the queries
    MaxDeals,           \* bound on the proposals that are taken
    MaxMints,           \* bound on the deliveries that are started
    MaxAge,             \* DELIVERY_REQUEST_MAX_AGE_SECONDS (300 in the code)
    MaxClock            \* bound on the clock

NoDocument == [format |-> "none"]
NoManifest == [dealId |-> 0]
Idle == [at |-> "idle", n |-> 0, d |-> 0, capability |-> 0, manifest |-> NoManifest]

ASSUME DealConstants ==
    /\ Buyers \cap Strangers = {}
    /\ \A x \in Buyers \cup Strangers : \A body \in Bodies[x] :
        /\ body.rowsPerTract \in Int
        /\ body.thresholds.items \in Seq(ToSet(body.thresholds.items))
    /\ Files \subseteq Seq(Tract)
    /\ {MaxNegotiations, MaxDeals, MaxMints, MaxAge, MaxClock} \subseteq Nat

VARIABLES
    status,     \* "booting", "serving", or "refused" by boot()
    corpus,     \* the loaded corpus
    asked,      \* the buyerAgentId of each negotiation that was recorded
    quotes,     \* negotiation -> the body and the terms document
    deals,      \* deal id -> DealRecord
    minted,     \* number of capabilities ever minted; 0 is no capability
    requests,   \* delivery requests on the wire, which may arrive repeatedly
    preparing,  \* deliveries whose artifact is being stored
    holds,      \* who was sent which capability of which deal
    session,    \* buyer -> how far its script is
    clock

vars == <<status, corpus, asked, quotes, deals, minted, requests, preparing, holds,
          session, clock>>

DealIds == 1..MaxDeals
Callers == Buyers \cup Strangers

Init ==
    /\ status = "booting"
    /\ corpus = << >>
    /\ asked = << >>
    /\ quotes = << >>
    /\ deals = << >>
    /\ minted = 0
    /\ requests = {}
    /\ preparing = {}
    /\ holds = {}
    /\ session = [b \in Buyers |-> Idle]
    /\ clock = 0

-----------------------------------------------------------------------------
(* A decimal amount: its whole part and the digits after the point. *)
ToFixed2(cents) ==
    [whole |-> cents \div 100, frac |-> <<(cents % 100) \div 10, cents % 10>>]

(* usdcBaseUnits(): the fraction is padded with zeros to six digits. *)
UsdcBaseUnits(amount) ==
    LET digit(k) == IF k <= Len(amount.frac) THEN amount.frac[k] ELSE 0
    IN  1000000 * amount.whole + 100000 * digit(1) + 10000 * digit(2) + 1000 * digit(3)
            + 100 * digit(4) + 10 * digit(5) + digit(6)

(* The terms document of a quote. *)
TermsDocument(facts) ==
    [format |-> "kite-example-data-deal-terms/v1",
     criteriaHash |-> facts.criteriaHash, statsHash |-> facts.statsHash,
     rowsPerTract |-> facts.rowsPerTract, totalRows |-> facts.rowCount,
     tractCount |-> facts.tractCount, price |-> facts.price,
     priceAmount |-> ToFixed2(facts.price.listCents)]

(* The contract of scripts/buyer.ts without its signatures. *)
TermsFor(buyerAgentId, document) ==
    [buyerAgentId |-> buyerAgentId, sellerAgentId |-> "seller",
     payoutAddress |-> "payout", document |-> document,
     amount |-> document.priceAmount, asset |-> "USDC", deliverable |-> "csv",
     extensionUri |-> "fixed_outcome/v1", endpoint |-> "runtime", arbiter |-> "arbiter"]

(* Terms that differ from the ones on offer in a single member. *)
Altered(terms) ==
    {[terms EXCEPT !.sellerAgentId = "other"], [terms EXCEPT !.payoutAddress = "other"],
     [terms EXCEPT !.amount = [@ EXCEPT !.frac = << >>]],
     [terms EXCEPT !.amount = [@ EXCEPT !.whole = 0]],
     [terms EXCEPT !.asset = "other"], [terms EXCEPT !.deliverable = ""],
     [terms EXCEPT !.extensionUri = "other"], [terms EXCEPT !.endpoint = "other"],
     [terms EXCEPT !.arbiter = terms.buyerAgentId], [terms EXCEPT !.arbiter = "seller"],
     [terms EXCEPT !.buyerAgentId = "other"], [terms EXCEPT !.document = NoDocument]}
    \cup {[terms EXCEPT !.document = quotes[n].document] : n \in DOMAIN quotes}

Signed(terms, address) ==
    [terms |-> terms,
     signatures |-> <<[signerAgentId |-> terms.buyerAgentId, by |-> address, over |-> terms]>>]

(* The Agreement signature of address over a deal. *)
AgreementSig(address, d, terms) ==
    [by |-> address, dealId |-> d, over |-> terms, amount |-> UsdcBaseUnits(terms.amount)]

(* Mutant: the amount is not compared with the seller's own arithmetic. *)
ValidateTermsAnyPrice(terms, document, recomputed) ==
    /\ terms.payoutAddress = "payout" /\ terms.sellerAgentId = "seller"
    /\ terms.document = document
    /\ terms.asset = "USDC" /\ terms.deliverable # ""
    /\ terms.extensionUri = "fixed_outcome/v1" /\ terms.endpoint = "runtime"
    /\ terms.arbiter \notin {terms.buyerAgentId, "seller"}

(* validateTerms(): what the seller checks before it countersigns. *)
ValidateTerms(terms, document, recomputed) ==
    /\ terms.payoutAddress = "payout"
    /\ terms.sellerAgentId = "seller"
    /\ terms.document = document
    /\ terms.asset = "USDC"
    /\ terms.amount = ToFixed2(recomputed.price.listCents)
    /\ document.priceAmount = ToFixed2(recomputed.price.listCents)
    /\ document.criteriaHash = recomputed.criteriaHash
    /\ document.statsHash = recomputed.statsHash
    /\ terms.deliverable # ""
    /\ terms.extensionUri = "fixed_outcome/v1"
    /\ terms.endpoint = "runtime"
    /\ terms.arbiter \notin {"", terms.buyerAgentId, "seller"}

(* Mutant: a contract that is countersigned already is taken again. *)
AcceptableTwice(contract, address, d, agreementSig, document, recomputed) ==
    /\ ValidateTerms(contract.terms, document, recomputed)
    /\ contract.signatures[1].signerAgentId = contract.terms.buyerAgentId
    /\ contract.signatures[1].by = address
    /\ contract.signatures[1].over = contract.terms
    /\ agreementSig = AgreementSig(address, d, contract.terms)

(* acceptTerms(), which refuses everything else. *)
Acceptable(contract, address, d, agreementSig, document, recomputed) ==
    /\ Len(contract.signatures) = 1
    /\ ValidateTerms(contract.terms, document, recomputed)
    /\ contract.signatures[1].signerAgentId = contract.terms.buyerAgentId
    /\ contract.signatures[1].by = address
    /\ contract.signatures[1].over = contract.terms
    /\ agreementSig = AgreementSig(address, d, contract.terms)

Countersigned(contract) ==
    [contract EXCEPT !.signatures =
        <<@[1], [signerAgentId |-> "seller", by |-> "seller", over |-> contract.terms]>>]

-----------------------------------------------------------------------------
(* boot(): the card is compared with the totals of the corpus itself. *)
Card(c) ==
    [tracts |-> Len(c), states |-> Cardinality(StatesOf(c)), tiers |-> CardTiers,
     unavailable |-> [m \in Measures |-> UnavailableStates(c, m)]]

Boot(file) ==
    /\ status = "booting"
    /\ corpus' = LoadPlaces(file)
    /\ status' = IF corpus' # << >> /\ CardMatchesCorpus(Card(corpus'), corpus')
                 THEN "serving" ELSE "refused"
    /\ UNCHANGED <<asked, quotes, deals, minted, requests, preparing, holds, session, clock>>

(* The query kind.  A negotiation is recorded unless composeQuote() threw, *)
(* a quote only for a slice that can be priced.                            *)
Quoted(body) ==
    LET facts == ComposeQuote(body, corpus) IN facts.accepted /\ facts.priceable

Query(x, body) ==
    LET n == Len(asked) + 1
    IN  /\ asked' = Append(asked, x)
        /\ quotes' = IF ~Quoted(body) THEN quotes
                     ELSE [m \in DOMAIN quotes \cup {n} |->
                              IF m # n THEN quotes[m]
                              ELSE [body |-> body,
                                    document |-> TermsDocument(ComposeQuote(body, corpus))]]

BuyerAsks(b, body) ==
    /\ status = "serving"
    /\ session[b].at = "idle"
    /\ Len(asked) < MaxNegotiations
    /\ IF QuoteThrows(body, corpus)
       THEN /\ session' = [session EXCEPT ![b].at = "error"]
            /\ UNCHANGED <<asked, quotes>>
       ELSE /\ Query(b, body)
            /\ session' = [session EXCEPT ![b].at = IF Quoted(body) THEN "quoted" ELSE "refused",
                                          ![b].n = Len(asked) + 1]
    /\ UNCHANGED <<status, corpus, deals, minted, requests, preparing, holds, clock>>

(* Another caller asks. *)
StrangerAsks(x, body) ==
    /\ status = "serving"
    /\ Len(asked) < MaxNegotiations
    /\ ~QuoteThrows(body, corpus)
    /\ Query(x, body)
    /\ UNCHANGED <<status, corpus, deals, minted, requests, preparing, holds, session, clock>>

(* selectedQuote() *)
Selects(n, terms) ==
    /\ n \in DOMAIN quotes
    /\ terms.document = quotes[n].document
    /\ terms.buyerAgentId = asked[n]

(* The submit-proposal kind; a proposal that selects no quote is refused. *)
SubmitProposal(d, n, contract, address) ==
    /\ d = Cardinality(DOMAIN deals) + 1
    /\ d \in DealIds
    /\ Selects(n, contract.terms)
    /\ deals' = [e \in DOMAIN deals \cup {d} |->
                    IF e # d THEN deals[e]
                    ELSE [negotiationId |-> n, buyerAddress |-> address, contract |-> contract,
                          state |-> "PROPOSED_LOCAL", capability |-> 0, deliveries |-> 0,
                          manifest |-> NoManifest]]

BuyerProposes(b, d) ==
    LET n == session[b].n
    IN  /\ session[b].at = "quoted"
        /\ SubmitProposal(d, n, Signed(TermsFor(b, quotes[n].document), b), b)
        /\ session' = [session EXCEPT ![b].at = "proposed", ![b].d = d]
        /\ UNCHANGED <<status, corpus, asked, quotes, minted, requests, preparing, holds, clock>>

(* Another caller proposes terms of its own, or a contract that it saw,    *)
(* once.                                                                   *)
StrangerProposes(x, n, d) ==
    /\ n \in DOMAIN quotes
    /\ \A e \in DOMAIN deals : deals[e].buyerAddress # x
    /\ LET offered == TermsFor(asked[n], quotes[n].document)
       IN  \E contract \in {Signed(terms, x) : terms \in Altered(offered) \cup {offered}}
                           \cup {deals[e].contract : e \in DOMAIN deals} :
              SubmitProposal(d, n, contract, x)
    /\ UNCHANGED <<status, corpus, asked, quotes, minted, requests, preparing, holds,
                   session, clock>>

(* The acceptance-request kind: recomputeFor(), acceptTerms(), and the     *)
(* countersigned contract is kept.  Retries come from either party.        *)
MayAccept(d, agreementSig) ==
    LET deal == deals[d]
        quote == quotes[deal.negotiationId]
    IN  Acceptable(deal.contract, deal.buyerAddress, d, agreementSig, quote.document,
                   ComposeQuote(quote.body, corpus))

Accept(d) ==
    deals' = [deals EXCEPT ![d].contract = Countersigned(@), ![d].state = "ACCEPTED_LOCAL"]

BuyerRequestsAcceptance(b) ==
    LET d == session[b].d
        valid == MayAccept(d, AgreementSig(b, d, deals[d].contract.terms))
    IN  /\ session[b].at = "proposed"
        /\ IF valid THEN Accept(d) ELSE UNCHANGED deals
        /\ session' = [session EXCEPT ![b].at = IF valid THEN "accepted" ELSE "refused"]
        /\ UNCHANGED <<status, corpus, asked, quotes, minted, requests, preparing, holds, clock>>

(* The request of a stranger, or that of a buyer once more. *)
RepeatAcceptance(x, d) ==
    /\ d \in DOMAIN deals
    /\ x \in Buyers => session[x].at \notin {"idle", "quoted", "proposed"}
    /\ MayAccept(d, AgreementSig(x, d, deals[d].contract.terms))
    /\ Accept(d)
    /\ UNCHANGED <<status, corpus, asked, quotes, minted, requests, preparing, holds,
                   session, clock>>

-----------------------------------------------------------------------------
(* A delivery request carries a signature over the deal and the time. *)
BuyerRequestsDelivery(b) ==
    /\ session[b].at = "accepted"
    /\ requests' = requests \cup
          {[dealId |-> session[b].d, requestedAt |-> clock, by |-> b, caller |-> b]}
    /\ session' = [session EXCEPT ![b].at = "waiting"]
    /\ UNCHANGED <<status, corpus, asked, quotes, deals, minted, preparing, holds, clock>>

(* Another caller signs for itself, and sends one request. *)
StrangerRequestsDelivery(x, d) ==
    /\ d \in DOMAIN deals
    /\ \A r \in requests : r.by # x
    /\ requests' = requests \cup
          {[dealId |-> d, requestedAt |-> clock, by |-> x, caller |-> x]}
    /\ UNCHANGED <<status, corpus, asked, quotes, deals, minted, preparing, holds, session, clock>>

(* Mutant: the signature of the request is not checked. *)
FreshUnsigned(r) == clock - r.requestedAt <= MaxAge /\ r.requestedAt - clock <= MaxAge

(* verifyDeliveryRequest() *)
Fresh(r) ==
    /\ clock - r.requestedAt <= MaxAge /\ r.requestedAt - clock <= MaxAge
    /\ r.by = deals[r.dealId].buyerAddress

(* Mutant: a delivery is prepared for a deal that was never accepted. *)
MayPrepareProposed(d) ==
    LET quote == quotes[deals[d].negotiationId]
    IN  ~DeliveryThrows(d, ReadQuery(quote.body), quote.document.rowsPerTract,
                        quote.document.statsHash, corpus)

(* prepareDelivery() up to the await of the artifact store. *)
MayPrepare(d) ==
    LET quote == quotes[deals[d].negotiationId]
    IN  /\ deals[d].state # "PROPOSED_LOCAL"
        /\ ~DeliveryThrows(d, ReadQuery(quote.body), quote.document.rowsPerTract,
                           quote.document.statsHash, corpus)

(* The request-delivery kind, for any request on the wire, again if it is  *)
(* repeated.  A refusal ends the script of a buyer that waits for it.      *)
HandleDeliveryRequest(r) ==
    /\ r \in requests
    /\ \/ /\ Fresh(r) /\ MayPrepare(r.dealId)
          /\ minted < MaxMints
          /\ minted' = minted + 1
          /\ preparing' = preparing \cup
                {[dealId |-> r.dealId, capability |-> minted + 1, caller |-> r.caller]}
          /\ UNCHANGED session
       \/ /\ ~(Fresh(r) /\ MayPrepare(r.dealId))
          /\ r.caller \in Buyers /\ session[r.caller].at = "waiting"
          /\ session' = [session EXCEPT ![r.caller].at = "refused"]
          /\ UNCHANGED <<minted, preparing>>
    /\ UNCHANGED <<status, corpus, asked, quotes, deals, requests, holds, clock>>

(* Mutant: the density of the card, not the one of the signed document. *)
ManifestAtDefault(p) ==
    LET quote == quotes[deals[p.dealId].negotiationId]
    IN  Manifest(p.dealId, p.dealId, ReadQuery(quote.body), Density.default,
                 quote.document.statsHash, p.capability, corpus)

(* The manifest of prepareDelivery(): the seed is the deal's own, and the  *)
(* locator names the capability.                                           *)
ManifestOf(p) ==
    LET quote == quotes[deals[p.dealId].negotiationId]
    IN  Manifest(p.dealId, p.dealId, ReadQuery(quote.body), quote.document.rowsPerTract,
                 quote.document.statsHash, p.capability, corpus)

(* The artifact is stored; the deal is delivered and the caller answered. *)
DeliveryPrepared(p) ==
    LET d == p.dealId
    IN  /\ p \in preparing
        /\ preparing' = preparing \ {p}
        /\ deals' = [deals EXCEPT ![d].state = "DELIVERED_LOCAL", ![d].manifest = ManifestOf(p),
                                  ![d].capability = p.capability, ![d].deliveries = @ + 1]
        /\ holds' = holds \cup {[by |-> p.caller, dealId |-> d, capability |-> p.capability]}
        /\ session' = IF p.caller \in Buyers /\ session[p.caller].at = "waiting"
                      THEN [session EXCEPT ![p.caller].at = "delivered",
                               ![p.caller].capability = p.capability,
                               ![p.caller].manifest = deals'[d].manifest]
                      ELSE session
        /\ UNCHANGED <<status, corpus, asked, quotes, minted, requests, clock>>

(* artifactFor(): one answer to every wrong token.  Without a Runtime      *)
(* nobody calls revokeCapability(), so capabilityRevoked is never set.     *)
Served(d, capability) == deals[d].capability = capability

(* The buyer fetches the manifest and compares it with the deliveryHash. *)
BuyerFetchesManifest(b) ==
    LET s == session[b]
    IN  /\ s.at = "delivered"
        /\ session' = [session EXCEPT ![b].at =
              IF ~Served(s.d, s.capability) THEN "unfetched"
              ELSE IF deals[s.d].manifest # s.manifest THEN "rejected" ELSE "fetched"]
        /\ UNCHANGED <<status, corpus, asked, quotes, deals, minted, requests, preparing,
                       holds, clock>>

(* It fetches the file, and regenerates it from its own query. *)
BuyerVerifies(b) ==
    LET s == session[b]
    IN  /\ s.at = "fetched"
        /\ session' = [session EXCEPT ![b].at =
              IF ~Served(s.d, s.capability) THEN "unfetched"
              ELSE IF VerifyDelivery(s.manifest, deals[s.d].manifest.contentHash,
                                     ReadQuery(quotes[s.n].body), corpus)
                   THEN "verified" ELSE "rejected"]
        /\ UNCHANGED <<status, corpus, asked, quotes, deals, minted, requests, preparing,
                       holds, clock>>

(* Time is read only while a request is on the wire. *)
Tick ==
    /\ clock < MaxClock
    /\ requests # {}
    /\ clock' = clock + 1
    /\ UNCHANGED <<status, corpus, asked, quotes, deals, minted, requests, preparing, holds,
                   session>>

Next ==
    \/ \E file \in Files : Boot(file)
    \/ \E b \in Buyers :
          \/ \E body \in Bodies[b] : BuyerAsks(b, body)
          \/ \E d \in DealIds : BuyerProposes(b, d)
          \/ BuyerRequestsAcceptance(b)
          \/ BuyerRequestsDelivery(b)
          \/ BuyerFetchesManifest(b)
          \/ BuyerVerifies(b)
    \/ \E x \in Strangers :
          \/ \E body \in Bodies[x] : StrangerAsks(x, body)
          \/ \E n \in 1..MaxNegotiations, d \in DealIds : StrangerProposes(x, n, d)
          \/ \E d \in DealIds : StrangerRequestsDelivery(x, d)
    \/ \E x \in Callers, d \in DealIds : RepeatAcceptance(x, d)
    \/ \E r \in requests : HandleDeliveryRequest(r)
    \/ \E p \in preparing : DeliveryPrepared(p)
    \/ Tick

Spec == Init /\ [][Next]_vars
-----------------------------------------------------------------------------
Formed(d) == deals[d].state # "PROPOSED_LOCAL"

QueryOf(n) == ReadQuery(quotes[n].body)

(* Type invariant.  A quoted density is within the bounds of the card.     *)
TypeOK ==
    /\ status \in {"booting", "serving", "refused"}
    /\ asked \in Seq(Callers) /\ Len(asked) <= MaxNegotiations
    /\ DOMAIN quotes \subseteq DOMAIN asked
    /\ \A n \in DOMAIN quotes :
        quotes[n].document.rowsPerTract \in Density.min..Density.max
    /\ DOMAIN deals \subseteq DealIds
    /\ \A d \in DOMAIN deals :
        /\ deals[d].negotiationId \in DOMAIN quotes
        /\ deals[d].buyerAddress \in Callers
        /\ deals[d].state \in {"PROPOSED_LOCAL", "ACCEPTED_LOCAL", "DELIVERED_LOCAL"}
        /\ deals[d].capability \in 0..minted
    /\ minted \in 0..MaxMints /\ clock \in 0..MaxClock
    /\ requests \subseteq [dealId : DOMAIN deals, requestedAt : 0..clock,
                           by : Callers, caller : Callers]
    /\ preparing \subseteq [dealId : DOMAIN deals, capability : 1..minted, caller : Callers]
    /\ holds \subseteq [by : Callers, dealId : DOMAIN deals, capability : 1..minted]
    /\ \A b \in Buyers :
        session[b].at \in {"idle", "error", "quoted", "refused", "proposed", "accepted",
                           "waiting", "delivered", "fetched", "unfetched", "verified",
                           "rejected"}

(* What is delivered is what both parties signed: the manifest and the     *)
(* file have the statistics, tracts and rows of the document the contract  *)
(* pins, and every tract of the slice is in the file at least rowsPerTract *)
(* times (terms.ts, generateDelivery(), allocateRows()).                   *)
SignedTermsAreDelivered ==
    \A d \in DOMAIN deals : deals[d].state = "DELIVERED_LOCAL" =>
        LET document == deals[d].contract.terms.document
            manifest == deals[d].manifest
            rows == manifest.contentHash.rows
        IN  /\ manifest.sourceStatsHash = document.statsHash
            /\ manifest.tractCount = document.tractCount
            /\ manifest.rowCount = document.totalRows
            /\ Len(rows) = document.totalRows
            /\ \A i \in EvaluateQuery(QueryOf(deals[d].negotiationId), corpus) :
                Cardinality({r \in DOMAIN rows : rows[r][1] = corpus[i].tractFips})
                    >= document.rowsPerTract

(* The amount the seller's Agreement signature covers, in base units of    *)
(* USDC, is the rate card's price of the slice in cents, whatever amount a *)
(* contract states: no rounding or formatting on the way from the corpus   *)
(* to the signature shifts it.                                             *)
SignedAmountIsListPrice ==
    \A d \in DOMAIN deals : Formed(d) =>
        LET q == QueryOf(deals[d].negotiationId)
            slice == EvaluateQuery(q, corpus)
        IN  UsdcBaseUnits(deals[d].contract.terms.amount)
              = 10000 * PriceQuery(Cardinality(slice), ToSet(q.columns), RateCard).listCents

(* The corpus without the values of the measures outside columns. *)
Masked(columns) ==
    [i \in DOMAIN corpus |->
        [corpus[i] EXCEPT !.values =
            [m \in Measures |-> IF m \in columns THEN corpus[i].values[m] ELSE Null]]]

(* A quote tells nothing of the measures it does not sell: price, counts,  *)
(* commitments and sample are the same over a corpus from which all the    *)
(* other measures were removed, whatever the filters ask for.              *)
UnsoldColumnsDoNotShow ==
    \A n \in DOMAIN quotes :
        LET body == quotes[n].body
        IN  ComposeQuote(body, Masked(ToSet(QueryOf(n).columns))) = ComposeQuote(body, corpus)

(* A buyer can predict a slice from the signed card: a query that filters  *)
(* by state alone matches every tract of those states, except in the       *)
(* states the card lists as unavailable for a purchased measure.           *)
CardPredictsSlice ==
    \A n \in DOMAIN quotes :
        LET q == QueryOf(n)
            withheld == UNION {Card(corpus).unavailable[m] : m \in ToSet(q.columns)}
        IN  q.counties = {} /\ q.minPopulation = Null /\ q.thresholds = << >>
              => EvaluateQuery(q, corpus)
                   = {i \in DOMAIN corpus : /\ corpus[i].stateAbbr \notin withheld
                                            /\ q.states # {} => corpus[i].stateAbbr \in q.states}

(* The file that is delivered always passes the buyer's own regeneration,  *)
(* and the locators it was sent keep working, unless a later delivery of   *)
(* the same deal replaced the capability.                                  *)
VerifiedUnlessReplaced ==
    \A b \in Buyers :
        /\ session[b].at # "rejected"
        /\ session[b].at = "unfetched" => deals[session[b].d].deliveries > 1

(* Capabilities reach nobody but the party whose signature is on the       *)
(* countersigned contract, although anyone may propose a contract of       *)
(* anybody, from any address, and request a delivery.                      *)
CapabilityGoesToSigner ==
    \A h \in holds :
        LET contract == deals[h.dealId].contract
        IN  /\ Len(contract.signatures) = 2
            /\ contract.signatures[1].by = h.by
            /\ contract.signatures[1].over = contract.terms

(* A repeated or late request never takes a deal back: once delivered it   *)
(* stays delivered, under the contract that was countersigned.             *)
DeliveredStays ==
    [][\A d \in DOMAIN deals : deals[d].state = "DELIVERED_LOCAL" =>
        /\ deals'[d].state = "DELIVERED_LOCAL"
        /\ deals'[d].contract = deals[d].contract]_vars

-----------------------------------------------------------------------------
(* The store behind the deals, by its own specification.  The name of a    *)
(* document is the number of the first quote that carries it; a deal is    *)
(* inserted under the next number.                                         *)
DocumentName(n) == Min({m \in DOMAIN quotes : quotes[m].document = quotes[n].document})

DealsOf(n) == {d \in DOMAIN deals : deals[d].negotiationId = n}

StoreNegotiations ==
    [n \in DOMAIN asked |->
        [buyerAgentId |-> asked[n], dealIds |-> DealsOf(n),
         state |-> IF n \notin DOMAIN quotes THEN "REFUSED"
                   ELSE IF DealsOf(n) = {} THEN "QUOTED" ELSE "AGREEMENT_STARTED"]]

StoreQuotes ==
    [n \in DOMAIN quotes |-> [buyerAgentId |-> asked[n], termsDocumentHash |-> DocumentName(n)]]

StoreDeals ==
    [d \in DOMAIN deals |->
        [negotiationId |-> deals[d].negotiationId,
         termsDocumentHash |-> DocumentName(deals[d].negotiationId),
         buyerAddress |-> deals[d].buyerAddress, state |-> deals[d].state,
         runtimeState |-> "UNSEEN", capabilityToken |-> deals[d].capability # 0,
         capabilityRevoked |-> FALSE, updatedAt |-> 0, order |-> d]]

StorePreparing == {[dealId |-> p.dealId, order |-> p.dealId] : p \in preparing}

Store == INSTANCE SellerStore WITH
    Buyers <- Callers, Addresses <- Callers,
    Documents <- 1..MaxNegotiations, NoDocument <- 0,
    LocalDealIds <- DealIds, LiveDealIds <- {}, Reports <- {},
    MaxOpenNegotiations <- 1024, MaxReclaimableDeals <- 1024, ReclaimableDealTTL <- 900,
    MaxQuotes <- MaxNegotiations, MaxInserts <- MaxDeals, MaxClock <- 0,
    negotiations <- StoreNegotiations, quotes <- StoreQuotes, deals <- StoreDeals,
    issued <- Len(asked), drawn <- DOMAIN deals, inserted <- Cardinality(DOMAIN deals),
    preparing <- StorePreparing, clock <- 0

(* The deals of this module are those of the store: every step of the      *)
(* executor is a step of DataSeller's methods, or leaves the store alone.  *)
ImplementsStore == Store!Spec

-----------------------------------------------------------------------------
(* Documented, and not what the code does (see the README).                *)

(* terms.ts on the delivery of a deal: "its manifest satisfies the         *)
(* document's criteriaHash, statsHash and row counts".                     *)
ManifestSatisfiesTerms ==
    \A d \in DOMAIN deals : deals[d].state = "DELIVERED_LOCAL" =>
        LET document == deals[d].contract.terms.document
            manifest == deals[d].manifest
        IN  /\ manifest.criteriaHash = document.criteriaHash
            /\ manifest.sourceStatsHash = document.statsHash
            /\ manifest.rowCount = document.totalRows

(* card-params.json: every tract of a purchased slice is guaranteed its    *)
(* rows, so a slice that was quoted and countersigned can be generated.    *)
CountersignedIsDeliverable ==
    \A d \in DOMAIN deals : Formed(d) =>
        LET document == deals[d].contract.terms.document
        IN  Allocatable(EvaluateQuery(QueryOf(deals[d].negotiationId), corpus),
                        document.rowsPerTract, document.totalRows)
=============================================================================
