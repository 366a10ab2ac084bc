--------------------------- MODULE DataDealProofs ---------------------------
(***************************************************************************)
(* Proofs about DataDeal, for any corpus, any request bodies, any number   *)
(* of callers, negotiations, deals and deliveries.                         *)
(*                                                                         *)
(* The invariant follows a deal from the quote to the file.  A quote is    *)
(* what composeQuote() makes of its body over the corpus that is served;   *)
(* a deal carries the document of its quote; a formed deal is signed by    *)
(* the address that proposed it, at the list price; a delivered deal has   *)
(* the manifest of its newest capability; and a buyer's script holds the   *)
(* manifest of the capability it was sent, which is the newest one unless  *)
(* the deal was delivered again.                                           *)
(***************************************************************************)
EXTENDS DataDeal, FiniteSetTheorems, SequenceTheorems, WellFoundedInduction, TLAPS

(* The corpus is checked before anything is quoted from it. *)
CorpusInv ==
    /\ status \in {"booting", "serving", "refused"}
    /\ corpus \in Seq(Tract)
    /\ status = "serving" => CardMatchesCorpus(Card(corpus), corpus)
    /\ status # "serving" => DOMAIN quotes = {}

QuoteOK(n) ==
    /\ \E x \in Callers : quotes[n].body \in Bodies[x]
    /\ ComposeQuote(quotes[n].body, corpus).accepted
    /\ ComposeQuote(quotes[n].body, corpus).priceable
    /\ quotes[n].document = TermsDocument(ComposeQuote(quotes[n].body, corpus))

QuotesInv ==
    /\ asked \in Seq(Callers) /\ Len(asked) <= MaxNegotiations
    /\ DOMAIN quotes \subseteq 1..Len(asked)
    /\ \A n \in DOMAIN quotes : QuoteOK(n)

(* The manifest of a delivery of deal d, quoted as n, under a capability,  *)
(* and that the delivery can be generated.                                 *)
ManifestFor(d, n, capability) ==
    Manifest(d, d, ReadQuery(quotes[n].body), quotes[n].document.rowsPerTract,
             quotes[n].document.statsHash, capability, corpus)

CanDeliver(d, n) ==
    ~DeliveryThrows(d, ReadQuery(quotes[n].body), quotes[n].document.rowsPerTract,
                    quotes[n].document.statsHash, corpus)

DealTyped(deal) ==
    /\ deal = [negotiationId |-> deal.negotiationId, buyerAddress |-> deal.buyerAddress,
               contract |-> deal.contract, state |-> deal.state, capability |-> deal.capability,
               deliveries |-> deal.deliveries, manifest |-> deal.manifest]
    /\ deal.contract = [terms |-> deal.contract.terms, signatures |-> deal.contract.signatures]
    /\ deal.negotiationId \in DOMAIN quotes
    /\ deal.buyerAddress \in Callers
    /\ deal.state \in {"PROPOSED_LOCAL", "ACCEPTED_LOCAL", "DELIVERED_LOCAL"}
    /\ deal.capability \in 0..minted
    /\ deal.deliveries \in Nat

(* Formed: countersigned over the quoted document, at the list price. *)
DealSigned(deal) ==
    /\ deal.contract.terms.document = quotes[deal.negotiationId].document
    /\ deal.state # "PROPOSED_LOCAL" =>
        /\ Len(deal.contract.signatures) = 2
        /\ deal.contract.signatures[1].by = deal.buyerAddress
        /\ deal.contract.signatures[1].over = deal.contract.terms
        /\ deal.contract.terms.amount
             = ToFixed2(ComposeQuote(quotes[deal.negotiationId].body, corpus).price.listCents)

DealDelivered(d, deal) ==
    deal.state = "DELIVERED_LOCAL" =>
        /\ deal.deliveries > 0
        /\ deal.manifest = ManifestFor(d, deal.negotiationId, deal.capability)
        /\ CanDeliver(d, deal.negotiationId)

DealsInv ==
    /\ \E k \in 0..MaxDeals : DOMAIN deals = 1..k
    /\ \A d \in DOMAIN deals :
        DealTyped(deals[d]) /\ DealSigned(deals[d]) /\ DealDelivered(d, deals[d])

(* A buyer's requests, and the deliveries begun for it, are for its deal.  *)
ForOwnDeal(x, d) ==
    x \in Buyers =>
        /\ session[x].at \notin {"idle", "error", "quoted", "proposed", "accepted"}
        /\ session[x].d = d

RequestOK(r) ==
    /\ r \in [dealId : DOMAIN deals, requestedAt : 0..clock, by : Callers, caller : Callers]
    /\ r.by = r.caller
    /\ ForOwnDeal(r.caller, r.dealId)

PreparingOK(p) ==
    /\ p \in [dealId : DOMAIN deals, capability : 1..minted, caller : Callers]
    /\ ForOwnDeal(p.caller, p.dealId)
    /\ p.caller = deals[p.dealId].buyerAddress
    /\ deals[p.dealId].state # "PROPOSED_LOCAL"
    /\ CanDeliver(p.dealId, deals[p.dealId].negotiationId)

HoldOK(h) ==
    /\ h \in [by : Callers, dealId : DOMAIN deals, capability : 1..minted]
    /\ h.by = deals[h.dealId].buyerAddress
    /\ deals[h.dealId].state # "PROPOSED_LOCAL"

WireInv ==
    /\ minted \in 0..MaxMints /\ clock \in 0..MaxClock
    /\ \A r \in requests : RequestOK(r)
    /\ \A p \in preparing : PreparingOK(p)
    /\ \A h \in holds : HoldOK(h)

(* The script of a buyer. *)
SessionTyped(s) ==
    /\ s = [at |-> s.at, n |-> s.n, d |-> s.d, capability |-> s.capability,
            manifest |-> s.manifest]
    /\ s.at \in {"idle", "error", "quoted", "refused", "proposed", "accepted", "waiting",
                 "delivered", "fetched", "unfetched", "verified"}
    /\ s.at = "quoted" => s.n \in DOMAIN quotes
    /\ s.at \in {"proposed", "accepted", "waiting", "delivered", "fetched", "unfetched"} =>
        s.d \in DOMAIN deals /\ deals[s.d].negotiationId = s.n

SessionServed(s) ==
    /\ s.at \in {"delivered", "fetched"} =>
        /\ deals[s.d].state = "DELIVERED_LOCAL"
        /\ s.manifest = ManifestFor(s.d, s.n, s.capability)
        /\ s.capability = deals[s.d].capability \/ deals[s.d].deliveries > 1
    /\ s.at = "unfetched" => deals[s.d].deliveries > 1

SessionsInv ==
    /\ DOMAIN session = Buyers
    /\ session = [b \in Buyers |-> session[b]]
    /\ \A b \in Buyers : SessionTyped(session[b]) /\ SessionServed(session[b])

DealInv == CorpusInv /\ QuotesInv /\ DealsInv /\ WireInv /\ SessionsInv

-----------------------------------------------------------------------------
(* Induction, from the well-foundedness of the natural numbers. *)
LEMMA InductionOnNat ==
    ASSUME NEW T, 0 \in T, \A n \in Nat : n \in T => n + 1 \in T
    PROVE  Nat \subseteq T
<1> DEFINE R == OpToRel(<, Nat)
           U == Nat \ T
<1> SUFFICES ASSUME U # {} PROVE FALSE
  OBVIOUS
<1>1. IsWellFoundedOn(R, Nat)
  BY NatLessThanWellFounded
<1>2. U \subseteq Nat
  OBVIOUS
<1> HIDE DEF R, U
<1>3. PICK x \in U : \A y \in U : ~(<<y, x>> \in R)
  BY <1>1, <1>2, WFMin
<1>4. x \in Nat /\ x - 1 \in U
  BY DEF U
<1>5. <<x - 1, x>> \in R
  BY <1>2, <1>4 DEF R, OpToRel
<1> QED BY <1>3, <1>4, <1>5

(* The loop of loadPlaces() ends with a sequence of tracts.  The function  *)
(* that the definition chooses exists up to any line, so it is the one the *)
(* definition describes.                                                   *)
LEMMA LoadedTracts ==
    ASSUME NEW lines \in Seq(Tract)
    PROVE  LoadPlaces(lines) \in Seq(Tract)
<1> DEFINE Step(s, k) == IF lines[k].stateAbbr = "" THEN s ELSE Append(s, lines[k])
           Body(g, k) == IF k = 0 THEN << >> ELSE Step(g[k - 1], k)
           N == Len(lines)
           loaded == CHOOSE g : g = [k \in 0..N |-> Body(g, k)]
           Built(n, g) == /\ g \in [0..n -> Seq(Tract)]
                          /\ \A k \in 0..n : g[k] = Body(g, k)
           T == {n \in Nat : n <= N => \E g : Built(n, g)}
<1>1. N \in Nat /\ \A k \in 1..N : lines[k] \in Tract
  BY LenProperties, ElementOfSeq
<1>2. << >> \in Seq(Tract)
  BY EmptySeq
<1>3. ASSUME NEW k \in 1..N, NEW s \in Seq(Tract) PROVE Step(s, k) \in Seq(Tract)
  <2>1. lines[k] \in Tract
    BY <1>1
  <2> QED BY <2>1, AppendProperties
<1> HIDE DEF Step, N
<1>4. 0 \in T
  <2>1. Built(0, [k \in 0..0 |-> << >>])
    BY <1>2
  <2> HIDE DEF Built
  <2> QED BY <2>1
<1> HIDE DEF Built
<1>5. ASSUME NEW n \in Nat, n \in T PROVE n + 1 \in T
  <2> SUFFICES ASSUME n + 1 <= N PROVE \E g : Built(n + 1, g)
    OBVIOUS
  <2>1. PICK f : Built(n, f)
    BY <1>1, <1>5
  <2> USE DEF Built
  <2> DEFINE g == [k \in 0..(n + 1) |-> IF k <= n THEN f[k] ELSE Step(f[n], n + 1)]
  <2>2. f[n] \in Seq(Tract) /\ n + 1 \in 1..N
    BY <1>1, <2>1
  <2>3. Step(f[n], n + 1) \in Seq(Tract)
    BY <1>3, <2>2
  <2>4. g \in [0..(n + 1) -> Seq(Tract)]
    BY <2>1, <2>3
  <2>5. \A k \in 0..(n + 1) : g[k] = Body(g, k)
    <3> TAKE k \in 0..(n + 1)
    <3>1. CASE k = 0
      BY <2>1, <3>1
    <3>2. CASE k \in 1..n
      BY <2>1, <3>2
    <3>3. CASE k = n + 1
      BY <2>1, <3>3
    <3> QED BY <3>1, <3>2, <3>3
  <2>6. Built(n + 1, g)
    BY <2>4, <2>5
  <2> HIDE DEF g, Built
  <2> QED BY <2>6
<1>6. N \in T
  <2> HIDE DEF T
  <2> QED BY <1>1, <1>4, <1>5, InductionOnNat
<1>7. PICK g : Built(N, g)
  BY <1>1, <1>6
<1>8. g = [k \in 0..N |-> Body(g, k)]
  BY <1>7 DEF Built
<1>9. loaded = [k \in 0..N |-> Body(loaded, k)]
  BY <1>8
<1>10. LoadPlaces(lines) = loaded[N]
  BY DEF LoadPlaces, Step, N
<1> HIDE DEF loaded
<1> DEFINE U == {n \in Nat : n <= N => loaded[n] \in Seq(Tract)}
<1>11. 0 \in U
  BY <1>1, <1>2, <1>9
<1>12. ASSUME NEW n \in Nat, n \in U PROVE n + 1 \in U
  <2> SUFFICES ASSUME n + 1 <= N PROVE loaded[n + 1] \in Seq(Tract)
    OBVIOUS
  <2>1. loaded[n + 1] = Step(loaded[n], n + 1)
    BY <1>1, <1>9
  <2>2. loaded[n] \in Seq(Tract) /\ n + 1 \in 1..N
    BY <1>1, <1>12
  <2> QED BY <1>3, <2>1, <2>2
<1>13. N \in U
  <2> HIDE DEF U
  <2> QED BY <1>1, <1>11, <1>12, InductionOnNat
<1> QED BY <1>1, <1>10, <1>13

-----------------------------------------------------------------------------
LEMMA InitDeal == Init => DealInv
<1> SUFFICES ASSUME Init PROVE DealInv
  OBVIOUS
<1>1. DOMAIN quotes = {} /\ DOMAIN deals = {} /\ << >> \in Seq(Tract) /\ << >> \in Seq(Callers)
  BY EmptySeq DEF Init
<1>2. CorpusInv /\ QuotesInv
  BY <1>1, DealConstants DEF Init, CorpusInv, QuotesInv
<1>3. DealsInv
  BY <1>1, DealConstants DEF Init, DealsInv
<1>4. WireInv
  BY DealConstants DEF Init, WireInv
<1>5. SessionsInv
  BY DEF Init, SessionsInv, SessionTyped, SessionServed, Idle
<1> QED BY <1>2, <1>3, <1>4, <1>5 DEF DealInv

(* Booting: nothing was quoted yet. *)
LEMMA BootKeeps == ASSUME DealInv, NEW file \in Files, Boot(file) PROVE DealInv'
<1> USE DEF DealInv, Boot
<1>1. corpus' \in Seq(Tract)
  BY LoadedTracts, DealConstants
<1>2. DOMAIN quotes = {} /\ DOMAIN deals = {}
  BY DEF CorpusInv, DealsInv, DealTyped
<1>3. CorpusInv'
  BY <1>1, <1>2 DEF CorpusInv, Card
<1>4. QuotesInv'
  BY <1>2 DEF QuotesInv
<1>5. DealsInv'
  BY <1>2 DEF DealsInv
<1>6. WireInv'
  BY <1>2 DEF WireInv, RequestOK, PreparingOK, HoldOK
<1>7. SessionsInv'
  BY <1>2 DEF SessionsInv, SessionTyped, SessionServed
<1> QED BY <1>3, <1>4, <1>5, <1>6, <1>7

(* What is quoted stays quoted. *)
LEMMA QueryFacts ==
    ASSUME DealInv, NEW x \in Callers, NEW body \in Bodies[x], status = "serving",
           Query(x, body), UNCHANGED <<status, corpus>>, Len(asked) < MaxNegotiations
    PROVE  /\ CorpusInv' /\ QuotesInv'
           /\ DOMAIN quotes \subseteq DOMAIN quotes'
           /\ \A n \in DOMAIN quotes : quotes'[n] = quotes[n]
           /\ Quoted(body) => Len(asked) + 1 \in DOMAIN quotes'
<1> DEFINE n == Len(asked) + 1
<1>1. /\ Len(asked) \in Nat /\ asked' \in Seq(Callers) /\ Len(asked') = n
      /\ n \notin DOMAIN quotes /\ DOMAIN quotes \subseteq 1..Len(asked)
      /\ n <= MaxNegotiations
  BY AppendProperties, LenProperties, DealConstants DEF DealInv, QuotesInv, Query
<1>2. CASE ~Quoted(body)
  <2>1. CorpusInv' /\ quotes' = quotes
    BY <1>2 DEF DealInv, CorpusInv, Query
  <2>2. \A m \in DOMAIN quotes' : QuoteOK(m)'
    BY <2>1 DEF DealInv, QuotesInv, QuoteOK
  <2>3. QuotesInv'
    BY <1>1, <2>1, <2>2 DEF DealInv, QuotesInv
  <2> QED BY <1>2, <2>1, <2>3
<1>3. CASE Quoted(body)
  <2>1. /\ DOMAIN quotes' = DOMAIN quotes \cup {n}
        /\ \A m \in DOMAIN quotes : quotes'[m] = quotes[m]
        /\ quotes'[n].body = body
        /\ quotes'[n].document = TermsDocument(ComposeQuote(body, corpus))
    BY <1>1, <1>3 DEF Query
  <2>2. ComposeQuote(body, corpus).accepted /\ ComposeQuote(body, corpus).priceable
    BY <1>3 DEF Quoted
  <2>3. \A m \in DOMAIN quotes' : QuoteOK(m)'
    BY <2>1, <2>2 DEF DealInv, QuotesInv, QuoteOK
  <2>4. QuotesInv'
    BY <1>1, <2>1, <2>3 DEF QuotesInv
  <2>5. CorpusInv'
    BY DEF DealInv, CorpusInv
  <2> QED BY <2>1, <2>4, <2>5
<1> QED BY <1>2, <1>3

(* What happens to the quotes and deals while the seller serves: quotes    *)
(* are kept, a deal keeps its quote and its proposer, and it only advances. *)
DealGrows(old, new) ==
    /\ new.negotiationId = old.negotiationId /\ new.buyerAddress = old.buyerAddress
    /\ old.state # "PROPOSED_LOCAL" => new.state # "PROPOSED_LOCAL"
    /\ old.state = "DELIVERED_LOCAL" => new.state = "DELIVERED_LOCAL"
    /\ old.deliveries > 1 => new.deliveries > 1
    /\ old.state = "DELIVERED_LOCAL" =>
        new.capability = old.capability \/ new.deliveries > 1

Grows ==
    /\ corpus' = corpus
    /\ minted \in Nat /\ minted' \in Nat /\ minted <= minted'
    /\ clock \in Nat /\ clock' \in Nat /\ clock <= clock'
    /\ DOMAIN quotes \subseteq DOMAIN quotes'
    /\ \A n \in DOMAIN quotes : quotes'[n] = quotes[n]
    /\ DOMAIN deals \subseteq DOMAIN deals'
    /\ \A d \in DOMAIN deals : DealGrows(deals[d], deals'[d])

LEMMA NothingGrows ==
    ASSUME DealInv, UNCHANGED <<corpus, deals, minted, clock>>,
           DOMAIN quotes \subseteq DOMAIN quotes', \A n \in DOMAIN quotes : quotes'[n] = quotes[n]
    PROVE  Grows
<1>1. minted \in Nat /\ clock \in Nat
  BY DealConstants DEF DealInv, WireInv
<1> QED BY <1>1 DEF Grows, DealGrows

(* What is true of requests, deliveries, capabilities and scripts is still *)
(* true when the deals have grown.                                         *)
LEMMA QuoteOfDeal == ASSUME DealInv, NEW d \in DOMAIN deals
                     PROVE  deals[d].negotiationId \in DOMAIN quotes
  BY DEF DealInv, DealsInv, DealTyped

LEMMA DealStays ==
    ASSUME DealInv, Grows, NEW d \in DOMAIN deals, deals'[d] = deals[d]
    PROVE  DealTyped(deals[d])' /\ DealSigned(deals[d])' /\ DealDelivered(d, deals[d])'
<1>1. DealTyped(deals[d]) /\ DealSigned(deals[d]) /\ DealDelivered(d, deals[d])
  BY DEF DealInv, DealsInv
<1>2. /\ deals[d].negotiationId \in DOMAIN quotes
      /\ quotes'[deals[d].negotiationId] = quotes[deals[d].negotiationId]
      /\ DOMAIN quotes \subseteq DOMAIN quotes' /\ corpus' = corpus
      /\ 0..minted \subseteq 0..minted'
  BY QuoteOfDeal DEF Grows
<1>3. DealTyped(deals[d])'
  BY <1>1, <1>2 DEF DealTyped
<1>4. DealSigned(deals[d])'
  BY <1>1, <1>2 DEF DealSigned
<1>5. DealDelivered(d, deals[d])'
  BY <1>1, <1>2 DEF DealDelivered, ManifestFor, CanDeliver
<1> QED BY <1>3, <1>4, <1>5

LEMMA RequestStays ==
    ASSUME DealInv, Grows, NEW r \in requests,
           ForOwnDeal(r.caller, r.dealId) => ForOwnDeal(r.caller, r.dealId)'
    PROVE  RequestOK(r)'
  BY DEF DealInv, WireInv, RequestOK, Grows

LEMMA PreparingStays ==
    ASSUME DealInv, Grows, NEW p \in preparing,
           ForOwnDeal(p.caller, p.dealId) => ForOwnDeal(p.caller, p.dealId)'
    PROVE  PreparingOK(p)'
<1>1. PreparingOK(p)
  BY DEF DealInv, WireInv
<1>2. p.dealId \in DOMAIN deals
  BY <1>1 DEF PreparingOK
<1>3. deals[p.dealId].negotiationId \in DOMAIN quotes
  BY <1>2, QuoteOfDeal
<1>4. CanDeliver(p.dealId, deals[p.dealId].negotiationId)'
  BY <1>1, <1>2, <1>3 DEF PreparingOK, Grows, DealGrows, CanDeliver
<1> QED BY <1>1, <1>2, <1>4 DEF PreparingOK, Grows, DealGrows

LEMMA HoldStays == ASSUME DealInv, Grows, NEW h \in holds PROVE HoldOK(h)'
  BY DEF DealInv, WireInv, HoldOK, Grows, DealGrows

LEMMA SessionStays ==
    ASSUME DealInv, Grows, NEW b \in Buyers, session'[b] = session[b]
    PROVE  SessionTyped(session[b])' /\ SessionServed(session[b])'
<1> DEFINE s == session[b]
<1>1. SessionTyped(s) /\ SessionServed(s)
  BY DEF DealInv, SessionsInv
<1>2. SessionTyped(session[b])'
  BY <1>1 DEF SessionTyped, Grows, DealGrows
<1>3. CASE s.at \in {"delivered", "fetched"}
  <2>1. s.d \in DOMAIN deals /\ s.n \in DOMAIN quotes
    BY <1>1, <1>3, QuoteOfDeal DEF SessionTyped
  <2>2. quotes'[s.n] = quotes[s.n] /\ corpus' = corpus /\ DealGrows(deals[s.d], deals'[s.d])
    BY <2>1 DEF Grows
  <2>3. (session[b].manifest = ManifestFor(session[b].d, session[b].n, session[b].capability))'
    BY <1>1, <1>3, <2>2 DEF SessionServed, ManifestFor
  <2> QED BY <1>1, <1>2, <1>3, <2>2, <2>3 DEF SessionServed, DealGrows
<1>4. CASE s.at \notin {"delivered", "fetched"}
  <2>1. s.at = "unfetched" => s.d \in DOMAIN deals
    BY <1>1 DEF SessionTyped
  <2> QED BY <1>1, <1>2, <1>4, <2>1 DEF SessionServed, Grows, DealGrows
<1> QED BY <1>3, <1>4

(* All scripts but one are where they were. *)
LEMMA OthersStay ==
    ASSUME DealInv, Grows, NEW b \in Buyers,
           DOMAIN session' = Buyers, session' = [c \in Buyers |-> session'[c]],
           \A c \in Buyers \ {b} : session'[c] = session[c],
           SessionTyped(session[b])', SessionServed(session[b])'
    PROVE  SessionsInv'
<1>1. ASSUME NEW c \in Buyers \ {b}
      PROVE  SessionTyped(session[c])' /\ SessionServed(session[c])'
  BY SessionStays
<1> QED BY <1>1 DEF SessionsInv

(* What is on the wire is old, or is as it should be. *)
LEMMA WireKeeps ==
    ASSUME DealInv, Grows, NEW R, NEW P, NEW H,
           minted' \in 0..MaxMints, clock' \in 0..MaxClock,
           requests' \subseteq requests \cup R, preparing' \subseteq preparing \cup P,
           holds' \subseteq holds \cup H,
           \A r \in R : RequestOK(r)', \A p \in P : PreparingOK(p)', \A h \in H : HoldOK(h)',
           \A x, d : ForOwnDeal(x, d) => ForOwnDeal(x, d)'
    PROVE  WireInv'
<1>1. ASSUME NEW r \in requests' PROVE RequestOK(r)'
  <2>1. CASE r \in requests
    BY <2>1, RequestStays
  <2>2. CASE r \in R
    BY <2>2
  <2> QED BY <1>1, <2>1, <2>2
<1>2. ASSUME NEW p \in preparing' PROVE PreparingOK(p)'
  <2>1. CASE p \in preparing
    BY <2>1, PreparingStays
  <2>2. CASE p \in P
    BY <2>2
  <2> QED BY <1>2, <2>1, <2>2
<1>3. ASSUME NEW h \in holds' PROVE HoldOK(h)'
  <2>1. CASE h \in holds
    BY <2>1, HoldStays
  <2>2. CASE h \in H
    BY <2>2
  <2> QED BY <1>3, <2>1, <2>2
<1> QED BY <1>1, <1>2, <1>3 DEF WireInv

(* The query kind. *)
LEMMA BuyerAsksKeeps ==
    ASSUME DealInv, NEW b \in Buyers, NEW body \in Bodies[b], BuyerAsks(b, body)
    PROVE  DealInv'
<1>1. /\ status = "serving" /\ session[b].at = "idle"
      /\ UNCHANGED <<status, corpus, deals, minted, requests, preparing, holds, clock>>
  BY DEF BuyerAsks
<1>2. /\ CorpusInv' /\ QuotesInv'
      /\ DOMAIN quotes \subseteq DOMAIN quotes'
      /\ \A n \in DOMAIN quotes : quotes'[n] = quotes[n]
      /\ session'[b].at \in {"error", "quoted", "refused"}
      /\ session'[b].at = "quoted" => session'[b].n \in DOMAIN quotes'
      /\ session'[b] = [at |-> session'[b].at, n |-> session'[b].n, d |-> session'[b].d,
                        capability |-> session'[b].capability, manifest |-> session'[b].manifest]
      /\ DOMAIN session' = Buyers /\ session' = [c \in Buyers |-> session'[c]]
      /\ \A c \in Buyers \ {b} : session'[c] = session[c]
  <2>1. CASE QuoteThrows(body, corpus)
    <3>1. CorpusInv' /\ QuotesInv' /\ quotes' = quotes
      BY <1>1, <2>1 DEF BuyerAsks, DealInv, CorpusInv, QuotesInv, QuoteOK
    <3> QED BY <3>1, <2>1 DEF BuyerAsks, DealInv, SessionsInv, SessionTyped
  <2>2. CASE ~QuoteThrows(body, corpus)
    <3>1. /\ CorpusInv' /\ QuotesInv'
          /\ DOMAIN quotes \subseteq DOMAIN quotes'
          /\ \A n \in DOMAIN quotes : quotes'[n] = quotes[n]
          /\ Quoted(body) => Len(asked) + 1 \in DOMAIN quotes'
      BY <1>1, <2>2, QueryFacts DEF BuyerAsks, Callers
    <3>2. session' = [session EXCEPT ![b].at = IF Quoted(body) THEN "quoted" ELSE "refused",
                                     ![b].n = Len(asked) + 1]
      BY <2>2 DEF BuyerAsks
    <3>3. /\ DOMAIN session' = Buyers /\ session' = [c \in Buyers |-> session'[c]]
          /\ \A c \in Buyers \ {b} : session'[c] = session[c]
          /\ session'[b] = [session[b] EXCEPT !.at = IF Quoted(body) THEN "quoted" ELSE "refused",
                                              !.n = Len(asked) + 1]
      BY <3>2 DEF DealInv, SessionsInv
    <3>4. SessionTyped(session[b])
      BY DEF DealInv, SessionsInv
    <3>5. /\ session'[b].at = IF Quoted(body) THEN "quoted" ELSE "refused"
          /\ session'[b].n = Len(asked) + 1
          /\ session'[b] = [at |-> session'[b].at, n |-> session'[b].n, d |-> session'[b].d,
                            capability |-> session'[b].capability,
                            manifest |-> session'[b].manifest]
      BY <3>3, <3>4 DEF SessionTyped
    <3> QED BY <3>1, <3>3, <3>5
  <2> QED BY <2>1, <2>2
<1>3. Grows
  BY <1>1, <1>2, NothingGrows
<1>4. DealsInv'
  BY <1>1, <1>3, DealStays DEF DealInv, DealsInv
<1>5. SessionsInv'
  <2>1. SessionTyped(session[b])' /\ SessionServed(session[b])'
    BY <1>2 DEF SessionTyped, SessionServed
  <2> QED BY <1>2, <1>3, <2>1, OthersStay
<1>6. \A x, d : ForOwnDeal(x, d) => ForOwnDeal(x, d)'
  BY <1>1, <1>2 DEF ForOwnDeal
<1>7. WireInv'
  BY <1>1, <1>3, <1>6, RequestStays, PreparingStays, HoldStays DEF DealInv, WireInv
<1> QED BY <1>2, <1>4, <1>5, <1>7 DEF DealInv

LEMMA StrangerAsksKeeps ==
    ASSUME DealInv, NEW x \in Strangers, NEW body \in Bodies[x], StrangerAsks(x, body)
    PROVE  DealInv'
<1>1. /\ status = "serving"
      /\ UNCHANGED <<status, corpus, deals, minted, requests, preparing, holds, session, clock>>
  BY DEF StrangerAsks
<1>2. /\ CorpusInv' /\ QuotesInv'
      /\ DOMAIN quotes \subseteq DOMAIN quotes'
      /\ \A n \in DOMAIN quotes : quotes'[n] = quotes[n]
  BY <1>1, QueryFacts DEF StrangerAsks, Callers
<1>3. Grows
  BY <1>1, <1>2, NothingGrows
<1>4. DealsInv'
  BY <1>1, <1>3, DealStays DEF DealInv, DealsInv
<1>5. SessionsInv'
  BY <1>1, <1>3, SessionStays DEF DealInv, SessionsInv
<1>6. WireInv'
  BY <1>1, <1>3, RequestStays, PreparingStays, HoldStays DEF DealInv, WireInv, ForOwnDeal
<1> QED BY <1>2, <1>4, <1>5, <1>6 DEF DealInv

-----------------------------------------------------------------------------
(* A proposal takes a new id and leaves the other deals alone. *)
LEMMA SubmitFacts ==
    ASSUME DealInv, NEW d, NEW n, NEW contract, NEW x \in Callers,
           SubmitProposal(d, n, contract, x),
           contract = [terms |-> contract.terms, signatures |-> contract.signatures],
           UNCHANGED <<corpus, quotes, minted, clock>>
    PROVE  /\ d \notin DOMAIN deals /\ n \in DOMAIN quotes
           /\ DOMAIN deals' = DOMAIN deals \cup {d}
           /\ \A e \in DOMAIN deals : deals'[e] = deals[e]
           /\ deals'[d].negotiationId = n
           /\ DealsInv' /\ Grows
<1>1. PICK k \in 0..MaxDeals : DOMAIN deals = 1..k
  BY DEF DealInv, DealsInv
<1>2. d = k + 1 /\ d \in 1..MaxDeals /\ k \in Nat
  <2>1. k \in Nat
    BY <1>1, DealConstants
  <2>2. Cardinality(1..k) = k
    BY <2>1, FS_Interval
  <2> QED BY <1>1, <2>1, <2>2 DEF SubmitProposal, DealIds
<1>3. /\ d \notin DOMAIN deals /\ n \in DOMAIN quotes
      /\ DOMAIN deals' = DOMAIN deals \cup {d}
      /\ \A e \in DOMAIN deals : deals'[e] = deals[e]
      /\ deals'[d] = [negotiationId |-> n, buyerAddress |-> x, contract |-> contract,
                      state |-> "PROPOSED_LOCAL", capability |-> 0, deliveries |-> 0,
                      manifest |-> NoManifest]
      /\ contract.terms.document = quotes[n].document
  BY <1>1, <1>2 DEF SubmitProposal, Selects
<1>4. DOMAIN deals' = 1..(k + 1) /\ k + 1 \in 0..MaxDeals
  BY <1>1, <1>2, <1>3, DealConstants
<1>5. DealTyped(deals[d])' /\ DealSigned(deals[d])' /\ DealDelivered(d, deals[d])'
  BY <1>3 DEF DealInv, WireInv, DealTyped, DealSigned, DealDelivered
<1>6. Grows
  BY <1>3, DealConstants DEF Grows, DealGrows, DealInv, WireInv
<1>7. ASSUME NEW e \in DOMAIN deals
      PROVE  DealTyped(deals[e])' /\ DealSigned(deals[e])' /\ DealDelivered(e, deals[e])'
  BY <1>3, <1>6, DealStays
<1> QED BY <1>3, <1>4, <1>5, <1>6, <1>7 DEF DealsInv

LEMMA BuyerProposesKeeps ==
    ASSUME DealInv, NEW b \in Buyers, NEW d \in DealIds, BuyerProposes(b, d)
    PROVE  DealInv'
<1> DEFINE n == session[b].n
           contract == Signed(TermsFor(b, quotes[n].document), b)
<1>1. /\ session[b].at = "quoted" /\ SubmitProposal(d, n, contract, b)
      /\ session' = [session EXCEPT ![b].at = "proposed", ![b].d = d]
      /\ UNCHANGED <<status, corpus, asked, quotes, minted, requests, preparing, holds, clock>>
  BY DEF BuyerProposes
<1>2. contract = [terms |-> contract.terms, signatures |-> contract.signatures]
  BY DEF Signed
<1>3. b \in Callers
  BY DEF Callers
<1> HIDE DEF contract
<1>4. /\ d \notin DOMAIN deals /\ n \in DOMAIN quotes
      /\ DOMAIN deals' = DOMAIN deals \cup {d}
      /\ deals'[d].negotiationId = n
      /\ DealsInv' /\ Grows
  BY <1>1, <1>2, <1>3, SubmitFacts
<1>5. CorpusInv' /\ QuotesInv'
  BY <1>1 DEF DealInv, CorpusInv, QuotesInv, QuoteOK
<1>6. /\ DOMAIN session' = Buyers /\ session' = [c \in Buyers |-> session'[c]]
      /\ \A c \in Buyers \ {b} : session'[c] = session[c]
      /\ session'[b] = [session[b] EXCEPT !.at = "proposed", !.d = d]
  BY <1>1 DEF DealInv, SessionsInv
<1>7. SessionTyped(session[b])' /\ SessionServed(session[b])'
  <2>1. SessionTyped(session[b])
    BY DEF DealInv, SessionsInv
  <2> QED BY <1>4, <1>6, <2>1 DEF SessionTyped, SessionServed
<1>8. SessionsInv'
  BY <1>4, <1>6, <1>7, OthersStay
<1>9. \A x, e : ForOwnDeal(x, e) => ForOwnDeal(x, e)'
  BY <1>1, <1>6 DEF ForOwnDeal
<1>10. WireInv'
  BY <1>1, <1>4, <1>9, RequestStays, PreparingStays, HoldStays DEF DealInv, WireInv
<1> QED BY <1>4, <1>5, <1>8, <1>10 DEF DealInv

LEMMA StrangerProposesKeeps ==
    ASSUME DealInv, NEW x \in Strangers, NEW n, NEW d, StrangerProposes(x, n, d)
    PROVE  DealInv'
<1> DEFINE offered == TermsFor(asked[n], quotes[n].document)
<1>1. PICK contract \in {Signed(terms, x) : terms \in Altered(offered) \cup {offered}}
                        \cup {deals[e].contract : e \in DOMAIN deals} :
         SubmitProposal(d, n, contract, x)
  BY DEF StrangerProposes
<1>2. contract = [terms |-> contract.terms, signatures |-> contract.signatures]
  <2> HIDE DEF offered
  <2>1. \/ \E terms : contract = Signed(terms, x)
        \/ \E e \in DOMAIN deals : contract = deals[e].contract
    OBVIOUS
  <2>2. ASSUME NEW terms, contract = Signed(terms, x)
        PROVE  contract = [terms |-> contract.terms, signatures |-> contract.signatures]
    BY <2>2 DEF Signed
  <2>3. ASSUME NEW e \in DOMAIN deals, contract = deals[e].contract
        PROVE  contract = [terms |-> contract.terms, signatures |-> contract.signatures]
    BY <2>3 DEF DealInv, DealsInv, DealTyped
  <2> QED BY <2>1, <2>2, <2>3
<1>3. UNCHANGED <<status, corpus, asked, quotes, minted, requests, preparing, holds,
                  session, clock>>
  BY DEF StrangerProposes
<1>4. x \in Callers
  BY DEF Callers
<1> HIDE DEF offered
<1>5. DealsInv' /\ Grows
  BY <1>1, <1>2, <1>3, <1>4, SubmitFacts
<1>6. CorpusInv' /\ QuotesInv'
  BY <1>3 DEF DealInv, CorpusInv, QuotesInv, QuoteOK
<1>7. SessionsInv'
  BY <1>3, <1>5, SessionStays DEF DealInv, SessionsInv
<1>8. WireInv'
  BY <1>3, <1>5, RequestStays, PreparingStays, HoldStays DEF DealInv, WireInv, ForOwnDeal
<1> QED BY <1>5, <1>6, <1>7, <1>8 DEF DealInv

-----------------------------------------------------------------------------
(* A contract is countersigned once: afterwards it has two signatures, and *)
(* acceptTerms() takes it no more.                                         *)
LEMMA AcceptFacts ==
    ASSUME DealInv, NEW d \in DOMAIN deals, NEW sig, MayAccept(d, sig), Accept(d),
           UNCHANGED <<corpus, quotes, minted, clock>>
    PROVE  /\ DOMAIN deals' = DOMAIN deals
           /\ deals[d].state = "PROPOSED_LOCAL"
           /\ \A e \in DOMAIN deals \ {d} : deals'[e] = deals[e]
           /\ deals'[d].negotiationId = deals[d].negotiationId
           /\ DealsInv' /\ Grows
<1> DEFINE old == deals[d]
           quote == quotes[old.negotiationId]
<1>1. DealTyped(old) /\ DealSigned(old)
  BY DEF DealInv, DealsInv
<1>2. /\ Len(old.contract.signatures) = 1
      /\ old.contract.signatures[1].by = old.buyerAddress
      /\ old.contract.signatures[1].over = old.contract.terms
      /\ old.contract.terms.amount = ToFixed2(ComposeQuote(quote.body, corpus).price.listCents)
  BY DEF MayAccept, Acceptable, ValidateTerms
<1>3. old.state = "PROPOSED_LOCAL"
  BY <1>1, <1>2 DEF DealSigned
<1>4. /\ DOMAIN deals' = DOMAIN deals
      /\ \A e \in DOMAIN deals \ {d} : deals'[e] = deals[e]
      /\ deals'[d] = [old EXCEPT !.contract = Countersigned(old.contract),
                                 !.state = "ACCEPTED_LOCAL"]
  BY DEF Accept, DealInv, DealsInv
<1>5. /\ deals'[d].contract.terms = old.contract.terms
      /\ deals'[d].contract.signatures
           = <<old.contract.signatures[1],
               [signerAgentId |-> "seller", by |-> "seller", over |-> old.contract.terms]>>
      /\ deals'[d].contract = [terms |-> deals'[d].contract.terms,
                               signatures |-> deals'[d].contract.signatures]
  BY <1>1, <1>4 DEF DealTyped, Countersigned
<1>6. /\ deals'[d].negotiationId = old.negotiationId /\ deals'[d].state = "ACCEPTED_LOCAL"
      /\ deals'[d].buyerAddress = old.buyerAddress /\ deals'[d].capability = old.capability
      /\ deals'[d].deliveries = old.deliveries
      /\ deals'[d] = [negotiationId |-> deals'[d].negotiationId,
                      buyerAddress |-> deals'[d].buyerAddress, contract |-> deals'[d].contract,
                      state |-> deals'[d].state, capability |-> deals'[d].capability,
                      deliveries |-> deals'[d].deliveries, manifest |-> deals'[d].manifest]
  BY <1>1, <1>4 DEF DealTyped
<1>7. Grows
  BY <1>3, <1>4, <1>6, DealConstants DEF Grows, DealGrows, DealInv, WireInv
<1>8. DealTyped(deals[d])'
  BY <1>1, <1>5, <1>6 DEF DealTyped
<1>9. DealSigned(deals[d])' /\ DealDelivered(d, deals[d])'
  BY <1>1, <1>2, <1>5, <1>6 DEF DealSigned, DealDelivered
<1>10. ASSUME NEW e \in DOMAIN deals \ {d}
       PROVE  DealTyped(deals[e])' /\ DealSigned(deals[e])' /\ DealDelivered(e, deals[e])'
  BY <1>4, <1>7, DealStays
<1>11. DealsInv'
  BY <1>4, <1>8, <1>9, <1>10 DEF DealInv, DealsInv
<1> QED BY <1>3, <1>4, <1>6, <1>7, <1>11

LEMMA BuyerRequestsAcceptanceKeeps ==
    ASSUME DealInv, NEW b \in Buyers, BuyerRequestsAcceptance(b)
    PROVE  DealInv'
<1> DEFINE d == session[b].d
           valid == MayAccept(d, AgreementSig(b, d, deals[d].contract.terms))
<1>1. /\ session[b].at = "proposed"
      /\ IF valid THEN Accept(d) ELSE UNCHANGED deals
      /\ session' = [session EXCEPT ![b].at = IF valid THEN "accepted" ELSE "refused"]
      /\ UNCHANGED <<status, corpus, asked, quotes, minted, requests, preparing, holds, clock>>
  BY DEF BuyerRequestsAcceptance
<1>2. SessionTyped(session[b]) /\ d \in DOMAIN deals
  BY <1>1 DEF DealInv, SessionsInv, SessionTyped
<1>3. /\ DealsInv' /\ Grows /\ DOMAIN deals' = DOMAIN deals
      /\ deals'[d].negotiationId = deals[d].negotiationId
  <2>1. CASE valid
    BY <1>1, <1>2, <2>1, AcceptFacts
  <2>2. CASE ~valid
    <3>1. UNCHANGED deals
      BY <1>1, <2>2
    <3>2. Grows
      BY <1>1, <3>1, NothingGrows
    <3> QED BY <3>1, <3>2, DealStays DEF DealInv, DealsInv
  <2> QED BY <2>1, <2>2
<1>4. CorpusInv' /\ QuotesInv'
  BY <1>1 DEF DealInv, CorpusInv, QuotesInv, QuoteOK
<1>5. /\ DOMAIN session' = Buyers /\ session' = [c \in Buyers |-> session'[c]]
      /\ \A c \in Buyers \ {b} : session'[c] = session[c]
      /\ session'[b] = [session[b] EXCEPT !.at = IF valid THEN "accepted" ELSE "refused"]
  BY <1>1 DEF DealInv, SessionsInv
<1> HIDE DEF valid
<1>6. SessionTyped(session[b])' /\ SessionServed(session[b])'
  BY <1>1, <1>2, <1>3, <1>5 DEF SessionTyped, SessionServed
<1>7. SessionsInv'
  BY <1>3, <1>5, <1>6, OthersStay
<1>8. \A x, e : ForOwnDeal(x, e) => ForOwnDeal(x, e)'
  BY <1>1, <1>5 DEF ForOwnDeal
<1>9. WireInv'
  BY <1>1, <1>3, <1>8, RequestStays, PreparingStays, HoldStays DEF DealInv, WireInv
<1> QED BY <1>3, <1>4, <1>7, <1>9 DEF DealInv

LEMMA RepeatAcceptanceKeeps ==
    ASSUME DealInv, NEW x \in Callers, NEW d \in DealIds, RepeatAcceptance(x, d)
    PROVE  DealInv'
<1>1. /\ d \in DOMAIN deals /\ MayAccept(d, AgreementSig(x, d, deals[d].contract.terms))
      /\ Accept(d)
      /\ UNCHANGED <<status, corpus, asked, quotes, minted, requests, preparing, holds,
                     session, clock>>
  BY DEF RepeatAcceptance
<1>2. DealsInv' /\ Grows
  BY <1>1, AcceptFacts
<1>3. CorpusInv' /\ QuotesInv'
  BY <1>1 DEF DealInv, CorpusInv, QuotesInv, QuoteOK
<1>4. SessionsInv'
  BY <1>1, <1>2, SessionStays DEF DealInv, SessionsInv
<1>5. WireInv'
  BY <1>1, <1>2, RequestStays, PreparingStays, HoldStays DEF DealInv, WireInv, ForOwnDeal
<1> QED BY <1>2, <1>3, <1>4, <1>5 DEF DealInv

-----------------------------------------------------------------------------
(* Requests and deliveries. *)
LEMMA BuyerRequestsDeliveryKeeps ==
    ASSUME DealInv, NEW b \in Buyers, BuyerRequestsDelivery(b)
    PROVE  DealInv'
<1>0. PICK r : r = [dealId |-> session[b].d, requestedAt |-> clock, by |-> b, caller |-> b]
  OBVIOUS
<1>1. /\ session[b].at = "accepted"
      /\ requests' = requests \cup {r}
      /\ session' = [session EXCEPT ![b].at = "waiting"]
      /\ UNCHANGED <<status, corpus, asked, quotes, deals, minted, preparing, holds, clock>>
  BY <1>0 DEF BuyerRequestsDelivery
<1>2. SessionTyped(session[b]) /\ session[b].d \in DOMAIN deals
  BY <1>1 DEF DealInv, SessionsInv, SessionTyped
<1>3. Grows
  BY <1>1, NothingGrows
<1>4. DealsInv'
  BY <1>1, <1>3, DealStays DEF DealInv, DealsInv
<1>5. CorpusInv' /\ QuotesInv'
  BY <1>1 DEF DealInv, CorpusInv, QuotesInv, QuoteOK
<1>6. /\ DOMAIN session' = Buyers /\ session' = [c \in Buyers |-> session'[c]]
      /\ \A c \in Buyers \ {b} : session'[c] = session[c]
      /\ session'[b] = [session[b] EXCEPT !.at = "waiting"]
  BY <1>1 DEF DealInv, SessionsInv
<1>7. SessionTyped(session[b])' /\ SessionServed(session[b])'
  BY <1>1, <1>2, <1>6 DEF SessionTyped, SessionServed
<1>8. SessionsInv'
  BY <1>3, <1>6, <1>7, OthersStay
<1>9. \A x, e : ForOwnDeal(x, e) => ForOwnDeal(x, e)'
  BY <1>1, <1>6 DEF ForOwnDeal
<1>10. RequestOK(r)'
  <2>1. ForOwnDeal(r.caller, r.dealId)'
    BY <1>0, <1>1, <1>2, <1>6 DEF ForOwnDeal, SessionTyped
  <2>2. clock \in 0..clock'
    BY <1>1, DealConstants DEF DealInv, WireInv
  <2> QED BY <1>0, <1>1, <1>2, <2>1, <2>2 DEF RequestOK, Callers
<1>11. WireInv'
  <2>1. minted' \in 0..MaxMints /\ clock' \in 0..MaxClock
    BY <1>1 DEF DealInv, WireInv
  <2>3. PICK R, E : R = {r} /\ E = {}
    OBVIOUS
  <2>4. /\ \A q \in R : RequestOK(q)'
        /\ \A p \in E : PreparingOK(p)'
        /\ \A g \in E : HoldOK(g)'
    BY <1>10, <2>3
  <2>5. /\ requests' \subseteq requests \cup R /\ preparing' \subseteq preparing \cup E
        /\ holds' \subseteq holds \cup E
    BY <1>1, <2>3
  <2> QED BY <1>3, <1>9, <2>1, <2>4, <2>5, WireKeeps
<1> QED BY <1>4, <1>5, <1>8, <1>11 DEF DealInv

LEMMA StrangerRequestsDeliveryKeeps ==
    ASSUME DealInv, NEW x \in Strangers, NEW d \in DealIds, StrangerRequestsDelivery(x, d)
    PROVE  DealInv'
<1>0. PICK r : r = [dealId |-> d, requestedAt |-> clock, by |-> x, caller |-> x]
  OBVIOUS
<1>1. /\ d \in DOMAIN deals
      /\ requests' = requests \cup {r}
      /\ UNCHANGED <<status, corpus, asked, quotes, deals, minted, preparing, holds, session,
                     clock>>
  BY <1>0 DEF StrangerRequestsDelivery
<1>2. Grows
  BY <1>1, NothingGrows
<1>3. DealsInv'
  BY <1>1, <1>2, DealStays DEF DealInv, DealsInv
<1>4. CorpusInv' /\ QuotesInv'
  BY <1>1 DEF DealInv, CorpusInv, QuotesInv, QuoteOK
<1>5. SessionsInv'
  BY <1>1, <1>2, SessionStays DEF DealInv, SessionsInv
<1>6. RequestOK(r)'
  <2>1. clock \in 0..clock'
    BY <1>1, DealConstants DEF DealInv, WireInv
  <2> QED BY <1>0, <1>1, <2>1, DealConstants DEF RequestOK, ForOwnDeal, Callers
<1>7. WireInv'
  <2>1. minted' \in 0..MaxMints /\ clock' \in 0..MaxClock
    BY <1>1 DEF DealInv, WireInv
  <2>2. \A y, e : ForOwnDeal(y, e) => ForOwnDeal(y, e)'
    BY <1>1 DEF ForOwnDeal
  <2>3. PICK R, E : R = {r} /\ E = {}
    OBVIOUS
  <2>4. /\ \A q \in R : RequestOK(q)'
        /\ \A p \in E : PreparingOK(p)'
        /\ \A g \in E : HoldOK(g)'
    BY <1>6, <2>3
  <2>5. /\ requests' \subseteq requests \cup R /\ preparing' \subseteq preparing \cup E
        /\ holds' \subseteq holds \cup E
    BY <1>1, <2>3
  <2> QED BY <1>2, <2>1, <2>2, <2>4, <2>5, WireKeeps
<1> QED BY <1>3, <1>4, <1>5, <1>7 DEF DealInv

(* The request-delivery kind, up to the await of the artifact store. *)
LEMMA HandleDeliveryRequestKeeps ==
    ASSUME DealInv, NEW r \in requests, HandleDeliveryRequest(r)
    PROVE  DealInv'
<1>1. RequestOK(r) /\ UNCHANGED <<status, corpus, asked, quotes, deals, requests, holds, clock>>
  BY DEF DealInv, WireInv, HandleDeliveryRequest
<1>2. CorpusInv' /\ QuotesInv'
  BY <1>1 DEF DealInv, CorpusInv, QuotesInv, QuoteOK
<1>3. CASE /\ Fresh(r) /\ MayPrepare(r.dealId) /\ minted < MaxMints /\ minted' = minted + 1
           /\ preparing' = preparing \cup
                {[dealId |-> r.dealId, capability |-> minted + 1, caller |-> r.caller]}
           /\ UNCHANGED session
  <2>1. /\ minted \in Nat /\ clock \in Nat /\ minted + 1 \in 1..minted'
        /\ minted' \in 0..MaxMints /\ clock' \in 0..MaxClock
    BY <1>1, <1>3, DealConstants DEF DealInv, WireInv
  <2>2. Grows
    BY <1>1, <1>3, <2>1 DEF Grows, DealGrows
  <2>3. DealsInv'
    BY <1>1, <2>2, DealStays DEF DealInv, DealsInv
  <2>4. SessionsInv'
    BY <1>3, <2>2, SessionStays DEF DealInv, SessionsInv
  <2>5. PICK p : p = [dealId |-> r.dealId, capability |-> minted + 1, caller |-> r.caller]
    OBVIOUS
  <2>6. PreparingOK(p)'
    <3>1. /\ p.dealId \in DOMAIN deals /\ p.caller \in Callers
          /\ ForOwnDeal(p.caller, p.dealId)
          /\ p.caller = deals[p.dealId].buyerAddress
          /\ deals[p.dealId].state # "PROPOSED_LOCAL"
          /\ CanDeliver(p.dealId, deals[p.dealId].negotiationId)
      BY <1>1, <1>3, <2>5 DEF RequestOK, Fresh, MayPrepare, CanDeliver
    <3>2. ForOwnDeal(p.caller, p.dealId)'
      BY <1>3, <3>1 DEF ForOwnDeal
    <3>3. CanDeliver(p.dealId, deals[p.dealId].negotiationId)'
      BY <1>1, <3>1 DEF CanDeliver
    <3> QED BY <1>1, <2>1, <2>5, <3>1, <3>2, <3>3 DEF PreparingOK
  <2>7. WireInv'
    <3>1. PICK P, E : P = {p} /\ E = {}
      OBVIOUS
    <3>2. /\ \A q \in E : RequestOK(q)'
          /\ \A q \in P : PreparingOK(q)'
          /\ \A g \in E : HoldOK(g)'
      BY <2>6, <3>1
    <3>3. /\ requests' \subseteq requests \cup E /\ preparing' \subseteq preparing \cup P
          /\ holds' \subseteq holds \cup E
      BY <1>1, <1>3, <2>5, <3>1
    <3>4. \A x, d : ForOwnDeal(x, d) => ForOwnDeal(x, d)'
      BY <1>3 DEF ForOwnDeal
    <3> QED BY <2>1, <2>2, <3>2, <3>3, <3>4, WireKeeps
  <2> QED BY <1>2, <2>3, <2>4, <2>7 DEF DealInv
<1>4. CASE /\ r.caller \in Buyers /\ session[r.caller].at = "waiting"
           /\ session' = [session EXCEPT ![r.caller].at = "refused"]
           /\ UNCHANGED <<minted, preparing>>
  <2> DEFINE b == r.caller
  <2>1. Grows
    BY <1>1, <1>4, NothingGrows
  <2>2. DealsInv'
    BY <1>1, <2>1, DealStays DEF DealInv, DealsInv
  <2>3. /\ DOMAIN session' = Buyers /\ session' = [c \in Buyers |-> session'[c]]
        /\ \A c \in Buyers \ {b} : session'[c] = session[c]
        /\ session'[b] = [session[b] EXCEPT !.at = "refused"]
    BY <1>4 DEF DealInv, SessionsInv
  <2>4. SessionTyped(session[b])
    BY <1>4 DEF DealInv, SessionsInv
  <2>5. SessionTyped(session[b])' /\ SessionServed(session[b])'
    BY <1>4, <2>3, <2>4 DEF SessionTyped, SessionServed
  <2>6. SessionsInv'
    BY <1>4, <2>1, <2>3, <2>5, OthersStay
  <2>7. \A x, d : ForOwnDeal(x, d) => ForOwnDeal(x, d)'
    BY <1>4, <2>3 DEF ForOwnDeal
  <2>8. WireInv'
    BY <1>1, <1>4, <2>1, <2>7, RequestStays, PreparingStays, HoldStays DEF DealInv, WireInv
  <2> QED BY <1>2, <2>2, <2>6, <2>8 DEF DealInv
<1> QED BY <1>3, <1>4 DEF HandleDeliveryRequest

(* The artifact is stored: the deal is delivered, under its contract. *)
LEMMA PreparedFacts ==
    ASSUME DealInv, NEW p \in preparing, DeliveryPrepared(p)
    PROVE  /\ PreparingOK(p)
           /\ UNCHANGED <<status, corpus, asked, quotes, minted, requests, clock>>
           /\ DOMAIN deals' = DOMAIN deals
           /\ \A e \in DOMAIN deals \ {p.dealId} : deals'[e] = deals[e]
           /\ deals'[p.dealId].negotiationId = deals[p.dealId].negotiationId
           /\ deals'[p.dealId].buyerAddress = deals[p.dealId].buyerAddress
           /\ deals'[p.dealId].contract = deals[p.dealId].contract
           /\ deals'[p.dealId].state = "DELIVERED_LOCAL"
           /\ deals'[p.dealId].capability = p.capability
           /\ deals'[p.dealId].manifest
                = ManifestFor(p.dealId, deals[p.dealId].negotiationId, p.capability)
           /\ DealsInv' /\ Grows
<1> DEFINE d == p.dealId
           old == deals[d]
<1>1. PreparingOK(p)
  BY DEF DealInv, WireInv
<1>2. /\ d \in DOMAIN deals /\ p.capability \in 1..minted /\ minted \in Nat /\ clock \in Nat
      /\ old.state # "PROPOSED_LOCAL" /\ CanDeliver(d, old.negotiationId)
  BY <1>1, DealConstants DEF PreparingOK, DealInv, WireInv
<1>3. DealTyped(old) /\ DealSigned(old) /\ DealDelivered(d, old)
  BY <1>2 DEF DealInv, DealsInv
<1>4. UNCHANGED <<status, corpus, asked, quotes, minted, requests, clock>>
  BY DEF DeliveryPrepared
<1>5. /\ DOMAIN deals' = DOMAIN deals
      /\ \A e \in DOMAIN deals \ {d} : deals'[e] = deals[e]
      /\ deals'[d] = [old EXCEPT !.state = "DELIVERED_LOCAL", !.manifest = ManifestOf(p),
                                 !.capability = p.capability, !.deliveries = old.deliveries + 1]
  BY <1>2 DEF DeliveryPrepared, DealInv, DealsInv
<1>6. /\ deals'[d].negotiationId = old.negotiationId
      /\ deals'[d].buyerAddress = old.buyerAddress /\ deals'[d].contract = old.contract
      /\ deals'[d].state = "DELIVERED_LOCAL" /\ deals'[d].capability = p.capability
      /\ deals'[d].deliveries = old.deliveries + 1
      /\ deals'[d].manifest = ManifestOf(p)
      /\ deals'[d] = [negotiationId |-> deals'[d].negotiationId,
                      buyerAddress |-> deals'[d].buyerAddress, contract |-> deals'[d].contract,
                      state |-> deals'[d].state, capability |-> deals'[d].capability,
                      deliveries |-> deals'[d].deliveries, manifest |-> deals'[d].manifest]
  BY <1>3, <1>5 DEF DealTyped
<1>7. deals'[d].manifest = ManifestFor(d, old.negotiationId, p.capability)
  BY <1>6 DEF ManifestOf, ManifestFor
<1>8. Grows
  BY <1>2, <1>3, <1>4, <1>5, <1>6 DEF Grows, DealGrows, DealTyped, DealDelivered
<1>9. DealTyped(deals[d])'
  BY <1>2, <1>3, <1>4, <1>6 DEF DealTyped
<1>10. DealSigned(deals[d])'
  BY <1>2, <1>3, <1>4, <1>6 DEF DealSigned
<1>11. DealDelivered(d, deals[d])'
  <2>1. /\ deals'[d].deliveries > 0
        /\ old.deliveries \in Nat
    BY <1>3, <1>6 DEF DealTyped
  <2>2. (deals[d].manifest = ManifestFor(d, deals[d].negotiationId, deals[d].capability))'
    BY <1>4, <1>6, <1>7 DEF ManifestFor
  <2>3. CanDeliver(d, deals[d].negotiationId)'
    BY <1>2, <1>4, <1>6 DEF CanDeliver
  <2> QED BY <2>1, <2>2, <2>3 DEF DealDelivered
<1>12. ASSUME NEW e \in DOMAIN deals \ {d}
       PROVE  DealTyped(deals[e])' /\ DealSigned(deals[e])' /\ DealDelivered(e, deals[e])'
  BY <1>5, <1>8, DealStays
<1>13. DealsInv'
  BY <1>2, <1>5, <1>9, <1>10, <1>11, <1>12 DEF DealInv, DealsInv
<1> QED BY <1>1, <1>4, <1>5, <1>6, <1>7, <1>8, <1>13

LEMMA DeliveryPreparedKeeps ==
    ASSUME DealInv, NEW p \in preparing, DeliveryPrepared(p)
    PROVE  DealInv'
<1> DEFINE d == p.dealId
           b == p.caller
<1>1. /\ PreparingOK(p)
      /\ UNCHANGED <<status, corpus, asked, quotes, minted, requests, clock>>
      /\ DOMAIN deals' = DOMAIN deals
      /\ deals'[d].negotiationId = deals[d].negotiationId
      /\ deals'[d].buyerAddress = deals[d].buyerAddress
      /\ deals'[d].state = "DELIVERED_LOCAL"
      /\ deals'[d].capability = p.capability
      /\ deals'[d].manifest = ManifestFor(d, deals[d].negotiationId, p.capability)
      /\ DealsInv' /\ Grows
  BY PreparedFacts
<1>2. CorpusInv' /\ QuotesInv'
  BY <1>1 DEF DealInv, CorpusInv, QuotesInv, QuoteOK
<1>3. /\ preparing' = preparing \ {p}
      /\ holds' = holds \cup {[by |-> b, dealId |-> d, capability |-> p.capability]}
      /\ session' = IF b \in Buyers /\ session[b].at = "waiting"
                    THEN [session EXCEPT ![b].at = "delivered",
                             ![b].capability = p.capability, ![b].manifest = deals'[d].manifest]
                    ELSE session
  BY DEF DeliveryPrepared
<1>4. SessionsInv' /\ \A x, e : ForOwnDeal(x, e) => ForOwnDeal(x, e)'
  <2>1. CASE b \in Buyers /\ session[b].at = "waiting"
    <3>1. /\ DOMAIN session' = Buyers /\ session' = [c \in Buyers |-> session'[c]]
          /\ \A c \in Buyers \ {b} : session'[c] = session[c]
          /\ session'[b] = [session[b] EXCEPT !.at = "delivered", !.capability = p.capability,
                                              !.manifest = deals'[d].manifest]
      BY <1>3, <2>1 DEF DealInv, SessionsInv
    <3>2. SessionTyped(session[b])
      BY <2>1 DEF DealInv, SessionsInv
    <3>3. session[b].d = d /\ d \in DOMAIN deals /\ deals[d].negotiationId = session[b].n
      BY <1>1, <2>1, <3>2 DEF PreparingOK, ForOwnDeal, SessionTyped
    <3>4. /\ session'[b] = [at |-> "delivered", n |-> session[b].n, d |-> session[b].d,
                            capability |-> p.capability, manifest |-> deals'[d].manifest]
      BY <3>1, <3>2 DEF SessionTyped
    <3>5. SessionTyped(session[b])'
      BY <1>1, <3>3, <3>4 DEF SessionTyped
    <3>6. (session[b].manifest = ManifestFor(session[b].d, session[b].n, session[b].capability))'
      BY <1>1, <3>3, <3>4 DEF ManifestFor
    <3>7. SessionServed(session[b])'
      BY <1>1, <3>3, <3>4, <3>6 DEF SessionServed
    <3>8. SessionsInv'
      BY <1>1, <2>1, <3>1, <3>5, <3>7, OthersStay
    <3>9. ASSUME NEW x, NEW e, ForOwnDeal(x, e) PROVE ForOwnDeal(x, e)'
      <4>1. CASE x = b
        BY <2>1, <3>4, <3>9, <4>1 DEF ForOwnDeal
      <4>2. CASE x # b
        BY <3>1, <3>9, <4>2 DEF ForOwnDeal
      <4> QED BY <4>1, <4>2
    <3> QED BY <3>8, <3>9
  <2>2. CASE ~(b \in Buyers /\ session[b].at = "waiting")
    <3>1. session' = session
      BY <1>3, <2>2
    <3> QED BY <1>1, <3>1, SessionStays DEF DealInv, SessionsInv, ForOwnDeal
  <2> QED BY <2>1, <2>2
<1>5. PICK h : h = [by |-> b, dealId |-> d, capability |-> p.capability]
  OBVIOUS
<1>6. HoldOK(h)'
  BY <1>1, <1>5 DEF HoldOK, PreparingOK
<1>7. WireInv'
  <2>1. PICK H, E : H = {h} /\ E = {}
    OBVIOUS
  <2>2. /\ \A q \in E : RequestOK(q)'
        /\ \A q \in E : PreparingOK(q)'
        /\ \A g \in H : HoldOK(g)'
    BY <1>6, <2>1
  <2>3. /\ requests' \subseteq requests \cup E /\ preparing' \subseteq preparing \cup E
        /\ holds' \subseteq holds \cup H
    BY <1>1, <1>3, <1>5, <2>1
  <2>4. minted' \in 0..MaxMints /\ clock' \in 0..MaxClock
    BY <1>1 DEF DealInv, WireInv
  <2> QED BY <1>1, <1>4, <2>2, <2>3, <2>4, WireKeeps
<1> QED BY <1>1, <1>2, <1>4, <1>7 DEF DealInv

(* A step of a script after the delivery leaves the seller alone. *)
LEMMA ScriptKeeps ==
    ASSUME DealInv, NEW b \in Buyers, NEW at \in {"unfetched", "fetched", "verified"},
           UNCHANGED <<status, corpus, asked, quotes, deals, minted, requests, preparing,
                       holds, clock>>,
           session[b].at \in {"delivered", "fetched"},
           session' = [session EXCEPT ![b].at = at],
           at = "unfetched" => deals[session[b].d].deliveries > 1
    PROVE  DealInv'
<1>1. Grows
  BY NothingGrows
<1>2. CorpusInv' /\ QuotesInv'
  BY DEF DealInv, CorpusInv, QuotesInv, QuoteOK
<1>3. DealsInv'
  BY <1>1, DealStays DEF DealInv, DealsInv
<1>4. /\ DOMAIN session' = Buyers /\ session' = [c \in Buyers |-> session'[c]]
      /\ \A c \in Buyers \ {b} : session'[c] = session[c]
      /\ session'[b] = [session[b] EXCEPT !.at = at]
  BY DEF DealInv, SessionsInv
<1>5. SessionTyped(session[b]) /\ SessionServed(session[b])
  BY DEF DealInv, SessionsInv
<1>6. session'[b] = [at |-> at, n |-> session[b].n, d |-> session[b].d,
                     capability |-> session[b].capability, manifest |-> session[b].manifest]
  BY <1>4, <1>5 DEF SessionTyped
<1>7. SessionTyped(session[b])'
  BY <1>5, <1>6 DEF SessionTyped
<1>8. (session[b].manifest = ManifestFor(session[b].d, session[b].n, session[b].capability))'
  BY <1>5, <1>6 DEF SessionServed, ManifestFor
<1>9. SessionServed(session[b])'
  BY <1>5, <1>6, <1>8 DEF SessionServed
<1>10. SessionsInv'
  BY <1>1, <1>4, <1>7, <1>9, OthersStay
<1>11. \A x, e : ForOwnDeal(x, e) => ForOwnDeal(x, e)'
  BY <1>4, <1>6 DEF ForOwnDeal
<1>12. WireInv'
  BY <1>1, <1>11, RequestStays, PreparingStays, HoldStays DEF DealInv, WireInv
<1> QED BY <1>2, <1>3, <1>10, <1>12 DEF DealInv

(* The buyer's regeneration is the seller's generation. *)
LEMMA RegenerationAgrees ==
    ASSUME NEW d, NEW n, NEW c, CanDeliver(d, n)
    PROVE  VerifyDelivery(ManifestFor(d, n, c), ManifestFor(d, n, c).contentHash,
                          ReadQuery(quotes[n].body), corpus)
  BY DEF CanDeliver, DeliveryThrows, ManifestFor, Manifest, VerifyDelivery, StatsCommitment

LEMMA BuyerFetchesManifestKeeps ==
    ASSUME DealInv, NEW b \in Buyers, BuyerFetchesManifest(b)
    PROVE  DealInv'
<1> DEFINE s == session[b]
<1>1. /\ s.at = "delivered" /\ SessionTyped(s) /\ SessionServed(s)
      /\ UNCHANGED <<status, corpus, asked, quotes, deals, minted, requests, preparing, holds,
                     clock>>
  BY DEF BuyerFetchesManifest, DealInv, SessionsInv
<1>2. /\ s.d \in DOMAIN deals /\ deals[s.d].negotiationId = s.n
      /\ deals[s.d].state = "DELIVERED_LOCAL"
      /\ s.manifest = ManifestFor(s.d, s.n, s.capability)
      /\ s.capability = deals[s.d].capability \/ deals[s.d].deliveries > 1
  BY <1>1 DEF SessionTyped, SessionServed
<1>3. CASE ~Served(s.d, s.capability)
  <2>1. session' = [session EXCEPT ![b].at = "unfetched"]
    BY <1>3 DEF BuyerFetchesManifest
  <2>2. deals[s.d].deliveries > 1
    BY <1>2, <1>3 DEF Served
  <2> QED BY <1>1, <2>1, <2>2, ScriptKeeps
<1>4. CASE Served(s.d, s.capability)
  <2>1. DealDelivered(s.d, deals[s.d])
    BY <1>2 DEF DealInv, DealsInv
  <2>2. deals[s.d].manifest = s.manifest
    BY <1>2, <1>4, <2>1 DEF Served, DealDelivered
  <2>3. session' = [session EXCEPT ![b].at = "fetched"]
    BY <1>4, <2>2 DEF BuyerFetchesManifest
  <2> QED BY <1>1, <2>3, ScriptKeeps
<1> QED BY <1>3, <1>4

LEMMA BuyerVerifiesKeeps ==
    ASSUME DealInv, NEW b \in Buyers, BuyerVerifies(b)
    PROVE  DealInv'
<1> DEFINE s == session[b]
<1>1. /\ s.at = "fetched" /\ SessionTyped(s) /\ SessionServed(s)
      /\ UNCHANGED <<status, corpus, asked, quotes, deals, minted, requests, preparing, holds,
                     clock>>
  BY DEF BuyerVerifies, DealInv, SessionsInv
<1>2. /\ s.d \in DOMAIN deals /\ deals[s.d].negotiationId = s.n
      /\ deals[s.d].state = "DELIVERED_LOCAL"
      /\ s.manifest = ManifestFor(s.d, s.n, s.capability)
      /\ s.capability = deals[s.d].capability \/ deals[s.d].deliveries > 1
  BY <1>1 DEF SessionTyped, SessionServed
<1>3. CASE ~Served(s.d, s.capability)
  <2>1. session' = [session EXCEPT ![b].at = "unfetched"]
    BY <1>3 DEF BuyerVerifies
  <2>2. deals[s.d].deliveries > 1
    BY <1>2, <1>3 DEF Served
  <2> QED BY <1>1, <2>1, <2>2, ScriptKeeps
<1>4. CASE Served(s.d, s.capability)
  <2>1. DealDelivered(s.d, deals[s.d])
    BY <1>2 DEF DealInv, DealsInv
  <2>2. deals[s.d].manifest = s.manifest /\ CanDeliver(s.d, s.n)
    BY <1>2, <1>4, <2>1 DEF Served, DealDelivered
  <2>3. VerifyDelivery(s.manifest, deals[s.d].manifest.contentHash,
                       ReadQuery(quotes[s.n].body), corpus)
    BY <1>2, <2>2, RegenerationAgrees
  <2>4. session' = [session EXCEPT ![b].at = "verified"]
    BY <1>4, <2>3 DEF BuyerVerifies
  <2> QED BY <1>1, <2>4, ScriptKeeps
<1> QED BY <1>3, <1>4

LEMMA TickKeeps == ASSUME DealInv, Tick PROVE DealInv'
<1>1. /\ clock < MaxClock /\ clock' = clock + 1
      /\ UNCHANGED <<status, corpus, asked, quotes, deals, minted, requests, preparing, holds,
                     session>>
  BY DEF Tick
<1>2. /\ minted \in Nat /\ clock \in Nat /\ minted' \in 0..MaxMints
      /\ clock' \in 0..MaxClock
  BY <1>1, DealConstants DEF DealInv, WireInv
<1>3. Grows
  BY <1>1, <1>2 DEF Grows, DealGrows
<1>4. CorpusInv' /\ QuotesInv'
  BY <1>1 DEF DealInv, CorpusInv, QuotesInv, QuoteOK
<1>5. DealsInv'
  BY <1>1, <1>3, DealStays DEF DealInv, DealsInv
<1>6. SessionsInv'
  BY <1>1, <1>3, SessionStays DEF DealInv, SessionsInv
<1>7. WireInv'
  BY <1>1, <1>2, <1>3, RequestStays, PreparingStays, HoldStays DEF DealInv, WireInv, ForOwnDeal
<1> QED BY <1>4, <1>5, <1>6, <1>7 DEF DealInv

LEMMA NothingKeeps == ASSUME DealInv, UNCHANGED vars PROVE DealInv'
<1>1. UNCHANGED <<status, corpus, asked, quotes, deals, minted, requests, preparing, holds,
                  session, clock>>
  BY DEF vars
<1>2. Grows
  BY <1>1, NothingGrows
<1>3. CorpusInv' /\ QuotesInv'
  BY <1>1 DEF DealInv, CorpusInv, QuotesInv, QuoteOK
<1>4. DealsInv'
  BY <1>1, <1>2, DealStays DEF DealInv, DealsInv
<1>5. SessionsInv'
  BY <1>1, <1>2, SessionStays DEF DealInv, SessionsInv
<1>6. WireInv'
  BY <1>1, <1>2, RequestStays, PreparingStays, HoldStays DEF DealInv, WireInv, ForOwnDeal
<1> QED BY <1>3, <1>4, <1>5, <1>6 DEF DealInv

LEMMA NextDeal == DealInv /\ [Next]_vars => DealInv'
<1> SUFFICES ASSUME DealInv, [Next]_vars PROVE DealInv'
  OBVIOUS
<1>1. ASSUME NEW file \in Files, Boot(file) PROVE DealInv'
  BY <1>1, BootKeeps
<1>2. ASSUME NEW b \in Buyers, NEW body \in Bodies[b], BuyerAsks(b, body) PROVE DealInv'
  BY <1>2, BuyerAsksKeeps
<1>3. ASSUME NEW b \in Buyers, NEW d \in DealIds, BuyerProposes(b, d) PROVE DealInv'
  BY <1>3, BuyerProposesKeeps
<1>4. ASSUME NEW b \in Buyers, BuyerRequestsAcceptance(b) PROVE DealInv'
  BY <1>4, BuyerRequestsAcceptanceKeeps
<1>5. ASSUME NEW b \in Buyers, BuyerRequestsDelivery(b) PROVE DealInv'
  BY <1>5, BuyerRequestsDeliveryKeeps
<1>6. ASSUME NEW b \in Buyers, BuyerFetchesManifest(b) PROVE DealInv'
  BY <1>6, BuyerFetchesManifestKeeps
<1>7. ASSUME NEW b \in Buyers, BuyerVerifies(b) PROVE DealInv'
  BY <1>7, BuyerVerifiesKeeps
<1>8. ASSUME NEW x \in Strangers, NEW body \in Bodies[x], StrangerAsks(x, body) PROVE DealInv'
  BY <1>8, StrangerAsksKeeps
<1>9. ASSUME NEW x \in Strangers, NEW n \in 1..MaxNegotiations, NEW d \in DealIds,
             StrangerProposes(x, n, d)
      PROVE  DealInv'
  BY <1>9, StrangerProposesKeeps
<1>10. ASSUME NEW x \in Strangers, NEW d \in DealIds, StrangerRequestsDelivery(x, d)
       PROVE  DealInv'
  BY <1>10, StrangerRequestsDeliveryKeeps
<1>11. ASSUME NEW x \in Callers, NEW d \in DealIds, RepeatAcceptance(x, d) PROVE DealInv'
  BY <1>11, RepeatAcceptanceKeeps
<1>12. ASSUME NEW r \in requests, HandleDeliveryRequest(r) PROVE DealInv'
  BY <1>12, HandleDeliveryRequestKeeps
<1>13. ASSUME NEW p \in preparing, DeliveryPrepared(p) PROVE DealInv'
  BY <1>13, DeliveryPreparedKeeps
<1>14. CASE Tick
  BY <1>14, TickKeeps
<1>15. CASE UNCHANGED vars
  BY <1>15, NothingKeeps
<1> QED BY <1>1, <1>2, <1>3, <1>4, <1>5, <1>6, <1>7, <1>8, <1>9, <1>10, <1>11, <1>12, <1>13,
           <1>14, <1>15 DEF Next

LEMMA AlwaysDeal == Spec => []DealInv
  BY InitDeal, NextDeal, PTL DEF Spec

-----------------------------------------------------------------------------
(* The larger and the smaller of two numbers. *)
LEMMA ClampOfTwo ==
    ASSUME NEW a \in Int, NEW b \in Int
    PROVE  /\ Max({a, b}) \in Int /\ Max({a, b}) \in {a, b}
           /\ Max({a, b}) >= a /\ Max({a, b}) >= b
           /\ Min({a, b}) \in Int /\ Min({a, b}) \in {a, b}
           /\ Min({a, b}) <= a /\ Min({a, b}) <= b
<1>1. \E x \in {a, b} : \A y \in {a, b} : x >= y
  OBVIOUS
<1>2. \E x \in {a, b} : \A y \in {a, b} : x <= y
  OBVIOUS
<1> QED BY <1>1, <1>2 DEF Max, Min

(* densityAsked() stays within the bounds of the card, whatever was asked. *)
LEMMA DensityIsClamped ==
    ASSUME NEW body, body.rowsPerTract \in Int
    PROVE  DensityAsked(body) \in Density.min..Density.max
<1> DEFINE asked10 == IF body.rowsPerTract = Null THEN 10 * Density.default
                      ELSE body.rowsPerTract
           a == IF asked10 >= 10 THEN asked10 \div 10 ELSE 1
<1>1. Density.min \in Int /\ Density.max \in Int /\ Density.min <= Density.max
      /\ Density.default \in Int
  BY ProductConstants
<1>2. a \in Int
  BY <1>1
<1> HIDE DEF a
<1>3. /\ Max({a, Density.min}) \in Int /\ Max({a, Density.min}) >= Density.min
  BY <1>1, <1>2, ClampOfTwo
<1>4. /\ Min({Max({a, Density.min}), Density.max}) \in Int
      /\ Min({Max({a, Density.min}), Density.max}) \in {Max({a, Density.min}), Density.max}
      /\ Min({Max({a, Density.min}), Density.max}) <= Density.max
  BY <1>1, <1>3, ClampOfTwo
<1>5. DensityAsked(body) = Min({Max({a, Density.min}), Density.max})
  BY DEF DensityAsked, a
<1> QED BY <1>1, <1>3, <1>4, <1>5

(* What a quote was composed from. *)
LEMMA QuotedFacts ==
    ASSUME DealInv, NEW n \in DOMAIN quotes
    PROVE  LET q == QueryOf(n)
               slice == EvaluateQuery(q, corpus)
               document == quotes[n].document
           IN  /\ ValidateQuery(q, corpus) = {}
               /\ document.rowsPerTract \in Density.min..Density.max
               /\ document.totalRows = document.rowsPerTract * Cardinality(slice)
               /\ document.tractCount = Cardinality(slice)
               /\ document.statsHash = AggregateStats(slice, ToSet(q.columns), corpus)
               /\ ComposeQuote(quotes[n].body, corpus).price
                    = PriceQuery(Cardinality(slice), ToSet(q.columns), RateCard)
<1> DEFINE body == quotes[n].body
           facts == ComposeQuote(body, corpus)
<1>1. QuoteOK(n)
  BY DEF DealInv, QuotesInv
<1>2. facts.accepted /\ quotes[n].document = TermsDocument(facts)
  BY <1>1 DEF QuoteOK
<1>3. ValidateQuery(QueryOf(n), corpus) = {}
  BY <1>2 DEF ComposeQuote, QueryOf
<1>4. DensityAsked(body) \in Density.min..Density.max
  BY <1>1, DealConstants, DensityIsClamped DEF QuoteOK, Callers
<1>5. /\ facts.rowsPerTract = DensityAsked(body)
      /\ facts.rowCount = DensityAsked(body) * Cardinality(EvaluateQuery(QueryOf(n), corpus))
      /\ facts.tractCount = Cardinality(EvaluateQuery(QueryOf(n), corpus))
      /\ facts.statsHash = AggregateStats(EvaluateQuery(QueryOf(n), corpus),
                                          ToSet(QueryOf(n).columns), corpus)
      /\ facts.price = PriceQuery(Cardinality(EvaluateQuery(QueryOf(n), corpus)),
                                  ToSet(QueryOf(n).columns), RateCard)
  BY <1>3 DEF ComposeQuote, QueryOf, StatsCommitment
<1>6. /\ quotes[n].document.rowsPerTract = facts.rowsPerTract
      /\ quotes[n].document.totalRows = facts.rowCount
      /\ quotes[n].document.tractCount = facts.tractCount
      /\ quotes[n].document.statsHash = facts.statsHash
  BY <1>2 DEF TermsDocument
<1> QED BY <1>3, <1>4, <1>5, <1>6

(* Type correctness, for any corpus and any request bodies: in particular  *)
(* densityAsked() keeps every quoted density within the card's bounds.     *)
THEOREM DealTypes == Spec => []TypeOK
<1>1. DealInv => TypeOK
  <2> SUFFICES ASSUME DealInv PROVE TypeOK
    OBVIOUS
  <2>1. status \in {"booting", "serving", "refused"}
    BY DEF DealInv, CorpusInv
  <2>2. /\ asked \in Seq(Callers) /\ Len(asked) <= MaxNegotiations
        /\ DOMAIN quotes \subseteq DOMAIN asked
    BY LenProperties DEF DealInv, QuotesInv
  <2>3. \A n \in DOMAIN quotes :
          quotes[n].document.rowsPerTract \in Density.min..Density.max
    BY QuotedFacts
  <2>4. DOMAIN deals \subseteq DealIds
    BY DealConstants DEF DealInv, DealsInv, DealIds
  <2>5. \A d \in DOMAIN deals :
          /\ deals[d].negotiationId \in DOMAIN quotes
          /\ deals[d].buyerAddress \in Callers
          /\ deals[d].state \in {"PROPOSED_LOCAL", "ACCEPTED_LOCAL", "DELIVERED_LOCAL"}
          /\ deals[d].capability \in 0..minted
    BY DEF DealInv, DealsInv, DealTyped
  <2>6. minted \in 0..MaxMints /\ clock \in 0..MaxClock
    BY DEF DealInv, WireInv
  <2>7. /\ requests \subseteq [dealId : DOMAIN deals, requestedAt : 0..clock,
                               by : Callers, caller : Callers]
        /\ preparing \subseteq [dealId : DOMAIN deals, capability : 1..minted, caller : Callers]
        /\ holds \subseteq [by : Callers, dealId : DOMAIN deals, capability : 1..minted]
    BY DEF DealInv, WireInv, RequestOK, PreparingOK, HoldOK
  <2>8. \A b \in Buyers :
          session[b].at \in {"idle", "error", "quoted", "refused", "proposed", "accepted",
                             "waiting", "delivered", "fetched", "unfetched", "verified",
                             "rejected"}
    BY DEF DealInv, SessionsInv, SessionTyped
  <2> QED BY <2>1, <2>2, <2>3, <2>4, <2>5, <2>6, <2>7, <2>8 DEF TypeOK
<1> QED BY <1>1, AlwaysDeal, PTL

(* A capability reaches nobody but the party whose signature is on the     *)
(* countersigned contract: acceptTerms() and verifyDeliveryRequest() check *)
(* their signatures against the same stored address.                       *)
THEOREM DealCapabilities == Spec => []CapabilityGoesToSigner
<1>1. DealInv => CapabilityGoesToSigner
  <2> SUFFICES ASSUME DealInv, NEW h \in holds
               PROVE  /\ Len(deals[h.dealId].contract.signatures) = 2
                      /\ deals[h.dealId].contract.signatures[1].by = h.by
                      /\ deals[h.dealId].contract.signatures[1].over
                           = deals[h.dealId].contract.terms
    BY DEF CapabilityGoesToSigner
  <2>1. HoldOK(h)
    BY DEF DealInv, WireInv
  <2>2. DealSigned(deals[h.dealId])
    BY <2>1 DEF DealInv, DealsInv, HoldOK
  <2> QED BY <2>1, <2>2 DEF HoldOK, DealSigned
<1> QED BY <1>1, AlwaysDeal, PTL

(* The buyer's regeneration never rejects a file, and a locator it was     *)
(* sent stops working only when a later delivery of the deal replaced it.  *)
THEOREM DealVerifies == Spec => []VerifiedUnlessReplaced
<1>1. DealInv => VerifiedUnlessReplaced
  BY DEF DealInv, SessionsInv, SessionTyped, SessionServed, VerifiedUnlessReplaced
<1> QED BY <1>1, AlwaysDeal, PTL

(* The deals are only ever written by a proposal under a new id, by the    *)
(* countersignature, which a formed deal does not pass again, and by the   *)
(* delivery, which keeps the contract.                                     *)
LEMMA DeliveredKept ==
    ASSUME DealInv, [Next]_vars, NEW d \in DOMAIN deals, deals[d].state = "DELIVERED_LOCAL"
    PROVE  deals'[d].state = "DELIVERED_LOCAL" /\ deals'[d].contract = deals[d].contract
<1>1. CASE UNCHANGED deals
  BY <1>1
<1>2. ASSUME NEW e \in DOMAIN deals, NEW sig, MayAccept(e, sig), Accept(e),
             UNCHANGED <<corpus, quotes, minted, clock>>
      PROVE  UNCHANGED deals[d]
  <2>1. /\ deals[e].state = "PROPOSED_LOCAL"
        /\ \A c \in DOMAIN deals \ {e} : deals'[c] = deals[c]
    BY <1>2, AcceptFacts
  <2> QED BY <2>1
<1>3. ASSUME NEW e, NEW n, NEW contract, NEW x, SubmitProposal(e, n, contract, x)
      PROVE  UNCHANGED deals[d]
  <2>1. PICK k \in 0..MaxDeals : DOMAIN deals = 1..k
    BY DEF DealInv, DealsInv
  <2>2. k \in Nat /\ Cardinality(1..k) = k
    BY <2>1, FS_Interval, DealConstants
  <2>3. e # d
    BY <1>3, <2>1, <2>2 DEF SubmitProposal
  <2> QED BY <1>3, <2>3 DEF SubmitProposal
<1>4. ASSUME NEW b \in Buyers, BuyerRequestsAcceptance(b) PROVE UNCHANGED deals[d]
  <2>1. SessionTyped(session[b]) /\ session[b].d \in DOMAIN deals
    BY <1>4 DEF BuyerRequestsAcceptance, DealInv, SessionsInv, SessionTyped
  <2>2. UNCHANGED <<corpus, quotes, minted, clock>>
    BY <1>4 DEF BuyerRequestsAcceptance
  <2>3. CASE MayAccept(session[b].d, AgreementSig(b, session[b].d,
                                                  deals[session[b].d].contract.terms))
    <3>1. Accept(session[b].d)
      BY <1>4, <2>3 DEF BuyerRequestsAcceptance
    <3> QED BY <1>2, <2>1, <2>2, <2>3, <3>1
  <2>4. CASE ~MayAccept(session[b].d, AgreementSig(b, session[b].d,
                                                   deals[session[b].d].contract.terms))
    BY <1>4, <2>4 DEF BuyerRequestsAcceptance
  <2> QED BY <2>3, <2>4
<1>5. ASSUME NEW x \in Callers, NEW e \in DealIds, RepeatAcceptance(x, e)
      PROVE  UNCHANGED deals[d]
  BY <1>2, <1>5 DEF RepeatAcceptance
<1>6. ASSUME NEW p \in preparing, DeliveryPrepared(p)
      PROVE  deals'[d].state = "DELIVERED_LOCAL" /\ deals'[d].contract = deals[d].contract
  <2>1. /\ \A e \in DOMAIN deals \ {p.dealId} : deals'[e] = deals[e]
        /\ deals'[p.dealId].contract = deals[p.dealId].contract
        /\ deals'[p.dealId].state = "DELIVERED_LOCAL"
    BY <1>6, PreparedFacts
  <2> QED BY <2>1
<1>7. ASSUME NEW b \in Buyers, NEW e \in DealIds, BuyerProposes(b, e) PROVE UNCHANGED deals[d]
  BY <1>3, <1>7 DEF BuyerProposes
<1>8. ASSUME NEW x \in Strangers, NEW n, NEW e, StrangerProposes(x, n, e)
      PROVE  UNCHANGED deals[d]
  <2>1. \E contract : SubmitProposal(e, n, contract, x)
    BY <1>8 DEF StrangerProposes
  <2> QED BY <1>3, <2>1
<1>9. ASSUME Next, ~(UNCHANGED deals)
      PROVE  \/ \E b \in Buyers : BuyerRequestsAcceptance(b) \/ \E e \in DealIds : BuyerProposes(b, e)
             \/ \E x \in Strangers, n \in 1..MaxNegotiations, e \in DealIds :
                    StrangerProposes(x, n, e)
             \/ \E x \in Callers, e \in DealIds : RepeatAcceptance(x, e)
             \/ \E p \in preparing : DeliveryPrepared(p)
  <2>1. \A file \in Files : Boot(file) => UNCHANGED deals
    BY DEF Boot
  <2>2. \A b \in Buyers : \A body : BuyerAsks(b, body) => UNCHANGED deals
    BY DEF BuyerAsks
  <2>3. \A b \in Buyers : /\ BuyerRequestsDelivery(b) => UNCHANGED deals
                          /\ BuyerFetchesManifest(b) => UNCHANGED deals
                          /\ BuyerVerifies(b) => UNCHANGED deals
    BY DEF BuyerRequestsDelivery, BuyerFetchesManifest, BuyerVerifies
  <2>4. \A x \in Strangers : /\ \A body : StrangerAsks(x, body) => UNCHANGED deals
                             /\ \A e : StrangerRequestsDelivery(x, e) => UNCHANGED deals
    BY DEF StrangerAsks, StrangerRequestsDelivery
  <2>5. \A r \in requests : HandleDeliveryRequest(r) => UNCHANGED deals
    BY DEF HandleDeliveryRequest
  <2>6. Tick => UNCHANGED deals
    BY DEF Tick
  <2> QED BY <1>9, <2>1, <2>2, <2>3, <2>4, <2>5, <2>6 DEF Next
<1>10. CASE UNCHANGED vars
  BY <1>10 DEF vars
<1> QED BY <1>1, <1>4, <1>5, <1>6, <1>7, <1>8, <1>9, <1>10

(* Once delivered a deal stays delivered, under the contract that was      *)
(* countersigned, whatever is requested again.                             *)
THEOREM DealStaysDelivered == Spec => DeliveredStays
<1> DEFINE Stays == \A d \in DOMAIN deals : deals[d].state = "DELIVERED_LOCAL" =>
                      /\ deals'[d].state = "DELIVERED_LOCAL"
                      /\ deals'[d].contract = deals[d].contract
<1>1. DealInv /\ [Next]_vars => [Stays]_vars
  BY DeliveredKept
<1> HIDE DEF Stays
<1>2. Spec => [][Stays]_vars
  BY <1>1, AlwaysDeal, PTL DEF Spec
<1> QED BY <1>2 DEF DeliveredStays, Stays

-----------------------------------------------------------------------------
(* A query that was accepted. *)
LEMMA AcceptedQuery ==
    ASSUME NEW q, NEW file, ValidateQuery(q, file) = {}
    PROVE  /\ ToSet(q.columns) \subseteq Measures
           /\ q.states \subseteq StatesOf(file)
           /\ ~(Len(q.thresholds) > Cardinality(Measures))
           /\ \A i \in {j \in DOMAIN q.thresholds : j <= Cardinality(Measures)} :
                  q.thresholds[i].key \in ToSet(q.columns)
<1>1. ToSet(q.columns) \subseteq Measures
  BY DEF ValidateQuery
<1>2. q.states \subseteq StatesOf(file)
  BY DEF ValidateQuery
<1>3. ~(Len(q.thresholds) > Cardinality(Measures))
  BY DEF ValidateQuery
<1>4. \A i \in {j \in DOMAIN q.thresholds : j <= Cardinality(Measures)} :
         ThresholdRejections(q.thresholds[i], ToSet(q.columns)) = {}
  BY DEF ValidateQuery
<1>5. \A i \in {j \in DOMAIN q.thresholds : j <= Cardinality(Measures)} :
         q.thresholds[i].key \in ToSet(q.columns)
  <2> TAKE i \in {j \in DOMAIN q.thresholds : j <= Cardinality(Measures)}
  <2>1. ThresholdRejections(q.thresholds[i], ToSet(q.columns)) = {}
    BY <1>4
  <2>2. ASSUME q.thresholds[i].key \notin ToSet(q.columns)
        PROVE  \/ ThresholdRejections(q.thresholds[i], ToSet(q.columns))
                     = {"THRESHOLD_FILTER_UNSUPPORTED"}
               \/ ThresholdRejections(q.thresholds[i], ToSet(q.columns))
                     = {"THRESHOLD_ON_UNREQUESTED_COLUMN"}
    BY <2>2, Zenon DEF ThresholdRejections
  <2> QED BY <2>1, <2>2, Zenon
<1> QED BY <1>1, <1>2, <1>3, <1>5

(* toFixed(2), then usdcBaseUnits(), is multiplication by ten thousand. *)
LEMMA BaseUnitsOfCents ==
    ASSUME NEW c \in Nat
    PROVE  UsdcBaseUnits(ToFixed2(c)) = 10000 * c
<1>1. /\ ToFixed2(c).whole = c \div 100
      /\ ToFixed2(c).frac = <<(c % 100) \div 10, c % 10>>
      /\ Len(ToFixed2(c).frac) = 2
      /\ ToFixed2(c).frac[1] = (c % 100) \div 10 /\ ToFixed2(c).frac[2] = c % 10
  BY DEF ToFixed2
<1>2. UsdcBaseUnits(ToFixed2(c))
        = 1000000 * (c \div 100) + 100000 * ((c % 100) \div 10) + 10000 * (c % 10)
  BY <1>1 DEF UsdcBaseUnits
<1> DEFINE u == c % 100
           w == c \div 100
           x == u \div 10
           v == u % 10
<1>3. c = 100 * w + u /\ u \in 0..99 /\ w \in Int
  OBVIOUS
<1>4. u = 10 * x + v /\ v \in 0..9 /\ x \in Int
  BY <1>3
<1> HIDE DEF u, v, w, x
<1>5. c = 10 * (10 * w + x) + v
  BY <1>3, <1>4
<1>6. c % 10 = v
  <2>1. c = 10 * (c \div 10) + (c % 10) /\ c % 10 \in 0..9 /\ c \div 10 \in Int
    OBVIOUS
  <2> QED BY <1>3, <1>4, <1>5, <2>1
<1>7. UsdcBaseUnits(ToFixed2(c)) = 1000000 * w + 100000 * x + 10000 * v
  BY <1>2, <1>6 DEF u, w, x
<1> QED BY <1>3, <1>4, <1>7

LEMMA RoundedIsNat ==
    ASSUME NEW a \in Nat, NEW b \in Nat \ {0}
    PROVE  RoundHalfUp(a, b) \in Nat
  BY DEF RoundHalfUp

(* The rate card prices every slice in a whole number of cents. *)
LEMMA ListPriceIsNat ==
    ASSUME NEW n \in Nat, NEW columns \in SUBSET Measures
    PROVE  PriceQuery(n, columns, RateCard).listCents \in Nat
<1>1. /\ RateCard.baseCents \in Nat /\ RateCard.perTractMicroCents \in Nat
      /\ RateCard.perStandardColumnCents \in Nat /\ RateCard.perPremiumColumnCents \in Nat
      /\ RateCard.vintageMultiplierBps \in Nat
  BY ProductConstants
<1>2. Cardinality(columns \cap Premium) \in Nat /\ Cardinality(columns \ Premium) \in Nat
  <2>1. IsFiniteSet(columns \cap Premium) /\ IsFiniteSet(columns \ Premium)
    BY PlacesConstants, FS_Subset
  <2> QED BY <2>1, FS_CardinalityType
<1> DEFINE tracts == RoundHalfUp(n * RateCard.perTractMicroCents, 1000)
           premium == Cardinality(columns \cap Premium) * RateCard.perPremiumColumnCents
           standard == Cardinality(columns \ Premium) * RateCard.perStandardColumnCents
           subtotal == RateCard.baseCents + tracts + standard + premium
<1>3. n * RateCard.perTractMicroCents \in Nat /\ premium \in Nat /\ standard \in Nat
  BY <1>1, <1>2
<1>4. tracts \in Nat
  BY <1>3, RoundedIsNat
<1>5. PriceQuery(n, columns, RateCard).listCents
        = RoundHalfUp(subtotal * RateCard.vintageMultiplierBps, 10000)
  BY DEF PriceQuery
<1> HIDE DEF tracts, premium, standard
<1>6. subtotal * RateCard.vintageMultiplierBps \in Nat
  BY <1>1, <1>3, <1>4
<1> QED BY <1>5, <1>6, RoundedIsNat

(* The amount the seller's Agreement signature covers is the rate card's   *)
(* price of the slice, to the cent, for any rate card and corpus.          *)
THEOREM DealAmount == Spec => []SignedAmountIsListPrice
<1>1. DealInv => SignedAmountIsListPrice
  <2> SUFFICES ASSUME DealInv, NEW d \in DOMAIN deals, Formed(d)
               PROVE  UsdcBaseUnits(deals[d].contract.terms.amount)
                        = 10000 * PriceQuery(
                            Cardinality(EvaluateQuery(QueryOf(deals[d].negotiationId), corpus)),
                            ToSet(QueryOf(deals[d].negotiationId).columns), RateCard).listCents
    BY DEF SignedAmountIsListPrice
  <2> DEFINE n == deals[d].negotiationId
             q == QueryOf(n)
             slice == EvaluateQuery(q, corpus)
  <2>1. n \in DOMAIN quotes
    BY QuoteOfDeal
  <2>2. deals[d].contract.terms.amount
          = ToFixed2(ComposeQuote(quotes[n].body, corpus).price.listCents)
    BY DEF Formed, DealInv, DealsInv, DealSigned
  <2>3. /\ ValidateQuery(q, corpus) = {}
        /\ ComposeQuote(quotes[n].body, corpus).price
             = PriceQuery(Cardinality(slice), ToSet(q.columns), RateCard)
    BY <2>1, QuotedFacts
  <2>4. ToSet(q.columns) \subseteq Measures
    BY <2>3, AcceptedQuery
  <2>5. Cardinality(slice) \in Nat
    <3>1. corpus \in Seq(Tract) /\ DOMAIN corpus = 1..Len(corpus) /\ Len(corpus) \in Nat
      BY LenProperties DEF DealInv, CorpusInv
    <3>2. slice \subseteq 1..Len(corpus)
      BY <3>1 DEF EvaluateQuery
    <3> HIDE DEF slice
    <3>3. IsFiniteSet(1..Len(corpus))
      BY <3>1, FS_Interval
    <3>4. IsFiniteSet(slice)
      BY <3>2, <3>3, FS_Subset
    <3> QED BY <3>4, FS_CardinalityType
  <2> HIDE DEF slice, q
  <2>6. PriceQuery(Cardinality(slice), ToSet(q.columns), RateCard).listCents \in Nat
    BY <2>4, <2>5, ListPriceIsNat
  <2>7. UsdcBaseUnits(deals[d].contract.terms.amount)
          = 10000 * PriceQuery(Cardinality(slice), ToSet(q.columns), RateCard).listCents
    BY <2>2, <2>3, <2>6, BaseUnitsOfCents
  <2> QED BY <2>7 DEF slice, q
<1> QED BY <1>1, AlwaysDeal, PTL

-----------------------------------------------------------------------------
(* A query that filters by state alone matches what the card promises.     *)
THEOREM DealCard == Spec => []CardPredictsSlice
<1>1. DealInv => CardPredictsSlice
  <2> SUFFICES ASSUME DealInv, NEW n \in DOMAIN quotes
               PROVE  LET q == QueryOf(n)
                          withheld == UNION {Card(corpus).unavailable[m] : m \in ToSet(q.columns)}
                      IN  q.counties = {} /\ q.minPopulation = Null /\ q.thresholds = << >>
                            => EvaluateQuery(q, corpus)
                                 = {i \in DOMAIN corpus :
                                      /\ corpus[i].stateAbbr \notin withheld
                                      /\ q.states # {} => corpus[i].stateAbbr \in q.states}
    BY DEF CardPredictsSlice
  <2> DEFINE q == QueryOf(n)
             columns == ToSet(q.columns)
             withheld == UNION {Card(corpus).unavailable[m] : m \in columns}
  <2> SUFFICES ASSUME q.counties = {}, q.minPopulation = Null, q.thresholds = << >>
               PROVE  EvaluateQuery(q, corpus)
                        = {i \in DOMAIN corpus :
                             /\ corpus[i].stateAbbr \notin withheld
                             /\ q.states # {} => corpus[i].stateAbbr \in q.states}
    OBVIOUS
  <2>1. columns \subseteq Measures
    BY QuotedFacts, AcceptedQuery
  <2>2. AvailabilityIsExhaustive(corpus)
    BY DEF DealInv, CorpusInv, CardMatchesCorpus
  <2>3. \A m \in columns : Card(corpus).unavailable[m] = UnavailableStates(corpus, m)
    BY <2>1 DEF Card
  <2> HIDE DEF q, columns
  <2>4. ASSUME NEW i \in DOMAIN corpus
        PROVE  corpus[i].stateAbbr \in withheld
                 <=> \E m \in columns : corpus[i].values[m] = Null
    <3>1. ASSUME NEW m \in columns
          PROVE  corpus[i].stateAbbr \in UnavailableStates(corpus, m)
                   <=> corpus[i].values[m] = Null
      <4>1. m \in Measures
        BY <2>1
      <4> QED BY <2>2, <4>1 DEF AvailabilityIsExhaustive, UnavailableStates
    <3>2. corpus[i].stateAbbr \in withheld
            <=> \E m \in columns : corpus[i].stateAbbr \in UnavailableStates(corpus, m)
      BY <2>3
    <3> QED BY <3>1, <3>2
  <2> HIDE DEF withheld
  <2>5. ASSUME NEW i \in DOMAIN corpus
        PROVE  Matches(q, corpus[i])
                 <=> /\ corpus[i].stateAbbr \notin withheld
                     /\ q.states # {} => corpus[i].stateAbbr \in q.states
    <3>1. Matches(q, corpus[i])
            <=> /\ q.states # {} => corpus[i].stateAbbr \in q.states
                /\ \A m \in columns : corpus[i].values[m] # Null
      <4>1. DOMAIN q.thresholds = {}
        OBVIOUS
      <4> QED BY <4>1 DEF Matches, columns
    <3> QED BY <2>4, <3>1
  <2> QED BY <2>5 DEF EvaluateQuery
<1> QED BY <1>1, AlwaysDeal, PTL

-----------------------------------------------------------------------------
(* Two files that differ in no more than the values of other measures. *)
SameFor(columns, file, other) ==
    /\ DOMAIN file = DOMAIN other
    /\ \A i \in DOMAIN file :
        /\ file[i].stateAbbr = other[i].stateAbbr
        /\ file[i].countyName = other[i].countyName
        /\ file[i].tractFips = other[i].tractFips
        /\ file[i].totalPopulation = other[i].totalPopulation
        /\ file[i].totalPop18plus = other[i].totalPop18plus
        /\ \A m \in columns : file[i].values[m] = other[i].values[m]

(* validateQuery() only looks at the states and counties of the corpus. *)
LEMMA SameRejections ==
    ASSUME NEW q, NEW columns, NEW file, NEW other, SameFor(columns, file, other)
    PROVE  ValidateQuery(q, file) = ValidateQuery(q, other)
<1>1. StatesOf(file) = StatesOf(other)
  BY DEF StatesOf, SameFor
<1>2. CountiesOf(file, q.states) = CountiesOf(other, q.states)
  <2>1. {j \in DOMAIN file : file[j].stateAbbr \in q.states}
          = {j \in DOMAIN other : other[j].stateAbbr \in q.states}
    BY DEF SameFor
  <2> QED BY <2>1 DEF CountiesOf, SameFor
<1> QED BY <1>1, <1>2 DEF ValidateQuery

(* No filter of an accepted query reads a measure that is not purchased:   *)
(* a threshold is only allowed on a purchased column.                      *)
LEMMA SameSlice ==
    ASSUME NEW q, NEW file, NEW other, SameFor(ToSet(q.columns), file, other),
           ValidateQuery(q, file) = {}, q.thresholds \in Seq(ToSet(q.thresholds))
    PROVE  EvaluateQuery(q, file) = EvaluateQuery(q, other)
<1>1. \A i \in DOMAIN q.thresholds : q.thresholds[i].key \in ToSet(q.columns)
  <2>1. /\ DOMAIN q.thresholds = 1..Len(q.thresholds) /\ Len(q.thresholds) \in Nat
        /\ Cardinality(Measures) \in Nat
    BY LenProperties, FS_CardinalityType, PlacesConstants
  <2>2. /\ ~(Len(q.thresholds) > Cardinality(Measures))
        /\ \A i \in {j \in DOMAIN q.thresholds : j <= Cardinality(Measures)} :
              q.thresholds[i].key \in ToSet(q.columns)
    BY AcceptedQuery
  <2> QED BY <2>1, <2>2
<1>2. ASSUME NEW i \in DOMAIN file PROVE Matches(q, file[i]) <=> Matches(q, other[i])
  BY <1>1 DEF Matches, SameFor
<1> QED BY <1>2 DEF EvaluateQuery, SameFor

LEMMA SameStats ==
    ASSUME NEW slice, NEW columns, NEW file, NEW other, SameFor(columns, file, other),
           slice \subseteq DOMAIN file
    PROVE  /\ AggregateStats(slice, columns, file) = AggregateStats(slice, columns, other)
           /\ SampleRows(slice, columns, file) = SampleRows(slice, columns, other)
<1>1. [i \in slice |-> Zeroed(file[i].totalPopulation)]
        = [i \in slice |-> Zeroed(other[i].totalPopulation)]
  BY DEF SameFor
<1>2. [i \in slice |-> Zeroed(file[i].totalPop18plus)]
        = [i \in slice |-> Zeroed(other[i].totalPop18plus)]
  BY DEF SameFor
<1>3. \A m \in columns : [i \in slice |-> file[i].values[m]] = [i \in slice |-> other[i].values[m]]
  BY DEF SameFor
<1>4. [m \in columns |-> MeasureStats([i \in slice |-> file[i].values[m]])]
        = [m \in columns |-> MeasureStats([i \in slice |-> other[i].values[m]])]
  BY <1>3
<1>5. AggregateStats(slice, columns, file) = AggregateStats(slice, columns, other)
  BY <1>1, <1>2, <1>4 DEF AggregateStats
<1> DEFINE first == {i \in slice : Rank(slice, i) < SampleSize}
           Row(f, i) == [tractFips |-> f[i].tractFips,
                         values |-> [m \in columns |-> f[i].values[m]]]
<1>6. first \subseteq DOMAIN file
  OBVIOUS
<1> HIDE DEF first
<1>7. \A i \in first : Row(file, i) = Row(other, i)
  BY <1>6 DEF SameFor
<1>8. [i \in first |-> Row(file, i)] = [i \in first |-> Row(other, i)]
  BY <1>7
<1>9. SampleRows(slice, columns, file) = SampleRows(slice, columns, other)
  BY <1>8 DEF SampleRows, first
<1> QED BY <1>5, <1>9

LEMMA SameZeroYield ==
    ASSUME NEW q, NEW file, NEW other, SameFor(ToSet(q.columns), file, other)
    PROVE  ZeroYieldStates(q, file) = ZeroYieldStates(q, other)
<1>1. StatesOf(file) = StatesOf(other)
  BY DEF StatesOf, SameFor
<1>2. \A m \in ToSet(q.columns) : UnavailableStates(file, m) = UnavailableStates(other, m)
  BY <1>1 DEF UnavailableStates, SameFor
<1> QED BY <1>2 DEF ZeroYieldStates

LEMMA SameQuote ==
    ASSUME NEW body, NEW file, NEW other,
           SameFor(ToSet(ReadQuery(body).columns), file, other),
           ValidateQuery(ReadQuery(body), file) = {},
           ReadQuery(body).thresholds \in Seq(ToSet(ReadQuery(body).thresholds))
    PROVE  ComposeQuote(body, file) = ComposeQuote(body, other)
<1> DEFINE q == ReadQuery(body)
           columns == ToSet(q.columns)
           slice == EvaluateQuery(q, file)
<1>1. ValidateQuery(q, other) = {}
  BY SameRejections
<1>2. EvaluateQuery(q, other) = slice
  BY SameSlice
<1>3. slice \subseteq DOMAIN file
  BY DEF EvaluateQuery
<1>4. /\ AggregateStats(slice, columns, file) = AggregateStats(slice, columns, other)
      /\ SampleRows(slice, columns, file) = SampleRows(slice, columns, other)
  BY <1>3, SameStats
<1>5. ZeroYieldStates(q, file) = ZeroYieldStates(q, other)
  BY SameZeroYield
<1> QED BY <1>1, <1>2, <1>4, <1>5 DEF ComposeQuote

(* A quote tells nothing of the measures it does not sell, whatever the    *)
(* filters ask for: over a corpus without them it is the same quote.       *)
THEOREM DealDiscloses == Spec => []UnsoldColumnsDoNotShow
<1>1. DealInv => UnsoldColumnsDoNotShow
  <2> SUFFICES ASSUME DealInv, NEW n \in DOMAIN quotes
               PROVE  ComposeQuote(quotes[n].body, Masked(ToSet(QueryOf(n).columns)))
                        = ComposeQuote(quotes[n].body, corpus)
    BY DEF UnsoldColumnsDoNotShow
  <2> DEFINE body == quotes[n].body
             columns == ToSet(QueryOf(n).columns)
  <2>1. QueryOf(n) = ReadQuery(body) /\ ValidateQuery(ReadQuery(body), corpus) = {}
    BY QuotedFacts DEF QueryOf
  <2>2. columns \subseteq Measures
    BY <2>1, AcceptedQuery
  <2>3. ReadQuery(body).thresholds \in Seq(ToSet(ReadQuery(body).thresholds))
    <3>1. PICK x \in Callers : body \in Bodies[x]
      BY DEF DealInv, QuotesInv, QuoteOK
    <3>2. body.thresholds.items \in Seq(ToSet(body.thresholds.items))
      BY <3>1, DealConstants DEF Callers
    <3>3. << >> \in Seq(ToSet(<< >>))
      BY EmptySeq
    <3> QED BY <3>2, <3>3 DEF ReadQuery
  <2>4. \A i \in DOMAIN corpus : corpus[i] \in Tract
    BY ElementOfSeq, LenProperties DEF DealInv, CorpusInv
  <2> HIDE DEF columns
  <2>5. SameFor(columns, corpus, Masked(columns))
    <3> DEFINE shown(i) == [m \in Measures |-> IF m \in columns THEN corpus[i].values[m] ELSE Null]
    <3>1. DOMAIN Masked(columns) = DOMAIN corpus
      BY DEF Masked
    <3>2. ASSUME NEW i \in DOMAIN corpus
          PROVE  Masked(columns)[i] = [corpus[i] EXCEPT !.values = shown(i)]
      BY DEF Masked
    <3>3. ASSUME NEW i \in DOMAIN corpus, NEW m \in columns
          PROVE  shown(i)[m] = corpus[i].values[m]
      BY <2>2
    <3> HIDE DEF shown
    <3> QED BY <2>4, <3>1, <3>2, <3>3 DEF SameFor, Tract
  <2> QED BY <2>1, <2>3, <2>5, SameQuote DEF columns
<1> QED BY <1>1, AlwaysDeal, PTL

-----------------------------------------------------------------------------
(* The rows of a file.  Ranks are distinct, and run from 0 upwards. *)
LEMMA RanksAreBijective ==
    ASSUME NEW S, S \subseteq Int, IsFiniteSet(S)
    PROVE  /\ Cardinality(S) \in Nat
           /\ \A i \in S : Rank(S, i) \in 0..(Cardinality(S) - 1)
           /\ \A i, j \in S : Rank(S, i) = Rank(S, j) => i = j
           /\ \A k \in 0..(Cardinality(S) - 1) : \E i \in S : Rank(S, i) = k
<1> DEFINE n == Cardinality(S)
           Earlier(i) == {j \in S : j < i}
<1>1. n \in Nat /\ \A i \in S : i \in Int
  BY FS_CardinalityType
<1>2. ASSUME NEW i \in S
      PROVE  IsFiniteSet(Earlier(i)) /\ Rank(S, i) = Cardinality(Earlier(i)) /\ Rank(S, i) \in Nat
  <2>1. IsFiniteSet(Earlier(i))
    BY FS_Subset
  <2> QED BY <2>1, FS_CardinalityType DEF Rank
<1>3. ASSUME NEW i \in S, NEW T \in SUBSET S, Earlier(i) \subseteq T, i \in T
      PROVE  Rank(S, i) < Cardinality(T)
  <2>1. IsFiniteSet(T)
    BY FS_Subset
  <2>2. Earlier(i) # T
    <3>1. i \notin Earlier(i)
      BY <1>1
    <3> QED BY <1>3, <3>1
  <2> HIDE DEF Earlier
  <2>3. /\ Cardinality(Earlier(i)) <= Cardinality(T) /\ Cardinality(T) \in Nat
        /\ Cardinality(Earlier(i)) = Cardinality(T) => Earlier(i) = T
    BY <1>2, <1>3, <2>1, FS_Subset, FS_CardinalityType
  <2> QED BY <1>2, <2>2, <2>3
<1>4. \A i \in S : Rank(S, i) \in 0..(n - 1)
  <2> TAKE i \in S
  <2>1. Rank(S, i) < n
    <3>1. Earlier(i) \subseteq S
      OBVIOUS
    <3> HIDE DEF Earlier
    <3> QED BY <1>3, <3>1
  <2>2. Rank(S, i) \in Nat
    BY <1>2
  <2> QED BY <1>1, <2>1, <2>2
<1>5. ASSUME NEW i \in S, NEW j \in S, i < j PROVE Rank(S, i) < Rank(S, j)
  <2>1. i \in Earlier(j) /\ Earlier(j) \subseteq S
    BY <1>5
  <2>2. ASSUME NEW m \in Earlier(i) PROVE m \in Earlier(j)
    <3>1. m \in S /\ m \in Int /\ i \in Int /\ j \in Int /\ m < i
      BY <1>1, <2>2
    <3> QED BY <1>5, <3>1
  <2> HIDE DEF Earlier
  <2>3. Earlier(i) \subseteq Earlier(j)
    BY <2>2
  <2> QED BY <1>2, <1>3, <2>1, <2>3
<1>6. \A i, j \in S : Rank(S, i) = Rank(S, j) => i = j
  <2> TAKE i, j \in S
  <2>1. i < j \/ j < i \/ i = j
    BY <1>1
  <2>2. Rank(S, i) \in Nat /\ Rank(S, j) \in Nat
    BY <1>2
  <2> QED BY <1>5, <2>1, <2>2
<1>7. ASSUME NEW k \in 0..(n - 1) PROVE \E i \in S : Rank(S, i) = k
  <2> DEFINE f == [i \in S |-> Rank(S, i)]
             T == 0..(n - 1)
  <2>1. f \in Injection(S, T)
    BY <1>4, <1>6 DEF Injection, IsInjective
  <2>2. IsFiniteSet(T) /\ Cardinality(T) = n
    BY <1>1, FS_Interval
  <2> HIDE DEF f
  <2>3. f \in Surjection(S, T)
    BY <2>1, <2>2, FS_Injection
  <2>4. \E i \in S : f[i] = k
    BY <2>3 DEF Surjection
  <2> QED BY <2>4 DEF f
<1> QED BY <1>1, <1>4, <1>6, <1>7

(* A slice in file order has all its positions and no others. *)
LEMMA FileOrder ==
    ASSUME NEW S, S \subseteq Int, IsFiniteSet(S)
    PROVE  /\ InFileOrder(S) \in [1..Cardinality(S) -> S]
           /\ \A i \in S : \E k \in 1..Cardinality(S) : InFileOrder(S)[k] = i
<1> DEFINE n == Cardinality(S)
<1>1. /\ n \in Nat
      /\ \A i \in S : Rank(S, i) \in 0..(n - 1)
      /\ \A i, j \in S : Rank(S, i) = Rank(S, j) => i = j
      /\ \A k \in 0..(n - 1) : \E i \in S : Rank(S, i) = k
  BY RanksAreBijective
<1> HIDE DEF n
<1>2. ASSUME NEW k \in 1..n
      PROVE  /\ InFileOrder(S)[k] \in S
             /\ Rank(S, InFileOrder(S)[k]) = k - 1
  <2>1. k - 1 \in 0..(n - 1)
    BY <1>1
  <2>2. \E i \in S : Rank(S, i) = k - 1
    BY <1>1, <2>1
  <2>3. InFileOrder(S)[k] = CHOOSE i \in S : Rank(S, i) = k - 1
    BY DEF InFileOrder, n
  <2> QED BY <2>2, <2>3
<1>3. InFileOrder(S) \in [1..n -> S]
  BY <1>2 DEF InFileOrder, n
<1>4. ASSUME NEW i \in S PROVE \E k \in 1..n : InFileOrder(S)[k] = i
  <2>1. Rank(S, i) + 1 \in 1..n /\ (Rank(S, i) + 1) - 1 = Rank(S, i)
    BY <1>1
  <2>2. Rank(S, InFileOrder(S)[Rank(S, i) + 1]) = Rank(S, i)
    BY <1>2, <2>1
  <2> QED BY <1>1, <1>2, <2>1, <2>2
<1> QED BY <1>3, <1>4 DEF n

(* Flattening is concatenation one by one. *)
Unfolds(g, seqs, n) ==
    /\ g[1] = seqs[1]
    /\ \A i \in 2..n : g[i] = g[i - 1] \o seqs[i]
    /\ FlattenSeq(seqs) = g[n]

LEMMA FlattenUnfolds ==
    ASSUME NEW S, NEW n \in Nat \ {0}, NEW seqs \in [1..n -> Seq(S)]
    PROVE  \E g \in [1..n -> Seq(S)] : Unfolds(g, seqs, n)
<1> DEFINE N == Len(seqs)
           Body(g, i) == IF i = 1 THEN seqs[i] ELSE g[i - 1] \o seqs[i]
           flatten == CHOOSE g : g = [i \in 1..N |-> Body(g, i)]
           Built(m, g) == /\ g \in [1..m -> Seq(S)]
                          /\ \A i \in 1..m : g[i] = Body(g, i)
           T == {m \in Nat : m <= n => \E g : Built(m, g)}
<1>1. N = n /\ N # 0
  OBVIOUS
<1>2. 0 \in T
  <2>1. Built(0, [i \in 1..0 |-> << >>])
    OBVIOUS
  <2> HIDE DEF Built
  <2> QED BY <2>1
<1> HIDE DEF Built
<1>3. ASSUME NEW m \in Nat, m \in T PROVE m + 1 \in T
  <2> SUFFICES ASSUME m + 1 <= n PROVE \E g : Built(m + 1, g)
    OBVIOUS
  <2>1. PICK f : Built(m, f)
    BY <1>3
  <2> DEFINE next == IF m = 0 THEN seqs[1] ELSE f[m] \o seqs[m + 1]
             g == [i \in 1..(m + 1) |-> IF i <= m THEN f[i] ELSE next]
  <2>2. next \in Seq(S)
    <3>1. seqs[1] \in Seq(S) /\ seqs[m + 1] \in Seq(S)
      OBVIOUS
    <3>2. m # 0 => f[m] \in Seq(S)
      BY <2>1 DEF Built
    <3> QED BY <3>1, <3>2, ConcatProperties
  <2> HIDE DEF next
  <2>3. g \in [1..(m + 1) -> Seq(S)]
    BY <2>1, <2>2 DEF Built
  <2>4. ASSUME NEW i \in 1..(m + 1) PROVE g[i] = Body(g, i)
    <3>1. CASE i \in 1..m
      <4>1. f[i] = Body(f, i)
        BY <2>1, <3>1 DEF Built
      <4>2. g[i] = f[i] /\ (i # 1 => g[i - 1] = f[i - 1])
        BY <3>1
      <4> HIDE DEF g
      <4> QED BY <4>1, <4>2
    <3>2. CASE i = m + 1
      <4>1. g[i] = next /\ (m # 0 => g[i - 1] = f[m]) /\ (i = 1 <=> m = 0)
        BY <3>2
      <4> HIDE DEF g
      <4> QED BY <3>2, <4>1 DEF next
    <3> QED BY <3>1, <3>2
  <2> HIDE DEF g
  <2>5. Built(m + 1, g)
    BY <2>3, <2>4 DEF Built
  <2> QED BY <2>5
<1>4. n \in T
  <2> HIDE DEF T
  <2> QED BY <1>2, <1>3, InductionOnNat
<1>5. PICK g : Built(n, g)
  BY <1>4
<1>6. g = [i \in 1..N |-> Body(g, i)]
  BY <1>1, <1>5 DEF Built
<1>7. flatten = [i \in 1..N |-> Body(flatten, i)]
  BY <1>6
<1>8. FlattenSeq(seqs) = flatten[N]
  BY <1>1 DEF FlattenSeq
<1> HIDE DEF flatten
<1>9. DOMAIN flatten = 1..n /\ \A i \in 1..n : flatten[i] = Body(flatten, i)
  <2>1. PICK f : f = flatten
    OBVIOUS
  <2>2. f = [i \in 1..n |-> Body(flatten, i)]
    BY <1>1, <1>7, <2>1
  <2> QED BY <2>1, <2>2
<1>10. /\ flatten[1] = seqs[1]
       /\ \A i \in 2..n : flatten[i] = flatten[i - 1] \o seqs[i]
  <2>1. 1 \in 1..n /\ flatten[1] = Body(flatten, 1)
    BY <1>9
  <2>2. ASSUME NEW i \in 2..n PROVE flatten[i] = flatten[i - 1] \o seqs[i]
    <3>1. i \in 1..n /\ i # 1
      OBVIOUS
    <3>2. flatten[i] = Body(flatten, i)
      BY <1>9, <3>1, Zenon
    <3> QED BY <3>1, <3>2, Zenon
  <2> QED BY <2>1, <2>2
<1> DEFINE U == {m \in Nat : m \in 1..n => flatten[m] \in Seq(S)}
<1>11. 0 \in U
  OBVIOUS
<1>12. ASSUME NEW m \in Nat, m \in U PROVE m + 1 \in U
  <2> SUFFICES ASSUME m + 1 \in 1..n PROVE flatten[m + 1] \in Seq(S)
    OBVIOUS
  <2>1. CASE m = 0
    BY <1>10, <2>1
  <2>2. CASE m # 0
    <3>1. flatten[m] \in Seq(S) /\ seqs[m + 1] \in Seq(S) /\ m + 1 \in 2..n
      BY <1>12, <2>2
    <3>2. flatten[m + 1] = flatten[m] \o seqs[m + 1]
      <4>1. PICK i \in 2..n : i = m + 1
        BY <3>1
      <4>2. flatten[i] = flatten[i - 1] \o seqs[i]
        BY <1>10, <4>1, Zenon
      <4>3. i - 1 = m
        BY <4>1
      <4> QED BY <4>1, <4>2, <4>3, Zenon
    <3> QED BY <3>1, <3>2, ConcatProperties
  <2> QED BY <2>1, <2>2
<1>13. Nat \subseteq U
  <2> HIDE DEF U
  <2> QED BY <1>11, <1>12, InductionOnNat
<1>14. flatten \in [1..n -> Seq(S)]
  <2>1. \A m \in 1..n : flatten[m] \in Seq(S)
    BY <1>13
  <2>2. flatten = [i \in 1..n |-> flatten[i]]
    <3>1. PICK f : f = flatten
      OBVIOUS
    <3>2. f = [i \in 1..n |-> Body(flatten, i)]
      BY <1>1, <1>7, <3>1
    <3>3. f = [i \in 1..n |-> f[i]]
      BY <3>2
    <3> QED BY <3>1, <3>3
  <2> QED BY <2>1, <2>2
<1>15. Unfolds(flatten, seqs, n)
  BY <1>1, <1>8, <1>10 DEF Unfolds
<1> QED BY <1>14, <1>15

(* n blocks of r equal items: every block is in the flattened sequence. *)
AreBlocks(seqs, n, r, item) ==
    \A k \in 1..n : Len(seqs[k]) = r /\ \A j \in 1..r : seqs[k][j] = item[k]

HasBlocks(s, n, r, item) ==
    \A k \in 1..n : \E o \in Nat : o + r <= r * n /\ \A j \in 1..r : s[o + j] = item[k]

LEMMA EqualBlocks ==
    ASSUME NEW S, NEW n \in Nat \ {0}, NEW r \in Nat, NEW item,
           NEW seqs \in [1..n -> Seq(S)], AreBlocks(seqs, n, r, item)
    PROVE  HasBlocks(FlattenSeq(seqs), n, r, item)
<1> DEFINE Block(s, o, x) == o + r <= Len(s) /\ \A j \in 1..r : s[o + j] = x
           Holds(s, m) == /\ Len(s) = r * m
                          /\ \A k \in 1..m : \E o \in Nat : Block(s, o, item[k])
<1>1. ASSUME NEW k \in 1..n
      PROVE  seqs[k] \in Seq(S) /\ Len(seqs[k]) = r /\ Block(seqs[k], 0, item[k])
  <2>1. /\ seqs[k] \in Seq(S) /\ Len(seqs[k]) = r
        /\ \A j \in 1..r : seqs[k][j] = item[k]
    BY DEF AreBlocks
  <2>2. 0 + r <= r /\ \A j \in 1..r : 0 + j = j
    OBVIOUS
  <2> QED BY <2>1, <2>2
<1>2. PICK g \in [1..n -> Seq(S)] : Unfolds(g, seqs, n)
  BY FlattenUnfolds
<1>3. /\ g[1] = seqs[1]
      /\ \A i \in 2..n : g[i] = g[i - 1] \o seqs[i]
      /\ FlattenSeq(seqs) = g[n]
  BY <1>2 DEF Unfolds
(* A block stays where it is when more is appended, and the appended one *)
(* comes last.                                                           *)
<1>4. ASSUME NEW s \in Seq(S), NEW t \in Seq(S), NEW x, NEW o \in Nat, Block(s, o, x)
      PROVE  Block(s \o t, o, x)
  <2>1. /\ Len(s) \in Nat /\ Len(t) \in Nat /\ Len(s \o t) = Len(s) + Len(t)
        /\ \A i \in 1..Len(s) + Len(t) :
              (s \o t)[i] = IF i <= Len(s) THEN s[i] ELSE t[i - Len(s)]
    BY ConcatProperties, LenProperties
  <2>2. ASSUME NEW j \in 1..r PROVE (s \o t)[o + j] = x
    <3>1. o + j \in 1..Len(s) + Len(t) /\ o + j <= Len(s)
      BY <1>4, <2>1
    <3>2. s[o + j] = x
      BY <1>4
    <3> QED BY <2>1, <3>1, <3>2
  <2>3. o + r <= Len(s \o t)
    BY <1>4, <2>1
  <2> QED BY <2>2, <2>3
<1>5. ASSUME NEW s \in Seq(S), NEW t \in Seq(S), NEW x, Block(t, 0, x)
      PROVE  Block(s \o t, Len(s), x)
  <2>1. /\ Len(s) \in Nat /\ Len(t) \in Nat /\ Len(s \o t) = Len(s) + Len(t)
        /\ \A i \in 1..Len(s) + Len(t) :
              (s \o t)[i] = IF i <= Len(s) THEN s[i] ELSE t[i - Len(s)]
    BY ConcatProperties, LenProperties
  <2>2. ASSUME NEW j \in 1..r PROVE (s \o t)[Len(s) + j] = x
    <3>1. /\ Len(s) + j \in 1..Len(s) + Len(t) /\ ~(Len(s) + j <= Len(s))
          /\ (Len(s) + j) - Len(s) = j /\ 0 + j = j
      BY <1>5, <2>1
    <3>2. t[0 + j] = x
      BY <1>5
    <3> QED BY <2>1, <3>1, <3>2
  <2>3. Len(s) + r <= Len(s \o t)
    BY <1>5, <2>1
  <2> QED BY <2>2, <2>3
<1> HIDE DEF Block
<1> DEFINE T == {m \in Nat : m \in 1..n => Holds(g[m], m)}
<1>6. 0 \in T
  OBVIOUS
<1>7. ASSUME NEW m \in Nat, m \in T, m + 1 \in 1..n PROVE Holds(g[m + 1], m + 1)
  <2>1. /\ seqs[m + 1] \in Seq(S) /\ Len(seqs[m + 1]) = r
        /\ Block(seqs[m + 1], 0, item[m + 1])
    BY <1>1, <1>7, Zenon
  <2>2. CASE m = 0
    <3>1. g[m + 1] = seqs[m + 1] /\ r * (m + 1) = r
      BY <1>3, <2>2
    <3>2. \A k \in 1..(m + 1) : k = m + 1
      BY <2>2
    <3> QED BY <2>1, <3>1, <3>2
  <2>3. CASE m # 0
    <3>1. m \in 1..n /\ m + 1 \in 2..n /\ (m + 1) - 1 = m
      BY <1>7, <2>3
    <3>2. g[m] \in Seq(S) /\ Holds(g[m], m)
      BY <1>7, <3>1
    <3>3. g[m + 1] = g[m] \o seqs[m + 1]
      <4>1. g[m + 1] = g[(m + 1) - 1] \o seqs[m + 1]
        BY <1>3, <3>1, Zenon
      <4> QED BY <3>1, <4>1, Zenon
    <3>4. Len(g[m + 1]) = r * (m + 1)
      <4>1. Len(g[m] \o seqs[m + 1]) = Len(g[m]) + Len(seqs[m + 1])
        BY <2>1, <3>2, ConcatProperties, Zenon
      <4> QED BY <2>1, <3>2, <3>3, <4>1
    <3>5. ASSUME NEW k \in 1..(m + 1) PROVE \E o \in Nat : Block(g[m + 1], o, item[k])
      <4>1. CASE k \in 1..m
        <5>1. PICK o \in Nat : Block(g[m], o, item[k])
          BY <3>2, <4>1, Zenon
        <5>2. Block(g[m] \o seqs[m + 1], o, item[k])
          BY <1>4, <2>1, <3>2, <5>1
        <5> QED BY <3>3, <5>2
      <4>2. CASE k = m + 1
        <5>1. Block(g[m + 1], Len(g[m]), item[k])
          BY <1>5, <2>1, <3>2, <3>3, <4>2, Zenon
        <5>2. Len(g[m]) \in Nat
          BY <3>2, LenProperties
        <5> QED BY <5>1, <5>2
      <4> QED BY <4>1, <4>2
    <3> QED BY <3>4, <3>5
  <2> QED BY <2>2, <2>3
<1>8. n \in T
  <2> HIDE DEF Holds
  <2>1. ASSUME NEW m \in Nat, m \in T PROVE m + 1 \in T
    <3>1. m + 1 \in 1..n => Holds(g[m + 1], m + 1)
      BY <1>7, <2>1
    <3> QED BY <3>1
  <2> HIDE DEF T
  <2> QED BY <1>6, <2>1, InductionOnNat
<1>9. Holds(g[n], n) /\ g[n] \in Seq(S)
  <2> HIDE DEF Holds
  <2> QED BY <1>8
<1>10. ASSUME NEW k \in 1..n
       PROVE  \E o \in Nat : o + r <= r * n /\ \A j \in 1..r : g[n][o + j] = item[k]
  <2>1. PICK o \in Nat : Block(g[n], o, item[k])
    BY <1>9, Zenon
  <2>2. o + r <= r * n /\ \A j \in 1..r : g[n][o + j] = item[k]
    BY <1>9, <2>1 DEF Block
  <2> QED BY <2>2
<1>11. HasBlocks(g[n], n, r, item)
  BY <1>10 DEF HasBlocks
<1> QED BY <1>3, <1>11

(* The rows of a file name the tracts that were assigned, one for one. *)
RowsOf(slice, total, rowsPerTract, seed, columns, file) ==
    SerializeCsv(GenerateSyntheticPeople(slice, total, rowsPerTract, seed, columns, file),
                 columns).rows

NameTracts(rows, total, tract, file) ==
    /\ Len(rows) = total /\ DOMAIN rows = 1..total
    /\ \A x \in 1..total : rows[x][1] = file[tract[x]].tractFips

LEMMA FileRows ==
    ASSUME NEW slice, NEW total \in Nat, NEW rowsPerTract, NEW seed, NEW columns, NEW file
    PROVE  NameTracts(RowsOf(slice, total, rowsPerTract, seed, columns, file), total,
                      Assigned(AllocateRows(slice, rowsPerTract, total, file)), file)
<1> DEFINE people == GenerateSyntheticPeople(slice, total, rowsPerTract, seed, columns, file)
           tract == Assigned(AllocateRows(slice, rowsPerTract, total, file))
           rows == RowsOf(slice, total, rowsPerTract, seed, columns, file)
<1>1. /\ DOMAIN people = 1..total
      /\ \A x \in 1..total : people[x].tractFips = file[tract[x]].tractFips
  BY DEF GenerateSyntheticPeople
<1> HIDE DEF people, tract
<1>2. rows = [i \in DOMAIN people |->
                <<people[i].tractFips, people[i].ageBand,
                  [k \in DOMAIN columns |-> people[i].flags[columns[k]]]>>]
  BY DEF SerializeCsv, RowsOf, people
<1> HIDE DEF rows
<1>3. DOMAIN rows = 1..total /\ \A x \in 1..total : rows[x][1] = people[x].tractFips
  BY <1>1, <1>2
<1>4. Len(rows) = total
  BY <1>1, <1>2
<1> QED BY <1>1, <1>3, <1>4 DEF NameTracts, rows, tract

LEMMA ZeroShared ==
    ASSUME NEW n \in Nat \ {0}
    PROVE  0 \div n = 0 /\ 0 % n = 0
  OBVIOUS

(* A total of rowsPerTract rows for every tract leaves no remainder. *)
LEMMA EvenAllocation ==
    ASSUME NEW slice, IsFiniteSet(slice), slice # {}, NEW rowsPerTract \in Nat, NEW file,
           NEW alloc,
           alloc = AllocateRows(slice, rowsPerTract, rowsPerTract * Cardinality(slice), file)
    PROVE  DOMAIN alloc = slice /\ \A i \in slice : alloc[i] = rowsPerTract
<1> DEFINE n == Cardinality(slice)
           remainder == rowsPerTract * n - rowsPerTract * n
           rank(i) == Cardinality({j \in slice : Before(file, j, i)})
<1>1. n \in Nat \ {0}
  BY FS_CardinalityType, FS_EmptySet
<1>2. \A i : rank(i) \in Nat
  <2> TAKE i
  <2>1. IsFiniteSet({j \in slice : Before(file, j, i)})
    BY FS_Subset
  <2> QED BY <2>1, FS_CardinalityType
<1>3. alloc = [i \in slice |-> rowsPerTract + remainder \div n
                             + (IF rank(i) < remainder % n THEN 1 ELSE 0)]
  BY DEF AllocateRows
<1> HIDE DEF n, rank
<1>4. remainder = 0
  BY <1>1
<1>5. remainder \div n = 0 /\ remainder % n = 0
  BY <1>1, <1>4, ZeroShared
<1> HIDE DEF remainder
<1>6. DOMAIN alloc = slice
  BY <1>3
<1>7. ASSUME NEW i \in slice PROVE alloc[i] = rowsPerTract
  <2>1. alloc[i] = rowsPerTract + remainder \div n + (IF rank(i) < remainder % n THEN 1 ELSE 0)
    BY <1>3
  <2>2. rank(i) \in Nat
    BY <1>2
  <2> QED BY <1>5, <2>1, <2>2
<1> QED BY <1>6, <1>7

(* Every tract of the slice is in the file as often as it was promised. *)
Occurrences(rows, fips) == Cardinality({r \in DOMAIN rows : rows[r][1] = fips})

LEMMA TractsHaveRows ==
    ASSUME NEW slice, slice \subseteq Int, IsFiniteSet(slice), slice # {},
           NEW rowsPerTract \in Nat, NEW seed, NEW columns, NEW file,
           NEW total, total = rowsPerTract * Cardinality(slice),
           NEW i \in slice
    PROVE  Occurrences(RowsOf(slice, total, rowsPerTract, seed, columns, file),
                       file[i].tractFips) >= rowsPerTract
<1> DEFINE rows == RowsOf(slice, total, rowsPerTract, seed, columns, file)
           alloc == AllocateRows(slice, rowsPerTract, total, file)
           order == InFileOrder(slice)
           n == Cardinality(slice)
           tract == Assigned(alloc)
           hits == {x \in DOMAIN rows : rows[x][1] = file[i].tractFips}
<1>1. n \in Nat \ {0} /\ total \in Nat
  BY FS_CardinalityType, FS_EmptySet
<1>2. DOMAIN rows = 1..total /\ \A x \in 1..total : rows[x][1] = file[tract[x]].tractFips
  BY <1>1, FileRows DEF NameTracts
<1>3. DOMAIN alloc = slice /\ \A j \in slice : alloc[j] = rowsPerTract
  BY EvenAllocation
<1>4. order \in [1..n -> slice] /\ \E k \in 1..n : order[k] = i
  BY FileOrder
<1>5. PICK seqs : seqs = [k \in DOMAIN order |-> [r \in 1..alloc[order[k]] |-> order[k]]]
  OBVIOUS
<1>6. tract = FlattenSeq(seqs)
  BY <1>3, <1>5 DEF Assigned
<1> HIDE DEF alloc, order, tract, n, rows
<1>7. DOMAIN seqs = 1..n /\ seqs = [k \in 1..n |-> seqs[k]]
  BY <1>4, <1>5
<1>8. ASSUME NEW k \in 1..n
      PROVE  /\ seqs[k] \in Seq(slice) /\ Len(seqs[k]) = rowsPerTract
             /\ \A j \in 1..rowsPerTract : seqs[k][j] = order[k]
  <2>1. order[k] \in slice
    BY <1>4
  <2>2. alloc[order[k]] = rowsPerTract
    BY <1>3, <2>1
  <2>3. PICK s : s = [r \in 1..rowsPerTract |-> order[k]]
    OBVIOUS
  <2>4. seqs[k] = s
    BY <1>4, <1>5, <2>2, <2>3
  <2>5. s \in Seq(slice) /\ Len(s) = rowsPerTract /\ \A j \in 1..rowsPerTract : s[j] = order[k]
    BY <2>1, <2>3
  <2> QED BY <2>4, <2>5
<1>9. seqs \in [1..n -> Seq(slice)]
  BY <1>7, <1>8
<1>10. \A k \in 1..n : \E o \in Nat :
          /\ o + rowsPerTract <= rowsPerTract * n
          /\ \A j \in 1..rowsPerTract : FlattenSeq(seqs)[o + j] = order[k]
  <2>1. AreBlocks(seqs, n, rowsPerTract, order)
    BY <1>8 DEF AreBlocks
  <2>2. HasBlocks(FlattenSeq(seqs), n, rowsPerTract, order)
    BY <1>1, <1>9, <2>1, EqualBlocks
  <2> QED BY <2>2 DEF HasBlocks
<1>11. PICK o \in Nat :
          /\ o + rowsPerTract <= total
          /\ \A j \in 1..rowsPerTract : tract[o + j] = i
  BY <1>4, <1>6, <1>10 DEF n
<1>12. ASSUME NEW x \in (o + 1)..(o + rowsPerTract) PROVE x \in hits
  <2>1. x \in 1..total /\ x - o \in 1..rowsPerTract /\ o + (x - o) = x
    BY <1>1, <1>11
  <2>2. tract[x] = i
    BY <1>11, <2>1
  <2> QED BY <1>2, <2>1, <2>2
<1>13. IsFiniteSet(hits)
  <2>1. IsFiniteSet(1..total)
    BY <1>1, FS_Interval
  <2> QED BY <1>2, <2>1, FS_Subset
<1> HIDE DEF hits
<1>14. Cardinality((o + 1)..(o + rowsPerTract)) = rowsPerTract
  <2>1. o + 1 \in Int /\ o + rowsPerTract \in Int
    OBVIOUS
  <2>2. Cardinality((o + 1)..(o + rowsPerTract))
          = IF o + 1 > o + rowsPerTract THEN 0 ELSE (o + rowsPerTract) - (o + 1) + 1
    BY <2>1, FS_Interval
  <2> QED BY <2>2
<1>15. /\ (o + 1)..(o + rowsPerTract) \subseteq hits
       /\ Cardinality((o + 1)..(o + rowsPerTract)) <= Cardinality(hits)
       /\ Cardinality(hits) \in Nat
  BY <1>12, <1>13, FS_Subset, FS_CardinalityType
<1>16. Cardinality(hits) >= rowsPerTract
  BY <1>14, <1>15
<1> QED BY <1>16 DEF hits, rows, Occurrences

(* What is delivered is what both parties signed: the statistics, tracts   *)
(* and rows of the document that the contract pins, and every tract of the *)
(* slice at least rowsPerTract times.                                      *)
THEOREM DealTerms == Spec => []SignedTermsAreDelivered
<1>1. DealInv => SignedTermsAreDelivered
  <2> SUFFICES ASSUME DealInv, NEW d \in DOMAIN deals, deals[d].state = "DELIVERED_LOCAL"
               PROVE  LET document == deals[d].contract.terms.document
                          manifest == deals[d].manifest
                          rows == manifest.contentHash.rows
                      IN  /\ manifest.sourceStatsHash = document.statsHash
                          /\ manifest.tractCount = document.tractCount
                          /\ manifest.rowCount = document.totalRows
                          /\ Len(rows) = document.totalRows
                          /\ \A i \in EvaluateQuery(QueryOf(deals[d].negotiationId), corpus) :
                               Cardinality({r \in DOMAIN rows : rows[r][1] = corpus[i].tractFips})
                                 >= document.rowsPerTract
    BY DEF SignedTermsAreDelivered
  <2> DEFINE n == deals[d].negotiationId
             q == QueryOf(n)
             slice == EvaluateQuery(q, corpus)
             document == quotes[n].document
             manifest == deals[d].manifest
             total == document.rowsPerTract * Cardinality(slice)
  <2>1. /\ deals[d].contract.terms.document = document
        /\ manifest = ManifestFor(d, n, deals[d].capability) /\ CanDeliver(d, n)
    BY DEF DealInv, DealsInv, DealSigned, DealDelivered
  <2>2. /\ document.rowsPerTract \in Density.min..Density.max
        /\ document.totalRows = total
        /\ document.tractCount = Cardinality(slice)
        /\ document.statsHash = AggregateStats(slice, ToSet(q.columns), corpus)
    BY QuoteOfDeal, QuotedFacts
  <2>3. document.rowsPerTract \in Nat
    BY <2>2, ProductConstants
  <2>4. slice # {}
    BY <2>1 DEF CanDeliver, DeliveryThrows, QueryOf
  <2>5. /\ manifest.sourceStatsHash = AggregateStats(slice, ToSet(q.columns), corpus)
        /\ manifest.tractCount = Cardinality(slice) /\ manifest.rowCount = total
        /\ manifest.contentHash.rows
             = RowsOf(slice, total, document.rowsPerTract, d, q.columns, corpus)
    BY <2>1 DEF ManifestFor, Manifest, StatsCommitment, QueryOf, RowsOf
  <2>6. slice \subseteq Int /\ IsFiniteSet(slice)
    <3>1. DOMAIN corpus = 1..Len(corpus) /\ Len(corpus) \in Nat
      BY LenProperties DEF DealInv, CorpusInv
    <3>2. slice \subseteq 1..Len(corpus)
      BY <3>1 DEF EvaluateQuery
    <3> HIDE DEF slice
    <3>3. IsFiniteSet(1..Len(corpus)) /\ 1..Len(corpus) \subseteq Int
      BY <3>1, FS_Interval
    <3> QED BY <3>2, <3>3, FS_Subset
  <2> HIDE DEF slice, q, n
  <2>7. total \in Nat
    BY <2>3, <2>6, FS_CardinalityType
  <2>8. Len(manifest.contentHash.rows) = total
    BY <2>5, <2>7, FileRows DEF NameTracts
  <2>9. ASSUME NEW i \in slice
        PROVE  Cardinality({r \in DOMAIN manifest.contentHash.rows :
                              manifest.contentHash.rows[r][1] = corpus[i].tractFips})
                 >= document.rowsPerTract
    <3>1. Occurrences(RowsOf(slice, total, document.rowsPerTract, d, q.columns, corpus),
                      corpus[i].tractFips) >= document.rowsPerTract
      BY <2>3, <2>4, <2>6, TractsHaveRows
    <3> QED BY <2>5, <3>1 DEF Occurrences
  <2> QED BY <2>1, <2>2, <2>5, <2>8, <2>9 DEF slice, q, n
<1> QED BY <1>1, AlwaysDeal, PTL
=============================================================================
