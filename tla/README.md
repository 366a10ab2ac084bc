# A verification project for the A2A coordination extension

The repository defines an extension of the A2A protocol by which two agents
form, fund, fulfil and settle an agreement through a Coordination Runtime, and
it ships two example sellers: the data seller in TypeScript
(`examples/data-seller-agent`) and the copywriting seller in Python
(`examples/seller-agent`).  This directory holds TLA+ models of the parts that
keep state, TLC configurations that check them, and TLAPS proofs.

## Inventory

| Component | State it keeps | Operations | What is hard | What makes it correct |
|---|---|---|---|---|
| Agreement state machine (`conformance/transitions.json`, `spec/v1`) | state, revision | legal edges, settlement self-loop | commands signed against an old revision, replays | only listed edges are recorded |
| `DataSeller` (`seller.ts`) | negotiations, quotes, deals, capability tokens | quote, propose, registerLiveDeal, accept, observeRuntimeStatus, recordInteraction, prepareDelivery, revokeCapability, two prunes | growth driven by strangers, prunes against live references, retries, an await inside prepareDelivery | references resolve, caps hold, advanced deals stay, revocation is final |
| `LiveCoordinator` (`live.ts`) | dealTerms, delivering, watching | countersign, coSignFunding, handleNotification, runDelivery, watchOutcome, consentRefund, appeal | concurrent tasks with stale reads, lost answers, writes handled late, one-shot notification | committed deals are known, evidence resolves, refunds revoke, work-start leads to delivery |
| Runtime binding (`binding.ts`, `runtime_bind.py`) | status, registered, everActive | start, maintain, block | an Identity that fails, lost answers, approval and revocation by the owner, restarts | gate opens and closes with the owner, few duplicate requests |
| Coordination Runtime (service) | agreement record, signatures, evidence | status, acceptance, funding, evidence, command; chain, arbiter and deadline events | races between parties and deadlines | follows the state machine |
| Transport (`coordination.ts`) | none | one JSON-RPC call per interaction | lost answers, domain rejections | retriable and final refusals told apart |
| Server, executor (`server.ts`, `executor.ts`) | none of their own | boot, one branch per message kind, notification gate, artifact routes | any caller may send any kind, in any order, again; a refusal must be an error so that the relay repeats | a capability reaches the signer only, a late request takes nothing back |
| Contract extension (`extension.ts`, `terms.ts`, `settlement.ts`) | none | validateTerms, acceptTerms, the terms document, delivery requests, base units | contracts differ from the offer in one member; amounts are cents, decimals and base units | what is signed is what was quoted |
| Query engine (`product.ts`, `engine/`) | the corpus | readQuery, validateQuery, evaluateQuery, price, statistics, sample, density, row allocation, generation, manifest, verification | suppressed values, clamps, rounding, malformed filters | quote, signature, delivery and the buyer's regeneration agree |
| Python seller (`executor.py`, `coordination.py`, `extension.py`) | deals, deal_terms, admin inventory, _delivering | the same protocol in another order, standalone and live | deal_terms set after the lossy write, an address read before two awaits, two deliveries without a guard | what it remembers is committed, what is funded it remembers, work-start leads to delivery |
| Buyer script (`scripts/buyer.ts`) | how far it is | query, propose, request acceptance, request delivery, fetch, verify | a delivery that is replaced between its two fetches | it accepts every file that was not replaced |
| Conformance runner, home pages, cards | none | | | |

Interactions: the executor and the notification gate call the coordinator; the
coordinator calls the store synchronously and the Runtime asynchronously; the
binding task runs on its own and the coordinator reads its status before each
signature; the Runtime notifies through a relay.

## Modules

`AgreementTable` holds the states and edges of `fixed_outcome/v1`.  The Runtime
of `LiveSeller` moves along these edges and no others (`Transition`); the
acceptance that commits a proposal is an interaction and not an edge.  A
settlement observation changes no state and is left out.

`SellerStore` is class `DataSeller`.  The three maps are functions keyed by id;
a JavaScript Map's insertion order is the numeric order of negotiation ids and
the field `order` of a deal.  Each method runs to completion, so it is one
action, with the prune it contains; `prepareDelivery` awaits the generator and
is `PrepareDelivery`, then `DeliveryPrepared` or `DeliveryFailed`, which keep
hold of the record they started with, as the code does.  Pricing and
`acceptTerms` are verdicts.  The history of a deal is seen through `updatedAt`
only.

`LiveSeller` is class `LiveCoordinator` with the Runtime, for one agreement.
An action is the code between two awaits of a task.  A read is answered in one
step and used in a later one; a write is put on the wire, handled by the
Runtime in a step of its own and answered.  At each await the transport may
fail, the write handled or not, and with `LateWrites` handled after its caller
has given up.  A status may come without the vault's domain, and the delivery
then awaits the funding context before it prepares (`DeliveryDomain`).  The
store is seen through its record for this deal, and the prunes of other traffic
(`Reclaiming`).  The Runtime is not in the repository: its handlers follow the
test double of `test/live-coordination.test.ts` where that decides (revision
check, evidence check, states), and the agreement's table where it does not
(funding observed only with both artifacts).  That double takes an acceptance in
any state; the one here takes it in PROPOSED only, which `countersign` relies on
when it finds the agreement COMMITTED, and which the double of the Python
agent asserts (`test_live_coordination.py:208`).  What is checked is what the
sellers make of it, never the Runtime's own record.

`RuntimeBinding` is the task of both agents: a pass is a lookup and, if
nothing was filed, up to three more calls, each of which may fail or lose its
answer; Identity, the owner and the directory are the environment.

`Places` is the query engine, `Product` the reading of a request body and the
quote, `Deliverable` the rows, the manifest and the verification: operators
over a corpus, without state.  A corpus is the sequence of tracts of a file, a
slice the set of positions that match, a prevalence a whole number of tenths of
a percent.  A hash is the value it is taken of, so two hashes agree exactly if
their preimages do, and what JavaScript does to a value on the way into the
hash (dropping duplicates, filling in nulls, scaling, throwing at a fraction) is
what the operators do.  The cut of a list of more than `MAX_PROBLEMS` problems
is left out: what is read of the list is whether it is empty.  A body is what a caller wrote: absent, an array, a
string, something else; `readQuery` decides what becomes of it.  The generator
is stratified as in the code, over any `Uniform` the model is given.

`DataDeal` puts them behind the executor, `acceptTerms` and the store, with
the buyer's script and strangers that send what any caller may: a stranger
queries, proposes its own terms or a contract it saw, from its own address or
under another's name, asks for acceptances and signs delivery requests.  It
keeps the content of deals and is shown to implement `SellerStore`, which has
the caps and prunes: `ImplementsStore` maps quotes, deals, preparations and
capabilities to the store's, and a terms document to the number of the first
quote that carries it.  Without a Runtime nobody revokes a capability, so the
download gate looks at the token alone.

`SellerExecutor` is the Python seller, in both modes, with the transport, the
relay and the Runtime of its test double.  Actions reach from one answer to the
next.  Where a read is followed by a write built from it with nothing between,
they are one action: what another task does before the write is handled finds
the write on the wire.  The Runtime's status may come without the terms' hash,
and the contract that was presented is then compared only with what is on offer
(`reported`).  A delivery task that writes the same again while its first write
is late has one write on the wire, not two: the second would be answered alike
(evidence) or with a conflict (a command), and end the task the same way.

`MCSellerStore` and `MCLiveSeller` add symmetry for TLC, `MCDataDeal` the
corpora and the bodies.

The theorems are in modules of their own, which extend the module they are
about: `SellerStoreProofs`, `RuntimeBindingProofs`, `SellerExecutorProofs`,
`DataDealProofs` with `DataDealStoreProofs` on top of it (`DataDeal` refines
`SellerStore`), and for `LiveSeller` a chain of three, each of which uses the
one before: `LiveSellerProofs` (remembered terms), `LiveDeliveryProofs` (types,
delivery tasks, the watch, the acknowledged work) and `LiveOutcomeProofs` (the
committed artifact).

## Runs

| Run | What it shows | Bounds |
|---|---|---|
| `SellerStore` | links, pins, both caps, retries and revocation over 245 thousand states | caps of 1 and a time to live of 0, so every prune bites; 3 quotes, 3 inserts, one local and one live id, two documents; a record can be reclaimed and its id inserted again |
| `LiveFormation` | a committed agreement is known to the seller | two acceptance requests, a funding request, a viewer, three failures, late writes, prunes |
| `LiveDelivery` | a delivered command cites the evidence of the artifact it commits to; while the agreement waits for acknowledged work, a delivery task is at it | one relay, two delivery tasks, two failures, late writes, prunes |
| `LiveOutcome` | the committed artifact is served; a capability is watched for refunds | one task of each kind, one failure, no late writes, no prunes |
| `LiveProgress` | a refund ends access; a work-start is delivered or the deadline passes | one task of each kind, one failure, late writes |
| `DataDeal` | what is signed is what is delivered and verified, at the list price; columns that were not bought do not show; the card predicts slices; capabilities reach the signer; the store is implemented; 101 thousand states | see below |
| `SellerExecutor` | the Python seller remembers what is committed and what is funded, records only verified proposals, keeps acknowledged work under way and delivers it; 499 thousand states | see below |
| `RuntimeBinding` | requests are accounted for, the agent gets registered, approvals open and revocations close the gate | two failures, one restart, three moves of owner or directory, both agents |

Bounds of `DataDeal`.  Two negotiations, two deals and two started deliveries
are enough for a deal that is proposed twice, a stranger's beside a buyer's,
and a delivery that replaces another.  Two measures, one of them suppressed in
a whole state or in one tract of a state, an empty corpus, a line without a
state; the rates of `MCDataDeal` make prices need rounding, its
densities make the clamp bite.  Requests expire at once (`MaxAge` 0, `MaxClock` 1), so
every request is seen fresh and stale; time ticks only while one is on the
wire.  Each stranger proposes once and signs one request.  The buyer verifies
against the corpus the seller was booted with.

Bounds of `SellerExecutor`.  Two racing acceptance requests, one funding
request, one delivery request beside the background task, one notice of the
relay, two failures, writes handled late.  One loop is exact: `_delivering`
keeps a second one from starting.  A request for terms is left out once no
later request can read the address it leaves.  The admin inventory is reduced
to its contracts, which is all that can be wrong about who is listed; the
refresh of its pages reads states only.  The binding gate opens and does not
close (the Python task never looks again).  Notifications carry the deadline.
All of this state lives in the process and is lost with it, in both sellers;
no code recovers it, so no restart is modelled here.

Deadlock is not checked: an agreement ends, a buyer may stop asking, and the
bounds on failures and clocks end every run.

Fairness is weak fairness of the seller's tasks (timers fire, promises settle),
of the Runtime's handling of what reached it, of the relay's repetition (its
retry loop is what `handleNotification` relies on) and of the owner's renewal of
a lapsed binding; in `SellerExecutor` of the delivery loop, the notices and the
Runtime's handling.  Failures are finitely many.  Nothing is assumed of the
buyer, the arbiter or the deadlines.

Four runs show where the code does not do what a comment or the card says:

- `LiveReclaimFunded`: a funded deal is reclaimed, because the prune judges by
  the last state that was read (`seller.ts:204` says never).
- `LiveEvidenceLost`: a delivered command that lands late commits an artifact
  the retry has replaced (`seller.ts:789` says that the evidence resolves).
- `ManifestCriteria`: the criteriaHash of a manifest is never the one of the
  signed document (`terms.ts:96` and `product.ts:40` say they are compared).
- `UndeliverableSlice`: a slice and a density that exceed `MAX_ROWS` together
  are quoted, countersigned and refused at every delivery
  (`card-params.json:166` guarantees the rows; it lists the limit at 184, which
  the quote does not enforce).  `MaxRows` is 3 there and 4 in
  `DataDeal`, where every slice fits.

Met while modelling and part of the models, without a run of their own (paths
are under `examples/data-seller-agent/src` or the Python package):

- `readQuery` drops a filter of the wrong type, which widens the slice
  (`product.ts:60`; the comment at 53 speaks of rejecting).
- A threshold that is not a whole number passes `validateQuery` and makes
  `composeQuote` throw in the canonical hash (`hash.ts:32`).
- The seed of a deal is fixed, so a file that misses its calibration misses it
  at every attempt (`deliver.ts:200`).
- Answers of concurrent reads are recorded in the order they arrive, so the
  history may show a change that never happened (`seller.ts:387`).
- A lost answer makes the data seller file a second binding request in the same
  process (`binding.ts:305`; `:24` says once), and the Python task reports
  active after a revocation (`runtime_bind.py:258`; see `:90`).
- The Python seller's standalone delivery looks a contract up by its terms and
  signs for the deal id of the request, unchecked (`executor.py:830`).

## Proofs

Every theorem is for every value of the constants.  What is assumed of them is
`StoreConstants`, `LiveConstants`, `BindingConstants`, `ExecutorConstants`,
`DealConstants`, `ProductConstants` and `PlacesConstants`: bounds are naturals,
caps positive, the sets of ids, tasks and callers disjoint, the rate card and
the density well-formed, a body what a JSON parser can return, a file a sequence
of tracts.

- `SellerStore`: `TypeOK`, `DealsResolve`, `LinksAgree`,
  `QuotesFollowNegotiations`, `AdvancedDealStays`, `RevocationIsFinal`,
  `QuoteStaysWithinCap`, `InsertStaysWithinCap`.  The
  invariant `StoreInv` is the type invariant, the three link invariants, which
  need one another (a quote is evicted only if no deal references it, which is
  read off the deals; a negotiation is reopened only when its list is empty,
  which is read off the links), and two facts about ids: a local deal in the
  store was drawn, and every order number was issued, so that a fresh id and a
  fresh order are not in the store.  Lemmas say what `Evicted`, `Reclaimed`,
  `Unlinked` and `Without` return.  The caps rest on `LeftByOldest`: if no two
  members of a finite set are of one age, all but n are left when the n oldest
  go, because the number of older members injects what is left into an
  interval.  That no two deals are of one age is one more invariant.
- `LiveSeller`: `CommittedIsRemembered`, with the strengthening that an
  acceptance on the wire implies remembered terms.
- `LiveSeller`, the delivery: `TypeOK`, `DeliveredCitesItsEvidence` and
  `CapabilityIsWatched`, from `DeliveryInv`.  It says that at most one delivery
  task runs and that `delivering` is set while it does; that a task with no
  write on the wire awaits none; that while the task generates, the record has
  the number the task holds or no artifact yet, and while it awaits the evidence
  id, the artifact the evidence names or none; and that a terminal status the
  watcher was answered is still the agreement's, however old the answer.  The
  argument sorts the steps: those of the buyer's requests, of the pages, of the
  outside world and of the prunes are "calm" (they keep the record's artifact or
  lose it, send no command and leave an ended agreement ended), and only the
  delivery task, the watcher, the start of a delivery and the Runtime are taken
  one by one.  Late writes and prunes are allowed here, more than in the run of
  `CapabilityIsWatched`.
- `LiveSeller`, the acknowledged work: `AckedWorkIsUnderway`, the safety part of
  `WorkStartIsDelivered`.  `WorkInv` says that a task that is about to end has
  been told so: its probe saw another state than FULFILLING, or its command was
  answered for good, and the agreement, which goes onward only, is no longer in
  FULFILLING.  That a command is never refused while the work waits follows from
  `DeliveredCitesItsEvidence`.
- `LiveSeller`, the outcome: `EvidenceResolves` without late writes and without
  prunes, the setting of its run, from `DeliveryInv` and two facts: a command on
  the wire is awaited by the one delivery task and commits to the artifact of the
  record, and a task that may still replace the artifact runs only while the
  agreement is fulfilling or has defaulted.  Neither hypothesis can go: with
  late writes `LiveEvidenceLost` fails, with prunes the record itself goes
  (`LiveReclaimFunded`).
- `RuntimeBinding`: `TypeOK` and `RequestsAreAccounted`, with the strengthening
  that counts what the current boot has filed.
- `SellerExecutor`: `TypeOK`, `RememberedIsCommitted`, `FundedIsRemembered`,
  `InventoryIsVerified`, `AckedWorkIsUnderway`.  The Python seller remembers a
  deal after the lossy write, so `ExecInv` has to say what the answer of a write
  proves: a task that submits holds terms that are on offer, the Runtime's own if
  the status told them; it is told "ok" only by the write that committed the
  agreement with these terms, under the buyer's signature; and a funding
  signature on the wire was made with the terms remembered.  Each mode leaves
  the other's state alone.  `WorkInv` adds what a delivery task has been told
  (`Told`): there is evidence once it cites some, so that its command is refused
  only when the work is over; a request of the buyer beside it may win, and then
  the work is over too.
- `DataDeal`: all its invariants and `DeliveredStays`.  `DealInv` follows a deal
  from the quote to the file: a quote is what `composeQuote` makes of its body
  over the corpus that is served, a deal carries the document of its quote, a
  formed deal is signed by the address that proposed it at the list price, a
  delivered deal has the manifest of its newest capability, and a buyer's script
  holds the manifest of the capability it was sent, the newest unless the deal
  was delivered again.  `CardPredictsSlice` and `UnsoldColumnsDoNotShow` are
  about the loading and the evaluation themselves, so their proofs go through
  `Places` and `Product`: the loaded corpus is sorted and its card agrees with
  it.  What a fold over a file computes is proved by induction, from the
  well-foundedness of the natural numbers, which the library states without an
  operator parameter.
- `DataDeal` refines `SellerStore` (`ImplementsStore`): one lemma per method,
  `QueryIsQuote`, `SubmitIsPropose`, `AcceptIsAccept`, `HandleIsPrepare` and
  `PreparedIsPrepared`, says that the step is that method's action in the store.
  The theorem assumes `WithinCaps`: at most 1024 negotiations and as many deals,
  the two caps of the code, so the prunes find nothing to take
  (`NothingEvicted`, `NothingReclaimed`).  `DataDeal` models a seller that has
  not reached them; what happens at the caps is proved of `SellerStore` itself.
  A document has the number of the first quote that carries it, so `NamesStay`
  has to say that quotes to come do not rename it.

Two definitions were rewritten to be reasoned about, with the same meaning: a
CASE whose arms overlapped became a nested IF in the order of the code, and
`DeliveryPrepared` of `LiveSeller` sets the watch in an operator of its own,
`WatchOutcome`, after the method that does.  The refinement mapping of
`DataDeal` names a terms document by a number, and `NoDocument` is a constant of
`SellerStore`, so that the mapping can say what its absence is.

Only model-checked:

- everything temporal under fairness: `RefundEndsAccess`,
  `WorkStartIsDelivered` of both sellers, `AgentGetsRegistered`,
  `ApprovalOpensGate` and `RevocationClosesGate`;
- the four runs that end in a violation.

## Not modelled, and the plan

Every invariant and action property the passing runs check, and the refinement,
is now a theorem.  What could still be added:

1. what the refinement carries over: the links between deals, quotes and
   negotiations that `SellerStore` has and `DataDeal` inherits within the caps;
2. lemmas about the tables that only TLC reads so far, `AgreementTable` and the
   allocation of `Deliverable`.

Left out for good: cryptography (a signature verifies or does not), the JSON,
HTTP and A2A encodings with their envelope checks, the tables of the generator
(any `Uniform`, any age bands), the conformance runner, which replays vectors
through schemas and keeps no state, and the pages and cards.  Of the Runtime
only what the sellers' code and its test doubles show is modelled; the live
half of the buyer's script is part of the environment of `LiveSeller`.
