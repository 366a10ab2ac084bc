----------------------------- MODULE LiveSeller -----------------------------
(***************************************************************************)
(* The live data seller (class LiveCoordinator) and the Coordination       *)
(* Runtime it talks to, for one agreement.                                 *)
(*                                                                         *)
(* Every call of LiveCoordinator is an asynchronous task.  Between two     *)
(* awaits a task runs alone, so one action is the code from one await to   *)
(* the next.  A read of the Runtime is answered at some moment and its     *)
(* answer is used in a later step, when it may be stale.  A write is put   *)
(* in `writes', handled there by the Runtime in a step of its own, and     *)
(* answered.  At any await the transport may fail: the caller gets an      *)
(* error and cannot know whether its write was, or will be, handled.       *)
(*                                                                         *)
(* The store (SellerStore) is seen through its one record for this deal:   *)
(* `deal', whether the quote it resolves through is still held, and the    *)
(* prunes that other buyers' traffic triggers.  The terms, signatures and  *)
(* funding context are taken as matching: a mismatch only throws.          *)
(***************************************************************************)
EXTENDS Integers, Sequences, AgreementTable

CONSTANTS
    Countersigns,   \* acceptance-requests of the buyer (it retries)
    Fundings,       \* funding-requests of the buyer
    Notices,        \* concurrent deliveries of fulfill_started by the relay
    Loops,          \* backgroundDelivery tasks
    Responses,      \* answers to a rejection: consentRefund and appeal
    Viewers,        \* admin pages, each refreshing the outcome
    Watcher,        \* the watchOutcome task of the deal
    MaxFaults,      \* transport failures and binding lapses, together
    LateWrites,     \* a write whose caller failed may still be handled later
    Reclaiming      \* other traffic prunes the store

Tasks == Countersigns \cup Fundings \cup Notices \cup Loops \cup Responses
            \cup Viewers \cup {Watcher}

ASSUME LiveConstants ==
    /\ MaxFaults \in Nat
    /\ LateWrites \in BOOLEAN /\ Reclaiming \in BOOLEAN
    /\ Countersigns \cap (Fundings \cup Notices \cup Loops \cup Responses \cup Viewers) = {}
    /\ Fundings \cap (Notices \cup Loops \cup Responses \cup Viewers) = {}
    /\ Notices \cap (Loops \cup Responses \cup Viewers) = {}
    /\ Loops \cap (Responses \cup Viewers) = {}
    /\ Responses \cap Viewers = {}
    /\ Watcher \notin Countersigns \cup Fundings \cup Notices \cup Loops
                        \cup Responses \cup Viewers

VARIABLES
    \* the Runtime
    rtState, rtRevision,
    sellerBps,      \* the arbiter's split, 10000 until decided
    signed,         \* the parties whose funding artifact has landed
    evidence,       \* evidence[id] is the artifact registered under that id
    delivered,      \* the artifact a `delivered' command committed, 0 if none
    deadlinePassed, \* the delivery deadline
    relay,          \* the fulfill_started notification
    \* the wire
    writes,
    faults,
    \* the seller
    deal,           \* the record in the store
    quoted,         \* its negotiation and quote are still held
    inserted,       \* how often the record was created
    dealTerms,      \* dealTerms.has(dealId)
    delivering,     \* delivering.has(dealId)
    minted,         \* number of artifacts generated; an artifact is a manifest and its token
    bound,          \* the runtime binding is active
    task            \* what each asynchronous task is doing

rtVars == <<rtState, rtRevision, sellerBps, signed, evidence, delivered,
            deadlinePassed, relay>>
storeVars == <<deal, quoted, inserted>>
vars == <<rtVars, writes, faults, storeVars, dealTerms, delivering, minted, bound, task>>

-----------------------------------------------------------------------------
Status == [state : AgreementStates \cup {"UNSEEN"}, revision : Nat, sellerBps : {0, 10000}]
Unseen == [state |-> "UNSEEN", revision |-> 0, sellerBps |-> 10000]

(* statusOf(): what a status read answers at this moment. *)
CurrentStatus == [state |-> rtState, revision |-> rtRevision, sellerBps |-> sellerBps]

WriteKinds == {"acceptance", "funding-signatures", "evidence", "delivered",
               "appealed", "refund_consented"}
Write == [kind : WriteKinds, by : Tasks, artifact : Nat, evidence : Nat, revision : Nat]
NoWrite == [kind |-> "none", by |-> Watcher, artifact |-> 0, evidence |-> 0, revision |-> 0]

Answer == [kind : {"none", "ok", "refused", "retriable"}, status : Status, evidence : Nat]
NoAnswer == [kind |-> "none", status |-> Unseen, evidence |-> 0]

PCs == {"idle", "card", "context", "submit", "done", "read", "start", "status", "domain",
        "generate", "evidence", "command", "probe", "probed", "off", "poll"}

TaskRecord == [pc : PCs, seen : Status, order : Nat,
               request : Write \cup {NoWrite}, answer : Answer]

IdleTask == [pc |-> "idle", seen |-> Unseen, order |-> 0,
             request |-> NoWrite, answer |-> NoAnswer]

DealRecord == [state : {"NONE", "PROPOSED_LOCAL", "ACCEPTED_LOCAL", "DELIVERED_LOCAL"},
               runtimeState : AgreementStates \cup {"UNSEEN"}, runtimeRevision : Nat,
               artifact : Nat, revoked : BOOLEAN, order : Nat]
NoDeal == [state |-> "NONE", runtimeState |-> "UNSEEN", runtimeRevision |-> 0,
           artifact |-> 0, revoked |-> FALSE, order |-> 0]

Registered == deal.state # "NONE"

Init ==
    /\ rtState = "PROPOSED" /\ rtRevision = 1 /\ sellerBps = 10000
    /\ signed = {} /\ evidence = << >> /\ delivered = 0
    /\ deadlinePassed = FALSE /\ relay = "none"
    /\ writes = {} /\ faults = 0
    /\ deal = NoDeal /\ quoted = TRUE /\ inserted = 0
    /\ dealTerms = FALSE /\ delivering = FALSE /\ minted = 0 /\ bound = TRUE
    /\ task = [t \in Tasks |-> IF t = Watcher THEN [IdleTask EXCEPT !.pc = "off"]
                               ELSE IdleTask]

-----------------------------------------------------------------------------
(* Tasks: moving on, reading, writing, failing. *)
Goto(t, pc) == task' = [task EXCEPT ![t] = [IdleTask EXCEPT !.pc = pc]]

Read(t, pc) == task' = [task EXCEPT ![t] = [@ EXCEPT !.pc = pc, !.seen = CurrentStatus]]

Submission(t, kind, artifact, ev) ==
    [kind |-> kind, by |-> t, artifact |-> artifact, evidence |-> ev,
     revision |-> task[t].seen.revision]

Submit(t, pc, w) ==
    /\ writes' = writes \cup {w}
    /\ task' = [task EXCEPT ![t] = [@ EXCEPT !.pc = pc, !.request = w, !.answer = NoAnswer]]

Fault == faults < MaxFaults /\ faults' = faults + 1

(* call() throws while t awaits an answer.  The write may have been handled *)
(* already; if not, it is lost, or with LateWrites it may be handled later. *)
TransportFails(t, pc) ==
    /\ Fault
    /\ writes' = IF LateWrites THEN writes ELSE writes \ {task[t].request}
    /\ Goto(t, pc)

(* observeRuntimeStatus(): last writer wins. *)
Observed(d, status) == [d EXCEPT !.runtimeState = status.state,
                                 !.runtimeRevision = status.revision]

Refunded(status) ==
    \/ status.state = "CANCELLED"
    \/ status.state = "RESOLVED" /\ status.sellerBps = 0

-----------------------------------------------------------------------------
(* The store as other traffic sees it. *)
IsReclaimableDeal(d) ==
    /\ d.runtimeState \in {"UNSEEN", "PROPOSED", "EXPIRED", "CANCELLED"}
    /\ d.state \in {"PROPOSED_LOCAL", "ACCEPTED_LOCAL"}

(* The record after a pruneDeals(): kept, or past its time to live or the cap. *)
Pruned == {deal} \cup (IF Reclaiming /\ IsReclaimableDeal(deal) THEN {NoDeal} ELSE {})

(* Another buyer's proposal prunes this record. *)
Reclaim ==
    /\ deal' \in Pruned \ {deal}
    /\ UNCHANGED <<rtVars, writes, faults, quoted, inserted, dealTerms, delivering,
                   minted, bound, task>>

(* Another buyer's query evicts this quote: only while no deal pins it. *)
EvictQuote ==
    /\ Reclaiming /\ quoted /\ ~Registered
    /\ quoted' = FALSE
    /\ UNCHANGED <<rtVars, writes, faults, deal, inserted, dealTerms, delivering,
                   minted, bound, task>>

-----------------------------------------------------------------------------
(* countersign() *)
CountersignRead(c) ==
    /\ task[c].pc = "idle"
    /\ bound
    /\ rtState \in {"PROPOSED", "COMMITTED"}
    /\ Read(c, "card")
    /\ UNCHANGED <<rtVars, writes, faults, storeVars, dealTerms, delivering, minted, bound>>

(* The Runtime's card could not be fetched or did not verify. *)
CountersignCardFails(c) ==
    /\ task[c].pc = "card"
    /\ Fault
    /\ Goto(c, "done")
    /\ UNCHANGED <<rtVars, writes, storeVars, dealTerms, delivering, minted, bound>>

(* registerLiveDeal() prunes, then finds that the quote is gone. *)
CountersignUnquoted(c) ==
    /\ task[c].pc = "card"
    /\ ~quoted
    /\ deal' \in Pruned
    /\ Goto(c, "done")
    /\ UNCHANGED <<rtVars, writes, faults, quoted, inserted, dealTerms, delivering,
                   minted, bound>>

(* registerLiveDeal() registers or finds the record; the status read before *)
(* is observed; accept() refuses the contract or countersigns it.           *)
RegisterAndAccept(c, valid) ==
    \E d \in Pruned :
        LET new == d = NoDeal
            record == IF new THEN [NoDeal EXCEPT !.state = "PROPOSED_LOCAL",
                                                 !.order = inserted + 1]
                      ELSE d
            observed == Observed(record, task[c].seen)
        IN  /\ inserted' = IF new THEN inserted + 1 ELSE inserted
            /\ deal' = IF valid THEN [observed EXCEPT !.state = "ACCEPTED_LOCAL"]
                       ELSE observed

(* Mutant: the terms are left to be remembered by a retry that finds the   *)
(* agreement COMMITTED.                                                    *)
CountersignAcceptForgetful(c, valid) ==
    /\ task[c].pc = "card"
    /\ quoted
    /\ RegisterAndAccept(c, valid)
    /\ dealTerms' = (dealTerms \/ (valid /\ task[c].seen.state = "COMMITTED"))
    /\ IF valid /\ task[c].seen.state = "PROPOSED"
       THEN Submit(c, "submit", Submission(c, "acceptance", 0, 0))
       ELSE Goto(c, "done") /\ UNCHANGED writes
    /\ UNCHANGED <<rtVars, faults, quoted, delivering, minted, bound>>

(* dealTerms is set before the lossy write.  A COMMITTED status is our own *)
(* acceptance to reconcile: nothing is submitted again.                    *)
CountersignAccept(c, valid) ==
    /\ task[c].pc = "card"
    /\ quoted
    /\ RegisterAndAccept(c, valid)
    /\ dealTerms' = (dealTerms \/ valid)
    /\ IF valid /\ task[c].seen.state = "PROPOSED"
       THEN Submit(c, "submit", Submission(c, "acceptance", 0, 0))
       ELSE Goto(c, "done") /\ UNCHANGED writes
    /\ UNCHANGED <<rtVars, faults, quoted, delivering, minted, bound>>

CountersignAnswer(c) ==
    /\ task[c].pc = "submit"
    /\ task[c].answer.kind # "none"
    /\ deal' = IF task[c].answer.kind = "ok" /\ Registered
               THEN Observed(deal, task[c].answer.status) ELSE deal
    /\ Goto(c, "done")
    /\ UNCHANGED <<rtVars, writes, faults, quoted, inserted, dealTerms, delivering,
                   minted, bound>>

CountersignFails(c) ==
    /\ task[c].pc = "submit"
    /\ TransportFails(c, "done")
    /\ UNCHANGED <<rtVars, storeVars, dealTerms, delivering, minted, bound>>

-----------------------------------------------------------------------------
(* coSignFunding(): a request before the buyer's artifact landed is        *)
(* answered `pending' and changes nothing.                                 *)
FundingRead(f) ==
    /\ task[f].pc = "idle"
    /\ bound /\ dealTerms /\ Registered
    /\ "buyer" \in signed
    /\ Read(f, "context")
    /\ UNCHANGED <<rtVars, writes, faults, storeVars, dealTerms, delivering, minted, bound>>

(* Checks and co-signs the Activation, or throws on a pruned record. *)
FundingSign(f) ==
    /\ task[f].pc = "context"
    /\ IF Registered
       THEN Submit(f, "submit", Submission(f, "funding-signatures", 0, 0))
       ELSE Goto(f, "done") /\ UNCHANGED writes
    /\ UNCHANGED <<rtVars, faults, storeVars, dealTerms, delivering, minted, bound>>

FundingAnswer(f) ==
    /\ task[f].pc = "submit"
    /\ task[f].answer.kind = "ok"
    /\ deal' = IF Registered THEN Observed(deal, task[f].answer.status) ELSE deal
    /\ Goto(f, "done")
    /\ UNCHANGED <<rtVars, writes, faults, quoted, inserted, dealTerms, delivering,
                   minted, bound>>

FundingFails(f) ==
    /\ task[f].pc \in {"context", "submit"}
    /\ TransportFails(f, "done")
    /\ UNCHANGED <<rtVars, storeVars, dealTerms, delivering, minted, bound>>

-----------------------------------------------------------------------------
(* handleNotification(): the relay repeats the notification until it gets  *)
(* a well-formed reply; a throw is none.                                   *)
NoticeRead(n) ==
    /\ task[n].pc = "idle"
    /\ relay = "pending"
    /\ dealTerms
    /\ Read(n, "read")
    /\ UNCHANGED <<rtVars, writes, faults, storeVars, dealTerms, delivering, minted, bound>>

NoticeRefused(n) ==
    /\ task[n].pc = "read"
    /\ task[n].seen.state # "FULFILLING" \/ ~Registered
    /\ Goto(n, "idle")
    /\ UNCHANGED <<rtVars, writes, faults, storeVars, dealTerms, delivering, minted, bound>>

(* The notification gate answers with a result; the relay hears it, or the  *)
(* answer is lost and the relay repeats.                                   *)
Acknowledge ==
    \/ relay' = "acked" /\ UNCHANGED faults
    \/ Fault /\ UNCHANGED relay

(* Mutant: every notification starts the work, running or not. *)
NoticeAcceptedAgain(n) ==
    /\ task[n].pc = "read"
    /\ task[n].seen.state = "FULFILLING"
    /\ Registered
    /\ deal' = Observed(deal, task[n].seen)
    /\ delivering' = TRUE
    /\ \E l \in Loops :
          /\ task[l].pc = "idle"
          /\ task' = [task EXCEPT ![n] = IdleTask, ![l].pc = "start"]
    /\ Acknowledge
    /\ UNCHANGED <<rtState, rtRevision, sellerBps, signed, evidence, delivered,
                   deadlinePassed, writes, quoted, inserted, dealTerms, minted, bound>>

(* Acknowledged, and the work begins unless it already runs. *)
NoticeAccepted(n) ==
    /\ task[n].pc = "read"
    /\ task[n].seen.state = "FULFILLING"
    /\ Registered
    /\ deal' = Observed(deal, task[n].seen)
    /\ delivering' = TRUE
    /\ \/ delivering /\ Goto(n, "idle")
       \/ /\ ~delivering
          /\ \E l \in Loops :
                /\ task[l].pc = "idle"
                /\ task' = [task EXCEPT ![n] = IdleTask, ![l].pc = "start"]
    /\ Acknowledge
    /\ UNCHANGED <<rtState, rtRevision, sellerBps, signed, evidence, delivered,
                   deadlinePassed, writes, quoted, inserted, dealTerms, minted, bound>>

-----------------------------------------------------------------------------
(* runDelivery() inside backgroundDelivery(): "probe" is the catch block.  *)
DeliveryRead(l) ==
    /\ task[l].pc = "start"
    /\ IF bound /\ dealTerms THEN Read(l, "status") ELSE Goto(l, "probe")
    /\ UNCHANGED <<rtVars, writes, faults, storeVars, dealTerms, delivering, minted, bound>>

(* prepareDelivery() up to its await: it holds on to the record, or throws. *)
BeginPreparation(l) ==
    IF Registered /\ deal.state # "PROPOSED_LOCAL" /\ quoted
    THEN task' = [task EXCEPT ![l] = [@ EXCEPT !.pc = "generate", !.order = deal.order]]
    ELSE Goto(l, "probe")

(* Mutant: the work-start is believed, the state read is not looked at. *)
DeliveryObserveTrusting(l) ==
    /\ task[l].pc = "status"
    /\ deal' = IF Registered THEN Observed(deal, task[l].seen) ELSE deal
    /\ BeginPreparation(l)
    /\ UNCHANGED <<rtVars, writes, faults, quoted, inserted, dealTerms, delivering,
                   minted, bound>>

(* Observe and insist on FULFILLING.  A status without the vault's domain  *)
(* makes the task await the funding context before it prepares.            *)
DeliveryObserve(l) ==
    /\ task[l].pc = "status"
    /\ deal' = IF Registered THEN Observed(deal, task[l].seen) ELSE deal
    /\ IF Registered /\ task[l].seen.state = "FULFILLING"
       THEN \/ BeginPreparation(l)
            \/ task' = [task EXCEPT ![l] = [@ EXCEPT !.pc = "domain"]]
       ELSE Goto(l, "probe")
    /\ UNCHANGED <<rtVars, writes, faults, quoted, inserted, dealTerms, delivering,
                   minted, bound>>

DeliveryDomain(l) ==
    /\ task[l].pc = "domain"
    /\ BeginPreparation(l)
    /\ UNCHANGED <<rtVars, writes, faults, storeVars, dealTerms, delivering, minted, bound>>

(* Mutant: the watch is left to the answer of the command. *)
DeliveryPreparedUnwatched(l) ==
    /\ task[l].pc = "generate"
    /\ minted' = minted + 1
    /\ deal' = IF Registered /\ deal.order = task[l].order
               THEN [deal EXCEPT !.artifact = minted + 1, !.state = "DELIVERED_LOCAL"]
               ELSE deal
    /\ IF Registered THEN Submit(l, "evidence", Submission(l, "evidence", minted + 1, 0))
       ELSE Goto(l, "probe") /\ UNCHANGED writes
    /\ UNCHANGED <<rtVars, faults, quoted, inserted, dealTerms, delivering, bound>>

(* watchOutcome(): one watcher per deal, which reads at once. *)
WatchOutcome(tasks) ==
    IF tasks[Watcher].pc = "off" THEN [tasks EXCEPT ![Watcher].pc = "poll"] ELSE tasks

(* The artifact is generated: its token and hash replace the record's, the *)
(* watch of the outcome starts, and the evidence is submitted.  The record *)
(* held may have been pruned meanwhile: with no record under the id the    *)
(* call throws, with another one the artifact stays off the store.         *)
DeliveryPrepared(l) ==
    /\ task[l].pc = "generate"
    /\ minted' = minted + 1
    /\ deal' = IF Registered /\ deal.order = task[l].order
               THEN [deal EXCEPT !.artifact = minted + 1, !.state = "DELIVERED_LOCAL"]
               ELSE deal
    /\ IF Registered
       THEN LET w == Submission(l, "evidence", minted + 1, 0)
            IN  /\ writes' = writes \cup {w}
                /\ task' = WatchOutcome([task EXCEPT
                               ![l] = [@ EXCEPT !.pc = "evidence", !.request = w]])
       ELSE Goto(l, "probe") /\ UNCHANGED writes
    /\ UNCHANGED <<rtVars, faults, quoted, inserted, dealTerms, delivering, bound>>

(* The evidence id arrived: commandFor() cites it with the delivery hash   *)
(* the record holds NOW, over the anchors of the status read.              *)
DeliveryEvidence(l) ==
    /\ task[l].pc = "evidence"
    /\ task[l].answer.kind = "ok"
    /\ IF Registered /\ deal.artifact # 0
       THEN Submit(l, "command",
                   Submission(l, "delivered", deal.artifact, task[l].answer.evidence))
       ELSE Goto(l, "probe") /\ UNCHANGED writes
    /\ UNCHANGED <<rtVars, faults, storeVars, dealTerms, delivering, minted, bound>>

(* The command was answered: done, refused for good, or worth a retry. *)
DeliveryAnswer(l) ==
    /\ task[l].pc = "command"
    /\ LET a == task[l].answer
       IN  /\ a.kind # "none"
           /\ deal' = IF a.kind = "ok" /\ Registered THEN Observed(deal, a.status) ELSE deal
           /\ IF a.kind = "refused" \/ (a.kind = "ok" /\ Registered)
              THEN Goto(l, "idle") /\ delivering' = FALSE
              ELSE Goto(l, "probe") /\ UNCHANGED delivering
    /\ UNCHANGED <<rtVars, writes, faults, quoted, inserted, dealTerms, minted, bound>>

DeliveryFails(l) ==
    /\ task[l].pc \in {"start", "domain", "generate", "evidence", "command"}
    /\ TransportFails(l, "probe")
    /\ UNCHANGED <<rtVars, storeVars, dealTerms, delivering, minted, bound>>

ProbeRead(l) ==
    /\ task[l].pc = "probe"
    /\ Read(l, "probed")
    /\ UNCHANGED <<rtVars, writes, faults, storeVars, dealTerms, delivering, minted, bound>>

(* Mutant: one attempt, no retry. *)
ProbeApplyGivingUp(l) ==
    /\ task[l].pc = "probed"
    /\ deal' = IF Registered THEN Observed(deal, task[l].seen) ELSE deal
    /\ Goto(l, "idle") /\ delivering' = FALSE
    /\ UNCHANGED <<rtVars, writes, faults, quoted, inserted, dealTerms, minted, bound>>

(* The loop ends when the Runtime has left FULFILLING or the deadline is   *)
(* over; a probe that throws (no record, no answer) decides nothing.       *)
ProbeApply(l) ==
    /\ task[l].pc = "probed"
    /\ deal' = IF Registered THEN Observed(deal, task[l].seen) ELSE deal
    /\ IF (Registered /\ task[l].seen.state # "FULFILLING") \/ deadlinePassed
       THEN Goto(l, "idle") /\ delivering' = FALSE
       ELSE Goto(l, "start") /\ UNCHANGED delivering
    /\ UNCHANGED <<rtVars, writes, faults, quoted, inserted, dealTerms, minted, bound>>

(* Mutant: a probe that gets no answer ends the loop. *)
ProbeFailsForGood(l) ==
    /\ task[l].pc = "probe"
    /\ Fault
    /\ Goto(l, "idle") /\ delivering' = FALSE
    /\ UNCHANGED <<rtVars, writes, storeVars, dealTerms, minted, bound>>

(* The probe failing is itself retriable. *)
ProbeFails(l) ==
    /\ task[l].pc = "probe"
    /\ Fault
    /\ IF deadlinePassed THEN Goto(l, "idle") /\ delivering' = FALSE
       ELSE Goto(l, "start") /\ UNCHANGED delivering
    /\ UNCHANGED <<rtVars, writes, storeVars, dealTerms, minted, bound>>

-----------------------------------------------------------------------------
(* refreshOutcome(), for the watcher's ticks and for the admin pages. *)
RefreshRead(v) ==
    /\ IF v = Watcher THEN task[v].pc = "poll" ELSE task[v].pc = "idle" /\ Registered
    /\ Read(v, "read")
    /\ UNCHANGED <<rtVars, writes, faults, storeVars, dealTerms, delivering, minted, bound>>

(* Mutant: only an arbiter's decision revokes. *)
RefreshApplyResolvedOnly(v) ==
    /\ task[v].pc = "read"
    /\ LET seen == task[v].seen
           observed == Observed(deal, seen)
           against == seen.state = "RESOLVED" /\ seen.sellerBps = 0
       IN  /\ deal' = IF ~Registered THEN deal
                      ELSE IF against THEN [observed EXCEPT !.revoked = TRUE]
                      ELSE observed
           /\ Goto(v, IF v # Watcher THEN "idle"
                      ELSE IF Registered /\ seen.state \in TerminalStates THEN "off"
                      ELSE "poll")
    /\ UNCHANGED <<rtVars, writes, faults, quoted, inserted, dealTerms, delivering,
                   minted, bound>>

(* The answer of the read: a refund outcome revokes, and the watcher stops *)
(* at a terminal state.                                                    *)
RefreshApply(v) ==
    /\ task[v].pc = "read"
    /\ LET seen == task[v].seen
           observed == Observed(deal, seen)
       IN  /\ deal' = IF ~Registered THEN deal
                      ELSE IF Refunded(seen) THEN [observed EXCEPT !.revoked = TRUE]
                      ELSE observed
           /\ Goto(v, IF v # Watcher THEN "idle"
                      ELSE IF Registered /\ seen.state \in TerminalStates THEN "off"
                      ELSE "poll")
    /\ UNCHANGED <<rtVars, writes, faults, quoted, inserted, dealTerms, delivering,
                   minted, bound>>

-----------------------------------------------------------------------------
(* rejectionResponse(), for consentRefund() and appeal(). *)
ResponseRead(r) ==
    /\ task[r].pc = "idle"
    /\ bound /\ dealTerms
    /\ Read(r, "read")
    /\ UNCHANGED <<rtVars, writes, faults, storeVars, dealTerms, delivering, minted, bound>>

ResponseSubmit(r, kind) ==
    /\ task[r].pc = "read"
    /\ deal' = IF Registered THEN Observed(deal, task[r].seen) ELSE deal
    /\ IF Registered /\ task[r].seen.state = "REJECTED"
       THEN Submit(r, "submit", Submission(r, kind, 0, 0))
       ELSE Goto(r, "done") /\ UNCHANGED writes
    /\ UNCHANGED <<rtVars, faults, quoted, inserted, dealTerms, delivering, minted, bound>>

ResponseAnswer(r) ==
    /\ task[r].pc = "submit"
    /\ task[r].answer.kind # "none"
    /\ deal' = IF task[r].answer.kind = "ok" /\ Registered
               THEN Observed(deal, task[r].answer.status) ELSE deal
    /\ Goto(r, "done")
    /\ UNCHANGED <<rtVars, writes, faults, quoted, inserted, dealTerms, delivering,
                   minted, bound>>

ResponseFails(r) ==
    /\ task[r].pc = "submit"
    /\ TransportFails(r, "done")
    /\ UNCHANGED <<rtVars, storeVars, dealTerms, delivering, minted, bound>>

-----------------------------------------------------------------------------
(* The runtime binding, as far as assertBindingActive() shows it. *)
BindingLapses ==
    /\ bound /\ Fault
    /\ bound' = FALSE
    /\ UNCHANGED <<rtVars, writes, storeVars, dealTerms, delivering, minted, task>>

BindingRestored ==
    /\ ~bound
    /\ bound' = TRUE
    /\ UNCHANGED <<rtVars, writes, faults, storeVars, dealTerms, delivering, minted, task>>

-----------------------------------------------------------------------------
(* The Runtime.  A handled write leaves the wire; its caller hears the     *)
(* answer only if it still awaits that very request.                       *)
Handled(w, kind, st, ev) ==
    /\ writes' = writes \ {w}
    /\ task' = IF task[w.by].request = w
               THEN [task EXCEPT ![w.by].answer =
                        [kind |-> kind, status |-> st, evidence |-> ev]]
               ELSE task

(* transition(): one legal edge, one revision, and the status answered. *)
Transition(s) ==
    /\ <<rtState, s>> \in Edges
    /\ rtState' = s
    /\ rtRevision' = rtRevision + 1

StatusAfter(s) == [CurrentStatus EXCEPT !.state = s, !.revision = @ + 1]

SellerUnchanged ==
    UNCHANGED <<faults, storeVars, dealTerms, delivering, minted, bound>>

(* An acceptance is recorded in PROPOSED only.  The test double does not   *)
(* look; countersign() relies on it, which takes a COMMITTED agreement for *)
(* one whose acceptance is recorded and submits nothing.                   *)
HandleAcceptance(w) ==
    /\ w.kind = "acceptance"
    /\ IF rtState = "PROPOSED"
       THEN /\ rtState' = "COMMITTED" /\ rtRevision' = rtRevision + 1
            /\ Handled(w, "ok", StatusAfter("COMMITTED"), 0)
       ELSE UNCHANGED <<rtState, rtRevision>> /\ Handled(w, "refused", Unseen, 0)
    /\ UNCHANGED <<sellerBps, signed, evidence, delivered, deadlinePassed, relay>>
    /\ SellerUnchanged

(* Mutant: the slot is the submitting call, not the party. *)
HandleFundingSignaturesByCall(w) ==
    /\ w.kind = "funding-signatures"
    /\ signed' = signed \cup {w.by}
    /\ Handled(w, "ok", CurrentStatus, 0)
    /\ UNCHANGED <<rtState, rtRevision, sellerBps, evidence, delivered, deadlinePassed, relay>>
    /\ SellerUnchanged

HandleFundingSignatures(w) ==
    /\ w.kind = "funding-signatures"
    /\ signed' = signed \cup {"seller"}
    /\ Handled(w, "ok", CurrentStatus, 0)
    /\ UNCHANGED <<rtState, rtRevision, sellerBps, evidence, delivered, deadlinePassed, relay>>
    /\ SellerUnchanged

HandleEvidence(w) ==
    /\ w.kind = "evidence"
    /\ evidence' = Append(evidence, w.artifact)
    /\ Handled(w, "ok", CurrentStatus, Len(evidence) + 1)
    /\ UNCHANGED <<rtState, rtRevision, sellerBps, signed, delivered, deadlinePassed, relay>>
    /\ SellerUnchanged

HandleDelivered(w) ==
    /\ w.kind = "delivered"
    /\ IF w.revision # rtRevision
       THEN /\ Handled(w, "retriable", Unseen, 0)            \* revision_conflict
            /\ UNCHANGED <<rtState, rtRevision, delivered>>
       ELSE IF \/ rtState # "FULFILLING"                     \* illegal_transition
               \/ w.evidence \notin 1..Len(evidence)         \* evidence_not_validated
               \/ evidence[w.evidence] # w.artifact
       THEN /\ Handled(w, "refused", Unseen, 0)
            /\ UNCHANGED <<rtState, rtRevision, delivered>>
       ELSE /\ Transition("DELIVERED")
            /\ delivered' = w.artifact
            /\ Handled(w, "ok", StatusAfter("DELIVERED"), 0)
    /\ UNCHANGED <<sellerBps, signed, evidence, deadlinePassed, relay>>
    /\ SellerUnchanged

HandleResponse(w) ==
    /\ w.kind \in {"appealed", "refund_consented"}
    /\ IF w.revision # rtRevision
       THEN Handled(w, "retriable", Unseen, 0) /\ UNCHANGED <<rtState, rtRevision>>
       ELSE IF rtState # "REJECTED"
       THEN Handled(w, "refused", Unseen, 0) /\ UNCHANGED <<rtState, rtRevision>>
       ELSE LET s == IF w.kind = "appealed" THEN "DISPUTED" ELSE "CANCELLED"
            IN  Transition(s) /\ Handled(w, "ok", StatusAfter(s), 0)
    /\ UNCHANGED <<sellerBps, signed, evidence, delivered, deadlinePassed, relay>>
    /\ SellerUnchanged

RuntimeHandles(w) ==
    \/ HandleAcceptance(w) \/ HandleFundingSignatures(w) \/ HandleEvidence(w)
    \/ HandleDelivered(w) \/ HandleResponse(w)

-----------------------------------------------------------------------------
(* The rest of the world: the buyer, the chain, the arbiter, the clock. *)
Outside == UNCHANGED <<writes, task>> /\ SellerUnchanged

BuyerFunds ==
    /\ rtState = "COMMITTED" /\ "buyer" \notin signed
    /\ signed' = signed \cup {"buyer"}
    /\ UNCHANGED <<rtState, rtRevision, sellerBps, evidence, delivered, deadlinePassed, relay>>
    /\ Outside

ConfirmFund ==
    /\ signed = {"buyer", "seller"}
    /\ Transition("FULFILLING")
    /\ relay' = "pending"
    /\ UNCHANGED <<sellerBps, signed, evidence, delivered, deadlinePassed>>
    /\ Outside

DeadlinePasses ==
    /\ rtState = "FULFILLING" /\ ~deadlinePassed
    /\ deadlinePassed' = TRUE
    /\ UNCHANGED <<rtState, rtRevision, sellerBps, signed, evidence, delivered, relay>>
    /\ Outside

DeliveryMissed ==
    /\ deadlinePassed
    /\ Transition("DEFAULTED")
    /\ UNCHANGED <<sellerBps, signed, evidence, delivered, deadlinePassed, relay>>
    /\ Outside

(* FUNDING_EXPIRED, buyerAccept or the auto-confirm, buyerReject,          *)
(* APPEAL_RESPONSE_EXPIRED, ARBITRATION_EXPIRED.                           *)
OtherPartyMoves ==
    /\ \/ \E s \in {"EXPIRED", "ACCEPTED", "REJECTED"} : Transition(s)
       \/ rtState \in {"REJECTED", "DISPUTED"} /\ Transition("CANCELLED")
    /\ UNCHANGED <<sellerBps, signed, evidence, delivered, deadlinePassed, relay>>
    /\ Outside

ArbiterDecides(bps) ==
    /\ Transition("RESOLVED")
    /\ sellerBps' = bps
    /\ UNCHANGED <<signed, evidence, delivered, deadlinePassed, relay>>
    /\ Outside

-----------------------------------------------------------------------------
LoopStep(l) ==
    \/ DeliveryRead(l) \/ DeliveryObserve(l) \/ DeliveryDomain(l) \/ DeliveryPrepared(l)
    \/ DeliveryEvidence(l) \/ DeliveryAnswer(l) \/ ProbeRead(l) \/ ProbeApply(l)

Next ==
    \/ \E c \in Countersigns :
          \/ CountersignRead(c) \/ CountersignCardFails(c) \/ CountersignUnquoted(c)
          \/ \E valid \in BOOLEAN : CountersignAccept(c, valid)
          \/ CountersignAnswer(c) \/ CountersignFails(c)
    \/ \E f \in Fundings :
          FundingRead(f) \/ FundingSign(f) \/ FundingAnswer(f) \/ FundingFails(f)
    \/ \E n \in Notices : NoticeRead(n) \/ NoticeRefused(n) \/ NoticeAccepted(n)
    \/ \E l \in Loops : LoopStep(l) \/ DeliveryFails(l) \/ ProbeFails(l)
    \/ \E v \in Viewers \cup {Watcher} : RefreshRead(v) \/ RefreshApply(v)
    \/ \E r \in Responses :
          \/ ResponseRead(r) \/ ResponseAnswer(r) \/ ResponseFails(r)
          \/ \E kind \in {"appealed", "refund_consented"} : ResponseSubmit(r, kind)
    \/ \E w \in writes : RuntimeHandles(w)
    \/ Reclaim \/ EvictQuote \/ BindingLapses \/ BindingRestored
    \/ BuyerFunds \/ ConfirmFund \/ DeadlinePasses \/ DeliveryMissed \/ OtherPartyMoves
    \/ \E bps \in {0, 10000} : ArbiterDecides(bps)

Spec == Init /\ [][Next]_vars

(* Timers fire and promises settle: every task of the seller that can take *)
(* its next step takes it.  The Runtime answers what reaches it, the relay *)
(* repeats an unacknowledged notification, and the owner renews a lapsed   *)
(* binding.  Nothing is assumed of the buyer, of the arbiter or of the     *)
(* deadlines; failures are finitely many (MaxFaults).                      *)
Fairness ==
    /\ \A l \in Loops : WF_vars(LoopStep(l))
    /\ \A n \in Notices : WF_vars(NoticeRead(n) \/ NoticeRefused(n) \/ NoticeAccepted(n))
    /\ WF_vars(RefreshRead(Watcher) \/ RefreshApply(Watcher))
    /\ WF_vars(\E w \in writes : RuntimeHandles(w))
    /\ WF_vars(BindingRestored)

FairSpec == Spec /\ Fairness

-----------------------------------------------------------------------------
(* Type invariant of the Runtime, the wire, the record and the tasks. *)
TypeOK ==
    /\ rtState \in AgreementStates /\ rtRevision \in Nat
    /\ sellerBps \in {0, 10000} /\ signed \subseteq {"buyer", "seller"}
    /\ evidence \in Seq(Nat) /\ delivered \in Nat
    /\ deadlinePassed \in BOOLEAN /\ relay \in {"none", "pending", "acked"}
    /\ writes \subseteq Write /\ faults \in 0..MaxFaults
    /\ deal \in DealRecord /\ quoted \in BOOLEAN /\ inserted \in Nat
    /\ dealTerms \in BOOLEAN /\ delivering \in BOOLEAN
    /\ minted \in Nat /\ bound \in BOOLEAN
    /\ task \in [Tasks -> TaskRecord]

(* An acceptance whose answer is lost still commits on the Runtime.  The   *)
(* seller has remembered the terms before that write, so funding requests  *)
(* and the one-shot work-start for a committed agreement are never         *)
(* answered "unknown dealId".                                              *)
CommittedIsRemembered == rtState # "PROPOSED" => dealTerms

(* A delivered command cites, under its evidence id, the very artifact it  *)
(* commits to, although commandFor() takes the hash the record holds when  *)
(* the evidence id arrives: no other delivery task may have replaced it.   *)
(* A command that does not is refused for good and ends the delivery.      *)
DeliveredCitesItsEvidence ==
    \A w \in writes :
        w.kind = "delivered" =>
            /\ w.evidence \in 1..Len(evidence)
            /\ evidence[w.evidence] = w.artifact

(* The work-start is acknowledged once and then never sent again.  As long *)
(* as the agreement waits for it and its deadline is not over, a delivery  *)
(* task is at work: no refusal, stale read, lost answer, failed probe or   *)
(* pruned record makes the last one end, and the guard that turns a second *)
(* work-start away is never held by a task that is gone.                   *)
AckedWorkIsUnderway ==
    relay = "acked" /\ rtState = "FULFILLING" /\ ~deadlinePassed =>
        \E l \in Loops : task[l].pc # "idle"

(* artifactFor(): the record hands out its artifact to the token's holder. *)
Serving == Registered /\ deal.artifact # 0 /\ ~deal.revoked

(* Whenever a capability is live, somebody watches for a refund that must  *)
(* revoke it: the watcher runs, or the agreement ended without a refund    *)
(* outcome.  Lost answers of the delivered command included.               *)
CapabilityIsWatched ==
    Serving => \/ task[Watcher].pc # "off"
               \/ rtState \in TerminalStates /\ ~Refunded(CurrentStatus)

(* The evidence record the Runtime committed resolves: until a refund      *)
(* revokes it, the seller serves the artifact of the delivered command.    *)
EvidenceResolves ==
    rtState \in {"DELIVERED", "REJECTED", "DISPUTED", "ACCEPTED"} =>
        Registered /\ deal.artifact = delivered

(* A deal that is funded or fulfilling on the Runtime is never reclaimed.  *)
FundedDealIsKept ==
    [][Registered /\ deal'.state = "NONE" =>
        rtState \notin {"FULFILLING", "DELIVERED", "REJECTED", "DISPUTED", "ACCEPTED"}]_vars

(* A refund outcome ends the buyer's access to the artifact, whatever      *)
(* answers were lost on the way and whether or not anybody looks.          *)
RefundEndsAccess == Refunded(CurrentStatus) ~> ~Serving

(* The work-start is notified until acknowledged and never again: from     *)
(* there on the seller's own retries deliver, unless the deadline passes.  *)
WorkStartIsDelivered ==
    (rtState = "FULFILLING") ~> (rtState # "FULFILLING" \/ deadlinePassed)
=============================================================================
