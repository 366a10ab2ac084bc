--------------------------- MODULE SellerExecutor ---------------------------
(***************************************************************************)
(* The Python seller (class SellerExecutor), in both of its modes.         *)
(*                                                                         *)
(* Standalone, a deal is formed and delivered between the two agents; its  *)
(* id is computed from its terms.  Live, one agreement is driven through   *)
(* the Coordination Runtime: its handlers are asynchronous, and an action  *)
(* is the code from one answer of the Runtime to the next.  A read and the *)
(* write built from its answer are one action; the write is handled, and   *)
(* answered, in steps of its own.  At any await the transport may fail.    *)
(*                                                                         *)
(* A contract is its terms and the address that signed it.  What is        *)
(* delivered is the same text always, so one evidence id is as good as     *)
(* another and only whether one was issued is kept.  Of the admin          *)
(* inventory only the contract of each record is kept: states and          *)
(* histories are written for the pages and never read back.                *)
(***************************************************************************)
EXTENDS Integers, AgreementTable

CONSTANTS
    Terms,          \* hashes of terms a buyer may propose
    Offered,        \* those that validate_terms() finds to be the quoted ones
    Countersigns,   \* live acceptance-requests
    Fundings,       \* live funding-requests
    Requests,       \* live delivery requests of the buyer
    Notices,        \* concurrent deliveries of fulfill_started by the relay
    Loops,          \* _background_delivery tasks
    MaxFaults       \* bound on the failures

Agreed == "agreement"       \* the id that the Runtime assigned
DealIds == Terms \cup {Agreed}
Addresses == {"buyer", "other"}
Tasks == Countersigns \cup Fundings \cup Requests \cup Notices \cup Loops

ASSUME ExecutorConstants ==
    /\ Offered \subseteq Terms
    /\ Agreed \notin Terms
    /\ MaxFaults \in Nat
    /\ Countersigns \cap (Fundings \cup Requests \cup Notices \cup Loops) = {}
    /\ Fundings \cap (Requests \cup Notices \cup Loops) = {}
    /\ Requests \cap (Notices \cup Loops) = {}
    /\ Notices \cap Loops = {}

VARIABLES
    mode,           \* "standalone" or "live"
    \* the executor
    address,        \* addresses[buyerAgentId], "none" before request-terms
    pending,        \* dealId -> the proposal and the address it was verified with
    deals,          \* termsHash -> the accepted contract
    dealTerms,      \* dealId -> termsHash
    records,        \* _agreement_records: dealId -> contract, or NoContract
    delivering,     \* Agreed is in _delivering
    cached,         \* the Runtime's card was verified
    bound,          \* the reported binding is active
    task,
    \* the Runtime, the wire, the relay
    rtTerms, rtState, rtRevision,
    reported,       \* a status carries termsHash
    signed,         \* the parties whose funding artifact has landed
    evidence,       \* an evidence id was issued
    deadlinePassed, relay, writes, faults

negotiated == <<address, pending>>
formed == <<deals, dealTerms, records>>
gates == <<mode, cached, bound, rtTerms, reported>>
rtVars == <<rtState, rtRevision, signed, evidence, deadlinePassed>>
vars == <<negotiated, formed, gates, delivering, task, rtVars, relay, writes, faults>>

Contract == [terms : Terms, by : Addresses]
NoContract == [terms |-> "none", by |-> "none"]
NoWrite == [kind |-> "none"]
IdleTask == [pc |-> "idle", contract |-> NoContract, address |-> "none", revision |-> 0,
             request |-> NoWrite, answer |-> "none"]

Put(f, k, v) == [x \in DOMAIN f \cup {k} |-> IF x = k THEN v ELSE f[x]]
Setdefault(f, k, v) == IF k \in DOMAIN f THEN f ELSE Put(f, k, v)

Init ==
    /\ mode \in {"standalone", "live"}
    /\ address = "none" /\ pending = << >>
    /\ deals = << >> /\ dealTerms = << >> /\ records = << >>
    /\ delivering = FALSE /\ cached = FALSE
    /\ bound = FALSE
    /\ task = [t \in Tasks |-> IdleTask]
    /\ rtTerms \in Terms /\ rtState = "PROPOSED" /\ rtRevision = 1
    /\ reported \in BOOLEAN /\ (mode = "standalone" => reported)
    /\ signed = {} /\ evidence = FALSE /\ deadlinePassed = FALSE
    /\ relay = "none" /\ writes = {} /\ faults = 0

-----------------------------------------------------------------------------
(* _publish_terms(): the address of the buyer is whatever was sent last.   *)
(* An exchange is left out when no later request can read its address.     *)
PublishTerms(x) ==
    /\ mode = "live" => rtState = "PROPOSED" /\ \E c \in Countersigns : task[c].pc = "idle"
    /\ address' = x
    /\ UNCHANGED <<pending, formed, gates, delivering, task, rtVars, relay, writes, faults>>

(* accept_terms(): the terms are the quoted ones and the signature is that *)
(* of the address; agreed is the verdict on the buyer's agreementSig.      *)
AcceptTerms(contract, x, agreed) ==
    contract.terms \in Offered /\ contract.by = x /\ agreed

(* _propose(): live, the proposal belongs to the Runtime. *)
Propose(contract) ==
    /\ mode = "standalone"
    /\ address # "none" /\ contract.by = address
    /\ pending' = Put(pending, contract.terms, [contract |-> contract, address |-> address])
    /\ records' = Put(records, contract.terms, contract)
    /\ UNCHANGED <<address, deals, dealTerms, gates, delivering, task, rtVars, relay,
                   writes, faults>>

(* The accepted contract is kept under its terms. *)
Remember(d, contract) ==
    /\ deals' = Put(deals, contract.terms, contract)
    /\ dealTerms' = Put(dealTerms, d, contract.terms)
    /\ records' = Put(records, d, contract)

(* Mutant: the deal is bound to its terms, the contract is not kept. *)
CountersignUnkept(d, agreed) ==
    /\ d \in DOMAIN pending
    /\ AcceptTerms(pending[d].contract, pending[d].address, agreed)
    /\ dealTerms' = Put(dealTerms, d, pending[d].contract.terms)
    /\ UNCHANGED <<deals, records, negotiated, gates, delivering, task, rtVars, relay, writes,
                   faults>>

(* _countersign(), standalone. *)
Countersign(d, agreed) ==
    /\ d \in DOMAIN pending
    /\ AcceptTerms(pending[d].contract, pending[d].address, agreed)
    /\ Remember(d, pending[d].contract)
    /\ UNCHANGED <<negotiated, gates, delivering, task, rtVars, relay, writes, faults>>

(* _deliver(), standalone: the deal id is the one of the request. *)
Deliver(terms, d) ==
    /\ mode = "standalone"
    /\ terms \in DOMAIN deals
    /\ records' = Setdefault(records, d, NoContract)
    /\ UNCHANGED <<deals, dealTerms, negotiated, gates, delivering, task, rtVars, relay,
                   writes, faults>>

-----------------------------------------------------------------------------
(* Live tasks: moving on, writing, failing. *)
Goto(t, pc) == task' = [task EXCEPT ![t] = [IdleTask EXCEPT !.pc = pc]]

(* Only a delivery task ever writes the same twice.  While its first write *)
(* is late the two are one on the wire: evidence is answered alike each    *)
(* time, and of two equal commands one changes the record; the answer to   *)
(* the other, a conflict, would send the task by way of a probe to the     *)
(* same end.                                                               *)
Write(t, kind, contract, revision) ==
    [kind |-> kind, task |-> t, contract |-> contract, revision |-> revision]

Submit(t, pc, w) ==
    /\ writes' = writes \cup {w}
    /\ task' = [task EXCEPT ![t].pc = pc, ![t].request = w, ![t].answer = "none"]

Fault == faults < MaxFaults /\ faults' = faults + 1

(* _call() raises: an unhandled write is lost, or handled after its caller *)
(* gave up.                                                                *)
CallRaises(t, pc) ==
    /\ Fault
    /\ Goto(t, pc)
    /\ writes' \in {writes, writes \ {task[t].request}}

(* _countersign_live() up to the read of the Runtime's card: the address   *)
(* is looked up first, and the status must be that of a proposal, with the *)
(* terms that were presented if it says with which.                        *)
CountersignRead(c, contract) ==
    /\ mode = "live" /\ bound
    /\ task[c].pc = "idle"
    /\ address # "none"
    /\ rtState = "PROPOSED" /\ (reported => contract.terms = rtTerms)
    /\ task' = [task EXCEPT ![c].pc = "card", ![c].contract = contract, ![c].address = address]
    /\ UNCHANGED <<negotiated, formed, gates, delivering, rtVars, relay, writes, faults>>

CountersignCardFails(c) ==
    /\ task[c].pc = "card"
    /\ ~cached /\ Fault
    /\ Goto(c, "done")
    /\ UNCHANGED <<negotiated, formed, gates, delivering, rtVars, relay, writes>>

(* Mutant: the proposal is recorded before it is verified. *)
CountersignAcceptUnverified(c, agreed) ==
    LET contract == task[c].contract
    IN  /\ task[c].pc = "card"
        /\ cached' = TRUE
        /\ records' = Put(records, Agreed, contract)
        /\ IF AcceptTerms(contract, task[c].address, agreed)
           THEN Submit(c, "submit", Write(c, "acceptance", contract, 0))
           ELSE Goto(c, "done") /\ UNCHANGED writes
        /\ UNCHANGED <<negotiated, deals, dealTerms, mode, bound, rtTerms, reported, delivering,
                       rtVars, relay, faults>>

(* The card is verified; the contract is countersigned and submitted, or   *)
(* refused and not recorded.                                               *)
CountersignAccept(c, agreed) ==
    LET contract == task[c].contract
    IN  /\ task[c].pc = "card"
        /\ cached' = TRUE
        /\ IF AcceptTerms(contract, task[c].address, agreed)
           THEN /\ records' = Put(records, Agreed, contract)
                /\ Submit(c, "submit", Write(c, "acceptance", contract, 0))
           ELSE Goto(c, "done") /\ UNCHANGED <<records, writes>>
        /\ UNCHANGED <<negotiated, deals, dealTerms, mode, bound, rtTerms, reported, delivering,
                       rtVars, relay, faults>>

(* Mutant: the deal is remembered whatever the Runtime answered. *)
CountersignAnswerRegardless(c) ==
    /\ task[c].pc = "submit" /\ task[c].answer # "none"
    /\ Remember(Agreed, task[c].contract)
    /\ Goto(c, "done")
    /\ UNCHANGED <<negotiated, gates, delivering, rtVars, relay, writes, faults>>

(* Only an answered acceptance is remembered. *)
CountersignAnswer(c) ==
    /\ task[c].pc = "submit" /\ task[c].answer # "none"
    /\ IF task[c].answer = "ok" THEN Remember(Agreed, task[c].contract) ELSE UNCHANGED formed
    /\ Goto(c, "done")
    /\ UNCHANGED <<negotiated, gates, delivering, rtVars, relay, writes, faults>>

CountersignFails(c) ==
    /\ task[c].pc = "submit"
    /\ CallRaises(c, "done")
    /\ UNCHANGED <<negotiated, formed, gates, delivering, rtVars, relay>>

(* Mutant: a deal that is not remembered is looked up at the Runtime. *)
FundingSignUnknown(f) ==
    /\ mode = "live" /\ bound
    /\ task[f].pc = "idle"
    /\ "buyer" \in signed
    /\ Submit(f, "submit", Write(f, "funding-signatures", NoContract, 0))
    /\ UNCHANGED <<negotiated, formed, gates, delivering, rtVars, relay, faults>>

(* _funding(): before the buyer's artifact landed nothing is signed. *)
FundingSign(f) ==
    /\ mode = "live" /\ bound
    /\ task[f].pc = "idle"
    /\ Agreed \in DOMAIN dealTerms
    /\ "buyer" \in signed
    /\ Submit(f, "submit", Write(f, "funding-signatures", NoContract, 0))
    /\ UNCHANGED <<negotiated, formed, gates, delivering, rtVars, relay, faults>>

FundingAnswer(f) ==
    /\ task[f].pc = "submit" /\ task[f].answer # "none"
    /\ Goto(f, "done")
    /\ UNCHANGED <<negotiated, formed, gates, delivering, rtVars, relay, writes, faults>>

FundingFails(f) ==
    /\ task[f].pc = "submit"
    /\ CallRaises(f, "done")
    /\ UNCHANGED <<negotiated, formed, gates, delivering, rtVars, relay>>

-----------------------------------------------------------------------------
(* _runtime_notification(): every failure raises, and the relay repeats.   *)
(* "read" is the answer of the status, which may be old when it is used.   *)
NoticeRead(n) ==
    /\ task[n].pc = "idle" /\ relay = "pending"
    /\ Agreed \in DOMAIN dealTerms
    /\ IF rtState = "FULFILLING" THEN Goto(n, "read") ELSE UNCHANGED task
    /\ UNCHANGED <<negotiated, formed, gates, delivering, rtVars, relay, writes, faults>>

(* Mutant: a failed read is answered politely. *)
NoticeFailsPolitely(n) ==
    /\ task[n].pc = "read"
    /\ Fault
    /\ Goto(n, "idle")
    /\ relay' = "acked"
    /\ UNCHANGED <<negotiated, formed, gates, delivering, rtVars, writes>>

NoticeFails(n) ==
    /\ task[n].pc = "read"
    /\ Fault
    /\ Goto(n, "idle")
    /\ UNCHANGED <<negotiated, formed, gates, delivering, rtVars, relay, writes>>

(* Acknowledged, and the work begins unless it already runs.  The answer   *)
(* may be lost on its way to the relay.                                    *)
NoticeAccepted(n) ==
    /\ task[n].pc = "read"
    /\ delivering' = TRUE
    /\ IF delivering THEN Goto(n, "idle")
       ELSE \E l \in Loops :
               /\ task[l].pc = "idle"
               /\ task' = [task EXCEPT ![n] = IdleTask, ![l].pc = "start"]
    /\ \/ relay' = "acked" /\ UNCHANGED faults
       \/ Fault /\ UNCHANGED relay
    /\ UNCHANGED <<negotiated, formed, gates, rtVars, writes>>

-----------------------------------------------------------------------------
(* _run_delivery(), in the background and on request (_deliver_live): how  *)
(* an attempt that raised goes on.                                         *)
Raised(t) == IF t \in Loops THEN "probe" ELSE "done"

(* The status is read, and the evidence submitted if it is FULFILLING. *)
DeliveryStart(t) ==
    /\ task[t].pc = (IF t \in Loops THEN "start" ELSE "idle")
    /\ mode = "live"
    /\ IF bound /\ Agreed \in DOMAIN dealTerms /\ rtState = "FULFILLING"
       THEN LET w == Write(t, "evidence", NoContract, 0)
            IN  /\ writes' = writes \cup {w}
                /\ task' = [task EXCEPT ![t].pc = "evidence", ![t].request = w,
                                        ![t].revision = rtRevision]
       ELSE Goto(t, Raised(t)) /\ UNCHANGED writes
    /\ UNCHANGED <<negotiated, formed, gates, delivering, rtVars, relay, faults>>

(* The command cites the evidence, at the revision of the status read. *)
DeliveryEvidence(t) ==
    /\ task[t].pc = "evidence" /\ task[t].answer = "ok"
    /\ Submit(t, "command", Write(t, "delivered", NoContract, task[t].revision))
    /\ UNCHANGED <<negotiated, formed, gates, delivering, rtVars, relay, faults>>

(* Committed, refused for good, or worth another attempt.  A request only  *)
(* passes the answer on.                                                   *)
DeliveryAnswer(t) ==
    /\ task[t].pc = "command" /\ task[t].answer # "none"
    /\ IF t \notin Loops THEN Goto(t, "done") /\ UNCHANGED delivering
       ELSE IF task[t].answer \in {"ok", "refused"}
       THEN Goto(t, "idle") /\ delivering' = FALSE
       ELSE Goto(t, "probe") /\ UNCHANGED delivering
    /\ UNCHANGED <<negotiated, formed, gates, rtVars, relay, writes, faults>>

DeliveryFails(t) ==
    /\ task[t].pc \in {"start", "evidence", "command"}
    /\ CallRaises(t, Raised(t))
    /\ UNCHANGED <<negotiated, formed, gates, delivering, rtVars, relay>>

(* Mutant: a probe that gets no answer ends the loop. *)
ProbeFailingForGood(l) ==
    /\ task[l].pc = "probe"
    /\ \/ /\ IF rtState # "FULFILLING" \/ deadlinePassed
             THEN Goto(l, "idle") /\ delivering' = FALSE
             ELSE Goto(l, "start") /\ UNCHANGED delivering
          /\ UNCHANGED faults
       \/ Fault /\ Goto(l, "idle") /\ delivering' = FALSE
    /\ UNCHANGED <<negotiated, formed, gates, rtVars, relay, writes>>

(* The probe after a failed attempt; one that fails itself decides nothing *)
(* but the deadline.                                                       *)
Probe(l) ==
    /\ task[l].pc = "probe"
    /\ \/ /\ IF rtState # "FULFILLING" \/ deadlinePassed
             THEN Goto(l, "idle") /\ delivering' = FALSE
             ELSE Goto(l, "start") /\ UNCHANGED delivering
          /\ UNCHANGED faults
       \/ /\ Fault
          /\ IF deadlinePassed THEN Goto(l, "idle") /\ delivering' = FALSE
             ELSE Goto(l, "start") /\ UNCHANGED delivering
    /\ UNCHANGED <<negotiated, formed, gates, rtVars, relay, writes>>

(* The binding is approved; the Python agent never takes that back. *)
BindingApproved ==
    /\ mode = "live" /\ ~bound
    /\ bound' = TRUE
    /\ UNCHANGED <<negotiated, formed, mode, cached, rtTerms, reported, delivering, task,
                   rtVars, relay, writes, faults>>

-----------------------------------------------------------------------------
(* The Runtime, as the test double decides.  The caller hears an answer    *)
(* only while it awaits that very write.                                   *)
Handled(w, answer) ==
    /\ writes' = writes \ {w}
    /\ task' = IF task[w.task].request = w
               THEN [task EXCEPT ![w.task].answer = answer]
               ELSE task

SellerUnchanged == UNCHANGED <<negotiated, formed, gates, delivering, faults>>

(* Signatures are checked against the buyer's own key. *)
HandleAcceptance(w) ==
    /\ w.kind = "acceptance"
    /\ IF rtState = "PROPOSED" /\ w.contract = [terms |-> rtTerms, by |-> "buyer"]
       THEN /\ rtState' = "COMMITTED" /\ rtRevision' = rtRevision + 1
            /\ Handled(w, "ok")
       ELSE Handled(w, "refused") /\ UNCHANGED <<rtState, rtRevision>>
    /\ UNCHANGED <<signed, evidence, deadlinePassed, relay>> /\ SellerUnchanged

HandleFundingSignatures(w) ==
    /\ w.kind = "funding-signatures"
    /\ signed' = signed \cup {"seller"}
    /\ Handled(w, "ok")
    /\ UNCHANGED <<rtState, rtRevision, evidence, deadlinePassed, relay>> /\ SellerUnchanged

HandleEvidence(w) ==
    /\ w.kind = "evidence"
    /\ evidence' = TRUE
    /\ Handled(w, "ok")
    /\ UNCHANGED <<rtState, rtRevision, signed, deadlinePassed, relay>> /\ SellerUnchanged

HandleDelivered(w) ==
    /\ w.kind = "delivered"
    /\ IF rtState = "FULFILLING" /\ w.revision = rtRevision /\ evidence
       THEN /\ rtState' = "DELIVERED" /\ rtRevision' = rtRevision + 1
            /\ Handled(w, "ok")
       ELSE /\ Handled(w, IF w.revision # rtRevision THEN "retriable" ELSE "refused")
            /\ UNCHANGED <<rtState, rtRevision>>
    /\ UNCHANGED <<signed, evidence, deadlinePassed, relay>> /\ SellerUnchanged

RuntimeHandles(w) ==
    \/ HandleAcceptance(w) \/ HandleFundingSignatures(w)
    \/ HandleEvidence(w) \/ HandleDelivered(w)

(* The buyer's funding artifact lands; both artifacts complete the funding *)
(* and start the work; the deadlines pass.  What follows DELIVERED makes   *)
(* no difference to this seller, which looks for PROPOSED and FULFILLING.  *)
BuyerFunds ==
    /\ rtState = "COMMITTED" /\ "buyer" \notin signed
    /\ signed' = signed \cup {"buyer"}
    /\ UNCHANGED <<rtState, rtRevision, evidence, deadlinePassed, relay, writes, task>>
    /\ SellerUnchanged

ConfirmFund ==
    /\ rtState = "COMMITTED" /\ signed = {"buyer", "seller"}
    /\ rtState' = "FULFILLING" /\ rtRevision' = rtRevision + 1
    /\ relay' = "pending"
    /\ UNCHANGED <<signed, evidence, deadlinePassed, writes, task>> /\ SellerUnchanged

DeadlinePasses ==
    /\ rtState = "FULFILLING" /\ ~deadlinePassed
    /\ deadlinePassed' = TRUE
    /\ UNCHANGED <<rtState, rtRevision, signed, evidence, relay, writes, task>>
    /\ SellerUnchanged

AgreementLapses ==
    /\ \/ rtState = "COMMITTED" /\ rtState' = "EXPIRED"
       \/ rtState = "FULFILLING" /\ deadlinePassed /\ rtState' = "DEFAULTED"
    /\ rtRevision' = rtRevision + 1
    /\ UNCHANGED <<signed, evidence, deadlinePassed, relay, writes, task>> /\ SellerUnchanged

-----------------------------------------------------------------------------
DeliveryStep(t) == DeliveryStart(t) \/ DeliveryEvidence(t) \/ DeliveryAnswer(t)

(* Between the two agents; live, only the address is published. *)
PartyStep ==
    \/ \E x \in Addresses : PublishTerms(x)
    \/ \E contract \in Contract : Propose(contract)
    \/ \E d \in Terms, agreed \in BOOLEAN : Countersign(d, agreed)
    \/ \E terms \in Terms, d \in DealIds : Deliver(terms, d)

CountersignStep(c) ==
    \/ \E contract \in Contract : CountersignRead(c, contract)
    \/ \E agreed \in BOOLEAN : CountersignAccept(c, agreed)
    \/ CountersignCardFails(c) \/ CountersignAnswer(c) \/ CountersignFails(c)

RuntimeStep == \E w \in writes : RuntimeHandles(w)

OutsideStep == BuyerFunds \/ ConfirmFund \/ DeadlinePasses \/ AgreementLapses

Next ==
    \/ PartyStep
    \/ \E c \in Countersigns : CountersignStep(c)
    \/ \E f \in Fundings : FundingSign(f) \/ FundingAnswer(f) \/ FundingFails(f)
    \/ \E n \in Notices : NoticeRead(n) \/ NoticeFails(n) \/ NoticeAccepted(n)
    \/ \E t \in Loops \cup Requests : DeliveryStep(t) \/ DeliveryFails(t)
    \/ \E l \in Loops : Probe(l)
    \/ RuntimeStep
    \/ BindingApproved
    \/ OutsideStep

Spec == Init /\ [][Next]_vars

(* The event loop runs what can run, the Runtime handles what reached it,  *)
(* the relay repeats what was not acknowledged.  Failures are finitely     *)
(* many; nothing is assumed of the buyer or the deadlines.                 *)
Fairness ==
    /\ \A l \in Loops : WF_vars(DeliveryStep(l) \/ Probe(l))
    /\ \A n \in Notices : WF_vars(NoticeRead(n) \/ NoticeAccepted(n))
    /\ WF_vars(RuntimeStep)

FairSpec == Spec /\ Fairness

-----------------------------------------------------------------------------
(* Type invariant.  self.deals[terms_ref] finds the contract of every deal *)
(* that is known.                                                          *)
TypeOK ==
    /\ address \in Addresses \cup {"none"}
    /\ DOMAIN pending \subseteq Terms
    /\ DOMAIN deals \subseteq Offered
    /\ \A terms \in DOMAIN deals : deals[terms] \in Contract /\ deals[terms].terms = terms
    /\ DOMAIN dealTerms \subseteq DealIds
    /\ \A d \in DOMAIN dealTerms : dealTerms[d] \in DOMAIN deals
    /\ DOMAIN records \subseteq DealIds
    /\ \A d \in DOMAIN records : records[d] \in Contract \cup {NoContract}
    /\ delivering \in BOOLEAN /\ cached \in BOOLEAN /\ bound \in BOOLEAN
    /\ evidence \in BOOLEAN /\ deadlinePassed \in BOOLEAN
    /\ rtState \in AgreementStates /\ rtRevision \in Nat
    /\ signed \subseteq {"buyer", "seller"}
    /\ relay \in {"none", "pending", "acked"} /\ faults \in 0..MaxFaults

(* A live deal that the seller remembers, and so funds and delivers, is    *)
(* committed at the Runtime, under the same terms and the buyer's own      *)
(* signature, whichever acceptance-requests raced, with whichever address  *)
(* request-terms left in the directory meanwhile.                          *)
RememberedIsCommitted ==
    Agreed \in DOMAIN dealTerms =>
        /\ rtState # "PROPOSED"
        /\ dealTerms[Agreed] = rtTerms
        /\ deals[rtTerms].by = "buyer"

(* The deal is remembered only after the answer of the acceptance, so a    *)
(* lost answer leaves a committed agreement that the seller does not know. *)
(* It is stranded before money moves: a funded agreement is always known,  *)
(* and its work-start is never answered "unknown dealId".                  *)
FundedIsRemembered ==
    rtState \notin {"PROPOSED", "COMMITTED", "EXPIRED"} => Agreed \in DOMAIN dealTerms

(* "An invalid request must not populate the public admin inventory": what *)
(* live mode records has terms on offer, and they are those of the         *)
(* Runtime's own proposal where its status tells them.                     *)
InventoryIsVerified ==
    mode = "live" =>
        \A d \in DOMAIN records :
            records[d].terms \in Offered /\ (reported => records[d].terms = rtTerms)

(* The relay stops at the first well-formed reply.  As long as the         *)
(* agreement then waits for the work and its deadline is not over, a       *)
(* background task is at it: whatever is refused, conflicts or fails, the  *)
(* last one does not end, and _delivering never turns a work-start away    *)
(* for a task that is gone.                                                *)
AckedWorkIsUnderway ==
    relay = "acked" /\ rtState = "FULFILLING" /\ ~deadlinePassed =>
        \E l \in Loops : task[l].pc # "idle"

(* The relay stops at the first well-formed reply.  Whatever fails, and    *)
(* whatever delivery the buyer requests beside the background task, the    *)
(* work is delivered unless its deadline passes.                           *)
WorkStartIsDelivered ==
    (rtState = "FULFILLING") ~> (rtState # "FULFILLING" \/ deadlinePassed)
=============================================================================
