------------------------ MODULE SellerExecutorProofs ------------------------
(***************************************************************************)
(* Proofs about SellerExecutor, for any terms, any number of requests,     *)
(* notices and delivery tasks, and any number of failures.                 *)
(*                                                                         *)
(* The invariant says why the answer of an acceptance may be trusted: a    *)
(* task that submits holds verified terms, and is told "ok" only by the    *)
(* very write that committed the agreement, under those terms and with the *)
(* buyer's signature; and why a funded deal is known: the signature on the *)
(* wire was made with the terms remembered.  A second invariant says why   *)
(* acknowledged work goes on: a delivery task only ends on an answer that  *)
(* means that the work is over.                                            *)
(***************************************************************************)
EXTENDS SellerExecutor, TLAPS

(* The types of what TypeOK leaves out. *)
PendingRecord == [contract : Contract, address : Addresses]

WriteRecord ==
    [kind : {"acceptance", "funding-signatures", "evidence", "delivered"}, task : Tasks,
     contract : Contract \cup {NoContract}, revision : Nat]

TaskRecord ==
    [pc : {"idle", "card", "submit", "done", "read", "start", "evidence", "command", "probe"},
     contract : Contract \cup {NoContract}, address : Addresses \cup {"none"}, revision : Nat,
     request : WriteRecord \cup {NoWrite}, answer : {"none", "ok", "refused", "retriable"}]

Flags ==
    /\ delivering \in BOOLEAN /\ cached \in BOOLEAN /\ bound \in BOOLEAN
    /\ evidence \in BOOLEAN /\ deadlinePassed \in BOOLEAN

Kept ==
    /\ address \in Addresses \cup {"none"}
    /\ DOMAIN pending \subseteq Terms
    /\ \A d \in DOMAIN pending :
        pending[d] \in PendingRecord /\ pending[d].contract.terms = d
    /\ DOMAIN deals \subseteq Offered
    /\ \A terms \in DOMAIN deals : deals[terms] \in Contract /\ deals[terms].terms = terms
    /\ DOMAIN dealTerms \subseteq DealIds
    /\ \A d \in DOMAIN dealTerms : dealTerms[d] \in DOMAIN deals
    /\ DOMAIN records \subseteq DealIds
    /\ \A d \in DOMAIN records : records[d] \in Contract \cup {NoContract}

Moving ==
    /\ mode \in {"standalone", "live"} /\ rtTerms \in Terms /\ reported \in BOOLEAN
    /\ rtState \in AgreementStates /\ rtRevision \in Nat
    /\ signed \subseteq {"buyer", "seller"}
    /\ relay \in {"none", "pending", "acked"} /\ faults \in 0..MaxFaults
    /\ writes \subseteq WriteRecord
    /\ task \in [Tasks -> TaskRecord]

(* Each mode leaves the other one's state alone. *)
ModesAreApart ==
    /\ mode = "live" => DOMAIN pending = {}
    /\ mode = "standalone" =>
        /\ Agreed \notin DOMAIN dealTerms
        /\ writes = {} /\ signed = {} /\ rtState = "PROPOSED"
        /\ \A t \in Tasks : task[t].pc = "idle"

(* A contract that is being countersigned has the terms of the Runtime's   *)
(* proposal if the status told them; once it is submitted its terms are on *)
(* offer, and the answer "ok" says that the agreement was committed with   *)
(* it, under the buyer's signature.                                        *)
SubmittedIsVerified ==
    \A c \in Countersigns :
        /\ task[c].pc \in {"card", "submit"} =>
            /\ task[c].contract \in Contract
            /\ reported => task[c].contract.terms = rtTerms
        /\ task[c].pc = "card" => task[c].address \in Addresses
        /\ task[c].pc = "submit" =>
            /\ task[c].contract.terms \in Offered
            /\ task[c].request = Write(c, "acceptance", task[c].contract, 0)
            /\ task[c].answer = "ok" =>
                rtState # "PROPOSED" /\ task[c].contract = [terms |-> rtTerms, by |-> "buyer"]

(* A funding signature is made with the terms remembered. *)
SignedIsRemembered ==
    /\ "seller" \in signed => Agreed \in DOMAIN dealTerms
    /\ \A w \in writes : w.kind = "funding-signatures" => Agreed \in DOMAIN dealTerms

Core ==
    /\ Kept /\ Moving /\ ModesAreApart /\ SubmittedIsVerified /\ SignedIsRemembered
    /\ RememberedIsCommitted /\ FundedIsRemembered /\ InventoryIsVerified

ExecInv == Flags /\ Core

-----------------------------------------------------------------------------
(* Dict item assignment. *)
LEMMA PutFacts ==
    ASSUME NEW f, NEW k, NEW v
    PROVE  /\ DOMAIN Put(f, k, v) = DOMAIN f \cup {k}
           /\ Put(f, k, v)[k] = v
           /\ \A x \in DOMAIN f \ {k} : Put(f, k, v)[x] = f[x]
  BY DEF Put

LEMMA InitExec == Init => ExecInv
<1> SUFFICES ASSUME Init PROVE ExecInv
  OBVIOUS
<1>1. /\ DOMAIN pending = {} /\ DOMAIN deals = {} /\ DOMAIN dealTerms = {}
      /\ DOMAIN records = {}
  BY DEF Init
<1>2. IdleTask \in TaskRecord
  BY DEF IdleTask, TaskRecord
<1>3. Flags
  BY Zenon DEF Init, Flags
<1>4. Kept /\ Moving
  BY <1>1, <1>2, ExecutorConstants DEF Init, Kept, Moving, AgreementStates
<1>5. ModesAreApart
  BY <1>1 DEF Init, ModesAreApart, IdleTask
<1>6. SubmittedIsVerified
  BY DEF Init, SubmittedIsVerified, IdleTask, Tasks
<1>7. SignedIsRemembered /\ RememberedIsCommitted /\ FundedIsRemembered /\ InventoryIsVerified
  BY <1>1 DEF Init, SignedIsRemembered, RememberedIsCommitted, FundedIsRemembered,
              InventoryIsVerified
<1> QED BY <1>3, <1>4, <1>5, <1>6, <1>7 DEF ExecInv, Core

(* What the invariant says of the declared properties. *)
LEMMA TypesFollow == ExecInv => TypeOK
  BY DEF ExecInv, Core, Flags, Kept, Moving, TypeOK

-----------------------------------------------------------------------------
(* The flags: every action sets them to TRUE or FALSE or leaves them. *)
LEMMA FlagsStay == Flags /\ [Next]_vars => Flags'
<1> SUFFICES ASSUME Flags, [Next]_vars PROVE Flags'
  OBVIOUS
<1> USE DEF Flags, gates, rtVars
<1>1. CASE PartyStep
  BY <1>1, Zenon DEF PartyStep, PublishTerms, Propose, Countersign, Deliver
<1>2. ASSUME NEW c \in Countersigns, CountersignStep(c)
      PROVE  Flags'
  BY <1>2, Zenon DEF CountersignStep, CountersignRead, CountersignCardFails,
                     CountersignAccept, CountersignAnswer, CountersignFails
<1>3. ASSUME NEW f \in Fundings, FundingSign(f) \/ FundingAnswer(f) \/ FundingFails(f)
      PROVE  Flags'
  BY <1>3, Zenon DEF FundingSign, FundingAnswer, FundingFails
<1>4. ASSUME NEW n \in Notices, NoticeRead(n) \/ NoticeFails(n) \/ NoticeAccepted(n)
      PROVE  Flags'
  BY <1>4, Zenon DEF NoticeRead, NoticeFails, NoticeAccepted
<1>5. ASSUME NEW t \in Loops \cup Requests, DeliveryStep(t) \/ DeliveryFails(t)
      PROVE  Flags'
  BY <1>5, Zenon DEF DeliveryStep, DeliveryStart, DeliveryEvidence, DeliveryAnswer, DeliveryFails
<1>6. ASSUME NEW l \in Loops, Probe(l)
      PROVE  Flags'
  BY <1>6, Zenon DEF Probe
<1>7. CASE RuntimeStep
  BY <1>7, Zenon DEF RuntimeStep, RuntimeHandles, HandleAcceptance, HandleFundingSignatures,
                     HandleEvidence, HandleDelivered, SellerUnchanged
<1>8. CASE BindingApproved \/ OutsideStep
  BY <1>8, Zenon DEF BindingApproved, OutsideStep, BuyerFunds, ConfirmFund, DeadlinePasses,
                     AgreementLapses, SellerUnchanged
<1>9. CASE UNCHANGED vars
  BY <1>9, Zenon DEF vars
<1> HIDE DEF Flags
<1> QED BY <1>1, <1>2, <1>3, <1>4, <1>5, <1>6, <1>7, <1>8, <1>9, Zenon DEF Next

-----------------------------------------------------------------------------
(* The rest of the invariant, an actor at a time.  First what is written   *)
(* when a deal is remembered.                                              *)
LEMMA RememberFacts ==
    ASSUME NEW d, NEW contract, Remember(d, contract)
    PROVE  /\ DOMAIN deals' = DOMAIN deals \cup {contract.terms}
           /\ deals'[contract.terms] = contract
           /\ \A x \in DOMAIN deals \ {contract.terms} : deals'[x] = deals[x]
           /\ DOMAIN dealTerms' = DOMAIN dealTerms \cup {d}
           /\ dealTerms'[d] = contract.terms
           /\ \A x \in DOMAIN dealTerms \ {d} : dealTerms'[x] = dealTerms[x]
           /\ DOMAIN records' = DOMAIN records \cup {d}
           /\ records'[d] = contract
           /\ \A x \in DOMAIN records \ {d} : records'[x] = records[x]
  BY DEF Remember, Put

USE ExecutorConstants
    DEF ExecInv, Core, Kept, Moving, ModesAreApart, SubmittedIsVerified, SignedIsRemembered,
        RememberedIsCommitted, FundedIsRemembered, InventoryIsVerified,
        negotiated, formed, gates, rtVars, Contract, NoContract, NoWrite, IdleTask, Addresses,
        Tasks, DealIds, AgreementStates, PendingRecord, WriteRecord, TaskRecord,
        Goto, Write, Submit, Fault, CallRaises, Raised, AcceptTerms, Handled, SellerUnchanged

(* Without the Runtime every deal has the id of its terms, so the id the   *)
(* Runtime assigns is never remembered.                                    *)
LEMMA PartyKeeps == ASSUME ExecInv, PartyStep PROVE Core'
<1>1. ASSUME NEW x \in Addresses, PublishTerms(x) PROVE Core'
  BY <1>1 DEF PublishTerms
<1>2. ASSUME NEW contract \in Contract, Propose(contract) PROVE Core'
  <2>1. /\ DOMAIN pending' = DOMAIN pending \cup {contract.terms}
        /\ pending'[contract.terms] = [contract |-> contract, address |-> address]
        /\ \A x \in DOMAIN pending \ {contract.terms} : pending'[x] = pending[x]
        /\ DOMAIN records' = DOMAIN records \cup {contract.terms}
        /\ records'[contract.terms] = contract
        /\ \A x \in DOMAIN records \ {contract.terms} : records'[x] = records[x]
    BY <1>2 DEF Propose, Put
  <2>2. Kept'
    BY <1>2, <2>1 DEF Propose
  <2> QED BY <1>2, <2>2 DEF Propose
<1>3. ASSUME NEW d \in Terms, NEW agreed \in BOOLEAN, Countersign(d, agreed) PROVE Core'
  <2> DEFINE contract == pending[d].contract
  <2>1. /\ contract \in Contract /\ contract.terms = d /\ d \in Offered /\ d # Agreed
        /\ Remember(d, contract)
        /\ mode = "standalone"
    BY <1>3 DEF Countersign
  <2> HIDE DEF contract
  <2>2. /\ DOMAIN deals' = DOMAIN deals \cup {d} /\ deals'[d] = contract
        /\ \A x \in DOMAIN deals \ {d} : deals'[x] = deals[x]
        /\ DOMAIN dealTerms' = DOMAIN dealTerms \cup {d} /\ dealTerms'[d] = d
        /\ \A x \in DOMAIN dealTerms \ {d} : dealTerms'[x] = dealTerms[x]
        /\ DOMAIN records' = DOMAIN records \cup {d} /\ records'[d] = contract
        /\ \A x \in DOMAIN records \ {d} : records'[x] = records[x]
    BY ONLY <2>1, RememberFacts
  <2>3. Kept'
    BY <1>3, <2>1, <2>2 DEF Countersign
  <2>4. Moving' /\ ModesAreApart' /\ SubmittedIsVerified'
    BY <1>3, <2>1, <2>2 DEF Countersign
  <2>5. (SignedIsRemembered /\ RememberedIsCommitted /\ FundedIsRemembered)'
    BY <1>3, <2>1, <2>2 DEF Countersign
  <2>6. InventoryIsVerified'
    BY <1>3, <2>1 DEF Countersign
  <2> QED BY <2>3, <2>4, <2>5, <2>6
<1>4. ASSUME NEW terms \in Terms, NEW d \in DealIds, Deliver(terms, d) PROVE Core'
  <2>1. CASE d \in DOMAIN records
    BY <1>4, <2>1 DEF Deliver, Setdefault
  <2>2. CASE d \notin DOMAIN records
    <3>1. /\ DOMAIN records' = DOMAIN records \cup {d} /\ records'[d] = NoContract
          /\ \A x \in DOMAIN records : records'[x] = records[x]
      BY <1>4, <2>2 DEF Deliver, Setdefault, Put
    <3>2. \A x \in DOMAIN records' : records'[x] \in Contract \cup {NoContract}
      <4> TAKE x \in DOMAIN records'
      <4>1. CASE x = d
        BY ONLY <3>1, <4>1
      <4>2. CASE x # d
        BY <3>1, <4>2
      <4> QED BY <4>1, <4>2
    <3>3. Kept'
      BY <1>4, <3>1, <3>2 DEF Deliver
    <3>4. Moving' /\ ModesAreApart' /\ SubmittedIsVerified'
      BY <1>4 DEF Deliver
    <3>5. (SignedIsRemembered /\ RememberedIsCommitted /\ FundedIsRemembered)'
      BY <1>4 DEF Deliver
    <3>6. InventoryIsVerified'
      BY <1>4 DEF Deliver
    <3> QED BY <3>3, <3>4, <3>5, <3>6
  <2> QED BY <2>1, <2>2
<1> HIDE DEF ExecInv, Core
<1> QED BY <1>1, <1>2, <1>3, <1>4, Zenon DEF PartyStep

(* The answer "ok" came from the write that committed the agreement, so    *)
(* remembering it is sound; whatever else was signed is not recorded.      *)
LEMMA CountersignKeeps == ASSUME ExecInv, NEW c \in Countersigns, CountersignStep(c) PROVE Core'
<1>1. ASSUME NEW contract \in Contract, CountersignRead(c, contract) PROVE Core'
  <2>1. Moving'
    <3>1. task[c] \in TaskRecord /\ contract \in Contract /\ address \in Addresses
      BY <1>1 DEF CountersignRead
    <3>2. [task[c] EXCEPT !.pc = "card", !.contract = contract, !.address = address]
            \in TaskRecord
      BY ONLY <3>1 DEF TaskRecord
    <3>3. task' = [task EXCEPT ![c] = [task[c] EXCEPT !.pc = "card", !.contract = contract,
                                                     !.address = address]]
      BY <1>1 DEF CountersignRead
    <3>4. task' \in [Tasks -> TaskRecord]
      BY <3>2, <3>3
    <3> QED BY <1>1, <3>4 DEF CountersignRead
  <2>2. Kept' /\ ModesAreApart' /\ SubmittedIsVerified'
    BY <1>1 DEF CountersignRead
  <2>3. (SignedIsRemembered /\ RememberedIsCommitted /\ FundedIsRemembered /\ InventoryIsVerified)'
    BY <1>1 DEF CountersignRead
  <2> QED BY <2>1, <2>2, <2>3
<1>2. CASE CountersignCardFails(c)
  BY <1>2 DEF CountersignCardFails
<1>3. ASSUME NEW agreed \in BOOLEAN, CountersignAccept(c, agreed) PROVE Core'
  <2> DEFINE contract == task[c].contract
  <2>1. CASE ~AcceptTerms(contract, task[c].address, agreed)
    BY <1>3, <2>1 DEF CountersignAccept
  <2>2. CASE AcceptTerms(contract, task[c].address, agreed)
    <3>1. /\ DOMAIN records' = DOMAIN records \cup {Agreed} /\ records'[Agreed] = contract
          /\ \A x \in DOMAIN records \ {Agreed} : records'[x] = records[x]
      BY <1>3, <2>2 DEF CountersignAccept, Put
    <3>2. /\ contract \in Contract /\ contract.terms \in Offered
          /\ reported => contract.terms = rtTerms
      BY <1>3, <2>2 DEF CountersignAccept
    <3>3. \A x \in DOMAIN records' : records'[x] \in Contract \cup {NoContract}
      BY <3>1, <3>2
    <3>4. Kept'
      BY <1>3, <2>2, <3>1, <3>3 DEF CountersignAccept
    <3>5. Moving' /\ ModesAreApart' /\ SubmittedIsVerified'
      BY <1>3, <2>2, <3>2 DEF CountersignAccept
    <3>6. (SignedIsRemembered /\ RememberedIsCommitted /\ FundedIsRemembered)'
      BY <1>3, <2>2, <3>2 DEF CountersignAccept
    <3>7. InventoryIsVerified'
      BY <1>3, <2>2, <3>1, <3>2 DEF CountersignAccept
    <3> QED BY <3>4, <3>5, <3>6, <3>7
  <2> QED BY <2>1, <2>2
<1>4. CASE CountersignAnswer(c)
  <2>1. CASE task[c].answer # "ok"
    BY <1>4, <2>1 DEF CountersignAnswer
  <2>2. CASE task[c].answer = "ok"
    <3> DEFINE contract == task[c].contract
    <3>1. /\ contract \in Contract /\ contract = [terms |-> rtTerms, by |-> "buyer"]
          /\ contract.terms \in Offered /\ rtState # "PROPOSED"
      BY <1>4, <2>2 DEF CountersignAnswer
    <3>2. Remember(Agreed, contract) /\ mode = "live"
      BY <1>4, <2>2 DEF CountersignAnswer
    <3> HIDE DEF contract
    <3>3. /\ contract \in Contract /\ contract.terms = rtTerms /\ contract.by = "buyer"
          /\ rtTerms \in Offered /\ rtState # "PROPOSED"
          /\ Remember(Agreed, contract)
          /\ mode = "live"
      BY ONLY <3>1, <3>2
    <3>4. /\ DOMAIN deals' = DOMAIN deals \cup {rtTerms} /\ deals'[rtTerms] = contract
          /\ \A x \in DOMAIN deals \ {rtTerms} : deals'[x] = deals[x]
          /\ DOMAIN dealTerms' = DOMAIN dealTerms \cup {Agreed} /\ dealTerms'[Agreed] = rtTerms
          /\ \A x \in DOMAIN dealTerms \ {Agreed} : dealTerms'[x] = dealTerms[x]
          /\ DOMAIN records' = DOMAIN records \cup {Agreed} /\ records'[Agreed] = contract
          /\ \A x \in DOMAIN records \ {Agreed} : records'[x] = records[x]
      BY ONLY <3>3, RememberFacts
    <3>5. Kept'
      BY <1>4, <3>3, <3>4 DEF CountersignAnswer
    <3>6. Moving' /\ ModesAreApart' /\ SubmittedIsVerified'
      BY <1>4, <3>3, <3>4 DEF CountersignAnswer
    <3>7. (SignedIsRemembered /\ RememberedIsCommitted /\ FundedIsRemembered)'
      BY <1>4, <3>3, <3>4 DEF CountersignAnswer
    <3>8. InventoryIsVerified'
      BY <1>4, <3>3, <3>4 DEF CountersignAnswer
    <3> QED BY <3>5, <3>6, <3>7, <3>8
  <2> QED BY <2>1, <2>2
<1>5. CASE CountersignFails(c)
  BY <1>5 DEF CountersignFails
<1> HIDE DEF ExecInv, Core
<1> QED BY <1>1, <1>2, <1>3, <1>4, <1>5, Zenon DEF CountersignStep

(* Funding is signed with the terms remembered, and they stay remembered.  *)
LEMMA FundingKeeps ==
    ASSUME ExecInv, NEW f \in Fundings, FundingSign(f) \/ FundingAnswer(f) \/ FundingFails(f)
    PROVE  Core'
<1>1. CASE FundingSign(f)
  <2> DEFINE w == Write(f, "funding-signatures", NoContract, 0)
             r == [task[f] EXCEPT !.pc = "submit", !.request = w, !.answer = "none"]
  <2>1. w \in WriteRecord /\ r \in TaskRecord
    <3>1. task[f] \in TaskRecord
      OBVIOUS
    <3>2. w \in WriteRecord
      OBVIOUS
    <3> HIDE DEF w, WriteRecord, NoWrite, Contract, NoContract, Addresses
    <3> QED BY ONLY <3>1, <3>2 DEF TaskRecord
  <2>2. f \in Tasks /\ writes \subseteq WriteRecord /\ task \in [Tasks -> TaskRecord]
    <3> HIDE DEF WriteRecord, TaskRecord
    <3> QED OBVIOUS
  <2>3. writes' = writes \cup {w}
    BY <1>1 DEF FundingSign
  <2>4. task' = [task EXCEPT ![f] = r]
    BY <1>1 DEF FundingSign
  <2>5. Kept' /\ ModesAreApart'
    BY <1>1 DEF FundingSign
  <2>6. SubmittedIsVerified'
    BY <1>1 DEF FundingSign
  <2>7. (SignedIsRemembered /\ RememberedIsCommitted /\ FundedIsRemembered /\ InventoryIsVerified)'
    BY <1>1 DEF FundingSign
  <2> HIDE DEF w, r
  <2>8. Moving'
    <3> HIDE DEF WriteRecord, TaskRecord, Tasks
    <3>1. writes' \subseteq WriteRecord /\ task' \in [Tasks -> TaskRecord]
      BY ONLY <2>1, <2>2, <2>3, <2>4
    <3> QED BY <1>1, <3>1 DEF FundingSign
  <2> QED BY <2>5, <2>6, <2>7, <2>8
<1>2. CASE FundingAnswer(f)
  BY <1>2 DEF FundingAnswer
<1>3. CASE FundingFails(f)
  BY <1>3 DEF FundingFails
<1> QED BY <1>1, <1>2, <1>3

LEMMA NoticeKeeps ==
    ASSUME ExecInv, NEW n \in Notices, NoticeRead(n) \/ NoticeFails(n) \/ NoticeAccepted(n)
    PROVE  Core'
<1>1. CASE NoticeRead(n)
  BY <1>1 DEF NoticeRead
<1>2. CASE NoticeFails(n)
  BY <1>2 DEF NoticeFails
<1>3. CASE NoticeAccepted(n)
  BY <1>3, SMTT(60) DEF NoticeAccepted
<1> QED BY <1>1, <1>2, <1>3

LEMMA DeliveryKeeps ==
    ASSUME ExecInv, NEW t \in Loops \cup Requests, DeliveryStep(t) \/ DeliveryFails(t)
    PROVE  Core'
<1>1. CASE DeliveryStart(t)
  BY <1>1 DEF DeliveryStart
<1>2. CASE DeliveryEvidence(t)
  BY <1>2 DEF DeliveryEvidence
<1>3. CASE DeliveryAnswer(t)
  BY <1>3 DEF DeliveryAnswer
<1>4. CASE DeliveryFails(t)
  BY <1>4 DEF DeliveryFails
<1> QED BY <1>1, <1>2, <1>3, <1>4 DEF DeliveryStep

LEMMA ProbeKeeps == ASSUME ExecInv, NEW l \in Loops, Probe(l) PROVE Core'
  BY DEF Probe

(* The Runtime tells an acceptance "ok" only as it commits the agreement   *)
(* with the contract that carries the buyer's own signature.               *)
LEMMA RuntimeKeeps == ASSUME ExecInv, RuntimeStep PROVE Core'
<1>1. ASSUME NEW w \in writes, HandleAcceptance(w) PROVE Core'
  BY <1>1 DEF HandleAcceptance
<1>2. ASSUME NEW w \in writes, HandleFundingSignatures(w) PROVE Core'
  BY <1>2 DEF HandleFundingSignatures
<1>3. ASSUME NEW w \in writes, HandleEvidence(w) PROVE Core'
  BY <1>3 DEF HandleEvidence
<1>4. ASSUME NEW w \in writes, HandleDelivered(w) PROVE Core'
  BY <1>4 DEF HandleDelivered
<1> QED BY <1>1, <1>2, <1>3, <1>4, Zenon DEF RuntimeStep, RuntimeHandles

LEMMA OutsideKeeps == ASSUME ExecInv, BindingApproved \/ OutsideStep PROVE Core'
<1>1. CASE BindingApproved
  BY <1>1 DEF BindingApproved
<1>2. CASE BuyerFunds
  BY <1>2 DEF BuyerFunds
<1>3. CASE ConfirmFund
  BY <1>3 DEF ConfirmFund
<1>4. CASE DeadlinePasses
  BY <1>4 DEF DeadlinePasses
<1>5. CASE AgreementLapses
  BY <1>5 DEF AgreementLapses
<1> QED BY <1>1, <1>2, <1>3, <1>4, <1>5 DEF OutsideStep

LEMMA NothingKeeps == ASSUME ExecInv, UNCHANGED vars PROVE Core'
  BY DEF vars

-----------------------------------------------------------------------------
HIDE DEF ExecInv, Core, Kept, Moving, ModesAreApart, SubmittedIsVerified, SignedIsRemembered,
         RememberedIsCommitted, FundedIsRemembered, InventoryIsVerified

LEMMA NextExec == ExecInv /\ [Next]_vars => ExecInv'
<1> SUFFICES ASSUME ExecInv, [Next]_vars PROVE ExecInv'
  OBVIOUS
<1>1. Flags'
  BY FlagsStay DEF ExecInv
<1>2. Core'
  BY PartyKeeps, CountersignKeeps, FundingKeeps, NoticeKeeps, DeliveryKeeps, ProbeKeeps,
     RuntimeKeeps, OutsideKeeps, NothingKeeps, Zenon DEF Next
<1> QED BY <1>1, <1>2 DEF ExecInv

LEMMA AlwaysExec == Spec => []ExecInv
  BY InitExec, NextExec, PTL DEF Spec

(* Whatever requests, notices and failures interleave, the maps of the     *)
(* executor agree: the contract of every known deal is found.              *)
THEOREM ExecutorTypes == Spec => []TypeOK
  BY AlwaysExec, TypesFollow, PTL

(* What the seller remembers is committed at the Runtime, under the same   *)
(* terms and the buyer's own signature.                                    *)
THEOREM ExecutorRemembersCommitted == Spec => []RememberedIsCommitted
<1>1. ExecInv => RememberedIsCommitted
  BY DEF ExecInv, Core
<1> QED BY <1>1, AlwaysExec, PTL

(* A funded agreement is one the seller remembers, so that its work-start  *)
(* is never answered "unknown dealId".                                     *)
THEOREM ExecutorKnowsFunded == Spec => []FundedIsRemembered
<1>1. ExecInv => FundedIsRemembered
  BY DEF ExecInv, Core
<1> QED BY <1>1, AlwaysExec, PTL

(* No proposal that was not verified enters the public inventory, not even *)
(* that of a task that fails or is refused afterwards: its terms are on    *)
(* offer, and the Runtime's own whenever its status tells them.            *)
THEOREM ExecutorInventory == Spec => []InventoryIsVerified
<1>1. ExecInv => InventoryIsVerified
  BY DEF ExecInv, Core
<1> QED BY <1>1, AlwaysExec, PTL

-----------------------------------------------------------------------------
(* The work that was acknowledged is under way.  What a delivery task has  *)
(* been told: an evidence answer, that there is evidence; a final answer   *)
(* to its command, that the agreement has left FULFILLING, which it then   *)
(* never enters again.                                                     *)
Told(l) ==
    /\ task[l].pc \in {"idle", "start", "probe"} =>
        task[l].request = NoWrite /\ task[l].answer = "none"
    /\ task[l].pc = "evidence" =>
        /\ task[l].request.kind = "evidence"
        /\ task[l].answer # "none" => evidence
    /\ task[l].pc = "command" =>
        /\ task[l].request.kind = "delivered" /\ evidence
        /\ task[l].answer \in {"ok", "refused"} => rtState # "FULFILLING"

WorkInv ==
    /\ relay # "none" => rtState \notin {"PROPOSED", "COMMITTED"}
    /\ \A t \in Loops \cup Notices : task[t].pc # "idle" => relay # "none"
    /\ delivering => \E l \in Loops : task[l].pc # "idle"
    /\ \A l \in Loops : Told(l)
    /\ AckedWorkIsUnderway

(* The agreement's work begins once, with its notification; neither it nor *)
(* its deadline comes again, and only a notice is acknowledged.            *)
Onward ==
    /\ relay # "none" => relay' # "none"
    /\ relay' # "none" => relay # "none" \/ rtState' = "FULFILLING"
    /\ relay' = "acked" => relay = "acked"
    /\ deadlinePassed => deadlinePassed'
    /\ rtState \notin {"PROPOSED", "COMMITTED"} =>
          /\ rtState' \notin {"PROPOSED", "COMMITTED"}
          /\ rtState # "FULFILLING" => rtState' # "FULFILLING"

LEMMA StillLeadsOnward == UNCHANGED <<rtState, relay, deadlinePassed>> => Onward
  BY DEF Onward

(* Whatever leads onward and leaves the delivery tasks and notifications   *)
(* alone keeps the work under way.                                         *)
LEMMA AsideKeeps ==
    ASSUME WorkInv, Onward, UNCHANGED delivering, evidence => evidence',
           \A t \in Loops \cup Notices : task'[t] = task[t]
    PROVE  WorkInv'
<1> USE DEF WorkInv, Onward
<1>1. AckedWorkIsUnderway'
  BY DEF AckedWorkIsUnderway
<1>2. ASSUME NEW l \in Loops PROVE Told(l)'
  <2>1. Told(l) /\ (task[l].pc # "idle" => relay # "none")
    OBVIOUS
  <2> QED BY <2>1 DEF Told
<1> QED BY <1>1, <1>2

LEMMA TaskTypes ==
    ASSUME ExecInv
    PROVE  /\ task \in [Tasks -> TaskRecord]
           /\ Loops \cup Notices \subseteq Tasks
  BY DEF ExecInv, Core, Moving

LEMMA OneTaskMoves ==
    ASSUME ExecInv, NEW t \in Tasks, NEW pc, NEW w,
           Goto(t, pc) \/ Submit(t, pc, w) \/ CallRaises(t, pc)
    PROVE  \A u \in Tasks \ {t} : task'[u] = task[u]
<1> HIDE DEF WriteRecord, TaskRecord, Tasks
<1> QED BY TaskTypes

HIDE DEF Goto, Submit, CallRaises, Handled, Write, WriteRecord, TaskRecord, Tasks, Contract

(* The requests of the buyer, what it funds, the deadlines, the binding. *)
LEMMA OthersKeepWork ==
    ASSUME ExecInv, WorkInv,
           \/ PartyStep \/ BindingApproved \/ OutsideStep \/ UNCHANGED vars
           \/ \E c \in Countersigns : CountersignStep(c)
           \/ \E f \in Fundings : FundingSign(f) \/ FundingAnswer(f) \/ FundingFails(f)
           \/ \E r \in Requests : DeliveryStep(r) \/ DeliveryFails(r)
    PROVE  WorkInv'
<1>1. task \in [Tasks -> TaskRecord] /\ Loops \cup Notices \subseteq Tasks
  BY TaskTypes
<1>2. \A t \in Countersigns \cup Fundings \cup Requests :
         t \in Tasks /\ t \notin Loops \cup Notices
  BY DEF Tasks
<1>3. ASSUME UNCHANGED <<rtState, relay, deadlinePassed, delivering, evidence>>,
             NEW t \in Countersigns \cup Fundings \cup Requests,
             \A u \in Tasks \ {t} : task'[u] = task[u]
      PROVE  WorkInv'
  BY <1>1, <1>2, <1>3, StillLeadsOnward, AsideKeeps
<1>4. CASE PartyStep \/ BindingApproved \/ UNCHANGED vars
  <2>1. UNCHANGED <<rtState, relay, deadlinePassed, delivering, evidence, task>>
    BY <1>4 DEF PartyStep, PublishTerms, Propose, Countersign, Deliver, BindingApproved, vars
  <2> QED BY <2>1, StillLeadsOnward, AsideKeeps
<1>5. CASE OutsideStep
  <2>1. UNCHANGED <<task, delivering, evidence>>
    BY <1>5 DEF OutsideStep, BuyerFunds, ConfirmFund, DeadlinePasses, AgreementLapses
  <2>2. Onward
    BY <1>5 DEF OutsideStep, BuyerFunds, ConfirmFund, DeadlinePasses, AgreementLapses, Onward
  <2> QED BY <2>1, <2>2, AsideKeeps
<1>6. ASSUME NEW c \in Countersigns, CountersignStep(c) PROVE WorkInv'
  <2>1. UNCHANGED <<rtState, relay, deadlinePassed, delivering, evidence>>
    BY <1>6 DEF CountersignStep, CountersignRead, CountersignCardFails, CountersignAccept,
                CountersignAnswer, CountersignFails
  <2>2. CASE \E contract \in Contract : CountersignRead(c, contract)
    <3>1. \A u \in Tasks \ {c} : task'[u] = task[u]
      BY <1>1, <1>2, <2>2 DEF CountersignRead
    <3> QED BY <1>3, <2>1, <3>1
  <2>3. CASE ~\E contract \in Contract : CountersignRead(c, contract)
    <3>1. \E pc, w : Goto(c, pc) \/ Submit(c, pc, w) \/ CallRaises(c, pc)
      BY <1>6, <2>3 DEF CountersignStep, CountersignCardFails, CountersignAccept,
                        CountersignAnswer, CountersignFails
    <3> QED BY <1>2, <1>3, <2>1, <3>1, OneTaskMoves
  <2> QED BY <2>2, <2>3
<1>7. ASSUME NEW f \in Fundings, FundingSign(f) \/ FundingAnswer(f) \/ FundingFails(f)
      PROVE  WorkInv'
  <2>1. UNCHANGED <<rtState, relay, deadlinePassed, delivering, evidence>>
    BY <1>7 DEF FundingSign, FundingAnswer, FundingFails
  <2>2. \E pc, w : Goto(f, pc) \/ Submit(f, pc, w) \/ CallRaises(f, pc)
    BY <1>7 DEF FundingSign, FundingAnswer, FundingFails
  <2> QED BY <1>2, <1>3, <2>1, <2>2, OneTaskMoves
<1>8. ASSUME NEW r \in Requests, DeliveryStep(r) \/ DeliveryFails(r) PROVE WorkInv'
  <2>1. UNCHANGED <<rtState, relay, deadlinePassed, delivering, evidence>>
    BY <1>2, <1>8 DEF DeliveryStep, DeliveryStart, DeliveryEvidence, DeliveryAnswer,
                      DeliveryFails
  <2>2. \A u \in Tasks \ {r} : task'[u] = task[u]
    <3>1. CASE \E pc, w : Goto(r, pc) \/ Submit(r, pc, w) \/ CallRaises(r, pc)
      BY <1>2, <3>1, OneTaskMoves
    <3>2. CASE DeliveryStart(r)
      BY <1>1, <1>2, <3>1, <3>2 DEF DeliveryStart
    <3>3. CASE ~DeliveryStart(r)
      BY <1>2, <1>8, <3>1, <3>3 DEF DeliveryStep, DeliveryEvidence, DeliveryAnswer,
                                    DeliveryFails
    <3> QED BY <3>2, <3>3
  <2> QED BY <1>3, <2>1, <2>2
<1> QED BY <1>4, <1>5, <1>6, <1>7, <1>8

(* The Runtime's answers.  A command that cites evidence is answered with  *)
(* "retriable" unless the work is over.                                    *)
LEMMA RuntimeKeepsWork ==
    ASSUME ExecInv, WorkInv, RuntimeStep
    PROVE  WorkInv'
<1>1. task \in [Tasks -> TaskRecord] /\ Loops \cup Notices \subseteq Tasks
  BY TaskTypes
<1>2. PICK w \in writes : RuntimeHandles(w)
  BY DEF RuntimeStep
<1>3. Onward /\ UNCHANGED <<delivering, relay, deadlinePassed>> /\ (evidence => evidence')
  BY <1>2 DEF RuntimeHandles, HandleAcceptance, HandleFundingSignatures, HandleEvidence,
              HandleDelivered, Onward
<1>4. PICK answer :
         /\ Handled(w, answer)
         /\ w.kind = "evidence" => evidence'
         /\ w.kind = "delivered" /\ evidence /\ answer \in {"ok", "refused"} =>
               rtState' # "FULFILLING"
  <2>1. CASE HandleDelivered(w)
    BY <2>1 DEF HandleDelivered
  <2>2. CASE ~HandleDelivered(w)
    BY <1>2, <2>2 DEF RuntimeHandles, HandleAcceptance, HandleFundingSignatures, HandleEvidence
  <2> QED BY <2>1, <2>2
<1>5. \A t \in Loops \cup Notices :
         /\ task'[t].pc = task[t].pc /\ task'[t].request = task[t].request
         /\ task'[t].answer = task[t].answer \/ (task[t].request = w /\ task'[t].answer = answer)
  BY <1>1, <1>4 DEF TaskRecord, Handled
<1>6. w # NoWrite
  BY DEF ExecInv, Core, Moving, WriteRecord
<1>7. ASSUME NEW l \in Loops PROVE Told(l)'
  <2>1. Told(l)
    BY DEF WorkInv
  <2>2. /\ task'[l].pc = task[l].pc /\ task'[l].request = task[l].request
        /\ task'[l].answer = task[l].answer \/ (task[l].request = w /\ task'[l].answer = answer)
        /\ task[l].pc # "idle" => relay # "none"
    BY <1>5 DEF WorkInv
  <2>3. rtState # "FULFILLING" /\ relay # "none" => rtState' # "FULFILLING"
    BY <1>3 DEF WorkInv, Onward
  <2>4. CASE task'[l].answer = task[l].answer
    BY <1>3, <2>1, <2>2, <2>3, <2>4 DEF Told
  <2>5. CASE task[l].request = w /\ task'[l].answer = answer
    BY <1>3, <1>4, <1>6, <2>1, <2>2, <2>5 DEF Told
  <2> QED BY <2>2, <2>4, <2>5
<1>8. AckedWorkIsUnderway'
  BY <1>3, <1>5 DEF WorkInv, AckedWorkIsUnderway, Onward
<1> QED BY <1>3, <1>5, <1>7, <1>8 DEF WorkInv, Onward

(* The notifications: acknowledged with a delivery task at work.           *)
LEMMA NoticeKeepsWork ==
    ASSUME ExecInv, WorkInv, NEW n \in Notices,
           NoticeRead(n) \/ NoticeFails(n) \/ NoticeAccepted(n)
    PROVE  WorkInv'
<1>1. /\ task \in [Tasks -> TaskRecord] /\ Loops \cup Notices \subseteq Tasks
      /\ n \in Tasks /\ n \notin Loops
  BY TaskTypes
<1>2. /\ UNCHANGED <<rtState, deadlinePassed, evidence>>
      /\ relay # "none" /\ relay' # "none"
  BY DEF NoticeRead, NoticeFails, NoticeAccepted, WorkInv
<1>3. CASE NoticeRead(n) \/ NoticeFails(n)
  <2>1. UNCHANGED <<delivering, relay>> /\ \A l \in Loops : task'[l] = task[l]
    BY <1>1, <1>3, OneTaskMoves DEF NoticeRead, NoticeFails
  <2>2. \A l \in Loops : Told(l)'
    BY <1>2, <2>1 DEF WorkInv, Told
  <2>3. AckedWorkIsUnderway'
    BY <1>2, <2>1 DEF WorkInv, AckedWorkIsUnderway
  <2> QED BY <1>2, <2>1, <2>2, <2>3 DEF WorkInv
<1>4. CASE NoticeAccepted(n)
  <2>1. PICK l \in Loops :
           /\ task'[l].pc # "idle" /\ \A m \in Loops \ {l} : task'[m] = task[m]
           /\ \/ task'[l] = task[l]
              \/ /\ task[l].pc = "idle" /\ task'[l].pc = "start"
                 /\ task'[l].request = task[l].request /\ task'[l].answer = task[l].answer
    <3>1. CASE delivering /\ Goto(n, "idle")
      <4>1. \A m \in Loops : task'[m] = task[m]
        BY <1>1, <3>1, OneTaskMoves
      <4> QED BY <3>1, <4>1 DEF WorkInv
    <3>2. ASSUME NEW l \in Loops, task[l].pc = "idle",
                 task' = [task EXCEPT ![n] = IdleTask, ![l].pc = "start"]
          PROVE  /\ task'[l].pc = "start" /\ \A m \in Loops \ {l} : task'[m] = task[m]
                 /\ task'[l].request = task[l].request /\ task'[l].answer = task[l].answer
      <4>1. /\ task'[l] = [task[l] EXCEPT !.pc = "start"]
            /\ \A m \in Loops \ {l} : task'[m] = task[m]
        BY <1>1, <3>2
      <4> QED BY <1>1, <4>1 DEF TaskRecord
    <3> QED BY <1>4, <3>1, <3>2 DEF NoticeAccepted
  <2>2. \A m \in Loops : Told(m)'
    BY <1>2, <2>1 DEF WorkInv, Told
  <2>3. AckedWorkIsUnderway'
    BY <2>1 DEF AckedWorkIsUnderway
  <2> QED BY <1>2, <2>1, <2>2, <2>3 DEF WorkInv
<1> QED BY <1>3, <1>4

(* A delivery task goes on, or ends when the agreement has left FULFILLING *)
(* or the deadline is over.                                                *)
LEMMA OneLoopKeepsWork ==
    ASSUME ExecInv, WorkInv, NEW l \in Loops, task[l].pc # "idle",
           UNCHANGED <<rtState, relay, deadlinePassed, evidence>>,
           \A t \in Tasks \ {l} : task'[t] = task[t],
           \/ task'[l].pc # "idle" /\ UNCHANGED delivering
           \/ delivering' = FALSE /\ (rtState # "FULFILLING" \/ deadlinePassed),
           Told(l)'
    PROVE  WorkInv'
<1>1. \A t \in (Loops \cup Notices) \ {l} : task'[t] = task[t]
  BY TaskTypes
<1>2. relay # "none"
  BY DEF WorkInv
<1>3. \A m \in Loops : Told(m)'
  BY <1>1 DEF WorkInv, Told
<1>4. delivering' => \E m \in Loops : task'[m].pc # "idle"
  OBVIOUS
<1>5. AckedWorkIsUnderway'
  BY <1>4 DEF AckedWorkIsUnderway
<1> QED BY <1>1, <1>2, <1>3, <1>4, <1>5 DEF WorkInv

LEMMA LoopKeepsWork ==
    ASSUME ExecInv, WorkInv, NEW l \in Loops,
           DeliveryStep(l) \/ DeliveryFails(l) \/ Probe(l)
    PROVE  WorkInv'
<1>1. /\ task \in [Tasks -> TaskRecord] /\ l \in Tasks /\ task[l] \in TaskRecord
  BY TaskTypes
<1>2. /\ UNCHANGED <<rtState, relay, deadlinePassed, evidence>>
      /\ task[l].pc # "idle" /\ Told(l)
  BY DEF DeliveryStep, DeliveryStart, DeliveryEvidence, DeliveryAnswer, DeliveryFails, Probe,
         WorkInv
<1>3. ASSUME NEW pc, Goto(l, pc)
      PROVE  /\ task'[l].pc = pc /\ task'[l].request = NoWrite /\ task'[l].answer = "none"
             /\ \A t \in Tasks \ {l} : task'[t] = task[t]
  <2>1. /\ task'[l] = [IdleTask EXCEPT !.pc = pc]
        /\ \A t \in Tasks \ {l} : task'[t] = task[t]
    BY <1>1, <1>3 DEF Goto
  <2> QED BY <2>1
<1>4. ASSUME NEW pc \in {"start", "probe"}, Goto(l, pc), UNCHANGED delivering
      PROVE  WorkInv'
  <2>1. /\ task'[l].pc = pc /\ task'[l].request = NoWrite /\ task'[l].answer = "none"
        /\ \A t \in Tasks \ {l} : task'[t] = task[t]
    BY <1>3, <1>4
  <2>2. Told(l)' /\ task'[l].pc # "idle"
    BY <2>1 DEF Told
  <2> QED BY <1>2, <1>4, <2>1, <2>2, OneLoopKeepsWork
<1>5. ASSUME Goto(l, "idle"), delivering' = FALSE, rtState # "FULFILLING" \/ deadlinePassed
      PROVE  WorkInv'
  <2>1. /\ task'[l].pc = "idle" /\ task'[l].request = NoWrite /\ task'[l].answer = "none"
        /\ \A t \in Tasks \ {l} : task'[t] = task[t]
    BY <1>3, <1>5
  <2>2. Told(l)'
    BY <2>1 DEF Told
  <2> QED BY <1>2, <1>5, <2>1, <2>2, OneLoopKeepsWork
<1>6. CASE DeliveryStart(l)
  <2>1. CASE Goto(l, "probe")
    BY <1>4, <1>6, <2>1 DEF DeliveryStart
  <2>2. CASE ~Goto(l, "probe")
    <3> DEFINE w == Write(l, "evidence", NoContract, 0)
    <3>1. /\ task[l].pc = "start" /\ UNCHANGED delivering
          /\ task' = [task EXCEPT ![l].pc = "evidence", ![l].request = w,
                                  ![l].revision = rtRevision]
      BY <1>6, <2>2 DEF DeliveryStart
    <3>2. w.kind = "evidence"
      BY DEF Write
    <3> HIDE DEF w
    <3>3. /\ task'[l] = [task[l] EXCEPT !.pc = "evidence", !.request = w,
                                        !.revision = rtRevision]
          /\ \A t \in Tasks \ {l} : task'[t] = task[t]
      BY <1>1, <3>1
    <3>4. /\ task'[l].pc = "evidence" /\ task'[l].request = w
          /\ task'[l].answer = task[l].answer
      BY <1>1, <3>3 DEF TaskRecord
    <3>5. Told(l)'
      BY <1>2, <3>1, <3>2, <3>4 DEF Told
    <3> QED BY <1>2, <3>1, <3>3, <3>4, <3>5, OneLoopKeepsWork
  <2> QED BY <2>1, <2>2
<1>7. CASE DeliveryEvidence(l)
  <2> DEFINE w == Write(l, "delivered", NoContract, task[l].revision)
  <2>1. /\ task[l].pc = "evidence" /\ task[l].answer = "ok" /\ UNCHANGED delivering
        /\ task' = [task EXCEPT ![l].pc = "command", ![l].request = w, ![l].answer = "none"]
    BY <1>7 DEF DeliveryEvidence, Submit
  <2>2. w.kind = "delivered"
    BY DEF Write
  <2> HIDE DEF w
  <2>3. /\ task'[l] = [task[l] EXCEPT !.pc = "command", !.request = w, !.answer = "none"]
        /\ \A t \in Tasks \ {l} : task'[t] = task[t]
    BY <1>1, <2>1
  <2>4. task'[l].pc = "command" /\ task'[l].request = w /\ task'[l].answer = "none"
    BY <1>1, <2>3 DEF TaskRecord
  <2>5. Told(l)'
    BY <1>2, <2>1, <2>2, <2>4 DEF Told
  <2> QED BY <1>2, <2>1, <2>3, <2>4, <2>5, OneLoopKeepsWork
<1>8. CASE DeliveryAnswer(l)
  BY <1>2, <1>4, <1>5, <1>8 DEF DeliveryAnswer, Told
<1>9. CASE DeliveryFails(l)
  BY <1>4, <1>9 DEF DeliveryFails, CallRaises
<1>10. CASE Probe(l)
  BY <1>4, <1>5, <1>10 DEF Probe
<1> QED BY <1>6, <1>7, <1>8, <1>9, <1>10 DEF DeliveryStep

LEMMA WorkInvInit == Init => WorkInv
<1> SUFFICES ASSUME Init PROVE WorkInv
  OBVIOUS
<1>1. \A t \in Loops \cup Notices : task[t] = IdleTask
  BY DEF Init, Tasks
<1>2. \A t \in Loops \cup Notices :
         task[t].pc = "idle" /\ task[t].request = NoWrite /\ task[t].answer = "none"
  BY <1>1
<1>3. relay = "none" /\ delivering = FALSE
  BY DEF Init
<1> QED BY <1>2, <1>3 DEF WorkInv, Told, AckedWorkIsUnderway

LEMMA WorkInvStays == ExecInv /\ WorkInv /\ [Next]_vars => WorkInv'
<1> SUFFICES ASSUME ExecInv, WorkInv, [Next]_vars PROVE WorkInv'
  OBVIOUS
<1>1. CASE \E t \in Loops \cup Requests : DeliveryStep(t) \/ DeliveryFails(t)
  BY <1>1, OthersKeepWork, LoopKeepsWork, Zenon
<1>2. CASE UNCHANGED vars
  BY <1>2, OthersKeepWork, Zenon
<1> QED BY <1>1, <1>2, OthersKeepWork, NoticeKeepsWork, LoopKeepsWork, RuntimeKeepsWork, Zenon
        DEF Next

(* While the agreement waits for the work that was acknowledged, and its   *)
(* deadline is not over, a background task is at it, whatever failed or    *)
(* was refused and whatever the buyer requested beside it.                 *)
THEOREM ExecutorAckedWork == Spec => []AckedWorkIsUnderway
<1>1. Spec => []WorkInv
  BY WorkInvInit, WorkInvStays, AlwaysExec, PTL DEF Spec
<1>2. WorkInv => AckedWorkIsUnderway
  BY DEF WorkInv
<1> QED BY <1>1, <1>2, PTL
=============================================================================
