------------------------- MODULE LiveDeliveryProofs -------------------------
(***************************************************************************)
(* Proofs about the delivery tasks, the watch of the outcome and the       *)
(* artifact of LiveSeller, for any number of tasks and failures.           *)
(***************************************************************************)
EXTENDS LiveSellerProofs

(* At most one delivery task runs, and delivering says that one does. *)
Running(l) == task[l].pc # "idle"

OneDelivery ==
    /\ \A l \in Loops : Running(l) => delivering
    /\ \A l, m \in Loops : Running(l) /\ Running(m) => l = m

(* A delivery task that awaits no write has none, and no answer to one. *)
NothingPending ==
    \A l \in Loops : task[l].pc \notin {"evidence", "command"} =>
        task[l].request = NoWrite /\ task[l].answer = NoAnswer

(* A record that is gone left nothing behind. *)
NoRecordIsEmpty == ~Registered => deal = NoDeal

(* The artifact of the record is that of the one delivery task: while it   *)
(* generates, the record has its own number or no artifact yet; while it   *)
(* awaits the evidence id, the record has the artifact the evidence names, *)
(* or was inserted since; and the id it is answered is that evidence.      *)
Holding(l) ==
    /\ task[l].pc = "generate" => deal.artifact = 0 \/ deal.order = task[l].order
    /\ task[l].pc = "evidence" =>
          /\ task[l].request.kind = "evidence"
          /\ deal.artifact \in {0, task[l].request.artifact}
          /\ task[l].answer.kind = "ok" =>
                /\ task[l].answer.evidence \in 1..Len(evidence)
                /\ evidence[task[l].answer.evidence] = task[l].request.artifact

ArtifactIsHeld == \A l \in Loops : Holding(l)

(* The watcher is off, sleeps or awaits a status; a terminal status it was *)
(* answered is still the agreement's, however old the answer.              *)
WatcherSees ==
    /\ task[Watcher].pc \in {"off", "poll", "read"}
    /\ task[Watcher].pc = "read" /\ task[Watcher].seen.state \in TerminalStates =>
          rtState = task[Watcher].seen.state /\ sellerBps = task[Watcher].seen.sellerBps

(* The inductive invariant. *)
DeliveryInv ==
    /\ TypeOK
    /\ OneDelivery /\ NothingPending /\ NoRecordIsEmpty /\ ArtifactIsHeld
    /\ DeliveredCitesItsEvidence
    /\ WatcherSees /\ CapabilityIsWatched

-----------------------------------------------------------------------------
(* Types. *)
TasksTyped == task \in [Tasks -> TaskRecord]

LEMMA KindsOfTasks ==
    /\ Countersigns \subseteq Tasks /\ Fundings \subseteq Tasks /\ Notices \subseteq Tasks
    /\ Loops \subseteq Tasks /\ Responses \subseteq Tasks /\ Viewers \subseteq Tasks
    /\ Watcher \in Tasks
  BY DEF Tasks

LEMMA GotoTypes ==
    ASSUME TypeOK, NEW t \in Tasks, NEW pc \in PCs, Goto(t, pc)
    PROVE  TasksTyped'
<1>1. [IdleTask EXCEPT !.pc = pc] \in TaskRecord
  BY DEF IdleTask, TaskRecord, NoWrite, Unseen, NoAnswer, Answer, Status
<1> QED BY <1>1 DEF Goto, TypeOK, TasksTyped

LEMMA CurrentIsStatus == TypeOK => CurrentStatus \in Status
  BY DEF TypeOK, CurrentStatus, Status

LEMMA ReadTypes ==
    ASSUME TypeOK, NEW t \in Tasks, NEW pc \in PCs, Read(t, pc)
    PROVE  TasksTyped'
<1>1. task[t] \in TaskRecord /\ CurrentStatus \in Status
  BY CurrentIsStatus DEF TypeOK
<1>2. [task[t] EXCEPT !.pc = pc, !.seen = CurrentStatus] \in TaskRecord
  BY ONLY <1>1, pc \in PCs DEF TaskRecord
<1> QED BY <1>2 DEF Read, TypeOK, TasksTyped

LEMMA SubmissionTypes ==
    ASSUME TypeOK, NEW t \in Tasks, NEW kind \in WriteKinds, NEW artifact \in Nat, NEW ev \in Nat
    PROVE  Submission(t, kind, artifact, ev) \in Write
<1>1. task[t] \in TaskRecord
  BY DEF TypeOK
<1>2. task[t].seen.revision \in Nat
  BY <1>1 DEF TaskRecord, Status
<1> QED BY <1>2 DEF Submission, Write

LEMMA SubmitTypes ==
    ASSUME TypeOK, NEW t \in Tasks, NEW pc \in PCs, NEW w \in Write, Submit(t, pc, w)
    PROVE  writes' \subseteq Write /\ TasksTyped'
<1>1. task[t] \in TaskRecord
  BY DEF TypeOK
<1>2. NoAnswer \in Answer
  BY DEF NoAnswer, Answer, Unseen, Status
<1>3. [task[t] EXCEPT !.pc = pc, !.request = w, !.answer = NoAnswer] \in TaskRecord
  BY ONLY <1>1, <1>2, pc \in PCs, w \in Write DEF TaskRecord
<1> QED BY <1>3 DEF Submit, TypeOK, TasksTyped

LEMMA HandledTypes ==
    ASSUME TypeOK, NEW w \in writes, NEW kind \in {"ok", "refused", "retriable"},
           NEW st \in Status, NEW ev \in Nat, Handled(w, kind, st, ev)
    PROVE  writes' \subseteq Write /\ TasksTyped'
<1>1. w \in Write /\ w.by \in Tasks
  BY DEF TypeOK, Write
<1>2. task[w.by] \in TaskRecord
  BY <1>1 DEF TypeOK
<1>3. [kind |-> kind, status |-> st, evidence |-> ev] \in Answer
  BY DEF Answer
<1>4. [task[w.by] EXCEPT !.answer = [kind |-> kind, status |-> st, evidence |-> ev]]
        \in TaskRecord
  BY ONLY <1>2, <1>3 DEF TaskRecord
<1> QED BY <1>1, <1>4 DEF Handled, TypeOK, TasksTyped

LEMMA ObservedTypes ==
    ASSUME NEW d \in DealRecord, NEW st \in Status
    PROVE  Observed(d, st) \in DealRecord
<1>1. st.state \in AgreementStates \cup {"UNSEEN"} /\ st.revision \in Nat
  BY DEF Status
<1> QED BY ONLY <1>1, d \in DealRecord DEF DealRecord, Observed

LEMMA NoDealIsRecord == NoDeal \in DealRecord
  BY DEF DealRecord, NoDeal

LEMMA StatusAfterTypes ==
    ASSUME TypeOK, NEW s \in AgreementStates
    PROVE  StatusAfter(s) \in Status
<1> DEFINE st == CurrentStatus
           n == st.revision + 1
<1>1. st \in Status
  BY CurrentIsStatus
<1>2. n \in Nat
  BY <1>1 DEF Status
<1> HIDE DEF st, n
<1>3. [st EXCEPT !.state = s] \in Status
  BY <1>1 DEF Status
<1>4. \A x \in Status : [x EXCEPT !.revision = n] \in Status
  BY <1>2 DEF Status
<1>5. [st EXCEPT !.state = s, !.revision = n] \in Status
  BY <1>3, <1>4, Zenon
<1> QED BY <1>5 DEF StatusAfter, st, n

LEMMA UnseenIsStatus == Unseen \in Status
  BY DEF Unseen, Status

LEMMA FaultTypes ==
    ASSUME TypeOK, Fault
    PROVE  faults' \in 0..MaxFaults
  BY LiveConstants DEF TypeOK, Fault

LEMMA TaskTypes ==
    ASSUME TypeOK, NEW t \in Tasks
    PROVE  /\ task[t].seen \in Status /\ task[t].order \in Nat
           /\ task[t].request \in Write \cup {NoWrite}
           /\ task[t].answer.status \in Status /\ task[t].answer.evidence \in Nat
<1>1. task[t] \in TaskRecord
  BY DEF TypeOK
<1> QED BY ONLY <1>1 DEF TaskRecord, Answer

(* A call that fails gives up its request, or leaves it on the wire. *)
LEMMA FailureTypes ==
    ASSUME TypeOK, NEW t \in Tasks, NEW pc \in PCs, TransportFails(t, pc)
    PROVE  /\ faults' \in 0..MaxFaults
           /\ writes' \subseteq Write
           /\ TasksTyped'
<1>1. Fault /\ Goto(t, pc) /\ writes' \subseteq writes
  BY DEF TransportFails
<1> QED BY <1>1, FaultTypes, GotoTypes DEF TypeOK

(* The record a countersign() leaves: the one it found or a new one. *)
LEMMA RegisterTypes ==
    ASSUME TypeOK, NEW c \in Tasks, NEW valid \in BOOLEAN, RegisterAndAccept(c, valid)
    PROVE  deal' \in DealRecord /\ inserted' \in Nat
<1>1. PICK d \in Pruned :
         LET new == d = NoDeal
             record == IF new THEN [NoDeal EXCEPT !.state = "PROPOSED_LOCAL",
                                                  !.order = inserted + 1]
                       ELSE d
             observed == Observed(record, task[c].seen)
         IN  /\ inserted' = IF new THEN inserted + 1 ELSE inserted
             /\ deal' = IF valid THEN [observed EXCEPT !.state = "ACCEPTED_LOCAL"]
                        ELSE observed
  BY DEF RegisterAndAccept
<1> DEFINE record == IF d = NoDeal THEN [NoDeal EXCEPT !.state = "PROPOSED_LOCAL",
                                                       !.order = inserted + 1]
                     ELSE d
           observed == Observed(record, task[c].seen)
<1>2. d \in DealRecord
  BY NoDealIsRecord DEF TypeOK, Pruned
<1>3. record \in DealRecord
  <2> DEFINE n == inserted + 1
  <2>0. n \in Nat
    BY DEF TypeOK
  <2> HIDE DEF n
  <2>1. [NoDeal EXCEPT !.state = "PROPOSED_LOCAL", !.order = n] \in DealRecord
    BY ONLY <2>0, NoDealIsRecord DEF DealRecord
  <2> USE DEF n
  <2> QED BY <1>2, <2>1
<1>4. observed \in DealRecord
  BY <1>3, TaskTypes, ObservedTypes
<1> HIDE DEF observed
<1>5. [observed EXCEPT !.state = "ACCEPTED_LOCAL"] \in DealRecord
  BY ONLY <1>4 DEF DealRecord
<1>6. deal' \in {observed, [observed EXCEPT !.state = "ACCEPTED_LOCAL"]}
  BY <1>1 DEF observed
<1> QED BY <1>1, <1>4, <1>5, <1>6 DEF TypeOK

-----------------------------------------------------------------------------
LEMMA BeginTypes ==
    ASSUME TypeOK, NEW l \in Loops, BeginPreparation(l)
    PROVE  TasksTyped'
<1>1. CASE Goto(l, "probe")
  BY <1>1, GotoTypes, KindsOfTasks DEF PCs
<1>2. CASE task' = [task EXCEPT ![l] = [@ EXCEPT !.pc = "generate", !.order = deal.order]]
  <2>1. deal.order \in Nat
    BY DEF TypeOK, DealRecord
  <2>2. task \in [Tasks -> TaskRecord] /\ l \in Tasks /\ task[l] \in TaskRecord
    BY KindsOfTasks DEF TypeOK
  <2>3. [task[l] EXCEPT !.pc = "generate", !.order = deal.order] \in TaskRecord
    BY ONLY <2>1, <2>2 DEF TaskRecord, PCs
  <2> QED BY ONLY <1>2, <2>2, <2>3 DEF TasksTyped
<1> QED BY <1>1, <1>2 DEF BeginPreparation

LEMMA WatchTypes ==
    ASSUME NEW tasks \in [Tasks -> TaskRecord]
    PROVE  WatchOutcome(tasks) \in [Tasks -> TaskRecord]
<1>1. tasks[Watcher] \in TaskRecord
  BY KindsOfTasks
<1>2. [tasks[Watcher] EXCEPT !.pc = "poll"] \in TaskRecord
  BY <1>1 DEF TaskRecord, PCs
<1> QED BY <1>2 DEF WatchOutcome

(* The flags, and the rest. *)
Flags ==
    /\ quoted \in BOOLEAN /\ dealTerms \in BOOLEAN /\ delivering \in BOOLEAN
    /\ bound \in BOOLEAN /\ deadlinePassed \in BOOLEAN

Kinds ==
    /\ rtState \in AgreementStates /\ rtRevision \in Nat
    /\ sellerBps \in {0, 10000} /\ signed \subseteq {"buyer", "seller"}
    /\ evidence \in Seq(Nat) /\ delivered \in Nat
    /\ relay \in {"none", "pending", "acked"}
    /\ writes \subseteq Write /\ faults \in 0..MaxFaults
    /\ deal \in DealRecord /\ inserted \in Nat /\ minted \in Nat
    /\ TasksTyped

LEMMA TypesSplit == TypeOK <=> Flags /\ Kinds
  BY DEF TypeOK, Flags, Kinds, TasksTyped

(* Every step sets a flag to TRUE or FALSE or leaves it. *)
LEMMA FlagsStay == Flags /\ [Next]_vars => Flags'
<1> SUFFICES ASSUME Flags, [Next]_vars PROVE Flags'
  OBVIOUS
<1> USE DEF Flags, rtVars, storeVars
<1>1. ASSUME NEW c \in Countersigns, NEW valid \in BOOLEAN,
             \/ CountersignRead(c) \/ CountersignCardFails(c) \/ CountersignUnquoted(c)
             \/ CountersignAccept(c, valid) \/ CountersignAnswer(c) \/ CountersignFails(c)
      PROVE  Flags'
  BY <1>1, Zenon DEF CountersignRead, CountersignCardFails, CountersignUnquoted,
                     CountersignAccept, CountersignAnswer, CountersignFails
<1>2. ASSUME NEW f \in Fundings,
             FundingRead(f) \/ FundingSign(f) \/ FundingAnswer(f) \/ FundingFails(f)
      PROVE  Flags'
  BY <1>2, Zenon DEF FundingRead, FundingSign, FundingAnswer, FundingFails
<1>3. ASSUME NEW n \in Notices, NoticeRead(n) \/ NoticeRefused(n) \/ NoticeAccepted(n)
      PROVE  Flags'
  BY <1>3, Zenon DEF NoticeRead, NoticeRefused, NoticeAccepted
<1>4. ASSUME NEW l \in Loops, LoopStep(l) \/ DeliveryFails(l) \/ ProbeFails(l)
      PROVE  Flags'
  <2>1. CASE \/ DeliveryRead(l) \/ DeliveryObserve(l) \/ DeliveryDomain(l)
             \/ DeliveryPrepared(l) \/ DeliveryEvidence(l)
    BY <2>1, Zenon DEF DeliveryRead, DeliveryObserve, DeliveryDomain, DeliveryPrepared,
                       DeliveryEvidence
  <2>2. CASE DeliveryAnswer(l) \/ ProbeRead(l) \/ ProbeApply(l)
    BY <2>2, Zenon DEF DeliveryAnswer, ProbeRead, ProbeApply
  <2>3. CASE DeliveryFails(l) \/ ProbeFails(l)
    BY <2>3, Zenon DEF DeliveryFails, ProbeFails
  <2> QED BY <1>4, <2>1, <2>2, <2>3, Zenon DEF LoopStep
<1>5. ASSUME NEW v \in Viewers \cup {Watcher}, RefreshRead(v) \/ RefreshApply(v)
      PROVE  Flags'
  BY <1>5, Zenon DEF RefreshRead, RefreshApply
<1>6. ASSUME NEW r \in Responses, NEW kind \in {"appealed", "refund_consented"},
             \/ ResponseRead(r) \/ ResponseAnswer(r) \/ ResponseFails(r)
             \/ ResponseSubmit(r, kind)
      PROVE  Flags'
  BY <1>6, Zenon DEF ResponseRead, ResponseAnswer, ResponseFails, ResponseSubmit
<1>7. CASE Reclaim \/ EvictQuote \/ BindingLapses \/ BindingRestored
  BY <1>7, Zenon DEF Reclaim, EvictQuote, BindingLapses, BindingRestored
<1>8. CASE RuntimeStep
  BY <1>8, Zenon DEF RuntimeStep, RuntimeHandles, HandleAcceptance, HandleFundingSignatures,
                     HandleEvidence, HandleDelivered, HandleResponse, SellerUnchanged
<1>9. CASE OutsideStep
  <2>1. CASE BuyerFunds \/ ConfirmFund \/ DeadlinePasses \/ DeliveryMissed
    BY <2>1, Zenon DEF BuyerFunds, ConfirmFund, DeadlinePasses, DeliveryMissed, Outside,
                       SellerUnchanged
  <2>2. OtherPartyMoves \/ (\E bps \in {0, 10000} : ArbiterDecides(bps))
           => UNCHANGED <<quoted, dealTerms, delivering, bound, deadlinePassed>>
    BY DEF OtherPartyMoves, ArbiterDecides, Outside, SellerUnchanged
  <2>3. CASE UNCHANGED <<quoted, dealTerms, delivering, bound, deadlinePassed>>
    BY <2>3, Zenon
  <2> HIDE DEF Flags
  <2> QED BY <1>9, <2>1, <2>2, <2>3 DEF OutsideStep
<1>10. CASE UNCHANGED vars
  BY <1>10, Zenon DEF vars
<1> HIDE DEF Flags
<1>11. CASE SellerStep
  BY <1>11, <1>1, <1>2, <1>3, <1>4, <1>5, <1>6, <1>7, Zenon DEF SellerStep
<1> QED BY <1>8, <1>9, <1>10, <1>11, NextCases, Zenon

(* Every step keeps the types. *)
LEMMA KindsStay == TypeOK /\ [Next]_vars => Kinds'
<1> SUFFICES ASSUME TypeOK, [Next]_vars PROVE Kinds'
  OBVIOUS
<1> USE KindsOfTasks DEF rtVars, storeVars
<1> Kinds
  BY TypesSplit
<1>1. ASSUME NEW c \in Countersigns,
             \/ CountersignRead(c) \/ CountersignCardFails(c) \/ CountersignUnquoted(c)
      PROVE  Kinds'
  <2>1. CASE CountersignRead(c)
    BY <2>1, ReadTypes DEF CountersignRead, Kinds, PCs
  <2>2. CASE CountersignCardFails(c)
    BY <2>2, GotoTypes, FaultTypes DEF CountersignCardFails, Kinds, PCs
  <2>3. CASE CountersignUnquoted(c)
    BY <2>3, GotoTypes, NoDealIsRecord DEF CountersignUnquoted, Kinds, Pruned, PCs
  <2> QED BY <1>1, <2>1, <2>2, <2>3
<1>2. ASSUME NEW c \in Countersigns, NEW valid \in BOOLEAN, CountersignAccept(c, valid)
      PROVE  Kinds'
  <2>1. deal' \in DealRecord /\ inserted' \in Nat
    BY <1>2, RegisterTypes DEF CountersignAccept
  <2>2. writes' \subseteq Write /\ TasksTyped'
    <3>1. Submission(c, "acceptance", 0, 0) \in Write
      BY SubmissionTypes DEF WriteKinds
    <3> QED BY <1>2, <3>1, SubmitTypes, GotoTypes DEF CountersignAccept, PCs, Kinds
  <2> QED BY <1>2, <2>1, <2>2 DEF CountersignAccept, Kinds
<1>3. ASSUME NEW c \in Countersigns, CountersignAnswer(c) \/ CountersignFails(c)
      PROVE  Kinds'
  <2>1. CASE CountersignAnswer(c)
    BY <2>1, GotoTypes, TaskTypes, ObservedTypes DEF CountersignAnswer, Kinds, PCs
  <2>2. CASE CountersignFails(c)
    BY <2>2, FailureTypes DEF CountersignFails, Kinds, PCs
  <2> QED BY <1>3, <2>1, <2>2
<1>4. ASSUME NEW f \in Fundings,
             FundingRead(f) \/ FundingSign(f) \/ FundingAnswer(f) \/ FundingFails(f)
      PROVE  Kinds'
  <2>1. Submission(f, "funding-signatures", 0, 0) \in Write
    BY SubmissionTypes DEF WriteKinds
  <2>2. CASE FundingRead(f)
    BY <2>2, ReadTypes DEF FundingRead, Kinds, PCs
  <2>3. CASE FundingSign(f)
    BY <2>1, <2>3, GotoTypes, SubmitTypes DEF FundingSign, Kinds, PCs
  <2>4. CASE FundingAnswer(f)
    BY <2>4, GotoTypes, TaskTypes, ObservedTypes DEF FundingAnswer, Kinds, PCs
  <2>5. CASE FundingFails(f)
    BY <2>5, FailureTypes DEF FundingFails, Kinds, PCs
  <2> QED BY <1>4, <2>2, <2>3, <2>4, <2>5
<1>5. ASSUME NEW n \in Notices, NoticeRead(n) \/ NoticeRefused(n)
      PROVE  Kinds'
  <2>1. CASE NoticeRead(n)
    BY <2>1, ReadTypes DEF NoticeRead, Kinds, PCs
  <2>2. CASE NoticeRefused(n)
    BY <2>2, GotoTypes DEF NoticeRefused, Kinds, PCs
  <2> QED BY <1>5, <2>1, <2>2
<1>6. ASSUME NEW n \in Notices, NoticeAccepted(n)
      PROVE  Kinds'
  <2>1. deal' \in DealRecord
    BY <1>6, TaskTypes, ObservedTypes DEF NoticeAccepted, Kinds
  <2>2. faults' \in 0..MaxFaults /\ relay' \in {"none", "pending", "acked"}
    BY <1>6, FaultTypes DEF NoticeAccepted, Acknowledge, Kinds
  <2>3. TasksTyped'
    <3>1. CASE Goto(n, "idle")
      BY <3>1, GotoTypes DEF PCs
    <3>2. ASSUME NEW l \in Loops, task' = [task EXCEPT ![n] = IdleTask, ![l].pc = "start"]
          PROVE  TasksTyped'
      <4>1. IdleTask \in TaskRecord
        BY DEF IdleTask, TaskRecord, PCs, NoWrite, Unseen, NoAnswer, Answer, Status
      <4>2. \A r \in TaskRecord : [r EXCEPT !.pc = "start"] \in TaskRecord
        BY DEF TaskRecord, PCs
      <4> QED BY <3>2, <4>1, <4>2 DEF Kinds, TasksTyped
    <3> QED BY <1>6, <3>1, <3>2 DEF NoticeAccepted
  <2> QED BY <1>6, <2>1, <2>2, <2>3 DEF NoticeAccepted, Kinds
<1>7. ASSUME NEW l \in Loops, DeliveryRead(l) \/ ProbeRead(l) \/ DeliveryFails(l)
      PROVE  Kinds'
  <2>1. CASE DeliveryRead(l)
    BY <2>1, ReadTypes, GotoTypes DEF DeliveryRead, Kinds, PCs
  <2>2. CASE ProbeRead(l)
    BY <2>2, ReadTypes DEF ProbeRead, Kinds, PCs
  <2>3. CASE DeliveryFails(l)
    BY <2>3, FailureTypes DEF DeliveryFails, Kinds, PCs
  <2> QED BY <1>7, <2>1, <2>2, <2>3
<1>8. ASSUME NEW l \in Loops, DeliveryObserve(l) \/ DeliveryDomain(l)
      PROVE  Kinds'
  <2>1. deal' \in DealRecord
    BY <1>8, TaskTypes, ObservedTypes DEF DeliveryObserve, DeliveryDomain, Kinds, storeVars
  <2>2. TasksTyped'
    <3>1. CASE Goto(l, "probe")
      BY <3>1, GotoTypes DEF PCs
    <3>2. CASE BeginPreparation(l)
      BY <3>2, BeginTypes
    <3>3. CASE task' = [task EXCEPT ![l] = [@ EXCEPT !.pc = "domain"]]
      <4>1. task[l] \in TaskRecord
        BY DEF Kinds, TasksTyped
      <4>2. [task[l] EXCEPT !.pc = "domain"] \in TaskRecord
        BY ONLY <4>1 DEF TaskRecord, PCs
      <4> QED BY <3>3, <4>2 DEF Kinds, TasksTyped
    <3> QED BY <1>8, <3>1, <3>2, <3>3 DEF DeliveryObserve, DeliveryDomain
  <2> QED BY <1>8, <2>1, <2>2 DEF DeliveryObserve, DeliveryDomain, Kinds, rtVars, storeVars
<1>9. ASSUME NEW l \in Loops, DeliveryPrepared(l)
      PROVE  Kinds'
  <2> DEFINE m == minted + 1
             w == Submission(l, "evidence", m, 0)
  <2>1. m \in Nat /\ minted' = m
    BY <1>9 DEF DeliveryPrepared, Kinds
  <2>2. w \in Write
    BY <2>1, SubmissionTypes DEF WriteKinds
  <2> HIDE DEF w
  <2>3. deal' \in DealRecord
    <3> HIDE DEF m
    <3>1. deal' = deal \/ deal' = [deal EXCEPT !.artifact = m, !.state = "DELIVERED_LOCAL"]
      BY <1>9 DEF DeliveryPrepared, m
    <3>2. deal \in DealRecord
      BY DEF Kinds
    <3> QED BY ONLY <2>1, <3>1, <3>2 DEF DealRecord
  <2>4. writes' \subseteq Write
    BY <1>9, <2>2 DEF DeliveryPrepared, Kinds, w
  <2>5. TasksTyped'
    <3>1. CASE Goto(l, "probe")
      BY <3>1, GotoTypes DEF PCs
    <3>2. CASE task' = WatchOutcome([task EXCEPT ![l] = [@ EXCEPT !.pc = "evidence",
                                                                  !.request = w]])
      <4>1. task[l] \in TaskRecord
        BY DEF Kinds, TasksTyped
      <4>2. [task[l] EXCEPT !.pc = "evidence", !.request = w] \in TaskRecord
        BY ONLY <4>1, <2>2 DEF TaskRecord, PCs
      <4>3. [task EXCEPT ![l] = [@ EXCEPT !.pc = "evidence", !.request = w]]
              \in [Tasks -> TaskRecord]
        BY <4>2 DEF Kinds, TasksTyped
      <4> QED BY <3>2, <4>3, WatchTypes DEF TasksTyped
    <3> QED BY <1>9, <3>1, <3>2 DEF DeliveryPrepared, w
  <2> QED BY <1>9, <2>1, <2>3, <2>4, <2>5 DEF DeliveryPrepared, Kinds
<1>10. ASSUME NEW l \in Loops, DeliveryEvidence(l)
       PROVE  Kinds'
  <2>1. Submission(l, "delivered", deal.artifact, task[l].answer.evidence) \in Write
    <3>1. deal.artifact \in Nat
      BY DEF Kinds, DealRecord
    <3> QED BY <3>1, SubmissionTypes, TaskTypes DEF WriteKinds
  <2>2. writes' \subseteq Write /\ TasksTyped'
    BY <1>10, <2>1, GotoTypes, SubmitTypes DEF DeliveryEvidence, PCs, Kinds
  <2> QED BY <1>10, <2>2 DEF DeliveryEvidence, Kinds
<1>11. ASSUME NEW l \in Loops, DeliveryAnswer(l) \/ ProbeApply(l) \/ ProbeFails(l)
       PROVE  Kinds'
  <2>1. deal' \in DealRecord /\ faults' \in 0..MaxFaults
    BY <1>11, TaskTypes, ObservedTypes, FaultTypes
       DEF DeliveryAnswer, ProbeApply, ProbeFails, Kinds
  <2>2. TasksTyped'
    BY <1>11, GotoTypes DEF DeliveryAnswer, ProbeApply, ProbeFails, PCs, Kinds
  <2>3. CASE DeliveryAnswer(l)
    BY <2>1, <2>2, <2>3 DEF DeliveryAnswer, Kinds
  <2>4. CASE ProbeApply(l)
    BY <2>1, <2>2, <2>4 DEF ProbeApply, Kinds
  <2>5. CASE ProbeFails(l)
    BY <2>1, <2>2, <2>5 DEF ProbeFails, Kinds
  <2> QED BY <1>11, <2>3, <2>4, <2>5
<1>12. ASSUME NEW v \in Viewers \cup {Watcher}, RefreshRead(v)
       PROVE  Kinds'
  BY <1>12, ReadTypes DEF RefreshRead, PCs, Kinds
<1>13. ASSUME NEW v \in Viewers \cup {Watcher}, RefreshApply(v)
       PROVE  Kinds'
  <2>1. PICK pc \in PCs : Goto(v, pc)
    BY <1>13 DEF RefreshApply, PCs
  <2>2. Observed(deal, task[v].seen) \in DealRecord
    BY TaskTypes, ObservedTypes DEF Kinds
  <2>3. [Observed(deal, task[v].seen) EXCEPT !.revoked = TRUE] \in DealRecord
    BY <2>2 DEF DealRecord
  <2>4. deal' \in DealRecord
    BY <1>13, <2>2, <2>3 DEF RefreshApply, Kinds
  <2> QED BY <1>13, <2>1, <2>4, GotoTypes DEF RefreshApply, Kinds
<1>14. ASSUME NEW r \in Responses, ResponseRead(r) \/ ResponseAnswer(r) \/ ResponseFails(r)
       PROVE  Kinds'
  <2>1. CASE ResponseRead(r)
    BY <2>1, ReadTypes DEF ResponseRead, Kinds, PCs
  <2>2. CASE ResponseAnswer(r)
    BY <2>2, GotoTypes, TaskTypes, ObservedTypes DEF ResponseAnswer, Kinds, PCs
  <2>3. CASE ResponseFails(r)
    BY <2>3, FailureTypes DEF ResponseFails, Kinds, PCs
  <2> QED BY <1>14, <2>1, <2>2, <2>3
<1>15. ASSUME NEW r \in Responses, NEW kind \in {"appealed", "refund_consented"},
              ResponseSubmit(r, kind)
       PROVE  Kinds'
  <2>1. Submission(r, kind, 0, 0) \in Write
    BY SubmissionTypes DEF WriteKinds
  <2> QED BY <1>15, <2>1, GotoTypes, SubmitTypes, TaskTypes, ObservedTypes
          DEF ResponseSubmit, Kinds, PCs
<1>16. CASE Reclaim \/ EvictQuote
  <2>1. CASE Reclaim
    BY <2>1, NoDealIsRecord DEF Reclaim, Kinds, Pruned, TasksTyped
  <2>2. CASE EvictQuote
    BY <2>2 DEF EvictQuote, Kinds, TasksTyped
  <2> QED BY <1>16, <2>1, <2>2
<1>17. CASE BindingLapses \/ BindingRestored
  <2>1. CASE BindingLapses
    BY <2>1, FaultTypes DEF BindingLapses, Kinds, TasksTyped
  <2>2. CASE BindingRestored
    BY <2>2 DEF BindingRestored, Kinds, TasksTyped
  <2> QED BY <1>17, <2>1, <2>2
<1>18. CASE RuntimeStep
  <2> SUFFICES ASSUME NEW w \in writes, RuntimeHandles(w)
               PROVE  Kinds'
    BY <1>18 DEF RuntimeStep
  <2> USE DEF SellerUnchanged, Transition
  <2>1. CASE HandleAcceptance(w)
    BY <2>1, HandledTypes, StatusAfterTypes, UnseenIsStatus
       DEF HandleAcceptance, Kinds, AgreementStates
  <2>2. CASE HandleFundingSignatures(w)
    BY <2>2, HandledTypes, CurrentIsStatus DEF HandleFundingSignatures, Kinds
  <2>3. CASE HandleEvidence(w)
    <3>1. evidence' \in Seq(Nat) /\ Len(evidence) + 1 \in Nat
      BY <2>3 DEF HandleEvidence, Kinds, Write
    <3> QED BY <2>3, <3>1, HandledTypes, CurrentIsStatus DEF HandleEvidence, Kinds
  <2>4. CASE HandleDelivered(w)
    <3>1. w.artifact \in Nat
      BY DEF Kinds, Write
    <3> QED BY <2>4, <3>1, HandledTypes, StatusAfterTypes, UnseenIsStatus
            DEF HandleDelivered, Kinds, AgreementStates
  <2>5. CASE HandleResponse(w)
    BY <2>5, HandledTypes, StatusAfterTypes, UnseenIsStatus
       DEF HandleResponse, Kinds, AgreementStates
  <2> QED BY <2>1, <2>2, <2>3, <2>4, <2>5 DEF RuntimeHandles
<1>19. CASE OutsideStep
  <2>2. rtState' \in AgreementStates /\ rtRevision' \in Nat
    BY <1>19, OutsideFollowsEdges DEF Kinds, Edges, AgreementStates
  <2>3. UNCHANGED <<writes, faults, deal, inserted, minted, task>>
    BY <1>19 DEF OutsideStep, BuyerFunds, ConfirmFund, DeadlinePasses, DeliveryMissed,
                 OtherPartyMoves, ArbiterDecides, Outside, SellerUnchanged
  <2>4. /\ sellerBps' \in {0, 10000} /\ signed' \subseteq {"buyer", "seller"}
        /\ relay' \in {"none", "pending", "acked"}
        /\ UNCHANGED <<evidence, delivered>>
    <3> USE DEF Kinds
    <3> DEFINE Goal == /\ sellerBps' \in {0, 10000} /\ signed' \subseteq {"buyer", "seller"}
                       /\ relay' \in {"none", "pending", "acked"}
                       /\ UNCHANGED <<evidence, delivered>>
    <3>1. BuyerFunds => Goal
      BY DEF BuyerFunds
    <3>2. ConfirmFund => Goal
      BY DEF ConfirmFund
    <3>3. DeadlinePasses \/ DeliveryMissed \/ OtherPartyMoves => Goal
      <4> SUFFICES ASSUME DeadlinePasses \/ DeliveryMissed \/ OtherPartyMoves
                   PROVE  Goal
        OBVIOUS
      <4>1. UNCHANGED <<sellerBps, signed, relay, evidence, delivered>>
        BY DEF DeadlinePasses, DeliveryMissed, OtherPartyMoves
      <4> QED BY ONLY <4>1, Kinds
    <3>4. ASSUME NEW bps \in {0, 10000}, ArbiterDecides(bps)
          PROVE  Goal
      BY <3>4 DEF ArbiterDecides
    <3> HIDE DEF Goal
    <3>5. Goal
      BY <1>19, <3>1, <3>2, <3>3, <3>4 DEF OutsideStep
    <3> QED BY <3>5 DEF Goal
  <2>5. TasksTyped'
    BY <2>3 DEF Kinds, TasksTyped
  <2> QED BY <2>2, <2>3, <2>4, <2>5 DEF Kinds
<1>20. CASE UNCHANGED vars
  BY <1>20 DEF vars, Kinds, TasksTyped
<1>21. ASSUME NEW l \in Loops, LoopStep(l)
       PROVE  Kinds'
  BY <1>21, <1>7, <1>8, <1>9, <1>10, <1>11 DEF LoopStep
<1>22. CASE SellerStep
  BY <1>22, <1>1, <1>2, <1>3, <1>4, <1>5, <1>6, <1>7, <1>11, <1>12, <1>13, <1>14, <1>15,
     <1>16, <1>17, <1>21, Zenon DEF SellerStep
<1> QED BY <1>18, <1>19, <1>20, <1>22, NextCases

LEMMA TypesKeep == TypeOK /\ [Next]_vars => TypeOK'
<1>1. (TypeOK <=> Flags /\ Kinds)'
  BY TypesSplit, PTL
<1> QED BY <1>1, TypesSplit, FlagsStay, KindsStay

LEMMA TypesInit == Init => TypeOK
<1> SUFFICES ASSUME Init PROVE TypeOK
  OBVIOUS
<1>1. IdleTask \in TaskRecord /\ [IdleTask EXCEPT !.pc = "off"] \in TaskRecord
  BY DEF IdleTask, TaskRecord, PCs, NoWrite, Unseen, NoAnswer, Answer, Status
<1>2. TasksTyped
  BY <1>1 DEF Init, TasksTyped
<1>3. Flags
  <2>1. /\ deadlinePassed = FALSE /\ quoted = TRUE /\ dealTerms = FALSE
        /\ delivering = FALSE /\ bound = TRUE
    BY DEF Init
  <2> QED BY ONLY <2>1, Zenon DEF Flags
<1>4. Kinds
  BY <1>2, LiveConstants, NoDealIsRecord DEF Init, Kinds, AgreementStates
<1> QED BY <1>3, <1>4, TypesSplit

(* Type correctness, whatever is lost, late, repeated or pruned. *)
THEOREM LiveTypes == Spec => []TypeOK
  BY TypesInit, TypesKeep, PTL DEF Spec

-----------------------------------------------------------------------------
(* What moving on, reading and writing do to the tasks. *)
LEMMA GotoFacts ==
    ASSUME TypeOK, NEW t \in Tasks, NEW pc, Goto(t, pc)
    PROVE  /\ task'[t].pc = pc /\ task'[t].request = NoWrite /\ task'[t].answer = NoAnswer
           /\ \A u \in Tasks \ {t} : task'[u] = task[u]
<1>1. task'[t] = [IdleTask EXCEPT !.pc = pc]
  BY DEF Goto, TypeOK
<1> QED BY <1>1 DEF Goto, IdleTask, TypeOK

LEMMA ReadFacts ==
    ASSUME TypeOK, NEW t \in Tasks, NEW pc, Read(t, pc)
    PROVE  /\ task'[t].pc = pc /\ task'[t].seen = CurrentStatus
           /\ task'[t].request = task[t].request /\ task'[t].answer = task[t].answer
           /\ \A u \in Tasks \ {t} : task'[u] = task[u]
<1>1. task[t] \in TaskRecord
  BY DEF TypeOK
<1>2. task'[t] = [task[t] EXCEPT !.pc = pc, !.seen = CurrentStatus]
  BY DEF Read, TypeOK
<1>3. \A u \in Tasks \ {t} : task'[u] = task[u]
  BY DEF Read, TypeOK
<1> QED BY <1>1, <1>2, <1>3 DEF TaskRecord

LEMMA SubmitFacts ==
    ASSUME TypeOK, NEW t \in Tasks, NEW pc, NEW w, Submit(t, pc, w)
    PROVE  /\ writes' = writes \cup {w}
           /\ task'[t].pc = pc /\ task'[t].request = w /\ task'[t].answer = NoAnswer
           /\ \A u \in Tasks \ {t} : task'[u] = task[u]
<1>1. task[t] \in TaskRecord
  BY DEF TypeOK
<1>2. task'[t] = [task[t] EXCEPT !.pc = pc, !.request = w, !.answer = NoAnswer]
  BY DEF Submit, TypeOK
<1>3. writes' = writes \cup {w} /\ \A u \in Tasks \ {t} : task'[u] = task[u]
  BY DEF Submit, TypeOK
<1> QED BY <1>1, <1>2, <1>3 DEF TaskRecord

LEMMA FailureFacts ==
    ASSUME TypeOK, NEW t \in Tasks, NEW pc, TransportFails(t, pc)
    PROVE  /\ writes' \subseteq writes
           /\ task'[t].pc = pc /\ task'[t].request = NoWrite /\ task'[t].answer = NoAnswer
           /\ \A u \in Tasks \ {t} : task'[u] = task[u]
<1>1. Goto(t, pc) /\ writes' \subseteq writes
  BY DEF TransportFails
<1> QED BY <1>1, GotoFacts

(* Observing a status leaves the artifact and its capability alone. *)
LEMMA ObservedFacts ==
    ASSUME NEW d \in DealRecord, NEW st
    PROVE  /\ Observed(d, st).artifact = d.artifact /\ Observed(d, st).order = d.order
           /\ Observed(d, st).revoked = d.revoked /\ Observed(d, st).state = d.state
  BY DEF DealRecord, Observed

-----------------------------------------------------------------------------
(* Steps that concern neither a delivery task nor the watcher: whatever    *)
(* else they do, the record has lost its artifact or keeps it, no command  *)
(* is sent, evidence stays where it is, and an ended agreement stays so.   *)
RecordStays ==
    /\ ~Registered' => deal' \in {deal, NoDeal}
    /\ \/ deal'.artifact = 0
       \/ /\ deal'.artifact = deal.artifact /\ deal'.order = deal.order
          /\ deal.revoked => deal'.revoked

EvidenceStays ==
    \A i \in 1..Len(evidence) : i \in 1..Len(evidence') /\ evidence'[i] = evidence[i]

EndStays == rtState \in TerminalStates => UNCHANGED <<rtState, sellerBps>>

NothingSent == \A w \in writes' : w.kind = "delivered" => w \in writes

Calm ==
    /\ \A t \in Loops \cup {Watcher} : task'[t] = task[t]
    /\ delivering' = delivering
    /\ RecordStays /\ EvidenceStays /\ EndStays /\ NothingSent

LEMMA EvidenceLength == TypeOK => Len(evidence) \in Nat
  BY DEF TypeOK

LEMMA CommandsStayCited ==
    ASSUME DeliveredCitesItsEvidence, EvidenceStays, NothingSent
    PROVE  DeliveredCitesItsEvidence'
  BY DEF DeliveredCitesItsEvidence, EvidenceStays, NothingSent

LEMMA HoldingStays ==
    ASSUME NEW l \in Loops, Holding(l), RecordStays, EvidenceStays, task'[l] = task[l]
    PROVE  Holding(l)'
  BY DEF Holding, RecordStays, EvidenceStays

LEMMA WatchStays ==
    ASSUME TypeOK, NoRecordIsEmpty, WatcherSees, CapabilityIsWatched, RecordStays, EndStays,
           task'[Watcher].pc = task[Watcher].pc, task'[Watcher].seen = task[Watcher].seen
    PROVE  (NoRecordIsEmpty /\ WatcherSees /\ CapabilityIsWatched)'
<1>1. NoRecordIsEmpty'
  BY DEF NoRecordIsEmpty, RecordStays, Registered, NoDeal
<1>2. WatcherSees'
  BY DEF WatcherSees, EndStays
<1>3. Serving' => Serving
  BY DEF Serving, RecordStays, NoRecordIsEmpty, NoDeal
<1>4. CapabilityIsWatched'
  BY <1>3 DEF CapabilityIsWatched, EndStays, Refunded, CurrentStatus
<1> QED BY <1>1, <1>2, <1>4

LEMMA CalmKeeps ==
    ASSUME DeliveryInv, TypeOK', Calm
    PROVE  DeliveryInv'
<1> USE DEF DeliveryInv, Calm
<1>1. OneDelivery' /\ NothingPending'
  BY DEF OneDelivery, Running, NothingPending
<1>2. ArtifactIsHeld'
  BY HoldingStays DEF ArtifactIsHeld
<1>3. DeliveredCitesItsEvidence'
  BY CommandsStayCited
<1> QED BY <1>1, <1>2, <1>3, WatchStays

LEMMA TasksAreApart ==
    \A t \in Countersigns \cup Fundings \cup Notices \cup Responses \cup Viewers :
        t \notin Loops /\ t # Watcher
  BY LiveConstants

(* A record found, registered or pruned. *)
LEMMA RegisteredStays ==
    ASSUME TypeOK, NoRecordIsEmpty, NEW c \in Tasks, NEW valid \in BOOLEAN, RegisterAndAccept(c, valid)
    PROVE  RecordStays
<1>1. PICK d \in Pruned :
         LET new == d = NoDeal
             record == IF new THEN [NoDeal EXCEPT !.state = "PROPOSED_LOCAL",
                                                  !.order = inserted + 1]
                       ELSE d
             observed == Observed(record, task[c].seen)
         IN  deal' = IF valid THEN [observed EXCEPT !.state = "ACCEPTED_LOCAL"]
                     ELSE observed
  BY DEF RegisterAndAccept
<1> DEFINE record == IF d = NoDeal THEN [NoDeal EXCEPT !.state = "PROPOSED_LOCAL",
                                                       !.order = inserted + 1]
                     ELSE d
           observed == Observed(record, task[c].seen)
<1>2. d \in DealRecord /\ d \in {deal, NoDeal}
  BY NoDealIsRecord DEF TypeOK, Pruned
<1>3. record \in DealRecord
  <2> DEFINE n == inserted + 1
  <2>1. n \in Nat
    BY DEF TypeOK
  <2> HIDE DEF n
  <2>2. [NoDeal EXCEPT !.state = "PROPOSED_LOCAL", !.order = n] \in DealRecord
    BY ONLY <2>1, NoDealIsRecord DEF DealRecord
  <2> USE DEF n
  <2> QED BY <1>2, <2>2
<1>4. /\ record.state # "NONE"
      /\ record = deal \/ record.artifact = 0
  <2>1. CASE d = NoDeal
    BY <2>1 DEF NoDeal
  <2>2. CASE d # NoDeal
    BY <1>2, <2>2 DEF NoRecordIsEmpty, Registered
  <2> QED BY <2>1, <2>2
<1> HIDE DEF record
<1>5. /\ observed.artifact = record.artifact /\ observed.order = record.order
      /\ observed.revoked = record.revoked /\ observed.state = record.state
  BY <1>3, ObservedFacts
<1>6. observed \in DealRecord
  BY <1>3, TaskTypes, ObservedTypes
<1> HIDE DEF observed
<1>7. /\ deal'.artifact = observed.artifact /\ deal'.order = observed.order
      /\ deal'.revoked = observed.revoked
      /\ deal'.state # "NONE"
  <2>1. CASE deal' = observed
    BY <1>4, <1>5, <2>1
  <2>2. CASE deal' = [observed EXCEPT !.state = "ACCEPTED_LOCAL"]
    BY <1>6, <2>2 DEF DealRecord
  <2> QED BY <1>1, <2>1, <2>2 DEF observed, record
<1> QED BY <1>4, <1>5, <1>7 DEF RecordStays, Registered

(* observeRuntimeStatus() and the like. *)
LEMMA ObservedStays ==
    ASSUME TypeOK, NEW st, deal' = deal \/ (Registered /\ deal' = Observed(deal, st))
    PROVE  RecordStays
<1>1. deal \in DealRecord
  BY DEF TypeOK
<1>2. CASE deal' = deal
  BY <1>2 DEF RecordStays
<1>3. CASE Registered /\ deal' = Observed(deal, st)
  BY <1>1, <1>3, ObservedFacts DEF RecordStays, Registered
<1> QED BY <1>2, <1>3

LEMMA PrunedStays == TypeOK /\ deal' \in Pruned => RecordStays
  BY DEF Pruned, RecordStays, NoDeal

LEMMA EvidenceUnchanged == UNCHANGED evidence => EvidenceStays
  BY DEF EvidenceStays

LEMMA EndUnchanged == UNCHANGED <<rtState, sellerBps>> => EndStays
  BY DEF EndStays

(* The requests of the buyer, the notifications that start nothing, the    *)
(* answers to a rejection and the admin pages are such steps.              *)
LEMMA CountersignIsCalm ==
    ASSUME DeliveryInv, NEW c \in Countersigns, NEW valid \in BOOLEAN,
           \/ CountersignRead(c) \/ CountersignCardFails(c) \/ CountersignUnquoted(c)
           \/ CountersignAccept(c, valid) \/ CountersignAnswer(c) \/ CountersignFails(c)
    PROVE  Calm
<1> USE TasksAreApart, KindsOfTasks, EvidenceUnchanged, EndUnchanged
    DEF DeliveryInv, Calm, NothingSent, rtVars, storeVars
<1>1. CASE CountersignRead(c)
  BY <1>1, ReadFacts, ObservedStays DEF CountersignRead
<1>2. CASE CountersignCardFails(c)
  BY <1>2, GotoFacts, ObservedStays DEF CountersignCardFails
<1>3. CASE CountersignUnquoted(c)
  BY <1>3, GotoFacts, PrunedStays DEF CountersignUnquoted
<1>4. CASE CountersignAccept(c, valid)
  <2>1. RecordStays
    BY <1>4, RegisteredStays DEF CountersignAccept
  <2>2. Submission(c, "acceptance", 0, 0).kind = "acceptance"
    BY DEF Submission
  <2>3. /\ \A t \in Loops \cup {Watcher} : task'[t] = task[t]
        /\ NothingSent
    BY <1>4, <2>2, GotoFacts, SubmitFacts DEF CountersignAccept
  <2>4. UNCHANGED <<delivering, evidence, rtState, sellerBps>>
    BY <1>4 DEF CountersignAccept
  <2> QED BY <2>1, <2>3, <2>4
<1>5. CASE CountersignAnswer(c)
  BY <1>5, GotoFacts, ObservedStays DEF CountersignAnswer
<1>6. CASE CountersignFails(c)
  BY <1>6, FailureFacts, ObservedStays DEF CountersignFails
<1> QED BY <1>1, <1>2, <1>3, <1>4, <1>5, <1>6

LEMMA FundingIsCalm ==
    ASSUME DeliveryInv, NEW f \in Fundings,
           FundingRead(f) \/ FundingSign(f) \/ FundingAnswer(f) \/ FundingFails(f)
    PROVE  Calm
<1> USE TasksAreApart, KindsOfTasks, EvidenceUnchanged, EndUnchanged
    DEF DeliveryInv, Calm, NothingSent, rtVars, storeVars
<1>1. CASE FundingRead(f)
  BY <1>1, ReadFacts, ObservedStays DEF FundingRead
<1>2. CASE FundingSign(f)
  <2>1. Submission(f, "funding-signatures", 0, 0).kind = "funding-signatures"
    BY DEF Submission
  <2> QED BY <1>2, <2>1, GotoFacts, SubmitFacts, ObservedStays DEF FundingSign
<1>3. CASE FundingAnswer(f)
  BY <1>3, GotoFacts, ObservedStays DEF FundingAnswer
<1>4. CASE FundingFails(f)
  BY <1>4, FailureFacts, ObservedStays DEF FundingFails
<1> QED BY <1>1, <1>2, <1>3, <1>4

LEMMA ResponseIsCalm ==
    ASSUME DeliveryInv, NEW r \in Responses, NEW kind \in {"appealed", "refund_consented"},
           \/ ResponseRead(r) \/ ResponseAnswer(r) \/ ResponseFails(r)
           \/ ResponseSubmit(r, kind)
    PROVE  Calm
<1> USE TasksAreApart, KindsOfTasks, EvidenceUnchanged, EndUnchanged
    DEF DeliveryInv, Calm, NothingSent, rtVars, storeVars
<1>1. CASE ResponseRead(r)
  BY <1>1, ReadFacts, ObservedStays DEF ResponseRead
<1>2. CASE ResponseSubmit(r, kind)
  <2>1. Submission(r, kind, 0, 0).kind = kind
    BY DEF Submission
  <2> QED BY <1>2, <2>1, GotoFacts, SubmitFacts, ObservedStays DEF ResponseSubmit
<1>3. CASE ResponseAnswer(r)
  BY <1>3, GotoFacts, ObservedStays DEF ResponseAnswer
<1>4. CASE ResponseFails(r)
  BY <1>4, FailureFacts, ObservedStays DEF ResponseFails
<1> QED BY <1>1, <1>2, <1>3, <1>4

LEMMA NoticeIsCalm ==
    ASSUME DeliveryInv, NEW n \in Notices, NoticeRead(n) \/ NoticeRefused(n)
    PROVE  Calm
<1> USE TasksAreApart, KindsOfTasks, EvidenceUnchanged, EndUnchanged
    DEF DeliveryInv, Calm, NothingSent, rtVars, storeVars
<1>1. CASE NoticeRead(n)
  BY <1>1, ReadFacts, ObservedStays DEF NoticeRead
<1>2. CASE NoticeRefused(n)
  BY <1>2, GotoFacts, ObservedStays DEF NoticeRefused
<1> QED BY <1>1, <1>2

(* A refund that an admin page sees revokes the capability. *)
LEMMA RefreshedStays ==
    ASSUME DeliveryInv, NEW v \in Viewers \cup {Watcher}, RefreshApply(v)
    PROVE  RecordStays
<1> DEFINE observed == Observed(deal, task[v].seen)
<1>1. deal \in DealRecord
  BY DEF DeliveryInv, TypeOK
<1>2. observed \in DealRecord
  BY <1>1, TaskTypes, ObservedTypes, KindsOfTasks DEF DeliveryInv
<1>3. deal' \in {deal, observed, [observed EXCEPT !.revoked = TRUE]} /\ (~Registered => deal' = deal)
  BY DEF RefreshApply
<1>4. CASE deal' = deal \/ (Registered /\ deal' = observed)
  BY <1>4, ObservedStays DEF DeliveryInv
<1>5. CASE Registered /\ deal' = [observed EXCEPT !.revoked = TRUE]
  <2>1. /\ observed.artifact = deal.artifact /\ observed.order = deal.order
        /\ observed.state = deal.state
    BY <1>1, ObservedFacts
  <2> HIDE DEF observed
  <2>2. /\ deal'.artifact = observed.artifact /\ deal'.order = observed.order
        /\ deal'.revoked = TRUE /\ deal'.state = observed.state
    BY <1>2, <1>5 DEF DealRecord
  <2> QED BY <1>5, <2>1, <2>2 DEF RecordStays, Registered
<1> QED BY <1>3, <1>4, <1>5

LEMMA ViewerIsCalm ==
    ASSUME DeliveryInv, NEW v \in Viewers, RefreshRead(v) \/ RefreshApply(v)
    PROVE  Calm
<1> USE TasksAreApart, KindsOfTasks, EvidenceUnchanged, EndUnchanged
    DEF DeliveryInv, Calm, NothingSent, rtVars, storeVars
<1>1. CASE RefreshRead(v)
  BY <1>1, ReadFacts, ObservedStays DEF RefreshRead
<1>2. CASE RefreshApply(v)
  <2>1. RecordStays
    BY <1>2, RefreshedStays
  <2> QED BY <1>2, <2>1, GotoFacts DEF RefreshApply
<1> QED BY <1>1, <1>2

LEMMA EndIsFinal == \A s : <<rtState, s>> \in Edges => rtState \notin TerminalStates
  BY DEF Edges, TerminalStates

(* So are the prunes, the binding and the outside world. *)
LEMMA OutsideIsCalm ==
    ASSUME DeliveryInv,
           \/ Reclaim \/ EvictQuote \/ BindingLapses \/ BindingRestored \/ OutsideStep
           \/ UNCHANGED vars
    PROVE  Calm
<1> USE EvidenceUnchanged, EndUnchanged DEF DeliveryInv, Calm, NothingSent, rtVars, storeVars
<1>1. CASE Reclaim
  BY <1>1, PrunedStays DEF Reclaim
<1>2. CASE EvictQuote \/ BindingLapses \/ BindingRestored
  BY <1>2, ObservedStays DEF EvictQuote, BindingLapses, BindingRestored
<1>3. CASE UNCHANGED vars
  BY <1>3, ObservedStays DEF vars
<1>4. CASE OutsideStep
  <2>1. UNCHANGED <<writes, task, deal, delivering, evidence>>
    BY <1>4 DEF OutsideStep, BuyerFunds, ConfirmFund, DeadlinePasses, DeliveryMissed,
                OtherPartyMoves, ArbiterDecides, Outside, SellerUnchanged
  <2>2. EndStays
    BY <1>4, EndIsFinal DEF OutsideStep, BuyerFunds, ConfirmFund, DeadlinePasses,
                DeliveryMissed, OtherPartyMoves, ArbiterDecides, Transition, EndStays
  <2> QED BY <2>1, <2>2, ObservedStays
<1> QED BY <1>1, <1>2, <1>3, <1>4

-----------------------------------------------------------------------------
(* The step of one delivery task, while all the others rest. *)
Settled(l) ==
    /\ task[l].request = NoWrite
    /\ task[l].answer = NoAnswer

OnlyOne(l) ==
    /\ \A m \in Loops \ {l} : ~Running(m) /\ task'[m] = task[m]
    /\ Running(l)' => delivering'
    /\ task'[l].pc \notin {"evidence", "command"} => Settled(l)'
    /\ Holding(l)'

LEMMA OthersRest ==
    ASSUME DeliveryInv, NEW l \in Loops, Running(l)
    PROVE  delivering /\ \A m \in Loops \ {l} : ~Running(m)
  BY DEF DeliveryInv, OneDelivery

LEMMA OnlyOneKeeps ==
    ASSUME DeliveryInv, NEW l \in Loops, OnlyOne(l)
    PROVE  (OneDelivery /\ NothingPending /\ ArtifactIsHeld)'
<1> USE DEF DeliveryInv, OnlyOne
<1>1. \A m \in Loops \ {l} : task'[m].pc = "idle" /\ task'[m] = task[m]
  BY DEF Running
<1>2. OneDelivery'
  BY <1>1 DEF OneDelivery, Running
<1>3. NothingPending'
  BY <1>1 DEF NothingPending, Settled
<1>4. \A m \in Loops \ {l} : Holding(m)'
  BY <1>1 DEF Holding
<1> QED BY <1>2, <1>3, <1>4 DEF ArtifactIsHeld

(* A step that sends no command, and is not of the watcher. *)
LEMMA DeliveryKeeps ==
    ASSUME DeliveryInv, TypeOK', NEW l \in Loops, OnlyOne(l),
           task'[Watcher] = task[Watcher],
           RecordStays, EvidenceStays, EndStays, NothingSent
    PROVE  DeliveryInv'
  BY OnlyOneKeeps, CommandsStayCited, WatchStays DEF DeliveryInv

(* handleNotification() starts a delivery when none runs. *)
LEMMA NoticeKeeps ==
    ASSUME DeliveryInv, TypeOK', NEW n \in Notices, NoticeAccepted(n)
    PROVE  DeliveryInv'
<1> USE TasksAreApart, KindsOfTasks, EvidenceUnchanged, EndUnchanged
<1>1. /\ RecordStays /\ EvidenceStays /\ EndStays /\ NothingSent
      /\ delivering' = TRUE
  <2>1. UNCHANGED <<writes, evidence, rtState, sellerBps>>
    BY DEF NoticeAccepted
  <2>2. RecordStays
    BY ObservedStays DEF NoticeAccepted, DeliveryInv
  <2>3. delivering' = TRUE
    BY DEF NoticeAccepted
  <2> QED BY <2>1, <2>2, <2>3 DEF NothingSent
<1>2. CASE delivering /\ Goto(n, "idle")
  <2>1. delivering' = delivering
    <3>1. delivering \in BOOLEAN
      BY TypesSplit, Zenon DEF DeliveryInv, Flags
    <3> QED BY <1>1, <1>2, <3>1
  <2>2. \A t \in Loops \cup {Watcher} : task'[t] = task[t]
    BY <1>2, GotoFacts DEF DeliveryInv
  <2> QED BY <1>1, <2>1, <2>2, CalmKeeps DEF Calm
<1>3. ASSUME ~delivering, NEW l \in Loops, task[l].pc = "idle",
             task' = [task EXCEPT ![n] = IdleTask, ![l].pc = "start"]
      PROVE  DeliveryInv'
  <2>1. task[l] \in TaskRecord /\ task \in [Tasks -> TaskRecord]
    BY DEF DeliveryInv, TypeOK
  <2>2. task'[l] = [task[l] EXCEPT !.pc = "start"]
    BY <1>3, <2>1
  <2>3. \A t \in (Loops \cup {Watcher}) \ {l} : task'[t] = task[t]
    BY <1>3, <2>1
  <2>4. /\ task'[l].pc = "start" /\ task'[l].request = task[l].request
        /\ task'[l].answer = task[l].answer
    BY <2>1, <2>2 DEF TaskRecord
  <2>5. \A m \in Loops : ~Running(m)
    BY <1>3 DEF DeliveryInv, OneDelivery
  <2>6. OnlyOne(l)
    BY <1>1, <1>3, <2>3, <2>4, <2>5
       DEF OnlyOne, Settled, Holding, DeliveryInv, NothingPending
  <2>7. task'[Watcher] = task[Watcher]
    BY <2>3, LiveConstants
  <2> QED BY <1>1, <2>6, <2>7, DeliveryKeeps
<1> QED BY <1>2, <1>3 DEF NoticeAccepted

(* Moving on, with the work over or not. *)
LEMMA MovedOn ==
    ASSUME DeliveryInv, TypeOK', NEW l \in Loops, Running(l),
           NEW pc \in {"idle", "start", "probe"},
           Goto(l, pc) \/ TransportFails(l, pc),
           pc = "idle" \/ UNCHANGED delivering,
           writes' \subseteq writes, RecordStays, EvidenceStays, EndStays
    PROVE  DeliveryInv'
<1>1. /\ task'[l].pc = pc /\ task'[l].request = NoWrite /\ task'[l].answer = NoAnswer
      /\ \A t \in Tasks \ {l} : task'[t] = task[t]
  BY GotoFacts, FailureFacts, KindsOfTasks DEF DeliveryInv
<1>2. OnlyOne(l)
  BY <1>1, OthersRest, KindsOfTasks DEF OnlyOne, Settled, Holding, Running
<1>3. NothingSent
  BY DEF NothingSent
<1> QED BY <1>1, <1>2, <1>3, DeliveryKeeps, KindsOfTasks, LiveConstants

(* A status read by the task. *)
LEMMA ReadOn ==
    ASSUME DeliveryInv, TypeOK', NEW l \in Loops, Running(l), Settled(l),
           NEW pc \in {"status", "probed"}, Read(l, pc),
           UNCHANGED <<delivering, writes>>, RecordStays, EvidenceStays, EndStays
    PROVE  DeliveryInv'
<1>1. /\ task'[l].pc = pc /\ task'[l].request = NoWrite /\ task'[l].answer = NoAnswer
      /\ \A t \in Tasks \ {l} : task'[t] = task[t]
  BY ReadFacts, KindsOfTasks DEF DeliveryInv, Settled
<1>2. OnlyOne(l)
  BY <1>1, OthersRest, KindsOfTasks DEF OnlyOne, Settled, Holding
<1>3. NothingSent
  BY DEF NothingSent
<1> QED BY <1>1, <1>2, <1>3, DeliveryKeeps, KindsOfTasks, LiveConstants

(* What becomes of the task that begins a preparation. *)
LEMMA BeginFacts ==
    ASSUME TypeOK, NEW l \in Loops, BeginPreparation(l)
    PROVE  \/ Goto(l, "probe")
           \/ /\ task'[l].pc = "generate" /\ task'[l].order = deal.order
              /\ task'[l].request = task[l].request /\ task'[l].answer = task[l].answer
              /\ \A t \in Tasks \ {l} : task'[t] = task[t]
<1>1. CASE task' = [task EXCEPT ![l] = [@ EXCEPT !.pc = "generate", !.order = deal.order]]
  <2>1. task \in [Tasks -> TaskRecord] /\ l \in Tasks /\ task[l] \in TaskRecord
    BY KindsOfTasks DEF TypeOK
  <2>2. /\ task'[l] = [task[l] EXCEPT !.pc = "generate", !.order = deal.order]
        /\ \A t \in Tasks \ {l} : task'[t] = task[t]
    BY ONLY <1>1, <2>1
  <2> QED BY <2>1, <2>2 DEF TaskRecord
<1> QED BY <1>1 DEF BeginPreparation

(* The preparation begins, with the record observed or not. *)
LEMMA BeginKeeps ==
    ASSUME DeliveryInv, TypeOK', NEW l \in Loops, Running(l), Settled(l),
           task[l].pc \in {"status", "domain"}, BeginPreparation(l),
           UNCHANGED <<writes, delivering>>, deal'.order = deal.order,
           RecordStays, EvidenceStays, EndStays
    PROVE  DeliveryInv'
<1>1. CASE Goto(l, "probe")
  BY <1>1, MovedOn
<1>2. CASE /\ task'[l].pc = "generate" /\ task'[l].order = deal.order
           /\ task'[l].request = task[l].request /\ task'[l].answer = task[l].answer
           /\ \A t \in Tasks \ {l} : task'[t] = task[t]
  <2>1. OnlyOne(l)
    BY <1>2, OthersRest, KindsOfTasks DEF OnlyOne, Settled, Holding
  <2> QED BY <1>2, <2>1, DeliveryKeeps, KindsOfTasks, LiveConstants DEF NothingSent
<1> QED BY <1>1, <1>2, BeginFacts DEF DeliveryInv

(* runDelivery() and the catch block, up to the commands. *)
LEMMA LoopKeeps ==
    ASSUME DeliveryInv, TypeOK', NEW l \in Loops,
           \/ DeliveryRead(l) \/ DeliveryObserve(l) \/ DeliveryDomain(l)
           \/ DeliveryAnswer(l) \/ DeliveryFails(l)
           \/ ProbeRead(l) \/ ProbeApply(l) \/ ProbeFails(l)
    PROVE  DeliveryInv'
<1> USE EvidenceUnchanged, EndUnchanged
<1>1. TypeOK /\ deal \in DealRecord
  BY DEF DeliveryInv, TypeOK
<1>2. CASE DeliveryRead(l)
  <2>1. /\ task[l].pc = "start" /\ (Read(l, "status") \/ Goto(l, "probe"))
        /\ UNCHANGED <<writes, deal, delivering, evidence, rtState, sellerBps>>
    BY <1>2 DEF DeliveryRead, rtVars, storeVars
  <2>2. RecordStays /\ EvidenceStays /\ EndStays
    BY <1>1, <2>1, ObservedStays
  <2>3. Running(l) /\ Settled(l)
    BY <2>1 DEF Running, Settled, DeliveryInv, NothingPending
  <2> QED BY <2>1, <2>2, <2>3, ReadOn, MovedOn
<1>3. CASE DeliveryObserve(l)
  <2>1. /\ task[l].pc = "status"
        /\ UNCHANGED <<writes, delivering, evidence, rtState, sellerBps>>
        /\ deal' = IF Registered THEN Observed(deal, task[l].seen) ELSE deal
    BY <1>3 DEF DeliveryObserve, rtVars
  <2>2. RecordStays /\ EvidenceStays /\ EndStays /\ NothingSent
    BY <1>1, <2>1, ObservedStays DEF NothingSent
  <2>3. Running(l) /\ Settled(l)
    BY <2>1 DEF Running, Settled, DeliveryInv, NothingPending
  <2>4. CASE Goto(l, "probe")
    BY <2>1, <2>2, <2>3, <2>4, MovedOn
  <2>5. CASE BeginPreparation(l)
    <3>1. deal'.order = deal.order
      BY <1>1, <2>1, ObservedFacts
    <3> QED BY <2>1, <2>2, <2>3, <2>5, <3>1, BeginKeeps
  <2>6. CASE task' = [task EXCEPT ![l] = [@ EXCEPT !.pc = "domain"]]
    <3>1. task[l] \in TaskRecord
      BY <1>1, KindsOfTasks DEF TypeOK
    <3>2. /\ task'[l] = [task[l] EXCEPT !.pc = "domain"]
          /\ \A t \in Tasks \ {l} : task'[t] = task[t]
      BY <1>1, <2>6, KindsOfTasks DEF TypeOK
    <3>3. /\ task'[l].pc = "domain"
          /\ task'[l].request = task[l].request /\ task'[l].answer = task[l].answer
      BY <3>1, <3>2 DEF TaskRecord
    <3>4. OnlyOne(l)
      BY <2>1, <2>3, <3>2, <3>3, OthersRest, KindsOfTasks DEF OnlyOne, Settled, Holding
    <3> QED BY <2>2, <3>2, <3>4, DeliveryKeeps, KindsOfTasks, LiveConstants
  <2> QED BY <1>3, <2>4, <2>5, <2>6 DEF DeliveryObserve
<1>8. CASE DeliveryDomain(l)
  <2>1. /\ task[l].pc = "domain" /\ BeginPreparation(l)
        /\ UNCHANGED <<writes, deal, delivering, evidence, rtState, sellerBps>>
    BY <1>8 DEF DeliveryDomain, rtVars, storeVars
  <2>2. RecordStays /\ EvidenceStays /\ EndStays
    BY <1>1, <2>1, ObservedStays
  <2>3. Running(l) /\ Settled(l)
    BY <2>1 DEF Running, Settled, DeliveryInv, NothingPending
  <2> QED BY <2>1, <2>2, <2>3, BeginKeeps
<1>4. CASE DeliveryAnswer(l)
  <2>1. /\ task[l].pc = "command"
        /\ UNCHANGED <<writes, evidence, rtState, sellerBps>>
        /\ deal' = deal \/ (Registered /\ deal' = Observed(deal, task[l].answer.status))
        /\ Goto(l, "idle") \/ (Goto(l, "probe") /\ UNCHANGED delivering)
    BY <1>4 DEF DeliveryAnswer, rtVars
  <2>2. RecordStays /\ EvidenceStays /\ EndStays
    BY <1>1, <2>1, ObservedStays
  <2> QED BY <2>1, <2>2, MovedOn DEF Running
<1>5. CASE DeliveryFails(l)
  <2>1. /\ Running(l) /\ TransportFails(l, "probe")
        /\ UNCHANGED <<deal, delivering, evidence, rtState, sellerBps>>
    BY <1>5 DEF DeliveryFails, Running, rtVars, storeVars
  <2>2. RecordStays /\ EvidenceStays /\ EndStays /\ writes' \subseteq writes
    BY <1>1, <2>1, ObservedStays, FailureFacts, KindsOfTasks
  <2> QED BY <2>1, <2>2, MovedOn
<1>6. CASE ProbeRead(l)
  <2>1. /\ task[l].pc = "probe" /\ Read(l, "probed")
        /\ UNCHANGED <<writes, deal, delivering, evidence, rtState, sellerBps>>
    BY <1>6 DEF ProbeRead, rtVars, storeVars
  <2>2. RecordStays /\ EvidenceStays /\ EndStays
    BY <1>1, <2>1, ObservedStays
  <2>3. Running(l) /\ Settled(l)
    BY <2>1 DEF Running, Settled, DeliveryInv, NothingPending
  <2> QED BY <2>1, <2>2, <2>3, ReadOn
<1>7. CASE ProbeApply(l) \/ ProbeFails(l)
  <2>1. /\ task[l].pc # "idle"
        /\ UNCHANGED <<writes, evidence, rtState, sellerBps>>
        /\ deal' = deal \/ (Registered /\ deal' = Observed(deal, task[l].seen))
        /\ Goto(l, "idle") \/ (Goto(l, "start") /\ UNCHANGED delivering)
    BY <1>7 DEF ProbeApply, ProbeFails, rtVars, storeVars
  <2>2. RecordStays /\ EvidenceStays /\ EndStays
    BY <1>1, <2>1, ObservedStays
  <2> QED BY <2>1, <2>2, MovedOn DEF Running
<1> QED BY <1>2, <1>3, <1>4, <1>5, <1>6, <1>7, <1>8

(* What the watch of the outcome changes: the watcher's pc. *)
LEMMA WatchFacts ==
    ASSUME NEW tasks \in [Tasks -> TaskRecord]
    PROVE  /\ \A t \in Tasks \ {Watcher} : WatchOutcome(tasks)[t] = tasks[t]
           /\ WatchOutcome(tasks)[Watcher].seen = tasks[Watcher].seen
           /\ IF tasks[Watcher].pc = "off" THEN WatchOutcome(tasks)[Watcher].pc = "poll"
              ELSE WatchOutcome(tasks)[Watcher].pc = tasks[Watcher].pc
<1>1. tasks[Watcher] \in TaskRecord
  BY KindsOfTasks
<1>2. CASE tasks[Watcher].pc = "off"
  <2>1. WatchOutcome(tasks)[Watcher] = [tasks[Watcher] EXCEPT !.pc = "poll"]
    BY <1>2, KindsOfTasks DEF WatchOutcome
  <2>2. \A t \in Tasks \ {Watcher} : WatchOutcome(tasks)[t] = tasks[t]
    BY <1>2 DEF WatchOutcome
  <2> QED BY <1>1, <1>2, <2>1, <2>2 DEF TaskRecord
<1>3. CASE tasks[Watcher].pc # "off"
  BY <1>3 DEF WatchOutcome
<1> QED BY <1>2, <1>3

(* The artifact is stored before the evidence names it, and the watch      *)
(* starts with it.                                                         *)
LEMMA PreparedKeeps ==
    ASSUME DeliveryInv, TypeOK', NEW l \in Loops, DeliveryPrepared(l)
    PROVE  DeliveryInv'
<1> USE EvidenceUnchanged, EndUnchanged
<1> DEFINE m == minted + 1
<1>1. /\ TypeOK /\ deal \in DealRecord /\ task[l] \in TaskRecord
      /\ task \in [Tasks -> TaskRecord]
  BY KindsOfTasks DEF DeliveryInv, TypeOK
<1>2. /\ task[l].pc = "generate" /\ Running(l) /\ Settled(l)
      /\ UNCHANGED <<delivering, evidence, rtState, sellerBps>>
      /\ EvidenceStays /\ EndStays
      /\ m \in Nat /\ m # 0
  BY <1>1 DEF DeliveryPrepared, Running, Settled, DeliveryInv, NothingPending, rtVars, TypeOK
<1>3. deal' = IF Registered /\ deal.order = task[l].order
              THEN [deal EXCEPT !.artifact = m, !.state = "DELIVERED_LOCAL"] ELSE deal
  BY DEF DeliveryPrepared
<1> HIDE DEF m
<1>4. CASE ~Registered
  <2>1. Goto(l, "probe") /\ UNCHANGED writes /\ deal' = deal
    BY <1>3, <1>4 DEF DeliveryPrepared
  <2> QED BY <1>1, <1>2, <2>1, MovedOn, ObservedStays
<1>5. CASE Registered
  <2> DEFINE w == Submission(l, "evidence", m, 0)
             r == [task[l] EXCEPT !.pc = "evidence", !.request = w]
             moved == [task EXCEPT ![l] = r]
  <2>1. writes' = writes \cup {w} /\ task' = WatchOutcome(moved)
    BY <1>5 DEF DeliveryPrepared, m
  <2>2. w.kind = "evidence" /\ w.artifact = m /\ w \in Write
    BY <1>1, <1>2, SubmissionTypes, KindsOfTasks DEF Submission, WriteKinds
  <2> HIDE DEF w
  <2>3. /\ r \in TaskRecord /\ r.pc = "evidence" /\ r.request = w
        /\ r.answer = task[l].answer
    BY <1>1, <2>2 DEF TaskRecord, PCs
  <2> HIDE DEF r
  <2>4. /\ moved \in [Tasks -> TaskRecord] /\ moved[l] = r
        /\ \A t \in Tasks \ {l} : moved[t] = task[t]
    BY <1>1, <2>3, KindsOfTasks
  <2> HIDE DEF moved
  <2>5. /\ task'[l] = r
        /\ \A t \in Loops \ {l} : task'[t] = task[t]
        /\ task'[Watcher].seen = task[Watcher].seen
        /\ task'[Watcher].pc = IF task[Watcher].pc = "off" THEN "poll" ELSE task[Watcher].pc
    BY <2>1, <2>4, WatchFacts, KindsOfTasks, LiveConstants
  <2>6. /\ deal'.artifact \in {0, m} /\ deal'.state # "NONE"
        /\ deal'.revoked = deal.revoked
    <3>1. CASE deal.order = task[l].order
      BY <1>1, <1>3, <1>5, <3>1 DEF DealRecord
    <3>2. CASE deal.order # task[l].order
      BY <1>2, <1>3, <1>5, <3>2 DEF DeliveryInv, ArtifactIsHeld, Holding, Registered
    <3> QED BY <3>1, <3>2
  <2>7. OnlyOne(l)
    BY <1>2, <2>2, <2>3, <2>5, <2>6, OthersRest DEF OnlyOne, Settled, Holding, NoAnswer
  <2>8. NothingSent
    BY <2>1, <2>2 DEF NothingSent
  <2>9. (OneDelivery /\ NothingPending /\ ArtifactIsHeld /\ DeliveredCitesItsEvidence)'
    BY <1>2, <2>7, <2>8, OnlyOneKeeps, CommandsStayCited DEF DeliveryInv
  <2>10. (NoRecordIsEmpty /\ WatcherSees /\ CapabilityIsWatched)'
    BY <1>2, <2>5, <2>6
       DEF DeliveryInv, NoRecordIsEmpty, Registered, WatcherSees, CapabilityIsWatched
  <2> QED BY <2>9, <2>10 DEF DeliveryInv
<1> QED BY <1>4, <1>5

(* The command cites the id it was answered, with the hash of the record:  *)
(* the one the evidence names, because no other task prepares.             *)
LEMMA EvidenceKeeps ==
    ASSUME DeliveryInv, TypeOK', NEW l \in Loops, DeliveryEvidence(l)
    PROVE  DeliveryInv'
<1> USE EvidenceUnchanged, EndUnchanged
<1>1. /\ task[l].pc = "evidence" /\ task[l].answer.kind = "ok" /\ Running(l)
      /\ UNCHANGED <<deal, delivering, evidence, rtState, sellerBps>>
      /\ TypeOK
  BY DEF DeliveryEvidence, Running, rtVars, storeVars, DeliveryInv
<1>2. RecordStays /\ EvidenceStays /\ EndStays
  BY <1>1, ObservedStays
<1>3. CASE ~(Registered /\ deal.artifact # 0)
  BY <1>1, <1>2, <1>3, MovedOn DEF DeliveryEvidence
<1>4. CASE Registered /\ deal.artifact # 0
  <2> DEFINE w == Submission(l, "delivered", deal.artifact, task[l].answer.evidence)
  <2>1. Submit(l, "command", w)
    BY <1>4 DEF DeliveryEvidence
  <2>2. w.kind = "delivered" /\ w.artifact = deal.artifact
        /\ w.evidence = task[l].answer.evidence
    BY DEF Submission
  <2> HIDE DEF w
  <2>3. /\ w.evidence \in 1..Len(evidence) /\ evidence[w.evidence] = w.artifact
    BY <1>1, <1>4, <2>2 DEF DeliveryInv, ArtifactIsHeld, Holding
  <2>4. /\ writes' = writes \cup {w} /\ task'[l].pc = "command"
        /\ \A t \in Tasks \ {l} : task'[t] = task[t]
    BY <1>1, <2>1, SubmitFacts, KindsOfTasks
  <2>5. OnlyOne(l)
    BY <1>1, <2>4, OthersRest, KindsOfTasks DEF OnlyOne, Holding
  <2>6. DeliveredCitesItsEvidence'
    BY <1>1, <2>3, <2>4 DEF DeliveryInv, DeliveredCitesItsEvidence
  <2>7. task'[Watcher] = task[Watcher]
    BY <2>4, KindsOfTasks, LiveConstants
  <2> QED BY <1>2, <2>5, <2>6, <2>7, OnlyOneKeeps, WatchStays DEF DeliveryInv
<1> QED BY <1>3, <1>4

(* The watcher reads, and applies what it read: it stops at an end that    *)
(* refunded nothing, or that it has just revoked the capability for.       *)
LEMMA WatcherKeeps ==
    ASSUME DeliveryInv, TypeOK', RefreshRead(Watcher) \/ RefreshApply(Watcher)
    PROVE  DeliveryInv'
<1> USE EvidenceUnchanged, EndUnchanged
<1>1. /\ UNCHANGED <<writes, delivering, evidence, rtState, sellerBps>>
      /\ EvidenceStays /\ EndStays /\ NothingSent /\ TypeOK
  BY DEF RefreshRead, RefreshApply, rtVars, NothingSent, DeliveryInv
<1>2. RecordStays
  BY <1>1, RefreshedStays, ObservedStays DEF RefreshRead, storeVars
<1>3. \A l \in Loops : task'[l] = task[l]
  BY <1>1, ReadFacts, GotoFacts, KindsOfTasks, LiveConstants DEF RefreshRead, RefreshApply
<1>4. (OneDelivery /\ NothingPending)'
  BY <1>1, <1>3 DEF DeliveryInv, OneDelivery, Running, NothingPending
<1>5. ArtifactIsHeld'
  BY <1>1, <1>2, <1>3, HoldingStays DEF DeliveryInv, ArtifactIsHeld
<1>6. DeliveredCitesItsEvidence'
  BY <1>1, CommandsStayCited DEF DeliveryInv
<1>7. NoRecordIsEmpty'
  BY <1>2 DEF DeliveryInv, NoRecordIsEmpty, RecordStays, Registered, NoDeal
<1>8. (WatcherSees /\ CapabilityIsWatched)'
  <2>1. CASE RefreshRead(Watcher)
    <3>1. task'[Watcher].pc = "read" /\ task'[Watcher].seen = CurrentStatus
      BY <1>1, <2>1, ReadFacts, KindsOfTasks DEF RefreshRead
    <3> QED BY <1>1, <3>1 DEF WatcherSees, CapabilityIsWatched, CurrentStatus
  <2>2. CASE RefreshApply(Watcher)
    <3> DEFINE seen == task[Watcher].seen
               ends == Registered /\ seen.state \in TerminalStates
    <3>1. task'[Watcher].pc = IF ends THEN "off" ELSE "poll"
      BY <1>1, <2>2, GotoFacts, KindsOfTasks DEF RefreshApply
    <3>2. WatcherSees'
      BY <3>1 DEF WatcherSees
    <3>3. CASE ~ends
      BY <3>1, <3>2, <3>3 DEF CapabilityIsWatched
    <3>4. CASE ends
      <4>1. rtState = seen.state /\ sellerBps = seen.sellerBps
        BY <2>2, <3>4 DEF DeliveryInv, WatcherSees, RefreshApply
      <4>2. CASE Refunded(seen)
        <5>1. deal' = [Observed(deal, seen) EXCEPT !.revoked = TRUE]
          BY <2>2, <3>4, <4>2 DEF RefreshApply
        <5>2. Observed(deal, seen) \in DealRecord
          BY <1>1, TaskTypes, ObservedTypes, KindsOfTasks DEF TypeOK
        <5>3. deal'.revoked = TRUE
          BY <5>1, <5>2 DEF DealRecord
        <5> QED BY <3>2, <5>3 DEF CapabilityIsWatched, Serving
      <4>3. CASE ~Refunded(seen)
        <5>1. ~Refunded(CurrentStatus)
          BY <4>1, <4>3 DEF Refunded, CurrentStatus
        <5> QED BY <1>1, <3>2, <3>4, <4>1, <5>1
                DEF CapabilityIsWatched, Refunded, CurrentStatus
      <4> QED BY <4>2, <4>3
    <3> QED BY <3>3, <3>4
  <2> QED BY <2>1, <2>2
<1> QED BY <1>4, <1>5, <1>6, <1>7, <1>8 DEF DeliveryInv

(* What the Runtime's answer to a write changes: the answer its caller     *)
(* sees, if it still awaits it.                                            *)
LEMMA HandledFacts ==
    ASSUME TypeOK, NEW w \in writes, NEW kind, NEW st, NEW ev, Handled(w, kind, st, ev)
    PROVE  /\ writes' = writes \ {w}
           /\ \A t \in Tasks :
                /\ task'[t].pc = task[t].pc /\ task'[t].seen = task[t].seen
                /\ task'[t].order = task[t].order /\ task'[t].request = task[t].request
                /\ \/ task'[t].answer = task[t].answer
                   \/ /\ task[t].request = w
                      /\ task'[t].answer = [kind |-> kind, status |-> st, evidence |-> ev]
<1>1. w.by \in Tasks
  BY DEF TypeOK, Write
<1>2. task[w.by] \in TaskRecord
  BY <1>1 DEF TypeOK
<1> DEFINE a == [kind |-> kind, status |-> st, evidence |-> ev]
           r == [task[w.by] EXCEPT !.answer = a]
<1>3. \/ task' = task
      \/ task[w.by].request = w /\ task' = [task EXCEPT ![w.by] = r]
  BY DEF Handled
<1> HIDE DEF a
<1>4. /\ r.pc = task[w.by].pc /\ r.seen = task[w.by].seen /\ r.order = task[w.by].order
      /\ r.request = task[w.by].request /\ r.answer = a
  BY <1>2 DEF TaskRecord
<1> HIDE DEF r
<1>5. \A t \in Tasks : \/ task'[t] = task[t]
                       \/ t = w.by /\ task[t].request = w /\ task'[t] = r
  BY <1>1, <1>3 DEF TypeOK
<1>6. \A t \in Tasks :
         /\ task'[t].pc = task[t].pc /\ task'[t].seen = task[t].seen
         /\ task'[t].order = task[t].order /\ task'[t].request = task[t].request
         /\ \/ task'[t].answer = task[t].answer
            \/ task[t].request = w /\ task'[t].answer = a
  BY <1>4, <1>5
<1>7. writes' = writes \ {w}
  BY DEF Handled
<1> QED BY <1>6, <1>7 DEF a

LEMMA RuntimeKeeps ==
    ASSUME DeliveryInv, TypeOK', RuntimeStep
    PROVE  DeliveryInv'
<1>1. PICK w \in writes : RuntimeHandles(w)
  BY DEF RuntimeStep
<1>2. /\ UNCHANGED <<deal, delivering>> /\ TypeOK
      /\ w \in Write
  BY <1>1 DEF RuntimeHandles, HandleAcceptance, HandleFundingSignatures, HandleEvidence,
              HandleDelivered, HandleResponse, SellerUnchanged, storeVars, DeliveryInv, TypeOK
<1>3. RecordStays /\ EndStays
  <2>1. EndStays
    BY <1>1 DEF RuntimeHandles, HandleAcceptance, HandleFundingSignatures, HandleEvidence,
                HandleDelivered, HandleResponse, EndStays, Transition, TerminalStates
  <2> QED BY <1>2, <2>1, ObservedStays
<1>4. EvidenceStays
  <2>1. CASE HandleEvidence(w)
    BY <1>2, <2>1 DEF HandleEvidence, EvidenceStays, TypeOK, Write
  <2>2. CASE ~HandleEvidence(w)
    BY <1>1, <2>2, EvidenceUnchanged
       DEF RuntimeHandles, HandleAcceptance, HandleFundingSignatures, HandleDelivered,
           HandleResponse
  <2> QED BY <2>1, <2>2
<1>5. PICK kind, st, ev :
         /\ Handled(w, kind, st, ev)
         /\ w.kind = "evidence" /\ kind = "ok" =>
               ev = Len(evidence) + 1 /\ evidence' = Append(evidence, w.artifact)
  BY <1>1 DEF RuntimeHandles, HandleAcceptance, HandleFundingSignatures, HandleEvidence,
              HandleDelivered, HandleResponse
<1> DEFINE answer == [kind |-> kind, status |-> st, evidence |-> ev]
<1>6. /\ writes' = writes \ {w}
      /\ \A t \in Tasks :
            /\ task'[t].pc = task[t].pc /\ task'[t].seen = task[t].seen
            /\ task'[t].order = task[t].order /\ task'[t].request = task[t].request
            /\ task'[t].answer = task[t].answer \/ (task[t].request = w /\ task'[t].answer = answer)
  BY <1>2, <1>5, HandledFacts
<1>7. answer.kind = kind /\ answer.evidence = ev
  OBVIOUS
<1> HIDE DEF answer
<1>8. OneDelivery' /\ NothingPending'
  <2>1. w # NoWrite
    BY <1>2 DEF Write, WriteKinds, NoWrite
  <2> QED BY <1>2, <1>6, <2>1, KindsOfTasks
          DEF DeliveryInv, OneDelivery, Running, NothingPending
<1>9. ASSUME NEW l \in Loops PROVE Holding(l)'
  <2>1. Holding(l) /\ l \in Tasks
    BY KindsOfTasks DEF DeliveryInv, ArtifactIsHeld
  <2>2. task[l].pc = "generate" => deal'.artifact = 0 \/ deal'.order = task'[l].order
    BY <1>2, <1>6, <2>1 DEF Holding
  <2>3. ASSUME task[l].pc = "evidence", task'[l].answer.kind = "ok"
        PROVE  /\ task'[l].answer.evidence \in 1..Len(evidence')
               /\ evidence'[task'[l].answer.evidence] = task[l].request.artifact
    <3>1. CASE task'[l].answer = task[l].answer
      BY <1>4, <2>1, <2>3, <3>1 DEF Holding, EvidenceStays
    <3>2. CASE task[l].request = w /\ task'[l].answer = answer
      <4>1. ev = Len(evidence) + 1 /\ evidence' = Append(evidence, w.artifact)
        BY <1>5, <1>7, <2>1, <2>3, <3>2 DEF Holding
      <4>2. w.artifact \in Nat /\ evidence \in Seq(Nat)
        BY <1>2 DEF Write, TypeOK
      <4>3. ev \in 1..Len(evidence') /\ evidence'[ev] = w.artifact
        BY <4>1, <4>2
      <4> QED BY <1>7, <3>2, <4>3
    <3> QED BY <1>6, <2>1, <3>1, <3>2
  <2> QED BY <1>2, <1>6, <2>1, <2>2, <2>3 DEF Holding
<1>10. DeliveredCitesItsEvidence'
  BY <1>4, <1>6, CommandsStayCited DEF DeliveryInv, NothingSent
<1>11. (NoRecordIsEmpty /\ WatcherSees /\ CapabilityIsWatched)'
  BY <1>2, <1>3, <1>6, WatchStays, KindsOfTasks DEF DeliveryInv
<1> QED BY <1>8, <1>9, <1>10, <1>11 DEF DeliveryInv, ArtifactIsHeld

-----------------------------------------------------------------------------
LEMMA DeliveryInvInit == Init => DeliveryInv
<1> SUFFICES ASSUME Init PROVE DeliveryInv
  OBVIOUS
<1>1. TypeOK
  BY TypesInit
<1>2. /\ \A t \in Loops : task[t] = IdleTask
      /\ task[Watcher] = [IdleTask EXCEPT !.pc = "off"]
      /\ writes = {} /\ deal = NoDeal
  BY KindsOfTasks, LiveConstants DEF Init
<1>3. IdleTask.pc = "idle" /\ IdleTask.request = NoWrite /\ IdleTask.answer = NoAnswer
  BY DEF IdleTask
<1>4. task[Watcher].pc = "off"
  BY <1>2 DEF IdleTask
<1>5. OneDelivery /\ NothingPending /\ ArtifactIsHeld
  BY <1>2, <1>3 DEF OneDelivery, Running, NothingPending, ArtifactIsHeld, Holding
<1>6. DeliveredCitesItsEvidence /\ NoRecordIsEmpty
  BY <1>2 DEF DeliveredCitesItsEvidence, NoRecordIsEmpty
<1>7. WatcherSees /\ CapabilityIsWatched
  BY <1>2, <1>4 DEF WatcherSees, CapabilityIsWatched, Serving, Registered, NoDeal
<1> QED BY <1>1, <1>5, <1>6, <1>7 DEF DeliveryInv

LEMMA DeliveryInvStays == DeliveryInv /\ [Next]_vars => DeliveryInv'
<1> SUFFICES ASSUME DeliveryInv, [Next]_vars PROVE DeliveryInv'
  OBVIOUS
<1>1. TypeOK'
  BY TypesKeep DEF DeliveryInv
<1>2. ASSUME NEW c \in Countersigns, NEW valid \in BOOLEAN,
             \/ CountersignRead(c) \/ CountersignCardFails(c) \/ CountersignUnquoted(c)
             \/ CountersignAccept(c, valid) \/ CountersignAnswer(c) \/ CountersignFails(c)
      PROVE  DeliveryInv'
  BY <1>1, <1>2, CountersignIsCalm, CalmKeeps
<1>3. ASSUME NEW f \in Fundings,
             FundingRead(f) \/ FundingSign(f) \/ FundingAnswer(f) \/ FundingFails(f)
      PROVE  DeliveryInv'
  BY <1>1, <1>3, FundingIsCalm, CalmKeeps
<1>4. ASSUME NEW n \in Notices, NoticeRead(n) \/ NoticeRefused(n) \/ NoticeAccepted(n)
      PROVE  DeliveryInv'
  BY <1>1, <1>4, NoticeIsCalm, CalmKeeps, NoticeKeeps
<1>5. ASSUME NEW l \in Loops, LoopStep(l) \/ DeliveryFails(l) \/ ProbeFails(l)
      PROVE  DeliveryInv'
  BY <1>1, <1>5, LoopKeeps, PreparedKeeps, EvidenceKeeps DEF LoopStep
<1>6. ASSUME NEW v \in Viewers \cup {Watcher}, RefreshRead(v) \/ RefreshApply(v)
      PROVE  DeliveryInv'
  BY <1>1, <1>6, ViewerIsCalm, CalmKeeps, WatcherKeeps
<1>7. ASSUME NEW r \in Responses, NEW kind \in {"appealed", "refund_consented"},
             \/ ResponseRead(r) \/ ResponseAnswer(r) \/ ResponseFails(r)
             \/ ResponseSubmit(r, kind)
      PROVE  DeliveryInv'
  BY <1>1, <1>7, ResponseIsCalm, CalmKeeps
<1>8. CASE \/ Reclaim \/ EvictQuote \/ BindingLapses \/ BindingRestored \/ OutsideStep
           \/ UNCHANGED vars
  BY <1>1, <1>8, OutsideIsCalm, CalmKeeps
<1>9. CASE RuntimeStep
  BY <1>1, <1>9, RuntimeKeeps
<1>10. CASE SellerStep
  BY <1>2, <1>3, <1>4, <1>5, <1>6, <1>7, <1>8, <1>10, Zenon DEF SellerStep
<1> QED BY <1>8, <1>9, <1>10, NextCases

LEMMA AlwaysDelivery == Spec => []DeliveryInv
  BY DeliveryInvInit, DeliveryInvStays, PTL DEF Spec

(* A delivered command cites the evidence of the artifact it commits to:   *)
(* commandFor() reads the record again when the evidence id arrives, and   *)
(* finds there the artifact that evidence names, whatever was pruned,      *)
(* inserted again or handled late meanwhile.                               *)
THEOREM LiveDeliveredCites == Spec => []DeliveredCitesItsEvidence
<1>1. DeliveryInv => DeliveredCitesItsEvidence
  BY DEF DeliveryInv
<1> QED BY <1>1, AlwaysDelivery, PTL

(* Whoever holds a live capability is watched for the refund that must     *)
(* revoke it, or the agreement has ended without one.                      *)
THEOREM LiveCapabilityIsWatched == Spec => []CapabilityIsWatched
<1>1. DeliveryInv => CapabilityIsWatched
  BY DEF DeliveryInv
<1> QED BY <1>1, AlwaysDelivery, PTL

-----------------------------------------------------------------------------
(* The work that was acknowledged is under way.  A delivery task ends for  *)
(* good on what it has been told: that the agreement is no longer in       *)
(* FULFILLING, which it then never is again, or that its command was       *)
(* committed or refused.                                                   *)
Ending(l) ==
    \/ task[l].pc = "probed" /\ task[l].seen.state # "FULFILLING"
    \/ task[l].pc = "command" /\ task[l].answer.kind \in {"ok", "refused"}

WorkInv ==
    /\ relay # "none" => rtState \notin {"PROPOSED", "COMMITTED"}
    /\ \A t \in Loops \cup Notices : task[t].pc # "idle" => relay # "none"
    /\ delivering => \E l \in Loops : Running(l)
    /\ \A l \in Loops : task[l].pc = "command" => task[l].request.kind = "delivered"
    /\ \A l \in Loops : Ending(l) => rtState # "FULFILLING"
    /\ AckedWorkIsUnderway

(* The agreement's work begins once, with its notification; and neither    *)
(* it nor its deadline comes again.                                        *)
Onward ==
    /\ relay # "none" => relay' # "none"
    /\ relay' # "none" => relay # "none" \/ rtState' = "FULFILLING"
    /\ deadlinePassed => deadlinePassed'
    /\ rtState \notin {"PROPOSED", "COMMITTED"} =>
          /\ rtState' \notin {"PROPOSED", "COMMITTED"}
          /\ rtState # "FULFILLING" => rtState' # "FULFILLING"

Unacknowledged == relay' = "acked" => relay = "acked"

LEMMA StillLeadsOnward ==
    UNCHANGED <<rtState, relay, deadlinePassed>> => Onward /\ Unacknowledged
  BY DEF Onward, Unacknowledged

LEMMA EdgesLeadOnward ==
    ASSUME rtState \notin {"PROPOSED", "COMMITTED"}, <<rtState, rtState'>> \in Edges
    PROVE  rtState' \notin {"PROPOSED", "COMMITTED"} /\ rtState' # "FULFILLING"
  BY DEF Edges

LEMMA RuntimeLeadsOnward == RuntimeStep => Onward /\ Unacknowledged
<1> SUFFICES ASSUME NEW w \in writes, RuntimeHandles(w)
             PROVE  Onward /\ Unacknowledged
  BY DEF RuntimeStep
<1>1. UNCHANGED <<relay, deadlinePassed>>
  BY DEF RuntimeHandles, HandleAcceptance, HandleFundingSignatures, HandleEvidence,
         HandleDelivered, HandleResponse
<1>2. \/ UNCHANGED rtState
      \/ rtState = "PROPOSED"
      \/ <<rtState, rtState'>> \in Edges
  BY DEF RuntimeHandles, HandleAcceptance, HandleFundingSignatures, HandleEvidence,
         HandleDelivered, HandleResponse, Transition
<1> QED BY <1>1, <1>2, EdgesLeadOnward DEF Onward, Unacknowledged

LEMMA OutsideLeadsOnward == OutsideStep => Onward /\ Unacknowledged
<1> SUFFICES ASSUME OutsideStep PROVE Onward /\ Unacknowledged
  OBVIOUS
<1>1. CASE ConfirmFund
  <2>1. /\ rtState' = "FULFILLING" /\ relay' = "pending" /\ UNCHANGED deadlinePassed
        /\ <<rtState, "FULFILLING">> \in Edges
    BY <1>1 DEF ConfirmFund, Transition
  <2>2. rtState = "COMMITTED"
    BY <2>1 DEF Edges
  <2> QED BY <2>1, <2>2 DEF Onward, Unacknowledged
<1>2. CASE ~ConfirmFund
  <2>1. UNCHANGED relay /\ (deadlinePassed => deadlinePassed')
    BY <1>2 DEF OutsideStep, BuyerFunds, DeadlinePasses, DeliveryMissed, OtherPartyMoves,
                ArbiterDecides
  <2>2. UNCHANGED rtState \/ <<rtState, rtState'>> \in Edges
    BY OutsideFollowsEdges
  <2> QED BY <2>1, <2>2, EdgesLeadOnward DEF Onward, Unacknowledged
<1> QED BY <1>1, <1>2

(* Whatever leads onward and leaves the delivery tasks and notifications   *)
(* alone keeps the work under way.                                         *)
LEMMA AsideKeeps ==
    ASSUME WorkInv, Onward, Unacknowledged, UNCHANGED delivering,
           \A t \in Loops \cup Notices : task'[t] = task[t]
    PROVE  WorkInv'
<1> USE DEF WorkInv, Onward, Unacknowledged
<1>1. (\E l \in Loops : Running(l)) => (\E l \in Loops : Running(l))'
  BY DEF Running
<1>2. AckedWorkIsUnderway'
  BY <1>1 DEF AckedWorkIsUnderway, Running
<1>3. \A l \in Loops : Ending(l)' => Ending(l) /\ relay # "none"
  BY DEF Ending
<1>4. \A l \in Loops : Ending(l)' => rtState' # "FULFILLING"
  BY <1>3
<1> QED BY <1>1, <1>2, <1>4

LEMMA OthersAreApart ==
    \A t \in Countersigns \cup Fundings \cup Responses \cup Viewers \cup {Watcher} :
        t \in Tasks /\ t \notin Loops \cup Notices
  BY LiveConstants, KindsOfTasks

(* The requests of the buyer, the answers to a rejection, the reads of the *)
(* outcome, the prunes and the binding.                                    *)
Aside ==
    /\ UNCHANGED <<rtState, relay, deadlinePassed, delivering>>
    /\ \A t \in Loops \cup Notices : task'[t] = task[t]

LEMMA StillAside == UNCHANGED <<rtState, relay, deadlinePassed, delivering, task>> => Aside
  BY DEF Aside

LEMMA TaskIsAside ==
    ASSUME TypeOK, UNCHANGED <<rtState, relay, deadlinePassed, delivering>>,
           NEW t \in Tasks, t \notin Loops \cup Notices, NEW pc, NEW w,
           Goto(t, pc) \/ Read(t, pc) \/ Submit(t, pc, w) \/ TransportFails(t, pc)
    PROVE  Aside
<1>1. \A u \in Tasks \ {t} : task'[u] = task[u]
  BY GotoFacts, ReadFacts, SubmitFacts, FailureFacts
<1> QED BY <1>1, KindsOfTasks DEF Aside

LEMMA RequestsAreAside ==
    ASSUME TypeOK
    PROVE  /\ \A c \in Countersigns, valid \in BOOLEAN :
                 \/ CountersignRead(c) \/ CountersignCardFails(c) \/ CountersignUnquoted(c)
                 \/ CountersignAccept(c, valid) \/ CountersignAnswer(c) \/ CountersignFails(c)
                 => Aside
           /\ \A f \in Fundings :
                 FundingRead(f) \/ FundingSign(f) \/ FundingAnswer(f) \/ FundingFails(f)
                 => Aside
<1> USE OthersAreApart, TaskIsAside DEF rtVars
<1>1. ASSUME NEW c \in Countersigns, NEW valid \in BOOLEAN, CountersignAccept(c, valid)
      PROVE  Aside
  BY <1>1 DEF CountersignAccept
<1>2. ASSUME NEW c \in Countersigns,
             CountersignRead(c) \/ CountersignCardFails(c) \/ CountersignUnquoted(c)
      PROVE  Aside
  BY <1>2 DEF CountersignRead, CountersignCardFails, CountersignUnquoted
<1>3. ASSUME NEW c \in Countersigns, CountersignAnswer(c) \/ CountersignFails(c)
      PROVE  Aside
  BY <1>3 DEF CountersignAnswer, CountersignFails
<1>4. ASSUME NEW f \in Fundings, FundingRead(f) \/ FundingSign(f)
      PROVE  Aside
  BY <1>4 DEF FundingRead, FundingSign
<1>5. ASSUME NEW f \in Fundings, FundingAnswer(f) \/ FundingFails(f)
      PROVE  Aside
  BY <1>5 DEF FundingAnswer, FundingFails
<1> QED BY <1>1, <1>2, <1>3, <1>4, <1>5, Zenon

LEMMA OutcomesAreAside ==
    ASSUME TypeOK
    PROVE  /\ \A v \in Viewers \cup {Watcher} : RefreshRead(v) \/ RefreshApply(v) => Aside
           /\ \A r \in Responses, kind \in {"appealed", "refund_consented"} :
                 \/ ResponseRead(r) \/ ResponseAnswer(r) \/ ResponseFails(r)
                 \/ ResponseSubmit(r, kind)
                 => Aside
           /\ Reclaim \/ EvictQuote \/ BindingLapses \/ BindingRestored => Aside
<1> USE OthersAreApart, TaskIsAside DEF rtVars
<1>1. ASSUME NEW v \in Viewers \cup {Watcher}, RefreshRead(v) \/ RefreshApply(v)
      PROVE  Aside
  <2>1. UNCHANGED <<rtState, relay, deadlinePassed, delivering>>
    BY <1>1 DEF RefreshRead, RefreshApply
  <2>2. \E pc : Goto(v, pc) \/ Read(v, pc)
    BY <1>1 DEF RefreshRead, RefreshApply
  <2> QED BY <2>1, <2>2
<1>2. ASSUME NEW r \in Responses, ResponseRead(r) \/ ResponseAnswer(r) \/ ResponseFails(r)
      PROVE  Aside
  BY <1>2 DEF ResponseRead, ResponseAnswer, ResponseFails
<1>3. ASSUME NEW r \in Responses, NEW kind \in {"appealed", "refund_consented"},
             ResponseSubmit(r, kind)
      PROVE  Aside
  BY <1>3 DEF ResponseSubmit
<1>4. ASSUME Reclaim \/ EvictQuote \/ BindingLapses \/ BindingRestored
      PROVE  Aside
  BY <1>4, StillAside DEF Reclaim, EvictQuote, BindingLapses, BindingRestored
<1> QED BY <1>1, <1>2, <1>3, <1>4, Zenon

(* The Runtime's answers.  The command of the running task is refused only *)
(* when the work is over: it cites its evidence.                           *)
LEMMA RuntimeKeepsWork ==
    ASSUME DeliveryInv, WorkInv, RuntimeStep
    PROVE  WorkInv'
<1>1. PICK w \in writes : RuntimeHandles(w)
  BY DEF RuntimeStep
<1>2. /\ TypeOK /\ UNCHANGED delivering
      /\ Onward /\ Unacknowledged
  BY <1>1, RuntimeLeadsOnward
     DEF DeliveryInv, RuntimeHandles, HandleAcceptance, HandleFundingSignatures,
         HandleEvidence, HandleDelivered, HandleResponse, SellerUnchanged
<1>3. PICK kind, st, ev :
         /\ Handled(w, kind, st, ev)
         /\ w.kind = "delivered" /\ kind \in {"ok", "refused"} => rtState' # "FULFILLING"
  <2>1. CASE HandleDelivered(w)
    <3>1. w.evidence \in 1..Len(evidence) /\ evidence[w.evidence] = w.artifact
      BY <2>1 DEF DeliveryInv, DeliveredCitesItsEvidence, HandleDelivered
    <3> QED BY <2>1, <3>1 DEF HandleDelivered, Transition
  <2>2. CASE ~HandleDelivered(w)
    BY <1>1, <2>2 DEF RuntimeHandles, HandleAcceptance, HandleFundingSignatures,
                      HandleEvidence, HandleResponse
  <2> QED BY <2>1, <2>2
<1> DEFINE answer == [kind |-> kind, status |-> st, evidence |-> ev]
<1>4. \A t \in Tasks :
         /\ task'[t].pc = task[t].pc /\ task'[t].seen = task[t].seen
         /\ task'[t].request = task[t].request
         /\ task'[t].answer = task[t].answer \/ (task[t].request = w /\ task'[t].answer = answer)
  BY <1>2, <1>3, HandledFacts
<1>5. answer.kind = kind
  OBVIOUS
<1> HIDE DEF answer
<1>6. ASSUME NEW l \in Loops, Ending(l)'
      PROVE  rtState' # "FULFILLING"
  <2>1. CASE Ending(l)
    BY <1>2, <2>1, KindsOfTasks DEF WorkInv, Onward, Ending
  <2>2. CASE ~Ending(l)
    <3>1. task[l].pc = "command" /\ task[l].request = w /\ kind \in {"ok", "refused"}
      BY <1>4, <1>5, <1>6, <2>2, KindsOfTasks DEF Ending
    <3> QED BY <1>3, <3>1 DEF WorkInv
  <2> QED BY <2>1, <2>2
<1>7. \A l \in Loops : task'[l].pc = task[l].pc /\ task'[l].request = task[l].request
  BY <1>4, KindsOfTasks
<1>8. (\E l \in Loops : Running(l)) => (\E l \in Loops : Running(l))'
  BY <1>7 DEF Running
<1>9. AckedWorkIsUnderway'
  BY <1>2, <1>8 DEF WorkInv, Onward, Unacknowledged, AckedWorkIsUnderway, Running
<1>10. \A t \in Loops \cup Notices : task'[t].pc # "idle" => relay' # "none"
  BY <1>2, <1>4, KindsOfTasks DEF WorkInv, Onward
<1> QED BY <1>2, <1>6, <1>7, <1>8, <1>9, <1>10 DEF WorkInv, Onward

(* The notifications: acknowledged with a delivery task at work.           *)
LEMMA NoticeKeepsWork ==
    ASSUME DeliveryInv, WorkInv, NEW n \in Notices,
           NoticeRead(n) \/ NoticeRefused(n) \/ NoticeAccepted(n)
    PROVE  WorkInv'
<1>1. /\ TypeOK /\ n \in Tasks /\ n \notin Loops
      /\ task \in [Tasks -> TaskRecord]
  BY TasksAreApart, KindsOfTasks DEF DeliveryInv, TypeOK
<1>2. /\ UNCHANGED <<rtState, deadlinePassed>>
      /\ relay # "none" /\ relay' # "none"
  BY DEF NoticeRead, NoticeRefused, NoticeAccepted, Acknowledge, WorkInv, rtVars
<1>3. CASE NoticeRead(n) \/ NoticeRefused(n)
  <2>1. /\ UNCHANGED <<delivering, relay>>
        /\ \A t \in Tasks \ {n} : task'[t] = task[t]
    BY <1>1, <1>3, ReadFacts, GotoFacts DEF NoticeRead, NoticeRefused, rtVars
  <2>2. (\E l \in Loops : Running(l)) <=> (\E l \in Loops : Running(l))'
    BY <1>1, <2>1, KindsOfTasks DEF Running
  <2>3. \A l \in Loops : (Ending(l)' => Ending(l)) /\ task'[l] = task[l]
    BY <1>1, <2>1, KindsOfTasks DEF Ending
  <2>4. AckedWorkIsUnderway'
    BY <1>2, <2>1, <2>2 DEF WorkInv, AckedWorkIsUnderway, Running
  <2> QED BY <1>2, <2>1, <2>2, <2>3, <2>4 DEF WorkInv
<1>4. CASE NoticeAccepted(n)
  <2>1. PICK l \in Loops :
           /\ task'[l].pc # "idle" /\ \A m \in Loops \ {l} : task'[m] = task[m]
           /\ task'[l] = task[l] \/ task'[l].pc = "start"
    <3>1. CASE delivering /\ Goto(n, "idle")
      <4>1. \A m \in Loops : task'[m] = task[m]
        BY <1>1, <3>1, GotoFacts, KindsOfTasks
      <4> QED BY <3>1, <4>1 DEF WorkInv, Running
    <3>2. ASSUME NEW l \in Loops, task' = [task EXCEPT ![n] = IdleTask, ![l].pc = "start"]
          PROVE  task'[l].pc = "start" /\ \A m \in Loops \ {l} : task'[m] = task[m]
      <4>1. task[l] \in TaskRecord
        BY <1>1, KindsOfTasks
      <4>2. /\ task'[l] = [task[l] EXCEPT !.pc = "start"]
            /\ \A m \in Loops \ {l} : task'[m] = task[m]
        BY <1>1, <3>2, KindsOfTasks
      <4> QED BY <4>1, <4>2 DEF TaskRecord
    <3> QED BY <1>4, <3>1, <3>2 DEF NoticeAccepted
  <2>2. \A m \in Loops : Ending(m)' => Ending(m)
    BY <2>1 DEF Ending
  <2>3. \A m \in Loops : task'[m].pc = "command" => task'[m] = task[m]
    BY <2>1
  <2>4. (\E m \in Loops : Running(m))' /\ AckedWorkIsUnderway'
    BY <2>1 DEF Running, AckedWorkIsUnderway
  <2> QED BY <1>2, <2>2, <2>3, <2>4 DEF WorkInv
<1> QED BY <1>3, <1>4

(* A delivery task goes on, or ends when the agreement has left FULFILLING *)
(* or the deadline is over.                                                *)
LEMMA OneLoopKeepsWork ==
    ASSUME DeliveryInv, WorkInv, NEW l \in Loops, Running(l),
           UNCHANGED <<rtState, relay, deadlinePassed>>,
           \A t \in Tasks \ {l} : task'[t] = task[t],
           \/ Running(l)' /\ UNCHANGED delivering
           \/ delivering' = FALSE /\ (rtState # "FULFILLING" \/ deadlinePassed),
           task'[l].pc = "command" => task'[l].request.kind = "delivered",
           Ending(l)' => rtState # "FULFILLING"
    PROVE  WorkInv'
<1>1. \A t \in (Loops \cup Notices) \ {l} : task'[t] = task[t]
  BY KindsOfTasks
<1>2. relay # "none"
  BY DEF WorkInv, Running
<1>3. \A m \in Loops : Ending(m)' => rtState # "FULFILLING"
  BY <1>1 DEF WorkInv, Ending
<1>4. delivering' => \E m \in Loops : Running(m)'
  OBVIOUS
<1>5. AckedWorkIsUnderway'
  BY <1>4 DEF AckedWorkIsUnderway, Running
<1> QED BY <1>1, <1>2, <1>3, <1>4, <1>5 DEF WorkInv

LEMMA LoopKeepsWork ==
    ASSUME DeliveryInv, WorkInv, NEW l \in Loops,
           LoopStep(l) \/ DeliveryFails(l) \/ ProbeFails(l)
    PROVE  WorkInv'
<1>1. /\ TypeOK /\ l \in Tasks /\ task \in [Tasks -> TaskRecord] /\ task[l] \in TaskRecord
      /\ l # Watcher /\ TasksTyped
  BY KindsOfTasks, LiveConstants DEF DeliveryInv, TypeOK, TasksTyped
<1>2. Running(l) /\ UNCHANGED <<rtState, relay, deadlinePassed>>
  BY DEF LoopStep, DeliveryRead, DeliveryObserve, DeliveryDomain, DeliveryPrepared,
         DeliveryEvidence, DeliveryAnswer, ProbeRead, ProbeApply, DeliveryFails, ProbeFails,
         Running, rtVars
<1>3. Ending(l) => rtState # "FULFILLING"
  BY DEF WorkInv
<1>4. ASSUME NEW pc \in {"start", "probe"}, Goto(l, pc) \/ TransportFails(l, pc),
             UNCHANGED delivering
      PROVE  WorkInv'
  <2>1. task'[l].pc = pc /\ \A t \in Tasks \ {l} : task'[t] = task[t]
    BY <1>1, <1>4, GotoFacts, FailureFacts
  <2> QED BY <1>2, <1>4, <2>1, OneLoopKeepsWork DEF Running, Ending
<1>5. ASSUME Goto(l, "idle"), delivering' = FALSE, rtState # "FULFILLING" \/ deadlinePassed
      PROVE  WorkInv'
  <2>1. task'[l].pc = "idle" /\ \A t \in Tasks \ {l} : task'[t] = task[t]
    BY <1>1, <1>5, GotoFacts
  <2> QED BY <1>2, <1>5, <2>1, OneLoopKeepsWork DEF Ending
<1>6. ASSUME NEW pc \in {"status", "probed"}, Read(l, pc), UNCHANGED delivering
      PROVE  WorkInv'
  <2>1. /\ task'[l].pc = pc /\ task'[l].seen.state = rtState
        /\ \A t \in Tasks \ {l} : task'[t] = task[t]
    BY <1>1, <1>6, ReadFacts DEF CurrentStatus
  <2> QED BY <1>2, <1>6, <2>1, OneLoopKeepsWork DEF Running, Ending
<1>7. CASE DeliveryRead(l)
  BY <1>4, <1>6, <1>7 DEF DeliveryRead
<1>8. CASE DeliveryObserve(l) \/ DeliveryDomain(l)
  <2>1. UNCHANGED delivering
    BY <1>8 DEF DeliveryObserve, DeliveryDomain
  <2>2. CASE Goto(l, "probe")
    BY <1>4, <2>1, <2>2
  <2>3. CASE task' = [task EXCEPT ![l] = [@ EXCEPT !.pc = "domain"]]
    <3>1. /\ task'[l] = [task[l] EXCEPT !.pc = "domain"]
          /\ \A t \in Tasks \ {l} : task'[t] = task[t]
      BY ONLY <1>1, <2>3
    <3>2. task'[l].pc = "domain"
      BY <1>1, <3>1 DEF TaskRecord
    <3> QED BY <1>2, <2>1, <3>1, <3>2, OneLoopKeepsWork DEF Running, Ending
  <2>4. CASE task'[l].pc = "generate" /\ \A t \in Tasks \ {l} : task'[t] = task[t]
    BY <1>2, <2>1, <2>4, OneLoopKeepsWork DEF Running, Ending
  <2> QED BY <1>1, <1>8, <2>2, <2>3, <2>4, BeginFacts DEF DeliveryObserve, DeliveryDomain
<1>9. CASE DeliveryPrepared(l)
  <2>1. UNCHANGED delivering
    BY <1>9 DEF DeliveryPrepared
  <2>2. CASE Goto(l, "probe")
    BY <1>4, <2>1, <2>2
  <2>3. CASE Registered
    <3> DEFINE w == Submission(l, "evidence", minted + 1, 0)
               moved == [task EXCEPT ![l] = [@ EXCEPT !.pc = "evidence", !.request = w]]
    <3>1. task' = WatchOutcome(moved) /\ w \in Write
      <4>1. minted + 1 \in Nat
        BY <1>1 DEF TypeOK
      <4> QED BY <1>1, <1>9, <2>3, <4>1, SubmissionTypes DEF DeliveryPrepared, WriteKinds
    <3> HIDE DEF w
    <3>2. /\ [task[l] EXCEPT !.pc = "evidence", !.request = w] \in TaskRecord
          /\ [task[l] EXCEPT !.pc = "evidence", !.request = w].pc = "evidence"
      BY <1>1, <3>1 DEF TaskRecord, PCs
    <3>3. /\ moved \in [Tasks -> TaskRecord] /\ moved[l].pc = "evidence"
          /\ \A t \in Tasks \ {l} : moved[t] = task[t]
      BY ONLY <1>1, <3>2
    <3> HIDE DEF moved
    <3>4. /\ task'[l].pc = "evidence"
          /\ \A t \in (Loops \cup Notices) \ {l} : task'[t] = task[t]
      BY <1>1, <3>1, <3>3, WatchFacts, KindsOfTasks, OthersAreApart
    <3>5. \A m \in Loops : (Ending(m)' => Ending(m)) /\ (task'[m].pc = "command" => task'[m] = task[m])
      BY <3>4 DEF Ending
    <3>6. (\E m \in Loops : Running(m))' /\ AckedWorkIsUnderway'
      BY <3>4 DEF Running, AckedWorkIsUnderway
    <3>7. relay # "none"
      BY <1>2 DEF WorkInv, Running
    <3> QED BY <1>2, <3>4, <3>5, <3>6, <3>7 DEF WorkInv
  <2> QED BY <1>9, <2>2, <2>3 DEF DeliveryPrepared
<1>10. CASE DeliveryEvidence(l)
  <2>1. UNCHANGED delivering
    BY <1>10 DEF DeliveryEvidence
  <2>2. CASE Goto(l, "probe")
    BY <1>4, <2>1, <2>2
  <2>3. CASE Submit(l, "command",
                    Submission(l, "delivered", deal.artifact, task[l].answer.evidence))
    <3>1. /\ task'[l].pc = "command" /\ task'[l].answer = NoAnswer
          /\ task'[l].request.kind = "delivered"
          /\ \A t \in Tasks \ {l} : task'[t] = task[t]
      BY <1>1, <2>3, SubmitFacts DEF Submission
    <3>2. ~Ending(l)'
      BY <3>1 DEF Ending, NoAnswer
    <3> QED BY <1>2, <2>1, <3>1, <3>2, OneLoopKeepsWork DEF Running
  <2> QED BY <1>10, <2>2, <2>3 DEF DeliveryEvidence
<1>11. CASE DeliveryAnswer(l)
  BY <1>3, <1>4, <1>5, <1>11 DEF DeliveryAnswer, Ending
<1>12. CASE DeliveryFails(l)
  BY <1>4, <1>12 DEF DeliveryFails
<1>13. CASE ProbeRead(l)
  BY <1>6, <1>13 DEF ProbeRead
<1>14. CASE ProbeApply(l) \/ ProbeFails(l)
  BY <1>3, <1>4, <1>5, <1>14 DEF ProbeApply, ProbeFails, Ending
<1> QED BY <1>7, <1>8, <1>9, <1>10, <1>11, <1>12, <1>13, <1>14 DEF LoopStep

LEMMA WorkInvInit == Init => WorkInv
<1> SUFFICES ASSUME Init PROVE WorkInv
  OBVIOUS
<1>1. \A t \in Loops \cup Notices : task[t] = IdleTask
  BY KindsOfTasks, OthersAreApart DEF Init
<1>2. \A t \in Loops \cup Notices : task[t].pc = "idle"
  BY <1>1 DEF IdleTask
<1>3. relay = "none" /\ delivering = FALSE
  BY DEF Init
<1> QED BY <1>2, <1>3 DEF WorkInv, Ending, AckedWorkIsUnderway

LEMMA WorkInvStays ==
    ASSUME DeliveryInv, WorkInv, [Next]_vars
    PROVE  WorkInv'
<1>1. TypeOK
  BY DEF DeliveryInv
<1>2. Aside => WorkInv'
  BY StillLeadsOnward, AsideKeeps DEF Aside
<1>3. CASE SellerStep
  BY <1>1, <1>2, <1>3, RequestsAreAside, OutcomesAreAside, NoticeKeepsWork, LoopKeepsWork,
     Zenon DEF SellerStep
<1>4. CASE RuntimeStep
  BY <1>4, RuntimeKeepsWork
<1>5. CASE OutsideStep
  <2>1. UNCHANGED <<task, delivering>>
    BY <1>5 DEF OutsideStep, BuyerFunds, ConfirmFund, DeadlinePasses, DeliveryMissed,
                OtherPartyMoves, ArbiterDecides, Outside, SellerUnchanged
  <2> QED BY <1>5, <2>1, OutsideLeadsOnward, AsideKeeps
<1>6. CASE UNCHANGED vars
  BY <1>2, <1>6, StillAside DEF vars, rtVars
<1> QED BY <1>3, <1>4, <1>5, <1>6, NextCases

(* The work-start is acknowledged once and never sent again, and while the *)
(* agreement waits for that work a delivery task is at it, whatever        *)
(* failed, was refused, read late or pruned: a task that ends has been     *)
(* told that the work is over, or its deadline was.                        *)
THEOREM LiveAckedWork == Spec => []AckedWorkIsUnderway
<1>1. Spec => []WorkInv
  BY WorkInvInit, WorkInvStays, AlwaysDelivery, PTL DEF Spec
<1>2. WorkInv => AckedWorkIsUnderway
  BY DEF WorkInv
<1> QED BY <1>1, <1>2, PTL

=============================================================================
