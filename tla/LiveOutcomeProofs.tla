------------------------- MODULE LiveOutcomeProofs -------------------------
(***************************************************************************)
(* The evidence the Runtime committed resolves, in LiveSeller, for any     *)
(* number of tasks and failures: where a write whose caller has given up   *)
(* is lost, and where no other traffic prunes the store.  Without either   *)
(* it does not: the runs LiveEvidenceLost and LiveReclaimFunded.           *)
(***************************************************************************)
EXTENDS LiveDeliveryProofs

Committed == {"DELIVERED", "REJECTED", "DISPUTED", "ACCEPTED"}

(* A command on the wire commits to the artifact of the record, and the    *)
(* delivery task that sent it awaits its answer.                           *)
Awaited(w) ==
    /\ w.by \in Loops /\ task[w.by].pc = "command"
    /\ task[w.by].request = w /\ task[w.by].answer = NoAnswer
    /\ Registered /\ w.artifact = deal.artifact

CommandIsAwaited == \A w \in writes : w.kind = "delivered" => Awaited(w)

(* A task that is about to replace the artifact, or has just done so, read *)
(* that the work is on: nothing but a missed deadline can have ended it.   *)
Replacing(l) ==
    \/ task[l].pc = "status" /\ task[l].seen.state = "FULFILLING"
    \/ task[l].pc \in {"domain", "generate", "evidence"}

ReplacedWhileFulfilling ==
    \A l \in Loops : Replacing(l) => rtState \in {"FULFILLING", "DEFAULTED"}

OutcomeInv ==
    DeliveryInv /\ CommandIsAwaited /\ ReplacedWhileFulfilling /\ EvidenceResolves

-----------------------------------------------------------------------------
(* What a step does to the record and to the agreement: the record stays   *)
(* with its artifact; the agreement's work is not taken back, and nothing  *)
(* is committed.                                                           *)
RecordKept == Registered => Registered' /\ deal'.artifact = deal.artifact

NothingCommitted ==
    /\ delivered' = delivered
    /\ rtState' \in Committed => rtState \in Committed
    /\ rtState \in {"FULFILLING", "DEFAULTED"} => rtState' \in {"FULFILLING", "DEFAULTED"}

LEMMA RuntimeUnchanged == UNCHANGED <<rtState, delivered>> => NothingCommitted
  BY DEF NothingCommitted

LEMMA SellerCommitsNothing == SellerStep => NothingCommitted
<1>1. ASSUME NEW c \in Countersigns, NEW valid \in BOOLEAN,
             \/ CountersignRead(c) \/ CountersignCardFails(c) \/ CountersignUnquoted(c)
             \/ CountersignAccept(c, valid) \/ CountersignAnswer(c) \/ CountersignFails(c)
      PROVE  UNCHANGED delivered
  BY <1>1 DEF CountersignRead, CountersignCardFails, CountersignUnquoted,
              CountersignAccept, CountersignAnswer, CountersignFails, rtVars
<1>2. ASSUME NEW f \in Fundings,
             FundingRead(f) \/ FundingSign(f) \/ FundingAnswer(f) \/ FundingFails(f)
      PROVE  UNCHANGED delivered
  BY <1>2 DEF FundingRead, FundingSign, FundingAnswer, FundingFails, rtVars
<1>3. ASSUME NEW n \in Notices, NoticeRead(n) \/ NoticeRefused(n) \/ NoticeAccepted(n)
      PROVE  UNCHANGED delivered
  BY <1>3 DEF NoticeRead, NoticeRefused, NoticeAccepted, rtVars
<1>4. ASSUME NEW l \in Loops, LoopStep(l) \/ DeliveryFails(l) \/ ProbeFails(l)
      PROVE  UNCHANGED delivered
  BY <1>4 DEF LoopStep, DeliveryRead, DeliveryObserve, DeliveryDomain, DeliveryPrepared,
              DeliveryEvidence, DeliveryAnswer, ProbeRead, ProbeApply, DeliveryFails,
              ProbeFails, rtVars
<1>5. ASSUME NEW v \in Viewers \cup {Watcher}, RefreshRead(v) \/ RefreshApply(v)
      PROVE  UNCHANGED delivered
  BY <1>5 DEF RefreshRead, RefreshApply, rtVars
<1>6. ASSUME NEW r \in Responses, NEW kind \in {"appealed", "refund_consented"},
             \/ ResponseRead(r) \/ ResponseAnswer(r) \/ ResponseFails(r)
             \/ ResponseSubmit(r, kind)
      PROVE  UNCHANGED delivered
  BY <1>6 DEF ResponseRead, ResponseAnswer, ResponseFails, ResponseSubmit, rtVars
<1>7. ASSUME Reclaim \/ EvictQuote \/ BindingLapses \/ BindingRestored
      PROVE  UNCHANGED delivered
  BY <1>7 DEF Reclaim, EvictQuote, BindingLapses, BindingRestored, rtVars
<1>8. SellerStep => UNCHANGED delivered
  BY <1>1, <1>2, <1>3, <1>4, <1>5, <1>6, <1>7, Zenon DEF SellerStep
<1> QED BY <1>8, SellerLeavesRecord, RuntimeUnchanged

LEMMA OutsideCommitsNothing == OutsideStep => NothingCommitted
<1> SUFFICES ASSUME OutsideStep PROVE NothingCommitted
  OBVIOUS
<1>1. /\ UNCHANGED delivered
      /\ \/ UNCHANGED rtState
         \/ \E s \in AgreementStates \ {"DELIVERED", "COMMITTED"} :
               /\ Transition(s)
               /\ s = "CANCELLED" => rtState \in {"REJECTED", "DISPUTED"}
  BY DEF OutsideStep, BuyerFunds, ConfirmFund, DeadlinePasses, DeliveryMissed,
         OtherPartyMoves, ArbiterDecides, AgreementStates
<1>2. CASE UNCHANGED rtState
  BY <1>1, <1>2, RuntimeUnchanged
<1>3. ASSUME NEW s \in AgreementStates \ {"DELIVERED", "COMMITTED"},
             <<rtState, s>> \in Edges, rtState' = s,
             s = "CANCELLED" => rtState \in {"REJECTED", "DISPUTED"}
      PROVE  NothingCommitted
  BY <1>1, <1>3 DEF Edges, NothingCommitted, Committed
<1> QED BY <1>1, <1>2, <1>3 DEF Transition

(* The record, when nobody prunes. *)
LEMMA ObservedKept ==
    ASSUME TypeOK, NEW st, deal' = deal \/ (Registered /\ deal' = Observed(deal, st))
    PROVE  RecordKept
<1>1. deal \in DealRecord
  BY DEF TypeOK
<1> QED BY <1>1, ObservedFacts DEF RecordKept, Registered

LEMMA CountersignKeepsRecord ==
    ASSUME DeliveryInv, Reclaiming = FALSE, NEW c \in Countersigns, NEW valid \in BOOLEAN,
           \/ CountersignRead(c) \/ CountersignCardFails(c) \/ CountersignUnquoted(c)
           \/ CountersignAccept(c, valid) \/ CountersignAnswer(c) \/ CountersignFails(c)
    PROVE  RecordKept
<1>1. TypeOK /\ deal \in DealRecord /\ Pruned = {deal}
  BY DEF DeliveryInv, TypeOK, Pruned
<1>2. CASE CountersignAccept(c, valid)
  <2>1. SUFFICES ASSUME Registered PROVE Registered' /\ deal'.artifact = deal.artifact
    BY DEF RecordKept
  <2> DEFINE observed == Observed(deal, task[c].seen)
  <2>2. deal # NoDeal
    BY <2>1 DEF Registered, NoDeal
  <2>3. deal' \in {observed, [observed EXCEPT !.state = "ACCEPTED_LOCAL"]}
    BY <1>1, <1>2, <2>2 DEF CountersignAccept, RegisterAndAccept
  <2>4. /\ observed.artifact = deal.artifact /\ observed.state = deal.state
        /\ observed \in DealRecord
    BY <1>1, ObservedFacts, ObservedTypes, TaskTypes, KindsOfTasks
  <2> HIDE DEF observed
  <2>5. deal'.artifact = observed.artifact /\ deal'.state \in {observed.state, "ACCEPTED_LOCAL"}
    BY <2>3, <2>4 DEF DealRecord
  <2> QED BY <2>1, <2>4, <2>5 DEF Registered
<1>3. CASE CountersignAnswer(c)
  BY <1>1, <1>3, ObservedKept DEF CountersignAnswer
<1>4. CASE CountersignUnquoted(c)
  BY <1>1, <1>4, ObservedKept DEF CountersignUnquoted
<1>5. CASE CountersignRead(c) \/ CountersignCardFails(c) \/ CountersignFails(c)
  BY <1>1, <1>5, ObservedKept DEF CountersignRead, CountersignCardFails, CountersignFails,
                                  storeVars
<1> QED BY <1>2, <1>3, <1>4, <1>5

LEMMA RefreshKeepsRecord ==
    ASSUME DeliveryInv, NEW v \in Viewers \cup {Watcher}, RefreshApply(v)
    PROVE  RecordKept
<1> DEFINE observed == Observed(deal, task[v].seen)
<1>1. deal \in DealRecord
  BY DEF DeliveryInv, TypeOK
<1>2. observed \in DealRecord
  BY <1>1, TaskTypes, ObservedTypes, KindsOfTasks DEF DeliveryInv
<1>3. deal' \in {deal, observed, [observed EXCEPT !.revoked = TRUE]}
  BY DEF RefreshApply
<1>4. observed.artifact = deal.artifact /\ observed.state = deal.state
  BY <1>1, ObservedFacts
<1> HIDE DEF observed
<1>5. deal'.artifact = deal.artifact /\ deal'.state = deal.state
  BY <1>2, <1>3, <1>4 DEF DealRecord
<1> QED BY <1>5 DEF RecordKept, Registered

-----------------------------------------------------------------------------
(* What was committed stays with the record, unless the step commits.      *)
LEMMA ResolvesKept ==
    ASSUME EvidenceResolves, NothingCommitted, RecordKept \/ rtState \notin Committed
    PROVE  EvidenceResolves'
  BY DEF EvidenceResolves, NothingCommitted, RecordKept, Committed

(* A step of somebody else than a delivery task. *)
LEMMA CalmOutcome ==
    ASSUME OutcomeInv, DeliveryInv', RecordKept, NothingCommitted, NothingSent,
           \A l \in Loops : task'[l] = task[l]
    PROVE  OutcomeInv'
<1>1. CommandIsAwaited'
  BY DEF OutcomeInv, CommandIsAwaited, Awaited, NothingSent, RecordKept
<1>2. ReplacedWhileFulfilling'
  BY DEF OutcomeInv, ReplacedWhileFulfilling, Replacing, NothingCommitted
<1> QED BY <1>1, <1>2, ResolvesKept DEF OutcomeInv

(* While a delivery task runs, a command on the wire is its own.           *)
LEMMA CommandIsOwn ==
    ASSUME OutcomeInv, NEW l \in Loops, Running(l), NEW w \in writes, w.kind = "delivered"
    PROVE  w.by = l /\ Awaited(w)
<1>1. Awaited(w) /\ Running(w.by)
  BY DEF OutcomeInv, CommandIsAwaited, Awaited, Running
<1> QED BY <1>1 DEF OutcomeInv, DeliveryInv, OneDelivery, Awaited

NoCommand == \A w \in writes : w.kind # "delivered"

LEMMA NoCommandYet ==
    ASSUME OutcomeInv, NEW l \in Loops, Running(l),
           task[l].pc # "command" \/ task[l].answer # NoAnswer
    PROVE  NoCommand
  BY CommandIsOwn DEF NoCommand, Awaited

(* A step of a delivery task that leaves no command on the wire. *)
LEMMA LoopOutcome ==
    ASSUME OutcomeInv, DeliveryInv', NEW l \in Loops, NoCommand',
           \A m \in Loops \ {l} : task'[m] = task[m],
           Replacing(l)' => rtState \in {"FULFILLING", "DEFAULTED"},
           RecordKept \/ rtState \notin Committed, NothingCommitted
    PROVE  OutcomeInv'
<1>1. CommandIsAwaited'
  BY DEF CommandIsAwaited, NoCommand
<1>2. ReplacedWhileFulfilling'
  BY DEF OutcomeInv, ReplacedWhileFulfilling, Replacing, NothingCommitted
<1> QED BY <1>1, <1>2, ResolvesKept DEF OutcomeInv

(* A task that gives up takes its command off the wire: no late writes.    *)
LEMMA GivenUp ==
    ASSUME OutcomeInv, LateWrites = FALSE, NEW l \in Loops, Running(l), NEW pc,
           TransportFails(l, pc)
    PROVE  NoCommand'
<1>1. writes' = writes \ {task[l].request}
  BY DEF TransportFails
<1> QED BY <1>1, CommandIsOwn DEF NoCommand, Awaited

(* handleNotification() starts a delivery, and no command is on the wire   *)
(* then.                                                                   *)
LEMMA NoticeOutcome ==
    ASSUME OutcomeInv, DeliveryInv', NEW n \in Notices, NoticeAccepted(n)
    PROVE  OutcomeInv'
<1>1. /\ TypeOK /\ task \in [Tasks -> TaskRecord] /\ n \in Tasks /\ n \notin Loops
      /\ UNCHANGED <<writes, rtState, delivered>>
      /\ RecordKept /\ NothingCommitted
  BY RuntimeUnchanged, ObservedKept, TasksAreApart, KindsOfTasks
     DEF OutcomeInv, DeliveryInv, TypeOK, NoticeAccepted
<1>2. CASE delivering /\ Goto(n, "idle")
  BY <1>1, <1>2, GotoFacts, CalmOutcome, KindsOfTasks DEF NothingSent
<1>3. ASSUME ~delivering, NEW l \in Loops, task[l].pc = "idle",
             task' = [task EXCEPT ![n] = IdleTask, ![l].pc = "start"]
      PROVE  OutcomeInv'
  <2>1. task[l] \in TaskRecord
    BY <1>1, KindsOfTasks
  <2>2. /\ task'[l] = [task[l] EXCEPT !.pc = "start"]
        /\ \A m \in Loops \ {l} : task'[m] = task[m]
    BY <1>1, <1>3, KindsOfTasks
  <2>3. task'[l].pc = "start"
    BY <2>1, <2>2 DEF TaskRecord
  <2>4. \A m \in Loops : ~Running(m)
    BY <1>3 DEF OutcomeInv, DeliveryInv, OneDelivery
  <2>5. NoCommand'
    BY <1>1, <2>4 DEF NoCommand, OutcomeInv, CommandIsAwaited, Awaited, Running
  <2> QED BY <1>1, <2>2, <2>3, <2>5, LoopOutcome DEF Replacing
<1> QED BY <1>2, <1>3 DEF NoticeAccepted

(* runDelivery() and its catch block. *)
LEMMA DeliveryOutcome ==
    ASSUME OutcomeInv, DeliveryInv', LateWrites = FALSE, NEW l \in Loops,
           LoopStep(l) \/ DeliveryFails(l) \/ ProbeFails(l)
    PROVE  OutcomeInv'
<1>1. /\ TypeOK /\ deal \in DealRecord /\ task \in [Tasks -> TaskRecord] /\ l \in Tasks
      /\ task[l] \in TaskRecord
  BY KindsOfTasks DEF OutcomeInv, DeliveryInv, TypeOK
<1>2. UNCHANGED <<rtState, delivered>> /\ NothingCommitted
  BY RuntimeUnchanged
     DEF LoopStep, DeliveryRead, DeliveryObserve, DeliveryDomain, DeliveryPrepared, DeliveryEvidence,
         DeliveryAnswer, ProbeRead, ProbeApply, DeliveryFails, ProbeFails, rtVars
<1>3. Running(l)
  BY DEF LoopStep, DeliveryRead, DeliveryObserve, DeliveryDomain, DeliveryPrepared, DeliveryEvidence,
         DeliveryAnswer, ProbeRead, ProbeApply, DeliveryFails, ProbeFails, Running
<1>4. Replacing(l) => rtState \in {"FULFILLING", "DEFAULTED"}
  BY DEF OutcomeInv, ReplacedWhileFulfilling
<1>5. CASE DeliveryRead(l)
  <2>1. /\ task[l].pc = "start" /\ UNCHANGED <<writes, deal>>
        /\ Read(l, "status") \/ Goto(l, "probe")
    BY <1>5 DEF DeliveryRead, storeVars
  <2>2. RecordKept /\ NoCommand'
    BY <1>1, <1>3, <2>1, ObservedKept, NoCommandYet DEF NoCommand
  <2>3. /\ \A m \in Loops \ {l} : task'[m] = task[m]
        /\ \/ task'[l].pc = "probe"
           \/ task'[l].pc = "status" /\ task'[l].seen.state = rtState
    BY <1>1, <2>1, ReadFacts, GotoFacts, KindsOfTasks DEF CurrentStatus
  <2> QED BY <1>2, <2>2, <2>3, LoopOutcome DEF Replacing
<1>6. CASE DeliveryObserve(l)
  <2>1. /\ task[l].pc = "status" /\ UNCHANGED writes
        /\ deal' = IF Registered THEN Observed(deal, task[l].seen) ELSE deal
    BY <1>6 DEF DeliveryObserve
  <2>2. RecordKept /\ NoCommand'
    BY <1>1, <1>3, <2>1, ObservedKept, NoCommandYet DEF NoCommand
  <2>3. CASE Goto(l, "probe")
    <3>1. task'[l].pc = "probe" /\ \A m \in Loops \ {l} : task'[m] = task[m]
      BY <1>1, <2>3, GotoFacts, KindsOfTasks
    <3> QED BY <1>2, <2>2, <3>1, LoopOutcome DEF Replacing
  <2>4. CASE /\ task[l].seen.state = "FULFILLING"
             /\ \/ BeginPreparation(l)
                \/ task' = [task EXCEPT ![l] = [@ EXCEPT !.pc = "domain"]]
    <3>1. \A m \in Loops \ {l} : task'[m] = task[m]
      BY <1>1, <2>4, BeginFacts, GotoFacts, KindsOfTasks
    <3>2. rtState \in {"FULFILLING", "DEFAULTED"}
      BY <1>4, <2>1, <2>4 DEF Replacing
    <3> QED BY <1>2, <2>2, <3>1, <3>2, LoopOutcome
  <2> QED BY <1>6, <2>3, <2>4 DEF DeliveryObserve
<1>13. CASE DeliveryDomain(l)
  <2>1. task[l].pc = "domain" /\ BeginPreparation(l) /\ UNCHANGED <<writes, deal>>
    BY <1>13 DEF DeliveryDomain, storeVars
  <2>2. RecordKept /\ NoCommand'
    BY <1>1, <1>3, <2>1, ObservedKept, NoCommandYet DEF NoCommand
  <2>3. \A m \in Loops \ {l} : task'[m] = task[m]
    BY <1>1, <2>1, BeginFacts, GotoFacts, KindsOfTasks
  <2>4. rtState \in {"FULFILLING", "DEFAULTED"}
    BY <1>4, <2>1 DEF Replacing
  <2> QED BY <1>2, <2>2, <2>3, <2>4, LoopOutcome
<1>7. CASE DeliveryPrepared(l)
  <2>1. task[l].pc = "generate" /\ rtState \in {"FULFILLING", "DEFAULTED"}
    BY <1>4, <1>7 DEF DeliveryPrepared, Replacing
  <2>2. NoCommand
    BY <1>3, <2>1, NoCommandYet
  <2>3. rtState \notin Committed
    BY <2>1 DEF Committed
  <2>4. CASE Goto(l, "probe") /\ UNCHANGED writes
    <3>1. task'[l].pc = "probe" /\ \A m \in Loops \ {l} : task'[m] = task[m]
      BY <1>1, <2>4, GotoFacts, KindsOfTasks
    <3> QED BY <1>2, <2>1, <2>2, <2>3, <2>4, <3>1, LoopOutcome DEF NoCommand
  <2>5. CASE Registered
    <3> DEFINE w == Submission(l, "evidence", minted + 1, 0)
               moved == [task EXCEPT ![l] = [@ EXCEPT !.pc = "evidence", !.request = w]]
    <3>1. writes' = writes \cup {w} /\ task' = WatchOutcome(moved)
      BY <1>7, <2>5 DEF DeliveryPrepared
    <3>2. w.kind = "evidence" /\ w \in Write
      BY <1>1, SubmissionTypes DEF Submission, WriteKinds, TypeOK
    <3>3. NoCommand'
      BY <2>2, <3>1, <3>2 DEF NoCommand
    <3> HIDE DEF w
    <3>4. [task[l] EXCEPT !.pc = "evidence", !.request = w] \in TaskRecord
      BY <1>1, <3>2 DEF TaskRecord, PCs
    <3>5. moved \in [Tasks -> TaskRecord] /\ \A m \in Loops \ {l} : moved[m] = task[m]
      BY <1>1, <3>4, KindsOfTasks
    <3> HIDE DEF moved
    <3>6. \A m \in Loops \ {l} : task'[m] = task[m]
      BY <3>1, <3>5, WatchFacts, KindsOfTasks, LiveConstants
    <3> QED BY <1>2, <2>1, <2>3, <3>3, <3>6, LoopOutcome
  <2> QED BY <1>7, <2>4, <2>5 DEF DeliveryPrepared
<1>8. CASE DeliveryEvidence(l)
  <2>1. task[l].pc = "evidence" /\ rtState \in {"FULFILLING", "DEFAULTED"} /\ UNCHANGED deal
    BY <1>4, <1>8 DEF DeliveryEvidence, Replacing, storeVars
  <2>2. NoCommand /\ RecordKept
    BY <1>1, <1>3, <2>1, NoCommandYet, ObservedKept
  <2>3. CASE Goto(l, "probe") /\ UNCHANGED writes
    <3>1. task'[l].pc = "probe" /\ \A m \in Loops \ {l} : task'[m] = task[m]
      BY <1>1, <2>3, GotoFacts, KindsOfTasks
    <3> QED BY <1>2, <2>1, <2>2, <2>3, <3>1, LoopOutcome DEF NoCommand
  <2>4. CASE Registered /\ deal.artifact # 0
    <3> DEFINE w == Submission(l, "delivered", deal.artifact, task[l].answer.evidence)
    <3>1. Submit(l, "command", w)
      BY <1>8, <2>4 DEF DeliveryEvidence
    <3>2. w.by = l /\ w.artifact = deal.artifact
      BY DEF Submission
    <3> HIDE DEF w
    <3>3. /\ writes' = writes \cup {w}
          /\ task'[l].pc = "command" /\ task'[l].request = w /\ task'[l].answer = NoAnswer
          /\ \A m \in Tasks \ {l} : task'[m] = task[m]
      BY <1>1, <3>1, SubmitFacts
    <3>4. CommandIsAwaited'
      BY <2>1, <2>2, <2>4, <3>2, <3>3
         DEF CommandIsAwaited, Awaited, NoCommand, Registered
    <3>5. ReplacedWhileFulfilling'
      BY <1>2, <2>1, <3>3, KindsOfTasks
         DEF OutcomeInv, ReplacedWhileFulfilling, Replacing
    <3> QED BY <1>2, <2>2, <3>4, <3>5, ResolvesKept DEF OutcomeInv
  <2> QED BY <1>8, <2>3, <2>4 DEF DeliveryEvidence
<1>9. CASE DeliveryAnswer(l)
  <2>1. /\ task[l].pc = "command" /\ task[l].answer.kind # "none" /\ UNCHANGED writes
        /\ deal' = deal \/ (Registered /\ deal' = Observed(deal, task[l].answer.status))
        /\ Goto(l, "idle") \/ Goto(l, "probe")
    BY <1>9 DEF DeliveryAnswer
  <2>2. RecordKept /\ NoCommand'
    BY <1>1, <1>3, <2>1, ObservedKept, NoCommandYet DEF NoCommand, NoAnswer
  <2>3. task'[l].pc \in {"idle", "probe"} /\ \A m \in Loops \ {l} : task'[m] = task[m]
    BY <1>1, <2>1, GotoFacts, KindsOfTasks
  <2> QED BY <1>2, <2>2, <2>3, LoopOutcome DEF Replacing
<1>10. CASE DeliveryFails(l)
  <2>1. TransportFails(l, "probe") /\ UNCHANGED deal
    BY <1>10 DEF DeliveryFails, storeVars
  <2>2. RecordKept /\ NoCommand'
    BY <1>1, <1>3, <2>1, ObservedKept, GivenUp
  <2>3. task'[l].pc = "probe" /\ \A m \in Loops \ {l} : task'[m] = task[m]
    BY <1>1, <2>1, FailureFacts, KindsOfTasks
  <2> QED BY <1>2, <2>2, <2>3, LoopOutcome DEF Replacing
<1>11. CASE ProbeRead(l)
  <2>1. task[l].pc = "probe" /\ Read(l, "probed") /\ UNCHANGED <<writes, deal>>
    BY <1>11 DEF ProbeRead, storeVars
  <2>2. RecordKept /\ NoCommand'
    BY <1>1, <1>3, <2>1, ObservedKept, NoCommandYet DEF NoCommand
  <2>3. task'[l].pc = "probed" /\ \A m \in Loops \ {l} : task'[m] = task[m]
    BY <1>1, <2>1, ReadFacts, KindsOfTasks
  <2> QED BY <1>2, <2>2, <2>3, LoopOutcome DEF Replacing
<1>12. CASE ProbeApply(l) \/ ProbeFails(l)
  <2>1. /\ task[l].pc \in {"probe", "probed"} /\ UNCHANGED writes
        /\ deal' = deal \/ (Registered /\ deal' = Observed(deal, task[l].seen))
        /\ Goto(l, "idle") \/ Goto(l, "start")
    BY <1>12 DEF ProbeApply, ProbeFails, storeVars
  <2>2. RecordKept /\ NoCommand'
    BY <1>1, <1>3, <2>1, ObservedKept, NoCommandYet DEF NoCommand
  <2>3. task'[l].pc \in {"idle", "start"} /\ \A m \in Loops \ {l} : task'[m] = task[m]
    BY <1>1, <2>1, GotoFacts, KindsOfTasks
  <2> QED BY <1>2, <2>2, <2>3, LoopOutcome DEF Replacing
<1> QED BY <1>5, <1>6, <1>7, <1>8, <1>9, <1>10, <1>11, <1>12, <1>13 DEF LoopStep

(* The Runtime commits the artifact of the command, which the record has;  *)
(* the task that sent it awaits the answer, so none replaces the artifact. *)
LEMMA RuntimeOutcome ==
    ASSUME OutcomeInv, DeliveryInv', RuntimeStep
    PROVE  OutcomeInv'
<1>1. PICK w \in writes : RuntimeHandles(w)
  BY DEF RuntimeStep
<1>2. /\ TypeOK /\ w \in Write /\ UNCHANGED deal
  BY <1>1 DEF RuntimeHandles, HandleAcceptance, HandleFundingSignatures, HandleEvidence,
              HandleDelivered, HandleResponse, SellerUnchanged, storeVars, OutcomeInv,
              DeliveryInv, TypeOK
<1>3. RecordKept
  BY <1>2 DEF RecordKept, Registered
<1>4. PICK kind, st, ev : Handled(w, kind, st, ev)
  BY <1>1 DEF RuntimeHandles, HandleAcceptance, HandleFundingSignatures, HandleEvidence,
              HandleDelivered, HandleResponse
<1>5. /\ writes' = writes \ {w}
      /\ \A t \in Tasks :
            /\ task'[t].pc = task[t].pc /\ task'[t].seen = task[t].seen
            /\ task'[t].request = task[t].request
            /\ task'[t].answer = task[t].answer \/ task[t].request = w
  BY <1>2, <1>4, HandledFacts
<1>6. CommandIsAwaited'
  <2>1. SUFFICES ASSUME NEW v \in writes \ {w}, v.kind = "delivered" PROVE Awaited(v)'
    BY <1>5 DEF CommandIsAwaited
  <2>2. Awaited(v) /\ v.by \in Tasks /\ v # w
    BY <2>1, KindsOfTasks DEF OutcomeInv, CommandIsAwaited, Awaited
  <2>3. Registered' /\ deal' = deal
    BY <1>2, <2>2 DEF Awaited, Registered
  <2> QED BY <1>5, <2>2, <2>3 DEF Awaited
<1>7. CASE NothingCommitted
  <2>1. ReplacedWhileFulfilling'
    BY <1>5, <1>7, KindsOfTasks
       DEF OutcomeInv, ReplacedWhileFulfilling, Replacing, NothingCommitted
  <2> QED BY <1>3, <1>6, <1>7, <2>1, ResolvesKept DEF OutcomeInv
<1>8. CASE w.kind = "delivered" /\ rtState' = "DELIVERED" /\ delivered' = w.artifact
  <2>1. Awaited(w)
    BY <1>8 DEF OutcomeInv, CommandIsAwaited
  <2>2. EvidenceResolves'
    BY <1>2, <1>8, <2>1 DEF EvidenceResolves, Awaited, Registered
  <2>3. \A l \in Loops : task[l].pc \in {"idle", "command"}
    BY <2>1 DEF Awaited, OutcomeInv, DeliveryInv, OneDelivery, Running
  <2>4. ReplacedWhileFulfilling'
    BY <1>5, <2>3, KindsOfTasks DEF ReplacedWhileFulfilling, Replacing
  <2> QED BY <1>6, <2>2, <2>4 DEF OutcomeInv
<1>9. CASE HandleDelivered(w)
  BY <1>7, <1>8, <1>9, RuntimeUnchanged DEF HandleDelivered, Transition
<1>10. CASE HandleAcceptance(w)
  BY <1>7, <1>10 DEF HandleAcceptance, Transition, NothingCommitted, Committed
<1>11. CASE HandleFundingSignatures(w) \/ HandleEvidence(w)
  BY <1>7, <1>11, RuntimeUnchanged DEF HandleFundingSignatures, HandleEvidence
<1>12. CASE HandleResponse(w)
  BY <1>7, <1>12 DEF HandleResponse, Transition, NothingCommitted, Committed
<1> QED BY <1>1, <1>9, <1>10, <1>11, <1>12 DEF RuntimeHandles

-----------------------------------------------------------------------------
LEMMA OutcomeInvInit == Init => OutcomeInv
<1> SUFFICES ASSUME Init PROVE OutcomeInv
  OBVIOUS
<1>1. DeliveryInv /\ (\A l \in Loops : task[l] = IdleTask) /\ writes = {} /\ rtState = "PROPOSED"
  BY DeliveryInvInit, KindsOfTasks, LiveConstants DEF Init
<1>2. \A l \in Loops : task[l].pc = "idle"
  BY <1>1 DEF IdleTask
<1> QED BY <1>1, <1>2
        DEF OutcomeInv, CommandIsAwaited, ReplacedWhileFulfilling, Replacing, EvidenceResolves

LEMMA OutcomeInvStays ==
    ASSUME OutcomeInv, [Next]_vars, LateWrites = FALSE, Reclaiming = FALSE
    PROVE  OutcomeInv'
<1>1. DeliveryInv' /\ TypeOK
  BY DeliveryInvStays DEF OutcomeInv, DeliveryInv
<1> USE DEF Calm
<1>2. ASSUME NEW c \in Countersigns, NEW valid \in BOOLEAN, SellerStep,
             \/ CountersignRead(c) \/ CountersignCardFails(c) \/ CountersignUnquoted(c)
             \/ CountersignAccept(c, valid) \/ CountersignAnswer(c) \/ CountersignFails(c)
      PROVE  OutcomeInv'
  <2>1. Calm /\ RecordKept
    BY <1>2, CountersignIsCalm, CountersignKeepsRecord DEF OutcomeInv
  <2> QED BY <1>1, <1>2, <2>1, SellerCommitsNothing, CalmOutcome
<1>3. ASSUME NEW f \in Fundings, SellerStep,
             FundingRead(f) \/ FundingSign(f) \/ FundingAnswer(f) \/ FundingFails(f)
      PROVE  OutcomeInv'
  <2>1. Calm
    BY <1>3, FundingIsCalm DEF OutcomeInv
  <2>2. RecordKept
    BY <1>1, <1>3, ObservedKept
       DEF FundingRead, FundingSign, FundingAnswer, FundingFails, storeVars
  <2> QED BY <1>1, <1>3, <2>1, <2>2, SellerCommitsNothing, CalmOutcome
<1>4. ASSUME NEW n \in Notices, SellerStep,
             NoticeRead(n) \/ NoticeRefused(n) \/ NoticeAccepted(n)
      PROVE  OutcomeInv'
  <2>1. CASE NoticeAccepted(n)
    BY <1>1, <2>1, NoticeOutcome
  <2>2. CASE NoticeRead(n) \/ NoticeRefused(n)
    <3>1. Calm
      BY <2>2, NoticeIsCalm DEF OutcomeInv
    <3>2. RecordKept
      BY <1>1, <2>2, ObservedKept DEF NoticeRead, NoticeRefused, storeVars
    <3> QED BY <1>1, <1>4, <3>1, <3>2, SellerCommitsNothing, CalmOutcome
  <2> QED BY <1>4, <2>1, <2>2
<1>5. ASSUME NEW l \in Loops, LoopStep(l) \/ DeliveryFails(l) \/ ProbeFails(l)
      PROVE  OutcomeInv'
  BY <1>1, <1>5, DeliveryOutcome
<1>6. ASSUME NEW v \in Viewers \cup {Watcher}, SellerStep, RefreshRead(v) \/ RefreshApply(v)
      PROVE  OutcomeInv'
  <2>1. RecordKept
    BY <1>1, <1>6, ObservedKept, RefreshKeepsRecord DEF RefreshRead, storeVars, OutcomeInv
  <2>2. \A l \in Loops : task'[l] = task[l]
    BY <1>1, <1>6, ReadFacts, GotoFacts, TasksAreApart, KindsOfTasks, LiveConstants
       DEF RefreshRead, RefreshApply
  <2>3. NothingSent
    BY <1>6 DEF RefreshRead, RefreshApply, NothingSent
  <2> QED BY <1>1, <1>6, <2>1, <2>2, <2>3, SellerCommitsNothing, CalmOutcome
<1>7. ASSUME NEW r \in Responses, NEW kind \in {"appealed", "refund_consented"}, SellerStep,
             \/ ResponseRead(r) \/ ResponseAnswer(r) \/ ResponseFails(r)
             \/ ResponseSubmit(r, kind)
      PROVE  OutcomeInv'
  <2>1. Calm
    BY <1>7, ResponseIsCalm DEF OutcomeInv
  <2>2. RecordKept
    BY <1>1, <1>7, ObservedKept
       DEF ResponseRead, ResponseAnswer, ResponseFails, ResponseSubmit, storeVars
  <2> QED BY <1>1, <1>7, <2>1, <2>2, SellerCommitsNothing, CalmOutcome
<1>8. ASSUME \/ Reclaim \/ EvictQuote \/ BindingLapses \/ BindingRestored \/ OutsideStep
             \/ UNCHANGED vars,
             NothingCommitted
      PROVE  OutcomeInv'
  <2>1. Calm
    BY <1>8, OutsideIsCalm DEF OutcomeInv
  <2>2. UNCHANGED deal
    BY <1>8 DEF Reclaim, Pruned, EvictQuote, BindingLapses, BindingRestored, OutsideStep,
                BuyerFunds, ConfirmFund, DeadlinePasses, DeliveryMissed, OtherPartyMoves,
                ArbiterDecides, Outside, SellerUnchanged, storeVars, vars
  <2> QED BY <1>1, <1>8, <2>1, <2>2, ObservedKept, CalmOutcome
<1>9. CASE SellerStep
  BY <1>2, <1>3, <1>4, <1>5, <1>6, <1>7, <1>8, <1>9, SellerCommitsNothing, Zenon DEF SellerStep
<1>10. CASE RuntimeStep
  BY <1>1, <1>10, RuntimeOutcome
<1>11. CASE OutsideStep
  BY <1>8, <1>11, OutsideCommitsNothing
<1>12. CASE UNCHANGED vars
  BY <1>8, <1>12, RuntimeUnchanged DEF vars, rtVars
<1> QED BY <1>9, <1>10, <1>11, <1>12, NextCases

(* The evidence record the Runtime committed resolves: from the delivered  *)
(* command on, through a rejection and a dispute, the seller holds the     *)
(* deal and serves the artifact it committed to, however often delivery    *)
(* was retried and whatever calls failed on the way.                       *)
THEOREM LiveEvidenceResolves ==
    ASSUME LateWrites = FALSE, Reclaiming = FALSE
    PROVE  Spec => []EvidenceResolves
<1>1. OutcomeInv /\ [Next]_vars => OutcomeInv'
  BY OutcomeInvStays
<1>2. OutcomeInv => EvidenceResolves
  BY DEF OutcomeInv
<1> QED BY OutcomeInvInit, <1>1, <1>2, PTL DEF Spec

=============================================================================
