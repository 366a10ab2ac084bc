-------------------------- MODULE LiveSellerProofs --------------------------
(***************************************************************************)
(* Proofs about LiveSeller, for any number of requests, notifications,     *)
(* delivery tasks, admin pages and faults, with or without late writes and *)
(* prunes.                                                                 *)
(***************************************************************************)
EXTENDS LiveSeller, TLAPS

(* Next, by who takes the step. *)
SellerStep ==
    \/ \E c \in Countersigns :
          \/ CountersignRead(c) \/ CountersignCardFails(c) \/ CountersignUnquoted(c)
          \/ \E valid \in BOOLEAN : CountersignAccept(c, valid)
          \/ CountersignAnswer(c) \/ CountersignFails(c)
    \/ \E f \in Fundings :
          FundingRead(f) \/ FundingSign(f) \/ FundingAnswer(f) \/ FundingFails(f)
    \/ \E n \in Notices : NoticeRead(n) \/ NoticeRefused(n) \/ NoticeAccepted(n)
    \/ \E l \in Loops : LoopStep(l) \/ DeliveryFails(l) \/ ProbeFails(l)
    \/ \E v \in Viewers \cup {Watcher} : RefreshRead(v) \/ RefreshApply(v)
    \/ \E r \in Responses :
          \/ ResponseRead(r) \/ ResponseAnswer(r) \/ ResponseFails(r)
          \/ \E kind \in {"appealed", "refund_consented"} : ResponseSubmit(r, kind)
    \/ Reclaim \/ EvictQuote \/ BindingLapses \/ BindingRestored

RuntimeStep == \E w \in writes : RuntimeHandles(w)

OutsideStep ==
    \/ BuyerFunds \/ ConfirmFund \/ DeadlinePasses \/ DeliveryMissed \/ OtherPartyMoves
    \/ \E bps \in {0, 10000} : ArbiterDecides(bps)

(* Every step is the seller's, the Runtime's or the outside world's. *)
LEMMA NextCases == Next => SellerStep \/ RuntimeStep \/ OutsideStep
  BY DEF Next, SellerStep, RuntimeStep, OutsideStep

(* No code of the seller changes the Runtime's record. *)
LEMMA SellerLeavesRecord == SellerStep => UNCHANGED <<rtState, rtRevision>>
<1>1. ASSUME NEW c \in Countersigns, NEW valid \in BOOLEAN,
             \/ CountersignRead(c) \/ CountersignCardFails(c) \/ CountersignUnquoted(c)
             \/ CountersignAccept(c, valid) \/ CountersignAnswer(c) \/ CountersignFails(c)
      PROVE  UNCHANGED <<rtState, rtRevision>>
  BY <1>1 DEF CountersignRead, CountersignCardFails, CountersignUnquoted,
              CountersignAccept, CountersignAnswer, CountersignFails, rtVars
<1>2. ASSUME NEW f \in Fundings,
             FundingRead(f) \/ FundingSign(f) \/ FundingAnswer(f) \/ FundingFails(f)
      PROVE  UNCHANGED <<rtState, rtRevision>>
  BY <1>2 DEF FundingRead, FundingSign, FundingAnswer, FundingFails, rtVars
<1>3. ASSUME NEW n \in Notices, NoticeRead(n) \/ NoticeRefused(n) \/ NoticeAccepted(n)
      PROVE  UNCHANGED <<rtState, rtRevision>>
  BY <1>3 DEF NoticeRead, NoticeRefused, NoticeAccepted, rtVars
<1>4. ASSUME NEW l \in Loops, LoopStep(l) \/ DeliveryFails(l) \/ ProbeFails(l)
      PROVE  UNCHANGED <<rtState, rtRevision>>
  BY <1>4 DEF LoopStep, DeliveryRead, DeliveryObserve, DeliveryDomain, BeginPreparation,
              DeliveryPrepared,
              DeliveryEvidence, DeliveryAnswer, ProbeRead, ProbeApply, DeliveryFails,
              ProbeFails, rtVars
<1>5. ASSUME NEW v \in Viewers \cup {Watcher}, RefreshRead(v) \/ RefreshApply(v)
      PROVE  UNCHANGED <<rtState, rtRevision>>
  BY <1>5 DEF RefreshRead, RefreshApply, rtVars
<1>6. ASSUME NEW r \in Responses, NEW kind \in {"appealed", "refund_consented"},
             \/ ResponseRead(r) \/ ResponseAnswer(r) \/ ResponseFails(r)
             \/ ResponseSubmit(r, kind)
      PROVE  UNCHANGED <<rtState, rtRevision>>
  BY <1>6 DEF ResponseRead, ResponseAnswer, ResponseFails, ResponseSubmit, rtVars
<1>7. ASSUME Reclaim \/ EvictQuote \/ BindingLapses \/ BindingRestored
      PROVE  UNCHANGED <<rtState, rtRevision>>
  BY <1>7 DEF Reclaim, EvictQuote, BindingLapses, BindingRestored, rtVars
<1> QED BY <1>1, <1>2, <1>3, <1>4, <1>5, <1>6, <1>7 DEF SellerStep

(* The buyer, the chain, the arbiter and the deadlines follow the table. *)
LEMMA OutsideFollowsEdges ==
    OutsideStep => \/ UNCHANGED <<rtState, rtRevision>>
                   \/ <<rtState, rtState'>> \in Edges /\ rtRevision' = rtRevision + 1
<1>1. BuyerFunds \/ DeadlinePasses => UNCHANGED <<rtState, rtRevision>>
  BY DEF BuyerFunds, DeadlinePasses
<1>2. ConfirmFund \/ DeliveryMissed \/ (\E bps \in {0, 10000} : ArbiterDecides(bps))
         => <<rtState, rtState'>> \in Edges /\ rtRevision' = rtRevision + 1
  BY DEF ConfirmFund, DeliveryMissed, ArbiterDecides, Transition, Edges
<1>3. OtherPartyMoves => <<rtState, rtState'>> \in Edges /\ rtRevision' = rtRevision + 1
  BY DEF OtherPartyMoves, Transition, Edges
<1> QED BY <1>1, <1>2, <1>3 DEF OutsideStep

-----------------------------------------------------------------------------
(* The terms are remembered before an acceptance is on the wire, and are   *)
(* never forgotten: that is why a commit finds them.                       *)
RememberedFirst == \A w \in writes : w.kind = "acceptance" => dealTerms

RememberInv == CommittedIsRemembered /\ RememberedFirst

(* Which acceptances the wire holds after a step: none that countersign()  *)
(* did not put there, with the terms remembered in the same step.          *)
LEMMA AcceptancesAreCountersigned ==
    ASSUME Next
    PROVE  /\ dealTerms => dealTerms'
           /\ \A w \in writes' : w.kind = "acceptance" => w \in writes \/ dealTerms'
<1> DEFINE Kept == /\ dealTerms => dealTerms'
                   /\ \A w \in writes' : w.kind = "acceptance" => w \in writes \/ dealTerms'
<1> USE DEF Submit, Submission, TransportFails
<1>1. ASSUME NEW c \in Countersigns,
             \/ CountersignRead(c) \/ CountersignCardFails(c) \/ CountersignUnquoted(c)
             \/ CountersignAnswer(c) \/ CountersignFails(c)
      PROVE  Kept
  BY <1>1 DEF CountersignRead, CountersignCardFails, CountersignUnquoted,
              CountersignAnswer, CountersignFails
<1>2. ASSUME NEW c \in Countersigns, NEW valid \in BOOLEAN, CountersignAccept(c, valid)
      PROVE  Kept
  <2>1. dealTerms' = (dealTerms \/ valid)
    BY <1>2 DEF CountersignAccept
  <2>2. CASE valid
    BY <2>1, <2>2, Zenon
  <2>3. CASE ~valid
    <3>1. writes' = writes
      BY <1>2, <2>3 DEF CountersignAccept
    <3> QED BY <2>1, <3>1, Zenon
  <2> QED BY <2>2, <2>3
<1>3. ASSUME NEW f \in Fundings,
             FundingRead(f) \/ FundingSign(f) \/ FundingAnswer(f) \/ FundingFails(f)
      PROVE  Kept
  BY <1>3 DEF FundingRead, FundingSign, FundingAnswer, FundingFails
<1>4. ASSUME NEW n \in Notices, NoticeRead(n) \/ NoticeRefused(n) \/ NoticeAccepted(n)
      PROVE  Kept
  BY <1>4 DEF NoticeRead, NoticeRefused, NoticeAccepted
<1>5. ASSUME NEW l \in Loops, LoopStep(l) \/ DeliveryFails(l) \/ ProbeFails(l)
      PROVE  Kept
  BY <1>5 DEF LoopStep, DeliveryRead, DeliveryObserve, DeliveryDomain, BeginPreparation,
              DeliveryPrepared,
              DeliveryEvidence, DeliveryAnswer, ProbeRead, ProbeApply, DeliveryFails,
              ProbeFails
<1>6. ASSUME NEW v \in Viewers \cup {Watcher}, RefreshRead(v) \/ RefreshApply(v)
      PROVE  Kept
  BY <1>6 DEF RefreshRead, RefreshApply
<1>7. ASSUME NEW r \in Responses, NEW kind \in {"appealed", "refund_consented"},
             \/ ResponseRead(r) \/ ResponseAnswer(r) \/ ResponseFails(r)
             \/ ResponseSubmit(r, kind)
      PROVE  Kept
  BY <1>7 DEF ResponseRead, ResponseAnswer, ResponseFails, ResponseSubmit
<1>8. ASSUME Reclaim \/ EvictQuote \/ BindingLapses \/ BindingRestored
      PROVE  Kept
  BY <1>8 DEF Reclaim, EvictQuote, BindingLapses, BindingRestored
<1>9. ASSUME RuntimeStep
      PROVE  Kept
  BY <1>9 DEF RuntimeStep, RuntimeHandles, HandleAcceptance, HandleFundingSignatures,
              HandleEvidence, HandleDelivered, HandleResponse, Handled, SellerUnchanged
<1>10. ASSUME OutsideStep
       PROVE  Kept
  BY <1>10 DEF OutsideStep, BuyerFunds, ConfirmFund, DeadlinePasses, DeliveryMissed,
              OtherPartyMoves, ArbiterDecides, Outside, SellerUnchanged
<1> HIDE DEF Kept
<1>11. Kept
  BY <1>1, <1>2, <1>3, <1>4, <1>5, <1>6, <1>7, <1>8, <1>9, <1>10, NextCases
     DEF SellerStep
<1> QED BY <1>11 DEF Kept

(* Only an acceptance on the wire takes the agreement out of PROPOSED. *)
LEMMA OnlyAcceptanceCommits ==
    ASSUME Next, rtState = "PROPOSED", rtState' # "PROPOSED"
    PROVE  \E w \in writes : w.kind = "acceptance"
<1>1. CASE RuntimeStep
  BY <1>1 DEF RuntimeStep, RuntimeHandles, HandleAcceptance, HandleFundingSignatures,
              HandleEvidence, HandleDelivered, HandleResponse
<1>2. CASE OutsideStep
  BY <1>2, OutsideFollowsEdges DEF Edges
<1> QED BY <1>1, <1>2, NextCases, SellerLeavesRecord

(* An agreement the Runtime committed is one whose terms the seller        *)
(* remembers, although the answer to its acceptance may be lost, handled   *)
(* late or repeated.                                                       *)
THEOREM LiveCommittedIsRemembered == Spec => []CommittedIsRemembered
<1>1. Init => RememberInv
  BY DEF Init, RememberInv, CommittedIsRemembered, RememberedFirst
<1>2. RememberInv /\ [Next]_vars => RememberInv'
  <2> SUFFICES ASSUME RememberInv, [Next]_vars PROVE RememberInv'
    OBVIOUS
  <2>1. CASE Next
    <3>1. RememberedFirst'
      BY <2>1, AcceptancesAreCountersigned DEF RememberInv, RememberedFirst
    <3>2. CommittedIsRemembered'
      BY <2>1, AcceptancesAreCountersigned, OnlyAcceptanceCommits
         DEF RememberInv, RememberedFirst, CommittedIsRemembered
    <3> QED BY <3>1, <3>2 DEF RememberInv
  <2>2. CASE UNCHANGED vars
    BY <2>2 DEF vars, rtVars, RememberInv, RememberedFirst, CommittedIsRemembered
  <2> QED BY <2>1, <2>2
<1>3. RememberInv => CommittedIsRemembered
  BY DEF RememberInv
<1> QED BY <1>1, <1>2, <1>3, PTL DEF Spec
=============================================================================
