------------------------ MODULE RuntimeBindingProofs ------------------------
(***************************************************************************)
(* Proofs about RuntimeBinding, for any number of failures, restarts and   *)
(* moves of the owner and the registry.                                    *)
(***************************************************************************)
EXTENDS RuntimeBinding, TLAPS

(* Why the count holds: a boot that has registered takes no further step   *)
(* of a registration, and a failure forgets a request only by losing its   *)
(* answer, a restart only by starting a new boot.                          *)
BindInv ==
    /\ TypeOK
    /\ pc \in {"resolve", "nonce", "register", "answer"} => ~registered
    /\ filed <= restarts + 1 + lost
    /\ registered \/ pc = "answer" \/ filed <= restarts + lost

(* The initial state satisfies the invariant. *)
LEMMA InitBinding == Init => BindInv
<1> SUFFICES ASSUME Init PROVE BindInv
  OBVIOUS
<1>1. mode \in {"auto", "off"}
  BY DEF Init
<1>2. registered \in BOOLEAN /\ everActive \in BOOLEAN /\ resolved \in BOOLEAN
  BY Zenon DEF Init
<1>3. faults = 0 /\ restarts = 0 /\ moves = 0 /\ filed = 0 /\ lost = 0
  BY DEF Init
<1>4. TypeOK
  BY <1>1, <1>2, <1>3, BindingConstants DEF Init, TypeOK, Entries
<1> QED BY <1>4 DEF Init, BindInv

(* Every step of the task, of its failures and of the world preserves it. *)
LEMMA NextBinding == BindInv /\ [Next]_vars => BindInv'
<1> SUFFICES ASSUME BindInv, [Next]_vars PROVE BindInv'
  OBVIOUS
<1> USE BindingConstants
    DEF BindInv, TypeOK, Entries, environment, identity, process
<1>1. CASE Start
  BY <1>1 DEF Start
<1>2. CASE LookupAnswered
  BY <1>2 DEF LookupAnswered
<1>3. CASE DataSellerEntry
  BY <1>3 DEF DataSellerEntry, Unresolved
<1>4. CASE SellerEntry
  BY <1>4 DEF SellerEntry, Unresolved
<1>5. CASE ResolveAnswered
  BY <1>5 DEF ResolveAnswered
<1>6. CASE NonceIssued
  BY <1>6 DEF NonceIssued
<1>7. CASE RequestRecorded
  BY <1>7 DEF RequestRecorded
<1>8. CASE RegisterAnswered
  BY <1>8 DEF RegisterAnswered
<1>9. CASE CallFails
  BY <1>9 DEF CallFails
<1>10. CASE Restart
  <2>1. registered' \in BOOLEAN /\ everActive' \in BOOLEAN /\ resolved' \in BOOLEAN
    BY <1>10, Zenon DEF Restart
  <2>2. TypeOK'
    BY <1>10, <2>1 DEF Restart
  <2>3. pc' = "boot"
    BY <1>10 DEF Restart
  <2>4. filed' <= restarts' + lost' /\ filed' <= restarts' + 1 + lost'
    BY <1>10 DEF Restart
  <2> QED BY <2>2, <2>3, <2>4
<1>11. CASE OwnerApproves \/ OwnerRevokes \/ RegistryErrs \/ RegistryFixed
  BY <1>11 DEF OwnerApproves, OwnerRevokes, RegistryErrs, RegistryFixed, Move
<1>12. CASE UNCHANGED vars
  BY <1>12 DEF vars
<1> QED BY <1>1, <1>2, <1>3, <1>4, <1>5, <1>6, <1>7, <1>8, <1>9, <1>10, <1>11, <1>12
        DEF Next, TaskStep

(* The task and its status keep their types. *)
THEOREM BindingTypeOK == Spec => []TypeOK
<1>1. BindInv => TypeOK
  BY DEF BindInv
<1> QED BY <1>1, InitBinding, NextBinding, PTL DEF Spec

(* At most one bind request per boot and per lost answer reaches the       *)
(* owner, in both agents.                                                  *)
THEOREM BindingRequestsAreAccounted == Spec => []RequestsAreAccounted
<1>1. BindInv => RequestsAreAccounted
  BY DEF BindInv, TypeOK, RequestsAreAccounted
<1> QED BY <1>1, InitBinding, NextBinding, PTL DEF Spec
=============================================================================
