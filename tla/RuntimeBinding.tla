--------------------------- MODULE RuntimeBinding ---------------------------
(***************************************************************************)
(* The runtime binding of an agent's key: the task that registers the key  *)
(* with Kite Identity and polls for the owner's approval, in both example  *)
(* agents, and the signing gate that reads its status.  The data seller    *)
(* (binding.ts) keeps revalidating; the seller (runtime_bind.py) returns   *)
(* at the first approval.                                                  *)
(*                                                                         *)
(* A pass of the task is a lookup by key and, when the key does not        *)
(* resolve and nothing was filed, a registration of up to three more       *)
(* calls.  Each call may fail or have its answer lost.  Identity, the      *)
(* owner and the registry are outside the code: their moves are what the   *)
(* code and its tests expect of them.                                      *)
(***************************************************************************)
EXTENDS Integers

CONSTANTS
    Agents,         \* the implementations considered
    MaxFaults,      \* failed calls and lost answers, together
    MaxRestarts,    \* process restarts
    MaxMoves        \* moves of the owner and of the registry

ASSUME BindingConstants ==
    /\ Agents \subseteq {"data-seller-agent", "seller-agent"}
    /\ MaxFaults \in Nat /\ MaxRestarts \in Nat /\ MaxMoves \in Nat

VARIABLES
    agent,          \* which implementation runs
    config,         \* what start() finds in the environment
    mode,           \* SELLER_RUNTIME_BIND_REGISTER
    pc,             \* what the maintain() task awaits; "off": no task
    status,         \* status.state
    registered, everActive,
    resolved,       \* status.agentStorageId is known
    seen,           \* the answer of the last lookup
    key,            \* what Identity holds under the key
    filed,          \* bind requests Identity ever recorded
    lost,           \* answers to a recorded request that were lost
    faults, restarts, moves

vars == <<agent, config, mode, pc, status, registered, everActive, resolved, seen,
          key, filed, lost, faults, restarts, moves>>

process == <<pc, status, registered, everActive, resolved, seen>>
environment == <<agent, config, mode>>
identity == <<key, filed>>

Entries == {"none", "ours", "other", "unnamed"}

Init ==
    /\ agent \in Agents
    /\ config \in {"no-url", "no-key", "complete"}
    /\ mode \in IF agent = "data-seller-agent" THEN {"auto", "off"} ELSE {"auto"}
    /\ pc = "boot" /\ status = "disabled"
    /\ registered = FALSE /\ everActive = FALSE /\ resolved = FALSE /\ seen = "none"
    /\ key = "none" /\ filed = 0 /\ lost = 0
    /\ faults = 0 /\ restarts = 0 /\ moves = 0

-----------------------------------------------------------------------------
(* start() *)
Start ==
    /\ pc = "boot"
    /\ status' = CASE config = "no-url" -> "disabled"
                   [] config = "no-key" -> "no-key"
                   [] OTHER -> "pending"
    /\ pc' = IF config = "complete" THEN "lookup" ELSE "off"
    /\ UNCHANGED <<registered, everActive, resolved, seen, environment, identity,
                   lost, faults, restarts, moves>>

(* Mutant: a revoked binding answers as well. *)
LookupAnsweredRaw ==
    /\ pc = "lookup"
    /\ seen' = key
    /\ pc' = "entry"
    /\ UNCHANGED <<status, registered, everActive, resolved, environment, identity,
                   lost, faults, restarts, moves>>

(* lookupLiveBinding(): by key, only a live binding answers. *)
LookupAnswered ==
    /\ pc = "lookup"
    /\ seen' = IF key = "revoked" THEN "none" ELSE key
    /\ pc' = "entry"
    /\ UNCHANGED <<status, registered, everActive, resolved, environment, identity,
                   lost, faults, restarts, moves>>

(* The key does not resolve: register unless that was done, else wait. *)
Unresolved ==
    /\ IF ~registered /\ mode = "auto"
       THEN pc' = (IF resolved THEN "nonce" ELSE "resolve") /\ UNCHANGED status
       ELSE pc' = "lookup" /\ status' = "pending"
    /\ UNCHANGED everActive

(* Mutant: an entry that names somebody else is left for the next poll. *)
DataSellerEntryIgnored ==
    /\ agent = "data-seller-agent" /\ pc = "entry"
    /\ \/ seen = "ours" /\ everActive' = TRUE /\ status' = "active" /\ pc' = "lookup"
       \/ seen \in {"other", "unnamed"} /\ pc' = "lookup" /\ UNCHANGED <<status, everActive>>
       \/ seen = "none" /\ everActive /\ status' = "error" /\ pc' = "lookup"
             /\ UNCHANGED everActive
       \/ seen = "none" /\ ~everActive /\ Unresolved
    /\ UNCHANGED <<registered, resolved, seen, environment, identity, lost, faults,
                   restarts, moves>>

(* maintain() of the data seller, on the entry: only this agent's DID is   *)
(* an approval; a key that resolved once and no longer does was revoked,   *)
(* which closes the gate and is never answered by another request.         *)
DataSellerEntry ==
    /\ agent = "data-seller-agent" /\ pc = "entry"
    /\ \/ seen = "ours" /\ everActive' = TRUE /\ status' = "active" /\ pc' = "lookup"
       \/ /\ seen \in {"other", "unnamed"} \/ (seen = "none" /\ everActive)
          /\ status' = "error" /\ pc' = "lookup" /\ UNCHANGED everActive
       \/ seen = "none" /\ ~everActive /\ Unresolved
    /\ UNCHANGED <<registered, resolved, seen, environment, identity, lost, faults,
                   restarts, moves>>

(* Mutant: the task also ends on an entry that is not ours. *)
SellerEntryGivingUp ==
    /\ agent = "seller-agent" /\ pc = "entry"
    /\ \/ seen \in {"ours", "unnamed"} /\ status' = "active" /\ pc' = "off"
             /\ UNCHANGED everActive
       \/ seen = "other" /\ status' = "error" /\ pc' = "off" /\ UNCHANGED everActive
       \/ seen = "none" /\ Unresolved
    /\ UNCHANGED <<registered, resolved, seen, environment, identity, lost, faults,
                   restarts, moves>>

(* maintain() of the seller, on the entry: an entry without a DID passes,  *)
(* and the task returns.                                                   *)
SellerEntry ==
    /\ agent = "seller-agent" /\ pc = "entry"
    /\ \/ seen \in {"ours", "unnamed"} /\ status' = "active" /\ pc' = "off"
             /\ UNCHANGED everActive
       \/ seen = "other" /\ status' = "error" /\ pc' = "lookup" /\ UNCHANGED everActive
       \/ seen = "none" /\ Unresolved
    /\ UNCHANGED <<registered, resolved, seen, environment, identity, lost, faults,
                   restarts, moves>>

(* resolveAgentStorageId() *)
ResolveAnswered ==
    /\ pc = "resolve"
    /\ resolved' = TRUE /\ pc' = "nonce"
    /\ UNCHANGED <<status, registered, everActive, seen, environment, identity, lost,
                   faults, restarts, moves>>

(* registerDirect(), its first call: a single-use nonce. *)
NonceIssued ==
    /\ pc = "nonce" /\ pc' = "register"
    /\ UNCHANGED <<status, registered, everActive, resolved, seen, environment,
                   identity, lost, faults, restarts, moves>>

(* Identity records the request: a new pending row each time. *)
RequestRecorded ==
    /\ pc = "register" /\ pc' = "answer"
    /\ filed' = filed + 1
    /\ UNCHANGED <<status, registered, everActive, resolved, seen, environment, key,
                   lost, faults, restarts, moves>>

(* Mutant: the request is not remembered. *)
RegisterAnsweredUnmarked ==
    /\ pc = "answer" /\ pc' = "lookup"
    /\ status' = "pending"
    /\ UNCHANGED <<registered, everActive, resolved, seen, environment, identity,
                   lost, faults, restarts, moves>>

(* registerDirect() returned. *)
RegisterAnswered ==
    /\ pc = "answer" /\ pc' = "lookup"
    /\ registered' = TRUE /\ status' = "pending"
    /\ UNCHANGED <<everActive, resolved, seen, environment, identity, lost, faults,
                   restarts, moves>>

(* Mutant: a failed call ends the task. *)
CallFailsForGood ==
    /\ pc \in {"lookup", "resolve", "nonce", "register", "answer"}
    /\ faults < MaxFaults /\ faults' = faults + 1
    /\ lost' = IF pc = "answer" THEN lost + 1 ELSE lost
    /\ status' = "error" /\ pc' = "off"
    /\ UNCHANGED <<registered, everActive, resolved, seen, environment, identity,
                   restarts, moves>>

(* A call throws, or the answer to a recorded request is lost: the catch   *)
(* block, then the next pass.                                              *)
CallFails ==
    /\ pc \in {"lookup", "resolve", "nonce", "register", "answer"}
    /\ faults < MaxFaults /\ faults' = faults + 1
    /\ lost' = IF pc = "answer" THEN lost + 1 ELSE lost
    /\ status' = "error" /\ pc' = "lookup"
    /\ UNCHANGED <<registered, everActive, resolved, seen, environment, identity,
                   restarts, moves>>

(* Everything the task knows is process-local. *)
Restart ==
    /\ pc # "boot"
    /\ restarts < MaxRestarts /\ restarts' = restarts + 1
    /\ pc' = "boot" /\ status' = "disabled"
    /\ registered' = FALSE /\ everActive' = FALSE /\ resolved' = FALSE /\ seen' = "none"
    /\ UNCHANGED <<environment, identity, lost, faults, moves>>

-----------------------------------------------------------------------------
Move(k) ==
    /\ moves < MaxMoves /\ moves' = moves + 1
    /\ key' = k
    /\ UNCHANGED <<process, environment, filed, lost, faults, restarts>>

OwnerApproves == ((filed > 0 /\ key = "none") \/ key = "revoked") /\ Move("ours")
OwnerRevokes == key = "ours" /\ Move("revoked")
RegistryErrs == key \in {"none", "ours"} /\ (Move("other") \/ Move("unnamed"))
RegistryFixed == key \in {"other", "unnamed"} /\ Move("ours")

TaskStep ==
    \/ Start \/ LookupAnswered \/ DataSellerEntry \/ SellerEntry \/ ResolveAnswered
    \/ NonceIssued \/ RequestRecorded \/ RegisterAnswered

Next ==
    \/ TaskStep \/ CallFails \/ Restart
    \/ OwnerApproves \/ OwnerRevokes \/ RegistryErrs \/ RegistryFixed

Spec == Init /\ [][Next]_vars

(* Timers fire and calls that do not fail are answered. *)
FairSpec == Spec /\ WF_vars(TaskStep)

-----------------------------------------------------------------------------
(* Type invariant of the task, its status and the registry. *)
TypeOK ==
    /\ agent \in Agents
    /\ config \in {"no-url", "no-key", "complete"} /\ mode \in {"auto", "off"}
    /\ pc \in {"boot", "off", "lookup", "entry", "resolve", "nonce", "register", "answer"}
    /\ status \in {"disabled", "no-key", "pending", "active", "error"}
    /\ registered \in BOOLEAN /\ everActive \in BOOLEAN /\ resolved \in BOOLEAN
    /\ seen \in Entries /\ key \in Entries \cup {"revoked"}
    /\ filed \in Nat /\ lost \in Nat
    /\ faults \in 0..MaxFaults /\ restarts \in 0..MaxRestarts /\ moves \in 0..MaxMoves

(* Bind once: however the calls fail and the owner acts, the requests that *)
(* pile up before the owner are at most one per boot and one per answer    *)
(* that was lost.                                                          *)
RequestsAreAccounted == filed <= restarts + 1 + lost

(* An Identity that is down at boot does not leave the agent unbound: a    *)
(* configured agent that may register keeps trying until it has.           *)
AgentGetsRegistered ==
    (config = "complete" /\ mode = "auto") ~> (registered \/ status = "active" \/ key # "none")

(* An approval that stands opens the signing gate without a restart,       *)
(* whatever happened before it: failed calls, a revocation, a wrong entry. *)
ApprovalOpensGate ==
    config = "complete" => (<>[](key = "ours") => <>[](status = "active"))

(* A binding that is revoked or no longer names this agent closes the data *)
(* seller's signing gate, and it stays closed.                             *)
RevocationClosesGate ==
    agent = "data-seller-agent" => (<>[](key # "ours") => <>[](status # "active"))
=============================================================================
