-------------------------- MODULE MaintenanceGate --------------------------
(***************************************************************************)
(* How a running backend lets the installer in.                            *)
(*                                                                         *)
(* backend/app/services/maintenance_service.py admits business work and    *)
(* guards the two command channels; local_maintenance.py answers the       *)
(* request the installer (installer_authorization.py) leaves on disk:      *)
(* it closes admission, drains what was admitted, takes both command       *)
(* locks, looks at the device and only then closes the gate.               *)
(*                                                                         *)
(* Everything in the backend is one event loop: an action is what runs     *)
(* between two awaits.  The request, the gate and the reply are files and  *)
(* survive the backend, which may die between any two steps.               *)
(*                                                                         *)
(* Definitions whose name starts with Mutant are plausible bugs: the model *)
(* does not use them, each shows that a property notices it.               *)
(***************************************************************************)
EXTENDS Naturals, FiniteSets

CONSTANTS
  Writes,       \* work that changes business data: a request or a job
  Commands,     \* requests that send an ordinary device command
  Stops,        \* requests that stop a run, on the priority channel
  Reads,        \* device reads: they take the ordinary channel, unadmitted
  MaxRequests,  \* bound: requests the installer makes
  MaxFaults     \* bound: backend deaths, lost installers and failing replies

Work == Writes \cup Commands \cup Stops \cup Reads

ASSUME WorkAssumption ==
  /\ IsFiniteSet(Work)
  /\ Writes \cap (Commands \cup Stops \cup Reads) = {}
  /\ Commands \cap (Stops \cup Reads) = {}
  /\ Stops \cap Reads = {}
  /\ MaxRequests \in Nat /\ MaxFaults \in Nat

VARIABLES
  request,    \* maintenance-request.json: the number of the request, 0 without one
  attested,   \* requests that confirm that the device is physically shut down
  expired,    \* requests older than ten minutes
  gate,       \* maintenance.json: the number that closed it, 0 when it is open
  reply,      \* maintenance-reply.json
  up,         \* the backend is alive
  at,         \* where each piece of work stands
  count,      \* MaintenanceManager._business_count
  pending,    \* MaintenanceManager._installer_pending
  bridge,     \* LocalMaintenanceBridge.process_once: its step and request
  device,     \* idle or running
  known,      \* the backend has a fresh status and no uncertain record
  installer,  \* the installer: what it does and its request number
  granted,    \* history: requests that were answered with an authorisation
  asked,      \* requests so far
  faults      \* faults so far

asking == <<request, attested, expired>>
files == <<asking, gate, reply>>
world == <<device, known>>
vars == <<files, up, at, count, pending, bridge, world, installer, granted, asked, faults>>

Ids == 1..MaxRequests
NoReply == [id |-> 0, state |-> "none"]
Resting == [at |-> "idle", req |-> 0]
Away == [at |-> "idle", id |-> 0]

Init ==
  /\ request = 0
  /\ attested = {}
  /\ expired = {}
  /\ gate = 0
  /\ reply = NoReply
  /\ up = TRUE
  /\ at = [w \in Work |-> "none"]
  /\ count = 0
  /\ pending = FALSE
  /\ bridge = Resting
  /\ device = "idle"
  /\ known \in BOOLEAN
  /\ installer = Away
  /\ granted = {}
  /\ asked = 0
  /\ faults = 0

Fault == faults < MaxFaults /\ faults' = faults + 1

-----------------------------------------------------------------------------
(* Business work.                                                           *)

(* What was admitted and has not been released.                             *)
Business == {w \in Work \ Reads : at[w] # "none"}

MayAdmit == ~pending /\ gate = 0

Admit(w) ==
  /\ up
  /\ at[w] = "none"
  /\ w \notin Reads
  /\ MayAdmit
  /\ at' = [at EXCEPT ![w] = "admitted"]
  /\ count' = count + 1
  /\ UNCHANGED <<files, up, pending, bridge, world, installer, granted, asked, faults>>

(* The two asyncio locks, held by a command or by the bridge.               *)
OperationLocked == \/ \E w \in Commands \cup Reads : at[w] = "inside"
                   \/ bridge.at \in {"lock_priority", "locked", "assess", "close"}
PriorityLocked == \/ \E w \in Stops : at[w] = "inside"
                  \/ bridge.at \in {"locked", "assess", "close"}

(* command_guard: the gate is looked at with the lock in hand.              *)
Enter(w) ==
  /\ up
  /\ \/ w \in Commands \cup Reads /\ ~OperationLocked
     \/ w \in Stops /\ ~PriorityLocked
  /\ at[w] = IF w \in Reads THEN "none" ELSE "admitted"
  /\ at' = [at EXCEPT ![w] = IF gate = 0 THEN "inside" ELSE "leaving"]
  /\ UNCHANGED <<files, up, count, pending, bridge, world, installer, granted, asked, faults>>

(* What a command does to the device, or leaves undecided.                  *)
Act(w) ==
  /\ at[w] = "inside"
  /\ at' = [at EXCEPT ![w] = "leaving"]
  /\ device' \in IF w \in Commands THEN {device, "running"}
                 ELSE IF w \in Stops THEN {device, "idle"} ELSE {device}
  /\ known' \in IF w \in Reads THEN {known} ELSE {known, FALSE}
  /\ UNCHANGED <<files, up, count, pending, bridge, installer, granted, asked, faults>>

MutantUncounted(w) == count - 2

(* A read was never counted.                                                *)
Uncounted(w) == IF w \in Reads THEN count ELSE count - 1

(* The whole response has been sent, or the job is done.                    *)
Release(w) ==
  /\ \/ at[w] = "leaving"
     \/ at[w] = "admitted" /\ w \in Writes
  /\ at' = [at EXCEPT ![w] = "none"]
  /\ count' = Uncounted(w)
  /\ UNCHANGED <<files, up, pending, bridge, world, installer, granted, asked, faults>>

-----------------------------------------------------------------------------
(* assess_maintenance.                                                      *)

Assessment == IF ~known THEN "unknown" ELSE IF device = "running" THEN "busy" ELSE "idle"

MayGrant(req) == Assessment = "idle" \/ (Assessment = "unknown" /\ req \in attested)

-----------------------------------------------------------------------------
(* The bridge.                                                              *)

Rest == bridge' = Resting /\ pending' = FALSE
GoOn(step) == bridge' = [bridge EXCEPT !.at = step] /\ UNCHANGED pending
Answer(state) == /\ reply' = [id |-> bridge.req, state |-> state]
                 /\ granted' = IF state = "authorized" THEN granted \cup {bridge.req} ELSE granted

(* A request that was refused is not looked at again.                       *)
Consumed(req) == reply.id = req /\ reply.state \in {"blocked", "rejected", "confirmation_required"}

(* With the gate open and a new request, a device known to be busy is       *)
(* answered without closing admission: its stop must not be held up.        *)
MayVeto(req) == gate = 0 /\ reply.id # req /\ req \notin expired

CloseAdmission(req) == bridge' = [at |-> "drain", req |-> req] /\ pending' = TRUE

Poll ==
  /\ up
  /\ bridge = Resting
  /\ request # 0
  /\ ~Consumed(request)
  /\ IF MayVeto(request)
       THEN bridge' = [at |-> "look", req |-> request] /\ UNCHANGED pending
       ELSE CloseAdmission(request)
  /\ UNCHANGED <<files, up, at, count, world, installer, granted, asked, faults>>

Look ==
  /\ bridge.at = "look"
  /\ IF Assessment = "busy"
       THEN Answer("blocked") /\ Rest
       ELSE CloseAdmission(bridge.req) /\ UNCHANGED <<reply, granted>>
  /\ UNCHANGED <<asking, gate, up, at, count, world, installer, asked, faults>>

MutantDrained == TRUE

Drained == count = 0

Drain ==
  /\ bridge.at = "drain"
  /\ Drained
  /\ GoOn("lock_operation")
  /\ UNCHANGED <<files, up, at, count, world, installer, granted, asked, faults>>

LockOperation ==
  /\ bridge.at = "lock_operation"
  /\ ~OperationLocked
  /\ GoOn("lock_priority")
  /\ UNCHANGED <<files, up, at, count, world, installer, granted, asked, faults>>

LockPriority ==
  /\ bridge.at = "lock_priority"
  /\ ~PriorityLocked
  /\ GoOn("locked")
  /\ UNCHANGED <<files, up, at, count, world, installer, granted, asked, faults>>

Waiting == \/ bridge.at = "drain" /\ ~Drained
           \/ bridge.at = "lock_operation" /\ OperationLocked
           \/ bridge.at = "lock_priority" /\ PriorityLocked

(* Ten seconds are over before all of it was got.                           *)
DrainTimeout ==
  /\ Waiting
  /\ Answer("blocked")
  /\ Rest
  /\ UNCHANGED <<asking, gate, up, at, count, world, installer, asked, faults>>

MutantAlreadyAnswered(req) == FALSE

AlreadyAnswered(req) == reply.id = req

MutantUnanswered(req) == reply.id # req

(* A gate that this very request closed, and nothing answered.              *)
Unanswered(req) == reply = NoReply /\ gate = req

Decide ==
  /\ bridge.at = "locked"
  /\ LET req == bridge.req
     IN IF AlreadyAnswered(req)
          THEN /\ Rest
               /\ IF reply.state = "authorized" /\ gate # req
                    THEN Answer("rejected") ELSE UNCHANGED <<reply, granted>>
        ELSE IF req \notin expired /\ gate = 0
          THEN GoOn("assess") /\ UNCHANGED <<reply, granted>>
        ELSE /\ Rest
             /\ Answer(IF req \in expired THEN "rejected"
                       ELSE IF Unanswered(req) THEN "authorized" ELSE "blocked")
  /\ UNCHANGED <<asking, gate, up, at, count, world, installer, asked, faults>>

MutantAssess ==
  /\ bridge.at = "assess"
  /\ gate' = bridge.req
  /\ GoOn("close")
  /\ UNCHANGED <<asking, reply, granted, up, at, count, world, installer, asked, faults>>

(* The last look at the device; the gate is on disk before the answer.      *)
Assess ==
  /\ bridge.at = "assess"
  /\ IF MayGrant(bridge.req)
       THEN /\ gate' = bridge.req
            /\ GoOn("close")
            /\ UNCHANGED <<reply, granted>>
       ELSE /\ Answer(IF Assessment = "busy" THEN "blocked" ELSE "confirmation_required")
            /\ Rest
            /\ UNCHANGED gate
  /\ UNCHANGED <<asking, up, at, count, world, installer, asked, faults>>

Authorize ==
  /\ bridge.at = "close"
  /\ Rest
  /\ \/ Answer("authorized") /\ UNCHANGED faults
     \/ Fault /\ UNCHANGED <<reply, granted>>
  /\ UNCHANGED <<asking, gate, up, at, count, world, installer, asked>>

-----------------------------------------------------------------------------
(* The installer, and the backend's own life.                               *)

(* It recovers first, so that it finds the gate open.                       *)
Ask ==
  /\ installer = Away
  /\ gate = 0
  /\ asked < MaxRequests
  /\ asked' = asked + 1
  /\ request' = asked + 1
  /\ attested' \in {attested, attested \cup {asked + 1}}
  /\ installer' = [at |-> "waiting", id |-> asked + 1]
  /\ UNCHANGED <<expired, gate, reply, up, at, count, pending, bridge, world, granted, faults>>

(* It goes on with an authorisation whose gate it finds on disk.            *)
Receive ==
  /\ installer.at = "waiting"
  /\ reply.id = installer.id
  /\ installer' = IF reply.state = "authorized" /\ gate = installer.id
                    THEN [installer EXCEPT !.at = "installing"] ELSE Away
  /\ UNCHANGED <<files, up, at, count, pending, bridge, world, granted, asked, faults>>

(* Twenty seconds without an answer, or the installer is killed.            *)
GiveUp ==
  /\ installer # Away
  /\ Fault
  /\ installer' = Away
  /\ UNCHANGED <<files, up, at, count, pending, bridge, world, granted, attested, asked>>

(* Ten minutes later a request is no longer good; nobody waits that long.   *)
Expire ==
  /\ \E id \in 1..asked : id # installer.id /\ expired' = expired \cup {id}
  /\ UNCHANGED <<request, attested, gate, reply, up, at, count, pending, bridge, world, installer, granted, asked, faults>>

Ended == /\ up' = FALSE
         /\ at' = [w \in Work |-> "none"]
         /\ count' = 0
         /\ pending' = FALSE
         /\ bridge' = Resting

(* Stopped by the installer, or by the recovery of a gate left closed.      *)
StopBackend ==
  /\ up
  /\ \/ installer.at = "installing"
     \/ installer = Away /\ gate # 0
  /\ installer' = [at |-> "starting", id |-> gate]
  /\ Ended
  /\ UNCHANGED <<files, world, granted, asked, faults>>

Crash ==
  /\ up
  /\ Fault
  /\ Ended
  /\ UNCHANGED <<files, world, installer, granted, attested, asked>>

StartBackend ==
  /\ ~up
  /\ up' = TRUE
  /\ UNCHANGED <<files, at, count, pending, bridge, world, installer, granted, asked, faults>>

(* The new or the old service is healthy: the gate is removed.              *)
OpenGate ==
  /\ up
  /\ installer.at = "starting"
  /\ gate' = 0
  /\ installer' = Away
  /\ UNCHANGED <<asking, reply, up, at, count, pending, bridge, world, granted, asked, faults>>

(* A run ends, a status arrives, is outdated, an operator settles a record. *)
DeviceChanges ==
  /\ \/ device = "running" /\ device' = "idle" /\ UNCHANGED known
     \/ known' = ~known /\ UNCHANGED device
  /\ UNCHANGED <<files, up, at, count, pending, bridge, installer, granted, asked, faults>>

-----------------------------------------------------------------------------
Bridge == Poll \/ Look \/ Drain \/ LockOperation \/ LockPriority \/ DrainTimeout
          \/ Decide \/ Assess \/ Authorize
WorkStep(w) == Admit(w) \/ Enter(w) \/ Act(w) \/ Release(w)
Installer == Ask \/ Receive \/ GiveUp \/ Expire \/ StopBackend \/ OpenGate

Next == Bridge \/ Installer \/ Crash \/ StartBackend \/ DeviceChanges \/ \E w \in Work : WorkStep(w)

Spec == Init /\ [][Next]_vars

-----------------------------------------------------------------------------
(* Every variable has its type.                                             *)
TypeOK ==
  /\ request \in 0..MaxRequests
  /\ attested \subseteq Ids
  /\ expired \subseteq Ids
  /\ gate \in 0..MaxRequests
  /\ reply \in [id : 0..MaxRequests,
                state : {"none", "blocked", "rejected", "confirmation_required", "authorized"}]
  /\ up \in BOOLEAN
  /\ at \in [Work -> {"none", "admitted", "inside", "leaving"}]
  /\ count \in 0..Cardinality(Work)
  /\ pending \in BOOLEAN
  /\ bridge \in [at : {"idle", "look", "drain", "lock_operation", "lock_priority", "locked", "assess", "close"},
                 req : 0..MaxRequests]
  /\ device \in {"idle", "running"}
  /\ known \in BOOLEAN
  /\ installer \in [at : {"idle", "waiting", "installing", "starting"}, id : 0..MaxRequests]
  /\ granted \subseteq Ids
  /\ asked \in 0..MaxRequests
  /\ faults \in 0..MaxFaults

(* With the gate closed no business work is in progress, no command is       *)
(* inside its guard, and none gets there.                                    *)
ClosedIsQuiet == gate # 0 => Business = {} /\ \A w \in Work : at[w] # "inside"

(* An installer that nobody told the device is shut down finds it idle, from *)
(* the last assessment until the gate is removed.                            *)
UnconfirmedIsIdle == gate # 0 /\ gate \notin attested => device = "idle"

(* The installer never holds an authorisation whose gate is not on disk.     *)
AuthorizedIsClosed ==
  /\ reply.state = "authorized" /\ installer = [at |-> "waiting", id |-> reply.id] => gate = reply.id
  /\ installer.at = "installing" => gate = installer.id

(* Claimed by tests/test_local_maintenance.py: a request that was answered   *)
(* with an authorisation never closes the gate again once it is removed.     *)
NeverClosedAgain == [][gate = 0 /\ gate' # 0 => gate' \notin granted]_vars
=============================================================================
