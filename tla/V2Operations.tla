---------------------------- MODULE V2Operations ----------------------------
(***************************************************************************)
(* Durable identity and reconciliation of HostComm 2.0 commands.           *)
(*                                                                         *)
(* Host side: backend/app/services/v2_operations.py, a coordinator that    *)
(* commits an intent row before anything is written to the wire, never     *)
(* writes it twice, and treats every lost answer as "unknown".  Device     *)
(* side: hostcomm/v2_simulator/state.py, which keeps a bounded table of    *)
(* results and a replay waterline.  Between them: a link that loses and    *)
(* delays commands, a backend that crashes or is restored from a backup,   *)
(* a device that reboots or fails to write its storage.                    *)
(*                                                                         *)
(* One database transaction of the coordinator, or one synchronous handler *)
(* of the device, is one action.  A run is named by the start_run that     *)
(* created it.  Why a command is refused (lease, revision, recipe, alarm)  *)
(* is left to chance; boot, run and phase are checked as in the code.      *)
(*                                                                         *)
(* Definitions whose name starts with Mutant are plausible bugs: the model *)
(* does not use them, each shows that a property notices it.               *)
(***************************************************************************)
EXTENDS Naturals, FiniteSets

CONSTANTS
  Ops,            \* operation identities callers may submit
  Kind,           \* Kind[o]: "start", "stop", "release", "ack" or "other"
  NoRun,          \* no run identity
  MaxSeq,         \* MAX_SEQUENCE, the last command_seq the host may issue
  Slots,          \* command_result_slots, results the device retains
  MaxBoot,        \* bound: boots of the device explored
  MaxFaults,      \* bound: disconnects, crashes, reboots and refused commits
  MaxQueries,     \* bound: get_operation answers under way at once
  StorageFaults,  \* whether the device's storage may refuse a commit
  Restores        \* whether the host database may be restored once

Kinds == {"start", "stop", "release", "ack", "other"}

ASSUME OpsAssumption == /\ Kind \in [Ops -> Kinds]
                        /\ NoRun \notin Ops
ASSUME BoundsAssumption == /\ MaxSeq \in Nat
                           /\ Slots \in Nat
                           /\ MaxBoot \in Nat \ {0}
                           /\ MaxFaults \in Nat
                           /\ MaxQueries \in Nat
                           /\ StorageFaults \in BOOLEAN
                           /\ Restores \in BOOLEAN

VARIABLES
  row,         \* host table v2_operation: one row per operation identity
  audited,     \* operations with an operator's entry in v2_operation_review
  lastSeq,     \* host V2ControllerIdentity.last_seq
  restored,    \* history: the host database has been restored
  task,        \* progress of the submit() coroutine of each operation
  review,      \* progress of reconcile_unknown() for each operation
  hostBoot,    \* boot the host negotiated, 0 while offline
  hello,       \* last_command_seq of the hello not yet reconciled, or NoHello
  cmds,        \* command frames written and not yet received, each
               \* with whether its session is still the host's current one
  replies,     \* device answers not yet recorded by the host
  boot,        \* device boot
  dev,         \* device state in memory
  disk,        \* device state last committed
  faults,      \* history: faults so far, never more than MaxFaults
  effects,     \* history: how often each operation took effect
  lastEffect   \* history: largest command_seq with a recorded effect

host == <<row, audited, lastSeq, restored, task, review>>
link == <<hostBoot, hello>>
device == <<boot, dev, disk, effects, lastEffect>>
vars == <<host, link, cmds, replies, device, faults>>

Terminal  == {"applied", "rejected", "interrupted"}
Uncertain == {"unknown", "result_expired", "not_found"}
InDoubt   == {"pending", "sent", "accepted"} \cup Uncertain
Answers   == Terminal \cup Uncertain \cup {"accepted"}
Runs      == Ops \cup {NoRun}
Phases    == {"idle", "preparing", "measuring", "disposal", "completed"}
NoHello   == MaxSeq + 1

Row     == [status : {"absent"} \cup InDoubt \cup Terminal, seq : 0..MaxSeq,
            boot : 0..MaxBoot, run : Runs, reconciled : {0, 1}]
Command == [op : Ops, seq : 0..MaxSeq, boot : 0..MaxBoot, run : Runs,
            frameBoot : 1..MaxBoot, session : {"current", "left"}]
Reply   == [op : Ops, status : Answers, for : {"submit", "refresh", "review"}]
Result  == [op : Ops, seq : 0..MaxSeq, run : Runs,
            status : Terminal \cup {"accepted", "unknown"}]
Device  == [res : SUBSET Result, hw : 0..MaxSeq, run : Runs, phase : Phases]

NoRow == [status |-> "absent", seq |-> 0, boot |-> 0, run |-> NoRun,
          reconciled |-> 0]

Init ==
  /\ row = [o \in Ops |-> NoRow]
  /\ audited = {}
  /\ lastSeq = 0
  /\ restored = FALSE
  /\ task = [o \in Ops |-> "none"]
  /\ review = [o \in Ops |-> "none"]
  /\ hostBoot = 0
  /\ hello = NoHello
  /\ cmds = {}
  /\ replies = {}
  /\ boot = 1
  /\ dev = [res |-> {}, hw |-> 0, run |-> NoRun, phase |-> "idle"]
  /\ disk = dev
  /\ faults = 0
  /\ effects = [o \in Ops |-> 0]
  /\ lastEffect = 0

-----------------------------------------------------------------------------
Fault == faults < MaxFaults /\ faults' = faults + 1

(* The host: coordinator transactions and the session they run under.      *)

Unresolved(o) == row[o].status \in InDoubt /\ row[o].reconciled = 0

(* V2Client opens ordinary control after reconcile_highwater and serialises *)
(* it with _control_lock; stop_run waits for neither.                       *)
Recovered == hello = NoHello
ControlLockFree == \A p \in Ops : Kind[p] # "stop" => task[p] = "none"

(* The row, the advanced counter, and a coroutine to go on with them: unless *)
(* the caller is cancelled while they commit, which leaves the row pending. *)
Admit(o) ==
  /\ row[o].status = "absent"
  /\ hostBoot # 0
  /\ Kind[o] \in {"stop", "ack"} => dev.run # NoRun
  /\ lastSeq < MaxSeq
  /\ lastSeq' = lastSeq + 1
  /\ row' = [row EXCEPT ![o] =
       [status |-> "pending", seq |-> lastSeq + 1, boot |-> hostBoot,
        run |-> IF Kind[o] = "start" THEN o
                ELSE IF Kind[o] \in {"stop", "ack"} THEN dev.run ELSE NoRun,
        reconciled |-> 0]]
  /\ \E next \in {"committed", "none"} : task' = [task EXCEPT ![o] = next]
  /\ UNCHANGED <<audited, restored, review, link, cmds, replies, device, faults>>

MutantIntentUnsettled(o) ==
  /\ Kind[o] # "stop" => Recovered /\ ControlLockFree
  /\ Admit(o)

Intent(o) ==
  /\ Kind[o] # "stop" => Recovered /\ ControlLockFree /\ \A p \in Ops : ~Unresolved(p)
  /\ Admit(o)

MarkSent(o) ==
  /\ task[o] = "committed"
  /\ row' = [row EXCEPT ![o].status = "sent"]
  /\ task' = [task EXCEPT ![o] = "sent"]
  /\ UNCHANGED <<audited, lastSeq, restored, review, link, cmds, replies, device, faults>>

MutantWriteAgain(o) ==
  /\ task[o] = "sent"
  /\ hostBoot # 0
  /\ cmds' = cmds \cup {[op |-> o, seq |-> row[o].seq, boot |-> row[o].boot,
                         run |-> row[o].run, frameBoot |-> hostBoot,
                         session |-> "current"]}
  /\ \E next \in {"sent", "waiting"} : task' = [task EXCEPT ![o] = next]
  /\ UNCHANGED <<row, audited, lastSeq, restored, review, link, replies, device, faults>>

(* The payload carries the boot of the intent, the frame the boot of the    *)
(* session it is written to.                                                *)
Write(o) ==
  /\ task[o] = "sent"
  /\ hostBoot # 0
  /\ cmds' = cmds \cup {[op |-> o, seq |-> row[o].seq, boot |-> row[o].boot,
                         run |-> row[o].run, frameBoot |-> hostBoot,
                         session |-> "current"]}
  /\ task' = [task EXCEPT ![o] = "waiting"]
  /\ UNCHANGED <<row, audited, lastSeq, restored, review, link, replies, device, faults>>

MutantUnknownAlways(o) ==
  /\ task[o] # "none"
  /\ task' = [task EXCEPT ![o] = "none"]
  /\ row' = [row EXCEPT ![o].status = "unknown", ![o].reconciled = 0]
  /\ replies' = {r \in replies : ~(r.op = o /\ r.for = "submit")}
  /\ UNCHANGED <<audited, lastSeq, restored, review, link, cmds, device, faults>>

(* Deadline, disconnect, capacity, device error or cancellation: whatever   *)
(* raises inside submit() ends in _unknown().                               *)
Unknown(o) ==
  /\ task[o] # "none"
  /\ task' = [task EXCEPT ![o] = "none"]
  /\ row' = IF row[o].status \in Terminal THEN row
            ELSE [row EXCEPT ![o].status = "unknown", ![o].reconciled = 0]
  /\ replies' = {r \in replies : ~(r.op = o /\ r.for = "submit")}
  /\ UNCHANGED <<audited, lastSeq, restored, review, link, cmds, device, faults>>

(* The row after _record_result: proved outcomes outlive weaker answers.    *)
Recorded(old, status) ==
  IF old.status \in Terminal THEN old
  ELSE [old EXCEPT !.status = status,
                   !.reconciled = IF status = "accepted" THEN 0 ELSE @]

ResultConflict(old, status) ==
  old.status \in Terminal /\ status \in Terminal /\ status # old.status

(* A submit() cancelled while it records still runs _unknown() afterwards.  *)
RecordResult(r) ==
  /\ r \in replies
  /\ replies' = replies \ {r}
  /\ row[r.op].status # "absent"
  /\ row' = [row EXCEPT ![r.op] = Recorded(@, r.status)]
  /\ IF r.for = "submit"
     THEN \E next \in {"none", "waiting"} : task' = [task EXCEPT ![r.op] = next]
     ELSE task' = task
  /\ review' = IF r.for # "review" THEN review
               ELSE [review EXCEPT ![r.op] =
                 IF ResultConflict(row[r.op], r.status) THEN "none" ELSE "answered"]
  /\ UNCHANGED <<audited, lastSeq, restored, link, cmds, device, faults>>

LoseReply(r) ==
  /\ r \in replies
  /\ replies' = replies \ {r}
  /\ review' = IF r.for = "review" THEN [review EXCEPT ![r.op] = "none"] ELSE review
  /\ UNCHANGED <<row, audited, lastSeq, restored, task, link, cmds, device, faults>>

(* A session is answered in order: after the commands written to it.        *)
CanAsk == hostBoot = boot /\ \A f \in cmds : f.session = "left"

(* reconcile_unknown reads its own status snapshot after the query...       *)
ReadSnapshot(o) ==
  /\ review[o] = "answered"
  /\ CanAsk
  /\ review' = [review EXCEPT ![o] =
       IF dev.phase \in {"idle", "completed"} THEN "safe" ELSE "none"]
  /\ UNCHANGED <<row, audited, lastSeq, restored, task, link, cmds, replies, device,
                 faults>>

(* ...and only then commits the audit, if the row is still uncertain.       *)
RecordReconciliation(o) ==
  /\ review[o] = "safe"
  /\ review' = [review EXCEPT ![o] = "none"]
  /\ row' = IF row[o].status \in Uncertain
            THEN [row EXCEPT ![o].reconciled = 1] ELSE row
  /\ audited' = IF row[o].status \in Uncertain THEN audited \cup {o} ELSE audited
  /\ UNCHANGED <<lastSeq, restored, task, link, cmds, replies, device, faults>>

LinkUp ==
  /\ hostBoot = 0
  /\ hostBoot' = boot
  /\ hello' = dev.hw
  /\ UNCHANGED <<host, cmds, replies, device, faults>>

MutantHighwaterOffByOne ==
  /\ hello # NoHello
  /\ lastSeq' = IF hello >= lastSeq THEN hello + 1 ELSE lastSeq
  /\ hello' = NoHello
  /\ UNCHANGED <<row, audited, restored, task, review, hostBoot, cmds, replies, device,
                 faults>>

MutantHighwaterNoMax ==
  /\ hello # NoHello
  /\ lastSeq' = hello
  /\ hello' = NoHello
  /\ UNCHANGED <<row, audited, restored, task, review, hostBoot, cmds, replies, device,
                 faults>>

ReconcileHighwater ==
  /\ hello # NoHello
  /\ lastSeq' = IF hello > lastSeq THEN hello ELSE lastSeq
  /\ hello' = NoHello
  /\ UNCHANGED <<row, audited, restored, task, review, hostBoot, cmds, replies, device,
                 faults>>

(* What was written to a session the host has left may still arrive.        *)
Stale(frames) == {[f EXCEPT !.session = "left"] : f \in frames}

LinkDown ==
  /\ hostBoot # 0
  /\ Fault
  /\ hostBoot' = 0
  /\ hello' = NoHello
  /\ cmds' = Stale(cmds)
  /\ UNCHANGED <<host, replies, device>>

(* A crash loses every coroutine and every unrecorded answer; initialize()  *)
(* turns whatever was under way into an unresolved unknown.                 *)
Interrupted(old) ==
  IF old.status \in {"pending", "sent", "accepted"}
  THEN [old EXCEPT !.status = "unknown", !.reconciled = 0] ELSE old

Idle == /\ Fault
        /\ task' = [o \in Ops |-> "none"]
        /\ review' = [o \in Ops |-> "none"]
        /\ hostBoot' = 0
        /\ hello' = NoHello
        /\ cmds' = Stale(cmds)
        /\ replies' = {}
        /\ UNCHANGED device

RestartBackend ==
  /\ row' = [o \in Ops |-> Interrupted(row[o])]
  /\ Idle
  /\ UNCHANGED <<audited, lastSeq, restored>>

(* The oldest backup: taken after pairing, before any operation.            *)
RestoreBackup ==
  /\ Restores /\ ~restored
  /\ restored' = TRUE
  /\ row' = [o \in Ops |-> NoRow]
  /\ audited' = {}
  /\ lastSeq' = 0
  /\ Idle

-----------------------------------------------------------------------------
(* The device.                                                             *)

Conflict(o, seq) == \E r \in dev.res : (r.op = o) # (r.seq = seq)

MutantNoWaterline(o, seq) ==
  IF \E r \in dev.res : r.op = o /\ r.seq = seq
  THEN (CHOOSE r \in dev.res : r.op = o /\ r.seq = seq).status
  ELSE "not_found"

Lookup(o, seq) ==
  IF \E r \in dev.res : r.op = o /\ r.seq = seq
  THEN (CHOOSE r \in dev.res : r.op = o /\ r.seq = seq).status
  ELSE IF seq <= dev.hw THEN "result_expired" ELSE "not_found"

Query(o, purpose) ==
  /\ row[o].status # "absent"
  /\ CanAsk
  /\ Cardinality({r \in replies : r.for # "submit"}) < MaxQueries
  /\ purpose = "review" => review[o] = "none"
  /\ ~Conflict(o, row[o].seq)
  /\ replies' = replies \cup {[op |-> o, status |-> Lookup(o, row[o].seq),
                               for |-> purpose]}
  /\ UNCHANGED <<host, link, cmds, device, faults>>

Settle(res, run, from, to) ==
  {IF r.status \in from /\ r.run = run THEN [r EXCEPT !.status = to] ELSE r : r \in res}

MutantStopsApplied(d) ==
  IF d.phase \in {"preparing", "measuring"}
  THEN [d EXCEPT !.phase = "disposal",
                 !.res = Settle(@, d.run, {"accepted", "applied"}, "interrupted")]
  ELSE d

(* stop(): one way into disposal; a start not yet applied is interrupted.   *)
Stopped(d) ==
  IF d.phase \in {"preparing", "measuring"}
  THEN [d EXCEPT !.phase = "disposal",
                 !.res = Settle(@, d.run, {"accepted"}, "interrupted")]
  ELSE d

Permitted(c) ==
  /\ c.boot = boot
  /\ Kind[c.op] = "start" => dev.run = NoRun /\ dev.phase = "idle"
  /\ Kind[c.op] \in {"stop", "ack"} => c.run = dev.run
  /\ Kind[c.op] = "ack" => dev.phase = "completed"

(* stop_run needs neither a lease nor a revision, so nothing else refuses it *)
MayRefuse(c) == Kind[c.op] # "stop" \/ ~Permitted(c)

Entry(c, status) ==
  [op |-> c.op, seq |-> c.seq, status |-> status,
   run |-> IF Kind[c.op] = "start" /\ status = "accepted" THEN c.op ELSE NoRun]

Reserve(d, c) ==
  IF Kind[c.op] = "start" THEN [d EXCEPT !.run = c.op, !.phase = "preparing"] ELSE d

(* _evict_history: the oldest result that is neither running nor of the run *)
Evictable(res, run) ==
  {r \in res : r.status # "accepted" /\ (r.run = NoRun \/ r.run # run)}

Oldest(res) == CHOOSE r \in res : \A s \in res : r.seq <= s.seq

HasRoom(res, run) ==
  Cardinality(res) <= Slots \/ Evictable(res, run) # {}

Retained(res, run) ==
  IF Cardinality(res) <= Slots THEN res ELSE res \ {Oldest(Evictable(res, run))}

(* The transaction that commits the intent, the waterline and the start.    *)
Booked(c, status) ==
  LET d == IF status = "accepted" THEN Reserve(dev, c) ELSE dev
      res == d.res \cup {Entry(c, status)}
  IN [d EXCEPT !.res = Retained(res, d.run), !.hw = c.seq]

CanBook(c, status) ==
  LET d == IF status = "accepted" THEN Reserve(dev, c) ELSE dev
  IN HasRoom(d.res \cup {Entry(c, status)}, d.run)

(* The effect, after that commit: start_run stays accepted until a tick.    *)
Applied(d, c) ==
  LET e == Entry(c, "accepted")
      f == [e EXCEPT !.status = "applied", !.run = c.run]
      done == [d EXCEPT !.res = (@ \ {e}) \cup {f}]
  IN CASE Kind[c.op] = "start" -> d
       [] Kind[c.op] \in {"stop", "release"} -> Stopped(done)
       [] Kind[c.op] = "ack" -> [done EXCEPT !.run = NoRun, !.phase = "idle"]
       [] OTHER -> done

Fresh(c) == /\ c \in cmds
            /\ c.frameBoot = boot
            /\ ~Conflict(c.op, c.seq)
            /\ Lookup(c.op, c.seq) = "not_found"

Received(c) == /\ cmds' = cmds \ {c}
               /\ UNCHANGED <<host, link, boot>>

Answer(c, status) ==
  replies' = IF task[c.op] = "waiting" /\ row[c.op].seq = c.seq
             THEN replies \cup {[op |-> c.op, status |-> status, for |-> "submit"]}
             ELSE replies

TakesEffect(c) == effects' = [effects EXCEPT ![c.op] = @ + 1]

(* Lost with the connection, or answered by an error frame: both leave the  *)
(* device as it was and the host to its deadline.                           *)
LoseCommand(c) ==
  /\ c \in cmds
  /\ cmds' = cmds \ {c}
  /\ UNCHANGED <<host, link, replies, device, faults>>

(* A sequence the device has already passed is answered and never run.      *)
Replayed(c) ==
  /\ c \in cmds
  /\ c.frameBoot = boot
  /\ ~Conflict(c.op, c.seq)
  /\ Lookup(c.op, c.seq) # "not_found"
  /\ Received(c)
  /\ Answer(c, Lookup(c.op, c.seq))
  /\ UNCHANGED <<dev, disk, effects, lastEffect, faults>>

Reject(c) ==
  /\ Fresh(c)
  /\ MayRefuse(c)
  /\ CanBook(c, "rejected")
  /\ Received(c)
  /\ dev' = Booked(c, "rejected")
  /\ disk' = dev'
  /\ Answer(c, "rejected")
  /\ UNCHANGED <<effects, lastEffect, faults>>

Execute(c) ==
  /\ Fresh(c)
  /\ Permitted(c)
  /\ CanBook(c, "accepted")
  /\ Received(c)
  /\ dev' = Applied(Booked(c, "accepted"), c)
  /\ disk' = dev'
  /\ Answer(c, IF Kind[c.op] = "start" THEN "accepted" ELSE "applied")
  /\ TakesEffect(c)
  /\ lastEffect' = c.seq
  /\ UNCHANGED faults

(* The intent is durable but the commit of the effect fails.                *)
ExecuteUnrecorded(c) ==
  /\ StorageFaults /\ Fault
  /\ Fresh(c)
  /\ Permitted(c)
  /\ CanBook(c, "accepted")
  /\ Received(c)
  /\ disk' = Booked(c, "accepted")
  /\ LET d == Applied(Booked(c, "accepted"), c)
     IN dev' = [d EXCEPT !.res =
          {IF r.seq = c.seq THEN [r EXCEPT !.status = "unknown"] ELSE r : r \in @}]
  /\ Answer(c, "unknown")
  /\ TakesEffect(c)
  /\ lastEffect' = c.seq

(* The intent cannot be made durable: a stop still acts, without a trace.   *)
StopUnrecorded(c) ==
  /\ StorageFaults /\ Fault
  /\ Fresh(c)
  /\ Kind[c.op] = "stop"
  /\ Permitted(c)
  /\ CanBook(c, "accepted")
  /\ Received(c)
  /\ dev' = Stopped(dev)
  /\ disk' = disk
  /\ Answer(c, "unknown")
  /\ TakesEffect(c)
  /\ UNCHANGED lastEffect

(* A commit of the process itself, which storage may refuse.                *)
Progress(d) ==
  /\ dev' = d
  /\ \/ disk' = d /\ UNCHANGED faults
     \/ StorageFaults /\ Fault /\ disk' = disk
  /\ UNCHANGED <<host, link, cmds, replies, boot, effects, lastEffect>>

StartMeasuring ==
  /\ dev.phase = "preparing"
  /\ Progress([dev EXCEPT !.phase = "measuring",
                          !.res = Settle(@, dev.run, {"accepted"}, "applied")])

FinishMeasuring ==
  /\ dev.phase = "measuring"
  /\ Progress([dev EXCEPT !.phase = "disposal"])

CompleteRun ==
  /\ dev.phase = "disposal"
  /\ Progress([dev EXCEPT !.phase = "completed"])

(* Lease loss or a trip alarm.                                              *)
Trip ==
  /\ dev.phase \in {"preparing", "measuring"}
  /\ Progress(Stopped(dev))

Recover(d) ==
  [d EXCEPT !.res = {IF r.status = "accepted" THEN [r EXCEPT !.status = "unknown"]
                     ELSE r : r \in @},
            !.phase = IF @ \in {"preparing", "measuring"} THEN "disposal" ELSE @]

(* A reboot keeps the memory of the process, a restart reloads the disk.    *)
Reboot ==
  /\ boot < MaxBoot
  /\ Fault
  /\ boot' = boot + 1
  /\ \E d \in {dev, disk} : dev' = Recover(d)
  /\ disk' = dev'
  /\ UNCHANGED <<host, link, cmds, replies, effects, lastEffect>>

-----------------------------------------------------------------------------
HostStep ==
  \/ \E o \in Ops : \/ Intent(o) \/ MarkSent(o) \/ Write(o) \/ Unknown(o)
                    \/ ReadSnapshot(o) \/ RecordReconciliation(o)
                    \/ \E purpose \in {"refresh", "review"} : Query(o, purpose)
  \/ \E r \in replies : RecordResult(r) \/ LoseReply(r)
  \/ LinkUp \/ ReconcileHighwater \/ LinkDown
  \/ RestartBackend \/ RestoreBackup

DeviceStep ==
  \/ \E c \in cmds : \/ LoseCommand(c) \/ Replayed(c) \/ Reject(c) \/ Execute(c)
                     \/ ExecuteUnrecorded(c) \/ StopUnrecorded(c)
  \/ StartMeasuring \/ FinishMeasuring \/ CompleteRun \/ Trip \/ Reboot

Next == HostStep \/ DeviceStep

Spec == Init /\ [][Next]_vars

-----------------------------------------------------------------------------
(* Every variable has its type.                                             *)
TypeOK ==
  /\ row \in [Ops -> Row]
  /\ audited \subseteq Ops
  /\ lastSeq \in 0..MaxSeq
  /\ restored \in BOOLEAN
  /\ task \in [Ops -> {"none", "committed", "sent", "waiting"}]
  /\ review \in [Ops -> {"none", "answered", "safe"}]
  /\ hostBoot \in 0..MaxBoot
  /\ hello \in 0..NoHello
  /\ cmds \subseteq Command
  /\ replies \subseteq Reply
  /\ boot \in 1..MaxBoot
  /\ dev \in Device
  /\ disk \in Device
  /\ effects \in [Ops -> Nat]
  /\ lastEffect \in 0..MaxSeq
  /\ faults \in 0..MaxFaults

(* No operation identity takes effect on the device twice, whatever is      *)
(* lost, delayed, retried or restarted (v2_operations: "retries never       *)
(* resend side effects").                                                   *)
AtMostOnce == \A o \in Ops : effects[o] <= 1

(* Operations take effect in the order of their sequence numbers: once one  *)
(* has acted, a delayed older one never will (the waterline of lookup()).   *)
InOrder == [][lastEffect' # lastEffect => lastEffect' > lastEffect]_lastEffect

(* A rejection the host has recorded proves the operation never acted:      *)
(* v2_operation_api closes the reserved run on that proof alone.            *)
RejectedNeverActs ==
  \A o \in Ops : row[o].status = "rejected" => effects[o] = 0

(* An outcome the host calls accepted, applied or interrupted did act.      *)
OutcomeActed ==
  \A o \in Ops : row[o].status \in {"accepted", "applied", "interrupted"}
                   => effects[o] = 1

(* Evidence of a final outcome is never lost to a cache eviction, a late    *)
(* answer or a restart of either side.                                      *)
OutcomeIsFinal ==
  [][\A o \in Ops : row[o].status \in Terminal /\ restored' = restored
                      => row'[o].status = row[o].status]_<<row, restored>>

(* The device never holds a final outcome that contradicts the host's, so   *)
(* _record_result never raises result_conflict.                             *)
NoResultConflict ==
  \A r \in dev.res : r.status \in Terminal /\ row[r.op].status \in Terminal
                       /\ row[r.op].seq = r.seq => row[r.op].status = r.status

(* No ordinary operation is admitted while the fate of an earlier one is    *)
(* neither known nor audited by an operator.                                *)
Ordinary(o) == Kind[o] # "stop" /\ row[o].status # "absent"

SettledBeforeNext ==
  \A o, p \in Ops : Ordinary(o) /\ Ordinary(p) /\ row[o].seq < row[p].seq
                      => row[o].status \in Terminal \/ o \in audited

(* A stop on its way to the device is passed only by another stop, or after *)
(* an operator audited it: no ordinary command outruns it.                  *)
StopOnlyOutrunByStop ==
  \A f \in cmds : Kind[f.op] = "stop" /\ f.seq <= dev.hw
                   => \/ f.op \in audited
                      \/ \E p \in Ops : Kind[p] = "stop" /\ row[p].seq > f.seq
-----------------------------------------------------------------------------
(* What the host may conclude, as the abstract ledger sees it.              *)
Fate(o) == IF effects[o] = 0
           THEN IF row[o].status = "absent" THEN "new" ELSE "issued"
           ELSE IF effects[o] = 1 THEN "acted" ELSE "acted twice"

Verdict(o) == CASE row[o].status = "accepted" -> "acting"
                [] row[o].status \in {"applied", "interrupted"} -> "acted"
                [] row[o].status = "rejected" -> "refused"
                [] OTHER -> "none"

Ledger == INSTANCE OperationLedger
            WITH fate <- [o \in Ops |-> Fate(o)], verdict <- [o \in Ops |-> Verdict(o)]

(* The coordinator and the device together implement the ledger: one effect *)
(* per operation, verdicts that are right, final verdicts that stay.        *)
LedgerSpec == Ledger!LedgerSpec
=============================================================================
