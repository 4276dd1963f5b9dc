---------------------------- MODULE DesktopInstall ----------------------------
(***************************************************************************)
(* Pairing, uninstalling and installing again over preserved data.         *)
(*                                                                         *)
(* desktop/smd_desktop/pairing.py: PairingTransaction; uninstall.py:       *)
(* UninstallTransaction; reinstall.py: PreservedReinstall and              *)
(* finish_committed_reinstall; updater.py: initialize, dispatch.  Each     *)
(* keeps a journal, and all of them share one gate, one database, one      *)
(* configuration and one Windows service.                                  *)
(*                                                                         *)
(* One updater runs at a time; it fails, is killed or loses power between  *)
(* any two of its steps.  The service works whenever Windows, or somebody, *)
(* starts it and the updater does not hold the Backend mutex.  There is    *)
(* one version: replacing it is UpgradeTransaction.                        *)
(***************************************************************************)
EXTENDS Naturals, FiniteSets

CONSTANTS
  Devices,       \* device ids to pair with
  MaxEpoch,      \* bound: controller epochs made
  MaxSeq,        \* bound: commands sent in an epoch
  MaxSaved,      \* bound: records the service writes
  MaxTurns,      \* bound: updater processes
  MaxAccidents   \* bound: failing steps, killed updaters and power cuts

ASSUME InstallAssumption ==
  /\ {MaxEpoch, MaxSeq, MaxSaved, MaxTurns, MaxAccidents} \subseteq Nat
  /\ {"none", "gone"} \cap Devices = {}  \* the names of no device

VARIABLES
  pairing,   \* updates/pairing.json
  uninst,    \* updates/uninstall.json
  reinst,    \* updates/reinstall.json: phase, backup_ready, the uninstall it takes up
  files,     \* installation.json, uninstalled.json, install.json, maintenance.json, service.env
  base,      \* the database: schema, records, identities, an unresolved command
  spare,     \* the reinstall's backup of database and configuration
  winsvc,    \* the service: start type, process, recovery task
  updater,   \* the updater process: step, purpose, Backend mutex
  kept,      \* history: records written while the gate was open
  issued,    \* history: sequence numbers commands used
  forgotten, \* history: those of epochs a pairing has taken up again
  spent      \* history: processes, epochs and accidents so far

iVars == <<pairing, uninst, reinst, files, base, spare, winsvc, updater, kept, issued, forgotten,
           spent>>
history == <<kept, issued, forgotten>>

Free      == "free"
NoIdentity      == [epoch |-> 0, seq |-> 0]
NoEnv     == [dev |-> "gone", epoch |-> 0]
Unpaired  == [dev |-> "none", epoch |-> 0]
NoPairing == [phase |-> "none", dev |-> "none", epoch |-> 0, was |-> NoIdentity, from |-> NoEnv]
Resting   == [at |-> "idle", for |-> "none", guard |-> FALSE]
Base      == [whole |-> TRUE, recs |-> {}, rows |-> [d \in Devices |-> NoIdentity], open |-> FALSE]

(* An installation nobody has paired yet, or a machine without one         *)
InstallInit ==
  /\ pairing = NoPairing
  /\ uninst = [phase |-> "none", id |-> 0]
  /\ reinst = [phase |-> "none", ready |-> FALSE, of |-> 0]
  /\ \E fresh \in BOOLEAN :
       /\ files = [pointer |-> ~fresh, archive |-> 0, initial |-> "none", gate |-> Free,
                   env |-> IF fresh THEN NoEnv ELSE Unpaired]
       /\ base = [Base EXCEPT !.whole = ~fresh]
       /\ winsvc = [start |-> IF fresh THEN "absent" ELSE "auto", running |-> FALSE,
                    task |-> ~fresh]
  /\ spare = [base |-> Base, env |-> NoEnv]
  /\ updater = Resting
  /\ kept = {} /\ issued = {} /\ forgotten = {}
  /\ spent = [turns |-> 0, epochs |-> 0, accidents |-> 0]

Accident == spent.accidents < MaxAccidents /\ spent' = [spent EXCEPT !.accidents = @ + 1]
Goto(step) == updater' = [updater EXCEPT !.at = step]
Done == updater' = Resting
At(step) == updater.at = step
Take(purpose, step, guard) ==
  /\ At("idle") /\ spent.turns < MaxTurns
  /\ spent' = [spent EXCEPT !.turns = @ + 1]
  /\ updater' = [at |-> step, for |-> purpose, guard |-> guard]

-----------------------------------------------------------------------------
(* The service.                                                            *)

outside == <<pairing, uninst, reinst, files, spare, updater>>

Paired == files.env.dev \in Devices
Identity == base.rows[files.env.dev]
Linked == winsvc.running /\ Paired /\ Identity.epoch = files.env.epoch

(* A process that finds another one at work, an interrupted migration or   *)
(* no configuration goes away again.                                       *)
ServiceStarts ==
  /\ winsvc.start # "absent" /\ ~winsvc.running
  /\ ~updater.guard /\ base.whole /\ files.env # NoEnv
  /\ winsvc' = [winsvc EXCEPT !.running = TRUE]
  /\ UNCHANGED <<outside, base, history, spent>>

ServiceStops ==
  /\ winsvc.running
  /\ winsvc' = [winsvc EXCEPT !.running = FALSE]
  /\ UNCHANGED <<outside, base, history, spent>>

(* ensure_v2_identity(): a device without an identity is given the one of  *)
(* the configuration; one with another keeps it, and is not connected to.  *)
Identifies ==
  /\ winsvc.running /\ Paired /\ Identity = NoIdentity
  /\ base' = [base EXCEPT !.rows[files.env.dev].epoch = files.env.epoch]
  /\ UNCHANGED <<outside, winsvc, history, spent>>

Saves ==
  /\ winsvc.running /\ Cardinality(base.recs \cup kept) < MaxSaved
  /\ LET r == Cardinality(base.recs \cup kept) + 1
     IN /\ base' = [base EXCEPT !.recs = @ \cup {r}]
        /\ kept' = IF files.gate = Free THEN kept \cup {r} ELSE kept
  /\ UNCHANGED <<outside, winsvc, issued, forgotten, spent>>

Used(d, epoch) == {n \in issued : n[1] = d /\ n[2] = epoch}

(* reconcile_highwater() has raised the waterline to that of the board,    *)
(* which knows some of the numbers of this epoch, or none.                 *)
Waterlines ==
  {Identity.seq} \cup {n[3] : n \in {m \in issued \cup forgotten :
                       m[1] = files.env.dev /\ m[2] = files.env.epoch /\ m[3] > Identity.seq}}

Commands ==
  /\ Linked /\ files.gate = Free /\ ~base.open
  /\ \E line \in Waterlines :
       /\ line < MaxSeq
       /\ base' = [base EXCEPT !.rows[files.env.dev].seq = line + 1, !.open = TRUE]
       /\ issued' = issued \cup {<<files.env.dev, files.env.epoch, line + 1>>}
  /\ UNCHANGED <<outside, winsvc, kept, forgotten, spent>>

Settles ==
  /\ Linked /\ base.open
  /\ base' = [base EXCEPT !.open = FALSE]
  /\ UNCHANGED <<outside, winsvc, history, spent>>

-----------------------------------------------------------------------------
(* Pairing.                                                                *)

Exists == winsvc.start # "absent" /\ ~winsvc.running

MutantNextIdentity(p) == [epoch |-> p.epoch, seq |-> 0]

(* The waterline of an epoch that stays is kept.                           *)
NextIdentity(p) ==
  [epoch |-> p.epoch, seq |-> IF p.was.epoch = p.epoch THEN p.was.seq ELSE 0]

NextEnv(p) == [dev |-> p.dev, epoch |-> p.epoch]

(* --controller-epoch, the epoch the device has, or a new one              *)
Chosen(d, given) ==
  CASE given # 0                                                  -> given
    [] given = 0 /\ base.rows[d] # NoIdentity                     -> base.rows[d].epoch
    [] given = 0 /\ base.rows[d] = NoIdentity /\ files.env.dev = d -> files.env.epoch
    [] OTHER                                                      -> spent.epochs + 1

(* apply(): refused beside any maintenance, with a command unresolved, and *)
(* while the service runs.  The epoch given may be one the device had.     *)
Pair(d, given) ==
  /\ Exists /\ pairing.phase \in {"none", "committed"} /\ files.gate = Free
  /\ uninst.phase \in {"none", "committed"} /\ files.env # NoEnv /\ base.whole /\ ~base.open
  /\ given <= spent.epochs + 1  \* the new ones are alike
  /\ LET old   == base.rows[d]
         epoch == Chosen(d, given)
         again == IF epoch # old.epoch THEN Used(d, epoch) ELSE {}
     IN /\ epoch <= MaxEpoch
        /\ pairing' = [phase |-> "prepared", dev |-> d, epoch |-> epoch, was |-> old,
                       from |-> files.env]
        /\ At("idle") /\ spent.turns < MaxTurns
        /\ spent' = [spent EXCEPT !.turns = @ + 1,
                                  !.epochs = IF epoch > @ THEN epoch ELSE @]
        /\ issued' = issued \ again
        /\ forgotten' = forgotten \cup again
  /\ updater' = [at |-> "pair_gate", for |-> "pair", guard |-> TRUE]
  /\ UNCHANGED <<uninst, reinst, files, base, spare, winsvc, kept>>

RecoverPairing ==
  /\ Exists /\ pairing.phase # "none"
  /\ files.gate \in {Free, "pairing"}
  /\ Take("pair", CASE pairing.phase = "committed" -> "pair_open"
                    [] pairing.phase # "committed" /\ files.gate = Free -> "pair_gate"
                    [] OTHER -> "pair_identity", TRUE)
  /\ UNCHANGED <<pairing, uninst, reinst, files, base, spare, winsvc, history>>

PairGate ==
  /\ At("pair_gate")
  /\ files' = [files EXCEPT !.gate = "pairing"]
  /\ Goto("pair_identity")
  /\ UNCHANGED <<pairing, uninst, reinst, base, spare, winsvc, history, spent>>

Completable(p) ==
  /\ files.env \in {p.from, NextEnv(p)}
  /\ base.rows[p.dev] \in {p.was, NextIdentity(p)}

PairIdentity ==
  /\ At("pair_identity")
  /\ IF Completable(pairing) /\ ~base.open
     THEN /\ base' = [base EXCEPT !.rows[pairing.dev] = NextIdentity(pairing)]
          /\ Goto("pair_mark")
     ELSE Done /\ UNCHANGED base
  /\ UNCHANGED <<pairing, uninst, reinst, files, spare, winsvc, history, spent>>

PairMark ==
  /\ At("pair_mark")
  /\ pairing' = [pairing EXCEPT !.phase = "identity_committed"]
  /\ Goto("pair_env")
  /\ UNCHANGED <<uninst, reinst, files, base, spare, winsvc, history, spent>>

PairEnv ==
  /\ At("pair_env")
  /\ files' = [files EXCEPT !.env = NextEnv(pairing)]
  /\ Goto("pair_done")
  /\ UNCHANGED <<pairing, uninst, reinst, base, spare, winsvc, history, spent>>

PairDone ==
  /\ At("pair_done")
  /\ pairing' = [pairing EXCEPT !.phase = "committed"]
  /\ Goto("pair_open")
  /\ UNCHANGED <<uninst, reinst, files, base, spare, winsvc, history, spent>>

PairOpen ==
  /\ At("pair_open")
  /\ files' = [files EXCEPT !.gate = Free]
  /\ Done
  /\ UNCHANGED <<pairing, uninst, reinst, base, spare, winsvc, history, spent>>

-----------------------------------------------------------------------------
(* dispatch(): first the tidying of a reinstall whose pointer is out, then  *)
(* what was asked for.                                                     *)

TidyDue ==
  /\ files.pointer /\ reinst.phase \in {"awaiting_health", "committing", "committed"}
  /\ files.archive \in {0, reinst.of}
  /\ uninst \in {[phase |-> "none", id |-> uninst.id], [phase |-> "committed", id |-> reinst.of]}

Dispatch(purpose) ==
  /\ Take(purpose, IF TidyDue THEN "committing" ELSE "begin", FALSE)
  /\ UNCHANGED <<pairing, uninst, reinst, files, base, spare, winsvc, history>>

Committing ==
  /\ At("committing")
  /\ reinst' = [reinst EXCEPT !.phase = "committing"]
  /\ Goto("drop_archive")
  /\ UNCHANGED <<pairing, uninst, files, base, spare, winsvc, history, spent>>

DropArchive ==
  /\ At("drop_archive")
  /\ files' = [files EXCEPT !.archive = 0]
  /\ Goto("drop_uninstall")
  /\ UNCHANGED <<pairing, uninst, reinst, base, spare, winsvc, history, spent>>

DropUninstall ==
  /\ At("drop_uninstall")
  /\ uninst' = [uninst EXCEPT !.phase = "none"]
  /\ Goto("committed")
  /\ UNCHANGED <<pairing, reinst, files, base, spare, winsvc, history, spent>>

Committed ==
  /\ At("committed")
  /\ reinst' = [reinst EXCEPT !.phase = "committed"]
  /\ Goto("open")
  /\ UNCHANGED <<pairing, uninst, files, base, spare, winsvc, history, spent>>

Open ==
  /\ At("open")
  /\ files' = [files EXCEPT !.gate = IF @ = "reinstall" THEN Free ELSE @]
  /\ Goto(IF updater.for = "publish" THEN "unlink_initial" ELSE "begin")
  /\ UNCHANGED <<pairing, uninst, reinst, base, spare, winsvc, history, spent>>

(* A claim without a journal goes back through recover(), which opens the  *)
(* gate and starts the service; it knows no other claim.                   *)
Abandoned == files.gate = "uninstall" /\ uninst.phase = "none"

BeginInstall ==
  /\ At("begin") /\ updater.for \in {"install", "recover"}
  /\ IF uninst.phase \notin {"none", "committed"} \/ files.gate = "pairing"
     THEN Done /\ UNCHANGED <<files, winsvc>>
     ELSE /\ files' = IF Abandoned THEN [files EXCEPT !.gate = Free] ELSE files
          /\ winsvc' = IF Abandoned \/ (updater.for = "recover" /\ files.pointer)
                       THEN [winsvc EXCEPT !.running = base.whole /\ files.env # NoEnv] ELSE winsvc
          /\ IF ~files.pointer /\ (updater.for = "install" \/ files.initial # "none")
             THEN Goto("initialize") ELSE Done
  /\ UNCHANGED <<pairing, uninst, reinst, base, spare, history, spent>>

-----------------------------------------------------------------------------
(* Uninstalling.                                                           *)

UninstallPending == uninst.phase \notin {"none", "committed"}

(* obtain_permit(): the running service closes the gate, or the updater    *)
(* does for a stopped one.                                                 *)
BeginUninstall ==
  /\ At("begin") /\ updater.for = "uninstall" /\ uninst.phase = "none"
  /\ IF files.pointer /\ (files.gate = Free \/ (files.gate = "uninstall" /\ ~winsvc.running))
     THEN /\ files' = [files EXCEPT !.gate = "uninstall"]
          /\ updater' = [updater EXCEPT !.at = "authorized", !.guard = ~winsvc.running]
     ELSE Done /\ UNCHANGED files
  /\ UNCHANGED <<pairing, uninst, reinst, base, spare, winsvc, history, spent>>

Authorized ==
  /\ At("authorized")
  /\ uninst' = [phase |-> "authorized", id |-> uninst.id + 1]
  /\ Goto("stop_service")
  /\ UNCHANGED <<pairing, reinst, files, base, spare, winsvc, history, spent>>

ResumeUninstall ==
  /\ At("begin") /\ updater.for = "uninstall" /\ uninst.phase # "none"
  /\ IF /\ UninstallPending
        /\ files.pointer \/ files.archive = uninst.id
        /\ files.gate = "uninstall" \/ (files.gate = Free /\ files.archive = uninst.id)
     THEN Goto(IF uninst.phase \in {"authorized", "removing_task"}
               THEN "stop_service" ELSE "removing_task")
     ELSE Done
  /\ UNCHANGED <<pairing, uninst, reinst, files, base, spare, winsvc, history, spent>>

(* With no service to stop, or no permit at the gate, there is an error.   *)
StopService ==
  /\ At("stop_service")
  /\ IF winsvc.start # "absent" /\ files.gate = "uninstall"
     THEN /\ winsvc' = [winsvc EXCEPT !.running = FALSE]
          /\ updater' = [updater EXCEPT !.at = "removing_task", !.guard = TRUE]
     ELSE Done /\ UNCHANGED winsvc
  /\ UNCHANGED <<pairing, uninst, reinst, files, base, spare, history, spent>>

MutantAfterRecord == [removing_task |-> "remove_task", removing_service |-> "remove_service",
                      service_removed |-> "unlink_pointer"]

(* What follows a phase of uninstall.json                                  *)
AfterRecord == [removing_task |-> "remove_task", removing_service |-> "remove_service",
                service_removed |-> "archive"]

RecordUninstall(phase) ==
  /\ At(phase) /\ phase \in DOMAIN AfterRecord
  /\ uninst' = [uninst EXCEPT !.phase = phase]
  /\ Goto(AfterRecord[phase])
  /\ UNCHANGED <<pairing, reinst, files, base, spare, winsvc, history, spent>>

RemoveTask ==
  /\ At("remove_task")
  /\ winsvc' = [winsvc EXCEPT !.task = FALSE]
  /\ Goto("removing_service")
  /\ UNCHANGED <<pairing, uninst, reinst, files, base, spare, history, spent>>

RemoveService ==
  /\ At("remove_service")
  /\ winsvc' = [winsvc EXCEPT !.start = "absent", !.running = FALSE]
  /\ updater' = [updater EXCEPT !.at = "service_removed", !.guard = TRUE]
  /\ UNCHANGED <<pairing, uninst, reinst, files, base, spare, history, spent>>

ArchiveState ==
  /\ At("archive")
  /\ files' = [files EXCEPT !.archive = uninst.id]
  /\ Goto("unlink_pointer")
  /\ UNCHANGED <<pairing, uninst, reinst, base, spare, winsvc, history, spent>>

UnlinkPointer ==
  /\ At("unlink_pointer")
  /\ files' = [files EXCEPT !.pointer = FALSE]
  /\ Goto("unlink_gate")
  /\ UNCHANGED <<pairing, uninst, reinst, base, spare, winsvc, history, spent>>

UnlinkGate ==
  /\ At("unlink_gate")
  /\ files' = [files EXCEPT !.gate = Free]
  /\ Goto("uninstalled")
  /\ UNCHANGED <<pairing, uninst, reinst, base, spare, winsvc, history, spent>>

Uninstalled ==
  /\ At("uninstalled")
  /\ uninst' = [uninst EXCEPT !.phase = "committed"]
  /\ Done
  /\ UNCHANGED <<pairing, reinst, files, base, spare, winsvc, history, spent>>

-----------------------------------------------------------------------------
(* Installing: initialize(), over nothing or over what an uninstall left.  *)

Preserved == files.archive # 0
Active == reinst.phase \notin {"none", "committed"}
Restoring == reinst.phase \in {"restoring", "rollback_failed"}

(* PreservedReinstall(): the data must be the ones an uninstall finished   *)
(* with, and a maintenance under way this very one.                        *)
Adoptable ==
  /\ uninst = [phase |-> "committed", id |-> files.archive]
  /\ files.env # NoEnv \/ (Restoring /\ reinst.ready)
  /\ Active => reinst.of = files.archive
  /\ files.gate # Free => Active /\ files.gate = "reinstall"

(* Never by itself until what it starts over is whole again                *)
Registered == [winsvc EXCEPT !.start = "demand"]

Initialize ==
  /\ At("initialize")
  /\ IF IF Preserved THEN Adoptable ELSE files.env = NoEnv \/ files.initial # "none"
     THEN winsvc' = Registered /\ Goto("prepared_initial")
     ELSE Done /\ UNCHANGED winsvc
  /\ UNCHANGED <<pairing, uninst, reinst, files, base, spare, history, spent>>

PreparedInitial ==
  /\ At("prepared_initial")
  /\ files' = [files EXCEPT !.initial = "prepared"]
  /\ Goto("environment")
  /\ UNCHANGED <<pairing, uninst, reinst, base, spare, winsvc, history, spent>>

Environment ==
  /\ At("environment")
  /\ files' = IF Preserved \/ files.env # NoEnv THEN files ELSE [files EXCEPT !.env = Unpaired]
  /\ Goto("configure")
  /\ UNCHANGED <<pairing, uninst, reinst, base, spare, winsvc, history, spent>>

Configure ==
  /\ At("configure")
  /\ winsvc' = [winsvc EXCEPT !.task = TRUE]
  /\ Goto("before_migrate")
  /\ UNCHANGED <<pairing, uninst, reinst, files, base, spare, history, spent>>

Holding(step, purpose) ==
  /\ winsvc' = [winsvc EXCEPT !.running = FALSE]
  /\ updater' = [at |-> step, for |-> purpose, guard |-> TRUE]

(* before_migrate(): an interrupted migration or restore is undone first,  *)
(* one that waited for its health goes on from there.                      *)
BeforeMigrate ==
  /\ At("before_migrate")
  /\ \/ /\ ~Preserved /\ Holding("migrate", updater.for) /\ UNCHANGED <<reinst, files>>
     \/ /\ Preserved /\ reinst.phase = "awaiting_health"
        /\ files' = [files EXCEPT !.gate = "reinstall"]
        /\ Goto("migrated_initial")
        /\ UNCHANGED <<reinst, winsvc>>
     \/ /\ Preserved /\ reinst.phase \in {"migrating", "restoring", "rollback_failed"}
        /\ Holding("fail_stop", "again")
        /\ UNCHANGED <<reinst, files>>
     \/ /\ Preserved /\ reinst.phase \in {"none", "committed", "prepared", "rolled_back"}
        /\ Holding("reinstall_gate", updater.for)
        /\ reinst' = IF Active THEN reinst
                     ELSE [phase |-> "prepared", ready |-> FALSE, of |-> files.archive]
        /\ UNCHANGED files
  /\ UNCHANGED <<pairing, uninst, base, spare, history, spent>>

ReinstallGate ==
  /\ At("reinstall_gate")
  /\ files' = [files EXCEPT !.gate = "reinstall"]
  /\ Goto("back_up")
  /\ UNCHANGED <<pairing, uninst, reinst, base, spare, winsvc, history, spent>>

BackUp ==
  /\ At("back_up")
  /\ spare' = IF reinst.ready THEN spare ELSE [base |-> base, env |-> files.env]
  /\ Goto("migrating")
  /\ UNCHANGED <<pairing, uninst, reinst, files, base, winsvc, history, spent>>

Migrating ==
  /\ At("migrating")
  /\ reinst' = [reinst EXCEPT !.phase = "migrating", !.ready = TRUE]
  /\ Goto("migrate")
  /\ UNCHANGED <<pairing, uninst, files, base, spare, winsvc, history, spent>>

Migrate ==
  /\ At("migrate")
  /\ base' = [base EXCEPT !.whole = @ /\ ~Preserved]
  /\ Goto("finish_migration")
  /\ UNCHANGED <<pairing, uninst, reinst, files, spare, winsvc, history, spent>>

FinishMigration ==
  /\ At("finish_migration")
  /\ base' = [base EXCEPT !.whole = TRUE]
  /\ Goto(IF Preserved THEN "awaiting_health" ELSE "migrated_initial")
  /\ UNCHANGED <<pairing, uninst, reinst, files, spare, winsvc, history, spent>>

AwaitingHealth ==
  /\ At("awaiting_health")
  /\ reinst' = [reinst EXCEPT !.phase = "awaiting_health"]
  /\ Goto("migrated_initial")
  /\ UNCHANGED <<pairing, uninst, files, base, spare, winsvc, history, spent>>

MigratedInitial ==
  /\ At("migrated_initial")
  /\ files' = [files EXCEPT !.initial = "migrated"]
  /\ Goto("automatic")
  /\ UNCHANGED <<pairing, uninst, reinst, base, spare, winsvc, history, spent>>

Automatic ==
  /\ At("automatic")
  /\ winsvc' = [winsvc EXCEPT !.start = "auto"]
  /\ Goto("start")
  /\ UNCHANGED <<pairing, uninst, reinst, files, base, spare, history, spent>>

Start ==
  /\ At("start")
  /\ winsvc' = [winsvc EXCEPT !.running = TRUE]
  /\ updater' = [updater EXCEPT !.at = "healthy", !.guard = FALSE]
  /\ UNCHANGED <<pairing, uninst, reinst, files, base, spare, history, spent>>

Healthy ==
  /\ At("healthy")
  /\ Goto(IF winsvc.running THEN "publish" ELSE "fail_demand")
  /\ UNCHANGED <<pairing, uninst, reinst, files, base, spare, winsvc, history, spent>>

Publish ==
  /\ At("publish")
  /\ files' = [files EXCEPT !.pointer = TRUE]
  /\ updater' = [updater EXCEPT !.for = "publish",
                                !.at = IF Preserved THEN "committing" ELSE "unlink_initial"]
  /\ UNCHANGED <<pairing, uninst, reinst, base, spare, winsvc, history, spent>>

UnlinkInitial ==
  /\ At("unlink_initial")
  /\ files' = [files EXCEPT !.initial = "none"]
  /\ Done
  /\ UNCHANGED <<pairing, uninst, reinst, base, spare, winsvc, history, spent>>

-----------------------------------------------------------------------------
(* What fails, and failed().                                               *)

StepFails ==
  /\ updater.at \in {"before_migrate", "reinstall_gate", "back_up", "migrating", "migrate",
                     "finish_migration", "awaiting_health", "migrated_initial", "automatic",
                     "start", "healthy"}
  /\ Accident
  /\ Goto("fail_demand")
  /\ UNCHANGED <<pairing, uninst, reinst, files, base, spare, winsvc, history>>

FailDemand ==
  /\ At("fail_demand")
  /\ winsvc' = [winsvc EXCEPT !.start = "demand", !.running = @ /\ Preserved]
  /\ IF Preserved /\ Active THEN Goto("fail_stop") ELSE Done
  /\ UNCHANGED <<pairing, uninst, reinst, files, base, spare, history, spent>>

FailStop ==
  /\ At("fail_stop")
  /\ Holding("restoring", updater.for)
  /\ files' = [files EXCEPT !.gate = "reinstall"]
  /\ UNCHANGED <<pairing, uninst, reinst, base, spare, history, spent>>

RecordRestoring ==
  /\ At("restoring")
  /\ reinst' = [reinst EXCEPT !.phase = "restoring"]
  /\ Goto(IF reinst.ready THEN "restore_database" ELSE "rolled_back")
  /\ UNCHANGED <<pairing, uninst, files, base, spare, winsvc, history, spent>>

RestoreDatabase ==
  /\ At("restore_database")
  /\ base' = spare.base
  /\ Goto("remove_config")
  /\ UNCHANGED <<pairing, uninst, reinst, files, spare, winsvc, history, spent>>

RemoveConfig ==
  /\ At("remove_config")
  /\ files' = [files EXCEPT !.env = NoEnv]
  /\ Goto("restore_config")
  /\ UNCHANGED <<pairing, uninst, reinst, base, spare, winsvc, history, spent>>

RestoreConfig ==
  /\ At("restore_config")
  /\ files' = [files EXCEPT !.env = spare.env]
  /\ Goto("rolled_back")
  /\ UNCHANGED <<pairing, uninst, reinst, base, spare, winsvc, history, spent>>

(* The gate stays closed: the data may still be restored once more.        *)
RolledBack ==
  /\ At("rolled_back")
  /\ reinst' = [reinst EXCEPT !.phase = "rolled_back"]
  /\ IF updater.for = "again" THEN Goto("reinstall_gate") ELSE Done
  /\ UNCHANGED <<pairing, uninst, files, base, spare, winsvc, history, spent>>

(* A restore that fails inside before_migrate is tried again by initialize *)
RestoreFails ==
  /\ updater.at \in {"restore_database", "remove_config", "restore_config", "rolled_back"}
  /\ Accident
  /\ reinst' = [reinst EXCEPT !.phase = "rollback_failed"]
  /\ updater' = IF updater.for = "again"
                THEN [updater EXCEPT !.at = "fail_demand", !.for = "install"] ELSE Resting
  /\ UNCHANGED <<pairing, uninst, files, base, spare, winsvc, history>>

(* The updater is killed, or the power goes                                *)
Dies ==
  /\ ~At("idle")
  /\ Accident
  /\ Done
  /\ \E power \in BOOLEAN : winsvc' = [winsvc EXCEPT !.running = @ /\ power]
  /\ UNCHANGED <<pairing, uninst, reinst, files, base, spare, history>>

InstallNext ==
  \/ ServiceStarts \/ ServiceStops \/ Identifies \/ Saves \/ Commands \/ Settles
  \/ \E d \in Devices, given \in 0 .. MaxEpoch : Pair(d, given)
  \/ RecoverPairing \/ PairGate \/ PairIdentity \/ PairMark \/ PairEnv \/ PairDone \/ PairOpen
  \/ \E purpose \in {"install", "recover", "uninstall"} : Dispatch(purpose)
  \/ Committing \/ DropArchive \/ DropUninstall \/ Committed \/ Open
  \/ BeginInstall \/ BeginUninstall \/ Authorized \/ ResumeUninstall \/ StopService
  \/ \E phase \in {"removing_task", "removing_service", "service_removed"} : RecordUninstall(phase)
  \/ RemoveTask \/ RemoveService \/ ArchiveState \/ UnlinkPointer \/ UnlinkGate \/ Uninstalled
  \/ Initialize \/ PreparedInitial \/ Environment \/ Configure \/ BeforeMigrate \/ ReinstallGate
  \/ BackUp \/ Migrating \/ Migrate \/ FinishMigration \/ AwaitingHealth \/ MigratedInitial
  \/ Automatic \/ Start \/ Healthy \/ Publish \/ UnlinkInitial
  \/ StepFails \/ FailDemand \/ FailStop \/ RecordRestoring \/ RestoreDatabase \/ RemoveConfig
  \/ RestoreConfig \/ RolledBack \/ RestoreFails \/ Dies

InstallSpec == InstallInit /\ [][InstallNext]_iVars

-----------------------------------------------------------------------------
InstallTypeOK ==
  /\ files.gate \in {Free, "pairing", "uninstall", "reinstall"}
  /\ files.archive <= uninst.id /\ reinst.of <= uninst.id
  /\ winsvc.start \in {"absent", "demand", "auto"} /\ (winsvc.running => winsvc.start # "absent")
  /\ \A d \in Devices : base.rows[d].epoch \in 0..MaxEpoch /\ base.rows[d].seq \in 0..MaxSeq
  /\ updater.guard => ~winsvc.running

(* Whatever was interrupted, while the gate is open the configuration and  *)
(* the database name the same controller epoch for the configured device:  *)
(* PairingTransaction._finish and recover.                                 *)
PairedTogether ==
  files.gate = Free /\ Paired /\ Identity # NoIdentity => Identity.epoch = files.env.epoch

(* No pairing, reinstall or restore takes an epoch back below a sequence   *)
(* number used under it since it last became the device's: "never ...      *)
(* rolls the command watermark back" (pairing.py:318).                     *)
WaterlineKept ==
  \A n \in issued : base.rows[n[1]].epoch = n[2] => base.rows[n[1]].seq >= n[3]

(* "A former controller_epoch must not be enabled again" (wire.md:19), so  *)
(* that no identity is ever below a number used under its epoch: apply()   *)
(* takes any epoch it is given.                                            *)
FormerEpochsRetired ==
  \A n \in issued \cup forgotten :
    base.rows[n[1]].epoch = n[2] => base.rows[n[1]].seq >= n[3]

(* A record written while the system was open survives every reinstall,    *)
(* failed, interrupted, restored or repeated: PreservedReinstall.          *)
OpenRecordsKept == kept \subseteq base.recs

(* What the database must never forget, whoever pairs, reinstalls or       *)
(* restores it, as long as the device keeps its epoch or is given a new    *)
(* one: numbers used, and records made behind an open gate.                *)
RecordsKept == WaterlineKept /\ OpenRecordsKept

(* A service that Windows starts by itself finds its database and its      *)
(* configuration whole; unless an installation is on record it starts      *)
(* over preserved data only behind the closed gate: initialize.            *)
BootIsSafe ==
  winsvc.start = "auto" =>
    /\ base.whole /\ files.env # NoEnv
    /\ files.pointer \/ (files.initial = "migrated" /\ (Preserved => files.gate = "reinstall"))

(* Data without an installation on record are those of a first install     *)
(* under way, or their uninstall is on record, so that a reinstall may     *)
(* adopt them: UninstallTransaction.apply, finish_committed_reinstall.     *)
DataIsOwned ==
  ~files.pointer =>
    \/ uninst.id = 0
    \/ files.archive = uninst.id /\ uninst.phase # "none"

(* Wherever a pairing, an install, an uninstall or a reinstall is cut      *)
(* short: neither the board, nor Windows, nor the next installer meets     *)
(* data that do not belong together.                                       *)
InstallationSound == PairedTogether /\ BootIsSafe /\ DataIsOwned

(* "a retry after the service has been deleted no longer depends on the    *)
(* service" (uninstall.py:1): a resumed uninstall does not go to stop a    *)
(* service that is not there any more.                                     *)
UninstallResumes == ~(At("stop_service") /\ winsvc.start = "absent")
=============================================================================
