------------------------- MODULE UpgradeTransaction -------------------------
(***************************************************************************)
(* Installing over a running backend, and going back.                      *)
(*                                                                         *)
(* desktop/smd_desktop/upgrade.py: UpgradeTransaction.apply replaces the   *)
(* program, migrates the database, switches the pointer and starts the new *)
(* service behind a closed maintenance gate; _rollback undoes as much of   *)
(* it as was done; recover resumes from the journal.  snapshot.py restores *)
(* the backup, updater.py always recovers before it authorises, and        *)
(* installer_authorization.py closes the gate.                             *)
(*                                                                         *)
(* The updater is a process that is killed, fails or loses power between   *)
(* any two of its steps; what it works on is on disk.  The service is one  *)
(* that Windows starts by itself at boot, from whatever directory is       *)
(* registered.  Programs, database and configuration are reduced to what   *)
(* can be told apart: which attempt a program directory came from, which   *)
(* schema a database has and which records are in it.                      *)
(*                                                                         *)
(* Definitions whose name starts with Mutant are plausible bugs: the model *)
(* does not use them, each shows that a property notices it.               *)
(***************************************************************************)
EXTENDS Naturals, FiniteSets

CONSTANTS
  Versions,     \* releases, 1..n in ascending order; release 1 is installed
  Schema,       \* Schema[v]: the migration head release v expects
  MaxAttempts,  \* bound: authorisations the installer asks for
  MaxRecords,   \* bound: records the service writes
  MaxSetbacks     \* bound: failing steps, killed updaters and power cuts

ASSUME VersionsAssumption == /\ 1 \in Versions /\ Versions \subseteq Nat \ {0}
                             /\ Schema \in [Versions -> Nat \ {0}]
ASSUME BoundsAssumption == MaxAttempts \in Nat /\ MaxRecords \in Nat /\ MaxSetbacks \in Nat

VARIABLES
  journal,   \* updates/active.json
  copies,    \* updates/transactions/<id>.json
  gate,      \* maintenance.json: [id, state, target], id 0 when there is none
  pointer,   \* installation.json: the installed version
  prog,      \* versions/<v>: the attempt that put it there, or Missing
  aside,     \* .rollback/<id>/program
  rejected,  \* .rollback/<id>/rejected-program
  backup,    \* updates/<id>/database.sqlite, with the configuration
  db,        \* the live database: its schema and its records
  config,    \* whether the configuration directory is in place
  svc,       \* the version Windows has registered as the service
  running,   \* the version of the service process, 0 when it is stopped
  booting,   \* Windows has still to start the service after a power cut
  guard,     \* the updater holds the Backend mutex, so no service can run
  job,       \* the updater process: the step it is at and its journal
  attempts,  \* authorisations so far
  before,    \* history: what was installed when the gate was closed
  safe,      \* history: records nothing may take away again
  setbacks     \* history: setbacks so far

disk == <<journal, copies, gate, pointer, prog, aside, rejected, backup, config>>
data == <<db, safe>>
service == <<svc, running, booting>>
upgradeVars == <<disk, data, service, guard, job, attempts, before, setbacks>>

Attempts == 1..MaxAttempts
Missing == MaxAttempts + 1
Original == 0
Mixed == 0  \* a migration that was interrupted
NoDb == [schema |-> Mixed, recs |-> {}]
NoGate == [id |-> 0, state |-> "idle", target |-> 0]

NoJournal == [id |-> 0, prev |-> 0, target |-> 0, phase |-> "none",
              step |-> "none", ready |-> FALSE, displaces |-> FALSE]
Idle == [at |-> "idle", mem |-> NoJournal]

MutantTerminal(j) == j.phase \in {"none", "committed", "rolled_back", "rollback_failed"}

Terminal(j) == j.phase \in {"none", "committed", "rolled_back"}

UpgradeInit ==
  /\ journal = NoJournal
  /\ copies = [i \in Attempts |-> NoJournal]
  /\ gate = NoGate
  /\ pointer = 1
  /\ prog = [v \in Versions |-> IF v = 1 THEN Original ELSE Missing]
  /\ aside = [i \in Attempts |-> Missing]
  /\ rejected = [i \in Attempts |-> Missing]
  /\ backup = [i \in Attempts |-> NoDb]
  /\ db = [schema |-> Schema[1], recs |-> {}]
  /\ config = TRUE
  /\ svc = 1
  /\ running = 1
  /\ booting = FALSE
  /\ guard = FALSE
  /\ job = Idle
  /\ attempts = 0
  /\ before = [pointer |-> 1, program |-> Original, schema |-> Schema[1]]
  /\ safe = {}
  /\ setbacks = 0

Setback == setbacks < MaxSetbacks /\ setbacks' = setbacks + 1

-----------------------------------------------------------------------------
(* The order of the updater's steps.  A step named after a phase or after a *)
(* rollback_step writes the journal; any other does what its name says.     *)

After == [prepared |-> "stop", stop |-> "stopped", stopped |-> "back_up",
          back_up |-> "backed_up", backed_up |-> "displace",
          displace |-> "program_displaced", program_displaced |-> "promote",
          promote |-> "migrating", migrating |-> "migrate", migrate |-> "finish_migration",
          finish_migration |-> "configure", configure |-> "point", point |-> "starting",
          starting |-> "start", start |-> "healthy", healthy |-> "committed",
          committed |-> "open", open |-> "clean_up"]

AfterRollback ==
  [claim_recovery |-> "roll_back", rolling_back |-> "stop_again",
   restore_database |-> "remove_config", remove_config |-> "restore_config",
   restore_config |-> "data_restored", data_restored |-> "reject_program",
   reject_program |-> "restore_program", restore_program |-> "program_restored",
   program_restored |-> "reconfigure", reconfigure |-> "point_back",
   point_back |-> "previous_configured", previous_configured |-> "awaiting_previous_health",
   awaiting_previous_health |-> "restart", restart |-> "healthy_again",
   healthy_again |-> "rolled_back", rolled_back |-> "open_again",
   open_again |-> "end", rollback_failed |-> "end"]

Restored == {"data_restored", "program_restored", "previous_configured", "awaiting_previous_health"}
Phases == {"prepared", "stopped", "backed_up", "program_displaced", "migrating",
           "starting", "committed", "claim_recovery", "rolling_back", "rolled_back",
           "rollback_failed"}

Following(at) == IF at \in DOMAIN After THEN After[at] ELSE AfterRollback[at]
At(step) == job.at = step
Goto(step) == job' = IF step = "end" THEN Idle ELSE [job EXCEPT !.at = step]
Proceed == Goto(Following(job.at))

(* An exception: outside the transaction the updater just ends, inside      *)
(* apply's try block it rolls back, and while rolling back it gives up.     *)
OnError(at) == CASE at \in {"prepared", "claim_recovery", "rollback_failed", "clean_up", "claim"} -> "end"
                 [] at \in DOMAIN After \ {"prepared"} -> "roll_back"
                 [] OTHER -> "rollback_failed"

(* The updater's end releases the Backend mutex.                            *)
Released(step) == guard' = (guard /\ step # "end")

Fail == /\ job # Idle
        /\ job.at \notin Phases \cup Restored
        /\ Setback
        /\ Goto(OnError(job.at))
        /\ Released(OnError(job.at))
        /\ UNCHANGED <<disk, data, service, attempts, before>>

-----------------------------------------------------------------------------
(* The journal: active.json first, then the copy that outlives it.          *)

MutantNoted(j, at) == [j EXCEPT !.phase = at]

Noted(j, at) == IF at \in Restored THEN [j EXCEPT !.phase = "rolling_back", !.step = at]
                ELSE [j EXCEPT !.phase = at]

RecordPhase ==
  /\ job.at \in Phases \cup Restored
  /\ LET j == Noted(job.mem, job.at)
         Leave(step) == /\ job' = IF step = "end" THEN Idle ELSE [at |-> step, mem |-> j]
                        /\ Released(step)
     IN \/ /\ journal' = j
           /\ copies' = [copies EXCEPT ![j.id] = j]
           /\ Leave(Following(job.at))
           /\ UNCHANGED setbacks
        \/ /\ Setback
           /\ journal' \in {journal, j}
           /\ Leave(OnError(job.at))
           /\ UNCHANGED copies
  /\ UNCHANGED <<gate, pointer, prog, aside, rejected, backup, config, data, service, attempts, before>>

MutantOpened(j) == IF gate.id = j.id /\ j.phase = "committed" THEN NoGate ELSE gate

Opened(j) == IF gate.id = j.id THEN NoGate ELSE gate

Open ==
  /\ job.at \in {"open", "open_again"}
  /\ gate' = Opened(job.mem)
  /\ Proceed
  /\ Released(Following(job.at))
  /\ UNCHANGED <<journal, copies, pointer, prog, aside, rejected, backup, config, data, service, attempts, before, setbacks>>

-----------------------------------------------------------------------------
(* The service.                                                             *)

CanRun == prog[svc] # Missing /\ config /\ db.schema = Schema[svc]

(* A service process that finds the Backend mutex taken ends at once.       *)
MayRun == ~guard

StartAtBoot ==
  /\ booting
  /\ booting' = FALSE
  /\ running' = IF running = 0 /\ MayRun /\ CanRun THEN svc ELSE running
  /\ UNCHANGED <<disk, data, svc, guard, job, attempts, before, setbacks>>

WriteRecord ==
  /\ running # 0
  /\ Cardinality(db.recs) < MaxRecords
  /\ LET r == CHOOSE n \in 1..MaxRecords : n \notin db.recs
     IN /\ db' = [db EXCEPT !.recs = @ \cup {r}]
        /\ safe' = IF gate.state # "claimed" \/ journal.step # "none"
                     THEN safe \cup {r} ELSE safe
  /\ UNCHANGED <<disk, service, guard, job, attempts, before, setbacks>>

MutantRestoreAgain(j) == IF j.ready THEN "restore_database" ELSE "data_restored"
MutantSkipProgram(j) ==
  IF j.step # "none" THEN "reconfigure" ELSE IF j.ready THEN "restore_database" ELSE "data_restored"

(* What the journal has recorded as restored is not restored again.         *)
Resume(j) == CASE j.step \notin Restored -> IF j.ready THEN "restore_database" ELSE "data_restored"
               [] j.step \in {"program_restored", "previous_configured"} -> "reconfigure"
               [] OTHER -> "reject_program"

StopService ==
  /\ job.at \in {"stop", "stop_again"}
  /\ running' = 0
  /\ guard' = TRUE
  /\ IF At("stop") THEN Proceed ELSE Goto(Resume(job.mem))
  /\ UNCHANGED <<disk, data, svc, booting, attempts, before, setbacks>>

Start ==
  /\ job.at \in {"start", "restart"}
  /\ guard' = FALSE
  /\ running' = IF running # 0 THEN running ELSE IF CanRun THEN svc ELSE 0
  /\ booting' = FALSE
  /\ Proceed
  /\ UNCHANGED <<disk, data, svc, attempts, before, setbacks>>

(* platform.healthy: the expected version answers and is ready.             *)
CheckHealth ==
  /\ job.at \in {"healthy", "healthy_again"}
  /\ LET wanted == IF At("healthy") THEN job.mem.target ELSE job.mem.prev
     IN IF running = wanted THEN Proceed ELSE Goto(OnError(job.at))
  /\ UNCHANGED <<disk, data, service, guard, attempts, before, setbacks>>

Configure ==
  /\ job.at \in {"configure", "reconfigure"}
  /\ svc' = IF At("configure") THEN job.mem.target ELSE job.mem.prev
  /\ Proceed
  /\ UNCHANGED <<disk, data, running, booting, guard, attempts, before, setbacks>>

Point ==
  /\ job.at \in {"point", "point_back"}
  /\ pointer' = IF At("point") THEN job.mem.target ELSE job.mem.prev
  /\ Proceed
  /\ UNCHANGED <<journal, copies, gate, prog, aside, rejected, backup, config, data, service, guard, attempts, before, setbacks>>

-----------------------------------------------------------------------------
(* Installing.                                                              *)

NewJournal(id, target) == [id |-> id, prev |-> pointer, target |-> target, phase |-> "prepared",
                           step |-> "none", ready |-> FALSE, displaces |-> TRUE]

(* What the installer may ask for: dispatch has recovered first.            *)
MayAuthorize == /\ job = Idle
                /\ attempts < MaxAttempts
                /\ Terminal(journal)
                /\ gate.state # "claimed"

Closed(state, target) ==
  /\ attempts' = attempts + 1
  /\ gate' = [id |-> attempts + 1, state |-> state, target |-> target]
  /\ before' = [pointer |-> pointer, program |-> prog[pointer], schema |-> db.schema]

(* A running service answers the installer's request, and refuses when the  *)
(* gate is closed already.                                                  *)
AuthorizeRunning(target) ==
  /\ MayAuthorize
  /\ running # 0
  /\ gate = NoGate
  /\ Closed("claimed", target)
  /\ job' = [at |-> "prepared", mem |-> NewJournal(attempts + 1, target)]
  /\ UNCHANGED <<journal, copies, pointer, prog, aside, rejected, backup, config, data, service, guard, setbacks>>

(* A stopped one cannot answer: the installer closes the gate itself, makes *)
(* sure that nothing runs, and claims it, unless the administrator declines *)
(* to confirm that the device is shut down.                                 *)
AuthorizeStopped(target) ==
  /\ MayAuthorize
  /\ running = 0
  /\ gate = NoGate \/ gate.target = target
  /\ Closed("prepared", target)
  /\ job' = [at |-> "claim", mem |-> NewJournal(attempts + 1, target)]
  /\ UNCHANGED <<journal, copies, pointer, prog, aside, rejected, backup, config, data, service, guard, setbacks>>

Claim ==
  /\ At("claim")
  /\ running' = 0
  /\ \/ /\ gate' = [gate EXCEPT !.state = "claimed"]
        /\ guard' = TRUE
        /\ Goto("prepared")
     \/ /\ guard' = FALSE
        /\ Goto("end")
        /\ UNCHANGED gate
  /\ UNCHANGED <<journal, copies, pointer, prog, aside, rejected, backup, config, data, svc, booting, attempts, before, setbacks>>

BackUp ==
  /\ At("back_up")
  /\ backup' = [backup EXCEPT ![job.mem.id] = db]
  /\ job' = [at |-> Following("back_up"), mem |-> [job.mem EXCEPT !.ready = TRUE]]
  /\ UNCHANGED <<journal, copies, gate, pointer, prog, aside, rejected, config, data, service, guard, attempts, before, setbacks>>

Displace ==
  /\ At("displace")
  /\ aside' = [aside EXCEPT ![job.mem.id] = prog[job.mem.target]]
  /\ prog' = [prog EXCEPT ![job.mem.target] = Missing]
  /\ Proceed
  /\ UNCHANGED <<journal, copies, gate, pointer, rejected, backup, config, data, service, guard, attempts, before, setbacks>>

Promote ==
  /\ At("promote")
  /\ prog' = [prog EXCEPT ![job.mem.target] = job.mem.id]
  /\ Proceed
  /\ UNCHANGED <<journal, copies, gate, pointer, aside, rejected, backup, config, data, service, guard, attempts, before, setbacks>>

Migrate ==
  /\ job.at \in {"migrate", "finish_migration"}
  /\ db' = [db EXCEPT !.schema = IF @ # Schema[job.mem.target] /\ At("migrate")
                                   THEN Mixed ELSE Schema[job.mem.target]]
  /\ Proceed
  /\ UNCHANGED <<disk, safe, service, guard, attempts, before, setbacks>>

(* What _cleanup_programs keeps: this transaction's versions, and those of  *)
(* any whose retained copy is not finished.                                 *)
Pending == {i \in Attempts : copies[i] # NoJournal /\ ~Terminal(copies[i])}
Needed(j) == {j.target, j.prev} \cup {copies[i].target : i \in Pending}
                                \cup {copies[i].prev : i \in Pending}

CleanUp ==
  /\ At("clean_up")
  /\ \E gone \in SUBSET (Versions \ Needed(job.mem)), old \in SUBSET (Attempts \ (Pending \cup {job.mem.id})) :
       /\ prog' = [v \in Versions |-> IF v \in gone THEN Missing ELSE prog[v]]
       /\ aside' = [i \in Attempts |-> IF i \in old THEN Missing ELSE aside[i]]
       /\ rejected' = [i \in Attempts |-> IF i \in old THEN Missing ELSE rejected[i]]
  /\ Goto("end")
  /\ Released("end")
  /\ UNCHANGED <<journal, copies, gate, pointer, backup, config, data, service, attempts, before, setbacks>>

-----------------------------------------------------------------------------
(* Going back.                                                              *)

(* With only the health of the previous service left to prove, nothing but  *)
(* that is done.                                                            *)
RollBack ==
  /\ At("roll_back")
  /\ Goto(IF job.mem.step # "awaiting_previous_health" THEN "rolling_back"
          ELSE IF pointer = job.mem.prev THEN "restart" ELSE "rollback_failed")
  /\ UNCHANGED <<disk, data, service, guard, attempts, before, setbacks>>

(* restore_snapshot: the database is replaced, then the configuration is    *)
(* removed and put back.                                                    *)
RestoreData ==
  /\ job.at \in {"restore_database", "remove_config", "restore_config"}
  /\ db' = IF At("restore_database") THEN backup[job.mem.id] ELSE db
  /\ config' = IF At("remove_config") THEN FALSE
               ELSE IF At("restore_config") THEN TRUE ELSE config
  /\ Proceed
  /\ UNCHANGED <<journal, copies, gate, pointer, prog, aside, rejected, backup, safe, service, guard, attempts, before, setbacks>>

MutantHasProgram(j) == j.displaces

(* A displaced program waits to be put back.                                *)
HasProgram(j) == j.displaces /\ aside[j.id] # Missing

RejectProgram ==
  /\ At("reject_program")
  /\ IF ~HasProgram(job.mem)
       THEN Goto("program_restored") /\ UNCHANGED <<prog, rejected>>
     ELSE IF prog[job.mem.target] = Missing
       THEN Proceed /\ UNCHANGED <<prog, rejected>>
     ELSE IF rejected[job.mem.id] # Missing
       THEN Goto("rollback_failed") /\ UNCHANGED <<prog, rejected>>
     ELSE /\ rejected' = [rejected EXCEPT ![job.mem.id] = prog[job.mem.target]]
          /\ prog' = [prog EXCEPT ![job.mem.target] = Missing]
          /\ Proceed
  /\ UNCHANGED <<journal, copies, gate, pointer, aside, backup, config, data, service, guard, attempts, before, setbacks>>

RestoreProgram ==
  /\ At("restore_program")
  /\ prog' = [prog EXCEPT ![job.mem.target] = aside[job.mem.id]]
  /\ aside' = [aside EXCEPT ![job.mem.id] = Missing]
  /\ Proceed
  /\ UNCHANGED <<journal, copies, gate, pointer, rejected, backup, config, data, service, guard, attempts, before, setbacks>>

-----------------------------------------------------------------------------
(* recover, which the boot task and every run of the installer begin with;  *)
(* the boot task then starts the service.                                   *)

ClaimJournal == [NewJournal(gate.id, gate.target) EXCEPT !.displaces = FALSE]

Recover ==
  /\ job = Idle
  /\ gate' = IF Terminal(journal) THEN Opened(journal) ELSE gate
  /\ IF ~Terminal(journal)
       THEN job' = [at |-> "roll_back", mem |-> journal] /\ UNCHANGED <<running, booting>>
     ELSE IF gate'.state = "claimed"
       THEN job' = [at |-> "claim_recovery", mem |-> ClaimJournal] /\ UNCHANGED <<running, booting>>
     ELSE /\ running' \in IF running = 0 /\ CanRun THEN {0, svc} ELSE {running}
          /\ UNCHANGED <<booting, job>>
  /\ UNCHANGED <<journal, copies, pointer, prog, aside, rejected, backup, config, data, svc, guard, attempts, before, setbacks>>

KillUpdater ==
  /\ job # Idle
  /\ Setback
  /\ job' = Idle
  /\ guard' = FALSE
  /\ UNCHANGED <<disk, data, service, attempts, before>>

PowerCut ==
  /\ Setback
  /\ job' = Idle
  /\ guard' = FALSE
  /\ running' = 0
  /\ booting' = TRUE
  /\ UNCHANGED <<disk, data, svc, attempts, before>>

-----------------------------------------------------------------------------
Step == \/ RecordPhase \/ Open \/ StopService \/ Start \/ CheckHealth \/ Configure \/ Point
        \/ Claim \/ BackUp \/ Displace \/ Promote \/ Migrate \/ CleanUp
        \/ RollBack \/ RestoreData \/ RejectProgram \/ RestoreProgram

Authorize == \E target \in {v \in Versions : v >= pointer} :
               AuthorizeRunning(target) \/ AuthorizeStopped(target)

UpgradeNext ==
  \/ Step \/ Fail \/ StartAtBoot \/ WriteRecord \/ Authorize \/ Recover
  \/ KillUpdater \/ PowerCut

UpgradeSpec == UpgradeInit /\ [][UpgradeNext]_upgradeVars

(* The updater goes on as long as it lives, and recovery is started again:  *)
(* by the boot task, or by running the installer.                           *)
UpgradeFairSpec == UpgradeSpec /\ WF_upgradeVars(Step) /\ WF_upgradeVars(Recover)

-----------------------------------------------------------------------------
Programs == {Original, Missing} \cup Attempts
Steps == {"idle", "claim", "clean_up", "roll_back", "stop_again"}
           \cup DOMAIN After \cup DOMAIN AfterRollback
Journals == [id : 0..MaxAttempts, prev : Versions \cup {0}, target : Versions \cup {0},
             phase : Phases \cup {"none"}, step : Restored \cup {"none"},
             ready : BOOLEAN, displaces : BOOLEAN]
Databases == [schema : {Mixed} \cup {Schema[v] : v \in Versions}, recs : SUBSET (1..MaxRecords)]

(* Every variable has its type.                                             *)
UpgradeTypeOK ==
  /\ journal \in Journals
  /\ copies \in [Attempts -> Journals]
  /\ gate \in [id : 0..MaxAttempts, state : {"idle", "prepared", "claimed"}, target : Versions \cup {0}]
  /\ pointer \in Versions
  /\ prog \in [Versions -> Programs]
  /\ aside \in [Attempts -> Programs]
  /\ rejected \in [Attempts -> Programs]
  /\ backup \in [Attempts -> Databases]
  /\ db \in Databases
  /\ config \in BOOLEAN
  /\ svc \in Versions
  /\ running \in Versions \cup {0}
  /\ booting \in BOOLEAN
  /\ guard \in BOOLEAN
  /\ job \in [at : Steps, mem : Journals]
  /\ attempts \in 0..MaxAttempts
  /\ before \in [pointer : Versions, program : Programs, schema : {Mixed} \cup {Schema[v] : v \in Versions}]
  /\ safe \subseteq 1..MaxRecords
  /\ setbacks \in 0..MaxSetbacks

(* Whoever finds the gate open finds an installation that is all of a piece: *)
(* the registered service is the installed version, its program is there,    *)
(* and the database and the configuration are the ones it expects.           *)
OpenIsWhole ==
  gate.state # "claimed" =>
    /\ Terminal(journal)
    /\ svc = pointer
    /\ prog[pointer] # Missing
    /\ config
    /\ db.schema = Schema[pointer]

(* A transaction recorded as rolled back has put back what was there when    *)
(* the gate was closed, wherever it was interrupted.                         *)
RolledBackIsBefore ==
  journal.phase = "rolled_back" /\ journal.id = attempts =>
    /\ pointer = before.pointer
    /\ svc = before.pointer
    /\ prog[before.pointer] = before.program
    /\ db.schema = before.schema

(* Restoring never takes away a record that was written with the gate open,  *)
(* or once the journal has said that the data are restored.                  *)
SafeRecordsKept == safe \subseteq db.recs

(* A service that runs has its program, its configuration and the database   *)
(* it expects, whatever the updater is doing.                                *)
RunningIsWhole ==
  running # 0 => prog[running] # Missing /\ config /\ db.schema = Schema[running]

(* Nobody, neither a user behind an open gate nor a service that Windows has *)
(* started meanwhile, meets an installation that is partly replaced.         *)
InstallationIsWhole == OpenIsWhole /\ RunningIsWhole

(* There is a program to go back to, in its directory or displaced, until    *)
(* the transaction is over.                                                  *)
WayBack ==
  LET home == IF Terminal(journal) THEN pointer ELSE journal.prev
  IN \/ prog[home] # Missing
     \/ ~Terminal(journal) /\ journal.target = home /\ aside[journal.id] # Missing

(* Once setbacks cease, recovery ends and the gate is no longer claimed.     *)
RecoveryEnds == <>[](gate.state # "claimed")

(* Claimed by deploy/windows/README.md: the recovery task, which runs the    *)
(* updater of the registered version, rolls an unfinished upgrade back at    *)
(* boot.  Its program has to be there.                                       *)
BootTaskIsThere == booting /\ ~Terminal(journal) => prog[svc] # Missing
=============================================================================
