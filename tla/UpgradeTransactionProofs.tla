---------------------- MODULE UpgradeTransactionProofs ----------------------
(***************************************************************************)
(* Installing and going back: for any versions, schemas and bounds, an     *)
(* installation that is whole whenever somebody can meet it, a way back    *)
(* until the transaction is over, and records that are not taken away.     *)
(*                                                                         *)
(* The updater is killed between any two steps and recovered from what is  *)
(* on disk.  The invariant therefore has a part about the disk alone       *)
(* (Recorded: behind a journal that is not terminal, Reversible says that  *)
(* going back by it still finds what it needs) and one about the step the  *)
(* updater is at and what it knows (Holds).                                *)
(***************************************************************************)
EXTENDS UpgradeTransaction, FiniteSetTheorems, TLAPS

-----------------------------------------------------------------------------
(* The invariant.                                                          *)

(* All of a piece, as version v.                                           *)
Whole(v) ==
  svc = v /\ pointer = v /\ prog[v] # Missing /\ config /\ db.schema = Schema[v]

(* As it was when the gate was closed.                                     *)
AsBefore == /\ pointer = before.pointer /\ svc = before.pointer
            /\ prog[before.pointer] = before.program /\ db.schema = before.schema

(* The rollback steps after which the program, and after which the service *)
(* and the pointer, are the earlier ones.                                  *)
Replaced == {"program_restored", "previous_configured", "awaiting_previous_health"}
Pointed  == {"previous_configured", "awaiting_previous_health"}

(* What going back by the journal j needs: the backup until the data are   *)
(* restored, the program where it was or displaced until it is back, and   *)
(* from then on what has been put back.                                    *)
DataKept(j) ==
  IF j.step = "none" /\ j.ready
  THEN backup[j.id].schema = before.schema /\ safe \subseteq backup[j.id].recs
  ELSE db.schema = before.schema /\ config

ProgramKept(j) ==
  IF j.step \in Replaced \/ j.prev # j.target \/ aside[j.id] = Missing
  THEN prog[j.prev] = before.program ELSE aside[j.id] = before.program

Reversible(j) ==
  /\ j.id = attempts /\ gate.id = attempts /\ gate.state = "claimed"
  /\ j.prev = before.pointer
  /\ ~j.displaces => aside[j.id] = Missing
  /\ DataKept(j)
  /\ ProgramKept(j)
  /\ j.step \in Pointed => svc = j.prev /\ pointer = j.prev

(* The disk, behind every gate and journal.                                *)
Recorded ==
  /\ before.schema = Schema[before.pointer] /\ before.program # Missing
  /\ gate.state # "idle" => gate.id = attempts /\ attempts >= 1 /\ gate.target # 0
  /\ \A i \in Attempts : i > attempts => aside[i] = Missing
  /\ journal.id <= attempts
  /\ journal.phase # "none" => journal.id >= 1 /\ journal.target # 0
  /\ journal.id # attempts => Terminal(journal) /\ AsBefore /\ aside[attempts] = Missing
  /\ IF Terminal(journal) THEN Whole(pointer) ELSE Reversible(journal)
  /\ journal.phase = "rolled_back" /\ journal.id = attempts => AsBefore
  /\ safe \subseteq db.recs

(* The service: only the registered one runs, whole, and none while the    *)
(* updater holds the mutex.                                                *)
Served ==
  /\ running \in {0, svc}
  /\ guard => running = 0
  /\ job = Idle => ~guard
  /\ RunningIsWhole

(* The steps of the updater: before its journal is on disk, installing,    *)
(* and going back.                                                         *)
Unrecorded == {"claim", "prepared", "claim_recovery"}
FromStarting  == {"starting", "start", "healthy", "committed"}
FromPoint     == {"point"} \cup FromStarting
FromConfigure == {"configure"} \cup FromPoint
FromMigrating == {"migrating", "migrate", "finish_migration"} \cup FromConfigure
FromDisplaced == {"program_displaced", "promote"} \cup FromMigrating
Installing == {"stop", "stopped", "back_up", "backed_up", "displace"} \cup FromDisplaced
Undoing == {"stop_again", "restore_database", "remove_config", "restore_config", "data_restored",
            "reject_program", "restore_program", "program_restored", "reconfigure", "point_back",
            "previous_configured", "awaiting_previous_health"}
Returned == {"restart", "healthy_again", "rolled_back", "open_again"}
Underway == {"prepared", "stopped", "backed_up", "program_displaced", "migrating", "starting"}

(* What an updater at the step at knows by its journal m.                  *)
Knows(at, m) ==
  /\ at = "idle" => m = NoJournal
  /\ at # "idle" => m.id = attempts /\ m.id \in Attempts /\ m.target # 0
  /\ at \in Unrecorded => /\ m.step = "none" /\ ~m.ready /\ m.prev = pointer
                          /\ gate.state # "idle" /\ journal.id # attempts
  /\ at \notin Unrecorded \cup {"idle"} =>
       journal.id = attempts /\ (journal.step # "none" => m.step # "none")
  /\ at \notin {"idle", "claim", "clean_up"} => Reversible(m)
  /\ at \in Undoing => journal = m /\ m.phase = "rolling_back"
  /\ at \in {"rolling_back", "stop_again"} => m.step # "awaiting_previous_health"
  /\ at \in Installing =>
       /\ m.phase \in Underway
       /\ IF at = "backed_up" THEN journal = [m EXCEPT !.ready = FALSE] ELSE journal = m
  /\ at \in {"open", "clean_up"} => journal = m /\ m.phase = "committed" /\ pointer = m.target
  /\ at \in Returned => m.step = "awaiting_previous_health"
  /\ at = "open_again" => journal = m /\ m.phase = "rolled_back"

(* What it has installed; g: it holds the mutex.                           *)
Installs(at, m, g) ==
  /\ at \in {"claim", "prepared"} \cup Installing => m.displaces
  /\ at \in Installing => m.step = "none" /\ config
  /\ at \in {"stop", "stopped", "back_up"} => ~m.ready
  /\ at \in Installing \ {"stop", "stopped", "back_up"} => m.ready
  /\ at \in Installing \ FromDisplaced => aside[m.id] = Missing
  /\ at \in {"program_displaced", "promote"} /\ m.prev = m.target => aside[m.id] # Missing
  /\ at \in FromMigrating => prog[m.target] # Missing
  /\ at \in FromConfigure => db.schema = Schema[m.target]
  /\ at \in FromPoint => svc = m.target
  /\ at \in FromStarting => pointer = m.target
  /\ at \in Installing \ {"stop", "healthy", "committed"} => g

(* What it has put back.                                                   *)
Undoes(at, m, g) ==
  /\ at \in {"restore_database", "remove_config", "restore_config"} => m.step = "none" /\ m.ready
  /\ at = "data_restored" => m.step = "none" /\ config
  /\ at \in {"remove_config", "restore_config", "data_restored"} => db.schema = before.schema
  /\ at \in {"reject_program", "restore_program", "program_restored"} => m.step = "data_restored"
  /\ at = "restore_program" => m.displaces /\ aside[m.id] # Missing
  /\ at = "program_restored" => prog[m.prev] = before.program
  /\ at \in {"reconfigure", "point_back", "previous_configured"} =>
       m.step \in {"program_restored", "previous_configured"}
  /\ at \in {"point_back", "previous_configured"} => svc = m.prev
  /\ at = "previous_configured" => pointer = m.prev
  /\ at = "awaiting_previous_health" => m.step = "previous_configured"
  /\ at \in Undoing \ {"stop_again"} => g

Holds(at, m, g) == Knows(at, m) /\ Installs(at, m, g) /\ Undoes(at, m, g)

UpgradeInv == UpgradeTypeOK /\ Recorded /\ Served /\ Holds(job.at, job.mem, guard)

-----------------------------------------------------------------------------
(* The order of the steps, and the types.                                  *)

LEMMA AfterDomain ==
  DOMAIN After = {"prepared", "stop", "stopped", "back_up", "backed_up", "displace", "program_displaced",
                  "promote", "migrating", "migrate", "finish_migration", "configure", "point", "starting",
                  "start", "healthy", "committed", "open"}
  BY DEF After

LEMMA AfterRollbackDomain ==
  DOMAIN AfterRollback = {"claim_recovery", "rolling_back", "restore_database", "remove_config",
                          "restore_config", "data_restored", "reject_program", "restore_program",
                          "program_restored", "reconfigure", "point_back", "previous_configured",
                          "awaiting_previous_health", "restart", "healthy_again", "rolled_back",
                          "open_again", "rollback_failed"}
  BY DEF AfterRollback

LEMMA FollowingInstalling ==
  /\ Following("prepared") = "stop" /\ Following("stop") = "stopped" /\ Following("stopped") = "back_up"
  /\ Following("back_up") = "backed_up" /\ Following("backed_up") = "displace"
  /\ Following("displace") = "program_displaced" /\ Following("program_displaced") = "promote"
  /\ Following("promote") = "migrating" /\ Following("migrating") = "migrate"
  /\ Following("migrate") = "finish_migration" /\ Following("finish_migration") = "configure"
  /\ Following("configure") = "point" /\ Following("point") = "starting"
       /\ Following("starting") = "start"
  /\ Following("start") = "healthy" /\ Following("healthy") = "committed"
       /\ Following("committed") = "open"
  /\ Following("open") = "clean_up"
  BY DEF Following, After

LEMMA FollowingUndoing ==
  /\ Following("claim_recovery") = "roll_back" /\ Following("rolling_back") = "stop_again"
  /\ Following("restore_database") = "remove_config" /\ Following("remove_config") = "restore_config"
  /\ Following("restore_config") = "data_restored" /\ Following("data_restored") = "reject_program"
  /\ Following("reject_program") = "restore_program"
       /\ Following("restore_program") = "program_restored"
  /\ Following("program_restored") = "reconfigure" /\ Following("reconfigure") = "point_back"
  /\ Following("point_back") = "previous_configured"
  /\ Following("previous_configured") = "awaiting_previous_health"
  /\ Following("awaiting_previous_health") = "restart" /\ Following("restart") = "healthy_again"
  /\ Following("healthy_again") = "rolled_back" /\ Following("rolled_back") = "open_again"
  /\ Following("open_again") = "end" /\ Following("rollback_failed") = "end"
  BY AfterDomain DEF Following, AfterRollback

(* Every step the updater can be at.                                       *)
LEMMA StepsAre ==
  Steps = {"idle", "claim", "clean_up", "roll_back", "stop_again"} \cup Installing \cup (Undoing \ {"stop_again"})
            \cup Returned \cup {"prepared", "claim_recovery", "open", "rolling_back", "rollback_failed"}
  BY AfterDomain, AfterRollbackDomain
     DEF Steps, Installing, FromDisplaced, FromMigrating, FromConfigure, FromPoint, FromStarting, Undoing, Returned

(* Where an exception leads.                                               *)
LEMMA OnErrorLeads ==
  /\ \A at \in {"prepared", "claim_recovery", "rollback_failed", "clean_up", "claim"} : OnError(at) = "end"
  /\ \A at \in Installing \cup {"open"} : OnError(at) = "roll_back"
  /\ \A at \in Undoing \cup Returned \cup {"roll_back", "rolling_back"} : OnError(at) = "rollback_failed"
  BY AfterDomain
     DEF OnError, Installing, FromDisplaced, FromMigrating, FromConfigure, FromPoint, FromStarting, Undoing, Returned

-----------------------------------------------------------------------------
(* The updater's record, and the steps that touch nothing else.            *)

Disk == <<journal, gate, pointer, prog, aside, backup, config, db, safe, svc, attempts, before>>

(* An updater is at a step, with a journal.                                *)
LEMMA JobIs ==
  ASSUME UpgradeTypeOK
  PROVE  job.at \in Steps /\ job.mem \in Journals /\ job = [at |-> job.at, mem |-> job.mem]
  BY DEF UpgradeTypeOK

LEMMA JournalIs ==
  ASSUME NEW m \in Journals
  PROVE  /\ m.id \in 0..MaxAttempts /\ m.prev \in Versions \cup {0} /\ m.target \in Versions \cup {0}
         /\ m.phase \in Phases \cup {"none"} /\ m.step \in Restored \cup {"none"}
         /\ m.ready \in BOOLEAN /\ m.displaces \in BOOLEAN
  BY DEF Journals

(* No journal is one, and the first entry of one.                          *)
LEMMA NewJournals ==
  ASSUME UpgradeTypeOK
  PROVE  /\ NoJournal \in Journals /\ Idle \in [at : Steps, mem : Journals]
         /\ \A id \in 0..MaxAttempts, t \in Versions \cup {0} :
              /\ NewJournal(id, t) \in Journals
              /\ [NewJournal(id, t) EXCEPT !.displaces = FALSE] \in Journals
<1>1. NoJournal \in Journals
  BY BoundsAssumption DEF NoJournal, Journals
<1>2. "idle" \in Steps
  BY DEF Steps
<1>3. ASSUME NEW id \in 0..MaxAttempts, NEW t \in Versions \cup {0}
      PROVE  /\ NewJournal(id, t) \in Journals
             /\ [NewJournal(id, t) EXCEPT !.displaces = FALSE] \in Journals
  BY DEF NewJournal, Journals, UpgradeTypeOK, Phases, Restored
<1>4. QED BY <1>1, <1>2, <1>3 DEF Idle

(* Where Goto leads, and with what.                                        *)
LEMMA GotoIs ==
  ASSUME UpgradeTypeOK, NEW step, Goto(step)
  PROVE  job' = IF step = "end" THEN Idle ELSE [at |-> step, mem |-> job.mem]
  BY JobIs DEF Goto

LEMMA GotoTyped ==
  ASSUME UpgradeTypeOK, NEW step \in Steps \cup {"end"}, Goto(step)
  PROVE  job' \in [at : Steps, mem : Journals]
  BY JobIs, GotoIs, NewJournals

(* What follows a step is one.                                             *)
LEMMA FollowingTyped ==
  /\ \A at \in Steps \ {"idle", "claim", "clean_up", "roll_back", "stop_again"} : Following(at) \in Steps \cup {"end"}
  /\ \A at \in Steps \ {"idle"} : OnError(at) \in Steps \cup {"end"}
<1> USE StepsAre DEF Installing, FromDisplaced, FromMigrating, FromConfigure, FromPoint, FromStarting,
                     Undoing, Returned
<1>1. \A at \in Steps \ {"idle", "claim", "clean_up", "roll_back", "stop_again"} : Following(at) \in Steps \cup {"end"}
  BY FollowingInstalling, FollowingUndoing
<1>2. \A at \in Steps \ {"idle"} : OnError(at) \in Steps \cup {"end"}
  BY OnErrorLeads
<1>3. QED BY <1>1, <1>2

(* Going back by a journal finds on the same disk what it found.           *)
LEMMA ReversibleStill ==
  ASSUME UNCHANGED Disk, NEW j
  PROVE  Reversible(j)' <=> Reversible(j)
  BY DEF Disk, Reversible, DataKept, ProgramKept

LEMMA RecordedStill ==
  ASSUME UNCHANGED Disk, Recorded
  PROVE  Recorded'
<1>1. Reversible(journal)' <=> Reversible(journal)
  BY DEF Disk, Reversible, DataKept, ProgramKept
<1>2. Whole(pointer)' <=> Whole(pointer)
  BY DEF Disk, Whole
<1>3. AsBefore' <=> AsBefore
  BY DEF Disk, AsBefore
<1>4. Terminal(journal)' <=> Terminal(journal)
  BY DEF Disk, Terminal
<1>5. QED BY <1>1, <1>2, <1>3, <1>4 DEF Recorded, Disk

LEMMA HoldsStill ==
  ASSUME UNCHANGED Disk, NEW at, NEW m, NEW g, Holds(at, m, g)
  PROVE  Holds(at, m, g)'
<1>1. Reversible(m)' <=> Reversible(m)
  BY ReversibleStill
<1>2. Knows(at, m)'
  BY <1>1 DEF Holds, Knows, Disk
<1>3. Installs(at, m, g)'
  BY DEF Holds, Installs, Disk
<1>4. Undoes(at, m, g)'
  BY DEF Holds, Undoes, Disk
<1>5. QED BY <1>2, <1>3, <1>4 DEF Holds

(* An updater that has ended knows nothing.                                *)
LEMMA HoldsIdle ==
  ASSUME NEW g
  PROVE  Holds("idle", NoJournal, g) /\ Holds("idle", NoJournal, g)'
  BY DEF Holds, Knows, Installs, Undoes, Unrecorded, Installing, FromDisplaced, FromMigrating,
       FromConfigure,
         FromPoint, FromStarting, Undoing, Returned

(* A step that leaves the disk alone: what is left to show of it.          *)
LEMMA OnlyMoved ==
  ASSUME UpgradeInv, UNCHANGED Disk, UpgradeTypeOK', Served', NEW at, NEW m, job' = [at |-> at, mem |-> m],
         NEW g, g = guard', Holds(at, m, g)
  PROVE  UpgradeInv'
<1>1. Holds(at, m, g)'
  BY HoldsStill
<1>2. job'.at = at /\ job'.mem = m
  OBVIOUS
<1>3. QED BY <1>1, <1>2, RecordedStill DEF UpgradeInv

-----------------------------------------------------------------------------
(* Every variable keeps its type.                                          *)

LEMMA NotedTyped ==
  ASSUME NEW m \in Journals, NEW at \in Phases \cup Restored
  PROVE  Noted(m, at) \in Journals
<1>1. CASE at \in Restored
  BY <1>1, JournalIs DEF Noted, Journals, Phases, Restored
<1>2. CASE at \notin Restored
  BY <1>2, JournalIs DEF Noted, Journals, Phases
<1>3. QED BY <1>1, <1>2

LEMMA FaultTyped ==
  ASSUME UpgradeTypeOK, Setback
  PROVE  setbacks' \in 0..MaxSetbacks
  BY BoundsAssumption DEF Setback, UpgradeTypeOK

LEMMA TypeRecord ==
  ASSUME UpgradeInv, RecordPhase
  PROVE  UpgradeTypeOK'
<1> DEFINE j == Noted(job.mem, job.at)
<1>1. UpgradeTypeOK /\ j \in Journals /\ Following(job.at) \in Steps \cup {"end"}
        /\ OnError(job.at) \in Steps \cup {"end"}
  <2>1. job.at \in Phases \cup Restored
    BY DEF RecordPhase
  <2>2. job.at \notin {"idle", "claim", "clean_up", "roll_back", "stop_again"}
    BY <2>1 DEF Phases, Restored
  <2>3. QED BY <2>1, <2>2, JobIs, NotedTyped, FollowingTyped DEF UpgradeInv
<1>2. job' \in [at : Steps, mem : Journals]
  <2>1. PICK step \in Steps \cup {"end"} : job' = IF step = "end" THEN Idle ELSE [at |-> step, mem |-> j]
    BY <1>1 DEF RecordPhase
  <2>2. QED BY <1>1, <2>1, NewJournals
<1>3. journal' \in Journals /\ copies' \in [Attempts -> Journals]
  <2>1. \/ journal' = j /\ copies' = [copies EXCEPT ![j.id] = j]
        \/ journal' \in {journal, j} /\ UNCHANGED copies
    BY DEF RecordPhase
  <2>2. QED BY <1>1, <2>1 DEF UpgradeTypeOK
<1>4. guard' \in BOOLEAN /\ setbacks' \in 0..MaxSetbacks
  <2>1. /\ \E step : Released(step)
        /\ UNCHANGED setbacks \/ Setback
    BY DEF RecordPhase
  <2>2. QED BY <1>1, <2>1, FaultTyped DEF Released, UpgradeTypeOK
<1>5. UNCHANGED <<gate, pointer, prog, aside, rejected, backup, config, data, service, attempts, before>>
  BY DEF RecordPhase
<1>6. QED BY <1>1, <1>2, <1>3, <1>4, <1>5 DEF UpgradeTypeOK, data, service

LEMMA TypeFail ==
  ASSUME UpgradeInv, Fail
  PROVE  UpgradeTypeOK'
<1>1. UpgradeTypeOK /\ OnError(job.at) \in Steps \cup {"end"}
  <2>1. job.at # "idle"
    BY DEF Fail, UpgradeInv, Holds, Knows, Idle, UpgradeTypeOK
  <2>2. QED BY <2>1, JobIs, FollowingTyped DEF UpgradeInv
<1>2. job' \in [at : Steps, mem : Journals]
  BY <1>1, GotoTyped DEF Fail
<1>3. guard' \in BOOLEAN /\ setbacks' \in 0..MaxSetbacks
  BY <1>1, BoundsAssumption DEF Fail, Released, Setback, UpgradeTypeOK
<1>4. UNCHANGED <<disk, data, service, attempts, before>>
  BY DEF Fail
<1>5. QED BY <1>1, <1>2, <1>3, <1>4 DEF UpgradeTypeOK, disk, data, service

(* The record that is written is one the database has not got.             *)
LEMMA NextRecord ==
  ASSUME UpgradeTypeOK, Cardinality(db.recs) < MaxRecords
  PROVE  (CHOOSE n \in 1..MaxRecords : n \notin db.recs) \in 1..MaxRecords
<1>1. SUFFICES \E n \in 1..MaxRecords : n \notin db.recs
  OBVIOUS
<1>2. IsFiniteSet(1..MaxRecords) /\ Cardinality(1..MaxRecords) = MaxRecords
  BY BoundsAssumption, FS_Interval
<1>3. db.recs \subseteq 1..MaxRecords
  BY DEF UpgradeTypeOK, Databases
<1>4. db.recs = 1..MaxRecords => FALSE
  BY <1>2, BoundsAssumption
<1>5. QED BY <1>3, <1>4

LEMMA TypeService ==
  ASSUME UpgradeInv, StartAtBoot \/ WriteRecord \/ KillUpdater \/ PowerCut
  PROVE  UpgradeTypeOK'
<1>1. UpgradeTypeOK /\ Idle \in [at : Steps, mem : Journals]
  BY NewJournals DEF UpgradeInv
<1>2. CASE StartAtBoot
  BY <1>1, <1>2 DEF StartAtBoot, UpgradeTypeOK, disk, data
<1>3. CASE WriteRecord
  <2>1. PICK r : r = CHOOSE n \in 1..MaxRecords : n \notin db.recs
    OBVIOUS
  <2>2. r \in 1..MaxRecords
    BY <1>1, <1>3, <2>1, NextRecord DEF WriteRecord
  <2>3. db' = [db EXCEPT !.recs = db.recs \cup {r}] /\ safe' \in {safe, safe \cup {r}}
    BY <1>3, <2>1 DEF WriteRecord
  <2>4. db' \in Databases
    BY <1>1, <2>2, <2>3 DEF UpgradeTypeOK, Databases
  <2>5. safe' \subseteq 1..MaxRecords
    BY <1>1, <2>2, <2>3 DEF UpgradeTypeOK
  <2>6. UNCHANGED <<disk, service, guard, job, attempts, before, setbacks>>
    BY <1>3 DEF WriteRecord
  <2>7. QED BY <1>1, <2>4, <2>5, <2>6 DEF UpgradeTypeOK, disk, service
<1>4. CASE KillUpdater
  <2>1. /\ UNCHANGED <<disk, data, svc, attempts, before>> /\ job' = Idle /\ guard' = FALSE
        /\ running' \in {0, running} /\ booting' \in {TRUE, booting}
    BY <1>4 DEF KillUpdater, service
  <2>2. setbacks' \in 0..MaxSetbacks
    BY <1>1, <1>4, FaultTyped DEF KillUpdater
  <2>3. QED BY <1>1, <2>1, <2>2 DEF UpgradeTypeOK, disk, data
<1>5. CASE PowerCut
  <2>1. /\ UNCHANGED <<disk, data, svc, attempts, before>> /\ job' = Idle /\ guard' = FALSE
        /\ running' \in {0, running} /\ booting' \in {TRUE, booting}
    BY <1>5 DEF PowerCut, service
  <2>2. setbacks' \in 0..MaxSetbacks
    BY <1>1, <1>5, FaultTyped DEF PowerCut
  <2>3. QED BY <1>1, <2>1, <2>2 DEF UpgradeTypeOK, disk, data
<1>6. QED BY <1>2, <1>3, <1>4, <1>5

(* What an updater works on: an attempt, and two releases.                 *)
LEMMA MemIs ==
  ASSUME UpgradeInv, job.at # "idle"
  PROVE  /\ job.mem.id \in Attempts /\ job.mem.id = attempts /\ job.mem.target \in Versions
         /\ job.at \notin {"claim", "clean_up"} => Reversible(job.mem) /\ job.mem.prev \in Versions
<1>1. job.mem.target \in Versions \cup {0}
  BY JobIs, JournalIs DEF UpgradeInv
<1>2. job.at \notin {"claim", "clean_up"} => Reversible(job.mem)
  BY DEF UpgradeInv, Holds, Knows
<1>3. Reversible(job.mem) => job.mem.prev \in Versions
  BY DEF Reversible, UpgradeInv, UpgradeTypeOK
<1>4. QED BY <1>1, <1>2, <1>3 DEF UpgradeInv, Holds, Knows

LEMMA TypeMoves ==
  ASSUME UpgradeInv, Open \/ StopService \/ Start \/ CheckHealth \/ Configure \/ Point \/ RollBack
  PROVE  UpgradeTypeOK'
<1>1. UpgradeTypeOK
  BY DEF UpgradeInv
<1>2. CASE Open
  <2>1. job' \in [at : Steps, mem : Journals]
    <3>1. Following(job.at) \in Steps \cup {"end"}
      BY <1>1, <1>2, JobIs, FollowingTyped DEF Open
    <3>2. QED BY <1>1, <1>2, <3>1, GotoTyped DEF Open, Proceed
  <2>2. gate' \in {NoGate, gate} /\ guard' \in BOOLEAN
    BY <1>1, <1>2 DEF Open, Opened, Released, UpgradeTypeOK
  <2>3. NoGate \in [id : 0..MaxAttempts, state : {"idle", "prepared", "claimed"}, target : Versions \cup {0}]
    BY BoundsAssumption DEF NoGate
  <2>4. gate' \in [id : 0..MaxAttempts, state : {"idle", "prepared", "claimed"}, target : Versions \cup {0}]
    BY <1>1, <2>2, <2>3 DEF UpgradeTypeOK
  <2>5. QED BY <1>1, <1>2, <2>1, <2>2, <2>4 DEF Open, UpgradeTypeOK, data, service
<1>3. CASE StopService
  <2>1. job' \in [at : Steps, mem : Journals]
    <3>1. Following("stop") \in Steps /\ Resume(job.mem) \in Steps
      BY FollowingInstalling, StepsAre DEF Resume, Installing, Undoing
    <3>2. QED BY <1>1, <1>3, <3>1, GotoTyped DEF StopService, Proceed, At
  <2>2. QED BY <1>1, <1>3, <2>1 DEF StopService, UpgradeTypeOK, disk, data
<1>4. CASE Start
  <2>1. job' \in [at : Steps, mem : Journals]
    <3>1. Following(job.at) \in Steps \cup {"end"}
      BY <1>1, <1>4, JobIs, FollowingTyped DEF Start
    <3>2. QED BY <1>1, <1>4, <3>1, GotoTyped DEF Start, Proceed
  <2>2. running' \in Versions \cup {0}
    BY <1>1, <1>4 DEF Start, UpgradeTypeOK
  <2>3. QED BY <1>1, <1>4, <2>1, <2>2 DEF Start, UpgradeTypeOK, disk, data
<1>5. CASE CheckHealth
  <2>1. job' \in [at : Steps, mem : Journals]
    <3>1. Following(job.at) \in Steps \cup {"end"} /\ OnError(job.at) \in Steps \cup {"end"}
      BY <1>1, <1>5, JobIs, FollowingTyped DEF CheckHealth
    <3>2. QED BY <1>1, <1>5, <3>1, GotoTyped DEF CheckHealth, Proceed
  <2>2. QED BY <1>1, <1>5, <2>1 DEF CheckHealth, UpgradeTypeOK, disk, data, service
<1>6. CASE Configure
  <2>1. job' \in [at : Steps, mem : Journals]
    <3>1. Following(job.at) \in Steps \cup {"end"}
      BY <1>1, <1>6, JobIs, FollowingTyped DEF Configure
    <3>2. QED BY <1>1, <1>6, <3>1, GotoTyped DEF Configure, Proceed
  <2>2. svc' \in Versions
    BY <1>6, MemIs DEF Configure
  <2>3. QED BY <1>1, <1>6, <2>1, <2>2 DEF Configure, UpgradeTypeOK, disk, data
<1>7. CASE Point
  <2>1. job' \in [at : Steps, mem : Journals]
    <3>1. Following(job.at) \in Steps \cup {"end"}
      BY <1>1, <1>7, JobIs, FollowingTyped DEF Point
    <3>2. QED BY <1>1, <1>7, <3>1, GotoTyped DEF Point, Proceed
  <2>2. pointer' \in Versions
    BY <1>7, MemIs DEF Point
  <2>3. QED BY <1>1, <1>7, <2>1, <2>2 DEF Point, UpgradeTypeOK, data, service
<1>8. CASE RollBack
  <2>1. job' \in [at : Steps, mem : Journals]
    <3>1. {"rolling_back", "restart", "rollback_failed"} \subseteq Steps
      BY StepsAre DEF Returned
    <3>2. QED BY <1>1, <1>8, <3>1, GotoTyped DEF RollBack
  <2>2. QED BY <1>1, <1>8, <2>1 DEF RollBack, UpgradeTypeOK, disk, data, service
<1>9. QED BY <1>2, <1>3, <1>4, <1>5, <1>6, <1>7, <1>8

LEMMA TypeInstalling ==
  ASSUME UpgradeInv, BackUp \/ Displace \/ Promote \/ Migrate \/ CleanUp
  PROVE  UpgradeTypeOK'
<1>1. UpgradeTypeOK
  BY DEF UpgradeInv
<1>2. CASE BackUp
  <2>1. [job.mem EXCEPT !.ready = TRUE] \in Journals
    BY <1>1, JobIs DEF Journals
  <2>2. job' \in [at : Steps, mem : Journals]
    BY <1>2, <2>1, FollowingInstalling, StepsAre DEF BackUp, Installing
  <2>3. backup' \in [Attempts -> Databases]
    BY <1>1, <1>2 DEF BackUp, UpgradeTypeOK
  <2>4. QED BY <1>1, <1>2, <2>2, <2>3 DEF BackUp, UpgradeTypeOK, data, service
<1>3. CASE Displace
  <2>1. job' \in [at : Steps, mem : Journals]
    <3>1. Following(job.at) \in Steps \cup {"end"}
      BY <1>3, FollowingInstalling, StepsAre DEF Displace, At, Installing, FromDisplaced
    <3>2. QED BY <1>1, <1>3, <3>1, GotoTyped DEF Displace, Proceed
  <2>2. prog[job.mem.target] \in Programs /\ Missing \in Programs
    BY <1>1, <1>3, MemIs DEF Displace, At, UpgradeTypeOK, Programs
  <2>3. prog' \in [Versions -> Programs] /\ aside' \in [Attempts -> Programs]
    BY <1>1, <1>3, <2>2 DEF Displace, UpgradeTypeOK
  <2>4. QED BY <1>1, <1>3, <2>1, <2>3 DEF Displace, UpgradeTypeOK, data, service
<1>4. CASE Promote
  <2>1. job' \in [at : Steps, mem : Journals]
    <3>1. Following(job.at) \in Steps \cup {"end"}
      BY <1>4, FollowingInstalling, StepsAre DEF Promote, At, Installing, FromDisplaced, FromMigrating
    <3>2. QED BY <1>1, <1>4, <3>1, GotoTyped DEF Promote, Proceed
  <2>2. prog' \in [Versions -> Programs]
    BY <1>1, <1>4, MemIs DEF Promote, At, UpgradeTypeOK, Programs
  <2>3. QED BY <1>1, <1>4, <2>1, <2>2 DEF Promote, UpgradeTypeOK, data, service
<1>5. CASE Migrate
  <2>1. job' \in [at : Steps, mem : Journals]
    <3>1. Following(job.at) \in Steps \cup {"end"}
      BY <1>5, FollowingInstalling, StepsAre
         DEF Migrate, Installing, FromDisplaced, FromMigrating, FromConfigure
    <3>2. QED BY <1>1, <1>5, <3>1, GotoTyped DEF Migrate, Proceed
  <2>2. PICK h \in {Mixed, Schema[job.mem.target]} : db' = [db EXCEPT !.schema = h]
    BY <1>5 DEF Migrate
  <2>3. h \in {Mixed} \cup {Schema[v] : v \in Versions}
    BY <1>5, MemIs DEF Migrate
  <2>4. db' \in Databases
    BY <1>1, <2>2, <2>3 DEF UpgradeTypeOK, Databases
  <2>5. QED BY <1>1, <1>5, <2>1, <2>4 DEF Migrate, UpgradeTypeOK, disk, service
<1>6. CASE CleanUp
  <2>1. job' \in [at : Steps, mem : Journals]
    BY <1>1, <1>6, GotoTyped DEF CleanUp
  <2>2. Missing \in Programs
    BY DEF Programs
  <2>3. prog' \in [Versions -> Programs] /\ aside' \in [Attempts -> Programs]
          /\ rejected' \in [Attempts -> Programs]
    BY <1>1, <1>6, <2>2 DEF CleanUp, UpgradeTypeOK
  <2>4. guard' \in BOOLEAN
    BY <1>1, <1>6 DEF CleanUp, Released, UpgradeTypeOK
  <2>5. QED BY <1>1, <1>6, <2>1, <2>3, <2>4 DEF CleanUp, UpgradeTypeOK, data, service
<1>7. QED BY <1>2, <1>3, <1>4, <1>5, <1>6

LEMMA TypeRestoring ==
  ASSUME UpgradeInv, RestoreData \/ RejectProgram \/ RestoreProgram
  PROVE  UpgradeTypeOK'
<1>1. UpgradeTypeOK /\ Missing \in Programs
  BY DEF UpgradeInv, Programs
<1>2. CASE RestoreData
  <2>1. job' \in [at : Steps, mem : Journals]
    <3>1. Following(job.at) \in Steps \cup {"end"}
      BY <1>2, FollowingUndoing, StepsAre DEF RestoreData, Undoing
    <3>2. QED BY <1>1, <1>2, <3>1, GotoTyped DEF RestoreData, Proceed
  <2>2. db' \in Databases
    BY <1>1, <1>2, MemIs DEF RestoreData, UpgradeTypeOK
  <2>3. config' \in BOOLEAN
    BY <1>1, <1>2 DEF RestoreData, UpgradeTypeOK
  <2>4. QED BY <1>1, <1>2, <2>1, <2>2, <2>3 DEF RestoreData, UpgradeTypeOK, service
<1>3. CASE RejectProgram
  <2>1. job' \in [at : Steps, mem : Journals]
    <3>1. {Following("reject_program"), "program_restored", "rollback_failed"} \subseteq Steps
      BY FollowingUndoing, StepsAre DEF Undoing
    <3>2. QED BY <1>1, <1>3, <3>1, GotoTyped DEF RejectProgram, Proceed, At
  <2>2. prog[job.mem.target] \in Programs
    BY <1>1, <1>3, MemIs DEF RejectProgram, At, UpgradeTypeOK
  <2>3. prog' \in [Versions -> Programs] /\ rejected' \in [Attempts -> Programs]
    BY <1>1, <1>3, <2>2 DEF RejectProgram, UpgradeTypeOK
  <2>4. QED BY <1>1, <1>3, <2>1, <2>3 DEF RejectProgram, UpgradeTypeOK, data, service
<1>4. CASE RestoreProgram
  <2>1. job' \in [at : Steps, mem : Journals]
    <3>1. Following("restore_program") \in Steps
      BY FollowingUndoing, StepsAre DEF Undoing
    <3>2. QED BY <1>1, <1>4, <3>1, GotoTyped DEF RestoreProgram, Proceed, At
  <2>2. aside[job.mem.id] \in Programs
    BY <1>1, <1>4, MemIs DEF RestoreProgram, At, UpgradeTypeOK
  <2>3. prog' \in [Versions -> Programs] /\ aside' \in [Attempts -> Programs]
    BY <1>1, <1>4, <2>2 DEF RestoreProgram, UpgradeTypeOK
  <2>4. QED BY <1>1, <1>4, <2>1, <2>3 DEF RestoreProgram, UpgradeTypeOK, data, service
<1>5. QED BY <1>2, <1>3, <1>4

LEMMA TypeAuthorize ==
  ASSUME UpgradeInv, NEW target \in Versions, AuthorizeRunning(target) \/ AuthorizeStopped(target)
  PROVE  UpgradeTypeOK'
<1> DEFINE Gates == [id : 0..MaxAttempts, state : {"idle", "prepared", "claimed"}, target : Versions \cup {0}]
<1>1. UpgradeTypeOK /\ {"claim", "prepared"} \subseteq Steps
  BY StepsAre DEF UpgradeInv
<1>2. attempts + 1 \in 0..MaxAttempts
  BY <1>1, BoundsAssumption DEF AuthorizeRunning, AuthorizeStopped, MayAuthorize, UpgradeTypeOK
<1>3. PICK at \in {"claim", "prepared"} : job' = [at |-> at, mem |-> NewJournal(attempts + 1, target)]
  BY DEF AuthorizeRunning, AuthorizeStopped
<1>4. job' \in [at : Steps, mem : Journals]
  BY <1>1, <1>2, <1>3, NewJournals
<1>5. PICK state \in {"prepared", "claimed"} : gate' = [id |-> attempts + 1, state |-> state, target |-> target]
  BY DEF AuthorizeRunning, AuthorizeStopped, Closed
<1>6. gate' \in Gates
  BY <1>2, <1>5
<1>7. before' = [pointer |-> pointer, program |-> prog[pointer], schema |-> db.schema]
  BY DEF AuthorizeRunning, AuthorizeStopped, Closed
<1>8. before' \in [pointer : Versions, program : Programs, schema : {Mixed} \cup {Schema[v] : v \in Versions}]
  BY <1>1, <1>7 DEF UpgradeTypeOK, Databases
<1>9. /\ attempts' = attempts + 1
      /\ UNCHANGED <<journal, copies, pointer, prog, aside, rejected, backup, config, data, service, guard, setbacks>>
  BY DEF AuthorizeRunning, AuthorizeStopped, Closed
<1>10. QED BY <1>1, <1>2, <1>4, <1>6, <1>8, <1>9 DEF UpgradeTypeOK, data, service

LEMMA TypeStarting ==
  ASSUME UpgradeInv, Claim \/ Recover
  PROVE  UpgradeTypeOK'
<1> DEFINE Gates == [id : 0..MaxAttempts, state : {"idle", "prepared", "claimed"}, target : Versions \cup {0}]
<1>1. UpgradeTypeOK /\ {"idle", "claim", "prepared", "claim_recovery", "roll_back"} \subseteq Steps
  BY StepsAre DEF UpgradeInv
<1>2. CASE Claim
  <2>1. job' \in [at : Steps, mem : Journals] /\ guard' \in BOOLEAN
    BY <1>1, <1>2, GotoTyped DEF Claim
  <2>2. gate' \in Gates
    BY <1>1, <1>2 DEF Claim, UpgradeTypeOK
  <2>3. QED BY <1>1, <1>2, <2>1, <2>2 DEF Claim, UpgradeTypeOK, data
<1>3. CASE Recover
  <2>1. gate' \in Gates
    <3>1. NoGate \in Gates
      BY BoundsAssumption DEF NoGate
    <3>2. gate' \in {gate, NoGate}
      BY <1>3 DEF Recover, Opened
    <3>3. QED BY <1>1, <3>1, <3>2 DEF UpgradeTypeOK
  <2>2. ClaimJournal \in Journals
    BY <1>1, NewJournals DEF ClaimJournal, UpgradeTypeOK
  <2>3. job' \in [at : Steps, mem : Journals]
    <3>1. \/ job' = [at |-> "roll_back", mem |-> journal]
          \/ job' = [at |-> "claim_recovery", mem |-> ClaimJournal] \/ UNCHANGED job
      BY <1>3 DEF Recover
    <3>2. QED BY <1>1, <2>2, <3>1 DEF UpgradeTypeOK
  <2>4. running' \in Versions \cup {0} /\ UNCHANGED booting
    BY <1>1, <1>3 DEF Recover, UpgradeTypeOK
  <2>5. QED BY <1>1, <1>3, <2>1, <2>3, <2>4 DEF Recover, UpgradeTypeOK, data
<1>4. QED BY <1>2, <1>3

-----------------------------------------------------------------------------
(* The service.                                                            *)

LEMMA ServedNone ==
  ASSUME running' = 0, job' = Idle => ~guard'
  PROVE  Served'
  BY DEF Served, RunningIsWhole

LEMMA ServedStill ==
  ASSUME Served, UNCHANGED <<prog, config, db, svc>>, running' \in {0, running},
         guard' => running' = 0, job' = Idle => ~guard'
  PROVE  Served'
  BY DEF Served, RunningIsWhole

LEMMA ServedStarts ==
  ASSUME Served, UNCHANGED <<prog, config, db, svc>>, running' = svc, CanRun, ~guard'
  PROVE  Served'
  BY DEF Served, RunningIsWhole, CanRun

-----------------------------------------------------------------------------
(* Steps that leave the disk alone.                                        *)

(* Whoever gives up knows enough to go back.                               *)
LEMMA GivesUp ==
  ASSUME NEW at, NEW m, NEW g, NEW h, Holds(at, m, g), at \notin Unrecorded \cup {"idle", "clean_up"},
         NEW to \in {"roll_back", "rollback_failed"}
  PROVE  Holds(to, m, h)
  BY DEF Holds, Knows, Installs, Undoes, Unrecorded, Installing, FromDisplaced, FromMigrating,
       FromConfigure,
         FromPoint, FromStarting, Undoing, Returned

LEMMA InvFail ==
  ASSUME UpgradeInv, Fail
  PROVE  UpgradeInv'
<1>1. UpgradeTypeOK' /\ UpgradeTypeOK
  BY TypeFail DEF UpgradeInv
<1>2. UNCHANGED Disk /\ UNCHANGED running
  BY DEF Fail, Disk, disk, data, service
<1>3. PICK at, m : at = job.at /\ m = job.mem /\ at \in Steps
  BY <1>1, JobIs
<1>4. PICK g, h : g = guard /\ h = guard'
  OBVIOUS
<1>5. at # "idle" /\ Holds(at, m, g)
  BY <1>3, <1>4 DEF Fail, UpgradeInv, Holds, Knows, Idle, UpgradeTypeOK
<1>6. CASE OnError(at) = "end"
  <2>1. job' = Idle /\ ~guard'
    BY <1>1, <1>3, <1>6, GotoIs DEF Fail, Released
  <2>2. Served'
    BY <1>2, <2>1, ServedStill DEF UpgradeInv, Fail, disk, data, service
  <2>3. QED BY <1>1, <1>2, <1>4, <2>1, <2>2, HoldsIdle, OnlyMoved DEF Idle
<1>7. CASE OnError(at) # "end"
  <2>1. OnError(at) \in {"roll_back", "rollback_failed"}
          /\ at \notin Unrecorded \cup {"idle", "clean_up"}
    <3>1. at \notin {"prepared", "claim_recovery", "rollback_failed", "clean_up", "claim", "idle"}
      BY <1>5, <1>7, OnErrorLeads
    <3>2. \/ at \in Installing \cup {"open"}
          \/ at \in Undoing \cup Returned \cup {"roll_back", "rolling_back"}
      BY <1>3, <3>1, StepsAre DEF Undoing
    <3>3. QED BY <3>1, <3>2, OnErrorLeads DEF Unrecorded
  <2>2. job' = [at |-> OnError(at), mem |-> m] /\ guard' = guard
    BY <1>1, <1>3, <1>7, GotoIs DEF Fail, Released, UpgradeTypeOK
  <2>3. Holds(OnError(at), m, h)
    BY <1>5, <2>1, GivesUp
  <2>4. job' # Idle
    BY <2>1, <2>2 DEF Idle
  <2>5. Served'
    BY <1>2, <2>2, <2>4, ServedStill DEF UpgradeInv, Fail, disk, data, service, Served
  <2>6. QED BY <1>1, <1>2, <1>4, <2>2, <2>3, <2>5, OnlyMoved
<1>8. QED BY <1>6, <1>7

(* What an updater that only stops, starts or looks at the service knows   *)
(* at its next step.                                                       *)
LEMMA Moves ==
  ASSUME NEW m \in Journals, NEW g \in BOOLEAN, NEW h \in BOOLEAN
  PROVE  /\ Holds("stop", m, g) => Holds("stopped", m, TRUE)
         /\ Holds("stop_again", m, g) => Holds(Resume(m), m, TRUE)
         /\ Holds("start", m, g) => Holds("healthy", m, h)
         /\ Holds("healthy", m, g) => Holds("committed", m, h)
         /\ Holds("restart", m, g) => Holds("healthy_again", m, h)
         /\ Holds("healthy_again", m, g) => Holds("rolled_back", m, h)
         /\ Holds("roll_back", m, g)
              /\ m.step # "awaiting_previous_health" => Holds("rolling_back", m, h)
         /\ Holds("roll_back", m, g) /\ m.step = "awaiting_previous_health" => Holds("restart", m, h)
<1> USE DEF Holds, Knows, Installs, Undoes, Unrecorded, Installing, FromDisplaced, FromMigrating, FromConfigure,
            FromPoint, FromStarting, Undoing, Returned
<1>1. Holds("stop", m, g) => Holds("stopped", m, TRUE)
  OBVIOUS
<1>2. ASSUME Holds("stop_again", m, g) PROVE Holds(Resume(m), m, TRUE)
  <2>1. DataKept(m) /\ m.step # "awaiting_previous_health" /\ m.ready \in BOOLEAN
    BY <1>2, JournalIs DEF Reversible
  <2>2. CASE m.step \notin Restored /\ m.ready
    <3>1. m.step = "none"
      BY <2>2, JournalIs
    <3>2. QED BY <1>2, <2>1, <2>2, <3>1 DEF Resume, Restored
  <2>3. CASE m.step \notin Restored /\ ~m.ready
    <3>1. m.step = "none"
      BY <2>3, JournalIs
    <3>2. db.schema = before.schema /\ config
      BY <2>1, <2>3 DEF DataKept
    <3>3. Resume(m) = "data_restored"
      BY <2>3, <3>1 DEF Resume, Restored
    <3>4. QED BY <1>2, <2>1, <2>3, <3>1, <3>2, <3>3
  <2>4. CASE m.step \in {"program_restored", "previous_configured"}
    BY <1>2, <2>1, <2>4 DEF Resume, Restored
  <2>5. CASE m.step = "data_restored"
    BY <1>2, <2>1, <2>5 DEF Resume, Restored
  <2>6. QED BY <2>1, <2>2, <2>3, <2>4, <2>5 DEF Restored
<1>3. /\ Holds("start", m, g) => Holds("healthy", m, h)
      /\ Holds("healthy", m, g) => Holds("committed", m, h)
  OBVIOUS
<1>4. /\ Holds("restart", m, g) => Holds("healthy_again", m, h)
      /\ Holds("healthy_again", m, g) => Holds("rolled_back", m, h)
  OBVIOUS
<1>5. /\ Holds("roll_back", m, g) /\ m.step # "awaiting_previous_health" => Holds("rolling_back", m, h)
      /\ Holds("roll_back", m, g) /\ m.step = "awaiting_previous_health" => Holds("restart", m, h)
  OBVIOUS
<1>6. QED BY <1>1, <1>2, <1>3, <1>4, <1>5

LEMMA InvMoves ==
  ASSUME UpgradeInv, StopService \/ Start \/ CheckHealth \/ RollBack
  PROVE  UpgradeInv'
<1>1. UpgradeTypeOK' /\ UpgradeTypeOK /\ Served
  BY TypeMoves DEF UpgradeInv
<1>2. UNCHANGED Disk
  BY DEF StopService, Start, CheckHealth, RollBack, Disk, disk, data, service
<1>3. PICK at, m, g, h : /\ at = job.at /\ m = job.mem /\ g = guard /\ h = guard'
                         /\ m \in Journals /\ g \in BOOLEAN /\ h \in BOOLEAN
  BY <1>1, JobIs DEF UpgradeTypeOK
<1>4. Holds(at, m, g)
  BY <1>3 DEF UpgradeInv
<1>5. ASSUME NEW to, to \notin {"end", "idle"}, Goto(to), Holds(to, m, h), Served'
      PROVE  UpgradeInv'
  BY <1>1, <1>2, <1>3, <1>5, GotoIs, OnlyMoved
<1>6. ASSUME NEW to, to \notin {"end", "idle"}, Goto(to)
      PROVE  job' # Idle
  BY <1>1, <1>6, GotoIs DEF Idle
<1>7. CASE StopService
  <2>1. PICK to : to = IF at = "stop" THEN "stopped" ELSE Resume(m)
    OBVIOUS
  <2>2. Goto(to) /\ running' = 0 /\ h = TRUE
    BY <1>3, <1>7, <2>1, FollowingInstalling DEF StopService, Proceed, At
  <2>3. Holds(to, m, h) /\ to \notin {"end", "idle"}
    BY <1>3, <1>4, <1>7, <2>1, <2>2, Moves DEF StopService, Resume
  <2>4. QED BY <1>5, <1>6, <2>2, <2>3, ServedNone
<1>8. CASE Start
  <2>1. PICK to : to = Following(at)
    OBVIOUS
  <2>2. Goto(to) /\ h = FALSE /\ to \in {"healthy", "healthy_again"}
    BY <1>3, <1>8, <2>1, FollowingInstalling, FollowingUndoing DEF Start, Proceed
  <2>3. Holds(to, m, h)
    BY <1>3, <1>4, <1>8, <2>1, <2>2, Moves, FollowingInstalling, FollowingUndoing DEF Start
  <2>4. Served'
    <3>1. running' \in {0, running} \/ (running' = svc /\ CanRun)
      BY <1>8 DEF Start
    <3>2. QED BY <1>1, <1>2, <1>3, <2>2, <3>1, ServedStill, ServedStarts DEF Disk
  <2>5. QED BY <1>5, <2>2, <2>3, <2>4
<1>9. CASE CheckHealth
  <2>1. PICK to \in {Following(at), OnError(at)} : Goto(to)
    BY <1>3, <1>9 DEF CheckHealth, Proceed
  <2>2. at \in {"healthy", "healthy_again"} /\ h = g /\ UNCHANGED <<running, guard>>
    BY <1>3, <1>9 DEF CheckHealth, service
  <2>3. OnError(at) \in {"roll_back", "rollback_failed"} /\ Holds(OnError(at), m, h)
    <3>1. OnError(at) \in {"roll_back", "rollback_failed"}
      BY <2>2, OnErrorLeads
         DEF Installing, FromDisplaced, FromMigrating, FromConfigure, FromPoint, FromStarting, Returned
    <3>2. QED BY <1>4, <2>2, <3>1, GivesUp DEF Unrecorded
  <2>4. Following(at) \in {"committed", "rolled_back"} /\ Holds(Following(at), m, h)
    <3>1. Following("healthy") = "committed" /\ Following("healthy_again") = "rolled_back"
      BY FollowingInstalling, FollowingUndoing
    <3>2. CASE at = "healthy"
      BY <1>3, <1>4, <3>1, <3>2, Moves
    <3>3. CASE at = "healthy_again"
      BY <1>3, <1>4, <3>1, <3>3, Moves
    <3>4. QED BY <2>2, <3>1, <3>2, <3>3
  <2>5. Holds(to, m, h) /\ to \notin {"end", "idle"}
    BY <2>1, <2>3, <2>4
  <2>6. Served'
    BY <1>1, <1>2, <1>6, <2>1, <2>2, <2>5, ServedStill DEF Disk, Served
  <2>7. QED BY <1>5, <2>1, <2>5, <2>6
<1>10. CASE RollBack
  <2>1. m.step = "awaiting_previous_health" => pointer = m.prev
    BY <1>3, <1>4, <1>10 DEF RollBack, At, Holds, Knows, Reversible, Pointed
  <2>2. PICK to : to = IF m.step # "awaiting_previous_health" THEN "rolling_back" ELSE "restart"
    OBVIOUS
  <2>3. Goto(to) /\ UNCHANGED <<running, guard>> /\ at = "roll_back"
    BY <1>3, <1>10, <2>1, <2>2 DEF RollBack, At, service
  <2>4. Holds(to, m, h) /\ to \notin {"end", "idle"}
    BY <1>3, <1>4, <2>2, <2>3, Moves
  <2>5. Served'
    BY <1>1, <1>2, <1>6, <2>3, <2>4, ServedStill DEF Disk, Served
  <2>6. QED BY <1>5, <2>3, <2>4, <2>5
<1>11. QED BY <1>7, <1>8, <1>9, <1>10

LEMMA InvInterrupted ==
  ASSUME UpgradeInv, StartAtBoot \/ KillUpdater \/ PowerCut
  PROVE  UpgradeInv'
<1>1. UpgradeTypeOK' /\ UpgradeTypeOK /\ Served
  BY TypeService DEF UpgradeInv
<1>2. UNCHANGED Disk
  BY DEF StartAtBoot, KillUpdater, PowerCut, Disk, disk, data, service
<1>3. CASE KillUpdater \/ PowerCut
  <2>1. job' = Idle /\ guard' = FALSE /\ running' \in {0, running}
    BY <1>3 DEF KillUpdater, PowerCut, service
  <2>2. Served'
    BY <1>1, <1>2, <2>1, ServedStill DEF Disk
  <2>3. QED BY <1>1, <1>2, <2>1, <2>2, HoldsIdle, OnlyMoved DEF Idle
<1>4. CASE StartAtBoot
  <2>1. PICK at, m, g : at = job.at /\ m = job.mem /\ g = guard
    OBVIOUS
  <2>2. job' = [at |-> at, mem |-> m] /\ g = guard' /\ Holds(at, m, g)
    BY <1>1, <1>4, <2>1, JobIs DEF StartAtBoot, UpgradeInv
  <2>3. Served'
    <3>1. UNCHANGED <<guard, job>> /\ (running' = running \/ (running' = svc /\ CanRun /\ ~guard))
      BY <1>4 DEF StartAtBoot, MayRun
    <3>2. QED BY <1>1, <1>2, <3>1, ServedStill, ServedStarts DEF Disk, Served
  <2>4. QED BY <1>1, <1>2, <2>2, <2>3, OnlyMoved
<1>5. QED BY <1>3, <1>4

-----------------------------------------------------------------------------
(* The service writes.                                                     *)

LEMMA InvWrite ==
  ASSUME UpgradeInv, WriteRecord
  PROVE  UpgradeInv'
<1>1. UpgradeTypeOK' /\ UpgradeTypeOK /\ Served /\ Recorded
  BY TypeService DEF UpgradeInv
<1>2. /\ UNCHANGED <<journal, gate, pointer, prog, aside, backup, config, svc, running, guard, job, attempts, before>>
      /\ ~guard
  BY <1>1 DEF WriteRecord, disk, service, Served
<1>3. PICK r : /\ db' = [db EXCEPT !.recs = db.recs \cup {r}]
               /\ safe' = IF gate.state # "claimed" \/ journal.step # "none" THEN safe \cup {r} ELSE safe
  BY DEF WriteRecord
<1>4. db'.schema = db.schema /\ db'.recs = db.recs \cup {r}
  BY <1>1, <1>3 DEF UpgradeTypeOK, Databases
<1>5. ASSUME NEW j, Reversible(j), journal.step # "none" => j.step # "none" \/ ~j.ready
      PROVE  Reversible(j)'
  <2>1. DataKept(j)'
    BY <1>2, <1>3, <1>4, <1>5 DEF Reversible, DataKept
  <2>2. ProgramKept(j)'
    BY <1>2, <1>5 DEF Reversible, ProgramKept
  <2>3. QED BY <1>2, <1>5, <2>1, <2>2 DEF Reversible
<1>6. Recorded'
  <2>1. Terminal(journal)' <=> Terminal(journal)
    BY <1>2 DEF Terminal
  <2>2. Reversible(journal) => Reversible(journal)'
    BY <1>2, <1>5
  <2>3. Whole(pointer)' <=> Whole(pointer)
    BY <1>2, <1>4 DEF Whole
  <2>4. AsBefore' <=> AsBefore
    BY <1>2, <1>4 DEF AsBefore
  <2>5. safe' \subseteq db'.recs
    BY <1>1, <1>3, <1>4 DEF Recorded
  <2>6. QED BY <1>1, <1>2, <2>1, <2>2, <2>3, <2>4, <2>5 DEF Recorded
<1>7. Served'
  BY <1>1, <1>2, <1>4 DEF Served, RunningIsWhole
<1>8. PICK at, m, g : at = job.at /\ m = job.mem /\ g = guard
  OBVIOUS
<1>9. Holds(at, m, g) /\ g = FALSE
  BY <1>1, <1>2, <1>8 DEF UpgradeInv, UpgradeTypeOK
<1>10. Holds(at, m, g)'
  <2>1. Reversible(m) => Reversible(m)' \/ at \in {"idle", "claim", "clean_up"}
    BY <1>5, <1>9 DEF Holds, Knows
  <2>2. Knows(at, m)'
    BY <1>2, <1>9, <2>1 DEF Holds, Knows
  <2>3. Installs(at, m, g)'
    BY <1>2, <1>4, <1>9 DEF Holds, Installs
  <2>4. Undoes(at, m, g)'
    BY <1>2, <1>4, <1>9 DEF Holds, Undoes
  <2>5. QED BY <2>2, <2>3, <2>4 DEF Holds
<1>11. QED BY <1>1, <1>2, <1>6, <1>7, <1>8, <1>10 DEF UpgradeInv

-----------------------------------------------------------------------------
(* The journal.                                                            *)

(* What is noted, and what is left as it was.                              *)
LEMMA NotedIs ==
  ASSUME NEW m \in Journals, NEW at, NEW j, j = Noted(m, at)
  PROVE  /\ j.id = m.id /\ j.prev = m.prev /\ j.target = m.target /\ j.ready = m.ready
         /\ j.displaces = m.displaces
         /\ at \in Restored => j.phase = "rolling_back" /\ j.step = at
         /\ at \notin Restored => j.phase = at /\ j.step = m.step
  BY DEF Noted, Journals

(* The steps that write the journal.                                       *)
LEMMA Noting ==
  Phases \cup Restored =
    {"prepared", "claim_recovery"} \cup {"stopped", "backed_up", "program_displaced", "migrating", "starting", "committed"}
      \cup {"rolling_back", "rolled_back", "rollback_failed"} \cup Restored
  BY DEF Phases

(* Going back by what has been noted is possible if it was by what is      *)
(* noted from.                                                             *)
LEMMA ReversibleNoted ==
  ASSUME UpgradeInv, NEW m \in Journals, NEW at \in Phases \cup Restored, NEW g, Holds(at, m, g),
         NEW j, j = Noted(m, at)
  PROVE  Reversible(j)
<1>1. Reversible(m)
  BY DEF Holds, Knows, Phases, Restored
<1>2. CASE at \notin Restored
  BY <1>1, <1>2, NotedIs DEF Reversible, DataKept, ProgramKept
<1>3. CASE at \in Restored
  <2>1. /\ j.step = at /\ j.id = m.id /\ j.prev = m.prev /\ j.target = m.target
        /\ j.ready = m.ready /\ j.displaces = m.displaces
    BY <1>3, NotedIs
  <2>2. db.schema = before.schema /\ config
    BY <1>1, <1>3 DEF Restored, Holds, Undoes, Reversible, DataKept
  <2>3. DataKept(j)
    BY <1>3, <2>1, <2>2 DEF DataKept, Restored
  <2>4. ProgramKept(j)
    <3>1. CASE at = "data_restored"
      BY <1>1, <2>1, <3>1 DEF Holds, Undoes, Reversible, ProgramKept, Replaced
    <3>2. CASE at = "program_restored"
      BY <2>1, <3>2 DEF Holds, Undoes, ProgramKept, Replaced
    <3>3. CASE at \in Pointed
      BY <1>1, <2>1, <3>3 DEF Holds, Undoes, Reversible, ProgramKept, Replaced, Pointed
    <3>4. QED BY <1>3, <3>1, <3>2, <3>3 DEF Restored, Pointed
  <2>5. j.step \in Pointed => svc = j.prev /\ pointer = j.prev
    BY <1>1, <2>1 DEF Holds, Undoes, Reversible, Pointed
  <2>6. QED BY <1>1, <2>1, <2>3, <2>4, <2>5 DEF Reversible
<1>4. QED BY <1>2, <1>3

(* What is noted as over is of a piece, and as before if it was undone.    *)
LEMMA WholeNoted ==
  ASSUME UpgradeInv, NEW m \in Journals, NEW at \in Phases \cup Restored, NEW g, Holds(at, m, g),
         NEW j, j = Noted(m, at), Terminal(j)
  PROVE  Whole(pointer) /\ (j.phase = "rolled_back" => AsBefore)
<1>1. at \in {"committed", "rolled_back"} /\ j.phase = at
  BY NotedIs DEF Terminal, Phases, Restored
<1>2. Reversible(m)
  BY <1>1 DEF Holds, Knows
<1>3. CASE at = "committed"
  BY <1>1, <1>3 DEF Holds, Installs, Installing, FromDisplaced, FromMigrating, FromConfigure, FromPoint,
                    FromStarting, Whole
<1>4. CASE at = "rolled_back"
  <2>1. m.step = "awaiting_previous_health"
    BY <1>4 DEF Holds, Knows, Returned
  <2>2. /\ svc = before.pointer /\ pointer = before.pointer /\ db.schema = before.schema /\ config
        /\ prog[before.pointer] = before.program
    BY <1>2, <2>1 DEF Reversible, DataKept, ProgramKept, Replaced, Pointed
  <2>3. before.schema = Schema[before.pointer] /\ before.program # Missing
    BY DEF UpgradeInv, Recorded
  <2>4. QED BY <2>2, <2>3 DEF Whole, AsBefore
<1>5. QED BY <1>1, <1>3, <1>4

(* What the updater knows when it has noted its step.                      *)
LEMMA HoldsNoted ==
  ASSUME UpgradeInv, NEW m \in Journals, NEW at \in Phases \cup Restored, NEW g, Holds(at, m, g),
         NEW j, j = Noted(m, at), Reversible(j), Following(at) # "end",
         journal' = j,
         UNCHANGED <<gate, pointer, prog, aside, backup, config, db, safe, svc, attempts, before>>
  PROVE  Holds(Following(at), j, g)'
<1>1. Reversible(j)' /\ m.id = attempts /\ m.id \in Attempts /\ m.target # 0
  BY DEF Reversible, DataKept, ProgramKept, Holds, Knows, Phases, Restored
<1>2. /\ j.id = m.id /\ j.prev = m.prev /\ j.target = m.target /\ j.ready = m.ready
           /\ j.displaces = m.displaces
      /\ at \in Restored => j.phase = "rolling_back" /\ j.step = at
      /\ at \notin Restored => j.phase = at /\ j.step = m.step
  BY NotedIs
<1>3. CASE at = "prepared"
  <2>1. config /\ aside[m.id] = Missing
    BY <1>1, <1>3 DEF Holds, Knows, Unrecorded, UpgradeInv, Recorded, Whole
  <2>2. QED BY <1>1, <1>2, <1>3, <2>1, FollowingInstalling
            DEF Holds, Knows, Installs, Undoes, Unrecorded, Installing, FromDisplaced, FromMigrating,
                FromConfigure, FromPoint, FromStarting, Undoing, Returned, Underway, Restored
<1>4. CASE at \in {"stopped", "program_displaced", "migrating", "starting"}
  BY <1>1, <1>2, <1>4, FollowingInstalling
     DEF Holds, Knows, Installs, Undoes, Unrecorded, Installing, FromDisplaced, FromMigrating, FromConfigure,
         FromPoint, FromStarting, Undoing, Returned, Underway, Restored
<1>5. CASE at \in {"backed_up", "committed"}
  BY <1>1, <1>2, <1>5, FollowingInstalling
     DEF Holds, Knows, Installs, Undoes, Unrecorded, Installing, FromDisplaced, FromMigrating, FromConfigure,
         FromPoint, FromStarting, Undoing, Returned, Underway, Restored
<1>6. CASE at \in {"claim_recovery", "rolling_back", "rolled_back"}
  BY <1>1, <1>2, <1>6, FollowingUndoing
     DEF Holds, Knows, Installs, Undoes, Unrecorded, Installing, FromDisplaced, FromMigrating, FromConfigure,
         FromPoint, FromStarting, Undoing, Returned, Restored
<1>7. CASE at \in Restored
  BY <1>1, <1>2, <1>7, FollowingUndoing
     DEF Holds, Knows, Installs, Undoes, Unrecorded, Installing, FromDisplaced, FromMigrating, FromConfigure,
         FromPoint, FromStarting, Undoing, Returned, Restored
<1>8. at # "rollback_failed"
  BY FollowingUndoing
<1>9. QED BY <1>3, <1>4, <1>5, <1>6, <1>7, <1>8, Noting DEF Unrecorded

LEMMA InvRecord ==
  ASSUME UpgradeInv, RecordPhase
  PROVE  UpgradeInv'
<1>1. UpgradeTypeOK' /\ UpgradeTypeOK /\ Served /\ Recorded
  BY TypeRecord DEF UpgradeInv
<1>2. PICK at, m, g, h, j : /\ at = job.at /\ m = job.mem /\ g = guard /\ h = guard'
                            /\ j = Noted(m, at) /\ m \in Journals /\ at \in Phases \cup Restored
  BY <1>1, JobIs DEF RecordPhase
<1>3. UNCHANGED <<gate, pointer, prog, aside, backup, config, db, safe, svc, running, attempts, before>>
  BY DEF RecordPhase, data, service
<1>4. Holds(at, m, g)
  BY <1>2 DEF UpgradeInv
<1>5. Reversible(j)
  BY <1>2, <1>4, ReversibleNoted
<1>6. /\ j.id = m.id /\ j.prev = m.prev /\ j.target = m.target /\ j.ready = m.ready
           /\ j.displaces = m.displaces
      /\ at \in Restored => j.phase = "rolling_back" /\ j.step = at
      /\ at \notin Restored => j.phase = at /\ j.step = m.step
  BY <1>2, NotedIs
<1>7. PICK to : /\ job' = IF to = "end" THEN Idle ELSE [at |-> to, mem |-> j]
                /\ Released(to)
                /\ \/ journal' = j /\ to = Following(at)
                   \/ journal' \in {journal, j} /\ to = OnError(at)
  BY <1>2 DEF RecordPhase
<1>8. Reversible(j)'
  BY <1>3, <1>5 DEF Reversible, DataKept, ProgramKept
<1>9. m.id = attempts /\ m.id \in Attempts /\ m.target # 0
  BY <1>2, <1>4 DEF Holds, Knows, Phases, Restored
<1>10. Recorded'
  <2>1. CASE journal' = journal
    <3>1. UNCHANGED Disk
      BY <1>3, <2>1 DEF Disk
    <3>2. QED BY <1>1, <3>1, RecordedStill
  <2>2. CASE journal' = j
    <3>1. j.id = attempts /\ j.id >= 1 /\ j.target # 0
      BY <1>6, <1>9 DEF Attempts
    <3>2. CASE Terminal(j)
      <4>1. Whole(pointer) /\ (j.phase = "rolled_back" => AsBefore)
        BY <1>2, <1>4, <3>2, WholeNoted
      <4>2. Whole(pointer)' /\ (j.phase = "rolled_back" => AsBefore')
        BY <1>3, <4>1 DEF Whole, AsBefore
      <4>3. Terminal(journal)'
        BY <2>2, <3>2 DEF Terminal
      <4>4. QED BY <1>1, <1>3, <2>2, <3>1, <4>2, <4>3 DEF Recorded, UpgradeTypeOK
    <3>3. CASE ~Terminal(j)
      <4>1. ~Terminal(journal)' /\ j.phase # "rolled_back"
        BY <2>2, <3>3 DEF Terminal
      <4>2. Reversible(journal)'
        BY <1>8, <2>2 DEF Reversible, DataKept, ProgramKept
      <4>3. QED BY <1>1, <1>3, <2>2, <3>1, <4>1, <4>2 DEF Recorded, UpgradeTypeOK
    <3>4. QED BY <3>2, <3>3
  <2>3. QED BY <1>7, <2>1, <2>2
<1>11. CASE to = "end"
  <2>1. job' = Idle /\ ~guard'
    BY <1>7, <1>11 DEF Released
  <2>2. Served'
    BY <1>1, <1>3, <2>1, ServedStill
  <2>3. Holds("idle", NoJournal, h)'
    BY HoldsIdle
  <2>4. QED BY <1>1, <1>2, <1>10, <2>1, <2>2, <2>3 DEF UpgradeInv, Idle
<1>12. CASE to # "end"
  <2>1. /\ job' = [at |-> to, mem |-> j] /\ job'.at = to /\ job'.mem = j
        /\ h = g /\ guard' = guard
    BY <1>1, <1>2, <1>7, <1>12 DEF Released, UpgradeTypeOK
  <2>2. Holds(to, j, h)'
    <3>1. CASE journal' = j /\ to = Following(at)
      BY <1>2, <1>3, <1>4, <1>5, <1>12, <2>1, <3>1, HoldsNoted
    <3>2. CASE journal' \in {journal, j} /\ to = OnError(at)
      <4>1. at \notin {"prepared", "claim_recovery", "rollback_failed"}
        BY <1>12, <3>2, OnErrorLeads
      <4>2. \/ at \in Installing \cup {"open"}
            \/ at \in Undoing \cup Returned \cup {"roll_back", "rolling_back"}
        BY <1>2, <4>1 DEF Phases, Restored, Installing, FromDisplaced, FromMigrating, FromStarting,
             FromPoint,
                          FromConfigure, Undoing, Returned
      <4>3. to \in {"roll_back", "rollback_failed"}
        BY <3>2, <4>2, OnErrorLeads
      <4>4. journal.id = attempts /\ (journal.step # "none" => m.step # "none")
        BY <1>2, <1>4, <4>1 DEF Holds, Knows, Unrecorded, Phases, Restored
      <4>5. journal'.id = attempts' /\ (journal'.step # "none" => j.step # "none")
        <5>1. m.step # "none" => j.step # "none"
          BY <1>6 DEF Restored
        <5>2. QED BY <1>3, <1>6, <1>9, <3>2, <4>4, <5>1
      <4>6. j.id = attempts' /\ j.id \in Attempts /\ j.target # 0
        BY <1>3, <1>6, <1>9
      <4>7. QED BY <1>8, <4>3, <4>5, <4>6
                DEF Holds, Knows, Installs, Undoes, Unrecorded, Installing, FromDisplaced, FromMigrating,
                    FromConfigure, FromPoint, FromStarting, Undoing, Returned
    <3>3. QED BY <1>7, <3>1, <3>2
  <2>3. to # "idle"
    <3>1. Following(at) # "idle" /\ OnError(at) # "idle"
      BY <1>2, FollowingInstalling, FollowingUndoing DEF OnError, Phases, Restored
    <3>2. QED BY <1>7, <3>1
  <2>4. Served'
    BY <1>1, <1>3, <2>1, <2>3, ServedStill DEF Idle, Served
  <2>5. QED BY <1>1, <1>2, <1>10, <2>1, <2>2, <2>4 DEF UpgradeInv
<1>13. QED BY <1>11, <1>12

-----------------------------------------------------------------------------
(* Installing.                                                             *)

(* In the midst of a transaction, its journal is on disk and not over.     *)
LEMMA Midst ==
  ASSUME UpgradeInv, NEW at \in Installing \cup Undoing, NEW m, NEW g, Holds(at, m, g)
  PROVE  /\ ~Terminal(journal) /\ journal.id = attempts /\ m.id = attempts /\ m.id \in Attempts
              /\ m.target # 0
         /\ Reversible(m) /\ at \notin {"idle", "claim", "clean_up"} \cup Unrecorded
         /\ at # "backed_up" => journal = m
<1>1. at \notin {"idle", "claim", "clean_up"} \cup Unrecorded
  BY DEF Unrecorded, Installing, FromDisplaced, FromMigrating, FromConfigure, FromPoint, FromStarting,
       Undoing
<1>2. at # "backed_up" => journal = m
  BY DEF Holds, Knows, Undoing
<1>3. ~Terminal(journal)
  <2>1. Reversible(journal) \/ Terminal(journal)
    BY DEF UpgradeInv, Recorded
  <2>2. CASE at \in Undoing
    BY <2>2 DEF Holds, Knows, Terminal
  <2>3. CASE at \in Installing /\ at # "backed_up"
    BY <2>3 DEF Holds, Knows, Terminal, Underway
  <2>4. CASE at = "backed_up"
    <3>1. journal = [m EXCEPT !.ready = FALSE] /\ m.phase \in Underway
      BY <2>4 DEF Holds, Knows, Installing
    <3>2. journal.phase \in Underway
      <4>1. journal \in Journals
        BY DEF UpgradeInv, UpgradeTypeOK
      <4>2. "phase" \in DOMAIN journal
        BY <4>1 DEF Journals
      <4>3. QED BY <3>1, <4>2
    <3>3. QED BY <3>2 DEF Terminal, Underway
  <2>5. QED BY <2>2, <2>3, <2>4
<1>4. QED BY <1>1, <1>2, <1>3 DEF Holds, Knows

LEMMA RecordedMidst ==
  ASSUME Recorded, UNCHANGED <<journal, gate, attempts, before>>, ~Terminal(journal), Reversible(journal)',
         \A i \in Attempts : i > attempts => aside'[i] = Missing, safe' \subseteq db'.recs
  PROVE  Recorded'
<1>1. ~Terminal(journal)' /\ journal.phase # "rolled_back" /\ journal.id = attempts
  BY DEF Terminal, Recorded
<1>2. QED BY <1>1 DEF Recorded

LEMMA Concluded ==
  ASSUME UpgradeTypeOK', Recorded', Served', NEW at, NEW m, NEW g, job' = [at |-> at, mem |-> m], g = guard',
         Holds(at, m, g)'
  PROVE  UpgradeInv'
<1>1. job'.at = at /\ job'.mem = m
  OBVIOUS
<1>2. QED BY <1>1 DEF UpgradeInv

LEMMA InvConfigure ==
  ASSUME UpgradeInv, Configure
  PROVE  UpgradeInv'
<1>1. UpgradeTypeOK' /\ UpgradeTypeOK /\ Served /\ Recorded
  BY TypeMoves DEF UpgradeInv
<1>2. PICK at, m, g : at = job.at /\ m = job.mem /\ g = guard
  OBVIOUS
<1>3. /\ UNCHANGED <<journal, gate, pointer, prog, aside, backup, config, db, safe, running, guard, attempts, before>>
      /\ at \in {"configure", "reconfigure"} /\ svc' = IF at = "configure" THEN m.target ELSE m.prev
  BY <1>2 DEF Configure, At, disk, data
<1>4. Holds(at, m, g) /\ at \in Installing \cup Undoing /\ g
  BY <1>2, <1>3 DEF UpgradeInv, Holds, Installs, Undoes, Installing, FromDisplaced, FromMigrating,
       FromConfigure,
                    FromPoint, FromStarting, Undoing
<1>5. ~Terminal(journal) /\ journal = m /\ Reversible(m) /\ m.id = attempts /\ m.id \in Attempts
        /\ m.target # 0
  BY <1>1, <1>3, <1>4, Midst
<1>6. Reversible(m)' /\ Reversible(journal)'
  <2>1. m.step \in Pointed => svc' = m.prev
    BY <1>3, <1>4 DEF Holds, Installs, Undoes, Pointed, Installing, FromDisplaced, FromMigrating,
         FromConfigure
  <2>2. QED BY <1>3, <1>5, <2>1 DEF Reversible, DataKept, ProgramKept
<1>7. Recorded'
  BY <1>1, <1>3, <1>5, <1>6, RecordedMidst DEF Recorded
<1>8. PICK to \in {"point", "point_back"} : to = Following(at)
  BY <1>3, FollowingInstalling, FollowingUndoing
<1>9. job' = [at |-> to, mem |-> m] /\ guard' = g
  BY <1>1, <1>2, <1>3, <1>8, GotoIs DEF Configure, Proceed
<1>10. Served'
  BY <1>1, <1>2, <1>3, <1>4, <1>8, <1>9, ServedNone DEF Served, Idle
<1>11. Holds(to, m, g)'
  <2>1. to = IF at = "configure" THEN "point" ELSE "point_back"
    BY <1>3, <1>8, FollowingInstalling, FollowingUndoing
  <2>2. QED BY <1>3, <1>4, <1>5, <1>6, <1>8, <2>1
            DEF Holds, Knows, Installs, Undoes, Unrecorded, Installing, FromDisplaced, FromMigrating, FromConfigure,
                FromPoint, FromStarting, Undoing, Returned
<1>12. QED BY <1>1, <1>7, <1>9, <1>10, <1>11, Concluded

LEMMA InvPoint ==
  ASSUME UpgradeInv, Point
  PROVE  UpgradeInv'
<1>1. UpgradeTypeOK' /\ UpgradeTypeOK /\ Served /\ Recorded
  BY TypeMoves DEF UpgradeInv
<1>2. PICK at, m, g : at = job.at /\ m = job.mem /\ g = guard
  OBVIOUS
<1>3. /\ UNCHANGED <<journal, gate, svc, prog, aside, backup, config, db, safe, running, guard, attempts, before>>
      /\ at \in {"point", "point_back"} /\ pointer' = IF at = "point" THEN m.target ELSE m.prev
  BY <1>2 DEF Point, At, service, data
<1>4. Holds(at, m, g) /\ at \in Installing \cup Undoing /\ g
  BY <1>2, <1>3 DEF UpgradeInv, Holds, Installs, Undoes, Installing, FromDisplaced, FromMigrating,
       FromConfigure,
                    FromPoint, FromStarting, Undoing
<1>5. ~Terminal(journal) /\ journal = m /\ Reversible(m) /\ m.id = attempts /\ m.id \in Attempts
        /\ m.target # 0
  BY <1>1, <1>3, <1>4, Midst
<1>6. Reversible(m)' /\ Reversible(journal)'
  <2>1. m.step \in Pointed => pointer' = m.prev
    BY <1>3, <1>4 DEF Holds, Installs, Undoes, Pointed, Installing, FromDisplaced, FromMigrating,
         FromConfigure,
                      FromPoint
  <2>2. QED BY <1>3, <1>5, <2>1 DEF Reversible, DataKept, ProgramKept
<1>7. Recorded'
  BY <1>1, <1>3, <1>5, <1>6, RecordedMidst DEF Recorded
<1>8. PICK to \in {"starting", "previous_configured"} : to = Following(at)
  BY <1>3, FollowingInstalling, FollowingUndoing
<1>9. job' = [at |-> to, mem |-> m] /\ guard' = g
  BY <1>1, <1>2, <1>3, <1>8, GotoIs DEF Point, Proceed
<1>10. Served'
  BY <1>1, <1>2, <1>3, <1>4, <1>8, <1>9, ServedNone DEF Served, Idle
<1>11. Holds(to, m, g)'
  <2>1. to = IF at = "point" THEN "starting" ELSE "previous_configured"
    BY <1>3, <1>8, FollowingInstalling, FollowingUndoing
  <2>2. QED BY <1>3, <1>4, <1>5, <1>6, <1>8, <2>1
            DEF Holds, Knows, Installs, Undoes, Unrecorded, Installing, FromDisplaced, FromMigrating, FromConfigure,
                FromPoint, FromStarting, Undoing, Returned
<1>12. QED BY <1>1, <1>7, <1>9, <1>10, <1>11, Concluded

LEMMA InvBackUp ==
  ASSUME UpgradeInv, BackUp
  PROVE  UpgradeInv'
<1>1. UpgradeTypeOK' /\ UpgradeTypeOK /\ Served /\ Recorded
  BY TypeInstalling DEF UpgradeInv
<1>2. PICK m, n, g : m = job.mem /\ n = [m EXCEPT !.ready = TRUE] /\ g = guard /\ m \in Journals
  BY <1>1, JobIs
<1>3. /\ UNCHANGED <<journal, gate, pointer, svc, prog, aside, config, db, safe, running, guard, attempts, before>>
      /\ job.at = "back_up" /\ backup' = [backup EXCEPT ![m.id] = db]
           /\ job' = [at |-> "backed_up", mem |-> n]
  BY <1>2, FollowingInstalling DEF BackUp, At, service, data
<1>4. Holds("back_up", m, g) /\ g /\ "back_up" \in Installing \cup Undoing
  BY <1>2, <1>3 DEF UpgradeInv, Holds, Installs, Installing
<1>5. ~Terminal(journal) /\ journal = m /\ Reversible(m) /\ m.id = attempts /\ m.id \in Attempts
        /\ m.target # 0
  BY <1>1, <1>4, Midst
<1>6. /\ n.id = m.id /\ n.prev = m.prev /\ n.target = m.target /\ n.phase = m.phase /\ n.step = m.step
           /\ n.ready
      /\ n.displaces = m.displaces /\ m.step = "none" /\ ~m.ready /\ m = [n EXCEPT !.ready = FALSE]
  <2>1. m.step = "none" /\ ~m.ready
    BY <1>4 DEF Holds, Installs, Installing
  <2>2. QED BY <1>2, <2>1 DEF Journals
<1>7. Reversible(m)' /\ Reversible(journal)'
  BY <1>3, <1>5, <1>6 DEF Reversible, DataKept, ProgramKept
<1>8. Reversible(n)'
  <2>1. backup'[m.id] = db
    BY <1>1, <1>3, <1>5 DEF UpgradeTypeOK
  <2>2. db.schema = before.schema
    BY <1>5, <1>6 DEF Reversible, DataKept
  <2>3. DataKept(n)'
    BY <1>1, <1>3, <1>6, <2>1, <2>2 DEF DataKept, Recorded
  <2>4. QED BY <1>3, <1>5, <1>6, <2>3 DEF Reversible, ProgramKept, Pointed
<1>9. Recorded'
  BY <1>1, <1>3, <1>5, <1>7, RecordedMidst DEF Recorded
<1>10. Served'
  BY <1>1, <1>2, <1>3, <1>4, ServedNone DEF Served, Idle
<1>11. Holds("backed_up", n, g)'
  BY <1>3, <1>4, <1>5, <1>6, <1>8
     DEF Holds, Knows, Installs, Undoes, Unrecorded, Installing, FromDisplaced, FromMigrating, FromConfigure,
         FromPoint, FromStarting, Undoing, Returned
<1>12. QED BY <1>1, <1>2, <1>3, <1>9, <1>10, <1>11, Concluded

LEMMA InvDisplace ==
  ASSUME UpgradeInv, Displace
  PROVE  UpgradeInv'
<1>1. UpgradeTypeOK' /\ UpgradeTypeOK /\ Served /\ Recorded
  BY TypeInstalling DEF UpgradeInv
<1>2. PICK m, g : m = job.mem /\ g = guard /\ m \in Journals
  BY <1>1, JobIs
<1>3. /\ UNCHANGED <<journal, gate, pointer, svc, backup, config, db, safe, running, guard, attempts, before>>
      /\ job.at = "displace" /\ job' = [at |-> "program_displaced", mem |-> m]
      /\ aside' = [aside EXCEPT ![m.id] = prog[m.target]] /\ prog' = [prog EXCEPT ![m.target] = Missing]
  BY <1>1, <1>2, FollowingInstalling, GotoIs DEF Displace, Proceed, At, service, data
<1>4. Holds("displace", m, g) /\ g /\ "displace" \in Installing \cup Undoing
  BY <1>2, <1>3 DEF UpgradeInv, Holds, Installs, Installing, FromStarting
<1>5. ~Terminal(journal) /\ journal = m /\ Reversible(m) /\ m.id = attempts /\ m.id \in Attempts
        /\ m.target # 0
  BY <1>1, <1>4, Midst
<1>6. m.step = "none" /\ m.displaces /\ config /\ m.ready /\ aside[m.id] = Missing
  BY <1>4 DEF Holds, Installs, Installing, FromDisplaced, FromMigrating, FromConfigure, FromPoint,
       FromStarting
<1>7. m.target \in Versions /\ m.prev \in Versions /\ prog[m.prev] = before.program
        /\ before.program # Missing
  BY <1>1, <1>2, <1>5, <1>6, JournalIs DEF Reversible, ProgramKept, UpgradeTypeOK, Recorded
<1>8. /\ aside'[m.id] = prog[m.target] /\ prog'[m.target] = Missing
           /\ (m.prev # m.target => prog'[m.prev] = prog[m.prev])
      /\ \A i \in Attempts : i # m.id => aside'[i] = aside[i]
  BY <1>1, <1>3, <1>5, <1>7 DEF UpgradeTypeOK
<1>9. Reversible(m)' /\ Reversible(journal)'
  BY <1>3, <1>5, <1>6, <1>7, <1>8 DEF Reversible, DataKept, ProgramKept, Pointed, Replaced
<1>10. Recorded'
  <2>1. \A i \in Attempts : i > attempts => aside'[i] = Missing
    BY <1>1, <1>5, <1>8 DEF Recorded, Attempts, UpgradeTypeOK
  <2>2. QED BY <1>1, <1>3, <1>5, <1>9, <2>1, RecordedMidst DEF Recorded
<1>11. Served'
  BY <1>1, <1>2, <1>3, <1>4, ServedNone DEF Served, Idle
<1>12. Holds("program_displaced", m, g)'
  BY <1>3, <1>4, <1>5, <1>6, <1>7, <1>8, <1>9
     DEF Holds, Knows, Installs, Undoes, Unrecorded, Installing, FromDisplaced, FromMigrating, FromConfigure,
         FromPoint, FromStarting, Undoing, Returned
<1>13. QED BY <1>1, <1>2, <1>3, <1>10, <1>11, <1>12, Concluded

LEMMA InvPromote ==
  ASSUME UpgradeInv, Promote
  PROVE  UpgradeInv'
<1>1. UpgradeTypeOK' /\ UpgradeTypeOK /\ Served /\ Recorded
  BY TypeInstalling DEF UpgradeInv
<1>2. PICK m, g : m = job.mem /\ g = guard /\ m \in Journals
  BY <1>1, JobIs
<1>3. /\ UNCHANGED <<journal, gate, pointer, svc, aside, backup, config, db, safe, running, guard, attempts, before>>
      /\ job.at = "promote" /\ job' = [at |-> "migrating", mem |-> m]
      /\ prog' = [prog EXCEPT ![m.target] = m.id]
  BY <1>1, <1>2, FollowingInstalling, GotoIs DEF Promote, Proceed, At, service, data
<1>4. Holds("promote", m, g) /\ g /\ "promote" \in Installing \cup Undoing
  BY <1>2, <1>3 DEF UpgradeInv, Holds, Installs, Installing, FromDisplaced, FromStarting
<1>5. ~Terminal(journal) /\ journal = m /\ Reversible(m) /\ m.id = attempts /\ m.id \in Attempts
        /\ m.target # 0
  BY <1>1, <1>4, Midst
<1>6. m.step = "none" /\ m.displaces /\ config /\ m.ready
        /\ (m.prev = m.target => aside[m.id] # Missing)
  BY <1>4 DEF Holds, Installs, Installing, FromDisplaced
<1>7. m.target \in Versions /\ m.id # Missing
  BY <1>2, <1>5, JournalIs, BoundsAssumption DEF Attempts, Missing
<1>8. prog'[m.target] = m.id /\ (m.prev # m.target => prog'[m.prev] = prog[m.prev])
  BY <1>1, <1>3, <1>7 DEF UpgradeTypeOK
<1>9. Reversible(m)' /\ Reversible(journal)'
  BY <1>3, <1>5, <1>6, <1>8 DEF Reversible, DataKept, ProgramKept, Pointed, Replaced
<1>10. Recorded'
  BY <1>1, <1>3, <1>5, <1>9, RecordedMidst DEF Recorded
<1>11. Served'
  BY <1>1, <1>2, <1>3, <1>4, ServedNone DEF Served, Idle
<1>12. Holds("migrating", m, g)'
  BY <1>3, <1>4, <1>5, <1>6, <1>7, <1>8, <1>9
     DEF Holds, Knows, Installs, Undoes, Unrecorded, Installing, FromDisplaced, FromMigrating, FromConfigure,
         FromPoint, FromStarting, Undoing, Returned
<1>13. QED BY <1>1, <1>2, <1>3, <1>10, <1>11, <1>12, Concluded

LEMMA InvMigrate ==
  ASSUME UpgradeInv, Migrate
  PROVE  UpgradeInv'
<1>1. UpgradeTypeOK' /\ UpgradeTypeOK /\ Served /\ Recorded
  BY TypeInstalling DEF UpgradeInv
<1>2. PICK at, m, g : at = job.at /\ m = job.mem /\ g = guard
  OBVIOUS
<1>3. /\ UNCHANGED <<journal, gate, pointer, svc, prog, aside, backup, config, safe, running, guard, attempts, before>>
      /\ at \in {"migrate", "finish_migration"}
  BY <1>2 DEF Migrate, disk, service
<1>4. db'.recs = db.recs /\ (at = "finish_migration" => db'.schema = Schema[m.target])
  <2>1. PICK s : /\ db' = [db EXCEPT !.schema = s]
                 /\ at = "finish_migration" => s = Schema[m.target]
    BY <1>2, <1>3 DEF Migrate, At
  <2>2. QED BY <1>1, <2>1 DEF UpgradeTypeOK, Databases
<1>5. Holds(at, m, g) /\ at \in Installing /\ g
  BY <1>2, <1>3 DEF UpgradeInv, Holds, Installs, Installing, FromDisplaced, FromMigrating
<1>6. ~Terminal(journal) /\ journal = m /\ Reversible(m) /\ m.id = attempts /\ m.id \in Attempts
        /\ m.target # 0
  BY <1>1, <1>3, <1>5, Midst
<1>7. m.step = "none" /\ m.displaces /\ config /\ m.ready /\ prog[m.target] # Missing
  BY <1>3, <1>5 DEF Holds, Installs, FromMigrating
<1>8. Reversible(m)' /\ Reversible(journal)'
  BY <1>3, <1>6, <1>7 DEF Reversible, DataKept, ProgramKept, Pointed, Replaced
<1>9. Recorded'
  BY <1>1, <1>3, <1>4, <1>6, <1>8, RecordedMidst DEF Recorded
<1>10. PICK to : to = IF at = "migrate" THEN "finish_migration" ELSE "configure"
  OBVIOUS
<1>11. job' = [at |-> to, mem |-> m]
  BY <1>1, <1>2, <1>3, <1>10, FollowingInstalling, GotoIs DEF Migrate, Proceed
<1>12. Served'
  BY <1>1, <1>2, <1>3, <1>5, <1>10, <1>11, ServedNone DEF Served, Idle
<1>13. Holds(to, m, g)'
  BY <1>3, <1>4, <1>5, <1>6, <1>7, <1>8, <1>10
     DEF Holds, Knows, Installs, Undoes, Unrecorded, Installing, FromDisplaced, FromMigrating, FromConfigure,
         FromPoint, FromStarting, Undoing, Returned
<1>14. QED BY <1>1, <1>2, <1>3, <1>9, <1>11, <1>12, <1>13, Concluded

(* What the clean-up removes is needed by nobody.                          *)
LEMMA InvCleanUp ==
  ASSUME UpgradeInv, CleanUp
  PROVE  UpgradeInv'
<1>1. UpgradeTypeOK' /\ UpgradeTypeOK /\ Served /\ Recorded
  BY TypeInstalling DEF UpgradeInv
<1>2. PICK m, g : m = job.mem /\ g = guard
  OBVIOUS
<1>3. /\ UNCHANGED <<journal, gate, pointer, svc, backup, config, db, safe, running, attempts, before>>
      /\ job.at = "clean_up" /\ job' = Idle /\ ~guard'
  BY <1>1, GotoIs DEF CleanUp, Released, At, service, data
<1>4. journal = m /\ m.phase = "committed" /\ pointer = m.target /\ journal.id = attempts
  BY <1>2, <1>3 DEF UpgradeInv, Holds, Knows, Unrecorded
<1>5. prog'[pointer] = prog[pointer] /\ \A i \in Attempts : aside'[i] \in {aside[i], Missing}
  <2>1. PICK gone \in SUBSET (Versions \ Needed(m)), old \in SUBSET (Attempts \ (Pending \cup {m.id})) :
          /\ prog' = [v \in Versions |-> IF v \in gone THEN Missing ELSE prog[v]]
          /\ aside' = [i \in Attempts |-> IF i \in old THEN Missing ELSE aside[i]]
    BY <1>2 DEF CleanUp
  <2>2. m.target \in Needed(m)
    BY DEF Needed
  <2>3. pointer \in Versions /\ pointer \notin gone
    BY <1>1, <1>4, <2>1, <2>2 DEF UpgradeTypeOK
  <2>4. QED BY <2>1, <2>3
<1>6. Terminal(journal) /\ Terminal(journal)' /\ Whole(pointer)
  BY <1>1, <1>3, <1>4 DEF Terminal, Recorded
<1>7. Whole(pointer)'
  BY <1>3, <1>5, <1>6 DEF Whole
<1>8. Recorded'
  <2>1. \A i \in Attempts : i > attempts => aside'[i] = Missing
    BY <1>1, <1>5 DEF Recorded
  <2>2. QED BY <1>1, <1>3, <1>4, <1>6, <1>7, <2>1 DEF Recorded
<1>9. Served'
  BY <1>1, <1>3, <1>5, <1>6 DEF Served, RunningIsWhole, Whole
<1>10. PICK h : h = guard'
  OBVIOUS
<1>11. QED BY <1>1, <1>3, <1>8, <1>9, <1>10, HoldsIdle, Concluded DEF Idle

LEMMA InvOpen ==
  ASSUME UpgradeInv, Open
  PROVE  UpgradeInv'
<1>1. UpgradeTypeOK' /\ UpgradeTypeOK /\ Served /\ Recorded
  BY TypeMoves DEF UpgradeInv
<1>2. PICK at, m, g, h : at = job.at /\ m = job.mem /\ g = guard /\ h = guard'
  OBVIOUS
<1>3. /\ UNCHANGED <<journal, pointer, svc, prog, aside, backup, config, db, safe, running, attempts, before>>
      /\ at \in {"open", "open_again"} /\ gate' = Opened(m)
  BY <1>2 DEF Open, service, data
<1>4. Holds(at, m, g)
  BY <1>2 DEF UpgradeInv
<1>5. /\ journal = m /\ m.phase \in {"committed", "rolled_back"} /\ Reversible(m) /\ m.id = attempts
      /\ m.id \in Attempts /\ m.target # 0 /\ journal.id = attempts
      /\ at = "open" => m.phase = "committed" /\ pointer = m.target
  BY <1>3, <1>4 DEF Holds, Knows, Unrecorded
<1>6. gate' = NoGate
  BY <1>3, <1>5 DEF Reversible, Opened
<1>7. Recorded'
  <2>1. Terminal(journal) /\ Terminal(journal)' /\ (Whole(pointer)' <=> Whole(pointer))
          /\ (AsBefore' <=> AsBefore)
    BY <1>3, <1>5 DEF Terminal, Whole, AsBefore
  <2>2. QED BY <1>1, <1>3, <1>5, <1>6, <2>1 DEF Recorded, NoGate
<1>8. CASE at = "open"
  <2>1. job' = [at |-> "clean_up", mem |-> m] /\ guard' = guard
    BY <1>1, <1>2, <1>8, FollowingInstalling, GotoIs DEF Open, Proceed, Released, UpgradeTypeOK
  <2>2. Served'
    BY <1>1, <1>3, <2>1, ServedStill DEF Idle, Served
  <2>3. Holds("clean_up", m, h)'
    BY <1>3, <1>4, <1>5, <1>8
       DEF Holds, Knows, Installs, Undoes, Unrecorded, Installing, FromDisplaced, FromMigrating, FromConfigure,
           FromPoint, FromStarting, Undoing, Returned
  <2>4. QED BY <1>1, <1>2, <1>7, <2>1, <2>2, <2>3, Concluded
<1>9. CASE at = "open_again"
  <2>1. job' = Idle /\ ~guard'
    BY <1>1, <1>2, <1>9, FollowingUndoing, GotoIs DEF Open, Proceed, Released
  <2>2. Served'
    BY <1>1, <1>3, <2>1, ServedStill
  <2>3. QED BY <1>1, <1>2, <1>7, <2>1, <2>2, HoldsIdle, Concluded DEF Idle
<1>10. QED BY <1>3, <1>8, <1>9

-----------------------------------------------------------------------------
(* Going back.                                                             *)

LEMMA InvRestoreData ==
  ASSUME UpgradeInv, RestoreData
  PROVE  UpgradeInv'
<1>1. UpgradeTypeOK' /\ UpgradeTypeOK /\ Served /\ Recorded
  BY TypeRestoring DEF UpgradeInv
<1>2. PICK at, m, g : at = job.at /\ m = job.mem /\ g = guard
  OBVIOUS
<1>3. /\ UNCHANGED <<journal, gate, pointer, svc, prog, aside, backup, safe, running, guard, attempts, before>>
      /\ at \in {"restore_database", "remove_config", "restore_config"}
      /\ db' = IF at = "restore_database" THEN backup[m.id] ELSE db
      /\ at = "restore_config" => config'
  BY <1>2 DEF RestoreData, At, service
<1>4. Holds(at, m, g) /\ at \in Installing \cup Undoing /\ g
  BY <1>2, <1>3 DEF UpgradeInv, Holds, Undoes, Undoing
<1>5. ~Terminal(journal) /\ journal = m /\ Reversible(m) /\ m.id = attempts /\ m.id \in Attempts
        /\ m.target # 0
  BY <1>1, <1>3, <1>4, Midst
<1>6. m.step = "none" /\ m.ready /\ (at # "restore_database" => db.schema = before.schema)
  BY <1>3, <1>4 DEF Holds, Undoes
<1>7. Reversible(m)' /\ Reversible(journal)'
  BY <1>3, <1>5, <1>6 DEF Reversible, DataKept, ProgramKept, Pointed
<1>8. db'.schema = before.schema /\ safe \subseteq db'.recs
  BY <1>1, <1>3, <1>5, <1>6 DEF Reversible, DataKept, Recorded
<1>9. Recorded'
  BY <1>1, <1>3, <1>5, <1>7, <1>8, RecordedMidst DEF Recorded
<1>10. PICK to \in {"remove_config", "restore_config", "data_restored"} : to = Following(at)
  BY <1>3, FollowingUndoing
<1>11. job' = [at |-> to, mem |-> m] /\ (to = "data_restored" => at = "restore_config")
  BY <1>1, <1>2, <1>3, <1>10, FollowingUndoing, GotoIs DEF RestoreData, Proceed
<1>12. Served'
  BY <1>1, <1>2, <1>3, <1>4, <1>10, <1>11, ServedNone DEF Served, Idle
<1>13. Holds(to, m, g)'
  BY <1>3, <1>4, <1>5, <1>6, <1>7, <1>8, <1>10, <1>11
     DEF Holds, Knows, Installs, Undoes, Unrecorded, Installing, FromDisplaced, FromMigrating, FromConfigure,
         FromPoint, FromStarting, Undoing, Returned
<1>14. QED BY <1>1, <1>2, <1>3, <1>9, <1>11, <1>12, <1>13, Concluded

LEMMA InvRejectProgram ==
  ASSUME UpgradeInv, RejectProgram
  PROVE  UpgradeInv'
<1>1. UpgradeTypeOK' /\ UpgradeTypeOK /\ Served /\ Recorded
  BY TypeRestoring DEF UpgradeInv
<1>2. PICK m, g : m = job.mem /\ g = guard /\ m \in Journals
  BY <1>1, JobIs
<1>3. /\ UNCHANGED <<journal, gate, pointer, svc, aside, backup, config, db, safe, running, guard, attempts, before>>
      /\ job.at = "reject_program"
      /\ prog' = prog \/ (HasProgram(m) /\ prog' = [prog EXCEPT ![m.target] = Missing])
  BY <1>2 DEF RejectProgram, At, service, data
<1>4. Holds("reject_program", m, g) /\ g /\ "reject_program" \in Installing \cup Undoing
  BY <1>2, <1>3 DEF UpgradeInv, Holds, Undoes, Undoing
<1>5. ~Terminal(journal) /\ journal = m /\ Reversible(m) /\ m.id = attempts /\ m.id \in Attempts
        /\ m.target # 0
  BY <1>1, <1>4, Midst
<1>6. m.step = "data_restored" /\ m.prev \in Versions
  BY <1>1, <1>4, <1>5 DEF Holds, Undoes, Reversible, UpgradeTypeOK
<1>7. m.prev # m.target => prog'[m.prev] = prog[m.prev]
  BY <1>1, <1>3, <1>6 DEF UpgradeTypeOK
<1>8. Reversible(m)' /\ Reversible(journal)'
  <2>1. CASE prog' = prog
    BY <1>3, <1>5, <2>1 DEF Reversible, DataKept, ProgramKept
  <2>2. CASE HasProgram(m)
    BY <1>3, <1>5, <1>6, <1>7, <2>2 DEF Reversible, DataKept, ProgramKept, HasProgram, Replaced, Pointed
  <2>3. QED BY <1>3, <2>1, <2>2
<1>9. Recorded'
  BY <1>1, <1>3, <1>5, <1>8, RecordedMidst DEF Recorded
<1>10. PICK to \in {"program_restored", "restore_program", "rollback_failed"} :
         /\ Goto(to)
         /\ to = "program_restored" => ~HasProgram(m) /\ prog' = prog
         /\ to = "restore_program" => HasProgram(m)
  BY <1>2, <1>3, FollowingUndoing DEF RejectProgram, Proceed
<1>11. job' = [at |-> to, mem |-> m]
  BY <1>1, <1>2, <1>10, GotoIs
<1>12. Served'
  BY <1>1, <1>2, <1>3, <1>4, <1>10, <1>11, ServedNone DEF Served, Idle
<1>13. Holds(to, m, g)'
  <2>1. to = "program_restored" => prog'[m.prev] = before.program
    BY <1>5, <1>6, <1>10 DEF HasProgram, Reversible, ProgramKept, Replaced
  <2>2. QED BY <1>3, <1>4, <1>5, <1>6, <1>8, <1>10, <2>1
            DEF Holds, Knows, Installs, Undoes, Unrecorded, Installing, FromDisplaced, FromMigrating, FromConfigure,
                FromPoint, FromStarting, Undoing, Returned, HasProgram
<1>14. QED BY <1>1, <1>2, <1>3, <1>9, <1>11, <1>12, <1>13, Concluded

LEMMA InvRestoreProgram ==
  ASSUME UpgradeInv, RestoreProgram
  PROVE  UpgradeInv'
<1>1. UpgradeTypeOK' /\ UpgradeTypeOK /\ Served /\ Recorded
  BY TypeRestoring DEF UpgradeInv
<1>2. PICK m, g : m = job.mem /\ g = guard /\ m \in Journals
  BY <1>1, JobIs
<1>3. /\ UNCHANGED <<journal, gate, pointer, svc, backup, config, db, safe, running, guard, attempts, before>>
      /\ job.at = "restore_program" /\ job' = [at |-> "program_restored", mem |-> m]
      /\ prog' = [prog EXCEPT ![m.target] = aside[m.id]] /\ aside' = [aside EXCEPT ![m.id] = Missing]
  BY <1>1, <1>2, FollowingUndoing, GotoIs DEF RestoreProgram, Proceed, At, service, data
<1>4. Holds("restore_program", m, g) /\ g /\ "restore_program" \in Installing \cup Undoing
  BY <1>2, <1>3 DEF UpgradeInv, Holds, Undoes, Undoing
<1>5. ~Terminal(journal) /\ journal = m /\ Reversible(m) /\ m.id = attempts /\ m.id \in Attempts
        /\ m.target # 0
  BY <1>1, <1>4, Midst
<1>6. m.step = "data_restored" /\ aside[m.id] # Missing /\ m.prev \in Versions /\ m.target \in Versions
  BY <1>1, <1>2, <1>4, <1>5, JournalIs DEF Holds, Undoes, Reversible, UpgradeTypeOK
<1>7. /\ prog'[m.target] = aside[m.id] /\ (m.prev # m.target => prog'[m.prev] = prog[m.prev])
      /\ aside'[m.id] = Missing /\ \A i \in Attempts : i # m.id => aside'[i] = aside[i]
  BY <1>1, <1>3, <1>5, <1>6 DEF UpgradeTypeOK
<1>8. prog'[m.prev] = before.program
  BY <1>5, <1>6, <1>7 DEF Reversible, ProgramKept, Replaced
<1>9. Reversible(m)' /\ Reversible(journal)'
  BY <1>3, <1>5, <1>6, <1>7, <1>8 DEF Reversible, DataKept, ProgramKept, Pointed
<1>10. Recorded'
  <2>1. \A i \in Attempts : i > attempts => aside'[i] = Missing
    BY <1>1, <1>5, <1>7 DEF Recorded
  <2>2. QED BY <1>1, <1>3, <1>5, <1>9, <2>1, RecordedMidst DEF Recorded
<1>11. Served'
  BY <1>1, <1>2, <1>3, <1>4, ServedNone DEF Served, Idle
<1>12. Holds("program_restored", m, g)'
  BY <1>3, <1>4, <1>5, <1>6, <1>8, <1>9
     DEF Holds, Knows, Installs, Undoes, Unrecorded, Installing, FromDisplaced, FromMigrating, FromConfigure,
         FromPoint, FromStarting, Undoing, Returned
<1>13. QED BY <1>1, <1>2, <1>3, <1>10, <1>11, <1>12, Concluded

-----------------------------------------------------------------------------
(* Beginning.                                                              *)

LEMMA InvClaim ==
  ASSUME UpgradeInv, Claim
  PROVE  UpgradeInv'
<1>1. UpgradeTypeOK' /\ UpgradeTypeOK /\ Served /\ Recorded
  BY TypeStarting DEF UpgradeInv
<1>2. PICK m, g, h : m = job.mem /\ g = guard /\ h = guard'
  OBVIOUS
<1>3. /\ UNCHANGED <<journal, pointer, svc, prog, aside, backup, config, db, safe, attempts, before>>
      /\ job.at = "claim" /\ running' = 0
  BY DEF Claim, At, data
<1>4. Holds("claim", m, g)
  BY <1>2, <1>3 DEF UpgradeInv
<1>5. /\ m.step = "none" /\ ~m.ready /\ m.prev = pointer /\ gate.state # "idle" /\ journal.id # attempts
      /\ m.id = attempts /\ m.id \in Attempts /\ m.target # 0 /\ m.displaces
  BY <1>4 DEF Holds, Knows, Installs, Unrecorded
<1>6. /\ Terminal(journal) /\ Terminal(journal)' /\ Whole(pointer) /\ AsBefore
           /\ aside[attempts] = Missing
      /\ gate.id = attempts /\ gate.target # 0
  BY <1>1, <1>3, <1>5 DEF Terminal, Recorded
<1>7. Whole(pointer)' /\ AsBefore'
  BY <1>3, <1>6 DEF Whole, AsBefore
<1>8. gate'.id = gate.id /\ gate'.target = gate.target
  BY <1>1 DEF Claim, UpgradeTypeOK
<1>9. Recorded'
  BY <1>1, <1>3, <1>5, <1>6, <1>7, <1>8 DEF Recorded
<1>10. CASE Goto("end") /\ ~guard'
  <2>1. job' = Idle
    BY <1>1, <1>10, GotoIs
  <2>2. Served'
    BY <1>3, <1>10, ServedNone
  <2>3. QED BY <1>1, <1>2, <1>9, <2>1, <2>2, HoldsIdle, Concluded DEF Idle
<1>11. CASE Goto("prepared") /\ gate' = [gate EXCEPT !.state = "claimed"]
  <2>1. job' = [at |-> "prepared", mem |-> m]
    BY <1>1, <1>2, <1>11, GotoIs
  <2>2. Served'
    BY <1>3, <2>1, ServedNone DEF Idle
  <2>3. gate'.state = "claimed"
    BY <1>1, <1>11 DEF UpgradeTypeOK
  <2>4. Reversible(m)'
    BY <1>3, <1>5, <1>6, <1>8, <2>3 DEF Reversible, DataKept, ProgramKept, AsBefore, Whole, Pointed
  <2>5. Holds("prepared", m, h)'
    BY <1>3, <1>5, <1>6, <1>8, <2>3, <2>4
       DEF Holds, Knows, Installs, Undoes, Unrecorded, Installing, FromDisplaced, FromMigrating, FromConfigure,
           FromPoint, FromStarting, Undoing, Returned
  <2>6. QED BY <1>1, <1>2, <1>9, <2>1, <2>2, <2>5, Concluded
<1>12. QED BY <1>10, <1>11 DEF Claim

LEMMA InvAuthorize ==
  ASSUME UpgradeInv, NEW target \in Versions, AuthorizeRunning(target) \/ AuthorizeStopped(target)
  PROVE  UpgradeInv'
<1>1. UpgradeTypeOK /\ Served /\ Recorded
  BY DEF UpgradeInv
<1>2. PICK m, g, at, n : /\ n = attempts + 1 /\ m = NewJournal(n, target) /\ g = guard
                         /\ at = IF gate'.state = "claimed" THEN "prepared" ELSE "claim"
  OBVIOUS
<1>3. /\ UNCHANGED <<journal, pointer, svc, prog, aside, backup, config, db, safe, running, guard>>
      /\ job = Idle /\ attempts < MaxAttempts /\ Terminal(journal)
      /\ attempts' = n /\ job' = [at |-> at, mem |-> m]
      /\ gate'.id = n /\ gate'.target = target /\ gate'.state \in {"prepared", "claimed"}
      /\ before' = [pointer |-> pointer, program |-> prog[pointer], schema |-> db.schema]
  BY <1>2 DEF AuthorizeRunning, AuthorizeStopped, MayAuthorize, Closed, service, data
<1>4. n \in Attempts /\ n > attempts /\ n >= 1 /\ target # 0 /\ journal.id <= attempts
        /\ journal.id \in Nat
  BY <1>1, <1>2, <1>3, BoundsAssumption, VersionsAssumption DEF Attempts, UpgradeTypeOK, Journals,
       Recorded
<1>5. UpgradeTypeOK'
  BY TypeAuthorize
<1>6. Whole(pointer) /\ aside[n] = Missing
  BY <1>1, <1>3, <1>4 DEF Recorded
<1>7. /\ before'.pointer = pointer /\ before'.program = prog[pointer] /\ before'.schema = db.schema
  BY <1>3
<1>8. AsBefore' /\ Whole(pointer)' /\ Terminal(journal)'
  BY <1>3, <1>6, <1>7 DEF AsBefore, Whole, Terminal
<1>9. Recorded'
  <2>1. journal.id # n /\ journal.id <= n /\ \A i \in Attempts : i > n => i > attempts
    BY <1>1, <1>2, <1>4 DEF Attempts, UpgradeTypeOK
  <2>2. before'.schema = Schema[before'.pointer] /\ before'.program # Missing
    BY <1>6, <1>7 DEF Whole
  <2>3. \A i \in Attempts : i > n => aside[i] = Missing
    BY <1>1, <2>1 DEF Recorded
  <2>4. journal.phase # "none" => journal.id >= 1 /\ journal.target # 0
    BY <1>1 DEF Recorded
  <2>5. safe \subseteq db.recs
    BY <1>1 DEF Recorded
  <2>6. QED BY <1>3, <1>4, <1>6, <1>8, <2>1, <2>2, <2>3, <2>4, <2>5 DEF Recorded
<1>10. Served'
  BY <1>1, <1>2, <1>3, ServedStill DEF Served, Idle
<1>11. /\ m.id = n /\ m.prev = pointer /\ m.target = target /\ m.step = "none" /\ ~m.ready
            /\ m.displaces
  BY <1>2 DEF NewJournal
<1>12. at = "prepared" => Reversible(m)'
  BY <1>2, <1>3, <1>6, <1>7, <1>11 DEF Reversible, DataKept, ProgramKept, Whole, Pointed
<1>13. Holds(at, m, g)'
  <2>1. journal'.id # attempts' /\ gate'.state # "idle" /\ attempts' \in Attempts
    BY <1>1, <1>3, <1>4 DEF UpgradeTypeOK
  <2>2. at \in {"claim", "prepared"} /\ at \in Unrecorded
          /\ at \notin Installing \cup Undoing \cup Returned
    BY <1>2 DEF Unrecorded, Installing, FromDisplaced, FromMigrating, FromConfigure, FromPoint,
         FromStarting,
                Undoing, Returned
  <2>3. QED BY <1>3, <1>4, <1>11, <1>12, <2>1, <2>2
            DEF Holds, Knows, Installs, Undoes, Unrecorded, Installing, FromDisplaced, FromMigrating,
                FromConfigure, FromPoint, FromStarting, Undoing, Returned
<1>14. QED BY <1>2, <1>3, <1>5, <1>9, <1>10, <1>13, Concluded

LEMMA InvRecover ==
  ASSUME UpgradeInv, Recover
  PROVE  UpgradeInv'
<1>1. UpgradeTypeOK' /\ UpgradeTypeOK /\ Served /\ Recorded
  BY TypeStarting DEF UpgradeInv
<1>2. PICK g, t : g = guard /\ t = gate
  OBVIOUS
<1>3. /\ UNCHANGED <<journal, pointer, svc, prog, aside, backup, config, db, safe, guard, attempts, before>>
      /\ job = Idle /\ ~guard
  BY <1>1 DEF Recover, data, Served
<1>4. gate' = IF Terminal(journal) /\ gate.id = journal.id THEN NoGate ELSE gate
  BY DEF Recover, Opened
<1>5. Terminal(journal)' <=> Terminal(journal)
  BY <1>3 DEF Terminal
<1>6. Recorded'
  <2>1. Whole(pointer)' <=> Whole(pointer)
    BY <1>3 DEF Whole
  <2>2. AsBefore' <=> AsBefore
    BY <1>3 DEF AsBefore
  <2>3. ~Terminal(journal) => (Reversible(journal)' <=> Reversible(journal))
    BY <1>3, <1>4 DEF Reversible, DataKept, ProgramKept
  <2>4. QED BY <1>1, <1>3, <1>4, <1>5, <2>1, <2>2, <2>3 DEF Recorded, NoGate
<1>7. CASE ~Terminal(journal)
  <2>1. PICK m : m = journal
    OBVIOUS
  <2>2. job' = [at |-> "roll_back", mem |-> m] /\ UNCHANGED running
    BY <1>7, <2>1 DEF Recover
  <2>3. Served'
    BY <1>1, <1>3, <2>2, ServedStill
  <2>4. /\ Reversible(m)' /\ m.id = attempts /\ m.id \in Attempts /\ m.target # 0
    <3>1. journal.phase # "none" /\ journal.id = attempts
      BY <1>1, <1>7 DEF Terminal, Recorded
    <3>2. journal.id \in Attempts /\ journal.target # 0
      BY <1>1, <3>1, BoundsAssumption DEF Recorded, Attempts, UpgradeTypeOK
    <3>3. Reversible(journal)'
      BY <1>5, <1>6, <1>7 DEF Recorded
    <3>4. QED BY <1>3, <2>1, <3>1, <3>2, <3>3 DEF Reversible, DataKept, ProgramKept
  <2>5. Holds("roll_back", m, g)'
    BY <1>3, <2>1, <2>4
       DEF Holds, Knows, Installs, Undoes, Unrecorded, Installing, FromDisplaced, FromMigrating, FromConfigure,
           FromPoint, FromStarting, Undoing, Returned
  <2>6. QED BY <1>1, <1>2, <1>3, <1>6, <2>2, <2>3, <2>5, Concluded
<1>8. CASE Terminal(journal) /\ gate'.state = "claimed"
  <2>1. PICK m : m = ClaimJournal
    OBVIOUS
  <2>2. job' = [at |-> "claim_recovery", mem |-> m] /\ UNCHANGED running
    BY <1>8, <2>1 DEF Recover
  <2>3. Served'
    BY <1>1, <1>3, <2>2, ServedStill
  <2>4. gate' = gate /\ gate.id # journal.id /\ gate.state = "claimed"
    BY <1>4, <1>8 DEF NoGate
  <2>5. /\ gate.id = attempts /\ attempts \in Attempts /\ gate.target # 0 /\ journal.id # attempts
        /\ Whole(pointer) /\ AsBefore /\ aside[attempts] = Missing
    BY <1>1, <1>8, <2>4, BoundsAssumption DEF Recorded, Attempts, UpgradeTypeOK
  <2>6. /\ m.id = gate.id /\ m.prev = pointer /\ m.target = gate.target /\ m.step = "none" /\ ~m.ready
    BY <2>1 DEF ClaimJournal, NewJournal
  <2>7. Reversible(m)'
    BY <1>3, <2>4, <2>5, <2>6 DEF Reversible, DataKept, ProgramKept, Whole, AsBefore, Pointed
  <2>8. Holds("claim_recovery", m, g)'
    BY <1>3, <2>4, <2>5, <2>6, <2>7
       DEF Holds, Knows, Installs, Undoes, Unrecorded, Installing, FromDisplaced, FromMigrating, FromConfigure,
           FromPoint, FromStarting, Undoing, Returned
  <2>9. QED BY <1>1, <1>2, <1>3, <1>6, <2>2, <2>3, <2>8, Concluded
<1>9. CASE Terminal(journal) /\ gate'.state # "claimed"
  <2>1. job' = Idle /\ (running' = running \/ (running' = svc /\ CanRun) \/ running' = 0)
    BY <1>3, <1>9 DEF Recover
  <2>2. Served'
    BY <1>1, <1>3, <2>1, ServedStill, ServedStarts
  <2>3. QED BY <1>1, <1>2, <1>3, <1>6, <2>1, <2>2, HoldsIdle, Concluded DEF Idle
<1>10. QED BY <1>7, <1>8, <1>9

-----------------------------------------------------------------------------
(* The invariant holds, and what follows from it.                          *)

LEMMA InvInit ==
  ASSUME UpgradeInit
  PROVE  UpgradeInv
<1>1. 1 \in Versions /\ 0 \in 0..MaxAttempts /\ 0 \in 0..MaxSetbacks /\ Missing # Original
        /\ MaxAttempts \in Nat
  BY VersionsAssumption, BoundsAssumption DEF Missing, Original
<1>2. NoJournal \in Journals /\ Idle \in [at : Steps, mem : Journals]
  BY <1>1, StepsAre DEF NoJournal, Journals, Idle
<1>3. NoGate \in [id : 0..MaxAttempts, state : {"idle", "prepared", "claimed"}, target : Versions \cup {0}]
  BY <1>1 DEF NoGate
<1>4. Original \in Programs /\ Missing \in Programs
  BY DEF Programs
<1>5. db \in Databases /\ NoDb \in Databases
  BY <1>1 DEF UpgradeInit, Databases, NoDb, Mixed
<1>6. before \in [pointer : Versions, program : Programs, schema : {Mixed} \cup {Schema[v] : v \in Versions}]
  BY <1>1, <1>4 DEF UpgradeInit
<1>7. UpgradeTypeOK
  BY <1>1, <1>2, <1>3, <1>4, <1>5, <1>6 DEF UpgradeInit, UpgradeTypeOK
<1>8. Recorded
  <2>1. Terminal(journal) /\ Whole(pointer) /\ AsBefore
    BY <1>1 DEF UpgradeInit, Terminal, NoJournal, Whole, AsBefore
  <2>2. \A i \in Attempts : aside[i] = Missing
    BY DEF UpgradeInit
  <2>3. QED BY <1>1, <2>1, <2>2 DEF UpgradeInit, Recorded, NoJournal, NoGate
<1>9. Served
  BY <1>1 DEF UpgradeInit, Served, RunningIsWhole, Idle
<1>10. Holds(job.at, job.mem, guard)
  <2>1. job.at = "idle" /\ job.mem = NoJournal
    BY DEF UpgradeInit, Idle
  <2>2. PICK g : g = guard
    OBVIOUS
  <2>3. QED BY <2>1, <2>2, HoldsIdle
<1>11. QED BY <1>7, <1>8, <1>9, <1>10 DEF UpgradeInv

LEMMA InvNext == UpgradeInv /\ [UpgradeNext]_upgradeVars => UpgradeInv'
<1> SUFFICES ASSUME UpgradeInv, [UpgradeNext]_upgradeVars
             PROVE  UpgradeInv'
  OBVIOUS
<1>1. CASE RecordPhase \/ Open
  BY <1>1, InvRecord, InvOpen
<1>2. CASE StopService \/ Start \/ CheckHealth \/ RollBack
  BY <1>2, InvMoves
<1>3. CASE Configure \/ Point
  BY <1>3, InvConfigure, InvPoint
<1>4. CASE BackUp \/ Displace \/ Promote \/ Migrate \/ CleanUp
  BY <1>4, InvBackUp, InvDisplace, InvPromote, InvMigrate, InvCleanUp
<1>5. CASE RestoreData \/ RejectProgram \/ RestoreProgram
  BY <1>5, InvRestoreData, InvRejectProgram, InvRestoreProgram
<1>6. CASE Claim \/ Authorize \/ Recover
  <2>1. ASSUME NEW target \in Versions, AuthorizeRunning(target) \/ AuthorizeStopped(target)
        PROVE  UpgradeInv'
    BY <2>1, InvAuthorize
  <2>2. QED BY <1>6, <2>1, InvClaim, InvRecover DEF Authorize
<1>7. CASE Fail \/ StartAtBoot \/ KillUpdater \/ PowerCut
  BY <1>7, InvFail, InvInterrupted
<1>8. CASE WriteRecord
  BY <1>8, InvWrite
<1>9. CASE UNCHANGED upgradeVars
  <2>1. UNCHANGED Disk /\ UNCHANGED <<running, guard, job>>
    BY <1>9 DEF upgradeVars, disk, data, service, Disk
  <2>2. UpgradeTypeOK'
    BY <1>9 DEF UpgradeInv, UpgradeTypeOK, upgradeVars, disk, data, service
  <2>3. PICK at, m, g : at = job.at /\ m = job.mem /\ g = guard /\ job = [at |-> at, mem |-> m]
    BY JobIs DEF UpgradeInv
  <2>4. Served'
    BY <2>1, ServedStill DEF UpgradeInv, Disk, Served
  <2>5. Holds(at, m, g)
    BY <2>3 DEF UpgradeInv
  <2>6. QED BY <2>1, <2>2, <2>3, <2>4, <2>5, OnlyMoved
<1>10. QED BY <1>1, <1>2, <1>3, <1>4, <1>5, <1>6, <1>7, <1>8, <1>9 DEF UpgradeNext, Step

LEMMA UpgradeKept == UpgradeSpec => []UpgradeInv
<1>1. UpgradeInit => UpgradeInv
  BY InvInit
<1>2. QED BY <1>1, InvNext, PTL DEF UpgradeSpec

(* Every variable has its type, whatever step the updater is killed at.    *)
THEOREM TypeCorrect == UpgradeSpec => []UpgradeTypeOK
<1>1. UpgradeInv => UpgradeTypeOK
  BY DEF UpgradeInv
<1>2. QED BY <1>1, UpgradeKept, PTL

(* Whoever finds the gate open, and every service that runs, finds the     *)
(* registered version, its program, its configuration and the schema it    *)
(* expects (UpgradeTransaction.apply, _rollback and recover).              *)
THEOREM WholeForEveryone == UpgradeSpec => []InstallationIsWhole
<1>1. UpgradeInv => InstallationIsWhole
  BY DEF UpgradeInv, Recorded, Reversible, Whole, Served, InstallationIsWhole, OpenIsWhole
<1>2. QED BY <1>1, UpgradeKept, PTL

(* A transaction that _rollback has recorded as rolled back has put back   *)
(* what was installed when the gate was closed.                            *)
THEOREM RollbackRestores == UpgradeSpec => []RolledBackIsBefore
<1>1. UpgradeInv => RolledBackIsBefore
  BY DEF UpgradeInv, Recorded, AsBefore, RolledBackIsBefore
<1>2. QED BY <1>1, UpgradeKept, PTL

(* restore_snapshot takes no record away that was written with the gate    *)
(* open, or after the journal said that the data are restored.             *)
THEOREM NoSafeRecordLost == UpgradeSpec => []SafeRecordsKept
<1>1. UpgradeInv => SafeRecordsKept
  BY DEF UpgradeInv, Recorded, SafeRecordsKept
<1>2. QED BY <1>1, UpgradeKept, PTL

(* Until the transaction is over there is a program to go back to, in its  *)
(* directory or displaced by _install_program.                             *)
THEOREM AlwaysAWayBack == UpgradeSpec => []WayBack
<1>1. UpgradeInv => WayBack
  <2>1. CASE Terminal(journal)
    BY <2>1 DEF UpgradeInv, Recorded, Whole, WayBack
  <2>2. CASE ~Terminal(journal)
    BY <2>2 DEF UpgradeInv, Recorded, Reversible, ProgramKept, WayBack
  <2>3. QED BY <2>1, <2>2
<1>2. QED BY <1>1, UpgradeKept, PTL

(* Going back by an unfinished journal, whenever recover begins, finds the *)
(* gate it claimed, the data as they were or their backup, with every      *)
(* record that may not be lost, and the very program that was installed.   *)
THEOREM UnfinishedIsReversible == UpgradeSpec => [](~Terminal(journal) => Reversible(journal))
<1>1. UpgradeInv => (~Terminal(journal) => Reversible(journal))
  BY DEF UpgradeInv, Recorded
<1>2. QED BY <1>1, UpgradeKept, PTL
==============================================================================
