------------------------- MODULE DesktopInstallProofs -------------------------
(***************************************************************************)
(* Theorems about DesktopInstall: whatever a pairing, an uninstall, an     *)
(* install or a reinstall is cut short at, and however often, numbers used *)
(* and records made are kept, and what is found belongs together.          *)
(***************************************************************************)
EXTENDS DesktopInstall, FiniteSetTheorems, TLAPS

-----------------------------------------------------------------------------
(* The steps of the updater.                                               *)

PairSteps    == {"pair_gate", "pair_identity", "pair_mark", "pair_env", "pair_done", "pair_open"}
DropSteps    == {"drop_archive", "drop_uninstall", "committed"}
TidySteps    == {"committing", "open"} \cup DropSteps
LateRemoval  == {"service_removed", "archive", "unlink_pointer", "unlink_gate", "uninstalled"}
RemovalSteps == {"stop_service", "removing_task", "remove_task", "removing_service",
                 "remove_service"} \cup LateRemoval
OpeningSteps == {"prepared_initial", "environment", "configure", "before_migrate"}
BackUpSteps  == {"reinstall_gate", "back_up", "migrating"}
MigrateSteps == {"migrate", "finish_migration", "awaiting_health"}
PublishSteps == {"migrated_initial", "automatic", "start", "healthy", "publish"}
RestoreSteps == {"restore_database", "remove_config", "restore_config", "rolled_back"}
UndoSteps    == {"fail_stop", "restoring"} \cup RestoreSteps
InstallSteps == {"initialize", "fail_demand"} \cup OpeningSteps \cup BackUpSteps
                  \cup MigrateSteps \cup PublishSteps \cup UndoSteps
UpdaterSteps == {"idle", "begin", "authorized", "unlink_initial"} \cup PairSteps \cup TidySteps
                  \cup RemovalSteps \cup InstallSteps

(* The types.                                                              *)
Identities  == [epoch : 0 .. MaxEpoch, seq : 0 .. MaxSeq]
Envs        == [dev : Devices, epoch : 1 .. MaxEpoch] \cup {NoEnv, Unpaired}
Bases       == [whole : BOOLEAN, recs : SUBSET (1 .. MaxSaved), rows : [Devices -> Identities],
                open : BOOLEAN]
Pairings    == [phase : {"none", "prepared", "identity_committed", "committed"},
                dev : Devices \cup {"none"}, epoch : 0 .. MaxEpoch, was : Identities, from : Envs]
Pending     == {"authorized", "removing_task", "removing_service", "service_removed"}
Uninstalls  == [phase : {"none", "committed"} \cup Pending, id : Nat]
UnderwayIn  == {"prepared", "migrating", "awaiting_health", "restoring", "rollback_failed",
                "rolled_back"}
Reinstalls  == [phase : {"none", "committing", "committed"} \cup UnderwayIn, ready : BOOLEAN, of : Nat]
FileSets    == [pointer : BOOLEAN, archive : Nat, initial : {"none", "prepared", "migrated"},
                gate : {Free, "pairing", "uninstall", "reinstall"}, env : Envs]
Services    == [start : {"absent", "demand", "auto"}, running : BOOLEAN, task : BOOLEAN]
Purposes    == {"none", "pair", "install", "recover", "uninstall", "publish", "again"}
Updaters    == [at : UpdaterSteps, for : Purposes, guard : BOOLEAN]

Shape ==
  /\ pairing \in Pairings /\ uninst \in Uninstalls /\ reinst \in Reinstalls
  /\ files \in FileSets /\ base \in Bases /\ spare \in [base : Bases, env : Envs]
  /\ winsvc \in Services /\ updater \in Updaters
  /\ spent \in [turns : Nat, epochs : 0 .. MaxEpoch, accidents : Nat]
  /\ issued \cup forgotten \subseteq Devices \X (1 .. MaxEpoch) \X (1 .. MaxSeq)
  /\ pairing.phase # "none" => pairing.dev \in Devices /\ pairing.epoch > 0

(* No epoch is in use that has not been made.                              *)
EpochsMade ==
  /\ pairing.epoch <= spent.epochs /\ files.env.epoch <= spent.epochs
  /\ \A n \in issued : n[2] <= spent.epochs

(* What a database remembers.                                              *)
Remembers(b) ==
  /\ kept \subseteq b.recs
  /\ \A n \in issued : /\ b.rows[n[1]].epoch # 0
                       /\ b.rows[n[1]].epoch = n[2] => b.rows[n[1]].seq >= n[3]
  /\ \A d \in Devices : /\ b.rows[d].epoch <= spent.epochs
                        /\ b.rows[d].epoch = 0 => b.rows[d].seq = 0

(* Until the identity of a pairing is written nothing can have used its    *)
(* epoch, unless that is the one of the device; and the number of the      *)
(* device has not gone back since it was read.                             *)
Pairable(b) ==
  LET row == b.rows[pairing.dev]
  IN pairing.phase \in {"prepared", "identity_committed"} =>
       /\ row = pairing.was /\ pairing.was.epoch # pairing.epoch =>
            \A n \in issued : n[1] = pairing.dev => n[2] # pairing.epoch
       /\ row.epoch = pairing.was.epoch => row.seq >= pairing.was.seq
       /\ pairing.was.epoch # 0 => row.epoch # 0

(* A configuration and a database name the same controller epoch.          *)
Belongs(env, b) ==
  env.dev \in Devices /\ b.rows[env.dev].epoch # 0 => b.rows[env.dev].epoch = env.epoch

Remembered == Remembers(base) /\ Pairable(base)

(* While the backup may be restored it is whole and has what must be kept, *)
(* which cannot become more because the gate is closed.                    *)
Underway == reinst.phase \in UnderwayIn
SpareLive == (Underway /\ reinst.ready) \/ At("migrating")
SpareSound ==
  /\ Remembers(spare.base) /\ Pairable(spare.base) /\ Belongs(spare.env, spare.base)
  /\ spare.base.whole /\ spare.env # NoEnv /\ files.env \in {spare.env, NoEnv}
  /\ files.gate = "reinstall" /\ spare.env.epoch <= spent.epochs
SpareKept ==
  /\ SpareLive => SpareSound
  /\ updater.at \in {"restore_database", "remove_config", "restore_config"} => reinst.ready
  /\ updater.at \in {"remove_config", "restore_config"} => base = spare.base

(* Only a pairing under way may leave configuration and database apart.    *)
Matched ==
  /\ files.gate # "pairing" \/ pairing.phase = "committed" => Belongs(files.env, base)
  /\ pairing.phase = "identity_committed" \/ updater.at \in {"pair_mark", "pair_env", "pair_done"} =>
       files.gate = "pairing" /\ base.rows[pairing.dev] = NextIdentity(pairing)
  /\ At("pair_gate") => files.gate = Free
  /\ At("pair_identity") => files.gate = "pairing"
  /\ At("pair_done") => files.env = NextEnv(pairing)
  /\ At("pair_open") => files.gate \in {Free, "pairing"} /\ pairing.phase = "committed"
  /\ updater.at \in {"pair_gate", "pair_identity", "pair_mark"} =>
       pairing.phase \in {"prepared", "identity_committed"}
  /\ updater.at \in {"pair_env", "pair_done"} => pairing.phase = "identity_committed"

(* The journals, with what is on disk and the service.                     *)
Adopted == uninst.phase = "committed" /\ uninst.id = files.archive
Due ==
  /\ files.pointer /\ reinst.phase \in {"awaiting_health", "committing", "committed"}
  /\ files.archive \in {0, reinst.of}
  /\ uninst.phase = "none" \/ (uninst.phase = "committed" /\ uninst.id = reinst.of)
Whole == base.whole /\ files.env # NoEnv
Torn  == reinst.ready /\ reinst.phase \in {"migrating", "restoring", "rollback_failed"}
ReinstallJournal ==
  /\ Underway => Adopted /\ Preserved /\ reinst.of = files.archive
  /\ reinst.phase = "prepared" => ~reinst.ready
  /\ reinst.phase \in {"migrating", "awaiting_health"} => reinst.ready
  /\ reinst.phase = "committing" => Due
  /\ files.archive <= uninst.id /\ reinst.of <= uninst.id
UninstallJournal ==
  /\ files.gate = "uninstall" => UninstallPending \/ (uninst.phase = "none" /\ files.pointer)
  /\ ~files.pointer => uninst.id = 0 \/ (files.archive = uninst.id /\ uninst.phase # "none")
  /\ winsvc.start = "absent" => UninstallPending \/ ~files.pointer
Service ==
  /\ Whole \/ (~files.pointer /\ (uninst.id = 0 \/ Torn))
  /\ BootIsSafe
  /\ winsvc.running => winsvc.start # "absent"
  /\ updater.guard => ~winsvc.running

(* Where the updater is, and what follows from it.                         *)
Guards ==
  /\ updater.at \in TidySteps \cup OpeningSteps
                     \cup {"begin", "initialize", "healthy", "publish", "unlink_initial"} => ~updater.guard
  /\ updater.at \in BackUpSteps \cup MigrateSteps \cup RestoreSteps \cup {"restoring"} => updater.guard
Tidying ==
  /\ updater.at \in TidySteps \cup {"authorized", "unlink_initial"} => files.pointer
  /\ At("committing") => Due
  /\ updater.at \in DropSteps => reinst.phase = "committing"
  /\ updater.at \in {"drop_uninstall", "committed"} => files.archive = 0
  /\ At("committed") => uninst.phase = "none"
  /\ At("open") => reinst.phase = "committed"
Removing ==
  /\ updater.at \in {"begin", "authorized"} \cup RemovalSteps => reinst.phase # "committing"
  /\ At("authorized") => uninst.phase = "none" /\ files.gate = "uninstall"
  /\ updater.at \in RemovalSteps => UninstallPending /\ files.gate \in {Free, "uninstall"}
  /\ updater.at \in LateRemoval => winsvc.start = "absent"
  /\ updater.at \in {"unlink_pointer", "unlink_gate", "uninstalled"} => files.archive = uninst.id
  /\ updater.at \in {"unlink_gate", "uninstalled"} => ~files.pointer
  /\ At("uninstalled") => files.gate = Free
Installing ==
  /\ updater.at \in InstallSteps => /\ ~files.pointer /\ ~UninstallPending
                                    /\ files.gate \in {Free, "reinstall"}
  /\ updater.at \in InstallSteps \ {"initialize"} /\ Preserved =>
       Adopted /\ (Active => reinst.of = files.archive)
  /\ updater.at \in OpeningSteps \cup BackUpSteps \cup MigrateSteps \cup UndoSteps
                     \cup {"migrated_initial", "automatic"} => winsvc.start = "demand"
  /\ updater.at \in {"start", "healthy", "publish"} => winsvc.start = "auto"
  /\ updater.at \in OpeningSteps /\ Preserved => files.env # NoEnv \/ Torn
  /\ updater.at \in {"configure", "before_migrate"} /\ ~Preserved => files.env # NoEnv
  /\ updater.at \in BackUpSteps \cup UndoSteps => Preserved
  /\ updater.at \in BackUpSteps => reinst.phase \in {"prepared", "rolled_back"}
  /\ updater.at \in {"back_up", "migrating"} => files.gate = "reinstall"
Migrated ==
  /\ updater.at \in MigrateSteps => files.env # NoEnv /\ (Preserved => reinst.phase = "migrating")
  /\ At("awaiting_health") => Whole /\ Preserved
  /\ updater.at \in PublishSteps => Whole /\ (Preserved => reinst.phase = "awaiting_health")
  /\ updater.at \in {"automatic", "start", "healthy", "publish"} => files.initial = "migrated"
Undoing ==
  /\ updater.at \in UndoSteps => Underway
  /\ updater.at \in UndoSteps \ {"fail_stop"} => files.gate = "reinstall"
  /\ updater.at \in RestoreSteps => reinst.phase = "restoring"
  /\ At("rolled_back") => Whole

InstallInv ==
  /\ Shape /\ EpochsMade /\ Remembered /\ SpareKept /\ Matched
  /\ ReinstallJournal /\ UninstallJournal /\ Service
  /\ Guards /\ Tidying /\ Removing /\ Installing /\ Migrated /\ Undoing

-----------------------------------------------------------------------------
(* What a step leaves alone.                                               *)

USE DEF PairSteps, DropSteps, TidySteps, LateRemoval, RemovalSteps, OpeningSteps, BackUpSteps,
        MigrateSteps, PublishSteps, RestoreSteps, UndoSteps, InstallSteps, At, history, Free

(* The updater goes on to a step, or ends.                                 *)
Moved(step) ==
  /\ updater' \in Updaters
  /\ updater'.at = step /\ updater'.guard = updater.guard /\ updater'.for = updater.for
Ended == updater' \in Updaters /\ updater'.at = "idle" /\ ~updater'.guard

LEMMA Moves ==
  ASSUME Shape, NEW step \in UpdaterSteps, Goto(step)
  PROVE  Moved(step)
BY DEF Shape, Updaters, Goto, Moved

LEMMA Ends == ASSUME Done PROVE Ended
BY DEF Done, Resting, Ended, Updaters, UpdaterSteps, Purposes

LEMMA Numbers ==
  ASSUME Shape PROVE uninst.id \in Nat /\ files.archive \in Nat /\ reinst.of \in Nat
BY DEF Shape, Uninstalls, FileSets, Reinstalls

LEMMA Epochs ==
  ASSUME Shape
  PROVE  /\ spent.epochs \in Nat /\ pairing.epoch \in Nat
         /\ NoEnv.epoch = 0 /\ Unpaired.epoch = 0
         /\ NoEnv.dev \notin Devices /\ Unpaired.dev \notin Devices
BY InstallAssumption DEF Shape, Pairings, NoEnv, Unpaired

LEMMA EnvIs ==
  ASSUME Shape
  PROVE  /\ files.env.epoch \in Nat /\ (files.env.dev \in Devices <=> files.env.epoch > 0)
         /\ pairing.dev \in Devices => NextEnv(pairing) # NoEnv
<1>1. NextEnv(pairing).dev = pairing.dev /\ NoEnv.dev \notin Devices
  BY InstallAssumption DEF NextEnv, NoEnv
<1>2. CASE files.env \in {NoEnv, Unpaired}
  BY <1>1, <1>2, InstallAssumption DEF NoEnv, Unpaired
<1>3. CASE files.env \in [dev : Devices, epoch : 1 .. MaxEpoch]
  BY <1>1, <1>3, InstallAssumption
<1>4. QED
  BY <1>2, <1>3 DEF Shape, FileSets, Envs

(* What the database and the history are does not depend on the updater.   *)
DataSame ==
  /\ UNCHANGED <<pairing, kept, issued, forgotten>> /\ spent'.epochs = spent.epochs
  /\ base'.recs = base.recs /\ base'.rows = base.rows

LEMMA DataStays ==
  ASSUME EpochsMade, Remembered, DataSame
  PROVE  Remembered' /\ (files'.env.epoch <= spent.epochs => EpochsMade')
BY DEF EpochsMade, Remembered, Remembers, Pairable, DataSame

LEMMA SpareStays ==
  ASSUME SpareKept, DataSame, spare' = spare,
         SpareLive' => SpareLive /\ files'.gate = "reinstall" /\ files'.env \in {spare.env, NoEnv},
         updater'.at \in RestoreSteps => updater'.at = "rolled_back"
  PROVE  SpareKept'
BY DEF SpareKept, SpareSound, Remembers, Pairable, Belongs, DataSame

LEMMA MatchStays ==
  ASSUME Matched, DataSame, files'.env = files.env, updater'.at \notin PairSteps,
         files'.gate = files.gate \/ "pairing" \notin {files.gate, files'.gate}
  PROVE  Matched'
BY DEF Matched, Belongs, NextIdentity, DataSame

-----------------------------------------------------------------------------
(* The service, beside an updater that rests or works.                     *)

LEMMA JournalsStay ==
  ASSUME ReinstallJournal, UninstallJournal, UNCHANGED <<uninst, reinst, files>>,
         winsvc'.start = winsvc.start
  PROVE  ReinstallJournal' /\ UninstallJournal'
BY DEF ReinstallJournal, UninstallJournal, Underway, Adopted, Preserved, Due, UninstallPending

LEMMA PlaceStays ==
  ASSUME InstallInv, UNCHANGED <<uninst, reinst, files, updater>>,
         winsvc'.start = winsvc.start, base'.whole = base.whole
  PROVE  Guards' /\ Tidying' /\ Removing' /\ Installing' /\ Migrated' /\ Undoing'
<1>1. Guards' /\ Tidying' /\ Removing'
  BY DEF InstallInv, Guards, Tidying, Removing, Due, UninstallPending
<1>2. Installing' /\ Migrated' /\ Undoing'
  BY DEF InstallInv, Installing, Migrated, Undoing, Adopted, Preserved, Active, Underway,
         UninstallPending, Whole, Torn
<1>3. QED
  BY <1>1, <1>2

LEMMA ServiceStays ==
  ASSUME Service, UNCHANGED <<uninst, reinst, files, updater, winsvc>>, base'.whole = base.whole
  PROVE  Service'
BY DEF Service, Whole, Torn, BootIsSafe, Preserved

LEMMA ServiceKeeps == ASSUME InstallInv, ServiceStarts \/ ServiceStops PROVE InstallInv'
<1>1. UNCHANGED <<pairing, uninst, reinst, files, base, spare, updater, kept, issued, forgotten, spent>>
  BY DEF ServiceStarts, ServiceStops, outside
<1>2. /\ winsvc' \in Services /\ winsvc'.start = winsvc.start
      /\ winsvc'.running => winsvc.start # "absent" /\ ~updater.guard
  BY DEF InstallInv, Shape, Services, ServiceStarts, ServiceStops
<1>3. Shape' /\ EpochsMade'
  BY <1>1, <1>2 DEF InstallInv, Shape, EpochsMade
<1>4. Remembered' /\ SpareKept' /\ Matched'
  BY <1>1 DEF InstallInv, Remembered, Remembers, Pairable, SpareKept, SpareLive, SpareSound, Underway,
       Belongs, Matched, NextIdentity, NextEnv
<1>5. ReinstallJournal' /\ UninstallJournal'
  BY <1>1, <1>2, JournalsStay DEF InstallInv
<1>6. Service'
  BY <1>1, <1>2 DEF InstallInv, Service, Whole, Torn, BootIsSafe, Preserved
<1>7. Guards' /\ Tidying' /\ Removing' /\ Installing' /\ Migrated' /\ Undoing'
  BY <1>1, <1>2, PlaceStays
<1>8. QED
  BY <1>3, <1>4, <1>5, <1>6, <1>7 DEF InstallInv

(* The service changes the database, never under an updater that holds the *)
(* Backend mutex.                                                          *)
LEMMA DatabaseKeeps ==
  ASSUME InstallInv, winsvc.running, base' \in Bases, base'.whole = base.whole,
         UNCHANGED <<pairing, uninst, reinst, files, spare, winsvc, updater, spent>>,
         Shape', EpochsMade', Remembered', Matched', SpareLive => SpareSound'
  PROVE  InstallInv'
<1>1. updater.at \notin RestoreSteps
  BY DEF InstallInv, Service, Guards
<1>2. SpareKept'
  BY <1>1 DEF SpareKept, SpareLive, Underway
<1>3. ReinstallJournal' /\ UninstallJournal'
  BY JournalsStay DEF InstallInv
<1>4. Service'
  BY ServiceStays DEF InstallInv
<1>5. Guards' /\ Tidying' /\ Removing' /\ Installing' /\ Migrated' /\ Undoing'
  BY PlaceStays
<1>6. QED
  BY <1>2, <1>3, <1>4, <1>5 DEF InstallInv

LEMMA RowIs ==
  ASSUME base \in Bases, NEW d \in Devices
  PROVE  /\ base.rows[d] \in Identities
         /\ base.rows[d].epoch \in Nat /\ base.rows[d].seq \in Nat
         /\ base.rows[d] = [epoch |-> base.rows[d].epoch, seq |-> base.rows[d].seq]
         /\ \A r \in Identities :
              /\ [base EXCEPT !.rows[d] = r] \in Bases
              /\ [base EXCEPT !.rows[d] = r].rows = [base.rows EXCEPT ![d] = r]
BY InstallAssumption DEF Bases, Identities

LEMMA IdentifiesKeeps == ASSUME InstallInv, Identifies PROVE InstallInv'
<1> DEFINE d == files.env.dev
           r == [epoch |-> files.env.epoch, seq |-> 0]
<1>1. /\ d \in Devices /\ base.rows[d] = NoIdentity /\ winsvc.running
      /\ UNCHANGED <<pairing, uninst, reinst, files, spare, winsvc, updater, kept, issued,
                     forgotten, spent>>
  BY DEF Identifies, Paired, Identity, outside
<1>2. files.env.epoch \in 1 .. MaxEpoch /\ r \in Identities
  BY <1>1, EnvIs, Epochs, InstallAssumption DEF InstallInv, Shape, FileSets, Envs, Identities, NoEnv,
       Unpaired
<1>3. base.rows[d].epoch = 0 /\ base.rows[d].seq = 0 /\ r.epoch = files.env.epoch /\ r.seq = 0
  BY <1>1 DEF NoIdentity
<1>4. /\ base' \in Bases /\ base'.whole = base.whole /\ base'.recs = base.recs
      /\ base'.rows = [base.rows EXCEPT ![d] = r]
  <2>1. [base.rows[d] EXCEPT !.epoch = files.env.epoch] = r
    BY <1>1 DEF NoIdentity
  <2>2. base' = [base EXCEPT !.rows[d] = r]
    BY <2>1 DEF Identifies
  <2>3. base \in Bases
    BY DEF InstallInv, Shape
  <2>4. base' \in Bases /\ base'.rows = [base.rows EXCEPT ![d] = r]
    BY <1>1, <1>2, <2>2, <2>3, RowIs
  <2>5. QED
    BY <2>2, <2>3, <2>4 DEF Bases
<1>5. /\ base'.rows[d] = r
      /\ \A x \in Devices : x # d => base'.rows[x] = base.rows[x]
  BY <1>1, <1>4 DEF InstallInv, Shape, Bases
<1> HIDE DEF d, r
<1>6. Shape' /\ EpochsMade'
  BY <1>1, <1>4 DEF InstallInv, Shape, EpochsMade
<1>7. \A n \in issued : n[1] \in Devices /\ n[1] # d
  BY <1>1, <1>3 DEF InstallInv, Remembered, Remembers, Shape
<1>8. Remembers(base)'
  <2>1. files.env.epoch <= spent.epochs
    BY DEF InstallInv, EpochsMade
  <2>2. QED
    BY <1>1, <1>2, <1>3, <1>4, <1>5, <1>7, <2>1 DEF InstallInv, Remembered, Remembers
<1>9. Pairable(base)'
  BY <1>1, <1>2, <1>3, <1>4, <1>5, <1>7 DEF InstallInv, Remembered, Pairable, Shape
<1>10. Matched'
  <2>1. pairing.phase = "identity_committed" \/ updater.at \in {"pair_mark", "pair_env", "pair_done"} =>
          pairing.dev \in Devices /\ pairing.dev # d
    <3>1. NextIdentity(pairing).epoch = pairing.epoch
      BY DEF NextIdentity
    <3>2. QED
      BY <1>3, <3>1, Epochs DEF InstallInv, Matched, Shape
  <2>2. Belongs(files.env, base)'
    BY <1>1, <1>3, <1>5 DEF Belongs, d
  <2>3. QED
    BY <1>1, <1>5, <2>1, <2>2 DEF InstallInv, Matched, NextIdentity, NextEnv
<1>11. SpareLive => SpareSound'
  BY <1>1 DEF InstallInv, SpareKept, SpareSound, Remembers, Pairable, Belongs
<1>12. QED
  BY <1>1, <1>4, <1>6, <1>8, <1>9, <1>10, <1>11, DatabaseKeeps DEF Remembered

LEMMA SettlesKeeps == ASSUME InstallInv, Settles PROVE InstallInv'
<1>1. /\ winsvc.running
      /\ UNCHANGED <<pairing, uninst, reinst, files, spare, winsvc, updater, kept, issued,
                     forgotten, spent>>
  BY DEF Settles, Linked, outside, history
<1>2. /\ base' \in Bases /\ base'.whole = base.whole /\ base'.recs = base.recs
      /\ base'.rows = base.rows
  BY DEF InstallInv, Shape, Bases, Settles
<1>3. Shape' /\ EpochsMade'
  BY <1>1, <1>2 DEF InstallInv, Shape, EpochsMade
<1>4. Remembered'
  BY <1>1, <1>2, DataStays DEF InstallInv, DataSame
<1>5. Matched'
  BY <1>1, <1>2 DEF InstallInv, Matched, Belongs, NextIdentity, NextEnv
<1>6. SpareLive => SpareSound'
  BY <1>1 DEF InstallInv, SpareKept, SpareSound, Remembers, Pairable, Belongs
<1>7. QED
  BY <1>1, <1>2, <1>3, <1>4, <1>5, <1>6, DatabaseKeeps

LEMMA SavesKeeps == ASSUME InstallInv, Saves PROVE InstallInv'
<1> DEFINE r == Cardinality(base.recs \cup kept) + 1
<1>1. Cardinality(base.recs \cup kept) \in Nat
  <2>1. base.recs \cup kept \subseteq 1 .. MaxSaved
    BY DEF InstallInv, Shape, Bases, Remembered, Remembers
  <2>2. IsFiniteSet(1 .. MaxSaved)
    BY InstallAssumption, FS_Interval
  <2>3. QED
    BY <2>1, <2>2, FS_Subset, FS_CardinalityType
<1>2. /\ winsvc.running /\ r \in 1 .. MaxSaved
      /\ base' = [base EXCEPT !.recs = @ \cup {r}]
      /\ kept' = IF files.gate = Free THEN kept \cup {r} ELSE kept
      /\ UNCHANGED <<pairing, uninst, reinst, files, spare, winsvc, updater, issued, forgotten, spent>>
  BY <1>1, InstallAssumption DEF Saves, outside
<1> HIDE DEF r
<1>3. /\ base' \in Bases /\ base'.whole = base.whole /\ base'.rows = base.rows
      /\ base'.recs = base.recs \cup {r}
  BY <1>2 DEF InstallInv, Shape, Bases
<1>4. Shape' /\ EpochsMade'
  BY <1>2, <1>3 DEF InstallInv, Shape, EpochsMade
<1>5. Remembered'
  BY <1>2, <1>3 DEF InstallInv, Remembered, Remembers, Pairable
<1>6. Matched'
  BY <1>2, <1>3 DEF InstallInv, Matched, Belongs, NextIdentity, NextEnv
<1>7. SpareLive => SpareSound'
  BY <1>2 DEF InstallInv, SpareKept, SpareSound, Remembers, Pairable, Belongs
<1>8. QED
  BY <1>2, <1>3, <1>4, <1>5, <1>6, <1>7, DatabaseKeeps

LEMMA CommandsKeeps == ASSUME InstallInv, Commands PROVE InstallInv'
<1> DEFINE d == files.env.dev
<1>1. /\ d \in Devices /\ winsvc.running /\ files.gate = Free
      /\ base.rows[d].epoch = files.env.epoch
      /\ UNCHANGED <<pairing, uninst, reinst, files, spare, winsvc, updater, kept, forgotten, spent>>
  BY DEF Commands, Linked, Paired, Identity, outside
<1>2. base \in Bases /\ base.rows[d].epoch \in Nat /\ base.rows[d].seq \in Nat
      /\ base.rows[d] = [epoch |-> base.rows[d].epoch, seq |-> base.rows[d].seq]
  BY <1>1, RowIs DEF InstallInv, Shape
<1>3. PICK line \in Waterlines :
        /\ line < MaxSeq
        /\ base' = [base EXCEPT !.rows[d].seq = line + 1, !.open = TRUE]
        /\ issued' = issued \cup {<<d, files.env.epoch, line + 1>>}
  BY DEF Commands
<1> DEFINE r == [epoch |-> base.rows[d].epoch, seq |-> line + 1]
           c == <<d, files.env.epoch, line + 1>>
<1>4. /\ d \in Devices /\ winsvc.running /\ files.gate = Free
      /\ base.rows[d].epoch = files.env.epoch /\ line < MaxSeq
      /\ issued' = issued \cup {c}
      /\ UNCHANGED <<pairing, uninst, reinst, files, spare, winsvc, updater, kept, forgotten, spent>>
  BY <1>1, <1>3
<1>5. line \in Nat /\ line >= base.rows[d].seq
  <2>1. \A n \in issued \cup forgotten : n[3] \in Nat
    BY InstallAssumption DEF InstallInv, Shape
  <2>2. QED
    BY <1>2, <2>1 DEF Waterlines, Identity
<1>6. /\ files.env.epoch \in 1 .. MaxEpoch /\ r \in Identities
      /\ c \in Devices \X (1 .. MaxEpoch) \X (1 .. MaxSeq)
  <2>1. files.env.epoch \in 1 .. MaxEpoch
    BY <1>4, EnvIs, Epochs, InstallAssumption DEF InstallInv, Shape, FileSets, Envs, NoEnv, Unpaired
  <2>2. QED
    BY <1>4, <1>2, <1>5, <2>1, InstallAssumption DEF Identities
<1>7. r.epoch = files.env.epoch /\ r.seq = line + 1 /\ r.seq > base.rows[d].seq
  BY <1>4, <1>2, <1>5
<1>8. /\ base' \in Bases /\ base'.whole = base.whole /\ base'.recs = base.recs
      /\ base'.rows = [base.rows EXCEPT ![d] = r]
  <2>1. [base.rows[d] EXCEPT !.seq = line + 1] = r
    BY <1>2
  <2>2. base' = [base EXCEPT !.rows = [base.rows EXCEPT ![d] = r], !.open = TRUE]
    BY <1>3, <2>1
  <2>3. [base.rows EXCEPT ![d] = r] \in [Devices -> Identities]
    BY <1>4, <1>2, <1>6 DEF Bases
  <2>4. QED
    BY <1>2, <2>2, <2>3 DEF Bases
<1>9. /\ base'.rows[d] = r
      /\ \A x \in Devices : x # d => base'.rows[x] = base.rows[x]
  BY <1>4, <1>2, <1>8 DEF Bases
<1>10. c[1] = d /\ c[2] = files.env.epoch /\ c[3] = line + 1
  OBVIOUS
<1> HIDE DEF d, r, c
<1>11. Shape' /\ EpochsMade'
  <2>1. issued' \cup forgotten' \subseteq Devices \X (1 .. MaxEpoch) \X (1 .. MaxSeq)
    BY <1>4, <1>6 DEF InstallInv, Shape
  <2>2. QED
    BY <1>4, <1>8, <1>10, <2>1 DEF InstallInv, Shape, EpochsMade
<1>12. \A n \in issued : n[1] \in Devices /\ n[2] \in Nat /\ n[3] \in Nat
  BY InstallAssumption DEF InstallInv, Shape
<1>13. \A x \in Devices : base.rows[x].epoch \in Nat /\ base.rows[x].seq \in Nat
  BY <1>2, RowIs
<1>14. Remembers(base)'
  <2>1. \A n \in issued' : /\ base'.rows[n[1]].epoch # 0
                           /\ base'.rows[n[1]].epoch = n[2] => base'.rows[n[1]].seq >= n[3]
    BY <1>4, <1>2, <1>6, <1>7, <1>9, <1>10, <1>12, <1>13 DEF InstallInv, Remembered, Remembers
  <2>2. QED
    BY <1>4, <1>6, <1>7, <1>8, <1>9, <1>13, <2>1 DEF InstallInv, Remembered, Remembers, EpochsMade
<1>15. Pairable(base)'
  <2> SUFFICES ASSUME pairing.phase \in {"prepared", "identity_committed"} PROVE Pairable(base)'
    BY <1>4 DEF Pairable
  <2>1. pairing.dev \in Devices /\ pairing.was.epoch \in Nat /\ pairing.was.seq \in Nat
    BY InstallAssumption DEF InstallInv, Shape, Pairings, Identities
  <2>2. CASE pairing.dev = d
    <3>1. base'.rows[d] # pairing.was
      BY <1>4, <1>2, <1>7, <1>9, <2>1, <2>2 DEF InstallInv, Remembered, Pairable
    <3>2. /\ base.rows[d].epoch = pairing.was.epoch => base.rows[d].seq >= pairing.was.seq
          /\ pairing.was.epoch # 0 => base.rows[d].epoch # 0
      BY <2>2 DEF InstallInv, Remembered, Pairable
    <3>3. /\ base'.rows[d].epoch = base.rows[d].epoch
          /\ base'.rows[d].seq \in Nat /\ base'.rows[d].seq >= base.rows[d].seq
      BY <1>4, <1>2, <1>5, <1>7, <1>9
    <3>4. /\ base'.rows[d].epoch = pairing.was.epoch => base'.rows[d].seq >= pairing.was.seq
          /\ pairing.was.epoch # 0 => base'.rows[d].epoch # 0
      BY <1>2, <2>1, <3>2, <3>3
    <3>5. QED
      BY <1>4, <2>2, <3>1, <3>4 DEF Pairable
  <2>3. CASE pairing.dev # d
    BY <1>4, <1>9, <1>10, <2>1, <2>3 DEF InstallInv, Remembered, Pairable
  <2>4. QED
    BY <2>2, <2>3
<1>16. Matched'
  <2>1. Belongs(files.env, base)'
    BY <1>4, <1>7, <1>9 DEF Belongs, d
  <2>2. QED
    BY <1>4, <2>1 DEF InstallInv, Matched, NextEnv
<1>17. SpareLive => SpareSound'
  BY <1>4 DEF InstallInv, SpareKept, SpareSound
<1>18. QED
  BY <1>4, <1>8, <1>11, <1>14, <1>15, <1>16, <1>17, DatabaseKeeps DEF Remembered

-----------------------------------------------------------------------------
(* Pairing.                                                                *)

(* A step of the updater that changes pairing.json alone.                  *)
LEMMA JournalsKept ==
  ASSUME InstallInv, UNCHANGED <<uninst, reinst, files, base>>, winsvc'.start = winsvc.start,
         winsvc'.running => winsvc.running, updater'.guard => ~winsvc'.running
  PROVE  ReinstallJournal' /\ UninstallJournal' /\ Service'
<1>1. ReinstallJournal' /\ UninstallJournal'
  BY JournalsStay DEF InstallInv
<1>2. Service'
  BY DEF InstallInv, Service, Whole, Torn, BootIsSafe, Preserved
<1>3. QED
  BY <1>1, <1>2

LEMMA PairPlace ==
  ASSUME updater'.at \in PairSteps \cup {"idle"}
  PROVE  Guards' /\ Tidying' /\ Removing' /\ Installing' /\ Migrated' /\ Undoing'
BY DEF Guards, Tidying, Removing, Installing, Migrated, Undoing

LEMMA PairKeeps ==
  ASSUME InstallInv, NEW d \in Devices, NEW given \in 0 .. MaxEpoch, Pair(d, given)
  PROVE  InstallInv'
<1> DEFINE old == base.rows[d]
           epoch == Chosen(d, given)
           again == IF epoch # old.epoch THEN Used(d, epoch) ELSE {}
<1>1. /\ ~winsvc.running /\ files.gate = Free /\ epoch <= MaxEpoch
      /\ pairing' = [phase |-> "prepared", dev |-> d, epoch |-> epoch, was |-> old, from |-> files.env]
      /\ spent' = [spent EXCEPT !.turns = @ + 1, !.epochs = IF epoch > @ THEN epoch ELSE @]
      /\ updater' = [at |-> "pair_gate", for |-> "pair", guard |-> TRUE]
      /\ issued' = issued \ again /\ forgotten' = forgotten \cup again
      /\ UNCHANGED <<uninst, reinst, files, base, spare, winsvc, kept>>
  BY DEF Pair, Exists
<1>2. /\ old \in Identities /\ old.epoch \in Nat /\ old.seq \in Nat
      /\ old = [epoch |-> old.epoch, seq |-> old.seq]
      /\ old.epoch = 0 => old.seq = 0 /\ old = NoIdentity
  BY RowIs DEF InstallInv, Shape, Remembered, Remembers, NoIdentity
<1>3. epoch \in Nat /\ epoch > 0
  <2>1. CASE given # 0
    <3>1. given \in Nat /\ given > 0
      BY <2>1, InstallAssumption
    <3>2. QED
      BY <2>1, <3>1 DEF Chosen
  <2>2. CASE given = 0 /\ old # NoIdentity
    BY <1>2, <2>2 DEF Chosen
  <2>3. CASE given = 0 /\ old = NoIdentity /\ files.env.dev = d
    BY <2>3, EnvIs DEF InstallInv, Chosen
  <2>4. CASE given = 0 /\ old = NoIdentity /\ files.env.dev # d
    BY <2>4, Epochs DEF InstallInv, Chosen
  <2>5. QED
    BY <2>1, <2>2, <2>3, <2>4
<1>4. /\ issued' \subseteq issued /\ forgotten' \subseteq issued \cup forgotten
      /\ epoch # old.epoch => \A n \in issued' : n[1] = d => n[2] # epoch
  BY <1>1 DEF Used
<1> HIDE DEF epoch, old, again
<1>5. /\ pairing'.phase = "prepared" /\ pairing'.dev = d /\ pairing'.epoch = epoch /\ pairing'.was = old
      /\ pairing' \in Pairings
  BY <1>1, <1>2, <1>3, InstallAssumption DEF InstallInv, Shape, Pairings, FileSets
<1>6. /\ spent' \in [turns : Nat, epochs : 0 .. MaxEpoch, accidents : Nat]
      /\ spent'.epochs \in Nat /\ spent.epochs \in Nat
      /\ spent'.epochs >= spent.epochs /\ spent'.epochs >= epoch
  <2> DEFINE e == IF epoch > spent.epochs THEN epoch ELSE spent.epochs
             t == spent.turns + 1
  <2>1. spent.epochs \in 0 .. MaxEpoch /\ spent.turns \in Nat
    BY DEF InstallInv, Shape
  <2>2. e \in 0 .. MaxEpoch /\ e >= spent.epochs /\ e >= epoch /\ t \in Nat
    BY <1>1, <1>3, <2>1, InstallAssumption
  <2>3. spent' = [spent EXCEPT !.turns = t, !.epochs = e]
    BY <1>1
  <2> HIDE DEF e, t
  <2>4. spent \in [turns : Nat, epochs : 0 .. MaxEpoch, accidents : Nat]
    BY DEF InstallInv, Shape
  <2>5. spent' \in [turns : Nat, epochs : 0 .. MaxEpoch, accidents : Nat] /\ spent'.epochs = e
    BY <2>2, <2>3, <2>4
  <2>6. QED
    BY <2>1, <2>2, <2>5, InstallAssumption
<1>7. /\ updater' \in Updaters /\ updater'.at = "pair_gate"
  BY <1>1 DEF Updaters, UpdaterSteps, Purposes
<1>8. Shape'
  BY <1>1, <1>3, <1>5, <1>6, <1>7, <1>4 DEF InstallInv, Shape
<1>9. EpochsMade'
  <2>1. \A n \in issued : n[2] \in Nat
    BY InstallAssumption DEF InstallInv, Shape
  <2>2. QED
    BY <1>1, <1>3, <1>5, <1>6, <1>4, <2>1, EnvIs DEF InstallInv, EpochsMade
<1>10. ASSUME NEW b \in Bases, Remembers(b) PROVE Remembers(b)'
  <2>1. \A x \in Devices : b.rows[x].epoch \in Nat
    BY InstallAssumption DEF Bases, Identities
  <2>2. QED
    BY <1>1, <1>6, <1>10, <1>4, <2>1 DEF Remembers
<1>11. Remembered'
  <2>2. Pairable(base)'
    BY <1>1, <1>2, <1>5, <1>4 DEF Pairable, old
  <2>3. Remembers(base)'
    BY <1>1, <1>10 DEF InstallInv, Remembered, Shape, Remembers
  <2>4. QED
    BY <2>2, <2>3 DEF Remembered
<1>12. SpareKept'
  BY <1>1, <1>7 DEF InstallInv, SpareKept, SpareLive, SpareSound, Underway
<1>13. Matched'
  BY <1>1, <1>5, <1>7 DEF InstallInv, Matched, Belongs
<1>14. ReinstallJournal' /\ UninstallJournal' /\ Service'
  BY <1>1, JournalsKept
<1>15. Guards' /\ Tidying' /\ Removing' /\ Installing' /\ Migrated' /\ Undoing'
  BY <1>7, PairPlace
<1>16. QED
  BY <1>8, <1>9, <1>11, <1>12, <1>13, <1>14, <1>15 DEF InstallInv

LEMMA RecoverPairingKeeps == ASSUME InstallInv, RecoverPairing PROVE InstallInv'
<1>1. /\ ~winsvc.running /\ pairing.phase # "none" /\ files.gate \in {Free, "pairing"}
      /\ updater' \in Updaters /\ updater'.at \in {"pair_open", "pair_gate", "pair_identity"}
      /\ updater'.at = "pair_open" => pairing.phase = "committed"
      /\ updater'.at = "pair_gate" => pairing.phase # "committed" /\ files.gate = Free
      /\ updater'.at = "pair_identity" => pairing.phase # "committed" /\ files.gate = "pairing"
      /\ UNCHANGED <<pairing, uninst, reinst, files, base, spare, winsvc, kept, issued, forgotten>>
  BY DEF RecoverPairing, Exists, Take, Updaters, UpdaterSteps, Purposes
<1>2. spent' \in [turns : Nat, epochs : 0 .. MaxEpoch, accidents : Nat] /\ spent'.epochs = spent.epochs
  BY DEF InstallInv, Shape, RecoverPairing, Take
<1>3. Shape' /\ EpochsMade'
  BY <1>1, <1>2 DEF InstallInv, Shape, EpochsMade
<1>4. Remembered'
  BY <1>1, <1>2, DataStays DEF InstallInv, DataSame
<1>5. SpareKept'
  BY <1>1 DEF InstallInv, SpareKept, SpareLive, SpareSound, Underway
<1>6. Matched'
  BY <1>1 DEF InstallInv, Matched, Belongs, NextIdentity, Shape, Pairings
<1>7. ReinstallJournal' /\ UninstallJournal' /\ Service'
  BY <1>1, JournalsKept
<1>8. Guards' /\ Tidying' /\ Removing' /\ Installing' /\ Migrated' /\ Undoing'
  BY <1>1, PairPlace
<1>9. QED
  BY <1>3, <1>4, <1>5, <1>6, <1>7, <1>8 DEF InstallInv

LEMMA PairIdentityKeeps == ASSUME InstallInv, PairIdentity PROVE InstallInv'
<1>1. /\ At("pair_identity")
      /\ UNCHANGED <<pairing, uninst, reinst, files, spare, winsvc, kept, issued, forgotten, spent>>
  BY DEF PairIdentity
<1>2. /\ ~SpareLive /\ files.gate = "pairing"
      /\ pairing.phase \in {"prepared", "identity_committed"}
      /\ pairing.dev \in Devices /\ pairing.epoch \in Nat /\ pairing.epoch > 0
      /\ pairing.epoch <= spent.epochs
  BY <1>1, Epochs DEF InstallInv, SpareKept, SpareLive, SpareSound, Matched, Shape, EpochsMade
<1>3. CASE Ended /\ base' = base
  <2>1. Shape' /\ EpochsMade'
    BY <1>1, <1>3 DEF InstallInv, Shape, EpochsMade, Ended
  <2>2. Remembered'
    BY <1>1, <1>3, DataStays DEF InstallInv, DataSame
  <2>3. SpareKept' /\ Matched'
    BY <1>1, <1>2, <1>3 DEF InstallInv, SpareKept, SpareLive, Underway, Matched, Belongs, NextIdentity,
         Ended
  <2>4. ReinstallJournal' /\ UninstallJournal' /\ Service'
    BY <1>1, <1>3, JournalsKept DEF Ended
  <2>5. Guards' /\ Tidying' /\ Removing' /\ Installing' /\ Migrated' /\ Undoing'
    BY <1>3, PairPlace DEF Ended
  <2>6. QED
    BY <2>1, <2>2, <2>3, <2>4, <2>5 DEF InstallInv
<1>4. CASE /\ Completable(pairing) /\ Moved("pair_mark")
           /\ base' = [base EXCEPT !.rows[pairing.dev] = NextIdentity(pairing)]
  <2> DEFINE d == pairing.dev
             r == NextIdentity(pairing)
  <2>1. /\ pairing.was \in Identities /\ pairing.was.epoch \in Nat /\ pairing.was.seq \in Nat
    BY InstallAssumption DEF InstallInv, Shape, Pairings, Identities
  <2>2. r.epoch = pairing.epoch
          /\ r.seq = (IF pairing.was.epoch = pairing.epoch THEN pairing.was.seq ELSE 0)
    BY DEF NextIdentity
  <2>3. r \in Identities
    BY <2>1, InstallAssumption DEF NextIdentity, Identities, InstallInv, Shape, Pairings
  <2>4. /\ base' \in Bases /\ base'.whole = base.whole /\ base'.recs = base.recs
        /\ base'.rows = [base.rows EXCEPT ![d] = r]
    <3>1. base \in Bases
      BY DEF InstallInv, Shape
    <3>2. base' \in Bases /\ base'.rows = [base.rows EXCEPT ![d] = r]
      BY <1>2, <1>4, <2>3, <3>1, RowIs
    <3>3. QED
      BY <1>4, <3>1, <3>2 DEF Bases
  <2>5. /\ base'.rows[d] = r
        /\ \A x \in Devices : x # d => base'.rows[x] = base.rows[x]
    BY <1>2, <2>4 DEF InstallInv, Shape, Bases
  <2>6. base.rows[d] \in {pairing.was, r}
    BY <1>4 DEF Completable
  <2> HIDE DEF d, r
  <2>7. Shape' /\ EpochsMade'
    BY <1>1, <1>4, <2>4 DEF InstallInv, Shape, EpochsMade, Moved
  <2>8. \A n \in issued : n[1] \in Devices /\ n[2] \in Nat /\ n[3] \in Nat
    BY InstallAssumption DEF InstallInv, Shape
  <2>9. Remembers(base)'
    <3>1. \A n \in issued : n[1] = d /\ r.epoch = n[2] => r.seq >= n[3]
      BY <1>2, <2>1, <2>2, <2>6, <2>8 DEF InstallInv, Remembered, Remembers, Pairable, d
    <3>2. QED
      BY <1>1, <1>2, <2>2, <2>4, <2>5, <2>8, <3>1 DEF InstallInv, Remembered, Remembers
  <2>10. Pairable(base)'
    BY <1>1, <1>2, <2>1, <2>2, <2>5, <2>6 DEF InstallInv, Remembered, Pairable, d
  <2>11. SpareKept' /\ Matched'
    BY <1>1, <1>2, <1>4, <2>5 DEF InstallInv, SpareKept, SpareLive, Underway, Matched, Belongs,
         NextIdentity,
         Moved, d, r
  <2>12. ReinstallJournal' /\ UninstallJournal'
    BY <1>1, JournalsStay DEF InstallInv
  <2>13. Service'
    BY <1>1, <1>4, <2>4 DEF InstallInv, Service, Whole, Torn, BootIsSafe, Preserved, Moved
  <2>14. Guards' /\ Tidying' /\ Removing' /\ Installing' /\ Migrated' /\ Undoing'
    BY <1>4, PairPlace DEF Moved
  <2>15. QED
    BY <2>7, <2>9, <2>10, <2>11, <2>12, <2>13, <2>14 DEF InstallInv, Remembered
<1>5. QED
  <2>1. Done => Ended
    BY Ends
  <2>2. Goto("pair_mark") => Moved("pair_mark")
    BY Moves DEF InstallInv, UpdaterSteps
  <2>3. QED
    BY <1>3, <1>4, <2>1, <2>2 DEF PairIdentity

LEMMA PairGateKeeps == ASSUME InstallInv, PairGate PROVE InstallInv'
<1>1. /\ At("pair_gate") /\ Moved("pair_identity")
      /\ UNCHANGED <<pairing, uninst, reinst, base, spare, winsvc, kept, issued, forgotten, spent>>
  BY Moves DEF InstallInv, PairGate, UpdaterSteps
<1>2. /\ files' \in FileSets
      /\ files'.pointer = files.pointer /\ files'.archive = files.archive
      /\ files'.initial = files.initial
      /\ files'.gate = "pairing" /\ files'.env = files.env
  BY DEF InstallInv, Shape, FileSets, PairGate, Uninstalls
<1>3. Shape'
  BY <1>1, <1>2 DEF InstallInv, Shape, Moved
<1>4. ~SpareLive
  BY <1>1, <1>2 DEF InstallInv, SpareKept, SpareLive, SpareSound, Matched, Moved
<1>5. EpochsMade' /\ Remembered' /\ SpareKept'
  BY <1>1, <1>2, <1>4, DataStays, SpareStays
     DEF InstallInv, DataSame, EpochsMade, SpareLive, Underway, Moved
<1>6. Matched'
  BY <1>1, <1>2 DEF InstallInv, Matched, Belongs, NextIdentity, Moved
<1>7. ReinstallJournal' /\ UninstallJournal' /\ Service'
  BY <1>1, <1>2, Numbers
     DEF InstallInv, UnderwayIn, ReinstallJournal, UninstallJournal, Service, Underway, Adopted,
         Preserved, Due, UninstallPending, Whole, Torn, BootIsSafe, Tidying, Removing,
         Installing, Migrated, Undoing, Matched, Moved
<1>8. Guards' /\ Tidying' /\ Removing'
  BY <1>1, <1>2 DEF InstallInv, Guards, Tidying, Removing, Due, UninstallPending, Moved
<1>9. Installing' /\ Migrated' /\ Undoing'
  BY <1>1, <1>2
     DEF InstallInv, UnderwayIn, Installing, Migrated, Undoing, Adopted, Preserved, Active,
         Underway, UninstallPending, Whole, Torn, Moved
<1>10. QED
  BY <1>3, <1>4, <1>5, <1>6, <1>7, <1>8, <1>9 DEF InstallInv

LEMMA PairMarkKeeps == ASSUME InstallInv, PairMark PROVE InstallInv'
<1>1. /\ At("pair_mark") /\ Moved("pair_env")
      /\ UNCHANGED <<uninst, reinst, files, base, spare, winsvc, kept, issued, forgotten, spent>>
  BY Moves DEF InstallInv, PairMark, UpdaterSteps
<1>2. /\ pairing' \in Pairings
      /\ pairing'.phase = "identity_committed" /\ pairing'.dev = pairing.dev
      /\ pairing'.epoch = pairing.epoch
      /\ pairing'.was = pairing.was /\ pairing'.from = pairing.from
  BY DEF InstallInv, Shape, Pairings, PairMark
<1>3. Shape'
  BY <1>1, <1>2 DEF InstallInv, Shape, Matched, Moved
<1>4. ~SpareLive
  BY <1>1, <1>2 DEF InstallInv, SpareKept, SpareLive, SpareSound, Matched, Moved
<1>5. EpochsMade' /\ Remembered'
  BY <1>1, <1>2 DEF InstallInv, EpochsMade, Remembered, Remembers, Pairable, Matched, Moved
<1>6. SpareKept' /\ Matched'
  BY <1>1, <1>2, <1>4
     DEF InstallInv, SpareKept, SpareLive, Underway, Matched, Belongs, NextIdentity, Moved
<1>7. ReinstallJournal' /\ UninstallJournal' /\ Service'
  BY <1>1, <1>2, Numbers
     DEF InstallInv, UnderwayIn, ReinstallJournal, UninstallJournal, Service, Underway, Adopted,
         Preserved, Due, UninstallPending, Whole, Torn, BootIsSafe, Tidying, Removing,
         Installing, Migrated, Undoing, Moved
<1>8. Guards' /\ Tidying' /\ Removing'
  BY <1>1, <1>2 DEF InstallInv, Guards, Tidying, Removing, Due, UninstallPending, Moved
<1>9. Installing' /\ Migrated' /\ Undoing'
  BY <1>1, <1>2
     DEF InstallInv, UnderwayIn, Installing, Migrated, Undoing, Adopted, Preserved, Active,
         Underway, UninstallPending, Whole, Torn, Moved
<1>10. QED
  BY <1>3, <1>4, <1>5, <1>6, <1>7, <1>8, <1>9 DEF InstallInv

LEMMA PairEnvKeeps == ASSUME InstallInv, PairEnv PROVE InstallInv'
<1>1. /\ At("pair_env") /\ Moved("pair_done")
      /\ UNCHANGED <<pairing, uninst, reinst, base, spare, winsvc, kept, issued, forgotten, spent>>
  BY Moves DEF InstallInv, PairEnv, UpdaterSteps
<1>2. /\ files' \in FileSets
      /\ files'.pointer = files.pointer /\ files'.archive = files.archive
      /\ files'.initial = files.initial
      /\ files'.gate = files.gate /\ files'.env = NextEnv(pairing)
  BY DEF InstallInv, Shape, FileSets, PairEnv, Uninstalls, Envs, NextEnv, Pairings, Matched
<1>3. Shape'
  BY <1>1, <1>2 DEF InstallInv, Shape, Moved
<1>4. ~SpareLive /\ files'.env # NoEnv
  BY <1>1, <1>2, EnvIs DEF InstallInv, SpareKept, SpareLive, SpareSound, Matched, Shape, Moved
<1>5. EpochsMade' /\ Remembered'
  BY <1>1, <1>2, DataStays DEF InstallInv, DataSame, EpochsMade, NextEnv, Moved
<1>6. SpareKept' /\ Matched'
  BY <1>1, <1>2, <1>4
     DEF InstallInv, SpareKept, SpareLive, Underway, Matched, Belongs, NextIdentity, NextEnv,
         Moved
<1>7. ReinstallJournal' /\ UninstallJournal' /\ Service'
  BY <1>1, <1>2, Numbers, <1>4
     DEF InstallInv, UnderwayIn, ReinstallJournal, UninstallJournal, Service, Underway, Adopted,
         Preserved, Due, UninstallPending, Whole, Torn, BootIsSafe, Tidying, Removing,
         Installing, Migrated, Undoing, Matched, Moved
<1>8. Guards' /\ Tidying' /\ Removing'
  BY <1>1, <1>2 DEF InstallInv, Guards, Tidying, Removing, Due, UninstallPending, Moved
<1>9. Installing' /\ Migrated' /\ Undoing'
  BY <1>1, <1>2
     DEF InstallInv, UnderwayIn, Installing, Migrated, Undoing, Adopted, Preserved, Active,
         Underway, UninstallPending, Whole, Torn, Moved
<1>10. QED
  BY <1>3, <1>4, <1>5, <1>6, <1>7, <1>8, <1>9 DEF InstallInv

LEMMA PairDoneKeeps == ASSUME InstallInv, PairDone PROVE InstallInv'
<1>1. /\ At("pair_done") /\ Moved("pair_open")
      /\ UNCHANGED <<uninst, reinst, files, base, spare, winsvc, kept, issued, forgotten, spent>>
  BY Moves DEF InstallInv, PairDone, UpdaterSteps
<1>2. /\ pairing' \in Pairings
      /\ pairing'.phase = "committed" /\ pairing'.dev = pairing.dev /\ pairing'.epoch = pairing.epoch
      /\ pairing'.was = pairing.was /\ pairing'.from = pairing.from
  BY DEF InstallInv, Shape, Pairings, PairDone
<1>3. Shape'
  BY <1>1, <1>2 DEF InstallInv, Shape, Matched, Moved
<1>4. ~SpareLive
  BY <1>1, <1>2 DEF InstallInv, SpareKept, SpareLive, SpareSound, Matched, Moved
<1>5. EpochsMade' /\ Remembered'
  BY <1>1, <1>2 DEF InstallInv, EpochsMade, Remembered, Remembers, Pairable, Matched, Moved
<1>6. SpareKept' /\ Matched'
  BY <1>1, <1>2, <1>4
     DEF InstallInv, SpareKept, SpareLive, Underway, Matched, Belongs, NextIdentity, NextEnv,
         Moved
<1>7. ReinstallJournal' /\ UninstallJournal' /\ Service'
  BY <1>1, <1>2, Numbers
     DEF InstallInv, UnderwayIn, ReinstallJournal, UninstallJournal, Service, Underway, Adopted,
         Preserved, Due, UninstallPending, Whole, Torn, BootIsSafe, Tidying, Removing,
         Installing, Migrated, Undoing, Moved
<1>8. Guards' /\ Tidying' /\ Removing'
  BY <1>1, <1>2 DEF InstallInv, Guards, Tidying, Removing, Due, UninstallPending, Moved
<1>9. Installing' /\ Migrated' /\ Undoing'
  BY <1>1, <1>2
     DEF InstallInv, UnderwayIn, Installing, Migrated, Undoing, Adopted, Preserved, Active,
         Underway, UninstallPending, Whole, Torn, Moved
<1>10. QED
  BY <1>3, <1>4, <1>5, <1>6, <1>7, <1>8, <1>9 DEF InstallInv

LEMMA PairOpenKeeps == ASSUME InstallInv, PairOpen PROVE InstallInv'
<1>1. /\ At("pair_open") /\ Ended
      /\ UNCHANGED <<pairing, uninst, reinst, base, spare, winsvc, kept, issued, forgotten, spent>>
  BY Ends DEF InstallInv, PairOpen, UpdaterSteps
<1>2. /\ files' \in FileSets
      /\ files'.pointer = files.pointer /\ files'.archive = files.archive
      /\ files'.initial = files.initial
      /\ files'.gate = Free /\ files'.env = files.env
  BY DEF InstallInv, Shape, FileSets, PairOpen, Uninstalls
<1>3. Shape'
  BY <1>1, <1>2 DEF InstallInv, Shape, Ended
<1>4. ~SpareLive
  BY <1>1, <1>2 DEF InstallInv, SpareKept, SpareLive, SpareSound, Matched, Ended
<1>5. EpochsMade' /\ Remembered' /\ SpareKept'
  BY <1>1, <1>2, <1>4, DataStays, SpareStays
     DEF InstallInv, DataSame, EpochsMade, SpareLive, Underway, Ended
<1>6. Matched'
  BY <1>1, <1>2 DEF InstallInv, Matched, Belongs, NextIdentity, Ended
<1>7. ReinstallJournal' /\ UninstallJournal' /\ Service'
  BY <1>1, <1>2, Numbers
     DEF InstallInv, UnderwayIn, ReinstallJournal, UninstallJournal, Service, Underway, Adopted,
         Preserved, Due, UninstallPending, Whole, Torn, BootIsSafe, Tidying, Removing,
         Installing, Migrated, Undoing, Matched, Ended
<1>8. Guards' /\ Tidying' /\ Removing'
  BY <1>1, <1>2 DEF InstallInv, Guards, Tidying, Removing, Due, UninstallPending, Ended
<1>9. Installing' /\ Migrated' /\ Undoing'
  BY <1>1, <1>2
     DEF InstallInv, UnderwayIn, Installing, Migrated, Undoing, Adopted, Preserved, Active,
         Underway, UninstallPending, Whole, Torn, Ended
<1>10. QED
  BY <1>3, <1>4, <1>5, <1>6, <1>7, <1>8, <1>9 DEF InstallInv

-----------------------------------------------------------------------------
(* Tidying.                                                                *)

LEMMA DueIs == ASSUME Shape PROVE TidyDue <=> Due
<1>1. uninst = [phase |-> uninst.phase, id |-> uninst.id]
  BY DEF Shape, Uninstalls
<1>2. QED
  BY <1>1 DEF TidyDue, Due

LEMMA DispatchKeeps ==
  ASSUME InstallInv, NEW purpose \in {"install", "recover", "uninstall"}, Dispatch(purpose)
  PROVE  InstallInv'
<1>1. /\ updater' \in Updaters /\ ~updater'.guard
      /\ \/ updater'.at = "committing" /\ Due
         \/ updater'.at = "begin" /\ ~Due
      /\ spent' \in [turns : Nat, epochs : 0 .. MaxEpoch, accidents : Nat]
      /\ spent'.epochs = spent.epochs
      /\ UNCHANGED <<pairing, uninst, reinst, files, base, spare, winsvc, kept, issued, forgotten>>
  BY DueIs DEF InstallInv, Shape, Dispatch, Take, Updaters, UpdaterSteps, Purposes
<1>2. Shape'
  BY <1>1 DEF InstallInv, Shape
<1>3. EpochsMade' /\ Remembered' /\ SpareKept' /\ Matched'
  BY <1>1, DataStays, SpareStays, MatchStays
     DEF InstallInv, DataSame, SpareLive, Underway, UnderwayIn, Migrated, Removing,
         UninstallPending, ReinstallJournal, Adopted, EpochsMade, SpareKept, SpareSound
<1>4. ReinstallJournal' /\ UninstallJournal' /\ Service'
  BY <1>1, JournalsKept DEF InstallInv, Service
<1>5. Guards' /\ Tidying' /\ Removing'
  BY <1>1 DEF InstallInv, Guards, Tidying, Removing, Due, UninstallPending, ReinstallJournal
<1>6. Installing' /\ Migrated' /\ Undoing'
  BY <1>1
     DEF InstallInv, UnderwayIn, Installing, Migrated, Undoing, Adopted, Preserved, Active,
         Underway, UninstallPending, Whole, Torn
<1>7. QED
  BY <1>2, <1>3, <1>4, <1>5, <1>6 DEF InstallInv

LEMMA CommittingKeeps == ASSUME InstallInv, Committing PROVE InstallInv'
<1>1. /\ At("committing") /\ Moved("drop_archive")
      /\ UNCHANGED <<pairing, uninst, files, base, spare, winsvc, kept, issued, forgotten, spent>>
  BY Moves DEF InstallInv, Committing, UpdaterSteps
<1>2. /\ reinst' \in Reinstalls
      /\ reinst'.phase = "committing" /\ reinst'.ready = reinst.ready /\ reinst'.of = reinst.of
  BY DEF InstallInv, Shape, Reinstalls, Committing, UnderwayIn
<1>3. Shape'
  BY <1>1, <1>2 DEF InstallInv, Shape, Moved
<1>4. EpochsMade' /\ Remembered' /\ SpareKept' /\ Matched'
  BY <1>1, <1>2, DataStays, SpareStays, MatchStays
     DEF InstallInv, DataSame, SpareLive, Underway, UnderwayIn, Migrated, Removing,
         UninstallPending, ReinstallJournal, Adopted, EpochsMade, SpareKept, SpareSound, Moved
<1>5. ReinstallJournal' /\ UninstallJournal' /\ Service'
  BY <1>1, <1>2, Numbers
     DEF InstallInv, UnderwayIn, ReinstallJournal, UninstallJournal, Service, Underway, Adopted,
         Preserved, Due, UninstallPending, Whole, Torn, BootIsSafe, Tidying, Removing,
         Installing, Migrated, Undoing, Moved
<1>6. Guards' /\ Tidying' /\ Removing'
  BY <1>1, <1>2 DEF InstallInv, Guards, Tidying, Removing, Due, UninstallPending, Moved
<1>7. Installing' /\ Migrated' /\ Undoing'
  BY <1>1, <1>2
     DEF InstallInv, UnderwayIn, Installing, Migrated, Undoing, Adopted, Preserved, Active,
         Underway, UninstallPending, Whole, Torn, Moved
<1>8. QED
  BY <1>3, <1>4, <1>5, <1>6, <1>7 DEF InstallInv

LEMMA DropArchiveKeeps == ASSUME InstallInv, DropArchive PROVE InstallInv'
<1>1. /\ At("drop_archive") /\ Moved("drop_uninstall")
      /\ UNCHANGED <<pairing, uninst, reinst, base, spare, winsvc, kept, issued, forgotten, spent>>
  BY Moves DEF InstallInv, DropArchive, UpdaterSteps
<1>2. /\ files' \in FileSets
      /\ files'.pointer = files.pointer /\ files'.archive = 0 /\ files'.initial = files.initial
      /\ files'.gate = files.gate /\ files'.env = files.env
  BY DEF InstallInv, Shape, FileSets, DropArchive, Uninstalls
<1>3. Shape'
  BY <1>1, <1>2 DEF InstallInv, Shape, Moved
<1>4. EpochsMade' /\ Remembered' /\ SpareKept' /\ Matched'
  BY <1>1, <1>2, DataStays, SpareStays, MatchStays
     DEF InstallInv, DataSame, SpareLive, Underway, UnderwayIn, Migrated, Removing,
         UninstallPending, ReinstallJournal, Adopted, EpochsMade, SpareKept, SpareSound, Moved
<1>5. ReinstallJournal' /\ UninstallJournal' /\ Service'
  BY <1>1, <1>2, Numbers
     DEF InstallInv, UnderwayIn, ReinstallJournal, UninstallJournal, Service, Underway, Adopted,
         Preserved, Due, UninstallPending, Whole, Torn, BootIsSafe, Tidying, Removing,
         Installing, Migrated, Undoing, Moved
<1>6. Guards' /\ Tidying' /\ Removing'
  BY <1>1, <1>2 DEF InstallInv, Guards, Tidying, Removing, Due, UninstallPending, Moved
<1>7. Installing' /\ Migrated' /\ Undoing'
  BY <1>1, <1>2
     DEF InstallInv, UnderwayIn, Installing, Migrated, Undoing, Adopted, Preserved, Active,
         Underway, UninstallPending, Whole, Torn, Moved
<1>8. QED
  BY <1>3, <1>4, <1>5, <1>6, <1>7 DEF InstallInv

LEMMA DropUninstallKeeps == ASSUME InstallInv, DropUninstall PROVE InstallInv'
<1>1. /\ At("drop_uninstall") /\ Moved("committed")
      /\ UNCHANGED <<pairing, reinst, files, base, spare, winsvc, kept, issued, forgotten, spent>>
  BY Moves DEF InstallInv, DropUninstall, UpdaterSteps
<1>2. /\ uninst' \in Uninstalls
      /\ uninst'.phase = "none" /\ uninst'.id = uninst.id
  BY DEF InstallInv, Shape, Uninstalls, DropUninstall, Pending
<1>3. Shape'
  BY <1>1, <1>2 DEF InstallInv, Shape, Moved
<1>4. EpochsMade' /\ Remembered' /\ SpareKept' /\ Matched'
  BY <1>1, <1>2, DataStays, SpareStays, MatchStays
     DEF InstallInv, DataSame, SpareLive, Underway, UnderwayIn, Migrated, Removing,
         UninstallPending, ReinstallJournal, Adopted, EpochsMade, SpareKept, SpareSound, Moved
<1>5. ReinstallJournal' /\ UninstallJournal' /\ Service'
  BY <1>1, <1>2, Numbers
     DEF InstallInv, UnderwayIn, ReinstallJournal, UninstallJournal, Service, Underway, Adopted,
         Preserved, Due, UninstallPending, Whole, Torn, BootIsSafe, Tidying, Removing,
         Installing, Migrated, Undoing, Moved
<1>6. Guards' /\ Tidying' /\ Removing'
  BY <1>1, <1>2 DEF InstallInv, Guards, Tidying, Removing, Due, UninstallPending, Moved
<1>7. Installing' /\ Migrated' /\ Undoing'
  BY <1>1, <1>2
     DEF InstallInv, UnderwayIn, Installing, Migrated, Undoing, Adopted, Preserved, Active,
         Underway, UninstallPending, Whole, Torn, Moved
<1>8. QED
  BY <1>3, <1>4, <1>5, <1>6, <1>7 DEF InstallInv

LEMMA CommittedKeeps == ASSUME InstallInv, Committed PROVE InstallInv'
<1>1. /\ At("committed") /\ Moved("open")
      /\ UNCHANGED <<pairing, uninst, files, base, spare, winsvc, kept, issued, forgotten, spent>>
  BY Moves DEF InstallInv, Committed, UpdaterSteps
<1>2. /\ reinst' \in Reinstalls
      /\ reinst'.phase = "committed" /\ reinst'.ready = reinst.ready /\ reinst'.of = reinst.of
  BY DEF InstallInv, Shape, Reinstalls, Committed, UnderwayIn
<1>3. Shape'
  BY <1>1, <1>2 DEF InstallInv, Shape, Moved
<1>4. EpochsMade' /\ Remembered' /\ SpareKept' /\ Matched'
  BY <1>1, <1>2, DataStays, SpareStays, MatchStays
     DEF InstallInv, DataSame, SpareLive, Underway, UnderwayIn, Migrated, Removing,
         UninstallPending, ReinstallJournal, Adopted, EpochsMade, SpareKept, SpareSound, Moved
<1>5. ReinstallJournal' /\ UninstallJournal' /\ Service'
  BY <1>1, <1>2, Numbers
     DEF InstallInv, UnderwayIn, ReinstallJournal, UninstallJournal, Service, Underway, Adopted,
         Preserved, Due, UninstallPending, Whole, Torn, BootIsSafe, Tidying, Removing,
         Installing, Migrated, Undoing, Moved
<1>6. Guards' /\ Tidying' /\ Removing'
  BY <1>1, <1>2 DEF InstallInv, Guards, Tidying, Removing, Due, UninstallPending, Moved
<1>7. Installing' /\ Migrated' /\ Undoing'
  BY <1>1, <1>2
     DEF InstallInv, UnderwayIn, Installing, Migrated, Undoing, Adopted, Preserved, Active,
         Underway, UninstallPending, Whole, Torn, Moved
<1>8. QED
  BY <1>3, <1>4, <1>5, <1>6, <1>7 DEF InstallInv

LEMMA OpenKeeps == ASSUME InstallInv, Open PROVE InstallInv'
<1>1. /\ At("open") /\ updater' \in Updaters /\ updater'.guard = updater.guard
      /\ updater'.at \in {"begin", "unlink_initial"}
      /\ UNCHANGED <<pairing, uninst, reinst, base, spare, winsvc, kept, issued, forgotten, spent>>
  BY DEF InstallInv, Shape, Open, Goto, Updaters, UpdaterSteps, Purposes
<1>2. /\ files' \in FileSets
      /\ files'.pointer = files.pointer /\ files'.archive = files.archive
      /\ files'.initial = files.initial
      /\ files'.gate = (IF files.gate = "reinstall" THEN Free ELSE files.gate) /\ files'.env = files.env
  BY DEF InstallInv, Shape, FileSets, Open, Uninstalls
<1>3. Shape'
  BY <1>1, <1>2 DEF InstallInv, Shape
<1>4. EpochsMade' /\ Remembered' /\ SpareKept' /\ Matched'
  BY <1>1, <1>2, DataStays, SpareStays, MatchStays
     DEF InstallInv, DataSame, SpareLive, Underway, UnderwayIn, Migrated, Removing,
         UninstallPending, ReinstallJournal, Adopted, EpochsMade, SpareKept, SpareSound, Tidying
<1>5. ReinstallJournal' /\ UninstallJournal' /\ Service'
  BY <1>1, <1>2, Numbers
     DEF InstallInv, UnderwayIn, ReinstallJournal, UninstallJournal, Service, Underway, Adopted,
         Preserved, Due, UninstallPending, Whole, Torn, BootIsSafe, Tidying, Removing,
         Installing, Migrated, Undoing
<1>6. Guards' /\ Tidying' /\ Removing'
  BY <1>1, <1>2 DEF InstallInv, Guards, Tidying, Removing, Due, UninstallPending
<1>7. Installing' /\ Migrated' /\ Undoing'
  BY <1>1, <1>2
     DEF InstallInv, UnderwayIn, Installing, Migrated, Undoing, Adopted, Preserved, Active,
         Underway, UninstallPending, Whole, Torn
<1>8. QED
  BY <1>3, <1>4, <1>5, <1>6, <1>7 DEF InstallInv

-----------------------------------------------------------------------------
(* Uninstalling.                                                           *)

LEMMA BeginInstallKeeps == ASSUME InstallInv, BeginInstall PROVE InstallInv'
<1>1. /\ At("begin")
           /\ UNCHANGED <<pairing, uninst, reinst, base, spare, kept, issued, forgotten, spent>>
  BY DEF BeginInstall
<1>2. /\ updater' \in Updaters /\ ~updater'.guard
      /\ \/ updater'.at = "idle"
         \/ /\ updater'.at = "initialize" /\ ~files.pointer /\ ~UninstallPending
            /\ files.gate # "pairing"
  BY <1>1, Ends, Moves
     DEF BeginInstall, Ended, Moved, InstallInv, Guards, UninstallPending, UpdaterSteps
<1>3. /\ files' \in FileSets
      /\ files'.pointer = files.pointer /\ files'.archive = files.archive
      /\ files'.initial = files.initial /\ files'.env = files.env
      /\ files'.gate = (IF ~UninstallPending /\ Abandoned THEN Free ELSE files.gate)
  BY DEF BeginInstall, InstallInv, Shape, FileSets, UninstallPending, Abandoned
<1>4. /\ winsvc' \in Services /\ winsvc'.start = winsvc.start
      /\ winsvc'.running => winsvc.running \/ winsvc.start # "absent"
  <2>1. base.whole \in BOOLEAN
    BY DEF InstallInv, Shape, Bases
  <2>2. \A r \in BOOLEAN : [winsvc EXCEPT !.running = r] \in Services
    BY DEF InstallInv, Shape, Services
  <2>3. (base.whole /\ files.env # NoEnv) \in BOOLEAN
    BY <2>1
  <2>4. winsvc' = winsvc \/ winsvc' = [winsvc EXCEPT !.running = base.whole /\ files.env # NoEnv]
    BY DEF BeginInstall
  <2>5. winsvc' # winsvc => ~UninstallPending /\ files.pointer
    BY DEF BeginInstall, Abandoned, InstallInv, UninstallJournal, UninstallPending
  <2>6. winsvc' \in Services /\ winsvc'.start = winsvc.start
    BY <2>2, <2>3, <2>4 DEF InstallInv, Shape, Services
  <2>7. QED
    BY <2>5, <2>6 DEF InstallInv, UninstallJournal
<1>5. Shape' /\ EpochsMade'
  BY <1>1, <1>2, <1>3, <1>4 DEF InstallInv, Shape, EpochsMade
<1>6. Remembered' /\ SpareKept' /\ Matched'
  BY <1>1, <1>2, <1>3, DataStays, SpareStays, MatchStays
     DEF InstallInv, DataSame, SpareLive, SpareKept, SpareSound, Underway, Abandoned
<1>7. ReinstallJournal' /\ UninstallJournal'
  BY <1>1, <1>3, <1>4
     DEF InstallInv, ReinstallJournal, UninstallJournal, Underway, Adopted, Preserved, Due,
         UninstallPending, Abandoned
<1>8. Service'
  BY <1>1, <1>2, <1>3, <1>4
     DEF InstallInv, Service, UninstallJournal, UninstallPending, Whole, Torn, BootIsSafe,
         Preserved, Abandoned
<1>9. Guards' /\ Tidying' /\ Removing'
  BY <1>2 DEF Guards, Tidying, Removing
<1>10. Installing' /\ Migrated' /\ Undoing'
  BY <1>1, <1>2, <1>3
     DEF InstallInv, UninstallJournal, Shape, FileSets, Installing, Migrated, Undoing,
         UninstallPending, Abandoned
<1>11. QED
  BY <1>5, <1>6, <1>7, <1>8, <1>9, <1>10 DEF InstallInv

LEMMA BeginUninstallKeeps == ASSUME InstallInv, BeginUninstall PROVE InstallInv'
<1>1. /\ At("begin") /\ updater' \in Updaters /\ files' \in FileSets
      /\ \/ updater'.at = "idle" /\ files'.gate = files.gate /\ ~updater'.guard
         \/ /\ updater'.at = "authorized" /\ files'.gate = "uninstall"
            /\ files.pointer /\ uninst.phase = "none"
            /\ files.gate \in {Free, "uninstall"} /\ (updater'.guard => ~winsvc.running)
      /\ UNCHANGED <<pairing, uninst, reinst, base, spare, winsvc, kept, issued, forgotten, spent>>
  <2>1. /\ At("begin")
             /\ UNCHANGED <<pairing, uninst, reinst, base, spare, winsvc, kept, issued, forgotten,
                            spent>>
    BY DEF BeginUninstall
  <2>2. CASE Done /\ UNCHANGED files
    BY <2>1, <2>2, Ends DEF Ended, InstallInv, Shape
  <2>3. CASE /\ files.pointer /\ uninst.phase = "none" /\ files.gate \in {Free, "uninstall"}
             /\ files' = [files EXCEPT !.gate = "uninstall"]
             /\ updater' = [updater EXCEPT !.at = "authorized", !.guard = ~winsvc.running]
    <3>1. updater' \in Updaters /\ updater'.at = "authorized" /\ (updater'.guard => ~winsvc.running)
      BY <2>3 DEF InstallInv, Shape, Updaters, UpdaterSteps
    <3>2. files' \in FileSets /\ files'.gate = "uninstall"
      BY <2>3 DEF InstallInv, Shape, FileSets
    <3>3. QED
      BY <2>1, <2>3, <3>1, <3>2
  <2>4. QED
    BY <2>2, <2>3 DEF BeginUninstall
<1>2. /\ files' \in FileSets
      /\ files'.pointer = files.pointer /\ files'.archive = files.archive
      /\ files'.initial = files.initial
      /\ files'.env = files.env
  BY <1>1 DEF InstallInv, Shape, FileSets, BeginUninstall, Uninstalls
<1>3. Shape'
  BY <1>1, <1>2 DEF InstallInv, Shape
<1>4. EpochsMade' /\ Remembered' /\ SpareKept' /\ Matched'
  BY <1>1, <1>2, DataStays, SpareStays, MatchStays
     DEF InstallInv, DataSame, SpareLive, Underway, UnderwayIn, Migrated, Removing,
         UninstallPending, ReinstallJournal, Adopted, EpochsMade, SpareKept, SpareSound, Matched
<1>5. ReinstallJournal' /\ UninstallJournal' /\ Service'
  BY <1>1, <1>2, Numbers
     DEF InstallInv, UnderwayIn, ReinstallJournal, UninstallJournal, Service, Underway, Adopted,
         Preserved, Due, UninstallPending, Whole, Torn, BootIsSafe, Tidying, Removing,
         Installing, Migrated, Undoing
<1>6. Guards' /\ Tidying' /\ Removing'
  BY <1>1, <1>2 DEF InstallInv, Guards, Tidying, Removing, Due, UninstallPending
<1>7. Installing' /\ Migrated' /\ Undoing'
  BY <1>1, <1>2
     DEF InstallInv, UnderwayIn, Installing, Migrated, Undoing, Adopted, Preserved, Active,
         Underway, UninstallPending, Whole, Torn
<1>8. QED
  BY <1>3, <1>4, <1>5, <1>6, <1>7 DEF InstallInv

LEMMA AuthorizedKeeps == ASSUME InstallInv, Authorized PROVE InstallInv'
<1>1. /\ At("authorized") /\ Moved("stop_service")
      /\ UNCHANGED <<pairing, reinst, files, base, spare, winsvc, kept, issued, forgotten, spent>>
  BY Moves DEF InstallInv, Authorized, UpdaterSteps
<1>2. /\ uninst' \in Uninstalls
      /\ uninst'.phase = "authorized" /\ uninst'.id = uninst.id + 1
  BY DEF InstallInv, Shape, Uninstalls, Authorized, Pending
<1>3. Shape'
  BY <1>1, <1>2 DEF InstallInv, Shape, Moved
<1>4. EpochsMade' /\ Remembered' /\ SpareKept' /\ Matched'
  BY <1>1, <1>2, DataStays, SpareStays, MatchStays
     DEF InstallInv, DataSame, SpareLive, Underway, UnderwayIn, Migrated, Removing,
         UninstallPending, ReinstallJournal, Adopted, EpochsMade, SpareKept, SpareSound, Moved
<1>5. ReinstallJournal' /\ UninstallJournal' /\ Service'
  BY <1>1, <1>2, Numbers
     DEF InstallInv, UnderwayIn, ReinstallJournal, UninstallJournal, Service, Underway, Adopted,
         Preserved, Due, UninstallPending, Whole, Torn, BootIsSafe, Tidying, Removing,
         Installing, Migrated, Undoing, Moved
<1>6. Guards' /\ Tidying' /\ Removing'
  BY <1>1, <1>2 DEF InstallInv, Guards, Tidying, Removing, Due, UninstallPending, Moved
<1>7. Installing' /\ Migrated' /\ Undoing'
  BY <1>1, <1>2
     DEF InstallInv, UnderwayIn, Installing, Migrated, Undoing, Adopted, Preserved, Active,
         Underway, UninstallPending, Whole, Torn, Moved
<1>8. QED
  BY <1>3, <1>4, <1>5, <1>6, <1>7 DEF InstallInv

LEMMA ResumeUninstallKeeps == ASSUME InstallInv, ResumeUninstall PROVE InstallInv'
<1>1. /\ At("begin") /\ updater' \in Updaters /\ (updater'.guard => updater.guard)
      /\ \/ updater'.at = "idle"
         \/ /\ updater'.at \in {"stop_service", "removing_task"}
            /\ UninstallPending /\ files.gate \in {Free, "uninstall"}
      /\ UNCHANGED <<pairing, uninst, reinst, files, base, spare, winsvc, kept, issued, forgotten,
                     spent>>
  BY Moves, Ends DEF InstallInv, ResumeUninstall, Ended, Moved, UpdaterSteps
<1>2. Shape'
  BY <1>1 DEF InstallInv, Shape
<1>3. EpochsMade' /\ Remembered' /\ SpareKept' /\ Matched'
  BY <1>1, DataStays, SpareStays, MatchStays
     DEF InstallInv, DataSame, SpareLive, Underway, UnderwayIn, Migrated, Removing,
         UninstallPending, ReinstallJournal, Adopted, EpochsMade, SpareKept, SpareSound
<1>4. ReinstallJournal' /\ UninstallJournal' /\ Service'
  BY <1>1, JournalsKept DEF InstallInv, Service
<1>5. Guards' /\ Tidying' /\ Removing'
  BY <1>1 DEF InstallInv, Guards, Tidying, Removing, Due, UninstallPending
<1>6. Installing' /\ Migrated' /\ Undoing'
  BY <1>1
     DEF InstallInv, UnderwayIn, Installing, Migrated, Undoing, Adopted, Preserved, Active,
         Underway, UninstallPending, Whole, Torn
<1>7. QED
  BY <1>2, <1>3, <1>4, <1>5, <1>6 DEF InstallInv

LEMMA StopServiceKeeps == ASSUME InstallInv, StopService PROVE InstallInv'
<1>1. /\ At("stop_service") /\ updater' \in Updaters
      /\ winsvc' \in Services /\ winsvc'.start = winsvc.start
      /\ winsvc'.running => winsvc.running
      /\ updater'.guard => ~winsvc'.running
      /\ updater'.at \in {"idle", "removing_task"}
      /\ UNCHANGED <<pairing, uninst, reinst, files, base, spare, kept, issued, forgotten, spent>>
  <2>1. /\ At("stop_service")
        /\ UNCHANGED <<pairing, uninst, reinst, files, base, spare, kept, issued, forgotten, spent>>
    BY DEF StopService
  <2>2. CASE Done /\ UNCHANGED winsvc
    BY <2>1, <2>2, Ends DEF Ended, InstallInv, Shape
  <2>3. CASE /\ winsvc' = [winsvc EXCEPT !.running = FALSE]
             /\ updater' = [updater EXCEPT !.at = "removing_task", !.guard = TRUE]
    <3>1. updater' \in Updaters /\ updater'.at = "removing_task"
      BY <2>3 DEF InstallInv, Shape, Updaters, UpdaterSteps
    <3>2. winsvc' \in Services /\ winsvc'.start = winsvc.start /\ ~winsvc'.running
      BY <2>3 DEF InstallInv, Shape, Services
    <3>3. QED
      BY <2>1, <3>1, <3>2
  <2>4. QED
    BY <2>2, <2>3 DEF StopService
<1>2. Shape'
  BY <1>1 DEF InstallInv, Shape
<1>3. EpochsMade' /\ Remembered' /\ SpareKept' /\ Matched'
  BY <1>1, DataStays, SpareStays, MatchStays
     DEF InstallInv, DataSame, SpareLive, Underway, UnderwayIn, Migrated, Removing,
         UninstallPending, ReinstallJournal, Adopted, EpochsMade, SpareKept, SpareSound
<1>4. ReinstallJournal' /\ UninstallJournal' /\ Service'
  BY <1>1, JournalsKept DEF InstallInv
<1>5. Guards' /\ Tidying' /\ Removing'
  BY <1>1 DEF InstallInv, Guards, Tidying, Removing, Due, UninstallPending
<1>6. Installing' /\ Migrated' /\ Undoing'
  BY <1>1
     DEF InstallInv, UnderwayIn, Installing, Migrated, Undoing, Adopted, Preserved, Active,
         Underway, UninstallPending, Whole, Torn
<1>7. QED
  BY <1>2, <1>3, <1>4, <1>5, <1>6 DEF InstallInv

LEMMA RecordUninstallKeeps ==
  ASSUME InstallInv, NEW phase \in {"removing_task", "removing_service", "service_removed"},
         RecordUninstall(phase)
  PROVE  InstallInv'
<1>1. /\ At(phase) /\ updater' \in Updaters /\ updater'.guard = updater.guard
      /\ phase = "removing_task" => updater'.at = "remove_task"
      /\ phase = "removing_service" => updater'.at = "remove_service"
      /\ phase = "service_removed" => updater'.at = "archive"
      /\ UNCHANGED <<pairing, reinst, files, base, spare, winsvc, kept, issued, forgotten, spent>>
  BY DEF InstallInv, Shape, RecordUninstall, AfterRecord, Goto, Updaters, UpdaterSteps, Purposes
<1>2. /\ uninst' \in Uninstalls
      /\ uninst'.phase = phase /\ uninst'.id = uninst.id
  BY DEF InstallInv, Shape, Uninstalls, RecordUninstall, Pending
<1>3. Shape'
  BY <1>1, <1>2 DEF InstallInv, Shape
<1>4. EpochsMade' /\ Remembered' /\ SpareKept' /\ Matched'
  BY <1>1, <1>2, DataStays, SpareStays, MatchStays
     DEF InstallInv, DataSame, SpareLive, Underway, UnderwayIn, Migrated, Removing,
         UninstallPending, ReinstallJournal, Adopted, EpochsMade, SpareKept, SpareSound
<1>5. ReinstallJournal' /\ UninstallJournal' /\ Service'
  BY <1>1, <1>2, Numbers
     DEF InstallInv, UnderwayIn, ReinstallJournal, UninstallJournal, Service, Underway, Adopted,
         Preserved, Due, UninstallPending, Whole, Torn, BootIsSafe, Tidying, Removing,
         Installing, Migrated, Undoing
<1>6. Guards' /\ Tidying' /\ Removing'
  BY <1>1, <1>2 DEF InstallInv, Guards, Tidying, Removing, Due, UninstallPending
<1>7. Installing' /\ Migrated' /\ Undoing'
  BY <1>1, <1>2
     DEF InstallInv, UnderwayIn, Installing, Migrated, Undoing, Adopted, Preserved, Active,
         Underway, UninstallPending, Whole, Torn
<1>8. QED
  BY <1>3, <1>4, <1>5, <1>6, <1>7 DEF InstallInv

LEMMA RemoveTaskKeeps == ASSUME InstallInv, RemoveTask PROVE InstallInv'
<1>1. /\ At("remove_task") /\ Moved("removing_service")
      /\ UNCHANGED <<pairing, uninst, reinst, files, base, spare, kept, issued, forgotten, spent>>
  BY Moves DEF InstallInv, RemoveTask, UpdaterSteps
<1>2. /\ winsvc' \in Services
      /\ winsvc'.start = winsvc.start /\ winsvc'.running = winsvc.running
  BY DEF InstallInv, Shape, Services, RemoveTask
<1>3. Shape'
  BY <1>1, <1>2 DEF InstallInv, Shape, Moved
<1>4. EpochsMade' /\ Remembered' /\ SpareKept' /\ Matched'
  BY <1>1, <1>2, DataStays, SpareStays, MatchStays
     DEF InstallInv, DataSame, SpareLive, Underway, UnderwayIn, Migrated, Removing,
         UninstallPending, ReinstallJournal, Adopted, EpochsMade, SpareKept, SpareSound, Moved
<1>5. ReinstallJournal' /\ UninstallJournal' /\ Service'
  BY <1>1, <1>2, Numbers
     DEF InstallInv, UnderwayIn, ReinstallJournal, UninstallJournal, Service, Underway, Adopted,
         Preserved, Due, UninstallPending, Whole, Torn, BootIsSafe, Tidying, Removing,
         Installing, Migrated, Undoing, Moved
<1>6. Guards' /\ Tidying' /\ Removing'
  BY <1>1, <1>2 DEF InstallInv, Guards, Tidying, Removing, Due, UninstallPending, Moved
<1>7. Installing' /\ Migrated' /\ Undoing'
  BY <1>1, <1>2
     DEF InstallInv, UnderwayIn, Installing, Migrated, Undoing, Adopted, Preserved, Active,
         Underway, UninstallPending, Whole, Torn, Moved
<1>8. QED
  BY <1>3, <1>4, <1>5, <1>6, <1>7 DEF InstallInv

LEMMA RemoveServiceKeeps == ASSUME InstallInv, RemoveService PROVE InstallInv'
<1>1. /\ At("remove_service") /\ updater' \in Updaters
      /\ winsvc' \in Services /\ winsvc'.start = "absent" /\ ~winsvc'.running
      /\ updater'.at = "service_removed"
      /\ UNCHANGED <<pairing, uninst, reinst, files, base, spare, kept, issued, forgotten, spent>>
  BY Ends DEF InstallInv, Shape, RemoveService, Services, Updaters, UpdaterSteps, Purposes
<1>2. Shape'
  BY <1>1 DEF InstallInv, Shape
<1>3. EpochsMade' /\ Remembered' /\ SpareKept' /\ Matched'
  BY <1>1, DataStays, SpareStays, MatchStays
     DEF InstallInv, DataSame, SpareLive, Underway, UnderwayIn, Migrated, Removing,
         UninstallPending, ReinstallJournal, Adopted, EpochsMade, SpareKept, SpareSound
<1>4. ReinstallJournal' /\ UninstallJournal' /\ Service'
  BY <1>1, Numbers
     DEF InstallInv, UnderwayIn, ReinstallJournal, UninstallJournal, Service, Underway, Adopted,
         Preserved, Due, UninstallPending, Whole, Torn, BootIsSafe, Tidying, Removing,
         Installing, Migrated, Undoing
<1>5. Guards' /\ Tidying' /\ Removing'
  BY <1>1 DEF InstallInv, Guards, Tidying, Removing, Due, UninstallPending
<1>6. Installing' /\ Migrated' /\ Undoing'
  BY <1>1
     DEF InstallInv, UnderwayIn, Installing, Migrated, Undoing, Adopted, Preserved, Active,
         Underway, UninstallPending, Whole, Torn
<1>7. QED
  BY <1>2, <1>3, <1>4, <1>5, <1>6 DEF InstallInv

LEMMA ArchiveStateKeeps == ASSUME InstallInv, ArchiveState PROVE InstallInv'
<1>1. /\ At("archive") /\ Moved("unlink_pointer")
      /\ UNCHANGED <<pairing, uninst, reinst, base, spare, winsvc, kept, issued, forgotten, spent>>
  BY Moves DEF InstallInv, ArchiveState, UpdaterSteps
<1>2. /\ files' \in FileSets
      /\ files'.pointer = files.pointer /\ files'.archive = uninst.id /\ files'.initial = files.initial
      /\ files'.gate = files.gate /\ files'.env = files.env
  BY DEF InstallInv, Shape, FileSets, ArchiveState, Uninstalls
<1>3. Shape'
  BY <1>1, <1>2 DEF InstallInv, Shape, Moved
<1>4. EpochsMade' /\ Remembered' /\ SpareKept' /\ Matched'
  BY <1>1, <1>2, DataStays, SpareStays, MatchStays
     DEF InstallInv, DataSame, SpareLive, Underway, UnderwayIn, Migrated, Removing,
         UninstallPending, ReinstallJournal, Adopted, EpochsMade, SpareKept, SpareSound, Moved
<1>5. ReinstallJournal' /\ UninstallJournal' /\ Service'
  BY <1>1, <1>2, Numbers
     DEF InstallInv, UnderwayIn, ReinstallJournal, UninstallJournal, Service, Underway, Adopted,
         Preserved, Due, UninstallPending, Whole, Torn, BootIsSafe, Tidying, Removing,
         Installing, Migrated, Undoing, Moved
<1>6. Guards' /\ Tidying' /\ Removing'
  BY <1>1, <1>2 DEF InstallInv, Guards, Tidying, Removing, Due, UninstallPending, Moved
<1>7. Installing' /\ Migrated' /\ Undoing'
  BY <1>1, <1>2
     DEF InstallInv, UnderwayIn, Installing, Migrated, Undoing, Adopted, Preserved, Active,
         Underway, UninstallPending, Whole, Torn, Moved
<1>8. QED
  BY <1>3, <1>4, <1>5, <1>6, <1>7 DEF InstallInv

LEMMA UnlinkPointerKeeps == ASSUME InstallInv, UnlinkPointer PROVE InstallInv'
<1>1. /\ At("unlink_pointer") /\ Moved("unlink_gate")
      /\ UNCHANGED <<pairing, uninst, reinst, base, spare, winsvc, kept, issued, forgotten, spent>>
  BY Moves DEF InstallInv, UnlinkPointer, UpdaterSteps
<1>2. /\ files' \in FileSets
      /\ files'.pointer = FALSE /\ files'.archive = files.archive /\ files'.initial = files.initial
      /\ files'.gate = files.gate /\ files'.env = files.env
  BY DEF InstallInv, Shape, FileSets, UnlinkPointer, Uninstalls
<1>3. Shape'
  BY <1>1, <1>2 DEF InstallInv, Shape, Moved
<1>4. EpochsMade' /\ Remembered' /\ SpareKept' /\ Matched'
  BY <1>1, <1>2, DataStays, SpareStays, MatchStays
     DEF InstallInv, DataSame, SpareLive, Underway, UnderwayIn, Migrated, Removing,
         UninstallPending, ReinstallJournal, Adopted, EpochsMade, SpareKept, SpareSound, Moved
<1>5. ReinstallJournal' /\ UninstallJournal' /\ Service'
  BY <1>1, <1>2, Numbers
     DEF InstallInv, UnderwayIn, ReinstallJournal, UninstallJournal, Service, Underway, Adopted,
         Preserved, Due, UninstallPending, Whole, Torn, BootIsSafe, Tidying, Removing,
         Installing, Migrated, Undoing, Moved
<1>6. Guards' /\ Tidying' /\ Removing'
  BY <1>1, <1>2 DEF InstallInv, Guards, Tidying, Removing, Due, UninstallPending, Moved
<1>7. Installing' /\ Migrated' /\ Undoing'
  BY <1>1, <1>2
     DEF InstallInv, UnderwayIn, Installing, Migrated, Undoing, Adopted, Preserved, Active,
         Underway, UninstallPending, Whole, Torn, Moved
<1>8. QED
  BY <1>3, <1>4, <1>5, <1>6, <1>7 DEF InstallInv

LEMMA UnlinkGateKeeps == ASSUME InstallInv, UnlinkGate PROVE InstallInv'
<1>1. /\ At("unlink_gate") /\ Moved("uninstalled")
      /\ UNCHANGED <<pairing, uninst, reinst, base, spare, winsvc, kept, issued, forgotten, spent>>
  BY Moves DEF InstallInv, UnlinkGate, UpdaterSteps
<1>2. /\ files' \in FileSets
      /\ files'.pointer = files.pointer /\ files'.archive = files.archive
      /\ files'.initial = files.initial
      /\ files'.gate = Free /\ files'.env = files.env
  BY DEF InstallInv, Shape, FileSets, UnlinkGate, Uninstalls
<1>3. Shape'
  BY <1>1, <1>2 DEF InstallInv, Shape, Moved
<1>4. EpochsMade' /\ Remembered' /\ SpareKept' /\ Matched'
  BY <1>1, <1>2, DataStays, SpareStays, MatchStays
     DEF InstallInv, DataSame, SpareLive, Underway, UnderwayIn, Migrated, Removing,
         UninstallPending, ReinstallJournal, Adopted, EpochsMade, SpareKept, SpareSound, Moved
<1>5. ReinstallJournal' /\ UninstallJournal' /\ Service'
  BY <1>1, <1>2, Numbers
     DEF InstallInv, UnderwayIn, ReinstallJournal, UninstallJournal, Service, Underway, Adopted,
         Preserved, Due, UninstallPending, Whole, Torn, BootIsSafe, Tidying, Removing,
         Installing, Migrated, Undoing, Moved
<1>6. Guards' /\ Tidying' /\ Removing'
  BY <1>1, <1>2 DEF InstallInv, Guards, Tidying, Removing, Due, UninstallPending, Moved
<1>7. Installing' /\ Migrated' /\ Undoing'
  BY <1>1, <1>2
     DEF InstallInv, UnderwayIn, Installing, Migrated, Undoing, Adopted, Preserved, Active,
         Underway, UninstallPending, Whole, Torn, Moved
<1>8. QED
  BY <1>3, <1>4, <1>5, <1>6, <1>7 DEF InstallInv

LEMMA UninstalledKeeps == ASSUME InstallInv, Uninstalled PROVE InstallInv'
<1>1. /\ At("uninstalled") /\ Ended
      /\ UNCHANGED <<pairing, reinst, files, base, spare, winsvc, kept, issued, forgotten, spent>>
  BY Ends DEF InstallInv, Uninstalled, UpdaterSteps
<1>2. /\ uninst' \in Uninstalls
      /\ uninst'.phase = "committed" /\ uninst'.id = uninst.id
  BY DEF InstallInv, Shape, Uninstalls, Uninstalled, Pending
<1>3. Shape'
  BY <1>1, <1>2 DEF InstallInv, Shape, Ended
<1>4. EpochsMade' /\ Remembered' /\ SpareKept' /\ Matched'
  BY <1>1, <1>2, DataStays, SpareStays, MatchStays
     DEF InstallInv, DataSame, SpareLive, Underway, UnderwayIn, Migrated, Removing,
         UninstallPending, ReinstallJournal, Adopted, EpochsMade, SpareKept, SpareSound, Ended
<1>5. ReinstallJournal' /\ UninstallJournal' /\ Service'
  BY <1>1, <1>2, Numbers
     DEF InstallInv, UnderwayIn, ReinstallJournal, UninstallJournal, Service, Underway, Adopted,
         Preserved, Due, UninstallPending, Whole, Torn, BootIsSafe, Tidying, Removing,
         Installing, Migrated, Undoing, Ended
<1>6. Guards' /\ Tidying' /\ Removing'
  BY <1>1, <1>2 DEF InstallInv, Guards, Tidying, Removing, Due, UninstallPending, Ended
<1>7. Installing' /\ Migrated' /\ Undoing'
  BY <1>1, <1>2
     DEF InstallInv, UnderwayIn, Installing, Migrated, Undoing, Adopted, Preserved, Active,
         Underway, UninstallPending, Whole, Torn, Ended
<1>8. QED
  BY <1>3, <1>4, <1>5, <1>6, <1>7 DEF InstallInv

-----------------------------------------------------------------------------
(* Installing.                                                             *)

LEMMA InitializeKeeps == ASSUME InstallInv, Initialize PROVE InstallInv'
<1>1. /\ At("initialize") /\ updater' \in Updaters /\ ~updater'.guard
      /\ winsvc' \in Services /\ winsvc'.running = winsvc.running
      /\ \/ updater'.at = "idle" /\ winsvc'.start = winsvc.start
         \/ /\ updater'.at = "prepared_initial" /\ winsvc'.start = "demand"
            /\ Preserved => Adoptable
      /\ UNCHANGED <<pairing, uninst, reinst, files, base, spare, kept, issued, forgotten, spent>>
  BY Moves, Ends
     DEF InstallInv, Shape, Initialize, Ended, Moved, Guards, Services, Registered, UpdaterSteps
<1>2. Shape'
  BY <1>1 DEF InstallInv, Shape
<1>3. EpochsMade' /\ Remembered' /\ SpareKept' /\ Matched'
  BY <1>1, DataStays, SpareStays, MatchStays
     DEF InstallInv, DataSame, SpareLive, Underway, UnderwayIn, Migrated, Removing,
         UninstallPending, ReinstallJournal, Adopted, EpochsMade, SpareKept, SpareSound
<1>4. ReinstallJournal' /\ UninstallJournal'
  BY <1>1
     DEF InstallInv, ReinstallJournal, UninstallJournal, Underway, Adopted, Preserved, Due,
         UninstallPending
<1>5. Service'
  BY <1>1 DEF InstallInv, Service, BootIsSafe, Whole, Torn, Preserved
<1>6. Guards' /\ Tidying' /\ Removing'
  BY <1>1 DEF InstallInv, Guards, Tidying, Removing, UpdaterSteps
<1>7. Adoptable => Adopted /\ (Active => reinst.of = files.archive) /\ (files.env # NoEnv \/ Torn)
  BY <1>1 DEF InstallInv, Adoptable, Adopted, Active, Torn, Restoring
<1>8. Installing' /\ Migrated' /\ Undoing'
  BY <1>1, <1>7
     DEF InstallInv, Installing, Migrated, Undoing, UnderwayIn, Adopted, Preserved, Active,
         Underway, UninstallPending, Whole, Torn
<1>9. QED
  BY <1>2, <1>3, <1>4, <1>5, <1>6, <1>7, <1>8 DEF InstallInv

LEMMA PreparedInitialKeeps == ASSUME InstallInv, PreparedInitial PROVE InstallInv'
<1>1. /\ At("prepared_initial") /\ Moved("environment")
      /\ UNCHANGED <<pairing, uninst, reinst, base, spare, winsvc, kept, issued, forgotten, spent>>
  BY Moves DEF InstallInv, PreparedInitial, UpdaterSteps
<1>2. /\ files' \in FileSets
      /\ files'.pointer = files.pointer /\ files'.archive = files.archive /\ files'.initial = "prepared"
      /\ files'.gate = files.gate /\ files'.env = files.env
  BY DEF InstallInv, Shape, FileSets, PreparedInitial, Uninstalls
<1>3. Shape'
  BY <1>1, <1>2 DEF InstallInv, Shape, Moved
<1>4. EpochsMade' /\ Remembered' /\ SpareKept' /\ Matched'
  BY <1>1, <1>2, DataStays, SpareStays, MatchStays
     DEF InstallInv, DataSame, SpareLive, Underway, UnderwayIn, Migrated, Removing,
         UninstallPending, ReinstallJournal, Adopted, EpochsMade, SpareKept, SpareSound, Moved
<1>5. ReinstallJournal' /\ UninstallJournal' /\ Service'
  BY <1>1, <1>2, Numbers
     DEF InstallInv, UnderwayIn, ReinstallJournal, UninstallJournal, Service, Underway, Adopted,
         Preserved, Due, UninstallPending, Whole, Torn, BootIsSafe, Tidying, Removing,
         Installing, Migrated, Undoing, Moved
<1>6. Guards' /\ Tidying' /\ Removing'
  BY <1>1, <1>2 DEF InstallInv, Guards, Tidying, Removing, Due, UninstallPending, Moved
<1>7. Installing' /\ Migrated' /\ Undoing'
  BY <1>1, <1>2
     DEF InstallInv, UnderwayIn, Installing, Migrated, Undoing, Adopted, Preserved, Active,
         Underway, UninstallPending, Whole, Torn, Moved
<1>8. QED
  BY <1>3, <1>4, <1>5, <1>6, <1>7 DEF InstallInv

LEMMA EnvironmentKeeps == ASSUME InstallInv, Environment PROVE InstallInv'
<1>1. /\ At("environment") /\ Moved("configure")
      /\ UNCHANGED <<pairing, uninst, reinst, base, spare, winsvc, kept, issued, forgotten, spent>>
  BY Moves DEF InstallInv, Environment, UpdaterSteps
<1>2. /\ files' \in FileSets
      /\ files'.pointer = files.pointer /\ files'.archive = files.archive
      /\ files'.initial = files.initial
      /\ files'.gate = files.gate
      /\ files'.env = (IF Preserved \/ files.env # NoEnv THEN files.env ELSE Unpaired)
  BY DEF InstallInv, Shape, FileSets, Environment, Uninstalls, Envs
<1>3. Shape'
  BY <1>1, <1>2 DEF InstallInv, Shape, Moved
<1>4. Unpaired # NoEnv
  BY <1>1, <1>2 DEF InstallInv, Unpaired, NoEnv, Moved
<1>5. SpareLive => files'.env = files.env
  BY <1>1, <1>2
     DEF InstallInv, SpareKept, SpareLive, SpareSound, ReinstallJournal, Adopted, Moved
<1>6. EpochsMade' /\ Remembered'
  BY <1>1, <1>2, DataStays, Epochs DEF InstallInv, DataSame, EpochsMade, Moved
<1>7. SpareKept' /\ Matched'
  BY <1>1, <1>2, <1>5, Epochs, SpareStays
     DEF InstallInv, SpareKept, SpareLive, SpareSound, Underway, DataSame, Matched, Belongs,
         NextIdentity, Moved
<1>8. ReinstallJournal' /\ UninstallJournal' /\ Service'
  BY <1>1, <1>2, Numbers, <1>4
     DEF InstallInv, UnderwayIn, ReinstallJournal, UninstallJournal, Service, Underway, Adopted,
         Preserved, Due, UninstallPending, Whole, Torn, BootIsSafe, Tidying, Removing,
         Installing, Migrated, Undoing, Moved
<1>9. Guards' /\ Tidying' /\ Removing'
  BY <1>1, <1>2 DEF InstallInv, Guards, Tidying, Removing, Due, UninstallPending, Moved
<1>10. Installing' /\ Migrated' /\ Undoing'
  BY <1>1, <1>2, <1>4
     DEF InstallInv, Installing, Migrated, Undoing, UnderwayIn, Adopted, Preserved, Active,
         Underway, UninstallPending, Whole, Torn, Moved
<1>11. QED
  BY <1>3, <1>4, <1>5, <1>6, <1>7, <1>8, <1>9, <1>10 DEF InstallInv

LEMMA ConfigureKeeps == ASSUME InstallInv, Configure PROVE InstallInv'
<1>1. /\ At("configure") /\ Moved("before_migrate")
      /\ UNCHANGED <<pairing, uninst, reinst, files, base, spare, kept, issued, forgotten, spent>>
  BY Moves DEF InstallInv, Configure, UpdaterSteps
<1>2. /\ winsvc' \in Services
      /\ winsvc'.start = winsvc.start /\ winsvc'.running = winsvc.running
  BY DEF InstallInv, Shape, Services, Configure
<1>3. Shape'
  BY <1>1, <1>2 DEF InstallInv, Shape, Moved
<1>4. EpochsMade' /\ Remembered' /\ SpareKept' /\ Matched'
  BY <1>1, <1>2, DataStays, SpareStays, MatchStays
     DEF InstallInv, DataSame, SpareLive, Underway, UnderwayIn, Migrated, Removing,
         UninstallPending, ReinstallJournal, Adopted, EpochsMade, SpareKept, SpareSound, Moved
<1>5. ReinstallJournal' /\ UninstallJournal' /\ Service'
  BY <1>1, <1>2, Numbers
     DEF InstallInv, UnderwayIn, ReinstallJournal, UninstallJournal, Service, Underway, Adopted,
         Preserved, Due, UninstallPending, Whole, Torn, BootIsSafe, Tidying, Removing,
         Installing, Migrated, Undoing, Moved
<1>6. Guards' /\ Tidying' /\ Removing'
  BY <1>1, <1>2 DEF InstallInv, Guards, Tidying, Removing, Due, UninstallPending, Moved
<1>7. Installing' /\ Migrated' /\ Undoing'
  BY <1>1, <1>2
     DEF InstallInv, UnderwayIn, Installing, Migrated, Undoing, Adopted, Preserved, Active,
         Underway, UninstallPending, Whole, Torn, Moved
<1>8. QED
  BY <1>3, <1>4, <1>5, <1>6, <1>7 DEF InstallInv

LEMMA BeforeMigrateKeeps == ASSUME InstallInv, BeforeMigrate PROVE InstallInv'
<1>1. /\ At("before_migrate") /\ ~updater.guard /\ winsvc.start = "demand"
      /\ UNCHANGED <<pairing, uninst, base, spare, kept, issued, forgotten, spent>>
  BY DEF BeforeMigrate, InstallInv, Guards, Installing
<1>2. /\ updater' \in Updaters /\ winsvc' \in Services /\ winsvc'.start = winsvc.start
      /\ winsvc'.running => winsvc.running /\ ~updater'.guard
      /\ \/ updater'.at = "migrate" /\ updater'.guard /\ ~Preserved /\ UNCHANGED <<reinst, files>>
         \/ /\ updater'.at = "migrated_initial" /\ Preserved /\ reinst.phase = "awaiting_health"
            /\ ~updater'.guard
            /\ files' = [files EXCEPT !.gate = "reinstall"] /\ UNCHANGED reinst
         \/ /\ updater'.at = "fail_stop" /\ updater'.guard /\ Preserved
            /\ reinst.phase \in {"migrating", "restoring", "rollback_failed"}
                 /\ UNCHANGED <<reinst, files>>
         \/ /\ updater'.at = "reinstall_gate" /\ updater'.guard /\ Preserved /\ UNCHANGED files
            /\ reinst.phase \in {"none", "committed", "prepared", "rolled_back"}
            /\ reinst' = IF Active THEN reinst
                         ELSE [phase |-> "prepared", ready |-> FALSE, of |-> files.archive]
  <2>1. \A step \in UpdaterSteps, p \in Purposes :
          Holding(step, p) => /\ updater' \in Updaters /\ winsvc' \in Services
                              /\ updater'.at = step /\ updater'.guard
                              /\ ~winsvc'.running /\ winsvc'.start = winsvc.start
    <3>1. \A step \in UpdaterSteps, p \in Purposes :
            LET u == [at |-> step, for |-> p, guard |-> TRUE]
            IN u \in Updaters /\ u.at = step /\ u.guard
      BY DEF Updaters
    <3>2. LET w == [winsvc EXCEPT !.running = FALSE]
          IN w \in Services /\ ~w.running /\ w.start = winsvc.start
      BY DEF InstallInv, Shape, Services
    <3>3. QED
      BY <3>1, <3>2 DEF Holding
  <2>2. updater.for \in Purposes /\ "again" \in Purposes
    BY DEF InstallInv, Shape, Updaters, Purposes
  <2>3. {"migrate", "migrated_initial", "fail_stop", "reinstall_gate"} \subseteq UpdaterSteps
    BY DEF UpdaterSteps
  <2>4. CASE ~Preserved /\ Holding("migrate", updater.for) /\ UNCHANGED <<reinst, files>>
    BY <2>1, <2>2, <2>3, <2>4
  <2>5. CASE /\ Preserved /\ reinst.phase = "awaiting_health"
             /\ files' = [files EXCEPT !.gate = "reinstall"]
             /\ Goto("migrated_initial") /\ UNCHANGED <<reinst, winsvc>>
    BY <1>1, <2>3, <2>5, Moves DEF Moved, InstallInv, Shape
  <2>6. CASE /\ Preserved /\ reinst.phase \in {"migrating", "restoring", "rollback_failed"}
             /\ Holding("fail_stop", "again") /\ UNCHANGED <<reinst, files>>
    BY <2>1, <2>2, <2>3, <2>6
  <2>7. CASE /\ Preserved /\ reinst.phase \in {"none", "committed", "prepared", "rolled_back"}
             /\ Holding("reinstall_gate", updater.for)
             /\ reinst' = IF Active THEN reinst
                          ELSE [phase |-> "prepared", ready |-> FALSE, of |-> files.archive]
             /\ UNCHANGED files
    BY <2>1, <2>2, <2>3, <2>7
  <2>8. QED
    BY <2>4, <2>5, <2>6, <2>7 DEF BeforeMigrate
<1>3. /\ files' \in FileSets /\ files'.pointer = files.pointer /\ files'.archive = files.archive
      /\ files'.initial = files.initial /\ files'.env = files.env
      /\ files'.gate = files.gate \/ files'.gate = "reinstall"
  BY <1>2 DEF InstallInv, Shape, FileSets
<1>4. /\ reinst' \in Reinstalls
      /\ \/ reinst' = reinst
         \/ /\ reinst'.phase = "prepared" /\ ~reinst'.ready /\ reinst'.of = files.archive
            /\ reinst.phase \in {"none", "committed"} /\ Adopted /\ Preserved
            /\ updater'.at = "reinstall_gate"
  <2>1. CASE reinst' = reinst
    BY <2>1 DEF InstallInv, Shape
  <2>2. CASE reinst' # reinst
    <3>1. /\ reinst' = [phase |-> "prepared", ready |-> FALSE, of |-> files.archive] /\ ~Active
          /\ updater'.at = "reinstall_gate" /\ Preserved
      BY <1>2, <2>2
    <3>2. reinst' \in Reinstalls
      BY <3>1, Numbers DEF InstallInv, Reinstalls, UnderwayIn
    <3>3. Adopted
      BY <1>1, <3>1 DEF InstallInv, Installing
    <3>4. QED
      BY <3>1, <3>2, <3>3 DEF Active
  <2>3. QED
    BY <2>1, <2>2
<1>5. ~files.pointer /\ ~UninstallPending /\ files.gate \in {Free, "reinstall"}
  BY <1>1 DEF InstallInv, Installing
<1>6. Shape'
  BY <1>1, <1>2, <1>3, <1>4 DEF InstallInv, Shape
<1>7. SpareLive' => SpareLive
  BY <1>2, <1>4 DEF SpareLive, Underway
<1>8. EpochsMade' /\ Remembered' /\ SpareKept' /\ Matched'
  BY <1>1, <1>2, <1>3, <1>5, <1>7, DataStays, SpareStays, MatchStays
     DEF InstallInv, DataSame, EpochsMade, SpareKept, SpareSound
<1>9. ReinstallJournal'
  BY <1>1, <1>3, <1>4, Numbers
     DEF InstallInv, ReinstallJournal, UnderwayIn, Underway, Adopted, Preserved, Due
<1>10. UninstallJournal'
  BY <1>1, <1>2, <1>3, <1>5 DEF InstallInv, UninstallJournal, UninstallPending
<1>11. Service'
  BY <1>1, <1>2, <1>3, <1>4 DEF InstallInv, Service, Whole, Torn, BootIsSafe, Preserved
<1>12. Guards' /\ Tidying' /\ Removing'
  BY <1>2 DEF Guards, Tidying, Removing
<1>13. Preserved => Adopted /\ (Active => reinst.of = files.archive) /\ (files.env # NoEnv \/ Torn)
  BY <1>1 DEF InstallInv, Installing
<1>14. ~Preserved => files.env # NoEnv
  BY <1>1 DEF InstallInv, Installing
<1>15. Installing'
  BY <1>1, <1>2, <1>3, <1>4, <1>5, <1>13, Numbers
     DEF InstallInv, Installing, Adopted, Preserved, Active, UninstallPending
<1>16. Migrated' /\ Undoing'
  <2>1. reinst.phase = "awaiting_health" => Whole
    BY Numbers
       DEF InstallInv, ReinstallJournal, Underway, UnderwayIn, Service, Whole, Torn, Adopted, Preserved
  <2>2. QED
    BY <1>1, <1>2, <1>3, <1>4, <1>13, <1>14, <2>1
       DEF Migrated, Undoing, Whole, Underway, UnderwayIn, Preserved
<1>17. QED
  BY <1>6, <1>8, <1>9, <1>10, <1>11, <1>12, <1>15, <1>16 DEF InstallInv

LEMMA ReinstallGateKeeps == ASSUME InstallInv, ReinstallGate PROVE InstallInv'
<1>1. /\ At("reinstall_gate") /\ Moved("back_up")
      /\ UNCHANGED <<pairing, uninst, reinst, base, spare, winsvc, kept, issued, forgotten, spent>>
  BY Moves DEF InstallInv, ReinstallGate, UpdaterSteps
<1>2. /\ files' \in FileSets
      /\ files'.pointer = files.pointer /\ files'.archive = files.archive
      /\ files'.initial = files.initial
      /\ files'.gate = "reinstall" /\ files'.env = files.env
  BY DEF InstallInv, Shape, FileSets, ReinstallGate, Uninstalls
<1>3. Shape'
  BY <1>1, <1>2 DEF InstallInv, Shape, Moved
<1>4. EpochsMade' /\ Remembered' /\ SpareKept' /\ Matched'
  BY <1>1, <1>2, DataStays, SpareStays, MatchStays
     DEF InstallInv, DataSame, SpareLive, Underway, UnderwayIn, Migrated, Removing,
         UninstallPending, ReinstallJournal, Adopted, EpochsMade, SpareKept, SpareSound,
         Installing, Moved
<1>5. ReinstallJournal' /\ UninstallJournal' /\ Service'
  BY <1>1, <1>2, Numbers
     DEF InstallInv, UnderwayIn, ReinstallJournal, UninstallJournal, Service, Underway, Adopted,
         Preserved, Due, UninstallPending, Whole, Torn, BootIsSafe, Tidying, Removing,
         Installing, Migrated, Undoing, Moved
<1>6. Guards' /\ Tidying' /\ Removing'
  BY <1>1, <1>2 DEF InstallInv, Guards, Tidying, Removing, Due, UninstallPending, Moved
<1>7. Installing' /\ Migrated' /\ Undoing'
  BY <1>1, <1>2
     DEF InstallInv, UnderwayIn, Installing, Migrated, Undoing, Adopted, Preserved, Active,
         Underway, UninstallPending, Whole, Torn, ReinstallJournal, Moved
<1>8. QED
  BY <1>3, <1>4, <1>5, <1>6, <1>7 DEF InstallInv

LEMMA BackUpKeeps == ASSUME InstallInv, BackUp PROVE InstallInv'
<1>1. /\ At("back_up") /\ Moved("migrating")
      /\ UNCHANGED <<pairing, uninst, reinst, files, base, winsvc, kept, issued, forgotten, spent>>
  BY Moves DEF InstallInv, BackUp, UpdaterSteps
<1>2. spare' = IF reinst.ready THEN spare ELSE [base |-> base, env |-> files.env]
  BY DEF BackUp
<1>3. /\ files.gate = "reinstall" /\ Preserved /\ updater.guard /\ Adopted
      /\ reinst.phase \in {"prepared", "rolled_back"} /\ reinst.of = files.archive
  BY <1>1 DEF InstallInv, Guards, Installing, Active
<1>4. Whole
  BY <1>3, Numbers DEF InstallInv, Service, Torn, Preserved, Adopted
<1>5. Shape'
  BY <1>1, <1>2 DEF InstallInv, Shape, Moved, FileSets
<1>6. EpochsMade' /\ Remembered' /\ Matched'
  BY <1>1, DataStays, MatchStays DEF InstallInv, DataSame, EpochsMade, Moved
<1>7. SpareSound'
  <2>1. CASE reinst.ready
    BY <1>1, <1>2, <1>3, <2>1
       DEF InstallInv, SpareKept, SpareLive, SpareSound, Underway, UnderwayIn, Remembers,
           Pairable, Belongs
  <2>2. CASE ~reinst.ready
    <3>1. spare'.base = base /\ spare'.env = files.env
      BY <1>2, <2>2
    <3>2. QED
      BY <1>1, <1>3, <1>4, <3>1
         DEF InstallInv, SpareSound, Remembered, Remembers, Pairable, Matched, Belongs, Whole,
             EpochsMade
  <2>3. QED
    BY <2>1, <2>2
<1>8. SpareKept'
  BY <1>1, <1>7 DEF SpareKept, Moved
<1>9. ReinstallJournal' /\ UninstallJournal'
  BY <1>1, JournalsStay DEF InstallInv
<1>10. Service'
  BY <1>1 DEF InstallInv, Service, Whole, Torn, BootIsSafe, Preserved, Moved
<1>11. Guards' /\ Tidying' /\ Removing'
  BY <1>1, <1>3 DEF Guards, Tidying, Removing, Moved
<1>12. Installing' /\ Migrated' /\ Undoing'
  BY <1>1, <1>3
     DEF InstallInv, Installing, Migrated, Undoing, Adopted, Preserved, Active, UninstallPending, Moved
<1>13. QED
  BY <1>5, <1>6, <1>8, <1>9, <1>10, <1>11, <1>12 DEF InstallInv

LEMMA MigratingKeeps == ASSUME InstallInv, Migrating PROVE InstallInv'
<1>1. /\ At("migrating") /\ Moved("migrate")
      /\ UNCHANGED <<pairing, uninst, files, base, spare, winsvc, kept, issued, forgotten, spent>>
  BY Moves DEF InstallInv, Migrating, UpdaterSteps
<1>2. /\ reinst' \in Reinstalls
      /\ reinst'.phase = "migrating" /\ reinst'.ready = TRUE /\ reinst'.of = reinst.of
  BY DEF InstallInv, Shape, Reinstalls, Migrating, UnderwayIn
<1>3. Shape'
  BY <1>1, <1>2 DEF InstallInv, Shape, Moved
<1>4. EpochsMade' /\ Remembered' /\ SpareKept' /\ Matched'
  BY <1>1, <1>2, DataStays, SpareStays, MatchStays
     DEF InstallInv, DataSame, SpareLive, Underway, UnderwayIn, Migrated, Removing,
         UninstallPending, ReinstallJournal, Adopted, EpochsMade, SpareKept, SpareSound, Moved
<1>5. ReinstallJournal' /\ UninstallJournal' /\ Service'
  BY <1>1, <1>2, Numbers
     DEF InstallInv, UnderwayIn, ReinstallJournal, UninstallJournal, Service, Underway, Adopted,
         Preserved, Due, UninstallPending, Whole, Torn, BootIsSafe, Tidying, Removing,
         Installing, Migrated, Undoing, Moved
<1>6. Guards' /\ Tidying' /\ Removing'
  BY <1>1, <1>2 DEF InstallInv, Guards, Tidying, Removing, Due, UninstallPending, Moved
<1>7. Installing' /\ Migrated' /\ Undoing'
  BY <1>1, <1>2
     DEF InstallInv, UnderwayIn, Installing, Migrated, Undoing, Adopted, Preserved, Active,
         Underway, UninstallPending, Whole, Torn, Service, ReinstallJournal, Moved
<1>8. QED
  BY <1>3, <1>4, <1>5, <1>6, <1>7 DEF InstallInv

LEMMA MigrateKeeps == ASSUME InstallInv, Migrate PROVE InstallInv'
<1>1. /\ At("migrate") /\ Moved("finish_migration")
      /\ UNCHANGED <<pairing, uninst, reinst, files, spare, winsvc, kept, issued, forgotten, spent>>
  BY Moves DEF InstallInv, Migrate, UpdaterSteps
<1>2. /\ base' \in Bases
      /\ base'.recs = base.recs /\ base'.rows = base.rows
  BY DEF InstallInv, Shape, Bases, Migrate
<1>3. Shape'
  BY <1>1, <1>2 DEF InstallInv, Shape, Moved
<1>4. EpochsMade' /\ Remembered' /\ SpareKept' /\ Matched'
  BY <1>1, <1>2, DataStays, SpareStays, MatchStays
     DEF InstallInv, DataSame, SpareLive, Underway, UnderwayIn, Migrated, Removing,
         UninstallPending, ReinstallJournal, Adopted, EpochsMade, SpareKept, SpareSound, Moved
<1>5. ReinstallJournal' /\ UninstallJournal' /\ Service'
  BY <1>1, <1>2, Numbers
     DEF InstallInv, UnderwayIn, ReinstallJournal, UninstallJournal, Service, Underway, Adopted,
         Preserved, Due, UninstallPending, Whole, Torn, BootIsSafe, Tidying, Removing,
         Installing, Migrated, Undoing, Moved
<1>6. Guards' /\ Tidying' /\ Removing'
  BY <1>1, <1>2 DEF InstallInv, Guards, Tidying, Removing, Due, UninstallPending, Moved
<1>7. Installing' /\ Migrated' /\ Undoing'
  BY <1>1, <1>2
     DEF InstallInv, UnderwayIn, Installing, Migrated, Undoing, Adopted, Preserved, Active,
         Underway, UninstallPending, Whole, Torn, Moved
<1>8. QED
  BY <1>3, <1>4, <1>5, <1>6, <1>7 DEF InstallInv

LEMMA FinishMigrationKeeps == ASSUME InstallInv, FinishMigration PROVE InstallInv'
<1>1. /\ At("finish_migration") /\ updater' \in Updaters /\ updater'.guard = updater.guard
      /\ \/ updater'.at = "awaiting_health" /\ Preserved
         \/ updater'.at = "migrated_initial" /\ ~Preserved
      /\ UNCHANGED <<pairing, uninst, reinst, files, spare, winsvc, kept, issued, forgotten, spent>>
  BY Moves DEF InstallInv, Shape, FinishMigration, Moved, UpdaterSteps
<1>2. /\ base' \in Bases
      /\ base'.whole = TRUE /\ base'.recs = base.recs /\ base'.rows = base.rows
  BY DEF InstallInv, Shape, Bases, FinishMigration
<1>3. Shape'
  BY <1>1, <1>2 DEF InstallInv, Shape
<1>4. EpochsMade' /\ Remembered' /\ SpareKept' /\ Matched'
  BY <1>1, <1>2, DataStays, SpareStays, MatchStays
     DEF InstallInv, DataSame, SpareLive, Underway, UnderwayIn, Migrated, Removing,
         UninstallPending, ReinstallJournal, Adopted, EpochsMade, SpareKept, SpareSound
<1>5. ReinstallJournal' /\ UninstallJournal' /\ Service'
  BY <1>1, <1>2, Numbers
     DEF InstallInv, UnderwayIn, ReinstallJournal, UninstallJournal, Service, Underway, Adopted,
         Preserved, Due, UninstallPending, Whole, Torn, BootIsSafe, Tidying, Removing,
         Installing, Migrated, Undoing
<1>6. Guards' /\ Tidying' /\ Removing'
  BY <1>1, <1>2 DEF InstallInv, Guards, Tidying, Removing, Due, UninstallPending
<1>7. Installing' /\ Migrated' /\ Undoing'
  BY <1>1, <1>2
     DEF InstallInv, UnderwayIn, Installing, Migrated, Undoing, Adopted, Preserved, Active,
         Underway, UninstallPending, Whole, Torn
<1>8. QED
  BY <1>3, <1>4, <1>5, <1>6, <1>7 DEF InstallInv

LEMMA AwaitingHealthKeeps == ASSUME InstallInv, AwaitingHealth PROVE InstallInv'
<1>1. /\ At("awaiting_health") /\ Moved("migrated_initial")
      /\ UNCHANGED <<pairing, uninst, files, base, spare, winsvc, kept, issued, forgotten, spent>>
  BY Moves DEF InstallInv, AwaitingHealth, UpdaterSteps
<1>2. /\ reinst' \in Reinstalls
      /\ reinst'.phase = "awaiting_health" /\ reinst'.ready = reinst.ready /\ reinst'.of = reinst.of
  BY DEF InstallInv, Shape, Reinstalls, AwaitingHealth, UnderwayIn
<1>3. Shape'
  BY <1>1, <1>2 DEF InstallInv, Shape, Moved
<1>4. EpochsMade' /\ Remembered' /\ SpareKept' /\ Matched'
  BY <1>1, <1>2, DataStays, SpareStays, MatchStays
     DEF InstallInv, DataSame, SpareLive, Underway, UnderwayIn, Migrated, Removing,
         UninstallPending, ReinstallJournal, Adopted, EpochsMade, SpareKept, SpareSound, Moved
<1>5. ReinstallJournal' /\ UninstallJournal' /\ Service'
  BY <1>1, <1>2, Numbers
     DEF InstallInv, UnderwayIn, ReinstallJournal, UninstallJournal, Service, Underway, Adopted,
         Preserved, Due, UninstallPending, Whole, Torn, BootIsSafe, Tidying, Removing,
         Installing, Migrated, Undoing, Moved
<1>6. Guards' /\ Tidying' /\ Removing'
  BY <1>1, <1>2 DEF InstallInv, Guards, Tidying, Removing, Due, UninstallPending, Moved
<1>7. Installing' /\ Migrated' /\ Undoing'
  BY <1>1, <1>2
     DEF InstallInv, UnderwayIn, Installing, Migrated, Undoing, Adopted, Preserved, Active,
         Underway, UninstallPending, Whole, Torn, Moved
<1>8. QED
  BY <1>3, <1>4, <1>5, <1>6, <1>7 DEF InstallInv

LEMMA MigratedInitialKeeps == ASSUME InstallInv, MigratedInitial PROVE InstallInv'
<1>1. /\ At("migrated_initial") /\ Moved("automatic")
      /\ UNCHANGED <<pairing, uninst, reinst, base, spare, winsvc, kept, issued, forgotten, spent>>
  BY Moves DEF InstallInv, MigratedInitial, UpdaterSteps
<1>2. /\ files' \in FileSets
      /\ files'.pointer = files.pointer /\ files'.archive = files.archive /\ files'.initial = "migrated"
      /\ files'.gate = files.gate /\ files'.env = files.env
  BY DEF InstallInv, Shape, FileSets, MigratedInitial, Uninstalls
<1>3. Shape'
  BY <1>1, <1>2 DEF InstallInv, Shape, Moved
<1>4. EpochsMade' /\ Remembered' /\ SpareKept' /\ Matched'
  BY <1>1, <1>2, DataStays, SpareStays, MatchStays
     DEF InstallInv, DataSame, SpareLive, Underway, UnderwayIn, Migrated, Removing,
         UninstallPending, ReinstallJournal, Adopted, EpochsMade, SpareKept, SpareSound, Moved
<1>5. ReinstallJournal' /\ UninstallJournal' /\ Service'
  BY <1>1, <1>2, Numbers
     DEF InstallInv, UnderwayIn, ReinstallJournal, UninstallJournal, Service, Underway, Adopted,
         Preserved, Due, UninstallPending, Whole, Torn, BootIsSafe, Tidying, Removing,
         Installing, Migrated, Undoing, Moved
<1>6. Guards' /\ Tidying' /\ Removing'
  BY <1>1, <1>2 DEF InstallInv, Guards, Tidying, Removing, Due, UninstallPending, Moved
<1>7. Installing' /\ Migrated' /\ Undoing'
  BY <1>1, <1>2
     DEF InstallInv, UnderwayIn, Installing, Migrated, Undoing, Adopted, Preserved, Active,
         Underway, UninstallPending, Whole, Torn, Moved
<1>8. QED
  BY <1>3, <1>4, <1>5, <1>6, <1>7 DEF InstallInv

LEMMA AutomaticKeeps == ASSUME InstallInv, Automatic PROVE InstallInv'
<1>1. /\ At("automatic") /\ Moved("start")
      /\ UNCHANGED <<pairing, uninst, reinst, files, base, spare, kept, issued, forgotten, spent>>
  BY Moves DEF InstallInv, Automatic, UpdaterSteps
<1>2. /\ winsvc' \in Services
      /\ winsvc'.start = "auto" /\ winsvc'.running = winsvc.running
  BY DEF InstallInv, Shape, Services, Automatic
<1>3. Shape'
  BY <1>1, <1>2 DEF InstallInv, Shape, Moved
<1>4. EpochsMade' /\ Remembered' /\ SpareKept' /\ Matched'
  BY <1>1, <1>2, DataStays, SpareStays, MatchStays
     DEF InstallInv, DataSame, SpareLive, Underway, UnderwayIn, Migrated, Removing,
         UninstallPending, ReinstallJournal, Adopted, EpochsMade, SpareKept, SpareSound, Moved
<1>5. ReinstallJournal' /\ UninstallJournal' /\ Service'
  BY <1>1, <1>2, Numbers
     DEF InstallInv, UnderwayIn, ReinstallJournal, UninstallJournal, Service, Underway, Adopted,
         Preserved, Due, UninstallPending, Whole, Torn, BootIsSafe, Tidying, Removing,
         Installing, Migrated, Undoing, SpareKept, SpareLive, SpareSound, Moved
<1>6. Guards' /\ Tidying' /\ Removing'
  BY <1>1, <1>2 DEF InstallInv, Guards, Tidying, Removing, Due, UninstallPending, Moved
<1>7. Installing' /\ Migrated' /\ Undoing'
  BY <1>1, <1>2
     DEF InstallInv, UnderwayIn, Installing, Migrated, Undoing, Adopted, Preserved, Active,
         Underway, UninstallPending, Whole, Torn, Moved
<1>8. QED
  BY <1>3, <1>4, <1>5, <1>6, <1>7 DEF InstallInv

LEMMA StartKeeps == ASSUME InstallInv, Start PROVE InstallInv'
<1>1. /\ At("start") /\ updater' \in Updaters
      /\ updater'.at = "healthy" /\ ~updater'.guard
      /\ UNCHANGED <<pairing, uninst, reinst, files, base, spare, kept, issued, forgotten, spent>>
  BY DEF InstallInv, Shape, Start, Updaters, UpdaterSteps, Purposes
<1>2. /\ winsvc' \in Services
      /\ winsvc'.start = winsvc.start /\ winsvc'.running = TRUE
  BY DEF InstallInv, Shape, Services, Start
<1>3. Shape'
  BY <1>1, <1>2 DEF InstallInv, Shape
<1>4. EpochsMade' /\ Remembered' /\ SpareKept' /\ Matched'
  BY <1>1, <1>2, DataStays, SpareStays, MatchStays
     DEF InstallInv, DataSame, SpareLive, Underway, UnderwayIn, Migrated, Removing,
         UninstallPending, ReinstallJournal, Adopted, EpochsMade, SpareKept, SpareSound
<1>5. ReinstallJournal' /\ UninstallJournal' /\ Service'
  BY <1>1, <1>2, Numbers
     DEF InstallInv, UnderwayIn, ReinstallJournal, UninstallJournal, Service, Underway, Adopted,
         Preserved, Due, UninstallPending, Whole, Torn, BootIsSafe, Tidying, Removing,
         Installing, Migrated, Undoing
<1>6. Guards' /\ Tidying' /\ Removing'
  BY <1>1, <1>2 DEF InstallInv, Guards, Tidying, Removing, Due, UninstallPending
<1>7. Installing' /\ Migrated' /\ Undoing'
  BY <1>1, <1>2
     DEF InstallInv, UnderwayIn, Installing, Migrated, Undoing, Adopted, Preserved, Active,
         Underway, UninstallPending, Whole, Torn
<1>8. QED
  BY <1>3, <1>4, <1>5, <1>6, <1>7 DEF InstallInv

LEMMA HealthyKeeps == ASSUME InstallInv, Healthy PROVE InstallInv'
<1>1. /\ At("healthy") /\ updater' \in Updaters /\ updater'.guard = updater.guard
      /\ updater'.at \in {"publish", "fail_demand"}
      /\ UNCHANGED <<pairing, uninst, reinst, files, base, spare, winsvc, kept, issued, forgotten,
                     spent>>
  BY Moves DEF InstallInv, Shape, Healthy, Moved, UpdaterSteps
<1>2. Shape'
  BY <1>1 DEF InstallInv, Shape
<1>3. EpochsMade' /\ Remembered' /\ SpareKept' /\ Matched'
  BY <1>1, DataStays, SpareStays, MatchStays
     DEF InstallInv, DataSame, SpareLive, Underway, UnderwayIn, Migrated, Removing,
         UninstallPending, ReinstallJournal, Adopted, EpochsMade, SpareKept, SpareSound
<1>4. ReinstallJournal' /\ UninstallJournal' /\ Service'
  BY <1>1, Numbers
     DEF InstallInv, UnderwayIn, ReinstallJournal, UninstallJournal, Service, Underway, Adopted,
         Preserved, Due, UninstallPending, Whole, Torn, BootIsSafe, Tidying, Removing,
         Installing, Migrated, Undoing
<1>5. Guards' /\ Tidying' /\ Removing'
  BY <1>1 DEF InstallInv, Guards, Tidying, Removing, Due, UninstallPending
<1>6. Installing' /\ Migrated' /\ Undoing'
  BY <1>1
     DEF InstallInv, UnderwayIn, Installing, Migrated, Undoing, Adopted, Preserved, Active,
         Underway, UninstallPending, Whole, Torn
<1>7. QED
  BY <1>2, <1>3, <1>4, <1>5, <1>6 DEF InstallInv

LEMMA PublishKeeps == ASSUME InstallInv, Publish PROVE InstallInv'
<1>1. /\ At("publish") /\ updater' \in Updaters /\ updater'.guard = updater.guard
      /\ updater'.at = (IF Preserved THEN "committing" ELSE "unlink_initial")
      /\ UNCHANGED <<pairing, uninst, reinst, base, spare, winsvc, kept, issued, forgotten, spent>>
  BY DEF InstallInv, Shape, Publish, Updaters, UpdaterSteps, Purposes
<1>2. /\ files' \in FileSets
      /\ files'.pointer = TRUE /\ files'.archive = files.archive /\ files'.initial = files.initial
      /\ files'.gate = files.gate /\ files'.env = files.env
  BY DEF InstallInv, Shape, FileSets, Publish, Uninstalls
<1>3. Shape'
  BY <1>1, <1>2 DEF InstallInv, Shape
<1>4. EpochsMade' /\ Remembered' /\ SpareKept' /\ Matched'
  BY <1>1, <1>2, DataStays, SpareStays, MatchStays
     DEF InstallInv, DataSame, SpareLive, Underway, UnderwayIn, Migrated, Removing,
         UninstallPending, ReinstallJournal, Adopted, EpochsMade, SpareKept, SpareSound
<1>5. ReinstallJournal' /\ UninstallJournal' /\ Service'
  BY <1>1, <1>2, Numbers
     DEF InstallInv, UnderwayIn, ReinstallJournal, UninstallJournal, Service, Underway, Adopted,
         Preserved, Due, UninstallPending, Whole, Torn, BootIsSafe, Tidying, Removing,
         Installing, Migrated, Undoing
<1>6. Guards' /\ Tidying' /\ Removing'
  BY <1>1, <1>2
     DEF InstallInv, Guards, Tidying, Removing, Due, UninstallPending, Installing, Migrated,
         Preserved, Active, Adopted
<1>7. Installing' /\ Migrated' /\ Undoing'
  BY <1>1, <1>2
     DEF InstallInv, UnderwayIn, Installing, Migrated, Undoing, Adopted, Preserved, Active,
         Underway, UninstallPending, Whole, Torn
<1>8. QED
  BY <1>3, <1>4, <1>5, <1>6, <1>7 DEF InstallInv

LEMMA UnlinkInitialKeeps == ASSUME InstallInv, UnlinkInitial PROVE InstallInv'
<1>1. /\ At("unlink_initial") /\ Ended
      /\ UNCHANGED <<pairing, uninst, reinst, base, spare, winsvc, kept, issued, forgotten, spent>>
  BY Ends DEF InstallInv, UnlinkInitial, UpdaterSteps
<1>2. /\ files' \in FileSets
      /\ files'.pointer = files.pointer /\ files'.archive = files.archive /\ files'.initial = "none"
      /\ files'.gate = files.gate /\ files'.env = files.env
  BY DEF InstallInv, Shape, FileSets, UnlinkInitial, Uninstalls
<1>3. Shape'
  BY <1>1, <1>2 DEF InstallInv, Shape, Ended
<1>4. EpochsMade' /\ Remembered' /\ SpareKept' /\ Matched'
  BY <1>1, <1>2, DataStays, SpareStays, MatchStays
     DEF InstallInv, DataSame, SpareLive, Underway, UnderwayIn, Migrated, Removing,
         UninstallPending, ReinstallJournal, Adopted, EpochsMade, SpareKept, SpareSound, Ended
<1>5. ReinstallJournal' /\ UninstallJournal' /\ Service'
  BY <1>1, <1>2, Numbers
     DEF InstallInv, UnderwayIn, ReinstallJournal, UninstallJournal, Service, Underway, Adopted,
         Preserved, Due, UninstallPending, Whole, Torn, BootIsSafe, Tidying, Removing,
         Installing, Migrated, Undoing, Ended
<1>6. Guards' /\ Tidying' /\ Removing'
  BY <1>1, <1>2 DEF InstallInv, Guards, Tidying, Removing, Due, UninstallPending, Ended
<1>7. Installing' /\ Migrated' /\ Undoing'
  BY <1>1, <1>2
     DEF InstallInv, UnderwayIn, Installing, Migrated, Undoing, Adopted, Preserved, Active,
         Underway, UninstallPending, Whole, Torn, Ended
<1>8. QED
  BY <1>3, <1>4, <1>5, <1>6, <1>7 DEF InstallInv

-----------------------------------------------------------------------------
(* Failing, and undoing.                                                   *)

LEMMA AccidentIs ==
  ASSUME Shape, Accident
  PROVE  /\ spent' \in [turns : Nat, epochs : 0 .. MaxEpoch, accidents : Nat]
         /\ spent'.epochs = spent.epochs
BY DEF Shape, Accident

LEMMA StepFailsKeeps == ASSUME InstallInv, StepFails PROVE InstallInv'
<1>1. /\ updater.at \in InstallSteps \ UndoSteps /\ updater.at # "initialize"
      /\ updater' \in Updaters /\ updater'.guard = updater.guard /\ updater'.at = "fail_demand"
      /\ spent' \in [turns : Nat, epochs : 0 .. MaxEpoch, accidents : Nat]
      /\ spent'.epochs = spent.epochs
      /\ UNCHANGED <<pairing, uninst, reinst, files, base, spare, winsvc, kept, issued, forgotten>>
  BY AccidentIs, Moves DEF InstallInv, StepFails, Moved, UpdaterSteps
<1>2. Shape'
  BY <1>1 DEF InstallInv, Shape
<1>3. EpochsMade' /\ Remembered' /\ SpareKept' /\ Matched'
  BY <1>1, DataStays, SpareStays, MatchStays
     DEF InstallInv, DataSame, SpareLive, Underway, UnderwayIn, Migrated, Removing,
         UninstallPending, ReinstallJournal, Adopted, EpochsMade, SpareKept, SpareSound
<1>4. ReinstallJournal' /\ UninstallJournal' /\ Service'
  BY <1>1, JournalsKept DEF InstallInv, Service
<1>5. Guards' /\ Tidying' /\ Removing'
  BY <1>1 DEF InstallInv, Guards, Tidying, Removing, Due, UninstallPending
<1>6. Installing' /\ Migrated' /\ Undoing'
  BY <1>1
     DEF InstallInv, UnderwayIn, Installing, Migrated, Undoing, Adopted, Preserved, Active,
         Underway, UninstallPending, Whole, Torn
<1>7. QED
  BY <1>2, <1>3, <1>4, <1>5, <1>6 DEF InstallInv

LEMMA FailDemandKeeps == ASSUME InstallInv, FailDemand PROVE InstallInv'
<1>1. /\ At("fail_demand") /\ updater' \in Updaters
      /\ winsvc' \in Services /\ winsvc'.start = "demand" /\ (winsvc'.running => winsvc.running)
      /\ updater'.guard => updater.guard
      /\ \/ updater'.at = "idle"
         \/ updater'.at = "fail_stop" /\ Preserved /\ Active
      /\ UNCHANGED <<pairing, uninst, reinst, files, base, spare, kept, issued, forgotten, spent>>
  BY Moves, Ends DEF InstallInv, Shape, FailDemand, Moved, Ended, UpdaterSteps, Services
<1>2. Shape'
  BY <1>1 DEF InstallInv, Shape
<1>3. EpochsMade' /\ Remembered' /\ SpareKept' /\ Matched'
  BY <1>1, DataStays, SpareStays, MatchStays
     DEF InstallInv, DataSame, SpareLive, Underway, UnderwayIn, Migrated, Removing,
         UninstallPending, ReinstallJournal, Adopted, EpochsMade, SpareKept, SpareSound
<1>4. ReinstallJournal' /\ UninstallJournal'
  BY <1>1
     DEF InstallInv, Installing, ReinstallJournal, UninstallJournal, Underway, Adopted,
         Preserved, Due, UninstallPending
<1>5. Service'
  BY <1>1 DEF InstallInv, Service, BootIsSafe, Whole, Torn, Preserved
<1>6. Guards' /\ Tidying' /\ Removing'
  BY <1>1 DEF InstallInv, Guards, Tidying, Removing, UpdaterSteps
<1>7. Active => Underway
  BY <1>1
     DEF InstallInv, Active, Underway, UnderwayIn, Shape, Reinstalls, ReinstallJournal, Due,
         Installing
<1>8. Installing' /\ Migrated' /\ Undoing'
  BY <1>1, <1>7
     DEF InstallInv, Installing, Migrated, Undoing, UnderwayIn, Adopted, Preserved, Active,
         Underway, UninstallPending
<1>9. QED
  BY <1>2, <1>3, <1>4, <1>5, <1>6, <1>7, <1>8 DEF InstallInv

LEMMA FailStopKeeps == ASSUME InstallInv, FailStop PROVE InstallInv'
<1>1. /\ At("fail_stop") /\ updater' \in Updaters
      /\ updater'.at = "restoring" /\ updater'.guard
      /\ winsvc' \in Services /\ winsvc'.start = winsvc.start /\ ~winsvc'.running
      /\ UNCHANGED <<pairing, uninst, reinst, base, spare, kept, issued, forgotten, spent>>
  BY DEF InstallInv, Shape, FailStop, Holding, Services, Updaters, UpdaterSteps, Purposes
<1>2. /\ files' \in FileSets
      /\ files'.pointer = files.pointer /\ files'.archive = files.archive
      /\ files'.initial = files.initial
      /\ files'.gate = "reinstall" /\ files'.env = files.env
  BY DEF InstallInv, Shape, FileSets, FailStop, Uninstalls
<1>3. Shape'
  BY <1>1, <1>2 DEF InstallInv, Shape
<1>4. EpochsMade' /\ Remembered' /\ SpareKept' /\ Matched'
  BY <1>1, <1>2, DataStays, SpareStays, MatchStays
     DEF InstallInv, DataSame, SpareLive, Underway, UnderwayIn, Migrated, Removing,
         UninstallPending, ReinstallJournal, Adopted, EpochsMade, SpareKept, SpareSound,
         Installing
<1>5. ReinstallJournal' /\ UninstallJournal' /\ Service'
  BY <1>1, <1>2, Numbers
     DEF InstallInv, UnderwayIn, ReinstallJournal, UninstallJournal, Service, Underway, Adopted,
         Preserved, Due, UninstallPending, Whole, Torn, BootIsSafe, Tidying, Removing,
         Installing, Migrated, Undoing
<1>6. Guards' /\ Tidying' /\ Removing'
  BY <1>1, <1>2 DEF InstallInv, Guards, Tidying, Removing, Due, UninstallPending
<1>7. Installing' /\ Migrated' /\ Undoing'
  BY <1>1, <1>2
     DEF InstallInv, UnderwayIn, Installing, Migrated, Undoing, Adopted, Preserved, Active,
         Underway, UninstallPending, Whole, Torn
<1>8. QED
  BY <1>3, <1>4, <1>5, <1>6, <1>7 DEF InstallInv

LEMMA RecordRestoringKeeps == ASSUME InstallInv, RecordRestoring PROVE InstallInv'
<1>1. /\ At("restoring") /\ updater' \in Updaters /\ updater'.guard = updater.guard
      /\ updater'.at = (IF reinst.ready THEN "restore_database" ELSE "rolled_back")
      /\ UNCHANGED <<pairing, uninst, files, base, spare, winsvc, kept, issued, forgotten, spent>>
  BY Moves DEF InstallInv, Shape, RecordRestoring, Moved, UpdaterSteps
<1>2. /\ reinst' \in Reinstalls
      /\ reinst'.phase = "restoring" /\ reinst'.ready = reinst.ready /\ reinst'.of = reinst.of
  BY DEF InstallInv, Shape, Reinstalls, RecordRestoring, UnderwayIn
<1>3. Shape'
  BY <1>1, <1>2 DEF InstallInv, Shape
<1>4. Underway /\ SpareLive' => SpareLive
  BY <1>1, <1>2 DEF InstallInv, SpareLive, Underway, UnderwayIn, Undoing
<1>5. EpochsMade' /\ Remembered' /\ Matched'
  BY <1>1, <1>2, DataStays, MatchStays DEF InstallInv, DataSame, EpochsMade
<1>6. SpareKept'
  BY <1>1, <1>2, <1>4
     DEF InstallInv, SpareKept, SpareLive, SpareSound, Undoing, Underway, UnderwayIn, Remembers,
         Pairable, Belongs
<1>7. ReinstallJournal' /\ UninstallJournal' /\ Service'
  BY <1>1, <1>2, Numbers
     DEF InstallInv, UnderwayIn, ReinstallJournal, UninstallJournal, Service, Underway, Adopted,
         Preserved, Due, UninstallPending, Whole, Torn, BootIsSafe, Tidying, Removing,
         Installing, Migrated, Undoing
<1>8. Guards' /\ Tidying' /\ Removing'
  BY <1>1, <1>2 DEF InstallInv, Guards, Tidying, Removing, Due, UninstallPending
<1>9. Installing' /\ Migrated' /\ Undoing'
  BY <1>1, <1>2
     DEF InstallInv, UnderwayIn, Installing, Migrated, Undoing, Adopted, Preserved, Active,
         Underway, UninstallPending, Whole, Torn, Service, ReinstallJournal
<1>10. QED
  BY <1>3, <1>4, <1>5, <1>6, <1>7, <1>8, <1>9 DEF InstallInv

LEMMA RestoreDatabaseKeeps == ASSUME InstallInv, RestoreDatabase PROVE InstallInv'
<1>1. /\ At("restore_database") /\ Moved("remove_config")
      /\ UNCHANGED <<pairing, uninst, reinst, files, spare, winsvc, kept, issued, forgotten, spent>>
  BY Moves DEF InstallInv, RestoreDatabase, UpdaterSteps
<1>2. /\ base' \in Bases
      /\ base' = spare.base
  BY DEF InstallInv, Shape, Bases, RestoreDatabase
<1>3. Shape'
  BY <1>1, <1>2 DEF InstallInv, Shape, Moved
<1>4. SpareSound
  BY <1>1, <1>2
     DEF InstallInv, SpareKept, SpareLive, SpareSound, Undoing, Underway, UnderwayIn, Moved
<1>5. EpochsMade' /\ Remembered' /\ SpareKept' /\ Matched'
  <2>1. EpochsMade' /\ Remembered'
    BY <1>1, <1>2, <1>4
       DEF InstallInv, EpochsMade, Remembered, Remembers, Pairable, SpareSound
  <2>2. SpareKept'
    BY <1>1, <1>2, <1>4
       DEF InstallInv, SpareKept, SpareSound, Remembers, Pairable, Belongs, Moved
  <2>3. Belongs(files.env, base)'
    BY <1>1, <1>2, <1>4, Epochs DEF InstallInv, SpareSound, Belongs
  <2>4. Matched'
    BY <1>1, <1>4, <2>3 DEF InstallInv, Matched, SpareSound, Moved
  <2>5. QED
    BY <2>1, <2>2, <2>4
<1>6. ReinstallJournal' /\ UninstallJournal' /\ Service'
  BY <1>1, <1>2, Numbers
     DEF InstallInv, UnderwayIn, ReinstallJournal, UninstallJournal, Service, Underway, Adopted,
         Preserved, Due, UninstallPending, Whole, Torn, BootIsSafe, Tidying, Removing,
         Installing, Migrated, Undoing, SpareKept, Moved
<1>7. Guards' /\ Tidying' /\ Removing'
  BY <1>1, <1>2 DEF InstallInv, Guards, Tidying, Removing, Due, UninstallPending, Moved
<1>8. Installing' /\ Migrated' /\ Undoing'
  BY <1>1, <1>2
     DEF InstallInv, UnderwayIn, Installing, Migrated, Undoing, Adopted, Preserved, Active,
         Underway, UninstallPending, Whole, Torn, Moved
<1>9. QED
  BY <1>3, <1>4, <1>5, <1>6, <1>7, <1>8 DEF InstallInv

LEMMA RemoveConfigKeeps == ASSUME InstallInv, RemoveConfig PROVE InstallInv'
<1>1. /\ At("remove_config") /\ Moved("restore_config")
      /\ UNCHANGED <<pairing, uninst, reinst, base, spare, winsvc, kept, issued, forgotten, spent>>
  BY Moves DEF InstallInv, RemoveConfig, UpdaterSteps
<1>2. /\ files' \in FileSets
      /\ files'.pointer = files.pointer /\ files'.archive = files.archive
      /\ files'.initial = files.initial
      /\ files'.gate = files.gate /\ files'.env = NoEnv
  BY DEF InstallInv, Shape, FileSets, RemoveConfig, Uninstalls, Envs
<1>3. Shape'
  BY <1>1, <1>2 DEF InstallInv, Shape, Moved
<1>4. EpochsMade' /\ Remembered'
  BY <1>1, <1>2, DataStays, Epochs DEF InstallInv, DataSame, EpochsMade, NoEnv, Moved
<1>5. SpareKept' /\ Matched'
  BY <1>1, <1>2, InstallAssumption
     DEF InstallInv, SpareKept, SpareLive, SpareSound, Underway, UnderwayIn, Remembers,
         Pairable, Matched, Belongs, NextIdentity, NoEnv, Undoing, Moved
<1>6. ReinstallJournal' /\ UninstallJournal' /\ Service'
  BY <1>1, <1>2, Numbers
     DEF InstallInv, UnderwayIn, ReinstallJournal, UninstallJournal, Service, Underway, Adopted,
         Preserved, Due, UninstallPending, Whole, Torn, BootIsSafe, Tidying, Removing,
         Installing, Migrated, Undoing, SpareKept, Moved
<1>7. Guards' /\ Tidying' /\ Removing'
  BY <1>1, <1>2 DEF InstallInv, Guards, Tidying, Removing, Due, UninstallPending, Moved
<1>8. Installing' /\ Migrated' /\ Undoing'
  BY <1>1, <1>2
     DEF InstallInv, UnderwayIn, Installing, Migrated, Undoing, Adopted, Preserved, Active,
         Underway, UninstallPending, Whole, Torn, Moved
<1>9. QED
  BY <1>3, <1>4, <1>5, <1>6, <1>7, <1>8 DEF InstallInv

LEMMA RestoreConfigKeeps == ASSUME InstallInv, RestoreConfig PROVE InstallInv'
<1>1. /\ At("restore_config") /\ Moved("rolled_back")
      /\ UNCHANGED <<pairing, uninst, reinst, base, spare, winsvc, kept, issued, forgotten, spent>>
  BY Moves DEF InstallInv, RestoreConfig, UpdaterSteps
<1>2. /\ files' \in FileSets
      /\ files'.pointer = files.pointer /\ files'.archive = files.archive
      /\ files'.initial = files.initial
      /\ files'.gate = files.gate /\ files'.env = spare.env
  BY DEF InstallInv, Shape, FileSets, RestoreConfig, Uninstalls
<1>3. Shape'
  BY <1>1, <1>2 DEF InstallInv, Shape, Moved
<1>4. SpareSound /\ base = spare.base
  BY <1>1, <1>2
     DEF InstallInv, SpareKept, SpareLive, SpareSound, Undoing, Underway, UnderwayIn, Moved
<1>5. EpochsMade' /\ Remembered'
  BY <1>1, <1>2, <1>4, DataStays DEF InstallInv, DataSame, EpochsMade, SpareSound, Moved
<1>6. SpareKept' /\ Matched'
  BY <1>1, <1>2, <1>4
     DEF InstallInv, SpareKept, SpareLive, SpareSound, Underway, UnderwayIn, Remembers,
         Pairable, Matched, Belongs, NextIdentity, Undoing, Moved
<1>7. ReinstallJournal' /\ UninstallJournal' /\ Service'
  BY <1>1, <1>2, Numbers
     DEF InstallInv, UnderwayIn, ReinstallJournal, UninstallJournal, Service, Underway, Adopted,
         Preserved, Due, UninstallPending, Whole, Torn, BootIsSafe, Tidying, Removing,
         Installing, Migrated, Undoing, SpareKept, SpareLive, SpareSound, Moved
<1>8. Guards' /\ Tidying' /\ Removing'
  BY <1>1, <1>2 DEF InstallInv, Guards, Tidying, Removing, Due, UninstallPending, Moved
<1>9. Installing' /\ Migrated' /\ Undoing'
  BY <1>1, <1>2
     DEF InstallInv, UnderwayIn, Installing, Migrated, Undoing, Adopted, Preserved, Active,
         Underway, UninstallPending, Whole, Torn, SpareKept, SpareLive, SpareSound, Moved
<1>10. QED
  BY <1>3, <1>4, <1>5, <1>6, <1>7, <1>8, <1>9 DEF InstallInv

LEMMA RolledBackKeeps == ASSUME InstallInv, RolledBack PROVE InstallInv'
<1>1. /\ At("rolled_back") /\ updater' \in Updaters
      /\ \/ updater'.at = "idle" /\ ~updater'.guard
         \/ updater'.at = "reinstall_gate" /\ updater'.guard = updater.guard
      /\ UNCHANGED <<pairing, uninst, files, base, spare, winsvc, kept, issued, forgotten, spent>>
  BY Moves, Ends DEF InstallInv, Shape, RolledBack, Moved, Ended, UpdaterSteps
<1>2. /\ reinst' \in Reinstalls
      /\ reinst'.phase = "rolled_back" /\ reinst'.ready = reinst.ready /\ reinst'.of = reinst.of
  BY DEF InstallInv, Shape, Reinstalls, RolledBack, UnderwayIn
<1>3. Shape'
  BY <1>1, <1>2 DEF InstallInv, Shape
<1>4. EpochsMade' /\ Remembered' /\ SpareKept' /\ Matched'
  BY <1>1, <1>2, DataStays, SpareStays, MatchStays
     DEF InstallInv, DataSame, SpareLive, Underway, UnderwayIn, Migrated, Removing,
         UninstallPending, ReinstallJournal, Adopted, EpochsMade, SpareKept, SpareSound, Undoing
<1>5. ReinstallJournal' /\ UninstallJournal' /\ Service'
  BY <1>1, <1>2, Numbers
     DEF InstallInv, UnderwayIn, ReinstallJournal, UninstallJournal, Service, Underway, Adopted,
         Preserved, Due, UninstallPending, Whole, Torn, BootIsSafe, Tidying, Removing,
         Installing, Migrated, Undoing
<1>6. Guards' /\ Tidying' /\ Removing'
  BY <1>1, <1>2 DEF InstallInv, Guards, Tidying, Removing, Due, UninstallPending, Undoing
<1>7. Installing' /\ Migrated' /\ Undoing'
  BY <1>1, <1>2
     DEF InstallInv, UnderwayIn, Installing, Migrated, Undoing, Adopted, Preserved, Active,
         Underway, UninstallPending, Whole, Torn, ReinstallJournal
<1>8. QED
  BY <1>3, <1>4, <1>5, <1>6, <1>7 DEF InstallInv

LEMMA RestoreFailsKeeps == ASSUME InstallInv, RestoreFails PROVE InstallInv'
<1>1. /\ updater.at \in RestoreSteps /\ updater' \in Updaters
      /\ updater'.at \in {"idle", "fail_demand"} /\ (updater'.guard => updater.guard)
      /\ spent' \in [turns : Nat, epochs : 0 .. MaxEpoch, accidents : Nat]
      /\ spent'.epochs = spent.epochs
      /\ UNCHANGED <<pairing, uninst, files, base, spare, winsvc, kept, issued, forgotten>>
  BY AccidentIs DEF InstallInv, Shape, RestoreFails, Resting, Updaters, UpdaterSteps, Purposes
<1>2. /\ reinst' \in Reinstalls
      /\ reinst'.phase = "rollback_failed" /\ reinst'.ready = reinst.ready /\ reinst'.of = reinst.of
  BY DEF InstallInv, Shape, Reinstalls, RestoreFails, UnderwayIn
<1>3. Shape'
  BY <1>1, <1>2 DEF InstallInv, Shape
<1>4. EpochsMade' /\ Remembered' /\ SpareKept' /\ Matched'
  BY <1>1, <1>2, DataStays, SpareStays, MatchStays
     DEF InstallInv, DataSame, SpareLive, Underway, UnderwayIn, Migrated, Removing,
         UninstallPending, ReinstallJournal, Adopted, EpochsMade, SpareKept, SpareSound, Undoing
<1>5. ReinstallJournal' /\ UninstallJournal' /\ Service'
  BY <1>1, <1>2, Numbers
     DEF InstallInv, UnderwayIn, ReinstallJournal, UninstallJournal, Service, Underway, Adopted,
         Preserved, Due, UninstallPending, Whole, Torn, BootIsSafe, Tidying, Removing,
         Installing, Migrated, Undoing, SpareKept
<1>6. Guards' /\ Tidying' /\ Removing'
  BY <1>1, <1>2 DEF InstallInv, Guards, Tidying, Removing, Due, UninstallPending
<1>7. Installing' /\ Migrated' /\ Undoing'
  BY <1>1, <1>2
     DEF InstallInv, UnderwayIn, Installing, Migrated, Undoing, Adopted, Preserved, Active,
         Underway, UninstallPending, Whole, Torn, ReinstallJournal
<1>8. QED
  BY <1>3, <1>4, <1>5, <1>6, <1>7 DEF InstallInv

LEMMA DiesKeeps == ASSUME InstallInv, Dies PROVE InstallInv'
<1>1. /\ updater' \in Updaters /\ updater'.at = "idle" /\ ~updater'.guard
      /\ winsvc' \in Services /\ winsvc'.start = winsvc.start /\ (winsvc'.running => winsvc.running)
      /\ spent' \in [turns : Nat, epochs : 0 .. MaxEpoch, accidents : Nat]
      /\ spent'.epochs = spent.epochs
      /\ UNCHANGED <<pairing, uninst, reinst, files, base, spare, kept, issued, forgotten>>
  BY AccidentIs, Ends DEF InstallInv, Shape, Dies, Ended, Services
<1>2. Shape'
  BY <1>1 DEF InstallInv, Shape
<1>3. EpochsMade' /\ Remembered' /\ SpareKept' /\ Matched'
  BY <1>1, DataStays, SpareStays, MatchStays
     DEF InstallInv, DataSame, SpareLive, Underway, UnderwayIn, Migrated, Removing,
         UninstallPending, ReinstallJournal, Adopted, EpochsMade, SpareKept, SpareSound
<1>4. ReinstallJournal' /\ UninstallJournal' /\ Service'
  BY <1>1, JournalsKept DEF InstallInv, Service
<1>5. Guards' /\ Tidying' /\ Removing'
  BY <1>1 DEF InstallInv, Guards, Tidying, Removing, Due, UninstallPending
<1>6. Installing' /\ Migrated' /\ Undoing'
  BY <1>1
     DEF InstallInv, UnderwayIn, Installing, Migrated, Undoing, Adopted, Preserved, Active,
         Underway, UninstallPending, Whole, Torn
<1>7. QED
  BY <1>2, <1>3, <1>4, <1>5, <1>6 DEF InstallInv

-----------------------------------------------------------------------------
(* The invariant, from the start and through every step.                   *)

LEMMA InitOK == ASSUME InstallInit PROVE InstallInv
<1>1. /\ updater.at = "idle" /\ ~updater.guard /\ updater \in Updaters
      /\ pairing.phase = "none" /\ pairing.epoch = 0 /\ pairing \in Pairings
      /\ uninst.phase = "none" /\ uninst.id = 0 /\ uninst \in Uninstalls
      /\ reinst.phase = "none" /\ ~reinst.ready /\ reinst.of = 0 /\ reinst \in Reinstalls
  <2>1. NoIdentity \in Identities /\ NoEnv \in Envs
    BY InstallAssumption DEF NoIdentity, Identities, Envs
  <2>2. NoPairing \in Pairings /\ NoPairing.phase = "none" /\ NoPairing.epoch = 0
    BY <2>1, InstallAssumption DEF NoPairing, Pairings
  <2>3. QED
    BY <2>2, Ends
       DEF InstallInit, Resting, Updaters, UpdaterSteps, Purposes, Uninstalls, Reinstalls
<1>2. kept = {} /\ issued = {} /\ forgotten = {} /\ spent = [turns |-> 0, epochs |-> 0, accidents |-> 0]
  BY DEF InstallInit
<1>3. PICK fresh \in BOOLEAN :
        /\ files = [pointer |-> ~fresh, archive |-> 0, initial |-> "none", gate |-> Free,
                    env |-> IF fresh THEN NoEnv ELSE Unpaired]
        /\ base = [Base EXCEPT !.whole = ~fresh]
        /\ winsvc = [start |-> IF fresh THEN "absent" ELSE "auto", running |-> FALSE,
                     task |-> ~fresh]
  BY DEF InstallInit
<1>4. /\ Base \in Bases /\ Base.whole /\ Base.recs = {} /\ Base.rows = [d \in Devices |-> NoIdentity]
      /\ [Base EXCEPT !.whole = ~fresh] \in Bases
  <2>1. NoIdentity \in Identities
    BY InstallAssumption DEF NoIdentity, Identities
  <2>2. QED
    BY <2>1 DEF Base, Bases
<1>5. /\ files \in FileSets /\ files.pointer = ~fresh /\ files.archive = 0 /\ files.gate = Free
      /\ files.env = (IF fresh THEN NoEnv ELSE Unpaired)
  BY <1>3 DEF FileSets, Envs
<1>6. /\ base \in Bases /\ base.whole = ~fresh
      /\ \A d \in Devices : base.rows[d].epoch = 0 /\ base.rows[d].seq = 0
  BY <1>3, <1>4 DEF Bases, NoIdentity
<1>7. /\ winsvc \in Services /\ ~winsvc.running
      /\ winsvc.start = (IF fresh THEN "absent" ELSE "auto")
  BY <1>3 DEF Services
<1>8. spare \in [base : Bases, env : Envs]
  BY <1>4 DEF InstallInit, Envs
<1>9. /\ spent \in [turns : Nat, epochs : 0 .. MaxEpoch, accidents : Nat] /\ spent.epochs = 0
  BY <1>2, InstallAssumption
<1>10. Shape
  BY <1>1, <1>2, <1>5, <1>6, <1>7, <1>8, <1>9 DEF Shape
<1>11. EpochsMade /\ Remembered
  BY <1>1, <1>2, <1>5, <1>6, <1>9 DEF EpochsMade, Remembered, Remembers, Pairable, NoEnv, Unpaired
<1>12. SpareKept /\ Matched
  BY <1>1, <1>5, <1>6 DEF SpareKept, SpareLive, Underway, UnderwayIn, Matched, Belongs
<1>13. ReinstallJournal /\ UninstallJournal
  <2>1. ReinstallJournal
    BY <1>1, <1>5 DEF ReinstallJournal, Underway, UnderwayIn
  <2>2. UninstallJournal
    BY <1>1, <1>3, <1>5, <1>7 DEF UninstallJournal, UninstallPending
  <2>3. QED
    BY <2>1, <2>2
<1>14. Unpaired # NoEnv
  BY DEF Unpaired, NoEnv
<1>15. Service
  BY <1>1, <1>5, <1>6, <1>7, <1>14 DEF Service, Whole, BootIsSafe
<1>16. Guards /\ Tidying /\ Removing /\ Installing /\ Migrated /\ Undoing
  BY <1>1 DEF Guards, Tidying, Removing, Installing, Migrated, Undoing
<1>17. QED
  BY <1>10, <1>11, <1>12, <1>13, <1>15, <1>16 DEF InstallInv

LEMMA StutterKeeps == ASSUME InstallInv, UNCHANGED iVars PROVE InstallInv'
<1>1. UNCHANGED <<pairing, uninst, reinst, files, base, spare, winsvc, updater, kept, issued,
                  forgotten, spent>>
  BY DEF iVars
<1>2. Shape' /\ EpochsMade' /\ Remembered'
  BY <1>1 DEF InstallInv, Shape, EpochsMade, Remembered, Remembers, Pairable
<1>3. SpareKept' /\ Matched'
  BY <1>1
     DEF InstallInv, SpareKept, SpareLive, SpareSound, Underway, Remembers, Pairable, Belongs, Matched
<1>4. ReinstallJournal' /\ UninstallJournal' /\ Service'
  BY <1>1, JournalsKept DEF InstallInv, Service
<1>5. Guards' /\ Tidying' /\ Removing' /\ Installing' /\ Migrated' /\ Undoing'
  BY <1>1, PlaceStays
<1>6. QED
  BY <1>2, <1>3, <1>4, <1>5 DEF InstallInv

LEMMA ServiceNextKeeps ==
  ASSUME InstallInv,
         ServiceStarts \/ ServiceStops \/ Identifies \/ Saves \/ Commands \/ Settles
  PROVE  InstallInv'
BY ServiceKeeps, IdentifiesKeeps, SavesKeeps, CommandsKeeps, SettlesKeeps

LEMMA PairingNextKeeps ==
  ASSUME InstallInv,
         \/ \E d \in Devices, given \in 0 .. MaxEpoch : Pair(d, given)
         \/ RecoverPairing \/ PairGate \/ PairIdentity \/ PairMark \/ PairEnv \/ PairDone \/ PairOpen
  PROVE  InstallInv'
BY PairKeeps, RecoverPairingKeeps, PairGateKeeps, PairIdentityKeeps, PairMarkKeeps, PairEnvKeeps,
   PairDoneKeeps, PairOpenKeeps

LEMMA TidyNextKeeps ==
  ASSUME InstallInv,
         \/ \E purpose \in {"install", "recover", "uninstall"} : Dispatch(purpose)
         \/ Committing \/ DropArchive \/ DropUninstall \/ Committed \/ Open
  PROVE  InstallInv'
BY DispatchKeeps, CommittingKeeps, DropArchiveKeeps, DropUninstallKeeps, CommittedKeeps, OpenKeeps

LEMMA RemovalNextKeeps ==
  ASSUME InstallInv,
         \/ BeginInstall \/ BeginUninstall \/ Authorized \/ ResumeUninstall \/ StopService
         \/ \E phase \in {"removing_task", "removing_service", "service_removed"} : RecordUninstall(phase)
         \/ RemoveTask \/ RemoveService \/ ArchiveState \/ UnlinkPointer \/ UnlinkGate \/ Uninstalled
  PROVE  InstallInv'
BY BeginInstallKeeps, BeginUninstallKeeps, AuthorizedKeeps, ResumeUninstallKeeps, StopServiceKeeps,
   RecordUninstallKeeps, RemoveTaskKeeps, RemoveServiceKeeps, ArchiveStateKeeps, UnlinkPointerKeeps,
   UnlinkGateKeeps, UninstalledKeeps

LEMMA InstallingNextKeeps ==
  ASSUME InstallInv,
         \/ Initialize \/ PreparedInitial \/ Environment \/ Configure \/ BeforeMigrate \/ ReinstallGate
         \/ BackUp \/ Migrating \/ Migrate \/ FinishMigration \/ AwaitingHealth \/ MigratedInitial
         \/ Automatic \/ Start \/ Healthy \/ Publish \/ UnlinkInitial
  PROVE  InstallInv'
BY InitializeKeeps, PreparedInitialKeeps, EnvironmentKeeps, ConfigureKeeps, BeforeMigrateKeeps,
   ReinstallGateKeeps, BackUpKeeps, MigratingKeeps, MigrateKeeps, FinishMigrationKeeps,
   AwaitingHealthKeeps, MigratedInitialKeeps, AutomaticKeeps, StartKeeps, HealthyKeeps,
   PublishKeeps, UnlinkInitialKeeps

LEMMA FailureNextKeeps ==
  ASSUME InstallInv,
         \/ StepFails \/ FailDemand \/ FailStop \/ RecordRestoring \/ RestoreDatabase \/ RemoveConfig
         \/ RestoreConfig \/ RolledBack \/ RestoreFails \/ Dies
  PROVE  InstallInv'
BY StepFailsKeeps, FailDemandKeeps, FailStopKeeps, RecordRestoringKeeps, RestoreDatabaseKeeps,
   RemoveConfigKeeps, RestoreConfigKeeps, RolledBackKeeps, RestoreFailsKeeps, DiesKeeps

(* The whole invariant holds in every state: the journals of a pairing, an *)
(* uninstall and a reinstall, with the gate, the disk, the service and the *)
(* backup, wherever an updater of pairing.py, uninstall.py, reinstall.py   *)
(* and updater.py stops.                                                   *)
THEOREM InstallInvHolds == InstallSpec => []InstallInv
<1>1. InstallInit => InstallInv
  BY InitOK
<1>2. InstallInv /\ [InstallNext]_iVars => InstallInv'
  BY ServiceNextKeeps, PairingNextKeeps, TidyNextKeeps, RemovalNextKeeps, InstallingNextKeeps,
     FailureNextKeeps, StutterKeeps
     DEF InstallNext
<1>3. QED
  BY <1>1, <1>2, PTL DEF InstallSpec

-----------------------------------------------------------------------------
(* What it says.                                                           *)

(* No pairing, reinstall or restore takes an epoch back below a sequence   *)
(* number a command used, and no record written behind an open gate is     *)
(* ever lost: PairingTransaction._finish, PreservedReinstall.              *)
THEOREM RecordsAreKept == InstallSpec => []RecordsKept
<1>1. InstallInv => RecordsKept
  BY DEF InstallInv, Remembered, Remembers, RecordsKept, WaterlineKept, OpenRecordsKept
<1>2. QED
  BY <1>1, InstallInvHolds, PTL

(* Wherever it is cut short: configuration and database agree while the    *)
(* gate is open, a service Windows starts finds its data whole, and data   *)
(* without an installation are owned: PairingTransaction,                  *)
(* UninstallTransaction, PreservedReinstall and initialize.                *)
THEOREM InstallationIsSound == InstallSpec => []InstallationSound
<1>1. ASSUME InstallInv PROVE PairedTogether
  <2>1. SUFFICES ASSUME files.gate = Free, Paired, Identity # NoIdentity
                 PROVE  Identity.epoch = files.env.epoch
    BY DEF PairedTogether
  <2>2. base.rows[files.env.dev] \in Identities /\ Identity.epoch # 0
    <3>1. Identity = [epoch |-> Identity.epoch, seq |-> Identity.seq]
      BY <1>1, <2>1, RowIs DEF InstallInv, Shape, Paired, Identity
    <3>2. Identity.epoch = 0 => Identity.seq = 0
      BY <1>1, <2>1 DEF InstallInv, Remembered, Remembers, Paired, Identity
    <3>3. QED
      BY <1>1, <2>1, <3>1, <3>2, RowIs DEF InstallInv, Shape, Paired, Identity, NoIdentity
  <2>3. QED
    BY <1>1, <2>1, <2>2 DEF InstallInv, Matched, Belongs, Paired, Identity
<1>2. InstallInv => BootIsSafe /\ DataIsOwned
  BY DEF InstallInv, Service, UninstallJournal, DataIsOwned
<1>3. InstallInv => InstallationSound
  BY <1>1, <1>2 DEF InstallationSound
<1>4. QED
  BY <1>3, InstallInvHolds, PTL

(* Epochs and numbers stay within their bounds, an archive is of an        *)
(* uninstall that was begun, and nothing runs while the updater holds the  *)
(* Backend mutex: the journals of uninstall.py and reinstall.py.           *)
THEOREM InstallTyped == InstallSpec => []InstallTypeOK
<1>1. ASSUME InstallInv PROVE InstallTypeOK
  <2>1. \A d \in Devices : base.rows[d] \in Identities
    BY <1>1, RowIs DEF InstallInv, Shape
  <2>2. \A d \in Devices : base.rows[d].epoch \in 0 .. MaxEpoch /\ base.rows[d].seq \in 0 .. MaxSeq
    BY <2>1 DEF Identities
  <2>3. QED
    BY <1>1, <2>2
       DEF InstallInv, Shape, FileSets, Services, ReinstallJournal, Service, InstallTypeOK
<1>2. QED
  BY <1>1, InstallInvHolds, PTL

=============================================================================
