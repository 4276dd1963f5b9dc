# SMD web HMI: models, checks and proofs

This directory specifies the part of smd-web-hmi in which it matters what happens in which order: how the
backend commands a furnace over HostComm 2.0, how it gets back what it missed while it was away, and how an
installer replaces the backend under a running laboratory without doing either of the two wrong. The modules
are TLA+; TLC checks them on small instances, TLAPS proves some of it for all of them.

Contents: [the system](#the-system), [hard behaviours](#what-is-hard-here), [modules](#modules-and-code),
[runs](#runs), [findings](#findings), [fairness](#fairness), [proofs](#proofs),
[what is not modelled](#what-is-not-modelled), [plan](#plan).

## The system

One Windows computer stands beside one device. On it runs a FastAPI backend (`backend/app`) as a Windows
service, with an SQLite database, one asyncio event loop and one TLS connection to the device's main board.
The board is represented by the repository's simulator (`backend/app/hostcomm/v2_simulator`), which is the
executable form of the HostComm 2.0 contract. Browsers and a desktop shell talk HTTP and WebSocket to the
backend. Installer, updater and boot recovery (`desktop/smd_desktop`, `deploy/windows`) are separate processes
that share files, a named mutex and the service control manager with it.

| component | state | operations | talks to | what makes it correct |
|---|---|---|---|---|
| operation coordinator `services/v2_operations.py`, `hostcomm/v2_client.py` | tables `v2_operation`, `v2_controller_identity`, `v2_operation_review`; coroutines of `submit` | submit, query, reconcile, restart, `reconcile_highwater` | transport, HTTP command service | a command acts at most once, recorded outcomes are true and final, nothing new before the old is settled |
| control lease `hostcomm/v2_lease.py` | `LeaseContext`: lease, deadline, revision, generation | acquire, heartbeat, status, confirm, quiesce, release | transport, device | the host believes in a lease only while the device grants it |
| transport `hostcomm/v2_transport.py` | session, pending requests, retired identities, callback queue, write gate | connect, request, dispatch, callback loop, heartbeats | device, coordinator, log store | an answer reaches its own request or nobody |
| source log `services/v2_source_logs.py`, `V2Client.recover_logs` | tables of transfers, chunks, records, gaps, cursor | live record, chunk, ack, finish, rescan | transport, archive | acknowledged bytes are durable; each record projected once; gaps are known |
| device `hostcomm/v2_simulator/*` | result table, waterline, run, phase, lease, alarms, records, log transfer; the copy in storage | commands, ticks, heartbeats, log transfer, reboot | transport | one effect per command, in order; a lost lease ends in a safe phase |
| run recovery `services/v2_run_recovery.py`, `v2_recovery_worker.py`, `v2_archive.py`, `v2_recovery_evidence.py` | recovery cases, reviews, bindings, replay cursor | discover, review, bind, replay, project | source log, archive | one verdict per run, resting on all its records; a binding on evidence that was seen |
| alarm archive `services/v2_alarm_archive.py`, `V2Client.get_status` | occurrences, the last list of active alarms | raise, acknowledge, clear, from live and replayed records and from the list | source log | an occurrence's history does not depend on arrival order |
| recipes `services/recipe_service.py`, `parameter_service.py`, `V2Client._activate`, `_start_binding` | saved versions, bindings, run bindings; active recipe and uploads of the board | save, validate, bind, upload, activate, read back, archive a start | HTTP command service, coordinator, device | a run follows the version its archive names; a confirmed activation lasts |
| HTTP command service `services/command_service.py`, `operations.py`, `v2_operation_api.py` | table `operation`, test sessions, start reservation | execute, replay, query, restart recovery | coordinator, maintenance gate | one identity, one execution; a reserved run is closed only on proof |
| ownership `services/control_ownership.py` | owner row | claim, take over, release | HTTP | control changes hands between commands |
| recording `main.py`, `services/test_session_service.py`, `telemetry_integrity.py`, `test_runtime.py`, `cache.py` | active test, status cache, session rows with a cursor, sample points | status and connection callbacks, reconcile, persist, review-close | HostComm client, HTTP | a measurement called complete has no hole; an ended session is over at the board |
| HostComm 1.0 client `hostcomm/client.py`, mock `mock_server.py` | connection, reader, heartbeat, reconnect task, waiters | open, lose, reconnect, ask, command, close | board, recording | an answer is one's own; a lost connection is always somebody's work |
| jobs `services/background_jobs.py`, `gateway_lease.py` | job records, gateway lease | submit, prune | HTTP | a full queue refuses |
| maintenance gate `services/maintenance_service.py`, `local_maintenance.py`, `api/maintenance_boundary.py` | counter of admitted work, two command locks, `maintenance.json`, request and reply files | admit, guard, drain, assess, authorise | everything that writes; installer | a closed gate has nothing behind it; the installer acts only on a durable one |
| upgrade transaction `desktop/smd_desktop/upgrade.py`, `snapshot.py`, `updater.py` | journal and its copies, version directories, backup, pointer, service registration | apply, roll back, recover, clean up | gate, service, migrations | installed or as before, never in between; records are not lost |
| installation and pairing `pairing.py`, `reinstall.py`, `uninstall.py`, `updater.py` | a journal each, one gate, database, configuration, service registration | pair, install, uninstall, reinstall, recover | Windows, service | interrupted anywhere, what is left belongs together; nothing the database must remember is lost |
| reports, metrics, trends, auth, WebSocket, frontend, build | | | | data processing and presentation |

Interactions that the models keep: commands and answers on the one connection, with frames of a connection
the host has left still reaching the device; the callback queue of the transport, which outlives the
connection its frames came from; the database as the only memory across restarts of the backend; three files
between installer and backend; journal, directories and the Backend mutex between updater and service.

### What is hard here

`PROJECT.json` lists the hazards with their lines. They fall into a few groups:

* *Lost certainty.* An answer does not arrive, the backend dies between two commits, a backup is restored.
  The code answers with durable intents, "unknown" as a first-class outcome, and a waterline on the device.
* *Late evidence.* Heartbeats, status frames, query answers and queued callbacks are used after the session,
  lease or revision they describe is gone. The code answers with generations, revisions and tokens captured
  before an await.
* *Two clocks.* The lease is granted in the device's time and believed in the host's.
* *Draining.* Admission, a counter, two locks and an assessment have to be taken in an order that leaves no
  gap for a command.
* *Arrival orders.* The same event comes live, by backfill and in a list, from two boots of the device, and
  a person decides on what was seen in between.
* *Requests beside one another.* Two HTTP requests, a takeover and a query meet between the checks of a start
  and its command.
* *Power cuts in a long transaction.* Some twenty steps on disk, each of which may be the last.

## Modules and code

Every definition that models code has an entry in `PROJECT.json` under `map`. A definition whose name starts
with `Mutant` is a plausible bug: no specification uses it, it is there to show that a property would notice.

| module | models | notes |
|---|---|---|
| `OperationLedger` | the promise of the command protocol: issued, acted at most once, verdicts right, final verdicts kept | abstract; implemented by `V2Operations` through the refinement mapping `Ledger` |
| `V2Operations` | `V2OperationCoordinator` and the device's result table: one database transaction or one device handler per action | `row` is the table, `task` the coroutine of `submit`, `review` that of `reconcile_unknown`, `dev`/`disk` the device in memory and in storage |
| `MCV2Operations` | instances: a start and a stop, a release and another command | |
| `V2OperationsProofs` | theorems about `V2Operations`: types, order of effects, admission; what an identity promises, the refinement of `OperationLedger`, frames that pass one another, agreement of results | the latter assume `~Restores` |
| `V2Lease` | `LeaseContext` as pure functions of a record (`Observed`, `Confirmed`, `Renewed`...), the transport's use of it, the device's lease handlers | one clock for both sides; frames of a connection stay in order, `tail` holds what was written to the connection left before |
| `V2SourceLog` | `recover_logs`, the callback loop, `V2SourceLogStore` and the device's `LogTransfer` | a record is two units long so that it can straddle chunks; bytes are named by their record; a cut is in the order of its records' ranks; `Unavailable` is what the device refuses with `range_unavailable`, for the end, the bytes or the gaps of a range |
| `V2LinkProofs` | theorems about `V2Lease` and `V2SourceLog` | |
| `AlarmArchive` | the board's alarms and log, the three sources, `V2AlarmArchive` | `leftover` are frames of earlier connections in the callback queue; `late` remembers alarms whose frame of an earlier boot was handled after a list of a later one; `AlarmListLost` lets the archiving of a list fail: off where convergence is checked, on in the run of the finding |
| `RunRecovery` | discovery, review, binding, projection and replay of a run | every transaction takes the write lock and is one action; a batch is a recursive function over its rows |
| `V2ArchiveProofs` | theorems about `RunRecovery` and `AlarmArchive` | those about the alarms assume `~AlarmListLost`, but for the types |
| `HttpOperations` | `run_operation`, `CommandService`, control ownership, `query_operation`, from one await to the next | the wire appears by its results, which `V2Operations` justifies; the board may refuse anything, at rest too; `Histories` are past runs the database does not know, which are discovered, bound by a review, replayed or put in conflict |
| `HttpOperationsProofs` | theorems about `HttpOperations` and `MaintenanceGate` | |
| `RecipeActivation` | `RecipeService.save`, activation with its upload, the archive and binding of a start, the board's side | the digest of a compiled recipe is the recipe itself |
| `RecipeActivationProofs` | theorem about `RecipeActivation` | |
| `MCBackend` | instance: the maintenance gate and the four modules above, one at a time | components that share no state, chosen by `part`; `HttpOperations` twice, with and without a run of the past |
| `HostCommV1` | the tasks of `HostCommClient` from one await to the next | an answer carries the number of its request, which the client does not read when the protocol has none |
| `HostCommV1Proofs` | theorems about `HostCommV1` and `MeasurementRun` | |
| `MeasurementRun` | samples from the mock's runtime over the callback queue to rows, sessions and their integrity | a sample is its position in `taken` |
| `UpgradeTransaction` | `apply`, `_rollback`, `recover` and the cleanup as a program of named steps (`After`, `AfterRollback`) over disk, service and mutex | any step may fail, the updater may be killed, the power may go, between any two |
| `MCUpgradeTransaction` | instance: every release has a schema of its own | |
| `MCRecovery` | instance: `V2SourceLog` and `UpgradeTransaction`, one at a time, with the fairness of each | components that share no state, chosen by `part` |
| `UpgradeTransactionProofs` | theorems about `UpgradeTransaction` | |
| `DesktopInstall` | `PairingTransaction`, `UninstallTransaction`, `PreservedReinstall`, `initialize` and `dispatch` as one updater process over journals, files, database and service | a pairing takes the epoch it is given, used before or not; `issued` are the numbers used since an epoch last became the device's, `forgotten` those used before |
| `DesktopInstallProofs` | theorems about `DesktopInstall` | |
| `MCLink` | instance: `V2SourceLog`, `V2Lease`, `HostCommV1`, `MeasurementRun` and `DesktopInstall`, one at a time | components that share no state, chosen by `part` |
| `MaintenanceGate` | admission, command guards, the bridge's steps from one await to the next, the installer's side of the request | |

Abstractions common to all: payloads, digests, schemas, identities of 32 hex digits and texts are model
values or small numbers; TLS makes frames authentic; logging and formatting are left out. Why the device
refuses a command (interlocks, recipe, alarms) is left to chance in `V2Operations` and `HttpOperations`, since
the host must cope with any refusal. A device record is a number. The run identity is the operation that started it.

`UpgradeTransaction` and `MaintenanceGate` meet at `maintenance.json`: the first takes a claimed gate as its
starting point and removes it, the second shows what a claimed gate means. `V2Operations`, `V2Lease` and
`V2SourceLog` meet at the session: each models the part of `V2Transport` it depends on. `HttpOperations` stands
above `V2Operations` and takes from it that an intent is written once and an answer is true; `AlarmArchive`
and `RunRecovery` stand above `V2SourceLog` and take from it that each record is ingested once.
`DesktopInstall` leaves replacing a version to `UpgradeTransaction`.

## Runs

Bounds are CONSTANTS set in the `.cfg`; a fault budget covers disconnects, crashes, lost frames and failing
writes, each placed anywhere.

| run | instance | what it shows |
|---|---|---|
| `ops_start_stop` | a start and a stop, sequence numbers up to 2, two boots, two result slots, storage that may refuse a commit, one fault | no operation acts twice, results do not contradict one another, the coordinator refines `OperationLedger` (verdicts are true and stay), and the stop is not overtaken |
| `ops_restore` | a release and another ordinary command, one result slot, two faults, the database restored from its oldest backup | effects stay in `command_seq` order whatever comes back; nothing is begun before what came earlier is settled |
| `ops_restored_stop` | as above with start and stop | violation, see findings |
| `recovery` | two parts, below, under fairness | |
| `log_gaps` | three records in one batch, one gap to a result, two of them lost, under fairness | violation, see findings |
| `log_resend` | three resends and no other fault | violation, see findings |
| `upgrade_boot` | as the upgrade part of `recovery`, two records | violation, see findings |
| `alarm_list_lost` | as the alarms part of `backend`, with lists that fail to be archived | violation, see findings |
| `uninstall_retry` | as the installation part of `links` | violation, see findings |
| `former_epoch` | as the installation part of `links`, one command in each epoch | violation, see findings |
| `backend` | six parts, below | |
| `links` | five parts, below | |

Three runs check components that share no state beside one another: `part` says which one a behaviour is about,
so that the states of the run are the sum of the components' states.

| part of `recovery` | instance | what it shows |
|---|---|---|
| log | two records, one-unit chunks, three transfers, any two faults | acknowledged means durable, projected once; recovery completes if the device can put what is left to read into its results (`LogRecovered`) |
| upgrade | two releases, two attempts, one record, three faults | whole behind an open gate and under a running service, back as before, records kept, a way back, recovery ends |

| part of `backend` | instance | what it shows |
|---|---|---|
| maintenance | one write, command, stop and read, two requests, two faults | a closed gate is quiet (`ClosedIsQuiet`), an unconfirmed one idle (`UnconfirmedIsIdle`), authorisations are durable and given once |
| recovery | one reviewer, two records in batches of one, two boots, one fault, forms up to revision 3 | a verified report rests on every record of the run, a binding on the evidence its reviewer saw, a verdict is final |
| alarms | one alarm, three events, two boots | the archive never shows less than there is, and once everything has arrived it shows the alarm as the board does, unless a frame of the first boot was handled after a list of the second (`AlarmsConverge`) |
| http | two users' starts with an operation_id posted twice, or a start, a stop and a recipe; one fault, one query | what is issued is what was recorded under that identity, no session is closed over a run that is under way and none opened beside it, control changes hands between commands |
| history | two starts beside one run of the past that may still be under way; one fault, one query | a session that a review has bound does not stand in the way of a start, one in conflict does; of the experiments started here one at most is open (`SessionsSound`) |
| recipes | two savers, two definitions of which one fits the second profile, two versions, three turns, two sessions, one fault | a run follows the version its archive names, for the profile it was archived with; a confirmed activation survives a power cut (`RecipesSound`) |

| part of `links` | instance | what it shows |
|---|---|---|
| log | three records, batches of two, chunks that straddle records, storage that may refuse commits | everything the cursor has passed is held or was declared missing, `verified` means held (`CursorSound`) |
| lease | two sessions, two leases, a lease of two ticks, four heartbeats or status reads | evidence the host holds is never newer or longer than the grant; late answers and dying sessions take nothing away |
| client | two callers, three connections, three requests, three faults, a board that answers or ignores | an answer is the board's to that request (`AnswerIsOwn`); whoever notices a loss, somebody is at work on it (`NeverAbandoned`) |
| recording | a queue of one, four samples, one to a phase, two boots of the board, two faults | a measurement called complete has every sample of one boot; a session the backend ended by itself is over |
| install | two devices, two epochs, two commands in each, one record, four updater processes, two accidents | numbers used since an epoch became the device's and records made are never forgotten (`RecordsKept`); board, Windows and the next installer find what belongs together (`InstallationSound`) |

Why these bounds are enough to be interesting: two operations are what ordering, overtaking and the one-slot
result table need; a second boot or session is what "stale" means; one-unit chunks of two-unit records make
every chunk boundary happen inside a record and on one; two attempts with three faults allow an upgrade, its
interrupted rollback, an interrupted recovery and a second upgrade over the remains; two installer requests
with two faults allow a grant that nobody waits for any more and a new request beside it; a callback queue
of one is full as soon as two samples come; two updater faults are an interrupted recovery. Each property has
a mutant that the same instance catches. Deadlock is not checked because every instance ends: operations,
attempts, clock and faults are used up.

Restrictions that matter when reading the results:

* `ScannedIsAccounted` (a part of `CursorSound`) is checked with manual rescans from the first record. A
  manual range that begins beyond the cursor moves `scanned_through_seq` past records that were never
  requested; no document says what the cursor then promises.
* `RecoveryCompletes` (in the run `LogRecovered`) has a premise, `Transferable`: from some time on the device can put every batch the host may
  ask for into one result. `log_gaps` shows that without it recovery need not end. Of the three reasons to refuse,
  only the gaps can arise in the code as it is: a thousand records of at most 8193 bytes stay below the 16 MiB
  of a request, and the end the host asks for comes from the device's own catalogue, which does not shrink. The
  model has all three; what a batch is and where the next one begins (`NextBatch`) matters in `links`, where a scan has two.
* `V2SourceLog` identifies records by `record_seq` within one boot, lets live frames arrive in any order and
  gives the callback queue no limit.
* `V2Lease` leaves recipe upload and the unleased `stop_run` out; `V2Operations` leaves the lease out.
* The faults of an upgrade include an I/O error after the committed journal was written: `apply` then rolls
  back a transaction already recorded as committed. The gate is still closed, so the properties hold.
* `RecipeActivation` moves the board to its second safety profile only at a restart, since commissioning is
  not part of this code, and merges the safe end of a run with its acknowledgement and review-close.
* `HostCommV1` and `MeasurementRun` describe the mock of the board; a start it refuses because it is not idle
  stands for any refusal, and a run begun at the board itself has an identity of its own, once. `DesktopInstall` knows one version.
* `AlarmsConverge` takes every list that was read as archived; `alarm_list_lost` shows why. Its second half leaves
  out the alarms in `late`, for the reason given under the findings. Its first half, that nothing is hidden, holds for
  those too.
* `SessionsSound` speaks of the experiments started here. A run of the past keeps its session open until it has been
  replayed, and `_reserve_start` lets it be once a review has bound it, so there may be several open sessions in
  all. The identities of such runs are taken to differ from those a request gives its experiment.
* `RecordsKept` speaks of the numbers used since an epoch last became the device's, whatever `--controller-epoch`
  a pairing is given. Those used under the same epoch before are the subject of `former_epoch`.
* Records the service writes when Windows starts it at boot between a backup and the recovery are taken away
  by design; `safe` holds those written with the gate open or after the data were declared restored.

## Findings

Seven runs end in a counterexample; `PROJECT.json` quotes the sentences they contradict.

* `ops_restored_stop`: `stop_run` waits for nothing, so after a database restore it may take a
  `command_seq` before `reconcile_highwater` has raised the counter; the device answers `result_expired`
  and the stop is not carried out, while docs/hostcomm/v2/state-and-recovery.md promises that the run
  stays stoppable during recovery.
* `log_resend`: the protocol's own retry of an unacknowledged chunk ends the session when the first
  acknowledgement was only late and it was the transfer's last.
* `log_gaps`: a range with more gaps than a result may declare is refused, and the host, which always asks for the next
  thousand records, asks for the same ones after every reconnect instead of splitting the range: it never becomes ready.
* `upgrade_boot`: during a repair, or its rollback, the directory from which the boot recovery task runs is
  displaced; a power cut in that window leaves the task without a program, so that an operator has to run
  the installer.
* `alarm_list_lost`: the list of active alarms is kept in memory before its transaction commits; when that
  fails, the same revision is not archived again, and the archive shows an alarm active that is over.
* `former_epoch`: a device paired under a second epoch and, with `--controller-epoch` and `--replace-pairing`, under its
  first one again starts from 0; what the board no longer knows, or never saw, is numbered a second time. The
  protocol says that a former epoch must not be enabled again, and nothing checks it.
* `uninstall_retry`: an uninstall resumed after its service was deleted records `removing_task` again;
  interrupted a second time, it goes to stop a service that is not there, and every later retry does so too.

Observed while modelling and not kept as runs: a raise read from a connection that has ended stays in the callback
queue (`v2_transport.py:774`); handled after the list of the restarted board was archived it creates the alarm as active,
the clear of its own boot is ignored (`v2_alarm_archive.py:89-90`), and no list is read again while the revision stays, so
that the archive shows an alarm active that is over. TLC finds traces of this kind when `late` is taken out of `AlarmsConverge`. The
lost acknowledgement of a gate is recreated only if no reply file exists at all (`local_maintenance.py:300`), and
reply files are never removed: the installer's request is answered `blocked`, and its next run recovers the gate. docs/hostcomm/v2/wire.md says an old session cannot write,
but the simulator serves what is still in the old socket until it notices the end (`NewSessionKeepsLease`
and `AtMostOnce` hold regardless); `confirm_owned_lease` takes its token after the status frame was read, so
a frame older than a release re-adopts the released lease on the host until the device refuses it
(`release_lease` has no caller in the application yet); the simulator's catalogue counts records whose
commit its storage refused. A request that died unanswered and is still fresh may be granted after a restart
with no installer waiting; the gate then stays closed until the installer is run again. A gate left in state
`prepared` by a declined authorisation is ignored by recovery. A pairing writes its journal before its gate:
a command sent in between makes recovery refuse the pairing as changed. A start that an operator has
reconciled as never carried out has no bound run, so that review-close refuses its session
(`api/routes/experiment_review.py:131`) and every later start is refused because that session is open.
`on_status` counts the board's test as seen even when the reconciliation it asked for failed
(`main.py:218`), so that it is not tried again until something else asks for it.

## Fairness

Safety runs use a specification without fairness. Two runs, `recovery` and `log_gaps`, use more:

* `V2SourceLog!FairSpec`: weak fairness of every coroutine step of the host and every handler of the device,
  each by itself; an event loop runs a ready coroutine eventually and TCP delivers or fails. `GiveUp`, the
  device's end of a transfer nobody acknowledges, is a timer and fair. Nothing is assumed of faults, rescans
  or new records, and faults are bounded: "once faults cease".
* `UpgradeTransaction!UpgradeFairSpec`: weak fairness of the updater's next step (a process that is alive proceeds)
  and of `Recover`. The second stands for the boot task or an operator who runs the installer again, which
  the code's own error message asks for. `RecoveryEnds` promises no more than that.

## Proofs

TLAPS checks the theorems for every value of the constants that meets the ASSUMEs of the modules.

`V2OperationsProofs` assumes what `OpsAssumption` and `BoundsAssumption` say (kinds, natural bounds).

* `TypeCorrect`: `Spec => []TypeOK`. The type invariant is inductive; lemmas say what `Settle`, `Booked`,
  `Applied`, `Lookup` and the others return.
* `EffectsInOrder`: `Spec => InOrder`. `InOrder` compares an effect with the last one, which says nothing of
  the device's table; the inductive invariant `OrderInv` adds that memory and storage have the same
  waterline and that no effect is above it. A command is fresh only above the waterline
  (`FreshAboveWaterline`), so each effect is above all earlier ones, restores of the host included.
* `NoneAdmittedInDoubt` (`SettledBeforeNext`), restores included. The property relates two rows; what keeps it
  is that a row takes its number above all others in the transaction that finds the rest settled, and that a
  task past that transaction still has its own row. `AdmissionInv` says so (`NumberedRow`, `AuditedRow`,
  `TaskRow`); a step that neither begins an operation nor unsettles a row is `RowsQuiet`.

Its other theorems assume besides that `Restores` is FALSE, that is, that the host database is never put back
to a backup: a restored host has forgotten which identities it used.

* `ActsAtMostOnce` (the property `AtMostOnce`), `RejectionIsProof`, `OutcomeIsProof`, `OutcomeStays`
  (`RejectedNeverActs`, `OutcomeActed`, `OutcomeIsFinal`, which the runs check as part of the refinement) and `ImplementsLedger`, the refinement. The properties
  speak of the host's rows, but what gets into a row comes from an answer, and that from the device's table in
  memory or on disk. The inductive invariant `Identity` therefore follows a status wherever it is held (`Says`):
  a refusal held anywhere excludes an effect, an acceptance held anywhere implies one, and an operation whose
  frame is still to be written or still in flight has neither, with one frame at most. `Descends` says where
  every result of the device comes from; there is a lemma per action; `ChangeStep` sums up what a step does to
  rows and effects, from which `OutcomeStays` and the refinement follow: `RowLedger`, `RestartLedger` and
  `EffectLedger` give the ledger's step.
* `OrdinaryNeverOutrunsStop` (`StopOnlyOutrunByStop`). A waterline is the number of an operation whose frame has
  come and gone (`Passed`, `Waterline`), and numbers tell operations apart (`Numbered`). When a stop in flight is below it, what
  has passed is a later operation; an ordinary one would have found the stop settled or audited when it was
  admitted (`SettledFirst`), and with the frame still in flight the stop is not settled. `Passage` is the invariant.
* `NoConflictToRaise` (`NoResultConflict`). The property compares row and device; `Agreement` compares every
  place that holds a status of an operation, the answers under way included: there is one final outcome of it
  anywhere (`AgreementOf`), none as long as the device's memory holds it as accepted, and one row of it in each
  of the device's tables. `Evolves` says how a step may move the results.

Of the maintenance gate, also in `HttpOperationsProofs`, assuming `WorkAssumption`: the kinds of work are finite
and disjoint.

* `TypeCorrect`, `ClosedGateIsQuiet`, `UnconfirmedGateIsIdle`, `AuthorizationIsClosed`, `GrantedOnce`. None
  of the properties is inductive. `Safe` adds `Counted` (the counter is the number of admitted pieces of
  work, which is why a zero means that there is none), `Quiet` (past the drain there is no admitted work, past
  the first lock no device read, as long as the bridge is there), `Engaged` (the request worked on is at
  least as new as the one answered last) and `Ordered` (the gate is open at the assessment, was closed by
  this request after it, and an installer that starts the service finds it closed). `BridgeStep` is a
  disjunction over what the bridge may do to gate, reply and its own step; `BridgeSteps` shows that its
  actions do no more, and the invariants are proved from it.

`HttpOperationsProofs` assumes `HttpAssumption`: a request is a start, a stop or a recipe, and no user or
operation is called nobody or none, nor is a run of the past called like a test of a request. The requests may be any
set, finite or not, that share identities, tests and users; so may the runs of the past.

* `IssuedIsRecorded` (`IssuedAsRecorded`) and `OwnerOnly` (`OwnerCommands`). The invariant `RequestsKept` says
  of each request past its row that the row is its own and nobody else's (`Recorded`, `OwnRow`), of two
  requests under a guard that they are the same (`Exclusive`), and of a start or recipe past the check that its
  user owns the control (`OwnsControl`). `RequestStep` sums up what an action of a request may do to requests,
  rows and owner; there is a lemma per action, and the invariant is proved from the summary once.
* `SessionsAreSound` (`SessionsSound`). That the board runs a test says nothing by itself of the session; the
  link is the start. `StartsSound` says that at most one start of a test is ever sent and that while it flies the
  session is open; `RunSound` that a run under way was started by such a command; `WireTrue` that a row
  of the wire that says rejected is right and that a command on the wire has a row; `StartKept` what a start
  may rely on between its reservation and its end. Most steps are `Calm`: they send nothing, open no session
  and close none that is still needed (`Needed`). What is left is the archive of a start and its sending. A run of the
  past is never a request's, so its sessions, bindings and reviews move none of this; that it is over when
  a start is reserved is the board's word in the status (`AtRest`), whatever the review says.
* `HttpTypeSafe`: sessions and bindings name tests of the requests or runs of the past, control their users, which each action is shown
  to keep; the rows and the run of the board have their types from `RequestsKept`.

`HostCommV1Proofs` assumes nothing of the callers of the client, which may be any set, for the type of its state that
bounds are natural (`V1Assumption`), and of the recording what `MeasurementAssumption` says: a queue of at least
one frame, natural bounds.

* `AnswersAreOwn` (`AnswerIsOwn`). `OneQuestion` says that one caller at most is out asking for parameters,
  given up or not, and that the connection carries at most one frame of parameters, the one for the caller
  who still waits; `LinkKept` that nothing is on a connection that is not there. A request that times out
  empties the wire (`ChangeSession`), so no frame outlives its question. The requests seen so far are some
  set `R` (`Typed(R)`), which keeps the arithmetic of their numbers out of the proof.
* `AlwaysAttended` (`NeverAbandoned`). The property is nearly inductive; `Supervised` adds that the
  reconnect task that opens is the opener, and that an opener past the dialling has a connection with its reader.
* `V1TypeSafe`: the reader there is reads the connection there is, or there is none; heartbeats missed stay within the
  limit, since at the limit no further one is counted: the connection is torn down.
* `CompleteRunsAreWhole` (`CompleteIsWhole`). A cursor only ever sees one sample and the one before; that a run is
  whole is a statement about all of them. `WholeSoFar` makes the step: behind a cursor without a gap the samples
  stored of the test are one piece of one boot that ends with the cursor (`OnePiece`), and until the measurement is
  over none of them is beyond it and a temperature seen below 600 degrees was the run's own (`ToMeasure`). The last
  part also needs something of the board, `SamplesTrue`: `continuity_proven` counts a sample of the safe phase as
  one below 600 degrees, which does no harm because such a sample follows another that is over and two are wanted.
  To a session a step does one of three things: it `GoesOn`, `Begins` or is `Sampled`.
* `ClosedIsOver` (`EndedIsOver`). `RunsOnce`: whatever a sample shows as safe runs no more. `StartOnce`: as long as
  the start may still reach the board, from the archive to the wire, there is neither a sign of its run nor a refusal;
  `ClosedFor` ties both to the phase of the session. `RecordingTyped` is the type invariant, whose part `Spoken`
  says that a sample is on the connection, queued or stored only once it was taken.

`V2LinkProofs` assumes for the lease that the bounds are natural numbers and lifetime and timeout positive.

* `EvidenceIsGranted` (`EvidenceSound`). What the host believes came in an answer or a status frame, and that
  from the device as it was when it answered; in between the device may have changed and frames of an older
  connection arrive late. The invariant `LeaseKept(own, since)` therefore carries the history as a function
  and a number that no variable holds: `own`, the session each lease was granted to, and `since`, the revision
  with which the device granted the lease it has. Every place that speaks of a lease (the host's context, answers
  and frames on their way, requests not yet answered, the device) is sound with respect to them: a frame that is
  newer than the grant and names no lease proves that the lease is gone, and one that names the lease outlives no
  grant. `Kept` says that there are such `own` and `since`: a grant changes them, and nothing else does.
* `OldRepliesRevokeNothing` and `OldSessionsTakeNothing` (`NoReplyRevokesNewer`, `NewSessionKeepsLease`), action
  properties, from the same invariant: the first from what a frame and a refusal prove, the second because
  what is left of an old session names that session, which holds no lease any more.
* `LeaseTypeSafe`. Every deadline lies between the request it was counted from and the end of a lease the device
  may have granted by then. That is no matter of types alone: a deadline is computed from a frame, so each frame on its way or
  read must tell of a lease that had not run out when it was told (`Timely`), which the device ensures by
  sweeping first; and a lease the host counts as granted was issued, because an acquisition that was answered
  with success names one (`LeaseBounded`).

`RecipeActivationProofs` assumes `RecipeAssumption`: a portable definition is a definition, bounds are natural.

* `RecipesAreSound` (`RecipesSound`). The argument needs neither sessions nor leases. The invariant `RecipeInv`
  has layers. `Bound`: what is bound is a saved version, and board, storage, turn and frames know only what is
  bound. `Numbered`: a turn has a number of its own and sends one frame, which is gone once the board has an
  outcome or a run of that number. `Commissioned`: the board's profile only rises, so that what it holds was compiled
  for a profile that is not higher; that is why a start whose archive and binding name the recipe compiled for two
  different profiles cannot get through (`Started`). `Confirmable`: a frame is void once the revision it was
  sent under has passed, and what the board holds differs from what survives a power cut only while an outcome is
  unknown; an activation answered with success leaves no frame that is not void. `RecipeSteps` reduces the
  actions to a dozen kinds of step, from which the layers are proved.
* `RecipeTypeSafe`. Sessions and leases, which the argument above leaves out: the board's lease is nobody's or that of
  a session it has, and its sessions were opened (`SessionsKnown`). What is bound is one of the recipes there may
  be, because a draft was numbered while there was room for it (`RowsBounded`).

`UpgradeTransactionProofs` assumes `VersionsAssumption` and `BoundsAssumption`: release 1 is one of the
releases, which are positive numbers, as their schemas are; bounds are natural.

* `TypeCorrect`, `WholeForEveryone` (`InstallationIsWhole`), `RollbackRestores` (`RolledBackIsBefore`),
  `NoSafeRecordLost` (`SafeRecordsKept`), `AlwaysAWayBack` (`WayBack`) and `UnfinishedIsReversible`, which no run
  states. The updater may be killed at any step and then knows only what is on disk, so the invariant
  `UpgradeInv` has two halves. `Recorded` is about the disk: behind a journal that is over the installation is
  whole (`Whole`), behind one that is not it can be gone back by (`Reversible`): its gate is claimed, the data are
  as before or their backup is and holds every record that is safe (`DataKept`), and the earlier program is in its
  place or displaced (`ProgramKept`), depending on the step the journal records. A crash preserves this half
  as it is. `Holds(at, m, g)` is about the updater: what follows from its being at a step, of its
  journal `m` and the disk (`Knows`, `Installs`, `Undoes`), which is what makes the next write of the journal
  true. `Served` ties both to the service: none runs while the mutex is held. There is a lemma per action;
  steps that leave the disk alone need only what `Holds` says of the next step (`Moves`, `OnlyMoved`).

`V2LinkProofs` assumes for the log what `LogAssumption` says: records, batch and chunk positive, rescans from records there may
be, identities numbers.

* `AckedBytesAreDurable` (`AckedIsDurable`). The property compares the device's index with a row of the host, and
  between the two are frames: chunks on their way and in the callback queue, an ack made and not sent, acks on
  their way. `TransferInv` follows an identity through all of them. `Unserved`: a request is the first frame of its
  transfer and sent once, which is why nothing old can be taken for an answer to it. `AsCut`: a chunk of the
  transfer under way, wherever it is, ends where the device's cut says (`Covered`). `Durable`: an ack, made or sent,
  speaks of bytes the row has. A step that sends nothing is `Quiet`; the rest (`Sends`) are six, with a lemma each.
  `AscendingType`, that a cut lists its records, needs that each rank is some record's, which
  follows from the least-number principle of the library, without induction.
* `ArchivedAtMostOnce` (`ArchivedOnce`) and `TypeCorrect`, from the typed part of the same invariant, `LogTyped`.
* `VerifiedAlwaysHeld` (`VerifiedIsHeld`), wherever rescans begin: a batch validated as a whole has every record of
  its interval, and the interval of the cursor is put together from such batches that touch (`Joined`).
* `CursorAlwaysSound` (`CursorSound`) assumes that maintainers rescan from record 1, see above. `NothingSkipped`
  is what makes it inductive: a scan never begins beyond the record after the watermark.

`V2ArchiveProofs` assumes `RunAssumption` and `AlarmAssumption`: natural bounds, a batch of at least one record,
a board that has booted.

* `ReportWhole` (`ReportIsWhole`), `BindSaw` (`BindSawEvidence`), `EndStays` (`EndIsFinal`) and `RunTypeSafe`. That a
  report rests on every record cannot be seen from the verdict of the last batch alone: `RunInv` says of every row
  that the replay has passed that it is whole (`PassedWhole`) and, while the verdict stands, of those ingested since,
  which are whole because a bound test archives what arrives (`OnRecord`), unless a conflict takes the verdict back.
  `RowsSound` ties what the archive made of a row to its counter; `CaseSound` ties case and test (no binding without
  a case, no verdict without a binding); `FormsSound` makes the revision a form carries stand for its
  evidence, which is what `_review` compares. A batch is a recursive function over its rows: `Counting`, induction
  over the rows of a batch stated with a set instead of a predicate, gives that the function is
  what its equation says (`ReplaysAre`) and that each row keeps the invariant.

* `ArchiveConverges` (`AlarmsConverge`), if no list that was read fails to be archived; otherwise it is false, see
  the findings. `AlarmTypeSafe` holds either way. An alarm only ever ceases to be active and to be unacknowledged
  (`Below`), and `_apply` combines what it is told in the same direction, so the archive can err in two ways only: to
  know less than was ingested, or more than is so. `Ingested` excludes the first: whatever was ingested, the alarm's
  projection is at least that far. It survives an early return of `event()` only because a projection
  knows all that was logged up to its own clock (`ProjSound`), which is what comparing boot, sequence and
  uptime amounts to. `ListSound` makes a list the word on all events up to its revision, so that an alarm it leaves out
  can be taken for over. `ThisBoot` is where order matters: a backfill runs only after the status check of
  its session has archived a list of this boot and the callback queue of the sessions before is empty, hence an
  event of an earlier boot that it reads is never the newest word. One that is left in that queue may be: it sets the
  projection's clock back, after which later events of its boot count as outdated, so `Ingested` and the clock of
  a projection are claimed of the alarms outside `late` only. Excluding the second needs nothing but that device
  and log only go forward (`Ahead`), and so holds of all.

`DesktopInstallProofs` assumes `InstallAssumption`: natural bounds, and no device named like the two states in
which a configuration names none.

* `RecordsAreKept` (`RecordsKept`), `InstallationIsSound` (`InstallationSound`) and `InstallTyped`. The properties
  look at the gate, the database and the service alone, but an updater that comes after a killed one knows only
  the three journals and what is on disk. `InstallInv` therefore ties these together. `ReinstallJournal` and
  `UninstallJournal` say what each phase stands for: a reinstall under way has the archive of the last uninstall,
  and a gate closed for an uninstall has its journal or still its pointer. `SpareKept` is the reason why a
  restore loses nothing: from the step before the journal calls the backup ready until the reinstall is recorded
  as over, the gate is closed, so that neither numbers nor records that must be kept can be added
  to those the backup has (`Remembers`, `SpareSound`). `Matched`: only a pairing under way, behind its own gate,
  leaves configuration and database apart, and then by the identity its journal names; `Pairable` that nothing
  counted as issued has used the epoch it brings, which is why it may start at zero: a pairing that takes up an epoch
  the device had before sets the numbers of that epoch aside as `forgotten`. `Service`: what is not whole has no pointer and never
  starts by itself, and unless this is a first install the journal says how it is made whole (`Torn`). The
  rest (`Guards` to `Undoing`) is what follows from the step the updater is at. There is a lemma per action; those
  that touch neither data nor history need `DataStays`, `SpareStays` and `MatchStays` only.

Model-checked only: the liveness properties (`LogRecovered`, `RecoveryEnds`), which the prover cannot
treat since fairness needs ENABLED; and what induction over data would need. `TypesOK` of `backend` and `links`
is the conjunction of ten type invariants, each a theorem about its component.

## What is not modelled

* The contract layer (`v2_contract`): schemas, canonical JSON, digests.
* Numerical evaluation, reports, trends; the parameters of a HostComm 1.0 board; authentication; WebSocket
  fan-out; background jobs and the gateway lease; frontend; build and packaging.
* Of the board: stage advance, first drip, interlocks; of the mock, recipe stages and the faults of a bench.
* Of the transport: capacities, retired message identities, reconnect delays.
* Of the maintenance service: `prepare_upgrade`, `claim_upgrade` and `cancel_upgrade`, the path of older
  versions that only tests still call; backups and the retention of temporary files.
* Of the upgrade: `_preserve_current` for journals of schema 1, disk space, verification of packages, a
  migration child that outlives its killed updater (the mutex is inherited).
* Of pairing and installation: ACLs, credential files, single instance, space reservation, the window shell.

## Plan

Built: all modules of the table above; every property of `V2Operations`, `V2Lease`, `V2SourceLog`, `HostCommV1`,
`MeasurementRun`, `HttpOperations`, `MaintenanceGate`, `RecipeActivation`, `RunRecovery`, `AlarmArchive`,
`UpgradeTransaction` and `DesktopInstall` that the runs check for them is also a theorem, but for liveness.

1. `DeviceRun`: the simulator's run, stages, interlocks and storage in one module, against an abstract safety
   controller (a lost lease or a trip ends in disposal; a reboot never resumes heating).
2. `V2Transport`: retired identities and capacities, then a composition with `V2Lease`.
3. `BackgroundJobs`: limits and pruning.

Abstract specifications worth stating besides `OperationLedger`: an installation that is either old or new
(for `UpgradeTransaction`), and a log that is a set of held and missing numbers (for `V2SourceLog`).
