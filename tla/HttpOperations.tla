--------------------------- MODULE HttpOperations ---------------------------
(***************************************************************************)
(* The HTTP side of a device command: run_operation                        *)
(* (backend/app/services/operations.py) around CommandService and          *)
(* ParameterService, the reservation and archive of a start, the control   *)
(* ownership and query_operation.                                          *)
(*                                                                         *)
(* A request is written down as a row of Operation before anything is      *)
(* sent, and the start of an experiment as an open TestSession too.        *)
(* Ordinary requests run one at a time under the command guard of the      *)
(* maintenance manager, a stop beside them under the guard of its own, and *)
(* a query under none.  Requests may fail at every await, and the backend  *)
(* may die.                                                                *)
(*                                                                         *)
(* The wire below is V2Operations' subject and appears by its results: an  *)
(* intent is written once per identity, a result that is answered is true, *)
(* and a command that was passed by a newer one is not carried out.        *)
(***************************************************************************)
EXTENDS Integers, FiniteSets

CONSTANTS
  HttpScenarios,\* sets of requests [op, kind, test, user] that are posted beside
                \* one another; op is the operation_id posted
  Histories,    \* REC- tests of reviews: runs the database of the backend does not know
  HttpAdmins,   \* users that may take control over
  HttpMaxFaults,\* bound: failing requests, lost messages, crashes
  HttpMaxQueries\* bound: queries

HttpRequests == UNION HttpScenarios
Ops    == {r.op : r \in HttpRequests}
Tests  == {r.test : r \in HttpRequests}
Users  == {r.user : r \in HttpRequests}
Nobody == "nobody"
None   == "none"

ASSUME HttpAssumption ==
  /\ \A r \in HttpRequests : /\ r.kind \in {"start", "stop", "set"}
                             /\ {r.user, r.op, r.test} \cap {Nobody, None} = {}
  /\ Histories \cap (Tests \cup {None}) = {}
  /\ {HttpMaxFaults, HttpMaxQueries} \subseteq Nat

VARIABLES
  rows,    \* Operation: what was posted, its status, whether result_json is there
  sess,    \* TestSession: phase of each test that has one
  bound,   \* tests with a V2RunBinding
  review,  \* V2RunRecovery.review_state of each history
  owner,   \* ControlOwnership
  reserved, \* _pending_start_test_id
  tasks,   \* each request: how far it got, and the stage of its OperationExecution
  wire,    \* V2Operation of each row: its lease prerequisite, its command, reconciled
  lease,   \* this session holds the device's lease
  fate,    \* what became of each command on the wire
  furnace,  \* the device: run under way, its recipe, runs that ended
  query,  \* the query under way
  budget   \* faults and queries used

web    == <<tasks, reserved>>
tables == <<rows, sess, bound, review, owner>>
board  == <<lease, fate, furnace>>
httpVars == <<rows, sess, bound, review, owner, reserved, tasks, wire, lease, fate, furnace, query, budget>>

Open(t) == t \in DOMAIN sess /\ sess[t] \notin {"start_rejected", "completed"}
NoWire  == [lease |-> "absent", biz |-> "absent", run |-> None, reconciled |-> FALSE]
NoQuery == [op |-> None]
Posted(r) == [kind |-> r.kind, test |-> r.test, user |-> r.user]
NewRow(r) == [posted |-> Posted(r), status |-> "pending", done |-> FALSE]
RowAdded(table, key, row) == [k \in DOMAIN table \cup {key} |-> IF k = key THEN row ELSE table[k]]

HttpInit ==
  /\ rows = << >> /\ sess = << >> /\ bound = {} /\ owner = Nobody /\ reserved = None
  /\ review = [t \in Histories |-> "unreviewed"]
  /\ \E posts \in HttpScenarios : tasks = [r \in posts |-> [pc |-> "idle", stage |-> "pending"]]
  /\ wire = [o \in Ops |-> NoWire] /\ lease = FALSE
  /\ fate = [o \in Ops |-> "none"]
  /\ \E t \in Histories \cup {None} :
       furnace = [run |-> t, recipe |-> None, ended |-> Histories \ {t}]
  /\ query = NoQuery
  /\ budget = [faults |-> 0, queries |-> 0]

HttpFault == /\ budget.faults < HttpMaxFaults
             /\ budget' = [budget EXCEPT !.faults = @ + 1]

-----------------------------------------------------------------------------
(* Guards and steps                                                        *)

Running(r)  == tasks[r].pc # "idle"
Priority(r) == r.kind = "stop"
(* command_guard: one ordinary request, one stop.                          *)
Admitted(r) == \A q \in DOMAIN tasks : Running(q) => Priority(q) # Priority(r)
OrdinaryFree == \A q \in DOMAIN tasks : Running(q) => Priority(q)

At(r, pc) == tasks[r].pc = pc
Goto(r, pc) == tasks' = [tasks EXCEPT ![r].pc = pc]
Finish(r) == /\ tasks' = [tasks EXCEPT ![r] = [pc |-> "idle", stage |-> "pending"]]
             /\ reserved' = IF r.kind = "start" /\ reserved = r.test THEN None ELSE reserved
Written(r, status, done) ==
  rows' = [rows EXCEPT ![r.op].status = status, ![r.op].done = done]

-----------------------------------------------------------------------------
(* run_operation: the row                                                  *)

(* get_operation, for a request posted for the first time or again: with a *)
(* row there is nothing more to do, another's or another request under     *)
(* this identity is refused (409) and one's own answered from the row.     *)
LookUp(r) ==
  /\ At(r, "idle") /\ Admitted(r)
  /\ r.op \notin DOMAIN rows
  /\ Goto(r, "insert")
  /\ UNCHANGED <<reserved, tables, wire, board, query, budget>>

MutantInsert(r) ==
  /\ At(r, "insert")
  /\ rows' = IF r.op \in DOMAIN rows THEN rows
             ELSE RowAdded(rows, r.op, NewRow(r))
  /\ Goto(r, "begun")
  /\ UNCHANGED <<reserved, sess, bound, review, owner, wire, board, query, budget>>

(* The commit decides between two requests that both saw no row: the loser *)
(* reads the winner's row.                                                 *)
Insert(r) ==
  /\ At(r, "insert")
  /\ IF r.op \in DOMAIN rows THEN Goto(r, "idle") /\ UNCHANGED rows
     ELSE /\ rows' = RowAdded(rows, r.op, NewRow(r))
          /\ tasks' = [tasks EXCEPT ![r] = [pc |-> "begun", stage |-> "pending"]]
  /\ UNCHANGED <<reserved, sess, bound, review, owner, wire, board, query, budget>>

-----------------------------------------------------------------------------
(* CommandService._execute up to the command                               *)

(* What the device says of a command when asked.                           *)
DeviceSays(o) == CASE fate[o] = "acted" -> "applied"
                   [] fate[o] = "refused" -> "rejected"
                   [] OTHER -> "not_found"
Settled == {"applied", "rejected"}
Unsettled(w) == ~w.reconciled /\ \E s \in {w.lease, w.biz} : s \in {"sent", "unknown", "not_found"}

(* refresh_operations: query whatever is not settled; a lease asked for    *)
(* was granted, refused or never came.                                     *)
LeaseAnswers == {"applied", "rejected", "not_found"}
Refreshed(w, o, said) ==
  IF w.reconciled THEN w
  ELSE [w EXCEPT !.lease = IF @ = "unknown" THEN said ELSE @,
                 !.biz = IF @ = "unknown" THEN DeviceSays(o) ELSE @]

AtRest == furnace.run = None

(* preflight and check_state.  A stop passes them all.                     *)
Preflight(r) ==
  /\ At(r, "begun")
  /\ IF Priority(r) THEN Goto(r, "allowed") /\ UNCHANGED wire
     ELSE /\ \E said \in LeaseAnswers : wire' = [o \in Ops |-> Refreshed(wire[o], o, said)]
          /\ LET open == \E o \in DOMAIN rows : /\ rows[o].posted.kind # "stop"
                                                /\ Unsettled(wire'[o])
             IN Goto(r, IF open \/ ~AtRest THEN "refused" ELSE "allowed")
  /\ UNCHANGED <<reserved, tables, board, query, budget>>

(* _reserve_start: every open session stands in the way but those of       *)
(* histories bound by a review, reviewed_history.                          *)
Conflicting     == {t \in Histories : review[t] = "conflict"}
ReviewedHistory == {t \in Histories : t \in bound /\ review[t] = "bound"}
MutantReservable(t) ==
  /\ reserved = None /\ t \notin DOMAIN sess /\ AtRest
  /\ \A u \in DOMAIN sess : Open(u) => u \in bound

Reservable(t) ==
  /\ reserved = None /\ t \notin DOMAIN sess /\ AtRest
  /\ \A u \in DOMAIN sess : Open(u) => u \in ReviewedHistory

Reserve(r) ==
  /\ At(r, "allowed") /\ r.kind = "start"
  /\ IF Reservable(r.test) THEN reserved' = r.test /\ Goto(r, "reserved")
     ELSE UNCHANGED reserved /\ Goto(r, "refused")
  /\ UNCHANGED <<tables, wire, board, query, budget>>

(* The confirmation, and assert_control_owner: the first to command owns   *)
(* the control, and the owner's commands are the only ones.                *)
TakeControl(r) ==
  /\ <<tasks[r].pc, r.kind>> \in {<<"reserved", "start">>, <<"allowed", "set">>}
  /\ IF owner \in {Nobody, r.user} THEN owner' = r.user /\ Goto(r, "owned")
     ELSE UNCHANGED owner /\ Goto(r, IF r.kind = "start" THEN "failing" ELSE "refused")
  /\ UNCHANGED <<reserved, rows, sess, bound, review, wire, board, query, budget>>

(* _prepare_start_archive: the open session is there before the command.   *)
Archive(r) ==
  /\ At(r, "owned") /\ r.kind = "start"
  /\ sess' = RowAdded(sess, r.test, "awaiting_device")
  /\ Goto(r, "archived")
  /\ UNCHANGED <<reserved, rows, bound, review, owner, wire, board, query, budget>>

(* mark_sent                                                               *)
MarkedSent(r) ==
  /\ <<tasks[r].pc, r.kind>> \in
       {<<"archived", "start">>, <<"owned", "set">>, <<"allowed", "stop">>}
  /\ tasks' = [tasks EXCEPT ![r] = [pc |-> "marked", stage |-> "sent"]]
  /\ Written(r, "sent", FALSE)
  /\ UNCHANGED <<reserved, sess, bound, review, owner, wire, board, query, budget>>

-----------------------------------------------------------------------------
(* V2Client.send_command                                                   *)

(* _ensure_lease: with no lease held, acquiring one is a command itself.   *)
LeaseAsked(r) ==
  /\ At(r, "marked") /\ ~Priority(r) /\ ~lease
  /\ wire' = [wire EXCEPT ![r.op].lease = "sent"]
  /\ Goto(r, "leasing")
  /\ UNCHANGED <<reserved, tables, board, query, budget>>

Leased(r) ==
  /\ At(r, "leasing")
  /\ \/ /\ wire' = [wire EXCEPT ![r.op].lease = "applied"]
        /\ lease' = TRUE /\ Goto(r, "marked") /\ UNCHANGED budget
     \/ /\ wire' = [wire EXCEPT ![r.op].lease = "rejected"]
        /\ Goto(r, "failing") /\ UNCHANGED <<lease, budget>>
     \/ /\ wire' = [wire EXCEPT ![r.op].lease = "unknown"]
        /\ HttpFault /\ Goto(r, "failing") /\ UNCHANGED lease
  /\ UNCHANGED <<reserved, tables, fate, furnace, query>>

(* The run's binding and the intent are committed, then the command is     *)
(* written.  A stop needs a run to name.                                   *)
Issue(r) ==
  /\ At(r, "marked") /\ (Priority(r) \/ lease)
  /\ IF Priority(r) /\ AtRest THEN Goto(r, "failing") /\ UNCHANGED <<bound, wire, fate>>
     ELSE /\ bound' = IF r.kind = "start" THEN bound \cup {r.test} ELSE bound
          /\ wire' = [wire EXCEPT ![r.op].biz = "sent",
                                  ![r.op].run = IF Priority(r) THEN furnace.run ELSE None]
          /\ fate' = [fate EXCEPT ![r.op] = "flying"]
          /\ Goto(r, "issued")
  /\ UNCHANGED <<reserved, rows, sess, review, owner, lease, furnace, query, budget>>

(* The board carries out what reaches it, or refuses it: a start needs it  *)
(* at rest and a stop its own run, and boot, lease, revision, interlocks,  *)
(* alarms or recipe may forbid either (_command_permission).  What it has  *)
(* passed is lost.                                                         *)
Deliver(o) ==
  /\ fate[o] = "flying"
  /\ \E permitted \in BOOLEAN :
     LET k == rows[o].posted.kind
         acts == permitted /\ furnace.run = wire[o].run
     IN /\ fate' = [p \in Ops |->
              IF p = o THEN IF acts THEN "acted" ELSE "refused"
              ELSE IF k # "stop" /\ fate[p] = "flying" /\ wire[p].reconciled THEN "lost" ELSE fate[p]]
        /\ furnace' = IF ~acts THEN furnace
                     ELSE CASE k = "start" -> [furnace EXCEPT !.run = rows[o].posted.test]
                            [] k = "set"   -> [furnace EXCEPT !.recipe = o]
                            [] OTHER       -> furnace
  /\ UNCHANGED <<web, tables, wire, lease, query, budget>>

Lose(o) ==
  /\ fate[o] = "flying" /\ HttpFault
  /\ fate' = [fate EXCEPT ![o] = "lost"]
  /\ UNCHANGED <<web, tables, wire, lease, furnace, query>>

(* A run ends safely; the archive closes its session (v2_archive._run),    *)
(* unless its evidence is in conflict.                                     *)
RunEnds ==
  /\ ~AtRest
  /\ furnace' = [furnace EXCEPT !.run = None, !.ended = @ \cup {furnace.run}]
  /\ sess' = IF Open(furnace.run) /\ furnace.run \notin Conflicting
             THEN [sess EXCEPT ![furnace.run] = "completed"] ELSE sess
  /\ UNCHANGED <<web, rows, bound, review, owner, wire, lease, fate, query, budget>>

(* submit() returns the device's answer, or unknown (a timeout here).      *)
Answered(r) ==
  /\ At(r, "issued")
  /\ \/ /\ fate[r.op] \in {"acted", "refused"}
        /\ wire' = [wire EXCEPT ![r.op].biz = DeviceSays(r.op)]
        /\ Goto(r, "answered") /\ UNCHANGED budget
     \/ /\ wire' = [wire EXCEPT ![r.op].biz = IF @ \in Settled THEN @ ELSE "unknown"]
        /\ HttpFault /\ Goto(r, "failing")
  /\ UNCHANGED <<reserved, tables, board, query>>

(* record_device_result                                                    *)
ResultRecorded(r) ==
  /\ At(r, "answered")
  /\ LET status == IF wire[r.op].biz = "applied" THEN "accepted" ELSE "rejected"
     IN /\ Written(r, status, FALSE)
        /\ tasks' = [tasks EXCEPT ![r] = [pc |-> "recorded", stage |-> status]]
  /\ UNCHANGED <<reserved, sess, bound, review, owner, wire, board, query, budget>>

-----------------------------------------------------------------------------
(* After the command                                                       *)

(* _handle_lifecycle                                                       *)
Lifecycle(r) ==
  /\ At(r, "recorded") /\ r.kind # "set"
  /\ LET ok == tasks[r].stage = "accepted"
     IN CASE r.kind = "start" /\ ~ok ->
               /\ sess' = IF Open(r.test) THEN [sess EXCEPT ![r.test] = "start_rejected"] ELSE sess
               /\ Goto(r, "ended")
          [] r.kind = "stop" /\ ok ->
               /\ sess' = IF wire[r.op].run \in bound /\ Open(wire[r.op].run)
                          THEN [sess EXCEPT ![wire[r.op].run] = "stopping"] ELSE sess
               /\ Goto(r, "ended")
          [] OTHER -> Goto(r, "ended") /\ UNCHANGED sess
  /\ UNCHANGED <<reserved, rows, bound, review, owner, wire, board, query, budget>>

(* _set_parameters goes on only with an accepted recipe that is read back. *)
ReadBack(r) ==
  /\ At(r, "recorded") /\ r.kind = "set"
  /\ Goto(r, IF tasks[r].stage = "accepted" /\ furnace.recipe = r.op THEN "ended" ELSE "failing")
  /\ UNCHANGED <<reserved, tables, wire, board, query, budget>>

Conclude(r) ==
  /\ At(r, "ended")
  /\ Written(r, IF r.kind = "set" THEN "verified" ELSE tasks[r].stage, TRUE)
  /\ Finish(r)
  /\ UNCHANGED <<sess, bound, review, owner, wire, board, query, budget>>

(* An exception at any await: cancellation, a failing commit, no answer.   *)
Raised(r) ==
  /\ HttpFault
  /\ \/ At(r, "insert") /\ Goto(r, "idle")
     \/ /\ tasks[r].pc \in {"begun", "allowed"} /\ Goto(r, "refused")
     \/ /\ tasks[r].pc \in {"reserved", "owned", "archived", "marked", "answered",
                           "recorded", "ended"}
        /\ Goto(r, "failing")
  /\ UNCHANGED <<reserved, tables, wire, board, query>>

MutantAfterFailure(r) == IF tasks[r].stage = "sent" THEN "needs_review" ELSE "start_rejected"

(* A start that failed leaves its session for review, unless no intent of  *)
(* it was ever committed.                                                  *)
AfterFailure(r) == IF wire[r.op].biz = "absent" THEN "start_rejected" ELSE "needs_review"

Failed(r) ==
  /\ At(r, "failing")
  /\ \/ /\ sess' = IF r.kind = "start" /\ Open(r.test)
                   THEN [sess EXCEPT ![r.test] = AfterFailure(r)]
                   ELSE sess
        /\ UNCHANGED budget
     \/ HttpFault /\ UNCHANGED sess
  /\ Goto(r, "refused")
  /\ UNCHANGED <<reserved, rows, bound, review, owner, wire, board, query>>

(* run_operation's except: what may have been sent is unknown.             *)
RefusalRecorded(r) ==
  /\ At(r, "refused")
  /\ \/ /\ Written(r, IF tasks[r].stage \in {"sent", "accepted"} THEN "unknown" ELSE "rejected",
                   rows[r.op].done)
        /\ UNCHANGED budget
     \/ HttpFault /\ UNCHANGED rows
  /\ Finish(r)
  /\ UNCHANGED <<sess, bound, review, owner, wire, board, query>>

(* The backend dies and starts: recover_interrupted_operations, and the    *)
(* coordinator's initialize.                                               *)
BackendDies ==
  /\ HttpFault
  /\ \E r \in DOMAIN tasks : Running(r)
  /\ tasks' = [r \in DOMAIN tasks |-> [pc |-> "idle", stage |-> "pending"]]
  /\ reserved' = None
  /\ rows' = [o \in DOMAIN rows |->
               IF ~rows[o].done /\ rows[o].status \in {"pending", "sent", "accepted"}
               THEN [rows[o] EXCEPT !.status = "unknown"] ELSE rows[o]]
  /\ wire' = [o \in Ops |-> [wire[o] EXCEPT !.lease = IF @ = "sent" THEN "unknown" ELSE @,
                                            !.biz = IF @ = "sent" THEN "unknown" ELSE @]]
  /\ lease' = FALSE /\ query' = NoQuery
  /\ UNCHANGED <<sess, bound, review, owner, fate, furnace>>

-----------------------------------------------------------------------------
(* query_operation, under no guard: it decides first whether it asks for   *)
(* the command or for its prerequisite, and writes its row at the end.     *)

AskDevice(o, reconcile) ==
  /\ query = NoQuery /\ budget.queries < HttpMaxQueries
  /\ budget' = [budget EXCEPT !.queries = @ + 1]
  /\ o \in DOMAIN rows /\ (wire[o].biz # "absent" \/ wire[o].lease # "absent")
  /\ query' = [op |-> o, prerequisite |-> wire[o].biz = "absent",
               reconcile |-> reconcile, said |-> None]
  /\ UNCHANGED <<web, tables, wire, board>>

(* What the device may say of the lease asked for, or of the command.      *)
Answers(q) ==
  IF q.prerequisite
  THEN IF wire[q.op].lease \in Settled THEN {wire[q.op].lease} ELSE LeaseAnswers
  ELSE {IF wire[q.op].biz \in Settled THEN wire[q.op].biz ELSE DeviceSays(q.op)}

Queried(q, w, said, rests) ==
  [w EXCEPT !.lease = IF q.prerequisite THEN said ELSE @,
            !.biz = IF q.prerequisite THEN @ ELSE said,
            !.reconciled = @ \/ rests]

(* The device's word; and, for an operator's reconciliation of a result    *)
(* that stays unknown, a status that proves the device at rest.            *)
Hear ==
  /\ query.op # None /\ query.said = None
  /\ \E said \in Answers(query) :
       LET rests == query.reconcile /\ said = "not_found" /\ AtRest
       IN /\ query' = IF query.reconcile /\ ~rests THEN NoQuery ELSE [query EXCEPT !.said = said]
          /\ wire' = [wire EXCEPT ![query.op] = Queried(query, @, said, rests)]
  /\ UNCHANGED <<web, tables, board, budget>>

(* _close_rejected_start: only a rejection that is kept proves the run was *)
(* never accepted.                                                         *)
Closable(q) ==
  /\ rows[q.op].posted.kind = "start" /\ ~q.prerequisite /\ q.said = "rejected"
  /\ rows[q.op].posted.test \in bound /\ Open(rows[q.op].posted.test)
  /\ rows[q.op].posted.test \notin {furnace.run} \cup furnace.ended

Status(q) ==
  CASE q.prerequisite -> IF q.said \in Settled \/ q.reconcile THEN "rejected" ELSE "unknown"
    [] q.said = "applied" /\ rows[q.op].posted.kind = "set" /\ furnace.recipe = q.op -> "verified"
    [] q.said = "applied"  -> "accepted"
    [] q.said = "rejected" -> "rejected"
    [] OTHER -> "unknown"

Noted ==
  /\ query.op # None /\ query.said # None
  /\ IF rows[query.op].status = "verified" /\ ~query.prerequisite THEN UNCHANGED <<rows, sess>>
     ELSE /\ rows' = [rows EXCEPT ![query.op].status = Status(query), ![query.op].done = TRUE]
          /\ sess' = IF Closable(query)
                     THEN [sess EXCEPT ![rows[query.op].posted.test] = "start_rejected"]
                     ELSE sess
  /\ query' = NoQuery
  /\ UNCHANGED <<web, bound, review, owner, wire, board, budget>>

-----------------------------------------------------------------------------
(* api/routes/control.py: under the ordinary guard too.                    *)

MutantClaim(u) ==
  /\ owner = Nobody \/ u \in HttpAdmins
  /\ owner' = u
  /\ UNCHANGED <<web, rows, sess, bound, review, wire, board, query, budget>>

Claim(u) ==
  /\ OrdinaryFree
  /\ owner = Nobody \/ u \in HttpAdmins
  /\ owner' = u
  /\ UNCHANGED <<web, rows, sess, bound, review, wire, board, query, budget>>

ReleaseControl ==
  /\ OrdinaryFree /\ AtRest /\ ~ \E t \in DOMAIN sess : Open(t)
  /\ owner' = Nobody
  /\ UNCHANGED <<web, rows, sess, bound, review, wire, board, query, budget>>

-----------------------------------------------------------------------------
(* Runs the database does not know, reviewed while commands go on: their   *)
(* sessions are opened under neither guard.                                *)

(* V2RunRecoveryService.bind without a target.                             *)
BindHistory(t) ==
  /\ review[t] = "unreviewed"
  /\ review' = [review EXCEPT ![t] = "bound"]
  /\ sess' = RowAdded(sess, t, "needs_review") /\ bound' = bound \cup {t}
  /\ UNCHANGED <<web, rows, owner, wire, board, query, budget>>

(* discover_run meets evidence that contradicts what is known of the run.  *)
HistoryConflicts(t) ==
  /\ review[t] # "conflict"
  /\ review' = [review EXCEPT ![t] = "conflict"]
  /\ UNCHANGED <<web, rows, sess, bound, owner, wire, board, query, budget>>

(* _replay_batch comes to the safe end of a run that is over.              *)
HistoryReplayed(t) ==
  /\ t \in ReviewedHistory /\ t \in furnace.ended /\ Open(t)
  /\ sess' = [sess EXCEPT ![t] = "completed"]
  /\ UNCHANGED <<web, rows, bound, review, owner, wire, board, query, budget>>

HttpNext ==
  \/ \E r \in DOMAIN tasks :
       \/ LookUp(r) \/ Insert(r) \/ Preflight(r) \/ Reserve(r) \/ TakeControl(r) \/ Archive(r)
       \/ MarkedSent(r) \/ LeaseAsked(r) \/ Leased(r) \/ Issue(r) \/ Answered(r)
       \/ ResultRecorded(r) \/ Lifecycle(r) \/ ReadBack(r) \/ Conclude(r)
       \/ Raised(r) \/ Failed(r) \/ RefusalRecorded(r)
  \/ \E o \in Ops : Deliver(o) \/ Lose(o) \/ \E b \in BOOLEAN : AskDevice(o, b)
  \/ \E u \in Users : Claim(u)
  \/ \E t \in Histories : BindHistory(t) \/ HistoryConflicts(t) \/ HistoryReplayed(t)
  \/ RunEnds \/ BackendDies \/ Hear \/ Noted \/ ReleaseControl

HttpSpec == HttpInit /\ [][HttpNext]_httpVars

-----------------------------------------------------------------------------
HttpTypeOK ==
  /\ DOMAIN rows \subseteq Ops
  /\ DOMAIN sess \subseteq Tests \cup Histories /\ bound \subseteq Tests \cup Histories
  /\ review \in [Histories -> {"unreviewed", "bound", "conflict"}]
  /\ owner \in Users \cup {Nobody} /\ reserved \in Tests \cup {None}
  /\ \A o \in DOMAIN rows :
       rows[o].status \in {"pending", "sent", "accepted", "verified", "rejected", "unknown"}
  /\ furnace.run \in Tests \cup Histories \cup {None}

(* A command on the wire is the one its row records, posted and marked     *)
(* sent before, whoever else posted the same operation_id: run_operation.  *)
IssuedAsRecorded ==
  \A r \in DOMAIN tasks :
    tasks[r].pc \in {"issued", "answered"} => r.op \in DOMAIN rows /\ rows[r.op].posted = Posted(r)

(* The device never runs an experiment whose session the backend has       *)
(* closed, however the start was answered, refused, failed, queried or     *)
(* delayed (the except clause of _execute and _close_rejected_start), and  *)
(* whatever a review finds out about a run meanwhile: a run the host       *)
(* started has its session, and another's is open once a review made one.  *)
StartedStaysOpen ==
  /\ furnace.run \in Tests => furnace.run \in DOMAIN sess
  /\ furnace.run \in DOMAIN sess => sess[furnace.run] \notin {"start_rejected", "completed"}

(* At most one experiment that was started here is open, beside reviewed   *)
(* histories in any number: _reserve_start.                                *)
OneOpenSession == Cardinality({t \in Tests : Open(t)}) <= 1

(* What the sessions say of the device: none is closed over a run that is  *)
(* under way, and of the experiments started here no second one is opened  *)
(* beside an open one.                                                     *)
SessionsSound == StartedStaysOpen /\ OneOpenSession

(* Control changes hands between commands, never under one: a start or a   *)
(* recipe goes on the wire only for the user who owns the control then.    *)
OwnerCommands ==
  [][\A r \in DOMAIN tasks :
       At(r, "marked") /\ tasks'[r].pc = "issued" /\ ~Priority(r) => owner = r.user]_tasks
=============================================================================
