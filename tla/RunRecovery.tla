------------------------------ MODULE RunRecovery ------------------------------
(***************************************************************************)
(* A run the host did not start: how its source records are kept, how a    *)
(* person binds it to a test, and how the archive is replayed for it.      *)
(*                                                                         *)
(*   discover_run          v2_recovery_evidence.py: the case and evidence  *)
(*   V2ArchiveProjector    v2_archive.py: records and status into the test *)
(*   V2RunRecoveryService  v2_run_recovery.py: review, binding, replay     *)
(*   V2RecoveryWorker      v2_recovery_worker.py: bootstrap, batches       *)
(*                                                                         *)
(* One run of one device.  Every transaction takes the write lock and is   *)
(* one action; a transaction that fails leaves nothing.  The maintenance   *)
(* gate in front of worker and routes is MaintenanceGate's subject, the    *)
(* alarm projection AlarmArchive's, roles and texts of a review are left   *)
(* out.  A run the host started has a binding and no case.                 *)
(***************************************************************************)
EXTENDS Integers, Sequences, FiniteSets

CONSTANTS
  Reviewers,     \* people who review the run, each with one form at a time
  ReplayBatch,   \* records of a replay batch, 100 in the code
  RunMaxRecords, \* bound: records of the run
  RunMaxBoot,    \* bound: boots of the device
  RunMaxFaults,  \* bound: failed transactions and backend restarts
  RunMaxRev      \* bound: review_revision at which forms are still filled in

ASSUME RunAssumption ==
  /\ {RunMaxRecords, RunMaxBoot, RunMaxFaults, RunMaxRev} \subseteq Nat
  /\ ReplayBatch \in Nat \ {0}

VARIABLES
  run,      \* device: the run's status
  records,  \* device: records of the run, in the order of its log
  got,      \* records the host has ingested
  stored,   \* V2SourceRecord rows, in the order of their ids
  case,     \* V2RunRecovery row, or NoCase
  test,     \* the bound TestSession, or NoTest
  forms,    \* what each reviewer saw when filling in a form, or NoForm
  worker,   \* stage of V2RecoveryWorker and its bootstrap cursor
  runFaults \* failures so far

source == <<run, records>>
runVars == <<source, got, stored, case, test, forms, worker, runFaults>>

NoRun  == [boot |-> 0, rev |-> 0, mark |-> 0, stage |-> "idle", outcome |-> "pending"]
NoCase == [rev |-> 0, state |-> "none", boots |-> {}, mark |-> 0, clashes |-> {},
           latest |-> NoRun, full |-> FALSE, replay |-> "not_bound", through |-> 0]
NoTest == [bound |-> FALSE, boot |-> 0, rev |-> 0, phase |-> "none",
           outcome |-> "none", end |-> "none"]
NoForm == [action |-> "none", rev |-> 0, evidence |-> {}]
Safe(r) == r.stage = "completed"

(* A stored record: what it tells, and what the archive made of it.        *)
Row(i) == [record |-> i, archived |-> FALSE, own |-> FALSE, linked |-> FALSE, rows |-> 0]

RunInit ==
  /\ run = [NoRun EXCEPT !.boot = 1, !.rev = 1, !.stage = "preparing"]
  /\ case = NoCase /\ test = NoTest
  /\ \E old \in BOOLEAN :  \* stored before recovery cases existed
       IF old THEN /\ records = <<[kind |-> "run", run |-> run]>>
                   /\ stored = <<Row(1)>> /\ got = {1}
              ELSE records = <<>> /\ stored = <<>> /\ got = {}
  /\ forms = [p \in Reviewers |-> NoForm]
  /\ worker = [stage |-> "bootstrap", cursor |-> 0]
  /\ runFaults = 0

-----------------------------------------------------------------------------
(* Device                                                                  *)

Log(kind, r) ==
  /\ Len(records) < RunMaxRecords
  /\ records' = Append(records, [kind |-> kind, run |-> r])
  /\ run' = r
  /\ UNCHANGED <<got, stored, case, test, forms, worker, runFaults>>

(* run_changed events; mark stands for the immutable source boundaries.    *)
Change ==
  \E r \in {[run EXCEPT !.rev = @ + 1, !.stage = s, !.outcome = o, !.mark = m] :
              s \in {"measuring", "safe_disposal", "completed"},
              o \in {"pending", "valid_candidate", "aborted", "invalid"}, m \in {0, 1}} :
    /\ CASE run.stage = "preparing" ->
              \/ r.stage = "measuring" /\ r.mark = 1 /\ r.outcome = "pending"
              \/ r.stage = "safe_disposal" /\ r.mark = 0 /\ r.outcome \in {"aborted", "invalid"}
         [] run.stage = "measuring" ->
              r.stage = "safe_disposal" /\ r.mark = 1 /\ r.outcome # "pending"
         [] run.stage = "safe_disposal" ->
              r.stage = "completed" /\ r.outcome = run.outcome /\ r.mark = run.mark
         [] OTHER -> FALSE
    /\ Log("run", r)

Observe == \E kind \in {"sample", "alarm"} : run.stage # "completed" /\ Log(kind, run)

(* A device put back to an older state may contradict what it said before. *)
Contradict == run.mark = 1 /\ Log("run", [run EXCEPT !.mark = 2, !.rev = @ + 1])

(* recover(): no event tells of it                                         *)
Restart ==
  /\ run.boot < RunMaxBoot
  /\ run' = IF Safe(run) THEN [run EXCEPT !.boot = @ + 1, !.rev = @ + 1]
            ELSE [run EXCEPT !.boot = @ + 1, !.rev = @ + 1, !.stage = "safe_disposal",
                             !.outcome = IF @ = "valid_candidate" THEN @ ELSE "invalid"]
  /\ UNCHANGED <<records, got, stored, case, test, forms, worker, runFaults>>

-----------------------------------------------------------------------------
(* discover_run and the projection, as functions of the rows               *)

(* What a reviewer is shown: all the evidence, except where it came from.  *)
Evidence(c) == <<c.boots, c.mark, c.clashes, c.latest, c.full>>

Heard(c, r, authoritative) ==
  LET clash == r.mark # 0 /\ c.mark # 0 /\ r.mark # c.mark
      first == c.latest = NoRun
      newer == first \/ IF c.latest.boot = r.boot THEN r.rev >= c.latest.rev ELSE authoritative
      moved == newer /\ c.latest # r
  IN [c EXCEPT !.mark = IF @ = 0 THEN r.mark ELSE @,
               !.clashes = IF clash THEN @ \cup {<<r.mark, r.boot>>} ELSE @,
               !.state = IF clash THEN "conflict" ELSE @,
               !.latest = IF moved THEN r ELSE @,
               !.full = IF moved THEN authoritative ELSE @ \/ (newer /\ authoritative)]

MutantDiscovered(c, boot, r, authoritative) ==
  LET opened == IF c = NoCase THEN [NoCase EXCEPT !.rev = 1, !.state = "unreviewed"] ELSE c
      noted == [opened EXCEPT !.boots = @ \cup {boot}]
      heard == IF r = NoRun THEN noted ELSE Heard(noted, r, authoritative)
  IN [heard EXCEPT !.rev = IF heard.latest # opened.latest THEN @ + 1 ELSE @]

(* discover_run(): review_revision counts every change of the evidence.    *)
Discovered(c, boot, r, authoritative) ==
  LET opened == IF c = NoCase THEN [NoCase EXCEPT !.rev = 1, !.state = "unreviewed"] ELSE c
      noted == [opened EXCEPT !.boots = @ \cup {boot}]
      heard == IF r = NoRun THEN noted ELSE Heard(noted, r, authoritative)
  IN [heard EXCEPT !.rev = IF Evidence(heard) # Evidence(opened) THEN @ + 1 ELSE @]

Reason(outcome) == CASE outcome = "valid_candidate" -> "completed"
                     [] outcome = "aborted" -> "operator_stop"
                     [] outcome = "invalid" -> "invalid"
                     [] OTHER -> "safe_end_incomplete"

MutantAccepts(t, r, authoritative) ==
  IF t.boot \in {0, r.boot} THEN r.rev >= t.rev ELSE authoritative

(* Whether a status replaces the state the test shows.                     *)
Accepts(t, r, authoritative) ==
  /\ IF t.boot \in {0, r.boot} THEN r.rev >= t.rev ELSE authoritative
  /\ t.end # "none" => Safe(r)

(* _run(); the conflicts it raises on were found by discover_run before.   *)
Projected(t, r, authoritative) ==
  LET taken == Accepts(t, r, authoritative)
      shown == IF taken THEN [t EXCEPT !.boot = r.boot, !.rev = r.rev,
                                       !.phase = r.stage, !.outcome = r.outcome]
                        ELSE t
      told == IF "invalid" \in {t.outcome, r.outcome}
              THEN [shown EXCEPT !.outcome = "invalid"] ELSE shown
  IN IF Safe(r) /\ (taken \/ t.end = "none")
     THEN [told EXCEPT !.phase = "completed",
                       !.end = Reason(IF told.outcome = "none" THEN r.outcome ELSE told.outcome)]
     ELSE told

(* on_record() of row x.rows[i]: raw only while the run is unbound or in   *)
(* conflict, except that an alarm is archived without a test.              *)
Told(rec) == IF rec.kind = "run" THEN rec.run ELSE NoRun

OnRecord(x, i) ==
  LET rec == records[x.rows[i].record]
      c == Discovered(x.case, rec.run.boot, Told(rec), FALSE)
      defer == (~x.test.bound \/ c.state = "conflict") /\ rec.kind # "alarm"
      row == [x.rows[i] EXCEPT !.archived = TRUE, !.rows = @ + 1, !.own = x.test.bound]
      t == IF rec.kind = "run" THEN Projected(x.test, rec.run, FALSE) ELSE x.test
  IN IF defer THEN [x EXCEPT !.case = c]
     ELSE [rows |-> [x.rows EXCEPT ![i] = row], case |-> c, test |-> t]

Tables == [rows |-> stored, case |-> case, test |-> test]
Commit(x) == stored' = x.rows /\ case' = x.case /\ test' = x.test

-----------------------------------------------------------------------------
(* Ingestion: the newest record live, the others in the order of the log.  *)

Ingest ==
  \E i \in DOMAIN records \ got :
    /\ i = Len(records) \/ \A j \in 1 .. (i - 1) : j \in got
    /\ got' = got \cup {i}
    /\ Commit(OnRecord([Tables EXCEPT !.rows = Append(stored, Row(i))], Len(stored) + 1))
    /\ UNCHANGED <<source, forms, worker, runFaults>>

(* reconcile_status() of the current session's status                      *)
ReconcileStatus ==
  LET c == Discovered(case, run.boot, run, TRUE) IN
  /\ case' = c
  /\ test' = IF test.bound /\ c.state # "conflict" THEN Projected(test, run, TRUE) ELSE test
  /\ <<case', test'>> # <<case, test>>
  /\ UNCHANGED <<source, got, stored, forms, worker, runFaults>>

-----------------------------------------------------------------------------
(* Review                                                                  *)

(* The page offers binding or, once bound, replay, and reads the case      *)
(* again when its form has been refused.                                   *)
Fill(p) ==
  /\ case # NoCase /\ case.rev <= RunMaxRev
  /\ forms[p].rev # case.rev
  /\ forms' = [forms EXCEPT ![p] =
                [action |-> IF test.bound THEN "replay" ELSE "binding",
                 rev |-> case.rev, evidence |-> {Evidence(case)}]]
  /\ UNCHANGED <<source, got, stored, case, test, worker, runFaults>>

(* _review(): the evidence must be the one the person saw, and free of     *)
(* conflict.  A form sent again with its key is answered from the stored   *)
(* V2RecoveryReview and changes nothing.                                   *)
Reviewed(p) ==
  /\ forms[p].rev = case.rev /\ case.state # "conflict"
  /\ forms' = [forms EXCEPT ![p] = NoForm]

Bind(p) ==
  /\ forms[p].action = "binding"
  /\ Reviewed(p) /\ ~test.bound
  /\ test' = [NoTest EXCEPT !.bound = TRUE, !.phase = "needs_review"]
  /\ case' = [case EXCEPT !.state = "bound", !.replay = "pending", !.rev = @ + 1]
  /\ UNCHANGED <<source, got, stored, worker, runFaults>>

RequestReplay(p) ==
  /\ forms[p].action = "replay"
  /\ Reviewed(p) /\ test.bound
  /\ case' = [case EXCEPT !.replay = "pending", !.rev = @ + 1]
  /\ UNCHANGED <<source, got, stored, test, worker, runFaults>>

-----------------------------------------------------------------------------
(* Worker                                                                  *)

(* The last row of a batch that goes on behind row `from'.                 *)
BatchEnd(from) ==
  IF from + ReplayBatch < Len(stored) THEN from + ReplayBatch ELSE Len(stored)

(* The case when the rows behind the cursor up to row i have been noted.   *)
NotedCase[i \in worker.cursor .. Len(stored)] ==
  IF i = worker.cursor THEN case
  ELSE LET rec == records[stored[i].record]
       IN Discovered(NotedCase[i - 1], rec.run.boot, Told(rec), FALSE)

(* _bootstrap_batch(): a case for the runs of rows stored before           *)
Bootstrap ==
  LET last == IF test.bound THEN worker.cursor ELSE BatchEnd(worker.cursor)
  IN /\ worker.stage = "bootstrap"
     /\ case' = NotedCase[last]
     /\ worker' = [stage |-> IF last - worker.cursor < ReplayBatch THEN "replay" ELSE "bootstrap",
                   cursor |-> last]
     /\ UNCHANGED <<source, got, stored, test, forms, runFaults>>

MutantReplayed(x, i) ==
  IF x.case.state = "conflict" THEN x
  ELSE [IF x.rows[i].archived THEN x ELSE OnRecord(x, i) EXCEPT !.case.through = i]

(* One record of a batch, unless a conflict has ended it.                  *)
Replayed(x, i) ==
  LET rec == records[x.rows[i].record]
      done1 == IF ~x.rows[i].archived THEN OnRecord(x, i)
               ELSE IF rec.kind = "alarm" THEN [x EXCEPT !.rows[i].linked = TRUE]
               ELSE x
  IN IF x.case.state = "conflict" THEN x
     ELSE IF done1.case.state = "conflict" THEN done1
     ELSE [done1 EXCEPT !.case.through = i]

(* The tables when the rows behind replay_through_id up to i are replayed. *)
Replays[i \in case.through .. Len(stored)] ==
  IF i = case.through THEN Tables ELSE Replayed(Replays[i - 1], i)

Pending == case.state = "bound" /\ case.replay = "pending"

(* _replay_batch()                                                         *)
Batch ==
  LET last == BatchEnd(case.through)
      x == Replays[last]
      clash == x.case.state = "conflict"
  IN /\ worker.stage = "replay" /\ Pending
     /\ stored' = x.rows
     /\ test' = IF clash \/ x.case.latest = NoRun THEN x.test
                ELSE Projected(x.test, x.case.latest, TRUE)
     /\ case' = [x.case EXCEPT !.replay = IF clash THEN "failed"
                                 ELSE IF last - case.through < ReplayBatch THEN "complete" ELSE "pending"]
     /\ UNCHANGED <<source, got, forms, worker, runFaults>>

(* A batch that raises is rolled back whole; that it failed is written by  *)
(* a transaction of its own, which the worker may not live to make.        *)
BatchFails ==
  /\ worker.stage = "replay" /\ Pending /\ runFaults < RunMaxFaults
  /\ runFaults' = runFaults + 1
  /\ worker' = [worker EXCEPT !.stage = "failing"]
  /\ UNCHANGED <<source, got, stored, case, test, forms>>

MarkFailed ==
  /\ worker.stage = "failing"
  /\ case' = [case EXCEPT !.replay = "failed"]
  /\ worker' = [worker EXCEPT !.stage = "replay"]
  /\ UNCHANGED <<source, got, stored, test, forms, runFaults>>

RestartBackend ==
  /\ runFaults < RunMaxFaults /\ worker # [stage |-> "bootstrap", cursor |-> 0]
  /\ runFaults' = runFaults + 1
  /\ worker' = [stage |-> "bootstrap", cursor |-> 0]
  /\ UNCHANGED <<source, got, stored, case, test, forms>>

RunNext ==
  \/ Change \/ Observe \/ Contradict \/ Restart
  \/ Ingest \/ ReconcileStatus
  \/ \E p \in Reviewers : Fill(p) \/ Bind(p) \/ RequestReplay(p)
  \/ Bootstrap \/ Batch \/ BatchFails \/ MarkFailed \/ RestartBackend

RunSpec == RunInit /\ [][RunNext]_runVars

-----------------------------------------------------------------------------
RunTypeOK ==
  /\ case.state \in {"none", "unreviewed", "bound", "conflict"}
  /\ case.replay \in {"not_bound", "pending", "complete", "failed"}
  /\ case.through \in 0 .. Len(stored) /\ worker.cursor \in 0 .. Len(stored)
  /\ got = {stored[i].record : i \in DOMAIN stored} /\ Cardinality(got) = Len(stored)
  /\ test.phase \in {"none", "needs_review", "preparing", "measuring", "safe_disposal", "completed"}
  /\ test.end \in {"none", "completed", "operator_stop", "invalid", "safe_end_incomplete"}
  /\ \A p \in Reviewers : forms[p].action \in {"none", "binding", "replay"}
  /\ worker.stage \in {"bootstrap", "replay", "failing"}
  /\ runFaults \in 0 .. RunMaxFaults

(* require_recovery_report_ready()                                         *)
ReportReady == case.state = "bound" /\ case.replay = "complete"

(* A report is made only of a whole archive: once the case is bound and    *)
(* its replay complete, every record the host holds of the run has exactly *)
(* one archive row that belongs to the test, or is associated with it,     *)
(* however live records, log, batches, failures and restarts interleaved.  *)
ReportIsWhole ==
  ReportReady => \A i \in DOMAIN stored :
                   /\ stored[i].archived /\ stored[i].rows = 1
                   /\ stored[i].own \/ stored[i].linked

(* A run is bound by someone who saw the evidence as it is at that moment: *)
(* whatever arrived after the form was filled in makes the review fail.    *)
BindSawEvidence ==
  [][~test.bound /\ test'.bound =>
       \E p \in Reviewers : forms'[p] = NoForm /\ forms[p].evidence = {Evidence(case)}]_runVars

(* A test that ended stays ended and completed, and a run once known to be *)
(* invalid stays so, whichever older event or restarted device speaks      *)
(* later: the comments of V2ArchiveProjector._run.                         *)
EndIsFinal ==
  [][/\ test.end # "none" => test'.end # "none" /\ test'.phase = "completed"
     /\ test.outcome = "invalid" => test'.outcome = "invalid"]_runVars
=============================================================================
