---------------------------- MODULE MeasurementRun ----------------------------
(***************************************************************************)
(* Recording a run of a HostComm 1.0 board: status samples from the board  *)
(* through the client's callback queue into the sample table, and what the *)
(* backend says of the run.                                                *)
(*                                                                         *)
(* The board is the mock with its extended contract (hostcomm/             *)
(* mock_server.py, mock_recipe_runtime.py): it numbers its samples also    *)
(* while nobody is connected.  The backend is on_status, on_comm_status    *)
(* and _persist_snapshot of main.py, test_session_service.py,              *)
(* telemetry_integrity.py, test_runtime.py and cache.py, with the start    *)
(* and stop of command_service.py.  A sample is named by its position in   *)
(* `taken'; its numbers are abstracted to the phase of the run.            *)
(***************************************************************************)
EXTENDS Integers, Sequences, FiniteSets

CONSTANTS
  QueueSize,     \* callback_queue_size, 256 in the code
  MaxSamples,    \* bound: samples the board takes
  MaxPerPhase,   \* bound: samples it takes in one phase of a run
  MaxBoardBoot,  \* bound: boots of the board
  MaxRunFaults   \* bound: faults explored

ASSUME MeasurementAssumption ==
  QueueSize \in Nat \ {0} /\ {MaxSamples, MaxPerPhase, MaxBoardBoot, MaxRunFaults} \subseteq Nat

VARIABLES
  board,   \* boot, test and phase of the run, and whether its measurement is over
  taken,   \* samples the board has taken, sent or not
  conn,    \* the connection is up; a comm_status callback is queued
  stream,  \* samples and answers on the connection
  flying,  \* the command on its way to the board
  frames,  \* the data callback queue: sample, drops counted, whether invalidated
  atWork,  \* on_status: the frame being persisted, or NoWork
  memory,  \* active_test, status_cache, sampling_health and the client's counters
  command, \* the start or stop under way in command_service
  tests,   \* table test_session
  stored,  \* table sample_point
  trouble  \* history: faults so far

mRunVars ==
  <<board, taken, conn, stream, flying, frames, atWork, memory, command, tests, stored, trouble>>

TestIds == {"t1", "ext"}
NoTest  == "no test"
NoWork  == 0
NoOne   == [kind |-> "none", at |-> "none"]
Started == [active |-> NoTest, needs |-> FALSE, seen |-> NoTest, fresh |-> FALSE, last |-> 0,
            failing |-> FALSE, dropped |-> 0]
NoCursor == [n |-> 0, gap |-> FALSE, low |-> FALSE, count |-> 0, drops |-> -1]
NoTestRow == [open |-> FALSE, phase |-> "none", integrity |-> "unknown", measured |-> FALSE,
              stop |-> FALSE, cursor |-> NoCursor]

MeasurementInit ==
  /\ board = [boot |-> 1, test |-> NoTest, phase |-> "idle", over |-> FALSE]
  /\ taken = <<>>
  /\ conn = [up |-> TRUE, notice |-> FALSE]
  /\ stream = <<>> /\ flying = "none" /\ frames = <<>>
  /\ atWork = NoWork
  /\ memory = Started
  /\ command = NoOne
  /\ tests = [t \in TestIds |-> NoTestRow]
  /\ stored = {}
  /\ trouble = 0

Trouble == trouble < MaxRunFaults /\ trouble' = trouble + 1
HasRow(t) == tests[t].phase # "none"
Opened == {t \in TestIds : tests[t].open}

-----------------------------------------------------------------------------
(* The board.                                                              *)

boardRest == <<conn, flying, frames, atWork, memory, command, tests, stored>>

(* A status frame says of the run what the board knows of it.              *)
StatusSnapshot == [boot |-> board.boot, test |-> board.test, phase |-> board.phase,
                   over |-> board.over]

(* _runtime_loop(): numbered and sent, also when nobody is there to read   *)
Sample ==
  /\ Len(taken) < MaxSamples
  /\ Cardinality({n \in 1..Len(taken) : taken[n] = StatusSnapshot}) < MaxPerPhase
  /\ taken' = Append(taken, StatusSnapshot)
  /\ stream' = IF conn.up THEN Append(stream, [kind |-> "sample", n |-> Len(taken')]) ELSE stream
  /\ UNCHANGED <<board, boardRest, trouble>>

(* Up through 600 degrees, to the end of the measurement, cold again: the  *)
(* board samples every second, and every part of a run lasts longer.       *)
Proceed ==
  /\ board.phase # "idle" => taken # <<>> /\ taken[Len(taken)] = board
  /\ \/ board.phase = "low" /\ board' = [board EXCEPT !.phase = "high"]
     \/ board.phase = "high" /\ board' = [board EXCEPT !.phase = "cooling", !.over = TRUE]
     \/ board.phase = "cooling" /\ board' = [board EXCEPT !.phase = "safe"]
  /\ UNCHANGED <<taken, stream, boardRest, trouble>>

Reboots ==
  /\ board.boot < MaxBoardBoot
  /\ Trouble
  /\ board' = [boot |-> board.boot + 1, test |-> NoTest, phase |-> "idle", over |-> FALSE]
  /\ UNCHANGED <<taken, stream, boardRest>>

(* A run begun at the board itself, under an identity of its own           *)
RunsByItself ==
  /\ board.phase = "idle" /\ \A n \in 1..Len(taken) : taken[n].test # "ext"
  /\ Trouble
  /\ board' = [board EXCEPT !.test = "ext", !.phase = "low"]
  /\ UNCHANGED <<taken, stream, boardRest>>

BoardAnswers ==
  /\ flying # "none"
  /\ board' = CASE flying = "start" /\ board.phase = "idle" ->
                     [board EXCEPT !.test = "t1", !.phase = "low"]
                [] flying = "stop" /\ board.phase \in {"low", "high"} ->
                     [board EXCEPT !.phase = "cooling"]
                [] OTHER -> board
  /\ stream' = IF conn.up
               THEN Append(stream, [kind |-> IF flying = "start" /\ board.phase # "idle"
                                             THEN "refused" ELSE "accepted", n |-> 0])
               ELSE stream
  /\ flying' = "none"
  /\ UNCHANGED <<taken, conn, frames, atWork, memory, command, tests, stored, trouble>>

CommandLost ==
  /\ flying # "none" /\ ~conn.up
  /\ flying' = "none"
  /\ UNCHANGED <<board, taken, conn, stream, frames, atWork, memory, command, tests, stored,
                 trouble>>

-----------------------------------------------------------------------------
(* The client: HostCommV1's connection, as far as samples go.              *)

ConnectionLost ==
  /\ conn.up
  /\ Trouble
  /\ conn' = [up |-> FALSE, notice |-> TRUE]
  /\ stream' = <<>>
  /\ UNCHANGED <<board, taken, flying, frames, atWork, memory, command, tests, stored>>

Reconnected ==
  /\ ~conn.up
  /\ conn' = [conn EXCEPT !.up = TRUE]
  /\ UNCHANGED <<board, taken, stream, flying, frames, atWork, memory, command, tests, stored,
                 trouble>>

(* _dispatch() and _schedule_callback(): a full queue drops the sample,    *)
(* counts it and says so.                                                  *)
ReadSample ==
  /\ stream # <<>> /\ Head(stream).kind = "sample"
  /\ stream' = Tail(stream)
  /\ IF Len(frames) < QueueSize
     THEN /\ frames' = Append(frames, [n |-> Head(stream).n, drops |-> memory.dropped,
                                       old |-> FALSE])
          /\ UNCHANGED <<memory, conn>>
     ELSE /\ memory' = [memory EXCEPT !.dropped = @ + 1]
          /\ conn' = [conn EXCEPT !.notice = TRUE]
          /\ UNCHANGED frames
  /\ UNCHANGED <<board, taken, flying, atWork, command, tests, stored, trouble>>

ReadAnswer ==
  /\ stream # <<>> /\ Head(stream).kind # "sample"
  /\ stream' = Tail(stream)
  /\ command' = IF command.at = "sent" THEN [command EXCEPT !.at = Head(stream).kind] ELSE command
  /\ UNCHANGED <<board, taken, conn, flying, frames, atWork, memory, tests, stored, trouble>>

(* on_comm_status(offline or degraded): what was received before can no    *)
(* longer refresh the cache, and the run must be reconciled again.         *)
OnCommStatus ==
  /\ conn.notice
  /\ conn' = [conn EXCEPT !.notice = FALSE]
  /\ frames' = [i \in 1..Len(frames) |-> [frames[i] EXCEPT !.old = TRUE]]
  /\ memory' = [memory EXCEPT !.fresh = FALSE, !.needs = @ \/ memory.active # NoTest]
  /\ UNCHANGED <<board, taken, stream, flying, atWork, command, tests, stored, trouble>>

-----------------------------------------------------------------------------
(* reconcile_test_sessions(): the open sessions against the board's word.  *)

ForReview(row) == [row EXCEPT !.phase = "needs_review", !.integrity = "incomplete"]

Unarchived(s) == s.test # NoTest /\ ~HasRow(s.test) /\ s.phase # "idle"

Reconciled(s) ==
  [t \in TestIds |->
     IF t = s.test /\ Unarchived(s) THEN [ForReview(NoTestRow) EXCEPT !.open = TRUE]
     ELSE IF tests[t].open /\ t # s.test THEN ForReview(tests[t]) ELSE tests[t]]

Restored(s) == IF Unarchived(s) \/ s.test \in Opened THEN s.test ELSE NoTest

(* on_status() up to the samples: the cache, and a reconciliation when it  *)
(* is asked for or the board shows another test.  Whether it worked or     *)
(* not, the test the board shows counts as seen.                           *)
OnStatus ==
  /\ atWork = NoWork /\ frames # <<>>
  /\ LET f == Head(frames)
         s == taken[f.n]
         fresh == memory.fresh \/ ~f.old
         seen == [memory EXCEPT !.fresh = fresh, !.last = IF f.old THEN @ ELSE f.n]
     IN \/ /\ ~(fresh /\ (memory.needs \/ s.test # memory.seen))
           /\ memory' = seen
           /\ UNCHANGED <<tests, trouble>>
        \/ /\ fresh /\ (memory.needs \/ s.test # memory.seen)
           /\ tests' = Reconciled(s)
           /\ memory' = [seen EXCEPT !.seen = s.test, !.active = Restored(s), !.needs = FALSE]
           /\ UNCHANGED trouble
        \/ /\ fresh /\ (memory.needs \/ s.test # memory.seen)
           /\ Trouble
           /\ memory' = [seen EXCEPT !.seen = s.test]
           /\ UNCHANGED tests
  /\ atWork' = Head(frames).n
  /\ UNCHANGED <<board, taken, conn, stream, flying, frames, command, stored>>

-----------------------------------------------------------------------------
(* advance_cursor(), with the identity check of track_sample().            *)

MutantIssues(t, f) ==
  LET c == tests[t].cursor
  IN \/ c.drops >= 0 /\ f.drops > c.drops
     \/ memory.failing
     \/ c.n # 0 /\ taken[c.n].boot # taken[f.n].boot
     \/ taken[f.n].test # t

Issues(t, f) ==
  LET c == tests[t].cursor
  IN \/ c.drops >= 0 /\ f.drops > c.drops
     \/ memory.failing
     \/ c.n # 0 /\ (taken[c.n].boot # taken[f.n].boot \/ f.n # c.n + 1)
     \/ taken[f.n].test # t

Moved(t, f) ==
  LET c == tests[t].cursor
  IN [n |-> f.n, drops |-> f.drops, count |-> IF c.count < 2 THEN c.count + 1 ELSE 2,
      gap |-> c.gap \/ Issues(t, f),
      low |-> c.low \/ taken[f.n].phase \in {"idle", "low", "safe"}]

(* continuity_proven()                                                     *)
Proven(c) == c.low /\ c.count >= 2 /\ ~c.gap

Tracked(t, f) ==
  [tests[t] EXCEPT !.cursor = Moved(t, f),
                   !.integrity = IF Issues(t, f) THEN "incomplete" ELSE @]

(* advance_test_session(): the board says when the measurement is over and *)
(* when the run is.                                                        *)
Measured(row, s) ==
  IF row.measured \/ ~s.over THEN row
  ELSE [row EXCEPT !.measured = TRUE,
                   !.integrity = IF @ # "incomplete" /\ Proven(row.cursor) THEN "complete" ELSE @]

Phase(row) ==
  CASE row.phase = "needs_review" -> "needs_review"
    [] row.phase # "needs_review" /\ row.measured -> "safe_disposal"
    [] row.phase # "needs_review" /\ ~row.measured /\ row.stop -> "stopping"
    [] OTHER -> "measuring"

AdvancedTo(t, f) ==
  LET s == taken[f.n]
      row == Tracked(t, f)
      m == Measured(IF row.phase = "needs_review" THEN ForReview(row) ELSE row, s)
  IN CASE s.test # t -> row
       [] s.test = t /\ s.phase = "safe" ->
            [m EXCEPT !.open = FALSE, !.phase = "completed",
                      !.integrity = IF m.measured THEN @ ELSE "incomplete"]
       [] OTHER -> [m EXCEPT !.phase = Phase(m)]

(* append_sample_point(): a row names the test the backend has in hand      *)
SamplePoint(t, f) == <<t, f.n>>

(* _persist_snapshot(): the sample, the cursor and the session's progress  *)
(* are committed together.                                                 *)
Persist ==
  /\ atWork # NoWork
  /\ atWork' = NoWork
  /\ frames' = Tail(frames)
  /\ LET t == memory.active
         f == Head(frames)
     IN IF t \in Opened
        THEN /\ tests' = [tests EXCEPT ![t] = AdvancedTo(t, f)]
             /\ stored' = stored \cup {SamplePoint(t, f)}
             /\ memory' = IF AdvancedTo(t, f).open THEN [memory EXCEPT !.failing = FALSE]
                          ELSE [memory EXCEPT !.failing = FALSE, !.active = NoTest, !.needs = FALSE]
        ELSE /\ memory' = [memory EXCEPT !.failing = FALSE]
             /\ UNCHANGED <<tests, stored>>
  /\ UNCHANGED <<board, taken, conn, stream, flying, command, trouble>>

PersistFails ==
  /\ atWork # NoWork
  /\ Trouble
  /\ atWork' = NoWork
  /\ frames' = Tail(frames)
  /\ memory' = [memory EXCEPT !.failing = TRUE]
  /\ UNCHANGED <<board, taken, conn, stream, flying, command, tests, stored>>

-----------------------------------------------------------------------------
(* command_service for a board of HostComm 1.0: the session is archived    *)
(* before the start is sent.                                               *)
StartRun ==
  /\ command = NoOne /\ ~HasRow("t1") /\ Opened = {}
  /\ conn.up /\ memory.fresh /\ taken[memory.last].phase = "idle"
  /\ tests' = [tests EXCEPT !["t1"] = [NoTestRow EXCEPT !.open = TRUE, !.phase = "awaiting_device"]]
  /\ command' = [kind |-> "start", at |-> "archived"]
  /\ UNCHANGED <<board, taken, conn, stream, flying, frames, atWork, memory, stored, trouble>>

(* A stop is not asked for while the answer to an earlier one is due.      *)
StopRun ==
  /\ command = NoOne /\ conn.up /\ Opened # {}
  /\ flying = "none" /\ \A i \in 1..Len(stream) : stream[i].kind = "sample"
  /\ \A t \in Opened : ~tests[t].stop
  /\ command' = [kind |-> "stop", at |-> "archived"]
  /\ UNCHANGED <<board, taken, conn, stream, flying, frames, atWork, memory, tests, stored,
                 trouble>>

(* Between the archive and the wire a start may have lost its reason.      *)
Sendable ==
  conn.up /\ (command.kind = "start" => memory.fresh /\ taken[memory.last].phase = "idle")

Send ==
  /\ command.at = "archived" /\ Sendable
  /\ flying' = command.kind
  /\ command' = [command EXCEPT !.at = "sent"]
  /\ UNCHANGED <<board, taken, conn, stream, frames, atWork, memory, tests, stored, trouble>>

StopTarget == IF memory.active \in Opened THEN memory.active ELSE CHOOSE t \in Opened : TRUE

Accepted ==
  /\ command.at = "accepted"
  /\ command' = NoOne
  /\ IF command.kind = "start"
     THEN memory' = [memory EXCEPT !.active = "t1", !.needs = TRUE] /\ UNCHANGED tests
     ELSE IF Opened = {} THEN UNCHANGED <<memory, tests>>
     ELSE /\ tests' = [tests EXCEPT ![StopTarget].stop = TRUE, ![StopTarget].phase = "stopping"]
          /\ memory' = [memory EXCEPT !.active = StopTarget, !.needs = TRUE]
  /\ UNCHANGED <<board, taken, conn, stream, flying, frames, atWork, stored, trouble>>

StartEnds(row) ==
  IF tests["t1"].open THEN [tests EXCEPT !["t1"] = row] ELSE tests

(* Refused by the board: the run never began.                              *)
Rejected ==
  /\ command = [kind |-> "start", at |-> "refused"]
  /\ command' = NoOne
  /\ tests' = StartEnds([tests["t1"] EXCEPT !.open = FALSE, !.phase = "start_rejected"])
  /\ UNCHANGED <<board, taken, conn, stream, flying, frames, atWork, memory, stored, trouble>>

MutantUncertain(row) == [row EXCEPT !.open = FALSE, !.phase = "start_rejected"]

(* No answer, or not sent after all: either way the session is for review. *)
Uncertain(row) == [row EXCEPT !.phase = "needs_review"]

NoAnswer ==
  /\ command.at = "sent" \/ (command.at = "archived" /\ ~Sendable)
  /\ IF command.at = "sent" /\ conn.up THEN Trouble ELSE UNCHANGED trouble
  /\ command' = NoOne
  /\ tests' = IF command.kind = "start" THEN StartEnds(Uncertain(tests["t1"])) ELSE tests
  /\ UNCHANGED <<board, taken, conn, stream, flying, frames, atWork, memory, stored>>

(* review-close, by an administrator at a board that shows itself idle     *)
ReviewClose(t) ==
  /\ command = NoOne /\ t \in Opened
  /\ conn.up /\ memory.fresh /\ taken[memory.last].phase = "idle"
  /\ tests' = [tests EXCEPT ![t] = [ForReview(@) EXCEPT !.open = FALSE,
                                                         !.phase = "archived_incomplete"]]
  /\ memory' = IF memory.active = t THEN [memory EXCEPT !.active = NoTest, !.needs = FALSE]
               ELSE memory
  /\ UNCHANGED <<board, taken, conn, stream, flying, frames, atWork, command, stored, trouble>>

(* The backend dies and starts: what was not committed is gone, a single   *)
(* open session is taken up again until the board has spoken.              *)
Restarts ==
  /\ Trouble
  /\ memory' = IF Cardinality(Opened) = 1
               THEN [Started EXCEPT !.active = CHOOSE t \in Opened : TRUE, !.needs = TRUE]
               ELSE Started
  /\ conn' = [up |-> FALSE, notice |-> FALSE]
  /\ stream' = <<>> /\ frames' = <<>> /\ atWork' = NoWork /\ command' = NoOne
  /\ UNCHANGED <<board, taken, flying, tests, stored>>

MeasurementNext ==
  \/ Sample \/ Proceed \/ Reboots \/ RunsByItself \/ BoardAnswers \/ CommandLost
  \/ ConnectionLost \/ Reconnected \/ ReadSample \/ ReadAnswer \/ OnCommStatus
  \/ OnStatus \/ Persist \/ PersistFails
  \/ StartRun \/ StopRun \/ Send \/ Accepted \/ Rejected \/ NoAnswer \/ Restarts
  \/ \E t \in TestIds : ReviewClose(t)

MeasurementSpec == MeasurementInit /\ [][MeasurementNext]_mRunVars

-----------------------------------------------------------------------------
MeasurementTypeOK ==
  /\ board.phase \in {"idle", "low", "high", "cooling", "safe"}
  /\ board.test \in TestIds \cup {NoTest}
  /\ Len(frames) <= QueueSize /\ (atWork # NoWork => frames # <<>>)
  /\ memory.active \in TestIds \cup {NoTest} /\ memory.last \in 0..Len(taken)
  /\ stored \subseteq TestIds \X (1..Len(taken))
  /\ \A t \in TestIds : tests[t].integrity \in {"unknown", "incomplete", "complete"}

(* A session called complete has every sample the board took of its        *)
(* measurement, from one below 600 degrees to the one that ended it, and   *)
(* all of one boot, whatever was dropped, cut off, not written or not      *)
(* running at the time: advance_cursor and continuity_proven.              *)
CompleteIsWhole ==
  \A t \in TestIds :
    tests[t].integrity = "complete" =>
      \E first, last \in 1..Len(taken) :
        /\ taken[first].phase = "low" /\ taken[last].over
        /\ \A n \in first..last : /\ <<t, n>> \in stored /\ taken[n].test = t
                                  /\ taken[n].boot = taken[first].boot
        /\ \A n \in 1..Len(taken) : <<t, n>> \in stored => n >= first \/ taken[n].test = t

(* A session the backend has closed by itself is not being run by the      *)
(* board, whoever answered late or not at all.                             *)
EndedIsOver ==
  \A t \in TestIds :
    tests[t].phase \in {"completed", "start_rejected"} =>
      ~(board.test = t /\ board.phase \in {"low", "high", "cooling"})
        /\ ~(t = "t1" /\ flying = "start")
=============================================================================
