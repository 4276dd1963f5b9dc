------------------------------ MODULE HostCommV1 ------------------------------
(***************************************************************************)
(* The client of HostComm 1.0 (backend/app/hostcomm/client.py) against the *)
(* mock control board: opening a connection, the handshake, heartbeats,    *)
(* losing and reopening the connection, commands, and requests whose       *)
(* answers carry no identity of their own.                                 *)
(*                                                                         *)
(* One event loop runs the tasks: whoever opens the connection (start or   *)
(* the reconnect task), the reader, the heartbeat and the callers.  A step *)
(* is what a task does between two awaits.  Clocks are left out: a timeout *)
(* may come whenever something is waited for.  Callbacks and their queue   *)
(* are MeasurementRun's subject; a request is short enough never to wait   *)
(* for the write buffer.                                                   *)
(***************************************************************************)
EXTENDS Integers, Sequences, FiniteSets

CONSTANTS
  V1Callers,      \* callers of get_parameters and send_command
  V1MaxSession,   \* bound: connections opened
  V1MaxRequests,  \* bound: requests written
  V1MaxMissed,    \* timeout_count: heartbeats missed before the link is given up
  V1MaxFaults     \* bound: broken connections, timeouts and refused handshakes

ASSUME V1Assumption ==
  {V1MaxSession, V1MaxRequests, V1MaxMissed, V1MaxFaults} \subseteq Nat

VARIABLES
  chan,     \* _connected, _handshake_complete, _comm_quality; 0 is no connection
  tasks,    \* the reader's connection or 0, the heartbeat with its missed count
  opening,  \* progress of _open and who runs it
  timer,    \* _reconnect_task
  losing,   \* who holds _connection_loss_lock in _on_connection_lost
  callers,  \* each caller's request: its kind, number and progress
  toBoard,       \* requests on the connection, not yet handled by the board
  fromBoard,     \* answers on the connection, not yet read
  broken,   \* the peer has ended the connection
  mode,     \* the board's command_mode: it answers commands or ignores them
  stopping, \* _stopping
  mishaps    \* history: faults so far

v1Conn == <<chan, tasks, opening, timer, losing>>
v1Wire == <<toBoard, fromBoard, broken>>
v1Vars == <<v1Conn, callers, v1Wire, mode, stopping, mishaps>>

Idle == [stage |-> "idle", kind |-> "none", req |-> 0, got |-> 0]
NotOpening == [by |-> "nobody", at |-> "no"]

V1Init ==
  /\ chan = [n |-> 0, sessions |-> 0, connected |-> FALSE, shaken |-> FALSE, quality |-> "offline"]
  /\ tasks = [reader |-> 0, beat |-> FALSE, missed |-> 0]
  /\ opening = [by |-> "start", at |-> "dial"]
  /\ timer = "none"
  /\ losing = "nobody"
  /\ callers = [c \in V1Callers |-> Idle]
  /\ toBoard = <<>> /\ fromBoard = <<>> /\ broken = FALSE
  /\ mode \in {"accept", "ignore"}
  /\ stopping = FALSE
  /\ mishaps = 0

-----------------------------------------------------------------------------
(* is_online                                                               *)
Online == chan.connected /\ chan.shaken /\ chan.quality = "online"

Issued == LET S == {callers[c].req : c \in V1Callers} IN CHOOSE m \in S : \A x \in S : x <= m
Mishap == mishaps < V1MaxFaults /\ mishaps' = mishaps + 1

(* The snapshot lock: one request for parameters at a time.                *)
LockFree ==
  \A c \in V1Callers :
    callers[c].kind = "parameters" => callers[c].stage \notin {"waiting", "timed_out", "leaving"}

(* The flags fall at once and the tasks are cancelled, except the one that *)
(* is running; the connection and all that is on it are gone.              *)
Torn(quality) ==
  /\ chan' = [chan EXCEPT !.n = 0, !.connected = FALSE, !.shaken = FALSE, !.quality = quality]
  /\ tasks' = [reader |-> 0, beat |-> FALSE, missed |-> 0]
  /\ toBoard' = <<>> /\ fromBoard' = <<>> /\ broken' = FALSE

(* _fail_pending(): the caller that is tearing down has no future left.    *)
Released == [c \in V1Callers |->
               IF callers[c].stage = "waiting" THEN [callers[c] EXCEPT !.stage = "failed"]
               ELSE callers[c]]

HelloFails == IF opening.at = "hello" THEN [opening EXCEPT !.at = "failed"] ELSE opening

-----------------------------------------------------------------------------
(* _open().                                                                *)
Dialled ==
  /\ opening.at = "dial" /\ ~stopping
  /\ chan.sessions < V1MaxSession
  /\ chan' = [chan EXCEPT !.n = chan.sessions + 1, !.sessions = @ + 1, !.connected = TRUE]
  /\ tasks' = [tasks EXCEPT !.reader = chan.sessions + 1]
  /\ opening' = [opening EXCEPT !.at = "hello"]
  /\ toBoard' = <<[type |-> "hello", req |-> 0]>> /\ fromBoard' = <<>> /\ broken' = FALSE
  /\ UNCHANGED <<timer, losing, callers, mode, stopping, mishaps>>

Unreachable ==
  /\ opening.at = "dial" /\ ~stopping
  /\ Mishap
  /\ opening' = [opening EXCEPT !.at = "failed"]
  /\ UNCHANGED <<chan, tasks, timer, losing, callers, v1Wire, mode, stopping>>

HelloTimesOut ==
  /\ opening.at = "hello"
  /\ Mishap
  /\ opening' = [opening EXCEPT !.at = "failed"]
  /\ UNCHANGED <<chan, tasks, timer, losing, callers, v1Wire, mode, stopping>>

(* The opener resumes with the hello_ack, even if the connection has been  *)
(* lost since: its heartbeat ends before it begins.                        *)
Negotiated ==
  /\ opening.at = "heard"
  /\ chan' = [chan EXCEPT !.shaken = TRUE, !.quality = "online"]
  /\ tasks' = [tasks EXCEPT !.beat = chan.connected, !.missed = 0]
  /\ opening' = NotOpening
  /\ timer' = IF opening.by = "reconnect" THEN "done" ELSE timer
  /\ UNCHANGED <<losing, callers, v1Wire, mode, stopping, mishaps>>

Refused ==
  /\ opening.at = "heard"
  /\ Mishap
  /\ opening' = [opening EXCEPT !.at = "failed"]
  /\ UNCHANGED <<chan, tasks, timer, losing, callers, v1Wire, mode, stopping>>

(* The opener rolls back: start() leaves the rest to a reconnect task, the *)
(* reconnect task waits and tries again.                                   *)
RollBack ==
  /\ opening.at = "failed"
  /\ Torn(IF opening.by = "start" THEN "offline" ELSE chan.quality)
  /\ callers' = Released
  /\ opening' = NotOpening
  /\ timer' = IF opening.by = "start" /\ timer \notin {"none", "done"} THEN timer ELSE "sleeping"
  /\ UNCHANGED <<losing, mode, stopping, mishaps>>

(* The delay is a second or more, and wait_closed is given up after one.   *)
Reconnect ==
  /\ timer = "sleeping" /\ ~stopping /\ opening = NotOpening /\ losing = "nobody"
  /\ timer' = "opening"
  /\ opening' = [by |-> "reconnect", at |-> "dial"]
  /\ UNCHANGED <<chan, tasks, losing, callers, v1Wire, mode, stopping, mishaps>>

-----------------------------------------------------------------------------
(* _on_connection_lost(), by the reader, the heartbeat or a caller: first  *)
(* the teardown up to wait_closed, then the rest.                          *)
LosingBegins(by) ==
  /\ losing = "nobody"
  /\ losing' = by
  /\ Torn(chan.quality)

MutantRearmed == IF timer = "none" THEN "sleeping" ELSE timer

Rearmed == IF timer \in {"none", "done"} THEN "sleeping" ELSE timer

(* The opener's answer was resolved before wait_closed could end, and its  *)
(* task resumes first.                                                     *)
LinkLost ==
  /\ losing # "nobody" /\ opening.at # "heard"
  /\ losing' = "nobody"
  /\ callers' = [c \in V1Callers |->
                   IF callers[c].stage \in {"leaving", "timed_out"}
                   THEN [callers[c] EXCEPT !.stage = "failed"] ELSE Released[c]]
  /\ opening' = HelloFails
  /\ chan' = [chan EXCEPT !.quality = "offline"]
  /\ timer' = IF stopping THEN timer ELSE Rearmed
  /\ UNCHANGED <<tasks, v1Wire, mode, stopping, mishaps>>

ReaderLost ==
  /\ tasks.reader = chan.n /\ chan.n # 0 /\ broken /\ fromBoard = <<>>
  /\ ~stopping
  /\ LosingBegins("reader")
  /\ UNCHANGED <<opening, timer, callers, mode, stopping, mishaps>>

Beat ==
  /\ tasks.beat /\ chan.connected /\ tasks.missed < V1MaxMissed
  /\ Mishap
  /\ tasks' = [tasks EXCEPT !.missed = @ + 1]
  /\ chan' = [chan EXCEPT !.quality = IF tasks.missed > 0 THEN "degraded" ELSE @]
  /\ UNCHANGED <<opening, timer, losing, callers, v1Wire, mode, stopping>>

HeartbeatLost ==
  /\ tasks.beat /\ chan.connected
  /\ tasks.missed = V1MaxMissed \/ broken
  /\ ~stopping
  /\ LosingBegins("heartbeat")
  /\ UNCHANGED <<opening, timer, callers, mode, stopping, mishaps>>

HeartbeatAcked ==
  /\ tasks.missed > 0 /\ tasks.reader = chan.n /\ ~broken
  /\ tasks' = [tasks EXCEPT !.missed = 0]
  /\ chan' = [chan EXCEPT !.quality = IF chan.shaken THEN "online" ELSE @]
  /\ UNCHANGED <<opening, timer, losing, callers, v1Wire, mode, stopping, mishaps>>

-----------------------------------------------------------------------------
Written(c, kind) ==
  /\ callers[c].stage = "idle" /\ Issued < V1MaxRequests
  /\ callers' = [callers EXCEPT ![c] =
                   [stage |-> "waiting", kind |-> kind, req |-> Issued + 1, got |-> 0]]
  /\ toBoard' = Append(toBoard, [type |-> kind, req |-> Issued + 1])
  /\ UNCHANGED <<v1Conn, fromBoard, broken, mode, stopping, mishaps>>

(* _await_type() for the parameters; nothing checks for the handshake.     *)
Ask(c) == LockFree /\ chan.connected /\ Written(c, "parameters")

(* send_command(), each with an identity that is never sent again          *)
Command(c) == Online /\ Written(c, "command")

(* The outcome of the command is unknown; the connection stays.            *)
CommandTimesOut(c) ==
  /\ callers[c].stage = "waiting" /\ callers[c].kind = "command"
  /\ Mishap
  /\ callers' = [callers EXCEPT ![c].stage = "failed"]
  /\ UNCHANGED <<v1Conn, v1Wire, mode, stopping>>

MutantChangeSession(c) ==
  /\ callers' = [callers EXCEPT ![c].stage = "failed"]
  /\ UNCHANGED <<chan, tasks, losing, v1Wire>>

(* The old protocol does not say which request an answer is to: a request  *)
(* that was given up takes its connection with it, unless another task is  *)
(* doing that already; then the caller waits for it.                       *)
ChangeSession(c) ==
  \/ /\ LosingBegins("caller")
     /\ callers' = [callers EXCEPT ![c].stage = "leaving"]
  \/ /\ losing # "nobody"
     /\ callers' = [callers EXCEPT ![c].stage = "timed_out"]
     /\ UNCHANGED <<chan, tasks, losing, v1Wire>>

AskTimesOut(c) ==
  /\ callers[c].stage = "waiting" /\ callers[c].kind = "parameters"
  /\ Mishap
  /\ ChangeSession(c)
  /\ UNCHANGED <<opening, timer, mode, stopping>>

Return(c) ==
  /\ callers[c].stage \in {"answered", "failed"}
  /\ callers' = [callers EXCEPT ![c].stage = "idle"]
  /\ UNCHANGED <<v1Conn, v1Wire, mode, stopping, mishaps>>

(* The board handles one frame of the connection after another.            *)
Handle ==
  /\ toBoard # <<>> /\ ~broken
  /\ toBoard' = Tail(toBoard)
  /\ fromBoard' = IF Head(toBoard).type = "command" /\ mode = "ignore" THEN fromBoard
                  ELSE Append(fromBoard, Head(toBoard))
  /\ UNCHANGED <<v1Conn, callers, broken, mode, stopping, mishaps>>

Break ==
  /\ chan.connected /\ ~broken
  /\ Mishap
  /\ broken' = TRUE
  /\ toBoard' = <<>>
  /\ UNCHANGED <<v1Conn, callers, fromBoard, mode, stopping>>

(* _dispatch() and _resolve_waiter(): a result goes to the command it      *)
(* names, parameters to whoever waits for parameters.                      *)
Meant(c, f) ==
  /\ callers[c].stage = "waiting" /\ callers[c].kind = f.type
  /\ f.type = "command" => callers[c].req = f.req

DispatchFrame ==
  /\ fromBoard # <<>> /\ tasks.reader = chan.n
  /\ fromBoard' = Tail(fromBoard)
  /\ IF Head(fromBoard).type = "hello"
     THEN /\ opening' = IF opening.at = "hello" THEN [opening EXCEPT !.at = "heard"] ELSE opening
          /\ UNCHANGED callers
     ELSE /\ callers' = [c \in V1Callers |->
                           IF Meant(c, Head(fromBoard))
                           THEN [callers[c] EXCEPT !.stage = "answered",
                                                   !.got = Head(fromBoard).req]
                           ELSE callers[c]]
          /\ UNCHANGED opening
  /\ UNCHANGED <<chan, tasks, timer, losing, toBoard, broken, mode, stopping, mishaps>>

(* close(), once the application has started: the reconnect task ends.     *)
Close ==
  /\ ~stopping /\ opening.by # "start"
  /\ stopping' = TRUE
  /\ Torn("offline")
  /\ callers' = Released
  /\ opening' = NotOpening
  /\ timer' = "none"
  /\ UNCHANGED <<losing, mode, mishaps>>

V1Next ==
  \/ Dialled \/ Unreachable \/ HelloTimesOut \/ Negotiated \/ Refused \/ RollBack
  \/ Reconnect \/ LinkLost \/ ReaderLost \/ Beat \/ HeartbeatLost \/ HeartbeatAcked
  \/ Handle \/ Break \/ DispatchFrame \/ Close
  \/ \E c \in V1Callers :
       Ask(c) \/ AskTimesOut(c) \/ Command(c) \/ CommandTimesOut(c) \/ Return(c)

V1Spec == V1Init /\ [][V1Next]_v1Vars
-----------------------------------------------------------------------------
V1TypeOK ==
  /\ chan.n \in 0..chan.sessions /\ chan.quality \in {"offline", "degraded", "online"}
  /\ tasks.reader \in {0, chan.n} /\ tasks.missed \in 0..V1MaxMissed
  /\ opening.by \in {"nobody", "start", "reconnect"}
  /\ opening.at \in {"no", "dial", "hello", "heard", "failed"}
  /\ timer \in {"none", "sleeping", "opening", "done"}
  /\ losing \in {"nobody", "reader", "heartbeat", "caller"}
  /\ mishaps \in 0..V1MaxFaults

(* An answer is the board's answer to that very request: a late answer to  *)
(* a request that was given up is never taken for the next one's.          *)
AnswerIsOwn ==
  \A c \in V1Callers : callers[c].stage = "answered" => callers[c].got = callers[c].req

(* Until close(), either a connection is read and supervised, or some task *)
(* is at work to get one: whoever noticed the loss, in whatever order.     *)
NeverAbandoned ==
  stopping \/ losing # "nobody" \/ opening # NotOpening \/ timer = "sleeping"
    \/ (chan.connected /\ tasks.reader = chan.n /\ tasks.beat)
=============================================================================
