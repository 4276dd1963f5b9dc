--------------------------- MODULE HostCommV1Proofs ---------------------------
(***************************************************************************)
(* Theorems about HostComm 1.0.  Its client: what it promises its callers    *)
(* although answers do not say which request they are to, and that it        *)
(* never stays without a connection, for any callers, any number of          *)
(* requests, connections and faults.  The recording of its board's runs:     *)
(* what a session that is closed or called complete stands for, for a        *)
(* queue of any length and any number of samples, boots and faults.          *)
(***************************************************************************)
EXTENDS HostCommV1, MeasurementRun, TLAPS, FiniteSetTheorems

CallerStages == {"idle", "waiting", "answered", "failed", "leaving", "timed_out"}
CallerType(R) == [stage : CallerStages, kind : {"none", "parameters", "command"}, req : R, got : R]
FrameType(R)  == [type : {"hello", "parameters", "command"}, req : R]
OpeningType   == [by : {"nobody", "start", "reconnect"}, at : {"no", "dial", "hello", "heard", "failed"}]
ChanType == [n : Nat, sessions : Nat, connected : BOOLEAN, shaken : BOOLEAN,
             quality : {"offline", "degraded", "online"}]

Typed(R) == /\ callers \in [V1Callers -> CallerType(R)]
            /\ toBoard \in Seq(FrameType(R)) /\ fromBoard \in Seq(FrameType(R))
            /\ opening \in OpeningType /\ chan \in ChanType

(* Nothing is on a connection that is not there, and no request waits    *)
(* while one is dialled or about to be.                                  *)
Down == ~chan.connected /\ \A c \in V1Callers : callers[c].stage # "waiting"
LinkKept ==
  /\ chan.n # 0 => chan.connected
  /\ ~chan.connected => toBoard = <<>> /\ fromBoard = <<>>
  /\ losing # "nobody" => ~chan.connected
  /\ opening.at = "dial" => Down /\ losing = "nobody" /\ timer # "sleeping"
  /\ timer = "sleeping" => Down

(* One caller at most asks for parameters, and what the connection carries   *)
(* of parameters, one frame at most, is for that caller.                     *)
Asking(c)   == callers[c].kind = "parameters"
  /\ callers[c].stage \in {"waiting", "timed_out", "leaving"}
AskedFor(x) ==
  \E c \in V1Callers : callers[c].kind = "parameters" /\ callers[c].stage = "waiting"
    /\ callers[c].req = x
OnWire(s) == {i \in DOMAIN s : s[i].type = "parameters"}
OneQuestion ==
  /\ \A c, d \in V1Callers : Asking(c) /\ Asking(d) => c = d
  /\ \A i \in OnWire(toBoard) : AskedFor(toBoard[i].req) /\ OnWire(fromBoard) = {}
  /\ \A i \in OnWire(fromBoard) : AskedFor(fromBoard[i].req)
  /\ \A i, j \in OnWire(toBoard) : i = j
  /\ \A i, j \in OnWire(fromBoard) : i = j

V1Kept == (\E R : Typed(R)) /\ LinkKept /\ OneQuestion /\ AnswerIsOwn

LEMMA V1InitKept == V1Init => V1Kept
<1> SUFFICES ASSUME V1Init PROVE V1Kept
  OBVIOUS
<1>1. Typed({0})
  BY DEF V1Init, Typed, CallerType, CallerStages, FrameType, OpeningType, ChanType, Idle
<1>2. LinkKept /\ AnswerIsOwn
  BY DEF V1Init, LinkKept, Down, AnswerIsOwn, Idle
<1>3. OneQuestion
  BY DEF V1Init, OneQuestion, OnWire, Asking, Idle
<1>4. QED BY <1>1, <1>2, <1>3 DEF V1Kept

-----------------------------------------------------------------------------
(* Steps that leave the callers and the frames alone.                    *)

LEMMA FramesStay ==
  ASSUME V1Kept, UNCHANGED <<callers, toBoard, fromBoard>>, LinkKept',
         opening' \in OpeningType, chan' \in ChanType
  PROVE  V1Kept'
<1>1. \E R : Typed(R)'
  BY DEF V1Kept, Typed
<1>2. OneQuestion' /\ AnswerIsOwn'
  BY DEF V1Kept, OneQuestion, AnswerIsOwn, OnWire, AskedFor, Asking
<1>3. QED BY <1>1, <1>2 DEF V1Kept

LEMMA DialledKept == V1Kept /\ Dialled => V1Kept'
<1> SUFFICES ASSUME V1Kept, Dialled PROVE V1Kept'
  OBVIOUS
<1>1. PICK R : Typed(R)
  BY DEF V1Kept
<1>2. Typed(R \cup {0})'
  <2>1. callers' \in [V1Callers -> CallerType(R \cup {0})]
    BY <1>1 DEF Dialled, Typed, CallerType
  <2>2. toBoard' \in Seq(FrameType(R \cup {0})) /\ fromBoard' \in Seq(FrameType(R \cup {0}))
    BY DEF Dialled, FrameType
  <2>3. opening' \in OpeningType
    BY <1>1 DEF Dialled, Typed, OpeningType
  <2>4. chan' \in ChanType
    <3>1. chan.sessions + 1 \in Nat /\ chan \in ChanType
      BY <1>1 DEF Typed, ChanType
    <3>2. chan' = [chan EXCEPT !.n = chan.sessions + 1, !.sessions = chan.sessions + 1, !.connected = TRUE]
      BY DEF Dialled
    <3>3. QED BY <3>1, <3>2 DEF ChanType
  <2>5. QED BY <2>1, <2>2, <2>3, <2>4 DEF Typed
<1>3. LinkKept'
  BY <1>1 DEF V1Kept, LinkKept, Dialled, Down, Typed, ChanType, OpeningType
<1>4. OneQuestion' /\ AnswerIsOwn'
  BY DEF V1Kept, Dialled, OneQuestion, AnswerIsOwn, OnWire, Asking
<1>5. QED BY <1>2, <1>3, <1>4 DEF V1Kept

LEMMA OpeningKept ==
  ASSUME V1Kept, Unreachable \/ HelloTimesOut \/ Negotiated \/ Refused \/ Reconnect \/ Beat \/ HeartbeatAcked
  PROVE  V1Kept'
<1>1. PICK R : Typed(R)
  BY DEF V1Kept
<1>2. UNCHANGED <<callers, toBoard, fromBoard, losing>>
  BY DEF Unreachable, HelloTimesOut, Negotiated, Refused, Reconnect, Beat, HeartbeatAcked, v1Wire
<1>3. opening' \in OpeningType
  BY <1>1 DEF Unreachable, HelloTimesOut, Negotiated, Refused, Reconnect, Beat, HeartbeatAcked, Typed,
     OpeningType, NotOpening
<1>4. chan' \in ChanType /\ chan'.n = chan.n /\ chan'.connected = chan.connected
  <2>1. chan \in ChanType
    BY <1>1 DEF Typed
  <2>2. CASE Beat \/ HeartbeatAcked
    BY <2>1, <2>2 DEF Beat, HeartbeatAcked, ChanType
  <2>3. CASE Negotiated
    BY <2>1, <2>3 DEF Negotiated, ChanType
  <2>4. CASE Unreachable \/ HelloTimesOut \/ Refused \/ Reconnect
    BY <2>1, <2>4 DEF Unreachable, HelloTimesOut, Refused, Reconnect
  <2>5. QED BY <2>2, <2>3, <2>4
<1>5. /\ opening'.at = "dial" =>
           \/ opening.at = "dial" /\ timer' = timer
           \/ timer = "sleeping" /\ losing = "nobody" /\ timer' = "opening"
      /\ timer' = "sleeping" => timer = "sleeping"
  <2>1. opening \in OpeningType
    BY <1>1 DEF Typed
  <2>2. CASE Unreachable \/ HelloTimesOut \/ Refused
    BY <2>1, <2>2 DEF Unreachable, HelloTimesOut, Refused, OpeningType
  <2>3. CASE Negotiated
    BY <2>3 DEF Negotiated, NotOpening
  <2>4. CASE Reconnect
    BY <2>4 DEF Reconnect
  <2>5. CASE Beat \/ HeartbeatAcked
    <3>1. UNCHANGED <<opening, timer>>
      BY <2>5 DEF Beat, HeartbeatAcked
    <3>2. QED BY <3>1
  <2>6. QED BY <2>2, <2>3, <2>4, <2>5
<1>6. LinkKept'
  <2>1. (Down => Down') /\ LinkKept
    BY <1>2, <1>4 DEF Down, V1Kept
  <2>2. opening'.at = "dial" => Down' /\ losing' = "nobody" /\ timer' # "sleeping"
    BY <1>2, <1>5, <2>1 DEF LinkKept
  <2>3. timer' = "sleeping" => Down'
    BY <1>5, <2>1 DEF LinkKept
  <2>4. /\ chan'.n # 0 => chan'.connected
        /\ ~chan'.connected => toBoard' = <<>> /\ fromBoard' = <<>>
        /\ losing' # "nobody" => ~chan'.connected
    BY <1>2, <1>4, <2>1 DEF LinkKept
  <2>5. QED BY <2>2, <2>3, <2>4 DEF LinkKept
<1>7. QED BY <1>2, <1>3, <1>4, <1>6, FramesStay

-----------------------------------------------------------------------------
(* Steps that give requests up and leave nothing on a connection.        *)

(* A request is given up: it may wait for the teardown, never be answered.   *)
GivesUp(c) ==
  \/ callers'[c] = callers[c]
  \/ /\ callers[c].stage \in {"waiting", "timed_out", "leaving"}
     /\ \E stage \in {"failed", "leaving", "timed_out"} : callers'[c] = [callers[c] EXCEPT !.stage = stage]

LEMMA EmptyKept ==
  ASSUME V1Kept, LinkKept', toBoard' = <<>>, fromBoard' = <<>>, opening' \in OpeningType, chan' \in ChanType,
         DOMAIN callers' = V1Callers, callers' = [c \in V1Callers |-> callers'[c]],
         \A c \in V1Callers : GivesUp(c)
  PROVE  V1Kept'
<1>1. PICK R : Typed(R)
  BY DEF V1Kept
<1>2. \A c \in V1Callers : callers[c] \in CallerType(R)
  BY <1>1 DEF Typed
<1>3. ASSUME NEW c \in V1Callers
      PROVE  /\ callers'[c] \in CallerType(R)
             /\ callers'[c].kind = callers[c].kind
             /\ Asking(c)' => Asking(c)
             /\ callers'[c].stage = "answered" => callers'[c] = callers[c]
  <2>1. GivesUp(c) /\ callers[c] \in CallerType(R)
    BY <1>2
  <2>2. CASE callers'[c] = callers[c]
    BY <2>1, <2>2 DEF Asking
  <2>3. CASE /\ callers[c].stage \in {"waiting", "timed_out", "leaving"}
             /\ \E stage \in {"failed", "leaving", "timed_out"} :
                  callers'[c] = [callers[c] EXCEPT !.stage = stage]
    BY <2>1, <2>3 DEF CallerType, CallerStages, Asking
  <2>4. QED BY <2>1, <2>2, <2>3 DEF GivesUp
<1>4. Typed(R)'
  BY <1>3 DEF Typed
<1>5. OneQuestion'
  BY <1>3 DEF V1Kept, OneQuestion, OnWire
<1>6. AnswerIsOwn'
  BY <1>3 DEF V1Kept, AnswerIsOwn
<1>7. QED BY <1>4, <1>5, <1>6 DEF V1Kept

LEMMA ReleasedGivesUp ==
  ASSUME V1Kept, callers' = Released
  PROVE  /\ DOMAIN callers' = V1Callers /\ callers' = [c \in V1Callers |-> callers'[c]]
         /\ \A c \in V1Callers : GivesUp(c) /\ callers'[c].stage # "waiting"
<1>1. PICK R : Typed(R)
  BY DEF V1Kept
<1>2. QED BY <1>1 DEF Typed, CallerType, Released, GivesUp

LEMMA TornDown ==
  ASSUME V1Kept, NEW quality \in {"offline", "degraded", "online"}, Torn(quality)
  PROVE  /\ chan' \in ChanType /\ ~chan'.connected /\ chan'.n = 0
         /\ toBoard' = <<>> /\ fromBoard' = <<>>
<1>1. chan \in ChanType
  BY DEF V1Kept, Typed
<1>2. QED BY <1>1 DEF Torn, ChanType

LEMMA QualityTyped == ASSUME V1Kept PROVE chan.quality \in {"offline", "degraded", "online"}
BY DEF V1Kept, Typed, ChanType

LEMMA RollBackKept == ASSUME V1Kept, RollBack \/ Close PROVE V1Kept'
<1>1. PICK quality \in {"offline", "degraded", "online"} : Torn(quality)
  BY QualityTyped DEF RollBack, Close
<1>2. /\ chan' \in ChanType /\ ~chan'.connected /\ chan'.n = 0
      /\ toBoard' = <<>> /\ fromBoard' = <<>>
  BY <1>1, TornDown
<1>3. opening' = NotOpening /\ callers' = Released
  BY DEF RollBack, Close
<1>4. opening' \in OpeningType /\ opening'.at = "no"
  BY <1>3 DEF NotOpening, OpeningType
<1>5. LinkKept'
  BY <1>2, <1>3, <1>4, ReleasedGivesUp DEF LinkKept, Down
<1>6. QED BY <1>2, <1>3, <1>4, <1>5, ReleasedGivesUp, EmptyKept

LEMMA LostKept == ASSUME V1Kept, ReaderLost \/ HeartbeatLost PROVE V1Kept'
<1>1. Torn(chan.quality) /\ losing = "nobody" /\ chan.connected
  BY DEF ReaderLost, HeartbeatLost, LosingBegins, V1Kept, LinkKept
<1>2. /\ chan' \in ChanType /\ ~chan'.connected /\ chan'.n = 0
      /\ toBoard' = <<>> /\ fromBoard' = <<>>
  BY <1>1, TornDown, QualityTyped
<1>3. UNCHANGED <<opening, timer, callers>> /\ opening \in OpeningType
  BY DEF ReaderLost, HeartbeatLost, V1Kept, Typed
<1>4. opening.at # "dial" /\ timer # "sleeping"
  BY <1>1 DEF V1Kept, LinkKept, Down
<1>5. LinkKept'
  BY <1>2, <1>3, <1>4 DEF LinkKept
<1>6. DOMAIN callers' = V1Callers /\ callers' = [c \in V1Callers |-> callers'[c]]
  BY <1>3 DEF V1Kept, Typed
<1>7. QED BY <1>2, <1>3, <1>5, <1>6, EmptyKept DEF GivesUp

LEMMA LinkLostKept == ASSUME V1Kept, LinkLost PROVE V1Kept'
<1>1. PICK R : Typed(R)
  BY DEF V1Kept
<1>2. ~chan.connected /\ opening.at # "dial"
  BY DEF V1Kept, LinkKept, LinkLost
<1>3. toBoard' = <<>> /\ fromBoard' = <<>>
  BY <1>2 DEF V1Kept, LinkKept, LinkLost, v1Wire
<1>4. chan' \in ChanType /\ chan'.n = chan.n /\ chan'.connected = chan.connected
  BY <1>1 DEF LinkLost, Typed, ChanType
<1>5. opening' \in OpeningType /\ opening'.at # "dial"
  BY <1>1, <1>2 DEF LinkLost, HelloFails, Typed, OpeningType
<1>6. /\ DOMAIN callers' = V1Callers /\ callers' = [c \in V1Callers |-> callers'[c]]
      /\ \A c \in V1Callers : GivesUp(c) /\ callers'[c].stage # "waiting"
  BY <1>1 DEF LinkLost, Typed, CallerType, Released, GivesUp
<1>7. LinkKept'
  BY <1>2, <1>3, <1>4, <1>5, <1>6 DEF V1Kept, LinkKept, Down, LinkLost
<1>8. QED BY <1>3, <1>4, <1>5, <1>6, <1>7, EmptyKept

LEMMA AskTimesOutKept == ASSUME V1Kept, NEW c \in V1Callers, AskTimesOut(c) PROVE V1Kept'
<1>1. PICK R : Typed(R)
  BY DEF V1Kept
<1>2. UNCHANGED <<opening, timer>> /\ opening \in OpeningType /\ callers[c].stage = "waiting"
  BY <1>1 DEF AskTimesOut, Typed
<1>3. opening.at # "dial" /\ timer # "sleeping"
  BY <1>2 DEF V1Kept, LinkKept, Down
<1>4. /\ chan' \in ChanType /\ ~chan'.connected /\ (chan'.n # 0 => chan'.connected)
      /\ toBoard' = <<>> /\ fromBoard' = <<>>
  <2>1. CASE LosingBegins("caller")
    BY <2>1, TornDown, QualityTyped DEF LosingBegins
  <2>2. CASE losing # "nobody" /\ UNCHANGED <<chan, tasks, losing, v1Wire>>
    BY <1>1, <2>2 DEF V1Kept, LinkKept, Typed, v1Wire
  <2>3. QED BY <2>1, <2>2 DEF AskTimesOut, ChangeSession
<1>5. PICK stage \in {"leaving", "timed_out"} : callers' = [callers EXCEPT ![c].stage = stage]
  BY DEF AskTimesOut, ChangeSession
<1>6. /\ DOMAIN callers' = V1Callers /\ callers' = [d \in V1Callers |-> callers'[d]]
      /\ \A d \in V1Callers : GivesUp(d)
  BY <1>1, <1>2, <1>5 DEF Typed, CallerType, GivesUp
<1>7. LinkKept'
  BY <1>2, <1>3, <1>4 DEF LinkKept
<1>8. QED BY <1>2, <1>4, <1>6, <1>7, EmptyKept

-----------------------------------------------------------------------------
(* Requests and answers.                                                 *)

LEMMA LinkStays ==
  ASSUME V1Kept, UNCHANGED <<chan, opening, timer, losing>>, ~chan.connected => UNCHANGED <<toBoard, fromBoard>>,
         \A c \in V1Callers :
           callers'[c].stage = "waiting" => callers[c].stage = "waiting" \/ chan.connected
  PROVE  LinkKept'
BY DEF V1Kept, LinkKept, Down

LEMMA SeqGrows == ASSUME NEW A, NEW B, A \subseteq B, NEW s \in Seq(A) PROVE s \in Seq(B)
<1>1. Len(s) \in Nat /\ DOMAIN s = 1..Len(s) /\ \A i \in 1..Len(s) : s[i] \in A
  OBVIOUS
<1>2. \A i \in 1..Len(s) : s[i] \in B
  BY <1>1
<1>3. s = [i \in 1..Len(s) |-> s[i]]
  OBVIOUS
<1>4. QED BY <1>1, <1>2, <1>3

LEMMA WrittenKept ==
  ASSUME V1Kept, NEW c \in V1Callers, NEW kind \in {"parameters", "command"}, chan.connected, Written(c, kind),
         kind = "parameters" => LockFree
  PROVE  V1Kept'
<1>1. PICK R : Typed(R)
  BY DEF V1Kept
<1>0. PICK req : req = Issued + 1
  OBVIOUS
<1> DEFINE frame == [type |-> kind, req |-> req]
           S == R \cup {0, req}
<1>2. /\ callers' = [callers EXCEPT ![c] = [stage |-> "waiting", kind |-> kind, req |-> req, got |-> 0]]
      /\ toBoard' = Append(toBoard, frame) /\ callers[c].stage = "idle"
      /\ UNCHANGED <<fromBoard, chan, opening, timer, losing>>
  BY <1>0 DEF Written, v1Conn
<1>3. Typed(S)'
  <2>1. callers' \in [V1Callers -> CallerType(S)]
    BY <1>1, <1>2 DEF Typed, CallerType, CallerStages
  <2>2. toBoard \in Seq(FrameType(S)) /\ fromBoard \in Seq(FrameType(S)) /\ frame \in FrameType(S)
    <3>1. frame \in FrameType(S) /\ FrameType(R) \subseteq FrameType(S)
      BY DEF FrameType
    <3>2. toBoard \in Seq(FrameType(R)) /\ fromBoard \in Seq(FrameType(R))
      BY <1>1 DEF Typed
    <3>3. QED BY <3>1, <3>2, SeqGrows
  <2>3. toBoard' \in Seq(FrameType(S)) /\ fromBoard' \in Seq(FrameType(S))
    BY <1>2, <2>2
  <2>4. QED BY <1>1, <1>2, <2>1, <2>3 DEF Typed
<1>4. LinkKept'
  BY <1>2, LinkStays
<1>5. /\ callers'[c].stage = "waiting" /\ callers'[c].kind = kind /\ callers'[c].req = req
      /\ \A d \in V1Callers : d # c => callers'[d] = callers[d]
  BY <1>1, <1>2 DEF Typed
<1>6. AnswerIsOwn'
  BY <1>5 DEF V1Kept, AnswerIsOwn
<1>7. \A x : AskedFor(x) => AskedFor(x)'
  BY <1>2, <1>5 DEF AskedFor
<1>8. /\ Len(toBoard') = Len(toBoard) + 1 /\ toBoard'[Len(toBoard) + 1] = frame
      /\ \A i \in 1..Len(toBoard) : toBoard'[i] = toBoard[i]
      /\ Len(toBoard) \in Nat /\ DOMAIN toBoard = 1..Len(toBoard)
           /\ DOMAIN toBoard' = 1..(Len(toBoard) + 1)
  BY <1>1, <1>2 DEF Typed
<1>9. CASE kind = "command"
  <2>1. OnWire(toBoard') = OnWire(toBoard)
    BY <1>8, <1>9 DEF OnWire
  <2>2. \A i \in OnWire(toBoard) : toBoard'[i] = toBoard[i]
    BY <1>8 DEF OnWire
  <2>3. \A d \in V1Callers : Asking(d)' => Asking(d)
    BY <1>5, <1>9 DEF Asking
  <2>4. OneQuestion'
    BY <1>2, <1>7, <2>1, <2>2, <2>3 DEF V1Kept, OneQuestion
  <2>5. QED BY <1>3, <1>4, <1>6, <2>4 DEF V1Kept
<1>10. CASE kind = "parameters"
  <2>1. \A d \in V1Callers : ~Asking(d)
    BY <1>10 DEF LockFree, Asking
  <2>2. OnWire(toBoard) = {} /\ OnWire(fromBoard) = {}
    BY <2>1 DEF V1Kept, OneQuestion, AskedFor, Asking
  <2>3. OnWire(toBoard') = {Len(toBoard) + 1}
    BY <1>8, <1>10, <2>2 DEF OnWire
  <2>4. AskedFor(req)'
    BY <1>5, <1>10 DEF AskedFor
  <2>5. \A i \in OnWire(toBoard)' : AskedFor(toBoard[i].req)'
    BY <1>8, <2>3, <2>4
  <2>6. \A d \in V1Callers : Asking(d)' => d = c
    BY <1>5, <2>1 DEF Asking
  <2>7. OneQuestion'
    BY <1>2, <2>2, <2>3, <2>5, <2>6 DEF OneQuestion
  <2>8. QED BY <1>3, <1>4, <1>6, <2>7 DEF V1Kept
<1>11. QED BY <1>9, <1>10

LEMMA ReturnKept ==
  ASSUME V1Kept, NEW c \in V1Callers, CommandTimesOut(c) \/ Return(c) PROVE V1Kept'
<1>1. PICK R : Typed(R)
  BY DEF V1Kept
<1>2. PICK stage \in {"failed", "idle"} : callers' = [callers EXCEPT ![c].stage = stage]
  BY DEF CommandTimesOut, Return
<1>3. UNCHANGED <<toBoard, fromBoard, chan, opening, timer, losing>>
  BY DEF CommandTimesOut, Return, v1Wire, v1Conn
<1>4. /\ callers'[c] = [callers[c] EXCEPT !.stage = stage] /\ callers[c] \in CallerType(R)
      /\ \A d \in V1Callers : d # c => callers'[d] = callers[d]
  BY <1>1, <1>2 DEF Typed
<1>5. Typed(R)'
  BY <1>1, <1>2, <1>3 DEF Typed, CallerType, CallerStages
<1>6. LinkKept'
  BY <1>3, <1>4, LinkStays DEF CallerType
<1>7. AnswerIsOwn'
  BY <1>4 DEF V1Kept, AnswerIsOwn, CallerType
<1>8. \A x : AskedFor(x) => AskedFor(x)'
  BY <1>4 DEF AskedFor, CommandTimesOut, Return
<1>9. \A d \in V1Callers : Asking(d)' => Asking(d)
  BY <1>4 DEF Asking, CallerType
<1>10. OneQuestion'
  BY <1>3, <1>8, <1>9 DEF V1Kept, OneQuestion
<1>11. QED BY <1>5, <1>6, <1>7, <1>10 DEF V1Kept

LEMMA BreakKept == ASSUME V1Kept, Break PROVE V1Kept'
<1>1. UNCHANGED <<callers, fromBoard, chan, opening, timer, losing>> /\ toBoard' = <<>>
        /\ chan.connected
  BY DEF Break, v1Conn
<1>2. \E R : Typed(R)'
  BY <1>1 DEF V1Kept, Typed
<1>3. LinkKept'
  BY <1>1, LinkStays
<1>4. OneQuestion' /\ AnswerIsOwn'
  BY <1>1 DEF V1Kept, OneQuestion, OnWire, AskedFor, Asking, AnswerIsOwn
<1>5. QED BY <1>2, <1>3, <1>4 DEF V1Kept

(* Tail takes the frame at the head away and moves the others up.        *)
LEMMA HeadGone ==
  ASSUME NEW T, NEW s \in Seq(T), s # <<>>
  PROVE  /\ Tail(s) \in Seq(T) /\ Head(s) = s[1] /\ Head(s) \in T /\ 1 \in DOMAIN s
         /\ \A i \in DOMAIN Tail(s) : i + 1 \in DOMAIN s /\ i + 1 # 1 /\ Tail(s)[i] = s[i + 1]
         /\ \A i, j \in DOMAIN Tail(s) : i + 1 = j + 1 => i = j
OBVIOUS

LEMMA TailOnWire ==
  ASSUME NEW R, NEW s \in Seq(FrameType(R)), s # <<>>
  PROVE  /\ \A i \in OnWire(Tail(s)) : i + 1 \in OnWire(s) /\ i + 1 # 1 /\ Tail(s)[i] = s[i + 1]
         /\ \A i, j \in OnWire(Tail(s)) : i + 1 = j + 1 => i = j
         /\ Head(s).type = "parameters" => 1 \in OnWire(s)
BY HeadGone DEF OnWire

LEMMA HandleKept == ASSUME V1Kept, Handle PROVE V1Kept'
<1>1. PICK R : Typed(R)
  BY DEF V1Kept
<1> DEFINE f == Head(toBoard)
<1>2. /\ UNCHANGED <<callers, chan, opening, timer, losing>>
      /\ toBoard # <<>> /\ toBoard' = Tail(toBoard)
      /\ fromBoard' = fromBoard \/ fromBoard' = Append(fromBoard, f)
  BY DEF Handle, v1Conn
<1>3. /\ toBoard \in Seq(FrameType(R)) /\ fromBoard \in Seq(FrameType(R))
      /\ f \in FrameType(R) /\ f = toBoard[1] /\ Tail(toBoard) \in Seq(FrameType(R))
  BY <1>1, <1>2, HeadGone DEF Typed
<1>4. Typed(R)'
  <2>1. PICK F : F = FrameType(R)
    OBVIOUS
  <2>2. toBoard' \in Seq(F)
    BY <1>2, <1>3, <2>1
  <2>3. Append(fromBoard, f) \in Seq(F)
    BY <1>3, <2>1
  <2>4. toBoard' \in Seq(FrameType(R)) /\ fromBoard' \in Seq(FrameType(R))
    BY <1>2, <1>3, <2>1, <2>2, <2>3
  <2>5. QED BY <1>1, <1>2, <2>4 DEF Typed
<1>5. LinkKept'
  <2>1. chan.connected
    BY <1>2 DEF V1Kept, LinkKept
  <2>2. QED BY <1>2, <2>1, LinkStays
<1>6. \A x : AskedFor(x)' <=> AskedFor(x)
  BY <1>2 DEF AskedFor
<1>7. /\ \A i \in OnWire(Tail(toBoard)) : i + 1 \in OnWire(toBoard) /\ i + 1 # 1
           /\ Tail(toBoard)[i] = toBoard[i + 1]
      /\ \A i, j \in OnWire(Tail(toBoard)) : i + 1 = j + 1 => i = j
      /\ f.type = "parameters" => 1 \in OnWire(toBoard)
  BY <1>2, <1>3, TailOnWire
<1>8. \/ fromBoard' = fromBoard
      \/ /\ DOMAIN fromBoard' = DOMAIN fromBoard \cup {Len(fromBoard) + 1}
         /\ fromBoard'[Len(fromBoard) + 1] = f
         /\ \A i \in DOMAIN fromBoard : fromBoard'[i] = fromBoard[i]
  <2>1. CASE fromBoard' = Append(fromBoard, f)
    <3>1. /\ DOMAIN fromBoard' = 1..(Len(fromBoard) + 1) /\ DOMAIN fromBoard = 1..Len(fromBoard)
          /\ Len(fromBoard) \in Nat /\ fromBoard'[Len(fromBoard) + 1] = f
          /\ \A i \in 1..Len(fromBoard) : fromBoard'[i] = fromBoard[i]
      BY <1>3, <2>1
    <3>2. QED BY <3>1
  <2>2. QED BY <1>2, <2>1
<1>9. CASE f.type = "parameters"
  <2>1. OnWire(toBoard') = {} /\ OnWire(fromBoard) = {} /\ AskedFor(f.req)
    BY <1>2, <1>3, <1>7, <1>9 DEF V1Kept, OneQuestion
  <2>2. OnWire(fromBoard') \subseteq {Len(fromBoard) + 1}
          /\ \A i \in OnWire(fromBoard') : fromBoard'[i] = f
    BY <1>8, <2>1 DEF OnWire
  <2>3. OneQuestion'
    BY <1>2, <1>6, <2>1, <2>2 DEF V1Kept, OneQuestion, Asking
  <2>4. QED BY <1>2, <1>4, <1>5, <2>3 DEF V1Kept, AnswerIsOwn
<1>10. CASE f.type # "parameters"
  <2>1. OnWire(fromBoard') = OnWire(fromBoard)
          /\ \A i \in OnWire(fromBoard) : fromBoard'[i] = fromBoard[i]
    <3>1. CASE fromBoard' = fromBoard
      BY <3>1
    <3>2. CASE fromBoard' # fromBoard
      BY <1>8, <1>10, <3>2 DEF OnWire
    <3>3. QED BY <3>1, <3>2
  <2>2. OneQuestion'
    <3>1. \A c, d \in V1Callers : Asking(c)' /\ Asking(d)' => c = d
      BY <1>2 DEF V1Kept, OneQuestion, Asking
    <3>2. \A i \in OnWire(toBoard)' : AskedFor(toBoard[i].req)' /\ OnWire(fromBoard)' = {}
      BY <1>2, <1>6, <1>7, <2>1 DEF V1Kept, OneQuestion
    <3>3. \A i \in OnWire(fromBoard)' : AskedFor(fromBoard[i].req)'
      BY <1>6, <2>1 DEF V1Kept, OneQuestion
    <3>4. \A i, j \in OnWire(toBoard)' : i = j
      BY <1>2, <1>7 DEF V1Kept, OneQuestion
    <3>5. \A i, j \in OnWire(fromBoard)' : i = j
      BY <2>1 DEF V1Kept, OneQuestion
    <3>6. QED BY <3>1, <3>2, <3>3, <3>4, <3>5 DEF OneQuestion
  <2>3. QED BY <1>2, <1>4, <1>5, <2>2 DEF V1Kept, AnswerIsOwn
<1>11. QED BY <1>9, <1>10

LEMMA DispatchFrameKept == ASSUME V1Kept, DispatchFrame PROVE V1Kept'
<1>1. PICK R : Typed(R)
  BY DEF V1Kept
<1> DEFINE f == Head(fromBoard)
<1>2. /\ UNCHANGED <<chan, timer, losing, toBoard>>
      /\ fromBoard # <<>> /\ fromBoard' = Tail(fromBoard)
  BY DEF DispatchFrame
<1>3. /\ fromBoard \in Seq(FrameType(R)) /\ f \in FrameType(R) /\ f = fromBoard[1]
      /\ fromBoard' \in Seq(FrameType(R)) /\ opening \in OpeningType
  BY <1>1, <1>2, HeadGone DEF Typed
<1>4. chan.connected /\ opening.at # "dial" /\ timer # "sleeping" /\ losing = "nobody"
  BY <1>2 DEF V1Kept, LinkKept, Down
<1>5. opening' \in OpeningType /\ opening'.at # "dial"
  BY <1>3, <1>4 DEF DispatchFrame, OpeningType
<1>6. LinkKept'
  BY <1>2, <1>4, <1>5 DEF LinkKept
<1>7. /\ \A i \in OnWire(fromBoard') :
           i + 1 \in OnWire(fromBoard) /\ i + 1 # 1 /\ fromBoard'[i] = fromBoard[i + 1]
      /\ \A i, j \in OnWire(fromBoard') : i + 1 = j + 1 => i = j
      /\ f.type = "parameters" => 1 \in OnWire(fromBoard)
  BY <1>2, <1>3, TailOnWire
<1>8. CASE f.type = "hello"
  <2>1. callers' = callers
    BY <1>8 DEF DispatchFrame
  <2>2. \A x : AskedFor(x)' <=> AskedFor(x)
    BY <2>1 DEF AskedFor
  <2>3. OneQuestion'
    <3>1. \A c, d \in V1Callers : Asking(c)' /\ Asking(d)' => c = d
      BY <2>1 DEF V1Kept, OneQuestion, Asking
    <3>2. \A i \in OnWire(toBoard)' : AskedFor(toBoard[i].req)' /\ OnWire(fromBoard)' = {}
      BY <1>2, <1>7, <2>2 DEF V1Kept, OneQuestion
    <3>3. \A i \in OnWire(fromBoard)' : AskedFor(fromBoard[i].req)'
      BY <1>7, <2>2 DEF V1Kept, OneQuestion
    <3>4. \A i, j \in OnWire(toBoard)' : i = j
      BY <1>2 DEF V1Kept, OneQuestion
    <3>5. \A i, j \in OnWire(fromBoard)' : i = j
      BY <1>7 DEF V1Kept, OneQuestion
    <3>6. QED BY <3>1, <3>2, <3>3, <3>4, <3>5 DEF OneQuestion
  <2>4. Typed(R)' /\ AnswerIsOwn'
    BY <1>1, <1>2, <1>3, <1>5, <2>1 DEF Typed, V1Kept, AnswerIsOwn
  <2>5. QED BY <1>6, <2>3, <2>4 DEF V1Kept
<1>9. CASE f.type # "hello"
  <2>1. callers' = [c \in V1Callers |->
                      IF Meant(c, f) THEN [callers[c] EXCEPT !.stage = "answered", !.got = f.req]
                      ELSE callers[c]]
    BY <1>9 DEF DispatchFrame
  <2>2. \A c \in V1Callers : callers[c] \in CallerType(R)
    BY <1>1 DEF Typed
  <2>3. ASSUME NEW c \in V1Callers
        PROVE  /\ callers'[c] \in CallerType(R)
               /\ Asking(c)' => Asking(c)
               /\ ~Meant(c, f) => callers'[c] = callers[c]
               /\ Meant(c, f) => callers'[c].got = f.req /\ callers'[c].req = callers[c].req
    BY <1>3, <2>1, <2>2 DEF CallerType, CallerStages, FrameType, Asking
  <2>4. Typed(R)'
    BY <1>1, <1>2, <1>3, <1>5, <2>1, <2>3 DEF Typed
  <2>5. ASSUME NEW c \in V1Callers, Meant(c, f) PROVE callers[c].req = f.req
    <3>1. CASE f.type = "command"
      BY <2>5, <3>1 DEF Meant
    <3>2. CASE f.type = "parameters"
      <4>1. AskedFor(f.req) /\ Asking(c)
        BY <1>3, <1>7, <2>5, <3>2 DEF V1Kept, OneQuestion, Meant, Asking
      <4>2. PICK d \in V1Callers :
              callers[d].kind = "parameters" /\ callers[d].stage = "waiting" /\ callers[d].req = f.req
        BY <4>1 DEF AskedFor
      <4>3. c = d
        BY <4>1, <4>2 DEF V1Kept, OneQuestion, Asking
      <4>4. QED BY <4>2, <4>3
    <3>3. QED BY <1>3, <1>9, <3>1, <3>2 DEF FrameType
  <2>6. AnswerIsOwn'
    BY <2>3, <2>5 DEF V1Kept, AnswerIsOwn
  <2>7. OneQuestion'
    <3>1. CASE f.type = "parameters"
      <4>1. OnWire(toBoard) = {} /\ OnWire(fromBoard') = {}
        BY <1>7, <3>1 DEF V1Kept, OneQuestion
      <4>2. QED BY <1>2, <2>3, <4>1 DEF V1Kept, OneQuestion
    <3>2. CASE f.type # "parameters"
      <4>1. ASSUME NEW x, AskedFor(x) PROVE AskedFor(x)'
        <5>1. PICK c \in V1Callers :
                callers[c].kind = "parameters" /\ callers[c].stage = "waiting" /\ callers[c].req = x
          BY <4>1 DEF AskedFor
        <5>2. callers'[c] = callers[c]
          BY <2>3, <3>2, <5>1 DEF Meant
        <5>3. QED BY <5>1, <5>2 DEF AskedFor
      <4>2. \A c, d \in V1Callers : Asking(c)' /\ Asking(d)' => c = d
        BY <2>3 DEF V1Kept, OneQuestion
      <4>3. \A i \in OnWire(toBoard)' : AskedFor(toBoard[i].req)' /\ OnWire(fromBoard)' = {}
        BY <1>2, <1>7, <4>1 DEF V1Kept, OneQuestion
      <4>4. \A i \in OnWire(fromBoard)' : AskedFor(fromBoard[i].req)'
        BY <1>7, <4>1 DEF V1Kept, OneQuestion
      <4>5. \A i, j \in OnWire(toBoard)' : i = j
        BY <1>2 DEF V1Kept, OneQuestion
      <4>6. \A i, j \in OnWire(fromBoard)' : i = j
        BY <1>7 DEF V1Kept, OneQuestion
      <4>7. QED BY <4>2, <4>3, <4>4, <4>5, <4>6 DEF OneQuestion
    <3>3. QED BY <3>1, <3>2
  <2>8. QED BY <1>6, <2>4, <2>6, <2>7 DEF V1Kept
<1>10. QED BY <1>8, <1>9

LEMMA V1NextKept == V1Kept /\ [V1Next]_v1Vars => V1Kept'
<1> SUFFICES ASSUME V1Kept, [V1Next]_v1Vars PROVE V1Kept'
  OBVIOUS
<1>1. CASE Dialled
  BY <1>1, DialledKept
<1>2. CASE Unreachable \/ HelloTimesOut \/ Negotiated \/ Refused \/ Reconnect \/ Beat \/ HeartbeatAcked
  BY <1>2, OpeningKept
<1>3. CASE RollBack \/ Close
  BY <1>3, RollBackKept
<1>4. CASE LinkLost
  BY <1>4, LinkLostKept
<1>5. CASE ReaderLost \/ HeartbeatLost
  BY <1>5, LostKept
<1>6. CASE Handle
  BY <1>6, HandleKept
<1>7. CASE Break
  BY <1>7, BreakKept
<1>8. CASE DispatchFrame
  BY <1>8, DispatchFrameKept
<1>9. ASSUME NEW c \in V1Callers, Ask(c) \/ Command(c) PROVE V1Kept'
  <2>1. CASE Ask(c)
    BY <2>1, WrittenKept DEF Ask
  <2>2. CASE Command(c)
    BY <2>2, WrittenKept DEF Command, Online
  <2>3. QED BY <1>9, <2>1, <2>2
<1>10. ASSUME NEW c \in V1Callers, AskTimesOut(c) PROVE V1Kept'
  BY <1>10, AskTimesOutKept
<1>11. ASSUME NEW c \in V1Callers, CommandTimesOut(c) \/ Return(c) PROVE V1Kept'
  BY <1>11, ReturnKept
<1>12. CASE UNCHANGED v1Vars
  <2>1. UNCHANGED <<callers, toBoard, fromBoard, chan, opening, timer, losing>>
    BY <1>12 DEF v1Vars, v1Conn, v1Wire
  <2>2. LinkKept' /\ opening' \in OpeningType /\ chan' \in ChanType
    BY <2>1 DEF V1Kept, LinkKept, Down, Typed
  <2>3. QED BY <2>1, <2>2, FramesStay
<1>13. QED
  BY <1>1, <1>2, <1>3, <1>4, <1>5, <1>6, <1>7, <1>8, <1>9, <1>10, <1>11, <1>12 DEF V1Next

(* Whatever is lost, late or given up, no caller is ever handed the answer   *)
(* to another request: get_parameters may take whatever parameters come      *)
(* next, because a request that is given up takes its connection with it     *)
(* (_await_type, _on_connection_lost).                                       *)
THEOREM AnswersAreOwn == V1Spec => []AnswerIsOwn
<1>1. V1Kept => AnswerIsOwn
  BY DEF V1Kept
<1>2. QED BY V1InitKept, V1NextKept, <1>1, PTL DEF V1Spec

-----------------------------------------------------------------------------
(* Somebody is always at work on the connection.                         *)

(* The reconnect task that opens is the opener; an opener that talks to  *)
(* the board has a reader, unless the loss of both is being seen to.     *)
Supervised ==
  /\ NeverAbandoned
  /\ timer \in {"none", "sleeping", "opening", "done"}
  /\ timer = "opening" => opening.by = "reconnect" /\ opening.at # "no"
  /\ opening.at \in {"hello", "heard"} /\ losing = "nobody" => chan.connected /\ tasks.reader = chan.n
  /\ opening = [by |-> opening.by, at |-> opening.at]
  /\ chan = [n |-> chan.n, sessions |-> chan.sessions, connected |-> chan.connected,
             shaken |-> chan.shaken, quality |-> chan.quality]
  /\ tasks = [reader |-> tasks.reader, beat |-> tasks.beat, missed |-> tasks.missed]

LEMMA V1InitSupervised == V1Init => Supervised
BY DEF V1Init, Supervised, NeverAbandoned, NotOpening

(* Steps of the opener.                                                  *)
LEMMA OpenerSupervised ==
  ASSUME Supervised, Dialled \/ Unreachable \/ HelloTimesOut \/ Negotiated \/ Refused \/ RollBack \/ Reconnect
  PROVE  Supervised'
<1>1. CASE Dialled
  BY <1>1 DEF Dialled, Supervised, NeverAbandoned, NotOpening
<1>2. CASE Unreachable \/ HelloTimesOut \/ Refused
  BY <1>2 DEF Unreachable, HelloTimesOut, Refused, Supervised, NeverAbandoned, NotOpening
<1>3. CASE Negotiated
  BY <1>3 DEF Negotiated, Supervised, NeverAbandoned, NotOpening
<1>4. CASE RollBack
  BY <1>4 DEF RollBack, Torn, Supervised, NeverAbandoned, NotOpening
<1>5. CASE Reconnect
  BY <1>5 DEF Reconnect, Supervised, NeverAbandoned, NotOpening
<1>6. QED BY <1>1, <1>2, <1>3, <1>4, <1>5

(* Whoever notices a loss says so until the rest is done.                *)
LEMMA LosingSupervised ==
  ASSUME Supervised, \/ \E c \in V1Callers : AskTimesOut(c)
                     \/ ReaderLost \/ HeartbeatLost \/ LinkLost \/ Close
  PROVE  Supervised'
<1>1. ASSUME NEW by \in {"reader", "heartbeat", "caller"}, LosingBegins(by), UNCHANGED <<opening, timer>>
      PROVE  Supervised'
  BY <1>1 DEF LosingBegins, Torn, Supervised, NeverAbandoned
<1>2. CASE ReaderLost \/ HeartbeatLost
  BY <1>1, <1>2 DEF ReaderLost, HeartbeatLost
<1>3. ASSUME NEW c \in V1Callers, AskTimesOut(c)
      PROVE  Supervised'
  <2>1. UNCHANGED <<opening, timer, stopping>>
    BY <1>3 DEF AskTimesOut
  <2>2. CASE LosingBegins("caller")
    BY <1>1, <2>1, <2>2
  <2>3. CASE UNCHANGED <<chan, tasks, losing>>
    BY <2>1, <2>3 DEF Supervised, NeverAbandoned
  <2>4. QED BY <1>3, <2>2, <2>3 DEF AskTimesOut, ChangeSession
<1>4. CASE LinkLost
  BY <1>4 DEF LinkLost, HelloFails, Rearmed, Supervised, NeverAbandoned, NotOpening
<1>5. CASE Close
  BY <1>5 DEF Close, Torn, Supervised, NeverAbandoned, NotOpening
<1>6. QED BY <1>2, <1>3, <1>4, <1>5

LEMMA QuietSupervised ==
  ASSUME Supervised, UNCHANGED <<timer, losing, stopping>>,
         \/ UNCHANGED <<chan, tasks>> /\ (DispatchFrame \/ opening' = opening)
         \/ Beat \/ HeartbeatAcked
  PROVE  Supervised'
<1>1. CASE UNCHANGED <<chan, tasks>> /\ (DispatchFrame \/ opening' = opening)
  <2>1. opening' = opening \/ (opening.at = "hello" /\ opening' = [opening EXCEPT !.at = "heard"])
    BY <1>1 DEF DispatchFrame
  <2>2. QED BY <1>1, <2>1 DEF Supervised, NeverAbandoned, NotOpening
<1>2. CASE Beat \/ HeartbeatAcked
  BY <1>2 DEF Beat, HeartbeatAcked, Supervised, NeverAbandoned
<1>3. QED BY <1>1, <1>2

(* However often the link breaks, whoever notices it first, at whatever      *)
(* point of the handshake: until close() the client is connected, read and   *)
(* supervised, or a task of its own is at work to get there                  *)
(* (_on_connection_lost, _reconnect_loop, start).                            *)
THEOREM AlwaysAttended == V1Spec => []NeverAbandoned
<1>1. Supervised /\ [V1Next]_v1Vars => Supervised'
  <2> SUFFICES ASSUME Supervised, [V1Next]_v1Vars PROVE Supervised'
    OBVIOUS
  <2>1. CASE Dialled \/ Unreachable \/ HelloTimesOut \/ Negotiated \/ Refused \/ RollBack \/ Reconnect
    BY <2>1, OpenerSupervised
  <2>2. CASE ReaderLost \/ HeartbeatLost \/ LinkLost \/ Close
    BY <2>2, LosingSupervised
  <2>3. CASE Beat \/ HeartbeatAcked
    BY <2>3, QuietSupervised DEF Beat, HeartbeatAcked
  <2>4. CASE Handle \/ Break
    BY <2>4, QuietSupervised DEF Handle, Break, v1Conn
  <2>5. CASE DispatchFrame
    <3>1. UNCHANGED <<timer, losing, stopping, chan, tasks>>
      BY <2>5 DEF DispatchFrame
    <3>2. QED BY <2>5, <3>1, QuietSupervised
  <2>6. ASSUME NEW c \in V1Callers, AskTimesOut(c) PROVE Supervised'
    BY <2>6, LosingSupervised
  <2>7. ASSUME NEW c \in V1Callers, Ask(c) \/ Command(c) \/ CommandTimesOut(c) \/ Return(c)
        PROVE  Supervised'
    BY <2>7, QuietSupervised DEF Ask, Command, Written, CommandTimesOut, Return, v1Conn
  <2>8. CASE UNCHANGED v1Vars
    BY <2>8, QuietSupervised DEF v1Vars, v1Conn
  <2>9. QED BY <2>1, <2>2, <2>3, <2>4, <2>5, <2>6, <2>7, <2>8 DEF V1Next
<1>2. Supervised => NeverAbandoned
  BY DEF Supervised
<1>3. QED BY V1InitSupervised, <1>1, <1>2, PTL DEF V1Spec

-----------------------------------------------------------------------------
(* The recording of a run: what its state is made of.                    *)

RunPhases == {"idle", "low", "high", "cooling", "safe"}
RowPhases == {"none", "awaiting_device", "measuring", "stopping", "safe_disposal",
              "needs_review", "completed", "start_rejected", "archived_incomplete"}
MayTest   == TestIds \cup {NoTest}
Snapshots == [boot : Nat, test : MayTest, phase : RunPhases, over : BOOLEAN]
RunFrame  == [n : Nat, drops : Nat, old : BOOLEAN]
Carried   == [kind : {"sample", "accepted", "refused"}, n : Nat]
Memories  == [active : MayTest, needs : BOOLEAN, seen : MayTest, fresh : BOOLEAN, last : Nat,
              failing : BOOLEAN, dropped : Nat]
Commands  == [kind : {"none", "start", "stop"},
              at : {"none", "archived", "sent", "accepted", "refused"}]
Cursors   == [n : Nat, gap : BOOLEAN, low : BOOLEAN, count : 0..2, drops : Nat \cup {-1}]
TestRows  == [open : BOOLEAN, phase : RowPhases, integrity : {"unknown", "incomplete", "complete"},
              measured : BOOLEAN, stop : BOOLEAN, cursor : Cursors]

(* A sample is spoken of only once it was taken.                         *)
Spoken ==
  /\ \A i \in 1..Len(frames) : frames[i].n \in 1..Len(taken)
  /\ \A i \in 1..Len(stream) : stream[i].kind = "sample" => stream[i].n \in 1..Len(taken)
  /\ \A k \in stored : k[2] \in 1..Len(taken)
  /\ memory.last <= Len(taken)

RunTyped ==
  /\ board \in Snapshots /\ taken \in Seq(Snapshots)
  /\ conn \in [up : BOOLEAN, notice : BOOLEAN]
  /\ stream \in Seq(Carried) /\ flying \in {"none", "start", "stop"}
  /\ frames \in Seq(RunFrame) /\ Len(frames) <= QueueSize
  /\ atWork # NoWork => Len(frames) > 0
  /\ memory \in Memories /\ command \in Commands
  /\ tests \in [TestIds -> TestRows]
  /\ stored \subseteq TestIds \X Nat
  /\ trouble \in Nat

(* A board runs a test or is idle, and its samples show each phase of a run  *)
(* before the next: behind one that is over and safe is one that is over.    *)
Run(s) == /\ s.phase = "idle" <=> s.test = NoTest
          /\ s.over => s.phase \in {"cooling", "safe"}
BoardTrue ==
  /\ Run(board)
  /\ board.phase = "safe" /\ board.over => Len(taken) > 0 /\ taken[Len(taken)].over
SamplesTrue ==
  \A n \in 1..Len(taken) :
    /\ Run(taken[n])
    /\ taken[n].phase = "safe" /\ taken[n].over => n > 1 /\ taken[n-1].over

(* A test runs once.                                                     *)
Running(t) == board.test = t /\ board.phase \in {"low", "high", "cooling"}
RunsOnce ==
  \A n \in 1..Len(taken) : taken[n].phase = "safe" => ~Running(taken[n].test)

(* A start is sent once: as long as it may still reach the board there is no *)
(* sign of its run and no refusal.                                           *)
Unsent == \/ ~HasRow("t1")
          \/ command = [kind |-> "start", at |-> "archived"]
          \/ flying = "start"
Refusal == \/ \E i \in 1..Len(stream) : stream[i].kind = "refused"
           \/ command = [kind |-> "start", at |-> "refused"]
StartOnce ==
  /\ Unsent => /\ board.test # "t1" /\ \A n \in 1..Len(taken) : taken[n].test # "t1"
               /\ ~Refusal
               /\ tests["t1"].phase \notin {"completed", "start_rejected"}
  /\ flying = "start" => HasRow("t1") /\ command # [kind |-> "start", at |-> "archived"]
  /\ command = [kind |-> "start", at |-> "archived"] => HasRow("t1")
  /\ Refusal \/ tests["t1"].phase = "start_rejected" => board.test # "t1"

(* Why a session was closed.                                             *)
ClosedFor ==
  \A t \in TestIds :
    /\ tests[t].phase = "completed" =>
         \E n \in 1..Len(taken) : taken[n].test = t /\ taken[n].phase = "safe"
    /\ tests[t].phase = "start_rejected" => t = "t1"

(* Samples are stored under sessions there are.                          *)
RowsThere ==
  /\ \A t \in TestIds : tests[t].open => HasRow(t)
  /\ \A k \in stored : HasRow(k[1])

(* A cursor without a gap: what is stored of the test is one piece of one    *)
(* boot that ends with the cursor.  Before the end of the measurement none   *)
(* of it is over, and a temperature below 600 degrees was the run's.         *)
Kept(t) == {n \in 1..Len(taken) : <<t, n>> \in stored}
OnePiece(t) ==
  LET c == tests[t].cursor
  IN /\ c.n # 0 => c.n \in Kept(t)
     /\ c.n = 0 => Kept(t) = {} /\ c.count = 0 /\ ~c.low
     /\ \A n \in Kept(t) : /\ n <= c.n /\ n..c.n \subseteq Kept(t)
                           /\ taken[n].test = t /\ taken[n].boot = taken[c.n].boot
ToMeasure(t) ==
  /\ \A n \in Kept(t) : ~taken[n].over
  /\ tests[t].cursor.low => \E k \in Kept(t) : taken[k].phase = "low"
FromLowToEnd(t) ==
  \E k, l \in Kept(t) : k <= l /\ taken[k].phase = "low" /\ taken[l].over
WholeSoFar(t) ==
  /\ ~tests[t].cursor.gap => OnePiece(t)
  /\ ~tests[t].cursor.gap /\ tests[t].open /\ ~tests[t].measured => ToMeasure(t)
  /\ tests[t].integrity = "complete" => ~tests[t].cursor.gap /\ FromLowToEnd(t)

RecordingInv ==
  /\ RunTyped /\ Spoken
  /\ BoardTrue /\ SamplesTrue /\ RunsOnce /\ StartOnce /\ ClosedFor
  /\ RowsThere /\ \A t \in TestIds : WholeSoFar(t)

-----------------------------------------------------------------------------
(* What every step of the recording keeps: what the board and the        *)
(* connection are made of.                                               *)

BoardTyped == /\ board \in Snapshots /\ taken \in Seq(Snapshots)
              /\ conn \in [up : BOOLEAN, notice : BOOLEAN]
              /\ stream \in Seq(Carried) /\ flying \in {"none", "start", "stop"}

LEMMA HeadOff ==
  ASSUME NEW S, NEW s \in Seq(S), s # <<>>
  PROVE  /\ Head(s) \in S /\ Head(s) = s[1] /\ Len(s) \in Nat \ {0}
         /\ Tail(s) \in Seq(S) /\ Len(Tail(s)) = Len(s) - 1
         /\ \A i \in 1..Len(Tail(s)) : i+1 \in 1..Len(s) /\ Tail(s)[i] = s[i+1]
OBVIOUS

LEMMA Appended ==
  ASSUME NEW S, NEW s \in Seq(S), NEW x \in S
  PROVE  /\ Append(s, x) \in Seq(S) /\ Len(Append(s, x)) = Len(s) + 1
         /\ \A i \in 1..Len(s) : Append(s, x)[i] = s[i]
         /\ Append(s, x)[Len(s) + 1] = x
OBVIOUS

LEMMA BoardTypedStep ==
  ASSUME RunTyped, [MeasurementNext]_mRunVars
  PROVE  BoardTyped'
<1>1. BoardTyped /\ Len(taken) \in Nat
  BY DEF RunTyped, BoardTyped
<1>2. CASE Sample
  <2>1. board \in Snapshots /\ StatusSnapshot \in Snapshots
    BY <1>1 DEF BoardTyped, StatusSnapshot, Snapshots
  <2>2. taken' \in Seq(Snapshots) /\ Len(taken') = Len(taken) + 1
    BY <1>1, <1>2, <2>1, Appended DEF Sample, BoardTyped
  <2>3. [kind |-> "sample", n |-> Len(taken')] \in Carried
    BY <1>1, <2>2 DEF Carried
  <2>4. stream' \in Seq(Carried)
    BY <1>1, <1>2, <2>3, Appended DEF Sample, BoardTyped
  <2>5. QED BY <1>1, <1>2, <2>2, <2>4 DEF Sample, boardRest, BoardTyped
<1>3. CASE Proceed \/ Reboots \/ RunsByItself
  <2>1. board \in Snapshots BY <1>1 DEF BoardTyped
  <2>2. board' \in Snapshots
    <3>1. CASE Proceed
      BY <2>1, <3>1 DEF Proceed, Snapshots, RunPhases
    <3>2. CASE Reboots
      BY <2>1, <3>2 DEF Reboots, Snapshots, RunPhases, MayTest
    <3>3. CASE RunsByItself
      BY <2>1, <3>3 DEF RunsByItself, Snapshots, RunPhases, MayTest, TestIds
    <3>4. QED BY <1>3, <3>1, <3>2, <3>3
  <2>3. UNCHANGED <<taken, stream, boardRest>>
    BY <1>3 DEF Proceed, Reboots, RunsByItself
  <2>4. QED BY <1>1, <2>2, <2>3 DEF boardRest, BoardTyped
<1>4. CASE BoardAnswers
  <2>1. board \in Snapshots BY <1>1 DEF BoardTyped
  <2>2. board' \in Snapshots
    BY <1>4, <2>1 DEF BoardAnswers, Snapshots, RunPhases, MayTest, TestIds
  <2>3. stream' = stream \/ \E x \in Carried : stream' = Append(stream, x)
    BY <1>4 DEF BoardAnswers, Carried
  <2>4. stream' \in Seq(Carried)
    BY <1>1, <2>3, Appended DEF BoardTyped
  <2>5. QED BY <1>1, <1>4, <2>2, <2>4 DEF BoardAnswers, BoardTyped
<1>5. CASE ReadSample \/ ReadAnswer
  <2>1. stream # <<>> /\ stream' = Tail(stream) /\ UNCHANGED <<board, taken, flying>>
    BY <1>5 DEF ReadSample, ReadAnswer
  <2>2. conn' \in [up : BOOLEAN, notice : BOOLEAN]
    BY <1>1, <1>5 DEF ReadSample, ReadAnswer, BoardTyped
  <2>3. QED BY <1>1, <2>1, <2>2, HeadOff DEF BoardTyped
<1>6. CASE CommandLost \/ ConnectionLost \/ Reconnected \/ OnCommStatus \/ Restarts
  <2>1. UNCHANGED <<board, taken>> /\ (flying' = flying \/ flying' = "none")
    BY <1>6 DEF CommandLost, ConnectionLost, Reconnected, OnCommStatus, Restarts
  <2>2. stream' = stream \/ stream' = <<>>
    BY <1>6 DEF CommandLost, ConnectionLost, Reconnected, OnCommStatus, Restarts
  <2>3. conn \in [up : BOOLEAN, notice : BOOLEAN]
    BY <1>1 DEF BoardTyped
  <2>4. conn' \in [up : BOOLEAN, notice : BOOLEAN]
    <3>1. CASE Reconnected
      BY <2>3, <3>1 DEF Reconnected
    <3>2. CASE OnCommStatus
      BY <2>3, <3>2 DEF OnCommStatus
    <3>3. CASE CommandLost \/ ConnectionLost \/ Restarts
      <4>1. conn' = conn \/ conn' = [up |-> FALSE, notice |-> TRUE] \/ conn' = [up |-> FALSE, notice |-> FALSE]
        BY <3>3 DEF CommandLost, ConnectionLost, Restarts
      <4>2. [up |-> FALSE, notice |-> TRUE] \in [up : BOOLEAN, notice : BOOLEAN]
        OBVIOUS
      <4>3. [up |-> FALSE, notice |-> FALSE] \in [up : BOOLEAN, notice : BOOLEAN]
        OBVIOUS
      <4>4. QED BY <2>3, <4>1, <4>2, <4>3
    <3>4. QED BY <1>6, <3>1, <3>2, <3>3
  <2>5. stream' \in Seq(Carried)
    <3>1. <<>> \in Seq(Carried)
      OBVIOUS
    <3>2. stream \in Seq(Carried)
      BY <1>1 DEF BoardTyped
    <3>3. QED BY <2>2, <3>1, <3>2
  <2>6. QED BY <1>1, <2>1, <2>4, <2>5 DEF BoardTyped
<1>7. CASE Send
  <2>1. command.kind \in {"none", "start", "stop"}
    BY DEF RunTyped, Commands
  <2>2. QED BY <1>1, <1>7, <2>1 DEF Send, BoardTyped
<1>8. CASE \/ OnStatus \/ Persist \/ PersistFails \/ StartRun \/ StopRun \/ Accepted \/ Rejected
           \/ NoAnswer \/ \E t \in TestIds : ReviewClose(t)
  <2>1. UNCHANGED <<board, taken, conn, stream, flying>>
    BY <1>8 DEF OnStatus, Persist, PersistFails, StartRun, StopRun, Accepted, Rejected, NoAnswer, ReviewClose
  <2>2. QED BY <1>1, <2>1 DEF BoardTyped
<1>9. CASE UNCHANGED mRunVars
  BY <1>1, <1>9 DEF mRunVars, BoardTyped
<1>10. QED
  BY <1>2, <1>3, <1>4, <1>5, <1>6, <1>7, <1>8, <1>9 DEF MeasurementNext

-----------------------------------------------------------------------------
(* What a persisted sample makes of its session.                         *)

LEMMA CursorMoves ==
  ASSUME NEW t \in TestIds, tests[t] \in TestRows, NEW f \in RunFrame
  PROVE  /\ Moved(t, f) \in Cursors /\ Moved(t, f).n = f.n
         /\ Moved(t, f).gap <=> tests[t].cursor.gap \/ Issues(t, f)
         /\ Moved(t, f).low <=> tests[t].cursor.low \/ taken[f.n].phase \in {"idle", "low", "safe"}
         /\ Moved(t, f).count >= 2 => tests[t].cursor.count >= 1
<1>1. tests[t].cursor \in Cursors
  BY DEF TestRows
<1>2. Issues(t, f) \in BOOLEAN
  BY DEF Issues
<1>3. f.n \in Nat /\ f.drops \in Nat
  BY DEF RunFrame
<1>4. (tests[t].cursor.gap \/ Issues(t, f)) \in BOOLEAN
  BY <1>1, <1>2 DEF Cursors
<1>5. (tests[t].cursor.low \/ taken[f.n].phase \in {"idle", "low", "safe"}) \in BOOLEAN
  BY <1>1 DEF Cursors
<1>6. (IF tests[t].cursor.count < 2 THEN tests[t].cursor.count + 1 ELSE 2) \in 0..2
  BY <1>1 DEF Cursors
<1>7. Moved(t, f) \in Cursors
  BY <1>3, <1>4, <1>5, <1>6 DEF Moved, Cursors
<1>8. Moved(t, f).count >= 2 => tests[t].cursor.count >= 1
  BY <1>1 DEF Moved, Cursors
<1>9. QED BY <1>7, <1>8, <1>4, <1>5 DEF Moved

(* The session behind a sample, as advance_test_session() finds it.      *)
LEMMA RowTracked ==
  ASSUME NEW t \in TestIds, tests[t] \in TestRows, NEW f \in RunFrame
  PROVE  /\ Tracked(t, f) \in TestRows
         /\ Tracked(t, f).cursor = Moved(t, f)
         /\ Tracked(t, f).integrity = IF Issues(t, f) THEN "incomplete" ELSE tests[t].integrity
         /\ Tracked(t, f).open = tests[t].open /\ Tracked(t, f).phase = tests[t].phase
         /\ Tracked(t, f).measured = tests[t].measured
<1>1. Moved(t, f) \in Cursors
  BY CursorMoves
<1>2. QED BY <1>1 DEF Tracked, TestRows

LEMMA RowReviewed ==
  ASSUME NEW row \in TestRows
  PROVE  /\ ForReview(row) \in TestRows
         /\ ForReview(row) = [row EXCEPT !.phase = "needs_review", !.integrity = "incomplete"]
BY DEF ForReview, TestRows, RowPhases

LEMMA RowMeasured ==
  ASSUME NEW row \in TestRows, NEW s \in Snapshots
  PROVE  /\ Measured(row, s) \in TestRows
         /\ Measured(row, s).cursor = row.cursor /\ Measured(row, s).open = row.open
         /\ Measured(row, s).phase = row.phase
         /\ Measured(row, s).measured <=> row.measured \/ s.over
         /\ Measured(row, s).integrity = "complete" =>
              row.integrity = "complete" \/ (~row.measured /\ s.over /\ Proven(row.cursor))
BY DEF Measured, TestRows, Snapshots

LEMMA RowAdvanced ==
  ASSUME NEW t \in TestIds, tests[t] \in TestRows, NEW f \in RunFrame, taken[f.n] \in Snapshots,
         tests[t].phase # "none"
  PROVE  LET s == taken[f.n]  row == AdvancedTo(t, f)
         IN /\ row \in TestRows /\ row.cursor = Moved(t, f)
            /\ row.phase # "none" /\ (row.open => tests[t].open)
            /\ s.test = t /\ s.phase = "safe" => ~row.open
            /\ row.phase = "start_rejected" => tests[t].phase = "start_rejected"
            /\ row.phase = "completed" => tests[t].phase = "completed" \/ (s.test = t /\ s.phase = "safe")
            /\ row.measured => tests[t].measured \/ s.over
            /\ tests[t].measured \/ (s.test = t /\ s.over) => row.measured
            /\ row.integrity = "complete" =>
                 ~Issues(t, f) /\ (\/ tests[t].integrity = "complete"
                                   \/ ~tests[t].measured /\ s.over /\ Proven(Moved(t, f)))
<1> DEFINE s == taken[f.n]
           q == Tracked(t, f)
           r == IF q.phase = "needs_review" THEN ForReview(q) ELSE q
           m == Measured(r, s)
<1>1. /\ q \in TestRows /\ q.cursor = Moved(t, f)
      /\ q.integrity = IF Issues(t, f) THEN "incomplete" ELSE tests[t].integrity
      /\ q.open = tests[t].open /\ q.phase = tests[t].phase /\ q.measured = tests[t].measured
  BY RowTracked
<1>2. /\ r \in TestRows /\ r.cursor = q.cursor /\ r.open = q.open /\ r.phase = q.phase
      /\ r.measured = q.measured /\ (r.integrity = "complete" => r.integrity = q.integrity)
  <2>1. CASE q.phase = "needs_review"
    <3>1. r \in TestRows /\ r = [q EXCEPT !.phase = "needs_review", !.integrity = "incomplete"]
      BY <1>1, <2>1, RowReviewed
    <3>2. QED BY <1>1, <2>1, <3>1 DEF TestRows
  <2>2. CASE q.phase # "needs_review"
    BY <1>1, <2>2
  <2>3. QED BY <2>1, <2>2
<1>3. /\ m \in TestRows /\ m.cursor = r.cursor /\ m.open = r.open /\ m.phase = r.phase
      /\ m.measured <=> r.measured \/ s.over
      /\ m.integrity = "complete" =>
           r.integrity = "complete" \/ (~r.measured /\ s.over /\ Proven(r.cursor))
  BY <1>2, RowMeasured
<1>4. Issues(t, f) => m.integrity # "complete" 
  <2>1. ASSUME Issues(t, f) PROVE Moved(t, f).gap
    BY <2>1, CursorMoves
  <2>2. QED BY <1>1, <1>2, <1>3, <2>1 DEF Proven
<1> HIDE DEF q, r, m
<1>5. CASE s.test # t
  <2>1. AdvancedTo(t, f) = q
    BY <1>5 DEF AdvancedTo, q
  <2>2. QED BY <1>1, <1>5, <2>1
<1>6. CASE s.test = t /\ s.phase = "safe"
  <2>1. AdvancedTo(t, f) = [m EXCEPT !.open = FALSE, !.phase = "completed",
                                     !.integrity = IF m.measured THEN @ ELSE "incomplete"]
    BY <1>6 DEF AdvancedTo, q, r, m
  <2>2. AdvancedTo(t, f) \in TestRows
    BY <1>3, <2>1 DEF TestRows, RowPhases
  <2>3. /\ AdvancedTo(t, f).cursor = m.cursor /\ AdvancedTo(t, f).measured = m.measured
        /\ AdvancedTo(t, f).phase = "completed" /\ AdvancedTo(t, f).open = FALSE
        /\ AdvancedTo(t, f).integrity = "complete" => m.integrity = "complete"
    BY <1>3, <2>1 DEF TestRows
  <2>4. QED BY <1>1, <1>2, <1>3, <1>4, <1>6, <2>2, <2>3
<1>7. CASE s.test = t /\ s.phase # "safe"
  <2>1. AdvancedTo(t, f) = [m EXCEPT !.phase = Phase(m)]
    BY <1>7 DEF AdvancedTo, q, r, m
  <2>2. Phase(m) \in {"needs_review", "safe_disposal", "stopping", "measuring"}
    BY DEF Phase
  <2>3. QED BY <1>1, <1>2, <1>3, <1>4, <1>7, <2>1, <2>2 DEF TestRows, RowPhases
<1>8. QED BY <1>5, <1>6, <1>7

-----------------------------------------------------------------------------
(* What a step makes of a session: it goes on, begins, or has a sample   *)
(* persisted under it.                                                   *)
GoesOn(t) ==
  /\ tests'[t].cursor = tests[t].cursor /\ tests'[t].measured = tests[t].measured
  /\ tests'[t].open => tests[t].open
  /\ tests'[t].integrity \in {tests[t].integrity, "incomplete"}
  /\ HasRow(t) => HasRow(t)'
  /\ tests'[t].phase = "completed" => tests[t].phase = "completed"
  /\ tests'[t].phase = "start_rejected" =>
       tests[t].phase = "start_rejected" \/ (t = "t1" /\ Rejected)
Begins(t) ==
  /\ ~HasRow(t) /\ HasRow(t)' /\ tests'[t].cursor = NoCursor /\ tests'[t].integrity # "complete"
  /\ tests'[t].phase \notin {"completed", "start_rejected"}
Sampled(t) ==
  /\ Persist /\ t = memory.active /\ tests[t].open
  /\ tests' = [tests EXCEPT ![t] = AdvancedTo(t, Head(frames))]
  /\ stored' = stored \cup {SamplePoint(t, Head(frames))}
RowsMove == /\ tests' \in [TestIds -> TestRows]
            /\ \A t \in TestIds : GoesOn(t) \/ Begins(t) \/ Sampled(t)

LEMMA SameRows == ASSUME RunTyped, tests' = tests PROVE RowsMove
BY DEF RunTyped, RowsMove, GoesOn, HasRow, TestRows

LEMMA OneRow ==
  ASSUME RunTyped, NEW t \in TestIds, NEW row \in TestRows, tests' = [tests EXCEPT ![t] = row],
         GoesOn(t) \/ Begins(t) \/ Sampled(t)
  PROVE  RowsMove
<1>1. tests' \in [TestIds -> TestRows] /\ \A u \in TestIds : u # t => tests'[u] = tests[u]
  BY DEF RunTyped
<1>2. ASSUME NEW u \in TestIds, u # t PROVE GoesOn(u)
  BY <1>1, <1>2 DEF GoesOn, HasRow, RunTyped, TestRows
<1>3. QED BY <1>1, <1>2 DEF RowsMove

LEMMA NoRowYet == NoTestRow \in TestRows /\ NoTestRow.cursor = NoCursor /\ NoTestRow.integrity = "unknown"
<1>1. NoCursor \in Cursors
  BY DEF NoCursor, Cursors
<1>2. QED BY <1>1 DEF NoTestRow, TestRows, RowPhases

LEMMA ReconciledRows ==
  ASSUME RunTyped, RowsThere, NEW s \in Snapshots, tests' = Reconciled(s)
  PROVE  RowsMove
<1>1. ASSUME NEW t \in TestIds
      PROVE  tests'[t] \in TestRows /\ (GoesOn(t) \/ Begins(t))
  <2>1. tests[t] \in TestRows
    BY DEF RunTyped
  <2>2. CASE t = s.test /\ Unarchived(s)
    <3>1. tests'[t] = [ForReview(NoTestRow) EXCEPT !.open = TRUE]
      BY <2>2 DEF Reconciled
    <3>2. /\ ForReview(NoTestRow) \in TestRows
          /\ ForReview(NoTestRow) = [NoTestRow EXCEPT !.phase = "needs_review", !.integrity = "incomplete"]
      BY NoRowYet, RowReviewed
    <3>3. tests'[t] \in TestRows /\ tests'[t].cursor = NoCursor /\ tests'[t].phase = "needs_review"
          /\ tests'[t].integrity = "incomplete"
      BY NoRowYet, <3>1, <3>2 DEF TestRows
    <3>4. QED BY <2>2, <3>3 DEF Begins, HasRow, Unarchived
  <2>3. CASE ~(t = s.test /\ Unarchived(s)) /\ tests[t].open /\ t # s.test
    <3>1. tests'[t] = ForReview(tests[t])
      BY <2>3 DEF Reconciled
    <3>2. tests'[t] \in TestRows /\ tests'[t] = [tests[t] EXCEPT !.phase = "needs_review", !.integrity = "incomplete"]
      BY <2>1, <3>1, RowReviewed
    <3>3. QED BY <2>1, <3>2 DEF GoesOn, HasRow, TestRows
  <2>4. CASE ~(t = s.test /\ Unarchived(s)) /\ ~(tests[t].open /\ t # s.test)
    <3>1. tests'[t] = tests[t]
      BY <2>4 DEF Reconciled
    <3>2. QED BY <2>1, <3>1 DEF GoesOn, HasRow, TestRows
  <2>5. QED BY <2>2, <2>3, <2>4
<1>2. tests' \in [TestIds -> TestRows]
  <2>1. tests' = [t \in TestIds |-> tests'[t]]
    BY DEF Reconciled
  <2>2. QED BY <1>1, <2>1
<1>3. QED BY <1>1, <1>2 DEF RowsMove

LEMMA OpenedStopTarget == ASSUME Opened # {} PROVE StopTarget \in Opened
BY DEF StopTarget

LEMMA RowsStep ==
  ASSUME RunTyped, Spoken, RowsThere, [MeasurementNext]_mRunVars
  PROVE  RowsMove
<1>0. tests \in [TestIds -> TestRows] /\ Opened \subseteq TestIds
      /\ \A t \in TestIds : tests[t] \in TestRows
  BY DEF RunTyped, Opened
<1>1. CASE OnStatus
  <2>1. CASE tests' = tests BY <2>1, SameRows
  <2>2. CASE tests' = Reconciled(taken[Head(frames).n])
    <3>1. frames # <<>> /\ Head(frames) = frames[1] /\ Len(frames) >= 1
      BY <1>1, HeadOff DEF OnStatus, RunTyped
    <3>2. taken[Head(frames).n] \in Snapshots
      BY <3>1 DEF Spoken, RunTyped
    <3>3. QED BY <2>2, <3>2, ReconciledRows
  <2>3. QED BY <1>1, <2>1, <2>2 DEF OnStatus
<1>2. CASE Persist
  <2>1. CASE memory.active \notin Opened
    BY <1>2, <2>1, SameRows DEF Persist
  <2>2. CASE memory.active \in Opened
    <3> DEFINE t == memory.active
               f == Head(frames)
    <3>1. t \in TestIds /\ tests[t].open /\ tests[t].phase # "none"
      BY <2>2 DEF Opened, RowsThere, HasRow
    <3>2. frames # <<>> /\ f \in RunFrame /\ f.n \in 1..Len(taken)
      <4>1. frames # <<>> /\ frames \in Seq(RunFrame)
        BY <1>2 DEF Persist, RunTyped
      <4>2. f \in RunFrame /\ f = frames[1] /\ Len(frames) \in Nat \ {0}
        BY <4>1, HeadOff
      <4>3. QED BY <4>1, <4>2 DEF Spoken
    <3>3. taken[f.n] \in Snapshots
      BY <3>2 DEF RunTyped
    <3>4. AdvancedTo(t, f) \in TestRows
      BY <1>0, <3>1, <3>2, <3>3, RowAdvanced
    <3>5. tests' = [tests EXCEPT ![t] = AdvancedTo(t, f)] /\ stored' = stored \cup {SamplePoint(t, f)}
      BY <1>2, <2>2 DEF Persist
    <3>6. Sampled(t)
      BY <1>2, <3>1, <3>5 DEF Sampled
    <3>7. QED BY <3>1, <3>4, <3>5, <3>6, OneRow
  <2>3. QED BY <2>1, <2>2
<1>3. CASE StartRun
  <2> DEFINE row == [NoTestRow EXCEPT !.open = TRUE, !.phase = "awaiting_device"]
  <2>1. row \in TestRows /\ row.cursor = NoCursor /\ row.integrity = "unknown" /\ row.phase = "awaiting_device"
    BY NoRowYet DEF TestRows, RowPhases
  <2>2. tests' = [tests EXCEPT !["t1"] = row] /\ ~HasRow("t1")
    BY <1>3 DEF StartRun
  <2>3. tests'["t1"] = row
    BY <1>0, <2>2 DEF TestIds
  <2>4. Begins("t1")
    BY <2>1, <2>2, <2>3 DEF Begins, HasRow
  <2>5. QED BY <2>1, <2>2, <2>4, OneRow DEF TestIds
<1>4. CASE Accepted
  <2>1. CASE tests' = tests BY <2>1, SameRows
  <2>2. CASE Opened # {} /\ tests' = [tests EXCEPT ![StopTarget].stop = TRUE, ![StopTarget].phase = "stopping"]
    <3>1. StopTarget \in Opened
      BY <2>2, OpenedStopTarget
    <3>2. PICK t \in Opened : t = StopTarget
      BY <3>1
    <3>3. t \in TestIds /\ tests[t] \in TestRows
      BY <1>0
    <3> DEFINE row == [tests[t] EXCEPT !.stop = TRUE, !.phase = "stopping"]
    <3>4. tests' = [tests EXCEPT ![t] = row]
      BY <1>0, <2>2, <3>2, <3>3
    <3>5. row \in TestRows /\ GoesOn(t)
      BY <1>0, <3>3, <3>4 DEF GoesOn, HasRow, TestRows, RowPhases
    <3>6. QED BY <3>3, <3>4, <3>5, OneRow
  <2>3. QED BY <1>4, <2>1, <2>2 DEF Accepted
<1>5. CASE Rejected
  <2> DEFINE row == [tests["t1"] EXCEPT !.open = FALSE, !.phase = "start_rejected"]
  <2>1. tests' = tests \/ tests' = [tests EXCEPT !["t1"] = row]
    BY <1>5 DEF Rejected, StartEnds
  <2>2. tests["t1"] \in TestRows /\ "t1" \in TestIds
    BY <1>0 DEF TestIds
  <2>3. CASE tests' = [tests EXCEPT !["t1"] = row]
    <3>1. row \in TestRows /\ tests'["t1"] = row
      BY <1>0, <2>2, <2>3 DEF TestRows, RowPhases
    <3>2. GoesOn("t1")
      BY <1>5, <2>2, <3>1 DEF GoesOn, HasRow, TestRows
    <3>3. QED BY <2>2, <2>3, <3>1, <3>2, OneRow
  <2>4. QED BY <2>1, <2>3, SameRows
<1>6. CASE NoAnswer
  <2> DEFINE row == [tests["t1"] EXCEPT !.phase = "needs_review"]
  <2>1. tests' = tests \/ tests' = [tests EXCEPT !["t1"] = row]
    BY <1>6 DEF NoAnswer, StartEnds, Uncertain
  <2>2. tests["t1"] \in TestRows /\ "t1" \in TestIds
    BY <1>0 DEF TestIds
  <2>3. CASE tests' = [tests EXCEPT !["t1"] = row]
    <3>1. row \in TestRows /\ tests'["t1"] = row
      BY <1>0, <2>2, <2>3 DEF TestRows, RowPhases
    <3>2. GoesOn("t1")
      BY <2>2, <3>1 DEF GoesOn, HasRow, TestRows
    <3>3. QED BY <2>2, <2>3, <3>1, <3>2, OneRow
  <2>4. QED BY <2>1, <2>3, SameRows
<1>7. ASSUME NEW t \in TestIds, ReviewClose(t) PROVE RowsMove
  <2> DEFINE row == [ForReview(tests[t]) EXCEPT !.open = FALSE, !.phase = "archived_incomplete"]
  <2>1. tests' = [tests EXCEPT ![t] = row]
    BY <1>0, <1>7 DEF ReviewClose
  <2>2. row \in TestRows /\ tests'[t] = row /\ row.cursor = tests[t].cursor
        /\ row.measured = tests[t].measured /\ row.integrity = "incomplete"
        /\ row.phase = "archived_incomplete" /\ row.open = FALSE
    BY <1>0, <2>1 DEF ForReview, TestRows, RowPhases
  <2>3. GoesOn(t)
    BY <2>2 DEF GoesOn, HasRow
  <2>4. QED BY <2>1, <2>2, <2>3, OneRow
<1>8. CASE \/ Sample \/ Proceed \/ Reboots \/ RunsByItself \/ BoardAnswers \/ CommandLost
           \/ ConnectionLost \/ Reconnected \/ ReadSample \/ ReadAnswer \/ OnCommStatus
           \/ PersistFails \/ StopRun \/ Send \/ Restarts \/ UNCHANGED mRunVars
  <2>1. tests' = tests
    BY <1>8 DEF Sample, Proceed, Reboots, RunsByItself, BoardAnswers, CommandLost, ConnectionLost, Reconnected,
       ReadSample, ReadAnswer, OnCommStatus, PersistFails, StopRun, Send, Restarts, mRunVars, boardRest
  <2>2. QED BY <2>1, SameRows
<1>9. QED
  BY <1>1, <1>2, <1>3, <1>4, <1>5, <1>6, <1>7, <1>8 DEF MeasurementNext

-----------------------------------------------------------------------------
(* The queue, the memory of the backend and its command.                 *)

QueueTyped == /\ frames \in Seq(RunFrame) /\ Len(frames) <= QueueSize
              /\ atWork # NoWork => Len(frames) > 0
MemoryTyped == memory \in Memories /\ memory.last <= Len(taken)
FramesSpoken == \A i \in 1..Len(frames) : frames[i].n \in 1..Len(taken)

LEMMA TakenGrows ==
  ASSUME RunTyped, [MeasurementNext]_mRunVars
  PROVE  /\ Len(taken) \in Nat /\ Len(taken') \in Nat /\ Len(taken) <= Len(taken')
         /\ \A n \in 1..Len(taken) : taken'[n] = taken[n]
         /\ \/ taken' = taken
            \/ Sample /\ Len(taken') = Len(taken) + 1 /\ taken'[Len(taken')] = StatusSnapshot
<1>1. taken \in Seq(Snapshots) /\ Len(taken) \in Nat
  BY DEF RunTyped
<1>2. CASE Sample
  <2>1. StatusSnapshot \in Snapshots
    BY DEF StatusSnapshot, Snapshots, RunTyped
  <2>2. QED BY <1>1, <1>2, <2>1, Appended DEF Sample
<1>3. CASE ~Sample
  <2>1. taken' = taken
    BY <1>3 DEF MeasurementNext, Proceed, Reboots, RunsByItself, BoardAnswers, CommandLost, ConnectionLost,
       Reconnected, ReadSample, ReadAnswer, OnCommStatus, OnStatus, Persist, PersistFails, StartRun, StopRun,
       Send, Accepted, Rejected, NoAnswer, Restarts, ReviewClose, mRunVars
  <2>2. QED BY <1>1, <2>1
<1>4. QED BY <1>2, <1>3

LEMMA FirstFrame ==
  ASSUME RunTyped, Spoken, frames # <<>>
  PROVE  /\ Head(frames) \in RunFrame /\ Head(frames).n \in 1..Len(taken) /\ taken[Head(frames).n] \in Snapshots
         /\ Tail(frames) \in Seq(RunFrame) /\ Len(Tail(frames)) = Len(frames) - 1
         /\ \A i \in 1..Len(Tail(frames)) : Tail(frames)[i].n \in 1..Len(taken)
<1>1. frames \in Seq(RunFrame) /\ taken \in Seq(Snapshots)
  BY DEF RunTyped
<1>2. /\ Head(frames) \in RunFrame /\ Head(frames) = frames[1] /\ Len(frames) \in Nat \ {0}
      /\ Tail(frames) \in Seq(RunFrame) /\ Len(Tail(frames)) = Len(frames) - 1
      /\ \A i \in 1..Len(Tail(frames)) : i+1 \in 1..Len(frames) /\ Tail(frames)[i] = frames[i+1]
  BY <1>1, HeadOff
<1>3. Head(frames).n \in 1..Len(taken)
  BY <1>2 DEF Spoken
<1>4. \A i \in 1..Len(Tail(frames)) : Tail(frames)[i].n \in 1..Len(taken)
  BY <1>2 DEF Spoken
<1>5. QED BY <1>1, <1>2, <1>3, <1>4

LEMMA QueueStep ==
  ASSUME RunTyped, Spoken, [MeasurementNext]_mRunVars
  PROVE  QueueTyped' /\ FramesSpoken'
<1>1. /\ frames \in Seq(RunFrame) /\ Len(frames) <= QueueSize /\ Len(frames) \in Nat
      /\ QueueTyped /\ FramesSpoken /\ QueueSize \in Nat
  BY MeasurementAssumption DEF RunTyped, QueueTyped, FramesSpoken, Spoken
<1>2. /\ Len(taken) \in Nat /\ Len(taken') \in Nat /\ Len(taken) <= Len(taken')
      /\ \A i \in 1..Len(frames) : frames[i].n \in 1..Len(taken')
  BY TakenGrows, <1>1 DEF FramesSpoken
<1>3. CASE ReadSample
  <2>1. \/ frames' = frames
        \/ /\ Len(frames) < QueueSize
           /\ \E f \in RunFrame : frames' = Append(frames, f) /\ f.n = Head(stream).n
    <3>1. stream # <<>> /\ stream \in Seq(Carried) /\ memory \in Memories
      BY <1>3 DEF ReadSample, RunTyped
    <3>2. Head(stream) \in Carried
      BY <3>1, HeadOff
    <3>3. Head(stream).n \in Nat /\ memory.dropped \in Nat
      BY <3>1, <3>2 DEF Carried, Memories
    <3>4. [n |-> Head(stream).n, drops |-> memory.dropped, old |-> FALSE] \in RunFrame
      BY <3>3 DEF RunFrame
    <3>5. CASE Len(frames) < QueueSize
      <4> DEFINE f == [n |-> Head(stream).n, drops |-> memory.dropped, old |-> FALSE]
      <4>1. frames' = Append(frames, f) /\ f.n = Head(stream).n
        BY <1>3, <3>5 DEF ReadSample
      <4>2. QED BY <3>4, <3>5, <4>1
    <3>6. CASE ~(Len(frames) < QueueSize)
      BY <1>3, <3>6 DEF ReadSample
    <3>7. QED BY <3>5, <3>6
  <2>2. Head(stream).n \in 1..Len(taken) /\ taken' = taken /\ atWork' = atWork
    <3>1. stream # <<>> /\ stream \in Seq(Carried) /\ Head(stream).kind = "sample"
      BY <1>3 DEF ReadSample, RunTyped
    <3>2. Head(stream) = stream[1] /\ Len(stream) \in Nat \ {0}
      BY <3>1, HeadOff
    <3>3. QED BY <1>3, <3>1, <3>2 DEF Spoken, ReadSample
  <2>3. CASE frames' = frames
    BY <1>1, <2>2, <2>3 DEF QueueTyped, FramesSpoken
  <2>4. ASSUME NEW f \in RunFrame, frames' = Append(frames, f), f.n = Head(stream).n, Len(frames) < QueueSize
        PROVE  QueueTyped' /\ FramesSpoken'
    <3>1. /\ frames' \in Seq(RunFrame) /\ Len(frames') = Len(frames) + 1
          /\ \A i \in 1..Len(frames) : frames'[i] = frames[i]
          /\ frames'[Len(frames) + 1] = f
      BY <1>1, <2>4, Appended
    <3>2. QueueTyped'
      BY <1>1, <2>4, <3>1 DEF QueueTyped
    <3>3. FramesSpoken'
      <4>1. ASSUME NEW i \in 1..Len(frames') PROVE frames'[i].n \in 1..Len(taken)
        <5>1. i \in 1..Len(frames) \/ i = Len(frames) + 1
          BY <1>1, <3>1
        <5>2. QED BY <1>1, <2>2, <2>4, <3>1, <5>1 DEF FramesSpoken
      <4>2. QED BY <2>2, <4>1 DEF FramesSpoken
    <3>4. QED BY <3>2, <3>3
  <2>5. QED BY <2>1, <2>3, <2>4
<1>4. CASE OnCommStatus
  <2>1. frames' = [i \in 1..Len(frames) |-> [frames[i] EXCEPT !.old = TRUE]] /\ atWork' = atWork
    BY <1>4 DEF OnCommStatus
  <2>2. \A i \in 1..Len(frames) : frames[i] \in RunFrame
    BY <1>1
  <2>3. \A i \in 1..Len(frames) : [frames[i] EXCEPT !.old = TRUE] \in RunFrame
                                  /\ [frames[i] EXCEPT !.old = TRUE].n = frames[i].n
    BY <2>2 DEF RunFrame
  <2>4. frames' \in Seq(RunFrame) /\ Len(frames') = Len(frames)
    BY <1>1, <2>1, <2>3
  <2>5. \A i \in 1..Len(frames) : frames'[i].n = frames[i].n
    BY <2>1, <2>3
  <2>6. QED BY <1>1, <1>2, <2>1, <2>4, <2>5 DEF QueueTyped, FramesSpoken
<1>5. CASE OnStatus
  <2>1. frames' = frames /\ frames # <<>>
    BY <1>5 DEF OnStatus
  <2>2. Len(frames) > 0
    BY <1>1, <2>1
  <2>3. QED BY <1>1, <1>2, <2>1, <2>2 DEF QueueTyped, FramesSpoken
<1>6. CASE Persist \/ PersistFails
  <2>1. atWork' = NoWork /\ frames' = Tail(frames) /\ frames # <<>>
    BY <1>1, <1>6 DEF Persist, PersistFails, QueueTyped
  <2>2. /\ Tail(frames) \in Seq(RunFrame) /\ Len(Tail(frames)) = Len(frames) - 1
        /\ \A i \in 1..Len(Tail(frames)) : Tail(frames)[i].n \in 1..Len(taken)
    BY <2>1, FirstFrame
  <2>3. QED BY <1>1, <1>2, <2>1, <2>2 DEF QueueTyped, FramesSpoken
<1>7. CASE Restarts
  <2>1. frames' = <<>> /\ atWork' = NoWork
    BY <1>7 DEF Restarts
  <2>2. <<>> \in Seq(RunFrame)
    OBVIOUS
  <2>3. QED BY <1>1, <2>1, <2>2 DEF QueueTyped, FramesSpoken
<1>8. CASE \/ Sample \/ Proceed \/ Reboots \/ RunsByItself \/ BoardAnswers \/ CommandLost
           \/ ConnectionLost \/ Reconnected \/ ReadAnswer \/ StartRun \/ StopRun \/ Send
           \/ Accepted \/ Rejected \/ NoAnswer \/ (\E t \in TestIds : ReviewClose(t)) \/ UNCHANGED mRunVars
  <2>1. frames' = frames /\ atWork' = atWork
    BY <1>8 DEF Sample, Proceed, Reboots, RunsByItself, BoardAnswers, CommandLost, ConnectionLost, Reconnected,
       ReadAnswer, StartRun, StopRun, Send, Accepted, Rejected, NoAnswer, ReviewClose, mRunVars, boardRest
  <2>2. QED BY <1>1, <1>2, <2>1 DEF QueueTyped, FramesSpoken
<1>9. QED
  BY <1>3, <1>4, <1>5, <1>6, <1>7, <1>8 DEF MeasurementNext

LEMMA MemoryStep ==
  ASSUME RunTyped, Spoken, [MeasurementNext]_mRunVars
  PROVE  MemoryTyped'
<1>1. memory \in Memories /\ memory.last <= Len(taken) /\ memory.last \in Nat /\ memory.dropped \in Nat
  BY DEF RunTyped, Spoken, Memories
<1>2. Len(taken) \in Nat /\ Len(taken') \in Nat /\ Len(taken) <= Len(taken')
  BY TakenGrows
<1> SUFFICES memory' \in Memories /\ memory'.last <= Len(taken)
  <2>1. ASSUME memory' \in Memories, memory'.last <= Len(taken) PROVE memory'.last <= Len(taken')
    BY <1>2, <2>1 DEF Memories
  <2>2. QED BY <2>1 DEF MemoryTyped
<1>3. CASE OnStatus
  <2>1. /\ Head(frames) \in RunFrame /\ Head(frames).n \in 1..Len(taken)
        /\ taken[Head(frames).n] \in Snapshots
    BY <1>3, FirstFrame DEF OnStatus
  <2> DEFINE f == Head(frames)
             s == taken[f.n]
             seen == [memory EXCEPT !.fresh = memory.fresh \/ ~f.old, !.last = IF f.old THEN @ ELSE f.n]
  <2>2. f.n \in Nat /\ f.old \in BOOLEAN /\ s.test \in MayTest
    BY <2>1 DEF RunFrame, Snapshots
  <2>3. seen \in Memories /\ seen.last <= Len(taken)
    <3>1. (memory.fresh \/ ~f.old) \in BOOLEAN
      OBVIOUS
    <3>2. (IF f.old THEN memory.last ELSE f.n) \in Nat /\ (IF f.old THEN memory.last ELSE f.n) <= Len(taken)
      BY <1>1, <1>2, <2>1, <2>2
    <3>3. QED BY <1>1, <3>1, <3>2 DEF Memories
  <2>4. Restored(s) \in MayTest
    BY <2>2 DEF Restored, MayTest
  <2>5. \/ memory' = seen
        \/ memory' = [seen EXCEPT !.seen = s.test, !.active = Restored(s), !.needs = FALSE]
        \/ memory' = [seen EXCEPT !.seen = s.test]
    BY <1>3 DEF OnStatus
  <2> HIDE DEF seen
  <2>6. QED BY <2>2, <2>3, <2>4, <2>5 DEF Memories
<1>4. CASE ReadSample \/ OnCommStatus \/ Persist \/ PersistFails
  <2>1. CASE ReadSample
    <3>1. memory' = memory \/ memory' = [memory EXCEPT !.dropped = memory.dropped + 1]
      BY <2>1 DEF ReadSample
    <3>2. memory.dropped + 1 \in Nat
      BY <1>1
    <3>3. QED BY <1>1, <3>1, <3>2 DEF Memories
  <2>2. CASE OnCommStatus
    <3>1. memory' = [memory EXCEPT !.fresh = FALSE, !.needs = memory.needs \/ memory.active # NoTest]
      BY <2>2 DEF OnCommStatus
    <3>2. (memory.needs \/ memory.active # NoTest) \in BOOLEAN
      OBVIOUS
    <3>3. QED BY <1>1, <3>1, <3>2 DEF Memories
  <2>3. CASE Persist \/ PersistFails
    <3>1. \/ memory' = [memory EXCEPT !.failing = FALSE]
          \/ memory' = [memory EXCEPT !.failing = TRUE]
          \/ memory' = [memory EXCEPT !.failing = FALSE, !.active = NoTest, !.needs = FALSE]
      BY <2>3 DEF Persist, PersistFails
    <3>2. NoTest \in MayTest
      BY DEF MayTest
    <3>3. QED BY <1>1, <3>1, <3>2 DEF Memories
  <2>4. QED BY <1>4, <2>1, <2>2, <2>3
<1>5. CASE Accepted
  <2>1. CASE memory' = memory
    BY <1>1, <2>1
  <2>2. CASE memory' = [memory EXCEPT !.active = "t1", !.needs = TRUE]
    BY <1>1, <2>2 DEF Memories, MayTest, TestIds
  <2>3. CASE Opened # {} /\ memory' = [memory EXCEPT !.active = StopTarget, !.needs = TRUE]
    <3>1. StopTarget \in MayTest
      BY <2>3, OpenedStopTarget DEF Opened, MayTest
    <3>2. QED BY <1>1, <2>3, <3>1 DEF Memories
  <2>4. QED BY <1>5, <2>1, <2>2, <2>3 DEF Accepted
<1>6. ASSUME NEW t \in TestIds, ReviewClose(t) PROVE memory' \in Memories /\ memory'.last <= Len(taken)
  BY <1>1, <1>6 DEF ReviewClose, Memories, MayTest
<1>7. CASE Restarts
  <2>1. Started \in Memories /\ Started.last = 0
    BY DEF Started, Memories, MayTest
  <2>2. ASSUME Cardinality(Opened) = 1 PROVE (CHOOSE t \in Opened : TRUE) \in MayTest
    <3>1. Opened # {}
      BY <2>2, FS_EmptySet
    <3>2. QED BY <3>1 DEF Opened, MayTest
  <2>3. CASE Cardinality(Opened) = 1
    <3>1. PICK t \in MayTest : memory' = [Started EXCEPT !.active = t, !.needs = TRUE]
      BY <1>7, <2>2, <2>3 DEF Restarts
    <3>2. memory' \in Memories
      BY <2>1, <3>1 DEF Memories
    <3>3. memory'.last = 0
      BY <2>1, <3>1 DEF Memories
    <3>4. QED BY <1>2, <3>2, <3>3
  <2>4. CASE Cardinality(Opened) # 1
    BY <1>2, <1>7, <2>1, <2>4 DEF Restarts
  <2>5. QED BY <2>3, <2>4
<1>8. CASE \/ Sample \/ Proceed \/ Reboots \/ RunsByItself \/ BoardAnswers \/ CommandLost
           \/ ConnectionLost \/ Reconnected \/ ReadAnswer \/ StartRun \/ StopRun \/ Send
           \/ Rejected \/ NoAnswer \/ UNCHANGED mRunVars
  <2>1. memory' = memory
    BY <1>8 DEF Sample, Proceed, Reboots, RunsByItself, BoardAnswers, CommandLost, ConnectionLost, Reconnected,
       ReadAnswer, StartRun, StopRun, Send, Rejected, NoAnswer, mRunVars, boardRest
  <2>2. QED BY <1>1, <2>1
<1>9. QED
  BY <1>3, <1>4, <1>5, <1>6, <1>7, <1>8 DEF MeasurementNext

CommandTyped == command \in Commands /\ trouble \in Nat

LEMMA CommandStep ==
  ASSUME RunTyped, [MeasurementNext]_mRunVars
  PROVE  CommandTyped'
<1>1. command \in Commands /\ trouble \in Nat
  BY DEF RunTyped
<1>2. trouble' \in Nat
  <2>1. trouble' = trouble \/ trouble' = trouble + 1
    BY DEF MeasurementNext, Trouble, Sample, Proceed, Reboots, RunsByItself, BoardAnswers, CommandLost, ConnectionLost,
       Reconnected, ReadSample, ReadAnswer, OnCommStatus, OnStatus, Persist, PersistFails, StartRun, StopRun,
       Send, Accepted, Rejected, NoAnswer, Restarts, ReviewClose, mRunVars
  <2>2. QED BY <1>1, <2>1
<1>3. CASE ReadAnswer
  <2>1. Head(stream) \in Carried /\ Head(stream).kind # "sample"
    BY <1>3, HeadOff DEF ReadAnswer, RunTyped
  <2>2. Head(stream).kind \in {"accepted", "refused"}
    BY <2>1 DEF Carried
  <2>3. QED BY <1>1, <1>2, <1>3, <2>2 DEF ReadAnswer, Commands, CommandTyped
<1>4. CASE ~ReadAnswer
  <2>1. \/ command' \in {command, NoOne, [kind |-> "start", at |-> "archived"], [kind |-> "stop", at |-> "archived"]}
        \/ command' = [command EXCEPT !.at = "sent"]
    BY <1>4 DEF MeasurementNext, Sample, Proceed, Reboots, RunsByItself, BoardAnswers, CommandLost, ConnectionLost,
       Reconnected, ReadSample, OnCommStatus, OnStatus, Persist, PersistFails, StartRun, StopRun,
       Send, Accepted, Rejected, NoAnswer, Restarts, ReviewClose, mRunVars, boardRest
  <2>2. QED BY <1>1, <1>2, <2>1 DEF Commands, NoOne, CommandTyped
<1>5. QED BY <1>3, <1>4

LEMMA StoredStep ==
  ASSUME RunTyped, Spoken, RowsThere, [MeasurementNext]_mRunVars
  PROVE  /\ stored \subseteq stored' /\ stored' \subseteq TestIds \X Nat
         /\ \A k \in stored' : k[2] \in 1..Len(taken)
         /\ stored' = stored \/ \E t \in TestIds : Sampled(t)
<1>1. stored \subseteq TestIds \X Nat /\ \A k \in stored : k[2] \in 1..Len(taken)
  BY DEF RunTyped, Spoken
<1>2. CASE stored' = stored
  BY <1>1, <1>2
<1>3. CASE stored' # stored
  <2>1. Persist
    BY <1>3 DEF MeasurementNext, Sample, Proceed, Reboots, RunsByItself, BoardAnswers, CommandLost, ConnectionLost,
       Reconnected, ReadSample, ReadAnswer, OnCommStatus, OnStatus, PersistFails, StartRun, StopRun,
       Send, Accepted, Rejected, NoAnswer, Restarts, ReviewClose, mRunVars, boardRest
  <2>2. PICK t \in TestIds : Sampled(t)
    <3>1. memory.active \in Opened
      BY <1>3, <2>1 DEF Persist
    <3>2. memory.active \in TestIds /\ tests[memory.active].open
      BY <3>1 DEF Opened
    <3>3. Sampled(memory.active)
      BY <2>1, <3>1, <3>2 DEF Persist, Sampled
    <3>4. QED BY <3>2, <3>3
  <2>3. frames # <<>>
    BY <2>1 DEF Persist, RunTyped
  <2>4. Head(frames).n \in 1..Len(taken) /\ Len(taken) \in Nat
    BY <2>3, FirstFrame, TakenGrows
  <2>5. stored' = stored \cup {<<t, Head(frames).n>>}
    BY <2>2 DEF Sampled, SamplePoint
  <2>6. QED BY <1>1, <2>2, <2>4, <2>5
<1>4. QED BY <1>2, <1>3

LEMMA StreamStep ==
  ASSUME RunTyped, Spoken, [MeasurementNext]_mRunVars
  PROVE  \A i \in 1..Len(stream') : stream'[i].kind = "sample" => stream'[i].n \in 1..Len(taken')
<1>1. /\ stream \in Seq(Carried) /\ Len(stream) \in Nat
      /\ \A i \in 1..Len(stream) : stream[i].kind = "sample" => stream[i].n \in 1..Len(taken)
  BY DEF RunTyped, Spoken
<1>2. Len(taken) \in Nat /\ Len(taken') \in Nat /\ Len(taken) <= Len(taken')
  BY TakenGrows
<1>3. CASE stream' = stream
  BY <1>1, <1>2, <1>3
<1>4. CASE stream' = <<>>
  BY <1>4
<1>5. CASE stream # <<>> /\ stream' = Tail(stream)
  <2>1. \A i \in 1..Len(stream') : i+1 \in 1..Len(stream) /\ stream'[i] = stream[i+1]
    BY <1>1, <1>5, HeadOff
  <2>2. QED BY <1>1, <1>2, <2>1
<1>6. ASSUME NEW x \in Carried, stream' = Append(stream, x), x.kind = "sample" => x.n = Len(taken') /\ x.n # 0
      PROVE  \A i \in 1..Len(stream') : stream'[i].kind = "sample" => stream'[i].n \in 1..Len(taken')
  <2>1. /\ Len(stream') = Len(stream) + 1 /\ stream'[Len(stream) + 1] = x
        /\ \A i \in 1..Len(stream) : stream'[i] = stream[i]
    BY <1>1, <1>6, Appended
  <2>2. \A i \in 1..Len(stream') : i \in 1..Len(stream) \/ i = Len(stream) + 1
    BY <1>1, <2>1
  <2>3. QED BY <1>1, <1>2, <1>6, <2>1, <2>2
<1>7. CASE Sample
  <2>1. stream' = stream \/ stream' = Append(stream, [kind |-> "sample", n |-> Len(taken')])
    BY <1>7 DEF Sample
  <2>2. [kind |-> "sample", n |-> Len(taken')] \in Carried
    BY <1>2 DEF Carried
  <2>3. Len(taken') # 0
    BY <1>2, <1>7, TakenGrows, Appended DEF Sample, RunTyped
  <2>4. QED BY <1>3, <1>6, <2>1, <2>2, <2>3
<1>8. CASE BoardAnswers
  <2>1. stream' = stream \/ \E x \in Carried : stream' = Append(stream, x) /\ x.kind # "sample"
    BY <1>8 DEF BoardAnswers, Carried
  <2>2. QED BY <1>3, <1>6, <2>1
<1>9. CASE ~Sample /\ ~BoardAnswers
  <2>1. stream' = stream \/ stream' = <<>> \/ (stream # <<>> /\ stream' = Tail(stream))
    BY <1>9 DEF MeasurementNext, Proceed, Reboots, RunsByItself, CommandLost, ConnectionLost,
       Reconnected, ReadSample, ReadAnswer, OnCommStatus, OnStatus, Persist, PersistFails, StartRun, StopRun,
       Send, Accepted, Rejected, NoAnswer, Restarts, ReviewClose, mRunVars
  <2>2. QED BY <1>3, <1>4, <1>5, <2>1
<1>10. QED BY <1>7, <1>8, <1>9

LEMMA RowsStay ==
  ASSUME RunTyped, Spoken, RowsThere, [MeasurementNext]_mRunVars, NEW t \in TestIds
  PROVE  (HasRow(t) => HasRow(t)') /\ (tests'[t].open => HasRow(t)')
<1>1. CASE GoesOn(t) \/ Begins(t)
  BY <1>1 DEF GoesOn, Begins, RowsThere
<1>2. CASE Sampled(t)
  <2>1. frames # <<>> /\ tests \in [TestIds -> TestRows] /\ tests[t] \in TestRows /\ tests[t].phase # "none"
    BY <1>2 DEF Sampled, Persist, RunTyped, RowsThere, HasRow
  <2>2. AdvancedTo(t, Head(frames)).phase # "none"
    BY <2>1, FirstFrame, RowAdvanced
  <2>3. QED BY <1>2, <2>1, <2>2 DEF Sampled, HasRow
<1>3. QED BY <1>1, <1>2, RowsStep DEF RowsMove

LEMMA RunTypedStep ==
  ASSUME RunTyped, Spoken, RowsThere, [MeasurementNext]_mRunVars
  PROVE  RunTyped' /\ Spoken' /\ RowsThere'
<1>1. BoardTyped' /\ QueueTyped' /\ FramesSpoken' /\ MemoryTyped' /\ CommandTyped' /\ RowsMove
  BY BoardTypedStep, QueueStep, MemoryStep, CommandStep, RowsStep
<1>2. /\ stored \subseteq stored' /\ stored' \subseteq TestIds \X Nat
      /\ \A k \in stored' : k[2] \in 1..Len(taken)
      /\ stored' = stored \/ \E t \in TestIds : Sampled(t)
  BY StoredStep
<1>3. RunTyped'
  BY <1>1, <1>2 DEF RunTyped, BoardTyped, QueueTyped, MemoryTyped, CommandTyped, RowsMove
<1>4. Spoken'
  <2>1. Len(taken) \in Nat /\ Len(taken') \in Nat /\ Len(taken) <= Len(taken')
    BY TakenGrows
  <2>2. \A k \in stored' : k[2] \in 1..Len(taken')
    BY <1>2, <2>1
  <2>3. QED BY <1>1, <2>2, StreamStep DEF Spoken, FramesSpoken, MemoryTyped
<1>5. ASSUME NEW t \in TestIds PROVE (HasRow(t) => HasRow(t)') /\ (tests'[t].open => HasRow(t)')
  BY RowsStay
<1>6. ASSUME NEW k \in stored' PROVE HasRow(k[1])'
  <2>1. CASE k \in stored
    <3>1. k[1] \in TestIds /\ HasRow(k[1])
      BY <2>1 DEF RowsThere, RunTyped
    <3>2. QED BY <1>5, <3>1 DEF HasRow
  <2>2. CASE k \notin stored
    <3>1. PICK t \in TestIds : Sampled(t)
      BY <1>2, <2>2
    <3>2. k[1] = t /\ HasRow(t)
      BY <2>2, <3>1 DEF Sampled, SamplePoint, RowsThere
    <3>3. QED BY <1>5, <3>2 DEF HasRow
  <2>3. QED BY <2>1, <2>2
<1>7. RowsThere'
  BY <1>5, <1>6 DEF RowsThere, HasRow
<1>8. QED BY <1>3, <1>4, <1>7

-----------------------------------------------------------------------------
(* The board and its samples.                                            *)

LEMMA BoardMoves ==
  ASSUME RunTyped, BoardTrue, [MeasurementNext]_mRunVars
  PROVE  /\ Run(board)'
         /\ board'.phase = "safe" /\ board'.over =>
              (board.phase = "safe" /\ board.over) \/ (Len(taken) > 0 /\ taken[Len(taken)].over)
         /\ \A t : Running(t)' => \/ Running(t)
                                  \/ t = "ext" /\ RunsByItself
                                  \/ t = "t1" /\ BoardAnswers /\ flying = "start"
<1>1. board \in Snapshots /\ Run(board)
  BY DEF RunTyped, BoardTrue
<1>2. CASE board' = board
  BY <1>1, <1>2 DEF Running, Run
<1>3. CASE Proceed
  <2>1. board.phase # "idle" => Len(taken) > 0 /\ taken[Len(taken)] = board
    BY <1>3 DEF Proceed, RunTyped
  <2>2. /\ Run(board)'
        /\ board'.phase = "safe" /\ board'.over => Len(taken) > 0 /\ taken[Len(taken)].over
    BY <1>1, <1>3, <2>1 DEF Proceed, Snapshots, Run
  <2>3. board'.test = board.test /\ board.phase \in {"low", "high", "cooling"}
    BY <1>1, <1>3 DEF Proceed, Snapshots
  <2>4. QED BY <2>2, <2>3 DEF Running
<1>4. CASE Reboots
  BY <1>4 DEF Reboots, Run, Running
<1>5. CASE RunsByItself
  BY <1>1, <1>5 DEF RunsByItself, Snapshots, Run, Running, NoTest
<1>6. CASE BoardAnswers
  <2>1. CASE flying = "start" /\ board.phase = "idle"
    <3>1. board' = [board EXCEPT !.test = "t1", !.phase = "low"]
      BY <1>6, <2>1 DEF BoardAnswers
    <3>2. QED BY <1>1, <1>6, <2>1, <3>1 DEF Snapshots, Run, Running, NoTest
  <2>2. CASE flying = "stop" /\ board.phase \in {"low", "high"}
    <3>1. board' = [board EXCEPT !.phase = "cooling"]
      BY <1>6, <2>2 DEF BoardAnswers
    <3>2. QED BY <1>1, <2>2, <3>1 DEF Snapshots, Run, Running
  <2>3. CASE ~(flying = "start" /\ board.phase = "idle") /\ ~(flying = "stop" /\ board.phase \in {"low", "high"})
    <3>1. board' = board
      BY <1>6, <2>3 DEF BoardAnswers
    <3>2. QED BY <1>2, <3>1
  <2>4. QED BY <2>1, <2>2, <2>3
<1>7. CASE ~(Proceed \/ Reboots \/ RunsByItself \/ BoardAnswers)
  <2>1. board' = board
    BY <1>7 DEF MeasurementNext, Sample, CommandLost, ConnectionLost,
       Reconnected, ReadSample, ReadAnswer, OnCommStatus, OnStatus, Persist, PersistFails, StartRun, StopRun,
       Send, Accepted, Rejected, NoAnswer, Restarts, ReviewClose, mRunVars, boardRest
  <2>2. QED BY <1>2, <2>1
<1>8. QED BY <1>3, <1>4, <1>5, <1>6, <1>7

LEMMA SamplesStep ==
  ASSUME RunTyped, BoardTrue, SamplesTrue, [MeasurementNext]_mRunVars
  PROVE  BoardTrue' /\ SamplesTrue'
<1>1. /\ Len(taken) \in Nat /\ Len(taken') \in Nat /\ Len(taken) <= Len(taken')
      /\ \A n \in 1..Len(taken) : taken'[n] = taken[n]
      /\ \/ taken' = taken
         \/ Sample /\ Len(taken') = Len(taken) + 1 /\ taken'[Len(taken')] = StatusSnapshot
  BY TakenGrows
<1>2. /\ Run(board)'
      /\ board'.phase = "safe" /\ board'.over =>
           (board.phase = "safe" /\ board.over) \/ (Len(taken) > 0 /\ taken[Len(taken)].over)
  BY BoardMoves
<1>3. CASE taken' = taken
  BY <1>2, <1>3 DEF BoardTrue, SamplesTrue, Run
<1>4. CASE Sample /\ Len(taken') = Len(taken) + 1 /\ taken'[Len(taken')] = StatusSnapshot
  <2>1. board' = board /\ StatusSnapshot = board
    BY <1>4 DEF Sample, StatusSnapshot, RunTyped, Snapshots
  <2>2. BoardTrue'
    <3>1. Len(taken') > 0 /\ (board'.over => taken'[Len(taken')].over)
      BY <1>1, <1>4, <2>1
    <3>2. QED BY <1>2, <3>1 DEF BoardTrue
  <2>3. ASSUME NEW n \in 1..Len(taken')
        PROVE  /\ Run(taken'[n])
               /\ taken'[n].phase = "safe" /\ taken'[n].over => n > 1 /\ taken'[n-1].over
    <3>1. CASE n \in 1..Len(taken)
      <4>1. /\ Run(taken[n]) /\ taken'[n] = taken[n]
            /\ taken[n].phase = "safe" /\ taken[n].over => n > 1 /\ taken[n-1].over
        BY <1>1, <3>1 DEF SamplesTrue
      <4>2. n > 1 => taken'[n-1] = taken[n-1]
        BY <1>1, <3>1
      <4>3. QED BY <4>1, <4>2
    <3>2. CASE n = Len(taken) + 1
      <4>1. taken'[n] = board /\ Run(board)
        BY <1>4, <2>1, <3>2 DEF BoardTrue
      <4>2. board.phase = "safe" /\ board.over => Len(taken) > 0 /\ taken[Len(taken)].over
        BY DEF BoardTrue
      <4>3. Len(taken) > 0 => n > 1 /\ n-1 = Len(taken) /\ taken'[n-1] = taken[Len(taken)]
        BY <1>1, <3>2
      <4>4. QED BY <4>1, <4>2, <4>3
    <3>3. QED BY <1>1, <1>4, <3>1, <3>2
  <2>4. QED BY <2>2, <2>3 DEF SamplesTrue, Run
<1>5. QED BY <1>1, <1>3, <1>4

LEMMA RunsOnceStep ==
  ASSUME RunTyped, BoardTrue, RunsOnce, StartOnce, [MeasurementNext]_mRunVars
  PROVE  RunsOnce'
<1>1. /\ Len(taken) \in Nat /\ Len(taken') \in Nat /\ Len(taken) <= Len(taken')
      /\ \A n \in 1..Len(taken) : taken'[n] = taken[n]
      /\ \/ taken' = taken
         \/ Sample /\ Len(taken') = Len(taken) + 1 /\ taken'[Len(taken')] = StatusSnapshot
  BY TakenGrows
<1>2. ASSUME NEW n \in 1..Len(taken), taken[n].phase = "safe" PROVE ~Running(taken[n].test)'
  <2>1. ~Running(taken[n].test)
    BY <1>2 DEF RunsOnce
  <2>2. RunsByItself => taken[n].test # "ext"
    BY DEF RunsByItself
  <2>3. flying = "start" => taken[n].test # "t1"
    BY DEF StartOnce, Unsent
  <2>4. SUFFICES ASSUME Running(taken[n].test)' PROVE FALSE
    OBVIOUS
  <2>5. \/ Running(taken[n].test)
        \/ taken[n].test = "ext" /\ RunsByItself
        \/ taken[n].test = "t1" /\ BoardAnswers /\ flying = "start"
    BY <2>4, <1>1, BoardMoves DEF Running
  <2>6. QED BY <2>1, <2>2, <2>3, <2>5
<1>3. CASE taken' = taken
  BY <1>2, <1>3 DEF RunsOnce, Running
<1>4. CASE Sample /\ Len(taken') = Len(taken) + 1 /\ taken'[Len(taken')] = StatusSnapshot
  <2>1. board' = board /\ StatusSnapshot.phase = board.phase
    BY <1>4 DEF Sample, StatusSnapshot
  <2>2. board.phase = "safe" => \A t : ~Running(t)'
    BY <2>1 DEF Running
  <2>3. ASSUME NEW n \in 1..Len(taken'), taken'[n].phase = "safe" PROVE ~Running(taken[n].test)'
    <3>1. CASE n \in 1..Len(taken)
      BY <1>1, <1>2, <2>3, <3>1
    <3>2. CASE n = Len(taken')
      BY <1>4, <2>1, <2>2, <2>3, <3>2 DEF Running
    <3>3. QED BY <1>1, <1>4, <3>1, <3>2
  <2>4. QED BY <2>3 DEF RunsOnce, Running
<1>5. QED BY <1>1, <1>3, <1>4

-----------------------------------------------------------------------------
(* A start and its refusal.                                              *)

LEMMA RefusalMoves ==
  ASSUME RunTyped, [MeasurementNext]_mRunVars, Refusal'
  PROVE  Refusal \/ (BoardAnswers /\ flying = "start" /\ board' = board)
<1>1. stream \in Seq(Carried) /\ Len(stream) \in Nat
  BY DEF RunTyped
<1>2. CASE command' = [kind |-> "start", at |-> "refused"]
  <2>1. command \in Commands
    BY DEF RunTyped
  <2>2. CASE ReadAnswer
    <3>1. CASE command' = command
      BY <1>2, <3>1 DEF Refusal
    <3>2. CASE command' = [command EXCEPT !.at = Head(stream).kind]
      <4>1. Head(stream).kind = "refused"
        BY <1>2, <2>1, <3>2 DEF Commands
      <4>2. Head(stream) = stream[1] /\ 1 \in 1..Len(stream)
        BY <1>1, <2>2, HeadOff DEF ReadAnswer
      <4>3. QED BY <4>1, <4>2 DEF Refusal
    <3>3. QED BY <2>2, <3>1, <3>2 DEF ReadAnswer
  <2>3. CASE ~ReadAnswer
    <3>1. \/ command' \in {command, NoOne, [kind |-> "start", at |-> "archived"], [kind |-> "stop", at |-> "archived"]}
          \/ command' = [command EXCEPT !.at = "sent"]
      BY <2>3 DEF MeasurementNext, Sample, Proceed, Reboots, RunsByItself, BoardAnswers, CommandLost, ConnectionLost,
         Reconnected, ReadSample, OnCommStatus, OnStatus, Persist, PersistFails, StartRun, StopRun,
         Send, Accepted, Rejected, NoAnswer, Restarts, ReviewClose, mRunVars, boardRest
    <3>2. QED BY <1>2, <2>1, <3>1 DEF Commands, NoOne, Refusal
  <2>4. QED BY <2>2, <2>3
<1>3. ASSUME NEW i \in 1..Len(stream'), stream'[i].kind = "refused"
      PROVE  Refusal \/ (BoardAnswers /\ flying = "start" /\ board' = board)
  <2>1. CASE stream' = stream
    BY <1>3, <2>1 DEF Refusal
  <2>2. CASE stream' = <<>>
    BY <1>3, <2>2
  <2>3. CASE stream # <<>> /\ stream' = Tail(stream)
    <3>1. i+1 \in 1..Len(stream) /\ stream'[i] = stream[i+1]
      BY <1>1, <1>3, <2>3, HeadOff
    <3>2. QED BY <1>3, <3>1 DEF Refusal
  <2>4. ASSUME NEW x \in Carried, stream' = Append(stream, x)
        PROVE  Refusal \/ x.kind = "refused"
    <3>1. /\ Len(stream') = Len(stream) + 1 /\ stream'[Len(stream) + 1] = x
          /\ \A j \in 1..Len(stream) : stream'[j] = stream[j]
      BY <1>1, <2>4, Appended
    <3>2. i \in 1..Len(stream) \/ i = Len(stream) + 1
      BY <1>1, <3>1
    <3>3. QED BY <1>3, <3>1, <3>2 DEF Refusal
  <2>5. CASE Sample
    <3>1. stream' = stream \/ stream' = Append(stream, [kind |-> "sample", n |-> Len(taken')])
      BY <2>5 DEF Sample
    <3>2. [kind |-> "sample", n |-> Len(taken')] \in Carried
      BY TakenGrows DEF Carried
    <3>3. QED BY <2>1, <2>4, <3>1, <3>2
  <2>6. CASE BoardAnswers
    <3> DEFINE x == [kind |-> IF flying = "start" /\ board.phase # "idle" THEN "refused" ELSE "accepted", n |-> 0]
    <3>1. stream' = stream \/ stream' = Append(stream, x)
      BY <2>6 DEF BoardAnswers
    <3>2. x \in Carried
      BY DEF Carried
    <3>3. x.kind = "refused" => flying = "start" /\ board' = board
      BY <2>6 DEF BoardAnswers
    <3>4. QED BY <2>1, <2>4, <2>6, <3>1, <3>2, <3>3
  <2>7. CASE ~Sample /\ ~BoardAnswers
    <3>1. stream' = stream \/ stream' = <<>> \/ (stream # <<>> /\ stream' = Tail(stream))
      BY <2>7 DEF MeasurementNext, Proceed, Reboots, RunsByItself, CommandLost, ConnectionLost,
         Reconnected, ReadSample, ReadAnswer, OnCommStatus, OnStatus, Persist, PersistFails, StartRun, StopRun,
         Send, Accepted, Rejected, NoAnswer, Restarts, ReviewClose, mRunVars
    <3>2. QED BY <2>1, <2>2, <2>3, <3>1
  <2>8. QED BY <2>5, <2>6, <2>7
<1>4. QED BY <1>2, <1>3 DEF Refusal

LEMMA TestMoves ==
  ASSUME RunTyped, [MeasurementNext]_mRunVars, board'.test = "t1"
  PROVE  board.test = "t1" \/ (BoardAnswers /\ flying = "start")
<1>1. board \in Snapshots
  BY DEF RunTyped
<1>2. CASE BoardAnswers
  <2>1. flying # "start" => board' = board \/ board' = [board EXCEPT !.phase = "cooling"]
    BY <1>2 DEF BoardAnswers
  <2>2. QED BY <1>1, <1>2, <2>1 DEF Snapshots
<1>3. CASE Proceed
  BY <1>1, <1>3 DEF Proceed, Snapshots
<1>4. CASE Reboots
  BY <1>4 DEF Reboots, NoTest
<1>5. CASE RunsByItself
  BY <1>1, <1>5 DEF RunsByItself, Snapshots
<1>6. CASE ~(Proceed \/ Reboots \/ RunsByItself \/ BoardAnswers)
  <2>1. board' = board
    BY <1>6 DEF MeasurementNext, Sample, CommandLost, ConnectionLost,
       Reconnected, ReadSample, ReadAnswer, OnCommStatus, OnStatus, Persist, PersistFails, StartRun, StopRun,
       Send, Accepted, Rejected, NoAnswer, Restarts, ReviewClose, mRunVars, boardRest
  <2>2. QED BY <2>1
<1>7. QED BY <1>2, <1>3, <1>4, <1>5, <1>6

StartArchived == command = [kind |-> "start", at |-> "archived"]

LEMMA SendMoves ==
  ASSUME RunTyped, [MeasurementNext]_mRunVars
  PROVE  /\ flying' = "start" => ~BoardAnswers /\ \/ flying = "start" /\ ~(Send /\ command.kind = "start")
                                                  \/ Send /\ StartArchived
         /\ StartArchived' => ~Send /\ (StartArchived \/ (StartRun /\ ~HasRow("t1") /\ HasRow("t1")'))
<1>1. command \in Commands /\ tests \in [TestIds -> TestRows] /\ tests["t1"] \in TestRows
  BY DEF RunTyped, TestIds
<1>2. CASE Send
  <2>1. flying' = command.kind /\ command' = [command EXCEPT !.at = "sent"] /\ command.at = "archived"
    BY <1>2 DEF Send
  <2>2. command.kind = "start" => StartArchived
    BY <1>1, <2>1 DEF Commands, StartArchived
  <2>3. ~BoardAnswers
    <3>1. BoardAnswers => command' = command
      BY DEF BoardAnswers
    <3>2. QED BY <1>1, <2>1, <3>1 DEF Commands
  <2>4. ~StartArchived'
    BY <1>1, <2>1 DEF Commands, StartArchived
  <2>5. QED BY <1>2, <2>1, <2>2, <2>3, <2>4
<1>3. CASE BoardAnswers
  <2>1. flying' = "none" /\ command' = command /\ flying # "none"
    BY <1>3 DEF BoardAnswers
  <2>2. ~Send
    BY <1>1, <2>1 DEF Send, Commands
  <2>3. QED BY <2>1, <2>2 DEF StartArchived
<1>4. CASE StartRun
  <2>1. flying' = flying /\ ~HasRow("t1") /\ command = NoOne
    BY <1>4 DEF StartRun
  <2>2. tests'["t1"].phase = "awaiting_device"
    BY <1>1, <1>4 DEF StartRun, TestIds, TestRows, NoTestRow
  <2>3. ~Send /\ ~BoardAnswers
    BY <1>4, <2>1 DEF Send, NoOne, BoardAnswers, StartRun
  <2>4. QED BY <1>4, <2>1, <2>2, <2>3 DEF HasRow
<1>5. CASE ReadAnswer
  <2>1. flying' = flying /\ ~Send
    BY <1>5, <1>1 DEF ReadAnswer, Send, Commands
  <2>2. Head(stream).kind # "archived"
    <3>1. Head(stream) \in Carried
      BY <1>5, HeadOff DEF ReadAnswer, RunTyped
    <3>2. QED BY <3>1 DEF Carried
  <2>3. StartArchived' => StartArchived
    BY <1>1, <1>5, <2>2 DEF ReadAnswer, Commands, StartArchived
  <2>4. CASE BoardAnswers
    BY <1>3, <2>4
  <2>5. CASE ~BoardAnswers
    BY <2>1, <2>3, <2>5
  <2>6. QED BY <2>4, <2>5
<1>6. CASE ~(Send \/ BoardAnswers \/ StartRun \/ ReadAnswer)
  <2>1. (flying' = flying \/ flying' = "none") /\ command' \in {command, NoOne, [kind |-> "stop", at |-> "archived"]}
    BY <1>6 DEF MeasurementNext, Sample, Proceed, Reboots, RunsByItself, CommandLost, ConnectionLost,
       Reconnected, ReadSample, OnCommStatus, OnStatus, Persist, PersistFails, StopRun,
       Accepted, Rejected, NoAnswer, Restarts, ReviewClose, mRunVars, boardRest
  <2>2. QED BY <1>6, <2>1 DEF StartArchived, NoOne
<1>7. QED BY <1>2, <1>3, <1>4, <1>5, <1>6

(* A session is closed for what its board showed, or for a refusal.      *)
LEMMA PhaseMoves ==
  ASSUME RunTyped, Spoken, RowsThere, [MeasurementNext]_mRunVars, NEW t \in TestIds
  PROVE  /\ tests'[t].phase = "completed" =>
              \/ tests[t].phase = "completed"
              \/ \E n \in 1..Len(taken) : taken[n].test = t /\ taken[n].phase = "safe"
         /\ tests'[t].phase = "start_rejected" =>
              tests[t].phase = "start_rejected" \/ (t = "t1" /\ Refusal)
<1>1. CASE GoesOn(t)
  BY <1>1 DEF GoesOn, Rejected, Refusal
<1>2. CASE Begins(t)
  BY <1>2 DEF Begins
<1>3. CASE Sampled(t)
  <2>1. frames # <<>> /\ tests \in [TestIds -> TestRows] /\ tests[t] \in TestRows /\ tests[t].phase # "none"
    BY <1>3 DEF Sampled, Persist, RunTyped, RowsThere, HasRow
  <2>2. tests'[t] = AdvancedTo(t, Head(frames))
    BY <1>3, <2>1 DEF Sampled
  <2>3. QED BY <2>1, <2>2, FirstFrame, RowAdvanced
<1>4. QED BY <1>1, <1>2, <1>3, RowsStep DEF RowsMove

LEMMA StartOnceStep ==
  ASSUME RunTyped, Spoken, RowsThere, StartOnce, [MeasurementNext]_mRunVars
  PROVE  StartOnce'
<1>0. "t1" \in TestIds
  BY DEF TestIds
<1>1. /\ Unsent => /\ board.test # "t1" /\ \A n \in 1..Len(taken) : taken[n].test # "t1"
                   /\ ~Refusal /\ tests["t1"].phase \notin {"completed", "start_rejected"}
      /\ flying = "start" => HasRow("t1") /\ ~StartArchived /\ Unsent
      /\ StartArchived => HasRow("t1") /\ Unsent
      /\ Refusal \/ tests["t1"].phase = "start_rejected" => board.test # "t1"
  BY DEF StartOnce, StartArchived, Unsent
<1>2. /\ flying' = "start" => ~BoardAnswers /\ \/ flying = "start" /\ ~(Send /\ command.kind = "start")
                                               \/ Send /\ StartArchived
      /\ StartArchived' => ~Send /\ (StartArchived \/ (StartRun /\ ~HasRow("t1") /\ HasRow("t1")'))
  BY SendMoves
<1>3. HasRow("t1") => HasRow("t1")'
  BY <1>0, RowsStay
<1>4. Unsent' => Unsent /\ ~(BoardAnswers /\ flying = "start")
  BY <1>1, <1>2, <1>3 DEF Unsent, StartArchived
<1>5. flying' = "start" => HasRow("t1")' /\ ~StartArchived'
  BY <1>1, <1>2, <1>3
<1>6. StartArchived' => HasRow("t1")'
  BY <1>1, <1>2, <1>3
<1>7. Unsent' => board'.test # "t1"
  BY <1>1, <1>4, TestMoves
<1>8. Unsent' => \A n \in 1..Len(taken') : taken'[n].test # "t1"
  <2>1. Sample => StatusSnapshot.test = board.test
    BY DEF StatusSnapshot
  <2>2. /\ Len(taken) \in Nat /\ Len(taken') \in Nat
        /\ \A n \in 1..Len(taken) : taken'[n] = taken[n]
        /\ \/ taken' = taken
           \/ Sample /\ Len(taken') = Len(taken) + 1 /\ taken'[Len(taken')] = StatusSnapshot
    BY TakenGrows
  <2>3. QED BY <1>1, <1>4, <2>1, <2>2
<1>9. Unsent' => ~Refusal'
  BY <1>1, <1>4, RefusalMoves
<1>10. tests'["t1"].phase = "completed" =>
         \/ tests["t1"].phase = "completed" 
         \/ \E n \in 1..Len(taken) : taken[n].test = "t1" /\ taken[n].phase = "safe"
  BY <1>0, PhaseMoves
<1>11. tests'["t1"].phase = "start_rejected" => tests["t1"].phase = "start_rejected" \/ Refusal
  BY <1>0, PhaseMoves
<1>12. Unsent' => tests'["t1"].phase \notin {"completed", "start_rejected"}
  BY <1>1, <1>4, <1>10, <1>11
<1>13. Refusal' \/ tests'["t1"].phase = "start_rejected" => board'.test # "t1"
  <2>1. Refusal \/ tests["t1"].phase = "start_rejected" => board'.test # "t1"
    BY <1>1, TestMoves
  <2>2. BoardAnswers /\ flying = "start" /\ board' = board => board'.test # "t1"
    BY <1>1
  <2>3. QED BY <1>11, <2>1, <2>2, RefusalMoves
<1>14. QED BY <1>5, <1>6, <1>7, <1>8, <1>9, <1>12, <1>13 DEF StartOnce, StartArchived

LEMMA ClosedForStep ==
  ASSUME RunTyped, Spoken, RowsThere, ClosedFor, [MeasurementNext]_mRunVars
  PROVE  ClosedFor'
<1>1. Len(taken) \in Nat /\ Len(taken') \in Nat /\ Len(taken) <= Len(taken')
      /\ \A n \in 1..Len(taken) : n \in 1..Len(taken') /\ taken'[n] = taken[n]
  BY TakenGrows
<1>2. ASSUME NEW t \in TestIds
      PROVE  /\ tests'[t].phase = "completed" =>
                  \E n \in 1..Len(taken) : taken[n].test = t /\ taken[n].phase = "safe"
             /\ tests'[t].phase = "start_rejected" => t = "t1"
  BY PhaseMoves DEF ClosedFor
<1>3. ASSUME NEW t \in TestIds, tests'[t].phase = "completed"
      PROVE  \E n \in 1..Len(taken') : taken'[n].test = t /\ taken'[n].phase = "safe"
  <2>1. PICK n \in 1..Len(taken) : taken[n].test = t /\ taken[n].phase = "safe"
    BY <1>2, <1>3
  <2>2. QED BY <1>1, <2>1
<1>4. QED BY <1>2, <1>3 DEF ClosedFor

-----------------------------------------------------------------------------
(* The samples stored of a test.                                         *)

LEMMA KeptTyped == ASSUME RunTyped, NEW t PROVE Kept(t) \subseteq 1..Len(taken) /\ Kept(t) \subseteq Nat
<1>1. Len(taken) \in Nat BY DEF RunTyped
<1>2. QED BY <1>1 DEF Kept

LEMMA KeptStays ==
  ASSUME RunTyped, Spoken, RowsThere, [MeasurementNext]_mRunVars, NEW t \in TestIds, ~Sampled(t)
  PROVE  Kept(t)' = Kept(t)
<1>1. Len(taken) \in Nat /\ Len(taken') \in Nat /\ Len(taken) <= Len(taken')
  BY TakenGrows
<1>2. /\ stored \subseteq stored' /\ \A k \in stored' : k[2] \in 1..Len(taken)
      /\ stored' = stored \/ \E u \in TestIds : Sampled(u)
  BY StoredStep
<1>3. ASSUME NEW n, <<t, n>> \in stored' PROVE <<t, n>> \in stored /\ n \in 1..Len(taken)
  <2>1. CASE stored' = stored
    BY <1>2, <1>3, <2>1
  <2>2. CASE stored' # stored
    <3>1. PICK u \in TestIds : Sampled(u)
      BY <1>2, <2>2
    <3>2. u # t /\ stored' = stored \cup {<<u, Head(frames).n>>}
      BY <3>1 DEF Sampled, SamplePoint
    <3>3. QED BY <1>2, <1>3, <3>2
  <2>3. QED BY <2>1, <2>2
<1>4. \A n : n \in Kept(t)' <=> n \in Kept(t)
  BY <1>1, <1>2, <1>3 DEF Kept
<1>5. QED BY <1>4

LEMMA GoesOnWhole ==
  ASSUME RunTyped, Spoken, RowsThere, [MeasurementNext]_mRunVars, NEW t \in TestIds, ~Sampled(t), GoesOn(t),
         WholeSoFar(t)
  PROVE  WholeSoFar(t)'
<1>1. Kept(t)' = Kept(t) /\ Kept(t) \subseteq 1..Len(taken) /\ \A n \in 1..Len(taken) : taken'[n] = taken[n]
  BY KeptStays, KeptTyped, TakenGrows
<1>2. /\ tests'[t].cursor = tests[t].cursor /\ tests'[t].measured = tests[t].measured
      /\ tests'[t].open => tests[t].open
      /\ tests'[t].integrity = "complete" => tests[t].integrity = "complete"
  BY DEF GoesOn
<1>3. OnePiece(t) => OnePiece(t)'
  <2>1. SUFFICES ASSUME OnePiece(t) PROVE OnePiece(t)'
    OBVIOUS
  <2>2. \A n \in Kept(t) : taken'[n] = taken[n]
    BY <1>1
  <2>3. Kept(t) # {} => tests[t].cursor.n \in Kept(t)
    BY <2>1 DEF OnePiece
  <2>4. QED BY <1>1, <1>2, <2>1, <2>2, <2>3 DEF OnePiece
<1>4. ToMeasure(t) => ToMeasure(t)'
  BY <1>1, <1>2 DEF ToMeasure
<1>5. FromLowToEnd(t) => FromLowToEnd(t)'
  BY <1>1 DEF FromLowToEnd
<1>6. QED BY <1>2, <1>3, <1>4, <1>5 DEF WholeSoFar

LEMMA BeginsWhole ==
  ASSUME RunTyped, Spoken, RowsThere, [MeasurementNext]_mRunVars, NEW t \in TestIds, ~Sampled(t), Begins(t)
  PROVE  WholeSoFar(t)'
<1>1. Kept(t)' = {}
  <2>1. Kept(t) = {}
    BY DEF Begins, RowsThere, Kept
  <2>2. QED BY <2>1, KeptStays
<1>2. tests'[t].cursor = NoCursor /\ tests'[t].integrity # "complete"
  BY DEF Begins
<1>3. OnePiece(t)' /\ ToMeasure(t)'
  BY <1>1, <1>2 DEF OnePiece, ToMeasure, NoCursor
<1>4. QED BY <1>2, <1>3 DEF WholeSoFar

LEMMA SampledWhole ==
  ASSUME RunTyped, Spoken, RowsThere, SamplesTrue, [MeasurementNext]_mRunVars, NEW t \in TestIds, Sampled(t),
         WholeSoFar(t)
  PROVE  WholeSoFar(t)'
<1> DEFINE f == Head(frames)
           n == f.n
           s == taken[n]
           c == tests[t].cursor
           row == AdvancedTo(t, f)
<1>1. /\ frames # <<>> /\ tests \in [TestIds -> TestRows] /\ tests[t] \in TestRows /\ c \in Cursors
      /\ tests[t].phase # "none" /\ tests[t].open
  BY DEF Sampled, Persist, RunTyped, RowsThere, HasRow, TestRows
<1>2. f \in RunFrame /\ n \in 1..Len(taken) /\ s \in Snapshots /\ Len(taken) \in Nat
  BY <1>1, FirstFrame, TakenGrows
<1>3. tests'[t] = row /\ taken' = taken /\ stored' = stored \cup {<<t, n>>}
  BY <1>1 DEF Sampled, SamplePoint, Persist
<1>4. /\ row \in TestRows /\ row.cursor = Moved(t, f)
      /\ s.test = t /\ s.phase = "safe" => ~row.open
      /\ tests[t].measured \/ (s.test = t /\ s.over) => row.measured
      /\ row.integrity = "complete" =>
           ~Issues(t, f) /\ (\/ tests[t].integrity = "complete"
                             \/ ~tests[t].measured /\ s.over /\ Proven(Moved(t, f)))
  BY <1>1, <1>2, RowAdvanced
<1>5. /\ Moved(t, f).n = n
      /\ Moved(t, f).gap <=> c.gap \/ Issues(t, f)
      /\ Moved(t, f).low <=> c.low \/ s.phase \in {"idle", "low", "safe"}
      /\ Moved(t, f).count >= 2 => c.count >= 1
  BY <1>1, <1>2, CursorMoves
<1> DEFINE mv == Moved(t, f)
<1>6. Kept(t)' = Kept(t) \cup {n} /\ Kept(t) \subseteq 1..Len(taken)
  <2>1. \A m : m \in Kept(t)' <=> m \in Kept(t) \/ m = n
    BY <1>2, <1>3 DEF Kept
  <2>2. QED BY <2>1, KeptTyped
<1>7. /\ Run(s)
      /\ s.phase = "safe" /\ s.over => n > 1 /\ taken[n-1].over
  BY <1>2 DEF SamplesTrue
<1>8. ~Issues(t, f) => s.test = t /\ (c.n # 0 => taken[c.n].boot = s.boot /\ n = c.n + 1)
  BY DEF Issues
<1> HIDE DEF f, n, s, c, row, mv
<1>9. c.n \in Nat /\ c.count \in 0..2 /\ n \in Nat
  BY <1>1, <1>2 DEF Cursors
<1>10. ASSUME ~c.gap, ~Issues(t, f)
       PROVE  OnePiece(t)' /\ OnePiece(t)
  <2>1. OnePiece(t)
    BY <1>10 DEF WholeSoFar, c
  <2>2. /\ c.n # 0 => c.n \in Kept(t)
        /\ c.n = 0 => Kept(t) = {}
        /\ \A m \in Kept(t) : /\ m <= c.n /\ m..c.n \subseteq Kept(t)
                              /\ taken[m].test = t /\ taken[m].boot = taken[c.n].boot
    BY <2>1 DEF OnePiece, c
  <2>3. tests'[t].cursor.n = n
    BY <1>3, <1>4, <1>5
  <2>4. ASSUME NEW m \in Kept(t)'
        PROVE  /\ m <= n /\ m..n \subseteq Kept(t)'
               /\ taken[m].test = t /\ taken[m].boot = taken[n].boot
    <3>1. CASE m = n
      BY <1>6, <1>8, <1>9, <1>10, <3>1 DEF s
    <3>2. CASE m # n
      <4>1. m \in Kept(t) /\ c.n # 0 /\ m \in Nat
        BY <1>6, <2>2, <3>2
      <4>2. n = c.n + 1 /\ taken[c.n].boot = taken[n].boot
        BY <1>8, <1>10, <4>1 DEF s
      <4>3. m..n = (m..c.n) \cup {n} /\ m <= n
        BY <1>9, <2>2, <4>1, <4>2
      <4>4. QED BY <1>6, <2>2, <4>1, <4>2, <4>3
    <3>3. QED BY <3>1, <3>2
  <2>5. n # 0 /\ n \in Kept(t)'
    BY <1>2, <1>6
  <2>6. OnePiece(t)'
    BY <1>3, <2>3, <2>4, <2>5 DEF OnePiece
  <2>7. QED BY <2>1, <2>6
<1>11. ASSUME ~c.gap, ~Issues(t, f), ~tests[t].measured
       PROVE  ToMeasure(t)
  BY <1>1, <1>11 DEF WholeSoFar, c
<1>12. ~tests'[t].cursor.gap => ~c.gap /\ ~Issues(t, f)
  BY <1>3, <1>4, <1>5
<1>13. ASSUME ~tests'[t].cursor.gap, tests'[t].open, ~tests'[t].measured
       PROVE  ToMeasure(t)'
  <2>1. ~tests[t].measured /\ ~s.over /\ s.test = t /\ s.phase # "safe"
    BY <1>3, <1>4, <1>8, <1>12, <1>13
  <2>2. ToMeasure(t)
    BY <1>11, <1>12, <1>13, <2>1
  <2>3. s.phase # "idle"
    BY <1>7, <2>1 DEF Run, NoTest, TestIds
  <2>4. tests'[t].cursor.low => c.low \/ s.phase = "low"
    BY <1>3, <1>4, <1>5, <2>1, <2>3
  <2>5. \A m \in Kept(t)' : ~taken'[m].over
    BY <1>3, <1>6, <2>1, <2>2 DEF ToMeasure, s
  <2>6. tests'[t].cursor.low => \E k \in Kept(t)' : taken'[k].phase = "low"
    BY <1>3, <1>6, <2>2, <2>4 DEF ToMeasure, s, c
  <2>7. QED BY <2>5, <2>6 DEF ToMeasure
<1>14. ASSUME tests'[t].integrity = "complete"
       PROVE  ~tests'[t].cursor.gap /\ FromLowToEnd(t)'
  <2>1. ~Issues(t, f)
    BY <1>3, <1>4, <1>14
  <2>2. CASE tests[t].integrity = "complete"
    <3>1. ~c.gap /\ FromLowToEnd(t)
      BY <2>2 DEF WholeSoFar, c
    <3>2. FromLowToEnd(t)'
      BY <1>3, <1>6, <3>1 DEF FromLowToEnd
    <3>3. QED BY <1>3, <1>4, <1>5, <2>1, <3>1, <3>2
  <2>3. CASE ~tests[t].measured /\ s.over /\ Proven(Moved(t, f))
    <3>1. Moved(t, f).low /\ Moved(t, f).count >= 2 /\ ~Moved(t, f).gap
      BY <2>3 DEF Proven
    <3>2. ~c.gap /\ c.count >= 1 /\ (c.low \/ s.phase \in {"idle", "low", "safe"})
      BY <1>5, <3>1
    <3>3. ToMeasure(t) /\ OnePiece(t) /\ OnePiece(t)'
      BY <1>10, <1>11, <2>1, <2>3, <3>2
    <3>4. c.n # 0 /\ c.n \in Kept(t) /\ n = c.n + 1
      <4>1. (c.n = 0 => c.count = 0) /\ (c.n # 0 => c.n \in Kept(t))
        BY <3>3 DEF OnePiece, c
      <4>2. QED BY <1>8, <1>9, <2>1, <3>2, <4>1
    <3>5. ~taken[c.n].over
      BY <3>3, <3>4 DEF ToMeasure
    <3>6. s.phase # "safe"
      <4>1. n - 1 = c.n
        BY <1>9, <3>4
      <4>2. QED BY <1>7, <2>3, <3>5, <4>1
    <3>7. c.low
      BY <1>7, <2>3, <3>2, <3>6 DEF Run
    <3>8. PICK k \in Kept(t) : taken[k].phase = "low"
      BY <3>3, <3>7 DEF ToMeasure, c
    <3>9. k <= n /\ k \in Kept(t)' /\ n \in Kept(t)'
      <4>1. tests'[t].cursor.n = n /\ k \in Kept(t)' /\ n \in Kept(t)'
        BY <1>3, <1>4, <1>5, <1>6
      <4>2. QED BY <3>3, <4>1 DEF OnePiece
    <3>10. FromLowToEnd(t)'
      BY <1>3, <2>3, <3>8, <3>9 DEF FromLowToEnd, s
    <3>11. QED BY <1>3, <1>4, <3>1, <3>10
  <2>4. QED BY <1>3, <1>4, <1>14, <2>2, <2>3
<1>15. QED BY <1>10, <1>12, <1>13, <1>14 DEF WholeSoFar

LEMMA WholeStep ==
  ASSUME RunTyped, Spoken, RowsThere, SamplesTrue, [MeasurementNext]_mRunVars, NEW t \in TestIds, WholeSoFar(t)
  PROVE  WholeSoFar(t)'
BY RowsStep, GoesOnWhole, BeginsWhole, SampledWhole DEF RowsMove

-----------------------------------------------------------------------------
LEMMA InitRecording == MeasurementInit => RecordingInv
<1> SUFFICES ASSUME MeasurementInit PROVE RecordingInv
  OBVIOUS
<1>1. /\ board = [boot |-> 1, test |-> NoTest, phase |-> "idle", over |-> FALSE]
      /\ taken = <<>> /\ stream = <<>> /\ frames = <<>> /\ flying = "none" /\ atWork = NoWork
      /\ conn = [up |-> TRUE, notice |-> FALSE] /\ memory = Started /\ command = NoOne
      /\ tests = [t \in TestIds |-> NoTestRow] /\ stored = {} /\ trouble = 0
  BY DEF MeasurementInit
<1>2. /\ Len(taken) = 0 /\ Len(stream) = 0 /\ Len(frames) = 0
      /\ <<>> \in Seq(Snapshots) /\ <<>> \in Seq(Carried) /\ <<>> \in Seq(RunFrame)
  BY <1>1
<1>3. RunTyped
  <2>1. board \in Snapshots
    BY <1>1 DEF Snapshots, MayTest, RunPhases
  <2>2. memory \in Memories
    BY <1>1 DEF Started, Memories, MayTest
  <2>3. tests \in [TestIds -> TestRows] /\ command \in Commands
    BY <1>1, NoRowYet DEF Commands, NoOne
  <2>4. conn \in [up : BOOLEAN, notice : BOOLEAN]
    BY <1>1
  <2>5. QED BY <1>1, <1>2, <2>1, <2>2, <2>3, <2>4, MeasurementAssumption DEF RunTyped
<1>4. Spoken
  BY <1>1, <1>2 DEF Spoken, Started
<1>5. BoardTrue /\ SamplesTrue /\ RunsOnce
  BY <1>1, <1>2 DEF BoardTrue, SamplesTrue, RunsOnce, Run
<1>6. \A t \in TestIds : tests[t] = NoTestRow
  BY <1>1
<1>7. StartOnce
  <2>1. "t1" \in TestIds /\ tests["t1"].phase = "none"
    BY <1>6 DEF TestIds, NoTestRow
  <2>2. ~Refusal
    BY <1>1, <1>2 DEF Refusal, NoOne
  <2>3. board.test # "t1" /\ command # [kind |-> "start", at |-> "archived"]
    BY <1>1 DEF NoTest, NoOne
  <2>4. QED BY <1>1, <1>2, <2>1, <2>2, <2>3 DEF StartOnce
<1>8. ClosedFor /\ RowsThere
  BY <1>1, <1>6 DEF ClosedFor, RowsThere, NoTestRow
<1>9. ASSUME NEW t \in TestIds PROVE WholeSoFar(t)
  <2>1. Kept(t) = {} /\ tests[t].cursor = NoCursor /\ tests[t].integrity = "unknown"
    BY <1>1, <1>6, NoRowYet DEF Kept
  <2>2. OnePiece(t) /\ ToMeasure(t)
    BY <2>1 DEF OnePiece, ToMeasure, NoCursor
  <2>3. QED BY <2>1, <2>2 DEF WholeSoFar
<1>10. QED BY <1>3, <1>4, <1>5, <1>7, <1>8, <1>9 DEF RecordingInv

LEMMA RecordingStep == RecordingInv /\ [MeasurementNext]_mRunVars => RecordingInv'
<1> SUFFICES ASSUME RecordingInv, [MeasurementNext]_mRunVars PROVE RecordingInv'
  OBVIOUS
<1>1. RunTyped /\ Spoken /\ BoardTrue /\ SamplesTrue /\ RunsOnce /\ StartOnce /\ ClosedFor /\ RowsThere
      /\ \A t \in TestIds : WholeSoFar(t)
  BY DEF RecordingInv
<1>2. RunTyped' /\ Spoken' /\ RowsThere'
  BY <1>1, RunTypedStep
<1>3. BoardTrue' /\ SamplesTrue' /\ RunsOnce'
  BY <1>1, SamplesStep, RunsOnceStep
<1>4. StartOnce' /\ ClosedFor'
  BY <1>1, StartOnceStep, ClosedForStep
<1>5. \A t \in TestIds : WholeSoFar(t)'
  BY <1>1, WholeStep
<1>6. QED BY <1>2, <1>3, <1>4, <1>5 DEF RecordingInv

LEMMA RecordingKept == MeasurementSpec => []RecordingInv
BY InitRecording, RecordingStep, PTL DEF MeasurementSpec

(* A session the backend has closed by itself, as completed or as refused*)
(* by the board, is never the run of the board: for queues of any length *)
(* and any number of samples, boots and faults.                          *)
THEOREM ClosedIsOver == MeasurementSpec => []EndedIsOver
<1>1. RecordingInv => EndedIsOver
  <2> SUFFICES ASSUME RecordingInv, NEW t \in TestIds, tests[t].phase \in {"completed", "start_rejected"}
               PROVE  ~Running(t) /\ ~(t = "t1" /\ flying = "start")
    BY DEF EndedIsOver, Running
  <2>1. CASE tests[t].phase = "completed"
    <3>1. PICK n \in 1..Len(taken) : taken[n].test = t /\ taken[n].phase = "safe"
      BY <2>1 DEF RecordingInv, ClosedFor
    <3>2. ~Running(t)
      BY <3>1 DEF RecordingInv, RunsOnce
    <3>3. QED BY <2>1, <3>2 DEF RecordingInv, StartOnce, Unsent
  <2>2. CASE tests[t].phase = "start_rejected"
    <3>1. t = "t1"
      BY <2>2 DEF RecordingInv, ClosedFor
    <3>2. QED BY <2>2, <3>1 DEF RecordingInv, StartOnce, Unsent, Running
  <2>3. QED BY <2>1, <2>2
<1>2. QED BY <1>1, RecordingKept, PTL

(* A session called complete has the measurement whole, every sample of  *)
(* it, in one piece and of one boot of the board.                        *)
THEOREM CompleteRunsAreWhole == MeasurementSpec => []CompleteIsWhole
<1>1. RecordingInv => CompleteIsWhole
  <2> SUFFICES ASSUME RecordingInv, NEW t \in TestIds, tests[t].integrity = "complete"
               PROVE  \E first, last \in 1..Len(taken) :
                        /\ taken[first].phase = "low" /\ taken[last].over
                        /\ \A n \in first..last : /\ <<t, n>> \in stored /\ taken[n].test = t
                                                  /\ taken[n].boot = taken[first].boot
                        /\ \A n \in 1..Len(taken) : <<t, n>> \in stored => n >= first \/ taken[n].test = t
    BY DEF CompleteIsWhole
  <2>1. WholeSoFar(t) /\ RunTyped
    BY DEF RecordingInv
  <2>2. OnePiece(t) /\ FromLowToEnd(t)
    BY <2>1 DEF WholeSoFar
  <2>3. PICK k, l \in Kept(t) : k <= l /\ taken[k].phase = "low" /\ taken[l].over
    BY <2>2 DEF FromLowToEnd
  <2> DEFINE c == tests[t].cursor
  <2>4. /\ \A n \in Kept(t) : /\ n <= c.n /\ n..c.n \subseteq Kept(t)
                              /\ taken[n].test = t /\ taken[n].boot = taken[c.n].boot
        /\ c.n \in Nat /\ Kept(t) \subseteq 1..Len(taken) /\ Kept(t) \subseteq Nat
    BY <2>1, <2>2, KeptTyped DEF OnePiece, RunTyped, TestRows, Cursors
  <2> HIDE DEF c
  <2>5. \A n \in k..l : n \in Kept(t)
    <3>1. k..l \subseteq k..c.n
      BY <2>4
    <3>2. QED BY <2>4, <3>1
  <2>6. \A n \in k..l : <<t, n>> \in stored /\ taken[n].test = t /\ taken[n].boot = taken[k].boot
    BY <2>4, <2>5 DEF Kept
  <2>7. \A n \in 1..Len(taken) : <<t, n>> \in stored => taken[n].test = t
    BY <2>4 DEF Kept
  <2>8. k \in 1..Len(taken) /\ l \in 1..Len(taken)
    BY <2>4
  <2>9. QED BY <2>3, <2>6, <2>7, <2>8
<1>2. QED BY <1>1, RecordingKept, PTL

(* The state of the recording stays what it is declared to be.           *)
THEOREM RecordingTyped == MeasurementSpec => []MeasurementTypeOK
<1>1. RecordingInv => MeasurementTypeOK
  <2> SUFFICES ASSUME RecordingInv PROVE MeasurementTypeOK
    OBVIOUS
  <2>1. RunTyped /\ Spoken
    BY DEF RecordingInv
  <2>2. /\ board.phase \in {"idle", "low", "high", "cooling", "safe"}
        /\ board.test \in TestIds \cup {NoTest}
    BY <2>1 DEF RunTyped, Snapshots, RunPhases, MayTest
  <2>3. Len(frames) <= QueueSize /\ (atWork # NoWork => frames # <<>>)
    BY <2>1 DEF RunTyped
  <2>4. memory.active \in TestIds \cup {NoTest} /\ memory.last \in 0..Len(taken)
    BY <2>1 DEF RunTyped, Memories, MayTest, Spoken
  <2>5. stored \subseteq TestIds \X (1..Len(taken))
    BY <2>1 DEF RunTyped, Spoken
  <2>6. \A t \in TestIds : tests[t].integrity \in {"unknown", "incomplete", "complete"}
    BY <2>1 DEF RunTyped, TestRows
  <2>7. QED BY <2>2, <2>3, <2>4, <2>5, <2>6 DEF MeasurementTypeOK
<1>2. QED BY <1>1, RecordingKept, PTL

-----------------------------------------------------------------------------
(* Types.                                                                  *)

(* Only the connection there is has a reader; whoever opens is at a step.  *)
V1Bounded ==
  /\ chan \in ChanType /\ chan.n \in 0..chan.sessions
  /\ tasks = [reader |-> tasks.reader, beat |-> tasks.beat, missed |-> tasks.missed]
  /\ tasks.reader \in {0, chan.n} /\ tasks.missed \in 0..V1MaxMissed
  /\ opening \in OpeningType
  /\ timer \in {"none", "sleeping", "opening", "done"}
  /\ losing \in {"nobody", "reader", "heartbeat", "caller"}
  /\ mishaps \in 0..V1MaxFaults

LEMMA TornBounded ==
  ASSUME V1Bounded, NEW q \in {"offline", "degraded", "online"}, Torn(q)
  PROVE  /\ chan' \in ChanType /\ chan'.n \in 0..chan'.sessions
         /\ tasks' = [reader |-> 0, beat |-> FALSE, missed |-> 0] /\ 0 \in 0..V1MaxMissed
<1>1. chan \in ChanType
  BY DEF V1Bounded
<1>2. /\ chan' \in ChanType /\ chan'.n = 0 /\ chan'.sessions \in Nat
  BY <1>1 DEF Torn, ChanType
<1>3. QED BY <1>2, V1Assumption DEF Torn

LEMMA OpenerBounded ==
  ASSUME V1Bounded, Dialled \/ Unreachable \/ HelloTimesOut \/ Negotiated \/ Refused \/ Reconnect
  PROVE  V1Bounded'
<1>1. chan.sessions \in Nat /\ mishaps \in Nat /\ V1MaxFaults \in Nat /\ 0 \in 0..V1MaxMissed
  BY V1Assumption DEF V1Bounded, ChanType
<1>2. CASE Dialled
  <2>1. chan' \in ChanType /\ chan'.n = chan.sessions + 1 /\ chan'.sessions = chan.sessions + 1
    <3>1. chan \in ChanType /\ chan.sessions + 1 \in Nat
      BY <1>1 DEF V1Bounded
    <3>2. chan' = [chan EXCEPT !.n = chan.sessions + 1, !.sessions = chan.sessions + 1,
                               !.connected = TRUE]
      BY <1>2 DEF Dialled
    <3>3. QED BY <3>1, <3>2 DEF ChanType
  <2>2. opening' \in OpeningType
    BY <1>2 DEF Dialled, V1Bounded, OpeningType
  <2>3. tasks' = [reader |-> chan.sessions + 1, beat |-> tasks.beat, missed |-> tasks.missed]
    BY <1>2 DEF Dialled, V1Bounded
  <2>4. UNCHANGED <<timer, losing, mishaps>>
    BY <1>2 DEF Dialled
  <2>5. QED BY <1>1, <2>1, <2>2, <2>3, <2>4 DEF V1Bounded
<1>3. CASE Unreachable \/ HelloTimesOut \/ Refused
  <2>1. mishaps' \in 0..V1MaxFaults /\ UNCHANGED <<chan, tasks, timer, losing>>
    BY <1>1, <1>3 DEF Unreachable, HelloTimesOut, Refused, Mishap
  <2>2. opening' \in OpeningType
    BY <1>3 DEF Unreachable, HelloTimesOut, Refused, V1Bounded, OpeningType
  <2>3. QED BY <2>1, <2>2 DEF V1Bounded
<1>4. CASE Negotiated
  <2>1. chan' \in ChanType /\ chan'.n = chan.n /\ chan'.sessions = chan.sessions
    BY <1>4 DEF Negotiated, V1Bounded, ChanType
  <2>2. tasks' = [reader |-> tasks.reader, beat |-> chan.connected, missed |-> 0]
    BY <1>4 DEF Negotiated, V1Bounded
  <2>3. opening' \in OpeningType /\ timer' \in {timer, "done"} /\ UNCHANGED <<losing, mishaps>>
    BY <1>4 DEF Negotiated, NotOpening, OpeningType
  <2>4. QED BY <1>1, <2>1, <2>2, <2>3 DEF V1Bounded
<1>5. CASE Reconnect
  <2>1. UNCHANGED <<chan, tasks, losing, mishaps>> /\ timer' = "opening" /\ opening' \in OpeningType
    BY <1>5 DEF Reconnect, OpeningType
  <2>2. QED BY <2>1 DEF V1Bounded
<1>6. QED BY <1>2, <1>3, <1>4, <1>5

LEMMA LossBounded ==
  ASSUME V1Bounded, \/ RollBack \/ Close \/ ReaderLost \/ HeartbeatLost \/ LinkLost
                    \/ \E c \in V1Callers : AskTimesOut(c)
  PROVE  V1Bounded'
<1>1. mishaps \in 0..V1MaxFaults /\ V1MaxFaults \in Nat /\ chan.quality \in {"offline", "degraded", "online"}
  BY V1Assumption DEF V1Bounded, ChanType
<1>2. CASE RollBack
  <2>1. \E q \in {"offline", "degraded", "online"} : Torn(q)
    BY <1>1, <1>2 DEF RollBack
  <2>2. /\ opening' \in OpeningType /\ timer' \in {timer, "sleeping"} /\ UNCHANGED <<losing, mishaps>>
    BY <1>2 DEF RollBack, OpeningType, NotOpening
  <2>3. QED BY <2>1, <2>2, TornBounded DEF V1Bounded
<1>3. CASE Close
  <2>1. \E q \in {"offline", "degraded", "online"} : Torn(q)
    BY <1>3 DEF Close
  <2>2. /\ opening' \in OpeningType /\ timer' = "none" /\ UNCHANGED <<losing, mishaps>>
    BY <1>3 DEF Close, OpeningType, NotOpening
  <2>3. QED BY <2>1, <2>2, TornBounded DEF V1Bounded
<1>4. CASE ReaderLost \/ HeartbeatLost
  <2>1. Torn(chan.quality) /\ losing' \in {"reader", "heartbeat"}
    BY <1>4 DEF ReaderLost, HeartbeatLost, LosingBegins
  <2>2. UNCHANGED <<opening, timer, mishaps>>
    BY <1>4 DEF ReaderLost, HeartbeatLost
  <2>3. QED BY <1>1, <2>1, <2>2, TornBounded DEF V1Bounded
<1>5. CASE LinkLost
  <2>1. chan' \in ChanType /\ chan'.n = chan.n /\ chan'.sessions = chan.sessions
    BY <1>5 DEF LinkLost, V1Bounded, ChanType
  <2>2. opening' \in OpeningType
    BY <1>5 DEF LinkLost, HelloFails, V1Bounded, OpeningType
  <2>3. timer' \in {timer, "sleeping"} /\ losing' = "nobody" /\ UNCHANGED <<tasks, mishaps>>
    BY <1>5 DEF LinkLost, Rearmed
  <2>4. QED BY <2>1, <2>2, <2>3 DEF V1Bounded
<1>6. ASSUME NEW c \in V1Callers, AskTimesOut(c) PROVE V1Bounded'
  <2>1. UNCHANGED <<opening, timer>> /\ mishaps' \in 0..V1MaxFaults
    BY <1>1, <1>6 DEF AskTimesOut, Mishap
  <2>2. CASE LosingBegins("caller")
    BY <1>1, <2>1, <2>2, TornBounded DEF LosingBegins, V1Bounded
  <2>3. CASE UNCHANGED <<chan, tasks, losing>>
    BY <2>1, <2>3 DEF V1Bounded
  <2>4. QED BY <1>6, <2>2, <2>3 DEF AskTimesOut, ChangeSession
<1>7. QED BY <1>2, <1>3, <1>4, <1>5, <1>6

LEMMA CalmBounded ==
  ASSUME V1Bounded, \/ Beat \/ HeartbeatAcked \/ Handle \/ Break \/ DispatchFrame \/ UNCHANGED v1Vars
                    \/ \E c \in V1Callers : Ask(c) \/ Command(c) \/ CommandTimesOut(c) \/ Return(c)
  PROVE  V1Bounded'
<1>1. mishaps \in 0..V1MaxFaults /\ V1MaxFaults \in Nat /\ tasks.missed \in Nat /\ V1MaxMissed \in Nat
  BY V1Assumption DEF V1Bounded
<1>2. CASE Beat \/ HeartbeatAcked
  <2>1. chan' \in ChanType /\ chan'.n = chan.n /\ chan'.sessions = chan.sessions
    BY <1>2 DEF Beat, HeartbeatAcked, V1Bounded, ChanType
  <2>2. /\ tasks' = [reader |-> tasks.reader, beat |-> tasks.beat, missed |-> tasks'.missed]
        /\ tasks'.missed \in 0..V1MaxMissed
    BY <1>1, <1>2 DEF Beat, HeartbeatAcked, V1Bounded
  <2>3. mishaps' \in 0..V1MaxFaults /\ UNCHANGED <<opening, timer, losing>>
    BY <1>1, <1>2 DEF Beat, HeartbeatAcked, Mishap
  <2>4. QED BY <2>1, <2>2, <2>3 DEF V1Bounded
<1>3. CASE DispatchFrame
  <2>1. opening' \in OpeningType /\ UNCHANGED <<chan, tasks, timer, losing, mishaps>>
    BY <1>3 DEF DispatchFrame, V1Bounded, OpeningType
  <2>2. QED BY <2>1 DEF V1Bounded
<1>4. CASE \/ Handle \/ Break \/ UNCHANGED v1Vars
           \/ \E c \in V1Callers : Ask(c) \/ Command(c) \/ CommandTimesOut(c) \/ Return(c)
  <2>1. mishaps' \in 0..V1MaxFaults /\ UNCHANGED <<chan, tasks, opening, timer, losing>>
    BY <1>1, <1>4 DEF Handle, Break, Ask, Command, Written, CommandTimesOut, Return, Mishap,
       v1Conn, v1Vars
  <2>2. QED BY <2>1 DEF V1Bounded
<1>5. QED BY <1>2, <1>3, <1>4

(* However often the link is lost and by whom it is noticed: the reader    *)
(* there is reads the connection there is, no more heartbeats are missed   *)
(* than the limit, and opening, timer and teardown are at a step of theirs.*)
THEOREM V1TypeSafe == V1Spec => []V1TypeOK
<1>1. V1Init => V1Bounded
  BY V1Assumption DEF V1Init, V1Bounded, ChanType, OpeningType
<1>2. V1Bounded /\ [V1Next]_v1Vars => V1Bounded'
  BY OpenerBounded, LossBounded, CalmBounded DEF V1Next
<1>3. V1Bounded => V1TypeOK
  BY DEF V1Bounded, V1TypeOK, ChanType, OpeningType
<1>4. QED BY <1>1, <1>2, <1>3, PTL DEF V1Spec
=============================================================================
