------------------------ MODULE HttpOperationsProofs ------------------------
(***************************************************************************)
(* What run_operation, the command guards, the start archive and the       *)
(* control ownership promise, for any requests posted in any number; and,  *)
(* at the end, what the maintenance gate below them promises.              *)
(***************************************************************************)
EXTENDS MaintenanceGate, HttpOperations, FiniteSetTheorems, TLAPS

-----------------------------------------------------------------------------
(* Rows and requests.                                                      *)

Steps    == {"idle", "insert", "begun", "allowed", "reserved", "owned", "archived", "marked", "leasing",
             "issued", "answered", "recorded", "ended", "failing", "refused"}
Stages   == {"pending", "sent", "accepted", "rejected"}
Statuses == Stages \cup {"verified", "unknown"}
Results  == {"absent", "sent", "unknown", "not_found", "applied", "rejected"}
Fates    == {"none", "flying", "acted", "refused", "lost"}
(* The tests with a session: experiments of the host, and histories.       *)
Sessions == Tests \cup Histories

TaskType == [pc : Steps, stage : Stages]
RowType  == [posted : {Posted(r) : r \in HttpRequests}, status : Statuses, done : BOOLEAN]
WireType == [lease : Results, biz : Results, run : Sessions \cup {None}, reconciled : BOOLEAN]

RowsTyped ==
  /\ DOMAIN tasks \subseteq HttpRequests /\ tasks \in [DOMAIN tasks -> TaskType]
  /\ DOMAIN rows \subseteq Ops /\ rows \in [DOMAIN rows -> RowType]
  /\ wire \in [Ops -> WireType] /\ fate \in [Ops -> Fates]
  /\ furnace \in [run : Sessions \cup {None}, recipe : Ops \cup {None}, ended : SUBSET Sessions]

(* From its row on, a request has the row under its operation_id to itself. *)
Begun(r) == tasks[r].pc \notin {"idle", "insert"}
Recorded(r) == Begun(r) => r.op \in DOMAIN rows /\ rows[r.op].posted = Posted(r)
OwnRow(r, q) == Begun(r) /\ Begun(q) /\ r.op = q.op => r = q

(* One request to a guard, and control with the request under the guard.    *)
Exclusive(r, q) == Running(r) /\ Running(q) /\ Priority(r) = Priority(q) => r = q
OwnsControl(r) ==
  ~Priority(r) /\ tasks[r].pc \in {"owned", "archived", "marked", "leasing"} => owner = r.user

RequestsKept ==
  /\ RowsTyped
  /\ \A r \in DOMAIN tasks : Recorded(r) /\ OwnsControl(r)
  /\ \A r, q \in DOMAIN tasks : OwnRow(r, q) /\ Exclusive(r, q)

LEMMA RequestTyped ==
  ASSUME RowsTyped, NEW r \in DOMAIN tasks
  PROVE  /\ r \in HttpRequests /\ r.op \in Ops /\ r.test \in Tests /\ r.user \in Users
         /\ r.kind \in {"start", "stop", "set"} /\ tasks[r] \in TaskType
BY HttpAssumption DEF RowsTyped, Ops, Tests, Users

LEMMA RequestsInit == HttpInit => RequestsKept
<1> SUFFICES ASSUME HttpInit PROVE RequestsKept
  OBVIOUS
<1>1. PICK posts \in HttpScenarios : tasks = [r \in posts |-> [pc |-> "idle", stage |-> "pending"]]
  BY DEF HttpInit
<1>2. DOMAIN tasks \subseteq HttpRequests /\ tasks \in [DOMAIN tasks -> TaskType]
  <2>1. DOMAIN tasks = posts /\ posts \subseteq HttpRequests
    BY <1>1 DEF HttpRequests
  <2>2. [pc |-> "idle", stage |-> "pending"] \in TaskType
    BY DEF TaskType, Steps, Stages
  <2>3. QED BY <1>1, <2>1, <2>2
<1>3. DOMAIN rows = {} /\ rows \in [DOMAIN rows -> RowType]
  BY DEF HttpInit
<1>4. wire \in [Ops -> WireType] /\ fate \in [Ops -> Fates]
  <2>1. NoWire \in WireType
    BY DEF NoWire, WireType, Results
  <2>2. QED BY <2>1 DEF HttpInit, Fates
<1>5. furnace \in [run : Sessions \cup {None}, recipe : Ops \cup {None}, ended : SUBSET Sessions]
  BY DEF HttpInit, Sessions
<1>6. RowsTyped
  BY <1>2, <1>3, <1>4, <1>5 DEF RowsTyped
<1>7. \A r \in DOMAIN tasks : tasks[r].pc = "idle"
  BY <1>1
<1>8. QED BY <1>6, <1>7 DEF RequestsKept, Recorded, OwnsControl, OwnRow, Exclusive, Begun, Running

-----------------------------------------------------------------------------
(* What one step of a request does to requests, rows and owner.            *)

Only(r) ==
  /\ DOMAIN tasks' = DOMAIN tasks /\ tasks' \in [DOMAIN tasks -> TaskType]
  /\ \A q \in DOMAIN tasks : q # r => tasks'[q] = tasks[q]
RowsStay ==
  /\ DOMAIN rows \subseteq DOMAIN rows'
  /\ \A o \in DOMAIN rows : rows'[o].posted = rows[o].posted
Controls(r) == tasks[r].pc \in {"owned", "archived", "marked", "leasing"}

RequestStep(r) ==
  /\ Only(r) /\ RowsStay /\ RowsTyped'
  /\ Begun(r)' => \/ Begun(r)
                  \/ /\ r.op \notin DOMAIN rows
                     /\ r.op \in DOMAIN rows' /\ rows'[r.op].posted = Posted(r)
  /\ Running(r)' => Running(r) \/ Admitted(r)
  /\ ~Priority(r) /\ Controls(r)' => owner' = r.user \/ (owner' = owner /\ Controls(r))
  /\ owner' # owner => ~Priority(r) /\ Running(r)

LEMMA GotoOnly ==
  ASSUME RowsTyped, NEW r \in DOMAIN tasks, NEW pc \in Steps, Goto(r, pc)
  PROVE  Only(r) /\ tasks'[r].pc = pc /\ tasks'[r].stage = tasks[r].stage
BY DEF RowsTyped, TaskType, Goto, Only

LEMMA WrittenKeeps ==
  ASSUME RowsTyped, NEW r, NEW status \in Statuses, NEW done \in BOOLEAN, Written(r, status, done)
  PROVE  DOMAIN rows' = DOMAIN rows /\ rows' \in [DOMAIN rows -> RowType] /\ RowsStay
BY DEF RowsTyped, RowType, Written, RowsStay

(* A step that stays within the request, and leaves owner and rows alone    *)
LEMMA QuietStep ==
  ASSUME RequestsKept, NEW r \in DOMAIN tasks, RowsTyped', Only(r), RowsStay, owner' = owner,
         Begun(r), Controls(r)' => Controls(r)
  PROVE  RequestStep(r)
BY DEF RequestStep, Begun, Running

LEMMA LookUpStep ==
  ASSUME RequestsKept, NEW r \in DOMAIN tasks, LookUp(r) PROVE RequestStep(r)
<1>1. Only(r) /\ tasks'[r].pc = "insert"
  BY GotoOnly DEF RequestsKept, LookUp, Steps
<1>2. UNCHANGED <<rows, owner, wire, fate, furnace>> /\ Admitted(r)
  BY DEF LookUp, tables, board
<1>3. RowsTyped' /\ RowsStay
  BY <1>1, <1>2 DEF RequestsKept, RowsTyped, Only, RowsStay
<1>4. QED BY <1>1, <1>2, <1>3 DEF RequestStep, Begun, Controls

LEMMA InsertStep ==
  ASSUME RequestsKept, NEW r \in DOMAIN tasks, Insert(r) PROVE RequestStep(r)
<1>1. UNCHANGED <<owner, wire, fate, furnace>> /\ Running(r)
  BY DEF Insert, board, At, Running
<1>2. CASE r.op \in DOMAIN rows
  <2>1. Only(r) /\ tasks'[r].pc = "idle" /\ rows' = rows
    BY <1>2, GotoOnly DEF RequestsKept, Insert, Steps
  <2>2. RowsTyped' /\ RowsStay
    BY <1>1, <2>1 DEF RequestsKept, RowsTyped, Only, RowsStay
  <2>3. QED BY <1>1, <2>1, <2>2 DEF RequestStep, Begun, Controls
<1>3. CASE r.op \notin DOMAIN rows
  <2>1. tasks' = [tasks EXCEPT ![r] = [pc |-> "begun", stage |-> "pending"]]
        /\ rows' = RowAdded(rows, r.op, NewRow(r))
    BY <1>3 DEF Insert
  <2>2. [pc |-> "begun", stage |-> "pending"] \in TaskType
    BY DEF TaskType, Steps, Stages
  <2>3. Only(r) /\ tasks'[r].pc = "begun"
    BY <2>1, <2>2 DEF RequestsKept, RowsTyped, Only
  <2>4. NewRow(r) \in RowType /\ NewRow(r).posted = Posted(r)
    BY RequestTyped DEF RequestsKept, NewRow, RowType, Statuses, Stages
  <2>5. /\ DOMAIN rows' = DOMAIN rows \cup {r.op} /\ rows'[r.op] = NewRow(r)
        /\ \A o \in DOMAIN rows : rows'[o] = rows[o]
        /\ rows' \in [DOMAIN rows' -> RowType]
    BY <1>3, <2>1, <2>4 DEF RowAdded, RequestsKept, RowsTyped
  <2>6. RowsTyped' /\ RowsStay
    BY <1>1, <2>3, <2>5, RequestTyped DEF RequestsKept, RowsTyped, Only, RowsStay
  <2>7. QED BY <1>1, <1>3, <2>3, <2>4, <2>5, <2>6 DEF RequestStep, Begun, Controls
<1>4. QED BY <1>2, <1>3

LEMMA RefreshedTyped ==
  ASSUME RowsTyped, NEW o \in Ops, NEW said \in LeaseAnswers
  PROVE  Refreshed(wire[o], o, said) \in WireType
<1>1. PICK w : w = wire[o]
  OBVIOUS
<1>2. w \in WireType
  BY <1>1 DEF RowsTyped
<1>3. DeviceSays(o) \in Results /\ said \in Results
  BY DEF DeviceSays, Results, LeaseAnswers
<1>4. QED BY <1>1, <1>2, <1>3 DEF Refreshed, WireType

LEMMA PreflightStep ==
  ASSUME RequestsKept, NEW r \in DOMAIN tasks, Preflight(r) PROVE RequestStep(r)
<1>1. Only(r) /\ tasks'[r].pc \in {"allowed", "refused"} /\ Begun(r)
  BY GotoOnly DEF RequestsKept, Preflight, At, Begun, Steps
<1>2. UNCHANGED <<rows, owner, fate, furnace>>
  BY DEF Preflight, tables, board
<1>3. wire' \in [Ops -> WireType]
  BY RefreshedTyped DEF Preflight, RequestsKept, RowsTyped
<1>4. RowsTyped' /\ RowsStay
  BY <1>1, <1>2, <1>3 DEF RequestsKept, RowsTyped, Only, RowsStay
<1>5. QED BY <1>1, <1>2, <1>4, QuietStep DEF Controls

LEMMA ReserveStep ==
  ASSUME RequestsKept, NEW r \in DOMAIN tasks, Reserve(r) PROVE RequestStep(r)
<1>1. Only(r) /\ tasks'[r].pc \in {"reserved", "refused"} /\ Begun(r)
  BY GotoOnly DEF RequestsKept, Reserve, At, Begun, Steps
<1>2. UNCHANGED <<rows, owner, wire, fate, furnace>>
  BY DEF Reserve, tables, board
<1>3. RowsTyped' /\ RowsStay
  BY <1>1, <1>2 DEF RequestsKept, RowsTyped, Only, RowsStay
<1>4. QED BY <1>1, <1>2, <1>3, QuietStep DEF Controls

LEMMA TakeControlStep ==
  ASSUME RequestsKept, NEW r \in DOMAIN tasks, TakeControl(r) PROVE RequestStep(r)
<1>1. Only(r) /\ tasks'[r].pc \in {"owned", "failing", "refused"} /\ Begun(r) /\ Running(r)
  BY GotoOnly DEF RequestsKept, TakeControl, Begun, Running, Steps
<1>2. UNCHANGED <<rows, wire, fate, furnace>> /\ ~Priority(r)
  BY DEF TakeControl, board, Priority
<1>3. RowsTyped' /\ RowsStay
  BY <1>1, <1>2 DEF RequestsKept, RowsTyped, Only, RowsStay
<1>4. Controls(r)' => owner' = r.user
  BY GotoOnly DEF RequestsKept, TakeControl, Controls, Steps
<1>5. QED BY <1>1, <1>2, <1>3, <1>4 DEF RequestStep

LEMMA ArchiveStep ==
  ASSUME RequestsKept, NEW r \in DOMAIN tasks, Archive(r) PROVE RequestStep(r)
<1>1. Only(r) /\ tasks'[r].pc = "archived" /\ Begun(r) /\ Controls(r)
  BY GotoOnly DEF RequestsKept, Archive, At, Begun, Controls, Steps
<1>2. UNCHANGED <<rows, owner, wire, fate, furnace>>
  BY DEF Archive, board
<1>3. RowsTyped' /\ RowsStay
  BY <1>1, <1>2 DEF RequestsKept, RowsTyped, Only, RowsStay
<1>4. QED BY <1>1, <1>2, <1>3, QuietStep

(* A stop needs no owner, and needs none either once it is marked.          *)
LEMMA MarkedSentStep ==
  ASSUME RequestsKept, NEW r \in DOMAIN tasks, MarkedSent(r) PROVE RequestStep(r)
<1>1. tasks' = [tasks EXCEPT ![r] = [pc |-> "marked", stage |-> "sent"]]
      /\ [pc |-> "marked", stage |-> "sent"] \in TaskType
  BY DEF MarkedSent, TaskType, Steps, Stages
<1>2. Only(r) /\ tasks'[r].pc = "marked"
  BY <1>1 DEF RequestsKept, RowsTyped, Only
<1>3. Begun(r) /\ Running(r) /\ (Priority(r) \/ Controls(r))
  BY DEF MarkedSent, Begun, Running, Priority, Controls
<1>4. UNCHANGED <<owner, wire, fate, furnace>>
  BY DEF MarkedSent, board
<1>5. DOMAIN rows' = DOMAIN rows /\ rows' \in [DOMAIN rows -> RowType] /\ RowsStay
  BY WrittenKeeps DEF RequestsKept, MarkedSent, Statuses, Stages
<1>6. RowsTyped'
  BY <1>2, <1>4, <1>5 DEF RequestsKept, RowsTyped, Only
<1>7. QED BY <1>2, <1>3, <1>4, <1>5, <1>6 DEF RequestStep

LEMMA LeaseAskedStep ==
  ASSUME RequestsKept, NEW r \in DOMAIN tasks, LeaseAsked(r) PROVE RequestStep(r)
<1>1. Only(r) /\ tasks'[r].pc = "leasing" /\ Begun(r) /\ Controls(r)
  BY GotoOnly DEF RequestsKept, LeaseAsked, At, Begun, Controls, Steps
<1>2. UNCHANGED <<rows, owner, fate, furnace>>
  BY DEF LeaseAsked, tables, board
<1>3. wire' \in [Ops -> WireType]
  <2>1. wire' = [wire EXCEPT ![r.op] = [wire[r.op] EXCEPT !.lease = "sent"]]
    BY DEF LeaseAsked
  <2>2. wire \in [Ops -> WireType] /\ r.op \in Ops
    BY RequestTyped DEF RequestsKept, RowsTyped
  <2>3. [wire[r.op] EXCEPT !.lease = "sent"] \in WireType
    BY <2>2 DEF WireType, Results
  <2>4. QED BY <2>1, <2>2, <2>3
<1>4. RowsTyped' /\ RowsStay
  BY <1>1, <1>2, <1>3 DEF RequestsKept, RowsTyped, Only, RowsStay
<1>5. QED BY <1>1, <1>2, <1>4, QuietStep

LEMMA LeasedStep ==
  ASSUME RequestsKept, NEW r \in DOMAIN tasks, Leased(r) PROVE RequestStep(r)
<1>1. Only(r) /\ tasks'[r].pc \in {"marked", "failing"} /\ Begun(r) /\ Controls(r)
  BY GotoOnly DEF RequestsKept, Leased, At, Begun, Controls, Steps
<1>2. UNCHANGED <<rows, owner, fate, furnace>>
  BY DEF Leased, tables
<1>3. wire' \in [Ops -> WireType]
  <2>1. PICK said \in Results : wire' = [wire EXCEPT ![r.op] = [wire[r.op] EXCEPT !.lease = said]]
    BY DEF Leased, Results
  <2>2. wire \in [Ops -> WireType] /\ r.op \in Ops
    BY RequestTyped DEF RequestsKept, RowsTyped
  <2>3. [wire[r.op] EXCEPT !.lease = said] \in WireType
    BY <2>2 DEF WireType
  <2>4. QED BY <2>1, <2>2, <2>3
<1>4. RowsTyped' /\ RowsStay
  BY <1>1, <1>2, <1>3 DEF RequestsKept, RowsTyped, Only, RowsStay
<1>5. QED BY <1>1, <1>2, <1>4, QuietStep

LEMMA IssueStep ==
  ASSUME RequestsKept, NEW r \in DOMAIN tasks, Issue(r) PROVE RequestStep(r)
<1>1. Only(r) /\ tasks'[r].pc \in {"issued", "failing"} /\ Begun(r)
  BY GotoOnly DEF RequestsKept, Issue, At, Begun, Steps
<1>2. UNCHANGED <<rows, owner, furnace>>
  BY DEF Issue
<1>3. wire' \in [Ops -> WireType] /\ fate' \in [Ops -> Fates]
  BY DEF Issue, RequestsKept, RowsTyped, WireType, Results, Fates
<1>4. RowsTyped' /\ RowsStay
  BY <1>1, <1>2, <1>3 DEF RequestsKept, RowsTyped, Only, RowsStay
<1>5. QED BY <1>1, <1>2, <1>4, QuietStep DEF Controls

LEMMA AnsweredStep ==
  ASSUME RequestsKept, NEW r \in DOMAIN tasks, Answered(r) PROVE RequestStep(r)
<1>1. Only(r) /\ tasks'[r].pc \in {"answered", "failing"} /\ Begun(r)
  BY GotoOnly DEF RequestsKept, Answered, At, Begun, Steps
<1>2. UNCHANGED <<rows, owner, fate, furnace>>
  BY DEF Answered, tables, board
<1>3. wire' \in [Ops -> WireType]
  BY DEF Answered, RequestsKept, RowsTyped, WireType, Results, DeviceSays
<1>4. RowsTyped' /\ RowsStay
  BY <1>1, <1>2, <1>3 DEF RequestsKept, RowsTyped, Only, RowsStay
<1>5. QED BY <1>1, <1>2, <1>4, QuietStep DEF Controls

LEMMA ResultRecordedStep ==
  ASSUME RequestsKept, NEW r \in DOMAIN tasks, ResultRecorded(r) PROVE RequestStep(r)
<1> DEFINE status == IF wire[r.op].biz = "applied" THEN "accepted" ELSE "rejected"
<1>1. tasks' = [tasks EXCEPT ![r] = [pc |-> "recorded", stage |-> status]]
      /\ [pc |-> "recorded", stage |-> status] \in TaskType
  BY DEF ResultRecorded, TaskType, Steps, Stages
<1>2. Only(r) /\ tasks'[r].pc = "recorded" /\ Begun(r)
  BY <1>1 DEF RequestsKept, RowsTyped, Only, ResultRecorded, At, Begun
<1>3. UNCHANGED <<owner, wire, fate, furnace>>
  BY DEF ResultRecorded, board
<1>4. status \in Statuses /\ Written(r, status, FALSE)
  BY DEF ResultRecorded, Statuses, Stages
<1>5. DOMAIN rows' = DOMAIN rows /\ rows' \in [DOMAIN rows -> RowType] /\ RowsStay
  BY <1>4, WrittenKeeps DEF RequestsKept
<1>6. RowsTyped'
  BY <1>2, <1>3, <1>5 DEF RequestsKept, RowsTyped, Only
<1>7. QED BY <1>2, <1>3, <1>5, <1>6, QuietStep DEF Controls

LEMMA LifecycleStep ==
  ASSUME RequestsKept, NEW r \in DOMAIN tasks, Lifecycle(r) PROVE RequestStep(r)
<1>1. Goto(r, "ended") /\ Begun(r)
  BY DEF Lifecycle, At, Begun
<1>2. Only(r) /\ tasks'[r].pc = "ended"
  BY <1>1, GotoOnly DEF RequestsKept, Steps
<1>3. UNCHANGED <<rows, owner, wire, fate, furnace>>
  BY DEF Lifecycle, board
<1>4. RowsTyped' /\ RowsStay
  BY <1>2, <1>3 DEF RequestsKept, RowsTyped, Only, RowsStay
<1>5. QED BY <1>1, <1>2, <1>3, <1>4, QuietStep DEF Controls

LEMMA ReadBackStep ==
  ASSUME RequestsKept, NEW r \in DOMAIN tasks, ReadBack(r) PROVE RequestStep(r)
<1>1. Only(r) /\ tasks'[r].pc \in {"ended", "failing"} /\ Begun(r)
  BY GotoOnly DEF RequestsKept, ReadBack, At, Begun, Steps
<1>2. UNCHANGED <<rows, owner, wire, fate, furnace>>
  BY DEF ReadBack, tables, board
<1>3. RowsTyped' /\ RowsStay
  BY <1>1, <1>2 DEF RequestsKept, RowsTyped, Only, RowsStay
<1>4. QED BY <1>1, <1>2, <1>3, QuietStep DEF Controls

LEMMA FailedStep ==
  ASSUME RequestsKept, NEW r \in DOMAIN tasks, Failed(r) PROVE RequestStep(r)
<1>1. Only(r) /\ tasks'[r].pc = "refused" /\ Begun(r)
  BY GotoOnly DEF RequestsKept, Failed, At, Begun, Steps
<1>2. UNCHANGED <<rows, owner, wire, fate, furnace>>
  BY DEF Failed, board
<1>3. RowsTyped' /\ RowsStay
  BY <1>1, <1>2 DEF RequestsKept, RowsTyped, Only, RowsStay
<1>4. QED BY <1>1, <1>2, <1>3, QuietStep DEF Controls

LEMMA RaisedStep ==
  ASSUME RequestsKept, NEW r \in DOMAIN tasks, Raised(r) PROVE RequestStep(r)
<1>1. Only(r) /\ tasks'[r].pc \in {"idle", "refused", "failing"} /\ Running(r)
      /\ (Begun(r) \/ tasks'[r].pc = "idle")
  BY GotoOnly DEF RequestsKept, Raised, At, Begun, Running, Steps
<1>2. UNCHANGED <<rows, owner, wire, fate, furnace>>
  BY DEF Raised, tables, board
<1>3. RowsTyped' /\ RowsStay
  BY <1>1, <1>2 DEF RequestsKept, RowsTyped, Only, RowsStay
<1>4. QED BY <1>1, <1>2, <1>3 DEF RequestStep, Begun, Controls

LEMMA FinishOnly ==
  ASSUME RowsTyped, NEW r \in DOMAIN tasks, Finish(r)
  PROVE  Only(r) /\ tasks'[r].pc = "idle"
<1>1. [pc |-> "idle", stage |-> "pending"] \in TaskType
  BY DEF TaskType, Steps, Stages
<1>2. QED BY <1>1 DEF RowsTyped, Finish, Only

LEMMA ConcludeStep ==
  ASSUME RequestsKept, NEW r \in DOMAIN tasks, Conclude(r) PROVE RequestStep(r)
<1>1. Only(r) /\ tasks'[r].pc = "idle" /\ Begun(r)
  BY FinishOnly DEF RequestsKept, Conclude, At, Begun
<1>2. UNCHANGED <<owner, wire, fate, furnace>>
  BY DEF Conclude, board
<1>3. (IF r.kind = "set" THEN "verified" ELSE tasks[r].stage) \in Statuses
  BY DEF RequestsKept, RowsTyped, TaskType, Statuses
<1>4. DOMAIN rows' = DOMAIN rows /\ rows' \in [DOMAIN rows -> RowType] /\ RowsStay
  BY <1>3, WrittenKeeps DEF RequestsKept, Conclude
<1>5. RowsTyped'
  BY <1>1, <1>2, <1>4 DEF RequestsKept, RowsTyped, Only
<1>6. QED BY <1>1, <1>2, <1>4, <1>5, QuietStep DEF Controls

LEMMA RefusalRecordedStep ==
  ASSUME RequestsKept, NEW r \in DOMAIN tasks, RefusalRecorded(r) PROVE RequestStep(r)
<1>1. Only(r) /\ tasks'[r].pc = "idle" /\ Begun(r)
  BY FinishOnly DEF RequestsKept, RefusalRecorded, At, Begun
<1>2. UNCHANGED <<owner, wire, fate, furnace>>
  BY DEF RefusalRecorded, board
<1>3. rows[r.op].done \in BOOLEAN
  BY <1>1 DEF RequestsKept, Recorded, RowsTyped, RowType
<1>4. (IF tasks[r].stage \in {"sent", "accepted"} THEN "unknown" ELSE "rejected") \in Statuses
  BY DEF Statuses, Stages
<1>5. DOMAIN rows' = DOMAIN rows /\ rows' \in [DOMAIN rows -> RowType] /\ RowsStay
  <2>1. CASE UNCHANGED rows
    BY <2>1 DEF RequestsKept, RowsTyped, RowsStay
  <2>2. CASE ~UNCHANGED rows
    BY <1>3, <1>4, <2>2, WrittenKeeps DEF RequestsKept, RefusalRecorded
  <2>3. QED BY <2>1, <2>2
<1>6. RowsTyped'
  BY <1>1, <1>2, <1>5 DEF RequestsKept, RowsTyped, Only
<1>7. QED BY <1>1, <1>2, <1>5, <1>6, QuietStep DEF Controls

RequestAction(r) ==
  \/ LookUp(r) \/ Insert(r) \/ Preflight(r) \/ Reserve(r) \/ TakeControl(r) \/ Archive(r)
  \/ MarkedSent(r) \/ LeaseAsked(r) \/ Leased(r) \/ Issue(r) \/ Answered(r)
  \/ ResultRecorded(r) \/ Lifecycle(r) \/ ReadBack(r) \/ Conclude(r)
  \/ Raised(r) \/ Failed(r) \/ RefusalRecorded(r)

LEMMA RequestActionSteps ==
  ASSUME RequestsKept, NEW r \in DOMAIN tasks, RequestAction(r) PROVE RequestStep(r)
BY LookUpStep, InsertStep, PreflightStep, ReserveStep, TakeControlStep, ArchiveStep, MarkedSentStep,
   LeaseAskedStep, LeasedStep, IssueStep, AnsweredStep, ResultRecordedStep, LifecycleStep, ReadBackStep,
   ConcludeStep, RaisedStep, FailedStep, RefusalRecordedStep DEF RequestAction

-----------------------------------------------------------------------------
(* Such a step keeps every request's row and control.                      *)

LEMMA RequestStepKeeps ==
  ASSUME RequestsKept, NEW r \in DOMAIN tasks, RequestStep(r) PROVE RequestsKept'
<1>1. RowsTyped'
  BY DEF RequestStep
<1>2. DOMAIN tasks' = DOMAIN tasks /\ \A q \in DOMAIN tasks : q # r => tasks'[q] = tasks[q]
  BY DEF RequestStep, Only
<1>3. ASSUME NEW q \in DOMAIN tasks PROVE Recorded(q)'
  <2> SUFFICES ASSUME Begun(q)'
               PROVE  q.op \in DOMAIN rows' /\ rows'[q.op].posted = Posted(q)
    BY DEF Recorded, Posted
  <2>1. CASE Begun(q)
    BY <2>1 DEF RequestsKept, Recorded, RequestStep, RowsStay
  <2>2. CASE ~Begun(q)
    <3>1. q = r
      BY <1>2, <2>2 DEF Begun
    <3>2. QED BY <2>2, <3>1 DEF RequestStep
  <2>3. QED BY <2>1, <2>2
<1>4. ASSUME NEW p \in DOMAIN tasks, NEW q \in DOMAIN tasks PROVE OwnRow(p, q)'
  <2> SUFFICES ASSUME Begun(p)', Begun(q)', p.op = q.op PROVE p = q
    BY DEF OwnRow
  <2>1. ASSUME NEW s \in DOMAIN tasks, s # r, Begun(s)' PROVE Begun(s) /\ s.op \in DOMAIN rows
    BY <1>2, <2>1 DEF Begun, RequestsKept, Recorded
  <2>2. CASE Begun(r)
    BY <2>1, <2>2 DEF RequestsKept, OwnRow
  <2>3. CASE ~Begun(r)
    BY <2>1, <2>3 DEF RequestStep, RequestsKept, OwnRow
  <2>4. QED BY <2>2, <2>3
<1>5. ASSUME NEW p \in DOMAIN tasks, NEW q \in DOMAIN tasks PROVE Exclusive(p, q)'
  <2> SUFFICES ASSUME Running(p)', Running(q)', Priority(p) = Priority(q) PROVE p = q
    BY DEF Exclusive, Priority
  <2>1. ASSUME NEW s \in DOMAIN tasks, s # r, Running(s)' PROVE Running(s)
    BY <1>2, <2>1 DEF Running
  <2>2. CASE Running(r)
    BY <2>1, <2>2 DEF RequestsKept, Exclusive
  <2>3. CASE ~Running(r)
    BY <2>1, <2>3 DEF RequestStep, Admitted, RequestsKept, Exclusive
  <2>4. QED BY <2>2, <2>3
<1>6. ASSUME NEW q \in DOMAIN tasks PROVE OwnsControl(q)'
  <2> SUFFICES ASSUME ~Priority(q), Controls(q)' PROVE owner' = q.user
    BY DEF OwnsControl, Controls, Priority
  <2>1. CASE q = r
    BY <2>1 DEF RequestStep, RequestsKept, OwnsControl, Controls
  <2>2. CASE q # r
    <3>1. Controls(q) /\ Running(q)
      BY <1>2, <2>2 DEF Controls, Running
    <3>2. owner = q.user
      BY <3>1 DEF RequestsKept, OwnsControl, Controls
    <3>3. owner' = owner
      <4> SUFFICES ASSUME ~Priority(r), Running(r) PROVE FALSE
        BY DEF RequestStep
      <4>1. QED BY <2>2, <3>1 DEF RequestsKept, Exclusive, Priority
    <3>4. QED BY <3>2, <3>3
  <2>3. QED BY <2>1, <2>2
<1>7. QED BY <1>1, <1>2, <1>3, <1>4, <1>5, <1>6 DEF RequestsKept

-----------------------------------------------------------------------------
(* The steps beside the requests: device, queries, control, death.         *)

QueryTyped ==
  query = NoQuery \/ query \in [op : Ops, prerequisite : BOOLEAN, reconcile : BOOLEAN,
                                said : {None, "applied", "rejected", "not_found"}]
(* Nothing reaches the wire but by a request that has its row.             *)
FlownHaveRows == \A o \in Ops : fate[o] # "none" => o \in DOMAIN rows
HttpKept == RequestsKept /\ QueryTyped /\ FlownHaveRows

LEMMA AsideKeeps ==
  ASSUME RequestsKept, RowsTyped', tasks' = tasks, RowsStay, owner' = owner \/ OrdinaryFree
  PROVE  RequestsKept'
<1>1. ASSUME NEW r \in DOMAIN tasks PROVE Recorded(r)' /\ OwnsControl(r)'
  <2>1. Recorded(r)'
    BY DEF RequestsKept, Recorded, Begun, RowsStay, Posted
  <2>2. OwnsControl(r)'
    BY DEF RequestsKept, OwnsControl, OrdinaryFree, Running, Priority
  <2>3. QED BY <2>1, <2>2
<1>2. ASSUME NEW r \in DOMAIN tasks, NEW q \in DOMAIN tasks PROVE OwnRow(r, q)' /\ Exclusive(r, q)'
  BY DEF RequestsKept, OwnRow, Exclusive, Begun, Running, Priority
<1>3. QED BY <1>1, <1>2 DEF RequestsKept

LEMMA DeliverKeeps ==
  ASSUME RequestsKept, NEW o \in Ops, o \in DOMAIN rows, Deliver(o) PROVE RequestsKept'
<1>1. UNCHANGED <<tasks, rows, wire, owner>>
  BY DEF Deliver, web, tables
<1>2. fate' \in [Ops -> Fates]
  BY DEF Deliver, RequestsKept, RowsTyped, Fates
<1>3. rows[o].posted.test \in Tests
  <2>1. PICK r \in HttpRequests : rows[o].posted = Posted(r)
    BY DEF RequestsKept, RowsTyped, RowType
  <2>2. QED BY <2>1 DEF Posted, Tests
<1>4. furnace' \in [run : Sessions \cup {None}, recipe : Ops \cup {None}, ended : SUBSET Sessions]
  BY <1>3 DEF Deliver, RequestsKept, RowsTyped, Sessions
<1>5. RowsTyped' /\ RowsStay
  BY <1>1, <1>2, <1>4 DEF RequestsKept, RowsTyped, RowsStay
<1>6. QED BY <1>1, <1>5, AsideKeeps

LEMMA LoseKeeps == ASSUME RequestsKept, NEW o \in Ops, Lose(o) PROVE RequestsKept'
<1>1. UNCHANGED <<tasks, rows, wire, owner, furnace>>
  BY DEF Lose, web, tables
<1>2. RowsTyped' /\ RowsStay
  BY <1>1 DEF RequestsKept, RowsTyped, RowsStay, Lose, Fates
<1>3. QED BY <1>1, <1>2, AsideKeeps

LEMMA RunEndsKeeps == ASSUME RequestsKept, RunEnds PROVE RequestsKept'
<1>1. UNCHANGED <<tasks, rows, wire, owner, fate>>
  BY DEF RunEnds, web
<1>2. furnace' \in [run : Sessions \cup {None}, recipe : Ops \cup {None}, ended : SUBSET Sessions]
  BY DEF RunEnds, AtRest, RequestsKept, RowsTyped
<1>3. RowsTyped' /\ RowsStay
  BY <1>1, <1>2 DEF RequestsKept, RowsTyped, RowsStay
<1>4. QED BY <1>1, <1>3, AsideKeeps

LEMMA ControlKeeps ==
  ASSUME RequestsKept, ReleaseControl \/ \E u \in Users : Claim(u) PROVE RequestsKept'
<1>1. UNCHANGED <<tasks, rows, wire, fate, furnace>> /\ OrdinaryFree
  BY DEF ReleaseControl, Claim, web, board
<1>2. RowsTyped' /\ RowsStay
  BY <1>1 DEF RequestsKept, RowsTyped, RowsStay
<1>3. QED BY <1>1, <1>2, AsideKeeps

(* The review of a run the database does not know, beside the requests.    *)
Review(t) == BindHistory(t) \/ HistoryConflicts(t) \/ HistoryReplayed(t)

LEMMA ReviewKeeps == ASSUME RequestsKept, NEW t \in Histories, Review(t) PROVE RequestsKept'
<1>1. UNCHANGED <<tasks, rows, wire, owner, fate, furnace>>
  BY DEF Review, BindHistory, HistoryConflicts, HistoryReplayed, web, board
<1>2. RowsTyped' /\ RowsStay
  BY <1>1 DEF RequestsKept, RowsTyped, RowsStay
<1>3. QED BY <1>1, <1>2, AsideKeeps

LEMMA DeathKeeps == ASSUME HttpKept, BackendDies PROVE HttpKept'
<1>1. UNCHANGED <<owner, fate, furnace>> /\ query' = NoQuery
  BY DEF BackendDies
<1>2. tasks' = [r \in DOMAIN tasks |-> [pc |-> "idle", stage |-> "pending"]]
      /\ [pc |-> "idle", stage |-> "pending"] \in TaskType
  BY DEF BackendDies, TaskType, Steps, Stages
<1>3. DOMAIN rows' = DOMAIN rows /\ rows' \in [DOMAIN rows -> RowType]
  BY DEF HttpKept, BackendDies, RequestsKept, RowsTyped, RowType, Statuses
<1>4. wire' \in [Ops -> WireType]
  <2>1. ASSUME NEW o \in Ops
        PROVE  [wire[o] EXCEPT !.lease = IF @ = "sent" THEN "unknown" ELSE @,
                               !.biz = IF @ = "sent" THEN "unknown" ELSE @] \in WireType
    <3>1. PICK w : w = wire[o]
      OBVIOUS
    <3>2. w \in WireType
      BY <3>1 DEF HttpKept, RequestsKept, RowsTyped
    <3>3. QED BY <3>1, <3>2 DEF WireType, Results
  <2>2. QED BY <2>1 DEF BackendDies
<1>5. RowsTyped'
  BY <1>1, <1>2, <1>3, <1>4 DEF HttpKept, RequestsKept, RowsTyped
<1>6. \A r \in DOMAIN tasks' : tasks'[r].pc = "idle"
  BY <1>2
<1>7. RequestsKept'
  BY <1>5, <1>6 DEF RequestsKept, Recorded, OwnsControl, OwnRow, Exclusive, Begun, Running
<1>8. FlownHaveRows'
  BY <1>1, <1>3 DEF HttpKept, FlownHaveRows
<1>9. QED BY <1>1, <1>7, <1>8 DEF HttpKept, QueryTyped, NoQuery

LEMMA AskKeeps ==
  ASSUME HttpKept, NEW o \in Ops, NEW b \in BOOLEAN, AskDevice(o, b) PROVE HttpKept'
<1>1. UNCHANGED <<tasks, rows, wire, owner, fate, furnace>>
  BY DEF AskDevice, web, tables, board
<1>2. RowsTyped' /\ RowsStay
  BY <1>1 DEF HttpKept, RequestsKept, RowsTyped, RowsStay
<1>3. QueryTyped'
  BY DEF AskDevice, QueryTyped
<1>4. QED BY <1>1, <1>2, <1>3, AsideKeeps DEF HttpKept, FlownHaveRows

LEMMA QueriedTyped ==
  ASSUME NEW q, NEW w \in WireType, NEW said \in {"applied", "rejected", "not_found"}, NEW rests
  PROVE  Queried(q, w, said, rests) \in WireType
<1>1. said \in Results
  BY DEF Results
<1>2. CASE rests
  BY <1>1, <1>2 DEF Queried, WireType
<1>3. CASE ~rests
  BY <1>1, <1>3 DEF Queried, WireType
<1>4. QED BY <1>2, <1>3

LEMMA HearKeeps == ASSUME HttpKept, Hear PROVE HttpKept'
<1>1. UNCHANGED <<tasks, rows, owner, fate, furnace>>
  BY DEF Hear, web, tables, board
<1>2. query \in [op : Ops, prerequisite : BOOLEAN, reconcile : BOOLEAN,
                  said : {None, "applied", "rejected", "not_found"}]
  BY DEF HttpKept, QueryTyped, Hear, NoQuery, None
<1>3. Answers(query) \subseteq {"applied", "rejected", "not_found"}
  BY <1>2 DEF Answers, Settled, LeaseAnswers, DeviceSays
<1> DEFINE rests(said) == query.reconcile /\ said = "not_found" /\ AtRest
<1>4. PICK said \in Answers(query) :
        /\ query' = IF query.reconcile /\ ~rests(said) THEN NoQuery ELSE [query EXCEPT !.said = said]
        /\ wire' = [wire EXCEPT ![query.op] = Queried(query, @, said, rests(said))]
  BY DEF Hear
<1>5. QueryTyped'
  BY <1>2, <1>3, <1>4 DEF QueryTyped
<1>6. wire' \in [Ops -> WireType]
  <2>1. wire \in [Ops -> WireType] /\ query.op \in Ops /\ wire[query.op] \in WireType
    BY <1>2 DEF HttpKept, RequestsKept, RowsTyped
  <2>2. Queried(query, wire[query.op], said, rests(said)) \in WireType
    BY <1>2, <1>3, <1>4, <2>1, QueriedTyped
  <2>3. QED BY <1>4, <2>1, <2>2
<1>7. RowsTyped' /\ RowsStay
  BY <1>1, <1>6 DEF HttpKept, RequestsKept, RowsTyped, RowsStay
<1>8. QED BY <1>1, <1>5, <1>7, AsideKeeps DEF HttpKept, FlownHaveRows

LEMMA NotedRows ==
  ASSUME HttpKept, Noted
  PROVE  DOMAIN rows' = DOMAIN rows /\ rows' \in [DOMAIN rows -> RowType] /\ RowsStay
<1>1. Status(query) \in Statuses
  BY DEF Status, Statuses, Stages, HttpKept, QueryTyped, Noted, NoQuery, None
<1>2. QED BY <1>1 DEF Noted, HttpKept, RequestsKept, RowsTyped, RowType, RowsStay

LEMMA NotedKeeps == ASSUME HttpKept, Noted PROVE HttpKept'
<1>1. UNCHANGED <<tasks, wire, owner, fate, furnace>> /\ query' = NoQuery
  BY DEF Noted, web, board
<1>3. DOMAIN rows' = DOMAIN rows /\ rows' \in [DOMAIN rows -> RowType] /\ RowsStay
  BY NotedRows
<1>4. RowsTyped'
  BY <1>1, <1>3 DEF HttpKept, RequestsKept, RowsTyped
<1>5. QED BY <1>1, <1>3, <1>4, AsideKeeps DEF HttpKept, QueryTyped, NoQuery, FlownHaveRows

-----------------------------------------------------------------------------
(* The invariant                                                           *)

LEMMA HttpInitKept == HttpInit => HttpKept
BY RequestsInit DEF HttpInit, HttpKept, QueryTyped, FlownHaveRows

LEMMA RequestActionKeeps ==
  ASSUME HttpKept, NEW r \in DOMAIN tasks, RequestAction(r) PROVE HttpKept'
<1>1. RequestStep(r) /\ RequestsKept'
  BY RequestActionSteps, RequestStepKeeps DEF HttpKept
<1>2. query' = query
  BY DEF RequestAction, LookUp, Insert, Preflight, Reserve, TakeControl, Archive, MarkedSent,
       LeaseAsked,
         Leased, Issue, Answered, ResultRecorded, Lifecycle, ReadBack, Conclude, Raised, Failed,
         RefusalRecorded
<1>3. CASE Issue(r)
  <2>1. r.op \in DOMAIN rows
    BY <1>3 DEF HttpKept, RequestsKept, Recorded, Begun, Issue, At
  <2>2. FlownHaveRows'
    BY <1>1, <1>3, <2>1 DEF HttpKept, FlownHaveRows, Issue, RequestStep, RowsStay, RequestsKept,
         RowsTyped
  <2>3. QED BY <1>1, <1>2, <2>2 DEF HttpKept, QueryTyped
<1>4. CASE ~Issue(r)
  <2>1. fate' = fate
    BY <1>4 DEF RequestAction, LookUp, Insert, Preflight, Reserve, TakeControl, Archive, MarkedSent,
           LeaseAsked, Leased, Answered, ResultRecorded, Lifecycle, ReadBack, Conclude, Raised, Failed,
           RefusalRecorded, board
  <2>2. FlownHaveRows'
    BY <1>1, <2>1 DEF HttpKept, FlownHaveRows, RequestStep, RowsStay
  <2>3. QED BY <1>1, <1>2, <2>2 DEF HttpKept, QueryTyped
<1>5. QED BY <1>3, <1>4

LEMMA BesideKeepsFlown ==
  ASSUME HttpKept,
         \/ \E o \in Ops : Deliver(o) \/ Lose(o) \/ \E b \in BOOLEAN : AskDevice(o, b)
         \/ \E u \in Users : Claim(u)
         \/ \E t \in Histories : Review(t)
         \/ RunEnds \/ BackendDies \/ Hear \/ Noted \/ ReleaseControl
  PROVE  FlownHaveRows'
<1>1. DOMAIN rows' = DOMAIN rows
  BY DEF Deliver, Lose, AskDevice, Claim, RunEnds, BackendDies, Hear, Noted, ReleaseControl, tables,
       Review, BindHistory, HistoryConflicts, HistoryReplayed
<1>2. \A o \in Ops : fate'[o] # "none" => fate[o] # "none"
  BY DEF Deliver, Lose, AskDevice, Claim, RunEnds, BackendDies, Hear, Noted, ReleaseControl, board,
       Review, BindHistory, HistoryConflicts, HistoryReplayed, HttpKept, RequestsKept, RowsTyped
<1>3. QED BY <1>1, <1>2 DEF HttpKept, FlownHaveRows

LEMMA HttpNextKept == HttpKept /\ [HttpNext]_httpVars => HttpKept'
<1> SUFFICES ASSUME HttpKept, [HttpNext]_httpVars PROVE HttpKept'
  OBVIOUS
<1>1. CASE \E r \in DOMAIN tasks : RequestAction(r)
  BY <1>1, RequestActionKeeps
<1>2. CASE \E o \in Ops : Deliver(o) \/ Lose(o)
  <2>1. FlownHaveRows'
    BY <1>2, BesideKeepsFlown
  <2>2. query' = query
    BY <1>2 DEF Deliver, Lose
  <2>3. RequestsKept'
    BY <1>2, DeliverKeeps, LoseKeeps DEF HttpKept, FlownHaveRows, Deliver
  <2>4. QED BY <2>1, <2>2, <2>3 DEF HttpKept, QueryTyped
<1>3. CASE RunEnds \/ ReleaseControl \/ (\E u \in Users : Claim(u)) \/ \E t \in Histories : Review(t)
  <2>1. FlownHaveRows'
    BY <1>3, BesideKeepsFlown
  <2>2. query' = query
    BY <1>3 DEF RunEnds, ReleaseControl, Claim, Review, BindHistory, HistoryConflicts, HistoryReplayed
  <2>3. RequestsKept'
    BY <1>3, RunEndsKeeps, ControlKeeps, ReviewKeeps DEF HttpKept
  <2>4. QED BY <2>1, <2>2, <2>3 DEF HttpKept, QueryTyped
<1>4. CASE BackendDies \/ Hear \/ Noted \/ \E o \in Ops, b \in BOOLEAN : AskDevice(o, b)
  BY <1>4, DeathKeeps, HearKeeps, NotedKeeps, AskKeeps
<1>5. CASE UNCHANGED httpVars
  BY <1>5 DEF httpVars, HttpKept, RequestsKept, RowsTyped, QueryTyped, FlownHaveRows, Recorded,
       OwnsControl,
         OwnRow, Exclusive, Begun, Running, Posted
<1>6. QED BY <1>1, <1>2, <1>3, <1>4, <1>5 DEF HttpNext, RequestAction, Review

LEMMA HttpInvariant == HttpSpec => []HttpKept
BY HttpInitKept, HttpNextKept, PTL DEF HttpSpec

(* A command on the wire is the one its row records, however many requests *)
(* came under its operation_id: run_operation, INSERT before send.         *)
THEOREM IssuedIsRecorded == HttpSpec => []IssuedAsRecorded
<1>1. HttpKept => IssuedAsRecorded
  BY DEF HttpKept, RequestsKept, Recorded, Begun, IssuedAsRecorded
<1>2. QED BY <1>1, HttpInvariant, PTL

(* Control never changes hands under a start or a recipe: command_guard,   *)
(* assert_control_owner and the routes of api/routes/control.py.           *)
THEOREM OwnerOnly == HttpSpec => OwnerCommands
<1> DEFINE Owned == \A r \in DOMAIN tasks :
             At(r, "marked") /\ tasks'[r].pc = "issued" /\ ~Priority(r) => owner = r.user
<1>1. HttpKept /\ [HttpNext]_httpVars => [Owned]_tasks
  BY DEF HttpKept, RequestsKept, OwnsControl, At
<1>2. QED BY <1>1, HttpInvariant, PTL DEF HttpSpec, OwnerCommands

-----------------------------------------------------------------------------
(* What the sessions rest on: where each start stands with the device, and *)
(* what that says of the session of its test.                              *)

Starts(t) == {o \in DOMAIN rows : rows[o].posted.kind = "start" /\ rows[o].posted.test = t}
Flown(o)  == fate[o] # "none"
NoneOpen  == \A t \in Tests : ~Open(t)

(* The wire's rows say what became of their commands.                      *)
WireTrue ==
  /\ \A o \in Ops : Flown(o) => wire[o].biz # "absent"
  /\ \A o \in Ops : wire[o].biz = "rejected" => fate[o] = "refused"
  /\ \A o \in Ops : query.op = o /\ ~query.prerequisite
       /\ query.said = "rejected" => fate[o] = "refused"

(* One start of a test is ever sent; while it flies, or its run is under   *)
(* way, the session is open, and it is the only one.                       *)
StartsSound ==
  /\ DOMAIN sess \subseteq Sessions
  /\ \A t, u \in Tests : Open(t) /\ Open(u) => t = u
  /\ \A t \in Tests : \A o, p \in Starts(t) : Flown(o) /\ Flown(p) => o = p
  /\ \A t \in Tests : \A o \in Starts(t) : Flown(o) => t \in DOMAIN sess
  /\ \A t \in Tests : \A o \in Starts(t) : fate[o] = "flying" => Open(t)
(* The run under way is an experiment that was started, or a history that  *)
(* is not over, whose session is open if there is one.                     *)
RunSound ==
  /\ furnace.run \in Tests => Open(furnace.run) /\ \E o \in Starts(furnace.run) : fate[o] = "acted"
  /\ furnace.run \in Histories =>
       furnace.run \notin furnace.ended /\ (furnace.run \in DOMAIN sess => Open(furnace.run))

(* A request by itself: not sent before it is, and answered truly.         *)
BeforeSend == {"begun", "allowed", "reserved", "owned", "archived", "marked", "leasing"}
Unsent(r) == tasks[r].pc \in BeforeSend => ~Flown(r.op)
Heeded(r) ==
  /\ tasks[r].pc = "answered" => wire[r.op].biz \in Settled
  /\ tasks[r].pc = "recorded" /\ tasks[r].stage # "accepted" => fate[r.op] = "refused"

(* A start, from its reservation on: its test is nobody else's.            *)
Reserving(r) == tasks[r].pc \in {"reserved", "owned"}
Archived(r)  == tasks[r].pc \in {"archived", "marked", "leasing"}
Starting(r)  ==
  Reserving(r) \/ Archived(r) \/ tasks[r].pc \in {"issued", "answered", "recorded", "ended", "failing"}
StartKept(r) ==
  r.kind = "start" =>
    /\ Reserving(r) => r.test \notin DOMAIN sess /\ NoneOpen
    /\ Archived(r) => Open(r.test)
    /\ Starting(r) => \A o \in Starts(r.test) : Flown(o) => o = r.op

Progress(r)  == Unsent(r) /\ Heeded(r) /\ StartKept(r)
SessionsKept == WireTrue /\ StartsSound /\ RunSound /\ \A r \in DOMAIN tasks : Progress(r)

LEMMA SessionsInit == HttpInit => SessionsKept
<1> SUFFICES ASSUME HttpInit PROVE SessionsKept
  OBVIOUS
<1>1. /\ DOMAIN rows = {} /\ DOMAIN sess = {} /\ query = NoQuery
      /\ furnace.run \in Histories \cup {None} /\ furnace.ended = Histories \ {furnace.run}
      /\ \A o \in Ops : fate[o] = "none" /\ wire[o].biz = "absent"
  BY DEF HttpInit, NoWire
<1>2. WireTrue
  BY <1>1, HttpAssumption DEF WireTrue, Flown, NoQuery, Ops
<1>3. StartsSound /\ RunSound
  <2>1. furnace.run \notin Tests /\ (furnace.run \in Histories => furnace.run \notin furnace.ended)
    BY <1>1, HttpAssumption DEF Tests
  <2>2. RunSound
    BY <1>1, <2>1 DEF RunSound
  <2>3. StartsSound
    BY <1>1 DEF StartsSound, Starts, Open
  <2>4. QED BY <2>2, <2>3
<1>4. \A r \in DOMAIN tasks : tasks[r].pc = "idle"
  BY DEF HttpInit
<1>5. QED BY <1>2, <1>3, <1>4 DEF SessionsKept, Progress, Unsent, BeforeSend, Heeded, StartKept,
     Reserving,
                                 Archived, Starting

-----------------------------------------------------------------------------
(* A step that sends nothing and opens no session.                         *)

FatesOn ==
  \A o \in Ops : /\ Flown(o)' <=> Flown(o)
                 /\ fate'[o] = "flying" => fate[o] = "flying"
                 /\ fate[o] = "refused" => fate'[o] = "refused"
SettledStays == \A o \in Ops : wire[o].biz \in Settled => wire'[o].biz \in Settled
(* Sessions may close, but none that a request or the wire still needs.    *)
Needed(t) ==
  \/ \E o \in Starts(t) : fate'[o] = "flying"
  \/ \E q \in DOMAIN tasks : q.kind = "start" /\ q.test = t /\ Archived(q)
SessionsStay ==
  /\ DOMAIN sess' \subseteq DOMAIN sess \cup Histories
  /\ \A t \in Tests : t \in DOMAIN sess' <=> t \in DOMAIN sess
  /\ \A t \in Tests : (Open(t)' => Open(t)) /\ (Open(t) /\ Needed(t) => Open(t)')
Calm == FatesOn /\ SettledStays /\ SessionsStay /\ RowsStay /\ WireTrue' /\ RunSound'

LEMMA StartsStay ==
  ASSUME HttpKept, RowsTyped', RowsStay, NEW t
  PROVE  /\ Starts(t) \subseteq Starts(t)' /\ Starts(t)' \subseteq Ops
         /\ \A o \in Starts(t)' : Flown(o) => o \in Starts(t)
BY DEF Starts, HttpKept, RowsTyped, RowsStay, FlownHaveRows, Flown

LEMMA CalmStarts ==
  ASSUME HttpKept, HttpKept', SessionsKept, Calm
  PROVE  StartsSound'
<1>1. ASSUME NEW t, NEW o \in Starts(t)', Flown(o)'
      PROVE  o \in Starts(t) /\ Flown(o) /\ (fate'[o] = "flying" => fate[o] = "flying")
  BY <1>1, StartsStay DEF HttpKept, RequestsKept, Calm, FatesOn
<1>2. \A t \in Tests : (t \in DOMAIN sess => t \in DOMAIN sess') /\ (Open(t)' => Open(t))
  BY DEF Calm, SessionsStay
<1>3. \A t \in Tests : \A o \in Starts(t)' : fate'[o] = "flying" => Open(t)'
  <2> SUFFICES ASSUME NEW t \in Tests, NEW o \in Starts(t)', fate'[o] = "flying" PROVE Open(t)'
    OBVIOUS
  <2>1. o \in Starts(t) /\ fate[o] = "flying"
    BY <1>1 DEF Flown
  <2>2. Open(t)
    BY <2>1 DEF SessionsKept, StartsSound
  <2>3. Needed(t)
    BY <2>1 DEF Needed
  <2>4. QED BY <2>2, <2>3 DEF Calm, SessionsStay
<1>4. \A t, u \in Tests : Open(t)' /\ Open(u)' => t = u
  BY <1>2 DEF SessionsKept, StartsSound
<1>5. \A t \in Tests : \A o, p \in Starts(t)' : Flown(o)' /\ Flown(p)' => o = p
  <2> SUFFICES ASSUME NEW t \in Tests, NEW o \in Starts(t)', NEW p \in Starts(t)', Flown(o)', Flown(p)'
               PROVE  o = p
    OBVIOUS
  <2>1. {o, p} \subseteq Starts(t) /\ Flown(o) /\ Flown(p)
    BY <1>1
  <2>2. QED BY <2>1 DEF SessionsKept, StartsSound
<1>6. \A t \in Tests : \A o \in Starts(t)' : Flown(o)' => t \in DOMAIN sess'
  <2> SUFFICES ASSUME NEW t \in Tests, NEW o \in Starts(t)', Flown(o)' PROVE t \in DOMAIN sess'
    OBVIOUS
  <2>1. o \in Starts(t) /\ Flown(o)
    BY <1>1
  <2>2. QED BY <1>2, <2>1 DEF SessionsKept, StartsSound
<1>7. DOMAIN sess' \subseteq Sessions
  BY DEF SessionsKept, StartsSound, Calm, SessionsStay, Sessions
<1>8. QED BY <1>3, <1>4, <1>5, <1>6, <1>7 DEF StartsSound

LEMMA CalmProgress ==
  ASSUME HttpKept, HttpKept', SessionsKept, Calm, NEW q \in DOMAIN tasks, tasks'[q] = tasks[q]
  PROVE  Progress(q)'
<1>1. q.op \in Ops /\ q.test \in Tests
  BY RequestTyped DEF HttpKept, RequestsKept
<1>2. Unsent(q)'
  BY <1>1 DEF SessionsKept, Progress, Unsent, Calm, FatesOn
<1>3. Heeded(q)'
  BY <1>1 DEF SessionsKept, Progress, Heeded, Calm, FatesOn, SettledStays
<1>4. StartKept(q)'
  <2> SUFFICES ASSUME q.kind = "start" PROVE StartKept(q)'
    BY DEF StartKept
  <2>1. (Reserving(q)' <=> Reserving(q)) /\ (Archived(q)' <=> Archived(q))
          /\ (Starting(q)' <=> Starting(q))
    BY DEF Reserving, Archived, Starting
  <2>2. Reserving(q)' => q.test \notin DOMAIN sess' /\ NoneOpen'
    BY <1>1, <2>1 DEF SessionsKept, Progress, StartKept, Calm, SessionsStay, NoneOpen
  <2>3. Archived(q)' => Open(q.test)'
    BY <1>1, <2>1 DEF SessionsKept, Progress, StartKept, Calm, SessionsStay, Needed
  <2>4. \A o \in Starts(q.test)' : Flown(o)' => o \in Starts(q.test) /\ Flown(o)
    BY StartsStay DEF HttpKept, RequestsKept, Calm, FatesOn
  <2>5. QED BY <2>1, <2>2, <2>3, <2>4 DEF SessionsKept, Progress, StartKept
<1>5. QED BY <1>2, <1>3, <1>4 DEF Progress

(* Calm steps beside the requests, and of one request.                     *)
LEMMA CalmAside ==
  ASSUME HttpKept, HttpKept', SessionsKept, Calm, tasks' = tasks
  PROVE  SessionsKept'
BY CalmStarts, CalmProgress DEF SessionsKept, Calm

LEMMA CalmRequest ==
  ASSUME HttpKept, HttpKept', SessionsKept, Calm, NEW r \in DOMAIN tasks, Only(r), Progress(r)'
  PROVE  SessionsKept'
BY CalmStarts, CalmProgress DEF SessionsKept, Calm, Only

(* A request that goes on, back or out without a word from the device.     *)
GoesOn(r) ==
  /\ tasks'[r].pc \notin {"answered", "recorded"}
  /\ tasks'[r].pc \in BeforeSend => tasks[r].pc \in BeforeSend
  /\ r.kind = "start" => /\ Reserving(r)' => Reserving(r)
                         /\ Archived(r)' => Archived(r)
                         /\ Starting(r)' => Starting(r)

LEMMA GoesOnCalmly ==
  ASSUME HttpKept, HttpKept', SessionsKept, Calm, NEW r \in DOMAIN tasks, Only(r), GoesOn(r)
  PROVE  SessionsKept'
<1>1. r.op \in Ops /\ r.test \in Tests
  BY RequestTyped DEF HttpKept, RequestsKept
<1>2. Unsent(r)' /\ Heeded(r)'
  BY <1>1 DEF SessionsKept, Progress, Unsent, Heeded, Calm, FatesOn, GoesOn
<1>3. StartKept(r)'
  <2> SUFFICES ASSUME r.kind = "start" PROVE StartKept(r)'
    BY DEF StartKept
  <2>1. Reserving(r)' => r.test \notin DOMAIN sess' /\ NoneOpen'
    BY <1>1 DEF GoesOn, SessionsKept, Progress, StartKept, Calm, SessionsStay, NoneOpen
  <2>2. Archived(r)' => Open(r.test)'
    BY <1>1 DEF GoesOn, SessionsKept, Progress, StartKept, Calm, SessionsStay, Needed
  <2>3. \A o \in Starts(r.test)' : Flown(o)' => o \in Starts(r.test) /\ Flown(o)
    BY StartsStay DEF HttpKept, RequestsKept, Calm, FatesOn
  <2>4. QED BY <2>1, <2>2, <2>3 DEF GoesOn, SessionsKept, Progress, StartKept
<1>4. QED BY <1>2, <1>3, CalmRequest DEF Progress

(* Steps that leave device and sessions alone are calm.                    *)
LEMMA UnmovedCalm ==
  ASSUME HttpKept, HttpKept', SessionsKept, UNCHANGED <<fate, furnace, sess>>, RowsStay, WireTrue', SettledStays
  PROVE  Calm
<1>1. RunSound'
  BY StartsStay DEF RunSound, SessionsKept, AtRest, Open, HttpKept, RequestsKept
<1>2. SessionsStay /\ FatesOn
  BY DEF SessionsStay, FatesOn, Open, Flown
<1>3. QED BY <1>1, <1>2 DEF Calm

LEMMA WireStays ==
  ASSUME SessionsKept, UNCHANGED <<wire, fate, query>>
  PROVE  WireTrue' /\ SettledStays
BY DEF SessionsKept, WireTrue, Flown, SettledStays

-----------------------------------------------------------------------------
(* The requests' steps that leave the wire alone.                          *)

LEMMA QuietSteps ==
  ASSUME HttpKept, HttpKept', SessionsKept, NEW r \in DOMAIN tasks,
         \/ LookUp(r) \/ TakeControl(r) \/ MarkedSent(r) \/ ReadBack(r)
         \/ Conclude(r) \/ Raised(r) \/ RefusalRecorded(r)
  PROVE  SessionsKept'
<1>1. Only(r) /\ RowsStay
  BY RequestActionSteps DEF RequestAction, HttpKept, RequestStep
<1>2. UNCHANGED <<fate, furnace, sess, wire, query>>
  BY DEF LookUp, TakeControl, MarkedSent, ReadBack, Conclude, Raised, RefusalRecorded, tables, board
<1>3. Calm
  BY <1>1, <1>2, WireStays, UnmovedCalm
<1>4. \/ tasks'[r].pc \in {"idle", "insert", "refused", "failing", "ended"}
      \/ tasks'[r].pc = "owned" /\ tasks[r].pc \in {"reserved", "allowed"}
      \/ tasks'[r].pc = "marked" /\ tasks[r].pc \in {"archived", "owned", "allowed"}
  <2>1. RowsTyped
    BY DEF HttpKept, RequestsKept
  <2>2. CASE LookUp(r) \/ ReadBack(r)
    BY <2>1, <2>2, GotoOnly DEF LookUp, ReadBack, Steps
  <2>3. CASE TakeControl(r)
    BY <2>1, <2>3, GotoOnly DEF TakeControl, Steps
  <2>4. CASE MarkedSent(r)
    BY <2>1, <2>4 DEF MarkedSent, RowsTyped
  <2>5. CASE Conclude(r) \/ RefusalRecorded(r)
    BY <2>1, <2>5, FinishOnly DEF Conclude, RefusalRecorded
  <2>6. CASE Raised(r)
    BY <2>1, <2>6, GotoOnly DEF Raised, Steps
  <2>7. QED BY <2>2, <2>3, <2>4, <2>5, <2>6
<1>5. r.kind = "start" => /\ tasks'[r].pc \in {"ended", "failing"} => Starting(r)
                          /\ tasks'[r].pc = "owned" => tasks[r].pc = "reserved"
                          /\ tasks'[r].pc = "marked" => tasks[r].pc = "archived"
  <2>1. RowsTyped
    BY DEF HttpKept, RequestsKept
  <2>2. CASE LookUp(r) \/ ReadBack(r)
    BY <2>1, <2>2, GotoOnly DEF LookUp, ReadBack, Steps
  <2>3. CASE TakeControl(r)
    BY <2>1, <2>3, GotoOnly DEF TakeControl, Steps, Starting, Reserving
  <2>4. CASE MarkedSent(r)
    BY <2>1, <2>4 DEF MarkedSent, RowsTyped
  <2>5. CASE Conclude(r) \/ RefusalRecorded(r)
    BY <2>1, <2>5, FinishOnly DEF Conclude, RefusalRecorded
  <2>6. CASE Raised(r)
    BY <2>1, <2>6, GotoOnly DEF Raised, At, Steps, Starting, Reserving, Archived
  <2>7. QED BY <2>2, <2>3, <2>4, <2>5, <2>6
<1>6. GoesOn(r)
  <2>1. r.kind = "start" => /\ Reserving(r)' => Reserving(r)
                            /\ Archived(r)' => Archived(r)
                            /\ Starting(r)' => Starting(r)
    BY <1>4, <1>5 DEF Starting, Reserving, Archived
  <2>2. tasks'[r].pc \in BeforeSend => tasks[r].pc \in BeforeSend
    BY <1>4 DEF BeforeSend
  <2>3. tasks'[r].pc \notin {"answered", "recorded"}
    BY <1>4
  <2>4. QED BY <2>1, <2>2, <2>3 DEF GoesOn, Starting, Reserving, Archived
<1>7. QED BY <1>1, <1>3, <1>6, GoesOnCalmly

LEMMA InsertSessions ==
  ASSUME HttpKept, HttpKept', SessionsKept, NEW r \in DOMAIN tasks, Insert(r)
  PROVE  SessionsKept'
<1>1. Only(r) /\ RowsStay
  BY RequestActionSteps DEF RequestAction, HttpKept, RequestStep
<1>2. UNCHANGED <<fate, furnace, sess, wire, query>>
  BY DEF Insert, board
<1>3. Calm
  BY <1>1, <1>2, WireStays, UnmovedCalm
<1>4. CASE r.op \in DOMAIN rows
  <2>1. tasks'[r].pc = "idle"
    BY <1>4, GotoOnly DEF HttpKept, RequestsKept, Insert, Steps
  <2>2. QED BY <1>1, <1>3, <2>1, GoesOnCalmly DEF GoesOn, BeforeSend, Starting, Reserving, Archived
<1>5. CASE r.op \notin DOMAIN rows
  <2>1. tasks'[r].pc = "begun"
    BY <1>5 DEF HttpKept, RequestsKept, RowsTyped, Insert
  <2>2. ~Flown(r.op)'
    BY <1>2, <1>5, RequestTyped DEF HttpKept, RequestsKept, FlownHaveRows, Flown
  <2>3. Progress(r)'
    BY <2>1, <2>2 DEF Progress, Unsent, Heeded, StartKept, Starting, Reserving, Archived
  <2>4. QED BY <1>1, <1>3, <2>3, CalmRequest
<1>6. QED BY <1>4, <1>5

LEMMA ReserveSessions ==
  ASSUME HttpKept, HttpKept', SessionsKept, NEW r \in DOMAIN tasks, Reserve(r)
  PROVE  SessionsKept'
<1>1. Only(r) /\ RowsStay
  BY RequestActionSteps DEF RequestAction, HttpKept, RequestStep
<1>2. UNCHANGED <<fate, furnace, sess, wire, query, rows>>
  BY DEF Reserve, tables, board
<1>3. Calm
  BY <1>1, <1>2, WireStays, UnmovedCalm
<1>4. CASE ~Reservable(r.test)
  <2>1. tasks'[r].pc = "refused"
    BY <1>4, GotoOnly DEF HttpKept, RequestsKept, Reserve, Steps
  <2>2. QED BY <1>1, <1>3, <2>1, GoesOnCalmly DEF GoesOn, BeforeSend, Starting, Reserving, Archived
<1>5. CASE Reservable(r.test)
  <2>1. tasks'[r].pc = "reserved" /\ tasks[r].pc = "allowed"
    BY <1>5, GotoOnly DEF HttpKept, RequestsKept, Reserve, Steps, At
  <2>2. r.test \in Tests /\ r.test \notin DOMAIN sess' /\ NoneOpen'
    <3>1. r.test \in Tests /\ r.test \notin DOMAIN sess'
      BY <1>2, <1>5, RequestTyped DEF Reservable, HttpKept, RequestsKept
    <3>2. \A u \in Tests : u \notin ReviewedHistory
      BY HttpAssumption DEF ReviewedHistory
    <3>3. \A u \in Tests : ~Open(u)
      BY <1>5, <3>2 DEF Reservable, Open
    <3>4. QED BY <1>2, <3>1, <3>3 DEF NoneOpen, Open
  <2>3. \A o \in Starts(r.test)' : ~Flown(o)'
    BY <1>2, <2>2 DEF SessionsKept, StartsSound, Starts, Flown
  <2>4. Unsent(r)'
    BY <1>2, <2>1 DEF SessionsKept, Progress, Unsent, BeforeSend, Flown
  <2>5. Progress(r)'
    BY <2>1, <2>2, <2>3, <2>4 DEF Progress, Heeded, StartKept, Reserving, Archived
  <2>6. QED BY <1>1, <1>3, <2>5, CalmRequest
<1>6. QED BY <1>4, <1>5

LEMMA ResultSessions ==
  ASSUME HttpKept, HttpKept', SessionsKept, NEW r \in DOMAIN tasks, ResultRecorded(r)
  PROVE  SessionsKept'
<1>1. Only(r) /\ RowsStay
  BY RequestActionSteps DEF RequestAction, HttpKept, RequestStep
<1>2. UNCHANGED <<fate, furnace, sess, wire, query>>
  BY DEF ResultRecorded, board
<1>3. Calm
  BY <1>1, <1>2, WireStays, UnmovedCalm
<1>4. /\ tasks[r].pc = "answered" /\ tasks'[r].pc = "recorded"
      /\ tasks'[r].stage = IF wire[r.op].biz = "applied" THEN "accepted" ELSE "rejected"
  BY DEF HttpKept, RequestsKept, RowsTyped, ResultRecorded, At
<1>5. tasks'[r].stage # "accepted" => fate'[r.op] = "refused"
  <2>1. wire[r.op].biz \in {"applied", "rejected"} /\ r.op \in Ops
    BY <1>4, RequestTyped DEF SessionsKept, Progress, Heeded, Settled, HttpKept, RequestsKept
  <2>2. QED BY <1>2, <1>4, <2>1 DEF SessionsKept, WireTrue
<1>6. StartKept(r)'
  <2>1. r.kind = "start" => \A o \in Starts(r.test) : Flown(o) => o = r.op
    BY <1>4 DEF SessionsKept, Progress, StartKept, Starting
  <2>2. \A o \in Starts(r.test)' : Flown(o)' => o \in Starts(r.test) /\ Flown(o)
    BY <1>1, <1>3, StartsStay DEF HttpKept, RequestsKept, Calm, FatesOn
  <2>3. QED BY <1>4, <2>1, <2>2 DEF StartKept, Reserving, Archived
<1>7. Progress(r)'
  BY <1>4, <1>5, <1>6 DEF Progress, Unsent, BeforeSend, Heeded
<1>8. QED BY <1>1, <1>3, <1>7, CalmRequest

-----------------------------------------------------------------------------
(* The requests' steps that touch the wire's rows.                         *)

LEMMA WireMoves ==
  ASSUME SessionsKept, UNCHANGED <<fate, query>>,
         \A o \in Ops : /\ wire[o].biz # "absent" => wire'[o].biz # "absent"
                        /\ wire'[o].biz = "rejected" => wire[o].biz = "rejected" \/ fate[o] = "refused"
  PROVE  WireTrue'
BY DEF SessionsKept, WireTrue, Flown

LEMMA DeviceSaysTruly ==
  ASSUME NEW o
  PROVE  /\ DeviceSays(o) \in {"applied", "rejected", "not_found"}
         /\ DeviceSays(o) = "rejected" => fate[o] = "refused"
BY DEF DeviceSays

LEMMA PreflightSessions ==
  ASSUME HttpKept, HttpKept', SessionsKept, NEW r \in DOMAIN tasks, Preflight(r)
  PROVE  SessionsKept'
<1>1. Only(r) /\ RowsStay
  BY RequestActionSteps DEF RequestAction, HttpKept, RequestStep
<1>2. UNCHANGED <<fate, furnace, sess, query>>
  BY DEF Preflight, tables, board
<1>3. ASSUME NEW o \in Ops
      PROVE  wire'[o].biz = wire[o].biz \/ (wire[o].biz = "unknown" /\ wire'[o].biz = DeviceSays(o))
  <2>1. wire[o] \in WireType
    BY DEF HttpKept, RequestsKept, RowsTyped
  <2>2. \A said : \/ Refreshed(wire[o], o, said).biz = wire[o].biz
                  \/ /\ wire[o].biz = "unknown"
                     /\ Refreshed(wire[o], o, said).biz = DeviceSays(o)
    BY <2>1 DEF Refreshed, WireType
  <2>3. wire' = wire \/ \E said \in LeaseAnswers : wire'[o] = Refreshed(wire[o], o, said)
    BY DEF Preflight
  <2>4. QED BY <2>2, <2>3
<1>4. WireTrue' /\ SettledStays
  BY <1>2, <1>3, WireMoves, DeviceSaysTruly DEF SettledStays, Settled
<1>5. Calm
  BY <1>1, <1>2, <1>4, UnmovedCalm
<1>6. tasks[r].pc = "begun" /\ tasks'[r].pc \in {"allowed", "refused"}
  BY GotoOnly DEF HttpKept, RequestsKept, Preflight, At, Steps
<1>7. GoesOn(r)
  BY <1>6 DEF GoesOn, BeforeSend, Starting, Reserving, Archived
<1>8. QED BY <1>1, <1>5, <1>7, GoesOnCalmly

LEMMA LeaseSessions ==
  ASSUME HttpKept, HttpKept', SessionsKept, NEW r \in DOMAIN tasks, LeaseAsked(r) \/ Leased(r)
  PROVE  SessionsKept'
<1>1. Only(r) /\ RowsStay
  BY RequestActionSteps DEF RequestAction, HttpKept, RequestStep
<1>2. UNCHANGED <<fate, furnace, sess, query>>
  BY DEF LeaseAsked, Leased, tables, board
<1>3. \A o \in Ops : wire'[o].biz = wire[o].biz
  BY RequestTyped DEF LeaseAsked, Leased, HttpKept, RequestsKept, RowsTyped, WireType
<1>4. WireTrue' /\ SettledStays
  BY <1>2, <1>3, WireMoves DEF SettledStays
<1>5. Calm
  BY <1>1, <1>2, <1>4, UnmovedCalm
<1>6. Archived(r) /\ tasks'[r].pc \in {"leasing", "marked", "failing"}
  BY GotoOnly DEF HttpKept, RequestsKept, LeaseAsked, Leased, At, Steps, Archived
<1>7. GoesOn(r)
  BY <1>6 DEF GoesOn, BeforeSend, Starting, Reserving, Archived
<1>8. QED BY <1>1, <1>5, <1>7, GoesOnCalmly

LEMMA AnsweredSessions ==
  ASSUME HttpKept, HttpKept', SessionsKept, NEW r \in DOMAIN tasks, Answered(r)
  PROVE  SessionsKept'
<1>1. Only(r) /\ RowsStay
  BY RequestActionSteps DEF RequestAction, HttpKept, RequestStep
<1>2. UNCHANGED <<fate, furnace, sess, query, rows>> /\ r.op \in Ops
  BY RequestTyped DEF Answered, tables, board, HttpKept, RequestsKept
<1>3. \A o \in Ops : o # r.op => wire'[o] = wire[o]
  BY DEF Answered, HttpKept, RequestsKept, RowsTyped
<1>4. \/ /\ tasks'[r].pc = "answered" /\ wire'[r.op].biz = DeviceSays(r.op)
         /\ fate[r.op] \in {"acted", "refused"}
      \/ /\ tasks'[r].pc = "failing"
         /\ wire'[r.op].biz = IF wire[r.op].biz \in Settled THEN wire[r.op].biz ELSE "unknown"
  <2>1. RowsTyped /\ wire[r.op] \in WireType /\ wire \in [Ops -> WireType]
    BY <1>2 DEF HttpKept, RequestsKept, RowsTyped
  <2>2. CASE Goto(r, "answered") /\ fate[r.op] \in {"acted", "refused"}
             /\ wire' = [wire EXCEPT ![r.op].biz = DeviceSays(r.op)]
    BY <1>2, <2>1, <2>2, GotoOnly DEF Steps, WireType
  <2>3. CASE Goto(r, "failing")
             /\ wire' = [wire EXCEPT ![r.op].biz = IF @ \in Settled THEN @ ELSE "unknown"]
    BY <1>2, <2>1, <2>3, GotoOnly DEF Steps, WireType
  <2>4. QED BY <2>2, <2>3 DEF Answered
<1>5. WireTrue' /\ SettledStays
  <2>1. wire'[r.op].biz # "absent" /\ (wire[r.op].biz \in Settled => wire'[r.op].biz \in Settled)
    BY <1>4 DEF DeviceSays, Settled
  <2>2. wire'[r.op].biz = "rejected" => wire[r.op].biz = "rejected" \/ fate[r.op] = "refused"
    BY <1>4, DeviceSaysTruly DEF Settled
  <2>3. QED BY <1>2, <1>3, <2>1, <2>2, WireMoves DEF SettledStays
<1>6. Calm
  BY <1>1, <1>2, <1>5, UnmovedCalm
<1>7. tasks[r].pc = "issued"
  BY DEF Answered, At
<1>8. CASE tasks'[r].pc = "failing"
  <2>1. GoesOn(r)
    BY <1>7, <1>8 DEF GoesOn, BeforeSend, Starting, Reserving, Archived
  <2>2. QED BY <1>1, <1>6, <2>1, GoesOnCalmly
<1>9. CASE tasks'[r].pc = "answered"
  <2>1. wire'[r.op].biz \in Settled
    BY <1>4, <1>9 DEF DeviceSays, Settled
  <2>2. r.kind = "start" => \A o \in Starts(r.test)' : Flown(o)' => o = r.op
    BY <1>2, <1>7 DEF SessionsKept, Progress, StartKept, Starting, Starts, Flown
  <2>3. Progress(r)'
    BY <1>9, <2>1, <2>2 DEF Progress, Unsent, BeforeSend, Heeded, StartKept, Reserving, Archived
  <2>4. QED BY <1>1, <1>6, <2>3, CalmRequest
<1>10. QED BY <1>4, <1>8, <1>9

-----------------------------------------------------------------------------
(* Steps that close a session, or mark it.                                 *)

NotStarted(t) ==
  /\ \A o \in Starts(t) : fate[o] \notin {"flying", "acted"}
  /\ \A q \in DOMAIN tasks : q.kind = "start" /\ q.test = t => ~Archived(q)

LEMMA SessionsMove ==
  ASSUME HttpKept, HttpKept', SessionsKept, UNCHANGED <<fate, furnace, wire, query>>, RowsStay, NEW t \in Sessions,
         \/ sess' = sess
         \/ \E phase \in {"stopping", "needs_review"} :
              Open(t) /\ sess' = [sess EXCEPT ![t] = phase]
         \/ t \in Tests /\ NotStarted(t) /\ Open(t) /\ sess' = [sess EXCEPT ![t] = "start_rejected"]
  PROVE  Calm
<1>1. WireTrue' /\ SettledStays /\ FatesOn
  BY WireStays DEF FatesOn, Flown
<1>2. CASE sess' = sess
  BY <1>1, <1>2, UnmovedCalm
<1>3. CASE \E phase \in {"stopping", "needs_review"} : Open(t) /\ sess' = [sess EXCEPT ![t] = phase]
  <2>1. DOMAIN sess' = DOMAIN sess /\ \A u : Open(u)' <=> Open(u)
    BY <1>3 DEF Open
  <2>2. SessionsStay
    BY <2>1 DEF SessionsStay
  <2>3. RunSound'
    BY <2>1, StartsStay DEF RunSound, SessionsKept, AtRest, HttpKept, RequestsKept
  <2>4. QED BY <1>1, <2>2, <2>3 DEF Calm
<1>4. CASE t \in Tests /\ NotStarted(t) /\ Open(t) /\ sess' = [sess EXCEPT ![t] = "start_rejected"]
  <2>1. DOMAIN sess' = DOMAIN sess /\ \A u : (Open(u)' => Open(u)) /\ (Open(u) /\ u # t => Open(u)')
    BY <1>4 DEF Open
  <2>2. ~Needed(t)
    BY <1>4 DEF NotStarted, Needed
  <2>3. SessionsStay
    BY <2>1, <2>2 DEF SessionsStay
  <2>4. furnace.run # t
    BY <1>4 DEF NotStarted, SessionsKept, RunSound
  <2>5. RunSound'
    BY <2>1, <2>4, StartsStay DEF RunSound, SessionsKept, AtRest, HttpKept, RequestsKept
  <2>6. QED BY <1>1, <2>3, <2>5 DEF Calm
<1>5. QED BY <1>2, <1>3, <1>4

(* A refused start was the only one of its test.                           *)
LEMMA RefusedNotStarted ==
  ASSUME HttpKept, SessionsKept, NEW t \in Tests, NEW o \in Starts(t), fate[o] = "refused"
  PROVE  NotStarted(t)
<1>1. \A p \in Starts(t) : fate[p] \notin {"flying", "acted"}
  BY DEF SessionsKept, StartsSound, Flown
<1>2. ASSUME NEW q \in DOMAIN tasks, q.kind = "start", q.test = t, Archived(q) PROVE FALSE
  <2>1. o = q.op
    BY <1>2 DEF SessionsKept, Progress, StartKept, Starting, Flown
  <2>2. ~Flown(q.op)
    BY <1>2 DEF SessionsKept, Progress, Unsent, BeforeSend, Archived
  <2>3. QED BY <2>1, <2>2 DEF Flown
<1>3. QED BY <1>1, <1>2 DEF NotStarted

LEMMA OwnStart ==
  ASSUME HttpKept, NEW r \in DOMAIN tasks, Begun(r)
  PROVE  /\ r.op \in DOMAIN rows /\ rows[r.op].posted = Posted(r)
         /\ r.kind = "start" => r.op \in Starts(r.test)
         /\ \A t : r.op \in Starts(t) => r.kind = "start" /\ r.test = t
<1>1. r.op \in DOMAIN rows /\ rows[r.op].posted = Posted(r)
  BY DEF HttpKept, RequestsKept, Recorded
<1>2. rows[r.op].posted.kind = r.kind /\ rows[r.op].posted.test = r.test
  BY <1>1 DEF Posted
<1>3. QED BY <1>1, <1>2 DEF Starts

LEMMA LifecycleSessions ==
  ASSUME HttpKept, HttpKept', SessionsKept, NEW r \in DOMAIN tasks, Lifecycle(r)
  PROVE  SessionsKept'
<1>1. Only(r) /\ RowsStay
  BY RequestActionSteps DEF RequestAction, HttpKept, RequestStep
<1>2. UNCHANGED <<fate, furnace, wire, query>> /\ r.test \in Tests
  BY RequestTyped DEF Lifecycle, board, HttpKept, RequestsKept
<1>3. tasks[r].pc = "recorded" /\ Goto(r, "ended")
  BY DEF Lifecycle, At
<1>4. Calm
  <2>1. CASE r.kind = "start" /\ tasks[r].stage # "accepted"
    <3>1. fate[r.op] = "refused"
      BY <1>3, <2>1 DEF SessionsKept, Progress, Heeded
    <3>2. r.op \in Starts(r.test)
      BY <1>3, <2>1, OwnStart DEF Begun
    <3>3. NotStarted(r.test)
      BY <1>2, <3>1, <3>2, RefusedNotStarted
    <3>4. sess' = sess \/ (Open(r.test) /\ sess' = [sess EXCEPT ![r.test] = "start_rejected"])
      BY <2>1 DEF Lifecycle
    <3>5. QED BY <1>1, <1>2, <3>3, <3>4, SessionsMove DEF Sessions
  <2>2. CASE ~(r.kind = "start" /\ tasks[r].stage # "accepted")
    <3> DEFINE t == wire[r.op].run
    <3>1. sess' = sess \/ (Open(t) /\ sess' = [sess EXCEPT ![t] = "stopping"])
      BY <2>2 DEF Lifecycle
    <3>2. Open(t) => t \in Sessions
      BY DEF Open, SessionsKept, StartsSound
    <3>3. CASE sess' = sess
      BY <1>1, <1>2, <3>3, SessionsMove DEF Sessions
    <3>4. CASE Open(t) /\ sess' = [sess EXCEPT ![t] = "stopping"]
      BY <1>1, <1>2, <3>2, <3>4, SessionsMove
    <3>5. QED BY <3>1, <3>3, <3>4
  <2>3. QED BY <2>1, <2>2
<1>5. tasks'[r].pc = "ended"
  BY <1>3, GotoOnly DEF HttpKept, RequestsKept, Steps
<1>6. GoesOn(r)
  BY <1>3, <1>5 DEF GoesOn, BeforeSend, Starting, Reserving, Archived
<1>7. QED BY <1>1, <1>4, <1>6, GoesOnCalmly

LEMMA FailedSessions ==
  ASSUME HttpKept, HttpKept', SessionsKept, NEW r \in DOMAIN tasks, Failed(r)
  PROVE  SessionsKept'
<1>1. Only(r) /\ RowsStay
  BY RequestActionSteps DEF RequestAction, HttpKept, RequestStep
<1>2. UNCHANGED <<fate, furnace, wire, query>> /\ r.test \in Tests /\ r.op \in Ops
  BY RequestTyped DEF Failed, board, HttpKept, RequestsKept
<1>3. tasks[r].pc = "failing" /\ Goto(r, "refused")
  BY DEF Failed, At
<1>4. \/ sess' = sess
      \/ /\ r.kind = "start" /\ Open(r.test)
         /\ sess' = [sess EXCEPT ![r.test] = AfterFailure(r)]
  BY DEF Failed
<1>5. Calm
  <2>1. CASE sess' = sess
    BY <1>1, <1>2, <2>1, SessionsMove DEF Sessions
  <2>2. CASE r.kind = "start" /\ Open(r.test) /\ sess' = [sess EXCEPT ![r.test] = AfterFailure(r)]
    <3>1. CASE wire[r.op].biz # "absent"
      BY <1>1, <1>2, <2>2, <3>1, SessionsMove DEF AfterFailure, Sessions
    <3>2. CASE wire[r.op].biz = "absent"
      <4>1. ~Flown(r.op)
        BY <1>2, <3>2 DEF SessionsKept, WireTrue
      <4>2. \A o \in Starts(r.test) : ~Flown(o)
        BY <1>3, <2>2, <4>1 DEF SessionsKept, Progress, StartKept, Starting
      <4>3. ASSUME NEW q \in DOMAIN tasks, q.kind = "start", Archived(q) PROVE FALSE
        BY <1>3, <2>2, <4>3 DEF HttpKept, RequestsKept, Exclusive, Running, Priority, Archived
      <4>4. NotStarted(r.test)
        BY <4>2, <4>3 DEF NotStarted, Flown
      <4>5. QED BY <1>1, <1>2, <2>2, <3>2, <4>4, SessionsMove DEF AfterFailure, Sessions
    <3>3. QED BY <3>1, <3>2
  <2>3. QED BY <1>4, <2>1, <2>2
<1>6. tasks'[r].pc = "refused"
  BY <1>3, GotoOnly DEF HttpKept, RequestsKept, Steps
<1>7. GoesOn(r)
  BY <1>6 DEF GoesOn, BeforeSend, Starting, Reserving, Archived
<1>8. QED BY <1>1, <1>5, <1>7, GoesOnCalmly

-----------------------------------------------------------------------------
(* The session is opened.                                                  *)

LEMMA ArchiveSessions ==
  ASSUME HttpKept, HttpKept', SessionsKept, NEW r \in DOMAIN tasks, Archive(r)
  PROVE  SessionsKept'
<1>1. Only(r) /\ UNCHANGED <<fate, furnace, wire, query, rows>> /\ r.test \in Tests
  BY RequestActionSteps, RequestTyped DEF RequestAction, HttpKept, RequestsKept, RequestStep, Archive,
       board
<1>2. /\ r.kind = "start" /\ tasks[r].pc = "owned" /\ tasks'[r].pc = "archived"
      /\ sess' = RowAdded(sess, r.test, "awaiting_device")
  BY GotoOnly DEF HttpKept, RequestsKept, Archive, At, Steps
<1>3. r.test \notin DOMAIN sess /\ NoneOpen
  BY <1>2 DEF SessionsKept, Progress, StartKept, Reserving
<1>4. /\ DOMAIN sess' = DOMAIN sess \cup {r.test} /\ Open(r.test)'
      /\ \A t \in Tests : t # r.test => ~Open(t)'
  BY <1>2, <1>3 DEF RowAdded, Open, NoneOpen
<1>5. WireTrue'
  BY <1>1, WireStays
<1>6. furnace.run \notin Tests
  BY <1>3 DEF SessionsKept, RunSound, NoneOpen
<1>7. RunSound'
  <2>1. furnace.run # r.test /\ furnace' = furnace
    BY <1>1, <1>6
  <2>2. furnace.run \in DOMAIN sess' => furnace.run \in DOMAIN sess /\ (Open(furnace.run) => Open(furnace.run)')
    BY <1>2, <2>1 DEF RowAdded, Open
  <2>3. QED BY <1>6, <2>1, <2>2 DEF SessionsKept, RunSound, Open
<1>8. StartsSound'
  <2>1. \A t \in Tests : \A o \in Starts(t) : fate[o] # "flying"
    BY <1>3 DEF SessionsKept, StartsSound, NoneOpen
  <2>2. \A t : Starts(t)' = Starts(t)
    BY <1>1 DEF Starts
  <2>3. \A t \in Tests : \A o, p \in Starts(t)' : Flown(o)' /\ Flown(p)' => o = p
    BY <1>1 DEF SessionsKept, StartsSound, Starts, Flown
  <2>4. \A t \in Tests : \A o \in Starts(t)' : Flown(o)' => t \in DOMAIN sess'
    BY <1>1, <1>4 DEF SessionsKept, StartsSound, Starts, Flown
  <2>5. DOMAIN sess' \subseteq Sessions /\ \A t, u \in Tests : Open(t)' /\ Open(u)' => t = u
    BY <1>1, <1>4 DEF SessionsKept, StartsSound, Sessions
  <2>6. QED BY <1>1, <2>1, <2>2, <2>3, <2>4, <2>5 DEF StartsSound
<1>9. ASSUME NEW q \in DOMAIN tasks, q # r PROVE Progress(q)'
  <2>1. tasks'[q] = tasks[q]
    BY <1>1, <1>9 DEF Only
  <2>2. Unsent(q)' /\ Heeded(q)'
    BY <1>1, <2>1 DEF SessionsKept, Progress, Unsent, Heeded, Flown
  <2>3. q.kind = "start" => tasks[q].pc = "idle"
    BY <1>2, <1>9 DEF HttpKept, RequestsKept, Exclusive, Running, Priority
  <2>4. StartKept(q)'
    BY <2>1, <2>3 DEF StartKept, Starting, Reserving, Archived
  <2>5. QED BY <2>2, <2>4 DEF Progress
<1>10. Progress(r)'
  <2>1. Unsent(r)' /\ Heeded(r)'
    BY <1>1, <1>2 DEF SessionsKept, Progress, Unsent, BeforeSend, Heeded, Flown
  <2>2. \A o \in Starts(r.test)' : Flown(o)' => o = r.op
    BY <1>1, <1>2 DEF SessionsKept, Progress, StartKept, Starting, Reserving, Starts, Flown
  <2>3. StartKept(r)'
    BY <1>2, <1>4, <2>2 DEF StartKept, Reserving, Archived
  <2>4. QED BY <2>1, <2>3 DEF Progress
<1>11. QED BY <1>1, <1>5, <1>7, <1>8, <1>9, <1>10 DEF SessionsKept, Only

-----------------------------------------------------------------------------
(* The command is sent.                                                    *)

LEMMA IssueSessions ==
  ASSUME HttpKept, HttpKept', SessionsKept, NEW r \in DOMAIN tasks, Issue(r)
  PROVE  SessionsKept'
<1>1. /\ Only(r) /\ UNCHANGED <<furnace, query, rows, sess>> /\ RowsStay
      /\ r.test \in Tests /\ r.op \in Ops /\ tasks[r].pc = "marked"
  BY RequestActionSteps, RequestTyped DEF RequestAction, HttpKept, RequestsKept, RequestStep, Issue, At
<1>2. CASE Goto(r, "failing") /\ UNCHANGED <<wire, fate>>
  <2>1. Calm
    BY <1>1, <1>2, WireStays, UnmovedCalm
  <2>2. tasks'[r].pc = "failing"
    BY <1>2, GotoOnly DEF HttpKept, RequestsKept, Steps
  <2>3. GoesOn(r)
    BY <1>1, <2>2 DEF GoesOn, BeforeSend, Starting, Reserving, Archived
  <2>4. QED BY <1>1, <2>1, <2>3, GoesOnCalmly
<1>3. CASE /\ wire' = [wire EXCEPT ![r.op].biz = "sent",
                                  ![r.op].run = IF Priority(r) THEN furnace.run ELSE None]
           /\ fate' = [fate EXCEPT ![r.op] = "flying"]
           /\ Goto(r, "issued")
  <2>1. tasks'[r].pc = "issued"
    BY <1>3, GotoOnly DEF HttpKept, RequestsKept, Steps
  <2>2. Begun(r) /\ fate[r.op] = "none"
    BY <1>1 DEF Begun, SessionsKept, Progress, Unsent, BeforeSend, Flown
  <2>3. /\ fate'[r.op] = "flying" /\ \A o \in Ops : o # r.op => fate'[o] = fate[o]
        /\ wire'[r.op].biz = "sent" /\ \A o \in Ops : o # r.op => wire'[o] = wire[o]
    BY <1>1, <1>3 DEF HttpKept, RequestsKept, RowsTyped, WireType
  <2>4. WireTrue'
    BY <1>1, <2>2, <2>3 DEF SessionsKept, WireTrue, Flown
  <2>5. RunSound'
    <3>1. \A t : \A o \in Starts(t) : o \in Ops
      BY DEF Starts, HttpKept, RequestsKept, RowsTyped
    <3>2. QED BY <1>1, <2>2, <2>3, <3>1 DEF SessionsKept, RunSound, AtRest, Open, Starts
  <2>6. r.kind = "start" => /\ Open(r.test)
                            /\ \A o \in Starts(r.test) : ~Flown(o)
    BY <1>1, <2>2 DEF SessionsKept, Progress, StartKept, Starting, Archived, Flown
  <2>7. ASSUME NEW t \in Tests, NEW o \in Starts(t)', Flown(o)'
        PROVE  /\ o \in Starts(t)
               /\ \/ Flown(o) /\ o # r.op /\ fate'[o] = fate[o]
                  \/ o = r.op /\ r.kind = "start" /\ r.test = t
    <3>1. o \in Starts(t) /\ o \in Ops
      BY <1>1, <2>7 DEF Starts, HttpKept, RequestsKept, RowsTyped
    <3>2. CASE o = r.op
      BY <2>2, <3>1, <3>2, OwnStart
    <3>3. CASE o # r.op
      BY <2>3, <2>7, <3>1, <3>3 DEF Flown
    <3>4. QED BY <3>1, <3>2, <3>3
  <2>8. StartsSound'
    <3>1. ASSUME NEW t \in Tests, NEW o \in Starts(t)', NEW p \in Starts(t)', Flown(o)', Flown(p)'
          PROVE  o = p
      BY <2>6, <2>7, <3>1 DEF SessionsKept, StartsSound
    <3>2. ASSUME NEW t \in Tests, NEW o \in Starts(t)', Flown(o)'
          PROVE  t \in DOMAIN sess' /\ (fate'[o] = "flying" => Open(t)')
      BY <1>1, <2>6, <2>7, <3>2 DEF SessionsKept, StartsSound, Open
    <3>3. DOMAIN sess' \subseteq Sessions /\ \A t, u \in Tests : Open(t)' /\ Open(u)' => t = u
      BY <1>1 DEF SessionsKept, StartsSound, Open
    <3>4. QED BY <3>1, <3>2, <3>3 DEF StartsSound, Flown
  <2>9. ASSUME NEW q \in DOMAIN tasks, q # r PROVE Progress(q)'
    <3>1. tasks'[q] = tasks[q] /\ q.op \in Ops /\ q.test \in Tests
      BY <1>1, <2>9, RequestTyped DEF Only, HttpKept, RequestsKept
    <3>2. Begun(q) => q.op # r.op
      BY <2>2, <2>9 DEF HttpKept, RequestsKept, OwnRow
    <3>3. Unsent(q)' /\ Heeded(q)'
      BY <2>3, <3>1, <3>2 DEF Begun, SessionsKept, Progress, Unsent, BeforeSend, Heeded, Flown
    <3>4. StartKept(q)'
      <4>1. CASE r.kind = "start"
        <5>1. q.kind = "start" => tasks[q].pc = "idle"
          BY <1>1, <2>9, <4>1 DEF HttpKept, RequestsKept, Exclusive, Running, Priority
        <5>2. QED BY <3>1, <5>1 DEF StartKept, Starting, Reserving, Archived
      <4>2. CASE r.kind # "start"
        <5>1. \A o \in Starts(q.test)' : Flown(o)' => o \in Starts(q.test) /\ Flown(o)
          BY <2>7, <3>1, <4>2
        <5>2. QED BY <1>1, <3>1, <5>1 DEF SessionsKept, Progress, StartKept, Starting, Reserving,
             Archived,
                                      NoneOpen, Open
      <4>3. QED BY <4>1, <4>2
    <3>5. QED BY <3>3, <3>4 DEF Progress
  <2>10. Progress(r)'
    <3>1. r.kind = "start" => \A o \in Starts(r.test)' : Flown(o)' => o = r.op
      BY <1>1, <2>6, <2>7
    <3>2. QED BY <2>1, <3>1 DEF Progress, Unsent, BeforeSend, Heeded, StartKept, Reserving, Archived
  <2>11. QED BY <1>1, <2>4, <2>5, <2>8, <2>9, <2>10 DEF SessionsKept, Only
<1>4. QED BY <1>2, <1>3 DEF Issue

-----------------------------------------------------------------------------
(* The device, the queries, control and death.                             *)

LEMMA DeliverSessions ==
  ASSUME HttpKept, HttpKept', SessionsKept, NEW o \in Ops, Deliver(o)
  PROVE  SessionsKept'
<1>1. UNCHANGED <<tasks, rows, sess, wire, query>>
  BY DEF Deliver, web, tables
<1>2. /\ \A p \in Ops : fate'[p] = fate[p] \/ (fate[p] = "flying" /\ fate'[p] \in {"acted", "refused", "lost"})
      /\ fate[o] = "flying" /\ fate'[o] \in {"acted", "refused"} /\ o \in DOMAIN rows
  BY DEF Deliver, HttpKept, RequestsKept, RowsTyped, FlownHaveRows
<1>3. FatesOn
  BY <1>2 DEF FatesOn, Flown
<1>4. SettledStays /\ SessionsStay /\ RowsStay
  BY <1>1 DEF SettledStays, SessionsStay, RowsStay, Open
<1>5. WireTrue'
  BY <1>1, <1>3 DEF SessionsKept, WireTrue, FatesOn
<1>6. RunSound'
  <2>1. CASE furnace'.run = furnace.run
    <3>1. \A t : \A p \in Starts(t) : p \in Ops
      BY DEF Starts, HttpKept, RequestsKept, RowsTyped
    <3>2. furnace'.ended = furnace.ended
      BY DEF Deliver, HttpKept, RequestsKept, RowsTyped
    <3>3. QED BY <1>1, <1>2, <2>1, <3>1, <3>2 DEF SessionsKept, RunSound, Open, Starts
  <2>2. CASE furnace'.run # furnace.run
    <3>1. furnace \in [run : Sessions \cup {None}, recipe : Ops \cup {None}, ended : SUBSET Sessions]
      BY DEF HttpKept, RequestsKept, RowsTyped
    <3>2. fate'[o] = "acted" /\ rows[o].posted.kind = "start" /\ furnace'.run = rows[o].posted.test
      BY <2>2, <3>1 DEF Deliver, HttpKept, RequestsKept, RowsTyped
    <3>3. rows[o].posted.test \in Tests
      BY <1>2 DEF HttpKept, RequestsKept, RowsTyped, RowType, Posted, Tests
    <3>4. o \in Starts(furnace'.run) /\ Open(furnace'.run)
      BY <1>2, <3>2, <3>3 DEF Starts, SessionsKept, StartsSound
    <3>5. furnace'.run \notin Histories
      BY <3>2, <3>3, HttpAssumption
    <3>6. QED BY <1>1, <3>2, <3>4, <3>5 DEF RunSound, Starts, Open
  <2>3. QED BY <2>1, <2>2
<1>7. QED BY <1>1, <1>3, <1>4, <1>5, <1>6, CalmAside DEF Calm

LEMMA LoseSessions ==
  ASSUME HttpKept, HttpKept', SessionsKept, NEW o \in Ops, Lose(o)
  PROVE  SessionsKept'
<1>1. UNCHANGED <<tasks, rows, sess, wire, query, furnace>>
  BY DEF Lose, web, tables
<1>2. \A p \in Ops : fate'[p] = fate[p] \/ (fate[p] = "flying" /\ fate'[p] = "lost")
  BY DEF Lose, HttpKept, RequestsKept, RowsTyped
<1>3. FatesOn
  BY <1>2 DEF FatesOn, Flown
<1>4. SettledStays /\ SessionsStay /\ RowsStay
  BY <1>1 DEF SettledStays, SessionsStay, RowsStay, Open
<1>5. WireTrue'
  BY <1>1, <1>3 DEF SessionsKept, WireTrue, FatesOn
<1>6. RunSound'
  <2>1. \A t : \A p \in Starts(t) : p \in Ops
    BY DEF Starts, HttpKept, RequestsKept, RowsTyped
  <2>2. QED BY <1>1, <1>2, <2>1 DEF SessionsKept, RunSound, AtRest, Open, Starts
<1>7. QED BY <1>1, <1>3, <1>4, <1>5, <1>6, CalmAside DEF Calm

(* The run that ends was the test's only start, or none of a test: nothing *)
(* waits for it.                                                           *)
LEMMA RunEndsSessions ==
  ASSUME HttpKept, HttpKept', SessionsKept, RunEnds
  PROVE  SessionsKept'
<1>1. UNCHANGED <<tasks, rows, wire, fate, query>> /\ furnace'.run = None
  BY DEF RunEnds, web, HttpKept, RequestsKept, RowsTyped
<1>2. FatesOn /\ SettledStays /\ RowsStay /\ WireTrue'
  BY <1>1, WireStays DEF FatesOn, Flown, RowsStay
<1>3. RunSound'
  BY <1>1, HttpAssumption DEF RunSound, Tests
<1>4. /\ DOMAIN sess' = DOMAIN sess
      /\ \A t : (Open(t)' => Open(t)) /\ (Open(t) /\ t # furnace.run => Open(t)')
  BY DEF RunEnds, Open
<1>5. furnace.run \in Tests => ~Needed(furnace.run)
  <2> SUFFICES ASSUME furnace.run \in Tests PROVE ~Needed(furnace.run)
    OBVIOUS
  <2>1. PICK p \in Starts(furnace.run) : fate[p] = "acted"
    BY DEF SessionsKept, RunSound
  <2>2. \A o \in Starts(furnace.run) : fate'[o] # "flying"
    BY <1>1, <2>1 DEF SessionsKept, StartsSound, Flown
  <2>3. ASSUME NEW q \in DOMAIN tasks, q.kind = "start", q.test = furnace.run, Archived(q) PROVE FALSE
    <3>1. p = q.op
      BY <2>1, <2>3 DEF SessionsKept, Progress, StartKept, Starting, Flown
    <3>2. ~Flown(q.op)
      BY <2>3 DEF SessionsKept, Progress, Unsent, BeforeSend, Archived
    <3>3. QED BY <2>1, <3>1, <3>2 DEF Flown
  <2>4. QED BY <2>2, <2>3 DEF Needed
<1>6. SessionsStay
  BY <1>4, <1>5 DEF SessionsStay
<1>7. QED BY <1>1, <1>2, <1>3, <1>6, CalmAside DEF Calm

(* A review opens a session beside the experiments, and closes one only    *)
(* when its run is over.                                                   *)
LEMMA ReviewSessions ==
  ASSUME HttpKept, HttpKept', SessionsKept, NEW h \in Histories, Review(h)
  PROVE  SessionsKept'
<1>1. UNCHANGED <<tasks, rows, wire, fate, furnace, query>> /\ h \notin Tests
  BY HttpAssumption DEF Review, BindHistory, HistoryConflicts, HistoryReplayed, web, board
<1>2. FatesOn /\ SettledStays /\ RowsStay /\ WireTrue'
  BY <1>1, WireStays DEF FatesOn, Flown, RowsStay
<1>3. DOMAIN sess' \subseteq DOMAIN sess \cup Histories /\ DOMAIN sess \subseteq DOMAIN sess'
  BY DEF Review, BindHistory, HistoryConflicts, HistoryReplayed, RowAdded
<1>4. \A t : t # h => (t \in DOMAIN sess' <=> t \in DOMAIN sess) /\ (Open(t)' <=> Open(t))
  BY DEF Review, BindHistory, HistoryConflicts, HistoryReplayed, RowAdded, Open
<1>5. SessionsStay
  BY <1>1, <1>3, <1>4 DEF SessionsStay
<1>6. h = furnace.run => h \notin furnace.ended /\ (h \in DOMAIN sess' => Open(h)')
  <2> SUFFICES ASSUME h = furnace.run
               PROVE  h \notin furnace.ended /\ (h \in DOMAIN sess' => Open(h)')
    OBVIOUS
  <2>1. h \notin furnace.ended /\ (h \in DOMAIN sess => Open(h))
    BY DEF SessionsKept, RunSound
  <2>2. CASE BindHistory(h)
    BY <2>1, <2>2 DEF BindHistory, RowAdded, Open
  <2>3. CASE HistoryConflicts(h)
    BY <2>1, <2>3 DEF HistoryConflicts, Open
  <2>4. QED BY <2>1, <2>2, <2>3 DEF Review, HistoryReplayed
<1>7. RunSound'
  <2>1. \A t : Starts(t)' = Starts(t)
    BY <1>1 DEF Starts
  <2>2. furnace.run \in Tests =>
          Open(furnace.run)' /\ \E o \in Starts(furnace.run)' : fate'[o] = "acted"
    BY <1>1, <1>4, <2>1 DEF SessionsKept, RunSound
  <2>3. furnace.run \in Histories =>
          furnace.run \notin furnace.ended /\ (furnace.run \in DOMAIN sess' => Open(furnace.run)')
    <3>1. CASE furnace.run = h
      BY <1>1, <1>6, <3>1 DEF Open
    <3>2. CASE furnace.run # h
      <4>1. furnace.run \in DOMAIN sess' <=> furnace.run \in DOMAIN sess
        BY <1>4, <3>2
      <4>2. Open(furnace.run)' <=> Open(furnace.run)
        BY <1>1, <1>4, <3>2 DEF Open
      <4>3. QED BY <4>1, <4>2 DEF SessionsKept, RunSound
    <3>3. QED BY <3>1, <3>2
  <2>4. QED BY <1>1, <2>2, <2>3 DEF RunSound, Open
<1>8. QED BY <1>1, <1>2, <1>5, <1>7, CalmAside DEF Calm

LEMMA AskSessions ==
  ASSUME HttpKept, HttpKept', SessionsKept, NEW o \in Ops, NEW b \in BOOLEAN, AskDevice(o, b)
  PROVE  SessionsKept'
<1>1. UNCHANGED <<tasks, rows, sess, wire, fate, furnace>> /\ query'.said = None
  BY DEF AskDevice, web, tables, board
<1>2. WireTrue' /\ SettledStays /\ RowsStay
  BY <1>1 DEF SessionsKept, WireTrue, Flown, SettledStays, RowsStay, None
<1>3. QED BY <1>1, <1>2, UnmovedCalm, CalmAside

LEMMA HearSessions == ASSUME HttpKept, HttpKept', SessionsKept, Hear PROVE SessionsKept'
<1>1. UNCHANGED <<tasks, rows, sess, fate, furnace>>
  BY DEF Hear, web, tables, board
<1>2. RowsStay
  BY <1>1 DEF RowsStay
<1>3. query \in [op : Ops, prerequisite : BOOLEAN, reconcile : BOOLEAN,
                  said : {None, "applied", "rejected", "not_found"}]
  BY DEF HttpKept, QueryTyped, Hear, NoQuery, None
<1> DEFINE rests(said) == query.reconcile /\ said = "not_found" /\ AtRest
<1>4. PICK said \in Answers(query) :
        /\ query' = IF query.reconcile /\ ~rests(said) THEN NoQuery ELSE [query EXCEPT !.said = said]
        /\ wire' = [wire EXCEPT ![query.op] = Queried(query, @, said, rests(said))]
  BY DEF Hear
<1>5. wire[query.op] \in WireType /\ wire \in [Ops -> WireType] /\ query.op \in Ops
  BY <1>3 DEF HttpKept, RequestsKept, RowsTyped
<1>6. /\ \A o \in Ops : o # query.op => wire'[o] = wire[o]
      /\ wire'[query.op].biz = IF query.prerequisite THEN wire[query.op].biz ELSE said
  BY <1>4, <1>5 DEF Queried, WireType
<1>7. ~query.prerequisite =>
        \/ wire[query.op].biz \in Settled /\ said = wire[query.op].biz
        \/ wire[query.op].biz \notin Settled /\ said = DeviceSays(query.op)
  BY <1>4 DEF Answers
<1>8. ~query.prerequisite => /\ said = "rejected" => fate[query.op] = "refused"
                             /\ said # "absent"
                             /\ wire[query.op].biz \in Settled => said \in Settled
  BY <1>5, <1>7, DeviceSaysTruly DEF SessionsKept, WireTrue, Settled
<1>9. WireTrue' /\ SettledStays
  <2>1. SettledStays
    BY <1>6, <1>8 DEF SettledStays
  <2>2. \A o \in Ops : /\ Flown(o)' => wire'[o].biz # "absent"
                       /\ wire'[o].biz = "rejected" => fate'[o] = "refused"
    BY <1>1, <1>6, <1>8 DEF SessionsKept, WireTrue, Flown
  <2>3. \A o \in Ops :
          query'.op = o /\ ~query'.prerequisite /\ query'.said = "rejected" => fate'[o] = "refused"
    <3>1. CASE query' = NoQuery
      BY <3>1, HttpAssumption DEF NoQuery, Ops
    <3>2. CASE query' = [query EXCEPT !.said = said]
      BY <1>1, <1>3, <1>8, <3>2
    <3>3. QED BY <1>4, <3>1, <3>2
  <2>4. QED BY <2>1, <2>2, <2>3 DEF WireTrue
<1>10. QED BY <1>1, <1>2, <1>9, UnmovedCalm, CalmAside

LEMMA NotedSessions == ASSUME HttpKept, HttpKept', SessionsKept, Noted PROVE SessionsKept'
<1>1. UNCHANGED <<tasks, wire, fate, furnace>> /\ query' = NoQuery
  BY DEF Noted, web, board
<1>2. query \in [op : Ops, prerequisite : BOOLEAN, reconcile : BOOLEAN,
                  said : {None, "applied", "rejected", "not_found"}]
  BY DEF HttpKept, QueryTyped, Noted, NoQuery, None
<1>3. RowsStay
  BY NotedRows
<1>4. WireTrue' /\ SettledStays /\ FatesOn
  BY <1>1, HttpAssumption DEF SessionsKept, WireTrue, Flown, SettledStays, FatesOn, NoQuery, Ops
<1>5. CASE sess' = sess
  BY <1>1, <1>3, <1>4, <1>5, UnmovedCalm, CalmAside
<1>6. CASE sess' # sess
  <2> DEFINE t == rows[query.op].posted.test
  <2>1. Closable(query) /\ sess' = [sess EXCEPT ![t] = "start_rejected"]
    BY <1>6 DEF Noted
  <2>2. fate[query.op] = "refused" /\ query.op \in DOMAIN rows
    BY <1>2, <2>1 DEF Closable, SessionsKept, WireTrue, HttpKept, FlownHaveRows
  <2>3. Open(t) /\ t \in Tests /\ query.op \in Starts(t) /\ furnace.run # t
    <3>1. t \in Tests
      BY <2>2 DEF HttpKept, RequestsKept, RowsTyped, RowType, Posted, Tests
    <3>2. QED BY <2>1, <2>2, <3>1 DEF Closable, Starts
  <2>4. NotStarted(t)
    BY <2>2, <2>3, RefusedNotStarted
  <2>5. /\ DOMAIN sess' = DOMAIN sess
        /\ \A u : (Open(u)' => Open(u)) /\ (Open(u) /\ u # t => Open(u)')
    BY <2>1, <2>3 DEF Open
  <2>6. ~Needed(t)
    BY <1>1, <2>4 DEF NotStarted, Needed
  <2>7. SessionsStay
    BY <2>5, <2>6 DEF SessionsStay
  <2>8. RunSound'
    BY <1>1, <1>3, <2>3, <2>5, StartsStay DEF Open, RunSound, SessionsKept, AtRest, HttpKept, RequestsKept
  <2>9. QED BY <1>1, <1>3, <1>4, <2>7, <2>8, CalmAside DEF Calm
<1>7. QED BY <1>5, <1>6

LEMMA DeathSessions == ASSUME HttpKept, HttpKept', SessionsKept, BackendDies PROVE SessionsKept'
<1>1. UNCHANGED <<sess, fate, furnace>> /\ query' = NoQuery
  BY DEF BackendDies
<1>2. \A r \in DOMAIN tasks' : tasks'[r].pc = "idle"
  BY DEF BackendDies
<1>3. RowsStay
  <2>1. ASSUME NEW o \in DOMAIN rows
        PROVE  rows'[o].posted = rows[o].posted
    <3>1. rows[o] \in RowType
      BY <2>1 DEF HttpKept, RequestsKept, RowsTyped
    <3>2. rows'[o] \in {rows[o], [rows[o] EXCEPT !.status = "unknown"]}
      BY <2>1 DEF BackendDies
    <3>3. QED BY <3>1, <3>2 DEF RowType
  <2>2. DOMAIN rows' = DOMAIN rows
    BY DEF BackendDies
  <2>3. QED BY <2>1, <2>2 DEF RowsStay
<1>4. \A o \in Ops : wire'[o].biz = IF wire[o].biz = "sent" THEN "unknown" ELSE wire[o].biz
  BY DEF BackendDies, HttpKept, RequestsKept, RowsTyped, WireType
<1>5. WireTrue' /\ SettledStays
  BY <1>1, <1>4, HttpAssumption DEF SessionsKept, WireTrue, Flown, SettledStays, Settled, NoQuery, Ops
<1>6. StartsSound' /\ RunSound'
  BY <1>1, <1>3, <1>5, UnmovedCalm, CalmStarts DEF Calm
<1>7. \A r \in DOMAIN tasks' : Progress(r)'
  BY <1>2 DEF Progress, Unsent, BeforeSend, Heeded, StartKept, Starting, Reserving, Archived
<1>8. QED BY <1>5, <1>6, <1>7 DEF SessionsKept

LEMMA ControlSessions ==
  ASSUME HttpKept, HttpKept', SessionsKept,
         UNCHANGED <<tasks, rows, sess, wire, fate, furnace, query>>
  PROVE  SessionsKept'
<1>1. RowsStay
  BY DEF RowsStay
<1>2. QED BY <1>1, WireStays, UnmovedCalm, CalmAside

LEMMA SessionsNext == HttpKept /\ HttpKept' /\ SessionsKept /\ [HttpNext]_httpVars => SessionsKept'
<1> SUFFICES ASSUME HttpKept, HttpKept', SessionsKept, [HttpNext]_httpVars PROVE SessionsKept'
  OBVIOUS
<1>1. CASE \E r \in DOMAIN tasks : RequestAction(r)
  BY <1>1, QuietSteps, InsertSessions, PreflightSessions, ReserveSessions, ArchiveSessions,
       LeaseSessions,
     IssueSessions, AnsweredSessions, ResultSessions, LifecycleSessions, FailedSessions DEF RequestAction
<1>2. CASE \E o \in Ops : Deliver(o) \/ Lose(o) \/ \E b \in BOOLEAN : AskDevice(o, b)
  BY <1>2, DeliverSessions, LoseSessions, AskSessions
<1>3. CASE RunEnds \/ BackendDies \/ Hear \/ Noted
  BY <1>3, RunEndsSessions, DeathSessions, HearSessions, NotedSessions
<1>4. CASE \E t \in Histories : Review(t)
  BY <1>4, ReviewSessions
<1>5. CASE ReleaseControl \/ (\E u \in Users : Claim(u)) \/ UNCHANGED httpVars
  BY <1>5, ControlSessions DEF ReleaseControl, Claim, web, board, httpVars
<1>6. QED BY <1>1, <1>2, <1>3, <1>4, <1>5 DEF HttpNext, RequestAction, Review

(* Whatever order starts, refusals, stops, queries, failures, restarts and *)
(* reviews of other runs come in: of the experiments started here at most  *)
(* one is open, and no session is closed over the run the device carries   *)
(* out: _reserve_start, _handle_lifecycle, the except clause of _execute   *)
(* and _close_rejected_start.                                              *)
THEOREM SessionsAreSound == HttpSpec => []SessionsSound
<1>1. HttpInit => SessionsKept
  BY SessionsInit
<1>2. SessionsKept => SessionsSound
  <2> SUFFICES ASSUME SessionsKept PROVE SessionsSound
    OBVIOUS
  <2>1. StartedStaysOpen
    <3>1. furnace.run \in DOMAIN sess => furnace.run \in Sessions
      BY DEF SessionsKept, StartsSound
    <3>2. QED BY <3>1 DEF SessionsKept, RunSound, StartedStaysOpen, Open, Sessions
  <2>2. PICK opened : opened = {t \in Tests : Open(t)}
    OBVIOUS
  <2>3. opened = {} \/ \E t \in Tests : opened = {t}
    BY <2>2 DEF SessionsKept, StartsSound
  <2>4. Cardinality(opened) \in {0, 1}
    BY <2>3, FS_EmptySet, FS_Singleton
  <2>5. Cardinality(opened) <= 1
    BY <2>4
  <2>6. OneOpenSession
    BY <2>2, <2>5 DEF OneOpenSession
  <2>7. QED BY <2>1, <2>6 DEF SessionsSound
<1>3. QED BY <1>1, <1>2, SessionsNext, HttpInvariant, PTL DEF HttpSpec

-----------------------------------------------------------------------------
(* Types: sessions, bindings and control are of the tests and users posted.*)

ControlTyped ==
  /\ DOMAIN sess \subseteq Sessions /\ bound \subseteq Sessions
  /\ review \in [Histories -> {"unreviewed", "bound", "conflict"}]
  /\ owner \in Users \cup {Nobody} /\ reserved \in Tests \cup {None}

LEMMA ControlStays == ControlTyped /\ UNCHANGED <<sess, bound, review, owner, reserved>> => ControlTyped'
BY DEF ControlTyped

LEMMA ControlRequest ==
  ASSUME RowsTyped, ControlTyped, NEW r \in DOMAIN tasks, RequestAction(r)
  PROVE  ControlTyped'
<1>1. r.test \in Tests /\ r.user \in Users
  BY RequestTyped
<1>2. CASE LookUp(r) \/ Insert(r) \/ Preflight(r) \/ MarkedSent(r) \/ LeaseAsked(r) \/ Leased(r)
           \/ Answered(r) \/ ResultRecorded(r) \/ ReadBack(r) \/ Raised(r)
  <2>1. UNCHANGED <<sess, bound, review, owner, reserved>>
    BY <1>2 DEF LookUp, Insert, Preflight, MarkedSent, LeaseAsked, Leased, Answered, ResultRecorded,
       ReadBack, Raised, tables
  <2>2. QED BY <2>1, ControlStays
<1>3. CASE Reserve(r)
  BY <1>1, <1>3 DEF Reserve, ControlTyped, tables
<1>4. CASE TakeControl(r)
  BY <1>1, <1>4 DEF TakeControl, ControlTyped
<1>5. CASE Archive(r)
  BY <1>1, <1>5 DEF Archive, RowAdded, ControlTyped, Sessions
<1>6. CASE Issue(r)
  BY <1>1, <1>6 DEF Issue, ControlTyped, Sessions
<1>7. CASE Lifecycle(r) \/ Failed(r)
  <2>1. DOMAIN sess' = DOMAIN sess /\ UNCHANGED <<bound, review, owner, reserved>>
    BY <1>7 DEF Lifecycle, Failed
  <2>2. QED BY <2>1 DEF ControlTyped
<1>8. CASE Conclude(r) \/ RefusalRecorded(r)
  BY <1>8 DEF Conclude, RefusalRecorded, Finish, ControlTyped
<1>9. QED BY <1>2, <1>3, <1>4, <1>5, <1>6, <1>7, <1>8 DEF RequestAction

LEMMA ControlAside == ASSUME ControlTyped, [HttpNext]_httpVars,
                             ~ \E r \in DOMAIN tasks : RequestAction(r)
                      PROVE  ControlTyped'
<1>1. CASE \E o \in Ops : Deliver(o) \/ Lose(o) \/ \E b \in BOOLEAN : AskDevice(o, b)
  BY <1>1, ControlStays DEF Deliver, Lose, AskDevice, web, tables
<1>2. CASE \E u \in Users : Claim(u)
  BY <1>2 DEF Claim, ControlTyped, web
<1>3. CASE RunEnds \/ Noted
  <2>1. DOMAIN sess' = DOMAIN sess /\ UNCHANGED <<bound, review, owner, reserved>>
    BY <1>3 DEF RunEnds, Noted, web
  <2>2. QED BY <2>1 DEF ControlTyped
<1>4. CASE BackendDies
  BY <1>4 DEF BackendDies, ControlTyped
<1>5. CASE Hear \/ UNCHANGED httpVars
  BY <1>5, ControlStays DEF Hear, httpVars, web, tables
<1>6. CASE ReleaseControl
  BY <1>6 DEF ReleaseControl, ControlTyped, web
<1>7. CASE \E t \in Histories : Review(t)
  BY <1>7 DEF Review, BindHistory, HistoryConflicts, HistoryReplayed, RowAdded, ControlTyped, Sessions, web
<1>8. QED BY <1>1, <1>2, <1>3, <1>4, <1>5, <1>6, <1>7 DEF HttpNext, RequestAction, Review

(* Whatever is posted, queried or claimed, in whatever order: rows are of  *)
(* operations posted, and sessions, bindings, the reservation, the owner   *)
(* of control and the board's run of the tests and users they name.        *)
THEOREM HttpTypeSafe == HttpSpec => []HttpTypeOK
<1>1. HttpInit => ControlTyped
  BY DEF HttpInit, ControlTyped, Sessions
<1>2. HttpKept /\ ControlTyped /\ [HttpNext]_httpVars => ControlTyped'
  BY ControlRequest, ControlAside DEF HttpKept, RequestsKept
<1>3. HttpKept /\ ControlTyped => HttpTypeOK
  <2> SUFFICES ASSUME HttpKept, ControlTyped PROVE HttpTypeOK
    OBVIOUS
  <2>1. RowsTyped
    BY DEF HttpKept, RequestsKept
  <2>2. \A o \in DOMAIN rows :
          rows[o].status \in {"pending", "sent", "accepted", "verified", "rejected", "unknown"}
    BY <2>1 DEF RowsTyped, RowType, Statuses, Stages
  <2>3. furnace.run \in Sessions \cup {None}
    BY <2>1 DEF RowsTyped
  <2>4. QED BY <2>1, <2>2, <2>3 DEF HttpTypeOK, ControlTyped, RowsTyped, Sessions
<1>4. QED BY <1>1, <1>2, <1>3, HttpInvariant, PTL DEF HttpSpec

-----------------------------------------------------------------------------
(***************************************************************************)
(* The gate in front of the commands: MaintenanceGate, for any finite sets *)
(* of work and any number of requests and faults.                          *)
(*                                                                         *)
(* The inductive invariant is Safe.  Engaged orders the numbers of the     *)
(* request, of the one worked on and of the one answered; Quiet says how   *)
(* far the drain has got at each step of the bridge; Ordered ties the gate *)
(* to the step of the bridge and to the installer.                         *)
(***************************************************************************)
BridgeStages == {"idle", "look", "drain", "lock_operation", "lock_priority", "locked", "assess", "close"}
States == {"none", "blocked", "rejected", "confirmation_required", "authorized"}

FilesTyped ==
  /\ request \in 0..MaxRequests
  /\ attested \subseteq Ids
  /\ expired \subseteq Ids
  /\ gate \in 0..MaxRequests
  /\ reply \in [id : 0..MaxRequests, state : States]
  /\ granted \subseteq Ids

BackendTyped ==
  /\ up \in BOOLEAN
  /\ at \in [Work -> {"none", "admitted", "inside", "leaving"}]
  /\ pending \in BOOLEAN
  /\ bridge \in [at : BridgeStages, req : 0..MaxRequests]

OthersTyped ==
  /\ device \in {"idle", "running"}
  /\ known \in BOOLEAN
  /\ installer \in [at : {"idle", "waiting", "installing", "starting"}, id : 0..MaxRequests]
  /\ asked \in 0..MaxRequests
  /\ faults \in 0..MaxFaults

(* Everything but the count.                                                *)
Typed == FilesTyped /\ BackendTyped /\ OthersTyped

(* The bridge works on a request that was made, and whose number is at      *)
(* least that of the request answered last.                                 *)
Engaged ==
  /\ request = asked
  /\ bridge.req <= request
  /\ reply.id <= request
  /\ bridge.at # "idle" => bridge.req # 0 /\ reply.id <= bridge.req
  /\ bridge.at \in BridgeStages \ {"idle", "look"} => pending

Counted == count = Cardinality(Business)

NoneReads == \A w \in Reads : at[w] # "inside"

Quiet ==
  /\ bridge.at \in BridgeStages \ {"idle", "look", "drain"} => Business = {}
  /\ bridge.at \in BridgeStages \ {"idle", "look", "drain", "lock_operation"} => NoneReads
  /\ gate # 0 => Business = {} /\ NoneReads

Ordered ==
  /\ bridge.at = "assess" => gate = 0
  /\ bridge.at \in {"assess", "close"} => reply.id # bridge.req
  /\ bridge.at = "close" => gate = bridge.req /\ installer.at # "starting"
  /\ installer.at = "starting" => gate # 0
  /\ installer.at \in {"waiting", "installing"} => installer.id # 0
  /\ \A g \in granted : g <= reply.id

Safe == Typed /\ Engaged /\ Counted /\ Quiet /\ Ordered /\ UnconfirmedIsIdle /\ AuthorizedIsClosed

-----------------------------------------------------------------------------
LEMMA Bounds == MaxRequests \in Nat /\ MaxFaults \in Nat
  BY WorkAssumption

(* A step of the bridge leaves the work, the device and the installer be.   *)
LEMMA BridgeAlone ==
  Bridge => UNCHANGED <<request, attested, expired, up, at, count, device, known, installer, asked>>
<1> USE DEF asking, files, world, Rest, GoOn, Answer
<1>1. Poll => UNCHANGED <<request, attested, expired, up, at, count, device, known, installer, asked>>
  BY DEF Poll
<1>2. Look => UNCHANGED <<request, attested, expired, up, at, count, device, known, installer, asked>>
  BY DEF Look
<1>3. Drain \/ LockOperation \/ LockPriority
        => UNCHANGED <<request, attested, expired, up, at, count, device, known, installer, asked>>
  BY DEF Drain, LockOperation, LockPriority
<1>4. DrainTimeout => UNCHANGED <<request, attested, expired, up, at, count, device, known, installer, asked>>
  BY DEF DrainTimeout
<1>5. Decide => UNCHANGED <<request, attested, expired, up, at, count, device, known, installer, asked>>
  BY DEF Decide
<1>6. Assess => UNCHANGED <<request, attested, expired, up, at, count, device, known, installer, asked>>
  BY DEF Assess
<1>7. Authorize => UNCHANGED <<request, attested, expired, up, at, count, device, known, installer, asked>>
  BY DEF Authorize, Fault
<1>8. QED BY <1>1, <1>2, <1>3, <1>4, <1>5, <1>6, <1>7 DEF Bridge

(* What a step of the bridge may do to its own step, the gate and the       *)
(* answer; the other invariants need no more than this.                     *)
BridgeStep ==
  \/ (* the request is picked up *)
     /\ bridge = Resting /\ request # 0
     /\ UNCHANGED <<gate, reply, granted>>
     /\ \/ bridge' = [at |-> "look", req |-> request] /\ pending' = pending
        \/ bridge' = [at |-> "drain", req |-> request] /\ pending' = TRUE
  \/ (* admission is closed *)
     /\ UNCHANGED <<gate, reply, granted>>
     /\ bridge.at = "look" /\ bridge' = [at |-> "drain", req |-> bridge.req] /\ pending' = TRUE
  \/ (* one more of the drain and the locks *)
     /\ UNCHANGED <<gate, reply, granted, pending>>
     /\ \/ bridge.at = "drain" /\ Drained /\ bridge' = [bridge EXCEPT !.at = "lock_operation"]
        \/ bridge.at = "lock_operation" /\ ~OperationLocked
             /\ bridge' = [bridge EXCEPT !.at = "lock_priority"]
        \/ bridge.at = "lock_priority" /\ bridge' = [bridge EXCEPT !.at = "locked"]
        \/ bridge.at = "locked" /\ ~AlreadyAnswered(bridge.req) /\ gate = 0
             /\ bridge' = [bridge EXCEPT !.at = "assess"]
  \/ (* the gate *)
     /\ bridge.at = "assess" /\ MayGrant(bridge.req)
     /\ gate' = bridge.req
     /\ bridge' = [bridge EXCEPT !.at = "close"]
     /\ UNCHANGED <<reply, granted, pending>>
  \/ (* the end, with or without an answer *)
     /\ bridge.at # "idle"
     /\ bridge' = Resting /\ pending' = FALSE /\ gate' = gate
     /\ \/ UNCHANGED <<reply, granted>>
        \/ \E s \in States \ {"authorized"} : reply' = [id |-> bridge.req, state |-> s]
             /\ granted' = granted
        \/ reply' = [id |-> bridge.req, state |-> "authorized"] /\ granted' = granted \cup {bridge.req}
             /\ (bridge.at = "close" \/ gate = bridge.req)

LEMMA BridgeSteps == Bridge => BridgeStep
<1> USE DEF asking, files, world
<1>1. Poll => BridgeStep
  BY DEF Poll, CloseAdmission, BridgeStep
<1>2. Look => BridgeStep
  <2> SUFFICES ASSUME Look PROVE BridgeStep
    OBVIOUS
  <2>1. CASE Assessment = "busy"
    <3>1. Rest /\ bridge.at = "look" /\ gate' = gate
      BY <2>1 DEF Look
    <3>2. reply' = [id |-> bridge.req, state |-> "blocked"] /\ granted' = granted
      BY <2>1 DEF Look, Answer
    <3>3. "blocked" \in States \ {"authorized"}
      BY DEF States
    <3>4. QED BY <3>1, <3>2, <3>3 DEF Rest, BridgeStep
  <2>2. CASE Assessment # "busy"
    BY <2>2 DEF Look, CloseAdmission, BridgeStep
  <2>3. QED BY <2>1, <2>2
<1>3. Drain \/ LockOperation \/ LockPriority => BridgeStep
  BY DEF Drain, LockOperation, LockPriority, GoOn, BridgeStep
<1>4. DrainTimeout => BridgeStep
  <2> SUFFICES ASSUME DrainTimeout PROVE BridgeStep
    OBVIOUS
  <2>1. bridge.at # "idle"
    BY DEF DrainTimeout, Waiting
  <2>2. reply' = [id |-> bridge.req, state |-> "blocked"] /\ granted' = granted
    BY DEF DrainTimeout, Answer
  <2>3. bridge' = Resting /\ pending' = FALSE /\ gate' = gate
    BY DEF DrainTimeout, Rest
  <2>4. "blocked" \in States \ {"authorized"}
    BY DEF States
  <2>5. QED BY <2>1, <2>2, <2>3, <2>4 DEF BridgeStep
<1>5. Decide => BridgeStep
  <2> SUFFICES ASSUME Decide PROVE BridgeStep
    OBVIOUS
  <2>1. bridge.at = "locked" /\ gate' = gate
    BY DEF Decide
  <2>2. CASE AlreadyAnswered(bridge.req)
    <3>1. Rest
      BY <2>2 DEF Decide
    <3>2. \/ UNCHANGED <<reply, granted>>
          \/ reply' = [id |-> bridge.req, state |-> "rejected"] /\ granted' = granted
      BY <2>2 DEF Decide, Answer
    <3>3. "rejected" \in States \ {"authorized"}
      BY DEF States
    <3>4. QED BY <2>1, <3>1, <3>2, <3>3 DEF Rest, BridgeStep
  <2>3. CASE ~AlreadyAnswered(bridge.req) /\ bridge.req \notin expired /\ gate = 0
    BY <2>1, <2>3 DEF Decide, GoOn, BridgeStep
  <2>4. CASE ~AlreadyAnswered(bridge.req) /\ ~(bridge.req \notin expired /\ gate = 0)
    <3>1. Rest
      BY <2>4 DEF Decide
    <3>2. \/ \E s \in {"rejected", "blocked"} : reply' = [id |-> bridge.req, state |-> s]
               /\ granted' = granted
          \/ /\ reply' = [id |-> bridge.req, state |-> "authorized"]
             /\ granted' = granted \cup {bridge.req}
             /\ gate = bridge.req
      BY <2>4 DEF Decide, Answer, Unanswered
    <3>3. {"rejected", "blocked"} \subseteq States \ {"authorized"}
      BY DEF States
    <3>4. QED BY <2>1, <3>1, <3>2, <3>3 DEF Rest, BridgeStep
  <2>5. QED BY <2>2, <2>3, <2>4
<1>6. Assess => BridgeStep
  <2> SUFFICES ASSUME Assess PROVE BridgeStep
    OBVIOUS
  <2>1. CASE MayGrant(bridge.req)
    BY <2>1 DEF Assess, GoOn, BridgeStep
  <2>2. CASE ~MayGrant(bridge.req)
    <3>1. Rest /\ bridge.at = "assess" /\ gate' = gate
      BY <2>2 DEF Assess
    <3>2. \E s \in {"blocked", "confirmation_required"} :
            reply' = [id |-> bridge.req, state |-> s] /\ granted' = granted
      BY <2>2 DEF Assess, Answer
    <3>3. {"blocked", "confirmation_required"} \subseteq States \ {"authorized"}
      BY DEF States
    <3>4. QED BY <3>1, <3>2, <3>3 DEF Rest, BridgeStep
  <2>3. QED BY <2>1, <2>2
<1>7. Authorize => BridgeStep
  BY DEF Authorize, Rest, Answer, BridgeStep
<1>8. QED BY <1>1, <1>2, <1>3, <1>4, <1>5, <1>6, <1>7 DEF Bridge
-----------------------------------------------------------------------------
LEMMA TypedStep == Typed /\ Engaged /\ [Next]_vars => Typed'
<1> SUFFICES ASSUME Typed, Engaged, [Next]_vars PROVE Typed'
  OBVIOUS
<1> USE DEF files, asking, world
<1>1. CASE UNCHANGED vars
  BY <1>1 DEF vars, Typed, FilesTyped, BackendTyped, OthersTyped, Ids
<1>2. ASSUME NEW w \in Work, WorkStep(w) PROVE Typed'
  <2>1. UNCHANGED <<request, attested, expired, gate, reply, granted>> => FilesTyped'
    BY DEF Typed, FilesTyped, Ids
  <2>2. UNCHANGED <<request, attested, expired, gate, reply, granted, up, pending, bridge, installer, asked, faults>>
    BY <1>2 DEF WorkStep, Admit, Enter, Act, Release
  <2>3. at' \in [Work -> {"none", "admitted", "inside", "leaving"}]
    BY <1>2 DEF WorkStep, Admit, Enter, Act, Release, Typed, BackendTyped
  <2>4. device' \in {"idle", "running"} /\ known' \in BOOLEAN
    BY <1>2 DEF WorkStep, Admit, Enter, Act, Release, Typed, OthersTyped
  <2>5. QED BY <2>1, <2>2, <2>3, <2>4 DEF Typed, BackendTyped, OthersTyped
<1>3. CASE Bridge
  <2>1. OthersTyped' /\ UNCHANGED <<request, attested, expired, up, at>>
    <3>1. faults' \in 0..MaxFaults
      BY <1>3, Bounds DEF Bridge, Poll, Look, Drain, LockOperation, LockPriority, DrainTimeout, Decide,
           Assess, Authorize,
         Fault, Typed, OthersTyped
    <3>2. QED BY <1>3, <3>1, BridgeAlone DEF Typed, OthersTyped
  <2>2. /\ bridge.req \in 0..MaxRequests /\ bridge.at \in BridgeStages /\ request \in 0..MaxRequests
        /\ bridge.at # "idle" => bridge.req \in Ids
    BY Bounds DEF Typed, FilesTyped, BackendTyped, Engaged, Ids
  <2>3. gate' \in 0..MaxRequests /\ granted' \subseteq Ids
    BY <1>3, BridgeSteps, <2>2 DEF BridgeStep, Typed, FilesTyped
  <2>4. reply' \in [id : 0..MaxRequests, state : States]
    BY <1>3, BridgeSteps, <2>2 DEF BridgeStep, Typed, FilesTyped, States
  <2>5. bridge' \in [at : BridgeStages, req : 0..MaxRequests]
    <3>1. bridge \in [at : BridgeStages, req : 0..MaxRequests]
      BY DEF Typed, BackendTyped
    <3>2. \A s \in BridgeStages : [bridge EXCEPT !.at = s] \in [at : BridgeStages, req : 0..MaxRequests]
      BY <3>1
    <3>3. /\ Resting \in [at : BridgeStages, req : 0..MaxRequests]
          /\ [at |-> "look", req |-> request] \in [at : BridgeStages, req : 0..MaxRequests]
          /\ \A r \in {request, bridge.req} : [at |-> "drain", req |-> r] \in [at : BridgeStages, req : 0..MaxRequests]
      BY <2>2, Bounds DEF Resting, BridgeStages
    <3>4. \/ bridge' \in {bridge, Resting, [at |-> "look", req |-> request]}
          \/ bridge' \in {[at |-> "drain", req |-> request], [at |-> "drain", req |-> bridge.req]}
          \/ \E s \in BridgeStages : bridge' = [bridge EXCEPT !.at = s]
      BY <1>3, BridgeSteps DEF BridgeStep, BridgeStages
    <3>5. QED BY <3>1, <3>2, <3>3, <3>4
  <2>6. pending' \in BOOLEAN
    BY <1>3, BridgeSteps DEF BridgeStep, Typed, BackendTyped
  <2>7. QED BY <2>1, <2>3, <2>4, <2>5, <2>6 DEF Typed, FilesTyped, BackendTyped
<1>4. CASE Ask
  <2>1. asked + 1 \in Ids
    BY <1>4, Bounds DEF Ask, Typed, OthersTyped, Ids
  <2>2. FilesTyped'
    BY <1>4, <2>1 DEF Ask, Typed, FilesTyped, Ids
  <2>3. BackendTyped'
    BY <1>4 DEF Ask, Typed, BackendTyped
  <2>4. OthersTyped'
    BY <1>4, <2>1 DEF Ask, Typed, OthersTyped, Ids
  <2>5. QED BY <2>2, <2>3, <2>4 DEF Typed
<1>5. CASE Receive \/ GiveUp
  <2>1. FilesTyped' /\ BackendTyped'
    <3>1. UNCHANGED <<request, attested, gate, reply, granted, up, at, pending, bridge>>
      BY <1>5 DEF Receive, GiveUp
    <3>2. expired' \subseteq Ids
      BY <1>5 DEF Receive, GiveUp, Typed, FilesTyped
    <3>3. QED BY <3>1, <3>2 DEF Typed, FilesTyped, BackendTyped, Ids
  <2>2. OthersTyped'
    BY <1>5, Bounds DEF Receive, GiveUp, Fault, Away, Typed, OthersTyped
  <2>3. QED BY <2>1, <2>2 DEF Typed
<1>6. CASE Expire
  <2>1. expired' \subseteq Ids
    BY <1>6, Bounds DEF Expire, Typed, FilesTyped, OthersTyped, Ids
  <2>2. FilesTyped'
    BY <1>6, <2>1 DEF Expire, Typed, FilesTyped, Ids
  <2>3. BackendTyped' /\ OthersTyped'
    BY <1>6 DEF Expire, Typed, BackendTyped, OthersTyped
  <2>4. QED BY <2>2, <2>3 DEF Typed
<1>7. CASE StopBackend \/ Crash
  <2>1. FilesTyped'
    BY <1>7 DEF StopBackend, Crash, Typed, FilesTyped, Ids
  <2>2. Resting \in [at : BridgeStages, req : 0..MaxRequests]
    BY Bounds DEF Resting, BridgeStages
  <2>3. BackendTyped'
    BY <1>7, <2>2 DEF StopBackend, Crash, Ended, BackendTyped
  <2>4. installer' \in [at : {"idle", "waiting", "installing", "starting"}, id : 0..MaxRequests]
    BY <1>7 DEF StopBackend, Crash, Typed, OthersTyped, FilesTyped
  <2>5. OthersTyped'
    BY <1>7, <2>4, Bounds DEF StopBackend, Crash, Fault, Typed, OthersTyped
  <2>6. QED BY <2>1, <2>3, <2>5 DEF Typed
<1>8. CASE StartBackend \/ OpenGate
  <2>1. FilesTyped'
    <3>1. UNCHANGED <<request, attested, expired, reply, granted>> /\ gate' \in {gate, 0}
      BY <1>8 DEF StartBackend, OpenGate
    <3>2. QED BY <3>1, Bounds DEF Typed, FilesTyped, Ids
  <2>2. BackendTyped'
    BY <1>8 DEF StartBackend, OpenGate, Typed, BackendTyped
  <2>3. OthersTyped'
    BY <1>8, Bounds DEF StartBackend, OpenGate, Away, Typed, OthersTyped
  <2>4. QED BY <2>1, <2>2, <2>3 DEF Typed
<1>9. CASE DeviceChanges
  BY <1>9 DEF DeviceChanges, Typed, FilesTyped, BackendTyped, OthersTyped, Ids
<1>10. QED
  BY <1>1, <1>2, <1>3, <1>4, <1>5, <1>6, <1>7, <1>8, <1>9 DEF Next, Installer

LEMMA EngagedStep == Typed /\ Engaged /\ [Next]_vars => Engaged'
<1> SUFFICES ASSUME Typed, Engaged, [Next]_vars PROVE Engaged'
  OBVIOUS
<1> USE DEF files, asking, world
<1>0. request \in Nat /\ asked \in Nat /\ bridge.req \in Nat /\ reply.id \in Nat
  BY Bounds DEF Typed, FilesTyped, BackendTyped, OthersTyped
<1>1. CASE UNCHANGED vars
  BY <1>1 DEF vars, Engaged
<1>2. ASSUME NEW w \in Work, WorkStep(w) PROVE Engaged'
  BY <1>2 DEF WorkStep, Admit, Enter, Act, Release, Engaged
<1>3. CASE Bridge
  <2>1. request' = request /\ asked' = asked
    BY <1>3, BridgeAlone
  <2>2. bridge'.req <= request /\ reply'.id <= request
    BY <1>0, <1>3, BridgeSteps DEF BridgeStep, Engaged, Resting, Typed, BackendTyped
  <2>3. bridge'.at # "idle" => bridge'.req # 0 /\ reply'.id <= bridge'.req
    BY <1>0, <1>3, BridgeSteps DEF BridgeStep, Engaged, Resting, Typed, BackendTyped
  <2>4. bridge'.at \in BridgeStages \ {"idle", "look"} => pending'
    BY <1>3, BridgeSteps DEF BridgeStep, Engaged, Resting, BridgeStages
  <2>5. QED BY <2>1, <2>2, <2>3, <2>4 DEF Engaged
<1>4. CASE Ask
  BY <1>0, <1>4 DEF Ask, Engaged
<1>5. CASE Receive \/ GiveUp \/ Expire \/ StartBackend \/ OpenGate \/ DeviceChanges
  BY <1>5 DEF Receive, GiveUp, Expire, StartBackend, OpenGate, DeviceChanges, Engaged
<1>6. CASE StopBackend \/ Crash
  BY <1>0, <1>6 DEF StopBackend, Crash, Ended, Resting, Engaged
<1>7. QED
  BY <1>1, <1>2, <1>3, <1>4, <1>5, <1>6 DEF Next, Installer
-----------------------------------------------------------------------------
LEMMA BusinessFinite == IsFiniteSet(Business) /\ Cardinality(Business) \in 0..Cardinality(Work)
<1>1. IsFiniteSet(Work) /\ Business \subseteq Work
  BY WorkAssumption DEF Business
<1>2. QED BY <1>1, FS_Subset, FS_CardinalityType

(* The count follows the work that is in progress.                          *)
LEMMA CountedStep == Typed /\ Counted /\ [Next]_vars => Counted'
<1> SUFFICES ASSUME Typed, Counted, [Next]_vars PROVE Counted'
  OBVIOUS
<1> USE DEF files, asking, world
<1>1. CASE UNCHANGED <<at, count>>
  BY <1>1 DEF Counted, Business
<1>2. ASSUME NEW w \in Work, WorkStep(w) PROVE Counted'
  <2> USE DEF Typed, BackendTyped
  <2>1. CASE Admit(w)
    <3>1. Business' = Business \cup {w} /\ w \notin Business
      BY <2>1 DEF Admit, Business
    <3>2. Cardinality(Business') = Cardinality(Business) + 1
      BY <3>1, BusinessFinite, FS_AddElement
    <3>3. QED BY <2>1, <3>2 DEF Admit, Counted
  <2>2. CASE Enter(w) \/ Act(w)
    <3>1. Business' = Business
      BY <2>2 DEF Enter, Act, Business
    <3>2. QED BY <2>2, <3>1 DEF Enter, Act, Counted
  <2>3. CASE Release(w) /\ w \in Reads
    <3>1. Business' = Business
      BY <2>3 DEF Release, Business
    <3>2. QED BY <2>3, <3>1 DEF Release, Uncounted, Counted
  <2>4. CASE Release(w) /\ w \notin Reads
    <3>1. Business' = Business \ {w} /\ w \in Business
      BY <2>4 DEF Release, Business
    <3>2. Cardinality(Business') = Cardinality(Business) - 1
      BY <3>1, BusinessFinite, FS_RemoveElement
    <3>3. QED BY <2>4, <3>2 DEF Release, Uncounted, Counted
  <2>5. QED BY <1>2, <2>1, <2>2, <2>3, <2>4 DEF WorkStep
<1>3. CASE StopBackend \/ Crash
  <2>1. Business' = {} /\ count' = 0
    BY <1>3 DEF StopBackend, Crash, Ended, Business
  <2>2. QED BY <2>1, FS_EmptySet DEF Counted
<1>4. CASE Bridge
  BY <1>1, <1>4, BridgeAlone
<1>5. CASE Ask \/ Receive \/ GiveUp \/ Expire \/ StartBackend \/ OpenGate \/ DeviceChanges
  BY <1>1, <1>5 DEF Ask, Receive, GiveUp, Expire, StartBackend, OpenGate, DeviceChanges
<1>6. QED
  BY <1>1, <1>2, <1>3, <1>4, <1>5 DEF Next, Installer, vars

(* What the drain has got, no piece of work takes back.                     *)
LEMMA GateQuietStep == Typed /\ Engaged /\ Counted /\ Quiet /\ [Next]_vars => Quiet'
<1> SUFFICES ASSUME Typed, Engaged, Counted, Quiet, [Next]_vars PROVE Quiet'
  OBVIOUS
<1> USE DEF files, asking, world
<1>1. CASE UNCHANGED <<at, bridge>> /\ gate' \in {gate, 0}
  BY <1>1 DEF Quiet, Business, NoneReads
<1>2. ASSUME NEW w \in Work, WorkStep(w) PROVE Quiet'
  <2>1. gate' = gate /\ bridge' = bridge
    BY <1>2 DEF WorkStep, Admit, Enter, Act, Release
  <2>2. CASE Admit(w)
    <3>1. ~pending /\ gate = 0
      BY <2>2 DEF Admit, MayAdmit
    <3>2. bridge.at \in {"idle", "look"}
      BY <3>1 DEF Engaged, Typed, BackendTyped
    <3>3. QED BY <2>1, <3>1, <3>2 DEF Quiet
  <2>3. CASE ~Admit(w)
    <3>1. Business = {} => Business' = {}
      BY <1>2, <2>3 DEF WorkStep, Enter, Act, Release, Business, Typed, BackendTyped
    <3>2. NoneReads /\ gate # 0 => NoneReads'
      BY <1>2, <2>3 DEF WorkStep, Enter, Act, Release, NoneReads, Work, Typed, BackendTyped
    <3>3. NoneReads /\ bridge.at \in {"lock_priority", "locked", "assess", "close"} => NoneReads'
      <4>1. OperationLocked /\ w \in Reads => ~Enter(w)
        BY WorkAssumption DEF Enter
      <4>2. bridge.at \in {"lock_priority", "locked", "assess", "close"} => OperationLocked
        BY DEF OperationLocked
      <4>3. QED
        BY <1>2, <2>3, <4>1, <4>2 DEF WorkStep, Enter, Act, Release, NoneReads, Work, Typed,
             BackendTyped
    <3>4. QED BY <2>1, <3>1, <3>2, <3>3 DEF Quiet, BridgeStages
  <2>4. QED BY <2>2, <2>3
<1>3. CASE Bridge
  <2>1. at' = at /\ Business' = Business /\ (NoneReads' <=> NoneReads)
    BY <1>3, BridgeAlone DEF Business, NoneReads
  <2>2. Drained => Business = {}
    BY BusinessFinite, FS_EmptySet DEF Drained, Counted
  <2>3. ~OperationLocked => NoneReads
    BY DEF OperationLocked, NoneReads
  <2>4. bridge \in [at : BridgeStages, req : 0..MaxRequests]
    BY DEF Typed, BackendTyped
  <2>5. QED
    BY <1>3, <2>1, <2>2, <2>3, <2>4, BridgeSteps DEF BridgeStep, Quiet, Resting, BridgeStages
<1>4. CASE StopBackend \/ Crash
  <2>1. at' = [v \in Work |-> "none"] /\ bridge'.at = "idle"
    BY <1>4 DEF StopBackend, Crash, Ended, Resting
  <2>2. Business' = {} /\ NoneReads'
    BY <2>1 DEF Business, NoneReads, Work
  <2>3. QED BY <2>1, <2>2 DEF Quiet
<1>5. CASE Ask \/ Receive \/ GiveUp \/ Expire \/ StartBackend \/ OpenGate \/ DeviceChanges
  BY <1>1, <1>5 DEF Ask, Receive, GiveUp, Expire, StartBackend, OpenGate, DeviceChanges
<1>6. QED
  BY <1>1, <1>2, <1>3, <1>4, <1>5 DEF Next, Installer, vars
-----------------------------------------------------------------------------
LEMMA NoneInside == Quiet /\ gate # 0 => ClosedIsQuiet /\ \A w \in Work : at[w] # "inside"
  BY DEF Quiet, ClosedIsQuiet, NoneReads, Business

LEMMA OrderedStep ==
  Typed /\ Engaged /\ Ordered /\ AuthorizedIsClosed /\ [Next]_vars => Ordered'
<1> SUFFICES ASSUME Typed, Engaged, Ordered, AuthorizedIsClosed, [Next]_vars PROVE Ordered'
  OBVIOUS
<1> USE DEF files, asking, world
<1>0. /\ request \in Nat /\ asked \in Nat /\ bridge.req \in Nat /\ reply.id \in Nat /\ gate \in Nat
      /\ granted \subseteq Nat
      /\ bridge \in [at : BridgeStages, req : 0..MaxRequests]
  BY Bounds DEF Typed, FilesTyped, BackendTyped, OthersTyped, Ids
<1>1. CASE UNCHANGED <<gate, reply, bridge, installer, granted>>
  BY <1>1 DEF Ordered
<1>2. CASE Bridge
  <2>1. installer' = installer
    BY <1>2, BridgeAlone
  <2>2. /\ bridge'.at = "assess" => gate' = 0
        /\ bridge'.at \in {"assess", "close"} => reply'.id # bridge'.req
        /\ bridge'.at = "close" => gate' = bridge'.req /\ installer.at # "starting"
    BY <1>0, <1>2, BridgeSteps DEF BridgeStep, Ordered, Resting, AlreadyAnswered
  <2>3. installer.at = "starting" => gate' # 0
    BY <1>2, BridgeSteps DEF BridgeStep, Ordered, Engaged
  <2>4. \A g \in granted' : g <= reply'.id
    <3>1. reply.id <= reply'.id
      BY <1>0, <1>2, BridgeSteps DEF BridgeStep, Engaged
    <3>2. \A g \in granted' : g \in granted \/ g = reply'.id
      BY <1>2, BridgeSteps DEF BridgeStep
    <3>3. reply'.id \in Nat
      BY <1>0, <1>2, BridgeSteps DEF BridgeStep
    <3>4. \A g \in granted : g \in Nat /\ g <= reply.id
      BY <1>0 DEF Ordered
    <3>5. ASSUME NEW g \in granted' PROVE g <= reply'.id
      <4>1. g = reply'.id \/ (g \in Nat /\ g <= reply.id)
        BY <3>2, <3>4
      <4>2. QED BY <4>1, <1>0, <3>1, <3>3
    <3>6. QED BY <3>5
  <2>5. QED BY <2>1, <2>2, <2>3, <2>4 DEF Ordered
<1>3. CASE Ask
  BY <1>0, <1>3 DEF Ask, Away, Ordered
<1>4. CASE Receive
  BY <1>4 DEF Receive, Away, Ordered, Typed, OthersTyped
<1>5. CASE GiveUp
  BY <1>5 DEF GiveUp, Away, Ordered
<1>6. CASE StopBackend
  <2>1. gate # 0
    BY <1>6 DEF StopBackend, AuthorizedIsClosed, Ordered
  <2>2. QED BY <1>6, <2>1 DEF StopBackend, Ended, Resting, Ordered
<1>7. CASE Crash
  BY <1>7 DEF Crash, Ended, Resting, Ordered
<1>8. CASE OpenGate
  BY <1>8 DEF OpenGate, Away, Ordered
<1>9. CASE Expire \/ StartBackend \/ DeviceChanges
  BY <1>1, <1>9 DEF Expire, StartBackend, DeviceChanges
<1>10. ASSUME NEW w \in Work, WorkStep(w) PROVE Ordered'
  BY <1>1, <1>10 DEF WorkStep, Admit, Enter, Act, Release
<1>11. QED
  BY <1>1, <1>2, <1>3, <1>4, <1>5, <1>6, <1>7, <1>8, <1>9, <1>10 DEF Next, Installer, vars

LEMMA UnconfirmedStep ==
  Typed /\ Quiet /\ Ordered /\ UnconfirmedIsIdle /\ [Next]_vars => UnconfirmedIsIdle'
<1> SUFFICES ASSUME Typed, Quiet, Ordered, UnconfirmedIsIdle, [Next]_vars PROVE UnconfirmedIsIdle'
  OBVIOUS
<1> USE DEF files, asking, world
<1>1. CASE UNCHANGED <<attested, device>> /\ gate' \in {gate, 0}
  BY <1>1 DEF UnconfirmedIsIdle
<1>2. CASE Bridge
  <2>1. UNCHANGED <<attested, device>>
    BY <1>2, BridgeAlone
  <2>2. CASE gate' = gate
    BY <1>1, <2>1, <2>2
  <2>3. CASE gate' # gate
    <3>1. gate' = bridge.req /\ MayGrant(bridge.req)
      BY <1>2, <2>3, BridgeSteps DEF BridgeStep
    <3>2. QED
      BY <2>1, <3>1 DEF MayGrant, Assessment, UnconfirmedIsIdle, Typed, OthersTyped
  <2>4. QED BY <2>2, <2>3
<1>3. CASE Ask
  BY <1>3 DEF Ask, UnconfirmedIsIdle
<1>4. CASE DeviceChanges
  BY <1>4 DEF DeviceChanges, UnconfirmedIsIdle
<1>5. ASSUME NEW w \in Work, WorkStep(w) PROVE UnconfirmedIsIdle'
  <2>1. CASE Act(w)
    <3>1. gate = 0
      BY <2>1, NoneInside DEF Act
    <3>2. QED BY <2>1, <3>1 DEF Act, UnconfirmedIsIdle
  <2>2. CASE ~Act(w)
    BY <1>1, <1>5, <2>2 DEF WorkStep, Admit, Enter, Release
  <2>3. QED BY <2>1, <2>2
<1>6. CASE Receive \/ GiveUp \/ Expire \/ StopBackend \/ Crash \/ StartBackend \/ OpenGate
  BY <1>1, <1>6 DEF Receive, GiveUp, Expire, StopBackend, Crash, StartBackend, OpenGate
<1>7. QED
  BY <1>1, <1>2, <1>3, <1>4, <1>5, <1>6 DEF Next, Installer, vars

LEMMA AuthorizedStep ==
  Typed /\ Engaged /\ Ordered /\ AuthorizedIsClosed /\ [Next]_vars => AuthorizedIsClosed'
<1> SUFFICES ASSUME Typed, Engaged, Ordered, AuthorizedIsClosed, [Next]_vars PROVE AuthorizedIsClosed'
  OBVIOUS
<1> USE DEF files, asking, world
<1>0. request \in Nat /\ asked \in Nat /\ reply.id \in Nat
  BY Bounds DEF Typed, FilesTyped, OthersTyped
<1>1. CASE UNCHANGED <<gate, reply, installer>>
  BY <1>1 DEF AuthorizedIsClosed
<1>2. CASE Bridge
  <2>1. installer' = installer
    BY <1>2, BridgeAlone
  <2>2. gate' # gate => gate = 0 /\ reply' = reply
    BY <1>2, BridgeSteps DEF BridgeStep, Ordered
  <2>3. reply' # reply /\ reply'.state = "authorized" => gate' = reply'.id
    BY <1>2, BridgeSteps DEF BridgeStep, Ordered
  <2>4. QED BY <2>1, <2>2, <2>3 DEF AuthorizedIsClosed, Ordered
<1>3. CASE Ask
  BY <1>0, <1>3 DEF Ask, Engaged, AuthorizedIsClosed
<1>4. CASE Receive
  BY <1>4 DEF Receive, Away, AuthorizedIsClosed, Typed, OthersTyped
<1>5. CASE GiveUp \/ StopBackend \/ OpenGate
  BY <1>5 DEF GiveUp, StopBackend, OpenGate, Away, AuthorizedIsClosed
<1>6. CASE Crash \/ Expire \/ StartBackend \/ DeviceChanges
  BY <1>1, <1>6 DEF Crash, Expire, StartBackend, DeviceChanges
<1>7. ASSUME NEW w \in Work, WorkStep(w) PROVE AuthorizedIsClosed'
  BY <1>1, <1>7 DEF WorkStep, Admit, Enter, Act, Release
<1>8. QED
  BY <1>1, <1>2, <1>3, <1>4, <1>5, <1>6, <1>7 DEF Next, Installer, vars

-----------------------------------------------------------------------------
LEMMA SafeInit == Init => Safe
<1> SUFFICES ASSUME Init PROVE Safe
  OBVIOUS
<1>1. Typed
  <2>1. FilesTyped
    BY Bounds DEF Init, NoReply, FilesTyped, States
  <2>2. BackendTyped
    <3>1. bridge \in [at : BridgeStages, req : 0..MaxRequests]
      BY Bounds DEF Init, Resting, BridgeStages
    <3>2. at \in [Work -> {"none", "admitted", "inside", "leaving"}]
      BY DEF Init
    <3>3. QED BY <3>1, <3>2 DEF Init, BackendTyped
  <2>3. OthersTyped
    BY Bounds DEF Init, Away, OthersTyped
  <2>4. QED BY <2>1, <2>2, <2>3 DEF Typed
<1>2. Business = {}
  BY DEF Init, Business
<1>3. Counted /\ Quiet
  BY <1>2, FS_EmptySet DEF Init, Resting, Counted, Quiet
<1>4. Engaged /\ Ordered /\ UnconfirmedIsIdle /\ AuthorizedIsClosed
  BY DEF Init, NoReply, Resting, Away, Engaged, Ordered, UnconfirmedIsIdle, AuthorizedIsClosed
<1>5. QED BY <1>1, <1>3, <1>4 DEF Safe

LEMMA SafeStep == Safe /\ [Next]_vars => Safe'
  BY TypedStep, EngagedStep, CountedStep, GateQuietStep, OrderedStep, UnconfirmedStep, AuthorizedStep
       DEF Safe

LEMMA AlwaysSafe == Spec => []Safe
  BY SafeInit, SafeStep, PTL DEF Spec

(* Every variable of the gate's two sides has its type, and the count of    *)
(* admitted work stays within the work there is.                            *)
THEOREM TypeCorrect == Spec => []TypeOK
<1>1. Safe => TypeOK
  BY BusinessFinite DEF Safe, Typed, FilesTyped, BackendTyped, OthersTyped, Counted, States,
       BridgeStages,
       TypeOK
<1>2. QED BY AlwaysSafe, <1>1, PTL

(* Behind a closed gate no admitted work is left and nothing is inside a    *)
(* command guard: command_guard and reserve_business_mutation need no       *)
(* common lock.                                                             *)
THEOREM ClosedGateIsQuiet == Spec => []ClosedIsQuiet
<1>1. Safe => ClosedIsQuiet
  BY NoneInside DEF Safe, ClosedIsQuiet
<1>2. QED BY AlwaysSafe, <1>1, PTL

(* The assessment made under the locks stays true while the gate is closed. *)
THEOREM UnconfirmedGateIsIdle == Spec => []UnconfirmedIsIdle
<1>1. Safe => UnconfirmedIsIdle
  BY DEF Safe
<1>2. QED BY AlwaysSafe, <1>1, PTL

(* An answer on disk is never ahead of its gate.                            *)
THEOREM AuthorizationIsClosed == Spec => []AuthorizedIsClosed
<1>1. Safe => AuthorizedIsClosed
  BY DEF Safe
<1>2. QED BY AlwaysSafe, <1>1, PTL

(* A request that was once authorised is answered, never granted anew.      *)
THEOREM GrantedOnce == Spec => NeverClosedAgain
<1>1. Safe /\ [Next]_vars => [gate = 0 /\ gate' # 0 => gate' \notin granted]_vars
  <2> SUFFICES ASSUME Safe, [Next]_vars, gate = 0, gate' # 0 PROVE gate' \notin granted
    OBVIOUS
  <2>1. Bridge
    BY DEF Next, Installer, Ask, Receive, GiveUp, Expire, StopBackend, OpenGate, Crash, StartBackend,
       DeviceChanges, WorkStep, Admit, Enter, Act, Release, vars, files, asking
  <2>2. bridge.at = "assess" /\ gate' = bridge.req
    BY <2>1, BridgeSteps DEF BridgeStep
  <2>3. reply.id <= bridge.req /\ reply.id # bridge.req /\ \A g \in granted : g <= reply.id
    BY <2>2 DEF Safe, Engaged, Ordered
  <2>4. bridge.req \in Nat /\ reply.id \in Nat
    BY Bounds DEF Safe, Typed, FilesTyped, BackendTyped
  <2>5. QED BY <2>2, <2>3, <2>4
<1>2. QED BY AlwaysSafe, <1>1, PTL DEF Spec, NeverClosedAgain
==============================================================================
