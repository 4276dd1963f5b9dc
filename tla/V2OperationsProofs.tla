------------------------- MODULE V2OperationsProofs -------------------------
(***************************************************************************)
(* Theorems about V2Operations for any operations, any kinds and any       *)
(* bounds.  Types, the order of effects and admission hold whether or not  *)
(* the host database is restored from a backup.  What is said of the       *)
(* identity of an operation, that it acts at most once and that what the   *)
(* host believes of it is true, assumes that the database never is, since  *)
(* a restore forgets which identities were used.                           *)
(***************************************************************************)
EXTENDS V2Operations, TLAPS

USE OpsAssumption, BoundsAssumption

-----------------------------------------------------------------------------
(* The operators of the device keep its state well-formed.                 *)

LEMMA SettleType ==
  ASSUME NEW res \in SUBSET Result, NEW run, NEW from,
         NEW to \in Terminal \cup {"accepted", "unknown"}
  PROVE  Settle(res, run, from, to) \in SUBSET Result
BY DEF Settle, Result, Terminal

LEMMA StoppedType ==
  ASSUME NEW d \in Device
  PROVE  Stopped(d) \in Device
<1>1. Settle(d.res, d.run, {"accepted"}, "interrupted") \in SUBSET Result
  BY SettleType DEF Device, Terminal
<1>2. QED BY <1>1 DEF Stopped, Device, Phases

LEMMA EntryType ==
  ASSUME NEW c \in Command, NEW status \in {"accepted", "rejected"}
  PROVE  Entry(c, status) \in Result
BY DEF Entry, Command, Result, Runs, Terminal

LEMMA RetainedSubset ==
  ASSUME NEW res, NEW run
  PROVE  Retained(res, run) \subseteq res
BY DEF Retained

LEMMA BookedType ==
  ASSUME dev \in Device, NEW c \in Command, NEW status \in {"accepted", "rejected"}
  PROVE  Booked(c, status) \in Device
<1> DEFINE d == IF status = "accepted" THEN Reserve(dev, c) ELSE dev
           res == d.res \cup {Entry(c, status)}
<1>1. d \in Device
  BY DEF Reserve, Device, Command, Runs, Phases
<1>2. res \in SUBSET Result
  BY <1>1, EntryType DEF Device
<1>3. Retained(res, d.run) \in SUBSET Result
  BY <1>2, RetainedSubset
<1>4. c.seq \in 0..MaxSeq
  BY DEF Command
<1>5. Booked(c, status) = [d EXCEPT !.res = Retained(res, d.run), !.hw = c.seq]
  BY DEF Booked
<1>6. QED BY <1>1, <1>3, <1>4, <1>5 DEF Device

LEMMA AppliedType ==
  ASSUME NEW d \in Device, NEW c \in Command
  PROVE  Applied(d, c) \in Device
<1> DEFINE e == Entry(c, "accepted")
           f == [e EXCEPT !.status = "applied", !.run = c.run]
           done == [d EXCEPT !.res = (@ \ {e}) \cup {f}]
<1>1. f \in Result
  BY EntryType DEF Result, Command, Terminal
<1>2. done \in Device
  BY <1>1 DEF Device
<1>3. Stopped(done) \in Device
  BY <1>2, StoppedType
<1>4. [done EXCEPT !.run = NoRun, !.phase = "idle"] \in Device
  BY <1>2 DEF Device, Runs, Phases
<1>5. QED BY <1>2, <1>3, <1>4 DEF Applied

LEMMA RecoverType ==
  ASSUME NEW d \in Device
  PROVE  Recover(d) \in Device
<1> DEFINE res == {IF r.status = "accepted" THEN [r EXCEPT !.status = "unknown"] ELSE r
                   : r \in d.res}
           phase == IF d.phase \in {"preparing", "measuring"} THEN "disposal" ELSE d.phase
<1>1. res \in SUBSET Result
  BY DEF Device, Result
<1>2. phase \in Phases
  BY DEF Device, Phases
<1>3. Recover(d) = [d EXCEPT !.res = res, !.phase = phase]
  BY DEF Recover
<1> HIDE DEF res, phase
<1>4. QED BY <1>1, <1>2, <1>3 DEF Device

LEMMA LookupType ==
  ASSUME dev \in Device, NEW o, NEW seq
  PROVE  Lookup(o, seq) \in Answers
BY DEF Lookup, Device, Result, Answers, Uncertain

-----------------------------------------------------------------------------
(* Type correctness, one step per action.                                  *)

LEMMA InitType == Init => TypeOK
<1> SUFFICES ASSUME Init PROVE TypeOK
  OBVIOUS
<1>1. NoRow \in Row
  BY DEF NoRow, Row, Runs
<1>2. dev \in Device /\ disk \in Device
  BY DEF Init, Device, Runs, Phases
<1>3. row \in [Ops -> Row]
  BY <1>1 DEF Init
<1>4. hello \in 0..NoHello
  BY DEF Init, NoHello
<1>5. hostBoot \in 0..MaxBoot /\ boot \in 1..MaxBoot
  BY DEF Init
<1>6. restored \in BOOLEAN
  BY DEF Init
<1>7. QED BY <1>2, <1>3, <1>4, <1>5, <1>6 DEF Init, TypeOK

LEMMA AnswerType ==
  ASSUME TypeOK, NEW c \in Command, NEW status \in Answers, Answer(c, status)
  PROVE  replies' \subseteq Reply
BY DEF Answer, TypeOK, Reply, Command

LEMMA ProgressType ==
  ASSUME TypeOK, NEW d \in Device, Progress(d)
  PROVE  TypeOK'
BY DEF Progress, Fault, TypeOK, host, link

LEMMA StaleType ==
  ASSUME NEW frames \in SUBSET Command
  PROVE  Stale(frames) \in SUBSET Command
BY DEF Stale, Command

LEMMA IdleType ==
  ASSUME TypeOK, Idle
  PROVE  /\ task' \in [Ops -> {"none", "committed", "sent", "waiting"}]
         /\ review' \in [Ops -> {"none", "answered", "safe"}]
         /\ hostBoot' \in 0..MaxBoot
         /\ hello' \in 0..NoHello
         /\ cmds' \subseteq Command
         /\ replies' \subseteq Reply
         /\ boot' \in 1..MaxBoot
         /\ dev' \in Device
         /\ disk' \in Device
         /\ effects' \in [Ops -> Nat]
         /\ lastEffect' \in 0..MaxSeq
         /\ faults' \in 0..MaxFaults
<1>1. cmds' \subseteq Command
  BY StaleType DEF Idle, TypeOK
<1>2. QED BY <1>1 DEF Idle, Fault, TypeOK, NoHello, device

THEOREM TypeCorrect == Spec => []TypeOK
<1>1. ASSUME TypeOK, [Next]_vars PROVE TypeOK'
  <2> USE <1>1
  <2>1. ASSUME NEW o \in Ops, Intent(o) PROVE TypeOK'
    BY <2>1 DEF Intent, Admit, TypeOK, Row, InDoubt, Device, Runs, link, device
  <2>2. ASSUME NEW o \in Ops, MarkSent(o) PROVE TypeOK'
    BY <2>2 DEF MarkSent, TypeOK, Row, InDoubt, link, device
  <2>3. ASSUME NEW o \in Ops, Write(o) PROVE TypeOK'
    BY <2>3 DEF Write, TypeOK, Row, Command, link, device
  <2>4. ASSUME NEW o \in Ops, Unknown(o) PROVE TypeOK'
    <3>1. [row[o] EXCEPT !.status = "unknown", !.reconciled = 0] \in Row
      <4>1. row[o] \in Row
        BY DEF TypeOK
      <4>2. QED BY <4>1 DEF Row, InDoubt, Uncertain
    <3>2. row' \in [Ops -> Row]
      BY <2>4, <3>1 DEF Unknown, TypeOK
    <3>3. QED BY <2>4, <3>2 DEF Unknown, TypeOK, link, device
  <2>5. ASSUME NEW o \in Ops, ReadSnapshot(o) PROVE TypeOK'
    BY <2>5 DEF ReadSnapshot, TypeOK, link, device
  <2>6. ASSUME NEW o \in Ops, RecordReconciliation(o) PROVE TypeOK'
    <3>1. row' \in [Ops -> Row]
      <4>1. row[o] \in Row
        BY DEF TypeOK
      <4>2. [row[o] EXCEPT !.reconciled = 1] \in Row
        BY <4>1 DEF Row
      <4>3. QED BY <2>6, <4>2 DEF RecordReconciliation, TypeOK
    <3>2. QED BY <2>6, <3>1 DEF RecordReconciliation, TypeOK, link, device
  <2>7. ASSUME NEW o \in Ops, NEW purpose \in {"refresh", "review"}, Query(o, purpose)
        PROVE TypeOK'
    <3>1. Lookup(o, row[o].seq) \in Answers
      BY LookupType DEF TypeOK
    <3>2. QED BY <2>7, <3>1 DEF Query, TypeOK, Reply, host, link, device
  <2>8. ASSUME NEW r \in replies, RecordResult(r) PROVE TypeOK'
    <3>1. r \in Reply
      BY DEF TypeOK
    <3>2. Recorded(row[r.op], r.status) \in Row
      <4>1. row[r.op] \in Row /\ r.status \in Answers
        BY <3>1 DEF TypeOK, Reply
      <4>2. QED BY <4>1 DEF Recorded, Row, Answers, InDoubt
    <3>3. row' \in [Ops -> Row]
      BY <2>8, <3>1, <3>2 DEF RecordResult, TypeOK
    <3>4. task' \in [Ops -> {"none", "committed", "sent", "waiting"}]
      BY <2>8, <3>1 DEF RecordResult, TypeOK
    <3>5. review' \in [Ops -> {"none", "answered", "safe"}]
      BY <2>8, <3>1 DEF RecordResult, TypeOK
    <3>6. QED BY <2>8, <3>3, <3>4, <3>5 DEF RecordResult, TypeOK, link, device
  <2>9. ASSUME NEW r \in replies, LoseReply(r) PROVE TypeOK'
    BY <2>9 DEF LoseReply, TypeOK, Reply, link, device
  <2>10. CASE LinkUp
    BY <2>10 DEF LinkUp, TypeOK, Device, NoHello, host, device
  <2>11. CASE ReconcileHighwater
    BY <2>11 DEF ReconcileHighwater, TypeOK, NoHello, device
  <2>12. CASE LinkDown
    <3>1. cmds' \subseteq Command
      BY <2>12, StaleType DEF LinkDown, TypeOK
    <3>2. QED BY <2>12, <3>1 DEF LinkDown, Fault, TypeOK, NoHello, host, device
  <2>13. CASE RestartBackend
    <3>1. row' \in [Ops -> Row]
      <4>1. ASSUME NEW o \in Ops PROVE Interrupted(row[o]) \in Row
        <5>1. row[o] \in Row
          BY DEF TypeOK
        <5>2. QED BY <5>1 DEF Interrupted, Row, InDoubt, Uncertain
      <4>2. QED BY <2>13, <4>1 DEF RestartBackend
    <3>2. QED BY <2>13, <3>1, IdleType DEF RestartBackend, TypeOK
  <2>14. CASE RestoreBackup
    <3>1. row' \in [Ops -> Row]
      BY <2>14 DEF RestoreBackup, NoRow, Row, Runs
    <3>2. QED BY <2>14, <3>1, IdleType DEF RestoreBackup, TypeOK
  <2>15. ASSUME NEW c \in cmds, LoseCommand(c) PROVE TypeOK'
    BY <2>15 DEF LoseCommand, TypeOK, host, link, device
  <2>16. ASSUME NEW c \in cmds, Replayed(c) PROVE TypeOK'
    <3>1. replies' \subseteq Reply
      BY <2>16, AnswerType, LookupType DEF Replayed, TypeOK
    <3>2. QED BY <2>16, <3>1 DEF Replayed, Received, TypeOK, host, link
  <2>17. ASSUME NEW c \in cmds, Reject(c) PROVE TypeOK'
    <3>1. replies' \subseteq Reply
      BY <2>17, AnswerType DEF Reject, TypeOK, Answers, Terminal
    <3>2. dev' \in Device
      BY <2>17, BookedType DEF Reject, TypeOK
    <3>3. QED BY <2>17, <3>1, <3>2 DEF Reject, Received, TypeOK, host, link
  <2>18. ASSUME NEW c \in cmds, Execute(c) PROVE TypeOK'
    <3>1. replies' \subseteq Reply
      BY <2>18, AnswerType DEF Execute, TypeOK, Answers, Terminal
    <3>2. dev' \in Device
      BY <2>18, BookedType, AppliedType DEF Execute, TypeOK
    <3>3. QED BY <2>18, <3>1, <3>2 DEF Execute, Received, TakesEffect, TypeOK, Command,
                                       host, link
  <2>19. ASSUME NEW c \in cmds, ExecuteUnrecorded(c) PROVE TypeOK'
    <3> DEFINE booked == Booked(c, "accepted")
               applied == Applied(booked, c)
               res == {IF r.seq = c.seq THEN [r EXCEPT !.status = "unknown"] ELSE r
                       : r \in applied.res}
    <3>1. replies' \subseteq Reply
      BY <2>19, AnswerType DEF ExecuteUnrecorded, TypeOK, Answers, Uncertain
    <3>2. booked \in Device /\ applied \in Device
      BY BookedType, AppliedType DEF TypeOK
    <3>3. res \in SUBSET Result
      BY <3>2 DEF Device, Result
    <3>4. dev' = [applied EXCEPT !.res = res] /\ disk' = booked
      BY <2>19 DEF ExecuteUnrecorded
    <3>5. dev' \in Device
      BY <3>2, <3>3, <3>4 DEF Device
    <3>6. QED BY <2>19, <3>1, <3>2, <3>4, <3>5
              DEF ExecuteUnrecorded, Received, TakesEffect, Fault, TypeOK, Command, host, link
  <2>20. ASSUME NEW c \in cmds, StopUnrecorded(c) PROVE TypeOK'
    <3>1. replies' \subseteq Reply
      BY <2>20, AnswerType DEF StopUnrecorded, TypeOK, Answers, Uncertain
    <3>2. dev' \in Device
      BY <2>20, StoppedType DEF StopUnrecorded, TypeOK
    <3>3. QED BY <2>20, <3>1, <3>2
              DEF StopUnrecorded, Received, TakesEffect, Fault, TypeOK, Command, host, link
  <2>21. CASE StartMeasuring
    <3>1. Settle(dev.res, dev.run, {"accepted"}, "applied") \in SUBSET Result
      BY SettleType DEF TypeOK, Device, Terminal
    <3>2. [dev EXCEPT !.phase = "measuring",
                      !.res = Settle(@, dev.run, {"accepted"}, "applied")] \in Device
      BY <3>1 DEF TypeOK, Device, Phases
    <3>3. QED BY <2>21, <3>2, ProgressType DEF StartMeasuring
  <2>22. CASE FinishMeasuring
    BY <2>22, ProgressType DEF FinishMeasuring, TypeOK, Device, Phases
  <2>23. CASE CompleteRun
    BY <2>23, ProgressType DEF CompleteRun, TypeOK, Device, Phases
  <2>24. CASE Trip
    BY <2>24, ProgressType, StoppedType DEF Trip, TypeOK
  <2>25. CASE Reboot
    BY <2>25, RecoverType DEF Reboot, Fault, TypeOK, host, link
  <2>26. CASE UNCHANGED vars
    BY <2>26 DEF vars, host, link, device, TypeOK
  <2>27. QED
    BY <2>1, <2>2, <2>3, <2>4, <2>5, <2>6, <2>7, <2>8, <2>9, <2>10, <2>11, <2>12, <2>13,
       <2>14, <2>15, <2>16, <2>17, <2>18, <2>19, <2>20, <2>21, <2>22, <2>23, <2>24, <2>25,
       <2>26 DEF Next, HostStep, DeviceStep
<1>2. QED BY <1>1, InitType, PTL DEF Spec

-----------------------------------------------------------------------------
(* The waterline: every recorded effect is at or below it, in memory and on *)
(* disk alike, so a fresh command is above every effect so far.             *)

OrderInv == /\ TypeOK
            /\ dev.hw = disk.hw
            /\ lastEffect <= dev.hw

LEMMA HighwaterKept ==
  ASSUME NEW d \in Device, NEW c \in Command
  PROVE  /\ Stopped(d).hw = d.hw
         /\ Applied(d, c).hw = d.hw
         /\ Recover(d).hw = d.hw
<1>1. ASSUME NEW e \in Device PROVE Stopped(e).hw = e.hw
  BY DEF Stopped, Device
<1> DEFINE e == Entry(c, "accepted")
           f == [e EXCEPT !.status = "applied", !.run = c.run]
           done == [d EXCEPT !.res = (@ \ {e}) \cup {f}]
<1>2. done \in Device /\ done.hw = d.hw
  <2>1. f \in Result
    BY EntryType DEF Result, Command, Terminal
  <2>2. QED BY <2>1 DEF Device
<1>3. Applied(d, c).hw = d.hw
  BY <1>1, <1>2 DEF Applied, Device
<1>4. Recover(d).hw = d.hw
  BY DEF Recover, Device
<1>5. QED BY <1>1, <1>3, <1>4

LEMMA BookedHighwater ==
  ASSUME dev \in Device, NEW c \in Command, NEW status
  PROVE  Booked(c, status).hw = c.seq
<1> DEFINE d == IF status = "accepted" THEN Reserve(dev, c) ELSE dev
<1>1. d \in Device
  BY DEF Reserve, Device, Command, Runs, Phases
<1>2. QED BY <1>1 DEF Booked, Device

LEMMA FreshAboveWaterline ==
  ASSUME TypeOK, NEW c, Fresh(c)
  PROVE  c \in Command /\ c.seq > dev.hw
<1>1. c \in Command
  BY DEF Fresh, TypeOK
<1>2. ~ \E r \in dev.res : r.op = c.op /\ r.seq = c.seq
  BY DEF Fresh, Lookup, TypeOK, Device, Result, Terminal
<1>3. ~ (c.seq <= dev.hw)
  BY <1>2 DEF Fresh, Lookup
<1>4. dev.hw \in Nat /\ c.seq \in Nat
  BY <1>1 DEF TypeOK, Device, Command
<1>5. QED BY <1>1, <1>3, <1>4

(* What each step does to the waterline and to the last recorded effect.    *)
LEMMA OrderStep ==
  ASSUME OrderInv, [Next]_vars
  PROVE  /\ dev'.hw = disk'.hw
         /\ lastEffect' <= dev'.hw
         /\ lastEffect' # lastEffect => lastEffect' > lastEffect
<1> USE DEF OrderInv
<1> DEFINE Goal == /\ dev'.hw = disk'.hw
                   /\ lastEffect' <= dev'.hw
                   /\ lastEffect' # lastEffect => lastEffect' > lastEffect
<1>0. dev.hw \in Nat /\ lastEffect \in Nat /\ dev \in Device /\ disk \in Device
  BY DEF TypeOK, Device
<1>1. ASSUME UNCHANGED device PROVE Goal
  BY <1>0, <1>1 DEF device
<1>2. ASSUME NEW d \in Device, d.hw = dev.hw, Progress(d) PROVE Goal
  BY <1>0, <1>2 DEF Progress
<1>3. ASSUME NEW o \in Ops,
             \/ Intent(o) \/ MarkSent(o) \/ Write(o) \/ Unknown(o)
             \/ ReadSnapshot(o) \/ RecordReconciliation(o)
             \/ \E purpose \in {"refresh", "review"} : Query(o, purpose)
      PROVE Goal
  BY <1>1, <1>3 DEF Intent, Admit, MarkSent, Write, Unknown, ReadSnapshot,
                    RecordReconciliation, Query
<1>4. ASSUME NEW r \in replies, RecordResult(r) \/ LoseReply(r) PROVE Goal
  BY <1>1, <1>4 DEF RecordResult, LoseReply
<1>5. CASE LinkUp \/ ReconcileHighwater \/ LinkDown \/ RestartBackend \/ RestoreBackup
  BY <1>1, <1>5 DEF LinkUp, ReconcileHighwater, LinkDown, RestartBackend, RestoreBackup, Idle
<1>6. ASSUME NEW c \in cmds, LoseCommand(c) \/ Replayed(c) PROVE Goal
  BY <1>1, <1>6 DEF LoseCommand, Replayed, Received, device
<1>7. ASSUME NEW c \in cmds, Reject(c) PROVE Goal
  BY <1>0, <1>7, BookedHighwater, FreshAboveWaterline DEF Reject, Command
<1>8. ASSUME NEW c \in cmds, Execute(c) \/ ExecuteUnrecorded(c) PROVE Goal
  <2> DEFINE booked == Booked(c, "accepted")
             applied == Applied(booked, c)
  <2>1. c \in Command /\ c.seq > dev.hw /\ c.seq \in Nat
    BY <1>8, FreshAboveWaterline DEF Execute, ExecuteUnrecorded, Command
  <2>2. booked \in Device /\ booked.hw = c.seq
    BY <1>0, <2>1, BookedType, BookedHighwater
  <2>3. applied \in Device /\ applied.hw = c.seq
    BY <2>1, <2>2, AppliedType, HighwaterKept
  <2>4. dev'.hw = c.seq /\ disk'.hw = c.seq /\ lastEffect' = c.seq
    BY <1>8, <2>2, <2>3 DEF Execute, ExecuteUnrecorded, Device
  <2>5. QED BY <1>0, <2>1, <2>4
<1>9. ASSUME NEW c \in cmds, StopUnrecorded(c) PROVE Goal
  <2>1. c \in Command
    BY DEF TypeOK
  <2>2. QED BY <1>0, <1>9, <2>1, HighwaterKept DEF StopUnrecorded
<1>10. CASE StartMeasuring
  <2> DEFINE d == [dev EXCEPT !.phase = "measuring",
                              !.res = Settle(@, dev.run, {"accepted"}, "applied")]
  <2>1. Settle(dev.res, dev.run, {"accepted"}, "applied") \in SUBSET Result
    BY <1>0, SettleType DEF Device, Terminal
  <2>2. d \in Device /\ d.hw = dev.hw
    BY <1>0, <2>1 DEF Device, Phases
  <2>3. QED BY <1>2, <1>10, <2>2 DEF StartMeasuring
<1>11. CASE FinishMeasuring \/ CompleteRun
  <2>1. /\ [dev EXCEPT !.phase = "disposal"] \in Device
        /\ [dev EXCEPT !.phase = "disposal"].hw = dev.hw
        /\ [dev EXCEPT !.phase = "completed"] \in Device
        /\ [dev EXCEPT !.phase = "completed"].hw = dev.hw
    BY <1>0 DEF Device, Phases
  <2>2. QED BY <1>2, <1>11, <2>1 DEF FinishMeasuring, CompleteRun
<1>12. CASE Trip
  <2>1. Stopped(dev).hw = dev.hw
    BY <1>0 DEF Stopped, Device
  <2>2. QED BY <1>0, <1>2, <1>12, <2>1, StoppedType DEF Trip
<1>13. CASE Reboot
  <2>1. \A d \in Device : Recover(d).hw = d.hw
    BY DEF Recover, Device
  <2>2. QED BY <1>0, <1>13, <2>1 DEF Reboot
<1>14. CASE UNCHANGED vars
  BY <1>1, <1>14 DEF vars
<1>15. QED
  BY <1>3, <1>4, <1>5, <1>6, <1>7, <1>8, <1>9, <1>10, <1>11, <1>12, <1>13, <1>14
     DEF Next, HostStep, DeviceStep

(* For any number of operations, boots and faults, and even after the host  *)
(* database is restored: recorded effects are in strict sequence order, so  *)
(* a command passed by a newer one never acts, and no sequence acts twice.  *)
THEOREM EffectsInOrder == Spec => InOrder
<1>1. Init => OrderInv
  BY InitType DEF OrderInv, Init
<1>2. OrderInv /\ TypeOK' /\ [Next]_vars => OrderInv'
  BY OrderStep DEF OrderInv
<1>3. OrderInv /\ [Next]_vars => [lastEffect' # lastEffect => lastEffect' > lastEffect]_lastEffect
  BY OrderStep
<1>4. QED BY <1>1, <1>2, <1>3, TypeCorrect, PTL DEF Spec, InOrder

-----------------------------------------------------------------------------
(* Admission: operations are numbered as they are admitted, and a review   *)
(* leaves its audit behind.                                                *)

NumberedRow(o) == row[o].status # "absent" => row[o].seq \in 1..lastSeq
AuditedRow(o)  == row[o].reconciled = 1 => o \in audited

(* The control lock: while an ordinary operation is still to be sent, no   *)
(* other was admitted after it.                                            *)
TaskRow(o) ==
  /\ task[o] # "none" => row[o].status # "absent"
  /\ task[o] = "committed" /\ Kind[o] # "stop" => \A p \in Ops : Ordinary(p) => row[p].seq <= row[o].seq

AdmissionInv ==
  /\ TypeOK /\ SettledBeforeNext
  /\ \A o \in Ops : NumberedRow(o) /\ AuditedRow(o) /\ TaskRow(o)

(* What every step but an admission and a restore leaves of a row.         *)
RowStays(o) ==
  /\ row'[o].seq = row[o].seq
  /\ row'[o].status = "absent" <=> row[o].status = "absent"
  /\ row'[o].reconciled = 1 => row[o].reconciled = 1 \/ o \in audited'
  /\ row[o].status \in Terminal => row'[o].status \in Terminal \/ task[o] = "committed"
  /\ task'[o] = "committed" => task[o] = "committed"
  /\ task'[o] \in {"committed", "sent"} => task[o] \in {"committed", "sent"}
  /\ task'[o] # "none" => row[o].status # "absent"

RowsQuiet == (\A o \in Ops : RowStays(o)) /\ audited \subseteq audited' /\ lastSeq <= lastSeq'

LEMMA RowsStay ==
  ASSUME AdmissionInv, TypeOK', RowsQuiet
  PROVE  AdmissionInv'
<1> USE DEF RowsQuiet
<1>1. \A o \in Ops : Ordinary(o)' <=> Ordinary(o)
  BY DEF RowStays, Ordinary
<1>2. lastSeq \in Nat /\ lastSeq' \in Nat
  BY DEF AdmissionInv, TypeOK
<1>3. SettledBeforeNext'
  <2>1. SUFFICES ASSUME NEW o \in Ops, NEW p \in Ops, Ordinary(o), Ordinary(p), row[o].seq < row[p].seq
                 PROVE  row'[o].status \in Terminal \/ o \in audited'
    BY <1>1 DEF SettledBeforeNext, RowStays
  <2>2. row[o].status \in Terminal \/ o \in audited
    BY <2>1 DEF AdmissionInv, SettledBeforeNext
  <2>3. task[o] # "committed"
    <3>1. SUFFICES ASSUME task[o] = "committed" PROVE FALSE
      OBVIOUS
    <3>2. row[p].seq <= row[o].seq
      BY <2>1, <3>1 DEF AdmissionInv, TaskRow, Ordinary
    <3>3. row[p].seq \in Nat /\ row[o].seq \in Nat
      BY DEF AdmissionInv, TypeOK, Row
    <3>4. QED BY <2>1, <3>2, <3>3
  <2>4. QED BY <2>2, <2>3 DEF RowStays
<1>4. ASSUME NEW o \in Ops
      PROVE  NumberedRow(o)' /\ AuditedRow(o)' /\ TaskRow(o)'
  <2>1. NumberedRow(o) /\ AuditedRow(o) /\ TaskRow(o) /\ RowStays(o)
    BY DEF AdmissionInv
  <2>2. NumberedRow(o)' /\ AuditedRow(o)'
    BY <1>2, <2>1 DEF NumberedRow, AuditedRow, RowStays
  <2>3. TaskRow(o)'
    BY <1>1, <2>1 DEF TaskRow, RowStays
  <2>4. QED BY <2>2, <2>3
<1>5. QED BY <1>3, <1>4 DEF AdmissionInv

LEMMA AdmissionIntent ==
  ASSUME AdmissionInv, TypeOK', NEW o \in Ops, Intent(o)
  PROVE  AdmissionInv'
<1>1. /\ lastSeq \in Nat /\ lastSeq' = lastSeq + 1 /\ audited' = audited /\ row \in [Ops -> Row]
      /\ row[o].status = "absent" /\ row'[o].status = "pending" /\ row'[o].seq = lastSeq + 1
      /\ row'[o].reconciled = 0 /\ task' \in [Ops -> {"none", "committed", "sent", "waiting"}]
      /\ task'[o] \in {"committed", "none"}
      /\ \A p \in Ops \ {o} : row'[p] = row[p] /\ task'[p] = task[p]
      /\ Kind[o] # "stop" => ControlLockFree /\ \A p \in Ops : ~Unresolved(p)
  BY DEF Intent, Admit, AdmissionInv, TypeOK
<1>2. \A p \in Ops : row[p].status # "absent" => row[p].seq \in Nat /\ row[p].seq <= lastSeq
  BY DEF AdmissionInv, NumberedRow, TypeOK
<1>3. SettledBeforeNext'
  <2>1. SUFFICES ASSUME NEW q \in Ops, NEW p \in Ops, Ordinary(q)', Ordinary(p)', row'[q].seq < row'[p].seq
                 PROVE  row'[q].status \in Terminal \/ q \in audited'
    BY DEF SettledBeforeNext
  <2>2. CASE p = o
    <3>1. q # o /\ row[q].status # "absent"
      BY <1>1, <2>1, <2>2 DEF Ordinary
    <3>2. ~Unresolved(q) /\ row[q].status \in {"absent"} \cup InDoubt \cup Terminal
            /\ row[q].reconciled \in {0, 1}
      BY <1>1, <2>1, <2>2 DEF Ordinary, Row
    <3>3. row[q].status \in Terminal \/ row[q].reconciled = 1
      BY <3>1, <3>2 DEF Unresolved
    <3>4. row[q].status \in Terminal \/ q \in audited
      BY <3>3 DEF AdmissionInv, AuditedRow
    <3>5. QED BY <1>1, <3>1, <3>4
  <2>3. CASE q = o
    BY <1>1, <1>2, <2>1, <2>3 DEF Ordinary
  <2>4. CASE p # o /\ q # o
    BY <1>1, <2>1, <2>4 DEF AdmissionInv, SettledBeforeNext, Ordinary
  <2>5. QED BY <2>2, <2>3, <2>4
<1>4. ASSUME NEW p \in Ops
      PROVE  NumberedRow(p)' /\ AuditedRow(p)' /\ TaskRow(p)'
  <2>1. CASE p = o
    <3>1. NumberedRow(p)' /\ AuditedRow(p)'
      BY <1>1, <2>1 DEF NumberedRow, AuditedRow
    <3>2. \A q \in Ops : Ordinary(q)' => row'[q].seq <= lastSeq + 1
      BY <1>1, <1>2 DEF Ordinary
    <3>3. TaskRow(p)'
      BY <1>1, <2>1, <3>2 DEF TaskRow
    <3>4. QED BY <3>1, <3>3
  <2>2. CASE p # o
    <3>1. NumberedRow(p) /\ AuditedRow(p) /\ TaskRow(p) /\ row'[p] = row[p] /\ task'[p] = task[p]
      BY <1>1, <2>2 DEF AdmissionInv
    <3>2. NumberedRow(p)' /\ AuditedRow(p)'
      BY <1>1, <1>2, <3>1 DEF NumberedRow, AuditedRow
    <3>3. task'[p] # "none" => row'[p].status # "absent"
      BY <3>1 DEF TaskRow
    <3>4. ASSUME task'[p] = "committed", Kind[p] # "stop", NEW q \in Ops, Ordinary(q)'
          PROVE  row'[q].seq <= row'[p].seq
      <4>1. Kind[o] = "stop"
        BY <1>1, <3>1, <3>4 DEF ControlLockFree
      <4>2. Ordinary(q) /\ row'[q] = row[q]
        BY <1>1, <3>4, <4>1 DEF Ordinary
      <4>3. QED BY <3>1, <3>4, <4>2 DEF TaskRow
    <3>5. TaskRow(p)'
      BY <3>3, <3>4 DEF TaskRow
    <3>6. QED BY <3>2, <3>5
  <2>3. QED BY <2>1, <2>2
<1>5. QED BY <1>3, <1>4 DEF AdmissionInv

LEMMA RowsStep ==
  ASSUME AdmissionInv, [Next]_vars
  PROVE  RowsQuiet \/ RestoreBackup \/ \E o \in Ops : Intent(o)
<1>1. row \in [Ops -> Row] /\ task \in [Ops -> {"none", "committed", "sent", "waiting"}]
        /\ lastSeq \in Nat
      /\ \A o \in Ops : task[o] # "none" => row[o].status # "absent"
  BY DEF AdmissionInv, TypeOK, TaskRow
<1>2. ASSUME UNCHANGED <<row, task>>, audited \subseteq audited', lastSeq <= lastSeq'
      PROVE  RowsQuiet
  BY <1>1, <1>2 DEF RowStays, RowsQuiet
<1>3. ASSUME NEW o \in Ops, MarkSent(o) PROVE RowsQuiet
  <2>1. \A p \in Ops : RowStays(p)
    BY <1>1, <1>3 DEF MarkSent, RowStays, Row
  <2>2. audited' = audited /\ lastSeq' = lastSeq
    BY <1>3 DEF MarkSent
  <2>3. QED BY <1>1, <2>1, <2>2 DEF RowsQuiet
<1>4. ASSUME NEW o \in Ops, Write(o) PROVE RowsQuiet
  <2>1. \A p \in Ops : RowStays(p)
    BY <1>1, <1>4 DEF Write, RowStays
  <2>2. audited' = audited /\ lastSeq' = lastSeq
    BY <1>4 DEF Write
  <2>3. QED BY <1>1, <2>1, <2>2 DEF RowsQuiet
<1>5. ASSUME NEW o \in Ops, Unknown(o) PROVE RowsQuiet
  <2>1. \A p \in Ops : RowStays(p)
    BY <1>1, <1>5 DEF Unknown, RowStays, Row
  <2>2. audited' = audited /\ lastSeq' = lastSeq
    BY <1>5 DEF Unknown
  <2>3. QED BY <1>1, <2>1, <2>2 DEF RowsQuiet
<1>6. ASSUME NEW r \in replies, RecordResult(r) PROVE RowsQuiet
  <2>1. r.op \in Ops /\ r.status \in Answers
    BY DEF AdmissionInv, TypeOK, Reply
  <2>2. \A p \in Ops : RowStays(p)
    BY <1>1, <1>6, <2>1 DEF RecordResult, Recorded, RowStays, Row, Answers, Terminal, Uncertain
  <2>3. audited' = audited /\ lastSeq' = lastSeq
    BY <1>6 DEF RecordResult
  <2>4. QED BY <1>1, <2>2, <2>3 DEF RowsQuiet
<1>7. ASSUME NEW o \in Ops, RecordReconciliation(o) PROVE RowsQuiet
  <2>1. \A p \in Ops : RowStays(p)
    BY <1>1, <1>7 DEF RecordReconciliation, RowStays, Row
  <2>2. audited \subseteq audited' /\ lastSeq' = lastSeq
    BY <1>7 DEF RecordReconciliation
  <2>3. QED BY <1>1, <2>1, <2>2 DEF RowsQuiet
<1>8. ASSUME NEW o \in Ops, ReadSnapshot(o) \/ \E purpose \in {"refresh", "review"} : Query(o, purpose)
      PROVE  RowsQuiet
  BY <1>1, <1>2, <1>8 DEF ReadSnapshot, Query, host
<1>9. ASSUME NEW r \in replies, LoseReply(r) PROVE RowsQuiet
  BY <1>1, <1>2, <1>9 DEF LoseReply
<1>10. CASE LinkUp \/ ReconcileHighwater \/ LinkDown
  BY <1>1, <1>2, <1>10 DEF LinkUp, ReconcileHighwater, LinkDown, host, AdmissionInv, TypeOK, NoHello
<1>11. CASE RestartBackend
  <2>1. \A p \in Ops : RowStays(p)
    BY <1>1, <1>11 DEF RestartBackend, Idle, Interrupted, RowStays, Row, Terminal
  <2>2. audited' = audited /\ lastSeq' = lastSeq
    BY <1>11 DEF RestartBackend
  <2>3. QED BY <1>1, <2>1, <2>2 DEF RowsQuiet
<1>12. DeviceStep => UNCHANGED host
  BY DEF DeviceStep, LoseCommand, Replayed, Reject, Execute, ExecuteUnrecorded, StopUnrecorded,
       Received,
     StartMeasuring, FinishMeasuring, CompleteRun, Trip, Progress, Reboot
<1>13. CASE DeviceStep \/ UNCHANGED vars
  BY <1>1, <1>2, <1>12, <1>13 DEF vars, host
<1>14. QED
  BY <1>3, <1>4, <1>5, <1>6, <1>7, <1>8, <1>9, <1>10, <1>11, <1>13 DEF Next, HostStep

LEMMA AdmissionStep ==
  ASSUME AdmissionInv, TypeOK', [Next]_vars
  PROVE  AdmissionInv'
<1>1. CASE RestoreBackup
  <2>1. \A p \in Ops : row'[p] = NoRow /\ task'[p] = "none"
    BY <1>1 DEF RestoreBackup, Idle
  <2>2. QED BY <2>1 DEF AdmissionInv, SettledBeforeNext, NumberedRow, AuditedRow, TaskRow, Ordinary,
       NoRow
<1>2. QED BY <1>1, RowsStay, AdmissionIntent, RowsStep

LEMMA AdmissionKept == Spec => []AdmissionInv
<1>1. Init => AdmissionInv
  BY InitType DEF Init, AdmissionInv, SettledBeforeNext, NumberedRow, AuditedRow, TaskRow, Ordinary,
       NoRow
<1>2. AdmissionInv /\ TypeOK' /\ [Next]_vars => AdmissionInv'
  BY AdmissionStep
<1>3. QED BY <1>1, <1>2, TypeCorrect, PTL DEF Spec

(* An ordinary operation is admitted only when the fate of every ordinary   *)
(* one before it is known or audited, whatever is lost, cut off, restarted  *)
(* or restored (_ensure_no_unresolved under _control_lock).                 *)
THEOREM NoneAdmittedInDoubt == Spec => []SettledBeforeNext
<1>1. AdmissionInv => SettledBeforeNext
  BY DEF AdmissionInv
<1>2. QED BY <1>1, AdmissionKept, PTL

-----------------------------------------------------------------------------
(* What is held of an operation anywhere, and the inductive invariant.     *)

Refusal == {"rejected"}
Action  == {"accepted", "applied", "interrupted"}

(* A status among S is held of o by the host, by an answer on its way or by *)
(* the device, in memory or on disk.                                        *)
Says(o, S) == \/ row[o].status \in S
              \/ \E r \in replies : r.op = o /\ r.status \in S
              \/ \E r \in dev.res \cup disk.res : r.op = o /\ r.status \in S

Unwritten(o) == row[o].status = "absent" \/ task[o] \in {"committed", "sent"}
InFlight(o)  == \E c \in cmds : c.op = o

(* Refusals and actions exclude each other wherever they are held, and the  *)
(* frame of an operation, of which there is one, goes before either.        *)
IdentityOf(o) ==
  /\ effects[o] \in {0, 1}
  /\ Says(o, Refusal) => effects[o] = 0
  /\ Says(o, Action) => effects[o] = 1
  /\ Unwritten(o) \/ InFlight(o) => effects[o] = 0 /\ ~Says(o, Refusal)
  /\ ~(Unwritten(o) /\ InFlight(o))
  /\ \A c, d \in cmds : c.op = o /\ d.op = o => c = d
  /\ row[o].status = "absent" => task[o] = "none"

Identity == TypeOK /\ \A o \in Ops : IdentityOf(o)

-----------------------------------------------------------------------------
(* Where the results of the device come from: each one descends from an    *)
(* earlier result of the same operation, or is the one just booked.        *)

Descends(r, res) ==
  \E q \in res : /\ q.op = r.op
                 /\ \/ r.status = q.status
                    \/ r.status = "unknown"
                    \/ q.status = "accepted" /\ r.status \in {"applied", "interrupted"}

LEMMA SettleDescends ==
  ASSUME NEW res \in SUBSET Result, NEW run, NEW to \in {"applied", "interrupted"},
         NEW r \in Settle(res, run, {"accepted"}, to)
  PROVE  Descends(r, res)
BY DEF Settle, Descends, Result

LEMMA StoppedDescends ==
  ASSUME NEW d \in Device, NEW r \in Stopped(d).res
  PROVE  Descends(r, d.res)
<1>1. CASE d.phase \in {"preparing", "measuring"}
  <2>1. Stopped(d).res = Settle(d.res, d.run, {"accepted"}, "interrupted")
    BY <1>1 DEF Stopped, Device
  <2>2. QED BY <2>1, SettleDescends DEF Device
<1>2. CASE d.phase \notin {"preparing", "measuring"}
  BY <1>2 DEF Stopped, Descends
<1>3. QED BY <1>1, <1>2

LEMMA RecoverDescends ==
  ASSUME NEW d \in Device, NEW r \in Recover(d).res
  PROVE  Descends(r, d.res)
<1>1. Recover(d).res = {IF q.status = "accepted" THEN [q EXCEPT !.status = "unknown"]
                        ELSE q : q \in d.res}
  BY DEF Recover, Device
<1>2. d.res \subseteq Result
  BY DEF Device
<1>3. QED BY <1>1, <1>2 DEF Descends, Result

LEMMA DescendsAgain ==
  ASSUME NEW res, NEW mid, NEW r, Descends(r, mid),
         \A q \in mid : Descends(q, res)
  PROVE  Descends(r, res)
BY DEF Descends

LEMMA BookedComesFrom ==
  ASSUME dev \in Device, NEW c \in Command, NEW status, NEW r \in Booked(c, status).res
  PROVE  r \in dev.res \/ r = Entry(c, status)
<1> DEFINE d == IF status = "accepted" THEN Reserve(dev, c) ELSE dev
           res == d.res \cup {Entry(c, status)}
<1>1. d \in Device /\ d.res = dev.res
  BY DEF Reserve, Device, Command, Runs, Phases
<1>2. Booked(c, status).res = Retained(res, d.run)
  BY <1>1 DEF Booked, Device
<1>3. r \in res
  BY <1>2, RetainedSubset
<1>4. QED BY <1>1, <1>3

LEMMA AppliedComesFrom ==
  ASSUME NEW d \in Device, NEW c \in Command, NEW r \in Applied(d, c).res
  PROVE  \/ Descends(r, d.res)
         \/ r.op = c.op /\ r.status \in Action \cup {"unknown"}
<1> DEFINE e == Entry(c, "accepted")
           f == [e EXCEPT !.status = "applied", !.run = c.run]
           done == [d EXCEPT !.res = (@ \ {e}) \cup {f}]
<1>1. f \in Result /\ f.op = c.op /\ f.status = "applied"
  BY EntryType DEF Result, Command, Terminal, Entry
<1>2. done \in Device /\ done.res = (d.res \ {e}) \cup {f}
  BY <1>1 DEF Device
<1>3. Applied(d, c) \in {d, Stopped(done), [done EXCEPT !.run = NoRun, !.phase = "idle"], done}
  BY DEF Applied
<1>4. r \in d.res \/ Descends(r, done.res)
  <2>1. [done EXCEPT !.run = NoRun, !.phase = "idle"].res = done.res
    BY <1>2 DEF Device
  <2>2. \A q \in done.res : Descends(q, done.res)
    BY DEF Descends
  <2>3. \A q \in Stopped(done).res : Descends(q, done.res)
    BY <1>2, StoppedDescends
  <2>4. QED BY <1>3, <2>1, <2>2, <2>3
<1>5. CASE r \in d.res
  BY <1>5 DEF Descends
<1>6. CASE Descends(r, done.res)
  <2>1. PICK q \in done.res : /\ q.op = r.op
                              /\ \/ r.status = q.status
                                 \/ r.status = "unknown"
                                 \/ /\ q.status = "accepted"
                                    /\ r.status \in {"applied", "interrupted"}
    BY <1>6 DEF Descends
  <2>2. CASE q \in d.res
    BY <2>1, <2>2 DEF Descends
  <2>3. CASE q = f
    BY <1>1, <2>1, <2>3 DEF Action
  <2>4. QED BY <1>2, <2>2, <2>3
<1>7. QED BY <1>4, <1>5, <1>6

-----------------------------------------------------------------------------
(* What a step must show to keep the identity of one operation.            *)

LEMMA DescendsSays ==
  ASSUME NEW r, NEW S \in {Refusal, Action}, r.status \in S,
         Descends(r, dev.res) \/ Descends(r, disk.res)
  PROVE  Says(r.op, S)
BY DEF Descends, Says, Refusal, Action

LEMMA Sources ==
  ASSUME NEW o, NEW S \in {Refusal, Action}, Says(o, S)',
         row'[o].status \in S => Says(o, S),
         \A r \in replies' : r.op = o /\ r.status \in S => Says(o, S),
         \A r \in dev'.res \cup disk'.res :
           r.op = o => Descends(r, dev.res) \/ Descends(r, disk.res)
  PROVE  Says(o, S)
BY DescendsSays DEF Says

LEMMA KeptIdentity ==
  ASSUME NEW o \in Ops, IdentityOf(o),
         effects'[o] = effects[o],
         \A S \in {Refusal, Action} : Says(o, S)' => Says(o, S),
         row'[o].status = "absent" => row[o].status = "absent",
         task'[o] # "none" => row'[o].status # "absent",
         Unwritten(o)' => Unwritten(o),
         InFlight(o)' => InFlight(o),
         \A c, d \in cmds' : c.op = o /\ d.op = o => c = d
  PROVE  IdentityOf(o)'
BY DEF IdentityOf

LEMMA UniqueSubset ==
  ASSUME NEW o \in Ops, IdentityOf(o), cmds' \subseteq cmds
  PROVE  /\ InFlight(o)' => InFlight(o)
         /\ \A c, d \in cmds' : c.op = o /\ d.op = o => c = d
BY DEF IdentityOf, InFlight

LEMMA UniqueStale ==
  ASSUME TypeOK, NEW o \in Ops, IdentityOf(o), cmds' = Stale(cmds)
  PROVE  /\ InFlight(o)' => InFlight(o)
         /\ \A c, d \in cmds' : c.op = o /\ d.op = o => c = d
<1>1. \A c \in cmds' : \E f \in cmds : c = [f EXCEPT !.session = "left"] /\ c.op = f.op
  BY DEF Stale, TypeOK, Command
<1>2. QED BY <1>1 DEF IdentityOf, InFlight

(* The host: one lemma per action that moves the row of an operation.      *)

LEMMA QuietHost ==
  ASSUME NEW o \in Ops, IdentityOf(o),
         UNCHANGED <<dev, disk, effects>>, replies' \subseteq replies,
         row'[o].status \in {row[o].status, "pending", "sent", "unknown"}
  PROVE  \A S \in {Refusal, Action} : Says(o, S)' => Says(o, S)
BY DEF Says, Refusal, Action

LEMMA IntentIdentity ==
  ASSUME Identity, NEW o \in Ops, NEW p \in Ops, Intent(p)
  PROVE  IdentityOf(o)'
<1> USE DEF Identity, Intent, Admit
<1>1. row'[o].status \in {row[o].status, "pending"}
  BY DEF TypeOK
<1>2. Unwritten(o)' => Unwritten(o)
  BY DEF TypeOK, Unwritten
<1>3. row'[o].status = "absent" => row[o].status = "absent"
  BY DEF TypeOK
<1>4. task'[o] # "none" => row'[o].status # "absent"
  BY DEF TypeOK, IdentityOf
<1>5. QED BY <1>1, <1>2, <1>3, <1>4, KeptIdentity, QuietHost, UniqueSubset DEF device

LEMMA MarkSentIdentity ==
  ASSUME Identity, NEW o \in Ops, NEW p \in Ops, MarkSent(p)
  PROVE  IdentityOf(o)'
<1> USE DEF Identity, MarkSent
<1>1. row'[o].status \in {row[o].status, "sent"}
  BY DEF TypeOK
<1>2. Unwritten(o)' => Unwritten(o)
  BY DEF TypeOK, Unwritten
<1>3. row'[o].status = "absent" => row[o].status = "absent"
  BY DEF TypeOK
<1>4. task'[o] # "none" => row'[o].status # "absent"
  BY DEF TypeOK, IdentityOf
<1>5. QED BY <1>1, <1>2, <1>3, <1>4, KeptIdentity, QuietHost, UniqueSubset DEF device

(* The frame takes over from the coroutine that was to write it.           *)
LEMMA WriteIdentity ==
  ASSUME Identity, NEW o \in Ops, NEW p \in Ops, Write(p)
  PROVE  IdentityOf(o)'
<1> USE DEF Identity, Write
<1>1. IdentityOf(o) /\ UNCHANGED <<row, replies, dev, disk, effects>>
  BY DEF device
<1>2. \A S \in {Refusal, Action} : Says(o, S)' <=> Says(o, S)
  BY <1>1 DEF Says
<1>3. CASE o = p
  <2>1. Unwritten(o) /\ row[o].status # "absent"
    BY <1>1, <1>3 DEF Unwritten, IdentityOf
  <2>2. ~Unwritten(o)' /\ task'[o] = "waiting"
    BY <1>1, <1>3, <2>1 DEF Unwritten, TypeOK
  <2>3. \A c, d \in cmds' : c.op = o /\ d.op = o => c = d
    BY <1>1, <1>3, <2>1 DEF IdentityOf, InFlight
  <2>4. QED BY <1>1, <1>2, <2>1, <2>2, <2>3 DEF IdentityOf
<1>4. CASE o # p
  <2>1. task'[o] = task[o]
    BY <1>4 DEF TypeOK
  <2>2. \A c \in cmds' : c.op = o => c \in cmds
    BY <1>4
  <2>3. QED BY <1>1, <1>2, <2>1, <2>2 DEF IdentityOf, Unwritten, InFlight
<1>5. QED BY <1>3, <1>4

LEMMA UnknownIdentity ==
  ASSUME Identity, NEW o \in Ops, NEW p \in Ops, Unknown(p)
  PROVE  IdentityOf(o)'
<1> USE DEF Identity, Unknown
<1>1. row'[o].status \in {row[o].status, "unknown"}
  BY DEF TypeOK
<1>2. Unwritten(o)' => Unwritten(o)
  BY DEF TypeOK, Unwritten
<1>3. row'[o].status = "absent" => row[o].status = "absent"
  BY DEF TypeOK
<1>4. task'[o] # "none" => row'[o].status # "absent"
  BY DEF TypeOK, IdentityOf
<1>5. QED BY <1>1, <1>2, <1>3, <1>4, KeptIdentity, QuietHost, UniqueSubset DEF device

LEMMA RecordResultIdentity ==
  ASSUME Identity, NEW o \in Ops, NEW r \in replies, RecordResult(r)
  PROVE  IdentityOf(o)'
<1> USE DEF Identity
<1>1. IdentityOf(o) /\ r.op \in Ops /\ row \in [Ops -> Row]
  BY DEF TypeOK, Reply
<1>2. \/ row'[o].status = row[o].status
      \/ o = r.op /\ row'[o].status = r.status
  BY <1>1 DEF RecordResult, Recorded, Row
<1>3. r.status # "absent" /\ row[r.op].status # "absent"
  BY DEF RecordResult, TypeOK, Reply, Answers, Terminal, Uncertain
<1>4. replies' \subseteq replies /\ UNCHANGED <<cmds, dev, disk, effects>>
  BY DEF RecordResult, device
<1>5. \A S \in {Refusal, Action} : Says(o, S)' => Says(o, S)
  BY <1>2, <1>4 DEF Says
<1>6. \/ task'[o] = task[o]
      \/ o = r.op /\ task'[o] \in {"none", "waiting"}
  BY <1>1 DEF RecordResult, TypeOK
<1>7. row'[o].status = "absent" <=> row[o].status = "absent"
  BY <1>2, <1>3
<1>8. Unwritten(o)' => Unwritten(o)
  BY <1>6, <1>7 DEF Unwritten
<1>9. task'[o] # "none" => row'[o].status # "absent"
  BY <1>1, <1>3, <1>6, <1>7 DEF IdentityOf
<1>10. QED BY <1>1, <1>4, <1>5, <1>7, <1>8, <1>9, KeptIdentity, UniqueSubset

LEMMA QueryIdentity ==
  ASSUME Identity, NEW o \in Ops, NEW p \in Ops, NEW purpose, Query(p, purpose)
  PROVE  IdentityOf(o)'
<1> USE DEF Identity
<1>1. IdentityOf(o) /\ UNCHANGED <<row, task, cmds, dev, disk, effects>>
  BY DEF Query, host, device
<1>2. \/ Lookup(p, row[p].seq) \in Uncertain
      \/ \E q \in dev.res : q.op = p /\ q.status = Lookup(p, row[p].seq)
  BY DEF Lookup, Uncertain
<1>3. \A r \in replies' : \/ r \in replies
                          \/ r.op = p /\ r.status = Lookup(p, row[p].seq)
  BY DEF Query
<1>4. \A S \in {Refusal, Action} : Says(o, S)' => Says(o, S)
  BY <1>1, <1>2, <1>3 DEF Says, Refusal, Action, Uncertain
<1>5. QED BY <1>1, <1>4, KeptIdentity, UniqueSubset DEF IdentityOf, Unwritten

LEMMA RestartIdentity ==
  ASSUME Identity, NEW o \in Ops, RestartBackend
  PROVE  IdentityOf(o)'
<1> USE DEF Identity
<1>1. /\ row'[o].status \in {row[o].status, "unknown"}
      /\ row'[o].status = "absent" <=> row[o].status = "absent"
  <2>1. row \in [Ops -> Row]
    BY DEF TypeOK
  <2>2. row'[o] = Interrupted(row[o])
    BY DEF RestartBackend
  <2>3. Interrupted(row[o]).status \in {row[o].status, "unknown"}
    BY <2>1 DEF Interrupted, Row
  <2>4. Interrupted(row[o]).status = "absent" <=> row[o].status = "absent"
    BY <2>1 DEF Interrupted, Row
  <2>5. QED BY <2>2, <2>3, <2>4
<1>2. /\ cmds' = Stale(cmds) /\ replies' \subseteq replies
      /\ UNCHANGED <<dev, disk, effects>>
      /\ task'[o] = "none"
  BY DEF RestartBackend, Idle, device
<1>3. Unwritten(o)' => Unwritten(o)
  BY <1>1, <1>2 DEF Unwritten
<1>4. QED BY <1>1, <1>2, <1>3, KeptIdentity, QuietHost, UniqueStale

(* The device: its own steps, and the four ways it may take a command.     *)

LEMMA DeviceIdentity ==
  ASSUME Identity, NEW o \in Ops,
         UNCHANGED <<row, task, cmds, replies, effects>>,
         \A r \in dev'.res \cup disk'.res : Descends(r, dev.res) \/ Descends(r, disk.res)
  PROVE  IdentityOf(o)'
<1>1. \A S \in {Refusal, Action} : Says(o, S)' => Says(o, S)
  BY Sources DEF Says
<1>2. QED BY <1>1, KeptIdentity, UniqueSubset DEF Identity, IdentityOf, Unwritten

LEMMA ProgressIdentity ==
  ASSUME Identity, NEW o \in Ops, NEW d, Progress(d),
         \A r \in d.res : Descends(r, dev.res)
  PROVE  IdentityOf(o)'
<1>1. \A r \in disk.res : Descends(r, disk.res)
  BY DEF Descends
<1>2. QED BY <1>1, DeviceIdentity DEF Progress, host

LEMMA RebootIdentity ==
  ASSUME Identity, NEW o \in Ops, Reboot
  PROVE  IdentityOf(o)'
<1>1. dev \in Device /\ disk \in Device
  BY DEF Identity, TypeOK
<1>2. PICK d \in {dev, disk} : dev' = Recover(d)
  BY DEF Reboot
<1>3. \A r \in dev'.res : Descends(r, d.res)
  BY <1>1, <1>2, RecoverDescends
<1>4. QED BY <1>2, <1>3, DeviceIdentity DEF Reboot, host

(* A command received: nothing changes for another operation but what the   *)
(* device settles; its own is out of flight, and was untouched before.      *)
LEMMA ReceivedIdentity ==
  ASSUME Identity, NEW o \in Ops, NEW c \in cmds, Received(c), c.op # o,
         effects'[o] = effects[o],
         \A r \in replies' : r.op = o => r \in replies,
         \A r \in dev'.res \cup disk'.res :
           r.op = o => Descends(r, dev.res) \/ Descends(r, disk.res)
  PROVE  IdentityOf(o)'
<1>1. UNCHANGED <<row, task>> /\ cmds' \subseteq cmds
  BY DEF Received, host
<1>2. \A S \in {Refusal, Action} : Says(o, S)' => Says(o, S)
  BY <1>1, Sources DEF Says
<1>3. QED BY <1>1, <1>2, KeptIdentity, UniqueSubset DEF Identity, IdentityOf, Unwritten

LEMMA TakenIdentity ==
  ASSUME Identity, NEW c \in cmds, Received(c),
         \/ effects'[c.op] = 1 /\ ~Says(c.op, Refusal)'
         \/ effects'[c.op] = 0 /\ ~Says(c.op, Action)'
  PROVE  IdentityOf(c.op)'
<1>1. /\ c.op \in Ops /\ IdentityOf(c.op)
      /\ UNCHANGED <<row, task>> /\ cmds' = cmds \ {c}
  BY DEF Identity, TypeOK, Command, Received, host
<1>2. ~InFlight(c.op)'
  BY <1>1 DEF IdentityOf, InFlight
<1>3. ~Unwritten(c.op)'
  BY <1>1 DEF IdentityOf, InFlight, Unwritten
<1>4. QED BY <1>1, <1>2, <1>3 DEF IdentityOf, Unwritten

LEMMA UntouchedBefore ==
  ASSUME Identity, NEW c \in cmds
  PROVE  /\ c \in Command /\ c.op \in Ops
         /\ effects[c.op] = 0
         /\ ~Says(c.op, Refusal) /\ ~Says(c.op, Action)
BY DEF Identity, IdentityOf, InFlight, TypeOK, Command

LEMMA AnswerFor ==
  ASSUME NEW c, NEW status, Answer(c, status), NEW r \in replies'
  PROVE  \/ r \in replies
         \/ r.op = c.op /\ r.status = status
BY DEF Answer

LEMMA LoseCommandIdentity ==
  ASSUME Identity, NEW o \in Ops, NEW c \in cmds, LoseCommand(c)
  PROVE  IdentityOf(o)'
<1>1. /\ UNCHANGED <<row, task, replies, dev, disk, effects>>
      /\ cmds' \subseteq cmds
  BY DEF LoseCommand, host, device
<1>2. \A S \in {Refusal, Action} : Says(o, S)' <=> Says(o, S)
  BY <1>1 DEF Says
<1>3. QED BY <1>1, <1>2, KeptIdentity, UniqueSubset DEF Identity, IdentityOf, Unwritten

LEMMA ReplayedIdentity ==
  ASSUME Identity, NEW o \in Ops, NEW c \in cmds, Replayed(c)
  PROVE  IdentityOf(o)'
<1>1. /\ UNCHANGED <<row, task, dev, disk, effects>>
      /\ cmds' \subseteq cmds
  BY DEF Replayed, Received, host
<1>2. \/ Lookup(c.op, c.seq) \in Uncertain
      \/ \E q \in dev.res : q.op = c.op /\ q.status = Lookup(c.op, c.seq)
  BY DEF Lookup, Uncertain
<1>3. \A r \in replies' : \/ r \in replies
                          \/ r.op = c.op /\ r.status = Lookup(c.op, c.seq)
  BY AnswerFor DEF Replayed
<1>4. \A S \in {Refusal, Action} : Says(o, S)' => Says(o, S)
  BY <1>1, <1>2, <1>3 DEF Says, Refusal, Action, Uncertain
<1>5. QED BY <1>1, <1>4, KeptIdentity, UniqueSubset DEF Identity, IdentityOf, Unwritten

LEMMA RejectIdentity ==
  ASSUME Identity, NEW o \in Ops, NEW c \in cmds, Reject(c)
  PROVE  IdentityOf(o)'
<1>1. /\ c \in Command /\ c.op \in Ops /\ dev \in Device
      /\ ~Says(c.op, Action) /\ effects[c.op] = 0
  BY UntouchedBefore DEF Identity, TypeOK
<1>2. \A r \in dev'.res \cup disk'.res :
        \/ r \in dev.res
        \/ r.op = c.op /\ r.status = "rejected"
  BY <1>1, BookedComesFrom DEF Reject, Entry
<1>3. \A r \in replies' : \/ r \in replies
                          \/ r.op = c.op /\ r.status = "rejected"
  BY AnswerFor DEF Reject
<1>4. Received(c) /\ UNCHANGED <<row, effects>>
  BY DEF Reject, Received, host
<1>5. CASE o = c.op
  <2>1. ~Says(o, Action)'
    BY <1>1, <1>2, <1>3, <1>4, <1>5 DEF Says, Action
  <2>2. QED BY <1>1, <1>4, <1>5, <2>1, TakenIdentity
<1>6. CASE o # c.op
  <2>1. \A r \in dev'.res \cup disk'.res : r.op = o => Descends(r, dev.res)
    BY <1>2, <1>6 DEF Descends
  <2>2. QED BY <1>3, <1>4, <1>6, <2>1, ReceivedIdentity
<1>7. QED BY <1>5, <1>6

(* The three ways to act: with a record, with an intent only, and, for a   *)
(* stop, with neither.                                                     *)
LEMMA ActIdentity ==
  ASSUME Identity, NEW o \in Ops, NEW c \in cmds, Received(c), TakesEffect(c),
         \A r \in dev'.res \cup disk'.res :
           \/ Descends(r, dev.res) \/ Descends(r, disk.res)
           \/ r.op = c.op /\ r.status \in Action \cup {"unknown"},
         \A r \in replies' :
           \/ r \in replies
           \/ r.op = c.op /\ r.status \in Action \cup {"unknown"}
  PROVE  IdentityOf(o)'
<1>1. /\ c.op \in Ops /\ ~Says(c.op, Refusal) /\ effects[c.op] = 0
      /\ effects \in [Ops -> Nat]
  BY UntouchedBefore DEF Identity, TypeOK
<1>2. UNCHANGED row
  BY DEF Received, host
<1>3. CASE o = c.op
  <2>1. effects'[o] = 1
    BY <1>1, <1>3 DEF TakesEffect
  <2>2. ASSUME NEW r \in dev'.res \cup disk'.res, r.op = o PROVE r.status \notin Refusal
    BY <1>1, <1>3, <2>2, DescendsSays DEF Refusal, Action
  <2>3. ~Says(o, Refusal)'
    BY <1>1, <1>2, <1>3, <2>2 DEF Says, Refusal, Action
  <2>4. QED BY <1>3, <2>1, <2>3, TakenIdentity
<1>4. CASE o # c.op
  BY <1>1, <1>4, ReceivedIdentity DEF TakesEffect
<1>5. QED BY <1>3, <1>4

LEMMA ExecutedComesFrom ==
  ASSUME TypeOK, NEW c \in Command,
         NEW r \in Applied(Booked(c, "accepted"), c).res \cup Booked(c, "accepted").res
  PROVE  \/ Descends(r, dev.res)
         \/ r.op = c.op /\ r.status \in Action \cup {"unknown"}
<1> DEFINE b == Booked(c, "accepted")
<1>1. dev \in Device /\ b \in Device
  BY BookedType DEF TypeOK
<1>2. ASSUME NEW q \in b.res
      PROVE  \/ q \in dev.res
             \/ q.op = c.op /\ q.status = "accepted"
  BY <1>1, <1>2, BookedComesFrom DEF Entry
<1>3. CASE r \in b.res
  BY <1>2, <1>3 DEF Descends, Action
<1>4. CASE Descends(r, b.res)
  BY <1>2, <1>4 DEF Descends, Action
<1>5. QED BY <1>1, <1>3, <1>4, AppliedComesFrom

LEMMA ExecuteIdentity ==
  ASSUME Identity, NEW o \in Ops, NEW c \in cmds, Execute(c) \/ ExecuteUnrecorded(c)
  PROVE  IdentityOf(o)'
<1> DEFINE b == Booked(c, "accepted")
           a == Applied(b, c)
<1>1. c \in Command /\ TypeOK
  BY UntouchedBefore DEF Identity
<1>2. b \in Device /\ a \in Device
  BY <1>1, BookedType, AppliedType DEF TypeOK
<1>3. \A r \in a.res \cup b.res :
        \/ Descends(r, dev.res)
        \/ r.op = c.op /\ r.status \in Action \cup {"unknown"}
  BY <1>1, ExecutedComesFrom
<1>4. ASSUME NEW r \in dev'.res \cup disk'.res
      PROVE  \/ r \in a.res \cup b.res
             \/ \E q \in a.res : r.op = q.op /\ r.status = "unknown"
  <2>1. CASE Execute(c)
    BY <2>1, <1>4 DEF Execute
  <2>2. CASE ExecuteUnrecorded(c)
    <3>1. dev'.res = {IF q.seq = c.seq THEN [q EXCEPT !.status = "unknown"] ELSE q
                      : q \in a.res}
      BY <1>2, <2>2 DEF ExecuteUnrecorded, Device
    <3>2. a.res \subseteq Result /\ disk' = b
      BY <1>2, <2>2 DEF Device, ExecuteUnrecorded
    <3> HIDE DEF a, b
    <3>3. QED BY <1>4, <3>1, <3>2 DEF Result
  <2>3. QED BY <2>1, <2>2
<1> HIDE DEF a, b
<1>5. \A r \in dev'.res \cup disk'.res :
        \/ Descends(r, dev.res)
        \/ r.op = c.op /\ r.status \in Action \cup {"unknown"}
  BY <1>3, <1>4 DEF Descends
<1>6. \A r \in replies' : \/ r \in replies
                          \/ r.op = c.op /\ r.status \in Action \cup {"unknown"}
  BY AnswerFor DEF Execute, ExecuteUnrecorded, Action
<1>7. Received(c) /\ TakesEffect(c)
  BY DEF Execute, ExecuteUnrecorded
<1>8. QED BY <1>5, <1>6, <1>7, ActIdentity

LEMMA StopUnrecordedIdentity ==
  ASSUME Identity, NEW o \in Ops, NEW c \in cmds, StopUnrecorded(c)
  PROVE  IdentityOf(o)'
<1>1. \A r \in dev'.res \cup disk'.res : Descends(r, dev.res) \/ Descends(r, disk.res)
  BY StoppedDescends DEF StopUnrecorded, Identity, TypeOK, Descends
<1>2. \A r \in replies' : \/ r \in replies
                          \/ r.op = c.op /\ r.status = "unknown"
  BY AnswerFor DEF StopUnrecorded
<1>3. QED BY <1>1, <1>2, ActIdentity DEF StopUnrecorded

-----------------------------------------------------------------------------
(* Every step keeps the identity of every operation.                       *)

LEMMA InitIdentity == Init => Identity
BY InitType DEF Init, Identity, IdentityOf, Says, Unwritten, InFlight, NoRow, Refusal, Action

LEMMA IdentityStep ==
  ASSUME ~Restores, Identity, [Next]_vars, NEW o \in Ops
  PROVE  IdentityOf(o)'
<1> DEFINE Goal == IdentityOf(o)'
<1>1. ASSUME NEW p \in Ops, Intent(p) \/ MarkSent(p) \/ Write(p) \/ Unknown(p) PROVE Goal
  BY <1>1, IntentIdentity, MarkSentIdentity, WriteIdentity, UnknownIdentity
<1>2. ASSUME NEW p \in Ops, \E purpose \in {"refresh", "review"} : Query(p, purpose) PROVE Goal
  BY <1>2, QueryIdentity
<1>3. ASSUME UNCHANGED <<task, cmds, dev, disk, effects>>, replies' \subseteq replies,
             \A p \in Ops : row'[p].status = row[p].status
      PROVE Goal
  BY <1>3, QuietHost, KeptIdentity, UniqueSubset DEF Identity, IdentityOf, Unwritten
<1>4. ASSUME NEW p \in Ops, ReadSnapshot(p) \/ RecordReconciliation(p) PROVE Goal
  BY <1>3, <1>4 DEF ReadSnapshot, RecordReconciliation, device, Identity, TypeOK, Row
<1>5. ASSUME NEW r \in replies, RecordResult(r) PROVE Goal
  BY <1>5, RecordResultIdentity
<1>6. ASSUME NEW r \in replies, LoseReply(r) PROVE Goal
  BY <1>3, <1>6 DEF LoseReply, device
<1>7. CASE LinkUp \/ ReconcileHighwater
  BY <1>3, <1>7 DEF LinkUp, ReconcileHighwater, host, device
<1>8. CASE LinkDown
  <2>1. UNCHANGED <<row, task, replies, dev, disk, effects>> /\ cmds' = Stale(cmds)
    BY <1>8 DEF LinkDown, host, device
  <2>2. \A S \in {Refusal, Action} : Says(o, S)' <=> Says(o, S)
    BY <2>1 DEF Says
  <2>3. QED BY <2>1, <2>2, KeptIdentity, UniqueStale DEF Identity, IdentityOf, Unwritten
<1>9. CASE RestartBackend
  BY <1>9, RestartIdentity
<1>10. ~RestoreBackup
  BY DEF RestoreBackup
<1>11. ASSUME NEW c \in cmds, LoseCommand(c) \/ Replayed(c) \/ Reject(c) PROVE Goal
  BY <1>11, LoseCommandIdentity, ReplayedIdentity, RejectIdentity
<1>12. ASSUME NEW c \in cmds, Execute(c) \/ ExecuteUnrecorded(c) \/ StopUnrecorded(c)
       PROVE Goal
  BY <1>12, ExecuteIdentity, StopUnrecordedIdentity
<1>13. dev \in Device
  BY DEF Identity, TypeOK
<1>14. CASE StartMeasuring
  <2> DEFINE d == [dev EXCEPT !.phase = "measuring",
                              !.res = Settle(@, dev.run, {"accepted"}, "applied")]
  <2>1. d.res = Settle(dev.res, dev.run, {"accepted"}, "applied")
    BY <1>13 DEF Device
  <2>2. \A r \in d.res : Descends(r, dev.res)
    BY <1>13, <2>1, SettleDescends DEF Device
  <2>3. QED BY <1>14, <2>2, ProgressIdentity DEF StartMeasuring
<1>15. CASE FinishMeasuring \/ CompleteRun
  <2>1. /\ [dev EXCEPT !.phase = "disposal"].res = dev.res
        /\ [dev EXCEPT !.phase = "completed"].res = dev.res
        /\ \A r \in dev.res : Descends(r, dev.res)
    BY <1>13 DEF Device, Descends
  <2>2. QED BY <1>15, <2>1, ProgressIdentity DEF FinishMeasuring, CompleteRun
<1>16. CASE Trip
  BY <1>13, <1>16, StoppedDescends, ProgressIdentity DEF Trip
<1>17. CASE Reboot
  BY <1>17, RebootIdentity
<1>18. CASE UNCHANGED vars
  BY <1>3, <1>18 DEF vars, host, device
<1>19. QED
  BY <1>1, <1>2, <1>4, <1>5, <1>6, <1>7, <1>8, <1>9, <1>10, <1>11, <1>12, <1>14, <1>15,
     <1>16, <1>17, <1>18 DEF Next, HostStep, DeviceStep

LEMMA IdentityKept == ASSUME ~Restores PROVE Spec => []Identity
<1>1. Identity /\ TypeOK' /\ [Next]_vars => Identity'
  BY IdentityStep DEF Identity
<1>2. QED BY <1>1, InitIdentity, TypeCorrect, PTL DEF Spec

(* Whatever is lost, delayed, cut off or restarted, and for any number of   *)
(* operations, none takes effect on the device twice.                       *)
THEOREM ActsAtMostOnce == ASSUME ~Restores PROVE Spec => []AtMostOnce
<1>1. Identity => AtMostOnce
  BY DEF Identity, IdentityOf, AtMostOnce
<1>2. QED BY <1>1, IdentityKept, PTL

(* A recorded rejection is proof that the operation did not act and, the    *)
(* invariant being kept, never will.                                        *)
THEOREM RejectionIsProof == ASSUME ~Restores PROVE Spec => []RejectedNeverActs
<1>1. Identity => RejectedNeverActs
  BY DEF Identity, IdentityOf, Says, Refusal, RejectedNeverActs
<1>2. QED BY <1>1, IdentityKept, PTL

(* What the host records as accepted, applied or interrupted has acted.     *)
THEOREM OutcomeIsProof == ASSUME ~Restores PROVE Spec => []OutcomeActed
<1>1. Identity => OutcomeActed
  BY DEF Identity, IdentityOf, Says, Action, OutcomeActed
<1>2. QED BY <1>1, IdentityKept, PTL

-----------------------------------------------------------------------------
(* What one step does to the recorded statuses and to the effects.         *)

(* At most the status of p changes, and how.                               *)
OneRow(p) ==
  /\ UNCHANGED effects
  /\ \A o \in Ops \ {p} : row'[o].status = row[o].status
  /\ \/ row'[p].status = row[p].status
     \/ row[p].status = "absent" /\ row'[p].status = "pending"
     \/ task[p] = "committed" /\ row'[p].status = "sent"
     \/ /\ row[p].status \notin Terminal \cup {"absent"}
        /\ \/ row'[p].status = "unknown"
           \/ \E r \in replies : r.op = p /\ row'[p].status = r.status

AllRows ==
  /\ UNCHANGED effects
  /\ \A o \in Ops : \/ row'[o].status = row[o].status
                     \/ /\ row[o].status \in {"pending", "sent", "accepted"}
                        /\ row'[o].status = "unknown"

OneEffect(c) == TakesEffect(c) /\ UNCHANGED row

LEMMA ChangeStep ==
  ASSUME ~Restores, Identity, [Next]_vars
  PROVE  \/ UNCHANGED <<row, effects>>
         \/ \E p \in Ops : OneRow(p)
         \/ AllRows
         \/ \E c \in cmds : OneEffect(c)
<1> USE DEF Identity
<1> DEFINE Goal == \/ UNCHANGED <<row, effects>>
                   \/ \E p \in Ops : OneRow(p)
                   \/ AllRows
                   \/ \E c \in cmds : OneEffect(c)
<1> SUFFICES Goal
  OBVIOUS
<1>0. row \in [Ops -> Row]
  BY DEF TypeOK
<1>1. ASSUME NEW p \in Ops, Intent(p) PROVE OneRow(p)
  BY <1>0, <1>1 DEF Intent, Admit, OneRow, device
<1>2. ASSUME NEW p \in Ops, MarkSent(p) PROVE OneRow(p)
  BY <1>0, <1>2 DEF MarkSent, OneRow, Row, device
<1>3. ASSUME NEW p \in Ops, Unknown(p) PROVE OneRow(p)
  <2>1. row[p].status # "absent"
    BY <1>3 DEF Unknown, IdentityOf
  <2>2. QED BY <1>0, <1>3, <2>1 DEF Unknown, OneRow, Row, device
<1>4. ASSUME NEW p \in Ops, RecordReconciliation(p) PROVE OneRow(p)
  BY <1>0, <1>4 DEF RecordReconciliation, OneRow, Row, device
<1>5. ASSUME NEW r \in replies, RecordResult(r) PROVE OneRow(r.op) /\ r.op \in Ops
  BY <1>0, <1>5 DEF RecordResult, Recorded, OneRow, TypeOK, Reply, Row, device
<1>6. ASSUME NEW p \in Ops, Write(p) \/ ReadSnapshot(p) PROVE Goal
  BY <1>6 DEF Write, ReadSnapshot, device
<1>7. ASSUME NEW p \in Ops, NEW purpose, Query(p, purpose) PROVE Goal
  BY <1>7 DEF Query, host, device
<1>8. ASSUME NEW r \in replies, LoseReply(r) PROVE Goal
  BY <1>8 DEF LoseReply, device
<1>9. CASE LinkUp \/ ReconcileHighwater \/ LinkDown
  BY <1>9 DEF LinkUp, ReconcileHighwater, LinkDown, host, device
<1>10. CASE RestartBackend
  BY <1>0, <1>10 DEF RestartBackend, Interrupted, Idle, AllRows, Row, device
<1>11. ~RestoreBackup
  BY DEF RestoreBackup
<1>12. ASSUME NEW c \in cmds, LoseCommand(c) \/ Replayed(c) \/ Reject(c) PROVE Goal
  BY <1>12 DEF LoseCommand, Replayed, Reject, Received, host, device
<1>13. ASSUME NEW c \in cmds, Execute(c) \/ ExecuteUnrecorded(c) \/ StopUnrecorded(c)
       PROVE OneEffect(c)
  BY <1>13 DEF Execute, ExecuteUnrecorded, StopUnrecorded, Received, OneEffect, host
<1>14. ASSUME NEW d, Progress(d) PROVE Goal
  BY <1>14 DEF Progress, host
<1>15. CASE StartMeasuring \/ FinishMeasuring \/ CompleteRun \/ Trip
  BY <1>14, <1>15 DEF StartMeasuring, FinishMeasuring, CompleteRun, Trip
<1>16. CASE Reboot
  BY <1>16 DEF Reboot, host
<1>17. CASE UNCHANGED vars
  BY <1>17 DEF vars, host, device
<1> HIDE DEF Goal
<1>18. (\E p \in Ops : OneRow(p)) \/ AllRows \/ (\E c \in cmds : OneEffect(c)) => Goal
  BY DEF Goal
<1>19. HostStep => Goal
  BY <1>1, <1>2, <1>3, <1>4, <1>5, <1>6, <1>7, <1>8, <1>9, <1>10, <1>11, <1>18 DEF HostStep
<1>20. DeviceStep => Goal
  BY <1>12, <1>13, <1>15, <1>16, <1>18 DEF DeviceStep
<1>21. QED BY <1>17, <1>19, <1>20 DEF Next

LEMMA OutcomeStep ==
  ASSUME ~Restores, Identity, [Next]_vars, NEW o \in Ops, row[o].status \in Terminal
  PROVE  row'[o].status = row[o].status
<1>1. row[o].status # "absent" /\ task[o] # "committed"
  BY DEF Identity, IdentityOf, Says, Unwritten, Refusal, Action, Terminal
<1>2. ASSUME NEW p \in Ops, OneRow(p) PROVE row'[o].status = row[o].status
  BY <1>1, <1>2 DEF OneRow
<1>3. AllRows => row'[o].status = row[o].status
  BY DEF AllRows, Terminal
<1>4. QED BY <1>2, <1>3, ChangeStep DEF OneEffect

(* A final outcome stays: no eviction, late answer or restart takes it back *)
(* or turns it into another one.                                            *)
THEOREM OutcomeStays == ASSUME ~Restores PROVE Spec => OutcomeIsFinal
<1>1. Identity /\ [Next]_vars
      => [\A o \in Ops : row[o].status \in Terminal /\ restored' = restored
                           => row'[o].status = row[o].status]_<<row, restored>>
  BY OutcomeStep
<1>2. QED BY <1>1, IdentityKept, PTL DEF Spec, OutcomeIsFinal

-----------------------------------------------------------------------------
(* The refinement: every step is one of the ledger's, or a stutter.        *)

fates    == [o \in Ops |-> Fate(o)]
verdicts == [o \in Ops |-> Verdict(o)]

LEMMA VerdictHolds ==
  ASSUME Identity, NEW o \in Ops
  PROVE  /\ Verdict(o) \in {"acting", "acted"} => Fate(o) = "acted"
         /\ Verdict(o) = "refused" => effects[o] = 0
         /\ row[o].status = "absent" => Fate(o) = "new"
         /\ row[o].status # "absent" => Fate(o) \in {"issued", "acted"}
BY DEF Identity, IdentityOf, Says, Unwritten, Refusal, Action, Fate, Verdict

LEMMA RowLedger ==
  ASSUME Identity, Identity', NEW p \in Ops, OneRow(p)
  PROVE  [Ledger!LedgerNext]_<<fates, verdicts>>
<1> USE DEF Identity
<1>1. \A o \in Ops \ {p} : Fate(o)' = Fate(o) /\ Verdict(o)' = Verdict(o)
  BY DEF OneRow, Fate, Verdict
<1>2. /\ fates' = [fates EXCEPT ![p] = Fate(p)']
      /\ verdicts' = [verdicts EXCEPT ![p] = Verdict(p)']
  BY <1>1 DEF fates, verdicts
<1>3. CASE row'[p].status = row[p].status
  <2>1. Fate(p)' = Fate(p) /\ Verdict(p)' = Verdict(p)
    BY <1>3 DEF OneRow, Fate, Verdict
  <2>2. QED BY <1>2, <2>1 DEF fates, verdicts
<1>4. CASE row[p].status = "absent" /\ row'[p].status = "pending"
  <2>1. Fate(p) = "new" /\ Fate(p)' = "issued" /\ Verdict(p)' = Verdict(p)
    BY <1>4, VerdictHolds DEF OneRow, Fate, Verdict
  <2>2. Ledger!Issue(p)
    BY <1>2, <2>1 DEF Ledger!Issue, fates, verdicts
  <2>3. QED BY <2>2 DEF Ledger!LedgerNext
<1>5. CASE task[p] = "committed" /\ row'[p].status = "sent"
  <2>1. /\ row[p].status \notin Action \cup Refusal \cup {"absent"}
    BY <1>5 DEF IdentityOf, Says, Unwritten, Action, Refusal
  <2>2. Fate(p)' = Fate(p) /\ Verdict(p)' = Verdict(p)
    BY <1>5, <2>1 DEF OneRow, Fate, Verdict, Action, Refusal
  <2>3. QED BY <1>2, <2>2 DEF fates, verdicts
<1>6. CASE /\ row[p].status \notin Terminal \cup {"absent"}
           /\ row'[p].status \in Answers
  <2>1. /\ Fate(p)' = Fate(p) /\ Fate(p) \in {"issued", "acted"}
        /\ Verdict(p) \in {"none", "acting"}
    BY <1>6, VerdictHolds DEF OneRow, Fate, Verdict, Terminal, Answers, Uncertain
  <2>2. fates' = fates
    BY <1>2, <2>1 DEF fates
  <2>3. CASE Verdict(p)' \in {"acting", "acted"}
    <3>1. effects[p] = 1
      BY <2>3 DEF OneRow, Verdict, IdentityOf, Says, Action
    <3>2. Fate(p) = "acted"
      BY <2>1, <3>1 DEF Fate
    <3>3. Ledger!LearnActed(p)
      BY <1>2, <2>1, <2>2, <2>3, <3>2 DEF Ledger!LearnActed, fates, verdicts
    <3>4. QED BY <3>3 DEF Ledger!LedgerNext
  <2>4. CASE Verdict(p)' = "refused"
    <3>1. effects[p] = 0
      BY <2>4 DEF OneRow, Verdict, IdentityOf, Says, Refusal
    <3>2. Fate(p) = "issued" /\ Verdict(p) = "none"
      BY <2>1, <3>1, VerdictHolds DEF Fate
    <3>3. Ledger!LearnRefused(p)
      BY <1>2, <2>2, <2>4, <3>2 DEF Ledger!LearnRefused, fates, verdicts
    <3>4. QED BY <3>3 DEF Ledger!LedgerNext
  <2>5. CASE Verdict(p)' = "none"
    <3> DEFINE S == IF Verdict(p) = "acting" THEN {p} ELSE {}
    <3>1. S \in SUBSET {o \in Ops : verdicts[o] = "acting"}
      BY DEF verdicts
    <3>2. verdicts' = [o \in Ops |-> IF o \in S THEN "none" ELSE verdicts[o]]
      BY <1>2, <2>1, <2>5 DEF verdicts
    <3> HIDE DEF S
    <3>3. Ledger!Doubt
      BY <2>2, <3>1, <3>2 DEF Ledger!Doubt, fates, verdicts
    <3>4. QED BY <3>3 DEF Ledger!LedgerNext
  <2>6. Verdict(p)' \in {"acting", "acted", "refused", "none"}
    BY DEF Verdict
  <2>7. QED BY <2>3, <2>4, <2>5, <2>6
<1>7. \A r \in replies : r.status \in Answers
  BY DEF TypeOK, Reply
<1>8. QED BY <1>3, <1>4, <1>5, <1>6, <1>7 DEF OneRow, Answers, Uncertain

LEMMA RestartLedger ==
  ASSUME Identity, AllRows
  PROVE  [Ledger!LedgerNext]_<<fates, verdicts>>
<1> DEFINE S == {o \in Ops : Verdict(o) = "acting" /\ row'[o].status = "unknown"}
<1>1. \A o \in Ops : Fate(o)' = Fate(o)
  BY DEF AllRows, Fate
<1>2. \A o \in Ops : Verdict(o)' = IF o \in S THEN "none" ELSE Verdict(o)
  BY DEF AllRows, Verdict
<1>3. fates' = fates
  BY <1>1 DEF fates
<1>4. /\ S \in SUBSET {o \in Ops : verdicts[o] = "acting"}
      /\ verdicts' = [o \in Ops |-> IF o \in S THEN "none" ELSE verdicts[o]]
  BY <1>2 DEF verdicts
<1> HIDE DEF S
<1>5. Ledger!Doubt
  BY <1>3, <1>4 DEF Ledger!Doubt, fates, verdicts
<1>6. QED BY <1>5 DEF Ledger!LedgerNext

LEMMA EffectLedger ==
  ASSUME Identity, NEW c \in cmds, OneEffect(c)
  PROVE  [Ledger!LedgerNext]_<<fates, verdicts>>
<1>1. /\ c.op \in Ops /\ effects[c.op] = 0 /\ row[c.op].status # "absent"
      /\ Verdict(c.op) # "refused" /\ effects \in [Ops -> Nat]
  BY UntouchedBefore
     DEF Identity, IdentityOf, InFlight, Unwritten, Says, Refusal, Verdict, TypeOK
<1>2. \A o \in Ops : Verdict(o)' = Verdict(o)
  BY DEF OneEffect, Verdict
<1>3. \A o \in Ops \ {c.op} : Fate(o)' = Fate(o)
  BY <1>1 DEF OneEffect, TakesEffect, Fate
<1>4. Fate(c.op) = "issued" /\ Fate(c.op)' = "acted"
  BY <1>1 DEF OneEffect, TakesEffect, Fate
<1>5. fates' = [fates EXCEPT ![c.op] = "acted"] /\ verdicts' = verdicts
  BY <1>1, <1>2, <1>3, <1>4 DEF fates, verdicts
<1>6. Ledger!Act(c.op)
  BY <1>1, <1>4, <1>5 DEF Ledger!Act, fates, verdicts
<1>7. QED BY <1>1, <1>6 DEF Ledger!LedgerNext

(* Host and device, with every loss and restart between them, do no more    *)
(* than the ledger: the refinement that ops_start_stop checks, for all      *)
(* operations, kinds and bounds.                                            *)
THEOREM ImplementsLedger == ASSUME ~Restores PROVE Spec => LedgerSpec
<1>1. Init => Ledger!LedgerInit
  BY DEF Init, Ledger!LedgerInit, Fate, Verdict, NoRow
<1>2. Identity /\ Identity' /\ [Next]_vars => [Ledger!LedgerNext]_<<fates, verdicts>>
  <2> SUFFICES ASSUME Identity, Identity', [Next]_vars
               PROVE  [Ledger!LedgerNext]_<<fates, verdicts>>
    OBVIOUS
  <2>1. CASE UNCHANGED <<row, effects>>
    BY <2>1 DEF fates, verdicts, Fate, Verdict
  <2>2. QED BY <2>1, ChangeStep, RowLedger, RestartLedger, EffectLedger
<1>3. QED
  BY <1>1, <1>2, IdentityKept, PTL
     DEF Spec, LedgerSpec, Ledger!LedgerSpec, fates, verdicts

-----------------------------------------------------------------------------
(* The order in which frames reach the device: numbers tell operations      *)
(* apart, a frame carries the number of its operation, and the waterline is *)
(* the number of an operation whose frame has come and gone.                *)

Present(o) == row[o].status # "absent"
Passed(q)  == Present(q) /\ ~Unwritten(q) /\ ~InFlight(q) /\ row[q].seq = dev.hw

SettledFirst ==
  \A o, p \in Ops : Present(o) /\ Ordinary(p) /\ row[o].seq < row[p].seq
                      => row[o].status \in Terminal \/ o \in audited

Numbered ==
  /\ \A o, p \in Ops : Present(o) /\ Present(p) /\ row[o].seq = row[p].seq => o = p
  /\ \A c \in cmds : c.seq = row[c.op].seq

Waterline == dev.hw = 0 \/ \E q \in Ops : Passed(q)

Passage == /\ Identity /\ AdmissionInv /\ OrderInv
           /\ SettledFirst /\ Numbered /\ Waterline

(* Steps that leave the frames as they are, but for loss and staleness, and *)
(* the waterline where it is.                                              *)
FramesOnly ==
  /\ dev'.hw = dev.hw
  /\ \A d \in cmds' : \E f \in cmds : d.op = f.op /\ d.seq = f.seq

TakesFrame(c) == Received(c) /\ dev'.hw = c.seq

LEMMA FrameStep ==
  ASSUME ~Restores, OrderInv, [Next]_vars
  PROVE  FramesOnly \/ (\E o \in Ops : Write(o)) \/ (\E c \in cmds : TakesFrame(c))
<1> USE DEF OrderInv
<1> DEFINE Goal == FramesOnly \/ (\E o \in Ops : Write(o)) \/ (\E c \in cmds : TakesFrame(c))
<1> SUFFICES Goal
  OBVIOUS
<1>0. dev.hw \in Nat /\ dev \in Device /\ disk \in Device /\ cmds \subseteq Command
  BY DEF TypeOK, Device
<1>1. ASSUME dev'.hw = dev.hw, cmds' \subseteq cmds PROVE FramesOnly
  BY <1>1 DEF FramesOnly
<1>2. ASSUME dev' = dev, cmds' = Stale(cmds) PROVE FramesOnly
  <2>1. \A d \in cmds' : \E f \in cmds : d = [f EXCEPT !.session = "left"] /\ d.op = f.op
          /\ d.seq = f.seq
    BY <1>0, <1>2 DEF Stale, Command
  <2>2. QED BY <1>2, <2>1 DEF FramesOnly
<1>3. ASSUME NEW o \in Ops,
             \/ Intent(o) \/ MarkSent(o) \/ Unknown(o)
             \/ ReadSnapshot(o) \/ RecordReconciliation(o)
             \/ \E purpose \in {"refresh", "review"} : Query(o, purpose)
      PROVE FramesOnly
  BY <1>1, <1>3 DEF Intent, Admit, MarkSent, Unknown, ReadSnapshot,
                    RecordReconciliation, Query, device
<1>4. ASSUME NEW r \in replies, RecordResult(r) \/ LoseReply(r) PROVE FramesOnly
  BY <1>1, <1>4 DEF RecordResult, LoseReply, device
<1>5. CASE LinkUp \/ ReconcileHighwater
  BY <1>1, <1>5 DEF LinkUp, ReconcileHighwater, device
<1>6. CASE LinkDown \/ RestartBackend
  BY <1>2, <1>6 DEF LinkDown, RestartBackend, Idle, device
<1>7. ~RestoreBackup
  BY DEF RestoreBackup
<1>8. ASSUME NEW c \in cmds, LoseCommand(c) \/ Replayed(c) PROVE FramesOnly
  BY <1>1, <1>8 DEF LoseCommand, Replayed, Received, device
<1>9. ASSUME NEW c \in cmds, Reject(c) PROVE TakesFrame(c)
  BY <1>0, <1>9, BookedHighwater DEF Reject, TakesFrame
<1>10. ASSUME NEW c \in cmds, Execute(c) \/ ExecuteUnrecorded(c) PROVE TakesFrame(c)
  <2> DEFINE booked == Booked(c, "accepted")
             applied == Applied(booked, c)
  <2>1. c \in Command
    BY <1>0
  <2>2. booked \in Device /\ booked.hw = c.seq
    BY <1>0, <2>1, BookedType, BookedHighwater
  <2>3. applied \in Device /\ applied.hw = c.seq
    BY <2>1, <2>2, AppliedType, HighwaterKept
  <2>4. QED BY <1>10, <2>2, <2>3 DEF Execute, ExecuteUnrecorded, Device, TakesFrame
<1>11. ASSUME NEW c \in cmds, StopUnrecorded(c) PROVE FramesOnly
  <2>1. c \in Command
    BY <1>0
  <2>2. dev'.hw = dev.hw
    BY <1>0, <1>11, <2>1, HighwaterKept DEF StopUnrecorded
  <2>3. QED BY <1>1, <1>11, <2>2 DEF StopUnrecorded, Received
<1>12. ASSUME NEW d \in Device, d.hw = dev.hw, Progress(d) PROVE FramesOnly
  BY <1>1, <1>12 DEF Progress
<1>13. CASE StartMeasuring
  <2> DEFINE d == [dev EXCEPT !.phase = "measuring",
                              !.res = Settle(@, dev.run, {"accepted"}, "applied")]
  <2>1. Settle(dev.res, dev.run, {"accepted"}, "applied") \in SUBSET Result
    BY <1>0, SettleType DEF Device, Terminal
  <2>2. d \in Device /\ d.hw = dev.hw
    BY <1>0, <2>1 DEF Device, Phases
  <2>3. QED BY <1>12, <1>13, <2>2 DEF StartMeasuring
<1>14. CASE FinishMeasuring \/ CompleteRun
  <2>1. /\ [dev EXCEPT !.phase = "disposal"] \in Device
        /\ [dev EXCEPT !.phase = "disposal"].hw = dev.hw
        /\ [dev EXCEPT !.phase = "completed"] \in Device
        /\ [dev EXCEPT !.phase = "completed"].hw = dev.hw
    BY <1>0 DEF Device, Phases
  <2>2. QED BY <1>12, <1>14, <2>1 DEF FinishMeasuring, CompleteRun
<1>15. CASE Trip
  <2>1. Stopped(dev).hw = dev.hw
    BY <1>0 DEF Stopped, Device
  <2>2. QED BY <1>0, <1>12, <1>15, <2>1, StoppedType DEF Trip
<1>16. CASE Reboot
  <2>1. \A d \in Device : Recover(d).hw = d.hw
    BY DEF Recover, Device
  <2>2. dev'.hw = dev.hw
    BY <1>0, <1>16, <2>1 DEF Reboot
  <2>3. QED BY <1>1, <1>16, <2>2 DEF Reboot
<1>17. CASE UNCHANGED vars
  BY <1>1, <1>17 DEF vars, device
<1> HIDE DEF Goal
<1>18. FramesOnly \/ (\E o \in Ops : Write(o)) \/ (\E c \in cmds : TakesFrame(c)) => Goal
  BY DEF Goal
<1>19. HostStep => Goal
  BY <1>3, <1>4, <1>5, <1>6, <1>7, <1>18 DEF HostStep
<1>20. DeviceStep => Goal
  BY <1>8, <1>9, <1>10, <1>11, <1>13, <1>14, <1>15, <1>16, <1>18 DEF DeviceStep
<1>21. QED BY <1>17, <1>19, <1>20 DEF Next

(* An admission: of which every earlier operation is settled, and which     *)
(* takes a number above every other.                                       *)
LEMMA IntentPassage ==
  ASSUME Passage, NEW o \in Ops, Intent(o)
  PROVE  SettledFirst' /\ Numbered' /\ Waterline'
<1>1. /\ lastSeq \in Nat /\ audited' = audited /\ row \in [Ops -> Row] /\ dev' = dev
      /\ ~Present(o) /\ row'[o].status = "pending" /\ row'[o].seq = lastSeq + 1
      /\ \A p \in Ops \ {o} : row'[p] = row[p] /\ task'[p] = task[p]
      /\ Kind[o] # "stop" => \A p \in Ops : ~Unresolved(p)
      /\ cmds' = cmds /\ cmds \subseteq Command
  BY DEF Intent, Admit, Passage, AdmissionInv, TypeOK, Present, device
<1>2. \A p \in Ops : Present(p) => row[p].seq \in Nat /\ row[p].seq <= lastSeq
  BY DEF Passage, AdmissionInv, NumberedRow, TypeOK, Present
<1>3. \A c \in cmds : c.op \in Ops /\ c.op # o
  BY <1>1 DEF Passage, Identity, IdentityOf, InFlight, Unwritten, Present, Command
<1>4. SettledFirst'
  <2>1. SUFFICES ASSUME NEW q \in Ops, NEW p \in Ops, Present(q)', Ordinary(p)', row'[q].seq < row'[p].seq
                 PROVE  row'[q].status \in Terminal \/ q \in audited'
    BY DEF SettledFirst
  <2>2. CASE p = o
    <3>1. q # o /\ Present(q)
      BY <1>1, <2>1, <2>2 DEF Present
    <3>2. /\ ~Unresolved(q) /\ row[q].status \in {"absent"} \cup InDoubt \cup Terminal
          /\ row[q].reconciled \in {0, 1}
      BY <1>1, <2>1, <2>2 DEF Ordinary, Row
    <3>3. row[q].status \in Terminal \/ row[q].reconciled = 1
      BY <3>1, <3>2 DEF Unresolved, Present
    <3>4. row[q].status \in Terminal \/ q \in audited
      BY <3>3 DEF Passage, AdmissionInv, AuditedRow
    <3>5. QED BY <1>1, <3>1, <3>4
  <2>3. CASE q = o /\ p # o
    <3>1. Present(p) /\ row'[p].seq = row[p].seq
      BY <1>1, <2>1, <2>3 DEF Ordinary, Present
    <3>2. QED BY <1>1, <1>2, <2>1, <2>3, <3>1
  <2>4. CASE p # o /\ q # o
    BY <1>1, <2>1, <2>4 DEF Passage, SettledFirst, Ordinary, Present
  <2>5. QED BY <2>2, <2>3, <2>4
<1>5. Numbered'
  <2>1. ASSUME NEW q \in Ops, NEW p \in Ops, Present(q)', Present(p)', row'[q].seq = row'[p].seq, q # p
        PROVE  FALSE
    <3>1. CASE q = o
      <4>1. Present(p) /\ row'[p].seq = row[p].seq
        BY <1>1, <2>1, <3>1 DEF Present
      <4>2. QED BY <1>1, <1>2, <2>1, <3>1, <4>1
    <3>2. CASE p = o
      <4>1. Present(q) /\ row'[q].seq = row[q].seq
        BY <1>1, <2>1, <3>2 DEF Present
      <4>2. QED BY <1>1, <1>2, <2>1, <3>2, <4>1
    <3>3. CASE q # o /\ p # o
      BY <1>1, <2>1, <3>3 DEF Passage, Numbered, Present
    <3>4. QED BY <3>1, <3>2, <3>3
  <2>2. \A c \in cmds' : c.seq = row'[c.op].seq
    BY <1>1, <1>3 DEF Passage, Numbered
  <2>3. QED BY <2>1, <2>2 DEF Numbered
<1>6. Waterline'
  <2>1. ASSUME NEW q \in Ops, Passed(q) PROVE Passed(q)'
    <3>1. q # o
      BY <1>1, <2>1 DEF Passed
    <3>2. QED BY <1>1, <2>1, <3>1 DEF Passed, Present, Unwritten, InFlight
  <2>2. QED BY <1>1, <2>1 DEF Passage, Waterline
<1>7. QED BY <1>4, <1>5, <1>6

(* Any other step keeps the rows, their numbers and what is settled.       *)
LEMMA QuietSettled ==
  ASSUME ~Restores, Passage, RowsQuiet, [Next]_vars
  PROVE  /\ SettledFirst'
         /\ \A o, p \in Ops : Present(o)' /\ Present(p)' /\ row'[o].seq = row'[p].seq => o = p
<1>1. \A o \in Ops : /\ Present(o)' <=> Present(o)
                     /\ Ordinary(o)' <=> Ordinary(o)
                     /\ row'[o].seq = row[o].seq
  BY DEF RowsQuiet, RowStays, Present, Ordinary
<1>2. SettledFirst'
  <2>1. SUFFICES ASSUME NEW o \in Ops, NEW p \in Ops, Present(o)', Ordinary(p)', row'[o].seq < row'[p].seq
                 PROVE  row'[o].status \in Terminal \/ o \in audited'
    BY DEF SettledFirst
  <2>2. row[o].status \in Terminal \/ o \in audited
    BY <1>1, <2>1 DEF Passage, SettledFirst
  <2>3. row[o].status \in Terminal => row'[o].status = row[o].status
    BY OutcomeStep DEF Passage
  <2>4. QED BY <2>2, <2>3 DEF RowsQuiet
<1>3. QED BY <1>1, <1>2 DEF Passage, Numbered

LEMMA PassageStep ==
  ASSUME ~Restores, Passage, TypeOK', [Next]_vars
  PROVE  SettledFirst' /\ Numbered' /\ Waterline'
<1>1. CASE \E o \in Ops : Intent(o)
  BY <1>1, IntentPassage
<1>2. CASE RowsQuiet
  <2>1. /\ SettledFirst'
        /\ \A o, p \in Ops : Present(o)' /\ Present(p)' /\ row'[o].seq = row'[p].seq => o = p
    BY <1>2, QuietSettled
  <2>2. \A o \in Ops : /\ Present(o)' <=> Present(o)
                       /\ row'[o].seq = row[o].seq
                       /\ Unwritten(o)' => Unwritten(o)
    BY <1>2 DEF RowsQuiet, RowStays, Present, Unwritten
  <2>3. \A c \in cmds : c.op \in Ops
    BY DEF Passage, Identity, TypeOK, Command
  <2>4. CASE FramesOnly
    <3>1. \A d \in cmds' : d.seq = row'[d.op].seq
      BY <2>2, <2>3, <2>4 DEF FramesOnly, Passage, Numbered
    <3>2. ASSUME NEW q \in Ops, Passed(q) PROVE Passed(q)'
      BY <2>2, <2>4, <3>2 DEF FramesOnly, Passed, InFlight
    <3>3. Waterline'
      BY <2>4, <3>2 DEF FramesOnly, Passage, Waterline
    <3>4. QED BY <2>1, <3>1, <3>3 DEF Numbered
  <2>5. ASSUME NEW o \in Ops, Write(o) PROVE Numbered' /\ Waterline'
    <3>1. /\ dev' = dev /\ row' = row /\ Unwritten(o)
          /\ \A d \in cmds' : d \in cmds \/ (d.op = o /\ d.seq = row[o].seq)
      BY <2>5 DEF Write, device, Unwritten
    <3>2. \A d \in cmds' : d.seq = row'[d.op].seq
      BY <3>1 DEF Passage, Numbered
    <3>3. ASSUME NEW q \in Ops, Passed(q) PROVE Passed(q)'
      BY <2>2, <3>1, <3>3 DEF Passed, InFlight
    <3>4. Waterline'
      BY <3>1, <3>3 DEF Passage, Waterline
    <3>5. QED BY <2>1, <3>2, <3>4 DEF Numbered
  <2>6. ASSUME NEW c \in cmds, TakesFrame(c) PROVE Numbered' /\ Waterline'
    <3>1. /\ c.op \in Ops /\ cmds' = cmds \ {c} /\ UNCHANGED <<row, task>> /\ dev'.hw = c.seq
      BY <2>3, <2>6 DEF TakesFrame, Received, host
    <3>2. \A d \in cmds' : d.seq = row'[d.op].seq
      BY <3>1 DEF Passage, Numbered
    <3>3. IdentityOf(c.op) /\ InFlight(c.op) /\ c.seq = row[c.op].seq
      BY <3>1 DEF Passage, Identity, InFlight, Numbered
    <3>4. ~Unwritten(c.op)' /\ ~InFlight(c.op)' /\ Present(c.op)'
      BY <3>1, <3>3 DEF IdentityOf, InFlight, Unwritten, Present
    <3>5. Passed(c.op)'
      BY <3>1, <3>3, <3>4 DEF Passed
    <3>6. Waterline'
      BY <3>1, <3>5 DEF Waterline
    <3>7. QED BY <2>1, <3>2, <3>6 DEF Numbered
  <2>7. QED BY <2>1, <2>4, <2>5, <2>6, FrameStep DEF Passage
<1>3. ~RestoreBackup
  BY DEF RestoreBackup
<1>4. QED BY <1>1, <1>2, <1>3, RowsStep DEF Passage

LEMMA PassageKept == ASSUME ~Restores PROVE Spec => []Passage
<1>1. Init => Passage
  <2> SUFFICES ASSUME Init PROVE Passage
    OBVIOUS
  <2>1. \A o \in Ops : ~Present(o)
    BY DEF Init, NoRow, Present
  <2>2. SettledFirst /\ Numbered /\ Waterline
    BY <2>1 DEF Init, SettledFirst, Numbered, Waterline
  <2>3. TypeOK /\ Identity /\ OrderInv
    BY InitType, InitIdentity DEF OrderInv, Init
  <2>4. AdmissionInv
    BY <2>1, <2>3 DEF Init, AdmissionInv, SettledBeforeNext, NumberedRow, AuditedRow, TaskRow,
         Ordinary, NoRow
  <2>5. QED BY <2>2, <2>3, <2>4 DEF Passage
<1>2. Passage /\ TypeOK' /\ [Next]_vars => Passage'
  <2> SUFFICES ASSUME Passage, TypeOK', [Next]_vars PROVE Passage'
    OBVIOUS
  <2>1. Identity'
    BY IdentityStep DEF Passage, Identity
  <2>2. AdmissionInv' /\ OrderInv'
    BY AdmissionStep, OrderStep DEF Passage, OrderInv
  <2>3. QED BY <2>1, <2>2, PassageStep DEF Passage
<1>3. QED BY <1>1, <1>2, TypeCorrect, PTL DEF Spec

(* A stop waits neither for the control lock nor for the reconciliation,   *)
(* yet no ordinary command admitted after it overtakes it on its way to    *)
(* the device: unless an operator audited it, only another stop does.      *)
THEOREM OrdinaryNeverOutrunsStop == ASSUME ~Restores PROVE Spec => []StopOnlyOutrunByStop
<1>1. Passage => StopOnlyOutrunByStop
  <2>1. SUFFICES ASSUME Passage, NEW f \in cmds, f.seq <= dev.hw, f.op \notin audited
                 PROVE  \E p \in Ops : Kind[p] = "stop" /\ row[p].seq > f.seq
    BY DEF StopOnlyOutrunByStop
  <2>2. /\ f.op \in Ops /\ IdentityOf(f.op) /\ InFlight(f.op) /\ f.seq = row[f.op].seq
        /\ dev.hw \in Nat /\ f.seq \in Nat
    BY <2>1 DEF Passage, Identity, TypeOK, Command, Device, InFlight, Numbered
  <2>3. Present(f.op) /\ row[f.op].status \notin Terminal
    BY <2>2 DEF IdentityOf, Unwritten, Present, Says, Refusal, Action, Terminal
  <2>4. f.seq # 0
    <3>1. NumberedRow(f.op) /\ lastSeq \in Nat
      BY <2>1, <2>2 DEF Passage, AdmissionInv, TypeOK
    <3>2. row[f.op].seq \in 1..lastSeq
      BY <2>3, <3>1 DEF NumberedRow, Present
    <3>3. QED BY <2>2, <3>1, <3>2
  <2>5. PICK q \in Ops : Passed(q)
    BY <2>1, <2>2, <2>4 DEF Passage, Waterline
  <2>6. Present(q) /\ row[q].seq = dev.hw /\ q # f.op
    BY <2>2, <2>5 DEF Passed
  <2>7. row[q].seq # f.seq
    BY <2>1, <2>2, <2>3, <2>6 DEF Passage, Numbered
  <2>8. row[q].seq > f.seq
    BY <2>1, <2>2, <2>6, <2>7
  <2>9. ~Ordinary(q)
    BY <2>1, <2>2, <2>3, <2>8 DEF Passage, SettledFirst
  <2>10. QED BY <2>6, <2>8, <2>9 DEF Ordinary, Present
<1>2. QED BY <1>1, PassageKept, PTL

-----------------------------------------------------------------------------
(* Agreement: the final outcomes held of an operation anywhere are one, and *)
(* none is held while the device's memory still has it under way.          *)

One(o, res) == \A r, s \in res : r.op = o /\ s.op = o => r = s

AgreementOf(o) ==
  /\ \A s, t \in Terminal : Says(o, {s}) /\ Says(o, {t}) => s = t
  /\ \A r \in dev.res : r.op = o /\ r.status = "accepted" => \A t \in Terminal : ~Says(o, {t})
  /\ One(o, dev.res) /\ One(o, disk.res)

Agreement == Identity /\ \A o \in Ops : AgreementOf(o)

(* The results of o descend from old ones, and those under way that end     *)
(* there all end alike.                                                    *)
Evolves(o, new, old, to) ==
  /\ One(o, old) => One(o, new)
  /\ \A r \in new :
       r.op = o => \E q \in old : /\ q.op = o
                                  /\ \/ r.status = q.status
                                     \/ r.status = "unknown"
                                     \/ q.status = "accepted" /\ r.status = to

LEMMA SubsetEvolves ==
  ASSUME NEW o, NEW to, NEW old, NEW new, \A r \in new : r.op = o => r \in old
  PROVE  Evolves(o, new, old, to)
BY DEF Evolves, One

LEMMA EvolvesAgain ==
  ASSUME NEW o, NEW to \in {"applied", "interrupted"}, NEW new, NEW mid, NEW old,
         Evolves(o, new, mid, to), Evolves(o, mid, old, to)
  PROVE  Evolves(o, new, old, to)
BY DEF Evolves

LEMMA SettleEvolves ==
  ASSUME NEW o, NEW res \in SUBSET Result, NEW run, NEW to \in {"applied", "interrupted"}
  PROVE  Evolves(o, Settle(res, run, {"accepted"}, to), res, to)
<1>1. \A r \in Settle(res, run, {"accepted"}, to) :
        \E q \in res : /\ r = IF q.status \in {"accepted"} /\ q.run = run
                              THEN [q EXCEPT !.status = to] ELSE q
                       /\ q.op = r.op
                       /\ r.status = q.status \/ (q.status = "accepted" /\ r.status = to)
  BY DEF Settle, Result
<1>2. QED BY <1>1 DEF Evolves, One

LEMMA StoppedEvolves ==
  ASSUME NEW o, NEW d \in Device
  PROVE  Evolves(o, Stopped(d).res, d.res, "interrupted")
<1>1. CASE d.phase \in {"preparing", "measuring"}
  <2>1. Stopped(d).res = Settle(d.res, d.run, {"accepted"}, "interrupted")
    BY <1>1 DEF Stopped, Device
  <2>2. QED BY <2>1, SettleEvolves DEF Device
<1>2. CASE d.phase \notin {"preparing", "measuring"}
  BY <1>2, SubsetEvolves DEF Stopped
<1>3. QED BY <1>1, <1>2

LEMMA RecoverFades ==
  ASSUME NEW o, NEW d \in Device
  PROVE  /\ One(o, d.res) => One(o, Recover(d).res)
         /\ \A r \in Recover(d).res :
              r.status # "accepted" /\ \E q \in d.res : q.op = r.op
                /\ r.status \in {q.status, "unknown"}
<1>1. Recover(d).res = {IF q.status = "accepted" THEN [q EXCEPT !.status = "unknown"]
                        ELSE q : q \in d.res}
  BY DEF Recover, Device
<1>2. d.res \subseteq Result
  BY DEF Device
<1>3. \A r \in Recover(d).res :
        \E q \in d.res : /\ r = IF q.status = "accepted" THEN [q EXCEPT !.status = "unknown"] ELSE q
                         /\ q.op = r.op
                         /\ r.status # "accepted" /\ r.status \in {q.status, "unknown"}
  BY <1>1, <1>2 DEF Result
<1>4. QED BY <1>3 DEF One

(* A command that takes effect ends its own result, if it ends it, as       *)
(* applied, and any other only by way of the stop.                         *)
LEMMA AppliedEvolves ==
  ASSUME NEW o, NEW d \in Device, NEW c \in Command
  PROVE  /\ o # c.op => Evolves(o, Applied(d, c).res, d.res, "interrupted")
         /\ (\A r \in d.res : r.op = c.op => r = Entry(c, "accepted"))
              => /\ One(c.op, Applied(d, c).res)
                 /\ \A r \in Applied(d, c).res :
                      r.op = c.op => r.status \in IF Kind[c.op] = "start" THEN {"accepted"} ELSE {"applied", "unknown"}
<1> DEFINE e == Entry(c, "accepted")
           f == [e EXCEPT !.status = "applied", !.run = c.run]
           done == [d EXCEPT !.res = (@ \ {e}) \cup {f}]
<1>1. f \in Result /\ f.op = c.op /\ f.status = "applied" /\ e.status = "accepted" /\ e.op = c.op
  BY EntryType DEF Result, Command, Terminal, Entry
<1>2. done \in Device /\ done.res = (d.res \ {e}) \cup {f}
  BY <1>1 DEF Device
<1>3. PICK a : a = Applied(d, c)
  OBVIOUS
<1>4. \/ Kind[c.op] = "start" /\ a = d
      \/ Kind[c.op] # "start" /\ (a.res = done.res \/ a.res = Stopped(done).res)
  <2>1. [done EXCEPT !.run = NoRun, !.phase = "idle"].res = done.res
    BY <1>2 DEF Device
  <2>2. QED BY <1>3, <2>1 DEF Applied
<1>5. ASSUME o # c.op PROVE Evolves(o, a.res, d.res, "interrupted")
  <2>1. Evolves(o, done.res, d.res, "interrupted") /\ Evolves(o, d.res, d.res, "interrupted")
    BY <1>1, <1>2, <1>5, SubsetEvolves
  <2>2. Evolves(o, Stopped(done).res, done.res, "interrupted")
    BY <1>2, StoppedEvolves
  <2>3. Evolves(o, Stopped(done).res, d.res, "interrupted")
    BY <2>1, <2>2, EvolvesAgain
  <2>4. QED BY <1>4, <2>1, <2>3
<1>6. ASSUME \A r \in d.res : r.op = c.op => r = e
      PROVE  /\ One(c.op, a.res)
             /\ \A r \in a.res : r.op = c.op => r.status \in IF Kind[c.op] = "start" THEN {"accepted"} ELSE {"applied", "unknown"}
  <2>1. CASE Kind[c.op] = "start" /\ a = d
    BY <1>1, <1>6, <2>1 DEF One
  <2>2. CASE Kind[c.op] # "start" /\ (a.res = done.res \/ a.res = Stopped(done).res)
    <3>1. \A r \in done.res : r.op = c.op => r = f
      BY <1>2, <1>6
    <3>2. One(c.op, done.res)
      BY <3>1 DEF One
    <3>3. Evolves(c.op, Stopped(done).res, done.res, "interrupted")
      BY <1>2, StoppedEvolves
    <3>4. QED BY <1>1, <2>2, <3>1, <3>2, <3>3 DEF Evolves
  <2>3. QED BY <1>4, <2>1, <2>2
<1>7. QED BY <1>3, <1>5, <1>6

(* The host invents no final outcome: what a step records was in an answer. *)
LEMMA RowSays ==
  ASSUME ~Restores, Identity, [Next]_vars, NEW o \in Ops, NEW t \in Terminal, row'[o].status = t
  PROVE  Says(o, {t})
<1>1. ASSUME NEW p \in Ops, OneRow(p) PROVE Says(o, {t})
  BY <1>1 DEF OneRow, Says, Terminal
<1>2. AllRows => Says(o, {t})
  BY DEF AllRows, Says, Terminal
<1>3. QED BY <1>1, <1>2, ChangeStep DEF OneEffect, Says

(* Answers that say nothing new of o: kept, uncertain, or read off the      *)
(* results the device remembers.                                           *)
OldAnswers(o) ==
  \A r \in replies' : r.op = o => \/ r \in replies \/ r.status \notin Terminal
                                  \/ \E q \in dev.res : q.op = o /\ q.status = r.status

(* The disk gets what memory gets, or what memory had; or keeps its own.   *)
OldDisk(o) ==
  /\ One(o, disk'.res)
  /\ \A r \in disk'.res :
       r.op = o => r \in dev'.res \cup dev.res \cup disk.res \/ r.status \notin Terminal

LEMMA EvolveAgreement ==
  ASSUME ~Restores, Agreement, [Next]_vars, NEW o \in Ops, OldAnswers(o), OldDisk(o),
         NEW to \in {"applied", "interrupted"}, Evolves(o, dev'.res, dev.res, to)
  PROVE  AgreementOf(o)'
<1>1. AgreementOf(o) /\ Identity
  BY DEF Agreement
<1>2. One(o, dev'.res) /\ One(o, disk'.res)
  BY <1>1 DEF AgreementOf, Evolves, OldDisk
<1>3. ASSUME NEW t \in Terminal, Says(o, {t})'
      PROVE  Says(o, {t}) \/ (t = to /\ \E r \in dev'.res : r.op = o /\ r.status = to /\ \A q \in dev.res : q.op = o => q.status = "accepted")
  <2>1. CASE row'[o].status \in {t}
    BY <1>1, <2>1, RowSays
  <2>2. CASE \E r \in replies' : r.op = o /\ r.status \in {t}
    BY <1>3, <2>2 DEF OldAnswers, Says
  <2>3. ASSUME NEW r \in dev'.res, r.op = o, r.status = t
        PROVE  Says(o, {t}) \/ (t = to /\ \A q \in dev.res : q.op = o => q.status = "accepted")
    <3>1. PICK q \in dev.res : /\ q.op = o
                               /\ \/ r.status = q.status \/ r.status = "unknown"
                                  \/ (q.status = "accepted" /\ r.status = to)
      BY <2>3 DEF Evolves
    <3>2. CASE q.status = t
      BY <3>1, <3>2 DEF Says
    <3>3. CASE q.status = "accepted" /\ t = to
      BY <1>1, <3>1, <3>3 DEF AgreementOf, One
    <3>4. QED BY <2>3, <3>1, <3>2, <3>3 DEF Terminal
  <2>4. ASSUME NEW r \in disk'.res, r.op = o, r.status = t
        PROVE  Says(o, {t}) \/ r \in dev'.res
    BY <2>4 DEF OldDisk, Says
  <2>5. QED BY <1>3, <2>1, <2>2, <2>3, <2>4 DEF Says
<1>4. CASE \E q \in dev.res : q.op = o /\ q.status = "accepted"
  <2>1. \A t \in Terminal : ~Says(o, {t})
    BY <1>1, <1>4 DEF AgreementOf
  <2>2. \A t \in Terminal : Says(o, {t})' => t = to /\ \E r \in dev'.res : r.op = o /\ r.status = to
    BY <1>3, <2>1
  <2>3. to # "accepted"
    OBVIOUS
  <2>4. QED BY <1>2, <2>2, <2>3 DEF AgreementOf, One
<1>5. CASE \A q \in dev.res : q.op = o => q.status # "accepted"
  <2>1. ASSUME NEW t \in Terminal, Says(o, {t})' PROVE Says(o, {t})
    <3>1. SUFFICES ASSUME NEW r \in dev'.res, r.op = o, \A q \in dev.res : q.op = o => q.status = "accepted"
                   PROVE  FALSE
      BY <1>3, <2>1
    <3>2. QED BY <1>5, <3>1 DEF Evolves
  <2>2. \A r \in dev'.res : r.op = o => r.status # "accepted"
    BY <1>5 DEF Evolves
  <2>3. QED BY <1>1, <1>2, <2>1, <2>2 DEF AgreementOf
<1>6. QED BY <1>4, <1>5

(* Nothing under way, and only old outcomes: a restart of the device.      *)
LEMMA RebootAgreement ==
  ASSUME ~Restores, Agreement, [Next]_vars, NEW o \in Ops, Reboot
  PROVE  AgreementOf(o)'
<1>1. AgreementOf(o) /\ Identity /\ dev \in Device /\ disk \in Device
  BY DEF Agreement, Identity, TypeOK
<1>2. PICK d \in {dev, disk} : dev' = Recover(d)
  BY DEF Reboot
<1>3. disk' = dev' /\ replies' = replies
  BY DEF Reboot
<1>4. /\ One(o, dev'.res)
      /\ \A r \in dev'.res :
           r.status # "accepted" /\ \E q \in d.res : q.op = r.op /\ r.status \in {q.status, "unknown"}
  BY <1>1, <1>2, RecoverFades DEF AgreementOf
<1>5. ASSUME NEW t \in Terminal, Says(o, {t})' PROVE Says(o, {t})
  <2>1. row'[o].status = t => Says(o, {t})
    BY <1>1, RowSays
  <2>2. ASSUME NEW r \in dev'.res, r.op = o, r.status = t PROVE Says(o, {t})
    <3>1. t # "unknown"
      BY DEF Terminal
    <3>2. QED BY <1>4, <2>2, <3>1 DEF Says
  <2>3. QED BY <1>3, <1>5, <2>1, <2>2 DEF Says
<1>6. QED BY <1>1, <1>3, <1>4, <1>5 DEF AgreementOf

(* The operation of a command that is taken: nothing final was held of it, *)
(* and what is held from now on is the one answer.                         *)
LEMMA TakenAgreement ==
  ASSUME ~Restores, Agreement, [Next]_vars, NEW c \in cmds,
         NEW S \in {{"rejected"}, {"accepted", "unknown"}, {"applied", "unknown"}},
         One(c.op, dev'.res), One(c.op, disk'.res),
         \A r \in replies' : r.op = c.op => r \in replies \/ r.status \in S,
         \A r \in dev'.res : r.op = c.op => r.status \in S,
         \A r \in disk'.res : r.op = c.op => r.status \in S \/ r \in disk.res \/ r.status = "accepted"
  PROVE  AgreementOf(c.op)'
<1>1. /\ c.op \in Ops /\ AgreementOf(c.op) /\ Identity
      /\ \A t \in Terminal : ~Says(c.op, {t})
  BY UntouchedBefore DEF Agreement, Says, Refusal, Action, Terminal
<1>2. ASSUME NEW t \in Terminal, Says(c.op, {t})' PROVE t \in S
  <2>1. row'[c.op].status # t
    BY <1>1, RowSays
  <2>2. t # "accepted"
    BY DEF Terminal
  <2>3. QED BY <1>1, <1>2, <2>1, <2>2 DEF Says
<1>3. \A s, t \in Terminal : s \in S /\ t \in S => s = t
  BY DEF Terminal
<1>4. ASSUME NEW r \in dev'.res, r.op = c.op, r.status = "accepted", NEW t \in Terminal
      PROVE  ~Says(c.op, {t})'
  <2>1. t \notin S
    BY <1>4 DEF Terminal
  <2>2. QED BY <1>2, <2>1
<1>5. QED BY <1>2, <1>3, <1>4 DEF AgreementOf

(* The host's own steps, and the frames that change nothing on the device. *)
LEMMA QuietAgreement ==
  ASSUME ~Restores, Agreement, [Next]_vars, NEW o \in Ops, OldAnswers(o), UNCHANGED <<dev, disk>>
  PROVE  AgreementOf(o)'
<1>1. Evolves(o, dev'.res, dev.res, "applied") /\ OldDisk(o)
  BY SubsetEvolves DEF OldDisk, Agreement, AgreementOf
<1>2. QED BY <1>1, EvolveAgreement

LEMMA ProgressAgreement ==
  ASSUME ~Restores, Agreement, [Next]_vars, NEW o \in Ops, NEW d, Progress(d),
         NEW to \in {"applied", "interrupted"}, Evolves(o, d.res, dev.res, to)
  PROVE  AgreementOf(o)'
<1>1. One(o, dev.res) /\ One(o, disk.res)
  BY DEF Agreement, AgreementOf
<1>2. OldDisk(o) /\ OldAnswers(o) /\ dev' = d
  BY <1>1 DEF Progress, OldDisk, OldAnswers, Evolves
<1>3. QED BY <1>2, EvolveAgreement

LEMMA FreshHasNone ==
  ASSUME TypeOK, NEW c, Fresh(c)
  PROVE  \A r \in dev.res : r.op # c.op
<1>1. \A r \in dev.res : r.op = c.op <=> r.seq = c.seq
  BY DEF Fresh, Conflict
<1>2. ~ \E r \in dev.res : r.op = c.op /\ r.seq = c.seq
  BY DEF Fresh, Lookup, TypeOK, Device, Result, Terminal
<1>3. QED BY <1>1, <1>2

LEMMA RejectAgreement ==
  ASSUME ~Restores, Agreement, [Next]_vars, NEW o \in Ops, NEW c \in cmds, Reject(c)
  PROVE  AgreementOf(o)'
<1>1. /\ TypeOK /\ c \in Command /\ dev \in Device /\ One(o, dev.res)
      /\ \A r \in dev.res : r.op # c.op
  BY FreshHasNone DEF Agreement, Identity, AgreementOf, TypeOK, Reject
<1>2. /\ disk' = dev'
      /\ \A r \in dev'.res : r \in dev.res \/ r = Entry(c, "rejected")
      /\ Entry(c, "rejected").op = c.op /\ Entry(c, "rejected").status = "rejected"
  BY <1>1, BookedComesFrom DEF Reject, Entry
<1>3. \A r \in replies' : r \in replies \/ (r.op = c.op /\ r.status = "rejected")
  BY AnswerFor DEF Reject
<1>4. CASE o = c.op
  <2>1. \A r \in dev'.res : r.op = c.op => r = Entry(c, "rejected")
    BY <1>1, <1>2
  <2>2. One(c.op, dev'.res) /\ One(c.op, disk'.res)
    BY <1>2, <2>1 DEF One
  <2>3. \A r \in dev'.res : r.op = c.op => r.status \in {"rejected"}
    BY <1>2, <2>1
  <2>4. QED BY <1>2, <1>3, <1>4, <2>2, <2>3, TakenAgreement
<1>5. CASE o # c.op
  <2>1. Evolves(o, dev'.res, dev.res, "applied")
    BY <1>2, <1>5, SubsetEvolves
  <2>2. OldAnswers(o) /\ OldDisk(o)
    BY <1>1, <1>2, <1>3, <1>5, <2>1 DEF OldAnswers, OldDisk, Evolves
  <2>3. QED BY <2>1, <2>2, EvolveAgreement
<1>6. QED BY <1>4, <1>5

(* What a command that is carried out leaves: of its own operation, of any *)
(* other one, in memory and in the commit of the intent.                   *)
LEMMA ExecutedResults ==
  ASSUME Agreement, NEW o \in Ops, NEW c \in cmds, Fresh(c), NEW b, b = Booked(c, "accepted"),
         NEW a, a = Applied(b, c)
  PROVE  /\ o # c.op => Evolves(o, a.res, dev.res, "interrupted")
              /\ Evolves(o, b.res, dev.res, "interrupted")
         /\ \A r \in b.res : r.op # c.op => r \in dev.res
         /\ One(c.op, a.res) /\ One(c.op, b.res)
         /\ \A r \in b.res : r.op = c.op => r.status = "accepted"
         /\ \A r \in a.res : r.op = c.op => r.status \in IF Kind[c.op] = "start" THEN {"accepted"} ELSE {"applied", "unknown"}
<1>1. TypeOK /\ c \in Command /\ dev \in Device
  BY DEF Agreement, Identity, TypeOK
<1>2. b \in Device /\ \A r \in dev.res : r.op # c.op
  BY <1>1, BookedType, FreshHasNone
<1>3. /\ \A r \in b.res : r \in dev.res \/ r = Entry(c, "accepted")
      /\ Entry(c, "accepted").op = c.op /\ Entry(c, "accepted").status = "accepted"
  BY <1>1, BookedComesFrom DEF Entry
<1>4. \A r \in b.res : r.op = c.op => r = Entry(c, "accepted")
  BY <1>2, <1>3
<1>5. One(c.op, b.res)
  BY <1>4 DEF One
<1>6. o # c.op => Evolves(o, b.res, dev.res, "interrupted")
  BY <1>3, SubsetEvolves
<1>7. o # c.op => Evolves(o, a.res, b.res, "interrupted")
  BY <1>1, <1>2, AppliedEvolves
<1>8. o # c.op => Evolves(o, a.res, dev.res, "interrupted")
  BY <1>6, <1>7, EvolvesAgain
<1>9. /\ One(c.op, a.res)
      /\ \A r \in a.res : r.op = c.op => r.status \in IF Kind[c.op] = "start" THEN {"accepted"} ELSE {"applied", "unknown"}
  BY <1>1, <1>2, <1>4, AppliedEvolves
<1>10. QED BY <1>3, <1>4, <1>5, <1>6, <1>8, <1>9

LEMMA ExecuteAgreement ==
  ASSUME ~Restores, Agreement, [Next]_vars, NEW o \in Ops, NEW c \in cmds, Execute(c)
  PROVE  AgreementOf(o)'
<1> DEFINE status == IF Kind[c.op] = "start" THEN "accepted" ELSE "applied"
<1>1. PICK b : b = Booked(c, "accepted")
  OBVIOUS
<1>2. PICK a : a = Applied(b, c)
  OBVIOUS
<1>3. Fresh(c) /\ dev' = a /\ disk' = a /\ Answer(c, status)
  BY <1>1, <1>2 DEF Execute
<1>4. \A r \in replies' : r \in replies \/ (r.op = c.op /\ r.status = status)
  BY <1>3, AnswerFor
<1>5. CASE o = c.op
  <2>1. PICK S \in {{"accepted", "unknown"}, {"applied", "unknown"}} :
          S = IF Kind[c.op] = "start" THEN {"accepted", "unknown"} ELSE {"applied", "unknown"}
    OBVIOUS
  <2>2. status \in S /\ \A r \in a.res : r.op = c.op => r.status \in S
    BY <1>1, <1>2, <1>3, <1>5, <2>1, ExecutedResults
  <2>3. One(c.op, a.res)
    BY <1>1, <1>2, <1>3, <1>5, ExecutedResults
  <2> HIDE DEF status
  <2>4. QED BY <1>3, <1>4, <1>5, <2>2, <2>3, TakenAgreement
<1>6. CASE o # c.op
  <2>1. Evolves(o, dev'.res, dev.res, "interrupted")
    BY <1>1, <1>2, <1>3, <1>6, ExecutedResults
  <2>2. One(o, dev.res)
    BY DEF Agreement, AgreementOf
  <2>3. OldAnswers(o) /\ OldDisk(o)
    BY <1>3, <1>4, <1>6, <2>1, <2>2 DEF OldAnswers, OldDisk, Evolves
  <2>4. QED BY <2>1, <2>3, EvolveAgreement
<1>7. QED BY <1>5, <1>6

LEMMA ExecuteUnrecordedAgreement ==
  ASSUME ~Restores, Agreement, [Next]_vars, NEW o \in Ops, NEW c \in cmds, ExecuteUnrecorded(c)
  PROVE  AgreementOf(o)'
<1>1. PICK b : b = Booked(c, "accepted")
  OBVIOUS
<1>2. PICK a : a = Applied(b, c)
  OBVIOUS
<1>3. /\ Fresh(c) /\ disk' = b /\ Answer(c, "unknown") /\ TypeOK /\ c \in Command
      /\ dev' = [a EXCEPT !.res = {IF r.seq = c.seq THEN [r EXCEPT !.status = "unknown"] ELSE r : r \in @}]
  BY <1>1, <1>2 DEF ExecuteUnrecorded, Agreement, Identity, TypeOK
<1>4. b \in Device /\ a \in Device
  BY <1>1, <1>2, <1>3, BookedType, AppliedType DEF TypeOK
<1>5. dev'.res = {IF q.seq = c.seq THEN [q EXCEPT !.status = "unknown"] ELSE q : q \in a.res}
  BY <1>3, <1>4 DEF Device
<1>6. \A r \in dev'.res :
        \E q \in a.res : /\ r = IF q.seq = c.seq THEN [q EXCEPT !.status = "unknown"] ELSE q
                         /\ r.op = q.op /\ r.status \in {q.status, "unknown"}
                         /\ r.status = "unknown" \/ q.seq # c.seq
  BY <1>4, <1>5 DEF Device, Result
<1>7. Evolves(o, dev'.res, a.res, "interrupted") /\ (One(c.op, a.res) => One(c.op, dev'.res))
  BY <1>6 DEF Evolves, One
<1>8. \A r \in replies' : r \in replies \/ (r.op = c.op /\ r.status = "unknown")
  BY <1>3, AnswerFor
<1>9. CASE o = c.op
  <2>1. One(c.op, dev'.res) /\ One(c.op, disk'.res)
    BY <1>1, <1>2, <1>3, <1>7, <1>9, ExecutedResults
  <2>2. \A r \in disk'.res : r.op = c.op => r.status = "accepted"
    BY <1>1, <1>2, <1>3, <1>9, ExecutedResults
  <2>3. PICK S \in {{"accepted", "unknown"}, {"applied", "unknown"}} :
          S = IF Kind[c.op] = "start" THEN {"accepted", "unknown"} ELSE {"applied", "unknown"}
    OBVIOUS
  <2>4. \A r \in a.res : r.op = c.op => r.status \in S
    BY <1>1, <1>2, <1>3, <1>9, <2>3, ExecutedResults
  <2>5. "unknown" \in S /\ \A r \in dev'.res : r.op = c.op => r.status \in S
    BY <1>6, <2>3, <2>4
  <2>6. QED BY <1>8, <1>9, <2>1, <2>2, <2>5, TakenAgreement
<1>10. CASE o # c.op
  <2>1. Evolves(o, a.res, dev.res, "interrupted") /\ Evolves(o, disk'.res, dev.res, "interrupted")
        /\ \A r \in disk'.res : r.op = o => r \in dev.res
    BY <1>1, <1>2, <1>3, <1>10, ExecutedResults
  <2>2. Evolves(o, dev'.res, dev.res, "interrupted")
    BY <1>7, <2>1, EvolvesAgain
  <2>3. One(o, dev.res)
    BY DEF Agreement, AgreementOf
  <2>4. OldAnswers(o) /\ OldDisk(o)
    BY <1>8, <1>10, <2>1, <2>3 DEF OldAnswers, OldDisk, Evolves
  <2>5. QED BY <2>2, <2>4, EvolveAgreement
<1>11. QED BY <1>9, <1>10

LEMMA StopUnrecordedAgreement ==
  ASSUME ~Restores, Agreement, [Next]_vars, NEW o \in Ops, NEW c \in cmds, StopUnrecorded(c)
  PROVE  AgreementOf(o)'
<1>1. Evolves(o, dev'.res, dev.res, "interrupted")
  BY StoppedEvolves DEF StopUnrecorded, Agreement, Identity, TypeOK
<1>2. \A r \in replies' : r \in replies \/ (r.op = c.op /\ r.status = "unknown")
  BY AnswerFor DEF StopUnrecorded
<1>3. OldAnswers(o) /\ OldDisk(o)
  BY <1>2 DEF StopUnrecorded, OldAnswers, OldDisk, Agreement, AgreementOf, Terminal
<1>4. QED BY <1>1, <1>3, EvolveAgreement

LEMMA AgreementStep ==
  ASSUME ~Restores, Agreement, [Next]_vars, NEW o \in Ops
  PROVE  AgreementOf(o)'
<1> DEFINE Goal == AgreementOf(o)'
<1>1. ASSUME UNCHANGED <<dev, disk>>, replies' \subseteq replies PROVE Goal
  BY <1>1, QuietAgreement DEF OldAnswers
<1>2. ASSUME UNCHANGED <<dev, disk>>, NEW p, NEW seq,
             \A r \in replies' : r \in replies \/ (r.op = p /\ r.status = Lookup(p, seq))
      PROVE Goal
  <2>1. \/ Lookup(p, seq) \in Uncertain
        \/ \E q \in dev.res : q.op = p /\ q.status = Lookup(p, seq)
    BY DEF Lookup, Uncertain
  <2>2. OldAnswers(o)
    BY <1>2, <2>1 DEF OldAnswers, Uncertain, Terminal
  <2>3. QED BY <1>2, <2>2, QuietAgreement
<1>3. ASSUME NEW p \in Ops,
             \/ Intent(p) \/ MarkSent(p) \/ Write(p) \/ Unknown(p)
             \/ ReadSnapshot(p) \/ RecordReconciliation(p)
      PROVE Goal
  BY <1>1, <1>3 DEF Intent, Admit, MarkSent, Write, Unknown, ReadSnapshot, RecordReconciliation, device
<1>4. ASSUME NEW p \in Ops, NEW purpose, Query(p, purpose) PROVE Goal
  <2>1. /\ UNCHANGED <<dev, disk>>
        /\ \A r \in replies' : r \in replies \/ (r.op = p /\ r.status = Lookup(p, row[p].seq))
    BY <1>4 DEF Query, device
  <2>2. QED BY <1>2, <2>1
<1>5. ASSUME NEW r \in replies, RecordResult(r) \/ LoseReply(r) PROVE Goal
  BY <1>1, <1>5 DEF RecordResult, LoseReply, device
<1>6. CASE LinkUp \/ ReconcileHighwater \/ LinkDown \/ RestartBackend
  BY <1>1, <1>6 DEF LinkUp, ReconcileHighwater, LinkDown, RestartBackend, Idle, device
<1>7. ~RestoreBackup
  BY DEF RestoreBackup
<1>8. ASSUME NEW c \in cmds, LoseCommand(c) PROVE Goal
  BY <1>1, <1>8 DEF LoseCommand, device
<1>9. ASSUME NEW c \in cmds, Replayed(c) PROVE Goal
  <2>1. /\ UNCHANGED <<dev, disk>>
        /\ \A r \in replies' : r \in replies \/ (r.op = c.op /\ r.status = Lookup(c.op, c.seq))
    BY <1>9, AnswerFor DEF Replayed
  <2>2. QED BY <1>2, <2>1
<1>10. ASSUME NEW c \in cmds, Reject(c) \/ Execute(c) \/ ExecuteUnrecorded(c) \/ StopUnrecorded(c)
       PROVE Goal
  BY <1>10, RejectAgreement, ExecuteAgreement, ExecuteUnrecordedAgreement, StopUnrecordedAgreement
<1>11. dev \in Device
  BY DEF Agreement, Identity, TypeOK
<1>12. CASE StartMeasuring
  <2> DEFINE d == [dev EXCEPT !.phase = "measuring",
                              !.res = Settle(@, dev.run, {"accepted"}, "applied")]
  <2>1. d.res = Settle(dev.res, dev.run, {"accepted"}, "applied")
    BY <1>11 DEF Device
  <2>2. Evolves(o, d.res, dev.res, "applied")
    BY <1>11, <2>1, SettleEvolves DEF Device
  <2>3. QED BY <1>12, <2>2, ProgressAgreement DEF StartMeasuring
<1>13. CASE FinishMeasuring \/ CompleteRun
  <2>1. /\ Evolves(o, [dev EXCEPT !.phase = "disposal"].res, dev.res, "applied")
        /\ Evolves(o, [dev EXCEPT !.phase = "completed"].res, dev.res, "applied")
    BY <1>11, SubsetEvolves DEF Device
  <2>2. QED BY <1>13, <2>1, ProgressAgreement DEF FinishMeasuring, CompleteRun
<1>14. CASE Trip
  BY <1>11, <1>14, StoppedEvolves, ProgressAgreement DEF Trip
<1>15. CASE Reboot
  BY <1>15, RebootAgreement
<1>16. CASE UNCHANGED vars
  BY <1>1, <1>16 DEF vars, device
<1>17. HostStep => Goal
  BY <1>3, <1>4, <1>5, <1>6, <1>7 DEF HostStep
<1>18. DeviceStep => Goal
  BY <1>8, <1>9, <1>10, <1>12, <1>13, <1>14, <1>15 DEF DeviceStep
<1>19. QED BY <1>16, <1>17, <1>18 DEF Next

(* A query, a late answer or a restart of the device never brings the host *)
(* a final outcome other than the one it has recorded: _record_result has   *)
(* no conflict to raise.                                                   *)
THEOREM NoConflictToRaise == ASSUME ~Restores PROVE Spec => []NoResultConflict
<1>1. Init => Agreement
  BY InitIdentity DEF Init, Agreement, AgreementOf, Says, One, NoRow, Terminal
<1>2. Agreement /\ TypeOK' /\ [Next]_vars => Agreement'
  BY IdentityStep, AgreementStep DEF Agreement, Identity
<1>3. Agreement => NoResultConflict
  <2>1. ASSUME Agreement, NEW r \in dev.res, r.status \in Terminal, row[r.op].status \in Terminal
        PROVE  row[r.op].status = r.status
    <3>1. r.op \in Ops
      BY <2>1 DEF Agreement, Identity, TypeOK, Device, Result
    <3>2. Says(r.op, {r.status}) /\ Says(r.op, {row[r.op].status})
      BY <2>1 DEF Says
    <3>3. QED BY <2>1, <3>1, <3>2 DEF Agreement, AgreementOf
  <2>2. QED BY <2>1 DEF NoResultConflict
<1>4. QED BY <1>1, <1>2, <1>3, TypeCorrect, PTL DEF Spec
==============================================================================
