----------------------------- MODULE AlarmArchive -----------------------------
(***************************************************************************)
(* The archive of alarm occurrences: V2AlarmArchive                        *)
(* (backend/app/services/v2_alarm_archive.py), fed by three sources that   *)
(* overtake one another.                                                   *)
(*                                                                         *)
(*   live      event frames, handled one by one in the order sent; those   *)
(*             of a connection that has ended are handled during the next  *)
(*             one, because V2Transport keeps its queue of callbacks;      *)
(*   backfill  the device's log, read from its start when it is recovered, *)
(*             each event ingested once whichever way it came first;       *)
(*   snapshot  the list of active and unacknowledged alarms at one         *)
(*             revision, read when a status frame shows another revision   *)
(*             than the one in memory (V2Client.get_status), and archived  *)
(*             in a transaction of its own that may fail.                  *)
(*                                                                         *)
(* A session reads its log only after a status check of its own: _recover  *)
(* awaits get_status before recover_logs, and starts again if it raises;   *)
(* and it waits for the callbacks queued until then.                       *)
(* The device keeps alarms, revision and log over a restart; uptime and    *)
(* event_seq start again.  Lost log records are V2SourceLog's subject, the *)
(* archive of the other event kinds is RunRecovery's.                      *)
(***************************************************************************)
EXTENDS Integers, Sequences

CONSTANTS
  Alarms,         \* alarm occurrences
  AlarmMaxEvents, \* bound: alarm events the device logs
  AlarmMaxBoot,   \* bound: boots of the device
  AlarmMaxUp,     \* bound: uptime within a boot
  AlarmListLost   \* whether a list that was read may fail to be archived

ASSUME AlarmAssumption ==
  /\ {AlarmMaxEvents, AlarmMaxUp} \subseteq Nat /\ AlarmMaxBoot \in Nat \ {0}
  /\ AlarmListLost \in BOOLEAN

VARIABLES
  panel,   \* device: alarms, boot, seq, up and alarm revision
  evlog,   \* device: alarm events of its durable log
  lane,    \* live events sent in this session, not yet ingested
  leftover, \* V2Transport._callbacks: events read in earlier sessions, not yet ingested
  filled,  \* events the backfill has read
  seen,    \* events ingested
  proj,    \* V2AlarmProjection of each alarm
  latest,  \* the last V2AlarmSnapshot row, or NoList: rows are added with growing
           \* revisions of a boot and boots do not return, so it decides for all
  held,    \* V2Client.alarms: boot and revision of the last list read
  reading, \* the list under way: stage and what the device answered
  checked, \* a status check of this session has returned
  late     \* history: alarms that a live event was applied to after a list of
           \* a later boot had been archived

host == <<filled, seen, proj, latest, held, reading, checked, late>>
alarmVars == <<panel, evlog, lane, leftover, host>>

Absent == [active |-> FALSE, acked |-> TRUE]
NoSeq  == 0    \* latest_event_seq is null: the row was last set by a snapshot
NoProj == [boot |-> 0, seq |-> NoSeq, up |-> 0, active |-> FALSE, acked |-> FALSE]
Exists(p) == p.boot # 0
NoList == [boot |-> 0, rev |-> 0, up |-> 0, items |-> [a \in {} |-> Absent]]
Idle   == [stage |-> "idle", list |-> NoList]

AlarmInit ==
  /\ panel = [alarms |-> [a \in {} |-> Absent], boot |-> 1, seq |-> 0, up |-> 0, rev |-> 0]
  /\ evlog = <<>> /\ lane = <<>> /\ leftover = <<>> /\ filled = 0 /\ seen = {}
  /\ proj = [a \in Alarms |-> NoProj]
  /\ latest = NoList
  /\ held = [boot |-> 0, rev |-> 0]
  /\ reading = Idle /\ checked = FALSE /\ late = {}

-----------------------------------------------------------------------------
(* Device                                                                  *)

Note(a, state) ==
  /\ Len(evlog) < AlarmMaxEvents
  /\ panel' = [panel EXCEPT !.alarms = [b \in DOMAIN @ \cup {a} |-> IF b = a THEN state ELSE @[b]],
                            !.rev = @ + 1, !.seq = @ + 1]
  /\ evlog' = Append(evlog, [alarm |-> a, boot |-> panel.boot, seq |-> panel.seq + 1,
                             up |-> panel.up, active |-> state.active, acked |-> state.acked])
  /\ lane' = Append(lane, Len(evlog) + 1)
  /\ UNCHANGED <<leftover, host>>

Raise(a) == /\ a \notin DOMAIN panel.alarms
            /\ Note(a, [active |-> TRUE, acked |-> FALSE])

Transition(a, transition) ==
  /\ a \in DOMAIN panel.alarms
  /\ Note(a, IF transition = "cleared" THEN [panel.alarms[a] EXCEPT !.active = FALSE]
                                       ELSE [panel.alarms[a] EXCEPT !.acked = TRUE])

UptimeGrows ==
  /\ panel.up < AlarmMaxUp
  /\ panel' = [panel EXCEPT !.up = @ + 1]
  /\ UNCHANGED <<evlog, lane, leftover, host>>

(* What the list of alarms holds: active or not acknowledged.              *)
Listed == [a \in {b \in DOMAIN panel.alarms : panel.alarms[b].active \/ ~panel.alarms[b].acked}
             |-> panel.alarms[a]]

-----------------------------------------------------------------------------
(* Connection: a request under way fails.  Frames already read stay in the *)
(* queue of callbacks, _disconnect() does not touch it; the rest is lost.  *)

LoseSession ==
  /\ AlarmListLost \/ reading.stage # "held"
  /\ \E read \in 0 .. Len(lane) : leftover' = leftover \o SubSeq(lane, 1, read)
  /\ lane' = <<>> /\ checked' = FALSE
  /\ reading' = Idle
  /\ UNCHANGED <<evlog, filled, seen, proj, latest, held, late>>

Disconnect ==
  /\ lane # <<>> \/ checked \/ reading # Idle
  /\ LoseSession /\ UNCHANGED panel

Reboot ==
  /\ panel.boot < AlarmMaxBoot
  /\ panel' = [panel EXCEPT !.boot = @ + 1, !.seq = 0, !.up = 0]
  /\ LoseSession

-----------------------------------------------------------------------------
(* V2AlarmArchive                                                          *)

(* _apply(): an occurrence never becomes active or unacknowledged again.   *)
Applied(p, item) == [p EXCEPT !.active = @ /\ item.active, !.acked = @ \/ item.acked]

(* The early returns of event().                                           *)
Outdated(p, e, origin) ==
  \/ origin = "backfill" /\ p.boot # e.boot
  \/ p.boot = e.boot /\ p.seq # NoSeq /\ e.seq <= p.seq
  \/ p.boot = e.boot /\ e.up < p.up

Fresh == [NoProj EXCEPT !.active = TRUE]

MutantCorrected(p, e) == p

(* A backfilled event older than the latest archived list is followed by   *)
(* that list's word on the alarm.                                          *)
Corrected(p, e) ==
  IF latest # NoList /\ (latest.boot # e.boot \/ latest.up > e.up)
  THEN [Applied(p, IF e.alarm \in DOMAIN latest.items THEN latest.items[e.alarm] ELSE Absent)
         EXCEPT !.boot = latest.boot, !.up = latest.up, !.seq = NoSeq]
  ELSE p

AlarmEvent(e, origin) ==
  LET p == proj[e.alarm]
      told == [Applied(IF Exists(p) THEN p ELSE Fresh, e)
                EXCEPT !.boot = e.boot, !.seq = e.seq, !.up = e.up]
  IN proj' = IF Exists(p) /\ Outdated(p, e, origin) THEN proj
             ELSE [proj EXCEPT ![e.alarm] =
                      IF origin = "backfill" THEN Corrected(told, e) ELSE told]

AlarmIngest(i, origin) ==
  /\ seen' = seen \cup {i}
  /\ IF i \in seen THEN UNCHANGED proj ELSE AlarmEvent(evlog[i], origin)

(* _callback_loop() and _on_message(): whichever connection it came by.    *)
HandleLive(i) ==
  /\ AlarmIngest(i, "live")
  /\ late' = IF i \notin seen /\ evlog[i].boot < latest.boot
             THEN late \cup {evlog[i].alarm} ELSE late
  /\ UNCHANGED <<panel, evlog, filled, latest, held, reading, checked>>

Live ==
  /\ leftover = <<>> /\ lane # <<>>
  /\ HandleLive(Head(lane))
  /\ lane' = Tail(lane) /\ UNCHANGED leftover

LiveOld ==
  /\ leftover # <<>>
  /\ HandleLive(Head(leftover))
  /\ leftover' = Tail(leftover) /\ UNCHANGED lane

Backfill ==
  /\ checked /\ leftover = <<>> /\ filled < Len(evlog)
  /\ filled' = filled + 1
  /\ AlarmIngest(filled + 1, "backfill")
  /\ UNCHANGED <<panel, evlog, lane, leftover, latest, held, reading, checked, late>>

(* reconcile()                                                             *)
Reconciled(p, a, s) ==
  LET item == IF a \in DOMAIN s.items THEN s.items[a] ELSE Absent
  IN CASE ~Exists(p) /\ a \notin DOMAIN s.items -> p
       [] Exists(p) /\ p.boot = s.boot /\ p.up >= s.up -> p
       [] OTHER -> [Applied(IF Exists(p) THEN p ELSE Fresh, item)
                     EXCEPT !.boot = s.boot, !.up = s.up, !.seq = NoSeq]

Reconcile(s) ==
  IF latest.boot = s.boot /\ latest.rev >= s.rev
  THEN UNCHANGED <<proj, latest>>
  ELSE /\ latest' = s
       /\ proj' = [a \in Alarms |-> Reconciled(proj[a], a, s)]

-----------------------------------------------------------------------------
(* V2Client.get_status: read the list when its revision is another.        *)

Current == [boot |-> panel.boot, rev |-> panel.rev]

GetStatus ==
  /\ reading = Idle
  /\ IF held = Current THEN checked' = TRUE /\ UNCHANGED reading
     ELSE reading' = [stage |-> "asked", list |-> NoList] /\ UNCHANGED checked
  /\ UNCHANGED <<panel, evlog, lane, leftover, filled, seen, proj, latest, held, late>>

(* The pages are of one revision; the last one carries the uptime.         *)
ServeList ==
  /\ reading.stage = "asked"
  /\ reading' = [stage |-> "served",
                 list |-> [boot |-> panel.boot, rev |-> panel.rev, up |-> panel.up,
                           items |-> Listed]]
  /\ UNCHANGED <<panel, evlog, lane, leftover, filled, seen, proj, latest, held, checked, late>>

TakeList ==
  /\ reading.stage = "served"
  /\ held' = [boot |-> reading.list.boot, rev |-> reading.list.rev]
  /\ reading' = [reading EXCEPT !.stage = "held"]
  /\ UNCHANGED <<panel, evlog, lane, leftover, filled, seen, proj, latest, checked, late>>

(* _archive_alarms(), still of this session                                *)
ArchiveList ==
  /\ reading.stage = "held"
  /\ Reconcile(reading.list)
  /\ reading' = Idle /\ checked' = TRUE
  /\ UNCHANGED <<panel, evlog, lane, leftover, filled, seen, held, late>>

(* The transaction fails.  A session that ends before it makes it fail     *)
(* too: reconcile() refuses the boot of a transport without a session.     *)
ListNotArchived ==
  /\ AlarmListLost /\ reading.stage = "held"
  /\ reading' = Idle
  /\ UNCHANGED <<panel, evlog, lane, leftover, filled, seen, proj, latest, held, checked, late>>

AlarmNext ==
  \/ \E a \in Alarms : Raise(a) \/ \E t \in {"cleared", "acknowledged"} : Transition(a, t)
  \/ UptimeGrows \/ Disconnect \/ Reboot
  \/ Live \/ LiveOld \/ Backfill
  \/ GetStatus \/ ServeList \/ TakeList \/ ArchiveList \/ ListNotArchived

AlarmSpec == AlarmInit /\ [][AlarmNext]_alarmVars

-----------------------------------------------------------------------------
AlarmTypeOK ==
  /\ panel.boot \in 1 .. AlarmMaxBoot /\ panel.up \in 0 .. AlarmMaxUp
  /\ DOMAIN panel.alarms \subseteq Alarms
  /\ Len(evlog) <= AlarmMaxEvents /\ panel.rev = Len(evlog)
  /\ filled \in 0 .. Len(evlog) /\ seen \subseteq DOMAIN evlog
  /\ DOMAIN proj = Alarms
  /\ reading.stage \in {"idle", "asked", "served", "held"}

(* The archive shows no alarm as over, or as acknowledged, that is not.    *)
NothingHidden ==
  \A a \in Alarms :
    Exists(proj[a]) => /\ a \in DOMAIN panel.alarms
                       /\ panel.alarms[a].active => proj[a].active
                       /\ proj[a].acked => panel.alarms[a].acked

Shown(a) ==
  /\ Exists(proj[a]) <=> a \in DOMAIN panel.alarms
  /\ Exists(proj[a]) => /\ proj[a].active = panel.alarms[a].active
                        /\ proj[a].acked = panel.alarms[a].acked

(* Once every logged event has been ingested, in whatever order live       *)
(* frames, log and lists came, the archive shows each alarm as the device  *)
(* does, unless a frame left of an earlier boot came after a list of the   *)
(* new one; and never does it show less than there is: event() and         *)
(* reconcile() of V2AlarmArchive.                                          *)
AlarmsConverge ==
  /\ NothingHidden
  /\ seen = DOMAIN evlog => \A a \in Alarms \ late : Shown(a)
=============================================================================
