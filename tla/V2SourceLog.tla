----------------------------- MODULE V2SourceLog -----------------------------
(***************************************************************************)
(* Backfill of the device's source log into the host database.             *)
(*                                                                         *)
(* Host: recover_logs of V2Client, which asks for the log in batches;      *)
(* V2Transport, which queues chunks for a single callback worker; and      *)
(* V2SourceLogStore (backend/app/services/v2_source_logs.py), which makes  *)
(* raw bytes durable before they are acknowledged and ingests records only *)
(* once a transfer has been validated as a whole.  Device: LogTransfer of  *)
(* the simulator, one unacknowledged chunk at a time over a fixed cut.     *)
(*                                                                         *)
(* A record is named by its record_seq and is two units of bytes long, so  *)
(* that it may span chunks.  Digests, canonical JSON and size limits are   *)
(* left out: TLS carries the frames.  The callback queue outlives the      *)
(* connection its frames came from, as in the code.                        *)
(***************************************************************************)
EXTENDS Integers, Sequences, FiniteSets

CONSTANTS
  MaxRec,         \* bound: records the device writes
  Batch,          \* records asked for at once, 1000 in the code
  ChunkUnits,     \* units of bytes in one chunk
  MaxUnits,       \* max_bytes of a request, 16 MiB in the code
  MaxGaps,        \* gaps a result may declare, 32 in the code
  ManualStarts,   \* first_record_seq a maintainer may rescan from
  StorageFaults,  \* whether the device's storage may refuse a commit
  Transfers,      \* bound: transfer identities in use at once
  Faults,         \* kinds of fault that happen, among FaultKinds
  MaxFaults       \* bound: faults explored

FaultKinds == {"loss", "resend", "disconnect", "crash", "abandon", "rescan"}

ASSUME LogAssumption ==
  /\ MaxRec \in Nat \ {0} /\ Batch \in Nat \ {0} /\ ChunkUnits \in Nat \ {0}
  /\ {MaxUnits, MaxGaps} \subseteq Nat
  /\ ManualStarts \subseteq 1..MaxRec
  /\ StorageFaults \in BOOLEAN
  /\ Transfers \subseteq Nat
  /\ Faults \subseteq FaultKinds /\ MaxFaults \in Nat

VARIABLES
  dev,       \* device: record_seq in memory, records in storage
  xfer,      \* device: LogTransfer of the session, or NoXfer
  session,   \* negotiated session, 0 while offline
  sessions,  \* sessions opened so far
  up,        \* host-to-device frames of the session
  down,      \* device-to-host log frames of the session
  live,      \* records broadcast on the session and not yet read
  pend,      \* host: the pending log_request with its byte window, or NoPend
  queue,     \* host: V2Transport._callbacks, its head is being handled
  acking,    \* host: ack of the head, made durable and not yet sent, or NoAck
  halted,    \* host: V2Transport._callback_fault
  scan,      \* host: progress of recover_logs, or NoScan
  ready,     \* host: V2Client._ready
  tr,        \* host table v2_log_transfer with its chunks
  recs,      \* host table v2_source_record
  gaps,      \* host table v2_log_gap
  cursor,    \* host table v2_log_cursor
  faults     \* history: faults so far, never more than MaxFaults

source == <<dev, xfer>>
link   == <<session, sessions, up, down, live>>
worker == <<pend, queue, acking, halted>>
tables == <<tr, recs, gaps, cursor>>
vars   == <<source, link, worker, scan, ready, tables, faults>>

Seqs == 1..MaxRec
Ids  == Transfers
NoId == -1

NoXfer == [id |-> NoId, cut |-> <<>>, missing |-> {}, index |-> 0, last |-> -1]
NoPend == [id |-> NoId, received |-> 0, acked |-> 0]
NoAck  == [id |-> NoId, index |-> 0, next |-> 0]
NoScan == [stage |-> "none", session |-> 0, first |-> 0, last |-> 0, id |-> NoId,
           auto |-> TRUE, barrier |-> 0, result |-> <<0, {}>>]
NoRow  == [status |-> "absent", first |-> 1, last |-> 0, session |-> 0, bytes |-> <<>>]

Init ==
  /\ dev = [last |-> 0, stored |-> {}, flushed |-> 0]
  /\ xfer = NoXfer
  /\ session = 0 /\ sessions = 0
  /\ up = <<>> /\ down = <<>> /\ live = {}
  /\ pend = NoPend /\ queue = <<>> /\ acking = NoAck /\ halted = FALSE
  /\ scan = NoScan /\ ready = FALSE
  /\ tr = [i \in Ids |-> NoRow]
  /\ recs = [s \in Seqs |-> [held |-> FALSE, located |-> FALSE, archived |-> 0]]
  /\ gaps = {}
  /\ cursor = [scanned |-> 0, from |-> 0, through |-> 0]
  /\ faults = 0

Fault(kind) == kind \in Faults /\ faults < MaxFaults /\ faults' = faults + 1

-----------------------------------------------------------------------------
(* The device.                                                             *)

(* record() and commit(): a refused commit leaves its records pending, and  *)
(* the next one that succeeds stores them too.                              *)
Record ==
  /\ dev.last < MaxRec
  /\ \E saved \in IF StorageFaults THEN BOOLEAN ELSE {TRUE} :
       dev' = [last |-> dev.last + 1,
               stored |-> IF saved THEN dev.stored \cup (dev.flushed + 1)..(dev.last + 1)
                          ELSE dev.stored,
               flushed |-> IF saved THEN dev.last + 1 ELSE dev.flushed]
  /\ live' = IF session # 0 THEN live \cup {dev.last + 1} ELSE live
  /\ UNCHANGED <<xfer, session, sessions, up, down, worker, scan, ready, tables, faults>>

(* remove_records(): the storage loses a record it held.                    *)
LoseRecord(s) ==
  /\ s \in dev.stored
  /\ Fault("loss")
  /\ dev' = [dev EXCEPT !.stored = @ \ {s}]
  /\ UNCHANGED <<xfer, link, worker, scan, ready, tables>>

Bytes(cut) == [i \in 1..2 * Len(cut) |-> cut[(i + 1) \div 2]]
Smaller(a, b) == IF a < b THEN a ELSE b
End(x) == Smaller(2 * Len(x.cut), (x.index + 1) * ChunkUnits)

Chunk(x) == [kind |-> "chunk", id |-> x.id, index |-> x.index, session |-> session,
             part |-> SubSeq(Bytes(x.cut), x.index * ChunkUnits + 1, End(x)),
             missing |-> {}]
Result(x) == [kind |-> "result", id |-> x.id, index |-> 0, session |-> session,
              part |-> Bytes(x.cut), missing |-> x.missing]
Error(about, id) == [kind |-> about, id |-> id, index |-> 0, session |-> session,
                     part |-> <<>>, missing |-> {}]

(* _log_send(): the next chunk, or the result that ends the transfer        *)
Sent(x) ==
  IF x.index * ChunkUnits < 2 * Len(x.cut)
  THEN xfer' = x /\ down' = Append(down, Chunk(x))
  ELSE xfer' = NoXfer /\ down' = Append(down, Result(x))

(* The records of the log in the order they were written, by their rank     *)
(* (the prover knows no definition of SortSeq).                             *)
Upto(S, k) == {t \in S : t <= k}
Ascending(S) ==
  [n \in 1..Cardinality(S) |-> CHOOSE s \in S : Cardinality(Upto(S, s)) = n]

(* Where a gap declared of the missing records begins: adjacent records are *)
(* of one gap if they are missing for one reason, lost or never recorded.   *)
GapStarts(missing) == {s \in missing : s - 1 \notin missing \/ s = dev.flushed + 1}

(* What LogTransfer answers with range_unavailable: records not written yet,*)
(* more bytes than were asked for, or more gaps than a result may declare.  *)
Unavailable(first, last) ==
  \/ last > dev.last
  \/ 2 * Cardinality(dev.stored \cap first..last) > MaxUnits
  \/ Cardinality(GapStarts((first..last) \ dev.stored)) > MaxGaps

(* log_request: the cut is fixed here, and later records are not part of it *)
ServeRequest ==
  /\ Len(up) > 0 /\ Head(up).kind = "request"
  /\ LET r == Head(up)
         present == dev.stored \cap r.first..r.last
     IN IF xfer # NoXfer \/ Unavailable(r.first, r.last)
        THEN down' = Append(down, Error("refused", r.id)) /\ UNCHANGED xfer
        ELSE Sent([NoXfer EXCEPT !.id = r.id,
                                 !.cut = Ascending(present),
                                 !.missing = (r.first..r.last) \ present])
  /\ up' = Tail(up)
  /\ UNCHANGED <<dev, session, sessions, live, worker, scan, ready, tables, faults>>

(* log_ack: a repeated ack is ignored, any other unexpected one is an error *)
ServeAck ==
  /\ Len(up) > 0 /\ Head(up).kind = "ack"
  /\ LET a == Head(up)
     IN CASE xfer = NoXfer -> down' = Append(down, Error("error", a.id)) /\ UNCHANGED xfer
          [] xfer # NoXfer /\ xfer.id = a.id /\ xfer.last = a.index -> UNCHANGED <<down, xfer>>
          [] xfer # NoXfer /\ xfer.id = a.id /\ xfer.index = a.index ->
               Sent([xfer EXCEPT !.index = @ + 1, !.last = a.index])
          [] OTHER -> down' = Append(down, Error("error", a.id)) /\ UNCHANGED xfer
  /\ up' = Tail(up)
  /\ UNCHANGED <<dev, session, sessions, live, worker, scan, ready, tables, faults>>

(* _maintain(): the same chunk again after three seconds without an ack     *)
Resend ==
  /\ xfer # NoXfer
  /\ Fault("resend")
  /\ down' = Append(down, Chunk(xfer))
  /\ UNCHANGED <<source, session, sessions, up, live, worker, scan, ready, tables>>

-----------------------------------------------------------------------------
(* The connection.                                                         *)

(* _disconnect(): frames in flight are lost, queued callbacks are not       *)
Disconnected ==
  /\ session' = 0
  /\ up' = <<>> /\ down' = <<>> /\ live' = {}
  /\ xfer' = NoXfer
  /\ pend' = NoPend
  /\ ready' = FALSE
  /\ UNCHANGED <<dev, sessions>>

LinkUp ==
  /\ session = 0 /\ ~halted
  /\ sessions' = sessions + 1
  /\ session' = sessions'
  /\ ready' = FALSE
  /\ UNCHANGED <<source, up, down, live, worker, scan, tables, faults>>

LinkDown ==
  /\ session # 0
  /\ Fault("disconnect")
  /\ Disconnected
  /\ UNCHANGED <<queue, acking, halted, scan, tables>>

(* After three unanswered retransmissions the device closes the session of  *)
(* a transfer the host no longer waits for.                                 *)
GiveUp ==
  /\ xfer # NoXfer /\ xfer.id # pend.id
  /\ Disconnected
  /\ UNCHANGED <<queue, acking, halted, scan, tables, faults>>

RestartBackend ==
  /\ Fault("crash")
  /\ Disconnected
  /\ queue' = <<>> /\ acking' = NoAck /\ halted' = FALSE
  /\ scan' = NoScan
  /\ UNCHANGED tables

-----------------------------------------------------------------------------
(* V2Transport._dispatch() of log frames.                                  *)

Read == down' = Tail(down) /\ UNCHANGED <<source, session, sessions, up, live, ready>>

Offset(f) == f.index * ChunkUnits
Reach(f)  == Offset(f) + Len(f.part)

InWindow(f) == /\ Offset(f) <= pend.received
               /\ Reach(f) > pend.received => pend.received = pend.acked

ReadChunk ==
  /\ Len(down) > 0 /\ Head(down).kind = "chunk"
  /\ LET f == Head(down)
     IN CASE f.id # pend.id -> Read /\ UNCHANGED <<pend, queue>>
          [] f.id = pend.id /\ InWindow(f) ->
               /\ Read
               /\ pend' = [pend EXCEPT !.received = IF Reach(f) > @ THEN Reach(f) ELSE @]
               /\ queue' = Append(queue, f)
          [] OTHER -> Disconnected /\ UNCHANGED queue
  /\ UNCHANGED <<acking, halted, scan, tables, faults>>

ReadResult ==
  /\ Len(down) > 0 /\ Head(down).kind = "result"
  /\ LET f == Head(down)
     IN CASE f.id # pend.id -> Read /\ UNCHANGED <<pend, scan>>
          [] f.id = pend.id /\ Len(f.part) = pend.received /\ pend.received = pend.acked ->
               /\ Read
               /\ pend' = NoPend
               /\ scan' = [scan EXCEPT !.stage = "answered", !.result = <<Len(f.part), f.missing>>]
          [] OTHER -> Disconnected /\ UNCHANGED scan
  /\ UNCHANGED <<queue, acking, halted, tables, faults>>

(* A refused request fails the scan; an error about an ack refers to no     *)
(* request, which is a protocol error.                                      *)
ReadError ==
  /\ Len(down) > 0 /\ Head(down).kind \in {"refused", "error"}
  /\ LET f == Head(down)
     IN IF f.kind = "error" THEN Disconnected /\ UNCHANGED scan
        ELSE /\ Read
             /\ IF f.id = pend.id THEN pend' = NoPend /\ scan' = NoScan
                ELSE UNCHANGED <<pend, scan>>
  /\ UNCHANGED <<queue, acking, halted, tables, faults>>

ReadLive(s) ==
  /\ s \in live
  /\ live' = live \ {s}
  /\ queue' = Append(queue, [kind |-> "live", id |-> NoId, index |-> s, session |-> session,
                             part |-> <<>>, missing |-> {}])
  /\ UNCHANGED <<source, session, sessions, up, down, pend, acking, halted, scan, ready,
                 tables, faults>>

-----------------------------------------------------------------------------
(* _callback_loop(): one callback at a time, over both kinds of frame.      *)

Waiting(x) == IF x.barrier > 0 THEN [x EXCEPT !.barrier = @ - 1] ELSE x

MutantCompletedHalted(failed) ==
  /\ queue' = Tail(queue)
  /\ acking' = NoAck
  /\ halted' = (halted \/ failed)

(* The fault flag lasts until the queue is empty.                           *)
Completed(failed) ==
  /\ queue' = Tail(queue)
  /\ acking' = NoAck
  /\ halted' = ((halted \/ failed) /\ Len(queue) > 1)

MutantIngestedAgain(r, located, accepted) ==
  [held |-> TRUE, located |-> r.located \/ located,
   archived |-> IF accepted THEN r.archived + 1 ELSE r.archived]

(* _ingest() and _archive(): the callback may not accept the record of an   *)
(* unknown run yet, and is not called again once it has.                    *)
Ingested(r, located, accepted) ==
  [held |-> TRUE, located |-> r.located \/ located,
   archived |-> IF r.archived = 0 /\ accepted THEN 1 ELSE r.archived]

IngestLive ==
  /\ Len(queue) > 0 /\ Head(queue).kind = "live"
  /\ LET s == Head(queue).index
     IN \E accepted \in BOOLEAN : recs' = [recs EXCEPT ![s] = Ingested(@, FALSE, accepted)]
  /\ Completed(FALSE)
  /\ scan' = Waiting(scan)
  /\ UNCHANGED <<source, link, pend, ready, tr, gaps, cursor, faults>>

Known(row, f)  == row.status # "absent" /\ row.session = f.session /\ row.status # "failed"
Stored(row, f) == Reach(f) <= Len(row.bytes)
Next1(row, f)  == row.status = "receiving" /\ Offset(f) = Len(row.bytes)

MutantAppended(row, f) == row
Appended(row, f) == IF Stored(row, f) THEN row ELSE [row EXCEPT !.bytes = @ \o f.part]

(* append_chunk(): the bytes are durable before the ack exists; a chunk it  *)
(* refuses fails its transfer and, as any failed callback, the connection.  *)
AppendChunk ==
  /\ Len(queue) > 0 /\ Head(queue).kind = "chunk" /\ acking = NoAck
  /\ LET f == Head(queue)
         row == tr[f.id]
     IN IF Known(row, f) /\ (Stored(row, f) \/ Next1(row, f))
        THEN /\ tr' = [tr EXCEPT ![f.id] = Appended(row, f)]
             /\ acking' = [id |-> f.id, index |-> f.index, next |-> Reach(f)]
             /\ UNCHANGED <<source, link, pend, queue, halted, scan, ready>>
        ELSE /\ tr' = IF row.status = "receiving" THEN [tr EXCEPT ![f.id].status = "failed"] ELSE tr
             /\ Completed(TRUE)
             /\ Disconnected
             /\ scan' = Waiting(scan)
  /\ UNCHANGED <<recs, gaps, cursor, faults>>

(* send("log_ack"): only for the pending transfer and within its window     *)
MaySend(a) ==
  session # 0 /\ pend.id = a.id /\ pend.acked <= a.next /\ a.next <= pend.received

SendAck ==
  /\ acking # NoAck
  /\ IF MaySend(acking)
     THEN /\ up' = Append(up, [kind |-> "ack", id |-> acking.id, index |-> acking.index,
                               first |-> 1, last |-> 0])
          /\ pend' = [pend EXCEPT !.acked = acking.next]
          /\ Completed(FALSE)
          /\ UNCHANGED <<source, session, sessions, down, live, ready>>
     ELSE /\ Completed(TRUE)
          /\ Disconnected
  /\ scan' = Waiting(scan)
  /\ UNCHANGED <<tables, faults>>

-----------------------------------------------------------------------------
(* recover_logs(), under _log_lock.                                        *)

(* The automatic scan starts after the watermark, with every connection     *)
(* until it has succeeded; a maintainer may start one at a chosen record.   *)
Begun(first, auto) ==
  IF first > dev.last
  THEN scan' = scan /\ ready' = (ready \/ auto)
  ELSE /\ scan' = [NoScan EXCEPT !.stage = "draining", !.session = session, !.first = first,
                                 !.last = dev.last, !.auto = auto, !.barrier = Len(queue)]
       /\ ready' = ready

StartScan ==
  /\ session # 0 /\ scan = NoScan /\ ~ready
  /\ Begun(cursor.scanned + 1, TRUE)
  /\ UNCHANGED <<source, link, worker, tables, faults>>

(* _recover_completed_sources(): once more when a measurement has ended     *)
Rescan ==
  /\ session # 0 /\ scan = NoScan /\ ready
  /\ cursor.scanned < dev.last
  /\ Begun(cursor.scanned + 1, FALSE)
  /\ UNCHANGED <<source, link, worker, tables, faults>>

ManualScan(first) ==
  /\ session # 0 /\ scan = NoScan
  /\ Fault("rescan")
  /\ Begun(first, FALSE)
  /\ UNCHANGED <<source, link, worker, tables>>

(* An identity is free again once no frame can mention it: the code draws a *)
(* new random one each time.                                                *)
InUse == {xfer.id, acking.id} \cup {up[i].id : i \in 1..Len(up)}
           \cup {down[i].id : i \in 1..Len(down)} \cup {queue[i].id : i \in 1..Len(queue)}

Stop(x) == Smaller(x.last, x.first + Batch - 1)

(* wait_for_callbacks() and begin(): the row exists before the request      *)
BeginTransfer ==
  /\ scan.stage = "draining" /\ scan.barrier = 0 /\ scan.session = session
  /\ \E id \in Ids \ InUse :
       /\ \A other \in Ids \ InUse : id <= other
       /\ scan' = [scan EXCEPT !.stage = "begun", !.id = id]
       /\ tr' = [i \in Ids |->
            IF i = id THEN [status |-> "receiving", first |-> scan.first, last |-> Stop(scan),
                            session |-> session, bytes |-> <<>>]
            ELSE IF i \in InUse THEN tr[i] ELSE NoRow]
  /\ UNCHANGED <<source, link, worker, ready, recs, gaps, cursor, faults>>

SendRequest ==
  /\ scan.stage = "begun" /\ scan.session = session
  /\ up' = Append(up, [kind |-> "request", id |-> scan.id, index |-> 0,
                       first |-> scan.first, last |-> Stop(scan)])
  /\ pend' = [NoPend EXCEPT !.id = scan.id]
  /\ scan' = [scan EXCEPT !.stage = "waiting"]
  /\ UNCHANGED <<source, session, sessions, down, live, queue, acking, halted, ready, tables,
                 faults>>

(* Deadline, cancellation or a session that is no longer the scan's         *)
AbandonScan ==
  /\ scan # NoScan
  /\ IF scan.session # session /\ scan.stage # "answered" THEN UNCHANGED faults ELSE Fault("abandon")
  /\ scan' = NoScan
  /\ pend' = NoPend
  /\ UNCHANGED <<source, link, queue, acking, halted, ready, tables>>

MutantAdvancedIncomplete(c, row, complete) ==
  [scanned |-> IF row.last > c.scanned THEN row.last ELSE c.scanned,
   from |-> IF c.from = 0 THEN row.first ELSE Smaller(row.first, c.from),
   through |-> IF row.last > c.through THEN row.last ELSE c.through]

(* _advance_verified(): scanning counts declared gaps, verifying never      *)
(* crosses one, and a disjoint interval does not replace the proved one.    *)
Advanced(c, row, complete) ==
  LET scanned == IF row.last > c.scanned THEN row.last ELSE c.scanned
      touches == row.first <= c.through + 1 /\ row.last >= c.from - 1
  IN CASE ~complete -> [c EXCEPT !.scanned = scanned]
       [] complete /\ c.from = 0 -> [scanned |-> scanned, from |-> row.first, through |-> row.last]
       [] complete /\ c.from # 0 /\ touches ->
            [scanned |-> scanned, from |-> Smaller(row.first, c.from),
             through |-> IF row.last > c.through THEN row.last ELSE c.through]
       [] OTHER -> [c EXCEPT !.scanned = scanned]

(* validate_log_transfer(): whole records that, with the declared gaps,     *)
(* cover the requested interval exactly                                     *)
Found(row) == {row.bytes[i] : i \in 1..Len(row.bytes)}
Valid(row, result) ==
  /\ row.status = "receiving"
  /\ Len(row.bytes) = result[1]
  /\ Len(row.bytes) = 2 * Cardinality(Found(row))
  /\ Found(row) \cap result[2] = {}
  /\ Found(row) \cup result[2] = row.first..row.last

(* finish(): records, gaps and watermarks in one transaction                *)
Ingest(row, missing) ==
  /\ \E accepted \in SUBSET Found(row) :
       recs' = [s \in Seqs |-> IF s \in Found(row)
                              THEN Ingested(recs[s], TRUE, s \in accepted) ELSE recs[s]]
  /\ gaps' = gaps \cup missing
  /\ cursor' = Advanced(cursor, row, missing = {})

NextBatch ==
  IF Stop(scan) < scan.last
  THEN scan' = [scan EXCEPT !.stage = "draining", !.first = Stop(scan) + 1,
                            !.barrier = Len(queue), !.id = NoId, !.result = <<0, {}>>]
       /\ ready' = ready
  ELSE scan' = NoScan /\ ready' = (ready \/ (scan.auto /\ scan.session = session))

Finish ==
  /\ scan.stage = "answered"
  /\ LET row == tr[scan.id]
     IN IF Valid(row, scan.result)
        THEN /\ Ingest(row, scan.result[2])
             /\ tr' = [tr EXCEPT ![scan.id].status = "finished"]
             /\ NextBatch
        ELSE /\ tr' = IF row.status = "receiving" THEN [tr EXCEPT ![scan.id].status = "failed"]
                      ELSE tr
             /\ scan' = NoScan
             /\ UNCHANGED <<ready, recs, gaps, cursor>>
  /\ UNCHANGED <<source, link, worker, faults>>

-----------------------------------------------------------------------------
ReadLog  == ReadChunk \/ ReadResult \/ ReadError
Callback == IngestLive \/ AppendChunk \/ SendAck
Scan     == StartScan \/ BeginTransfer \/ SendRequest \/ Finish

Next ==
  \/ Record \/ (\E s \in Seqs : LoseRecord(s))
  \/ ServeRequest \/ ServeAck \/ Resend
  \/ LinkUp \/ LinkDown \/ GiveUp \/ RestartBackend
  \/ ReadLog \/ (\E s \in Seqs : ReadLive(s)) \/ Callback \/ Scan
  \/ Rescan \/ (\E first \in ManualStarts : ManualScan(first)) \/ AbandonScan

Spec == Init /\ [][Next]_vars

(* Every coroutine of the host and every handler of the device goes on once *)
(* it can; nothing is assumed of faults, rescans or new records.            *)
FairSpec ==
  /\ Spec
  /\ WF_vars(ServeRequest) /\ WF_vars(ServeAck) /\ WF_vars(GiveUp) /\ WF_vars(LinkUp)
  /\ WF_vars(ReadLog) /\ WF_vars(\E s \in Seqs : ReadLive(s))
  /\ WF_vars(Callback) /\ WF_vars(Scan) /\ WF_vars(AbandonScan /\ UNCHANGED faults)

-----------------------------------------------------------------------------
(* Every variable has its type.                                             *)
TypeOK ==
  /\ dev.last \in 0..MaxRec /\ dev.flushed \in 0..dev.last
  /\ dev.stored \subseteq 1..dev.flushed
  /\ xfer.id \in Ids \cup {NoId} /\ pend.id \in Ids \cup {NoId}
  /\ session \in {0, sessions}
  /\ pend.acked <= pend.received
  /\ scan.stage \in {"none", "draining", "begun", "waiting", "answered"}
  /\ scan.stage = "waiting" => pend.id = scan.id \/ session # scan.session
  /\ \A i \in Ids : tr[i].status \in {"absent", "receiving", "failed", "finished"}
  /\ cursor.from <= cursor.through /\ cursor.through <= cursor.scanned
  /\ gaps \subseteq Seqs

(* Whatever the device has been told is acknowledged is in the database:    *)
(* a crash of the host between the ack and the next chunk loses no byte.    *)
AckedIsDurable ==
  xfer # NoXfer /\ xfer.index > 0 => Len(tr[xfer.id].bytes) >= xfer.index * ChunkUnits

(* The verified interval holds source records with their log bytes only,    *)
(* whatever gaps, rescans and batches it was put together from.             *)
VerifiedIsHeld ==
  cursor.from # 0 => \A s \in cursor.from..cursor.through : recs[s].located

(* Automatic scans leave nothing behind: below the watermark a record is    *)
(* held with its log bytes or declared missing.                             *)
ScannedIsAccounted ==
  \A s \in 1..cursor.scanned : recs[s].located \/ s \in gaps

(* What a reader may conclude from the cursor alone.                        *)
CursorSound == VerifiedIsHeld /\ ScannedIsAccounted

(* A record that arrives live, again in a backfill and again in a rescan    *)
(* is projected into the experiment archive once.                           *)
ArchivedOnce == \A s \in Seqs : recs[s].archived <= 1

(* Batches a scan after the watermark may ask for are not refused.          *)
Transferable ==
  \A first \in Seqs, last \in Seqs :
    first > cursor.scanned /\ last - first < Batch /\ last <= dev.last
      => ~Unavailable(first, last)

(* Once faults end, the host finishes its recovery and stays ready, if the  *)
(* device can put what is left to read into one result for each batch.      *)
RecoveryCompletes == <>[]Transferable => <>[]ready

(* Claimed by docs/hostcomm/v2/wire.md: a request with more gaps than one   *)
(* result may declare is refused and has to be split, so that a log with    *)
(* many gaps is recovered in smaller requests.                              *)
SplitRequestsComplete == <>[]ready

(* Claimed by docs/hostcomm/v2/wire.md: an unacknowledged chunk may be sent *)
(* again three times before the connection is closed; without any other     *)
(* fault, no session ends.                                                  *)
ResendKeepsSession == [][session # 0 => session' = session]_vars
=============================================================================
