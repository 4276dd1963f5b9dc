------------------------------- MODULE V2Lease -------------------------------
(***************************************************************************)
(* The write lease of HostComm 2.0: what the host believes about it and    *)
(* what the device grants.                                                 *)
(*                                                                         *)
(* Host: LeaseContext (backend/app/hostcomm/v2_lease.py) and the places    *)
(* V2Transport consults it, with acquire, confirm and release of           *)
(* V2OperationCoordinator.  Device: the lease handlers of the simulator's  *)
(* state.py.  Both clocks advance together; frames of one connection stay  *)
(* in order, but a coroutine may use a frame long after it arrived, and a  *)
(* request of a connection the host has left may still be served.          *)
(*                                                                         *)
(* Durable operation identity is V2Operations' subject; recipe upload and  *)
(* stop_run, which need no current lease evidence here, are left out.      *)
(***************************************************************************)
EXTENDS Integers, Sequences, FiniteSets

CONSTANTS
  LeaseMs,    \* lifetime of a lease, 8000 ms in the code
  Timeout,    \* response_timeout of a request
  MaxNow,     \* bound: clock ticks explored
  MaxRev,     \* bound: state revision reached by unrelated device changes
  MaxLease,   \* bound: leases granted
  MaxSession, \* bound: sessions opened
  MaxAsks     \* bound: heartbeats and status reads sent

ASSUME LeaseAssumption ==
  /\ LeaseMs \in Nat \ {0} /\ Timeout \in Nat \ {0}
  /\ {MaxNow, MaxRev, MaxLease, MaxSession, MaxAsks} \subseteq Nat

VARIABLES
  now,      \* monotonic clock, the same rate on both sides
  h,        \* host: LeaseContext
  order,    \* host: the ordinary command under way, or NoOrder
  claims,   \* host: coroutines about to confirm ownership with a frame
  release,  \* host: progress of release_lease and the token it captured
  shown,    \* host: V2Client._status_frame
  granted,  \* host: leases with a durable applied acquire_lease
  asks,     \* host: heartbeats and status reads so far, at most MaxAsks
  opened,   \* sessions opened so far, never more than MaxSession
  device,   \* device: lease, revision, leases issued and (history) released
  open,     \* device: sessions it has not seen end
  out,      \* requests of the current session, not yet served
  in,       \* answers of the current session, not yet read
  tail      \* requests of the last session the host left, not yet served

rest == <<shown, granted, asks, opened>>
wire == <<out, in, tail>>
leaseVars == <<now, h, order, claims, release, rest, device, open, wire>>

NoLease   == 0
NoSession == 0
NoOrder   == [kind |-> "none", stage |-> "none", lease |-> NoLease, rev |-> 0,
              token |-> <<0, 0, 0>>]
NoRelease == [stage |-> "none", token |-> <<0, 0, 0>>]
NoFrame   == [session |-> NoSession, lease |-> NoLease, owner |-> NoSession,
              expires |-> 0, rev |-> 0, uptime |-> 0, started |-> 0, ok |-> FALSE]

-----------------------------------------------------------------------------
(* LeaseContext: pure functions of the context x and the clock.            *)

Token(x) == <<x.session, x.lease, x.gen>>
Ord(f)   == <<f.rev, f.uptime>>
Older(a, b) == a[1] < b[1] \/ (a[1] = b[1] /\ a[2] < b[2])

(* reset() *)
ResetTo(x, s) ==
  [session |-> s, gen |-> x.gen + 1, lease |-> NoLease, expires |-> 0,
   minRev |-> 0, order |-> <<-1, -1>>, paused |-> FALSE, revoked |-> FALSE]

(* clear() of the current token *)
Cleared(x) == [x EXCEPT !.lease = NoLease, !.expires = 0, !.gen = @ + 1, !.paused = FALSE]

(* expire() *)
Expired(x) == IF x.lease # NoLease /\ x.expires <= now
              THEN [Cleared(x) EXCEPT !.revoked = TRUE] ELSE x

MutantDeadlineUptime(f) == f.started + f.expires

MutantDeadlineFromReceipt(f) == now + (f.expires - f.uptime)

(* _deadline(): counted from the start of the request, not from receipt     *)
Deadline(f) == f.started + (f.expires - f.uptime)

(* observe_status() *)
Observed(x, f) ==
  LET e == Expired(x)
      owned == f.lease # NoLease /\ f.owner = e.session
      seen == [e EXCEPT !.minRev = f.rev, !.order = Ord(f)]
      settled == IF e.lease # NoLease /\ ~(owned /\ f.lease = e.lease)
              THEN Cleared(seen) ELSE seen
  IN CASE f.session # x.session -> x
       [] f.session = x.session
              /\ (e.revoked \/ Older(Ord(f), e.order) \/ f.rev < e.minRev)
            -> e
       [] OTHER -> IF owned /\ settled.lease = f.lease
                   THEN [settled EXCEPT !.expires = Deadline(f)] ELSE settled

Confirmable(x, f, token, lease) ==
  /\ ~x.revoked /\ token = Token(x) /\ f.session = x.session /\ ~x.paused
  /\ f.rev >= x.minRev
  /\ lease # NoLease /\ f.lease = lease /\ f.owner = x.session
  /\ ~Older(Ord(f), x.order)
  /\ Deadline(f) > now

MutantConfirmedOrCleared(x, f, token, lease) ==
  LET e == Expired(x)
  IN IF ~Confirmable(e, f, token, lease) THEN Cleared(e)
     ELSE [e EXCEPT !.lease = lease, !.expires = Deadline(f), !.minRev = f.rev,
                    !.order = Ord(f), !.gen = IF e.lease # lease THEN @ + 1 ELSE @]

(* confirm() *)
Confirmed(x, f, token, lease) ==
  LET e == Expired(x)
  IN IF ~Confirmable(e, f, token, lease) THEN e
     ELSE [e EXCEPT !.lease = lease, !.expires = Deadline(f), !.minRev = f.rev,
                    !.order = Ord(f), !.gen = IF e.lease # lease THEN @ + 1 ELSE @]

(* heartbeat(): what makes it raise, and what it leaves otherwise           *)
BeatRefused(x, f, token, asked) ==
  \/ asked # NoLease /\ f.lease # asked
  \/ Expired(x).revoked
  \/ asked # NoLease /\ token = Token(x) /\ Deadline(f) <= now

Renewed(x, f, token, asked) ==
  LET e == [x EXCEPT !.minRev = IF f.rev > @ THEN f.rev ELSE @]
  IN IF asked = NoLease \/ token # Token(x) \/ Older(Ord(f), x.order) THEN e
     ELSE [e EXCEPT !.order = Ord(f), !.expires = Deadline(f)]

(* evidence(): what authorises ordinary writes                              *)
HasEvidence(x) == x.lease # NoLease /\ x.expires > now /\ ~x.paused

-----------------------------------------------------------------------------
LeaseInit ==
  /\ now = 0
  /\ h = ResetTo([gen |-> 0], NoSession)
  /\ order = NoOrder
  /\ claims = {}
  /\ release = NoRelease
  /\ shown = NoFrame
  /\ granted = {}
  /\ asks = 0
  /\ opened = 0
  /\ device = [lease |-> NoLease, owner |-> NoSession, expires |-> 0, rev |-> 1, issued |-> 0,
                released |-> {}]
  /\ open = {}
  /\ out = <<>> /\ in = <<>> /\ tail = <<>>

Request(kind, lease, rev) ==
  [kind |-> kind, lease |-> lease, rev |-> rev, session |-> h.session, started |-> now,
   token |-> Token(h), live |-> TRUE]

Pending == {out[i] : i \in 1..Len(out)} \cup {in[i].req : i \in 1..Len(in)}
Asking(kind) == \E r \in Pending : r.kind = kind

(* _open() and hello_ack; the device may still hold the session left before *)
Connect ==
  /\ h.session = NoSession
  /\ opened < MaxSession
  /\ Cardinality(open) < 2
  /\ opened' = opened + 1
  /\ h' = ResetTo(h, opened')
  /\ open' = open \cup {opened'}
  /\ UNCHANGED <<now, order, claims, release, shown, granted, asks, device, wire>>

(* _disconnect(): the context is reset, every pending request fails, and    *)
(* what was written may still reach the device.                             *)
DropSession(context) ==
  /\ h' = ResetTo(context, NoSession)
  /\ out' = <<>> /\ in' = <<>>
  /\ tail' = tail \o out
  /\ order' = NoOrder
  /\ release' = NoRelease
  /\ UNCHANGED <<claims, shown, granted, asks, opened, device>>

Disconnect ==
  /\ h.session # NoSession
  /\ DropSession(h)
  /\ UNCHANGED <<now, open>>

(* lease_evidence(), read by the heartbeat loop and before ordinary writes  *)
ExpireLocally ==
  /\ Expired(h).revoked
  /\ DropSession(Expired(h))
  /\ UNCHANGED <<now, open>>

(* _heartbeats(): renewals stop while a release is under way.               *)
SendHeartbeat ==
  /\ h.session # NoSession /\ ~Expired(h).revoked
  /\ ~Asking("heartbeat")
  /\ asks < MaxAsks /\ asks' = asks + 1
  /\ out' = Append(out, Request("heartbeat", IF h.paused THEN NoLease ELSE h.lease, 0))
  /\ UNCHANGED <<now, h, order, claims, release, shown, granted, opened, device, open, in,
                 tail>>

ReadStatus ==
  /\ h.session # NoSession
  /\ ~Asking("status")
  /\ asks < MaxAsks /\ asks' = asks + 1
  /\ out' = Append(out, Request("status", NoLease, 0))
  /\ UNCHANGED <<now, h, order, claims, release, shown, granted, opened, device, open, in,
                 tail>>

(* _control_lock: one ordinary command at a time; preflight confirms        *)
(* ownership outside it.                                                    *)
ControlLockFree == order = NoOrder /\ \A c \in claims : c.for # "acquire"

Current == shown # NoFrame /\ shown.session = h.session

(* acquire_lease() captures its token before anything is awaited.           *)
BeginAcquire ==
  /\ h.session # NoSession /\ ControlLockFree
  /\ Current /\ shown.lease = NoLease
  /\ order' = [kind |-> "acquire", stage |-> "prepared", lease |-> NoLease, rev |-> 0,
               token |-> Token(h)]
  /\ UNCHANGED <<now, h, claims, release, rest, device, open, wire>>

(* _ensure_lease() ends with valid evidence; the intent is committed next.  *)
BeginCommand ==
  /\ h.session # NoSession /\ ControlLockFree
  /\ Current /\ HasEvidence(h)
  /\ order' = [kind |-> "command", stage |-> "prepared", lease |-> h.lease,
               rev |-> shown.rev, token |-> Token(h)]
  /\ UNCHANGED <<now, h, claims, release, rest, device, open, wire>>

(* quiesce_lease(): pause renewals, then let a written one settle.          *)
BeginRelease ==
  /\ h.session # NoSession /\ h.lease # NoLease /\ Current
  /\ release = NoRelease
  /\ h' = [h EXCEPT !.paused = TRUE]
  /\ release' = [stage |-> "quiescing", token |-> Token(h)]
  /\ UNCHANGED <<now, order, claims, rest, device, open, wire>>

(* The release itself is an ordinary command: an unresolved one refuses it, *)
(* and a release that was not applied ends the session.                     *)
FinishQuiesce ==
  /\ release.stage = "quiescing"
  /\ \A r \in Pending : ~(r.kind = "heartbeat" /\ r.lease # NoLease)
  /\ IF release.token = Token(h) /\ order = NoOrder
     THEN /\ release' = [release EXCEPT !.stage = "submitted"]
          /\ order' = [kind |-> "release", stage |-> "prepared", lease |-> h.lease,
                       rev |-> shown.rev, token |-> release.token]
          /\ UNCHANGED <<h, claims, rest, device, wire>>
     ELSE IF release.token = Token(h) THEN DropSession(h)
     ELSE /\ release' = NoRelease
          /\ UNCHANGED <<h, order, claims, rest, device, wire>>
  /\ UNCHANGED <<now, open>>

(* send(): checked under the write lock, after every await before it.       *)
MayWrite(x) ==
  CASE order.kind = "acquire" -> ~x.paused
    [] order.kind = "command" -> /\ HasEvidence(x) /\ order.lease = x.lease
                                 /\ order.rev >= x.minRev
    [] order.kind = "release" -> /\ x.lease # NoLease /\ order.lease = x.lease
                                 /\ order.rev >= x.minRev

FailRelease(token) ==
  IF token = Token(h) THEN DropSession(h)
  ELSE order' = NoOrder /\ release' = NoRelease /\ UNCHANGED <<h, claims, rest, device, wire>>

Write ==
  /\ order.stage = "prepared"
  /\ h.session # NoSession /\ ~Expired(h).revoked
  /\ MayWrite(h)
  /\ asks < MaxAsks /\ asks' = asks + 1
  /\ out' = Append(out, Request(order.kind, order.lease, order.rev))
  /\ order' = [order EXCEPT !.stage = "written"]
  /\ UNCHANGED <<now, h, claims, release, shown, granted, opened, device, open, in, tail>>

RefuseWrite ==
  /\ order.stage = "prepared"
  /\ ~Expired(h).revoked
  /\ h.session = NoSession \/ ~MayWrite(h)
  /\ IF order.kind = "release" THEN FailRelease(order.token)
     ELSE order' = NoOrder /\ UNCHANGED <<h, claims, release, rest, device, wire>>
  /\ UNCHANGED <<now, open>>

Retire(r) == IF r.kind = order.kind THEN [r EXCEPT !.live = FALSE] ELSE r

(* The deadline of the command passes: its row becomes unknown, and the     *)
(* late answer will be dropped.                                             *)
TimeoutOrder ==
  /\ order.stage = "written"
  /\ \E r \in Pending : r.live /\ r.kind = order.kind /\ now >= r.started + Timeout
  /\ IF order.kind = "release" THEN FailRelease(order.token)
     ELSE /\ order' = NoOrder
          /\ out' = [i \in 1..Len(out) |-> Retire(out[i])]
          /\ in' = [i \in 1..Len(in) |-> [in[i] EXCEPT !.req = Retire(@)]]
          /\ UNCHANGED <<h, claims, release, rest, device, tail>>
  /\ UNCHANGED <<now, open>>

TimeoutHeartbeat ==
  /\ \E r \in Pending : r.kind = "heartbeat" /\ now >= r.started + Timeout
  /\ DropSession(h)
  /\ UNCHANGED <<now, open>>

(* A get_operation of an acquire_lease that timed out proves it applied.    *)
LearnGrant ==
  /\ h.session # NoSession
  /\ granted' = 1..device.issued
  /\ UNCHANGED <<now, h, order, claims, release, shown, asks, opened, device, open, wire>>

-----------------------------------------------------------------------------
(* _dispatch() of the next answer of the current session.                   *)
Arrived(kind) == Len(in) > 0 /\ Head(in).req.kind = kind
Taken == in' = Tail(in) /\ UNCHANGED <<now, device, open, out, tail>>

HeartbeatAnswered ==
  /\ Arrived("heartbeat")
  /\ LET r == Head(in).req
         f == Head(in).frame
     IN IF now >= r.started + Timeout \/ BeatRefused(h, f, r.token, r.lease)
        THEN DropSession(h) /\ UNCHANGED <<now, open>>
        ELSE /\ h' = Renewed(h, f, r.token, r.lease)
             /\ Taken
             /\ UNCHANGED <<order, claims, release, rest>>

(* get_status() keeps the newest frame, after the context has observed it.  *)
StatusAnswered ==
  /\ Arrived("status")
  /\ LET f == Head(in).frame
         x == Observed(h, f)
     IN IF x.revoked THEN DropSession(x) /\ UNCHANGED <<now, open>>
        ELSE /\ h' = x
             /\ shown' = IF Current /\ Older(Ord(f), Ord(shown)) THEN shown ELSE f
             /\ Taken
             /\ UNCHANGED <<order, claims, release, granted, asks, opened>>

(* The applied result is durable before its own status read is sent.        *)
AcquireAnswered ==
  /\ Arrived("acquire")
  /\ LET r == Head(in).req
         f == Head(in).frame
     IN /\ granted' = IF r.live /\ f.ok THEN granted \cup {f.lease} ELSE granted
        /\ IF r.live /\ f.ok
           THEN /\ out' = Append(out, [Request("ownership", f.lease, 0)
                                         EXCEPT !.token = order.token])
                /\ order' = [order EXCEPT !.stage = "reading"]
           ELSE /\ order' = IF r.live THEN NoOrder ELSE order
                /\ UNCHANGED out
        /\ in' = Tail(in)
  /\ UNCHANGED <<now, h, claims, release, shown, asks, opened, device, open, tail>>

OwnershipAnswered ==
  /\ Arrived("ownership")
  /\ LET r == Head(in).req
         f == Head(in).frame
         x == Observed(h, f)
     IN IF x.revoked THEN DropSession(x) /\ UNCHANGED <<now, open>>
        ELSE /\ h' = x
             /\ claims' = claims \cup {[token |-> r.token, frame |-> f, lease |-> r.lease,
                                         for |-> "acquire"]}
             /\ order' = NoOrder
             /\ Taken
             /\ UNCHANGED <<release, rest>>

CommandAnswered ==
  /\ Arrived("command")
  /\ order' = IF Head(in).req.live THEN NoOrder ELSE order
  /\ Taken
  /\ UNCHANGED <<h, claims, release, rest>>

(* finish_release() clears only the generation it captured.                 *)
ReleaseAnswered ==
  /\ Arrived("release")
  /\ LET r == Head(in).req
     IN CASE ~r.live -> Taken /\ UNCHANGED <<h, order, claims, release, rest>>
          [] r.live /\ (Head(in).frame.ok \/ order.token # Token(h)) ->
               /\ h' = IF order.token = Token(h) THEN Cleared(h) ELSE h
               /\ order' = NoOrder
               /\ release' = NoRelease
               /\ Taken
               /\ UNCHANGED <<claims, rest>>
          [] OTHER -> DropSession(h) /\ UNCHANGED <<now, open>>

(* confirm_owned_lease(): a lease this context does not hold needs a        *)
(* durable applied result, read from the database.                          *)
BeginConfirm ==
  /\ Current /\ shown.lease # NoLease
  /\ \A c \in claims : c.for # "preflight"
  /\ IF h.lease = shown.lease
     THEN /\ h' = Confirmed(h, shown, Token(h), shown.lease)
          /\ UNCHANGED claims
     ELSE /\ shown.lease \in granted
          /\ claims' = claims \cup {[token |-> Token(h), frame |-> shown,
                                     lease |-> shown.lease, for |-> "preflight"]}
          /\ UNCHANGED h
  /\ UNCHANGED <<now, order, release, rest, device, open, wire>>

FinishConfirm(c) ==
  /\ c \in claims
  /\ claims' = claims \ {c}
  /\ h' = IF h.session = NoSession THEN h ELSE Confirmed(h, c.frame, c.token, c.lease)
  /\ UNCHANGED <<now, order, release, rest, device, open, wire>>

(* _on_connection() clears what the adapter remembers of the old session.   *)
ForgetStatus ==
  /\ shown # NoFrame /\ ~Current
  /\ shown' = NoFrame
  /\ UNCHANGED <<now, h, order, claims, release, granted, asks, opened, device, open, wire>>

-----------------------------------------------------------------------------
(* The device.                                                             *)

Forfeited(d) == [d EXCEPT !.lease = NoLease, !.owner = NoSession, !.expires = 0, !.rev = @ + 1]

(* lose_lease() of an expired lease, first thing in every dispatch          *)
Swept(d) == IF d.lease # NoLease /\ now >= d.expires THEN Forfeited(d) ELSE d

(* lease_valid() *)
Holds(d, r) == d.lease # NoLease /\ d.lease = r.lease /\ d.owner = r.session

Permitted(d, r) ==
  CASE r.kind = "acquire" -> d.lease = NoLease /\ d.issued < MaxLease
    [] r.kind \in {"release", "command"} -> Holds(d, r) /\ r.rev = d.rev
    [] OTHER -> TRUE

Served(d, r) ==
  CASE ~Permitted(d, r) -> d
    [] r.kind = "heartbeat" /\ Holds(d, r) -> [d EXCEPT !.expires = now + LeaseMs]
    [] r.kind = "acquire" /\ Permitted(d, r) ->
         [d EXCEPT !.lease = d.issued + 1, !.owner = r.session, !.expires = now + LeaseMs,
                   !.rev = @ + 1, !.issued = @ + 1]
    [] r.kind = "release" /\ Permitted(d, r) ->
         [Forfeited(d) EXCEPT !.released = @ \cup {d.lease}]
    [] r.kind = "command" /\ Permitted(d, r) -> [d EXCEPT !.rev = @ + 1]
    [] OTHER -> d

Serve ==
  /\ Len(out) > 0 /\ Head(out).session \in open
  /\ LET r == Head(out)
         d == Served(Swept(device), r)
     IN /\ device' = d
        /\ in' = Append(in, [req |-> r,
             frame |-> [session |-> r.session, lease |-> d.lease, owner |-> d.owner,
                        expires |-> d.expires, rev |-> d.rev, uptime |-> now,
                        started |-> r.started, ok |-> Permitted(Swept(device), r)]])
  /\ out' = Tail(out)
  /\ UNCHANGED <<now, h, order, claims, release, rest, open, tail>>

ServeLate ==
  /\ Len(tail) > 0
  /\ device' = IF Head(tail).session \in open THEN Served(Swept(device), Head(tail)) ELSE device
  /\ tail' = Tail(tail)
  /\ UNCHANGED <<now, h, order, claims, release, rest, open, out, in>>

MutantCloseAny(s) ==
  /\ s \in open
  /\ open' = open \ {s}
  /\ device' = IF device.lease # NoLease THEN Forfeited(device) ELSE device
  /\ UNCHANGED <<now, h, order, claims, release, rest, wire>>

(* The connection ends for the device: its lease goes with it.              *)
CloseSession(s) ==
  /\ s \in open
  /\ open' = open \ {s}
  /\ device' = IF device.lease # NoLease /\ device.owner = s THEN Forfeited(device) ELSE device
  /\ UNCHANGED <<now, h, order, claims, release, rest, wire>>

Sweep ==
  /\ Swept(device) # device
  /\ device' = Swept(device)
  /\ UNCHANGED <<now, h, order, claims, release, rest, open, wire>>

(* Stages, alarms, acknowledgements: any other change of control state.     *)
Change ==
  /\ device.rev < MaxRev
  /\ device' = [device EXCEPT !.rev = @ + 1]
  /\ UNCHANGED <<now, h, order, claims, release, rest, open, wire>>

Tick ==
  /\ now < MaxNow
  /\ now' = now + 1
  /\ UNCHANGED <<h, order, claims, release, rest, device, open, wire>>

-----------------------------------------------------------------------------
LeaseNext ==
  \/ Connect \/ Disconnect \/ ExpireLocally \/ SendHeartbeat \/ ReadStatus
  \/ BeginAcquire \/ BeginCommand \/ BeginRelease \/ FinishQuiesce
  \/ Write \/ RefuseWrite \/ TimeoutOrder \/ TimeoutHeartbeat \/ LearnGrant
  \/ HeartbeatAnswered \/ StatusAnswered \/ AcquireAnswered \/ OwnershipAnswered
  \/ CommandAnswered \/ ReleaseAnswered
  \/ BeginConfirm \/ ForgetStatus \/ \E c \in claims : FinishConfirm(c)
  \/ Serve \/ ServeLate \/ Sweep \/ Change \/ Tick
  \/ \E s \in open : CloseSession(s)

LeaseSpec == LeaseInit /\ [][LeaseNext]_leaseVars

-----------------------------------------------------------------------------
Times  == 0..MaxNow + LeaseMs
Leases == 0..MaxLease
Tokens == (0..MaxSession) \X Leases \X Nat

(* Every variable has its type.                                             *)
LeaseTypeOK ==
  /\ now \in 0..MaxNow
  /\ h.session \in 0..MaxSession /\ h.lease \in Leases /\ h.expires \in Times
  /\ h.gen \in Nat /\ h.minRev \in Nat /\ h.order \in Int \X Int
  /\ h.paused \in BOOLEAN /\ h.revoked \in BOOLEAN
  /\ Token(h) \in Tokens
  /\ order.kind \in {"none", "acquire", "command", "release"}
  /\ release.stage \in {"none", "quiescing", "submitted"}
  /\ granted \subseteq 1..device.issued
  /\ device.lease \in Leases /\ device.expires \in Times
  /\ open \subseteq 1..opened

(* While the device has not seen the session end, lease evidence the host   *)
(* holds valid names the lease the device grants, and never outlives it.    *)
(* A released lease is set aside: a frame read before the release still     *)
(* confirms it, until the device refuses the next renewal.                  *)
EvidenceSound ==
  HasEvidence(h) /\ h.session \in open /\ h.lease \notin device.released
    => h.lease = device.lease /\ device.owner = h.session /\ h.expires <= device.expires

(* The host drops a lease only when the device no longer grants it, when    *)
(* its own evidence ran out, or with the session: no old reply revokes it.  *)
NoReplyRevokesNewer ==
  [][h.lease # NoLease /\ h'.session = h.session /\ h'.lease # h.lease
       => h.expires <= now \/ device.lease # h.lease]_leaseVars

(* What is left of an older session, its requests or its end, takes nothing *)
(* from the lease the device grants to the session the host is in now.      *)
NewSessionKeepsLease ==
  [][device.lease # NoLease /\ device.owner = h.session /\ now < device.expires
       /\ out' = out /\ h' = h /\ h.session \in open'
       => device'.lease = device.lease /\ device'.expires = device.expires]_leaseVars
=============================================================================
