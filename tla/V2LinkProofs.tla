------------------------------ MODULE V2LinkProofs ------------------------------
(***************************************************************************)
(* Theorems about the two things a host keeps up over its link to a 2.0    *)
(* device: the control lease, for every lifetime, timeout and number of    *)
(* sessions, leases and requests; and its copy of the source log, for any  *)
(* number of records, any batch, chunk and fault bounds, and any set of    *)
(* transfer identities.                                                    *)
(***************************************************************************)
EXTENDS V2Lease, V2SourceLog, TLAPS, WellFoundedInduction, FiniteSetTheorems

-----------------------------------------------------------------------------
(* The control lease.                                                      *)

TokenType == Nat \X Nat \X Nat
OrdType == Int \X Int
HostType ==
  [session : Nat, gen : Nat, lease : Nat, expires : Int, minRev : Nat, order : OrdType,
   paused : BOOLEAN, revoked : BOOLEAN]
FrameType ==
  [session : Nat, lease : Nat, owner : Nat, expires : Nat, rev : Nat, uptime : Nat, started : Nat,
   ok : BOOLEAN]
RequestType ==
  [kind : {"acquire", "command", "release", "heartbeat", "status", "ownership"}, lease : Nat, rev : Nat,
   session : Nat, started : Nat, token : TokenType, live : BOOLEAN]
AnswerType == [req : RequestType, frame : FrameType]
OrderType ==
  [kind : {"none", "acquire", "command", "release"}, stage : {"none", "prepared", "written", "reading"},
   lease : Nat, rev : Nat, token : TokenType]
ClaimType == [token : TokenType, frame : FrameType, lease : Nat, for : {"acquire", "preflight"}]
DeviceType ==
  [lease : Nat, owner : Nat, expires : Nat, rev : Nat, issued : Nat, released : SUBSET Nat]

LeaseTyped ==
  /\ now \in Nat /\ opened \in Nat
  /\ order \in OrderType /\ (order.stage = "prepared" => order.kind # "none")
  /\ release \in [stage : {"none", "quiescing", "submitted"}, token : TokenType]
  /\ shown \in FrameType /\ \A c \in claims : c \in ClaimType
  /\ device \in DeviceType
  /\ out \in Seq(RequestType) /\ in \in Seq(AnswerType) /\ tail \in Seq(RequestType)

Elems(s) == {s[i] : i \in DOMAIN s}
ReadFrames == {c.frame : c \in claims} \cup {shown}
Told  == {x.frame : x \in Elems(in)} \cup ReadFrames
Asked == Elems(out) \cup {x.req : x \in Elems(in)}

(* own[l] is the session lease l was granted to.  A lease that was granted *)
(* until e and has not run out is the device's, if the session is open and *)
(* has not released it.                                                    *)
Granted(own, l, e) ==
  l # NoLease /\ e > now /\ own[l] \in open /\ l \notin device.released
    => device.lease = l /\ e <= device.expires

(* The device grants a lease with revision since and keeps it until now.   *)
DeviceSound(d, own, since) ==
  /\ own \in [Nat -> Nat] /\ since \in Nat
  /\ d.lease <= d.issued /\ d.expires <= now + LeaseMs
  /\ \A l \in 1..d.issued : own[l] \in 1..opened
  /\ d.lease # NoLease => own[d.lease] = d.owner /\ 1 <= since /\ since <= d.rev

(* A frame of an earlier or a later lease tells by its revision.           *)
FrameSound(f, own, since) ==
  /\ f.lease <= device.issued /\ f.rev <= device.rev /\ f.started <= f.uptime
  /\ f.lease # NoLease => own[f.lease] = f.owner
  /\ Granted(own, f.lease, f.expires)
  /\ device.lease # NoLease => (f.rev >= since <=> f.lease = device.lease)

HostSound(x, own, since) ==
  /\ x \in HostType /\ x.lease <= device.issued
  /\ x.lease # NoLease => own[x.lease] = x.session
  /\ Granted(own, x.lease, x.expires)
  /\ x.lease # NoLease /\ x.lease = device.lease => x.order[1] >= since

RequestSound(r) ==
  /\ r.session = h.session /\ r.started <= now
  /\ r.kind = "heartbeat" => r.lease \in {NoLease, r.token[2]}

(* Answers arrive in the order of the revisions they tell, after all that  *)
(* was read of the session.                                                *)
Sorted(s) == \A i, j \in DOMAIN s : i <= j => s[i].frame.rev <= s[j].frame.rev
ReadInOrder ==
  /\ Sorted(in)
  /\ h.order[1] <= device.rev
  /\ \A x \in Elems(in) : h.order[1] <= x.frame.rev
  /\ \A f \in ReadFrames, x \in Elems(in) : f.session = h.session => f.rev <= x.frame.rev

AnswerSound(x) ==
  /\ x.frame.session = h.session
  /\ x.req.kind = "release" /\ x.frame.ok => x.frame.lease = NoLease

SessionsSound ==
  /\ h.session <= opened
  /\ h.session = NoSession => out = <<>> /\ in = <<>>
  /\ \A r \in Elems(tail) : r.session # NoSession /\ r.session # h.session /\ r.session <= opened

LeaseKept(own, since) ==
  /\ LeaseTyped /\ SessionsSound /\ ReadInOrder
  /\ DeviceSound(device, own, since) /\ HostSound(h, own, since)
  /\ \A f \in Told : FrameSound(f, own, since)
  /\ \A r \in Asked : RequestSound(r)
  /\ \A x \in Elems(in) : AnswerSound(x)

-----------------------------------------------------------------------------
(* Sequences.                                                              *)

LEMMA ElemsTyped ==
  ASSUME NEW T, NEW s \in Seq(T), NEW x \in Elems(s)
  PROVE  x \in T
BY DEF Elems

LEMMA TailElems ==
  ASSUME NEW T, NEW s \in Seq(T), s # <<>>
  PROVE  /\ Tail(s) \in Seq(T) /\ Head(s) \in Elems(s) /\ Head(s) \in T
              /\ Elems(Tail(s)) \subseteq Elems(s)
<1>1. /\ Len(s) \in Nat \ {0} /\ DOMAIN s = 1..Len(s) /\ Tail(s) \in Seq(T)
      /\ DOMAIN Tail(s) = 1..(Len(s) - 1) /\ \A i \in 1..(Len(s) - 1) : Tail(s)[i] = s[i + 1]
      /\ Head(s) = s[1] /\ \A i \in 1..Len(s) : s[i] \in T
  OBVIOUS
<1>2. QED BY <1>1 DEF Elems

LEMMA AppendElems ==
  ASSUME NEW T, NEW s \in Seq(T), NEW x \in T
  PROVE  /\ Append(s, x) \in Seq(T) /\ Elems(Append(s, x)) = Elems(s) \cup {x}
<1>1. /\ Len(s) \in Nat /\ DOMAIN s = 1..Len(s) /\ Append(s, x) \in Seq(T)
      /\ DOMAIN Append(s, x) = 1..(Len(s) + 1) /\ \A i \in 1..Len(s) : Append(s, x)[i] = s[i]
      /\ Append(s, x)[Len(s) + 1] = x
  OBVIOUS
<1>2. QED BY <1>1 DEF Elems

LEMMA JoinElems ==
  ASSUME NEW T, NEW s \in Seq(T), NEW t \in Seq(T)
  PROVE  /\ s \o t \in Seq(T) /\ Elems(s \o t) \subseteq Elems(s) \cup Elems(t)
<1>1. /\ Len(s) \in Nat /\ DOMAIN s = 1..Len(s) /\ Len(t) \in Nat /\ DOMAIN t = 1..Len(t)
      /\ s \o t \in Seq(T) /\ DOMAIN (s \o t) = 1..(Len(s) + Len(t))
      /\ \A i \in 1..(Len(s) + Len(t)) : (s \o t)[i] = IF i <= Len(s) THEN s[i] ELSE t[i - Len(s)]
  OBVIOUS
<1>2. ASSUME NEW i \in DOMAIN (s \o t)
      PROVE  (s \o t)[i] \in Elems(s) \cup Elems(t)
  <2>1. CASE i <= Len(s)
    BY <1>1, <2>1 DEF Elems
  <2>2. CASE ~(i <= Len(s))
    <3>1. i - Len(s) \in 1..Len(t) /\ (s \o t)[i] = t[i - Len(s)]
      BY <1>1, <2>2
    <3>2. QED BY <1>1, <3>1 DEF Elems
  <2>3. QED BY <2>1, <2>2
<1>3. QED BY <1>1, <1>2 DEF Elems

LEMMA TailSorted ==
  ASSUME NEW s \in Seq(AnswerType), s # <<>>, Sorted(s)
  PROVE  /\ Sorted(Tail(s)) /\ \A x \in Elems(Tail(s)) : Head(s).frame.rev <= x.frame.rev
<1>1. /\ Len(s) \in Nat \ {0} /\ DOMAIN s = 1..Len(s)
      /\ DOMAIN Tail(s) = 1..(Len(s) - 1) /\ \A i \in 1..(Len(s) - 1) : Tail(s)[i] = s[i + 1]
      /\ Head(s) = s[1]
  OBVIOUS
<1>2. \A i \in 1..(Len(s) - 1) : i + 1 \in 1..Len(s) /\ 1 <= i + 1
  BY <1>1
<1>3. \A i, j \in 1..(Len(s) - 1) : i <= j => i + 1 <= j + 1
  BY <1>1
<1>4. 1 \in DOMAIN s
  BY <1>1
<1>5. QED BY <1>1, <1>2, <1>3, <1>4 DEF Sorted, Elems

LEMMA AppendSorted ==
  ASSUME NEW s \in Seq(AnswerType), NEW x \in AnswerType, Sorted(s),
         \A y \in Elems(s) : y.frame.rev <= x.frame.rev
  PROVE  Sorted(Append(s, x))
<1>1. /\ Len(s) \in Nat /\ DOMAIN s = 1..Len(s)
      /\ DOMAIN Append(s, x) = 1..(Len(s) + 1) /\ \A i \in 1..Len(s) : Append(s, x)[i] = s[i]
      /\ Append(s, x)[Len(s) + 1] = x
  OBVIOUS
<1>2. SUFFICES ASSUME NEW i \in 1..(Len(s) + 1), NEW j \in 1..(Len(s) + 1), i <= j
               PROVE  Append(s, x)[i].frame.rev <= Append(s, x)[j].frame.rev
  BY <1>1 DEF Sorted
<1>3. CASE j <= Len(s)
  <2>1. i \in 1..Len(s) /\ j \in 1..Len(s)
    BY <1>1, <1>2, <1>3
  <2>2. QED BY <1>1, <1>2, <2>1 DEF Sorted
<1>4. CASE i <= Len(s) /\ j = Len(s) + 1
  <2>1. i \in 1..Len(s)
    BY <1>1, <1>4
  <2>2. QED BY <1>1, <1>4, <2>1 DEF Elems
<1>5. CASE i = Len(s) + 1 /\ j = Len(s) + 1
  BY <1>1, <1>5 DEF AnswerType, FrameType
<1>6. QED BY <1>1, <1>2, <1>3, <1>4, <1>5

-----------------------------------------------------------------------------
(* LeaseContext: what each of its functions makes of a sound context.  A   *)
(* lease it gives up is no longer the device's or has run out.             *)

Dropped(x, y) == x.lease # NoLease /\ y.lease # x.lease => x.expires <= now \/ device.lease # x.lease

LEMMA NoLeaseSound ==
  ASSUME LeaseTyped, NEW own, NEW since, NEW x \in HostType, x.lease = NoLease
  PROVE  HostSound(x, own, since)
<1>1. 0 <= device.issued
  BY DEF LeaseTyped, DeviceType
<1>2. QED BY <1>1 DEF HostSound, Granted, NoLease

LEMMA ClearedSound ==
  ASSUME NEW x \in HostType
  PROVE  /\ Cleared(x) \in HostType /\ Cleared(x).lease = NoLease
         /\ Cleared(x).session = x.session /\ Cleared(x).order = x.order
<1>1. x.gen + 1 \in Nat /\ 0 \in Nat /\ 0 \in Int
  BY DEF HostType
<1>2. Cleared(x) = [x EXCEPT !.lease = 0, !.expires = 0, !.gen = x.gen + 1, !.paused = FALSE]
  BY DEF Cleared, NoLease
<1>3. QED BY <1>1, <1>2 DEF HostType, NoLease

LEMMA ExpiredSound ==
  ASSUME LeaseTyped, NEW own, NEW since, NEW x, HostSound(x, own, since)
  PROVE  /\ HostSound(Expired(x), own, since) /\ Dropped(x, Expired(x))
         /\ Expired(x).session = x.session /\ Expired(x).order = x.order
         /\ Expired(x) = x \/ Expired(x).lease = NoLease
<1>1. CASE x.lease # NoLease /\ x.expires <= now
  <2>1. Expired(x) = [Cleared(x) EXCEPT !.revoked = TRUE]
    BY <1>1 DEF Expired
  <2>2. /\ Cleared(x) \in HostType /\ Cleared(x).lease = NoLease
        /\ Cleared(x).session = x.session /\ Cleared(x).order = x.order
    BY ClearedSound DEF HostSound
  <2>3. /\ Expired(x) \in HostType /\ Expired(x).lease = NoLease
        /\ Expired(x).session = x.session /\ Expired(x).order = x.order
    BY <2>1, <2>2 DEF HostType
  <2>4. QED BY <1>1, <2>3, NoLeaseSound DEF Dropped
<1>2. CASE ~(x.lease # NoLease /\ x.expires <= now)
  BY <1>2 DEF Expired, Dropped
<1>3. QED BY <1>1, <1>2

(* A frame that owns the lease of the context extends it as far as the     *)
(* device did, or less.                                                    *)
Extends(x, f, y) ==
  /\ y \in HostType /\ y.session = x.session /\ y.lease = f.lease /\ y.expires = Deadline(f)
  /\ y.order = Ord(f)
  /\ f.lease # NoLease /\ (f.owner = x.session \/ f.lease = x.lease)

LEMMA ExtendedSound ==
  ASSUME LeaseTyped, NEW own, NEW since, NEW x, HostSound(x, own, since),
         NEW f, f \in FrameType, FrameSound(f, own, since), NEW y, Extends(x, f, y)
  PROVE  HostSound(y, own, since)
<1>1. x \in HostType /\ f \in FrameType
  BY DEF HostSound
<1>2. Deadline(f) \in Int /\ Deadline(f) <= f.expires
  BY DEF FrameType, FrameSound, Deadline
<1>3. /\ y \in HostType /\ y.lease = f.lease /\ y.expires = Deadline(f) /\ y.session = x.session
      /\ y.order[1] = f.rev
  BY DEF Extends, Ord
<1>4. own[f.lease] = x.session
  BY DEF FrameSound, HostSound, Extends
<1>5. now \in Nat /\ device \in DeviceType
  BY DEF LeaseTyped
<1>6. Granted(own, f.lease, Deadline(f))
  BY <1>1, <1>2, <1>5 DEF FrameSound, Granted, FrameType, DeviceType
<1>7. f.lease = device.lease => f.rev >= since
  BY DEF FrameSound, Extends
<1>8. QED BY <1>3, <1>4, <1>6, <1>7 DEF HostSound, FrameSound

LEMMA NotOlder ==
  ASSUME NEW f \in FrameType, NEW o \in OrdType, ~Older(Ord(f), o)
  PROVE  f.rev >= o[1] /\ Ord(f)[1] = f.rev /\ Ord(f) \in OrdType
BY DEF FrameType, OrdType, Older, Ord

(* What a context made of a frame it has read.                             *)
Noted(x, y, f) ==
  /\ Dropped(x, y) /\ y.session = x.session
  /\ y.order = x.order \/ y.order[1] = f.rev

LEMMA ObservedSound ==
  ASSUME LeaseTyped, NEW own, NEW since, NEW x, HostSound(x, own, since), DeviceSound(device, own, since),
         NEW f \in FrameType, FrameSound(f, own, since)
  PROVE  HostSound(Observed(x, f), own, since) /\ Noted(x, Observed(x, f), f)
<1> DEFINE e == Expired(x)
           owned == f.lease # NoLease /\ f.owner = e.session
           seen == [e EXCEPT !.minRev = f.rev, !.order = Ord(f)]
           settled == IF e.lease # NoLease /\ ~(owned /\ f.lease = e.lease) THEN Cleared(seen) ELSE seen
<1>1. HostSound(e, own, since) /\ Noted(x, e, f) /\ e.session = x.session
        /\ (e = x \/ e.lease = NoLease)
  BY ExpiredSound DEF Noted
<1>2. Noted(x, x, f)
  BY DEF Noted, Dropped
<1>3. CASE f.session # x.session
  BY <1>2, <1>3 DEF Observed
<1>4. CASE f.session = x.session /\ (e.revoked \/ Older(Ord(f), e.order) \/ f.rev < e.minRev)
  BY <1>1, <1>4 DEF Observed
<1>5. CASE f.session = x.session /\ ~(e.revoked \/ Older(Ord(f), e.order) \/ f.rev < e.minRev)
  <2>1. Observed(x, f) = IF owned /\ settled.lease = f.lease
                         THEN [settled EXCEPT !.expires = Deadline(f)] ELSE settled
    BY <1>5 DEF Observed
  <2>2. e \in HostType /\ f \in FrameType /\ f.rev \in Nat /\ f.lease \in Nat
    BY <1>1 DEF HostSound, FrameType
  <2>3. f.rev >= e.order[1] /\ Ord(f)[1] = f.rev /\ Ord(f) \in OrdType
    BY <1>5, <2>2, NotOlder DEF HostType
  <2>4. /\ seen \in HostType /\ seen.lease = e.lease /\ seen.session = e.session /\ seen.order = Ord(f)
        /\ seen.expires = e.expires
    BY <2>2, <2>3 DEF HostType
  <2>5. CASE e.lease = NoLease
    <3>1. Observed(x, f) = seen
      BY <2>1, <2>4, <2>5
    <3>2. HostSound(seen, own, since)
      BY <1>1, <2>4, <2>5 DEF HostSound, Granted
    <3>3. Noted(x, seen, f)
      BY <1>1, <2>3, <2>4 DEF Noted, Dropped
    <3>4. QED BY <3>1, <3>2, <3>3
  <2>6. CASE e.lease # NoLease /\ owned /\ f.lease = e.lease
    <3>1. e.gen \in Nat
      BY <2>2 DEF HostType
    <3>2. Observed(x, f) = [seen EXCEPT !.expires = Deadline(f)]
      BY <2>1, <2>4, <2>6
    <3>3. Deadline(f) \in Int
      BY <2>2 DEF Deadline, FrameType
    <3>4. Extends(e, f, Observed(x, f))
      BY <2>2, <2>4, <2>6, <3>2, <3>3 DEF HostType, Extends
    <3>5. HostSound(Observed(x, f), own, since)
      BY <1>1, <2>2, <3>4, ExtendedSound
    <3>6. QED BY <1>1, <2>3, <2>6, <3>4, <3>5 DEF Noted, Dropped, Extends
  <2>7. CASE e.lease # NoLease /\ ~(owned /\ f.lease = e.lease)
    <3>1. settled = Cleared(seen) /\ Cleared(seen).lease = NoLease
      BY <2>4, <2>7 DEF Cleared, HostType
    <3>2. Observed(x, f) = Cleared(seen)
      BY <2>1, <3>1
    <3>3. device.lease # e.lease
      <4>1. SUFFICES ASSUME device.lease = e.lease PROVE FALSE
        OBVIOUS
      <4>2. e.order[1] >= since /\ e.order[1] \in Int /\ since \in Nat
        BY <1>1, <2>2, <2>7, <4>1 DEF HostSound, HostType, OrdType, DeviceSound
      <4>3. f.lease = e.lease
        BY <2>2, <2>3, <2>7, <4>1, <4>2 DEF FrameSound
      <4>4. f.owner = e.session
        BY <1>1, <2>7, <4>3 DEF HostSound, FrameSound
      <4>5. QED BY <2>7, <4>3, <4>4
    <3>4. /\ HostSound(Cleared(seen), own, since)
          /\ Cleared(seen).session = e.session /\ Cleared(seen).order = Ord(f)
      BY <2>4, ClearedSound, NoLeaseSound
    <3>5. QED BY <1>1, <2>3, <2>7, <3>1, <3>2, <3>3, <3>4 DEF Noted, Dropped
  <2>8. QED BY <2>5, <2>6, <2>7
<1>6. QED BY <1>3, <1>4, <1>5

LEMMA ConfirmedSound ==
  ASSUME LeaseTyped, NEW own, NEW since, NEW x, HostSound(x, own, since), DeviceSound(device, own, since),
         NEW f \in FrameType, FrameSound(f, own, since), NEW token, NEW lease
  PROVE  /\ HostSound(Confirmed(x, f, token, lease), own, since)
         /\ Noted(x, Confirmed(x, f, token, lease), f)
         /\ Confirmed(x, f, token, lease).order = x.order \/ f.session = x.session
<1> DEFINE e == Expired(x)
           y == Confirmed(x, f, token, lease)
<1>1. /\ HostSound(e, own, since) /\ Noted(x, e, f) /\ e.session = x.session
           /\ (e = x \/ e.lease = NoLease)
      /\ e.order = x.order
  BY ExpiredSound DEF Noted
<1>2. CASE ~Confirmable(e, f, token, lease)
  BY <1>1, <1>2 DEF Confirmed
<1>3. CASE Confirmable(e, f, token, lease)
  <2>1. PICK gen : gen = IF e.lease # lease THEN e.gen + 1 ELSE e.gen
    OBVIOUS
  <2>2. /\ lease # NoLease /\ f.lease = lease /\ f.owner = e.session /\ f.session = x.session
        /\ ~Older(Ord(f), e.order)
    BY <1>1, <1>3 DEF Confirmable
  <2>3. e \in HostType /\ gen \in Nat /\ f.rev \in Nat
    BY <1>1, <2>1 DEF HostSound, HostType, FrameType
  <2>4. y = [e EXCEPT !.lease = f.lease, !.expires = Deadline(f), !.minRev = f.rev,
                      !.order = Ord(f), !.gen = gen]
    BY <1>3, <2>1, <2>2, <2>3 DEF Confirmed, HostType
  <2>5. Extends(e, f, y)
    <3>1. Deadline(f) \in Int /\ Ord(f) \in OrdType /\ f.lease \in Nat
      BY DEF Deadline, FrameType, Ord, OrdType
    <3>2. y \in HostType
      BY <2>3, <2>4, <3>1 DEF HostType
    <3>3. QED BY <2>2, <2>3, <2>4, <3>2 DEF HostType, Extends
  <2>6. HostSound(y, own, since)
    BY <1>1, <2>5, ExtendedSound
  <2>7. f.rev >= e.order[1] /\ Ord(f)[1] = f.rev
    BY <2>2, <2>3, NotOlder DEF HostType
  <2>8. e.lease # NoLease /\ f.lease # e.lease => device.lease # e.lease
    <3>1. SUFFICES ASSUME e.lease # NoLease, f.lease # e.lease, device.lease = e.lease PROVE FALSE
      OBVIOUS
    <3>2. e.order[1] >= since /\ e.order[1] \in Int /\ since \in Nat
      BY <1>1, <2>3, <3>1 DEF HostSound, HostType, OrdType, DeviceSound
    <3>3. QED BY <2>3, <2>7, <3>1, <3>2 DEF FrameSound
  <2>9. Noted(x, y, f)
    BY <1>1, <2>5, <2>7, <2>8 DEF Noted, Dropped, Extends
  <2>10. QED BY <2>2, <2>6, <2>9
<1>4. QED BY <1>2, <1>3

LEMMA RenewedSound ==
  ASSUME LeaseTyped, NEW own, NEW since, NEW x, HostSound(x, own, since), DeviceSound(device, own, since),
         NEW f \in FrameType, FrameSound(f, own, since), NEW token, NEW asked,
         asked \in {NoLease, token[2]}, ~BeatRefused(x, f, token, asked)
  PROVE  HostSound(Renewed(x, f, token, asked), own, since) /\ Noted(x, Renewed(x, f, token, asked), f)
<1> DEFINE minRev == IF f.rev > x.minRev THEN f.rev ELSE x.minRev
           e == [x EXCEPT !.minRev = minRev]
           y == Renewed(x, f, token, asked)
<1>1. x \in HostType /\ minRev \in Nat /\ x.gen \in Nat
  BY DEF HostSound, HostType, FrameType
<1>2. CASE asked = NoLease \/ token # Token(x) \/ Older(Ord(f), x.order)
  <2>1. y = e
    BY <1>2 DEF Renewed
  <2>2. /\ e \in HostType /\ e.lease = x.lease /\ e.expires = x.expires /\ e.session = x.session
        /\ e.order = x.order
    BY <1>1 DEF HostType
  <2>3. QED BY <2>1, <2>2 DEF HostSound, Noted, Dropped
<1>3. CASE ~(asked = NoLease \/ token # Token(x) \/ Older(Ord(f), x.order))
  <2>1. y = [e EXCEPT !.order = Ord(f), !.expires = Deadline(f)]
    BY <1>3 DEF Renewed
  <2>2. asked # NoLease /\ token[2] = x.lease /\ f.lease = x.lease
    BY <1>3 DEF BeatRefused, Token
  <2>3. y = [x EXCEPT !.lease = f.lease, !.expires = Deadline(f), !.minRev = minRev,
                      !.order = Ord(f), !.gen = x.gen]
    BY <1>1, <2>1, <2>2 DEF HostType
  <2>4. Extends(x, f, y)
    <3>1. Deadline(f) \in Int /\ Ord(f) \in OrdType /\ f.lease \in Nat
      BY DEF Deadline, FrameType, Ord, OrdType
    <3>2. y \in HostType
      BY <1>1, <2>3, <3>1 DEF HostType
    <3>3. QED BY <1>1, <2>2, <2>3, <3>2 DEF HostType, Extends
  <2>5. HostSound(y, own, since)
    BY <2>4, ExtendedSound
  <2>6. QED BY <2>2, <2>4, <2>5 DEF Noted, Dropped, Ord, Extends
<1>4. QED BY <1>2, <1>3

-----------------------------------------------------------------------------
(* The host's own steps.                                                   *)

SameRequest(r, q) ==
  r.session = q.session /\ r.started = q.started /\ r.kind = q.kind /\ r.lease = q.lease
    /\ r.token = q.token
SameAnswer(x, y) == x.frame = y.frame /\ x.req.kind = y.req.kind /\ SameRequest(x.req, y.req)

(* A step of the host that neither the device nor the clock sees, and that *)
(* reads no more than what arrived.                                        *)
HostOnly == UNCHANGED <<now, open, opened, device, tail>> /\ h'.session = h.session

LEMMA NoFrameSound ==
  ASSUME LeaseTyped, NEW own, NEW since, DeviceSound(device, own, since)
  PROVE  FrameSound(NoFrame, own, since) /\ NoFrame \in FrameType
BY DEF LeaseTyped, DeviceType, DeviceSound, FrameSound, FrameType, NoFrame, NoLease, NoSession, Granted

LEMMA HostStep ==
  ASSUME NEW own, NEW since, LeaseKept(own, since), HostOnly, LeaseTyped', HostSound(h, own, since)',
         h.session = NoSession => out' = <<>> /\ in' = <<>>,
         \A x \in Elems(in)' : \E y \in Elems(in) : SameAnswer(x, y),
         \A r \in Elems(out)' : RequestSound(r) \/ \E q \in Elems(out) : SameRequest(r, q),
         Sorted(in)', h'.order[1] <= device.rev,
         \A x \in Elems(in)' : h'.order[1] <= x.frame.rev,
         \A f \in ReadFrames' :
           \/ f \in ReadFrames \/ f = NoFrame
           \/ f \in Told /\ \A x \in Elems(in)' : f.rev <= x.frame.rev
  PROVE  LeaseKept(own, since)'
<1>1. SessionsSound'
  BY DEF LeaseKept, SessionsSound, HostOnly, Elems
<1>2. DeviceSound(device, own, since)'
  BY DEF LeaseKept, DeviceSound, HostOnly
<1>3. \A f \in Told' : f \in Told \cup {NoFrame}
  BY DEF Told, SameAnswer
<1>4. \A f \in Told' : FrameSound(f, own, since)'
  <2>1. \A f \in Told \cup {NoFrame} : FrameSound(f, own, since)
    BY NoFrameSound DEF LeaseKept
  <2>2. \A f : FrameSound(f, own, since) => FrameSound(f, own, since)'
    BY DEF FrameSound, Granted, HostOnly
  <2>3. QED BY <1>3, <2>1, <2>2
<1>5. \A r \in Asked' : RequestSound(r)'
  <2>1. \A r : (RequestSound(r) \/ \E q \in Asked : SameRequest(r, q)) => RequestSound(r)'
    BY DEF RequestSound, HostOnly, LeaseKept, SameRequest
  <2>2. \A r \in Asked' : RequestSound(r) \/ \E q \in Asked : SameRequest(r, q)
    BY DEF Asked, SameAnswer
  <2>3. QED BY <2>1, <2>2
<1>6. \A x \in Elems(in)' : AnswerSound(x)'
  <2>1. \A x, y : SameAnswer(x, y) /\ AnswerSound(y) => AnswerSound(x)'
    BY DEF AnswerSound, SameAnswer, HostOnly
  <2>2. QED BY <2>1 DEF LeaseKept
<1>7. ReadInOrder'
  <2>1. Sorted(in)' /\ h'.order[1] <= device'.rev /\ \A x \in Elems(in)' : h'.order[1] <= x.frame.rev
    BY DEF HostOnly
  <2>2. ASSUME NEW f \in ReadFrames', NEW x \in Elems(in)', f.session = h'.session
        PROVE  f.rev <= x.frame.rev
    <3>1. PICK y \in Elems(in) : x.frame = y.frame
      BY DEF SameAnswer
    <3>2. y.frame \in FrameType
      <4>1. y \in AnswerType
        BY ElemsTyped DEF LeaseKept, LeaseTyped
      <4>2. QED BY <4>1 DEF AnswerType
    <3>3. CASE f \in ReadFrames
      BY <2>2, <3>1, <3>3 DEF LeaseKept, ReadInOrder, HostOnly
    <3>4. CASE f = NoFrame
      BY <3>1, <3>2, <3>4 DEF NoFrame, FrameType
    <3>5. QED BY <3>3, <3>4
  <2>3. QED BY <2>1, <2>2 DEF ReadInOrder
<1>8. QED BY <1>1, <1>2, <1>4, <1>5, <1>6, <1>7 DEF LeaseKept

Asks(r) == out' = Append(out, r) /\ r \in RequestType /\ RequestSound(r) /\ h.session # NoSession

LEMMA AskedElems ==
  ASSUME LeaseTyped, out' = out \/ \E r : Asks(r)
  PROVE  \A q \in Elems(out)' : RequestSound(q) \/ \E p \in Elems(out) : SameRequest(q, p)
<1>1. CASE out' = out
  BY <1>1 DEF SameRequest, Elems
<1>2. ASSUME NEW r, Asks(r)
      PROVE  \A q \in Elems(out)' : RequestSound(q) \/ \E p \in Elems(out) : SameRequest(q, p)
  <2>1. out \in Seq(RequestType) /\ r \in RequestType
    BY <1>2 DEF LeaseTyped, Asks
  <2>2. Elems(Append(out, r)) = Elems(out) \cup {r}
    BY <2>1, AppendElems
  <2>3. Elems(out)' = Elems(out) \cup {r}
    BY <1>2, <2>2 DEF Asks, Elems
  <2>4. QED BY <1>2, <2>3 DEF Asks, SameRequest
<1>3. QED BY <1>1, <1>2

LEMMA KeepAnswers ==
  ASSUME NEW own, NEW since, LeaseKept(own, since), HostOnly, in' = in, LeaseTyped',
         HostSound(h, own, since)', out' = out \/ \E r : Asks(r),
         h' = h \/ \E f \in ReadFrames :
           Noted(h, h', f) /\ (h'.order = h.order \/ f.session = h.session),
         ReadFrames' \subseteq ReadFrames \cup {NoFrame}
  PROVE  LeaseKept(own, since)'
<1>1. h.session = NoSession => out' = <<>> /\ in' = <<>>
  BY DEF LeaseKept, SessionsSound, Asks
<1>2. Elems(in)' = Elems(in) /\ Sorted(in)'
  BY DEF LeaseKept, ReadInOrder, Elems, Sorted
<1>3. h'.order[1] <= device.rev /\ \A x \in Elems(in) : h'.order[1] <= x.frame.rev
  <2>1. CASE h'.order = h.order
    BY <2>1 DEF LeaseKept, ReadInOrder
  <2>2. ASSUME NEW f \in ReadFrames, h'.order[1] = f.rev, f.session = h.session
        PROVE  h'.order[1] <= device.rev /\ \A x \in Elems(in) : h'.order[1] <= x.frame.rev
    BY <2>2 DEF LeaseKept, ReadInOrder, Told, FrameSound
  <2>3. QED BY <2>1, <2>2 DEF Noted
<1>4. \A x \in Elems(in)' : \E y \in Elems(in) : SameAnswer(x, y)
  BY <1>2 DEF SameAnswer, SameRequest
<1>5. \A q \in Elems(out)' : RequestSound(q) \/ \E p \in Elems(out) : SameRequest(q, p)
  BY AskedElems DEF LeaseKept
<1>6. \A f \in ReadFrames' : f \in ReadFrames \/ f = NoFrame
  OBVIOUS
<1>7. QED BY <1>1, <1>2, <1>3, <1>4, <1>5, <1>6, HostStep

LEMMA TakeAnswer ==
  ASSUME NEW own, NEW since, LeaseKept(own, since), HostOnly, in # <<>>, in' = Tail(in), LeaseTyped',
         HostSound(h, own, since)', out' = out \/ \E r : Asks(r),
         h' = h \/ Noted(h, h', Head(in).frame),
         ReadFrames' \subseteq ReadFrames \cup {Head(in).frame}
  PROVE  LeaseKept(own, since)'
<1> DEFINE f == Head(in).frame
<1>1. h.session = NoSession => out' = <<>> /\ in' = <<>>
  BY DEF LeaseKept, SessionsSound, Asks
<1>2. /\ in \in Seq(AnswerType) /\ Head(in) \in Elems(in) /\ Elems(Tail(in)) \subseteq Elems(in)
      /\ Sorted(in)
  BY TailElems DEF LeaseKept, LeaseTyped, ReadInOrder
<1>3. Sorted(Tail(in)) /\ \A x \in Elems(Tail(in)) : f.rev <= x.frame.rev
  BY <1>2, TailSorted
<1>4. /\ Elems(in)' \subseteq Elems(in) /\ Sorted(in)'
      /\ \A x \in Elems(in)' : f.rev <= x.frame.rev
  BY <1>2, <1>3 DEF Elems, Sorted
<1>5. f \in Told /\ f.rev <= device.rev
  BY <1>2 DEF Told, LeaseKept, FrameSound
<1>6. h'.order[1] <= device.rev /\ \A x \in Elems(in)' : h'.order[1] <= x.frame.rev
  <2>1. h'.order = h.order \/ h'.order[1] = f.rev
    BY DEF Noted
  <2>2. QED BY <1>4, <1>5, <2>1 DEF LeaseKept, ReadInOrder
<1>7. \A x \in Elems(in)' : \E y \in Elems(in) : SameAnswer(x, y)
  BY <1>4 DEF SameAnswer, SameRequest
<1>8. \A q \in Elems(out)' : RequestSound(q) \/ \E p \in Elems(out) : SameRequest(q, p)
  BY AskedElems DEF LeaseKept
<1>9. \A g \in ReadFrames' :
         g \in ReadFrames \/ g = NoFrame \/ (g \in Told /\ \A x \in Elems(in)' : g.rev <= x.frame.rev)
  BY <1>4, <1>5
<1>10. QED BY <1>1, <1>4, <1>6, <1>7, <1>8, <1>9, HostStep

(* The session is left: nothing of it is pending, and what was written may *)
(* still reach the device.                                                 *)
LEMMA DropKept ==
  ASSUME NEW own, NEW since, LeaseKept(own, since), NEW context, context.gen \in Nat,
         DropSession(context), UNCHANGED <<now, open>>
  PROVE  LeaseKept(own, since)' /\ h'.session = NoSession
<1>1. /\ h' \in HostType /\ h'.lease = NoLease /\ h'.session = NoSession /\ h'.order[1] = -1
  <2>1. context.gen + 1 \in Nat /\ <<-1, -1>> \in OrdType
    BY DEF OrdType
  <2>2. h' = ResetTo(context, NoSession)
    BY DEF DropSession
  <2>3. QED BY <2>1, <2>2 DEF ResetTo, HostType, NoSession, NoLease
<1>2. /\ UNCHANGED <<now, open, opened, device, shown, claims>>
      /\ out' = <<>> /\ in' = <<>> /\ order' = NoOrder /\ release' = NoRelease /\ tail' = tail \o out
  BY DEF DropSession
<1>3. LeaseTyped /\ SessionsSound /\ ReadInOrder /\ DeviceSound(device, own, since)
  BY DEF LeaseKept
<1>4. tail' \in Seq(RequestType) /\ Elems(tail)' \subseteq Elems(tail) \cup Elems(out)
  <2>1. tail \in Seq(RequestType) /\ out \in Seq(RequestType)
    BY <1>3 DEF LeaseTyped
  <2>2. tail \o out \in Seq(RequestType) /\ Elems(tail \o out) \subseteq Elems(tail) \cup Elems(out)
    BY <2>1, JoinElems
  <2>3. QED BY <1>2, <2>2 DEF Elems
<1>5. LeaseTyped'
  <2>1. /\ NoOrder \in OrderType /\ NoOrder.stage # "prepared"
        /\ NoRelease \in [stage : {"none", "quiescing", "submitted"}, token : TokenType]
    BY DEF NoOrder, NoRelease, OrderType, TokenType, NoLease
  <2>2. <<>> \in Seq(RequestType) /\ <<>> \in Seq(AnswerType)
    OBVIOUS
  <2>3. QED BY <1>2, <1>3, <1>4, <2>1, <2>2 DEF LeaseTyped
<1>6. Elems(out)' = {} /\ Elems(in)' = {}
  BY <1>2 DEF Elems
<1>7. SessionsSound'
  <2>1. \A r \in Elems(out) : r.session = h.session /\ h.session # NoSession
    <3>1. h.session = NoSession => Elems(out) = {}
      BY <1>3 DEF SessionsSound, Elems
    <3>2. QED BY <3>1 DEF LeaseKept, RequestSound, Asked
  <2>2. NoSession <= opened
    BY <1>3 DEF LeaseTyped, NoSession
  <2>3. QED BY <1>1, <1>2, <1>3, <1>4, <2>1, <2>2 DEF SessionsSound
<1>8. ReadInOrder'
  <2>1. Sorted(in)'
    BY <1>2 DEF Sorted
  <2>2. -1 <= device.rev
    BY <1>3 DEF LeaseTyped, DeviceType
  <2>3. QED BY <1>1, <1>2, <1>6, <2>1, <2>2 DEF ReadInOrder
<1>9. HostSound(h, own, since)'
  <2>1. HostSound(h', own, since)
    BY <1>1, <1>3, NoLeaseSound
  <2>2. QED BY <1>2, <2>1 DEF HostSound, Granted
<1>10. DeviceSound(device, own, since)'
  BY <1>2, <1>3 DEF DeviceSound
<1>11. \A f \in Told' : FrameSound(f, own, since)'
  <2>1. Told' \subseteq Told
    BY <1>2, <1>6 DEF Told, ReadFrames
  <2>2. \A f : FrameSound(f, own, since) => FrameSound(f, own, since)'
    BY <1>2 DEF FrameSound, Granted
  <2>3. QED BY <2>1, <2>2 DEF LeaseKept
<1>12. Asked' = {}
  BY <1>6 DEF Asked
<1>13. QED BY <1>1, <1>5, <1>6, <1>7, <1>8, <1>9, <1>10, <1>11, <1>12 DEF LeaseKept

-----------------------------------------------------------------------------
(* One lemma for every action of the host.                                 *)

LEMMA HostKept ==
  ASSUME NEW own, NEW since, NEW x, HostSound(x, own, since), HostOnly, h' = x
  PROVE  HostSound(h, own, since)'
BY DEF HostSound, Granted, HostOnly

LEMMA TokenTyped ==
  ASSUME NEW x \in HostType
  PROVE  Token(x) \in TokenType
BY DEF HostType, TokenType, Token

LEMMA RequestTyped ==
  ASSUME NEW own, NEW since, LeaseKept(own, since),
         NEW kind \in {"acquire", "command", "release", "heartbeat", "status", "ownership"},
         NEW lease \in Nat, NEW rev \in Nat, NEW token \in TokenType,
         kind = "heartbeat" => lease \in {NoLease, token[2]},
         NEW r, r = [Request(kind, lease, rev) EXCEPT !.token = token]
  PROVE  r \in RequestType /\ RequestSound(r) /\ r.token = token
<1>1. h.session \in Nat /\ now \in Nat /\ now <= now
  BY DEF LeaseKept, HostSound, HostType, LeaseTyped
<1>2. PICK q : q = Request(kind, lease, rev)
  OBVIOUS
<1>3. q = [kind |-> kind, lease |-> lease, rev |-> rev, session |-> h.session, started |-> now,
           token |-> Token(h), live |-> TRUE]
  BY <1>2 DEF Request
<1>4. r = [q EXCEPT !.token = token]
  BY <1>2
<1>5. QED BY <1>1, <1>3, <1>4 DEF RequestType, RequestSound

LEMMA PlainRequest ==
  ASSUME NEW own, NEW since, LeaseKept(own, since),
         NEW kind \in {"acquire", "command", "release", "heartbeat", "status", "ownership"},
         NEW lease \in Nat, NEW rev \in Nat, kind = "heartbeat" => lease \in {NoLease, h.lease}
  PROVE  Request(kind, lease, rev) \in RequestType /\ RequestSound(Request(kind, lease, rev))
<1>1. h \in HostType /\ now \in Nat /\ now <= now /\ h.session \in Nat
  BY DEF LeaseKept, HostSound, HostType, LeaseTyped
<1>2. Token(h) \in TokenType /\ Token(h)[2] = h.lease
  BY <1>1, TokenTyped DEF Token
<1>3. PICK r : r = Request(kind, lease, rev)
  OBVIOUS
<1>4. r = [kind |-> kind, lease |-> lease, rev |-> rev, session |-> h.session, started |-> now,
           token |-> Token(h), live |-> TRUE]
  BY <1>3 DEF Request
<1>5. r \in RequestType /\ RequestSound(r)
  BY <1>1, <1>2, <1>4 DEF RequestType, RequestSound
<1>6. QED BY <1>3, <1>5

LEMMA SendHeartbeatKept ==
  ASSUME NEW own, NEW since, LeaseKept(own, since), SendHeartbeat
  PROVE  LeaseKept(own, since)'
<1> DEFINE l == IF h.paused THEN NoLease ELSE h.lease
<1>1. l \in Nat /\ h \in HostType
  BY DEF LeaseKept, HostSound, HostType, NoLease
<1>2. Asks(Request("heartbeat", l, 0))
  BY <1>1, PlainRequest DEF Asks, SendHeartbeat
<1>3. HostOnly /\ in' = in /\ h' = h /\ ReadFrames' = ReadFrames
  BY DEF SendHeartbeat, HostOnly, ReadFrames
<1>4. HostSound(h, own, since)'
  BY <1>3, HostKept DEF LeaseKept
<1>5. out' \in Seq(RequestType)
  BY <1>2, AppendElems DEF Asks, LeaseKept, LeaseTyped
<1>6. LeaseTyped'
  BY <1>5 DEF LeaseTyped, SendHeartbeat, LeaseKept
<1>7. QED BY <1>2, <1>3, <1>4, <1>6, KeepAnswers

LEMMA ReadStatusKept ==
  ASSUME NEW own, NEW since, LeaseKept(own, since), ReadStatus
  PROVE  LeaseKept(own, since)'
<1>1. NoLease \in Nat
  BY DEF NoLease
<1>2. Asks(Request("status", NoLease, 0))
  BY <1>1, PlainRequest DEF Asks, ReadStatus
<1>3. HostOnly /\ in' = in /\ h' = h /\ ReadFrames' = ReadFrames
  BY DEF ReadStatus, HostOnly, ReadFrames
<1>4. HostSound(h, own, since)'
  BY <1>3, HostKept DEF LeaseKept
<1>5. out' \in Seq(RequestType)
  BY <1>2, AppendElems DEF Asks, LeaseKept, LeaseTyped
<1>6. LeaseTyped'
  BY <1>5 DEF LeaseTyped, ReadStatus, LeaseKept
<1>7. QED BY <1>2, <1>3, <1>4, <1>6, KeepAnswers

LEMMA BeginOrderKept ==
  ASSUME NEW own, NEW since, LeaseKept(own, since), BeginAcquire \/ BeginCommand
  PROVE  LeaseKept(own, since)'
<1>1. h \in HostType /\ h.lease \in Nat /\ shown.rev \in Nat /\ Token(h) \in TokenType
  BY TokenTyped DEF LeaseKept, HostSound, HostType, LeaseTyped, FrameType
<1>2. order' \in OrderType /\ order'.kind # "none"
  BY <1>1 DEF BeginAcquire, BeginCommand, OrderType, NoLease
<1>3. UNCHANGED <<now, h, claims, release, rest, device, open, wire>>
  BY DEF BeginAcquire, BeginCommand
<1>4. HostOnly /\ in' = in /\ out' = out /\ h' = h /\ ReadFrames' = ReadFrames
  BY <1>3 DEF HostOnly, ReadFrames, rest, wire
<1>5. HostSound(h, own, since)'
  BY <1>4, HostKept DEF LeaseKept
<1>6. LeaseTyped'
  BY <1>2, <1>3 DEF LeaseTyped, LeaseKept, rest, wire
<1>7. QED BY <1>4, <1>5, <1>6, KeepAnswers

LEMMA BeginReleaseKept ==
  ASSUME NEW own, NEW since, LeaseKept(own, since), BeginRelease
  PROVE  LeaseKept(own, since)' /\ h'.lease = h.lease
<1>1. h \in HostType /\ Token(h) \in TokenType /\ HostSound(h, own, since)
  BY TokenTyped DEF LeaseKept, HostSound
<1>2. PICK x : x = [h EXCEPT !.paused = TRUE]
  OBVIOUS
<1>3. /\ x \in HostType /\ x.lease = h.lease /\ x.session = h.session /\ x.order = h.order
      /\ x.expires = h.expires
  BY <1>1, <1>2 DEF HostType
<1>4. HostSound(x, own, since)
  BY <1>1, <1>3 DEF HostSound
<1>5. h' = x /\ UNCHANGED <<now, order, claims, rest, device, open, wire>>
  BY <1>2 DEF BeginRelease
<1>6. HostOnly /\ in' = in /\ out' = out /\ ReadFrames' = ReadFrames /\ h'.order = h.order
  BY <1>3, <1>5 DEF HostOnly, ReadFrames, rest, wire
<1>7. HostSound(h, own, since)'
  BY <1>4, <1>5, <1>6, HostKept
<1>8. release' \in [stage : {"none", "quiescing", "submitted"}, token : TokenType]
  BY <1>1 DEF BeginRelease
<1>9. LeaseTyped'
  BY <1>5, <1>8 DEF LeaseTyped, LeaseKept, rest, wire
<1>10. shown \in ReadFrames
  BY DEF ReadFrames
<1>11. shown.session = h.session /\ Noted(h, h', shown)
  BY <1>3, <1>5 DEF BeginRelease, Current, Noted, Dropped
<1>12. QED BY <1>3, <1>5, <1>6, <1>7, <1>9, <1>10, <1>11, KeepAnswers

LEMMA WriteKept ==
  ASSUME NEW own, NEW since, LeaseKept(own, since), Write
  PROVE  LeaseKept(own, since)'
<1>1. order \in OrderType /\ order.kind \in {"acquire", "command", "release"}
      /\ order.lease \in Nat /\ order.rev \in Nat
  BY DEF LeaseKept, LeaseTyped, Write, OrderType
<1>2. Asks(Request(order.kind, order.lease, order.rev))
  BY <1>1, PlainRequest DEF Asks, Write
<1>3. HostOnly /\ in' = in /\ h' = h /\ ReadFrames' = ReadFrames
  BY DEF Write, HostOnly, ReadFrames
<1>4. HostSound(h, own, since)'
  BY <1>3, HostKept DEF LeaseKept
<1>5. out' \in Seq(RequestType)
  BY <1>2, AppendElems DEF Asks, LeaseKept, LeaseTyped
<1>6. order' \in OrderType /\ order'.stage # "prepared"
  BY <1>1 DEF Write, OrderType
<1>7. LeaseTyped'
  BY <1>5, <1>6 DEF LeaseTyped, Write, LeaseKept
<1>8. QED BY <1>2, <1>3, <1>4, <1>7, KeepAnswers

LEMMA FailReleaseKept ==
  ASSUME NEW own, NEW since, LeaseKept(own, since), NEW token, FailRelease(token), UNCHANGED <<now, open>>
  PROVE  LeaseKept(own, since)' /\ (h' = h \/ h'.session = NoSession)
<1>1. h \in HostType /\ h.gen \in Nat
  BY DEF LeaseKept, HostSound, HostType
<1>2. CASE token = Token(h)
  BY <1>1, <1>2, DropKept DEF FailRelease
<1>3. CASE token # Token(h)
  <2>1. /\ UNCHANGED <<now, h, claims, rest, device, open, wire>>
        /\ order' = NoOrder /\ release' = NoRelease
    BY <1>3 DEF FailRelease
  <2>2. HostOnly /\ in' = in /\ out' = out /\ h' = h /\ ReadFrames' = ReadFrames
    BY <2>1 DEF HostOnly, ReadFrames, rest, wire
  <2>3. HostSound(h, own, since)'
    BY <2>2, HostKept DEF LeaseKept
  <2>4. /\ NoOrder \in OrderType /\ NoOrder.stage # "prepared"
        /\ NoRelease \in [stage : {"none", "quiescing", "submitted"}, token : TokenType]
    BY DEF NoOrder, NoRelease, OrderType, TokenType, NoLease
  <2>5. LeaseTyped'
    BY <2>1, <2>4 DEF LeaseTyped, LeaseKept, rest, wire
  <2>6. QED BY <2>2, <2>3, <2>5, KeepAnswers
<1>4. QED BY <1>2, <1>3

LEMMA OrderEndKept ==
  ASSUME NEW own, NEW since, LeaseKept(own, since), order' = NoOrder,
         UNCHANGED <<now, h, claims, release, rest, device, open, wire>>
  PROVE  LeaseKept(own, since)'
<1>1. HostOnly /\ in' = in /\ out' = out /\ h' = h /\ ReadFrames' = ReadFrames
  BY DEF HostOnly, ReadFrames, rest, wire
<1>2. HostSound(h, own, since)'
  BY <1>1, HostKept DEF LeaseKept
<1>3. NoOrder \in OrderType /\ NoOrder.stage # "prepared"
  BY DEF NoOrder, OrderType, TokenType, NoLease
<1>4. LeaseTyped'
  BY <1>3 DEF LeaseTyped, LeaseKept, rest, wire
<1>5. QED BY <1>1, <1>2, <1>4, KeepAnswers

LEMMA FinishQuiesceKept ==
  ASSUME NEW own, NEW since, LeaseKept(own, since), FinishQuiesce
  PROVE  LeaseKept(own, since)' /\ (h' = h \/ h'.session = NoSession)
<1>1. h \in HostType /\ h.gen \in Nat /\ h.lease \in Nat /\ shown.rev \in Nat
      /\ release \in [stage : {"none", "quiescing", "submitted"}, token : TokenType]
  BY DEF LeaseKept, HostSound, HostType, LeaseTyped, FrameType
<1>2. CASE release.token = Token(h) /\ order = NoOrder
  <2>1. /\ UNCHANGED <<now, h, claims, rest, device, open, wire>>
        /\ release' = [release EXCEPT !.stage = "submitted"]
        /\ order' = [kind |-> "release", stage |-> "prepared", lease |-> h.lease,
                     rev |-> shown.rev, token |-> release.token]
    BY <1>2 DEF FinishQuiesce
  <2>2. HostOnly /\ in' = in /\ out' = out /\ h' = h /\ ReadFrames' = ReadFrames
    BY <2>1 DEF HostOnly, ReadFrames, rest, wire
  <2>3. HostSound(h, own, since)'
    BY <2>2, HostKept DEF LeaseKept
  <2>4. /\ order' \in OrderType /\ order'.kind # "none"
        /\ release' \in [stage : {"none", "quiescing", "submitted"}, token : TokenType]
    BY <1>1, <2>1 DEF OrderType
  <2>5. LeaseTyped'
    BY <2>1, <2>4 DEF LeaseTyped, LeaseKept, rest, wire
  <2>6. QED BY <2>2, <2>3, <2>5, KeepAnswers
<1>3. CASE release.token = Token(h) /\ order # NoOrder
  <2>1. DropSession(h) /\ UNCHANGED <<now, open>>
    BY <1>3 DEF FinishQuiesce
  <2>2. QED BY <1>1, <2>1, DropKept
<1>4. CASE release.token # Token(h)
  <2>1. UNCHANGED <<now, h, order, claims, rest, device, open, wire>> /\ release' = NoRelease
    BY <1>4 DEF FinishQuiesce
  <2>2. HostOnly /\ in' = in /\ out' = out /\ h' = h /\ ReadFrames' = ReadFrames
    BY <2>1 DEF HostOnly, ReadFrames, rest, wire
  <2>3. HostSound(h, own, since)'
    BY <2>2, HostKept DEF LeaseKept
  <2>4. NoRelease \in [stage : {"none", "quiescing", "submitted"}, token : TokenType]
    BY DEF NoRelease, TokenType
  <2>5. LeaseTyped'
    BY <2>1, <2>4 DEF LeaseTyped, LeaseKept, rest, wire
  <2>6. QED BY <2>2, <2>3, <2>5, KeepAnswers
<1>5. QED BY <1>2, <1>3, <1>4

LEMMA RefuseWriteKept ==
  ASSUME NEW own, NEW since, LeaseKept(own, since), RefuseWrite
  PROVE  LeaseKept(own, since)' /\ (h' = h \/ h'.session = NoSession)
<1>1. CASE order.kind = "release"
  BY <1>1, FailReleaseKept DEF RefuseWrite
<1>2. CASE order.kind # "release"
  BY <1>2, OrderEndKept DEF RefuseWrite
<1>3. QED BY <1>1, <1>2

(* The command is given up, and its answer will be dropped.                *)
LEMMA TimeoutOrderKept ==
  ASSUME NEW own, NEW since, LeaseKept(own, since), TimeoutOrder
  PROVE  LeaseKept(own, since)' /\ (h' = h \/ h'.session = NoSession)
<1>1. CASE order.kind = "release"
  BY <1>1, FailReleaseKept DEF TimeoutOrder
<1>2. CASE order.kind # "release"
  <2>1. /\ order' = NoOrder /\ UNCHANGED <<now, h, claims, release, rest, device, open, tail>>
        /\ out' = [i \in 1..Len(out) |-> Retire(out[i])]
        /\ in' = [i \in 1..Len(in) |-> [in[i] EXCEPT !.req = Retire(in[i].req)]]
    BY <1>2 DEF TimeoutOrder
  <2>2. out \in Seq(RequestType) /\ in \in Seq(AnswerType) /\ SessionsSound /\ ReadInOrder
    BY DEF LeaseKept, LeaseTyped
  <2>3. \A r \in RequestType : Retire(r) \in RequestType /\ SameRequest(Retire(r), r)
    BY DEF Retire, RequestType, SameRequest
  <2>4. /\ out' \in Seq(RequestType)
        /\ \A i \in 1..Len(out) : out[i] \in RequestType /\ out'[i] = Retire(out[i])
        /\ DOMAIN out' = 1..Len(out)
    BY <2>1, <2>2, <2>3
  <2>5. ASSUME NEW i \in 1..Len(in)
        PROVE  in'[i] \in AnswerType /\ SameAnswer(in'[i], in[i])
    <3>1. in[i] \in AnswerType /\ in[i].req \in RequestType
            /\ in'[i] = [in[i] EXCEPT !.req = Retire(in[i].req)]
      <4>1. in[i] \in AnswerType
        BY <2>2
      <4>2. in[i].req \in RequestType
        BY <4>1 DEF AnswerType
      <4>3. QED BY <2>1, <4>1, <4>2
    <3>2. PICK q : q = Retire(in[i].req)
      OBVIOUS
    <3>3. q \in RequestType /\ SameRequest(q, in[i].req)
      BY <2>3, <3>1, <3>2
    <3>4. in'[i] \in AnswerType /\ in'[i].frame = in[i].frame /\ in'[i].req = q
      BY <3>1, <3>2, <3>3 DEF AnswerType
    <3>5. QED BY <3>3, <3>4 DEF SameAnswer, SameRequest
  <2>6. in' \in Seq(AnswerType) /\ DOMAIN in' = 1..Len(in) /\ DOMAIN in = 1..Len(in)
    BY <2>1, <2>2, <2>5
  <2>7. HostOnly /\ ReadFrames' = ReadFrames /\ h' = h
    BY <2>1 DEF HostOnly, ReadFrames, rest
  <2>8. HostSound(h, own, since)'
    BY <2>7, HostKept DEF LeaseKept
  <2>9. LeaseTyped'
    <3>1. NoOrder \in OrderType /\ NoOrder.stage # "prepared"
      BY DEF NoOrder, OrderType, TokenType, NoLease
    <3>2. QED BY <2>1, <2>4, <2>6, <3>1 DEF LeaseTyped, LeaseKept, rest
  <2>10. h.session = NoSession => out' = <<>> /\ in' = <<>>
    <3>1. h.session = NoSession => Len(out) = 0 /\ Len(in) = 0
      BY <2>2 DEF SessionsSound
    <3>2. QED BY <2>1, <3>1
  <2>11. \A x \in Elems(in)' : \E y \in Elems(in) : SameAnswer(x, y)
    BY <2>5, <2>6 DEF Elems
  <2>12. \A r \in Elems(out)' : \E q \in Elems(out) : SameRequest(r, q)
    BY <2>2, <2>3, <2>4 DEF Elems
  <2>13. Sorted(in)' /\ h'.order[1] <= device.rev /\ \A x \in Elems(in)' : h'.order[1] <= x.frame.rev
    <3>1. Sorted(in)'
      BY <2>2, <2>5, <2>6 DEF ReadInOrder, Sorted, SameAnswer
    <3>2. \A x \in Elems(in)' : h.order[1] <= x.frame.rev
      BY <2>2, <2>11 DEF ReadInOrder, SameAnswer
    <3>3. QED BY <2>2, <2>7, <3>1, <3>2 DEF ReadInOrder
  <2>14. QED BY <2>7, <2>8, <2>9, <2>10, <2>11, <2>12, <2>13, HostStep
<1>3. QED BY <1>1, <1>2

LEMMA RememberedKept ==
  ASSUME NEW own, NEW since, LeaseKept(own, since), LearnGrant \/ ForgetStatus
  PROVE  LeaseKept(own, since)'
<1>1. HostOnly /\ in' = in /\ out' = out /\ h' = h /\ ReadFrames' \subseteq ReadFrames \cup {NoFrame}
  BY DEF HostOnly, ReadFrames, LearnGrant, ForgetStatus, wire
<1>2. HostSound(h, own, since)'
  BY <1>1, HostKept DEF LeaseKept
<1>3. NoFrame \in FrameType
  BY NoFrameSound DEF LeaseKept
<1>4. LeaseTyped'
  BY <1>1, <1>3 DEF LeaseTyped, LeaseKept, HostOnly, LearnGrant, ForgetStatus
<1>5. QED BY <1>1, <1>2, <1>4, KeepAnswers

(* The host reads what arrived, or ends the session over it.               *)
Ended == h' = h \/ h'.session = NoSession \/ Dropped(h, h')

LEMMA HeadSound ==
  ASSUME NEW own, NEW since, LeaseKept(own, since), Len(in) > 0
  PROVE  /\ in # <<>> /\ in \in Seq(AnswerType) /\ Tail(in) \in Seq(AnswerType)
         /\ Head(in) \in Elems(in) /\ Head(in) \in AnswerType
         /\ Head(in).frame \in FrameType /\ FrameSound(Head(in).frame, own, since)
         /\ Head(in).req \in RequestType /\ RequestSound(Head(in).req) /\ AnswerSound(Head(in))
         /\ h.session # NoSession
<1>1. in # <<>> /\ in \in Seq(AnswerType)
  BY DEF LeaseKept, LeaseTyped
<1>2. Tail(in) \in Seq(AnswerType) /\ Head(in) \in Elems(in) /\ Head(in) \in AnswerType
  BY <1>1, TailElems
<1>3. Head(in).frame \in FrameType /\ Head(in).req \in RequestType
  BY <1>2 DEF AnswerType
<1>4. Head(in).frame \in Told /\ Head(in).req \in Asked
  BY <1>2 DEF Told, Asked
<1>5. QED BY <1>1, <1>2, <1>3, <1>4 DEF LeaseKept, SessionsSound

LEMMA HeartbeatAnsweredKept ==
  ASSUME NEW own, NEW since, LeaseKept(own, since), HeartbeatAnswered
  PROVE  LeaseKept(own, since)' /\ Ended
<1> DEFINE r == Head(in).req
           f == Head(in).frame
<1>1. Len(in) > 0 /\ r.kind = "heartbeat"
  BY DEF HeartbeatAnswered, Arrived
<1>2. /\ in # <<>> /\ Tail(in) \in Seq(AnswerType) /\ f \in FrameType /\ FrameSound(f, own, since)
      /\ r \in RequestType /\ RequestSound(r)
  BY <1>1, HeadSound
<1>3. CASE now >= r.started + Timeout \/ BeatRefused(h, f, r.token, r.lease)
  <2>1. DropSession(h) /\ UNCHANGED <<now, open>> /\ h.gen \in Nat
    BY <1>3 DEF HeartbeatAnswered, LeaseKept, HostSound, HostType
  <2>2. QED BY <2>1, DropKept DEF Ended
<1>4. CASE ~(now >= r.started + Timeout \/ BeatRefused(h, f, r.token, r.lease))
  <2>1. h' = Renewed(h, f, r.token, r.lease) /\ Taken /\ UNCHANGED <<order, claims, release, rest>>
    BY <1>4 DEF HeartbeatAnswered
  <2>2. r.lease \in {NoLease, r.token[2]}
    BY <1>1, <1>2 DEF RequestSound
  <2>3. HostSound(h', own, since) /\ Noted(h, h', f)
    BY <1>2, <1>4, <2>1, <2>2, RenewedSound DEF LeaseKept
  <2>4. HostOnly /\ in' = Tail(in) /\ out' = out /\ ReadFrames' = ReadFrames
    BY <2>1, <2>3 DEF HostOnly, Taken, rest, ReadFrames, Noted
  <2>5. HostSound(h, own, since)'
    BY <2>3, <2>4, HostKept
  <2>6. LeaseTyped'
    BY <1>2, <2>1 DEF LeaseTyped, LeaseKept, Taken, rest
  <2>7. LeaseKept(own, since)'
    BY <1>2, <2>3, <2>4, <2>5, <2>6, TakeAnswer
  <2>8. QED BY <2>3, <2>7 DEF Ended, Noted
<1>5. QED BY <1>3, <1>4

(* What a status read, alone or after an acquired lease, leaves behind.    *)
LEMMA ObservedAnswer ==
  ASSUME NEW own, NEW since, LeaseKept(own, since), Len(in) > 0
  PROVE  /\ HostSound(Observed(h, Head(in).frame), own, since)
         /\ Noted(h, Observed(h, Head(in).frame), Head(in).frame)
         /\ Observed(h, Head(in).frame).gen \in Nat
<1>1. /\ HostSound(Observed(h, Head(in).frame), own, since)
      /\ Noted(h, Observed(h, Head(in).frame), Head(in).frame)
  BY HeadSound, ObservedSound DEF LeaseKept
<1>2. QED BY <1>1 DEF HostSound, HostType

LEMMA StatusAnsweredKept ==
  ASSUME NEW own, NEW since, LeaseKept(own, since), StatusAnswered
  PROVE  LeaseKept(own, since)' /\ Ended
<1>1. Len(in) > 0
  BY DEF StatusAnswered, Arrived
<1>2. PICK f : f = Head(in).frame
  OBVIOUS
<1>3. PICK x : x = Observed(h, f)
  OBVIOUS
<1>4. HostSound(x, own, since) /\ Noted(h, x, f) /\ x.gen \in Nat
  BY <1>1, <1>2, <1>3, ObservedAnswer
<1>5. in # <<>> /\ Tail(in) \in Seq(AnswerType) /\ f \in FrameType
  BY <1>1, <1>2, HeadSound
<1>6. CASE x.revoked
  <2>1. DropSession(x) /\ UNCHANGED <<now, open>>
    BY <1>2, <1>3, <1>6 DEF StatusAnswered
  <2>2. QED BY <1>4, <2>1, DropKept DEF Ended
<1>7. CASE ~x.revoked
  <2>1. /\ h' = x /\ shown' \in {shown, f} /\ Taken
        /\ UNCHANGED <<order, claims, release, granted, asks, opened>>
    BY <1>2, <1>3, <1>7 DEF StatusAnswered
  <2>2. HostOnly /\ in' = Tail(in) /\ out' = out /\ ReadFrames' \subseteq ReadFrames \cup {f}
    BY <1>4, <2>1 DEF HostOnly, Taken, ReadFrames, Noted
  <2>3. HostSound(h, own, since)'
    BY <1>4, <2>1, <2>2, HostKept
  <2>4. LeaseTyped'
    BY <1>5, <2>1 DEF LeaseTyped, LeaseKept, Taken
  <2>5. LeaseKept(own, since)'
    BY <1>2, <1>4, <1>5, <2>1, <2>2, <2>3, <2>4, TakeAnswer
  <2>6. QED BY <1>4, <2>1, <2>5 DEF Ended, Noted
<1>8. QED BY <1>6, <1>7

LEMMA OwnershipAnsweredKept ==
  ASSUME NEW own, NEW since, LeaseKept(own, since), OwnershipAnswered
  PROVE  LeaseKept(own, since)' /\ Ended
<1>1. Len(in) > 0
  BY DEF OwnershipAnswered, Arrived
<1>2. PICK f : f = Head(in).frame
  OBVIOUS
<1>3. PICK x : x = Observed(h, f)
  OBVIOUS
<1>4. HostSound(x, own, since) /\ Noted(h, x, f) /\ x.gen \in Nat
  BY <1>1, <1>2, <1>3, ObservedAnswer
<1>5. in # <<>> /\ Tail(in) \in Seq(AnswerType) /\ f \in FrameType /\ Head(in).req \in RequestType
  BY <1>1, <1>2, HeadSound
<1>6. CASE x.revoked
  <2>1. DropSession(x) /\ UNCHANGED <<now, open>>
    BY <1>2, <1>3, <1>6 DEF OwnershipAnswered
  <2>2. QED BY <1>4, <2>1, DropKept DEF Ended
<1>7. CASE ~x.revoked
  <2>1. PICK c : c = [token |-> Head(in).req.token, frame |-> f, lease |-> Head(in).req.lease, for |-> "acquire"]
    OBVIOUS
  <2>2. /\ h' = x /\ claims' = claims \cup {c} /\ order' = NoOrder /\ Taken
             /\ UNCHANGED <<release, rest>>
    BY <1>2, <1>3, <1>7, <2>1 DEF OwnershipAnswered
  <2>3. c \in ClaimType /\ c.frame = f
    BY <1>5, <2>1 DEF RequestType, ClaimType
  <2>4. HostOnly /\ in' = Tail(in) /\ out' = out /\ ReadFrames' \subseteq ReadFrames \cup {f}
    BY <1>4, <2>2, <2>3 DEF HostOnly, Taken, ReadFrames, Noted, rest
  <2>5. HostSound(h, own, since)'
    BY <1>4, <2>2, <2>4, HostKept
  <2>6. NoOrder \in OrderType /\ NoOrder.stage # "prepared"
    BY DEF NoOrder, OrderType, TokenType, NoLease
  <2>7. LeaseTyped'
    BY <1>5, <2>2, <2>3, <2>6 DEF LeaseTyped, LeaseKept, Taken, rest
  <2>8. LeaseKept(own, since)'
    BY <1>2, <1>4, <1>5, <2>2, <2>4, <2>5, <2>7, TakeAnswer
  <2>9. QED BY <1>4, <2>2, <2>8 DEF Ended, Noted
<1>8. QED BY <1>6, <1>7

LEMMA AcquireAnsweredKept ==
  ASSUME NEW own, NEW since, LeaseKept(own, since), AcquireAnswered
  PROVE  LeaseKept(own, since)' /\ Ended
<1> DEFINE r == Head(in).req
           f == Head(in).frame
<1>1. Len(in) > 0
  BY DEF AcquireAnswered, Arrived
<1>2. /\ in # <<>> /\ Tail(in) \in Seq(AnswerType) /\ f \in FrameType /\ f.lease \in Nat
      /\ h.session # NoSession
  BY <1>1, HeadSound DEF FrameType
<1>3. HostOnly /\ in' = Tail(in) /\ h' = h /\ ReadFrames' \subseteq ReadFrames \cup {f}
  BY DEF AcquireAnswered, HostOnly, ReadFrames
<1>4. /\ order \in OrderType /\ order.token \in TokenType
      /\ NoOrder \in OrderType /\ NoOrder.stage # "prepared"
  BY DEF LeaseKept, LeaseTyped, OrderType, NoOrder, TokenType, NoLease
<1>5. order' \in OrderType /\ (order'.stage = "prepared" => order'.kind # "none")
  BY <1>4 DEF AcquireAnswered, OrderType, LeaseKept, LeaseTyped
<1>6. out' = out \/ \E q : Asks(q)
  <2>1. CASE r.live /\ f.ok
    <3>1. PICK q : q = [Request("ownership", f.lease, 0) EXCEPT !.token = order.token]
      OBVIOUS
    <3>2. q \in RequestType /\ RequestSound(q)
      BY <1>2, <1>4, <3>1, RequestTyped
    <3>3. out' = Append(out, q)
      BY <2>1, <3>1 DEF AcquireAnswered
    <3>4. QED BY <1>2, <3>2, <3>3 DEF Asks
  <2>2. CASE ~(r.live /\ f.ok)
    BY <2>2 DEF AcquireAnswered
  <2>3. QED BY <2>1, <2>2
<1>7. out' \in Seq(RequestType)
  <2>1. out \in Seq(RequestType)
    BY DEF LeaseKept, LeaseTyped
  <2>2. QED BY <1>6, <2>1, AppendElems DEF Asks
<1>8. HostSound(h, own, since)'
  BY <1>3, HostKept DEF LeaseKept
<1>9. LeaseTyped'
  BY <1>2, <1>5, <1>7 DEF LeaseTyped, LeaseKept, AcquireAnswered
<1>10. QED BY <1>2, <1>3, <1>6, <1>8, <1>9, TakeAnswer DEF Ended

LEMMA CommandAnsweredKept ==
  ASSUME NEW own, NEW since, LeaseKept(own, since), CommandAnswered
  PROVE  LeaseKept(own, since)' /\ Ended
<1>1. Len(in) > 0
  BY DEF CommandAnswered, Arrived
<1>2. in # <<>> /\ Tail(in) \in Seq(AnswerType)
  BY <1>1, HeadSound
<1>3. HostOnly /\ in' = Tail(in) /\ out' = out /\ h' = h
        /\ ReadFrames' \subseteq ReadFrames \cup {Head(in).frame}
  BY DEF CommandAnswered, Taken, HostOnly, ReadFrames, rest
<1>4. HostSound(h, own, since)'
  BY <1>3, HostKept DEF LeaseKept
<1>5. order' \in OrderType /\ (order'.stage = "prepared" => order'.kind # "none")
  BY DEF CommandAnswered, LeaseKept, LeaseTyped, OrderType, NoOrder, TokenType, NoLease
<1>6. LeaseTyped'
  BY <1>2, <1>5 DEF LeaseTyped, LeaseKept, CommandAnswered, Taken, rest
<1>7. QED BY <1>2, <1>3, <1>4, <1>6, TakeAnswer DEF Ended

(* A release that was applied finds the device without the lease: a lease  *)
(* granted since would have been read only after this answer.              *)
LEMMA ReleaseAnsweredKept ==
  ASSUME NEW own, NEW since, LeaseKept(own, since), ReleaseAnswered
  PROVE  LeaseKept(own, since)' /\ Ended
<1> DEFINE r == Head(in).req
           f == Head(in).frame
<1>1. Len(in) > 0 /\ r.kind = "release"
  BY DEF ReleaseAnswered, Arrived
<1>2. /\ in # <<>> /\ Tail(in) \in Seq(AnswerType) /\ Head(in) \in Elems(in) /\ f \in FrameType
      /\ FrameSound(f, own, since) /\ AnswerSound(Head(in)) /\ h.session # NoSession
  BY <1>1, HeadSound
<1>3. h \in HostType /\ h.gen \in Nat /\ HostSound(h, own, since)
  BY DEF LeaseKept, HostSound, HostType
<1>4. CASE ~r.live
  <2>1. Taken /\ UNCHANGED <<h, order, claims, release, rest>>
    BY <1>4 DEF ReleaseAnswered
  <2>2. HostOnly /\ in' = Tail(in) /\ out' = out /\ h' = h /\ ReadFrames' = ReadFrames
    BY <2>1 DEF Taken, HostOnly, ReadFrames, rest
  <2>3. HostSound(h, own, since)'
    BY <2>2, HostKept DEF LeaseKept
  <2>4. LeaseTyped'
    BY <1>2, <2>1 DEF LeaseTyped, LeaseKept, Taken, rest
  <2>5. QED BY <1>2, <2>2, <2>3, <2>4, TakeAnswer DEF Ended
<1>5. CASE r.live /\ (f.ok \/ order.token # Token(h))
  <2>1. PICK x : x = IF order.token = Token(h) THEN Cleared(h) ELSE h
    OBVIOUS
  <2>2. /\ h' = x /\ order' = NoOrder /\ release' = NoRelease /\ Taken /\ UNCHANGED <<claims, rest>>
    BY <1>5, <2>1 DEF ReleaseAnswered
  <2>3. HostSound(x, own, since) /\ x.session = h.session /\ x.order = h.order
    BY <1>3, <2>1, ClearedSound, NoLeaseSound DEF LeaseKept
  <2>4. Dropped(h, x)
    <3>1. CASE order.token # Token(h)
      BY <2>1, <3>1 DEF Dropped
    <3>2. CASE f.ok
      <4>1. SUFFICES ASSUME h.lease # NoLease, device.lease = h.lease PROVE FALSE
        BY DEF Dropped
      <4>2. f.lease = NoLease
        BY <1>1, <1>2, <3>2 DEF AnswerSound
      <4>3. ~(f.rev >= since)
        BY <1>2, <4>1, <4>2 DEF FrameSound
      <4>4. h.order[1] >= since
        BY <1>3, <4>1 DEF HostSound
      <4>5. h.order[1] <= f.rev
        BY <1>2 DEF LeaseKept, ReadInOrder
      <4>6. h.order[1] \in Int /\ f.rev \in Nat /\ since \in Nat
        BY <1>2, <1>3 DEF HostType, OrdType, FrameType, LeaseKept, DeviceSound
      <4>7. QED BY <4>3, <4>4, <4>5, <4>6
    <3>3. QED BY <1>5, <3>1, <3>2
  <2>5. Noted(h, h', f)
    BY <2>2, <2>3, <2>4 DEF Noted
  <2>6. HostOnly /\ in' = Tail(in) /\ out' = out /\ ReadFrames' = ReadFrames
    BY <2>2, <2>3 DEF Taken, HostOnly, ReadFrames, rest
  <2>7. HostSound(h, own, since)'
    BY <2>2, <2>3, <2>6, HostKept
  <2>8. /\ NoOrder \in OrderType /\ NoOrder.stage # "prepared"
        /\ NoRelease \in [stage : {"none", "quiescing", "submitted"}, token : TokenType]
    BY DEF NoOrder, NoRelease, OrderType, TokenType, NoLease
  <2>9. LeaseTyped'
    BY <1>2, <2>2, <2>8 DEF LeaseTyped, LeaseKept, Taken, rest
  <2>10. LeaseKept(own, since)'
    BY <1>2, <2>5, <2>6, <2>7, <2>9, TakeAnswer
  <2>11. QED BY <2>2, <2>4, <2>10 DEF Ended
<1>6. CASE r.live /\ ~(f.ok \/ order.token # Token(h))
  <2>1. DropSession(h) /\ UNCHANGED <<now, open>>
    BY <1>6 DEF ReleaseAnswered
  <2>2. QED BY <1>3, <2>1, DropKept DEF Ended
<1>7. QED BY <1>4, <1>5, <1>6

LEMMA BeginConfirmKept ==
  ASSUME NEW own, NEW since, LeaseKept(own, since), BeginConfirm
  PROVE  LeaseKept(own, since)' /\ Ended
<1>1. /\ shown \in ReadFrames /\ shown \in FrameType /\ shown.session = h.session /\ shown.lease \in Nat
      /\ h \in HostType /\ Token(h) \in TokenType
  BY TokenTyped DEF ReadFrames, BeginConfirm, Current, LeaseKept, LeaseTyped, HostSound, FrameType
<1>2. FrameSound(shown, own, since)
  BY <1>1 DEF LeaseKept, Told
<1>3. PICK x : x = IF h.lease = shown.lease THEN Confirmed(h, shown, Token(h), shown.lease) ELSE h
  OBVIOUS
<1>4. h' = x /\ UNCHANGED <<now, order, release, rest, device, open, wire>>
  BY <1>3 DEF BeginConfirm
<1>5. HostSound(x, own, since) /\ Noted(h, x, shown)
  <2>1. HostSound(h, own, since) /\ Noted(h, h, shown)
    BY DEF LeaseKept, Noted, Dropped
  <2>2. QED BY <1>1, <1>2, <1>3, <2>1, ConfirmedSound DEF LeaseKept
<1>6. \A c \in claims' : c \in ClaimType /\ (c \in claims \/ c.frame = shown)
  <2>1. PICK n : n = [token |-> Token(h), frame |-> shown, lease |-> shown.lease, for |-> "preflight"]
    OBVIOUS
  <2>2. n \in ClaimType /\ n.frame = shown
    BY <1>1, <2>1 DEF ClaimType
  <2>3. claims' = claims \/ claims' = claims \cup {n}
    BY <2>1 DEF BeginConfirm
  <2>4. QED BY <2>2, <2>3 DEF LeaseKept, LeaseTyped
<1>7. HostOnly /\ in' = in /\ out' = out /\ ReadFrames' \subseteq ReadFrames
  BY <1>1, <1>4, <1>5, <1>6 DEF HostOnly, ReadFrames, rest, wire, Noted
<1>8. HostSound(h, own, since)'
  BY <1>4, <1>5, <1>7, HostKept
<1>9. LeaseTyped'
  BY <1>4, <1>6 DEF LeaseTyped, LeaseKept, rest, wire
<1>10. LeaseKept(own, since)'
  BY <1>1, <1>4, <1>5, <1>7, <1>8, <1>9, KeepAnswers
<1>11. QED BY <1>4, <1>5, <1>10 DEF Ended, Noted

LEMMA FinishConfirmKept ==
  ASSUME NEW own, NEW since, LeaseKept(own, since), NEW c \in claims, FinishConfirm(c)
  PROVE  LeaseKept(own, since)' /\ Ended
<1>1. c.frame \in ReadFrames /\ c.frame \in FrameType
  BY DEF ReadFrames, LeaseKept, LeaseTyped, ClaimType
<1>2. PICK f : f = c.frame
  OBVIOUS
<1>3. FrameSound(f, own, since) /\ f \in FrameType /\ f \in ReadFrames
  BY <1>1, <1>2 DEF LeaseKept, Told
<1>4. PICK x : x = IF h.session = NoSession THEN h ELSE Confirmed(h, f, c.token, c.lease)
  OBVIOUS
<1>5. h' = x /\ claims' = claims \ {c} /\ UNCHANGED <<now, order, release, rest, device, open, wire>>
  BY <1>2, <1>4 DEF FinishConfirm
<1>6. HostSound(x, own, since) /\ Noted(h, x, f) /\ (x.order = h.order \/ f.session = h.session)
  <2>1. HostSound(h, own, since) /\ Noted(h, h, f)
    BY DEF LeaseKept, Noted, Dropped
  <2>2. QED BY <1>3, <1>4, <2>1, ConfirmedSound DEF LeaseKept
<1>7. HostOnly /\ in' = in /\ out' = out /\ ReadFrames' \subseteq ReadFrames
  BY <1>5, <1>6 DEF HostOnly, ReadFrames, rest, wire, Noted
<1>8. HostSound(h, own, since)'
  BY <1>5, <1>6, <1>7, HostKept
<1>9. LeaseTyped'
  BY <1>5 DEF LeaseTyped, LeaseKept, rest, wire
<1>10. LeaseKept(own, since)'
  BY <1>3, <1>5, <1>6, <1>7, <1>8, <1>9, KeepAnswers
<1>11. QED BY <1>5, <1>6, <1>10 DEF Ended, Noted

LEMMA LeavingKept ==
  ASSUME NEW own, NEW since, LeaseKept(own, since), Disconnect \/ ExpireLocally \/ TimeoutHeartbeat
  PROVE  LeaseKept(own, since)' /\ Ended
<1>1. PICK x : x \in {h, Expired(h)} /\ DropSession(x) /\ UNCHANGED <<now, open>>
  BY DEF Disconnect, ExpireLocally, TimeoutHeartbeat
<1>2. HostSound(Expired(h), own, since) /\ HostSound(h, own, since)
  BY ExpiredSound DEF LeaseKept
<1>3. x.gen \in Nat
  BY <1>1, <1>2 DEF HostSound, HostType
<1>4. QED BY <1>1, <1>3, DropKept DEF Ended

(* A new session knows of no lease, and no lease is granted to it yet.     *)
LEMMA ConnectKept ==
  ASSUME NEW own, NEW since, LeaseKept(own, since), Connect
  PROVE  LeaseKept(own, since)' /\ h'.lease = NoLease
<1>1. /\ LeaseTyped /\ SessionsSound /\ ReadInOrder /\ DeviceSound(device, own, since)
      /\ h \in HostType /\ h.gen \in Nat /\ h.session = NoSession /\ opened \in Nat
  BY DEF LeaseKept, HostSound, HostType, Connect, LeaseTyped
<1>2. /\ opened' = opened + 1 /\ h' = ResetTo(h, opened') /\ open' = open \cup {opened'}
      /\ UNCHANGED <<now, order, claims, release, shown, granted, asks, device, out, in, tail>>
      /\ out = <<>> /\ in = <<>>
  BY <1>1 DEF Connect, wire, SessionsSound
<1>3. /\ h' \in HostType /\ h'.lease = NoLease /\ h'.session = opened + 1 /\ h'.order[1] = -1
  <2>1. h.gen + 1 \in Nat /\ <<-1, -1>> \in OrdType /\ opened + 1 \in Nat
    BY <1>1 DEF OrdType
  <2>2. QED BY <1>2, <2>1 DEF ResetTo, HostType, NoSession, NoLease
<1>4. LeaseTyped'
  BY <1>1, <1>2 DEF LeaseTyped
<1>5. SessionsSound'
  <2>1. ASSUME NEW r \in Elems(tail)'
        PROVE  r.session # NoSession /\ r.session # h'.session /\ r.session <= opened'
    <3>1. r \in Elems(tail)
      BY <1>2 DEF Elems
    <3>2. r.session # NoSession /\ r.session <= opened
      BY <1>1, <3>1 DEF SessionsSound
    <3>3. r \in RequestType
      BY <1>1, <3>1, ElemsTyped DEF LeaseTyped
    <3>4. QED BY <1>1, <1>2, <1>3, <3>2, <3>3 DEF RequestType
  <2>2. h'.session # NoSession /\ h'.session <= opened'
    BY <1>1, <1>2, <1>3 DEF NoSession
  <2>3. QED BY <2>1, <2>2 DEF SessionsSound
<1>6. Elems(in)' = {} /\ Elems(out)' = {} /\ Elems(in) = {}
  BY <1>2 DEF Elems
<1>7. ReadInOrder'
  <2>1. Sorted(in)' /\ -1 <= device.rev
    BY <1>1, <1>2 DEF Sorted, LeaseTyped, DeviceType
  <2>2. QED BY <1>2, <1>3, <1>6, <2>1 DEF ReadInOrder
<1>8. DeviceSound(device, own, since)'
  <2>1. \A l \in 1..device.issued : own[l] \in 1..opened
    BY <1>1 DEF DeviceSound
  <2>2. 1..opened \subseteq 1..(opened + 1)
    BY <1>1
  <2>3. \A l \in 1..device.issued : own[l] \in 1..(opened + 1)
    BY <2>1, <2>2
  <2>4. QED BY <1>1, <1>2, <2>3 DEF DeviceSound
<1>9. ASSUME NEW l, NEW e, l \in Nat, l <= device.issued, Granted(own, l, e)
      PROVE  Granted(own, l, e)'
  <2>1. l # NoLease => own[l] \in 1..opened
    BY <1>1, <1>9 DEF DeviceSound, NoLease, LeaseTyped, DeviceType
  <2>2. l # NoLease /\ own[l] \in open' => own[l] \in open
    BY <1>1, <1>2, <2>1
  <2>3. QED BY <1>2, <1>9, <2>2 DEF Granted
<1>10. HostSound(h, own, since)'
  <2>1. HostSound(h', own, since)
    BY <1>1, <1>3, NoLeaseSound
  <2>2. QED BY <1>2, <1>3, <2>1 DEF HostSound, Granted
<1>11. \A f \in Told' : FrameSound(f, own, since)'
  <2>1. SUFFICES ASSUME NEW f \in Told' PROVE FrameSound(f, own, since)'
    OBVIOUS
  <2>2. f \in ReadFrames /\ f \in Told
    BY <1>2, <1>6 DEF Told, ReadFrames
  <2>3. f \in FrameType /\ FrameSound(f, own, since)
    BY <1>1, <2>2 DEF LeaseKept, ReadFrames, LeaseTyped, ClaimType
  <2>4. Granted(own, f.lease, f.expires)'
    BY <1>9, <2>3 DEF FrameSound, FrameType
  <2>5. QED BY <1>2, <2>3, <2>4 DEF FrameSound
<1>12. Asked' = {}
  BY <1>6 DEF Asked
<1>13. QED BY <1>3, <1>4, <1>5, <1>6, <1>7, <1>8, <1>10, <1>11, <1>12 DEF LeaseKept

-----------------------------------------------------------------------------
(* The device's steps.  From d to d2, with the sessions of o2 left: a      *)
(* lease that is neither over nor released stays, a new one has a number   *)
(* and a revision of its own.                                              *)

Moved(d, d2, o2, own, since, own2, since2) ==
  /\ d2 \in DeviceType /\ d.issued <= d2.issued /\ d.rev <= d2.rev /\ d.released \subseteq d2.released
  /\ \A l \in 0..d.issued : own2[l] = own[l]
  /\ d.lease # NoLease /\ d.expires > now /\ own[d.lease] \in o2 /\ d.lease \notin d2.released
       => d2.lease = d.lease /\ d.expires <= d2.expires
  /\ d2.lease # NoLease => \/ d2.lease = d.lease /\ since2 = since
                           \/ d2.lease > d.issued /\ since2 > d.rev
  /\ DeviceSound(d2, own2, since2)

LEMMA StillMoved ==
  ASSUME NEW d \in DeviceType, NEW own, NEW since, DeviceSound(d, own, since), NEW o2
  PROVE  Moved(d, d, o2, own, since, own, since)
BY DEF Moved, DeviceSound, DeviceType

LEMMA MovedTwice ==
  ASSUME now \in Nat, NEW d \in DeviceType, NEW d1 \in DeviceType, NEW d2, NEW o2,
         NEW own, NEW since, NEW own1, NEW since1, NEW own2, NEW since2,
         DeviceSound(d, own, since),
         Moved(d, d1, o2, own, since, own1, since1), Moved(d1, d2, o2, own1, since1, own2, since2)
  PROVE  Moved(d, d2, o2, own, since, own2, since2)
<1>1. /\ d2 \in DeviceType /\ d.lease \in Nat /\ d.issued \in Nat /\ d1.issued \in Nat
           /\ d2.issued \in Nat
      /\ d.rev \in Nat /\ d1.rev \in Nat /\ d2.rev \in Nat /\ d1.lease \in Nat /\ d2.lease \in Nat
      /\ d.expires \in Nat /\ d1.expires \in Nat /\ d2.expires \in Nat
      /\ d.lease <= d.issued /\ d1.lease <= d1.issued
      /\ since \in Nat /\ since1 \in Nat /\ since2 \in Nat
  BY DEF DeviceType, Moved, DeviceSound
<1>2. d.issued <= d2.issued /\ d.rev <= d2.rev /\ d.released \subseteq d2.released
  BY <1>1 DEF Moved
<1>3. \A l \in 0..d.issued : l \in 0..d1.issued /\ own1[l] = own[l] /\ own2[l] = own1[l]
  BY <1>1 DEF Moved
<1>4. ASSUME d.lease # NoLease, d.expires > now, own[d.lease] \in o2, d.lease \notin d2.released
      PROVE  d2.lease = d.lease /\ d.expires <= d2.expires
  <2>1. d.lease \notin d1.released
    BY <1>4 DEF Moved
  <2>2. d1.lease = d.lease /\ d.expires <= d1.expires
    BY <1>4, <2>1 DEF Moved
  <2>3. d.lease \in 0..d.issued
    BY <1>1
  <2>4. own1[d1.lease] \in o2
    BY <1>3, <1>4, <2>2, <2>3
  <2>5. d1.expires > now
    BY <1>1, <1>4, <2>2
  <2>6. QED BY <1>1, <1>4, <2>2, <2>4, <2>5 DEF Moved
<1>5. d2.lease # NoLease => \/ d2.lease = d.lease /\ since2 = since
                            \/ d2.lease > d.issued /\ since2 > d.rev
  BY <1>1 DEF Moved, NoLease
<1>6. QED BY <1>1, <1>2, <1>3, <1>4, <1>5 DEF Moved

LEMMA ForfeitedMoved ==
  ASSUME now \in Nat, NEW d \in DeviceType, NEW own, NEW since, DeviceSound(d, own, since), NEW o2,
         NEW d2,
         \/ /\ d2 = Forfeited(d)
            /\ d.lease = NoLease \/ d.expires <= now \/ own[d.lease] \notin o2
         \/ d2 = [Forfeited(d) EXCEPT !.released = d.released \cup {d.lease}]
  PROVE  Moved(d, d2, o2, own, since, own, since) /\ d2.lease = NoLease
<1>1. PICK e : e = Forfeited(d)
  OBVIOUS
<1>2. d.rev + 1 \in Nat /\ d.rev <= d.rev + 1 /\ 0 \in Nat /\ d.lease \in Nat
        /\ d.released \in SUBSET Nat
  BY DEF DeviceType
<1>3. e = [d EXCEPT !.lease = 0, !.owner = 0, !.expires = 0, !.rev = d.rev + 1]
  BY <1>1 DEF Forfeited, NoLease, NoSession
<1>4. /\ e \in DeviceType /\ e.lease = 0 /\ e.expires = 0 /\ e.rev = d.rev + 1 /\ e.issued = d.issued
      /\ e.released = d.released
  BY <1>2, <1>3 DEF DeviceType
<1>5. /\ d2 \in DeviceType /\ d2.lease = 0 /\ d2.expires = 0 /\ d2.rev = d.rev + 1
           /\ d2.issued = d.issued
      /\ \/ d2.released = d.released
           /\ (d.lease = NoLease \/ d.expires <= now \/ own[d.lease] \notin o2)
         \/ d2.released = d.released \cup {d.lease}
  <2>1. CASE d2 = e /\ (d.lease = NoLease \/ d.expires <= now \/ own[d.lease] \notin o2)
    BY <1>4, <2>1
  <2>2. CASE d2 = [e EXCEPT !.released = d.released \cup {d.lease}]
    <3>1. d.released \cup {d.lease} \in SUBSET Nat
      BY <1>2
    <3>2. QED BY <1>4, <2>2, <3>1 DEF DeviceType
  <2>3. QED BY <1>1, <2>1, <2>2
<1>6. d.issued \in Nat /\ d.issued <= d.issued /\ 0 <= now + LeaseMs /\ d.expires \in Nat
  BY LeaseAssumption DEF DeviceType
<1>7. DeviceSound(d2, own, since)
  BY <1>5, <1>6 DEF DeviceSound, NoLease
<1>8. d.lease # NoLease /\ d.expires > now /\ own[d.lease] \in o2 /\ d.lease \notin d2.released => FALSE
  BY <1>5, <1>6
<1>9. QED BY <1>2, <1>5, <1>6, <1>7, <1>8 DEF Moved, NoLease

LEMMA SweptMoved ==
  ASSUME now \in Nat, NEW d \in DeviceType, NEW own, NEW since, DeviceSound(d, own, since), NEW o2
  PROVE  Moved(d, Swept(d), o2, own, since, own, since)
<1>1. CASE d.lease # NoLease /\ now >= d.expires
  <2>1. d.expires <= now
    BY <1>1 DEF DeviceType
  <2>2. PICK d2 : d2 = Forfeited(d)
    OBVIOUS
  <2>3. Moved(d, d2, o2, own, since, own, since)
    BY <2>1, <2>2, ForfeitedMoved
  <2>4. QED BY <1>1, <2>2, <2>3 DEF Swept
<1>2. CASE ~(d.lease # NoLease /\ now >= d.expires)
  BY <1>2, StillMoved DEF Swept
<1>3. QED BY <1>1, <1>2

(* Any other change of control state.                                      *)
LEMMA ChangedMoved ==
  ASSUME NEW d \in DeviceType, NEW own, NEW since, DeviceSound(d, own, since), NEW o2,
         NEW d2, d2 = [d EXCEPT !.rev = d.rev + 1]
  PROVE  Moved(d, d2, o2, own, since, own, since)
<1>1. d.rev + 1 \in Nat /\ d.rev <= d.rev + 1 /\ d.rev \in Nat /\ d.issued \in Nat
        /\ d.issued <= d.issued
      /\ d.expires \in Nat /\ d.expires <= d.expires
  BY DEF DeviceType
<1>2. /\ d2 \in DeviceType /\ d2.lease = d.lease /\ d2.owner = d.owner /\ d2.expires = d.expires
      /\ d2.rev = d.rev + 1 /\ d2.issued = d.issued /\ d2.released = d.released
  BY <1>1 DEF DeviceType
<1>3. DeviceSound(d2, own, since)
  BY <1>1, <1>2 DEF DeviceSound
<1>4. QED BY <1>1, <1>2, <1>3 DEF Moved

LEMMA RenewedMoved ==
  ASSUME now \in Nat, NEW d \in DeviceType, NEW own, NEW since, DeviceSound(d, own, since), NEW o2,
         NEW d2, d2 = [d EXCEPT !.expires = now + LeaseMs]
  PROVE  Moved(d, d2, o2, own, since, own, since)
<1>1. now + LeaseMs \in Nat /\ d.rev <= d.rev /\ d.issued <= d.issued /\ d.expires <= now + LeaseMs
      /\ now + LeaseMs <= now + LeaseMs
  BY LeaseAssumption DEF DeviceType, DeviceSound
<1>2. /\ d2 \in DeviceType /\ d2.lease = d.lease /\ d2.owner = d.owner /\ d2.expires = now + LeaseMs
      /\ d2.rev = d.rev /\ d2.issued = d.issued /\ d2.released = d.released
  BY <1>1 DEF DeviceType
<1>3. DeviceSound(d2, own, since)
  BY <1>1, <1>2 DEF DeviceSound
<1>4. QED BY <1>1, <1>2, <1>3 DEF Moved

(* A new lease goes to a session and starts at a revision of its own.      *)
LEMMA AcquiredMoved ==
  ASSUME now \in Nat, NEW d \in DeviceType, NEW own, NEW since, DeviceSound(d, own, since), NEW o2,
         d.lease = NoLease, NEW s \in 1..opened, opened \in Nat,
         NEW d2, d2 = [d EXCEPT !.lease = d.issued + 1, !.owner = s, !.expires = now + LeaseMs,
                                !.rev = d.rev + 1, !.issued = d.issued + 1]
  PROVE  \E own2, since2 : Moved(d, d2, o2, own, since, own2, since2)
<1>1. PICK own2 : own2 = [own EXCEPT ![d.issued + 1] = s]
  OBVIOUS
<1>2. /\ now + LeaseMs \in Nat /\ d.rev + 1 \in Nat /\ d.issued + 1 \in Nat /\ s \in Nat
      /\ d.rev \in Nat /\ d.issued \in Nat /\ d.issued + 1 # 0
  BY LeaseAssumption DEF DeviceType
<1>3. /\ d2 \in DeviceType /\ d2.lease = d.issued + 1 /\ d2.owner = s /\ d2.expires = now + LeaseMs
      /\ d2.rev = d.rev + 1 /\ d2.issued = d.issued + 1 /\ d2.released = d.released
  BY <1>2 DEF DeviceType
<1>4. own2 \in [Nat -> Nat] /\ own2[d.issued + 1] = s /\ \A l \in 0..d.issued : own2[l] = own[l]
  BY <1>1, <1>2 DEF DeviceSound
<1>5. \A l \in 1..(d.issued + 1) : own2[l] \in 1..opened
  <2>1. \A l \in 1..d.issued : own2[l] \in 1..opened
    BY <1>2, <1>4 DEF DeviceSound
  <2>2. QED BY <1>2, <1>4, <2>1
<1>6. DeviceSound(d2, own2, d.rev + 1)
  <2>1. d2.lease <= d2.issued /\ d2.expires <= now + LeaseMs /\ 1 <= d.rev + 1 /\ d.rev + 1 <= d2.rev
    BY <1>2, <1>3
  <2>2. QED BY <1>2, <1>3, <1>4, <1>5, <2>1 DEF DeviceSound
<1>7. d.issued <= d2.issued /\ d.rev <= d2.rev /\ d2.lease > d.issued /\ d.rev + 1 > d.rev
  BY <1>2, <1>3
<1>8. Moved(d, d2, o2, own, since, own2, d.rev + 1)
  BY <1>3, <1>4, <1>6, <1>7 DEF Moved
<1>9. QED BY <1>8

LEMMA ServedMoved ==
  ASSUME now \in Nat, opened \in Nat, NEW d \in DeviceType, NEW own, NEW since, DeviceSound(d, own, since),
         NEW o2, NEW r \in RequestType, r.session \in 1..opened
  PROVE  /\ \E own2, since2 : Moved(d, Served(d, r), o2, own, since, own2, since2)
         /\ r.kind = "release" /\ Permitted(d, r) => Served(d, r).lease = NoLease
<1>1. PICK d2 : d2 = Served(d, r)
  OBVIOUS
<1>2. SUFFICES /\ \E own2, since2 : Moved(d, d2, o2, own, since, own2, since2)
               /\ r.kind = "release" /\ Permitted(d, r) => d2.lease = NoLease
  BY <1>1
<1>3. CASE ~Permitted(d, r)
  <2>1. r.kind # "heartbeat"
    BY <1>3 DEF Permitted
  <2>2. d2 = d
    BY <1>1, <1>3, <2>1 DEF Served
  <2>3. QED BY <1>3, <2>2, StillMoved
<1>4. CASE Permitted(d, r) /\ r.kind = "heartbeat"
  <2>1. d2 = d \/ d2 = [d EXCEPT !.expires = now + LeaseMs]
    BY <1>1, <1>4 DEF Served
  <2>2. QED BY <1>4, <2>1, StillMoved, RenewedMoved
<1>5. CASE Permitted(d, r) /\ r.kind = "acquire"
  <2>1. d.lease = NoLease
    BY <1>5 DEF Permitted
  <2>2. d2 = [d EXCEPT !.lease = d.issued + 1, !.owner = r.session, !.expires = now + LeaseMs,
                       !.rev = d.rev + 1, !.issued = d.issued + 1]
    BY <1>1, <1>5 DEF Served
  <2>3. QED BY <1>5, <2>1, <2>2, AcquiredMoved
<1>6. CASE Permitted(d, r) /\ r.kind = "release"
  <2>1. d2 = [Forfeited(d) EXCEPT !.released = Forfeited(d).released \cup {d.lease}]
    BY <1>1, <1>6 DEF Served
  <2>2. Forfeited(d).released = d.released
    BY DEF Forfeited, DeviceType
  <2>3. d2 = [Forfeited(d) EXCEPT !.released = d.released \cup {d.lease}]
    BY <2>1, <2>2
  <2>4. QED BY <2>3, ForfeitedMoved
<1>7. CASE Permitted(d, r) /\ r.kind = "command"
  <2>1. d2 = [d EXCEPT !.rev = d.rev + 1]
    BY <1>1, <1>7 DEF Served
  <2>2. QED BY <1>7, <2>1, ChangedMoved
<1>8. CASE Permitted(d, r) /\ r.kind \in {"status", "ownership"}
  <2>1. d2 = d
    BY <1>1, <1>8 DEF Served
  <2>2. QED BY <1>8, <2>1, StillMoved
<1>9. QED BY <1>3, <1>4, <1>5, <1>6, <1>7, <1>8 DEF RequestType

LEMMA DeviceStep ==
  ASSUME NEW own, NEW since, LeaseKept(own, since), NEW own2, NEW since2,
         Moved(device, device', open', own, since, own2, since2), open' \subseteq open,
         UNCHANGED <<now, h, order, claims, release, shown, opened>>,
         LeaseTyped', SessionsSound', Sorted(in)',
         \A x \in Elems(in)' : x \in Elems(in)
                               \/ (AnswerSound(x) /\ FrameSound(x.frame, own2, since2)' /\ x.req \in Elems(out)
                                   /\ x.frame.rev = device'.rev),
         Elems(out)' \subseteq Elems(out)
  PROVE  LeaseKept(own2, since2)'
<1>1. /\ DeviceSound(device, own, since) /\ device \in DeviceType /\ device' \in DeviceType
           /\ now \in Nat
      /\ DeviceSound(device', own2, since2)
  BY DEF LeaseKept, LeaseTyped, Moved
<1>2. /\ device.issued \in Nat /\ device'.issued \in Nat /\ device.issued <= device'.issued
      /\ device.rev \in Nat /\ device'.rev \in Nat /\ device.rev <= device'.rev
      /\ device.expires \in Nat /\ device'.expires \in Nat /\ since \in Nat /\ since2 \in Nat
      /\ device.lease \in Nat /\ device'.lease \in Nat
  BY <1>1 DEF Moved, DeviceType, DeviceSound
<1>3. DeviceSound(device, own2, since2)'
  BY <1>1 DEF DeviceSound
<1>4. ASSUME NEW l \in 0..device.issued
      PROVE  own2[l] = own[l]
  BY DEF Moved
<1>5. ASSUME NEW l \in 0..device.issued, NEW e \in Int, Granted(own, l, e)
      PROVE  Granted(own2, l, e)'
  <2>1. SUFFICES ASSUME l # NoLease, e > now, own2[l] \in open', l \notin device'.released
                 PROVE  device'.lease = l /\ e <= device'.expires
    BY DEF Granted
  <2>2. own[l] \in open /\ own[l] \in open' /\ l \notin device.released
    BY <1>4, <2>1 DEF Moved
  <2>3. device.lease = l /\ e <= device.expires
    BY <1>5, <2>1, <2>2 DEF Granted
  <2>4. device.expires > now
    BY <1>1, <1>2, <2>1, <2>3
  <2>5. device'.lease = l /\ device.expires <= device'.expires
    BY <2>1, <2>2, <2>3, <2>4 DEF Moved
  <2>6. QED BY <1>2, <2>3, <2>5
<1>6. ASSUME NEW f \in FrameType, FrameSound(f, own, since)
      PROVE  FrameSound(f, own2, since2)'
  <2>1. /\ f.lease \in 0..device.issued /\ f.expires \in Int /\ f.rev \in Nat /\ f.lease \in Nat
        /\ f.rev <= device.rev
    BY <1>2, <1>6 DEF FrameSound, FrameType
  <2>2. Granted(own2, f.lease, f.expires)'
    BY <1>5, <1>6, <2>1 DEF FrameSound
  <2>3. f.lease # NoLease => own2[f.lease] = f.owner
    BY <1>4, <1>6, <2>1 DEF FrameSound
  <2>4. ASSUME device'.lease # NoLease
        PROVE  f.rev >= since2 <=> f.lease = device'.lease
    <3>1. CASE device'.lease = device.lease /\ since2 = since
      BY <1>6, <2>4, <3>1 DEF FrameSound
    <3>2. CASE device'.lease > device.issued /\ since2 > device.rev
      BY <1>2, <2>1, <3>2
    <3>3. QED BY <2>4, <3>1, <3>2 DEF Moved
  <2>5. f.lease <= device'.issued /\ f.rev <= device'.rev /\ f.started <= f.uptime
    BY <1>2, <1>6, <2>1 DEF FrameSound
  <2>6. QED BY <2>2, <2>3, <2>4, <2>5 DEF FrameSound
<1>7. HostSound(h, own2, since2)'
  <2>1. /\ h \in HostType /\ h.lease \in 0..device.issued /\ h.expires \in Int /\ h.lease \in Nat
        /\ h.order[1] \in Int /\ HostSound(h, own, since)
    BY <1>2 DEF LeaseKept, HostSound, HostType, OrdType
  <2>2. Granted(own2, h.lease, h.expires)'
    BY <1>5, <2>1 DEF HostSound
  <2>3. h.lease # NoLease => own2[h.lease] = h.session
    BY <1>4, <2>1 DEF HostSound
  <2>4. ASSUME h.lease # NoLease, h.lease = device'.lease
        PROVE  h.order[1] >= since2
    <3>1. CASE device'.lease = device.lease /\ since2 = since
      BY <2>1, <2>4, <3>1 DEF HostSound
    <3>2. CASE device'.lease > device.issued
      BY <1>2, <2>1, <2>4, <3>2
    <3>3. QED BY <2>4, <3>1, <3>2 DEF Moved
  <2>5. h.lease <= device'.issued
    BY <1>2, <2>1
  <2>6. QED BY <2>1, <2>2, <2>3, <2>4, <2>5 DEF HostSound
<1>8. ReadFrames' = ReadFrames
  BY DEF ReadFrames
<1>9. \A f \in Told : f \in FrameType /\ FrameSound(f, own, since)
  <2>1. \A x \in Elems(in) : x.frame \in FrameType
    <3>1. \A x \in Elems(in) : x \in AnswerType
      BY ElemsTyped DEF LeaseKept, LeaseTyped
    <3>2. QED BY <3>1 DEF AnswerType
  <2>2. \A f \in ReadFrames : f \in FrameType
    BY DEF LeaseKept, LeaseTyped, ReadFrames, ClaimType
  <2>3. QED BY <2>1, <2>2 DEF LeaseKept, Told
<1>10. \A f \in Told' : FrameSound(f, own2, since2)'
  <2>1. \A f \in Told' : f \in Told \/ FrameSound(f, own2, since2)'
    BY <1>8 DEF Told
  <2>2. QED BY <1>6, <1>9, <2>1
<1>11. \A r \in Asked' : RequestSound(r)'
  <2>1. Asked' \subseteq Asked
    BY DEF Asked
  <2>2. QED BY <2>1 DEF LeaseKept, RequestSound
<1>12. \A x \in Elems(in)' : AnswerSound(x)'
  BY DEF LeaseKept, AnswerSound
<1>13. ReadInOrder'
  <2>1. h.order[1] <= device'.rev
    BY <1>2 DEF LeaseKept, ReadInOrder, HostSound, HostType, OrdType
  <2>2. \A x \in Elems(in)' : h.order[1] <= x.frame.rev
    BY <2>1 DEF LeaseKept, ReadInOrder
  <2>3. ASSUME NEW f \in ReadFrames, NEW x \in Elems(in)', f.session = h.session
        PROVE  f.rev <= x.frame.rev
    <3>1. f \in FrameType /\ f.rev \in Nat /\ f.rev <= device.rev
      BY <1>9 DEF Told, FrameSound, FrameType
    <3>2. CASE x \in Elems(in)
      BY <2>3, <3>2 DEF LeaseKept, ReadInOrder
    <3>3. CASE x.frame.rev = device'.rev
      BY <1>2, <3>1, <3>3
    <3>4. QED BY <3>2, <3>3
  <2>4. QED BY <1>8, <2>1, <2>2, <2>3 DEF ReadInOrder
<1>14. QED BY <1>3, <1>7, <1>10, <1>11, <1>12, <1>13 DEF LeaseKept

-----------------------------------------------------------------------------
(* One lemma for every action of the device and the clock.                 *)

Kept == \E own, since : LeaseKept(own, since)

LEMMA ServeKept ==
  ASSUME NEW own, NEW since, LeaseKept(own, since), Serve
  PROVE  Kept'
<1>1. /\ now \in Nat /\ opened \in Nat /\ device \in DeviceType /\ DeviceSound(device, own, since)
      /\ out \in Seq(RequestType) /\ in \in Seq(AnswerType) /\ Len(out) > 0 /\ out # <<>>
  BY DEF LeaseKept, LeaseTyped, Serve
<1>2. PICK r : r = Head(out)
  OBVIOUS
<1>3. /\ r \in RequestType /\ r \in Elems(out) /\ Tail(out) \in Seq(RequestType)
      /\ Elems(Tail(out)) \subseteq Elems(out)
  BY <1>1, <1>2, TailElems
<1>4. RequestSound(r) /\ r.session \in 1..opened /\ r.started <= now
  <2>1. RequestSound(r)
    BY <1>3 DEF LeaseKept, Asked
  <2>2. h.session # NoSession /\ h.session <= opened
    BY <1>1 DEF LeaseKept, SessionsSound
  <2>3. QED BY <1>1, <1>3, <2>1, <2>2 DEF RequestSound, RequestType, NoSession
<1>5. PICK d1 : d1 = Swept(device)
  OBVIOUS
<1>6. Moved(device, d1, open, own, since, own, since)
  BY <1>1, <1>5, SweptMoved
<1>7. d1 \in DeviceType /\ DeviceSound(d1, own, since)
  BY <1>6 DEF Moved
<1>8. PICK d2 : d2 = Served(d1, r)
  OBVIOUS
<1>9. PICK own2, since2 : Moved(d1, d2, open, own, since, own2, since2)
  BY <1>1, <1>3, <1>4, <1>7, <1>8, ServedMoved
<1>10. r.kind = "release" /\ Permitted(d1, r) => d2.lease = NoLease
  BY <1>1, <1>3, <1>4, <1>7, <1>8, ServedMoved
<1>11. Moved(device, d2, open, own, since, own2, since2)
  BY <1>1, <1>6, <1>7, <1>9, MovedTwice
<1>12. d2 \in DeviceType /\ DeviceSound(d2, own2, since2)
  BY <1>9 DEF Moved
<1>13. PICK x : x = [req |-> r,
             frame |-> [session |-> r.session, lease |-> d2.lease, owner |-> d2.owner,
                        expires |-> d2.expires, rev |-> d2.rev, uptime |-> now,
                        started |-> r.started, ok |-> Permitted(d1, r)]]
  OBVIOUS
<1>14. /\ device' = d2 /\ in' = Append(in, x) /\ out' = Tail(out)
       /\ UNCHANGED <<now, h, order, claims, release, rest, open, tail>>
  BY <1>2, <1>5, <1>8, <1>13 DEF Serve
<1>15. Permitted(d1, r) \in BOOLEAN
  BY DEF Permitted, Holds
<1>16. x.frame \in FrameType /\ x \in AnswerType /\ x.req = r /\ x.frame.rev = d2.rev
  <2>1. PICK f : f = x.frame
    OBVIOUS
  <2>2. f = [session |-> r.session, lease |-> d2.lease, owner |-> d2.owner,
             expires |-> d2.expires, rev |-> d2.rev, uptime |-> now,
             started |-> r.started, ok |-> Permitted(d1, r)]
    BY <1>13, <2>1
  <2>3. f \in FrameType /\ f.rev = d2.rev
    BY <1>1, <1>3, <1>12, <1>15, <2>2 DEF FrameType, DeviceType, RequestType
  <2>4. x = [req |-> r, frame |-> f]
    BY <1>13, <2>1
  <2>5. QED BY <1>3, <2>1, <2>3, <2>4 DEF AnswerType
<1>17. AnswerSound(x)
  BY <1>4, <1>10, <1>13 DEF AnswerSound, RequestSound
<1>18. FrameSound(x.frame, own2, since2)'
  <2>1. /\ x.frame.lease = d2.lease /\ x.frame.rev = d2.rev /\ x.frame.expires = d2.expires
        /\ x.frame.owner = d2.owner /\ x.frame.started = r.started /\ x.frame.uptime = now
    BY <1>13
  <2>2. d2.lease <= d2.issued /\ d2.rev <= d2.rev /\ d2.expires <= d2.expires
    BY <1>12 DEF DeviceSound, DeviceType
  <2>3. d2.lease # NoLease => own2[d2.lease] = d2.owner /\ d2.rev >= since2
    BY <1>12 DEF DeviceSound, DeviceType
  <2>4. QED BY <1>4, <1>14, <2>1, <2>2, <2>3 DEF FrameSound, Granted
<1>19. Append(in, x) \in Seq(AnswerType) /\ Elems(Append(in, x)) = Elems(in) \cup {x}
  BY <1>1, <1>16, AppendElems
<1>20. Elems(in)' = Elems(in) \cup {x} /\ Elems(out)' \subseteq Elems(out)
  BY <1>3, <1>14, <1>19 DEF Elems
<1>21. LeaseTyped'
  BY <1>3, <1>12, <1>14, <1>19 DEF LeaseTyped, LeaseKept, rest
<1>22. SessionsSound'
  <2>1. h.session # NoSession
    BY <1>1 DEF LeaseKept, SessionsSound
  <2>2. Elems(tail)' = Elems(tail)
    BY <1>14 DEF Elems
  <2>3. QED BY <1>14, <2>1, <2>2 DEF LeaseKept, SessionsSound, rest
<1>23. Sorted(in)'
  <2>1. Sorted(in)
    BY DEF LeaseKept, ReadInOrder
  <2>2. ASSUME NEW y \in Elems(in)
        PROVE  y.frame.rev <= x.frame.rev
    <3>1. y.frame.rev <= device.rev
      BY DEF LeaseKept, Told, FrameSound
    <3>2. y \in AnswerType
      BY <1>1, ElemsTyped
    <3>3. y.frame \in FrameType
      BY <3>2 DEF AnswerType
    <3>4. y.frame.rev \in Nat /\ device.rev \in Nat /\ d2.rev \in Nat
      BY <1>1, <1>12, <3>3 DEF FrameType, DeviceType
    <3>5. device.rev <= d2.rev
      BY <1>11 DEF Moved
    <3>6. QED BY <1>16, <3>1, <3>4, <3>5
  <2>3. Sorted(Append(in, x))
    BY <1>1, <1>16, <2>1, <2>2, AppendSorted
  <2>4. QED BY <1>14, <2>3 DEF Sorted
<1>24. Moved(device, device', open', own, since, own2, since2) /\ open' \subseteq open
  BY <1>11, <1>14
<1>25. \A y \in Elems(in)' : y \in Elems(in)
          \/ (AnswerSound(y) /\ FrameSound(y.frame, own2, since2)' /\ y.req \in Elems(out)
              /\ y.frame.rev = device'.rev)
  BY <1>3, <1>14, <1>16, <1>17, <1>18, <1>20
<1>26. UNCHANGED <<now, h, order, claims, release, shown, opened>>
  BY <1>14 DEF rest
<1>27. LeaseKept(own2, since2)'
  BY <1>20, <1>21, <1>22, <1>23, <1>24, <1>25, <1>26, DeviceStep
<1>28. QED BY <1>27 DEF Kept

(* Steps of the device that answer nothing.                                *)
LEMMA SilentStep ==
  ASSUME NEW own, NEW since, LeaseKept(own, since), NEW own2, NEW since2,
         Moved(device, device', open', own, since, own2, since2), open' \subseteq open,
         UNCHANGED <<now, h, order, claims, release, shown, opened, in, out>>,
         tail' \in Seq(RequestType), Elems(tail)' \subseteq Elems(tail)
  PROVE  Kept'
<1>1. LeaseTyped'
  BY DEF LeaseTyped, LeaseKept, Moved
<1>2. SessionsSound'
  BY DEF SessionsSound, LeaseKept
<1>3. Elems(in)' = Elems(in) /\ Elems(out)' = Elems(out) /\ Sorted(in)'
  BY DEF Elems, Sorted, LeaseKept, ReadInOrder
<1>4. LeaseKept(own2, since2)'
  BY <1>1, <1>2, <1>3, DeviceStep
<1>5. QED BY <1>4 DEF Kept

LEMMA ServeLateKept ==
  ASSUME NEW own, NEW since, LeaseKept(own, since), ServeLate
  PROVE  Kept'
<1>1. /\ now \in Nat /\ opened \in Nat /\ device \in DeviceType /\ DeviceSound(device, own, since)
      /\ tail \in Seq(RequestType) /\ tail # <<>>
  BY DEF LeaseKept, LeaseTyped, ServeLate
<1>2. PICK r : r = Head(tail)
  OBVIOUS
<1>3. /\ r \in RequestType /\ r \in Elems(tail) /\ Tail(tail) \in Seq(RequestType)
      /\ Elems(Tail(tail)) \subseteq Elems(tail)
  BY <1>1, <1>2, TailElems
<1>4. r.session \in 1..opened
  BY <1>1, <1>3 DEF LeaseKept, SessionsSound, NoSession, RequestType
<1>5. /\ device' = IF r.session \in open THEN Served(Swept(device), r) ELSE device
      /\ tail' = Tail(tail)
      /\ UNCHANGED <<now, h, order, claims, release, shown, opened, in, out, open>>
  BY <1>2 DEF ServeLate, rest
<1>6. \E own2, since2 : Moved(device, device', open, own, since, own2, since2)
  <2>1. CASE r.session \notin open
    BY <1>1, <1>5, <2>1, StillMoved
  <2>2. CASE r.session \in open
    <3>1. PICK d1 : d1 = Swept(device)
      OBVIOUS
    <3>2. Moved(device, d1, open, own, since, own, since)
      BY <1>1, <3>1, SweptMoved
    <3>3. d1 \in DeviceType /\ DeviceSound(d1, own, since) /\ device' = Served(d1, r)
      BY <1>5, <2>2, <3>1, <3>2 DEF Moved
    <3>4. PICK own2, since2 : Moved(d1, device', open, own, since, own2, since2)
      BY <1>1, <1>3, <1>4, <3>3, ServedMoved
    <3>5. Moved(device, device', open, own, since, own2, since2)
      BY <1>1, <3>2, <3>3, <3>4, MovedTwice
    <3>6. QED BY <3>5
  <2>3. QED BY <2>1, <2>2
<1>7. tail' \in Seq(RequestType) /\ Elems(tail)' \subseteq Elems(tail)
  BY <1>3, <1>5 DEF Elems
<1>8. QED BY <1>5, <1>6, <1>7, SilentStep

LEMMA AloneKept ==
  ASSUME NEW own, NEW since, LeaseKept(own, since),
         Sweep \/ Change \/ \E s \in open : CloseSession(s)
  PROVE  Kept'
<1>1. now \in Nat /\ device \in DeviceType /\ DeviceSound(device, own, since)
        /\ tail \in Seq(RequestType)
  BY DEF LeaseKept, LeaseTyped
<1>2. /\ UNCHANGED <<now, h, order, claims, release, shown, opened, in, out, tail>>
      /\ open' \subseteq open /\ Elems(tail)' \subseteq Elems(tail)
  BY DEF Sweep, Change, CloseSession, rest, wire, Elems
<1>3. Moved(device, device', open', own, since, own, since)
  <2>1. CASE Sweep
    BY <1>1, <2>1, SweptMoved DEF Sweep
  <2>2. CASE Change
    <3>1. device' = [device EXCEPT !.rev = device.rev + 1]
      BY <2>2 DEF Change
    <3>2. QED BY <1>1, <3>1, ChangedMoved
  <2>3. ASSUME NEW s \in open, CloseSession(s)
        PROVE  Moved(device, device', open', own, since, own, since)
    <3>1. CASE device.lease # NoLease /\ device.owner = s
      <4>1. device' = Forfeited(device) /\ own[device.lease] \notin open'
        BY <1>1, <2>3, <3>1 DEF CloseSession, DeviceSound
      <4>2. QED BY <1>1, <4>1, ForfeitedMoved
    <3>2. CASE ~(device.lease # NoLease /\ device.owner = s)
      BY <1>1, <2>3, <3>2, StillMoved DEF CloseSession
    <3>3. QED BY <3>1, <3>2
  <2>4. QED BY <2>1, <2>2, <2>3
<1>4. QED BY <1>1, <1>2, <1>3, SilentStep

LEMMA TickKept ==
  ASSUME NEW own, NEW since, LeaseKept(own, since), Tick
  PROVE  LeaseKept(own, since)'
<1>1. /\ now \in Nat /\ now' = now + 1
      /\ UNCHANGED <<h, order, claims, release, shown, opened, device, open, in, out, tail>>
      /\ device \in DeviceType /\ DeviceSound(device, own, since)
  BY DEF LeaseKept, LeaseTyped, Tick, rest, wire
<1>2. LeaseTyped'
  BY <1>1 DEF LeaseKept, LeaseTyped
<1>3. SessionsSound' /\ ReadInOrder' /\ \A x \in Elems(in)' : AnswerSound(x)'
  BY <1>1 DEF LeaseKept, SessionsSound, ReadInOrder, Sorted, Elems, ReadFrames, AnswerSound
<1>4. DeviceSound(device, own, since)'
  BY <1>1, LeaseAssumption DEF DeviceSound, DeviceType
<1>5. \A l, e \in Int : Granted(own, l, e) => Granted(own, l, e)'
  BY <1>1 DEF Granted
<1>6. HostSound(h, own, since)'
  <2>1. h.lease \in Int /\ h.expires \in Int /\ HostSound(h, own, since)
    BY DEF LeaseKept, HostSound, HostType
  <2>2. Granted(own, h.lease, h.expires)'
    BY <1>1, <2>1 DEF HostSound, Granted
  <2>3. QED BY <1>1, <2>1, <2>2 DEF HostSound
<1>7. \A f \in Told' : FrameSound(f, own, since)'
  <2>1. SUFFICES ASSUME NEW f \in Told PROVE FrameSound(f, own, since)'
    BY <1>1 DEF Told, ReadFrames, Elems
  <2>2. f \in FrameType
    <3>1. \A x \in Elems(in) : x \in AnswerType
      BY ElemsTyped DEF LeaseKept, LeaseTyped
    <3>2. \A x \in Elems(in) : x.frame \in FrameType
      BY <3>1 DEF AnswerType
    <3>3. \A g \in ReadFrames : g \in FrameType
      BY DEF LeaseKept, LeaseTyped, ReadFrames, ClaimType
    <3>4. QED BY <3>2, <3>3 DEF Told
  <2>3. f.lease \in Int /\ f.expires \in Int /\ FrameSound(f, own, since)
    BY <2>1, <2>2 DEF LeaseKept, FrameType
  <2>4. Granted(own, f.lease, f.expires)'
    BY <1>5, <2>3 DEF FrameSound
  <2>5. QED BY <1>1, <2>3, <2>4 DEF FrameSound
<1>8. \A r \in Asked' : RequestSound(r)'
  <2>1. Asked' = Asked
    BY <1>1 DEF Asked, Elems
  <2>2. \A r \in Asked : r \in RequestType
    <3>1. \A x \in Elems(in) : x \in AnswerType
      BY ElemsTyped DEF LeaseKept, LeaseTyped
    <3>2. \A x \in Elems(in) : x.req \in RequestType
      BY <3>1 DEF AnswerType
    <3>3. \A r \in Elems(out) : r \in RequestType
      BY ElemsTyped DEF LeaseKept, LeaseTyped
    <3>4. QED BY <3>2, <3>3 DEF Asked
  <2>3. SUFFICES ASSUME NEW r \in Asked PROVE RequestSound(r)'
    BY <2>1
  <2>4. r.started \in Nat /\ RequestSound(r)
    BY <2>2, <2>3 DEF RequestType, LeaseKept
  <2>5. QED BY <1>1, <2>4 DEF RequestSound
<1>9. QED BY <1>2, <1>3, <1>4, <1>6, <1>7, <1>8 DEF LeaseKept

LEMMA LeaseStutter ==
  ASSUME NEW own, NEW since, LeaseKept(own, since), UNCHANGED leaseVars
  PROVE  LeaseKept(own, since)'
<1>1. HostOnly /\ in' = in /\ out' = out /\ h' = h /\ ReadFrames' = ReadFrames
  BY DEF leaseVars, HostOnly, ReadFrames, rest, wire
<1>2. HostSound(h, own, since)'
  BY <1>1, HostKept DEF LeaseKept
<1>3. LeaseTyped'
  BY DEF LeaseKept, LeaseTyped, leaseVars, rest, wire
<1>4. QED BY <1>1, <1>2, <1>3, KeepAnswers

LEMMA LeaseBegins ==
  ASSUME LeaseInit
  PROVE  Kept
<1> DEFINE own == [l \in Nat |-> 0]
<1>1. LeaseTyped
  BY NoFrameSound DEF LeaseInit, LeaseTyped, NoOrder, NoRelease, NoFrame, OrderType, TokenType,
       DeviceType,
     FrameType, NoLease, NoSession
<1>2. PICK x : x = [gen |-> 0]
  OBVIOUS
<1>3. h \in HostType /\ h.lease = NoLease /\ h.session = NoSession /\ h.order[1] = -1
  <2>1. h = ResetTo(x, NoSession) /\ <<-1, -1>> \in OrdType /\ x.gen + 1 = 1
    BY <1>2 DEF LeaseInit, OrdType
  <2>2. QED BY <2>1 DEF ResetTo, HostType, NoLease, NoSession
<1>4. HostSound(h, own, 0)
  BY <1>1, <1>3, NoLeaseSound
<1>5. Elems(in) = {} /\ Elems(out) = {} /\ Elems(tail) = {}
  BY DEF LeaseInit, Elems
<1>6. SessionsSound
  BY <1>3, <1>5 DEF LeaseInit, SessionsSound, NoSession
<1>7. ReadInOrder
  BY <1>3, <1>5 DEF LeaseInit, ReadInOrder, Sorted
<1>8. DeviceSound(device, own, 0)
  BY LeaseAssumption DEF LeaseInit, DeviceSound, NoLease
<1>9. Told = {NoFrame} /\ Asked = {}
  BY <1>5 DEF Told, ReadFrames, Asked, LeaseInit
<1>10. FrameSound(NoFrame, own, 0)
  BY <1>1, <1>8, NoFrameSound
<1>11. LeaseKept(own, 0)
  BY <1>1, <1>4, <1>5, <1>6, <1>7, <1>8, <1>9, <1>10 DEF LeaseKept
<1>12. QED BY <1>11 DEF Kept

LEMMA LeaseStep ==
  ASSUME NEW own, NEW since, LeaseKept(own, since), [LeaseNext]_leaseVars
  PROVE  Kept' /\ (h.lease # NoLease /\ h'.session = h.session => Dropped(h, h'))
<1>1. LeaseKept(own, since)' => Kept'
  BY DEF Kept
<1>2. h.lease # NoLease => h.session # NoSession
  <2>1. /\ h.lease \in Nat /\ device.issued \in Nat /\ h.lease <= device.issued /\ opened \in Nat
        /\ h.lease # NoLease => own[h.lease] = h.session
    BY DEF LeaseKept, HostSound, HostType, DeviceType, LeaseTyped
  <2>2. h.lease # NoLease => own[h.lease] \in 1..opened
    BY <2>1 DEF LeaseKept, DeviceSound, NoLease
  <2>3. QED BY <2>1, <2>2 DEF NoSession
<1>3. h' = h \/ h'.lease = h.lease \/ h'.session = NoSession => (h.lease # NoLease /\ h'.session = h.session => Dropped(h, h'))
  BY <1>2 DEF Dropped
<1>4. Ended => (h.lease # NoLease /\ h'.session = h.session => Dropped(h, h'))
  BY <1>3 DEF Ended
<1>5. CASE Connect
  BY <1>1, <1>2, <1>5, ConnectKept DEF Connect
<1>6. CASE Disconnect \/ ExpireLocally \/ TimeoutHeartbeat
  BY <1>1, <1>4, <1>6, LeavingKept
<1>7. CASE SendHeartbeat
  BY <1>1, <1>3, <1>7, SendHeartbeatKept DEF SendHeartbeat
<1>8. CASE ReadStatus
  BY <1>1, <1>3, <1>8, ReadStatusKept DEF ReadStatus
<1>9. CASE BeginAcquire \/ BeginCommand
  BY <1>1, <1>3, <1>9, BeginOrderKept DEF BeginAcquire, BeginCommand
<1>10. CASE BeginRelease
  BY <1>1, <1>3, <1>10, BeginReleaseKept
<1>11. CASE FinishQuiesce
  BY <1>1, <1>3, <1>11, FinishQuiesceKept
<1>12. CASE Write
  BY <1>1, <1>3, <1>12, WriteKept DEF Write
<1>13. CASE RefuseWrite
  BY <1>1, <1>3, <1>13, RefuseWriteKept
<1>14. CASE TimeoutOrder
  BY <1>1, <1>3, <1>14, TimeoutOrderKept
<1>15. CASE LearnGrant \/ ForgetStatus
  BY <1>1, <1>3, <1>15, RememberedKept DEF LearnGrant, ForgetStatus
<1>16. CASE HeartbeatAnswered
  BY <1>1, <1>4, <1>16, HeartbeatAnsweredKept
<1>17. CASE StatusAnswered
  BY <1>1, <1>4, <1>17, StatusAnsweredKept
<1>18. CASE AcquireAnswered
  BY <1>1, <1>4, <1>18, AcquireAnsweredKept
<1>19. CASE OwnershipAnswered
  BY <1>1, <1>4, <1>19, OwnershipAnsweredKept
<1>20. CASE CommandAnswered
  BY <1>1, <1>4, <1>20, CommandAnsweredKept
<1>21. CASE ReleaseAnswered
  BY <1>1, <1>4, <1>21, ReleaseAnsweredKept
<1>22. CASE BeginConfirm
  BY <1>1, <1>4, <1>22, BeginConfirmKept
<1>23. CASE \E c \in claims : FinishConfirm(c)
  BY <1>1, <1>4, <1>23, FinishConfirmKept
<1>24. CASE Serve
  BY <1>3, <1>24, ServeKept DEF Serve
<1>25. CASE ServeLate
  BY <1>3, <1>25, ServeLateKept DEF ServeLate
<1>26. CASE Sweep \/ Change \/ \E s \in open : CloseSession(s)
  BY <1>3, <1>26, AloneKept DEF Sweep, Change, CloseSession
<1>27. CASE Tick
  BY <1>1, <1>3, <1>27, TickKept DEF Tick
<1>28. CASE UNCHANGED leaseVars
  BY <1>1, <1>3, <1>28, LeaseStutter DEF leaseVars
<1>29. QED
  BY <1>5, <1>6, <1>7, <1>8, <1>9, <1>10, <1>11, <1>12, <1>13, <1>14, <1>15, <1>16, <1>17, <1>18,
     <1>19, <1>20, <1>21, <1>22, <1>23, <1>24, <1>25, <1>26, <1>27, <1>28 DEF LeaseNext

LEMMA LeaseAlwaysKept == LeaseSpec => []Kept
<1>1. LeaseInit => Kept
  BY LeaseBegins
<1>2. Kept /\ [LeaseNext]_leaseVars => Kept'
  BY LeaseStep DEF Kept
<1>3. QED BY <1>1, <1>2, PTL DEF LeaseSpec

-----------------------------------------------------------------------------
(* The results.                                                            *)

(* Evidence the host holds valid names the lease the device grants to its  *)
(* session, and runs out no later: whatever the order in which frames are  *)
(* used, and whatever the device serves of the sessions before             *)
(* (LeaseContext, state.py).                                               *)
THEOREM EvidenceIsGranted == LeaseSpec => []EvidenceSound
<1>1. ASSUME NEW own, NEW since, LeaseKept(own, since)
      PROVE  EvidenceSound
  <2>1. SUFFICES ASSUME HasEvidence(h), h.session \in open, h.lease \notin device.released
                 PROVE  h.lease = device.lease /\ device.owner = h.session
                          /\ h.expires <= device.expires
    BY DEF EvidenceSound
  <2>2. h.lease # NoLease /\ h.expires > now /\ own[h.lease] = h.session
    BY <1>1, <2>1 DEF HasEvidence, LeaseKept, HostSound
  <2>3. device.lease = h.lease /\ h.expires <= device.expires
    BY <1>1, <2>1, <2>2 DEF LeaseKept, HostSound, Granted
  <2>4. own[device.lease] = device.owner
    BY <1>1, <2>2, <2>3 DEF LeaseKept, DeviceSound
  <2>5. QED BY <2>2, <2>3, <2>4
<1>2. Kept => EvidenceSound
  BY <1>1 DEF Kept
<1>3. QED BY <1>2, LeaseAlwaysKept, PTL

(* No reply, however old, makes the host give up a lease that the device   *)
(* still grants and that has not run out: it keeps it until the session    *)
(* ends (observe_status(), heartbeat(), confirm(), finish_release()).      *)
THEOREM OldRepliesRevokeNothing == LeaseSpec => NoReplyRevokesNewer
<1>1. ASSUME Kept, [LeaseNext]_leaseVars
      PROVE  [h.lease # NoLease /\ h'.session = h.session /\ h'.lease # h.lease
                => h.expires <= now \/ device.lease # h.lease]_leaseVars
  BY <1>1, LeaseStep DEF Kept, Dropped
<1>2. QED BY <1>1, LeaseAlwaysKept, PTL DEF LeaseSpec, NoReplyRevokesNewer

LEMMA OtherSessionServed ==
  ASSUME NEW d \in DeviceType, NEW r \in RequestType, d.lease # NoLease, d.owner # r.session
  PROVE  Served(d, r).lease = d.lease /\ Served(d, r).expires = d.expires
<1>1. ~Holds(d, r)
  BY DEF Holds
<1>2. r.kind \in {"acquire", "release", "command"} => ~Permitted(d, r)
  BY <1>1 DEF Permitted
<1>3. Served(d, r) = d
  BY <1>1, <1>2 DEF Served, RequestType
<1>4. QED BY <1>3

(* Neither the requests still on their way from a session the host left    *)
(* nor its end touch the lease of the session it is in now                 *)
(* (lease_valid(), and the close handler of the device's connection).      *)
THEOREM OldSessionsTakeNothing == LeaseSpec => NewSessionKeepsLease
<1> DEFINE Owned == device.lease # NoLease /\ device.owner = h.session /\ now < device.expires
                    /\ out' = out /\ h' = h /\ h.session \in open'
           Stays == device'.lease = device.lease /\ device'.expires = device.expires
<1>1. ASSUME NEW own, NEW since, LeaseKept(own, since), [LeaseNext]_leaseVars, Owned
      PROVE  Stays
  <2>1. device \in DeviceType /\ now \in Nat /\ out \in Seq(RequestType) /\ tail \in Seq(RequestType)
    BY <1>1 DEF LeaseKept, LeaseTyped
  <2>2. Swept(device) = device
    BY <1>1, <2>1 DEF Swept, DeviceType
  <2>3. CASE Serve
    <3>1. Len(out) > 0 /\ out' = Tail(out)
      BY <2>3 DEF Serve
    <3>2. Len(out') # Len(out)
      BY <2>1, <3>1
    <3>3. QED BY <1>1, <3>2
  <2>4. CASE ServeLate
    <3>1. PICK r : r = Head(tail)
      OBVIOUS
    <3>2. tail # <<>> /\ device' = IF r.session \in open THEN Served(device, r) ELSE device
      BY <2>1, <2>2, <2>4, <3>1 DEF ServeLate
    <3>3. r \in RequestType /\ r \in Elems(tail)
      BY <2>1, <3>1, <3>2, TailElems
    <3>4. r.session # h.session
      BY <1>1, <3>3 DEF LeaseKept, SessionsSound
    <3>5. Served(device, r).lease = device.lease /\ Served(device, r).expires = device.expires
      BY <1>1, <2>1, <3>3, <3>4, OtherSessionServed
    <3>6. QED BY <3>2, <3>5
  <2>5. CASE \E s \in open : CloseSession(s)
    BY <1>1, <2>5 DEF CloseSession
  <2>6. CASE Sweep
    BY <2>2, <2>6 DEF Sweep
  <2>7. CASE Change
    BY <2>1, <2>7 DEF Change, DeviceType
  <2>8. DropSession(h) \/ DropSession(Expired(h)) => UNCHANGED device
    BY DEF DropSession
  <2>9. \A token : FailRelease(token) => UNCHANGED device
    BY <2>8 DEF FailRelease
  <2>10. CASE Connect \/ Disconnect \/ ExpireLocally \/ SendHeartbeat \/ ReadStatus \/ BeginAcquire
              \/ BeginCommand \/ BeginRelease \/ FinishQuiesce \/ Write
    BY <2>8, <2>10 DEF Connect, Disconnect, ExpireLocally, SendHeartbeat, ReadStatus, BeginAcquire,
       BeginCommand, BeginRelease, FinishQuiesce, Write
  <2>11. CASE RefuseWrite \/ TimeoutOrder \/ TimeoutHeartbeat \/ LearnGrant
    BY <2>8, <2>9, <2>11 DEF RefuseWrite, TimeoutOrder, TimeoutHeartbeat, LearnGrant
  <2>12. CASE HeartbeatAnswered \/ AcquireAnswered \/ CommandAnswered \/ ReleaseAnswered \/ BeginConfirm
              \/ ForgetStatus \/ Tick \/ \E c \in claims : FinishConfirm(c)
    BY <2>8, <2>12 DEF HeartbeatAnswered, AcquireAnswered, CommandAnswered, ReleaseAnswered,
         BeginConfirm,
       ForgetStatus, Tick, FinishConfirm, Taken
  <2>13. CASE StatusAnswered \/ OwnershipAnswered
    BY <2>13 DEF StatusAnswered, OwnershipAnswered, Taken, DropSession
  <2>14. CASE UNCHANGED leaseVars
    BY <2>14 DEF leaseVars
  <2>15. QED
    BY <1>1, <2>3, <2>4, <2>5, <2>6, <2>7, <2>10, <2>11, <2>12, <2>13, <2>14 DEF LeaseNext
<1>2. ASSUME Kept, [LeaseNext]_leaseVars
      PROVE  [Owned => Stays]_leaseVars
  BY <1>1, <1>2 DEF Kept
<1>3. QED BY <1>2, LeaseAlwaysKept, PTL DEF LeaseSpec, NewSessionKeepsLease

-----------------------------------------------------------------------------
(* The types of the lease.                                                 *)

(* A frame that tells of a lease tells of one that has not run out, so that *)
(* the deadline taken from it is a time after the request was made.        *)
Timely(f) == f.expires \in Times /\ (f.lease # NoLease => f.uptime <= f.expires)

LeaseBounded ==
  /\ now <= MaxNow /\ opened <= MaxSession /\ open \subseteq 1..opened
  /\ device.issued <= MaxLease /\ granted \subseteq 1..device.issued
  /\ h.expires \in Times
  /\ \A f \in Told : Timely(f)
  /\ \A x \in Elems(in) : x.req.kind = "acquire" /\ x.frame.ok => x.frame.lease # NoLease

LEMMA TimesType ==
  /\ Times \subseteq Nat /\ 0 \in Times
  /\ MaxNow \in Nat /\ MaxSession \in Nat /\ MaxLease \in Nat /\ MaxRev \in Nat
  /\ LeaseMs \in Nat /\ LeaseMs > 0
BY LeaseAssumption DEF Times

LEMMA DeadlineTimely ==
  ASSUME NEW own, NEW since, NEW f \in FrameType, FrameSound(f, own, since), Timely(f),
         f.lease # NoLease
  PROVE  Deadline(f) \in Times
<1>1. /\ f.started \in Nat /\ f.uptime \in Nat /\ f.expires \in Nat /\ f.started <= f.uptime
      /\ f.uptime <= f.expires /\ f.expires \in 0..MaxNow + LeaseMs
  BY DEF FrameType, FrameSound, Timely, Times
<1>2. QED BY <1>1, TimesType DEF Deadline, Times

(* What LeaseContext makes of a frame leaves it a time.                     *)
LEMMA ExpiredTimely ==
  ASSUME NEW own, NEW since, LeaseKept(own, since), h.expires \in Times
  PROVE  Expired(h) \in HostType /\ Expired(h).expires \in Times
<1>1. HostSound(Expired(h), own, since)
  BY ExpiredSound DEF LeaseKept
<1>2. h \in HostType
  BY DEF LeaseKept, HostSound
<1>3. Expired(h).expires \in {h.expires, 0}
  BY <1>2 DEF Expired, Cleared, HostType
<1>4. QED BY <1>1, <1>3, TimesType DEF HostSound

LEMMA ObservedTimely ==
  ASSUME NEW own, NEW since, LeaseKept(own, since), h.expires \in Times,
         NEW f \in FrameType, FrameSound(f, own, since), Timely(f)
  PROVE  Observed(h, f).expires \in Times
<1> DEFINE e == Expired(h)
           owned == f.lease # NoLease /\ f.owner = e.session
           seen == [e EXCEPT !.minRev = f.rev, !.order = Ord(f)]
           settled == IF e.lease # NoLease /\ ~(owned /\ f.lease = e.lease) THEN Cleared(seen) ELSE seen
<1>1. e \in HostType /\ e.expires \in Times
  BY ExpiredTimely
<1>2. Observed(h, f) \in {h, e, [settled EXCEPT !.expires = Deadline(f)], settled}
        /\ (Observed(h, f) \in {h, e, settled} \/ f.lease # NoLease)
  BY DEF Observed
<1>3. f.rev \in Nat /\ Ord(f) \in OrdType
  BY DEF FrameType, Ord, OrdType
<1>4. seen \in HostType /\ seen.expires = e.expires
  BY <1>1, <1>3 DEF HostType
<1>5. settled \in HostType /\ settled.expires \in Times
  <2>1. Cleared(seen) \in HostType /\ Cleared(seen).expires = 0
    BY <1>4, ClearedSound DEF Cleared, HostType
  <2>2. QED BY <1>1, <1>4, <2>1, TimesType
<1>6. f.lease # NoLease => Deadline(f) \in Times
  BY DeadlineTimely
<1>7. CASE Observed(h, f) \in {h, e, settled}
  BY <1>1, <1>5, <1>7
<1>8. CASE Observed(h, f) = [settled EXCEPT !.expires = Deadline(f)] /\ f.lease # NoLease
  <2>1. [settled EXCEPT !.expires = Deadline(f)].expires = Deadline(f)
    BY <1>5 DEF HostType
  <2>2. QED BY <1>6, <1>8, <2>1
<1>9. QED BY <1>2, <1>7, <1>8

LEMMA ConfirmedTimely ==
  ASSUME NEW own, NEW since, LeaseKept(own, since), h.expires \in Times,
         NEW f \in FrameType, FrameSound(f, own, since), Timely(f), NEW token, NEW lease
  PROVE  Confirmed(h, f, token, lease).expires \in Times
<1>1. PICK e : e = Expired(h)
  OBVIOUS
<1>2. e \in HostType /\ e.expires \in Times
  BY <1>1, ExpiredTimely
<1>3. CASE ~Confirmable(e, f, token, lease)
  BY <1>1, <1>2, <1>3 DEF Confirmed
<1>4. CASE Confirmable(e, f, token, lease)
  <2>1. Deadline(f) \in Times
    BY <1>4, DeadlineTimely DEF Confirmable
  <2>2. Confirmed(h, f, token, lease).expires = Deadline(f)
    BY <1>1, <1>2, <1>4 DEF Confirmed, HostType
  <2>3. QED BY <2>1, <2>2
<1>5. QED BY <1>3, <1>4

LEMMA RenewedTimely ==
  ASSUME NEW own, NEW since, LeaseKept(own, since), h.expires \in Times,
         NEW f \in FrameType, FrameSound(f, own, since), Timely(f), NEW token, NEW asked,
         ~BeatRefused(h, f, token, asked)
  PROVE  Renewed(h, f, token, asked).expires \in Times
<1>1. h \in HostType
  BY DEF LeaseKept, HostSound
<1>2. asked # NoLease => Deadline(f) \in Times
  BY DeadlineTimely DEF BeatRefused
<1>3. \/ Renewed(h, f, token, asked).expires = h.expires
      \/ asked # NoLease /\ Renewed(h, f, token, asked).expires = Deadline(f)
  BY <1>1 DEF Renewed, HostType
<1>4. QED BY <1>2, <1>3

(* A step of the host adds nothing to what it was told.                    *)
LEMMA HostBounded ==
  ASSUME LeaseBounded, UNCHANGED <<now, open, opened, device>>, granted' \subseteq 1..device.issued,
         h'.expires \in Times, \A x \in Elems(in)' : \E y \in Elems(in) : SameAnswer(x, y),
         ReadFrames' \subseteq Told \cup {NoFrame}
  PROVE  LeaseBounded'
<1>1. Timely(NoFrame)
  BY TimesType DEF Timely, NoFrame
<1>2. Told' \subseteq Told \cup {NoFrame}
  BY DEF Told, SameAnswer
<1>3. \A f \in Told' : Timely(f)
  BY <1>1, <1>2 DEF LeaseBounded
<1>4. \A f \in Told' : Timely(f)'
  BY <1>3 DEF Timely
<1>5. \A x \in Elems(in)' : x.req.kind = "acquire" /\ x.frame.ok => x.frame.lease # NoLease
  BY DEF LeaseBounded, SameAnswer
<1>6. QED BY <1>4, <1>5 DEF LeaseBounded

LEMMA DropBounded ==
  ASSUME LeaseBounded, NEW x, DropSession(x), UNCHANGED <<now, open>>
  PROVE  LeaseBounded'
<1>1. /\ UNCHANGED <<now, open, opened, device, granted, claims, shown>>
      /\ h' = ResetTo(x, NoSession) /\ in' = <<>>
  BY DEF DropSession
<1>2. h'.expires = 0
  BY <1>1 DEF ResetTo
<1>3. Elems(in)' = {} /\ ReadFrames' \subseteq Told
  BY <1>1 DEF Elems, ReadFrames, Told
<1>4. QED BY <1>1, <1>2, <1>3, TimesType, HostBounded DEF LeaseBounded

LEMMA KeptBounded ==
  ASSUME LeaseBounded, UNCHANGED <<now, open, opened, device, granted, claims, in>>,
         h'.expires \in Times, shown' \in {shown, NoFrame}
  PROVE  LeaseBounded'
<1>1. Elems(in)' = Elems(in) /\ ReadFrames' \subseteq Told \cup {NoFrame}
  BY DEF Elems, ReadFrames, Told
<1>2. \A x \in Elems(in)' : \E y \in Elems(in) : SameAnswer(x, y)
  BY <1>1 DEF SameAnswer, SameRequest
<1>3. QED BY <1>1, <1>2, HostBounded DEF LeaseBounded

LEMMA ReadBounded ==
  ASSUME NEW own, NEW since, LeaseKept(own, since), LeaseBounded, Len(in) > 0, in' = Tail(in),
         UNCHANGED <<now, open, opened, device>>, granted' \subseteq 1..device.issued,
         h'.expires \in Times, ReadFrames' \subseteq Told
  PROVE  LeaseBounded'
<1>1. in # <<>> /\ in \in Seq(AnswerType)
  BY HeadSound
<1>2. Elems(Tail(in)) \subseteq Elems(in)
  BY <1>1, TailElems
<1>3. Elems(in)' \subseteq Elems(in)
  BY <1>2 DEF Elems
<1>4. \A x \in Elems(in)' : \E y \in Elems(in) : SameAnswer(x, y)
  BY <1>3 DEF SameAnswer, SameRequest
<1>5. QED BY <1>4, HostBounded

LEMMA HeadTimely ==
  ASSUME NEW own, NEW since, LeaseKept(own, since), LeaseBounded, Len(in) > 0
  PROVE  /\ Head(in).frame \in FrameType /\ FrameSound(Head(in).frame, own, since)
         /\ Timely(Head(in).frame) /\ Head(in).frame \in Told /\ Head(in) \in Elems(in)
<1>1. Head(in) \in Elems(in)
  BY HeadSound
<1>2. Head(in).frame \in Told
  BY <1>1 DEF Told
<1>3. QED BY <1>1, <1>2, HeadSound DEF LeaseBounded

LEMMA ReadingBounded ==
  ASSUME NEW own, NEW since, LeaseKept(own, since), LeaseBounded,
         \/ HeartbeatAnswered \/ StatusAnswered \/ AcquireAnswered \/ OwnershipAnswered
         \/ CommandAnswered \/ ReleaseAnswered
  PROVE  LeaseBounded'
<1> DEFINE r == Head(in).req
           f == Head(in).frame
<1>1. Len(in) > 0 /\ h.expires \in Times /\ granted \subseteq 1..device.issued /\ h \in HostType
  BY DEF HeartbeatAnswered, StatusAnswered, AcquireAnswered, OwnershipAnswered, CommandAnswered,
     ReleaseAnswered, Arrived, LeaseBounded, LeaseKept, HostSound
<1>2. f \in FrameType /\ FrameSound(f, own, since) /\ Timely(f) /\ f \in Told /\ Head(in) \in Elems(in)
  BY <1>1, HeadTimely
<1>3. ReadFrames \subseteq Told /\ Observed(h, f).expires \in Times
  BY <1>1, <1>2, ObservedTimely DEF Told
<1>4. CASE \E x : DropSession(x) /\ UNCHANGED <<now, open>>
  BY <1>4, DropBounded
<1>5. CASE HeartbeatAnswered
  <2>1. CASE ~BeatRefused(h, f, r.token, r.lease) /\ h' = Renewed(h, f, r.token, r.lease)
               /\ Taken /\ UNCHANGED <<order, claims, release, rest>>
    <3>1. h'.expires \in Times
      BY <1>1, <1>2, <2>1, RenewedTimely
    <3>2. UNCHANGED <<now, open, opened, device, granted, claims, shown>> /\ in' = Tail(in)
      BY <2>1 DEF Taken, rest
    <3>3. ReadFrames' \subseteq Told
      BY <1>3, <3>2 DEF ReadFrames
    <3>4. QED BY <1>1, <3>1, <3>2, <3>3, ReadBounded
  <2>2. QED BY <1>4, <1>5, <2>1 DEF HeartbeatAnswered
<1>6. CASE StatusAnswered
  <2>1. CASE h' = Observed(h, f) /\ shown' \in {shown, f} /\ Taken
               /\ UNCHANGED <<order, claims, release, granted, asks, opened>>
    <3>1. ReadFrames' \subseteq Told
      BY <1>2, <1>3, <2>1 DEF ReadFrames
    <3>2. UNCHANGED <<now, open, opened, device, granted>> /\ in' = Tail(in)
      BY <2>1 DEF Taken
    <3>3. QED BY <1>1, <1>3, <2>1, <3>1, <3>2, ReadBounded
  <2>2. QED BY <1>4, <1>6, <2>1 DEF StatusAnswered
<1>7. CASE AcquireAnswered
  <2>1. /\ UNCHANGED <<now, h, open, opened, device, claims, shown>> /\ in' = Tail(in)
        /\ r.kind = "acquire" /\ granted' = IF r.live /\ f.ok THEN granted \cup {f.lease} ELSE granted
    BY <1>7 DEF AcquireAnswered, Arrived
  <2>2. f.ok => f.lease # NoLease
    BY <1>2, <2>1 DEF LeaseBounded
  <2>3. f.lease \in Nat /\ device.issued \in Nat /\ f.lease <= device.issued
    BY <1>2 DEF FrameType, FrameSound, LeaseKept, LeaseTyped, DeviceType
  <2>4. f.ok => f.lease \in 1..device.issued
    BY <2>2, <2>3 DEF NoLease
  <2>5. granted' \subseteq 1..device.issued
    BY <1>1, <2>1, <2>4
  <2>6. ReadFrames' \subseteq Told
    BY <1>3, <2>1 DEF ReadFrames
  <2>7. QED BY <1>1, <2>1, <2>5, <2>6, ReadBounded
<1>8. CASE OwnershipAnswered
  <2>1. CASE /\ h' = Observed(h, f) /\ Taken /\ UNCHANGED <<release, rest>>
             /\ claims' = claims \cup {[token |-> r.token, frame |-> f, lease |-> r.lease,
                                        for |-> "acquire"]}
    <3>1. ReadFrames' \subseteq Told
      BY <1>2, <1>3, <2>1 DEF ReadFrames, rest
    <3>2. UNCHANGED <<now, open, opened, device, granted>> /\ in' = Tail(in)
      BY <2>1 DEF Taken, rest
    <3>3. QED BY <1>1, <1>3, <2>1, <3>1, <3>2, ReadBounded
  <2>2. QED BY <1>4, <1>8, <2>1 DEF OwnershipAnswered
<1>9. CASE CommandAnswered \/ ReleaseAnswered
  <2>1. CASE /\ Taken /\ UNCHANGED <<claims, rest>> /\ h' \in {h, Cleared(h)}
    <3>1. UNCHANGED <<now, open, opened, device, granted, claims, shown>> /\ in' = Tail(in)
      BY <2>1 DEF Taken, rest
    <3>2. h'.expires \in Times
      BY <1>1, <2>1, TimesType DEF Cleared, HostType
    <3>3. ReadFrames' \subseteq Told
      BY <1>3, <3>1 DEF ReadFrames
    <3>4. QED BY <1>1, <3>1, <3>2, <3>3, ReadBounded
  <2>2. QED BY <1>4, <1>9, <2>1 DEF CommandAnswered, ReleaseAnswered
<1>10. QED BY <1>5, <1>6, <1>7, <1>8, <1>9

LEMMA ConfirmingBounded ==
  ASSUME NEW own, NEW since, LeaseKept(own, since), LeaseBounded,
         BeginConfirm \/ \E c \in claims : FinishConfirm(c)
  PROVE  LeaseBounded'
<1>1. /\ \A f \in ReadFrames : f \in FrameType /\ FrameSound(f, own, since) /\ Timely(f)
      /\ ReadFrames \subseteq Told
  BY DEF ReadFrames, Told, LeaseKept, LeaseTyped, ClaimType, LeaseBounded
<1>2. h.expires \in Times /\ granted \subseteq 1..device.issued
  BY DEF LeaseBounded
<1>3. UNCHANGED <<now, open, opened, device, granted, shown, in>>
  BY DEF BeginConfirm, FinishConfirm, rest, wire
<1>4. h'.expires \in Times /\ ReadFrames' \subseteq ReadFrames
  <2>1. CASE BeginConfirm
    <3>1. shown \in ReadFrames
      BY DEF ReadFrames
    <3>2. Confirmed(h, shown, Token(h), shown.lease).expires \in Times
      BY <1>1, <1>2, <3>1, ConfirmedTimely
    <3>3. h' = h \/ h' = Confirmed(h, shown, Token(h), shown.lease)
      BY <2>1 DEF BeginConfirm
    <3>4. \A c \in claims' : c \in claims \/ c.frame = shown
      BY <2>1 DEF BeginConfirm
    <3>5. QED BY <1>2, <1>3, <3>2, <3>3, <3>4 DEF ReadFrames
  <2>2. ASSUME NEW c \in claims, FinishConfirm(c) PROVE h'.expires \in Times /\ ReadFrames' \subseteq ReadFrames
    <3>1. c.frame \in ReadFrames
      BY DEF ReadFrames
    <3>2. Confirmed(h, c.frame, c.token, c.lease).expires \in Times
      BY <1>1, <1>2, <3>1, ConfirmedTimely
    <3>3. QED BY <1>2, <1>3, <2>2, <3>2 DEF FinishConfirm, ReadFrames
  <2>3. QED BY <2>1, <2>2
<1>5. Elems(in)' = Elems(in)
  BY <1>3 DEF Elems
<1>6. \A x \in Elems(in)' : \E y \in Elems(in) : SameAnswer(x, y)
  BY <1>5 DEF SameAnswer, SameRequest
<1>7. QED BY <1>1, <1>2, <1>3, <1>4, <1>6, HostBounded

LEMMA OrderingBounded ==
  ASSUME LeaseBounded, NEW own, NEW since, LeaseKept(own, since),
         \/ Disconnect \/ ExpireLocally \/ SendHeartbeat \/ ReadStatus
         \/ BeginAcquire \/ BeginCommand \/ BeginRelease \/ FinishQuiesce
         \/ Write \/ RefuseWrite \/ TimeoutOrder \/ TimeoutHeartbeat \/ LearnGrant \/ ForgetStatus
         \/ UNCHANGED leaseVars
  PROVE  LeaseBounded'
<1>1. h \in HostType /\ h.expires \in Times /\ granted \subseteq 1..device.issued
  BY DEF LeaseKept, HostSound, LeaseBounded
<1>2. CASE \E x : DropSession(x) /\ UNCHANGED <<now, open>>
  BY <1>2, DropBounded
<1>3. CASE /\ UNCHANGED <<now, open, opened, device, granted, claims, in>>
           /\ h' = h /\ shown' \in {shown, NoFrame}
  BY <1>1, <1>3, KeptBounded
<1>4. CASE \/ SendHeartbeat \/ ReadStatus \/ BeginAcquire \/ BeginCommand \/ Write \/ ForgetStatus
           \/ UNCHANGED leaseVars
  BY <1>3, <1>4 DEF SendHeartbeat, ReadStatus, BeginAcquire, BeginCommand, Write, ForgetStatus,
     leaseVars, rest, wire
<1>5. CASE BeginRelease
  <2>1. h'.expires = h.expires
    BY <1>1, <1>5 DEF BeginRelease, HostType
  <2>2. UNCHANGED <<now, open, opened, device, granted, claims, in, shown>>
    BY <1>5 DEF BeginRelease, rest, wire
  <2>3. QED BY <1>1, <2>1, <2>2, KeptBounded
<1>6. CASE Disconnect \/ ExpireLocally \/ TimeoutHeartbeat
  BY <1>2, <1>6 DEF Disconnect, ExpireLocally, TimeoutHeartbeat
<1>7. ASSUME NEW token, FailRelease(token), UNCHANGED <<now, open>>
      PROVE  LeaseBounded'
  <2>1. (\E x : DropSession(x)) \/ UNCHANGED <<h, claims, rest, device, wire>>
    BY <1>7 DEF FailRelease
  <2>2. QED BY <1>2, <1>3, <1>7, <2>1 DEF rest, wire
<1>8. CASE FinishQuiesce
  <2>1. \/ \E x : DropSession(x)
        \/ UNCHANGED <<h, claims, rest, device, wire>>
    BY <1>8 DEF FinishQuiesce
  <2>2. UNCHANGED <<now, open>>
    BY <1>8 DEF FinishQuiesce
  <2>3. QED BY <1>2, <1>3, <2>1, <2>2 DEF rest, wire
<1>9. CASE RefuseWrite
  <2>1. CASE UNCHANGED <<h, claims, release, rest, device, wire, now, open>>
    BY <1>3, <2>1 DEF rest, wire
  <2>2. QED BY <1>7, <1>9, <2>1 DEF RefuseWrite
<1>10. CASE TimeoutOrder
  <2>1. CASE order.kind = "release"
    BY <1>7, <1>10, <2>1 DEF TimeoutOrder
  <2>2. CASE order.kind # "release"
    <3>1. /\ UNCHANGED <<now, h, claims, release, rest, device, open, tail>>
          /\ in' = [i \in 1..Len(in) |-> [in[i] EXCEPT !.req = Retire(in[i].req)]]
      BY <1>10, <2>2 DEF TimeoutOrder
    <3>2. in \in Seq(AnswerType) /\ DOMAIN in' = 1..Len(in) /\ DOMAIN in = 1..Len(in)
      BY <3>1 DEF LeaseKept, LeaseTyped
    <3>3. ASSUME NEW i \in 1..Len(in) PROVE SameAnswer(in'[i], in[i])
      <4>1. in[i] \in AnswerType /\ in'[i] = [in[i] EXCEPT !.req = Retire(in[i].req)]
        BY <3>1, <3>2
      <4>2. in[i].req \in RequestType
        BY <4>1 DEF AnswerType
      <4>3. PICK q : q = Retire(in[i].req)
        OBVIOUS
      <4>4. SameRequest(q, in[i].req)
        BY <4>2, <4>3 DEF Retire, RequestType, SameRequest
      <4>5. in'[i].frame = in[i].frame /\ in'[i].req = q
        BY <4>1, <4>3 DEF AnswerType
      <4>6. QED BY <4>4, <4>5 DEF SameAnswer, SameRequest
    <3>4. \A x \in Elems(in)' : \E y \in Elems(in) : SameAnswer(x, y)
      BY <3>2, <3>3 DEF Elems
    <3>5. ReadFrames' \subseteq Told /\ UNCHANGED <<open, opened, device, granted>>
      BY <3>1 DEF ReadFrames, Told, rest
    <3>6. QED BY <1>1, <3>1, <3>4, <3>5, HostBounded
  <2>3. QED BY <2>1, <2>2
<1>11. CASE LearnGrant
  <2>1. UNCHANGED <<now, open, opened, device, claims, in, shown, h>> /\ granted' = 1..device.issued
    BY <1>11 DEF LearnGrant, wire
  <2>2. Elems(in)' = Elems(in) /\ ReadFrames' \subseteq Told
    BY <2>1 DEF Elems, ReadFrames, Told
  <2>3. \A x \in Elems(in)' : \E y \in Elems(in) : SameAnswer(x, y)
    BY <2>2 DEF SameAnswer, SameRequest
  <2>4. QED BY <1>1, <2>1, <2>2, <2>3, HostBounded
<1>12. QED BY <1>4, <1>5, <1>6, <1>8, <1>9, <1>10, <1>11

(* A device that has swept a lease that ran out serves a request.           *)
ServedBounds(d) ==
  d.issued \in device.issued..MaxLease /\ (d.lease # NoLease => now <= d.expires)

LEMMA SweptBounds ==
  ASSUME LeaseBounded, LeaseTyped
  PROVE  Swept(device) \in DeviceType /\ ServedBounds(Swept(device))
<1>1. device \in DeviceType /\ device.issued \in device.issued..MaxLease /\ device.rev + 1 \in Nat
  BY TimesType DEF LeaseTyped, LeaseBounded, DeviceType
<1>2. PICK e : e = Forfeited(device)
  OBVIOUS
<1>3. e \in DeviceType /\ e.lease = NoLease /\ e.issued = device.issued
  BY <1>1, <1>2 DEF Forfeited, DeviceType, NoLease, NoSession
<1>4. CASE device.lease # NoLease /\ now >= device.expires
  BY <1>1, <1>2, <1>3, <1>4 DEF Swept, ServedBounds
<1>5. CASE ~(device.lease # NoLease /\ now >= device.expires)
  BY <1>1, <1>5 DEF Swept, ServedBounds, LeaseTyped, DeviceType
<1>6. QED BY <1>4, <1>5

LEMMA ServedBoundsKept ==
  ASSUME LeaseBounded, LeaseTyped, NEW d \in DeviceType, ServedBounds(d), NEW r \in RequestType
  PROVE  /\ ServedBounds(Served(d, r))
         /\ r.kind = "acquire" /\ Permitted(d, r) => Served(d, r).lease # NoLease
<1>1. /\ d.issued \in Nat /\ d.issued + 1 \in Nat /\ d.issued + 1 # NoLease /\ device.issued \in Nat
      /\ now \in Nat /\ now + LeaseMs \in Nat /\ now <= now + LeaseMs /\ MaxLease \in Nat
  BY TimesType DEF LeaseTyped, DeviceType, NoLease
<1>2. PICK e : e = Served(d, r)
  OBVIOUS
<1>3. CASE e = d /\ ~(r.kind = "acquire" /\ Permitted(d, r))
  BY <1>2, <1>3 DEF Served, ServedBounds, DeviceType
<1>4. CASE e = [d EXCEPT !.expires = now + LeaseMs] /\ r.kind = "heartbeat"
  BY <1>1, <1>2, <1>4 DEF ServedBounds, DeviceType
<1>5. CASE r.kind = "acquire" /\ Permitted(d, r)
  <2>1. d.issued < MaxLease
    BY <1>5 DEF Permitted
  <2>2. e = [d EXCEPT !.lease = d.issued + 1, !.owner = r.session, !.expires = now + LeaseMs,
                      !.rev = d.rev + 1, !.issued = d.issued + 1]
    BY <1>2, <1>5 DEF Served
  <2>3. e.issued = d.issued + 1 /\ e.lease = d.issued + 1 /\ e.expires = now + LeaseMs
    BY <2>2 DEF DeviceType
  <2>4. QED BY <1>1, <1>2, <2>1, <2>3 DEF ServedBounds
<1>6. CASE r.kind = "release" /\ Permitted(d, r)
  <2>1. PICK g : g = Forfeited(d)
    OBVIOUS
  <2>2. e = [g EXCEPT !.released = g.released \cup {d.lease}]
    BY <1>2, <1>6, <2>1 DEF Served
  <2>3. g = [d EXCEPT !.lease = 0, !.owner = 0, !.expires = 0, !.rev = d.rev + 1]
    BY <2>1 DEF Forfeited, NoLease, NoSession
  <2>4. e.issued = d.issued /\ e.lease = 0
    BY <2>2, <2>3 DEF DeviceType
  <2>5. QED BY <1>1, <1>2, <1>6, <2>4 DEF ServedBounds, NoLease
<1>7. CASE r.kind = "command" /\ Permitted(d, r)
  <2>1. e = [d EXCEPT !.rev = d.rev + 1]
    BY <1>2, <1>7 DEF Served
  <2>2. e.issued = d.issued /\ e.lease = d.lease /\ e.expires = d.expires
    BY <2>1 DEF DeviceType
  <2>3. QED BY <1>2, <1>7, <2>2 DEF ServedBounds
<1>8. \/ e = d
      \/ r.kind \in {"acquire", "release", "command"} /\ Permitted(d, r)
      \/ e = [d EXCEPT !.expires = now + LeaseMs] /\ r.kind = "heartbeat"
  BY <1>2 DEF Served, RequestType
<1>9. QED BY <1>3, <1>4, <1>5, <1>6, <1>7, <1>8

(* The answer tells what the device has now.                               *)
LEMMA ServeBounded ==
  ASSUME LeaseBounded, NEW own, NEW since, LeaseKept(own, since), Kept', Serve
  PROVE  LeaseBounded'
<1>1. LeaseTyped /\ in \in Seq(AnswerType) /\ out \in Seq(RequestType) /\ out # <<>> /\ now \in Nat
  BY DEF LeaseKept, LeaseTyped, Serve
<1>2. PICK r : r = Head(out)
  OBVIOUS
<1>3. r \in RequestType
  BY <1>1, <1>2, TailElems
<1>4. PICK d : d = Swept(device)
  OBVIOUS
<1>5. PICK x : x = [req |-> r,
             frame |-> [session |-> r.session, lease |-> device'.lease, owner |-> device'.owner,
                        expires |-> device'.expires, rev |-> device'.rev, uptime |-> now,
                        started |-> r.started, ok |-> Permitted(d, r)]]
  OBVIOUS
<1>6. /\ device' = Served(d, r) /\ in' = Append(in, x)
      /\ UNCHANGED <<now, h, claims, rest, open>>
  BY <1>2, <1>4, <1>5 DEF Serve
<1>7. /\ ServedBounds(device')
      /\ r.kind = "acquire" /\ Permitted(d, r) => device'.lease # NoLease
  <2>1. d \in DeviceType /\ ServedBounds(d)
    BY <1>1, <1>4, SweptBounds
  <2>2. QED BY <1>1, <1>3, <1>6, <2>1, ServedBoundsKept
<1>8. device' \in DeviceType /\ device'.expires <= now' + LeaseMs
  BY DEF Kept, LeaseKept, LeaseTyped, DeviceSound
<1>9. device'.expires \in Times
  <2>1. device'.expires \in Nat /\ device'.expires <= now + LeaseMs /\ now <= MaxNow
    BY <1>6, <1>8 DEF DeviceType, LeaseBounded
  <2>2. QED BY <1>1, <2>1, TimesType DEF Times
<1>10. Timely(x.frame)
  BY <1>5, <1>7, <1>9 DEF Timely, ServedBounds
<1>11. Elems(in)' = Elems(in) \cup {x}
  <2>1. x.frame \in FrameType
    <3>1. Permitted(d, r) \in BOOLEAN
      BY DEF Permitted, Holds
    <3>2. QED BY <1>1, <1>3, <1>5, <1>8, <3>1 DEF FrameType, DeviceType, RequestType
  <2>2. x \in AnswerType
    BY <1>3, <1>5, <2>1 DEF AnswerType
  <2>3. Elems(Append(in, x)) = Elems(in) \cup {x}
    BY <1>1, <2>2, AppendElems
  <2>4. QED BY <1>6, <2>3 DEF Elems
<1>12. Told' = Told \cup {x.frame}
  BY <1>6, <1>11 DEF Told, ReadFrames, rest
<1>13. \A f \in Told' : Timely(f)'
  BY <1>10, <1>12 DEF LeaseBounded, Timely
<1>14. \A y \in Elems(in)' : y.req.kind = "acquire" /\ y.frame.ok => y.frame.lease # NoLease
  BY <1>5, <1>7, <1>11 DEF LeaseBounded
<1>15. device'.issued <= MaxLease /\ granted' \subseteq 1..device'.issued
  <2>1. device'.issued \in Nat /\ device.issued \in Nat /\ device.issued <= device'.issued
    BY <1>1, <1>7, <1>8 DEF ServedBounds, DeviceType, LeaseTyped
  <2>2. QED BY <1>6, <1>7, <2>1 DEF ServedBounds, LeaseBounded, rest
<1>16. QED BY <1>6, <1>13, <1>14, <1>15 DEF LeaseBounded, rest

(* What the device does by itself, or serves too late to be heard.          *)
LEMMA AloneBounded ==
  ASSUME LeaseBounded, NEW own, NEW since, LeaseKept(own, since),
         ServeLate \/ Sweep \/ Change \/ \E s \in open : CloseSession(s)
  PROVE  LeaseBounded'
<1>1. LeaseTyped /\ device \in DeviceType /\ device.issued \in Nat
  BY DEF LeaseKept, LeaseTyped, DeviceType
<1>2. /\ UNCHANGED <<now, h, claims, rest, in>> /\ open' \subseteq open
  BY DEF ServeLate, Sweep, Change, CloseSession, wire
<1>3. device'.issued \in device.issued..MaxLease
  <2>1. Swept(device).issued \in device.issued..MaxLease /\ device.issued \in device.issued..MaxLease
    BY <1>1, SweptBounds, TimesType DEF ServedBounds, LeaseBounded
  <2>2. CASE ServeLate
    <3>1. tail # <<>> /\ tail \in Seq(RequestType)
      BY <2>2 DEF ServeLate, LeaseKept, LeaseTyped
    <3>2. Head(tail) \in RequestType
      BY <3>1, TailElems
    <3>3. Served(Swept(device), Head(tail)).issued \in device.issued..MaxLease
      BY <1>1, <3>2, SweptBounds, ServedBoundsKept DEF ServedBounds
    <3>4. QED BY <2>1, <2>2, <3>3 DEF ServeLate
  <2>3. CASE Sweep
    BY <2>1, <2>3 DEF Sweep
  <2>4. CASE Change
    BY <1>1, <2>1, <2>4 DEF Change, DeviceType
  <2>5. ASSUME NEW s \in open, CloseSession(s) PROVE device'.issued \in device.issued..MaxLease
    <3>1. Forfeited(device).issued = device.issued
      BY <1>1 DEF Forfeited, DeviceType
    <3>2. QED BY <2>1, <2>5, <3>1 DEF CloseSession
  <2>6. QED BY <2>2, <2>3, <2>4, <2>5
<1>4. granted \subseteq 1..device'.issued
  BY <1>1, <1>3 DEF LeaseBounded
<1>5. Elems(in)' = Elems(in) /\ Told' = Told
  BY <1>2 DEF Elems, Told, ReadFrames, rest
<1>6. \A f \in Told' : Timely(f)'
  BY <1>5 DEF LeaseBounded, Timely
<1>7. QED BY <1>2, <1>3, <1>4, <1>5, <1>6 DEF LeaseBounded, rest

LEMMA OpeningBounded ==
  ASSUME LeaseBounded, NEW own, NEW since, LeaseKept(own, since), Connect \/ Tick
  PROVE  LeaseBounded'
<1>1. now \in Nat /\ opened \in Nat
  BY DEF LeaseKept, LeaseTyped
<1>2. /\ UNCHANGED <<claims, shown, granted, device, in>>
      /\ h'.expires \in Times
  BY TimesType DEF Connect, Tick, rest, wire, ResetTo, LeaseBounded
<1>3. now' <= MaxNow /\ opened' <= MaxSession /\ open' \subseteq 1..opened'
  <2>1. CASE Connect
    BY <1>1, <2>1, TimesType DEF Connect, LeaseBounded
  <2>2. CASE Tick
    BY <1>1, <2>2, TimesType DEF Tick, LeaseBounded, rest
  <2>3. QED BY <2>1, <2>2
<1>4. Elems(in)' = Elems(in) /\ Told' = Told
  BY <1>2 DEF Elems, Told, ReadFrames
<1>5. \A f \in Told' : Timely(f)'
  BY <1>4 DEF LeaseBounded, Timely
<1>6. QED BY <1>2, <1>3, <1>4, <1>5 DEF LeaseBounded

(* However frames and sessions are interleaved, no lease the host or a      *)
(* frame names was not granted, and no deadline lies before the request or  *)
(* beyond the lifetime of a lease: _deadline(), the handlers of state.py.   *)
THEOREM LeaseTypeSafe == LeaseSpec => []LeaseTypeOK
<1>1. LeaseInit => Kept /\ LeaseBounded
  <2>1. SUFFICES ASSUME LeaseInit PROVE LeaseBounded
    BY LeaseBegins
  <2>2. PICK x : h = ResetTo(x, NoSession)
    BY <2>1 DEF LeaseInit
  <2>3. h.expires = 0 /\ Elems(in) = {} /\ ReadFrames = {NoFrame}
    BY <2>1, <2>2 DEF LeaseInit, ResetTo, Elems, ReadFrames
  <2>4. Told = {NoFrame} /\ Timely(NoFrame)
    BY <2>3, TimesType DEF Told, Timely, NoFrame
  <2>5. now = 0 /\ opened = 0 /\ open = {} /\ device.issued = 0 /\ granted = {}
    BY <2>1 DEF LeaseInit
  <2>6. QED BY <2>3, <2>4, <2>5, TimesType DEF LeaseBounded
<1>2. Kept /\ LeaseBounded /\ [LeaseNext]_leaseVars => Kept' /\ LeaseBounded'
  <2>1. SUFFICES ASSUME Kept, LeaseBounded, [LeaseNext]_leaseVars PROVE Kept' /\ LeaseBounded'
    OBVIOUS
  <2>2. PICK own, since : LeaseKept(own, since)
    BY <2>1 DEF Kept
  <2>3. Kept'
    BY <2>1, <2>2, LeaseStep
  <2>4. QED
    BY <2>1, <2>2, <2>3, OrderingBounded, ReadingBounded, ConfirmingBounded, ServeBounded,
       AloneBounded, OpeningBounded DEF LeaseNext
<1>3. Kept /\ LeaseBounded => LeaseTypeOK
  <2>1. SUFFICES ASSUME NEW own, NEW since, LeaseKept(own, since), LeaseBounded PROVE LeaseTypeOK
    BY DEF Kept
  <2>2. /\ h \in HostType /\ h.session <= opened /\ h.lease <= device.issued
        /\ device \in DeviceType /\ now \in Nat /\ opened \in Nat
        /\ device.lease <= device.issued /\ device.expires <= now + LeaseMs
    BY <2>1 DEF LeaseKept, LeaseTyped, SessionsSound, HostSound, DeviceSound
  <2>3. /\ now \in 0..MaxNow /\ h.session \in 0..MaxSession /\ h.lease \in Leases
        /\ device.lease \in Leases /\ device.expires \in Times
    BY <2>1, <2>2, TimesType DEF LeaseBounded, HostType, DeviceType, Leases, Times
  <2>4. Token(h) \in Tokens
    BY <2>2, <2>3 DEF Token, Tokens, HostType
  <2>5. /\ order.kind \in {"none", "acquire", "command", "release"}
        /\ release.stage \in {"none", "quiescing", "submitted"}
    BY <2>1 DEF LeaseKept, LeaseTyped, OrderType
  <2>6. QED BY <2>1, <2>2, <2>3, <2>4, <2>5 DEF LeaseTypeOK, LeaseBounded, HostType, OrdType
<1>4. QED BY <1>1, <1>2, <1>3, PTL DEF LeaseSpec

-----------------------------------------------------------------------------
(* The source log.                                                         *)

USE LogAssumption

-----------------------------------------------------------------------------
(* The records of a cut by rank.  A set of naturals has a least element,   *)
(* and the rank of a record rises by one from a record to the next, so each *)
(* rank is some record's.                                                  *)

LEMMA Least == ASSUME NEW T \in SUBSET Nat, T # {} PROVE \E x \in T : \A y \in T : x <= y
<1> DEFINE R == OpToRel(<, Nat)
<1>1. IsWellFoundedOn(R, Nat) BY NatLessThanWellFounded
<1>2. R = {ss \in Nat \X Nat : ss[1] < ss[2]} BY DEF OpToRel
<1> HIDE DEF R
<1>3. PICK x \in T : \A y \in T : ~ (<<y, x>> \in R)
  BY <1>1, WFMin
<1>4. ASSUME NEW y \in T PROVE x <= y
  <2>1. <<y, x>> \notin R BY <1>3
  <2>2. ~ (y < x) BY <2>1, <1>2
  <2>3. QED BY <2>2
<1>5. QED BY <1>4

LEMMA UptoNext ==
  ASSUME NEW S \in SUBSET Nat, NEW k \in Nat \ {0}
  PROVE  Upto(S, k) = IF k \in S THEN Upto(S, k-1) \cup {k} ELSE Upto(S, k-1)
<1>1. ASSUME NEW t \in Nat
      PROVE  t <= k <=> t <= k-1 \/ t = k
  OBVIOUS
<1>2. \A t : t \in Upto(S, k) <=> t \in S /\ (t <= k-1 \/ t = k)
  BY <1>1 DEF Upto
<1>3. QED BY <1>2 DEF Upto

LEMMA Ranked ==
  ASSUME NEW m \in Nat, NEW S \in SUBSET (1..m), NEW n \in 1..Cardinality(S)
  PROVE  \E s \in S : Cardinality(Upto(S, s)) = n
<1> DEFINE T == {k \in Nat : Cardinality(Upto(S, k)) >= n}
<1>1. IsFiniteSet(1..m)
  BY FS_Interval
<1>2. IsFiniteSet(S) /\ S \in SUBSET Nat
  <2>1. IsFiniteSet(S) BY <1>1, FS_Subset, Zenon
  <2>2. \A s \in S : s \in 1..m BY Zenon
  <2>3. \A s \in 1..m : s \in Nat OBVIOUS
  <2>4. QED BY <2>1, <2>2, <2>3, Zenon
<1>3. Cardinality(S) \in Nat /\ n \in Nat \ {0}
  BY <1>2, FS_CardinalityType
<1>4. ASSUME NEW k \in Nat
      PROVE  IsFiniteSet(Upto(S, k)) /\ Cardinality(Upto(S, k)) \in Nat
  <2>1. Upto(S, k) \in SUBSET S BY DEF Upto
  <2>2. IsFiniteSet(Upto(S, k)) BY <1>2, <2>1, FS_Subset
  <2>3. QED BY <2>2, FS_CardinalityType
<1>5. m \in T
  <2>1. \A s \in S : s \in 1..m BY Zenon
  <2>2. \A s \in 1..m : s <= m OBVIOUS
  <2>3. Upto(S, m) = S BY <2>1, <2>2, Zenon DEF Upto
  <2>4. QED BY <2>3, <1>3
<1>6. PICK k \in T : \A j \in T : k <= j
  BY <1>5, Least
<1>7. k \in Nat /\ Cardinality(Upto(S, k)) >= n
  OBVIOUS
<1>8. k # 0
  <2>1. \A s \in S : s \in 1..m BY Zenon
  <2>2. \A s \in 1..m : ~ (s <= 0) OBVIOUS
  <2>3. Upto(S, 0) = {} BY <2>1, <2>2, Zenon DEF Upto
  <2>4. Cardinality(Upto(S, 0)) = 0 BY <2>3, FS_EmptySet
  <2>5. QED BY <2>4, <1>7, <1>3
<1>9. k-1 \in Nat
  BY <1>7, <1>8
<1>10. Cardinality(Upto(S, k-1)) < n
  <2>1. k-1 \notin T BY <1>6, <1>9, <1>7
  <2>2. ~ (Cardinality(Upto(S, k-1)) >= n) BY <2>1, <1>9
  <2>3. QED BY <2>2, <1>9, <1>4, <1>3
<1>11. k \in S
  <2>1. SUFFICES ASSUME k \notin S PROVE FALSE
    OBVIOUS
  <2>2. Upto(S, k) = Upto(S, k-1)
    BY <2>1, <1>2, <1>7, <1>8, UptoNext
  <2>3. QED BY <2>2, <1>7, <1>10, <1>9, <1>4, <1>3
<1>12. Upto(S, k) = Upto(S, k-1) \cup {k}
  BY <1>11, <1>2, <1>7, <1>8, UptoNext
<1>13. Cardinality(Upto(S, k)) <= Cardinality(Upto(S, k-1)) + 1
  <2>1. Cardinality(Upto(S, k-1) \cup {k})
          = IF k \in Upto(S, k-1) THEN Cardinality(Upto(S, k-1)) ELSE Cardinality(Upto(S, k-1)) + 1
    BY <1>9, <1>4, FS_AddElement, Zenon
  <2>2. QED BY <1>12, <2>1, <1>9, <1>4
<1>14. Cardinality(Upto(S, k)) = n
  BY <1>13, <1>10, <1>7, <1>9, <1>4, <1>3
<1>15. QED BY <1>11, <1>14

LEMMA AscendingType ==
  ASSUME NEW m \in Nat, NEW S \in SUBSET (1..m)
  PROVE  /\ Ascending(S) \in Seq(1..m)
         /\ Len(Ascending(S)) = Cardinality(S)
<1>1. IsFiniteSet(S)
  <2>1. IsFiniteSet(1..m) BY FS_Interval
  <2>2. QED BY <2>1, FS_Subset, Zenon
<1>2. Cardinality(S) \in Nat
  BY <1>1, FS_CardinalityType
<1>3. ASSUME NEW n \in 1..Cardinality(S)
      PROVE  (CHOOSE s \in S : Cardinality(Upto(S, s)) = n) \in 1..m
  BY Ranked
<1>4. Ascending(S) \in [1..Cardinality(S) -> 1..m]
  BY <1>3 DEF Ascending
<1>5. QED BY <1>2, <1>4

-----------------------------------------------------------------------------
(* What the parts of the state are made of.                                *)

Frame == [kind : {"chunk", "result", "refused", "error", "live"}, id : Ids \cup {NoId},
          index : Nat, session : Nat, part : Seq(Seqs), missing : SUBSET Seqs]
Ask   == [kind : {"request", "ack"}, id : Ids, index : Nat, first : Seqs, last : 0..MaxRec]

Stages == {"none", "draining", "begun", "waiting", "answered"}
Statuses == {"absent", "receiving", "failed", "finished"}

(* The chunk a transfer sends and the one acknowledged last.                *)
Transfer ==
  {x \in [id : Ids \cup {NoId}, cut : Seq(Seqs), missing : SUBSET Seqs,
          index : Nat, last : Nat \cup {-1}] : x.last = x.index - 1}

DeviceTyped ==
  /\ dev \in [last : 0..MaxRec, stored : SUBSET Seqs, flushed : 0..MaxRec]
  /\ xfer \in Transfer
  /\ dev.flushed <= dev.last
  /\ \A s \in dev.stored : s <= dev.flushed

LinkTyped ==
  /\ session \in {0, sessions} /\ sessions \in Nat
  /\ up \in Seq(Ask) /\ down \in Seq(Frame)
  /\ live \subseteq Seqs
  /\ pend \in [id : Ids \cup {NoId}, received : Nat, acked : Nat]
  /\ pend.acked <= pend.received
  /\ ready \in BOOLEAN

WorkerTyped ==
  /\ queue \in Seq(Frame)
  /\ acking \in [id : Ids \cup {NoId}, index : Nat, next : Nat]
  /\ acking # NoAck => Len(queue) > 0
  /\ halted \in BOOLEAN

TablesTyped ==
  /\ tr \in [Ids -> [status : Statuses, first : Seqs, last : 0..MaxRec, session : Nat,
                     bytes : Seq(Seqs)]]
  /\ recs \in [Seqs -> [held : BOOLEAN, located : BOOLEAN, archived : {0, 1}]]
  /\ gaps \subseteq Seqs
  /\ cursor \in [scanned : 0..MaxRec, from : 0..MaxRec, through : 0..MaxRec]
  /\ cursor.from <= cursor.through /\ cursor.through <= cursor.scanned

(* A scan that is under way belongs to a session, and its row is the one    *)
(* begun for its present batch; only the request of a scan that waits is    *)
(* pending.                                                                 *)
ScanTyped ==
  /\ scan \in [stage : Stages, session : Nat, first : 0..MaxRec, last : 0..MaxRec,
               id : Ids \cup {NoId}, auto : BOOLEAN, barrier : Nat,
               result : Nat \X SUBSET Seqs]
  /\ scan # NoScan => scan.stage # "none"
  /\ scan.stage # "none" => scan.first \in 1..scan.last /\ scan.session \in 1..sessions
  /\ scan.stage \in {"begun", "waiting", "answered"} =>
       /\ scan.id \in Ids
       /\ tr[scan.id].first = scan.first
       /\ tr[scan.id].last = Stop(scan)
  /\ pend.id # NoId => scan.stage = "waiting" /\ scan.id = pend.id
  /\ scan.stage = "waiting" => pend.id = scan.id \/ session # scan.session

LogTyped == DeviceTyped /\ LinkTyped /\ WorkerTyped /\ TablesTyped /\ ScanTyped

-----------------------------------------------------------------------------
(* The invariant of a transfer.                                            *)

(* Frames of the device the host has not handled yet.                       *)
Held == {down[i] : i \in 1..Len(down)} \cup {queue[i] : i \in 1..Len(queue)}

(* A request is the first frame of its transfer and is sent once.           *)
Unserved ==
  /\ scan.stage = "begun" => scan.id \notin InUse
  /\ \A p \in 1..Len(up) : up[p].kind = "request" =>
       /\ up[p].id \notin {xfer.id, acking.id} \cup {f.id : f \in Held}
       /\ \A q \in 1..Len(up) : up[q].id = up[p].id => q = p

(* Where chunk k of a transfer ends, and what agrees with it.               *)
Covered(x, k) == Smaller(2 * Len(x.cut), (k + 1) * ChunkUnits)
AsCut ==
  /\ xfer # NoXfer => xfer.id \in Ids /\ xfer.index * ChunkUnits < 2 * Len(xfer.cut)
  /\ \A f \in Held : f.kind = "chunk" =>
       /\ f.id \in Ids
       /\ f.id = xfer.id => Reach(f) = Covered(xfer, f.index)
  /\ \A f \in Held : f.kind = "result" => f.id \in Ids
  /\ acking # NoAck => acking.id \in Ids
  /\ acking.id \in Ids /\ acking.id = xfer.id => acking.next = Covered(xfer, acking.index)

(* Bytes are in the database before there is an ack that speaks of them.    *)
BytesOf(id) == Len(tr[id].bytes)
Durable ==
  /\ acking # NoAck => BytesOf(acking.id) >= acking.next
  /\ \A p \in 1..Len(up) :
       up[p].kind = "ack" /\ up[p].id = xfer.id => BytesOf(xfer.id) >= Covered(xfer, up[p].index)
  /\ AckedIsDurable

TransferInv == LogTyped /\ Unserved /\ AsCut /\ Durable

(* Below a scan that starts at the watermark nothing is unaccounted for.    *)
NothingSkipped == scan.stage # "none" => scan.first <= cursor.scanned + 1
CursorInv == LogTyped /\ VerifiedIsHeld /\ ScannedIsAccounted /\ NothingSkipped
-----------------------------------------------------------------------------
(* Sequences, units of bytes and the frames of the device.                 *)

LEMMA TailOf ==
  ASSUME NEW S, NEW s \in Seq(S), Len(s) > 0
  PROVE  /\ Head(s) \in S /\ Head(s) = s[1]
         /\ Tail(s) \in Seq(S) /\ Len(Tail(s)) = Len(s) - 1
         /\ \A i \in 1..Len(Tail(s)) : Tail(s)[i] = s[i + 1]
OBVIOUS

LEMMA AppendOf ==
  ASSUME NEW S, NEW s \in Seq(S), NEW e \in S
  PROVE  /\ Append(s, e) \in Seq(S) /\ Len(Append(s, e)) = Len(s) + 1
         /\ \A i \in 1..Len(s) : Append(s, e)[i] = s[i]
         /\ Append(s, e)[Len(s) + 1] = e
OBVIOUS

LEMMA NoneOf ==
  ASSUME NEW S
  PROVE  <<>> \in Seq(S) /\ Len(<<>>) = 0
OBVIOUS

LEMMA IdleType ==
  /\ NoPend \in [id : Ids \cup {NoId}, received : Nat, acked : Nat]
  /\ NoAck \in [id : Ids \cup {NoId}, index : Nat, next : Nat]
  /\ NoPend.acked <= NoPend.received /\ NoPend.id = NoId /\ NoAck.id = NoId
BY DEF NoPend, NoAck

LEMMA NoXferType == NoXfer \in Transfer
BY NoneOf DEF NoXfer, Transfer

LEMMA NoIdea == NoId \notin Ids
BY DEF NoId, Ids, LogAssumption

LEMMA Units ==
  ASSUME NEW k \in Nat
  PROVE  /\ k * ChunkUnits \in Nat
         /\ (k + 1) * ChunkUnits = k * ChunkUnits + ChunkUnits
<1>1. ChunkUnits \in Nat
  BY DEF LogAssumption
<1>2. QED BY <1>1

LEMMA SmallerOf ==
  ASSUME NEW a \in Int, NEW b \in Int
  PROVE  /\ Smaller(a, b) \in Int /\ Smaller(a, b) \in {a, b}
         /\ Smaller(a, b) <= a /\ Smaller(a, b) <= b
BY DEF Smaller

LEMMA BytesType ==
  ASSUME NEW cut \in Seq(Seqs)
  PROVE  Bytes(cut) \in Seq(Seqs) /\ Len(Bytes(cut)) = 2 * Len(cut)
<1> DEFINE n == Len(cut)
<1>1. n \in Nat
  OBVIOUS
<1>2. ASSUME NEW i \in 1..2 * n
      PROVE  cut[(i + 1) \div 2] \in Seqs
  <2>1. (i + 1) \div 2 \in 1..n BY <1>1
  <2>2. QED BY <2>1
<1>3. Bytes(cut) \in [1..2 * n -> Seqs]
  BY <1>2 DEF Bytes
<1>4. 2 * n \in Nat
  BY <1>1
<1>5. QED BY <1>3, <1>4

LEMMA ChunkOf ==
  ASSUME LinkTyped, NEW x \in Transfer, x.index * ChunkUnits < 2 * Len(x.cut)
  PROVE  /\ Chunk(x) \in Frame
         /\ Chunk(x).kind = "chunk" /\ Chunk(x).id = x.id /\ Chunk(x).index = x.index
         /\ Reach(Chunk(x)) = Covered(x, x.index)
<1> DEFINE m == x.index * ChunkUnits
           b == Bytes(x.cut)
           p == SubSeq(b, m + 1, End(x))
<1>1. m \in Nat /\ (x.index + 1) * ChunkUnits = m + ChunkUnits /\ ChunkUnits \in Nat \ {0}
  BY Units DEF Transfer, LogAssumption
<1>2. b \in Seq(Seqs) /\ Len(b) = 2 * Len(x.cut) /\ Len(x.cut) \in Nat
  BY BytesType DEF Transfer
<1>3. End(x) = Covered(x, x.index)
  BY DEF End, Covered
<1>4. End(x) \in m + 1..Len(b)
  BY <1>1, <1>2 DEF End, Smaller, Transfer
<1>5. p \in Seq(Seqs) /\ Len(p) = End(x) - m
  <2> HIDE DEF b, m
  <2>1. QED BY <1>1, <1>2, <1>4
<1>6. session \in Nat
  BY DEF LinkTyped
<1>7. Chunk(x) = [kind |-> "chunk", id |-> x.id, index |-> x.index, session |-> session,
                  part |-> p, missing |-> {}]
  BY DEF Chunk
<1>8. Reach(Chunk(x)) = m + Len(p)
  <2> HIDE DEF p
  <2>1. Chunk(x).index = x.index /\ Chunk(x).part = p BY <1>7
  <2>2. QED BY <2>1 DEF Reach, Offset
<1>9. Reach(Chunk(x)) = Covered(x, x.index)
  <2> HIDE DEF b, m, p
  <2>1. QED BY <1>1, <1>3, <1>4, <1>5, <1>8
<1>10. Chunk(x) \in Frame
  <2> HIDE DEF p
  <2>1. QED BY <1>5, <1>6, <1>7 DEF Frame, Transfer
<1>11. QED BY <1>7, <1>9, <1>10

LEMMA ResultOf ==
  ASSUME LinkTyped, NEW x \in Transfer
  PROVE  Result(x) \in Frame /\ Result(x).kind = "result" /\ Result(x).id = x.id
<1>1. Bytes(x.cut) \in Seq(Seqs) /\ session \in Nat
  BY BytesType DEF Transfer, LinkTyped
<1>2. QED BY <1>1 DEF Result, Frame, Transfer

LEMMA ErrorOf ==
  ASSUME LinkTyped, NEW id \in Ids, NEW about \in {"refused", "error"}
  PROVE  Error(about, id) \in Frame /\ Error(about, id).kind = about /\ Error(about, id).id = id
<1>1. session \in Nat /\ <<>> \in Seq(Seqs)
  BY DEF LinkTyped
<1>2. QED BY <1>1 DEF Error, Frame
-----------------------------------------------------------------------------
(* Types are kept.                                                         *)

LEMMA InitTyped == Init => TransferInv /\ CursorInv
<1> SUFFICES ASSUME Init PROVE TransferInv /\ CursorInv
  OBVIOUS
<1> USE DEF Init
<1>1. DeviceTyped
  BY NoXferType DEF DeviceTyped, LogAssumption
<1>2. LinkTyped
  BY NoneOf, IdleType DEF LinkTyped
<1>3. WorkerTyped
  BY NoneOf, IdleType DEF WorkerTyped
<1>4. TablesTyped
  BY DEF TablesTyped, NoRow, Seqs, Statuses, LogAssumption
<1>5. ScanTyped
  BY DEF ScanTyped, NoScan, NoPend, Stages, LogAssumption
<1>6. LogTyped
  BY <1>1, <1>2, <1>3, <1>4, <1>5 DEF LogTyped
<1>7. Held = {}
  BY DEF Held
<1>8. Unserved
  BY DEF Unserved, NoScan
<1>9. AsCut
  BY <1>7, IdleType, NoIdea DEF AsCut
<1>10. Durable
  BY DEF Durable, AckedIsDurable
<1>11. VerifiedIsHeld /\ ScannedIsAccounted /\ NothingSkipped
  BY DEF VerifiedIsHeld, ScannedIsAccounted, NothingSkipped, NoScan
<1>12. QED BY <1>6, <1>8, <1>9, <1>10, <1>11 DEF TransferInv, CursorInv

(* The end of a connection takes the transfer and the pending request.      *)
LEMMA DisconnectedTyped ==
  ASSUME LogTyped, Disconnected
  PROVE  DeviceTyped' /\ LinkTyped' /\ pend'.id = NoId /\ session' = 0
<1>1. DeviceTyped'
  BY NoXferType DEF LogTyped, DeviceTyped, Disconnected
<1>2. LinkTyped'
  BY NoneOf, IdleType DEF LogTyped, LinkTyped, Disconnected
<1>3. QED BY <1>1, <1>2 DEF Disconnected, NoPend

LEMMA WaitingType ==
  ASSUME LogTyped
  PROVE  /\ Waiting(scan).barrier \in Nat
         /\ Waiting(scan) = [scan EXCEPT !.barrier = Waiting(scan).barrier]
BY DEF Waiting, LogTyped, ScanTyped

(* A step that leaves the scan where it is, or counts its callbacks.        *)
ScanWaits ==
  /\ scan' \in {scan, Waiting(scan)}
  /\ sessions' \in Nat /\ sessions' >= sessions
  /\ \/ pend'.id = pend.id /\ session' \in {session, sessions + 1}
     \/ pend'.id = NoId /\ session' = 0
  /\ \A i \in Ids : tr'[i].first = tr[i].first /\ tr'[i].last = tr[i].last

LEMMA ScanWaitsTyped ==
  ASSUME LogTyped, ScanWaits
  PROVE  ScanTyped'
<1> USE DEF LogTyped, ScanWaits
<1>1. PICK b \in Nat : scan' = [scan EXCEPT !.barrier = b]
  <2>1. scan.barrier \in Nat /\ scan = [scan EXCEPT !.barrier = scan.barrier]
    BY DEF ScanTyped
  <2>2. QED BY <2>1, WaitingType
<1>2. scan' \in [stage : Stages, session : Nat, first : 0..MaxRec, last : 0..MaxRec,
                 id : Ids \cup {NoId}, auto : BOOLEAN, barrier : Nat,
                 result : Nat \X SUBSET Seqs]
  BY <1>1 DEF ScanTyped
<1>3. /\ scan'.stage = scan.stage /\ scan'.session = scan.session /\ scan'.first = scan.first
      /\ scan'.last = scan.last /\ scan'.id = scan.id
  BY <1>1 DEF ScanTyped
<1>4. scan' # NoScan => scan'.stage # "none"
  <2>1. CASE scan = NoScan
    BY <2>1 DEF Waiting, NoScan
  <2>2. CASE scan # NoScan
    BY <2>2, <1>3 DEF ScanTyped
  <2>3. QED BY <2>1, <2>2
<1>5. Stop(scan') = Stop(scan)
  BY <1>3 DEF Stop
<1>6. scan'.stage = "waiting" => pend'.id = scan'.id \/ session' # scan'.session
  BY <1>3 DEF ScanTyped, LinkTyped
<1>7. pend'.id # NoId => scan'.stage = "waiting" /\ scan'.id = pend'.id
  BY <1>3 DEF ScanTyped
<1>8. scan'.stage # "none" => scan'.first \in 1..scan'.last /\ scan'.session \in 1..sessions'
  BY <1>3 DEF ScanTyped, LinkTyped
<1>9. QED BY <1>2, <1>3, <1>4, <1>5, <1>6, <1>7, <1>8 DEF ScanTyped

LEMMA RecordTyped ==
  ASSUME LogTyped, Record
  PROVE  LogTyped'
<1> USE DEF LogTyped
<1>1. DeviceTyped'
  <2>1. xfer' = xfer BY DEF Record
  <2>2. PICK saved \in BOOLEAN :
          dev' = [last |-> dev.last + 1,
                  stored |-> IF saved THEN dev.stored \cup (dev.flushed + 1)..(dev.last + 1)
                             ELSE dev.stored,
                  flushed |-> IF saved THEN dev.last + 1 ELSE dev.flushed]
    BY DEF Record
  <2>3. dev.last \in 0..MaxRec - 1 /\ dev.flushed \in 0..dev.last /\ MaxRec \in Nat
    BY DEF Record, DeviceTyped, LogAssumption
  <2>4. dev.stored \cup (dev.flushed + 1)..(dev.last + 1) \subseteq Seqs
    BY <2>3 DEF DeviceTyped, Seqs
  <2>5. \A s \in dev.stored : s \in Nat /\ s <= dev.flushed
    BY DEF DeviceTyped, Seqs
  <2>6. QED BY <2>1, <2>2, <2>3, <2>4, <2>5 DEF DeviceTyped
<1>2. LinkTyped'
  <2>1. live' \subseteq live \cup {dev.last + 1}
    BY DEF Record
  <2>2. dev.last + 1 \in Seqs /\ live \subseteq Seqs
    BY DEF Record, DeviceTyped, LinkTyped, Seqs, LogAssumption
  <2>3. live' \subseteq Seqs
    BY <2>1, <2>2
  <2>4. UNCHANGED <<session, sessions, up, down, pend, ready>>
    BY DEF Record, worker
  <2>5. QED BY <2>3, <2>4 DEF LinkTyped
<1>3. WorkerTyped' /\ TablesTyped'
  BY DEF Record, WorkerTyped, TablesTyped, worker, tables
<1>4. ScanTyped'
  BY ScanWaitsTyped DEF ScanWaits, Record, LinkTyped, worker, tables
<1>5. QED BY <1>1, <1>2, <1>3, <1>4

LEMMA LoseTyped ==
  ASSUME LogTyped, NEW s \in Seqs, LoseRecord(s)
  PROVE  LogTyped'
<1> USE DEF LogTyped
<1>1. DeviceTyped'
  BY DEF LoseRecord, DeviceTyped
<1>2. LinkTyped' /\ WorkerTyped' /\ TablesTyped'
  BY DEF LoseRecord, LinkTyped, WorkerTyped, TablesTyped, worker, tables, link
<1>3. ScanTyped'
  BY ScanWaitsTyped DEF ScanWaits, LoseRecord, LinkTyped, worker, tables, link
<1>4. QED BY <1>1, <1>2, <1>3

LEMMA XferType ==
  ASSUME LogTyped
  PROVE  xfer \in Transfer
BY DEF LogTyped, DeviceTyped, Transfer

LEMMA SentType ==
  ASSUME LogTyped, NEW x \in Transfer, Sent(x)
  PROVE  xfer' \in {x, NoXfer} /\ down' \in Seq(Frame)
<1>1. LinkTyped /\ down \in Seq(Frame)
  BY DEF LogTyped, LinkTyped
<1>2. CASE x.index * ChunkUnits < 2 * Len(x.cut)
  <2>1. Chunk(x) \in Frame
    BY <1>1, <1>2, ChunkOf
  <2>2. QED BY <1>1, <1>2, <2>1, AppendOf DEF Sent
<1>3. CASE ~ (x.index * ChunkUnits < 2 * Len(x.cut))
  <2>1. Result(x) \in Frame
    BY <1>1, ResultOf
  <2>2. QED BY <1>1, <1>3, <2>1, AppendOf DEF Sent
<1>4. QED BY <1>2, <1>3

(* A step of the device that answers a frame.                               *)
Answers ==
  /\ xfer' \in Transfer /\ down' \in Seq(Frame) /\ up' \in Seq(Ask)
  /\ UNCHANGED <<dev, session, sessions, live, worker, scan, ready, tables>>

LEMMA AnswersTyped ==
  ASSUME LogTyped, Answers
  PROVE  LogTyped'
<1> USE DEF LogTyped
<1>1. DeviceTyped'
  BY DEF Answers, DeviceTyped, Transfer
<1>2. LinkTyped' /\ WorkerTyped' /\ TablesTyped'
  BY DEF Answers, LinkTyped, WorkerTyped, TablesTyped, worker, tables
<1>3. ScanTyped'
  BY ScanWaitsTyped DEF ScanWaits, Answers, LinkTyped, worker, tables
<1>4. QED BY <1>1, <1>2, <1>3

(* The transfer a request begins.                                           *)
Begins(r) == [NoXfer EXCEPT !.id = r.id,
                            !.cut = Ascending(dev.stored \cap r.first..r.last),
                            !.missing = (r.first..r.last) \ (dev.stored \cap r.first..r.last)]

LEMMA BeginsType ==
  ASSUME LogTyped, NEW r \in Ask
  PROVE  /\ Begins(r) \in Transfer /\ Begins(r).id = r.id /\ Begins(r).index = 0
<1> DEFINE present == dev.stored \cap r.first..r.last
<1>1. MaxRec \in Nat
  BY DEF LogAssumption
<1>2. present \in SUBSET (1..MaxRec)
  BY DEF LogTyped, DeviceTyped, Seqs
<1>3. Ascending(present) \in Seq(Seqs)
  BY <1>1, <1>2, AscendingType DEF Seqs
<1>4. (r.first..r.last) \ present \subseteq Seqs
  BY <1>1 DEF Ask, Seqs
<1>5. r.id \in Ids
  BY DEF Ask
<1>6. Begins(r) = [NoXfer EXCEPT !.id = r.id, !.cut = Ascending(present),
                                 !.missing = (r.first..r.last) \ present]
  BY DEF Begins
<1> HIDE DEF present
<1>7. QED BY <1>3, <1>4, <1>5, <1>6, NoXferType DEF Transfer, NoXfer

LEMMA ServeRequestTyped ==
  ASSUME LogTyped, ServeRequest
  PROVE  LogTyped'
<1> DEFINE r == Head(up)
<1>1. up \in Seq(Ask) /\ Len(up) > 0 /\ down \in Seq(Frame) /\ LinkTyped
  BY DEF LogTyped, LinkTyped, ServeRequest
<1>2. r \in Ask /\ Tail(up) \in Seq(Ask)
  BY <1>1, TailOf
<1>3. up' \in Seq(Ask)
  BY <1>2 DEF ServeRequest
<1>4. xfer' \in Transfer /\ down' \in Seq(Frame)
  <2>1. CASE xfer # NoXfer \/ Unavailable(r.first, r.last)
    <3>1. Error("refused", r.id) \in Frame
      BY <1>1, <1>2, ErrorOf DEF Ask
    <3>2. down' = Append(down, Error("refused", r.id)) /\ xfer' = xfer
      BY <2>1 DEF ServeRequest
    <3>3. QED BY <3>1, <3>2, <1>1, AppendOf, XferType
  <2>2. CASE ~(xfer # NoXfer \/ Unavailable(r.first, r.last))
    <3>1. Sent(Begins(r))
      BY <2>2 DEF ServeRequest, Begins
    <3>2. QED BY <3>1, <1>2, BeginsType, SentType, NoXferType
  <2>3. QED BY <2>1, <2>2
<1>5. Answers
  BY <1>3, <1>4 DEF Answers, ServeRequest
<1>6. QED BY <1>5, AnswersTyped

(* The transfer after an expected ack.                                      *)
Advances(a) == [xfer EXCEPT !.index = @ + 1, !.last = a.index]

(* What an ack leads to: an error, nothing, or the next frame.              *)
LEMMA AckCases ==
  ASSUME LogTyped, ServeAck
  PROVE  LET a == Head(up)
         IN  \/ xfer' = xfer /\ down' = Append(down, Error("error", a.id))
             \/ xfer' = xfer /\ down' = down
             \/ xfer # NoXfer /\ xfer.id = a.id /\ xfer.index = a.index /\ Sent(Advances(a))
<1> DEFINE a == Head(up)
<1>1. CASE xfer = NoXfer
  BY <1>1 DEF ServeAck
<1>2. CASE xfer # NoXfer /\ xfer.id = a.id /\ xfer.last = a.index
  <2>1. xfer.last # xfer.index
    BY XferType DEF Transfer
  <2>2. QED BY <1>2, <2>1 DEF ServeAck
<1>3. CASE xfer # NoXfer /\ xfer.id = a.id /\ xfer.last # a.index /\ xfer.index = a.index
  BY <1>3 DEF ServeAck, Advances
<1>4. CASE xfer # NoXfer /\ ~ (xfer.id = a.id /\ (xfer.last = a.index \/ xfer.index = a.index))
  BY <1>4 DEF ServeAck
<1>5. QED BY <1>1, <1>2, <1>3, <1>4

LEMMA AdvancesType ==
  ASSUME LogTyped, NEW a \in Ask, a.index = xfer.index
  PROVE  /\ Advances(a) \in Transfer /\ Advances(a).id = xfer.id
         /\ Advances(a).cut = xfer.cut /\ Advances(a).index = xfer.index + 1
<1>1. xfer \in Transfer /\ a.index \in Nat
  BY XferType DEF Ask
<1>2. Advances(a) \in [id : Ids \cup {NoId}, cut : Seq(Seqs), missing : SUBSET Seqs,
                      index : Nat, last : Nat \cup {-1}]
  <2>1. xfer.index + 1 \in Nat /\ a.index \in Nat \cup {-1}
    BY <1>1 DEF Transfer
  <2>2. xfer \in [id : Ids \cup {NoId}, cut : Seq(Seqs), missing : SUBSET Seqs,
                 index : Nat, last : Nat \cup {-1}]
    BY <1>1 DEF Transfer
  <2>3. Advances(a) = [xfer EXCEPT !.index = xfer.index + 1, !.last = a.index]
    BY <2>2 DEF Advances
  <2>4. QED BY <2>1, <2>2, <2>3
<1>3. /\ Advances(a).id = xfer.id /\ Advances(a).cut = xfer.cut
      /\ Advances(a).index = xfer.index + 1 /\ Advances(a).last = xfer.index
  BY <1>1 DEF Advances, Transfer
<1>4. xfer.index \in Nat
  BY <1>1 DEF Transfer
<1>5. QED BY <1>2, <1>3, <1>4 DEF Transfer

LEMMA ServeAckTyped ==
  ASSUME LogTyped, ServeAck
  PROVE  LogTyped'
<1> DEFINE a == Head(up)
<1>1. up \in Seq(Ask) /\ Len(up) > 0 /\ down \in Seq(Frame) /\ LinkTyped
  BY DEF LogTyped, LinkTyped, ServeAck
<1>2. a \in Ask /\ Tail(up) \in Seq(Ask)
  BY <1>1, TailOf
<1>3. up' \in Seq(Ask)
  BY <1>2 DEF ServeAck
<1>4. Error("error", a.id) \in Frame
  BY <1>1, <1>2, ErrorOf DEF Ask
<1>5. xfer' \in Transfer /\ down' \in Seq(Frame)
  <2>1. CASE xfer' = xfer /\ down' = Append(down, Error("error", a.id))
    BY <2>1, <1>1, <1>4, AppendOf, XferType
  <2>2. CASE xfer' = xfer /\ down' = down
    BY <2>2, <1>1, XferType
  <2>3. CASE xfer.index = a.index /\ Sent(Advances(a))
    BY <2>3, <1>2, AdvancesType, SentType, NoXferType
  <2>4. QED BY <2>1, <2>2, <2>3, AckCases
<1>6. Answers
  BY <1>3, <1>5 DEF Answers, ServeAck
<1>7. QED BY <1>6, AnswersTyped

LEMMA ResendTyped ==
  ASSUME LogTyped, AsCut, Resend
  PROVE  LogTyped'
<1>1. up \in Seq(Ask) /\ down \in Seq(Frame) /\ LinkTyped
  BY DEF LogTyped, LinkTyped
<1>2. Chunk(xfer) \in Frame
  BY <1>1, XferType, ChunkOf DEF AsCut, Resend
<1>3. Answers
  BY <1>1, <1>2, AppendOf, XferType DEF Answers, Resend, source
<1>4. QED BY <1>3, AnswersTyped
-----------------------------------------------------------------------------
(* The connection and the reader.                                          *)

LEMMA NoScanTyped ==
  ASSUME scan' = NoScan, pend'.id = NoId
  PROVE  ScanTyped'
<1>1. NoScan \in [stage : Stages, session : Nat, first : 0..MaxRec, last : 0..MaxRec,
                  id : Ids \cup {NoId}, auto : BOOLEAN, barrier : Nat,
                  result : Nat \X SUBSET Seqs]
  BY DEF NoScan, Stages, LogAssumption
<1>2. NoScan.stage = "none"
  BY DEF NoScan
<1>3. QED BY <1>1, <1>2 DEF ScanTyped

(* A step that ends the connection.                                         *)
LEMMA CutOffTyped ==
  ASSUME LogTyped, Disconnected, WorkerTyped', TablesTyped',
         scan' \in {scan, Waiting(scan), NoScan},
         \A i \in Ids : tr'[i].first = tr[i].first /\ tr'[i].last = tr[i].last
  PROVE  LogTyped'
<1>1. DeviceTyped' /\ LinkTyped' /\ pend'.id = NoId /\ session' = 0
  BY DisconnectedTyped
<1>2. sessions' = sessions /\ sessions \in Nat
  BY DEF Disconnected, LogTyped, LinkTyped
<1>3. CASE scan' \in {scan, Waiting(scan)}
  <2>1. ScanWaits
    BY <1>1, <1>2, <1>3 DEF ScanWaits
  <2>2. QED BY <1>1, <2>1, ScanWaitsTyped DEF LogTyped
<1>4. CASE scan' = NoScan
  BY <1>1, <1>4, NoScanTyped DEF LogTyped
<1>5. QED BY <1>3, <1>4

LEMMA LinkUpTyped ==
  ASSUME LogTyped, LinkUp
  PROVE  LogTyped'
<1> USE DEF LogTyped
<1>1. DeviceTyped'
  BY DEF LinkUp, DeviceTyped, source
<1>2. sessions' = sessions + 1 /\ session' = sessions' /\ sessions \in Nat
  BY DEF LinkUp, LinkTyped
<1>3. LinkTyped'
  <2>1. UNCHANGED <<up, down, live, pend>> /\ ready' = FALSE
    BY DEF LinkUp, worker
  <2>2. session' \in {0, sessions'} /\ sessions' \in Nat
    BY <1>2
  <2>3. QED BY <2>1, <2>2 DEF LinkTyped
<1>4. WorkerTyped' /\ TablesTyped'
  BY DEF LinkUp, WorkerTyped, TablesTyped, worker, tables
<1>5. ScanTyped'
  BY <1>2, ScanWaitsTyped DEF ScanWaits, LinkUp, worker, tables
<1>6. QED BY <1>1, <1>3, <1>4, <1>5

LEMMA LinkEndsTyped ==
  ASSUME LogTyped, LinkDown \/ GiveUp
  PROVE  LogTyped'
<1>1. /\ Disconnected
      /\ UNCHANGED <<queue, acking, halted, scan, tables>>
  BY DEF LinkDown, GiveUp
<1>2. WorkerTyped' /\ TablesTyped'
  BY <1>1 DEF LogTyped, WorkerTyped, TablesTyped, tables
<1>3. \A i \in Ids : tr'[i].first = tr[i].first /\ tr'[i].last = tr[i].last
  BY <1>1 DEF tables
<1>4. QED BY <1>1, <1>2, <1>3, CutOffTyped

LEMMA RestartTyped ==
  ASSUME LogTyped, RestartBackend
  PROVE  LogTyped'
<1>1. Disconnected /\ tables' = tables /\ scan' = NoScan
  BY DEF RestartBackend
<1>2. WorkerTyped'
  BY NoneOf, IdleType DEF RestartBackend, WorkerTyped
<1>3. TablesTyped'
  BY <1>1 DEF LogTyped, TablesTyped, tables
<1>4. \A i \in Ids : tr'[i].first = tr[i].first /\ tr'[i].last = tr[i].last
  BY <1>1 DEF tables
<1>5. QED BY <1>1, <1>2, <1>3, <1>4, CutOffTyped

(* The head of the frames that arrive.                                      *)
LEMMA HeadFrame ==
  ASSUME LogTyped, Len(down) > 0
  PROVE  /\ Head(down) \in Frame /\ Tail(down) \in Seq(Frame)
         /\ Head(down) \in Held
<1>1. down \in Seq(Frame)
  BY DEF LogTyped, LinkTyped
<1>2. Head(down) \in Frame /\ Head(down) = down[1] /\ Tail(down) \in Seq(Frame)
  BY <1>1, TailOf
<1>3. 1 \in 1..Len(down)
  BY <1>1
<1>4. QED BY <1>2, <1>3 DEF Held

LEMMA ReachType ==
  ASSUME NEW f \in Frame
  PROVE  Reach(f) \in Nat /\ Offset(f) \in Nat /\ Len(f.part) \in Nat
<1>1. f.index \in Nat /\ f.part \in Seq(Seqs)
  BY DEF Frame
<1>2. f.index * ChunkUnits \in Nat /\ Len(f.part) \in Nat
  BY <1>1, Units
<1>3. QED BY <1>2 DEF Reach, Offset

(* A step that takes a frame, and of the pending request at most the count. *)
Takes ==
  /\ Read
  /\ pend' \in [id : Ids \cup {NoId}, received : Nat, acked : Nat]
  /\ pend'.acked <= pend'.received
  /\ UNCHANGED <<acking, halted, tables>>
  /\ queue' \in Seq(Frame) /\ Len(queue') >= Len(queue)

LEMMA TakesTyped ==
  ASSUME LogTyped, Takes, Len(down) > 0
  PROVE  DeviceTyped' /\ LinkTyped' /\ WorkerTyped' /\ TablesTyped'
<1>1. DeviceTyped'
  BY DEF LogTyped, DeviceTyped, Takes, Read, source
<1>2. LinkTyped'
  BY HeadFrame DEF LogTyped, LinkTyped, Takes, Read
<1>3. WorkerTyped'
  <2>1. queue \in Seq(Frame) /\ Len(queue) \in Nat /\ Len(queue') \in Nat
    BY DEF LogTyped, WorkerTyped, Takes
  <2>2. QED BY <2>1 DEF LogTyped, WorkerTyped, Takes
<1>4. TablesTyped'
  BY DEF LogTyped, TablesTyped, Takes, tables
<1>5. QED BY <1>1, <1>2, <1>3, <1>4

LEMMA CutOffOnly ==
  ASSUME LogTyped, Disconnected, UNCHANGED <<queue, acking, halted, scan, tables>>
  PROVE  LogTyped'
<1>1. WorkerTyped' /\ TablesTyped'
  BY DEF LogTyped, WorkerTyped, TablesTyped, tables
<1>2. \A i \in Ids : tr'[i].first = tr[i].first /\ tr'[i].last = tr[i].last
  BY DEF tables
<1>3. QED BY <1>1, <1>2, CutOffTyped

LEMMA ReadChunkTyped ==
  ASSUME LogTyped, ReadChunk
  PROVE  LogTyped'
<1> DEFINE f == Head(down)
<1>1. Len(down) > 0 /\ f \in Frame /\ Reach(f) \in Nat
  BY HeadFrame, ReachType DEF ReadChunk
<1>2. LinkTyped /\ queue \in Seq(Frame)
  BY DEF LogTyped, WorkerTyped
<1>3. scan' = scan /\ UNCHANGED <<acking, halted, tables>>
  BY DEF ReadChunk
<1>4. CASE f.id # pend.id
  <2>1. Read /\ UNCHANGED <<pend, queue>>
    BY <1>4 DEF ReadChunk
  <2>2. Takes
    BY <2>1, <1>2, <1>3 DEF Takes, LinkTyped
  <2>3. ScanWaits
    BY <2>1, <1>2, <1>3 DEF ScanWaits, Read, tables, LinkTyped
  <2>4. QED BY <1>1, <2>2, <2>3, TakesTyped, ScanWaitsTyped DEF LogTyped
<1>5. CASE f.id = pend.id /\ InWindow(f)
  <2>1. /\ Read
        /\ pend' = [pend EXCEPT !.received = IF Reach(f) > @ THEN Reach(f) ELSE @]
        /\ queue' = Append(queue, f)
    BY <1>5 DEF ReadChunk
  <2>2. /\ pend' \in [id : Ids \cup {NoId}, received : Nat, acked : Nat]
        /\ pend'.acked <= pend'.received /\ pend'.id = pend.id
    <3> DEFINE n == IF Reach(f) > pend.received THEN Reach(f) ELSE pend.received
    <3>1. pend \in [id : Ids \cup {NoId}, received : Nat, acked : Nat]
      BY <1>2 DEF LinkTyped
    <3>2. pend' = [pend EXCEPT !.received = n]
      BY <2>1
    <3>3. n \in Nat /\ n >= pend.received
      BY <1>1, <3>1
    <3>4. pend.acked <= pend.received /\ pend.acked \in Nat /\ pend.received \in Nat
      BY <1>2, <3>1 DEF LinkTyped
    <3> HIDE DEF n
    <3>5. QED BY <3>1, <3>2, <3>3, <3>4
  <2>3. queue' \in Seq(Frame) /\ Len(queue') >= Len(queue)
    BY <2>1, <1>1, <1>2, AppendOf
  <2>4. Takes
    BY <2>1, <2>2, <2>3, <1>3 DEF Takes
  <2>5. ScanWaits
    BY <2>1, <2>2, <1>2, <1>3 DEF ScanWaits, Read, tables, LinkTyped
  <2>6. QED BY <1>1, <2>4, <2>5, TakesTyped, ScanWaitsTyped DEF LogTyped
<1>6. CASE f.id = pend.id /\ ~InWindow(f)
  <2>1. Disconnected /\ queue' = queue
    BY <1>6 DEF ReadChunk
  <2>2. QED BY <2>1, <1>3, CutOffOnly
<1>7. QED BY <1>4, <1>5, <1>6

LEMMA ReadResultTyped ==
  ASSUME LogTyped, AsCut, ReadResult
  PROVE  LogTyped'
<1> DEFINE f == Head(down)
           Answered == f.id = pend.id /\ Len(f.part) = pend.received /\ pend.received = pend.acked
<1>1. Len(down) > 0 /\ f \in Frame /\ Len(f.part) \in Nat /\ f \in Held
  BY HeadFrame, ReachType DEF ReadResult
<1>2. LinkTyped /\ queue \in Seq(Frame) /\ ScanTyped
  BY DEF LogTyped, WorkerTyped
<1>3. UNCHANGED <<queue, acking, halted, tables>>
  BY DEF ReadResult
<1>4. f.id \in Ids
  BY <1>1 DEF AsCut, ReadResult
<1>5. CASE f.id # pend.id
  <2>1. Read /\ UNCHANGED <<pend, scan>>
    BY <1>5 DEF ReadResult
  <2>2. Takes
    BY <2>1, <1>2, <1>3 DEF Takes, LinkTyped
  <2>3. ScanWaits
    BY <2>1, <1>2, <1>3 DEF ScanWaits, Read, tables, LinkTyped
  <2>4. QED BY <1>1, <2>2, <2>3, TakesTyped, ScanWaitsTyped DEF LogTyped
<1>6. CASE Answered
  <2>1. /\ Read /\ pend' = NoPend
        /\ scan' = [scan EXCEPT !.stage = "answered", !.result = <<Len(f.part), f.missing>>]
    BY <1>6 DEF ReadResult
  <2>2. Takes
    BY <2>1, <1>2, <1>3, IdleType DEF Takes
  <2>3. scan.stage = "waiting" /\ scan.id = pend.id
    BY <1>4, <1>6, <1>2, NoIdea DEF ScanTyped
  <2>4. <<Len(f.part), f.missing>> \in Nat \X SUBSET Seqs
    BY <1>1 DEF Frame
  <2>5. scan' \in [stage : Stages, session : Nat, first : 0..MaxRec, last : 0..MaxRec,
                   id : Ids \cup {NoId}, auto : BOOLEAN, barrier : Nat,
                   result : Nat \X SUBSET Seqs]
    BY <2>1, <2>4, <1>2 DEF ScanTyped, Stages
  <2>6. /\ scan'.stage = "answered" /\ scan'.session = scan.session /\ scan'.first = scan.first
        /\ scan'.last = scan.last /\ scan'.id = scan.id
    BY <2>1, <1>2 DEF ScanTyped
  <2>7. Stop(scan') = Stop(scan)
    BY <2>6 DEF Stop
  <2>8. pend'.id = NoId /\ sessions' = sessions /\ tr' = tr
    BY <2>1, <1>3, IdleType DEF Read, tables
  <2>9. ScanTyped'
    BY <2>3, <2>5, <2>6, <2>7, <2>8, <1>2 DEF ScanTyped
  <2>10. QED BY <1>1, <2>2, <2>9, TakesTyped DEF LogTyped
<1>7. CASE f.id = pend.id /\ ~Answered
  <2>1. Disconnected /\ scan' = scan
    BY <1>7 DEF ReadResult
  <2>2. QED BY <2>1, <1>3, CutOffOnly
<1>8. QED BY <1>5, <1>6, <1>7

LEMMA ReadErrorTyped ==
  ASSUME LogTyped, ReadError
  PROVE  LogTyped'
<1> DEFINE f == Head(down)
<1>1. Len(down) > 0
  BY DEF ReadError
<1>2. LinkTyped /\ queue \in Seq(Frame)
  BY DEF LogTyped, WorkerTyped
<1>3. UNCHANGED <<queue, acking, halted, tables>>
  BY DEF ReadError
<1>4. CASE f.kind = "error"
  <2>1. Disconnected /\ scan' = scan
    BY <1>4 DEF ReadError
  <2>2. QED BY <2>1, <1>3, CutOffOnly
<1>5. CASE f.kind # "error" /\ f.id = pend.id
  <2>1. Read /\ pend' = NoPend /\ scan' = NoScan
    BY <1>5 DEF ReadError
  <2>2. Takes
    BY <2>1, <1>2, <1>3, IdleType DEF Takes
  <2>3. ScanTyped'
    BY <2>1, IdleType, NoScanTyped
  <2>4. QED BY <1>1, <2>2, <2>3, TakesTyped DEF LogTyped
<1>6. CASE f.kind # "error" /\ f.id # pend.id
  <2>1. Read /\ UNCHANGED <<pend, scan>>
    BY <1>6 DEF ReadError
  <2>2. Takes
    BY <2>1, <1>2, <1>3 DEF Takes, LinkTyped
  <2>3. ScanWaits
    BY <2>1, <1>2, <1>3 DEF ScanWaits, Read, tables, LinkTyped
  <2>4. QED BY <1>1, <2>2, <2>3, TakesTyped, ScanWaitsTyped DEF LogTyped
<1>7. QED BY <1>4, <1>5, <1>6

LEMMA ReadLiveTyped ==
  ASSUME LogTyped, NEW s \in Seqs, ReadLive(s)
  PROVE  LogTyped'
<1> DEFINE f == [kind |-> "live", id |-> NoId, index |-> s, session |-> session,
                 part |-> <<>>, missing |-> {}]
<1>1. f \in Frame
  BY NoneOf DEF Frame, Seqs, LogTyped, LinkTyped
<1>2. queue' = Append(queue, f) /\ queue \in Seq(Frame)
  BY DEF ReadLive, LogTyped, WorkerTyped
<1>3. DeviceTyped' /\ TablesTyped'
  BY DEF ReadLive, LogTyped, DeviceTyped, TablesTyped, source, tables
<1>4. LinkTyped'
  BY DEF ReadLive, LogTyped, LinkTyped
<1>5. WorkerTyped'
  <2> HIDE DEF f
  <2>1. queue' \in Seq(Frame) /\ Len(queue') > 0
    BY <1>1, <1>2, AppendOf
  <2>2. QED BY <2>1 DEF ReadLive, LogTyped, WorkerTyped
<1>6. ScanTyped'
  BY ScanWaitsTyped DEF ScanWaits, ReadLive, LogTyped, LinkTyped, tables
<1>7. QED BY <1>3, <1>4, <1>5, <1>6 DEF LogTyped
-----------------------------------------------------------------------------
(* The callback worker.                                                    *)

LEMMA HeadCallback ==
  ASSUME LogTyped, Len(queue) > 0
  PROVE  /\ Head(queue) \in Frame /\ Tail(queue) \in Seq(Frame)
         /\ Head(queue) \in Held
<1>1. queue \in Seq(Frame)
  BY DEF LogTyped, WorkerTyped
<1>2. Head(queue) \in Frame /\ Head(queue) = queue[1] /\ Tail(queue) \in Seq(Frame)
  BY <1>1, TailOf
<1>3. 1 \in 1..Len(queue)
  BY <1>1
<1>4. QED BY <1>2, <1>3 DEF Held

LEMMA CompletedTyped ==
  ASSUME LogTyped, Len(queue) > 0, NEW failed \in BOOLEAN, Completed(failed)
  PROVE  WorkerTyped'
<1>1. queue' \in Seq(Frame)
  BY HeadCallback DEF Completed
<1>2. halted' \in BOOLEAN
  BY DEF Completed
<1>3. acking' = NoAck
  BY DEF Completed
<1>4. QED BY <1>1, <1>2, <1>3, IdleType DEF WorkerTyped

Rec == [held : BOOLEAN, located : BOOLEAN, archived : {0, 1}]

LEMMA IngestedType ==
  ASSUME NEW r \in Rec, NEW located \in BOOLEAN, NEW accepted \in BOOLEAN
  PROVE  /\ Ingested(r, located, accepted) \in Rec
         /\ r.located \/ located => Ingested(r, located, accepted).located
BY DEF Ingested, Rec

LEMMA IngestLiveTyped ==
  ASSUME LogTyped, IngestLive
  PROVE  LogTyped'
<1> DEFINE s == Head(queue).index
<1>1. PICK accepted \in BOOLEAN : recs' = [recs EXCEPT ![s] = Ingested(recs[s], FALSE, accepted)]
  BY DEF IngestLive
<1>2. recs' \in [Seqs -> Rec]
  <2>1. recs \in [Seqs -> Rec]
    BY DEF LogTyped, TablesTyped, Rec
  <2>2. s \in Seqs => Ingested(recs[s], FALSE, accepted) \in Rec
    BY <2>1, IngestedType
  <2> HIDE DEF s
  <2>3. QED BY <1>1, <2>1, <2>2
<1>3. TablesTyped'
  BY <1>2 DEF IngestLive, LogTyped, TablesTyped, Rec
<1>4. WorkerTyped'
  BY CompletedTyped DEF IngestLive
<1>5. DeviceTyped' /\ LinkTyped'
  BY DEF IngestLive, LogTyped, DeviceTyped, LinkTyped, source, link
<1>6. ScanTyped'
  BY ScanWaitsTyped DEF ScanWaits, IngestLive, LogTyped, LinkTyped, link
<1>7. QED BY <1>3, <1>4, <1>5, <1>6 DEF LogTyped

Rows == [status : Statuses, first : Seqs, last : 0..MaxRec, session : Nat, bytes : Seq(Seqs)]

(* What AppendChunk does to the row of its frame.                           *)
LEMMA AppendedType ==
  ASSUME NEW r \in Rows, NEW f \in Frame
  PROVE  /\ Appended(r, f) \in Rows
         /\ Appended(r, f).first = r.first /\ Appended(r, f).last = r.last
         /\ Len(Appended(r, f).bytes) >= Len(r.bytes)
         /\ Stored(r, f) \/ Next1(r, f) => Len(Appended(r, f).bytes) >= Reach(f)
<1>1. r.bytes \in Seq(Seqs) /\ f.part \in Seq(Seqs)
  BY DEF Rows, Frame
<1>2. /\ r.bytes \o f.part \in Seq(Seqs)
      /\ Len(r.bytes \o f.part) = Len(r.bytes) + Len(f.part)
      /\ Len(r.bytes) \in Nat /\ Len(f.part) \in Nat
  BY <1>1
<1>3. CASE Stored(r, f)
  <2>1. Appended(r, f) = r
    BY <1>3 DEF Appended
  <2>2. Reach(f) \in Nat
    BY ReachType
  <2>3. QED BY <1>2, <1>3, <2>1, <2>2 DEF Stored
<1>4. CASE ~Stored(r, f)
  <2>1. Appended(r, f) = [r EXCEPT !.bytes = r.bytes \o f.part]
    BY <1>4 DEF Appended, Rows
  <2>2. /\ Appended(r, f) \in Rows /\ Appended(r, f).bytes = r.bytes \o f.part
        /\ Appended(r, f).first = r.first /\ Appended(r, f).last = r.last
    BY <1>2, <2>1 DEF Rows
  <2>3. Next1(r, f) => Len(r.bytes \o f.part) = Reach(f)
    BY <1>2 DEF Next1, Reach
  <2>4. Reach(f) \in Nat
    BY ReachType
  <2> DEFINE n == Len(Appended(r, f).bytes)
             k == Len(r.bytes)
             m == Len(f.part)
  <2>5. n = k + m /\ k \in Nat /\ m \in Nat /\ (Next1(r, f) => n = Reach(f))
    BY <1>2, <2>2, <2>3
  <2>6. n >= k /\ (Stored(r, f) \/ Next1(r, f) => n >= Reach(f))
    <3> HIDE DEF n, k, m
    <3>1. n >= k /\ (n = Reach(f) => n >= Reach(f))
      BY <2>4, <2>5
    <3>2. QED BY <1>4, <2>5, <3>1, Zenon
  <2>7. QED BY <2>2, <2>6
<1>5. QED BY <1>3, <1>4

(* The two ways a chunk goes.                                               *)
Accepts(f) ==
  /\ Known(tr[f.id], f) /\ (Stored(tr[f.id], f) \/ Next1(tr[f.id], f))
  /\ tr' = [tr EXCEPT ![f.id] = Appended(tr[f.id], f)]
  /\ acking' = [id |-> f.id, index |-> f.index, next |-> Reach(f)]
  /\ UNCHANGED <<source, link, pend, queue, halted, scan, ready, recs, gaps, cursor, faults>>
Refuses(f) ==
  /\ tr' = IF tr[f.id].status = "receiving" THEN [tr EXCEPT ![f.id].status = "failed"] ELSE tr
  /\ Completed(TRUE) /\ Disconnected
  /\ scan' = Waiting(scan)
  /\ UNCHANGED <<recs, gaps, cursor, faults>>

LEMMA AppendCases ==
  ASSUME AppendChunk
  PROVE  /\ Len(queue) > 0 /\ Head(queue).kind = "chunk" /\ acking = NoAck
         /\ Accepts(Head(queue)) \/ Refuses(Head(queue))
BY DEF AppendChunk, Accepts, Refuses

(* A transfer that fails keeps what it has.                                 *)
LEMMA FailedRows ==
  ASSUME tr \in [Ids -> Rows], NEW id \in Ids,
         tr' = IF tr[id].status = "receiving" THEN [tr EXCEPT ![id].status = "failed"] ELSE tr
  PROVE  /\ tr' \in [Ids -> Rows]
         /\ \A i \in Ids : /\ tr'[i].first = tr[i].first /\ tr'[i].last = tr[i].last
                           /\ tr'[i].bytes = tr[i].bytes
<1>1. [tr[id] EXCEPT !.status = "failed"] \in Rows
  BY DEF Rows, Statuses
<1>2. tr' \in {tr, [tr EXCEPT ![id] = [tr[id] EXCEPT !.status = "failed"]]}
  OBVIOUS
<1>3. tr' \in [Ids -> Rows]
  BY <1>1, <1>2
<1>4. QED BY <1>2, <1>3 DEF Rows

LEMMA AppendChunkTyped ==
  ASSUME LogTyped, AsCut, AppendChunk
  PROVE  LogTyped'
<1> DEFINE f == Head(queue)
<1>1. Len(queue) > 0 /\ f \in Frame /\ f \in Held /\ f.kind = "chunk"
  BY AppendCases, HeadCallback
<1>2. f.id \in Ids
  BY <1>1 DEF AsCut
<1>3. tr \in [Ids -> Rows]
  BY DEF LogTyped, TablesTyped, Rows
<1>4. CASE Accepts(f)
  <2> DEFINE a == Appended(tr[f.id], f)
  <2>1. a \in Rows /\ a.first = tr[f.id].first /\ a.last = tr[f.id].last
    BY <1>1, <1>2, <1>3, AppendedType
  <2>2. tr' = [tr EXCEPT ![f.id] = a]
    BY <1>4 DEF Accepts
  <2>3. /\ tr' \in [Ids -> Rows]
        /\ \A i \in Ids : tr'[i].first = tr[i].first /\ tr'[i].last = tr[i].last
    <3> HIDE DEF a, f
    <3>1. QED BY <2>1, <2>2, <1>2, <1>3
  <2>4. TablesTyped'
    BY <2>3, <1>4 DEF Accepts, LogTyped, TablesTyped, Rows
  <2>5. acking' \in [id : Ids \cup {NoId}, index : Nat, next : Nat]
    <3>1. f.index \in Nat /\ Reach(f) \in Nat
      BY <1>1, ReachType DEF Frame
    <3>2. QED BY <3>1, <1>2, <1>4 DEF Accepts
  <2>6. WorkerTyped'
    BY <2>5, <1>1, <1>4 DEF Accepts, LogTyped, WorkerTyped
  <2>7. DeviceTyped' /\ LinkTyped'
    BY <1>4 DEF Accepts, LogTyped, DeviceTyped, LinkTyped, source, link
  <2>8. ScanTyped'
    <3>1. ScanWaits
      BY <2>3, <1>4 DEF ScanWaits, Accepts, LogTyped, LinkTyped, link
    <3>2. QED BY <3>1, ScanWaitsTyped
  <2>9. QED BY <2>4, <2>6, <2>7, <2>8 DEF LogTyped
<1>5. CASE Refuses(f)
  <2>1. /\ tr' \in [Ids -> Rows]
        /\ \A i \in Ids : tr'[i].first = tr[i].first /\ tr'[i].last = tr[i].last
    BY <1>2, <1>3, <1>5, FailedRows DEF Refuses
  <2>2. TablesTyped'
    BY <2>1, <1>5 DEF Refuses, LogTyped, TablesTyped, Rows
  <2>3. WorkerTyped'
    BY <1>1, <1>5, CompletedTyped DEF Refuses
  <2>4. Disconnected /\ scan' = Waiting(scan)
    BY <1>5 DEF Refuses
  <2>5. QED BY <2>1, <2>2, <2>3, <2>4, CutOffTyped
<1>6. QED BY <1>4, <1>5, AppendCases

LEMMA SendAckTyped ==
  ASSUME LogTyped, AsCut, SendAck
  PROVE  LogTyped'
<1> DEFINE ack == [kind |-> "ack", id |-> acking.id, index |-> acking.index,
                   first |-> 1, last |-> 0]
<1>1. tables' = tables /\ scan' = Waiting(scan) /\ acking # NoAck /\ Len(queue) > 0
  BY DEF SendAck, LogTyped, WorkerTyped
<1>2. TablesTyped'
  BY <1>1 DEF LogTyped, TablesTyped, tables
<1>3. \A i \in Ids : tr'[i].first = tr[i].first /\ tr'[i].last = tr[i].last
  BY <1>1 DEF tables
<1>4. CASE MaySend(acking)
  <2>1. /\ up' = Append(up, ack) /\ pend' = [pend EXCEPT !.acked = acking.next]
        /\ Completed(FALSE)
        /\ UNCHANGED <<source, session, sessions, down, live, ready>>
    BY <1>4 DEF SendAck
  <2>2. acking.id \in Ids /\ acking.index \in Nat /\ acking.next \in Nat
    BY <1>1 DEF AsCut, LogTyped, WorkerTyped
  <2>3. ack \in Ask
    BY <2>2 DEF Ask, Seqs, LogAssumption
  <2>4. up' \in Seq(Ask)
    <3> HIDE DEF ack
    <3>1. QED BY <2>1, <2>3, AppendOf DEF LogTyped, LinkTyped
  <2>5. /\ pend' \in [id : Ids \cup {NoId}, received : Nat, acked : Nat]
        /\ pend'.acked <= pend'.received /\ pend'.id = pend.id
    BY <2>1, <2>2, <1>4 DEF LogTyped, LinkTyped, MaySend
  <2>6. LinkTyped'
    <3> HIDE DEF ack
    <3>1. QED BY <2>1, <2>4, <2>5 DEF LogTyped, LinkTyped
  <2>7. DeviceTyped'
    BY <2>1 DEF LogTyped, DeviceTyped, source
  <2>8. WorkerTyped'
    BY <1>1, <2>1, CompletedTyped
  <2>9. ScanTyped'
    <3>1. ScanWaits
      BY <2>1, <2>5, <1>1, <1>3 DEF ScanWaits, LogTyped, LinkTyped
    <3>2. QED BY <3>1, ScanWaitsTyped
  <2>10. QED BY <1>2, <2>6, <2>7, <2>8, <2>9 DEF LogTyped
<1>5. CASE ~MaySend(acking)
  <2>1. Completed(TRUE) /\ Disconnected
    BY <1>5 DEF SendAck
  <2>2. WorkerTyped'
    BY <1>1, <2>1, CompletedTyped
  <2>3. QED BY <1>1, <1>2, <1>3, <2>1, <2>2, CutOffTyped
<1>6. QED BY <1>4, <1>5
-----------------------------------------------------------------------------
(* The scan.                                                               *)

Scans == [stage : Stages, session : Nat, first : 0..MaxRec, last : 0..MaxRec,
          id : Ids \cup {NoId}, auto : BOOLEAN, barrier : Nat,
          result : Nat \X SUBSET Seqs]

LEMMA StopType ==
  ASSUME NEW x \in Scans, x.first \in 1..x.last
  PROVE  Stop(x) \in x.first..x.last /\ Stop(x) \in Seqs /\ x.first \in Seqs /\ x.last \in Seqs
<1>1. /\ x.first \in Nat \ {0} /\ x.last \in Nat /\ x.last <= MaxRec /\ x.first <= x.last
      /\ Batch \in Nat \ {0} /\ MaxRec \in Nat
  BY DEF Scans, LogAssumption
<1>2. Stop(x) \in x.first..x.last
  BY <1>1 DEF Stop, Smaller
<1>3. QED BY <1>1, <1>2 DEF Seqs

LEMMA NoScanType ==
  NoScan \in Scans /\ NoScan.stage = "none" /\ NoScan.id = NoId
BY DEF NoScan, Scans, Stages, LogAssumption

LEMMA ScanType ==
  ASSUME LogTyped
  PROVE  /\ scan \in Scans
         /\ scan.stage # "none" =>
              /\ scan.first \in 1..scan.last /\ Stop(scan) \in scan.first..scan.last
              /\ Stop(scan) \in Seqs /\ scan.first \in Seqs /\ scan.last \in Seqs
<1>1. scan \in Scans /\ (scan.stage # "none" => scan.first \in 1..scan.last)
  BY DEF LogTyped, ScanTyped, Scans
<1>2. QED BY <1>1, StopType

(* A step of the scan that is not about a frame and changes no row.         *)
ScanOnly ==
  /\ ready' \in BOOLEAN
  /\ UNCHANGED <<source, link, worker, tables>>

LEMMA ScanOnlyTyped ==
  ASSUME LogTyped, ScanOnly
  PROVE  DeviceTyped' /\ LinkTyped' /\ WorkerTyped' /\ TablesTyped'
<1>1. DeviceTyped' /\ LinkTyped'
  BY DEF ScanOnly, LogTyped, DeviceTyped, LinkTyped, source, link, worker
<1>2. WorkerTyped' /\ TablesTyped'
  BY DEF ScanOnly, LogTyped, WorkerTyped, TablesTyped, worker, tables
<1>3. QED BY <1>1, <1>2

(* A scan that begins with a record the log has.                            *)
LEMMA BegunTyped ==
  ASSUME LogTyped, NEW first \in Nat \ {0}, NEW auto \in BOOLEAN, session # 0, scan = NoScan,
         Begun(first, auto), UNCHANGED <<source, link, worker, tables>>
  PROVE  /\ LogTyped'
         /\ \/ scan' = scan
            \/ scan'.stage = "draining" /\ scan'.first = first
<1>1. ScanOnly
  BY DEF Begun, ScanOnly, LogTyped, LinkTyped
<1>2. CASE first > dev.last
  <2>1. scan' = scan
    BY <1>2 DEF Begun
  <2>2. ScanWaits
    BY <2>1, <1>1 DEF ScanWaits, ScanOnly, link, worker, tables, LogTyped, LinkTyped
  <2>3. QED BY <1>1, <2>1, <2>2, ScanOnlyTyped, ScanWaitsTyped DEF LogTyped
<1>3. CASE ~ (first > dev.last)
  <2> DEFINE n == Len(queue)
  <2>1. scan' = [NoScan EXCEPT !.stage = "draining", !.session = session, !.first = first,
                               !.last = dev.last, !.auto = auto, !.barrier = n]
    BY <1>3 DEF Begun
  <2>2. n \in Nat /\ dev.last \in 0..MaxRec /\ session \in 1..sessions /\ sessions \in Nat
        /\ MaxRec \in Nat
    BY DEF LogTyped, DeviceTyped, LinkTyped, WorkerTyped, LogAssumption
  <2>3. first \in 1..dev.last /\ first \in 0..MaxRec
    BY <1>3, <2>2
  <2>4. scan' \in Scans
    <3>1. session \in Nat /\ n \in Nat /\ "draining" \in Stages
      BY <2>2 DEF Stages
    <3> HIDE DEF n
    <3>2. QED BY <2>1, <2>2, <2>3, <3>1, NoScanType DEF Scans
  <2>5. /\ scan'.stage = "draining" /\ scan'.session = session /\ scan'.first = first
        /\ scan'.last = dev.last
    BY <2>1, NoScanType DEF Scans
  <2>6. pend'.id = NoId /\ sessions' = sessions
    BY NoScanType DEF LogTyped, ScanTyped, worker, link
  <2>7. scan' # NoScan => scan'.stage # "none"
    BY <2>5
  <2>8. ScanTyped'
    BY <2>2, <2>3, <2>4, <2>5, <2>6 DEF ScanTyped, Scans
  <2>9. QED BY <1>1, <2>5, <2>8, ScanOnlyTyped DEF LogTyped
<1>4. QED BY <1>2, <1>3

LEMMA StartTyped ==
  ASSUME LogTyped, StartScan \/ Rescan
  PROVE  /\ LogTyped'
         /\ \/ scan' = scan
            \/ scan'.stage = "draining" /\ scan'.first = cursor.scanned + 1
<1>1. cursor.scanned + 1 \in Nat \ {0}
  BY DEF LogTyped, TablesTyped
<1>2. /\ session # 0 /\ scan = NoScan
      /\ UNCHANGED <<source, link, worker, tables>>
      /\ Begun(cursor.scanned + 1, TRUE) \/ Begun(cursor.scanned + 1, FALSE)
  BY DEF StartScan, Rescan
<1>3. QED BY <1>1, <1>2, BegunTyped

LEMMA ManualTyped ==
  ASSUME LogTyped, NEW first \in ManualStarts, ManualScan(first)
  PROVE  /\ LogTyped'
         /\ \/ scan' = scan
            \/ scan'.stage = "draining" /\ scan'.first = first
<1>1. first \in Nat \ {0}
  BY DEF LogAssumption
<1>2. /\ session # 0 /\ scan = NoScan /\ Begun(first, FALSE)
      /\ UNCHANGED <<source, link, worker, tables>>
  BY DEF ManualScan
<1>3. QED BY <1>1, <1>2, BegunTyped

LEMMA AbandonTyped ==
  ASSUME LogTyped, AbandonScan
  PROVE  LogTyped'
<1>1. DeviceTyped' /\ TablesTyped' /\ WorkerTyped'
  BY DEF AbandonScan, LogTyped, DeviceTyped, TablesTyped, WorkerTyped, source, tables
<1>2. LinkTyped'
  BY IdleType DEF AbandonScan, LogTyped, LinkTyped, link
<1>3. ScanTyped'
  BY IdleType, NoScanTyped DEF AbandonScan
<1>4. QED BY <1>1, <1>2, <1>3 DEF LogTyped

(* The row of a batch is begun, and rows nobody speaks of go.               *)
BeganRow == [status |-> "receiving", first |-> scan.first, last |-> Stop(scan),
             session |-> session, bytes |-> <<>>]

LEMMA BeginRows ==
  ASSUME LogTyped, BeginTransfer
  PROVE  \E id \in Ids \ InUse :
           /\ scan' = [scan EXCEPT !.stage = "begun", !.id = id]
           /\ tr' = [i \in Ids |-> IF i = id THEN BeganRow ELSE IF i \in InUse THEN tr[i] ELSE NoRow]
BY DEF BeginTransfer, BeganRow

LEMMA BeginTyped ==
  ASSUME LogTyped, BeginTransfer
  PROVE  LogTyped'
<1>1. PICK id \in Ids \ InUse :
        /\ scan' = [scan EXCEPT !.stage = "begun", !.id = id]
        /\ tr' = [i \in Ids |-> IF i = id THEN BeganRow ELSE IF i \in InUse THEN tr[i] ELSE NoRow]
  BY BeginRows
<1>2. /\ scan.stage = "draining" /\ scan.session = session
      /\ UNCHANGED <<source, link, worker, ready, recs, gaps, cursor, faults>>
  BY DEF BeginTransfer
<1>3. /\ scan \in Scans /\ Stop(scan) \in Seqs /\ scan.first \in Seqs
      /\ scan.first \in 1..scan.last
  BY <1>2, ScanType
<1>4. MaxRec \in Nat \ {0}
  BY DEF LogAssumption
<1>5. BeganRow \in Rows
  BY <1>3, <1>4, NoneOf DEF BeganRow, Rows, Statuses, Seqs, LogTyped, LinkTyped
<1>6. NoRow \in Rows
  BY <1>4, NoneOf DEF NoRow, Rows, Statuses, Seqs
<1>7. tr' \in [Ids -> Rows]
  BY <1>1, <1>5, <1>6 DEF LogTyped, TablesTyped, Rows
<1>8. TablesTyped'
  BY <1>2, <1>7 DEF LogTyped, TablesTyped, Rows
<1>9. DeviceTyped' /\ LinkTyped' /\ WorkerTyped'
  BY <1>2 DEF LogTyped, DeviceTyped, LinkTyped, WorkerTyped, source, link, worker
<1>10. scan' \in Scans
  BY <1>1, <1>3 DEF Scans, Stages
<1>11. /\ scan'.stage = "begun" /\ scan'.session = scan.session /\ scan'.first = scan.first
       /\ scan'.last = scan.last /\ scan'.id = id
  BY <1>1, <1>3 DEF Scans
<1>12. Stop(scan') = Stop(scan)
  BY <1>11 DEF Stop
<1>13. tr'[id].first = scan.first /\ tr'[id].last = Stop(scan)
  BY <1>1 DEF BeganRow
<1>14. pend' = pend /\ pend.id = NoId /\ sessions' = sessions /\ session' = session
  BY <1>2 DEF worker, link, LogTyped, ScanTyped
<1>15. scan.session \in 1..sessions
  BY <1>2 DEF LogTyped, ScanTyped
<1>16. ScanTyped'
  BY <1>3, <1>10, <1>11, <1>12, <1>13, <1>14, <1>15 DEF ScanTyped, Scans
<1>17. QED BY <1>8, <1>9, <1>16 DEF LogTyped

NextAsk == [kind |-> "request", id |-> scan.id, index |-> 0,
            first |-> scan.first, last |-> Stop(scan)]

LEMMA NextAskType ==
  ASSUME LogTyped, scan.stage = "begun"
  PROVE  NextAsk \in Ask /\ NextAsk.kind = "request" /\ NextAsk.id = scan.id
<1>1. scan.first \in Seqs /\ Stop(scan) \in Seqs
  BY ScanType
<1>2. scan.id \in Ids
  BY DEF LogTyped, ScanTyped
<1>3. Stop(scan) \in 0..MaxRec
  BY <1>1 DEF Seqs
<1>4. QED BY <1>1, <1>2, <1>3 DEF NextAsk, Ask

LEMMA SendRequestTyped ==
  ASSUME LogTyped, SendRequest
  PROVE  LogTyped'
<1>1. scan.stage = "begun" /\ scan.session = session /\ scan.session \in 1..sessions
  BY DEF SendRequest, LogTyped, ScanTyped
<1>2. /\ up' = Append(up, NextAsk) /\ pend' = [NoPend EXCEPT !.id = scan.id]
      /\ scan' = [scan EXCEPT !.stage = "waiting"]
      /\ UNCHANGED <<source, session, sessions, down, live, queue, acking, halted, ready, tables>>
  BY DEF SendRequest, NextAsk
<1>3. up' \in Seq(Ask)
  BY <1>1, <1>2, NextAskType, AppendOf DEF LogTyped, LinkTyped
<1>4. scan.id \in Ids
  BY <1>1 DEF LogTyped, ScanTyped
<1>5. /\ pend' \in [id : Ids \cup {NoId}, received : Nat, acked : Nat]
      /\ pend'.acked <= pend'.received /\ pend'.id = scan.id
  BY <1>2, <1>4 DEF NoPend
<1>6. LinkTyped'
  BY <1>2, <1>3, <1>5 DEF LogTyped, LinkTyped
<1>7. DeviceTyped' /\ WorkerTyped' /\ TablesTyped'
  BY <1>2 DEF LogTyped, DeviceTyped, WorkerTyped, TablesTyped, source, tables
<1>8. scan' \in Scans
  BY <1>2, ScanType DEF Scans, Stages
<1>9. /\ scan'.stage = "waiting" /\ scan'.session = scan.session /\ scan'.first = scan.first
      /\ scan'.last = scan.last /\ scan'.id = scan.id
  BY <1>2, ScanType DEF Scans
<1>10. Stop(scan') = Stop(scan)
  BY <1>9 DEF Stop
<1>11. tr' = tr /\ sessions' = sessions
  BY <1>2 DEF tables
<1>12. ScanTyped'
  BY <1>1, <1>5, <1>8, <1>9, <1>10, <1>11 DEF LogTyped, ScanTyped, Scans
<1>13. QED BY <1>6, <1>7, <1>12 DEF LogTyped
-----------------------------------------------------------------------------
(* The end of a batch.                                                     *)

Watermarks == [scanned : 0..MaxRec, from : 0..MaxRec, through : 0..MaxRec]

(* What the cursor becomes: scanning reaches the end of the row, and the    *)
(* verified interval stays or is joined by a whole row that touches it.     *)
Joined(c, row, v) ==
  \/ v.from = c.from /\ v.through = c.through
  \/ c.from = 0 /\ v.from = row.first /\ v.through = row.last
  \/ /\ c.from # 0 /\ row.first <= c.through + 1 /\ row.last >= c.from - 1
     /\ v.from \in {row.first, c.from} /\ v.from <= row.first /\ v.from <= c.from
     /\ v.through \in {row.last, c.through} /\ v.through >= row.last /\ v.through >= c.through

LEMMA AdvancedType ==
  ASSUME NEW c \in Watermarks, c.from <= c.through, c.through <= c.scanned,
         NEW row \in Rows, row.last \in row.first..MaxRec, NEW complete \in BOOLEAN
  PROVE  LET v == Advanced(c, row, complete)
         IN  /\ v \in Watermarks /\ v.from <= v.through /\ v.through <= v.scanned
             /\ v.scanned \in {row.last, c.scanned}
             /\ v.scanned >= row.last /\ v.scanned >= c.scanned
             /\ Joined(c, row, v)
             /\ ~complete => v.from = c.from /\ v.through = c.through
<1> DEFINE v == Advanced(c, row, complete)
           n == IF row.last > c.scanned THEN row.last ELSE c.scanned
           m == IF row.last > c.through THEN row.last ELSE c.through
           touches == row.first <= c.through + 1 /\ row.last >= c.from - 1
<1>1. /\ row.first \in 1..MaxRec /\ row.last \in 1..MaxRec /\ row.first <= row.last /\ MaxRec \in Nat
      /\ c.scanned \in 0..MaxRec /\ c.from \in 0..MaxRec /\ c.through \in 0..MaxRec
  BY DEF Watermarks, Rows, Seqs, LogAssumption
<1>2. n \in 0..MaxRec /\ n \in {row.last, c.scanned} /\ n >= row.last /\ n >= c.scanned
  BY <1>1
<1>3. m \in 0..MaxRec /\ m \in {row.last, c.through} /\ m >= row.last /\ m >= c.through /\ m <= n
  BY <1>1
<1>4. /\ Smaller(row.first, c.from) \in {row.first, c.from}
      /\ Smaller(row.first, c.from) <= row.first /\ Smaller(row.first, c.from) <= c.from
      /\ Smaller(row.first, c.from) \in 0..MaxRec
  BY <1>1 DEF Smaller
<1>5. CASE ~complete
  <2>1. v = [c EXCEPT !.scanned = n]
    BY <1>5 DEF Advanced
  <2> HIDE DEF n, v
  <2>2. v \in Watermarks /\ v.scanned = n /\ v.from = c.from /\ v.through = c.through
    BY <1>2, <2>1 DEF Watermarks
  <2>3. v.from <= v.through /\ v.through <= v.scanned
    BY <1>1, <1>2, <2>2
  <2>4. Joined(c, row, v)
    BY <2>2 DEF Joined
  <2>5. QED BY <1>2, <2>2, <2>3, <2>4 DEF v
<1>6. CASE complete /\ c.from = 0
  <2>1. v = [scanned |-> n, from |-> row.first, through |-> row.last]
    BY <1>6 DEF Advanced
  <2> HIDE DEF n, v
  <2>2. v \in Watermarks /\ v.scanned = n /\ v.from = row.first /\ v.through = row.last
    BY <1>1, <1>2, <2>1 DEF Watermarks
  <2>3. v.from <= v.through /\ v.through <= v.scanned /\ Joined(c, row, v)
    BY <1>1, <1>2, <1>6, <2>2 DEF Joined
  <2>4. QED BY <1>2, <1>6, <2>2, <2>3 DEF v
<1>7. CASE complete /\ c.from # 0 /\ touches
  <2>1. v = [scanned |-> n, from |-> Smaller(row.first, c.from), through |-> m]
    BY <1>7 DEF Advanced
  <2> HIDE DEF n, m, v
  <2>2. /\ v \in Watermarks /\ v.scanned = n /\ v.from = Smaller(row.first, c.from)
        /\ v.through = m
    BY <1>2, <1>3, <1>4, <2>1 DEF Watermarks
  <2>3. v.from <= v.through /\ v.through <= v.scanned
    BY <1>1, <1>2, <1>3, <1>4, <2>2
  <2>4. Joined(c, row, v)
    BY <1>3, <1>4, <1>7, <2>2 DEF Joined
  <2>5. QED BY <1>2, <1>7, <2>2, <2>3, <2>4 DEF v
<1>8. CASE complete /\ c.from # 0 /\ ~touches
  <2>1. v = [c EXCEPT !.scanned = n]
    BY <1>8 DEF Advanced
  <2> HIDE DEF n, v
  <2>2. v \in Watermarks /\ v.scanned = n /\ v.from = c.from /\ v.through = c.through
    BY <1>2, <2>1 DEF Watermarks
  <2>3. v.from <= v.through /\ v.through <= v.scanned
    BY <1>1, <1>2, <2>2
  <2>4. Joined(c, row, v)
    BY <2>2 DEF Joined
  <2>5. QED BY <1>2, <2>2, <2>3, <2>4 DEF v
<1>9. QED BY <1>5, <1>6, <1>7, <1>8

(* The two ways a batch ends.                                               *)
Succeeds ==
  /\ Valid(tr[scan.id], scan.result)
  /\ Ingest(tr[scan.id], scan.result[2])
  /\ tr' = [tr EXCEPT ![scan.id].status = "finished"]
  /\ NextBatch
Fails ==
  /\ tr' = IF tr[scan.id].status = "receiving" THEN [tr EXCEPT ![scan.id].status = "failed"] ELSE tr
  /\ scan' = NoScan
  /\ UNCHANGED <<ready, recs, gaps, cursor>>

LEMMA FinishCases ==
  ASSUME Finish
  PROVE  /\ scan.stage = "answered"
         /\ Succeeds \/ Fails
         /\ UNCHANGED <<source, link, worker, faults>>
BY DEF Finish, Succeeds, Fails

(* The row of the scan, and what a valid one brings.                        *)
LEMMA BatchRow ==
  ASSUME LogTyped, scan.stage = "answered"
  PROVE  LET row == tr[scan.id]
         IN  /\ scan.id \in Ids /\ row \in Rows
             /\ row.first = scan.first /\ row.last = Stop(scan)
             /\ row.first \in Seqs /\ row.last \in row.first..MaxRec
<1>1. scan.first \in 1..scan.last /\ Stop(scan) \in scan.first..scan.last /\ scan.first \in Seqs
      /\ scan.last \in Seqs
  BY ScanType
<1>2. scan.id \in Ids /\ tr[scan.id].first = scan.first /\ tr[scan.id].last = Stop(scan)
  BY DEF LogTyped, ScanTyped
<1>3. tr[scan.id] \in Rows
  BY <1>2 DEF LogTyped, TablesTyped, Rows
<1>4. Stop(scan) \in scan.first..MaxRec
  BY <1>1 DEF Seqs
<1>5. QED BY <1>1, <1>2, <1>3, <1>4

LEMMA IngestRecs ==
  ASSUME LogTyped, NEW row \in Rows, NEW missing, Ingest(row, missing)
  PROVE  /\ recs' \in [Seqs -> Rec]
         /\ \A s \in Seqs : recs[s].located \/ s \in Found(row) => recs'[s].located
<1>1. PICK accepted \in SUBSET Found(row) :
        recs' = [s \in Seqs |-> IF s \in Found(row)
                                THEN Ingested(recs[s], TRUE, s \in accepted) ELSE recs[s]]
  BY DEF Ingest
<1>2. recs \in [Seqs -> Rec]
  BY DEF LogTyped, TablesTyped, Rec
<1>3. ASSUME NEW s \in Seqs
      PROVE  /\ Ingested(recs[s], TRUE, s \in accepted) \in Rec
             /\ Ingested(recs[s], TRUE, s \in accepted).located
  <2>1. (s \in accepted) \in BOOLEAN
    OBVIOUS
  <2>2. QED BY <1>2, <2>1, IngestedType
<1>4. QED BY <1>1, <1>2, <1>3

LEMMA FinishTyped ==
  ASSUME LogTyped, Finish
  PROVE  LogTyped'
<1> DEFINE row == tr[scan.id]
           missing == scan.result[2]
<1>1. /\ scan.stage = "answered"
      /\ Succeeds \/ Fails
      /\ UNCHANGED <<source, link, worker, faults>>
  BY FinishCases
<1>2. /\ scan.id \in Ids /\ row \in Rows /\ row.first = scan.first /\ row.last = Stop(scan)
      /\ row.first \in Seqs /\ row.last \in row.first..MaxRec
  BY FinishCases, BatchRow
<1>3. DeviceTyped' /\ WorkerTyped'
  BY FinishCases DEF LogTyped, DeviceTyped, WorkerTyped, source, link, worker
<1>4. tr \in [Ids -> Rows]
  BY DEF LogTyped, TablesTyped, Rows
<1>5. UNCHANGED <<session, sessions, up, down, live, pend>> /\ pend.id = NoId
  BY FinishCases DEF link, worker, LogTyped, ScanTyped
<1>6. CASE Fails
  <2>1. tr' \in [Ids -> Rows]
    BY <1>2, <1>4, <1>6, FailedRows DEF Fails
  <2>2. TablesTyped'
    BY <2>1, <1>6 DEF Fails, LogTyped, TablesTyped, Rows
  <2>3. ScanTyped'
    BY <1>5, <1>6, NoScanTyped DEF Fails
  <2>4. LinkTyped'
    BY <1>5, <1>6 DEF Fails, LogTyped, LinkTyped
  <2>5. QED BY <1>3, <2>2, <2>3, <2>4 DEF LogTyped
<1>7. CASE Succeeds
  <2>1. tr' \in [Ids -> Rows]
    <3>1. [row EXCEPT !.status = "finished"] \in Rows
      BY <1>2 DEF Rows, Statuses
    <3>2. tr' = [tr EXCEPT ![scan.id] = [row EXCEPT !.status = "finished"]]
      BY <1>7 DEF Succeeds
    <3> HIDE DEF row
    <3>3. QED BY <1>4, <3>1, <3>2
  <2>2. Found(row) \cup missing = row.first..row.last /\ Ingest(row, missing)
    BY <1>7 DEF Succeeds, Valid
  <2>3. gaps' \subseteq Seqs
    <3>1. missing \subseteq Seqs
      BY <1>2, <2>2 DEF Seqs
    <3>2. QED BY <2>2, <3>1 DEF Ingest, LogTyped, TablesTyped
  <2>4. recs' \in [Seqs -> Rec]
    BY <1>2, <2>2, IngestRecs
  <2>5. cursor' \in Watermarks /\ cursor'.from <= cursor'.through /\ cursor'.through <= cursor'.scanned
    <3>1. cursor' = Advanced(cursor, row, missing = {})
      BY <2>2 DEF Ingest
    <3>2. /\ cursor \in Watermarks /\ cursor.from <= cursor.through
          /\ cursor.through <= cursor.scanned /\ (missing = {}) \in BOOLEAN
      BY DEF LogTyped, TablesTyped, Watermarks
    <3> HIDE DEF row, missing
    <3>3. QED BY <3>1, <3>2, <1>2, AdvancedType
  <2>6. TablesTyped'
    BY <2>1, <2>3, <2>4, <2>5 DEF TablesTyped, Rows, Rec, Watermarks
  <2>7. NextBatch
    BY <1>7 DEF Succeeds
  <2>8. ready' \in BOOLEAN
    BY <2>7, ScanType DEF NextBatch, LogTyped, LinkTyped, Scans
  <2>9. LinkTyped'
    BY <1>5, <2>8 DEF LogTyped, LinkTyped
  <2>10. CASE ~ (Stop(scan) < scan.last)
    <3>1. scan' = NoScan
      BY <2>7, <2>10 DEF NextBatch
    <3>2. QED BY <3>1, <1>3, <1>5, <2>6, <2>9, NoScanTyped DEF LogTyped
  <2>11. CASE Stop(scan) < scan.last
    <3> DEFINE n == Len(queue)
               k == Stop(scan) + 1
    <3>1. scan' = [scan EXCEPT !.stage = "draining", !.first = k, !.barrier = n, !.id = NoId,
                               !.result = <<0, {}>>]
      BY <2>7, <2>11 DEF NextBatch
    <3>2. /\ n \in Nat /\ k \in 1..scan.last /\ scan.last \in Seqs /\ k \in 0..MaxRec
          /\ scan \in Scans /\ scan.session \in 1..sessions
      BY <1>1, <2>11, ScanType DEF LogTyped, WorkerTyped, ScanTyped, Seqs
    <3> HIDE DEF n, k
    <3>3. scan' \in Scans
      BY <3>1, <3>2 DEF Scans, Stages
    <3>4. /\ scan'.stage = "draining" /\ scan'.first = k /\ scan'.last = scan.last
          /\ scan'.session = scan.session
      BY <3>1, <3>2 DEF Scans
    <3>5. ScanTyped'
      BY <3>2, <3>3, <3>4, <1>5 DEF ScanTyped, Scans
    <3>6. QED BY <3>5, <1>3, <2>6, <2>9 DEF LogTyped
  <2>12. QED BY <2>10, <2>11
<1>8. QED BY <1>1, <1>6, <1>7
-----------------------------------------------------------------------------
(* Every step keeps the types.                                             *)

LEMMA TypedStep == LogTyped /\ AsCut /\ [Next]_vars => LogTyped'
<1> SUFFICES ASSUME LogTyped, AsCut, [Next]_vars PROVE LogTyped'
  OBVIOUS
<1>1. CASE Record
  BY <1>1, RecordTyped
<1>2. ASSUME NEW s \in Seqs, LoseRecord(s) PROVE LogTyped'
  BY <1>2, LoseTyped
<1>3. CASE ServeRequest
  BY <1>3, ServeRequestTyped
<1>4. CASE ServeAck
  BY <1>4, ServeAckTyped
<1>5. CASE Resend
  BY <1>5, ResendTyped
<1>6. CASE LinkUp
  BY <1>6, LinkUpTyped
<1>7. CASE LinkDown \/ GiveUp
  BY <1>7, LinkEndsTyped
<1>8. CASE RestartBackend
  BY <1>8, RestartTyped
<1>9. CASE ReadLog
  BY <1>9, ReadChunkTyped, ReadResultTyped, ReadErrorTyped DEF ReadLog
<1>10. ASSUME NEW s \in Seqs, ReadLive(s) PROVE LogTyped'
  BY <1>10, ReadLiveTyped
<1>11. CASE Callback
  BY <1>11, IngestLiveTyped, AppendChunkTyped, SendAckTyped DEF Callback
<1>12. CASE Scan
  BY <1>12, StartTyped, BeginTyped, SendRequestTyped, FinishTyped DEF Scan
<1>13. CASE Rescan
  BY <1>13, StartTyped
<1>14. ASSUME NEW first \in ManualStarts, ManualScan(first) PROVE LogTyped'
  BY <1>14, ManualTyped
<1>15. CASE AbandonScan
  BY <1>15, AbandonTyped
<1>16. CASE UNCHANGED vars
  <2>1. DeviceTyped' /\ LinkTyped'
    BY <1>16 DEF vars, source, link, worker, LogTyped, DeviceTyped, LinkTyped
  <2>2. WorkerTyped' /\ TablesTyped'
    BY <1>16 DEF vars, worker, tables, LogTyped, WorkerTyped, TablesTyped
  <2>3. ScanTyped'
    BY <1>16, ScanWaitsTyped DEF ScanWaits, vars, link, worker, tables, LogTyped, LinkTyped
  <2>4. QED BY <2>1, <2>2, <2>3 DEF LogTyped
<1>17. QED
  BY <1>1, <1>2, <1>3, <1>4, <1>5, <1>6, <1>7, <1>8, <1>9, <1>10, <1>11, <1>12, <1>13, <1>14,
     <1>15, <1>16 DEF Next

-----------------------------------------------------------------------------
(* Which frames there are after a step.                                    *)

LEMMA InUseIs ==
  InUse = {xfer.id, acking.id} \cup {up[i].id : i \in 1..Len(up)} \cup {f.id : f \in Held}
BY DEF InUse, Held

LEMMA HeldAppended ==
  ASSUME LogTyped, NEW g \in Frame, down' = Append(down, g), queue' = queue
  PROVE  \A f \in Held' : f \in Held \/ f = g
<1>1. down \in Seq(Frame)
  BY DEF LogTyped, LinkTyped
<1>2. /\ Len(down') = Len(down) + 1 /\ Len(down) \in Nat
      /\ \A i \in 1..Len(down) : down'[i] = down[i]
      /\ down'[Len(down) + 1] = g
  BY <1>1, AppendOf
<1>3. ASSUME NEW i \in 1..Len(down')
      PROVE  down'[i] \in Held \/ down'[i] = g
  <2>1. i \in 1..Len(down) \/ i = Len(down) + 1
    BY <1>2
  <2>2. QED BY <1>2, <2>1 DEF Held
<1>4. \A i \in 1..Len(queue') : queue'[i] \in Held
  BY DEF Held
<1>5. QED BY <1>3, <1>4 DEF Held

LEMMA HeldQueued ==
  ASSUME LogTyped, NEW g \in Frame, queue' = Append(queue, g), down' \in {down, Tail(down)},
         down' = down \/ Len(down) > 0
  PROVE  \A f \in Held' : f \in Held \/ f = g
<1>1. down \in Seq(Frame) /\ queue \in Seq(Frame)
  BY DEF LogTyped, LinkTyped, WorkerTyped
<1>2. /\ Len(queue') = Len(queue) + 1 /\ Len(queue) \in Nat
      /\ \A i \in 1..Len(queue) : queue'[i] = queue[i]
      /\ queue'[Len(queue) + 1] = g
  BY <1>1, AppendOf
<1>3. ASSUME NEW i \in 1..Len(queue')
      PROVE  queue'[i] \in Held \/ queue'[i] = g
  <2>1. i \in 1..Len(queue) \/ i = Len(queue) + 1
    BY <1>2
  <2>2. QED BY <1>2, <2>1 DEF Held
<1>4. ASSUME NEW i \in 1..Len(down')
      PROVE  down'[i] \in Held
  <2>1. CASE down' = down
    BY <2>1 DEF Held
  <2>2. CASE down' = Tail(down) /\ Len(down) > 0
    <3>1. i + 1 \in 1..Len(down) /\ down'[i] = down[i + 1]
      BY <1>1, <2>2, TailOf
    <3>2. QED BY <3>1 DEF Held
  <2>3. QED BY <2>1, <2>2
<1>5. QED BY <1>3, <1>4 DEF Held

LEMMA HeldTaken ==
  ASSUME LogTyped,
         down' \in {down, <<>>} \/ (Len(down) > 0 /\ down' = Tail(down)),
         queue' \in {queue, <<>>} \/ (Len(queue) > 0 /\ queue' = Tail(queue))
  PROVE  Held' \subseteq Held
<1>1. down \in Seq(Frame) /\ queue \in Seq(Frame)
  BY DEF LogTyped, LinkTyped, WorkerTyped
<1>2. ASSUME NEW i \in 1..Len(down')
      PROVE  down'[i] \in Held
  <2>1. CASE down' = down
    BY <2>1 DEF Held
  <2>2. CASE down' = <<>>
    BY <2>2, NoneOf
  <2>3. CASE down' = Tail(down) /\ Len(down) > 0
    <3>1. i + 1 \in 1..Len(down) /\ down'[i] = down[i + 1]
      BY <1>1, <2>3, TailOf
    <3>2. QED BY <3>1 DEF Held
  <2>4. QED BY <2>1, <2>2, <2>3
<1>3. ASSUME NEW i \in 1..Len(queue')
      PROVE  queue'[i] \in Held
  <2>1. CASE queue' = queue
    BY <2>1 DEF Held
  <2>2. CASE queue' = <<>>
    BY <2>2, NoneOf
  <2>3. CASE queue' = Tail(queue) /\ Len(queue) > 0
    <3>1. i + 1 \in 1..Len(queue) /\ queue'[i] = queue[i + 1]
      BY <1>1, <2>3, TailOf
    <3>2. QED BY <3>1 DEF Held
  <2>4. QED BY <2>1, <2>2, <2>3
<1>4. QED BY <1>2, <1>3 DEF Held

-----------------------------------------------------------------------------
(* A step that sends nothing: frames only go, or come in live.             *)

Quiet ==
  /\ xfer' \in {xfer, NoXfer} /\ acking' \in {acking, NoAck} /\ up' \in {up, <<>>}
  /\ \A f \in Held' : f \in Held \/ (f.kind = "live" /\ f.id = NoId)
  /\ \A i \in Ids \cap InUse : BytesOf(i)' >= BytesOf(i)
  /\ scan'.stage = "begun" => \/ scan.stage = "begun" /\ scan'.id = scan.id
                              \/ scan'.id \in Ids \ InUse

LEMMA NoXferIs == NoXfer.id = NoId /\ NoXfer.index = 0 /\ NoXfer.cut = <<>>
BY DEF NoXfer

LEMMA AskAt ==
  ASSUME LogTyped, NEW p \in 1..Len(up)
  PROVE  up[p] \in Ask /\ up[p].id \in Ids /\ up[p].index \in Nat
<1>1. up \in Seq(Ask)
  BY DEF LogTyped, LinkTyped
<1>2. up[p] \in Ask
  BY <1>1
<1>3. QED BY <1>2 DEF Ask

LEMMA QuietUnserved ==
  ASSUME LogTyped, Unserved, Quiet
  PROVE  Unserved'
<1>1. ASSUME NEW f \in Held'
      PROVE  f.id \in InUse \cup {NoId}
  BY InUseIs DEF Quiet
<1>2. xfer'.id \in {xfer.id, NoId} /\ acking'.id \in {acking.id, NoId}
  BY IdleType, NoXferIs DEF Quiet
<1>3. up' = up \/ up' = <<>>
  BY DEF Quiet
<1>4. \A i \in 1..Len(up') : up' = up
  BY <1>3
<1>5. InUse' \subseteq InUse \cup {NoId}
  <2>1. InUse' = {xfer'.id, acking'.id} \cup {up'[i].id : i \in 1..Len(up')} \cup {f.id : f \in Held'}
    BY DEF InUse, Held
  <2>2. QED BY <1>1, <1>2, <1>4, <2>1, InUseIs
<1>6. ASSUME scan'.stage = "begun"
      PROVE  scan'.id \notin InUse'
  <2>1. scan'.id \in Ids /\ scan'.id \notin InUse
    BY <1>6 DEF Quiet, Unserved, LogTyped, ScanTyped
  <2>2. QED BY <2>1, <1>5, NoIdea
<1>7. ASSUME NEW p \in 1..Len(up'), up'[p].kind = "request"
      PROVE  /\ up'[p].id \notin {xfer'.id, acking'.id} \cup {f.id : f \in Held'}
             /\ \A q \in 1..Len(up') : up'[q].id = up'[p].id => q = p
  <2>1. up' = up
    BY <1>4
  <2>2. up[p].id \in Ids
    BY <2>1, AskAt
  <2>3. /\ up[p].id \notin {xfer.id, acking.id} \cup {f.id : f \in Held}
        /\ \A q \in 1..Len(up) : up[q].id = up[p].id => q = p
    BY <1>7, <2>1 DEF Unserved
  <2>4. up[p].id \notin {f.id : f \in Held'}
    BY <2>2, <2>3, NoIdea DEF Quiet
  <2>5. QED BY <1>2, <2>1, <2>2, <2>3, <2>4, NoIdea
<1>8. QED BY <1>6, <1>7 DEF Unserved

LEMMA QuietCut ==
  ASSUME LogTyped, AsCut, Quiet
  PROVE  AsCut'
<1>1. xfer' = xfer \/ (xfer' = NoXfer /\ xfer'.id = NoId)
  BY NoXferIs DEF Quiet
<1>2. acking' = acking \/ (acking' = NoAck /\ acking'.id = NoId)
  BY IdleType DEF Quiet
<1>3. xfer' # NoXfer => xfer'.id \in Ids /\ xfer'.index * ChunkUnits < 2 * Len(xfer'.cut)
  BY <1>1 DEF AsCut
<1>4. ASSUME NEW f \in Held', f.kind \in {"chunk", "result"}
      PROVE  /\ f.id \in Ids
             /\ f.kind = "chunk" /\ f.id = xfer'.id => Reach(f) = Covered(xfer', f.index)
  <2>1. f \in Held
    BY <1>4 DEF Quiet
  <2>2. f.id \in Ids
    BY <1>4, <2>1 DEF AsCut
  <2>3. QED BY <2>1, <2>2, <1>1, NoIdea DEF AsCut
<1>5. acking'.id \in Ids /\ acking'.id = xfer'.id => acking'.next = Covered(xfer', acking'.index)
  BY <1>1, <1>2, NoIdea DEF AsCut
<1>6. acking' # NoAck => acking'.id \in Ids
  BY <1>2 DEF AsCut
<1>7. QED BY <1>3, <1>4, <1>5, <1>6 DEF AsCut

LEMMA BytesNat ==
  ASSUME LogTyped, NEW i \in Ids
  PROVE  BytesOf(i) \in Nat
<1>1. tr[i].bytes \in Seq(Seqs)
  BY DEF LogTyped, TablesTyped
<1>2. QED BY <1>1 DEF BytesOf

LEMMA CoveredType ==
  ASSUME NEW x \in Transfer, NEW k \in Nat
  PROVE  Covered(x, k) \in Int
<1>1. 2 * Len(x.cut) \in Int
  BY DEF Transfer
<1>2. (k + 1) * ChunkUnits \in Int
  BY Units
<1>3. QED BY <1>1, <1>2, SmallerOf DEF Covered

(* A step that keeps the transfer and what it was told, or ends both.       *)
Grows ==
  /\ xfer' \in {xfer, NoXfer} /\ up' \in {up, <<>>}
  /\ \A i \in Ids \cap InUse : BytesOf(i)' >= BytesOf(i)

LEMMA GrownDurable ==
  ASSUME LogTyped, LogTyped', AsCut, Durable, Grows,
         acking' # NoAck => Len(tr'[acking'.id].bytes) >= acking'.next
  PROVE  Durable'
<1>1. xfer' = xfer \/ (xfer' = NoXfer /\ xfer'.id = NoId)
  BY NoXferIs DEF Grows
<1>2. ASSUME NEW i \in Ids \cap InUse, NEW n \in Int, BytesOf(i) >= n
      PROVE  BytesOf(i)' >= n
  <2>1. BytesOf(i)' >= BytesOf(i) /\ BytesOf(i) \in Int
    BY BytesNat DEF Grows
  <2>2. tr'[i].bytes \in Seq(Seqs)
    BY DEF LogTyped, TablesTyped
  <2>3. BytesOf(i)' \in Int
    BY <2>2 DEF BytesOf
  <2>4. QED BY <1>2, <2>1, <2>3
<1>3. ASSUME NEW p \in 1..Len(up'), up'[p].kind = "ack", up'[p].id = xfer'.id
      PROVE  BytesOf(xfer.id)' >= Covered(xfer, up'[p].index) /\ xfer' = xfer
  <2>1. up' = up
    BY NoneOf DEF Grows
  <2>2. up[p].id \in Ids /\ up[p].index \in Nat
    BY <2>1, AskAt
  <2>3. xfer' = xfer /\ xfer.id \in Ids \cap InUse
    BY <1>1, <1>3, <2>1, <2>2, NoIdea, InUseIs
  <2>4. BytesOf(xfer.id) >= Covered(xfer, up[p].index)
    BY <1>3, <2>1, <2>3 DEF Durable
  <2>5. Covered(xfer, up[p].index) \in Int
    BY <2>2, XferType, CoveredType
  <2>6. QED BY <2>1, <2>3, <2>4, <2>5, <1>2
<1>4. ASSUME xfer' # NoXfer, xfer'.index > 0
      PROVE  BytesOf(xfer.id)' >= xfer.index * ChunkUnits /\ xfer' = xfer
  <2>1. xfer' = xfer /\ xfer.id \in Ids \cap InUse
    BY <1>1, <1>4, InUseIs DEF AsCut
  <2>2. BytesOf(xfer.id) >= xfer.index * ChunkUnits
    BY <1>4, <2>1 DEF Durable, AckedIsDurable, BytesOf
  <2>3. xfer.index * ChunkUnits \in Int
    BY XferType, Units DEF Transfer
  <2>4. QED BY <2>1, <2>2, <2>3, <1>2
<1>5. AckedIsDurable'
  BY <1>4 DEF AckedIsDurable, BytesOf
<1>6. \A p \in 1..Len(up') : up'[p].kind = "ack" /\ up'[p].id = xfer'.id =>
        Len(tr'[xfer'.id].bytes) >= Covered(xfer', up'[p].index)
  BY <1>3 DEF BytesOf
<1>7. QED BY <1>5, <1>6 DEF Durable, BytesOf

LEMMA QuietDurable ==
  ASSUME LogTyped, LogTyped', AsCut, Durable, Quiet
  PROVE  Durable'
<1>1. ASSUME acking' # NoAck
      PROVE  Len(tr'[acking'.id].bytes) >= acking'.next
  <2>1. acking' = acking /\ acking # NoAck
    BY <1>1 DEF Quiet
  <2>2. acking.id \in Ids \cap InUse
    BY <2>1, InUseIs DEF AsCut
  <2>3. acking.next \in Nat
    BY DEF LogTyped, WorkerTyped
  <2>4. tr[acking.id].bytes \in Seq(Seqs) /\ tr'[acking.id].bytes \in Seq(Seqs)
    BY <2>2 DEF LogTyped, TablesTyped
  <2>5. Len(tr[acking.id].bytes) >= acking.next
    BY <2>1 DEF Durable, BytesOf
  <2>6. Len(tr'[acking.id].bytes) >= Len(tr[acking.id].bytes)
    BY <2>2 DEF Quiet, BytesOf
  <2>7. /\ Len(tr[acking.id].bytes) \in Nat /\ Len(tr'[acking.id].bytes) \in Nat
    BY <2>4
  <2>8. QED BY <2>1, <2>3, <2>5, <2>6, <2>7
<1>2. Grows
  BY DEF Quiet, Grows
<1>3. QED BY <1>1, <1>2, GrownDurable

LEMMA BytesKept ==
  ASSUME LogTyped, NEW i \in Ids, tr' = tr
  PROVE  BytesOf(i)' >= BytesOf(i)
<1>1. BytesOf(i) \in Nat /\ BytesOf(i)' = BytesOf(i)
  BY BytesNat DEF BytesOf
<1>2. QED BY <1>1

LEMMA WaitingStage ==
  ASSUME LogTyped
  PROVE  /\ Waiting(scan).stage = scan.stage /\ Waiting(scan).id = scan.id
         /\ Waiting(scan).first = scan.first
BY WaitingType DEF LogTyped, ScanTyped

(* The end of a connection and what goes with it.                           *)
LEMMA CutOffQuiet ==
  ASSUME LogTyped, Disconnected,
         queue' \in {queue, <<>>} \/ (Len(queue) > 0 /\ queue' = Tail(queue)),
         acking' \in {acking, NoAck}, scan' \in {scan, Waiting(scan), NoScan},
         \A i \in Ids : BytesOf(i)' >= BytesOf(i)
  PROVE  Quiet
<1>1. down' = <<>> /\ xfer' = NoXfer /\ up' = <<>>
  BY DEF Disconnected
<1>2. Held' \subseteq Held
  BY <1>1, HeldTaken
<1>3. scan'.stage = "begun" => scan.stage = "begun" /\ scan'.id = scan.id
  BY WaitingStage, NoScanType
<1>4. QED BY <1>1, <1>2, <1>3 DEF Quiet

(* A step of the host that takes at most a frame.                           *)
LEMMA TakenQuiet ==
  ASSUME LogTyped, UNCHANGED <<xfer, up, tr>>, acking' \in {acking, NoAck},
         down' = down \/ (Len(down) > 0 /\ down' = Tail(down)),
         queue' = queue \/ (Len(queue) > 0 /\ queue' = Tail(queue)),
         scan'.stage = "begun" => scan.stage = "begun" /\ scan'.id = scan.id
  PROVE  Quiet
<1>1. Held' \subseteq Held
  BY HeldTaken
<1>2. QED BY <1>1, BytesKept DEF Quiet

LEMMA ReadChunkQuiet ==
  ASSUME LogTyped, ReadChunk
  PROVE  Quiet
<1> DEFINE f == Head(down)
<1>1. Len(down) > 0 /\ f \in Frame /\ f \in Held
  BY HeadFrame DEF ReadChunk
<1>2. UNCHANGED <<acking, halted, scan, tables>> /\ tr' = tr
  BY DEF ReadChunk, tables
<1>3. CASE Read
  <2>1. down' = Tail(down) /\ UNCHANGED <<xfer, up>>
    BY <1>3 DEF Read, source
  <2>2. queue' = queue \/ queue' = Append(queue, f)
    BY <1>3 DEF ReadChunk
  <2>3. CASE queue' = queue
    BY <1>1, <1>2, <2>1, <2>3, TakenQuiet
  <2>4. CASE queue' = Append(queue, f)
    <3>1. Held' \subseteq Held
      BY <1>1, <2>1, <2>4, HeldQueued
    <3>2. QED BY <1>2, <2>1, <3>1, BytesKept DEF Quiet
  <2>5. QED BY <2>2, <2>3, <2>4
<1>4. CASE Disconnected /\ queue' = queue
  BY <1>2, <1>4, CutOffQuiet, BytesKept
<1>5. QED BY <1>3, <1>4 DEF ReadChunk

LEMMA ReadOtherQuiet ==
  ASSUME LogTyped, ReadResult \/ ReadError
  PROVE  Quiet
<1>1. Len(down) > 0 /\ UNCHANGED <<queue, acking, halted, tables>> /\ tr' = tr
  BY DEF ReadResult, ReadError, tables
<1>2. CASE Disconnected /\ scan' = scan
  BY <1>1, <1>2, CutOffQuiet, BytesKept
<1>3. CASE Read /\ scan'.stage # "begun"
  BY <1>1, <1>3, TakenQuiet DEF Read, source
<1>4. CASE Read /\ scan' = scan
  BY <1>1, <1>4, TakenQuiet DEF Read, source
<1>5. ASSUME scan' = [scan EXCEPT !.stage = "answered",
                                  !.result = <<Len(Head(down).part), Head(down).missing>>]
      PROVE  scan'.stage = "answered"
  BY <1>5 DEF LogTyped, ScanTyped
<1>6. ReadResult => (Read /\ scan' = scan) \/ (Read /\ scan'.stage # "begun") \/ (Disconnected /\ scan' = scan)
  BY <1>5 DEF ReadResult
<1>7. ReadError => (Read /\ scan' = scan) \/ (Read /\ scan'.stage # "begun") \/ (Disconnected /\ scan' = scan)
  BY NoScanType DEF ReadError
<1>8. QED BY <1>2, <1>3, <1>4, <1>6, <1>7

LEMMA ReadLiveQuiet ==
  ASSUME LogTyped, NEW s \in Seqs, ReadLive(s)
  PROVE  Quiet
<1> DEFINE f == [kind |-> "live", id |-> NoId, index |-> s, session |-> session,
                 part |-> <<>>, missing |-> {}]
<1>1. f \in Frame
  BY NoneOf DEF Frame, Seqs, LogTyped, LinkTyped
<1>2. /\ queue' = Append(queue, f)
      /\ UNCHANGED <<source, session, sessions, up, down, pend, acking, halted, scan, ready, tables>>
  BY DEF ReadLive
<1>3. f.kind = "live" /\ f.id = NoId
  OBVIOUS
<1> HIDE DEF f
<1>4. \A g \in Held' : g \in Held \/ g = f
  BY <1>1, <1>2, HeldQueued
<1>5. UNCHANGED <<xfer, up, acking, scan, tr>>
  BY <1>2 DEF source, tables
<1>6. QED BY <1>3, <1>4, <1>5, BytesKept DEF Quiet

LEMMA CallbackQuiet ==
  ASSUME LogTyped, AsCut,
         \/ IngestLive
         \/ Len(queue) > 0 /\ Head(queue).kind = "chunk" /\ Refuses(Head(queue))
         \/ SendAck /\ ~MaySend(acking)
  PROVE  Quiet
<1>1. ASSUME NEW failed \in BOOLEAN, Completed(failed)
      PROVE  queue' = Tail(queue) /\ acking' = NoAck
  BY <1>1 DEF Completed
<1>2. CASE IngestLive
  <2>1. queue' = Tail(queue) /\ acking' = NoAck /\ Len(queue) > 0
    BY <1>2, <1>1 DEF IngestLive
  <2>2. UNCHANGED <<xfer, up, down, tr>> /\ scan' = Waiting(scan)
    BY <1>2 DEF IngestLive, source, link
  <2>3. QED BY <2>1, <2>2, WaitingStage, TakenQuiet
<1>3. CASE Len(queue) > 0 /\ Head(queue).kind = "chunk" /\ Refuses(Head(queue))
  <2>1. Head(queue).id \in Ids
    BY <1>3, HeadCallback DEF AsCut
  <2>2. tr \in [Ids -> Rows]
    BY DEF LogTyped, TablesTyped, Rows
  <2>3. \A i \in Ids : tr'[i].bytes = tr[i].bytes
    BY <1>3, <2>1, <2>2, FailedRows DEF Refuses
  <2>4. \A i \in Ids : BytesOf(i)' >= BytesOf(i)
    <3>1. \A i \in Ids : BytesOf(i)' = BytesOf(i) /\ BytesOf(i) \in Nat
      BY <2>3, BytesNat DEF BytesOf
    <3>2. QED BY <3>1
  <2>5. /\ queue' = Tail(queue) /\ acking' = NoAck
        /\ Disconnected /\ scan' = Waiting(scan)
    BY <1>3, <1>1 DEF Refuses
  <2>6. QED BY <1>3, <2>4, <2>5, CutOffQuiet
<1>4. CASE SendAck /\ ~MaySend(acking)
  <2>1. /\ Completed(TRUE) /\ Disconnected /\ scan' = Waiting(scan) /\ tr' = tr /\ acking # NoAck
    BY <1>4 DEF SendAck, tables
  <2>2. queue' = Tail(queue) /\ acking' = NoAck /\ Len(queue) > 0
    BY <2>1 DEF Completed, LogTyped, WorkerTyped
  <2>3. QED BY <2>1, <2>2, CutOffQuiet, BytesKept
<1>5. QED BY <1>2, <1>3, <1>4

LEMMA BeginQuiet ==
  ASSUME LogTyped, BeginTransfer
  PROVE  Quiet
<1>1. PICK id \in Ids \ InUse :
        /\ scan' = [scan EXCEPT !.stage = "begun", !.id = id]
        /\ tr' = [i \in Ids |-> IF i = id THEN BeganRow ELSE IF i \in InUse THEN tr[i] ELSE NoRow]
  BY BeginRows
<1>2. scan'.id = id
  BY <1>1 DEF LogTyped, ScanTyped
<1>3. ASSUME NEW i \in Ids \cap InUse
      PROVE  BytesOf(i)' >= BytesOf(i)
  <2>1. tr'[i] = tr[i]
    BY <1>1
  <2>2. BytesOf(i)' = BytesOf(i) /\ BytesOf(i) \in Nat
    BY <2>1, BytesNat DEF BytesOf
  <2>3. QED BY <2>2
<1>4. UNCHANGED <<xfer, up, down, queue, acking>>
  BY DEF BeginTransfer, source, link, worker
<1>5. Held' = Held
  BY <1>4 DEF Held
<1>6. QED BY <1>1, <1>2, <1>3, <1>4, <1>5 DEF Quiet

LEMMA FinishQuiet ==
  ASSUME LogTyped, Finish
  PROVE  Quiet
<1>1. UNCHANGED <<xfer, up, down, queue, acking>>
  BY FinishCases DEF source, link, worker
<1>2. Held' = Held
  BY <1>1 DEF Held
<1>3. scan.id \in Ids /\ scan.stage = "answered"
  BY FinishCases, BatchRow
<1>4. tr \in [Ids -> Rows]
  BY DEF LogTyped, TablesTyped, Rows
<1>5. \A i \in Ids : tr'[i].bytes = tr[i].bytes
  <2>1. CASE Fails
    BY <2>1, <1>3, <1>4, FailedRows DEF Fails
  <2>2. CASE Succeeds
    <3>1. tr' = [tr EXCEPT ![scan.id] = [tr[scan.id] EXCEPT !.status = "finished"]]
      BY <2>2 DEF Succeeds
    <3>2. QED BY <3>1, <1>3, <1>4 DEF Rows
  <2>3. QED BY <2>1, <2>2, FinishCases
<1>6. \A i \in Ids : BytesOf(i)' = BytesOf(i) /\ BytesOf(i) \in Nat
  BY <1>5, BytesNat DEF BytesOf
<1>7. scan'.stage # "begun"
  <2>1. CASE Fails
    BY <2>1, NoScanType DEF Fails
  <2>2. CASE Succeeds
    BY <2>2, NoScanType, ScanType DEF Succeeds, NextBatch, Scans
  <2>3. QED BY <2>1, <2>2, FinishCases
<1>8. QED BY <1>1, <1>2, <1>6, <1>7 DEF Quiet

(* The steps in which a frame is sent or a chunk made durable.              *)
Sends ==
  \/ ServeRequest \/ ServeAck \/ Resend \/ SendRequest
  \/ AppendChunk /\ Accepts(Head(queue))
  \/ SendAck /\ MaySend(acking)

LEMMA QuietSteps ==
  ASSUME LogTyped, AsCut, [Next]_vars
  PROVE  Quiet \/ Sends
<1>1. ASSUME UNCHANGED <<xfer, up, down, queue, acking, tr>>,
             scan'.stage = "begun" => scan.stage = "begun" /\ scan'.id = scan.id
      PROVE  Quiet
  BY <1>1, TakenQuiet
<1>2. CASE Record \/ (\E s \in Seqs : LoseRecord(s)) \/ LinkUp \/ UNCHANGED vars
  BY <1>2, <1>1 DEF Record, LoseRecord, LinkUp, vars, source, link, worker, tables
<1>3. CASE StartScan \/ Rescan \/ (\E first \in ManualStarts : ManualScan(first))
  <2>1. UNCHANGED <<source, link, worker, tables>>
    BY <1>3 DEF StartScan, Rescan, ManualScan
  <2>2. scan' = scan \/ scan'.stage = "draining"
    BY <1>3, StartTyped, ManualTyped
  <2>3. QED BY <2>1, <2>2, <1>1 DEF source, link, worker, tables
<1>4. CASE AbandonScan
  BY <1>4, <1>1, NoScanType DEF AbandonScan, source, link, tables
<1>5. CASE LinkDown \/ GiveUp
  <2>1. Disconnected /\ UNCHANGED <<queue, acking, halted, scan, tables>>
    BY <1>5 DEF LinkDown, GiveUp
  <2>2. QED BY <2>1, CutOffQuiet, BytesKept DEF tables
<1>6. CASE RestartBackend
  <2>1. Disconnected /\ queue' = <<>> /\ acking' = NoAck /\ scan' = NoScan /\ tables' = tables
    BY <1>6 DEF RestartBackend
  <2>2. QED BY <2>1, CutOffQuiet, BytesKept DEF tables
<1>7. CASE ReadLog
  BY <1>7, ReadChunkQuiet, ReadOtherQuiet DEF ReadLog
<1>8. ASSUME NEW s \in Seqs, ReadLive(s) PROVE Quiet
  BY <1>8, ReadLiveQuiet
<1>9. CASE Callback
  BY <1>9, CallbackQuiet, AppendCases DEF Callback, Sends
<1>10. CASE BeginTransfer \/ Finish
  BY <1>10, BeginQuiet, FinishQuiet
<1>11. QED
  BY <1>2, <1>3, <1>4, <1>5, <1>6, <1>7, <1>8, <1>9, <1>10 DEF Next, Scan, Sends
-----------------------------------------------------------------------------
(* The device answers: the frame it sends is of the transfer it serves or   *)
(* of the request or ack it has just read.                                  *)

(* The device reads k of the host's frames, and may send g.                 *)
Drops(k) == \/ k = 1 /\ Len(up) > 0 /\ up' = Tail(up)
            \/ k = 0 /\ up' = up
Serves(g, k) ==
  /\ g \in Frame /\ down' \in {down, Append(down, g)}
  /\ Drops(k)
  /\ g.id = xfer.id \/ (k = 1 /\ g.id = up[1].id)
  /\ xfer'.id \in {xfer.id, NoId} \/ (k = 1 /\ xfer'.id = up[1].id)
  /\ UNCHANGED <<queue, acking, tr, scan>>

LEMMA DropsAsk ==
  ASSUME LogTyped, NEW k, Drops(k), NEW p \in 1..Len(up')
  PROVE  p \in Nat \ {0} /\ k \in {0, 1} /\ p + k \in 1..Len(up) /\ up'[p] = up[p + k]
<1>1. up \in Seq(Ask)
  BY DEF LogTyped, LinkTyped
<1>2. CASE k = 1 /\ Len(up) > 0 /\ up' = Tail(up)
  BY <1>1, <1>2, TailOf
<1>3. CASE k = 0 /\ up' = up
  BY <1>1, <1>3
<1>4. QED BY <1>2, <1>3 DEF Drops

LEMMA HeadAsk ==
  ASSUME LogTyped, Len(up) > 0
  PROVE  Head(up) = up[1] /\ Head(up) \in Ask /\ Head(up).id \in Ids /\ 1 \in 1..Len(up)
         /\ Head(up).id \in InUse
<1>1. up \in Seq(Ask)
  BY DEF LogTyped, LinkTyped
<1>2. Head(up) = up[1] /\ Head(up) \in Ask /\ 1 \in 1..Len(up)
  BY <1>1, TailOf
<1>3. QED BY <1>2, InUseIs DEF Ask

LEMMA ServesHeld ==
  ASSUME LogTyped, NEW g, NEW k, Serves(g, k)
  PROVE  \A f \in Held' : f \in Held \/ f = g
<1>1. CASE down' = down
  BY <1>1 DEF Serves, Held
<1>2. CASE down' = Append(down, g)
  BY <1>2, HeldAppended DEF Serves
<1>3. QED BY <1>1, <1>2 DEF Serves

LEMMA ServesUnserved ==
  ASSUME LogTyped, Unserved, NEW g, NEW k, Serves(g, k)
  PROVE  Unserved'
<1>1. \A f \in Held' : f \in Held \/ f = g
  BY ServesHeld
<1>2. ASSUME k = 1
      PROVE  1 \in 1..Len(up) /\ up[1].id \in InUse
  BY <1>2, HeadAsk DEF Serves, Drops
<1>3. g.id \in InUse /\ xfer'.id \in InUse \cup {NoId} /\ acking' = acking /\ scan' = scan
  BY <1>2, InUseIs DEF Serves
<1>4. ASSUME NEW p \in 1..Len(up')
      PROVE  p \in Nat \ {0} /\ k \in {0, 1} /\ p + k \in 1..Len(up) /\ up'[p] = up[p + k]
  BY DropsAsk DEF Serves
<1>5. InUse' \subseteq InUse \cup {NoId}
  <2>1. InUse' = {xfer'.id, acking'.id} \cup {up'[i].id : i \in 1..Len(up')} \cup {f.id : f \in Held'}
    BY DEF InUse, Held
  <2>2. \A i \in 1..Len(up') : up'[i].id \in InUse
    BY <1>4, InUseIs
  <2>3. \A f \in Held' : f.id \in InUse
    BY <1>1, <1>3, InUseIs
  <2>4. acking.id \in InUse
    BY InUseIs
  <2>5. QED BY <1>3, <2>1, <2>2, <2>3, <2>4
<1>6. scan'.stage = "begun" => scan'.id \notin InUse'
  BY <1>3, <1>5, NoIdea DEF Unserved, LogTyped, ScanTyped
<1>7. ASSUME NEW p \in 1..Len(up'), up'[p].kind = "request"
      PROVE  /\ up'[p].id \notin {xfer'.id, acking'.id} \cup {f.id : f \in Held'}
             /\ \A q \in 1..Len(up') : up'[q].id = up'[p].id => q = p
  <2>1. p \in Nat \ {0} /\ k \in {0, 1} /\ p + k \in 1..Len(up) /\ up'[p] = up[p + k]
    BY <1>4
  <2>2. /\ up[p + k].id \notin {xfer.id, acking.id} \cup {f.id : f \in Held}
        /\ \A q \in 1..Len(up) : up[q].id = up[p + k].id => q = p + k
    BY <1>7, <2>1 DEF Unserved
  <2>3. k = 1 => up[1].id # up[p + k].id
    BY <2>1, <2>2, <1>2
  <2>4. up[p + k].id \in Ids
    BY <2>1, AskAt
  <2>5. up[p + k].id \notin {xfer'.id, acking'.id, g.id}
    BY <2>2, <2>3, <2>4, <1>3, NoIdea DEF Serves
  <2>6. up[p + k].id \notin {f.id : f \in Held'}
    BY <2>2, <2>5, <1>1
  <2>7. ASSUME NEW q \in 1..Len(up'), up'[q].id = up'[p].id
        PROVE  q = p
    <3>1. up'[q] = up[q + k] /\ q + k \in 1..Len(up) /\ q \in Nat
      BY <1>4
    <3>2. q + k = p + k
      BY <2>1, <2>2, <2>7, <3>1
    <3>3. QED BY <2>1, <3>1, <3>2
  <2>8. QED BY <2>1, <2>5, <2>6, <2>7
<1>8. QED BY <1>6, <1>7 DEF Unserved

(* What the worker and the host hold when the device serves a frame.        *)
LEMMA ServesCut ==
  ASSUME LogTyped, AsCut, NEW g, NEW k, Serves(g, k),
         xfer' # NoXfer => xfer'.id \in Ids /\ xfer'.index * ChunkUnits < 2 * Len(xfer'.cut),
         g.kind = "chunk" => g.id \in Ids /\ (g.id = xfer'.id => Reach(g) = Covered(xfer', g.index)),
         g.kind = "result" => g.id \in Ids,
         \A f \in Held : f.kind = "chunk" /\ f.id = xfer'.id => Reach(f) = Covered(xfer', f.index),
         acking.id \in Ids /\ acking.id = xfer'.id => acking.next = Covered(xfer', acking.index)
  PROVE  AsCut'
<1>1. \A f \in Held' : f \in Held \/ f = g
  BY ServesHeld
<1>2. acking' = acking
  BY DEF Serves
<1>3. \A f \in Held' : f.kind = "chunk" =>
        /\ f.id \in Ids
        /\ f.id = xfer'.id => Reach(f) = Covered(xfer', f.index)
  BY <1>1 DEF AsCut
<1>4. \A f \in Held' : f.kind = "result" => f.id \in Ids
  BY <1>1 DEF AsCut
<1>5. (acking' # NoAck => acking'.id \in Ids)
  BY <1>2 DEF AsCut
<1>6. acking'.id \in Ids /\ acking'.id = xfer'.id => acking'.next = Covered(xfer', acking'.index)
  BY <1>2
<1>7. QED BY <1>3, <1>4, <1>5, <1>6 DEF AsCut

(* A step that changes no row and hands over nothing.                       *)
LEMMA RowsDurable ==
  ASSUME Durable, tr' = tr, acking' \in {acking, NoAck},
         \A p \in 1..Len(up') : up'[p].kind = "ack" /\ up'[p].id = xfer'.id =>
           BytesOf(xfer'.id) >= Covered(xfer', up'[p].index),
         xfer' # NoXfer /\ xfer'.index > 0 => BytesOf(xfer'.id) >= xfer'.index * ChunkUnits
  PROVE  Durable'
<1>1. acking' # NoAck => Len(tr'[acking'.id].bytes) >= acking'.next
  BY DEF Durable, BytesOf
<1>2. \A p \in 1..Len(up') : up'[p].kind = "ack" /\ up'[p].id = xfer'.id =>
        Len(tr'[xfer'.id].bytes) >= Covered(xfer', up'[p].index)
  BY DEF BytesOf
<1>3. AckedIsDurable'
  BY DEF AckedIsDurable, BytesOf
<1>4. QED BY <1>1, <1>2, <1>3 DEF Durable, BytesOf

LEMMA ServeRequestInv ==
  ASSUME LogTyped, Unserved, AsCut, Durable, ServeRequest
  PROVE  Unserved' /\ AsCut' /\ Durable'
<1> DEFINE r == Head(up)
           x == Begins(r)
<1>1. /\ Len(up) > 0 /\ r.kind = "request" /\ up' = Tail(up)
      /\ UNCHANGED <<queue, acking, tr, scan>>
  BY DEF ServeRequest, worker, tables
<1>2. r = up[1] /\ r \in Ask /\ r.id \in Ids /\ 1 \in 1..Len(up) /\ LinkTyped
  BY <1>1, HeadAsk DEF LogTyped
<1>3. /\ r.id \notin {xfer.id, acking.id} \cup {f.id : f \in Held}
      /\ \A q \in 1..Len(up) : up[q].id = r.id => q = 1
  BY <1>1, <1>2 DEF Unserved
<1>4. ASSUME NEW p \in 1..Len(up')
      PROVE  up'[p] = up[p + 1] /\ p + 1 \in 1..Len(up) /\ up'[p].id # r.id
  <2>1. up'[p] = up[p + 1] /\ p + 1 \in 1..Len(up) /\ p \in Nat /\ p # 0
    BY <1>1, DropsAsk DEF Drops
  <2>2. QED BY <2>1, <1>3
<1>5. CASE xfer # NoXfer \/ Unavailable(r.first, r.last)
  <2> DEFINE g == Error("refused", r.id)
  <2>1. xfer' = xfer /\ down' = Append(down, g)
    BY <1>5 DEF ServeRequest
  <2>2. g \in Frame /\ g.kind = "refused" /\ g.id = r.id
    BY <1>2, ErrorOf
  <2> HIDE DEF g, r
  <2>3. Serves(g, 1)
    BY <1>1, <1>2, <2>1, <2>2 DEF Serves, Drops, r
  <2>4. Unserved'
    BY <2>3, ServesUnserved
  <2>5. AsCut'
    BY <2>1, <2>2, <2>3, ServesCut DEF AsCut
  <2>6. \A p \in 1..Len(up') : up'[p].kind = "ack" /\ up'[p].id = xfer'.id =>
          BytesOf(xfer'.id) >= Covered(xfer', up'[p].index)
    BY <2>1, <1>4 DEF Durable
  <2>7. xfer' # NoXfer /\ xfer'.index > 0 => BytesOf(xfer'.id) >= xfer'.index * ChunkUnits
    BY <2>1 DEF Durable, AckedIsDurable, BytesOf
  <2>8. Durable'
    BY <1>1, <2>6, <2>7, RowsDurable
  <2>9. QED BY <2>4, <2>5, <2>8
<1>6. CASE ~(xfer # NoXfer \/ Unavailable(r.first, r.last))
  <2> DEFINE g == IF x.index * ChunkUnits < 2 * Len(x.cut) THEN Chunk(x) ELSE Result(x)
  <2>1. Sent(x)
    BY <1>6 DEF ServeRequest, Begins
  <2>2. x \in Transfer /\ x.id = r.id /\ x.index = 0
    BY <1>2, BeginsType
  <2>3. /\ down' = Append(down, g)
        /\ xfer' = IF x.index * ChunkUnits < 2 * Len(x.cut) THEN x ELSE NoXfer
    BY <2>1 DEF Sent
  <2> HIDE DEF x, r
  <2>4. g \in Frame /\ g.id = r.id
    BY <2>2, <1>2, ChunkOf, ResultOf
  <2>5. /\ xfer' # NoXfer => x.index * ChunkUnits < 2 * Len(x.cut) /\ xfer' = x
        /\ xfer'.id \in {r.id, NoId}
    BY <2>2, <2>3, NoXferIs
  <2>6. g.kind = "chunk" => Reach(g) = Covered(x, g.index)
    BY <2>2, <1>2, ChunkOf, ResultOf
  <2>7. g.id = xfer'.id => xfer' = x
    BY <2>3, <2>4, <1>2, NoXferIs, NoIdea
  <2> HIDE DEF g
  <2>8. Serves(g, 1)
    BY <1>1, <1>2, <2>3, <2>4, <2>5 DEF Serves, Drops, r
  <2>9. Unserved'
    BY <2>8, ServesUnserved
  <2>10. \A f \in Held : f.kind = "chunk" => f.id # xfer'.id
    BY <1>3, <2>5, NoIdea DEF AsCut
  <2>11. acking.id \in Ids => acking.id # xfer'.id
    BY <1>3, <2>5, NoIdea
  <2>12. AsCut'
    BY <1>2, <2>2, <2>4, <2>5, <2>6, <2>7, <2>8, <2>10, <2>11, ServesCut
  <2>13. \A p \in 1..Len(up') : up'[p].id # xfer'.id
    BY <1>4, <2>5, AskAt, NoIdea
  <2>14. xfer' # NoXfer => ~ (xfer'.index > 0)
    BY <2>2, <2>5
  <2>15. Durable'
    BY <1>1, <2>13, <2>14, RowsDurable
  <2>16. QED BY <2>9, <2>12, <2>15
<1>7. QED BY <1>5, <1>6

LEMMA ServeAckInv ==
  ASSUME LogTyped, Unserved, AsCut, Durable, ServeAck
  PROVE  Unserved' /\ AsCut' /\ Durable'
<1> DEFINE a == Head(up)
           x == Advances(a)
<1>1. /\ Len(up) > 0 /\ a.kind = "ack" /\ up' = Tail(up)
      /\ UNCHANGED <<queue, acking, tr, scan>>
  BY DEF ServeAck, worker, tables
<1>2. a = up[1] /\ a \in Ask /\ a.id \in Ids /\ 1 \in 1..Len(up) /\ LinkTyped
  BY <1>1, HeadAsk DEF LogTyped
<1>3. ASSUME NEW p \in 1..Len(up')
      PROVE  up'[p] = up[p + 1] /\ p + 1 \in 1..Len(up)
  BY <1>1, DropsAsk DEF Drops
<1>4. CASE xfer' = xfer /\ down' \in {down, Append(down, Error("error", a.id))}
  <2> DEFINE g == Error("error", a.id)
  <2>1. g \in Frame /\ g.kind = "error" /\ g.id = a.id
    BY <1>2, ErrorOf
  <2> HIDE DEF g, a
  <2>2. Serves(g, 1)
    BY <1>1, <1>2, <1>4, <2>1 DEF Serves, Drops, g
  <2>3. Unserved'
    BY <2>2, ServesUnserved
  <2>4. AsCut'
    BY <1>4, <2>1, <2>2, ServesCut DEF AsCut
  <2>5. Durable'
    BY <1>1, <1>3, <1>4, RowsDurable DEF Durable, AckedIsDurable, BytesOf
  <2>6. QED BY <2>3, <2>4, <2>5
<1>5. CASE xfer # NoXfer /\ xfer.id = a.id /\ xfer.index = a.index /\ Sent(x)
  <2> DEFINE g == IF x.index * ChunkUnits < 2 * Len(x.cut) THEN Chunk(x) ELSE Result(x)
  <2>1. /\ x \in Transfer /\ x.id = xfer.id /\ x.cut = xfer.cut /\ x.index = xfer.index + 1
        /\ xfer.index \in Nat
    BY <1>2, <1>5, AdvancesType, XferType DEF Transfer
  <2>2. /\ down' = Append(down, g)
        /\ xfer' = IF x.index * ChunkUnits < 2 * Len(x.cut) THEN x ELSE NoXfer
    BY <1>5 DEF Sent
  <2> HIDE DEF x, a
  <2>3. g \in Frame /\ g.id = xfer.id
    BY <2>1, <1>2, ChunkOf, ResultOf
  <2>4. /\ xfer' # NoXfer => x.index * ChunkUnits < 2 * Len(x.cut) /\ xfer' = x
        /\ xfer'.id \in {xfer.id, NoId} /\ xfer.id \in Ids
    BY <2>1, <2>2, <1>2, <1>5, NoXferIs
  <2>5. g.kind = "chunk" => Reach(g) = Covered(x, g.index)
    BY <2>1, <1>2, ChunkOf, ResultOf
  <2>6. \A id \in Ids : id = xfer'.id => xfer' = x /\ id = xfer.id
    BY <2>1, <2>2, NoXferIs, NoIdea
  <2>7. \A k : Covered(x, k) = Covered(xfer, k)
    BY <2>1 DEF Covered
  <2> HIDE DEF g
  <2>8. Serves(g, 1)
    BY <1>1, <2>2, <2>3, <2>4 DEF Serves, Drops, a
  <2>9. Unserved'
    BY <2>8, ServesUnserved
  <2>10. AsCut'
    <3>1. \A f \in Held : f.kind = "chunk" /\ f.id = xfer'.id => Reach(f) = Covered(xfer', f.index)
      BY <2>6, <2>7 DEF AsCut
    <3>2. acking.id \in Ids /\ acking.id = xfer'.id => acking.next = Covered(xfer', acking.index)
      BY <2>6, <2>7 DEF AsCut
    <3>3. g.kind = "chunk" => g.id \in Ids /\ (g.id = xfer'.id => Reach(g) = Covered(xfer', g.index))
      BY <2>3, <2>4, <2>5, <2>6
    <3>4. xfer' # NoXfer => xfer'.id \in Ids /\ xfer'.index * ChunkUnits < 2 * Len(xfer'.cut)
      BY <2>1, <2>4
    <3>5. QED BY <2>3, <2>4, <2>8, <3>1, <3>2, <3>3, <3>4, ServesCut
  <2>11. \A p \in 1..Len(up') : up'[p].kind = "ack" /\ up'[p].id = xfer'.id =>
           BytesOf(xfer'.id) >= Covered(xfer', up'[p].index)
    <3> SUFFICES ASSUME NEW p \in 1..Len(up'), up'[p].kind = "ack", up'[p].id = xfer'.id
                 PROVE  BytesOf(xfer'.id) >= Covered(xfer', up'[p].index)
      OBVIOUS
    <3>1. up'[p] = up[p + 1] /\ p + 1 \in 1..Len(up) /\ up[p + 1].id \in Ids
      BY <1>3, AskAt
    <3>2. xfer' = x /\ xfer'.id = xfer.id
      BY <2>1, <2>6, <3>1
    <3>3. BytesOf(xfer.id) >= Covered(xfer, up[p + 1].index)
      BY <3>1, <3>2 DEF Durable
    <3>4. QED BY <2>7, <3>1, <3>2, <3>3
  <2>12. ASSUME xfer' # NoXfer
         PROVE  BytesOf(xfer'.id) >= xfer'.index * ChunkUnits
    <3>1. xfer' = x /\ x.index * ChunkUnits < 2 * Len(x.cut)
      BY <2>4, <2>12
    <3>2. BytesOf(xfer.id) >= Covered(xfer, xfer.index)
      BY <1>1, <1>2, <1>5 DEF Durable
    <3>3. Covered(xfer, xfer.index) = x.index * ChunkUnits
      BY <2>1, <3>1 DEF Covered, Smaller
    <3>4. QED BY <2>1, <3>1, <3>2, <3>3
  <2>13. Durable'
    BY <1>1, <2>11, <2>12, RowsDurable
  <2>14. QED BY <2>9, <2>10, <2>13
<1>6. QED BY <1>4, <1>5, AckCases

LEMMA ResendInv ==
  ASSUME LogTyped, Unserved, AsCut, Durable, Resend
  PROVE  Unserved' /\ AsCut' /\ Durable'
<1> DEFINE g == Chunk(xfer)
<1>1. /\ xfer # NoXfer /\ down' = Append(down, g) /\ xfer' = xfer /\ up' = up
      /\ UNCHANGED <<queue, acking, tr, scan>>
  BY DEF Resend, source, worker, tables
<1>2. xfer \in Transfer /\ xfer.id \in Ids /\ xfer.index * ChunkUnits < 2 * Len(xfer.cut) /\ LinkTyped
  BY <1>1, XferType DEF AsCut, LogTyped
<1>3. /\ g \in Frame /\ g.kind = "chunk" /\ g.id = xfer.id
      /\ Reach(g) = Covered(xfer, g.index)
  BY <1>2, ChunkOf
<1> HIDE DEF g
<1>4. Serves(g, 0)
  BY <1>1, <1>3 DEF Serves, Drops
<1>5. Unserved'
  BY <1>4, ServesUnserved
<1>6. AsCut'
  BY <1>1, <1>2, <1>3, <1>4, ServesCut DEF AsCut
<1>7. Durable'
  BY <1>1, RowsDurable DEF Durable, AckedIsDurable, BytesOf
<1>8. QED BY <1>5, <1>6, <1>7
-----------------------------------------------------------------------------
(* The host sends: the request of an identity in no frame, and the ack of a *)
(* chunk whose bytes are durable.                                           *)

LEMMA AppendedAsk ==
  ASSUME LogTyped, NEW a \in Ask, up' = Append(up, a), NEW p \in 1..Len(up')
  PROVE  /\ Len(up) \in Nat
         /\ \/ p \in 1..Len(up) /\ up'[p] = up[p]
            \/ p = Len(up) + 1 /\ up'[p] = a
<1>1. up \in Seq(Ask)
  BY DEF LogTyped, LinkTyped
<1>2. Len(up') = Len(up) + 1 /\ Len(up) \in Nat
  BY <1>1, AppendOf
<1>3. p \in 1..Len(up) \/ p = Len(up) + 1
  BY <1>2
<1>4. p \in 1..Len(up) => up'[p] = up[p]
  BY <1>1, AppendOf
<1>5. p = Len(up) + 1 => up'[p] = a
  BY <1>1, AppendOf
<1>6. QED BY <1>2, <1>3, <1>4, <1>5

LEMMA SendRequestInv ==
  ASSUME LogTyped, Unserved, AsCut, Durable, SendRequest
  PROVE  Unserved' /\ AsCut' /\ Durable'
<1>1. /\ scan.stage = "begun" /\ scan' = [scan EXCEPT !.stage = "waiting"]
      /\ up' = Append(up, NextAsk)
      /\ UNCHANGED <<xfer, down, queue, acking, tr>>
  BY DEF SendRequest, NextAsk, source, tables
<1>2. scan.id \notin InUse /\ scan'.stage = "waiting"
  BY <1>1 DEF Unserved, LogTyped, ScanTyped
<1>3. NextAsk \in Ask /\ NextAsk.kind = "request" /\ NextAsk.id = scan.id
  BY <1>1, NextAskType
<1>4. ASSUME NEW p \in 1..Len(up')
      PROVE  /\ Len(up) \in Nat
             /\ \/ p \in 1..Len(up) /\ up'[p] = up[p]
                \/ p = Len(up) + 1 /\ up'[p] = NextAsk
  BY <1>1, <1>3, AppendedAsk
<1>5. Held' = Held
  BY <1>1 DEF Held
<1>6. \A p \in 1..Len(up) : up[p].id # scan.id
  BY <1>2, InUseIs
<1>7. scan.id \notin {xfer.id, acking.id} \cup {f.id : f \in Held}
  BY <1>2, InUseIs
<1>8. ASSUME NEW p \in 1..Len(up'), up'[p].kind = "request"
      PROVE  /\ up'[p].id \notin {xfer.id, acking.id} \cup {f.id : f \in Held}
             /\ \A q \in 1..Len(up') : up'[q].id = up'[p].id => q = p
  <2>1. CASE p \in 1..Len(up) /\ up'[p] = up[p]
    <3>1. /\ up[p].id \notin {xfer.id, acking.id} \cup {f.id : f \in Held}
          /\ \A q \in 1..Len(up) : up[q].id = up[p].id => q = p
      BY <1>8, <2>1 DEF Unserved
    <3>2. QED BY <1>3, <1>4, <1>6, <2>1, <3>1
  <2>2. CASE p = Len(up) + 1 /\ up'[p] = NextAsk
    BY <1>3, <1>4, <1>6, <1>7, <2>2
  <2>3. QED BY <1>4, <2>1, <2>2
<1>9. Unserved'
  BY <1>1, <1>2, <1>5, <1>8 DEF Unserved
<1>10. AsCut'
  BY <1>1, <1>5 DEF AsCut, Reach, Offset
<1>11. Durable'
  <2>1. \A p \in 1..Len(up') : up'[p].kind = "ack" /\ up'[p].id = xfer.id =>
          BytesOf(xfer.id) >= Covered(xfer, up'[p].index)
    BY <1>3, <1>4 DEF Durable
  <2>2. QED BY <1>1, <2>1, RowsDurable DEF Durable, AckedIsDurable, BytesOf
<1>12. QED BY <1>9, <1>10, <1>11

LEMMA AcceptInv ==
  ASSUME LogTyped, LogTyped', Unserved, AsCut, Durable, Len(queue) > 0,
         Head(queue).kind = "chunk", Accepts(Head(queue))
  PROVE  Unserved' /\ AsCut' /\ Durable'
<1> DEFINE f == Head(queue)
           row == Appended(tr[f.id], f)
<1>1. f \in Frame /\ f \in Held /\ f.kind = "chunk" /\ f.id \in Ids
  BY HeadCallback DEF AsCut
<1>2. tr \in [Ids -> Rows]
  BY DEF LogTyped, TablesTyped, Rows
<1>3. /\ tr' = [tr EXCEPT ![f.id] = row]
      /\ acking' = [id |-> f.id, index |-> f.index, next |-> Reach(f)]
      /\ Stored(tr[f.id], f) \/ Next1(tr[f.id], f)
      /\ UNCHANGED <<xfer, up, down, queue, scan>>
  BY DEF Accepts, source, link
<1>4. /\ Len(row.bytes) >= Len(tr[f.id].bytes) /\ Len(row.bytes) >= Reach(f)
  BY <1>1, <1>2, <1>3, AppendedType
<1>5. Held' = Held
  BY <1>3 DEF Held
<1> HIDE DEF f, row
<1>6. acking'.id = f.id /\ acking'.index = f.index /\ acking'.next = Reach(f)
  BY <1>3
<1>7. f.id \in InUse
  BY <1>1, InUseIs
<1>8. Unserved'
  <2>1. InUse' \subseteq InUse
    <3>1. InUse' = {xfer.id, f.id} \cup {up[i].id : i \in 1..Len(up)} \cup {g.id : g \in Held}
      BY <1>3, <1>5, <1>6 DEF InUse, Held
    <3>2. QED BY <3>1, <1>7, InUseIs
  <2>2. \A p \in 1..Len(up) : up[p].kind = "request" => up[p].id # f.id
    BY <1>1 DEF Unserved
  <2>3. QED BY <1>3, <1>5, <1>6, <2>1, <2>2 DEF Unserved
<1>9. AsCut'
  <2>1. f.id = xfer.id => Reach(f) = Covered(xfer, f.index)
    BY <1>1 DEF AsCut
  <2>2. QED BY <1>1, <1>3, <1>5, <1>6, <2>1 DEF AsCut, Reach, Offset
<1>10. Durable'
  <2>1. ASSUME NEW i \in Ids
        PROVE  BytesOf(i)' >= BytesOf(i)
    <3>1. tr'[i] = IF i = f.id THEN row ELSE tr[i]
      BY <1>2, <1>3
    <3>2. BytesOf(i)' = IF i = f.id THEN Len(row.bytes) ELSE BytesOf(i)
      BY <3>1 DEF BytesOf
    <3>3. QED BY <3>2, <1>4, BytesNat DEF BytesOf
  <2>2. Grows
    BY <1>3, <2>1 DEF Grows
  <2>3. Len(tr'[acking'.id].bytes) >= acking'.next
    BY <1>1, <1>2, <1>3, <1>4, <1>6
  <2>4. QED BY <2>2, <2>3, GrownDurable
<1>11. QED BY <1>8, <1>9, <1>10

LEMMA SendAckInv ==
  ASSUME LogTyped, Unserved, AsCut, Durable, SendAck, MaySend(acking)
  PROVE  Unserved' /\ AsCut' /\ Durable'
<1> DEFINE a == [kind |-> "ack", id |-> acking.id, index |-> acking.index,
                 first |-> 1, last |-> 0]
<1>1. /\ acking # NoAck /\ up' = Append(up, a)
      /\ queue' = Tail(queue) /\ acking' = NoAck
      /\ UNCHANGED <<xfer, down, tr>> /\ scan' = Waiting(scan)
  BY DEF SendAck, Completed, source, tables
<1>2. Len(queue) > 0 /\ acking.id \in Ids /\ acking.index \in Nat
  BY <1>1 DEF AsCut, LogTyped, WorkerTyped
<1>3. a \in Ask /\ a.kind = "ack" /\ a.id = acking.id /\ a.index = acking.index
  BY <1>2 DEF Ask, Seqs, LogAssumption
<1> HIDE DEF a
<1>4. ASSUME NEW p \in 1..Len(up')
      PROVE  /\ Len(up) \in Nat
             /\ \/ p \in 1..Len(up) /\ up'[p] = up[p]
                \/ p = Len(up) + 1 /\ up'[p] = a
  BY <1>1, <1>3, AppendedAsk
<1>5. Held' \subseteq Held
  BY <1>1, <1>2, HeldTaken
<1>6. acking'.id = NoId /\ acking.id \in InUse
  BY <1>1, IdleType, InUseIs
<1>7. Unserved'
  <2>1. InUse' \subseteq InUse \cup {NoId}
    <3>1. InUse' = {xfer'.id, acking'.id} \cup {up'[i].id : i \in 1..Len(up')} \cup {g.id : g \in Held'}
      BY DEF InUse, Held
    <3>2. \A i \in 1..Len(up') : up'[i].id \in InUse
      BY <1>3, <1>4, <1>6, InUseIs
    <3>3. {g.id : g \in Held'} \subseteq InUse
      BY <1>5, InUseIs
    <3>4. xfer'.id \in InUse
      BY <1>1, InUseIs
    <3>5. QED BY <1>6, <3>1, <3>2, <3>3, <3>4
  <2>2. scan'.stage = "begun" => scan'.id \notin InUse'
    <3>1. scan'.stage = scan.stage /\ scan'.id = scan.id
      BY <1>1, WaitingStage
    <3>2. QED BY <2>1, <3>1, NoIdea DEF Unserved, LogTyped, ScanTyped
  <2>3. ASSUME NEW p \in 1..Len(up'), up'[p].kind = "request"
        PROVE  /\ up'[p].id \notin {xfer'.id, acking'.id} \cup {f.id : f \in Held'}
               /\ \A q \in 1..Len(up') : up'[q].id = up'[p].id => q = p
    <3>1. p \in 1..Len(up) /\ up'[p] = up[p]
      BY <1>3, <1>4, <2>3
    <3>2. /\ up[p].id \notin {xfer.id, acking.id} \cup {f.id : f \in Held}
          /\ \A q \in 1..Len(up) : up[q].id = up[p].id => q = p
      BY <2>3, <3>1 DEF Unserved
    <3>3. up[p].id \in Ids
      BY <3>1, AskAt
    <3>4. up'[p].id \notin {xfer'.id, acking'.id} \cup {f.id : f \in Held'}
      BY <1>1, <1>5, <1>6, <3>1, <3>2, <3>3, NoIdea
    <3>5. \A q \in 1..Len(up') : up'[q].id = up'[p].id => q = p
      BY <1>3, <1>4, <3>1, <3>2
    <3>6. QED BY <3>4, <3>5
  <2>4. QED BY <2>2, <2>3 DEF Unserved
<1>8. AsCut'
  <2>1. \A f \in Held' : f.kind = "chunk" =>
          f.id \in Ids /\ (f.id = xfer.id => Reach(f) = Covered(xfer, f.index))
    BY <1>5 DEF AsCut
  <2>2. QED BY <1>1, <1>5, <1>6, <2>1, NoIdea DEF AsCut
<1>9. Durable'
  <2>1. ASSUME NEW p \in 1..Len(up'), up'[p].kind = "ack", up'[p].id = xfer.id
        PROVE  BytesOf(xfer.id) >= Covered(xfer, up'[p].index)
    <3>1. CASE p \in 1..Len(up) /\ up'[p] = up[p]
      BY <2>1, <3>1 DEF Durable
    <3>2. CASE up'[p] = a
      <4>1. acking.id = xfer.id
        BY <1>3, <2>1, <3>2
      <4>2. acking.next = Covered(xfer, acking.index)
        BY <1>2, <4>1 DEF AsCut
      <4>3. BytesOf(xfer.id) >= acking.next
        BY <1>1, <4>1 DEF Durable
      <4>4. QED BY <1>3, <3>2, <4>2, <4>3
    <3>3. QED BY <1>4, <3>1, <3>2
  <2>2. QED BY <1>1, <2>1, RowsDurable DEF Durable, AckedIsDurable, BytesOf
<1>10. QED BY <1>7, <1>8, <1>9

LEMMA TransferStep == TransferInv /\ [Next]_vars => TransferInv'
<1> SUFFICES ASSUME TransferInv, [Next]_vars PROVE TransferInv'
  OBVIOUS
<1>1. LogTyped /\ Unserved /\ AsCut /\ Durable
  BY DEF TransferInv
<1>2. LogTyped'
  BY <1>1, TypedStep
<1>3. CASE Quiet
  BY <1>1, <1>2, <1>3, QuietUnserved, QuietCut, QuietDurable DEF TransferInv
<1>4. CASE ServeRequest \/ ServeAck \/ Resend \/ SendRequest
  BY <1>1, <1>2, <1>4, ServeRequestInv, ServeAckInv, ResendInv, SendRequestInv DEF TransferInv
<1>5. CASE AppendChunk /\ Accepts(Head(queue))
  BY <1>1, <1>2, <1>5, AppendCases, AcceptInv DEF TransferInv
<1>6. CASE SendAck /\ MaySend(acking)
  BY <1>1, <1>2, <1>6, SendAckInv DEF TransferInv
<1>7. QED BY <1>1, <1>3, <1>4, <1>5, <1>6, QuietSteps DEF Sends

LEMMA TransferAlways == Spec => []TransferInv
<1>1. Init => TransferInv
  BY InitTyped
<1>2. QED BY <1>1, TransferStep, PTL DEF Spec

(* The device goes past a chunk only when the host's database holds every   *)
(* byte of the transfer up to there: through resends, duplicate acks,       *)
(* disconnections and crashes of the host, an acknowledged byte is never    *)
(* one the host would have to ask for again (V2SourceLogStore.append_chunk  *)
(* commits before V2Transport sends the ack).                               *)
THEOREM AckedBytesAreDurable == Spec => []AckedIsDurable
<1>1. TransferInv => AckedIsDurable
  BY DEF TransferInv, Durable
<1>2. QED BY <1>1, TransferAlways, PTL

(* However often a record arrives, live, in a backfill or in a rescan, the  *)
(* archive callback accepts it at most once (V2SourceLogStore._archive).    *)
THEOREM ArchivedAtMostOnce == Spec => []ArchivedOnce
<1>1. TransferInv => ArchivedOnce
  <2> SUFFICES ASSUME TransferInv, NEW s \in Seqs PROVE recs[s].archived <= 1
    BY DEF ArchivedOnce
  <2>1. recs[s].archived \in {0, 1}
    BY DEF TransferInv, LogTyped, TablesTyped
  <2>2. QED BY <2>1
<1>2. QED BY <1>1, TransferAlways, PTL
-----------------------------------------------------------------------------
(* The cursor.  Every step but the end of a batch leaves it alone.          *)

Located(s) == recs[s].located
Begins1(first) == first = cursor.scanned + 1 \/ first \in ManualStarts
Still ==
  /\ UNCHANGED <<gaps, cursor>>
  /\ \A s \in Seqs : Located(s) => Located(s)'
  /\ scan'.stage # "none" => \/ scan.stage # "none" /\ scan'.first = scan.first
                             \/ Begins1(scan'.first)

LEMMA StillSteps ==
  ASSUME LogTyped, AsCut, [Next]_vars
  PROVE  Still \/ Finish
<1>1. ASSUME UNCHANGED <<recs, gaps, cursor>>,
             scan'.stage # "none" => scan.stage # "none" /\ scan'.first = scan.first
      PROVE  Still
  BY <1>1 DEF Still, Located
<1>2. ASSUME UNCHANGED <<recs, gaps, cursor>>, scan' \in {scan, Waiting(scan), NoScan}
      PROVE  Still
  BY <1>1, <1>2, WaitingStage, NoScanType
<1>3. CASE Record \/ (\E s \in Seqs : LoseRecord(s)) \/ ServeRequest \/ ServeAck \/ Resend
  BY <1>3, <1>2 DEF Record, LoseRecord, ServeRequest, ServeAck, Resend, tables
<1>4. CASE LinkUp \/ LinkDown \/ GiveUp \/ RestartBackend
  BY <1>4, <1>2 DEF LinkUp, LinkDown, GiveUp, RestartBackend, tables
<1>5. CASE ReadChunk \/ ReadError \/ (\E s \in Seqs : ReadLive(s))
  <2>1. ReadError => scan' \in {scan, NoScan} /\ tables' = tables
    BY DEF ReadError
  <2>2. QED BY <1>5, <1>2, <2>1 DEF ReadChunk, ReadLive, tables
<1>6. CASE ReadResult
  <2>1. tables' = tables
    BY <1>6 DEF ReadResult
  <2>2. scan' = scan \/ \E r : scan' = [scan EXCEPT !.stage = "answered", !.result = r]
    BY <1>6 DEF ReadResult
  <2>3. ASSUME NEW r, scan' = [scan EXCEPT !.stage = "answered", !.result = r], pend.id # NoId
        PROVE  scan'.first = scan.first /\ scan.stage = "waiting"
    BY <2>3 DEF LogTyped, ScanTyped
  <2>4. scan' # scan => pend.id # NoId
    <3>1. Len(down) > 0 /\ Head(down).kind = "result"
      BY <1>6 DEF ReadResult
    <3>2. Head(down).id # NoId
      BY <3>1, HeadFrame, NoIdea DEF AsCut
    <3>3. QED BY <1>6, <3>2 DEF ReadResult
  <2>5. QED BY <1>1, <2>1, <2>2, <2>3, <2>4 DEF tables
<1>7. CASE IngestLive
  <2>1. UNCHANGED <<gaps, cursor>> /\ scan' = Waiting(scan)
    BY <1>7 DEF IngestLive
  <2>2. PICK accepted \in BOOLEAN :
          recs' = [recs EXCEPT ![Head(queue).index] = Ingested(recs[Head(queue).index], FALSE, accepted)]
    BY <1>7 DEF IngestLive
  <2>3. recs \in [Seqs -> Rec]
    BY DEF LogTyped, TablesTyped, Rec
  <2>4. ASSUME NEW s \in Seqs, recs[s].located
        PROVE  recs'[s].located
    BY <2>2, <2>3, <2>4, IngestedType
  <2>5. QED BY <2>1, <2>4, WaitingStage DEF Still, Located
<1>8. CASE AppendChunk \/ SendAck
  <2>1. AppendChunk => UNCHANGED <<recs, gaps, cursor>> /\ scan' \in {scan, Waiting(scan)}
    BY DEF AppendChunk
  <2>2. QED BY <1>8, <1>2, <2>1 DEF SendAck, tables
<1>9. CASE StartScan \/ Rescan \/ (\E first \in ManualStarts : ManualScan(first))
  <2>1. UNCHANGED <<recs, gaps, cursor>>
    BY <1>9 DEF StartScan, Rescan, ManualScan, tables
  <2>2. scan' = scan \/ Begins1(scan'.first)
    BY <1>9, StartTyped, ManualTyped DEF Begins1
  <2>3. QED BY <2>1, <2>2 DEF Still, Located
<1>10. CASE BeginTransfer \/ SendRequest
  <2>1. UNCHANGED <<recs, gaps, cursor>> /\ scan.stage # "none"
    BY <1>10 DEF BeginTransfer, SendRequest, tables
  <2>2. scan'.first = scan.first
    <3>1. CASE BeginTransfer
      <4>1. PICK id \in Ids : scan' = [scan EXCEPT !.stage = "begun", !.id = id]
        BY <3>1 DEF BeginTransfer
      <4>2. QED BY <4>1, ScanType DEF Scans
    <3>2. CASE SendRequest
      <4>1. scan' = [scan EXCEPT !.stage = "waiting"]
        BY <3>2 DEF SendRequest
      <4>2. QED BY <4>1, ScanType DEF Scans
    <3>3. QED BY <1>10, <3>1, <3>2
  <2>3. QED BY <1>1, <2>1, <2>2
<1>11. CASE AbandonScan \/ UNCHANGED vars
  BY <1>11, <1>2 DEF AbandonScan, vars, tables
<1>12. QED
  BY <1>3, <1>4, <1>5, <1>6, <1>7, <1>8, <1>9, <1>10, <1>11 DEF Next, ReadLog, Callback, Scan

(* What a batch that succeeds brings, and what the cursor becomes.          *)
LEMMA BatchEnds ==
  ASSUME LogTyped, LogTyped', Succeeds, scan.stage = "answered"
  PROVE  LET row == tr[scan.id]
             missing == scan.result[2]
         IN  /\ row.first \in Seqs /\ row.last \in row.first..MaxRec
             /\ row.first = scan.first /\ row.last = Stop(scan)
             /\ Found(row) \cup missing = row.first..row.last
             /\ gaps' = gaps \cup missing
             /\ \A s \in Seqs : Located(s) \/ s \in Found(row) => Located(s)'
             /\ cursor'.scanned \in {row.last, cursor.scanned}
             /\ cursor'.scanned >= row.last /\ cursor'.scanned >= cursor.scanned
             /\ Joined(cursor, row, cursor')
             /\ missing # {} => cursor'.from = cursor.from /\ cursor'.through = cursor.through
<1> DEFINE row == tr[scan.id]
           missing == scan.result[2]
<1>1. /\ row \in Rows /\ row.first = scan.first /\ row.last = Stop(scan)
      /\ row.first \in Seqs /\ row.last \in row.first..MaxRec
  BY BatchRow
<1>2. Found(row) \cup missing = row.first..row.last /\ Ingest(row, missing)
  BY DEF Succeeds, Valid
<1>3. \A s \in Seqs : Located(s) \/ s \in Found(row) => Located(s)'
  BY <1>1, <1>2, IngestRecs DEF Located
<1>4. cursor' = Advanced(cursor, row, missing = {}) /\ gaps' = gaps \cup missing
  BY <1>2 DEF Ingest
<1>5. /\ cursor \in Watermarks /\ cursor.from <= cursor.through
      /\ cursor.through <= cursor.scanned /\ (missing = {}) \in BOOLEAN
  BY DEF LogTyped, TablesTyped, Watermarks
<1> HIDE DEF row, missing
<1>6. LET v == Advanced(cursor, row, missing = {})
      IN  /\ v.scanned \in {row.last, cursor.scanned}
          /\ v.scanned >= row.last /\ v.scanned >= cursor.scanned
          /\ Joined(cursor, row, v)
          /\ missing # {} => v.from = cursor.from /\ v.through = cursor.through
  BY <1>1, <1>5, AdvancedType
<1>7. QED BY <1>1, <1>2, <1>3, <1>4, <1>6 DEF row, missing

LEMMA CursorTyped ==
  ASSUME LogTyped
  PROVE  /\ cursor.scanned \in 0..MaxRec /\ cursor.from \in 0..MaxRec
         /\ cursor.through \in 0..MaxRec /\ cursor.through <= cursor.scanned
         /\ MaxRec \in Nat
BY DEF LogTyped, TablesTyped, LogAssumption

(* The verified interval: a whole batch that touches it brings every record *)
(* between its ends.                                                        *)
LEMMA HeldStep ==
  ASSUME LogTyped, AsCut, LogTyped', VerifiedIsHeld, [Next]_vars
  PROVE  VerifiedIsHeld'
<1>1. \A s \in cursor.from..cursor.through : cursor.from # 0 => Located(s) /\ s \in Seqs
  BY CursorTyped DEF VerifiedIsHeld, Located, Seqs
<1>2. CASE Still \/ (Finish /\ Fails)
  <2>1. cursor' = cursor /\ \A s \in Seqs : Located(s) => Located(s)'
    BY <1>2 DEF Still, Fails, Located
  <2>2. QED BY <1>1, <2>1 DEF VerifiedIsHeld, Located
<1>3. CASE Finish /\ Succeeds
  <2> DEFINE row == tr[scan.id]
             missing == scan.result[2]
  <2>1. /\ row.first \in Seqs /\ row.last \in row.first..MaxRec
        /\ Found(row) \cup missing = row.first..row.last
        /\ \A s \in Seqs : Located(s) \/ s \in Found(row) => Located(s)'
        /\ Joined(cursor, row, cursor')
        /\ missing # {} => cursor'.from = cursor.from /\ cursor'.through = cursor.through
    BY <1>3, BatchEnds, FinishCases
  <2> HIDE DEF row, missing
  <2>2. /\ cursor'.from \in 0..MaxRec /\ cursor'.through \in 0..MaxRec /\ MaxRec \in Nat
        /\ cursor.from \in 0..MaxRec /\ cursor.through \in 0..MaxRec
    BY CursorTyped DEF LogTyped, TablesTyped
  <2>3. CASE cursor'.from = cursor.from /\ cursor'.through = cursor.through
    BY <1>1, <2>1, <2>3 DEF VerifiedIsHeld, Located
  <2>4. CASE missing = {}
    <3>1. ASSUME NEW s \in row.first..row.last
          PROVE  Located(s)' /\ s \in Seqs
      BY <2>1, <2>2, <2>4 DEF Seqs
    <3>2. ASSUME cursor'.from # 0, NEW s \in cursor'.from..cursor'.through
          PROVE  \/ s \in row.first..row.last
                 \/ cursor.from # 0 /\ s \in cursor.from..cursor.through
      <4>1. row.first \in 1..MaxRec /\ row.last \in 1..MaxRec
        BY <2>1, <2>2 DEF Seqs
      <4>2. QED BY <2>1, <2>2, <3>2, <4>1 DEF Joined
    <3>3. QED BY <1>1, <2>1, <3>1, <3>2 DEF VerifiedIsHeld, Located
  <2>5. QED BY <2>1, <2>3, <2>4
<1>4. QED BY <1>2, <1>3, StillSteps, FinishCases

(* The watermark: a scan begins no later than the record after it, and the  *)
(* batch that moves it accounts for every record of its interval.           *)
LEMMA AccountedStep ==
  ASSUME ManualStarts \subseteq {1}, LogTyped, AsCut, LogTyped', ScannedIsAccounted,
         NothingSkipped, [Next]_vars
  PROVE  ScannedIsAccounted' /\ NothingSkipped'
<1>1. CASE Still
  <2>1. cursor' = cursor /\ gaps' = gaps /\ \A s \in Seqs : Located(s) => Located(s)'
    BY <1>1 DEF Still
  <2>2. \A s \in 1..cursor.scanned : s \in Seqs
    BY CursorTyped DEF Seqs
  <2>3. ScannedIsAccounted'
    BY <2>1, <2>2 DEF ScannedIsAccounted, Located
  <2>4. ASSUME scan'.stage # "none"
        PROVE  scan'.first <= cursor.scanned + 1
    <3>1. CASE scan.stage # "none" /\ scan'.first = scan.first
      BY <3>1 DEF NothingSkipped
    <3>2. CASE Begins1(scan'.first)
      <4>1. cursor.scanned \in Nat
        BY CursorTyped
      <4>2. scan'.first = cursor.scanned + 1 \/ scan'.first = 1
        BY <3>2 DEF Begins1
      <4>3. QED BY <4>1, <4>2
    <3>3. QED BY <1>1, <2>4, <3>1, <3>2 DEF Still
  <2>5. QED BY <2>1, <2>3, <2>4 DEF NothingSkipped
<1>2. CASE Finish /\ Fails
  <2>1. UNCHANGED <<recs, gaps, cursor>> /\ scan' = NoScan
    BY <1>2 DEF Fails
  <2>2. QED BY <2>1, NoScanType DEF ScannedIsAccounted, NothingSkipped
<1>3. CASE Finish /\ Succeeds
  <2> DEFINE row == tr[scan.id]
             missing == scan.result[2]
  <2>1. /\ row.first \in Seqs /\ row.last \in row.first..MaxRec
        /\ row.first = scan.first /\ row.last = Stop(scan)
        /\ Found(row) \cup missing = row.first..row.last
        /\ gaps' = gaps \cup missing
        /\ \A s \in Seqs : Located(s) \/ s \in Found(row) => Located(s)'
        /\ cursor'.scanned \in {row.last, cursor.scanned}
        /\ cursor'.scanned >= row.last /\ cursor'.scanned >= cursor.scanned
    BY <1>3, BatchEnds, FinishCases
  <2>2. /\ cursor'.scanned \in 0..MaxRec /\ cursor.scanned \in 0..MaxRec /\ MaxRec \in Nat
    BY CursorTyped DEF LogTyped, TablesTyped
  <2>3. scan.stage = "answered" /\ scan.first <= cursor.scanned + 1
    BY <1>3, FinishCases DEF NothingSkipped
  <2> HIDE DEF row, missing
  <2>4. ASSUME NEW s \in 1..cursor'.scanned
        PROVE  recs'[s].located \/ s \in gaps'
    <3>1. s \in Seqs
      BY <2>2 DEF Seqs
    <3>2. s \in 1..cursor.scanned \/ s \in row.first..row.last
      BY <2>1, <2>2, <2>3 DEF Seqs
    <3>3. QED BY <2>1, <3>1, <3>2 DEF ScannedIsAccounted, Located
  <2>5. scan'.stage # "none" => scan'.first = row.last + 1
    <3>1. scan' = NoScan \/ scan' = [scan EXCEPT !.stage = "draining", !.first = Stop(scan) + 1,
                                                 !.barrier = Len(queue), !.id = NoId,
                                                 !.result = <<0, {}>>]
      BY <1>3 DEF Succeeds, NextBatch
    <3>2. scan \in Scans
      BY ScanType
    <3>3. scan'.stage = "none" \/ scan'.first = Stop(scan) + 1
      BY <3>1, <3>2, NoScanType DEF Scans
    <3>4. QED BY <2>1, <3>3
  <2>6. NothingSkipped'
    BY <2>1, <2>2, <2>5 DEF NothingSkipped, Seqs
  <2>7. QED BY <2>4, <2>6 DEF ScannedIsAccounted
<1>4. QED BY <1>1, <1>2, <1>3, StillSteps, FinishCases

(* The verified interval of the cursor holds source records with their log  *)
(* bytes only, wherever batches and rescans began, whatever gaps they found *)
(* and whatever was lost in between (V2SourceLogStore._advance_verified).   *)
THEOREM VerifiedAlwaysHeld == Spec => []VerifiedIsHeld
<1>1. Init => VerifiedIsHeld
  BY InitTyped DEF CursorInv
<1>2. TransferInv /\ TransferInv' /\ VerifiedIsHeld /\ [Next]_vars => VerifiedIsHeld'
  BY HeldStep DEF TransferInv
<1>3. QED BY <1>1, <1>2, TransferAlways, PTL DEF Spec

(* Where maintainers rescan from the first record of the log, the cursor    *)
(* tells the truth: its verified interval is held, and every record up to   *)
(* its watermark is held with its log bytes or declared missing.  (A rescan *)
(* that begins beyond the watermark moves it over records nobody asked for.) *)
THEOREM CursorAlwaysSound ==
  ASSUME ManualStarts \subseteq {1}
  PROVE  Spec => []CursorSound
<1>1. Init => ScannedIsAccounted /\ NothingSkipped
  BY InitTyped DEF CursorInv
<1>2. TransferInv /\ TransferInv' /\ (ScannedIsAccounted /\ NothingSkipped) /\ [Next]_vars
        => (ScannedIsAccounted /\ NothingSkipped)'
  BY AccountedStep DEF TransferInv
<1>3. Spec => []ScannedIsAccounted
  BY <1>1, <1>2, TransferAlways, PTL DEF Spec
<1>4. VerifiedIsHeld /\ ScannedIsAccounted => CursorSound
  BY DEF CursorSound
<1>5. QED BY <1>3, <1>4, VerifiedAlwaysHeld, PTL

(* Every variable keeps its type, in every interleaving of the device, the  *)
(* connection, the callback worker and the scan.                            *)
THEOREM TypeCorrect == Spec => []TypeOK
<1>1. LogTyped => TypeOK
  <2> SUFFICES ASSUME LogTyped PROVE TypeOK
    OBVIOUS
  <2>1. dev.last \in 0..MaxRec /\ dev.flushed \in 0..dev.last
    BY DEF LogTyped, DeviceTyped, LogAssumption
  <2>2. dev.stored \subseteq 1..dev.flushed
    BY <2>1 DEF LogTyped, DeviceTyped, Seqs
  <2>3. xfer.id \in Ids \cup {NoId} /\ pend.id \in Ids \cup {NoId} /\ session \in {0, sessions}
        /\ pend.acked <= pend.received
    BY XferType DEF LogTyped, LinkTyped, Transfer
  <2>4. /\ scan.stage \in {"none", "draining", "begun", "waiting", "answered"}
        /\ scan.stage = "waiting" => pend.id = scan.id \/ session # scan.session
    BY DEF LogTyped, ScanTyped, Stages
  <2>5. /\ \A i \in Ids : tr[i].status \in {"absent", "receiving", "failed", "finished"}
        /\ cursor.from <= cursor.through /\ cursor.through <= cursor.scanned
        /\ gaps \subseteq Seqs
    BY DEF LogTyped, TablesTyped, Statuses
  <2>6. QED BY <2>1, <2>2, <2>3, <2>4, <2>5 DEF TypeOK
<1>2. TransferInv => LogTyped
  BY DEF TransferInv
<1>3. QED BY <1>1, <1>2, TransferAlways, PTL

=============================================================================
