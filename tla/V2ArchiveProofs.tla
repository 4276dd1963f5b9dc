--------------------------- MODULE V2ArchiveProofs ---------------------------
(***************************************************************************)
(* Theorems about RunRecovery, and about AlarmArchive after them: what a   *)
(* complete replay means for the archive, what a person who bound the run  *)
(* had seen, what no later word of the device takes back, and that the     *)
(* archived alarms come to be those of the device.                         *)
(***************************************************************************)
EXTENDS RunRecovery, AlarmArchive, FiniteSetTheorems, WellFoundedInduction, TLAPS

-----------------------------------------------------------------------------
(* The types.                                                              *)

RunStages == {"preparing", "measuring", "safe_disposal", "completed"}
Outcomes  == {"pending", "valid_candidate", "aborted", "invalid"}

(* What a device says of its run: it is never idle while it has one.       *)
LiveRun == [boot : Nat, rev : Nat, mark : 0 .. 2, stage : RunStages, outcome : Outcomes]
Heards  == LiveRun \cup {NoRun}
Kinds   == {"run", "sample", "alarm"}

LogRow  == [kind : Kinds, run : LiveRun]

CaseRow == [rev : Nat, state : {"none", "unreviewed", "bound", "conflict"},
            boots : SUBSET Nat, mark : 0 .. 2, clashes : SUBSET (Nat \X Nat),
            latest : Heards, full : BOOLEAN,
            replay : {"not_bound", "pending", "complete", "failed"}, through : Nat]
TestRow == [bound : BOOLEAN, boot : Nat, rev : Nat,
            phase : {"none", "needs_review"} \cup RunStages,
            outcome : {"none"} \cup Outcomes,
            end : {"none", "completed", "operator_stop", "invalid", "safe_end_incomplete"}]
SourceRow == [record : Nat, archived : BOOLEAN, own : BOOLEAN, linked : BOOLEAN, rows : Nat]

RunShape ==
  /\ run \in LiveRun
  /\ records \in Seq(LogRow)
  /\ got \subseteq DOMAIN records /\ IsFiniteSet(got)
  /\ stored \in Seq(SourceRow)
  /\ case \in CaseRow /\ test \in TestRow
  /\ DOMAIN forms = Reviewers
  /\ worker \in [stage : {"bootstrap", "replay", "failing"}, cursor : Nat]
  /\ runFaults \in 0 .. RunMaxFaults

(* The rows are the ingested records, each once, and no cursor is ahead.   *)
RowsAreGot ==
  /\ got = {stored[i].record : i \in DOMAIN stored}
  /\ Cardinality(got) = Len(stored)
  /\ case.through <= Len(stored) /\ worker.cursor <= Len(stored)

(* What is known of a row whatever its place: it is archived once or not   *)
(* at all, and only an alarm is archived without belonging to the test.    *)
RowSound(row) ==
  /\ row.rows = (IF row.archived THEN 1 ELSE 0)
  /\ ~row.archived => ~row.own
  /\ row.archived /\ records[row.record].kind # "alarm" => row.own
RowsSound == \A i \in DOMAIN stored : RowSound(stored[i])

(* The rows the replay has passed are whole, and while a report may be     *)
(* made so are those ingested since.                                       *)
RowWhole(row) == row.archived /\ (row.own \/ row.linked)
PassedWhole ==
  \A i \in DOMAIN stored : i <= case.through \/ ReportReady => RowWhole(stored[i])

(* A case is bound only together with a test; a test that ended is done;   *)
(* only a replay of a case fails.                                          *)
CaseSound ==
  /\ case = NoCase \/ (case.rev > 0 /\ case.state # "none")
  /\ case.state = "bound" => test.bound
  /\ ~test.bound => test = NoTest
  /\ test.end # "none" => test.phase = "completed"
  /\ worker.stage = "failing" => case.rev > 0

(* A form as old as the case shows its evidence.                           *)
FormsSound ==
  \A p \in Reviewers :
    /\ forms[p].action \in {"none", "binding", "replay"}
    /\ forms[p].action # "none" =>
         /\ forms[p].rev \in 1 .. case.rev
         /\ forms[p].rev = case.rev => forms[p].evidence = {Evidence(case)}

RunInv == RunShape /\ RowsAreGot /\ RowsSound /\ PassedWhole /\ CaseSound /\ FormsSound

-----------------------------------------------------------------------------
(* Counting from a to b, and functions defined along the way.              *)

LEMMA Least == ASSUME NEW T \in SUBSET Nat, T # {} PROVE \E x \in T : \A y \in T : x <= y
<1> DEFINE R == OpToRel(<, Nat)
<1>1. IsWellFoundedOn(R, Nat) BY NatLessThanWellFounded
<1>2. R = {ss \in Nat \X Nat : ss[1] < ss[2]} BY DEF OpToRel
<1> HIDE DEF R
<1>3. PICK x \in T : \A y \in T : ~ (<<y, x>> \in R)
  BY <1>1, WFMin
<1>4. ASSUME NEW y \in T PROVE x <= y
  <2>1. <<y, x>> \notin R BY <1>3
  <2>2. ~ (y < x) BY <2>1, <1>2
  <2>3. QED BY <2>2
<1>5. QED BY <1>4

(* A set that holds a, and with every number below b the next one.         *)
LEMMA Counting ==
  ASSUME NEW a \in Nat, NEW b \in Nat, NEW S, a \in S,
         \A i \in a .. (b - 1) : i \in S => i + 1 \in S
  PROVE  \A i \in a .. b : i \in S
<1> DEFINE T == {i \in a .. b : i \notin S}
<1>1. SUFFICES ASSUME T # {} PROVE FALSE
  OBVIOUS
<1>2. T \in SUBSET Nat
  OBVIOUS
<1>3. PICK x \in T : \A y \in T : x <= y
  BY <1>1, <1>2, Least
<1>4. x \in a .. b /\ x \notin S /\ x # a
  BY <1>3
<1>5. x - 1 \in a .. (b - 1) /\ (x - 1) + 1 = x /\ ~ (x <= x - 1)
  BY <1>4
<1>6. x - 1 \in S
  BY <1>3, <1>5
<1>7. QED
  BY <1>4, <1>5, <1>6

(* The recursive definitions define what they say: the case along the rows *)
(* a bootstrap notes, and the tables along the rows a batch replays.       *)
LEMMA NotedIs ==
  ASSUME worker.cursor \in Nat, Len(stored) \in Nat, worker.cursor <= Len(stored)
  PROVE  NotedCase = [i \in worker.cursor .. Len(stored) |->
                    IF i = worker.cursor THEN case
                    ELSE LET rec == records[stored[i].record]
                         IN Discovered(NotedCase[i - 1], rec.run.boot, Told(rec), FALSE)]
<1> DEFINE a == worker.cursor
           Next1(c, i) == LET rec == records[stored[i].record]
                          IN Discovered(c, rec.run.boot, Told(rec), FALSE)
           Body(f, n) == [i \in a .. n |-> IF i = a THEN case ELSE Next1(f[i - 1], i)]
           S == {n \in Nat : \E f : f = Body(f, n)}
<1>1. a \in Nat
  OBVIOUS
<1> HIDE DEF Next1
<1>2. a \in S
  <2> DEFINE f == [i \in a .. a |-> case]
  <2>1. f = Body(f, a)
    BY <1>1
  <2>2. QED
    BY <1>1, <2>1, Zenon
<1>3. ASSUME NEW n \in a .. (Len(stored) - 1), n \in S PROVE n + 1 \in S
  <2>1. PICK f : f = Body(f, n)
    BY <1>3
  <2> DEFINE g == [i \in a .. (n + 1) |-> IF i = n + 1 THEN Next1(f[n], i) ELSE f[i]]
  <2>2. n \in Nat /\ n >= a
    BY <1>1
  <2>3. ASSUME NEW i \in a .. (n + 1)
        PROVE  g[i] = IF i = a THEN case ELSE Next1(g[i - 1], i)
    <3>1. CASE i = n + 1
      <4>1. i # a /\ i - 1 = n /\ n \in a .. (n + 1) /\ n # n + 1
        BY <3>1, <2>2, <1>1
      <4>2. g[i] = Next1(f[n], i) /\ g[i - 1] = f[n]
        BY <3>1, <4>1
      <4>3. QED
        BY <4>1, <4>2
    <3>2. CASE i # n + 1
      <4>1. i \in a .. n
        BY <3>2, <2>2, <1>1
      <4>2. g[i] = f[i]
        BY <3>2
      <4>3. f[i] = IF i = a THEN case ELSE Next1(f[i - 1], i)
        BY <4>1, <2>1
      <4>4. CASE i = a
        BY <4>2, <4>3, <4>4
      <4>5. CASE i # a
        <5>1. i - 1 \in a .. (n + 1) /\ i - 1 # n + 1
          BY <4>1, <4>5, <2>2, <1>1
        <5>2. g[i - 1] = f[i - 1]
          BY <5>1
        <5>3. QED
          BY <4>2, <4>3, <4>5, <5>2
      <4>6. QED
        BY <4>4, <4>5
    <3>3. QED
      BY <3>1, <3>2
  <2>4. g = Body(g, n + 1)
    <3> HIDE DEF g
    <3>1. g = [i \in a .. (n + 1) |-> g[i]]
      BY DEF g
    <3>2. QED
      BY <3>1, <2>3
  <2>5. \E h : h = Body(h, n + 1)
    <3> HIDE DEF g
    <3>1. QED
      BY <2>4, Zenon
  <2>6. n + 1 \in Nat
    BY <2>2
  <2>7. QED
    BY <2>5, <2>6, Zenon
<1>4. Len(stored) \in S
  <2>1. Len(stored) \in a .. Len(stored)
    BY <1>1
  <2> HIDE DEF S, a
  <2>2. QED
    BY <1>1, <1>2, <1>3, <2>1, Counting
<1>5. \E f : f = Body(f, Len(stored))
  BY <1>4
<1>6. QED
  BY <1>5, Zenon DEF NotedCase, Next1

LEMMA ReplaysIs ==
  ASSUME case.through \in Nat, Len(stored) \in Nat, case.through <= Len(stored)
  PROVE  Replays = [i \in case.through .. Len(stored) |->
                      IF i = case.through THEN Tables ELSE Replayed(Replays[i - 1], i)]
<1> DEFINE a == case.through
           Body(f, n) == [i \in a .. n |-> IF i = a THEN Tables ELSE Replayed(f[i - 1], i)]
           S == {n \in Nat : \E f : f = Body(f, n)}
<1>1. a \in Nat
  OBVIOUS
<1>2. a \in S
  <2> DEFINE f == [i \in a .. a |-> Tables]
  <2>1. f = Body(f, a)
    BY <1>1
  <2>2. QED
    BY <1>1, <2>1, Zenon
<1>3. ASSUME NEW n \in a .. (Len(stored) - 1), n \in S PROVE n + 1 \in S
  <2>1. PICK f : f = Body(f, n)
    BY <1>3
  <2> DEFINE g == [i \in a .. (n + 1) |-> IF i = n + 1 THEN Replayed(f[n], i) ELSE f[i]]
  <2>2. n \in Nat /\ n >= a
    BY <1>1
  <2>3. ASSUME NEW i \in a .. (n + 1)
        PROVE  g[i] = IF i = a THEN Tables ELSE Replayed(g[i - 1], i)
    <3>1. CASE i = n + 1
      <4>1. i # a /\ i - 1 = n /\ n \in a .. (n + 1) /\ n # n + 1
        BY <3>1, <2>2, <1>1
      <4>2. g[i] = Replayed(f[n], i) /\ g[i - 1] = f[n]
        BY <3>1, <4>1
      <4>3. QED
        BY <4>1, <4>2
    <3>2. CASE i # n + 1
      <4>1. i \in a .. n
        BY <3>2, <2>2, <1>1
      <4>2. g[i] = f[i]
        BY <3>2
      <4>3. f[i] = IF i = a THEN Tables ELSE Replayed(f[i - 1], i)
        BY <4>1, <2>1
      <4>4. CASE i = a
        BY <4>2, <4>3, <4>4
      <4>5. CASE i # a
        <5>1. i - 1 \in a .. (n + 1) /\ i - 1 # n + 1
          BY <4>1, <4>5, <2>2, <1>1
        <5>2. g[i - 1] = f[i - 1]
          BY <5>1
        <5>3. QED
          BY <4>2, <4>3, <4>5, <5>2
      <4>6. QED
        BY <4>4, <4>5
    <3>3. QED
      BY <3>1, <3>2
  <2>4. g = Body(g, n + 1)
    <3> HIDE DEF g
    <3>1. g = [i \in a .. (n + 1) |-> g[i]]
      BY DEF g
    <3>2. QED
      BY <3>1, <2>3
  <2>5. \E h : h = Body(h, n + 1)
    <3> HIDE DEF g
    <3>1. QED
      BY <2>4, Zenon
  <2>6. n + 1 \in Nat
    BY <2>2
  <2>7. QED
    BY <2>5, <2>6, Zenon
<1>4. Len(stored) \in S
  <2>1. Len(stored) \in a .. Len(stored)
    BY <1>1
  <2> HIDE DEF S, a
  <2>2. QED
    BY <1>1, <1>2, <1>3, <2>1, Counting
<1>5. \E f : f = Body(f, Len(stored))
  BY <1>4
<1>6. QED
  BY <1>5, Zenon DEF Replays

-----------------------------------------------------------------------------
(* What the evidence makes of the case, and a status of the test.          *)

(* A later case of the same run: the evidence of an unchanged revision is  *)
(* the same evidence, and a conflict is not forgotten.                     *)
Later(c, d) ==
  /\ d.rev >= c.rev /\ (d.rev = c.rev => Evidence(d) = Evidence(c))
  /\ c.state = "conflict" => d.state = "conflict"

LEMMA HeardIs ==
  ASSUME NEW c \in CaseRow, NEW r \in LiveRun, NEW authoritative \in BOOLEAN
  PROVE  /\ Heard(c, r, authoritative) \in CaseRow
         /\ Heard(c, r, authoritative).state \in {c.state, "conflict"}
         /\ Heard(c, r, authoritative).rev = c.rev
         /\ Heard(c, r, authoritative).replay = c.replay
         /\ Heard(c, r, authoritative).through = c.through
<1> DEFINE clash == r.mark # 0 /\ c.mark # 0 /\ r.mark # c.mark
           first == c.latest = NoRun
           newer == first \/ IF c.latest.boot = r.boot THEN r.rev >= c.latest.rev ELSE authoritative
           moved == newer /\ c.latest # r
           m == IF c.mark = 0 THEN r.mark ELSE c.mark
           k == IF clash THEN c.clashes \cup {<<r.mark, r.boot>>} ELSE c.clashes
           s == IF clash THEN "conflict" ELSE c.state
           l == IF moved THEN r ELSE c.latest
           u == IF moved THEN authoritative ELSE c.full \/ (newer /\ authoritative)
<1>1. m \in 0 .. 2
  BY DEF CaseRow, LiveRun
<1>2. k \in SUBSET (Nat \X Nat)
  BY DEF CaseRow, LiveRun
<1>3. s \in {c.state, "conflict"} /\ s \in {"none", "unreviewed", "bound", "conflict"}
  BY DEF CaseRow
<1>4. l \in Heards
  BY DEF CaseRow, Heards
<1>5. u \in BOOLEAN
  <2>1. c.full \in BOOLEAN
    BY DEF CaseRow
  <2>2. QED
    BY <2>1
<1>6. Heard(c, r, authoritative)
        = [c EXCEPT !.mark = m, !.clashes = k, !.state = s, !.latest = l, !.full = u]
  BY Zenon DEF Heard
<1> HIDE DEF m, k, s, l, u
<1>7. QED
  BY <1>1, <1>2, <1>3, <1>4, <1>5, <1>6 DEF CaseRow

LEMMA DiscoveredIs ==
  ASSUME NEW c \in CaseRow, NEW boot \in Nat, NEW r \in Heards, NEW authoritative \in BOOLEAN,
         c = NoCase \/ (c.rev > 0 /\ c.state # "none")
  PROVE  LET d == Discovered(c, boot, r, authoritative)
         IN /\ d \in CaseRow /\ Later(c, d)
            /\ d.rev > 0 /\ d.state # "none"
            /\ d.state = "bound" => c.state = "bound"
            /\ c.state = "bound" => d.state \in {"bound", "conflict"}
            /\ d.replay = c.replay /\ d.through = c.through
<1> DEFINE opened == IF c = NoCase THEN [NoCase EXCEPT !.rev = 1, !.state = "unreviewed"] ELSE c
           noted == [opened EXCEPT !.boots = @ \cup {boot}]
           heard == IF r = NoRun THEN noted ELSE Heard(noted, r, authoritative)
           d == [heard EXCEPT !.rev = IF Evidence(heard) # Evidence(opened) THEN @ + 1 ELSE @]
<1>1. opened \in CaseRow /\ opened.rev > 0 /\ opened.state # "none"
  <2>1. CASE c = NoCase
    <3> DEFINE e == [NoCase EXCEPT !.rev = 1, !.state = "unreviewed"]
    <3>1. NoCase \in CaseRow
      <4>1. c \in CaseRow
        OBVIOUS
      <4>2. QED
        BY <4>1, <2>1
    <3>2. e \in CaseRow /\ e.rev = 1 /\ e.state = "unreviewed"
      <4> HIDE DEF NoCase
      <4>1. QED
        BY <3>1 DEF CaseRow
    <3>3. QED
      BY <2>1, <3>2
  <2>2. CASE c # NoCase
    BY <2>2
  <2>3. QED
    BY <2>1, <2>2
<1>2. /\ opened.state = "bound" <=> c.state = "bound"
      /\ c.state = "conflict" => opened.state = "conflict"
      /\ opened.replay = c.replay /\ opened.through = c.through
      /\ opened.rev >= c.rev /\ (opened.rev = c.rev => opened = c)
  BY DEF CaseRow, NoCase
<1> HIDE DEF opened
<1>3. /\ noted \in CaseRow /\ noted.state = opened.state /\ noted.rev = opened.rev
      /\ noted.replay = opened.replay /\ noted.through = opened.through
  BY <1>1 DEF CaseRow
<1> HIDE DEF noted
<1>4. /\ heard \in CaseRow /\ heard.state \in {noted.state, "conflict"} /\ heard.rev = noted.rev
      /\ heard.replay = noted.replay /\ heard.through = noted.through
  <2>1. CASE r = NoRun
    BY <1>3, <2>1
  <2>2. CASE r # NoRun
    <3>1. r \in LiveRun
      BY <2>2 DEF Heards
    <3>2. QED
      BY <3>1, <2>2, <1>3, HeardIs
  <2>3. QED
    BY <2>1, <2>2
<1> HIDE DEF heard
<1>5. /\ d \in CaseRow /\ d.state = heard.state /\ Evidence(d) = Evidence(heard)
      /\ d.replay = heard.replay /\ d.through = heard.through
      /\ d.rev = IF Evidence(heard) # Evidence(opened) THEN heard.rev + 1 ELSE heard.rev
  BY <1>4 DEF CaseRow, Evidence
<1>6. d = Discovered(c, boot, r, authoritative)
  BY Zenon DEF Discovered, opened, noted, heard
<1> HIDE DEF d
<1>7. d.rev >= opened.rev /\ (d.rev = opened.rev => Evidence(d) = Evidence(opened))
  <2>1. opened.rev \in Nat /\ heard.rev = opened.rev
    BY <1>1, <1>3, <1>4 DEF CaseRow
  <2>2. QED
    BY <2>1, <1>5
<1>8. Later(c, d)
  <2>1. d.rev \in Nat /\ opened.rev \in Nat /\ c.rev \in Nat
    BY <1>1, <1>5 DEF CaseRow
  <2>2. d.rev >= c.rev
    BY <2>1, <1>2, <1>7
  <2>3. ASSUME d.rev = c.rev PROVE Evidence(d) = Evidence(c)
    <3>1. opened.rev = c.rev /\ d.rev = opened.rev
      BY <2>1, <2>3, <1>2, <1>7
    <3>2. QED
      BY <3>1, <1>2, <1>7
  <2>4. c.state = "conflict" => d.state = "conflict"
    BY <1>2, <1>3, <1>4, <1>5
  <2>5. QED
    BY <2>2, <2>3, <2>4 DEF Later
<1>9. d.rev > 0
  BY <1>1, <1>5, <1>7 DEF CaseRow
<1>10. /\ d.state # "none"
       /\ d.state = "bound" => c.state = "bound"
       /\ c.state = "bound" => d.state \in {"bound", "conflict"}
       /\ d.replay = c.replay /\ d.through = c.through
  BY <1>1, <1>2, <1>3, <1>4, <1>5
<1>11. QED
  BY <1>5, <1>6, <1>8, <1>9, <1>10

LEMMA LaterTwice ==
  ASSUME NEW c \in CaseRow, NEW d \in CaseRow, NEW e \in CaseRow, Later(c, d), Later(d, e)
  PROVE  Later(c, e)
<1>1. c.rev \in Nat /\ d.rev \in Nat /\ e.rev \in Nat
  BY DEF CaseRow
<1>2. e.rev >= c.rev
  BY <1>1 DEF Later
<1>3. ASSUME e.rev = c.rev PROVE Evidence(e) = Evidence(c)
  <2>1. d.rev = c.rev /\ e.rev = d.rev
    BY <1>1, <1>3 DEF Later
  <2>2. QED
    BY <2>1 DEF Later
<1>4. QED
  BY <1>2, <1>3 DEF Later

(* No later status of the run takes back that its test ended, or that the  *)
(* run is invalid.                                                         *)
EndKept(t, u) ==
  /\ t.end # "none" => u.end # "none" /\ u.phase = "completed"
  /\ t.outcome = "invalid" => u.outcome = "invalid"
TestSound(t) == t.end # "none" => t.phase = "completed"

LEMMA ReasonIs ==
  ASSUME NEW outcome
  PROVE  Reason(outcome) \in {"completed", "operator_stop", "invalid", "safe_end_incomplete"}
BY DEF Reason

LEMMA ProjectedIs ==
  ASSUME NEW t \in TestRow, NEW r \in LiveRun, NEW authoritative \in BOOLEAN, TestSound(t)
  PROVE  LET u == Projected(t, r, authoritative)
         IN u \in TestRow /\ u.bound = t.bound /\ TestSound(u) /\ EndKept(t, u)
<1> DEFINE taken == Accepts(t, r, authoritative)
           shown == IF taken THEN [t EXCEPT !.boot = r.boot, !.rev = r.rev,
                                            !.phase = r.stage, !.outcome = r.outcome]
                             ELSE t
           told == IF "invalid" \in {t.outcome, r.outcome}
                   THEN [shown EXCEPT !.outcome = "invalid"] ELSE shown
           why == Reason(IF told.outcome = "none" THEN r.outcome ELSE told.outcome)
           ended == Safe(r) /\ (taken \/ t.end = "none")
           u == IF ended THEN [told EXCEPT !.phase = "completed", !.end = why] ELSE told
<1>1. taken \in BOOLEAN /\ (taken /\ t.end # "none" => Safe(r))
  BY DEF Accepts
<1> HIDE DEF taken
<1>2. /\ shown \in TestRow /\ shown.bound = t.bound /\ shown.end = t.end
      /\ ~taken => shown = t
  BY <1>1 DEF TestRow, LiveRun
<1> HIDE DEF shown
<1>3. /\ told \in TestRow /\ told.bound = t.bound /\ told.end = t.end
      /\ told.phase = shown.phase
      /\ t.outcome = "invalid" => told.outcome = "invalid"
  <2>1. CASE "invalid" \in {t.outcome, r.outcome}
    <3>1. told = [shown EXCEPT !.outcome = "invalid"]
      BY <2>1
    <3>2. QED
      BY <3>1, <1>2 DEF TestRow, Outcomes
  <2>2. CASE ~ ("invalid" \in {t.outcome, r.outcome})
    <3>1. told = shown /\ t.outcome # "invalid"
      BY <2>2
    <3>2. QED
      BY <3>1, <1>2
  <2>3. QED
    BY <2>1, <2>2
<1> HIDE DEF told
<1>4. why \in {"completed", "operator_stop", "invalid", "safe_end_incomplete"}
  BY ReasonIs
<1>8. u = Projected(t, r, authoritative)
  BY Zenon DEF Projected, taken, shown, told, why
<1> HIDE DEF why
<1>5. CASE ended
  <2>1. u = [told EXCEPT !.phase = "completed", !.end = why]
    BY <1>5
  <2>2. u \in TestRow /\ u.bound = t.bound /\ u.end # "none" /\ u.phase = "completed"
    BY <2>1, <1>3, <1>4 DEF TestRow, RunStages
  <2>3. u.outcome = told.outcome
    BY <2>1, <1>3 DEF TestRow
  <2> HIDE DEF u
  <2>4. QED
    BY <2>2, <2>3, <1>3, <1>8 DEF TestSound, EndKept
<1>6. CASE ~ended
  <2>1. u = told
    BY <1>6
  <2>2. t.end # "none" => ~taken
    BY <1>1, <1>6
  <2>3. t.end # "none" => u.phase = "completed"
    BY <2>1, <2>2, <1>2, <1>3 DEF TestSound
  <2> HIDE DEF u
  <2>4. QED
    BY <2>1, <2>3, <1>3, <1>8 DEF TestSound, EndKept
<1> HIDE DEF u
<1>7. QED
  BY <1>5, <1>6, <1>8

-----------------------------------------------------------------------------
(* One record, archived or deferred.                                       *)

(* The tables of a transaction on rows whose records the host has.         *)
TablesOK(x, n) ==
  /\ x = [rows |-> x.rows, case |-> x.case, test |-> x.test]
  /\ x.rows \in Seq(SourceRow) /\ Len(x.rows) = n
  /\ \A j \in 1 .. n : x.rows[j].record \in DOMAIN records /\ RowSound(x.rows[j])
  /\ x.case \in CaseRow /\ (x.case = NoCase \/ (x.case.rev > 0 /\ x.case.state # "none"))
  /\ x.test \in TestRow /\ TestSound(x.test)
  /\ x.case.state = "bound" => x.test.bound
  /\ ~x.test.bound => x.test = NoTest

(* What a record makes of the tables when row i is not archived yet.       *)
LEMMA OnRecordIs ==
  ASSUME NEW x, NEW n \in Nat, NEW i \in 1 .. n, TablesOK(x, n), ~x.rows[i].archived,
         records \in Seq(LogRow)
  PROVE  LET y == OnRecord(x, i)
         IN /\ TablesOK(y, n)
            /\ \A j \in 1 .. n : y.rows[j].record = x.rows[j].record
            /\ \A j \in 1 .. n : j # i => y.rows[j] = x.rows[j]
            /\ Later(x.case, y.case) /\ y.case # NoCase
            /\ y.case.state = "bound" => x.case.state = "bound"
            /\ x.case.state = "bound" => y.case.state \in {"bound", "conflict"}
            /\ y.case.replay = x.case.replay /\ y.case.through = x.case.through
            /\ y.test.bound = x.test.bound /\ EndKept(x.test, y.test)
            /\ x.test.bound /\ y.case.state # "conflict" => RowWhole(y.rows[i])
<1> DEFINE rec == records[x.rows[i].record]
           c == Discovered(x.case, rec.run.boot, Told(rec), FALSE)
           defer == (~x.test.bound \/ c.state = "conflict") /\ rec.kind # "alarm"
           row == [x.rows[i] EXCEPT !.archived = TRUE, !.rows = @ + 1, !.own = x.test.bound]
           t == IF rec.kind = "run" THEN Projected(x.test, rec.run, FALSE) ELSE x.test
           y == OnRecord(x, i)
<1>1. rec \in LogRow /\ rec.run \in LiveRun /\ rec.run.boot \in Nat /\ Told(rec) \in Heards
  <2>1. x.rows[i].record \in DOMAIN records
    BY DEF TablesOK
  <2>2. rec \in LogRow
    BY <2>1
  <2>3. rec.run \in LiveRun
    BY <2>2 DEF LogRow
  <2>4. Told(rec) \in Heards
    BY <2>3 DEF Told, Heards
  <2>5. rec.run.boot \in Nat
    BY <2>3 DEF LiveRun
  <2>6. QED
    BY <2>2, <2>3, <2>4, <2>5
<1>2. x.rows[i] \in SourceRow /\ RowSound(x.rows[i]) /\ x.rows[i].rows = 0
  BY DEF TablesOK, RowSound
<1>3. /\ c \in CaseRow /\ Later(x.case, c)
      /\ c.rev > 0 /\ c.state # "none"
      /\ c.state = "bound" => x.case.state = "bound"
      /\ x.case.state = "bound" => c.state \in {"bound", "conflict"}
      /\ c.replay = x.case.replay /\ c.through = x.case.through
  BY <1>1, DiscoveredIs DEF TablesOK
<1>4. c # NoCase
  <2>1. NoCase.rev = 0
    BY DEF NoCase
  <2> HIDE DEF c
  <2>2. QED
    BY <1>3, <2>1
<1>5. /\ t \in TestRow /\ t.bound = x.test.bound /\ TestSound(t) /\ EndKept(x.test, t)
  <2>1. CASE rec.kind = "run"
    BY <2>1, <1>1, ProjectedIs DEF TablesOK
  <2>2. CASE rec.kind # "run"
    BY <2>2 DEF TablesOK, EndKept, TestSound
  <2>3. QED
    BY <2>1, <2>2
<1>6. y = IF defer THEN [rows |-> x.rows, case |-> c, test |-> x.test]
          ELSE [rows |-> [x.rows EXCEPT ![i] = row], case |-> c, test |-> t]
  <2>1. y = IF defer THEN [x EXCEPT !.case = c]
            ELSE [rows |-> [x.rows EXCEPT ![i] = row], case |-> c, test |-> t]
    BY Zenon DEF OnRecord
  <2> HIDE DEF c, y, t, row, defer
  <2>2. x = [rows |-> x.rows, case |-> x.case, test |-> x.test]
    BY DEF TablesOK
  <2>3. [x EXCEPT !.case = c] = [rows |-> x.rows, case |-> c, test |-> x.test]
    BY <2>2
  <2>4. QED
    BY <2>1, <2>3
<1> HIDE DEF c, t, y
<1>7. CASE defer
  <2>1. y = [rows |-> x.rows, case |-> c, test |-> x.test]
    BY <1>6, <1>7
  <2>2. y.rows = x.rows /\ y.case = c /\ y.test = x.test
    BY <2>1
  <2>3. TablesOK(y, n)
    BY <2>1, <2>2, <1>3, <1>4 DEF TablesOK
  <2>4. EndKept(x.test, y.test)
    BY <2>2 DEF EndKept, TablesOK, TestSound
  <2>5. QED
    BY <1>7, <2>2, <2>3, <2>4, <1>3, <1>4 DEF y
<1>8. CASE ~defer
  <2>1. y = [rows |-> [x.rows EXCEPT ![i] = row], case |-> c, test |-> t]
    BY <1>6, <1>8
  <2>2. y.rows = [x.rows EXCEPT ![i] = row] /\ y.case = c /\ y.test = t
    BY <2>1
  <2>3. /\ row \in SourceRow /\ row.record = x.rows[i].record
        /\ row.archived /\ row.rows = 1 /\ row.own = x.test.bound
    <3>1. x.test.bound \in BOOLEAN
      BY DEF TablesOK, TestRow
    <3>2. x.rows[i] \in SourceRow /\ x.rows[i].rows + 1 = 1
      BY <1>2
    <3> DEFINE old == x.rows[i]
               own == x.test.bound
    <3>3. row = [old EXCEPT !.archived = TRUE, !.rows = old.rows + 1, !.own = own]
      OBVIOUS
    <3>4. old \in SourceRow /\ own \in BOOLEAN /\ old.rows + 1 = 1
      BY <3>1, <3>2
    <3> HIDE DEF old, own, row
    <3>5. row \in SourceRow
      <4>1. /\ old = [record |-> old.record, archived |-> old.archived, own |-> old.own,
                      linked |-> old.linked, rows |-> old.rows]
            /\ old.record \in Nat /\ old.linked \in BOOLEAN
        BY <3>4 DEF SourceRow
      <4>2. row = [record |-> old.record, archived |-> TRUE, own |-> own,
                   linked |-> old.linked, rows |-> 1]
        BY <3>3, <3>4, <4>1
      <4>3. 1 \in Nat /\ TRUE \in BOOLEAN
        OBVIOUS
      <4>4. QED
        BY <3>4, <4>1, <4>2, <4>3, Zenon DEF SourceRow
    <3>6. row.record = old.record /\ row.archived /\ row.rows = 1
      BY <3>3, <3>4 DEF SourceRow
    <3>7. row.own = own
      BY <3>3, <3>4 DEF SourceRow
    <3>8. QED
      BY <3>5, <3>6, <3>7 DEF old, own
  <2> HIDE DEF row
  <2>4. RowSound(row)
    <3>1. rec.kind # "alarm" => x.test.bound
      BY <1>8
    <3>2. QED
      BY <2>3, <3>1 DEF RowSound
  <2>5. y.rows \in Seq(SourceRow) /\ Len(y.rows) = n
    BY <2>2, <2>3 DEF TablesOK
  <2>6. y.rows[i] = row /\ \A j \in 1 .. n : j # i => y.rows[j] = x.rows[j]
    BY <2>2 DEF TablesOK
  <2>7. \A j \in 1 .. n : y.rows[j].record = x.rows[j].record
    BY <2>6, <2>3
  <2>8. \A j \in 1 .. n : y.rows[j].record \in DOMAIN records /\ RowSound(y.rows[j])
    BY <2>4, <2>6, <2>7 DEF TablesOK
  <2>9. ~y.test.bound => y.test = NoTest
    <3>1. CASE rec.kind = "run"
      BY <3>1, <1>8, <2>2, <1>5
    <3>2. CASE rec.kind # "run"
      BY <3>2, <2>2 DEF t, TablesOK
    <3>3. QED
      BY <3>1, <3>2
  <2>10. TablesOK(y, n)
    BY <2>1, <2>2, <2>5, <2>8, <2>9, <1>3, <1>4, <1>5 DEF TablesOK
  <2>11. x.test.bound => RowWhole(y.rows[i])
    BY <2>3, <2>6 DEF RowWhole
  <2>12. QED
    BY <2>2, <2>6, <2>7, <2>10, <2>11, <1>3, <1>4, <1>5 DEF y
<1>9. QED
  BY <1>7, <1>8

-----------------------------------------------------------------------------
(* A batch of the replay, and one of the bootstrap.                        *)

(* The tables when a replay that began at replay_through_id has passed i.  *)
Replaying(x, n, i) ==
  /\ TablesOK(x, n) /\ x.test.bound /\ x.case.state \in {"bound", "conflict"}
  /\ x.case.through <= i /\ (x.case.state # "conflict" => x.case.through = i)
  /\ \A j \in 1 .. n : x.rows[j].record = stored[j].record
  /\ \A j \in 1 .. n : j <= x.case.through => RowWhole(x.rows[j])
  /\ Later(case, x.case) /\ EndKept(test, x.test)

LEMMA ReplayedIs ==
  ASSUME NEW x, NEW n \in Nat, NEW i \in 1 .. n, Replaying(x, n, i - 1),
         records \in Seq(LogRow), case \in CaseRow
  PROVE  Replaying(Replayed(x, i), n, i)
<1> DEFINE rec == records[x.rows[i].record]
           done1 == IF ~x.rows[i].archived THEN OnRecord(x, i)
                    ELSE IF rec.kind = "alarm" THEN [x EXCEPT !.rows[i].linked = TRUE]
                    ELSE x
           y == Replayed(x, i)
<1>1. x.case \in CaseRow /\ x.case.through \in Nat
  BY DEF Replaying, TablesOK, CaseRow
<1>2. CASE x.case.state = "conflict"
  <2>1. y = x
    BY <1>2 DEF Replayed
  <2>2. x.case.through <= i
    BY <1>1 DEF Replaying
  <2>3. QED
    BY <1>2, <2>1, <2>2 DEF Replaying
<1>3. CASE x.case.state # "conflict"
  <2>1. x.case.state = "bound" /\ x.case.through = i - 1
    BY <1>3 DEF Replaying
  <2>2. /\ TablesOK(done1, n) /\ done1.test.bound /\ done1.case.state \in {"bound", "conflict"}
        /\ done1.case.through = i - 1
        /\ \A j \in 1 .. n : done1.rows[j].record = stored[j].record
        /\ \A j \in 1 .. n : j < i => RowWhole(done1.rows[j])
        /\ Later(case, done1.case) /\ EndKept(test, done1.test)
        /\ done1.case.state # "conflict" => RowWhole(done1.rows[i])
    <3>1. CASE ~x.rows[i].archived
      <4> DEFINE z == OnRecord(x, i)
      <4>1. /\ TablesOK(z, n)
            /\ \A j \in 1 .. n : z.rows[j].record = x.rows[j].record
            /\ \A j \in 1 .. n : j # i => z.rows[j] = x.rows[j]
            /\ Later(x.case, z.case) /\ z.case.state \in {"bound", "conflict"}
            /\ z.case.through = x.case.through
            /\ z.test.bound = x.test.bound /\ EndKept(x.test, z.test)
            /\ x.test.bound /\ z.case.state # "conflict" => RowWhole(z.rows[i])
        <5>1. TablesOK(x, n)
          BY DEF Replaying
        <5>2. /\ TablesOK(z, n)
              /\ \A j \in 1 .. n : z.rows[j].record = x.rows[j].record
              /\ \A j \in 1 .. n : j # i => z.rows[j] = x.rows[j]
              /\ Later(x.case, z.case)
              /\ x.case.state = "bound" => z.case.state \in {"bound", "conflict"}
              /\ z.case.through = x.case.through
              /\ z.test.bound = x.test.bound /\ EndKept(x.test, z.test)
              /\ x.test.bound /\ z.case.state # "conflict" => RowWhole(z.rows[i])
          BY <3>1, <5>1, OnRecordIs
        <5>3. QED
          BY <2>1, <5>2
      <4>2. done1 = z
        BY <3>1
      <4> HIDE DEF z, done1
      <4>3. Later(case, z.case)
        BY <4>1, <1>1, LaterTwice DEF Replaying, TablesOK
      <4>4. EndKept(test, z.test)
        BY <4>1 DEF Replaying, EndKept
      <4>5. \A j \in 1 .. n : j < i => RowWhole(z.rows[j])
        BY <4>1, <2>1 DEF Replaying
      <4>6. \A j \in 1 .. n : z.rows[j].record = stored[j].record
        BY <4>1 DEF Replaying
      <4>7. z.test.bound /\ (z.case.state # "conflict" => RowWhole(z.rows[i]))
        BY <4>1 DEF Replaying
      <4>8. QED
        BY <4>1, <4>2, <4>3, <4>4, <4>5, <4>6, <4>7, <2>1
    <3>2. CASE x.rows[i].archived /\ rec.kind = "alarm"
      <4> DEFINE row == [x.rows[i] EXCEPT !.linked = TRUE]
      <4>1. done1 = [x EXCEPT !.rows[i].linked = TRUE]
        BY <3>2
      <4>2. x = [rows |-> x.rows, case |-> x.case, test |-> x.test]
        BY DEF Replaying, TablesOK
      <4>3. x.rows \in Seq(SourceRow) /\ i \in DOMAIN x.rows /\ Len(x.rows) = n
        BY DEF Replaying, TablesOK
      <4>4. x.rows[i] \in SourceRow
        BY <4>3
      <4>5. /\ row \in SourceRow /\ row.linked
            /\ row.record = x.rows[i].record /\ row.archived = x.rows[i].archived
            /\ row.own = x.rows[i].own /\ row.rows = x.rows[i].rows
        BY <4>4 DEF SourceRow
      <4> HIDE DEF row, done1
      <4>6. done1 = [rows |-> [x.rows EXCEPT ![i] = row], case |-> x.case, test |-> x.test]
        BY <4>1, <4>2 DEF row
      <4>7. /\ done1.rows = [x.rows EXCEPT ![i] = row] /\ done1.case = x.case
            /\ done1.test = x.test
        BY <4>6
      <4>8. done1.rows \in Seq(SourceRow) /\ Len(done1.rows) = n
        BY <4>3, <4>5, <4>7
      <4>9. done1.rows[i] = row /\ \A j \in 1 .. n : j # i => done1.rows[j] = x.rows[j]
        BY <4>3, <4>7
      <4>10. \A j \in 1 .. n : done1.rows[j].record = x.rows[j].record
        BY <4>5, <4>9
      <4>11. RowSound(row) /\ RowWhole(row)
        BY <4>5, <3>2 DEF Replaying, TablesOK, RowSound, RowWhole
      <4>12. \A j \in 1 .. n : done1.rows[j].record \in DOMAIN records /\ RowSound(done1.rows[j])
        BY <4>9, <4>10, <4>11 DEF Replaying, TablesOK
      <4>13. TablesOK(done1, n)
        BY <4>6, <4>7, <4>8, <4>12 DEF Replaying, TablesOK
      <4>14. \A j \in 1 .. n : j < i => RowWhole(done1.rows[j])
        BY <4>9, <2>1 DEF Replaying
      <4>15. QED
        BY <4>7, <4>9, <4>10, <4>11, <4>13, <4>14, <2>1 DEF Replaying
    <3>3. CASE x.rows[i].archived /\ rec.kind # "alarm"
      <4>1. done1 = x
        BY <3>3
      <4>2. RowWhole(x.rows[i])
        BY <3>3 DEF Replaying, TablesOK, RowSound, RowWhole
      <4>3. \A j \in 1 .. n : j < i => RowWhole(x.rows[j])
        BY <2>1 DEF Replaying
      <4> HIDE DEF done1
      <4>4. QED
        BY <4>1, <4>2, <4>3, <2>1 DEF Replaying
    <3>4. QED
      BY <3>1, <3>2, <3>3
  <2>3. y = IF done1.case.state = "conflict" THEN done1 ELSE [done1 EXCEPT !.case.through = i]
    BY <1>3 DEF Replayed
  <2> HIDE DEF done1, y
  <2>4. CASE done1.case.state = "conflict"
    <3>1. i - 1 <= i /\ \A j \in 1 .. n : j <= i - 1 => j < i
      OBVIOUS
    <3>2. QED
      BY <2>2, <2>3, <2>4, <3>1 DEF Replaying, y
  <2>5. CASE done1.case.state # "conflict"
    <3> DEFINE c == [done1.case EXCEPT !.through = i]
    <3>1. done1 = [rows |-> done1.rows, case |-> done1.case, test |-> done1.test]
      BY <2>2 DEF TablesOK
    <3>2. y = [rows |-> done1.rows, case |-> c, test |-> done1.test]
      BY <2>3, <2>5, <3>1
    <3>3. /\ c \in CaseRow /\ c.through = i /\ c.rev = done1.case.rev
          /\ c.state = done1.case.state /\ Evidence(c) = Evidence(done1.case)
      <4>1. done1.case \in CaseRow /\ i \in Nat
        BY <2>2 DEF TablesOK
      <4>2. \A old \in CaseRow : [old EXCEPT !.through = i] \in CaseRow
        BY <4>1 DEF CaseRow
      <4>3. /\ c.through = i /\ c.rev = done1.case.rev /\ c.state = done1.case.state
            /\ c.boots = done1.case.boots /\ c.mark = done1.case.mark
            /\ c.clashes = done1.case.clashes /\ c.latest = done1.case.latest
            /\ c.full = done1.case.full
        BY <4>1 DEF CaseRow
      <4>4. QED
        BY <4>1, <4>2, <4>3 DEF Evidence
    <3> HIDE DEF c
    <3>4. y.rows = done1.rows /\ y.case = c /\ y.test = done1.test
      BY <3>2
    <3>5. c = NoCase \/ (c.rev > 0 /\ c.state # "none")
      <4>1. done1.case.rev > 0 /\ done1.case.state # "none"
        BY <2>2 DEF TablesOK, NoCase
      <4>2. QED
        BY <4>1, <3>3
    <3>6. TablesOK(y, n)
      BY <2>2, <3>2, <3>3, <3>4, <3>5 DEF TablesOK
    <3>7. Later(case, c)
      BY <2>2, <3>3 DEF Later
    <3>8. \A j \in 1 .. n : j <= i => RowWhole(y.rows[j])
      BY <2>2, <2>5, <3>4
    <3>9. QED
      BY <2>2, <3>3, <3>4, <3>6, <3>7, <3>8 DEF Replaying, y
  <2>6. QED
    BY <2>4, <2>5
<1>4. QED
  BY <1>2, <1>3

LEMMA EndKeptSelf == ASSUME NEW t, TestSound(t) PROVE EndKept(t, t)
BY DEF EndKept, TestSound

LEMMA ReplaysAre ==
  ASSUME RunInv, test.bound, case.state = "bound", NEW i \in case.through .. Len(stored)
  PROVE  Replaying(Replays[i], Len(stored), i)
<1> DEFINE n == Len(stored)
           S == {j \in case.through .. n : Replaying(Replays[j], n, j)}
<1>1. n \in Nat /\ case.through \in Nat /\ case.through <= n
  BY DEF RunInv, RunShape, RowsAreGot, CaseRow
<1>2. Replays = [j \in case.through .. n |->
                   IF j = case.through THEN Tables ELSE Replayed(Replays[j - 1], j)]
  BY <1>1, ReplaysIs
<1>3. case.through \in S
  <2>1. Replays[case.through] = Tables
    BY <1>1, <1>2
  <2>2. \A j \in 1 .. n : stored[j].record \in DOMAIN records /\ RowSound(stored[j])
    <3>1. DOMAIN stored = 1 .. n
      BY DEF RunInv, RunShape
    <3>2. QED
      BY <3>1 DEF RunInv, RunShape, RowsAreGot, RowsSound
  <2>3. TablesOK(Tables, n)
    BY <2>2 DEF TablesOK, Tables, RunInv, RunShape, CaseSound, TestSound
  <2>4. \A j \in 1 .. n : j <= case.through => RowWhole(stored[j])
    BY DEF RunInv, RunShape, PassedWhole
  <2>5. Later(case, case) /\ EndKept(test, test)
    <3>1. case.rev >= case.rev
      BY DEF RunInv, RunShape, CaseRow
    <3>2. QED
      BY <3>1, EndKeptSelf DEF Later, RunInv, CaseSound, TestSound
  <2>6. Replaying(Tables, n, case.through)
    <3>1. Tables.rows = stored /\ Tables.case = case /\ Tables.test = test
      BY DEF Tables
    <3>2. QED
      BY <1>1, <2>3, <2>4, <2>5, <3>1 DEF Replaying
  <2>7. QED
    BY <1>1, <2>1, <2>6
<1>4. ASSUME NEW j \in case.through .. (n - 1), j \in S PROVE j + 1 \in S
  <2>1. j + 1 \in case.through .. n /\ j + 1 # case.through /\ (j + 1) - 1 = j /\ j + 1 \in 1 .. n
    BY <1>1
  <2>2. Replays[j + 1] = Replayed(Replays[j], j + 1)
    BY <1>2, <2>1
  <2>3. Replaying(Replays[j], n, (j + 1) - 1)
    BY <1>4, <2>1
  <2>4. Replaying(Replayed(Replays[j], j + 1), n, j + 1)
    BY <1>1, <2>1, <2>3, ReplayedIs DEF RunInv, RunShape
  <2>5. QED
    BY <2>1, <2>2, <2>4
<1>5. QED
  <2> HIDE DEF S, n
  <2>1. i \in case.through .. n
    BY DEF n
  <2>2. i \in S
    BY <1>1, <1>3, <1>4, <2>1, Counting
  <2>3. QED
    BY <2>2 DEF S, n

(* The case when a bootstrap has noted some of the rows.                   *)
NotedSound(c) ==
  /\ c \in CaseRow /\ (c = NoCase \/ (c.rev > 0 /\ c.state # "none"))
  /\ Later(case, c) /\ (c.state = "bound" => case.state = "bound")
  /\ c.replay = case.replay /\ c.through = case.through

LEMMA NotedAre ==
  ASSUME RunInv, NEW i \in worker.cursor .. Len(stored)
  PROVE  NotedSound(NotedCase[i])
<1> DEFINE n == Len(stored)
           a == worker.cursor
           S == {j \in a .. n : NotedSound(NotedCase[j])}
<1>1. n \in Nat /\ a \in Nat /\ a <= n
  BY DEF RunInv, RunShape, RowsAreGot
<1>2. NotedCase = [j \in a .. n |->
                 IF j = a THEN case
                 ELSE LET rec == records[stored[j].record]
                      IN Discovered(NotedCase[j - 1], rec.run.boot, Told(rec), FALSE)]
  BY <1>1, NotedIs
<1>3. a \in S
  <2>1. NotedCase[a] = case
    BY <1>1, <1>2
  <2>2. case.rev >= case.rev
    BY DEF RunInv, RunShape, CaseRow
  <2>3. NotedSound(case)
    BY <2>2 DEF NotedSound, Later, RunInv, RunShape, CaseSound
  <2>4. QED
    BY <1>1, <2>1, <2>3
<1>4. ASSUME NEW j \in a .. (n - 1), j \in S PROVE j + 1 \in S
  <2> DEFINE rec == records[stored[j + 1].record]
             c == NotedCase[j]
             d == Discovered(c, rec.run.boot, Told(rec), FALSE)
  <2>1. j + 1 \in a .. n /\ j + 1 # a /\ (j + 1) - 1 = j /\ j + 1 \in 1 .. n
    BY <1>1
  <2>2. NotedCase[j + 1] = d
    BY <1>2, <2>1
  <2>3. rec \in LogRow
    <3>1. stored[j + 1].record \in DOMAIN records
      BY <2>1 DEF RunInv, RunShape, RowsAreGot
    <3>2. QED
      BY <3>1 DEF RunInv, RunShape
  <2>4. rec.run \in LiveRun
    BY <2>3 DEF LogRow
  <2>5. Told(rec) \in Heards /\ rec.run.boot \in Nat
    BY <2>4 DEF Told, Heards, LiveRun
  <2>6. NotedSound(c)
    BY <1>4
  <2> HIDE DEF rec, c
  <2>7. /\ d \in CaseRow /\ Later(c, d)
        /\ d.rev > 0 /\ d.state # "none" /\ (d.state = "bound" => c.state = "bound")
        /\ d.replay = c.replay /\ d.through = c.through
    BY <2>5, <2>6, DiscoveredIs DEF NotedSound
  <2> HIDE DEF d
  <2>8. Later(case, d)
    BY <2>6, <2>7, LaterTwice DEF NotedSound, RunInv, RunShape
  <2>9. NotedSound(d)
    BY <2>6, <2>7, <2>8 DEF NotedSound
  <2>10. QED
    BY <2>1, <2>2, <2>9
<1>5. QED
  <2> HIDE DEF S, n, a
  <2>1. i \in a .. n
    BY DEF n, a
  <2>2. i \in S
    BY <1>1, <1>3, <1>4, <2>1, Counting
  <2>3. QED
    BY <2>2 DEF S

-----------------------------------------------------------------------------
(* The inductive invariant.                                                *)

(* What every step of the run keeps beside the invariant.                  *)
StepKept ==
  /\ EndKept(test, test')
  /\ ~test.bound /\ test'.bound =>
       \E p \in Reviewers : forms'[p] = NoForm /\ forms[p].evidence = {Evidence(case)}

(* Forms outlive any later case.                                           *)
LEMMA FormsLater ==
  ASSUME FormsSound, case \in CaseRow, case' \in CaseRow, Later(case, case'), forms' = forms
  PROVE  FormsSound'
<1>1. SUFFICES ASSUME NEW p \in Reviewers
               PROVE  /\ forms[p].action \in {"none", "binding", "replay"}
                      /\ forms[p].action # "none" =>
                           /\ forms[p].rev \in 1 .. case'.rev
                           /\ forms[p].rev = case'.rev => forms[p].evidence = {Evidence(case')}
  BY DEF FormsSound, Evidence
<1>2. case.rev \in Nat /\ case'.rev \in Nat /\ case'.rev >= case.rev
  BY DEF CaseRow, Later
<1>3. forms[p].action \in {"none", "binding", "replay"}
  BY DEF FormsSound
<1>4. ASSUME forms[p].action # "none"
      PROVE  /\ forms[p].rev \in 1 .. case'.rev
             /\ forms[p].rev = case'.rev => forms[p].evidence = {Evidence(case')}
  <2>1. forms[p].rev \in 1 .. case.rev
          /\ (forms[p].rev = case.rev => forms[p].evidence = {Evidence(case)})
    BY <1>4 DEF FormsSound
  <2>2. forms[p].rev \in 1 .. case'.rev
    BY <1>2, <2>1
  <2>3. forms[p].rev = case'.rev => case'.rev = case.rev
    BY <1>2, <2>1
  <2>4. QED
    BY <2>1, <2>2, <2>3 DEF Later
<1>5. QED
  BY <1>3, <1>4

LEMMA InitOK == RunInit => RunInv
<1> SUFFICES ASSUME RunInit PROVE RunInv
  OBVIOUS
<1>1. run \in LiveRun
  <2>1. run = [NoRun EXCEPT !.boot = 1, !.rev = 1, !.stage = "preparing"]
    BY DEF RunInit
  <2>2. run = [boot |-> 1, rev |-> 1, mark |-> 0, stage |-> "preparing", outcome |-> "pending"]
    BY <2>1 DEF NoRun
  <2>3. QED
    BY <2>2 DEF LiveRun, RunStages, Outcomes
<1>2. case = NoCase /\ test = NoTest /\ worker = [stage |-> "bootstrap", cursor |-> 0] /\ runFaults = 0
      /\ forms = [p \in Reviewers |-> NoForm]
  BY DEF RunInit
<1>3. case \in CaseRow /\ test \in TestRow
  <2>1. NoCase \in CaseRow
    BY DEF NoCase, CaseRow, Heards
  <2>2. NoTest \in TestRow
    BY DEF NoTest, TestRow
  <2>3. QED
    BY <1>2, <2>1, <2>2
<1>4. \/ records = <<[kind |-> "run", run |-> run]>> /\ stored = <<Row(1)>> /\ got = {1}
      \/ records = <<>> /\ stored = <<>> /\ got = {}
  BY DEF RunInit
<1>5. /\ records \in Seq(LogRow) /\ got \subseteq DOMAIN records /\ IsFiniteSet(got)
      /\ stored \in Seq(SourceRow)
      /\ got = {stored[i].record : i \in DOMAIN stored} /\ Cardinality(got) = Len(stored)
      /\ RowsSound
  <2>1. CASE records = <<[kind |-> "run", run |-> run]>> /\ stored = <<Row(1)>> /\ got = {1}
    <3>1. [kind |-> "run", run |-> run] \in LogRow /\ Row(1) \in SourceRow
      BY <1>1 DEF LogRow, Kinds, Row, SourceRow
    <3>2. DOMAIN stored = {1} /\ stored[1] = Row(1) /\ Len(stored) = 1
      BY <2>1
    <3>3. Row(1).record = 1 /\ Row(1).rows = 0 /\ ~Row(1).archived /\ ~Row(1).own
      BY DEF Row
    <3>4. RowsSound
      BY <3>2, <3>3 DEF RowsSound, RowSound
    <3>5. IsFiniteSet({1}) /\ Cardinality({1}) = 1
      BY FS_Singleton
    <3>6. records \in Seq(LogRow) /\ stored \in Seq(SourceRow) /\ got \subseteq DOMAIN records
      BY <2>1, <3>1
    <3>7. got = {stored[i].record : i \in DOMAIN stored}
      BY <2>1, <3>2, <3>3
    <3>8. QED
      BY <2>1, <3>2, <3>4, <3>5, <3>6, <3>7
  <2>2. CASE records = <<>> /\ stored = <<>> /\ got = {}
    <3>1. IsFiniteSet({}) /\ Cardinality({}) = 0
      BY FS_EmptySet
    <3>2. DOMAIN stored = {} /\ Len(stored) = 0
      BY <2>2
    <3>3. QED
      BY <2>2, <3>1, <3>2 DEF RowsSound
  <2>3. QED
    BY <1>4, <2>1, <2>2
<1>6. NoCase.rev = 0 /\ NoCase.state = "none" /\ NoCase.through = 0
      /\ NoTest.bound = FALSE /\ NoTest.end = "none" /\ NoForm.action = "none"
  BY DEF NoCase, NoTest, NoForm
<1>7. RunShape
  BY <1>1, <1>2, <1>3, <1>5, RunAssumption DEF RunShape
<1>8. RowsAreGot
  <2>1. Len(stored) \in Nat
    BY <1>5
  <2>2. QED
    BY <1>2, <1>5, <1>6, <2>1 DEF RowsAreGot
<1>9. PassedWhole
  <2>1. ~ReportReady
    BY <1>2, <1>6 DEF ReportReady
  <2>2. ASSUME NEW i \in DOMAIN stored PROVE ~ (i <= case.through)
    BY <1>2, <1>5, <1>6
  <2>3. QED
    BY <2>1, <2>2 DEF PassedWhole
<1>10. CaseSound /\ FormsSound
  BY <1>2, <1>6 DEF CaseSound, FormsSound
<1>11. QED
  BY <1>5, <1>7, <1>8, <1>9, <1>10 DEF RunInv

(* Steps of the device and of the page leave the host's tables alone.      *)
LEMMA TablesSame ==
  ASSUME RunInv, got' = got, stored' = stored, case' = case, test' = test,
         worker' = worker, \A i \in DOMAIN records : i \in DOMAIN records' /\ records'[i] = records[i]
  PROVE  RowsAreGot' /\ RowsSound' /\ PassedWhole' /\ CaseSound' /\ EndKept(test, test')
<1>1. RowsAreGot'
  BY DEF RunInv, RowsAreGot
<1>2. RowsSound'
  <2>1. ASSUME NEW i \in DOMAIN stored PROVE RowSound(stored[i])'
    <3>1. stored[i].record \in DOMAIN records
      BY DEF RunInv, RunShape, RowsAreGot
    <3>2. RowSound(stored[i])
      BY DEF RunInv, RowsSound
    <3>3. QED
      BY <3>1, <3>2 DEF RowSound
  <2>2. QED
    BY <2>1 DEF RowsSound
<1>3. PassedWhole'
  BY DEF RunInv, PassedWhole, ReportReady, RowWhole
<1>4. CaseSound'
  BY DEF RunInv, CaseSound
<1>5. EndKept(test, test')
  BY EndKeptSelf DEF RunInv, CaseSound, TestSound
<1>6. QED
  BY <1>1, <1>2, <1>3, <1>4, <1>5

(* A run and a case with some fields replaced.                             *)
LEMMA LiveRunMade ==
  ASSUME NEW r \in LiveRun,
         NEW b \in Nat, NEW v \in Nat, NEW m \in 0 .. 2, NEW s \in RunStages, NEW o \in Outcomes
  PROVE  /\ [r EXCEPT !.mark = m, !.rev = v] \in LiveRun
         /\ [r EXCEPT !.boot = b, !.rev = v] \in LiveRun
         /\ [r EXCEPT !.boot = b, !.rev = v, !.stage = s, !.outcome = o] \in LiveRun
BY DEF LiveRun

LEMMA LiveRunChanged ==
  ASSUME NEW r \in LiveRun, NEW v \in Nat, NEW m \in 0 .. 2, NEW s \in RunStages, NEW o \in Outcomes
  PROVE  [r EXCEPT !.rev = v, !.stage = s, !.outcome = o, !.mark = m] \in LiveRun
BY DEF LiveRun

LEMMA LiveRunFields ==
  ASSUME NEW r \in LiveRun
  PROVE  /\ r.boot + 1 \in Nat /\ r.rev + 1 \in Nat
         /\ r.stage \in RunStages /\ r.outcome \in Outcomes
BY DEF LiveRun

LEMMA CaseReplay ==
  ASSUME NEW c \in CaseRow, NEW e \in {"not_bound", "pending", "complete", "failed"},
         NEW s \in {"none", "unreviewed", "bound", "conflict"}, NEW v \in Nat
  PROVE  LET d == [c EXCEPT !.state = s, !.replay = e, !.rev = v]
         IN /\ d \in CaseRow /\ d.state = s /\ d.replay = e /\ d.rev = v
            /\ d.through = c.through /\ Evidence(d) = Evidence(c)
<1> DEFINE d == [c EXCEPT !.state = s, !.replay = e, !.rev = v]
<1>1. d \in CaseRow
  BY DEF CaseRow
<1>2. /\ d.state = s /\ d.replay = e /\ d.rev = v
      /\ d.through = c.through
  BY DEF CaseRow
<1>3. Evidence(d) = Evidence(c)
  BY DEF CaseRow, Evidence
<1>4. QED
  BY <1>1, <1>2, <1>3

(* What the device does on its own is a run as good as before, with its    *)
(* log prolonged or as it was.                                             *)
LEMMA DeviceSteps ==
  ASSUME RunInv, Change \/ Observe \/ Contradict \/ Restart
  PROVE  /\ run' \in LiveRun /\ records' \in Seq(LogRow)
         /\ \A i \in DOMAIN records : i \in DOMAIN records' /\ records'[i] = records[i]
         /\ UNCHANGED <<got, stored, case, test, forms, worker, runFaults>>
<1>1. run \in LiveRun /\ records \in Seq(LogRow)
  BY DEF RunInv, RunShape
<1>2. ASSUME NEW kind \in Kinds, NEW r \in LiveRun, Log(kind, r)
      PROVE  /\ run' \in LiveRun /\ records' \in Seq(LogRow)
             /\ \A i \in DOMAIN records : i \in DOMAIN records' /\ records'[i] = records[i]
             /\ UNCHANGED <<got, stored, case, test, forms, worker, runFaults>>
  <2> DEFINE entry == [kind |-> kind, run |-> r]
  <2>1. records' = Append(records, entry) /\ run' = r
    BY <1>2 DEF Log
  <2>2. entry \in LogRow
    BY DEF LogRow
  <2> HIDE DEF entry
  <2>3. records' \in Seq(LogRow) /\ \A i \in DOMAIN records : i \in DOMAIN records'
          /\ records'[i] = records[i]
    BY <1>1, <2>1, <2>2
  <2>4. QED
    BY <1>2, <2>1, <2>3 DEF Log
<1>3. CASE Change
  <2>1. PICK s \in {"measuring", "safe_disposal", "completed"},
             o \in {"pending", "valid_candidate", "aborted", "invalid"}, m \in {0, 1} :
             Log("run", [run EXCEPT !.rev = run.rev + 1, !.stage = s, !.outcome = o, !.mark = m])
    BY <1>3 DEF Change
  <2>2. PICK v \in Nat, z \in RunStages, w \in Outcomes, k \in 0 .. 2 :
             v = run.rev + 1 /\ z = s /\ w = o /\ k = m
    <3>1. s \in RunStages /\ o \in Outcomes /\ m \in 0 .. 2
      BY DEF RunStages, Outcomes
    <3>2. QED
      BY <1>1, <3>1, LiveRunFields
  <2> DEFINE r == [run EXCEPT !.rev = v, !.stage = z, !.outcome = w, !.mark = k]
  <2>3. r \in LiveRun
    BY <1>1, LiveRunChanged
  <2>4. Log("run", r)
    BY <2>1, <2>2
  <2> HIDE DEF r
  <2>5. QED
    BY <1>2, <2>3, <2>4 DEF Kinds
<1>4. CASE Observe
  <2>1. PICK kind \in {"sample", "alarm"} : Log(kind, run)
    BY <1>4 DEF Observe
  <2>2. QED
    BY <1>1, <1>2, <2>1 DEF Kinds
<1>5. CASE Contradict
  <2>1. [run EXCEPT !.mark = 2, !.rev = @ + 1] \in LiveRun
    <3> DEFINE r == [run EXCEPT !.mark = 2, !.rev = @ + 1]
    <3>1. r = [run EXCEPT !.mark = 2, !.rev = run.rev + 1]
      OBVIOUS
    <3>2. 2 \in 0 .. 2
      OBVIOUS
    <3> HIDE DEF r
    <3>3. r \in LiveRun
      BY <1>1, <3>1, <3>2, LiveRunFields, LiveRunMade, Zenon
    <3>4. QED
      BY <3>3 DEF r
  <2>2. QED
    BY <1>2, <1>5, <2>1 DEF Contradict, Kinds
<1>6. CASE Restart
  <2>1. run' \in LiveRun
    <3>1. CASE Safe(run)
      <4>1. run' = [run EXCEPT !.boot = @ + 1, !.rev = @ + 1]
        BY <1>6, <3>1 DEF Restart
      <4>2. QED
        <5>1. run' = [run EXCEPT !.boot = run.boot + 1, !.rev = run.rev + 1]
          BY <4>1
        <5>2. 0 \in 0 .. 2
          OBVIOUS
        <5>3. QED
          BY <1>1, <5>1, <5>2, LiveRunFields, LiveRunMade, Zenon
    <3>2. CASE ~Safe(run)
      <4> DEFINE o == IF run.outcome = "valid_candidate" THEN run.outcome ELSE "invalid"
      <4>1. run' = [run EXCEPT !.boot = @ + 1, !.rev = @ + 1, !.stage = "safe_disposal", !.outcome = o]
        BY <1>6, <3>2 DEF Restart
      <4>2. o \in Outcomes /\ "safe_disposal" \in RunStages
        BY DEF Outcomes, RunStages
      <4> HIDE DEF o
      <4>3. QED
        <5>1. run' = [run EXCEPT !.boot = run.boot + 1, !.rev = run.rev + 1,
                                 !.stage = "safe_disposal", !.outcome = o]
          BY <4>1
        <5>2. 0 \in 0 .. 2
          OBVIOUS
        <5>3. QED
          BY <1>1, <4>2, <5>1, <5>2, LiveRunFields, LiveRunMade, Zenon
    <3>3. QED
      BY <3>1, <3>2
  <2>2. QED
    BY <1>1, <1>6, <2>1 DEF Restart
<1>7. QED
  BY <1>3, <1>4, <1>5, <1>6

LEMMA DeviceKeeps ==
  ASSUME RunInv, Change \/ Observe \/ Contradict \/ Restart
  PROVE  RunInv' /\ StepKept
<1>1. /\ run' \in LiveRun /\ records' \in Seq(LogRow)
      /\ \A i \in DOMAIN records : i \in DOMAIN records' /\ records'[i] = records[i]
      /\ UNCHANGED <<got, stored, case, test, forms, worker, runFaults>>
  BY DeviceSteps
<1>2. RunShape'
  BY <1>1 DEF RunInv, RunShape
<1>3. RowsAreGot' /\ RowsSound' /\ PassedWhole' /\ CaseSound' /\ EndKept(test, test')
  BY <1>1, TablesSame
<1>4. FormsSound'
  BY <1>1 DEF RunInv, FormsSound, Evidence
<1>5. QED
  BY <1>1, <1>2, <1>3, <1>4 DEF RunInv, StepKept

LEMMA FillKeeps ==
  ASSUME RunInv, NEW p \in Reviewers, Fill(p)
  PROVE  RunInv' /\ StepKept
<1> DEFINE form == [action |-> IF test.bound THEN "replay" ELSE "binding",
                    rev |-> case.rev, evidence |-> {Evidence(case)}]
<1>1. /\ case # NoCase /\ forms' = [forms EXCEPT ![p] = form]
      /\ UNCHANGED <<source, got, stored, case, test, worker, runFaults>>
  BY DEF Fill
<1>2. /\ form.action \in {"replay", "binding"} /\ form.rev = case.rev
      /\ form.evidence = {Evidence(case)}
  OBVIOUS
<1> HIDE DEF form
<1>3. DOMAIN forms = Reviewers /\ forms'[p] = form /\ \A q \in Reviewers : q # p => forms'[q] = forms[q]
  BY <1>1 DEF RunInv, RunShape
<1>4. RunShape'
  BY <1>1, <1>3 DEF RunInv, RunShape, source
<1>5. RowsAreGot' /\ RowsSound' /\ PassedWhole' /\ CaseSound' /\ EndKept(test, test')
  BY <1>1, TablesSame DEF source
<1>6. case.rev \in 1 .. case.rev
  BY <1>1 DEF RunInv, RunShape, CaseSound, CaseRow
<1>7. Evidence(case)' = Evidence(case) /\ case' = case
  BY <1>1 DEF Evidence
<1>8. FormsSound'
  BY <1>2, <1>3, <1>6, <1>7 DEF RunInv, FormsSound
<1>9. QED
  BY <1>1, <1>4, <1>5, <1>8 DEF RunInv, StepKept

(* A review that goes through raises the revision: other forms are too     *)
(* old from then on.                                                       *)
LEMMA ReviewedForms ==
  ASSUME RunInv, NEW p \in Reviewers, Reviewed(p), case' \in CaseRow, case'.rev = case.rev + 1
  PROVE  FormsSound' /\ DOMAIN forms' = Reviewers /\ forms'[p] = NoForm
<1>1. /\ forms' = [forms EXCEPT ![p] = NoForm] /\ DOMAIN forms = Reviewers
  BY DEF Reviewed, RunInv, RunShape
<1>2. forms'[p] = NoForm /\ \A q \in Reviewers : q # p => forms'[q] = forms[q]
  BY <1>1
<1>3. case.rev \in Nat
  BY DEF RunInv, RunShape, CaseRow
<1>4. NoForm.action = "none"
  BY DEF NoForm
<1>5. ASSUME NEW q \in Reviewers
      PROVE  /\ forms'[q].action \in {"none", "binding", "replay"}
             /\ forms'[q].action # "none" =>
                  /\ forms'[q].rev \in 1 .. case'.rev
                  /\ forms'[q].rev # case'.rev
  <2>1. CASE q = p
    BY <2>1, <1>2, <1>4
  <2>2. CASE q # p
    <3>1. forms'[q] = forms[q]
      BY <1>2, <2>2
    <3>2. /\ forms[q].action \in {"none", "binding", "replay"}
          /\ forms[q].action # "none" => forms[q].rev \in 1 .. case.rev
      BY DEF RunInv, FormsSound
    <3>3. QED
      BY <1>3, <3>1, <3>2
  <2>3. QED
    BY <2>1, <2>2
<1>6. FormsSound'
  BY <1>5 DEF FormsSound
<1>7. QED
  BY <1>1, <1>2, <1>6

LEMMA BindKeeps ==
  ASSUME RunInv, NEW p \in Reviewers, Bind(p)
  PROVE  RunInv' /\ StepKept
<1>1. /\ forms[p].action = "binding" /\ Reviewed(p) /\ ~test.bound
      /\ test' = [NoTest EXCEPT !.bound = TRUE, !.phase = "needs_review"]
      /\ case' = [case EXCEPT !.state = "bound", !.replay = "pending", !.rev = @ + 1]
      /\ UNCHANGED <<source, got, stored, worker, runFaults>>
  BY DEF Bind
<1>2. case \in CaseRow /\ case.rev \in Nat
  BY DEF RunInv, RunShape, CaseRow
<1>3. /\ case' \in CaseRow /\ case'.rev = case.rev + 1 /\ case'.state = "bound"
      /\ case'.replay = "pending" /\ case'.through = case.through
  <2>1. case' = [case EXCEPT !.state = "bound", !.replay = "pending", !.rev = case.rev + 1]
    BY <1>1
  <2>2. case.rev + 1 \in Nat
    BY <1>2
  <2>3. QED
    <3>1. PICK v \in Nat : v = case.rev + 1
      BY <2>2
    <3>2. PICK s \in {"none", "unreviewed", "bound", "conflict"} : s = "bound"
      BY <2>2
    <3>3. case' = [case EXCEPT !.state = s, !.replay = "pending", !.rev = v]
      BY <2>1, <3>1, <3>2
    <3>4. QED
      BY <1>2, <3>1, <3>2, <3>3 DEF CaseRow
<1>4. /\ test' \in TestRow /\ test'.bound /\ test'.end = "none"
  BY <1>1 DEF NoTest, TestRow
<1>5. FormsSound' /\ DOMAIN forms' = Reviewers /\ forms'[p] = NoForm
  BY <1>1, <1>3, ReviewedForms
<1>6. RunShape'
  BY <1>1, <1>3, <1>4, <1>5 DEF RunInv, RunShape, source
<1>7. RowsAreGot'
  BY <1>1, <1>3 DEF RunInv, RowsAreGot
<1>8. RowsSound'
  BY <1>1 DEF RunInv, RowsSound, RowSound, source
<1>9. PassedWhole'
  BY <1>1, <1>3 DEF RunInv, PassedWhole, ReportReady, RowWhole
<1>10. CaseSound'
  <2>1. case'.rev > 0
    BY <1>2, <1>3
  <2>2. QED
    BY <1>3, <1>4, <2>1 DEF CaseSound
<1>11. test = NoTest
  BY <1>1 DEF RunInv, CaseSound
<1>12. EndKept(test, test')
  BY <1>11 DEF EndKept, NoTest
<1>13. forms[p].evidence = {Evidence(case)}
  BY <1>1 DEF RunInv, FormsSound, Reviewed
<1>14. QED
  BY <1>5, <1>6, <1>7, <1>8, <1>9, <1>10, <1>12, <1>13 DEF RunInv, StepKept

LEMMA RequestReplayKeeps ==
  ASSUME RunInv, NEW p \in Reviewers, RequestReplay(p)
  PROVE  RunInv' /\ StepKept
<1>1. /\ Reviewed(p) /\ test.bound
      /\ case' = [case EXCEPT !.replay = "pending", !.rev = @ + 1]
      /\ UNCHANGED <<source, got, stored, test, worker, runFaults>>
  BY DEF RequestReplay
<1>2. case \in CaseRow /\ case.rev \in Nat
  BY DEF RunInv, RunShape, CaseRow
<1>3. /\ case' \in CaseRow /\ case'.rev = case.rev + 1 /\ case'.state = case.state
      /\ case'.replay = "pending" /\ case'.through = case.through
  <2>1. case' = [case EXCEPT !.state = case.state, !.replay = "pending", !.rev = case.rev + 1]
    BY <1>1, <1>2 DEF CaseRow
  <2>2. case.rev + 1 \in Nat /\ case.state \in {"none", "unreviewed", "bound", "conflict"}
    BY <1>2 DEF CaseRow
  <2>3. QED
    <3>1. PICK v \in Nat : v = case.rev + 1
      BY <2>2
    <3>2. PICK s \in {"none", "unreviewed", "bound", "conflict"} : s = case.state
      BY <2>2
    <3>3. case' = [case EXCEPT !.state = s, !.replay = "pending", !.rev = v]
      BY <2>1, <3>1, <3>2
    <3>4. QED
      BY <1>2, <3>1, <3>2, <3>3 DEF CaseRow
<1>4. FormsSound' /\ DOMAIN forms' = Reviewers
  BY <1>1, <1>3, ReviewedForms
<1>5. RunShape'
  BY <1>1, <1>3, <1>4 DEF RunInv, RunShape, source
<1>6. RowsAreGot'
  BY <1>1, <1>3 DEF RunInv, RowsAreGot
<1>7. RowsSound'
  BY <1>1 DEF RunInv, RowsSound, RowSound, source
<1>8. PassedWhole'
  BY <1>1, <1>3 DEF RunInv, PassedWhole, ReportReady, RowWhole
<1>9. CaseSound'
  <2>1. case # NoCase
    <3>1. forms[p].action # "none" /\ forms[p].rev = case.rev
      BY DEF RequestReplay, Reviewed
    <3>2. case.rev > 0
      BY <1>2, <3>1 DEF RunInv, FormsSound
    <3>3. QED
      BY <3>2 DEF NoCase
  <2>2. case'.rev > 0 /\ case'.state # "none"
    BY <1>2, <1>3, <2>1 DEF RunInv, CaseSound
  <2>3. QED
    BY <1>1, <1>3, <2>2 DEF RunInv, CaseSound
<1>10. EndKept(test, test')
  BY <1>1, EndKeptSelf DEF RunInv, CaseSound, TestSound
<1>11. QED
  BY <1>1, <1>4, <1>5, <1>6, <1>7, <1>8, <1>9, <1>10 DEF RunInv, StepKept

(* A record is stored and archived, or kept raw, in one transaction.       *)
LEMMA IngestKeeps ==
  ASSUME RunInv, Ingest
  PROVE  RunInv' /\ StepKept
<1>1. PICK k \in DOMAIN records \ got :
        /\ got' = got \cup {k}
        /\ Commit(OnRecord([Tables EXCEPT !.rows = Append(stored, Row(k))], Len(stored) + 1))
        /\ UNCHANGED <<source, forms, worker, runFaults>>
  BY DEF Ingest
<1> DEFINE n == Len(stored) + 1
           x == [Tables EXCEPT !.rows = Append(stored, Row(k))]
           y == OnRecord(x, n)
<1>2. /\ stored \in Seq(SourceRow) /\ case \in CaseRow /\ test \in TestRow
      /\ records \in Seq(LogRow) /\ got \subseteq DOMAIN records /\ IsFiniteSet(got)
      /\ Len(stored) \in Nat /\ n \in Nat /\ n \in 1 .. n
  BY DEF RunInv, RunShape
<1>3. /\ Row(k) \in SourceRow /\ Row(k).record = k
      /\ ~Row(k).archived /\ ~Row(k).own /\ Row(k).rows = 0
  BY <1>2 DEF Row, SourceRow
<1>4. /\ Append(stored, Row(k)) \in Seq(SourceRow) /\ Len(Append(stored, Row(k))) = n
      /\ Append(stored, Row(k))[n] = Row(k)
      /\ \A j \in 1 .. Len(stored) : Append(stored, Row(k))[j] = stored[j]
  BY <1>2, <1>3
<1>5. x = [rows |-> Append(stored, Row(k)), case |-> case, test |-> test]
  BY DEF Tables
<1> HIDE DEF x
<1>6. x.rows = Append(stored, Row(k)) /\ x.case = case /\ x.test = test
  BY <1>5
<1>7. \A j \in 1 .. n : x.rows[j].record \in DOMAIN records /\ RowSound(x.rows[j])
  <2>1. ASSUME NEW j \in 1 .. Len(stored)
        PROVE  stored[j].record \in DOMAIN records /\ RowSound(stored[j])
    <3>1. j \in DOMAIN stored
      BY <1>2
    <3>2. QED
      BY <3>1 DEF RunInv, RunShape, RowsAreGot, RowsSound
  <2>2. Row(k).record \in DOMAIN records /\ RowSound(Row(k))
    BY <1>3 DEF RowSound
  <2>3. \A j \in 1 .. n : j = n \/ j \in 1 .. Len(stored)
    BY <1>2
  <2>4. QED
    BY <1>4, <1>6, <2>1, <2>2, <2>3
<1>8. TablesOK(x, n)
  BY <1>2, <1>4, <1>5, <1>6, <1>7 DEF TablesOK, RunInv, CaseSound, TestSound
<1>9. ~x.rows[n].archived
  BY <1>3, <1>4, <1>6
<1> HIDE DEF y
<1>10. /\ TablesOK(y, n)
       /\ \A j \in 1 .. n : y.rows[j].record = x.rows[j].record
       /\ \A j \in 1 .. n : j # n => y.rows[j] = x.rows[j]
       /\ Later(x.case, y.case) /\ y.case # NoCase
       /\ y.case.state = "bound" => x.case.state = "bound"
       /\ y.case.replay = x.case.replay /\ y.case.through = x.case.through
       /\ y.test.bound = x.test.bound /\ EndKept(x.test, y.test)
       /\ x.test.bound /\ y.case.state # "conflict" => RowWhole(y.rows[n])
  <2> HIDE DEF n
  <2>1. QED
    BY <1>2, <1>8, <1>9, OnRecordIs DEF y
<1>11. stored' = y.rows /\ case' = y.case /\ test' = y.test
  BY <1>1 DEF Commit, x, y
<1>12. /\ stored' \in Seq(SourceRow) /\ Len(stored') = n /\ case' \in CaseRow /\ test' \in TestRow
  BY <1>10, <1>11 DEF TablesOK
<1>13. /\ \A j \in 1 .. Len(stored) : stored'[j] = stored[j]
       /\ stored'[n].record = k
  <2>1. \A j \in 1 .. Len(stored) : j \in 1 .. n /\ j # n
    BY <1>2
  <2>2. QED
    BY <1>2, <1>3, <1>4, <1>6, <1>10, <1>11, <2>1
<1>14. DOMAIN stored' = 1 .. n /\ DOMAIN stored = 1 .. Len(stored)
       /\ \A j \in 1 .. n : j = n \/ j \in 1 .. Len(stored)
  BY <1>2, <1>12
<1>15. got' \subseteq DOMAIN records' /\ IsFiniteSet(got') /\ Cardinality(got') = n
  <2>1. records' = records
    BY <1>1 DEF source
  <2>2. IsFiniteSet(got \cup {k}) /\ Cardinality(got \cup {k}) = Cardinality(got) + 1
    BY <1>1, <1>2, FS_AddElement
  <2>3. QED
    BY <1>1, <1>2, <2>1, <2>2 DEF RunInv, RowsAreGot
<1>16. RunShape'
  <2>1. records' = records /\ run' = run /\ forms' = forms /\ worker' = worker /\ runFaults' = runFaults
    BY <1>1 DEF source
  <2>2. QED
    BY <1>12, <1>15, <2>1 DEF RunInv, RunShape
<1>17. RowsAreGot'
  <2>1. got' = {stored'[i].record : i \in DOMAIN stored'}
    <3>1. got = {stored[i].record : i \in 1 .. Len(stored)}
      BY <1>14 DEF RunInv, RowsAreGot
    <3>2. \A v : v \in got' <=> v \in got \/ v = k
      BY <1>1
    <3>3. \A v : (\E i \in 1 .. n : v = stored'[i].record)
                   <=> (\E i \in 1 .. Len(stored) : v = stored[i].record) \/ v = k
      <4>1. \A i \in 1 .. Len(stored) : i \in 1 .. n
        BY <1>2
      <4>2. QED
        BY <1>2, <1>13, <1>14, <4>1
    <3> DEFINE now == {stored'[i].record : i \in 1 .. n}
    <3>4. \A v : v \in now <=> \E i \in 1 .. n : v = stored'[i].record
      OBVIOUS
    <3>5. \A v : v \in got <=> \E i \in 1 .. Len(stored) : v = stored[i].record
      BY <3>1
    <3> HIDE DEF now
    <3>6. \A v : v \in now <=> v \in got'
      BY <3>2, <3>3, <3>4, <3>5
    <3>7. now = got'
      BY <3>6
    <3>8. QED
      BY <1>14, <3>7 DEF now
  <2>2. case'.through <= n /\ worker'.cursor <= n
    <3>1. case'.through = case.through /\ worker' = worker
      BY <1>1, <1>6, <1>10, <1>11
    <3>2. case.through \in Nat /\ worker.cursor \in Nat
      BY DEF RunInv, RunShape, CaseRow
    <3>3. QED
      BY <1>2, <3>1, <3>2 DEF RunInv, RowsAreGot
  <2>3. QED
    BY <1>12, <1>15, <2>1, <2>2 DEF RowsAreGot
<1>18. RowsSound'
  <2>1. records' = records
    BY <1>1 DEF source
  <2>2. \A j \in 1 .. n : RowSound(stored'[j])
    BY <1>10, <1>11 DEF TablesOK
  <2>3. \A j \in 1 .. n : RowSound(stored[j])'
    BY <2>1, <2>2 DEF RowSound
  <2>4. QED
    BY <1>14, <2>3 DEF RowsSound
<1>19. PassedWhole'
  <2>1. ASSUME NEW j \in 1 .. n, j <= case'.through \/ ReportReady'
        PROVE  RowWhole(stored'[j])
    <3>1. case'.through = case.through /\ case'.replay = case.replay
      BY <1>6, <1>10, <1>11
    <3>2. ReportReady' => ReportReady /\ test.bound /\ case'.state # "conflict"
      BY <1>6, <1>10, <1>11 DEF ReportReady, RunInv, CaseSound
    <3>3. CASE j \in 1 .. Len(stored)
      <4>1. stored'[j] = stored[j] /\ j \in DOMAIN stored
        BY <1>13, <1>14, <3>3
      <4>2. j <= case.through \/ ReportReady
        BY <2>1, <3>1, <3>2
      <4>3. RowWhole(stored[j])
        BY <4>1, <4>2 DEF RunInv, PassedWhole
      <4>4. QED
        BY <4>1, <4>3
    <3>4. CASE j = n
      <4>1. ~ (j <= case'.through)
        <5>1. case.through \in Nat /\ case.through <= Len(stored)
          BY DEF RunInv, RunShape, RowsAreGot, CaseRow
        <5>2. QED
          BY <1>2, <3>1, <3>4, <5>1
      <4>2. test.bound /\ case'.state # "conflict"
        BY <2>1, <3>2, <4>1
      <4>3. RowWhole(y.rows[n])
        BY <1>6, <1>10, <1>11, <4>2
      <4>4. QED
        BY <1>11, <3>4, <4>3
    <3>5. QED
      BY <1>14, <3>3, <3>4
  <2>2. QED
    BY <1>14, <2>1 DEF PassedWhole, RowWhole
<1>20. CaseSound'
  <2>1. y.case.rev > 0
    BY <1>10 DEF TablesOK
  <2>2. QED
    BY <1>1, <1>10, <1>11, <2>1 DEF CaseSound, TablesOK, TestSound
<1>21. FormsSound'
  BY <1>1, <1>2, <1>6, <1>10, <1>11, <1>12, FormsLater DEF RunInv
<1>22. EndKept(test, test') /\ test'.bound = test.bound
  BY <1>6, <1>10, <1>11
<1>23. QED
  BY <1>16, <1>17, <1>18, <1>19, <1>20, <1>21, <1>22 DEF RunInv, StepKept

(* Steps that leave rows, log and forms alone and make only a later case.  *)
LEMMA CaseSteps ==
  ASSUME RunInv, case' \in CaseRow, test' \in TestRow, Later(case, case'),
         UNCHANGED <<source, got, stored, forms, runFaults>>,
         worker' \in [stage : {"bootstrap", "replay", "failing"}, cursor : Nat],
         worker'.cursor <= Len(stored), worker'.stage = "failing" => worker.stage = "failing",
         case'.through = case.through,
         case' = NoCase \/ (case'.rev > 0 /\ case'.state # "none"),
         ReportReady' => ReportReady,
         case'.state = "bound" => case.state = "bound",
         test'.bound = test.bound, ~test.bound => test' = test,
         TestSound(test'), EndKept(test, test')
  PROVE  RunInv' /\ StepKept
<1>1. RunShape'
  BY DEF RunInv, RunShape, source
<1>2. RowsAreGot'
  BY DEF RunInv, RowsAreGot
<1>3. RowsSound'
  BY DEF RunInv, RowsSound, RowSound, source
<1>4. PassedWhole'
  <2>1. ASSUME NEW i \in DOMAIN stored, i <= case'.through \/ ReportReady' PROVE RowWhole(stored[i])
    BY <2>1 DEF RunInv, PassedWhole
  <2>2. QED
    BY <2>1 DEF PassedWhole, RowWhole
<1>5. CaseSound'
  <2>1. worker'.stage = "failing" => case'.rev > 0
    <3>1. case.rev \in Nat /\ case'.rev \in Nat /\ case'.rev >= case.rev
      BY DEF RunInv, RunShape, CaseRow, Later
    <3>2. QED
      BY <3>1 DEF RunInv, CaseSound
  <2>2. QED
    BY <2>1 DEF RunInv, CaseSound, TestSound
<1>6. FormsSound'
  BY FormsLater DEF RunInv, RunShape
<1>7. QED
  BY <1>1, <1>2, <1>3, <1>4, <1>5, <1>6 DEF RunInv, StepKept

LEMMA ReconcileKeeps ==
  ASSUME RunInv, ReconcileStatus
  PROVE  RunInv' /\ StepKept
<1> DEFINE c == Discovered(case, run.boot, run, TRUE)
<1>1. /\ case' = c
      /\ test' = IF test.bound /\ c.state # "conflict" THEN Projected(test, run, TRUE) ELSE test
      /\ UNCHANGED <<source, got, stored, forms, worker, runFaults>>
  BY DEF ReconcileStatus
<1>2. run \in LiveRun /\ run \in Heards /\ run.boot \in Nat /\ case \in CaseRow /\ test \in TestRow
  BY DEF RunInv, RunShape, Heards, LiveRun
<1>3. /\ c \in CaseRow /\ Later(case, c) /\ c.rev > 0 /\ c.state # "none"
      /\ c.state = "bound" => case.state = "bound"
      /\ c.replay = case.replay /\ c.through = case.through
  BY <1>2, DiscoveredIs DEF RunInv, CaseSound
<1> HIDE DEF c
<1>4. /\ test' \in TestRow /\ test'.bound = test.bound /\ TestSound(test') /\ EndKept(test, test')
      /\ ~test.bound => test' = test
  <2>1. TestSound(test)
    BY DEF RunInv, CaseSound, TestSound
  <2>2. CASE test.bound /\ c.state # "conflict"
    BY <1>1, <1>2, <2>1, <2>2, ProjectedIs
  <2>3. CASE ~ (test.bound /\ c.state # "conflict")
    BY <1>1, <1>2, <2>1, <2>3, EndKeptSelf
  <2>4. QED
    BY <2>2, <2>3
<1>5. ReportReady' => ReportReady
  BY <1>1, <1>3 DEF ReportReady
<1>6. worker' \in [stage : {"bootstrap", "replay", "failing"}, cursor : Nat]
      /\ worker'.cursor <= Len(stored) /\ worker' = worker
  BY <1>1 DEF RunInv, RunShape, RowsAreGot
<1>7. QED
  BY <1>1, <1>3, <1>4, <1>5, <1>6, CaseSteps

LEMMA BatchEndIs ==
  ASSUME NEW from \in Nat, Len(stored) \in Nat, from <= Len(stored)
  PROVE  /\ BatchEnd(from) \in from .. Len(stored)
         /\ BatchEnd(from) - from < ReplayBatch => BatchEnd(from) = Len(stored)
BY RunAssumption DEF BatchEnd

LEMMA BootstrapKeeps ==
  ASSUME RunInv, Bootstrap
  PROVE  RunInv' /\ StepKept
<1> DEFINE last == IF test.bound THEN worker.cursor ELSE BatchEnd(worker.cursor)
<1>1. /\ case' = NotedCase[last]
      /\ worker' = [stage |-> IF last - worker.cursor < ReplayBatch THEN "replay" ELSE "bootstrap",
                    cursor |-> last]
      /\ UNCHANGED <<source, got, stored, test, forms, runFaults>>
  BY DEF Bootstrap
<1>2. worker.cursor \in Nat /\ Len(stored) \in Nat /\ worker.cursor <= Len(stored)
  BY DEF RunInv, RunShape, RowsAreGot
<1>3. last \in worker.cursor .. Len(stored)
  BY <1>2, BatchEndIs
<1> HIDE DEF last
<1>4. NotedSound(case')
  BY <1>1, <1>3, NotedAre
<1>5. worker' \in [stage : {"bootstrap", "replay", "failing"}, cursor : Nat]
      /\ worker'.cursor <= Len(stored) /\ worker'.stage # "failing"
  BY <1>1, <1>2, <1>3
<1>6. test' \in TestRow /\ TestSound(test') /\ EndKept(test, test')
  BY <1>1, EndKeptSelf DEF RunInv, RunShape, CaseSound, TestSound
<1>7. ReportReady' => ReportReady
  BY <1>4 DEF ReportReady, NotedSound
<1>8. QED
  BY <1>1, <1>4, <1>5, <1>6, <1>7, CaseSteps DEF NotedSound

LEMMA BatchKeeps ==
  ASSUME RunInv, Batch
  PROVE  RunInv' /\ StepKept
<1> DEFINE last == BatchEnd(case.through)
           n == Len(stored)
           x == Replays[last]
           clash == x.case.state = "conflict"
           e == IF clash THEN "failed"
                ELSE IF last - case.through < ReplayBatch THEN "complete" ELSE "pending"
<1>1. /\ Pending /\ stored' = x.rows
      /\ test' = IF clash \/ x.case.latest = NoRun THEN x.test
                 ELSE Projected(x.test, x.case.latest, TRUE)
      /\ case' = [x.case EXCEPT !.replay = e]
      /\ UNCHANGED <<source, got, forms, worker, runFaults>>
  BY DEF Batch
<1>2. case.state = "bound" /\ test.bound
  BY <1>1 DEF Pending, RunInv, CaseSound
<1>3. /\ n \in Nat /\ case.through \in Nat /\ case.through <= n
      /\ case \in CaseRow /\ test \in TestRow /\ stored \in Seq(SourceRow)
  BY DEF RunInv, RunShape, RowsAreGot, CaseRow
<1>4. last \in case.through .. n /\ (last - case.through < ReplayBatch => last = n)
  BY <1>3, BatchEndIs
<1> HIDE DEF last, n, x
<1>5. Replaying(x, n, last)
  BY <1>2, <1>4, ReplaysAre DEF x, n
<1>6. /\ x.rows \in Seq(SourceRow) /\ Len(x.rows) = n /\ x.case \in CaseRow /\ x.test \in TestRow
      /\ TestSound(x.test) /\ x.test.bound
      /\ x.case.state \in {"bound", "conflict"} /\ x.case.through <= last
      /\ Later(case, x.case) /\ EndKept(test, x.test)
  BY <1>5 DEF Replaying, TablesOK
<1>7. e \in {"not_bound", "pending", "complete", "failed"}
  OBVIOUS
<1>8. /\ case' \in CaseRow /\ case'.replay = e /\ case'.state = x.case.state
      /\ case'.rev = x.case.rev /\ case'.through = x.case.through
      /\ Evidence(case') = Evidence(x.case)
  <2> HIDE DEF e
  <2>1. PICK z \in {"not_bound", "pending", "complete", "failed"} : z = e
    BY <1>7
  <2>2. case' = [x.case EXCEPT !.replay = z]
    BY <1>1, <2>1
  <2>3. case' \in CaseRow
    BY <1>6, <2>2 DEF CaseRow
  <2>4. case'.replay = z /\ case'.state = x.case.state
        /\ case'.rev = x.case.rev /\ case'.through = x.case.through
    BY <1>6, <2>2 DEF CaseRow
  <2>5. Evidence(case') = Evidence(x.case)
    BY <1>6, <2>2 DEF CaseRow, Evidence
  <2>6. QED
    BY <2>1, <2>3, <2>4, <2>5
<1>9. Later(case, case')
  BY <1>6, <1>8 DEF Later
<1>10. /\ test' \in TestRow /\ test'.bound /\ TestSound(test') /\ EndKept(test, test')
  <2>1. CASE clash \/ x.case.latest = NoRun
    BY <1>1, <1>6, <2>1
  <2>2. CASE ~ (clash \/ x.case.latest = NoRun)
    <3>1. x.case.latest \in LiveRun
      BY <1>6, <2>2 DEF CaseRow, Heards
    <3>2. test' = Projected(x.test, x.case.latest, TRUE)
      BY <1>1, <2>2
    <3>3. test' \in TestRow /\ test'.bound = x.test.bound /\ TestSound(test') /\ EndKept(x.test, test')
      BY <1>6, <3>1, <3>2, ProjectedIs
    <3>4. EndKept(test, test')
      BY <1>6, <3>3 DEF EndKept
    <3>5. QED
      BY <1>6, <3>3, <3>4
  <2>3. QED
    BY <2>1, <2>2
<1>11. DOMAIN stored = 1 .. n /\ DOMAIN stored' = 1 .. n /\ Len(stored') = n
         /\ stored' \in Seq(SourceRow)
  BY <1>1, <1>3, <1>6 DEF n
<1>12. \A j \in 1 .. n : stored'[j].record = stored[j].record
  BY <1>1, <1>5 DEF Replaying
<1>13. RunShape'
  BY <1>1, <1>8, <1>10, <1>11 DEF RunInv, RunShape, source
<1>14. RowsAreGot'
  <2>1. got' = {stored'[i].record : i \in DOMAIN stored'}
    <3>1. got = {stored[i].record : i \in 1 .. n}
      BY <1>11 DEF RunInv, RowsAreGot
    <3>2. {stored'[i].record : i \in 1 .. n} = {stored[i].record : i \in 1 .. n}
      BY <1>12
    <3>3. QED
      BY <1>1, <1>11, <3>1, <3>2
  <2>2. case'.through <= n
    <3>1. case'.through \in Nat /\ last \in Nat /\ last <= n
      BY <1>3, <1>4, <1>8 DEF CaseRow
    <3>2. QED
      BY <1>6, <1>8, <3>1
  <2>3. worker'.cursor <= n /\ Cardinality(got') = n
    BY <1>1 DEF RunInv, RowsAreGot, n
  <2>4. QED
    BY <1>11, <2>1, <2>2, <2>3 DEF RowsAreGot
<1>15. RowsSound'
  <2>1. \A j \in 1 .. n : RowSound(stored'[j])
    BY <1>1, <1>5 DEF Replaying, TablesOK
  <2>2. \A j \in 1 .. n : RowSound(stored[j])'
    BY <1>1, <2>1 DEF RowSound, source
  <2>3. QED
    BY <1>11, <2>2 DEF RowsSound
<1>16. PassedWhole'
  <2>1. ASSUME NEW j \in 1 .. n, j <= case'.through \/ ReportReady'
        PROVE  RowWhole(stored'[j])
    <3>1. CASE j <= case'.through
      BY <1>1, <1>5, <1>8, <3>1 DEF Replaying
    <3>2. CASE ReportReady'
      <4>1. e = "complete" /\ x.case.state # "conflict"
        BY <1>8, <3>2 DEF ReportReady
      <4>2. last = n
        BY <1>4, <4>1
      <4>3. x.case.through = n
        BY <1>5, <4>1, <4>2 DEF Replaying
      <4>4. j <= x.case.through
        BY <1>3, <4>3
      <4>5. QED
        BY <1>1, <1>5, <4>4 DEF Replaying
    <3>3. QED
      BY <2>1, <3>1, <3>2
  <2>2. QED
    BY <1>11, <2>1 DEF PassedWhole, RowWhole
<1>17. CaseSound'
  <2>1. case.rev > 0
    BY <1>2 DEF RunInv, CaseSound, NoCase
  <2>2. case'.rev > 0 /\ case'.state # "none"
    <3>1. case'.rev \in Nat /\ case.rev \in Nat
      BY <1>3, <1>8 DEF CaseRow
    <3>2. QED
      BY <1>6, <1>8, <1>9, <2>1, <3>1 DEF Later
  <2>3. QED
    BY <1>10, <2>2 DEF CaseSound, TestSound
<1>18. FormsSound'
  BY <1>1, <1>3, <1>8, <1>9, FormsLater DEF RunInv
<1>19. QED
  BY <1>2, <1>10, <1>13, <1>14, <1>15, <1>16, <1>17, <1>18 DEF RunInv, StepKept

LEMMA WorkerKeeps ==
  ASSUME RunInv, BatchFails \/ RestartBackend
  PROVE  RunInv' /\ StepKept
<1>1. UNCHANGED <<source, got, stored, case, test, forms>>
  BY DEF BatchFails, RestartBackend
<1>2. /\ worker' \in [stage : {"bootstrap", "replay", "failing"}, cursor : Nat]
      /\ worker'.cursor <= Len(stored) /\ runFaults' \in 0 .. RunMaxFaults
  <2>1. worker \in [stage : {"bootstrap", "replay", "failing"}, cursor : Nat]
        /\ worker.cursor <= Len(stored) /\ Len(stored) \in Nat /\ runFaults \in 0 .. RunMaxFaults
        /\ RunMaxFaults \in Nat
    BY RunAssumption DEF RunInv, RunShape, RowsAreGot
  <2>2. runFaults < RunMaxFaults /\ runFaults' = runFaults + 1
    BY DEF BatchFails, RestartBackend
  <2>3. worker' = [worker EXCEPT !.stage = "failing"] \/ worker' = [stage |-> "bootstrap", cursor |-> 0]
    BY DEF BatchFails, RestartBackend
  <2>4. QED
    BY <2>1, <2>2, <2>3
<1>3. RunShape'
  BY <1>1, <1>2 DEF RunInv, RunShape, source
<1>4. RowsAreGot'
  BY <1>1, <1>2 DEF RunInv, RowsAreGot
<1>5. RowsSound' /\ PassedWhole' /\ CaseSound'
  <2>1. worker'.stage = "failing" => case'.rev > 0
    <3>1. CASE BatchFails
      BY <1>1, <3>1 DEF BatchFails, Pending, RunInv, CaseSound, NoCase
    <3>2. CASE RestartBackend
      BY <3>2 DEF RestartBackend
    <3>3. QED
      BY <3>1, <3>2
  <2>2. QED
    BY <1>1, <2>1 DEF RunInv, RowsSound, RowSound, PassedWhole, RowWhole, ReportReady, CaseSound, source
<1>6. FormsSound'
  BY <1>1 DEF RunInv, FormsSound, Evidence
<1>7. EndKept(test, test')
  BY <1>1, EndKeptSelf DEF RunInv, CaseSound, TestSound
<1>8. QED
  BY <1>1, <1>3, <1>4, <1>5, <1>6, <1>7 DEF RunInv, StepKept

LEMMA MarkFailedKeeps ==
  ASSUME RunInv, MarkFailed
  PROVE  RunInv' /\ StepKept
<1>1. /\ case' = [case EXCEPT !.replay = "failed"]
      /\ worker' = [worker EXCEPT !.stage = "replay"]
      /\ UNCHANGED <<source, got, stored, test, forms, runFaults>>
  BY DEF MarkFailed
<1>2. /\ case \in CaseRow /\ test \in TestRow /\ TestSound(test)
      /\ worker \in [stage : {"bootstrap", "replay", "failing"}, cursor : Nat]
      /\ worker.cursor <= Len(stored)
  BY DEF RunInv, RunShape, RowsAreGot, CaseSound, TestSound
<1>3. /\ case' \in CaseRow /\ case'.rev = case.rev /\ case'.state = case.state
      /\ case'.through = case.through /\ case'.replay = "failed"
  BY <1>1, <1>2 DEF CaseRow
<1>4. Evidence(case') = Evidence(case)
  BY <1>1, <1>2 DEF CaseRow, Evidence
<1>5. case.rev >= case.rev
  BY <1>2 DEF CaseRow
<1>6. Later(case, case')
  BY <1>3, <1>4, <1>5 DEF Later
<1>7. ~ReportReady'
  BY <1>3 DEF ReportReady
<1>8. /\ worker' \in [stage : {"bootstrap", "replay", "failing"}, cursor : Nat]
      /\ worker'.cursor <= Len(stored) /\ worker'.stage # "failing"
  BY <1>1, <1>2
<1>9. case'.rev > 0 /\ case'.state # "none"
  <2>1. case.rev > 0
    BY DEF MarkFailed, RunInv, CaseSound
  <2>2. case # NoCase
    BY <2>1 DEF NoCase
  <2>3. QED
    BY <1>3, <2>1, <2>2 DEF RunInv, CaseSound
<1>10. QED
  <2>1. EndKept(test, test') /\ test' = test
    BY <1>1, <1>2, EndKeptSelf
  <2>2. case'.state = "bound" => case.state = "bound"
    BY <1>3
  <2>3. QED
    BY <1>1, <1>2, <1>3, <1>6, <1>7, <1>8, <1>9, <2>1, <2>2, CaseSteps

LEMMA NextKeeps ==
  ASSUME RunInv, RunNext
  PROVE  RunInv' /\ StepKept
<1>1. CASE Change \/ Observe \/ Contradict \/ Restart
  BY <1>1, DeviceKeeps
<1>2. CASE Ingest
  BY <1>2, IngestKeeps
<1>3. CASE ReconcileStatus
  BY <1>3, ReconcileKeeps
<1>4. CASE \E p \in Reviewers : Fill(p) \/ Bind(p) \/ RequestReplay(p)
  BY <1>4, FillKeeps, BindKeeps, RequestReplayKeeps
<1>5. CASE Bootstrap
  BY <1>5, BootstrapKeeps
<1>6. CASE Batch
  BY <1>6, BatchKeeps
<1>7. CASE BatchFails \/ RestartBackend
  BY <1>7, WorkerKeeps
<1>8. CASE MarkFailed
  BY <1>8, MarkFailedKeeps
<1>9. QED
  BY <1>1, <1>2, <1>3, <1>4, <1>5, <1>6, <1>7, <1>8 DEF RunNext

LEMMA StutterKeeps ==
  ASSUME RunInv, UNCHANGED runVars
  PROVE  RunInv' /\ StepKept
<1>1. UNCHANGED <<run, records, got, stored, case, test, forms, worker, runFaults>>
  BY DEF runVars, source
<1>2. RunShape' /\ RowsAreGot' /\ RowsSound' /\ PassedWhole' /\ CaseSound'
  BY <1>1 DEF RunInv, RunShape, RowsAreGot, RowsSound, RowSound, PassedWhole, RowWhole, ReportReady,
       CaseSound
<1>3. FormsSound'
  BY <1>1 DEF RunInv, FormsSound, Evidence
<1>4. EndKept(test, test')
  BY <1>1, EndKeptSelf DEF RunInv, CaseSound, TestSound
<1>5. QED
  BY <1>1, <1>2, <1>3, <1>4 DEF RunInv, StepKept

(* The invariant behind the theorems below holds in every reachable state: *)
(* discovery, ingestion, reviews, bootstrap, batches, failures, restarts   *)
(* of backend and device, in every order.                                  *)
THEOREM RunInvHolds == RunSpec => []RunInv
<1>1. RunInit => RunInv
  BY InitOK
<1>2. RunInv /\ [RunNext]_runVars => RunInv'
  BY NextKeeps, StutterKeeps
<1>3. QED
  BY <1>1, <1>2, PTL DEF RunSpec

(* The types of the tables, and that the rows are the records the host has *)
(* ingested, each once, with replay_through_id and the bootstrap cursor    *)
(* never beyond the last of them.                                          *)
THEOREM RunTypeSafe == RunSpec => []RunTypeOK
<1>1. RunInv => RunTypeOK
  <2> SUFFICES ASSUME RunInv PROVE RunTypeOK
    OBVIOUS
  <2>1. /\ case.state \in {"none", "unreviewed", "bound", "conflict"}
        /\ case.replay \in {"not_bound", "pending", "complete", "failed"}
        /\ case.through \in Nat
    BY DEF RunInv, RunShape, CaseRow
  <2>2. /\ test.phase \in {"none", "needs_review"} \cup RunStages
        /\ test.end \in {"none", "completed", "operator_stop", "invalid", "safe_end_incomplete"}
    BY DEF RunInv, RunShape, TestRow
  <2>3. worker.stage \in {"bootstrap", "replay", "failing"} /\ worker.cursor \in Nat
    BY DEF RunInv, RunShape
  <2>4. case.through \in 0 .. Len(stored) /\ worker.cursor \in 0 .. Len(stored)
    BY <2>1, <2>3 DEF RunInv, RunShape, RowsAreGot
  <2>5. QED
    BY <2>1, <2>2, <2>3, <2>4
       DEF RunTypeOK, RunInv, RunShape, RowsAreGot, FormsSound, RunStages
<1>2. QED
  BY <1>1, RunInvHolds, PTL

(* require_recovery_report_ready() lets a report be made only of a whole   *)
(* archive: whatever the order of live records, log, batches, failures and *)
(* restarts, every row is archived exactly once and belongs to the test.   *)
THEOREM ReportWhole == RunSpec => []ReportIsWhole
<1>1. RunInv => ReportIsWhole
  <2> SUFFICES ASSUME RunInv, ReportReady, NEW i \in DOMAIN stored
               PROVE  stored[i].archived /\ stored[i].rows = 1 /\ (stored[i].own \/ stored[i].linked)
    BY DEF ReportIsWhole
  <2>1. RowWhole(stored[i]) /\ RowSound(stored[i])
    BY DEF RunInv, PassedWhole, RowsSound
  <2>2. QED
    BY <2>1 DEF RowWhole, RowSound
<1>2. QED
  BY <1>1, RunInvHolds, PTL

(* Binding: bind() accepts only a form that shows the evidence as it is    *)
(* when the review is made, whatever has been discovered in between.       *)
THEOREM BindSaw == RunSpec => BindSawEvidence
<1>1. RunInv /\ [RunNext]_runVars =>
        [~test.bound /\ test'.bound =>
           \E p \in Reviewers : forms'[p] = NoForm /\ forms[p].evidence = {Evidence(case)}]_runVars
  BY NextKeeps DEF StepKept
<1>2. QED
  BY <1>1, RunInvHolds, PTL DEF RunSpec, BindSawEvidence

(* The end of a test and the invalidity of a run are final: neither an     *)
(* older event nor a restarted device takes them back.                     *)
THEOREM EndStays == RunSpec => EndIsFinal
<1>1. RunInv /\ [RunNext]_runVars =>
        [/\ test.end # "none" => test'.end # "none" /\ test'.phase = "completed"
         /\ test.outcome = "invalid" => test'.outcome = "invalid"]_runVars
  BY NextKeeps DEF StepKept, EndKept
<1>2. QED
  BY <1>1, RunInvHolds, PTL DEF RunSpec, EndIsFinal

-----------------------------------------------------------------------------
(* Alarms.  An alarm is never raised again: it only ceases to be active,   *)
(* and to be unacknowledged.                                               *)

Below(x, y) == (y.active => x.active) /\ (x.acked => y.acked)

(* Clocks: a boot and the uptime within it.                                *)
Before(x, y)   == x.boot < y.boot \/ (x.boot = y.boot /\ x.up < y.up)
NotAfter(x, y) == x.boot < y.boot \/ (x.boot = y.boot /\ x.up <= y.up)

AlarmStates == [active : BOOLEAN, acked : BOOLEAN]
AlarmEvents == [alarm : Alarms, boot : Nat \ {0}, seq : Nat \ {0}, up : Nat, active : BOOLEAN,
                acked : BOOLEAN]
Projections == [boot : Nat, seq : Nat, up : Nat, active : BOOLEAN, acked : BOOLEAN]

IsPanel(dev) ==
  /\ dev = [alarms |-> dev.alarms, boot |-> dev.boot, seq |-> dev.seq, up |-> dev.up, rev |-> dev.rev]
  /\ dev.boot \in 1 .. AlarmMaxBoot /\ dev.up \in 0 .. AlarmMaxUp /\ dev.seq \in Nat
  /\ DOMAIN dev.alarms \subseteq Alarms
  /\ \A a \in DOMAIN dev.alarms : dev.alarms[a] \in AlarmStates
IsList(s) ==
  /\ s.boot \in Nat /\ s.rev \in Nat /\ s.up \in Nat /\ DOMAIN s.items \subseteq Alarms
  /\ \A a \in DOMAIN s.items : s.items[a] \in AlarmStates

AlarmTyped ==
  /\ IsPanel(panel) /\ panel.rev = Len(evlog)
  /\ evlog \in Seq(AlarmEvents) /\ Len(evlog) <= AlarmMaxEvents
  /\ lane \in Seq(Nat) /\ \A k \in 1 .. Len(lane) : lane[k] \in 1 .. Len(evlog)
  /\ leftover \in Seq(Nat) /\ \A k \in 1 .. Len(leftover) : leftover[k] \in 1 .. Len(evlog)
  /\ filled \in 0 .. Len(evlog) /\ seen \subseteq 1 .. Len(evlog)
  /\ proj \in [Alarms -> Projections]
  /\ IsList(latest) /\ IsList(reading.list)
  /\ reading = [stage |-> reading.stage, list |-> reading.list]
  /\ reading.stage \in {"idle", "asked", "served", "held"}

(* The log of the device: in the order of its clock, each event with all   *)
(* that was so of its alarm, the last one of an alarm as it is now.        *)
LogSound(dev, log) ==
  /\ \A i \in 1 .. Len(log) :
       /\ log[i].alarm \in DOMAIN dev.alarms /\ Below(log[i], dev.alarms[log[i].alarm])
       /\ NotAfter(log[i], dev) /\ (log[i].boot = dev.boot => log[i].seq <= dev.seq)
  /\ \A i, j \in 1 .. Len(log) : i < j =>
       /\ NotAfter(log[i], log[j]) /\ (log[i].boot = log[j].boot => log[i].seq < log[j].seq)
       /\ log[i].alarm = log[j].alarm => Below(log[i], log[j])
  /\ \A a \in DOMAIN dev.alarms :
       \E i \in 1 .. Len(log) : log[i].alarm = a /\ Below(dev.alarms[a], log[i])

(* A list says of each alarm raised until its revision what was so then;   *)
(* of one that it leaves out, that nothing can change any more.            *)
Word(s, a) == IF a \in DOMAIN s.items THEN s.items[a] ELSE Absent
ListSound(s, dev, log) ==
  /\ NotAfter(s, dev) /\ s.rev <= Len(log)
  /\ \A i \in 1 .. Len(log) : IF i <= s.rev THEN NotAfter(log[i], s) ELSE NotAfter(s, log[i])
  /\ \A a \in DOMAIN s.items : \E i \in 1 .. s.rev : log[i].alarm = a
  /\ \A i \in 1 .. s.rev : /\ Below(log[i], Word(s, log[i].alarm))
                           /\ log[i].alarm \in DOMAIN dev.alarms
                           /\ Below(Word(s, log[i].alarm), dev.alarms[log[i].alarm])

(* A projection knows of its alarm what events up to its own clock said,   *)
(* or up to the event it had last, and no more than is so.                 *)
Reached(e, p) == Before(e, p) \/ (e.boot = p.boot /\ p.seq # NoSeq /\ e.seq <= p.seq)
ProjSound(p, a, dev, log) ==
  /\ a \in DOMAIN dev.alarms /\ Below(p, dev.alarms[a])
  /\ NotAfter(p, dev) /\ (p.boot = dev.boot => p.seq <= dev.seq)
  /\ \E i \in 1 .. Len(log) : log[i].alarm = a /\ NotAfter(log[i], p)
  /\ \A i \in 1 .. Len(log) : log[i].alarm = a /\ Reached(log[i], p) => Below(log[i], p)

AlarmsProjected ==
  \A a \in Alarms : Exists(proj[a]) =>
    /\ ProjSound(proj[a], a, panel, evlog)
    /\ a \notin late => latest.boot <= proj[a].boot

(* What was ingested is in the projection, unless a frame of an earlier    *)
(* boot set the projection's clock back behind the latest list.            *)
Ingested ==
  \A i \in seen : evlog[i].alarm \notin late =>
    Exists(proj[evlog[i].alarm]) /\ Below(evlog[i], proj[evlog[i].alarm])

(* Live events are of this boot; after the status check so is the latest   *)
(* archived list.                                                          *)
ThisBoot ==
  /\ \A k \in 1 .. Len(lane) : evlog[lane[k]].boot = panel.boot
  /\ reading.stage \in {"served", "held"} => reading.list.boot = panel.boot
  /\ checked => latest.boot = panel.boot
  /\ held.boot = IF reading.stage = "held" THEN reading.list.boot ELSE latest.boot

AlarmInv ==
  /\ AlarmTyped /\ LogSound(panel, evlog)
  /\ ListSound(latest, panel, evlog) /\ ListSound(reading.list, panel, evlog)
  /\ AlarmsProjected /\ Ingested /\ ThisBoot
-----------------------------------------------------------------------------
(* What steps of the device keep.                                          *)

(* One state of the device and its log follows another: nothing is taken   *)
(* back, and what is logged anew has the clock and a number after the last.*)
Ahead(dev, log, dev2, log2) ==
  /\ DOMAIN dev.alarms \subseteq DOMAIN dev2.alarms
  /\ \A a \in DOMAIN dev.alarms : Below(dev.alarms[a], dev2.alarms[a])
  /\ NotAfter(dev, dev2) /\ (dev.boot = dev2.boot => dev.seq <= dev2.seq)
  /\ Len(log) <= Len(log2) /\ \A i \in 1 .. Len(log) : log2[i] = log[i]
  /\ \A i \in 1 .. Len(log2) : i > Len(log) =>
       NotAfter(dev, log2[i]) /\ (log2[i].boot = dev.boot => log2[i].seq > dev.seq)

LEMMA EventIs ==
  ASSUME NEW log \in Seq(AlarmEvents), NEW i \in 1 .. Len(log)
  PROVE  /\ log[i].boot \in Nat \ {0} /\ log[i].up \in Nat /\ log[i].seq \in Nat \ {0}
         /\ log[i].alarm \in Alarms
<1>1. log[i] \in AlarmEvents
  OBVIOUS
<1>2. QED
  BY <1>1 DEF AlarmEvents

LEMMA NeverAfter ==
  ASSUME NEW x, x.boot \in Nat, x.up \in Nat, NEW y, y.boot \in Nat, y.up \in Nat,
         NEW z, z.boot \in Nat, z.up \in Nat, NotAfter(x, y), NotAfter(y, z)
  PROVE  NotAfter(x, z) /\ ~Before(z, x) /\ (z.boot = x.boot => y.boot = x.boot)
<1>1. x.boot <= y.boot /\ y.boot <= z.boot
  BY DEF NotAfter
<1>2. CASE x.boot < y.boot \/ y.boot < z.boot
  <2>1. x.boot < z.boot
    BY <1>1, <1>2
  <2>2. QED
    BY <1>2, <2>1 DEF NotAfter, Before
<1>3. CASE x.boot = y.boot /\ y.boot = z.boot
  <2>1. x.up <= y.up /\ y.up <= z.up
    BY <1>3 DEF NotAfter
  <2>2. x.up <= z.up
    BY <2>1
  <2>3. QED
    BY <1>3, <2>2 DEF NotAfter, Before
<1>4. QED
  BY <1>1, <1>2, <1>3

LEMMA ListGrows ==
  ASSUME NEW dev, NEW log \in Seq(AlarmEvents), NEW dev2, NEW log2 \in Seq(AlarmEvents),
         IsPanel(dev), IsPanel(dev2), Ahead(dev, log, dev2, log2),
         NEW s, IsList(s), ListSound(s, dev, log)
  PROVE  ListSound(s, dev2, log2)
<1>1. /\ dev.boot \in Nat /\ dev.up \in Nat /\ dev.seq \in Nat
      /\ dev2.boot \in Nat /\ dev2.up \in Nat /\ dev2.seq \in Nat
      /\ s.boot \in Nat /\ s.up \in Nat /\ s.rev \in Nat
      /\ Len(log) \in Nat /\ Len(log2) \in Nat
  BY AlarmAssumption DEF IsPanel, IsList
<1>2. \A i \in 1 .. Len(log2) : /\ log2[i].boot \in Nat /\ log2[i].up \in Nat
                                /\ log2[i].seq \in Nat
  BY EventIs
<1>3. NotAfter(s, dev2) /\ s.rev <= Len(log2)
  <2>1. NotAfter(s, dev) /\ s.rev <= Len(log)
    BY DEF ListSound
  <2>2. NotAfter(dev, dev2) /\ Len(log) <= Len(log2)
    BY DEF Ahead
  <2>3. QED
    BY <1>1, <2>1, <2>2 DEF NotAfter
<1>4. ASSUME NEW i \in 1 .. Len(log2)
      PROVE  IF i <= s.rev THEN NotAfter(log2[i], s) ELSE NotAfter(s, log2[i])
  <2>1. CASE i <= Len(log)
    BY <1>1, <2>1 DEF ListSound, Ahead
  <2>2. CASE i > Len(log)
    <3>1. NotAfter(dev, log2[i]) /\ NotAfter(s, dev)
      BY <2>2 DEF Ahead, ListSound
    <3>2. ~(i <= s.rev)
      BY <1>1, <2>2 DEF ListSound
    <3>3. NotAfter(s, log2[i])
      <4>1. log2[i].boot \in Nat /\ log2[i].up \in Nat
        BY <1>2
      <4>2. QED
        BY <1>1, <3>1, <4>1, NeverAfter
    <3>4. QED
      BY <3>2, <3>3
  <2>3. QED
    BY <1>1, <2>1, <2>2
<1>5. \A i \in 1 .. s.rev : i \in 1 .. Len(log) /\ log2[i] = log[i]
  BY <1>1 DEF ListSound, Ahead
<1>6. \A a \in DOMAIN s.items : \E i \in 1 .. s.rev : log2[i].alarm = a
  BY <1>5 DEF ListSound
<1>7. ASSUME NEW i \in 1 .. s.rev
      PROVE  /\ Below(log2[i], Word(s, log2[i].alarm)) /\ log2[i].alarm \in DOMAIN dev2.alarms
             /\ Below(Word(s, log2[i].alarm), dev2.alarms[log2[i].alarm])
  <2>1. /\ Below(log[i], Word(s, log[i].alarm)) /\ log[i].alarm \in DOMAIN dev.alarms
        /\ Below(Word(s, log[i].alarm), dev.alarms[log[i].alarm])
        /\ log[i].alarm \in DOMAIN dev2.alarms
        /\ Below(dev.alarms[log[i].alarm], dev2.alarms[log[i].alarm])
    BY DEF ListSound, Ahead
  <2>2. QED
    BY <1>5, <2>1 DEF Below
<1>8. QED
  BY <1>3, <1>4, <1>6, <1>7 DEF ListSound

LEMMA ProjGrows ==
  ASSUME NEW dev, NEW log \in Seq(AlarmEvents), NEW dev2, NEW log2 \in Seq(AlarmEvents),
         IsPanel(dev), IsPanel(dev2), Ahead(dev, log, dev2, log2),
         NEW p \in Projections, NEW a, ProjSound(p, a, dev, log)
  PROVE  ProjSound(p, a, dev2, log2)
<1>1. /\ dev.boot \in Nat /\ dev.up \in Nat /\ dev.seq \in Nat
      /\ dev2.boot \in Nat /\ dev2.up \in Nat /\ dev2.seq \in Nat
      /\ p.boot \in Nat /\ p.up \in Nat /\ p.seq \in Nat
      /\ Len(log) \in Nat /\ Len(log2) \in Nat
  BY AlarmAssumption DEF IsPanel, Projections
<1>2. \A i \in 1 .. Len(log2) : /\ log2[i].boot \in Nat /\ log2[i].up \in Nat
                                /\ log2[i].seq \in Nat
  BY EventIs
<1>3. a \in DOMAIN dev2.alarms /\ Below(p, dev2.alarms[a])
  BY DEF ProjSound, Ahead, Below
<1>4. NotAfter(p, dev2) /\ (p.boot = dev2.boot => p.seq <= dev2.seq)
  <2>1. NotAfter(p, dev) /\ (p.boot = dev.boot => p.seq <= dev.seq)
    BY DEF ProjSound
  <2>2. NotAfter(dev, dev2) /\ (dev.boot = dev2.boot => dev.seq <= dev2.seq)
    BY DEF Ahead
  <2>3. NotAfter(p, dev2) /\ (p.boot = dev2.boot => dev.boot = p.boot)
    BY <1>1, <2>1, <2>2, NeverAfter
  <2>4. QED
    BY <1>1, <2>1, <2>2, <2>3
<1>5. \E i \in 1 .. Len(log2) : log2[i].alarm = a /\ NotAfter(log2[i], p)
  BY <1>1 DEF ProjSound, Ahead
<1>6. ASSUME NEW i \in 1 .. Len(log2), log2[i].alarm = a, Reached(log2[i], p)
      PROVE  Below(log2[i], p)
  <2>1. CASE i <= Len(log)
    BY <1>1, <1>6, <2>1 DEF ProjSound, Ahead
  <2>2. CASE i > Len(log)
    <3>1. NotAfter(dev, log2[i]) /\ (log2[i].boot = dev.boot => log2[i].seq > dev.seq)
      BY <2>2 DEF Ahead
    <3>2. NotAfter(p, dev) /\ (p.boot = dev.boot => p.seq <= dev.seq)
      BY DEF ProjSound
    <3>3. log2[i].boot \in Nat /\ log2[i].up \in Nat /\ log2[i].seq \in Nat
      BY <1>2
    <3>4. ~Before(log2[i], p) /\ (log2[i].boot = p.boot => dev.boot = p.boot)
      BY <1>1, <3>1, <3>2, <3>3, NeverAfter
    <3>5. ~(log2[i].boot = p.boot /\ log2[i].seq <= p.seq)
      BY <1>1, <3>1, <3>2, <3>3, <3>4
    <3>6. QED
      BY <1>6, <3>4, <3>5 DEF Reached
  <2>3. QED
    BY <1>1, <2>1, <2>2
<1>7. QED
  BY <1>3, <1>4, <1>5, <1>6 DEF ProjSound

-----------------------------------------------------------------------------
(* What the archive makes of an event, and of a list.                      *)

EventTaken(b, e)   == [Applied(b, e) EXCEPT !.boot = e.boot, !.seq = e.seq, !.up = e.up]
ListTaken(b, s, a) == [Applied(b, Word(s, a)) EXCEPT !.boot = s.boot, !.up = s.up, !.seq = NoSeq]

LEMMA ToldIs ==
  ASSUME IsPanel(panel), evlog \in Seq(AlarmEvents), LogSound(panel, evlog),
         NEW i \in 1 .. Len(evlog), NEW b \in Projections, Below(b, panel.alarms[evlog[i].alarm])
  PROVE  /\ EventTaken(b, evlog[i]) \in Projections /\ Exists(EventTaken(b, evlog[i]))
              /\ EventTaken(b, evlog[i]).boot = evlog[i].boot
                   /\ EventTaken(b, evlog[i]).up = evlog[i].up
         /\ ProjSound(EventTaken(b, evlog[i]), evlog[i].alarm, panel, evlog)
         /\ Below(evlog[i], EventTaken(b, evlog[i])) /\ Below(b, EventTaken(b, evlog[i]))
<1> DEFINE e == evlog[i]
           a == e.alarm
           t == EventTaken(b, e)
<1>1. e \in AlarmEvents
  OBVIOUS
<1>2. /\ t \in Projections /\ t.boot = e.boot /\ t.seq = e.seq /\ t.up = e.up
      /\ t.active = (b.active /\ e.active) /\ t.acked = (b.acked \/ e.acked)
  BY <1>1 DEF EventTaken, Applied, Projections, AlarmEvents
<1> HIDE DEF t
<1>3. e.boot \in Nat \ {0} /\ e.seq \in Nat \ {0} /\ e.up \in Nat
  BY <1>1 DEF AlarmEvents
<1>4. /\ a \in DOMAIN panel.alarms /\ Below(e, panel.alarms[a])
      /\ NotAfter(e, panel) /\ (e.boot = panel.boot => e.seq <= panel.seq)
  BY DEF LogSound
<1>5. Below(t, panel.alarms[a]) /\ Below(e, t) /\ Below(b, t)
  BY <1>2, <1>4 DEF Below
<1>6. NotAfter(t, panel) /\ (t.boot = panel.boot => t.seq <= panel.seq) /\ NotAfter(e, t)
  BY <1>2, <1>3, <1>4 DEF NotAfter
<1>7. ASSUME NEW j \in 1 .. Len(evlog), evlog[j].alarm = a, Reached(evlog[j], t)
      PROVE  Below(evlog[j], t)
  <2>1. evlog[j].boot \in Nat /\ evlog[j].up \in Nat /\ evlog[j].seq \in Nat
    BY EventIs
  <2>2. ~(i < j)
    <3>1. i < j => NotAfter(e, evlog[j]) /\ (e.boot = evlog[j].boot => e.seq < evlog[j].seq)
      BY DEF LogSound
    <3>2. QED
      BY <1>2, <1>3, <1>7, <2>1, <3>1 DEF Reached, Before, NotAfter
  <2>3. j < i => Below(evlog[j], e)
    BY <1>7 DEF LogSound
  <2>4. CASE j = i
    BY <1>5, <2>4
  <2>5. CASE j < i
    BY <1>5, <2>3, <2>5 DEF Below
  <2>6. QED
    BY <2>2, <2>4, <2>5
<1>8. Exists(t)
  BY <1>2, <1>3 DEF Exists
<1>9. QED
  BY <1>2, <1>4, <1>5, <1>6, <1>7, <1>8 DEF ProjSound, t

LEMMA TakenIs ==
  ASSUME IsPanel(panel), evlog \in Seq(AlarmEvents), LogSound(panel, evlog),
         NEW s, IsList(s), ListSound(s, panel, evlog), s.boot # 0,
         NEW a, NEW i \in 1 .. s.rev, evlog[i].alarm = a,
         NEW b \in Projections, Below(b, panel.alarms[a])
  PROVE  /\ ListTaken(b, s, a) \in Projections /\ Exists(ListTaken(b, s, a))
              /\ ListTaken(b, s, a).boot = s.boot
         /\ ProjSound(ListTaken(b, s, a), a, panel, evlog) /\ Below(b, ListTaken(b, s, a))
<1> DEFINE w == Word(s, a)
           t == ListTaken(b, s, a)
<1>1. w \in AlarmStates
  BY DEF Word, IsList, AlarmStates, Absent
<1>2. s.boot \in Nat /\ s.up \in Nat /\ s.rev \in Nat /\ s.rev <= Len(evlog) /\ Len(evlog) \in Nat
  BY DEF IsList, ListSound
<1> HIDE DEF w
<1>3. /\ t \in Projections /\ t.boot = s.boot /\ t.seq = 0 /\ t.up = s.up
      /\ t.active = (b.active /\ w.active) /\ t.acked = (b.acked \/ w.acked)
  BY <1>1, <1>2 DEF ListTaken, Applied, Projections, AlarmStates, NoSeq, w
<1> HIDE DEF t
<1>4. a \in DOMAIN panel.alarms /\ Below(w, panel.alarms[a])
  BY DEF ListSound, w
<1>5. Below(t, panel.alarms[a]) /\ Below(w, t) /\ Below(b, t)
  BY <1>3, <1>4 DEF Below
<1>6. panel.boot \in Nat /\ panel.up \in Nat /\ panel.seq \in Nat
  BY AlarmAssumption DEF IsPanel
<1>7. NotAfter(t, panel) /\ (t.boot = panel.boot => t.seq <= panel.seq)
  BY <1>2, <1>3, <1>6 DEF NotAfter, ListSound
<1>8. i \in 1 .. Len(evlog) /\ NotAfter(evlog[i], t)
  BY <1>2, <1>3 DEF NotAfter, ListSound
<1>9. ASSUME NEW j \in 1 .. Len(evlog), evlog[j].alarm = a, Reached(evlog[j], t)
      PROVE  Below(evlog[j], t)
  <2>1. evlog[j].boot \in Nat /\ evlog[j].up \in Nat
    BY EventIs
  <2>2. j <= s.rev
    <3>1. ~(j <= s.rev) => NotAfter(s, evlog[j])
      BY DEF ListSound
    <3>2. QED
      BY <1>2, <1>3, <1>9, <2>1, <3>1 DEF Reached, Before, NotAfter, NoSeq
  <2>3. Below(evlog[j], w)
    BY <1>2, <1>9, <2>2 DEF ListSound, w
  <2>4. QED
    BY <1>5, <2>3 DEF Below
<1>10. QED
  BY <1>3, <1>4, <1>5, <1>7, <1>8, <1>9 DEF ProjSound, Exists, t
-----------------------------------------------------------------------------
(* Steps of the device, and of the connection.                             *)

LEMMA NumbersOf ==
  ASSUME NEW dev, IsPanel(dev) PROVE dev.boot \in Nat \ {0} /\ dev.up \in Nat /\ dev.seq \in Nat
BY AlarmAssumption DEF IsPanel

(* The archive of a host that does nothing stays sound as the device goes  *)
(* on.                                                                     *)
LEMMA HostWaits ==
  ASSUME AlarmInv, IsPanel(panel'), evlog' \in Seq(AlarmEvents), Ahead(panel, evlog, panel', evlog'),
         UNCHANGED <<seen, proj, latest, late>>
  PROVE  ListSound(latest, panel, evlog)' /\ AlarmsProjected' /\ Ingested'
<1>1. ListSound(latest, panel', evlog')
  BY ListGrows DEF AlarmInv, AlarmTyped
<1>2. ASSUME NEW a \in Alarms, Exists(proj[a])
      PROVE  ProjSound(proj[a], a, panel', evlog') /\ (a \notin late => latest.boot <= proj[a].boot)
  BY <1>2, ProjGrows DEF AlarmInv, AlarmTyped, AlarmsProjected
<1>3. AlarmsProjected'
  BY <1>2 DEF AlarmsProjected
<1>4. \A i \in seen : i \in 1 .. Len(evlog) /\ evlog'[i] = evlog[i]
  BY DEF AlarmInv, AlarmTyped, Ahead
<1>5. Ingested'
  BY <1>4 DEF AlarmInv, Ingested
<1>6. QED
  BY <1>1, <1>3, <1>5

LEMMA NoteKeeps ==
  ASSUME AlarmInv, NEW a \in Alarms, NEW state \in AlarmStates,
         a \in DOMAIN panel.alarms => Below(panel.alarms[a], state), Note(a, state)
  PROVE  AlarmInv'
<1> DEFINE n == Len(evlog)
           put == [b \in DOMAIN panel.alarms \cup {a} |-> IF b = a THEN state ELSE panel.alarms[b]]
           e == [alarm |-> a, boot |-> panel.boot, seq |-> panel.seq + 1, up |-> panel.up,
                 active |-> state.active, acked |-> state.acked]
<1>1. /\ n \in Nat /\ n < AlarmMaxEvents /\ IsPanel(panel) /\ evlog \in Seq(AlarmEvents)
      /\ panel' = [panel EXCEPT !.alarms = put, !.rev = @ + 1, !.seq = @ + 1]
      /\ evlog' = Append(evlog, e) /\ lane' = Append(lane, n + 1)
      /\ UNCHANGED <<leftover, filled, seen, proj, latest, held, reading, checked, late>>
  BY DEF Note, host, AlarmInv, AlarmTyped
<1>2. panel.boot \in Nat \ {0} /\ panel.up \in Nat /\ panel.seq \in Nat
  BY <1>1, NumbersOf
<1>3. e \in AlarmEvents
  BY <1>2 DEF AlarmEvents, AlarmStates
<1>4. /\ evlog' \in Seq(AlarmEvents) /\ Len(evlog') = n + 1 /\ evlog'[n + 1] = e
      /\ \A i \in 1 .. n : evlog'[i] = evlog[i]
  BY <1>1, <1>3
<1>5. /\ panel'.boot = panel.boot /\ panel'.up = panel.up /\ panel'.seq = panel.seq + 1
      /\ panel'.rev = n + 1 /\ panel'.alarms = put
      /\ panel' = [alarms |-> panel'.alarms, boot |-> panel'.boot, seq |-> panel'.seq,
                   up |-> panel'.up, rev |-> panel'.rev]
  BY <1>1 DEF AlarmInv, AlarmTyped, IsPanel
<1>6. /\ DOMAIN panel'.alarms = DOMAIN panel.alarms \cup {a} /\ panel'.alarms[a] = state
      /\ \A b \in DOMAIN panel.alarms : b # a => panel'.alarms[b] = panel.alarms[b]
  BY <1>5
<1>7. IsPanel(panel')
  BY <1>1, <1>2, <1>5, <1>6 DEF IsPanel
<1>8. \A b \in DOMAIN panel.alarms : Below(panel.alarms[b], panel'.alarms[b])
  BY <1>6 DEF Below
<1> HIDE DEF n, e, put
<1>9. /\ e.alarm = a /\ e.boot = panel.boot /\ e.up = panel.up /\ e.seq = panel.seq + 1
      /\ Below(e, state) /\ Below(state, e)
  BY DEF e, Below
<1>10. Ahead(panel, evlog, panel', evlog')
  <2>1. \A i \in 1 .. Len(evlog') : i > Len(evlog) => i = n + 1
    BY <1>1, <1>4 DEF n
  <2>2. NotAfter(panel, e) /\ e.seq > panel.seq
    BY <1>2, <1>9 DEF NotAfter
  <2>3. NotAfter(panel, panel') /\ panel.seq <= panel'.seq /\ Len(evlog) <= Len(evlog')
    BY <1>1, <1>2, <1>4, <1>5 DEF NotAfter, n
  <2>4. QED
    BY <1>4, <1>6, <1>8, <2>1, <2>2, <2>3 DEF Ahead, n
<1>11. AlarmTyped'
  <2>1. Len(evlog') <= AlarmMaxEvents /\ panel'.rev = Len(evlog')
    BY <1>1, <1>4, <1>5, AlarmAssumption
  <2>2. lane' \in Seq(Nat) /\ \A k \in 1 .. Len(lane') : lane'[k] \in 1 .. Len(evlog')
    BY <1>1, <1>4 DEF AlarmInv, AlarmTyped, n
  <2>3. leftover' \in Seq(Nat) /\ \A k \in 1 .. Len(leftover') : leftover'[k] \in 1 .. Len(evlog')
    BY <1>1, <1>4 DEF AlarmInv, AlarmTyped, n
  <2>4. filled' \in 0 .. Len(evlog') /\ seen' \subseteq 1 .. Len(evlog')
    BY <1>1, <1>4 DEF AlarmInv, AlarmTyped, n
  <2>5. QED
    BY <1>1, <1>4, <1>7, <2>1, <2>2, <2>3, <2>4 DEF AlarmInv, AlarmTyped
<1>12. LogSound(panel', evlog')
  <2>1. ASSUME NEW i \in 1 .. n
        PROVE  /\ evlog[i].alarm \in DOMAIN panel.alarms
               /\ Below(evlog[i], panel.alarms[evlog[i].alarm])
               /\ NotAfter(evlog[i], panel) /\ (evlog[i].boot = panel.boot => evlog[i].seq <= panel.seq)
               /\ evlog[i].boot \in Nat /\ evlog[i].up \in Nat /\ evlog[i].seq \in Nat
    BY <1>1, EventIs DEF AlarmInv, LogSound, n
  <2>2. ASSUME NEW i \in 1 .. n + 1
        PROVE  /\ evlog'[i].alarm \in DOMAIN panel'.alarms
               /\ Below(evlog'[i], panel'.alarms[evlog'[i].alarm])
               /\ NotAfter(evlog'[i], panel')
               /\ evlog'[i].boot = panel'.boot => evlog'[i].seq <= panel'.seq
    <3>1. CASE i = n + 1
      BY <1>2, <1>4, <1>5, <1>6, <1>9, <3>1 DEF NotAfter
    <3>2. CASE i # n + 1
      <4>1. i \in 1 .. n /\ evlog'[i] = evlog[i]
        BY <1>1, <1>4, <3>2
      <4>2. Below(evlog[i], panel'.alarms[evlog[i].alarm])
        BY <1>8, <2>1, <4>1 DEF Below
      <4>3. QED
        BY <1>2, <1>5, <1>6, <2>1, <4>1, <4>2 DEF NotAfter
    <3>3. QED
      BY <3>1, <3>2
  <2>3. ASSUME NEW i \in 1 .. n + 1, NEW j \in 1 .. n + 1, i < j
        PROVE  /\ NotAfter(evlog'[i], evlog'[j])
               /\ evlog'[i].boot = evlog'[j].boot => evlog'[i].seq < evlog'[j].seq
               /\ evlog'[i].alarm = evlog'[j].alarm => Below(evlog'[i], evlog'[j])
    <3>1. i \in 1 .. n /\ evlog'[i] = evlog[i]
      BY <1>1, <1>4, <2>3
    <3>2. CASE j = n + 1
      <4>1. NotAfter(evlog[i], e) /\ (evlog[i].boot = e.boot => evlog[i].seq < e.seq)
        BY <1>2, <1>9, <2>1, <3>1 DEF NotAfter
      <4>2. evlog[i].alarm = a => Below(evlog[i], e)
        BY <1>9, <2>1, <3>1 DEF Below
      <4>3. QED
        BY <1>4, <1>9, <3>1, <3>2, <4>1, <4>2
    <3>3. CASE j # n + 1
      <4>1. j \in 1 .. n /\ evlog'[j] = evlog[j]
        BY <1>1, <1>4, <3>3
      <4>2. QED
        BY <2>3, <3>1, <4>1 DEF AlarmInv, LogSound, n
    <3>4. QED
      BY <3>2, <3>3
  <2>4. ASSUME NEW b \in DOMAIN panel'.alarms
        PROVE  \E i \in 1 .. n + 1 : evlog'[i].alarm = b /\ Below(panel'.alarms[b], evlog'[i])
    <3>1. CASE b = a
      <4>1. n + 1 \in 1 .. n + 1
        BY <1>1
      <4>2. QED
        BY <1>4, <1>6, <1>9, <3>1, <4>1
    <3>2. CASE b # a
      <4>1. PICK i \in 1 .. n : evlog[i].alarm = b /\ Below(panel.alarms[b], evlog[i])
        BY <1>6, <3>2 DEF AlarmInv, LogSound, n
      <4>2. i \in 1 .. n + 1 /\ evlog'[i] = evlog[i] /\ panel'.alarms[b] = panel.alarms[b]
        BY <1>1, <1>4, <1>6, <3>2
      <4>3. QED
        BY <4>1, <4>2
    <3>3. QED
      BY <3>1, <3>2
  <2>5. QED
    BY <1>4, <2>2, <2>3, <2>4 DEF LogSound
<1>13. ListSound(latest, panel, evlog)' /\ AlarmsProjected' /\ Ingested'
  BY <1>1, <1>4, <1>7, <1>10, HostWaits
<1>14. ListSound(reading.list, panel, evlog)'
  <2>1. IsList(reading.list) /\ ListSound(reading.list, panel, evlog)
    BY DEF AlarmInv, AlarmTyped
  <2>2. evlog \in Seq(AlarmEvents) /\ evlog' \in Seq(AlarmEvents) /\ IsPanel(panel)
    BY <1>1, <1>4
  <2>3. ListSound(reading.list, panel', evlog')
    BY <1>7, <1>10, <2>1, <2>2, ListGrows
  <2>4. reading' = reading
    BY <1>1
  <2>5. QED
    BY <2>3, <2>4
<1>15. ThisBoot'
  <2>1. \A k \in 1 .. Len(lane') : evlog'[lane'[k]].boot = panel'.boot
    <3>1. SUFFICES ASSUME NEW k \in 1 .. Len(lane') PROVE evlog'[lane'[k]].boot = panel'.boot
      OBVIOUS
    <3>2. lane \in Seq(Nat) /\ Len(lane) \in Nat
      BY DEF AlarmInv, AlarmTyped
    <3>3. CASE k = Len(lane) + 1
      BY <1>1, <1>4, <1>5, <1>9, <3>2, <3>3 DEF n
    <3>4. CASE k # Len(lane) + 1
      <4>1. k \in 1 .. Len(lane) /\ lane'[k] = lane[k]
        BY <1>1, <3>2, <3>4
      <4>2. lane[k] \in 1 .. n /\ evlog[lane[k]].boot = panel.boot
        BY <4>1 DEF AlarmInv, AlarmTyped, ThisBoot, n
      <4>3. QED
        BY <1>4, <1>5, <4>1, <4>2
    <3>5. QED
      BY <3>3, <3>4
  <2>2. QED
    BY <1>1, <1>5, <2>1 DEF AlarmInv, ThisBoot
<1>16. QED
  BY <1>11, <1>12, <1>13, <1>14, <1>15 DEF AlarmInv

LEMMA RaiseKeeps == ASSUME AlarmInv, NEW a \in Alarms, Raise(a) PROVE AlarmInv'
BY NoteKeeps DEF Raise, AlarmStates

LEMMA TransitionKeeps ==
  ASSUME AlarmInv, NEW a \in Alarms, NEW t \in {"cleared", "acknowledged"}, Transition(a, t)
  PROVE  AlarmInv'
<1>1. a \in DOMAIN panel.alarms /\ panel.alarms[a] \in AlarmStates
  BY DEF Transition, AlarmInv, AlarmTyped, IsPanel
<1>2. /\ [panel.alarms[a] EXCEPT !.active = FALSE] \in AlarmStates
      /\ [panel.alarms[a] EXCEPT !.acked = TRUE] \in AlarmStates
      /\ Below(panel.alarms[a], [panel.alarms[a] EXCEPT !.active = FALSE])
      /\ Below(panel.alarms[a], [panel.alarms[a] EXCEPT !.acked = TRUE])
  BY <1>1 DEF AlarmStates, Below
<1>3. QED
  BY <1>2, NoteKeeps DEF Transition
(* A list of nothing, before the first.                                    *)
LEMMA NoListSound ==
  ASSUME NEW dev, IsPanel(dev), NEW log \in Seq(AlarmEvents)
  PROVE  IsList(NoList) /\ ListSound(NoList, dev, log) /\ NoList.boot = 0
<1>1. /\ NoList.boot = 0 /\ NoList.rev = 0 /\ NoList.up = 0 /\ DOMAIN NoList.items = {}
  BY DEF NoList
<1>2. \A i \in 1 .. Len(log) : log[i].boot \in Nat \ {0}
  BY EventIs
<1>3. Len(log) \in Nat /\ dev.boot \in Nat \ {0}
  BY NumbersOf
<1>4. \A i \in 1 .. Len(log) : ~(i <= 0) /\ 0 < log[i].boot
  BY <1>2, <1>3
<1>5. QED
  BY <1>1, <1>3, <1>4 DEF IsList, ListSound, NotAfter

LEMMA AheadStays ==
  ASSUME NEW dev, IsPanel(dev), NEW log \in Seq(AlarmEvents), NEW dev2, IsPanel(dev2),
         dev2.alarms = dev.alarms, NotAfter(dev, dev2), dev.boot = dev2.boot => dev.seq = dev2.seq
  PROVE  /\ Ahead(dev, log, dev2, log)
         /\ LogSound(dev, log) => LogSound(dev2, log)
<1>1. dev.boot \in Nat /\ dev.up \in Nat /\ dev.seq \in Nat
  BY NumbersOf
<1>2. dev2.boot \in Nat /\ dev2.up \in Nat /\ dev2.seq \in Nat
  BY NumbersOf
<1>3. Ahead(dev, log, dev2, log)
  <2>1. Len(log) \in Nat
    OBVIOUS
  <2>2. QED
    BY <1>1, <1>2, <2>1 DEF Ahead, Below
<1>4. ASSUME LogSound(dev, log), NEW i \in 1 .. Len(log)
      PROVE  /\ NotAfter(log[i], dev2) /\ (log[i].boot = dev2.boot => log[i].seq <= dev2.seq)
  <2>1. NotAfter(log[i], dev) /\ (log[i].boot = dev.boot => log[i].seq <= dev.seq)
    BY <1>4 DEF LogSound
  <2>2. log[i].boot \in Nat /\ log[i].up \in Nat /\ log[i].seq \in Nat
    BY EventIs
  <2>3. QED
    BY <1>1, <1>2, <2>1, <2>2 DEF NotAfter
<1>5. QED
  BY <1>3, <1>4 DEF LogSound

LEMMA UptimeGrowsKeeps == ASSUME AlarmInv, UptimeGrows PROVE AlarmInv'
<1>1. /\ IsPanel(panel) /\ evlog \in Seq(AlarmEvents) /\ panel.up < AlarmMaxUp
      /\ panel' = [panel EXCEPT !.up = @ + 1]
      /\ UNCHANGED <<evlog, lane, leftover, filled, seen, proj, latest, held, reading, checked, late>>
  BY DEF UptimeGrows, host, AlarmInv, AlarmTyped
<1>2. panel.boot \in Nat /\ panel.up \in Nat /\ panel.seq \in Nat
  BY <1>1, NumbersOf
<1>3. /\ panel'.boot = panel.boot /\ panel'.up = panel.up + 1 /\ panel'.seq = panel.seq
      /\ panel'.rev = panel.rev /\ panel'.alarms = panel.alarms /\ IsPanel(panel')
  BY <1>1, <1>2, AlarmAssumption DEF IsPanel
<1>4. Ahead(panel, evlog, panel', evlog') /\ LogSound(panel', evlog')
  <2>1. NotAfter(panel, panel')
    BY <1>2, <1>3 DEF NotAfter
  <2>2. LogSound(panel, evlog)
    BY DEF AlarmInv
  <2>3. IsPanel(panel) /\ IsPanel(panel') /\ evlog \in Seq(AlarmEvents)
    BY <1>1, <1>3
  <2>4. panel'.alarms = panel.alarms /\ (panel.boot = panel'.boot => panel.seq = panel'.seq)
    BY <1>3
  <2>5. Ahead(panel, evlog, panel', evlog) /\ LogSound(panel', evlog)
    BY <2>1, <2>2, <2>3, <2>4, AheadStays
  <2>6. evlog' = evlog
    BY <1>1
  <2>7. QED
    BY <2>5, <2>6
<1>5. ListSound(latest, panel, evlog)' /\ AlarmsProjected' /\ Ingested'
  BY <1>1, <1>3, <1>4, HostWaits
<1>6. ListSound(reading.list, panel, evlog)'
  <2>1. IsList(reading.list) /\ ListSound(reading.list, panel, evlog)
    BY DEF AlarmInv, AlarmTyped
  <2>2. ListSound(reading.list, panel', evlog')
    BY <1>1, <1>3, <1>4, <2>1, ListGrows
  <2>3. QED
    BY <1>1, <2>2
<1>7. AlarmTyped'
  BY <1>1, <1>3 DEF AlarmInv, AlarmTyped
<1>8. ThisBoot'
  BY <1>1, <1>3 DEF AlarmInv, ThisBoot
<1>9. QED
  BY <1>4, <1>5, <1>6, <1>7, <1>8 DEF AlarmInv

(* The frames read of a session that ends are those of its lane.           *)
LEMMA QueueKept ==
  ASSUME LoseSession, lane \in Seq(Nat), leftover \in Seq(Nat), NEW n \in Nat,
         \A k \in 1 .. Len(lane) : lane[k] \in 1 .. n,
         \A k \in 1 .. Len(leftover) : leftover[k] \in 1 .. n
  PROVE  leftover' \in Seq(Nat) /\ \A k \in 1 .. Len(leftover') : leftover'[k] \in 1 .. n
<1>1. PICK read \in 0 .. Len(lane) : leftover' = leftover \o SubSeq(lane, 1, read)
  BY DEF LoseSession
<1>2. /\ SubSeq(lane, 1, read) \in Seq(Nat) /\ Len(SubSeq(lane, 1, read)) = read
      /\ \A k \in 1 .. read : SubSeq(lane, 1, read)[k] = lane[k]
  BY <1>1
<1>3. PICK kept \in Seq(Nat) : kept = SubSeq(lane, 1, read)
  BY <1>2
<1>4. Len(kept) = read /\ \A k \in 1 .. read : kept[k] \in 1 .. n
  BY <1>1, <1>2, <1>3
<1>5. leftover' = leftover \o kept
  BY <1>1, <1>3
<1>6. leftover' \in Seq(Nat) /\ Len(leftover') = Len(leftover) + Len(kept)
  BY <1>5
<1>7. ASSUME NEW k \in 1 .. Len(leftover') PROVE leftover'[k] \in 1 .. n
  <2>1. CASE k <= Len(leftover)
    BY <1>5, <2>1
  <2>2. CASE k > Len(leftover)
    <3>1. leftover'[k] = kept[k - Len(leftover)] /\ k - Len(leftover) \in 1 .. Len(kept)
      BY <1>5, <1>6, <2>2
    <3>2. QED
      BY <1>4, <3>1
  <2>3. QED
    BY <1>6, <2>1, <2>2
<1>8. QED
  BY <1>6, <1>7

LEMMA LostKeeps ==
  ASSUME AlarmInv, ~AlarmListLost, LoseSession, IsPanel(panel'), NotAfter(panel, panel'),
         panel'.alarms = panel.alarms, panel'.rev = panel.rev,
         panel.boot = panel'.boot => panel.seq = panel'.seq
  PROVE  AlarmInv'
<1>1. /\ IsPanel(panel) /\ evlog \in Seq(AlarmEvents) /\ reading.stage # "held"
      /\ lane' = <<>> /\ checked' = FALSE /\ reading' = Idle
      /\ UNCHANGED <<evlog, filled, seen, proj, latest, held, late>>
  BY DEF LoseSession, AlarmInv, AlarmTyped
<1>2. Ahead(panel, evlog, panel', evlog') /\ LogSound(panel', evlog')
  BY <1>1, AheadStays DEF AlarmInv
<1>3. ListSound(latest, panel, evlog)' /\ AlarmsProjected' /\ Ingested'
  BY <1>1, <1>2, HostWaits
<1>4. reading'.stage = "idle" /\ reading'.list = NoList
        /\ reading' = [stage |-> "idle", list |-> NoList]
  BY <1>1 DEF Idle
<1>5. IsList(reading'.list) /\ ListSound(reading'.list, panel', evlog')
  BY <1>1, <1>4, NoListSound
<1>6. leftover' \in Seq(Nat) /\ \A k \in 1 .. Len(leftover') : leftover'[k] \in 1 .. Len(evlog')
  <2>1. /\ lane \in Seq(Nat) /\ leftover \in Seq(Nat) /\ Len(evlog) \in Nat
        /\ \A k \in 1 .. Len(lane) : lane[k] \in 1 .. Len(evlog)
        /\ \A k \in 1 .. Len(leftover) : leftover[k] \in 1 .. Len(evlog)
    BY DEF AlarmInv, AlarmTyped
  <2>2. QED
    BY <1>1, <2>1, QueueKept
<1>7. AlarmTyped'
  BY <1>1, <1>4, <1>5, <1>6 DEF AlarmInv, AlarmTyped
<1>8. ThisBoot'
  BY <1>1, <1>4 DEF AlarmInv, ThisBoot
<1>9. QED
  BY <1>2, <1>3, <1>5, <1>7, <1>8 DEF AlarmInv

LEMMA DisconnectKeeps == ASSUME AlarmInv, ~AlarmListLost, Disconnect PROVE AlarmInv'
<1>1. IsPanel(panel) /\ panel' = panel /\ LoseSession
  BY DEF Disconnect, AlarmInv, AlarmTyped
<1>2. NotAfter(panel, panel')
  BY <1>1, NumbersOf DEF NotAfter
<1>3. QED
  BY <1>1, <1>2, LostKeeps

LEMMA RebootKeeps == ASSUME AlarmInv, ~AlarmListLost, Reboot PROVE AlarmInv'
<1>1. /\ IsPanel(panel) /\ panel.boot < AlarmMaxBoot /\ LoseSession
      /\ panel' = [panel EXCEPT !.boot = @ + 1, !.seq = 0, !.up = 0]
  BY DEF Reboot, AlarmInv, AlarmTyped
<1>2. panel.boot \in Nat \ {0}
  BY <1>1, NumbersOf
<1>3. /\ panel'.boot = panel.boot + 1 /\ panel'.alarms = panel.alarms /\ panel'.rev = panel.rev
      /\ IsPanel(panel')
  <2>1. /\ panel'.boot = panel.boot + 1 /\ panel'.seq = 0 /\ panel'.up = 0
        /\ panel'.alarms = panel.alarms /\ panel'.rev = panel.rev
        /\ panel' = [alarms |-> panel'.alarms, boot |-> panel'.boot, seq |-> panel'.seq,
                     up |-> panel'.up, rev |-> panel'.rev]
    BY <1>1 DEF IsPanel
  <2>2. panel.boot + 1 \in 1 .. AlarmMaxBoot /\ 0 \in 0 .. AlarmMaxUp
    BY <1>1, <1>2, AlarmAssumption
  <2>3. QED
    BY <1>1, <2>1, <2>2 DEF IsPanel
<1>4. NotAfter(panel, panel') /\ panel.boot # panel'.boot
  BY <1>2, <1>3 DEF NotAfter
<1>5. QED
  BY <1>1, <1>3, <1>4, LostKeeps

-----------------------------------------------------------------------------
(* Steps of the host.                                                      *)

LEMMA GetStatusKeeps == ASSUME AlarmInv, GetStatus PROVE AlarmInv'
<1>1. /\ reading = Idle
      /\ \/ held = Current /\ checked' = TRUE /\ reading' = reading
         \/ reading' = [stage |-> "asked", list |-> NoList] /\ checked' = checked
      /\ UNCHANGED <<panel, evlog, lane, leftover, filled, seen, proj, latest, held, late>>
  BY DEF GetStatus
<1>2. reading.stage = "idle" /\ reading.list = NoList
  BY <1>1 DEF Idle
<1>3. held = Current => held.boot = panel.boot
  BY DEF Current
<1>4. /\ reading'.stage \in {"idle", "asked"} /\ reading'.list = NoList
      /\ reading' = [stage |-> reading'.stage, list |-> reading'.list]
  BY <1>1 DEF Idle
<1>5. IsList(reading'.list) /\ ListSound(reading'.list, panel', evlog')
  BY <1>1, <1>2, <1>4 DEF AlarmInv, AlarmTyped
<1>6. AlarmTyped'
  BY <1>1, <1>4, <1>5 DEF AlarmInv, AlarmTyped
<1>7. ThisBoot'
  BY <1>1, <1>2, <1>3, <1>4 DEF AlarmInv, ThisBoot
<1>8. AlarmsProjected' /\ Ingested'
  BY <1>1 DEF AlarmInv, AlarmsProjected, Ingested
<1>9. QED
  BY <1>1, <1>5, <1>6, <1>7, <1>8 DEF AlarmInv

LEMMA ServeListKeeps == ASSUME AlarmInv, ServeList PROVE AlarmInv'
<1> DEFINE s == [boot |-> panel.boot, rev |-> panel.rev, up |-> panel.up, items |-> Listed]
<1>1. /\ reading.stage = "asked" /\ IsPanel(panel) /\ evlog \in Seq(AlarmEvents)
      /\ reading' = [stage |-> "served", list |-> s]
      /\ UNCHANGED <<panel, evlog, lane, leftover, filled, seen, proj, latest, held, checked, late>>
  BY DEF ServeList, AlarmInv, AlarmTyped
<1>2. /\ s.boot = panel.boot /\ s.rev = Len(evlog) /\ s.up = panel.up /\ Len(evlog) \in Nat
      /\ panel.boot \in Nat /\ panel.up \in Nat
  BY <1>1, NumbersOf DEF AlarmInv, AlarmTyped
<1>3. /\ DOMAIN s.items = {b \in DOMAIN panel.alarms : panel.alarms[b].active \/ ~panel.alarms[b].acked}
      /\ \A b \in DOMAIN s.items : s.items[b] = panel.alarms[b]
  BY DEF Listed
<1> HIDE DEF s
<1>4. IsList(s)
  BY <1>1, <1>2, <1>3 DEF IsList, IsPanel
<1>5. \A b \in DOMAIN panel.alarms : Below(panel.alarms[b], Word(s, b))
        /\ Below(Word(s, b), panel.alarms[b])
  BY <1>3 DEF Word, Below, Absent
<1>6. ListSound(s, panel, evlog)
  <2>1. NotAfter(s, panel)
    BY <1>2 DEF NotAfter
  <2>2. \A i \in 1 .. Len(evlog) : NotAfter(evlog[i], s)
    BY <1>2 DEF AlarmInv, LogSound, NotAfter
  <2>3. \A b \in DOMAIN s.items : \E i \in 1 .. s.rev : evlog[i].alarm = b
    BY <1>2, <1>3 DEF AlarmInv, LogSound
  <2>4. \A i \in 1 .. Len(evlog) : /\ evlog[i].alarm \in DOMAIN panel.alarms
                                   /\ Below(evlog[i], Word(s, evlog[i].alarm))
    BY <1>5 DEF AlarmInv, LogSound, Below
  <2>5. QED
    BY <1>2, <1>5, <2>1, <2>2, <2>3, <2>4 DEF ListSound
<1>7. reading'.stage = "served" /\ reading'.list = s
  BY <1>1
<1>8. AlarmTyped'
  BY <1>1, <1>4, <1>7 DEF AlarmInv, AlarmTyped
<1>9. ThisBoot'
  BY <1>1, <1>2, <1>7 DEF AlarmInv, ThisBoot
<1>10. AlarmsProjected' /\ Ingested'
  BY <1>1 DEF AlarmInv, AlarmsProjected, Ingested
<1>11. QED
  BY <1>1, <1>6, <1>7, <1>8, <1>9, <1>10 DEF AlarmInv

LEMMA TakeListKeeps == ASSUME AlarmInv, TakeList PROVE AlarmInv'
<1>1. /\ reading.stage = "served" /\ held'.boot = reading.list.boot
      /\ reading' = [reading EXCEPT !.stage = "held"]
      /\ UNCHANGED <<panel, evlog, lane, leftover, filled, seen, proj, latest, checked, late>>
  BY DEF TakeList
<1>2. /\ reading'.stage = "held" /\ reading'.list = reading.list
      /\ reading' = [stage |-> "held", list |-> reading.list]
  BY <1>1 DEF AlarmInv, AlarmTyped
<1>3. AlarmTyped'
  BY <1>1, <1>2 DEF AlarmInv, AlarmTyped
<1>4. ThisBoot'
  BY <1>1, <1>2 DEF AlarmInv, ThisBoot
<1>5. AlarmsProjected' /\ Ingested'
  BY <1>1 DEF AlarmInv, AlarmsProjected, Ingested
<1>6. QED
  BY <1>1, <1>2, <1>3, <1>4, <1>5 DEF AlarmInv
LEMMA FreshIs ==
  ASSUME NEW e, NEW x, Below(e, x) PROVE Fresh \in Projections /\ Below(Fresh, x)
BY DEF Fresh, NoProj, Projections, Below, NoSeq

(* Of what an early return of event() leaves out all is known.             *)
LEMMA OutdatedIsKnown ==
  ASSUME NEW dev, NEW log \in Seq(AlarmEvents), NEW i \in 1 .. Len(log),
         NEW p \in Projections, ProjSound(p, log[i].alarm, dev, log),
         NEW origin, Outdated(p, log[i], origin),
         origin = "backfill" /\ p.boot # log[i].boot => log[i].boot < p.boot
  PROVE  Below(log[i], p)
<1>1. Reached(log[i], p)
  <2>1. log[i].boot \in Nat /\ log[i].up \in Nat /\ log[i].seq \in Nat
    BY EventIs
  <2>2. p.boot \in Nat /\ p.up \in Nat /\ p.seq \in Nat
    BY DEF Projections
  <2>3. QED
    BY <2>1, <2>2 DEF Outdated, Reached, Before
<1>2. QED
  BY <1>1 DEF ProjSound

(* A live event in time is of no earlier boot than the latest list.        *)
InTime(i, origin) == origin = "live" => latest.boot <= evlog[i].boot

(* The alarm of an event that is ingested.                                 *)
LEMMA EventKeeps ==
  ASSUME AlarmInv, NEW i \in 1 .. Len(evlog), NEW origin \in {"live", "backfill"},
         AlarmEvent(evlog[i], origin),
         origin = "backfill" => latest.boot = panel.boot
  PROVE  /\ proj' \in [Alarms -> Projections]
         /\ \A a \in Alarms : /\ Exists(proj[a]) => Exists(proj'[a]) /\ Below(proj[a], proj'[a])
                              /\ Exists(proj'[a]) => ProjSound(proj'[a], a, panel, evlog)
         /\ \A a \in Alarms \ late :
              Exists(proj'[a])
                /\ (a = evlog[i].alarm => InTime(i, origin)) => latest.boot <= proj'[a].boot
         /\ evlog[i].alarm \notin late => /\ Exists(proj'[evlog[i].alarm])
                                          /\ Below(evlog[i], proj'[evlog[i].alarm])
<1> DEFINE e == evlog[i]
           x == e.alarm
           p == proj[x]
           b == IF Exists(p) THEN p ELSE Fresh
           t == [Applied(b, e) EXCEPT !.boot = e.boot, !.seq = e.seq, !.up = e.up]
           c == IF origin = "backfill" THEN Corrected(t, e) ELSE t
<1>1. /\ IsPanel(panel) /\ evlog \in Seq(AlarmEvents) /\ LogSound(panel, evlog)
      /\ proj \in [Alarms -> Projections] /\ IsList(latest) /\ ListSound(latest, panel, evlog)
  BY DEF AlarmInv, AlarmTyped
<1>2. /\ x \in Alarms /\ p \in Projections
      /\ e.boot \in Nat \ {0} /\ e.up \in Nat /\ e.seq \in Nat \ {0}
  BY <1>1, EventIs
<1>3. /\ panel.boot \in Nat /\ panel.up \in Nat /\ latest.boot \in Nat /\ latest.up \in Nat
      /\ latest.rev \in Nat /\ Len(evlog) \in Nat
  BY <1>1, NumbersOf DEF IsList
<1>4. /\ x \in DOMAIN panel.alarms /\ Below(e, panel.alarms[x]) /\ e.boot <= panel.boot
      /\ latest.boot <= panel.boot
  <2>1. x \in DOMAIN panel.alarms /\ Below(e, panel.alarms[x]) /\ NotAfter(e, panel)
    BY <1>1 DEF LogSound
  <2>2. NotAfter(latest, panel)
    BY <1>1 DEF ListSound
  <2>3. QED
    BY <1>2, <1>3, <2>1, <2>2 DEF NotAfter
<1>5. Exists(p) => ProjSound(p, x, panel, evlog) /\ (x \notin late => latest.boot <= p.boot)
  BY <1>2 DEF AlarmInv, AlarmsProjected
<1>6. b \in Projections /\ Below(b, panel.alarms[x])
  <2>1. CASE Exists(p)
    BY <1>2, <1>5, <2>1 DEF ProjSound
  <2>2. CASE ~Exists(p)
    BY <1>4, <2>2, FreshIs
  <2>3. QED
    BY <2>1, <2>2
<1> HIDE DEF b
<1>7. /\ t \in Projections /\ Exists(t) /\ t.boot = e.boot /\ t.up = e.up
      /\ ProjSound(t, x, panel, evlog) /\ Below(e, t) /\ Below(b, t)
  <2>1. t = EventTaken(b, evlog[i])
    BY DEF EventTaken
  <2>2. b \in Projections /\ Below(b, panel.alarms[evlog[i].alarm])
    BY <1>6
  <2>3. IsPanel(panel) /\ evlog \in Seq(AlarmEvents) /\ LogSound(panel, evlog)
    BY <1>1
  <2> HIDE DEF t
  <2>4. /\ t \in Projections /\ Exists(t) /\ t.boot = evlog[i].boot /\ t.up = evlog[i].up
        /\ ProjSound(t, evlog[i].alarm, panel, evlog) /\ Below(evlog[i], t) /\ Below(b, t)
    BY <2>1, <2>2, <2>3, ToldIs
  <2>5. QED
    BY <2>4
<1> HIDE DEF t
<1>8. /\ c \in Projections /\ Exists(c) /\ ProjSound(c, x, panel, evlog) /\ Below(t, c)
      /\ InTime(i, origin) => latest.boot <= c.boot
  <2>1. CASE origin = "backfill" /\ latest # NoList /\ (latest.boot # e.boot \/ latest.up > e.up)
    <3>1. Before(e, latest)
      BY <1>2, <1>3, <1>4, <2>1 DEF Before
    <3>2. i \in 1 .. latest.rev /\ latest.boot # 0
      <4>1. ~(i <= latest.rev) => NotAfter(latest, e)
        BY <1>1 DEF ListSound
      <4>2. QED
        BY <1>2, <1>3, <3>1, <4>1 DEF Before, NotAfter
    <3>3. c = ListTaken(t, latest, x)
      BY <2>1 DEF Corrected, Word, ListTaken
    <3>4. Below(t, panel.alarms[x])
      BY <1>7 DEF ProjSound
    <3> HIDE DEF c
    <3>5. /\ IsPanel(panel) /\ evlog \in Seq(AlarmEvents) /\ LogSound(panel, evlog)
          /\ IsList(latest) /\ ListSound(latest, panel, evlog)
      BY <1>1
    <3>6. t \in Projections /\ evlog[i].alarm = x
      BY <1>7
    <3> HIDE DEF x
    <3>7. /\ c \in Projections /\ Exists(c) /\ c.boot = latest.boot
          /\ ProjSound(c, x, panel, evlog) /\ Below(t, c)
      BY <3>2, <3>3, <3>4, <3>5, <3>6, TakenIs
    <3>8. QED
      BY <1>3, <3>7
  <2>2. CASE ~(origin = "backfill" /\ latest # NoList /\ (latest.boot # e.boot \/ latest.up > e.up))
    <3>1. c = t
      BY <2>2 DEF Corrected
    <3>2. InTime(i, origin) => latest.boot <= e.boot
      <4>1. CASE origin = "live"
        BY <4>1 DEF InTime
      <4>2. CASE latest = NoList
        BY <1>2, <4>2 DEF NoList
      <4>3. CASE latest.boot = e.boot
        BY <1>2, <4>3
      <4>4. QED
        BY <2>2, <4>1, <4>2, <4>3
    <3>3. QED
      BY <1>7, <3>1, <3>2 DEF Below
  <2>3. QED
    BY <2>1, <2>2
<1>9. proj' = IF Exists(p) /\ Outdated(p, e, origin) THEN proj ELSE [proj EXCEPT ![x] = c]
  BY DEF AlarmEvent, c, t, b
<1> HIDE DEF c
<1>10. CASE Exists(p) /\ Outdated(p, e, origin)
  <2>1. x \notin late /\ origin = "backfill" /\ p.boot # e.boot => e.boot < p.boot
    BY <1>2, <1>3, <1>4, <1>5, <1>10 DEF Projections
  <2>2. x \notin late => Below(e, p)
    BY <1>1, <1>2, <1>5, <1>10, <2>1, OutdatedIsKnown
  <2>3. proj' = proj
    BY <1>9, <1>10
  <2>4. QED
    BY <1>1, <1>10, <2>2, <2>3 DEF AlarmInv, AlarmsProjected, Below
<1>11. CASE ~(Exists(p) /\ Outdated(p, e, origin))
  <2>1. proj' = [proj EXCEPT ![x] = c]
    BY <1>9, <1>11
  <2>2. /\ proj' \in [Alarms -> Projections] /\ proj'[x] = c
        /\ \A a \in Alarms : a # x => proj'[a] = proj[a]
    BY <1>1, <1>2, <1>8, <2>1
  <2>3. Exists(p) => Below(p, c)
    BY <1>7, <1>8 DEF b, Below
  <2>4. Below(e, c)
    BY <1>7, <1>8 DEF Below
  <2>5. \A a \in Alarms : Exists(proj[a]) => Below(proj[a], proj[a])
    BY DEF Below
  <2>6. QED
    BY <1>8, <2>2, <2>3, <2>4, <2>5 DEF AlarmInv, AlarmsProjected
<1>12. QED
  BY <1>10, <1>11

LEMMA AlarmIngestKeeps ==
  ASSUME AlarmInv, NEW i \in 1 .. Len(evlog), NEW origin \in {"live", "backfill"},
         AlarmIngest(i, origin), UNCHANGED <<panel, evlog, latest>>, late \subseteq late',
         i \in seen \/ InTime(i, origin) \/ evlog[i].alarm \in late',
         origin = "backfill" => latest.boot = panel.boot
  PROVE  /\ proj' \in [Alarms -> Projections] /\ seen' \subseteq 1 .. Len(evlog)
         /\ AlarmsProjected' /\ Ingested'
<1>1. seen' = seen \cup {i} /\ seen \subseteq 1 .. Len(evlog)
  BY DEF AlarmIngest, AlarmInv, AlarmTyped
<1>2. \A k \in 1 .. Len(evlog) : evlog[k].alarm \in Alarms
  BY EventIs DEF AlarmInv, AlarmTyped
<1>3. CASE i \in seen
  <2>1. proj' = proj /\ seen' = seen
    BY <1>1, <1>3 DEF AlarmIngest
  <2>2. QED
    BY <1>1, <2>1 DEF AlarmInv, AlarmTyped, AlarmsProjected, Ingested
<1>4. CASE i \notin seen
  <2>1. AlarmEvent(evlog[i], origin)
    BY <1>4 DEF AlarmIngest
  <2>2. /\ proj' \in [Alarms -> Projections]
        /\ \A a \in Alarms : /\ Exists(proj[a]) => Exists(proj'[a]) /\ Below(proj[a], proj'[a])
                             /\ Exists(proj'[a]) => ProjSound(proj'[a], a, panel, evlog)
        /\ \A a \in Alarms \ late :
             Exists(proj'[a])
               /\ (a = evlog[i].alarm => InTime(i, origin)) => latest.boot <= proj'[a].boot
        /\ evlog[i].alarm \notin late => /\ Exists(proj'[evlog[i].alarm])
                                         /\ Below(evlog[i], proj'[evlog[i].alarm])
    BY <2>1, EventKeeps
  <2>3. AlarmsProjected'
    BY <1>4, <2>2 DEF AlarmsProjected
  <2>4. ASSUME NEW k \in seen', evlog[k].alarm \notin late'
        PROVE  Exists(proj'[evlog[k].alarm]) /\ Below(evlog[k], proj'[evlog[k].alarm])
    <3>1. CASE k = i
      BY <2>2, <2>4, <3>1
    <3>2. CASE k \in seen
      <4>1. Exists(proj[evlog[k].alarm]) /\ Below(evlog[k], proj[evlog[k].alarm])
        BY <2>4, <3>2 DEF AlarmInv, Ingested
      <4>2. evlog[k].alarm \in Alarms
        BY <1>1, <1>2, <3>2
      <4>3. QED
        BY <2>2, <4>1, <4>2 DEF Below
    <3>3. QED
      BY <1>1, <3>1, <3>2
  <2>5. Ingested'
    BY <2>4 DEF Ingested
  <2>6. QED
    BY <1>1, <2>2, <2>3, <2>5
<1>5. QED
  BY <1>3, <1>4

(* What is left of a queue whose first frame has been handled.             *)
LEMMA QueueShrinks ==
  ASSUME NEW q \in Seq(Nat), q # <<>>, NEW n \in Nat, \A k \in 1 .. Len(q) : q[k] \in 1 .. n
  PROVE  /\ Head(q) = q[1] /\ 1 \in 1 .. Len(q) /\ Head(q) \in 1 .. n
         /\ Tail(q) \in Seq(Nat) /\ Len(Tail(q)) = Len(q) - 1
         /\ \A k \in 1 .. Len(Tail(q)) : /\ Tail(q)[k] = q[k + 1] /\ k + 1 \in 1 .. Len(q)
                                         /\ Tail(q)[k] \in 1 .. n
<1>1. /\ Head(q) = q[1] /\ 1 \in 1 .. Len(q) /\ Len(q) \in Nat
      /\ Tail(q) \in Seq(Nat) /\ Len(Tail(q)) = Len(q) - 1
  OBVIOUS
<1>2. \A k \in 1 .. Len(Tail(q)) : Tail(q)[k] = q[k + 1] /\ k + 1 \in 1 .. Len(q)
  BY <1>1
<1>3. QED
  BY <1>1, <1>2

LEMMA HandleLiveKeeps ==
  ASSUME AlarmInv, NEW i \in 1 .. Len(evlog), HandleLive(i)
  PROVE  /\ proj' \in [Alarms -> Projections] /\ seen' \subseteq 1 .. Len(evlog)
         /\ AlarmsProjected' /\ Ingested'
<1>1. AlarmIngest(i, "live") /\ UNCHANGED <<panel, evlog, latest>> /\ late \subseteq late'
  BY DEF HandleLive
<1>2. latest.boot \in Nat /\ evlog[i].boot \in Nat
  BY EventIs DEF AlarmInv, AlarmTyped, IsList
<1>3. i \in seen \/ InTime(i, "live") \/ evlog[i].alarm \in late'
  BY <1>2 DEF HandleLive, InTime
<1>4. QED
  BY <1>1, <1>3, AlarmIngestKeeps

LEMMA LiveKeeps == ASSUME AlarmInv, Live PROVE AlarmInv'
<1>1. /\ lane \in Seq(Nat) /\ lane # <<>> /\ HandleLive(Head(lane)) /\ lane' = Tail(lane)
      /\ UNCHANGED <<panel, evlog, leftover, filled, latest, held, reading, checked>>
  BY DEF Live, HandleLive, AlarmInv, AlarmTyped
<1>2. /\ Len(evlog) \in Nat
      /\ \A k \in 1 .. Len(lane) : lane[k] \in 1 .. Len(evlog) /\ evlog[lane[k]].boot = panel.boot
  BY DEF AlarmInv, AlarmTyped, ThisBoot
<1>3. /\ Head(lane) \in 1 .. Len(evlog) /\ lane' \in Seq(Nat)
      /\ \A k \in 1 .. Len(lane') : /\ lane'[k] = lane[k + 1] /\ k + 1 \in 1 .. Len(lane)
                                    /\ lane'[k] \in 1 .. Len(evlog)
  BY <1>1, <1>2, QueueShrinks
<1>4. /\ proj' \in [Alarms -> Projections] /\ seen' \subseteq 1 .. Len(evlog)
      /\ AlarmsProjected' /\ Ingested'
  BY <1>1, <1>3, HandleLiveKeeps
<1>5. AlarmTyped'
  BY <1>1, <1>3, <1>4 DEF AlarmInv, AlarmTyped
<1>6. ThisBoot'
  BY <1>1, <1>2, <1>3 DEF AlarmInv, ThisBoot
<1>7. QED
  BY <1>1, <1>4, <1>5, <1>6 DEF AlarmInv

LEMMA LiveOldKeeps == ASSUME AlarmInv, LiveOld PROVE AlarmInv'
<1>1. /\ leftover \in Seq(Nat) /\ leftover # <<>> /\ HandleLive(Head(leftover))
           /\ leftover' = Tail(leftover)
      /\ UNCHANGED <<panel, evlog, lane, filled, latest, held, reading, checked>>
  BY DEF LiveOld, HandleLive, AlarmInv, AlarmTyped
<1>2. Len(evlog) \in Nat /\ \A k \in 1 .. Len(leftover) : leftover[k] \in 1 .. Len(evlog)
  BY DEF AlarmInv, AlarmTyped
<1>3. /\ Head(leftover) \in 1 .. Len(evlog) /\ leftover' \in Seq(Nat)
      /\ \A k \in 1 .. Len(leftover') : leftover'[k] \in 1 .. Len(evlog)
  BY <1>1, <1>2, QueueShrinks
<1>4. /\ proj' \in [Alarms -> Projections] /\ seen' \subseteq 1 .. Len(evlog)
      /\ AlarmsProjected' /\ Ingested'
  BY <1>1, <1>3, HandleLiveKeeps
<1>5. AlarmTyped'
  BY <1>1, <1>3, <1>4 DEF AlarmInv, AlarmTyped
<1>6. ThisBoot'
  BY <1>1 DEF AlarmInv, ThisBoot
<1>7. QED
  BY <1>1, <1>4, <1>5, <1>6 DEF AlarmInv

LEMMA BackfillKeeps == ASSUME AlarmInv, Backfill PROVE AlarmInv'
<1>1. /\ checked /\ filled < Len(evlog) /\ filled' = filled + 1
      /\ AlarmIngest(filled + 1, "backfill")
      /\ UNCHANGED <<panel, evlog, lane, leftover, latest, held, reading, checked, late>>
  BY DEF Backfill
<1>2. filled + 1 \in 1 .. Len(evlog) /\ filled' \in 0 .. Len(evlog)
  BY <1>1 DEF AlarmInv, AlarmTyped
<1>3. latest.boot = panel.boot
  BY <1>1 DEF AlarmInv, ThisBoot
<1>4. /\ proj' \in [Alarms -> Projections] /\ seen' \subseteq 1 .. Len(evlog)
      /\ AlarmsProjected' /\ Ingested'
  BY <1>1, <1>2, <1>3, AlarmIngestKeeps DEF InTime
<1>5. AlarmTyped'
  BY <1>1, <1>2, <1>4 DEF AlarmInv, AlarmTyped
<1>6. ThisBoot'
  BY <1>1 DEF AlarmInv, ThisBoot
<1>7. QED
  BY <1>1, <1>4, <1>5, <1>6 DEF AlarmInv
-----------------------------------------------------------------------------
(* The projections after reconcile().                                      *)
LEMMA ReconciledIs ==
  ASSUME AlarmInv, NEW s, IsList(s), ListSound(s, panel, evlog), s.boot = panel.boot,
         NEW a \in Alarms
  PROVE  /\ Reconciled(proj[a], a, s) \in Projections
         /\ Exists(proj[a]) => /\ Exists(Reconciled(proj[a], a, s))
                               /\ Below(proj[a], Reconciled(proj[a], a, s))
         /\ Exists(Reconciled(proj[a], a, s)) =>
              /\ ProjSound(Reconciled(proj[a], a, s), a, panel, evlog)
              /\ s.boot <= Reconciled(proj[a], a, s).boot
<1> DEFINE p == proj[a]
           q == Reconciled(p, a, s)
           b == IF Exists(p) THEN p ELSE Fresh
<1>1. /\ IsPanel(panel) /\ evlog \in Seq(AlarmEvents) /\ LogSound(panel, evlog)
      /\ p \in Projections
  BY DEF AlarmInv, AlarmTyped
<1>2. /\ panel.boot \in Nat \ {0} /\ panel.up \in Nat /\ s.boot \in Nat \ {0} /\ s.up \in Nat
      /\ s.rev \in Nat /\ s.rev <= Len(evlog) /\ Len(evlog) \in Nat
      /\ p.boot \in Nat /\ p.up \in Nat
  BY <1>1, NumbersOf DEF IsList, ListSound, Projections
<1>3. Exists(p) => ProjSound(p, a, panel, evlog)
  BY DEF AlarmInv, AlarmsProjected
<1> HIDE DEF p
<1>4. CASE \/ ~Exists(p) /\ a \notin DOMAIN s.items
           \/ Exists(p) /\ p.boot = s.boot /\ p.up >= s.up
  <2>1. q = p
    BY <1>4 DEF Reconciled
  <2>2. Exists(p) => s.boot <= p.boot
    BY <1>2, <1>4
  <2>3. Below(p, p)
    BY DEF Below
  <2> HIDE DEF q
  <2>4. /\ q \in Projections
        /\ Exists(q) => ProjSound(q, a, panel, evlog) /\ s.boot <= q.boot
        /\ Exists(p) => Exists(q) /\ Below(p, q)
    BY <1>1, <1>3, <2>1, <2>2, <2>3
  <2>5. QED
    BY <2>4 DEF p, q
<1>5. CASE ~(\/ ~Exists(p) /\ a \notin DOMAIN s.items
             \/ Exists(p) /\ p.boot = s.boot /\ p.up >= s.up)
  <2>1. q = ListTaken(b, s, a)
    BY <1>5 DEF Reconciled, ListTaken, Word
  <2>2. PICK i \in 1 .. s.rev : evlog[i].alarm = a
    <3>1. CASE a \in DOMAIN s.items
      BY <3>1 DEF ListSound
    <3>2. CASE a \notin DOMAIN s.items
      <4>1. Exists(p) /\ ~(p.boot = s.boot /\ p.up >= s.up)
        BY <1>5, <3>2
      <4>2. PICK i \in 1 .. Len(evlog) : evlog[i].alarm = a /\ NotAfter(evlog[i], p)
        BY <1>3, <4>1 DEF ProjSound
      <4>3. evlog[i].boot \in Nat /\ evlog[i].up \in Nat
        BY <1>1, EventIs
      <4>4. NotAfter(p, panel)
        BY <1>3, <4>1 DEF ProjSound
      <4>5. ~(i <= s.rev) => NotAfter(s, evlog[i])
        BY DEF ListSound
      <4>6. i <= s.rev
        BY <1>2, <4>1, <4>2, <4>3, <4>4, <4>5 DEF NotAfter
      <4>7. QED
        BY <1>2, <4>2, <4>6
    <3>3. QED
      BY <3>1, <3>2
  <2>3. a \in DOMAIN panel.alarms
    BY <2>2 DEF ListSound
  <2>4. b \in Projections /\ Below(b, panel.alarms[a])
    <3>1. CASE Exists(p)
      BY <1>1, <1>3, <3>1 DEF ProjSound
    <3>2. CASE ~Exists(p)
      <4>1. PICK k \in 1 .. Len(evlog) : evlog[k].alarm = a /\ Below(panel.alarms[a], evlog[k])
        BY <1>1, <2>3 DEF LogSound
      <4>2. Below(evlog[k], panel.alarms[a])
        BY <1>1, <4>1 DEF LogSound
      <4>3. QED
        BY <3>2, <4>2, FreshIs
    <3>3. QED
      BY <3>1, <3>2
  <2> HIDE DEF b, q
  <2>5. s.boot # 0
    BY <1>2
  <2>6. /\ ListTaken(b, s, a) \in Projections /\ Exists(ListTaken(b, s, a))
        /\ ListTaken(b, s, a).boot = s.boot
        /\ ProjSound(ListTaken(b, s, a), a, panel, evlog) /\ Below(b, ListTaken(b, s, a))
    BY <1>1, <2>2, <2>4, <2>5, TakenIs
  <2>7. Exists(p) => Below(p, q)
    BY <2>1, <2>6 DEF b
  <2>8. /\ q \in Projections /\ Exists(q) /\ q.boot = s.boot /\ ProjSound(q, a, panel, evlog)
    BY <2>1, <2>6
  <2>9. s.boot <= q.boot
    BY <1>2, <2>8
  <2>10. QED
    BY <2>7, <2>8, <2>9 DEF p, q
<1>6. QED
  BY <1>4, <1>5

LEMMA ArchiveListKeeps == ASSUME AlarmInv, ArchiveList PROVE AlarmInv'
<1> DEFINE s == reading.list
<1>1. /\ reading.stage = "held" /\ Reconcile(s) /\ reading' = Idle /\ checked' = TRUE
      /\ UNCHANGED <<panel, evlog, lane, leftover, filled, seen, held, late>>
  BY DEF ArchiveList
<1>2. /\ IsPanel(panel) /\ evlog \in Seq(AlarmEvents) /\ IsList(s) /\ ListSound(s, panel, evlog)
      /\ s.boot = panel.boot /\ held.boot = s.boot
  BY <1>1 DEF AlarmInv, AlarmTyped, ThisBoot
<1>3. /\ reading'.stage = "idle" /\ reading'.list = NoList
      /\ reading' = [stage |-> "idle", list |-> NoList]
      /\ IsList(NoList) /\ ListSound(NoList, panel, evlog)
  BY <1>1, <1>2, NoListSound DEF Idle
<1>4. CASE latest.boot = s.boot /\ latest.rev >= s.rev
  <2>1. proj' = proj /\ latest' = latest
    BY <1>1, <1>4 DEF Reconcile
  <2>2. AlarmTyped'
    BY <1>1, <1>3, <2>1 DEF AlarmInv, AlarmTyped
  <2>3. ThisBoot'
    BY <1>1, <1>2, <1>3, <1>4, <2>1 DEF AlarmInv, ThisBoot
  <2>4. AlarmsProjected' /\ Ingested'
    BY <1>1, <2>1 DEF AlarmInv, AlarmsProjected, Ingested
  <2>5. QED
    BY <1>1, <1>3, <2>1, <2>2, <2>3, <2>4 DEF AlarmInv
<1>5. CASE ~(latest.boot = s.boot /\ latest.rev >= s.rev)
  <2>1. latest' = s /\ proj' = [a \in Alarms |-> Reconciled(proj[a], a, s)]
    BY <1>1, <1>5 DEF Reconcile
  <2> HIDE DEF s
  <2>2. ASSUME NEW a \in Alarms
        PROVE  /\ proj'[a] \in Projections
               /\ Exists(proj[a]) => Exists(proj'[a]) /\ Below(proj[a], proj'[a])
               /\ Exists(proj'[a]) => ProjSound(proj'[a], a, panel, evlog) /\ s.boot <= proj'[a].boot
    <3>1. proj'[a] = Reconciled(proj[a], a, s)
      BY <2>1
    <3>2. QED
      BY <1>2, <3>1, ReconciledIs
  <2>3. proj' \in [Alarms -> Projections]
    BY <2>1, <2>2
  <2>4. AlarmsProjected'
    BY <1>1, <2>1, <2>2 DEF AlarmsProjected
  <2>5. Ingested'
    <3>1. \A i \in seen : evlog[i].alarm \in Alarms
      BY <1>2, EventIs DEF AlarmInv, AlarmTyped
    <3>2. ASSUME NEW i \in seen, evlog[i].alarm \notin late
          PROVE  Exists(proj'[evlog[i].alarm]) /\ Below(evlog[i], proj'[evlog[i].alarm])
      <4>1. Exists(proj[evlog[i].alarm]) /\ Below(evlog[i], proj[evlog[i].alarm])
        BY <3>2 DEF AlarmInv, Ingested
      <4>2. QED
        BY <2>2, <3>1, <4>1 DEF Below
    <3>3. QED
      BY <1>1, <3>2 DEF Ingested
  <2>6. AlarmTyped'
    BY <1>1, <1>2, <1>3, <2>1, <2>3 DEF AlarmInv, AlarmTyped
  <2>7. ThisBoot'
    BY <1>1, <1>2, <1>3, <2>1 DEF AlarmInv, ThisBoot
  <2>8. QED
    BY <1>1, <1>2, <1>3, <2>1, <2>4, <2>5, <2>6, <2>7 DEF AlarmInv
<1>6. QED
  BY <1>4, <1>5

-----------------------------------------------------------------------------
LEMMA AlarmInitOK == AlarmInit => AlarmInv
<1> SUFFICES ASSUME AlarmInit PROVE AlarmInv
  OBVIOUS
<1>1. /\ panel = [alarms |-> [a \in {} |-> Absent], boot |-> 1, seq |-> 0, up |-> 0, rev |-> 0]
      /\ evlog = <<>> /\ lane = <<>> /\ leftover = <<>> /\ filled = 0 /\ seen = {}
      /\ proj = [a \in Alarms |-> NoProj] /\ latest = NoList
      /\ held.boot = 0 /\ reading = [stage |-> "idle", list |-> NoList] /\ checked = FALSE
  BY DEF AlarmInit, Idle
<1>2. /\ evlog \in Seq(AlarmEvents) /\ lane \in Seq(Nat) /\ leftover \in Seq(Nat)
      /\ Len(evlog) = 0 /\ Len(lane) = 0 /\ Len(leftover) = 0
  BY <1>1
<1>3. IsPanel(panel) /\ DOMAIN panel.alarms = {}
  BY <1>1, AlarmAssumption DEF IsPanel
<1>4. LogSound(panel, evlog)
  BY <1>2, <1>3 DEF LogSound
<1>5. IsList(NoList) /\ ListSound(NoList, panel, evlog) /\ NoList.boot = 0
  BY <1>2, <1>3, NoListSound
<1>6. NoProj \in Projections /\ ~Exists(NoProj)
  BY DEF NoProj, Projections, Exists, NoSeq
<1>7. AlarmTyped
  BY <1>1, <1>2, <1>3, <1>5, <1>6, AlarmAssumption DEF AlarmTyped
<1>8. AlarmsProjected /\ Ingested /\ ThisBoot
  BY <1>1, <1>2, <1>5, <1>6 DEF AlarmsProjected, Ingested, ThisBoot
<1>9. QED
  BY <1>1, <1>4, <1>5, <1>7, <1>8 DEF AlarmInv

LEMMA AlarmStutterKeeps == ASSUME AlarmInv, UNCHANGED alarmVars PROVE AlarmInv'
<1>1. /\ UNCHANGED <<panel, evlog, lane, leftover, filled, seen>>
      /\ UNCHANGED <<proj, latest, held, reading, checked, late>>
  BY DEF alarmVars, host
<1>2. QED
  BY <1>1 DEF AlarmInv, AlarmTyped, AlarmsProjected, Ingested, ThisBoot

LEMMA AlarmNextKeeps ==
  ASSUME ~AlarmListLost, AlarmInv, [AlarmNext]_alarmVars PROVE AlarmInv'
<1>1. CASE \E a \in Alarms : Raise(a)
  BY <1>1, RaiseKeeps
<1>2. CASE \E a \in Alarms, t \in {"cleared", "acknowledged"} : Transition(a, t)
  BY <1>2, TransitionKeeps
<1>3. ~ListNotArchived
  BY DEF ListNotArchived
<1>4. QED
  BY <1>1, <1>2, <1>3, UptimeGrowsKeeps, DisconnectKeeps, RebootKeeps, LiveKeeps, LiveOldKeeps,
       BackfillKeeps,
     GetStatusKeeps, ServeListKeeps, TakeListKeeps, ArchiveListKeeps, AlarmStutterKeeps
     DEF AlarmNext

LEMMA AlarmInvHolds == ASSUME ~AlarmListLost PROVE AlarmSpec => []AlarmInv
<1>1. AlarmInv /\ [AlarmNext]_alarmVars => AlarmInv'
  BY AlarmNextKeeps
<1>2. QED
  BY <1>1, AlarmInitOK, PTL DEF AlarmSpec

(* event() and reconcile() of V2AlarmArchive: as long as no list that was  *)
(* read fails to be archived, the archive shows no alarm as over or as     *)
(* acknowledged that is not, whatever came first and of whichever boot;    *)
(* and once every logged event has been ingested, by live frame or by      *)
(* backfill, each alarm that no frame left of an earlier boot came late    *)
(* for is active and acknowledged as it is on the device.                  *)
THEOREM ArchiveConverges == ASSUME ~AlarmListLost PROVE AlarmSpec => []AlarmsConverge
<1>1. ASSUME AlarmInv, NEW a \in Alarms, Exists(proj[a])
      PROVE  /\ a \in DOMAIN panel.alarms /\ panel.alarms[a] \in AlarmStates
             /\ proj[a] \in Projections /\ Below(proj[a], panel.alarms[a])
  <2>1. proj[a] \in Projections /\ a \in DOMAIN panel.alarms /\ Below(proj[a], panel.alarms[a])
    BY <1>1 DEF AlarmInv, AlarmTyped, AlarmsProjected, ProjSound
  <2>2. panel.alarms[a] \in AlarmStates
    BY <1>1, <2>1 DEF AlarmInv, AlarmTyped, IsPanel
  <2>3. QED
    BY <2>1, <2>2
<1>2. AlarmInv => NothingHidden
  BY <1>1 DEF NothingHidden, Below
<1>3. ASSUME AlarmInv, seen = DOMAIN evlog, NEW a \in Alarms \ late
      PROVE  Shown(a)
  <2>1. seen = 1 .. Len(evlog)
    BY <1>3 DEF AlarmInv, AlarmTyped
  <2>2. ASSUME a \in DOMAIN panel.alarms
        PROVE  Exists(proj[a]) /\ Below(panel.alarms[a], proj[a])
    <3>1. PICK i \in 1 .. Len(evlog) : evlog[i].alarm = a /\ Below(panel.alarms[a], evlog[i])
      BY <1>3, <2>2 DEF AlarmInv, LogSound
    <3>2. Exists(proj[a]) /\ Below(evlog[i], proj[a])
      BY <1>3, <2>1, <3>1 DEF AlarmInv, Ingested
    <3>3. QED
      BY <3>1, <3>2 DEF Below
  <2>3. ASSUME Exists(proj[a])
        PROVE  proj[a].active = panel.alarms[a].active /\ proj[a].acked = panel.alarms[a].acked
    <3>1. /\ Below(proj[a], panel.alarms[a]) /\ Below(panel.alarms[a], proj[a])
          /\ panel.alarms[a] \in AlarmStates /\ proj[a] \in Projections
      BY <1>1, <1>3, <2>2, <2>3
    <3>2. /\ panel.alarms[a].active \in BOOLEAN /\ panel.alarms[a].acked \in BOOLEAN
          /\ proj[a].active \in BOOLEAN /\ proj[a].acked \in BOOLEAN
      BY <3>1 DEF AlarmStates, Projections
    <3>3. QED
      BY <3>1, <3>2 DEF Below
  <2>4. Exists(proj[a]) <=> a \in DOMAIN panel.alarms
    BY <1>1, <1>3, <2>2
  <2>5. QED
    BY <2>3, <2>4 DEF Shown
<1>4. AlarmInv => AlarmsConverge
  BY <1>2, <1>3 DEF AlarmsConverge
<1>5. QED
  BY <1>4, AlarmInvHolds, PTL
-----------------------------------------------------------------------------
(* Types, whether or not lists are lost.                                   *)
AlarmShape ==
  /\ IsPanel(panel) /\ panel.rev = Len(evlog)
  /\ evlog \in Seq(AlarmEvents) /\ Len(evlog) <= AlarmMaxEvents
  /\ lane \in Seq(Nat) /\ \A k \in 1 .. Len(lane) : lane[k] \in 1 .. Len(evlog)
  /\ leftover \in Seq(Nat) /\ \A k \in 1 .. Len(leftover) : leftover[k] \in 1 .. Len(evlog)
  /\ filled \in 0 .. Len(evlog) /\ seen \subseteq 1 .. Len(evlog)
  /\ DOMAIN proj = Alarms
  /\ reading = [stage |-> reading.stage, list |-> reading.list]
  /\ reading.stage \in {"idle", "asked", "served", "held"}

LEMMA NoteShaped ==
  ASSUME AlarmShape, NEW a \in Alarms, NEW state \in AlarmStates, Note(a, state)
  PROVE  AlarmShape'
<1> DEFINE n == Len(evlog)
           put == [b \in DOMAIN panel.alarms \cup {a} |-> IF b = a THEN state ELSE panel.alarms[b]]
           e == [alarm |-> a, boot |-> panel.boot, seq |-> panel.seq + 1, up |-> panel.up,
                 active |-> state.active, acked |-> state.acked]
<1>1. /\ n \in Nat /\ n < AlarmMaxEvents /\ IsPanel(panel)
      /\ panel' = [panel EXCEPT !.alarms = put, !.rev = @ + 1, !.seq = @ + 1]
      /\ evlog' = Append(evlog, e) /\ lane' = Append(lane, n + 1)
      /\ UNCHANGED <<leftover, filled, seen, proj, latest, held, reading, checked, late>>
  BY DEF Note, host, AlarmShape
<1>2. panel.boot \in Nat \ {0} /\ panel.up \in Nat /\ panel.seq \in Nat
  BY <1>1, NumbersOf
<1>3. e \in AlarmEvents
  BY <1>2 DEF AlarmEvents, AlarmStates
<1>4. evlog' \in Seq(AlarmEvents) /\ Len(evlog') = n + 1
  BY <1>1, <1>3 DEF AlarmShape
<1>5. /\ panel'.boot = panel.boot /\ panel'.up = panel.up /\ panel'.seq = panel.seq + 1
      /\ panel'.rev = n + 1 /\ panel'.alarms = put
      /\ panel' = [alarms |-> panel'.alarms, boot |-> panel'.boot, seq |-> panel'.seq,
                   up |-> panel'.up, rev |-> panel'.rev]
  BY <1>1 DEF AlarmShape, IsPanel
<1>6. /\ DOMAIN put = DOMAIN panel.alarms \cup {a} /\ put[a] = state
      /\ \A b \in DOMAIN panel.alarms : b # a => put[b] = panel.alarms[b]
  OBVIOUS
<1> HIDE DEF put, e, n
<1>7. IsPanel(panel')
  BY <1>1, <1>2, <1>5, <1>6 DEF IsPanel
<1>8. lane' \in Seq(Nat) /\ \A k \in 1 .. Len(lane') : lane'[k] \in 1 .. n + 1
  BY <1>1 DEF AlarmShape, n
<1>9. leftover' \in Seq(Nat) /\ \A k \in 1 .. Len(leftover') : leftover'[k] \in 1 .. n + 1
  BY <1>1 DEF AlarmShape, n
<1>10. filled' \in 0 .. n + 1 /\ seen' \subseteq 1 .. n + 1
  BY <1>1 DEF AlarmShape, n
<1>11. n + 1 <= AlarmMaxEvents
  BY <1>1, AlarmAssumption
<1>12. QED
  BY <1>1, <1>4, <1>5, <1>7, <1>8, <1>9, <1>10, <1>11 DEF AlarmShape

LEMMA IngestShaped ==
  ASSUME AlarmShape, NEW i \in 1 .. Len(evlog), NEW origin, AlarmIngest(i, origin)
  PROVE  DOMAIN proj' = Alarms /\ seen' \subseteq 1 .. Len(evlog)
BY DEF AlarmShape, AlarmIngest, AlarmEvent

LEMMA LiveShaped == ASSUME AlarmShape, Live \/ LiveOld PROVE AlarmShape'
<1>1. /\ lane \in Seq(Nat) /\ leftover \in Seq(Nat) /\ Len(evlog) \in Nat
      /\ \A k \in 1 .. Len(lane) : lane[k] \in 1 .. Len(evlog)
      /\ \A k \in 1 .. Len(leftover) : leftover[k] \in 1 .. Len(evlog)
  BY DEF AlarmShape
<1>2. UNCHANGED <<panel, evlog, filled, reading>>
  BY DEF Live, LiveOld, HandleLive
<1>3. CASE Live
  <2>1. lane # <<>> /\ AlarmIngest(Head(lane), "live") /\ lane' = Tail(lane) /\ leftover' = leftover
    BY <1>3 DEF Live, HandleLive
  <2>2. /\ Head(lane) \in 1 .. Len(evlog) /\ lane' \in Seq(Nat)
        /\ \A k \in 1 .. Len(lane') : lane'[k] \in 1 .. Len(evlog)
    BY <1>1, <2>1, QueueShrinks
  <2>3. DOMAIN proj' = Alarms /\ seen' \subseteq 1 .. Len(evlog)
    BY <2>1, <2>2, IngestShaped
  <2>4. QED
    BY <1>2, <2>1, <2>2, <2>3 DEF AlarmShape
<1>4. CASE LiveOld
  <2>1. leftover # <<>> /\ AlarmIngest(Head(leftover), "live") /\ leftover' = Tail(leftover)
          /\ lane' = lane
    BY <1>4 DEF LiveOld, HandleLive
  <2>2. /\ Head(leftover) \in 1 .. Len(evlog) /\ leftover' \in Seq(Nat)
        /\ \A k \in 1 .. Len(leftover') : leftover'[k] \in 1 .. Len(evlog)
    BY <1>1, <2>1, QueueShrinks
  <2>3. DOMAIN proj' = Alarms /\ seen' \subseteq 1 .. Len(evlog)
    BY <2>1, <2>2, IngestShaped
  <2>4. QED
    BY <1>2, <2>1, <2>2, <2>3 DEF AlarmShape
<1>5. QED
  BY <1>3, <1>4

LEMMA AlarmShapeKept ==
  ASSUME AlarmShape, [AlarmNext]_alarmVars PROVE AlarmShape'
<1>1. /\ IsPanel(panel) /\ panel.rev = Len(evlog) /\ evlog \in Seq(AlarmEvents) /\ Len(evlog) \in Nat
      /\ panel.boot \in Nat \ {0} /\ panel.up \in Nat
  BY NumbersOf DEF AlarmShape
<1>2. CASE \E a \in Alarms : Raise(a)
  BY <1>2, NoteShaped DEF Raise, AlarmStates
<1>3. CASE \E a \in Alarms, t \in {"cleared", "acknowledged"} : Transition(a, t)
  <2>1. PICK a \in Alarms, t \in {"cleared", "acknowledged"} : Transition(a, t)
    BY <1>3
  <2>2. panel.alarms[a] \in AlarmStates
    BY <1>1, <2>1 DEF Transition, IsPanel
  <2>3. /\ [panel.alarms[a] EXCEPT !.active = FALSE] \in AlarmStates
        /\ [panel.alarms[a] EXCEPT !.acked = TRUE] \in AlarmStates
    BY <2>2 DEF AlarmStates
  <2>4. QED
    BY <2>1, <2>3, NoteShaped DEF Transition
<1>4. CASE UptimeGrows
  <2>1. /\ panel' = [panel EXCEPT !.up = @ + 1] /\ panel.up < AlarmMaxUp
        /\ UNCHANGED <<evlog, lane, leftover, filled, seen, proj, reading>>
    BY <1>4 DEF UptimeGrows, host
  <2>2. IsPanel(panel') /\ panel'.rev = panel.rev
    BY <1>1, <2>1, AlarmAssumption DEF IsPanel
  <2>3. QED
    BY <2>1, <2>2 DEF AlarmShape
<1>5. CASE Disconnect \/ Reboot
  <2>1. /\ lane' = <<>> /\ reading' = Idle /\ UNCHANGED <<evlog, filled, seen, proj>>
    BY <1>5 DEF Disconnect, Reboot, LoseSession
  <2>2. IsPanel(panel') /\ panel'.rev = panel.rev
    <3>1. CASE Disconnect
      BY <1>1, <3>1 DEF Disconnect
    <3>2. CASE Reboot
      <4>1. /\ panel' = [panel EXCEPT !.boot = @ + 1, !.seq = 0, !.up = 0]
            /\ panel.boot + 1 \in 1 .. AlarmMaxBoot /\ 0 \in 0 .. AlarmMaxUp
        BY <1>1, <3>2, AlarmAssumption DEF Reboot
      <4>2. QED
        BY <1>1, <4>1 DEF IsPanel
    <3>3. QED
      BY <1>5, <3>1, <3>2
  <2>3. reading' = [stage |-> "idle", list |-> NoList]
    BY <2>1 DEF Idle
  <2>4. leftover' \in Seq(Nat) /\ \A k \in 1 .. Len(leftover') : leftover'[k] \in 1 .. Len(evlog)
    <3>1. LoseSession
      BY <1>5 DEF Disconnect, Reboot
    <3>2. QED
      BY <1>1, <3>1, QueueKept DEF AlarmShape
  <2>5. QED
    BY <2>1, <2>2, <2>3, <2>4 DEF AlarmShape
<1>6. CASE Backfill
  <2>1. /\ filled < Len(evlog) /\ filled' = filled + 1 /\ AlarmIngest(filled + 1, "backfill")
        /\ UNCHANGED <<panel, evlog, lane, leftover, reading>>
    BY <1>6 DEF Backfill
  <2>2. filled + 1 \in 1 .. Len(evlog) /\ filled' \in 0 .. Len(evlog)
    BY <2>1 DEF AlarmShape
  <2>3. DOMAIN proj' = Alarms /\ seen' \subseteq 1 .. Len(evlog)
    BY <2>1, <2>2, IngestShaped
  <2>4. QED
    BY <2>1, <2>2, <2>3 DEF AlarmShape
<1>7. CASE GetStatus \/ ServeList \/ TakeList \/ ArchiveList \/ ListNotArchived
  <2>1. UNCHANGED <<panel, evlog, lane, leftover, filled, seen>>
    BY <1>7 DEF GetStatus, ServeList, TakeList, ArchiveList, ListNotArchived
  <2>2. DOMAIN proj' = Alarms
    BY <1>7 DEF AlarmShape, GetStatus, ServeList, TakeList, ArchiveList, ListNotArchived, Reconcile
  <2>3. /\ reading' = [stage |-> reading'.stage, list |-> reading'.list]
        /\ reading'.stage \in {"idle", "asked", "served", "held"}
    BY <1>7 DEF AlarmShape, GetStatus, ServeList, TakeList, ArchiveList, ListNotArchived, Idle
  <2>4. QED
    BY <2>1, <2>2, <2>3 DEF AlarmShape
<1>8. CASE UNCHANGED alarmVars
  BY <1>8 DEF alarmVars, host, AlarmShape
<1>9. QED
  BY <1>2, <1>3, <1>4, <1>5, <1>6, <1>7, <1>8, LiveShaped DEF AlarmNext

(* The device's log and the archive keep their shape whatever session or   *)
(* transaction fails: every event ingested is one the device logged, and   *)
(* every alarm has its projection or none.                                 *)
THEOREM AlarmTypeSafe == AlarmSpec => []AlarmTypeOK
<1>1. AlarmInit => AlarmShape
  <2> SUFFICES ASSUME AlarmInit PROVE AlarmShape
    OBVIOUS
  <2>1. panel = [alarms |-> [a \in {} |-> Absent], boot |-> 1, seq |-> 0, up |-> 0, rev |-> 0]
    BY DEF AlarmInit
  <2>2. IsPanel(panel) /\ panel.rev = 0
    BY <2>1, AlarmAssumption DEF IsPanel
  <2>3. QED
    BY <2>2, AlarmAssumption DEF AlarmInit, AlarmShape, Idle
<1>2. AlarmShape /\ [AlarmNext]_alarmVars => AlarmShape'
  BY AlarmShapeKept
<1>3. AlarmShape => AlarmTypeOK
  BY DEF AlarmShape, AlarmTypeOK, IsPanel
<1>4. QED
  BY <1>1, <1>2, <1>3, PTL DEF AlarmSpec
=============================================================================
