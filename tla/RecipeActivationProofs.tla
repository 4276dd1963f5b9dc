------------------------ MODULE RecipeActivationProofs ------------------------
(***************************************************************************)
(* Theorems about RecipeActivation for any definitions, any number of      *)
(* savers, versions, turns, sessions and faults: a run follows the recipe  *)
(* its archived session names, and a confirmed activation is durable.      *)
(*                                                                         *)
(* The argument needs neither sessions nor leases.  A turn has a number of *)
(* its own and sends one frame; what a frame carries was bound and saved;  *)
(* and a frame is void once the revision it was sent under has passed.     *)
(***************************************************************************)
EXTENDS RecipeActivation, TLAPS

USE RecipeAssumption

-----------------------------------------------------------------------------
(* Types.                                                                  *)

Recipes  == [version : Nat, definition : Definitions \cup {"none"}, profile : 0..2]
Uploads  == [recipe : Recipes, chunks : Nat]
Tables   == [1..MaxRecipeSession -> Uploads]
Running  == [n : 0..MaxTurns, recipe : Recipes, profile : 0..2]
Outcomes == [n : 0..MaxTurns, status : {"none", "rejected", "accepted", "applied", "unknown"}]
Archived == [phase : {"none", "awaiting_device", "preheat", "needs_review", "closed"},
             recipe : Recipes]
Steps    == {"none", "lease", "bind", "begin", "chunks", "submit", "answer", "readback"}
Turns    == [step : Steps, kind : {"none", "activate", "start"}, version : Nat, n : 0..MaxTurns,
             session : Nat, recipe : Recipes, active : Recipes]
Commands == [kind : {"activate", "start"}, n : 1..MaxTurns, session : Nat, boot : Nat,
             revision : Nat, recipe : Recipes, active : Recipes]
Flashes  == [revision : Nat, active : Recipes, run : Running, outcome : Outcomes]
Boards   == [boot : Nat, profile : Profiles, revision : Nat, active : Recipes, run : Running,
             outcome : Outcomes, lease : Nat, sessions : SUBSET Nat, uploads : Tables]

HostTypes ==
  /\ versions \in Seq(Definitions)
  /\ drafts \subseteq [version : Nat, definition : Definitions]
  /\ bindings \subseteq Recipes
  /\ archive \in [Starts -> Archived]
  /\ runBound \in [Starts -> Recipes]
  /\ turn \in Turns /\ turns \in 0..MaxTurns
  /\ confirmed \in Recipes

BoardTypes ==
  /\ channel \in [id : Nat, up : BOOLEAN]
  /\ sent \subseteq Commands
  /\ board2 \in Boards /\ flash \in Flashes

(* A turn under way has a kind, a number of its own and a saved version.   *)
TurnFormed ==
  IF turn.step = "none" THEN turn = NoTurn
  ELSE /\ turn.kind # "none" /\ turn.n \in 1..turns /\ turn.version \in 1..Len(versions)
       /\ turn.step = "readback" => turn.kind = "activate"

Typed == HostTypes /\ BoardTypes /\ TurnFormed

(* What the host and the board know of recipes, they know of bound ones,    *)
(* and what is bound is saved as it is and was executable.                 *)
Saved(r) == /\ r.version \in 1..Len(versions) /\ versions[r.version] = r.definition
            /\ Executable(r.definition, r.profile)
Known(r) == r \in bindings \cup {NoRecipe}
Compiling == turn.step \in {"begin", "chunks", "submit"}

Bound ==
  /\ \A r \in bindings : Saved(r)
  /\ Known(board2.active) /\ Known(flash.active) /\ Known(turn.active)
  /\ \A f \in sent : f.recipe \in bindings
  /\ Compiling => turn.recipe \in bindings

-----------------------------------------------------------------------------
(* What the actions leave of the state, field by field.                    *)

LEMMA NoRecipeType ==
  /\ NoRecipe \in Recipes /\ NoRecipe.version = 0 /\ NoRecipe.profile = 0
  /\ NoTurn \in Turns /\ NoTurn.step = "none" /\ NoTurn.kind = "none" /\ NoTurn.n = 0
  /\ NoTurn.active = NoRecipe
  /\ NoRunning \in Running /\ NoRunning.n = 0 /\ NoOutcome \in Outcomes /\ NoOutcome.n = 0
  /\ NoUpload \in Uploads
BY DEF NoRecipe, Compiled, Recipes, NoTurn, Turns, Steps, NoRunning, Running, NoOutcome, Outcomes,
       NoUpload, Uploads

LEMMA CompiledType ==
  ASSUME NEW v \in Nat, NEW d \in Definitions, NEW p \in Profiles
  PROVE  /\ Compiled(v, d, p) \in Recipes
         /\ Compiled(v, d, p).version = v /\ Compiled(v, d, p).definition = d
         /\ Compiled(v, d, p).profile = p
BY DEF Compiled, Recipes, Profiles

(* Saving only adds.                                                       *)
VersionsGrow ==
  Len(versions) <= Len(versions)' /\ \A v \in 1..Len(versions) : versions'[v] = versions[v]

LEMMA InsertVersionGrows ==
  ASSUME HostTypes, NEW w \in drafts, InsertVersion(w)
  PROVE  versions' \in Seq(Definitions) /\ VersionsGrow
<1>1. w.definition \in Definitions
  BY DEF HostTypes
<1>2. versions' \in {versions, Append(versions, w.definition)}
  BY DEF InsertVersion, Inserted
<1>3. CASE versions' = versions
  BY <1>3 DEF HostTypes, VersionsGrow
<1>4. CASE versions' = Append(versions, w.definition)
  <2>1. versions \in Seq(Definitions) /\ Len(versions) \in Nat
    BY DEF HostTypes
  <2>2. versions' \in Seq(Definitions) /\ Len(versions') = Len(versions) + 1
    BY <1>1, <1>4, <2>1
  <2>3. \A v \in 1..Len(versions) : versions'[v] = versions[v]
    BY <1>1, <1>4, <2>1
  <2>4. QED BY <2>1, <2>2, <2>3 DEF VersionsGrow
<1>5. QED BY <1>2, <1>3, <1>4

LEMMA TurningType ==
  ASSUME NEW kind \in {"activate", "start"}, NEW v \in Nat, turns \in 0..MaxTurns, turns < MaxTurns
  PROVE  /\ Turning(kind, v) \in Turns
         /\ Turning(kind, v).step = "lease" /\ Turning(kind, v).kind = kind
         /\ Turning(kind, v).version = v /\ Turning(kind, v).n = turns + 1
         /\ Turning(kind, v).active = NoRecipe
<1>1. turns + 1 \in 0..MaxTurns
  OBVIOUS
<1>2. PICK t \in Turns : t = NoTurn /\ t.active = NoRecipe
  BY NoRecipeType
<1>3. Turning(kind, v) = [t EXCEPT !.step = "lease", !.kind = kind, !.version = v, !.n = turns + 1]
  BY <1>2 DEF Turning
<1>4. QED BY <1>1, <1>2, <1>3 DEF Turns, Steps

(* A turn that goes on to another step, its other fields but the named ones *)
(* being what they were.                                                   *)
SameTurn == /\ turn'.kind = turn.kind /\ turn'.version = turn.version /\ turn'.n = turn.n
            /\ turn'.active = turn.active

(* The board as far as recipes are concerned.                              *)
SameBoard == /\ board2' \in Boards /\ flash' \in Flashes
             /\ board2'.active = board2.active /\ flash'.active = flash.active
             /\ board2'.run = board2.run /\ flash'.run = flash.run
             /\ board2'.outcome = board2.outcome /\ flash'.outcome = flash.outcome
             /\ board2'.profile = board2.profile /\ board2'.boot = board2.boot
             /\ board2'.revision >= board2.revision

(* Steps of the host between its own tables: the board is left alone.      *)
LEMMA HostOnly ==
  ASSUME BoardTypes, UNCHANGED <<channel, sent, board2, flash>>
  PROVE  BoardTypes'
BY DEF BoardTypes

LEMMA TurnOver ==
  ASSUME Typed, HostTypes', turn' = NoTurn
  PROVE  TurnFormed'
BY NoRecipeType DEF TurnFormed

LEMMA ClosingType ==
  ASSUME Typed, NEW phase \in {"preheat", "closed", "needs_review"}
  PROVE  /\ Closing(phase) \in [Starts -> Archived]
         /\ \A n \in Starts : Closing(phase)[n].recipe = archive[n].recipe
         /\ \A n \in Starts : (n = turn.n /\ turn.kind = "start") \/ Closing(phase)[n] = archive[n]
         /\ turn.kind = "start" => Closing(phase)[turn.n].phase = phase
<1>1. archive \in [Starts -> Archived] /\ \A n \in Starts : archive[n] \in Archived
  BY DEF Typed, HostTypes
<1>2. turn.kind = "start" => turn.n \in Starts
  BY NoRecipeType DEF Typed, TurnFormed, HostTypes, Starts
<1>3. \A n \in Starts : /\ [archive[n] EXCEPT !.phase = phase] \in Archived
                        /\ [archive[n] EXCEPT !.phase = phase].recipe = archive[n].recipe
                        /\ [archive[n] EXCEPT !.phase = phase].phase = phase
  BY <1>1 DEF Archived
<1>4. CASE turn.kind = "start"
  <2>1. Closing(phase) = [archive EXCEPT ![turn.n] = [archive[turn.n] EXCEPT !.phase = phase]]
    BY <1>4 DEF Closing
  <2>2. QED BY <1>1, <1>2, <1>3, <1>4, <2>1
<1>5. CASE turn.kind # "start"
  BY <1>1, <1>5 DEF Closing
<1>6. QED BY <1>4, <1>5

LEMMA SaveTyped ==
  ASSUME Typed,
         (\E d \in Definitions : Draft(d)) \/ (\E w \in drafts : InsertVersion(w))
  PROVE  Typed' /\ VersionsGrow
<1>1. ASSUME NEW d \in Definitions, Draft(d) PROVE Typed' /\ VersionsGrow
  BY <1>1, HostOnly DEF Typed, HostTypes, TurnFormed, Draft, VersionsGrow
<1>2. ASSUME NEW w \in drafts, InsertVersion(w) PROVE Typed' /\ VersionsGrow
  <2>1. versions' \in Seq(Definitions) /\ VersionsGrow
    BY <1>2, InsertVersionGrows DEF Typed
  <2>2. HostTypes' /\ BoardTypes'
    BY <1>2, <2>1, HostOnly DEF Typed, HostTypes, InsertVersion
  <2>3. TurnFormed'
    BY <1>2, <2>1 DEF Typed, HostTypes, TurnFormed, InsertVersion, VersionsGrow
  <2>4. QED BY <2>1, <2>2, <2>3 DEF Typed
<1>3. QED BY <1>1, <1>2

LEMMA BeginActivateTyped ==
  ASSUME Typed, NEW v \in 1..MaxVersion, BeginActivate(v)
  PROVE  Typed'
<1>1. turn' = Turning("activate", v) /\ turns' = turns + 1 /\ turns < MaxTurns /\ v <= Len(versions)
        /\ turns \in 0..MaxTurns
  BY DEF BeginActivate, Typed, HostTypes
<1>2. /\ turn' \in Turns /\ turn'.step = "lease" /\ turn'.kind = "activate" /\ turn'.version = v
      /\ turn'.n = turns + 1
  BY <1>1, TurningType
<1>3. HostTypes' /\ BoardTypes'
  BY <1>1, <1>2, HostOnly DEF BeginActivate, Typed, HostTypes
<1>4. TurnFormed'
  BY <1>1, <1>2 DEF TurnFormed, BeginActivate
<1>5. QED BY <1>3, <1>4 DEF Typed

LEMMA BeginStartTyped ==
  ASSUME Typed, NEW v \in 1..MaxVersion, BeginStart(v)
  PROVE  /\ Typed' /\ turns' \in Starts /\ turns' = turns + 1
         /\ turn'.step = "lease" /\ turn'.kind = "start" /\ turn'.version = v /\ turn'.n = turns'
         /\ turn'.active = NoRecipe
         /\ archive'[turns'] = [phase |-> "awaiting_device", recipe |-> Compiled(v, versions[v], board2.profile)]
         /\ \A n \in Starts \ {turns'} : archive'[n] = archive[n]
<1>1. /\ turn' = Turning("start", v) /\ turns' = turns + 1 /\ turns < MaxTurns
      /\ v <= Len(versions) /\ turns \in 0..MaxTurns
  <2>1. BoundRecipe # NoRecipe /\ BoundRecipe.version = v
    BY DEF BeginStart
  <2>2. v <= Len(versions)
    BY <2>1 DEF BoundRecipe
  <2>3. QED BY <2>2 DEF BeginStart, Typed, HostTypes
<1>2. /\ turn' \in Turns /\ turn'.step = "lease" /\ turn'.kind = "start" /\ turn'.version = v
      /\ turn'.n = turns + 1 /\ turn'.active = NoRecipe
  BY <1>1, TurningType
<1>3. versions[v] \in Definitions /\ board2.profile \in Profiles /\ v \in Nat
  BY <1>1 DEF Typed, HostTypes, BoardTypes, Boards
<1>4. PICK a \in Archived : a = [phase |-> "awaiting_device", recipe |-> Compiled(v, versions[v], board2.profile)]
  BY <1>3, CompiledType DEF Archived
<1>5. turns' \in Starts /\ turns' \in 0..MaxTurns
  BY <1>1 DEF Starts
<1>6. archive' = [archive EXCEPT ![turns'] = a] /\ archive \in [Starts -> Archived]
  BY <1>4 DEF BeginStart, Typed, HostTypes
<1>7. archive' \in [Starts -> Archived] /\ archive'[turns'] = a
        /\ \A n \in Starts \ {turns'} : archive'[n] = archive[n]
  BY <1>5, <1>6
<1>8. HostTypes' /\ BoardTypes'
  BY <1>2, <1>5, <1>7, HostOnly DEF BeginStart, Typed, HostTypes
<1>9. TurnFormed'
  BY <1>1, <1>2 DEF TurnFormed, BeginStart
<1>10. QED BY <1>1, <1>2, <1>4, <1>5, <1>7, <1>8, <1>9 DEF Typed

(* The lease is the board's; taking it moves the revision on.              *)
LEMMA EnsureLeaseTyped ==
  ASSUME Typed, EnsureLease
  PROVE  /\ Typed' /\ SameBoard
         /\ turn'.step = "bind" /\ turn'.kind = turn.kind /\ turn'.version = turn.version
              /\ turn'.n = turn.n
         /\ turn'.active = board2.active
<1>1. turn \in Turns /\ channel.id \in Nat /\ board2 \in Boards /\ flash \in Flashes
        /\ board2.active \in Recipes
  BY DEF Typed, HostTypes, BoardTypes, Boards
<1>2. /\ turn' \in Turns /\ turn'.step = "bind" /\ turn'.kind = turn.kind
           /\ turn'.version = turn.version
      /\ turn'.n = turn.n /\ turn'.active = board2.active
  BY <1>1 DEF EnsureLease, Turns, Steps
<1>3. SameBoard
  <2>1. CASE UNCHANGED <<board2, flash>>
    BY <1>1, <2>1 DEF SameBoard, Boards
  <2>2. CASE /\ board2' = [board2 EXCEPT !.lease = channel.id, !.revision = @ + 1]
             /\ flash' = [flash EXCEPT !.revision = board2'.revision]
    <3>0. PICK m \in Nat : m = board2.revision + 1 /\ m >= board2.revision
      BY <1>1 DEF Boards
    <3>1. PICK b : b = [board2 EXCEPT !.lease = channel.id, !.revision = m]
      OBVIOUS
    <3>2. /\ b \in Boards /\ b.revision = m
          /\ b.active = board2.active /\ b.run = board2.run /\ b.outcome = board2.outcome
          /\ b.profile = board2.profile /\ b.boot = board2.boot
      <4>1. board2 \in Boards /\ channel.id \in Nat
        BY <1>1
      <4>2. QED BY <3>1, <4>1 DEF Boards
    <3>3. PICK g : g = [flash EXCEPT !.revision = b.revision]
      OBVIOUS
    <3>4. g \in Flashes /\ g.active = flash.active /\ g.run = flash.run /\ g.outcome = flash.outcome
      BY <1>1, <3>2, <3>3 DEF Flashes
    <3>5. board2' = b /\ flash' = g
      BY <2>2, <3>0, <3>1, <3>3
    <3>6. QED BY <3>0, <3>2, <3>4, <3>5 DEF SameBoard
  <2>3. QED BY <2>1, <2>2 DEF EnsureLease
<1>4. HostTypes' /\ BoardTypes'
  BY <1>2, <1>3 DEF EnsureLease, Typed, HostTypes, BoardTypes, SameBoard
<1>5. TurnFormed'
  BY <1>2 DEF EnsureLease, TurnFormed, Typed
<1>6. QED BY <1>2, <1>3, <1>4, <1>5 DEF Typed

(* What is compiled is a saved version, for the profile of the board.      *)
LEMMA BindTyped ==
  ASSUME Typed, BindRecipe \/ BindRun
  PROVE  LET r == Compiled(turn.version, versions[turn.version], board2.profile)
         IN /\ Typed' /\ SameTurn /\ turn'.recipe = r /\ Saved(r)
            /\ r.version = turn.version /\ r.profile = board2.profile /\ turn.version >= 1
            /\ turn'.step = IF turn.kind = "start" THEN "submit" ELSE "begin"
<1> DEFINE r == Compiled(turn.version, versions[turn.version], board2.profile)
<1>1. /\ turn \in Turns /\ turn.step = "bind" /\ turn.version \in 1..Len(versions)
           /\ versions \in Seq(Definitions)
      /\ turn.n \in 1..turns /\ turns \in 0..MaxTurns
      /\ board2.profile \in Profiles
  BY DEF Typed, HostTypes, BoardTypes, TurnFormed, BindRecipe, BindRun, Boards
<1>2. /\ r \in Recipes /\ r.version = turn.version /\ r.definition = versions[turn.version]
           /\ r.profile = board2.profile
  BY <1>1, CompiledType
<1>3. Executable(r.definition, r.profile)
  BY DEF BindRecipe, BindRun
<1>4. Saved(r)
  BY <1>1, <1>2, <1>3 DEF Saved
<1>5. turn' = [turn EXCEPT !.step = IF turn.kind = "start" THEN "submit" ELSE "begin", !.recipe = r]
  BY DEF BindRecipe, BindRun
<1>6. runBound' \in [Starts -> Recipes] /\ bindings' \subseteq Recipes
  <2>1. turn.n \in Starts
    BY <1>1 DEF Starts
  <2>2. QED BY <1>2, <2>1 DEF BindRecipe, BindRun, Typed, HostTypes
<1> HIDE DEF r
<1>7. turn' \in Turns /\ SameTurn /\ turn'.recipe = r
        /\ turn'.step = IF turn.kind = "start" THEN "submit" ELSE "begin"
  BY <1>1, <1>2, <1>5 DEF Turns, Steps, SameTurn
<1>8. HostTypes' /\ BoardTypes'
  BY <1>6, <1>7, HostOnly DEF BindRecipe, BindRun, Typed, HostTypes
<1>9. TurnFormed'
  BY <1>1, <1>7 DEF BindRecipe, BindRun, TurnFormed, Typed, SameTurn
<1>10. QED BY <1>1, <1>2, <1>4, <1>7, <1>8, <1>9 DEF Typed, r

LEMMA TableType ==
  ASSUME NEW b \in Boards, NEW s, NEW u \in Uploads, NEW c, c = [b EXCEPT !.uploads[s] = u]
  PROVE  /\ c \in Boards /\ c.active = b.active /\ c.run = b.run /\ c.outcome = b.outcome
         /\ c.profile = b.profile /\ c.boot = b.boot /\ c.revision = b.revision
<1>1. PICK t \in Tables : t = [b.uploads EXCEPT ![s] = u]
  BY DEF Boards, Tables
<1>2. c = [b EXCEPT !.uploads = t]
  BY <1>1
<1>3. QED BY <1>2 DEF Boards

LEMMA SameRevision ==
  ASSUME BoardTypes, board2' \in Boards, flash' = flash,
         board2'.active = board2.active, board2'.run = board2.run, board2'.outcome = board2.outcome,
         board2'.profile = board2.profile, board2'.boot = board2.boot, board2'.revision = board2.revision
  PROVE  SameBoard
<1>1. board2.revision \in Nat
  BY DEF BoardTypes, Boards
<1>2. QED BY <1>1 DEF SameBoard, BoardTypes

LEMMA UploadTyped ==
  ASSUME Typed, UploadBegin \/ UploadChunk
  PROVE  /\ Typed' /\ SameBoard /\ SameTurn /\ turn'.recipe = turn.recipe
         /\ turn.step \in {"begin", "chunks"} /\ turn'.step \in {"chunks", "submit"}
<1>1. turn \in Turns /\ turn.recipe \in Recipes /\ board2 \in Boards /\ flash \in Flashes
  BY DEF Typed, HostTypes, BoardTypes, Turns
<1>2. PICK u \in Uploads : board2' = [board2 EXCEPT !.uploads[channel.id] = u] \/ board2' = board2
  <2>1. CASE UploadBegin
    <3>1. PICK u \in Uploads : u = [recipe |-> turn.recipe, chunks |-> 0]
      BY <1>1 DEF Uploads
    <3>2. QED BY <2>1, <3>1 DEF UploadBegin
  <2>2. CASE UploadChunk
    <3>1. board2.uploads \in Tables
      BY <1>1 DEF Boards
    <3>2. CASE channel.id \in 1..MaxRecipeSession
      <4>1. board2.uploads[channel.id] \in Uploads
        BY <3>1, <3>2 DEF Tables
      <4>2. PICK m \in Nat : m = board2.uploads[channel.id].chunks + 1
        BY <4>1 DEF Uploads
      <4>3. PICK u \in Uploads : u = [board2.uploads[channel.id] EXCEPT !.chunks = m]
        BY <4>1 DEF Uploads
      <4>4. board2' = [board2 EXCEPT !.uploads[channel.id] = u]
        BY <2>2, <4>2, <4>3 DEF UploadChunk
      <4>5. QED BY <4>4
    <3>3. CASE channel.id \notin 1..MaxRecipeSession
      <4>1. [board2.uploads EXCEPT ![channel.id].chunks = @ + 1] = board2.uploads
        BY <3>1, <3>3 DEF Tables
      <4>2. board2' = [board2 EXCEPT !.uploads = board2.uploads]
        BY <2>2, <4>1 DEF UploadChunk
      <4>3. board2' = board2
        BY <1>1, <4>2 DEF Boards
      <4>4. QED BY <4>3, NoRecipeType
    <3>4. QED BY <3>2, <3>3
  <2>3. QED BY <2>1, <2>2
<1>3. flash' = flash
        /\ UNCHANGED <<versions, drafts, bindings, archive, runBound, turns, confirmed, channel, sent>>
  BY DEF UploadBegin, UploadChunk
<1>4. SameBoard
  <2>1. PICK b : b = [board2 EXCEPT !.uploads[channel.id] = u]
    OBVIOUS
  <2>2. /\ b \in Boards /\ b.active = board2.active /\ b.run = board2.run /\ b.outcome = board2.outcome
        /\ b.profile = board2.profile /\ b.boot = board2.boot /\ b.revision = board2.revision
    BY <1>1, <2>1, TableType
  <2>3. board2' = b \/ board2' = board2
    BY <1>2, <2>1
  <2>4. QED BY <1>1, <1>3, <2>2, <2>3, SameRevision DEF Typed
<1>5. /\ turn.step \in {"begin", "chunks"}
      /\ turn' \in {turn, [turn EXCEPT !.step = "chunks"], [turn EXCEPT !.step = "submit"]}
      /\ turn'.step \in {"chunks", "submit"}
  BY <1>1 DEF UploadBegin, UploadChunk, Turns
<1>6. turn' \in Turns /\ SameTurn /\ turn'.recipe = turn.recipe
  BY <1>1, <1>5 DEF Turns, Steps, SameTurn
<1>7. HostTypes' /\ BoardTypes'
  BY <1>3, <1>4, <1>6 DEF Typed, HostTypes, BoardTypes, SameBoard
<1>8. TurnFormed'
  BY <1>3, <1>5, <1>6 DEF TurnFormed, Typed, SameTurn
<1>9. QED BY <1>4, <1>5, <1>6, <1>7, <1>8 DEF Typed

(* The one frame of a turn.                                                *)
LEMMA SubmitTyped ==
  ASSUME Typed, SubmitActivate \/ SubmitStart
  PROVE  /\ Typed' /\ SameTurn /\ turn.step = "submit" /\ turn'.step = "answer"
         /\ UNCHANGED <<versions, bindings, archive, runBound, turns, board2, flash>>
         /\ confirmed' = IF turn.kind = "start" THEN confirmed ELSE NoRecipe
         /\ \E f \in Commands : /\ sent' = sent \cup {f}
                                /\ f.kind = turn.kind /\ f.n = turn.n /\ f.recipe = turn.recipe
                                /\ f.revision = board2.revision
<1>1. /\ turn \in Turns /\ turn.step = "submit" /\ turn.kind \in {"activate", "start"}
      /\ turn.n \in 1..MaxTurns /\ turn.recipe \in Recipes /\ turn.active \in Recipes
      /\ channel.id \in Nat /\ board2 \in Boards /\ board2.boot \in Nat /\ board2.revision \in Nat
  <2>1. turn.n \in 1..turns /\ turns \in 0..MaxTurns
    BY DEF Typed, TurnFormed, HostTypes, SubmitActivate, SubmitStart
  <2>2. QED BY <2>1 DEF Typed, TurnFormed, HostTypes, BoardTypes, Turns, Boards, SubmitActivate,
       SubmitStart
<1>2. PICK f \in Commands : f = [kind |-> turn.kind, n |-> turn.n, session |-> channel.id,
                                 boot |-> board2.boot, revision |-> board2.revision,
                                 recipe |-> turn.recipe, active |-> turn.active]
  BY <1>1 DEF Commands
<1>3. /\ sent' = sent \cup {f} /\ turn' = [turn EXCEPT !.step = "answer"]
      /\ UNCHANGED <<versions, drafts, bindings, archive, runBound, turns, channel, board2, flash>>
      /\ confirmed' = IF turn.kind = "start" THEN confirmed ELSE NoRecipe
  BY <1>2 DEF SubmitActivate, SubmitStart, Submit
<1>4. turn' \in Turns /\ SameTurn /\ turn'.step = "answer"
  BY <1>1, <1>3 DEF Turns, Steps, SameTurn
<1>5. HostTypes' /\ BoardTypes'
  BY <1>3, <1>4, NoRecipeType DEF Typed, HostTypes, BoardTypes
<1>6. TurnFormed'
  BY <1>1, <1>3, <1>4 DEF TurnFormed, Typed, SameTurn
<1>7. QED BY <1>1, <1>2, <1>3, <1>4, <1>5, <1>6 DEF Typed

LEMMA ConfirmTyped ==
  ASSUME Typed, ConfirmActive
  PROVE  /\ Typed' /\ turn' = NoTurn /\ turn.step = "readback"
         /\ confirmed' = board2.active
         /\ UNCHANGED <<versions, bindings, archive, runBound, turns, sent, board2, flash>>
<1>1. /\ turn' = NoTurn /\ turn.step = "readback" /\ confirmed' = board2.active
      /\ UNCHANGED <<versions, drafts, bindings, archive, runBound, turns, channel, sent, board2, flash>>
  BY DEF ConfirmActive
<1>2. board2.active \in Recipes
  BY DEF Typed, BoardTypes, Boards
<1>3. HostTypes' /\ BoardTypes'
  BY <1>1, <1>2, HostOnly, NoRecipeType DEF Typed, HostTypes
<1>4. QED BY <1>1, <1>3, TurnOver DEF Typed

(* A turn that ends, or reads back what it activated.                      *)
EndsTurn(phase) ==
  /\ archive' = Closing(phase) /\ phase \in {"preheat", "closed", "needs_review"}
  /\ turn' = NoTurn \/ (turn'.step = "readback" /\ SameTurn /\ turn.kind = "activate")
  /\ UNCHANGED <<versions, bindings, runBound, turns, confirmed, sent, board2, flash>>

LEMMA EndTyped ==
  ASSUME Typed, AnswerCommand \/ TurnFails \/ HostDies
  PROVE  /\ Typed'
         /\ \/ EndsTurn("needs_review") /\ turn' = NoTurn
            \/ EndsTurn("closed") /\ turn' = NoTurn /\ turn.step \notin {"none", "answer"}
            \/ /\ EndsTurn("closed") /\ turn' = NoTurn /\ turn.step = "answer"
               /\ board2.outcome.n = turn.n /\ board2.outcome.status = "rejected"
            \/ /\ EndsTurn("preheat") /\ turn.step = "answer"
               /\ board2.outcome.n = turn.n /\ board2.outcome.status \in {"applied", "accepted"}
<1>1. turn \in Turns /\ (turn.step = "answer" => turn.kind \in {"activate", "start"})
  BY DEF Typed, HostTypes, TurnFormed, Turns
<1>2. /\ drafts' \subseteq drafts
           /\ UNCHANGED <<versions, bindings, runBound, turns, confirmed, sent, board2, flash>>
      /\ channel' \in [id : Nat, up : BOOLEAN]
  BY DEF AnswerCommand, TurnFails, HostDies, Typed, BoardTypes
<1>3. ASSUME turn' \in Turns, NEW phase \in {"preheat", "closed", "needs_review"}, archive' = Closing(phase)
      PROVE  HostTypes' /\ BoardTypes'
  BY <1>2, <1>3, ClosingType DEF Typed, HostTypes, BoardTypes
<1>4. ASSUME turn' = NoTurn, NEW phase \in {"preheat", "closed", "needs_review"}, archive' = Closing(phase)
      PROVE  Typed' /\ EndsTurn(phase)
  BY <1>2, <1>3, <1>4, NoRecipeType, TurnOver DEF Typed, EndsTurn
<1>5. CASE HostDies
  BY <1>4, <1>5 DEF HostDies
<1>6. CASE TurnFails
  BY <1>4, <1>6 DEF TurnFails
<1>7. CASE AnswerCommand /\ turn' # NoTurn
  <2>1. /\ turn' = [turn EXCEPT !.step = "readback"] /\ turn.kind # "start" /\ turn.step = "answer"
        /\ archive' = Closing("preheat")
        /\ board2.outcome.n = turn.n /\ board2.outcome.status \in {"applied", "accepted"}
    BY <1>7 DEF AnswerCommand, Succeeded
  <2>2. turn' \in Turns /\ SameTurn /\ turn'.step = "readback" /\ turn.kind = "activate"
    BY <1>1, <2>1 DEF Turns, Steps, SameTurn
  <2>3. TurnFormed'
    BY <1>2, <2>1, <2>2 DEF Typed, TurnFormed, SameTurn
  <2>4. QED BY <1>2, <1>3, <2>1, <2>2, <2>3 DEF Typed, EndsTurn
<1>8. CASE AnswerCommand /\ turn' = NoTurn
  BY <1>4, <1>8 DEF AnswerCommand, Succeeded
<1>9. QED BY <1>5, <1>6, <1>7, <1>8

-----------------------------------------------------------------------------
(* The board takes a command: it is refused, or has its effect, which a     *)
(* power cut may yet undo.                                                 *)

Refused(f) ==
  /\ board2'.active = board2.active /\ board2'.run = board2.run
  /\ board2'.revision = board2.revision
  /\ board2'.outcome = Outcome(f, "rejected")
  /\ flash'.active = board2.active /\ flash'.run = board2.run /\ flash'.outcome = board2'.outcome

Done(f) ==
  /\ Permitted(f)
  /\ board2'.revision = board2.revision + 1
  /\ board2'.outcome.n = f.n /\ board2'.outcome.status \in {"applied", "accepted", "unknown"}
  /\ flash'.outcome.n = f.n /\ flash'.outcome.status \in {"applied", "accepted", "unknown"}
  /\ \/ flash'.active = board2'.active
     \/ board2'.outcome.status = "unknown" /\ flash'.active = flash.active
  /\ \/ /\ f.kind = "start" /\ board2'.active = board2.active
        /\ board2'.run = [n |-> f.n, recipe |-> f.recipe, profile |-> board2.profile]
        /\ flash'.run = board2'.run
        /\ flash'.active = board2.active
     \/ /\ f.kind = "activate" /\ board2'.active = f.recipe /\ board2'.run = board2.run
        /\ flash'.run \in {flash.run, board2.run}

LEMMA OutcomeType ==
  ASSUME NEW f \in Commands, NEW status \in {"rejected", "accepted", "applied", "unknown"}
  PROVE  /\ Outcome(f, status) \in Outcomes
         /\ Outcome(f, status).n = f.n /\ Outcome(f, status).status = status
BY DEF Outcome, Outcomes, Commands

LEMMA DurableType ==
  ASSUME NEW b \in Boards
  PROVE  /\ Durable(b) \in Flashes
         /\ Durable(b).active = b.active /\ Durable(b).run = b.run /\ Durable(b).outcome = b.outcome
         /\ Durable(b).revision = b.revision
BY DEF Durable, Boards, Flashes

LEMMA RefusedBoard ==
  ASSUME Typed, NEW f \in sent, ~Permitted(f)
  PROVE  /\ Effect(f) \in Boards
         /\ Effect(f).active = board2.active /\ Effect(f).run = board2.run
         /\ Effect(f).revision = board2.revision /\ Effect(f).profile = board2.profile
         /\ Effect(f).boot = board2.boot
         /\ Effect(f).outcome = Outcome(f, "rejected")
<1>1. f \in Commands /\ board2 \in Boards
  BY DEF Typed, BoardTypes
<1>2. PICK o \in Outcomes : o = Outcome(f, "rejected")
  BY <1>1, OutcomeType
<1>3. Effect(f) = [board2 EXCEPT !.outcome = o]
  BY <1>2 DEF Effect
<1>4. QED BY <1>1, <1>2, <1>3 DEF Boards

LEMMA DoneBoard ==
  ASSUME Typed, NEW f \in sent, Permitted(f)
  PROVE  /\ Effect(f) \in Boards
         /\ Effect(f).revision = board2.revision + 1 /\ Effect(f).profile = board2.profile
         /\ Effect(f).boot = board2.boot
         /\ \/ /\ f.kind = "start" /\ Effect(f).active = board2.active
               /\ Effect(f).outcome = Outcome(f, "accepted")
               /\ Effect(f).run = [n |-> f.n, recipe |-> f.recipe, profile |-> board2.profile]
            \/ /\ f.kind = "activate" /\ Effect(f).active = f.recipe /\ Effect(f).run = board2.run
               /\ Effect(f).outcome = Outcome(f, "applied")
<1>1. f \in Commands /\ board2 \in Boards /\ f.recipe \in Recipes /\ f.n \in 1..MaxTurns
        /\ f.kind \in {"activate", "start"}
      /\ board2.profile \in Profiles
  BY DEF Typed, BoardTypes, Commands, Boards
<1>2. PICK m \in Nat : m = board2.revision + 1
  BY <1>1 DEF Boards
<1>3. CASE f.kind = "start"
  <2>1. PICK o \in Outcomes : o = Outcome(f, "accepted")
    BY <1>1, OutcomeType
  <2>2. PICK run \in Running : run = [n |-> f.n, recipe |-> f.recipe, profile |-> board2.profile]
    <3>1. f.n \in 0..MaxTurns /\ board2.profile \in 0..2
      BY <1>1 DEF Profiles
    <3>2. QED BY <1>1, <3>1 DEF Running
  <2>3. board2.active = f.recipe
    BY <1>3 DEF Permitted
  <2>4. Effect(f) = [board2 EXCEPT !.revision = m, !.outcome = o, !.run = run]
    BY <1>2, <1>3, <2>1, <2>2, <2>3 DEF Effect
  <2>5. QED BY <1>1, <1>2, <1>3, <2>1, <2>2, <2>4 DEF Boards
<1>4. CASE f.kind = "activate"
  <2>1. PICK o \in Outcomes : o = Outcome(f, "applied")
    BY <1>1, OutcomeType
  <2>2. PICK t \in Tables : t = [board2.uploads EXCEPT ![f.session] = NoUpload]
    BY <1>1, NoRecipeType DEF Boards, Tables
  <2>3. Effect(f) = [board2 EXCEPT !.revision = m, !.outcome = o, !.active = f.recipe, !.uploads = t]
    BY <1>2, <1>4, <2>1, <2>2 DEF Effect
  <2>4. QED BY <1>1, <1>2, <1>4, <2>1, <2>2, <2>3 DEF Boards
<1>5. QED BY <1>1, <1>3, <1>4

LEMMA TakeTyped ==
  ASSUME Typed, NEW f \in sent, TakeCommand(f)
  PROVE  /\ Typed' /\ sent' = sent \ {f} /\ UNCHANGED hostRecipes /\ f \in Commands
         /\ board2'.profile = board2.profile
         /\ SameBoard \/ Refused(f) \/ Done(f)
<1>1. f \in Commands /\ sent' = sent \ {f} /\ UNCHANGED <<hostRecipes, channel>>
  BY DEF TakeCommand, Typed, BoardTypes
<1>2. ASSUME board2' \in Boards, flash' \in Flashes PROVE Typed'
  BY <1>1, <1>2 DEF Typed, HostTypes, BoardTypes, TurnFormed, hostRecipes
<1>3. PICK b : b = Effect(f)
  OBVIOUS
<1>4. b \in Boards /\ b.profile = board2.profile
  BY <1>3, RefusedBoard, DoneBoard
<1>5. CASE board2' = b /\ flash' = Durable(b) /\ ~Permitted(f)
  BY <1>1, <1>2, <1>3, <1>4, <1>5, RefusedBoard, DurableType DEF Refused
<1>6. CASE board2' = b /\ flash' = Durable(b) /\ Permitted(f)
  <2>1. Typed'
    BY <1>2, <1>4, <1>6, DurableType
  <2>2. Done(f)
    BY <1>1, <1>3, <1>4, <1>6, DoneBoard, DurableType, OutcomeType DEF Done
  <2>3. QED BY <1>1, <1>4, <1>6, <2>1, <2>2
<1>7. CASE UNCHANGED <<board2, flash>>
  BY <1>1, <1>2, <1>7, SameRevision DEF Typed, BoardTypes
<1>8. CASE /\ Permitted(f) /\ board2' = [b EXCEPT !.outcome.status = "unknown"]
           /\ flash' = IF f.kind = "start"
                       THEN [Durable(board2') EXCEPT !.outcome.status = "accepted"]
                       ELSE [flash EXCEPT !.outcome = Outcome(f, "accepted")]
  <2>1. b.outcome \in {Outcome(f, "accepted"), Outcome(f, "applied")}
    BY <1>3, <1>8, DoneBoard
  <2>2. PICK o \in Outcomes : o = Outcome(f, "unknown") /\ o.n = f.n /\ o.status = "unknown"
    BY <1>1, OutcomeType
  <2>3. PICK c : c = [b EXCEPT !.outcome = o]
    OBVIOUS
  <2>4. /\ c \in Boards /\ c.active = b.active /\ c.run = b.run /\ c.revision = b.revision
             /\ c.outcome = o
        /\ c.profile = b.profile
    BY <1>4, <2>3 DEF Boards
  <2>5. board2' = c
    <3>1. [b.outcome EXCEPT !.status = "unknown"] = o
      BY <2>1, <2>2 DEF Outcome
    <3>2. QED BY <1>8, <2>3, <3>1
  <2>6. PICK a \in Outcomes : a = Outcome(f, "accepted") /\ a.n = f.n /\ a.status = "accepted"
    BY <1>1, OutcomeType
  <2>7. CASE f.kind = "start"
    <3>1. PICK d \in Flashes : d = Durable(c) /\ d.active = c.active /\ d.run = c.run /\ d.outcome = o
      BY <2>4, DurableType
    <3>2. [o EXCEPT !.status = "accepted"] = a
      BY <2>2, <2>6 DEF Outcome
    <3>3. flash' = [d EXCEPT !.outcome = a]
      BY <1>8, <2>5, <2>7, <3>1, <3>2
    <3>4. flash' \in Flashes /\ flash'.active = c.active /\ flash'.run = c.run /\ flash'.outcome = a
      BY <2>6, <3>1, <3>3 DEF Flashes
    <3>5. Done(f)
      BY <1>3, <1>8, <2>2, <2>4, <2>5, <2>6, <2>7, <3>4, DoneBoard DEF Done
    <3>6. QED BY <1>1, <1>2, <1>4, <2>4, <2>5, <3>4, <3>5
  <2>8. CASE f.kind = "activate"
    <3>1. flash' = [flash EXCEPT !.outcome = a] /\ flash \in Flashes
      BY <1>8, <2>6, <2>8 DEF Typed, BoardTypes
    <3>2. flash' \in Flashes /\ flash'.active = flash.active /\ flash'.run = flash.run
            /\ flash'.outcome = a
      BY <2>6, <3>1 DEF Flashes
    <3>3. Done(f)
      BY <1>3, <1>8, <2>2, <2>4, <2>5, <2>6, <2>8, <3>2, DoneBoard DEF Done
    <3>4. QED BY <1>1, <1>2, <1>4, <2>4, <2>5, <3>2, <3>3
  <2>9. QED BY <1>1, <2>7, <2>8 DEF Commands
<1>9. QED BY <1>3, <1>5, <1>6, <1>7, <1>8 DEF TakeCommand

-----------------------------------------------------------------------------
(* Sessions, power cuts, and the steps that touch no recipe.               *)

HostRests == UNCHANGED <<versions, bindings, archive, runBound, turn, turns, confirmed>>

(* The board goes on with the recipe, run and outcome it has; what survives *)
(* a power cut is what it was, or all of that.                             *)
Quiet ==
  /\ HostRests /\ sent' \subseteq sent
  /\ board2'.active = board2.active /\ board2'.run = board2.run
  /\ board2'.outcome = board2.outcome /\ board2'.profile = board2.profile
  /\ board2'.revision >= board2.revision
  /\ \/ flash'.active = flash.active /\ flash'.run = flash.run /\ flash'.outcome = flash.outcome
     \/ flash'.active = board2.active /\ flash'.run = board2.run /\ flash'.outcome = board2.outcome

LEMMA QuietTyped ==
  ASSUME Typed, HostRests, drafts' = drafts, channel' \in [id : Nat, up : BOOLEAN],
         sent' \subseteq sent, board2' \in Boards, flash' \in Flashes
  PROVE  Typed'
BY DEF Typed, HostTypes, BoardTypes, TurnFormed, HostRests

LEMMA SessionClosedBoard ==
  ASSUME Typed, NEW s \in 1..MaxRecipeSession, SessionClosed(s)
  PROVE  /\ board2' \in Boards /\ board2'.active = board2.active /\ board2'.run = board2.run
         /\ board2'.outcome = board2.outcome /\ board2'.profile = board2.profile
         /\ board2'.revision >= board2.revision
<1>1. board2 \in Boards /\ board2.lease \in Nat /\ board2.sessions \subseteq Nat
      /\ board2.uploads \in Tables /\ board2.revision \in Nat
  BY DEF Typed, BoardTypes, Boards
<1>2. PICK t \in Tables : t = [board2.uploads EXCEPT ![s] = NoUpload]
  BY <1>1, NoRecipeType DEF Tables
<1>3. PICK m \in Nat : /\ m = IF board2.lease = s THEN board2.revision + 1 ELSE board2.revision
                       /\ m >= board2.revision
  BY <1>1
<1>4. PICK l \in Nat : l = IF board2.lease = s THEN 0 ELSE board2.lease
  BY <1>1
<1>5. PICK ss \in SUBSET Nat : ss = board2.sessions \ {s}
  BY <1>1
<1>6. board2' = [board2 EXCEPT !.sessions = ss, !.uploads = t, !.lease = l, !.revision = m]
  BY <1>2, <1>3, <1>4, <1>5 DEF SessionClosed
<1>7. QED BY <1>1, <1>3, <1>6 DEF Boards

LEMMA QuietSteps ==
  ASSUME Typed,
         \/ SettleOwed \/ SessionLost \/ OpenSession
         \/ \E s \in 1..MaxRecipeSession : SessionClosed(s) \/ UploadExpires(s)
  PROVE  Typed' /\ Quiet
<1>1. /\ board2 \in Boards /\ flash \in Flashes /\ channel \in [id : Nat, up : BOOLEAN]
      /\ board2.revision \in Nat /\ board2.sessions \subseteq Nat
  BY DEF Typed, BoardTypes, Boards
<1>2. CASE SettleOwed
  <2>1. HostRests /\ UNCHANGED <<drafts, channel, sent, board2, flash>>
    BY <1>2 DEF SettleOwed, HostRests
  <2>2. QED BY <1>1, <2>1, QuietTyped DEF Quiet
<1>3. CASE SessionLost
  <2>1. /\ HostRests /\ UNCHANGED <<drafts, sent, board2, flash>>
        /\ channel' \in [id : Nat, up : BOOLEAN]
    BY <1>1, <1>3 DEF SessionLost, HostRests, hostRecipes
  <2>2. QED BY <1>1, <2>1, QuietTyped DEF Quiet
<1>4. CASE OpenSession
  <2>1. /\ HostRests /\ UNCHANGED <<drafts, sent, flash>>
        /\ channel' \in [id : Nat, up : BOOLEAN] /\ channel'.id \in Nat
    BY <1>1, <1>4 DEF OpenSession, HostRests, hostRecipes
  <2>2. PICK ss \in SUBSET Nat : ss = board2.sessions \cup {channel'.id}
    BY <1>1, <2>1
  <2>3. board2' = [board2 EXCEPT !.sessions = ss]
    BY <1>4, <2>2 DEF OpenSession
  <2>4. /\ board2' \in Boards /\ board2'.active = board2.active /\ board2'.run = board2.run
        /\ board2'.outcome = board2.outcome /\ board2'.profile = board2.profile
        /\ board2'.revision = board2.revision
    BY <1>1, <2>3 DEF Boards
  <2>5. QED BY <1>1, <2>1, <2>4, QuietTyped DEF Quiet
<1>5. ASSUME NEW s \in 1..MaxRecipeSession, SessionClosed(s) PROVE Typed' /\ Quiet
  <2>1. HostRests /\ UNCHANGED <<drafts, channel>> /\ sent' \subseteq sent
    BY <1>5 DEF SessionClosed, HostRests, hostRecipes
  <2>2. flash' = Durable(board2') \/ flash' = flash
    BY <1>5 DEF SessionClosed
  <2>3. PICK b \in Boards : b = board2'
    BY <1>5, SessionClosedBoard
  <2>4. flash' \in Flashes /\
        \/ flash'.active = flash.active /\ flash'.run = flash.run /\ flash'.outcome = flash.outcome
        \/ flash'.active = board2.active /\ flash'.run = board2.run /\ flash'.outcome = board2.outcome
    BY <1>1, <1>5, <2>2, <2>3, SessionClosedBoard, DurableType
  <2>5. Quiet
    BY <1>5, <2>1, <2>4, SessionClosedBoard DEF Quiet
  <2>6. QED BY <1>1, <2>1, <2>3, <2>4, <2>5, QuietTyped
<1>6. ASSUME NEW s \in 1..MaxRecipeSession, UploadExpires(s) PROVE Typed' /\ Quiet
  <2>1. HostRests /\ UNCHANGED <<drafts, channel, sent, flash>>
    BY <1>6 DEF UploadExpires, HostRests, hostRecipes
  <2>2. board2' = [board2 EXCEPT !.uploads[s] = NoUpload]
    BY <1>6 DEF UploadExpires
  <2>3. PICK c : c = [board2 EXCEPT !.uploads[s] = NoUpload]
    OBVIOUS
  <2>4. /\ c \in Boards /\ c.active = board2.active /\ c.run = board2.run /\ c.outcome = board2.outcome
        /\ c.profile = board2.profile /\ c.revision = board2.revision
    BY <1>1, <2>3, TableType, NoRecipeType
  <2>5. QED BY <1>1, <2>1, <2>2, <2>3, <2>4, QuietTyped DEF Quiet
<1>7. QED BY <1>2, <1>3, <1>4, <1>5, <1>6

(* The run is acknowledged: its archived session is closed.                *)
LEMMA AcknowledgeTyped ==
  ASSUME Typed, board2.run.n \in Starts, AcknowledgeRun
  PROVE  /\ Typed' /\ turn = NoTurn /\ turn' = NoTurn
         /\ UNCHANGED <<versions, bindings, runBound, turns, confirmed, sent>>
         /\ \A n \in Starts : archive'[n].recipe = archive[n].recipe
         /\ \A n \in Starts : n # board2.run.n => archive'[n] = archive[n]
         /\ board2'.run = NoRunning /\ board2'.active = board2.active
         /\ board2'.outcome = board2.outcome /\ board2'.profile = board2.profile
         /\ board2'.revision = board2.revision + 1
         /\ flash'.active = board2.active /\ flash'.run = NoRunning
         /\ flash'.outcome = board2.outcome
<1>1. /\ board2 \in Boards /\ board2.revision \in Nat
      /\ archive \in [Starts -> Archived] /\ archive[board2.run.n] \in Archived
  BY DEF Typed, HostTypes, BoardTypes, Boards
<1>2. PICK m \in Nat : m = board2.revision + 1
  BY <1>1
<1>3. PICK b : b = [board2 EXCEPT !.run = NoRunning, !.revision = m]
  OBVIOUS
<1>4. /\ b \in Boards /\ b.run = NoRunning /\ b.active = board2.active
      /\ b.outcome = board2.outcome /\ b.profile = board2.profile /\ b.revision = m
  BY <1>1, <1>3, NoRecipeType DEF Boards
<1>5. /\ board2' = b /\ flash' = Durable(b) /\ turn = NoTurn /\ turn' = NoTurn
      /\ UNCHANGED <<versions, drafts, bindings, runBound, turns, confirmed, channel, sent>>
  BY <1>2, <1>3 DEF AcknowledgeRun
<1>6. PICK a : a = [archive[board2.run.n] EXCEPT !.phase = "closed"]
  OBVIOUS
<1>7. archive' = [archive EXCEPT ![board2.run.n] = a]
  BY <1>6 DEF AcknowledgeRun
<1>8. /\ archive' \in [Starts -> Archived]
      /\ \A n \in Starts : archive'[n].recipe = archive[n].recipe
      /\ \A n \in Starts : n # board2.run.n => archive'[n] = archive[n]
  <2>1. a \in Archived /\ a.recipe = archive[board2.run.n].recipe
    BY <1>1, <1>6 DEF Archived
  <2>2. QED BY <1>1, <1>7, <2>1
<1>9. flash' \in Flashes /\ flash'.active = board2.active /\ flash'.run = NoRunning
      /\ flash'.outcome = board2.outcome
  BY <1>4, <1>5, DurableType
<1>10. HostTypes' /\ BoardTypes'
  BY <1>4, <1>5, <1>8, <1>9, NoRecipeType DEF Typed, HostTypes, BoardTypes
<1>11. QED BY <1>2, <1>4, <1>5, <1>8, <1>9, <1>10, TurnOver DEF Typed

(* What a power cut leaves; nothing sent before it is taken after it.      *)
LEMMA RestartTyped ==
  ASSUME Typed, NEW p \in Profiles, BoardRestarts(p)
  PROVE  /\ Typed' /\ HostRests /\ sent' = {}
         /\ board2'.active = flash.active /\ board2'.run = flash.run
         /\ board2'.profile >= board2.profile
         /\ board2'.outcome.n = flash.outcome.n
         /\ board2'.outcome.status # flash.outcome.status => board2'.outcome.status = "unknown"
         /\ flash'.active = flash.active /\ flash'.run = flash.run
         /\ flash'.outcome = board2'.outcome
<1>1. flash \in Flashes /\ board2 \in Boards /\ flash.outcome \in Outcomes /\ board2.boot \in Nat
      /\ flash.revision \in Nat /\ flash.active \in Recipes /\ flash.run \in Running
      /\ board2.profile \in Profiles /\ p \in {board2.profile, 2}
  BY DEF Typed, BoardTypes, Boards, Flashes, BoardRestarts
<1>2. PICK o : o = [flash.outcome EXCEPT !.status = IF @ = "accepted" THEN "unknown" ELSE @]
  OBVIOUS
<1>3. /\ o \in Outcomes /\ o.n = flash.outcome.n
      /\ o.status # flash.outcome.status => o.status = "unknown"
  BY <1>1, <1>2 DEF Outcomes
<1>4. PICK t \in Tables : t = [s \in 1..MaxRecipeSession |-> NoUpload]
  BY NoRecipeType DEF Tables
<1>5. PICK m \in Nat : m = board2.boot + 1
  BY <1>1
<1>6. PICK k \in Nat : k = flash.revision + 1
  BY <1>1
<1>7. board2' = [boot |-> m, profile |-> p, revision |-> k, active |-> flash.active,
                 run |-> flash.run, lease |-> 0, sessions |-> {}, outcome |-> o, uploads |-> t]
  BY <1>2, <1>4, <1>5, <1>6 DEF BoardRestarts
<1>8. /\ board2' \in Boards /\ board2'.active = flash.active /\ board2'.run = flash.run
      /\ board2'.profile = p /\ board2'.outcome = o
  BY <1>1, <1>3, <1>7 DEF Boards
<1>9. PICK b \in Boards : b = board2'
  BY <1>8
<1>10. flash' \in Flashes /\ flash'.active = flash.active /\ flash'.run = flash.run
       /\ flash'.outcome = o
  BY <1>8, <1>9, DurableType DEF BoardRestarts
<1>11. /\ HostRests /\ drafts' = drafts /\ sent' = {} /\ sent' \subseteq sent
       /\ channel' \in [id : Nat, up : BOOLEAN]
  BY DEF BoardRestarts, HostRests, hostRecipes, Typed, BoardTypes
<1>12. p >= board2.profile
  BY <1>1 DEF Profiles
<1>13. QED BY <1>3, <1>8, <1>10, <1>11, <1>12, QuietTyped

-----------------------------------------------------------------------------
(* The invariant, layer by layer.                                          *)

(* A number belongs to one turn, and what the board says of it it says      *)
(* once the only frame of that turn is gone.                               *)
Waiting == turn.step \in {"lease", "bind", "begin", "chunks", "submit"}
Taken   == {board2.outcome.n, flash.outcome.n, board2.run.n}

Numbered ==
  /\ \A f, g \in sent : f.n = g.n => f = g
  /\ \A f \in sent : f.n <= turns /\ f.n \notin Taken /\ (f.n = turn.n => turn.step = "answer")
  /\ Waiting => turn.n \notin Taken
  /\ \A n \in Taken : n <= turns
  /\ flash.run = board2.run /\ (board2.run # NoRunning => board2.run.n \in Starts)
  /\ \A o \in {board2.outcome, flash.outcome} :
       board2.run # NoRunning /\ o.n = board2.run.n => o.status # "rejected"

(* The profile a board is commissioned with only rises, so that what it     *)
(* holds was compiled for it or for the one before it.                     *)
Below(p) == /\ board2.active.profile <= p /\ flash.active.profile <= p /\ turn.active.profile <= p
            /\ \A f \in sent : f.kind = "activate" => f.recipe.profile <= p
Commissioned == Below(board2.profile) /\ (Compiling => turn.recipe.profile <= board2.profile)

(* The snapshot of a start, from its archive to its frame.                 *)
Snapshot(n, r) == archive[n].recipe = r /\ runBound[n] = r /\ archive[n].phase # "closed"

Started ==
  /\ turn.kind = "start" /\ Waiting =>
       /\ turn.step \in {"lease", "bind", "submit"} /\ archive[turn.n].phase # "closed"
       /\ IF turn.step = "submit" THEN Snapshot(turn.n, turn.recipe)
          ELSE \E p \in Profiles :
                 /\ archive[turn.n].recipe = Compiled(turn.version, versions[turn.version], p)
                 /\ p <= board2.profile /\ Below(p)
  /\ \A f \in sent : f.kind = "start" => Snapshot(f.n, f.recipe)

(* A frame is void once the revision it was sent under has passed, and what *)
(* is confirmed leaves none that is not.                                   *)
Void(kinds) == \A f \in sent : f.kind \in kinds => f.revision < board2.revision

Answered == \/ turn.step = "readback"
            \/ /\ turn.step = "answer" /\ board2.outcome.n = turn.n
               /\ board2.outcome.status \in {"applied", "accepted"}

Confirmable ==
  /\ \A f \in sent : f.revision <= board2.revision
  /\ board2.active # flash.active => board2.outcome.status = "unknown"
  /\ Answered => Void({"activate", "start"})
  /\ turn.step = "readback" => board2.active = flash.active
  /\ confirmed # NoRecipe =>
       board2.active = confirmed /\ flash.active = confirmed /\ Void({"activate"})

Followed == Typed /\ Bound /\ Numbered /\ Commissioned /\ Started /\ RunAsArchived
Holds    == Typed /\ Numbered /\ Confirmable

-----------------------------------------------------------------------------
(* Every step, as those layers see it.                                     *)

Saving == VersionsGrow
  /\ UNCHANGED <<bindings, archive, runBound, turn, turns, confirmed, sent, board2, flash>>

Beginning ==
  /\ turn = NoTurn /\ turns' = turns + 1 /\ turns' \in Starts
  /\ turn'.step = "lease" /\ turn'.n = turns' /\ turn'.kind \in {"activate", "start"}
  /\ turn'.active = NoRecipe
  /\ UNCHANGED <<versions, bindings, runBound, confirmed, sent, board2, flash>>
  /\ \A n \in Starts \ {turns'} : archive'[n] = archive[n]
  /\ turn'.kind = "start" =>
       /\ archive'[turns'].phase = "awaiting_device"
       /\ archive'[turns'].recipe = Compiled(turn'.version, versions[turn'.version], board2.profile)

Leasing ==
  /\ turn.step = "lease" /\ turn'.step = "bind"
  /\ turn'.kind = turn.kind /\ turn'.version = turn.version /\ turn'.n = turn.n
  /\ turn'.active = board2.active
  /\ SameBoard /\ UNCHANGED <<versions, bindings, archive, runBound, turns, confirmed, sent>>

Binding ==
  /\ turn.step = "bind" /\ SameTurn
  /\ turn'.recipe = Compiled(turn.version, versions[turn.version], board2.profile)
  /\ Saved(turn'.recipe) /\ turn'.recipe # NoRecipe /\ turn'.recipe.profile = board2.profile
  /\ UNCHANGED <<versions, archive, turns, confirmed, sent, board2, flash>>
  /\ \/ /\ turn.kind = "activate" /\ turn'.step = "begin"
        /\ runBound' = runBound /\ bindings' = bindings \cup {turn'.recipe}
     \/ /\ turn.kind = "start" /\ turn'.step = "submit" /\ turn'.recipe = turn.active
        /\ bindings' = bindings /\ runBound' = [runBound EXCEPT ![turn.n] = turn'.recipe]

Uploading ==
  /\ turn.step \in {"begin", "chunks"} /\ turn'.step \in {"chunks", "submit"}
  /\ SameTurn /\ turn'.recipe = turn.recipe
  /\ SameBoard /\ UNCHANGED <<versions, bindings, archive, runBound, turns, confirmed, sent>>

Submitting ==
  /\ turn.step = "submit" /\ turn'.step = "answer" /\ SameTurn
  /\ UNCHANGED <<versions, bindings, archive, runBound, turns, board2, flash>>
  /\ confirmed' = IF turn.kind = "start" THEN confirmed ELSE NoRecipe
  /\ \E f \in Commands : /\ sent' = sent \cup {f}
                         /\ f.kind = turn.kind /\ f.n = turn.n /\ f.recipe = turn.recipe
                         /\ f.revision = board2.revision

Confirming ==
  /\ turn.step = "readback" /\ turn' = NoTurn /\ confirmed' = board2.active
  /\ UNCHANGED <<versions, bindings, archive, runBound, turns, sent, board2, flash>>

Ending ==
  \/ EndsTurn("needs_review") /\ turn' = NoTurn
  \/ EndsTurn("closed") /\ turn' = NoTurn /\ turn.step \notin {"none", "answer"}
  \/ /\ EndsTurn("closed") /\ turn' = NoTurn /\ turn.step = "answer"
     /\ board2.outcome.n = turn.n /\ board2.outcome.status = "rejected"
  \/ /\ EndsTurn("preheat") /\ turn.step = "answer"
     /\ board2.outcome.n = turn.n /\ board2.outcome.status \in {"applied", "accepted"}

Taking(f) ==
  /\ f \in Commands /\ sent' = sent \ {f} /\ HostRests
  /\ board2'.profile = board2.profile
  /\ SameBoard \/ Refused(f) \/ Done(f)

Acknowledging ==
  /\ turn = NoTurn /\ turn' = NoTurn
  /\ UNCHANGED <<versions, bindings, runBound, turns, confirmed, sent>>
  /\ \A n \in Starts : archive'[n].recipe = archive[n].recipe
  /\ \A n \in Starts : n # board2.run.n => archive'[n] = archive[n]
  /\ board2'.run = NoRunning /\ board2'.active = board2.active
  /\ board2'.outcome = board2.outcome /\ board2'.profile = board2.profile
  /\ board2'.revision = board2.revision + 1
  /\ flash'.active = board2.active /\ flash'.run = NoRunning /\ flash'.outcome = board2.outcome

Restarting ==
  /\ HostRests /\ sent' = {}
  /\ board2'.active = flash.active /\ board2'.run = flash.run
  /\ board2'.profile >= board2.profile
  /\ board2'.outcome.n = flash.outcome.n
  /\ board2'.outcome.status # flash.outcome.status => board2'.outcome.status = "unknown"
  /\ flash'.active = flash.active /\ flash'.run = flash.run /\ flash'.outcome = board2'.outcome

LEMMA RecipeSteps ==
  ASSUME Typed, Numbered, [RecipeNext]_recipeVars
  PROVE  /\ Typed'
         /\ \/ Saving \/ Beginning \/ Leasing \/ Binding \/ Uploading \/ Submitting \/ Confirming
            \/ Ending \/ (\E f \in sent : Taking(f)) \/ Quiet \/ Acknowledging \/ Restarting
<1>1. CASE UNCHANGED recipeVars
  <2>1. HostRests /\ UNCHANGED <<drafts, channel, sent, board2, flash>>
    BY <1>1 DEF recipeVars, hostRecipes, HostRests
  <2>2. board2 \in Boards /\ flash \in Flashes /\ channel \in [id : Nat, up : BOOLEAN]
          /\ board2.revision \in Nat
    BY DEF Typed, BoardTypes, Boards
  <2>3. QED BY <2>1, <2>2, QuietTyped DEF Quiet
<1>2. CASE (\E d \in Definitions : Draft(d)) \/ (\E w \in drafts : InsertVersion(w))
  <2>1. UNCHANGED <<bindings, archive, runBound, turn, turns, confirmed, sent, board2, flash>>
    BY <1>2 DEF Draft, InsertVersion
  <2>2. QED BY <1>2, <2>1, SaveTyped DEF Saving
<1>3. ASSUME NEW v \in 1..MaxVersion, BeginActivate(v) PROVE Typed' /\ Beginning
  <2>1. /\ turn = NoTurn /\ turn' = Turning("activate", v) /\ turns' = turns + 1 /\ turns < MaxTurns
        /\ turns \in 0..MaxTurns
        /\ UNCHANGED <<versions, bindings, archive, runBound, confirmed, sent, board2, flash>>
    BY <1>3 DEF BeginActivate, Typed, HostTypes
  <2>2. /\ turn'.step = "lease" /\ turn'.kind = "activate" /\ turn'.n = turns'
             /\ turn'.active = NoRecipe
    BY <2>1, TurningType
  <2>3. QED BY <1>3, <2>1, <2>2, BeginActivateTyped DEF Beginning, Starts
<1>4. ASSUME NEW v \in 1..MaxVersion, BeginStart(v) PROVE Typed' /\ Beginning
  <2>1. turn = NoTurn /\ UNCHANGED <<versions, bindings, runBound, confirmed, sent, board2, flash>>
    BY <1>4 DEF BeginStart
  <2>2. PICK r : r = Compiled(v, versions[v], board2.profile)
    OBVIOUS
  <2>3. /\ turn'.kind = "start" /\ turn'.version = v
        /\ archive'[turns'] = [phase |-> "awaiting_device", recipe |-> r]
        /\ \A n \in Starts \ {turns'} : archive'[n] = archive[n]
    BY <1>4, <2>2, BeginStartTyped
  <2>4. archive'[turns'].phase = "awaiting_device" /\ archive'[turns'].recipe = r
    BY <2>3
  <2>5. r = Compiled(turn'.version, versions[turn'.version], board2.profile)
    BY <2>2, <2>3
  <2>6. QED BY <1>4, <2>1, <2>3, <2>4, <2>5, BeginStartTyped DEF Beginning
<1>5. CASE EnsureLease
  <2>1. turn.step = "lease"
          /\ UNCHANGED <<versions, bindings, archive, runBound, turns, confirmed, sent>>
    BY <1>5 DEF EnsureLease
  <2>2. QED BY <1>5, <2>1, EnsureLeaseTyped DEF Leasing
<1>6. CASE BindRecipe \/ BindRun
  <2> DEFINE r == Compiled(turn.version, versions[turn.version], board2.profile)
  <2>1. /\ Typed' /\ SameTurn /\ turn'.recipe = r /\ Saved(r)
        /\ r.version = turn.version /\ r.profile = board2.profile /\ turn.version >= 1
        /\ turn'.step = IF turn.kind = "start" THEN "submit" ELSE "begin"
    BY <1>6, BindTyped
  <2>2. r # NoRecipe /\ turn.version \in Nat
    <3>1. r # NoRecipe
      BY <2>1, NoRecipeType
    <3>2. turn.version \in Nat
      BY DEF Typed, HostTypes, Turns
    <3>3. QED BY <3>1, <3>2
  <2>3. turn.step = "bind" /\ UNCHANGED <<versions, archive, turns, confirmed, sent, board2, flash>>
    BY <1>6 DEF BindRecipe, BindRun
  <2>4. CASE BindRecipe
    <3>1. turn.kind = "activate" /\ runBound' = runBound /\ bindings' = bindings \cup {r}
      BY <2>4 DEF BindRecipe
    <3>2. QED BY <2>1, <2>2, <2>3, <3>1 DEF Binding
  <2>5. CASE BindRun
    <3>1. /\ turn.kind = "start" /\ r = turn.active /\ bindings' = bindings
          /\ runBound' = [runBound EXCEPT ![turn.n] = r]
      BY <2>5 DEF BindRun
    <3>2. QED BY <2>1, <2>2, <2>3, <3>1 DEF Binding
  <2>6. QED BY <1>6, <2>4, <2>5
<1>7. CASE UploadBegin \/ UploadChunk
  <2>1. UNCHANGED <<versions, bindings, archive, runBound, turns, confirmed, sent>>
    BY <1>7 DEF UploadBegin, UploadChunk
  <2>2. QED BY <1>7, <2>1, UploadTyped DEF Uploading
<1>8. CASE SubmitActivate \/ SubmitStart
  BY <1>8, SubmitTyped DEF Submitting
<1>9. CASE ConfirmActive
  BY <1>9, ConfirmTyped DEF Confirming
<1>10. CASE AnswerCommand \/ TurnFails \/ HostDies
  BY <1>10, EndTyped DEF Ending
<1>11. ASSUME NEW f \in sent, TakeCommand(f) PROVE Typed' /\ Taking(f)
  BY <1>11, TakeTyped DEF Taking, HostRests, hostRecipes
<1>12. CASE \/ SettleOwed \/ SessionLost \/ OpenSession
            \/ \E s \in 1..MaxRecipeSession : SessionClosed(s) \/ UploadExpires(s)
  BY <1>12, QuietSteps
<1>13. CASE AcknowledgeRun
  <2>1. board2.run.n \in Starts
    BY <1>13 DEF AcknowledgeRun, IdleBoard, Numbered
  <2>2. QED BY <1>13, <2>1, AcknowledgeTyped DEF Acknowledging
<1>14. ASSUME NEW p \in Profiles, BoardRestarts(p) PROVE Typed' /\ Restarting
  BY <1>14, RestartTyped DEF Restarting
<1>15. QED
  BY <1>1, <1>2, <1>3, <1>4, <1>5, <1>6, <1>7, <1>8, <1>9, <1>10, <1>11, <1>12, <1>13, <1>14
     DEF RecipeNext

-----------------------------------------------------------------------------
(* One turn, one number, one frame.                                        *)

LEMMA NumberedStep ==
  ASSUME Typed, Typed', Numbered, [RecipeNext]_recipeVars
  PROVE  Numbered'
<1>1. /\ turn \in Turns /\ turns \in 0..MaxTurns /\ sent \subseteq Commands
      /\ board2 \in Boards /\ flash \in Flashes
  BY DEF Typed, HostTypes, BoardTypes
<1>2. /\ \A f \in sent : f.n \in 1..MaxTurns
      /\ board2.outcome.n \in 0..MaxTurns /\ flash.outcome.n \in 0..MaxTurns
      /\ board2.run.n \in 0..MaxTurns
  BY <1>1 DEF Commands, Boards, Flashes, Running, Outcomes
<1>3. /\ turn.step = "none" => turn.n = 0
      /\ turn.step # "none" => turn.n \in 1..turns
  BY NoRecipeType DEF Typed, TurnFormed
<1>4. NoTurn.step = "none" /\ NoTurn.n = 0 /\ NoRunning.n = 0
  BY NoRecipeType
<1>5. ASSUME sent' \subseteq sent, turns' = turns, turn'.n = turn.n,
             turn.step = "answer" => turn'.step = "answer", Waiting' => Waiting,
             Taken' \subseteq Taken, flash'.run = board2'.run,
             board2'.run \in {board2.run, NoRunning},
             \A o \in {board2'.outcome, flash'.outcome} :
               \/ o \in {board2.outcome, flash.outcome}
               \/ o.status # "rejected"
      PROVE  Numbered'
  <2>1. /\ \A f, g \in sent' : f.n = g.n => f = g
        /\ \A f \in sent' : f.n <= turns' /\ f.n \notin Taken'
             /\ (f.n = turn'.n => turn'.step = "answer")
    BY <1>5 DEF Numbered
  <2>2. (Waiting' => turn'.n \notin Taken') /\ \A n \in Taken' : n <= turns'
    BY <1>5 DEF Numbered
  <2>3. board2'.run # NoRunning => board2'.run = board2.run /\ board2'.run.n \in Starts
    BY <1>5 DEF Numbered
  <2>4. \A o \in {board2'.outcome, flash'.outcome} :
          board2'.run # NoRunning /\ o.n = board2'.run.n => o.status # "rejected"
    BY <1>5, <2>3 DEF Numbered
  <2>5. QED BY <1>5, <2>1, <2>2, <2>3, <2>4 DEF Numbered
<1>6. ASSUME UNCHANGED <<board2, flash>> PROVE Taken' = Taken
  BY <1>6 DEF Taken
<1>7. CASE Saving
  BY <1>5, <1>6, <1>7 DEF Saving, Waiting, Numbered
<1>8. CASE Beginning
  <2>1. /\ turn'.n = turns + 1 /\ turns' = turns + 1 /\ turn'.step = "lease" /\ sent' = sent
        /\ UNCHANGED <<board2, flash>> /\ Taken' = Taken
    BY <1>6, <1>8 DEF Beginning
  <2>2. \A f \in sent' : f.n <= turns' /\ f.n \notin Taken' /\ (f.n = turn'.n => turn'.step = "answer")
    BY <1>1, <1>2, <2>1 DEF Numbered
  <2>3. (Waiting' => turn'.n \notin Taken') /\ \A n \in Taken' : n <= turns'
    BY <1>1, <1>2, <2>1 DEF Numbered, Taken
  <2>4. QED BY <2>1, <2>2, <2>3 DEF Numbered
<1>9. CASE Leasing
  <2>1. Taken' = Taken
    BY <1>9 DEF Leasing, SameBoard, Taken
  <2>2. QED BY <1>5, <1>9, <2>1 DEF Leasing, SameBoard, Waiting, Numbered
<1>10. CASE Binding
  BY <1>5, <1>6, <1>10 DEF Binding, SameTurn, Waiting, Numbered
<1>11. CASE Uploading
  <2>1. Taken' = Taken
    BY <1>11 DEF Uploading, SameBoard, Taken
  <2>2. QED BY <1>5, <1>11, <2>1 DEF Uploading, SameBoard, SameTurn, Waiting, Numbered
<1>12. CASE Submitting
  <2>1. PICK f \in Commands : sent' = sent \cup {f} /\ f.n = turn.n
    BY <1>12 DEF Submitting
  <2>2. /\ turn.step = "submit" /\ turn'.step = "answer" /\ turn'.n = turn.n /\ turns' = turns
        /\ UNCHANGED <<board2, flash>> /\ Taken' = Taken
    BY <1>6, <1>12 DEF Submitting, SameTurn
  <2>3. turn.n \notin Taken /\ \A g \in sent : g.n # turn.n
    BY <2>2 DEF Numbered, Waiting
  <2>4. \A g \in sent' : g.n <= turns' /\ g.n \notin Taken' /\ (g.n = turn'.n => turn'.step = "answer")
    BY <1>1, <1>3, <2>1, <2>2, <2>3 DEF Numbered
  <2>5. \A g, h \in sent' : g.n = h.n => g = h
    BY <2>1, <2>3 DEF Numbered
  <2>6. ~Waiting' /\ \A n \in Taken' : n <= turns'
    BY <2>2 DEF Numbered, Waiting
  <2>7. QED BY <2>2, <2>4, <2>5, <2>6 DEF Numbered
<1>13. CASE Confirming
  <2>1. /\ turn.step = "readback" /\ turn'.step = "none" /\ turn'.n = 0 /\ Taken' = Taken
        /\ UNCHANGED <<turns, sent, board2, flash>>
    BY <1>4, <1>6, <1>13 DEF Confirming
  <2>2. \A f \in sent' : f.n <= turns' /\ f.n \notin Taken' /\ (f.n = turn'.n => turn'.step = "answer")
    BY <1>2, <2>1 DEF Numbered
  <2>3. QED BY <2>1, <2>2 DEF Numbered, Waiting
<1>14. CASE Ending
  <2>1. UNCHANGED <<turns, sent, board2, flash>> /\ Taken' = Taken
    BY <1>6, <1>14 DEF Ending, EndsTurn
  <2>2. \/ turn'.step = "none" /\ turn'.n = 0
        \/ turn'.step = "readback" /\ turn'.n = turn.n /\ board2.outcome.n = turn.n
    BY <1>4, <1>14 DEF Ending, EndsTurn, SameTurn
  <2>3. \A f \in sent' : f.n <= turns' /\ f.n \notin Taken' /\ (f.n = turn'.n => turn'.step = "answer")
    BY <1>2, <2>1, <2>2 DEF Numbered, Taken
  <2>4. QED BY <2>1, <2>2, <2>3 DEF Numbered, Waiting
<1>15. CASE Quiet
  <2>1. Taken' \subseteq Taken
    BY <1>15 DEF Quiet, Taken
  <2>2. QED BY <1>5, <1>15, <2>1 DEF Quiet, HostRests, Waiting, Numbered
<1>16. CASE Restarting
  <2>1. Taken' \subseteq Taken
    BY <1>16 DEF Restarting, Numbered, Taken
  <2>2. /\ sent' = {} /\ turns' = turns /\ turn' = turn /\ flash'.run = board2'.run
        /\ board2'.run = board2.run /\ Waiting' = Waiting
    BY <1>16 DEF Restarting, HostRests, Numbered, Waiting
  <2>3. \A o \in {board2'.outcome, flash'.outcome} :
          o.n = flash.outcome.n /\ (o.status = "rejected" => flash.outcome.status = "rejected")
    BY <1>16 DEF Restarting
  <2>4. QED BY <2>1, <2>2, <2>3 DEF Numbered
<1>17. CASE Acknowledging
  <2>1. /\ UNCHANGED <<turns, sent, turn>> /\ turn.step = "none" /\ turn.n = 0
        /\ board2'.run = NoRunning /\ flash'.run = NoRunning
        /\ board2'.outcome = board2.outcome /\ flash'.outcome = board2.outcome
    BY <1>4, <1>17 DEF Acknowledging
  <2>2. Taken' \subseteq Taken \cup {0}
    BY <1>4, <2>1 DEF Taken
  <2>3. \A f \in sent' : f.n <= turns' /\ f.n \notin Taken' /\ (f.n = turn'.n => turn'.step = "answer")
    BY <1>2, <2>1, <2>2 DEF Numbered
  <2>4. \A n \in Taken' : n <= turns'
    BY <1>1, <2>1, <2>2 DEF Numbered
  <2>5. QED BY <2>1, <2>3, <2>4 DEF Numbered, Waiting
<1>18. ASSUME NEW f \in sent, Taking(f) PROVE Numbered'
  <2>1. sent' = sent \ {f} /\ UNCHANGED <<turn, turns>> /\ f \in Commands /\ f.n \in Starts
    BY <1>2, <1>18 DEF Taking, HostRests, Starts
  <2>2. CASE SameBoard
    <3>1. Taken' = Taken
      BY <2>2 DEF SameBoard, Taken
    <3>2. QED BY <1>5, <2>1, <2>2, <3>1 DEF SameBoard, Waiting, Numbered
  <2>3. CASE Refused(f) \/ Done(f)
    <3>1. /\ board2'.outcome.n = f.n /\ flash'.outcome.n = f.n /\ flash'.run = board2'.run
          /\ \/ board2'.run = board2.run
             \/ /\ board2'.run = [n |-> f.n, recipe |-> f.recipe, profile |-> board2.profile]
                /\ board2'.outcome.status # "rejected" /\ flash'.outcome.status # "rejected"
      <4>1. CASE Refused(f)
        <5>1. Outcome(f, "rejected").n = f.n
          BY DEF Outcome
        <5>2. QED BY <4>1, <5>1 DEF Refused
      <4>2. CASE Done(f)
        BY <4>2 DEF Done, Numbered
      <4>3. QED BY <2>3, <4>1, <4>2
    <3>2. Taken' \subseteq Taken \cup {f.n}
      BY <3>1 DEF Taken
    <3>3. /\ \A g, h \in sent' : g.n = h.n => g = h
          /\ \A g \in sent' : /\ g.n <= turns' /\ g.n \notin Taken'
                              /\ (g.n = turn'.n => turn'.step = "answer")
      BY <2>1, <3>2 DEF Numbered
    <3>4. Waiting' => turn'.n \notin Taken'
      BY <2>1, <3>2 DEF Numbered, Waiting
    <3>5. \A n \in Taken' : n <= turns'
      BY <2>1, <3>2 DEF Numbered
    <3>6. board2'.run # NoRunning => board2'.run.n \in Starts
      BY <2>1, <3>1 DEF Numbered
    <3>7. \A o \in {board2'.outcome, flash'.outcome} :
            board2'.run # NoRunning /\ o.n = board2'.run.n => o.status # "rejected"
      BY <3>1 DEF Numbered, Taken
    <3>8. QED BY <3>1, <3>3, <3>4, <3>5, <3>6, <3>7 DEF Numbered
  <2>4. QED BY <1>18, <2>2, <2>3 DEF Taking
<1>19. QED
  BY <1>7, <1>8, <1>9, <1>10, <1>11, <1>12, <1>13, <1>14, <1>15, <1>16, <1>17, <1>18, RecipeSteps

-----------------------------------------------------------------------------
(* What is bound stays saved, and nothing else is known.                   *)

LEMMA SavedStays ==
  ASSUME Typed, VersionsGrow, HostTypes', NEW r, Saved(r)
  PROVE  Saved(r)'
<1>1. Len(versions) \in Nat /\ Len(versions') \in Nat
  BY DEF Typed, HostTypes
<1>2. QED BY <1>1 DEF Saved, VersionsGrow

LEMMA StepGrows ==
  ASSUME Typed, Numbered, [RecipeNext]_recipeVars
  PROVE  VersionsGrow
<1>1. versions' = versions => VersionsGrow
  BY DEF VersionsGrow, Typed, HostTypes
<1>2. QED
  BY <1>1, RecipeSteps DEF Saving, Beginning, Leasing, Binding, Uploading, Submitting, Confirming,
     Ending, EndsTurn, Taking, Quiet, Acknowledging, Restarting, HostRests

LEMMA BoundStep ==
  ASSUME Typed, Typed', Numbered, Bound, [RecipeNext]_recipeVars
  PROVE  Bound'
<1>1. VersionsGrow /\ (\A r : Saved(r) => Saved(r)')
  BY StepGrows, SavedStays DEF Typed
<1>2. ASSUME bindings' = bindings,
             Known(board2.active)', Known(flash.active)', Known(turn.active)',
             \A f \in sent' : f.recipe \in bindings,
             Compiling' => turn'.recipe \in bindings
      PROVE  Bound'
  BY <1>1, <1>2 DEF Bound
<1>3. NoTurn.active = NoRecipe /\ NoTurn.step = "none"
  BY NoRecipeType
<1>4. CASE Saving
  BY <1>2, <1>4 DEF Saving, Bound, Known, Compiling
<1>5. CASE Beginning
  BY <1>2, <1>3, <1>5 DEF Beginning, Bound, Known, Compiling
<1>6. CASE Leasing
  BY <1>2, <1>6 DEF Leasing, SameBoard, Bound, Known, Compiling
<1>7. CASE Binding
  <2>1. CASE turn.kind = "activate"
    <3>1. \A r \in bindings' : Saved(r)'
      BY <1>1, <1>7, <2>1 DEF Binding, Bound
    <3>2. bindings \subseteq bindings' /\ turn'.recipe \in bindings'
      BY <1>7, <2>1 DEF Binding
    <3>3. UNCHANGED <<sent, board2, flash>> /\ turn'.active = turn.active
      BY <1>7 DEF Binding, SameTurn
    <3>4. QED BY <3>1, <3>2, <3>3 DEF Bound, Known
  <2>2. CASE turn.kind = "start"
    <3>1. /\ bindings' = bindings /\ UNCHANGED <<sent, board2, flash>> /\ turn'.active = turn.active
          /\ turn'.recipe = turn.active /\ turn.active # NoRecipe
      BY <1>7, <2>2 DEF Binding, SameTurn
    <3>2. QED BY <1>2, <3>1 DEF Bound, Known
  <2>3. QED BY <1>7, <2>1, <2>2 DEF Binding
<1>8. CASE Uploading
  BY <1>2, <1>8 DEF Uploading, SameBoard, SameTurn, Bound, Known, Compiling
<1>9. CASE Submitting
  <2>1. PICK f \in Commands : sent' = sent \cup {f} /\ f.recipe = turn.recipe
    BY <1>9 DEF Submitting
  <2>2. turn.recipe \in bindings
    BY <1>9 DEF Submitting, Bound, Compiling
  <2>3. /\ turn'.step = "answer" /\ turn'.active = turn.active
        /\ UNCHANGED <<bindings, board2, flash>>
    BY <1>9 DEF Submitting, SameTurn
  <2>4. QED BY <1>2, <2>1, <2>2, <2>3 DEF Bound, Known, Compiling
<1>10. CASE Confirming
  BY <1>2, <1>3, <1>10 DEF Confirming, Bound, Known, Compiling
<1>11. CASE Ending
  <2>1. UNCHANGED <<bindings, sent, board2, flash>>
    BY <1>11 DEF Ending, EndsTurn
  <2>2. turn' = NoTurn \/ (turn'.step = "readback" /\ turn'.active = turn.active)
    BY <1>11 DEF Ending, EndsTurn, SameTurn
  <2>3. QED BY <1>2, <1>3, <2>1, <2>2 DEF Bound, Known, Compiling
<1>12. CASE Quiet
  BY <1>2, <1>12 DEF Quiet, HostRests, Bound, Known, Compiling
<1>13. CASE Acknowledging
  BY <1>2, <1>3, <1>13 DEF Acknowledging, Bound, Known, Compiling
<1>14. CASE Restarting
  BY <1>2, <1>14 DEF Restarting, HostRests, Bound, Known, Compiling
<1>15. ASSUME NEW f \in sent, Taking(f) PROVE Bound'
  <2>1. sent' \subseteq sent /\ UNCHANGED <<bindings, turn>>
    BY <1>15 DEF Taking, HostRests
  <2>2. /\ board2'.active \in {board2.active, f.recipe}
        /\ flash'.active \in {flash.active, board2.active, f.recipe}
    BY <1>15 DEF Taking, SameBoard, Refused, Done
  <2>3. QED BY <1>2, <2>1, <2>2 DEF Bound, Known, Compiling
<1>16. QED
  BY <1>4, <1>5, <1>6, <1>7, <1>8, <1>9, <1>10, <1>11, <1>12, <1>13, <1>14, <1>15, RecipeSteps

-----------------------------------------------------------------------------
(* What the board holds was compiled for its profile or the one before.    *)

LEMMA ProfileNumber == \A r \in Recipes : r.profile \in Nat
BY DEF Recipes

LEMMA ProfileTypes ==
  ASSUME Typed
  PROVE  /\ board2.profile \in Profiles /\ board2.profile \in Nat
         /\ board2.active.profile \in Nat /\ flash.active.profile \in Nat
         /\ turn.active.profile \in Nat /\ turn.recipe.profile \in Nat
         /\ \A f \in sent : f.recipe.profile \in Nat
         /\ NoRecipe.profile = 0
<1>1. /\ board2.active \in Recipes /\ flash.active \in Recipes /\ turn.active \in Recipes
      /\ turn.recipe \in Recipes /\ \A f \in sent : f.recipe \in Recipes
  BY DEF Typed, HostTypes, BoardTypes, Boards, Flashes, Turns, Commands
<1>2. board2.profile \in Profiles
  BY DEF Typed, BoardTypes, Boards
<1>3. QED BY <1>1, <1>2, ProfileNumber, NoRecipeType DEF Profiles

(* No step raises what is held above p, but the sending of what was         *)
(* compiled above it.                                                      *)
LEMMA BelowStep ==
  ASSUME Typed, Typed', Numbered, [RecipeNext]_recipeVars, NEW p \in Profiles, Below(p),
         turn.step = "submit" /\ turn.kind = "activate" => turn.recipe.profile <= p
  PROVE  Below(p)'
<1>1. NoTurn.active = NoRecipe /\ NoRecipe.profile <= p /\ p \in Nat
  BY NoRecipeType DEF Profiles
<1>2. CASE Saving
  BY <1>2 DEF Saving, Below
<1>3. CASE Beginning
  BY <1>1, <1>3 DEF Beginning, Below
<1>4. CASE Leasing
  BY <1>4 DEF Leasing, SameBoard, Below
<1>5. CASE Binding
  BY <1>5 DEF Binding, SameTurn, Below
<1>6. CASE Uploading
  BY <1>6 DEF Uploading, SameBoard, SameTurn, Below
<1>7. CASE Submitting
  <2>1. PICK f \in Commands : sent' = sent \cup {f} /\ f.recipe = turn.recipe /\ f.kind = turn.kind
    BY <1>7 DEF Submitting
  <2>2. turn'.active = turn.active /\ UNCHANGED <<board2, flash>> /\ turn.step = "submit"
    BY <1>7 DEF Submitting, SameTurn
  <2>3. QED BY <2>1, <2>2 DEF Below
<1>8. CASE Confirming
  BY <1>1, <1>8 DEF Confirming, Below
<1>9. CASE Ending
  BY <1>1, <1>9 DEF Ending, EndsTurn, SameTurn, Below
<1>10. CASE Quiet
  BY <1>10 DEF Quiet, HostRests, Below
<1>11. CASE Acknowledging
  BY <1>1, <1>11 DEF Acknowledging, Below
<1>12. CASE Restarting
  BY <1>12 DEF Restarting, HostRests, Below
<1>13. ASSUME NEW f \in sent, Taking(f) PROVE Below(p)'
  <2>1. sent' \subseteq sent /\ turn' = turn
    BY <1>13 DEF Taking, HostRests
  <2>2. CASE SameBoard \/ Refused(f)
    BY <2>1, <2>2 DEF SameBoard, Refused, Below
  <2>3. CASE Done(f)
    BY <2>1, <2>3 DEF Done, Below
  <2>4. QED BY <1>13, <2>2, <2>3 DEF Taking
<1>14. QED
  BY <1>2, <1>3, <1>4, <1>5, <1>6, <1>7, <1>8, <1>9, <1>10, <1>11, <1>12, <1>13, RecipeSteps

LEMMA ProfileRises ==
  ASSUME Typed, Numbered, [RecipeNext]_recipeVars
  PROVE  board2'.profile >= board2.profile
<1>1. board2.profile \in Nat
  BY ProfileTypes
<1>2. QED
  BY <1>1, RecipeSteps DEF Saving, Beginning, Leasing, Binding, Uploading, Submitting, Confirming,
     Ending, EndsTurn, Taking, Quiet, Acknowledging, Restarting, SameBoard

LEMMA CommissionedStep ==
  ASSUME Typed, Typed', Numbered, Commissioned, [RecipeNext]_recipeVars
  PROVE  Commissioned'
<1>1. board2.profile \in Profiles /\ board2.profile \in Nat /\ board2'.profile \in Nat
  BY ProfileTypes DEF Typed, BoardTypes, Boards, Profiles
<1>2. PICK p \in Profiles : p = board2.profile
  BY <1>1
<1>3. Below(p)'
  BY <1>2, BelowStep DEF Commissioned, Compiling
<1>4. p <= board2'.profile
  BY <1>2, <1>1, ProfileRises
<1>5. Below(board2.profile)'
  <2>1. /\ board2'.active.profile \in Nat /\ flash'.active.profile \in Nat
        /\ turn'.active.profile \in Nat /\ \A f \in sent' : f.recipe.profile \in Nat
    <3>1. /\ board2'.active \in Recipes /\ flash'.active \in Recipes /\ turn'.active \in Recipes
          /\ \A f \in sent' : f.recipe \in Recipes
      BY DEF Typed, HostTypes, BoardTypes, Boards, Flashes, Turns, Commands
    <3>2. QED BY <3>1, ProfileNumber
  <2>2. p \in Nat
    BY DEF Profiles
  <2>3. QED BY <1>1, <1>3, <1>4, <2>1, <2>2 DEF Below
<1>6. Compiling' => turn'.recipe.profile <= p
  <2>1. Compiling /\ turn'.recipe = turn.recipe => turn'.recipe.profile <= p
    BY <1>2 DEF Commissioned
  <2>2. NoTurn.step = "none"
    BY NoRecipeType
  <2>3. \/ ~Compiling' \/ (Compiling /\ turn'.recipe = turn.recipe) \/ Binding
    BY <2>2, RecipeSteps DEF Saving, Beginning, Leasing, Uploading, Submitting, Confirming,
       Ending, EndsTurn, Taking, Quiet, Acknowledging, Restarting, HostRests, Compiling
  <2>4. Binding => turn'.recipe.profile = p
    BY <1>2 DEF Binding
  <2>5. QED BY <1>1, <1>2, <2>1, <2>3, <2>4
<1>7. Compiling' => turn'.recipe.profile <= board2'.profile
  <2>1. turn'.recipe.profile \in Nat /\ p \in Nat
    <3>1. turn'.recipe \in Recipes
      BY DEF Typed, HostTypes, Turns
    <3>2. QED BY <1>1, <1>2, <3>1, ProfileNumber
  <2>2. QED BY <1>1, <1>4, <1>6, <2>1
<1>8. QED BY <1>5, <1>7 DEF Commissioned

-----------------------------------------------------------------------------
(* A start, from its archive to the run.                                   *)

(* What a step may do to the rows of one start.                            *)
LEMMA RowsStep ==
  ASSUME Typed, Numbered, [RecipeNext]_recipeVars, NEW n \in Starts, n <= turns
  PROVE  /\ archive'[n].recipe = archive[n].recipe
         /\ n # turn.n => runBound'[n] = runBound[n]
         /\ ~Binding => runBound'[n] = runBound[n]
         /\ archive'[n].phase = "closed" =>
              \/ archive[n].phase = "closed"
              \/ Acknowledging /\ n = board2.run.n
              \/ /\ n = turn.n /\ Ending
                 /\ \/ Waiting
                    \/ /\ turn.step = "answer" /\ board2.outcome.n = n
                       /\ board2.outcome.status = "rejected"
<1>1. /\ turn \in Turns /\ turns \in 0..MaxTurns /\ archive \in [Starts -> Archived]
      /\ runBound \in [Starts -> Recipes] /\ turn.step \in Steps
  BY DEF Typed, HostTypes, Turns
<1>2. UNCHANGED <<archive, runBound>> =>
        archive'[n] = archive[n] /\ runBound'[n] = runBound[n]
  OBVIOUS
<1>3. CASE Saving \/ Leasing \/ Uploading \/ Submitting \/ Confirming
  BY <1>2, <1>3 DEF Saving, Leasing, Uploading, Submitting, Confirming
<1>4. CASE Beginning
  <2>1. n # turns' /\ n \in Starts \ {turns'}
    BY <1>1, <1>4 DEF Beginning, Starts
  <2>2. archive'[n] = archive[n] /\ runBound' = runBound
    BY <1>4, <2>1 DEF Beginning
  <2>3. QED BY <2>2
<1>5. CASE Binding
  <2>1. archive' = archive
          /\ (runBound' = runBound \/ runBound' = [runBound EXCEPT ![turn.n] = turn'.recipe])
    BY <1>5 DEF Binding
  <2>2. n # turn.n => runBound'[n] = runBound[n]
    BY <1>1, <2>1
  <2>3. QED BY <1>5, <2>1, <2>2
<1>6. CASE Ending
  <2>1. runBound' = runBound
    BY <1>6 DEF Ending, EndsTurn
  <2>2. PICK phase \in {"preheat", "closed", "needs_review"} :
          /\ archive' = Closing(phase)
          /\ phase = "closed" =>
               \/ turn.step \notin {"none", "answer"}
               \/ turn.step = "answer" /\ board2.outcome.n = turn.n
                    /\ board2.outcome.status = "rejected"
    BY <1>6 DEF Ending, EndsTurn
  <2>3. /\ archive'[n].recipe = archive[n].recipe
        /\ (n = turn.n /\ turn.kind = "start") \/ archive'[n] = archive[n]
        /\ turn.kind = "start" => archive'[turn.n].phase = phase
    BY <2>2, ClosingType
  <2>4. turn.kind = "start" /\ turn.step \notin {"none", "answer"} => Waiting
    BY <1>1 DEF Steps, Waiting, Typed, TurnFormed
  <2>5. QED BY <1>6, <2>1, <2>2, <2>3, <2>4
<1>7. CASE Quiet \/ Restarting \/ \E f \in sent : Taking(f)
  BY <1>2, <1>7 DEF Quiet, Restarting, Taking, HostRests
<1>8. CASE Acknowledging
  BY <1>8 DEF Acknowledging
<1>9. QED BY <1>3, <1>4, <1>5, <1>6, <1>7, <1>8, RecipeSteps

(* The snapshot stays that of a start that is neither being bound, nor      *)
(* ended without a run, nor acknowledged.                                  *)
LEMMA SnapshotStays ==
  ASSUME Typed, Numbered, [RecipeNext]_recipeVars,
         NEW n \in Starts, NEW r, n <= turns, Snapshot(n, r),
         Waiting => n # turn.n,
         Acknowledging => n # board2.run.n,
         n = board2.outcome.n => board2.outcome.status # "rejected"
  PROVE  Snapshot(n, r)'
<1>1. archive'[n].recipe = r
  BY RowsStep DEF Snapshot
<1>2. runBound'[n] = r
  <2>1. Binding => Waiting
    BY DEF Binding, Waiting
  <2>2. QED BY <2>1, RowsStep DEF Snapshot
<1>3. archive'[n].phase # "closed"
  BY RowsStep DEF Snapshot
<1>4. QED BY <1>1, <1>2, <1>3 DEF Snapshot

LEMMA FramesAsArchived ==
  ASSUME Typed, Typed', Numbered, Started, [RecipeNext]_recipeVars,
         NEW f \in sent', f.kind = "start"
  PROVE  Snapshot(f.n, f.recipe)'
<1>1. /\ sent \subseteq Commands /\ \A g \in sent : g.n \in Starts
      /\ turns \in 0..MaxTurns /\ (turn.step # "none" => turn.n \in 1..turns)
  BY DEF Typed, HostTypes, BoardTypes, TurnFormed, Commands, Starts
<1>2. CASE f \in sent
  <2>1. f.n \in Starts /\ f.n <= turns /\ f.n \notin Taken /\ (f.n = turn.n => turn.step = "answer")
    BY <1>1, <1>2 DEF Numbered
  <2>2. Snapshot(f.n, f.recipe)
    BY <1>2 DEF Started
  <2>3. Waiting => f.n # turn.n
    BY <2>1 DEF Waiting
  <2>4. f.n # board2.run.n /\ f.n # board2.outcome.n
    BY <2>1 DEF Taken
  <2>5. PICK n \in Starts : n = f.n
    BY <2>1
  <2>6. PICK r : r = f.recipe
    OBVIOUS
  <2>7. Snapshot(n, r)'
    BY <2>1, <2>2, <2>3, <2>4, <2>5, <2>6, SnapshotStays
  <2>8. QED BY <2>5, <2>6, <2>7
<1>3. CASE f \notin sent
  <2>1. Submitting
    BY <1>3, RecipeSteps DEF Saving, Beginning, Leasing, Binding, Uploading, Confirming,
       Ending, EndsTurn, Taking, Quiet, Acknowledging, Restarting, HostRests
  <2>2. f.n = turn.n /\ f.recipe = turn.recipe /\ turn.kind = "start" /\ turn.step = "submit"
    BY <1>3, <2>1 DEF Submitting
  <2>3. Snapshot(turn.n, turn.recipe)
    BY <2>2 DEF Started, Waiting
  <2>4. PICK n, r : n = f.n /\ r = f.recipe
    OBVIOUS
  <2>5. Snapshot(n, r)' <=> Snapshot(n, r)
    BY <2>1 DEF Submitting, Snapshot
  <2>6. QED BY <2>2, <2>3, <2>4, <2>5
<1>4. QED BY <1>2, <1>3

LEMMA RunStep ==
  ASSUME Typed, Typed', Numbered, Bound, Bound', Started, RunAsArchived, [RecipeNext]_recipeVars
  PROVE  RunAsArchived'
<1> SUFFICES ASSUME board2'.run # NoRunning PROVE RunAsArchived'
  BY DEF RunAsArchived
<1>1. /\ sent \subseteq Commands /\ turns \in 0..MaxTurns
      /\ turn.step # "none" => turn.n \in 1..turns
      /\ \A f \in sent : f.n \in Starts
  BY DEF Typed, HostTypes, BoardTypes, TurnFormed, Commands, Starts
<1>2. ASSUME NEW n \in Starts, NEW r, Snapshot(n, r)', r \in bindings',
             board2'.run.n = n, board2'.run.recipe = r, board2'.run.profile = r.profile
      PROVE  RunAsArchived'
  <2>1. versions'[r.version] = r.definition /\ Executable(r.definition, r.profile)
    BY <1>2 DEF Bound, Saved
  <2>2. archive'[n].recipe = r /\ runBound'[n] = r /\ archive'[n].phase # "closed"
    BY <1>2 DEF Snapshot
  <2>3. QED BY <1>2, <2>1, <2>2 DEF RunAsArchived
<1>3. CASE board2'.run = board2.run
  <2>1. PICK n, r : n = board2.run.n /\ r = board2.run.recipe
    OBVIOUS
  <2>2. /\ Snapshot(n, r) /\ r \in bindings /\ r.profile = board2.run.profile
    BY <1>3, <2>1 DEF RunAsArchived, Snapshot
  <2>3. /\ n \in Starts /\ n \in Taken /\ n <= turns
        /\ n = board2.outcome.n => board2.outcome.status # "rejected"
    BY <1>3, <2>1 DEF Numbered, Taken
  <2>4. (Waiting => n # turn.n) /\ ~Acknowledging
    BY <1>3, <2>3 DEF Numbered, Acknowledging
  <2>5. Snapshot(n, r)'
    BY <2>2, <2>3, <2>4, SnapshotStays
  <2>6. bindings \subseteq bindings'
    BY RecipeSteps DEF Saving, Beginning, Leasing, Binding, Uploading, Submitting, Confirming,
       Ending, EndsTurn, Taking, Quiet, Acknowledging, Restarting, HostRests
  <2>7. QED BY <1>2, <1>3, <2>1, <2>2, <2>3, <2>5, <2>6
<1>4. CASE board2'.run # board2.run
  <2>1. PICK f \in sent : Taking(f) /\ Done(f)
    BY <1>4, RecipeSteps DEF Saving, Beginning, Leasing, Binding, Uploading, Submitting, Confirming,
       Ending, EndsTurn, Taking, Refused, Quiet, Acknowledging, Restarting, SameBoard, Numbered
  <2>2. /\ f.kind = "start" /\ ValidRecipe(f.recipe)
        /\ board2'.run = [n |-> f.n, recipe |-> f.recipe, profile |-> board2.profile]
    BY <1>4, <2>1 DEF Done, Permitted
  <2>3. PICK n, r : n = f.n /\ r = f.recipe
    OBVIOUS
  <2>4. Snapshot(n, r) /\ n \in Starts /\ r \in bindings
    BY <1>1, <2>2, <2>3 DEF Started, Bound
  <2>5. HostRests
    BY <2>1 DEF Taking
  <2>6. Snapshot(n, r)' /\ r \in bindings'
    BY <2>4, <2>5 DEF HostRests, Snapshot
  <2>7. board2'.run.n = n /\ board2'.run.recipe = r /\ board2'.run.profile = r.profile
    BY <2>2, <2>3 DEF ValidRecipe
  <2>8. QED BY <1>2, <2>4, <2>6, <2>7
<1>5. QED BY <1>3, <1>4

(* Between its archive and its binding a start has the recipe compiled for  *)
(* a profile that nothing the board holds exceeds.                         *)
Compilable(p) == /\ archive[turn.n].recipe = Compiled(turn.version, versions[turn.version], p)
                 /\ p <= board2.profile /\ Below(p)

LEMMA StartStep ==
  ASSUME Typed, Typed', Numbered, Commissioned, Started, [RecipeNext]_recipeVars,
         turn'.kind = "start", Waiting'
  PROVE  /\ turn'.step \in {"lease", "bind", "submit"} /\ archive'[turn'.n].phase # "closed"
         /\ IF turn'.step = "submit" THEN Snapshot(turn.n, turn.recipe)'
            ELSE \E p \in Profiles : Compilable(p)'
<1>1. /\ turns \in 0..MaxTurns /\ runBound \in [Starts -> Recipes] /\ versions \in Seq(Definitions)
      /\ turn.step # "none" => turn.n \in Starts /\ turn.version \in 1..Len(versions)
  BY DEF Typed, HostTypes, TurnFormed, Starts
<1>2. board2.profile \in Profiles /\ board2.profile \in Nat /\ board2'.profile \in Nat
      /\ board2'.profile >= board2.profile
  BY ProfileTypes, ProfileRises DEF Typed, BoardTypes, Boards, Profiles
<1>3. NoTurn.step = "none" /\ ~(NoTurn.step = "lease")
  BY NoRecipeType
<1>4. ASSUME Waiting, turn.kind = "start", UNCHANGED <<archive, runBound>>, VersionsGrow,
             turn'.n = turn.n, turn'.kind = turn.kind, turn'.version = turn.version,
             \/ turn' = turn
             \/ turn.step = "lease" /\ turn'.step = "bind"
      PROVE  /\ turn'.step \in {"lease", "bind", "submit"} /\ archive'[turn'.n].phase # "closed"
             /\ IF turn'.step = "submit" THEN Snapshot(turn.n, turn.recipe)'
                ELSE \E p \in Profiles : Compilable(p)'
  <2>1. turn'.step \in {"lease", "bind", "submit"} /\ archive'[turn'.n].phase # "closed"
    BY <1>4 DEF Started
  <2>2. CASE turn'.step = "submit"
    <3>1. turn' = turn /\ turn.step = "submit"
      BY <1>4, <2>2
    <3>2. Snapshot(turn.n, turn.recipe)
      BY <1>4, <3>1 DEF Started
    <3>3. Snapshot(turn.n, turn.recipe)'
      BY <1>4, <3>1, <3>2 DEF Snapshot
    <3>4. QED BY <2>1, <2>2, <3>3
  <2>3. CASE turn'.step # "submit"
    <3>1. turn.step # "submit" /\ turn.step # "none"
      BY <1>4, <2>3 DEF Waiting
    <3>2. PICK p \in Profiles :
            /\ archive[turn.n].recipe = Compiled(turn.version, versions[turn.version], p)
            /\ p <= board2.profile /\ Below(p)
      BY <1>4, <3>1 DEF Started
    <3>3. versions'[turn.version] = versions[turn.version]
      BY <1>1, <1>4, <3>1 DEF VersionsGrow
    <3>4. Below(p)'
      BY <1>4, <3>2, BelowStep
    <3>5. p <= board2'.profile
      BY <1>2, <3>2 DEF Profiles
    <3>6. Compilable(p)'
      BY <1>4, <3>2, <3>3, <3>4, <3>5 DEF Compilable
    <3>7. QED BY <2>1, <2>3, <3>6
  <2>4. QED BY <2>2, <2>3
<1>5. CASE Beginning
  <2>1. /\ turn'.step = "lease" /\ turn'.n = turns' /\ archive'[turns'].phase = "awaiting_device"
        /\ archive'[turns'].recipe = Compiled(turn'.version, versions[turn'.version], board2.profile)
        /\ UNCHANGED <<versions, board2>>
    BY <1>5 DEF Beginning
  <2>2. PICK p \in Profiles : p = board2.profile /\ Below(p)
    BY <1>2 DEF Commissioned
  <2>3. turn.step = "none"
    BY <1>3, <1>5 DEF Beginning
  <2>4. Below(p)'
    BY <2>2, <2>3, BelowStep
  <2>5. p <= board2'.profile
    BY <1>2, <2>1, <2>2
  <2>6. Compilable(p)'
    BY <2>1, <2>2, <2>4, <2>5 DEF Compilable
  <2>7. QED BY <2>1, <2>6
<1>6. CASE Leasing
  <2>1. Waiting /\ turn.kind = "start" /\ VersionsGrow
    BY <1>6, StepGrows DEF Leasing, Waiting
  <2>2. QED BY <1>4, <1>6, <2>1 DEF Leasing
<1>7. CASE Binding
  <2>1. /\ turn.kind = "start" /\ turn'.step = "submit" /\ turn'.n = turn.n /\ archive' = archive
        /\ runBound' = [runBound EXCEPT ![turn.n] = turn'.recipe] /\ turn.step = "bind"
        /\ turn'.recipe = turn.active /\ turn'.recipe.profile = board2.profile
        /\ turn'.recipe = Compiled(turn.version, versions[turn.version], board2.profile)
    BY <1>7 DEF Binding, SameTurn
  <2>2. PICK p \in Profiles :
          /\ archive[turn.n].recipe = Compiled(turn.version, versions[turn.version], p)
          /\ p <= board2.profile /\ Below(p)
    BY <2>1 DEF Started, Waiting
  <2>3. p = board2.profile
    BY <1>2, <2>1, <2>2 DEF Below, Profiles
  <2>4. archive[turn.n].phase # "closed"
    BY <2>1 DEF Started, Waiting
  <2>5. runBound'[turn.n] = turn'.recipe
    BY <1>1, <2>1
  <2>6. Snapshot(turn.n, turn.recipe)'
    BY <2>1, <2>2, <2>3, <2>4, <2>5 DEF Snapshot
  <2>7. QED BY <2>1, <2>4, <2>6
<1>8. CASE Uploading
  <2>1. turn.kind = "start" /\ Waiting /\ turn.step \in {"begin", "chunks"}
    BY <1>8 DEF Uploading, SameTurn, Waiting
  <2>2. QED BY <2>1 DEF Started
<1>9. CASE Submitting \/ Confirming \/ Ending \/ Acknowledging
  BY <1>3, <1>9 DEF Submitting, Confirming, Ending, EndsTurn, Acknowledging, Waiting
<1>10. CASE Saving \/ Quiet \/ Restarting \/ \E f \in sent : Taking(f)
  <2>1. turn' = turn /\ UNCHANGED <<archive, runBound>>
    BY <1>10 DEF Saving, Quiet, Restarting, Taking, HostRests
  <2>2. Waiting /\ turn.kind = "start"
    BY <2>1 DEF Waiting
  <2>3. QED BY <1>4, <2>1, <2>2, StepGrows
<1>11. QED BY <1>5, <1>6, <1>7, <1>8, <1>9, <1>10, RecipeSteps

LEMMA StartedStep ==
  ASSUME Typed, Typed', Numbered, Commissioned, Started, [RecipeNext]_recipeVars
  PROVE  Started'
<1>1. \A f \in sent' : f.kind = "start" => Snapshot(f.n, f.recipe)'
  BY FramesAsArchived
<1>2. QED BY <1>1, StartStep DEF Started, Compilable

-----------------------------------------------------------------------------
(* What is confirmed is durable.                                           *)

(* The revision of the board only rises as long as a frame is left.        *)
LEMMA RevisionRises ==
  ASSUME Typed, Numbered, [RecipeNext]_recipeVars
  PROVE  board2'.revision >= board2.revision \/ sent' = {}
<1>1. board2.revision \in Nat
  BY DEF Typed, BoardTypes, Boards
<1>2. ASSUME NEW f \in sent, Taking(f) PROVE board2'.revision >= board2.revision
  <2>1. \/ board2'.revision >= board2.revision
        \/ board2'.revision = board2.revision
        \/ board2'.revision = board2.revision + 1
    BY <1>2 DEF Taking, SameBoard, Refused, Done
  <2>2. QED BY <1>1, <2>1
<1>3. UNCHANGED board2 => board2'.revision >= board2.revision
  BY <1>1
<1>4. Acknowledging => board2'.revision >= board2.revision
  BY <1>1 DEF Acknowledging
<1>5. QED
  BY <1>2, <1>3, <1>4, RecipeSteps DEF Saving, Beginning, Leasing, Binding, Uploading, Submitting,
     Confirming, Ending, EndsTurn, Quiet, Restarting, SameBoard

LEMMA VoidStays ==
  ASSUME Typed, Typed', Numbered, [RecipeNext]_recipeVars, NEW kinds, Void(kinds),
         Submitting => turn.kind \notin kinds
  PROVE  Void(kinds)'
<1>1. /\ board2.revision \in Nat /\ board2'.revision \in Nat
      /\ \A f \in sent : f.revision \in Nat
  BY DEF Typed, BoardTypes, Boards, Commands
<1>2. \A f \in sent' : f \in sent \/ (Submitting /\ f.kind = turn.kind)
  BY RecipeSteps DEF Saving, Beginning, Leasing, Binding, Uploading, Submitting, Confirming,
     Ending, EndsTurn, Taking, Quiet, Acknowledging, Restarting
<1>3. QED BY <1>1, <1>2, RevisionRises DEF Void

(* A frame whose revision has passed has no effect.                        *)
LEMMA VoidIsRefused ==
  ASSUME Typed, NEW f \in sent, Taking(f), f.revision < board2.revision
  PROVE  SameBoard \/ Refused(f)
<1>1. f.revision \in Nat /\ board2.revision \in Nat
  BY DEF Typed, BoardTypes, Boards, Commands
<1>2. QED BY <1>1 DEF Taking, Done, Permitted

LEMMA RevisionStep ==
  ASSUME Typed, Typed', Numbered, [RecipeNext]_recipeVars,
         \A f \in sent : f.revision <= board2.revision
  PROVE  \A f \in sent' : f.revision <= board2'.revision
<1>1. /\ board2.revision \in Nat /\ board2'.revision \in Nat
      /\ \A f \in sent : f.revision \in Nat
  BY DEF Typed, BoardTypes, Boards, Commands
<1>2. \A f \in sent' : f \in sent \/ f.revision = board2.revision
  BY RecipeSteps DEF Saving, Beginning, Leasing, Binding, Uploading, Submitting, Confirming,
     Ending, EndsTurn, Taking, Quiet, Acknowledging, Restarting
<1>3. QED BY <1>1, <1>2, RevisionRises

(* What the board holds and what survives a power cut part only when the    *)
(* outcome of a command is unknown.                                        *)
LEMMA PartingStep ==
  ASSUME Typed, Numbered, [RecipeNext]_recipeVars,
         board2.active # flash.active => board2.outcome.status = "unknown"
  PROVE  board2'.active # flash'.active => board2'.outcome.status = "unknown"
<1>1. ASSUME NEW f \in sent, Taking(f)
      PROVE  board2'.active # flash'.active => board2'.outcome.status = "unknown"
  BY <1>1 DEF Taking, SameBoard, Refused, Done
<1>2. QED
  BY <1>1, RecipeSteps DEF Saving, Beginning, Leasing, Binding, Uploading, Submitting, Confirming,
     Ending, EndsTurn, Quiet, Acknowledging, Restarting, SameBoard

(* Once an activation is answered, every frame is void.                    *)
LEMMA AnsweredStep ==
  ASSUME Typed, Typed', Numbered, Confirmable, [RecipeNext]_recipeVars, Answered'
  PROVE  Void({"activate", "start"})'
<1>1. NoTurn.step = "none"
  BY NoRecipeType
<1>2. /\ \A f \in sent : f.revision \in Nat /\ f.revision <= board2.revision
      /\ board2.revision \in Nat /\ board2'.revision \in Nat
  BY DEF Typed, BoardTypes, Boards, Commands, Confirmable
<1>3. CASE Answered /\ ~Submitting
  <2>1. PICK kinds : kinds = {"activate", "start"}
    OBVIOUS
  <2>2. Void(kinds)
    BY <1>3, <2>1 DEF Confirmable
  <2>3. Void(kinds)'
    BY <1>3, <2>1, <2>2, VoidStays
  <2>4. QED BY <2>1, <2>3
<1>4. CASE Submitting
  <2>1. turn'.step = "answer" /\ turn'.n = turn.n /\ board2' = board2 /\ turn.step = "submit"
    BY <1>4 DEF Submitting, SameTurn
  <2>2. turn.n # board2.outcome.n
    BY <2>1 DEF Numbered, Waiting, Taken
  <2>3. QED BY <2>1, <2>2 DEF Answered
<1>5. ASSUME NEW f \in sent, Taking(f), ~Answered
      PROVE  Void({"activate", "start"})'
  <2>1. turn' = turn
    BY <1>5 DEF Taking, HostRests
  <2>2. turn.step = "answer" /\ board2'.outcome.n = turn.n
        /\ board2'.outcome.status \in {"applied", "accepted"}
    BY <1>5, <2>1 DEF Answered
  <2>3. board2'.outcome # board2.outcome
    BY <1>5, <2>2 DEF Answered
  <2>4. Done(f)
    <3>1. Outcome(f, "rejected").status = "rejected"
      BY DEF Outcome
    <3>2. QED BY <1>5, <2>2, <2>3, <3>1 DEF Taking, SameBoard, Refused
  <2>5. board2'.revision = board2.revision + 1 /\ sent' \subseteq sent
    BY <1>5, <2>4 DEF Done, Taking
  <2>6. QED BY <1>2, <2>5 DEF Void
<1>6. CASE ~Answered /\ ~Submitting /\ ~\E f \in sent : Taking(f)
  <2>1. Restarting
    BY <1>1, <1>6, RecipeSteps DEF Saving, Beginning, Leasing, Binding, Uploading, Confirming,
       Ending, EndsTurn, SameTurn, Quiet, Acknowledging, SameBoard, HostRests, Answered
  <2>2. QED BY <2>1 DEF Restarting, Void
<1>7. QED BY <1>3, <1>4, <1>5, <1>6

LEMMA ReadbackStep ==
  ASSUME Typed, Typed', Numbered, Confirmable, [RecipeNext]_recipeVars, turn'.step = "readback"
  PROVE  board2'.active = flash'.active
<1>1. NoTurn.step = "none"
  BY NoRecipeType
<1>2. CASE Ending
  <2>1. UNCHANGED <<board2, flash>> /\ board2.outcome.status \in {"applied", "accepted"}
    BY <1>1, <1>2 DEF Ending, EndsTurn
  <2>2. QED BY <2>1 DEF Confirmable
<1>3. CASE turn.step = "readback" /\ ~Ending
  <2>1. board2.active = flash.active /\ Void({"activate", "start"})
    BY <1>3 DEF Confirmable, Answered
  <2>2. ASSUME NEW f \in sent, Taking(f) PROVE board2'.active = flash'.active
    <3>1. f.revision < board2.revision
      BY <2>1, <2>2 DEF Void, Taking, Commands
    <3>2. SameBoard \/ Refused(f)
      BY <2>2, <3>1, VoidIsRefused
    <3>3. QED BY <2>1, <3>2 DEF SameBoard, Refused
  <2>3. QED
    BY <1>3, <2>1, <2>2, RecipeSteps DEF Saving, Beginning, Leasing, Binding, Uploading, Submitting,
       Confirming, Quiet, Acknowledging, Restarting, SameBoard
<1>4. CASE turn.step # "readback" /\ ~Ending
  BY <1>1, <1>4, RecipeSteps DEF Saving, Beginning, Leasing, Binding, Uploading, Submitting,
     Confirming, Quiet, Acknowledging, Restarting, Taking, HostRests
<1>5. QED BY <1>2, <1>3, <1>4

LEMMA ConfirmedStep ==
  ASSUME Typed, Typed', Numbered, Confirmable, [RecipeNext]_recipeVars, confirmed' # NoRecipe
  PROVE  board2'.active = confirmed' /\ flash'.active = confirmed' /\ Void({"activate"})'
<1>1. PICK kinds : kinds = {"activate"}
  OBVIOUS
<1>2. CASE Confirming
  <2>1. /\ turn.step = "readback" /\ confirmed' = board2.active
        /\ UNCHANGED <<sent, board2, flash>>
    BY <1>2 DEF Confirming
  <2>2. board2.active = flash.active /\ Void({"activate", "start"})
    BY <2>1 DEF Confirmable, Answered
  <2>3. QED BY <2>1, <2>2 DEF Void
<1>3. CASE ~Confirming
  <2>1. confirmed' = confirmed /\ (Submitting => turn.kind = "start")
    BY <1>3, RecipeSteps DEF Saving, Beginning, Leasing, Binding, Uploading, Submitting,
       Ending, EndsTurn, Taking, Quiet, Acknowledging, Restarting, HostRests
  <2>2. board2.active = confirmed /\ flash.active = confirmed /\ Void(kinds)
    BY <1>1, <2>1 DEF Confirmable
  <2>3. Void(kinds)'
    BY <1>1, <2>1, <2>2, VoidStays
  <2>4. ASSUME NEW f \in sent, Taking(f) PROVE board2'.active = confirmed /\ flash'.active = confirmed
    <3>1. CASE f.kind = "activate"
      <4>1. f.revision < board2.revision
        BY <1>1, <2>2, <3>1 DEF Void
      <4>2. SameBoard \/ Refused(f)
        BY <2>4, <4>1, VoidIsRefused
      <4>3. QED BY <2>2, <4>2 DEF SameBoard, Refused
    <3>2. CASE f.kind = "start"
      BY <2>2, <2>4, <3>2 DEF Taking, SameBoard, Refused, Done
    <3>3. QED BY <2>4, <3>1, <3>2 DEF Taking, Commands
  <2>5. board2'.active = confirmed /\ flash'.active = confirmed
    BY <1>3, <2>2, <2>4, RecipeSteps DEF Saving, Beginning, Leasing, Binding, Uploading, Submitting,
       Ending, EndsTurn, Quiet, Acknowledging, Restarting, SameBoard
  <2>6. QED BY <1>1, <2>1, <2>3, <2>5
<1>4. QED BY <1>2, <1>3

LEMMA ConfirmableStep ==
  ASSUME Typed, Typed', Numbered, Confirmable, [RecipeNext]_recipeVars
  PROVE  Confirmable'
<1>1. \A f \in sent' : f.revision <= board2'.revision
  BY RevisionStep DEF Confirmable
<1>2. board2'.active # flash'.active => board2'.outcome.status = "unknown"
  BY PartingStep DEF Confirmable
<1>3. QED BY <1>1, <1>2, AnsweredStep, ReadbackStep, ConfirmedStep DEF Confirmable

-----------------------------------------------------------------------------
RecipeInv == Followed /\ Confirmable

LEMMA RecipeInitially == ASSUME RecipeInit PROVE RecipeInv
<1>1. /\ versions = <<>> /\ drafts = {} /\ bindings = {} /\ turn = NoTurn /\ turns = 0
      /\ confirmed = NoRecipe /\ sent = {} /\ channel = [id |-> 1, up |-> TRUE]
      /\ runBound = [n \in Starts |-> NoRecipe]
  BY DEF RecipeInit
<1>2. PICK a \in Archived : a = [phase |-> "none", recipe |-> NoRecipe]
  BY NoRecipeType DEF Archived
<1>3. archive = [n \in Starts |-> a]
  BY <1>2 DEF RecipeInit
<1>4. HostTypes
  BY <1>1, <1>3, NoRecipeType DEF HostTypes
<1>5. PICK t \in Tables : t = [s \in 1..MaxRecipeSession |-> NoUpload]
  BY NoRecipeType DEF Tables
<1>6. board2 = [boot |-> 1, profile |-> 1, revision |-> 0, active |-> NoRecipe,
                run |-> NoRunning, outcome |-> NoOutcome, lease |-> 0, sessions |-> {1},
                uploads |-> t]
  BY <1>5 DEF RecipeInit
<1>7. board2 \in Boards
  BY <1>6, NoRecipeType DEF Boards, Profiles
<1>8. flash = [revision |-> 0, active |-> NoRecipe, run |-> NoRunning, outcome |-> NoOutcome]
  BY DEF RecipeInit
<1>9. flash \in Flashes
  BY <1>8, NoRecipeType DEF Flashes
<1>10. BoardTypes
  BY <1>1, <1>7, <1>9 DEF BoardTypes
<1>11. Typed
  BY <1>1, <1>4, <1>10, NoRecipeType DEF Typed, TurnFormed
<1>12. /\ board2.active = NoRecipe /\ board2.run = NoRunning /\ board2.outcome = NoOutcome
       /\ flash.active = NoRecipe /\ flash.run = NoRunning /\ flash.outcome = NoOutcome
       /\ board2.profile = 1
  BY <1>6, <1>8
<1>13. Bound
  BY <1>1, <1>12, NoRecipeType DEF Bound, Known, Compiling
<1>14. Numbered
  BY <1>1, <1>12, NoRecipeType DEF Numbered, Taken, Waiting
<1>15. Commissioned
  BY <1>1, <1>12, NoRecipeType DEF Commissioned, Below, Compiling
<1>16. Started
  BY <1>1, NoRecipeType DEF Started
<1>17. RunAsArchived
  BY <1>12 DEF RunAsArchived
<1>18. Confirmable
  BY <1>1, <1>12, NoRecipeType DEF Confirmable, Answered, Void
<1>19. QED BY <1>11, <1>13, <1>14, <1>15, <1>16, <1>17, <1>18 DEF RecipeInv, Followed

LEMMA RecipeStep == ASSUME RecipeInv, [RecipeNext]_recipeVars PROVE RecipeInv'
<1>1. Typed /\ Bound /\ Numbered /\ Commissioned /\ Started /\ RunAsArchived /\ Confirmable
  BY DEF RecipeInv, Followed
<1>2. Typed'
  BY <1>1, RecipeSteps
<1>3. Numbered' /\ Bound' /\ Commissioned' /\ Started' /\ Confirmable'
  BY <1>1, <1>2, NumberedStep, BoundStep, CommissionedStep, StartedStep, ConfirmableStep
<1>4. RunAsArchived'
  BY <1>1, <1>2, <1>3, RunStep
<1>5. QED BY <1>2, <1>3, <1>4 DEF RecipeInv, Followed

LEMMA RecipeInvSound == ASSUME RecipeInv PROVE RecipesSound
BY DEF RecipeInv, Followed, Confirmable, RecipesSound, ConfirmedIsDurable

(* A run at the board follows the recipe that the archived session and the  *)
(* run binding name, a saved version for the profile it was archived with, *)
(* and an activation answered with success survives a power cut:           *)
(* _prepare_start_archive, _start_binding, the board's checks of a command. *)
THEOREM RecipesAreSound == RecipeSpec => []RecipesSound
<1>1. RecipeInit => RecipeInv
  BY RecipeInitially
<1>2. RecipeInv /\ [RecipeNext]_recipeVars => RecipeInv'
  BY RecipeStep
<1>3. RecipeInv => RecipesSound
  BY RecipeInvSound
<1>4. QED BY <1>1, <1>2, <1>3, PTL DEF RecipeSpec

-----------------------------------------------------------------------------
(* Types.                                                                  *)

(* A draft was numbered when there was room for it; what is bound was       *)
(* compiled for a profile there is.                                        *)
RowsBounded ==
  /\ Len(versions) <= MaxVersion
  /\ \A w \in drafts : w.version <= MaxVersion
  /\ \A r \in bindings : r.profile \in Profiles

(* The board knows sessions that were opened, and leases itself to one.    *)
SessionsKnown ==
  board2.sessions \subseteq 1..channel.id /\ board2.lease \in board2.sessions \cup {0}

LEMMA RowsBoundedStep ==
  ASSUME Typed, RowsBounded, [RecipeNext]_recipeVars
  PROVE  RowsBounded'
<1>1. /\ versions \in Seq(Definitions) /\ Len(versions) \in Nat /\ MaxVersion \in Nat
      /\ \A w \in drafts : w.version \in Nat
  <2>1. versions \in Seq(Definitions) /\ drafts \subseteq [version : Nat, definition : Definitions]
    BY DEF Typed, HostTypes
  <2>2. MaxVersion \in Nat /\ \A w \in drafts : w.version \in Nat
    BY <2>1
  <2>3. Len(versions) \in Nat
    BY <2>1
  <2>4. QED BY <2>1, <2>2, <2>3
<1>2. ASSUME NEW d \in Definitions, Draft(d) PROVE RowsBounded'
  BY <1>1, <1>2 DEF Draft, RowsBounded
<1>3. ASSUME NEW w \in drafts, InsertVersion(w) PROVE RowsBounded'
  <2>1. drafts' \subseteq drafts /\ bindings' = bindings /\ versions' = Inserted(w)
    BY <1>3 DEF InsertVersion
  <2>2. w.definition \in Definitions /\ w.version \in Nat /\ w.version <= MaxVersion
    BY <1>1 DEF Typed, HostTypes, RowsBounded
  <2>3. CASE w.version > Len(versions)
    <3>1. versions' = Append(versions, w.definition)
      BY <2>1, <2>3 DEF Inserted
    <3>2. Len(versions') = Len(versions) + 1
      BY <1>1, <2>2, <3>1
    <3>3. QED BY <1>1, <2>1, <2>2, <2>3, <3>2 DEF RowsBounded
  <2>4. CASE ~(w.version > Len(versions))
    BY <2>1, <2>4 DEF Inserted, RowsBounded
  <2>5. QED BY <2>3, <2>4
<1>4. CASE BindRecipe
  <2>1. PICK r : /\ r = Compiled(turn.version, versions[turn.version], board2.profile)
                 /\ bindings' = bindings \cup {r}
    BY <1>4 DEF BindRecipe
  <2>2. r.profile \in Profiles
    BY <2>1 DEF Compiled, Typed, BoardTypes, Boards
  <2>3. QED BY <1>4, <2>1, <2>2 DEF BindRecipe, RowsBounded
<1>5. CASE UNCHANGED <<versions, bindings>> /\ drafts' \subseteq drafts
  BY <1>5 DEF RowsBounded
<1>6. CASE \/ \E v \in 1..MaxVersion : BeginActivate(v) \/ BeginStart(v)
           \/ EnsureLease \/ UploadBegin \/ UploadChunk \/ SubmitActivate \/ ConfirmActive
           \/ BindRun \/ SubmitStart \/ AnswerCommand \/ TurnFails \/ SettleOwed \/ AcknowledgeRun
  BY <1>5, <1>6 DEF BeginActivate, BeginStart, EnsureLease, UploadBegin, UploadChunk,
     SubmitActivate, ConfirmActive, BindRun, SubmitStart, AnswerCommand, TurnFails, SettleOwed,
     AcknowledgeRun
<1>7. CASE \/ \E f \in sent : TakeCommand(f)
           \/ SessionLost \/ OpenSession \/ HostDies
           \/ \E s \in 1..MaxRecipeSession : SessionClosed(s) \/ UploadExpires(s)
           \/ \E p \in Profiles : BoardRestarts(p)
           \/ UNCHANGED recipeVars
  BY <1>5, <1>7 DEF TakeCommand, SessionLost, OpenSession, HostDies, SessionClosed, UploadExpires,
     BoardRestarts, recipeVars, hostRecipes
<1>8. QED BY <1>2, <1>3, <1>4, <1>6, <1>7 DEF RecipeNext

(* A command changes neither sessions nor lease.                           *)
LEMMA EffectKeepsSessions ==
  ASSUME Typed, NEW f \in sent,
         NEW b, b \in {Effect(f), [Effect(f) EXCEPT !.outcome.status = "unknown"]}
  PROVE  b.sessions = board2.sessions /\ b.lease = board2.lease
<1>1. board2 \in Boards
  BY DEF Typed, BoardTypes
<1>2. PICK c : c = Effect(f)
  OBVIOUS
<1>3. c \in Boards
  BY <1>2, RefusedBoard, DoneBoard
<1>4. c.sessions = board2.sessions /\ c.lease = board2.lease
  BY <1>1, <1>2 DEF Effect, Boards
<1>5. b = c \/ b = [c EXCEPT !.outcome.status = "unknown"]
  BY <1>2
<1>6. QED BY <1>3, <1>4, <1>5 DEF Boards

LEMMA SessionsKnownStep ==
  ASSUME Typed, SessionsKnown, [RecipeNext]_recipeVars
  PROVE  SessionsKnown'
<1>1. board2 \in Boards /\ channel \in [id : Nat, up : BOOLEAN] /\ channel.id \in Nat
  BY DEF Typed, BoardTypes
<1>2. ASSUME board2'.sessions = board2.sessions, board2'.lease = board2.lease, channel'.id = channel.id
      PROVE  SessionsKnown'
  BY <1>2 DEF SessionsKnown
<1>3. CASE EnsureLease
  <2>1. channel.id \in board2.sessions /\ channel' = channel
    BY <1>3 DEF EnsureLease, Online
  <2>2. board2'.sessions = board2.sessions /\ board2'.lease \in {board2.lease, channel.id}
    BY <1>1, <1>3 DEF EnsureLease, Boards
  <2>3. QED BY <2>1, <2>2 DEF SessionsKnown
<1>4. CASE \/ UploadBegin \/ UploadChunk \/ AcknowledgeRun
           \/ \E s \in 1..MaxRecipeSession : UploadExpires(s)
  <2>1. channel' = channel
    BY <1>4 DEF UploadBegin, UploadChunk, AcknowledgeRun, UploadExpires
  <2>2. board2'.sessions = board2.sessions /\ board2'.lease = board2.lease
    BY <1>1, <1>4 DEF UploadBegin, UploadChunk, AcknowledgeRun, UploadExpires, Boards
  <2>3. QED BY <1>2, <2>1, <2>2
<1>5. ASSUME NEW f \in sent, TakeCommand(f) PROVE SessionsKnown'
  <2>1. channel' = channel
    BY <1>5 DEF TakeCommand
  <2>2. \/ board2' = board2
        \/ board2' \in {Effect(f), [Effect(f) EXCEPT !.outcome.status = "unknown"]}
    BY <1>5 DEF TakeCommand
  <2>3. board2'.sessions = board2.sessions /\ board2'.lease = board2.lease
    BY <2>2, EffectKeepsSessions
  <2>4. QED BY <1>2, <2>1, <2>3
<1>6. ASSUME NEW s \in 1..MaxRecipeSession, SessionClosed(s) PROVE SessionsKnown'
  <2>1. /\ board2'.sessions = board2.sessions \ {s} /\ channel' = channel
        /\ board2'.lease = IF board2.lease = s THEN 0 ELSE board2.lease
    BY <1>1, <1>6 DEF SessionClosed, Boards
  <2>2. QED BY <2>1 DEF SessionsKnown
<1>7. CASE OpenSession
  <2>1. /\ channel'.id = channel.id + 1
        /\ board2'.sessions = board2.sessions \cup {channel'.id} /\ board2'.lease = board2.lease
    BY <1>1, <1>7 DEF OpenSession, Boards
  <2>2. QED BY <1>1, <2>1 DEF SessionsKnown
<1>8. CASE \E p \in Profiles : BoardRestarts(p)
  <2>1. board2'.sessions = {} /\ board2'.lease = 0
    BY <1>8 DEF BoardRestarts
  <2>2. QED BY <2>1 DEF SessionsKnown
<1>9. CASE SessionLost \/ HostDies
  <2>1. board2' = board2 /\ channel'.id = channel.id
    BY <1>1, <1>9 DEF SessionLost, HostDies
  <2>2. QED BY <1>2, <2>1
<1>10. CASE board2' = board2 /\ channel' = channel
  BY <1>2, <1>10
<1>11. CASE \/ \E d \in Definitions : Draft(d)
            \/ \E w \in drafts : InsertVersion(w)
            \/ \E v \in 1..MaxVersion : BeginActivate(v) \/ BeginStart(v)
            \/ BindRecipe \/ BindRun \/ SubmitActivate \/ SubmitStart \/ ConfirmActive
            \/ AnswerCommand \/ TurnFails \/ SettleOwed \/ UNCHANGED recipeVars
  BY <1>10, <1>11 DEF Draft, InsertVersion, BeginActivate, BeginStart, BindRecipe, BindRun,
     SubmitActivate, SubmitStart, ConfirmActive, AnswerCommand, TurnFails, SettleOwed, recipeVars
<1>12. QED BY <1>3, <1>4, <1>5, <1>6, <1>7, <1>8, <1>9, <1>11 DEF RecipeNext

LEMMA RecipesTyped ==
  ASSUME RecipeInv, RowsBounded, SessionsKnown
  PROVE  RecipeTypeOK
<1>1. Typed /\ Bound /\ Confirmable
  BY DEF RecipeInv, Followed
<1>2. versions \in Seq(Definitions) /\ Len(versions) <= MaxVersion /\ Len(versions) \in Nat
  BY <1>1 DEF Typed, HostTypes, RowsBounded
<1>3. \A v \in 1..Len(versions) : versions[v] \in Definitions
  BY <1>2
<1>4. ASSUME NEW r \in bindings PROVE r \in AllRecipes
  <2>1. r \in Recipes /\ Saved(r) /\ r.profile \in Profiles
    BY <1>1 DEF Typed, HostTypes, Bound, RowsBounded
  <2>2. r.version \in 1..MaxVersion /\ r.definition \in Definitions
    <3>1. r.version \in 1..Len(versions) /\ versions[r.version] = r.definition
      BY <2>1 DEF Saved
    <3>2. r.version \in 1..MaxVersion
      BY <1>2, <3>1
    <3>3. QED BY <1>3, <3>1, <3>2
  <2>3. r = Compiled(r.version, r.definition, r.profile)
    BY <2>1 DEF Recipes, Compiled
  <2>4. QED BY <2>1, <2>2, <2>3 DEF AllRecipes
<1>5. {board2.active, flash.active, confirmed} \subseteq bindings \cup {NoRecipe}
  BY <1>1 DEF Bound, Known, Confirmable
<1>6. turn.step \in Steps /\ \A n \in Starts : archive[n] \in Archived
  BY <1>1 DEF Typed, HostTypes, Turns
<1>7. QED BY <1>3, <1>4, <1>5, <1>6 DEF RecipeTypeOK, SessionsKnown, Steps, Archived

(* Whatever is saved, activated and started, and in whatever order: what    *)
(* the board holds and the host confirmed is a saved version compiled for a *)
(* profile there is, and the lease is nobody's or a session's the board has *)
THEOREM RecipeTypeSafe == RecipeSpec => []RecipeTypeOK
<1>1. RecipeInit => RecipeInv /\ RowsBounded /\ SessionsKnown
  <2>1. RecipeInit => RowsBounded
    <3>1. SUFFICES ASSUME RecipeInit PROVE RowsBounded
      OBVIOUS
    <3>2. /\ versions = <<>>
          /\ drafts = {} /\ bindings = {}
      BY <3>1 DEF RecipeInit
    <3>3. Len(versions) = 0 /\ MaxVersion \in Nat
      BY <3>2
    <3>4. QED BY <3>2, <3>3 DEF RowsBounded
  <2>2. RecipeInit => SessionsKnown
    BY DEF RecipeInit, SessionsKnown
  <2>3. QED BY <2>1, <2>2, RecipeInitially
<1>2. RecipeInv /\ RowsBounded /\ SessionsKnown /\ [RecipeNext]_recipeVars
        => RecipeInv' /\ RowsBounded' /\ SessionsKnown'
  BY RecipeStep, RowsBoundedStep, SessionsKnownStep DEF RecipeInv, Followed
<1>3. RecipeInv /\ RowsBounded /\ SessionsKnown => RecipeTypeOK
  BY RecipesTyped
<1>4. QED BY <1>1, <1>2, <1>3, PTL DEF RecipeSpec
==============================================================================
