--------------------------- MODULE RecipeActivation ---------------------------
(***************************************************************************)
(* A recipe from its saved version to the run of a HostComm 2.0 board.     *)
(*                                                                         *)
(* Saving and validating: recipe_service.py.  Activating: parameter_       *)
(* service.py and _activate of V2Client, which binds the compiled recipe,  *)
(* uploads it in chunks and activates it with one command; the readback.   *)
(* Starting: _prepare_start_archive of command_service.py and              *)
(* _start_binding of V2Client.  Board: _upload of the simulator's server,  *)
(* command and validate_recipe of its state, codec.RecipeAssembler.        *)
(*                                                                         *)
(* Activations and starts take turns: both hold command_guard for as long  *)
(* as they last.  Saving does not.  The compiled recipe names the saved    *)
(* version, its definition and the safety profile it was compiled for, and *)
(* its digest is the recipe itself here.  Leases, results and              *)
(* reconciliation are those of V2Lease and V2Operations, cut down to what  *)
(* a recipe meets: a lease is the session that holds it.                   *)
(***************************************************************************)
EXTENDS Integers, Sequences, FiniteSets

CONSTANTS
  MaxSavers,        \* bound: requests saving a version at once
  Definitions,      \* what a version may say
  Portable,         \* definitions the second safety profile allows too
  MaxVersion,       \* bound: versions saved
  MaxTurns,         \* bound: activations and starts
  MaxRecipeSession, \* bound: sessions opened
  MaxRecipeFaults   \* bound: faults explored

ASSUME RecipeAssumption ==
  /\ Portable \subseteq Definitions
  /\ {MaxSavers, MaxVersion, MaxTurns, MaxRecipeSession, MaxRecipeFaults} \subseteq Nat

VARIABLES
  versions,  \* table recipe_version of one recipe: the definition of each version
  drafts,    \* save(): versions about to be inserted, and what they say
  bindings,  \* table v2_recipe_binding
  archive,   \* table test_session with its recipe_snapshot, by number of the start
  runBound,  \* table v2_run_binding, by number of the start
  turn,      \* the activation or start under way
  turns,     \* activations and starts so far
  channel,    \* V2Transport: the session, and whether it is up
  owed,      \* the command whose outcome is not known, or 0: preflight refuses
  confirmed, \* the recipe whose activation was last answered with success
  sent,      \* commands on their way
  board2,  \* the board
  flash,     \* what of it survives a power cut
  mishaps    \* history: faults so far

hostRecipes == <<versions, drafts, bindings, archive, runBound, turn, turns, owed, confirmed>>
recipeVars  == <<hostRecipes, channel, sent, board2, flash, mishaps>>

(* compile_recipe(): refused when the profile does not allow the definition *)
Profiles == {1, 2}
Executable(d, p) == p = 1 \/ d \in Portable
Compiled(v, d, p) == [version |-> v, definition |-> d, profile |-> p]
NoRecipe  == Compiled(0, "none", 0)
NoTurn    == [step |-> "none", kind |-> "none", version |-> 0, n |-> 0, session |-> 0,
              recipe |-> NoRecipe, active |-> NoRecipe]
NoUpload  == [recipe |-> NoRecipe, chunks |-> 0]
NoRunning == [n |-> 0, recipe |-> NoRecipe, profile |-> 0]
NoOutcome == [n |-> 0, status |-> "none"]
Starts    == 1..MaxTurns
AllRecipes == {Compiled(v, d, p) : v \in 1..MaxVersion, d \in Definitions, p \in Profiles}

RecipeInit ==
  /\ versions = <<>> /\ drafts = {}
  /\ bindings = {}
  /\ archive = [n \in Starts |-> [phase |-> "none", recipe |-> NoRecipe]]
  /\ runBound = [n \in Starts |-> NoRecipe]
  /\ turn = NoTurn /\ turns = 0
  /\ channel = [id |-> 1, up |-> TRUE]
  /\ owed = 0 /\ confirmed = NoRecipe
  /\ sent = {}
  /\ board2 = [boot |-> 1, profile |-> 1, revision |-> 0, active |-> NoRecipe,
                 run |-> NoRunning, outcome |-> NoOutcome, lease |-> 0, sessions |-> {1},
                 uploads |-> [s \in 1..MaxRecipeSession |-> NoUpload]]
  /\ flash = [revision |-> 0, active |-> NoRecipe, run |-> NoRunning, outcome |-> NoOutcome]
  /\ mishaps = 0

Mishap == mishaps < MaxRecipeFaults /\ mishaps' = mishaps + 1

-----------------------------------------------------------------------------
(* Saving: the latest version is read, the next one inserted.              *)

Draft(d) ==
  /\ Cardinality(drafts) < MaxSavers /\ Len(versions) < MaxVersion
  /\ drafts' = drafts \cup {[version |-> Len(versions) + 1, definition |-> d]}
  /\ UNCHANGED <<versions, bindings, archive, runBound, turn, turns, owed, confirmed, channel,
                 sent, board2, flash, mishaps>>

(* The primary key refuses a version that exists                            *)
Inserted(w) ==
  IF w.version > Len(versions) THEN Append(versions, w.definition) ELSE versions

InsertVersion(w) ==
  /\ versions' = Inserted(w)
  /\ drafts' = drafts \ {w}
  /\ UNCHANGED <<bindings, archive, runBound, turn, turns, owed, confirmed, channel, sent,
                 board2, flash, mishaps>>

-----------------------------------------------------------------------------
(* What both kinds of turn do.  An exchange with the board takes a session *)
(* that both ends hold, and comes after the commands sent before it.       *)

Online ==
  /\ channel.up /\ channel.id \in board2.sessions
  /\ \A f \in sent : f.session # channel.id
IdleBoard == board2.run = NoRunning
HoldsLease == board2.lease = channel.id
SameSession == channel.id = turn.session

(* preflight(): nothing owed, the board idle, its lease free or ours        *)
MayTurn == Online /\ owed = 0 /\ IdleBoard /\ (board2.lease = 0 \/ HoldsLease)

(* get_parameters(): what the board has active, if that is a recipe bound   *)
(* here whose saved version is unchanged                                    *)
BoundRecipe ==
  LET r == board2.active
  IN IF r \in bindings /\ r.version <= Len(versions) /\ versions[r.version] = r.definition
     THEN r ELSE NoRecipe

Turning(kind, v) == [NoTurn EXCEPT !.step = "lease", !.kind = kind, !.version = v, !.n = turns + 1]

(* validate_bundle(): saved as it is, and executable at the board           *)
BeginActivate(v) ==
  /\ turn = NoTurn /\ turns < MaxTurns
  /\ MayTurn
  /\ v <= Len(versions) /\ Executable(versions[v], board2.profile)
  /\ turns' = turns + 1
  /\ turn' = Turning("activate", v)
  /\ UNCHANGED <<versions, drafts, bindings, archive, runBound, owed, confirmed, channel, sent,
                 board2, flash, mishaps>>

(* _prepare_start_archive(): the session is archived with the version the   *)
(* board has active, which is the one asked for, before anything is sent    *)
BeginStart(v) ==
  /\ turn = NoTurn /\ turns < MaxTurns
  /\ MayTurn
  /\ \A n \in Starts : archive[n].phase \in {"none", "closed"}
  /\ BoundRecipe # NoRecipe /\ BoundRecipe.version = v
  /\ Executable(versions[v], board2.profile)
  /\ turns' = turns + 1
  /\ turn' = Turning("start", v)
  /\ archive' = [archive EXCEPT ![turns'] =
       [phase |-> "awaiting_device", recipe |-> Compiled(v, versions[v], board2.profile)]]
  /\ UNCHANGED <<versions, drafts, bindings, runBound, owed, confirmed, channel, sent, board2,
                 flash, mishaps>>

(* _ensure_lease(): the marker of the session is taken here                 *)
EnsureLease ==
  /\ turn.step = "lease"
  /\ Online /\ board2.lease \in {0, channel.id}
  /\ turn' = [turn EXCEPT !.step = "bind", !.session = channel.id, !.active = board2.active]
  /\ IF HoldsLease THEN UNCHANGED <<board2, flash>>
     ELSE /\ board2' = [board2 EXCEPT !.lease = channel.id, !.revision = @ + 1]
          /\ flash' = [flash EXCEPT !.revision = board2'.revision]
  /\ UNCHANGED <<versions, drafts, bindings, archive, runBound, turns, owed, confirmed, channel,
                 sent, mishaps>>

(* submit(): the durable intent, and the command of a later status          *)
Submit ==
  /\ Online /\ SameSession
  /\ owed = 0 /\ owed' = turn.n
  /\ sent' = sent \cup {[kind |-> turn.kind, n |-> turn.n, session |-> channel.id,
                         boot |-> board2.boot, revision |-> board2.revision,
                         recipe |-> turn.recipe, active |-> turn.active]}
  /\ turn' = [turn EXCEPT !.step = "answer"]

-----------------------------------------------------------------------------
(* Activating.                                                             *)

(* _persist_recipe_binding(), committed before a byte is uploaded           *)
BindRecipe ==
  /\ turn.step = "bind" /\ turn.kind = "activate"
  /\ Online /\ SameSession /\ IdleBoard
  /\ LET r == Compiled(turn.version, versions[turn.version], board2.profile)
     IN /\ Executable(r.definition, r.profile)
        /\ bindings' = bindings \cup {r}
        /\ turn' = [turn EXCEPT !.step = "begin", !.recipe = r]
  /\ UNCHANGED <<versions, drafts, archive, runBound, turns, owed, confirmed, channel, sent,
                 board2, flash, mishaps>>

(* recipe_begin: one upload to a session, and only under its lease          *)
UploadBegin ==
  /\ turn.step = "begin"
  /\ Online /\ HoldsLease /\ board2.uploads[channel.id] = NoUpload
  /\ board2' = [board2 EXCEPT !.uploads[channel.id] = [recipe |-> turn.recipe, chunks |-> 0]]
  /\ turn' = [turn EXCEPT !.step = "chunks"]
  /\ UNCHANGED <<versions, drafts, bindings, archive, runBound, turns, owed, confirmed, channel,
                 sent, flash, mishaps>>

(* validate_recipe(): compiled for the profile the board is commissioned    *)
(* with, whose limits were checked when it was compiled                     *)
ValidRecipe(r) == r.profile = board2.profile

(* recipe_chunk: two make the recipe, which the board validates as a whole  *)
Whole(u) == u.chunks = 2
UploadChunk ==
  /\ turn.step = "chunks"
  /\ Online /\ HoldsLease
  /\ board2.uploads[channel.id].recipe = turn.recipe
  /\ ~Whole(board2.uploads[channel.id])
  /\ board2' = [board2 EXCEPT !.uploads[channel.id].chunks = @ + 1]
  /\ IF Whole(board2'.uploads[channel.id])
     THEN ValidRecipe(turn.recipe) /\ turn' = [turn EXCEPT !.step = "submit"]
     ELSE UNCHANGED turn
  /\ UNCHANGED <<versions, drafts, bindings, archive, runBound, turns, owed, confirmed, channel,
                 sent, flash, mishaps>>

SubmitActivate ==
  /\ turn.step = "submit" /\ turn.kind = "activate"
  /\ Submit
  /\ confirmed' = NoRecipe
  /\ UNCHANGED <<versions, drafts, bindings, archive, runBound, turns, channel, board2, flash,
                 mishaps>>

(* _read_recipe(), the last status and the readback of parameter_service    *)
ConfirmActive ==
  /\ turn.step = "readback"
  /\ Online /\ SameSession
  /\ board2.active = turn.recipe /\ BoundRecipe = turn.recipe
  /\ confirmed' = turn.recipe
  /\ turn' = NoTurn
  /\ UNCHANGED <<versions, drafts, bindings, archive, runBound, turns, owed, channel, sent,
                 board2, flash, mishaps>>

-----------------------------------------------------------------------------
(* Starting.                                                               *)

(* _start_binding(): the snapshot of the archive, compiled again, is what   *)
(* the board had active when the session was taken                          *)
BindRun ==
  /\ turn.step = "bind" /\ turn.kind = "start"
  /\ Online /\ SameSession /\ IdleBoard
  /\ LET r == Compiled(turn.version, versions[turn.version], board2.profile)
     IN /\ BoundRecipe.version = turn.version
        /\ Executable(r.definition, r.profile)
        /\ r = turn.active
        /\ runBound' = [runBound EXCEPT ![turn.n] = r]
        /\ turn' = [turn EXCEPT !.step = "submit", !.recipe = r]
  /\ UNCHANGED <<versions, drafts, bindings, archive, turns, owed, confirmed, channel, sent,
                 board2, flash, mishaps>>

SubmitStart ==
  /\ turn.step = "submit" /\ turn.kind = "start"
  /\ Submit
  /\ UNCHANGED <<versions, drafts, bindings, archive, runBound, turns, confirmed, channel,
                 board2, flash, mishaps>>

-----------------------------------------------------------------------------
(* The board takes a command.                                              *)

Permitted(f) ==
  /\ f.boot = board2.boot /\ board2.lease = f.session /\ f.revision = board2.revision
  /\ IdleBoard
  /\ ValidRecipe(f.recipe)
  /\ IF f.kind = "start" THEN board2.active = f.recipe
     ELSE /\ board2.active = f.active
          /\ board2.uploads[f.session] = [recipe |-> f.recipe, chunks |-> 2]

Outcome(f, status) == [n |-> f.n, status |-> status]

(* A start is reserved with its intent; a recipe is applied after it        *)
Effect(f) ==
  IF ~Permitted(f) THEN [board2 EXCEPT !.outcome = Outcome(f, "rejected")]
  ELSE IF f.kind = "start"
  THEN [board2 EXCEPT !.revision = @ + 1, !.outcome = Outcome(f, "accepted"),
         !.run = [n |-> f.n, recipe |-> board2.active, profile |-> board2.profile]]
  ELSE [board2 EXCEPT !.revision = @ + 1, !.outcome = Outcome(f, "applied"),
         !.active = f.recipe, !.uploads[f.session] = NoUpload]

Durable(b) == [revision |-> b.revision, active |-> b.active, run |-> b.run, outcome |-> b.outcome]

(* Two commits: when the first is refused nothing has happened, when the    *)
(* second is, a power cut undoes what has                                   *)
TakeCommand(f) ==
  /\ f.session \in board2.sessions
  /\ sent' = sent \ {f}
  /\ \/ board2' = Effect(f) /\ flash' = Durable(board2') /\ UNCHANGED mishaps
     \/ Mishap /\ UNCHANGED <<board2, flash>>
     \/ /\ Mishap /\ Permitted(f)
        /\ board2' = [Effect(f) EXCEPT !.outcome.status = "unknown"]
        /\ flash' = IF f.kind = "start"
                    THEN [Durable(board2') EXCEPT !.outcome.status = "accepted"]
                    ELSE [flash EXCEPT !.outcome = Outcome(f, "accepted")]
  /\ UNCHANGED <<hostRecipes, channel>>

MutantSucceeded(status) == status # "rejected"

(* _result(): an unknown outcome is no success                              *)
Succeeded(status) == status \in {"applied", "accepted"}

(* Its result comes back, or a query for it is answered                     *)
Closing(phase) ==
  IF turn.kind = "start" THEN [archive EXCEPT ![turn.n].phase = phase] ELSE archive
AnswerCommand ==
  /\ turn.step = "answer"
  /\ Online /\ SameSession
  /\ board2.outcome.n = turn.n
  /\ \/ /\ Succeeded(board2.outcome.status) /\ owed' = 0
        /\ archive' = Closing("preheat")
        /\ turn' = IF turn.kind = "start" THEN NoTurn ELSE [turn EXCEPT !.step = "readback"]
     \/ /\ board2.outcome.status = "rejected" /\ owed' = 0
        /\ archive' = Closing("closed")
        /\ turn' = NoTurn
     \/ /\ board2.outcome.status = "unknown" /\ UNCHANGED owed
        /\ archive' = Closing("needs_review")
        /\ turn' = NoTurn
  /\ UNCHANGED <<versions, drafts, bindings, runBound, turns, confirmed, channel, sent, board2,
                 flash, mishaps>>

-----------------------------------------------------------------------------
(* What goes wrong, and what comes after.                                  *)

(* Any exchange may fail, and a check of the session or of the snapshot     *)
TurnFails ==
  /\ turn.step # "none"
  /\ turn' = NoTurn
  /\ archive' = Closing(IF turn.step = "answer" THEN "needs_review" ELSE "closed")
  /\ UNCHANGED <<versions, drafts, bindings, runBound, turns, owed, confirmed, channel, sent,
                 board2, flash, mishaps>>

(* The backend restarts: a session it left open is there to be reviewed     *)
HostDies ==
  /\ Mishap
  /\ turn' = NoTurn
  /\ archive' = Closing("needs_review")
  /\ drafts' = {}
  /\ channel' = [channel EXCEPT !.up = FALSE]
  /\ UNCHANGED <<versions, bindings, runBound, turns, owed, confirmed, sent, board2, flash>>

(* refresh_operations(), or an administrator's reconcile_unknown            *)
SettleOwed ==
  /\ owed # 0 /\ turn.step # "answer" /\ Online
  /\ \/ IdleBoard
     \/ board2.outcome.n = owed /\ board2.outcome.status # "unknown"
  /\ owed' = 0
  /\ UNCHANGED <<versions, drafts, bindings, archive, runBound, turn, turns, confirmed, channel,
                 sent, board2, flash, mishaps>>

(* The run ends at the board, safely, and is acknowledged: its session can  *)
(* be closed on that evidence and on no other                               *)
AcknowledgeRun ==
  /\ ~IdleBoard /\ Online /\ turn = NoTurn
  /\ board2' = [board2 EXCEPT !.run = NoRunning, !.revision = @ + 1]
  /\ flash' = Durable(board2')
  /\ archive' = [archive EXCEPT ![board2.run.n].phase = "closed"]
  /\ UNCHANGED <<versions, drafts, bindings, runBound, turn, turns, owed, confirmed, channel, sent,
                 mishaps>>

SessionLost ==
  /\ channel.up /\ Mishap
  /\ channel' = [channel EXCEPT !.up = FALSE]
  /\ UNCHANGED <<hostRecipes, sent, board2, flash>>

(* The board notices later that a session is gone, and drops its upload,    *)
(* its lease and what it had sent                                           *)
SessionClosed(s) ==
  /\ s \in board2.sessions /\ (s # channel.id \/ ~channel.up)
  /\ board2' = [board2 EXCEPT !.sessions = @ \ {s}, !.uploads[s] = NoUpload,
                    !.lease = IF @ = s THEN 0 ELSE @,
                    !.revision = IF board2.lease = s THEN @ + 1 ELSE @]
  /\ flash' = IF board2.lease = s THEN Durable(board2') ELSE flash
  /\ sent' = {f \in sent : f.session # s}
  /\ UNCHANGED <<hostRecipes, channel, mishaps>>

OpenSession ==
  /\ ~channel.up /\ channel.id < MaxRecipeSession
  /\ Cardinality(board2.sessions) < 2
  /\ channel' = [id |-> channel.id + 1, up |-> TRUE]
  /\ board2' = [board2 EXCEPT !.sessions = @ \cup {channel'.id}]
  /\ UNCHANGED <<hostRecipes, sent, flash, mishaps>>

(* A lease or an upload that is not kept up runs out                        *)
UploadExpires(s) ==
  /\ board2.uploads[s] # NoUpload
  /\ turn.session # s \/ turn.step \notin {"chunks", "submit", "answer"}
  /\ board2' = [board2 EXCEPT !.uploads[s] = NoUpload]
  /\ UNCHANGED <<hostRecipes, channel, sent, flash, mishaps>>

(* Power cut: recover().  The board may come back commissioned anew, with a *)
(* profile it has not had before.                                           *)
BoardRestarts(p) ==
  /\ Mishap
  /\ p \in {board2.profile, 2}
  /\ board2' = [boot |-> board2.boot + 1, profile |-> p, revision |-> flash.revision + 1,
                  active |-> flash.active, run |-> flash.run, lease |-> 0, sessions |-> {},
                  outcome |-> [flash.outcome EXCEPT !.status =
                                 IF @ = "accepted" THEN "unknown" ELSE @],
                  uploads |-> [s \in 1..MaxRecipeSession |-> NoUpload]]
  /\ flash' = Durable(board2')
  /\ sent' = {}
  /\ channel' = [channel EXCEPT !.up = FALSE]
  /\ UNCHANGED hostRecipes

RecipeNext ==
  \/ \E d \in Definitions : Draft(d)
  \/ \E w \in drafts : InsertVersion(w)
  \/ \E v \in 1..MaxVersion : BeginActivate(v) \/ BeginStart(v)
  \/ EnsureLease \/ BindRecipe \/ UploadBegin \/ UploadChunk \/ SubmitActivate \/ ConfirmActive
  \/ BindRun \/ SubmitStart \/ AnswerCommand \/ TurnFails \/ SettleOwed
  \/ \E f \in sent : TakeCommand(f)
  \/ AcknowledgeRun \/ SessionLost \/ OpenSession \/ HostDies
  \/ \E s \in 1..MaxRecipeSession : SessionClosed(s) \/ UploadExpires(s)
  \/ \E p \in Profiles : BoardRestarts(p)

RecipeSpec == RecipeInit /\ [][RecipeNext]_recipeVars

-----------------------------------------------------------------------------
RecipeTypeOK ==
  /\ \A v \in 1..Len(versions) : versions[v] \in Definitions
  /\ bindings \subseteq AllRecipes
  /\ {board2.active, flash.active, confirmed} \subseteq AllRecipes \cup {NoRecipe}
  /\ board2.sessions \subseteq 1..channel.id /\ board2.lease \in board2.sessions \cup {0}
  /\ turn.step \in {"none", "lease", "bind", "begin", "chunks", "submit", "answer", "readback"}
  /\ \A n \in Starts :
       archive[n].phase \in {"none", "awaiting_device", "preheat", "needs_review", "closed"}

(* A run follows the recipe its archived session names, as it is saved and  *)
(* for the profile it was archived with, whatever activation was cut short  *)
(* or came late: start archive, run binding, the board's checks.            *)
RunAsArchived ==
  board2.run # NoRunning =>
    LET n == board2.run.n  r == board2.run.recipe
    IN /\ archive[n].recipe = r /\ runBound[n] = r /\ archive[n].phase # "closed"
       /\ r \in bindings /\ versions[r.version] = r.definition
       /\ r.profile = board2.run.profile /\ Executable(r.definition, r.profile)

(* An activation answered with success holds until another is sent: a power *)
(* cut does not bring the recipe before it back.                            *)
ConfirmedIsDurable ==
  confirmed # NoRecipe => board2.active = confirmed /\ flash.active = confirmed

RecipesSound == RunAsArchived /\ ConfirmedIsDurable
=============================================================================
