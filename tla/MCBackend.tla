------------------------------ MODULE MCBackend ------------------------------
(***************************************************************************)
(* Instances for TLC of five components of the backend that share no       *)
(* state: one run checks them beside one another.  `part' says which one a *)
(* behaviour is about; the variables of the others keep their initial      *)
(* values, so the states of the run are the sum of the components' states. *)
(***************************************************************************)
EXTENDS MaintenanceGate, RunRecovery, AlarmArchive, HttpOperations, RecipeActivation

VARIABLE part

Post(o, k, t, u) == [op |-> o, kind |-> k, test |-> t, user |-> u]

(* Two users' starts, with the first operation_id posted for a stop too;   *)
(* and a start, a stop and a recipe of one user and another.               *)
Scenarios ==
  {{Post("a", "start", "t1", "u1"), Post("a", "stop", "-", "u1"), Post("b", "start", "t2", "u2")},
   {Post("a", "start", "t1", "u1"), Post("b", "stop", "-", "u2"), Post("c", "set", "-", "u1")}}

(* Two starts, beside the review of a past run.                            *)
HistoryScenarios ==
  {{Post("a", "start", "t1", "u1"), Post("b", "start", "t2", "u2")}}

AllScenarios == Scenarios \cup HistoryScenarios

(* One initial state will do for a component that takes no step, and past  *)
(* runs are the subject of a part of their own.                            *)
Fixed ==
  /\ part # "maintenance" => known
  /\ part # "recovery" => records = <<>>
  /\ part = "http" => DOMAIN tasks \in Scenarios /\ AtRest
  /\ part = "history" => DOMAIN tasks \in HistoryScenarios
  /\ part \notin {"http", "history"} =>
       /\ DOMAIN tasks = CHOOSE posts \in HttpScenarios : TRUE
       /\ AtRest

MCInit ==
  /\ part \in {"maintenance", "recovery", "alarms", "http", "history", "recipes"}
  /\ Init /\ RunInit /\ AlarmInit /\ HttpInit /\ RecipeInit
  /\ Fixed

MCNext ==
  /\ UNCHANGED part
  /\ \/ part = "maintenance" /\ Next /\ UNCHANGED <<runVars, alarmVars, httpVars, recipeVars>>
     \/ part = "recovery" /\ RunNext /\ UNCHANGED <<vars, alarmVars, httpVars, recipeVars>>
     \/ part = "alarms" /\ AlarmNext /\ UNCHANGED <<vars, runVars, httpVars, recipeVars>>
     \/ part = "http" /\ HttpNext /\ UNCHANGED <<review, vars, runVars, alarmVars, recipeVars>>
     \/ part = "history" /\ HttpNext /\ UNCHANGED <<vars, runVars, alarmVars, recipeVars>>
     \/ part = "recipes" /\ RecipeNext /\ UNCHANGED <<vars, runVars, alarmVars, httpVars>>

MCSpec == MCInit /\ [][MCNext]_<<part, vars, runVars, alarmVars, httpVars, recipeVars>>

(* Every variable of every component has its type.                         *)
TypesOK == TypeOK /\ RunTypeOK /\ AlarmTypeOK /\ HttpTypeOK /\ RecipeTypeOK
=============================================================================
