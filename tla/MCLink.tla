-------------------------------- MODULE MCLink --------------------------------
(***************************************************************************)
(* Instances for TLC of the connections to the boards, of what comes over  *)
(* them and of the installation under it, components that share no state:  *)
(* one run checks them beside one another.  `part' says which one a        *)
(* behaviour is about; the variables of the others keep their initial      *)
(* values, so the states of the run are the sum of the components' states. *)
(***************************************************************************)
EXTENDS V2SourceLog, V2Lease, HostCommV1, MeasurementRun, DesktopInstall

VARIABLE part

logVars == vars

(* One initial state will do for a component that takes no step.           *)
MCInit ==
  /\ part \in {"log", "lease", "client", "recording", "install"}
  /\ Init /\ LeaseInit /\ V1Init /\ MeasurementInit /\ InstallInit
  /\ part # "install" => files.pointer
  /\ part # "client" => mode = "accept"

MCNext ==
  /\ UNCHANGED part
  /\ \/ part = "log" /\ Next /\ UNCHANGED <<leaseVars, v1Vars, mRunVars, iVars>>
     \/ part = "lease" /\ LeaseNext /\ UNCHANGED <<logVars, v1Vars, mRunVars, iVars>>
     \/ part = "client" /\ V1Next /\ UNCHANGED <<logVars, leaseVars, mRunVars, iVars>>
     \/ part = "recording" /\ MeasurementNext /\ UNCHANGED <<logVars, leaseVars, v1Vars, iVars>>
     \/ part = "install" /\ InstallNext /\ UNCHANGED <<logVars, leaseVars, v1Vars, mRunVars>>

MCSpec == MCInit /\ [][MCNext]_<<part, logVars, leaseVars, v1Vars, mRunVars, iVars>>

(* Every variable of every component has its type.                         *)
TypesOK == TypeOK /\ LeaseTypeOK /\ V1TypeOK /\ MeasurementTypeOK /\ InstallTypeOK
=============================================================================
