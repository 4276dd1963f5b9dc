------------------------------ MODULE MCRecovery ------------------------------
(***************************************************************************)
(* Instances for TLC of the two recoveries that must come to an end: of    *)
(* the device's log after a connection, and of an upgrade cut short.  They *)
(* share no state; `part' says which one a behaviour is about.             *)
(***************************************************************************)
EXTENDS V2SourceLog, MCUpgradeTransaction

VARIABLE part

MCInit == part \in {"log", "upgrade"} /\ Init /\ UpgradeInit

MCNext ==
  /\ UNCHANGED part
  /\ \/ part = "log" /\ Next /\ UNCHANGED upgradeVars
     \/ part = "upgrade" /\ UpgradeNext /\ UNCHANGED vars

MCSpec == MCInit /\ [][MCNext]_<<part, vars, upgradeVars>>

(* The fairness of V2SourceLog!FairSpec and UpgradeFairSpec for the part   *)
(* that moves.                                                             *)
MCFairSpec ==
  /\ MCSpec
  /\ WF_vars(part = "log" /\ ServeRequest) /\ WF_vars(part = "log" /\ ServeAck)
  /\ WF_vars(part = "log" /\ GiveUp) /\ WF_vars(part = "log" /\ LinkUp)
  /\ WF_vars(part = "log" /\ ReadLog) /\ WF_vars(part = "log" /\ \E s \in Seqs : ReadLive(s))
  /\ WF_vars(part = "log" /\ Callback) /\ WF_vars(part = "log" /\ Scan)
  /\ WF_vars(part = "log" /\ AbandonScan /\ UNCHANGED faults)
  /\ WF_upgradeVars(part = "upgrade" /\ Step) /\ WF_upgradeVars(part = "upgrade" /\ Recover)

(* A host that is recovering its log comes to be ready and stays so once   *)
(* faults cease: V2Client._recover.                                        *)
LogRecovered == part = "log" => RecoveryCompletes
=============================================================================
