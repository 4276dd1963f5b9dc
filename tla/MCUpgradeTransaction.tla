------------------------ MODULE MCUpgradeTransaction ------------------------
(* Instances of UpgradeTransaction for TLC.                                *)
EXTENDS UpgradeTransaction

Migrating == [v \in Versions |-> v]  \* every release has a schema of its own
=============================================================================
