--------------------------- MODULE OperationLedger ---------------------------
(***************************************************************************)
(* What the durable command protocol promises its callers, without wire,   *)
(* tables or restarts: an operation acts at most once, the host's verdict  *)
(* is never wrong, and a final verdict is never taken back.                *)
(***************************************************************************)
CONSTANT Ops  \* operation identities

VARIABLES
  fate,    \* what became of each operation on the device
  verdict  \* what the host holds as proved about it

Fates    == {"new", "issued", "acted"}
Verdicts == {"none", "acting", "acted", "refused"}

LedgerInit == /\ fate = [o \in Ops |-> "new"]
              /\ verdict = [o \in Ops |-> "none"]

Issue(o) == /\ fate[o] = "new"
            /\ fate' = [fate EXCEPT ![o] = "issued"]
            /\ UNCHANGED verdict

Act(o) == /\ fate[o] = "issued"
          /\ verdict[o] # "refused"
          /\ fate' = [fate EXCEPT ![o] = "acted"]
          /\ UNCHANGED verdict

(* accepted, then applied or interrupted: only of an operation that acted   *)
LearnActed(o) == /\ fate[o] = "acted"
                 /\ verdict[o] \in {"none", "acting"}
                 /\ \E v \in {"acting", "acted"} : verdict' = [verdict EXCEPT ![o] = v]
                 /\ UNCHANGED fate

LearnRefused(o) == /\ fate[o] = "issued"
                   /\ verdict[o] = "none"
                   /\ verdict' = [verdict EXCEPT ![o] = "refused"]
                   /\ UNCHANGED fate

(* Doubt may return to operations that were only under way.                 *)
Doubt == /\ UNCHANGED fate
         /\ \E S \in SUBSET {o \in Ops : verdict[o] = "acting"} :
              verdict' = [o \in Ops |-> IF o \in S THEN "none" ELSE verdict[o]]

LedgerNext == \/ \E o \in Ops : Issue(o) \/ Act(o) \/ LearnActed(o) \/ LearnRefused(o)
              \/ Doubt

LedgerSpec == LedgerInit /\ [][LedgerNext]_<<fate, verdict>>
=============================================================================
