----------------------------- MODULE MCJobQueue -----------------------------
(* Instances of JobQueue for TLC. *)
EXTENDS JobQueue, TLC

\* The default priority of submit_jobs: created_at decides.
SamePriority == [j \in Job |-> 100]

\* One job goes before the others.
OneUrgent == LET urgent == CHOOSE j \in Job : TRUE
             IN  [j \in Job |-> IF j = urgent THEN 10 ELSE 100]

WorkerSymmetry == Permutations(Worker)
=============================================================================
