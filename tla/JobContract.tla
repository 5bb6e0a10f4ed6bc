---------------------------- MODULE JobContract ----------------------------
(***************************************************************************)
(* What the job queue promises to the code that submits jobs to it (the    *)
(* campaigns): the life of a job's status and of its attempt counter, with *)
(* no worker, lease or coordinator in sight.  JobQueue implements it.      *)
(*                                                                         *)
(* The promise is weaker than a reader of the schema may expect.  A status *)
(* that looks final may be overwritten by a worker that was already given  *)
(* up on, and one attempt more than max_attempts may be made.  It is still *)
(* a promise: a job is only abandoned once its attempts are spent, a job   *)
(* nobody started never gets a result, and cancelling touches queued jobs  *)
(* alone.                                                                  *)
(***************************************************************************)
EXTENDS Integers

CONSTANTS Job,          \* job ids
          MaxAttempts   \* the column max_attempts

VARIABLES status,       \* jobs.status, "absent" before the INSERT
          attempts      \* jobs.attempt_count

vars == <<status, attempts>>

Statuses == {"absent", "queued", "running", "completed", "failed", "cancelled"}

Init ==
  /\ status = [j \in Job |-> "absent"]
  /\ attempts = [j \in Job |-> 0]

\* Several jobs are inserted by one transaction.
Submit(S) ==
  /\ \A j \in S : status[j] = "absent"
  /\ status' = [j \in Job |-> IF j \in S THEN "queued" ELSE status[j]]
  /\ UNCHANGED attempts

\* A queued job is given to a worker.
Start(j) ==
  /\ status[j] = "queued"
  /\ attempts[j] <= MaxAttempts
  /\ status' = [status EXCEPT ![j] = "running"]
  /\ attempts' = [attempts EXCEPT ![j] = @ + 1]

\* A started job gets a result, whatever its status has become meanwhile.
Complete(j) ==
  /\ attempts[j] > 0
  /\ status' = [status EXCEPT ![j] = "completed"]
  /\ UNCHANGED attempts

\* Started jobs go back to the queue (R) or are abandoned (F).
GiveBack(R, F) ==
  /\ \A j \in R : attempts[j] \in 1 .. MaxAttempts
  /\ \A j \in F : attempts[j] > 0 /\ attempts[j] >= MaxAttempts
  /\ status' = [j \in Job |-> IF j \in R THEN "queued"
                              ELSE IF j \in F THEN "failed" ELSE status[j]]
  /\ UNCHANGED attempts

\* Queued jobs are withdrawn.
Cancel(S) ==
  /\ \A j \in S : status[j] = "queued"
  /\ status' = [j \in Job |-> IF j \in S THEN "cancelled" ELSE status[j]]
  /\ UNCHANGED attempts

Next ==
  \/ \E S \in SUBSET Job : Submit(S) \/ Cancel(S)
  \/ \E j \in Job : Start(j) \/ Complete(j)
  \/ \E R, F \in SUBSET Job : GiveBack(R, F)

Spec == Init /\ [][Next]_vars
=============================================================================
