------------------------------ MODULE JobQueue ------------------------------
(***************************************************************************)
(* The job queue of the research runtime: the tables jobs, job_attempts,   *)
(* workers and artifacts of research_runtime.py, the worker processes that *)
(* lease jobs from it and the coordinator that takes jobs back.            *)
(*                                                                         *)
(* Every action is one database transaction, or one point where a process  *)
(* stops or time passes.  heartbeat_worker, renew_job_lease,               *)
(* lease_next_job, complete_job and fail_job run under BEGIN IMMEDIATE and *)
(* are single actions.  coordinator_cycle does not: sqlite3 opens its      *)
(* transaction at the first UPDATE, so what a SELECT returned before that  *)
(* is a plain copy (the variables coord, giveBack, giveUp, holders,        *)
(* pruning) while workers go on writing.                                   *)
(*                                                                         *)
(* Clocks are abstracted to ages: beat[w] counts which of the two cutoffs  *)
(* of coordinator_cycle heartbeat_at has fallen behind (1: the 30 s of     *)
(* _prune_stale_workers, 2: also the 60..180 s of                          *)
(* _recover_stale_running_jobs); lease[j] is "expired" once                *)
(* lease_expires_at is a further lease_timeout in the past.                *)
(***************************************************************************)
EXTENDS Integers, FiniteSets

CONSTANTS
  Job,            \* job ids
  Worker,         \* worker ids; a restarted worker keeps its id
  NoJob,          \* current_job_id IS NULL
  NoWorker,       \* leased_by IS NULL
  CampaignJob,    \* the jobs stop_campaign may cancel (one campaign_id)
  Priority,       \* jobs.priority
  MaxAttempts,    \* jobs.max_attempts
  MaxCrashes      \* bound: process crashes in one behaviour

ASSUME QueueAssumption ==
  /\ NoJob \notin Job
  /\ NoWorker \notin Worker
  /\ CampaignJob \subseteq Job
  /\ Priority \in [Job -> Int]
  /\ MaxAttempts \in Nat \ {0}
  /\ MaxCrashes \in Nat

VARIABLES
  status,      \* jobs.status, "absent" before the INSERT
  leasedBy,    \* jobs.leased_by
  lease,       \* jobs.lease_expires_at, as an age
  attempts,    \* jobs.attempt_count
  older,       \* jobs with a smaller created_at
  ledger,      \* rows of job_attempts
  artifacts,   \* per job, the attempts its rows of artifacts come from
  registered,  \* workers with a row in workers
  current,     \* workers.current_job_id
  beat,        \* workers.heartbeat_at, as an age
  pc,          \* where each worker process is in worker_loop
  holding,     \* the job a worker process executes
  turn,        \* its attempt_count when it was leased
  coord,       \* where the coordinator is in coordinator_cycle
  giveBack,    \* rows it read that it will write back as queued
  giveUp,      \* rows it read that it will write back as failed
  holders,     \* the leased_by values of those rows
  pruning,     \* the worker ids it read and will delete
  crashes      \* process crashes so far

jobVars    == <<status, leasedBy, lease, attempts, older, ledger, artifacts>>
workerRows == <<registered, current, beat>>
procVars   == <<pc, holding, turn>>
coordVars  == <<coord, giveBack, giveUp, holders, pruning>>
vars == <<jobVars, workerRows, procVars, coordVars, crashes>>

Statuses == {"absent", "queued", "running", "completed", "failed", "cancelled"}
Terminal == {"completed", "failed", "cancelled"}

Row == [job : Job, number : Nat \ {0}, worker : Worker,
        status : {"running", "completed", "failed"}]

Init ==
  /\ status = [j \in Job |-> "absent"]
  /\ leasedBy = [j \in Job |-> NoWorker]
  /\ lease = [j \in Job |-> "none"]
  /\ attempts = [j \in Job |-> 0]
  /\ older = [j \in Job |-> {}]
  /\ ledger = {}
  /\ artifacts = [j \in Job |-> {}]
  /\ registered = {}
  /\ current = [w \in Worker |-> NoJob]
  /\ beat = [w \in Worker |-> 0]
  /\ pc = [w \in Worker |-> "down"]
  /\ holding = [w \in Worker |-> NoJob]
  /\ turn = [w \in Worker |-> 0]
  /\ coord = "expired?"
  /\ giveBack = {} /\ giveUp = {} /\ holders = {} /\ pruning = {}
  /\ crashes = 0

-----------------------------------------------------------------------------
(* Jobs enter and leave the queue.                                          *)

\* submit_jobs: one INSERT per spec, all with the same created_at.
Submit(S) ==
  /\ \A j \in S : status[j] = "absent"
  /\ status' = [j \in Job |-> IF j \in S THEN "queued" ELSE status[j]]
  /\ older' = [j \in Job |-> IF j \in S THEN {k \in Job : status[k] # "absent"}
                                        ELSE older[j]]
  /\ UNCHANGED <<leasedBy, lease, attempts, ledger, artifacts,
                 workerRows, procVars, coordVars, crashes>>

\* Mutant: the WHERE clause forgets the status.
CancelAny ==
  /\ \E j \in CampaignJob : status[j] # "absent"
  /\ status' = [j \in Job |-> IF j \in CampaignJob /\ status[j] # "absent"
                              THEN "cancelled" ELSE status[j]]
  /\ UNCHANGED <<leasedBy, lease, attempts, older, ledger, artifacts,
                 workerRows, procVars, coordVars, crashes>>

\* The UPDATE of stop_campaign on the queued jobs of its campaign.
CancelQueued ==
  /\ \E j \in CampaignJob : status[j] = "queued"
  /\ status' = [j \in Job |-> IF j \in CampaignJob /\ status[j] = "queued"
                              THEN "cancelled" ELSE status[j]]
  /\ UNCHANGED <<leasedBy, lease, attempts, older, ledger, artifacts,
                 workerRows, procVars, coordVars, crashes>>

-----------------------------------------------------------------------------
(* A worker process: worker_loop.                                           *)

\* heartbeat_worker: insert the row, or update it.
Heartbeat(w, j) ==
  /\ registered' = registered \cup {w}
  /\ current' = [current EXCEPT ![w] = j]
  /\ beat' = [beat EXCEPT ![w] = 0]

\* The process starts; its first heartbeat is forced.
Start(w) ==
  /\ pc[w] = "down"
  /\ Heartbeat(w, NoJob)
  /\ pc' = [pc EXCEPT ![w] = "poll"]
  /\ UNCHANGED <<jobVars, holding, turn, coordVars, crashes>>

\* A polling worker repeats its idle heartbeat every 30 s or more.
IdleBeat(w) ==
  /\ pc[w] = "poll"
  /\ Heartbeat(w, NoJob)
  /\ UNCHANGED <<jobVars, procVars, coordVars, crashes>>

\* ORDER BY priority ASC, created_at ASC.
Before(k, j) ==
  \/ Priority[k] < Priority[j]
  \/ Priority[k] = Priority[j] /\ k \in older[j]

NextQueued(j) ==
  /\ status[j] = "queued"
  /\ \A k \in Job : status[k] = "queued" => ~Before(k, j)

\* Mutant: the attempt is numbered by the count before it.
SameAttempt(j) == attempts[j]

\* The number of the attempt a lease starts.
NextAttempt(j) == attempts[j] + 1

\* lease_next_job: the first queued job, a new attempt, no write to workers.
Lease(w, j) ==
  /\ pc[w] = "poll"
  /\ NextQueued(j)
  /\ status' = [status EXCEPT ![j] = "running"]
  /\ leasedBy' = [leasedBy EXCEPT ![j] = w]
  /\ lease' = [lease EXCEPT ![j] = "held"]
  /\ attempts' = [attempts EXCEPT ![j] = NextAttempt(j)]
  /\ ledger' = ledger \cup {[job |-> j, number |-> NextAttempt(j),
                             worker |-> w, status |-> "running"]}
  /\ pc' = [pc EXCEPT ![w] = "leased"]
  /\ holding' = [holding EXCEPT ![w] = j]
  /\ turn' = [turn EXCEPT ![w] = NextAttempt(j)]
  /\ UNCHANGED <<older, artifacts, workerRows, coordVars, crashes>>

\* The heartbeat after the lease, in a transaction of its own.
BeatRunning(w) ==
  /\ pc[w] = "leased"
  /\ Heartbeat(w, holding[w])
  /\ pc' = [pc EXCEPT ![w] = "exec"]
  /\ UNCHANGED <<jobVars, holding, turn, coordVars, crashes>>

\* execute_leased_job: the heartbeats while the subprocess runs.
ExecBeat(w) ==
  /\ pc[w] = "exec"
  /\ Heartbeat(w, holding[w])
  /\ UNCHANGED <<jobVars, procVars, coordVars, crashes>>

\* Mutant: the lease is renewed by job_id alone.
RenewableAnyway(w, j) == j \in Job

\* renew_job_lease: only a running job this worker still leases.
Renewable(w, j) == status[j] = "running" /\ leasedBy[j] = w

Renew(w) ==
  /\ pc[w] = "exec"
  /\ Renewable(w, holding[w])
  /\ lease' = [lease EXCEPT ![holding[w]] = "held"]
  /\ UNCHANGED <<status, leasedBy, attempts, older, ledger, artifacts,
                 workerRows, procVars, coordVars, crashes>>

\* Mutant: the row is looked up by worker alone.
OpenRowsOfWorker(w, j) ==
  {r \in ledger : j \in Job /\ r.worker = w /\ r.status = "running"}

\* The row _finish_attempt updates: the last one of j and w still running.
OpenRows(w, j) ==
  {r \in ledger : r.job = j /\ r.worker = w /\ r.status = "running"}

LastOpenRow(w, j) ==
  {r \in OpenRows(w, j) : \A q \in OpenRows(w, j) : q.number <= r.number}

FinishAttempt(w, j, outcome) ==
  ledger' = (ledger \ LastOpenRow(w, j))
            \cup {[r EXCEPT !.status = outcome] : r \in LastOpenRow(w, j)}

\* What complete_job and fail_job both write: the job under its id alone,
\* whoever leases it now, the attempt, and the worker's row if there is one.
Report(w, newStatus, outcome) ==
  LET j == holding[w] IN
  /\ pc[w] = "exec"
  /\ status' = [status EXCEPT ![j] = newStatus]
  /\ leasedBy' = [leasedBy EXCEPT ![j] = NoWorker]
  /\ lease' = [lease EXCEPT ![j] = "none"]
  /\ FinishAttempt(w, j, outcome)
  /\ current' = [current EXCEPT ![w] = NoJob]
  /\ beat' = [beat EXCEPT ![w] = 0]
  /\ pc' = [pc EXCEPT ![w] = "done"]
  /\ holding' = [holding EXCEPT ![w] = NoJob]
  /\ turn' = [turn EXCEPT ![w] = 0]
  /\ UNCHANGED <<attempts, older, registered, coordVars, crashes>>

\* Mutant: the INSERTs without the DELETE.
AddArtifacts(w) == artifacts' = [artifacts EXCEPT ![holding[w]] = @ \cup {turn[w]}]

\* complete_job: DELETE the job's artifacts, INSERT those of this attempt.
ReplaceArtifacts(w) == artifacts' = [artifacts EXCEPT ![holding[w]] = {turn[w]}]

Complete(w) ==
  /\ Report(w, "completed", "completed")
  /\ ReplaceArtifacts(w)

\* Mutant: one attempt more.
AfterFailureOneMore(j) == IF attempts[j] <= MaxAttempts THEN "queued" ELSE "failed"

\* fail_job: queued again while attempt_count < max_attempts.
AfterFailure(j) == IF attempts[j] < MaxAttempts THEN "queued" ELSE "failed"

Fail(w) ==
  /\ Report(w, AfterFailure(holding[w]), "failed")
  /\ UNCHANGED artifacts

\* The idle heartbeat after a job.
DoneBeat(w) ==
  /\ pc[w] = "done"
  /\ Heartbeat(w, NoJob)
  /\ pc' = [pc EXCEPT ![w] = "poll"]
  /\ UNCHANGED <<jobVars, holding, turn, coordVars, crashes>>

\* The container stops, or an exception leaves worker_loop (a lock that
\* outlasts the retries, output that is not JSON): the subprocess dies too.
Crash(w) ==
  /\ pc[w] # "down" /\ crashes < MaxCrashes
  /\ pc' = [pc EXCEPT ![w] = "down"]
  /\ holding' = [holding EXCEPT ![w] = NoJob]
  /\ turn' = [turn EXCEPT ![w] = 0]
  /\ crashes' = crashes + 1
  /\ UNCHANGED <<jobVars, workerRows, coordVars>>

-----------------------------------------------------------------------------
(* Time passes: heartbeats and leases that nobody refreshes grow old.       *)

AgeBeat(w) ==
  /\ w \in registered /\ beat[w] < 2
  /\ beat' = [beat EXCEPT ![w] = @ + 1]
  /\ UNCHANGED <<jobVars, registered, current, procVars, coordVars, crashes>>

ExpireLease(j) ==
  /\ lease[j] = "held"
  /\ lease' = [lease EXCEPT ![j] = "expired"]
  /\ UNCHANGED <<status, leasedBy, attempts, older, ledger, artifacts,
                 workerRows, procVars, coordVars, crashes>>

-----------------------------------------------------------------------------
(* The coordinator: coordinator_cycle.                                      *)

\* Mutant: a live worker's expired lease is trusted.
ExpiredOfTheDead ==
  {j \in Job : /\ status[j] = "running" /\ lease[j] = "expired"
               /\ leasedBy[j] \notin registered}

\* The first SELECT of _recover_stale_running_jobs.
Expired == {j \in Job : status[j] = "running" /\ lease[j] = "expired"}

\* The second SELECT of _recover_stale_running_jobs, on given tables.
StaleIn(st, by, age) ==
  {j \in Job : /\ st[j] = "running"
               /\ \/ by[j] \notin registered
                  \/ age[by[j]] = 2}

\* The SELECT of _prune_stale_workers, on given tables.
PrunableIn(st, by, cur, age) ==
  {w \in registered :
     /\ age[w] >= 1
     /\ ~\E j \in Job : cur[w] = j /\ st[j] = "running" /\ by[j] = w}

\* Mutant: a job is taken back whatever its attempts.
NoBudget(j) == j \in Job

HasBudget(j) == attempts[j] < MaxAttempts

\* What the UPDATEs write: the rows are named by job_id alone, and whether
\* each is queued or failed was decided by the attempt_count read with it.
TakenBack(st, R, F) ==
  [j \in Job |-> IF j \in R THEN "queued" ELSE IF j \in F THEN "failed" ELSE st[j]]

Cleared(f, S, none) == [j \in Job |-> IF j \in S THEN none ELSE f[j]]

\* The first SELECT.  Without rows the connection is still outside any
\* transaction when it goes on to the second SELECT.
ScanExpired ==
  /\ coord = "expired?"
  /\ giveBack' = {j \in Expired : HasBudget(j)}
  /\ giveUp' = {j \in Expired : ~HasBudget(j)}
  /\ coord' = IF Expired = {} THEN "stale?" ELSE "write expired"
  /\ UNCHANGED <<jobVars, workerRows, procVars, holders, pruning, crashes>>

ScanStale ==
  /\ coord = "stale?"
  /\ LET S == StaleIn(status, leasedBy, beat) IN
       /\ giveBack' = {j \in S : HasBudget(j)}
       /\ giveUp' = {j \in S : ~HasBudget(j)}
       /\ holders' = {leasedBy[j] : j \in S} \ {NoWorker}
       /\ coord' = IF S = {} THEN "prune?" ELSE "write stale"
  /\ UNCHANGED <<jobVars, workerRows, procVars, pruning, crashes>>

ScanPrune ==
  /\ coord = "prune?"
  /\ pruning' = PrunableIn(status, leasedBy, current, beat)
  /\ coord' = "prune"
  /\ UNCHANGED <<jobVars, workerRows, procVars, giveBack, giveUp, holders, crashes>>

\* The transaction a first UPDATE opens: the rows read before it, then (when
\* those were expired leases) the stale jobs, then the prune, up to COMMIT.
\* Only the UPDATEs for stale jobs reset the worker rows of their holders.
WriteBack ==
  LET st1   == TakenBack(status, giveBack, giveUp)
      by1   == Cleared(leasedBy, giveBack \cup giveUp, NoWorker)
      cur1  == [w \in Worker |-> IF w \in holders THEN NoJob ELSE current[w]]
      beat1 == [w \in Worker |-> IF w \in holders THEN 0 ELSE beat[w]]
      more  == IF coord = "write expired" THEN StaleIn(st1, by1, beat1) ELSE {}
      held  == {by1[j] : j \in more}
      st2   == TakenBack(st1, {j \in more : HasBudget(j)}, {j \in more : ~HasBudget(j)})
      by2   == Cleared(by1, more, NoWorker)
      cur2  == [w \in Worker |-> IF w \in held THEN NoJob ELSE cur1[w]]
      beat2 == [w \in Worker |-> IF w \in held THEN 0 ELSE beat1[w]]
      gone  == PrunableIn(st2, by2, cur2, beat2)
  IN
  /\ coord \in {"write expired", "write stale"}
  /\ status' = st2
  /\ leasedBy' = by2
  /\ lease' = Cleared(lease, giveBack \cup giveUp \cup more, "none")
  /\ registered' = registered \ gone
  /\ current' = [w \in Worker |-> IF w \in gone THEN NoJob ELSE cur2[w]]
  /\ beat' = [w \in Worker |-> IF w \in gone THEN 0 ELSE beat2[w]]
  /\ coord' = "expired?"
  /\ giveBack' = {} /\ giveUp' = {} /\ holders' = {}
  /\ UNCHANGED <<attempts, older, ledger, artifacts, procVars, pruning, crashes>>

\* DELETE FROM workers WHERE worker_id = ?, for the ids read before.
Prune ==
  /\ coord = "prune"
  /\ registered' = registered \ pruning
  /\ current' = [w \in Worker |-> IF w \in pruning THEN NoJob ELSE current[w]]
  /\ beat' = [w \in Worker |-> IF w \in pruning THEN 0 ELSE beat[w]]
  /\ coord' = "expired?"
  /\ pruning' = {}
  /\ UNCHANGED <<jobVars, procVars, giveBack, giveUp, holders, crashes>>

\* The coordinator stops before COMMIT and starts its loop again.
CrashCoordinator ==
  /\ coord # "expired?" /\ crashes < MaxCrashes
  /\ coord' = "expired?"
  /\ giveBack' = {} /\ giveUp' = {} /\ holders' = {} /\ pruning' = {}
  /\ crashes' = crashes + 1
  /\ UNCHANGED <<jobVars, workerRows, procVars>>

Coordinator == ScanExpired \/ ScanStale \/ ScanPrune \/ WriteBack \/ Prune

-----------------------------------------------------------------------------
WorkerStep(w) ==
  \/ Start(w) \/ IdleBeat(w) \/ BeatRunning(w) \/ ExecBeat(w)
  \/ Renew(w) \/ Complete(w) \/ Fail(w) \/ DoneBeat(w) \/ Crash(w)
  \/ \E j \in Job : Lease(w, j)

Next ==
  \/ \E S \in SUBSET Job : Submit(S)
  \/ CancelQueued
  \/ \E w \in Worker : WorkerStep(w) \/ AgeBeat(w)
  \/ \E j \in Job : ExpireLease(j)
  \/ Coordinator
  \/ CrashCoordinator

Spec == Init /\ [][Next]_vars

\* The loops of worker_loop and of the research-coordinator command run for
\* ever, a subprocess ends, and a lease that no process renews runs out.
\* Nothing makes a live worker miss its heartbeats or its renewals.
Orphan(j) == \A w \in Worker : holding[w] # j

Fairness ==
  /\ WF_vars(Coordinator)
  /\ \A j \in Job : WF_vars(Orphan(j) /\ ExpireLease(j))
  /\ \A w \in Worker :
       /\ WF_vars(Start(w)) /\ WF_vars(BeatRunning(w)) /\ WF_vars(DoneBeat(w))
       /\ WF_vars(\E j \in Job : Lease(w, j))
       /\ WF_vars(Complete(w) \/ Fail(w))

FairSpec == Spec /\ Fairness

-----------------------------------------------------------------------------
(* Properties.                                                              *)

TypeOK ==
  /\ status \in [Job -> Statuses]
  /\ leasedBy \in [Job -> Worker \cup {NoWorker}]
  /\ lease \in [Job -> {"none", "held", "expired"}]
  /\ attempts \in [Job -> Nat]
  /\ older \in [Job -> SUBSET Job]
  /\ ledger \subseteq Row
  /\ artifacts \in [Job -> SUBSET Nat]
  /\ registered \subseteq Worker
  /\ current \in [Worker -> Job \cup {NoJob}]
  /\ beat \in [Worker -> {0, 1, 2}]
  /\ pc \in [Worker -> {"down", "poll", "leased", "exec", "done"}]
  /\ holding \in [Worker -> Job \cup {NoJob}]
  /\ turn \in [Worker -> Nat]
  /\ coord \in {"expired?", "write expired", "stale?", "write stale", "prune?", "prune"}
  /\ giveBack \subseteq Job /\ giveUp \subseteq Job
  /\ holders \subseteq Worker /\ pruning \subseteq Worker
  /\ crashes \in 0 .. MaxCrashes

\* A job is leased exactly while it is running, although six writers touch
\* the three columns and two of them do not look at what they overwrite: the
\* coordinator's test for "leased_by IS NULL" never has to fire.
LeaseMatchesStatus ==
  \A j \in Job : /\ status[j] = "running" <=> leasedBy[j] # NoWorker
                 /\ status[j] = "running" <=> lease[j] # "none"

\* job_attempts is a complete ledger of attempt_count: for every job its rows
\* are numbered 1 .. attempt_count, each number once, so that two executions
\* never share the log files attempt_<n>.stdout.json (execute_leased_job).
AttemptLedger ==
  \A j \in Job :
    /\ {r.number : r \in {q \in ledger : q.job = j}} = 1 .. attempts[j]
    /\ \A r, q \in ledger : r.job = j /\ q.job = j /\ r.number = q.number => r = q

\* The lease holder of a running job is the worker of the newest attempt and
\* that attempt is still open, whichever stragglers have reported meanwhile.
HolderHasNewestAttempt ==
  \A j \in Job : status[j] = "running" =>
    [job |-> j, number |-> attempts[j], worker |-> leasedBy[j],
     status |-> "running"] \in ledger

\* _finish_attempt looks its row up by job and worker, not by number.  Even
\* after crashes, restarts and take-backs that leave other rows of the same
\* worker open, the row it finds is the one of the attempt being reported.
ReportClosesOwnAttempt ==
  \A w \in Worker : holding[w] # NoJob =>
    LastOpenRow(w, holding[w]) =
      {[job |-> holding[w], number |-> turn[w], worker |-> w, status |-> "running"]}

\* The retry budget: a job is abandoned only when its attempts are spent, and
\* never makes more than one attempt above max_attempts.  That one extra is
\* possible: the coordinator decides "queued" from an attempt_count it read
\* before its transaction, and may write it over a later attempt.
RetryBudget ==
  \A j \in Job : /\ attempts[j] <= MaxAttempts + 1
                 /\ status[j] = "failed" => attempts[j] >= MaxAttempts
                 /\ status[j] = "queued" => attempts[j] <= MaxAttempts

\* The rows of artifacts a job has all come from one attempt, one that the
\* ledger has as completed; a completed job has such an attempt.
ArtifactsOfOneCompletedAttempt ==
  \A j \in Job :
    /\ \A a \in artifacts[j] :
         /\ artifacts[j] = {a}
         /\ \E r \in ledger : r.job = j /\ r.number = a /\ r.status = "completed"
    /\ status[j] = "completed" => artifacts[j] # {}

\* A final status is final unless somebody is late: it changes only when a
\* worker that was given up on still executes the job, or when the coordinator
\* read the job as running before its transaction.
FinalUnlessLate ==
  [][\A j \in Job : status[j] \in Terminal /\ status'[j] # status[j] =>
       \/ \E w \in Worker : holding[w] = j
       \/ j \in giveBack \cup giveUp]_vars

\* Every job that was submitted ends, and stays, in a final status: stragglers
\* and take-backs cannot keep it going for ever.
EveryJobSettles ==
  \A j \in Job : <>[](status[j] \in Terminal \cup {"absent"})

\* The queue keeps its contract with the campaigns.
Contract == INSTANCE JobContract
ImplementsContract == Contract!Spec
=============================================================================
