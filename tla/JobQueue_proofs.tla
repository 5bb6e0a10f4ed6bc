--------------------------- MODULE JobQueue_proofs ---------------------------
(***************************************************************************)
(* Theorems about JobQueue, for any sets of jobs and workers.              *)
(***************************************************************************)
EXTENDS JobQueue, TLAPS

-----------------------------------------------------------------------------
(* Type correctness.                                                        *)

\* The row a lease inserts is a row of job_attempts.
LEMMA NewRowType ==
  ASSUME NEW j \in Job, NEW w \in Worker, NEW n \in Nat
  PROVE  [job |-> j, number |-> n + 1, worker |-> w, status |-> "running"] \in Row
BY DEF Row

\* Closing a row leaves a row.
LEMMA FinishAttemptType ==
  ASSUME ledger \subseteq Row, NEW w \in Worker, NEW j,
         NEW outcome \in {"completed", "failed"}, FinishAttempt(w, j, outcome)
  PROVE  ledger' \subseteq Row
BY DEF FinishAttempt, LastOpenRow, OpenRows, Row

\* A report keeps the types of what it writes.
LEMMA ReportType ==
  ASSUME TypeOK, NEW w \in Worker, holding[w] \in Job, NEW s \in Statuses,
         NEW o \in {"completed", "failed"}, Report(w, s, o)
  PROVE  /\ status' \in [Job -> Statuses]
         /\ leasedBy' \in [Job -> Worker \cup {NoWorker}]
         /\ lease' \in [Job -> {"none", "held", "expired"}]
         /\ attempts' = attempts /\ older' = older
         /\ ledger' \subseteq Row
         /\ registered' = registered
         /\ current' \in [Worker -> Job \cup {NoJob}]
         /\ beat' \in [Worker -> {0, 1, 2}]
         /\ pc' \in [Worker -> {"down", "poll", "leased", "exec", "done"}]
         /\ holding' \in [Worker -> Job \cup {NoJob}]
         /\ turn' \in [Worker -> Nat]
         /\ UNCHANGED coordVars /\ crashes' = crashes
<1>1. FinishAttempt(w, holding[w], o) /\ ledger \subseteq Row
  BY DEF Report, TypeOK
<1>2. ledger' \subseteq Row
  BY <1>1, FinishAttemptType
<1>3. QED
  BY <1>2 DEF Report, TypeOK, Statuses

\* Only a process between its lease and its report holds a job.
HoldingOK ==
  \A w \in Worker : holding[w] # NoJob <=> pc[w] \in {"leased", "exec"}

LEMMA TypeInit == Init => TypeOK /\ HoldingOK
BY QueueAssumption DEF Init, TypeOK, HoldingOK, Statuses

LEMMA TypeStep == TypeOK /\ HoldingOK /\ [Next]_vars => TypeOK' /\ HoldingOK'
<1> SUFFICES ASSUME TypeOK, HoldingOK, [Next]_vars
             PROVE  TypeOK' /\ HoldingOK'
  OBVIOUS
<1> USE QueueAssumption
<1>1. ASSUME NEW S \in SUBSET Job, Submit(S)
      PROVE  TypeOK' /\ HoldingOK'
  BY <1>1 DEF Submit, TypeOK, HoldingOK, Statuses, workerRows, procVars, coordVars
<1>2. CASE CancelQueued
  BY <1>2 DEF CancelQueued, TypeOK, HoldingOK, Statuses, workerRows, procVars, coordVars
<1>3. ASSUME NEW w \in Worker, Start(w) PROVE TypeOK' /\ HoldingOK'
  BY <1>3 DEF Start, Heartbeat, TypeOK, HoldingOK, jobVars, coordVars
<1>4. ASSUME NEW w \in Worker, IdleBeat(w) PROVE TypeOK' /\ HoldingOK'
  BY <1>4 DEF IdleBeat, Heartbeat, TypeOK, HoldingOK, jobVars, procVars, coordVars
<1>5. ASSUME NEW w \in Worker, NEW j \in Job, Lease(w, j)
      PROVE  TypeOK' /\ HoldingOK'
  <2>1. attempts[j] \in Nat /\ ledger \subseteq Row
    BY DEF TypeOK
  <2>2. [job |-> j, number |-> attempts[j] + 1, worker |-> w, status |-> "running"] \in Row
    BY <2>1, NewRowType
  <2>3. ledger' \subseteq Row
    BY <1>5, <2>1, <2>2 DEF Lease, NextAttempt
  <2>4. attempts' = [attempts EXCEPT ![j] = attempts[j] + 1]
        /\ turn' = [turn EXCEPT ![w] = attempts[j] + 1]
    BY <1>5 DEF Lease, NextAttempt
  <2>5. attempts' \in [Job -> Nat] /\ turn' \in [Worker -> Nat]
    <3>1. attempts \in [Job -> Nat] /\ turn \in [Worker -> Nat]
      BY DEF TypeOK
    <3>2. attempts[j] + 1 \in Nat
      BY <2>1
    <3>3. QED BY <2>4, <3>1, <3>2
  <2>6. TypeOK'
    BY <1>5, <2>3, <2>5 DEF Lease, NextAttempt, TypeOK, Statuses, workerRows, coordVars
  <2>7. HoldingOK'
    BY <1>5 DEF Lease, NextAttempt, TypeOK, HoldingOK
  <2>8. QED BY <2>6, <2>7
<1>6. ASSUME NEW w \in Worker, BeatRunning(w) PROVE TypeOK' /\ HoldingOK'
  BY <1>6 DEF BeatRunning, Heartbeat, TypeOK, HoldingOK, jobVars, coordVars
<1>7. ASSUME NEW w \in Worker, ExecBeat(w) PROVE TypeOK' /\ HoldingOK'
  BY <1>7 DEF ExecBeat, Heartbeat, TypeOK, HoldingOK, jobVars, procVars, coordVars
<1>8. ASSUME NEW w \in Worker, Renew(w) PROVE TypeOK' /\ HoldingOK'
  BY <1>8 DEF Renew, TypeOK, HoldingOK, workerRows, procVars, coordVars
<1>9. ASSUME NEW w \in Worker, Complete(w) PROVE TypeOK' /\ HoldingOK'
  <2>1. holding[w] \in Job
    BY <1>9 DEF Complete, Report, TypeOK, HoldingOK
  <2>2. Report(w, "completed", "completed")
    BY <1>9 DEF Complete
  <2>3. artifacts' \in [Job -> SUBSET Nat]
    <3>1. artifacts \in [Job -> SUBSET Nat] /\ turn[w] \in Nat
      BY DEF TypeOK
    <3>2. artifacts' = [artifacts EXCEPT ![holding[w]] = {turn[w]}]
      BY <1>9 DEF Complete, ReplaceArtifacts
    <3>3. QED BY <3>1, <3>2
  <2>4. TypeOK'
    BY <2>1, <2>2, <2>3, ReportType, ZenonT(60) DEF TypeOK, Statuses, coordVars
  <2>5. HoldingOK'
    BY <2>2 DEF Report, HoldingOK, TypeOK
  <2>6. QED BY <2>4, <2>5
<1>10. ASSUME NEW w \in Worker, Fail(w) PROVE TypeOK' /\ HoldingOK'
  <2>1. holding[w] \in Job
    BY <1>10 DEF Fail, Report, TypeOK, HoldingOK
  <2>2. AfterFailure(holding[w]) \in Statuses /\ artifacts' = artifacts
    BY <1>10 DEF Fail, AfterFailure, Statuses
  <2>3. Report(w, AfterFailure(holding[w]), "failed")
    BY <1>10 DEF Fail
  <2>4. TypeOK'
    BY <2>1, <2>2, <2>3, ReportType DEF TypeOK, coordVars
  <2>5. HoldingOK'
    BY <2>3 DEF Report, HoldingOK, TypeOK
  <2>6. QED BY <2>4, <2>5
<1>11. ASSUME NEW w \in Worker, DoneBeat(w) PROVE TypeOK' /\ HoldingOK'
  BY <1>11 DEF DoneBeat, Heartbeat, TypeOK, HoldingOK, jobVars, coordVars
<1>12. ASSUME NEW w \in Worker, Crash(w) PROVE TypeOK' /\ HoldingOK'
  <2>1. crashes' \in 0 .. MaxCrashes
    <3>1. crashes \in 0 .. MaxCrashes
      BY DEF TypeOK
    <3>2. crashes' = crashes + 1 /\ crashes < MaxCrashes
      BY <1>12 DEF Crash
    <3>3. QED BY <3>1, <3>2
  <2>2. TypeOK'
    BY <1>12, <2>1 DEF Crash, TypeOK, jobVars, workerRows, coordVars
  <2>3. HoldingOK'
    BY <1>12 DEF Crash, TypeOK, HoldingOK
  <2>4. QED BY <2>2, <2>3
<1>13. ASSUME NEW w \in Worker, AgeBeat(w) PROVE TypeOK' /\ HoldingOK'
  <2>1. beat \in [Worker -> {0, 1, 2}]
    BY DEF TypeOK
  <2>2. beat' \in [Worker -> {0, 1, 2}]
    <3>1. beat' = [beat EXCEPT ![w] = beat[w] + 1] /\ beat[w] < 2
      BY <1>13 DEF AgeBeat
    <3>2. beat[w] + 1 \in {0, 1, 2}
      BY <2>1, <3>1
    <3>3. QED BY <2>1, <3>1, <3>2
  <2>3. QED
    BY <1>13, <2>2 DEF AgeBeat, TypeOK, HoldingOK, jobVars, procVars, coordVars
<1>14. ASSUME NEW j \in Job, ExpireLease(j) PROVE TypeOK' /\ HoldingOK'
  BY <1>14 DEF ExpireLease, TypeOK, HoldingOK, workerRows, procVars, coordVars
<1>15. CASE ScanExpired
  BY <1>15 DEF ScanExpired, Expired, TypeOK, HoldingOK, jobVars, workerRows, procVars
<1>16. CASE ScanStale
  <2>1. holders' \subseteq Worker
    <3>1. holders' = {leasedBy[j] : j \in StaleIn(status, leasedBy, beat)} \ {NoWorker}
      BY <1>16 DEF ScanStale
    <3>2. StaleIn(status, leasedBy, beat) \subseteq Job
      BY DEF StaleIn
    <3>3. leasedBy \in [Job -> Worker \cup {NoWorker}]
      BY DEF TypeOK
    <3>4. QED BY <3>1, <3>2, <3>3
  <2>2. QED
    BY <1>16, <2>1 DEF ScanStale, StaleIn, TypeOK, HoldingOK, jobVars, workerRows, procVars
<1>17. CASE ScanPrune
  BY <1>17 DEF ScanPrune, PrunableIn, TypeOK, HoldingOK, jobVars, workerRows, procVars
<1>18. CASE WriteBack
  BY <1>18 DEF WriteBack, TakenBack, Cleared, StaleIn, PrunableIn, TypeOK, HoldingOK,
               Statuses, procVars
<1>19. CASE Prune
  BY <1>19 DEF Prune, TypeOK, HoldingOK, jobVars, procVars
<1>20. CASE CrashCoordinator
  <2>1. crashes' \in 0 .. MaxCrashes
    <3>1. crashes \in 0 .. MaxCrashes
      BY DEF TypeOK
    <3>2. crashes' = crashes + 1 /\ crashes < MaxCrashes
      BY <1>20 DEF CrashCoordinator
    <3>3. QED BY <3>1, <3>2
  <2>2. QED
    BY <1>20, <2>1 DEF CrashCoordinator, TypeOK, HoldingOK, jobVars, workerRows, procVars
<1>21. CASE UNCHANGED vars
  BY <1>21 DEF vars, TypeOK, HoldingOK, jobVars, workerRows, procVars, coordVars
<1>22. QED
  BY <1>1, <1>2, <1>3, <1>4, <1>5, <1>6, <1>7, <1>8, <1>9, <1>10, <1>11, <1>12,
     <1>13, <1>14, <1>15, <1>16, <1>17, <1>18, <1>19, <1>20, <1>21
  DEF Next, WorkerStep, Coordinator

\* Every variable keeps its type, whatever the order of the transactions.
THEOREM TypeCorrect == Spec => [](TypeOK /\ HoldingOK)
<1>1. QED BY TypeInit, TypeStep, PTL DEF Spec

-----------------------------------------------------------------------------
(* The ledger of attempts.                                                  *)

\* Most steps write none of the tables jobs, job_attempts and artifacts, save
\* for a lease, and leave every process with the job it has.
Frame == UNCHANGED <<status, leasedBy, attempts, ledger, artifacts, holding, turn>>

LEMMA NextCases ==
  ASSUME [Next]_vars
  PROVE  \/ Frame
         \/ \E S \in SUBSET Job : Submit(S)
         \/ CancelQueued
         \/ \E w \in Worker, j \in Job : Lease(w, j)
         \/ \E w \in Worker : Complete(w) \/ Fail(w) \/ Crash(w)
         \/ WriteBack
<1>1. ASSUME NEW w \in Worker,
             \/ Start(w) \/ IdleBeat(w) \/ BeatRunning(w) \/ ExecBeat(w)
             \/ Renew(w) \/ DoneBeat(w) \/ AgeBeat(w)
      PROVE  Frame
  BY <1>1 DEF Frame, Start, IdleBeat, BeatRunning, ExecBeat, Renew, DoneBeat, AgeBeat,
              jobVars, procVars
<1>2. ASSUME NEW j \in Job, ExpireLease(j) PROVE Frame
  BY <1>2 DEF Frame, ExpireLease, procVars
<1>3. ASSUME ScanExpired \/ ScanStale \/ ScanPrune \/ Prune \/ CrashCoordinator
      PROVE  Frame
  BY <1>3 DEF Frame, ScanExpired, ScanStale, ScanPrune, Prune, CrashCoordinator,
              jobVars, procVars
<1>4. ASSUME UNCHANGED vars PROVE Frame
  BY <1>4 DEF Frame, vars, jobVars, procVars
<1>5. QED
  BY <1>1, <1>2, <1>3, <1>4 DEF Next, WorkerStep, Coordinator

\* A process that holds a job holds an element of Job.
LEMMA HoldsAJob ==
  ASSUME TypeOK, HoldingOK, NEW w \in Worker, pc[w] = "exec"
  PROVE  holding[w] \in Job /\ holding[w] # NoJob
BY QueueAssumption DEF TypeOK, HoldingOK

\* The row of the attempt a process executes.
OwnRow(w) == [job |-> holding[w], number |-> turn[w], worker |-> w, status |-> "running"]

\* Strengthened form of AttemptLedger and ReportClosesOwnAttempt: no row is
\* numbered past attempt_count, and what a process executes is the newest row
\* of that job and worker that is still open.
LedgerInv ==
  /\ \A r \in ledger : r.number <= attempts[r.job]
  /\ \A j \in Job : \A n \in 1 .. attempts[j] :
       \E r \in ledger : r.job = j /\ r.number = n
  /\ \A r, q \in ledger : r.job = q.job /\ r.number = q.number => r = q

OwnRowInv ==
  \A w \in Worker : holding[w] # NoJob =>
    /\ OwnRow(w) \in ledger
    /\ \A r \in OpenRows(w, holding[w]) : r.number <= turn[w]

\* With its own row the newest open one, that row is what a report closes.
LEMMA LastIsOwn ==
  ASSUME TypeOK, LedgerInv, OwnRowInv, NEW w \in Worker, holding[w] # NoJob
  PROVE  LastOpenRow(w, holding[w]) = {OwnRow(w)}
<1>1. OwnRow(w) \in OpenRows(w, holding[w])
  BY DEF OwnRowInv, OwnRow, OpenRows
<1>2. OwnRow(w) \in LastOpenRow(w, holding[w])
  BY <1>1 DEF OwnRowInv, OwnRow, LastOpenRow
<1>3. ASSUME NEW r \in LastOpenRow(w, holding[w]) PROVE r = OwnRow(w)
  <2>1. r \in OpenRows(w, holding[w]) /\ r.number >= OwnRow(w).number
    BY <1>1, <1>3 DEF LastOpenRow
  <2>2. r.number <= turn[w] /\ OwnRow(w).number = turn[w]
    BY <2>1 DEF OwnRowInv, OwnRow
  <2>3. r.number \in Nat /\ turn[w] \in Nat
    BY <2>1 DEF TypeOK, OpenRows, Row
  <2>4. r.number = OwnRow(w).number
    BY <2>1, <2>2, <2>3
  <2>5. r.job = OwnRow(w).job
    BY <2>1 DEF OpenRows, OwnRow
  <2>6. r \in ledger /\ OwnRow(w) \in ledger
    BY <2>1, <1>1 DEF OpenRows
  <2>7. QED BY <2>4, <2>5, <2>6 DEF LedgerInv
<1>4. QED BY <1>2, <1>3

\* A report swaps that row for its closed copy and does nothing else to the ledger.
ClosedRow(w, outcome) ==
  [job |-> holding[w], number |-> turn[w], worker |-> w, status |-> outcome]

LEMMA ReportLedger ==
  ASSUME TypeOK, HoldingOK, LedgerInv, OwnRowInv,
         NEW w \in Worker, NEW s, NEW o, Report(w, s, o)
  PROVE  /\ holding[w] \in Job /\ holding[w] # NoJob
         /\ OwnRow(w) \in ledger
         /\ ledger' = (ledger \ {OwnRow(w)}) \cup {ClosedRow(w, o)}
<1>1. pc[w] = "exec" /\ FinishAttempt(w, holding[w], o)
  BY DEF Report
<1>2. holding[w] \in Job /\ holding[w] # NoJob
  BY <1>1, HoldsAJob
<1>3. LastOpenRow(w, holding[w]) = {OwnRow(w)}
  BY <1>2, LastIsOwn
<1>4. [OwnRow(w) EXCEPT !.status = o] = ClosedRow(w, o)
  BY DEF OwnRow, ClosedRow
<1>5. ledger' = (ledger \ {OwnRow(w)}) \cup {ClosedRow(w, o)}
  BY <1>1, <1>3, <1>4 DEF FinishAttempt
<1>6. QED
  BY <1>2, <1>5 DEF OwnRowInv

\* What the ledger proof needs of the state before and after a step.
Ledger == LedgerInv /\ OwnRowInv

LEMMA LedgerLease ==
  ASSUME TypeOK, Ledger, NEW w \in Worker, NEW j \in Job, Lease(w, j)
  PROVE  Ledger'
<1> DEFINE new == [job |-> j, number |-> attempts[j] + 1, worker |-> w,
                   status |-> "running"]
<1>1. /\ attempts \in [Job -> Nat]
      /\ attempts' = [attempts EXCEPT ![j] = attempts[j] + 1]
      /\ ledger' = ledger \cup {new}
      /\ holding' = [holding EXCEPT ![w] = j]
      /\ turn' = [turn EXCEPT ![w] = attempts[j] + 1]
      /\ holding \in [Worker -> Job \cup {NoJob}] /\ turn \in [Worker -> Nat]
  BY DEF Lease, NextAttempt, TypeOK
<1>2. \A r \in ledger : r.job \in Job /\ r.number \in Nat /\ r.worker \in Worker
  BY DEF TypeOK, Row
<1>3. \A r \in ledger : r.number <= attempts[r.job]
  BY DEF Ledger, LedgerInv
<1>4. \A r \in ledger : r.job = j => r.number < new.number
  BY <1>1, <1>2, <1>3
<1>5. \A r \in ledger' : r.number <= attempts'[r.job]
  BY <1>1, <1>2, <1>3
<1>6. ASSUME NEW k \in Job, NEW n \in 1 .. attempts'[k]
      PROVE  \E r \in ledger' : r.job = k /\ r.number = n
  <2>1. CASE k = j /\ n = attempts[j] + 1
    <3>1. new \in ledger' /\ new.job = j /\ new.number = attempts[j] + 1
      BY <1>1
    <3>2. QED BY <2>1, <3>1
  <2>2. CASE ~(k = j /\ n = attempts[j] + 1)
    <3>1. n \in 1 .. attempts[k]
      BY <1>1, <1>6, <2>2
    <3>2. QED BY <3>1, <1>1 DEF Ledger, LedgerInv
  <2>3. QED BY <2>1, <2>2
<1>7. \A r, q \in ledger' : r.job = q.job /\ r.number = q.number => r = q
  <2> SUFFICES ASSUME NEW r \in ledger', NEW q \in ledger', r.job = q.job,
                      r.number = q.number
               PROVE  r = q
    OBVIOUS
  <2>1. CASE r \in ledger /\ q \in ledger
    BY <2>1 DEF Ledger, LedgerInv
  <2>2. CASE r = new \/ q = new
    BY <2>2, <1>1, <1>2, <1>4
  <2>3. QED BY <1>1, <2>1, <2>2
<1>8. LedgerInv'
  BY <1>5, <1>6, <1>7 DEF LedgerInv
<1>9. ASSUME NEW v \in Worker, holding'[v] # NoJob
      PROVE  /\ OwnRow(v)' \in ledger'
             /\ \A r \in OpenRows(v, holding[v])' : r.number <= turn'[v]
  <2>1. CASE v = w
    <3>1. holding'[v] = j /\ turn'[v] = attempts[j] + 1
      BY <1>1, <2>1
    <3>2. \A r \in OpenRows(v, holding[v])' : r.number <= turn'[v]
      BY <3>1, <1>1, <1>2, <1>4 DEF OpenRows
    <3>3. QED BY <3>1, <3>2, <1>1, <2>1 DEF OwnRow
  <2>2. CASE v # w
    <3>1. holding'[v] = holding[v] /\ turn'[v] = turn[v] /\ OwnRow(v)' = OwnRow(v)
      BY <1>1, <2>2 DEF OwnRow
    <3>2. OpenRows(v, holding[v])' = OpenRows(v, holding[v])
      BY <3>1, <1>1, <2>2 DEF OpenRows
    <3>3. QED BY <3>1, <3>2, <1>1, <1>9 DEF Ledger, OwnRowInv
  <2>3. QED BY <2>1, <2>2
<1>10. QED BY <1>8, <1>9 DEF Ledger, OwnRowInv

LEMMA LedgerReport ==
  ASSUME TypeOK, HoldingOK, Ledger, NEW w \in Worker, NEW s,
         NEW o \in {"completed", "failed"}, Report(w, s, o)
  PROVE  Ledger'
<1>1. /\ holding[w] \in Job /\ holding[w] # NoJob
      /\ OwnRow(w) \in ledger
      /\ ledger' = (ledger \ {OwnRow(w)}) \cup {ClosedRow(w, o)}
  BY ReportLedger DEF Ledger
<1>2. /\ attempts' = attempts
      /\ holding' = [holding EXCEPT ![w] = NoJob] /\ turn' = [turn EXCEPT ![w] = 0]
      /\ holding \in [Worker -> Job \cup {NoJob}] /\ turn \in [Worker -> Nat]
  BY DEF Report, TypeOK
<1>3. ClosedRow(w, o).job = OwnRow(w).job /\ ClosedRow(w, o).number = OwnRow(w).number
  BY DEF ClosedRow, OwnRow
<1>4. \A r \in ledger' : r.number <= attempts'[r.job]
  BY <1>1, <1>2, <1>3 DEF Ledger, LedgerInv
<1>5. ASSUME NEW j \in Job, NEW n \in 1 .. attempts'[j]
      PROVE  \E r \in ledger' : r.job = j /\ r.number = n
  <2>1. PICK r \in ledger : r.job = j /\ r.number = n
    BY <1>2, <1>5 DEF Ledger, LedgerInv
  <2>2. CASE r = OwnRow(w)
    BY <2>1, <2>2, <1>1, <1>3
  <2>3. CASE r # OwnRow(w)
    BY <2>1, <2>3, <1>1
  <2>4. QED BY <2>2, <2>3
<1>6. ASSUME NEW r \in ledger', NEW q \in ledger', r.job = q.job, r.number = q.number
      PROVE  r = q
  <2>1. CASE r \in ledger /\ q \in ledger
    BY <2>1, <1>6 DEF Ledger, LedgerInv
  <2>2. CASE r = ClosedRow(w, o) /\ q # ClosedRow(w, o)
    BY <2>2, <1>1, <1>3, <1>6 DEF Ledger, LedgerInv
  <2>3. CASE q = ClosedRow(w, o) /\ r # ClosedRow(w, o)
    BY <2>3, <1>1, <1>3, <1>6 DEF Ledger, LedgerInv
  <2>4. QED BY <2>1, <2>2, <2>3, <1>1
<1>7. LedgerInv'
  BY <1>4, <1>5, <1>6 DEF LedgerInv
<1>8. ASSUME NEW v \in Worker, holding'[v] # NoJob
      PROVE  /\ OwnRow(v)' \in ledger'
             /\ \A r \in OpenRows(v, holding[v])' : r.number <= turn'[v]
  <2>1. v # w
    BY <1>2, <1>8
  <2>2. holding'[v] = holding[v] /\ turn'[v] = turn[v] /\ OwnRow(v)' = OwnRow(v)
    BY <1>2, <2>1 DEF OwnRow
  <2>3. OwnRow(v).worker = v /\ OwnRow(w).worker = w
    BY DEF OwnRow
  <2>4. OpenRows(v, holding[v])' \subseteq OpenRows(v, holding[v])
    BY <1>1, <2>1, <2>2 DEF OpenRows, ClosedRow
  <2>5. QED BY <1>1, <1>8, <2>1, <2>2, <2>3, <2>4 DEF Ledger, OwnRowInv
<1>9. QED BY <1>7, <1>8 DEF Ledger, OwnRowInv

LEMMA LedgerStep == TypeOK /\ HoldingOK /\ Ledger /\ [Next]_vars => Ledger'
<1> SUFFICES ASSUME TypeOK, HoldingOK, Ledger, [Next]_vars
             PROVE  Ledger'
  OBVIOUS
<1>1. ASSUME UNCHANGED <<attempts, ledger, holding, turn>> PROVE Ledger'
  BY <1>1 DEF Ledger, LedgerInv, OwnRowInv, OwnRow, OpenRows
<1>2. CASE Frame
  BY <1>1, <1>2 DEF Frame
<1>3. ASSUME NEW S \in SUBSET Job, Submit(S) PROVE Ledger'
  BY <1>1, <1>3 DEF Submit, procVars
<1>4. CASE CancelQueued
  BY <1>1, <1>4 DEF CancelQueued, procVars
<1>5. ASSUME NEW w \in Worker, NEW j \in Job, Lease(w, j) PROVE Ledger'
  BY <1>5, LedgerLease
<1>6. ASSUME NEW w \in Worker, Complete(w) PROVE Ledger'
  BY <1>6, LedgerReport DEF Complete
<1>7. ASSUME NEW w \in Worker, Fail(w) PROVE Ledger'
  BY <1>7, LedgerReport DEF Fail
<1>8. ASSUME NEW w \in Worker, Crash(w) PROVE Ledger'
  <2>1. /\ attempts' = attempts /\ ledger' = ledger
        /\ holding' = [holding EXCEPT ![w] = NoJob] /\ turn' = [turn EXCEPT ![w] = 0]
    BY <1>8 DEF Crash, jobVars
  <2>2. \A v \in Worker : holding'[v] # NoJob =>
          holding'[v] = holding[v] /\ turn'[v] = turn[v]
    BY <2>1 DEF TypeOK
  <2>3. QED
    BY <2>1, <2>2 DEF Ledger, LedgerInv, OwnRowInv, OwnRow, OpenRows
<1>9. CASE WriteBack
  BY <1>1, <1>9 DEF WriteBack, procVars
<1>10. QED
  BY <1>2, <1>3, <1>4, <1>5, <1>6, <1>7, <1>8, <1>9, NextCases

\* The ledger of job_attempts is complete and numbered without repetition, and
\* a report closes the row of the attempt it reports on.
THEOREM LedgerCorrect == Spec => [](AttemptLedger /\ ReportClosesOwnAttempt)
<1>1. Init => Ledger
  BY DEF Init, Ledger, LedgerInv, OwnRowInv
<1>2. TypeOK /\ Ledger => AttemptLedger
  <2> SUFFICES ASSUME TypeOK, Ledger, NEW j \in Job
               PROVE  /\ {r.number : r \in {q \in ledger : q.job = j}} = 1 .. attempts[j]
                      /\ \A r, q \in ledger :
                           r.job = j /\ q.job = j /\ r.number = q.number => r = q
    BY DEF AttemptLedger
  <2>1. \A r \in ledger : r.job = j => r.number \in 1 .. attempts[j]
    <3>1. \A r \in ledger : r.number \in Nat \ {0}
      BY DEF TypeOK, Row
    <3>2. \A r \in ledger : r.job = j => r.number <= attempts[j]
      BY DEF Ledger, LedgerInv
    <3>3. attempts[j] \in Nat
      BY DEF TypeOK
    <3>4. QED BY <3>1, <3>2, <3>3
  <2>2. \A n \in 1 .. attempts[j] : \E r \in ledger : r.job = j /\ r.number = n
    BY DEF Ledger, LedgerInv
  <2>3. QED BY <2>1, <2>2 DEF Ledger, LedgerInv
<1>3. TypeOK /\ Ledger => ReportClosesOwnAttempt
  BY LastIsOwn DEF Ledger, ReportClosesOwnAttempt, OwnRow
<1>4. QED
  BY <1>1, <1>2, <1>3, LedgerStep, TypeCorrect, PTL DEF Spec

-----------------------------------------------------------------------------
(* Leases.                                                                  *)

LEMMA LeaseInit == Init => LeaseMatchesStatus
BY DEF Init, LeaseMatchesStatus

\* What the coordinator's transaction does to one job: it goes back to the
\* queue, it is abandoned, or it is left as it was.
GivenBack(j) ==
  /\ j \in giveBack \/ (status[j] = "running" /\ HasBudget(j))
  /\ status'[j] = "queued" /\ leasedBy'[j] = NoWorker /\ lease'[j] = "none"

GivenUp(j) ==
  /\ j \in giveUp \/ (status[j] = "running" /\ ~HasBudget(j))
  /\ status'[j] = "failed" /\ leasedBy'[j] = NoWorker /\ lease'[j] = "none"

LeftAlone(j) ==
  status'[j] = status[j] /\ leasedBy'[j] = leasedBy[j] /\ lease'[j] = lease[j]

LEMMA WriteBackEffect ==
  ASSUME WriteBack, TypeOK, NEW j \in Job
  PROVE  GivenBack(j) \/ GivenUp(j) \/ LeftAlone(j)
<1> DEFINE st1   == TakenBack(status, giveBack, giveUp)
           by1   == Cleared(leasedBy, giveBack \cup giveUp, NoWorker)
           beat1 == [w \in Worker |-> IF w \in holders THEN 0 ELSE beat[w]]
           m     == IF coord = "write expired" THEN StaleIn(st1, by1, beat1) ELSE {}
           R     == {k \in m : HasBudget(k)}
           F     == {k \in m : ~HasBudget(k)}
<1>1. \A k \in m : k \in Job /\ st1[k] = "running"
  BY DEF StaleIn
<1>2. /\ status' = TakenBack(st1, R, F)
      /\ leasedBy' = Cleared(by1, m, NoWorker)
      /\ lease' = Cleared(lease, giveBack \cup giveUp \cup m, "none")
  BY DEF WriteBack
<1> HIDE DEF m
<1>3. CASE j \in m
  <2>1. status[j] = "running" /\ j \notin giveBack /\ j \notin giveUp
    BY <1>1, <1>3 DEF TakenBack
  <2>2. leasedBy'[j] = NoWorker /\ lease'[j] = "none"
    BY <1>2, <1>3 DEF Cleared
  <2>3. CASE HasBudget(j)
    BY <2>1, <2>2, <2>3, <1>2, <1>3 DEF TakenBack, GivenBack
  <2>4. CASE ~HasBudget(j)
    BY <2>1, <2>2, <2>4, <1>2, <1>3 DEF TakenBack, GivenUp
  <2>5. QED BY <2>3, <2>4
<1>4. CASE j \notin m
  <2>1. /\ status'[j] = TakenBack(status, giveBack, giveUp)[j]
        /\ leasedBy'[j] = by1[j]
        /\ lease'[j] = IF j \in giveBack \cup giveUp THEN "none" ELSE lease[j]
    BY <1>2, <1>4 DEF TakenBack, Cleared
  <2>2. CASE j \in giveBack
    BY <2>1, <2>2 DEF TakenBack, Cleared, GivenBack
  <2>3. CASE j \in giveUp /\ j \notin giveBack
    BY <2>1, <2>3 DEF TakenBack, Cleared, GivenUp
  <2>4. CASE j \notin giveBack \cup giveUp
    BY <2>1, <2>4 DEF TakenBack, Cleared, LeftAlone
  <2>5. QED BY <2>2, <2>3, <2>4
<1>5. QED BY <1>3, <1>4

LEMMA LeaseStep ==
  TypeOK /\ HoldingOK /\ LeaseMatchesStatus /\ [Next]_vars => LeaseMatchesStatus'
<1> SUFFICES ASSUME TypeOK, HoldingOK, LeaseMatchesStatus, [Next]_vars
             PROVE  LeaseMatchesStatus'
  OBVIOUS
<1>1. ASSUME NEW S \in SUBSET Job, Submit(S) PROVE LeaseMatchesStatus'
  BY <1>1 DEF Submit, LeaseMatchesStatus
<1>2. CASE CancelQueued
  BY <1>2 DEF CancelQueued, LeaseMatchesStatus
<1>3. ASSUME NEW w \in Worker, NEW j \in Job, Lease(w, j) PROVE LeaseMatchesStatus'
  BY <1>3, QueueAssumption DEF Lease, NextAttempt, LeaseMatchesStatus, TypeOK
<1>4. ASSUME NEW w \in Worker, NEW s \in Statuses \ {"running"}, NEW o, Report(w, s, o)
      PROVE  LeaseMatchesStatus'
  BY <1>4 DEF Report, LeaseMatchesStatus, TypeOK
<1>5. ASSUME NEW w \in Worker, Complete(w) \/ Fail(w) PROVE LeaseMatchesStatus'
  BY <1>4, <1>5 DEF Complete, Fail, AfterFailure, Statuses
<1>6. ASSUME NEW w \in Worker, Crash(w) PROVE LeaseMatchesStatus'
  BY <1>6 DEF Crash, jobVars, LeaseMatchesStatus
<1>7. CASE WriteBack
  BY <1>7, WriteBackEffect DEF GivenBack, GivenUp, LeftAlone, LeaseMatchesStatus
<1>8. ASSUME NEW w \in Worker, Renew(w) PROVE LeaseMatchesStatus'
  BY <1>8 DEF Renew, Renewable, LeaseMatchesStatus, TypeOK
<1>9. ASSUME NEW j \in Job, ExpireLease(j) PROVE LeaseMatchesStatus'
  BY <1>9 DEF ExpireLease, LeaseMatchesStatus, TypeOK
<1>10. ASSUME UNCHANGED <<status, leasedBy, lease>> PROVE LeaseMatchesStatus'
  BY <1>10 DEF LeaseMatchesStatus
<1>11. ASSUME NEW w \in Worker,
              Start(w) \/ IdleBeat(w) \/ BeatRunning(w) \/ ExecBeat(w) \/ DoneBeat(w) \/ AgeBeat(w)
       PROVE  LeaseMatchesStatus'
  BY <1>10, <1>11 DEF Start, IdleBeat, BeatRunning, ExecBeat, DoneBeat, AgeBeat, jobVars
<1>12. CASE ScanExpired \/ ScanStale \/ ScanPrune \/ Prune \/ CrashCoordinator
  BY <1>10, <1>12 DEF ScanExpired, ScanStale, ScanPrune, Prune, CrashCoordinator, jobVars
<1>13. CASE UNCHANGED vars
  BY <1>10, <1>13 DEF vars, jobVars
<1>14. QED
  BY <1>1, <1>2, <1>3, <1>5, <1>6, <1>7, <1>8, <1>9, <1>11, <1>12, <1>13
  DEF Next, WorkerStep, Coordinator

\* running, leased_by and lease_expires_at always agree.
THEOREM LeaseCorrect == Spec => []LeaseMatchesStatus
<1>1. QED BY LeaseInit, LeaseStep, TypeCorrect, PTL DEF Spec

-----------------------------------------------------------------------------
(* The lease holder and the newest attempt.                                 *)

HolderRow(j) ==
  [job |-> j, number |-> attempts[j], worker |-> leasedBy[j], status |-> "running"]

LEMMA HolderStep ==
  /\ TypeOK /\ HoldingOK /\ Ledger /\ HolderHasNewestAttempt
  /\ [Next]_vars
  => HolderHasNewestAttempt'
<1> SUFFICES ASSUME TypeOK, HoldingOK, Ledger, HolderHasNewestAttempt, [Next]_vars
             PROVE  HolderHasNewestAttempt'
  OBVIOUS
<1> USE DEF HolderHasNewestAttempt
<1>1. CASE Frame
  BY <1>1 DEF Frame
<1>2. ASSUME NEW S \in SUBSET Job, Submit(S) PROVE HolderHasNewestAttempt'
  BY <1>2 DEF Submit
<1>3. CASE CancelQueued
  BY <1>3 DEF CancelQueued
<1>4. ASSUME NEW w \in Worker, NEW j \in Job, Lease(w, j)
      PROVE  HolderHasNewestAttempt'
  BY <1>4 DEF Lease, NextAttempt, TypeOK
<1>5. ASSUME NEW w \in Worker, NEW s \in Statuses \ {"running"},
             NEW o \in {"completed", "failed"}, Report(w, s, o)
      PROVE  HolderHasNewestAttempt'
  <2>1. /\ holding[w] \in Job
        /\ ledger' = (ledger \ {OwnRow(w)}) \cup {ClosedRow(w, o)}
    BY <1>5, ReportLedger DEF Ledger
  <2>2. /\ status' = [status EXCEPT ![holding[w]] = s]
        /\ leasedBy' = [leasedBy EXCEPT ![holding[w]] = NoWorker]
        /\ attempts' = attempts
    BY <1>5 DEF Report
  <2>3. ASSUME NEW k \in Job, status'[k] = "running" PROVE HolderRow(k)' \in ledger'
    <3>1. k # holding[w] /\ status[k] = "running" /\ leasedBy'[k] = leasedBy[k]
      BY <2>1, <2>2, <2>3 DEF TypeOK
    <3>2. HolderRow(k) \in ledger /\ HolderRow(k)' = HolderRow(k)
      BY <2>2, <3>1 DEF HolderRow
    <3>3. HolderRow(k).job # OwnRow(w).job
      BY <3>1 DEF HolderRow, OwnRow
    <3>4. QED BY <2>1, <3>2, <3>3
  <2>4. QED BY <2>3 DEF HolderRow
<1>6. ASSUME NEW w \in Worker, Complete(w) \/ Fail(w) PROVE HolderHasNewestAttempt'
  BY <1>5, <1>6 DEF Complete, Fail, AfterFailure, Statuses
<1>7. ASSUME NEW w \in Worker, Crash(w) PROVE HolderHasNewestAttempt'
  BY <1>7 DEF Crash, jobVars
<1>8. CASE WriteBack
  <2>1. attempts' = attempts /\ ledger' = ledger
    BY <1>8 DEF WriteBack
  <2>2. QED
    BY <1>8, <2>1, WriteBackEffect DEF GivenBack, GivenUp, LeftAlone
<1>9. QED
  BY <1>1, <1>2, <1>3, <1>4, <1>6, <1>7, <1>8, NextCases

\* A running job's newest attempt is open and belongs to its lease holder.
THEOREM HolderCorrect == Spec => []HolderHasNewestAttempt
<1>1. Init => HolderHasNewestAttempt
  BY DEF Init, HolderHasNewestAttempt
<1>2. Init => Ledger
  BY DEF Init, Ledger, LedgerInv, OwnRowInv
<1>3. QED
  BY <1>1, <1>2, HolderStep, LedgerStep, TypeCorrect, PTL DEF Spec

-----------------------------------------------------------------------------
(* The retry budget.                                                        *)

\* RetryBudget strengthened with what the coordinator still carries from its
\* scan: a job it will give back had budget then, and has not started an
\* attempt above max_attempts since; one it will give up has none.
BudgetInv ==
  /\ RetryBudget
  /\ \A j \in Job : status[j] = "absent" => attempts[j] = 0
  /\ \A j \in giveBack : /\ attempts[j] <= MaxAttempts
                         /\ status[j] = "queued" => attempts[j] < MaxAttempts
  /\ \A j \in giveUp : attempts[j] >= MaxAttempts

\* The part of a step that BudgetInv does not see.
BudgetFrame ==
  /\ UNCHANGED <<status, attempts>>
  /\ giveBack' \subseteq {j \in Job : j \in giveBack \/ (status[j] = "running" /\ HasBudget(j))}
  /\ giveUp' \subseteq {j \in Job : j \in giveUp \/ ~HasBudget(j)}

LEMMA BudgetFrameStep ==
  ASSUME TypeOK, BudgetInv, BudgetFrame
  PROVE  BudgetInv'
<1>1. status' = status /\ attempts' = attempts
  BY DEF BudgetFrame
<1>2. RetryBudget' /\ \A j \in Job : status'[j] = "absent" => attempts'[j] = 0
  BY <1>1 DEF BudgetInv, RetryBudget
<1>3. ASSUME NEW j \in giveBack'
      PROVE  /\ attempts'[j] <= MaxAttempts
             /\ status'[j] = "queued" => attempts'[j] < MaxAttempts
  <2>1. CASE j \in giveBack
    BY <1>1, <2>1 DEF BudgetInv
  <2>2. CASE status[j] = "running" /\ HasBudget(j)
    <3>1. j \in Job /\ attempts[j] \in Nat
      BY <1>3 DEF BudgetFrame, TypeOK
    <3>2. QED
      BY <1>1, <2>2, <3>1, QueueAssumption DEF HasBudget
  <2>3. QED BY <1>3, <2>1, <2>2 DEF BudgetFrame
<1>4. ASSUME NEW j \in giveUp' PROVE attempts'[j] >= MaxAttempts
  <2>1. CASE j \in giveUp
    BY <1>1, <2>1 DEF BudgetInv
  <2>2. CASE ~HasBudget(j)
    <3>1. j \in Job /\ attempts[j] \in Nat
      BY <1>4 DEF BudgetFrame, TypeOK
    <3>2. QED
      BY <1>1, <2>2, <3>1, QueueAssumption DEF HasBudget
  <2>3. QED BY <1>4, <2>1, <2>2 DEF BudgetFrame
<1>5. QED BY <1>2, <1>3, <1>4 DEF BudgetInv

LEMMA BudgetLease ==
  ASSUME TypeOK, BudgetInv, NEW w \in Worker, NEW j \in Job, Lease(w, j)
  PROVE  BudgetInv'
<1>1. /\ status[j] = "queued"
      /\ status' = [status EXCEPT ![j] = "running"]
      /\ attempts' = [attempts EXCEPT ![j] = attempts[j] + 1]
      /\ giveBack' = giveBack /\ giveUp' = giveUp
  BY DEF Lease, NextAttempt, NextQueued, coordVars
<1>2. /\ status \in [Job -> Statuses] /\ attempts \in [Job -> Nat]
      /\ giveBack \subseteq Job /\ giveUp \subseteq Job
      /\ MaxAttempts \in Nat
  BY QueueAssumption DEF TypeOK
<1>3. attempts[j] <= MaxAttempts /\ (j \in giveBack => attempts[j] < MaxAttempts)
  BY <1>1 DEF BudgetInv, RetryBudget
<1>4. \A k \in Job \ {j} : status'[k] = status[k] /\ attempts'[k] = attempts[k]
  BY <1>1, <1>2
<1>5. status'[j] = "running" /\ attempts'[j] = attempts[j] + 1
  BY <1>1, <1>2
<1>6. RetryBudget'
  BY <1>2, <1>3, <1>4, <1>5 DEF BudgetInv, RetryBudget
<1>7. \A k \in Job : status'[k] = "absent" => attempts'[k] = 0
  BY <1>4, <1>5 DEF BudgetInv
<1>8. \A k \in giveBack' : /\ attempts'[k] <= MaxAttempts
                           /\ status'[k] = "queued" => attempts'[k] < MaxAttempts
  BY <1>1, <1>2, <1>3, <1>4, <1>5 DEF BudgetInv
<1>9. \A k \in giveUp' : attempts'[k] >= MaxAttempts
  BY <1>1, <1>2, <1>4, <1>5 DEF BudgetInv
<1>10. QED BY <1>6, <1>7, <1>8, <1>9 DEF BudgetInv

LEMMA BudgetReport ==
  ASSUME TypeOK, HoldingOK, BudgetInv, NEW w \in Worker, NEW s, NEW o, Report(w, s, o),
         s \in {"completed", AfterFailure(holding[w])}
  PROVE  BudgetInv'
<1> DEFINE j == holding[w]
<1>1. /\ j \in Job
      /\ status' = [status EXCEPT ![j] = s]
      /\ attempts' = attempts /\ giveBack' = giveBack /\ giveUp' = giveUp
  BY HoldsAJob DEF Report, coordVars
<1>2. /\ status \in [Job -> Statuses] /\ attempts \in [Job -> Nat]
      /\ giveBack \subseteq Job /\ giveUp \subseteq Job
      /\ MaxAttempts \in Nat
  BY QueueAssumption DEF TypeOK
<1>3. /\ s \in {"completed", "queued", "failed"}
      /\ s = "queued" => attempts[j] < MaxAttempts
      /\ s = "failed" => attempts[j] >= MaxAttempts
  <2>1. attempts[j] \in Nat
    BY <1>1, <1>2
  <2>2. QED BY <2>1, <1>2 DEF AfterFailure
<1>4. status'[j] = s /\ \A k \in Job \ {j} : status'[k] = status[k]
  BY <1>1, <1>2
<1> HIDE DEF j
<1>5. RetryBudget'
  BY <1>1, <1>2, <1>3, <1>4 DEF BudgetInv, RetryBudget
<1>6. \A k \in Job : status'[k] = "absent" => attempts'[k] = 0
  BY <1>1, <1>3, <1>4 DEF BudgetInv
<1>7. \A k \in giveBack' : /\ attempts'[k] <= MaxAttempts
                           /\ status'[k] = "queued" => attempts'[k] < MaxAttempts
  BY <1>1, <1>2, <1>3, <1>4 DEF BudgetInv
<1>8. QED BY <1>1, <1>5, <1>6, <1>7 DEF BudgetInv

LEMMA BudgetWriteBack ==
  ASSUME TypeOK, BudgetInv, WriteBack
  PROVE  BudgetInv'
<1>1. attempts' = attempts /\ giveBack' = {} /\ giveUp' = {}
  BY DEF WriteBack
<1>2. ASSUME NEW j \in Job
      PROVE  /\ attempts'[j] <= MaxAttempts + 1
             /\ status'[j] = "failed" => attempts'[j] >= MaxAttempts
             /\ status'[j] = "queued" => attempts'[j] <= MaxAttempts
             /\ status'[j] = "absent" => attempts'[j] = 0
  <2>1. attempts[j] \in Nat /\ MaxAttempts \in Nat
    BY QueueAssumption DEF TypeOK
  <2>2. attempts[j] <= MaxAttempts + 1
    BY DEF BudgetInv, RetryBudget
  <2>3. CASE GivenBack(j)
    <3>1. attempts[j] <= MaxAttempts
      BY <2>1, <2>3 DEF GivenBack, HasBudget, BudgetInv
    <3>2. QED BY <1>1, <2>2, <2>3, <3>1 DEF GivenBack
  <2>4. CASE GivenUp(j)
    <3>1. attempts[j] >= MaxAttempts
      BY <2>1, <2>4 DEF GivenUp, HasBudget, BudgetInv
    <3>2. QED BY <1>1, <2>2, <2>4, <3>1 DEF GivenUp
  <2>5. CASE LeftAlone(j)
    BY <1>1, <2>5 DEF LeftAlone, BudgetInv, RetryBudget
  <2>6. QED BY <2>3, <2>4, <2>5, WriteBackEffect
<1>3. QED BY <1>1, <1>2 DEF BudgetInv, RetryBudget

LEMMA BudgetStep == TypeOK /\ HoldingOK /\ BudgetInv /\ [Next]_vars => BudgetInv'
<1> SUFFICES ASSUME TypeOK, HoldingOK, BudgetInv, [Next]_vars
             PROVE  BudgetInv'
  OBVIOUS
<1> USE DEF jobVars, coordVars, BudgetFrame
<1>1. ASSUME NEW S \in SUBSET Job, Submit(S) PROVE BudgetInv'
  <2>1. /\ attempts' = attempts /\ giveBack' = giveBack /\ giveUp' = giveUp
        /\ \A j \in Job : status'[j] = IF j \in S THEN "queued" ELSE status[j]
        /\ \A j \in S : status[j] = "absent"
        /\ giveBack \subseteq Job
    BY <1>1 DEF Submit, TypeOK
  <2> MaxAttempts \in Nat /\ 0 < MaxAttempts
    BY QueueAssumption
  <2>2. \A j \in S : attempts'[j] = 0 /\ status'[j] = "queued"
    BY <2>1 DEF BudgetInv
  <2>3. \A j \in Job \ S : status'[j] = status[j]
    BY <2>1
  <2>4. RetryBudget' /\ \A j \in Job : status'[j] = "absent" => attempts'[j] = 0
    BY <2>1, <2>2, <2>3 DEF BudgetInv, RetryBudget
  <2>5. QED BY <2>1, <2>2, <2>3, <2>4 DEF BudgetInv
<1>2. CASE CancelQueued
  <2>1. /\ attempts' = attempts /\ giveBack' = giveBack /\ giveUp' = giveUp
        /\ giveBack \subseteq Job
        /\ \A j \in Job : status'[j] \in {status[j], "cancelled"}
    BY <1>2 DEF CancelQueued, TypeOK
  <2>2. QED BY <2>1 DEF BudgetInv, RetryBudget
<1>3. ASSUME NEW w \in Worker, NEW j \in Job, Lease(w, j) PROVE BudgetInv'
  BY <1>3, BudgetLease
<1>4. ASSUME NEW w \in Worker, Complete(w) \/ Fail(w) PROVE BudgetInv'
  BY <1>4, BudgetReport DEF Complete, Fail
<1>5. CASE WriteBack
  BY <1>5, BudgetWriteBack
<1>6. ASSUME NEW w \in Worker,
             \/ Start(w) \/ IdleBeat(w) \/ BeatRunning(w) \/ ExecBeat(w)
             \/ Renew(w) \/ DoneBeat(w) \/ AgeBeat(w) \/ Crash(w)
      PROVE  BudgetFrame
  BY <1>6 DEF Start, IdleBeat, BeatRunning, ExecBeat, Renew, DoneBeat, AgeBeat, Crash, TypeOK
<1>7. ASSUME NEW j \in Job, ExpireLease(j) PROVE BudgetFrame
  BY <1>7 DEF ExpireLease, TypeOK
<1>8. ASSUME ScanExpired \/ ScanStale \/ ScanPrune \/ Prune \/ CrashCoordinator
      PROVE  BudgetFrame
  BY <1>8 DEF ScanExpired, ScanStale, ScanPrune, Prune, CrashCoordinator, Expired, StaleIn, TypeOK
<1>9. CASE UNCHANGED vars
  BY <1>9, BudgetFrameStep DEF vars, TypeOK
<1>10. QED
  BY <1>1, <1>2, <1>3, <1>4, <1>5, <1>6, <1>7, <1>8, <1>9, BudgetFrameStep
  DEF Next, WorkerStep, Coordinator

\* A job is abandoned only when its attempts are spent, and never makes more
\* than one attempt above max_attempts, whatever the coordinator's delay
\* between reading attempt_count and writing the status.
THEOREM BudgetCorrect == Spec => []RetryBudget
<1>1. Init => BudgetInv
  BY QueueAssumption DEF Init, BudgetInv, RetryBudget
<1>2. BudgetInv => RetryBudget
  BY DEF BudgetInv
<1>3. QED
  BY <1>1, <1>2, BudgetStep, TypeCorrect, PTL DEF Spec

-----------------------------------------------------------------------------
(* Results.                                                                 *)

\* A completed row stays in the ledger: a report only closes open rows.
LEMMA ArtifactsReport ==
  ASSUME TypeOK, HoldingOK, Ledger, ArtifactsOfOneCompletedAttempt,
         NEW w \in Worker, Complete(w) \/ Fail(w)
  PROVE  ArtifactsOfOneCompletedAttempt'
<1> DEFINE j == holding[w]
<1>1. CASE Complete(w)
  <2>1. /\ j \in Job
        /\ ledger' = (ledger \ {OwnRow(w)}) \cup {ClosedRow(w, "completed")}
    BY <1>1, ReportLedger DEF Complete, Ledger
  <2>2. /\ status' = [status EXCEPT ![j] = "completed"]
        /\ artifacts' = [artifacts EXCEPT ![j] = {turn[w]}]
        /\ status \in [Job -> Statuses] /\ artifacts \in [Job -> SUBSET Nat]
    BY <1>1 DEF Complete, Report, ReplaceArtifacts, TypeOK
  <2>3. OwnRow(w).status = "running"
    BY DEF OwnRow
  <2>4. ClosedRow(w, "completed") \in ledger'
        /\ ClosedRow(w, "completed").job = j
        /\ ClosedRow(w, "completed").number = turn[w]
        /\ ClosedRow(w, "completed").status = "completed"
    BY <2>1 DEF ClosedRow
  <2> HIDE DEF j
  <2>5. \A r \in ledger : r.status = "completed" => r \in ledger'
    BY <2>1, <2>3
  <2>6. artifacts'[j] = {turn[w]} /\ status'[j] = "completed"
    BY <2>1, <2>2
  <2>7. \A k \in Job \ {j} : artifacts'[k] = artifacts[k] /\ status'[k] = status[k]
    BY <2>2
  <2>8. QED
    BY <2>1, <2>4, <2>5, <2>6, <2>7 DEF ArtifactsOfOneCompletedAttempt
<1>2. CASE Fail(w)
  <2>1. /\ j \in Job
        /\ ledger' = (ledger \ {OwnRow(w)}) \cup {ClosedRow(w, "failed")}
    BY <1>2, ReportLedger DEF Fail, Ledger
  <2>2. /\ status' = [status EXCEPT ![j] = AfterFailure(j)]
        /\ artifacts' = artifacts
        /\ status \in [Job -> Statuses]
    BY <1>2 DEF Fail, Report, TypeOK
  <2>3. OwnRow(w).status = "running" /\ AfterFailure(j) # "completed"
    BY DEF OwnRow, AfterFailure
  <2> HIDE DEF j
  <2>4. \A r \in ledger : r.status = "completed" => r \in ledger'
    BY <2>1, <2>3
  <2>5. \A k \in Job : status'[k] = "completed" => status[k] = "completed"
    BY <2>1, <2>2, <2>3
  <2>6. QED
    BY <2>2, <2>4, <2>5 DEF ArtifactsOfOneCompletedAttempt
<1>3. QED BY <1>1, <1>2

LEMMA ArtifactsStep ==
  TypeOK /\ HoldingOK /\ Ledger /\ ArtifactsOfOneCompletedAttempt /\ [Next]_vars
  => ArtifactsOfOneCompletedAttempt'
<1> SUFFICES ASSUME TypeOK, HoldingOK, Ledger, ArtifactsOfOneCompletedAttempt, [Next]_vars
             PROVE  ArtifactsOfOneCompletedAttempt'
  OBVIOUS
<1>1. ASSUME artifacts' = artifacts, ledger \subseteq ledger',
             \A j \in Job : status'[j] = "completed" => status[j] = "completed"
      PROVE  ArtifactsOfOneCompletedAttempt'
  BY <1>1 DEF ArtifactsOfOneCompletedAttempt
<1>2. CASE Frame
  BY <1>1, <1>2 DEF Frame
<1>3. ASSUME NEW S \in SUBSET Job, Submit(S) PROVE ArtifactsOfOneCompletedAttempt'
  BY <1>1, <1>3 DEF Submit
<1>4. CASE CancelQueued
  BY <1>1, <1>4 DEF CancelQueued
<1>5. ASSUME NEW w \in Worker, NEW j \in Job, Lease(w, j)
      PROVE  ArtifactsOfOneCompletedAttempt'
  BY <1>1, <1>5 DEF Lease, NextAttempt, TypeOK
<1>6. ASSUME NEW w \in Worker, Crash(w) PROVE ArtifactsOfOneCompletedAttempt'
  BY <1>1, <1>6 DEF Crash, jobVars
<1>7. CASE WriteBack
  <2>1. artifacts' = artifacts /\ ledger' = ledger
    BY <1>7 DEF WriteBack
  <2>2. \A j \in Job : status'[j] = "completed" => status[j] = "completed"
    BY <1>7, WriteBackEffect DEF GivenBack, GivenUp, LeftAlone
  <2>3. QED BY <1>1, <2>1, <2>2
<1>8. QED
  BY <1>2, <1>3, <1>4, <1>5, <1>6, <1>7, ArtifactsReport, NextCases

\* The artifacts of a job come from one completed attempt, however many
\* workers report on it; a completed job has them.
THEOREM ArtifactsCorrect == Spec => []ArtifactsOfOneCompletedAttempt
<1>1. Init => Ledger /\ ArtifactsOfOneCompletedAttempt
  BY DEF Init, Ledger, LedgerInv, OwnRowInv, ArtifactsOfOneCompletedAttempt
<1>2. QED
  BY <1>1, ArtifactsStep, LedgerStep, TypeCorrect, PTL DEF Spec

\* A final status changes only by the report of a process that still executes
\* the job, or by a coordinator that read the job before its transaction.
THEOREM FinalCorrect == Spec => FinalUnlessLate
<1>1. ASSUME TypeOK, HoldingOK, [Next]_vars, NEW j \in Job,
             status[j] \in Terminal, status'[j] # status[j]
      PROVE  (\E w \in Worker : holding[w] = j) \/ j \in giveBack \cup giveUp
  <2> USE DEF Terminal
  <2>1. CASE Frame
    BY <1>1, <2>1 DEF Frame
  <2>2. ASSUME NEW S \in SUBSET Job, Submit(S) PROVE FALSE
    BY <1>1, <2>2 DEF Submit
  <2>3. CASE CancelQueued
    BY <1>1, <2>3 DEF CancelQueued
  <2>4. ASSUME NEW w \in Worker, NEW k \in Job, Lease(w, k) PROVE FALSE
    BY <1>1, <2>4 DEF Lease, NextAttempt, NextQueued, TypeOK
  <2>5. ASSUME NEW w \in Worker, Complete(w) \/ Fail(w) PROVE holding[w] = j
    BY <1>1, <2>5 DEF Complete, Fail, Report, TypeOK
  <2>6. ASSUME NEW w \in Worker, Crash(w) PROVE FALSE
    BY <1>1, <2>6 DEF Crash, jobVars
  <2>7. CASE WriteBack
    BY <1>1, <2>7, WriteBackEffect DEF GivenBack, GivenUp, LeftAlone
  <2>8. QED
    BY <1>1, <2>1, <2>2, <2>3, <2>4, <2>5, <2>6, <2>7, NextCases
<1>2. TypeOK /\ HoldingOK /\ [Next]_vars =>
        [\A j \in Job : status[j] \in Terminal /\ status'[j] # status[j] =>
           \/ \E w \in Worker : holding[w] = j
           \/ j \in giveBack \cup giveUp]_vars
  BY <1>1
<1>3. QED
  BY <1>2, TypeCorrect, PTL DEF Spec, FinalUnlessLate

-----------------------------------------------------------------------------
(* The queue implements its contract.                                       *)

\* Only a job that was started is in the coordinator's hands.
GiveBackStarted == \A j \in giveBack : attempts[j] >= 1

Inv ==
  TypeOK /\ HoldingOK /\ Ledger /\ HolderHasNewestAttempt /\ BudgetInv /\ GiveBackStarted

\* A running job, and a job some process executes, was started.
LEMMA Started ==
  ASSUME Inv, NEW j \in Job,
         status[j] = "running" \/ \E w \in Worker : holding[w] = j
  PROVE  attempts[j] >= 1
<1>1. attempts[j] \in Nat /\ ledger \subseteq Row
  BY DEF Inv, TypeOK
<1>2. CASE status[j] = "running"
  <2>1. HolderRow(j) \in ledger
    BY <1>2 DEF Inv, HolderHasNewestAttempt, HolderRow
  <2>2. HolderRow(j).number \in Nat \ {0}
    BY <1>1, <2>1 DEF Row
  <2>3. QED BY <1>1, <2>2 DEF HolderRow
<1>3. ASSUME NEW w \in Worker, holding[w] = j PROVE attempts[j] >= 1
  <2>1. OwnRow(w) \in ledger
    BY <1>3, QueueAssumption DEF Inv, Ledger, OwnRowInv
  <2>2. OwnRow(w).number \in Nat \ {0} /\ OwnRow(w).job = j
    BY <1>1, <1>3, <2>1 DEF Row, OwnRow
  <2>3. OwnRow(w).number <= attempts[j]
    BY <2>1, <2>2 DEF Inv, Ledger, LedgerInv
  <2>4. QED BY <1>1, <2>2, <2>3
<1>4. QED BY <1>2, <1>3

LEMMA GiveBackStep == Inv /\ [Next]_vars => GiveBackStarted'
<1> SUFFICES ASSUME Inv, [Next]_vars, NEW j \in giveBack' PROVE attempts'[j] >= 1
  BY DEF GiveBackStarted
<1>1. giveBack \subseteq Job /\ attempts \in [Job -> Nat]
  BY DEF Inv, TypeOK
<1> USE DEF jobVars, coordVars
<1>2. \/ giveBack' = giveBack
      \/ giveBack' = {}
      \/ /\ \A k \in giveBack' : k \in Job /\ status[k] = "running"
         /\ attempts' = attempts
  <2>1. ASSUME NEW w \in Worker, WorkerStep(w) \/ AgeBeat(w) PROVE giveBack' = giveBack
    BY <2>1 DEF WorkerStep, Start, IdleBeat, BeatRunning, ExecBeat, Renew, Complete, Fail,
                Report, DoneBeat, AgeBeat, Crash, Lease
  <2>2. QED
    BY <2>1 DEF Next, Submit, CancelQueued, ExpireLease, Coordinator, ScanExpired, Expired,
                ScanStale, StaleIn, ScanPrune, WriteBack, Prune, CrashCoordinator, vars
<1>3. \A k \in Job : attempts'[k] = attempts[k] \/ attempts'[k] = attempts[k] + 1
  BY <1>1, NextCases, ZenonT(60)
     DEF Frame, Submit, CancelQueued, Lease, NextAttempt, Complete, Fail, Report, Crash,
                         WriteBack
<1>4. CASE giveBack' = giveBack
  <2>1. j \in Job /\ attempts[j] >= 1
    BY <1>1, <1>4 DEF Inv, GiveBackStarted
  <2>2. QED BY <1>1, <1>3, <2>1
<1>5. CASE giveBack' # giveBack
  <2>1. j \in Job /\ status[j] = "running" /\ attempts' = attempts
    BY <1>2, <1>5
  <2>2. QED BY <2>1, Started
<1>6. QED BY <1>4, <1>5

LEMMA InvStep == Inv /\ [Next]_vars => Inv'
BY TypeStep, LedgerStep, HolderStep, BudgetStep, GiveBackStep DEF Inv

\* The coordinator's transaction gives jobs back in the sense of the contract.
LEMMA WriteBackIsGiveBack ==
  ASSUME Inv, Inv', WriteBack
  PROVE  \E R, F \in SUBSET Job : Contract!GiveBack(R, F)
<1> DEFINE R == {j \in Job : GivenBack(j)}
           F == {j \in Job : GivenUp(j)}
<1>1. ASSUME NEW j \in R PROVE attempts[j] \in 1 .. MaxAttempts
  <2>1. attempts[j] \in Nat /\ MaxAttempts \in Nat
    BY QueueAssumption DEF Inv, TypeOK
  <2>2. attempts[j] >= 1
    BY Started DEF GivenBack, Inv, GiveBackStarted
  <2>3. attempts[j] <= MaxAttempts
    BY <2>1 DEF GivenBack, HasBudget, Inv, BudgetInv
  <2>4. QED BY <2>1, <2>2, <2>3
<1>2. ASSUME NEW j \in F PROVE attempts[j] > 0 /\ attempts[j] >= MaxAttempts
  <2>1. attempts[j] \in Nat /\ MaxAttempts \in Nat \ {0}
    BY QueueAssumption DEF Inv, TypeOK
  <2>2. attempts[j] >= MaxAttempts
    BY <2>1 DEF GivenUp, HasBudget, Inv, BudgetInv
  <2>3. QED BY <2>1, <2>2
<1>3. status' = [j \in Job |-> IF j \in R THEN "queued"
                               ELSE IF j \in F THEN "failed" ELSE status[j]]
  <2>1. status' \in [Job -> Statuses]
    BY DEF Inv, TypeOK
  <2>2. \A j \in Job : status'[j] = IF j \in R THEN "queued"
                                    ELSE IF j \in F THEN "failed" ELSE status[j]
    BY WriteBackEffect DEF GivenBack, GivenUp, LeftAlone, Inv
  <2>3. QED BY <2>1, <2>2
<1>4. attempts' = attempts
  BY DEF WriteBack
<1> HIDE DEF R, F
<1>5. Contract!GiveBack(R, F)
  BY <1>1, <1>2, <1>3, <1>4 DEF Contract!GiveBack
<1>6. R \in SUBSET Job /\ F \in SUBSET Job
  BY DEF R, F
<1>7. QED BY <1>5, <1>6

LEMMA ContractStep == Inv /\ Inv' /\ [Next]_vars => [Contract!Next]_(Contract!vars)
<1> SUFFICES ASSUME Inv, Inv', [Next]_vars
             PROVE  Contract!Next \/ UNCHANGED <<status, attempts>>
  BY DEF Contract!vars
<1>1. ASSUME NEW S \in SUBSET Job, Submit(S) PROVE Contract!Next
  BY <1>1 DEF Submit, Contract!Submit, Contract!Next
<1>2. CASE CancelQueued
  <2> DEFINE S == {j \in CampaignJob : status[j] = "queued"}
  <2>1. S \in SUBSET Job
    BY QueueAssumption
  <2>2. Contract!Cancel(S)
    BY <1>2 DEF CancelQueued, Contract!Cancel
  <2>3. QED BY <2>1, <2>2 DEF Contract!Next
<1>3. ASSUME NEW w \in Worker, NEW j \in Job, Lease(w, j) PROVE Contract!Next
  <2>1. attempts[j] <= MaxAttempts
    BY <1>3 DEF Lease, NextAttempt, NextQueued, Inv, BudgetInv, RetryBudget
  <2>2. Contract!Start(j)
    BY <1>3, <2>1 DEF Lease, NextAttempt, NextQueued, Contract!Start
  <2>3. QED BY <2>2 DEF Contract!Next
<1>4. ASSUME NEW w \in Worker, Complete(w) PROVE Contract!Next
  <2>1. holding[w] \in Job
    BY <1>4, HoldsAJob DEF Complete, Report, Inv
  <2>2. attempts[holding[w]] \in Nat /\ attempts[holding[w]] >= 1
    BY <2>1, Started DEF Inv, TypeOK
  <2>3. Contract!Complete(holding[w])
    BY <1>4, <2>2 DEF Complete, Report, Contract!Complete
  <2>4. QED BY <2>1, <2>3 DEF Contract!Next
<1>5. ASSUME NEW w \in Worker, Fail(w) PROVE Contract!Next
  <2> DEFINE j == holding[w]
             R == IF attempts[j] < MaxAttempts THEN {j} ELSE {}
             F == IF attempts[j] < MaxAttempts THEN {} ELSE {j}
  <2>1. j \in Job /\ status' = [status EXCEPT ![j] = AfterFailure(j)] /\ attempts' = attempts
    BY <1>5, HoldsAJob DEF Fail, Report, Inv
  <2>2. attempts[j] \in Nat /\ attempts[j] >= 1 /\ MaxAttempts \in Nat \ {0}
        /\ status \in [Job -> Statuses]
    BY <2>1, Started, QueueAssumption DEF Inv, TypeOK
  <2> HIDE DEF j
  <2>3. \A k \in R : attempts[k] \in 1 .. MaxAttempts
    BY <2>2
  <2>4. \A k \in F : attempts[k] > 0 /\ attempts[k] >= MaxAttempts
    BY <2>2
  <2>5. status' = [k \in Job |-> IF k \in R THEN "queued"
                                 ELSE IF k \in F THEN "failed" ELSE status[k]]
    BY <2>1, <2>2 DEF AfterFailure
  <2>6. R \in SUBSET Job /\ F \in SUBSET Job
    BY <2>1
  <2> HIDE DEF R, F
  <2>7. Contract!GiveBack(R, F)
    BY <2>1, <2>3, <2>4, <2>5 DEF Contract!GiveBack
  <2>8. QED BY <2>6, <2>7 DEF Contract!Next
<1>6. CASE WriteBack
  BY <1>6, WriteBackIsGiveBack DEF Contract!Next
<1>7. CASE Frame
  BY <1>7 DEF Frame
<1>8. ASSUME NEW w \in Worker, Crash(w) PROVE UNCHANGED <<status, attempts>>
  BY <1>8 DEF Crash, jobVars
<1>9. QED
  BY <1>1, <1>2, <1>3, <1>4, <1>5, <1>6, <1>7, <1>8, NextCases

\* Workers, leases, crashes and the coordinator together keep the contract of
\* the queue with the code that submits jobs to it.
THEOREM QueueImplementsContract == Spec => ImplementsContract
<1>1. Init => Contract!Init
  BY DEF Init, Contract!Init
<1>2. Init => Inv
  BY TypeInit, QueueAssumption
  DEF Init, Inv, Ledger, LedgerInv, OwnRowInv, HolderHasNewestAttempt, BudgetInv,
      RetryBudget, GiveBackStarted
<1>3. QED
  BY <1>1, <1>2, InvStep, ContractStep, PTL DEF Spec, ImplementsContract, Contract!Spec
=============================================================================
