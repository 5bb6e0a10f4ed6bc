------------------------------ MODULE Campaign ------------------------------
(***************************************************************************)
(* One research campaign: its row in the table campaigns, the jobs it      *)
(* submits stage by stage, and the processes that work on the row.         *)
(*                                                                         *)
(* Any number of processes may run step_campaign on the same campaign: the *)
(* campaign manager on its timer, start_campaign right after its INSERT,   *)
(* and the command research-campaign-step.  None of them opens its         *)
(* transaction before it writes, so what it read may be old (seen) when    *)
(* its UPDATE comes, and the UPDATEs name the row by campaign_id alone.    *)
(* The jobs behave as module JobContract promises.                         *)
(***************************************************************************)
EXTENDS Integers, FiniteSets

CONSTANTS
  Manager,       \* the process that runs campaign_manager_loop
  Helper,        \* other processes that run step_campaign
  Operator,      \* the process that runs stop_campaign
  Control,       \* the control job of a stage
  Candidate,     \* the candidates of a search stage
  Scenario,      \* the scenarios of the stress pack
  MaxJobs,       \* spec max_jobs; 0 means no cap
  MaxAttempts,   \* jobs.max_attempts
  MaxStages,     \* bound: stages submitted in one behaviour
  MaxFaults,     \* bound: crashes and runtime errors in one behaviour
  MaxLate,       \* bound: changes to jobs that are not running
  MaxStops,      \* bound: stop requests
  MaxEvents,     \* bound: all of these together, and the end of the time budget
  HasTimeBudget  \* whether spec max_hours may run out

ASSUME CampaignAssumption ==
  /\ Manager \notin Helper /\ Operator \notin Helper \cup {Manager}
  /\ Control \notin Candidate
  /\ Candidate # {} /\ IsFiniteSet(Candidate)
  /\ Scenario # {} /\ IsFiniteSet(Scenario)
  /\ MaxJobs \in Nat /\ MaxAttempts \in Nat \ {0}
  /\ {MaxStages, MaxFaults, MaxLate, MaxStops, MaxEvents} \subseteq Nat
  /\ HasTimeBudget \in BOOLEAN

VARIABLES
  row,         \* the row of campaigns: status, phase, state_json
  jobStatus,   \* jobs.status of the campaign's jobs
  attempts,    \* jobs.attempt_count
  stages,      \* stages submitted so far (their ids are fresh)
  expired,     \* max_hours have passed since started_at
  pc,          \* where each process is
  seen,        \* the row each process has read
  rows,        \* the completed jobs of the stage each process has read
  own,         \* the jobs each process has inserted and not yet recorded
  writer,      \* the process whose transaction is open, if any
  announced,   \* a strategy_promoted notification was emitted
  faults, late, stops   \* counters for the bounds

jobVars  == <<jobStatus, attempts>>
procVars == <<pc, seen, rows, own>>
counters == <<faults, late, stops>>
vars == <<row, jobVars, stages, expired, procVars, writer, announced, counters>>

Stepper == {Manager} \cup Helper
Process == Stepper \cup {Operator}
Nobody  == "nobody"

SearchPhases == {"focused_operability", "benchmark_pivot", "stability_pivot"}
Phases   == SearchPhases \cup {"stress_pack"}
Pivots   == {"benchmark_pivot", "stability_pivot"}
Statuses == {"running", "completed", "exhausted", "failed", "stopped"}

RetryLimit == 2   \* CAMPAIGN_RUNTIME_RETRY_LIMIT

\* A job belongs to a stage; its slot says what it evaluates.
Slots == {Control} \cup Candidate \cup (Candidate \X Scenario)
Job   == [stage : 1 .. MaxStages, slot : Slots]

Queue == INSTANCE JobContract WITH status <- jobStatus

\* pending_stage, with the phase it was submitted for; no jobs means None.
NoStage == [phase |-> "none", jobs |-> {}]

\* state_json, without the evidence rows themselves: control says whether
\* control_row is set, pool and shortlisted whose rows are there, tried which
\* of pivot_result and stability_result are, final the recommended_action.
FreshState == [control |-> FALSE, pool |-> {}, tried |-> {}, shortlisted |-> {},
               final |-> "none", pending |-> NoStage, retries |-> 0]

\* The row start_campaign inserts.
FreshRow == [status |-> "running", phase |-> "focused_operability", state |-> FreshState]

Init ==
  /\ row = FreshRow
  /\ Queue!Init
  /\ stages = 0 /\ expired = FALSE
  /\ pc = [p \in Process |-> "idle"]
  /\ seen = [p \in Process |-> FreshRow]
  /\ rows = [p \in Process |-> {}] /\ own = [p \in Process |-> {}]
  /\ writer = Nobody /\ announced = FALSE
  /\ faults = 0 /\ late = 0 /\ stops = 0

\* Bound: something else may still happen to the campaign.
MoreEvents == faults + late + stops + (IF expired THEN 1 ELSE 0) < MaxEvents

-----------------------------------------------------------------------------
(* Steps of a process.                                                      *)

Goto(p, label) == pc' = [pc EXCEPT ![p] = label]

\* The end of step_campaign: what the process knew is gone.
Leave(p) ==
  /\ Goto(p, "idle")
  /\ seen' = [seen EXCEPT ![p] = FreshRow]
  /\ rows' = [rows EXCEPT ![p] = {}]
  /\ own'  = [own EXCEPT ![p] = {}]

\* An UPDATE needs the write lock; it replaces status and state of the row.
Write(status, phase, state) ==
  /\ writer = Nobody
  /\ row' = [status |-> status, phase |-> phase, state |-> state]

Submitted == {j \in Job : jobStatus[j] # "absent"}
Active    == {j \in Job : jobStatus[j] \in {"queued", "running"}}

\* _get_campaign; step_campaign returns at once unless the campaign runs.
Read(p) ==
  /\ pc[p] = "idle" /\ row.status = "running"
  /\ seen' = [seen EXCEPT ![p] = row]
  /\ Goto(p, "read")
  /\ UNCHANGED <<row, jobVars, stages, expired, rows, own, writer, announced, counters>>

\* Mutant: only the clock is checked.
OutOfTime == expired

\* _campaign_budget_exhausted.
BudgetExhausted == expired \/ (MaxJobs > 0 /\ Cardinality(Submitted) >= MaxJobs)

\* Mutant: the decision is written, the status is not.
DecideOnly(p, status, decision) ==
  Write(IF status = "stopped" THEN status ELSE row.status, row.phase,
        [seen[p].state EXCEPT !.final = decision, !.pending = NoStage])

\* _set_campaign_final_decision: it starts again from the state that was read.
Finish(p, status, decision) ==
  Write(status, row.phase,
        [seen[p].state EXCEPT !.final = decision, !.pending = NoStage])

\* The budget check of step_campaign.  It leaves pending_stage as it was.
Exhaust(p) ==
  /\ pc[p] = "read" /\ BudgetExhausted
  /\ Write("exhausted", row.phase, [seen[p].state EXCEPT !.final = "exhausted"])
  /\ Leave(p)
  /\ UNCHANGED <<jobVars, stages, expired, writer, announced, counters>>

\* Mutant: a running job is not waited for.
NoneQueued(jobs) == \A j \in jobs : jobStatus[j] # "queued"

\* Mutant: the stage waits for a result of every job.
AllCompleted(jobs) == \A j \in jobs : jobStatus[j] = "completed"

\* The statuses of the stage's jobs, against ACTIVE_CAMPAIGN_STATUSES.
Settled(jobs) == \A j \in jobs : jobStatus[j] \notin {"queued", "running"}

\* A stage is pending: wait for its jobs, or take their results.
Wait(p) ==
  /\ pc[p] = "read" /\ ~BudgetExhausted
  /\ ~Settled(seen[p].state.pending.jobs)
  /\ Leave(p)
  /\ UNCHANGED <<row, jobVars, stages, expired, writer, announced, counters>>

Collect(p) ==
  LET mine == seen[p].state.pending.jobs IN
  /\ pc[p] = "read" /\ ~BudgetExhausted
  /\ mine # {} /\ Settled(mine)
  /\ rows' = [rows EXCEPT ![p] = {j \in mine : jobStatus[j] = "completed"}]
  /\ Goto(p, "rows")
  /\ UNCHANGED <<row, jobVars, stages, expired, seen, own, writer, announced, counters>>

StageSlots(phase, shortlisted) ==
  IF phase = "stress_pack" THEN shortlisted \X Scenario ELSE {Control} \cup Candidate

\* The jobs of the next stage, as _campaign_phase_specs and _campaign_stress_specs
\* name them.
NextStage(p) ==
  [stage : {stages + 1}, slot : StageSlots(seen[p].phase, seen[p].state.shortlisted)]

\* Mutant: pending_stage is written before the jobs are submitted.
RecordFirst(p) ==
  /\ pc[p] = "read" /\ ~BudgetExhausted
  /\ seen[p].state.pending.jobs = {}
  /\ Write(row.status, seen[p].phase,
           [seen[p].state EXCEPT !.pending = [phase |-> seen[p].phase, jobs |-> NextStage(p)]])
  /\ Goto(p, "submit")
  /\ UNCHANGED <<jobVars, stages, expired, seen, rows, own, writer, announced, counters>>

\* No stage is pending: _submit_campaign_phase_jobs builds the next one.
Build(p) ==
  /\ pc[p] = "read" /\ ~BudgetExhausted
  /\ seen[p].state.pending.jobs = {}
  /\ Goto(p, "submit")
  /\ UNCHANGED <<row, jobVars, stages, expired, seen, rows, own, writer, announced, counters>>

\* A stress pack on an empty shortlist ends the campaign.
NoJobs(p) ==
  /\ pc[p] = "submit" /\ NextStage(p) = {}
  /\ Write("exhausted", row.phase, [seen[p].state EXCEPT !.final = "exhausted"])
  /\ Leave(p)
  /\ UNCHANGED <<jobVars, stages, expired, writer, announced, counters>>

\* submit_jobs commits on a connection of its own ...
Insert(p) ==
  LET S == NextStage(p) IN
  /\ pc[p] = "submit" /\ S # {} /\ writer = Nobody
  /\ stages < MaxStages
  /\ Queue!Submit(S)
  /\ stages' = stages + 1
  /\ own' = [own EXCEPT ![p] = S]
  /\ Goto(p, "inserted")
  /\ UNCHANGED <<row, expired, seen, rows, writer, announced, counters>>

\* ... before pending_stage says so.
Record(p) ==
  /\ pc[p] = "inserted"
  /\ Write(row.status, seen[p].phase,
           [seen[p].state EXCEPT !.pending = [phase |-> seen[p].phase, jobs |-> own[p]]])
  /\ Leave(p)
  /\ UNCHANGED <<jobVars, stages, expired, writer, announced, counters>>

-----------------------------------------------------------------------------
(* The results of a stage: _process_campaign_stage.                         *)

StagePhase(p) == seen[p].state.pending.phase

\* control_row: of this stage, or of an earlier one.
HasControl(p) == seen[p].state.control \/ \E j \in rows[p] : j.slot = Control

ControlMissing(p) ==
  /\ pc[p] = "rows" /\ StagePhase(p) \in SearchPhases /\ ~HasControl(p)
  /\ Finish(p, "failed", "exhausted")
  /\ Leave(p)
  /\ UNCHANGED <<jobVars, stages, expired, writer, announced, counters>>

\* Where a search stage leads, with or without a viable candidate; focused
\* tuning goes on to the stress pack only if its candidate beats the control.
AfterSearch(phase, viable, success) ==
  IF viable /\ (phase = "focused_operability" => success) THEN "stress_pack"
  ELSE CASE phase = "focused_operability" -> "benchmark_pivot"
         [] phase = "benchmark_pivot"     -> "stability_pivot"
         [] phase = "stability_pivot"     -> "exhausted"

\* Mutant: a search that leads nowhere does not end the campaign.
NeverExhausted(next) == next = "unknown"

Exhausted(next) == next = "exhausted"

\* _process_search_stage.  Which candidates are viable is up to the results;
\* one that is not among the completed jobs of the stage cannot be selected.
ProcessSearch(p) ==
  LET st   == seen[p].state
      done == {c \in Candidate : \E j \in rows[p] : j.slot = c}
      pool == st.pool \cup done
  IN
  /\ pc[p] = "rows" /\ StagePhase(p) \in SearchPhases /\ HasControl(p)
  /\ \E viable \in (IF done = {} THEN {FALSE} ELSE BOOLEAN), success \in BOOLEAN :
       LET next == AfterSearch(StagePhase(p), viable, success) IN
       IF Exhausted(next)
       THEN Finish(p, "exhausted", "exhausted")
       ELSE \E short \in (IF next = "stress_pack" THEN SUBSET pool \ {{}}
                          ELSE {st.shortlisted}) :
              Write(row.status, next,
                    [st EXCEPT !.control = TRUE, !.pool = pool, !.shortlisted = short,
                               !.tried = @ \cup ({StagePhase(p)} \cap Pivots),
                               !.pending = NoStage])
  /\ Leave(p)
  /\ UNCHANGED <<jobVars, stages, expired, writer, announced, counters>>

\* _campaign_stress_decision: a candidate is stress_ok when it has results and
\* none of them is broken; a scenario without a result does not count.
MayFreeze(p) ==
  /\ StagePhase(p) = "stress_pack"
  /\ \E c \in seen[p].state.shortlisted, s \in Scenario :
       \E j \in rows[p] : j.slot = <<c, s>>

\* The decision is written and announced, with the transaction still open.
Announce(p) ==
  /\ pc[p] = "rows" /\ MayFreeze(p) /\ writer = Nobody
  /\ writer' = p
  /\ announced' = TRUE
  /\ Goto(p, "commit")
  /\ UNCHANGED <<row, jobVars, stages, expired, seen, rows, own, counters>>

Commit(p) ==
  /\ pc[p] = "commit"
  /\ row' = [row EXCEPT !.status = "completed",
                        !.state = [seen[p].state EXCEPT !.final = "freeze",
                                                        !.pending = NoStage]]
  /\ writer' = Nobody
  /\ Leave(p)
  /\ UNCHANGED <<jobVars, stages, expired, announced, counters>>

\* Mutant: the pivots in the other order.
StabilityFirst(tried) ==
  IF "stability_pivot" \notin tried THEN "stability_pivot"
  ELSE IF "benchmark_pivot" \notin tried THEN "benchmark_pivot" ELSE "exhausted"

\* The first pivot without a result, if there is one.
NextPivot(tried) ==
  IF "benchmark_pivot" \notin tried THEN "benchmark_pivot"
  ELSE IF "stability_pivot" \notin tried THEN "stability_pivot" ELSE "exhausted"

\* _process_stress_stage, when no candidate is frozen.
ProcessStress(p) ==
  LET st == seen[p].state  next == NextPivot(st.tried) IN
  /\ pc[p] = "rows" /\ StagePhase(p) = "stress_pack"
  /\ IF Exhausted(next) THEN Finish(p, "exhausted", "continue")
     ELSE Write(row.status, next, [st EXCEPT !.pending = NoStage])
  /\ Leave(p)
  /\ UNCHANGED <<jobVars, stages, expired, writer, announced, counters>>

-----------------------------------------------------------------------------
(* Errors, crashes and the operator.                                        *)

\* The process dies, or step_campaign raises in a process without a handler.
Crash(p) ==
  /\ pc[p] # "idle" /\ faults < MaxFaults /\ MoreEvents
  /\ faults' = faults + 1
  /\ Leave(p)
  /\ writer' = IF writer = p THEN Nobody ELSE writer
  /\ UNCHANGED <<row, jobVars, stages, expired, announced, late, stops>>

\* step_campaign raises in the manager: _handle_campaign_runtime_error.
Raise ==
  /\ pc[Manager] \in {"read", "rows", "submit", "inserted", "commit"}
  /\ faults < MaxFaults /\ MoreEvents
  /\ faults' = faults + 1
  /\ pc' = [pc EXCEPT ![Manager] = "raised"]
  /\ rows' = [rows EXCEPT ![Manager] = {}] /\ own' = [own EXCEPT ![Manager] = {}]
  /\ writer' = IF writer = Manager THEN Nobody ELSE writer
  /\ UNCHANGED <<row, jobVars, stages, expired, seen, announced, late, stops>>

HandlerReads ==
  /\ pc[Manager] = "raised"
  /\ IF row.status = "running"
     THEN /\ seen' = [seen EXCEPT ![Manager] = row]
          /\ Goto(Manager, "handling")
          /\ UNCHANGED <<rows, own>>
     ELSE Leave(Manager)
  /\ UNCHANGED <<row, jobVars, stages, expired, writer, announced, counters>>

Retry ==
  LET st == seen[Manager].state IN
  /\ pc[Manager] = "handling" /\ st.retries < RetryLimit
  /\ Write("running", row.phase, [st EXCEPT !.retries = @ + 1])
  /\ Leave(Manager)
  /\ UNCHANGED <<jobVars, stages, expired, writer, announced, counters>>

\* An error that is not retryable, or one too many.
GiveUp ==
  /\ pc[Manager] = "handling"
  /\ Finish(Manager, "failed", "failed")
  /\ Leave(Manager)
  /\ UNCHANGED <<jobVars, stages, expired, writer, announced, counters>>

\* stop_campaign: it reads the row, then cancels and writes in one transaction.
StopReads ==
  /\ pc[Operator] = "idle" /\ row.status = "running" /\ stops < MaxStops /\ MoreEvents
  /\ stops' = stops + 1
  /\ seen' = [seen EXCEPT ![Operator] = row]
  /\ Goto(Operator, "stopping")
  /\ UNCHANGED <<row, jobVars, stages, expired, rows, own, writer, announced, faults, late>>

StopWrites ==
  /\ pc[Operator] = "stopping"
  /\ \E cancel \in BOOLEAN :
       Queue!Cancel(IF cancel THEN {j \in Job : jobStatus[j] = "queued"} ELSE {})
  /\ Finish(Operator, "stopped", "stopped")
  /\ Leave(Operator)
  /\ UNCHANGED <<stages, expired, writer, announced, counters>>

-----------------------------------------------------------------------------
(* The queue and the clock.                                                 *)

\* The ordinary course: a running job gets a result, or it is tried again while
\* it has attempts left.
JobSettles(j) ==
  /\ jobStatus[j] = "running" /\ writer = Nobody
  /\ \/ Queue!Complete(j)
     \/ attempts[j] < MaxAttempts /\ Queue!GiveBack({j}, {})
     \/ Queue!GiveBack({}, {j})
  /\ UNCHANGED <<row, stages, expired, procVars, writer, announced, counters>>

JobStarts(j) ==
  /\ writer = Nobody
  /\ Queue!Start(j)
  /\ UNCHANGED <<row, stages, expired, procVars, writer, announced, counters>>

\* Everything else the contract allows: a straggler reports on a job that was
\* taken from it, or the coordinator grants an attempt too many.
JobLate(j) ==
  /\ late < MaxLate /\ MoreEvents /\ writer = Nobody
  /\ \/ Queue!Complete(j) \/ Queue!GiveBack({}, {j})
     \/ Queue!GiveBack({j}, {})
  /\ late' = late + 1
  /\ UNCHANGED <<row, stages, expired, procVars, writer, announced, faults, stops>>

TimePasses ==
  /\ HasTimeBudget /\ ~expired /\ MoreEvents
  /\ expired' = TRUE
  /\ UNCHANGED <<row, jobVars, stages, procVars, writer, announced, counters>>

-----------------------------------------------------------------------------
Step(p) ==
  \/ Read(p) \/ Exhaust(p) \/ Wait(p) \/ Collect(p) \/ Build(p) \/ NoJobs(p) \/ Insert(p)
  \/ Record(p)
  \/ ControlMissing(p) \/ ProcessSearch(p) \/ Announce(p) \/ Commit(p) \/ ProcessStress(p)

ManagerStep == Step(Manager) \/ HandlerReads \/ Retry \/ GiveUp

JobStep(j) == JobStarts(j) \/ JobSettles(j)

Next ==
  \/ ManagerStep \/ Raise
  \/ \E p \in Helper : Step(p)
  \/ \E p \in Process : Crash(p)
  \/ StopReads \/ StopWrites
  \/ \E j \in Job : JobStep(j) \/ JobLate(j)
  \/ TimePasses

Spec == Init /\ [][Next]_vars

\* The manager's loop runs for ever, and the queue settles every job.
Fairness == WF_vars(ManagerStep) /\ \A j \in Job : WF_vars(JobStep(j))

FairSpec == Spec /\ Fairness

-----------------------------------------------------------------------------
(* Properties.                                                              *)

State == [control : BOOLEAN, pool : SUBSET Candidate, tried : SUBSET Pivots,
          shortlisted : SUBSET Candidate,
          final : {"none", "stopped", "exhausted", "failed", "freeze", "continue"},
          pending : [phase : Phases \cup {"none"}, jobs : SUBSET Job],
          retries : 0 .. RetryLimit]

Row == [status : Statuses, phase : Phases, state : State]

TypeOK ==
  /\ row \in Row
  /\ jobStatus \in [Job -> Queue!Statuses] /\ attempts \in [Job -> Nat]
  /\ stages \in 0 .. MaxStages /\ expired \in BOOLEAN
  /\ pc \in [Process -> {"idle", "read", "submit", "inserted", "rows", "commit",
                         "raised", "handling", "stopping"}]
  /\ seen \in [Process -> Row]
  /\ rows \in [Process -> SUBSET Job] /\ own \in [Process -> SUBSET Job]
  /\ writer \in Process \cup {Nobody} /\ announced \in BOOLEAN
  /\ faults \in 0 .. MaxFaults /\ late \in 0 .. MaxLate /\ stops \in 0 .. MaxStops

\* The jobs of a pending stage are in the queue, in every copy of the row that
\* some process still holds.  Were pending_stage written before the INSERTs, a
\* crash in between would leave a stage without rows: step_campaign would find
\* none of its jobs active and process the stage as if all of them had failed.
PendingJobsSubmitted ==
  /\ row.state.pending.jobs \subseteq Submitted
  /\ \A p \in Process : seen[p].state.pending.jobs \subseteq Submitted

\* A campaign that runs has no final decision, so that step_campaign never
\* closes it by its "final_decision" branch; even the handler that sets the
\* status back to running restores a state without one.
RunningUndecided == row.status = "running" => row.state.final = "none"

\* max_jobs is overshot by at most one stage for every process that runs
\* step_campaign: each checks the count before it builds a stage.
LargestStage ==
  LET search == Cardinality(Candidate) + 1
      stress == Cardinality(Candidate) * Cardinality(Scenario)
  IN  IF search > stress THEN search ELSE stress

OvershootBounded ==
  MaxJobs > 0 =>
    Cardinality(Submitted) <= MaxJobs - 1 + LargestStage * Cardinality(Stepper)

\* With one manager and no operator, jobs of the campaign that nobody waits
\* for are the traces of crashes, of runtime errors and of late reports.
Recording == UNION {own[p] : p \in Process}

Stray == Active \ (row.state.pending.jobs \cup Recording)

StrayJobsNeedFaults ==
  row.status = "running" =>
    Cardinality(Stray) <= LargestStage * faults + late

\* A campaign that one manager advances follows the plan of the README.
Plan == INSTANCE CampaignPlan
          WITH status <- row.status, phase <- row.phase, tried <- row.state.tried
FollowsPlan == Plan!Spec

\* Every campaign ends: phases do not repeat, errors are counted, and a stage
\* waits for jobs that settle.
CampaignEnds == <>(row.status # "running")

\* A candidate is frozen only if it went through the whole stress pack.
\* context/16_paper_trading_status.md:109, "the strategy remains acceptable
\* under the defined stress pack".
FrozenAfterWholePack ==
  [][\A p \in Process : pc[p] = "rows" /\ pc'[p] = "commit" =>
       \E c \in seen[p].state.shortlisted :
         \A j \in seen[p].state.pending.jobs : j.slot \in {c} \X Scenario => j \in rows[p]]_vars
=============================================================================
