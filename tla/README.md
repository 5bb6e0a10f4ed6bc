# Verification of the Trotters research runtime

This directory holds TLA+ models of the research runtime of this repository
(`src/trotters_trader`), the TLC configurations that check them on small
instances, and theorems about them that TLAPS proves for instances of any size.
Paths below are relative to the repository; line numbers refer to
`src/trotters_trader/research_runtime.py` unless another file is named.

## 1. The system

The runtime searches trading strategies by running many backtests. Its processes
(`docker-compose.yml`) share one SQLite database and a directory of files:

| Process | Loop | Does |
|---|---|---|
| workers (several) | `worker_loop`, every 2 s | lease a job, run it as a subprocess, report |
| coordinator | `coordinator_cycle`, every 2 s | takes jobs back, prunes worker rows, exports |
| campaign manager | `campaign_manager_loop`, every 15 s | advances every running campaign by a step |
| research director | `director_manager_loop`, every 30 s | starts campaigns of a plan one after another |
| research API, dashboard, CLI | on request | start, stop, pause, resume, skip, step |
| operations bridge | on request | restarts services, dispatches agents, runs rehearsals |

All of them restart after a crash (`restart: unless-stopped`). They interact
through rows of tables: the director inserts campaigns and reads their status, a
campaign inserts jobs and reads their status and result, workers and coordinator
write jobs. There are no other messages between them; hooks and agent dispatches
leave the system.

What is atomic decides everything else. `_run_write_transaction` (4173) opens
`BEGIN IMMEDIATE`, so what it wraps (heartbeat, renewal, lease, reports) is one
step. Everything else uses `_connect` (4154), and there Python's `sqlite3` opens a
transaction only at the first `UPDATE` or `INSERT`: what was read before it is a
copy that may be old by the time it is acted upon. The UPDATEs name their rows by
id alone. On files nothing is held together at all: each is replaced or appended to
by itself.

`docker-compose.yml` runs PostgreSQL by default, where `translate_sql`
(`runtime_db.py:120-126`) turns `BEGIN IMMEDIATE` into `BEGIN`. The modules take
SQLite's grain; `Catalog` also has PostgreSQL's overlapping commits.

### Inventory

| Component | State | Operations | Hard behaviour | What makes it correct |
|---|---|---|---|---|
| Job queue (205-345, 378-578, 809-994, 3863-3960) | `jobs`, `job_attempts`, `workers`, `artifacts` | submit, lease, heartbeat, renew, complete, fail, take back, prune, cancel | stragglers, crashes and restarts under the same id, two coordinators' reads before their write | leases match statuses, the attempt ledger is complete, results come from one attempt, budgets hold, every job ends |
| Campaigns (1005-1329, 2475-3300, 3661-3762) | a row of `campaigns` with `state_json` | start, step (submit a stage, wait, process, freeze, exhaust), retry on error, stop | two steppers, crash between submission and record, stop during a step, reports that come late | phases follow the plan, no stage waits for jobs that do not exist, job counts bounded, it ends |
| Directors (1332-1966, 2112-2400, `active_branch.py`) | a row of `directors` with its queue and launch claim | start, step (claim, launch, adopt, wait, process outcome), pause, resume, skip, stop, auto-start | slow launches and stale claims, crash between claim and record, pause or stop during a launch, duplicate plans | one active campaign per director, every entry run once, a stopped director launches nothing |
| Catalog export (2403-2472, `catalog.py`) | files and a watermark file | rebuild when `MAX(artifact_id)` moved | reads outside a transaction, files written one after another | the catalog catches up with the database |
| Notifications and agent dispatch (3318-3600, `agent_dispatches.py`) | JSONL files | emit, dispatch with a cooldown | emitted before the commit, dispatch inside an open transaction, two processes under one cooldown | what is announced is the case; one dispatch per cooldown |
| Operations bridge (`ops_bridge.py`) | audit JSONL | restart, dispatch, record actions | limits derived from the audit file | restart limits hold |
| Work queue and next family (`runbook_queue.py`, `research_families.py`, `research_programs.py`) | JSON files | choose the next plan, approve | approval against a state that has moved | nothing unapproved is started |
| Paper rehearsal (`paper_rehearsal.py`) | state, ledger and day files | run a day, accept, skip, override | several files per action, repeated or older accepts | the portfolio is that of the accepted days in order |
| Promotion path, operability program (`promotion_path.py`, `experiments.py`) | reports | select, shortlist, stress, promote | scenarios without results | only survivors of the whole pack are promoted |
| Backtest engine (`backtest.py`, `portfolio.py`, `execution.py`, `allocator.py`, `strategy.py`, `calendar.py`) | portfolio of a run | rebalance, fill, mark | rounding, costs on top of sized orders | money is conserved, positions stay non-negative |
| Service heartbeats, database access | files; connections | write, check age; retry on lock | lock timeouts | see the grain of atomicity above |
| Data pipeline, configuration, metrics, reports, dashboard, API, CLI, gateway extension | files, none of their own | batch conversions, views | - | - |

## 2. Modules

| Module | Models | Role |
|---|---|---|
| `JobContract` | what campaigns may rely on about a job | abstract specification |
| `JobQueue` | queue, workers, coordinator | detailed specification, implements `JobContract` |
| `CampaignPlan` | the phases of a campaign | abstract specification |
| `Campaign` | one campaign, its manager, other steppers, an operator; on top of `JobContract` | detailed specification, implements `CampaignPlan` when one manager steps it |
| `Director` | directors of a plan, the manager that steps them, callers that step and control them; on top of campaigns that end | detailed specification |
| `Supervision` | runbook queue, families, programs, bootstrap and the manager's choice of the next plan | detailed specification |
| `Catalog` | workers' commits, exporters, commands that register entries | detailed specification |
| `OpsBridge` | the bridge, its audit and telemetry files, notifiers | detailed specification |
| `PromotionPath` | from histories and programs to the gate of paper trading | pure operators, used by `PaperRehearsal` |
| `PaperRehearsal` | runners and operators on the files of the rehearsal | detailed specification |
| `Ranking` | sums, and sorting by a key | functions, used by `Backtest` and `Evaluation` |
| `Backtest` | the loop over trading dates and the daily decision package | sequential algorithm, integers |
| `Evaluation` | operability program and research tranche | sequential algorithm |
| `MC...` | - | instances for TLC |
| `JobQueue_proofs`, `Campaign_proofs`, `Director_proofs`, `Supervision_proofs`, `Catalog_proofs`, `OpsBridge_proofs`, `PaperRehearsal_proofs`, `Research_proofs` | - | theorems, one module for each specification; `Research_proofs` is about `Backtest` and `Evaluation` |

The modules compose through promises. `JobQueue` is shown to implement
`JobContract`, and `Campaign` has `JobContract` as the behaviour of its jobs, so
what holds in `Campaign` holds for campaigns above the real queue. `Director` sees
of a campaign its owner, entry and status, and that an active campaign ends, which
is `CampaignEnds` of `Campaign`; `Supervision` sees of a director that the run of a
plan ends, which is `DirectorEnds`. The last two steps are by argument only: a
director and its campaigns are not composed in one specification.

Operators that a comment calls a *mutant* are not part of the model. Each is what
a plausible slip would make of the definition after it (a guard dropped, an order
swapped); put in its place, it makes TLC refute the property named with it in
`PROJECT.json`. They show that the properties can fail.

### JobQueue

| State | Code |
|---|---|
| `status`, `leasedBy`, `lease`, `attempts`, `older` | columns of `jobs`; `lease` is the age of `lease_expires_at`, `older` the order of `created_at` |
| `ledger`, `artifacts` | rows of `job_attempts` and, per job, the attempts its rows of `artifacts` come from |
| `registered`, `current`, `beat` | rows of `workers`; `beat` counts which cutoff `heartbeat_at` is behind |
| `pc`, `holding`, `turn` | a worker process in `worker_loop` / `execute_leased_job` |
| `coord`, `giveBack`, `giveUp`, `holders`, `pruning` | the coordinator in `coordinator_cycle` and the rows it has read |

Actions: `Submit`, `CancelQueued`; `Start`, `IdleBeat`, `Lease`, `BeatRunning`,
`ExecBeat`, `Renew`, `Complete`, `Fail`, `DoneBeat`, `Crash` of a worker; `AgeBeat`,
`ExpireLease` for time; `ScanExpired`, `ScanStale`, `ScanPrune`, `WriteBack`, `Prune`,
`CrashCoordinator`. The coordinator's reads are actions of their own up to the
first UPDATE; from there to the commit `WriteBack` is one action, because the
write lock is held, and it computes all three parts of the cycle in order.

Clocks are ages: a heartbeat is fresh, behind the 30 s cutoff of the prune, or also
behind the 60 to 180 s cutoff of the recovery; a lease is held or a full
`lease_timeout` past its end (the code adds the timeout twice: once when the
lease is set and once in the cutoff). Ages may grow whenever they like, so any
scheduling of slow processes is included. Idle repetition of a status, exit codes,
error texts and log paths are left out; the job's own work is an open choice
between success and failure.

### Campaign

`row` is the campaign's row (status, phase and an abstraction of `state_json`);
`pc`, `seen`, `rows`, `own` are a process inside `step_campaign`, the error handler
or `stop_campaign`, with the copies it has read; `writer` is the holder of the
write lock between the announcement of a freeze and its commit.

`step_campaign` is cut where another process can come in: `Read`, then the budget
(`Exhaust`), a pending stage (`Wait`, or `Collect` and one of `ControlMissing`,
`ProcessSearch`, `Announce`/`Commit`, `ProcessStress`), or a new stage (`Build`, then
`NoJobs`, or `Insert` and `Record`). Every write starts from the copy that was
read, as in the code, whatever the row has become. `Raise`, `HandlerReads`, `Retry`,
`GiveUp` are `_handle_campaign_runtime_error`; `Crash` is a process that dies, or a
stepper without a handler that raises; `StopReads`, `StopWrites` are `stop_campaign`.
`JobStarts`, `JobSettles`, `JobLate` are the steps `JobContract` allows; `JobLate` are
those on jobs that are no longer running. Which candidates are viable is left to
the results (any non-empty choice among those with results); the pool, the
shortlist and the stress pack keep track of *which* slots have a result.

### Director

`director` holds the rows: status, queue entry, the campaign it waits for and the
launch claim of the entry. `campaign` holds, for each campaign a director could
start or adopt, its owner, entry and status, and (as history) whether a director
launched it and whether a freeze of it was overwritten (`thawed`); up to
`MaxUnowned` of them were there before and belong to nobody. `aged` marks claims
older than 120 s, `halted` says that the latest end of a director or campaign was a
failure or a stop, which holds the auto-start back. `proc` is what the manager or a
caller has read and where in its call it stands.

`step_director` is cut at its commits: the read, the claim, the launch (a
transaction of `start_campaign` of its own), and the second transaction that
records the campaign. Between them come the caller's `pause_director`,
`resume_director`, `skip_director_next`, `stop_director` and `start_director` (with
`_find_active_plan_duplicate` before its INSERT), each cut the same way. The campaign
that a stop takes along is read (`StopCampaign`) and written by id later
(`EndCampaign`), as in `stop_campaign`. `CampaignOverwritten` stands for the other
processes inside `Campaign` that do the same: a stop, a step or the failure handler of
a campaign that read its row while it ran and writes it after it ended. `late` counts
them. A step may
also adopt the oldest active campaign of the entry that belongs to nobody (`Adopts`), wait, process an outcome, reset a stale
claim or mark the plan exhausted. A crash may fall between any two. `SlowLaunch`
lets a claim age while its launch goes on.

### Supervision

`approval`, `plans`, `programs`, `queue` and `evidence` are the files of families,
the director plans, the programs, the runbook and what runs leave behind; `running`
and `latest` are the director that runs and how the last one ended. `mgr` is
the manager's auto-start, which reads them one after another before it starts a
plan, `boot` a process in `bootstrap_research_family`. `touched` notes which of the
manager's five inputs changed since it began to read, `collided` that two writers
overlapped. What the manager starts for an entry is `BuiltIn`, the built-in default
plan: it passes a path and no payload (1955-1960), and `_resolve_director_plan`
(2011-2025) then opens no file. The plans of the families run only when a person
starts them (`StartByHand`). `Covers` says of which families' programs the campaigns
of a plan may leave evidence.
`EntryStatus`, `Standby`, `FamilyStatus`, `Precedes`, `NextFamilyStatus` translate the
queries of `runbook_queue.py`, `research_families.py` and `research_programs.py`.
Families are numbers, since names have an order; `Sorted` gives every entry its place
in the order of priorities, stable like `list.sort`.
People edit approvals and entries (`MaxEdits`).

### Catalog

A worker's report takes an artifact id (`Insert`) and commits later (`Commit`, which
also replaces what an earlier report of the job left). An exporter compares
`MAX(artifact_id)` with `watermark`, reads the rows again, writes the four catalog
files one by one, the profile histories and last the watermark. A registrar reads
the first file and writes the four with one entry more. The files come from the rows
of `artifacts`, the histories from `completed`, the artifacts of jobs with the status
`completed` (4003-4027), and only for the profiles these have; a failure or take-back
that comes late (`LateFailure`) takes a job out of them and leaves its artifacts. A
process may die between any two writes. `raced` and `inverted` are history variables: two processes wrote at
once; a lower id committed after a higher one.

### OpsBridge

`serving` is the one request the bridge works on, `backlog` those that wait. A restart
goes container by container; Docker may answer too late (the socket's timeout of
10 s is also the grace of a stop), refuse one of several, or the bridge may end in
between: only a restart that was answered is in `audit`, from which the limits are
counted. `notifier` is a process in `_dispatch_agent_trigger`, which checks
`telemetry` for a recent success and then waits on a socket that times out before
the agent does. `restarted`, `unaudited`, `runs` and `slips` are history: what
happened, and how often for a reason the code cannot see. Who asks for a restart
(an external supervisor that sees a stale heartbeat) is an input. Time is in ticks.

### PromotionPath and PaperRehearsal

`PromotionPath` translates `promotion_path.py`: records of histories and programs,
the overlay of the current campaign's candidate, the order that makes one record
lead, and the gate. `PaperRehearsal` has the files as variables (`days`, `latest`,
`actions`, `state`) and every process as a sequence of reads and writes: a runner
reads the state, decides, appends the day, replaces `latest_day.json`, logs a
blocked day, and replaces `state.json` by what it read with changes; an operator
reads, logs the action, and replaces `state.json`. They overlap and die anywhere.

### Backtest

`day` is the trading date, `book` the portfolio (cash, shares, days held), `nav` and
`peak` its values, `regime` whether the market filter is active, `package` the
decision package of the day; `bars` and `volume` are any of the given bars each day.
`RebalanceDay` and `QuietDay` are the two passes of the loop of `run_backtest`, and
`DecisionDay` the package for the last date: overlays on
exposure, scores, selection with buffer, caps and holding periods, sizing, turnover
budget, sells before buys, costs and partial fills, valuation. Prices are integers,
fractions are in percent, shares are floored as in the code. There are `Size`
instruments, numbered in the order of their names, so that a sum over them is the total
of a list. Loops of the code that carry a value along (rounds of capping, spending a
budget, fills) are recursive functions over the round, or the place in the list.

### Evaluation

`kind` is operability program or tranche, `phase` where it stands; `control`, `rows`,
`shortlist`, `stress` and `decision` are what it has gathered. One step is one stage of
`experiments.py`: evaluate the candidates (with `metrics._evaluate_run` for the
flags), shortlist, stress, decide. `Sorted` lists candidates by keys compared component
by component, like Python's tuples. Measures are whole units; averages over windows are
compared exactly with the limits of the policy, and rounded in the score.

## 3. Runs

| Run | Instance | Shows |
|---|---|---|
| `queue_settles` | 1 job, 2 workers, 2 attempts, 1 crash, fairness | `AttemptLedger`, `RetryBudget`, `ArtifactsOfOneCompletedAttempt`, `FinalUnlessLate`, `EveryJobSettles` |
| `queue_contract` | 2 jobs of different priority, 2 workers, 1 attempt, 1 crash | `TypeOK`, `LeaseMatchesStatus`, `HolderHasNewestAttempt`, `ImplementsContract` |
| `campaign_ends` | 1 manager, 1 candidate, 1 scenario, 7 stages, one of a fault, a late report or the end of the time budget, fairness | `TypeOK`, `StrayJobsNeedFaults`, `FollowsPlan`, `CampaignEnds` |
| `campaign_race` | manager, helper and operator, `max_jobs` 3, 4 stages, one fault or one stop | `PendingJobsSubmitted`, `RunningUndecided`, `OvershootBounded` |
| `campaign_whole_pack` | 1 manager, 2 scenarios | refutes `FrozenAfterWholePack` |
| `director_plan` | 1 director of 1 entry, manager and a caller with every control, 5 campaigns, one of them nobody's, 2 operations, 1 crash or late write, adoption, fairness | `LaunchesBounded`, `Accounted`, `ExhaustedTriedAll`, `CompletedByFreeze`, `TerminalForGood`, `DirectorEnds` |
| `supervision_queue` | 2 families, 2 bootstraps, 3 edits by hand, fairness | `TypeOK`, `EntryHasDefinition`, `StartIsGoverned`, `QueueKeepsEntries`, `ReadyIsServed` |
| `catalog_export` | coordinator and a registering command, 2 artifacts of one profile with overlapping commits, late failures, 1 death, fairness | `UpToDateIsExact`, `FilesAgree`, `CatalogCatchesUp` |
| `bridge_limits` | 1 service of 2 containers, 2 notifiers of the same dispatch, 4 ticks, 3 requests, 1 fault | `RestartsBounded`, `OneRunPerCooldown` |
| `paper_days` | 1 runner, 1 operator, 3 days, 2 actions, 1 edit, 1 crash | `PortfolioWasAccepted`, `ActionsFitDays`, `LostAcceptNeedsOverlap` |
| `backtest_account` | 3 dates, 2 instruments, 3 bars, 4 configurations | `BooksBalance`, `OverdraftNeedsCause`, `DeRisked` |
| `evaluation_decides` | 2 focused and 2 pivot candidates, 6 kinds of evidence, 2 scenarios | `PutForwardOnEvidence`, `NothingOverlooked` |

The bounds, and why they are enough:

- `MaxAttempts`, `MaxCrashes` (JobQueue). Two attempts let a job be taken back,
  leased again and reported on twice; one crash leaves an open ledger row behind
  and brings the worker back under its id, and stragglers need no crash. Two workers
  suffice for one to be late on what the other does. The safety properties hold for
  all values by proof.
- Two jobs in `queue_contract` make the coordinator's transaction touch several
  rows, and one worker hold the ledger rows of two jobs.
- `MaxStages` counts submissions. The longest path through the phases has six
  (focused, stress, benchmark, stress, stability, stress), a fault repeats one:
  7 never stops a campaign in `campaign_ends`, so `CampaignEnds` does not hold
  merely for lack of stages. In `campaign_race` 4 stages let the cap of 3 jobs be
  exceeded by one stage more than `OvershootBounded` allows.
- `MaxFaults`, `MaxStops`, `MaxLate` bound what comes from outside, and `MaxEvents`
  all of it together with the end of the time budget: in both campaign runs one
  such event happens, at every point of a step. One event at every point is where
  recovery differs; further ones start from states that the first has already
  produced, up to the retry count.
- One candidate and one scenario: what a stage leads to depends only on whether
  some, or no, candidate survives; the run about the stress pack has two scenarios.
- `director_plan` has 0.7 million states; its five campaigns are as many as one entry
  with two operations and a crash needs (with four a launch finds none left and
  `DirectorEnds` fails). A campaign of it ends by a freeze or exhausted on its own
  (`Endings`) and stopped through a director's stop; a late write makes it `failed`, or
  `running` again (`LateWrites`), so that the manager meets every status. `MaxFaults`
  bounds crashes and late writes together: one at every point. `MaxUnowned` is one there, enough for an adoption; longer plans,
  more campaigns to adopt and more callers are covered by proof for `LaunchesBounded`,
  and plans of any length without callers for `Accounted` and `ExhaustedTriedAll`. A second director is what a start beside
  a running one needs; `start_director` twice at once makes two rows of
  the same plan, which the theorems about `Accounted` and `ExhaustedTriedAll` allow.
- `supervision_queue`: with two families one is first and one waits; three edits let
  an approval be taken back and an entry be disabled while the manager is between
  two files, and two bootstraps overlap. A third family adds no new order. The built-in
  plan leaves evidence of the first family's program (`Covers`): that entry ceases to
  be ready, and the second is served again and again.
- `catalog_export`: two artifacts suffice for an id to commit after a higher one; a
  death leaves any prefix of the files. They share a profile, so that one can drop out
  of its history while the other keeps it. More of all three is covered by proof.
- `bridge_limits`: the windows are one and four ticks long, the cooldown three, and
  two of the records are looked at, so that three requests pass each limit's edge.
- `paper_days`: `Window` 2 of 3 days makes a day drop out of an action's sight.
- `backtest_account`: a fall of 40 per cent and a thin bar make drawdown, turnover and
  volume limits bind; the four configurations differ in every option that the loop
  tests. `evaluation_decides`: the evidence has one case for each flag.

Runs of systems that may stop do not check for deadlock: a campaign, a plan, a
backtest or an evaluation ends, and the bounded environments run out.

### Fairness

`JobQueue!FairSpec` assumes that the coordinator goes on (its command loops for
ever and its container restarts), that a worker that is down starts again, that
started transactions are finished, that a polling worker leases when a job is
queued, that a subprocess ends, and that a lease nobody renews runs out. It does
not assume that heartbeats or renewals are in time, nor that ages stay small.
`Campaign!FairSpec` assumes that the manager's loop goes on and that a job that is
queued or running moves on, which is `EveryJobSettles` of the queue. It assumes
nothing of helpers, operators, faults or clocks. `Director` assumes that the manager
goes on, that a call a caller has begun is carried on, that campaigns end
(`CampaignEnds` of `Campaign`) and that a claim gets old. `Supervision` assumes the
manager and that the run of a plan ends (`DirectorEnds`); nobody has to edit, approve
or bootstrap. `Catalog` assumes that transactions commit, that exporters go on and that a
registrar that has begun goes on. The other modules state safety only.

### What the code does not do

One run states what a text of the repository says and finds it refuted: *the strategy
is acceptable under the defined stress pack*
(`context/16_paper_trading_status.md:109`). A scenario whose job failed drops out of
the comparison (3023).

Other observations, made while modelling; they have no run of their own.

Jobs and campaigns:

- *The coordinator recovers stale jobs* (`context/22_tech_stack_and_runtime_brief.md:252`).
  It also takes back a fresh one: an idle worker repeats its heartbeat after 30 s,
  the age at which `_prune_stale_workers` deletes its row; it leases a job without
  writing that row; until its next heartbeat the job looks orphaned (3929). The job
  is executed twice.
- *`--campaign-max-jobs` is a hard cap* (`README.md:422`). The count is compared
  before a stage, which is submitted whole (2510). `OvershootBounded` is what holds:
  one stage more for every process that steps the campaign.
- *A stopped campaign is not advanced further* (`README.md:489`). A step or the
  error handler that read the row before the stop writes over it; the handler even
  writes `running` (3690).
- *`strategy_promoted` is emitted when a candidate is actually frozen*
  (`README.md:469`). It is emitted before the commit (3056); a stop request that has
  read the row then overwrites the freeze.
- A job may make `max_attempts` + 1 attempts (`RetryBudget` says no more);
  `stress_results` and the last pivot result are lost when a campaign ends, because
  `_set_campaign_final_decision` parses `state_json` anew; `runtime_retry_count` is
  never reset; `lease_next_job` cannot run on PostgreSQL (`INDEXED BY`).

Directors:

- A queue entry keeps the status `running` after its campaign has ended (2244).
- A stale write of a second process (a pause, the record of a launch) can leave an
  entry `launching` without a claim: it is never tried, and the plan ends without it.
  That is why `Accounted` and `ExhaustedTriedAll` are said without callers.
- A pause or a resume can revive a director that ended meanwhile (`TerminalForGood`
  names them as the only ones that can). A paused director is no duplicate of its plan and cannot be stopped.
- A stop during a launch leaves a campaign without a director; two processes that
  step can start two campaigns of an entry, against
  `feature_workflows/FW-014_active-branch-truth-and-launch-hardening/00_summary.md:18`.
- An adoption does not look for an active campaign of the director (2343), a launch
  does: with several campaigns of an entry that belong to nobody, a caller that steps
  makes a director own more of them than it started. `LaunchesBounded` counts those
  it launched.
- Two directors can adopt one campaign, hence the hypothesis of `CompletedMeansFrozen`.
- A director may be `completed` while no campaign of it is: it read the freeze (1724),
  and a stop, a step or the failure handler that read the campaign before wrote another
  status by id afterwards (1203-1210). A campaign may run again in the same way after its
  director went on to the next entry. `thawed` and `late` name both in the properties.

Supervisor's queue:

- What the manager starts for the chosen entry is not its plan. It passes
  `plan_file_path` and no payload (1955-1960); `_resolve_director_plan` (2011-2025) then
  takes the built-in default plan, without opening the file, and the duplicate test
  compares that plan's identity. `configs/research_programs/default_broad_operability.json`
  says as much of its own entry (the runtime "still uses a built-in default
  broad-operability plan"); `tests/test_research_runtime.py:298`
  replaces `start_director` by a mock and sees the path only.
- So the program of the entry may stay active and the entry ready for ever, with the
  same plan run again and again: `ReadyIsServed` says that a run begins, not that the queue moves on.
- Two bootstraps, or one and an edit, can lose an entry of the runbook; a bootstrap
  of a family that has an entry moves it to the end.
- The governed start does not look at a retired *family*
  (`runbook_queue.py:205-211`; `feature_workflows/00_program_board.md:20` says that
  retired branches cannot be selected). `next_family_status` says `queued` for entries
  that are promoted or lack a definition; `research_families.py:242` cannot be reached.
- An exception in the auto-start ends the director process.

Catalog: two writers at once, or ids that commit out of order on PostgreSQL, leave an
artifact out under an up-to-date watermark, until the next artifact; a rebuild drops
the entries that commands registered. A report that was taken back by a late failure
is in the catalog, and in the history of its profile or not, as the exports fell
(4003-4027); a profile whose reports were all taken back keeps its old history file.
`HistoriesAreExact` says what is left.

Bridge: the Docker socket's timeout equals the grace of a stop, so a restart may be
answered by a 500 that is not counted; a crash of the bridge raises
`RemoteDisconnected`, which nobody catches, and the campaign's step is rolled back.

Paper trading: a program's record is stamped with the time of the reading, so stale
evidence passes as fresh; the candidate of the current campaign hides that a profile
was promoted, because its record overlays `promoted` with `False`; an acceptance
is lost when a runner writes back the state it read before.

Backtest: with `rebalance_threshold_bps` above zero, as in every shipped configuration,
a forced de-risking may trade nothing (`allocator.py:41`; `tests/test_backtest.py:73`
has zero); `DeRisked` says so. Orders are sized at the close and filled at the next open;
the snapshot of a day contains the trades of the next open at the day's closes; a position without a
bar counts as zero; the buffer fills the portfolio up to `top_n` plus its size; group-relative
ranking drops small groups with what is held in them; `min_holding_days` does not protect
names without a positive score; buys are limited by turnover, not by cash, which may become
negative (`OverdraftNeedsCause`); a turnover budget of zero blocks sells too.

Evaluation: the three places of the shortlist may go to candidates that break under
stress while a fourth would have survived (`NothingOverlooked` says so); the tranche gives
the reason `no_candidate_restored_walkforward_without_giving_back_holdout` when it has compared the best-ranked one only.

## 4. Proofs

All theorems are about the specifications TLC checks, for constants of any size.
Each is proved from an inductive invariant with one lemma or step per action.

`JobQueue_proofs`, from `QueueAssumption` (distinct null values, `MaxAttempts`
positive; jobs and workers need not be finite sets):

| Theorem | States |
|---|---|
| `TypeCorrect` | `[]TypeOK`, with `HoldingOK`: a process holds a job exactly in the labels where it should |
| `LeaseCorrect` | `[]LeaseMatchesStatus` |
| `LedgerCorrect` | `[]AttemptLedger`, `[]ReportClosesOwnAttempt` |
| `HolderCorrect` | `[]HolderHasNewestAttempt` |
| `BudgetCorrect` | `[]RetryBudget` |
| `ArtifactsCorrect` | `[]ArtifactsOfOneCompletedAttempt` |
| `FinalCorrect` | `FinalUnlessLate` |
| `QueueImplementsContract` | every behaviour of `JobQueue` is one of `JobContract` |

- `TypeOK /\ HoldingOK`. `LeaseMatchesStatus` is inductive under it: renewals only
  touch running jobs of their holder, and both the reports and the coordinator
  clear lease and holder with the status.
- `Ledger` carries `AttemptLedger` and `ReportClosesOwnAttempt` together: the row a
  process will close is open, is the newest of that worker and job, and its number
  is the one the process got with the lease. The second needs the first, because a
  new attempt is newest only if numbers never exceed `attempt_count`.
- `HolderHasNewestAttempt` needs the ledger: a straggler closes the row of its own
  attempt, and that is not the holder's unless it is the holder.
- `RetryBudget` is not inductive. `BudgetInv` adds what the coordinator has read: a
  row it will write back as queued had attempts left when it was read, and the
  count has grown by at most one lease since.
- The refinement uses all of them, and `GiveBackStarted`: what the coordinator
  writes back was started.

`Campaign_proofs`, from `CampaignAssumption` (a process is
manager, helper or operator; candidates and scenarios are finite and not empty):

| Theorem | States | Under |
|---|---|---|
| `CampaignTypeCorrect` | `[]TypeOK` | |
| `UndecidedCorrect` | `[]RunningUndecided` | |
| `PendingCorrect` | `[]PendingJobsSubmitted` | |
| `PlanFollowed` | `FollowsPlan`: every behaviour of `Campaign` is one of `CampaignPlan` | `Helper = {}`, `MaxStops = 0` |
| `BudgetOvershoot` | `[]OvershootBounded` | `Helper` is finite |
| `StrayJobsBounded` | `[]StrayJobsNeedFaults` | `Helper = {}`, `MaxStops = 0` |

- `RunningUndecided` is not inductive, because the error handler writes `running`
  together with a state it read earlier. `NoDecisionSeen` says that no process
  holds a copy with a decision: copies are taken of running campaigns only.
- `PendingJobsSubmitted` needs the same of the jobs a process has inserted and not
  yet recorded, and that no operation of the contract takes a job out of the queue.
- `PlanFollowed` maps status, phase and the recorded pivots. Its invariant `Alone`
  says that what a lone manager has read is what is in the table until it writes;
  that the pending stage was submitted for the phase the campaign is in; and that
  only a stress pack is on its way to a freeze. The two hypotheses are needed: a
  second process can undo a stop, and a phase with it.
- `BudgetOvershoot` counts the processes between the budget check and their INSERT:
  the submitted jobs plus one stage for each of them never exceed the bound. It
  needs that no report makes a job appear that was never submitted.
- `StrayJobsBounded` relates every abandoned job to what abandoned it. Its invariant
  counts the jobs that the campaign has lost (`Loose`) against the faults, each of
  which loses at most the one stage the manager had inserted and not recorded, and
  the late reports, each of which brings back one job. It needs `Alone`: a second
  stepper would abandon a stage without a fault.

`Director_proofs`, from
`DirectorAssumption` (the manager is no caller, `Nobody` no director):

| Theorem | States | Under |
|---|---|---|
| `DirectorTypeCorrect` | `[]TypeOK` | |
| `EndedForGood` | `TerminalForGood` | |
| `CompletedMeansFrozen` | `[]CompletedByFreeze` | one director, or no adoption |
| `LaunchesAccounted` | `[]Accounted` | |
| `ExhaustedAfterAll` | `[]ExhaustedTriedAll` | |
| `LaunchesStayBounded` | `[]LaunchesBounded` | |

- `EndedForGood` needs only what a process in each label may still write.
- `CompletedMeansFrozen` is about campaigns that other processes may take, end or
  overwrite between the read and the write: `OwnersInv` says that what a process, or a
  row, refers to is a campaign of that director, which no longer changes its owner;
  that a campaign froze stays on record, as its status or as `thawed`, whoever writes it.
- `LaunchesAccounted` and `ExhaustedAfterAll` share the invariant `Undisturbed`, which
  holds as long as no caller has acted and no end was overwritten (`Calm`). `Fits`
  relates queue, claim and campaigns of a director at rest, wherever the manager
  crashed before; `Progress` says what a manager in the middle of a
  launch knows of them. An entry that is `launching` without a claim
  or `running` without a campaign would break `ExhaustedTriedAll` many steps later: neither can
  come about from the manager and its crashes alone.

- `LaunchesStayBounded` charges every launch. `Counted` says that the active campaigns
  a director launched and the operations of callers that may still insert one
  (`Unspent`) are at most one more than the operations used, with one to spare when
  the manager is about to insert. A launch by the manager finds no active campaign of the
  director; one by a caller spends its operation; a late write that makes an ended
  campaign run again is charged to `late`. `Adoptables` says that what a process
  is about to adopt was launched by nobody, so that an adoption adds none.

`Supervision_proofs`, from `SupervisionAssumption`:

| Theorem | States |
|---|---|
| `RunbookStaysInOrder` | `[]TypeOK`: one entry of a plan, in the order of priorities |
| `EntriesAreDefined` | `[]EntryHasDefinition` |
| `BootstrapsKeepEntries` | `QueueKeepsEntries` |
| `StartsAreGoverned` | `StartIsGoverned` |

- `PlacesOfAnOrder` shows that in a strict total order of a finite set the places (one
  more than the number of elements before) are a bijection with 1 to its size. With
  it `SortedIsOrdered` and `SortedKeeps` say what sorting the runbook does.
- The order survives a bootstrap because the copy it read was a runbook (`ProcTypeOK`)
  and because it replaces the entry of its family or appends one.
- `DefInv`: what a bootstrap is about to write, in the copy it read and for its own family, is
  defined; plans and programs are never deleted. So two bootstraps that overwrite
  each other still leave only defined entries.
- `WritesAlone`: while `~collided`, what a bootstrap read is still the runbook.
- `SurveyHolds`, input by input: until one of the five is touched, what the manager
  derived from it is what it says now, though it read them one after another.
  `StartIsGoverned` follows part by part; that the entry is enabled and defined at the
  moment of the start needs no such premise.

`Catalog_proofs`, from `CatalogAssumption` (exporters, registrars and artifact ids
are distinct):

| Theorem | States |
|---|---|
| `UpToDateExact` | `[]UpToDateIsExact` |
| `FilesInAgreement` | `[]FilesAgree` |

- `CatalogInv` says that an exporter at work is ahead of the watermark, so the
  watermark can be that of the newest artifact only while nobody exports; that
  what it read is the table as long as its maximum is the newest; and which of
  the files it has written. Commits in order (`~inverted`) are newer than anything read.
- `HistoryWritten` says what an export leaves in the histories. It needs that every
  history belongs to a profile that has an artifact (`Profiled`), so that one whose
  reports all count is replaced. A late failure between that and the watermark only
  removes from `completed` (`LateFailureStep`); other steps change neither
  (`HistoriesKept`).

`OpsBridge_proofs`, from `OpsAssumption` (windows, limits and the cooldown are natural
numbers, a service has a container):

| Theorem | States |
|---|---|
| `RestartsStayBounded` | `[]RestartsBounded` |
| `OneRunInEveryCooldown` | `[]OneRunPerCooldown` |

- `RestartsAccounted`: what was restarted within any window and is not in the audit
  file is counted in `unaudited`, the restart at work apart. `CheckHolds`: what the check
  saw still holds when the first container is restarted, because the bridge serves one
  request at a time. `WindowsKept` is the bound itself, for windows of the future too.
- `RunsAccounted` does the same for runs: those of the last cooldown, and those that
  waiting requests may lead to, are known to the check or among the `slips`. `Attended`
  says which request a notifier waits for; `CooldownsKept` is the bound.

`PaperRehearsal_proofs`, from `PaperAssumption`:

| Theorem | States |
|---|---|
| `PortfolioCorrect` | `[]PortfolioWasAccepted` |
| `ActionsCorrect` | `[]ActionsFitDays` |
| `AcceptanceKept` | `[]LostAcceptNeedsOverlap` |

- The logs only grow, so what a process has read of the account stays covered by
  them (`Covered`), and what it writes back later was accepted once, however stale.
- `AcceptanceKept` needs that processes that take turns hold a copy equal to the
  state (`InTurn`), and that the newest entry of the log is the operator's own until
  it writes.

`Research_proofs` is about the two sequential algorithms, which share their lemmas on
sums and sorting. `Evaluation`, from `CandidatesAssumption` and `EvidenceAssumption`
(finitely many candidates, and what a report holds of a run):

| Theorem | States | Under |
|---|---|---|
| `OnlyOnEvidence` | `[]PutForwardOnEvidence` | `requireValidation`, `requireHoldout` |
| `NoneOverlooked` | `[]NothingOverlooked` | |

- The hypotheses are the defaults of `PromotionPolicyConfig` (`config.py:160-161`); a
  policy that switches one off promotes without that split, as it says.
- `AboveIsOrder` and `SortedLists`: keys of one length are in a total order, and sorting by them
  lists every candidate once, in that order. So whoever is ahead of an eligible
  candidate is eligible (`AheadOfEligible`), the shortlist holds every viable one or
  three that are ahead (`ShortlistHolds`), and the selection takes an eligible one
  that survived if there is any (`SelectTakes`).
- The invariant says that the stressed candidates are the first of the shortlist, each
  once (`Stressed`), and from what the decision was taken (`Decided`).

`Backtest`, from `InputsAssumption`, for any number of instruments and dates, any bars
that `validation.py` lets pass and any configurations in which nothing that is charged, capped or
filled is negative. `config.py` does not check that; every file under `configs/`
satisfies it, and with a negative cost or participation the properties are lost.

| Theorem | States |
|---|---|
| `AccountTyped` | `[]AccountType`: no position is ever short; the peak is positive and at least the last value |
| `BooksAlwaysBalance` | `[]BooksBalance` |
| `OverdraftsHaveCause` | `OverdraftNeedsCause` |
| `DrawdownsReduce` | `DeRisked` |
| `CapsHold` | `Capped` keeps no name above the maximum and never adds to the total |
| `BuysFitBudget` | `WithinBudget` buys no more of a name than wanted, and for no more than the budget |

- The loops are recursive functions. That such a function exists, and what every
  round keeps, needs induction over data; `Induct` gets it from the least number at
  which it would fail (`LeastNumber`), for a set of numbers instead of a predicate, and
  `RunsExist` makes a function of the rounds. `RunningSums` and `TotalInt` apply it to sums,
  `CapsHold`, `BuysFitBudget` and `OrdersFilled` to the rounds of capping, the buys of a day and its fills.
- `CapsHold` also shows that the loop of the code ends: each round but the last takes a
  name away, so that there are at most `Size` of them, and the model's `Size` rounds reach its result.
- The invariant is `AccountInv == AccountType /\ BooksBalance`, found to hold by TLC. `FillFits` is its
  core: one fill keeps `Balance` (cash and costs less profit, whatever the rounding of the average
  cost), moves one position, and without costs keeps `Worth`, the value at the open.
- A position never gets short because an order names what was held when it was sized:
  `Ordered` says that the orders of a day lead towards the targets and that none names an
  instrument twice, which needs that `Sorted` repeats nothing and that sales and buys
  are apart. `NoShorts` adds that a fill is no more than its order.
- `DrawdownsReduce` follows the four adjustments in order. `ExposureFits` bounds the exposure,
  `TargetsCost` says that at the open the targets cost no more than that share of the value, `OrdersFit`
  that a day with something to spend sells every name above its target, and `Reduced` that then no
  position ends above it. The hypothesis `Nav > 100` of the property is what keeps a budget of a
  few per cent from being rounded to nothing.
- `OverdraftsHaveCause` uses the same bound (`DayFits`): without a cause the value at the open is the one
  the targets come from (`OpenIsClose`), no fill changes it, and what is left after the positions is cash.

Model-checked only: the liveness properties `EveryJobSettles`, `CampaignEnds`,
`DirectorEnds`, `ReadyIsServed` and `CatalogCatchesUp`, which are out of the prover's reach under
fairness. What sorting, capping or selection computes for given data is checked by the
runs alone where no theorem above speaks of it (`Selected`, `GroupRanked`).

## 5. Not modelled

- The data pipeline (canonical data, features, universe), configuration, statistics and
  reports: conversions of files without state that outlives a call.
- The views of dashboard, research API and `active_branch.py`; what they write is in
  the modules as steps of callers and operators. The gateway extension only calls them.
- Status snapshots, heartbeat files (`OpsBridge` has their age), the hook command and the
  JSONL file of notifications.
- A second report of a job without artifacts after one with some.
- PostgreSQL beyond the overlapping commits of `Catalog`.
- Time as a quantity (lock waits, dispatches that hold a transaction for minutes):
  its effects are modelled, as crashes, ages and interleavings.

## 6. Plan

1. *(done)* Jobs, campaigns, directors, supervision, catalog, bridge, paper rehearsal,
   backtest, evaluation, and proofs about all of them.
2. The composition of `Director` and `Campaign` in one specification, with the stop of
   a director that stops its campaign.
