--------------------------- MODULE Campaign_proofs ---------------------------
(***************************************************************************)
(* Theorems about Campaign, for any number of processes that step the      *)
(* campaign, any candidates and scenarios, and any bounds: its types, that *)
(* it decides once, what its pending jobs are, how it implements the plan, *)
(* and last how far it may overshoot max_jobs.                             *)
(***************************************************************************)
EXTENDS Campaign, FiniteSetTheorems, TLAPS

Labels == {"idle", "read", "submit", "inserted", "rows", "commit",
           "raised", "handling", "stopping"}

-----------------------------------------------------------------------------
(* Type correctness.                                                        *)

\* The variables of the processes.
ProcTypeOK ==
  /\ pc \in [Process -> Labels]
  /\ seen \in [Process -> Row]
  /\ rows \in [Process -> SUBSET Job]
  /\ own \in [Process -> SUBSET Job]

JobTypeOK ==
  /\ jobStatus \in [Job -> Queue!Statuses]
  /\ attempts \in [Job -> Nat]

LEMMA TypeParts == TypeOK => ProcTypeOK /\ JobTypeOK
BY DEF TypeOK, ProcTypeOK, JobTypeOK, Labels

\* The row start_campaign inserts is a row.
LEMMA FreshRowTyped == FreshRow \in Row
BY DEF FreshRow, FreshState, NoStage, Row, State, Statuses, Phases, SearchPhases,
       RetryLimit

\* A process that has left knows nothing, and the others what they knew.
LEMMA LeaveTyped ==
  ASSUME ProcTypeOK, NEW p \in Process, Leave(p)
  PROVE  ProcTypeOK'
BY FreshRowTyped DEF ProcTypeOK, Leave, Goto, Labels

\* What an UPDATE writes is a row when its parts have their types.
LEMMA WriteTyped ==
  ASSUME NEW status \in Statuses, NEW phase \in Phases, NEW state \in State,
         Write(status, phase, state)
  PROVE  row' \in Row
BY DEF Write, Row

\* Closing a campaign keeps the rest of the state that was read.
LEMMA FinishTyped ==
  ASSUME TypeOK, NEW p \in Process, NEW status \in Statuses,
         NEW decision \in {"none", "stopped", "exhausted", "failed", "freeze", "continue"},
         Finish(p, status, decision)
  PROVE  row' \in Row
<1>1. seen[p].state \in State /\ row.phase \in Phases
  BY DEF TypeOK, Row
<1>2. NoStage \in [phase : Phases \cup {"none"}, jobs : SUBSET Job]
  BY DEF NoStage
<1>3. [seen[p].state EXCEPT !.final = decision, !.pending = NoStage] \in State
  BY <1>1, <1>2 DEF State
<1>4. QED
  BY <1>1, <1>3, WriteTyped DEF Finish

\* The operations of the queue keep the types of its columns.
LEMMA QueueTyped ==
  ASSUME JobTypeOK,
         \/ \E S \in SUBSET Job : Queue!Submit(S) \/ Queue!Cancel(S)
         \/ \E j \in Job : Queue!Start(j) \/ Queue!Complete(j)
         \/ \E R, F \in SUBSET Job : Queue!GiveBack(R, F)
  PROVE  JobTypeOK'
BY DEF JobTypeOK, Queue!Submit, Queue!Cancel, Queue!Start, Queue!Complete,
       Queue!GiveBack, Queue!Statuses

\* The jobs of a new stage are jobs.
LEMMA NextStageTyped ==
  ASSUME TypeOK, NEW p \in Process, stages < MaxStages
  PROVE  NextStage(p) \subseteq Job
<1>1. seen[p].state.shortlisted \subseteq Candidate
  BY DEF TypeOK, Row, State
<1>2. StageSlots(seen[p].phase, seen[p].state.shortlisted) \subseteq Slots
  BY <1>1 DEF StageSlots, Slots
<1>3. stages + 1 \in 1 .. MaxStages
  BY CampaignAssumption DEF TypeOK
<1>4. QED
  BY <1>2, <1>3 DEF NextStage, Job

LEMMA TypeInit == Init => TypeOK
<1> SUFFICES ASSUME Init PROVE TypeOK
  OBVIOUS
<1>1. MaxStages \in Nat /\ MaxFaults \in Nat /\ MaxLate \in Nat /\ MaxStops \in Nat
  BY CampaignAssumption
<1>2. JobTypeOK
  BY DEF Init, JobTypeOK, Queue!Init, Queue!Statuses
<1>3. ProcTypeOK
  BY FreshRowTyped DEF Init, ProcTypeOK, Labels
<1>4. /\ stages \in 0 .. MaxStages
      /\ faults \in 0 .. MaxFaults /\ late \in 0 .. MaxLate /\ stops \in 0 .. MaxStops
  BY <1>1 DEF Init
<1>5. row \in Row /\ expired \in BOOLEAN /\ announced \in BOOLEAN
      /\ writer \in Process \cup {Nobody}
  BY FreshRowTyped DEF Init
<1>6. QED
  BY <1>2, <1>3, <1>4, <1>5 DEF TypeOK, ProcTypeOK, JobTypeOK, Labels

\* The steps of step_campaign that end it: the process leaves, and the row is
\* whatever was written.
LEMMA LastStepTyped ==
  ASSUME TypeOK, NEW p \in Process, Leave(p), row' \in Row,
         UNCHANGED <<jobVars, stages, expired, announced, counters>>,
         writer' \in Process \cup {Nobody}
  PROVE  TypeOK'
<1>1. ProcTypeOK'
  BY LeaveTyped, TypeParts
<1>2. QED
  BY <1>1 DEF TypeOK, ProcTypeOK, Labels, jobVars, counters

\* A step of step_campaign keeps the types.
LEMMA StepTyped ==
  ASSUME TypeOK, NEW p \in Process, Step(p)
  PROVE  TypeOK'
<1> DEFINE st == seen[p].state
<1>0. /\ st \in State /\ row \in Row /\ seen[p].phase \in Phases
      /\ row.phase \in Phases /\ row.status \in Statuses
      /\ writer \in Process \cup {Nobody}
      /\ NoStage \in [phase : Phases \cup {"none"}, jobs : SUBSET Job]
  BY DEF TypeOK, Row, NoStage
<1>1. CASE Read(p)
  BY <1>1 DEF Read, Goto, TypeOK, jobVars, counters
<1>2. CASE Exhaust(p)
  <2>1. [st EXCEPT !.final = "exhausted"] \in State
    BY <1>0 DEF State
  <2>2. row' \in Row
    BY <1>0, <1>2, <2>1, WriteTyped DEF Exhaust, Statuses
  <2>3. QED
    BY <1>0, <1>2, <2>2, LastStepTyped DEF Exhaust
<1>3. CASE Wait(p)
  BY <1>0, <1>3, LastStepTyped DEF Wait
<1>4. CASE Collect(p)
  <2>1. {j \in st.pending.jobs : jobStatus[j] = "completed"} \subseteq Job
    BY <1>0 DEF State
  <2>2. QED
    BY <1>4, <2>1 DEF Collect, Goto, TypeOK, jobVars, counters
<1>5. CASE Build(p)
  BY <1>5 DEF Build, Goto, TypeOK, jobVars, counters
<1>6. CASE NoJobs(p)
  <2>1. [st EXCEPT !.final = "exhausted"] \in State
    BY <1>0 DEF State
  <2>2. row' \in Row
    BY <1>0, <1>6, <2>1, WriteTyped DEF NoJobs, Statuses
  <2>3. QED
    BY <1>0, <1>6, <2>2, LastStepTyped DEF NoJobs
<1>7. CASE Insert(p)
  <2>1. NextStage(p) \subseteq Job
    BY <1>7, NextStageTyped DEF Insert
  <2>2. JobTypeOK'
    BY <1>7, <2>1, QueueTyped, TypeParts DEF Insert
  <2>3. stages' \in 0 .. MaxStages
    BY <1>7, CampaignAssumption DEF Insert, TypeOK
  <2>4. QED
    BY <1>7, <2>1, <2>2, <2>3 DEF Insert, Goto, TypeOK, JobTypeOK, counters
<1>8. CASE Record(p)
  <2>1. own[p] \subseteq Job
    BY DEF TypeOK
  <2>2. [st EXCEPT !.pending = [phase |-> seen[p].phase, jobs |-> own[p]]] \in State
    BY <1>0, <2>1 DEF State
  <2>3. row' \in Row
    BY <1>0, <1>8, <2>2, WriteTyped DEF Record
  <2>4. QED
    BY <1>0, <1>8, <2>3, LastStepTyped DEF Record
<1>9. CASE ControlMissing(p)
  <2>1. row' \in Row
    BY <1>9, FinishTyped DEF ControlMissing, Statuses
  <2>2. QED
    BY <1>0, <1>9, <2>1, LastStepTyped DEF ControlMissing
<1>10. CASE ProcessSearch(p)
  <2> DEFINE done == {c \in Candidate : \E j \in rows[p] : j.slot = c}
             pool == st.pool \cup done
  <2>1. PICK viable \in BOOLEAN, success \in BOOLEAN :
          LET next == AfterSearch(StagePhase(p), viable, success) IN
          IF Exhausted(next)
          THEN Finish(p, "exhausted", "exhausted")
          ELSE \E short \in (IF next = "stress_pack" THEN SUBSET pool \ {{}}
                             ELSE {st.shortlisted}) :
                 Write(row.status, next,
                       [st EXCEPT !.control = TRUE, !.pool = pool, !.shortlisted = short,
                                  !.tried = @ \cup ({StagePhase(p)} \cap Pivots),
                                  !.pending = NoStage])
    BY <1>10 DEF ProcessSearch
  <2> DEFINE next == AfterSearch(StagePhase(p), viable, success)
  <2>2. next \in Phases \cup {"exhausted"}
    BY <1>10 DEF ProcessSearch, AfterSearch, Phases, SearchPhases
  <2>3. ASSUME Exhausted(next)  PROVE row' \in Row
    BY <2>1, <2>3, FinishTyped DEF Statuses
  <2>4. ASSUME ~Exhausted(next)  PROVE row' \in Row
    <3>1. pool \subseteq Candidate /\ st.shortlisted \subseteq Candidate
          /\ st.tried \subseteq Pivots
      BY <1>0 DEF State
    <3>2. PICK short \in SUBSET Candidate :
            Write(row.status, next,
                  [st EXCEPT !.control = TRUE, !.pool = pool, !.shortlisted = short,
                             !.tried = @ \cup ({StagePhase(p)} \cap Pivots),
                             !.pending = NoStage])
      BY <2>1, <2>4, <3>1
    <3>3. [st EXCEPT !.control = TRUE, !.pool = pool, !.shortlisted = short,
                     !.tried = @ \cup ({StagePhase(p)} \cap Pivots),
                     !.pending = NoStage] \in State
      BY <1>0, <3>1 DEF State
    <3>4. next \in Phases
      BY <2>2, <2>4 DEF Exhausted
    <3> HIDE DEF next, pool
    <3>5. QED
      BY <1>0, <3>2, <3>3, <3>4, WriteTyped
  <2>5. row' \in Row
    BY <2>3, <2>4
  <2>6. QED
    BY <1>0, <1>10, <2>5, LastStepTyped DEF ProcessSearch
<1>11. CASE Announce(p)
  BY <1>11 DEF Announce, Goto, TypeOK, jobVars, counters
<1>12. CASE Commit(p)
  <2>1. [st EXCEPT !.final = "freeze", !.pending = NoStage] \in State
    BY <1>0 DEF State
  <2>2. row' \in Row
    BY <1>0, <1>12, <2>1 DEF Commit, Row, Statuses
  <2>3. QED
    BY <1>12, <2>2, LastStepTyped DEF Commit
<1>13. CASE ProcessStress(p)
  <2> DEFINE next == NextPivot(st.tried)
  <2>1. next \in Phases \cup {"exhausted"}
    BY DEF NextPivot, Phases, SearchPhases
  <2>2. ASSUME Exhausted(next)  PROVE row' \in Row
    BY <1>13, <2>2, FinishTyped DEF ProcessStress, Statuses
  <2>3. ASSUME ~Exhausted(next)  PROVE row' \in Row
    <3>1. [st EXCEPT !.pending = NoStage] \in State
      BY <1>0 DEF State
    <3>2. next \in Phases
      BY <2>1, <2>3 DEF Exhausted
    <3>3. Write(row.status, next, [st EXCEPT !.pending = NoStage])
      BY <1>13, <2>3 DEF ProcessStress
    <3>4. QED
      BY <1>0, <3>1, <3>2, <3>3, WriteTyped
  <2>4. row' \in Row
    BY <2>2, <2>3
  <2>5. QED
    BY <1>0, <1>13, <2>4, LastStepTyped DEF ProcessStress
<1>14. QED
  BY <1>1, <1>2, <1>3, <1>4, <1>5, <1>6, <1>7, <1>8, <1>9, <1>10, <1>11, <1>12, <1>13
     DEF Step
\* The runtime error handler, crashes and the operator keep the types.
LEMMA FaultTyped ==
  ASSUME TypeOK,
         \/ Raise \/ HandlerReads \/ Retry \/ GiveUp
         \/ \E p \in Process : Crash(p)
         \/ StopReads \/ StopWrites
  PROVE  TypeOK'
<1>0. /\ Manager \in Process /\ Operator \in Process
      /\ row \in Row /\ row.phase \in Phases
      /\ \A p \in Process : seen[p].state \in State
      /\ writer \in Process \cup {Nobody}
      /\ faults \in Nat /\ stops \in Nat /\ MaxFaults \in Nat /\ MaxStops \in Nat
  BY CampaignAssumption DEF Process, Stepper, TypeOK, Row
<1>1. CASE Raise
  <2>1. faults' \in 0 .. MaxFaults
    BY <1>0, <1>1 DEF Raise
  <2>2. QED
    BY <1>0, <1>1, <2>1 DEF Raise, TypeOK, jobVars
<1>2. CASE HandlerReads
  <2>1. CASE row.status = "running"
    BY <1>0, <1>2, <2>1 DEF HandlerReads, Goto, TypeOK, jobVars, counters
  <2>2. CASE row.status # "running"
    BY <1>0, <1>2, <2>2, LastStepTyped DEF HandlerReads
  <2>3. QED
    BY <2>1, <2>2
<1>3. CASE Retry
  <2> DEFINE st == seen[Manager].state
  <2>1. st.retries + 1 \in 0 .. RetryLimit
    BY <1>0, <1>3 DEF Retry, State, RetryLimit
  <2>2. [st EXCEPT !.retries = @ + 1] \in State
    BY <1>0, <2>1 DEF State
  <2>3. row' \in Row
    BY <1>0, <1>3, <2>2, WriteTyped DEF Retry, Statuses
  <2>4. QED
    BY <1>0, <1>3, <2>3, LastStepTyped DEF Retry
<1>4. CASE GiveUp
  <2>1. row' \in Row
    BY <1>0, <1>4, FinishTyped DEF GiveUp, Statuses
  <2>2. QED
    BY <1>0, <1>4, <2>1, LastStepTyped DEF GiveUp
<1>5. ASSUME NEW p \in Process, Crash(p)  PROVE TypeOK'
  <2>1. faults' \in 0 .. MaxFaults
    BY <1>0, <1>5 DEF Crash
  <2>2. ProcTypeOK'
    BY <1>5, LeaveTyped, TypeParts DEF Crash
  <2>3. writer' \in Process \cup {Nobody}
    BY <1>0, <1>5 DEF Crash
  <2>4. QED
    BY <1>5, <2>1, <2>2, <2>3 DEF Crash, TypeOK, ProcTypeOK, Labels, jobVars
<1>6. CASE StopReads
  <2>1. stops' \in 0 .. MaxStops
    BY <1>0, <1>6 DEF StopReads
  <2>2. QED
    BY <1>0, <1>6, <2>1 DEF StopReads, Goto, TypeOK, jobVars
<1>7. CASE StopWrites
  <2>1. JobTypeOK'
    <3>1. \E S \in SUBSET Job : Queue!Cancel(S)
      <4>1. {j \in Job : jobStatus[j] = "queued"} \in SUBSET Job /\ {} \in SUBSET Job
        OBVIOUS
      <4>2. QED
        BY <1>7, <4>1 DEF StopWrites
    <3>2. QED
      BY <3>1, QueueTyped, TypeParts
  <2>2. row' \in Row
    BY <1>0, <1>7, FinishTyped DEF StopWrites, Statuses
  <2>3. ProcTypeOK'
    BY <1>0, <1>7, LeaveTyped, TypeParts DEF StopWrites
  <2>4. QED
    BY <1>7, <2>1, <2>2, <2>3
       DEF StopWrites, TypeOK, ProcTypeOK, JobTypeOK, Labels, counters
<1>8. QED
  BY <1>1, <1>2, <1>3, <1>4, <1>5, <1>6, <1>7

\* What happens to the jobs without the campaign.
JobMoves(j) == JobStep(j) \/ JobLate(j)

LEMMA JobMovesByContract ==
  ASSUME NEW j \in Job, JobMoves(j)
  PROVE  \/ Queue!Start(j) \/ Queue!Complete(j)
         \/ \E R, F \in SUBSET Job : Queue!GiveBack(R, F)
<1>1. {j} \in SUBSET Job /\ {} \in SUBSET Job
  OBVIOUS
<1>2. QED
  BY <1>1 DEF JobMoves, JobStep, JobStarts, JobSettles, JobLate

LEMMA JobMovesFrame ==
  ASSUME TypeOK, NEW j \in Job, JobMoves(j)
  PROVE  /\ UNCHANGED <<row, stages, expired, procVars, writer, announced, faults, stops>>
         /\ late' \in 0 .. MaxLate
<1>1. MaxLate \in Nat /\ late \in 0 .. MaxLate
  BY CampaignAssumption DEF TypeOK
<1>2. QED
  BY <1>1 DEF JobMoves, JobStep, JobStarts, JobSettles, JobLate, counters

LEMMA JobMovesTyped ==
  ASSUME TypeOK, NEW j \in Job, JobMoves(j)
  PROVE  TypeOK'
<1>1. JobTypeOK'
  BY JobMovesByContract, QueueTyped, TypeParts
<1>2. QED
  BY <1>1, JobMovesFrame DEF TypeOK, JobTypeOK, procVars

\* Every step is one of these.
LEMMA NextCases ==
  ASSUME [Next]_vars
  PROVE  \/ \E p \in Stepper : Step(p)
         \/ Raise \/ HandlerReads \/ Retry \/ GiveUp
         \/ \E p \in Process : Crash(p)
         \/ StopReads \/ StopWrites
         \/ \E j \in Job : JobMoves(j)
         \/ TimePasses
         \/ UNCHANGED vars
<1>1. Manager \in Stepper /\ Helper \subseteq Stepper
  BY DEF Stepper
<1>2. QED
  BY <1>1 DEF Next, ManagerStep, JobMoves

LEMMA SteppersAreProcesses == Stepper \subseteq Process
BY DEF Process

LEMMA TypeStep == TypeOK /\ [Next]_vars => TypeOK'
<1> SUFFICES ASSUME TypeOK, [Next]_vars PROVE TypeOK'
  OBVIOUS
<1>1. CASE TimePasses
  BY <1>1 DEF TimePasses, TypeOK, jobVars, procVars, counters
<1>2. CASE UNCHANGED vars
  BY <1>2 DEF vars, TypeOK, jobVars, procVars, counters
<1>3. QED
  BY <1>1, <1>2, NextCases, SteppersAreProcesses, StepTyped, FaultTyped, JobMovesTyped

\* Every variable of a campaign keeps its type.
THEOREM CampaignTypeCorrect == Spec => []TypeOK
BY TypeInit, TypeStep, PTL DEF Spec

-----------------------------------------------------------------------------
(* A campaign that runs is undecided.                                       *)

\* Nor has any process read a row with a decision: it reads running ones only.
NoDecisionSeen == \A p \in Process : seen[p].state.final = "none"

Undecided == RunningUndecided /\ NoDecisionSeen

LEMMA LeaveForgets ==
  ASSUME ProcTypeOK, NoDecisionSeen, NEW p \in Process, Leave(p)
  PROVE  NoDecisionSeen'
BY DEF ProcTypeOK, NoDecisionSeen, Leave, FreshRow, FreshState

\* A decision is written together with a status that is not running.
LEMMA FinishDecides ==
  ASSUME NEW p \in Process, NEW status, status # "running", NEW decision,
         Finish(p, status, decision)
  PROVE  RunningUndecided'
BY DEF Finish, Write, RunningUndecided

LEMMA WriteUndecided ==
  ASSUME NEW status, NEW phase, NEW state, state.final = "none",
         Write(status, phase, state)
  PROVE  RunningUndecided'
BY DEF Write, RunningUndecided

LEMMA StepUndecided ==
  ASSUME TypeOK, Undecided, NEW p \in Process, Step(p)
  PROVE  Undecided'
<1> DEFINE st == seen[p].state
<1>0. /\ st \in State /\ st.final = "none" /\ ProcTypeOK
      /\ RunningUndecided /\ NoDecisionSeen
  BY TypeParts DEF TypeOK, Row, Undecided, NoDecisionSeen
<1>1. CASE Read(p)
  BY <1>0, <1>1 DEF Read, Undecided, RunningUndecided, NoDecisionSeen, ProcTypeOK
<1>2. CASE Wait(p)
  BY <1>0, <1>2, LeaveForgets DEF Wait, Undecided, RunningUndecided
<1>3. CASE Collect(p) \/ Build(p) \/ Insert(p) \/ Announce(p)
  BY <1>0, <1>3
     DEF Collect, Build, Insert, Announce, Undecided, RunningUndecided, NoDecisionSeen
<1>4. CASE Exhaust(p) \/ NoJobs(p)
  BY <1>0, <1>4, LeaveForgets DEF Exhaust, NoJobs, Write, Undecided, RunningUndecided
<1>5. CASE Record(p)
  <2>1. [st EXCEPT !.pending = [phase |-> seen[p].phase, jobs |-> own[p]]].final = "none"
    BY <1>0 DEF State
  <2>2. QED
    BY <1>0, <1>5, <2>1, LeaveForgets, WriteUndecided DEF Record, Undecided
<1>6. CASE ControlMissing(p)
  BY <1>0, <1>6, LeaveForgets, FinishDecides DEF ControlMissing, Undecided
<1>7. CASE ProcessSearch(p)
  <2>1. \/ Finish(p, "exhausted", "exhausted")
        \/ \E phase, pool, short, tried :
             Write(row.status, phase,
                   [st EXCEPT !.control = TRUE, !.pool = pool, !.shortlisted = short,
                              !.tried = tried, !.pending = NoStage])
    BY <1>7 DEF ProcessSearch
  <2>2. RunningUndecided'
    <3>1. CASE Finish(p, "exhausted", "exhausted")
      BY <3>1, FinishDecides
    <3>2. ASSUME NEW phase, NEW pool, NEW short, NEW tried,
                 Write(row.status, phase,
                   [st EXCEPT !.control = TRUE, !.pool = pool, !.shortlisted = short,
                              !.tried = tried, !.pending = NoStage])
          PROVE  RunningUndecided'
      <4>1. [st EXCEPT !.control = TRUE, !.pool = pool, !.shortlisted = short,
                       !.tried = tried, !.pending = NoStage].final = "none"
        BY <1>0 DEF State
      <4>2. QED
        BY <3>2, <4>1, WriteUndecided
    <3>3. QED
      BY <2>1, <3>1, <3>2
  <2>3. QED
    BY <1>0, <1>7, <2>2, LeaveForgets DEF ProcessSearch, Undecided
<1>8. CASE Commit(p)
  <2>1. row'.status # "running"
    BY <1>8 DEF Commit, TypeOK, Row
  <2>2. QED
    BY <1>0, <1>8, <2>1, LeaveForgets DEF Commit, Undecided, RunningUndecided
<1>9. CASE ProcessStress(p)
  <2>1. [st EXCEPT !.pending = NoStage].final = "none"
    BY <1>0 DEF State
  <2>2. RunningUndecided'
    BY <1>9, <2>1, FinishDecides, WriteUndecided DEF ProcessStress
  <2>3. QED
    BY <1>0, <1>9, <2>2, LeaveForgets DEF ProcessStress, Undecided
<1>10. QED
  BY <1>1, <1>2, <1>3, <1>4, <1>5, <1>6, <1>7, <1>8, <1>9 DEF Step

LEMMA FaultUndecided ==
  ASSUME TypeOK, Undecided,
         \/ Raise \/ HandlerReads \/ Retry \/ GiveUp
         \/ \E p \in Process : Crash(p)
         \/ StopReads \/ StopWrites
  PROVE  Undecided'
<1>0. /\ Manager \in Process /\ Operator \in Process /\ ProcTypeOK
      /\ \A p \in Process : seen[p].state \in State /\ seen[p].state.final = "none"
      /\ RunningUndecided /\ NoDecisionSeen
  BY TypeParts DEF Process, Stepper, TypeOK, Row, Undecided, NoDecisionSeen
<1>1. CASE Raise
  BY <1>0, <1>1 DEF Raise, Undecided, RunningUndecided, NoDecisionSeen
<1>2. CASE HandlerReads
  <2>1. CASE row.status = "running"
    BY <1>0, <1>2, <2>1
       DEF HandlerReads, Undecided, RunningUndecided, NoDecisionSeen, ProcTypeOK
  <2>2. CASE row.status # "running"
    BY <1>0, <1>2, <2>2, LeaveForgets DEF HandlerReads, Undecided, RunningUndecided
  <2>3. QED
    BY <2>1, <2>2
<1>3. CASE Retry
  <2>1. [seen[Manager].state EXCEPT !.retries = @ + 1].final = "none"
    BY <1>0 DEF State
  <2>2. QED
    BY <1>0, <1>3, <2>1, LeaveForgets, WriteUndecided DEF Retry, Undecided
<1>4. CASE GiveUp
  BY <1>0, <1>4, LeaveForgets, FinishDecides DEF GiveUp, Undecided
<1>5. ASSUME NEW p \in Process, Crash(p)  PROVE Undecided'
  BY <1>0, <1>5, LeaveForgets DEF Crash, Undecided, RunningUndecided
<1>6. CASE StopReads
  BY <1>0, <1>6 DEF StopReads, Undecided, RunningUndecided, NoDecisionSeen, ProcTypeOK
<1>7. CASE StopWrites
  BY <1>0, <1>7, LeaveForgets, FinishDecides DEF StopWrites, Undecided
<1>8. QED
  BY <1>1, <1>2, <1>3, <1>4, <1>5, <1>6, <1>7

LEMMA UndecidedStep == TypeOK /\ Undecided /\ [Next]_vars => Undecided'
<1> SUFFICES ASSUME TypeOK, Undecided, [Next]_vars PROVE Undecided'
  OBVIOUS
<1>1. CASE UNCHANGED <<row, seen>>
  BY <1>1 DEF Undecided, RunningUndecided, NoDecisionSeen
<1>2. CASE TimePasses \/ UNCHANGED vars
  BY <1>1, <1>2 DEF TimePasses, vars, procVars
<1>3. ASSUME NEW j \in Job, JobMoves(j)  PROVE Undecided'
  BY <1>1, <1>3, JobMovesFrame DEF procVars
<1>4. QED
  BY <1>2, <1>3, NextCases, SteppersAreProcesses, StepUndecided, FaultUndecided

LEMMA UndecidedInit == Init => Undecided
BY DEF Init, Undecided, RunningUndecided, NoDecisionSeen, FreshRow, FreshState

\* However many processes step, fail and stop a campaign, it never runs with a
\* final decision in its state.
THEOREM UndecidedCorrect == Spec => []RunningUndecided
<1>1. Undecided => RunningUndecided
  BY DEF Undecided
<1>2. QED
  BY <1>1, UndecidedInit, UndecidedStep, CampaignTypeCorrect, PTL DEF Spec

-----------------------------------------------------------------------------
(* The jobs of a pending stage are in the queue.                            *)

\* So are the jobs a process has inserted and is about to record.
OwnJobsSubmitted == \A p \in Process : own[p] \subseteq Submitted

PendingInv == PendingJobsSubmitted /\ OwnJobsSubmitted

\* A row of jobs is never deleted.
LEMMA SubmittedStays ==
  ASSUME JobTypeOK,
         \/ \E S \in SUBSET Job : Queue!Submit(S) \/ Queue!Cancel(S)
         \/ \E j \in Job : Queue!Start(j) \/ Queue!Complete(j)
         \/ \E R, F \in SUBSET Job : Queue!GiveBack(R, F)
  PROVE  Submitted \subseteq Submitted'
BY DEF JobTypeOK, Submitted, Queue!Submit, Queue!Cancel, Queue!Start,
       Queue!Complete, Queue!GiveBack

LEMMA InsertSubmits ==
  ASSUME NEW S \in SUBSET Job, Queue!Submit(S)
  PROVE  S \subseteq Submitted'
BY DEF Queue!Submit, Submitted

\* Steps that change the queue alone keep what is known to be in it.
LEMMA QueueKeepsPending ==
  ASSUME PendingInv, Submitted \subseteq Submitted', UNCHANGED <<row, seen, own>>
  PROVE  PendingInv'
BY DEF PendingInv, PendingJobsSubmitted, OwnJobsSubmitted

\* A step that ends by leaving writes a stage that is known, or none.
LEMMA LastStepPending ==
  ASSUME TypeOK, PendingInv, NEW p \in Process, Leave(p),
         Submitted \subseteq Submitted',
         row'.state.pending.jobs \subseteq Submitted
  PROVE  PendingInv'
<1>1. FreshRow.state.pending.jobs = {}
  BY DEF FreshRow, FreshState, NoStage
<1>2. \A q \in Process : seen'[q] = (IF q = p THEN FreshRow ELSE seen[q])
  BY DEF TypeOK, Leave
<1>3. \A q \in Process : own'[q] = (IF q = p THEN {} ELSE own[q])
  BY DEF TypeOK, Leave
<1>4. QED
  BY <1>1, <1>2, <1>3 DEF PendingInv, PendingJobsSubmitted, OwnJobsSubmitted

\* What Finish writes has no pending stage.
LEMMA FinishClears ==
  ASSUME TypeOK, NEW p \in Process, NEW status, NEW decision,
         Finish(p, status, decision)
  PROVE  row'.state.pending.jobs = {}
<1>1. seen[p].state \in State
  BY DEF TypeOK, Row
<1>2. QED
  BY <1>1 DEF Finish, Write, State, NoStage

LEMMA StepPending ==
  ASSUME TypeOK, PendingInv, NEW p \in Process, Step(p)
  PROVE  PendingInv'
<1> DEFINE st == seen[p].state
<1>0. /\ st \in State /\ st.pending.jobs \subseteq Submitted
      /\ row.state.pending.jobs \subseteq Submitted /\ own[p] \subseteq Submitted
  BY DEF TypeOK, Row, PendingInv, PendingJobsSubmitted, OwnJobsSubmitted
<1>a. ASSUME UNCHANGED jobVars  PROVE Submitted' = Submitted
  BY <1>a DEF jobVars, Submitted
<1>1. CASE Read(p)
  BY <1>0, <1>1, <1>a
     DEF Read, TypeOK, PendingInv, PendingJobsSubmitted, OwnJobsSubmitted
<1>2. CASE Collect(p) \/ Build(p) \/ Announce(p)
  BY <1>2, <1>a, QueueKeepsPending DEF Collect, Build, Announce
<1>3. CASE Insert(p)
  <2>1. NextStage(p) \in SUBSET Job /\ Queue!Submit(NextStage(p))
    BY <1>3, NextStageTyped DEF Insert
  <2>2. Submitted \subseteq Submitted'
    BY <2>1, SubmittedStays, TypeParts
  <2>3. NextStage(p) \subseteq Submitted'
    BY <2>1, InsertSubmits
  <2>4. own' = [own EXCEPT ![p] = NextStage(p)] /\ UNCHANGED <<row, seen>>
    BY <1>3 DEF Insert
  <2> HIDE DEF st
  <2>5. QED
    BY <2>2, <2>3, <2>4
       DEF TypeOK, PendingInv, PendingJobsSubmitted, OwnJobsSubmitted
<1>4. CASE Wait(p)
  BY <1>0, <1>4, <1>a, LastStepPending DEF Wait
<1>5. CASE Exhaust(p) \/ NoJobs(p)
  <2>1. row'.state.pending.jobs = st.pending.jobs
    BY <1>0, <1>5 DEF Exhaust, NoJobs, Write, State
  <2>2. QED
    BY <1>0, <1>5, <1>a, <2>1, LastStepPending DEF Exhaust, NoJobs
<1>6. CASE Record(p)
  <2>1. row'.state.pending.jobs = own[p]
    BY <1>0, <1>6 DEF Record, Write, State
  <2>2. QED
    BY <1>0, <1>6, <1>a, <2>1, LastStepPending DEF Record
<1>7. CASE ControlMissing(p)
  BY <1>7, <1>a, FinishClears, LastStepPending DEF ControlMissing
<1>8. CASE ProcessSearch(p)
  <2>1. \/ Finish(p, "exhausted", "exhausted")
        \/ \E phase, pool, short, tried :
             Write(row.status, phase,
                   [st EXCEPT !.control = TRUE, !.pool = pool, !.shortlisted = short,
                              !.tried = tried, !.pending = NoStage])
    BY <1>8 DEF ProcessSearch
  <2>2. row'.state.pending.jobs = {}
    <3>1. ASSUME NEW phase, NEW pool, NEW short, NEW tried,
                 Write(row.status, phase,
                   [st EXCEPT !.control = TRUE, !.pool = pool, !.shortlisted = short,
                              !.tried = tried, !.pending = NoStage])
          PROVE  row'.state.pending.jobs = {}
      BY <1>0, <3>1 DEF Write, State, NoStage
    <3>2. QED
      BY <2>1, <3>1, FinishClears
  <2>3. QED
    BY <1>8, <1>a, <2>2, LastStepPending DEF ProcessSearch
<1>9. CASE Commit(p)
  <2>1. row'.state.pending.jobs = {}
    BY <1>0, <1>9 DEF Commit, TypeOK, Row, State, NoStage
  <2>2. QED
    BY <1>9, <1>a, <2>1, LastStepPending DEF Commit
<1>10. CASE ProcessStress(p)
  <2>1. row'.state.pending.jobs = {}
    <3>1. CASE Exhausted(NextPivot(st.tried))
      BY <1>10, <3>1, FinishClears DEF ProcessStress
    <3>2. CASE ~Exhausted(NextPivot(st.tried))
      BY <1>0, <1>10, <3>2 DEF ProcessStress, Write, State, NoStage
    <3>3. QED
      BY <3>1, <3>2
  <2>2. QED
    BY <1>10, <1>a, <2>1, LastStepPending DEF ProcessStress
<1>11. QED
  BY <1>1, <1>2, <1>3, <1>4, <1>5, <1>6, <1>7, <1>8, <1>9, <1>10 DEF Step

LEMMA FaultPending ==
  ASSUME TypeOK, PendingInv,
         \/ Raise \/ HandlerReads \/ Retry \/ GiveUp
         \/ \E p \in Process : Crash(p)
         \/ StopReads \/ StopWrites
  PROVE  PendingInv'
<1>0. /\ Manager \in Process /\ Operator \in Process
      /\ row.state.pending.jobs \subseteq Submitted
      /\ \A p \in Process : /\ seen[p].state \in State
                            /\ seen[p].state.pending.jobs \subseteq Submitted
  BY DEF Process, Stepper, TypeOK, Row, PendingInv, PendingJobsSubmitted
<1>a. ASSUME UNCHANGED jobVars  PROVE Submitted' = Submitted
  BY <1>a DEF jobVars, Submitted
<1>1. CASE Raise
  <2>1. \A q \in Process : own'[q] = (IF q = Manager THEN {} ELSE own[q])
    BY <1>1 DEF Raise, TypeOK
  <2>2. UNCHANGED <<row, seen>> /\ Submitted' = Submitted
    BY <1>1, <1>a DEF Raise
  <2>3. QED
    BY <2>1, <2>2 DEF PendingInv, PendingJobsSubmitted, OwnJobsSubmitted
<1>2. CASE HandlerReads
  <2>1. CASE row.status = "running"
    BY <1>0, <1>2, <1>a, <2>1
       DEF HandlerReads, TypeOK, PendingInv, PendingJobsSubmitted, OwnJobsSubmitted
  <2>2. CASE row.status # "running"
    BY <1>0, <1>2, <1>a, <2>2, LastStepPending DEF HandlerReads
  <2>3. QED
    BY <2>1, <2>2
<1>3. CASE Retry
  <2>1. row'.state.pending.jobs = seen[Manager].state.pending.jobs
    BY <1>0, <1>3 DEF Retry, Write, State
  <2>2. QED
    BY <1>0, <1>3, <1>a, <2>1, LastStepPending DEF Retry
<1>4. CASE GiveUp
  BY <1>0, <1>4, <1>a, FinishClears, LastStepPending DEF GiveUp
<1>5. ASSUME NEW p \in Process, Crash(p)  PROVE PendingInv'
  BY <1>0, <1>5, <1>a, LastStepPending DEF Crash
<1>6. CASE StopReads
  BY <1>0, <1>6, <1>a
     DEF StopReads, TypeOK, PendingInv, PendingJobsSubmitted, OwnJobsSubmitted
<1>7. CASE StopWrites
  <2>1. \E S \in SUBSET Job : Queue!Cancel(S)
    <3>1. {j \in Job : jobStatus[j] = "queued"} \in SUBSET Job /\ {} \in SUBSET Job
      OBVIOUS
    <3>2. QED
      BY <1>7, <3>1 DEF StopWrites
  <2>2. Submitted \subseteq Submitted'
    BY <2>1, SubmittedStays, TypeParts
  <2>3. row'.state.pending.jobs = {}
    BY <1>0, <1>7, FinishClears DEF StopWrites
  <2>4. QED
    BY <1>0, <1>7, <2>2, <2>3, LastStepPending DEF StopWrites
<1>8. QED
  BY <1>1, <1>2, <1>3, <1>4, <1>5, <1>6, <1>7

LEMMA PendingStep == TypeOK /\ PendingInv /\ [Next]_vars => PendingInv'
<1> SUFFICES ASSUME TypeOK, PendingInv, [Next]_vars PROVE PendingInv'
  OBVIOUS
<1>1. CASE TimePasses \/ UNCHANGED vars
  <2>1. UNCHANGED <<row, seen, own, jobStatus>>
    BY <1>1 DEF TimePasses, vars, procVars, jobVars
  <2>2. QED
    BY <2>1, QueueKeepsPending DEF Submitted
<1>2. ASSUME NEW j \in Job, JobMoves(j)  PROVE PendingInv'
  <2>1. Submitted \subseteq Submitted'
    BY <1>2, JobMovesByContract, SubmittedStays, TypeParts
  <2>2. QED
    BY <1>2, <2>1, JobMovesFrame, QueueKeepsPending DEF procVars
<1>3. QED
  BY <1>1, <1>2, NextCases, SteppersAreProcesses, StepPending, FaultPending

LEMMA PendingInit == Init => PendingInv
BY DEF Init, PendingInv, PendingJobsSubmitted, OwnJobsSubmitted, FreshRow, FreshState,
       NoStage

\* step_campaign never waits for, and never takes the results of, a job that is
\* not in the queue, whatever process recorded the stage and whoever crashed.
THEOREM PendingCorrect == Spec => []PendingJobsSubmitted
<1>1. PendingInv => PendingJobsSubmitted
  BY DEF PendingInv
<1>2. QED
  BY <1>1, PendingInit, PendingStep, CampaignTypeCorrect, PTL DEF Spec

-----------------------------------------------------------------------------
(* A campaign that one manager advances follows the plan.                   *)

\* What the manager has read is what is in the table until it writes; a stage
\* was submitted for the phase the campaign is in; and only the results of a
\* stress pack are frozen.
InStep == {"read", "submit", "inserted", "rows", "commit", "handling"}

Alone ==
  /\ pc[Operator] = "idle"
  /\ pc[Manager] \in InStep => seen[Manager] = row /\ row.status = "running"
  /\ row.state.pending.jobs # {} => row.state.pending.phase = row.phase
  /\ pc[Manager] \in {"rows", "commit"} => row.state.pending.jobs # {}
  /\ pc[Manager] = "commit" => row.state.pending.phase = "stress_pack"

\* Nobody else takes a step.
LEMMA AloneCases ==
  ASSUME Helper = {}, MaxStops = 0, TypeOK, Alone, [Next]_vars
  PROVE  \/ Step(Manager)
         \/ Raise \/ HandlerReads \/ Retry \/ GiveUp
         \/ Crash(Manager)
         \/ UNCHANGED <<row, pc, seen>>
<1>1. Process = {Manager, Operator} /\ Manager # Operator
  BY CampaignAssumption DEF Process, Stepper
<1>2. stops \in 0 .. 0
  BY DEF TypeOK
<1>3. ~StopReads /\ ~StopWrites /\ ~Crash(Operator)
  BY <1>2 DEF StopReads, StopWrites, Crash, Alone
<1>4. ASSUME NEW j \in Job, JobMoves(j)  PROVE UNCHANGED <<row, pc, seen>>
  BY <1>4, JobMovesFrame DEF procVars
<1>5. TimePasses \/ UNCHANGED vars => UNCHANGED <<row, pc, seen>>
  BY DEF TimePasses, vars, procVars
<1>6. QED
  BY <1>1, <1>3, <1>4, <1>5 DEF Next, ManagerStep, JobMoves

\* After leaving, only what was written into the row matters.
LEMMA AloneAfterLeaving ==
  ASSUME TypeOK, Alone, Leave(Manager),
         row'.state.pending.jobs # {} => row'.state.pending.phase = row'.phase
  PROVE  Alone'
<1>1. Manager \in Process /\ Operator \in Process /\ Manager # Operator
  BY CampaignAssumption DEF Process, Stepper
<1>2. pc'[Manager] = "idle" /\ pc'[Operator] = "idle"
  BY <1>1 DEF Leave, Goto, TypeOK, Alone
<1>3. QED
  BY <1>2 DEF Alone, InStep

\* The plan's variables.
Planned(status, phase, tried) ==
  row'.status = status /\ row'.phase = phase /\ row'.state.tried = tried

LEMMA PlanStutter ==
  ASSUME Planned(row.status, row.phase, row.state.tried)
  PROVE  [Plan!Next]_(Plan!vars)
BY DEF Planned, Plan!vars

LEMMA PlanEnds ==
  ASSUME row.status = "running", NEW outcome \in {"exhausted", "failed"},
         Planned(outcome, row.phase, row.state.tried)
  PROVE  [Plan!Next]_(Plan!vars)
BY DEF Planned, Plan!Next, Plan!Exhaust, Plan!Fail, Plan!End

LEMMA FinishEnds ==
  ASSUME TypeOK, Alone, pc[Manager] \in InStep, Leave(Manager),
         NEW outcome \in {"exhausted", "failed"}, NEW decision,
         Finish(Manager, outcome, decision)
  PROVE  Alone' /\ [Plan!Next]_(Plan!vars)
<1>1. seen[Manager] = row /\ row.status = "running" /\ row.state \in State
  BY DEF Alone, TypeOK, Row
<1>2. Planned(outcome, row.phase, row.state.tried) /\ row'.state.pending.jobs = {}
  BY <1>1 DEF Finish, Write, Planned, State, NoStage
<1>3. QED
  BY <1>1, <1>2, AloneAfterLeaving, PlanEnds

LEMMA StepFollowsPlan ==
  ASSUME TypeOK, Alone, Step(Manager)
  PROVE  Alone' /\ [Plan!Next]_(Plan!vars)
<1> DEFINE st == seen[Manager].state
<1>0. /\ Manager \in Process /\ Operator \in Process /\ Manager # Operator
      /\ row.state \in State /\ row.phase \in Phases /\ pc \in [Process -> Labels]
      /\ row \in Row
  BY CampaignAssumption DEF Process, Stepper, TypeOK, Row, Labels
<1>a. ASSUME pc[Manager] \in InStep
      PROVE  st = row.state /\ seen[Manager] = row /\ row.status = "running"
  BY <1>a DEF Alone
<1>b. ASSUME UNCHANGED row  PROVE [Plan!Next]_(Plan!vars)
  BY <1>b, PlanStutter DEF Planned
<1>1. CASE Read(Manager)
  BY <1>0, <1>1, <1>b DEF Read, Goto, TypeOK, Alone, InStep
<1>2. CASE Exhaust(Manager) \/ NoJobs(Manager)
  <2>1. st = row.state /\ seen[Manager] = row /\ row.status = "running" /\ Leave(Manager)
    BY <1>2, <1>a DEF Exhaust, NoJobs, InStep
  <2>2. /\ Planned("exhausted", row.phase, row.state.tried)
        /\ row'.state.pending = row.state.pending
    BY <1>0, <1>2, <2>1 DEF Exhaust, NoJobs, Write, Planned, State
  <2>3. Alone'
    BY <2>1, <2>2, AloneAfterLeaving DEF Alone, Planned
  <2>4. QED
    BY <2>1, <2>2, <2>3, PlanEnds
<1>3. CASE Wait(Manager)
  <2>1. Alone'
    BY <1>3, AloneAfterLeaving DEF Wait, Alone
  <2>2. QED
    BY <1>3, <1>b, <2>1 DEF Wait
<1>4. CASE Collect(Manager)
  BY <1>0, <1>4, <1>a, <1>b DEF Collect, Goto, Alone, InStep
<1>5. CASE Build(Manager) \/ Insert(Manager)
  BY <1>0, <1>5, <1>b DEF Build, Insert, Goto, Alone, InStep
<1>6. CASE Record(Manager)
  <2>1. st = row.state /\ seen[Manager] = row /\ Leave(Manager)
    BY <1>6, <1>a DEF Record, InStep
  <2>2. /\ Planned(row.status, row.phase, row.state.tried)
        /\ row'.state.pending.phase = row'.phase
    BY <1>0, <1>6, <2>1 DEF Record, Write, Planned, State
  <2>3. QED
    BY <2>1, <2>2, AloneAfterLeaving, PlanStutter
<1>7. CASE ControlMissing(Manager)
  BY <1>7, FinishEnds DEF ControlMissing, InStep
<1>8. CASE ProcessSearch(Manager)
  <2>1. /\ st = row.state /\ seen[Manager] = row /\ row.status = "running"
        /\ Leave(Manager) /\ pc[Manager] = "rows"
    BY <1>8, <1>a DEF ProcessSearch, InStep
  <2>2. row.phase = StagePhase(Manager) /\ row.phase \in SearchPhases
    BY <1>8, <2>1 DEF ProcessSearch, StagePhase, Alone
  <2>3. PICK viable \in BOOLEAN, success \in BOOLEAN :
          LET next == AfterSearch(StagePhase(Manager), viable, success) IN
          \/ Exhausted(next) /\ Finish(Manager, "exhausted", "exhausted")
          \/ /\ ~Exhausted(next)
             /\ \E pool, short :
                  Write(row.status, next,
                        [st EXCEPT !.control = TRUE, !.pool = pool, !.shortlisted = short,
                                   !.tried = @ \cup ({StagePhase(Manager)} \cap Pivots),
                                   !.pending = NoStage])
    BY <1>8, ZenonT(60) DEF ProcessSearch
  <2> DEFINE next == AfterSearch(row.phase, viable, success)
  <2>4. CASE Finish(Manager, "exhausted", "exhausted")
    BY <2>1, <2>4, FinishEnds DEF InStep
  <2>5. ASSUME ~Exhausted(next), NEW pool, NEW short,
               Write(row.status, next,
                 [st EXCEPT !.control = TRUE, !.pool = pool, !.shortlisted = short,
                            !.tried = @ \cup ({StagePhase(Manager)} \cap Pivots),
                            !.pending = NoStage])
        PROVE  Alone' /\ [Plan!Next]_(Plan!vars)
    <3> HIDE DEF next
    <3>1. /\ Planned("running", next, row.state.tried \cup ({row.phase} \cap Pivots))
          /\ row'.state.pending.jobs = {}
      BY <1>0, <2>1, <2>2, <2>5 DEF Write, Planned, State, NoStage
    <3>2. \/ row.phase = "focused_operability" /\ next \in {"stress_pack", "benchmark_pivot"}
          \/ row.phase = "benchmark_pivot" /\ next \in {"stress_pack", "stability_pivot"}
          \/ row.phase = "stability_pivot" /\ next = "stress_pack"
      BY <2>2, <2>5 DEF next, AfterSearch, SearchPhases, Exhausted
    <3>3. Plan!Advance(next)
      BY <2>1, <3>1 DEF Planned, Plan!Advance, Plan!Pivots, Pivots
    <3>4. Plan!Next
      BY <3>2, <3>3 DEF Plan!Next, Plan!FocusedDone, Plan!BenchmarkDone, Plan!StabilityDone
    <3>5. QED
      BY <2>1, <3>1, <3>4, AloneAfterLeaving
  <2>6. QED
    BY <2>2, <2>3, <2>4, <2>5
<1>9. CASE Announce(Manager)
  <2>1. st = row.state /\ seen[Manager] = row /\ row.status = "running"
    BY <1>9, <1>a DEF Announce, InStep
  <2>2. row.state.pending.phase = "stress_pack" /\ row.state.pending.jobs # {}
    BY <1>9, <2>1 DEF Announce, MayFreeze, StagePhase, Alone
  <2>3. QED
    BY <1>0, <1>9, <1>b, <2>1, <2>2 DEF Announce, Goto, Alone, InStep
<1>10. CASE Commit(Manager)
  <2>1. st = row.state /\ row.status = "running" /\ Leave(Manager)
    BY <1>10, <1>a DEF Commit, InStep
  <2>2. row.phase = "stress_pack"
    BY <1>10 DEF Commit, Alone
  <2>3. /\ Planned("completed", row.phase, row.state.tried)
        /\ row'.state.pending.jobs = {}
    BY <1>0, <1>10, <2>1 DEF Commit, Planned, Row, State, NoStage
  <2>4. Plan!Freeze
    BY <2>1, <2>2, <2>3 DEF Planned, Plan!Freeze, Plan!End
  <2>5. QED
    BY <2>1, <2>3, <2>4, AloneAfterLeaving DEF Plan!Next
<1>11. CASE ProcessStress(Manager)
  <2> DEFINE next == NextPivot(row.state.tried)
  <2>1. /\ st = row.state /\ seen[Manager] = row /\ row.status = "running"
        /\ Leave(Manager) /\ pc[Manager] = "rows"
    BY <1>11, <1>a DEF ProcessStress, InStep
  <2>2. row.phase = "stress_pack"
    BY <1>11, <2>1 DEF ProcessStress, StagePhase, Alone
  <2>3. CASE Exhausted(next)
    BY <1>11, <2>1, <2>3, FinishEnds DEF ProcessStress, InStep
  <2>4. CASE ~Exhausted(next)
    <3>1. Write(row.status, next, [st EXCEPT !.pending = NoStage])
      BY <1>11, <2>1, <2>4 DEF ProcessStress
    <3> HIDE DEF next
    <3>2. Planned("running", next, row.state.tried) /\ row'.state.pending.jobs = {}
      BY <1>0, <2>1, <3>1 DEF Write, Planned, State, NoStage
    <3>3. \/ "benchmark_pivot" \notin row.state.tried /\ next = "benchmark_pivot"
          \/ /\ "benchmark_pivot" \in row.state.tried
             /\ "stability_pivot" \notin row.state.tried /\ next = "stability_pivot"
      BY <2>4 DEF next, NextPivot, Exhausted
    <3>4. Plan!Advance(next)
      BY <2>1, <2>2, <3>2 DEF Planned, Plan!Advance, Plan!Pivots
    <3>5. Plan!Next
      BY <2>2, <3>3, <3>4 DEF Plan!Next, Plan!StressDone
    <3>6. QED
      BY <2>1, <3>2, <3>5, AloneAfterLeaving
  <2>5. QED
    BY <2>3, <2>4
<1>12. QED
  BY <1>1, <1>2, <1>3, <1>4, <1>5, <1>6, <1>7, <1>8, <1>9, <1>10, <1>11 DEF Step

LEMMA FaultFollowsPlan ==
  ASSUME TypeOK, Alone,
         Raise \/ HandlerReads \/ Retry \/ GiveUp \/ Crash(Manager)
  PROVE  Alone' /\ [Plan!Next]_(Plan!vars)
<1>0. /\ Manager \in Process /\ Operator \in Process /\ Manager # Operator
      /\ row.state \in State /\ pc \in [Process -> Labels]
  BY CampaignAssumption DEF Process, Stepper, TypeOK, Row, Labels
<1>b. ASSUME UNCHANGED row  PROVE [Plan!Next]_(Plan!vars)
  BY <1>b, PlanStutter DEF Planned
<1>1. CASE Raise
  BY <1>0, <1>1, <1>b DEF Raise, Alone, InStep
<1>2. CASE HandlerReads
  <2>1. CASE row.status = "running"
    BY <1>0, <1>2, <1>b, <2>1 DEF HandlerReads, Goto, Alone, InStep, TypeOK
  <2>2. CASE row.status # "running"
    <3>1. Leave(Manager) /\ UNCHANGED row
      BY <1>2, <2>2 DEF HandlerReads
    <3>2. QED
      BY <1>b, <3>1, AloneAfterLeaving DEF Alone
  <2>3. QED
    BY <2>1, <2>2
<1>3. CASE Retry
  <2>1. seen[Manager] = row /\ row.status = "running" /\ Leave(Manager)
    BY <1>3 DEF Retry, Alone, InStep
  <2>2. /\ Planned(row.status, row.phase, row.state.tried)
        /\ row'.state.pending = row.state.pending
    BY <1>0, <1>3, <2>1 DEF Retry, Write, Planned, State
  <2>3. QED
    BY <2>1, <2>2, AloneAfterLeaving, PlanStutter DEF Alone, Planned
<1>4. CASE GiveUp
  BY <1>4, FinishEnds DEF GiveUp, InStep
<1>5. CASE Crash(Manager)
  <2>1. Leave(Manager) /\ UNCHANGED row
    BY <1>5 DEF Crash
  <2>2. QED
    BY <1>b, <2>1, AloneAfterLeaving DEF Alone
<1>6. QED
  BY <1>1, <1>2, <1>3, <1>4, <1>5

LEMMA AloneStep ==
  ASSUME Helper = {}, MaxStops = 0, TypeOK, Alone, [Next]_vars
  PROVE  Alone' /\ [Plan!Next]_(Plan!vars)
<1>1. CASE UNCHANGED <<row, pc, seen>>
  BY <1>1, PlanStutter DEF Alone, Planned
<1>2. QED
  BY <1>1, AloneCases, StepFollowsPlan, FaultFollowsPlan

LEMMA AloneInit == Init => Alone /\ Plan!Init
BY DEF Init, Alone, InStep, Process, Stepper, FreshRow, FreshState, NoStage, Plan!Init

\* A campaign that one manager steps and nobody stops goes through the phases in
\* the order of the README, leaves each pivot recorded, freezes a candidate only
\* from the stress pack and ends once, whatever crashes, runtime errors, late
\* reports and budgets do to it.
THEOREM PlanFollowed ==
  ASSUME Helper = {}, MaxStops = 0
  PROVE  Spec => FollowsPlan
<1>1. Init => Alone /\ Plan!Init
  BY AloneInit
<1>2. TypeOK /\ Alone /\ [Next]_vars => Alone' /\ [Plan!Next]_(Plan!vars)
  BY AloneStep
<1>3. QED
  BY <1>1, <1>2, CampaignTypeCorrect, PTL DEF Spec, FollowsPlan, Plan!Spec

-----------------------------------------------------------------------------
(***************************************************************************)
(* How far a campaign may overshoot max_jobs, for any finite set of        *)
(* processes that step it.                                                 *)
(***************************************************************************)

-----------------------------------------------------------------------------
(* The size of a stage.                                                     *)

LEMMA LargestStageType ==
  /\ LargestStage \in Nat
  /\ LargestStage >= Cardinality(Candidate) + 1
  /\ LargestStage >= Cardinality(Candidate \X Scenario)
<1>1. Cardinality(Candidate) \in Nat /\ Cardinality(Scenario) \in Nat
  BY CampaignAssumption, FS_CardinalityType
<1>2. Cardinality(Candidate \X Scenario) = Cardinality(Candidate) * Cardinality(Scenario)
  BY CampaignAssumption, FS_Product
<1>3. Cardinality(Candidate) * Cardinality(Scenario) \in Nat
  BY <1>1
<1>4. QED
  BY <1>1, <1>2, <1>3 DEF LargestStage

\* The slots of a stage are no more than LargestStage.
LEMMA SlotsBounded ==
  ASSUME NEW phase, NEW shortlisted \in SUBSET Candidate
  PROVE  /\ IsFiniteSet(StageSlots(phase, shortlisted))
         /\ Cardinality(StageSlots(phase, shortlisted)) <= LargestStage
<1>1. CASE phase = "stress_pack"
  <2>1. StageSlots(phase, shortlisted) \in SUBSET (Candidate \X Scenario)
    BY <1>1 DEF StageSlots
  <2>2. IsFiniteSet(Candidate \X Scenario)
    BY CampaignAssumption, FS_Product
  <2>3. /\ IsFiniteSet(StageSlots(phase, shortlisted))
        /\ Cardinality(StageSlots(phase, shortlisted)) <= Cardinality(Candidate \X Scenario)
    BY <2>1, <2>2, FS_Subset
  <2>4. Cardinality(Candidate \X Scenario) \in Nat
        /\ Cardinality(StageSlots(phase, shortlisted)) \in Nat
    BY <2>2, <2>3, FS_CardinalityType
  <2>5. QED
    BY <2>3, <2>4, LargestStageType
<1>2. CASE phase # "stress_pack"
  <2>1. StageSlots(phase, shortlisted) = Candidate \cup {Control}
    BY <1>2 DEF StageSlots
  <2>2. /\ IsFiniteSet(Candidate \cup {Control})
        /\ Cardinality(Candidate \cup {Control}) = Cardinality(Candidate) + 1
    BY CampaignAssumption, FS_AddElement
  <2>3. QED
    BY <2>1, <2>2, LargestStageType
<1>3. QED
  BY <1>1, <1>2

\* So are its jobs, one for each slot.
LEMMA NextStageBounded ==
  ASSUME TypeOK, NEW p \in Process
  PROVE  /\ IsFiniteSet(NextStage(p))
         /\ Cardinality(NextStage(p)) <= LargestStage
<1> DEFINE S == StageSlots(seen[p].phase, seen[p].state.shortlisted)
           f == [s \in S |-> [stage |-> stages + 1, slot |-> s]]
<1>1. seen[p].state.shortlisted \in SUBSET Candidate
  BY DEF TypeOK, Row, State
<1>2. IsFiniteSet(S) /\ Cardinality(S) <= LargestStage
  BY <1>1, SlotsBounded
<1>3. f \in Surjection(S, NextStage(p))
  <2>1. f \in [S -> NextStage(p)]
    BY DEF NextStage
  <2>2. \A j \in NextStage(p) : \E s \in S : f[s] = j
    BY DEF NextStage
  <2>3. QED
    BY <2>1, <2>2 DEF Surjection
<1>4. IsFiniteSet(NextStage(p)) /\ Cardinality(NextStage(p)) <= Cardinality(S)
  BY <1>2, <1>3, FS_Surjection
<1>5. Cardinality(NextStage(p)) \in Nat /\ Cardinality(S) \in Nat
  BY <1>2, <1>4, FS_CardinalityType
<1>6. QED
  BY <1>2, <1>4, <1>5, LargestStageType

-----------------------------------------------------------------------------
(* The budget.                                                              *)

\* The processes that have checked the budget and not yet submitted a stage.
Allowed == {p \in Stepper : pc[p] = "submit"}

\* Each of them still has a stage of its own to add.
BudgetInv ==
  /\ IsFiniteSet(Submitted)
  /\ Cardinality(Submitted) + LargestStage * Cardinality(Allowed)
       <= MaxJobs - 1 + LargestStage * Cardinality(Stepper)

LEMMA TimesMonotone ==
  ASSUME NEW l \in Nat, NEW a \in Nat, NEW b \in Nat, a <= b
  PROVE  l * a <= l * b /\ l * a \in Nat /\ l * b \in Nat
<1>1. PICK d \in Nat : b = a + d
  <2>1. b - a \in Nat /\ b = a + (b - a)
    OBVIOUS
  <2>2. QED
    BY <2>1
<1>2. l * b = l * a + l * d /\ l * d \in Nat /\ l * a \in Nat
  BY <1>1
<1>3. QED
  BY <1>2

LEMMA AllowedBounded ==
  ASSUME IsFiniteSet(Helper)
  PROVE  /\ IsFiniteSet(Stepper) /\ Cardinality(Stepper) \in Nat
         /\ IsFiniteSet(Allowed) /\ Cardinality(Allowed) \in Nat
         /\ Cardinality(Allowed) <= Cardinality(Stepper)
<1>1. IsFiniteSet(Stepper)
  <2>1. Stepper = Helper \cup {Manager}
    BY DEF Stepper
  <2>2. QED
    BY <2>1, FS_AddElement
<1>2. Allowed \in SUBSET Stepper
  BY DEF Allowed
<1>3. QED
  BY <1>1, <1>2, FS_Subset, FS_CardinalityType

\* Nothing is submitted and nobody newly allowed to.
LEMMA BudgetKept ==
  ASSUME IsFiniteSet(Helper), MaxJobs \in Nat, BudgetInv,
         Submitted' \subseteq Submitted, Allowed' \subseteq Allowed
  PROVE  BudgetInv'
<1>1. /\ IsFiniteSet(Submitted') /\ Cardinality(Submitted') \in Nat
      /\ Cardinality(Submitted) \in Nat
      /\ Cardinality(Submitted') <= Cardinality(Submitted)
  BY FS_Subset, FS_CardinalityType DEF BudgetInv
<1>2. /\ Cardinality(Allowed') \in Nat /\ Cardinality(Allowed) \in Nat
      /\ Cardinality(Allowed') <= Cardinality(Allowed) /\ Cardinality(Stepper) \in Nat
  BY AllowedBounded, FS_Subset, FS_CardinalityType
<1>3. /\ LargestStage * Cardinality(Allowed') <= LargestStage * Cardinality(Allowed)
      /\ LargestStage * Cardinality(Allowed') \in Nat
      /\ LargestStage * Cardinality(Allowed) \in Nat
      /\ LargestStage * Cardinality(Stepper) \in Nat
  BY <1>2, TimesMonotone, LargestStageType
<1>4. LargestStage' = LargestStage /\ Cardinality(Stepper)' = Cardinality(Stepper)
  BY DEF LargestStage, Stepper
<1>5. QED
  BY <1>1, <1>3, <1>4 DEF BudgetInv

\* A job that was never submitted was never started; hence no report and no
\* decision of the coordinator makes a job appear.
AbsentUnstarted == \A j \in Job : jobStatus[j] = "absent" => attempts[j] = 0

LEMMA QueueAddsNothing ==
  ASSUME JobTypeOK, AbsentUnstarted,
         \/ \E S \in SUBSET Job : Queue!Cancel(S)
         \/ \E j \in Job : Queue!Start(j) \/ Queue!Complete(j)
         \/ \E R, F \in SUBSET Job : Queue!GiveBack(R, F)
  PROVE  Submitted' \subseteq Submitted /\ AbsentUnstarted'
BY DEF JobTypeOK, AbsentUnstarted, Submitted, Queue!Cancel, Queue!Start,
       Queue!Complete, Queue!GiveBack

LEMMA SubmitAdds ==
  ASSUME JobTypeOK, AbsentUnstarted, NEW S \in SUBSET Job, Queue!Submit(S)
  PROVE  Submitted' = Submitted \cup S /\ AbsentUnstarted'
BY DEF JobTypeOK, AbsentUnstarted, Submitted, Queue!Submit

\* No process is allowed more by a step in which no one begins to submit.
LEMMA NoneAllowed ==
  ASSUME \A p \in Stepper : pc'[p] = "submit" => pc[p] = "submit"
  PROVE  Allowed' \subseteq Allowed
BY DEF Allowed, Stepper

LEMMA LeaveAllowsNone ==
  ASSUME TypeOK, NEW p \in Process, Leave(p)
  PROVE  Allowed' \subseteq Allowed
<1>1. \A q \in Stepper : pc'[q] = "submit" => pc[q] = "submit"
  BY SteppersAreProcesses DEF TypeOK, Leave, Goto
<1>2. QED
  BY <1>1, NoneAllowed

\* A process adds the stage it was allowed to add.
LEMMA InsertInBudget ==
  ASSUME IsFiniteSet(Helper), MaxJobs \in Nat, TypeOK, BudgetInv, AbsentUnstarted,
         NEW p \in Stepper, Insert(p)
  PROVE  BudgetInv' /\ AbsentUnstarted'
<1> DEFINE S == NextStage(p)
<1>0. p \in Process /\ S \in SUBSET Job /\ Queue!Submit(S)
  BY SteppersAreProcesses, NextStageTyped DEF Insert
<1>1. Submitted' = Submitted \cup S /\ AbsentUnstarted'
  BY <1>0, SubmitAdds, TypeParts
<1>2. IsFiniteSet(S) /\ Cardinality(S) <= LargestStage /\ Cardinality(S) \in Nat
  BY <1>0, NextStageBounded, FS_CardinalityType
<1> HIDE DEF S
<1>3. /\ IsFiniteSet(Submitted') /\ Cardinality(Submitted') \in Nat
      /\ Cardinality(Submitted) \in Nat
      /\ Cardinality(Submitted') <= Cardinality(Submitted) + Cardinality(S)
  <2>1. IsFiniteSet(Submitted)
    BY DEF BudgetInv
  <2>2. /\ IsFiniteSet(Submitted \cup S)
        /\ Cardinality(Submitted \cup S)
             = Cardinality(Submitted) + Cardinality(S) - Cardinality(Submitted \cap S)
    BY <1>2, <2>1, FS_Union
  <2>3. Cardinality(Submitted \cap S) \in Nat /\ Cardinality(Submitted) \in Nat
        /\ Cardinality(Submitted \cup S) \in Nat
    BY <2>1, <2>2, FS_Intersection, FS_CardinalityType
  <2>4. QED
    BY <1>1, <1>2, <2>2, <2>3
<1>4. p \in Allowed /\ Allowed' = Allowed \ {p}
  BY <1>0, SteppersAreProcesses DEF Insert, Goto, Allowed, Stepper, TypeOK
<1>5. /\ Cardinality(Allowed) \in Nat /\ Cardinality(Allowed') = Cardinality(Allowed) - 1
      /\ Cardinality(Allowed') \in Nat /\ Cardinality(Stepper) \in Nat
  <2>1. IsFiniteSet(Allowed)
    BY AllowedBounded
  <2>2. IsFiniteSet(Allowed \ {p}) /\ Cardinality(Allowed \ {p}) = Cardinality(Allowed) - 1
    BY <1>4, <2>1, FS_RemoveElement
  <2>3. QED
    BY <1>4, <2>1, <2>2, FS_CardinalityType, AllowedBounded
<1>6. /\ LargestStage * Cardinality(Allowed)
           = LargestStage * Cardinality(Allowed') + LargestStage
      /\ LargestStage * Cardinality(Allowed') \in Nat
      /\ LargestStage * Cardinality(Stepper) \in Nat
  <2>1. ASSUME NEW l \in Nat, NEW a \in Nat, NEW b \in Nat, b = a - 1
        PROVE  l * a = l * b + l /\ l * b \in Nat
    BY <2>1
  <2>2. QED
    BY <1>5, <2>1, TimesMonotone, LargestStageType
<1>7. LargestStage' = LargestStage /\ Cardinality(Stepper)' = Cardinality(Stepper)
  BY DEF LargestStage, Stepper
<1>8. QED
  BY <1>1, <1>2, <1>3, <1>6, <1>7, LargestStageType DEF BudgetInv

\* A process is allowed to add a stage only below the cap.
LEMMA BuildInBudget ==
  ASSUME IsFiniteSet(Helper), MaxJobs \in Nat \ {0}, TypeOK, BudgetInv,
         NEW p \in Stepper, Build(p)
  PROVE  BudgetInv'
<1>1. /\ Submitted' = Submitted /\ IsFiniteSet(Submitted)
      /\ Cardinality(Submitted) \in Nat
  BY FS_CardinalityType DEF Build, jobVars, Submitted, BudgetInv
<1>2. Cardinality(Submitted) <= MaxJobs - 1
  BY <1>1 DEF Build, BudgetExhausted
<1>3. /\ Allowed' \subseteq Stepper /\ IsFiniteSet(Stepper) /\ Cardinality(Stepper) \in Nat
  BY AllowedBounded DEF Allowed, Stepper
<1>4. Cardinality(Allowed') <= Cardinality(Stepper) /\ Cardinality(Allowed') \in Nat
  BY <1>3, FS_Subset, FS_CardinalityType
<1>5. /\ LargestStage * Cardinality(Allowed') <= LargestStage * Cardinality(Stepper)
      /\ LargestStage * Cardinality(Allowed') \in Nat
      /\ LargestStage * Cardinality(Stepper) \in Nat
  BY <1>3, <1>4, TimesMonotone, LargestStageType
<1>6. LargestStage' = LargestStage /\ Cardinality(Stepper)' = Cardinality(Stepper)
  BY DEF LargestStage, Stepper
<1>7. QED
  BY <1>1, <1>2, <1>5, <1>6 DEF BudgetInv

LEMMA BudgetStep ==
  ASSUME IsFiniteSet(Helper), MaxJobs \in Nat \ {0},
         TypeOK, BudgetInv, AbsentUnstarted, [Next]_vars
  PROVE  BudgetInv' /\ AbsentUnstarted'
<1>a. ASSUME UNCHANGED jobVars
      PROVE  Submitted' \subseteq Submitted /\ AbsentUnstarted'
  BY <1>a DEF jobVars, Submitted, AbsentUnstarted
<1>b. ASSUME UNCHANGED jobVars, Allowed' \subseteq Allowed
      PROVE  BudgetInv' /\ AbsentUnstarted'
  BY <1>a, <1>b, BudgetKept
<1>c. Manager \in Process /\ Operator \in Process
  BY DEF Process, Stepper
<1>1. ASSUME NEW p \in Stepper, Step(p)  PROVE BudgetInv' /\ AbsentUnstarted'
  <2>0. p \in Process
    BY SteppersAreProcesses
  <2>1. CASE Insert(p)
    BY <2>1, InsertInBudget
  <2>2. CASE Build(p)
    BY <1>a, <2>2, BuildInBudget DEF Build
  <2>3. CASE Read(p) \/ Collect(p) \/ Announce(p)
    <3>1. \A q \in Stepper : pc'[q] = "submit" => pc[q] = "submit"
      BY <2>3, SteppersAreProcesses DEF Read, Collect, Announce, Goto, TypeOK
    <3>2. QED
      BY <1>b, <2>3, <3>1, NoneAllowed DEF Read, Collect, Announce
  <2>4. CASE \/ Exhaust(p) \/ Wait(p) \/ NoJobs(p) \/ Record(p) \/ ControlMissing(p)
             \/ ProcessSearch(p) \/ Commit(p) \/ ProcessStress(p)
    <3>1. Leave(p) /\ UNCHANGED jobVars
      BY <2>4 DEF Exhaust, Wait, NoJobs, Record, ControlMissing, ProcessSearch, Commit,
                  ProcessStress
    <3>2. QED
      BY <1>b, <2>0, <3>1, LeaveAllowsNone
  <2>5. QED
    BY <1>1, <2>1, <2>2, <2>3, <2>4 DEF Step
<1>2. CASE Raise
  <2>1. \A q \in Stepper : pc'[q] = "submit" => pc[q] = "submit"
    BY <1>2, SteppersAreProcesses DEF Raise, TypeOK
  <2>2. QED
    BY <1>b, <1>2, <2>1, NoneAllowed DEF Raise
<1>3. CASE HandlerReads
  <2>1. CASE row.status = "running"
    <3>1. \A q \in Stepper : pc'[q] = "submit" => pc[q] = "submit"
      BY <1>3, <2>1, SteppersAreProcesses DEF HandlerReads, Goto, TypeOK
    <3>2. QED
      BY <1>b, <1>3, <3>1, NoneAllowed DEF HandlerReads
  <2>2. CASE row.status # "running"
    BY <1>b, <1>c, <1>3, <2>2, LeaveAllowsNone DEF HandlerReads
  <2>3. QED
    BY <2>1, <2>2
<1>4. CASE Retry \/ GiveUp
  BY <1>b, <1>c, <1>4, LeaveAllowsNone DEF Retry, GiveUp
<1>5. ASSUME NEW p \in Process, Crash(p)  PROVE BudgetInv' /\ AbsentUnstarted'
  BY <1>b, <1>5, LeaveAllowsNone DEF Crash
<1>6. CASE StopReads
  <2>1. \A q \in Stepper : pc'[q] = "submit" => pc[q] = "submit"
    BY <1>6, SteppersAreProcesses DEF StopReads, Goto, TypeOK
  <2>2. QED
    BY <1>b, <1>6, <2>1, NoneAllowed DEF StopReads
<1>7. CASE StopWrites
  <2>1. \E S \in SUBSET Job : Queue!Cancel(S)
    <3>1. {j \in Job : jobStatus[j] = "queued"} \in SUBSET Job /\ {} \in SUBSET Job
      OBVIOUS
    <3>2. QED
      BY <1>7, <3>1 DEF StopWrites
  <2>2. Submitted' \subseteq Submitted /\ AbsentUnstarted'
    BY <2>1, QueueAddsNothing, TypeParts
  <2>3. QED
    BY <1>c, <1>7, <2>2, BudgetKept, LeaveAllowsNone DEF StopWrites
<1>8. ASSUME NEW j \in Job, JobMoves(j)  PROVE BudgetInv' /\ AbsentUnstarted'
  <2>1. Submitted' \subseteq Submitted /\ AbsentUnstarted'
    BY <1>8, JobMovesByContract, QueueAddsNothing, TypeParts
  <2>2. Allowed' \subseteq Allowed
    BY <1>8, JobMovesFrame, NoneAllowed DEF procVars
  <2>3. QED
    BY <2>1, <2>2, BudgetKept
<1>9. CASE TimePasses \/ UNCHANGED vars
  <2>1. UNCHANGED <<jobVars, pc>>
    BY <1>9 DEF TimePasses, vars, procVars
  <2>2. QED
    BY <1>b, <2>1, NoneAllowed
<1>10. QED
  BY <1>1, <1>2, <1>3, <1>4, <1>5, <1>6, <1>7, <1>8, <1>9, NextCases

LEMMA BudgetInit ==
  ASSUME IsFiniteSet(Helper), MaxJobs \in Nat \ {0}, Init
  PROVE  BudgetInv /\ AbsentUnstarted
<1>1. Submitted = {} /\ AbsentUnstarted
  BY DEF Init, Queue!Init, Submitted, AbsentUnstarted
<1>2. Allowed = {}
  BY SteppersAreProcesses DEF Init, Allowed
<1>3. LargestStage * Cardinality(Stepper) \in Nat /\ LargestStage * 0 = 0
  BY AllowedBounded, TimesMonotone, LargestStageType
<1>4. QED
  BY <1>1, <1>2, <1>3, FS_EmptySet DEF BudgetInv

\* However many processes step a campaign and whatever fails, it submits at most
\* one stage per process beyond the jobs its budget leaves.
THEOREM BudgetOvershoot ==
  ASSUME IsFiniteSet(Helper)
  PROVE  Spec => []OvershootBounded
<1>1. CASE MaxJobs > 0
  <2>1. MaxJobs \in Nat \ {0}
    BY <1>1, CampaignAssumption
  <2>2. Init => BudgetInv /\ AbsentUnstarted
    BY <2>1, BudgetInit
  <2>3. TypeOK /\ BudgetInv /\ AbsentUnstarted /\ [Next]_vars
          => BudgetInv' /\ AbsentUnstarted'
    BY <2>1, BudgetStep
  <2>4. BudgetInv => OvershootBounded
    <3>1. ASSUME BudgetInv  PROVE OvershootBounded
      <4>1. Cardinality(Submitted) \in Nat
        BY <3>1, FS_CardinalityType DEF BudgetInv
      <4>2. LargestStage * Cardinality(Allowed) \in Nat
            /\ LargestStage * Cardinality(Stepper) \in Nat
        BY AllowedBounded, TimesMonotone, LargestStageType
      <4>3. QED
        BY <2>1, <3>1, <4>1, <4>2 DEF BudgetInv, OvershootBounded
    <3>2. QED
      BY <3>1
  <2>5. QED
    BY <2>2, <2>3, <2>4, CampaignTypeCorrect, PTL DEF Spec
<1>2. CASE ~(MaxJobs > 0)
  <2>1. OvershootBounded
    BY <1>2 DEF OvershootBounded
  <2>2. QED
    BY <2>1, PTL
<1>3. QED
  BY <1>1, <1>2

-----------------------------------------------------------------------------
(***************************************************************************)
(* With one manager and no operator, the jobs that nobody waits for are    *)
(* the traces of faults: each leaves at most one stage, and each late      *)
(* report at most one job.                                                 *)
(***************************************************************************)

\* The pending jobs count as waited for until their results are taken: what the
\* manager does with the results no longer depends on what becomes of the jobs.
Waited == IF pc[Manager] \in {"rows", "commit"} THEN {} ELSE row.state.pending.jobs

Loose == Active \ (Waited \cup own[Manager])

StrayInv ==
  /\ own[Operator] = {}
  /\ own[Manager] # {} => pc[Manager] = "inserted"
  /\ IsFiniteSet(own[Manager]) /\ Cardinality(own[Manager]) <= LargestStage
  /\ pc[Manager] \in {"submit", "inserted"} => row.state.pending.jobs = {}
  /\ IsFiniteSet(Loose)
  /\ row.status = "running" => Cardinality(Loose) <= LargestStage * faults + late

LEMMA FaultsTyped ==
  ASSUME TypeOK
  PROVE  /\ faults \in Nat /\ late \in Nat
         /\ LargestStage * faults \in Nat
         /\ LargestStage * (faults + 1) = LargestStage * faults + LargestStage
<1>1. MaxFaults \in Nat /\ MaxLate \in Nat
  BY CampaignAssumption
<1>2. faults \in Nat /\ late \in Nat
  BY <1>1 DEF TypeOK
<1>3. ASSUME NEW l \in Nat, NEW a \in Nat
      PROVE  l * a \in Nat /\ l * (a + 1) = l * a + l
  BY <1>3
<1>4. QED
  BY <1>2, <1>3, LargestStageType

\* Nothing goes wrong, and no more jobs are loose.
LEMMA LooseKept ==
  ASSUME TypeOK, StrayInv, Loose' \subseteq Loose, faults' = faults, late' = late,
         row'.status = "running" => row.status = "running"
  PROVE  /\ IsFiniteSet(Loose')
         /\ row'.status = "running" => Cardinality(Loose') <= LargestStage * faults' + late'
<1>1. /\ IsFiniteSet(Loose') /\ Cardinality(Loose') \in Nat
      /\ Cardinality(Loose) \in Nat /\ Cardinality(Loose') <= Cardinality(Loose)
  BY FS_Subset, FS_CardinalityType DEF StrayInv
<1>2. QED
  BY <1>1, FaultsTyped DEF StrayInv

\* The process forgets what it has submitted.
LEMMA LooseGrows ==
  ASSUME TypeOK, StrayInv, NEW S, IsFiniteSet(S), NEW n \in Nat, Cardinality(S) <= n,
         Loose' \subseteq Loose \cup S, row'.status = "running" => row.status = "running"
  PROVE  /\ IsFiniteSet(Loose')
         /\ row'.status = "running" => Cardinality(Loose') <= LargestStage * faults + late + n
<1>1. IsFiniteSet(Loose) /\ Cardinality(Loose) \in Nat /\ Cardinality(S) \in Nat
  BY FS_CardinalityType DEF StrayInv
<1>2. /\ IsFiniteSet(Loose \cup S)
      /\ Cardinality(Loose \cup S) = Cardinality(Loose) + Cardinality(S) - Cardinality(Loose \cap S)
  BY <1>1, FS_Union DEF StrayInv
<1>3. Cardinality(Loose \cap S) \in Nat
  BY <1>1, FS_Intersection, FS_CardinalityType
<1>4. /\ IsFiniteSet(Loose') /\ Cardinality(Loose') \in Nat
      /\ Cardinality(Loose') <= Cardinality(Loose \cup S)
  BY <1>2, FS_Subset, FS_CardinalityType
<1>5. QED
  BY <1>1, <1>2, <1>3, <1>4, FaultsTyped DEF StrayInv

LEMMA JobsFinite == IsFiniteSet(Job)
<1>1. IsFiniteSet(Candidate \X Scenario) /\ IsFiniteSet(Candidate \cup {Control})
  BY CampaignAssumption, FS_Product, FS_AddElement
<1>2. IsFiniteSet(Slots)
  <2>1. Slots = (Candidate \cup {Control}) \cup (Candidate \X Scenario)
    BY DEF Slots
  <2>2. QED
    BY <1>1, <2>1, FS_Union
<1>3. IsFiniteSet(1 .. MaxStages)
  BY CampaignAssumption, FS_Interval
<1>4. IsFiniteSet((1 .. MaxStages) \X Slots)
  BY <1>2, <1>3, FS_Product
<1> DEFINE D == (1 .. MaxStages) \X Slots
           f == [d \in D |-> [stage |-> d[1], slot |-> d[2]]]
<1>5. f \in [D -> Job]
  BY DEF Job
<1>6. \A j \in Job : \E d \in D : f[d] = j
  <2>1. ASSUME NEW j \in Job  PROVE \E d \in D : f[d] = j
    <3>1. <<j.stage, j.slot>> \in D /\ f[<<j.stage, j.slot>>] = j
      BY DEF Job
    <3>2. QED
      BY <3>1
  <2>2. QED
    BY <2>1
<1>7. f \in Surjection(D, Job)
  BY <1>5, <1>6 DEF Surjection
<1>8. QED
  BY <1>4, <1>7, FS_Surjection

LEMMA EmptyFits == IsFiniteSet({}) /\ Cardinality({}) <= LargestStage
BY FS_EmptySet, LargestStageType

\* A process that leaves keeps the jobs it did not submit.
LEMMA LooseAfterLeaving ==
  ASSUME TypeOK, StrayInv, Leave(Manager), UNCHANGED <<jobVars, faults, late>>,
         row'.status = "running" => row.status = "running",
         Waited \cup own[Manager] \subseteq row'.state.pending.jobs \cup (Job \ Active)
  PROVE  StrayInv'
<1>1. Manager \in Process /\ Operator \in Process /\ Manager # Operator
  BY CampaignAssumption DEF Process, Stepper
<1>2. pc'[Manager] = "idle" /\ own'[Manager] = {} /\ own'[Operator] = {}
  BY <1>1 DEF Leave, Goto, TypeOK, StrayInv
<1>3. Loose' \subseteq Loose
  BY <1>2 DEF Loose, Waited, Active, jobVars
<1>4. LargestStage' = LargestStage
  BY DEF LargestStage
<1>5. QED
  BY <1>2, <1>3, <1>4, LooseKept, EmptyFits DEF StrayInv

LEMMA StepStray ==
  ASSUME TypeOK, Alone, StrayInv, Step(Manager)
  PROVE  StrayInv'
<1> DEFINE st == seen[Manager].state
<1>0. /\ Manager \in Process /\ Operator \in Process /\ Manager # Operator
      /\ row.state \in State /\ row \in Row
      /\ pc \in [Process -> Labels] /\ own \in [Process -> SUBSET Job]
      /\ LargestStage' = LargestStage
  BY CampaignAssumption DEF Process, Stepper, TypeOK, Row, Labels, LargestStage
<1>a. ASSUME pc[Manager] \in InStep
      PROVE  st = row.state /\ seen[Manager] = row /\ row.status = "running"
  BY <1>a DEF Alone
<1>b. ASSUME UNCHANGED <<row, jobVars, own, faults, late>>, Loose' \subseteq Loose,
             pc'[Manager] \in {"submit", "inserted"} => row.state.pending.jobs = {},
             own[Manager] = {}
      PROVE  StrayInv'
  BY <1>0, <1>b, LooseKept DEF StrayInv
<1>c. ASSUME pc[Manager] # "inserted"  PROVE own[Manager] = {}
  BY <1>c DEF StrayInv
<1>1. CASE Read(Manager)
  <2>1. own[Manager] = {} /\ pc'[Manager] = "read" /\ UNCHANGED <<row, jobVars, own, faults, late>>
    BY <1>0, <1>1, <1>c DEF Read, Goto, counters
  <2>2. Loose' = Loose
    BY <1>1, <2>1 DEF Read, Loose, Waited, Active, jobVars
  <2>3. QED
    BY <1>b, <2>1, <2>2
<1>2. CASE Exhaust(Manager) \/ NoJobs(Manager)
  <2>1. /\ st = row.state /\ seen[Manager] = row /\ row.status = "running" /\ Leave(Manager)
        /\ UNCHANGED <<jobVars, faults, late>> /\ own[Manager] = {}
    BY <1>2, <1>a, <1>c DEF Exhaust, NoJobs, InStep, counters
  <2>2. row'.state.pending = row.state.pending
    BY <1>0, <1>2, <2>1 DEF Exhaust, NoJobs, Write, State
  <2>3. QED
    BY <2>1, <2>2, LooseAfterLeaving DEF Waited
<1>3. CASE Wait(Manager)
  <2>1. Leave(Manager) /\ UNCHANGED <<row, jobVars, faults, late>> /\ own[Manager] = {}
    BY <1>3, <1>c DEF Wait, counters
  <2>2. QED
    BY <2>1, LooseAfterLeaving DEF Waited
<1>4. CASE Collect(Manager)
  <2>1. /\ own[Manager] = {} /\ pc'[Manager] = "rows"
        /\ UNCHANGED <<row, jobVars, own, faults, late>>
    BY <1>0, <1>4, <1>c DEF Collect, Goto, counters
  <2>2. \A j \in row.state.pending.jobs : jobStatus[j] \notin {"queued", "running"}
    BY <1>4, <1>a DEF Collect, Settled, InStep
  <2>3. Loose' \subseteq Loose
    BY <2>1, <2>2 DEF Loose, Waited, Active, jobVars
  <2>4. QED
    BY <1>b, <2>1, <2>3
<1>5. CASE Build(Manager)
  <2>1. /\ own[Manager] = {} /\ pc'[Manager] = "submit" /\ row.state.pending.jobs = {}
        /\ UNCHANGED <<row, jobVars, own, faults, late>>
    BY <1>0, <1>5, <1>a, <1>c DEF Build, Goto, InStep, counters
  <2>2. Loose' = Loose
    BY <2>1 DEF Loose, Waited, Active, jobVars
  <2>3. QED
    BY <1>b, <2>1, <2>2
<1>6. CASE Insert(Manager)
  <2> DEFINE S == NextStage(Manager)
  <2>1. /\ own[Manager] = {} /\ pc[Manager] = "submit" /\ row.state.pending.jobs = {}
        /\ pc' = [pc EXCEPT ![Manager] = "inserted"] /\ own' = [own EXCEPT ![Manager] = S]
        /\ Queue!Submit(S) /\ UNCHANGED <<row, faults, late>>
    BY <1>6, <1>c DEF Insert, Goto, StrayInv, counters
  <2>2. IsFiniteSet(S) /\ Cardinality(S) <= LargestStage
    BY <1>0, NextStageBounded
  <2> HIDE DEF S
  <2>3. pc'[Manager] = "inserted" /\ own'[Manager] = S /\ own'[Operator] = {}
    BY <1>0, <2>1 DEF StrayInv
  <2>4. Loose' \subseteq Loose
    BY <2>1, <2>3 DEF Loose, Waited, Active, Queue!Submit, TypeOK
  <2>5. QED
    BY <1>0, <2>1, <2>2, <2>3, <2>4, LooseKept DEF StrayInv
<1>7. CASE Record(Manager)
  <2>1. /\ st = row.state /\ seen[Manager] = row /\ Leave(Manager)
        /\ row.state.pending.jobs = {} /\ UNCHANGED <<jobVars, faults, late>>
    BY <1>7, <1>a DEF Record, InStep, StrayInv, counters
  <2>2. row'.status = row.status /\ row'.state.pending.jobs = own[Manager]
    BY <1>0, <1>7, <2>1 DEF Record, Write, State
  <2>3. QED
    BY <2>1, <2>2, LooseAfterLeaving DEF Waited
<1>8. CASE ControlMissing(Manager) \/ ProcessSearch(Manager) \/ ProcessStress(Manager)
  <2>1. /\ Leave(Manager) /\ UNCHANGED <<jobVars, faults, late>>
        /\ pc[Manager] = "rows" /\ own[Manager] = {} /\ row.status = "running"
    BY <1>8, <1>a, <1>c DEF ControlMissing, ProcessSearch, ProcessStress, InStep, counters
  <2>2. QED
    BY <2>1, LooseAfterLeaving DEF Waited
<1>9. CASE Announce(Manager)
  <2>1. /\ own[Manager] = {} /\ pc[Manager] = "rows" /\ pc'[Manager] = "commit"
        /\ UNCHANGED <<row, jobVars, own, faults, late>>
    BY <1>0, <1>9, <1>c DEF Announce, Goto, counters
  <2>2. Loose' = Loose
    BY <2>1 DEF Loose, Waited, Active, jobVars
  <2>3. QED
    BY <1>b, <2>1, <2>2
<1>10. CASE Commit(Manager)
  <2>1. /\ Leave(Manager) /\ UNCHANGED <<jobVars, faults, late>>
        /\ pc[Manager] = "commit" /\ own[Manager] = {} /\ row.status = "running"
    BY <1>10, <1>a, <1>c DEF Commit, InStep, counters
  <2>2. QED
    BY <2>1, LooseAfterLeaving DEF Waited
<1>11. QED
  BY <1>1, <1>2, <1>3, <1>4, <1>5, <1>6, <1>7, <1>8, <1>9, <1>10 DEF Step

\* A fault lets go of the stage that was just submitted.
LEMMA FaultStray ==
  ASSUME TypeOK, Alone, StrayInv,
         Raise \/ HandlerReads \/ Retry \/ GiveUp \/ Crash(Manager)
  PROVE  StrayInv'
<1>0. /\ Manager \in Process /\ Operator \in Process /\ Manager # Operator
      /\ row.state \in State /\ own \in [Process -> SUBSET Job] /\ pc \in [Process -> Labels]
      /\ LargestStage' = LargestStage
  BY CampaignAssumption DEF Process, Stepper, TypeOK, Row, Labels, LargestStage
<1>1. CASE Raise \/ Crash(Manager)
  <2>1. /\ pc'[Manager] \in {"idle", "raised"} /\ own'[Manager] = {} /\ own'[Operator] = {}
        /\ UNCHANGED <<row, jobVars, late>> /\ faults' = faults + 1
    BY <1>0, <1>1 DEF Raise, Crash, Leave, Goto, StrayInv
  <2>2. Loose' \subseteq Loose \cup own[Manager]
    BY <2>1 DEF Loose, Waited, Active, jobVars
  <2>3. /\ IsFiniteSet(Loose')
        /\ row'.status = "running"
             => Cardinality(Loose') <= LargestStage * faults + late + LargestStage
    BY <2>1, <2>2, LooseGrows, LargestStageType DEF StrayInv
  <2>4. LargestStage * faults' = LargestStage * faults + LargestStage
    BY <2>1, FaultsTyped
  <2>5. Cardinality(Loose') \in Nat
    BY <2>3, FS_CardinalityType
  <2>6. row'.status = "running" => Cardinality(Loose') <= LargestStage * faults' + late'
    BY <2>1, <2>3, <2>4, <2>5, FaultsTyped, LargestStageType
  <2>7. QED
    BY <1>0, <2>1, <2>3, <2>6, EmptyFits DEF StrayInv
<1>2. CASE HandlerReads
  <2>1. pc[Manager] = "raised" /\ own[Manager] = {}
    BY <1>2 DEF HandlerReads, StrayInv
  <2>2. /\ pc'[Manager] \in {"handling", "idle"} /\ own'[Manager] = {} /\ own'[Operator] = {}
        /\ UNCHANGED <<row, jobVars, faults, late>>
    BY <1>0, <1>2, <2>1 DEF HandlerReads, Leave, Goto, StrayInv, counters
  <2>3. Loose' = Loose
    BY <2>1, <2>2 DEF Loose, Waited, Active, jobVars
  <2>4. QED
    BY <1>0, <2>2, <2>3, LooseKept, EmptyFits DEF StrayInv
<1>3. CASE Retry
  <2>1. /\ seen[Manager] = row /\ row.status = "running" /\ Leave(Manager)
        /\ own[Manager] = {} /\ UNCHANGED <<jobVars, faults, late>>
    BY <1>3 DEF Retry, Alone, InStep, StrayInv, counters
  <2>2. row'.state.pending = row.state.pending
    BY <1>0, <1>3, <2>1 DEF Retry, Write, State
  <2>3. QED
    BY <2>1, <2>2, LooseAfterLeaving DEF Waited
<1>4. CASE GiveUp
  <2>1. /\ Leave(Manager) /\ UNCHANGED <<jobVars, faults, late>> /\ row'.status = "failed"
        /\ own'[Manager] = {} /\ own'[Operator] = {} /\ pc'[Manager] = "idle"
        /\ pc[Manager] = "handling" /\ own[Manager] = {} /\ row.state.pending.jobs \in SUBSET Job
    BY <1>0, <1>4 DEF GiveUp, Finish, Write, Leave, Goto, StrayInv, State, counters
  <2>2. IsFiniteSet(Loose')
    <3>1. Loose' \in SUBSET Job
      BY DEF Loose, Active
    <3>2. QED
      BY <3>1, JobsFinite, FS_Subset
  <2>3. QED
    BY <1>0, <2>1, <2>2, EmptyFits DEF StrayInv
<1>5. QED
  BY <1>1, <1>2, <1>3, <1>4

\* Only a late change makes a job active that was not.
LEMMA JobsStray ==
  ASSUME TypeOK, StrayInv, NEW j \in Job, JobMoves(j)
  PROVE  StrayInv'
<1>0. UNCHANGED <<row, pc, own, faults>> /\ LargestStage' = LargestStage
  BY JobMovesFrame DEF procVars, LargestStage
<1>1. CASE JobStep(j)
  <2>1. Active' \subseteq Active
    <3>1. CASE JobStarts(j)
      BY <3>1 DEF JobStarts, Active, Queue!Start, TypeOK
    <3>2. CASE JobSettles(j)
      BY <3>2 DEF JobSettles, Active, Queue!Complete, Queue!GiveBack, TypeOK
    <3>3. QED
      BY <1>1, <3>1, <3>2 DEF JobStep
  <2>2. late' = late
    BY <1>1 DEF JobStep, JobStarts, JobSettles, counters
  <2>3. Loose' \subseteq Loose
    BY <1>0, <2>1 DEF Loose, Waited
  <2>4. QED
    BY <1>0, <2>2, <2>3, LooseKept DEF StrayInv
<1>2. CASE JobLate(j)
  <2>1. Active' \subseteq Active \cup {j} /\ late' = late + 1
    BY <1>2 DEF JobLate, Active, Queue!Complete, Queue!GiveBack, TypeOK
  <2>2. Loose' \subseteq Loose \cup {j}
    BY <1>0, <2>1 DEF Loose, Waited
  <2>3. IsFiniteSet({j}) /\ Cardinality({j}) = 1
    BY FS_Singleton
  <2>4. /\ IsFiniteSet(Loose')
        /\ row'.status = "running" => Cardinality(Loose') <= LargestStage * faults + late + 1
    BY <1>0, <2>2, <2>3, LooseGrows
  <2>5. Cardinality(Loose') \in Nat
    BY <2>4, FS_CardinalityType
  <2>6. row'.status = "running" => Cardinality(Loose') <= LargestStage * faults' + late'
    BY <1>0, <2>1, <2>4, <2>5, FaultsTyped
  <2>7. QED
    BY <1>0, <2>4, <2>6 DEF StrayInv
<1>3. QED
  BY <1>1, <1>2 DEF JobMoves

LEMMA StrayStep ==
  ASSUME Helper = {}, MaxStops = 0, TypeOK, Alone, StrayInv, [Next]_vars
  PROVE  StrayInv'
<1>1. CASE TimePasses \/ UNCHANGED vars
  <2>1. UNCHANGED <<row, jobVars, pc, own, faults, late>> /\ LargestStage' = LargestStage
    BY <1>1 DEF TimePasses, vars, procVars, counters, LargestStage
  <2>2. Loose' = Loose
    BY <2>1 DEF Loose, Waited, Active, jobVars
  <2>3. QED
    BY <2>1, <2>2 DEF StrayInv
<1>2. Process = {Manager, Operator} /\ Manager # Operator
  BY CampaignAssumption DEF Process, Stepper
<1>3. ~StopReads /\ ~StopWrites /\ ~Crash(Operator)
  BY DEF StopReads, StopWrites, Crash, Alone, TypeOK
<1>4. QED
  BY <1>1, <1>2, <1>3, StepStray, FaultStray, JobsStray DEF Next, ManagerStep, JobMoves

LEMMA StrayInit == Init => StrayInv
<1> SUFFICES ASSUME Init PROVE StrayInv
  OBVIOUS
<1>1. Manager \in Process /\ Operator \in Process
  BY DEF Process, Stepper
<1>2. /\ own[Manager] = {} /\ own[Operator] = {} /\ pc[Manager] = "idle"
      /\ faults = 0 /\ late = 0 /\ row.state.pending.jobs = {}
  BY <1>1 DEF Init, FreshRow, FreshState, NoStage
<1>3. Loose = {}
  BY DEF Loose, Active, Init, Queue!Init
<1>4. LargestStage * 0 = 0
  BY LargestStageType
<1>5. QED
  BY <1>2, <1>3, <1>4, EmptyFits, FS_EmptySet DEF StrayInv

\* Jobs of a running campaign that it neither waits for nor is about to record
\* are bounded by what went wrong, for any candidates, scenarios and bounds.
THEOREM StrayJobsBounded ==
  ASSUME Helper = {}, MaxStops = 0
  PROVE  Spec => []StrayJobsNeedFaults
<1>1. TypeOK /\ Alone /\ StrayInv => StrayJobsNeedFaults
  <2> SUFFICES ASSUME TypeOK, Alone, StrayInv, row.status = "running"
               PROVE  Cardinality(Stray) <= LargestStage * faults + late
    BY DEF StrayJobsNeedFaults
  <2>1. Manager \in Process
    BY DEF Process, Stepper
  <2>2. own[Manager] \subseteq Recording
    BY <2>1 DEF Recording
  <2>3. Stray \subseteq Loose
    BY <2>2 DEF Stray, Loose, Waited
  <2>4. /\ Cardinality(Stray) \in Nat /\ Cardinality(Loose) \in Nat
        /\ Cardinality(Stray) <= Cardinality(Loose)
    BY <2>3, FS_Subset, FS_CardinalityType DEF StrayInv
  <2>5. QED
    BY <2>4, FaultsTyped DEF StrayInv
<1>2. Init => Alone /\ StrayInv
  BY AloneInit, StrayInit
<1>3. TypeOK /\ Alone /\ StrayInv /\ [Next]_vars => Alone' /\ StrayInv'
  BY AloneStep, StrayStep
<1>4. QED
  BY <1>1, <1>2, <1>3, CampaignTypeCorrect, PTL DEF Spec
=============================================================================
