\* Two processes step a campaign that may submit few jobs; an operator stops it
\* or something fails.
SPECIFICATION Spec
CONSTANTS
  Manager = manager
  Helper = {helper}
  Operator = operator
  Control = control
  Candidate = {c1}
  Scenario = {s1}
  MaxJobs = 3
  MaxAttempts = 1
  MaxStages = 4
  MaxFaults = 1
  MaxLate = 0
  MaxStops = 1
  MaxEvents = 1
  HasTimeBudget = FALSE
INVARIANTS
  PendingJobsSubmitted
  RunningUndecided
  OvershootBounded
CHECK_DEADLOCK FALSE
