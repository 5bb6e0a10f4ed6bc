\* One manager, with a crash, a runtime error, a late report or the end of the
\* time budget: how a campaign goes and ends.
SPECIFICATION FairSpec
CONSTANTS
  Manager = manager
  Helper = {}
  Operator = operator
  Control = control
  Candidate = {c1}
  Scenario = {s1}
  MaxJobs = 0
  MaxAttempts = 1
  MaxStages = 7
  MaxFaults = 1
  MaxLate = 1
  MaxStops = 0
  MaxEvents = 1
  HasTimeBudget = TRUE
INVARIANTS
  TypeOK
  StrayJobsNeedFaults
PROPERTIES
  FollowsPlan
  CampaignEnds
CHECK_DEADLOCK FALSE
