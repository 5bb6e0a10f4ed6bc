\* A stress scenario without a result.
SPECIFICATION Spec
CONSTANTS
  Manager = manager
  Helper = {}
  Operator = operator
  Control = control
  Candidate = {c1}
  Scenario = {s1, s2}
  MaxJobs = 0
  MaxAttempts = 1
  MaxStages = 2
  MaxFaults = 0
  MaxLate = 0
  MaxStops = 0
  MaxEvents = 0
  HasTimeBudget = FALSE
PROPERTIES
  FrozenAfterWholePack
CHECK_DEADLOCK FALSE
