\* The manager and a caller step and control the directors of a one-entry plan;
\* every control, one crash or late write of a campaign, one campaign to adopt.
SPECIFICATION Spec
CONSTANTS
  DirectorId = {d1}
  Manager = manager
  Caller = {api}
  Controls = {"start", "stop", "step", "pause", "resume", "skip"}
  PlanLength = 1
  Adopts = TRUE
  SlowLaunch = FALSE
  Endings = {"frozen", "exhausted"}
  LateWrites = {"running", "failed"}
  MaxUnowned = 1
  MaxCampaigns = 5
  MaxOps = 2
  MaxFaults = 1
INVARIANTS
  LaunchesBounded
  Accounted
  ExhaustedTriedAll
  CompletedByFreeze
PROPERTIES
  TerminalForGood
  DirectorEnds
CHECK_DEADLOCK FALSE
