\* One job that two workers fight over, with take-backs, a crash and restarts.
SPECIFICATION FairSpec
CONSTANTS
  Job = {j1}
  Worker = {w1, w2}
  NoJob = NoJob
  NoWorker = NoWorker
  CampaignJob = {j1}
  Priority <- SamePriority
  MaxAttempts = 2
  MaxCrashes = 1
INVARIANTS
  AttemptLedger
  RetryBudget
  ArtifactsOfOneCompletedAttempt
PROPERTIES
  FinalUnlessLate
  EveryJobSettles
