\* Two jobs: transactions that touch several jobs and workers at once.
SPECIFICATION Spec
CONSTANTS
  Job = {j1, j2}
  Worker = {w1, w2}
  NoJob = NoJob
  NoWorker = NoWorker
  CampaignJob = {j1}
  Priority <- OneUrgent
  MaxAttempts = 1
  MaxCrashes = 1
SYMMETRY WorkerSymmetry
INVARIANTS
  TypeOK
  LeaseMatchesStatus
  HolderHasNewestAttempt
PROPERTIES
  ImplementsContract
