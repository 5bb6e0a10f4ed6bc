\* One service of two containers, two notifiers that dispatch the same, four
\* ticks, and one thing that goes wrong at any point.
SPECIFICATION Spec
CONSTANTS
  Service = {worker}
  Containers = 2
  Notifier = {manager, api}
  Fingerprint = {f1}
  ShortLimit = 1
  ShortWindow = 0
  LongLimit = 2
  LongWindow = 3
  Cooldown = 2
  Patience = 1
  NewestRecords = 2
  MaxBeatAge = 1
  MaxTime = 4
  MaxRequests = 3
  MaxFaults = 1
INVARIANTS
  RestartsBounded
  OneRunPerCooldown
CHECK_DEADLOCK FALSE
