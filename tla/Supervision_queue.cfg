\* Two families of which one waits for its bootstrap, two processes that
\* bootstrap, and three edits by hand.
SPECIFICATION Spec
CONSTANTS
  Family = {1, 2}
  Step = {s1}
  Booter = {api, cli}
  FirstApproval <- MCFirstApproval
  GivenPriority <- MCGivenPriority
  Bootstrapped = {1}
  Approvals = {"rejected", "approved"}
  Covers <- MCCovers
  MaxEdits = 3
  MaxPriority = 3
INVARIANTS
  TypeOK
  EntryHasDefinition
PROPERTIES
  StartIsGoverned
  QueueKeepsEntries
  ReadyIsServed
CHECK_DEADLOCK FALSE
