\* Two focused and two pivot candidates, six kinds of evidence, two scenarios.
SPECIFICATION Spec
CONSTANTS
  Focused = {1, 2}
  Pivot = {3, 4}
  Evidence <- TheEvidence
  Scenarios = {"cost_step_up", "slower_deployment"}
  Policy <- ThePolicy
  Limits <- TheLimits
INVARIANTS
  PutForwardOnEvidence
  NothingOverlooked
CHECK_DEADLOCK FALSE
