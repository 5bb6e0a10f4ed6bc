---------------------------- MODULE CampaignPlan ----------------------------
(***************************************************************************)
(* What a research campaign promises to the people and the director that   *)
(* start it (README.md, "Campaign phases currently follow this path"): the *)
(* order of its phases, which failures end it, and that it ends but once.  *)
(* There is no database, no job and no process here.  A campaign that one  *)
(* manager alone advances implements this plan (module Campaign).          *)
(***************************************************************************)
VARIABLES status,    \* campaigns.status
          phase,     \* campaigns.phase
          tried      \* the pivots whose results the campaign has recorded

vars == <<status, phase, tried>>

Pivots == {"benchmark_pivot", "stability_pivot"}

Init == status = "running" /\ phase = "focused_operability" /\ tried = {}

\* The phase moves on; a pivot is recorded when it is left.
Advance(next) ==
  /\ status = "running"
  /\ phase' = next
  /\ tried' = tried \cup ({phase} \cap Pivots)
  /\ UNCHANGED status

\* Focused tuning leads to the stress pack or, without success, to a pivot.
FocusedDone ==
  phase = "focused_operability" /\ (Advance("stress_pack") \/ Advance("benchmark_pivot"))

BenchmarkDone ==
  phase = "benchmark_pivot" /\ (Advance("stress_pack") \/ Advance("stability_pivot"))

StabilityDone ==
  phase = "stability_pivot" /\ Advance("stress_pack")

\* A stress pack without a survivor leads to the first pivot not yet tried.
StressDone ==
  /\ phase = "stress_pack"
  /\ \/ "benchmark_pivot" \notin tried /\ Advance("benchmark_pivot")
     \/ /\ "benchmark_pivot" \in tried /\ "stability_pivot" \notin tried
        /\ Advance("stability_pivot")

End(outcome) ==
  /\ status = "running"
  /\ status' = outcome
  /\ UNCHANGED <<phase, tried>>

\* Only a stress pack freezes a candidate; a campaign may run out of its
\* budget, fail, or be stopped, in any phase.
Freeze  == phase = "stress_pack" /\ End("completed")
Exhaust == End("exhausted")
Fail    == End("failed")
Stop    == End("stopped")

Next ==
  \/ FocusedDone \/ BenchmarkDone \/ StabilityDone \/ StressDone
  \/ Freeze \/ Exhaust \/ Fail \/ Stop

Spec == Init /\ [][Next]_vars
=============================================================================
