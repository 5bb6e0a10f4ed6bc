----------------------------- MODULE Evaluation -----------------------------
(* How research decides on its candidates: experiments.py over the verdicts of *)
(* metrics._evaluate_run.  A program runs its control and candidates through   *)
(* the promotion check, shortlists the viable ones, runs the stress pack on    *)
(* each and then freezes one or continues; a tranche compares candidates with  *)
(* the control only.  What a backtest measures is an input.                    *)
EXTENDS Ranking, Integers, Sequences, FiniteSets

CONSTANTS Focused,      \* candidates of the first tranche, in order (numbers)
          Pivot,        \* candidates of the benchmark pivot, after them
          Evidence,     \* what a promotion check of one config may measure
          Scenarios,    \* of the stress pack
          Policy,       \* PromotionPolicyConfig, frozen and versioned profile
          Limits        \* EvaluationConfig

\* What the report of one run holds of a period, in whole units.
Result == [trades : Nat, turnover : Int, drawdown : Int, gain : Int, market : Int,
           missing : BOOLEAN]

ASSUME CandidatesAssumption ==
    /\ Focused \subseteq Nat /\ IsFiniteSet(Focused)
    /\ Pivot \subseteq Nat /\ IsFiniteSet(Pivot)
    /\ Focused \intersect Pivot = {}

ASSUME EvidenceAssumption ==
    Evidence \subseteq [validation : Result, holdout : Result, walk : Seq(Result)]

\* A promotion check without a period of that label.
NoSplit == [trades |-> 0, turnover |-> 0, drawdown |-> 0, gain |-> 0, market |-> 0,
            missing |-> TRUE]

VARIABLES kind,       \* "operability" or "tranche"
          phase,      \* "focused", "pivot", "stress", "done"
          control,    \* the evidence of the control
          rows,       \* the evidence of each candidate that was run
          shortlist,  \* candidates to stress, best first
          stress,     \* stressed candidates |-> stress_ok
          decision    \* recommended_action and the selected candidate

vars == <<kind, phase, control, rows, shortlist, stress, decision>>

None == 0 - 1

------------------------------------------------------------------------------
(* metrics._evaluate_run *)

Excess(f) == f.gain - f.market

FailFlags(f) ==
    {x \in {"zero_trade_run", "insufficient_trade_count", "excessive_turnover",
            "excessive_drawdown", "material_benchmark_underperformance"} :
       \/ x = "zero_trade_run" /\ f.trades = 0 /\ Limits.failOnZeroTrades
       \/ x = "insufficient_trade_count" /\ f.trades > 0 /\ f.trades <= Limits.failTrades
       \/ x = "excessive_turnover" /\ f.turnover > Limits.failTurnover
       \/ x = "excessive_drawdown" /\ f.drawdown > Limits.failDrawdown
       \/ x = "material_benchmark_underperformance" /\ Excess(f) < Limits.failExcess}

WarnFlags(f) ==
    {x \in {"zero_trade_run", "low_trade_count", "high_turnover", "high_drawdown",
            "benchmark_underperformance", "underperformed_benchmark"} :
       \/ x = "zero_trade_run" /\ f.trades = 0 /\ ~Limits.failOnZeroTrades
       \/ x = "low_trade_count" /\ f.trades > Limits.failTrades /\ f.trades > 0
                                /\ f.trades <= Limits.warnTrades
       \/ x = "high_turnover" /\ f.turnover \in Limits.warnTurnover + 1 .. Limits.failTurnover
       \/ x = "high_drawdown" /\ f.drawdown \in Limits.warnDrawdown + 1 .. Limits.failDrawdown
       \/ x = "benchmark_underperformance"
            /\ Excess(f) \in Limits.failExcess .. Limits.warnExcess - 1
       \/ x = "underperformed_benchmark" /\ Limits.flagUnderperform /\ f.gain < f.market}

Status(f) ==
    IF f.missing THEN "unknown"
    ELSE IF FailFlags(f) # {} THEN "fail" ELSE IF WarnFlags(f) # {} THEN "warn" ELSE "pass"

------------------------------------------------------------------------------
(* summarize_walkforward_promotion and summarize_promotion_readiness *)

Passes(walk) == Cardinality({k \in DOMAIN walk : Status(walk[k]) = "pass"})

\* What a total is divided by: the average of no window is zero.
Windows(s) == IF Len(s) = 0 THEN 1 ELSE Len(s)
Average(s) == Total(s) \div Windows(s)

WalkExcess(walk)   == [k \in DOMAIN walk |-> Excess(walk[k])]
WalkDrawdown(walk) == [k \in DOMAIN walk |-> walk[k].drawdown]
WalkTurnover(walk) == [k \in DOMAIN walk |-> walk[k].turnover]

\* The averages are compared exactly, as totals of the windows.
WalkEligible(walk) ==
    /\ Len(walk) >= Policy.minWindows
    /\ Passes(walk) >= Policy.minPassWindows
    /\ Total(WalkExcess(walk)) >= Policy.minWalkExcess * Windows(walk)
    /\ Total(WalkDrawdown(walk)) <= Policy.maxWalkDrawdown * Windows(walk)
    /\ Total(WalkTurnover(walk)) <= Policy.maxWalkTurnover * Windows(walk)

\* A required split must be there and pass; one that is there must clear its excess.
SplitOk(f, required, least) ==
    /\ required => Status(f) = "pass"
    /\ ~f.missing => Excess(f) >= least

\* Mutant: the holdout is asked of the validation split.
EligibleOnValidation(e) ==
    /\ Policy.requireFrozen => Policy.frozen /\ Policy.versioned
    /\ WalkEligible(e.walk)
    /\ SplitOk(e.validation, Policy.requireValidation, Policy.minValidation)
    /\ SplitOk(e.validation, Policy.requireHoldout, Policy.minHoldout)

\* No reason to fail the promotion check.
Eligible(e) ==
    /\ Policy.requireFrozen => Policy.frozen /\ Policy.versioned
    /\ WalkEligible(e.walk)
    /\ SplitOk(e.validation, Policy.requireValidation, Policy.minValidation)
    /\ SplitOk(e.holdout, Policy.requireHoldout, Policy.minHoldout)

------------------------------------------------------------------------------
(* Ranking of candidates. *)

Bit(b) == IF b THEN 1 ELSE 0

\* _candidate_decision_score, without the configuration fields at its end.
Score(e) ==
    <<Bit(Eligible(e)), Bit(Status(e.validation) # "fail"), Bit(Status(e.holdout) # "fail"),
      Excess(e.holdout), Excess(e.validation), Passes(e.walk),
      0 - e.validation.turnover - e.holdout.turnover - Average(WalkTurnover(e.walk)),
      0 - e.validation.drawdown - e.holdout.drawdown - Average(WalkDrawdown(e.walk))>>

\* The key of _select_tranche_candidate.
TrancheScore(e) ==
    <<Bit(Eligible(e)), Excess(e.validation), Excess(e.holdout), Passes(e.walk),
      0 - e.validation.turnover - e.holdout.turnover,
      0 - e.validation.drawdown - e.holdout.drawdown>>

\* _operability_candidate_viable
Viable(e, ctl) ==
    /\ Status(e.validation) # "fail" /\ Status(e.holdout) # "fail"
    /\ Excess(e.holdout) > 0
    /\ Excess(e.holdout) >= Excess(ctl.holdout)

\* _candidate_beats_control
BeatsControl(e, ctl) ==
    /\ Status(e.validation) # "fail" /\ Status(e.holdout) # "fail"
    /\ Excess(e.validation) > Excess(ctl.validation)
    /\ Excess(e.holdout) > Excess(ctl.holdout)

Ranking(rs, ctl) ==
    LET viable == {c \in DOMAIN rs : Viable(rs[c], ctl)}
    IN Sorted(viable, [c \in viable |-> Score(rs[c])])

\* The focused tranche succeeds if its best candidate restores walk-forward.
FocusedSuccess(rs, ctl) ==
    LET best == Ranking(rs, ctl)
    IN best # <<>> /\ Passes(rs[best[1]].walk) > Passes(ctl.walk)

Shortlist(rs, ctl) ==
    LET best == Ranking(rs, ctl)
    IN SubSeq(best, 1, IF Len(best) < 3 THEN Len(best) ELSE 3)

\* Mutant: the shortlist keeps its order, whatever the stress pack said.
SelectByScore(list, rs, ok) == IF list = <<>> THEN None ELSE list[1]

\* The best of the shortlist: stress first, then the score.
Select(list, rs, ok) ==
    LET listed == {list[k] : k \in DOMAIN list}
        key    == [c \in listed |-> <<Bit(ok[c])>> \o Score(rs[c])]
    IN IF list = <<>> THEN None ELSE Sorted(listed, key)[1]

------------------------------------------------------------------------------
Init ==
    /\ kind \in {"operability", "tranche"}
    /\ phase = "focused"
    /\ control \in Evidence
    /\ rows = <<>>
    /\ shortlist = <<>>
    /\ stress = <<>>
    /\ decision = [action |-> "none", selected |-> None]

\* _run_operability_tranche on the focused scenarios.
RunFocused ==
    /\ phase = "focused" /\ kind = "operability"
    /\ rows' \in [Focused -> Evidence]
    /\ IF FocusedSuccess(rows', control)
       THEN phase' = "stress" /\ shortlist' = Shortlist(rows', control)
       ELSE phase' = "pivot" /\ UNCHANGED shortlist
    /\ UNCHANGED <<kind, control, stress, decision>>

\* The pivot is seeded from the best focused candidate and joins the pool.
RunPivot ==
    /\ phase = "pivot"
    /\ \E more \in [Pivot -> Evidence] :
         rows' = [c \in Focused \union Pivot |-> IF c \in Focused THEN rows[c] ELSE more[c]]
    /\ phase' = "stress"
    /\ shortlist' = Shortlist(rows', control)
    /\ UNCHANGED <<kind, control, stress, decision>>

\* _evaluate_stress_pack on the next of the shortlist: no scenario may fail.
Stress ==
    /\ phase = "stress" /\ Cardinality(DOMAIN stress) < Len(shortlist)
    /\ \E results \in [Scenarios -> Evidence] :
         LET c == shortlist[Cardinality(DOMAIN stress) + 1]
             broken == {s \in Scenarios : Status(results[s].validation) = "fail"
                                          \/ Status(results[s].holdout) = "fail"}
         IN stress' = [d \in DOMAIN stress \union {c} |->
                         IF d = c THEN broken = {} ELSE stress[d]]
    /\ UNCHANGED <<kind, phase, control, rows, shortlist, decision>>

PivotUsed == Pivot \subseteq DOMAIN rows

Decide ==
    /\ phase = "stress" /\ Cardinality(DOMAIN stress) = Len(shortlist)
    /\ LET c == Select(shortlist, rows, stress)
       IN decision' = [selected |-> c,
                       action |-> IF c = None THEN "continue_research"
                                  ELSE IF Eligible(rows[c]) /\ stress[c] THEN "freeze_candidate"
                                  ELSE IF PivotUsed THEN "continue_benchmark_pivot"
                                  ELSE "continue_focused_research"]
    /\ phase' = "done"
    /\ UNCHANGED <<kind, control, rows, shortlist, stress>>

\* _run_research_tranche: candidates must improve on both splits of the control.
RunTranche ==
    /\ phase = "focused" /\ kind = "tranche"
    /\ rows' \in [Focused -> Evidence]
    /\ LET better == {c \in Focused : BeatsControl(rows'[c], control)}
           best == Sorted(better, [c \in better |-> TrancheScore(rows'[c])])
       IN decision' = IF best = <<>> THEN [action |-> "continue_research", selected |-> None]
                      ELSE [action |-> IF Eligible(rows'[best[1]]) THEN "promote_candidate"
                                       ELSE "continue_research",
                            selected |-> best[1]]
    /\ phase' = "done"
    /\ UNCHANGED <<kind, control, shortlist, stress>>

Next == RunFocused \/ RunPivot \/ Stress \/ Decide \/ RunTranche

Spec == Init /\ [][Next]_vars

------------------------------------------------------------------------------
(* Properties. *)

\* A candidate is put forward only on evidence: its validation and holdout runs
\* raised no flag of the evaluation policy, enough walk-forward windows raised
\* none, it keeps the control's holdout edge, and a frozen one survived every
\* scenario of the stress pack (run_operability_program, _run_research_tranche).
PutForwardOnEvidence ==
    decision.action \in {"freeze_candidate", "promote_candidate"} =>
      LET e == rows[decision.selected]
          Clean(f) == ~f.missing /\ FailFlags(f) = {} /\ WarnFlags(f) = {}
      IN /\ Clean(e.validation) /\ Clean(e.holdout)
         /\ Cardinality({k \in DOMAIN e.walk : Clean(e.walk[k])}) >= Policy.minPassWindows
         /\ Excess(e.holdout) >= Excess(control.holdout)
         /\ decision.action = "freeze_candidate" => stress[decision.selected]

\* A program that does not freeze has no candidate it could have frozen: each
\* viable and eligible one broke under stress, or three other eligible ones with
\* a better score took the places of the stress pack and broke.
NothingOverlooked ==
    phase = "done" /\ kind = "operability" /\ decision.action # "freeze_candidate" =>
      \A c \in DOMAIN rows : Viable(rows[c], control) /\ Eligible(rows[c]) =>
        \/ c \in DOMAIN stress /\ ~stress[c]
        \/ /\ c \notin DOMAIN stress /\ Cardinality(DOMAIN stress) = 3
           /\ \A d \in DOMAIN stress : Eligible(rows[d]) /\ ~stress[d]

==============================================================================
