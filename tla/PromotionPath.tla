--------------------------- MODULE PromotionPath ----------------------------
(***************************************************************************)
(* promotion_path.py: from the latest history entry of each profile, the   *)
(* research programs and the candidate of the current campaign to one      *)
(* leading candidate, and from it to the gate of paper trading.  Pure      *)
(* operators over the summaries the module reads.                          *)
(*                                                                         *)
(* A string that is empty is FALSE, one that is not TRUE; a timestamp is   *)
(* a number, and Now - time is its age.                                    *)
(***************************************************************************)
EXTENDS Integers, FiniteSets

CONSTANTS
  Profile,      \* names of profiles
  StaleAge,     \* PROMOTION_PATH_STALE_HOURS
  Horizon       \* bound: timestamps are in 0 .. Horizon

ASSUME PromotionAssumption == StaleAge \in Nat /\ Horizon \in Nat

Recommendations == {"paper_trade_next", "needs_more_research", "reject"}
States  == {"paper_trade_next", "needs_followup", "research_only", "promotion_blocked"}
Sources == {"active_campaign", "most_recent_terminal_campaign", "research_program", "profile_history"}
ProgramStatuses == {"active", "promoted", "retired"}

\* The newest line of profile_history/<profile>.jsonl.
History == [eligible : BOOLEAN, promoted : BOOLEAN, failed : BOOLEAN, frozen : BOOLEAN,
            config : BOOLEAN, time : 0 .. Horizon]
\* A program of the portfolio, with the step it selects.
Program == [profile : Profile, status : ProgramStatuses, eligible : BOOLEAN]
\* The candidate of the campaign in focus.
Current == [profile : Profile, source : {"active_campaign", "most_recent_terminal_campaign"},
            recommended : Recommendations, eligible : BOOLEAN,
            status : {"running", "completed", "stopped"}, time : 0 .. Horizon]
Candidate == [profile : Profile, state : States, source : Sources, promoted : BOOLEAN,
              frozen : BOOLEAN, config : BOOLEAN, time : 0 .. Horizon]

RecommendationState(recommended, failed, promoted, eligible, status) ==
  CASE promoted \/ eligible \/ recommended = "paper_trade_next" -> "paper_trade_next"
    [] ~(promoted \/ eligible \/ recommended = "paper_trade_next")
         /\ (failed \/ status = "retired" \/ recommended = "reject") -> "promotion_blocked"
    [] OTHER -> IF recommended = "needs_more_research" \/ status \in {"active", "running", "queued"}
                THEN "needs_followup" ELSE "research_only"

Advice(good) == IF good THEN "paper_trade_next" ELSE "needs_more_research"

\* _record_from_history
FromHistory(p, h) ==
  [profile |-> p, source |-> "profile_history",
   state |-> RecommendationState(Advice(h.promoted \/ h.eligible), h.failed, h.promoted, h.eligible, "history"),
   promoted |-> h.promoted, frozen |-> h.frozen, config |-> h.config, time |-> h.time]

\* _record_from_program: a summary of a program is recorded now, whatever the
\* age of what it summarises, and names the config of its step.
FromProgram(g, hs, now) ==
  LET promoted == \E h \in hs : h.promoted
      failed == \E h \in hs : h.failed
  IN [profile |-> g.profile, source |-> "research_program",
      state |-> RecommendationState(Advice(promoted \/ g.eligible), failed, promoted, g.eligible, g.status),
      promoted |-> promoted, frozen |-> \E h \in hs : h.frozen, config |-> TRUE, time |-> now]

\* _record_from_current_best_candidate: never promoted, frozen or configured.
FromCurrent(c) ==
  [profile |-> c.profile, source |-> c.source,
   state |-> RecommendationState(c.recommended, FALSE, FALSE, c.eligible, c.status),
   promoted |-> FALSE, frozen |-> FALSE, config |-> FALSE, time |-> c.time]

\* _merge_candidate_records: the overlay wins unless it is an empty string;
\* False is not empty.
Merge(base, overlay) ==
  [overlay EXCEPT !.frozen = @ \/ base.frozen, !.config = @ \/ base.config]

\* build_candidate_progression_summary: the records by profile.  history maps
\* the profiles that have one to their entry; current has at most one member.
Records(history, programs, current, now) ==
  LET Of(p)   == IF p \in DOMAIN history THEN {history[p]} ELSE {}
      Base(p) == LET own == {g \in programs : g.profile = p}
                 IN IF own = {} THEN {FromHistory(p, h) : h \in Of(p)}
                    ELSE {LET r == FromProgram(g, Of(p), now)
                          IN IF Of(p) = {} THEN r
                             ELSE Merge(FromHistory(p, history[p]), r) : g \in own}
      Full(p) == LET own == {FromCurrent(c) : c \in {x \in current : x.profile = p}}
                 IN IF own = {} THEN Base(p)
                    ELSE IF Base(p) = {} THEN own
                    ELSE {Merge(b, o) : b \in Base(p), o \in own}
  IN UNION {Full(p) : p \in Profile}

StateRank(s) == CASE s = "paper_trade_next" -> 4 [] s = "needs_followup" -> 3
                  [] s = "research_only" -> 2 [] s = "promotion_blocked" -> 1
SourceRank(s) == CASE s = "active_campaign" -> 4 [] s = "most_recent_terminal_campaign" -> 3
                   [] s = "research_program" -> 2 [] s = "profile_history" -> 1

\* _candidate_record_sort_key, as a lexicographic order.
SortKey(r) == <<StateRank(r.state), SourceRank(r.source), IF r.promoted THEN 1 ELSE 0, r.time>>
Before(k, m) == \E i \in 1 .. 4 : k[i] < m[i] /\ \A j \in 1 .. i - 1 : k[j] = m[j]

\* The first of the sorted records; a tie may fall either way.
Leading(records) == {r \in records : \A s \in records : ~Before(SortKey(r), SortKey(s))}

Fresh(time, now) == now - time <= StaleAge

\* A target names what the gate looks at.
TargetOf(r) == [promoted |-> r.promoted, frozen |-> r.frozen, config |-> r.config]

\* build_paper_trade_entry_gate.  explicit and leading have at most one member;
\* freshness and the recommendation are asked of a leading candidate only.
EntryGate(explicit, leading, now) ==
  LET targets == IF explicit # {} THEN explicit ELSE {TargetOf(r) : r \in leading}
      led == explicit = {}
  IN CASE targets = {} \/ \E t \in targets : ~t.promoted -> "no_promoted_candidate"
       [] \E t \in targets : t.promoted /\ ~t.frozen -> "profile_not_frozen"
       [] \E t \in targets : t.promoted /\ t.frozen /\ ~t.config -> "config_path_missing"
       [] OTHER ->
            IF led /\ \E r \in leading : r.state # "paper_trade_next" THEN "recommendation_not_ready"
            ELSE IF led /\ \E r \in leading : ~Fresh(r.time, now) THEN "stale"
            ELSE "ready"

\* _resolve_runner_target without a config path: the newest eligible,
\* promoted and frozen profile that names a config.
RunnerTargets(history) ==
  LET usable == {p \in DOMAIN history :
                   history[p].eligible /\ history[p].promoted /\ history[p].frozen /\ history[p].config}
  IN {p \in usable : \A q \in usable : history[q].time <= history[p].time}
=============================================================================
