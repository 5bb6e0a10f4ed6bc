--------------------------- MODULE PaperRehearsal ---------------------------
(***************************************************************************)
(* paper_rehearsal.py: the daily runner and the operator's actions, both   *)
(* processes that read state.json, append to the logs and then replace     *)
(* state.json by their copy with changes.  Each file is replaced or        *)
(* appended to atomically; nothing holds them together, and a process may  *)
(* die between two of them.                                                *)
(***************************************************************************)
EXTENDS PromotionPath, Sequences

CONSTANTS
  Runner,      \* processes that run paper-trade-runner
  Operator,    \* processes that record operator actions
  Window,      \* days an action looks back (200)
  MaxDays,     \* bound: days recorded
  MaxActions,  \* bound: actions of operators
  MaxEdits,    \* bound: changes of the profile's evidence
  MaxCrashes   \* bound: crashes of processes

ASSUME PaperAssumption ==
  /\ Runner \cap Operator = {}
  /\ Window \in Nat \ {0}
  /\ {MaxDays, MaxActions, MaxEdits, MaxCrashes} \subseteq Nat

VARIABLES
  history,   \* the newest history entry of each profile that has one
  programs,  \* the programs of the portfolio
  file,      \* research.promoted of each profile's config file
  now,       \* the clock of the evidence
  days,      \* days.jsonl
  latest,    \* latest_day.json
  actions,   \* operator_actions.jsonl
  state,     \* state.json
  proc,      \* what each process is doing
  overlap,   \* two processes were at work at once
  edits, crashes   \* counters for the bounds

evidence == <<history, programs, file, now>>
vars == <<evidence, days, latest, actions, state, proc, overlap, edits, crashes>>

Process == Runner \cup Operator
DayId   == 1 .. MaxDays
None    == 0

\* portfolio names the day whose target holdings it was taken from.
State == [portfolio : 0 .. MaxDays, accepted : 0 .. MaxDays, current : 0 .. MaxDays,
          status : {"none", "ready", "blocked"}, ready : 0 .. MaxDays]
FirstState == [portfolio |-> None, accepted |-> None, current |-> None, status |-> "none", ready |-> None]

\* Of a recorded day only its status is told apart.
Day == {"ready", "blocked"}

Action == [action : {"accepted", "skipped", "overridden", "blocked"}, day : DayId]

Idle == [pc |-> "idle", seen |-> FirstState, day |-> "blocked", id |-> None, action |-> "none"]
Set(p, r) == proc' = [proc EXCEPT ![p] = r]
Busy      == {p \in Process : proc[p].pc # "idle"}
Begin(p, r) == Set(p, r) /\ overlap' = (overlap \/ Busy # {})

Init ==
  /\ \E S \in SUBSET Profile : history \in [S -> [eligible : BOOLEAN, promoted : {TRUE}, failed : {FALSE},
                                                 frozen : {TRUE}, config : {TRUE}, time : {0}]]
  /\ programs \in {{g} : g \in [profile : Profile, status : {"active"}, eligible : {FALSE}]} \cup {{}}
  /\ file \in [Profile -> BOOLEAN]
  /\ now = 0
  /\ days = <<>> /\ latest = None /\ actions = <<>>
  /\ state = FirstState
  /\ proc = [p \in Process |-> Idle]
  /\ overlap = FALSE /\ edits = 0 /\ crashes = 0

-----------------------------------------------------------------------------
\* run_paper_trade_runner.  The state is read first, and written back last.

Package == [promoted : BOOLEAN, stale : BOOLEAN, missing : BOOLEAN]
\* _blocking_conditions
Blocking(package) == ~package.promoted \/ package.stale \/ package.missing

\* The package of the profile's config, whose file says whether it is
\* promoted; load_config or the decision may also fail.
Decide(profile) ==
  {IF Blocking(k) THEN "blocked" ELSE "ready" : k \in {k \in Package : k.promoted = file[profile]}} \cup {"blocked"}

\* The newest promoted profile is the target; without one the leading
\* candidate is, if the gate lets it through.
Decisions ==
  LET targets == RunnerTargets(history)
      leading == Leading(Records(history, programs, {}, now))
  IN IF targets # {}
     THEN UNION {Decide(p) : p \in targets}
     ELSE UNION ({IF EntryGate({}, {r}, now) = "ready" THEN Decide(r.profile) ELSE {"blocked"} : r \in leading}
                  \cup {IF leading = {} THEN {"blocked"} ELSE {}})

\* The config path may also be given: then its file says promoted and frozen.
DecisionsFor(p) == IF file[p] THEN Decide(p) ELSE {"blocked"}

ReadAndDecide(r) ==
  /\ proc[r].pc = "idle"
  /\ \E d \in Decisions \cup UNION {DecisionsFor(p) : p \in Profile} :
       Begin(r, [Idle EXCEPT !.pc = "append", !.seen = state, !.day = d])
  /\ UNCHANGED <<evidence, days, latest, actions, state, edits, crashes>>

\* The artifacts of a ready day are written before it is appended.
AppendDay(r) ==
  /\ proc[r].pc = "append" /\ Len(days) < MaxDays
  /\ days' = Append(days, proc[r].day)
  /\ Set(r, [proc[r] EXCEPT !.pc = "latest", !.id = Len(days) + 1])
  /\ UNCHANGED <<evidence, latest, actions, state, overlap, edits, crashes>>

WriteLatest(r) ==
  /\ proc[r].pc = "latest"
  /\ latest' = proc[r].id
  /\ Set(r, [proc[r] EXCEPT !.pc = IF proc[r].day = "blocked" THEN "log" ELSE "write"])
  /\ UNCHANGED <<evidence, days, actions, state, overlap, edits, crashes>>

\* _record_blocked_day logs an action of the system.
LogBlocked(r) ==
  /\ proc[r].pc = "log"
  /\ actions' = Append(actions, [action |-> "blocked", day |-> proc[r].id])
  /\ Set(r, [proc[r] EXCEPT !.pc = "write"])
  /\ UNCHANGED <<evidence, days, latest, state, overlap, edits, crashes>>

StateAfterDay(seen, id, status) ==
  [seen EXCEPT !.current = id, !.status = status, !.ready = IF status = "ready" THEN id ELSE @]

WriteState(r) ==
  /\ proc[r].pc = "write"
  /\ state' = StateAfterDay(proc[r].seen, proc[r].id, proc[r].day)
  /\ Set(r, Idle)
  /\ UNCHANGED <<evidence, days, latest, actions, overlap, edits, crashes>>

-----------------------------------------------------------------------------
\* record_paper_trade_action.

Recent == {i \in DOMAIN days : i > Len(days) - Window}
Ready  == {i \in Recent : days[i] = "ready"}
Newest(S) == CHOOSE i \in S : \A j \in S : j <= i

\* Mutant: any day may be accepted.
FindAnyDay == Recent

\* _find_day_record: the day that was asked for, or the newest ready one, and
\* only a ready day is acted on.
FindDay == Ready

Choose(o, action) ==
  /\ proc[o].pc = "idle" /\ Len(actions) < MaxActions
  /\ \E i \in FindDay :
       Begin(o, [Idle EXCEPT !.pc = "logAction", !.seen = state, !.id = i, !.action = action])
  /\ UNCHANGED <<evidence, days, latest, actions, state, edits, crashes>>

\* Mutant: an acceptance is only noted in the state.
LogUnlessAccepted(o) ==
  /\ proc[o].pc = "logAction"
  /\ actions' = IF proc[o].action = "accepted" THEN actions
                ELSE Append(actions, [action |-> proc[o].action, day |-> proc[o].id])
  /\ Set(o, [proc[o] EXCEPT !.pc = "writeAction"])
  /\ UNCHANGED <<evidence, days, latest, state, overlap, edits, crashes>>

LogAction(o) ==
  /\ proc[o].pc = "logAction"
  /\ actions' = Append(actions, [action |-> proc[o].action, day |-> proc[o].id])
  /\ Set(o, [proc[o] EXCEPT !.pc = "writeAction"])
  /\ UNCHANGED <<evidence, days, latest, state, overlap, edits, crashes>>

\* Mutant: the portfolio is taken from the day that is current.
StateAfterCurrent(seen, id, action) ==
  LET s == [seen EXCEPT !.current = id, !.status = "ready"]
  IN IF action = "accepted" THEN [s EXCEPT !.portfolio = seen.current, !.accepted = id] ELSE s

StateAfterAction(seen, id, action) ==
  LET s == [seen EXCEPT !.current = id, !.status = "ready"]
  IN IF action = "accepted" THEN [s EXCEPT !.portfolio = id, !.accepted = id] ELSE s

WriteAction(o) ==
  /\ proc[o].pc = "writeAction"
  /\ state' = StateAfterAction(proc[o].seen, proc[o].id, proc[o].action)
  /\ Set(o, Idle)
  /\ UNCHANGED <<evidence, days, latest, actions, overlap, edits, crashes>>

-----------------------------------------------------------------------------
\* The catalog export appends to a profile's history, a config file is edited,
\* time passes.
Publish(p) ==
  /\ edits < MaxEdits /\ edits' = edits + 1
  /\ \E h \in [eligible : BOOLEAN, promoted : BOOLEAN, failed : {FALSE}, frozen : {TRUE},
               config : {TRUE}, time : {now}] :
       history' = [q \in DOMAIN history \cup {p} |-> IF q = p THEN h ELSE history[q]]
  /\ UNCHANGED <<programs, file, now, days, latest, actions, state, proc, overlap, crashes>>

EditConfig(p) ==
  /\ edits < MaxEdits /\ edits' = edits + 1
  /\ file' = [file EXCEPT ![p] = ~@]
  /\ UNCHANGED <<history, programs, now, days, latest, actions, state, proc, overlap, crashes>>

Age ==
  /\ now < Horizon /\ edits < MaxEdits /\ edits' = edits + 1
  /\ now' = now + 1
  /\ UNCHANGED <<history, programs, file, days, latest, actions, state, proc, overlap, crashes>>

Crash(p) ==
  /\ proc[p].pc # "idle" /\ crashes < MaxCrashes
  /\ crashes' = crashes + 1
  /\ Set(p, Idle)
  /\ UNCHANGED <<evidence, days, latest, actions, state, overlap, edits>>

RunnerNext(r) == ReadAndDecide(r) \/ AppendDay(r) \/ WriteLatest(r) \/ LogBlocked(r) \/ WriteState(r)
OperatorNext(o) ==
  \/ \E action \in {"accepted", "skipped", "overridden"} : Choose(o, action)
  \/ LogAction(o) \/ WriteAction(o)

Next ==
  \/ \E r \in Runner : RunnerNext(r)
  \/ \E o \in Operator : OperatorNext(o)
  \/ \E p \in Process : Crash(p)
  \/ \E p \in Profile : Publish(p) \/ EditConfig(p)
  \/ Age

Spec == Init /\ [][Next]_vars

-----------------------------------------------------------------------------
TypeOK ==
  /\ history \in UNION {[S -> History] : S \in SUBSET Profile}
  /\ programs \subseteq Program /\ file \in [Profile -> BOOLEAN] /\ now \in 0 .. Horizon
  /\ days \in Seq(Day) /\ actions \in Seq(Action) /\ latest \in 0 .. MaxDays
  /\ state \in State
  /\ proc \in [Process -> [pc : {"idle", "append", "latest", "log", "write", "logAction", "writeAction"},
                           seen : State, day : Day, id : 0 .. MaxDays,
                           action : {"none", "accepted", "skipped", "overridden"}]]
  /\ overlap \in BOOLEAN

AcceptedInLog(i) == \E k \in DOMAIN actions : actions[k] = [action |-> "accepted", day |-> i]

\* Whatever overlaps and crashes, the paper portfolio is that of the day noted
\* as accepted, a ready day whose acceptance is in the log.
PortfolioWasAccepted ==
  /\ state.portfolio = state.accepted
  /\ state.portfolio # None =>
       /\ state.portfolio \in DOMAIN days /\ days[state.portfolio] = "ready"
       /\ AcceptedInLog(state.portfolio)

\* Operators act on ready days that are in the log; the system on blocked ones.
ActionsFitDays ==
  \A k \in DOMAIN actions :
    /\ actions[k].day \in DOMAIN days
    /\ days[actions[k].day] = IF actions[k].action = "blocked" THEN "blocked" ELSE "ready"

Accepted == {k \in DOMAIN actions : actions[k].action = "accepted"}

\* An accepted day is lost from the portfolio only when two processes overlap
\* (the runner writes back what it read before the acceptance) or one crashes.
LostAcceptNeedsOverlap ==
  (Busy = {} /\ ~overlap /\ crashes = 0 /\ Accepted # {}) =>
    state.portfolio = actions[Newest(Accepted)].day
=============================================================================
