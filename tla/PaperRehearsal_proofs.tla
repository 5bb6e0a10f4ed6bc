------------------------ MODULE PaperRehearsal_proofs -----------------------
(***************************************************************************)
(* Proofs about PaperRehearsal, for any number of runners, operators, days *)
(* and actions, and any overlap and crash of processes.                    *)
(*                                                                         *)
(* The logs only grow, so what a process has read of the account stays     *)
(* covered by them (Covered).  Whatever a process later writes back, a     *)
(* stale copy included, is therefore an account that was accepted.         *)
(***************************************************************************)
EXTENDS PaperRehearsal, TLAPS

Label == {"idle", "append", "latest", "log", "write", "logAction", "writeAction"}
Proc  == [pc : Label, seen : State, day : Day, id : 0 .. MaxDays,
          action : {"none", "accepted", "skipped", "overridden"}]

\* The part of the type invariant that the files and the processes need.
Typed ==
  /\ days \in Seq(Day) /\ Len(days) <= MaxDays
  /\ actions \in Seq(Action)
  /\ state \in State
  /\ proc \in [Process -> Proc]

\* The acceptance of day i is in the log L.
Logged(i, L) == \E k \in DOMAIN L : L[k] = [action |-> "accepted", day |-> i]

\* An account is covered by days ds and log L.
Covered(s, ds, L) ==
  /\ s.portfolio = s.accepted
  /\ s.portfolio # None =>
       s.portfolio \in DOMAIN ds /\ ds[s.portfolio] = "ready" /\ Logged(s.portfolio, L)

\* What a process is about to write names a day that fits.
Fits(r, ds, L) ==
  /\ r.pc \in {"latest", "log", "write"} => r.id \in DOMAIN ds /\ ds[r.id] = r.day
  /\ r.pc = "log" => r.day = "blocked"
  /\ r.pc \in {"logAction", "writeAction"} =>
       r.id \in DOMAIN ds /\ ds[r.id] = "ready" /\ r.action \in {"accepted", "skipped", "overridden"}
  /\ r.pc = "writeAction" /\ r.action = "accepted" => Logged(r.id, L)

LogFits(ds, L) ==
  \A k \in DOMAIN L :
    L[k].day \in DOMAIN ds /\ ds[L[k].day] = IF L[k].action = "blocked" THEN "blocked" ELSE "ready"

AccountInv ==
  /\ Typed
  /\ Covered(state, days, actions)
  /\ \A p \in Process : Covered(proc[p].seen, days, actions) /\ Fits(proc[p], days, actions)
  /\ LogFits(days, actions)

-----------------------------------------------------------------------------
\* A log that grows by an entry keeps its entries.
LEMMA Grown ==
  ASSUME NEW S, NEW s \in Seq(S), NEW e \in S
  PROVE  /\ Append(s, e) \in Seq(S) /\ Len(Append(s, e)) = Len(s) + 1
         /\ DOMAIN Append(s, e) = DOMAIN s \cup {Len(s) + 1}
         /\ Len(s) + 1 \notin DOMAIN s
         /\ \A i \in DOMAIN s : Append(s, e)[i] = s[i]
         /\ Append(s, e)[Len(s) + 1] = e
  OBVIOUS

\* What was covered, or fitted, still does when days or log grow.
LEMMA KeptByDay ==
  ASSUME NEW ds \in Seq(Day), NEW d \in Day, NEW L
  PROVE  /\ \A s : Covered(s, ds, L) => Covered(s, Append(ds, d), L)
         /\ \A r : Fits(r, ds, L) => Fits(r, Append(ds, d), L)
         /\ LogFits(ds, L) => LogFits(Append(ds, d), L)
  <1>1. DOMAIN Append(ds, d) = DOMAIN ds \cup {Len(ds) + 1} /\ \A i \in DOMAIN ds : Append(ds, d)[i] = ds[i]
    BY Grown
  <1> QED BY <1>1 DEF Covered, Fits, LogFits

LEMMA KeptByAction ==
  ASSUME NEW ds, NEW L \in Seq(Action), NEW a \in Action
  PROVE  /\ \A s : Covered(s, ds, L) => Covered(s, ds, Append(L, a))
         /\ \A r : Fits(r, ds, L) => Fits(r, ds, Append(L, a))
         /\ a.action = "accepted" => Logged(a.day, Append(L, a))
  <1>1. /\ DOMAIN Append(L, a) = DOMAIN L \cup {Len(L) + 1}
        /\ \A i \in DOMAIN L : Append(L, a)[i] = L[i]
        /\ Append(L, a)[Len(L) + 1] = a
    OBVIOUS
  <1>2. \A i : Logged(i, L) => Logged(i, Append(L, a))
    BY <1>1 DEF Logged
  <1>3. a.action = "accepted" => a = [action |-> "accepted", day |-> a.day]
    BY DEF Action
  <1>4. a.action = "accepted" => Logged(a.day, Append(L, a))
    BY <1>1, <1>3 DEF Logged
  <1>5. \A s : Covered(s, ds, L) => Covered(s, ds, Append(L, a))
    BY <1>2 DEF Covered
  <1>6. \A r : Fits(r, ds, L) => Fits(r, ds, Append(L, a))
    BY <1>2 DEF Fits
  <1> QED BY <1>4, <1>5, <1>6

\* A log stays fitting when an entry that fits is appended.
LEMMA LogGrows ==
  ASSUME NEW ds, NEW L \in Seq(Action), NEW a \in Action, LogFits(ds, L), a.day \in DOMAIN ds,
         ds[a.day] = IF a.action = "blocked" THEN "blocked" ELSE "ready"
  PROVE  LogFits(ds, Append(L, a))
  <1>1. /\ DOMAIN Append(L, a) = DOMAIN L \cup {Len(L) + 1}
        /\ \A i \in DOMAIN L : Append(L, a)[i] = L[i]
        /\ Append(L, a)[Len(L) + 1] = a
    OBVIOUS
  <1> QED BY <1>1 DEF LogFits

\* A decision is a status, whatever the evidence.
LEMMA DecisionIsDay ==
  \A d \in Decisions \cup UNION {DecisionsFor(p) : p \in Profile} : d \in Day
  <1>1. \A p : Decide(p) \subseteq Day
    BY DEF Decide, Day
  <1>2. \A d \in Decisions : d \in Day
    BY <1>1 DEF Decisions, Day
  <1> QED BY <1>1, <1>2 DEF DecisionsFor, Day

LEMMA IdleFits ==
  /\ Idle \in Proc
  /\ \A ds, L : Covered(Idle.seen, ds, L) /\ Fits(Idle, ds, L)
  BY PaperAssumption DEF Idle, Proc, Label, State, FirstState, Day, None, Covered, Fits

-----------------------------------------------------------------------------
LEMMA AccountInit == Init => AccountInv
  <1> SUFFICES ASSUME Init PROVE AccountInv OBVIOUS
  <1>1. Typed
    BY IdleFits, PaperAssumption DEF Init, Typed, State, FirstState, None
  <1>2. Covered(state, days, actions)
    BY DEF Init, Covered, FirstState
  <1>3. LogFits(days, actions)
    BY DEF Init, LogFits
  <1>4. \A p \in Process : Covered(proc[p].seen, days, actions) /\ Fits(proc[p], days, actions)
    BY IdleFits DEF Init
  <1> QED BY <1>1, <1>2, <1>3, <1>4 DEF AccountInv

\* One process takes a step and is at r afterwards.
LEMMA OneMoves ==
  ASSUME NEW p \in Process, NEW r \in Proc, Typed, Set(p, r),
         days' \in Seq(Day), Len(days') <= MaxDays, actions' \in Seq(Action), state' \in State,
         Covered(state', days', actions'), LogFits(days', actions'),
         Covered(r.seen, days', actions'), Fits(r, days', actions'),
         \A q \in Process : Covered(proc[q].seen, days', actions') /\ Fits(proc[q], days', actions')
  PROVE  AccountInv'
  <1>1. proc' = [proc EXCEPT ![p] = r] /\ proc' \in [Process -> Proc]
    BY DEF Set, Typed
  <1>2. \A q \in Process : proc'[q] = IF q = p THEN r ELSE proc[q]
    BY <1>1 DEF Typed
  <1>3. \A q \in Process : Covered(proc'[q].seen, days', actions') /\ Fits(proc'[q], days', actions')
    BY <1>2
  <1> QED BY <1>1, <1>3 DEF AccountInv, Typed

\* A process that only looks, decides, gives up or writes latest_day.json.
LEMMA LogsStay ==
  ASSUME NEW p \in Process, NEW r \in Proc, AccountInv, Set(p, r), UNCHANGED <<days, actions, state>>,
         Covered(r.seen, days, actions), Fits(r, days, actions)
  PROVE  AccountInv'
  BY OneMoves DEF AccountInv, Typed

LEMMA RunnerSteps ==
  ASSUME NEW p \in Process, AccountInv, RunnerNext(p)
  PROVE  AccountInv'
  <1> DEFINE r == proc[p]
  <1>0. r \in Proc /\ Covered(r.seen, days, actions) /\ Fits(r, days, actions)
    BY DEF AccountInv, Typed
  <1>1. CASE ReadAndDecide(p)
    <2>1. PICK d \in Decisions \cup UNION {DecisionsFor(q) : q \in Profile} :
            Set(p, [Idle EXCEPT !.pc = "append", !.seen = state, !.day = d])
      BY <1>1 DEF ReadAndDecide, Begin
    <2> DEFINE n == [Idle EXCEPT !.pc = "append", !.seen = state, !.day = d]
    <2>2. d \in Day
      BY DecisionIsDay
    <2>3. n \in Proc /\ n.seen = state /\ n.pc = "append"
      BY <2>2, IdleFits DEF Idle, Proc, Label, AccountInv, Typed
    <2>4. Covered(n.seen, days, actions) /\ Fits(n, days, actions)
      BY <2>3 DEF Fits, AccountInv
    <2>5. UNCHANGED <<days, actions, state>>
      BY <1>1 DEF ReadAndDecide
    <2> HIDE DEF n
    <2> QED BY <2>1, <2>3, <2>4, <2>5, LogsStay DEF n
  <1>2. CASE AppendDay(p)
    <2> DEFINE n == [r EXCEPT !.pc = "latest", !.id = Len(days) + 1]
               ds == Append(days, r.day)
    <2>1. /\ Set(p, n) /\ days' = ds /\ r.pc = "append" /\ Len(days) < MaxDays
          /\ actions' = actions /\ state' = state
      BY <1>2 DEF AppendDay
    <2>2. r.day \in Day /\ Len(days) \in Nat
      BY <1>0 DEF Proc, AccountInv, Typed
    <2>3. /\ ds \in Seq(Day) /\ Len(ds) <= MaxDays /\ ds[Len(days) + 1] = r.day
          /\ Len(days) + 1 \in DOMAIN ds /\ Len(days) + 1 \in 0 .. MaxDays
      BY <2>1, <2>2, Grown, PaperAssumption DEF AccountInv, Typed
    <2>4. n \in Proc /\ n.seen = r.seen /\ n.pc = "latest" /\ n.id = Len(days) + 1 /\ n.day = r.day
      BY <1>0, <2>3 DEF Proc, Label
    <2>5. Fits(n, ds, actions)
      BY <2>3, <2>4 DEF Fits
    <2>6. /\ \A s : Covered(s, days, actions) => Covered(s, ds, actions)
          /\ \A q : Fits(q, days, actions) => Fits(q, ds, actions)
          /\ LogFits(days, actions) => LogFits(ds, actions)
      BY <2>2, KeptByDay DEF AccountInv, Typed
    <2> HIDE DEF n, ds
    <2>7. /\ Covered(state, ds, actions) /\ LogFits(ds, actions) /\ Covered(n.seen, ds, actions)
          /\ \A q \in Process : Covered(proc[q].seen, ds, actions) /\ Fits(proc[q], ds, actions)
      BY <1>0, <2>4, <2>6 DEF AccountInv
    <2>8. Typed
      BY DEF AccountInv
    <2> QED BY <2>1, <2>3, <2>4, <2>5, <2>7, <2>8, OneMoves DEF Typed
  <1>3. CASE WriteLatest(p)
    <2> DEFINE n == [r EXCEPT !.pc = IF r.day = "blocked" THEN "log" ELSE "write"]
    <2>1. Set(p, n) /\ UNCHANGED <<days, actions, state>> /\ r.pc = "latest"
      BY <1>3 DEF WriteLatest
    <2>2. /\ n \in Proc /\ n.seen = r.seen /\ n.id = r.id /\ n.day = r.day
          /\ n.pc \in {"log", "write"} /\ (n.pc = "log" => r.day = "blocked")
      BY <1>0 DEF Proc, Label
    <2>3. Covered(n.seen, days, actions) /\ Fits(n, days, actions)
      BY <1>0, <2>1, <2>2 DEF Fits
    <2> HIDE DEF n
    <2> QED BY <2>1, <2>2, <2>3, LogsStay
  <1>4. CASE LogBlocked(p)
    <2> DEFINE n == [r EXCEPT !.pc = "write"]
               a == [action |-> "blocked", day |-> r.id]
    <2>1. /\ Set(p, n) /\ actions' = Append(actions, a) /\ days' = days /\ state' = state
          /\ r.pc = "log"
      BY <1>4 DEF LogBlocked
    <2>2. r.id \in DOMAIN days /\ days[r.id] = "blocked" /\ r.day = "blocked" /\ a \in Action
      BY <1>0, <2>1 DEF Fits, Action, DayId, Proc, AccountInv, Typed
    <2>3. n \in Proc /\ n.seen = r.seen /\ n.id = r.id /\ n.day = r.day /\ n.pc = "write"
      BY <1>0 DEF Proc, Label
    <2>4. Fits(n, days, Append(actions, a))
      BY <2>2, <2>3 DEF Fits
    <2>5. Append(actions, a) \in Seq(Action) /\ LogFits(days, Append(actions, a))
      BY <2>2, LogGrows DEF AccountInv, Typed
    <2>6. /\ \A s : Covered(s, days, actions) => Covered(s, days, Append(actions, a))
          /\ \A q : Fits(q, days, actions) => Fits(q, days, Append(actions, a))
      BY <2>2, KeptByAction DEF AccountInv, Typed
    <2> HIDE DEF n, a
    <2>7. /\ Covered(state, days, Append(actions, a)) /\ Covered(n.seen, days, Append(actions, a))
          /\ \A q \in Process : Covered(proc[q].seen, days, Append(actions, a))
                                /\ Fits(proc[q], days, Append(actions, a))
      BY <1>0, <2>3, <2>6 DEF AccountInv
    <2>8. Typed
      BY DEF AccountInv
    <2> QED BY <2>1, <2>3, <2>4, <2>5, <2>7, <2>8, OneMoves DEF Typed
  <1>5. CASE WriteState(p)
    <2>1. /\ Set(p, Idle) /\ state' = StateAfterDay(r.seen, r.id, r.day) /\ days' = days
          /\ actions' = actions /\ r.pc = "write"
      BY <1>5 DEF WriteState
    <2>2. r.seen \in State /\ r.id \in 0 .. MaxDays /\ r.day \in Day
      BY <1>0 DEF Proc
    <2>3. /\ state' \in State /\ state'.portfolio = r.seen.portfolio
          /\ state'.accepted = r.seen.accepted
      BY <2>1, <2>2 DEF StateAfterDay, State, Day
    <2>4. Covered(state', days, actions)
      BY <1>0, <2>3 DEF Covered
    <2> QED BY <2>1, <2>3, <2>4, IdleFits, OneMoves DEF AccountInv, Typed
  <1> QED BY <1>1, <1>2, <1>3, <1>4, <1>5 DEF RunnerNext

LEMMA OperatorSteps ==
  ASSUME NEW p \in Process, AccountInv, OperatorNext(p)
  PROVE  AccountInv'
  <1> DEFINE r == proc[p]
  <1>0. r \in Proc /\ Covered(r.seen, days, actions) /\ Fits(r, days, actions)
    BY DEF AccountInv, Typed
  <1>1. ASSUME NEW action \in {"accepted", "skipped", "overridden"}, Choose(p, action)
        PROVE  AccountInv'
    <2>1. PICK i \in FindDay : Set(p, [Idle EXCEPT !.pc = "logAction", !.seen = state, !.id = i, !.action = action])
      BY <1>1 DEF Choose, Begin
    <2> DEFINE n == [Idle EXCEPT !.pc = "logAction", !.seen = state, !.id = i, !.action = action]
    <2>2. i \in DOMAIN days /\ days[i] = "ready" /\ i \in 0 .. MaxDays
      BY PaperAssumption DEF FindDay, Ready, Recent, AccountInv, Typed
    <2>3. n \in Proc /\ n.seen = state /\ n.pc = "logAction" /\ n.id = i /\ n.action = action
      BY <2>2, IdleFits DEF Idle, Proc, Label, AccountInv, Typed
    <2>4. Covered(n.seen, days, actions) /\ Fits(n, days, actions)
      BY <2>2, <2>3 DEF Fits, AccountInv
    <2>5. UNCHANGED <<days, actions, state>>
      BY <1>1 DEF Choose
    <2> HIDE DEF n
    <2> QED BY <2>1, <2>3, <2>4, <2>5, LogsStay DEF n
  <1>2. CASE LogAction(p)
    <2> DEFINE n == [r EXCEPT !.pc = "writeAction"]
               a == [action |-> r.action, day |-> r.id]
    <2>1. /\ Set(p, n) /\ actions' = Append(actions, a) /\ days' = days /\ state' = state
          /\ r.pc = "logAction"
      BY <1>2 DEF LogAction
    <2>2. /\ r.id \in DOMAIN days /\ days[r.id] = "ready" /\ a \in Action
          /\ r.action \in {"accepted", "skipped", "overridden"}
      BY <1>0, <2>1 DEF Fits, Action, DayId, Proc, AccountInv, Typed
    <2>3. n \in Proc /\ n.seen = r.seen /\ n.id = r.id /\ n.action = r.action /\ n.pc = "writeAction"
      BY <1>0 DEF Proc, Label
    <2>4. /\ \A s : Covered(s, days, actions) => Covered(s, days, Append(actions, a))
          /\ \A q : Fits(q, days, actions) => Fits(q, days, Append(actions, a))
          /\ a.action = "accepted" => Logged(a.day, Append(actions, a))
      BY <2>2, KeptByAction DEF AccountInv, Typed
    <2>5. Fits(n, days, Append(actions, a))
      BY <2>2, <2>3, <2>4 DEF Fits
    <2>6. Append(actions, a) \in Seq(Action) /\ LogFits(days, Append(actions, a))
      BY <2>2, LogGrows DEF AccountInv, Typed
    <2> HIDE DEF n, a
    <2>7. /\ Covered(state, days, Append(actions, a)) /\ Covered(n.seen, days, Append(actions, a))
          /\ \A q \in Process : Covered(proc[q].seen, days, Append(actions, a))
                                /\ Fits(proc[q], days, Append(actions, a))
      BY <1>0, <2>3, <2>4 DEF AccountInv
    <2>8. Typed
      BY DEF AccountInv
    <2> QED BY <2>1, <2>3, <2>5, <2>6, <2>7, <2>8, OneMoves DEF Typed
  <1>3. CASE WriteAction(p)
    <2>1. /\ Set(p, Idle) /\ state' = StateAfterAction(r.seen, r.id, r.action) /\ days' = days
          /\ actions' = actions /\ r.pc = "writeAction"
      BY <1>3 DEF WriteAction
    <2>2. r.seen \in State /\ r.id \in 0 .. MaxDays
      BY <1>0 DEF Proc
    <2>3. /\ state' \in State
          /\ r.action = "accepted" => state'.portfolio = r.id /\ state'.accepted = r.id
          /\ r.action # "accepted" =>
               state'.portfolio = r.seen.portfolio /\ state'.accepted = r.seen.accepted
      BY <2>1, <2>2 DEF StateAfterAction, State
    <2>4. Covered(state', days, actions)
      BY <1>0, <2>1, <2>3 DEF Covered, Fits
    <2> QED BY <2>1, <2>3, <2>4, IdleFits, OneMoves DEF AccountInv, Typed
  <1> QED BY <1>1, <1>2, <1>3 DEF OperatorNext

LEMMA AccountStep == AccountInv /\ [Next]_vars => AccountInv'
  <1> SUFFICES ASSUME AccountInv, [Next]_vars PROVE AccountInv'
    OBVIOUS
  <1>1. ASSUME NEW r \in Runner, RunnerNext(r) PROVE AccountInv'
    BY <1>1, RunnerSteps DEF Process
  <1>2. ASSUME NEW o \in Operator, OperatorNext(o) PROVE AccountInv'
    BY <1>2, OperatorSteps DEF Process
  <1>3. ASSUME NEW p \in Process, Crash(p) PROVE AccountInv'
    <2>1. Set(p, Idle) /\ UNCHANGED <<days, actions, state>>
      BY <1>3 DEF Crash
    <2> QED BY <2>1, IdleFits, LogsStay
  <1>4. CASE UNCHANGED <<days, actions, state, proc>>
    BY <1>4 DEF AccountInv, Typed
  <1>5. ASSUME NEW p \in Profile, Publish(p) \/ EditConfig(p) PROVE AccountInv'
    BY <1>4, <1>5 DEF Publish, EditConfig
  <1>6. CASE Age
    BY <1>4, <1>6 DEF Age
  <1>7. CASE UNCHANGED vars
    BY <1>4, <1>7 DEF vars
  <1> QED BY <1>1, <1>2, <1>3, <1>5, <1>6, <1>7 DEF Next

\* Whatever overlaps and crashes, the paper portfolio is that of the day noted
\* as accepted, a ready day whose acceptance is in operator_actions.jsonl.
THEOREM PortfolioCorrect == Spec => []PortfolioWasAccepted
  <1>1. AccountInv => PortfolioWasAccepted
    BY DEF AccountInv, Covered, Logged, PortfolioWasAccepted, AcceptedInLog
  <1> QED BY <1>1, AccountInit, AccountStep, PTL DEF Spec

\* Operators act on ready days that are in days.jsonl, the runner logs blocked
\* ones: an action is never logged before or without its day.
THEOREM ActionsCorrect == Spec => []ActionsFitDays
  <1>1. AccountInv => ActionsFitDays
    BY DEF AccountInv, LogFits, ActionsFitDays
  <1> QED BY <1>1, AccountInit, AccountStep, PTL DEF Spec

-----------------------------------------------------------------------------
\* The entries of L that accept, and the day of the newest of them.
Acceptances(L) == {k \in DOMAIN L : L[k].action = "accepted"}
IsLatest(d, L) == \E i \in Acceptances(L) : (\A j \in Acceptances(L) : j <= i) /\ L[i].day = d

\* About to write the acceptance it has logged.
Accepting(r) == r.pc = "writeAction" /\ r.action = "accepted"

\* While processes take turns, a copy is the state, and the portfolio is that
\* of the newest acceptance unless its operator is just about to write it.
InTurn ==
  /\ \A p, q \in Process : proc[p].pc # "idle" /\ proc[q].pc # "idle" => p = q
  /\ \A p \in Process : proc[p].pc # "idle" => proc[p].seen = state
  /\ \A p \in Process : Accepting(proc[p]) => IsLatest(proc[p].id, actions)
  /\ (\A p \in Process : ~Accepting(proc[p])) =>
       Acceptances(actions) = {} \/ IsLatest(state.portfolio, actions)

TurnInv == crashes \in Nat /\ (~overlap /\ crashes = 0 => InTurn)

\* An entry that accepts becomes the newest acceptance, another one leaves it.
LEMMA NewestAppended ==
  ASSUME NEW L \in Seq(Action), NEW a \in Action
  PROVE  /\ a.action = "accepted" => IsLatest(a.day, Append(L, a))
         /\ a.action # "accepted" =>
              /\ Acceptances(Append(L, a)) = Acceptances(L)
              /\ \A d : IsLatest(d, L) => IsLatest(d, Append(L, a))
  <1>1. /\ DOMAIN Append(L, a) = DOMAIN L \cup {Len(L) + 1}
        /\ \A i \in DOMAIN L : Append(L, a)[i] = L[i]
        /\ Append(L, a)[Len(L) + 1] = a
    OBVIOUS
  <1>2. \A i \in DOMAIN Append(L, a) : i <= Len(L) + 1
    OBVIOUS
  <1>3. CASE a.action = "accepted"
    <2>1. Len(L) + 1 \in Acceptances(Append(L, a))
      BY <1>1, <1>3 DEF Acceptances
    <2>2. \A j \in Acceptances(Append(L, a)) : j <= Len(L) + 1
      BY <1>2 DEF Acceptances
    <2> QED BY <1>1, <1>3, <2>1, <2>2 DEF IsLatest
  <1>4. CASE a.action # "accepted"
    <2>1. Acceptances(Append(L, a)) = Acceptances(L)
      BY <1>1, <1>4 DEF Acceptances
    <2>2. \A i \in Acceptances(L) : Append(L, a)[i] = L[i]
      BY <1>1 DEF Acceptances
    <2> QED BY <1>4, <2>1, <2>2 DEF IsLatest
  <1> QED BY <1>3, <1>4

\* p moves to r; everybody else is idle when processes take turns.
LEMMA TurnPasses ==
  ASSUME NEW p \in Process, NEW r, Typed, Set(p, r),
         \A q \in Process : q # p => proc[q].pc = "idle",
         r.pc # "idle" => r.seen = state',
         Accepting(r) => IsLatest(r.id, actions'),
         ~Accepting(r) => Acceptances(actions') = {} \/ IsLatest(state'.portfolio, actions')
  PROVE  InTurn'
  <1>1. \A q \in Process : proc'[q] = IF q = p THEN r ELSE proc[q]
    BY DEF Set, Typed
  <1>2. \A q \in Process : q # p => ~Accepting(proc'[q]) /\ proc'[q].pc = "idle"
    BY <1>1 DEF Accepting
  <1>3. proc'[p] = r
    BY <1>1
  <1>4. \A q \in Process : Accepting(proc'[q]) => IsLatest(proc'[q].id, actions')
    BY <1>2, <1>3
  <1>5. \A q \in Process : proc'[q].pc # "idle" => proc'[q].seen = state'
    BY <1>2, <1>3
  <1>6. \A q1, q2 \in Process : proc'[q1].pc # "idle" /\ proc'[q2].pc # "idle" => q1 = q2
    BY <1>2
  <1>7. (\A q \in Process : ~Accepting(proc'[q])) =>
          Acceptances(actions') = {} \/ IsLatest(state'.portfolio, actions')
    BY <1>3
  <1> QED BY <1>4, <1>5, <1>6, <1>7 DEF InTurn

LEMMA TurnInit == Init => TurnInv
  BY DEF Init, TurnInv, InTurn, Idle, Accepting, Acceptances

\* A process that is at work is alone, and has read what is still the state.
LEMMA AloneAtWork ==
  ASSUME NEW p \in Process, InTurn, proc[p].pc # "idle"
  PROVE  /\ \A q \in Process : q # p => proc[q].pc = "idle"
         /\ proc[p].seen = state
         /\ Accepting(proc[p]) => IsLatest(proc[p].id, actions)
         /\ ~Accepting(proc[p]) => Acceptances(actions) = {} \/ IsLatest(state.portfolio, actions)
  <1>1. \A q \in Process : q # p => proc[q].pc = "idle"
    BY DEF InTurn
  <1>2. \A q \in Process : q # p => ~Accepting(proc[q])
    BY <1>1 DEF Accepting
  <1> QED BY <1>1, <1>2 DEF InTurn

\* A process begins when nobody else is at work, or the overlap is noted.
LEMMA TurnBegins ==
  ASSUME NEW p \in Process, NEW r, Typed, Begin(p, r), r.seen = state, ~Accepting(r),
         UNCHANGED <<state, actions, crashes>>, TurnInv
  PROVE  TurnInv'
  <1> SUFFICES ASSUME ~overlap', crashes' = 0 PROVE InTurn'
    BY DEF TurnInv
  <1>1. ~overlap /\ Busy = {} /\ Set(p, r) /\ InTurn
    BY DEF Begin, TurnInv
  <1>2. \A q \in Process : proc[q].pc = "idle"
    BY <1>1 DEF Busy
  <1>3. Acceptances(actions) = {} \/ IsLatest(state.portfolio, actions)
    BY <1>1, <1>2 DEF InTurn, Accepting
  <1> QED BY <1>1, <1>2, <1>3, TurnPasses

LEMMA TurnRunner ==
  ASSUME NEW p \in Process, AccountInv, TurnInv, RunnerNext(p)
  PROVE  TurnInv'
  <1> DEFINE r == proc[p]
  <1>0. Typed /\ r \in Proc /\ Fits(r, days, actions)
    BY DEF AccountInv, Typed
  <1>1. CASE ReadAndDecide(p)
    <2>1. PICK d : Begin(p, [Idle EXCEPT !.pc = "append", !.seen = state, !.day = d])
      BY <1>1 DEF ReadAndDecide
    <2> DEFINE n == [Idle EXCEPT !.pc = "append", !.seen = state, !.day = d]
    <2>2. n.seen = state /\ ~Accepting(n)
      BY DEF Idle, Accepting
    <2>3. UNCHANGED <<state, actions, crashes>>
      BY <1>1 DEF ReadAndDecide
    <2> HIDE DEF n
    <2> QED BY <1>0, <2>1, <2>2, <2>3, TurnBegins DEF n
  <1>2. CASE AppendDay(p) \/ WriteLatest(p)
    <2>1. /\ UNCHANGED <<state, actions, crashes, overlap>> /\ r.pc \in {"append", "latest"}
      BY <1>2 DEF AppendDay, WriteLatest
    <2>2. PICK n : Set(p, n) /\ n.seen = r.seen /\ n.pc \in {"latest", "log", "write"}
      <3>1. CASE AppendDay(p)
        <4> DEFINE m == [r EXCEPT !.pc = "latest", !.id = Len(days) + 1]
        <4>1. Set(p, m) /\ m.seen = r.seen /\ m.pc = "latest"
          BY <1>0, <3>1 DEF AppendDay, Proc
        <4> HIDE DEF m
        <4> QED BY <4>1
      <3>2. CASE WriteLatest(p)
        BY <1>0, <3>2 DEF WriteLatest, Proc
      <3> QED BY <1>2, <3>1, <3>2
    <2>3. ASSUME ~overlap, crashes = 0 PROVE InTurn'
      BY <1>0, <2>1, <2>2, <2>3, AloneAtWork, TurnPasses DEF TurnInv, Accepting
    <2> QED BY <2>1, <2>3 DEF TurnInv
  <1>3. CASE LogBlocked(p)
    <2> DEFINE a == [action |-> "blocked", day |-> r.id]
    <2>1. /\ UNCHANGED <<state, crashes, overlap>> /\ r.pc = "log" /\ actions' = Append(actions, a)
          /\ Set(p, [r EXCEPT !.pc = "write"])
      BY <1>3 DEF LogBlocked
    <2>2. PICK n : Set(p, n) /\ n.seen = r.seen /\ n.pc = "write"
      BY <1>0, <2>1 DEF Proc
    <2>3. a \in Action /\ a.action # "accepted"
      BY <1>0, <2>1 DEF Fits, Action, DayId, Proc, Typed
    <2> HIDE DEF a
    <2>4. /\ Acceptances(actions') = Acceptances(actions)
          /\ \A d : IsLatest(d, actions) => IsLatest(d, actions')
      BY <1>0, <2>1, <2>3, NewestAppended DEF Typed
    <2>5. ASSUME ~overlap, crashes = 0 PROVE InTurn'
      BY <1>0, <2>1, <2>2, <2>4, <2>5, AloneAtWork, TurnPasses DEF TurnInv, Accepting
    <2> QED BY <2>1, <2>5 DEF TurnInv
  <1>4. CASE WriteState(p)
    <2>1. /\ UNCHANGED <<actions, crashes, overlap>> /\ r.pc = "write" /\ Set(p, Idle)
          /\ state' = StateAfterDay(r.seen, r.id, r.day)
      BY <1>4 DEF WriteState
    <2>2. r.seen \in State => state'.portfolio = r.seen.portfolio
      BY <2>1 DEF StateAfterDay, State
    <2>3. r.seen \in State /\ Idle.pc = "idle" /\ ~Accepting(Idle) /\ ~Accepting(r)
      BY <1>0, <2>1 DEF Proc, Idle, Accepting
    <2>4. ASSUME ~overlap, crashes = 0 PROVE InTurn'
      BY <1>0, <2>1, <2>2, <2>3, <2>4, AloneAtWork, TurnPasses DEF TurnInv
    <2> QED BY <2>1, <2>4 DEF TurnInv
  <1> QED BY <1>1, <1>2, <1>3, <1>4 DEF RunnerNext

LEMMA TurnOperator ==
  ASSUME NEW p \in Process, AccountInv, TurnInv, OperatorNext(p)
  PROVE  TurnInv'
  <1> DEFINE r == proc[p]
  <1>0. Typed /\ r \in Proc /\ Fits(r, days, actions)
    BY DEF AccountInv, Typed
  <1>1. ASSUME NEW action, Choose(p, action) PROVE TurnInv'
    <2>1. PICK i : Begin(p, [Idle EXCEPT !.pc = "logAction", !.seen = state, !.id = i, !.action = action])
      BY <1>1 DEF Choose
    <2> DEFINE n == [Idle EXCEPT !.pc = "logAction", !.seen = state, !.id = i, !.action = action]
    <2>2. n.seen = state /\ ~Accepting(n)
      BY DEF Idle, Accepting
    <2>3. UNCHANGED <<state, actions, crashes>>
      BY <1>1 DEF Choose
    <2> HIDE DEF n
    <2> QED BY <1>0, <2>1, <2>2, <2>3, TurnBegins DEF n
  <1>2. CASE LogAction(p)
    <2> DEFINE a == [action |-> r.action, day |-> r.id]
    <2>1. /\ UNCHANGED <<state, crashes, overlap>> /\ r.pc = "logAction" /\ actions' = Append(actions, a)
          /\ Set(p, [r EXCEPT !.pc = "writeAction"])
      BY <1>2 DEF LogAction
    <2>2. PICK n : /\ Set(p, n) /\ n.seen = r.seen /\ n.pc = "writeAction"
                   /\ n.action = a.action /\ n.id = a.day
      BY <1>0, <2>1 DEF Proc
    <2>3. a \in Action
      BY <1>0, <2>1 DEF Fits, Action, DayId, Proc, Typed
    <2> HIDE DEF a
    <2>4. /\ a.action = "accepted" => IsLatest(a.day, actions')
          /\ a.action # "accepted" =>
               /\ Acceptances(actions') = Acceptances(actions)
               /\ \A d : IsLatest(d, actions) => IsLatest(d, actions')
      BY <1>0, <2>1, <2>3, NewestAppended DEF Typed
    <2>5. ASSUME ~overlap, crashes = 0 PROVE InTurn'
      BY <1>0, <2>1, <2>2, <2>4, <2>5, AloneAtWork, TurnPasses DEF TurnInv, Accepting
    <2> QED BY <2>1, <2>5 DEF TurnInv
  <1>3. CASE WriteAction(p)
    <2>1. /\ UNCHANGED <<actions, crashes, overlap>> /\ r.pc = "writeAction" /\ Set(p, Idle)
          /\ state' = StateAfterAction(r.seen, r.id, r.action)
      BY <1>3 DEF WriteAction
    <2>2. r.seen \in State /\ Idle.pc = "idle" /\ ~Accepting(Idle)
      BY <1>0 DEF Proc, Idle, Accepting
    <2>3. /\ Accepting(r) => state'.portfolio = r.id
          /\ ~Accepting(r) => state'.portfolio = r.seen.portfolio
      BY <2>1, <2>2 DEF StateAfterAction, State, Accepting
    <2>4. ASSUME ~overlap, crashes = 0 PROVE InTurn'
      BY <1>0, <2>1, <2>2, <2>3, <2>4, AloneAtWork, TurnPasses DEF TurnInv
    <2> QED BY <2>1, <2>4 DEF TurnInv
  <1> QED BY <1>1, <1>2, <1>3 DEF OperatorNext

LEMMA TurnStep == AccountInv /\ TurnInv /\ [Next]_vars => TurnInv'
  <1> SUFFICES ASSUME AccountInv, TurnInv, [Next]_vars PROVE TurnInv'
    OBVIOUS
  <1>1. ASSUME NEW r \in Runner, RunnerNext(r) PROVE TurnInv'
    BY <1>1, TurnRunner DEF Process
  <1>2. ASSUME NEW o \in Operator, OperatorNext(o) PROVE TurnInv'
    BY <1>2, TurnOperator DEF Process
  <1>3. ASSUME NEW p \in Process, Crash(p) PROVE TurnInv'
    BY <1>3 DEF Crash, TurnInv
  <1>4. CASE UNCHANGED <<actions, state, proc, overlap, crashes>>
    BY <1>4 DEF TurnInv, InTurn
  <1>5. ASSUME NEW p \in Profile, Publish(p) \/ EditConfig(p) PROVE TurnInv'
    BY <1>4, <1>5 DEF Publish, EditConfig
  <1>6. CASE Age
    BY <1>4, <1>6 DEF Age
  <1>7. CASE UNCHANGED vars
    BY <1>4, <1>7 DEF vars
  <1> QED BY <1>1, <1>2, <1>3, <1>5, <1>6, <1>7 DEF Next

\* An accepted day is lost from the paper portfolio only if two processes were
\* at work at once, the runner writing back what it read before the
\* acceptance, or one of them died between the log and state.json.
THEOREM AcceptanceKept == Spec => []LostAcceptNeedsOverlap
  <1>1. AccountInv /\ TurnInv => LostAcceptNeedsOverlap
    <2> SUFFICES ASSUME AccountInv, TurnInv, Busy = {}, ~overlap, crashes = 0, Accepted # {}
                 PROVE  state.portfolio = actions[Newest(Accepted)].day
      BY DEF LostAcceptNeedsOverlap
    <2>1. Accepted = Acceptances(actions)
      BY DEF Accepted, Acceptances
    <2>2. \A p \in Process : ~Accepting(proc[p])
      BY DEF Busy, Accepting
    <2>3. IsLatest(state.portfolio, actions)
      BY <2>1, <2>2 DEF TurnInv, InTurn
    <2>4. PICK i \in Accepted : (\A j \in Accepted : j <= i) /\ actions[i].day = state.portfolio
      BY <2>1, <2>3 DEF IsLatest
    <2>5. Newest(Accepted) \in Accepted /\ \A j \in Accepted : j <= Newest(Accepted)
      BY <2>4 DEF Newest
    <2>6. \A j \in Accepted : j \in Int
      BY DEF Accepted, AccountInv, Typed
    <2>7. Newest(Accepted) = i
      BY <2>4, <2>5, <2>6
    <2> QED BY <2>4, <2>7
  <1> QED BY <1>1, AccountInit, AccountStep, TurnInit, TurnStep, PTL DEF Spec
=============================================================================
