---------------------------- MODULE Supervision ----------------------------
(***************************************************************************)
(* The governed queue: proposals of research families that an operator     *)
(* approves (configs/research_family_proposals), the bootstrap that turns  *)
(* an approved one into a director plan, a research program and an entry   *)
(* of the supervisor's runbook (research_families.py), the summaries that  *)
(* say which entry may run (runbook_queue.py, research_programs.py), and   *)
(* the director manager that starts it when nothing runs                   *)
(* (research_runtime.py).                                                  *)
(*                                                                         *)
(* A family, its plan and its program share one name, a number, so that    *)
(* names have an order.  A director is here only a run of a plan that      *)
(* ends; module Director models what it does until then.  What the manager *)
(* starts for an entry is not the plan of the entry: it hands on the path  *)
(* of the plan file and not what is in it, and start_director without a    *)
(* payload takes the built-in default plan and opens no file.              *)
(***************************************************************************)
EXTENDS Integers, Sequences, FiniteSets, SequencesExt

CONSTANTS
  Family,          \* families: a set of numbers
  Step,            \* steps of a program's campaign path
  Booter,          \* processes that bootstrap: the API server, a command line
  FirstApproval,   \* approval of each family at the start
  GivenPriority,   \* bootstrap.queue_priority of each proposal, 0 without one
  Bootstrapped,    \* families with plan, program and entry at the start
  Approvals,       \* what an operator sets an approval to
  Covers,          \* families with a step that a plan's campaigns may export
  MaxEdits,        \* bound: edits and starts by hand
  MaxPriority      \* bound: priorities of the runbook

None == 0
BuiltIn == -1     \* the built-in default plan, which has no file
Plan == Family \union {BuiltIn}

Allowed == {"proposed", "under_review", "approved", "queued", "active", "retired", "rejected"}

ASSUME SupervisionAssumption ==
  /\ Family \subseteq Nat \ {0} /\ IsFiniteSet(Family)
  /\ Bootstrapped \subseteq Family /\ Cardinality(Bootstrapped) <= MaxPriority
  /\ FirstApproval \in [Family -> Allowed] /\ Approvals \subseteq Allowed
  /\ GivenPriority \in [Family -> 0 .. MaxPriority]
  /\ Covers \in [Plan -> SUBSET Family] /\ MaxEdits \in Nat /\ MaxPriority \in Nat

VARIABLES
  approval,    \* approval_status of each proposal file
  plans,       \* families with a file under configs/directors
  programs,    \* families with a file under configs/research_programs
  queue,       \* work_queue of the runbook file
  evidence,    \* last profile history of each step: "not_run", "pass", "fail"
  running,     \* plans of the directors that are running
  latest,      \* status of the latest director that ended without a candidate
  mgr,         \* the director manager
  boot,        \* the bootstraps
  edits,       \* edits and starts by hand so far
  touched,     \* inputs of the manager's survey that changed since it began
  collided     \* two writers of the runbook overlapped

files == <<plans, programs>>
vars == <<approval, plans, programs, queue, evidence, running, latest, mgr, boot, edits, touched, collided>>

Entry == [plan : Family, enabled : BOOLEAN, priority : 1 .. MaxPriority]
IdleMgr == [pc |-> "idle", programs |-> <<>>, families |-> <<>>, plan |-> None]
IdleBoot == [pc |-> "idle", plan |-> None, queue |-> <<>>]

EntryOf(q, f) == {e \in Range(q) : e.plan = f}
Enabled(q, f) == \E e \in EntryOf(q, f) : e.enabled

---------------------------------------------------------------------------
(* research_programs.py *)

\* _program_decision over the steps' latest history.
ProgramStatus(steps) ==
  IF \E s \in DOMAIN steps : steps[s] = "pass" THEN "promoted"
  ELSE IF DOMAIN steps = {} \/ \E s \in DOMAIN steps : steps[s] = "not_run" THEN "active"
  ELSE "retired"

\* build_research_program_portfolio: the programs that are defined.
Portfolio == [f \in programs |-> ProgramStatus(evidence[f])]

(* research_families.py *)

Rank(status) == CASE status = "active" -> 7 [] status = "queued" -> 6 [] status = "approved" -> 5
                  [] status = "under_review" -> 4 [] status = "proposed" -> 3
                  [] status = "retired" -> 2 [] status = "rejected" -> 1

\* _research_family_status
FamilyStatus(f, portfolio) ==
  IF f \in DOMAIN portfolio /\ portfolio[f] = "retired" THEN "retired"
  ELSE IF approval[f] = "approved" /\ Enabled(queue, f) THEN "queued"
  ELSE approval[f]

\* build_research_family_comparison_summary
Families(portfolio) ==
  [f \in Family |-> [approval |-> approval[f], status |-> FamilyStatus(f, portfolio)]]

\* _family_sort_key, as the order "comes first", and _current_research_family.
Precedes(f, g, families) ==
  LET Place(x) == IF Enabled(queue, x) THEN 0 ELSE 1
      Prio(x)  == IF EntryOf(queue, x) = {} THEN 999 ELSE (CHOOSE e \in EntryOf(queue, x) : TRUE).priority
      Key(x)   == <<7 - Rank(families[x].status), Place(x), Prio(x), x>>
  IN \E i \in 1 .. 4 : Key(f)[i] < Key(g)[i] /\ \A j \in 1 .. i - 1 : Key(f)[j] = Key(g)[j]

Current(families) == {f \in DOMAIN families : \A g \in DOMAIN families \ {f} : Precedes(f, g, families)}

(* runbook_queue.py *)

\* Mutant: a family that waits for its approval is not held back.
StatusUnheld(e, active, portfolio, families) ==
  CASE e.plan = active -> "active"
    [] e.plan # active /\ ~e.enabled -> "disabled"
    [] OTHER -> IF e.plan \in DOMAIN portfolio THEN "ready" ELSE "blocked_missing_definition"

\* _entry_status, with a proposal for every entry.
EntryStatus(e, active, portfolio, families) ==
  LET family == families[e.plan]
  IN IF e.plan = active THEN "active"
     ELSE IF ~e.enabled THEN "disabled"
     ELSE IF e.plan \notin DOMAIN portfolio THEN "blocked_missing_definition"
     ELSE IF portfolio[e.plan] = "retired" THEN "blocked_retired"
     ELSE IF portfolio[e.plan] = "promoted" THEN "blocked_promoted"
     ELSE IF family.approval \in {"proposed", "under_review"} THEN "blocked_pending_approval"
     ELSE IF family.approval = "rejected" THEN "blocked_rejected"
     ELSE IF family.approval = "approved" /\ family.status = "approved" THEN "approved_bootstrap_required"
     ELSE "ready"

\* Mutant: the first entry of the queue is taken for the active one.
StandbyAfterFirst(q, active, portfolio, families) ==
  {i \in DOMAIN q : EntryStatus(q[i], active, portfolio, families) = "ready" /\ i > 1}

\* _standby_ready_entries: where the ready entries after the active one are.
Standby(q, active, portfolio, families) ==
  {i \in DOMAIN q : /\ EntryStatus(q[i], active, portfolio, families) = "ready"
                    /\ \A j \in DOMAIN q : q[j].plan = active => j < i}

\* build_next_family_status
NextFamilyStatus(active, standby, families) ==
  IF active # None THEN "active"
  ELSE IF standby # {} THEN "queued"
  ELSE IF \E f \in Current(families) : families[f].status = "approved" THEN "blocked_pending_bootstrap"
  ELSE IF \E f \in Current(families) : families[f].status = "queued" THEN "queued"
  ELSE "blocked_pending_approval"

---------------------------------------------------------------------------
\* The member of S that has n - 1 smaller ones.
Nth(S, n) == CHOOSE f \in S : Cardinality({g \in S : g < f}) = n - 1

Init ==
  /\ approval = FirstApproval
  /\ plans = Bootstrapped /\ programs = Bootstrapped
  /\ queue = [i \in 1 .. Cardinality(Bootstrapped) |->
                [plan |-> Nth(Bootstrapped, i), enabled |-> TRUE, priority |-> i]]
  /\ evidence = [f \in Family |-> [s \in Step |-> "not_run"]]
  /\ running = {} /\ latest = "none"
  /\ mgr = IdleMgr /\ boot = [b \in Booter |-> IdleBoot]
  /\ edits = 0 /\ touched = {} /\ collided = FALSE

\* What the survey reads, and a change of it that falls into one.
Inputs == {"approvals", "programs", "runbook", "evidence", "directors"}
Touch(changed) == touched' = IF mgr.pc = "idle" THEN {} ELSE touched \union changed

(* The director manager: one survey reads five things, one after the other. *)

\* director_manager_loop with no director, runtime_status and the last terminal.
Survey ==
  /\ mgr.pc = "idle" /\ running = {} /\ latest \notin {"failed", "stopped"}
  /\ mgr' = [mgr EXCEPT !.pc = "portfolio"] /\ touched' = {}
  /\ UNCHANGED <<approval, files, queue, evidence, running, latest, boot, edits, collided>>

ReadPortfolio ==
  /\ mgr.pc = "portfolio"
  /\ mgr' = [mgr EXCEPT !.pc = "families", !.programs = Portfolio]
  /\ UNCHANGED <<approval, files, queue, evidence, running, latest, boot, edits, touched, collided>>

ReadFamilies ==
  /\ mgr.pc = "families"
  /\ mgr' = [mgr EXCEPT !.pc = "queue", !.families = Families(mgr.programs)]
  /\ UNCHANGED <<approval, files, queue, evidence, running, latest, boot, edits, touched, collided>>

\* build_runbook_queue_summary and build_next_family_status.
ReadQueue ==
  /\ mgr.pc = "queue"
  /\ LET standby == Standby(queue, None, mgr.programs, mgr.families)
         queued == NextFamilyStatus(None, standby, mgr.families) = "queued"
     IN mgr' = IF queued /\ standby # {}
               THEN [mgr EXCEPT !.pc = "start", !.plan = queue[Min(standby)].plan] ELSE IdleMgr
  /\ touched' = IF mgr'.pc = "start" THEN touched ELSE {}
  /\ UNCHANGED <<approval, files, queue, evidence, running, latest, boot, edits, collided>>

\* What start_director checks before it inserts a row: a plan that is given has
\* to be read from its file, and none with its identity may be running.
Startable(x) == (x # BuiltIn => x \in plans) /\ x \notin running

\* load_supervisor_runbook, resolve_runbook_plan and start_director, without a
\* payload.  An entry that was disabled since starts nothing.
StartNext ==
  /\ mgr.pc = "start" /\ EntryOf(queue, mgr.plan) # {}
  /\ Enabled(queue, mgr.plan) => Startable(BuiltIn)
  /\ running' = IF Enabled(queue, mgr.plan) THEN running \union {BuiltIn} ELSE running
  /\ mgr' = IdleMgr /\ touched' = {}
  /\ UNCHANGED <<approval, files, queue, evidence, latest, boot, edits, collided>>

\* The call is outside the loop's try: what it raises ends the process, and the
\* container starts it again.
StartRaises ==
  /\ mgr.pc = "start"
  /\ EntryOf(queue, mgr.plan) = {} \/ (Enabled(queue, mgr.plan) /\ ~Startable(BuiltIn))
  /\ mgr' = IdleMgr /\ touched' = {}
  /\ UNCHANGED <<approval, files, queue, evidence, running, latest, boot, edits, collided>>

Manager == Survey \/ ReadPortfolio \/ ReadFamilies \/ ReadQueue \/ StartNext \/ StartRaises

(* Directors that end, and what their jobs left in the profile history. *)

\* A run may leave a step without any: what a campaign tried need not be what
\* the steps of a program name.
Left(x) ==
  {h \in [Family -> [Step -> {"not_run", "pass", "fail"}]] : \A f \in Family, s \in Step :
       h[f][s] \in IF f \in Covers[x] THEN {evidence[f][s], "pass", "fail"} ELSE {evidence[f][s]}}

Leaves(x) ==
  /\ x \in running /\ running' = running \ {x} /\ evidence' \in Left(x)
  /\ Touch({"directors", "evidence"})

Exhausts(x) ==
  /\ Leaves(x) /\ latest' = "exhausted"
  /\ UNCHANGED <<approval, files, queue, mgr, boot, edits, collided>>

\* The director is completed, which is no governed terminal.
Completes(x) ==
  /\ Leaves(x)
  /\ UNCHANGED <<approval, files, queue, latest, mgr, boot, edits, collided>>

FailsOrStops(x) ==
  /\ edits < MaxEdits /\ edits' = edits + 1
  /\ Leaves(x) /\ \E status \in {"failed", "stopped"} : latest' = status
  /\ UNCHANGED <<approval, files, queue, mgr, boot, collided>>

(* The operator. *)

SetApproval(f, status) ==
  /\ edits < MaxEdits /\ edits' = edits + 1 /\ status # approval[f]
  /\ approval' = [approval EXCEPT ![f] = status] /\ Touch({"approvals"})
  /\ UNCHANGED <<files, queue, evidence, running, latest, mgr, boot, collided>>

\* An edit of the runbook in place; a bootstrap that has read it will undo it.
Toggle(f) ==
  /\ edits < MaxEdits /\ edits' = edits + 1 /\ EntryOf(queue, f) # {}
  /\ queue' = [i \in DOMAIN queue |->
                 IF queue[i].plan = f THEN [queue[i] EXCEPT !.enabled = ~@] ELSE queue[i]]
  /\ collided' = (collided \/ \E b \in Booter : boot[b].pc = "write")
  /\ Touch({"runbook"})
  /\ UNCHANGED <<approval, files, evidence, running, latest, mgr, boot>>

\* The command line and the API do read a plan file, and start the built-in
\* default without one.
StartByHand(x) ==
  /\ edits < MaxEdits /\ edits' = edits + 1 /\ Startable(x)
  /\ running' = running \union {x} /\ Touch({"directors"})
  /\ UNCHANGED <<approval, files, queue, evidence, latest, mgr, boot, collided>>

(* bootstrap_research_family, file by file. *)

BootBegin(b, f) ==
  /\ boot[b].pc = "idle" /\ approval[f] = "approved" /\ edits < MaxEdits /\ edits' = edits + 1
  /\ boot' = [boot EXCEPT ![b] = [IdleBoot EXCEPT !.pc = "plan", !.plan = f]]
  /\ UNCHANGED <<approval, files, queue, evidence, running, latest, mgr, touched, collided>>

\* Mutant: the entry is written without the program.
BootPlanOnly(b) ==
  /\ boot[b].pc = "plan" /\ plans' = plans \union {boot[b].plan}
  /\ boot' = [boot EXCEPT ![b].pc = "read"]
  /\ UNCHANGED <<approval, programs, queue, evidence, running, latest, mgr, edits, touched, collided>>

\* The plan file, which nothing the manager calls reads.
BootPlan(b) ==
  /\ boot[b].pc = "plan" /\ plans' = plans \union {boot[b].plan}
  /\ boot' = [boot EXCEPT ![b].pc = "program"]
  /\ UNCHANGED <<approval, programs, queue, evidence, running, latest, mgr, edits, touched, collided>>

BootProgram(b) ==
  /\ boot[b].pc = "program" /\ programs' = programs \union {boot[b].plan}
  /\ boot' = [boot EXCEPT ![b].pc = "read"] /\ Touch({"programs"})
  /\ UNCHANGED <<approval, plans, queue, evidence, running, latest, mgr, edits, collided>>

\* Mutant: an entry the family already has is not replaced.
AppendedEntry(q, f, priority) == Append(q, [plan |-> f, enabled |-> TRUE, priority |-> priority])

\* Mutant: the entry of the family is put in place of the whole queue.
OnlyEntry(q, f, priority) == <<[plan |-> f, enabled |-> TRUE, priority |-> priority]>>

\* queue.sort by priority, which is stable: the entry at i comes after those of a
\* lower priority, and after those of the same that came before it.
Before(q, i, j) == q[i].priority < q[j].priority \/ (q[i].priority = q[j].priority /\ i < j)
Place(q, i) == 1 + Cardinality({j \in DOMAIN q : Before(q, j, i)})
Sorted(q) == [k \in DOMAIN q |-> q[CHOOSE i \in DOMAIN q : Place(q, i) = k]]

\* _update_runbook_entry: replaced in place or appended, then sorted.
WithEntry(q, f, priority) ==
  LET entry == [plan |-> f, enabled |-> TRUE, priority |-> priority]
  IN Sorted(IF EntryOf(q, f) = {} THEN Append(q, entry)
            ELSE [i \in DOMAIN q |-> IF q[i].plan = f THEN entry ELSE q[i]])

\* _next_runbook_priority
NextPriority(q) == IF q = <<>> THEN 1 ELSE 1 + Max({e.priority : e \in Range(q)})

BootRead(b) ==
  /\ boot[b].pc = "read"
  /\ LET f == boot[b].plan
         priority == IF GivenPriority[f] = 0 THEN NextPriority(queue) ELSE GivenPriority[f]
     IN /\ priority <= MaxPriority
        /\ boot' = [boot EXCEPT ![b].pc = "write", ![b].queue = WithEntry(queue, f, priority)]
  /\ collided' = (collided \/ \E c \in Booter \ {b} : boot[c].pc = "write")
  /\ UNCHANGED <<approval, files, queue, evidence, running, latest, mgr, edits, touched>>

BootWrite(b) ==
  /\ boot[b].pc = "write" /\ queue' = boot[b].queue
  /\ boot' = [boot EXCEPT ![b] = IdleBoot] /\ Touch({"runbook"})
  /\ UNCHANGED <<approval, files, evidence, running, latest, mgr, edits, collided>>

\* An error or the end of the process leaves the files written so far.
BootDies(b) ==
  /\ boot[b].pc # "idle" /\ boot' = [boot EXCEPT ![b] = IdleBoot]
  /\ UNCHANGED <<approval, files, queue, evidence, running, latest, mgr, edits, touched, collided>>

Boot(b) == (\E f \in Family : BootBegin(b, f)) \/ BootPlan(b) \/ BootProgram(b)
           \/ BootRead(b) \/ BootWrite(b) \/ BootDies(b)
Ends == \E x \in Plan : Exhausts(x) \/ Completes(x)
Operator == \/ \E f \in Family : Toggle(f) \/ \E status \in Approvals : SetApproval(f, status)
            \/ \E x \in Plan : StartByHand(x) \/ FailsOrStops(x)

Next == Manager \/ Ends \/ Operator \/ \E b \in Booter : Boot(b)

\* The manager's loop and the directors it steps go on; nothing makes an
\* operator act or a bootstrap finish.
Spec == Init /\ [][Next]_vars /\ WF_vars(Manager) /\ WF_vars(Ends)
---------------------------------------------------------------------------
(* Properties. *)

\* The types, and what load_supervisor_runbook refuses to load or sorts: no plan
\* has two entries and the file is in the order of the priorities, whatever
\* bootstraps write it (research_families.py 557-594).
TypeOK ==
  /\ approval \in [Family -> Allowed] /\ plans \subseteq Family /\ programs \subseteq Family
  /\ queue \in Seq(Entry)
  /\ \A i, j \in DOMAIN queue : i < j => /\ queue[i].plan # queue[j].plan
                                       /\ queue[i].priority <= queue[j].priority
  /\ evidence \in [Family -> [Step -> {"not_run", "pass", "fail"}]]
  /\ running \subseteq Plan /\ latest \in {"none", "exhausted", "failed", "stopped"}
  /\ mgr.pc \in {"idle", "portfolio", "families", "queue", "start"}
  /\ \A b \in Booter : boot[b].pc \in {"idle", "plan", "program", "read", "write"}
  /\ edits \in 0 .. MaxEdits /\ touched \subseteq Inputs /\ collided \in BOOLEAN

\* The manager starts a director for the entry of f.
Starts(f) == mgr.pc = "start" /\ mgr.plan = f /\ mgr'.pc = "idle" /\ running' # running

\* The manager starts a director only for an entry that the runbook enables at
\* that moment and whose program is defined.  What else it has to be is what the
\* survey read, which may be stale: each demand holds at the start unless the one
\* input it was read from has changed since the survey began.  Nothing else runs
\* and no failed or stopped run waits for a person; the approval is none that
\* holds an entry back; the program is active; and no entry before it is ready.
StartIsGoverned ==
  [][\A f \in Family : Starts(f) =>
       /\ Enabled(queue, f) /\ f \in programs
       /\ "directors" \notin touched => running = {} /\ latest \notin {"failed", "stopped"}
       /\ "approvals" \notin touched => approval[f] \notin {"proposed", "under_review", "rejected"}
       /\ "evidence" \notin touched => ProgramStatus(evidence[f]) = "active"
       /\ touched = {} => \A i, j \in DOMAIN queue :
            queue[j].plan = f /\ i < j =>
              EntryStatus(queue[i], None, Portfolio, Families(Portfolio)) # "ready"]_vars

\* An entry of the runbook has its director plan and its program, wherever a
\* bootstrap stops: bootstrap_research_family writes the entry last.
EntryHasDefinition == \A e \in Range(queue) : e.plan \in plans \intersect programs

\* A bootstrap changes the entry of its own family only, so long as nobody else
\* writes the runbook between its read and its write.
QueueKeepsEntries ==
  [][collided \/ edits' # edits \/ \A e \in Range(queue) :
       e \in Range(queue') \/ \E b \in Booter : boot[b].pc = "write" /\ boot[b].plan = e.plan]_vars

IsReady(f) ==
  /\ latest \notin {"failed", "stopped"}
  /\ \E e \in EntryOf(queue, f) : EntryStatus(e, None, Portfolio, Families(Portfolio)) = "ready"

\* A ready entry is never left waiting for good: a run of the plan the manager
\* starts begins, or the entry ceases to be ready, or a person has to look at a
\* failed or stopped run.  That it moves the queue on is not said, and not true:
\* a run that leaves the entry's program active leaves the entry ready.
ReadyIsServed == \A f \in Family : IsReady(f) ~> (BuiltIn \in running \/ ~IsReady(f))
=============================================================================
