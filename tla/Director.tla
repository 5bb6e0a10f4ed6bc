------------------------------ MODULE Director ------------------------------
(***************************************************************************)
(* Research directors: the rows of the table directors, the campaigns they *)
(* launch one after another from their queue, and the processes that step  *)
(* and control them.                                                       *)
(*                                                                         *)
(* step_director, pause_director, resume_director, skip_director_next and  *)
(* stop_director read the row, work on a copy of its state_json (seen) and *)
(* write the copy back by director_id: nothing is locked in between.  A    *)
(* launch runs outside any transaction between a claim in state_json and a *)
(* second read and write of the row.  All directors share one plan.        *)
(***************************************************************************)
EXTENDS Integers, FiniteSets

CONSTANTS
  DirectorId,    \* directors that may be started
  Manager,       \* the process that runs director_manager_loop
  Caller,        \* API, dashboard and command line processes
  Controls,      \* the operations callers use
  PlanLength,    \* campaigns of the plan
  Adopts,        \* spec adopt_active_campaigns
  SlowLaunch,    \* a launch may last longer than its claim (120 s)
  Endings,       \* bound: how campaigns end on their own
  LateWrites,    \* bound: what overwrites the end of a campaign
  MaxUnowned,    \* bound: campaigns at the start that no director launched
  MaxCampaigns,  \* bound: campaigns in one behaviour
  MaxOps,        \* bound: operations of callers
  MaxFaults      \* bound: crashes of processes and late writes of campaigns

\* The owner of campaigns that no director launched.
Nobody == "nobody"

\* How a campaign ends: completed with recommended_action freeze_candidate is
\* "frozen"; completed without it is treated as exhausted by every reader here.
EndStatuses == {"frozen", "exhausted", "failed", "stopped"}

ASSUME DirectorAssumption ==
  /\ Manager \notin Caller /\ Nobody \notin DirectorId
  /\ Controls \subseteq {"start", "step", "stop", "pause", "resume", "skip"}
  /\ PlanLength \in Nat \ {0}
  /\ Adopts \in BOOLEAN /\ SlowLaunch \in BOOLEAN
  /\ Endings \subseteq EndStatuses /\ LateWrites \subseteq {"running"} \cup EndStatuses
  /\ {MaxUnowned, MaxCampaigns, MaxOps, MaxFaults} \subseteq Nat

VARIABLES
  director,   \* the rows of directors
  campaign,   \* the rows of campaigns, and for the properties: whether a director
              \* inserted them and whether a freeze was overwritten (thawed)
  aged,       \* the claim of a director is older than 120 s
  halted,     \* the last director or campaign without promotion failed or was stopped
  proc,       \* what each process is doing
  ops, crashes, late   \* counters for the bounds

vars == <<director, campaign, aged, halted, proc, ops, crashes, late>>

Process  == Caller \cup {Manager}
Entry    == 1 .. PlanLength
Campaign == 1 .. MaxCampaigns
None     == 0

EntryStatuses == {"pending", "launching", "running", "skipped"}
Terminal      == {"completed", "exhausted", "failed", "stopped"}
Halts         == {"failed", "stopped"}
DirectorStatuses == {"absent", "running", "paused"} \cup Terminal

CampaignStatuses == {"absent", "running"} \cup EndStatuses

\* state_json: campaign_queue, active_campaign_id, launch_in_progress.
State == [queue : [Entry -> EntryStatuses], active : Campaign \cup {None},
          claim : Entry \cup {None}]
Row   == [status : DirectorStatuses, current : Campaign \cup {None}, state : State]

FreshState == [queue |-> [e \in Entry |-> "pending"], active |-> None, claim |-> None]
Absent     == [status |-> "absent", current |-> None, state |-> FreshState]

PCs == {"idle", "checked", "step", "row", "looked", "start", "insert", "again",
        "record", "handler", "failing", "stop", "stopCampaign", "stopping", "pause", "resume",
        "skip"}

\* A process works on director d with a copy of its row; it has found a
\* campaign or launches entry.
Idle == [pc |-> "idle", d |-> Nobody, seen |-> Absent, found |-> None, entry |-> None]
Go(p, pc) == proc' = [proc EXCEPT ![p].pc = pc]
Return(p) == proc' = [proc EXCEPT ![p] = Idle]

ActiveCampaign(c) == campaign[c].status = "running"
IsActive(d)       == director[d].status = "running"

Init ==
  /\ director = [d \in DirectorId |-> Absent]
  /\ \E n \in 0 .. MaxUnowned : \E of \in [1 .. n -> Entry] :
       campaign = [c \in Campaign |->
         IF c <= n
         THEN [status |-> "running", owner |-> Nobody, launched |-> FALSE, thawed |-> FALSE, entry |-> of[c]]
         ELSE [status |-> "absent", owner |-> Nobody, launched |-> FALSE, thawed |-> FALSE, entry |-> None]]
  /\ aged = [d \in DirectorId |-> FALSE]
  /\ halted = FALSE
  /\ proc = [p \in Process |-> Idle]
  /\ ops = 0 /\ crashes = 0 /\ late = 0

-----------------------------------------------------------------------------
\* Writes of the row.  None of them looks at the row it overwrites.

\* Mutant: the whole row is written back, the status with it.
WriteRow(d, state, current) ==
  director' = [director EXCEPT ![d] = [status |-> "running", current |-> current, state |-> state]]

\* _update_director_state
UpdateState(d, state, current) ==
  director' = [director EXCEPT ![d].state = state, ![d].current = current]

\* _finish_director: state_json comes from the copy as it was read.
Finish(d, seen, status) ==
  /\ director' = [director EXCEPT ![d] = [status |-> status, current |-> None, state |-> seen.state]]
  /\ halted' = IF status = "completed" THEN halted ELSE status \in Halts

Pending(queue) == {e \in Entry : queue[e] = "pending"}
First(S)       == CHOOSE e \in S : \A f \in S : e <= f

\* Mutant: only campaigns that are still queued count as active.
QueuedOf(d) == {c \in Campaign : campaign[c].owner = d /\ campaign[c].status = "queued"}

\* _find_active_campaign_for_director: a campaign of the entry, if any.
ActiveOf(d) == {c \in Campaign : campaign[c].owner = d /\ ActiveCampaign(c)}
Launched(d, e) == {c \in ActiveOf(d) : campaign[c].entry = e}
\* It raises ValueError when the director has another active campaign.
Conflict(d, e) == ActiveOf(d) # {} /\ Launched(d, e) = {}

\* _find_adoptable_campaign: the oldest, if any.
Unowned(e)   == {c \in Campaign : ActiveCampaign(c) /\ campaign[c].owner = Nobody
                                    /\ campaign[c].entry = e}
Adoptable(e) == {c \in Unowned(e) : c = First(Unowned(e))}

-----------------------------------------------------------------------------
\* start_director.  _find_active_plan_duplicate looks at queued and running
\* directors only; the INSERT comes later.

NoDuplicate == \A d \in DirectorId : ~IsActive(d)
NewId(d)    == /\ director[d].status = "absent"
               /\ \A p \in Process : proc[p].pc = "checked" => proc[p].d # d

CheckDuplicate(p, d) ==
  /\ proc[p].pc = "idle" /\ NewId(d)
  /\ "start" \in Controls /\ ops < MaxOps
  /\ NoDuplicate
  /\ proc' = [proc EXCEPT ![p] = [Idle EXCEPT !.pc = "checked", !.d = d]]
  /\ ops' = ops + 1
  /\ UNCHANGED <<director, campaign, aged, halted, crashes, late>>

\* _maybe_start_next_governed_director, with its queue always willing: no
\* active runtime, and the latest end was not a failure or a stop.
AutoStart(d) ==
  /\ proc[Manager].pc = "idle" /\ NewId(d)
  /\ \A x \in DirectorId : director[x].status \notin {"running", "paused"}
  /\ \A c \in Campaign : ~ActiveCampaign(c)
  /\ ~halted
  /\ proc' = [proc EXCEPT ![Manager] = [Idle EXCEPT !.pc = "checked", !.d = d]]
  /\ UNCHANGED <<director, campaign, aged, halted, ops, crashes, late>>

InsertDirector(p) ==
  /\ proc[p].pc = "checked"
  /\ director' = [director EXCEPT ![proc[p].d].status = "running"]
  /\ Go(p, "step")
  /\ UNCHANGED <<campaign, aged, halted, ops, crashes, late>>

-----------------------------------------------------------------------------
\* step_director.  The manager steps every active director in turn; callers
\* step after a start, a resume or a skip, or through research-director-step.

ReadRow(p, d) ==
  /\ \/ p = Manager /\ proc[p].pc = "idle" /\ UNCHANGED ops
     \/ p \in Caller /\ proc[p].pc = "idle" /\ "step" \in Controls /\ ops < MaxOps /\ ops' = ops + 1
     \/ proc[p].pc = "step" /\ proc[p].d = d /\ UNCHANGED ops
  /\ IF IsActive(d)
     THEN proc' = [proc EXCEPT ![p] = [Idle EXCEPT !.pc = "row", !.d = d, !.seen = director[d]]]
     ELSE proc[p].pc = "step" /\ Return(p)
  /\ UNCHANGED <<director, campaign, aged, halted, crashes, late>>

Wait(p) ==
  /\ proc[p].pc = "row"
  /\ proc[p].seen.state.active # None /\ ActiveCampaign(proc[p].seen.state.active)
  /\ Return(p)
  /\ UNCHANGED <<director, campaign, aged, halted, ops, crashes, late>>

OutcomeOf(p, Exhaust(_, _)) ==
  /\ proc[p].pc = "row"
  /\ LET d == proc[p].d
         seen == proc[p].seen
         ended == campaign[seen.state.active].status
     IN /\ seen.state.active # None /\ ~ActiveCampaign(seen.state.active)
        /\ \/ ended = "frozen" /\ Finish(d, seen, "completed")
           \/ ended = "exhausted" /\ Exhaust(d, seen)
           \/ ended \in {"stopped", "failed"} /\ Finish(d, seen, ended)
  /\ Return(p)
  /\ UNCHANGED <<campaign, aged, ops, crashes, late>>

\* Mutant: the campaign that ended stays the active one.
KeepActive(p) ==
  OutcomeOf(p, LAMBDA d, seen : UpdateState(d, seen.state, None) /\ UNCHANGED halted)

\* Mutant: a campaign without a viable strategy completes the director.
AnyOutcomeCompletes(p) == OutcomeOf(p, LAMBDA d, seen : Finish(d, seen, "completed"))

\* _process_director_campaign_outcome.  It notes the outcome in entries of
\* another copy than the one it writes: an entry stays "running" for good.
Outcome(p) ==
  OutcomeOf(p, LAMBDA d, seen :
    /\ UpdateState(d, [seen.state EXCEPT !.active = None], None)
    /\ UNCHANGED halted)

\* The SELECT on campaigns that comes before the first write of the step.
Look(p) ==
  /\ proc[p].pc = "row" /\ proc[p].seen.state.active = None
  /\ LET d == proc[p].d
         state == proc[p].seen.state
         next == First(Pending(state.queue))
         some == IF state.claim # None THEN Launched(d, state.claim)
                 ELSE IF Adopts /\ Pending(state.queue) # {} THEN Adoptable(next) ELSE {}
     IN IF state.claim # None /\ Conflict(d, state.claim) THEN Go(p, "handler")
        ELSE \E c \in IF some = {} THEN {None} ELSE some :
               proc' = [proc EXCEPT ![p].pc = "looked", ![p].found = c]
  /\ UNCHANGED <<director, campaign, aged, halted, ops, crashes, late>>

\* A campaign of the claim is there: the launch got that far.
AdoptLaunched(p) ==
  /\ proc[p].pc = "looked" /\ proc[p].seen.state.claim # None /\ proc[p].found # None
  /\ UpdateState(proc[p].d,
       [proc[p].seen.state EXCEPT !.queue[proc[p].seen.state.claim] = "running",
                                  !.active = proc[p].found, !.claim = None],
       proc[p].found)
  /\ Return(p)
  /\ UNCHANGED <<campaign, aged, halted, ops, crashes, late>>

LaunchInProgress(p) ==
  /\ proc[p].pc = "looked" /\ proc[p].seen.state.claim # None /\ proc[p].found = None
  /\ ~aged[proc[p].d]
  /\ Return(p)
  /\ UNCHANGED <<director, campaign, aged, halted, ops, crashes, late>>

\* Mutant: the claim is dropped and its entry left as it is.
DropClaim(state) == [state EXCEPT !.claim = None]

\* The queue after a stale claim, if there is one, was reset.
Reset(state) ==
  [state EXCEPT !.queue = [e \in Entry |->
                  IF e = state.claim /\ state.queue[e] = "launching" THEN "pending" ELSE state.queue[e]],
                !.claim = None]

\* Adopt, claim or finish with the next pending entry.  The reset of a stale
\* claim opens the transaction: what follows it reads the current rows.
TakeNext(p) ==
  /\ proc[p].pc = "looked"
  /\ LET d == proc[p].d
         old == proc[p].seen.state
         state == Reset(old)
         e == First(Pending(state.queue))
         found == IF old.claim = None THEN {proc[p].found} \ {None}
                  ELSE IF Adopts THEN Adoptable(e) ELSE {}
     IN /\ old.claim # None => proc[p].found = None /\ aged[d]
        /\ \/ /\ Pending(state.queue) = {}
              /\ Finish(d, proc[p].seen, "exhausted")
              /\ Return(p)
              /\ UNCHANGED <<campaign, aged>>
           \/ /\ Pending(state.queue) # {} /\ found # {}
              /\ \E c \in found :
                   /\ UpdateState(d, [state EXCEPT !.queue[e] = "running", !.active = c], c)
                   /\ campaign' = [campaign EXCEPT ![c].owner = d]
              /\ Return(p)
              /\ UNCHANGED <<aged, halted>>
           \/ /\ Pending(state.queue) # {} /\ found = {}
              /\ UpdateState(d, [state EXCEPT !.queue[e] = "launching", !.claim = e], None)
              /\ aged' = [aged EXCEPT ![d] = FALSE]
              /\ proc' = [proc EXCEPT ![p].pc = "start", ![p].entry = e]
              /\ UNCHANGED <<campaign, halted>>
  /\ UNCHANGED <<ops, crashes, late>>

\* start_campaign: the look for a campaign of this director comes before the
\* inputs are prepared, the INSERT after it.
StartCampaign(p) ==
  /\ proc[p].pc = "start"
  /\ LET d == proc[p].d
         e == proc[p].entry
     IN IF Conflict(d, e) THEN Go(p, "handler")
        ELSE IF Launched(d, e) # {}
        THEN \E c \in Launched(d, e) : proc' = [proc EXCEPT ![p].pc = "again", ![p].found = c]
        ELSE Go(p, "insert")
  /\ UNCHANGED <<director, campaign, aged, halted, ops, crashes, late>>

InsertCampaign(p) ==
  /\ proc[p].pc = "insert"
  /\ LET free == {c \in Campaign : campaign[c].status = "absent"}
         c == First(free)
     IN /\ free # {}
        /\ campaign' = [campaign EXCEPT ![c] = [status |-> "running", owner |-> proc[p].d,
                                                launched |-> TRUE, thawed |-> FALSE,
                                                entry |-> proc[p].entry]]
        /\ \/ /\ proc' = [proc EXCEPT ![p].pc = "again", ![p].found = c]
              /\ UNCHANGED crashes
           \/ \* the first step of the campaign raises
              /\ crashes + late < MaxFaults /\ crashes' = crashes + 1
              /\ Go(p, "handler")
  /\ UNCHANGED <<director, aged, halted, ops, late>>

\* load_config or _prepare_campaign_inputs raises.
LaunchRaises(p) ==
  /\ proc[p].pc = "insert" /\ crashes + late < MaxFaults
  /\ Go(p, "handler")
  /\ crashes' = crashes + 1
  /\ UNCHANGED <<director, campaign, aged, halted, ops, late>>

\* The second connection: whatever the status is by now, the launch is noted.
ReadAgain(p) ==
  /\ proc[p].pc = "again"
  /\ proc' = [proc EXCEPT ![p].pc = "record", ![p].seen = director[proc[p].d]]
  /\ UNCHANGED <<director, campaign, aged, halted, ops, crashes, late>>

\* Mutant: only the column current_campaign_id is written.
RecordColumn(p) ==
  /\ proc[p].pc = "record"
  /\ UpdateState(proc[p].d,
       [proc[p].seen.state EXCEPT !.queue[proc[p].entry] = "running", !.claim = None],
       proc[p].found)
  /\ Return(p)
  /\ UNCHANGED <<campaign, aged, halted, ops, crashes, late>>

Record(p) ==
  /\ proc[p].pc = "record"
  /\ UpdateState(proc[p].d,
       [proc[p].seen.state EXCEPT !.queue[proc[p].entry] = "running",
                                  !.active = proc[p].found, !.claim = None],
       proc[p].found)
  /\ Return(p)
  /\ UNCHANGED <<campaign, aged, halted, ops, crashes, late>>

\* _handle_director_runtime_error, by the manager; a caller sees the error.
ReadToFail(p) ==
  /\ proc[p].pc = "handler"
  /\ IF p = Manager /\ IsActive(proc[p].d)
     THEN proc' = [proc EXCEPT ![p].pc = "failing", ![p].seen = director[proc[p].d]]
     ELSE Return(p)
  /\ UNCHANGED <<director, campaign, aged, halted, ops, crashes, late>>

Fail(p) ==
  /\ proc[p].pc = "failing"
  /\ director' = [director EXCEPT ![proc[p].d].status = "failed",
                                  ![proc[p].d].state = proc[p].seen.state]
  /\ halted' = TRUE
  /\ Return(p)
  /\ UNCHANGED <<campaign, aged, ops, crashes, late>>

-----------------------------------------------------------------------------
\* stop_director, pause_director, resume_director, skip_director_next.

Accepts(status, act) ==
  CASE act \in {"stop", "pause"} -> status = "running"
    [] act = "resume" -> status = "paused"
    [] act = "skip"   -> status \in {"running", "paused"}

ReadForControl(p, d, act) ==
  /\ p \in Caller /\ proc[p].pc = "idle" /\ act \in Controls \ {"start", "step"} /\ ops < MaxOps
  /\ Accepts(director[d].status, act)
  /\ act = "skip" => Pending(director[d].state.queue) # {}
  /\ proc' = [proc EXCEPT ![p] = [Idle EXCEPT !.pc = act, !.d = d, !.seen = director[d]]]
  /\ ops' = ops + 1
  /\ UNCHANGED <<director, campaign, aged, halted, crashes, late>>

\* stop_active_campaign may be asked for; current_campaign_id is kept.
Stop(p) ==
  /\ proc[p].pc = "stop"
  /\ director' = [director EXCEPT ![proc[p].d].status = "stopped",
                                  ![proc[p].d].state = proc[p].seen.state]
  /\ halted' = TRUE
  /\ \/ Return(p)
     \/ proc[p].seen.state.active # None /\ Go(p, "stopCampaign")
  /\ UNCHANGED <<campaign, aged, ops, crashes, late>>

\* A campaign's status is written by id: the row that is overwritten may have
\* ended since it was read, and its freeze is then gone.
Overwrite(c, status) ==
  campaign' = [campaign EXCEPT
    ![c].status = status,
    ![c].thawed = IF campaign[c].status = "frozen" THEN TRUE ELSE campaign[c].thawed]

\* stop_campaign reads the row, works on its copy and writes 'stopped' later.
StopCampaign(p) ==
  /\ proc[p].pc = "stopCampaign"
  /\ IF ActiveCampaign(proc[p].seen.state.active) THEN Go(p, "stopping") ELSE Return(p)
  /\ UNCHANGED <<director, campaign, aged, halted, ops, crashes, late>>

\* finished_at is kept if it was set: the stop need not become the latest end.
EndCampaign(p) ==
  /\ proc[p].pc = "stopping"
  /\ LET c == proc[p].seen.state.active
     IN /\ Overwrite(c, "stopped")
        /\ halted' \in {TRUE} \cup (IF ActiveCampaign(c) THEN {} ELSE {halted})
  /\ Return(p)
  /\ UNCHANGED <<director, aged, ops, crashes, late>>

Pause(p) ==
  /\ proc[p].pc = "pause"
  /\ director' = [director EXCEPT ![proc[p].d].status = "paused",
                                  ![proc[p].d].state = proc[p].seen.state]
  /\ Return(p)
  /\ UNCHANGED <<campaign, aged, halted, ops, crashes, late>>

Resume(p) ==
  /\ proc[p].pc = "resume"
  /\ director' = [director EXCEPT ![proc[p].d].status = "running",
                                  ![proc[p].d].state = proc[p].seen.state]
  /\ Go(p, "step")
  /\ UNCHANGED <<campaign, aged, halted, ops, crashes, late>>

Skip(p) ==
  /\ proc[p].pc = "skip"
  /\ LET seen == proc[p].seen
     IN /\ director' = [director EXCEPT ![proc[p].d].state =
             [seen.state EXCEPT !.queue[First(Pending(seen.state.queue))] = "skipped"]]
        /\ IF seen.status = "running" /\ seen.current = None THEN Go(p, "step") ELSE Return(p)
  /\ UNCHANGED <<campaign, aged, halted, ops, crashes, late>>

-----------------------------------------------------------------------------
\* The campaigns themselves (module Campaign), time, and crashes.

CampaignEnds(c) ==
  /\ ActiveCampaign(c)
  /\ \E status \in Endings :
       /\ campaign' = [campaign EXCEPT ![c].status = status]
       /\ halted' = IF status = "frozen" THEN halted ELSE status \in Halts
  /\ UNCHANGED <<director, aged, proc, ops, crashes, late>>

\* A stop, a step or the failure handler of a campaign that read its row while
\* it ran writes it after it ended: another end, or 'running' for a retry.  Any
\* end may then be the latest by finished_at.
CampaignOverwritten(c) ==
  /\ crashes + late < MaxFaults
  /\ campaign[c].status \in EndStatuses
  /\ \E status \in LateWrites \ {campaign[c].status} : Overwrite(c, status)
  /\ halted' \in BOOLEAN
  /\ late' = late + 1
  /\ UNCHANGED <<director, aged, proc, ops, crashes>>

Launching(d) == \E p \in Process : proc[p].d = d /\ proc[p].pc \in {"start", "insert", "again", "record"}

\* A claim gets older than 120 s: unless launches are quick, while its launch
\* is still under way.
ClaimAges(d) ==
  /\ director[d].state.claim # None /\ ~aged[d]
  /\ ~SlowLaunch => ~Launching(d)
  /\ aged' = [aged EXCEPT ![d] = TRUE]
  /\ UNCHANGED <<director, campaign, halted, proc, ops, crashes, late>>

Crash(p) ==
  /\ proc[p].pc # "idle" /\ crashes + late < MaxFaults
  /\ Return(p)
  /\ crashes' = crashes + 1
  /\ UNCHANGED <<director, campaign, aged, halted, ops, late>>

StepActions(p) ==
  \/ \E d \in DirectorId : ReadRow(p, d)
  \/ InsertDirector(p) \/ Wait(p) \/ Outcome(p) \/ Look(p) \/ AdoptLaunched(p)
  \/ LaunchInProgress(p) \/ TakeNext(p) \/ StartCampaign(p) \/ InsertCampaign(p)
  \/ ReadAgain(p) \/ Record(p) \/ ReadToFail(p) \/ Fail(p)

ControlActions(p) ==
  Stop(p) \/ StopCampaign(p) \/ EndCampaign(p) \/ Pause(p) \/ Resume(p) \/ Skip(p)

Next ==
  \/ \E p \in Process : StepActions(p) \/ ControlActions(p) \/ LaunchRaises(p) \/ Crash(p)
  \/ \E d \in DirectorId : AutoStart(d) \/ ClaimAges(d)
  \/ \E p \in Caller, d \in DirectorId :
       \/ CheckDuplicate(p, d)
       \/ \E act \in {"stop", "pause", "resume", "skip"} : ReadForControl(p, d, act)
  \/ \E c \in Campaign : CampaignEnds(c) \/ CampaignOverwritten(c)

\* The manager's loop goes on, a step that was begun is carried on or crashes,
\* campaigns end (module Campaign: CampaignEnds), and time passes.
Fairness ==
  /\ WF_vars(StepActions(Manager))
  /\ \A p \in Caller : WF_vars(proc[p].pc # "idle" /\ StepActions(p))
  /\ \A c \in Campaign : WF_vars(CampaignEnds(c))
  /\ \A d \in DirectorId : WF_vars(ClaimAges(d))

Spec == Init /\ [][Next]_vars /\ Fairness

-----------------------------------------------------------------------------
TypeOK ==
  /\ director \in [DirectorId -> Row]
  /\ campaign \in [Campaign -> [status : CampaignStatuses, owner : DirectorId \cup {Nobody},
                                launched : BOOLEAN, thawed : BOOLEAN, entry : Entry \cup {None}]]
  /\ aged \in [DirectorId -> BOOLEAN]
  /\ halted \in BOOLEAN
  /\ proc \in [Process -> [pc : PCs, d : DirectorId \cup {Nobody}, seen : Row,
                           found : Campaign \cup {None}, entry : Entry \cup {None}]]
  /\ ops \in 0 .. MaxOps /\ crashes \in 0 .. MaxFaults /\ late \in 0 .. MaxFaults

\* What a reader of the tables sees of a director.
Owned(d) == {c \in Campaign : campaign[c].owner = d /\ campaign[c].status = "running"}

\* Whoever crashes between the claim, the INSERT and the record of a launch, one
\* of the campaigns that a director launched is active; each further one takes an
\* operation by which a caller steps it too, since a launch that finds an active
\* campaign of the director inserts none, or a late write that makes one that
\* ended run again.  An adoption does not look for one: a director may own more
\* campaigns that it adopted.
LaunchedBy(d)   == {c \in Owned(d) : campaign[c].launched}
LaunchesBounded == \A d \in DirectorId : Cardinality(LaunchedBy(d)) <= 1 + ops + late

Calm == ops = 0 /\ late = 0

\* As long as no caller interferes and no end of a campaign is overwritten, every
\* active campaign of a running director is the one it waits for, or its claim
\* still leads to it.
Accounted ==
  Calm => \A d \in DirectorId : director[d].status = "running" =>
    \A c \in Owned(d) : \/ director[d].state.active = c
                        \/ director[d].state.claim = campaign[c].entry

\* ... and a director that ends for want of pending entries had a campaign for
\* each: none got lost between a claim and its reset.
ExhaustedTriedAll ==
  Calm => \A d \in DirectorId : director[d].status = "exhausted" =>
    \A e \in Entry : \E c \in Campaign : campaign[c].owner = d /\ campaign[c].entry = e

\* Whatever races with whatever, completed means that a campaign of the
\* director froze a candidate.  Its row may no longer say so: a stop, a step or
\* a failure that read it before can overwrite the freeze, and nothing else can.
CompletedByFreeze ==
  \A d \in DirectorId : director[d].status = "completed" =>
    \E c \in Campaign : campaign[c].owner = d /\ (campaign[c].status = "frozen" \/ campaign[c].thawed)

\* A director that ended is revived only by a pause or a resume that read it
\* before; the record of a launch that comes after a stop does not revive it.
TerminalForGood ==
  [][\A d \in DirectorId :
       director[d].status \in Terminal /\ director'[d].status \notin Terminal =>
         \E p \in Caller : proc[p].pc \in {"pause", "resume"} /\ proc[p].d = d]_vars

\* A running director ends: an interrupted launch is taken up again, and every
\* entry is tried at most as often as launches crash.
DirectorEnds == \A d \in DirectorId : director[d].status = "running" ~> director[d].status # "running"
=============================================================================
