----------------------------- MODULE OpsBridge -----------------------------
(***************************************************************************)
(* The operations bridge (ops_bridge.py): one request at a time, it        *)
(* restarts the containers of a service within limits counted from its own *)
(* audit file, and runs an agent for a notifier.  The notifier             *)
(* (_dispatch_agent_trigger) holds its cooldown by the telemetry file that *)
(* bridge and notifiers append to.  Time is counted in ticks.              *)
(***************************************************************************)
EXTENDS Integers, Sequences, FiniteSets

CONSTANTS
  Service,                 \* service_allowlist
  Containers,              \* containers of a service
  Notifier, Fingerprint,   \* processes that notify, and what they dispatch
  ShortLimit, ShortWindow, LongLimit, LongWindow, \* restarts and the time they are counted in
  Cooldown, Patience,      \* AGENT_DISPATCH_COOLDOWN_SECONDS, the notifier's timeout
  NewestRecords,           \* records has_recent_successful_dispatch looks at
  MaxBeatAge,              \* age up to which a heartbeat is fresh
  MaxTime, MaxRequests, MaxFaults \* bounds: ticks, requests, things that go wrong

ASSUME OpsAssumption ==
  /\ Containers \in Nat \ {0} /\ {ShortLimit, LongLimit} \subseteq Nat
  /\ {ShortWindow, LongWindow, Cooldown, Patience, NewestRecords, MaxBeatAge,
      MaxTime, MaxRequests, MaxFaults} \subseteq Nat

VARIABLES
  now,        \* the time
  beat,       \* time of each service's heartbeat file, -1 without one
  backlog,    \* requests that wait for the bridge
  serving,    \* what the bridge does
  audit,      \* restarts the audit file records with a 2xx status: service and time
  telemetry,  \* dispatches.jsonl
  notifier,   \* what each notifier does
  restarted,  \* history: restarts that restarted a container, by service
  unaudited,  \* history: those of them the audit file does not count
  runs,       \* history: when an agent ended well, by fingerprint
  slips,      \* history: why a run may be repeated, by fingerprint
  requests, faults \* requests made and things gone wrong so far

bridge == <<backlog, serving, audit, restarted, unaudited>>
agents == <<telemetry, notifier, runs, slips>>
vars == <<now, beat, bridge, agents, requests, faults>>

Idle == [kind |-> "idle"]

Init ==
  /\ now = 0 /\ beat = [s \in Service |-> -1]
  /\ backlog = <<>> /\ serving = Idle /\ audit = <<>> /\ telemetry = <<>>
  /\ notifier = [n \in Notifier |-> Idle]
  /\ restarted = [s \in Service |-> <<>>] /\ unaudited = [s \in Service |-> 0]
  /\ runs = [f \in Fingerprint |-> <<>>] /\ slips = [f \in Fingerprint |-> 0]
  /\ requests = 0 /\ faults = 0

Within(times, from, to) == Cardinality({i \in DOMAIN times : times[i] \in from .. to})
Request == requests < MaxRequests /\ requests' = requests + 1
Fault == faults < MaxFaults /\ faults' = faults + 1

\* An agent that nobody listens to ends well.
EndsUnseen(f) ==
  runs' = [runs EXCEPT ![f] = Append(@, now)] /\ slips' = [slips EXCEPT ![f] = @ + 1]

Tick ==
  /\ now < MaxTime /\ now' = now + 1
  /\ UNCHANGED <<beat, bridge, agents, requests, faults>>

---------------------------------------------------------------------------
(* Heartbeats, and restarts that somebody asks for when one is not fresh. *)

HeartbeatStatus(s) ==
  CASE beat[s] = -1 -> "missing" [] now - beat[s] > MaxBeatAge -> "stale" [] OTHER -> "ok"

Beat(s) ==
  /\ beat[s] # now /\ beat' = [beat EXCEPT ![s] = now]
  /\ UNCHANGED <<now, bridge, agents, requests, faults>>

AskRestart(s) ==
  /\ HeartbeatStatus(s) # "ok" /\ Request
  /\ backlog' = Append(backlog, [kind |-> "restart", service |-> s])
  /\ UNCHANGED <<now, beat, serving, audit, restarted, unaudited, agents, faults>>

\* _recent_restart_counts.
Recent(s, window) ==
  Cardinality({i \in DOMAIN audit : audit[i].service = s /\ audit[i].at >= now - window})

\* Mutant: one restart more than the limit.
PastLimit(s) == Recent(s, ShortWindow) > ShortLimit \/ Recent(s, LongWindow) > LongLimit

AtLimit(s) == Recent(s, ShortWindow) >= ShortLimit \/ Recent(s, LongWindow) >= LongLimit

\* The bridge takes the next request; a refused restart is answered at once.
Serve ==
  /\ serving = Idle /\ backlog # <<>> /\ backlog' = Tail(backlog)
  /\ LET r == Head(backlog) IN
       serving' = IF r.kind = "dispatch" THEN r
                  ELSE IF AtLimit(r.service) THEN Idle
                  ELSE [kind |-> "restart", service |-> r.service, left |-> Containers]
  /\ UNCHANGED <<now, beat, audit, restarted, unaudited, agents, requests, faults>>

\* The first container of a request counts it as a restart.
Restarting ==
  /\ serving.kind = "restart" /\ serving.left > 0
  /\ restarted' = IF serving.left < Containers THEN restarted
                  ELSE [restarted EXCEPT ![serving.service] = Append(@, now)]

RestartContainer ==
  /\ Restarting /\ serving' = [serving EXCEPT !.left = @ - 1]
  /\ UNCHANGED <<now, beat, backlog, audit, unaudited, agents, requests, faults>>

\* Docker restarts the container but answers later than the socket's timeout:
\* the answer is a 500, which nobody counts.
RestartUnanswered ==
  /\ Restarting /\ Fault /\ serving' = Idle
  /\ unaudited' = [unaudited EXCEPT ![serving.service] = @ + 1]
  /\ UNCHANGED <<now, beat, backlog, audit, agents, requests>>

\* A restart that ends after some containers is not counted either.
HalfDone ==
  IF serving.kind = "restart" /\ serving.left < Containers
  THEN [unaudited EXCEPT ![serving.service] = @ + 1] ELSE unaudited

RestartRefused ==
  /\ serving.kind = "restart" /\ serving.left > 0 /\ Fault
  /\ unaudited' = HalfDone /\ serving' = Idle
  /\ UNCHANGED <<now, beat, backlog, audit, restarted, agents, requests>>

FinishRestart ==
  /\ serving.kind = "restart" /\ serving.left = 0 /\ serving' = Idle
  /\ audit' = Append(audit, [service |-> serving.service, at |-> now])
  /\ UNCHANGED <<now, beat, backlog, restarted, unaudited, agents, requests, faults>>

\* The bridge ends: what it serves and what waits for it is lost, and the
\* notifiers' steps fail on the broken connection.  The agent may go on.
BridgeCrash ==
  /\ serving # Idle /\ Fault /\ serving' = Idle /\ backlog' = <<>> /\ unaudited' = HalfDone
  /\ notifier' = [n \in Notifier |-> Idle]
  /\ \/ UNCHANGED <<runs, slips>>
     \/ serving.kind = "dispatch" /\ EndsUnseen(serving.fingerprint)
  /\ UNCHANGED <<now, beat, audit, restarted, telemetry, requests>>

---------------------------------------------------------------------------
(* Dispatches. *)

Record(f, success) == [fingerprint |-> f, success |-> success, at |-> now]
Fresh(r, f) == r.fingerprint = f /\ r.success /\ now - r.at <= Cooldown
Newest(k) == SubSeq(telemetry, (IF Len(telemetry) > k THEN Len(telemetry) - k ELSE 0) + 1, Len(telemetry))

\* Mutant: only the newest record is looked at.
NewestSucceeded(f) == \E i \in DOMAIN Newest(1) : Fresh(Newest(1)[i], f)

\* has_recent_successful_dispatch.
RecentSuccess(f) == \E i \in DOMAIN Newest(NewestRecords) : Fresh(Newest(NewestRecords)[i], f)

\* A success older than those records.
PushedOut(f) == \E i \in 1 .. Len(telemetry) - NewestRecords : Fresh(telemetry[i], f)

Waiting(n) == notifier[n].kind = "waiting"
AwayFrom(n, f) == \E m \in Notifier \ {n} : Waiting(m) /\ notifier[m].fingerprint = f

Suppress(n, f) ==
  /\ notifier[n] = Idle /\ Request /\ RecentSuccess(f)
  /\ telemetry' = Append(telemetry, Record(f, FALSE))
  /\ UNCHANGED <<now, beat, bridge, notifier, runs, slips, faults>>

\* Another notifier that waits for the same, or a success among older records,
\* is not seen by the check.
Dispatch(n, f) ==
  /\ notifier[n] = Idle /\ Request /\ ~RecentSuccess(f)
  /\ notifier' = [notifier EXCEPT ![n] = [kind |-> "waiting", fingerprint |-> f, since |-> now, id |-> requests']]
  /\ backlog' = Append(backlog, [kind |-> "dispatch", fingerprint |-> f, notifier |-> n, id |-> requests'])
  /\ slips' = IF AwayFrom(n, f) \/ PushedOut(f)
              THEN [slips EXCEPT ![f] = @ + 1] ELSE slips
  /\ UNCHANGED <<now, beat, serving, audit, restarted, unaudited, telemetry, runs, faults>>

\* The answer reaches the notifier if it still waits; it notes a failure itself.
Answer(success) ==
  LET r == serving  mine == Waiting(r.notifier) /\ notifier[r.notifier].id = r.id IN
  /\ notifier' = IF mine THEN [notifier EXCEPT ![r.notifier] = Idle] ELSE notifier
  /\ serving' = Idle
  /\ telemetry' = telemetry \o (IF success = "none" THEN <<>> ELSE <<Record(r.fingerprint, success = "yes")>>)
                            \o (IF mine /\ success # "yes" THEN <<Record(r.fingerprint, FALSE)>> ELSE <<>>)

AgentSucceeds ==
  /\ serving.kind = "dispatch" /\ Answer("yes")
  /\ runs' = [runs EXCEPT ![serving.fingerprint] = Append(@, now)]
  /\ UNCHANGED <<now, beat, backlog, audit, restarted, unaudited, slips, requests, faults>>

AgentFails ==
  /\ serving.kind = "dispatch" /\ Fault /\ Answer("no")
  /\ UNCHANGED <<now, beat, backlog, audit, restarted, unaudited, runs, slips, requests>>

\* The bridge stops waiting for the agent, which may go on and end well.
AgentOutlasts ==
  /\ serving.kind = "dispatch" /\ Fault /\ Answer("none") /\ EndsUnseen(serving.fingerprint)
  /\ UNCHANGED <<now, beat, backlog, audit, restarted, unaudited, requests>>

\* urlopen times out; the request stays where it is.
GiveUp(n) ==
  /\ Waiting(n) /\ now - notifier[n].since >= Patience
  /\ LET f == notifier[n].fingerprint IN
       /\ telemetry' = Append(telemetry, Record(f, FALSE))
       /\ slips' = [slips EXCEPT ![f] = @ + 1]
  /\ notifier' = [notifier EXCEPT ![n] = Idle]
  /\ UNCHANGED <<now, beat, bridge, runs, requests, faults>>

\* The notifying process ends and is started again.
NotifierCrash(n) ==
  /\ Waiting(n) /\ Fault
  /\ notifier' = [notifier EXCEPT ![n] = Idle]
  /\ slips' = [slips EXCEPT ![notifier[n].fingerprint] = @ + 1]
  /\ UNCHANGED <<now, beat, bridge, telemetry, runs, requests>>

Next ==
  \/ Tick \/ \E s \in Service : Beat(s) \/ AskRestart(s)
  \/ Serve \/ RestartContainer \/ RestartUnanswered \/ RestartRefused \/ FinishRestart \/ BridgeCrash
  \/ \E n \in Notifier :
       (\E f \in Fingerprint : Suppress(n, f) \/ Dispatch(n, f)) \/ GiveUp(n) \/ NotifierCrash(n)
  \/ AgentSucceeds \/ AgentFails \/ AgentOutlasts

Spec == Init /\ [][Next]_vars

---------------------------------------------------------------------------
(* Properties. *)

\* In every window the bridge restarts a service no more often than the runbook
\* allows, but for restarts whose 2xx record was never written: a socket that
\* times out while Docker goes on, a second container that fails, a crash.
RestartsBounded ==
  \A s \in Service, t \in 0 .. MaxTime :
    /\ Within(restarted[s], t - ShortWindow, t) <= ShortLimit + unaudited[s]
    /\ Within(restarted[s], t - LongWindow, t) <= LongLimit + unaudited[s]

\* An agent runs for a fingerprint once in a cooldown, but for what the check
\* cannot see: a request under way, an answer nobody waited for or that was
\* given up, a success older than the records it reads.
OneRunPerCooldown ==
  \A f \in Fingerprint, t \in 0 .. MaxTime : Within(runs[f], t - Cooldown, t) <= 1 + slips[f]
=============================================================================
