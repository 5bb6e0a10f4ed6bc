--------------------------- MODULE OpsBridge_proofs ---------------------------
(***************************************************************************)
(* Theorems about OpsBridge, for any services, containers, notifiers,      *)
(* fingerprints, limits, windows and bounds: the bridge keeps to the       *)
(* restarts the runbook allows, and notifiers to one run in a cooldown.    *)
(* Both count entries of a sequence; what is counted has to be matched, at *)
(* every moment, by what the check before the next restart or dispatch     *)
(* will see, or by something that went wrong.                              *)
(***************************************************************************)
EXTENDS OpsBridge, FiniteSetTheorems, TLAPS

-----------------------------------------------------------------------------
(* Types.                                                                   *)

RestartRequest  == [kind : {"restart"}, service : Service]
DispatchRequest == [kind : {"dispatch"}, fingerprint : Fingerprint, notifier : Notifier, id : Nat]
RestartUnderWay == [kind : {"restart"}, service : Service, left : 0 .. Containers]
WaitingNotifier == [kind : {"waiting"}, fingerprint : Fingerprint, since : Nat, id : Nat]
AuditRecord     == [service : Service, at : Nat]
DispatchRecord  == [fingerprint : Fingerprint, success : BOOLEAN, at : Nat]

BridgeTyped ==
  /\ backlog \in Seq(RestartRequest \cup DispatchRequest)
  /\ serving \in {Idle} \cup RestartUnderWay \cup DispatchRequest
  /\ audit \in Seq(AuditRecord)
  /\ restarted \in [Service -> Seq(Nat)]
  /\ unaudited \in [Service -> Nat]

AgentsTyped ==
  /\ telemetry \in Seq(DispatchRecord)
  /\ notifier \in [Notifier -> {Idle} \cup WaitingNotifier]
  /\ runs \in [Fingerprint -> Seq(Nat)]
  /\ slips \in [Fingerprint -> Nat]

Typed == now \in Nat /\ requests \in Nat /\ BridgeTyped /\ AgentsTyped

\* What the bridge serves goes by its kind, and so do requests and notifiers.
LEMMA Kinds ==
  ASSUME BridgeTyped
  PROVE  /\ serving.kind = "restart" => serving \in RestartUnderWay
         /\ serving.kind = "dispatch" => serving \in DispatchRequest
         /\ serving # Idle => serving.kind \in {"restart", "dispatch"}
         /\ \A r \in RestartRequest \cup DispatchRequest :
              /\ r.kind = "dispatch" => r \in DispatchRequest
              /\ r.kind # "dispatch" => r \in RestartRequest
BY DEF BridgeTyped, Idle, RestartUnderWay, DispatchRequest, RestartRequest

LEMMA WaitingTyped ==
  ASSUME AgentsTyped, NEW n \in Notifier
  PROVE  IF Waiting(n) THEN notifier[n] \in WaitingNotifier ELSE notifier[n] = Idle
BY DEF AgentsTyped, Waiting, Idle, WaitingNotifier

LEMMA HalfDoneTyped ==
  ASSUME BridgeTyped
  PROVE  HalfDone \in [Service -> Nat]
BY Kinds DEF BridgeTyped, HalfDone, RestartUnderWay

\* Entries written to a history or to a count keep its type.
LEMMA AppendAt ==
  ASSUME NEW D, NEW S, NEW h \in [D -> Seq(S)], NEW d \in D, NEW x \in S
  PROVE  [h EXCEPT ![d] = Append(@, x)] \in [D -> Seq(S)]
OBVIOUS

LEMMA OneMoreAt ==
  ASSUME NEW D, NEW h \in [D -> Nat], NEW d \in D
  PROVE  [h EXCEPT ![d] = @ + 1] \in [D -> Nat]
OBVIOUS

LEMMA IdleAt ==
  ASSUME AgentsTyped, NEW n \in Notifier
  PROVE  [notifier EXCEPT ![n] = Idle] \in [Notifier -> {Idle} \cup WaitingNotifier]
BY DEF AgentsTyped

LEMMA RecordTyped ==
  ASSUME NEW f \in Fingerprint, NEW b \in BOOLEAN, now \in Nat
  PROVE  Record(f, b) \in DispatchRecord
BY DEF Record, DispatchRecord

LEMMA BridgeKept == BridgeTyped /\ UNCHANGED bridge => BridgeTyped'
BY DEF BridgeTyped, bridge

LEMMA AgentsKept == AgentsTyped /\ UNCHANGED agents => AgentsTyped'
BY DEF AgentsTyped, agents

LEMMA EndsUnseenTyped ==
  ASSUME AgentsTyped, now \in Nat, NEW f \in Fingerprint, EndsUnseen(f)
  PROVE  runs' \in [Fingerprint -> Seq(Nat)] /\ slips' \in [Fingerprint -> Nat]
BY AppendAt, OneMoreAt DEF AgentsTyped, EndsUnseen

LEMMA AnswerTyped ==
  ASSUME Typed, NEW success \in {"yes", "no", "none"}, serving.kind = "dispatch", Answer(success)
  PROVE  /\ serving.fingerprint \in Fingerprint
         /\ serving' = Idle
         /\ telemetry' \in Seq(DispatchRecord)
         /\ notifier' \in [Notifier -> {Idle} \cup WaitingNotifier]
<1>1. serving.fingerprint \in Fingerprint /\ serving.notifier \in Notifier
  BY Kinds DEF Typed, DispatchRequest
<1>2. \A b \in BOOLEAN : <<Record(serving.fingerprint, b)>> \in Seq(DispatchRecord)
  BY <1>1, RecordTyped DEF Typed
<1>3. <<>> \in Seq(DispatchRecord) /\ telemetry \in Seq(DispatchRecord)
  BY DEF Typed, AgentsTyped
<1>4. PICK a \in Seq(DispatchRecord), b \in Seq(DispatchRecord) : telemetry' = telemetry \o a \o b
  BY <1>2, <1>3, (success = "yes") \in BOOLEAN DEF Answer
<1>5. telemetry' \in Seq(DispatchRecord)
  BY <1>3, <1>4
<1>6. notifier' = notifier \/ notifier' = [notifier EXCEPT ![serving.notifier] = Idle]
  BY DEF Answer
<1>7. QED
  BY <1>1, <1>5, <1>6, IdleAt DEF Answer, Typed, AgentsTyped

LEMMA InitTyped == Init => Typed
BY DEF Init, Typed, BridgeTyped, AgentsTyped

\* The steps of the bridge with restarts keep the types.
LEMMA RestartsTyped ==
  ASSUME Typed,
         RestartContainer \/ RestartUnanswered \/ RestartRefused \/ FinishRestart
  PROVE  Typed'
<1>1. serving \in RestartUnderWay /\ serving.kind = "restart" /\ serving.service \in Service
  <2>1. serving.kind = "restart"
    BY DEF RestartContainer, RestartUnanswered, RestartRefused, FinishRestart, Restarting
  <2>2. QED
    BY <2>1, Kinds DEF Typed, RestartUnderWay
<1>2. Restarting => restarted' \in [Service -> Seq(Nat)]
  BY <1>1, AppendAt DEF Restarting, Typed, BridgeTyped
<1>3. now' = now /\ requests' = requests /\ UNCHANGED agents /\ UNCHANGED backlog
  BY DEF RestartContainer, RestartUnanswered, RestartRefused, FinishRestart
<1>4. AgentsTyped'
  BY <1>3, AgentsKept DEF Typed
<1>5. CASE RestartContainer
  <2>1. serving = [kind |-> "restart", service |-> serving.service, left |-> serving.left]
        /\ serving.left \in 0 .. Containers
    BY <1>1 DEF RestartUnderWay
  <2>2. serving.left - 1 \in 0 .. Containers
    BY <2>1, <1>5, OpsAssumption DEF RestartContainer, Restarting
  <2>3. serving' \in RestartUnderWay
    BY <1>1, <2>2, <1>5 DEF RestartContainer, RestartUnderWay
  <2>4. QED
    BY <2>3, <1>2, <1>3, <1>4, <1>5 DEF RestartContainer, BridgeTyped, Typed
<1>6. CASE RestartUnanswered
  BY <1>1, <1>2, <1>3, <1>4, <1>6, OneMoreAt DEF RestartUnanswered, BridgeTyped, Typed
<1>7. CASE RestartRefused
  BY <1>3, <1>4, <1>7, HalfDoneTyped DEF RestartRefused, BridgeTyped, Typed
<1>8. CASE FinishRestart
  <2>1. [service |-> serving.service, at |-> now] \in AuditRecord
    BY <1>1 DEF AuditRecord, Typed
  <2>2. QED
    BY <2>1, <1>3, <1>4, <1>8 DEF FinishRestart, BridgeTyped, Typed
<1>9. QED
  BY <1>5, <1>6, <1>7, <1>8

\* So do those of the notifiers.
LEMMA NotifierTyped ==
  ASSUME Typed, NEW n \in Notifier,
         \/ \E f \in Fingerprint : Suppress(n, f) \/ Dispatch(n, f)
         \/ GiveUp(n) \/ NotifierCrash(n)
  PROVE  Typed'
<1> USE DEF Typed
<1>1. ASSUME NEW f \in Fingerprint, Suppress(n, f)
      PROVE  Typed'
  <2>1. BridgeTyped' /\ requests' \in Nat
    BY <1>1, BridgeKept DEF Suppress, Request
  <2>2. Record(f, FALSE) \in DispatchRecord
    BY RecordTyped DEF Record
  <2>3. telemetry' \in Seq(DispatchRecord)
    BY <2>2, <1>1 DEF Suppress, AgentsTyped, Record
  <2>4. QED
    BY <2>1, <2>3, <1>1 DEF Suppress, AgentsTyped
<1>2. ASSUME NEW f \in Fingerprint, Dispatch(n, f)
      PROVE  Typed'
  <2>1. requests' \in Nat /\ now' = now
    BY <1>2 DEF Dispatch, Request
  <2>2. [kind |-> "waiting", fingerprint |-> f, since |-> now, id |-> requests'] \in WaitingNotifier
    BY <2>1 DEF WaitingNotifier
  <2>3. [kind |-> "dispatch", fingerprint |-> f, notifier |-> n, id |-> requests'] \in DispatchRequest
    BY <2>1 DEF DispatchRequest
  <2>4. slips' \in [Fingerprint -> Nat]
    BY <1>2, OneMoreAt DEF Dispatch, AgentsTyped
  <2>5. BridgeTyped'
    BY <2>3, <1>2 DEF Dispatch, BridgeTyped
  <2>6. QED
    BY <2>1, <2>2, <2>4, <2>5, <1>2 DEF Dispatch, AgentsTyped
<1>3. CASE GiveUp(n)
  <2>1. notifier[n].fingerprint \in Fingerprint
    BY <1>3, WaitingTyped DEF GiveUp, WaitingNotifier
  <2>2. BridgeTyped' /\ slips' \in [Fingerprint -> Nat]
    BY <2>1, <1>3, BridgeKept, OneMoreAt DEF GiveUp, AgentsTyped
  <2>3. Record(notifier[n].fingerprint, FALSE) \in DispatchRecord
    BY <2>1, RecordTyped DEF Record
  <2>4. telemetry' \in Seq(DispatchRecord)
    BY <2>3, <1>3 DEF GiveUp, AgentsTyped, Record
  <2>5. QED
    BY <2>2, <2>4, <1>3, IdleAt DEF GiveUp, AgentsTyped
<1>4. CASE NotifierCrash(n)
  <2>1. notifier[n].fingerprint \in Fingerprint
    BY <1>4, WaitingTyped DEF NotifierCrash, WaitingNotifier
  <2>2. BridgeTyped' /\ slips' \in [Fingerprint -> Nat]
    BY <2>1, <1>4, BridgeKept, OneMoreAt DEF NotifierCrash, AgentsTyped
  <2>3. QED
    BY <2>2, <1>4, IdleAt DEF NotifierCrash, AgentsTyped
<1>5. QED
  BY <1>1, <1>2, <1>3, <1>4

LEMMA StepTyped ==
  ASSUME Typed, [Next]_vars
  PROVE  Typed'
<1> USE DEF Typed
<1>1. CASE UNCHANGED vars
  BY <1>1, BridgeKept, AgentsKept DEF vars
<1>2. CASE Tick
  BY <1>2, BridgeKept, AgentsKept DEF Tick
<1>3. ASSUME NEW s \in Service, Beat(s)
      PROVE  Typed'
  BY <1>3, BridgeKept, AgentsKept DEF Beat
<1>4. ASSUME NEW s \in Service, AskRestart(s)
      PROVE  Typed'
  <2>1. [kind |-> "restart", service |-> s] \in RestartRequest
    BY DEF RestartRequest
  <2>2. BridgeTyped' /\ requests' \in Nat
    BY <2>1, <1>4 DEF AskRestart, Request, BridgeTyped
  <2>3. QED
    BY <2>2, <1>4, AgentsKept DEF AskRestart
<1>5. CASE Serve
  <2>1. Head(backlog) \in RestartRequest \cup DispatchRequest
        /\ Tail(backlog) \in Seq(RestartRequest \cup DispatchRequest)
    BY <1>5 DEF Serve, BridgeTyped
  <2>2. \A r \in RestartRequest :
          [kind |-> "restart", service |-> r.service, left |-> Containers] \in RestartUnderWay
    BY OpsAssumption DEF RestartRequest, RestartUnderWay
  <2>3. serving' \in {Idle} \cup RestartUnderWay \cup DispatchRequest
    BY <2>1, <2>2, <1>5, Kinds DEF Serve
  <2>4. BridgeTyped'
    BY <2>1, <2>3, <1>5 DEF Serve, BridgeTyped
  <2>5. QED
    BY <2>4, <1>5, AgentsKept DEF Serve
<1>6. CASE RestartContainer \/ RestartUnanswered \/ RestartRefused \/ FinishRestart
  BY <1>6, RestartsTyped
<1>7. CASE BridgeCrash
  <2>1. serving.kind = "dispatch" => serving.fingerprint \in Fingerprint
    BY Kinds DEF DispatchRequest
  <2>2. runs' \in [Fingerprint -> Seq(Nat)] /\ slips' \in [Fingerprint -> Nat]
    BY <2>1, <1>7, EndsUnseenTyped DEF BridgeCrash, AgentsTyped
  <2>3. AgentsTyped'
    BY <2>2, <1>7 DEF BridgeCrash, AgentsTyped
  <2>4. BridgeTyped'
    BY <1>7, HalfDoneTyped DEF BridgeCrash, BridgeTyped
  <2>5. QED
    BY <2>3, <2>4, <1>7 DEF BridgeCrash
<1>8. ASSUME NEW n \in Notifier,
             \/ \E f \in Fingerprint : Suppress(n, f) \/ Dispatch(n, f)
             \/ GiveUp(n) \/ NotifierCrash(n)
      PROVE  Typed'
  BY <1>8, NotifierTyped
<1>9. CASE AgentSucceeds
  <2>1. runs' \in [Fingerprint -> Seq(Nat)]
    BY <1>9, AnswerTyped, AppendAt DEF AgentSucceeds, AgentsTyped
  <2>2. QED
    BY <2>1, <1>9, AnswerTyped DEF AgentSucceeds, BridgeTyped, AgentsTyped
<1>10. CASE AgentFails
  BY <1>10, AnswerTyped DEF AgentFails, BridgeTyped, AgentsTyped
<1>11. CASE AgentOutlasts
  <2>1. runs' \in [Fingerprint -> Seq(Nat)] /\ slips' \in [Fingerprint -> Nat]
    BY <1>11, AnswerTyped, EndsUnseenTyped DEF AgentOutlasts
  <2>2. QED
    BY <2>1, <1>11, AnswerTyped DEF AgentOutlasts, BridgeTyped, AgentsTyped
<1>12. QED
  BY <1>1, <1>2, <1>3, <1>4, <1>5, <1>6, <1>7, <1>8, <1>9, <1>10, <1>11 DEF Next

-----------------------------------------------------------------------------
(* The entries of a sequence that are in a set.                             *)

Marked(s, T) == {i \in DOMAIN s : s[i] \in T}
Count(s, T)  == Cardinality(Marked(s, T))
From(t)      == {k \in Int : k >= t}

\* There are finitely many.
LEMMA MarkedFinite ==
  ASSUME NEW S, NEW s \in Seq(S), NEW T
  PROVE  IsFiniteSet(Marked(s, T)) /\ Count(s, T) \in Nat
<1>1. Marked(s, T) \in SUBSET (1 .. Len(s)) /\ Len(s) \in Nat
  BY DEF Marked
<1>2. IsFiniteSet(1 .. Len(s))
  BY <1>1, FS_Interval
<1>3. IsFiniteSet(Marked(s, T))
  BY <1>1, <1>2, FS_Subset
<1>4. QED
  BY <1>3, FS_CardinalityType DEF Count

\* None of the empty sequence.
LEMMA CountEmpty ==
  ASSUME NEW T
  PROVE  Count(<<>>, T) = 0
<1>1. Marked(<<>>, T) = {}
  BY DEF Marked
<1>2. QED
  BY <1>1, FS_EmptySet DEF Count

\* An entry appended counts once if it is in the set.
LEMMA CountAppend ==
  ASSUME NEW S, NEW s \in Seq(S), NEW x \in S, NEW T
  PROVE  Count(Append(s, x), T) = IF x \in T THEN Count(s, T) + 1 ELSE Count(s, T)
<1>1. IsFiniteSet(Marked(s, T)) /\ Count(s, T) \in Nat
  BY MarkedFinite
<1>2. Len(s) + 1 \notin Marked(s, T)
  BY DEF Marked
<1>3. CASE x \in T
  <2>1. Marked(Append(s, x), T) = Marked(s, T) \cup {Len(s) + 1}
    BY <1>3 DEF Marked
  <2>2. QED
    BY <2>1, <1>1, <1>2, <1>3, FS_AddElement DEF Count
<1>4. CASE x \notin T
  <2>1. Marked(Append(s, x), T) = Marked(s, T)
    BY <1>4 DEF Marked
  <2>2. QED
    BY <2>1, <1>4 DEF Count
<1>5. QED
  BY <1>3, <1>4

\* A sequence whose marked entries are all marked for another set, too.
LEMMA CountMono ==
  ASSUME NEW S, NEW s \in Seq(S), NEW T, NEW U,
         \A i \in DOMAIN s : s[i] \in T => s[i] \in U
  PROVE  Count(s, T) <= Count(s, U)
<1>1. IsFiniteSet(Marked(s, U)) /\ Marked(s, T) \in SUBSET Marked(s, U)
  BY MarkedFinite DEF Marked
<1>2. QED
  BY <1>1, FS_Subset DEF Count

\* The first entry taken off.
LEMMA CountTail ==
  ASSUME NEW S, NEW s \in Seq(S), s # <<>>, NEW T
  PROVE  Count(s, T) = IF Head(s) \in T THEN Count(Tail(s), T) + 1 ELSE Count(Tail(s), T)
<1> DEFINE rest == Marked(s, T) \ {1}
           next == [i \in Marked(Tail(s), T) |-> i + 1]
<1>1. Tail(s) \in Seq(S) /\ Len(s) \in Nat \ {0} /\ Len(Tail(s)) = Len(s) - 1
  OBVIOUS
<1>2. \A i \in 1 .. Len(s) - 1 : Tail(s)[i] = s[i + 1]
  BY <1>1
<1>3. IsFiniteSet(Marked(s, T)) /\ IsFiniteSet(Marked(Tail(s), T)) /\ IsFiniteSet(rest)
  BY <1>1, MarkedFinite, FS_RemoveElement
<1>4. next \in Bijection(Marked(Tail(s), T), rest)
  <2>1. next \in [Marked(Tail(s), T) -> rest]
    BY <1>1, <1>2 DEF Marked
  <2>2. \A a, b \in Marked(Tail(s), T) : next[a] = next[b] => a = b
    BY <1>1 DEF Marked
  <2>3. \A j \in rest : \E i \in Marked(Tail(s), T) : next[i] = j
    <3> SUFFICES ASSUME NEW j \in rest
                 PROVE  \E i \in Marked(Tail(s), T) : next[i] = j
      OBVIOUS
    <3>1. j - 1 \in Marked(Tail(s), T)
      BY <1>1, <1>2 DEF Marked
    <3>2. QED
      BY <3>1, <1>1 DEF Marked
  <2>4. QED
    BY <2>1, <2>2, <2>3 DEF Bijection, Injection, IsInjective, Surjection
<1>5. Cardinality(rest) = Count(Tail(s), T)
  BY <1>3, <1>4, FS_Bijection DEF ExistsBijection, Count
<1>6. 1 \in Marked(s, T) <=> Head(s) \in T
  BY <1>1 DEF Marked
<1>7. QED
  BY <1>3, <1>5, <1>6, FS_RemoveElement, FS_CardinalityType DEF Count

-----------------------------------------------------------------------------
(* The invariants.                                                          *)

\* Restarts of s the audit file records since t.
Audited(s, t) == Count(audit, {r \in AuditRecord : r.service = s /\ r.at >= t})

\* A restart of s that restarted a container and is not yet recorded.
Open(s) ==
  IF serving.kind = "restart" /\ serving.service = s /\ serving.left < Containers THEN 1 ELSE 0

\* Every restart is recorded, about to be recorded, or was left out for a reason.
RestartsAccounted ==
  \A s \in Service :
    /\ \A i \in DOMAIN restarted[s] : restarted[s][i] <= now
    /\ \A t \in Int : Count(restarted[s], From(t)) <= Audited(s, t) + unaudited[s] + Open(s)

\* What the check of a restart saw still holds when its first container starts.
CheckHolds ==
  serving.kind = "restart" /\ serving.left = Containers => ~AtLimit(serving.service)

\* RestartsBounded for every window, those of the future included.
WindowsKept ==
  \A s \in Service, t \in Int :
    /\ Within(restarted[s], t - ShortWindow, t) <= ShortLimit + unaudited[s]
    /\ Within(restarted[s], t - LongWindow, t) <= LongLimit + unaudited[s]

RestartInv == RestartsAccounted /\ CheckHolds /\ WindowsKept

\* Dispatches of f the bridge still has before it.
RequestsFor(f) == {r \in DispatchRequest : r.fingerprint = f}
Pending(f) ==
  Count(backlog, RequestsFor(f)) + (IF serving \in RequestsFor(f) THEN 1 ELSE 0)

\* What a check made at t or later sees or is excused from seeing.
Expected(f) == \E n \in Notifier : Waiting(n) /\ notifier[n].fingerprint = f
Succeeded(f, t) ==
  \E i \in DOMAIN telemetry : telemetry[i].fingerprint = f /\ telemetry[i].success /\ telemetry[i].at >= t
Known(f, t) == IF Expected(f) \/ Succeeded(f, t) THEN 1 ELSE 0

\* Runs of the last cooldown and the runs that may follow are known, or slipped.
RunsAccounted ==
  \A f \in Fingerprint :
    /\ \A i \in DOMAIN runs[f] : runs[f][i] <= now
    /\ \A t \in Int : t >= now - Cooldown =>
         Count(runs[f], From(t)) + Pending(f) <= slips[f] + Known(f, t)

\* The requests before the bridge, and which of them a notifier waits for.
Before(r) == serving = r \/ \E i \in DOMAIN backlog : backlog[i] = r
WaitsFor(n, r) == r.notifier = n /\ r.id = notifier[n].id /\ r.fingerprint = notifier[n].fingerprint
Attended ==
  /\ \A n \in Notifier : Waiting(n) => \E r \in DispatchRequest : Before(r) /\ WaitsFor(n, r)
  /\ \A r \in DispatchRequest : Before(r) =>
       /\ r.id <= requests
       /\ Waiting(r.notifier) /\ notifier[r.notifier].id = r.id => WaitsFor(r.notifier, r)

CooldownsKept ==
  \A f \in Fingerprint, t \in Int : Within(runs[f], t - Cooldown, t) <= 1 + slips[f]

RunInv == RunsAccounted /\ Attended /\ CooldownsKept

-----------------------------------------------------------------------------
(* Restarts are bounded.                                                    *)

LEMMA WithinNat ==
  ASSUME NEW times \in Seq(Nat), NEW a, NEW b
  PROVE  Within(times, a, b) \in Nat
<1>1. Within(times, a, b) = Count(times, a .. b)
  BY DEF Within, Count, Marked
<1>2. QED
  BY <1>1, MarkedFinite

LEMMA RoomGrows ==
  ASSUME NEW count \in Nat, NEW limit \in Nat, NEW u \in Nat, NEW v \in Nat, u <= v,
         count <= limit + u
  PROVE  count <= limit + v
OBVIOUS

\* The times up to now in a window that ends now or later are in the last one.
LEMMA LateWindow ==
  ASSUME NEW times \in Seq(Nat), NEW a \in Int, NEW t \in Int, NEW b \in Int, a <= b
  PROVE  Within(times, b, t) <= Count(times, From(a))
<1>1. Within(times, b, t) = Count(times, b .. t)
  BY DEF Within, Count, Marked
<1>2. \A i \in DOMAIN times : times[i] \in b .. t => times[i] \in From(a)
  BY DEF From
<1>3. QED
  BY <1>1, <1>2, CountMono

\* A window that ended before now does not see what happens now.
LEMMA EarlyWindow ==
  ASSUME NEW times \in Seq(Nat), NEW x \in Nat, NEW a \in Int, NEW t \in Int, t < x
  PROVE  Within(Append(times, x), a, t) = Within(times, a, t)
<1>1. x \notin a .. t
  OBVIOUS
<1>2. Count(Append(times, x), a .. t) = Count(times, a .. t)
  BY <1>1, CountAppend
<1>3. QED
  BY <1>2 DEF Within, Count, Marked

\* One more entry, now, keeps a bound on all windows that leaves room for it in
\* the one that ends now.
LEMMA WindowGrows ==
  ASSUME NEW times \in Seq(Nat), NEW x \in Nat, NEW w \in Nat, NEW bound \in Nat,
         \A t \in Int : Within(times, t - w, t) <= bound,
         Count(times, From(x - w)) + 1 <= bound
  PROVE  \A t \in Int : Within(Append(times, x), t - w, t) <= bound
<1> SUFFICES ASSUME NEW t \in Int
             PROVE  Within(Append(times, x), t - w, t) <= bound
  OBVIOUS
<1>1. CASE t < x
  BY <1>1, EarlyWindow
<1>2. CASE t >= x
  <2>1. Append(times, x) \in Seq(Nat) /\ x - w \in Int /\ t - w \in Int /\ x - w <= t - w
    BY <1>2
  <2> DEFINE window == Within(Append(times, x), t - w, t)
             before == Count(times, From(x - w))
             after  == Count(Append(times, x), From(x - w))
  <2>2. window <= after
    BY <2>1, LateWindow
  <2>3. before \in Nat /\ after \in Nat
    BY <2>1, MarkedFinite
  <2>4. window \in Nat
    <3>1. window = Count(Append(times, x), t - w .. t)
      BY DEF Within, Count, Marked
    <3>2. QED
      BY <2>1, <3>1, MarkedFinite
  <2>5. after = IF x \in From(x - w) THEN before + 1 ELSE before
    BY CountAppend
  <2>6. before + 1 <= bound
    OBVIOUS
  <2> HIDE DEF window, before, after
  <2>7. window <= bound
    BY <2>2, <2>3, <2>4, <2>5, <2>6
  <2>8. QED
    BY <2>7 DEF window
<1>3. QED
  BY <1>1, <1>2

\* What the bridge counts is what the audit file has.
LEMMA RecentAudited ==
  ASSUME BridgeTyped, NEW s, NEW w
  PROVE  Recent(s, w) = Audited(s, now - w)
<1>1. {i \in DOMAIN audit : audit[i].service = s /\ audit[i].at >= now - w}
      = Marked(audit, {r \in AuditRecord : r.service = s /\ r.at >= now - w})
  BY DEF BridgeTyped, Marked
<1>2. QED
  BY <1>1 DEF Recent, Audited, Count

LEMMA CountsTyped ==
  ASSUME BridgeTyped
  PROVE  \A s \in Service : /\ restarted[s] \in Seq(Nat)
                            /\ unaudited[s] \in Nat
                            /\ Open(s) \in {0, 1}
                            /\ \A t : Audited(s, t) \in Nat
                            /\ \A t : Count(restarted[s], From(t)) \in Nat
<1>1. \A s \in Service : restarted[s] \in Seq(Nat) /\ unaudited[s] \in Nat /\ Open(s) \in {0, 1}
  BY DEF BridgeTyped, Open
<1>2. \A s \in Service : \A t : Audited(s, t) \in Nat
  BY MarkedFinite DEF BridgeTyped, Audited
<1>3. \A s \in Service : \A t : Count(restarted[s], From(t)) \in Nat
  BY <1>1, MarkedFinite
<1>4. QED
  BY <1>1, <1>2, <1>3

LEMMA HalfDoneCounts ==
  ASSUME BridgeTyped
  PROVE  \A s \in Service : HalfDone[s] = unaudited[s] + Open(s)
BY DEF HalfDone, Open, BridgeTyped

\* A restart that restarts its next container: while it is not recorded it
\* accounts for itself, and the windows have room for it.
LEMMA HistoryKept ==
  ASSUME Typed, RestartInv, Restarting, NEW s \in Service
  PROVE  /\ \A i \in DOMAIN restarted'[s] : restarted'[s][i] <= now
         /\ \A t \in Int : Count(restarted'[s], From(t)) <=
              Audited(s, t) + unaudited[s] + (IF serving.service = s THEN 1 ELSE 0)
         /\ \A t \in Int : Within(restarted'[s], t - ShortWindow, t) <= ShortLimit + unaudited[s]
         /\ \A t \in Int : Within(restarted'[s], t - LongWindow, t) <= LongLimit + unaudited[s]
<1> USE DEF RestartInv
<1>1. serving \in RestartUnderWay /\ serving.kind = "restart" /\ now \in Nat
  BY Kinds DEF Restarting, Typed
<1>2. BridgeTyped /\ restarted[s] \in Seq(Nat) /\ unaudited[s] \in Nat /\ Open(s) \in {0, 1}
  BY CountsTyped DEF Typed
<1>3. CASE serving.service # s \/ serving.left < Containers
  <2>1. restarted'[s] = restarted[s]
    BY <1>1, <1>2, <1>3 DEF Restarting, BridgeTyped, RestartUnderWay
  <2>2. Open(s) = IF serving.service = s THEN 1 ELSE 0
    BY <1>1, <1>3 DEF Open
  <2>3. QED
    BY <2>1, <2>2 DEF RestartsAccounted, WindowsKept
<1>4. CASE serving.service = s /\ ~(serving.left < Containers)
  <2>1. restarted'[s] = Append(restarted[s], now)
    BY <1>1, <1>2, <1>4 DEF Restarting, BridgeTyped, RestartUnderWay
  <2>2. serving.left = Containers /\ Open(s) = 0
    BY <1>1, <1>4, OpsAssumption DEF RestartUnderWay, Open
  <2>3. \A i \in DOMAIN restarted'[s] : restarted'[s][i] <= now
    BY <2>1, <1>1, <1>2 DEF RestartsAccounted
  <2>4. \A t \in Int : Count(restarted[s], From(t)) \in Nat /\ Audited(s, t) \in Nat
                      /\ Count(restarted[s], From(t)) <= Audited(s, t) + unaudited[s]
    <3> SUFFICES ASSUME NEW t \in Int
                 PROVE  /\ Count(restarted[s], From(t)) \in Nat /\ Audited(s, t) \in Nat
                        /\ Count(restarted[s], From(t)) <= Audited(s, t) + unaudited[s]
      OBVIOUS
    <3>1. Count(restarted[s], From(t)) \in Nat /\ Audited(s, t) \in Nat
      BY <1>2, CountsTyped
    <3>2. Count(restarted[s], From(t)) <= Audited(s, t) + unaudited[s] + 0
      BY <2>2 DEF RestartsAccounted
    <3>3. QED
      BY <3>1, <3>2, <1>2
  <2>5. \A t \in Int : Count(restarted'[s], From(t)) <= Audited(s, t) + unaudited[s] + 1
    <3> SUFFICES ASSUME NEW t \in Int
                 PROVE  Count(restarted'[s], From(t)) <= Audited(s, t) + unaudited[s] + 1
      OBVIOUS
    <3>1. Count(Append(restarted[s], now), From(t)) =
            IF now \in From(t) THEN Count(restarted[s], From(t)) + 1 ELSE Count(restarted[s], From(t))
      BY <1>1, <1>2, CountAppend
    <3>2. /\ Count(restarted[s], From(t)) \in Nat /\ Audited(s, t) \in Nat
          /\ Count(restarted[s], From(t)) <= Audited(s, t) + unaudited[s]
      BY <2>4
    <3>3. unaudited[s] \in Nat
      BY <1>2
    <3> DEFINE had  == Count(restarted[s], From(t))
               has  == Count(restarted'[s], From(t))
               seen == Audited(s, t)
               lost == unaudited[s]
    <3>4. had \in Nat /\ seen \in Nat /\ had <= seen + lost
      BY <3>2
    <3>5. has = had \/ has = had + 1
      BY <3>1, <2>1
    <3>6. lost \in Nat
      BY <3>3
    <3> HIDE DEF had, has, seen, lost
    <3>7. has <= seen + lost + 1
      BY <3>4, <3>5, <3>6
    <3>8. QED
      BY <3>7 DEF has, seen, lost
  <2>6. Audited(s, now - ShortWindow) < ShortLimit /\ Audited(s, now - LongWindow) < LongLimit
    <3>1. Recent(s, ShortWindow) = Audited(s, now - ShortWindow)
          /\ Recent(s, LongWindow) = Audited(s, now - LongWindow)
      BY <1>2, RecentAudited
    <3>2. ~AtLimit(s)
      BY <1>1, <1>4, <2>2 DEF CheckHolds
    <3>3. Audited(s, now - ShortWindow) \in Nat /\ Audited(s, now - LongWindow) \in Nat
      BY <1>2, CountsTyped
    <3>4. QED
      BY <3>1, <3>2, <3>3, OpsAssumption DEF AtLimit
  <2>7. \A t \in Int : Within(restarted'[s], t - ShortWindow, t) <= ShortLimit + unaudited[s]
    <3>1. ShortLimit + unaudited[s] \in Nat /\ now - ShortWindow \in Int /\ ShortWindow \in Nat
      BY <1>1, <1>2, OpsAssumption, SMTT(60)
    <3>2. Count(restarted[s], From(now - ShortWindow)) + 1 <= ShortLimit + unaudited[s]
      <4> DEFINE count == Count(restarted[s], From(now - ShortWindow))
                 seen  == Audited(s, now - ShortWindow)
      <4>1. count \in Nat /\ seen \in Nat /\ count <= seen + unaudited[s] /\ seen < ShortLimit
        BY <3>1, <2>4, <2>6
      <4> HIDE DEF count, seen
      <4>2. count + 1 <= ShortLimit + unaudited[s]
        BY <4>1, <1>2, OpsAssumption, SMTT(60)
      <4>3. QED
        BY <4>2 DEF count
    <3>3. \A t \in Int : Within(restarted[s], t - ShortWindow, t) <= ShortLimit + unaudited[s]
      BY DEF WindowsKept
    <3>4. QED
      BY <3>1, <3>2, <3>3, <2>1, <1>1, <1>2, WindowGrows
  <2>8. \A t \in Int : Within(restarted'[s], t - LongWindow, t) <= LongLimit + unaudited[s]
    <3>1. LongLimit + unaudited[s] \in Nat /\ now - LongWindow \in Int /\ LongWindow \in Nat
      BY <1>1, <1>2, OpsAssumption, SMTT(60)
    <3>2. Count(restarted[s], From(now - LongWindow)) + 1 <= LongLimit + unaudited[s]
      <4> DEFINE count == Count(restarted[s], From(now - LongWindow))
                 seen  == Audited(s, now - LongWindow)
      <4>1. count \in Nat /\ seen \in Nat /\ count <= seen + unaudited[s] /\ seen < LongLimit
        BY <3>1, <2>4, <2>6
      <4> HIDE DEF count, seen
      <4>2. count + 1 <= LongLimit + unaudited[s]
        BY <4>1, <1>2, OpsAssumption, SMTT(60)
      <4>3. QED
        BY <4>2 DEF count
    <3>3. \A t \in Int : Within(restarted[s], t - LongWindow, t) <= LongLimit + unaudited[s]
      BY DEF WindowsKept
    <3>4. QED
      BY <3>1, <3>2, <3>3, <2>1, <1>1, <1>2, WindowGrows
  <2>9. QED
    BY <2>3, <2>5, <2>7, <2>8, <1>4
<1>5. QED
  BY <1>3, <1>4

\* Steps that leave the counts and the history of restarts alone.
LEMMA RestartsQuiet ==
  ASSUME Typed, RestartInv, now' >= now, now' \in Nat, UNCHANGED <<audit, restarted, unaudited>>,
         \A s \in Service : Open(s)' = Open(s)
  PROVE  RestartsAccounted' /\ WindowsKept'
<1>1. \A s \in Service, t \in Int : Audited(s, t)' = Audited(s, t)
  BY DEF Audited, Count, Marked
<1>2. \A s \in Service : restarted[s] \in Seq(Nat)
  BY DEF Typed, BridgeTyped
<1>3. \A s \in Service : \A i \in DOMAIN restarted[s] : restarted[s][i] <= now'
  BY <1>2 DEF RestartInv, RestartsAccounted, Typed
<1>4. QED
  BY <1>1, <1>3 DEF RestartInv, RestartsAccounted, WindowsKept

\* A restart that ends in the middle is made up for.
LEMMA RestartsEnd ==
  ASSUME Typed, RestartInv, now' = now, UNCHANGED <<audit, restarted>>,
         serving' = Idle, unaudited' = HalfDone
  PROVE  RestartInv'
<1>1. \A s \in Service, t \in Int : Audited(s, t)' = Audited(s, t)
  BY DEF Audited, Count, Marked
<1>2. \A s \in Service : Open(s)' = 0 /\ CheckHolds'
  BY DEF Open, Idle, CheckHolds
<1>3. \A s \in Service : unaudited'[s] = unaudited[s] + Open(s)
  BY HalfDoneCounts DEF Typed
<1>4. RestartsAccounted'
  <2> SUFFICES ASSUME NEW s \in Service, NEW t \in Int
               PROVE  Count(restarted[s], From(t)) <= Audited(s, t) + unaudited'[s] + 0
    BY <1>1, <1>2 DEF RestartInv, RestartsAccounted
  <2>1. Count(restarted[s], From(t)) <= Audited(s, t) + unaudited[s] + Open(s)
    BY DEF RestartInv, RestartsAccounted
  <2>2. Audited(s, t) \in Nat /\ unaudited[s] \in Nat /\ Open(s) \in {0, 1}
    BY CountsTyped DEF Typed
  <2>3. QED
    BY <2>1, <2>2, <1>3
<1>5. WindowsKept'
  <2> SUFFICES ASSUME NEW s \in Service, NEW t \in Int
               PROVE  /\ Within(restarted[s], t - ShortWindow, t) <= ShortLimit + unaudited'[s]
                      /\ Within(restarted[s], t - LongWindow, t) <= LongLimit + unaudited'[s]
    BY DEF WindowsKept
  <2>1. unaudited'[s] >= unaudited[s] /\ unaudited'[s] \in Nat /\ unaudited[s] \in Nat
    BY <1>3, CountsTyped DEF Typed
  <2> DEFINE short == Within(restarted[s], t - ShortWindow, t)
             long  == Within(restarted[s], t - LongWindow, t)
  <2>2. short \in Nat /\ long \in Nat
    <3>1. \A w \in Int : Within(restarted[s], t - w, t) = Count(restarted[s], t - w .. t)
      BY DEF Within, Count, Marked
    <3>2. restarted[s] \in Seq(Nat)
      BY CountsTyped DEF Typed
    <3>3. QED
      <4>1. \A T : Count(restarted[s], T) \in Nat
        BY <3>2, MarkedFinite
      <4>2. ShortWindow \in Int /\ LongWindow \in Int
        BY OpsAssumption
      <4>3. short = Count(restarted[s], t - ShortWindow .. t) /\ long = Count(restarted[s], t - LongWindow .. t)
        BY <3>1, <4>2
      <4>4. QED
        BY <4>1, <4>3
  <2>3. short <= ShortLimit + unaudited[s] /\ long <= LongLimit + unaudited[s]
    BY DEF RestartInv, WindowsKept
  <2> HIDE DEF short, long
  <2>4. short <= ShortLimit + unaudited'[s] /\ long <= LongLimit + unaudited'[s]
    BY <2>1, <2>2, <2>3, OpsAssumption
  <2>5. QED
    BY <2>4 DEF short, long
<1>6. QED
  BY <1>2, <1>4, <1>5 DEF RestartInv, CheckHolds, Idle

LEMMA RestartInit == Init => RestartInv
<1> SUFFICES ASSUME Init
             PROVE  RestartInv
  OBVIOUS
<1>1. \A s \in Service : restarted[s] = <<>> /\ unaudited[s] = 0
  BY DEF Init
<1>2. \A T : Count(<<>>, T) = 0
  BY CountEmpty
<1>3. RestartsAccounted
  <2>1. \A s \in Service : Open(s) = 0
    BY DEF Init, Open, Idle
  <2>2. \A s \in Service, t \in Int : Audited(s, t) = 0
    BY <1>2 DEF Init, Audited
  <2>3. QED
    BY <1>1, <1>2, <2>1, <2>2 DEF RestartsAccounted
<1>4. WindowsKept
  <2>1. \A a, b \in Int : Within(<<>>, a, b) = Count(<<>>, a .. b)
    BY DEF Within, Count, Marked
  <2>2. \A s \in Service, t \in Int : Within(restarted[s], t - ShortWindow, t) = 0
                                     /\ Within(restarted[s], t - LongWindow, t) = 0
    BY <1>1, <1>2, <2>1, OpsAssumption
  <2>3. ShortLimit \in Nat /\ LongLimit \in Nat
    BY OpsAssumption
  <2>4. QED
    BY <2>2, <2>3, <1>1 DEF WindowsKept
<1>5. CheckHolds
  BY DEF Init, CheckHolds, Idle
<1>6. QED
  BY <1>3, <1>4, <1>5 DEF RestartInv

LEMMA RestartStep ==
  ASSUME Typed, RestartInv, [Next]_vars
  PROVE  RestartInv'
<1>0. BridgeTyped /\ now \in Nat
  BY DEF Typed
\* Steps that do not touch restarts.
<1>1. ASSUME now' = now, UNCHANGED <<audit, restarted, unaudited>>,
             \/ UNCHANGED serving
             \/ serving.kind # "restart" /\ serving' = Idle
      PROVE  RestartInv'
  <2>1. \A s \in Service : Open(s)' = Open(s)
    BY <1>1 DEF Open, Idle
  <2>2. CheckHolds'
    <3>1. \A s, w : Recent(s, w)' = Recent(s, w)
      BY <1>1 DEF Recent
    <3>2. CASE UNCHANGED serving
      BY <3>1, <3>2 DEF RestartInv, CheckHolds, AtLimit
    <3>3. CASE serving' = Idle
      BY <3>3 DEF CheckHolds, Idle
    <3>4. QED
      BY <1>1, <3>2, <3>3
  <2>3. QED
    BY <2>1, <2>2, <1>0, <1>1, RestartsQuiet DEF RestartInv
<1>2. CASE UNCHANGED vars
  BY <1>1, <1>2 DEF vars, bridge
<1>3. CASE Tick
  <2>1. now' = now + 1 /\ UNCHANGED <<backlog, serving, audit, restarted, unaudited>>
    BY <1>3 DEF Tick, bridge
  <2>2. \A s \in Service : Open(s)' = Open(s)
    BY <2>1 DEF Open
  <2>3. CheckHolds'
    <3> SUFFICES ASSUME serving.kind = "restart", serving.left = Containers
                 PROVE  ~AtLimit(serving.service)'
      BY <2>1 DEF CheckHolds
    <3>1. ASSUME NEW s, NEW w \in Nat
          PROVE  /\ Recent(s, w)' \in Nat /\ Recent(s, w) \in Nat
                 /\ Recent(s, w)' <= Recent(s, w)
      <4>1. Recent(s, w)' = Count(audit, {r \in AuditRecord : r.service = s /\ r.at >= now + 1 - w})
        <5>1. audit' = audit /\ now' = now + 1 /\ now \in Nat
          BY <2>1, <1>0
        <5>2. \A i \in DOMAIN audit : audit[i] \in AuditRecord
          BY <1>0 DEF BridgeTyped
        <5>3. {i \in DOMAIN audit' : audit'[i].service = s /\ audit'[i].at >= now' - w}
              = Marked(audit, {r \in AuditRecord : r.service = s /\ r.at >= now + 1 - w})
          BY <5>1, <5>2 DEF Marked
        <5>4. QED
          BY <5>3 DEF Recent, Count
      <4>2. Recent(s, w) = Count(audit, {r \in AuditRecord : r.service = s /\ r.at >= now - w})
        BY <1>0, RecentAudited DEF Audited
      <4>3. \A i \in DOMAIN audit :
              audit[i] \in {r \in AuditRecord : r.service = s /\ r.at >= now + 1 - w} =>
                audit[i] \in {r \in AuditRecord : r.service = s /\ r.at >= now - w}
        BY <1>0 DEF AuditRecord
      <4>4. audit \in Seq(AuditRecord)
        BY <1>0 DEF BridgeTyped
      <4>5. QED
        BY <4>1, <4>2, <4>3, <4>4, CountMono, MarkedFinite
    <3>2. ASSUME NEW s, ~AtLimit(s)
          PROVE  ~AtLimit(s)'
      <4>1. Recent(s, ShortWindow) < ShortLimit /\ Recent(s, LongWindow) < LongLimit
        BY <3>1, <3>2, OpsAssumption DEF AtLimit
      <4>2. Recent(s, ShortWindow)' < ShortLimit /\ Recent(s, LongWindow)' < LongLimit
        BY <3>1, <4>1, OpsAssumption
      <4>3. QED
        BY <3>1, <4>2, OpsAssumption DEF AtLimit
    <3>3. ~AtLimit(serving.service)
      BY DEF RestartInv, CheckHolds
    <3>4. PICK s : s = serving.service
      OBVIOUS
    <3>5. ~AtLimit(s)'
      BY <3>2, <3>3, <3>4
    <3>6. QED
      BY <3>4, <3>5, <2>1 DEF AtLimit
  <2>4. QED
    BY <2>1, <2>2, <2>3, <1>0, RestartsQuiet DEF RestartInv
<1>4. ASSUME NEW s \in Service, Beat(s) \/ AskRestart(s)
      PROVE  RestartInv'
  BY <1>1, <1>4 DEF Beat, AskRestart, bridge
<1>5. CASE Serve
  <2>1. now' = now /\ serving = Idle /\ UNCHANGED <<audit, restarted, unaudited>>
    BY <1>5 DEF Serve
  <2>2. Head(backlog) \in RestartRequest \cup DispatchRequest
    BY <1>0, <1>5 DEF Serve, BridgeTyped
  <2>3. \/ serving' \in DispatchRequest \/ serving' = Idle
        \/ ~AtLimit(serving'.service) /\ serving'.left = Containers
    BY <2>2, <1>5, Kinds, <1>0 DEF Serve
  <2>4. \A s \in Service : Open(s)' = Open(s)
    BY <2>1, <2>3, OpsAssumption DEF Open, Idle, DispatchRequest
  <2>5. CheckHolds'
    BY <2>1, <2>3 DEF CheckHolds, Idle, DispatchRequest, AtLimit, Recent
  <2>6. QED
    BY <2>1, <2>4, <2>5, <1>0, RestartsQuiet DEF RestartInv
<1>6. CASE RestartContainer
  <2>1. Restarting /\ now' = now /\ UNCHANGED <<audit, unaudited>>
    BY <1>6 DEF RestartContainer
  <2>2. serving \in RestartUnderWay
    BY <2>1, <1>0, Kinds DEF Restarting
  <2>3. serving' = [kind |-> "restart", service |-> serving.service, left |-> serving.left - 1]
    BY <2>1, <2>2, <1>6 DEF RestartContainer, RestartUnderWay
  <2>4. serving.left - 1 < Containers
    BY <2>2, OpsAssumption DEF RestartUnderWay
  <2>5. \A s \in Service : Open(s)' = IF serving.service = s THEN 1 ELSE 0
    BY <2>3, <2>4 DEF Open
  <2>6. CheckHolds'
    BY <2>3, <2>4, OpsAssumption, <2>2 DEF CheckHolds, RestartUnderWay
  <2>7. \A s \in Service, t \in Int : Audited(s, t)' = Audited(s, t)
    BY <2>1 DEF Audited, Count, Marked
  <2>8. RestartsAccounted'
    BY <2>1, <2>5, <2>7, HistoryKept DEF RestartsAccounted
  <2>9. WindowsKept'
    BY <2>1, HistoryKept DEF WindowsKept
  <2>10. QED
    BY <2>6, <2>8, <2>9 DEF RestartInv
<1>7. CASE RestartUnanswered
  <2>1. Restarting /\ now' = now /\ audit' = audit /\ serving' = Idle
        /\ unaudited' = [unaudited EXCEPT ![serving.service] = @ + 1]
    BY <1>7 DEF RestartUnanswered
  <2>2. \A s \in Service : Open(s)' = 0 /\ unaudited[s] \in Nat
                          /\ unaudited'[s] = unaudited[s] + (IF serving.service = s THEN 1 ELSE 0)
    BY <2>1, <1>0 DEF Open, Idle, BridgeTyped
  <2>3. \A s \in Service, t \in Int : Audited(s, t)' = Audited(s, t) /\ Audited(s, t) \in Nat
    BY <2>1, <1>0, CountsTyped DEF Audited, Count, Marked
  <2>4. RestartsAccounted'
    <3> SUFFICES ASSUME NEW s \in Service
                 PROVE  /\ \A i \in DOMAIN restarted'[s] : restarted'[s][i] <= now
                        /\ \A t \in Int : Count(restarted'[s], From(t)) <= Audited(s, t) + unaudited'[s] + 0
      BY <2>1, <2>2, <2>3 DEF RestartsAccounted
    <3>1. unaudited'[s] = unaudited[s] + (IF serving.service = s THEN 1 ELSE 0) /\ unaudited[s] \in Nat
      BY <2>2
    <3>2. \A t \in Int : Audited(s, t) + unaudited'[s] + 0 =
                           Audited(s, t) + unaudited[s] + (IF serving.service = s THEN 1 ELSE 0)
      BY <2>3, <3>1
    <3>3. QED
      BY <2>1, <3>2, HistoryKept
  <2>5. WindowsKept'
    <3> SUFFICES ASSUME NEW s \in Service, NEW t \in Int
                 PROVE  /\ Within(restarted'[s], t - ShortWindow, t) <= ShortLimit + unaudited'[s]
                        /\ Within(restarted'[s], t - LongWindow, t) <= LongLimit + unaudited'[s]
      BY DEF WindowsKept
    <3>1. restarted'[s] \in Seq(Nat)
      BY StepTyped, CountsTyped DEF Typed, BridgeTyped
    <3>2. unaudited'[s] \in Nat /\ unaudited[s] \in Nat /\ unaudited[s] <= unaudited'[s]
      BY <2>2
    <3>3. Within(restarted'[s], t - ShortWindow, t) \in Nat /\ Within(restarted'[s], t - LongWindow, t) \in Nat
      BY <3>1, WithinNat
    <3>4. /\ Within(restarted'[s], t - ShortWindow, t) <= ShortLimit + unaudited[s]
          /\ Within(restarted'[s], t - LongWindow, t) <= LongLimit + unaudited[s]
      BY <2>1, HistoryKept
    <3>5. ShortLimit \in Nat /\ LongLimit \in Nat
      BY OpsAssumption
    <3>6. QED
      BY <3>2, <3>3, <3>4, <3>5, RoomGrows
  <2>6. QED
    BY <2>4, <2>5, <2>1 DEF RestartInv, CheckHolds, Idle
<1>8. CASE RestartRefused \/ BridgeCrash
  BY <1>8, RestartsEnd DEF RestartRefused, BridgeCrash
<1>9. CASE FinishRestart
  <2>1. /\ serving.kind = "restart" /\ serving.left = 0 /\ serving' = Idle
        /\ audit' = Append(audit, [service |-> serving.service, at |-> now])
        /\ now' = now /\ UNCHANGED <<restarted, unaudited>>
    BY <1>9 DEF FinishRestart
  <2>2. serving \in RestartUnderWay
    BY <2>1, <1>0, Kinds
  <2>3. \A s \in Service : Open(s) = (IF serving.service = s THEN 1 ELSE 0) /\ Open(s)' = 0
    BY <2>1, OpsAssumption DEF Open, Idle
  <2> DEFINE new == [service |-> serving.service, at |-> now]
             seen(s, t) == {r \in AuditRecord : r.service = s /\ r.at >= t}
  <2>4. new \in AuditRecord /\ audit \in Seq(AuditRecord)
    BY <2>2, <1>0 DEF AuditRecord, RestartUnderWay, BridgeTyped
  <2>5. ASSUME NEW s \in Service, NEW t \in Int
        PROVE  Audited(s, t)' = IF serving.service = s /\ now >= t THEN Audited(s, t) + 1 ELSE Audited(s, t)
    <3>1. Count(Append(audit, new), seen(s, t)) =
            IF new \in seen(s, t) THEN Count(audit, seen(s, t)) + 1 ELSE Count(audit, seen(s, t))
      BY <2>4, CountAppend
    <3>2. new \in seen(s, t) <=> serving.service = s /\ now >= t
      BY <2>4
    <3>3. Audited(s, t)' = Count(Append(audit, new), seen(s, t)) /\ Audited(s, t) = Count(audit, seen(s, t))
      BY <2>1 DEF Audited, Count, Marked
    <3>4. QED
      BY <3>1, <3>2, <3>3
  <2>6. RestartsAccounted'
    <3> SUFFICES ASSUME NEW s \in Service, NEW t \in Int
                 PROVE  Count(restarted[s], From(t)) <= Audited(s, t)' + unaudited[s] + 0
      BY <2>1, <2>3 DEF RestartInv, RestartsAccounted
    <3>1. Audited(s, t) \in Nat /\ unaudited[s] \in Nat /\ restarted[s] \in Seq(Nat)
          /\ Count(restarted[s], From(t)) \in Nat
      BY <1>0, CountsTyped
    <3>2. Count(restarted[s], From(t)) <= Audited(s, t) + unaudited[s] + (IF serving.service = s THEN 1 ELSE 0)
      BY <2>3 DEF RestartInv, RestartsAccounted
    <3>3. CASE now >= t \/ serving.service # s
      BY <2>5, <3>1, <3>2, <3>3
    <3>4. CASE now < t
      <4>1. Marked(restarted[s], From(t)) = {}
        BY <3>1, <3>4, <1>0 DEF Marked, From, RestartInv, RestartsAccounted
      <4>2. Count(restarted[s], From(t)) = 0
        BY <4>1, FS_EmptySet DEF Count
      <4>3. QED
        BY <4>2, <2>5, <3>1, <3>4, <1>0
    <3>5. QED
      BY <3>3, <3>4, <1>0
  <2>7. WindowsKept' /\ CheckHolds'
    BY <2>1 DEF RestartInv, WindowsKept, CheckHolds, Idle
  <2>8. QED
    BY <2>6, <2>7 DEF RestartInv
<1>10. ASSUME NEW n \in Notifier,
              \/ \E f \in Fingerprint : Suppress(n, f) \/ Dispatch(n, f)
              \/ GiveUp(n) \/ NotifierCrash(n)
       PROVE  RestartInv'
  BY <1>1, <1>10 DEF Suppress, Dispatch, GiveUp, NotifierCrash, bridge
<1>11. CASE AgentSucceeds \/ AgentFails \/ AgentOutlasts
  BY <1>1, <1>11 DEF AgentSucceeds, AgentFails, AgentOutlasts, Answer
<1>12. QED
  BY <1>2, <1>3, <1>4, <1>5, <1>6, <1>7, <1>8, <1>9, <1>10, <1>11 DEF Next

\* Within every window the bridge restarts a service no more often than the
\* runbook allows, but for the restarts its audit file does not count: whatever
\* is asked for, however slow Docker is, wherever the bridge ends.
THEOREM RestartsStayBounded == Spec => []RestartsBounded
<1>1. Init => Typed /\ RestartInv
  BY InitTyped, RestartInit
<1>2. Typed /\ RestartInv /\ [Next]_vars => Typed' /\ RestartInv'
  BY StepTyped, RestartStep
<1>3. RestartInv => RestartsBounded
  BY OpsAssumption DEF RestartInv, WindowsKept, RestartsBounded
<1>4. QED
  BY <1>1, <1>2, <1>3, PTL DEF Spec

-----------------------------------------------------------------------------
(* One run in a cooldown.                                                   *)

LEMMA RunsTyped ==
  ASSUME Typed
  PROVE  \A f \in Fingerprint : /\ runs[f] \in Seq(Nat) /\ slips[f] \in Nat
                                /\ Count(backlog, RequestsFor(f)) \in Nat
                                /\ Pending(f) \in Nat
                                /\ \A t : Count(runs[f], From(t)) \in Nat
                                /\ \A t : Known(f, t) \in {0, 1}
<1>1. backlog \in Seq(RestartRequest \cup DispatchRequest)
  BY DEF Typed, BridgeTyped
<1>2. \A f \in Fingerprint : runs[f] \in Seq(Nat) /\ slips[f] \in Nat
  BY DEF Typed, AgentsTyped
<1>3. \A f \in Fingerprint : Count(backlog, RequestsFor(f)) \in Nat
  BY <1>1, MarkedFinite
<1>4. \A f \in Fingerprint : \A t : Count(runs[f], From(t)) \in Nat
  BY <1>2, MarkedFinite
<1>5. QED
  BY <1>2, <1>3, <1>4 DEF Pending, Known

\* A dispatch that a notifier waits for is before the bridge.
LEMMA ExpectedPending ==
  ASSUME Typed, Attended, NEW f \in Fingerprint, Expected(f)
  PROVE  Pending(f) >= 1
<1>1. PICK n \in Notifier : Waiting(n) /\ notifier[n].fingerprint = f
  BY DEF Expected
<1>2. PICK r \in DispatchRequest : Before(r) /\ WaitsFor(n, r)
  BY <1>1 DEF Attended
<1>3. r \in RequestsFor(f)
  BY <1>1, <1>2 DEF WaitsFor, RequestsFor
<1>4. Count(backlog, RequestsFor(f)) \in Nat
  BY RunsTyped
<1>5. CASE serving = r
  BY <1>3, <1>4, <1>5 DEF Pending
<1>6. ASSUME NEW i \in DOMAIN backlog, backlog[i] = r
      PROVE  Pending(f) >= 1
  <2>1. Marked(backlog, RequestsFor(f)) # {}
    BY <1>3, <1>6 DEF Marked
  <2>2. IsFiniteSet(Marked(backlog, RequestsFor(f)))
    BY MarkedFinite DEF Typed, BridgeTyped
  <2>3. Count(backlog, RequestsFor(f)) # 0
    BY <2>1, <2>2, FS_EmptySet DEF Count
  <2>4. QED
    BY <2>3, <1>4 DEF Pending
<1>7. QED
  BY <1>2, <1>5, <1>6 DEF Before

\* What the check of a dispatch does not find, and is not excused from finding,
\* is not there.
LEMMA NothingMissed ==
  ASSUME Typed, NEW f \in Fingerprint, ~RecentSuccess(f), ~PushedOut(f),
         NEW t \in Int, t >= now - Cooldown
  PROVE  ~Succeeded(f, t)
<1> SUFFICES ASSUME NEW i \in DOMAIN telemetry, telemetry[i].fingerprint = f,
                    telemetry[i].success, telemetry[i].at >= t
             PROVE  FALSE
  BY DEF Succeeded
<1> DEFINE start == IF Len(telemetry) > NewestRecords THEN Len(telemetry) - NewestRecords ELSE 0
<1>1. telemetry \in Seq(DispatchRecord) /\ now \in Nat /\ Cooldown \in Nat /\ NewestRecords \in Nat
  BY OpsAssumption DEF Typed, AgentsTyped
<1>2. telemetry[i] \in DispatchRecord /\ telemetry[i].at \in Nat
  <2>1. telemetry[i] \in DispatchRecord
    BY <1>1
  <2>2. QED
    BY <2>1 DEF DispatchRecord
<1>3. Fresh(telemetry[i], f)
  BY <1>1, <1>2 DEF Fresh
<1>4. i \in 1 .. Len(telemetry) /\ Len(telemetry) \in Nat /\ start \in 0 .. Len(telemetry)
  BY <1>1
<1>5. i > start
  BY <1>1, <1>3, <1>4 DEF PushedOut
<1>6. Newest(NewestRecords) = SubSeq(telemetry, start + 1, Len(telemetry))
  BY DEF Newest
<1>7. i - start \in DOMAIN SubSeq(telemetry, start + 1, Len(telemetry))
      /\ SubSeq(telemetry, start + 1, Len(telemetry))[i - start] = telemetry[i]
  <2> HIDE DEF start
  <2>1. i - start \in 1 .. Len(telemetry) - start /\ start \in Nat
    BY <1>4, <1>5
  <2>2. DOMAIN SubSeq(telemetry, start + 1, Len(telemetry)) = 1 .. Len(telemetry) - start
    BY <1>1, <1>4, <2>1
  <2>3. \A j \in 1 .. Len(telemetry) - start :
          SubSeq(telemetry, start + 1, Len(telemetry))[j] = telemetry[start + j]
    BY <1>1, <1>4, <2>1
  <2>4. start + (i - start) = i
    BY <1>4, <2>1
  <2>5. QED
    BY <2>1, <2>2, <2>3, <2>4
<1>8. Fresh(Newest(NewestRecords)[i - start], f) /\ i - start \in DOMAIN Newest(NewestRecords)
  BY <1>3, <1>6, <1>7
<1>9. QED
  BY <1>8 DEF RecentSuccess

\* A run that ends now.
LEMMA RunsGrow ==
  ASSUME Typed, RunInv, serving \in DispatchRequest,
         runs' = [runs EXCEPT ![serving.fingerprint] = Append(@, now)]
  PROVE  /\ \A f \in Fingerprint : \A i \in DOMAIN runs'[f] : runs'[f][i] <= now
         /\ \A f \in Fingerprint, t \in Int :
              Count(runs'[f], From(t)) =
                Count(runs[f], From(t)) + (IF f = serving.fingerprint /\ now >= t THEN 1 ELSE 0)
         /\ \A f \in Fingerprint, t \in Int : Within(runs'[f], t - Cooldown, t) <= 1 + slips[f]
<1> DEFINE own == serving.fingerprint
<1>1. own \in Fingerprint /\ now \in Nat /\ runs \in [Fingerprint -> Seq(Nat)] /\ slips[own] \in Nat
  BY DEF DispatchRequest, Typed, AgentsTyped
<1>2. runs'[own] = Append(runs[own], now)
      /\ \A f \in Fingerprint : f # own => runs'[f] = runs[f]
  BY <1>1
<1>3. \A f \in Fingerprint : \A i \in DOMAIN runs'[f] : runs'[f][i] <= now
  BY <1>1, <1>2 DEF RunInv, RunsAccounted
<1>4. \A t \in Int : Count(Append(runs[own], now), From(t)) =
        IF now \in From(t) THEN Count(runs[own], From(t)) + 1 ELSE Count(runs[own], From(t))
  BY <1>1, CountAppend, SMTT(60)
<1>5. \A f \in Fingerprint, t \in Int :
        Count(runs'[f], From(t)) =
          Count(runs[f], From(t)) + (IF f = own /\ now >= t THEN 1 ELSE 0)
  <2> SUFFICES ASSUME NEW f \in Fingerprint, NEW t \in Int
               PROVE  Count(runs'[f], From(t)) =
                        Count(runs[f], From(t)) + (IF f = own /\ now >= t THEN 1 ELSE 0)
    OBVIOUS
  <2>1. Count(runs[f], From(t)) \in Nat
    BY RunsTyped
  <2>2. now \in From(t) <=> now >= t
    BY <1>1 DEF From
  <2>3. QED
    BY <2>1, <2>2, <1>2, <1>4
<1>6. \A t \in Int : Within(runs'[own], t - Cooldown, t) <= 1 + slips[own]
  <2>1. now - Cooldown \in Int /\ Cooldown \in Nat /\ 1 + slips[own] \in Nat
    <3>1. Cooldown \in Nat
      BY OpsAssumption
    <3>2. QED
      BY <3>1, <1>1
  <2>2. Count(runs[own], From(now - Cooldown)) + Pending(own) <= slips[own] + Known(own, now - Cooldown)
    BY <1>1, <2>1 DEF RunInv, RunsAccounted
  <2>3. Pending(own) >= 1
    BY <1>1, RunsTyped DEF Pending, RequestsFor
  <2>4. Count(runs[own], From(now - Cooldown)) \in Nat /\ Pending(own) \in Nat
        /\ Known(own, now - Cooldown) \in {0, 1}
    BY <1>1, RunsTyped
  <2>5. Count(runs[own], From(now - Cooldown)) + 1 <= 1 + slips[own]
    BY <2>2, <2>3, <2>4, <1>1
  <2>6. \A t \in Int : Within(runs[own], t - Cooldown, t) <= 1 + slips[own]
    BY <1>1 DEF RunInv, CooldownsKept
  <2>7. QED
    BY <2>1, <2>5, <2>6, <1>1, <1>2, WindowGrows
<1>7. QED
  BY <1>2, <1>3, <1>5, <1>6 DEF RunInv, CooldownsKept

LEMMA AppendIsConcat ==
  ASSUME NEW S, NEW s \in Seq(S), NEW x \in S
  PROVE  Append(s, x) = s \o <<x>> /\ <<x>> \in Seq(S)
OBVIOUS

\* Records that are appended leave what is known known.
LEMMA StillSucceeded ==
  ASSUME Typed, NEW a \in Seq(DispatchRecord), telemetry' = telemetry \o a,
         NEW f, NEW t, Succeeded(f, t)
  PROVE  Succeeded(f, t)'
<1>1. PICK i \in DOMAIN telemetry : telemetry[i].fingerprint = f /\ telemetry[i].success /\ telemetry[i].at >= t
  BY DEF Succeeded
<1>2. telemetry \in Seq(DispatchRecord)
  BY DEF Typed, AgentsTyped
<1>3. i \in DOMAIN telemetry' /\ telemetry'[i] = telemetry[i]
  BY <1>2
<1>4. QED
  BY <1>1, <1>3 DEF Succeeded

\* What an answer appends to the telemetry file.
LEMMA AnswerAppends ==
  ASSUME Typed, NEW success \in {"yes", "no", "none"}, serving \in DispatchRequest, Answer(success)
  PROVE  \E a \in Seq(DispatchRecord) :
           /\ telemetry' = telemetry \o a
           /\ success = "yes" => a = <<Record(serving.fingerprint, TRUE)>>
<1>1. serving.fingerprint \in Fingerprint /\ now \in Nat /\ telemetry \in Seq(DispatchRecord)
  BY DEF DispatchRequest, Typed, AgentsTyped
<1>2. \A b \in BOOLEAN : <<Record(serving.fingerprint, b)>> \in Seq(DispatchRecord)
  BY <1>1, RecordTyped
<1>3. CASE success = "yes"
  <2>1. telemetry' = telemetry \o <<Record(serving.fingerprint, TRUE)>> \o <<>>
    BY <1>3 DEF Answer
  <2>2. <<Record(serving.fingerprint, TRUE)>> \in Seq(DispatchRecord)
    BY <1>2 DEF Record
  <2>3. \A a \in Seq(DispatchRecord) : telemetry \o a \o <<>> = telemetry \o a
    BY <1>1
  <2>4. QED
    BY <2>1, <2>2, <2>3
<1>4. CASE success # "yes"
  <2>1. <<>> \in Seq(DispatchRecord) /\ <<Record(serving.fingerprint, FALSE)>> \in Seq(DispatchRecord)
    <3>1. Record(serving.fingerprint, FALSE) \in DispatchRecord
      BY <1>1, RecordTyped DEF Record
    <3>2. QED
      BY <3>1 DEF Record
  <2>2. PICK a \in Seq(DispatchRecord), b \in Seq(DispatchRecord) : telemetry' = telemetry \o a \o b
    BY <1>2, <1>4, <2>1, (success = "yes") = FALSE DEF Answer
  <2>3. a \o b \in Seq(DispatchRecord) /\ telemetry' = telemetry \o (a \o b)
    BY <1>1, <2>2
  <2>4. QED
    BY <2>3, <1>4
<1>5. QED
  BY <1>3, <1>4

\* An answer takes one dispatch of its fingerprint from those before the bridge,
\* and at most the notifier that waits for it from those that wait.
LEMMA AnswerEffect ==
  ASSUME Typed, Attended, NEW success \in {"yes", "no", "none"}, serving.kind = "dispatch",
         Answer(success), backlog' = backlog, now' = now
  PROVE  /\ serving \in DispatchRequest
         /\ \A f \in Fingerprint :
              Pending(f)' = Pending(f) - (IF f = serving.fingerprint THEN 1 ELSE 0)
         /\ \A f \in Fingerprint, t \in Int :
              /\ Known(f, t)' >= Known(f, t) - (IF f = serving.fingerprint THEN 1 ELSE 0)
              /\ Known(f, t)' \in {0, 1}
         /\ success = "yes" => \A f \in Fingerprint, t \in Int :
                                f = serving.fingerprint /\ now >= t => Known(f, t)' = 1
         /\ requests' = requests => Attended'
<1>1. serving \in DispatchRequest /\ serving.fingerprint \in Fingerprint /\ serving.notifier \in Notifier
  BY Kinds DEF Typed, DispatchRequest
<1>2. serving' = Idle /\ \A r \in DispatchRequest : r # Idle
  BY DEF Answer, Idle, DispatchRequest
<1>3. ASSUME NEW f \in Fingerprint
      PROVE  Pending(f)' = Pending(f) - (IF f = serving.fingerprint THEN 1 ELSE 0)
  <2>1. serving \in RequestsFor(f) <=> f = serving.fingerprint
    BY <1>1 DEF RequestsFor
  <2>2. serving' \notin RequestsFor(f)
    BY <1>2 DEF RequestsFor
  <2>3. Count(backlog, RequestsFor(f)) \in Nat
    BY RunsTyped
  <2>4. Pending(f)' = Count(backlog, RequestsFor(f)) + 0
    BY <2>2 DEF Pending, RequestsFor
  <2>5. QED
    BY <2>1, <2>3, <2>4 DEF Pending
\* Only the notifier that the request names may stop waiting, and it waits for this.
<1>4. \A n \in Notifier : Waiting(n) => \/ notifier'[n] = notifier[n]
                                        \/ /\ n = serving.notifier /\ notifier'[n] = Idle
                                           /\ notifier[n].id = serving.id
                                           /\ notifier[n].fingerprint = serving.fingerprint
  <2>1. Before(serving)
    BY DEF Before
  <2>2. Waiting(serving.notifier) /\ notifier[serving.notifier].id = serving.id
          => notifier[serving.notifier].fingerprint = serving.fingerprint
    BY <1>1, <2>1 DEF Attended, WaitsFor
  <2>3. notifier \in [Notifier -> {Idle} \cup WaitingNotifier]
    BY DEF Typed, AgentsTyped
  <2>4. QED
    BY <1>1, <2>2, <2>3 DEF Answer
<1>5. PICK a \in Seq(DispatchRecord) :
        telemetry' = telemetry \o a /\ (success = "yes" => a = <<Record(serving.fingerprint, TRUE)>>)
  BY <1>1, AnswerAppends
<1>6. ASSUME NEW f \in Fingerprint, NEW t \in Int
      PROVE  /\ Known(f, t)' >= Known(f, t) - (IF f = serving.fingerprint THEN 1 ELSE 0)
             /\ Known(f, t)' \in {0, 1}
  <2>1. Succeeded(f, t) => Succeeded(f, t)'
    BY <1>5, StillSucceeded
  <2>2. f # serving.fingerprint => (Expected(f) => Expected(f)')
    BY <1>4 DEF Expected, Waiting
  <2>3. QED
    BY <2>1, <2>2 DEF Known
<1>7. ASSUME success = "yes", NEW f \in Fingerprint, f = serving.fingerprint, NEW t \in Int, now >= t
      PROVE  Known(f, t)' = 1
  <2>1. telemetry' = telemetry \o <<Record(serving.fingerprint, TRUE)>> /\ telemetry \in Seq(DispatchRecord)
    BY <1>5, <1>7 DEF Typed, AgentsTyped
  <2>2. Len(telemetry) + 1 \in DOMAIN telemetry'
        /\ telemetry'[Len(telemetry) + 1] = [fingerprint |-> serving.fingerprint, success |-> TRUE, at |-> now]
    BY <2>1 DEF Record
  <2>3. Succeeded(f, t)'
    BY <2>2, <1>7 DEF Succeeded
  <2>4. QED
    BY <2>3 DEF Known
<1>8. ASSUME requests' = requests
      PROVE  Attended'
  <2>1. \A r \in DispatchRequest : Before(r) <=> (r = serving \/ Before(r)')
    BY <1>1, <1>2 DEF Before
  <2>2. \A n \in Notifier : Waiting(n)' => Waiting(n) /\ notifier'[n] = notifier[n]
    BY <1>4 DEF Answer, Waiting, Idle
  <2>3. \A n \in Notifier, r \in DispatchRequest : Waiting(n)' => (WaitsFor(n, r)' <=> WaitsFor(n, r))
    BY <2>2 DEF WaitsFor
  <2>4. ASSUME NEW n \in Notifier, Waiting(n)'
        PROVE  \E r \in DispatchRequest : Before(r)' /\ WaitsFor(n, r)'
    <3>1. PICK r \in DispatchRequest : Before(r) /\ WaitsFor(n, r)
      BY <2>2, <2>4 DEF Attended
    <3>2. r # serving
      <4> SUFFICES ASSUME r = serving
                   PROVE  ~Waiting(n)'
        BY <2>4
      <4>1. n = serving.notifier /\ Waiting(serving.notifier) /\ notifier[serving.notifier].id = serving.id
        BY <2>2, <2>4, <3>1 DEF WaitsFor
      <4>2. notifier' = [notifier EXCEPT ![n] = Idle]
        BY <4>1 DEF Answer
      <4>3. notifier'[n] = Idle
        BY <4>2 DEF Typed, AgentsTyped
      <4>4. QED
        BY <4>3 DEF Waiting, Idle
    <3>3. QED
      BY <2>1, <2>3, <2>4, <3>1, <3>2
  <2>5. ASSUME NEW r \in DispatchRequest, Before(r)'
        PROVE  /\ r.id <= requests'
               /\ Waiting(r.notifier)' /\ notifier'[r.notifier].id = r.id => WaitsFor(r.notifier, r)'
    <3>1. r.notifier \in Notifier /\ Before(r)
      BY <2>1, <2>5 DEF DispatchRequest
    <3>2. QED
      BY <3>1, <1>8, <2>2, <2>3 DEF Attended
  <2>6. QED
    BY <2>4, <2>5 DEF Attended
<1>9. QED
  BY <1>1, <1>3, <1>6, <1>7, <1>8

LEMMA RunInit == Init => RunInv
<1> SUFFICES ASSUME Init
             PROVE  RunInv
  OBVIOUS
<1>1. \A T : Count(<<>>, T) = 0
  BY CountEmpty
<1>2. \A f \in Fingerprint : runs[f] = <<>> /\ slips[f] = 0 /\ Pending(f) = 0
  BY <1>1 DEF Init, Pending, RequestsFor, DispatchRequest, Idle
<1>3. RunsAccounted
  BY <1>1, <1>2 DEF RunsAccounted, Known
<1>4. Attended
  BY DEF Init, Attended, Waiting, Before, Idle, DispatchRequest
<1>5. CooldownsKept
  <2>1. \A a, b \in Int : Within(<<>>, a, b) = Count(<<>>, a .. b)
    BY DEF Within, Count, Marked
  <2>2. \A f \in Fingerprint, t \in Int : Within(runs[f], t - Cooldown, t) = 0
    BY <1>1, <1>2, <2>1, OpsAssumption
  <2>3. QED
    BY <2>2, <1>2 DEF CooldownsKept
<1>6. QED
  BY <1>3, <1>4, <1>5 DEF RunInv

\* What keeps the account: runs and pending dispatches grow by no more than
\* slips and knowledge.
LEMMA RunsKept ==
  ASSUME Typed, RunInv, now' \in Nat, now <= now', runs' = runs,
         \A f \in Fingerprint : slips'[f] \in Nat /\ slips[f] <= slips'[f] /\ Pending(f)' \in Nat,
         \A f \in Fingerprint, t \in Int : t >= now - Cooldown =>
           /\ Known(f, t)' \in {0, 1}
           /\ Pending(f)' + slips[f] + Known(f, t) <= Pending(f) + slips'[f] + Known(f, t)'
  PROVE  RunsAccounted' /\ CooldownsKept'
<1>1. ASSUME NEW f \in Fingerprint, NEW t \in Int, t >= now' - Cooldown
      PROVE  Count(runs[f], From(t)) + Pending(f)' <= slips'[f] + Known(f, t)'
  <2> DEFINE count == Count(runs[f], From(t))
  <2>1. t >= now - Cooldown
    BY <1>1, OpsAssumption DEF Typed
  <2>2. count \in Nat /\ Pending(f) \in Nat /\ slips[f] \in Nat /\ Known(f, t) \in {0, 1}
    BY RunsTyped
  <2>3. count + Pending(f) <= slips[f] + Known(f, t)
    BY <2>1 DEF RunInv, RunsAccounted
  <2>4. Pending(f)' \in Nat /\ slips'[f] \in Nat /\ Known(f, t)' \in {0, 1}
        /\ Pending(f)' + slips[f] + Known(f, t) <= Pending(f) + slips'[f] + Known(f, t)'
    BY <2>1
  <2> HIDE DEF count
  <2>5. count + Pending(f)' <= slips'[f] + Known(f, t)'
    BY <2>2, <2>3, <2>4
  <2>6. QED
    BY <2>5 DEF count
<1>2. ASSUME NEW f \in Fingerprint
      PROVE  \A i \in DOMAIN runs[f] : runs[f][i] <= now'
  <2>1. runs[f] \in Seq(Nat) /\ \A i \in DOMAIN runs[f] : runs[f][i] <= now
    BY RunsTyped DEF RunInv, RunsAccounted
  <2>2. QED
    BY <2>1 DEF Typed
<1>3. RunsAccounted'
  BY <1>1, <1>2 DEF RunsAccounted
<1>4. ASSUME NEW f \in Fingerprint, NEW t \in Int
      PROVE  Within(runs[f], t - Cooldown, t) <= 1 + slips'[f]
  <2>1. Within(runs[f], t - Cooldown, t) \in Nat /\ slips[f] \in Nat
    BY RunsTyped, WithinNat
  <2>2. Within(runs[f], t - Cooldown, t) <= 1 + slips[f]
    BY DEF RunInv, CooldownsKept
  <2>3. QED
    BY <2>1, <2>2, RoomGrows
<1>5. QED
  BY <1>3, <1>4 DEF CooldownsKept

\* ... and so does a run that ends well, when it is known or slipped.
LEMMA RunsAdded ==
  ASSUME Typed, RunInv, serving \in DispatchRequest, now' = now,
         runs' = [runs EXCEPT ![serving.fingerprint] = Append(@, now)],
         \A f \in Fingerprint : slips'[f] \in Nat /\ slips[f] <= slips'[f] /\ Pending(f)' \in Nat,
         \A f \in Fingerprint, t \in Int : t >= now - Cooldown =>
           /\ Known(f, t)' \in {0, 1}
           /\ Pending(f)' + slips[f] + Known(f, t) <= Pending(f) + slips'[f] + Known(f, t)'
           /\ f = serving.fingerprint /\ now >= t =>
                Pending(f)' + slips[f] + Known(f, t) + 1 <= Pending(f) + slips'[f] + Known(f, t)'
  PROVE  RunsAccounted' /\ CooldownsKept'
<1>1. ASSUME NEW f \in Fingerprint, NEW t \in Int, t >= now - Cooldown
      PROVE  Count(runs'[f], From(t)) + Pending(f)' <= slips'[f] + Known(f, t)'
  <2> DEFINE count == Count(runs[f], From(t))
  <2>1. count \in Nat /\ Pending(f) \in Nat /\ slips[f] \in Nat /\ Known(f, t) \in {0, 1}
    BY RunsTyped
  <2>2. count + Pending(f) <= slips[f] + Known(f, t)
    BY <1>1 DEF RunInv, RunsAccounted
  <2>3. Pending(f)' \in Nat /\ slips'[f] \in Nat /\ Known(f, t)' \in {0, 1}
        /\ Pending(f)' + slips[f] + Known(f, t) <= Pending(f) + slips'[f] + Known(f, t)'
    BY <1>1
  <2>4. Count(runs'[f], From(t)) = count + (IF f = serving.fingerprint /\ now >= t THEN 1 ELSE 0)
    BY RunsGrow
  <2>5. CASE f = serving.fingerprint /\ now >= t
    <3>1. Count(runs'[f], From(t)) = count + 1
      BY <2>4, <2>5
    <3>2. Pending(f)' + slips[f] + Known(f, t) + 1 <= Pending(f) + slips'[f] + Known(f, t)'
      BY <1>1, <2>5
    <3> HIDE DEF count
    <3>3. count + 1 + Pending(f)' <= slips'[f] + Known(f, t)'
      BY <2>1, <2>2, <2>3, <3>2, SMTT(60)
    <3>4. QED
      BY <3>1, <3>3
  <2>6. CASE ~(f = serving.fingerprint /\ now >= t)
    <3>1. Count(runs'[f], From(t)) = count
      BY <2>1, <2>4, <2>6
    <3> HIDE DEF count
    <3>2. count + Pending(f)' <= slips'[f] + Known(f, t)'
      BY <2>1, <2>2, <2>3, SMTT(60)
    <3>3. QED
      BY <3>1, <3>2
  <2>7. QED
    BY <2>5, <2>6
<1>2. \A f \in Fingerprint : \A i \in DOMAIN runs'[f] : runs'[f][i] <= now
  BY RunsGrow
<1>3. RunsAccounted'
  BY <1>1, <1>2 DEF RunsAccounted
<1>4. ASSUME NEW f \in Fingerprint, NEW t \in Int
      PROVE  Within(runs'[f], t - Cooldown, t) <= 1 + slips'[f]
  <2>1. runs'[f] \in Seq(Nat) /\ slips[f] \in Nat
    <3>1. serving.fingerprint \in Fingerprint /\ now \in Nat /\ runs \in [Fingerprint -> Seq(Nat)]
      BY DEF DispatchRequest, Typed, AgentsTyped
    <3>2. runs' \in [Fingerprint -> Seq(Nat)]
      BY <3>1, AppendAt
    <3>3. QED
      BY <3>2, RunsTyped
  <2>2. Within(runs'[f], t - Cooldown, t) \in Nat
    BY <2>1, WithinNat
  <2>3. Within(runs'[f], t - Cooldown, t) <= 1 + slips[f]
    BY RunsGrow
  <2>4. QED
    BY <2>1, <2>2, <2>3, RoomGrows
<1>5. QED
  BY <1>3, <1>4 DEF CooldownsKept

\* Steps that leave dispatches, notifiers and runs alone.
LEMMA RunsQuiet ==
  ASSUME Typed, RunInv, now' \in Nat, now <= now', requests' \in Nat, requests <= requests',
         UNCHANGED agents,
         \A f \in Fingerprint : Pending(f)' = Pending(f),
         \A r \in DispatchRequest : Before(r)' <=> Before(r)
  PROVE  RunInv'
<1>1. \A f \in Fingerprint : \A t \in Int : Known(f, t)' = Known(f, t)
  BY DEF Known, Expected, Waiting, Succeeded, agents
<1>2. RunsAccounted' /\ CooldownsKept'
  <2>1. runs' = runs /\ slips' = slips
    BY DEF agents
  <2>2. \A f \in Fingerprint : slips'[f] \in Nat /\ slips[f] <= slips'[f] /\ Pending(f)' \in Nat
    BY <2>1, RunsTyped
  <2>3. ASSUME NEW f \in Fingerprint, NEW t \in Int
        PROVE  /\ Known(f, t)' \in {0, 1}
               /\ Pending(f)' + slips[f] + Known(f, t) <= Pending(f) + slips'[f] + Known(f, t)'
    BY <1>1, <2>1, RunsTyped
  <2>4. QED
    BY <2>1, <2>2, <2>3, RunsKept
<1>3. Attended'
  <2>1. \A r \in DispatchRequest : r.id <= requests => r.id <= requests'
    BY DEF DispatchRequest, Typed
  <2>2. QED
    BY <2>1 DEF RunInv, Attended, Waiting, WaitsFor, agents
<1>4. QED
  BY <1>2, <1>3 DEF RunInv

\* Serving a request keeps it before the bridge, if it is a dispatch.
LEMMA ServeKeeps ==
  ASSUME Typed, Serve
  PROVE  /\ \A f \in Fingerprint : Pending(f)' = Pending(f)
         /\ \A r \in DispatchRequest : Before(r)' <=> Before(r)
<1> DEFINE Requests == RestartRequest \cup DispatchRequest
<1>1. /\ backlog \in Seq(Requests) /\ backlog # <<>> /\ backlog' = Tail(backlog)
      /\ Head(backlog) \in Requests /\ serving = Idle
  BY DEF Serve, Typed, BridgeTyped
<1>2. \A r \in DispatchRequest : r # Idle /\ r.kind = "dispatch"
  BY DEF Idle, DispatchRequest
<1>3. \A r \in DispatchRequest : serving' = r <=> Head(backlog) = r
  <2>1. CASE Head(backlog).kind = "dispatch"
    BY <2>1, <1>1, Kinds DEF Serve, Typed
  <2>2. CASE Head(backlog).kind # "dispatch"
    BY <2>2, <1>1, <1>2 DEF Serve
  <2>3. QED
    BY <2>1, <2>2
<1>4. ASSUME NEW f \in Fingerprint
      PROVE  Pending(f)' = Pending(f)
  <2>1. Count(backlog, RequestsFor(f)) =
          IF Head(backlog) \in RequestsFor(f) THEN Count(Tail(backlog), RequestsFor(f)) + 1
                                             ELSE Count(Tail(backlog), RequestsFor(f))
    BY <1>1, CountTail
  <2>2. serving \notin RequestsFor(f) /\ (serving' \in RequestsFor(f) <=> Head(backlog) \in RequestsFor(f))
    BY <1>1, <1>2, <1>3 DEF RequestsFor
  <2>3. Tail(backlog) \in Seq(Requests)
    BY <1>1
  <2>4. Count(Tail(backlog), RequestsFor(f)) \in Nat
    BY <2>3, MarkedFinite
  <2>5. Pending(f)' = Count(Tail(backlog), RequestsFor(f)) + (IF serving' \in RequestsFor(f) THEN 1 ELSE 0)
    BY <1>1 DEF Pending, RequestsFor
  <2>6. QED
    BY <2>1, <2>2, <2>4, <2>5 DEF Pending
<1>5. ASSUME NEW r \in DispatchRequest
      PROVE  Before(r)' <=> Before(r)
  <2>1. Len(backlog) \in Nat \ {0} /\ DOMAIN Tail(backlog) = 1 .. Len(backlog) - 1
        /\ \A i \in 1 .. Len(backlog) - 1 : Tail(backlog)[i] = backlog[i + 1]
    BY <1>1
  <2>2. (\E i \in DOMAIN backlog : backlog[i] = r) <=>
          Head(backlog) = r \/ \E i \in DOMAIN Tail(backlog) : Tail(backlog)[i] = r
    <3>1. ASSUME NEW i \in DOMAIN backlog, backlog[i] = r
          PROVE  Head(backlog) = r \/ \E j \in DOMAIN Tail(backlog) : Tail(backlog)[j] = r
      <4>1. CASE i = 1
        BY <3>1, <4>1, <1>1
      <4>2. CASE i # 1
        <5>1. i - 1 \in 1 .. Len(backlog) - 1 /\ (i - 1) + 1 = i
          BY <4>2, <2>1, <1>1
        <5>2. QED
          BY <5>1, <2>1, <3>1
      <4>3. QED
        BY <4>1, <4>2
    <3>2. ASSUME NEW j \in DOMAIN Tail(backlog), Tail(backlog)[j] = r
          PROVE  \E i \in DOMAIN backlog : backlog[i] = r
      <4>1. j + 1 \in DOMAIN backlog /\ backlog[j + 1] = r
        BY <2>1, <3>2, <1>1
      <4>2. QED
        BY <4>1
    <3>3. Head(backlog) = r => \E i \in DOMAIN backlog : backlog[i] = r
      BY <2>1, <1>1
    <3>4. QED
      BY <3>1, <3>2, <3>3
  <2>3. QED
    BY <2>2, <1>1, <1>2, <1>3 DEF Before
<1>6. QED
  BY <1>4, <1>5

\* A notifier that stops waiting without an answer is a slip.
LEMMA StopsWaiting ==
  ASSUME Typed, RunInv, NEW n \in Notifier, Waiting(n),
         notifier' = [notifier EXCEPT ![n] = Idle],
         slips' = [slips EXCEPT ![notifier[n].fingerprint] = @ + 1],
         NEW a \in Seq(DispatchRecord), telemetry' = telemetry \o a,
         now' = now, UNCHANGED <<bridge, runs, requests>>
  PROVE  RunInv'
<1> DEFINE own == notifier[n].fingerprint
<1>1. own \in Fingerprint /\ slips \in [Fingerprint -> Nat] /\ now \in Nat
  BY WaitingTyped DEF WaitingNotifier, Typed, AgentsTyped
<1>2. \A m \in Notifier : notifier'[m] = IF m = n THEN Idle ELSE notifier[m]
  BY DEF Typed, AgentsTyped
<1>3. \A f \in Fingerprint : slips'[f] = IF f = own THEN slips[f] + 1 ELSE slips[f]
  BY <1>1
<1>4. \A f \in Fingerprint : Pending(f)' = Pending(f)
  BY DEF Pending, RequestsFor, bridge
<1>5. ASSUME NEW f \in Fingerprint, NEW t \in Int
      PROVE  /\ Known(f, t)' \in {0, 1}
             /\ Known(f, t)' >= Known(f, t) - (IF f = own THEN 1 ELSE 0)
  <2>1. Succeeded(f, t) => Succeeded(f, t)'
    BY StillSucceeded
  <2>2. f # own => (Expected(f) => Expected(f)')
    BY <1>2 DEF Expected, Waiting
  <2>3. QED
    BY <2>1, <2>2 DEF Known
<1>6. RunsAccounted' /\ CooldownsKept'
  <2>1. \A f \in Fingerprint : slips'[f] \in Nat /\ slips[f] <= slips'[f] /\ Pending(f)' \in Nat
    BY <1>1, <1>3, <1>4, RunsTyped
  <2>2. ASSUME NEW f \in Fingerprint, NEW t \in Int
        PROVE  /\ Known(f, t)' \in {0, 1}
               /\ Pending(f)' + slips[f] + Known(f, t) <= Pending(f) + slips'[f] + Known(f, t)'
    <3>1. Pending(f) \in Nat /\ slips[f] \in Nat /\ Known(f, t) \in {0, 1}
      BY RunsTyped
    <3>2. QED
      BY <3>1, <1>3, <1>4, <1>5
  <2>3. QED
    BY <1>1, <2>1, <2>2, RunsKept
<1>7. Attended'
  <2>1. \A m \in Notifier : Waiting(m)' => Waiting(m) /\ notifier'[m] = notifier[m]
    BY <1>2 DEF Waiting, Idle
  <2>2. \A r \in DispatchRequest : Before(r)' <=> Before(r)
    BY DEF Before, bridge
  <2>3. \A r \in DispatchRequest : r.notifier \in Notifier
    BY DEF DispatchRequest
  <2>4. QED
    BY <2>1, <2>2, <2>3 DEF RunInv, Attended, WaitsFor
<1>8. QED
  BY <1>6, <1>7 DEF RunInv

\* A dispatch is known from now on; if it might have been known before, it slipped.
LEMMA DispatchKeeps ==
  ASSUME Typed, RunInv, NEW n \in Notifier, NEW g \in Fingerprint, Dispatch(n, g)
  PROVE  RunInv'
<1> DEFINE new     == [kind |-> "dispatch", fingerprint |-> g, notifier |-> n, id |-> requests']
           slipped == AwayFrom(n, g) \/ PushedOut(g)
<1>1. /\ notifier[n] = Idle /\ ~Waiting(n) /\ requests' = requests + 1 /\ requests \in Nat
      /\ now' = now /\ now \in Nat /\ runs' = runs /\ UNCHANGED <<serving, telemetry>>
      /\ backlog' = Append(backlog, new) /\ ~RecentSuccess(g)
  BY DEF Dispatch, Request, Typed, Waiting, Idle
<1>2. new \in DispatchRequest /\ backlog \in Seq(RestartRequest \cup DispatchRequest)
  BY <1>1 DEF DispatchRequest, Typed, BridgeTyped
<1>3. \A m \in Notifier : notifier'[m] =
        IF m = n THEN [kind |-> "waiting", fingerprint |-> g, since |-> now, id |-> requests'] ELSE notifier[m]
  BY DEF Dispatch, Typed, AgentsTyped
<1>4. \A f \in Fingerprint : slips'[f] = IF f = g /\ slipped THEN slips[f] + 1 ELSE slips[f]
  BY DEF Dispatch, Typed, AgentsTyped
<1>5. ASSUME NEW f \in Fingerprint
      PROVE  Pending(f)' = IF f = g THEN Pending(f) + 1 ELSE Pending(f)
  <2>1. new \in RequestsFor(f) <=> f = g
    BY <1>2 DEF RequestsFor
  <2>2. Count(Append(backlog, new), RequestsFor(f)) =
          IF new \in RequestsFor(f) THEN Count(backlog, RequestsFor(f)) + 1 ELSE Count(backlog, RequestsFor(f))
    BY <1>2, CountAppend
  <2>3. Count(backlog, RequestsFor(f)) \in Nat
    BY RunsTyped
  <2>4. Pending(f)' = Count(Append(backlog, new), RequestsFor(f))
                        + (IF serving \in RequestsFor(f) THEN 1 ELSE 0)
    BY <1>1 DEF Pending, RequestsFor
  <2>5. QED
    BY <2>1, <2>2, <2>3, <2>4 DEF Pending
<1>6. ASSUME NEW f \in Fingerprint, NEW t \in Int
      PROVE  /\ Known(f, t)' \in {0, 1} /\ Known(f, t) <= Known(f, t)'
             /\ f = g => Known(f, t)' = 1
  <2>1. Succeeded(f, t)' <=> Succeeded(f, t)
    BY <1>1 DEF Succeeded
  <2>2. Expected(f) => Expected(f)'
    BY <1>1, <1>3 DEF Expected, Waiting
  <2>3. f = g => Expected(f)'
    BY <1>3 DEF Expected, Waiting
  <2>4. QED
    BY <2>1, <2>2, <2>3 DEF Known
<1>7. ASSUME ~slipped, NEW t \in Int, t >= now - Cooldown
      PROVE  Known(g, t) = 0
  <2>1. ~Succeeded(g, t)
    BY <1>1, <1>7, NothingMissed
  <2>2. ~Expected(g)
    BY <1>1, <1>7 DEF Expected, AwayFrom
  <2>3. QED
    BY <2>1, <2>2 DEF Known
<1>8. RunsAccounted' /\ CooldownsKept'
  <2>1. \A f \in Fingerprint : slips'[f] \in Nat /\ slips[f] <= slips'[f] /\ Pending(f)' \in Nat
    BY <1>4, <1>5, RunsTyped
  <2>2. ASSUME NEW f \in Fingerprint, NEW t \in Int, t >= now - Cooldown
        PROVE  /\ Known(f, t)' \in {0, 1}
               /\ Pending(f)' + slips[f] + Known(f, t) <= Pending(f) + slips'[f] + Known(f, t)'
    <3>1. Pending(f) \in Nat /\ slips[f] \in Nat /\ Known(f, t) \in {0, 1}
          /\ Known(f, t)' \in {0, 1} /\ Known(f, t) <= Known(f, t)'
      BY <1>6, RunsTyped
    <3>2. CASE f # g
      BY <3>1, <3>2, <1>4, <1>5
    <3>3. CASE f = g /\ slipped
      <4>1. Pending(f)' = Pending(f) + 1 /\ slips'[f] = slips[f] + 1
        BY <3>3, <1>4, <1>5
      <4>2. QED
        BY <4>1, <3>1
    <3>4. CASE f = g /\ ~slipped
      <4>1. Pending(f)' = Pending(f) + 1 /\ slips'[f] = slips[f] /\ Known(f, t) = 0 /\ Known(f, t)' = 1
        BY <3>4, <2>2, <1>4, <1>5, <1>6, <1>7
      <4>2. QED
        BY <4>1, <3>1
    <3>5. QED
      BY <3>2, <3>3, <3>4
  <2>3. QED
    BY <1>1, <2>1, <2>2, RunsKept
<1>9. Attended'
  <2> USE DEF RunInv
  <2>1. \A i \in DOMAIN backlog : i \in DOMAIN backlog' /\ backlog'[i] = backlog[i]
    BY <1>1, <1>2
  <2>2. Len(backlog) + 1 \in DOMAIN backlog' /\ backlog'[Len(backlog) + 1] = new
    BY <1>1, <1>2
  <2>3. \A i \in DOMAIN backlog' : i \in DOMAIN backlog \/ backlog'[i] = new
    BY <1>1, <1>2
  <2>4. \A r \in DispatchRequest : Before(r)' <=> (Before(r) \/ r = new)
    BY <2>1, <2>2, <2>3, <1>1 DEF Before
  <2>5. ASSUME NEW m \in Notifier, Waiting(m)'
        PROVE  \E r \in DispatchRequest : Before(r)' /\ WaitsFor(m, r)'
    <3>1. CASE m = n
      BY <3>1, <1>2, <1>3, <2>4 DEF WaitsFor
    <3>2. CASE m # n
      BY <3>2, <2>5, <1>3, <2>4 DEF Attended, Waiting, WaitsFor
    <3>3. QED
      BY <3>1, <3>2
  <2>6. ASSUME NEW r \in DispatchRequest, Before(r)'
        PROVE  /\ r.id <= requests'
               /\ Waiting(r.notifier)' /\ notifier'[r.notifier].id = r.id => WaitsFor(r.notifier, r)'
    <3>1. r.notifier \in Notifier /\ r.id \in Nat
      BY DEF DispatchRequest
    <3>2. CASE r = new
      BY <3>2, <1>1, <1>3 DEF WaitsFor
    <3>3. CASE r # new /\ r.notifier = n
      <4>1. r.id <= requests /\ notifier'[r.notifier].id = requests + 1
        BY <3>3, <2>4, <2>6, <1>1, <1>3 DEF Attended
      <4>2. QED
        BY <4>1, <3>1, <1>1
    <3>4. CASE r # new /\ r.notifier # n
      <4>1. Before(r) /\ r.id <= requests /\ notifier'[r.notifier] = notifier[r.notifier]
        BY <3>1, <3>4, <2>4, <2>6, <1>3 DEF Attended
      <4>2. Waiting(r.notifier)' => Waiting(r.notifier)
        BY <4>1 DEF Waiting
      <4>3. QED
        BY <4>1, <4>2, <3>1, <1>1 DEF Attended, WaitsFor
    <3>5. QED
      BY <3>2, <3>3, <3>4
  <2>7. QED
    BY <2>5, <2>6 DEF Attended
<1>10. QED
  BY <1>8, <1>9 DEF RunInv

\* The bridge that ends takes every dispatch before it along, and with them those
\* a notifier waits for.
LEMMA CrashKeeps ==
  ASSUME Typed, RunInv, BridgeCrash
  PROVE  RunInv'
<1>1. /\ now' = now /\ now \in Nat /\ serving' = Idle /\ backlog' = <<>> /\ telemetry' = telemetry
      /\ notifier' = [n \in Notifier |-> Idle]
  BY DEF BridgeCrash, Typed
<1>2. \A f \in Fingerprint : Pending(f)' = 0
  <2>1. \A f \in Fingerprint : Count(<<>>, RequestsFor(f)) = 0
    BY CountEmpty
  <2>2. \A f \in Fingerprint : Idle \notin RequestsFor(f)
    BY DEF Idle, RequestsFor, DispatchRequest
  <2>3. QED
    BY <2>1, <2>2, <1>1 DEF Pending, RequestsFor
<1>3. Attended'
  BY <1>1 DEF Attended, Waiting, Before, Idle, DispatchRequest
<1>4. ASSUME NEW f \in Fingerprint, NEW t \in Int
      PROVE  /\ Known(f, t)' \in {0, 1}
             /\ Pending(f) \in Nat /\ Known(f, t) \in {0, 1}
             /\ Known(f, t) <= Pending(f) + Known(f, t)'
  <2>1. Succeeded(f, t)' <=> Succeeded(f, t)
    BY <1>1 DEF Succeeded
  <2>2. Expected(f) => Pending(f) >= 1
    BY ExpectedPending DEF RunInv
  <2>3. Pending(f) \in Nat /\ Known(f, t)' \in {0, 1}
    BY RunsTyped DEF Known
  <2>4. QED
    BY <2>1, <2>2, <2>3 DEF Known
<1>5. CASE UNCHANGED <<runs, slips>>
  <2>1. \A f \in Fingerprint : slips'[f] \in Nat /\ slips[f] <= slips'[f] /\ Pending(f)' \in Nat
    BY <1>2, <1>5, RunsTyped
  <2>2. ASSUME NEW f \in Fingerprint, NEW t \in Int
        PROVE  /\ Known(f, t)' \in {0, 1}
               /\ Pending(f)' + slips[f] + Known(f, t) <= Pending(f) + slips'[f] + Known(f, t)'
    <3>1. slips[f] \in Nat /\ slips'[f] = slips[f] /\ Pending(f)' = 0
      BY <1>2, <1>5, RunsTyped
    <3>2. QED
      BY <3>1, <1>4
  <2>3. QED
    BY <2>1, <2>2, <1>1, <1>3, <1>5, RunsKept DEF RunInv
<1>6. CASE serving.kind = "dispatch" /\ EndsUnseen(serving.fingerprint)
  <2>1. serving \in DispatchRequest /\ serving.fingerprint \in Fingerprint
    BY <1>6, Kinds DEF Typed, DispatchRequest
  <2>2. runs' = [runs EXCEPT ![serving.fingerprint] = Append(@, now)]
        /\ slips' = [slips EXCEPT ![serving.fingerprint] = @ + 1]
    BY <1>6 DEF EndsUnseen
  <2>3. \A f \in Fingerprint : slips'[f] = IF f = serving.fingerprint THEN slips[f] + 1 ELSE slips[f]
    BY <2>1, <2>2 DEF Typed, AgentsTyped
  <2>4. \A f \in Fingerprint : slips'[f] \in Nat /\ slips[f] <= slips'[f] /\ Pending(f)' \in Nat
    BY <1>2, <2>3, RunsTyped
  <2>5. ASSUME NEW f \in Fingerprint, NEW t \in Int
        PROVE  /\ Known(f, t)' \in {0, 1}
               /\ Pending(f)' + slips[f] + Known(f, t) <= Pending(f) + slips'[f] + Known(f, t)'
               /\ f = serving.fingerprint /\ now >= t =>
                    Pending(f)' + slips[f] + Known(f, t) + 1 <= Pending(f) + slips'[f] + Known(f, t)'
    <3>1. slips[f] \in Nat /\ Pending(f)' = 0
      BY <1>2, RunsTyped
    <3>2. QED
      BY <3>1, <2>3, <1>4
  <2>6. QED
    BY <2>1, <2>2, <2>4, <2>5, <1>1, <1>3, RunsAdded DEF RunInv
<1>7. QED
  BY <1>5, <1>6 DEF BridgeCrash

\* An agent that ends, or outlasts the bridge's patience: a run is known from now
\* on, or slipped, and the dispatch it answers is not pending any more.
LEMMA AgentKeeps ==
  ASSUME Typed, RunInv, AgentSucceeds \/ AgentFails \/ AgentOutlasts
  PROVE  RunInv'
<1>1. /\ serving.kind = "dispatch" /\ now' = now /\ now \in Nat /\ backlog' = backlog
      /\ requests' = requests
  BY DEF AgentSucceeds, AgentFails, AgentOutlasts, Typed
<1>2. \E success \in {"yes", "no", "none"} : Answer(success)
  BY DEF AgentSucceeds, AgentFails, AgentOutlasts
<1>3. /\ serving \in DispatchRequest /\ serving.fingerprint \in Fingerprint
      /\ \A f \in Fingerprint : Pending(f)' = Pending(f) - (IF f = serving.fingerprint THEN 1 ELSE 0)
      /\ \A f \in Fingerprint, t \in Int :
           /\ Known(f, t)' >= Known(f, t) - (IF f = serving.fingerprint THEN 1 ELSE 0)
           /\ Known(f, t)' \in {0, 1}
      /\ Attended'
  BY <1>1, <1>2, AnswerEffect DEF RunInv, DispatchRequest
<1>4. ASSUME NEW f \in Fingerprint
      PROVE  Pending(f)' \in Nat /\ Pending(f) \in Nat /\ slips[f] \in Nat
  <2>1. Pending(f) \in Nat /\ Count(backlog, RequestsFor(f)) \in Nat /\ slips[f] \in Nat
    BY RunsTyped
  <2>2. f = serving.fingerprint => Pending(f) >= 1
    BY <1>3, <2>1 DEF Pending, RequestsFor
  <2>3. QED
    BY <1>3, <2>1, <2>2
<1>5. ASSUME NEW f \in Fingerprint, NEW t \in Int
      PROVE  Known(f, t) \in {0, 1}
  BY RunsTyped
<1>6. CASE AgentFails
  <2>1. runs' = runs /\ slips' = slips
    BY <1>6 DEF AgentFails
  <2>2. \A f \in Fingerprint : slips'[f] \in Nat /\ slips[f] <= slips'[f] /\ Pending(f)' \in Nat
    BY <1>4, <2>1
  <2>3. ASSUME NEW f \in Fingerprint, NEW t \in Int
        PROVE  /\ Known(f, t)' \in {0, 1}
               /\ Pending(f)' + slips[f] + Known(f, t) <= Pending(f) + slips'[f] + Known(f, t)'
    BY <1>3, <1>4, <1>5, <2>1
  <2>4. QED
    BY <1>1, <1>3, <2>1, <2>2, <2>3, RunsKept DEF RunInv
<1>7. CASE AgentSucceeds
  <2>1. slips' = slips /\ runs' = [runs EXCEPT ![serving.fingerprint] = Append(@, now)]
    BY <1>7 DEF AgentSucceeds
  <2>2. \A f \in Fingerprint : slips'[f] \in Nat /\ slips[f] <= slips'[f] /\ Pending(f)' \in Nat
    BY <1>4, <2>1
  <2>3. \A f \in Fingerprint, t \in Int : f = serving.fingerprint /\ now >= t => Known(f, t)' = 1
    BY <1>1, <1>7, AnswerEffect DEF AgentSucceeds, RunInv
  <2>4. ASSUME NEW f \in Fingerprint, NEW t \in Int
        PROVE  /\ Known(f, t)' \in {0, 1}
               /\ Pending(f)' + slips[f] + Known(f, t) <= Pending(f) + slips'[f] + Known(f, t)'
               /\ f = serving.fingerprint /\ now >= t =>
                    Pending(f)' + slips[f] + Known(f, t) + 1 <= Pending(f) + slips'[f] + Known(f, t)'
    BY <1>3, <1>4, <1>5, <2>1, <2>3, SMTT(60)
  <2>5. QED
    BY <1>1, <1>3, <2>1, <2>2, <2>4, RunsAdded DEF RunInv
<1>8. CASE AgentOutlasts
  <2>1. /\ runs' = [runs EXCEPT ![serving.fingerprint] = Append(@, now)]
        /\ \A f \in Fingerprint : slips'[f] = IF f = serving.fingerprint THEN slips[f] + 1 ELSE slips[f]
    BY <1>8 DEF AgentOutlasts, EndsUnseen, Typed, AgentsTyped
  <2>2. \A f \in Fingerprint : slips'[f] \in Nat /\ slips[f] <= slips'[f] /\ Pending(f)' \in Nat
    BY <1>4, <2>1
  <2>3. ASSUME NEW f \in Fingerprint, NEW t \in Int
        PROVE  /\ Known(f, t)' \in {0, 1}
               /\ Pending(f)' + slips[f] + Known(f, t) <= Pending(f) + slips'[f] + Known(f, t)'
               /\ f = serving.fingerprint /\ now >= t =>
                    Pending(f)' + slips[f] + Known(f, t) + 1 <= Pending(f) + slips'[f] + Known(f, t)'
    <3>1. f = serving.fingerprint => Pending(f)' = Pending(f) - 1 /\ slips'[f] = slips[f] + 1
      BY <1>3, <2>1
    <3>2. f # serving.fingerprint =>
            Pending(f)' = Pending(f) /\ slips'[f] = slips[f] /\ Known(f, t)' >= Known(f, t)
      BY <1>3, <1>4, <1>5, <2>1
    <3>3. QED
      BY <1>3, <1>4, <1>5, <3>1, <3>2
  <2>4. QED
    BY <1>1, <1>3, <2>1, <2>2, <2>3, RunsAdded DEF RunInv
<1>9. QED
  BY <1>6, <1>7, <1>8

LEMMA RunStep ==
  ASSUME Typed, RunInv, [Next]_vars
  PROVE  RunInv'
<1>0. now \in Nat /\ BridgeTyped
  BY DEF Typed
\* Steps of clocks and restarts.
<1>1. ASSUME now' \in Nat, now <= now', UNCHANGED agents, requests' = requests,
             \/ UNCHANGED <<backlog, serving>>
             \/ backlog' = backlog /\ serving.kind = "restart" /\ serving'.kind \in {"idle", "restart"}
      PROVE  RunInv'
  <2>1. \A r \in DispatchRequest : serving' = r <=> serving = r
    BY <1>1 DEF DispatchRequest
  <2>2. \A f \in Fingerprint : Pending(f)' = Pending(f)
    <3>1. \A f \in Fingerprint : serving' \in RequestsFor(f) <=> serving \in RequestsFor(f)
      BY <2>1 DEF RequestsFor
    <3>2. QED
      BY <3>1, <1>1 DEF Pending, RequestsFor
  <2>3. \A r \in DispatchRequest : Before(r)' <=> Before(r)
    BY <2>1, <1>1 DEF Before
  <2>4. QED
    BY <2>2, <2>3, <1>1, RunsQuiet DEF Typed
<1>2. CASE UNCHANGED vars
  BY <1>0, <1>1, <1>2 DEF vars, bridge
<1>3. CASE Tick
  BY <1>0, <1>1, <1>3 DEF Tick, bridge
<1>4. ASSUME NEW s \in Service, Beat(s)
      PROVE  RunInv'
  BY <1>0, <1>1, <1>4 DEF Beat, bridge
<1>5. ASSUME NEW s \in Service, AskRestart(s)
      PROVE  RunInv'
  <2> DEFINE new == [kind |-> "restart", service |-> s]
  <2>1. /\ new \in RestartRequest /\ backlog \in Seq(RestartRequest \cup DispatchRequest)
        /\ backlog' = Append(backlog, new) /\ serving' = serving
        /\ now' = now /\ UNCHANGED agents
    BY <1>0, <1>5 DEF AskRestart, RestartRequest, BridgeTyped
  <2>2. \A r \in DispatchRequest : r # new
    BY DEF DispatchRequest
  <2>3. \A f \in Fingerprint : Pending(f)' = Pending(f)
    <3>1. ASSUME NEW f \in Fingerprint
          PROVE  Count(Append(backlog, new), RequestsFor(f)) = Count(backlog, RequestsFor(f))
      <4>1. new \notin RequestsFor(f)
        BY <2>2 DEF RequestsFor
      <4>2. QED
        BY <4>1, <2>1, CountAppend
    <3>2. QED
      BY <3>1, <2>1 DEF Pending, RequestsFor
  <2>4. \A r \in DispatchRequest : Before(r)' <=> Before(r)
    <3>1. /\ \A i \in DOMAIN backlog : i \in DOMAIN backlog' /\ backlog'[i] = backlog[i]
          /\ \A i \in DOMAIN backlog' : i \in DOMAIN backlog \/ backlog'[i] = new
      BY <2>1
    <3>2. QED
      BY <3>1, <2>1, <2>2 DEF Before
  <2>5. now' \in Nat /\ now <= now' /\ requests' \in Nat /\ requests <= requests'
    BY <2>1, <1>5 DEF Typed, AskRestart, Request
  <2>6. QED
    BY <2>1, <2>3, <2>4, <2>5, RunsQuiet
<1>6. CASE Serve
  <2>1. now' = now /\ requests' = requests /\ requests \in Nat /\ UNCHANGED agents
    BY <1>6 DEF Serve, Typed
  <2>2. QED
    BY <2>1, <1>0, <1>6, ServeKeeps, RunsQuiet
<1>7. CASE RestartContainer \/ RestartUnanswered \/ RestartRefused \/ FinishRestart
  <2>1. serving.kind = "restart" /\ serving \in RestartUnderWay
    BY <1>0, <1>7, Kinds DEF RestartContainer, RestartUnanswered, RestartRefused, FinishRestart, Restarting
  <2>2. serving'.kind \in {"idle", "restart"}
    BY <1>7, <2>1 DEF RestartContainer, RestartUnanswered, RestartRefused, FinishRestart,
                      RestartUnderWay, Idle
  <2>3. now' = now /\ backlog' = backlog /\ requests' = requests /\ UNCHANGED agents
    BY <1>7 DEF RestartContainer, RestartUnanswered, RestartRefused, FinishRestart
  <2>4. QED
    BY <2>1, <2>2, <2>3, <1>0, <1>1
<1>8. CASE BridgeCrash
  BY <1>8, CrashKeeps
<1>9. ASSUME NEW n \in Notifier, NEW f \in Fingerprint, Suppress(n, f)
      PROVE  RunInv'
  <2>1. /\ now' = now /\ requests' = requests + 1 /\ requests \in Nat /\ runs' = runs /\ slips' = slips
        /\ UNCHANGED <<backlog, serving, notifier>>
        /\ telemetry' = Append(telemetry, Record(f, FALSE))
    BY <1>9 DEF Suppress, Request, bridge, Typed
  <2>2. telemetry' = telemetry \o <<Record(f, FALSE)>> /\ <<Record(f, FALSE)>> \in Seq(DispatchRecord)
    <3>1. Record(f, FALSE) \in DispatchRecord /\ telemetry \in Seq(DispatchRecord)
      BY <1>0, RecordTyped DEF Record, Typed, AgentsTyped
    <3>2. QED
      BY <2>1, <3>1, AppendIsConcat DEF Record
  <2>3. \A g \in Fingerprint : Pending(g)' = Pending(g)
    BY <2>1 DEF Pending, RequestsFor
  <2>4. ASSUME NEW g \in Fingerprint, NEW t \in Int
        PROVE  Known(g, t)' \in {0, 1} /\ Known(g, t) <= Known(g, t)'
    <3>1. Succeeded(g, t) => Succeeded(g, t)'
      BY <2>2, StillSucceeded
    <3>2. Expected(g)' <=> Expected(g)
      BY <2>1 DEF Expected, Waiting
    <3>3. QED
      BY <3>1, <3>2 DEF Known
  <2>5. RunsAccounted' /\ CooldownsKept'
    <3>1. \A g \in Fingerprint : slips'[g] \in Nat /\ slips[g] <= slips'[g] /\ Pending(g)' \in Nat
      BY <2>1, <2>3, RunsTyped
    <3>2. ASSUME NEW g \in Fingerprint, NEW t \in Int
          PROVE  /\ Known(g, t)' \in {0, 1}
                 /\ Pending(g)' + slips[g] + Known(g, t) <= Pending(g) + slips'[g] + Known(g, t)'
      <4>1. Known(g, t) \in {0, 1} /\ Pending(g) \in Nat /\ slips[g] \in Nat
        BY RunsTyped
      <4>2. QED
        BY <4>1, <2>1, <2>3, <2>4
    <3>3. QED
      BY <2>1, <1>0, <3>1, <3>2, RunsKept
  <2>6. Attended'
    <3>1. \A r \in DispatchRequest : r.id <= requests => r.id <= requests'
      BY <2>1 DEF DispatchRequest
    <3>2. QED
      BY <2>1, <3>1 DEF RunInv, Attended, Before, Waiting, WaitsFor
  <2>7. QED
    BY <2>5, <2>6 DEF RunInv
<1>10. ASSUME NEW n \in Notifier, NEW f \in Fingerprint, Dispatch(n, f)
       PROVE  RunInv'
  BY <1>10, DispatchKeeps
<1>11. ASSUME NEW n \in Notifier, GiveUp(n)
       PROVE  RunInv'
  <2> DEFINE r == Record(notifier[n].fingerprint, FALSE)
  <2>1. Waiting(n) /\ notifier[n].fingerprint \in Fingerprint
    BY <1>11, WaitingTyped DEF GiveUp, WaitingNotifier, Typed
  <2>2. r \in DispatchRecord /\ telemetry \in Seq(DispatchRecord)
    BY <1>0, <2>1, RecordTyped DEF Record, Typed, AgentsTyped
  <2>3. <<r>> \in Seq(DispatchRecord) /\ telemetry' = telemetry \o <<r>>
    BY <2>2, <1>11, AppendIsConcat DEF GiveUp, Record
  <2>4. QED
    BY <2>1, <2>3, <1>11, StopsWaiting DEF GiveUp
<1>12. ASSUME NEW n \in Notifier, NotifierCrash(n)
       PROVE  RunInv'
  <2>1. <<>> \in Seq(DispatchRecord) /\ telemetry' = telemetry \o <<>>
    BY <1>12 DEF NotifierCrash, Typed, AgentsTyped
  <2>2. QED
    BY <2>1, <1>12, StopsWaiting DEF NotifierCrash
<1>13. CASE AgentSucceeds \/ AgentFails \/ AgentOutlasts
  BY <1>13, AgentKeeps
<1>14. QED
  BY <1>2, <1>3, <1>4, <1>5, <1>6, <1>7, <1>8, <1>9, <1>10, <1>11, <1>12, <1>13 DEF Next

\* However dispatches are served late, answers lost, processes restarted and
\* records pushed out of sight, an agent runs for a fingerprint once in every
\* cooldown, but for runs that are accounted to one of these.
THEOREM OneRunInEveryCooldown == Spec => []OneRunPerCooldown
<1>1. Init => Typed /\ RunInv
  BY InitTyped, RunInit
<1>2. Typed /\ RunInv /\ [Next]_vars => Typed' /\ RunInv'
  BY StepTyped, RunStep
<1>3. RunInv => OneRunPerCooldown
  BY OpsAssumption DEF RunInv, CooldownsKept, OneRunPerCooldown
<1>4. QED
  BY <1>1, <1>2, <1>3, PTL DEF Spec

=============================================================================
