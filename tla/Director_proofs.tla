--------------------------- MODULE Director_proofs ---------------------------
(***************************************************************************)
(* Theorems about Director for any number of directors, callers, campaigns *)
(* and entries, in four parts: the types and the end of a director, what a *)
(* completed director's campaign did, how many launches are active, and    *)
(* what becomes of them when no caller interferes.                         *)
(***************************************************************************)
EXTENDS Director, FiniteSetTheorems, WellFoundedInduction, TLAPS

\* The first of some queue entries, or of some campaigns, is one of them.
LEMMA FirstIn ==
  ASSUME NEW S \in SUBSET Nat, S # {}
  PROVE  First(S) \in S
<1> DEFINE R == OpToRel(<, Nat)
<1>1. IsWellFoundedOn(R, Nat)
  BY NatLessThanWellFounded
<1> HIDE DEF R
<1>2. PICK e \in S : \A f \in S : <<f, e>> \notin R
  BY <1>1, WFMin
<1> USE DEF R
<1>3. \A f \in S : ~ (f < e)
  BY <1>2 DEF OpToRel
<1>4. \A f \in S : e <= f
  BY <1>3
<1>5. QED
  BY <1>4 DEF First


-----------------------------------------------------------------------------
(* Type correctness.                                                        *)

ProcRecord == [pc : PCs, d : DirectorId \cup {Nobody}, seen : Row,
               found : Campaign \cup {None}, entry : Entry \cup {None}]

CampaignRow == [status : CampaignStatuses, owner : DirectorId \cup {Nobody},
                launched : BOOLEAN, thawed : BOOLEAN, entry : Entry \cup {None}]

LEMMA TypeParts ==
  TypeOK <=>
    /\ director \in [DirectorId -> Row]
    /\ campaign \in [Campaign -> CampaignRow]
    /\ aged \in [DirectorId -> BOOLEAN]
    /\ halted \in BOOLEAN
    /\ proc \in [Process -> ProcRecord]
    /\ ops \in 0 .. MaxOps /\ crashes \in 0 .. MaxFaults /\ late \in 0 .. MaxFaults
BY DEF TypeOK, ProcRecord, CampaignRow

\* The types hold after a step when each variable is kept or of its type.
LEMMA TypeKept ==
  ASSUME TypeOK,
         director' = director \/ director' \in [DirectorId -> Row],
         campaign' = campaign \/ campaign' \in [Campaign -> CampaignRow],
         aged' = aged \/ aged' \in [DirectorId -> BOOLEAN],
         halted' = halted \/ halted' \in BOOLEAN,
         proc' = proc \/ proc' \in [Process -> ProcRecord],
         ops' = ops \/ ops' \in 0 .. MaxOps,
         crashes' = crashes \/ crashes' \in 0 .. MaxFaults,
         late' = late \/ late' \in 0 .. MaxFaults
  PROVE  TypeOK'
BY DEF TypeOK, ProcRecord, CampaignRow

LEMMA FreshTyped == Absent \in Row /\ Idle \in ProcRecord
BY DEF Absent, FreshState, Row, State, Idle, ProcRecord, PCs, DirectorStatuses,
       EntryStatuses

\* A process that goes on or returns is still of its type.
LEMMA GoTyped ==
  ASSUME TypeOK, NEW p \in Process, NEW pc \in PCs, Go(p, pc) \/ Return(p)
  PROVE  proc' \in [Process -> ProcRecord]
<1>1. CASE Go(p, pc)
  BY <1>1, TypeParts DEF Go, ProcRecord
<1>2. CASE Return(p)
  BY <1>2, TypeParts, FreshTyped DEF Return
<1>3. QED
  BY <1>1, <1>2

\* ... and so is one that notes what it found, chose or read.
LEMMA NoteTyped ==
  ASSUME proc \in [Process -> ProcRecord], NEW p \in Process, NEW pc \in PCs,
         \/ \E c \in Campaign \cup {None} : proc' = [proc EXCEPT ![p].pc = pc, ![p].found = c]
         \/ \E e \in Entry \cup {None} : proc' = [proc EXCEPT ![p].pc = pc, ![p].entry = e]
         \/ \E r \in Row : proc' = [proc EXCEPT ![p].pc = pc, ![p].seen = r]
  PROVE  proc' \in [Process -> ProcRecord]
<1> DEFINE mid == [proc EXCEPT ![p].pc = pc]
<1>1. mid \in [Process -> ProcRecord]
  BY DEF ProcRecord
<1>2. \/ \E c \in Campaign \cup {None} : proc' = [mid EXCEPT ![p].found = c]
      \/ \E e \in Entry \cup {None} : proc' = [mid EXCEPT ![p].entry = e]
      \/ \E r \in Row : proc' = [mid EXCEPT ![p].seen = r]
  OBVIOUS
<1> HIDE DEF mid
<1>3. ASSUME NEW c \in Campaign \cup {None}, proc' = [mid EXCEPT ![p].found = c]
      PROVE  proc' \in [Process -> ProcRecord]
  BY <1>1, <1>3, ZenonT(60) DEF ProcRecord
<1>4. ASSUME NEW e \in Entry \cup {None}, proc' = [mid EXCEPT ![p].entry = e]
      PROVE  proc' \in [Process -> ProcRecord]
  BY <1>1, <1>4, ZenonT(60) DEF ProcRecord
<1>5. ASSUME NEW r \in Row, proc' = [mid EXCEPT ![p].seen = r]
      PROVE  proc' \in [Process -> ProcRecord]
  BY <1>1, <1>5, ZenonT(60) DEF ProcRecord
<1>6. QED
  BY <1>2, <1>3, <1>4, <1>5

\* The writes of a row keep its type when they are given parts of the right type.
LEMMA WritesTyped ==
  ASSUME TypeOK, NEW d, NEW seen \in Row, NEW state \in State,
         NEW current \in Campaign \cup {None},
         NEW status \in {"completed", "exhausted", "failed", "stopped"},
         \/ UpdateState(d, state, current) /\ UNCHANGED halted
         \/ Finish(d, seen, status)
  PROVE  /\ director' \in [DirectorId -> Row]
         /\ halted' \in BOOLEAN
<1>1. CASE UpdateState(d, state, current) /\ UNCHANGED halted
  BY <1>1, TypeParts DEF UpdateState, Row
<1>2. CASE Finish(d, seen, status)
  <2>1. [status |-> status, current |-> None, state |-> seen.state] \in Row
    BY DEF Row, DirectorStatuses, Terminal
  <2>2. director' \in [DirectorId -> Row]
    BY <1>2, <2>1, TypeParts DEF Finish
  <2>3. halted' = halted \/ halted' = (status \in Halts)
    BY <1>2, Zenon DEF Finish
  <2>4. halted' \in BOOLEAN
    <3>1. halted \in BOOLEAN /\ (status \in Halts) \in BOOLEAN
      BY TypeParts
    <3>2. QED
      BY <2>3, <3>1, Zenon
  <2>5. QED
    BY <2>2, <2>4
<1>3. QED
  BY <1>1, <1>2

\* A row with another status, and the state of a copy.
LEMMA StatusTyped ==
  ASSUME TypeOK, NEW d, NEW status \in DirectorStatuses, NEW state \in State
  PROVE  [director EXCEPT ![d].status = status, ![d].state = state] \in [DirectorId -> Row]
<1> DEFINE mid == [director EXCEPT ![d].status = status]
<1>1. mid \in [DirectorId -> Row]
  BY TypeParts DEF Row
<1> HIDE DEF mid
<1>2. [mid EXCEPT ![d].state = state] \in [DirectorId -> Row]
  BY <1>1 DEF Row
<1>3. QED
  BY <1>2 DEF mid

\* The campaigns of the start: no director owns or launched one.
LEMMA CampaignsInit ==
  ASSUME Init
  PROVE  /\ campaign \in [Campaign -> CampaignRow]
         /\ \A c \in Campaign :
              /\ campaign[c].owner = Nobody /\ campaign[c].launched = FALSE
              /\ campaign[c].status # "absent" => campaign[c].entry \in Entry
<1> DEFINE Row1(of, n, c) ==
      IF c <= n
      THEN [status |-> "running", owner |-> Nobody, launched |-> FALSE, thawed |-> FALSE,
            entry |-> of[c]]
      ELSE [status |-> "absent", owner |-> Nobody, launched |-> FALSE, thawed |-> FALSE,
            entry |-> None]
<1>0. PICK n \in 0 .. MaxUnowned : \E of \in [1 .. n -> Entry] :
        campaign = [c \in Campaign |-> Row1(of, n, c)]
  BY DEF Init
<1>1. PICK of \in [1 .. n -> Entry] : campaign = [c \in Campaign |-> Row1(of, n, c)]
  BY <1>0
<1>2. \A c \in Campaign : c <= n => of[c] \in Entry
  <2>1. \A c \in Campaign : c <= n => c \in 1 .. n
    BY DirectorAssumption DEF Campaign
  <2>2. QED
    BY <1>1, <2>1
<1>3. \A c \in Campaign : Row1(of, n, c) \in CampaignRow
  BY <1>2 DEF CampaignRow, CampaignStatuses
<1>4. \A c \in Campaign :
        /\ Row1(of, n, c).owner = Nobody /\ Row1(of, n, c).launched = FALSE
        /\ Row1(of, n, c).status # "absent" => Row1(of, n, c).entry \in Entry
  BY <1>2
<1> HIDE DEF Row1
<1>5. QED
  BY <1>1, <1>3, <1>4

LEMMA TypeInit == Init => TypeOK
<1> SUFFICES ASSUME Init PROVE TypeOK
  OBVIOUS
<1>1. campaign \in [Campaign -> CampaignRow]
  BY CampaignsInit
<1>2. ops \in 0 .. MaxOps /\ crashes \in 0 .. MaxFaults /\ late \in 0 .. MaxFaults
  BY DirectorAssumption DEF Init
<1>3. QED
  BY <1>1, <1>2, FreshTyped, TypeParts DEF Init

\* Whoever is not idle works on a director.
Working == \A p \in Process : proc[p].pc # "idle" => proc[p].d \in DirectorId

\* A step of a director keeps the types.
LEMMA StepTyped ==
  ASSUME TypeOK, Working, NEW p \in Process, StepActions(p)
  PROVE  TypeOK'
<1> DEFINE q == proc[p]
<1>0. /\ q \in ProcRecord /\ q.seen \in Row /\ q.seen.state \in State
      /\ q.found \in Campaign \cup {None} /\ q.entry \in Entry \cup {None}
  BY TypeParts DEF ProcRecord, Row
<1>t. /\ \A d \in DirectorId : director[d] \in Row
      /\ Entry \in SUBSET Nat /\ Campaign \in SUBSET Nat
      /\ \A e, st : st \in State => Pending(st.queue) \in SUBSET Entry
  BY TypeParts DEF Entry, Campaign, Pending
<1>1. ASSUME NEW d \in DirectorId, ReadRow(p, d) PROVE TypeOK'
  <2>1. ops' \in 0 .. MaxOps
    BY <1>1, TypeParts, DirectorAssumption DEF ReadRow
  <2>2. [Idle EXCEPT !.pc = "row", !.d = d, !.seen = director[d]] \in ProcRecord
    BY <1>t, FreshTyped DEF ProcRecord, PCs
  <2>3. proc' \in [Process -> ProcRecord]
    BY <1>1, <2>2, TypeParts, FreshTyped DEF ReadRow, Return
  <2>4. QED
    BY <1>1, <2>1, <2>3, TypeKept DEF ReadRow
<1>2. CASE InsertDirector(p)
  <2>1. proc' \in [Process -> ProcRecord]
    BY <1>2, GoTyped DEF InsertDirector, PCs
  <2>2. director' \in [DirectorId -> Row]
    BY <1>2, TypeParts DEF InsertDirector, Row, DirectorStatuses
  <2>3. QED
    BY <1>2, <2>1, <2>2, TypeKept DEF InsertDirector
<1>3. CASE Wait(p)
  BY <1>3, GoTyped, TypeKept DEF Wait, PCs
<1>4. CASE Outcome(p)
  <2>1. Return(p) /\ UNCHANGED <<campaign, aged, ops, crashes, late>>
    BY <1>4 DEF Outcome, OutcomeOf
  <2>2. [q.seen.state EXCEPT !.active = None] \in State
    BY <1>0 DEF State
  <2>3. \/ UpdateState(q.d, [q.seen.state EXCEPT !.active = None], None) /\ UNCHANGED halted
        \/ \E st \in {"completed", "stopped", "failed"} : Finish(q.d, q.seen, st)
    BY <1>4 DEF Outcome, OutcomeOf
  <2>4. /\ director' \in [DirectorId -> Row]
        /\ halted' \in BOOLEAN
    BY <2>2, <2>3, <1>0, WritesTyped
  <2>5. QED
    BY <2>1, <2>4, GoTyped, TypeKept DEF PCs
<1>5. CASE Look(p)
  <2>1. \/ Go(p, "handler")
        \/ \E c \in Campaign \cup {None} :
             proc' = [proc EXCEPT ![p].pc = "looked", ![p].found = c]
    BY <1>5 DEF Look, Launched, Adoptable, Unowned, ActiveOf
  <2>2. proc' \in [Process -> ProcRecord]
    <3>1. CASE Go(p, "handler")
      BY <3>1, GoTyped DEF PCs
    <3>2. CASE \E c \in Campaign \cup {None} :
                 proc' = [proc EXCEPT ![p].pc = "looked", ![p].found = c]
      BY <3>2, TypeParts, NoteTyped DEF PCs
    <3>3. QED
      BY <2>1, <3>1, <3>2
  <2>3. QED
    BY <1>5, <2>2, TypeKept DEF Look
<1>6. CASE AdoptLaunched(p)
  <2>1. [q.seen.state EXCEPT !.queue[q.seen.state.claim] = "running",
                             !.active = q.found, !.claim = None] \in State
    BY <1>0 DEF State, EntryStatuses
  <2>2. director' \in [DirectorId -> Row]
    BY <1>0, <1>6, <2>1, WritesTyped DEF AdoptLaunched
  <2>3. QED
    BY <1>6, <2>2, GoTyped, TypeKept DEF AdoptLaunched, PCs
<1>7. CASE LaunchInProgress(p)
  BY <1>7, GoTyped, TypeKept DEF LaunchInProgress, PCs
<1>8. CASE TakeNext(p)
  <2> DEFINE state == Reset(q.seen.state)
             e == First(Pending(state.queue))
             found == IF q.seen.state.claim = None THEN {q.found} \ {None}
                      ELSE IF Adopts THEN Adoptable(e) ELSE {}
  <2>1. state \in State
    BY <1>0 DEF Reset, State, EntryStatuses
  <2>2. Pending(state.queue) # {} => e \in Entry
    BY <1>t, <2>1, FirstIn
  <2>3. found \subseteq Campaign
    BY <1>0 DEF Adoptable, Unowned
  <2>4. \/ /\ Finish(q.d, q.seen, "exhausted") /\ Return(p)
           /\ UNCHANGED <<campaign, aged>>
        \/ \E c \in found :
             /\ Pending(state.queue) # {}
             /\ UpdateState(q.d, [state EXCEPT !.queue[e] = "running", !.active = c], c)
             /\ campaign' = [campaign EXCEPT ![c].owner = q.d]
             /\ Return(p) /\ UNCHANGED <<aged, halted>>
        \/ /\ Pending(state.queue) # {}
           /\ UpdateState(q.d, [state EXCEPT !.queue[e] = "launching", !.claim = e], None)
           /\ aged' = [aged EXCEPT ![q.d] = FALSE]
           /\ proc' = [proc EXCEPT ![p].pc = "start", ![p].entry = e]
           /\ UNCHANGED <<campaign, halted>>
    BY <1>8 DEF TakeNext
  <2>5. UNCHANGED <<ops, crashes, late>>
    BY <1>8 DEF TakeNext
  <2> HIDE DEF e, found, state
  <2>6. CASE Finish(q.d, q.seen, "exhausted") /\ Return(p) /\ UNCHANGED <<campaign, aged>>
    BY <1>0, <2>5, <2>6, WritesTyped, GoTyped, TypeKept DEF PCs
  <2>7. ASSUME NEW c \in found, Pending(state.queue) # {},
               UpdateState(q.d, [state EXCEPT !.queue[e] = "running", !.active = c], c),
               campaign' = [campaign EXCEPT ![c].owner = q.d],
               Return(p), UNCHANGED <<aged, halted>>
        PROVE  TypeOK'
    <3>1. [state EXCEPT !.queue[e] = "running", !.active = c] \in State
      BY <2>1, <2>3 DEF State, EntryStatuses
    <3>2. director' \in [DirectorId -> Row]
      BY <1>0, <2>3, <2>7, <3>1, WritesTyped
    <3>3. campaign' \in [Campaign -> CampaignRow]
      BY <1>0, <2>7, TypeParts, ZenonT(60) DEF CampaignRow, ProcRecord
    <3>4. QED
      BY <2>5, <2>7, <3>2, <3>3, GoTyped, TypeKept DEF PCs
  <2>8. CASE /\ Pending(state.queue) # {}
             /\ UpdateState(q.d, [state EXCEPT !.queue[e] = "launching", !.claim = e], None)
             /\ aged' = [aged EXCEPT ![q.d] = FALSE]
             /\ proc' = [proc EXCEPT ![p].pc = "start", ![p].entry = e]
             /\ UNCHANGED <<campaign, halted>>
    <3>1. [state EXCEPT !.queue[e] = "launching", !.claim = e] \in State
      BY <2>1, <2>2, <2>8 DEF State, EntryStatuses
    <3>2. director' \in [DirectorId -> Row]
      BY <1>0, <2>8, <3>1, WritesTyped
    <3>3. proc' \in [Process -> ProcRecord]
      BY <2>2, <2>8, TypeParts, NoteTyped DEF PCs
    <3>4. aged' \in [DirectorId -> BOOLEAN]
      BY <2>8, TypeParts
    <3>5. QED
      BY <2>5, <2>8, <3>2, <3>3, <3>4, TypeKept
  <2>9. QED
    BY <2>4, <2>6, <2>7, <2>8
<1>9. CASE StartCampaign(p)
  <2>1. \/ Go(p, "handler") \/ Go(p, "insert")
        \/ \E c \in Campaign : proc' = [proc EXCEPT ![p].pc = "again", ![p].found = c]
    BY <1>9 DEF StartCampaign, Launched, ActiveOf
  <2>3. proc' \in [Process -> ProcRecord]
    BY <2>1, GoTyped, NoteTyped, TypeParts DEF PCs
  <2>4. QED
    BY <1>9, <2>3, TypeKept DEF StartCampaign
<1>10. CASE InsertCampaign(p)
  <2> DEFINE free == {c \in Campaign : campaign[c].status = "absent"}
             c == First(free)
  <2>1. c \in Campaign
    <3>1. free # {} /\ free \in SUBSET Nat
      BY <1>10, <1>t DEF InsertCampaign
    <3>2. QED
      BY <3>1, FirstIn
  <2>2. campaign' = [campaign EXCEPT ![c] = [status |-> "running", owner |-> q.d,
                                             launched |-> TRUE, thawed |-> FALSE, entry |-> q.entry]]
    BY <1>10 DEF InsertCampaign
  <2>3. \/ proc' = [proc EXCEPT ![p].pc = "again", ![p].found = c] /\ UNCHANGED crashes
        \/ crashes + late < MaxFaults /\ crashes' = crashes + 1 /\ Go(p, "handler")
    BY <1>10 DEF InsertCampaign
  <2> HIDE DEF c
  <2>4. [status |-> "running", owner |-> q.d, launched |-> TRUE, thawed |-> FALSE,
         entry |-> q.entry] \in CampaignRow
    BY <1>0 DEF CampaignRow, ProcRecord, CampaignStatuses
  <2>5. campaign' \in [Campaign -> CampaignRow]
    BY <2>2, <2>4, TypeParts
  <2>6. crashes' \in 0 .. MaxFaults
    BY <2>3, TypeParts, DirectorAssumption
  <2>7. proc' \in [Process -> ProcRecord]
    <3>1. CASE proc' = [proc EXCEPT ![p].pc = "again", ![p].found = c]
      BY <2>1, <3>1, TypeParts, NoteTyped DEF PCs
    <3>2. QED
      BY <2>3, <3>1, GoTyped DEF PCs
  <2>8. QED
    BY <1>10, <2>5, <2>6, <2>7, TypeKept DEF InsertCampaign
<1>11. CASE ReadAgain(p)
  <2>1. director[q.d] \in Row
    BY <1>11, <1>t DEF ReadAgain, Working
  <2>2. proc' \in [Process -> ProcRecord]
    BY <1>11, <2>1, TypeParts, NoteTyped DEF ReadAgain, PCs
  <2>3. QED
    BY <1>11, <2>2, TypeKept DEF ReadAgain
<1>12. CASE Record(p)
  <2>1. [q.seen.state EXCEPT !.queue[q.entry] = "running",
                             !.active = q.found, !.claim = None] \in State
    BY <1>0 DEF State, EntryStatuses
  <2>2. director' \in [DirectorId -> Row]
    BY <1>0, <1>12, <2>1, WritesTyped DEF Record
  <2>3. QED
    BY <1>12, <2>2, GoTyped, TypeKept DEF Record, PCs
<1>13. CASE ReadToFail(p)
  <2>1. director[q.d] \in Row
    BY <1>13, <1>t DEF ReadToFail, Working
  <2>2. proc' \in [Process -> ProcRecord]
    BY <1>13, <2>1, TypeParts, NoteTyped, GoTyped DEF ReadToFail, PCs
  <2>3. QED
    BY <1>13, <2>2, TypeKept DEF ReadToFail
<1>14. CASE Fail(p)
  <2>1. director' \in [DirectorId -> Row]
    BY <1>0, <1>14, TypeParts, StatusTyped DEF Fail, DirectorStatuses, Terminal
  <2>2. QED
    BY <1>14, <2>1, GoTyped, TypeKept DEF Fail, PCs
<1>15. QED
  BY <1>1, <1>2, <1>3, <1>4, <1>5, <1>6, <1>7, <1>8, <1>9, <1>10, <1>11, <1>12, <1>13, <1>14
     DEF StepActions

\* A campaign with another status is still a row.
LEMMA OverwriteTyped ==
  ASSUME TypeOK, NEW c, NEW status \in {"running"} \cup EndStatuses, Overwrite(c, status)
  PROVE  campaign' \in [Campaign -> CampaignRow]
<1> DEFINE t == IF campaign[c].status = "frozen" THEN TRUE ELSE campaign[c].thawed
           new == [campaign[c] EXCEPT !.status = status, !.thawed = t]
<1>1. CASE c \in Campaign
  <2>1. campaign[c] \in CampaignRow /\ campaign \in [Campaign -> CampaignRow]
    BY <1>1, TypeParts
  <2>2. t \in BOOLEAN
    BY <2>1 DEF CampaignRow
  <2> HIDE DEF t
  <2>3. new \in CampaignRow
    BY <2>1, <2>2 DEF CampaignRow, CampaignStatuses
  <2>4. campaign' = [campaign EXCEPT ![c] = new]
    BY <1>1, <2>1 DEF Overwrite, t
  <2> HIDE DEF new
  <2>5. QED
    BY <2>1, <2>3, <2>4
<1>2. CASE c \notin Campaign
  <2>1. campaign' = campaign
    BY <1>2, TypeParts DEF Overwrite
  <2>2. QED
    BY <2>1, TypeParts
<1>3. QED
  BY <1>1, <1>2

\* Stop, pause, resume and skip keep the types.
LEMMA ControlTyped ==
  ASSUME TypeOK, Working, NEW p \in Process, ControlActions(p)
  PROVE  TypeOK'
<1> DEFINE q == proc[p]
<1>0. /\ q \in ProcRecord /\ q.seen \in Row /\ q.seen.state \in State
  BY TypeParts DEF ProcRecord, Row
<1>1. CASE Stop(p)
  <2>1. director' \in [DirectorId -> Row]
    BY <1>0, <1>1, TypeParts, StatusTyped DEF Stop, DirectorStatuses, Terminal
  <2>2. proc' \in [Process -> ProcRecord]
    BY <1>1, GoTyped DEF Stop, PCs
  <2>3. QED
    BY <1>1, <2>1, <2>2, TypeKept DEF Stop
<1>2. CASE StopCampaign(p)
  BY <1>2, GoTyped, TypeKept DEF StopCampaign, PCs
<1>7. CASE EndCampaign(p)
  <2>1. campaign' \in [Campaign -> CampaignRow]
    BY <1>7, OverwriteTyped DEF EndCampaign, EndStatuses
  <2>2. halted' \in BOOLEAN
    BY <1>7, TypeParts DEF EndCampaign
  <2>3. QED
    BY <1>7, <2>1, <2>2, GoTyped, TypeKept DEF EndCampaign, PCs
<1>3. CASE Pause(p)
  <2>1. director' \in [DirectorId -> Row]
    BY <1>0, <1>3, TypeParts, StatusTyped DEF Pause, DirectorStatuses
  <2>2. QED
    BY <1>3, <2>1, GoTyped, TypeKept DEF Pause, PCs
<1>4. CASE Resume(p)
  <2>1. director' \in [DirectorId -> Row]
    BY <1>0, <1>4, TypeParts, StatusTyped DEF Resume, DirectorStatuses
  <2>2. QED
    BY <1>4, <2>1, GoTyped, TypeKept DEF Resume, PCs
<1>5. CASE Skip(p)
  <2> DEFINE state == [q.seen.state EXCEPT
                         !.queue[First(Pending(q.seen.state.queue))] = "skipped"]
  <2>1. state \in State
    BY <1>0 DEF State, EntryStatuses
  <2>2. director' = [director EXCEPT ![q.d].state = state]
    BY <1>5 DEF Skip
  <2>3. director' \in [DirectorId -> Row]
    BY <2>1, <2>2, TypeParts DEF Row
  <2>4. proc' \in [Process -> ProcRecord]
    BY <1>5, GoTyped DEF Skip, PCs
  <2>5. QED
    BY <1>5, <2>3, <2>4, TypeKept DEF Skip
<1>6. QED
  BY <1>1, <1>2, <1>3, <1>4, <1>5, <1>7 DEF ControlActions

LEMMA TypeStep ==
  ASSUME TypeOK, Working, [Next]_vars
  PROVE  TypeOK'
<1>t. \A d \in DirectorId : director[d] \in Row
  BY TypeParts
<1>1. ASSUME NEW p \in Process, LaunchRaises(p) \/ Crash(p) PROVE TypeOK'
  <2>1. crashes' \in 0 .. MaxFaults
    BY <1>1, TypeParts, DirectorAssumption DEF LaunchRaises, Crash
  <2>2. proc' \in [Process -> ProcRecord]
    BY <1>1, GoTyped DEF LaunchRaises, Crash, PCs
  <2>3. QED
    BY <1>1, <2>1, <2>2, TypeKept DEF LaunchRaises, Crash
<1>2. ASSUME NEW d \in DirectorId, AutoStart(d) PROVE TypeOK'
  <2>1. [Idle EXCEPT !.pc = "checked", !.d = d] \in ProcRecord
    BY FreshTyped DEF ProcRecord, PCs
  <2>2. QED
    BY <1>2, <2>1, TypeParts, TypeKept DEF AutoStart
<1>3. ASSUME NEW d \in DirectorId, ClaimAges(d) PROVE TypeOK'
  <2>1. aged' \in [DirectorId -> BOOLEAN]
    BY <1>3, TypeParts DEF ClaimAges
  <2>2. QED
    BY <1>3, <2>1, TypeKept DEF ClaimAges
<1>4. ASSUME NEW p \in Caller, NEW d \in DirectorId, CheckDuplicate(p, d) PROVE TypeOK'
  <2>1. [Idle EXCEPT !.pc = "checked", !.d = d] \in ProcRecord
    BY FreshTyped DEF ProcRecord, PCs
  <2>2. ops' \in 0 .. MaxOps
    BY <1>4, TypeParts, DirectorAssumption DEF CheckDuplicate
  <2>3. QED
    BY <1>4, <2>1, <2>2, TypeParts, TypeKept DEF CheckDuplicate
<1>5. ASSUME NEW p \in Caller, NEW d \in DirectorId,
             NEW act \in {"stop", "pause", "resume", "skip"}, ReadForControl(p, d, act)
      PROVE  TypeOK'
  <2>1. [Idle EXCEPT !.pc = act, !.d = d, !.seen = director[d]] \in ProcRecord
    BY <1>t, FreshTyped DEF ProcRecord, PCs
  <2>2. ops' \in 0 .. MaxOps
    BY <1>5, TypeParts, DirectorAssumption DEF ReadForControl
  <2>3. proc' \in [Process -> ProcRecord]
    BY <1>5, <2>1, TypeParts DEF ReadForControl
  <2>4. QED
    BY <1>5, <2>2, <2>3, TypeKept DEF ReadForControl
<1>6. ASSUME NEW c \in Campaign, CampaignEnds(c) PROVE TypeOK'
  <2>1. PICK status \in EndStatuses :
          /\ campaign' = [campaign EXCEPT ![c].status = status]
          /\ halted' = IF status = "frozen" THEN halted ELSE status \in Halts
    BY <1>6, DirectorAssumption DEF CampaignEnds
  <2>2. campaign' \in [Campaign -> CampaignRow]
    BY <2>1, TypeParts DEF CampaignRow, CampaignStatuses
  <2>3. halted' \in BOOLEAN
    <3>1. halted' = halted \/ halted' = (status \in Halts)
      BY <2>1, Zenon
    <3>2. halted \in BOOLEAN /\ (status \in Halts) \in BOOLEAN
      BY TypeParts
    <3>3. QED
      BY <3>1, <3>2, Zenon
  <2>4. QED
    BY <1>6, <2>2, <2>3, TypeKept DEF CampaignEnds
<1>9. ASSUME NEW c \in Campaign, CampaignOverwritten(c) PROVE TypeOK'
  <2>1. campaign' \in [Campaign -> CampaignRow]
    BY <1>9, OverwriteTyped, DirectorAssumption DEF CampaignOverwritten
  <2>2. late' \in 0 .. MaxFaults
    BY <1>9, TypeParts, DirectorAssumption DEF CampaignOverwritten
  <2>3. QED
    BY <1>9, <2>1, <2>2, TypeKept DEF CampaignOverwritten
<1>7. CASE UNCHANGED vars
  BY <1>7, TypeKept DEF vars
<1>8. QED
  BY <1>1, <1>2, <1>3, <1>4, <1>5, <1>6, <1>7, <1>9, StepTyped, ControlTyped DEF Next

-----------------------------------------------------------------------------
(* How processes move.                                                      *)

Controlling == {"stop", "stopCampaign", "stopping", "pause", "resume", "skip"}

\* A process has taken up a new director, ...
TakesUp(r) ==
  /\ proc'[r].pc = "checked" /\ proc'[r].d \in DirectorId /\ NewId(proc'[r].d)
  /\ UNCHANGED director
  /\ \A s \in Process \ {r} : proc'[s] = proc[s]

\* ... has read the row of one, ...
Reads(r) ==
  /\ proc'[r].pc \in {"row", "stop", "pause", "resume", "skip"}
  /\ proc'[r].pc # "row" => r \in Caller
  /\ proc'[r].d \in DirectorId /\ director[proc'[r].d].status # "absent"
  /\ UNCHANGED director

\* ... has inserted it, or goes on with it.
Inserts(r) ==
  /\ proc[r].pc = "checked" /\ proc'[r].pc = "step" /\ proc'[r].d = proc[r].d
  /\ director' = [director EXCEPT ![proc[r].d].status = "running"]

GoesOn(r) ==
  /\ proc[r].pc \notin {"idle", "checked"} /\ proc'[r].pc \notin {"idle", "checked"}
  /\ proc'[r].d = proc[r].d
  /\ proc'[r].pc \in Controlling => proc[r].pc \in Controlling

Moves(r) ==
  \/ proc'[r] = proc[r] \/ proc'[r].pc = "idle"
  \/ TakesUp(r) \/ Reads(r) \/ Inserts(r) \/ GoesOn(r)

LEMMA StepMoves ==
  ASSUME TypeOK, NEW p \in Process, StepActions(p)
  PROVE  Moves(p) /\ \A s \in Process \ {p} : proc'[s] = proc[s]
<1>t. proc \in [Process -> ProcRecord] /\ proc[p] \in ProcRecord
  BY TypeParts
<1> USE DEF Moves, GoesOn, Inserts, Controlling, ProcRecord
<1>1. ASSUME NEW d \in DirectorId, ReadRow(p, d)
      PROVE  Moves(p) /\ \A s \in Process \ {p} : proc'[s] = proc[s]
  <2>1. CASE IsActive(d)
    <3>1. proc' = [proc EXCEPT ![p] = [Idle EXCEPT !.pc = "row", !.d = d, !.seen = director[d]]]
      BY <1>1, <2>1 DEF ReadRow
    <3>2. UNCHANGED director /\ director[d].status # "absent"
      BY <1>1, <2>1 DEF ReadRow, IsActive
    <3>3. proc'[p].pc = "row" /\ proc'[p].d = d
      BY <3>1, <1>t DEF Idle
    <3>4. Reads(p)
      BY <3>2, <3>3 DEF Reads
    <3>5. QED
      BY <3>1, <3>4, <1>t
  <2>2. CASE ~IsActive(d)
    BY <1>1, <2>2, <1>t DEF ReadRow, Return, Idle
  <2>3. QED
    BY <2>1, <2>2
<1>2. CASE InsertDirector(p)
  BY <1>2, <1>t DEF InsertDirector, Go
<1>3. CASE Wait(p)
  BY <1>3, <1>t DEF Wait, Return, Idle
<1>4. CASE Outcome(p)
  <2>1. Return(p)
    BY <1>4 DEF Outcome, OutcomeOf
  <2>2. QED
    BY <2>1, <1>t DEF Return, Idle
<1>5. CASE Look(p)
  <2>1. proc[p].pc = "row"
    BY <1>5 DEF Look
  <2>2. \/ Go(p, "handler")
        \/ \E c : proc' = [proc EXCEPT ![p].pc = "looked", ![p].found = c]
    BY <1>5 DEF Look
  <2>3. QED
    BY <2>1, <2>2, <1>t DEF Go
<1>6. CASE AdoptLaunched(p)
  BY <1>6, <1>t DEF AdoptLaunched, Return, Idle
<1>7. CASE LaunchInProgress(p)
  BY <1>7, <1>t DEF LaunchInProgress, Return, Idle
<1>8. CASE TakeNext(p)
  <2>1. proc[p].pc = "looked"
    BY <1>8 DEF TakeNext
  <2>2. \/ Return(p)
        \/ \E e : proc' = [proc EXCEPT ![p].pc = "start", ![p].entry = e]
    BY <1>8 DEF TakeNext
  <2>3. QED
    BY <2>1, <2>2, <1>t DEF Return, Idle
<1>9. CASE StartCampaign(p)
  BY <1>9, <1>t DEF StartCampaign, Go
<1>10. CASE InsertCampaign(p)
  <2>1. proc[p].pc = "insert"
    BY <1>10 DEF InsertCampaign
  <2>2. \/ Go(p, "handler")
        \/ \E c : proc' = [proc EXCEPT ![p].pc = "again", ![p].found = c]
    BY <1>10 DEF InsertCampaign
  <2>3. QED
    BY <2>1, <2>2, <1>t DEF Go
<1>11. CASE ReadAgain(p)
  BY <1>11, <1>t DEF ReadAgain
<1>12. CASE Record(p)
  BY <1>12, <1>t DEF Record, Return, Idle
<1>13. CASE ReadToFail(p)
  BY <1>13, <1>t DEF ReadToFail, Return, Idle
<1>14. CASE Fail(p)
  BY <1>14, <1>t DEF Fail, Return, Idle
<1>15. QED
  BY <1>1, <1>2, <1>3, <1>4, <1>5, <1>6, <1>7, <1>8, <1>9, <1>10, <1>11, <1>12, <1>13, <1>14 DEF StepActions

LEMMA ControlMoves ==
  ASSUME TypeOK, NEW p \in Process, ControlActions(p)
  PROVE  Moves(p) /\ \A s \in Process \ {p} : proc'[s] = proc[s]
<1>t. proc \in [Process -> ProcRecord] /\ proc[p] \in ProcRecord
  BY TypeParts
<1> USE DEF Moves, GoesOn, Controlling, ProcRecord
<1>1. CASE Stop(p)
  BY <1>1, <1>t DEF Stop, Go, Return, Idle
<1>2. CASE StopCampaign(p)
  BY <1>2, <1>t DEF StopCampaign, Go, Return, Idle
<1>7. CASE EndCampaign(p)
  BY <1>7, <1>t DEF EndCampaign, Return, Idle
<1>3. CASE Pause(p)
  BY <1>3, <1>t DEF Pause, Return, Idle
<1>4. CASE Resume(p)
  BY <1>4, <1>t DEF Resume, Go
<1>5. CASE Skip(p)
  BY <1>5, <1>t DEF Skip, Go, Return, Idle
<1>6. QED
  BY <1>1, <1>2, <1>3, <1>4, <1>5, <1>7 DEF ControlActions

\* In a step, the process that takes it moves and the others stay.
LEMMA ProcMoves ==
  ASSUME TypeOK, [Next]_vars, NEW r \in Process
  PROVE  Moves(r)
<1>t. proc \in [Process -> ProcRecord] /\ Caller \subseteq Process /\ Manager \in Process
  BY TypeParts DEF Process
<1>1. ASSUME NEW p \in Process, StepActions(p) PROVE Moves(r)
  BY <1>1, StepMoves DEF Moves
<1>2. ASSUME NEW p \in Process, ControlActions(p) PROVE Moves(r)
  BY <1>2, ControlMoves DEF Moves
<1>3. ASSUME NEW p \in Process, LaunchRaises(p) \/ Crash(p) PROVE Moves(r)
  BY <1>3, <1>t DEF LaunchRaises, Crash, Go, Return, Idle, Moves, GoesOn, Controlling,
                    ProcRecord
<1>4. ASSUME NEW d \in DirectorId, AutoStart(d) PROVE Moves(r)
  BY <1>4, <1>t DEF AutoStart, Idle, Moves, TakesUp
<1>5. ASSUME NEW p \in Caller, NEW d \in DirectorId, CheckDuplicate(p, d) PROVE Moves(r)
  BY <1>5, <1>t DEF CheckDuplicate, Idle, Moves, TakesUp
<1>6. ASSUME NEW p \in Caller, NEW d \in DirectorId,
             NEW act \in {"stop", "pause", "resume", "skip"}, ReadForControl(p, d, act)
      PROVE  Moves(r)
  BY <1>6, <1>t DEF ReadForControl, Idle, Moves, Reads, Accepts
<1>7. CASE UNCHANGED proc
  BY <1>7 DEF Moves
<1>8. ASSUME NEW d \in DirectorId, ClaimAges(d) PROVE Moves(r)
  BY <1>7, <1>8 DEF ClaimAges
<1>9. ASSUME NEW c \in Campaign, CampaignEnds(c) \/ CampaignOverwritten(c) PROVE Moves(r)
  BY <1>7, <1>9 DEF CampaignEnds, CampaignOverwritten
<1>10. QED
  BY <1>1, <1>2, <1>3, <1>4, <1>5, <1>6, <1>7, <1>8, <1>9 DEF Next, vars

\* Whoever is not idle works on a director: on one that nobody else inserts
\* and that is not in the table when it is about to insert it, on one that is in
\* the table otherwise.  Only callers control.
Known ==
  \A p \in Process :
    /\ proc[p].pc = "checked" =>
         /\ director[proc[p].d].status = "absent"
         /\ \A r \in Process \ {p} : proc[r].pc = "checked" => proc[r].d # proc[p].d
    /\ proc[p].pc \notin {"idle", "checked"} => director[proc[p].d].status # "absent"
    /\ proc[p].pc \in Controlling => p \in Caller

LEMMA WorkingInit == Init => Working /\ Known
BY DEF Init, Working, Known, Idle, Controlling

LEMMA WorkingStep ==
  ASSUME TypeOK, Working, [Next]_vars
  PROVE  Working'
<1> SUFFICES ASSUME NEW p \in Process, proc'[p].pc # "idle"
             PROVE  proc'[p].d \in DirectorId
  BY DEF Working
<1>1. Moves(p)
  BY ProcMoves
<1>2. QED
  BY <1>1 DEF Moves, TakesUp, Reads, Inserts, GoesOn, Working

\* Who changes the status of a director, and to what.
LEMMA StatusMoves ==
  ASSUME TypeOK, Working, [Next]_vars, NEW d \in DirectorId,
         director'[d].status # director[d].status
  PROVE  \E p \in Process :
           /\ proc[p].d = d
           /\ \/ proc[p].pc = "checked" /\ proc'[p].pc = "step" /\ director'[d].status = "running"
              \/ proc[p].pc = "pause" /\ director'[d].status = "paused"
              \/ proc[p].pc = "resume" /\ director'[d].status = "running"
              \/ /\ proc[p].pc \notin {"idle", "checked"}
                 /\ director'[d].status \in Terminal
<1>t. /\ director \in [DirectorId -> Row] /\ \A x \in DirectorId : director[x] \in Row
      /\ proc \in [Process -> ProcRecord]
  BY TypeParts
<1> DEFINE Goal(p) == /\ proc[p].d = d
                      /\ \/ proc[p].pc = "checked" /\ proc'[p].pc = "step" /\ director'[d].status = "running"
                         \/ proc[p].pc = "pause" /\ director'[d].status = "paused"
                         \/ proc[p].pc = "resume" /\ director'[d].status = "running"
                         \/ /\ proc[p].pc \notin {"idle", "checked"}
                            /\ director'[d].status \in Terminal
<1>u. ASSUME NEW x, NEW state, NEW current, UpdateState(x, state, current) PROVE FALSE
  BY <1>u, <1>t DEF UpdateState, Row
<1>f. ASSUME NEW p \in Process, NEW seen, NEW status, status \in Terminal,
             Finish(proc[p].d, seen, status), proc[p].pc \notin {"idle", "checked"}
      PROVE  Goal(p)
  BY <1>f, <1>t DEF Finish, Row
<1>1. ASSUME NEW p \in Process, StepActions(p) PROVE Goal(p)
  <2>1. CASE InsertDirector(p)
    BY <2>1, <1>t DEF InsertDirector, Row, Go, ProcRecord
  <2>2. CASE Outcome(p)
    <3>1. proc[p].pc = "row"
      BY <2>2 DEF Outcome, OutcomeOf
    <3>2. \/ UpdateState(proc[p].d, [proc[p].seen.state EXCEPT !.active = None], None)
          \/ \E status \in {"completed", "stopped", "failed"} :
               Finish(proc[p].d, proc[p].seen, status)
      BY <2>2 DEF Outcome, OutcomeOf
    <3>3. QED
      BY <3>1, <3>2, <1>u, <1>f DEF Terminal
  <2>3. CASE TakeNext(p)
    <3>1. proc[p].pc = "looked"
      BY <2>3 DEF TakeNext
    <3>2. \/ Finish(proc[p].d, proc[p].seen, "exhausted")
          \/ \E state, current : UpdateState(proc[p].d, state, current)
      BY <2>3 DEF TakeNext
    <3>3. QED
      BY <3>1, <3>2, <1>u, <1>f DEF Terminal
  <2>4. CASE AdoptLaunched(p) \/ Record(p)
    BY <2>4, <1>u DEF AdoptLaunched, Record
  <2>5. CASE Fail(p)
    BY <2>5, <1>t DEF Fail, Row, Terminal
  <2>6. CASE UNCHANGED director
    BY <2>6
  <2>7. QED
    BY <1>1, <2>1, <2>2, <2>3, <2>4, <2>5, <2>6
       DEF StepActions, ReadRow, Wait, Look, LaunchInProgress, StartCampaign,
           InsertCampaign, ReadAgain, ReadToFail
<1>2. ASSUME NEW p \in Process, ControlActions(p) PROVE Goal(p)
  <2>1. CASE Stop(p)
    BY <2>1, <1>t DEF Stop, Row, Terminal
  <2>2. CASE Pause(p)
    BY <2>2, <1>t DEF Pause, Row
  <2>3. CASE Resume(p)
    BY <2>3, <1>t DEF Resume, Row
  <2>4. CASE Skip(p)
    BY <2>4, <1>t DEF Skip, Row
  <2>5. CASE StopCampaign(p) \/ EndCampaign(p)
    BY <2>5 DEF StopCampaign, EndCampaign
  <2>6. QED
    BY <1>2, <2>1, <2>2, <2>3, <2>4, <2>5 DEF ControlActions
<1>3. QED
  BY <1>1, <1>2
     DEF Next, vars, LaunchRaises, Crash, AutoStart, ClaimAges, CheckDuplicate,
         ReadForControl, CampaignEnds, CampaignOverwritten

LEMMA KnownStep ==
  ASSUME TypeOK, Working, Known, [Next]_vars
  PROVE  Known'
<1>1. ASSUME NEW d \in DirectorId, director[d].status # "absent"
      PROVE  director'[d].status # "absent"
  BY <1>1, StatusMoves DEF Terminal
<1>2. ASSUME NEW p \in Process, proc'[p].pc = "checked"
      PROVE  /\ director'[proc'[p].d].status = "absent"
             /\ \A r \in Process \ {p} : proc'[r].pc = "checked" => proc'[r].d # proc'[p].d
  <2>1. Moves(p)
    BY ProcMoves
  <2>2. CASE TakesUp(p)
    BY <2>2 DEF TakesUp, NewId
  <2>3. CASE proc'[p] = proc[p]
    <3>1. director[proc[p].d].status = "absent" /\ proc[p].d \in DirectorId
      BY <1>2, <2>3 DEF Known, Working
    <3>2. director'[proc[p].d].status = "absent"
      <4> SUFFICES ASSUME director'[proc[p].d].status # "absent" PROVE FALSE
        OBVIOUS
      <4>1. PICK r \in Process : /\ proc[r].d = proc[p].d /\ proc[r].pc # "idle"
                                 /\ proc[r].pc = "checked" => proc'[r].pc = "step"
        BY <3>1, StatusMoves
      <4>2. r = p
        BY <1>2, <2>3, <3>1, <4>1 DEF Known
      <4>3. QED
        BY <1>2, <2>3, <4>1, <4>2
    <3>3. QED
      BY <1>2, <2>3, <3>2, ProcMoves, ZenonT(60)
         DEF Moves, TakesUp, Reads, Inserts, GoesOn, NewId, Known
  <2>4. QED
    BY <1>2, <2>1, <2>2, <2>3 DEF Moves, Reads, Inserts, GoesOn
<1>3. ASSUME NEW p \in Process, proc'[p].pc \notin {"idle", "checked"}
      PROVE  director'[proc'[p].d].status # "absent"
  <2>1. Moves(p) /\ TypeOK'
    BY ProcMoves, TypeStep
  <2>2. CASE Inserts(p)
    BY <2>2, TypeParts DEF Inserts, Working, Row
  <2>3. CASE Reads(p)
    BY <2>3 DEF Reads
  <2>4. CASE proc'[p] = proc[p] \/ GoesOn(p)
    BY <1>1, <1>3, <2>4 DEF GoesOn, Known, Working
  <2>5. QED
    BY <1>3, <2>1, <2>2, <2>3, <2>4 DEF Moves, TakesUp
<1>4. ASSUME NEW p \in Process, proc'[p].pc \in Controlling PROVE p \in Caller
  BY <1>4, ProcMoves DEF Moves, TakesUp, Reads, Inserts, GoesOn, Known, Controlling
<1>5. QED
  BY <1>2, <1>3, <1>4 DEF Known

-----------------------------------------------------------------------------
(* The theorems.                                                            *)

\* The types of all variables, and what each process works on, are invariant.
LEMMA WorkInvariant == Spec => [](TypeOK /\ Working /\ Known)
<1>1. Init => TypeOK /\ Working /\ Known
  BY TypeInit, WorkingInit
<1>2. TypeOK /\ Working /\ Known /\ [Next]_vars => (TypeOK /\ Working /\ Known)'
  BY TypeStep, WorkingStep, KnownStep
<1>3. QED
  BY <1>1, <1>2, PTL DEF Spec

\* Every variable keeps its type, whoever steps and controls the directors.
THEOREM DirectorTypeCorrect == Spec => []TypeOK
BY WorkInvariant, PTL

\* A director that has ended stays so but for a pause or a resume that read its
\* row before (_update_director_state writes no status; the record of a launch
\* and the failure handler come after a stop in any order).
THEOREM EndedForGood == Spec => TerminalForGood
<1>1. TypeOK /\ Working /\ Known /\ [Next]_vars =>
        [\A d \in DirectorId :
           director[d].status \in Terminal /\ director'[d].status \notin Terminal =>
             \E p \in Caller : proc[p].pc \in {"pause", "resume"} /\ proc[p].d = d]_vars
  <2> SUFFICES ASSUME TypeOK, Working, Known, [Next]_vars, NEW d \in DirectorId,
                      director[d].status \in Terminal, director'[d].status \notin Terminal
               PROVE  \E p \in Caller : proc[p].pc \in {"pause", "resume"} /\ proc[p].d = d
    OBVIOUS
  <2>1. PICK p \in Process :
          /\ proc[p].d = d
          /\ \/ proc[p].pc = "checked"
             \/ proc[p].pc \in {"pause", "resume"}
    BY StatusMoves
  <2>2. proc[p].pc # "checked"
    BY <2>1 DEF Known, Terminal
  <2>3. QED
    BY <2>1, <2>2 DEF Known, Controlling
<1>2. QED
  BY <1>1, WorkInvariant, PTL DEF Spec, TerminalForGood

-----------------------------------------------------------------------------
(***************************************************************************)
(* A completed director has a campaign that froze a candidate, whoever     *)
(* else steps and controls it: for any number of processes, entries and    *)
(* campaigns, with one director of the plan or without adoption.           *)
(***************************************************************************)

-----------------------------------------------------------------------------
(* How campaigns, rows and copies change.                                   *)

\* A process adopts campaign c.
Takes(p, c) ==
  /\ proc[p].pc = "looked" /\ proc[p].d \in DirectorId
  /\ campaign'[c] = [campaign[c] EXCEPT !.owner = proc[p].d]
  /\ \/ proc[p].seen.state.claim = None /\ proc[p].found = c
     \/ Adopts /\ campaign[c].owner = Nobody /\ campaign[c].status = "running"

\* A process inserts it.
Starts(p, c) ==
  /\ proc[p].pc = "insert" /\ campaign[c].status = "absent"
  /\ campaign'[c] = [status |-> "running", owner |-> proc[p].d, launched |-> TRUE, thawed |-> FALSE,
                   entry |-> proc[p].entry]

\* Its status is written: it ends, or its end is overwritten.
Rewritten(c) ==
  /\ campaign'[c].status \in {"running"} \cup EndStatuses
  /\ campaign'[c] = [campaign[c] EXCEPT !.status = campaign'[c].status,
                                        !.thawed = campaign'[c].thawed]
  /\ campaign[c].thawed \/ campaign[c].status = "frozen" => campaign'[c].thawed
  /\ campaign'[c].status = "running" => campaign[c].status \in EndStatuses /\ late' = late + 1

LEMMA OverwriteMoves ==
  ASSUME TypeOK, NEW c \in Campaign, NEW x, NEW status \in {"running"} \cup EndStatuses,
         Overwrite(x, status),
         status = "running" => campaign[x].status \in EndStatuses /\ late' = late + 1
  PROVE  campaign'[c] = campaign[c] \/ Rewritten(c)
<1>t. campaign \in [Campaign -> CampaignRow] /\ campaign[c] \in CampaignRow
  BY TypeParts
<1>1. CASE x = c
  <2> DEFINE t == IF campaign[c].status = "frozen" THEN TRUE ELSE campaign[c].thawed
  <2>1. campaign'[c] = [campaign[c] EXCEPT !.status = status, !.thawed = t]
    BY <1>1, <1>t DEF Overwrite
  <2>2. campaign[c].thawed \/ campaign[c].status = "frozen" => t
    OBVIOUS
  <2> HIDE DEF t
  <2>3. campaign'[c].status = status /\ campaign'[c].thawed = t
    BY <1>t, <2>1 DEF CampaignRow
  <2>4. campaign[c].thawed \/ campaign[c].status = "frozen" => campaign'[c].thawed
    BY <2>2, <2>3, Zenon
  <2>5. campaign'[c].status = "running" => campaign[c].status \in EndStatuses /\ late' = late + 1
    BY <1>1, <2>3
  <2>6. campaign'[c] = [campaign[c] EXCEPT !.status = campaign'[c].status,
                                          !.thawed = campaign'[c].thawed]
    BY <2>1, <2>3, Zenon
  <2>7. QED
    BY <2>3, <2>4, <2>5, <2>6, Zenon DEF Rewritten
<1>2. CASE x # c
  BY <1>2, <1>t DEF Overwrite
<1>3. QED
  BY <1>1, <1>2

LEMMA CampaignMoves ==
  ASSUME TypeOK, Working, [Next]_vars, NEW c \in Campaign
  PROVE  \/ campaign'[c] = campaign[c] \/ Rewritten(c)
         \/ \E p \in Process : Takes(p, c) \/ Starts(p, c)
<1>t. campaign \in [Campaign -> CampaignRow] /\ campaign[c] \in CampaignRow
  BY TypeParts
<1> DEFINE Goal == \/ campaign'[c] = campaign[c] \/ Rewritten(c)
                   \/ \E p \in Process : Takes(p, c) \/ Starts(p, c)
<1>1. ASSUME NEW p \in Process, TakeNext(p) PROVE Goal
  <2> DEFINE state == Reset(proc[p].seen.state)
             e == First(Pending(state.queue))
             found == IF proc[p].seen.state.claim = None THEN {proc[p].found} \ {None}
                      ELSE IF Adopts THEN Adoptable(e) ELSE {}
  <2>1. /\ proc[p].pc = "looked"
        /\ \/ UNCHANGED campaign
           \/ \E x \in found : campaign' = [campaign EXCEPT ![x].owner = proc[p].d]
    BY <1>1 DEF TakeNext
  <2>2. \A x \in found : \/ proc[p].seen.state.claim = None /\ proc[p].found = x
                         \/ Adopts /\ campaign[x].owner = Nobody /\ campaign[x].status = "running"
    BY DEF Adoptable, Unowned, ActiveCampaign
  <2> HIDE DEF found
  <2>3. ASSUME NEW x \in found, campaign' = [campaign EXCEPT ![x].owner = proc[p].d]
        PROVE  Goal
    <3>1. CASE x = c
      <4>1. proc[p].d \in DirectorId
        BY <2>1 DEF Working
      <4>2. campaign'[c] = [campaign[c] EXCEPT !.owner = proc[p].d]
        BY <2>3, <3>1, <1>t
      <4>3. Takes(p, c)
        BY <2>1, <2>2, <3>1, <4>1, <4>2 DEF Takes
      <4>4. QED
        BY <4>3
    <3>2. CASE x # c
      BY <2>3, <3>2, <1>t
    <3>3. QED
      BY <3>1, <3>2
  <2>4. QED
    BY <2>1, <2>3
<1>2. ASSUME NEW p \in Process, InsertCampaign(p) PROVE Goal
  <2> DEFINE free == {x \in Campaign : campaign[x].status = "absent"}
             n == First(free)
             new == [status |-> "running", owner |-> proc[p].d, launched |-> TRUE, thawed |-> FALSE,
                   entry |-> proc[p].entry]
  <2>1. free # {} /\ proc[p].pc = "insert" /\ campaign' = [campaign EXCEPT ![n] = new]
    BY <1>2 DEF InsertCampaign
  <2>2. n \in free
    <3>1. free \in SUBSET Nat
      BY DEF Campaign
    <3>2. QED
      BY <2>1, <3>1, FirstIn
  <2> HIDE DEF n
  <2>3. CASE n = c
    <3>1. campaign'[c] = new
      BY <2>1, <2>3, <1>t
    <3>2. Starts(p, c)
      BY <2>1, <2>2, <2>3, <3>1 DEF Starts
    <3>3. QED
      BY <3>2
  <2>4. QED
    BY <2>1, <2>3, <1>t
<1>3. ASSUME NEW p \in Process, EndCampaign(p) PROVE Goal
  BY <1>3, OverwriteMoves DEF EndCampaign, EndStatuses
<1>4. ASSUME NEW x \in Campaign, CampaignEnds(x) PROVE Goal
  <2>1. campaign[x].status = "running"
    BY <1>4 DEF CampaignEnds, ActiveCampaign
  <2>2. PICK status \in EndStatuses : campaign' = [campaign EXCEPT ![x].status = status]
    BY <1>4, DirectorAssumption DEF CampaignEnds
  <2>3. CASE x = c
    <3>1. /\ campaign'[c].status = status /\ campaign'[c].thawed = campaign[c].thawed
          /\ campaign'[c] = [campaign[c] EXCEPT !.status = campaign'[c].status,
                                                !.thawed = campaign'[c].thawed]
      BY <2>2, <2>3, <1>t DEF CampaignRow
    <3>2. QED
      BY <2>1, <2>3, <3>1 DEF Rewritten, EndStatuses
  <2>4. QED
    BY <2>2, <2>3, <1>t
<1>8. ASSUME NEW x \in Campaign, CampaignOverwritten(x) PROVE Goal
  BY <1>8, OverwriteMoves, DirectorAssumption DEF CampaignOverwritten
<1>5. CASE UNCHANGED campaign
  BY <1>5
<1>6. ASSUME NEW p \in Process, Outcome(p) PROVE UNCHANGED campaign
  BY <1>6 DEF Outcome, OutcomeOf
<1>7. QED
  BY <1>1, <1>2, <1>3, <1>4, <1>5, <1>6, <1>8, ZenonT(60)
     DEF Next, vars, StepActions, ControlActions, ReadRow, InsertDirector, Wait, Look,
         AdoptLaunched, LaunchInProgress, StartCampaign, ReadAgain, Record, ReadToFail,
         Fail, Stop, StopCampaign, Pause, Resume, Skip, LaunchRaises, Crash, AutoStart, ClaimAges,
         CheckDuplicate, ReadForControl

\* Where the active campaign of a row comes from: the row itself, a copy, what
\* a process has found and noted, or a campaign that is taken over in the step.
NotedBy(p, a) ==
  /\ proc[p].pc # "idle"
  /\ \/ a = proc[p].seen.state.active
     \/ a = proc[p].found /\ proc[p].pc = "record"
     \/ a = proc[p].found /\ proc[p].pc = "looked" /\ proc[p].seen.state.claim # None

LEMMA ActiveMoves ==
  ASSUME TypeOK, Working, [Next]_vars, NEW d \in DirectorId
  PROVE  \/ director'[d].state.active \in {None, director[d].state.active}
         \/ \E p \in Process : proc[p].d = d /\ NotedBy(p, director'[d].state.active)
         \/ /\ director'[d].state.active \in Campaign
            /\ campaign'[director'[d].state.active].owner = d
<1>t. /\ director \in [DirectorId -> Row]
      /\ \A x \in DirectorId : director[x] \in Row /\ director[x].state \in State
      /\ campaign \in [Campaign -> CampaignRow] /\ None \notin Campaign
      /\ \A p \in Process : proc[p] \in ProcRecord /\ proc[p].seen.state \in State
  BY TypeParts DEF Row, ProcRecord, Campaign, None
<1> DEFINE a == director'[d].state.active
           Goal == \/ a \in {None, director[d].state.active}
                   \/ \E p \in Process : proc[p].d = d /\ NotedBy(p, a)
                   \/ a \in Campaign /\ campaign'[a].owner = d
<1>u. ASSUME NEW p \in Process, NEW state, NEW current, proc[p].pc # "idle",
             UpdateState(proc[p].d, state, current),
             \/ state.active = None \/ NotedBy(p, state.active)
             \/ state.active \in Campaign /\ campaign'[state.active].owner = proc[p].d
      PROVE  Goal
  <2>1. CASE proc[p].d = d
    <3>1. a = state.active
      BY <1>u, <2>1, <1>t DEF UpdateState
    <3>2. QED
      BY <1>u, <2>1, <3>1
  <2>2. CASE proc[p].d # d
    BY <1>u, <2>2, <1>t DEF UpdateState
  <2>3. QED
    BY <2>1, <2>2
<1>c. ASSUME NEW p \in Process, proc[p].pc # "idle",
             \/ \E status : director' = [director EXCEPT ![proc[p].d].status = status,
                                                         ![proc[p].d].state = proc[p].seen.state]
             \/ \E status : Finish(proc[p].d, proc[p].seen, status)
      PROVE  Goal
  <2>1. CASE proc[p].d = d
    <3>1. director'[d].state = proc[p].seen.state
      <4>1. ASSUME NEW status, director' = [director EXCEPT ![d].status = status,
                                                            ![d].state = proc[p].seen.state]
            PROVE  director'[d].state = proc[p].seen.state
        <5> DEFINE mid == [director EXCEPT ![d].status = status]
        <5>1. d \in DOMAIN mid /\ mid[d] = [director[d] EXCEPT !.status = status]
          BY <1>t
        <5>2. director' = [mid EXCEPT ![d].state = proc[p].seen.state]
          BY <4>1
        <5>3. "state" \in DOMAIN mid[d]
          BY <5>1, <1>t DEF Row
        <5> HIDE DEF mid
        <5>4. QED
          BY <5>1, <5>2, <5>3
      <4>2. ASSUME NEW status, Finish(d, proc[p].seen, status)
            PROVE  director'[d].state = proc[p].seen.state
        BY <4>2, <1>t DEF Finish
      <4>3. QED
        BY <1>c, <2>1, <4>1, <4>2
    <3>2. NotedBy(p, a)
      BY <1>c, <3>1 DEF NotedBy
    <3>3. QED
      BY <2>1, <3>2
  <2>2. CASE proc[p].d # d
    BY <1>c, <2>2, <1>t DEF Finish
  <2>3. QED
    BY <2>1, <2>2
<1>1. ASSUME NEW p \in Process, InsertDirector(p) PROVE Goal
  BY <1>1, <1>t DEF InsertDirector, Row
<1>2. ASSUME NEW p \in Process, Outcome(p) PROVE Goal
  <2> DEFINE state == [proc[p].seen.state EXCEPT !.active = None]
  <2>1. /\ proc[p].pc = "row"
        /\ \/ UpdateState(proc[p].d, state, None)
           \/ \E status : Finish(proc[p].d, proc[p].seen, status)
    BY <1>2 DEF Outcome, OutcomeOf
  <2>2. state.active = None
    BY <1>t DEF State
  <2> HIDE DEF state
  <2>3. QED
    BY <2>1, <2>2, <1>u, <1>c
<1>3. ASSUME NEW p \in Process, AdoptLaunched(p) PROVE Goal
  <2> DEFINE state == [proc[p].seen.state EXCEPT !.queue[proc[p].seen.state.claim] = "running",
                                                 !.active = proc[p].found, !.claim = None]
  <2>1. /\ proc[p].pc = "looked" /\ proc[p].seen.state.claim # None
        /\ UpdateState(proc[p].d, state, proc[p].found)
    BY <1>3 DEF AdoptLaunched
  <2>2. state.active = proc[p].found
    BY <1>t DEF State
  <2> HIDE DEF state
  <2>3. NotedBy(p, state.active)
    BY <2>1, <2>2 DEF NotedBy
  <2>4. QED
    BY <2>1, <2>3, <1>u
<1>4. ASSUME NEW p \in Process, TakeNext(p) PROVE Goal
  <2> DEFINE state == Reset(proc[p].seen.state)
             e == First(Pending(state.queue))
             found == IF proc[p].seen.state.claim = None THEN {proc[p].found} \ {None}
                      ELSE IF Adopts THEN Adoptable(e) ELSE {}
  <2>1. /\ proc[p].pc = "looked"
        /\ \/ Finish(proc[p].d, proc[p].seen, "exhausted")
           \/ \E c \in found :
                /\ UpdateState(proc[p].d, [state EXCEPT !.queue[e] = "running", !.active = c], c)
                /\ campaign' = [campaign EXCEPT ![c].owner = proc[p].d]
           \/ UpdateState(proc[p].d, [state EXCEPT !.queue[e] = "launching", !.claim = e], None)
    BY <1>4 DEF TakeNext
  <2>2. state \in State /\ state.active = proc[p].seen.state.active
    BY <1>t DEF Reset, State, EntryStatuses
  <2>3. found \subseteq Campaign
    BY <1>t DEF Adoptable, Unowned, ProcRecord
  <2> HIDE DEF state, found, e
  <2>4. ASSUME NEW c \in found,
               UpdateState(proc[p].d, [state EXCEPT !.queue[e] = "running", !.active = c], c),
               campaign' = [campaign EXCEPT ![c].owner = proc[p].d]
        PROVE  Goal
    <3>1. [state EXCEPT !.queue[e] = "running", !.active = c].active = c
      BY <2>2 DEF State
    <3>2. campaign'[c].owner = proc[p].d /\ c \in Campaign
      BY <2>3, <2>4, <1>t DEF CampaignRow
    <3>3. QED
      BY <2>1, <2>4, <3>1, <3>2, <1>u
  <2>5. CASE UpdateState(proc[p].d, [state EXCEPT !.queue[e] = "launching", !.claim = e], None)
    <3>1. [state EXCEPT !.queue[e] = "launching", !.claim = e].active = proc[p].seen.state.active
      BY <2>2 DEF State
    <3>2. NotedBy(p, proc[p].seen.state.active)
      BY <2>1 DEF NotedBy
    <3>3. QED
      BY <2>1, <2>5, <3>1, <3>2, <1>u
  <2>6. QED
    BY <2>1, <2>4, <2>5, <1>c
<1>5. ASSUME NEW p \in Process, Record(p) PROVE Goal
  <2> DEFINE state == [proc[p].seen.state EXCEPT !.queue[proc[p].entry] = "running",
                                                 !.active = proc[p].found, !.claim = None]
  <2>1. proc[p].pc = "record" /\ UpdateState(proc[p].d, state, proc[p].found)
    BY <1>5 DEF Record
  <2>2. state.active = proc[p].found
    BY <1>t DEF State
  <2> HIDE DEF state
  <2>3. NotedBy(p, state.active)
    BY <2>1, <2>2 DEF NotedBy
  <2>4. QED
    BY <2>1, <2>3, <1>u
<1>6. ASSUME NEW p \in Process, Fail(p) \/ Stop(p) \/ Pause(p) \/ Resume(p) PROVE Goal
  BY <1>6, <1>c DEF Fail, Stop, Pause, Resume
<1>7. ASSUME NEW p \in Process, Skip(p) PROVE Goal
  <2> DEFINE state == [proc[p].seen.state EXCEPT
                         !.queue[First(Pending(proc[p].seen.state.queue))] = "skipped"]
  <2>1. proc[p].pc = "skip" /\ director' = [director EXCEPT ![proc[p].d].state = state]
    BY <1>7 DEF Skip
  <2>2. state.active = proc[p].seen.state.active
    BY <1>t DEF State
  <2> HIDE DEF state
  <2>3. NotedBy(p, state.active)
    BY <2>1, <2>2 DEF NotedBy
  <2>4. QED
    BY <2>1, <2>3, <1>t
<1>8. CASE UNCHANGED director
  BY <1>8
<1>9. QED
  BY <1>1, <1>2, <1>3, <1>4, <1>5, <1>6, <1>7, <1>8, ZenonT(60)
     DEF Next, vars, StepActions, ControlActions, ReadRow, Wait, Look, LaunchInProgress,
         StartCampaign, InsertCampaign, ReadAgain, ReadToFail, StopCampaign, EndCampaign,
         LaunchRaises, Crash, AutoStart, ClaimAges, CheckDuplicate, ReadForControl,
         CampaignEnds, CampaignOverwritten

\* What a process has read is a row of its director, and it keeps it.
CopyMoves(r) ==
  \/ proc'[r].seen.state.active = None
  \/ /\ proc[r].pc # "idle" /\ proc'[r].d = proc[r].d /\ proc'[r].seen = proc[r].seen
  \/ /\ proc'[r].d \in DirectorId /\ proc'[r].seen = director[proc'[r].d]
     /\ UNCHANGED <<director, campaign>>

\* What it has found is a campaign of its director, or one to adopt.
FoundMoves(r) ==
  \/ proc'[r].pc \notin {"looked", "again", "record"} \/ proc'[r].found = None
  \/ proc'[r].pc = "record" /\ proc[r].pc = "again" /\ proc'[r].d = proc[r].d
     /\ proc'[r].found = proc[r].found
  \/ proc'[r].pc = "again" /\ proc'[r].found \in Campaign /\ proc'[r].d = proc[r].d
     /\ campaign'[proc'[r].found].owner = proc[r].d
  \/ /\ proc'[r].pc = "looked" /\ proc'[r].found \in Campaign /\ UNCHANGED campaign
     /\ campaign[proc'[r].found].status = "running"
     /\ IF proc'[r].seen.state.claim # None
        THEN campaign[proc'[r].found].owner = proc'[r].d
        ELSE Adopts /\ campaign[proc'[r].found].owner = Nobody

LEMMA StepCopies ==
  ASSUME TypeOK, Working, NEW p \in Process, StepActions(p)
  PROVE  CopyMoves(p) /\ FoundMoves(p)
<1>t. /\ proc \in [Process -> ProcRecord] /\ proc[p] \in ProcRecord
      /\ campaign \in [Campaign -> CampaignRow] /\ None \notin Campaign
      /\ Absent.state.active = None
  BY TypeParts DEF Absent, FreshState, None, Campaign
<1>i. ASSUME Return(p) PROVE CopyMoves(p) /\ FoundMoves(p)
  BY <1>i, <1>t DEF Return, Idle, CopyMoves, FoundMoves
<1>g. ASSUME NEW pc, Go(p, pc), proc[p].pc # "idle", pc \notin {"looked", "again", "record"}
      PROVE  CopyMoves(p) /\ FoundMoves(p)
  BY <1>g, <1>t DEF Go, CopyMoves, FoundMoves, ProcRecord
<1>1. ASSUME NEW d \in DirectorId, ReadRow(p, d) PROVE CopyMoves(p) /\ FoundMoves(p)
  <2>1. CASE IsActive(d)
    <3>1. /\ proc' = [proc EXCEPT ![p] = [Idle EXCEPT !.pc = "row", !.d = d, !.seen = director[d]]]
          /\ UNCHANGED <<director, campaign>>
      BY <1>1, <2>1 DEF ReadRow
    <3>2. proc'[p].pc = "row" /\ proc'[p].d = d /\ proc'[p].seen = director[d]
      BY <3>1, <1>t DEF Idle
    <3>3. QED
      BY <3>1, <3>2 DEF CopyMoves, FoundMoves
  <2>2. CASE ~IsActive(d)
    BY <1>1, <2>2, <1>i DEF ReadRow
  <2>3. QED
    BY <2>1, <2>2
<1>2. ASSUME \/ InsertDirector(p) \/ Wait(p) \/ AdoptLaunched(p) \/ LaunchInProgress(p)
             \/ Record(p) \/ Fail(p)
      PROVE  CopyMoves(p) /\ FoundMoves(p)
  BY <1>2, <1>i, <1>g DEF InsertDirector, Wait, AdoptLaunched, LaunchInProgress, Record, Fail
<1>3. CASE Outcome(p)
  BY <1>3, <1>i DEF Outcome, OutcomeOf
<1>4. CASE Look(p)
  <2> DEFINE st == proc[p].seen.state
             next == First(Pending(st.queue))
             some == IF st.claim # None THEN Launched(proc[p].d, st.claim)
                     ELSE IF Adopts /\ Pending(st.queue) # {} THEN Adoptable(next) ELSE {}
  <2>1. /\ proc[p].pc = "row" /\ UNCHANGED campaign
        /\ \/ Go(p, "handler")
           \/ \E c \in IF some = {} THEN {None} ELSE some :
                proc' = [proc EXCEPT ![p].pc = "looked", ![p].found = c]
    BY <1>4 DEF Look
  <2>2. \A c \in some : /\ c \in Campaign /\ campaign[c].status = "running"
                        /\ IF st.claim # None THEN campaign[c].owner = proc[p].d
                           ELSE Adopts /\ campaign[c].owner = Nobody
    BY DEF Launched, ActiveOf, Adoptable, Unowned, ActiveCampaign
  <2> HIDE DEF some
  <2>3. ASSUME NEW c \in IF some = {} THEN {None} ELSE some,
               proc' = [proc EXCEPT ![p].pc = "looked", ![p].found = c]
        PROVE  CopyMoves(p) /\ FoundMoves(p)
    <3>1. /\ proc'[p].pc = "looked" /\ proc'[p].found = c /\ proc'[p].d = proc[p].d
          /\ proc'[p].seen = proc[p].seen
      BY <2>3, <1>t DEF ProcRecord
    <3>2. QED
      BY <2>1, <2>2, <3>1 DEF CopyMoves, FoundMoves
  <2>4. QED
    BY <2>1, <2>3, <1>g
<1>5. CASE TakeNext(p)
  <2>1. proc[p].pc = "looked"
    BY <1>5 DEF TakeNext
  <2>2. \/ Return(p)
        \/ \E e : proc' = [proc EXCEPT ![p].pc = "start", ![p].entry = e]
    BY <1>5 DEF TakeNext
  <2>3. ASSUME NEW e, proc' = [proc EXCEPT ![p].pc = "start", ![p].entry = e]
        PROVE  CopyMoves(p) /\ FoundMoves(p)
    <3>1. proc'[p].pc = "start" /\ proc'[p].d = proc[p].d /\ proc'[p].seen = proc[p].seen
      BY <2>3, <1>t DEF ProcRecord
    <3>2. QED
      BY <2>1, <3>1 DEF CopyMoves, FoundMoves
  <2>4. QED
    BY <2>2, <2>3, <1>i
<1>6. CASE StartCampaign(p)
  <2>1. /\ proc[p].pc = "start" /\ UNCHANGED campaign
        /\ \/ Go(p, "handler") \/ Go(p, "insert")
           \/ \E c \in Launched(proc[p].d, proc[p].entry) :
                proc' = [proc EXCEPT ![p].pc = "again", ![p].found = c]
    BY <1>6 DEF StartCampaign
  <2>2. ASSUME NEW c \in Launched(proc[p].d, proc[p].entry),
               proc' = [proc EXCEPT ![p].pc = "again", ![p].found = c]
        PROVE  CopyMoves(p) /\ FoundMoves(p)
    <3>1. /\ proc'[p].pc = "again" /\ proc'[p].found = c /\ proc'[p].d = proc[p].d
          /\ proc'[p].seen = proc[p].seen
      BY <2>2, <1>t DEF ProcRecord
    <3>2. c \in Campaign /\ campaign[c].owner = proc[p].d
      BY DEF Launched, ActiveOf
    <3>3. QED
      BY <2>1, <3>1, <3>2 DEF CopyMoves, FoundMoves
  <2>3. QED
    BY <2>1, <2>2, <1>g
<1>7. CASE InsertCampaign(p)
  <2> DEFINE free == {x \in Campaign : campaign[x].status = "absent"}
             n == First(free)
             new == [status |-> "running", owner |-> proc[p].d, launched |-> TRUE, thawed |-> FALSE,
                   entry |-> proc[p].entry]
  <2>1. /\ free # {} /\ proc[p].pc = "insert" /\ campaign' = [campaign EXCEPT ![n] = new]
        /\ \/ proc' = [proc EXCEPT ![p].pc = "again", ![p].found = n]
           \/ Go(p, "handler")
    BY <1>7 DEF InsertCampaign
  <2>2. n \in Campaign
    <3>1. free \in SUBSET Nat
      BY DEF Campaign
    <3>2. QED
      BY <2>1, <3>1, FirstIn
  <2> HIDE DEF n
  <2>3. campaign'[n].owner = proc[p].d
    BY <2>1, <2>2, <1>t
  <2>4. CASE proc' = [proc EXCEPT ![p].pc = "again", ![p].found = n]
    <3>1. /\ proc'[p].pc = "again" /\ proc'[p].found = n /\ proc'[p].d = proc[p].d
          /\ proc'[p].seen = proc[p].seen
      BY <2>4, <1>t DEF ProcRecord
    <3>2. QED
      BY <2>1, <2>2, <2>3, <3>1 DEF CopyMoves, FoundMoves
  <2>5. QED
    BY <2>1, <2>4, <1>g
<1>8. CASE ReadAgain(p)
  <2>1. /\ proc[p].pc = "again" /\ UNCHANGED <<director, campaign>>
        /\ proc' = [proc EXCEPT ![p].pc = "record", ![p].seen = director[proc[p].d]]
    BY <1>8 DEF ReadAgain
  <2>2. /\ proc'[p].pc = "record" /\ proc'[p].d = proc[p].d
        /\ proc'[p].found = proc[p].found /\ proc'[p].seen = director[proc[p].d]
    BY <2>1, <1>t DEF ProcRecord
  <2>3. QED
    BY <2>1, <2>2 DEF Working, CopyMoves, FoundMoves
<1>9. CASE ReadToFail(p)
  <2>1. CASE Return(p)
    BY <2>1, <1>i
  <2>2. CASE proc' = [proc EXCEPT ![p].pc = "failing", ![p].seen = director[proc[p].d]]
    <3>1. /\ proc[p].pc = "handler" /\ UNCHANGED <<director, campaign>>
      BY <1>9 DEF ReadToFail
    <3>2. /\ proc'[p].pc = "failing" /\ proc'[p].d = proc[p].d
          /\ proc'[p].seen = director[proc[p].d]
      BY <2>2, <1>t DEF ProcRecord
    <3>3. QED
      BY <3>1, <3>2 DEF Working, CopyMoves, FoundMoves
  <2>3. QED
    BY <1>9, <2>1, <2>2 DEF ReadToFail
<1>10. QED
  BY <1>1, <1>2, <1>3, <1>4, <1>5, <1>6, <1>7, <1>8, <1>9 DEF StepActions

LEMMA Copies ==
  ASSUME TypeOK, Working, [Next]_vars, NEW r \in Process, proc'[r] # proc[r]
  PROVE  CopyMoves(r) /\ FoundMoves(r)
<1>t. /\ proc \in [Process -> ProcRecord] /\ proc[r] \in ProcRecord
      /\ Absent.state.active = None /\ Caller \subseteq Process /\ Manager \in Process
  BY TypeParts DEF Absent, FreshState, Process
<1>i. ASSUME Return(r) PROVE CopyMoves(r) /\ FoundMoves(r)
  BY <1>i, <1>t DEF Return, Idle, CopyMoves, FoundMoves
<1>g. ASSUME NEW pc, Go(r, pc), proc[r].pc # "idle", pc \notin {"looked", "again", "record"}
      PROVE  CopyMoves(r) /\ FoundMoves(r)
  BY <1>g, <1>t DEF Go, CopyMoves, FoundMoves, ProcRecord
<1>1. ASSUME NEW p \in Process, StepActions(p) PROVE CopyMoves(r) /\ FoundMoves(r)
  BY <1>1, StepMoves, StepCopies
<1>2. ASSUME NEW p \in Process, ControlActions(p) PROVE CopyMoves(r) /\ FoundMoves(r)
  <2>1. p = r
    BY <1>2, ControlMoves
  <2>2. QED
    BY <1>2, <2>1, <1>i, <1>g DEF ControlActions, Stop, StopCampaign, EndCampaign, Pause, Resume,
                                         Skip
<1>3. ASSUME NEW p \in Process, LaunchRaises(p) \/ Crash(p)
      PROVE  CopyMoves(r) /\ FoundMoves(r)
  <2>1. p = r
    BY <1>3, <1>t DEF LaunchRaises, Crash, Go, Return
  <2>2. QED
    BY <1>3, <2>1, <1>i, <1>g DEF LaunchRaises, Crash
<1>4. ASSUME NEW p \in Process, NEW d \in DirectorId,
             proc' = [proc EXCEPT ![p] = [Idle EXCEPT !.pc = "checked", !.d = d]]
      PROVE  CopyMoves(r) /\ FoundMoves(r)
  BY <1>4, <1>t DEF Idle, CopyMoves, FoundMoves
<1>5. ASSUME NEW p \in Process, NEW d \in DirectorId,
             NEW act \in {"stop", "pause", "resume", "skip"}, ReadForControl(p, d, act)
      PROVE  CopyMoves(r) /\ FoundMoves(r)
  <2>1. /\ proc' = [proc EXCEPT ![p] = [Idle EXCEPT !.pc = act, !.d = d, !.seen = director[d]]]
        /\ UNCHANGED <<director, campaign>>
    BY <1>5 DEF ReadForControl
  <2>2. proc'[r].pc = act /\ proc'[r].d = d /\ proc'[r].seen = director[d]
    BY <2>1, <1>t DEF Idle
  <2>3. QED
    BY <2>1, <2>2 DEF CopyMoves, FoundMoves
<1>6. QED
  BY <1>1, <1>2, <1>3, <1>4, <1>5, <1>t
     DEF Next, vars, AutoStart, ClaimAges, CheckDuplicate, CampaignEnds, CampaignOverwritten

-----------------------------------------------------------------------------
(* A completed director has a frozen candidate.                             *)

\* A campaign changes hands only by adoption.  With one director, or without
\* adoption, what a copy says of a campaign's owner stays true.
Solo == (\A a, b \in DirectorId : a = b) \/ ~Adopts

Froze(c)  == campaign[c].status = "frozen" \/ campaign[c].thawed
Frozen(d) == \E c \in Campaign : campaign[c].owner = d /\ Froze(c)

\* Campaigns a process refers to are those of its director.
Owners ==
  /\ \A c \in Campaign : campaign[c].status = "absent" => campaign[c].owner = Nobody
  /\ \A d \in DirectorId : director[d].state.active # None =>
       campaign[director[d].state.active].owner = d
  /\ \A p \in Process :
       /\ proc[p].pc # "idle" /\ proc[p].seen.state.active # None =>
            campaign[proc[p].seen.state.active].owner = proc[p].d
       /\ proc[p].pc \in {"again", "record"} /\ proc[p].found # None =>
            campaign[proc[p].found].owner = proc[p].d
       /\ proc[p].pc = "looked" /\ proc[p].found # None =>
         /\ campaign[proc[p].found].status # "absent"
         /\ IF proc[p].seen.state.claim # None
            THEN campaign[proc[p].found].owner = proc[p].d
            ELSE Adopts

OwnersInv == Owners /\ CompletedByFreeze

\* A campaign stays with its director, and its freeze is kept or noted.
LEMMA OwnerKept ==
  ASSUME Solo, TypeOK, Working, Owners, [Next]_vars,
         NEW c \in Campaign, NEW d \in DirectorId, campaign[c].owner = d
  PROVE  /\ campaign'[c].owner = d
         /\ Froze(c) => Froze(c)'
<1>t. campaign[c] \in CampaignRow /\ None \notin Campaign
  BY TypeParts DEF Campaign, None
<1>1. ASSUME NEW p \in Process, Takes(p, c)
      PROVE  /\ campaign'[c].owner = d /\ campaign'[c].status = campaign[c].status
             /\ campaign'[c].thawed = campaign[c].thawed
  <2>1. Adopts
    BY <1>1, <1>t DEF Takes, Owners
  <2>2. proc[p].d = d
    BY <1>1, <2>1 DEF Solo, Takes
  <2>3. QED
    BY <1>1, <2>2, <1>t DEF Takes, CampaignRow
<1>2. ASSUME NEW p \in Process, Starts(p, c) PROVE FALSE
  BY <1>2, DirectorAssumption DEF Starts, Owners
<1>3. CASE Rewritten(c)
  BY <1>3, <1>t DEF Rewritten, CampaignRow, Froze
<1>4. QED
  BY <1>1, <1>2, <1>3, CampaignMoves DEF Froze

\* Only the outcome of a frozen campaign completes a director.
LEMMA CompletedMoves ==
  ASSUME TypeOK, Working, [Next]_vars, NEW d \in DirectorId,
         director'[d].status = "completed", director[d].status # "completed"
  PROVE  \E p \in Process :
           /\ proc[p].d = d /\ proc[p].pc = "row"
           /\ proc[p].seen.state.active \in Campaign
           /\ campaign[proc[p].seen.state.active].status = "frozen"
<1>t. /\ director \in [DirectorId -> Row] /\ \A x \in DirectorId : director[x] \in Row
      /\ \A p \in Process : proc[p].seen.state \in State
  BY TypeParts DEF ProcRecord, Row
<1>u. ASSUME NEW x, NEW state, NEW current, UpdateState(x, state, current) PROVE FALSE
  BY <1>u, <1>t DEF UpdateState, Row
<1>f. ASSUME NEW x, NEW seen, NEW status, Finish(x, seen, status)
      PROVE  x = d /\ status = "completed"
  BY <1>f, <1>t DEF Finish, Row
<1>1. ASSUME NEW p \in Process, Outcome(p)
      PROVE  /\ proc[p].d = d /\ proc[p].pc = "row"
             /\ proc[p].seen.state.active \in Campaign
             /\ campaign[proc[p].seen.state.active].status = "frozen"
  <2> DEFINE c == proc[p].seen.state.active
  <2>1. /\ proc[p].pc = "row" /\ c # None
        /\ \/ campaign[c].status = "frozen" /\ Finish(proc[p].d, proc[p].seen, "completed")
           \/ UpdateState(proc[p].d, [proc[p].seen.state EXCEPT !.active = None], None)
           \/ \E status \in {"stopped", "failed"} : Finish(proc[p].d, proc[p].seen, status)
    BY <1>1 DEF Outcome, OutcomeOf
  <2>2. c \in Campaign
    BY <2>1, <1>t DEF State
  <2>3. QED
    BY <2>1, <2>2, <1>u, <1>f
<1>2. ASSUME NEW p \in Process, TakeNext(p) PROVE FALSE
  <2>1. \/ Finish(proc[p].d, proc[p].seen, "exhausted")
        \/ \E state, current : UpdateState(proc[p].d, state, current)
    BY <1>2 DEF TakeNext
  <2>2. QED
    BY <2>1, <1>u, <1>f
<1>3. ASSUME NEW p \in Process,
             \/ AdoptLaunched(p) \/ Record(p) \/ InsertDirector(p) \/ Fail(p)
             \/ Stop(p) \/ Pause(p) \/ Resume(p) \/ Skip(p)
      PROVE  FALSE
  <2>1. CASE AdoptLaunched(p) \/ Record(p)
    BY <2>1, <1>u DEF AdoptLaunched, Record
  <2>2. CASE InsertDirector(p)
    BY <2>2, <1>t DEF InsertDirector, Row
  <2>3. CASE Fail(p)
    BY <2>3, <1>t DEF Fail, Row
  <2>4. CASE Stop(p)
    BY <2>4, <1>t DEF Stop, Row
  <2>5. CASE Pause(p)
    BY <2>5, <1>t DEF Pause, Row
  <2>6. CASE Resume(p)
    BY <2>6, <1>t DEF Resume, Row
  <2>7. CASE Skip(p)
    BY <2>7, <1>t DEF Skip, Row
  <2>8. QED
    BY <1>3, <2>1, <2>2, <2>3, <2>4, <2>5, <2>6, <2>7
<1>4. CASE UNCHANGED director
  BY <1>4
<1>5. QED
  BY <1>1, <1>2, <1>3, <1>4, ZenonT(60)
     DEF Next, vars, StepActions, ControlActions, ReadRow, Wait, Look, LaunchInProgress,
         StartCampaign, InsertCampaign, ReadAgain, ReadToFail, StopCampaign, EndCampaign,
         LaunchRaises, Crash, AutoStart, ClaimAges, CheckDuplicate, ReadForControl,
         CampaignEnds, CampaignOverwritten

LEMMA OwnersInit == Init => OwnersInv
BY DEF Init, OwnersInv, Owners, CompletedByFreeze, Absent, FreshState, Idle

LEMMA OwnersStep ==
  ASSUME Solo, TypeOK, Working, OwnersInv, [Next]_vars
  PROVE  OwnersInv'
<1>t. /\ None \notin Campaign /\ campaign \in [Campaign -> CampaignRow]
      /\ \A d \in DirectorId : director[d].state.active \in Campaign \cup {None}
      /\ \A p \in Process : /\ proc[p].found \in Campaign \cup {None}
                            /\ proc[p].seen.state.active \in Campaign \cup {None}
  BY TypeParts DEF Campaign, None, ProcRecord, Row, State
<1>o. Owners
  BY DEF OwnersInv
<1>1. ASSUME NEW c \in Campaign, campaign'[c].status = "absent"
      PROVE  campaign'[c].owner = Nobody
  <2>1. campaign'[c] = campaign[c] \/ \E p \in Process : Takes(p, c)
    <3>1. ASSUME NEW p \in Process, Starts(p, c) PROVE campaign'[c].status = "running"
      BY <3>1 DEF Starts
    <3>2. ~Rewritten(c)
      BY <1>1 DEF Rewritten, EndStatuses
    <3>3. QED
      BY <1>1, <3>1, <3>2, CampaignMoves
  <2>2. ASSUME NEW p \in Process, Takes(p, c) PROVE FALSE
    <3>1. campaign[c].status # "absent"
      BY <1>o, <1>t, <2>2 DEF Takes, Owners
    <3>2. QED
      BY <1>1, <1>t, <2>2, <3>1 DEF Takes, CampaignRow
  <2>3. QED
    BY <1>o, <1>1, <2>1, <2>2 DEF Owners
<1>2. ASSUME NEW d \in DirectorId, director'[d].state.active # None
      PROVE  campaign'[director'[d].state.active].owner = d
  <2>1. CASE director'[d].state.active = director[d].state.active
    BY <1>o, <1>t, <1>2, <2>1, OwnerKept DEF Owners
  <2>2. ASSUME NEW p \in Process, proc[p].d = d, NotedBy(p, director'[d].state.active)
        PROVE  campaign'[director'[d].state.active].owner = d
    <3> DEFINE a == director'[d].state.active
    <3>1. /\ proc[p].pc # "idle" /\ a # None /\ a \in Campaign
          /\ \/ a = proc[p].seen.state.active
             \/ a = proc[p].found /\ proc[p].pc = "record"
             \/ a = proc[p].found /\ proc[p].pc = "looked" /\ proc[p].seen.state.claim # None
      BY <1>t, <1>2, <2>2 DEF NotedBy
    <3> HIDE DEF a
    <3>2. campaign[a].owner = d
      BY <1>o, <2>2, <3>1 DEF Owners
    <3>3. QED
      BY <1>o, <3>1, <3>2, OwnerKept DEF a
  <2>3. QED
    BY <1>2, <2>1, <2>2, ActiveMoves
<1>3. ASSUME NEW p \in Process, proc'[p].pc # "idle", proc'[p].seen.state.active # None
      PROVE  campaign'[proc'[p].seen.state.active].owner = proc'[p].d
  <2>1. CASE proc[p].pc # "idle" /\ proc'[p].d = proc[p].d /\ proc'[p].seen = proc[p].seen
    BY <1>o, <1>t, <1>3, <2>1, OwnerKept DEF Owners, Working
  <2>2. CASE /\ proc'[p].d \in DirectorId /\ proc'[p].seen = director[proc'[p].d]
             /\ UNCHANGED <<director, campaign>>
    BY <1>o, <1>3, <2>2 DEF Owners
  <2>3. QED
    BY <1>3, <2>1, <2>2, Copies DEF CopyMoves
<1>4. ASSUME NEW p \in Process, proc'[p].pc \in {"again", "record"}, proc'[p].found # None
      PROVE  campaign'[proc'[p].found].owner = proc'[p].d
  <2>1. CASE /\ proc[p].pc \in {"again", "record"} /\ proc'[p].d = proc[p].d
             /\ proc'[p].found = proc[p].found
    BY <1>o, <1>t, <1>4, <2>1, OwnerKept DEF Owners, Working
  <2>2. QED
    BY <1>4, <2>1, Copies DEF FoundMoves
<1>5. ASSUME NEW p \in Process, proc'[p].pc = "looked", proc'[p].found # None
      PROVE  /\ campaign'[proc'[p].found].status # "absent"
             /\ IF proc'[p].seen.state.claim # None
                THEN campaign'[proc'[p].found].owner = proc'[p].d
                ELSE Adopts
  <2>1. CASE proc'[p] = proc[p]
    <3>1. /\ proc[p].found \in Campaign /\ campaign[proc[p].found].status # "absent"
          /\ proc[p].d \in DirectorId
      BY <1>o, <1>t, <1>5, <2>1 DEF Owners, Working
    <3>2. campaign'[proc[p].found].status # "absent"
      <4> DEFINE c == proc[p].found
      <4>1. campaign[c] \in CampaignRow /\ c \in Campaign /\ campaign[c].status # "absent"
        BY <1>t, <3>1
      <4> HIDE DEF c
      <4>2. ASSUME NEW r \in Process, Takes(r, c) PROVE campaign'[c].status # "absent"
        BY <4>1, <4>2 DEF Takes, CampaignRow
      <4>3. ASSUME NEW r \in Process, Starts(r, c) PROVE FALSE
        BY <4>1, <4>3 DEF Starts
      <4>4. campaign'[c].status # "absent"
        BY <4>1, <4>2, <4>3, CampaignMoves DEF Rewritten, EndStatuses
      <4>5. QED
        BY <4>4 DEF c
    <3>3. QED
      BY <1>o, <1>5, <2>1, <3>1, <3>2, OwnerKept DEF Owners
  <2>2. CASE proc'[p] # proc[p]
    BY <1>5, <2>2, Copies DEF FoundMoves
  <2>3. QED
    BY <2>1, <2>2
<1>6. ASSUME NEW d \in DirectorId, director'[d].status = "completed" PROVE Frozen(d)'
  <2>1. ASSUME NEW c \in Campaign, campaign[c].owner = d, Froze(c)
        PROVE  Frozen(d)'
    BY <1>o, <2>1, OwnerKept DEF Frozen
  <2>2. CASE director[d].status = "completed"
    BY <2>1, <2>2 DEF OwnersInv, CompletedByFreeze, Froze
  <2>3. CASE director[d].status # "completed"
    BY <1>o, <1>t, <1>6, <2>1, <2>3, CompletedMoves DEF Owners, Froze
  <2>4. QED
    BY <2>2, <2>3
<1>7. Owners'
  BY <1>1, <1>2, <1>3, <1>4, <1>5 DEF Owners
<1>8. CompletedByFreeze'
  BY <1>6 DEF CompletedByFreeze, Frozen, Froze
<1>9. QED
  BY <1>7, <1>8 DEF OwnersInv

\* Whatever crashes, whoever else steps, stops, pauses, resumes or skips it, and
\* whoever writes its campaigns by id after an old read, a completed director has
\* a campaign that froze a candidate (step_director and
\* _process_director_campaign_outcome): its row says so, or the freeze was
\* overwritten.  With one director of the plan, or when campaigns are not
\* adopted; otherwise two directors can adopt one campaign.
THEOREM CompletedMeansFrozen ==
  ASSUME Solo
  PROVE  Spec => []CompletedByFreeze
<1>1. Init => OwnersInv
  BY OwnersInit
<1>2. TypeOK /\ Working /\ Known /\ OwnersInv /\ [Next]_vars => OwnersInv'
  BY OwnersStep
<1>3. OwnersInv => CompletedByFreeze
  BY DEF OwnersInv
<1>4. QED
  BY <1>1, <1>2, <1>3, WorkInvariant, PTL DEF Spec

-----------------------------------------------------------------------------
(***************************************************************************)
(* How many campaigns that a director launched are active.  A launch finds *)
(* no active campaign of its director, but inserts its own only later; by  *)
(* then each operation of a caller that is not over may have inserted one. *)
(* So what is active and the operations that may still insert are counted  *)
(* together, and the manager, when it is about to insert, has one to spare.*)
(***************************************************************************)

\* Where an operation of a caller can still get to an INSERT of a campaign.
Session == {"checked", "step", "row", "looked", "start", "insert",
            "stop", "pause", "resume", "skip"}
Unspent == {p \in Caller : proc[p].pc \in Session}

\* What a director launched is not for adoption, now or by who has looked.
Adoptables ==
  /\ \A c \in Campaign : campaign[c].launched =>
       campaign[c].owner \in DirectorId /\ campaign[c].status # "absent"
  /\ \A p \in Process :
       LET c == proc[p].found
       IN proc[p].pc = "looked" /\ proc[p].seen.state.claim = None /\ c # None =>
            c \in Campaign /\ ~ campaign[c].launched /\ campaign[c].status # "absent"

Counted ==
  /\ IsFiniteSet(Unspent) /\ Cardinality(Unspent) <= ops
  /\ \A d \in DirectorId :
       /\ Cardinality(LaunchedBy(d)) + Cardinality(Unspent) <= 1 + ops + late
       /\ proc[Manager].pc = "insert" /\ proc[Manager].d = d =>
            Cardinality(LaunchedBy(d)) + Cardinality(Unspent) <= ops + late

LEMMA CountedInit == Init => Adoptables /\ Counted
<1> SUFFICES ASSUME Init PROVE Adoptables /\ Counted
  OBVIOUS
<1>1. /\ \A p \in Process : proc[p].pc = "idle"
      /\ ops = 0 /\ late = 0 /\ Manager \in Process /\ Caller \subseteq Process
  BY DEF Init, Idle, Process
<1>2. Adoptables
  BY <1>1, CampaignsInit DEF Adoptables
<1>3. Unspent = {}
  BY <1>1 DEF Unspent, Session
<1>4. \A d \in DirectorId : LaunchedBy(d) = {}
  BY CampaignsInit DEF LaunchedBy, Owned
<1>5. IsFiniteSet({}) /\ Cardinality({}) = 0
  BY FS_EmptySet
<1>6. QED
  BY <1>1, <1>2, <1>3, <1>4, <1>5 DEF Counted

LEMMA LaunchedFinite ==
  ASSUME NEW d
  PROVE  IsFiniteSet(LaunchedBy(d)) /\ Cardinality(LaunchedBy(d)) \in Nat
<1>1. IsFiniteSet(Campaign)
  BY FS_Interval, DirectorAssumption DEF Campaign
<1>2. LaunchedBy(d) \in SUBSET Campaign
  BY DEF LaunchedBy, Owned
<1>3. QED
  BY <1>1, <1>2, FS_Subset, FS_CardinalityType

\* A step of a process takes it into a session only as an operation of a caller.
Enters(p) ==
  /\ p \in Caller /\ proc[p].pc = "idle" /\ ops' = ops + 1 /\ UNCHANGED campaign

LEMMA StepSessions ==
  ASSUME TypeOK, NEW p \in Caller,
         StepActions(p) \/ ControlActions(p) \/ LaunchRaises(p) \/ Crash(p),
         proc'[p].pc \in Session, proc[p].pc \notin Session
  PROVE  Enters(p)
<1>t. /\ proc \in [Process -> ProcRecord] /\ proc[p] \in ProcRecord
      /\ p \in Process /\ p # Manager
  BY TypeParts, DirectorAssumption DEF Process
<1>i. ~ Return(p)
  BY <1>t DEF Return, Idle, Session
<1>g. ASSUME NEW pc, Go(p, pc), pc \notin Session PROVE FALSE
  BY <1>g, <1>t DEF Go, ProcRecord
<1> DEFINE L == proc[p].pc
<1>1. ASSUME NEW d \in DirectorId, ReadRow(p, d) PROVE Enters(p)
  <2>1. L # "step"
    BY DEF Session
  <2>2. QED
    BY <1>1, <1>t, <2>1 DEF ReadRow, Enters
<1>2. ASSUME \/ InsertDirector(p) \/ Wait(p) \/ Look(p) \/ AdoptLaunched(p)
             \/ LaunchInProgress(p) \/ TakeNext(p) \/ StartCampaign(p) \/ InsertCampaign(p)
             \/ Stop(p) \/ Pause(p) \/ Resume(p) \/ Skip(p) \/ LaunchRaises(p)
      PROVE  FALSE
  BY <1>2 DEF InsertDirector, Wait, Look, AdoptLaunched, LaunchInProgress, TakeNext,
       StartCampaign, InsertCampaign, Stop, Pause, Resume, Skip, LaunchRaises, Session
<1>3. ASSUME Outcome(p) \/ Record(p) \/ Fail(p) \/ EndCampaign(p) \/ Crash(p) PROVE FALSE
  BY <1>3, <1>i DEF Outcome, OutcomeOf, Record, Fail, EndCampaign, Crash
<1>4. CASE ReadAgain(p)
  <2>1. proc'[p].pc = "record"
    BY <1>4, <1>t DEF ReadAgain, ProcRecord
  <2>2. QED
    BY <2>1 DEF Session
<1>5. CASE ReadToFail(p)
  BY <1>5, <1>i, <1>t DEF ReadToFail
<1>7. CASE StopCampaign(p)
  BY <1>7, <1>i, <1>g DEF StopCampaign, Session
<1>6. QED
  BY <1>1, <1>2, <1>3, <1>4, <1>5, <1>7 DEF StepActions, ControlActions

\* Only operations of callers are counted.
LEMMA OpsCounted ==
  ASSUME TypeOK, NEW p \in Process,
         StepActions(p) \/ ControlActions(p) \/ LaunchRaises(p) \/ Crash(p),
         ops' # ops
  PROVE  Enters(p) /\ ops' = ops + 1
<1>1. \E d \in DirectorId : ReadRow(p, d)
  BY DEF StepActions, ControlActions, LaunchRaises, Crash, InsertDirector, Wait, Look,
         AdoptLaunched, LaunchInProgress, TakeNext, StartCampaign, InsertCampaign, ReadAgain,
         Record, ReadToFail, Fail, Stop, StopCampaign, EndCampaign, Pause, Resume, Skip, Outcome,
         OutcomeOf
<1>2. QED
  BY <1>1 DEF ReadRow, Enters

LEMMA SessionMoves ==
  ASSUME TypeOK, [Next]_vars
  PROVE  \/ UNCHANGED ops /\ Unspent' \subseteq Unspent
         \/ \E p \in Caller : /\ ops' = ops + 1 /\ UNCHANGED campaign
                              /\ Unspent' \subseteq Unspent \cup {p}
                              /\ proc'[Manager] = proc[Manager]
<1> DEFINE Goal == \/ UNCHANGED ops /\ Unspent' \subseteq Unspent
                   \/ \E p \in Caller : /\ ops' = ops + 1 /\ UNCHANGED campaign
                                        /\ Unspent' \subseteq Unspent \cup {p}
                                        /\ proc'[Manager] = proc[Manager]
<1>t. /\ proc \in [Process -> ProcRecord] /\ Caller \subseteq Process
      /\ Manager \in Process /\ Manager \notin Caller
  BY TypeParts, DirectorAssumption DEF Process
<1>1. ASSUME NEW p \in Process,
             StepActions(p) \/ ControlActions(p) \/ LaunchRaises(p) \/ Crash(p)
      PROVE  Goal
  <2>1. \A s \in Process \ {p} : proc'[s] = proc[s]
    BY <1>1, <1>t, StepMoves, ControlMoves DEF LaunchRaises, Crash, Go, Return
  <2>2. CASE Enters(p) /\ ops' = ops + 1
    <3>1. p # Manager
      BY <2>2, <1>t DEF Enters
    <3>2. QED
      BY <1>t, <2>1, <2>2, <3>1 DEF Unspent, Enters
  <2>3. CASE ~ Enters(p)
    <3>1. UNCHANGED ops
      BY <1>1, <2>3, OpsCounted
    <3>2. \A s \in Caller : proc'[s].pc \in Session => proc[s].pc \in Session
      BY <1>1, <1>t, <2>1, <2>3, StepSessions
    <3>3. QED
      BY <3>1, <3>2 DEF Unspent
  <2>4. QED
    BY <2>2, <2>3 DEF Enters
<1>2. ASSUME NEW d \in DirectorId, AutoStart(d) PROVE Goal
  <2>1. \A s \in Caller : proc'[s] = proc[s]
    BY <1>2, <1>t DEF AutoStart
  <2>2. QED
    BY <1>2, <2>1 DEF AutoStart, Unspent
<1>3. ASSUME NEW p \in Caller, NEW d \in DirectorId,
             \/ CheckDuplicate(p, d)
             \/ \E act \in {"stop", "pause", "resume", "skip"} : ReadForControl(p, d, act)
      PROVE  Goal
  <2>1. /\ ops' = ops + 1 /\ UNCHANGED campaign
        /\ \E x : proc' = [proc EXCEPT ![p] = x]
    BY <1>3 DEF CheckDuplicate, ReadForControl
  <2>2. \A s \in Process \ {p} : proc'[s] = proc[s]
    BY <1>t, <2>1
  <2>3. QED
    BY <1>t, <2>1, <2>2 DEF Unspent
<1>4. CASE UNCHANGED <<proc, ops>>
  BY <1>4 DEF Unspent
<1>5. QED
  BY <1>1, <1>2, <1>3, <1>4 DEF Next, vars, ClaimAges, CampaignEnds, CampaignOverwritten

\* Only an INSERT makes a campaign run of which there was no row.
LEMMA OnlyInserts ==
  ASSUME TypeOK, [Next]_vars, NEW c \in Campaign,
         campaign[c].status = "absent", campaign'[c] # campaign[c],
         campaign'[c].status = "running"
  PROVE  \E p \in Process : InsertCampaign(p)
<1>t. campaign \in [Campaign -> CampaignRow] /\ campaign[c] \in CampaignRow
  BY TypeParts
<1>1. ASSUME NEW p \in Process, TakeNext(p) PROVE FALSE
  <2>1. \/ UNCHANGED campaign
        \/ \E x : campaign' = [campaign EXCEPT ![x].owner = proc[p].d]
    BY <1>1 DEF TakeNext
  <2>2. QED
    BY <2>1, <1>t DEF CampaignRow
<1>2. ASSUME NEW p \in Process, EndCampaign(p) PROVE campaign'[c].status = "stopped"
  <2>1. PICK x : Overwrite(x, "stopped")
    BY <1>2 DEF EndCampaign
  <2>2. x = c
    BY <2>1, <1>t DEF Overwrite
  <2>3. QED
    BY <2>1, <2>2, <1>t DEF Overwrite, CampaignRow
<1>3. ASSUME NEW x \in Campaign, CampaignEnds(x) PROVE FALSE
  BY <1>3, <1>t DEF CampaignEnds, ActiveCampaign, CampaignRow
<1>6. ASSUME NEW x \in Campaign, CampaignOverwritten(x) PROVE FALSE
  <2>1. /\ x # c
        /\ \E status : Overwrite(x, status)
    BY <1>6 DEF CampaignOverwritten, EndStatuses
  <2>2. QED
    BY <2>1, <1>t DEF Overwrite
<1>4. ASSUME NEW p \in Process, Outcome(p) PROVE FALSE
  BY <1>4 DEF Outcome, OutcomeOf
<1>5. QED
  BY <1>1, <1>2, <1>3, <1>4, <1>6, ZenonT(60)
     DEF Next, vars, StepActions, ControlActions, ReadRow, InsertDirector, Wait, Look,
         AdoptLaunched, LaunchInProgress, StartCampaign, ReadAgain, Record, ReadToFail,
         Fail, Stop, StopCampaign, Pause, Resume, Skip, LaunchRaises, Crash, AutoStart, ClaimAges,
         CheckDuplicate, ReadForControl

\* What a step may do to a campaign that is in the table.
LEMMA LaunchedKept ==
  ASSUME TypeOK, Working, Adoptables, [Next]_vars, NEW c \in Campaign
  PROVE  \/ campaign'[c] = campaign[c]
         \/ /\ campaign[c].status # "absent" /\ campaign'[c].status # "absent"
            /\ campaign'[c].launched = campaign[c].launched
            /\ campaign[c].launched => campaign'[c].owner = campaign[c].owner
            /\ campaign'[c].status = "running" => campaign[c].status = "running" \/ late' = late + 1
         \/ /\ campaign[c].status = "absent" /\ campaign'[c].status # "running"
            /\ ~ campaign'[c].launched
         \/ /\ campaign[c].status = "absent" /\ campaign'[c].status = "running"
            /\ \E p \in Process : Starts(p, c)
<1>t. /\ campaign[c] \in CampaignRow
      /\ \A p \in Process : proc[p] \in ProcRecord
      /\ c # None /\ Nobody \notin DirectorId
  BY TypeParts, DirectorAssumption DEF Campaign, None
<1>1. CASE Rewritten(c)
  <2>1. /\ campaign'[c].status # "absent"
        /\ campaign'[c].launched = campaign[c].launched
        /\ campaign'[c].owner = campaign[c].owner
        /\ campaign'[c].status = "running" => campaign[c].status # "absent" /\ late' = late + 1
    BY <1>1, <1>t DEF Rewritten, CampaignRow, EndStatuses
  <2>2. campaign[c].status = "absent" => ~ campaign[c].launched
    BY DEF Adoptables
  <2>3. QED
    BY <2>1, <2>2
<1>2. ASSUME NEW p \in Process, Takes(p, c)
      PROVE  /\ campaign[c].status # "absent" /\ campaign'[c].status # "absent"
             /\ campaign'[c].launched = campaign[c].launched
             /\ campaign[c].launched => campaign'[c].owner = campaign[c].owner
             /\ campaign'[c].status = "running" => campaign[c].status = "running"
  <2>1. ~ campaign[c].launched /\ campaign[c].status # "absent"
    BY <1>2, <1>t DEF Takes, Adoptables
  <2>2. campaign'[c].status = campaign[c].status /\ campaign'[c].launched = campaign[c].launched
    BY <1>2, <1>t DEF Takes, CampaignRow
  <2>3. QED
    BY <2>1, <2>2
<1>3. ASSUME NEW p \in Process, Starts(p, c)
      PROVE  campaign[c].status = "absent" /\ campaign'[c].status = "running"
  BY <1>3 DEF Starts
<1>4. QED
  BY <1>1, <1>2, <1>3, CampaignMoves

LEMMA AdoptablesStep ==
  ASSUME TypeOK, Working, Adoptables, [Next]_vars
  PROVE  Adoptables'
<1>t. Nobody \notin DirectorId /\ None \notin Campaign /\ campaign \in [Campaign -> CampaignRow]
  BY TypeParts, DirectorAssumption DEF Campaign, None
<1>1. ASSUME NEW c \in Campaign, campaign'[c].launched
      PROVE  campaign'[c].owner \in DirectorId /\ campaign'[c].status # "absent"
  <2>1. CASE campaign[c].launched
    <3>1. campaign[c].owner \in DirectorId /\ campaign[c].status # "absent"
      BY <2>1 DEF Adoptables
    <3>2. QED
      BY <2>1, <3>1, LaunchedKept
  <2>2. CASE ~ campaign[c].launched
    <3>1. PICK p \in Process : Starts(p, c)
      BY <1>1, <2>2, LaunchedKept
    <3>2. proc[p].d \in DirectorId
      BY <3>1 DEF Starts, Working
    <3>3. QED
      BY <3>1, <3>2 DEF Starts
  <2>3. QED
    BY <2>1, <2>2
<1>2. ASSUME NEW p \in Process, proc'[p].pc = "looked", proc'[p].seen.state.claim = None,
             proc'[p].found # None
      PROVE  LET c == proc'[p].found
             IN c \in Campaign /\ ~ campaign'[c].launched /\ campaign'[c].status # "absent"
  <2>1. CASE proc'[p] = proc[p]
    <3>1. PICK c \in Campaign :
            c = proc'[p].found /\ ~ campaign[c].launched /\ campaign[c].status # "absent"
      BY <1>2, <2>1 DEF Adoptables
    <3>2. ~ campaign'[c].launched /\ campaign'[c].status # "absent"
      BY <3>1, LaunchedKept
    <3>3. QED
      BY <3>1, <3>2
  <2>2. CASE proc'[p] # proc[p]
    <3>1. /\ proc'[p].found \in Campaign /\ UNCHANGED campaign
          /\ campaign[proc'[p].found].status = "running"
          /\ campaign[proc'[p].found].owner = Nobody
      BY <1>2, <2>2, Copies DEF FoundMoves
    <3>2. QED
      BY <1>t, <3>1 DEF Adoptables
  <2>3. QED
    BY <2>1, <2>2
<1>3. QED
  BY <1>1, <1>2 DEF Adoptables

\* An INSERT: one campaign more for one director, one operation less to insert.
LEMMA InsertCounts ==
  ASSUME TypeOK, Working, Adoptables, Counted, [Next]_vars,
         NEW p \in Process, InsertCampaign(p)
  PROVE  Counted'
<1>t. /\ proc \in [Process -> ProcRecord] /\ campaign \in [Campaign -> CampaignRow]
      /\ Manager \in Process /\ Manager \notin Caller /\ Caller \subseteq Process
      /\ ops \in Nat /\ late \in Nat
  BY TypeParts, DirectorAssumption DEF Process
<1> DEFINE n == First({x \in Campaign : campaign[x].status = "absent"})
           new == [status |-> "running", owner |-> proc[p].d, launched |-> TRUE, thawed |-> FALSE,
                   entry |-> proc[p].entry]
<1>1. /\ proc[p].pc = "insert" /\ UNCHANGED <<ops, late>>
      /\ campaign' = [campaign EXCEPT ![n] = new]
      /\ proc'[p].pc \in {"again", "handler"}
      /\ \A q \in Process \ {p} : proc'[q] = proc[q]
  BY <1>t DEF InsertCampaign, Go, ProcRecord
<1> HIDE DEF n
<1>2. \A d \in DirectorId : LaunchedBy(d)' \subseteq LaunchedBy(d) \cup {n}
  BY <1>t, <1>1 DEF LaunchedBy, Owned
<1>3. \A d \in DirectorId : d # proc[p].d => LaunchedBy(d)' \subseteq LaunchedBy(d)
  BY <1>t, <1>1 DEF LaunchedBy, Owned
<1>4. Unspent' \subseteq Unspent /\ (p \in Caller => Unspent' \subseteq Unspent \ {p} /\ p \in Unspent)
  BY <1>t, <1>1 DEF Unspent, Session
<1> DEFINE u  == Cardinality(Unspent)
           u2 == Cardinality(Unspent')
           l(d)  == Cardinality(LaunchedBy(d))
           l2(d) == Cardinality(LaunchedBy(d)')
<1>5. IsFiniteSet(Unspent) /\ u \in Nat
  BY FS_CardinalityType DEF Counted
<1>6. IsFiniteSet(Unspent') /\ u2 \in Nat /\ u2 <= u
  BY <1>4, <1>5, FS_Subset, FS_CardinalityType
<1>7. p \in Caller => u2 <= u - 1
  <2>1. SUFFICES ASSUME p \in Caller PROVE u2 <= u - 1
    OBVIOUS
  <2>2. IsFiniteSet(Unspent \ {p}) /\ Cardinality(Unspent \ {p}) = u - 1
    BY <1>4, <1>5, <2>1, FS_RemoveElement
  <2>3. QED
    BY <1>4, <2>1, <2>2, FS_Subset
<1>8. \A d \in DirectorId : l(d) \in Nat /\ IsFiniteSet(LaunchedBy(d))
  BY LaunchedFinite
<1>9. \A d \in DirectorId : l2(d) \in Nat /\ l2(d) <= l(d) + 1
                            /\ (d # proc[p].d => l2(d) <= l(d))
  <2> TAKE d \in DirectorId
  <2>0. IsFiniteSet(LaunchedBy(d)) /\ Cardinality(LaunchedBy(d)) \in Nat
    BY LaunchedFinite
  <2>1. /\ IsFiniteSet(LaunchedBy(d) \cup {n})
        /\ Cardinality(LaunchedBy(d) \cup {n}) <= l(d) + 1
    BY <2>0, FS_AddElement
  <2>2. IsFiniteSet(LaunchedBy(d)') /\ l2(d) \in Nat /\ l2(d) <= Cardinality(LaunchedBy(d) \cup {n})
    BY <1>2, <2>1, FS_Subset, FS_CardinalityType
  <2>3. d # proc[p].d => l2(d) <= l(d)
    BY <1>3, <1>8, FS_Subset
  <2>4. Cardinality(LaunchedBy(d) \cup {n}) \in Nat
    BY <2>1, FS_CardinalityType
  <2>5. QED
    BY <1>8, <2>1, <2>2, <2>3, <2>4
<1>10. u <= ops /\ \A d \in DirectorId :
         /\ l(d) + u <= 1 + ops + late
         /\ proc[Manager].pc = "insert" /\ proc[Manager].d = d => l(d) + u <= ops + late
  BY DEF Counted
<1> HIDE DEF u, u2, l, l2
<1>11. ASSUME NEW d \in DirectorId
       PROVE  /\ l2(d) + u2 <= 1 + ops + late
              /\ proc'[Manager].pc = "insert" /\ proc'[Manager].d = d => l2(d) + u2 <= ops + late
  <2>1. CASE p \in Caller
    <3>1. proc'[Manager] = proc[Manager]
      BY <1>t, <1>1, <2>1
    <3>2. l2(d) + u2 <= l(d) + u
      BY <1>5, <1>6, <1>7, <1>8, <1>9, <2>1
    <3>3. QED
      BY <1>t, <1>5, <1>6, <1>8, <1>9, <1>10, <3>1, <3>2
  <2>2. CASE p = Manager
    <3>1. proc'[Manager].pc # "insert"
      BY <1>1, <2>2
    <3>2. CASE d = proc[p].d
      <4>1. l(d) + u <= ops + late
        BY <1>1, <1>10, <2>2, <3>2
      <4>2. QED
        BY <1>t, <1>5, <1>6, <1>8, <1>9, <3>1, <4>1
    <3>3. CASE d # proc[p].d
      BY <1>t, <1>5, <1>6, <1>8, <1>9, <1>10, <3>1, <3>3
    <3>4. QED
      BY <3>2, <3>3
  <2>3. QED
    BY <2>1, <2>2 DEF Process
<1>12. u2 <= ops
  BY <1>t, <1>5, <1>6, <1>10
<1>13. QED
  BY <1>1, <1>6, <1>11, <1>12 DEF Counted, u2, l2

\* The manager gets to an INSERT when its director has no active campaign.
LEMMA ManagerStartsAlone ==
  ASSUME TypeOK, Working, [Next]_vars,
         proc'[Manager].pc = "insert", proc'[Manager] # proc[Manager]
  PROVE  /\ UNCHANGED <<campaign, ops>> /\ proc'[Manager].d = proc[Manager].d
         /\ ActiveOf(proc[Manager].d) = {}
<1>t. /\ proc \in [Process -> ProcRecord] /\ proc[Manager] \in ProcRecord
      /\ Manager \in Process /\ Manager \notin Caller /\ Caller \subseteq Process
  BY TypeParts, DirectorAssumption DEF Process
<1>i. ~ Return(Manager)
  BY <1>t DEF Return, Idle
<1>g. ASSUME NEW pc, Go(Manager, pc) PROVE pc = "insert"
  BY <1>g, <1>t DEF Go, ProcRecord
<1>1. ASSUME NEW p \in Process,
             StepActions(p) \/ ControlActions(p) \/ LaunchRaises(p) \/ Crash(p)
      PROVE  p = Manager
  BY <1>1, <1>t, StepMoves, ControlMoves DEF LaunchRaises, Crash, Go, Return
<1>2. ASSUME NEW d \in DirectorId, ReadRow(Manager, d) PROVE FALSE
  <2>1. proc' = [proc EXCEPT ![Manager] =
                   [Idle EXCEPT !.pc = "row", !.d = d, !.seen = director[d]]]
    BY <1>2, <1>i DEF ReadRow
  <2>2. proc'[Manager].pc = "row"
    BY <1>t, <2>1 DEF Idle
  <2>3. QED
    BY <2>2
<1>3. ASSUME \/ InsertDirector(Manager) \/ Wait(Manager) \/ Outcome(Manager)
             \/ AdoptLaunched(Manager) \/ LaunchInProgress(Manager) \/ Record(Manager)
             \/ Fail(Manager) \/ Stop(Manager) \/ StopCampaign(Manager) \/ EndCampaign(Manager)
             \/ Pause(Manager) \/ Resume(Manager) \/ Skip(Manager) \/ LaunchRaises(Manager) \/ Crash(Manager)
      PROVE  FALSE
  BY <1>3, <1>i, <1>g DEF InsertDirector, Wait, Outcome, OutcomeOf, AdoptLaunched,
       LaunchInProgress, Record, Fail, Stop, StopCampaign, EndCampaign, Pause,
       Resume, Skip, LaunchRaises, Crash
<1>4. ASSUME \/ Go(Manager, "handler")
             \/ \E c : proc' = [proc EXCEPT ![Manager].pc = "looked", ![Manager].found = c]
             \/ \E c : proc' = [proc EXCEPT ![Manager].pc = "again", ![Manager].found = c]
             \/ \E e : proc' = [proc EXCEPT ![Manager].pc = "start", ![Manager].entry = e]
             \/ \E x : proc' = [proc EXCEPT ![Manager].pc = "record", ![Manager].seen = x]
             \/ \E x : proc' = [proc EXCEPT ![Manager].pc = "failing", ![Manager].seen = x]
      PROVE  FALSE
  BY <1>4, <1>g, <1>t DEF ProcRecord
<1>5. ASSUME \/ Look(Manager) \/ TakeNext(Manager) \/ InsertCampaign(Manager)
             \/ ReadAgain(Manager) \/ ReadToFail(Manager)
      PROVE  FALSE
  BY <1>4, <1>5, <1>i DEF Look, TakeNext, InsertCampaign, ReadAgain, ReadToFail
<1>6. CASE StartCampaign(Manager)
  <2> DEFINE d == proc[Manager].d
             e == proc[Manager].entry
  <2>1. /\ UNCHANGED <<campaign, ops>>
        /\ IF Conflict(d, e) THEN Go(Manager, "handler")
           ELSE IF Launched(d, e) # {}
           THEN \E c \in Launched(d, e) :
                  proc' = [proc EXCEPT ![Manager].pc = "again", ![Manager].found = c]
           ELSE Go(Manager, "insert")
    BY <1>6 DEF StartCampaign
  <2>2. ~ Conflict(d, e) /\ Launched(d, e) = {} /\ Go(Manager, "insert")
    BY <1>4, <2>1
  <2>3. QED
    BY <1>t, <2>1, <2>2 DEF Conflict, Go, ProcRecord
<1>7. ASSUME NEW d \in DirectorId, AutoStart(d) PROVE FALSE
  <2>1. proc'[Manager].pc = "checked"
    BY <1>7, <1>t DEF AutoStart, Idle
  <2>2. QED
    BY <2>1
<1>8. ASSUME NEW p \in Caller, NEW d \in DirectorId,
             \/ CheckDuplicate(p, d)
             \/ \E act \in {"stop", "pause", "resume", "skip"} : ReadForControl(p, d, act)
      PROVE  FALSE
  BY <1>8, <1>t DEF CheckDuplicate, ReadForControl
<1>9. QED
  BY <1>1, <1>2, <1>3, <1>5, <1>6, <1>7, <1>8
     DEF Next, vars, StepActions, ControlActions, ClaimAges, CampaignEnds,
         CampaignOverwritten

\* Only the overwriting of an end is counted as late.
LEMMA LateMoves ==
  ASSUME [Next]_vars
  PROVE  late' = late \/ \E c \in Campaign : CampaignOverwritten(c)
<1>1. ASSUME NEW p \in Process, StepActions(p) PROVE late' = late
  BY <1>1 DEF StepActions, ReadRow, InsertDirector, Wait, Outcome, OutcomeOf, Look,
       AdoptLaunched, LaunchInProgress, TakeNext, StartCampaign, InsertCampaign, ReadAgain,
       Record, ReadToFail, Fail
<1>2. ASSUME NEW p \in Process, ControlActions(p) PROVE late' = late
  BY <1>2 DEF ControlActions, Stop, StopCampaign, EndCampaign, Pause, Resume, Skip
<1>3. QED
  BY <1>1, <1>2 DEF Next, vars, LaunchRaises, Crash, AutoStart, ClaimAges, CheckDuplicate,
       ReadForControl, CampaignEnds

\* An end is overwritten: at most one campaign runs again, and it is counted.
LEMMA OverwriteCounts ==
  ASSUME TypeOK, Counted, NEW c \in Campaign, CampaignOverwritten(c)
  PROVE  Counted'
<1>1. /\ late' = late + 1 /\ UNCHANGED <<proc, ops>>
      /\ \E status : Overwrite(c, status)
      /\ ops \in Nat /\ late \in Nat
  BY TypeParts, DirectorAssumption DEF CampaignOverwritten
<1>2. \A d \in DirectorId : LaunchedBy(d)' \subseteq LaunchedBy(d) \cup {c}
  <2>1. \A x \in Campaign \ {c} : campaign'[x] = campaign[x]
    BY <1>1, TypeParts DEF Overwrite
  <2>2. QED
    BY <2>1 DEF LaunchedBy, Owned
<1>3. Unspent' = Unspent
  BY <1>1 DEF Unspent
<1> DEFINE u  == Cardinality(Unspent)
           l(d)  == Cardinality(LaunchedBy(d))
           l2(d) == Cardinality(LaunchedBy(d)')
<1>4. IsFiniteSet(Unspent) /\ u \in Nat
  BY FS_CardinalityType DEF Counted
<1>5. \A d \in DirectorId : l(d) \in Nat /\ l2(d) \in Nat /\ l2(d) <= l(d) + 1
  <2> TAKE d \in DirectorId
  <2>0. IsFiniteSet(LaunchedBy(d)) /\ Cardinality(LaunchedBy(d)) \in Nat
    BY LaunchedFinite
  <2>1. /\ IsFiniteSet(LaunchedBy(d) \cup {c})
        /\ Cardinality(LaunchedBy(d) \cup {c}) <= l(d) + 1
        /\ Cardinality(LaunchedBy(d) \cup {c}) \in Nat
    BY <2>0, FS_AddElement, FS_CardinalityType
  <2>2. l2(d) \in Nat /\ l2(d) <= Cardinality(LaunchedBy(d) \cup {c})
    BY <1>2, <2>1, FS_Subset, FS_CardinalityType
  <2>3. QED
    BY <2>0, <2>1, <2>2
<1>6. u <= ops /\ \A d \in DirectorId :
        /\ l(d) + u <= 1 + ops + late
        /\ proc[Manager].pc = "insert" /\ proc[Manager].d = d => l(d) + u <= ops + late
  BY DEF Counted
<1> HIDE DEF u, l, l2
<1>7. \A d \in DirectorId :
        /\ l2(d) + u <= 1 + ops + late'
        /\ proc[Manager].pc = "insert" /\ proc[Manager].d = d => l2(d) + u <= ops + late'
  BY <1>1, <1>4, <1>5, <1>6
<1>8. QED
  BY <1>1, <1>3, <1>4, <1>6, <1>7 DEF Counted, u, l2

LEMMA CountedStep ==
  ASSUME TypeOK, Working, Adoptables, Counted, [Next]_vars
  PROVE  Counted'
<1>1. CASE \E p \in Process : InsertCampaign(p)
  BY <1>1, InsertCounts
<1>2. CASE \E c \in Campaign : CampaignOverwritten(c)
  BY <1>2, OverwriteCounts
<1>3. CASE /\ ~ \E p \in Process : InsertCampaign(p)
           /\ ~ \E c \in Campaign : CampaignOverwritten(c)
  <2>0. late' = late
    BY <1>3, LateMoves
  <2>t. ops \in Nat /\ late \in Nat /\ Nobody \notin DirectorId
    BY TypeParts, DirectorAssumption
  <2> DEFINE u  == Cardinality(Unspent)
             u2 == Cardinality(Unspent')
             l(d)  == Cardinality(LaunchedBy(d))
             l2(d) == Cardinality(LaunchedBy(d)')
  <2>1. \A d \in DirectorId : LaunchedBy(d)' \subseteq LaunchedBy(d)
    <3> TAKE d \in DirectorId
    <3>1. ASSUME NEW c \in Campaign, campaign'[c].owner = d, campaign'[c].status = "running",
                 campaign'[c].launched
          PROVE  campaign[c].owner = d /\ campaign[c].status = "running" /\ campaign[c].launched
      <4>1. campaign[c].status = "absent" => campaign'[c] = campaign[c]
        BY <1>3, <3>1, OnlyInserts
      <4>2. QED
        BY <2>0, <2>t, <3>1, <4>1, LaunchedKept
    <3>2. QED
      BY <3>1 DEF LaunchedBy, Owned
  <2>2. \A d \in DirectorId : /\ l(d) \in Nat /\ l2(d) \in Nat /\ l2(d) <= l(d)
    BY <2>1, LaunchedFinite, FS_Subset, FS_CardinalityType
  <2>3. IsFiniteSet(Unspent) /\ u \in Nat
    BY FS_CardinalityType DEF Counted
  <2>4. u <= ops /\ \A d \in DirectorId :
          /\ l(d) + u <= 1 + ops + late
          /\ proc[Manager].pc = "insert" /\ proc[Manager].d = d => l(d) + u <= ops + late
    BY DEF Counted
  <2>5. CASE UNCHANGED ops /\ Unspent' \subseteq Unspent
    <3>1. IsFiniteSet(Unspent') /\ u2 \in Nat /\ u2 <= u
      BY <2>3, <2>5, FS_Subset, FS_CardinalityType
    <3>2. ASSUME NEW d \in DirectorId, proc'[Manager].pc = "insert", proc'[Manager].d = d,
                 proc'[Manager] # proc[Manager]
          PROVE  l2(d) = 0
      <4>1. ActiveOf(d) = {} /\ UNCHANGED campaign
        BY <3>2, ManagerStartsAlone
      <4>2. LaunchedBy(d)' = {}
        BY <4>1 DEF LaunchedBy, Owned, ActiveOf, ActiveCampaign
      <4>3. QED
        BY <4>2, FS_EmptySet
    <3> HIDE DEF u, u2, l, l2
    <3>3. ASSUME NEW d \in DirectorId
          PROVE  /\ l2(d) + u2 <= 1 + ops + late
                 /\ proc'[Manager].pc = "insert" /\ proc'[Manager].d = d => l2(d) + u2 <= ops + late
      <4>1. CASE proc'[Manager] = proc[Manager]
        BY <2>t, <2>2, <2>3, <2>4, <3>1, <4>1
      <4>2. CASE proc'[Manager] # proc[Manager]
        BY <2>t, <2>2, <2>3, <2>4, <3>1, <3>2, <4>2
      <4>3. QED
        BY <4>1, <4>2
    <3>4. u2 <= ops
      BY <2>t, <2>3, <2>4, <3>1
    <3>5. QED
      BY <2>0, <2>5, <3>1, <3>3, <3>4 DEF Counted, u2, l2
  <2>6. ASSUME NEW p \in Caller, ops' = ops + 1, UNCHANGED campaign,
               Unspent' \subseteq Unspent \cup {p}, proc'[Manager] = proc[Manager]
        PROVE  Counted'
    <3>1. IsFiniteSet(Unspent \cup {p}) /\ Cardinality(Unspent \cup {p}) <= u + 1
      BY <2>3, FS_AddElement
    <3>2. IsFiniteSet(Unspent') /\ u2 \in Nat /\ u2 <= Cardinality(Unspent \cup {p})
          /\ Cardinality(Unspent \cup {p}) \in Nat
      BY <2>6, <3>1, FS_Subset, FS_CardinalityType
    <3> HIDE DEF u, u2, l, l2
    <3>3. u2 <= u + 1
      BY <2>3, <3>1, <3>2
    <3>4. \A d \in DirectorId :
            /\ l2(d) + u2 <= 1 + ops' + late
            /\ proc'[Manager].pc = "insert" /\ proc'[Manager].d = d => l2(d) + u2 <= ops' + late
      BY <2>t, <2>2, <2>3, <2>4, <2>6, <3>2, <3>3
    <3>5. u2 <= ops'
      BY <2>t, <2>3, <2>4, <2>6, <3>2, <3>3
    <3>6. QED
      BY <2>0, <3>2, <3>4, <3>5 DEF Counted, u2, l2
  <2>7. QED
    BY <2>5, <2>6, SessionMoves
<1>4. QED
  BY <1>1, <1>2, <1>3

\* However many directors, callers and campaigns there are, whatever is adopted
\* and whoever crashes, the campaigns a director launched that are active are one,
\* one for each operation of a caller and one for each end of a campaign that is
\* overwritten (step_director, start_campaign and the writes of campaigns by id).
THEOREM LaunchesStayBounded == Spec => []LaunchesBounded
<1>1. Init => Adoptables /\ Counted
  BY CountedInit
<1>2. TypeOK /\ Working /\ Adoptables /\ Counted /\ [Next]_vars => Adoptables' /\ Counted'
  BY AdoptablesStep, CountedStep
<1>3. TypeOK /\ Counted => LaunchesBounded
  <2> SUFFICES ASSUME TypeOK, Counted, NEW d \in DirectorId
               PROVE  Cardinality(LaunchedBy(d)) <= 1 + ops + late
    BY DEF LaunchesBounded
  <2>1. Cardinality(Unspent) \in Nat /\ Cardinality(LaunchedBy(d)) \in Nat
        /\ ops \in Nat /\ late \in Nat
    BY LaunchedFinite, FS_CardinalityType, TypeParts, DirectorAssumption DEF Counted
  <2>2. QED
    BY <2>1 DEF Counted
<1>4. QED
  BY <1>1, <1>2, <1>3, WorkInvariant, PTL DEF Spec

-----------------------------------------------------------------------------
(***************************************************************************)
(* As long as no caller interferes and no end of a campaign is overwritten *)
(* (Calm), the manager loses no launch, wherever it crashes and whatever   *)
(* campaigns do meanwhile: every active campaign of a running director is  *)
(* the one it waits for or the one its claim leads to, and a director is   *)
(* exhausted only after a campaign for every entry.  For any number of     *)
(* directors, entries, campaigns and crashes.                              *)
(***************************************************************************)

-----------------------------------------------------------------------------
(* The invariant.  Its parts take the rows as arguments, so that the lemmas *)
(* about them can be cited for the rows before and after a step.            *)

Running(d, camp)  == {c \in Campaign : camp[c].owner = d /\ camp[c].status = "running"}
Tried(d, e, camp) == \E c \in Campaign : camp[c].owner = d /\ camp[c].entry = e

\* A queue and its claim tell of every launch: the only active campaign is the
\* active one or belongs to the claim, an entry that runs had a campaign, and
\* one that is launching is the claim.
Fits(d, st, camp) ==
  /\ \A c \in Running(d, camp) : \/ st.active = c
                                 \/ st.active = None /\ st.claim = camp[c].entry
  /\ \A b, c \in Running(d, camp) : b = c
  /\ \A e \in Entry :
       /\ st.queue[e] # "skipped"
       /\ st.queue[e] = "running" => Tried(d, e, camp)
       /\ st.queue[e] = "launching" => st.claim = e

RowFits(d, row, camp) ==
  /\ row.status = "absent" => row.state = FreshState /\ Running(d, camp) = {}
  /\ row.status = "running" => Fits(d, row.state, camp)
  /\ row.status = "exhausted" => \A e \in Entry : Tried(d, e, camp)

RowsInUse(camp) ==
  \A c \in Campaign : IF camp[c].status = "absent" THEN camp[c].owner = Nobody
                                                   ELSE camp[c].entry # None

Busy == {"row", "looked", "start", "insert", "again", "record", "handler", "failing"}

\* What the manager, in the state q, knows of the row of its director.
Progress(q, row, camp) ==
  /\ q.pc \in Busy => row.status = "running"
  /\ q.pc \in {"row", "looked", "record"} => q.seen = row
  /\ q.pc = "looked" =>
       /\ row.state.active = None
       /\ q.found # None => /\ camp[q.found].status # "absent"
                            /\ IF row.state.claim # None
                               THEN /\ camp[q.found].owner = q.d
                                    /\ camp[q.found].entry = row.state.claim
                               ELSE /\ camp[q.found].owner = Nobody
                                    /\ camp[q.found].entry = First(Pending(row.state.queue))
       /\ IF row.state.claim # None THEN Running(q.d, camp) \subseteq {q.found}
                                    ELSE Running(q.d, camp) = {}
  /\ q.pc \in {"start", "insert", "again", "record"} =>
       row.state.active = None /\ row.state.claim = q.entry /\ q.entry # None
  /\ q.pc = "insert" => Running(q.d, camp) = {}
  /\ q.pc \in {"again", "record"} =>
       /\ q.found # None
       /\ camp[q.found].owner = q.d /\ camp[q.found].entry = q.entry
       /\ Running(q.d, camp) \subseteq {q.found}

Undisturbed ==
  Calm =>
    /\ \A p \in Caller : proc[p].pc = "idle"
    /\ RowsInUse(campaign)
    /\ \A d \in DirectorId : RowFits(d, director[d], campaign)
    /\ Progress(proc[Manager], director[proc[Manager].d], campaign)

LEMMA UndisturbedInit == Init => Undisturbed
<1> SUFFICES ASSUME Init PROVE Undisturbed
  OBVIOUS
<1>1. \A c \in Campaign : campaign[c].owner = Nobody
                          /\ (campaign[c].status # "absent" => campaign[c].entry # None)
  <2>1. \A e \in Entry : e # None
    BY DEF Entry, None
  <2>2. QED
    BY <2>1, CampaignsInit
<1>2. RowsInUse(campaign)
  BY <1>1 DEF RowsInUse
<1>3. ASSUME NEW d \in DirectorId PROVE RowFits(d, director[d], campaign)
  BY <1>1, DirectorAssumption DEF Init, RowFits, Running, Absent
<1>4. /\ \A p \in Caller : proc[p].pc = "idle"
      /\ proc[Manager].pc = "idle"
  BY DEF Init, Process, Idle
<1>5. QED
  BY <1>2, <1>3, <1>4 DEF Undisturbed, Progress, Busy

-----------------------------------------------------------------------------
(* What a change of the campaigns leaves alone.                             *)

\* No campaign of d becomes active, and none is lost.
Less(d, camp, camp2) ==
  /\ \A c \in Running(d, camp2) : c \in Running(d, camp) /\ camp2[c].entry = camp[c].entry
  /\ \A e \in Entry : Tried(d, e, camp) => Tried(d, e, camp2)

LEMMA LessFits ==
  ASSUME NEW d, NEW row, NEW camp, NEW camp2, RowFits(d, row, camp), Less(d, camp, camp2)
  PROVE  RowFits(d, row, camp2)
<1>1. CASE row.status = "running"
  BY <1>1 DEF RowFits, Fits, Less
<1>2. row.status = "absent" => row.state = FreshState /\ Running(d, camp2) = {}
  BY DEF RowFits, Less
<1>3. row.status = "exhausted" => \A e \in Entry : Tried(d, e, camp2)
  BY DEF RowFits, Less
<1>4. QED
  BY <1>1, <1>2, <1>3 DEF RowFits

LEMMA LessSame == ASSUME NEW d, NEW camp PROVE Less(d, camp, camp)
BY DEF Less

\* A campaign that nobody launched is taken over by d.
LEMMA TakeOver ==
  ASSUME campaign \in [Campaign -> CampaignRow], NEW c \in Campaign, NEW d \in DirectorId,
         campaign[c].owner = Nobody, campaign[c].status # "absent", RowsInUse(campaign),
         campaign' = [campaign EXCEPT ![c].owner = d]
  PROVE  /\ \A x \in DirectorId \ {d} : Less(x, campaign, campaign')
         /\ Running(d, campaign') \subseteq Running(d, campaign) \cup {c}
         /\ Tried(d, campaign[c].entry, campaign')
         /\ \A e \in Entry : Tried(d, e, campaign) => Tried(d, e, campaign')
         /\ RowsInUse(campaign')
<1>1. /\ campaign'[c].owner = d /\ campaign'[c].status = campaign[c].status /\ campaign'[c].entry = campaign[c].entry
      /\ \A b \in Campaign \ {c} : campaign'[b] = campaign[b]
  BY DEF CampaignRow
<1>2. ASSUME NEW x \in DirectorId, NEW e, Tried(x, e, campaign) PROVE Tried(x, e, campaign')
  BY <1>1, <1>2, DirectorAssumption DEF Tried
<1>3. \A x \in DirectorId \ {d} : Running(x, campaign') \subseteq Running(x, campaign)
  BY <1>1 DEF Running
<1>4. \A b \in Campaign : campaign'[b].entry = campaign[b].entry
  BY <1>1
<1>5. \A x \in DirectorId \ {d} : Less(x, campaign, campaign')
  BY <1>2, <1>3, <1>4 DEF Less, Running
<1>6. Running(d, campaign') \subseteq Running(d, campaign) \cup {c}
  BY <1>1 DEF Running
<1>7. Tried(d, campaign[c].entry, campaign')
  BY <1>1 DEF Tried
<1>8. RowsInUse(campaign')
  BY <1>1 DEF RowsInUse
<1>9. QED
  BY <1>2, <1>5, <1>6, <1>7, <1>8

\* A campaign is inserted for entry e of d.
LEMMA TakeIn ==
  ASSUME campaign \in [Campaign -> CampaignRow], NEW c \in Campaign, NEW d \in DirectorId,
         NEW e \in Entry, campaign[c].status = "absent", RowsInUse(campaign),
         campaign' = [campaign EXCEPT ![c] = [status |-> "running", owner |-> d, launched |-> TRUE, thawed |-> FALSE,
                                             entry |-> e]]
  PROVE  /\ \A x \in DirectorId \ {d} : Less(x, campaign, campaign')
         /\ Running(d, campaign') \subseteq Running(d, campaign) \cup {c}
         /\ campaign'[c].owner = d /\ campaign'[c].entry = e
         /\ \A f \in Entry : Tried(d, f, campaign) => Tried(d, f, campaign')
         /\ RowsInUse(campaign')
<1>1. /\ campaign'[c] = [status |-> "running", owner |-> d, launched |-> TRUE, thawed |-> FALSE,
                                             entry |-> e]
      /\ \A b \in Campaign \ {c} : campaign'[b] = campaign[b]
      /\ campaign[c].owner = Nobody /\ e # None
  BY DEF RowsInUse, Entry, None
<1>2. ASSUME NEW x \in DirectorId, NEW f, Tried(x, f, campaign) PROVE Tried(x, f, campaign')
  BY <1>1, <1>2, DirectorAssumption DEF Tried
<1>3. QED
  BY <1>1, <1>2 DEF Less, Running, RowsInUse

\* A campaign ends.
LEMMA TakeOut ==
  ASSUME campaign \in [Campaign -> CampaignRow], NEW c \in Campaign,
         campaign[c].status = "running", RowsInUse(campaign),
         NEW status \in EndStatuses,
         campaign' = [campaign EXCEPT ![c].status = status]
  PROVE  /\ \A x : Less(x, campaign, campaign')
         /\ \A b \in Campaign : /\ campaign'[b].owner = campaign[b].owner
                                /\ campaign'[b].entry = campaign[b].entry
                                /\ campaign'[b].status = "absent" <=> campaign[b].status = "absent"
         /\ RowsInUse(campaign')
<1>1. /\ campaign'[c].owner = campaign[c].owner /\ campaign'[c].status = status
      /\ campaign'[c].entry = campaign[c].entry
      /\ \A b \in Campaign \ {c} : campaign'[b] = campaign[b]
  BY DEF CampaignRow
<1>2. QED
  BY <1>1 DEF Less, Running, Tried, RowsInUse, EndStatuses

-----------------------------------------------------------------------------
(* What a step has to show.                                                 *)

LEMMA NoProgress ==
  ASSUME NEW q, NEW row, NEW camp, q.pc \notin Busy
  PROVE  Progress(q, row, camp)
BY DEF Progress, Busy

\* The row of d after a write of its state, or after its end.
LEMMA Written ==
  ASSUME TypeOK, NEW d \in DirectorId, NEW state, NEW current, NEW seen, NEW status,
         UpdateState(d, state, current) \/ Finish(d, seen, status)
  PROVE  /\ \A x \in DirectorId \ {d} : director'[x] = director[x]
         /\ \/ director'[d].status = director[d].status /\ director'[d].state = state
            \/ director'[d].status = status
BY TypeParts DEF UpdateState, Finish, Row

\* The manager has worked on d.
LEMMA Worked ==
  ASSUME Undisturbed, Calm, NEW d \in DirectorId,
         \A p \in Caller : proc'[p] = proc[p],
         \A x \in DirectorId \ {d} :
           director'[x] = director[x] /\ Less(x, campaign, campaign'),
         RowFits(d, director'[d], campaign'),
         RowsInUse(campaign'),
         Progress(proc'[Manager], director'[proc'[Manager].d], campaign')
  PROVE  Undisturbed'
<1>1. ASSUME NEW x \in DirectorId PROVE RowFits(x, director'[x], campaign')
  BY LessFits DEF Undisturbed
<1>2. QED
  BY <1>1 DEF Undisturbed

\* The manager has read, looked or returned.
LEMMA OnlyRead ==
  ASSUME Undisturbed, Calm, UNCHANGED <<director, campaign>>,
         \A p \in Caller : proc'[p] = proc[p],
         Progress(proc'[Manager], director[proc'[Manager].d], campaign)
  PROVE  Undisturbed'
BY DEF Undisturbed

-----------------------------------------------------------------------------
(* The steps of the manager.                                                *)

\* Before it launches: it inserts a director, reads, looks, adopts, claims.
LEMMA ManagerSteps ==
  ASSUME TypeOK, Working, Known, Undisturbed, Calm, Calm',
         \/ \E d \in DirectorId : ReadRow(Manager, d)
         \/ InsertDirector(Manager) \/ Wait(Manager) \/ Outcome(Manager) \/ Look(Manager)
         \/ AdoptLaunched(Manager) \/ LaunchInProgress(Manager) \/ TakeNext(Manager)
  PROVE  Undisturbed'
<1> DEFINE q == proc[Manager]
           d == q.d
           row == director[d]
           st == row.state
<1>t. /\ Manager \in Process /\ Caller \subseteq Process /\ Manager \notin Caller
      /\ proc \in [Process -> ProcRecord] /\ q \in ProcRecord
      /\ director \in [DirectorId -> Row] /\ campaign \in [Campaign -> CampaignRow]
      /\ \A x \in DirectorId : director[x] \in Row /\ director[x].state \in State
  BY TypeParts, DirectorAssumption DEF Process, Row
<1>n. None \notin Campaign /\ None \notin Entry /\ Entry \in SUBSET Nat
  BY DEF Campaign, Entry, None
<1>u. /\ RowsInUse(campaign) /\ Progress(q, row, campaign)
      /\ \A x \in DirectorId : RowFits(x, director[x], campaign)
      /\ q.pc # "idle" => d \in DirectorId
  BY <1>t DEF Undisturbed, Working
<1>r. ASSUME Return(Manager)
      PROVE  /\ \A p \in Caller : proc'[p] = proc[p]
             /\ \A rw, camp : Progress(proc'[Manager], rw, camp)
  <2>1. /\ proc'[Manager].pc = "idle"
        /\ \A p \in Caller : proc'[p] = proc[p]
    BY <1>r, <1>t DEF Return, Idle
  <2>2. QED
    BY <2>1, NoProgress DEF Busy
<1>g. ASSUME NEW pc, Go(Manager, pc)
      PROVE  /\ proc'[Manager] = [q EXCEPT !.pc = pc]
             /\ \A p \in Caller : proc'[p] = proc[p]
  BY <1>g, <1>t DEF Go
<1>1. ASSUME NEW x \in DirectorId, ReadRow(Manager, x) PROVE Undisturbed'
  <2>1. CASE IsActive(x)
    <3>1. /\ proc' = [proc EXCEPT ![Manager] = [Idle EXCEPT !.pc = "row", !.d = x,
                                                            !.seen = director[x]]]
          /\ UNCHANGED <<director, campaign>> /\ director[x].status = "running"
      BY <1>1, <2>1 DEF ReadRow, IsActive
    <3>2. /\ proc'[Manager].pc = "row" /\ proc'[Manager].d = x
          /\ proc'[Manager].seen = director[x]
          /\ \A p \in Caller : proc'[p] = proc[p]
      BY <3>1, <1>t DEF Idle
    <3>3. Progress(proc'[Manager], director[x], campaign)
      BY <3>1, <3>2 DEF Progress
    <3>4. QED
      BY <3>1, <3>2, <3>3, OnlyRead
  <2>2. CASE ~IsActive(x)
    BY <1>1, <1>r, <2>2, OnlyRead DEF ReadRow
  <2>3. QED
    BY <2>1, <2>2
<1>2. ASSUME InsertDirector(Manager) PROVE Undisturbed'
  <2>1. /\ d \in DirectorId /\ row.status = "absent"
        /\ director' = [director EXCEPT ![d].status = "running"]
        /\ UNCHANGED campaign /\ Go(Manager, "step")
    BY <1>2, <1>t, <1>u DEF InsertDirector, Known
  <2>2. director'[d].status = "running" /\ director'[d].state = FreshState
    BY <1>t, <1>u, <2>1 DEF Row, RowFits
  <2>3. RowFits(d, director'[d], campaign')
    <3>1. Running(d, campaign) = {} /\ campaign' = campaign
      BY <1>u, <2>1 DEF RowFits
    <3>2. \A e \in Entry : FreshState.queue[e] = "pending"
      BY DEF FreshState
    <3>3. Fits(d, director'[d].state, campaign)
      BY <2>2, <3>1, <3>2 DEF Fits
    <3>4. QED
      BY <2>2, <3>1, <3>3 DEF RowFits
  <2>4. \A p \in Caller : proc'[p] = proc[p]
    BY <1>g, <2>1
  <2>5. Progress(proc'[Manager], director'[proc'[Manager].d], campaign')
    <3>1. proc'[Manager].pc = "step"
      BY <1>t, <2>1 DEF Go, ProcRecord
    <3>2. QED
      BY <3>1, NoProgress DEF Busy
  <2>6. QED
    BY <1>t, <1>u, <2>1, <2>3, <2>4, <2>5, Worked, LessSame
<1>3. ASSUME Wait(Manager) \/ LaunchInProgress(Manager) PROVE Undisturbed'
  BY <1>3, <1>r, OnlyRead DEF Wait, LaunchInProgress
<1>4. ASSUME Outcome(Manager) PROVE Undisturbed'
  <2> DEFINE new == [st EXCEPT !.active = None]
  <2>1. /\ q.pc = "row" /\ q.seen = row /\ d \in DirectorId /\ row.status = "running"
        /\ st.active # None /\ ~ActiveCampaign(st.active)
        /\ Return(Manager) /\ UNCHANGED campaign
    BY <1>4, <1>u DEF Outcome, OutcomeOf, Progress, Busy
  <2>2. \/ UpdateState(d, new, None)
        \/ \E status \in {"completed", "stopped", "failed"} : Finish(d, row, status)
    BY <1>4, <2>1 DEF Outcome, OutcomeOf
  <2>3. Running(d, campaign) = {}
    BY <1>u, <2>1 DEF RowFits, Fits, Running, ActiveCampaign
  <2>4. new.active = None /\ new.queue = st.queue /\ new.claim = st.claim
    BY <1>t, <2>1 DEF State
  <2> HIDE DEF new
  <2>5. /\ \A x \in DirectorId \ {d} : director'[x] = director[x]
        /\ \/ director'[d].status = "running" /\ director'[d].state = new
           \/ director'[d].status \in {"completed", "stopped", "failed"}
    <3>1. CASE UpdateState(d, new, None)
      BY <2>1, <3>1, Written
    <3>2. ASSUME NEW status \in {"completed", "stopped", "failed"}, Finish(d, row, status)
          PROVE  /\ \A x \in DirectorId \ {d} : director'[x] = director[x]
                 /\ director'[d].status = status
      BY <1>t, <2>1, <3>2 DEF Finish
    <3>3. QED
      BY <2>2, <3>1, <3>2
  <2>6. RowFits(d, director'[d], campaign)
    <3>1. Fits(d, st, campaign)
      BY <1>u, <2>1 DEF RowFits
    <3>2. Fits(d, new, campaign)
      BY <2>3, <2>4, <3>1 DEF Fits
    <3>3. CASE director'[d].status = "running" /\ director'[d].state = new
      BY <3>2, <3>3 DEF RowFits
    <3>4. CASE director'[d].status \in {"completed", "stopped", "failed"}
      BY <3>4 DEF RowFits
    <3>5. QED
      BY <2>5, <3>3, <3>4
  <2>7. QED
    BY <1>r, <1>u, <2>1, <2>5, <2>6, Worked, LessSame
<1>5. ASSUME Look(Manager) PROVE Undisturbed'
  <2> DEFINE next == First(Pending(st.queue))
             some == IF st.claim # None THEN Launched(d, st.claim)
                     ELSE IF Adopts /\ Pending(st.queue) # {} THEN Adoptable(next) ELSE {}
  <2>1. /\ q.pc = "row" /\ q.seen = row /\ d \in DirectorId /\ row.status = "running"
        /\ st.active = None /\ UNCHANGED <<director, campaign>>
    BY <1>5, <1>u DEF Look, Progress, Busy
  <2>2. \/ Go(Manager, "handler")
        \/ /\ st.claim # None => ~Conflict(d, st.claim)
           /\ \E c \in IF some = {} THEN {None} ELSE some :
                proc' = [proc EXCEPT ![Manager].pc = "looked", ![Manager].found = c]
    BY <1>5, <2>1 DEF Look
  <2>3. ASSUME Go(Manager, "handler") PROVE Undisturbed'
    <3>1. /\ proc'[Manager].pc = "handler" /\ proc'[Manager].d = d
          /\ \A p \in Caller : proc'[p] = proc[p]
      BY <1>t, <2>3 DEF Go, ProcRecord
    <3>2. Progress(proc'[Manager], row, campaign)
      BY <2>1, <3>1 DEF Progress
    <3>3. QED
      BY <2>1, <3>1, <3>2, OnlyRead
  <2>4. ASSUME st.claim # None => ~Conflict(d, st.claim),
               NEW c \in IF some = {} THEN {None} ELSE some,
               proc' = [proc EXCEPT ![Manager].pc = "looked", ![Manager].found = c]
        PROVE  Undisturbed'
    <3>1. /\ proc'[Manager] = [q EXCEPT !.pc = "looked", !.found = c]
          /\ \A p \in Caller : proc'[p] = proc[p]
      BY <1>t, <2>4
    <3>2. /\ proc'[Manager].pc = "looked" /\ proc'[Manager].found = c
          /\ proc'[Manager].d = d /\ proc'[Manager].seen = row
      BY <1>t, <2>1, <3>1 DEF ProcRecord
    <3>3. CASE st.claim # None
      <4>1. Launched(d, st.claim) = {x \in Running(d, campaign) : campaign[x].entry = st.claim}
        BY DEF Launched, ActiveOf, ActiveCampaign, Running
      <4>2. Launched(d, st.claim) = {} => Running(d, campaign) = {}
        BY <2>4, <3>3 DEF Conflict, ActiveOf, ActiveCampaign, Running
      <4>3. \A x, y \in Running(d, campaign) : x = y
        BY <1>u, <2>1 DEF RowFits, Fits
      <4>4. /\ c # None => c \in Running(d, campaign) /\ campaign[c].entry = st.claim
            /\ Running(d, campaign) \subseteq {c}
        BY <2>4, <3>3, <4>1, <4>2, <4>3
      <4>5. Progress(proc'[Manager], row, campaign)
        BY <2>1, <3>2, <3>3, <4>4 DEF Progress, Running
      <4>6. QED
        BY <2>1, <3>1, <3>2, <4>5, OnlyRead
    <3>4. CASE st.claim = None
      <4>1. \A x \in Running(d, campaign) : campaign[x].entry # None
        BY <1>u DEF Running, RowsInUse
      <4>2. Running(d, campaign) = {}
        BY <1>n, <1>u, <2>1, <3>4, <4>1 DEF RowFits, Fits, Running
      <4>3. c # None => /\ campaign[c].status = "running" /\ campaign[c].owner = Nobody
                        /\ campaign[c].entry = next
        BY <2>4, <3>4 DEF Adoptable, Unowned, ActiveCampaign
      <4>4. Progress(proc'[Manager], row, campaign)
        BY <2>1, <3>2, <3>4, <4>2, <4>3 DEF Progress
      <4>5. QED
        BY <2>1, <3>1, <3>2, <4>4, OnlyRead
    <3>5. QED
      BY <3>3, <3>4
  <2>5. QED
    BY <2>2, <2>3, <2>4
<1>6. ASSUME AdoptLaunched(Manager) PROVE Undisturbed'
  <2> DEFINE new == [st EXCEPT !.queue[st.claim] = "running", !.active = q.found, !.claim = None]
  <2>1. /\ q.pc = "looked" /\ q.seen = row /\ d \in DirectorId /\ row.status = "running"
        /\ st.claim # None /\ q.found # None /\ UpdateState(d, new, q.found)
        /\ Return(Manager) /\ UNCHANGED campaign
    BY <1>6, <1>u DEF AdoptLaunched, Progress, Busy
  <2>2. /\ Running(d, campaign) \subseteq {q.found}
        /\ campaign[q.found].owner = d /\ campaign[q.found].entry = st.claim
        /\ q.found \in Campaign /\ st \in State
    BY <1>t, <1>u, <2>1 DEF Progress, ProcRecord
  <2>3. /\ new.active = q.found /\ new.claim = None
        /\ \A e \in Entry : new.queue[e] = IF e = st.claim THEN "running" ELSE st.queue[e]
    BY <2>2 DEF State
  <2>4. /\ \A x \in DirectorId \ {d} : director'[x] = director[x]
        /\ director'[d].status = "running" /\ director'[d].state = new
    <3> HIDE DEF new
    <3>1. QED
      BY <1>t, <2>1 DEF UpdateState, Row
  <2> HIDE DEF new
  <2>5. Tried(d, st.claim, campaign)
    BY <2>2 DEF Tried
  <2>6. Fits(d, new, campaign)
    <3>1. Fits(d, st, campaign)
      BY <1>u, <2>1 DEF RowFits
    <3>2. \A c \in Running(d, campaign) : new.active = c
      BY <2>2, <2>3
    <3>3. \A b, c \in Running(d, campaign) : b = c
      BY <2>2
    <3>4. ASSUME NEW e \in Entry
          PROVE  /\ new.queue[e] # "skipped"
                 /\ new.queue[e] = "running" => Tried(d, e, campaign)
                 /\ new.queue[e] = "launching" => new.claim = e
      <4>1. CASE e = st.claim
        BY <2>3, <2>5, <4>1
      <4>2. CASE e # st.claim
        BY <2>3, <3>1, <4>2 DEF Fits
      <4>3. QED
        BY <4>1, <4>2
    <3>5. QED
      BY <3>2, <3>3, <3>4 DEF Fits
  <2>7. RowFits(d, director'[d], campaign)
    BY <2>4, <2>6 DEF RowFits
  <2>8. QED
    BY <1>r, <1>u, <2>1, <2>4, <2>7, Worked, LessSame
<1>7. ASSUME TakeNext(Manager) PROVE Undisturbed'
  <2> DEFINE state == Reset(st)
             e == First(Pending(state.queue))
             found == IF st.claim = None THEN {q.found} \ {None}
                      ELSE IF Adopts THEN Adoptable(e) ELSE {}
  <2>1. /\ q.pc = "looked" /\ q.seen = row /\ d \in DirectorId /\ row.status = "running"
        /\ st.active = None /\ st \in State
    BY <1>7, <1>t, <1>u DEF TakeNext, Progress, Busy
  <2>2. /\ st.claim # None => q.found = None
        /\ \/ /\ Pending(state.queue) = {}
              /\ Finish(d, row, "exhausted")
              /\ Return(Manager) /\ UNCHANGED campaign
           \/ /\ Pending(state.queue) # {}
              /\ \E c \in found :
                   /\ UpdateState(d, [state EXCEPT !.queue[e] = "running", !.active = c], c)
                   /\ campaign' = [campaign EXCEPT ![c].owner = d]
              /\ Return(Manager)
           \/ /\ Pending(state.queue) # {}
              /\ UpdateState(d, [state EXCEPT !.queue[e] = "launching", !.claim = e], None)
              /\ proc' = [proc EXCEPT ![Manager].pc = "start", ![Manager].entry = e]
              /\ UNCHANGED campaign
    BY <1>7, <2>1 DEF TakeNext
  <2>3. Running(d, campaign) = {}
    BY <1>n, <1>t, <1>u, <2>1, <2>2, ZenonT(60) DEF Progress, Running
  <2>4. /\ state \in State /\ state.active = None /\ state.claim = None
        /\ st.claim = None => state.queue = st.queue
        /\ \A f \in Entry :
             /\ state.queue[f] \in {"pending", "running"}
             /\ state.queue[f] = "running" => Tried(d, f, campaign)
    <3>1. /\ state \in State /\ state.active = None /\ state.claim = None
          /\ state.queue = [f \in Entry |-> IF f = st.claim /\ st.queue[f] = "launching"
                                            THEN "pending" ELSE st.queue[f]]
      BY <2>1 DEF Reset, State, EntryStatuses
    <3>2. st.claim = None => state.queue = st.queue
      <4>1. st.queue = [f \in Entry |-> st.queue[f]]
        BY <2>1 DEF State
      <4>2. st.claim = None => \A f \in Entry : f # st.claim
        BY <1>n
      <4> HIDE DEF state
      <4>3. QED
        BY <3>1, <4>1, <4>2
    <3>3. ASSUME NEW f \in Entry
          PROVE  /\ state.queue[f] \in {"pending", "running"}
                 /\ state.queue[f] = "running" => Tried(d, f, campaign)
      <4>1. /\ st.queue[f] # "skipped" /\ st.queue[f] \in EntryStatuses
            /\ st.queue[f] = "running" => Tried(d, f, campaign)
            /\ st.queue[f] = "launching" => st.claim = f
        BY <1>u, <2>1 DEF RowFits, Fits, State
      <4>2. state.queue[f] = IF f = st.claim /\ st.queue[f] = "launching"
                             THEN "pending" ELSE st.queue[f]
        BY <3>1
      <4>3. QED
        BY <4>1, <4>2 DEF EntryStatuses
    <3>4. QED
      BY <3>1, <3>2, <3>3
  <2>5. \A c \in found : /\ c \in Campaign /\ campaign[c].owner = Nobody
                         /\ campaign[c].status # "absent" /\ campaign[c].entry = e
    BY <1>t, <1>u, <2>1, <2>4 DEF Progress, ProcRecord, Adoptable, Unowned, ActiveCampaign
  <2>6. Pending(state.queue) # {} => e \in Entry
    <3>1. Pending(state.queue) \in SUBSET Entry
      BY DEF Pending
    <3>2. QED
      BY <1>n, <3>1, FirstIn
  <2> HIDE DEF state, found, e
  <2>7. ASSUME Pending(state.queue) = {}, Finish(d, row, "exhausted"), Return(Manager),
               UNCHANGED campaign
        PROVE  Undisturbed'
    <3>1. \A f \in Entry : Tried(d, f, campaign)
      BY <2>4, <2>7 DEF Pending
    <3>2. /\ \A x \in DirectorId \ {d} : director'[x] = director[x]
          /\ director'[d].status = "exhausted"
      BY <1>t, <2>1, <2>7 DEF Finish
    <3>3. RowFits(d, director'[d], campaign)
      BY <3>1, <3>2 DEF RowFits
    <3>4. QED
      BY <1>r, <1>u, <2>1, <2>7, <3>2, <3>3, Worked, LessSame
  <2>8. ASSUME Pending(state.queue) # {}, NEW c \in found,
               UpdateState(d, [state EXCEPT !.queue[e] = "running", !.active = c], c),
               campaign' = [campaign EXCEPT ![c].owner = d], Return(Manager)
        PROVE  Undisturbed'
    <3> DEFINE new == [state EXCEPT !.queue[e] = "running", !.active = c]
    <3>1. /\ \A x \in DirectorId \ {d} : Less(x, campaign, campaign')
          /\ Running(d, campaign') \subseteq {c}
          /\ Tried(d, e, campaign')
          /\ \A f \in Entry : Tried(d, f, campaign) => Tried(d, f, campaign')
          /\ RowsInUse(campaign')
      <4>1. /\ campaign[c].owner = Nobody /\ campaign[c].status # "absent"
            /\ c \in Campaign /\ campaign[c].entry = e
        BY <2>5, <2>8
      <4>2. /\ \A x \in DirectorId \ {d} : Less(x, campaign, campaign')
            /\ Running(d, campaign') \subseteq Running(d, campaign) \cup {c}
            /\ Tried(d, campaign[c].entry, campaign')
            /\ \A f \in Entry : Tried(d, f, campaign) => Tried(d, f, campaign')
            /\ RowsInUse(campaign')
        <5>1. /\ campaign' = [campaign EXCEPT ![c].owner = d] /\ RowsInUse(campaign)
              /\ d \in DirectorId /\ campaign \in [Campaign -> CampaignRow]
          BY <1>t, <1>u, <2>1, <2>8
        <5> HIDE DEF d
        <5>2. QED
          BY <4>1, <5>1, TakeOver
      <4>3. QED
        BY <2>3, <4>1, <4>2
    <3>2. /\ new.active = c /\ new.claim = None
          /\ \A f \in Entry : new.queue[f] = IF f = e THEN "running" ELSE state.queue[f]
      BY <2>4 DEF State
    <3> HIDE DEF new
    <3>3. /\ \A x \in DirectorId \ {d} : director'[x] = director[x]
          /\ director'[d].status = "running" /\ director'[d].state = new
      BY <1>t, <2>1, <2>8 DEF UpdateState, Row, new
    <3>4. Fits(d, new, campaign')
      BY <2>4, <3>1, <3>2 DEF Fits
    <3>5. RowFits(d, director'[d], campaign')
      BY <3>3, <3>4 DEF RowFits
    <3>6. QED
      BY <1>r, <2>1, <2>8, <3>1, <3>3, <3>5, Worked
  <2>9. ASSUME Pending(state.queue) # {},
               UpdateState(d, [state EXCEPT !.queue[e] = "launching", !.claim = e], None),
               proc' = [proc EXCEPT ![Manager].pc = "start", ![Manager].entry = e],
               UNCHANGED campaign
        PROVE  Undisturbed'
    <3> DEFINE new == [state EXCEPT !.queue[e] = "launching", !.claim = e]
    <3>1. /\ new.active = None /\ new.claim = e
          /\ \A f \in Entry : new.queue[f] = IF f = e THEN "launching" ELSE state.queue[f]
      BY <2>4 DEF State
    <3> HIDE DEF new
    <3>2. /\ \A x \in DirectorId \ {d} : director'[x] = director[x]
          /\ director'[d].status = "running" /\ director'[d].state = new
      BY <1>t, <2>1, <2>9 DEF UpdateState, Row, new
    <3>3. RowFits(d, director'[d], campaign)
      BY <2>3, <2>4, <3>1, <3>2 DEF RowFits, Fits
    <3>4. /\ proc'[Manager].pc = "start" /\ proc'[Manager].entry = e /\ proc'[Manager].d = d
          /\ \A p \in Caller : proc'[p] = proc[p]
      BY <1>t, <2>9 DEF ProcRecord
    <3>5. e # None
      BY <1>n, <2>6, <2>9
    <3>6. Progress(proc'[Manager], director'[d], campaign)
      BY <3>1, <3>2, <3>4, <3>5 DEF Progress
    <3>7. QED
      BY <1>u, <2>1, <2>9, <3>2, <3>3, <3>4, <3>6, Worked, LessSame
  <2>10. QED
    BY <2>2, <2>7, <2>8, <2>9
<1>8. QED
  BY <1>1, <1>2, <1>3, <1>4, <1>5, <1>6, <1>7

\* The launch, its record, and what happens when it raises or dies.
LEMMA ManagerLaunches ==
  ASSUME TypeOK, Working, Known, Undisturbed, Calm, Calm',
         \/ StartCampaign(Manager) \/ InsertCampaign(Manager) \/ ReadAgain(Manager)
         \/ Record(Manager) \/ ReadToFail(Manager) \/ Fail(Manager)
         \/ LaunchRaises(Manager) \/ Crash(Manager)
  PROVE  Undisturbed'
<1> DEFINE q == proc[Manager]
           d == q.d
           row == director[d]
           st == row.state
<1>t. /\ Manager \in Process /\ Caller \subseteq Process /\ Manager \notin Caller
      /\ proc \in [Process -> ProcRecord] /\ q \in ProcRecord
      /\ director \in [DirectorId -> Row] /\ campaign \in [Campaign -> CampaignRow]
      /\ \A x \in DirectorId : director[x] \in Row /\ director[x].state \in State
  BY TypeParts, DirectorAssumption DEF Process, Row
<1>n. None \notin Campaign /\ None \notin Entry
  BY DEF Campaign, Entry, None
<1>u. /\ RowsInUse(campaign) /\ Progress(q, row, campaign)
      /\ \A x \in DirectorId : RowFits(x, director[x], campaign)
      /\ q.pc # "idle" => d \in DirectorId
  BY <1>t DEF Undisturbed, Working
<1>r. ASSUME Return(Manager)
      PROVE  /\ \A p \in Caller : proc'[p] = proc[p]
             /\ \A rw, camp : Progress(proc'[Manager], rw, camp)
  <2>1. /\ proc'[Manager].pc = "idle"
        /\ \A p \in Caller : proc'[p] = proc[p]
    BY <1>r, <1>t DEF Return, Idle
  <2>2. QED
    BY <2>1, NoProgress DEF Busy
<1>h. ASSUME Go(Manager, "handler"), row.status = "running", UNCHANGED director
      PROVE  /\ \A p \in Caller : proc'[p] = proc[p]
             /\ Progress(proc'[Manager], director'[proc'[Manager].d], campaign')
  <2>1. /\ proc'[Manager].pc = "handler" /\ proc'[Manager].d = d
        /\ \A p \in Caller : proc'[p] = proc[p]
    BY <1>h, <1>t DEF Go, ProcRecord
  <2>2. QED
    BY <1>h, <2>1 DEF Progress
<1>1. ASSUME StartCampaign(Manager) PROVE Undisturbed'
  <2>1. /\ q.pc = "start" /\ d \in DirectorId /\ row.status = "running"
        /\ st.active = None /\ st.claim = q.entry /\ q.entry # None
        /\ UNCHANGED <<director, campaign>>
        /\ \/ Go(Manager, "handler")
           \/ \E c \in Launched(d, q.entry) :
                proc' = [proc EXCEPT ![Manager].pc = "again", ![Manager].found = c]
           \/ ~Conflict(d, q.entry) /\ Launched(d, q.entry) = {} /\ Go(Manager, "insert")
    BY <1>1, <1>u DEF StartCampaign, Progress, Busy
  <2>2. CASE Go(Manager, "handler")
    BY <1>h, <2>1, <2>2, OnlyRead
  <2>3. ASSUME NEW c \in Launched(d, q.entry),
               proc' = [proc EXCEPT ![Manager].pc = "again", ![Manager].found = c]
        PROVE  Undisturbed'
    <3>1. /\ proc'[Manager].pc = "again" /\ proc'[Manager].found = c
          /\ proc'[Manager].d = d /\ proc'[Manager].entry = q.entry
          /\ \A p \in Caller : proc'[p] = proc[p]
      BY <1>t, <2>3 DEF ProcRecord
    <3>2. c \in Running(d, campaign) /\ campaign[c].entry = q.entry
      BY DEF Launched, ActiveOf, ActiveCampaign, Running
    <3>3. Running(d, campaign) \subseteq {c}
      BY <1>u, <2>1, <3>2 DEF RowFits, Fits
    <3>4. Progress(proc'[Manager], row, campaign)
      BY <1>n, <2>1, <3>1, <3>2, <3>3 DEF Progress, Running
    <3>5. QED
      BY <2>1, <3>1, <3>4, OnlyRead
  <2>4. ASSUME ~Conflict(d, q.entry), Launched(d, q.entry) = {}, Go(Manager, "insert")
        PROVE  Undisturbed'
    <3>1. /\ proc'[Manager].pc = "insert" /\ proc'[Manager].d = d
          /\ proc'[Manager].entry = q.entry
          /\ \A p \in Caller : proc'[p] = proc[p]
      BY <1>t, <2>4 DEF Go, ProcRecord
    <3>2. Running(d, campaign) = {}
      BY <2>4 DEF Conflict, ActiveOf, ActiveCampaign, Running
    <3>3. Progress(proc'[Manager], row, campaign)
      BY <2>1, <3>1, <3>2 DEF Progress
    <3>4. QED
      BY <2>1, <3>1, <3>3, OnlyRead
  <2>5. QED
    BY <2>1, <2>2, <2>3, <2>4
<1>2. ASSUME InsertCampaign(Manager) PROVE Undisturbed'
  <2> DEFINE free == {x \in Campaign : campaign[x].status = "absent"}
             c == First(free)
  <2>1. /\ q.pc = "insert" /\ d \in DirectorId /\ row.status = "running"
        /\ st.active = None /\ st.claim = q.entry /\ q.entry \in Entry
        /\ Running(d, campaign) = {} /\ UNCHANGED director
    BY <1>2, <1>t, <1>u DEF InsertCampaign, Progress, Busy, ProcRecord
  <2>2. /\ free # {}
        /\ campaign' = [campaign EXCEPT ![c] = [status |-> "running", owner |-> d,
                                                launched |-> TRUE, thawed |-> FALSE, entry |-> q.entry]]
        /\ \/ proc' = [proc EXCEPT ![Manager].pc = "again", ![Manager].found = c]
           \/ Go(Manager, "handler")
    BY <1>2 DEF InsertCampaign
  <2>3. c \in Campaign /\ campaign[c].status = "absent"
    <3>1. free \in SUBSET Nat
      BY DEF Campaign
    <3>2. c \in free
      BY <2>2, <3>1, FirstIn
    <3>3. QED
      BY <3>2
  <2> HIDE DEF c, free
  <2>4. /\ \A x \in DirectorId \ {d} : Less(x, campaign, campaign')
        /\ Running(d, campaign') \subseteq {c}
        /\ campaign'[c].owner = d /\ campaign'[c].entry = q.entry
        /\ \A f \in Entry : Tried(d, f, campaign) => Tried(d, f, campaign')
        /\ RowsInUse(campaign')
    <3>1. /\ campaign \in [Campaign -> CampaignRow] /\ RowsInUse(campaign)
          /\ campaign' = [campaign EXCEPT ![c] = [status |-> "running", owner |-> d,
                                                  launched |-> TRUE, thawed |-> FALSE, entry |-> q.entry]]
      BY <1>t, <1>u, <2>2
    <3> DEFINE e == q.entry
    <3>2. d \in DirectorId /\ e \in Entry
      BY <2>1
    <3> HIDE DEF d, e
    <3>3. /\ \A x \in DirectorId \ {d} : Less(x, campaign, campaign')
          /\ Running(d, campaign') \subseteq Running(d, campaign) \cup {c}
          /\ campaign'[c].owner = d /\ campaign'[c].entry = e
          /\ \A f \in Entry : Tried(d, f, campaign) => Tried(d, f, campaign')
          /\ RowsInUse(campaign')
      BY <2>3, <3>1, <3>2, TakeIn DEF e
    <3>4. QED
      BY <2>1, <3>3 DEF e
  <2>5. RowFits(d, director'[d], campaign')
    BY <1>u, <2>1, <2>4 DEF RowFits, Fits
  <2>6. ASSUME proc' = [proc EXCEPT ![Manager].pc = "again", ![Manager].found = c]
        PROVE  /\ \A p \in Caller : proc'[p] = proc[p]
               /\ Progress(proc'[Manager], director'[proc'[Manager].d], campaign')
    <3>1. /\ proc'[Manager].pc = "again" /\ proc'[Manager].found = c
          /\ proc'[Manager].d = d /\ proc'[Manager].entry = q.entry
          /\ \A p \in Caller : proc'[p] = proc[p]
      BY <1>t, <2>6 DEF ProcRecord
    <3>2. QED
      BY <1>n, <2>1, <2>3, <2>4, <3>1 DEF Progress
  <2>7. QED
    BY <1>h, <1>u, <2>1, <2>2, <2>4, <2>5, <2>6, Worked
<1>3. ASSUME ReadAgain(Manager) PROVE Undisturbed'
  <2>1. /\ q.pc = "again" /\ UNCHANGED <<director, campaign>>
        /\ proc' = [proc EXCEPT ![Manager].pc = "record", ![Manager].seen = director[d]]
    BY <1>3 DEF ReadAgain
  <2>2. /\ proc'[Manager].pc = "record" /\ proc'[Manager].found = q.found
        /\ proc'[Manager].d = d /\ proc'[Manager].entry = q.entry
        /\ proc'[Manager].seen = row
        /\ \A p \in Caller : proc'[p] = proc[p]
    BY <1>t, <2>1 DEF ProcRecord
  <2>3. Progress(proc'[Manager], row, campaign)
    BY <1>u, <2>1, <2>2 DEF Progress, Busy
  <2>4. QED
    BY <2>1, <2>2, <2>3, OnlyRead
<1>4. ASSUME Record(Manager) PROVE Undisturbed'
  <2> DEFINE new == [st EXCEPT !.queue[q.entry] = "running", !.active = q.found, !.claim = None]
  <2>1. /\ q.pc = "record" /\ q.seen = row /\ d \in DirectorId /\ row.status = "running"
        /\ st.claim = q.entry /\ UpdateState(d, new, q.found)
        /\ Return(Manager) /\ UNCHANGED campaign /\ st \in State
    BY <1>4, <1>t, <1>u DEF Record, Progress, Busy
  <2>2. /\ Running(d, campaign) \subseteq {q.found}
        /\ campaign[q.found].owner = d /\ campaign[q.found].entry = q.entry
        /\ q.found \in Campaign
    BY <1>t, <1>u, <2>1 DEF Progress, ProcRecord
  <2>3. /\ new.active = q.found /\ new.claim = None
        /\ \A e \in Entry : new.queue[e] = IF e = q.entry THEN "running" ELSE st.queue[e]
    BY <2>1 DEF State
  <2> HIDE DEF new
  <2>4. /\ \A x \in DirectorId \ {d} : director'[x] = director[x]
        /\ director'[d].status = "running" /\ director'[d].state = new
    BY <1>t, <2>1 DEF UpdateState, Row
  <2>5. Tried(d, q.entry, campaign)
    BY <2>2 DEF Tried
  <2>6. Fits(d, new, campaign)
    BY <1>u, <2>1, <2>2, <2>3, <2>5 DEF RowFits, Fits
  <2>7. RowFits(d, director'[d], campaign)
    BY <2>4, <2>6 DEF RowFits
  <2>8. QED
    BY <1>r, <1>u, <2>1, <2>4, <2>7, Worked, LessSame
<1>5. ASSUME ReadToFail(Manager) PROVE Undisturbed'
  <2>1. /\ q.pc = "handler" /\ UNCHANGED <<director, campaign>> /\ row.status = "running"
        /\ \/ Return(Manager)
           \/ proc' = [proc EXCEPT ![Manager].pc = "failing", ![Manager].seen = director[d]]
    BY <1>5, <1>u DEF ReadToFail, Progress, Busy
  <2>2. ASSUME proc' = [proc EXCEPT ![Manager].pc = "failing", ![Manager].seen = director[d]]
        PROVE  Undisturbed'
    <3>1. /\ proc'[Manager].pc = "failing" /\ proc'[Manager].d = d
          /\ \A p \in Caller : proc'[p] = proc[p]
      BY <1>t, <2>2 DEF ProcRecord
    <3>2. Progress(proc'[Manager], row, campaign)
      BY <2>1, <3>1 DEF Progress
    <3>3. QED
      BY <2>1, <3>1, <3>2, OnlyRead
  <2>3. QED
    BY <1>r, <2>1, <2>2, OnlyRead
<1>6. ASSUME Fail(Manager) PROVE Undisturbed'
  <2>1. /\ q.pc = "failing" /\ d \in DirectorId /\ Return(Manager) /\ UNCHANGED campaign
        /\ director' = [director EXCEPT ![d].status = "failed", ![d].state = q.seen.state]
    BY <1>6, <1>u DEF Fail
  <2>2. /\ \A x \in DirectorId \ {d} : director'[x] = director[x]
        /\ director'[d].status = "failed"
    BY <1>t, <2>1 DEF Row
  <2>3. RowFits(d, director'[d], campaign)
    BY <2>2 DEF RowFits
  <2>4. QED
    BY <1>r, <1>u, <2>1, <2>2, <2>3, Worked, LessSame
<1>7. ASSUME LaunchRaises(Manager) PROVE Undisturbed'
  <2>1. /\ q.pc = "insert" /\ Go(Manager, "handler") /\ UNCHANGED <<director, campaign>>
        /\ row.status = "running"
    BY <1>7, <1>u DEF LaunchRaises, Progress, Busy
  <2>2. QED
    BY <1>h, <2>1, OnlyRead
<1>8. ASSUME Crash(Manager) PROVE Undisturbed'
  BY <1>8, <1>r, OnlyRead DEF Crash
<1>9. QED
  BY <1>1, <1>2, <1>3, <1>4, <1>5, <1>6, <1>7, <1>8

\* A campaign ends.
LEMMA EndsUndisturbed ==
  ASSUME TypeOK, Undisturbed, Calm, NEW c \in Campaign, CampaignEnds(c)
  PROVE  Undisturbed'
<1> DEFINE q == proc[Manager]
           row == director[q.d]
<1>1. PICK status \in EndStatuses :
        campaign' = [campaign EXCEPT ![c].status = status]
  BY DirectorAssumption DEF CampaignEnds
<1>2. /\ campaign \in [Campaign -> CampaignRow] /\ campaign[c].status = "running"
      /\ RowsInUse(campaign) /\ UNCHANGED <<director, proc>>
      /\ Manager \in Process
  BY TypeParts DEF CampaignEnds, ActiveCampaign, Undisturbed, Process
<1>3. /\ \A x : Less(x, campaign, campaign')
      /\ \A b \in Campaign : /\ campaign'[b].owner = campaign[b].owner
                             /\ campaign'[b].entry = campaign[b].entry
                             /\ campaign'[b].status = "absent" <=> campaign[b].status = "absent"
      /\ RowsInUse(campaign')
  BY <1>1, <1>2, TakeOut
<1>4. \A x \in DirectorId : RowFits(x, director[x], campaign')
  BY <1>3, LessFits DEF Undisturbed
<1>5. Progress(q, row, campaign')
  <2>1. Progress(q, row, campaign) /\ q.found \in Campaign \cup {None}
    BY <1>2, TypeParts DEF Undisturbed, ProcRecord
  <2>2. Running(q.d, campaign') \subseteq Running(q.d, campaign)
    BY <1>3 DEF Less
  <2>3. QED
    BY <1>3, <2>1, <2>2 DEF Progress
<1>6. QED
  BY <1>2, <1>3, <1>4, <1>5 DEF Undisturbed

\* Until a caller begins an operation or an end is overwritten, only the manager
\* and the campaigns move.
LEMMA OnlyManager ==
  ASSUME TypeOK, Known, Undisturbed, Next, Calm'
  PROVE  /\ Calm
         /\ \/ StepActions(Manager) \/ LaunchRaises(Manager) \/ Crash(Manager)
            \/ \E d \in DirectorId : AutoStart(d) \/ ClaimAges(d)
            \/ \E c \in Campaign : CampaignEnds(c)
<1>1. ops' = ops \/ ops' = ops + 1
  <2>1. ASSUME NEW p \in Process, StepActions(p) PROVE ops' = ops \/ ops' = ops + 1
    BY <2>1 DEF StepActions, ReadRow, InsertDirector, Wait, Outcome, OutcomeOf, Look,
                AdoptLaunched, LaunchInProgress, TakeNext, StartCampaign, InsertCampaign,
                ReadAgain, Record, ReadToFail, Fail
  <2>2. QED
    BY <2>1
       DEF Next, ControlActions, Stop, StopCampaign, EndCampaign, Pause, Resume, Skip, LaunchRaises,
           Crash, AutoStart, ClaimAges, CheckDuplicate, ReadForControl, CampaignEnds,
           CampaignOverwritten
<1>2. ops \in Nat /\ late \in Nat /\ ops' = 0 /\ late' = 0
  BY TypeParts, DirectorAssumption DEF Calm
<1>8. ~ \E c \in Campaign : CampaignOverwritten(c)
  BY <1>2 DEF CampaignOverwritten
<1>9. Calm
  BY <1>1, <1>2, <1>8, LateMoves DEF Calm
<1>3. ops = 0 /\ ops' = 0 /\ \A p \in Caller : proc[p].pc = "idle"
  BY <1>2, <1>9 DEF Undisturbed, Calm
<1>4. ASSUME NEW p \in Caller,
             StepActions(p) \/ ControlActions(p) \/ LaunchRaises(p) \/ Crash(p)
      PROVE  FALSE
  <2>1. p # Manager
    BY DirectorAssumption
  <2>2. ASSUME NEW d \in DirectorId, ReadRow(p, d) PROVE FALSE
    <3>1. ops' = ops + 1
      BY <1>3, <2>1, <2>2 DEF ReadRow
    <3>2. QED
      BY <1>3, <3>1
  <2>3. ~StepActions(p)
    BY <1>3, <2>2
       DEF StepActions, InsertDirector, Wait, Outcome, OutcomeOf, Look, AdoptLaunched,
           LaunchInProgress, TakeNext, StartCampaign, InsertCampaign, ReadAgain, Record,
           ReadToFail, Fail
  <2>4. QED
    BY <1>3, <1>4, <2>3
       DEF ControlActions, Stop, StopCampaign, EndCampaign, Pause, Resume, Skip, LaunchRaises, Crash
<1>5. ~ControlActions(Manager)
  BY DirectorAssumption DEF Known, Process, Controlling, ControlActions, Stop, StopCampaign, EndCampaign,
                            Pause, Resume, Skip
<1>6. ASSUME NEW p \in Caller, NEW d \in DirectorId,
             \/ CheckDuplicate(p, d)
             \/ \E act \in {"stop", "pause", "resume", "skip"} : ReadForControl(p, d, act)
      PROVE  FALSE
  BY <1>3, <1>6 DEF CheckDuplicate, ReadForControl
<1>7. QED
  BY <1>4, <1>5, <1>6, <1>8, <1>9 DEF Next, Process

LEMMA UndisturbedStep ==
  ASSUME TypeOK, Working, Known, Undisturbed, [Next]_vars
  PROVE  Undisturbed'
<1>1. CASE UNCHANGED vars
  BY <1>1 DEF vars, Undisturbed, Calm
<1>2. CASE ~Calm'
  BY <1>2 DEF Undisturbed
<1>3. CASE Next /\ Calm'
  <2>1. Calm
    BY <1>3, OnlyManager
  <2>2. ASSUME NEW d \in DirectorId, AutoStart(d) PROVE Undisturbed'
    <3>1. /\ proc'[Manager].pc = "checked" /\ UNCHANGED <<director, campaign>>
          /\ \A p \in Caller : proc'[p] = proc[p]
      BY <2>2, TypeParts, DirectorAssumption DEF AutoStart, Idle, Process
    <3>2. QED
      BY <2>1, <3>1, NoProgress, OnlyRead DEF Busy
  <2>3. ASSUME NEW d \in DirectorId, ClaimAges(d) PROVE Undisturbed'
    BY <2>1, <2>3 DEF ClaimAges, Undisturbed
  <2>4. QED
    BY <1>3, <2>1, <2>2, <2>3, OnlyManager, ManagerSteps, ManagerLaunches, EndsUndisturbed
       DEF StepActions
<1>4. QED
  BY <1>1, <1>2, <1>3

LEMMA UndisturbedInvariant == Spec => []Undisturbed
<1>1. TypeOK /\ Working /\ Known /\ Undisturbed /\ [Next]_vars => Undisturbed'
  BY UndisturbedStep
<1>2. QED
  BY <1>1, UndisturbedInit, WorkInvariant, PTL DEF Spec

-----------------------------------------------------------------------------
(* The theorems.                                                            *)

\* Without a caller, and unless an end is overwritten, every active campaign of a
\* running director is the one it waits for or the one its claim leads to, at
\* whatever line of step_director the manager crashes, and however long a launch
\* takes.
THEOREM LaunchesAccounted == Spec => []Accounted
<1>1. Undisturbed => Accounted
  BY DEF Undisturbed, RowFits, Fits, Running, Accounted, Owned
<1>2. QED
  BY <1>1, UndisturbedInvariant, PTL

\* Under the same premise, a director ends as exhausted only after it had a campaign
\* for every entry of its plan: the reset of a stale claim loses none.
THEOREM ExhaustedAfterAll == Spec => []ExhaustedTriedAll
<1>1. Undisturbed => ExhaustedTriedAll
  BY DEF Undisturbed, RowFits, Tried, ExhaustedTriedAll
<1>2. QED
  BY <1>1, UndisturbedInvariant, PTL
=============================================================================
