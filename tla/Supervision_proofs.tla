-------------------------- MODULE Supervision_proofs --------------------------
(***************************************************************************)
(* Theorems about Supervision, for any families, approvals, priorities and *)
(* processes that bootstrap: the types and the order of the runbook, that  *)
(* its entries are defined, that bootstraps keep each other's entries, and *)
(* that what the manager starts may run.                                   *)
(***************************************************************************)
EXTENDS Supervision, FiniteSetTheorems, WellFoundedInduction, TLAPS

-----------------------------------------------------------------------------
(* Places in a finite order, and what Sorted, Nth, Min and Max give.        *)

\* Where each element of S stands in the order R, from 1 up.
PlaceIn(S, R) == [i \in S |-> 1 + Cardinality({j \in S : <<j, i>> \in R})]

\* In a strict total order every place from 1 to the number of elements is taken,
\* by one element, and an element that comes before another has a lower place.
LEMMA PlacesOfAnOrder ==
  ASSUME NEW S, IsFiniteSet(S), NEW R,
         \A i \in S : <<i, i>> \notin R,
         \A i, j, k \in S : <<i, j>> \in R /\ <<j, k>> \in R => <<i, k>> \in R,
         \A i, j \in S : i = j \/ <<i, j>> \in R \/ <<j, i>> \in R
  PROVE  /\ PlaceIn(S, R) \in Bijection(S, 1 .. Cardinality(S))
         /\ \A i, j \in S : <<i, j>> \in R <=> PlaceIn(S, R)[i] < PlaceIn(S, R)[j]
<1> DEFINE B(i) == {j \in S : <<j, i>> \in R}
<1>1. \A i \in S : IsFiniteSet(B(i)) /\ Cardinality(B(i)) \in Nat
  <2> TAKE i \in S
  <2>1. B(i) \in SUBSET S
    OBVIOUS
  <2>2. QED
    BY <2>1, FS_Subset, FS_CardinalityType
<1>2. \A i \in S : PlaceIn(S, R)[i] = 1 + Cardinality(B(i))
  BY DEF PlaceIn
<1>3. ASSUME NEW i \in S, NEW j \in S, <<i, j>> \in R
      PROVE  Cardinality(B(i)) < Cardinality(B(j))
  <2>1. B(i) \in SUBSET B(j) /\ i \in B(j) /\ i \notin B(i)
    BY <1>3
  <2> HIDE DEF B
  <2>2. QED
    BY <1>1, <2>1, FS_Subset
<1> HIDE DEF B
<1>4. ASSUME NEW i \in S, NEW j \in S
      PROVE  <<i, j>> \in R <=> PlaceIn(S, R)[i] < PlaceIn(S, R)[j]
  <2>1. CASE <<i, j>> \in R
    BY <1>1, <1>2, <1>3, <2>1
  <2>2. CASE i = j \/ <<j, i>> \in R
    <3>1. PlaceIn(S, R)[j] <= PlaceIn(S, R)[i]
      BY <1>1, <1>2, <1>3, <2>2
    <3>2. <<i, j>> \notin R
      BY <2>2
    <3>3. QED
      BY <1>1, <1>2, <3>1, <3>2
  <2>3. QED
    BY <2>1, <2>2
<1>5. Cardinality(S) \in Nat
  BY FS_CardinalityType
<1>6. \A i \in S : Cardinality(B(i)) < Cardinality(S)
  <2> TAKE i \in S
  <2>1. B(i) \in SUBSET S /\ i \notin B(i)
    BY DEF B
  <2>2. QED
    BY <1>1, <1>5, <2>1, FS_Subset
<1>7. PlaceIn(S, R) \in [S -> 1 .. Cardinality(S)]
  <2>1. \A i \in S : PlaceIn(S, R)[i] \in 1 .. Cardinality(S)
    BY <1>1, <1>2, <1>5, <1>6
  <2>2. QED
    BY <2>1 DEF PlaceIn
<1>8. PlaceIn(S, R) \in Injection(S, 1 .. Cardinality(S))
  <2>1. \A i, j \in S : PlaceIn(S, R)[i] = PlaceIn(S, R)[j] => i = j
    BY <1>1, <1>2, <1>4
  <2>2. QED
    BY <1>7, <2>1 DEF Injection, IsInjective
<1>9. IsFiniteSet(1 .. Cardinality(S)) /\ Cardinality(1 .. Cardinality(S)) = Cardinality(S)
  <2>1. /\ IsFiniteSet(1 .. Cardinality(S))
        /\ Cardinality(1 .. Cardinality(S))
             = IF 1 > Cardinality(S) THEN 0 ELSE Cardinality(S) - 1 + 1
    BY <1>5, FS_Interval
  <2>2. QED
    BY <1>5, <2>1
<1>10. PlaceIn(S, R) \in Surjection(S, 1 .. Cardinality(S))
  BY <1>8, <1>9, FS_Injection
<1>11. QED
  BY <1>4, <1>8, <1>10 DEF Bijection

\* Each place of a queue is taken by one entry, and Sorted puts it there.
LEMMA SortedPlaces ==
  ASSUME NEW q \in Seq(Entry)
  PROVE  \E place \in [DOMAIN q -> DOMAIN q] :
           /\ \A i, j \in DOMAIN q : Before(q, i, j) <=> place[i] < place[j]
           /\ \A i, j \in DOMAIN q : place[i] = place[j] => i = j
           /\ \A k \in DOMAIN q : \E i \in DOMAIN q : place[i] = k
           /\ Sorted(q) \in Seq(Entry) /\ DOMAIN Sorted(q) = DOMAIN q
           /\ \A i \in DOMAIN q : Sorted(q)[place[i]] = q[i]
<1> DEFINE S == DOMAIN q
           R == {e \in S \X S : Before(q, e[1], e[2])}
           P == PlaceIn(S, R)
<1>1. S = 1 .. Len(q) /\ Len(q) \in Nat /\ \A i \in S : q[i].priority \in Int
  <2>1. S = 1 .. Len(q) /\ Len(q) \in Nat /\ \A i \in S : q[i] \in Entry
    OBVIOUS
  <2>2. \A e \in Entry : e.priority \in Int
    BY SupervisionAssumption DEF Entry
  <2>3. QED
    BY <2>1, <2>2
<1>2. IsFiniteSet(S) /\ Cardinality(S) = Len(q)
  <2>1. /\ IsFiniteSet(1 .. Len(q))
        /\ Cardinality(1 .. Len(q)) = IF 1 > Len(q) THEN 0 ELSE Len(q) - 1 + 1
    BY <1>1, FS_Interval
  <2>2. QED
    BY <1>1, <2>1
<1>3. \A i, j \in S : <<i, j>> \in R <=> Before(q, i, j)
  OBVIOUS
<1>4. /\ \A i \in S : ~ Before(q, i, i)
      /\ \A i, j, k \in S : Before(q, i, j) /\ Before(q, j, k) => Before(q, i, k)
      /\ \A i, j \in S : i = j \/ Before(q, i, j) \/ Before(q, j, i)
  BY <1>1 DEF Before
<1> HIDE DEF R
<1>5. /\ P \in Bijection(S, 1 .. Len(q))
      /\ \A i, j \in S : <<i, j>> \in R <=> P[i] < P[j]
  <2>1. /\ P \in Bijection(S, 1 .. Cardinality(S))
        /\ \A i, j \in S : <<i, j>> \in R <=> P[i] < P[j]
    BY <1>2, <1>3, <1>4, PlacesOfAnOrder
  <2>2. QED
    BY <1>2, <2>1
<1>6. /\ P \in [S -> S]
      /\ \A i, j \in S : P[i] = P[j] => i = j
      /\ \A k \in S : \E i \in S : P[i] = k
  BY <1>1, <1>5 DEF Bijection, Injection, IsInjective, Surjection
<1>7. \A i \in S : Place(q, i) = P[i]
  <2> TAKE i \in S
  <2>1. {j \in S : <<j, i>> \in R} = {j \in S : Before(q, j, i)}
    BY <1>3
  <2>2. QED
    BY <2>1 DEF Place, PlaceIn
<1> HIDE DEF P
<1>8. \A i \in S : Sorted(q)[P[i]] = q[i]
  <2> TAKE i \in S
  <2>1. (CHOOSE j \in S : Place(q, j) = P[i]) = i
    BY <1>6, <1>7
  <2>2. QED
    BY <1>6, <2>1 DEF Sorted
<1>9. DOMAIN Sorted(q) = S /\ Sorted(q) = [k \in S |-> Sorted(q)[k]]
  BY DEF Sorted
<1>10. \A k \in S : Sorted(q)[k] \in Entry
  BY <1>6, <1>8
<1>11. Sorted(q) \in [S -> Entry]
  BY <1>9, <1>10
<1>12. Sorted(q) \in Seq(Entry)
  BY <1>1, <1>11
<1>13. QED
  BY <1>3, <1>5, <1>6, <1>8, <1>9, <1>12

\* Sorted keeps the entries, and puts an entry of a lower priority first.
LEMMA SortedKeeps ==
  ASSUME NEW q \in Seq(Entry)
  PROVE  Sorted(q) \in Seq(Entry) /\ Range(Sorted(q)) = Range(q)
<1>1. PICK place \in [DOMAIN q -> DOMAIN q] :
        /\ \A k \in DOMAIN q : \E i \in DOMAIN q : place[i] = k
        /\ Sorted(q) \in Seq(Entry) /\ DOMAIN Sorted(q) = DOMAIN q
        /\ \A i \in DOMAIN q : Sorted(q)[place[i]] = q[i]
  BY SortedPlaces
<1>2. \A e \in Range(q) : e \in Range(Sorted(q))
  BY <1>1 DEF Range
<1>3. \A e \in Range(Sorted(q)) : e \in Range(q)
  BY <1>1 DEF Range
<1>4. QED
  BY <1>1, <1>2, <1>3

\* No plan has two entries.
OnePerPlan(q) == \A i, j \in DOMAIN q : i # j => q[i].plan # q[j].plan

Ordered(q) ==
  \A i, j \in DOMAIN q : i < j => q[i].plan # q[j].plan /\ q[i].priority <= q[j].priority

LEMMA PriorityIsInt ==
  ASSUME NEW q \in Seq(Entry)
  PROVE  /\ DOMAIN q = 1 .. Len(q) /\ Len(q) \in Nat
         /\ \A i \in DOMAIN q : q[i] \in Entry /\ q[i].priority \in Int
<1>1. DOMAIN q = 1 .. Len(q) /\ Len(q) \in Nat /\ \A i \in DOMAIN q : q[i] \in Entry
  OBVIOUS
<1>2. \A e \in Entry : e.priority \in Int
  BY SupervisionAssumption DEF Entry
<1>3. QED
  BY <1>1, <1>2

LEMMA SortedIsOrdered ==
  ASSUME NEW q \in Seq(Entry), OnePerPlan(q)
  PROVE  Ordered(Sorted(q))
<1>1. PICK place \in [DOMAIN q -> DOMAIN q] :
        /\ \A i, j \in DOMAIN q : Before(q, i, j) <=> place[i] < place[j]
        /\ \A k \in DOMAIN q : \E i \in DOMAIN q : place[i] = k
        /\ DOMAIN Sorted(q) = DOMAIN q
        /\ \A i \in DOMAIN q : Sorted(q)[place[i]] = q[i]
  BY SortedPlaces
<1>2. SUFFICES ASSUME NEW k \in DOMAIN q, NEW m \in DOMAIN q, k < m
               PROVE  /\ Sorted(q)[k].plan # Sorted(q)[m].plan
                      /\ Sorted(q)[k].priority <= Sorted(q)[m].priority
  BY <1>1 DEF Ordered
<1>3. PICK i \in DOMAIN q, j \in DOMAIN q : place[i] = k /\ place[j] = m
  BY <1>1
<1>4. Sorted(q)[k] = q[i] /\ Sorted(q)[m] = q[j] /\ Before(q, i, j)
  BY <1>1, <1>2, <1>3
<1>5. k # m
  BY <1>2, PriorityIsInt
<1>6. i # j
  BY <1>3, <1>5
<1>7. QED
  BY <1>4, <1>6, PriorityIsInt DEF Before, OnePerPlan

\* An entry written to a queue in order leaves it in order, with the entries of
\* every other plan.
LEMMA WrittenEntry ==
  ASSUME NEW q \in Seq(Entry), Ordered(q), NEW f \in Family, NEW p \in 1 .. MaxPriority
  PROVE  /\ WithEntry(q, f, p) \in Seq(Entry) /\ Ordered(WithEntry(q, f, p))
         /\ \A e \in Range(WithEntry(q, f, p)) : e \in Range(q) \/ e.plan = f
         /\ \A e \in Range(q) : e.plan # f => e \in Range(WithEntry(q, f, p))
<1> DEFINE entry == [plan |-> f, enabled |-> TRUE, priority |-> p]
           r == IF EntryOf(q, f) = {} THEN Append(q, entry)
                ELSE [i \in DOMAIN q |-> IF q[i].plan = f THEN entry ELSE q[i]]
<1>1. WithEntry(q, f, p) = Sorted(r)
  BY DEF WithEntry
<1>2. entry \in Entry /\ entry.plan = f
  BY DEF Entry
<1>3. OnePerPlan(q)
  BY PriorityIsInt DEF Ordered, OnePerPlan
<1> HIDE DEF entry
<1>4. CASE EntryOf(q, f) = {}
  <2>1. r = Append(q, entry)
    BY <1>4
  <2>2. \A i \in DOMAIN q : q[i].plan # f
    BY <1>4 DEF EntryOf, Range
  <2> HIDE DEF r
  <2>3. /\ r \in Seq(Entry) /\ DOMAIN r = 1 .. Len(q) + 1
        /\ \A i \in DOMAIN q : r[i] = q[i]
        /\ r[Len(q) + 1] = entry
    BY <1>2, <2>1
  <2>4. \A i \in DOMAIN r : i \in DOMAIN q \/ i = Len(q) + 1
    BY <2>3, PriorityIsInt
  <2>5. OnePerPlan(r)
    BY <1>2, <1>3, <2>2, <2>3, <2>4 DEF OnePerPlan
  <2>6. \A e \in Range(r) : e \in Range(q) \/ e.plan = f
    BY <1>2, <2>3, <2>4 DEF Range
  <2>7. \A e \in Range(q) : e \in Range(r)
    BY <2>3, PriorityIsInt DEF Range
  <2>8. QED
    BY <1>1, <2>3, <2>5, <2>6, <2>7, SortedKeeps, SortedIsOrdered
<1>5. CASE EntryOf(q, f) # {}
  <2>1. r = [i \in DOMAIN q |-> IF q[i].plan = f THEN entry ELSE q[i]]
    BY <1>5
  <2> HIDE DEF r
  <2>2. /\ DOMAIN r = DOMAIN q
        /\ \A i \in DOMAIN q : r[i] = IF q[i].plan = f THEN entry ELSE q[i]
    BY <2>1
  <2>3. \A i \in DOMAIN q : r[i].plan = q[i].plan /\ r[i] \in Entry
    BY <1>2, <2>2, PriorityIsInt
  <2>4. r \in Seq(Entry)
    BY <2>1, <2>3, PriorityIsInt
  <2>5. OnePerPlan(r)
    BY <1>3, <2>2, <2>3 DEF OnePerPlan
  <2>6. \A e \in Range(r) : e \in Range(q) \/ e.plan = f
    BY <1>2, <2>2 DEF Range
  <2>7. \A e \in Range(q) : e.plan # f => e \in Range(r)
    BY <2>2 DEF Range
  <2>8. QED
    BY <1>1, <2>4, <2>5, <2>6, <2>7, SortedKeeps, SortedIsOrdered
<1>6. QED
  BY <1>4, <1>5

\* A set of numbers that is not empty has a least one.
LEMMA LeastOf ==
  ASSUME NEW S \in SUBSET Nat, S # {}
  PROVE  Min(S) \in S /\ \A i \in S : Min(S) <= i
<1> DEFINE R == OpToRel(<, Nat)
<1>1. IsWellFoundedOn(R, Nat)
  BY NatLessThanWellFounded
<1> HIDE DEF R
<1>2. PICK e \in S : \A f \in S : <<f, e>> \notin R
  BY <1>1, WFMin
<1> USE DEF R
<1>3. \A f \in S : ~ (f < e)
  BY <1>2 DEF OpToRel
<1>4. \A f \in S : e <= f
  BY <1>3
<1>5. QED
  BY <1>4 DEF Min

\* A set of numbers of which none is above n has a greatest one, counted from n.
LEMMA GreatestOf ==
  ASSUME NEW n \in Nat, NEW S \in SUBSET (0 .. n), S # {}
  PROVE  Max(S) \in S /\ \A i \in S : i <= Max(S)
<1> DEFINE T == {n - i : i \in S}
<1>1. T \in SUBSET Nat /\ T # {}
  <2>1. \A i \in S : n - i \in Nat
    OBVIOUS
  <2>2. QED
    BY <2>1
<1>2. PICK m \in S : n - m = Min(T)
  BY <1>1, LeastOf
<1>3. \A i \in S : Min(T) <= n - i
  BY <1>1, LeastOf
<1>4. \A i \in S : i <= m
  BY <1>2, <1>3
<1>5. QED
  BY <1>4 DEF Max

\* A priority given to an entry, or one above those in use, is positive.
LEMMA NextPriorityTyped ==
  ASSUME NEW q \in Seq(Entry)
  PROVE  NextPriority(q) \in Nat \ {0}
<1>1. CASE q = <<>>
  BY <1>1 DEF NextPriority
<1>2. CASE q # <<>>
  <2> DEFINE P == {e.priority : e \in Range(q)}
  <2>1. P \in SUBSET (0 .. MaxPriority)
    <3>1. \A e \in Entry : e.priority \in 0 .. MaxPriority
      BY SupervisionAssumption DEF Entry
    <3>2. \A e \in Range(q) : e \in Entry
      BY PriorityIsInt DEF Range
    <3>3. QED
      BY <3>1, <3>2
  <2>2. 1 \in DOMAIN q
    BY <1>2, PriorityIsInt
  <2>3. P # {}
    BY <2>2 DEF Range
  <2> HIDE DEF P
  <2>4. Max(P) \in Nat
    <3>1. Max(P) \in P
      BY <2>1, <2>3, GreatestOf, SupervisionAssumption
    <3>2. Max(P) \in 0 .. MaxPriority
      BY <2>1, <3>1
    <3>3. QED
      BY <3>2, SupervisionAssumption
  <2>5. QED
    BY <1>2, <2>4 DEF NextPriority, P
<1>3. QED
  BY <1>1, <1>2

\* The members of a finite set of numbers, in order, are all different.
LEMMA NthMember ==
  ASSUME NEW S \in SUBSET Nat, IsFiniteSet(S)
  PROVE  /\ \A i \in 1 .. Cardinality(S) : Nth(S, i) \in S
         /\ \A i, j \in 1 .. Cardinality(S) : i # j => Nth(S, i) # Nth(S, j)
<1> DEFINE R == {e \in S \X S : e[1] < e[2]}
           P == PlaceIn(S, R)
<1>1. \A i, j \in S : <<i, j>> \in R <=> i < j
  OBVIOUS
<1>2. /\ \A i \in S : ~ (i < i)
      /\ \A i, j, k \in S : i < j /\ j < k => i < k
      /\ \A i, j \in S : i = j \/ i < j \/ j < i
  OBVIOUS
<1>3. \A f \in S : Cardinality({g \in S : g < f}) \in Nat
  <2> TAKE f \in S
  <2>1. {g \in S : g < f} \in SUBSET S
    OBVIOUS
  <2>2. QED
    BY <2>1, FS_Subset, FS_CardinalityType
<1>4. Cardinality(S) \in Nat
  BY FS_CardinalityType
<1> HIDE DEF R
<1>5. P \in Bijection(S, 1 .. Cardinality(S))
  BY <1>1, <1>2, PlacesOfAnOrder
<1>6. /\ P \in [S -> 1 .. Cardinality(S)]
      /\ \A k \in 1 .. Cardinality(S) : \E i \in S : P[i] = k
  BY <1>5 DEF Bijection, Injection, Surjection
<1>7. \A f \in S : P[f] = 1 + Cardinality({g \in S : g < f})
  <2> TAKE f \in S
  <2>1. {g \in S : <<g, f>> \in R} = {g \in S : g < f}
    BY <1>1
  <2>2. QED
    BY <2>1 DEF PlaceIn
<1> HIDE DEF P
<1>8. \A i \in 1 .. Cardinality(S) :
        \E f \in S : Cardinality({g \in S : g < f}) = i - 1
  BY <1>3, <1>4, <1>6, <1>7
<1>9. \A i \in 1 .. Cardinality(S) :
        /\ Nth(S, i) \in S
        /\ Cardinality({g \in S : g < Nth(S, i)}) = i - 1
  BY <1>8 DEF Nth
<1>10. \A i, j \in 1 .. Cardinality(S) : Nth(S, i) = Nth(S, j) => i - 1 = j - 1
  BY <1>9
<1>11. \A i, j \in 1 .. Cardinality(S) : i - 1 = j - 1 => i = j
  BY <1>4
<1>12. QED
  BY <1>9, <1>10, <1>11

-----------------------------------------------------------------------------
(* The invariants.                                                          *)

BootLabels == {"idle", "plan", "program", "read", "write"}
Writing(b) == boot[b].pc = "write"

\* The types of the processes, and that a runbook about to be written is in order.
ProcTypeOK ==
  /\ mgr = [pc |-> mgr.pc, programs |-> mgr.programs, families |-> mgr.families, plan |-> mgr.plan]
  /\ boot \in [Booter -> [pc : BootLabels, plan : Family \cup {None}, queue : Seq(Entry)]]
  /\ \A b \in Booter : Ordered(boot[b].queue) /\ (boot[b].pc # "idle" => boot[b].plan \in Family)

\* What a bootstrap has written, and what it is about to write, is defined.
HasDefinition(q) == \A e \in Range(q) : e.plan \in plans \intersect programs
BootDefined ==
  \A b \in Booter :
    /\ boot[b].pc \in {"program", "read", "write"} => boot[b].plan \in plans
    /\ boot[b].pc \in {"read", "write"} => boot[b].plan \in programs
    /\ HasDefinition(boot[b].queue)

\* Without a collision one bootstrap at most is about to write, and what it
\* writes has the entries of the others.
WritesAlone ==
  ~collided =>
    \A b \in Booter : Writing(b) =>
      /\ \A c \in Booter : Writing(c) => c = b
      /\ \A e \in Range(queue) : e.plan # boot[b].plan => e \in Range(boot[b].queue)

\* What the survey has read and where it may be stale.  The programs it read are
\* still defined; each thing it read is still so while its input is untouched;
\* and what it chose was ready in what it read.
HoldsBack == {"proposed", "under_review", "rejected"}
ReadPrograms == mgr.pc \in {"families", "queue", "start"}
ReadApprovals == mgr.pc \in {"queue", "start"}
ReadyNow(e) == EntryStatus(e, None, Portfolio, Families(Portfolio)) = "ready"
FirstReady(k) == ReadyNow(queue[k]) /\ \A i \in DOMAIN queue : i < k => ~ReadyNow(queue[i])

IdleRuntime == mgr.pc # "idle" /\ "directors" \notin touched
                 => running = {} /\ latest \notin {"failed", "stopped"}
SeenPrograms ==
  ReadPrograms => /\ DOMAIN mgr.programs \subseteq programs
                  /\ "evidence" \notin touched =>
                       \A f \in DOMAIN mgr.programs : mgr.programs[f] = ProgramStatus(evidence[f])
SeenApprovals ==
  ReadApprovals /\ "approvals" \notin touched =>
    \A f \in Family : mgr.families[f].approval = approval[f]
ChosenWasReady ==
  mgr.pc = "start" =>
    /\ mgr.plan \in Family /\ mgr.plan \in DOMAIN mgr.programs
    /\ mgr.programs[mgr.plan] \notin {"retired", "promoted"}
    /\ mgr.families[mgr.plan].approval \notin HoldsBack
UntouchedHolds ==
  touched = {} =>
    /\ mgr.pc \in {"families", "queue"} => mgr.programs = Portfolio
    /\ mgr.pc = "queue" => mgr.families = Families(Portfolio)
    /\ mgr.pc = "start" => \E k \in DOMAIN queue : queue[k].plan = mgr.plan /\ FirstReady(k)
SurveyHolds == IdleRuntime /\ SeenPrograms /\ SeenApprovals /\ ChosenWasReady /\ UntouchedHolds

-----------------------------------------------------------------------------
(* Type correctness.                                                        *)

MgrTyped ==
  /\ mgr = [pc |-> mgr.pc, programs |-> mgr.programs, families |-> mgr.families, plan |-> mgr.plan]
  /\ mgr.pc \in {"idle", "portfolio", "families", "queue", "start"}

BootRecord == [pc : BootLabels, plan : Family \cup {None}, queue : Seq(Entry)]
BootsTyped ==
  /\ boot \in [Booter -> BootRecord]
  /\ \A b \in Booter : Ordered(boot[b].queue) /\ (boot[b].pc # "idle" => boot[b].plan \in Family)

FilesTyped ==
  /\ approval \in [Family -> Allowed] /\ plans \subseteq Family /\ programs \subseteq Family
  /\ evidence \in [Family -> [Step -> {"not_run", "pass", "fail"}]]
QueueTyped == queue \in Seq(Entry) /\ Ordered(queue)
RunsTyped ==
  /\ running \subseteq Plan /\ latest \in {"none", "exhausted", "failed", "stopped"}
  /\ edits \in 0 .. MaxEdits /\ touched \subseteq Inputs /\ collided \in BOOLEAN

LEMMA TypeParts ==
  TypeOK /\ ProcTypeOK <=> MgrTyped /\ BootsTyped /\ FilesTyped /\ QueueTyped /\ RunsTyped
BY DEF TypeOK, ProcTypeOK, MgrTyped, BootsTyped, BootRecord, BootLabels, FilesTyped, QueueTyped,
       RunsTyped, Ordered

\* The parts after a step.
LEMMA TypePartsNext ==
  MgrTyped' /\ BootsTyped' /\ FilesTyped' /\ QueueTyped' /\ RunsTyped' => TypeOK' /\ ProcTypeOK'
BY DEF TypeOK, ProcTypeOK, MgrTyped, BootsTyped, BootRecord, BootLabels, FilesTyped, QueueTyped,
       RunsTyped, Ordered

LEMMA InitTyped == Init => TypeOK /\ ProcTypeOK
<1> SUFFICES ASSUME Init PROVE TypeOK /\ ProcTypeOK
  OBVIOUS
<1> DEFINE n == Cardinality(Bootstrapped)
<1>1. Bootstrapped \in SUBSET Nat /\ Bootstrapped \in SUBSET Family /\ IsFiniteSet(Bootstrapped)
  BY SupervisionAssumption, FS_Subset
<1>2. n \in Nat /\ n <= MaxPriority /\ MaxPriority \in Nat
  BY <1>1, FS_CardinalityType, SupervisionAssumption
<1>3. /\ \A i \in 1 .. n : Nth(Bootstrapped, i) \in Family
      /\ \A i, j \in 1 .. n : i # j => Nth(Bootstrapped, i) # Nth(Bootstrapped, j)
  BY <1>1, NthMember
<1>4. queue = [i \in 1 .. n |->
                 [plan |-> Nth(Bootstrapped, i), enabled |-> TRUE, priority |-> i]]
  BY DEF Init
<1> HIDE DEF n
<1>5. \A i \in 1 .. n :
        [plan |-> Nth(Bootstrapped, i), enabled |-> TRUE, priority |-> i] \in Entry
  BY <1>2, <1>3 DEF Entry
<1>6. queue \in Seq(Entry)
  BY <1>2, <1>4, <1>5
<1>7. Ordered(queue)
  <2>1. DOMAIN queue = 1 .. n
    BY <1>4
  <2>2. \A i \in 1 .. n : queue[i].plan = Nth(Bootstrapped, i) /\ queue[i].priority = i
    BY <1>4
  <2>3. \A i, j \in 1 .. n : i < j => i # j /\ i <= j
    BY <1>2
  <2>4. QED
    BY <1>3, <2>1, <2>2, <2>3 DEF Ordered
<1>8. Ordered(<<>>) /\ <<>> \in Seq(Entry)
  BY DEF Ordered
<1>9. BootsTyped
  BY <1>8 DEF Init, BootsTyped, BootRecord, BootLabels, IdleBoot
<1>10. MgrTyped /\ FilesTyped /\ RunsTyped
  <2>1. MgrTyped
    BY DEF Init, MgrTyped, IdleMgr
  <2>2. FilesTyped
    BY <1>1, SupervisionAssumption DEF Init, FilesTyped
  <2>3. RunsTyped
    <3>1. 0 \in 0 .. MaxEdits
      BY SupervisionAssumption
    <3>2. QED
      BY <3>1 DEF Init, RunsTyped
  <2>4. QED
    BY <2>1, <2>2, <2>3
<1>11. QED
  BY <1>6, <1>7, <1>9, <1>10, TypeParts DEF QueueTyped

\* A bootstrap that goes on, or ends.
LEMMA BootGoes ==
  ASSUME BootsTyped, NEW b \in Booter, NEW r \in BootRecord, Ordered(r.queue),
         r.pc # "idle" => r.plan \in Family, boot' = [boot EXCEPT ![b] = r]
  PROVE  BootsTyped'
<1>1. boot' \in [Booter -> BootRecord]
  BY DEF BootsTyped
<1>2. \A c \in Booter : boot'[c] = IF c = b THEN r ELSE boot[c]
  BY DEF BootsTyped
<1>3. QED
  BY <1>1, <1>2 DEF BootsTyped

LEMMA BootLabelGoes ==
  ASSUME BootsTyped, NEW b \in Booter, NEW label \in BootLabels, boot[b].pc # "idle",
         boot' = [boot EXCEPT ![b].pc = label]
  PROVE  BootsTyped'
<1> DEFINE r == [boot[b] EXCEPT !.pc = label]
<1>1. boot[b] \in BootRecord /\ boot' = [boot EXCEPT ![b] = r]
  BY DEF BootsTyped
<1>2. r \in BootRecord /\ r.queue = boot[b].queue /\ r.plan = boot[b].plan
  BY <1>1 DEF BootRecord
<1>3. r.plan \in Family /\ Ordered(r.queue)
  BY <1>2 DEF BootsTyped
<1> HIDE DEF r
<1>4. QED
  BY <1>1, <1>2, <1>3, BootGoes

LEMMA IdleBootTyped ==
  IdleBoot \in BootRecord /\ IdleBoot.queue = <<>> /\ IdleBoot.pc = "idle"
BY DEF IdleBoot, BootRecord, BootLabels

LEMMA BootIdles ==
  ASSUME BootsTyped, NEW b \in Booter, boot' = [boot EXCEPT ![b] = IdleBoot]
  PROVE  BootsTyped'
<1>1. Ordered(<<>>)
  BY DEF Ordered
<1>2. QED
  BY <1>1, IdleBootTyped, BootGoes

\* What BootRead is about to write.
LEMMA BootReads ==
  ASSUME BootsTyped, QueueTyped, NEW b \in Booter, BootRead(b)
  PROVE  LET q == boot'[b].queue
             f == boot[b].plan
         IN /\ boot' = [boot EXCEPT ![b] = [pc |-> "write", plan |-> f, queue |-> q]]
            /\ f \in Family /\ q \in Seq(Entry) /\ Ordered(q)
            /\ \A e \in Range(q) : e \in Range(queue) \/ e.plan = f
            /\ \A e \in Range(queue) : e.plan # f => e \in Range(q)
<1> DEFINE f == boot[b].plan
           p == IF GivenPriority[f] = 0 THEN NextPriority(queue) ELSE GivenPriority[f]
           w == WithEntry(queue, f, p)
<1>1. boot[b] \in BootRecord /\ boot[b].pc = "read" /\ f \in Family
  BY DEF BootRead, BootsTyped
<1>2. p <= MaxPriority /\ boot' = [boot EXCEPT ![b].pc = "write", ![b].queue = w]
  BY DEF BootRead
<1>3. p \in 1 .. MaxPriority
  <2>1. GivenPriority[f] \in 0 .. MaxPriority /\ MaxPriority \in Nat
    BY <1>1, SupervisionAssumption
  <2>2. NextPriority(queue) \in Nat \ {0}
    BY NextPriorityTyped DEF QueueTyped
  <2>3. QED
    BY <1>2, <2>1, <2>2
<1> HIDE DEF p
<1>4. /\ w \in Seq(Entry) /\ Ordered(w)
      /\ \A e \in Range(w) : e \in Range(queue) \/ e.plan = f
      /\ \A e \in Range(queue) : e.plan # f => e \in Range(w)
  BY <1>1, <1>3, WrittenEntry DEF QueueTyped
<1> HIDE DEF w
<1>5. boot' = [boot EXCEPT ![b] = [pc |-> "write", plan |-> f, queue |-> w]]
  <2>1. boot[b] = [pc |-> boot[b].pc, plan |-> f, queue |-> boot[b].queue]
    BY <1>1 DEF BootRecord
  <2>2. boot' = [boot EXCEPT ![b] = [boot[b] EXCEPT !.pc = "write", !.queue = w]]
    BY <1>2 DEF BootsTyped
  <2>3. [boot[b] EXCEPT !.pc = "write", !.queue = w] = [pc |-> "write", plan |-> f, queue |-> w]
    <3> DEFINE r == [boot[b] EXCEPT !.pc = "write", !.queue = w]
    <3>1. r \in BootRecord /\ r.pc = "write" /\ r.plan = f /\ r.queue = w
      BY <1>1, <1>4 DEF BootRecord, BootLabels
    <3> HIDE DEF r
    <3>2. r = [pc |-> r.pc, plan |-> r.plan, queue |-> r.queue]
      BY <3>1 DEF BootRecord
    <3>3. QED
      BY <3>1, <3>2 DEF r
  <2>4. QED
    BY <2>2, <2>3
<1>6. boot'[b].queue = w
  BY <1>5 DEF BootsTyped
<1>7. QED
  BY <1>1, <1>4, <1>5, <1>6

\* A queue with an entry switched on or off.
LEMMA ToggleTyped ==
  ASSUME QueueTyped, NEW f,
         queue' = [i \in DOMAIN queue |->
                     IF queue[i].plan = f THEN [queue[i] EXCEPT !.enabled = ~@] ELSE queue[i]]
  PROVE  /\ QueueTyped' /\ DOMAIN queue' = DOMAIN queue
         /\ \A i \in DOMAIN queue : queue'[i].plan = queue[i].plan
<1>1. DOMAIN queue = 1 .. Len(queue) /\ Len(queue) \in Nat
      /\ \A i \in DOMAIN queue : queue[i] \in Entry
  BY PriorityIsInt DEF QueueTyped
<1>2. DOMAIN queue' = DOMAIN queue
  OBVIOUS
<1>3. \A e \in Entry : /\ [e EXCEPT !.enabled = ~@] \in Entry
                       /\ [e EXCEPT !.enabled = ~@].plan = e.plan
                       /\ [e EXCEPT !.enabled = ~@].priority = e.priority
  BY DEF Entry
<1>4. \A i \in DOMAIN queue : /\ queue'[i] \in Entry /\ queue'[i].plan = queue[i].plan
                              /\ queue'[i].priority = queue[i].priority
  BY <1>1, <1>2, <1>3
<1>5. queue' \in [1 .. Len(queue) -> Entry]
  BY <1>1, <1>4
<1>6. queue' \in Seq(Entry)
  BY <1>1, <1>5
<1>7. Ordered(queue')
  BY <1>2, <1>4 DEF Ordered, QueueTyped
<1>8. QED
  BY <1>2, <1>4, <1>6, <1>7 DEF QueueTyped

LEMMA StepTyped ==
  ASSUME TypeOK, ProcTypeOK, [Next]_vars
  PROVE  TypeOK' /\ ProcTypeOK'
<1>0. MgrTyped /\ BootsTyped /\ FilesTyped /\ QueueTyped /\ RunsTyped
  BY TypeParts
<1>k. /\ UNCHANGED mgr => MgrTyped'
      /\ UNCHANGED boot => BootsTyped'
      /\ UNCHANGED <<approval, files, evidence>> => FilesTyped'
      /\ UNCHANGED queue => QueueTyped'
      /\ UNCHANGED <<running, latest, edits, touched, collided>> => RunsTyped'
  BY <1>0 DEF MgrTyped, BootsTyped, FilesTyped, QueueTyped, RunsTyped, files
<1>t. \A changed \in SUBSET Inputs : Touch(changed) => touched' \subseteq Inputs
  BY <1>0 DEF Touch, RunsTyped
<1>i. /\ {"approvals"} \in SUBSET Inputs /\ {"programs"} \in SUBSET Inputs
      /\ {"runbook"} \in SUBSET Inputs /\ {"directors"} \in SUBSET Inputs
      /\ {"directors", "evidence"} \in SUBSET Inputs
  BY DEF Inputs
<1>1. CASE Survey \/ ReadPortfolio \/ ReadFamilies
  BY <1>0, <1>1, <1>k, TypePartsNext DEF Survey, ReadPortfolio, ReadFamilies, MgrTyped, RunsTyped
<1>2. CASE ReadQueue
  <2>1. MgrTyped'
    BY <1>0, <1>2 DEF ReadQueue, MgrTyped, IdleMgr
  <2>2. RunsTyped'
    BY <1>0, <1>2 DEF ReadQueue, RunsTyped
  <2>3. QED
    BY <1>0, <1>2, <1>k, <2>1, <2>2, TypePartsNext DEF ReadQueue
<1>3. CASE StartNext
  <2>1. running' \subseteq Plan
    BY <1>0, <1>3 DEF StartNext, RunsTyped, Plan
  <2>2. QED
    BY <1>0, <1>3, <1>k, <2>1, TypePartsNext DEF StartNext, MgrTyped, IdleMgr, RunsTyped
<1>4. CASE StartRaises
  BY <1>0, <1>4, <1>k, TypePartsNext DEF StartRaises, MgrTyped, IdleMgr, RunsTyped
<1>5. ASSUME NEW x \in Plan, Exhausts(x) \/ Completes(x) \/ FailsOrStops(x)
      PROVE  TypeOK' /\ ProcTypeOK'
  <2>1. Leaves(x)
    BY <1>5 DEF Exhausts, Completes, FailsOrStops
  <2>2. evidence' \in [Family -> [Step -> {"not_run", "pass", "fail"}]]
    BY <2>1 DEF Leaves, Left
  <2>3. FilesTyped'
    BY <1>0, <1>5, <2>2 DEF FilesTyped, Exhausts, Completes, FailsOrStops, files
  <2>4. running' \subseteq Plan /\ touched' \subseteq Inputs
    BY <1>0, <1>i, <1>t, <2>1 DEF Leaves, RunsTyped
  <2>5. edits' \in 0 .. MaxEdits /\ latest' \in {"none", "exhausted", "failed", "stopped"}
    BY <1>0, <1>5, SupervisionAssumption DEF Exhausts, Completes, FailsOrStops, RunsTyped
  <2>6. UNCHANGED collided
    BY <1>5 DEF Exhausts, Completes, FailsOrStops
  <2>7. RunsTyped'
    BY <1>0, <2>4, <2>5, <2>6 DEF RunsTyped
  <2>8. QED
    BY <1>0, <1>5, <1>k, <2>3, <2>7, TypePartsNext DEF Exhausts, Completes, FailsOrStops
<1>6. ASSUME NEW f \in Family, NEW status \in Approvals, SetApproval(f, status)
      PROVE  TypeOK' /\ ProcTypeOK'
  <2>1. FilesTyped'
    BY <1>0, <1>6, SupervisionAssumption DEF FilesTyped, SetApproval, files
  <2>2. RunsTyped'
    BY <1>0, <1>6, <1>i, <1>t, SupervisionAssumption DEF SetApproval, RunsTyped
  <2>3. QED
    BY <1>0, <1>6, <1>k, <2>1, <2>2, TypePartsNext DEF SetApproval
<1>7. ASSUME NEW f \in Family, Toggle(f)
      PROVE  TypeOK' /\ ProcTypeOK'
  <2>1. QueueTyped'
    BY <1>0, <1>7, ToggleTyped DEF Toggle
  <2>2. RunsTyped'
    BY <1>0, <1>7, <1>i, <1>t, SupervisionAssumption DEF Toggle, RunsTyped
  <2>3. QED
    BY <1>0, <1>7, <1>k, <2>1, <2>2, TypePartsNext DEF Toggle
<1>8. ASSUME NEW x \in Plan, StartByHand(x)
      PROVE  TypeOK' /\ ProcTypeOK'
  <2>1. edits' \in 0 .. MaxEdits
    BY <1>0, <1>8, SupervisionAssumption DEF StartByHand, RunsTyped
  <2>2. running' \subseteq Plan /\ touched' \subseteq Inputs
    BY <1>0, <1>8, <1>i, <1>t DEF StartByHand, RunsTyped
  <2>3. RunsTyped'
    BY <1>0, <1>8, <2>1, <2>2 DEF StartByHand, RunsTyped
  <2>4. QED
    BY <1>0, <1>8, <1>k, <2>3, TypePartsNext DEF StartByHand
<1>9. ASSUME NEW b \in Booter, NEW f \in Family, BootBegin(b, f)
      PROVE  TypeOK' /\ ProcTypeOK'
  <2> DEFINE r == [IdleBoot EXCEPT !.pc = "plan", !.plan = f]
  <2>1. r \in BootRecord /\ r.queue = <<>> /\ r.plan = f
    BY IdleBootTyped DEF BootRecord, BootLabels
  <2>2. Ordered(<<>>)
    BY DEF Ordered
  <2>3. boot' = [boot EXCEPT ![b] = r]
    BY <1>9 DEF BootBegin
  <2> HIDE DEF r
  <2>4. BootsTyped'
    BY <1>0, <2>1, <2>2, <2>3, BootGoes
  <2>5. RunsTyped'
    BY <1>0, <1>9, SupervisionAssumption DEF BootBegin, RunsTyped
  <2>6. QED
    BY <1>0, <1>9, <1>k, <2>4, <2>5, TypePartsNext DEF BootBegin
<1>10. ASSUME NEW b \in Booter, BootPlan(b) \/ BootProgram(b)
       PROVE  TypeOK' /\ ProcTypeOK'
  <2>1. boot[b].pc # "idle" /\ boot[b].plan \in Family
    BY <1>0, <1>10 DEF BootPlan, BootProgram, BootsTyped
  <2>2. BootsTyped'
    BY <1>0, <1>10, <2>1, BootLabelGoes DEF BootPlan, BootProgram, BootLabels
  <2>3. FilesTyped' /\ RunsTyped'
    BY <1>0, <1>10, <1>i, <1>t, <2>1 DEF BootPlan, BootProgram, FilesTyped, RunsTyped
  <2>4. QED
    BY <1>0, <1>10, <1>k, <2>2, <2>3, TypePartsNext DEF BootPlan, BootProgram
<1>11. ASSUME NEW b \in Booter, BootRead(b)
       PROVE  TypeOK' /\ ProcTypeOK'
  <2> DEFINE r == [pc |-> "write", plan |-> boot[b].plan, queue |-> boot'[b].queue]
  <2>1. /\ boot' = [boot EXCEPT ![b] = r]
        /\ r \in BootRecord /\ Ordered(r.queue) /\ r.plan \in Family
    BY <1>0, <1>11, BootReads DEF BootRecord, BootLabels
  <2> HIDE DEF r
  <2>2. PICK rr \in BootRecord : rr = r
    BY <2>1
  <2>3. BootsTyped'
    BY <1>0, <2>1, <2>2, BootGoes
  <2>4. RunsTyped'
    BY <1>0, <1>11 DEF BootRead, RunsTyped
  <2>5. QED
    BY <1>0, <1>11, <1>k, <2>3, <2>4, TypePartsNext DEF BootRead
<1>12. ASSUME NEW b \in Booter, BootWrite(b)
       PROVE  TypeOK' /\ ProcTypeOK'
  <2>1. QueueTyped'
    BY <1>0, <1>12 DEF BootWrite, QueueTyped, BootsTyped, BootRecord
  <2>2. BootsTyped'
    BY <1>0, <1>12, BootIdles DEF BootWrite
  <2>3. RunsTyped'
    BY <1>0, <1>12, <1>i, <1>t DEF BootWrite, RunsTyped
  <2>4. QED
    BY <1>0, <1>12, <1>k, <2>1, <2>2, <2>3, TypePartsNext DEF BootWrite
<1>13. ASSUME NEW b \in Booter, BootDies(b)
       PROVE  TypeOK' /\ ProcTypeOK'
  <2>1. BootsTyped'
    BY <1>0, <1>13, BootIdles DEF BootDies
  <2>2. QED
    BY <1>0, <1>13, <1>k, <2>1, TypePartsNext DEF BootDies
<1>14. CASE UNCHANGED vars
  <2>1. /\ UNCHANGED mgr /\ UNCHANGED boot /\ UNCHANGED <<approval, files, evidence>>
        /\ UNCHANGED queue /\ UNCHANGED <<running, latest, edits, touched, collided>>
    BY <1>14 DEF vars, files
  <2>2. QED
    BY <1>k, <2>1, TypePartsNext
<1>15. QED
  BY <1>1, <1>2, <1>3, <1>4, <1>5, <1>6, <1>7, <1>8, <1>9, <1>10, <1>11, <1>12, <1>13, <1>14
     DEF Next, Manager, Ends, Operator, Boot

\* The types hold, and the runbook stays in the order that its loader demands
\* with one entry for each plan, whatever bootstraps, edits and runs do to it.
THEOREM RunbookStaysInOrder == Spec => []TypeOK
<1>1. Init => TypeOK /\ ProcTypeOK
  BY InitTyped
<1>2. TypeOK /\ ProcTypeOK /\ [Next]_vars => (TypeOK /\ ProcTypeOK)'
  BY StepTyped
<1>3. QED
  BY <1>1, <1>2, PTL DEF Spec

-----------------------------------------------------------------------------
(* Entries are defined, and a bootstrap keeps those of the others.          *)

DefInv == EntryHasDefinition /\ BootDefined

LEMMA InitDefined == Init => DefInv
<1> SUFFICES ASSUME Init PROVE DefInv
  OBVIOUS
<1> DEFINE n == Cardinality(Bootstrapped)
<1>1. Bootstrapped \in SUBSET Nat /\ IsFiniteSet(Bootstrapped)
  BY SupervisionAssumption, FS_Subset
<1>2. \A i \in 1 .. n : Nth(Bootstrapped, i) \in Bootstrapped
  BY <1>1, NthMember
<1>3. queue = [i \in 1 .. n |->
                 [plan |-> Nth(Bootstrapped, i), enabled |-> TRUE, priority |-> i]]
  BY DEF Init
<1> HIDE DEF n
<1>4. \A e \in Range(queue) : e.plan \in Bootstrapped
  BY <1>2, <1>3 DEF Range
<1>5. EntryHasDefinition
  BY <1>4 DEF EntryHasDefinition, Init
<1>6. BootDefined
  BY DEF BootDefined, Init, IdleBoot, HasDefinition, Range
<1>7. QED
  BY <1>5, <1>6 DEF DefInv

\* Definitions are only added.
LEMMA DefinitionsStay ==
  ASSUME TypeOK, ProcTypeOK, [Next]_vars
  PROVE  plans \subseteq plans' /\ programs \subseteq programs'
BY DEF Next, Manager, Ends, Operator, Boot, Survey, ReadPortfolio, ReadFamilies, ReadQueue,
       StartNext, StartRaises, Exhausts, Completes, FailsOrStops, SetApproval, Toggle,
       StartByHand, BootBegin, BootPlan, BootProgram, BootRead, BootWrite, BootDies, vars, files

\* What a step may do to the runbook and to the bootstraps.
LEMMA RunbookMoves ==
  ASSUME [Next]_vars
  PROVE  \/ UNCHANGED <<queue, boot, collided>>
         \/ \E f \in Family : Toggle(f)
         \/ \E b \in Booter : \/ \E f \in Family : BootBegin(b, f)
                              \/ BootPlan(b) \/ BootProgram(b) \/ BootRead(b)
                              \/ BootWrite(b) \/ BootDies(b)
BY DEF Next, Manager, Ends, Operator, Boot, Survey, ReadPortfolio, ReadFamilies, ReadQueue,
       StartNext, StartRaises, Exhausts, Completes, FailsOrStops, SetApproval,
       StartByHand, vars

LEMMA StepDefined ==
  ASSUME TypeOK, ProcTypeOK, DefInv, [Next]_vars
  PROVE  DefInv'
<1>0. MgrTyped /\ BootsTyped /\ FilesTyped /\ QueueTyped /\ RunsTyped
  BY TypeParts
<1>1. plans \subseteq plans' /\ programs \subseteq programs'
  BY DefinitionsStay
<1>2. \A e \in Range(queue) : e.plan \in plans' /\ e.plan \in programs'
  BY <1>1 DEF DefInv, EntryHasDefinition
<1>3. \A b \in Booter : \A e \in Range(boot[b].queue) : e.plan \in plans' /\ e.plan \in programs'
  BY <1>1 DEF DefInv, BootDefined, HasDefinition
<1>4. \A b \in Booter :
        /\ boot[b].pc \in {"program", "read", "write"} => boot[b].plan \in plans'
        /\ boot[b].pc \in {"read", "write"} => boot[b].plan \in programs'
  BY <1>1 DEF DefInv, BootDefined
\* The bootstraps after one of them took a step.
<1>b. ASSUME NEW b \in Booter, NEW r, boot' = [boot EXCEPT ![b] = r],
             r.pc \in {"program", "read", "write"} => r.plan \in plans',
             r.pc \in {"read", "write"} => r.plan \in programs',
             \A e \in Range(r.queue) : e.plan \in plans' /\ e.plan \in programs'
      PROVE  BootDefined'
  <2>1. \A c \in Booter : boot'[c] = IF c = b THEN r ELSE boot[c]
    BY <1>0, <1>b DEF BootsTyped
  <2>2. QED
    BY <1>3, <1>4, <1>b, <2>1 DEF BootDefined, HasDefinition
<1>c. UNCHANGED queue => EntryHasDefinition'
  BY <1>2 DEF EntryHasDefinition
<1>d. UNCHANGED boot => BootDefined'
  BY <1>3, <1>4 DEF BootDefined, HasDefinition
<1>e. IdleBoot.pc = "idle" /\ \A e \in Range(IdleBoot.queue) : FALSE
  BY DEF IdleBoot, Range
<1>5. CASE UNCHANGED <<queue, boot, collided>>
  BY <1>5, <1>c, <1>d DEF DefInv
<1>6. ASSUME NEW f \in Family, Toggle(f)
      PROVE  DefInv'
  <2>1. DOMAIN queue' = DOMAIN queue /\ \A i \in DOMAIN queue : queue'[i].plan = queue[i].plan
    BY <1>0, <1>6, ToggleTyped DEF Toggle
  <2>2. EntryHasDefinition'
    BY <1>2, <2>1 DEF EntryHasDefinition, Range
  <2>3. QED
    BY <1>6, <1>d, <2>2 DEF Toggle, DefInv
<1>7. ASSUME NEW b \in Booter, NEW f \in Family, BootBegin(b, f)
      PROVE  DefInv'
  <2> DEFINE r == [IdleBoot EXCEPT !.pc = "plan", !.plan = f]
  <2>1. r.pc = "plan" /\ r.queue = IdleBoot.queue
    BY DEF IdleBoot
  <2>2. boot' = [boot EXCEPT ![b] = r] /\ UNCHANGED queue
    BY <1>7 DEF BootBegin
  <2> HIDE DEF r
  <2>3. QED
    BY <1>b, <1>c, <1>e, <2>1, <2>2 DEF DefInv
<1>8. ASSUME NEW b \in Booter, BootPlan(b)
      PROVE  DefInv'
  <2> DEFINE r == [boot[b] EXCEPT !.pc = "program"]
  <2>1. boot' = [boot EXCEPT ![b] = r] /\ UNCHANGED queue /\ boot[b].plan \in plans'
    BY <1>8 DEF BootPlan
  <2>2. r.pc = "program" /\ r.plan = boot[b].plan /\ r.queue = boot[b].queue
    BY <1>0 DEF BootsTyped, BootRecord
  <2> HIDE DEF r
  <2>3. QED
    BY <1>3, <1>b, <1>c, <2>1, <2>2 DEF DefInv
<1>9. ASSUME NEW b \in Booter, BootProgram(b)
      PROVE  DefInv'
  <2> DEFINE r == [boot[b] EXCEPT !.pc = "read"]
  <2>1. /\ boot' = [boot EXCEPT ![b] = r] /\ UNCHANGED queue
        /\ boot[b].pc = "program" /\ boot[b].plan \in programs'
    BY <1>9 DEF BootProgram
  <2>2. r.pc = "read" /\ r.plan = boot[b].plan /\ r.queue = boot[b].queue
    BY <1>0 DEF BootsTyped, BootRecord
  <2> HIDE DEF r
  <2>3. QED
    BY <1>3, <1>4, <1>b, <1>c, <2>1, <2>2 DEF DefInv
<1>10. ASSUME NEW b \in Booter, BootRead(b)
       PROVE  DefInv'
  <2>1. PICK q \in Seq(Entry) :
          /\ boot' = [boot EXCEPT ![b] = [pc |-> "write", plan |-> boot[b].plan, queue |-> q]]
          /\ \A e \in Range(q) : e \in Range(queue) \/ e.plan = boot[b].plan
    BY <1>0, <1>10, BootReads
  <2>2. boot[b].pc = "read" /\ UNCHANGED queue
    BY <1>10 DEF BootRead
  <2>3. boot[b].plan \in plans' /\ boot[b].plan \in programs'
    BY <1>4, <2>2
  <2>4. \A e \in Range(q) : e.plan \in plans' /\ e.plan \in programs'
    BY <1>2, <2>1, <2>3
  <2>5. BootDefined'
    BY <1>b, <2>1, <2>3, <2>4
  <2>6. QED
    BY <1>c, <2>2, <2>5 DEF DefInv
<1>11. ASSUME NEW b \in Booter, BootWrite(b)
       PROVE  DefInv'
  <2>1. queue' = boot[b].queue /\ boot' = [boot EXCEPT ![b] = IdleBoot]
    BY <1>11 DEF BootWrite
  <2>2. EntryHasDefinition'
    BY <1>3, <2>1 DEF EntryHasDefinition
  <2>3. QED
    BY <1>b, <1>e, <2>1, <2>2 DEF DefInv
<1>12. ASSUME NEW b \in Booter, BootDies(b)
       PROVE  DefInv'
  <2>1. UNCHANGED queue /\ boot' = [boot EXCEPT ![b] = IdleBoot]
    BY <1>12 DEF BootDies
  <2>2. QED
    BY <1>b, <1>c, <1>e, <2>1 DEF DefInv
<1>13. QED
  BY <1>5, <1>6, <1>7, <1>8, <1>9, <1>10, <1>11, <1>12, RunbookMoves

\* An entry of the runbook has its director plan and its program wherever a
\* bootstrap stops, and whichever of two bootstraps writes over the other.
THEOREM EntriesAreDefined == Spec => []EntryHasDefinition
<1>1. Init => TypeOK /\ ProcTypeOK /\ DefInv
  BY InitTyped, InitDefined
<1>2. TypeOK /\ ProcTypeOK /\ DefInv /\ [Next]_vars => (TypeOK /\ ProcTypeOK /\ DefInv)'
  BY StepTyped, StepDefined
<1>3. DefInv => EntryHasDefinition
  BY DEF DefInv
<1>4. QED
  BY <1>1, <1>2, <1>3, PTL DEF Spec

LEMMA StepWritesAlone ==
  ASSUME TypeOK, ProcTypeOK, WritesAlone, [Next]_vars
  PROVE  WritesAlone'
<1>0. MgrTyped /\ BootsTyped /\ FilesTyped /\ QueueTyped /\ RunsTyped
  BY TypeParts
<1>1. SUFFICES ASSUME ~ collided',
                      NEW b \in Booter, boot'[b].pc = "write"
               PROVE  /\ \A c \in Booter : boot'[c].pc = "write" => c = b
                      /\ \A e \in Range(queue') :
                           e.plan # boot'[b].plan => e \in Range(boot'[b].queue)
  BY DEF WritesAlone, Writing
\* A bootstrap that takes a step to another label than "write".
<1>2. ASSUME NEW c \in Booter, NEW r, r.pc # "write", boot' = [boot EXCEPT ![c] = r]
      PROVE  b # c /\ boot'[b] = boot[b]
             /\ \A d \in Booter : boot'[d].pc = "write" => boot[d].pc = "write"
  <2>1. \A d \in Booter : boot'[d] = IF d = c THEN r ELSE boot[d]
    BY <1>0, <1>2 DEF BootsTyped
  <2>2. QED
    BY <1>1, <1>2, <2>1
<1>3. ASSUME ~ collided, UNCHANGED queue, boot'[b] = boot[b],
             \A d \in Booter : boot'[d].pc = "write" => boot[d].pc = "write"
      PROVE  /\ \A c \in Booter : boot'[c].pc = "write" => c = b
             /\ \A e \in Range(queue') :
                  e.plan # boot'[b].plan => e \in Range(boot'[b].queue)
  BY <1>1, <1>3 DEF WritesAlone, Writing
<1>4. CASE UNCHANGED <<queue, boot, collided>>
  BY <1>1, <1>3, <1>4
<1>5. ASSUME NEW f \in Family, Toggle(f)
      PROVE  FALSE
  BY <1>1, <1>5 DEF Toggle
<1>6. ASSUME NEW c \in Booter, NEW f \in Family, BootBegin(c, f)
      PROVE  /\ \A d \in Booter : boot'[d].pc = "write" => d = b
             /\ \A e \in Range(queue') :
                  e.plan # boot'[b].plan => e \in Range(boot'[b].queue)
  <2> DEFINE r == [IdleBoot EXCEPT !.pc = "plan", !.plan = f]
  <2>1. r.pc = "plan"
    BY DEF IdleBoot
  <2>2. boot' = [boot EXCEPT ![c] = r] /\ UNCHANGED queue /\ UNCHANGED collided
    BY <1>6 DEF BootBegin
  <2> HIDE DEF r
  <2>3. QED
    BY <1>1, <1>2, <1>3, <2>1, <2>2
<1>7. ASSUME NEW c \in Booter, BootPlan(c) \/ BootProgram(c)
      PROVE  /\ \A d \in Booter : boot'[d].pc = "write" => d = b
             /\ \A e \in Range(queue') :
                  e.plan # boot'[b].plan => e \in Range(boot'[b].queue)
  <2>1. PICK label \in {"program", "read"} : boot' = [boot EXCEPT ![c].pc = label]
    BY <1>7 DEF BootPlan, BootProgram
  <2> DEFINE r == [boot[c] EXCEPT !.pc = label]
  <2>2. r.pc = label /\ boot' = [boot EXCEPT ![c] = r] /\ UNCHANGED queue /\ UNCHANGED collided
    BY <1>0, <1>7, <2>1 DEF BootPlan, BootProgram, BootsTyped, BootRecord
  <2> HIDE DEF r
  <2>3. QED
    BY <1>1, <1>2, <1>3, <2>1, <2>2
<1>8. ASSUME NEW c \in Booter, BootRead(c)
      PROVE  /\ \A d \in Booter : boot'[d].pc = "write" => d = b
             /\ \A e \in Range(queue') :
                  e.plan # boot'[b].plan => e \in Range(boot'[b].queue)
  <2>1. UNCHANGED queue /\ \A d \in Booter \ {c} : boot[d].pc # "write"
    BY <1>1, <1>8 DEF BootRead
  <2>2. /\ boot' = [boot EXCEPT ![c] = [pc |-> "write", plan |-> boot[c].plan,
                                        queue |-> boot'[c].queue]]
        /\ \A e \in Range(queue) : e.plan # boot[c].plan => e \in Range(boot'[c].queue)
    BY <1>0, <1>8, BootReads
  <2>3. \A d \in Booter \ {c} : boot'[d] = boot[d]
    BY <1>0, <2>2 DEF BootsTyped
  <2>4. boot'[c].plan = boot[c].plan
    BY <1>0, <2>2 DEF BootsTyped
  <2>5. b = c /\ \A d \in Booter : boot'[d].pc = "write" => d = c
    BY <1>1, <2>1, <2>3
  <2>6. QED
    BY <2>1, <2>2, <2>4, <2>5
<1>9. ASSUME NEW c \in Booter, BootWrite(c)
      PROVE  FALSE
  <2>1. boot[c].pc = "write" /\ boot' = [boot EXCEPT ![c] = IdleBoot] /\ ~ collided
    BY <1>1, <1>9 DEF BootWrite
  <2>2. b # c /\ boot[b].pc = "write"
    BY <1>1, <1>2, <2>1, IdleBootTyped
  <2>3. QED
    BY <2>1, <2>2 DEF WritesAlone, Writing
<1>10. ASSUME NEW c \in Booter, BootDies(c)
      PROVE  /\ \A d \in Booter : boot'[d].pc = "write" => d = b
             /\ \A e \in Range(queue') :
                  e.plan # boot'[b].plan => e \in Range(boot'[b].queue)
  <2>1. boot' = [boot EXCEPT ![c] = IdleBoot] /\ UNCHANGED queue /\ UNCHANGED collided
    BY <1>10 DEF BootDies
  <2>2. QED
    BY <1>1, <1>2, <1>3, <2>1, IdleBootTyped
<1>11. QED
  BY <1>4, <1>5, <1>6, <1>7, <1>8, <1>9, <1>10, RunbookMoves

\* The step of QueueKeepsEntries.
KeepsEntries ==
  collided \/ edits' # edits \/ \A e \in Range(queue) :
    e \in Range(queue') \/ \E b \in Booter : boot[b].pc = "write" /\ boot[b].plan = e.plan

LEMMA StepKeepsEntries ==
  ASSUME TypeOK, ProcTypeOK, WritesAlone, [Next]_vars
  PROVE  KeepsEntries
<1>0. RunsTyped
  BY TypeParts
<1>1. CASE \E b \in Booter : BootWrite(b)
  <2>1. PICK b \in Booter : boot[b].pc = "write" /\ queue' = boot[b].queue
    BY <1>1 DEF BootWrite
  <2>2. QED
    BY <2>1 DEF KeepsEntries, WritesAlone, Writing
<1>2. CASE \E f \in Family : Toggle(f)
  <2>1. edits' = edits + 1 /\ edits \in Int
    BY <1>0, <1>2, SupervisionAssumption DEF Toggle, RunsTyped
  <2>2. QED
    BY <2>1 DEF KeepsEntries
<1>3. CASE UNCHANGED queue
  BY <1>3 DEF KeepsEntries
<1>4. QED
  BY <1>1, <1>2, <1>3, RunbookMoves DEF BootBegin, BootPlan, BootProgram, BootRead, BootDies

\* A bootstrap that writes the runbook without another in between changes the
\* entry of its own family only, whatever priorities and families there are.
THEOREM BootstrapsKeepEntries == Spec => QueueKeepsEntries
<1>1. Init => TypeOK /\ ProcTypeOK /\ WritesAlone
  <2>1. Init => WritesAlone
    BY DEF Init, WritesAlone, Writing, IdleBoot
  <2>2. QED
    BY <2>1, InitTyped
<1>2. TypeOK /\ ProcTypeOK /\ WritesAlone /\ [Next]_vars => (TypeOK /\ ProcTypeOK /\ WritesAlone)'
  BY StepTyped, StepWritesAlone
<1>3. TypeOK /\ ProcTypeOK /\ WritesAlone /\ [Next]_vars => [KeepsEntries]_vars
  BY StepKeepsEntries
<1>4. [][KeepsEntries]_vars => QueueKeepsEntries
  BY PTL DEF QueueKeepsEntries, KeepsEntries
<1>5. QED
  BY <1>1, <1>2, <1>3, <1>4, PTL DEF Spec

-----------------------------------------------------------------------------
(* What the manager starts may run.                                         *)

\* What a survey reads.
LEMMA SurveyReads ==
  /\ UNCHANGED <<programs, evidence>> => Portfolio' = Portfolio
  /\ UNCHANGED <<programs, evidence, approval, queue>> =>
       /\ Families(Portfolio)' = Families(Portfolio)
       /\ \A k \in DOMAIN queue : FirstReady(k)' <=> FirstReady(k)
<1>1. ASSUME UNCHANGED <<programs, evidence>>
      PROVE  Portfolio' = Portfolio
  BY <1>1 DEF Portfolio
<1>2. ASSUME UNCHANGED <<programs, evidence, approval, queue>>
      PROVE  Families(Portfolio)' = Families(Portfolio)
  BY <1>2 DEF Families, Portfolio, FamilyStatus, Enabled, EntryOf, Range
<1>3. ASSUME UNCHANGED <<programs, evidence, approval, queue>>, NEW k \in DOMAIN queue
      PROVE  FirstReady(k)' <=> FirstReady(k)
  BY <1>1, <1>2, <1>3 DEF FirstReady, ReadyNow
<1>4. QED
  BY <1>1, <1>2, <1>3

\* An entry that is ready in what a survey read.
LEMMA ReadyMayRun ==
  ASSUME NEW e \in Entry, NEW portfolio, NEW families,
         EntryStatus(e, None, portfolio, families) = "ready"
  PROVE  /\ e.plan \in Family /\ e.plan \in DOMAIN portfolio
         /\ portfolio[e.plan] \notin {"retired", "promoted"}
         /\ families[e.plan].approval \notin HoldsBack
<1>1. e.plan \in Family /\ e.plan # None
  BY SupervisionAssumption DEF Entry, None
<1>2. QED
  BY <1>1 DEF EntryStatus, HoldsBack

\* The first entry on standby is the first that is ready, in what was read.
LEMMA FirstOnStandby ==
  ASSUME QueueTyped, NEW portfolio, NEW families,
         NEW S, S = Standby(queue, None, portfolio, families), S # {}
  PROVE  /\ Min(S) \in DOMAIN queue /\ queue[Min(S)] \in Entry
         /\ EntryStatus(queue[Min(S)], None, portfolio, families) = "ready"
         /\ \A i \in DOMAIN queue :
              i < Min(S) => EntryStatus(queue[i], None, portfolio, families) # "ready"
<1>1. DOMAIN queue = 1 .. Len(queue) /\ Len(queue) \in Nat
      /\ \A i \in DOMAIN queue : queue[i] \in Entry
  BY PriorityIsInt DEF QueueTyped
<1>2. \A i \in DOMAIN queue : queue[i].plan # None
  BY <1>1, SupervisionAssumption DEF Entry, None
<1>3. S = {i \in DOMAIN queue : EntryStatus(queue[i], None, portfolio, families) = "ready"}
  BY <1>2 DEF Standby
<1>4. S \in SUBSET Nat
  BY <1>1, <1>3
<1>5. Min(S) \in S /\ \A i \in S : Min(S) <= i
  BY <1>4, LeastOf
<1>6. \A i \in DOMAIN queue : i < Min(S) => i \notin S
  BY <1>1, <1>4, <1>5
<1>7. QED
  BY <1>1, <1>3, <1>5, <1>6

\* Whoever is not the manager leaves it alone, and what it does to anything the
\* survey reads falls into a survey that is on.
LEMMA OthersTouch ==
  ASSUME Next, ~ Manager
  PROVE  /\ UNCHANGED mgr /\ programs \subseteq programs'
         /\ mgr.pc # "idle" =>
              /\ touched \subseteq touched'
              /\ "approvals" \notin touched' => UNCHANGED approval
              /\ "evidence" \notin touched' => UNCHANGED evidence
              /\ "directors" \notin touched' => UNCHANGED <<running, latest>>
              /\ "programs" \notin touched' => UNCHANGED programs
              /\ "runbook" \notin touched' => UNCHANGED queue
<1>1. CASE Ends \/ Operator
  BY <1>1 DEF Ends, Operator, Exhausts, Completes, FailsOrStops, Leaves, SetApproval, Toggle,
       StartByHand, Touch, files
<1>2. CASE \E b \in Booter : Boot(b)
  BY <1>2 DEF Boot, BootBegin, BootPlan, BootProgram, BootRead, BootWrite, BootDies, Touch, files
<1>3. QED
  BY <1>1, <1>2 DEF Next

LEMMA StepSurveyHolds ==
  ASSUME TypeOK, ProcTypeOK, SurveyHolds, [Next]_vars
  PROVE  SurveyHolds'
<1>0. MgrTyped /\ FilesTyped /\ QueueTyped /\ RunsTyped
  BY TypeParts
<1>s. IdleRuntime /\ SeenPrograms /\ SeenApprovals /\ ChosenWasReady /\ UntouchedHolds
  BY DEF SurveyHolds
<1>i. mgr'.pc = "idle" => SurveyHolds'
  BY DEF SurveyHolds, IdleRuntime, SeenPrograms, SeenApprovals, ChosenWasReady, UntouchedHolds,
         ReadPrograms, ReadApprovals
<1>1. CASE Survey
  BY <1>0, <1>1 DEF Survey, MgrTyped, SurveyHolds, IdleRuntime, SeenPrograms, SeenApprovals,
     ChosenWasReady, UntouchedHolds, ReadPrograms, ReadApprovals
<1>2. CASE ReadPortfolio
  <2>1. Portfolio' = Portfolio
    BY <1>2, SurveyReads DEF ReadPortfolio, files
  <2>2. mgr'.pc = "families" /\ mgr'.programs = Portfolio
    BY <1>0, <1>2 DEF ReadPortfolio, MgrTyped
  <2>3. mgr.pc = "portfolio" /\ UNCHANGED <<programs, evidence, running, latest, touched>>
    BY <1>2 DEF ReadPortfolio, files
  <2>4. SeenPrograms'
    BY <2>2, <2>3 DEF SeenPrograms, Portfolio
  <2>5. IdleRuntime'
    BY <1>s, <2>3 DEF IdleRuntime
  <2>6. SeenApprovals' /\ ChosenWasReady' /\ UntouchedHolds'
    BY <2>1, <2>2 DEF SeenApprovals, ChosenWasReady, UntouchedHolds, ReadApprovals
  <2>7. QED
    BY <2>4, <2>5, <2>6 DEF SurveyHolds
<1>3. CASE ReadFamilies
  <2>1. Portfolio' = Portfolio /\ Families(Portfolio)' = Families(Portfolio)
    BY <1>3, SurveyReads DEF ReadFamilies, files
  <2>2. /\ mgr'.pc = "queue" /\ mgr'.programs = mgr.programs
        /\ mgr'.families = Families(mgr.programs)
    BY <1>0, <1>3 DEF ReadFamilies, MgrTyped
  <2>3. mgr.pc = "families"
        /\ UNCHANGED <<approval, programs, evidence, running, latest, touched>>
    BY <1>3 DEF ReadFamilies, files
  <2>4. SeenPrograms' /\ IdleRuntime'
    BY <1>s, <2>2, <2>3 DEF SeenPrograms, IdleRuntime, ReadPrograms
  <2>5. SeenApprovals'
    BY <2>2, <2>3 DEF SeenApprovals, Families
  <2>6. ChosenWasReady' /\ UntouchedHolds'
    BY <1>s, <2>1, <2>2, <2>3 DEF ChosenWasReady, UntouchedHolds
  <2>7. QED
    BY <2>4, <2>5, <2>6 DEF SurveyHolds
<1>4. CASE ReadQueue
  <2> DEFINE S == Standby(queue, None, mgr.programs, mgr.families)
             queued == NextFamilyStatus(None, S, mgr.families) = "queued"
  <2>1. /\ mgr.pc = "queue" /\ touched' = IF mgr'.pc = "start" THEN touched ELSE {}
        /\ mgr' = IF queued /\ S # {}
                  THEN [mgr EXCEPT !.pc = "start", !.plan = queue[Min(S)].plan] ELSE IdleMgr
        /\ UNCHANGED <<approval, programs, queue, evidence, running, latest>>
    BY <1>4 DEF ReadQueue, files
  <2> HIDE DEF queued
  <2>2. CASE ~ (queued /\ S # {})
    BY <1>i, <2>1, <2>2 DEF IdleMgr
  <2>3. CASE S # {} /\ queued
    <3>1. PICK k \in DOMAIN queue :
            /\ k = Min(S) /\ queue[k] \in Entry
            /\ EntryStatus(queue[k], None, mgr.programs, mgr.families) = "ready"
            /\ \A i \in DOMAIN queue :
                 i < k => EntryStatus(queue[i], None, mgr.programs, mgr.families) # "ready"
      BY <1>0, <2>3, FirstOnStandby
    <3> HIDE DEF S
    <3>2. /\ mgr'.pc = "start" /\ mgr'.plan = queue[k].plan
          /\ mgr'.programs = mgr.programs /\ mgr'.families = mgr.families
          /\ UNCHANGED touched
      BY <1>0, <2>1, <2>3, <3>1 DEF MgrTyped
    <3>3. ChosenWasReady'
      BY <3>1, <3>2, ReadyMayRun DEF ChosenWasReady
    <3>4. IdleRuntime' /\ SeenPrograms' /\ SeenApprovals'
      BY <1>s, <2>1, <3>2
         DEF IdleRuntime, SeenPrograms, SeenApprovals, ReadPrograms, ReadApprovals
    <3>5. ASSUME touched = {}
          PROVE  FirstReady(k)' /\ k \in DOMAIN queue' /\ queue'[k].plan = mgr'.plan
      <4>1. mgr.programs = Portfolio /\ mgr.families = Families(Portfolio)
        BY <1>s, <2>1, <3>5 DEF UntouchedHolds
      <4>2. FirstReady(k)
        BY <3>1, <4>1 DEF FirstReady, ReadyNow
      <4>3. FirstReady(k)'
        BY <2>1, <4>2, SurveyReads
      <4>4. QED
        BY <2>1, <3>1, <3>2, <4>3
    <3>6. UntouchedHolds'
      BY <3>2, <3>5 DEF UntouchedHolds
    <3>7. QED
      BY <3>3, <3>4, <3>6 DEF SurveyHolds
  <2>4. QED
    BY <2>2, <2>3
<1>5. CASE StartNext \/ StartRaises
  BY <1>5, <1>i DEF StartNext, StartRaises, IdleMgr
<1>6. CASE Next /\ ~ Manager /\ mgr.pc # "idle"
  <2>1. /\ UNCHANGED mgr /\ programs \subseteq programs' /\ touched \subseteq touched'
        /\ "approvals" \notin touched' => UNCHANGED approval
        /\ "evidence" \notin touched' => UNCHANGED evidence
        /\ "directors" \notin touched' => UNCHANGED <<running, latest>>
        /\ touched' = {} => /\ touched = {}
                            /\ UNCHANGED <<approval, programs, queue, evidence>>
    BY <1>6, OthersTouch
  <2>2. IdleRuntime'
    BY <1>s, <2>1 DEF IdleRuntime
  <2>3. SeenPrograms'
    BY <1>s, <2>1 DEF SeenPrograms, ReadPrograms
  <2>4. SeenApprovals' /\ ChosenWasReady'
    BY <1>s, <2>1 DEF SeenApprovals, ChosenWasReady, ReadApprovals
  <2>5. UntouchedHolds'
    <3>1. SUFFICES ASSUME touched' = {}
                   PROVE  /\ mgr.pc \in {"families", "queue"} => mgr.programs = Portfolio'
                          /\ mgr.pc = "queue" => mgr.families = Families(Portfolio)'
                          /\ mgr.pc = "start" =>
                               \E k \in DOMAIN queue' :
                                 queue'[k].plan = mgr.plan /\ FirstReady(k)'
      BY <2>1 DEF UntouchedHolds
    <3>2. /\ Portfolio' = Portfolio /\ Families(Portfolio)' = Families(Portfolio)
          /\ \A k \in DOMAIN queue : FirstReady(k)' <=> FirstReady(k)
          /\ touched = {} /\ UNCHANGED queue
      BY <2>1, <3>1, SurveyReads
    <3>3. QED
      BY <1>s, <3>2 DEF UntouchedHolds
  <2>6. QED
    BY <2>2, <2>3, <2>4, <2>5 DEF SurveyHolds
<1>7. CASE Next /\ ~ Manager /\ mgr.pc = "idle"
  BY <1>7, <1>i, OthersTouch
<1>8. CASE UNCHANGED vars
  <2>1. /\ Portfolio' = Portfolio /\ Families(Portfolio)' = Families(Portfolio)
        /\ \A k \in DOMAIN queue : FirstReady(k)' <=> FirstReady(k)
    BY <1>8, SurveyReads DEF vars, files
  <2>2. UNCHANGED <<approval, programs, queue, evidence, running, latest, mgr, touched>>
    BY <1>8 DEF vars, files
  <2>3. UntouchedHolds'
    BY <1>s, <2>1, <2>2 DEF UntouchedHolds
  <2>4. IdleRuntime' /\ SeenPrograms' /\ SeenApprovals' /\ ChosenWasReady'
    BY <1>s, <2>2 DEF IdleRuntime, SeenPrograms, SeenApprovals, ChosenWasReady,
                      ReadPrograms, ReadApprovals
  <2>5. QED
    BY <2>3, <2>4 DEF SurveyHolds
<1>9. QED
  BY <1>1, <1>2, <1>3, <1>4, <1>5, <1>6, <1>7, <1>8 DEF Manager

\* The step of StartIsGoverned.
GovernedStart ==
  \A f \in Family : Starts(f) =>
    /\ Enabled(queue, f) /\ f \in programs
    /\ "directors" \notin touched => running = {} /\ latest \notin {"failed", "stopped"}
    /\ "approvals" \notin touched => approval[f] \notin {"proposed", "under_review", "rejected"}
    /\ "evidence" \notin touched => ProgramStatus(evidence[f]) = "active"
    /\ touched = {} => \A i, j \in DOMAIN queue :
         queue[j].plan = f /\ i < j =>
           EntryStatus(queue[i], None, Portfolio, Families(Portfolio)) # "ready"

LEMMA StepGovernedStart ==
  ASSUME TypeOK, ProcTypeOK, SurveyHolds, [Next]_vars
  PROVE  GovernedStart
<1>0. MgrTyped /\ FilesTyped /\ QueueTyped
  BY TypeParts
<1>s. IdleRuntime /\ SeenPrograms /\ SeenApprovals /\ ChosenWasReady /\ UntouchedHolds
  BY DEF SurveyHolds
<1>1. SUFFICES ASSUME NEW f \in Family, Starts(f)
               PROVE  /\ Enabled(queue, f) /\ f \in programs
                      /\ "directors" \notin touched =>
                           running = {} /\ latest \notin {"failed", "stopped"}
                      /\ "approvals" \notin touched => approval[f] \notin HoldsBack
                      /\ "evidence" \notin touched => ProgramStatus(evidence[f]) = "active"
                      /\ touched = {} => \A i, j \in DOMAIN queue :
                           queue[j].plan = f /\ i < j => ~ ReadyNow(queue[i])
  BY DEF GovernedStart, ReadyNow, HoldsBack
<1>2. StartNext
  <2>1. mgr.pc = "start" /\ mgr'.pc = "idle" /\ running' # running
    BY <1>1 DEF Starts
  <2>2. ~ UNCHANGED mgr
    BY <2>1
  <2>3. Manager
    BY <2>2, OthersTouch DEF vars
  <2>4. QED
    BY <2>1, <2>3 DEF Manager, Survey, ReadPortfolio, ReadFamilies, ReadQueue, StartRaises
<1>3. mgr.pc = "start" /\ f = mgr.plan /\ Enabled(queue, f)
  BY <1>1, <1>2 DEF StartNext, Starts
<1>4. f \in DOMAIN mgr.programs /\ f \in programs
  BY <1>3, <1>s DEF ChosenWasReady, SeenPrograms, ReadPrograms
<1>5. "evidence" \notin touched => ProgramStatus(evidence[f]) = "active"
  <2>1. ProgramStatus(evidence[f]) \in {"promoted", "active", "retired"}
    BY DEF ProgramStatus
  <2>2. mgr.programs[f] \notin {"retired", "promoted"}
    BY <1>3, <1>s DEF ChosenWasReady
  <2>3. "evidence" \notin touched => mgr.programs[f] = ProgramStatus(evidence[f])
    BY <1>3, <1>4, <1>s DEF SeenPrograms, ReadPrograms
  <2>4. QED
    BY <2>1, <2>2, <2>3
<1>6. "approvals" \notin touched => approval[f] \notin HoldsBack
  BY <1>3, <1>s DEF ChosenWasReady, SeenApprovals, ReadApprovals
<1>7. "directors" \notin touched => running = {} /\ latest \notin {"failed", "stopped"}
  BY <1>3, <1>s DEF IdleRuntime
<1>8. ASSUME touched = {}, NEW i \in DOMAIN queue, NEW j \in DOMAIN queue,
             queue[j].plan = f, i < j
      PROVE  ~ ReadyNow(queue[i])
  <2>1. PICK k \in DOMAIN queue : queue[k].plan = f /\ FirstReady(k)
    BY <1>3, <1>8, <1>s DEF UntouchedHolds
  <2>2. j = k
    BY <1>0, <1>8, <2>1, PriorityIsInt DEF QueueTyped, Ordered
  <2>3. QED
    BY <1>8, <2>1, <2>2 DEF FirstReady
<1>9. QED
  BY <1>3, <1>4, <1>5, <1>6, <1>7, <1>8

\* The manager starts a director only for an entry that is enabled and defined,
\* and each other demand of the survey holds at the start unless the one input it
\* was read from has changed, for any queue and whatever happens meanwhile.
THEOREM StartsAreGoverned == Spec => StartIsGoverned
<1>1. Init => TypeOK /\ ProcTypeOK /\ SurveyHolds
  <2>1. Init => SurveyHolds
    BY DEF Init, IdleMgr, SurveyHolds, IdleRuntime, SeenPrograms, SeenApprovals, ChosenWasReady,
           UntouchedHolds, ReadPrograms, ReadApprovals
  <2>2. QED
    BY <2>1, InitTyped
<1>2. TypeOK /\ ProcTypeOK /\ SurveyHolds /\ [Next]_vars => (TypeOK /\ ProcTypeOK /\ SurveyHolds)'
  BY StepTyped, StepSurveyHolds
<1>3. TypeOK /\ ProcTypeOK /\ SurveyHolds /\ [Next]_vars => [GovernedStart]_vars
  BY StepGovernedStart
<1>4. [][GovernedStart]_vars => StartIsGoverned
  BY PTL DEF StartIsGoverned, GovernedStart
<1>5. QED
  BY <1>1, <1>2, <1>3, <1>4, PTL DEF Spec

=============================================================================
