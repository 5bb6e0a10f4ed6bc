---------------------------- MODULE Research_proofs ----------------------------
(***************************************************************************)
(* Theorems about what research computes.  About Evaluation, for any       *)
(* candidates, evidence, scenarios and limits: a candidate is put forward  *)
(* only on evidence, and a program that freezes none had none that it      *)
(* could have frozen among its best.  About Backtest, for any number of    *)
(* instruments, bars, configurations and dates: no position is ever short, *)
(* the books balance, the account overdraws only for a cause, and a        *)
(* drawdown that reaches its threshold brings the positions down.  Both    *)
(* rest on what sum() and sorted() give.                                   *)
(***************************************************************************)
EXTENDS Backtest, Evaluation, FiniteSetTheorems, SequenceTheorems, WellFoundedInduction,
        TLAPS

-----------------------------------------------------------------------------
(* Least numbers, and recursion over 0 .. n.                                *)

\* A set of numbers that is not empty has a least one.
LEMMA LeastNumber ==
  ASSUME NEW S \in SUBSET Nat, S # {}
  PROVE  \E e \in S : \A i \in S : e <= i
<1> DEFINE R == OpToRel(<, Nat)
<1>1. IsWellFoundedOn(R, Nat)
  BY NatLessThanWellFounded
<1> HIDE DEF R
<1>2. PICK e \in S : \A f \in S : <<f, e>> \notin R
  BY <1>1, WFMin
<1> USE DEF R
<1>3. \A f \in S : ~ (f < e)
  BY <1>2 DEF OpToRel
<1>4. \A f \in S : e <= f
  BY <1>3
<1>5. QED
  BY <1>4

\* A set of places that has the first, and each next one, has all of them.
LEMMA Induct ==
  ASSUME NEW n \in Nat, NEW T, 0 \in T, \A k \in 1 .. n : k - 1 \in T => k \in T
  PROVE  \A k \in 0 .. n : k \in T
<1> DEFINE Bad == {k \in 0 .. n : k \notin T}
<1>1. SUFFICES ASSUME Bad # {} PROVE FALSE
  OBVIOUS
<1>2. Bad \in SUBSET Nat
  OBVIOUS
<1>3. PICK m \in Bad : \A i \in Bad : m <= i
  BY <1>1, <1>2, LeastNumber
<1>4. m \in 1 .. n /\ m \notin T
  BY <1>3
<1>5. m - 1 \in T
  BY <1>3, <1>4
<1>6. QED
  BY <1>4, <1>5

\* The runs of n steps g[1], g[2], ... from x, through elements of S.
Runs(S, x, n, g) ==
  {f \in [0 .. n -> S] : f[0] = x /\ \A k \in 1 .. n : f[k] = g[k][f[k - 1]]}

StaysIn(S, n, g) == \A k \in 1 .. n : \A z \in S : g[k][z] \in S

\* What starts in S and stays there by each of n steps is defined by them.
LEMMA RunsExist ==
  ASSUME NEW S, NEW x \in S, NEW n \in Nat, NEW g, StaysIn(S, n, g)
  PROVE  Runs(S, x, n, g) # {}
<1> DEFINE T == {m \in 0 .. n : Runs(S, x, m, g) # {}}
<1>1. 0 \in T
  <2>1. [k \in 0 .. 0 |-> x] \in Runs(S, x, 0, g)
    BY DEF Runs
  <2>2. QED
    BY <2>1
<1>2. ASSUME NEW m \in 1 .. n, m - 1 \in T
      PROVE  m \in T
  <2>1. PICK f \in Runs(S, x, m - 1, g) : TRUE
    BY <1>2
  <2>2. f \in [0 .. m - 1 -> S] /\ f[0] = x /\ \A k \in 1 .. m - 1 : f[k] = g[k][f[k - 1]]
    BY <2>1 DEF Runs
  <2>3. f[m - 1] \in S /\ g[m][f[m - 1]] \in S
    BY <2>2 DEF StaysIn
  <2> DEFINE h == [k \in 0 .. m |-> IF k = m THEN g[m][f[m - 1]] ELSE f[k]]
  <2>4. h \in [0 .. m -> S]
    BY <2>2, <2>3
  <2>5. h[0] = x
    BY <2>2
  <2>6. \A k \in 1 .. m : h[k] = g[k][h[k - 1]]
    BY <2>2
  <2>7. h \in Runs(S, x, m, g)
    BY <2>4, <2>5, <2>6 DEF Runs
  <2>8. m \in 0 .. n
    OBVIOUS
  <2> HIDE DEF h
  <2>9. QED
    BY <2>7, <2>8
<1>3. n \in T
  <2> HIDE DEF T
  <2>1. \A k \in 0 .. n : k \in T
    BY <1>1, <1>2, Induct
  <2>2. QED
    BY <2>1
<1>4. QED
  BY <1>3

-----------------------------------------------------------------------------
(* Totals.                                                                  *)

\* The running sums of a sequence end with its total.
LEMMA RunningSums ==
  ASSUME NEW s \in Seq(Int)
  PROVE  \E r \in [0 .. Len(s) -> Int] :
           /\ r[0] = 0 /\ \A k \in 1 .. Len(s) : r[k] = r[k - 1] + s[k]
           /\ Total(s) = r[Len(s)]
<1> DEFINE n == Len(s)
           Sums(f) == f = [k \in 0 .. n |-> IF k = 0 THEN 0 ELSE f[k - 1] + s[k]]
           sum == CHOOSE f : Sums(f)
           g == [k \in 1 .. n |-> [z \in Int |-> z + s[k]]]
<1>1. n \in Nat /\ \A k \in 1 .. n : s[k] \in Int
  OBVIOUS
<1>2. StaysIn(Int, n, g)
  BY <1>1 DEF StaysIn
<1>3. PICK r \in [0 .. n -> Int] : r[0] = 0 /\ \A k \in 1 .. n : r[k] = g[k][r[k - 1]]
  <2> HIDE DEF g
  <2> HIDE DEF n
  <2>1. 0 \in Int
    OBVIOUS
  <2>2. Runs(Int, 0, n, g) # {}
    BY <1>1, <1>2, <2>1, RunsExist
  <2>3. PICK r \in Runs(Int, 0, n, g) : TRUE
    BY <2>2
  <2>4. QED
    BY <2>3 DEF Runs
<1>4. \A k \in 1 .. n : r[k] = r[k - 1] + s[k]
  <2> TAKE k \in 1 .. n
  <2>1. r[k - 1] \in Int
    BY <1>1, <1>3
  <2>2. QED
    BY <1>3, <2>1
<1>5. Sums(r)
  BY <1>1, <1>3, <1>4
<1>6. Sums(sum)
  BY <1>5
<1> HIDE DEF sum
<1>7. sum[0] = 0 /\ \A k \in 1 .. n : sum[k] = sum[k - 1] + s[k]
  BY <1>1, <1>6, SMTT(60)
<1> DEFINE T == {k \in 0 .. n : sum[k] = r[k]}
<1>8. 0 \in T /\ \A k \in 1 .. n : k - 1 \in T => k \in T
  BY <1>1, <1>3, <1>4, <1>7
<1>9. n \in T
  <2> HIDE DEF T
  <2>1. \A k \in 0 .. n : k \in T
    BY <1>1, <1>8, Induct
  <2>2. QED
    BY <1>1, <2>1
<1>10. Total(s) = sum[n]
  BY DEF Total, sum
<1>11. QED
  BY <1>3, <1>4, <1>9, <1>10

\* The total of a sequence of numbers is a number.
LEMMA TotalInt ==
  ASSUME NEW s \in Seq(Int)
  PROVE  Total(s) \in Int
<1>1. PICK r \in [0 .. Len(s) -> Int] : Total(s) = r[Len(s)]
  BY RunningSums
<1>2. QED
  BY <1>1

\* Facts of integer arithmetic, each proved where nothing else is in the way.
LEMMA Distributes ==
  ASSUME NEW a \in Int, NEW b \in Int, NEW c \in Int
  PROVE  a * (b + c) = a * b + a * c /\ a * b \in Int /\ a * c \in Int
  OBVIOUS

\* A factor of every term is a factor of the total.
LEMMA TotalScaled ==
  ASSUME NEW s \in Seq(Int), NEW a \in Int
  PROVE  Total([k \in 1 .. Len(s) |-> a * s[k]]) = a * Total(s)
<1> DEFINE n == Len(s)
           u == [k \in 1 .. n |-> a * s[k]]
<1>1. n \in Nat /\ (\A k \in 1 .. n : s[k] \in Int)
  OBVIOUS
<1>2. \A k \in 1 .. n : a * s[k] \in Int
  BY <1>1
<1>3. u \in Seq(Int) /\ Len(u) = n /\ \A k \in 1 .. n : u[k] = a * s[k]
  BY <1>1, <1>2
<1> HIDE DEF n, u
<1>4. PICK p \in [0 .. n -> Int] : /\ p[0] = 0 /\ \A k \in 1 .. n : p[k] = p[k - 1] + s[k]
                                   /\ Total(s) = p[n]
  BY RunningSums DEF n
<1>5. PICK r \in [0 .. n -> Int] : /\ r[0] = 0 /\ \A k \in 1 .. n : r[k] = r[k - 1] + u[k]
                                   /\ Total(u) = r[n]
  BY <1>3, RunningSums
<1> DEFINE T == {k \in 0 .. n : r[k] = a * p[k]}
<1>6. 0 \in T
  BY <1>1, <1>4, <1>5
<1>7. ASSUME NEW k \in 1 .. n, k - 1 \in T
      PROVE  k \in T
  <2>1. k - 1 \in 0 .. n /\ k \in 0 .. n /\ s[k] \in Int
    BY <1>1
  <2>2. p[k - 1] \in Int
    BY <2>1
  <2>3. a * (p[k - 1] + s[k]) = a * p[k - 1] + a * s[k]
    BY <2>1, <2>2, Distributes
  <2>4. p[k] = p[k - 1] + s[k] /\ r[k] = r[k - 1] + u[k] /\ u[k] = a * s[k]
    BY <1>3, <1>4, <1>5
  <2>5. r[k - 1] = a * p[k - 1]
    BY <1>7
  <2>6. r[k] = a * p[k]
    BY <2>3, <2>4, <2>5
  <2>7. QED
    BY <2>1, <2>6
<1>8. n \in T
  <2> HIDE DEF T
  <2>1. \A k \in 0 .. n : k \in T
    BY <1>1, <1>6, <1>7, Induct
  <2>2. QED
    BY <1>1, <2>1
<1>9. QED
  BY <1>4, <1>5, <1>8 DEF u, n

\* The total of sums, term by term, is the sum of the totals.
LEMMA TotalSum ==
  ASSUME NEW s \in Seq(Int), NEW t \in Seq(Int), NEW u \in Seq(Int),
         Len(t) = Len(s), Len(u) = Len(s), \A k \in 1 .. Len(s) : u[k] = s[k] + t[k]
  PROVE  Total(u) = Total(s) + Total(t)
<1> DEFINE n == Len(s)
<1>1. n \in Nat /\ \A k \in 1 .. n : s[k] \in Int /\ t[k] \in Int
  OBVIOUS
<1>2. PICK p \in [0 .. n -> Int] : /\ p[0] = 0 /\ \A k \in 1 .. n : p[k] = p[k - 1] + s[k]
                                   /\ Total(s) = p[n]
  BY RunningSums
<1>3. PICK q \in [0 .. n -> Int] : /\ q[0] = 0 /\ \A k \in 1 .. n : q[k] = q[k - 1] + t[k]
                                   /\ Total(t) = q[n]
  BY RunningSums
<1>4. PICK r \in [0 .. n -> Int] : /\ r[0] = 0 /\ \A k \in 1 .. n : r[k] = r[k - 1] + u[k]
                                   /\ Total(u) = r[n]
  BY RunningSums
<1> DEFINE T == {k \in 0 .. n : r[k] = p[k] + q[k]}
<1>5. 0 \in T
  BY <1>1, <1>2, <1>3, <1>4
<1>6. ASSUME NEW k \in 1 .. n, k - 1 \in T
      PROVE  k \in T
  <2>1. k - 1 \in 0 .. n /\ k \in 0 .. n /\ s[k] \in Int /\ t[k] \in Int
    BY <1>1
  <2>2. p[k - 1] \in Int /\ q[k - 1] \in Int
    BY <2>1
  <2>3. p[k] = p[k - 1] + s[k] /\ q[k] = q[k - 1] + t[k] /\ r[k] = r[k - 1] + (s[k] + t[k])
    BY <1>2, <1>3, <1>4
  <2>4. QED
    BY <1>6, <2>1, <2>2, <2>3, SMTT(60)
<1>7. n \in T
  <2> HIDE DEF T
  <2>1. \A k \in 0 .. n : k \in T
    BY <1>1, <1>5, <1>6, Induct
  <2>2. QED
    BY <1>1, <2>1
<1>8. QED
  BY <1>2, <1>3, <1>4, <1>7

\* Terms that are not greater have a total that is not greater.
LEMMA TotalMonotone ==
  ASSUME NEW s \in Seq(Int), NEW t \in Seq(Int), Len(t) = Len(s),
         \A k \in 1 .. Len(s) : s[k] <= t[k]
  PROVE  Total(s) <= Total(t)
<1> DEFINE n == Len(s)
<1>1. n \in Nat /\ \A k \in 1 .. n : s[k] \in Int /\ t[k] \in Int
  OBVIOUS
<1>2. PICK p \in [0 .. n -> Int] : /\ p[0] = 0 /\ \A k \in 1 .. n : p[k] = p[k - 1] + s[k]
                                   /\ Total(s) = p[n]
  BY RunningSums
<1>3. PICK q \in [0 .. n -> Int] : /\ q[0] = 0 /\ \A k \in 1 .. n : q[k] = q[k - 1] + t[k]
                                   /\ Total(t) = q[n]
  BY RunningSums
<1> DEFINE T == {k \in 0 .. n : p[k] <= q[k]}
<1>4. 0 \in T /\ \A k \in 1 .. n : k - 1 \in T => k \in T
  <2>1. 0 \in T
    BY <1>1, <1>2, <1>3
  <2>2. ASSUME NEW k \in 1 .. n, k - 1 \in T
        PROVE  k \in T
    <3>1. k - 1 \in 0 .. n /\ k \in 0 .. n /\ s[k] \in Int /\ t[k] \in Int
      BY <1>1
    <3>2. p[k - 1] \in Int /\ q[k - 1] \in Int
      BY <3>1
    <3>3. p[k] = p[k - 1] + s[k] /\ q[k] = q[k - 1] + t[k]
      BY <1>2, <1>3
    <3>4. QED
      BY <1>1, <2>2, <3>1, <3>2, <3>3
  <2>3. QED
    BY <2>1, <2>2
<1>5. n \in T
  <2> HIDE DEF T
  <2>1. \A k \in 0 .. n : k \in T
    BY <1>1, <1>4, Induct
  <2>2. QED
    BY <1>1, <2>1
<1>6. QED
  BY <1>2, <1>3, <1>5

\* One term that changes changes the total by as much.
LEMMA TotalChange ==
  ASSUME NEW s \in Seq(Int), NEW t \in Seq(Int), Len(t) = Len(s), NEW i \in 1 .. Len(s),
         \A k \in 1 .. Len(s) : k # i => t[k] = s[k]
  PROVE  Total(t) = Total(s) + t[i] - s[i]
<1> DEFINE n == Len(s)
<1>1. n \in Nat /\ \A k \in 1 .. n : s[k] \in Int /\ t[k] \in Int
  OBVIOUS
<1>2. PICK p \in [0 .. n -> Int] : /\ p[0] = 0 /\ \A k \in 1 .. n : p[k] = p[k - 1] + s[k]
                                   /\ Total(s) = p[n]
  BY RunningSums
<1>3. PICK q \in [0 .. n -> Int] : /\ q[0] = 0 /\ \A k \in 1 .. n : q[k] = q[k - 1] + t[k]
                                   /\ Total(t) = q[n]
  BY RunningSums
<1> DEFINE T == {k \in 0 .. n : q[k] = IF k < i THEN p[k] ELSE p[k] + t[i] - s[i]}
<1>4. 0 \in T /\ \A k \in 1 .. n : k - 1 \in T => k \in T
  <2>1. 0 \in T
    BY <1>1, <1>2, <1>3
  <2>2. ASSUME NEW k \in 1 .. n, k - 1 \in T
        PROVE  k \in T
    <3>1. k - 1 \in 0 .. n /\ k \in 0 .. n /\ s[k] \in Int /\ t[k] \in Int
      BY <1>1
    <3>2. p[k - 1] \in Int /\ q[k - 1] \in Int
      BY <3>1
    <3>3. p[k] = p[k - 1] + s[k] /\ q[k] = q[k - 1] + t[k]
      BY <1>2, <1>3
    <3>4. q[k - 1] = IF k - 1 < i THEN p[k - 1] ELSE p[k - 1] + t[i] - s[i]
      BY <2>2
    <3>5. k # i => t[k] = s[k]
      OBVIOUS
    <3>6. k \in Int /\ i \in Int /\ t[i] \in Int /\ s[i] \in Int
      BY <1>1
    <3>7. q[k] = IF k < i THEN p[k] ELSE p[k] + t[i] - s[i]
      <4>1. CASE k < i
        BY <3>1, <3>2, <3>3, <3>4, <3>5, <3>6, <4>1
      <4>2. CASE k = i
        BY <3>1, <3>2, <3>3, <3>4, <3>6, <4>2
      <4>3. CASE k > i
        <5>1. ~ (k - 1 < i) /\ ~ (k < i)
          BY <3>6, <4>3
        <5>2. q[k - 1] = p[k - 1] + t[i] - s[i] /\ t[k] = s[k]
          BY <3>4, <3>5, <4>3, <5>1, <3>6
        <5>3. q[k] = p[k] + t[i] - s[i]
          BY <3>1, <3>2, <3>3, <3>6, <5>2, SMTT(60)
        <5>4. QED
          BY <5>1, <5>3
      <4>4. QED
        BY <3>6, <4>1, <4>2, <4>3
    <3>8. QED
      BY <3>1, <3>7
  <2>3. QED
    BY <2>1, <2>2
<1>5. n \in T
  <2> HIDE DEF T
  <2>1. \A k \in 0 .. n : k \in T
    BY <1>1, <1>4, Induct
  <2>2. QED
    BY <1>1, <2>1
<1>6. QED
  BY <1>1, <1>2, <1>3, <1>5

LEMMA AverageIsInt ==
  ASSUME NEW s \in Seq(Int)
  PROVE  Average(s) \in Int
<1>1. Total(s) \in Int /\ Windows(s) \in Nat \ {0}
  BY TotalInt DEF Windows
<1>2. QED
  BY <1>1 DEF Average

-----------------------------------------------------------------------------
(* Places in a finite order, and what Sorted gives.                         *)

\* Where each element of S stands in the order R, from 1 up.
PlaceIn(S, R) == [i \in S |-> 1 + Cardinality({j \in S : <<j, i>> \in R})]

\* In a strict total order every place from 1 to the number of elements is taken,
\* by one element, and an element that comes before another has a lower place.
LEMMA PlacesOfAnOrder ==
  ASSUME NEW S, IsFiniteSet(S), NEW R,
         \A i \in S : <<i, i>> \notin R,
         \A i, j, k \in S : <<i, j>> \in R /\ <<j, k>> \in R => <<i, k>> \in R,
         \A i, j \in S : i = j \/ <<i, j>> \in R \/ <<j, i>> \in R
  PROVE  /\ PlaceIn(S, R) \in Bijection(S, 1 .. Cardinality(S))
         /\ \A i, j \in S : <<i, j>> \in R <=> PlaceIn(S, R)[i] < PlaceIn(S, R)[j]
<1> DEFINE B(i) == {j \in S : <<j, i>> \in R}
<1>1. \A i \in S : IsFiniteSet(B(i)) /\ Cardinality(B(i)) \in Nat
  <2> TAKE i \in S
  <2>1. B(i) \in SUBSET S
    OBVIOUS
  <2>2. QED
    BY <2>1, FS_Subset, FS_CardinalityType
<1>2. \A i \in S : PlaceIn(S, R)[i] = 1 + Cardinality(B(i))
  BY DEF PlaceIn
<1>3. ASSUME NEW i \in S, NEW j \in S, <<i, j>> \in R
      PROVE  Cardinality(B(i)) < Cardinality(B(j))
  <2>1. B(i) \in SUBSET B(j) /\ i \in B(j) /\ i \notin B(i)
    BY <1>3
  <2> HIDE DEF B
  <2>2. QED
    BY <1>1, <2>1, FS_Subset
<1> HIDE DEF B
<1>4. ASSUME NEW i \in S, NEW j \in S
      PROVE  <<i, j>> \in R <=> PlaceIn(S, R)[i] < PlaceIn(S, R)[j]
  <2>1. CASE <<i, j>> \in R
    BY <1>1, <1>2, <1>3, <2>1
  <2>2. CASE i = j \/ <<j, i>> \in R
    <3>1. PlaceIn(S, R)[j] <= PlaceIn(S, R)[i]
      BY <1>1, <1>2, <1>3, <2>2
    <3>2. <<i, j>> \notin R
      BY <2>2
    <3>3. QED
      BY <1>1, <1>2, <3>1, <3>2
  <2>3. QED
    BY <2>1, <2>2
<1>5. Cardinality(S) \in Nat
  BY FS_CardinalityType
<1>6. \A i \in S : Cardinality(B(i)) < Cardinality(S)
  <2> TAKE i \in S
  <2>1. B(i) \in SUBSET S /\ i \notin B(i)
    BY DEF B
  <2>2. QED
    BY <1>1, <1>5, <2>1, FS_Subset
<1>7. PlaceIn(S, R) \in [S -> 1 .. Cardinality(S)]
  <2>1. \A i \in S : PlaceIn(S, R)[i] \in 1 .. Cardinality(S)
    BY <1>1, <1>2, <1>5, <1>6
  <2>2. QED
    BY <2>1 DEF PlaceIn
<1>8. PlaceIn(S, R) \in Injection(S, 1 .. Cardinality(S))
  <2>1. \A i, j \in S : PlaceIn(S, R)[i] = PlaceIn(S, R)[j] => i = j
    BY <1>1, <1>2, <1>4
  <2>2. QED
    BY <1>7, <2>1 DEF Injection, IsInjective
<1>9. IsFiniteSet(1 .. Cardinality(S)) /\ Cardinality(1 .. Cardinality(S)) = Cardinality(S)
  <2>1. /\ IsFiniteSet(1 .. Cardinality(S))
        /\ Cardinality(1 .. Cardinality(S))
             = IF 1 > Cardinality(S) THEN 0 ELSE Cardinality(S) - 1 + 1
    BY <1>5, FS_Interval
  <2>2. QED
    BY <1>5, <2>1
<1>10. PlaceIn(S, R) \in Surjection(S, 1 .. Cardinality(S))
  BY <1>8, <1>9, FS_Injection
<1>11. QED
  BY <1>4, <1>8, <1>10 DEF Bijection

\* Keys of one length, compared component by component, are in a total order.
LEMMA AboveIsOrder ==
  ASSUME NEW n \in Nat
  PROVE  /\ \A s \in [1 .. n -> Int] : ~ Above(s, s)
         /\ \A s, t, u \in [1 .. n -> Int] : Above(s, t) /\ Above(t, u) => Above(s, u)
         /\ \A s, t \in [1 .. n -> Int] : s = t \/ Above(s, t) \/ Above(t, s)
<1> DEFINE K == [1 .. n -> Int]
<1>1. \A s \in K : ~ Above(s, s)
  BY DEF Above
<1>2. ASSUME NEW s \in K, NEW t \in K, NEW u \in K, Above(s, t), Above(t, u)
      PROVE  Above(s, u)
  <2>1. PICK i \in 1 .. n : s[i] > t[i] /\ \A j \in 1 .. i - 1 : s[j] = t[j]
    BY <1>2 DEF Above
  <2>2. PICK k \in 1 .. n : t[k] > u[k] /\ \A j \in 1 .. k - 1 : t[j] = u[j]
    BY <1>2 DEF Above
  <2>3. CASE i <= k
    <3>1. s[i] > u[i]
      BY <2>1, <2>2, <2>3
    <3>2. \A j \in 1 .. i - 1 : s[j] = u[j]
      BY <2>1, <2>2, <2>3
    <3>3. QED
      BY <3>1, <3>2 DEF Above
  <2>4. CASE k < i
    <3>1. s[k] > u[k]
      BY <2>1, <2>2, <2>4
    <3>2. \A j \in 1 .. k - 1 : s[j] = u[j]
      BY <2>1, <2>2, <2>4
    <3>3. QED
      BY <3>1, <3>2 DEF Above
  <2>5. QED
    BY <2>3, <2>4
<1>3. ASSUME NEW s \in K, NEW t \in K, s # t
      PROVE  Above(s, t) \/ Above(t, s)
  <2> DEFINE D == {j \in 1 .. n : s[j] # t[j]}
  <2>1. D # {}
    BY <1>3
  <2>2. D \in SUBSET Nat
    OBVIOUS
  <2>3. PICK k \in D : \A i \in D : k <= i
    BY <2>1, <2>2, LeastNumber
  <2>4. \A j \in 1 .. k - 1 : s[j] = t[j]
    BY <2>3
  <2>5. k \in 1 .. n /\ (s[k] > t[k] \/ t[k] > s[k])
    BY <2>3
  <2>6. QED
    BY <2>4, <2>5 DEF Above
<1>4. QED
  BY <1>1, <1>2, <1>3

\* Sorted lists every element of S once, an element before those it comes before.
LEMMA SortedLists ==
  ASSUME NEW S \in SUBSET Nat, IsFiniteSet(S), NEW n \in Nat, NEW key,
         \A c \in S : key[c] \in [1 .. n -> Int]
  PROVE  /\ Cardinality(S) \in Nat
         /\ Sorted(S, key) \in [1 .. Cardinality(S) -> S]
         /\ \A c \in S : \E k \in 1 .. Cardinality(S) : Sorted(S, key)[k] = c
         /\ \A i, j \in 1 .. Cardinality(S) :
              i < j => Before(key, Sorted(S, key)[i], Sorted(S, key)[j])
<1> DEFINE R == {e \in S \X S : Before(key, e[1], e[2])}
           P == PlaceIn(S, R)
           N == Cardinality(S)
           sorted == Sorted(S, key)
<1>1. N \in Nat
  BY FS_CardinalityType
<1>2. \A c, d \in S : <<c, d>> \in R <=> Before(key, c, d)
  OBVIOUS
<1>3. \A c \in S : ~ Before(key, c, c)
  <2> TAKE c \in S
  <2>1. key[c] \in [1 .. n -> Int] /\ c \in Nat
    OBVIOUS
  <2>2. ~ Above(key[c], key[c])
    BY <2>1, AboveIsOrder
  <2>3. QED
    BY <2>1, <2>2 DEF Before
<1>4. \A c, d, e \in S : Before(key, c, d) /\ Before(key, d, e) => Before(key, c, e)
  <2> TAKE c, d, e \in S
  <2>1. /\ key[c] \in [1 .. n -> Int] /\ key[d] \in [1 .. n -> Int]
        /\ key[e] \in [1 .. n -> Int]
    OBVIOUS
  <2>2. Above(key[c], key[d]) /\ Above(key[d], key[e]) => Above(key[c], key[e])
    BY <2>1, AboveIsOrder
  <2>3. QED
    BY <2>2 DEF Before
<1>5. \A c, d \in S : c = d \/ Before(key, c, d) \/ Before(key, d, c)
  <2> TAKE c, d \in S
  <2>1. key[c] \in [1 .. n -> Int] /\ key[d] \in [1 .. n -> Int]
    OBVIOUS
  <2>2. key[c] = key[d] \/ Above(key[c], key[d]) \/ Above(key[d], key[c])
    BY <2>1, AboveIsOrder
  <2>3. c \in Int /\ d \in Int
    OBVIOUS
  <2>4. c = d \/ c < d \/ d < c
    BY <2>3
  <2>5. QED
    BY <2>2, <2>4 DEF Before
<1> HIDE DEF R
<1>6. /\ P \in Bijection(S, 1 .. N)
      /\ \A c, d \in S : <<c, d>> \in R <=> P[c] < P[d]
  BY <1>2, <1>3, <1>4, <1>5, PlacesOfAnOrder
<1>7. /\ P \in [S -> 1 .. N]
      /\ \A c, d \in S : P[c] = P[d] => c = d
      /\ \A k \in 1 .. N : \E c \in S : P[c] = k
  BY <1>6 DEF Bijection, Injection, IsInjective, Surjection
<1>8. \A c \in S : Place(S, key, c) = P[c]
  <2> TAKE c \in S
  <2>1. {d \in S : <<d, c>> \in R} = {d \in S : Before(key, d, c)}
    BY <1>2
  <2>2. QED
    BY <2>1 DEF Place, PlaceIn
<1> HIDE DEF P
<1>9. \A c \in S : sorted[P[c]] = c
  <2> TAKE c \in S
  <2>1. (CHOOSE d \in S : Place(S, key, d) = P[c]) = c
    BY <1>7, <1>8
  <2>2. QED
    BY <1>7, <2>1 DEF Sorted
<1>10. DOMAIN sorted = 1 .. N /\ sorted = [k \in 1 .. N |-> sorted[k]]
  BY DEF Sorted
<1> HIDE DEF sorted
<1>11. \A k \in 1 .. N : sorted[k] \in S /\ P[sorted[k]] = k
  BY <1>7, <1>9
<1>12. sorted \in [1 .. N -> S]
  BY <1>10, <1>11
<1>13. \A i, j \in 1 .. N : i < j => Before(key, sorted[i], sorted[j])
  BY <1>2, <1>6, <1>11
<1>14. \A c \in S : \E k \in 1 .. N : sorted[k] = c
  BY <1>7, <1>9
<1>15. QED
  BY <1>1, <1>12, <1>13, <1>14 DEF sorted

-----------------------------------------------------------------------------
(* The keys that candidates are sorted by.                                  *)

LEMMA PlacesCount ==
  ASSUME NEW n \in Nat
  PROVE  Cardinality(1 .. n) = n
<1>1. 1 \in Int /\ n \in Int
  OBVIOUS
<1>2. Cardinality(1 .. n) = IF 1 > n THEN 0 ELSE n - 1 + 1
  BY <1>1, FS_Interval
<1>3. QED
  BY <1>2

LEMMA PlacesFinite ==
  ASSUME NEW n \in Nat
  PROVE  IsFiniteSet(1 .. n)
BY FS_Interval

LEMMA EvidenceParts ==
  ASSUME NEW e \in Evidence
  PROVE  /\ e.validation \in Result /\ e.holdout \in Result /\ e.walk \in Seq(Result)
         /\ Excess(e.validation) \in Int /\ Excess(e.holdout) \in Int
         /\ Passes(e.walk) \in Int
<1>1. e.validation \in Result /\ e.holdout \in Result /\ e.walk \in Seq(Result)
  BY EvidenceAssumption
<1>2. Excess(e.validation) \in Int /\ Excess(e.holdout) \in Int
  BY <1>1, SMTT(60) DEF Result, Excess
<1>3. Passes(e.walk) \in Int
  <2>1. DOMAIN e.walk = 1 .. Len(e.walk) /\ Len(e.walk) \in Nat
    BY <1>1
  <2>2. IsFiniteSet(DOMAIN e.walk)
    <3>1. IsFiniteSet(1 .. Len(e.walk))
      BY <2>1, PlacesFinite
    <3>2. QED
      BY <2>1, <3>1
  <2>3. QED
    BY <2>2, FS_Subset, FS_CardinalityType DEF Passes
<1>4. QED
  BY <1>1, <1>2, <1>3

LEMMA WalkAverages ==
  ASSUME NEW walk \in Seq(Result)
  PROVE  Average(WalkTurnover(walk)) \in Int /\ Average(WalkDrawdown(walk)) \in Int
<1>1. DOMAIN walk = 1 .. Len(walk) /\ Len(walk) \in Nat
  OBVIOUS
<1>2. \A k \in DOMAIN walk : walk[k].turnover \in Int /\ walk[k].drawdown \in Int
  <2>1. \A k \in DOMAIN walk : walk[k] \in Result
    BY <1>1
  <2>2. QED
    BY <2>1 DEF Result
<1>3. WalkTurnover(walk) \in [1 .. Len(walk) -> Int]
  BY <1>1, <1>2 DEF WalkTurnover
<1>4. WalkDrawdown(walk) \in [1 .. Len(walk) -> Int]
  BY <1>1, <1>2 DEF WalkDrawdown
<1>5. WalkTurnover(walk) \in Seq(Int) /\ WalkDrawdown(walk) \in Seq(Int)
  BY <1>1, <1>3, <1>4, SMTT(60)
<1>6. QED
  BY <1>5, AverageIsInt

\* The score is eight numbers, of which the first says whether it is eligible.
LEMMA ScoreTyped ==
  ASSUME NEW e \in Evidence
  PROVE  /\ Score(e) \in [1 .. 8 -> Int] /\ Score(e)[1] = Bit(Eligible(e))
         /\ Score(e) \in Seq(Int) /\ Len(Score(e)) = 8
<1> DEFINE turns == 0 - e.validation.turnover - e.holdout.turnover - Average(WalkTurnover(e.walk))
           falls == 0 - e.validation.drawdown - e.holdout.drawdown - Average(WalkDrawdown(e.walk))
<1>1. /\ Excess(e.validation) \in Int /\ Excess(e.holdout) \in Int
      /\ Passes(e.walk) \in Int
  BY EvidenceParts
<1>2. turns \in Int /\ falls \in Int
  <2>1. Average(WalkTurnover(e.walk)) \in Int /\ Average(WalkDrawdown(e.walk)) \in Int
    BY EvidenceParts, WalkAverages
  <2>2. /\ e.validation.turnover \in Int /\ e.holdout.turnover \in Int
        /\ e.validation.drawdown \in Int /\ e.holdout.drawdown \in Int
    BY EvidenceParts DEF Result
  <2>3. QED
    BY <2>1, <2>2
<1>3. /\ Bit(Eligible(e)) \in Int /\ Bit(Status(e.validation) # "fail") \in Int
      /\ Bit(Status(e.holdout) # "fail") \in Int
  BY DEF Bit
<1>4. Score(e) = <<Bit(Eligible(e)), Bit(Status(e.validation) # "fail"),
                   Bit(Status(e.holdout) # "fail"), Excess(e.holdout),
                   Excess(e.validation), Passes(e.walk), turns, falls>>
  BY DEF Score
<1> HIDE DEF turns, falls
<1>5. QED
  BY <1>1, <1>2, <1>3, <1>4

LEMMA TrancheScoreTyped ==
  ASSUME NEW e \in Evidence
  PROVE  TrancheScore(e) \in [1 .. 6 -> Int]
<1>1. /\ Excess(e.validation) \in Int /\ Excess(e.holdout) \in Int
      /\ Passes(e.walk) \in Int
  BY EvidenceParts
<1>2. /\ e.validation.turnover \in Int /\ e.holdout.turnover \in Int
      /\ e.validation.drawdown \in Int /\ e.holdout.drawdown \in Int
  BY EvidenceParts DEF Result
<1>3. Bit(Eligible(e)) \in Int
  BY DEF Bit
<1>4. QED
  BY <1>1, <1>2, <1>3 DEF TrancheScore

-----------------------------------------------------------------------------
(* The ranking, the shortlist and the selection.                            *)

\* The candidates that were run form one of these sets.
Ran == {Focused, Focused \union Pivot}

LEMMA RanFinite ==
  ASSUME NEW D \in Ran
  PROVE  D \in SUBSET Nat /\ IsFiniteSet(D)
BY CandidatesAssumption, FS_Union, ZenonT(60) DEF Ran

\* An eligible candidate has only eligible ones ahead of it.
LEMMA AheadOfEligible ==
  ASSUME NEW e \in Evidence, NEW f \in Evidence, Eligible(e),
         Above(Score(f), Score(e)) \/ Score(f) = Score(e)
  PROVE  Eligible(f)
<1>1. /\ Score(e) \in [1 .. 8 -> Int] /\ Score(f) \in [1 .. 8 -> Int]
      /\ Score(e)[1] = 1 /\ Score(f)[1] = Bit(Eligible(f))
  BY ScoreTyped DEF Bit
<1>2. Score(f)[1] >= Score(e)[1]
  <2>1. CASE Above(Score(f), Score(e))
    <3>1. PICK k \in 1 .. 8 : /\ Score(f)[k] > Score(e)[k]
                              /\ \A j \in 1 .. k - 1 : Score(f)[j] = Score(e)[j]
      BY <1>1, <2>1 DEF Above
    <3>2. CASE k = 1
      BY <1>1, <3>1, <3>2
    <3>3. CASE k # 1
      BY <1>1, <3>1, <3>3
    <3>4. QED
      BY <3>2, <3>3
  <2>2. CASE Score(f) = Score(e)
    BY <1>1, <2>2
  <2>3. QED
    BY <2>1, <2>2
<1>3. QED
  BY <1>1, <1>2 DEF Bit

\* The ranking lists the viable candidates once, the eligible ones first.
LEMMA RankingLists ==
  ASSUME NEW D \in Ran, NEW rs \in [D -> Evidence], NEW ctl \in Evidence
  PROVE  \E n \in Nat :
           /\ Ranking(rs, ctl) \in [1 .. n -> {c \in D : Viable(rs[c], ctl)}]
           /\ \A c \in D : Viable(rs[c], ctl) =>
                \E k \in 1 .. n : Ranking(rs, ctl)[k] = c
           /\ \A i, j \in 1 .. n : i < j =>
                /\ Ranking(rs, ctl)[i] # Ranking(rs, ctl)[j]
                /\ Eligible(rs[Ranking(rs, ctl)[j]]) => Eligible(rs[Ranking(rs, ctl)[i]])
<1> DEFINE V == {c \in D : Viable(rs[c], ctl)}
           key == [c \in V |-> Score(rs[c])]
           best == Sorted(V, key)
           N == Cardinality(V)
<1>1. V \in SUBSET Nat /\ IsFiniteSet(V) /\ V \in SUBSET D
  BY RanFinite, FS_Subset
<1>2. \A c \in V : rs[c] \in Evidence
  OBVIOUS
<1>3. \A c \in V : key[c] \in [1 .. 8 -> Int]
  BY <1>2, ScoreTyped
<1>4. Ranking(rs, ctl) = best
  BY DEF Ranking
<1> HIDE DEF V
<1>5. /\ N \in Nat
      /\ best \in [1 .. N -> V]
      /\ \A c \in V : \E k \in 1 .. N : best[k] = c
      /\ \A i, j \in 1 .. N : i < j => Before(key, best[i], best[j])
  <2> HIDE DEF key
  <2>1. QED
    BY <1>1, <1>3, SortedLists, ZenonT(60)
<1> HIDE DEF best, N
<1>6. ASSUME NEW i \in 1 .. N, NEW j \in 1 .. N, i < j
      PROVE  best[i] # best[j] /\ (Eligible(rs[best[j]]) => Eligible(rs[best[i]]))
  <2>1. /\ best[i] \in V /\ best[j] \in V
        /\ best[i] \in Nat /\ best[j] \in Nat
        /\ Before(key, best[i], best[j])
    BY <1>1, <1>5, <1>6
  <2>2. \/ Above(Score(rs[best[i]]), Score(rs[best[j]]))
        \/ Score(rs[best[i]]) = Score(rs[best[j]]) /\ best[i] < best[j]
    BY <2>1 DEF Before
  <2>3. best[i] # best[j]
    <3>1. Score(rs[best[i]]) \in [1 .. 8 -> Int]
      BY <1>2, <2>1, ScoreTyped
    <3>2. ~ Above(Score(rs[best[i]]), Score(rs[best[i]]))
      BY <3>1, AboveIsOrder
    <3>3. QED
      BY <2>1, <2>2, <3>2
  <2>4. Eligible(rs[best[j]]) => Eligible(rs[best[i]])
    BY <1>2, <2>1, <2>2, AheadOfEligible
  <2>5. QED
    BY <2>3, <2>4
<1>7. \A c \in D : Viable(rs[c], ctl) => c \in V
  BY DEF V
<1>8. V = {c \in D : Viable(rs[c], ctl)}
  BY DEF V
<1>9. QED
  BY <1>4, <1>5, <1>6, <1>7, <1>8

\* What the shortlist holds: the first three of the ranking.
Shortlisted(list, rs, ctl) ==
  /\ list \in Seq({c \in DOMAIN rs : Viable(rs[c], ctl)})
  /\ Len(list) <= 3
  /\ \A i, j \in 1 .. Len(list) : list[i] = list[j] => i = j
  /\ \A c \in DOMAIN rs : Viable(rs[c], ctl) =>
       \/ \E k \in 1 .. Len(list) : list[k] = c
       \/ /\ Len(list) = 3
          /\ Eligible(rs[c]) => \A k \in 1 .. Len(list) : Eligible(rs[list[k]])

LEMMA ShortlistHolds ==
  ASSUME NEW D \in Ran, NEW rs \in [D -> Evidence], NEW ctl \in Evidence
  PROVE  Shortlisted(Shortlist(rs, ctl), rs, ctl)
<1> DEFINE V == {c \in D : Viable(rs[c], ctl)}
           best == Ranking(rs, ctl)
           list == Shortlist(rs, ctl)
<1>1. PICK n \in Nat :
        /\ best \in [1 .. n -> V]
        /\ \A c \in D : Viable(rs[c], ctl) => \E k \in 1 .. n : best[k] = c
        /\ \A i, j \in 1 .. n : i < j =>
             /\ best[i] # best[j]
             /\ Eligible(rs[best[j]]) => Eligible(rs[best[i]])
  BY RankingLists
<1> DEFINE m == IF n < 3 THEN n ELSE 3
<1>2. m \in Nat /\ m <= n /\ m <= 3
  OBVIOUS
<1>3. best \in Seq(V) /\ Len(best) = n
  <2> HIDE DEF best, V
  <2>1. QED
    BY <1>1
<1>4. list = SubSeq(best, 1, m)
  BY <1>3 DEF Shortlist
<1> HIDE DEF best, list, V
<1>5. /\ Len(list) = m /\ list \in Seq(V)
      /\ \A k \in 1 .. m : list[k] = best[k]
  BY <1>2, <1>3, <1>4
<1>6. \A i, j \in 1 .. Len(list) : list[i] = list[j] => i = j
  BY <1>1, <1>2, <1>5
<1>7. ASSUME NEW c \in D, Viable(rs[c], ctl)
      PROVE  \/ \E k \in 1 .. Len(list) : list[k] = c
             \/ /\ Len(list) = 3
                /\ Eligible(rs[c]) => \A k \in 1 .. Len(list) : Eligible(rs[list[k]])
  <2>1. PICK k \in 1 .. n : best[k] = c
    BY <1>1, <1>7
  <2>2. CASE k <= m
    BY <1>2, <1>5, <2>1, <2>2
  <2>3. CASE m < k
    <3>1. m = 3
      BY <2>1, <2>3
    <3>2. \A i \in 1 .. 3 : Eligible(rs[c]) => Eligible(rs[best[i]])
      BY <1>1, <2>1, <2>3, <3>1
    <3>3. QED
      BY <1>5, <3>1, <3>2
  <2>4. QED
    BY <1>2, <2>2, <2>3
<1>8. DOMAIN rs = D
  OBVIOUS
<1>9. QED
  BY <1>2, <1>5, <1>6, <1>7, <1>8 DEF Shortlisted, list, V

LEMMA PrefixedKey ==
  ASSUME NEW f \in Seq(Int), Len(f) = 1, NEW t \in Seq(Int), Len(t) = 8
  PROVE  f \o t \in [1 .. 9 -> Int] /\ (f \o t)[1] = f[1] /\ (f \o t)[2] = t[1]
<1> DEFINE w == f \o t
<1>1. /\ w \in Seq(Int) /\ Len(w) = Len(f) + Len(t)
      /\ \A i \in 1 .. Len(f) + Len(t) : w[i] = IF i <= Len(f) THEN f[i] ELSE t[i - Len(f)]
  BY ConcatProperties
<1> HIDE DEF w
<1>2. /\ Len(w) = 9
      /\ \A i \in 1 .. 9 : w[i] = IF i <= 1 THEN f[i] ELSE t[i - 1]
  BY <1>1
<1>3. w \in [1 .. Len(w) -> Int]
  BY <1>1, LenProperties
<1>4. w \in [1 .. 9 -> Int]
  BY <1>2, <1>3
<1>5. w[1] = f[1] /\ w[2] = t[1]
  BY <1>2
<1>6. QED
  BY <1>4, <1>5 DEF w

\* Select takes a member of the list; if some member is eligible and survived the
\* stress pack, so is and did the one it takes.
LEMMA SelectTakes ==
  ASSUME NEW D \in Ran, NEW rs \in [D -> Evidence], NEW list \in Seq(D), list # <<>>,
         NEW ok, \A k \in 1 .. Len(list) : ok[list[k]] \in BOOLEAN
  PROVE  /\ \E k \in 1 .. Len(list) : Select(list, rs, ok) = list[k]
         /\ \A k \in 1 .. Len(list) :
              ok[list[k]] /\ Eligible(rs[list[k]]) =>
                ok[Select(list, rs, ok)] /\ Eligible(rs[Select(list, rs, ok)])
<1> DEFINE T == {list[k] : k \in DOMAIN list}
           key == [c \in T |-> <<Bit(ok[c])>> \o Score(rs[c])]
           N == Cardinality(T)
           best == Sorted(T, key)
<1>1. DOMAIN list = 1 .. Len(list) /\ Len(list) \in Nat /\ Len(list) # 0
  OBVIOUS
<1>2. \A k \in 1 .. Len(list) : list[k] \in D
  OBVIOUS
<1>3. T \in SUBSET Nat /\ IsFiniteSet(T) /\ T \in SUBSET D
  <2>1. T \in SUBSET D
    BY <1>1, <1>2
  <2>2. QED
    BY <2>1, RanFinite, FS_Subset
<1>4. T # {}
  <2>1. 1 \in DOMAIN list
    BY <1>1
  <2>2. list[1] \in T
    BY <2>1
  <2>3. QED
    BY <2>2
<1>5. \A c \in T : ok[c] \in BOOLEAN /\ rs[c] \in Evidence
  BY <1>1, <1>2
<1>6. Select(list, rs, ok) = best[1]
  BY DEF Select
<1>7. \A c \in T : \E k \in 1 .. Len(list) : list[k] = c
  BY <1>1
<1>8. \A k \in 1 .. Len(list) : list[k] \in T
  BY <1>1
<1> HIDE DEF T
<1>9. \A c \in T : /\ key[c] \in [1 .. 9 -> Int]
                   /\ key[c][1] = Bit(ok[c])
                   /\ key[c][2] = Bit(Eligible(rs[c]))
  <2> TAKE c \in T
  <2>1. Score(rs[c]) \in [1 .. 8 -> Int] /\ Score(rs[c])[1] = Bit(Eligible(rs[c]))
    BY <1>5, ScoreTyped
  <2>2. Bit(ok[c]) \in Int
    BY DEF Bit
  <2>3. key[c] = <<Bit(ok[c])>> \o Score(rs[c])
    OBVIOUS
  <2> DEFINE head == <<Bit(ok[c])>>
             tail == Score(rs[c])
  <2>4. head \in Seq(Int) /\ Len(head) = 1 /\ head[1] = Bit(ok[c])
    BY <2>2
  <2>5. tail \in Seq(Int) /\ Len(tail) = 8
    BY <1>5, ScoreTyped
  <2>6. key[c] = head \o tail
    BY <2>3
  <2> HIDE DEF head, tail, key
  <2>7. /\ head \o tail \in [1 .. 9 -> Int]
        /\ (head \o tail)[1] = head[1] /\ (head \o tail)[2] = tail[1]
    BY <2>4, <2>5, PrefixedKey
  <2>8. key[c] \in [1 .. 9 -> Int] /\ key[c][1] = head[1] /\ key[c][2] = tail[1]
    BY <2>6, <2>7
  <2>9. tail[1] = Bit(Eligible(rs[c]))
    BY <2>1 DEF tail
  <2>10. QED
    BY <2>4, <2>8, <2>9
<1>10. /\ N \in Nat
       /\ best \in [1 .. N -> T]
       /\ \A c \in T : \E k \in 1 .. N : best[k] = c
       /\ \A i, j \in 1 .. N : i < j => Before(key, best[i], best[j])
  <2> HIDE DEF key
  <2>1. QED
    BY <1>3, <1>9, SortedLists
<1> HIDE DEF best, N, key
<1>11. 1 \in 1 .. N /\ best[1] \in T
  BY <1>4, <1>10
<1>12. ASSUME NEW d \in T, ok[d], Eligible(rs[d])
       PROVE  ok[best[1]] /\ Eligible(rs[best[1]])
  <2>1. PICK k \in 1 .. N : best[k] = d
    BY <1>10
  <2>2. CASE k = 1
    BY <1>12, <2>1, <2>2
  <2>3. CASE 1 < k
    <3>1. Before(key, best[1], d)
      BY <1>10, <1>11, <2>1, <2>3
    <3>2. /\ key[d] \in [1 .. 9 -> Int] /\ key[d][1] = 1 /\ key[d][2] = 1
      BY <1>9, <1>12 DEF Bit
    <3>3. /\ key[best[1]] \in [1 .. 9 -> Int]
          /\ key[best[1]][1] <= 1 /\ key[best[1]][2] <= 1
          /\ key[best[1]][1] = 1 => ok[best[1]]
          /\ key[best[1]][2] = 1 => Eligible(rs[best[1]])
      <4>1. /\ key[best[1]] \in [1 .. 9 -> Int]
            /\ key[best[1]][1] = Bit(ok[best[1]])
            /\ key[best[1]][2] = Bit(Eligible(rs[best[1]]))
        BY <1>9, <1>11
      <4>2. \A b : Bit(b) <= 1 /\ (Bit(b) = 1 => b)
        BY DEF Bit
      <4>3. QED
        BY <4>1, <4>2, SMTT(60)
    <3>4. key[best[1]][1] = 1 /\ key[best[1]][2] = 1
      <4>1. CASE key[best[1]] = key[d]
        BY <3>2, <4>1
      <4>2. CASE Above(key[best[1]], key[d])
        <5>1. PICK i \in 1 .. 9 :
                /\ key[best[1]][i] > key[d][i]
                /\ \A j \in 1 .. i - 1 : key[best[1]][j] = key[d][j]
          BY <3>3, <4>2 DEF Above
        <5>2. i # 1
          <6>1. /\ key[best[1]][1] \in Int /\ key[best[1]][1] <= 1
                /\ key[d][1] = 1
            BY <3>2, <3>3
          <6>2. QED
            BY <5>1, <6>1
        <5>3. key[best[1]][1] = key[d][1]
          BY <5>1, <5>2
        <5>4. i # 2
          <6>1. /\ key[best[1]][2] \in Int /\ key[best[1]][2] <= 1
                /\ key[d][2] = 1
            BY <3>2, <3>3
          <6>2. QED
            BY <5>1, <6>1
        <5>5. key[best[1]][2] = key[d][2]
          BY <5>1, <5>2, <5>4
        <5>6. QED
          BY <3>2, <5>3, <5>5
      <4>3. QED
        BY <3>1, <4>1, <4>2 DEF Before
    <3>5. QED
      BY <3>3, <3>4
  <2>4. QED
    BY <1>10, <2>1, <2>2, <2>3
<1>13. QED
  BY <1>6, <1>7, <1>8, <1>11, <1>12

-----------------------------------------------------------------------------
(* The invariant.                                                           *)

TypeInv ==
  /\ kind \in {"operability", "tranche"}
  /\ phase \in {"focused", "pivot", "stress", "done"}
  /\ control \in Evidence
  /\ phase \in {"pivot", "stress"} => kind = "operability"
  /\ phase = "pivot" => rows \in [Focused -> Evidence]
  /\ phase \in {"stress", "done"} => \E D \in Ran : rows \in [D -> Evidence]
  /\ phase # "done" => decision.action = "none"

\* Of the shortlist, the first ones have been stressed, each of them once.
Stressed ==
  /\ phase \in {"focused", "pivot"} => stress = <<>>
  /\ phase \in {"stress", "done"} /\ kind = "operability" =>
       /\ shortlist = Shortlist(rows, control)
       /\ IsFiniteSet(DOMAIN stress) /\ Cardinality(DOMAIN stress) \in 0 .. Len(shortlist)
       /\ DOMAIN stress = {shortlist[k] : k \in 1 .. Cardinality(DOMAIN stress)}
       /\ \A c \in DOMAIN stress : stress[c] \in BOOLEAN

\* A decision follows from the evidence it was taken on.
Decided ==
  phase = "done" =>
    /\ kind = "operability" =>
         /\ Cardinality(DOMAIN stress) = Len(shortlist)
         /\ decision.selected = Select(shortlist, rows, stress)
         /\ decision.action # "promote_candidate"
         /\ decision.action = "freeze_candidate" <=>
              /\ shortlist # <<>>
              /\ Eligible(rows[decision.selected]) /\ stress[decision.selected]
    /\ kind = "tranche" =>
         /\ decision.action # "freeze_candidate"
         /\ decision.action = "promote_candidate" =>
              /\ decision.selected \in DOMAIN rows
              /\ Eligible(rows[decision.selected])
              /\ BeatsControl(rows[decision.selected], control)

Inv == TypeInv /\ Stressed /\ Decided

LEMMA InitInv == Init => Inv
<1> SUFFICES ASSUME Init PROVE Inv
  OBVIOUS
<1>1. TypeInv
  BY DEF Init, TypeInv
<1>2. Stressed
  BY DEF Init, Stressed
<1>3. Decided
  BY DEF Init, Decided
<1>4. QED
  BY <1>1, <1>2, <1>3 DEF Inv

\* What the shortlist of the candidates that were run holds.
LEMMA ListFacts ==
  ASSUME NEW D \in Ran, NEW rs \in [D -> Evidence], NEW ctl \in Evidence,
         NEW list, list = Shortlist(rs, ctl)
  PROVE  /\ list \in Seq(D) /\ Len(list) \in Nat
         /\ \A k \in 1 .. Len(list) : list[k] \in D /\ Viable(rs[list[k]], ctl)
         /\ \A i, j \in 1 .. Len(list) : list[i] = list[j] => i = j
<1>1. Shortlisted(list, rs, ctl) /\ DOMAIN rs = D
  BY ShortlistHolds
<1>2. list \in Seq({c \in D : Viable(rs[c], ctl)})
  BY <1>1 DEF Shortlisted
<1>3. \A k \in 1 .. Len(list) : list[k] \in D /\ Viable(rs[list[k]], ctl)
  <2> TAKE k \in 1 .. Len(list)
  <2>1. list[k] \in {c \in D : Viable(rs[c], ctl)}
    BY <1>2, ElementOfSeq
  <2>2. QED
    BY <2>1
<1>4. list \in Seq(D) /\ Len(list) \in Nat
  <2>1. {c \in D : Viable(rs[c], ctl)} \subseteq D
    OBVIOUS
  <2>2. QED
    BY <1>2, <2>1, SeqMonotonic, LenProperties
<1>5. QED
  BY <1>1, <1>3, <1>4 DEF Shortlisted

LEMMA StepInv == Inv /\ [Next]_vars => Inv'
<1> SUFFICES ASSUME Inv, [Next]_vars PROVE Inv'
  OBVIOUS
<1> USE DEF Inv
<1>1. CASE RunFocused
  <2>1. TypeInv'
    BY <1>1 DEF RunFocused, TypeInv, Ran
  <2>2. Stressed'
    <3>1. stress = <<>> /\ stress' = stress /\ phase' \in {"stress", "pivot"}
      BY <1>1 DEF RunFocused, Stressed
    <3>2. ASSUME phase' = "stress"
          PROVE  /\ shortlist' = Shortlist(rows', control')
                 /\ Len(shortlist') \in Nat
      <4>1. rows' \in [Focused -> Evidence] /\ Focused \in Ran /\ control' \in Evidence
        BY <1>1 DEF RunFocused, TypeInv, Ran
      <4>2. shortlist' = Shortlist(rows', control')
        BY <1>1, <3>2 DEF RunFocused
      <4>3. QED
        BY <4>1, <4>2, ListFacts
    <3>3. /\ IsFiniteSet(DOMAIN stress') /\ Cardinality(DOMAIN stress') = 0
          /\ DOMAIN stress' = {}
      BY <3>1, FS_EmptySet
    <3>4. QED
      BY <3>1, <3>2, <3>3 DEF Stressed
  <2>3. Decided'
    BY <1>1 DEF RunFocused, Decided
  <2>4. QED
    BY <2>1, <2>2, <2>3
<1>2. CASE RunPivot
  <2>1. rows' \in [Focused \union Pivot -> Evidence]
    <3>1. PICK more \in [Pivot -> Evidence] :
            rows' = [c \in Focused \union Pivot |-> IF c \in Focused THEN rows[c] ELSE more[c]]
      BY <1>2 DEF RunPivot
    <3>2. rows \in [Focused -> Evidence]
      BY <1>2 DEF RunPivot, TypeInv
    <3>3. QED
      BY <3>1, <3>2
  <2>2. (Focused \union Pivot) \in Ran
    BY DEF Ran
  <2>3. TypeInv'
    BY <1>2, <2>1, <2>2 DEF RunPivot, TypeInv
  <2>4. Stressed'
    <3>1. stress = <<>> /\ stress' = stress /\ phase' = "stress"
      BY <1>2 DEF RunPivot, Stressed
    <3>2. shortlist' = Shortlist(rows', control') /\ control' \in Evidence
      BY <1>2 DEF RunPivot, TypeInv
    <3>3. Len(shortlist') \in Nat
      BY <2>1, <2>2, <3>2, ListFacts
    <3>4. /\ IsFiniteSet(DOMAIN stress') /\ Cardinality(DOMAIN stress') = 0
          /\ DOMAIN stress' = {}
      BY <3>1, FS_EmptySet
    <3>5. QED
      BY <3>1, <3>2, <3>3, <3>4 DEF Stressed
  <2>5. Decided'
    BY <1>2 DEF RunPivot, Decided
  <2>6. QED
    BY <2>3, <2>4, <2>5
<1>3. CASE Stress
  <2>1. TypeInv'
    BY <1>3 DEF Stress, TypeInv
  <2> DEFINE n == Cardinality(DOMAIN stress)
             c == shortlist[n + 1]
  <2>2. PICK b \in BOOLEAN :
          stress' = [d \in DOMAIN stress \union {c} |-> IF d = c THEN b ELSE stress[d]]
    <3>1. \E results \in [Scenarios -> Evidence] :
            stress' = [d \in DOMAIN stress \union {c} |->
                         IF d = c
                         THEN {s \in Scenarios : Status(results[s].validation) = "fail"
                                                 \/ Status(results[s].holdout) = "fail"} = {}
                         ELSE stress[d]]
      BY <1>3 DEF Stress
    <3>2. QED
      BY <3>1
  <2>3. /\ phase = "stress" /\ kind = "operability" /\ n < Len(shortlist)
        /\ UNCHANGED <<kind, phase, control, rows, shortlist, decision>>
    BY <1>3 DEF Stress, TypeInv
  <2>4. /\ shortlist = Shortlist(rows, control)
        /\ IsFiniteSet(DOMAIN stress) /\ n \in 0 .. Len(shortlist)
        /\ DOMAIN stress = {shortlist[k] : k \in 1 .. n}
        /\ \A d \in DOMAIN stress : stress[d] \in BOOLEAN
    BY <2>3 DEF Stressed
  <2>5. PICK D \in Ran : rows \in [D -> Evidence]
    BY <2>3 DEF TypeInv
  <2>6. /\ Len(shortlist) \in Nat
        /\ \A i, j \in 1 .. Len(shortlist) : shortlist[i] = shortlist[j] => i = j
    <3>1. control \in Evidence
      BY DEF TypeInv
    <3>2. QED
      BY <2>4, <2>5, <3>1, ListFacts
  <2> HIDE DEF n
  <2>7. n \in Nat /\ n + 1 \in 1 .. Len(shortlist)
    BY <2>3, <2>4, <2>6
  <2>8. c \notin DOMAIN stress
    <3>1. SUFFICES ASSUME NEW k \in 1 .. n, shortlist[k] = c PROVE FALSE
      BY <2>4
    <3>2. k \in 1 .. Len(shortlist) /\ k # n + 1
      BY <2>7
    <3>3. QED
      BY <2>6, <2>7, <3>1, <3>2
  <2>9. DOMAIN stress' = DOMAIN stress \union {c}
    BY <2>2
  <2>10. IsFiniteSet(DOMAIN stress') /\ Cardinality(DOMAIN stress') = n + 1
    BY <2>4, <2>8, <2>9, FS_AddElement DEF n
  <2>11. DOMAIN stress' = {shortlist[k] : k \in 1 .. n + 1}
    <3>1. 1 .. n + 1 = (1 .. n) \union {n + 1}
      BY <2>7
    <3>2. QED
      BY <2>4, <2>9, <3>1
  <2>12. \A d \in DOMAIN stress' : stress'[d] \in BOOLEAN
    BY <2>2, <2>4, <2>9
  <2>13. Stressed'
    <3>1. /\ phase' = "stress" /\ shortlist' = Shortlist(rows', control')
          /\ shortlist' = shortlist
      BY <2>3, <2>4
    <3>2. Cardinality(DOMAIN stress') \in 0 .. Len(shortlist')
      BY <2>6, <2>7, <2>10, <3>1
    <3>3. DOMAIN stress' = {shortlist'[k] : k \in 1 .. Cardinality(DOMAIN stress')}
      BY <2>10, <2>11, <3>1
    <3>4. QED
      BY <2>10, <2>12, <3>1, <3>2, <3>3 DEF Stressed
  <2>14. Decided'
    BY <2>3 DEF Decided
  <2>15. QED
    BY <2>1, <2>13, <2>14
<1>4. CASE Decide
  <2>1. TypeInv'
    BY <1>4 DEF Decide, TypeInv
  <2>2. Stressed'
    BY <1>4 DEF Decide, Stressed, TypeInv
  <2> DEFINE c == Select(shortlist, rows, stress)
  <2>3. /\ kind' = "operability" /\ phase' = "done"
        /\ UNCHANGED <<kind, control, rows, shortlist, stress>>
        /\ Cardinality(DOMAIN stress) = Len(shortlist)
    BY <1>4 DEF Decide, TypeInv
  <2>4. decision' = [selected |-> c,
                     action |-> IF c = None THEN "continue_research"
                                ELSE IF Eligible(rows[c]) /\ stress[c] THEN "freeze_candidate"
                                ELSE IF PivotUsed THEN "continue_benchmark_pivot"
                                ELSE "continue_focused_research"]
    BY <1>4 DEF Decide
  <2>5. c = None <=> shortlist = <<>>
    <3>1. shortlist = <<>> => c = None
      BY DEF Select
    <3>2. ASSUME shortlist # <<>> PROVE c # None
      <4>1. PICK D \in Ran : rows \in [D -> Evidence]
        BY <1>4 DEF Decide, TypeInv
      <4>2. phase = "stress" /\ kind = "operability" /\ control \in Evidence
        BY <1>4 DEF Decide, TypeInv
      <4>3. /\ shortlist = Shortlist(rows, control)
            /\ DOMAIN stress = {shortlist[k] : k \in 1 .. Len(shortlist)}
            /\ \A d \in DOMAIN stress : stress[d] \in BOOLEAN
        BY <2>3, <4>2 DEF Stressed
      <4>4. /\ shortlist \in Seq(D)
            /\ \A k \in 1 .. Len(shortlist) : shortlist[k] \in D
        BY <4>1, <4>2, <4>3, ListFacts
      <4>5. \A k \in 1 .. Len(shortlist) : stress[shortlist[k]] \in BOOLEAN
        BY <4>3
      <4>6. PICK k \in 1 .. Len(shortlist) : c = shortlist[k]
        BY <3>2, <4>1, <4>4, <4>5, SelectTakes
      <4>7. c \in Nat
        BY <4>1, <4>4, <4>6, RanFinite
      <4>8. QED
        BY <4>7 DEF None
    <3>3. QED
      BY <3>1, <3>2
  <2> HIDE DEF c
  <2>6. Decided'
    <3>1. /\ decision'.selected = c /\ decision'.action # "promote_candidate"
          /\ decision'.action = "freeze_candidate" <=>
               c # None /\ Eligible(rows[c]) /\ stress[c]
      BY <2>4
    <3>2. QED
      BY <2>3, <2>5, <3>1 DEF Decided, c
  <2>7. QED
    BY <2>1, <2>2, <2>6
<1>5. CASE RunTranche
  <2> DEFINE better == {c \in Focused : BeatsControl(rows'[c], control)}
             key == [c \in better |-> TrancheScore(rows'[c])]
             best == Sorted(better, key)
  <2>1. /\ phase' = "done" /\ kind' = "tranche" /\ rows' \in [Focused -> Evidence]
        /\ UNCHANGED <<kind, control, shortlist, stress>>
    BY <1>5 DEF RunTranche
  <2>2. Focused \in Ran
    BY DEF Ran
  <2>3. TypeInv'
    BY <2>1, <2>2 DEF TypeInv
  <2>4. Stressed'
    BY <2>1 DEF Stressed
  <2>5. decision' = IF best = <<>> THEN [action |-> "continue_research", selected |-> None]
                    ELSE [action |-> IF Eligible(rows'[best[1]]) THEN "promote_candidate"
                                     ELSE "continue_research",
                          selected |-> best[1]]
    BY <1>5 DEF RunTranche
  <2>6. best = <<>> \/ best[1] \in better
    <3>1. better \in SUBSET Nat /\ IsFiniteSet(better)
      BY <2>2, RanFinite, FS_Subset
    <3>2. \A c \in better : key[c] \in [1 .. 6 -> Int]
      BY <2>1, TrancheScoreTyped
    <3> HIDE DEF better, key
    <3>3. Cardinality(better) \in Nat /\ best \in [1 .. Cardinality(better) -> better]
      BY <3>1, <3>2, SortedLists
    <3>4. CASE Cardinality(better) = 0
      <4>1. best \in [{} -> better]
        BY <3>3, <3>4
      <4>2. QED
        BY <4>1
    <3>5. CASE Cardinality(better) # 0
      BY <3>3, <3>5
    <3>6. QED
      BY <3>4, <3>5
  <2> HIDE DEF best
  <2>7. /\ decision'.action # "freeze_candidate"
        /\ decision'.action = "promote_candidate" =>
             /\ best # <<>> /\ decision'.selected = best[1]
             /\ Eligible(rows'[best[1]])
    BY <2>5
  <2>8. Decided'
    <3>1. \A c \in better : c \in DOMAIN rows' /\ BeatsControl(rows'[c], control)
      BY <2>1
    <3> HIDE DEF better
    <3>2. QED
      BY <2>1, <2>6, <2>7, <3>1 DEF Decided
  <2>9. QED
    BY <2>3, <2>4, <2>8
<1>6. CASE UNCHANGED vars
  BY <1>6 DEF vars, TypeInv, Stressed, Decided
<1>7. QED
  BY <1>1, <1>2, <1>3, <1>4, <1>5, <1>6 DEF Next

LEMMA Invariant == Spec => []Inv
BY InitInv, StepInv, PTL DEF Spec

-----------------------------------------------------------------------------
(* The theorems.                                                            *)

\* A period that passes raised no flag.
LEMMA PassIsClean ==
  ASSUME NEW f, f.missing \in BOOLEAN
  PROVE  Status(f) = "pass" <=> ~ f.missing /\ FailFlags(f) = {} /\ WarnFlags(f) = {}
BY DEF Status

LEMMA EvidenceOfSelected ==
  ASSUME Inv, phase = "done", decision.action \in {"freeze_candidate", "promote_candidate"}
  PROVE  /\ rows[decision.selected] \in Evidence
         /\ Eligible(rows[decision.selected])
         /\ Excess(rows[decision.selected].holdout) >= Excess(control.holdout)
         /\ decision.action = "freeze_candidate" => stress[decision.selected]
<1>1. PICK D \in Ran : rows \in [D -> Evidence]
  BY DEF Inv, TypeInv
<1>2. control \in Evidence /\ kind \in {"operability", "tranche"}
  BY DEF Inv, TypeInv
<1>3. CASE kind = "operability"
  <2>1. /\ shortlist # <<>> /\ decision.selected = Select(shortlist, rows, stress)
        /\ Eligible(rows[decision.selected]) /\ stress[decision.selected]
        /\ Cardinality(DOMAIN stress) = Len(shortlist)
    BY <1>3 DEF Inv, Decided
  <2>2. /\ shortlist = Shortlist(rows, control)
        /\ DOMAIN stress = {shortlist[k] : k \in 1 .. Len(shortlist)}
        /\ \A d \in DOMAIN stress : stress[d] \in BOOLEAN
    BY <1>3, <2>1 DEF Inv, Stressed
  <2>3. /\ shortlist \in Seq(D)
        /\ \A k \in 1 .. Len(shortlist) :
             shortlist[k] \in D /\ Viable(rows[shortlist[k]], control)
    BY <1>1, <1>2, <2>2, ListFacts
  <2>4. \A k \in 1 .. Len(shortlist) : stress[shortlist[k]] \in BOOLEAN
    BY <2>2
  <2>5. PICK k \in 1 .. Len(shortlist) : decision.selected = shortlist[k]
    BY <1>1, <2>1, <2>3, <2>4, SelectTakes
  <2>6. decision.selected \in D /\ Viable(rows[decision.selected], control)
    BY <2>3, <2>5
  <2>7. QED
    BY <1>1, <2>1, <2>6 DEF Viable
<1>4. CASE kind = "tranche"
  <2>1. /\ decision.action = "promote_candidate"
        /\ decision.selected \in DOMAIN rows
        /\ Eligible(rows[decision.selected])
        /\ BeatsControl(rows[decision.selected], control)
    BY <1>4 DEF Inv, Decided
  <2>2. rows[decision.selected] \in Evidence
    BY <1>1, <2>1
  <2>3. /\ Excess(rows[decision.selected].holdout) \in Int
        /\ Excess(control.holdout) \in Int
    BY <1>2, <2>2, EvidenceParts
  <2>4. Excess(rows[decision.selected].holdout) > Excess(control.holdout)
    BY <2>1 DEF BeatsControl
  <2>5. QED
    BY <2>1, <2>2, <2>3, <2>4
<1>5. QED
  BY <1>2, <1>3, <1>4

\* Whatever the candidates, their evidence and the limits, a candidate is frozen or
\* promoted only if both splits and enough windows raised no flag, it keeps the
\* control's holdout edge and a frozen one survived the stress pack, under a policy
\* that requires both splits to pass (PromotionPolicyConfig does unless told
\* otherwise).
THEOREM OnlyOnEvidence ==
  ASSUME Policy.requireValidation, Policy.requireHoldout
  PROVE  Spec => []PutForwardOnEvidence
<1>1. ASSUME Inv PROVE PutForwardOnEvidence
  <2>1. SUFFICES ASSUME decision.action \in {"freeze_candidate", "promote_candidate"}
                 PROVE  PutForwardOnEvidence
    BY DEF PutForwardOnEvidence
  <2> DEFINE e == rows[decision.selected]
             Clean(f) == ~ f.missing /\ FailFlags(f) = {} /\ WarnFlags(f) = {}
  <2>2. phase = "done"
    BY <1>1, <2>1 DEF Inv, TypeInv
  <2>3. /\ e \in Evidence /\ Eligible(e)
        /\ Excess(e.holdout) >= Excess(control.holdout)
        /\ decision.action = "freeze_candidate" => stress[decision.selected]
    BY <1>1, <2>1, <2>2, EvidenceOfSelected
  <2> HIDE DEF e
  <2>4. /\ e.validation \in Result /\ e.holdout \in Result /\ e.walk \in Seq(Result)
    BY <2>3, EvidenceParts
  <2>5. \A f \in Result : Status(f) = "pass" <=> Clean(f)
    BY PassIsClean DEF Result
  <2> HIDE DEF Clean
  <2>6. Clean(e.validation) /\ Clean(e.holdout)
    BY <2>3, <2>4, <2>5 DEF Eligible, SplitOk
  <2>7. Cardinality({k \in DOMAIN e.walk : Clean(e.walk[k])}) >= Policy.minPassWindows
    <3>1. \A k \in DOMAIN e.walk : e.walk[k] \in Result
      BY <2>4, LenProperties, ElementOfSeq
    <3>2. {k \in DOMAIN e.walk : Clean(e.walk[k])}
            = {k \in DOMAIN e.walk : Status(e.walk[k]) = "pass"}
      BY <2>5, <3>1
    <3>3. Passes(e.walk) >= Policy.minPassWindows
      BY <2>3 DEF Eligible, WalkEligible
    <3>4. QED
      BY <3>2, <3>3 DEF Passes
  <2>8. QED
    BY <2>3, <2>6, <2>7 DEF PutForwardOnEvidence, Clean, e
<1>2. QED
  BY <1>1, Invariant, PTL

\* Whatever the candidates and their evidence, a program that freezes none broke
\* every viable and eligible candidate under stress, or three eligible ones that
\* took the places of the stress pack.
THEOREM NoneOverlooked == Spec => []NothingOverlooked
<1>1. ASSUME Inv PROVE NothingOverlooked
  <2>1. SUFFICES ASSUME phase = "done", kind = "operability",
                        decision.action # "freeze_candidate",
                        NEW c \in DOMAIN rows, Viable(rows[c], control), Eligible(rows[c])
                 PROVE  \/ c \in DOMAIN stress /\ ~ stress[c]
                        \/ /\ c \notin DOMAIN stress /\ Cardinality(DOMAIN stress) = 3
                           /\ \A d \in DOMAIN stress : Eligible(rows[d]) /\ ~ stress[d]
    BY DEF NothingOverlooked
  <2>2. PICK D \in Ran : rows \in [D -> Evidence]
    BY <1>1, <2>1 DEF Inv, TypeInv
  <2>3. control \in Evidence
    BY <1>1 DEF Inv, TypeInv
  <2>4. /\ shortlist = Shortlist(rows, control)
        /\ Cardinality(DOMAIN stress) = Len(shortlist)
        /\ DOMAIN stress = {shortlist[k] : k \in 1 .. Len(shortlist)}
        /\ \A d \in DOMAIN stress : stress[d] \in BOOLEAN
    BY <1>1, <2>1 DEF Inv, Stressed, Decided
  <2>5. /\ shortlist \in Seq(D)
        /\ \A k \in 1 .. Len(shortlist) : shortlist[k] \in D
    BY <2>2, <2>3, <2>4, ListFacts
  <2>6. \A k \in 1 .. Len(shortlist) : stress[shortlist[k]] \in BOOLEAN
    BY <2>4
  <2>7. ASSUME NEW d \in DOMAIN stress, Eligible(rows[d])
        PROVE  ~ stress[d]
    <3>1. PICK k \in 1 .. Len(shortlist) : shortlist[k] = d
      BY <2>4
    <3>2. shortlist # <<>>
      BY <3>1
    <3>3. ~ (stress[Select(shortlist, rows, stress)]
               /\ Eligible(rows[Select(shortlist, rows, stress)]))
      BY <1>1, <2>1, <3>2 DEF Inv, Decided
    <3>4. QED
      BY <2>2, <2>5, <2>6, <2>7, <3>1, <3>2, <3>3, SelectTakes
  <2>8. CASE c \in DOMAIN stress
    BY <2>1, <2>7, <2>8
  <2>9. CASE c \notin DOMAIN stress
    <3>1. Shortlisted(shortlist, rows, control)
      BY <2>2, <2>3, <2>4, ShortlistHolds
    <3>2. ~ \E k \in 1 .. Len(shortlist) : shortlist[k] = c
      BY <2>4, <2>9
    <3>3. /\ Len(shortlist) = 3
          /\ \A k \in 1 .. Len(shortlist) : Eligible(rows[shortlist[k]])
      BY <2>1, <3>1, <3>2 DEF Shortlisted
    <3>4. \A d \in DOMAIN stress : Eligible(rows[d])
      BY <2>4, <3>3
    <3>5. QED
      BY <2>4, <2>7, <2>9, <3>3, <3>4
  <2>10. QED
    BY <2>8, <2>9
<1>2. QED
  BY <1>1, Invariant, PTL

-----------------------------------------------------------------------------
(* Amounts per name.                                                        *)

Values  == [Instruments -> Int]
Amounts == [Instruments -> Nat]

\* What is given per name is a list of numbers, in the order of the names.
LEMMA ValuesAreLists ==
  ASSUME NEW f \in Values
  PROVE  f \in Seq(Int) /\ Len(f) = Size
BY InputsAssumption DEF Values, Instruments

\* The total of numbers is a number.
LEMMA SumInt ==
  ASSUME NEW f \in Values
  PROVE  Total(f) \in Int
BY ValuesAreLists, TotalInt

\* Greater terms, greater total.
LEMMA SumMonotone ==
  ASSUME NEW f \in Values, NEW h \in Values, \A i \in Instruments : f[i] <= h[i]
  PROVE  Total(f) <= Total(h)
<1>1. f \in Seq(Int) /\ h \in Seq(Int) /\ Len(f) = Size /\ Len(h) = Size
  BY ValuesAreLists
<1>2. \A k \in 1 .. Len(f) : f[k] <= h[k]
  BY <1>1 DEF Instruments
<1>3. QED
  BY <1>1, <1>2, TotalMonotone

\* A common factor.
LEMMA SumScaled ==
  ASSUME NEW f \in Values, NEW a \in Int
  PROVE  Total([i \in Instruments |-> a * f[i]]) = a * Total(f)
<1>1. f \in Seq(Int) /\ Len(f) = Size
  BY ValuesAreLists
<1>2. Total([k \in 1 .. Len(f) |-> a * f[k]]) = a * Total(f)
  BY <1>1, TotalScaled
<1>3. QED
  BY <1>1, <1>2 DEF Instruments

\* Term by term.
LEMMA SumOfSums ==
  ASSUME NEW f \in Values, NEW h \in Values, NEW u \in Values,
         \A i \in Instruments : u[i] = f[i] + h[i]
  PROVE  Total(u) = Total(f) + Total(h)
<1>1. /\ f \in Seq(Int) /\ h \in Seq(Int) /\ u \in Seq(Int)
      /\ Len(f) = Size /\ Len(h) = Size /\ Len(u) = Size
  BY ValuesAreLists
<1>2. \A k \in 1 .. Len(f) : u[k] = f[k] + h[k]
  BY <1>1 DEF Instruments
<1>3. Len(h) = Len(f) /\ Len(u) = Len(f)
  BY <1>1
<1>4. QED
  BY <1>1, <1>2, <1>3, TotalSum

\* One name's value changes the total by as much.
LEMMA SumChange ==
  ASSUME NEW f \in Values, NEW h \in Values, NEW i \in Instruments,
         \A j \in Instruments : j # i => h[j] = f[j]
  PROVE  Total(h) = Total(f) + h[i] - f[i]
<1>1. f \in Seq(Int) /\ h \in Seq(Int) /\ Len(f) = Size /\ Len(h) = Size
  BY ValuesAreLists
<1>2. i \in 1 .. Len(f) /\ \A k \in 1 .. Len(f) : k # i => h[k] = f[k]
  BY <1>1 DEF Instruments
<1>3. QED
  BY <1>1, <1>2, TotalChange

\* The total of nothing is nothing, so that of amounts is not negative.
LEMMA SumNat ==
  ASSUME NEW f \in Amounts
  PROVE  Total(f) \in Nat
<1> DEFINE zero == [i \in Instruments |-> 0 * f[i]]
<1>1. f \in Values /\ zero \in Values /\ \A i \in Instruments : zero[i] <= f[i]
  BY DEF Values, Amounts
<1>2. Total(zero) = 0 * Total(f) /\ Total(f) \in Int
  <2> HIDE DEF zero
  <2>1. Total(f) \in Int
    BY <1>1, SumInt
  <2>2. Total(zero) = 0 * Total(f)
    BY <1>1, SumScaled DEF zero
  <2>3. QED
    BY <2>1, <2>2
<1>3. Total(zero) <= Total(f)
  <2> HIDE DEF zero
  <2>1. QED
    BY <1>1, SumMonotone
<1>4. QED
  BY <1>2, <1>3

\* A quotient is rounded down.
LEMMA QuotientBound ==
  ASSUME NEW a \in Int, NEW b \in Nat \ {0}
  PROVE  a \div b \in Int /\ b * (a \div b) <= a /\ (a >= 0 => a \div b >= 0)
OBVIOUS

LEMMA Cancels ==
  ASSUME NEW a \in Nat \ {0}, NEW b \in Int, NEW c \in Int, a * b <= c * a
  PROVE  b <= c
OBVIOUS

LEMMA ProductNat ==
  ASSUME NEW a \in Nat, NEW b \in Nat
  PROVE  a * b \in Nat
OBVIOUS

\* Shares are not negative and do not add up to more than what is shared.
LEMMA SharesFit ==
  ASSUME NEW amount \in Nat, NEW f \in Amounts
  PROVE  Shared(amount, f) \in Amounts /\ Total(Shared(amount, f)) <= amount
<1> DEFINE total == Total(f)
           part == Shared(amount, f)
<1>1. total \in Nat /\ f \in Values
  BY SumNat DEF Amounts, Values
<1>2. CASE total = 0
  <2>1. \A i \in Instruments : part[i] = 0
    BY <1>2 DEF Shared
  <2>2. part \in Amounts
    BY <2>1 DEF Shared, Amounts
  <2>3. part \in Values /\ \A i \in Instruments : part[i] <= f[i]
    BY <2>1, <2>2 DEF Amounts, Values
  <2>4. Total(part) <= total
    <3> HIDE DEF part
    <3>1. QED
      BY <1>1, <2>3, SumMonotone
  <2>5. Total(part) \in Nat
    <3> HIDE DEF part
    <3>1. QED
      BY <2>2, SumNat
  <2>6. QED
    BY <1>2, <2>2, <2>4, <2>5
<1>3. CASE total # 0
  <2>1. ASSUME NEW i \in Instruments
        PROVE  part[i] \in Nat /\ total * part[i] <= amount * f[i]
    <3>1. f[i] \in Nat
      BY DEF Amounts
    <3>2. amount * f[i] \in Nat
      BY <3>1, ProductNat
    <3>3. part[i] = (amount * f[i]) \div total
      BY <1>3 DEF Shared
    <3> DEFINE product == amount * f[i]
    <3> HIDE DEF product, total
    <3>4. product \div total \in Int /\ total * (product \div total) <= product
          /\ product \div total >= 0
      BY <1>1, <1>3, <3>2, QuotientBound DEF product
    <3>5. QED
      BY <3>3, <3>4 DEF product
  <2> DEFINE least == [i \in Instruments |-> total * part[i]]
             most  == [i \in Instruments |-> amount * f[i]]
  <2>2. part \in Amounts /\ part \in Values
    BY <2>1 DEF Shared, Amounts, Values
  <2> HIDE DEF part, total
  <2>3. least \in Values /\ most \in Values
    <3>1. \A i \in Instruments : part[i] \in Nat /\ f[i] \in Nat
      BY <2>2 DEF Amounts
    <3>2. \A i \in Instruments : total * part[i] \in Nat /\ amount * f[i] \in Nat
      BY <1>1, <3>1, ProductNat
    <3>3. QED
      BY <3>2 DEF Values
  <2>4. \A i \in Instruments : least[i] <= most[i]
    BY <2>1
  <2>5. Total(least) = total * Total(part) /\ Total(most) = amount * total
    BY <1>1, <2>2, SumScaled DEF total
  <2>6. Total(least) <= Total(most)
    <3> HIDE DEF least, most
    <3>1. QED
      BY <2>3, <2>4, SumMonotone
  <2>7. Total(part) \in Int
    BY <2>2, SumInt
  <2>8. Total(part) <= amount
    <3> DEFINE sum == Total(part)
    <3> HIDE DEF sum
    <3>1. total \in Nat \ {0} /\ sum \in Int /\ total * sum <= amount * total
      BY <1>1, <1>3, <2>5, <2>6, <2>7 DEF sum
    <3>2. sum <= amount
      BY <3>1, Cancels
    <3>3. QED
      BY <3>2 DEF sum
  <2>9. QED
    BY <2>2, <2>8 DEF part
<1>4. QED
  BY <1>2, <1>3

-----------------------------------------------------------------------------
(* Weights: what the allocator is asked for and what it caps.               *)

\* The lesser of two, and the greater.
LEMMA MinTwo ==
  ASSUME NEW a \in Int, NEW b \in Int
  PROVE  Min({a, b}) \in {a, b} /\ Min({a, b}) <= a /\ Min({a, b}) <= b
<1>1. \E x \in {a, b} : \A y \in {a, b} : x <= y
  OBVIOUS
<1>2. QED
  BY <1>1 DEF Min

LEMMA MaxTwo ==
  ASSUME NEW a \in Int, NEW b \in Int
  PROVE  Max({a, b}) \in {a, b} /\ Max({a, b}) >= a /\ Max({a, b}) >= b
<1>1. \E x \in {a, b} : \A y \in {a, b} : x >= y
  OBVIOUS
<1>2. QED
  BY <1>1 DEF Max

\* What is left out counts nothing.
LEMMA OnlyTyped ==
  ASSUME NEW f \in Amounts, NEW R
  PROVE  Only(R, f) \in Amounts /\ \A i \in Instruments : Only(R, f)[i] <= f[i]
BY DEF Only, Amounts

LEMMA AmountsAreValues ==
  ASSUME NEW f \in Amounts
  PROVE  f \in Values
BY DEF Amounts, Values

\* No more than the whole weight is asked for.
LEMMA WeightsFit ==
  ASSUME NEW S, NEW vol \in [Instruments -> 0 .. 2]
  PROVE  TargetWeights(S, vol) \in Amounts /\ Total(TargetWeights(S, vol)) <= Weight
<1> DEFINE share == [i \in Instruments |->
                       IF i \notin S THEN 0
                       ELSE IF cfg.inverse THEN IF vol[i] = 0 THEN 0 ELSE 2 \div vol[i]
                       ELSE 1]
<1>1. \A i \in Instruments : share[i] \in Nat
  <2> TAKE i \in Instruments
  <2>1. vol[i] \in 0 .. 2
    OBVIOUS
  <2>2. vol[i] # 0 => 2 \div vol[i] \in Nat
    BY <2>1
  <2>3. QED
    BY <2>2
<1>2. share \in Amounts
  BY <1>1 DEF Amounts
<1>3. TargetWeights(S, vol) = Shared(Weight, share)
  BY DEF TargetWeights
<1>4. Weight \in Nat
  BY DEF Weight
<1> HIDE DEF share
<1>5. QED
  BY <1>2, <1>3, <1>4, SharesFit

\* Capping weights and spreading what is cut over the other names
\* (_redistribute_capped_weights) never adds to them, and leaves no name above
\* the maximum: as many rounds as there are names are enough.
THEOREM CapsHold ==
  ASSUME NEW w \in Amounts, cfg.maxWeight \in Nat
  PROVE  /\ Capped(w) \in Amounts /\ Total(Capped(w)) <= Total(w)
         /\ \A i \in Instruments : Capped(w)[i] <= cfg.maxWeight
<1> DEFINE positive == {i \in Instruments : w[i] > 0}
           total == Min({Total(Only(positive, w)), cfg.maxWeight * Cardinality(positive)})
           full == [i \in Instruments |-> cfg.maxWeight]
           Left(R) == total - Total(Only(positive \ R, full))
           Scaled(R) == Shared(Left(R), Only(R, w))
           Uncapped(R) == IF Left(R) <= 0 THEN R ELSE {i \in R : Scaled(R)[i] < cfg.maxWeight}
           IsFree(f) == f = [k \in 0 .. Size |-> IF k = 0 THEN positive ELSE Uncapped(f[k - 1])]
           free == CHOOSE f : IsFree(f)
           rest == free[Size]
           last == IF Left(rest) <= 0 THEN [i \in Instruments |-> 0] ELSE Scaled(rest)
<1>1. Size \in Nat /\ full \in Amounts
  BY InputsAssumption DEF Amounts
<1>2. total \in Nat /\ total <= Total(w)
  <2>1. Only(positive, w) \in Amounts /\ \A i \in Instruments : Only(positive, w)[i] <= w[i]
    BY OnlyTyped
  <2> DEFINE some == Only(positive, w)
             most == cfg.maxWeight * Cardinality(positive)
  <2>2. Total(some) <= Total(w)
    <3>1. some \in Values /\ w \in Values
      BY <2>1, AmountsAreValues
    <3> HIDE DEF some
    <3>2. QED
      BY <2>1, <3>1, SumMonotone DEF some
  <2>3. Total(some) \in Nat
    BY <2>1, SumNat
  <2>4. most \in Nat
    <3>1. positive \in SUBSET (1 .. Size)
      BY DEF Instruments
    <3>2. IsFiniteSet(positive)
      BY <1>1, <3>1, PlacesFinite, FS_Subset
    <3>3. Cardinality(positive) \in Nat
      BY <3>2, FS_CardinalityType
    <3>4. QED
      BY <3>3, ProductNat
  <2> HIDE DEF some, most
  <2>5. Min({Total(some), most}) \in {Total(some), most} /\ Min({Total(some), most}) <= Total(some)
    <3>1. Total(some) \in Int /\ most \in Int
      BY <2>3, <2>4
    <3>2. QED
      BY <3>1, MinTwo
  <2>6. Total(w) \in Nat
    BY SumNat
  <2>7. Min({Total(some), most}) \in Nat /\ Min({Total(some), most}) <= Total(w)
    BY <2>2, <2>3, <2>4, <2>5, <2>6
  <2>8. QED
    BY <2>7 DEF some, most
<1>3. ASSUME NEW R
      PROVE  Total(Only(R, full)) \in Nat /\ Only(R, w) \in Amounts
             /\ Only(R, full) \in Amounts
  BY <1>1, OnlyTyped, SumNat
<1> HIDE DEF total
<1>4. \A R : Left(R) \in Int
  BY <1>2, <1>3
<1>5. ASSUME NEW R, Left(R) >= 0
      PROVE  Scaled(R) \in Amounts /\ Total(Scaled(R)) <= Left(R)
  <2> HIDE DEF Left
  <2>1. Left(R) \in Nat
    <3>1. Left(R) \in Int
      BY <1>4
    <3>2. QED
      BY <1>5, <3>1
  <2>2. QED
    BY <1>3, <2>1, SharesFit
<1>6. \A R : Uncapped(R) \subseteq R
  OBVIOUS
<1> HIDE DEF full
<1>7. ASSUME NEW R \in SUBSET positive, Left(R) >= 0
      PROVE  Left(Uncapped(R)) >= 0
  <2>1. CASE Left(R) <= 0
    BY <1>7, <2>1
  <2>2. CASE ~ (Left(R) <= 0)
    <3> DEFINE U == Uncapped(R)
               over == Only(R \ U, full)
               was == Only(positive \ R, full)
               is == Only(positive \ U, full)
    <3>1. U = {i \in R : Scaled(R)[i] < cfg.maxWeight}
      BY <2>2
    <3>2. Scaled(R) \in Amounts /\ Total(Scaled(R)) <= Left(R)
      BY <1>5, <1>7
    <3>3. over \in Values /\ was \in Values /\ is \in Values
      BY <1>3, AmountsAreValues
    <3>4. \A i \in Instruments : is[i] = was[i] + over[i]
      <4>1. U \subseteq R /\ R \subseteq positive
        BY <3>1
      <4>2. full \in Amounts
        BY <1>1
      <4> HIDE DEF U, positive
      <4>3. QED
        BY <4>1, <4>2 DEF Only, Amounts
    <3>5. \A i \in Instruments : over[i] <= Scaled(R)[i]
      <4>1. \A i \in Instruments : Scaled(R)[i] \in Nat /\ full[i] = cfg.maxWeight
        BY <3>2 DEF Amounts, full
      <4> HIDE DEF Scaled, Uncapped
      <4>2. QED
        BY <3>1, <4>1 DEF Only
    <3> HIDE DEF over, was, is, U, Scaled
    <3>6. Total(is) = Total(was) + Total(over)
      BY <3>3, <3>4, SumOfSums
    <3>7. Total(over) <= Total(Scaled(R))
      BY <3>2, <3>3, <3>5, SumMonotone, AmountsAreValues
    <3>8. Total(is) \in Int /\ Total(was) \in Int /\ Total(over) \in Int
          /\ Total(Scaled(R)) \in Int
      BY <3>2, <3>3, SumInt, AmountsAreValues
    <3>9. Left(R) = total - Total(was) /\ Left(U) = total - Total(is)
      BY DEF was, is
    <3>10. Left(U) >= 0
      <4> HIDE DEF Left
      <4>1. QED
        BY <1>2, <1>4, <3>2, <3>6, <3>7, <3>8, <3>9
    <3>11. QED
      BY <3>10 DEF U
  <2>3. QED
    BY <2>1, <2>2
<1> HIDE DEF Left, Scaled, Uncapped
<1>8. \E f : IsFree(f)
  <2> DEFINE g == [k \in 1 .. Size |-> [R \in SUBSET positive |-> Uncapped(R)]]
  <2>1. StaysIn(SUBSET positive, Size, g)
    BY <1>6 DEF StaysIn
  <2>2. positive \in SUBSET positive
    OBVIOUS
  <2> HIDE DEF g, positive
  <2>3. Runs(SUBSET positive, positive, Size, g) # {}
    BY <1>1, <2>1, <2>2, RunsExist
  <2>4. PICK f \in Runs(SUBSET positive, positive, Size, g) : TRUE
    BY <2>3
  <2>5. /\ f \in [0 .. Size -> SUBSET positive] /\ f[0] = positive
        /\ \A k \in 1 .. Size : f[k] = g[k][f[k - 1]]
    BY <2>4 DEF Runs
  <2>6. \A k \in 1 .. Size : f[k] = Uncapped(f[k - 1])
    <3> TAKE k \in 1 .. Size
    <3>1. f[k - 1] \in SUBSET positive
      BY <1>1, <2>5
    <3>2. QED
      BY <2>5, <3>1 DEF g
  <2>7. IsFree(f)
    BY <1>1, <2>5, <2>6
  <2>8. QED
    BY <2>7
<1>9. IsFree(free)
  BY <1>8
<1> HIDE DEF free
<1>10. free[0] = positive /\ \A k \in 1 .. Size : free[k] = Uncapped(free[k - 1])
  <2>1. \A k \in 0 .. Size : free[k] = IF k = 0 THEN positive ELSE Uncapped(free[k - 1])
    BY <1>9
  <2> HIDE DEF positive
  <2>2. QED
    BY <1>1, <2>1
<1>11. rest \in SUBSET positive /\ Left(rest) >= 0
  <2> DEFINE T == {k \in 0 .. Size : free[k] \in SUBSET positive /\ Left(free[k]) >= 0}
  <2>1. 0 \in T
    <3>1. Only(positive \ positive, full) = Only({}, full)
      OBVIOUS
    <3>2. Total(Only({}, full)) = 0
      <4> DEFINE none == Only({}, full)
      <4>1. none \in Amounts /\ none \in Values
        BY <1>3, AmountsAreValues
      <4>2. none = [i \in Instruments |-> 0 * none[i]]
        BY <4>1 DEF Only, Amounts
      <4>3. Total(none) = 0 * Total(none) /\ Total(none) \in Int
        <5> HIDE DEF none
        <5>1. Total([i \in Instruments |-> 0 * none[i]]) = 0 * Total(none)
          BY <4>1, SumScaled
        <5>2. QED
          BY <4>1, <4>2, <5>1, SumInt
      <4>4. QED
        BY <4>3
    <3>3. Left(positive) = total - Total(Only(positive \ positive, full))
      BY DEF Left
    <3>4. Left(positive) = total
      BY <1>2, <3>1, <3>2, <3>3
    <3>5. Left(positive) >= 0
      BY <1>2, <3>4
    <3> HIDE DEF positive
    <3>6. free[0] \in SUBSET positive /\ Left(free[0]) >= 0
      BY <1>10, <3>5
    <3>7. QED
      BY <1>1, <3>6
  <2>2. \A k \in 1 .. Size : k - 1 \in T => k \in T
    BY <1>1, <1>6, <1>7, <1>10
  <2> HIDE DEF T
  <2>3. \A k \in 0 .. Size : k \in T
    BY <1>1, <2>1, <2>2, Induct
  <2>4. QED
    BY <1>1, <2>3 DEF T
<1>23. rest = Uncapped(rest)
  <2> DEFINE Stable(R) == R = Uncapped(R)
             T == {k \in 0 .. Size : \/ Stable(free[k])
                                     \/ Cardinality(free[k]) <= Size - k}
  <2>1. \A R \in SUBSET positive : IsFiniteSet(R) /\ Cardinality(R) \in 0 .. Size
    <3>1. \A R \in SUBSET positive : R \in SUBSET (1 .. Size)
      BY DEF Instruments
    <3>2. IsFiniteSet(1 .. Size) /\ Cardinality(1 .. Size) = Size
      BY <1>1, PlacesFinite, PlacesCount
    <3> HIDE DEF positive
    <3>3. \A R \in SUBSET (1 .. Size) : IsFiniteSet(R) /\ Cardinality(R) <= Size
      BY <3>2, FS_Subset
    <3>4. \A R \in SUBSET (1 .. Size) : Cardinality(R) \in Nat
      BY <3>3, FS_CardinalityType
    <3>5. QED
      BY <1>1, <3>1, <3>3, <3>4
  <2>2. \A k \in 0 .. Size : free[k] \in SUBSET positive
    <3> DEFINE U == {k \in 0 .. Size : free[k] \in SUBSET positive}
    <3>1. 0 \in U /\ \A k \in 1 .. Size : k - 1 \in U => k \in U
      BY <1>1, <1>6, <1>10
    <3> HIDE DEF U
    <3>2. \A k \in 0 .. Size : k \in U
      BY <1>1, <3>1, Induct
    <3>3. QED
      BY <3>2 DEF U
  <2>3. 0 \in T
    <3>1. Cardinality(free[0]) \in 0 .. Size
      BY <1>1, <2>1, <2>2
    <3>2. QED
      BY <1>1, <3>1
  <2>4. ASSUME NEW k \in 1 .. Size, k - 1 \in T
        PROVE  k \in T
    <3> DEFINE R == free[k - 1]
               N == Uncapped(R)
    <3>1. free[k] = N /\ k - 1 \in 0 .. Size /\ k \in 0 .. Size
      BY <1>1, <1>10
    <3>2. R \in SUBSET positive /\ N \in SUBSET R /\ N \in SUBSET positive
      BY <1>6, <2>2, <3>1
    <3>3. Stable(R) \/ Cardinality(R) <= Size - (k - 1)
      BY <2>4
    <3> HIDE DEF R, N, positive
    <3>4. CASE Stable(R)
      <4>1. free[k] = R
        BY <3>1, <3>4 DEF N
      <4>2. QED
        BY <3>1, <3>4, <4>1
    <3>5. CASE N = R
      <4>1. Stable(R)
        BY <3>5 DEF N
      <4>2. free[k] = R
        BY <3>1, <3>5
      <4>3. QED
        BY <3>1, <4>1, <4>2
    <3>6. CASE ~ Stable(R) /\ N # R
      <4>1. /\ IsFiniteSet(R) /\ Cardinality(R) \in 0 .. Size
            /\ Cardinality(N) \in 0 .. Size
        BY <2>1, <3>2
      <4>2. Cardinality(N) <= Cardinality(R) /\ Cardinality(R) # Cardinality(N)
        BY <3>2, <3>6, <4>1, FS_Subset
      <4>3. Cardinality(R) <= Size - (k - 1)
        BY <3>3, <3>6
      <4>4. Cardinality(N) <= Size - k
        BY <1>1, <4>1, <4>2, <4>3
      <4>5. QED
        BY <3>1, <4>4
    <3>7. QED
      BY <3>4, <3>5, <3>6
  <2> HIDE DEF T
  <2>5. \A k \in 0 .. Size : k \in T
    BY <1>1, <2>3, <2>4, Induct
  <2>6. Stable(rest) \/ Cardinality(rest) <= Size - Size
    BY <1>1, <2>5 DEF T
  <2>7. CASE Cardinality(rest) <= Size - Size
    <3>1. IsFiniteSet(rest) /\ Cardinality(rest) \in 0 .. Size
      BY <1>11, <2>1
    <3>2. Cardinality(rest) = 0
      BY <1>1, <2>7, <3>1
    <3>3. rest = {}
      BY <3>1, <3>2, FS_EmptySet
    <3> HIDE DEF rest
    <3>4. QED
      BY <1>6, <3>3
  <2>8. QED
    BY <2>6, <2>7
<1> HIDE DEF rest
<1>24. \A i \in rest : last[i] <= cfg.maxWeight
  <2> TAKE i \in rest
  <2>1. CASE Left(rest) <= 0
    <3>1. i \in Instruments
      BY <1>11
    <3>2. QED
      BY <2>1, <3>1
  <2>2. CASE ~ (Left(rest) <= 0)
    <3>1. i \in Uncapped(rest)
      BY <1>23
    <3>2. Scaled(rest)[i] < cfg.maxWeight
      BY <2>2, <3>1 DEF Uncapped
    <3>3. last[i] = Scaled(rest)[i]
      BY <2>2
    <3>4. Scaled(rest)[i] \in Nat
      <4>1. Scaled(rest) \in Amounts /\ i \in Instruments
        BY <1>5, <1>11
      <4>2. QED
        BY <4>1 DEF Amounts
    <3>5. QED
      BY <3>2, <3>3, <3>4
  <2>3. QED
    BY <2>1, <2>2
<1>12. last \in Amounts /\ Total(last) <= Left(rest)
  <2>1. CASE Left(rest) <= 0
    <3>1. last = [i \in Instruments |-> 0 * full[i]]
      BY <1>1, <2>1 DEF Amounts
    <3>2. full \in Values
      BY <1>1, AmountsAreValues
    <3>3. Total(last) = 0 * Total(full) /\ Total(full) \in Int
      BY <3>1, <3>2, SumScaled, SumInt
    <3>4. last \in Amounts
      BY <2>1 DEF Amounts
    <3>5. QED
      BY <1>4, <1>11, <3>3, <3>4
  <2>2. CASE ~ (Left(rest) <= 0)
    BY <1>5, <1>11, <2>2
  <2>3. QED
    BY <2>1, <2>2
<1>13. \A i \in Instruments \ rest : last[i] = 0
  <2> TAKE i \in Instruments \ rest
  <2>1. CASE Left(rest) <= 0
    BY <2>1
  <2>2. CASE ~ (Left(rest) <= 0)
    <3>1. last = Shared(Left(rest), Only(rest, w)) /\ Only(rest, w)[i] = 0
      BY <2>2 DEF Scaled, Only
    <3>2. Only(rest, w) \in Amounts /\ Left(rest) \in Int
      BY <1>3, <1>4
    <3>3. Total(Only(rest, w)) \in Nat
      BY <3>2, SumNat
    <3> DEFINE sum == Total(Only(rest, w))
               left == Left(rest)
    <3>4. last[i] = IF sum = 0 THEN 0 ELSE (left * 0) \div sum
      BY <3>1 DEF Shared
    <3>5. sum \in Nat /\ left \in Int
      BY <3>2, <3>3
    <3> HIDE DEF sum, left, last
    <3>6. left * 0 = 0
      BY <3>5
    <3>7. sum # 0 => 0 \div sum = 0
      BY <3>5
    <3>8. QED
      BY <3>4, <3>6, <3>7
  <2>3. QED
    BY <2>1, <2>2
<1> DEFINE capped == [i \in Instruments |->
                        IF i \in positive \ rest THEN cfg.maxWeight ELSE last[i]]
           atMost == Only(positive \ rest, full)
<1>14. Capped(w) = capped
  BY DEF Capped, rest, last, free, Left, Scaled, Uncapped, full, total
<1> HIDE DEF last
<1>15. capped \in Amounts
  BY <1>12 DEF Amounts
<1>16. atMost \in Amounts
  BY <1>3
<1>17. \A i \in Instruments : capped[i] = atMost[i] + last[i]
  <2> TAKE i \in Instruments
  <2>1. last[i] \in Nat
    BY <1>12 DEF Amounts
  <2>2. CASE i \in positive \ rest
    <3>1. last[i] = 0
      BY <1>13, <2>2
    <3>2. QED
      BY <2>2, <3>1 DEF Only, full
  <2>3. CASE i \notin positive \ rest
    BY <2>1, <2>3 DEF Only
  <2>4. QED
    BY <2>2, <2>3
<1>25. \A i \in Instruments : capped[i] <= cfg.maxWeight
  <2> TAKE i \in Instruments
  <2>1. CASE i \in positive \ rest
    BY <2>1
  <2>2. CASE i \notin positive \ rest
    <3>1. capped[i] = last[i]
      BY <2>2
    <3>2. last[i] <= cfg.maxWeight
      <4>1. i \notin rest => last[i] = 0
        BY <1>13
      <4>2. QED
        BY <1>24, <4>1
    <3>3. QED
      BY <3>1, <3>2
  <2>3. QED
    BY <2>1, <2>2
<1> HIDE DEF capped, atMost
<1>18. Total(capped) = Total(atMost) + Total(last)
  BY <1>12, <1>15, <1>16, <1>17, SumOfSums, AmountsAreValues
<1>19. Left(rest) = total - Total(atMost)
  BY DEF Left, atMost
<1>20. Total(atMost) \in Nat /\ Total(last) \in Nat /\ Total(w) \in Nat
  BY <1>12, <1>16, SumNat
<1>21. Total(capped) <= Total(w)
  BY <1>2, <1>12, <1>18, <1>19, <1>20
<1>22. \A i \in Instruments : capped[i] <= cfg.maxWeight
  BY <1>25
<1>26. QED
  BY <1>14, <1>15, <1>21, <1>22

-----------------------------------------------------------------------------
(* Exposure, value and targets.                                             *)

Prices == [Instruments -> ValidBar \union {NoBar}]

\* What the account keeps; that no position is short is shown, not assumed.
Books == [cash : Int, pos : Values, cost : Values, held : Values, realized : Int]

\* A bar's prices are amounts, positive unless there is no bar.
LEMMA BarParts ==
  ASSUME NEW prices \in Prices, NEW i \in Instruments
  PROVE  /\ prices[i].open \in Nat /\ prices[i].close \in Nat /\ prices[i].volume \in Nat
         /\ prices[i] # NoBar => prices[i].open > 0
         /\ prices[i] = NoBar => prices[i].open = 0 /\ prices[i].volume = 0
BY DEF Prices, ValidBar, NoBar

\* The exposure is a percentage, below the reduced one in a drawdown.
LEMMA ExposureFits ==
  ASSUME cfg \in Config, NEW n, NEW p, NEW active \in BOOLEAN, NEW scale \in {50, 100}
  PROVE  /\ Exposure(n, p, active, scale) \in 0 .. 100
         /\ Deep(n, p) /\ cfg.ddExposure > 0 => Exposure(n, p, active, scale) <= cfg.ddExposure
<1> DEFINE drawn == IF Deep(n, p) /\ cfg.ddExposure > 0 THEN Min({cfg.exposure, cfg.ddExposure})
                    ELSE cfg.exposure
           calm  == IF active THEN Min({drawn, cfg.regimeExposure}) ELSE drawn
           room  == Max({0, 100 - cfg.cashBuffer})
           limit == Min({room, 100})
           least == Min({calm, limit})
           most  == Max({0, least})
<1>1. /\ cfg.exposure \in Int /\ cfg.ddExposure \in Int /\ cfg.regimeExposure \in Int
      /\ cfg.cashBuffer \in Int
  BY DEF Config
<1>2. /\ Min({cfg.exposure, cfg.ddExposure}) \in Int
      /\ Min({cfg.exposure, cfg.ddExposure}) <= cfg.ddExposure
  <2> DEFINE x == cfg.exposure
             y == cfg.ddExposure
  <2>1. x \in Int /\ y \in Int
    BY <1>1
  <2> HIDE DEF x, y
  <2>2. Min({x, y}) \in {x, y} /\ Min({x, y}) <= x /\ Min({x, y}) <= y
    BY <2>1, MinTwo
  <2>3. QED
    BY <2>1, <2>2 DEF x, y
<1>3. drawn \in Int /\ (Deep(n, p) /\ cfg.ddExposure > 0 => drawn <= cfg.ddExposure)
  BY <1>1, <1>2
<1> HIDE DEF drawn
<1>4. /\ Min({drawn, cfg.regimeExposure}) \in Int
      /\ Min({drawn, cfg.regimeExposure}) <= drawn
  BY <1>1, <1>3, MinTwo
<1>5. calm \in Int /\ calm <= drawn
  BY <1>3, <1>4
<1> HIDE DEF calm
<1>6. room \in Int
  <2> DEFINE y == 100 - cfg.cashBuffer
  <2>1. y \in Int /\ 0 \in Int
    BY <1>1
  <2> HIDE DEF y
  <2>2. Max({0, y}) \in {0, y}
    BY <2>1, MaxTwo
  <2>3. QED
    BY <2>1, <2>2 DEF y
<1> HIDE DEF room
<1>7. limit \in Int /\ limit <= 100
  <2>1. 100 \in Int
    OBVIOUS
  <2>2. Min({room, 100}) \in {room, 100} /\ Min({room, 100}) <= 100
    BY <1>6, <2>1, MinTwo, ZenonT(60)
  <2>3. QED
    BY <1>6, <2>1, <2>2
<1> HIDE DEF limit
<1>8. least \in Int /\ least <= calm /\ least <= limit
  BY <1>5, <1>7, MinTwo
<1> HIDE DEF least
<1>9. most \in {0, least} /\ most >= 0
  BY <1>8, MaxTwo
<1> HIDE DEF most
<1>10. Exposure(n, p, active, scale) = (most * scale) \div 100
  BY DEF Exposure, most, least, limit, room, calm, drawn
<1>11. most \in 0 .. 100
  BY <1>7, <1>8, <1>9
<1>12. (most * scale) \div 100 \in 0 .. 100 /\ (most * scale) \div 100 <= most
  BY <1>11
<1>13. Deep(n, p) /\ cfg.ddExposure > 0 => most <= cfg.ddExposure
  BY <1>1, <1>3, <1>5, <1>8, <1>9
<1>14. QED
  BY <1>1, <1>10, <1>11, <1>12, <1>13

\* The account's value is a number.
LEMMA NavInt ==
  ASSUME NEW b \in Books, NEW prices \in Prices
  PROVE  Nav(b, prices) \in Int
<1> DEFINE worth == [i \in Instruments |-> b.pos[i] * prices[i].close]
<1>1. \A i \in Instruments : b.pos[i] \in Int /\ prices[i].close \in Int
  BY BarParts DEF Books, Values
<1>2. worth \in Values
  BY <1>1 DEF Values
<1>3. b.cash \in Int
  BY DEF Books
<1> HIDE DEF worth
<1>4. Total(worth) \in Int
  BY <1>2, SumInt
<1>5. QED
  BY <1>3, <1>4 DEF Nav, worth

\* What a target may cost: its weight of the investable value.
LEMMA TargetFits ==
  ASSUME cfg \in Config, NEW b \in Books, b.pos \in Amounts, NEW capped \in Amounts,
         NEW prices \in Prices, NEW vols \in Amounts, NEW exposure \in 0 .. 100,
         Nav(b, prices) > 0
  PROVE  LET target == Target(b, capped, prices, vols, exposure)
         IN  /\ target \in Amounts
             /\ \A i \in Instruments :
                  100 * Weight * (target[i] * prices[i].open)
                    <= (Nav(b, prices) * exposure) * capped[i]
<1> DEFINE target == Target(b, capped, prices, vols, exposure)
           investable == Nav(b, prices) * exposure
<1>1. investable \in Nat
  BY NavInt, ProductNat
<1> HIDE DEF investable
<1>2. ASSUME NEW i \in Instruments
      PROVE  /\ target[i] \in Nat
             /\ 100 * Weight * (target[i] * prices[i].open) <= investable * capped[i]
  <2> DEFINE open == prices[i].open
             product == investable * capped[i]
             adv == (vols[i] * cfg.advRate) \div 100
             wanted == product \div (100 * Weight * open)
  <2>1. capped[i] \in Nat /\ vols[i] \in Nat /\ b.pos[i] \in Nat /\ cfg.advRate \in Nat
    BY DEF Amounts, Config
  <2>2. product \in Nat /\ adv \in Nat
    <3>1. vols[i] * cfg.advRate \in Nat /\ product \in Nat
      BY <1>1, <2>1, ProductNat
    <3>2. QED
      BY <3>1, QuotientBound
  <2> HIDE DEF product, adv
  <2>3. CASE prices[i] = NoBar
    <3>1. target[i] = b.pos[i] /\ open = 0
      BY <2>3, BarParts DEF Target
    <3>2. target[i] \in Nat /\ 100 * Weight * (target[i] * open) = 0
      BY <2>1, <3>1 DEF Weight
    <3>3. QED
      BY <2>2, <3>2 DEF product
  <2>4. CASE prices[i] # NoBar
    <3>1. open \in Nat \ {0} /\ 100 * Weight * open \in Nat \ {0}
      BY <2>4, BarParts DEF Weight
    <3>2. target[i] = Min({wanted, adv})
      BY <2>4 DEF Target, product, adv, investable
    <3> HIDE DEF open, target
    <3>3. wanted \in Nat /\ (100 * Weight * open) * wanted <= product
      BY <2>2, <3>1, QuotientBound
    <3> HIDE DEF wanted
    <3>4. target[i] \in Nat /\ target[i] <= wanted
      <4>1. wanted \in Int /\ adv \in Int
        BY <2>2, <3>3
      <4>2. Min({wanted, adv}) \in {wanted, adv} /\ Min({wanted, adv}) <= wanted
        BY <4>1, MinTwo
      <4>3. QED
        BY <2>2, <3>2, <3>3, <4>2
    <3>5. 100 * Weight * (target[i] * open) <= product
      <4> DEFINE t == target[i]
      <4>1. t \in Nat /\ t <= wanted /\ wanted \in Nat /\ open \in Nat /\ product \in Nat
        BY <2>2, <3>1, <3>3, <3>4
      <4>2. 6000 * open * wanted <= product /\ Weight = 60
        BY <3>3 DEF Weight
      <4> HIDE DEF t
      <4>3. 6000 * open * t <= 6000 * open * wanted
        BY <4>1
      <4>4. 6000 * (t * open) = 6000 * open * t
        BY <4>1
      <4>5. 6000 * (t * open) <= product
        BY <4>1, <4>2, <4>3, <4>4
      <4>6. QED
        BY <4>2, <4>5 DEF t
    <3>6. QED
      BY <3>4, <3>5 DEF product, open
  <2>5. QED
    BY <2>3, <2>4
<1>3. target \in Amounts
  BY <1>2 DEF Target, Amounts
<1>4. QED
  BY <1>2, <1>3 DEF investable

\* The targets together cost no more than the exposure at the day's open.
LEMMA TargetsCost ==
  ASSUME cfg \in Config, NEW b \in Books, b.pos \in Amounts, NEW capped \in Amounts,
         Total(capped) <= Weight,
         NEW prices \in Prices, NEW vols \in Amounts, NEW exposure \in 0 .. 100,
         Nav(b, prices) > 0
  PROVE  LET target == Target(b, capped, prices, vols, exposure)
         IN  100 * Total([i \in Instruments |-> target[i] * prices[i].open])
               <= Nav(b, prices) * exposure
<1> DEFINE target == Target(b, capped, prices, vols, exposure)
           investable == Nav(b, prices) * exposure
           cost == [i \in Instruments |-> target[i] * prices[i].open]
           scaled == [i \in Instruments |-> 6000 * cost[i]]
           allowed == [i \in Instruments |-> investable * capped[i]]
<1>1. investable \in Nat
  BY NavInt, ProductNat
<1>2. /\ target \in Amounts
      /\ \A i \in Instruments :
           100 * Weight * (target[i] * prices[i].open) <= investable * capped[i]
  BY TargetFits
<1> HIDE DEF investable, target
<1>3. \A i \in Instruments : cost[i] \in Nat
  <2> TAKE i \in Instruments
  <2>1. target[i] \in Nat /\ prices[i].open \in Nat
    BY <1>2, BarParts DEF Amounts
  <2>2. QED
    BY <2>1, ProductNat
<1>4. cost \in Amounts /\ cost \in Values
  BY <1>3 DEF Amounts, Values
<1>5. scaled \in Values
  BY <1>3 DEF Values
<1>6. allowed \in Values
  <2>1. \A i \in Instruments : investable * capped[i] \in Nat
    <3> TAKE i \in Instruments
    <3>1. capped[i] \in Nat
      BY DEF Amounts
    <3>2. QED
      BY <1>1, <3>1, ProductNat
  <2>2. QED
    BY <2>1 DEF Values
<1>7. \A i \in Instruments : scaled[i] <= allowed[i]
  <2> TAKE i \in Instruments
  <2>1. 100 * Weight * cost[i] <= investable * capped[i]
    BY <1>2
  <2>2. 100 * Weight = 6000
    BY DEF Weight
  <2>3. QED
    BY <2>1, <2>2
<1>8. Total(scaled) = 6000 * Total(cost)
  <2> HIDE DEF cost
  <2>1. QED
    BY <1>4, SumScaled
<1>9. Total(allowed) = investable * Total(capped)
  <2>1. capped \in Values
    BY AmountsAreValues
  <2>2. QED
    BY <1>1, <2>1, SumScaled
<1>10. Total(scaled) <= Total(allowed)
  <2> HIDE DEF scaled, allowed
  <2>1. QED
    BY <1>5, <1>6, <1>7, SumMonotone
<1>11. Total(cost) \in Nat /\ Total(capped) \in Nat
  BY <1>4, SumNat
<1> DEFINE c == Total(cost)
           t == Total(capped)
<1>12. 6000 * c <= investable * t /\ t <= 60 /\ c \in Nat /\ t \in Nat
  BY <1>8, <1>9, <1>10, <1>11 DEF Weight
<1> HIDE DEF c, t
<1>13. investable * t <= investable * 60
  BY <1>1, <1>12
<1>14. 60 * (100 * c) <= investable * 60
  <2> DEFINE m == investable * t
             top == investable * 60
  <2>1. m \in Nat /\ top \in Nat
    BY <1>1, <1>12, ProductNat
  <2> HIDE DEF m, top
  <2>2. 6000 * c <= m /\ m <= top
    BY <1>12, <1>13 DEF m, top
  <2>3. 60 * (100 * c) <= top
    BY <1>12, <2>1, <2>2
  <2>4. QED
    BY <2>3 DEF top
<1>15. 100 * c <= investable
  <2>1. 60 \in Nat \ {0} /\ 100 * c \in Int /\ investable \in Int
    BY <1>1, <1>12
  <2>2. QED
    BY <1>14, <2>1, Cancels
<1>16. QED
  BY <1>15 DEF c, cost, investable, target

-----------------------------------------------------------------------------
(* Orders.                                                                  *)

Order == [name : Instruments, side : {"BUY", "SELL"}, qty : Nat]

\* What orders cost together at the day's opens.
Spent(orders, prices) ==
  Total([k \in 1 .. Len(orders) |-> orders[k].qty * prices[orders[k].name].open])

\* The buys of a day (_apply_turnover_budget) are of no more than was wanted, and
\* at the day's opens they cost together no more than the budget.
THEOREM BuysFitBudget ==
  ASSUME NEW n \in Nat, NEW buys \in [1 .. n -> Instruments], NEW quantity \in Amounts,
         NEW prices \in Prices, NEW budget \in Int,
         \A k \in 1 .. n : prices[buys[k]] # NoBar
  PROVE  LET orders == WithinBudget(buys, quantity, prices, budget)
         IN  /\ orders \in [1 .. n -> Order]
             /\ \A k \in 1 .. n : /\ orders[k].name = buys[k]
                                  /\ orders[k].side = "BUY"
                                  /\ orders[k].qty <= quantity[buys[k]]
             /\ budget >= 0 => Spent(orders, prices) <= budget
<1> DEFINE Room(a, i) == (budget - a.spent) \div prices[i].open
           Spend(a, i) ==
             LET q == IF a.full \/ Room(a, i) <= 0 THEN 0
                      ELSE Min({quantity[i], Room(a, i)})
             IN [qty |-> q, spent |-> a.spent + q * prices[i].open,
                 full |-> a.full \/ (q > 0 /\ q < quantity[i])]
           State == [qty : Nat, spent : Int, full : BOOLEAN]
           start == [qty |-> 0, spent |-> 0, full |-> FALSE]
           IsAcc(f) == f = [k \in 0 .. Len(buys) |->
                              IF k = 0 THEN start ELSE Spend(f[k - 1], buys[k])]
           acc == CHOOSE f : IsAcc(f)
           g == [k \in 1 .. n |-> [z \in State |-> Spend(z, buys[k])]]
<1>1. Len(buys) = n /\ start \in State
  OBVIOUS
<1>2. ASSUME NEW k \in 1 .. n, NEW z \in State
      PROVE  LET next == Spend(z, buys[k])
             IN  /\ next \in State /\ next.qty <= quantity[buys[k]]
                 /\ next.spent = z.spent + next.qty * prices[buys[k]].open
                 /\ z.spent <= budget => next.spent <= budget
  <2> DEFINE i == buys[k]
             open == prices[i].open
             room == Room(z, i)
             q == IF z.full \/ room <= 0 THEN 0 ELSE Min({quantity[i], room})
  <2>1. i \in Instruments /\ quantity[i] \in Nat
    BY DEF Amounts
  <2>2. open \in Nat \ {0}
    <3>1. prices[i] # NoBar
      OBVIOUS
    <3>2. QED
      BY <2>1, <3>1, BarParts
  <2>3. z.spent \in Int /\ z.full \in BOOLEAN
    OBVIOUS
  <2>4. room \in Int
    <3> HIDE DEF open
    <3>1. budget - z.spent \in Int
      BY <2>3
    <3>2. (budget - z.spent) \div open \in Int
      BY <2>2, <3>1, QuotientBound
    <3>3. QED
      BY <3>2 DEF open
  <2>10. open * room <= budget - z.spent
    <3> HIDE DEF open
    <3>1. budget - z.spent \in Int
      BY <2>3
    <3>2. open * ((budget - z.spent) \div open) <= budget - z.spent
      BY <2>2, <3>1, QuotientBound
    <3>3. QED
      BY <3>2 DEF open
  <2>5. Spend(z, i) = [qty |-> q, spent |-> z.spent + q * open,
                       full |-> z.full \/ (q > 0 /\ q < quantity[i])]
    OBVIOUS
  <2> HIDE DEF room, open, Spend
  <2>6. q \in Nat /\ q <= quantity[i] /\ (q = 0 \/ q <= room)
    <3>1. CASE z.full \/ room <= 0
      BY <2>1, <3>1
    <3>2. CASE ~ (z.full \/ room <= 0)
      <4> DEFINE amount == quantity[i]
      <4>1. amount \in Int /\ amount \in Nat
        BY <2>1
      <4> HIDE DEF amount
      <4>2. /\ Min({amount, room}) \in {amount, room}
            /\ Min({amount, room}) <= amount /\ Min({amount, room}) <= room
        BY <2>4, <4>1, MinTwo
      <4>3. q = Min({amount, room}) /\ room > 0
        BY <2>4, <3>2 DEF amount
      <4> HIDE DEF q
      <4>4. QED
        BY <2>4, <4>1, <4>2, <4>3 DEF amount
    <3>3. QED
      BY <3>1, <3>2
  <2> HIDE DEF q
  <2>7. z.spent + q * open \in Int
    BY <2>2, <2>3, <2>6
  <2>8. (z.full \/ (q > 0 /\ q < quantity[i])) \in BOOLEAN
    BY <2>3
  <2>11. z.spent <= budget => z.spent + q * open <= budget
    <3> DEFINE spent == z.spent
    <3>1. /\ spent \in Int /\ open \in Nat \ {0} /\ room \in Int /\ q \in Nat
          /\ open * room <= budget - spent /\ (q = 0 \/ q <= room)
      BY <2>2, <2>3, <2>4, <2>6, <2>10
    <3> HIDE DEF spent
    <3>2. q = 0 => q * open = 0
      BY <3>1
    <3>3. q <= room => q * open <= open * room
      BY <3>1
    <3>4. q * open \in Int /\ open * room \in Int
      BY <3>1
    <3>5. spent <= budget => spent + q * open <= budget
      BY <3>1, <3>2, <3>3, <3>4
    <3>6. QED
      BY <3>5 DEF spent
  <2>9. QED
    BY <2>5, <2>6, <2>7, <2>8, <2>11 DEF open
<1> HIDE DEF Spend
<1>13. \A k \in 1 .. n : \A z \in State : Spend(z, buys[k]) \in State
  BY <1>2
<1>3. PICK r \in [0 .. n -> State] : r[0] = start /\ \A k \in 1 .. n : r[k] = g[k][r[k - 1]]
  <2>1. StaysIn(State, n, g)
    BY <1>13 DEF StaysIn
  <2> HIDE DEF g, State, start
  <2>2. Runs(State, start, n, g) # {}
    BY <1>1, <2>1, RunsExist
  <2>3. PICK r \in Runs(State, start, n, g) : TRUE
    BY <2>2
  <2>4. QED
    BY <2>3 DEF Runs
<1> HIDE DEF State, start
<1>4. \A k \in 1 .. n : r[k] = Spend(r[k - 1], buys[k])
  <2> TAKE k \in 1 .. n
  <2>1. r[k - 1] \in State
    BY <1>3
  <2>2. QED
    BY <1>3, <2>1 DEF g
<1>5. IsAcc(r)
  BY <1>1, <1>3, <1>4
<1>6. IsAcc(acc)
  BY <1>5
<1> HIDE DEF acc
<1>7. acc[0] = start /\ \A k \in 1 .. n : acc[k] = Spend(acc[k - 1], buys[k])
  BY <1>1, <1>6
<1> DEFINE T == {k \in 0 .. n : acc[k] \in State}
<1>8. \A k \in 0 .. n : acc[k] \in State
  <2>1. 0 \in T
    BY <1>1, <1>7
  <2>2. \A k \in 1 .. n : k - 1 \in T => k \in T
    BY <1>13, <1>7
  <2> HIDE DEF T
  <2>3. \A k \in 0 .. n : k \in T
    BY <2>1, <2>2, Induct
  <2>4. QED
    BY <2>3 DEF T
<1>9. \A k \in 1 .. n :
        /\ acc[k].qty \in Nat /\ acc[k].qty <= quantity[buys[k]]
        /\ acc[k].spent \in Int /\ acc[k - 1].spent \in Int
        /\ acc[k].spent = acc[k - 1].spent + acc[k].qty * prices[buys[k]].open
        /\ acc[k - 1].spent <= budget => acc[k].spent <= budget
  <2> TAKE k \in 1 .. n
  <2>1. acc[k - 1] \in State /\ acc[k] \in State
    BY <1>8
  <2>2. /\ acc[k].qty <= quantity[buys[k]]
        /\ acc[k].spent = acc[k - 1].spent + acc[k].qty * prices[buys[k]].open
        /\ acc[k - 1].spent <= budget => acc[k].spent <= budget
    BY <1>2, <1>7, <2>1
  <2>3. QED
    BY <2>1, <2>2 DEF State
<1> DEFINE orders == [k \in 1 .. Len(buys) |->
                        [name |-> buys[k], side |-> "BUY", qty |-> acc[k].qty]]
<1>10. WithinBudget(buys, quantity, prices, budget) = orders
  BY DEF WithinBudget, acc, Spend, start
<1>11. /\ orders \in [1 .. n -> Order]
       /\ \A k \in 1 .. n : /\ orders[k].name = buys[k]
                            /\ orders[k].side = "BUY"
                            /\ orders[k].qty <= quantity[buys[k]]
  <2>1. \A k \in 1 .. n : buys[k] \in Instruments
    OBVIOUS
  <2>2. QED
    BY <1>1, <1>9, <2>1 DEF Order
<1> DEFINE paid == [k \in 1 .. n |-> orders[k].qty * prices[orders[k].name].open]
<1>14. paid \in Seq(Int) /\ Len(paid) = n
       /\ \A k \in 1 .. n : paid[k] = acc[k].qty * prices[buys[k]].open
  <2>1. \A k \in 1 .. n : paid[k] = acc[k].qty * prices[buys[k]].open
    BY <1>1
  <2>2. \A k \in 1 .. n : paid[k] \in Int
    <3> TAKE k \in 1 .. n
    <3>1. acc[k].qty \in Int /\ prices[buys[k]].open \in Int
      BY <1>9, BarParts
    <3>2. QED
      BY <2>1, <3>1
  <2>3. paid \in [1 .. n -> Int]
    BY <2>2
  <2> HIDE DEF paid
  <2>4. QED
    BY <2>1, <2>3
<1>15. ASSUME budget >= 0
       PROVE  Total(paid) <= budget
  <2> HIDE DEF paid
  <2>1. PICK p \in [0 .. n -> Int] : /\ p[0] = 0 /\ \A k \in 1 .. n : p[k] = p[k - 1] + paid[k]
                                     /\ Total(paid) = p[n]
    BY <1>14, RunningSums
  <2> DEFINE U == {k \in 0 .. n : p[k] = acc[k].spent /\ acc[k].spent <= budget}
  <2>2. 0 \in U
    BY <1>7, <1>15, <2>1 DEF start
  <2>3. ASSUME NEW k \in 1 .. n, k - 1 \in U
        PROVE  k \in U
    <3>1. p[k] = p[k - 1] + paid[k] /\ p[k - 1] = acc[k - 1].spent /\ acc[k - 1].spent <= budget
      BY <2>1, <2>3
    <3>2. p[k] = acc[k].spent /\ acc[k].spent <= budget
      BY <1>9, <1>14, <3>1
    <3>3. QED
      BY <3>2
  <2> HIDE DEF U
  <2>4. \A k \in 0 .. n : k \in U
    BY <2>2, <2>3, Induct
  <2>5. n \in 0 .. n /\ n \in U
    BY <2>4
  <2>6. p[n] = acc[n].spent /\ acc[n].spent <= budget
    BY <2>5 DEF U
  <2>7. QED
    BY <2>1, <2>6
<1>16. Spent(orders, prices) = Total(paid)
  <2>1. Len(orders) = n
    BY <1>1
  <2> HIDE DEF orders
  <2>2. QED
    BY <2>1 DEF Spent
<1> HIDE DEF orders, paid
<1>12. QED
  BY <1>10, <1>11, <1>15, <1>16

Keyed(S, n, key) == \A c \in S : key[c] \in [1 .. n -> Int]

\* SortedLists, for keys that are known to be of one length.
LEMMA KeyedLists ==
  ASSUME NEW S \in SUBSET Nat, IsFiniteSet(S), NEW n \in Nat, NEW key, Keyed(S, n, key)
  PROVE  /\ Cardinality(S) \in Nat
         /\ Sorted(S, key) \in [1 .. Cardinality(S) -> S]
         /\ \A c \in S : \E k \in 1 .. Cardinality(S) : Sorted(S, key)[k] = c
         /\ \A i, j \in 1 .. Cardinality(S) :
              i < j => Before(key, Sorted(S, key)[i], Sorted(S, key)[j])
<1>1. \A c \in S : key[c] \in [1 .. n -> Int]
  BY DEF Keyed
<1>2. QED
  BY <1>1, SortedLists

\* By score every name is listed once.
LEMMA ByScoreLists ==
  ASSUME NEW S \in SUBSET Instruments, NEW scores \in Values
  PROVE  LET list == Sorted(S, ByScore(scores))
         IN  \E n \in Nat :
               /\ list \in [1 .. n -> S] /\ Len(list) = n
               /\ \A i \in S : \E k \in 1 .. n : list[k] = i
               /\ \A j, k \in 1 .. n : list[j] = list[k] => j = k
<1> DEFINE key == ByScore(scores)
           list == Sorted(S, key)
           n == Cardinality(S)
<1>1. S \in SUBSET Nat /\ IsFiniteSet(S)
  <2>1. Size \in Nat
    BY InputsAssumption
  <2>2. IsFiniteSet(1 .. Size)
    BY <2>1, PlacesFinite
  <2>3. IsFiniteSet(S)
    BY <2>2, FS_Subset DEF Instruments
  <2>4. QED
    BY <2>1, <2>3 DEF Instruments
<1>2. \A c \in S : key[c] \in [1 .. 1 -> Int]
  <2> TAKE c \in S
  <2>1. scores[c] \in Int
    BY DEF Values
  <2>2. key[c] = <<scores[c]>>
    BY DEF ByScore
  <2>3. <<scores[c]>> = [k \in 1 .. 1 |-> scores[c]]
    OBVIOUS
  <2>4. QED
    BY <2>1, <2>2, <2>3
<1> HIDE DEF key
<1>3. /\ n \in Nat /\ list \in [1 .. n -> S]
      /\ \A c \in S : \E k \in 1 .. n : list[k] = c
      /\ \A i, j \in 1 .. n : i < j => Before(key, list[i], list[j])
  <2>1. 1 \in Nat /\ Keyed(S, 1, key)
    BY <1>2 DEF Keyed
  <2>2. QED
    BY <1>1, <2>1, KeyedLists
<1>4. \A c \in S : ~ Before(key, c, c)
  <2> TAKE c \in S
  <2>1. key[c] \in [1 .. 1 -> Int] /\ c \in Nat
    BY <1>1, <1>2
  <2>2. ~ Above(key[c], key[c])
    BY <2>1 DEF Above
  <2>3. QED
    BY <2>1, <2>2 DEF Before
<1> HIDE DEF list, n
<1>5. \A j, k \in 1 .. n : list[j] = list[k] => j = k
  <2> TAKE j, k \in 1 .. n
  <2>1. j \in Int /\ k \in Int /\ list[j] \in S /\ list[k] \in S
    BY <1>3
  <2>2. j < k => list[j] # list[k]
    BY <1>3, <1>4, <2>1
  <2>3. k < j => list[j] # list[k]
    BY <1>3, <1>4, <2>1
  <2>4. QED
    BY <2>1, <2>2, <2>3
<1>6. Len(list) = n
  BY <1>3
<1>7. QED
  BY <1>3, <1>5, <1>6 DEF list, key

\* Deviations are numbers, so that names can be sorted by them.
LEMMA DeviationTyped ==
  ASSUME NEW b \in Books, NEW capped \in Amounts, NEW prices \in Prices
  PROVE  Deviation(b, capped, prices) \in Values
<1> DEFINE total == Nav(b, prices)
           deviation == Deviation(b, capped, prices)
<1>1. total \in Int
  BY NavInt
<1>2. ASSUME NEW i \in Instruments
      PROVE  deviation[i] \in Int
  <2> DEFINE d == capped[i] * total - Weight * b.pos[i] * prices[i].close
  <2>1. capped[i] \in Int /\ b.pos[i] \in Int /\ prices[i].close \in Int
    BY BarParts DEF Amounts, Books, Values
  <2>2. capped[i] * total \in Int
    BY <1>1, <2>1
  <2>3. Weight * b.pos[i] * prices[i].close \in Int
    BY <2>1 DEF Weight
  <2>4. d \in Int
    BY <2>2, <2>3
  <2>5. deviation[i] = Abs(d)
    BY DEF Deviation
  <2> HIDE DEF d
  <2>6. Abs(d) \in Int
    BY <2>4 DEF Abs
  <2>7. QED
    BY <2>5, <2>6
<1>3. QED
  BY <1>2 DEF Values, Deviation

\* What orders do: they sell what is above the target, down to it, and buy what
\* is below, not beyond it, each name once.
Trades(o, b, target) ==
  LET have == b.pos[o.name]
      goal == target[o.name]
  IN  \/ o.side = "SELL" /\ goal < have /\ o.qty = have - goal
      \/ o.side = "BUY" /\ have < goal /\ o.qty <= goal - have

Ordered(orders, b, target) ==
  /\ orders \in Seq(Order)
  /\ \A k \in 1 .. Len(orders) : Trades(orders[k], b, target)
  /\ \A j, k \in 1 .. Len(orders) : orders[j].name = orders[k].name => j = k

Apart(sells, buys) ==
  \A j \in 1 .. Len(sells), k \in 1 .. Len(buys) : sells[j].name # buys[k].name

Starts(orders, sells) ==
  \A k \in 1 .. Len(sells) : k \in 1 .. Len(orders) /\ orders[k] = sells[k]

\* Orders for some names and for others, one after the other.
LEMMA Joined ==
  ASSUME NEW b, NEW target, NEW sells, NEW buys,
         Ordered(sells, b, target), Ordered(buys, b, target), Apart(sells, buys)
  PROVE  Ordered(sells \o buys, b, target) /\ Starts(sells \o buys, sells)
<1> DEFINE orders == sells \o buys
           m == Len(sells)
           n == Len(buys)
<1>0. /\ sells \in Seq(Order) /\ buys \in Seq(Order)
      /\ \A k \in 1 .. m : Trades(sells[k], b, target)
      /\ \A k \in 1 .. n : Trades(buys[k], b, target)
      /\ \A j, k \in 1 .. m : sells[j].name = sells[k].name => j = k
      /\ \A j, k \in 1 .. n : buys[j].name = buys[k].name => j = k
      /\ \A j \in 1 .. m, k \in 1 .. n : sells[j].name # buys[k].name
  BY DEF Ordered, Apart
<1>1. m \in Nat /\ n \in Nat
  BY <1>0
<1>2. /\ orders \in Seq(Order) /\ Len(orders) = m + n
      /\ \A k \in 1 .. m + n : orders[k] = IF k <= m THEN sells[k] ELSE buys[k - m]
  BY <1>0
<1> HIDE DEF orders, m, n
<1>3. \A k \in 1 .. m + n : Trades(orders[k], b, target)
  <2> TAKE k \in 1 .. m + n
  <2>1. CASE k <= m
    <3>1. k \in 1 .. m /\ orders[k] = sells[k]
      BY <1>1, <1>2, <2>1
    <3>2. QED
      BY <1>0, <3>1
  <2>2. CASE ~ (k <= m)
    <3>1. k - m \in 1 .. n /\ orders[k] = buys[k - m]
      BY <1>1, <1>2, <2>2
    <3>2. QED
      BY <1>0, <3>1
  <2>3. QED
    BY <2>1, <2>2
<1>4. \A j, k \in 1 .. m + n : orders[j].name = orders[k].name => j = k
  <2> TAKE j, k \in 1 .. m + n
  <2>1. /\ orders[j] = IF j <= m THEN sells[j] ELSE buys[j - m]
        /\ orders[k] = IF k <= m THEN sells[k] ELSE buys[k - m]
    BY <1>1, <1>2
  <2>2. j \in Int /\ k \in Int
    BY <1>1
  <2>3. CASE j <= m /\ k <= m
    <3>1. j \in 1 .. m /\ k \in 1 .. m
      BY <1>1, <2>3
    <3>2. QED
      BY <1>0, <2>1, <2>3, <3>1
  <2>4. CASE j <= m /\ ~ (k <= m)
    <3>1. j \in 1 .. m /\ k - m \in 1 .. n
      BY <1>1, <2>4
    <3>2. QED
      BY <1>0, <2>1, <2>4, <3>1
  <2>5. CASE ~ (j <= m) /\ k <= m
    <3>1. j - m \in 1 .. n /\ k \in 1 .. m
      BY <1>1, <2>5
    <3>2. QED
      BY <1>0, <2>1, <2>5, <3>1
  <2>6. CASE ~ (j <= m) /\ ~ (k <= m)
    <3>1. j - m \in 1 .. n /\ k - m \in 1 .. n
      BY <1>1, <2>6
    <3>2. orders[j].name = orders[k].name => j - m = k - m
      BY <1>0, <2>1, <2>6, <3>1
    <3>3. QED
      BY <1>1, <2>2, <3>2
  <2>7. QED
    BY <1>1, <2>3, <2>4, <2>5, <2>6
<1>5. Ordered(orders, b, target)
  BY <1>2, <1>3, <1>4 DEF Ordered, orders
<1>6. \A k \in 1 .. m : k \in 1 .. Len(orders) /\ orders[k] = sells[k]
  <2> TAKE k \in 1 .. m
  <2>1. k \in 1 .. m + n /\ k <= m
    BY <1>1
  <2>2. QED
    BY <1>1, <1>2, <2>1
<1>7. QED
  BY <1>5, <1>6 DEF Starts, orders, m

Budget(b, capped, prices, exposure) ==
  (Nav(b, prices) * Turnover(b, capped, prices, exposure)) \div 100

\* The turnover allowed is never below the configured one.
LEMMA TurnoverInt ==
  ASSUME cfg \in Config, NEW b, NEW capped, NEW prices, NEW exposure
  PROVE  /\ Turnover(b, capped, prices, exposure) \in Int
         /\ Turnover(b, capped, prices, exposure) >= cfg.turnover
<1> DEFINE x == cfg.deploy
           y == cfg.turnover
<1>1. x \in Int /\ y \in Int
  BY DEF Config
<1>2. Max({x, y}) \in Int /\ Max({x, y}) >= y
  <2> HIDE DEF x, y
  <2>1. Max({x, y}) \in {x, y} /\ Max({x, y}) >= y
    BY <1>1, MaxTwo
  <2>2. QED
    BY <1>1, <2>1
<1>3. Turnover(b, capped, prices, exposure) \in {Max({x, y}), y}
  BY DEF Turnover
<1> HIDE DEF x, y
<1>4. QED
  BY <1>1, <1>2, <1>3 DEF y

\* Every name of R above its target is sold.
SellsDown(orders, b, target, R) ==
  \A i \in R : target[i] < b.pos[i] =>
    \E k \in 1 .. Len(orders) : orders[k].name = i /\ orders[k].side = "SELL"

Stuck(b, capped, prices, exposure) ==
  Nav(b, prices) <= 0 \/ Budget(b, capped, prices, exposure) <= 0

\* The orders of a day lead towards its targets, and when there is something to
\* spend they sell every name that is to be reduced.
LEMMA OrdersFit ==
  ASSUME cfg \in Config, NEW b \in Books, b.pos \in Amounts, NEW w \in Amounts,
         NEW prices \in Prices, NEW vols \in Amounts, NEW exposure \in 0 .. 100
  PROVE  LET capped == Capped(w)
             target == Target(b, capped, prices, vols, exposure)
             orders == RebalanceOrders(b, w, prices, vols, exposure)
         IN  /\ Ordered(orders, b, target)
             /\ Stuck(b, capped, prices, exposure) => orders = <<>>
             /\ ~ Stuck(b, capped, prices, exposure) =>
                  SellsDown(orders, b, target,
                            Moved(b, target, Deviation(b, capped, prices), prices))
<1> DEFINE capped == Capped(w)
           target == Target(b, capped, prices, vols, exposure)
           orders == RebalanceOrders(b, w, prices, vols, exposure)
           deviation == Deviation(b, capped, prices)
           quantity == [i \in Instruments |-> Abs(target[i] - b.pos[i])]
           moved == Moved(b, target, deviation, prices)
           down == {i \in moved : target[i] < b.pos[i]}
           up == {i \in moved : target[i] > b.pos[i]}
           sales == Sorted(down, ByScore(deviation))
           buys == Sorted(up, ByScore(deviation))
           budget == (Nav(b, prices) * Turnover(b, capped, prices, exposure)) \div 100
           nothing == Nav(b, prices) <= 0 \/ budget <= 0
           sells == [k \in 1 .. Len(sales) |->
                       [name |-> sales[k], side |-> "SELL", qty |-> quantity[sales[k]]]]
           bought == WithinBudget(buys, quantity, prices, budget)
<1>1. orders = IF nothing THEN <<>> ELSE sells \o bought
  BY DEF RebalanceOrders
<1>2. nothing = Stuck(b, capped, prices, exposure)
  BY DEF Budget, Stuck
<1>3. capped \in Amounts
  <2>1. cfg.maxWeight \in Nat
    BY DEF Config
  <2>2. QED
    BY <2>1, CapsHold
<1> HIDE DEF capped
<1>4. CASE nothing
  <2>1. orders = <<>>
    BY <1>1, <1>4
  <2>2. Ordered(<<>>, b, target)
    BY DEF Ordered
  <2>3. QED
    BY <1>2, <1>4, <2>1, <2>2 DEF capped
<1>5. CASE ~ nothing
  <2>1. Nav(b, prices) \in Int /\ Turnover(b, capped, prices, exposure) \in Int
    BY NavInt, TurnoverInt
  <2>2. budget \in Int
    BY <2>1
  <2>3. Nav(b, prices) > 0
    BY <1>5, <2>1
  <2>4. target \in Amounts
    BY <1>3, <2>3, TargetFits
  <2>5. deviation \in Values
    BY <1>3, DeviationTyped
  <2>6. moved \in SUBSET Instruments /\ down \in SUBSET Instruments /\ up \in SUBSET Instruments
    BY DEF Moved
  <2>7. \A i \in Instruments : prices[i] = NoBar => target[i] = b.pos[i]
    BY DEF Target
  <2> HIDE DEF budget, target, deviation, moved
  <2>8. PICK m \in Nat : /\ sales \in [1 .. m -> down] /\ Len(sales) = m
                         /\ \A i \in down : \E k \in 1 .. m : sales[k] = i
                         /\ \A j, k \in 1 .. m : sales[j] = sales[k] => j = k
    <3> HIDE DEF down
    <3>1. QED
      BY <2>5, <2>6, ByScoreLists, ZenonT(60)
  <2>9. PICK n \in Nat : /\ buys \in [1 .. n -> up] /\ Len(buys) = n
                         /\ \A i \in up : \E k \in 1 .. n : buys[k] = i
                         /\ \A j, k \in 1 .. n : buys[j] = buys[k] => j = k
    <3> HIDE DEF up
    <3>1. QED
      BY <2>5, <2>6, ByScoreLists
  <2> HIDE DEF sales, buys
  <2>10. \A i \in Instruments : /\ target[i] \in Nat /\ b.pos[i] \in Nat
                                /\ quantity[i] = Abs(target[i] - b.pos[i])
    BY <2>4 DEF Amounts
  <2>11. quantity \in Amounts
    BY <2>10 DEF Amounts, Abs
  <2>12. \A i \in down : /\ i \in Instruments /\ target[i] < b.pos[i]
                         /\ quantity[i] = b.pos[i] - target[i]
    BY <2>6, <2>10 DEF Abs
  <2>13. \A i \in up : /\ i \in Instruments /\ b.pos[i] < target[i]
                       /\ quantity[i] = target[i] - b.pos[i]
    BY <2>6, <2>10 DEF Abs
  <2> HIDE DEF quantity, down, up
  <2>14. /\ sells \in [1 .. m -> Order]
         /\ \A k \in 1 .. m : /\ sells[k].side = "SELL" /\ sells[k].name = sales[k]
                              /\ Trades(sells[k], b, target)
    <3>1. \A k \in 1 .. m : sales[k] \in down /\ sales[k] \in Instruments
      BY <2>8, <2>12
    <3>2. \A k \in 1 .. m : quantity[sales[k]] \in Nat
      BY <2>11, <3>1 DEF Amounts
    <3>3. \A k \in 1 .. m : /\ target[sales[k]] < b.pos[sales[k]]
                            /\ quantity[sales[k]] = b.pos[sales[k]] - target[sales[k]]
      BY <2>12, <3>1
    <3>4. QED
      BY <2>8, <3>1, <3>2, <3>3 DEF Order, Trades
  <2>15. /\ bought \in [1 .. n -> Order]
         /\ \A k \in 1 .. n : /\ bought[k].side = "BUY" /\ bought[k].name = buys[k]
                              /\ Trades(bought[k], b, target)
    <3>1. \A k \in 1 .. n : buys[k] \in up /\ buys[k] \in Instruments
      BY <2>9, <2>13
    <3>2. \A k \in 1 .. n : b.pos[buys[k]] < target[buys[k]]
                            /\ quantity[buys[k]] = target[buys[k]] - b.pos[buys[k]]
      BY <2>13, <3>1
    <3>3. \A k \in 1 .. n : prices[buys[k]] # NoBar
      <4> TAKE k \in 1 .. n
      <4>1. target[buys[k]] # b.pos[buys[k]]
        BY <2>10, <3>1, <3>2
      <4>2. QED
        BY <2>7, <3>1, <4>1
    <3>4. buys \in [1 .. n -> Instruments]
      BY <2>9, <3>1
    <3>5. /\ bought \in [1 .. n -> Order]
          /\ \A k \in 1 .. n : /\ bought[k].name = buys[k]
                               /\ bought[k].side = "BUY"
                               /\ bought[k].qty <= quantity[buys[k]]
          /\ budget >= 0 => Spent(bought, prices) <= budget
      BY <2>2, <2>11, <3>3, <3>4, BuysFitBudget
    <3> HIDE DEF bought
    <3>6. QED
      BY <3>2, <3>5 DEF Trades
  <2>16. \A j \in 1 .. m, k \in 1 .. n : sells[j].name # bought[k].name
    <3> TAKE j \in 1 .. m, k \in 1 .. n
    <3>1. sales[j] \in down /\ buys[k] \in up
      BY <2>8, <2>9
    <3>2. sales[j] # buys[k]
      BY <2>10, <2>12, <2>13, <3>1
    <3>3. QED
      BY <2>14, <2>15, <3>2
  <2> HIDE DEF sells, bought
  <2>17. \A j, k \in 1 .. m : sells[j].name = sells[k].name => j = k
    BY <2>8, <2>14
  <2>18. \A j, k \in 1 .. n : bought[j].name = bought[k].name => j = k
    BY <2>9, <2>15
  <2>19. sells \in Seq(Order) /\ Len(sells) = m /\ bought \in Seq(Order) /\ Len(bought) = n
    BY <2>14, <2>15
  <2>20. Ordered(sells, b, target) /\ Ordered(bought, b, target) /\ Apart(sells, bought)
    BY <2>14, <2>15, <2>16, <2>17, <2>18, <2>19 DEF Ordered, Apart
  <2>23. Ordered(sells \o bought, b, target) /\ Starts(sells \o bought, sells)
    BY <2>20, Joined
  <2>24. orders = sells \o bought
    BY <1>1, <1>5
  <2> HIDE DEF orders
  <2>21. \A i \in moved : target[i] < b.pos[i] =>
           \E k \in 1 .. Len(orders) : orders[k].name = i /\ orders[k].side = "SELL"
    <3> TAKE i \in moved
    <3> HAVE target[i] < b.pos[i]
    <3>1. i \in down
      BY DEF down
    <3>2. PICK k \in 1 .. m : sales[k] = i
      BY <2>8, <3>1
    <3>3. k \in 1 .. Len(orders) /\ orders[k] = sells[k]
      BY <2>19, <2>23, <2>24 DEF Starts
    <3>4. QED
      BY <2>14, <3>2, <3>3
  <2>22. QED
    BY <1>2, <1>5, <2>21, <2>23, <2>24 DEF SellsDown, orders, moved, target, deviation, capped
<1>6. QED
  BY <1>4, <1>5

-----------------------------------------------------------------------------
(* Fills.                                                                   *)

Day == ValidBar \union {NoBar}

\* A fill is no more than the order; an order that can be filled is filled whole.
LEMMA FilledFits ==
  ASSUME cfg \in Config, NEW o \in Order, NEW bar \in Day
  PROVE  /\ Filled(o, bar) \in Nat /\ Filled(o, bar) <= o.qty
         /\ Filled(o, bar) # 0 => bar.volume * cfg.rate \in Nat \ {0}
         /\ \A q \in Nat : o.qty <= q /\ Sellable(bar, q) => Filled(o, bar) = o.qty
<1> DEFINE part == bar.volume * cfg.rate
           most == MaxFill(bar)
           q == Filled(o, bar)
<1>1. o.qty \in Nat /\ bar.volume \in Nat /\ cfg.rate \in Nat
  BY DEF Order, Day, ValidBar, NoBar, Config
<1>2. part \in Nat
  BY <1>1, ProductNat
<1>3. most = part \div 100
  BY DEF MaxFill
<1> HIDE DEF part, most
<1>4. most \in Nat /\ (most # 0 => part # 0)
  BY <1>2, <1>3
<1>5. q = IF most <= 0 THEN 0
          ELSE IF o.qty <= most THEN o.qty ELSE IF cfg.partial THEN most ELSE 0
  BY DEF Filled, most
<1> HIDE DEF q
<1>6. q \in Nat /\ q <= o.qty /\ (q # 0 => most # 0)
  BY <1>1, <1>4, <1>5
<1>7. ASSUME NEW r \in Nat, o.qty <= r, Sellable(bar, r)
      PROVE  q = o.qty
  <2>1. r > 0 => r <= most
    BY <1>7 DEF Sellable, most
  <2>2. QED
    BY <1>1, <1>4, <1>5, <1>7, <2>1
<1>8. QED
  BY <1>2, <1>4, <1>6, <1>7 DEF q, part

Free == cfg.spread = 0 /\ cfg.slip = 0 /\ cfg.commission = 0 /\ cfg.duty = 0

\* What is paid is a number; without costs it is the day's open.
LEMMA PriceFits ==
  ASSUME cfg \in Config, NEW o \in Order, NEW q \in Nat, NEW bar \in Day,
         bar.volume * cfg.rate \in Nat \ {0}
  PROVE  /\ FillPrice(o, q, bar) \in Int
         /\ Free => FillPrice(o, q, bar) = bar.open
<1> DEFINE part == bar.volume * cfg.rate
           charge == cfg.spread * part + cfg.slip * (part + 100 * q)
           extra == bar.open * charge
           adjustment == extra \div (100 * part)
<1>1. /\ bar.open \in Nat /\ part \in Nat \ {0}
      /\ cfg.spread \in Nat /\ cfg.slip \in Nat
  BY DEF Day, ValidBar, NoBar, Config
<1>2. FillPrice(o, q, bar) =
        IF o.side = "BUY" THEN bar.open + adjustment ELSE bar.open - adjustment
  BY DEF FillPrice
<1> HIDE DEF part
<1>3. charge \in Nat /\ (Free => charge = 0)
  <2>1. cfg.spread * part \in Nat /\ cfg.slip * (part + 100 * q) \in Nat
    BY <1>1, ProductNat
  <2>2. Free => cfg.spread * part = 0 /\ cfg.slip * (part + 100 * q) = 0
    BY <1>1 DEF Free
  <2>3. QED
    BY <2>1, <2>2
<1> HIDE DEF charge
<1>4. extra \in Nat /\ (Free => extra = 0)
  BY <1>1, <1>3, ProductNat
<1> HIDE DEF extra
<1> DEFINE whole == 100 * part
<1>5. whole \in Nat \ {0}
  BY <1>1
<1> HIDE DEF whole
<1>6. extra \div whole \in Int /\ (extra = 0 => extra \div whole = 0)
  BY <1>4, <1>5, QuotientBound
<1>7. adjustment \in Int /\ (Free => adjustment = 0)
  BY <1>4, <1>6 DEF whole
<1> HIDE DEF adjustment
<1>8. QED
  BY <1>1, <1>2, <1>7

\* Fees are numbers, and nothing without costs.
LEMMA FeesFit ==
  ASSUME cfg \in Config, NEW o \in Order, NEW notional \in Int
  PROVE  Fees(o, notional) \in Int /\ (Free => Fees(o, notional) = 0)
<1> DEFINE rate == cfg.commission + (IF o.side = "BUY" THEN cfg.duty ELSE 0)
           charge == notional * rate
<1>1. rate \in Int /\ (Free => rate = 0)
  BY DEF Config, Free
<1> HIDE DEF rate
<1>2. charge \in Int /\ (Free => charge = 0)
  BY <1>1
<1> HIDE DEF charge
<1>3. Fees(o, notional) = charge \div 100
  BY DEF Fees, charge, rate
<1>4. charge \div 100 \in Int /\ (charge = 0 => charge \div 100 = 0)
  BY <1>2
<1>5. QED
  BY <1>2, <1>3, <1>4

\* The value of the positions at the day's open.
AtOpen(b, prices) == [i \in Instruments |-> b.pos[i] * prices[i].open]

Balance(b) == b.cash + Total(b.cost) - b.realized

\* The position of an order's name moves by what is filled.
After(b, o, q) == IF o.side = "BUY" THEN b.pos[o.name] + q ELSE b.pos[o.name] - q

\* A fill keeps the books balanced and moves one position; without costs what
\* is paid or received is the value that moves.
LEMMA FillFits ==
  ASSUME cfg \in Config, NEW b \in Books, NEW o \in Order, NEW bar \in Day
  PROVE  LET a == ApplyFill(b, o, bar)
         IN  /\ a \in Books /\ Balance(a) = Balance(b)
             /\ a.pos[o.name] = After(b, o, Filled(o, bar))
             /\ \A i \in Instruments : i # o.name => a.pos[i] = b.pos[i]
             /\ Free => a.cash + a.pos[o.name] * bar.open = b.cash + b.pos[o.name] * bar.open
<1> DEFINE a == ApplyFill(b, o, bar)
           q == Filled(o, bar)
           price == FillPrice(o, q, bar)
           notional == q * price
           fees == Fees(o, notional)
           n == o.name
<1>1. /\ n \in Instruments /\ o.side \in {"BUY", "SELL"} /\ bar.open \in Int
      /\ b.cash \in Int /\ b.realized \in Int
      /\ b.pos \in Values /\ b.cost \in Values /\ b.held \in Values
  BY DEF Order, Day, ValidBar, NoBar, Books
<1>2. q \in Nat
  BY FilledFits
<1>3. \A i \in Instruments : b.pos[i] \in Int /\ b.cost[i] \in Int /\ b.held[i] \in Int
  BY <1>1 DEF Values
<1>4. CASE q = 0
  <2>1. a = b
    BY <1>4 DEF ApplyFill
  <2>2. After(b, o, q) = b.pos[n]
    BY <1>1, <1>3, <1>4 DEF After
  <2> HIDE DEF a, q
  <2>3. QED
    BY <2>1, <2>2 DEF a, q
<1>5. CASE q # 0
  <2>1. price \in Int /\ (Free => price = bar.open)
    <3>1. bar.volume * cfg.rate \in Nat \ {0}
      BY <1>5, FilledFits
    <3> HIDE DEF q
    <3>2. QED
      BY <1>2, <3>1, PriceFits
  <2>2. notional \in Int /\ (Free => notional = q * bar.open)
    <3> HIDE DEF q, price
    <3>1. QED
      BY <1>2, <2>1
  <2>3. fees \in Int /\ (Free => fees = 0)
    <3> HIDE DEF notional
    <3>1. QED
      BY <2>2, FeesFit
  <2> HIDE DEF q, notional, fees
  <2>4. CASE o.side = "BUY"
    <3>1. a = Buy(b, o, q, notional, fees)
      BY <1>5, <2>4 DEF ApplyFill, q, notional, fees
    <3> DEFINE pos == [b.pos EXCEPT ![n] = @ + q]
               cost == [b.cost EXCEPT ![n] = @ + notional + fees]
               held == [b.held EXCEPT ![n] = IF b.pos[n] = 0 THEN 0 ELSE @]
    <3>2. a = [cash |-> b.cash - notional - fees, pos |-> pos, cost |-> cost,
               held |-> held, realized |-> b.realized]
      BY <3>1 DEF Buy, Books
    <3>3. pos \in Values /\ cost \in Values /\ held \in Values
      BY <1>1, <1>2, <1>3, <2>2, <2>3 DEF Values
    <3>4. /\ pos[n] = b.pos[n] + q /\ \A i \in Instruments : i # n => pos[i] = b.pos[i]
          /\ cost[n] = b.cost[n] + notional + fees
          /\ \A i \in Instruments : i # n => cost[i] = b.cost[i]
      BY <1>1 DEF Values
    <3> HIDE DEF pos, cost, held, n
    <3>5. Total(cost) = Total(b.cost) + cost[n] - b.cost[n]
      BY <1>1, <3>3, <3>4, SumChange
    <3>6. Total(b.cost) \in Int /\ Total(cost) \in Int
      BY <1>1, <3>3, SumInt
    <3>7. a \in Books
      BY <1>1, <2>2, <2>3, <3>2, <3>3 DEF Books
    <3>8. Balance(a) = Balance(b)
      <4>1. a.cash = b.cash - notional - fees /\ a.cost = cost /\ a.realized = b.realized
        BY <3>2
      <4>2. b.cost[n] \in Int
        BY <1>1, <1>3
      <4>3. QED
        BY <1>1, <2>2, <2>3, <3>4, <3>5, <3>6, <4>1, <4>2 DEF Balance
    <3>9. a.pos[n] = After(b, o, q)
      BY <2>4, <3>2, <3>4 DEF After, n
    <3>10. Free => a.cash + a.pos[n] * bar.open = b.cash + b.pos[n] * bar.open
      <4> HAVE Free
      <4> DEFINE x == b.pos[n]
                 open == bar.open
      <4>1. a.cash = b.cash - q * open /\ a.pos[n] = x + q
        BY <1>1, <2>2, <2>3, <3>2, <3>4
      <4>2. x \in Int /\ open \in Int
        BY <1>1, <1>3
      <4> HIDE DEF x, open
      <4>3. (x + q) * open = x * open + q * open
        BY <1>2, <4>2
      <4>4. x * open \in Int /\ q * open \in Int
        BY <1>2, <4>2
      <4>5. QED
        BY <1>1, <4>1, <4>3, <4>4 DEF x, open
    <3>11. QED
      BY <3>2, <3>4, <3>7, <3>8, <3>9, <3>10 DEF q, n
  <2>5. CASE o.side = "SELL"
    <3> DEFINE sold == IF b.pos[n] <= 0 THEN 0 ELSE (b.cost[n] * q) \div b.pos[n]
    <3>1. a = Sell(b, o, q, notional, fees)
      BY <1>5, <2>5 DEF ApplyFill, q, notional, fees
    <3>2. sold \in Int
      <4>1. CASE b.pos[n] <= 0
        BY <4>1
      <4>2. CASE ~ (b.pos[n] <= 0)
        <5> DEFINE x == b.pos[n]
                   y == b.cost[n] * q
        <5>1. x \in Nat \ {0} /\ y \in Int
          BY <1>1, <1>2, <1>3, <4>2
        <5> HIDE DEF x, y
        <5>2. y \div x \in Int
          BY <5>1, QuotientBound
        <5>3. QED
          BY <4>2, <5>2 DEF x, y
      <4>3. QED
        BY <4>1, <4>2
    <3> DEFINE pos == [b.pos EXCEPT ![n] = @ - q]
               cost == [b.cost EXCEPT ![n] = @ - sold]
               held == [b.held EXCEPT ![n] = IF b.pos[n] = q THEN 0 ELSE @]
    <3>3. a = [cash |-> b.cash + notional - fees, pos |-> pos, cost |-> cost,
               held |-> held, realized |-> b.realized + notional - fees - sold]
      BY <3>1 DEF Sell, Books
    <3> HIDE DEF sold
    <3>4. pos \in Values /\ cost \in Values /\ held \in Values
      BY <1>1, <1>2, <1>3, <3>2 DEF Values
    <3>5. /\ pos[n] = b.pos[n] - q /\ \A i \in Instruments : i # n => pos[i] = b.pos[i]
          /\ cost[n] = b.cost[n] - sold
          /\ \A i \in Instruments : i # n => cost[i] = b.cost[i]
      BY <1>1 DEF Values
    <3> HIDE DEF pos, cost, held, n
    <3>6. Total(cost) = Total(b.cost) + cost[n] - b.cost[n]
      BY <1>1, <3>4, <3>5, SumChange
    <3>7. Total(b.cost) \in Int /\ Total(cost) \in Int
      BY <1>1, <3>4, SumInt
    <3>8. a \in Books
      BY <1>1, <2>2, <2>3, <3>2, <3>3, <3>4 DEF Books
    <3>9. Balance(a) = Balance(b)
      <4>1. /\ a.cash = b.cash + notional - fees /\ a.cost = cost
            /\ a.realized = b.realized + notional - fees - sold
        BY <3>3
      <4>2. b.cost[n] \in Int
        BY <1>1, <1>3
      <4>3. QED
        BY <1>1, <2>2, <2>3, <3>2, <3>5, <3>6, <3>7, <4>1, <4>2 DEF Balance
    <3>10. a.pos[n] = After(b, o, q)
      BY <2>5, <3>3, <3>5 DEF After, n
    <3>11. Free => a.cash + a.pos[n] * bar.open = b.cash + b.pos[n] * bar.open
      <4> HAVE Free
      <4> DEFINE x == b.pos[n]
                 open == bar.open
      <4>1. a.cash = b.cash + q * open /\ a.pos[n] = x - q
        BY <1>1, <2>2, <2>3, <3>3, <3>5
      <4>2. x \in Int /\ open \in Int
        BY <1>1, <1>3
      <4> HIDE DEF x, open
      <4>3. (x - q) * open = x * open - q * open
        BY <1>2, <4>2
      <4>4. x * open \in Int /\ q * open \in Int
        BY <1>2, <4>2
      <4>5. QED
        BY <1>1, <4>1, <4>3, <4>4 DEF x, open
    <3>12. QED
      BY <3>3, <3>5, <3>8, <3>9, <3>10, <3>11 DEF q, n
  <2>6. QED
    BY <1>1, <2>4, <2>5
<1>6. QED
  BY <1>4, <1>5

\* The books after each of the orders.
Fillings(a, b, orders, prices) ==
  /\ a \in [0 .. Len(orders) -> Books]
  /\ a[0] = b /\ AfterOrders(b, orders, prices) = a[Len(orders)]
  /\ \A k \in 1 .. Len(orders) :
       a[k] = ApplyFill(a[k - 1], orders[k], prices[orders[k].name])

\* The fills of a day happen one after the other.
LEMMA OrdersFilled ==
  ASSUME cfg \in Config, NEW b \in Books, NEW orders \in Seq(Order), NEW prices \in Prices
  PROVE  \E a : Fillings(a, b, orders, prices)
<1> DEFINE n == Len(orders)
           Fill(z, k) == ApplyFill(z, orders[k], prices[orders[k].name])
           IsAfter(f) == f = [k \in 0 .. Len(orders) |->
                                IF k = 0 THEN b ELSE Fill(f[k - 1], k)]
           after == CHOOSE f : IsAfter(f)
           g == [k \in 1 .. n |-> [z \in Books |-> Fill(z, k)]]
<1>1. n \in Nat /\ \A k \in 1 .. n : orders[k] \in Order
  OBVIOUS
<1>2. ASSUME NEW k \in 1 .. n, NEW z \in Books
      PROVE  Fill(z, k) \in Books
  <2> DEFINE o == orders[k]
             bar == prices[o.name]
  <2>1. o \in Order /\ bar \in Day
    BY <1>1 DEF Order, Prices, Day
  <2> HIDE DEF o, bar
  <2>2. ApplyFill(z, o, bar) \in Books
    BY <2>1, FillFits
  <2>3. QED
    BY <2>2 DEF o, bar
<1> HIDE DEF Fill
<1>3. PICK a \in [0 .. n -> Books] : a[0] = b /\ \A k \in 1 .. n : a[k] = g[k][a[k - 1]]
  <2>1. StaysIn(Books, n, g)
    BY <1>2 DEF StaysIn
  <2> HIDE DEF g
  <2>2. Runs(Books, b, n, g) # {}
    BY <1>1, <2>1, RunsExist
  <2>3. PICK a \in Runs(Books, b, n, g) : TRUE
    BY <2>2
  <2>4. QED
    BY <2>3 DEF Runs
<1>4. \A k \in 1 .. n : a[k] = Fill(a[k - 1], k)
  <2> TAKE k \in 1 .. n
  <2>1. a[k - 1] \in Books
    BY <1>1, <1>3
  <2>2. QED
    BY <1>3, <2>1 DEF g
<1>5. IsAfter(a)
  BY <1>1, <1>3, <1>4
<1>6. IsAfter(after)
  BY <1>5
<1> HIDE DEF after
<1>7. after[0] = b /\ \A k \in 1 .. n : after[k] = Fill(after[k - 1], k)
  BY <1>1, <1>6
<1> DEFINE T == {k \in 0 .. n : after[k] = a[k]}
<1>8. n \in T
  <2>1. 0 \in T /\ \A k \in 1 .. n : k - 1 \in T => k \in T
    BY <1>1, <1>3, <1>4, <1>7
  <2> HIDE DEF T
  <2>2. \A k \in 0 .. n : k \in T
    BY <1>1, <2>1, Induct
  <2>3. QED
    BY <1>1, <2>2
<1>9. AfterOrders(b, orders, prices) = after[n]
  BY DEF AfterOrders, after, Fill
<1>10. AfterOrders(b, orders, prices) = a[Len(orders)]
  BY <1>8, <1>9
<1>11. \A k \in 1 .. Len(orders) :
         a[k] = ApplyFill(a[k - 1], orders[k], prices[orders[k].name])
  BY <1>4 DEF Fill
<1>12. Fillings(a, b, orders, prices)
  BY <1>3, <1>10, <1>11 DEF Fillings
<1>13. QED
  BY <1>12

\* The cash and the positions at the day's open, together.
Worth(b, prices) == b.cash + Total(AtOpen(b, prices))

\* A fill without costs keeps the worth of the account at the open.
LEMMA FillKeepsWorth ==
  ASSUME cfg \in Config, Free, NEW b \in Books, NEW o \in Order, NEW prices \in Prices
  PROVE  Worth(ApplyFill(b, o, prices[o.name]), prices) = Worth(b, prices)
<1> DEFINE n == o.name
           bar == prices[n]
           a == ApplyFill(b, o, bar)
           was == AtOpen(b, prices)
           is == AtOpen(a, prices)
<1>1. n \in Instruments /\ bar \in Day
  BY DEF Order, Prices, Day
<1>2. /\ a \in Books
      /\ \A i \in Instruments : i # n => a.pos[i] = b.pos[i]
      /\ a.cash + a.pos[n] * bar.open = b.cash + b.pos[n] * bar.open
  <2> HIDE DEF bar
  <2>1. QED
    BY <1>1, FillFits
<1> HIDE DEF a
<1>3. was \in Values /\ is \in Values
  <2>1. \A i \in Instruments : a.pos[i] \in Int /\ b.pos[i] \in Int /\ prices[i].open \in Int
    BY <1>2, BarParts DEF Books, Values
  <2>2. \A i \in Instruments : was[i] \in Int /\ is[i] \in Int
    BY <2>1 DEF AtOpen
  <2>3. QED
    BY <2>2 DEF AtOpen, Values
<1>4. /\ is[n] = a.pos[n] * bar.open /\ was[n] = b.pos[n] * bar.open
      /\ \A i \in Instruments : i # n => is[i] = was[i]
  BY <1>1, <1>2 DEF AtOpen
<1>5. a.cash \in Int /\ b.cash \in Int
  BY <1>2 DEF Books
<1> HIDE DEF was, is, n
<1>6. Total(is) = Total(was) + is[n] - was[n]
  BY <1>1, <1>3, <1>4, SumChange
<1>7. Total(is) \in Int /\ Total(was) \in Int /\ is[n] \in Int /\ was[n] \in Int
  <2>1. Total(is) \in Int /\ Total(was) \in Int
    BY <1>3, SumInt
  <2>2. QED
    BY <1>1, <1>3, <2>1 DEF Values
<1>8. a.cash + is[n] = b.cash + was[n]
  BY <1>2, <1>4
<1>9. a.cash + Total(is) = b.cash + Total(was)
  BY <1>5, <1>6, <1>7, <1>8
<1>10. QED
  BY <1>9 DEF Worth, is, was, a, n

\* The orders of a day, filled one after the other, keep the books balanced and,
\* without costs, the worth of the account at the open.
LEMMA OrdersBalance ==
  ASSUME cfg \in Config, NEW b \in Books, NEW orders \in Seq(Order), NEW prices \in Prices
  PROVE  LET a == AfterOrders(b, orders, prices)
         IN  /\ a \in Books /\ Balance(a) = Balance(b)
             /\ Free => Worth(a, prices) = Worth(b, prices)
<1> DEFINE n == Len(orders)
<1>1. PICK a : Fillings(a, b, orders, prices)
  BY OrdersFilled
<1>2. /\ a \in [0 .. n -> Books] /\ a[0] = b /\ AfterOrders(b, orders, prices) = a[n]
      /\ \A k \in 1 .. n : a[k] = ApplyFill(a[k - 1], orders[k], prices[orders[k].name])
  BY <1>1 DEF Fillings
<1>3. n \in Nat
  OBVIOUS
<1> DEFINE T == {k \in 0 .. n : /\ Balance(a[k]) = Balance(b)
                                /\ Free => Worth(a[k], prices) = Worth(b, prices)}
<1>4. 0 \in T
  BY <1>2, <1>3
<1>5. ASSUME NEW k \in 1 .. n, k - 1 \in T
      PROVE  k \in T
  <2> DEFINE o == orders[k]
             z == a[k - 1]
             bar == prices[o.name]
  <2>1. o \in Order /\ bar \in Day /\ z \in Books
    <3>1. o \in Order /\ z \in Books
      BY <1>2, <1>3
    <3> HIDE DEF o
    <3>2. o.name \in Instruments
      BY <3>1 DEF Order
    <3>3. QED
      BY <3>1, <3>2 DEF Prices, Day
  <2>2. a[k] = ApplyFill(z, o, bar)
    BY <1>2
  <2>3. Balance(z) = Balance(b) /\ (Free => Worth(z, prices) = Worth(b, prices))
    BY <1>5
  <2>4. Free => Worth(ApplyFill(z, o, bar), prices) = Worth(z, prices)
    <3> HIDE DEF o, z
    <3>1. QED
      BY <2>1, FillKeepsWorth
  <2>5. Balance(ApplyFill(z, o, bar)) = Balance(z)
    <3> HIDE DEF o, z, bar
    <3>1. QED
      BY <2>1, FillFits
  <2>6. k \in 0 .. n
    BY <1>3
  <2>7. QED
    BY <2>2, <2>3, <2>4, <2>5, <2>6
<1>6. n \in T
  <2> HIDE DEF T
  <2>1. \A k \in 0 .. n : k \in T
    BY <1>3, <1>4, <1>5, Induct
  <2>2. QED
    BY <1>3, <2>1
<1>7. a[n] \in Books
  BY <1>2, <1>3
<1>8. QED
  BY <1>2, <1>6, <1>7

\* What each name's position becomes: it moves by what its order fills, and a
\* name without an order keeps its position.
LEMMA OrdersMove ==
  ASSUME cfg \in Config, NEW b \in Books, NEW prices \in Prices, NEW target,
         NEW orders, Ordered(orders, b, target)
  PROVE  LET a == AfterOrders(b, orders, prices)
         IN  \A i \in Instruments :
               \/ a.pos[i] = b.pos[i] /\ \A k \in 1 .. Len(orders) : orders[k].name # i
               \/ \E k \in 1 .. Len(orders) :
                    /\ orders[k].name = i
                    /\ a.pos[i] = After(b, orders[k], Filled(orders[k], prices[i]))
<1> DEFINE n == Len(orders)
<1>1. /\ orders \in Seq(Order) /\ n \in Nat
      /\ \A j, k \in 1 .. n : orders[j].name = orders[k].name => j = k
  BY DEF Ordered
<1>2. PICK a : Fillings(a, b, orders, prices)
  BY <1>1, OrdersFilled
<1>3. /\ a \in [0 .. n -> Books] /\ a[0] = b /\ AfterOrders(b, orders, prices) = a[n]
      /\ \A k \in 1 .. n : a[k] = ApplyFill(a[k - 1], orders[k], prices[orders[k].name])
  BY <1>2 DEF Fillings
<1>4. SUFFICES ASSUME NEW i \in Instruments
               PROVE  \/ /\ a[n].pos[i] = b.pos[i]
                         /\ \A k \in 1 .. n : orders[k].name # i
                      \/ \E k \in 1 .. n :
                           /\ orders[k].name = i
                           /\ a[n].pos[i] = After(b, orders[k], Filled(orders[k], prices[i]))
  BY <1>3
<1>5. ASSUME NEW k \in 1 .. n
      PROVE  /\ k - 1 \in 0 .. n /\ orders[k] \in Order
             /\ orders[k].name # i => a[k].pos[i] = a[k - 1].pos[i]
             /\ orders[k].name = i =>
                  a[k].pos[i] = After(a[k - 1], orders[k], Filled(orders[k], prices[i]))
  <2> DEFINE o == orders[k]
             z == a[k - 1]
             bar == prices[o.name]
  <2>1. o \in Order /\ bar \in Day /\ z \in Books /\ k - 1 \in 0 .. n
    <3>1. o \in Order /\ z \in Books /\ k - 1 \in 0 .. n
      BY <1>1, <1>3
    <3> HIDE DEF o
    <3>2. o.name \in Instruments
      BY <3>1 DEF Order
    <3>3. QED
      BY <3>1, <3>2 DEF Prices, Day
  <2>2. a[k] = ApplyFill(z, o, bar)
    BY <1>3
  <2>3. /\ ApplyFill(z, o, bar).pos[o.name] = After(z, o, Filled(o, bar))
        /\ \A j \in Instruments : j # o.name => ApplyFill(z, o, bar).pos[j] = z.pos[j]
    <3> HIDE DEF o, z, bar
    <3>1. QED
      BY <2>1, FillFits
  <2>4. QED
    BY <2>1, <2>2, <2>3
<1>6. CASE \A k \in 1 .. n : orders[k].name # i
  <2> DEFINE T == {k \in 0 .. n : a[k].pos[i] = b.pos[i]}
  <2>1. 0 \in T /\ \A k \in 1 .. n : k - 1 \in T => k \in T
    BY <1>1, <1>3, <1>5, <1>6
  <2> HIDE DEF T
  <2>2. \A k \in 0 .. n : k \in T
    BY <1>1, <2>1, Induct
  <2>3. n \in T
    BY <1>1, <2>2
  <2>4. QED
    BY <1>6, <2>3 DEF T
<1>7. ASSUME NEW m \in 1 .. n, orders[m].name = i
      PROVE  a[n].pos[i] = After(b, orders[m], Filled(orders[m], prices[i]))
  <2> DEFINE moved == After(b, orders[m], Filled(orders[m], prices[i]))
             T == {k \in 0 .. n : a[k].pos[i] = IF k < m THEN b.pos[i] ELSE moved}
  <2>1. 0 \in T
    BY <1>1, <1>3
  <2>2. ASSUME NEW k \in 1 .. n, k - 1 \in T
        PROVE  k \in T
    <3>1. k \in 0 .. n /\ k \in Int /\ m \in Int
      BY <1>1
    <3>2. CASE k < m
      <4>1. orders[k].name # i
        BY <1>1, <1>7, <3>1, <3>2
      <4>2. a[k - 1].pos[i] = b.pos[i]
        BY <2>2, <3>1, <3>2
      <4>3. QED
        BY <1>5, <3>1, <3>2, <4>1, <4>2
    <3>3. CASE k = m
      <4>1. a[k - 1].pos[i] = b.pos[i]
        BY <2>2, <3>1, <3>3
      <4>2. a[k].pos[i] = After(a[k - 1], orders[m], Filled(orders[m], prices[i]))
        BY <1>5, <1>7, <3>3
      <4>3. a[k].pos[i] = moved
        BY <1>7, <4>1, <4>2 DEF After
      <4>4. QED
        BY <3>1, <3>3, <4>3
    <3>4. CASE k > m
      <4>1. orders[k].name # i
        BY <1>1, <1>7, <3>1, <3>4
      <4>2. a[k - 1].pos[i] = moved
        <5>1. ~ (k - 1 < m)
          BY <3>1, <3>4
        <5> HIDE DEF moved
        <5>2. QED
          BY <2>2, <5>1
      <4>3. a[k].pos[i] = moved /\ ~ (k < m)
        BY <1>5, <3>1, <3>4, <4>1, <4>2
      <4>4. QED
        BY <3>1, <4>3
    <3>5. QED
      BY <3>1, <3>2, <3>3, <3>4
  <2> HIDE DEF T
  <2>3. \A k \in 0 .. n : k \in T
    BY <1>1, <2>1, <2>2, Induct
  <2>4. n \in T /\ ~ (n < m)
    BY <1>1, <2>3
  <2>5. QED
    BY <2>4 DEF T
<1>8. QED
  BY <1>6, <1>7

\* Trading never makes a position short.
LEMMA NoShorts ==
  ASSUME cfg \in Config, NEW b \in Books, b.pos \in Amounts, NEW prices \in Prices,
         NEW orders, NEW target, Ordered(orders, b, target),
         target \in Amounts \/ orders = <<>>
  PROVE  AfterOrders(b, orders, prices).pos \in Amounts
<1> DEFINE a == AfterOrders(b, orders, prices)
           n == Len(orders)
<1>1. /\ orders \in Seq(Order) /\ n \in Nat
      /\ \A k \in 1 .. n : orders[k] \in Order /\ Trades(orders[k], b, target)
  BY DEF Ordered
<1>2. a \in Books
  BY <1>1, OrdersBalance
<1>3. \A i \in Instruments :
        \/ a.pos[i] = b.pos[i] /\ \A k \in 1 .. Len(orders) : orders[k].name # i
        \/ \E k \in 1 .. Len(orders) :
             /\ orders[k].name = i
             /\ a.pos[i] = After(b, orders[k], Filled(orders[k], prices[i]))
  BY OrdersMove
<1> HIDE DEF a
<1>4. ASSUME NEW i \in Instruments
      PROVE  a.pos[i] \in Nat
  <2>1. b.pos[i] \in Nat
    BY DEF Amounts
  <2>2. CASE a.pos[i] = b.pos[i]
    BY <2>1, <2>2
  <2>3. CASE \E k \in 1 .. n : /\ orders[k].name = i
                               /\ a.pos[i] = After(b, orders[k], Filled(orders[k], prices[i]))
    <3>1. PICK k \in 1 .. n : /\ orders[k].name = i
                              /\ a.pos[i] = After(b, orders[k], Filled(orders[k], prices[i]))
      BY <2>3
    <3> DEFINE o == orders[k]
               bar == prices[i]
               q == Filled(o, bar)
    <3>2. o \in Order /\ Trades(o, b, target) /\ bar \in Day
      BY <1>1 DEF Prices, Day
    <3>3. target \in Amounts
      <4>1. orders # <<>>
        BY <1>1, <3>1
      <4>2. QED
        BY <4>1
    <3>4. target[i] \in Nat
      BY <3>3 DEF Amounts
    <3>5. o.name = i /\ a.pos[i] = After(b, o, q)
      BY <3>1
    <3> HIDE DEF o, bar
    <3>6. q \in Nat /\ q <= o.qty
      BY <3>2, FilledFits
    <3>7. o.qty \in Nat
      BY <3>2 DEF Order
    <3> HIDE DEF q
    <3>8. QED
      BY <2>1, <3>2, <3>4, <3>5, <3>6, <3>7 DEF Trades, After
  <2>4. QED
    BY <1>3, <2>2, <2>3
<1>5. QED
  BY <1>2, <1>4 DEF Books, Values, Amounts, a

\* When what is to be reduced is ordered and can be sold, no position ends above
\* its target.
LEMMA Reduced ==
  ASSUME cfg \in Config, NEW b \in Books, b.pos \in Amounts, NEW prices \in Prices,
         NEW target \in Amounts, NEW orders, Ordered(orders, b, target),
         NEW i \in Instruments, Sellable(prices[i], b.pos[i]),
         target[i] < b.pos[i] =>
           \E k \in 1 .. Len(orders) : orders[k].name = i /\ orders[k].side = "SELL"
  PROVE  AfterOrders(b, orders, prices).pos[i] <= target[i]
<1> DEFINE a == AfterOrders(b, orders, prices)
           n == Len(orders)
           bar == prices[i]
<1>1. /\ orders \in Seq(Order) /\ n \in Nat
      /\ \A k \in 1 .. n : orders[k] \in Order /\ Trades(orders[k], b, target)
      /\ \A j, k \in 1 .. n : orders[j].name = orders[k].name => j = k
  BY DEF Ordered
<1>2. \A c \in Instruments :
        \/ a.pos[c] = b.pos[c] /\ \A k \in 1 .. Len(orders) : orders[k].name # c
        \/ \E k \in 1 .. Len(orders) :
             /\ orders[k].name = c
             /\ a.pos[c] = After(b, orders[k], Filled(orders[k], prices[c]))
  BY OrdersMove
<1> HIDE DEF a
<1>3. b.pos[i] \in Nat /\ target[i] \in Nat /\ bar \in Day
  BY DEF Amounts, Prices, Day
<1>4. CASE a.pos[i] = b.pos[i] /\ \A k \in 1 .. n : orders[k].name # i
  BY <1>3, <1>4 DEF a
<1>5. CASE \E k \in 1 .. n : /\ orders[k].name = i
                             /\ a.pos[i] = After(b, orders[k], Filled(orders[k], prices[i]))
  <2>1. PICK k \in 1 .. n : /\ orders[k].name = i
                            /\ a.pos[i] = After(b, orders[k], Filled(orders[k], prices[i]))
    BY <1>5
  <2> DEFINE o == orders[k]
             q == Filled(o, bar)
  <2>2. o \in Order /\ Trades(o, b, target) /\ o.name = i /\ a.pos[i] = After(b, o, q)
    BY <1>1, <2>1
  <2>3. o.qty \in Nat
    BY <2>2 DEF Order
  <2> HIDE DEF o, bar
  <2>4. /\ q \in Nat /\ q <= o.qty
        /\ o.qty <= b.pos[i] /\ Sellable(bar, b.pos[i]) => q = o.qty
    BY <1>3, <2>2, FilledFits
  <2>5. Sellable(bar, b.pos[i])
    BY DEF bar
  <2> HIDE DEF q
  <2>6. a.pos[i] <= target[i]
    BY <1>3, <2>2, <2>3, <2>4, <2>5, SMTT(60) DEF Trades, After
  <2>7. QED
    BY <2>6 DEF a
<1>6. QED
  BY <1>2, <1>4, <1>5

\* Every name is traded when no deviation is too small.
LEMMA AllMove ==
  ASSUME cfg \in Config, cfg.threshold <= 0, NEW b \in Books, NEW capped \in Amounts,
         NEW prices \in Prices, Nav(b, prices) > 0, NEW target
  PROVE  \A i \in Instruments :
           target[i] # b.pos[i] => i \in Moved(b, target, Deviation(b, capped, prices), prices)
<1> DEFINE total == Nav(b, prices)
           deviation == Deviation(b, capped, prices)
<1>1. total \in Nat
  BY NavInt
<1>2. cfg.threshold \in Int
  BY DEF Config
<1>3. \A i \in Instruments : deviation[i] >= 0 /\ deviation[i] \in Int
  <2> TAKE i \in Instruments
  <2>1. deviation[i] \in Int
    BY DeviationTyped DEF Values
  <2> DEFINE d == capped[i] * total - Weight * b.pos[i] * prices[i].close
  <2>2. deviation[i] = Abs(d)
    BY DEF Deviation
  <2>3. d \in Int
    <3>1. capped[i] \in Int /\ b.pos[i] \in Int /\ prices[i].close \in Int
      BY BarParts DEF Amounts, Books, Values
    <3>2. capped[i] * total \in Int
      BY <1>1, <3>1
    <3>3. Weight * b.pos[i] * prices[i].close \in Int
      BY <3>1 DEF Weight
    <3>4. QED
      BY <3>2, <3>3
  <2> HIDE DEF d, deviation
  <2>4. Abs(d) >= 0
    BY <2>3 DEF Abs
  <2>5. QED
    BY <2>1, <2>2, <2>4
<1> HIDE DEF deviation, total
<1>4. cfg.threshold * Weight * total <= 0
  <2> DEFINE t == cfg.threshold
  <2>1. t \in Int /\ t <= 0
    BY <1>2
  <2> HIDE DEF t
  <2>2. t * 60 * total <= 0
    BY <1>1, <2>1
  <2>3. QED
    BY <2>2 DEF t, Weight
<1>5. cfg.threshold * Weight * total \in Int
  BY <1>1, <1>2 DEF Weight
<1>6. \A i \in Instruments : 100 * deviation[i] >= cfg.threshold * Weight * total
  <2> DEFINE least == cfg.threshold * Weight * total
  <2> HIDE DEF least
  <2>1. least \in Int /\ least <= 0
    BY <1>4, <1>5 DEF least
  <2>2. \A i \in Instruments : 100 * deviation[i] >= least
    BY <1>3, <2>1
  <2>3. QED
    BY <2>2 DEF least
<1>7. QED
  BY <1>6 DEF Moved, total, deviation

\* A day whose orders can all be placed and filled ends with positions that cost
\* no more than the exposure at the open.
LEMMA DayFits ==
  ASSUME cfg \in Config, cfg.threshold <= 0, NEW b \in Books, b.pos \in Amounts,
         NEW w \in Amounts, Total(w) <= Weight, NEW prices \in Prices,
         NEW vols \in Amounts, NEW exposure \in 0 .. 100,
         ~ Stuck(b, Capped(w), prices, exposure),
         \A i \in Instruments : Sellable(prices[i], b.pos[i])
  PROVE  LET a == AfterOrders(b, RebalanceOrders(b, w, prices, vols, exposure), prices)
         IN  100 * Total(AtOpen(a, prices)) <= Nav(b, prices) * exposure
<1> DEFINE capped == Capped(w)
           target == Target(b, capped, prices, vols, exposure)
           orders == RebalanceOrders(b, w, prices, vols, exposure)
           a == AfterOrders(b, orders, prices)
           cost == [i \in Instruments |-> target[i] * prices[i].open]
           worth == AtOpen(a, prices)
<1>1. capped \in Amounts /\ Total(capped) <= Weight
  <2>1. cfg.maxWeight \in Nat
    BY DEF Config
  <2>2. capped \in Amounts /\ Total(capped) <= Total(w)
    BY <2>1, CapsHold
  <2>3. Total(capped) \in Nat /\ Total(w) \in Nat /\ Weight \in Nat
    BY <2>2, SumNat DEF Weight
  <2>4. QED
    BY <2>2, <2>3
<1>2. Ordered(orders, b, target)
  BY OrdersFit
<1>3. SellsDown(orders, b, target, Moved(b, target, Deviation(b, capped, prices), prices))
  BY OrdersFit
<1>4. Nav(b, prices) \in Int /\ Nav(b, prices) > 0
  <2>1. Nav(b, prices) \in Int
    BY NavInt
  <2>2. QED
    BY <2>1 DEF Stuck
<1> HIDE DEF capped
<1>5. target \in Amounts
  BY <1>1, <1>4, TargetFits
<1>6. 100 * Total(cost) <= Nav(b, prices) * exposure
  BY <1>1, <1>4, TargetsCost, ZenonT(60)
<1> HIDE DEF target, orders
<1>7. \A i \in Instruments :
        target[i] # b.pos[i] => i \in Moved(b, target, Deviation(b, capped, prices), prices)
  BY <1>1, <1>4, AllMove
<1>8. ASSUME NEW i \in Instruments
      PROVE  a.pos[i] <= target[i]
  <2>1. target[i] < b.pos[i] =>
          \E k \in 1 .. Len(orders) : orders[k].name = i /\ orders[k].side = "SELL"
    <3>1. b.pos[i] \in Nat /\ target[i] \in Nat
      BY <1>5 DEF Amounts
    <3>2. target[i] < b.pos[i] => target[i] # b.pos[i]
      BY <3>1
    <3>3. QED
      BY <1>3, <1>7, <3>2 DEF SellsDown
  <2>2. Sellable(prices[i], b.pos[i])
    OBVIOUS
  <2>3. QED
    BY <1>2, <1>5, <2>1, <2>2, Reduced
<1>9. a.pos \in Amounts
  BY <1>2, <1>5, NoShorts
<1> HIDE DEF a
<1>10. \A i \in Instruments : worth[i] \in Nat /\ cost[i] \in Nat /\ worth[i] <= cost[i]
  <2> TAKE i \in Instruments
  <2> DEFINE x == a.pos[i]
             y == target[i]
             open == prices[i].open
  <2>1. x \in Nat /\ y \in Nat /\ x <= y /\ open \in Nat
    BY <1>5, <1>8, <1>9, BarParts DEF Amounts
  <2>2. worth[i] = x * open /\ cost[i] = y * open
    BY DEF AtOpen
  <2> HIDE DEF x, y, open, worth, cost
  <2>3. x * open \in Nat /\ y * open \in Nat /\ x * open <= y * open
    BY <2>1
  <2>4. QED
    BY <2>2, <2>3
<1>11. worth \in Amounts /\ cost \in Amounts
  BY <1>10 DEF Amounts, AtOpen
<1> HIDE DEF worth, cost
<1>12. Total(worth) <= Total(cost) /\ Total(worth) \in Nat /\ Total(cost) \in Nat
  BY <1>10, <1>11, SumMonotone, SumNat, AmountsAreValues
<1>13. 100 * Total(worth) <= Nav(b, prices) * exposure
  <2> DEFINE top == Nav(b, prices) * exposure
  <2>1. top \in Int
    BY <1>4
  <2>2. 100 * Total(cost) <= top
    BY <1>6
  <2> HIDE DEF top
  <2>3. 100 * Total(worth) <= top
    BY <1>12, <2>1, <2>2
  <2>4. QED
    BY <2>3 DEF top
<1>14. QED
  BY <1>13 DEF worth, a, orders

-----------------------------------------------------------------------------
(* The account, day by day.                                                 *)

\* No position is ever short, and the peak that drawdowns are measured from is
\* positive and not below the latest value.
AccountType ==
  /\ cfg \in Configs /\ day \in 0 .. LastDay
  /\ bars \in [Instruments -> Bars \union {NoBar}] /\ volume \in Amounts
  /\ book \in Books /\ book.pos \in Amounts
  /\ peak \in Nat \ {0} /\ nav \in Int /\ nav <= peak /\ regime \in BOOLEAN

AccountInv == AccountType /\ BooksBalance

\* What the parameters of an account are known to be.
LEMMA AccountParts ==
  ASSUME AccountInv
  PROVE  cfg \in Config /\ bars \in Prices /\ InitialCash \in Nat \ {0}
BY InputsAssumption DEF AccountInv, AccountType, Prices

\* The next day's bars are bars.
LEMMA BarsOfData ==
  ASSUME NEW next \in NextBars
  PROVE  next \in [Instruments -> Bars \union {NoBar}] /\ next \in Prices
BY InputsAssumption DEF NextBars, Prices

\* A day's ageing touches nothing but the holding periods.
LEMMA OlderBook ==
  ASSUME NEW b \in Books, b.pos \in Amounts
  PROVE  /\ Older(b) \in Books /\ Older(b).pos = b.pos /\ Older(b).cost = b.cost
         /\ Older(b).cash = b.cash /\ Older(b).realized = b.realized
         /\ \A prices : Nav(Older(b), prices) = Nav(b, prices)
<1> DEFINE held == [i \in Instruments |-> IF b.pos[i] > 0 THEN b.held[i] + 1 ELSE 0]
<1>1. held \in Values
  BY DEF Books, Values
<1>2. Older(b) = [cash |-> b.cash, pos |-> b.pos, cost |-> b.cost, held |-> held,
                  realized |-> b.realized]
  BY DEF Older, Books
<1> HIDE DEF held
<1>3. Older(b) \in Books
  BY <1>1, <1>2 DEF Books
<1>4. \A prices : Nav(Older(b), prices) = Nav(b, prices)
  BY <1>2 DEF Nav
<1>5. QED
  BY <1>2, <1>3, <1>4

\* The weights wanted never exceed the whole portfolio.
LEMMA DesiresFit ==
  ASSUME NEW b, NEW w \in Desires(b)
  PROVE  w \in Amounts /\ Total(w) <= Weight
<1>1. PICK vol \in [Instruments -> 0 .. 2] : \E S : w = TargetWeights(S, vol)
  <2>1. Zero \in [Instruments -> 0 .. 2]
    BY DEF Zero
  <2>2. PICK scores \in [Instruments -> 0 .. 2],
             vol \in IF cfg.inverse THEN [Instruments -> 0 .. 2] ELSE {Zero} :
          w = TargetWeights(Selected(RankedScores(scores), b), vol)
    BY DEF Desires
  <2>3. vol \in [Instruments -> 0 .. 2]
    BY <2>1
  <2>4. QED
    BY <2>2, <2>3
<1>2. QED
  BY <1>1, WeightsFit

\* Without orders nothing is filled.
LEMMA NoOrders ==
  ASSUME cfg \in Config, NEW b \in Books, NEW prices \in Prices
  PROVE  AfterOrders(b, <<>>, prices) = b
<1> DEFINE orders == <<>>
<1>1. orders \in Seq(Order) /\ Len(orders) = 0
  OBVIOUS
<1> HIDE DEF orders
<1>2. PICK a : Fillings(a, b, orders, prices)
  BY <1>1, OrdersFilled
<1>3. AfterOrders(b, orders, prices) = b
  BY <1>1, <1>2 DEF Fillings
<1>4. QED
  BY <1>3 DEF orders

\* What the orders of a day leave, whatever the day wants.
LEMMA TradedBook ==
  ASSUME cfg \in Config, NEW b \in Books, b.pos \in Amounts, NEW w \in Amounts,
         NEW prices \in Prices, NEW vols \in Amounts, NEW exposure \in 0 .. 100
  PROVE  LET a == AfterOrders(b, RebalanceOrders(b, w, prices, vols, exposure), prices)
         IN  /\ a \in Books /\ a.pos \in Amounts /\ Balance(a) = Balance(b)
             /\ Free => Worth(a, prices) = Worth(b, prices)
             /\ Stuck(b, Capped(w), prices, exposure) => a = b
<1> DEFINE capped == Capped(w)
           target == Target(b, capped, prices, vols, exposure)
           orders == RebalanceOrders(b, w, prices, vols, exposure)
<1>1. /\ Ordered(orders, b, target)
      /\ Stuck(b, capped, prices, exposure) => orders = <<>>
  BY OrdersFit
<1>2. capped \in Amounts
  <2>1. cfg.maxWeight \in Nat
    BY DEF Config
  <2>2. QED
    BY <2>1, CapsHold
<1> HIDE DEF capped
<1>3. target \in Amounts \/ orders = <<>>
  <2>1. CASE Stuck(b, capped, prices, exposure)
    BY <1>1, <2>1
  <2>2. CASE ~ Stuck(b, capped, prices, exposure)
    <3>1. Nav(b, prices) \in Int
      BY NavInt
    <3>2. Nav(b, prices) > 0
      BY <2>2, <3>1 DEF Stuck
    <3>3. target \in Amounts
      BY <1>2, <3>2, TargetFits
    <3>4. QED
      BY <3>3
  <2>3. QED
    BY <2>1, <2>2
<1>4. orders \in Seq(Order)
  BY <1>1 DEF Ordered
<1> HIDE DEF target, orders
<1>5. AfterOrders(b, orders, prices).pos \in Amounts
  BY <1>1, <1>3, NoShorts
<1>6. /\ AfterOrders(b, orders, prices) \in Books
      /\ Balance(AfterOrders(b, orders, prices)) = Balance(b)
      /\ Free => Worth(AfterOrders(b, orders, prices), prices) = Worth(b, prices)
  BY <1>4, OrdersBalance
<1>7. Stuck(b, capped, prices, exposure) => AfterOrders(b, orders, prices) = b
  BY <1>1, NoOrders
<1>8. QED
  BY <1>5, <1>6, <1>7 DEF orders, capped

\* A day with orders: what is ordered, at which exposure, and what follows.
Trading(active, scale, w) ==
  LET b == Older(book)
      n == Nav(b, bars)
      p == Max({peak, n})
  IN  book' = AfterOrders(b, RebalanceOrders(b, w, bars', volume,
                                             Exposure(n, p, active, scale)), bars')

\* A day with orders trades, and is a new day.
LEMMA RebalanceParts ==
  ASSUME AccountInv, RebalanceDay
  PROVE  /\ \E active \in BOOLEAN, scale \in {50, 100}, w \in Amounts :
              Total(w) <= Weight /\ Trading(active, scale, w)
         /\ \E active \in Regimes, next \in NextBars :
              NewDay(Nav(Older(book), bars), Max({peak, Nav(Older(book), bars)}), active, next)
<1> DEFINE b == Older(book)
           n == Nav(b, bars)
           p == Max({peak, n})
<1>1. PICK active \in Regimes, w \in Desires(b), next \in NextBars, scale \in Scales :
        /\ book' = AfterOrders(b, RebalanceOrders(b, w, next, volume,
                                                  Exposure(n, p, active, scale)), next)
        /\ NewDay(n, p, active, next)
  BY DEF RebalanceDay
<1>2. active \in BOOLEAN /\ scale \in {50, 100}
  BY DEF Regimes, Scales
<1>3. w \in Amounts /\ Total(w) <= Weight
  BY DesiresFit
<1>4. bars' = next
  BY <1>1 DEF NewDay
<1>5. Trading(active, scale, w)
  BY <1>1, <1>4 DEF Trading
<1>6. QED
  BY <1>1, <1>2, <1>3, <1>5

\* What every new day has: today's value and peak, and bars of the data.
LEMMA NewDayParts ==
  ASSUME AccountInv, NEW active \in BOOLEAN, NEW next \in NextBars, day < LastDay,
         NewDay(Nav(book, bars), Max({peak, Nav(book, bars)}), active, next)
  PROVE  /\ cfg' \in Configs /\ day' \in 0 .. LastDay /\ bars' \in Prices
         /\ bars' \in [Instruments -> Bars \union {NoBar}] /\ volume' \in Amounts
         /\ peak' \in Nat \ {0} /\ nav' \in Int /\ nav' <= peak' /\ regime' \in BOOLEAN
<1> DEFINE n == Nav(book, bars)
           p == Max({peak, n})
<1>1. /\ day' = day + 1 /\ bars' = next /\ peak' = p /\ nav' = n /\ regime' = active
      /\ volume' = [i \in Instruments |-> IF next[i] = NoBar THEN volume[i] ELSE next[i].volume]
      /\ cfg' = cfg
  BY DEF NewDay
<1>2. /\ cfg \in Configs /\ day \in 0 .. LastDay /\ volume \in Amounts
      /\ book \in Books /\ peak \in Nat \ {0} /\ bars \in Prices
  BY AccountParts DEF AccountInv, AccountType
<1>3. next \in Prices /\ next \in [Instruments -> Bars \union {NoBar}]
  BY BarsOfData
<1>4. volume' \in Amounts
  <2>1. \A i \in Instruments : volume[i] \in Nat /\ next[i].volume \in Nat
    BY <1>2, <1>3, BarParts DEF Amounts
  <2>2. QED
    BY <1>1, <2>1 DEF Amounts
<1>5. n \in Int
  BY <1>2, NavInt
<1> HIDE DEF n
<1>6. p \in {peak, n} /\ p >= peak /\ p >= n
  BY <1>2, <1>5, MaxTwo
<1>7. LastDay \in Nat
  BY InputsAssumption
<1> HIDE DEF p
<1>8. peak' \in Nat \ {0} /\ nav' \in Int /\ nav' <= peak'
  BY <1>1, <1>2, <1>5, <1>6
<1>9. day' \in 0 .. LastDay
  BY <1>1, <1>2, <1>7
<1>10. QED
  BY <1>1, <1>2, <1>3, <1>4, <1>8, <1>9

\* The account starts well formed, with balanced books.
LEMMA AccountInitial == AccountInit => AccountInv
<1> SUFFICES ASSUME AccountInit PROVE AccountInv
  OBVIOUS
<1>1. /\ cfg \in Configs /\ day = 0
      /\ bars \in [Instruments -> Bars \union {NoBar}]
      /\ volume = [i \in Instruments |-> bars[i].volume]
      /\ book = [cash |-> InitialCash, pos |-> Zero, cost |-> Zero, held |-> Zero,
                 realized |-> 0]
      /\ peak = InitialCash /\ nav = InitialCash /\ regime = FALSE
  BY DEF AccountInit
<1>2. InitialCash \in Nat \ {0} /\ LastDay \in Nat
  BY InputsAssumption
<1>3. bars \in Prices
  BY <1>1, InputsAssumption DEF Prices
<1>4. volume \in Amounts
  <2>1. \A i \in Instruments : bars[i].volume \in Nat
    BY <1>3, BarParts
  <2>2. QED
    BY <1>1, <2>1 DEF Amounts
<1>5. Zero \in Amounts /\ Zero \in Values
  BY DEF Zero, Amounts, Values
<1>6. book \in Books /\ book.pos \in Amounts
  BY <1>1, <1>2, <1>5 DEF Books
<1>7. Total(Zero) = 0
  <2>1. Zero = [i \in Instruments |-> 0 * Zero[i]]
    BY DEF Zero
  <2>2. Total([i \in Instruments |-> 0 * Zero[i]]) = 0 * Total(Zero) /\ Total(Zero) \in Int
    <3>1. Total(Zero) \in Int
      BY <1>5, SumInt
    <3>2. 0 \in Int
      OBVIOUS
    <3>3. QED
      BY <1>5, <3>1, <3>2, SumScaled
  <2>3. Total(Zero) = 0 * Total(Zero)
    BY <2>1, <2>2
  <2>4. QED
    BY <2>2, <2>3
<1>8. BooksBalance
  BY <1>1, <1>2, <1>7 DEF BooksBalance
<1>9. day \in 0 .. LastDay /\ peak \in Nat \ {0} /\ nav \in Int /\ nav <= peak
  BY <1>1, <1>2
<1>10. regime \in BOOLEAN /\ cfg \in Configs /\ bars \in [Instruments -> Bars \union {NoBar}]
  BY <1>1
<1>11. AccountType
  BY <1>4, <1>6, <1>9, <1>10 DEF AccountType
<1>12. QED
  BY <1>8, <1>11 DEF AccountInv

\* A step that keeps the balance keeps the books balanced.
LEMMA BalanceKept ==
  ASSUME BooksBalance, book \in Books, book' \in Books, Balance(book') = Balance(book)
  PROVE  BooksBalance'
<1>1. /\ book.cash \in Int /\ book.realized \in Int /\ Total(book.cost) \in Int
      /\ book'.cash \in Int /\ book'.realized \in Int /\ Total(book'.cost) \in Int
  BY SumInt DEF Books
<1>2. InitialCash \in Int
  BY InputsAssumption
<1>3. book.cash + Total(book.cost) = InitialCash + book.realized
  BY DEF BooksBalance
<1>4. book'.cash + Total(book'.cost) - book'.realized
        = book.cash + Total(book.cost) - book.realized
  BY DEF Balance
<1> DEFINE c == book.cash
           r == book.realized
           t == Total(book.cost)
           cc == book'.cash
           rr == book'.realized
           tt == Total(book'.cost)
<1> HIDE DEF c, r, t, cc, rr, tt
<1>5. /\ c \in Int /\ r \in Int /\ t \in Int /\ cc \in Int /\ rr \in Int /\ tt \in Int
      /\ c + t = InitialCash + r /\ cc + tt - rr = c + t - r
  BY <1>1, <1>3, <1>4 DEF c, r, t, cc, rr, tt
<1>6. cc + tt = InitialCash + rr
  BY <1>2, <1>5
<1>7. QED
  BY <1>6 DEF BooksBalance, cc, rr, tt

\* Each pass of the loop keeps the account well formed and its books balanced.
LEMMA AccountStep == AccountInv /\ [AccountNext]_accountVars => AccountInv'
<1> SUFFICES ASSUME AccountInv, [AccountNext]_accountVars PROVE AccountInv'
  OBVIOUS
<1>1. /\ book \in Books /\ book.pos \in Amounts /\ BooksBalance
      /\ cfg \in Config /\ bars \in Prices /\ volume \in Amounts
  BY AccountParts DEF AccountInv, AccountType
<1> DEFINE b == Older(book)
<1>2. /\ b \in Books /\ b.pos = book.pos /\ b.cost = book.cost
      /\ b.cash = book.cash /\ b.realized = book.realized
      /\ \A prices : Nav(b, prices) = Nav(book, prices)
  BY <1>1, OlderBook
<1>3. Balance(b) = Balance(book)
  BY <1>2 DEF Balance
<1> HIDE DEF b
<1>4. CASE RebalanceDay
  <2>1. PICK active \in BOOLEAN, scale \in {50, 100}, w \in Amounts :
          Total(w) <= Weight /\ Trading(active, scale, w)
    BY <1>4, RebalanceParts
  <2>2. PICK regimes \in Regimes, next \in NextBars :
          NewDay(Nav(b, bars), Max({peak, Nav(b, bars)}), regimes, next)
    BY <1>4, RebalanceParts DEF b
  <2>3. day < LastDay
    BY <1>4 DEF RebalanceDay
  <2>4. NewDay(Nav(book, bars), Max({peak, Nav(book, bars)}), regimes, next)
    BY <1>2, <2>2
  <2>5. regimes \in BOOLEAN
    BY DEF Regimes
  <2>6. /\ cfg' \in Configs /\ day' \in 0 .. LastDay /\ bars' \in Prices
        /\ bars' \in [Instruments -> Bars \union {NoBar}] /\ volume' \in Amounts
        /\ peak' \in Nat \ {0} /\ nav' \in Int /\ nav' <= peak' /\ regime' \in BOOLEAN
    BY <2>3, <2>4, <2>5, NewDayParts
  <2> DEFINE exposure == Exposure(Nav(b, bars), Max({peak, Nav(b, bars)}), active, scale)
             next2 == bars'
             vols == volume
             a == AfterOrders(b, RebalanceOrders(b, w, next2, vols, exposure), next2)
  <2>7. book' = a
    BY <2>1 DEF Trading, b
  <2>8. exposure \in 0 .. 100
    BY <1>1, ExposureFits
  <2>9. next2 \in Prices /\ vols \in Amounts /\ b.pos \in Amounts
    BY <1>1, <1>2, <2>6
  <2> HIDE DEF exposure, next2, vols
  <2>10. /\ a \in Books /\ a.pos \in Amounts /\ Balance(a) = Balance(b)
         /\ Free => Worth(a, next2) = Worth(b, next2)
         /\ Stuck(b, Capped(w), next2, exposure) => a = b
    <3>1. cfg \in Config /\ b \in Books /\ w \in Amounts
      BY <1>1, <1>2
    <3>2. QED
      BY <2>8, <2>9, <3>1, TradedBook
  <2> HIDE DEF a
  <2>11. book' \in Books /\ book'.pos \in Amounts /\ Balance(book') = Balance(book)
    BY <1>3, <2>7, <2>10
  <2>12. BooksBalance'
    BY <1>1, <2>11, BalanceKept
  <2>13. QED
    BY <2>6, <2>11, <2>12 DEF AccountInv, AccountType
<1>5. CASE QuietDay
  <2>1. PICK next \in NextBars, active \in Regimes :
          /\ book' = b
          /\ NewDay(Nav(book, bars), Max({peak, Nav(book, bars)}), active, next)
    BY <1>5 DEF QuietDay, b
  <2>2. day < LastDay /\ active \in BOOLEAN
    BY <1>5 DEF QuietDay, Regimes
  <2>3. /\ cfg' \in Configs /\ day' \in 0 .. LastDay /\ bars' \in Prices
        /\ bars' \in [Instruments -> Bars \union {NoBar}] /\ volume' \in Amounts
        /\ peak' \in Nat \ {0} /\ nav' \in Int /\ nav' <= peak' /\ regime' \in BOOLEAN
    BY <2>1, <2>2, NewDayParts
  <2>4. book' \in Books /\ book'.pos \in Amounts /\ Balance(book') = Balance(book)
    BY <1>1, <1>2, <1>3, <2>1
  <2>5. BooksBalance'
    BY <1>1, <2>4, BalanceKept
  <2>6. QED
    BY <2>3, <2>4, <2>5 DEF AccountInv, AccountType
<1>6. CASE DecisionDay
  <2>1. PICK active \in Regimes :
          /\ book' = b /\ peak' = Max({peak, Nav(b, bars)}) /\ nav' = Nav(b, bars)
          /\ regime' = active
    BY <1>6, Zenon DEF DecisionDay, b
  <2>2. UNCHANGED <<cfg, day, bars, volume>> /\ active \in BOOLEAN
    BY <1>6, Zenon DEF DecisionDay, Regimes
  <2>3. book' \in Books /\ book'.pos \in Amounts /\ Balance(book') = Balance(book)
    BY <1>1, <1>2, <1>3, <2>1
  <2>4. BooksBalance'
    BY <1>1, <2>3, BalanceKept
  <2> DEFINE n == Nav(b, bars)
  <2>5. n \in Int
    BY <1>1, <1>2, NavInt
  <2>6. peak \in Nat \ {0}
    BY DEF AccountInv, AccountType
  <2> HIDE DEF n
  <2>7. Max({peak, n}) \in {peak, n} /\ Max({peak, n}) >= peak /\ Max({peak, n}) >= n
    BY <2>5, <2>6, MaxTwo
  <2>8. peak' \in Nat \ {0} /\ nav' \in Int /\ nav' <= peak'
    <3>1. peak' = Max({peak, n}) /\ nav' = n
      BY <2>1 DEF n
    <3>2. QED
      BY <2>5, <2>6, <2>7, <3>1
  <2>9. QED
    BY <2>1, <2>2, <2>3, <2>4, <2>8 DEF AccountInv, AccountType
<1>7. CASE UNCHANGED accountVars
  BY <1>7 DEF AccountInv, AccountType, BooksBalance, accountVars
<1>8. QED
  BY <1>4, <1>5, <1>6, <1>7 DEF AccountNext

LEMMA AccountInvariant == AccountSpec => []AccountInv
BY AccountInitial, AccountStep, PTL DEF AccountSpec

\* The account is well formed; in particular no position is ever short.
THEOREM AccountTyped == AccountSpec => []AccountType
<1>1. AccountInv => AccountType
  BY DEF AccountInv
<1>2. QED
  BY <1>1, AccountInvariant, PTL

\* Cash and costs add up to the initial cash and the realized profit.
THEOREM BooksAlwaysBalance == AccountSpec => []BooksBalance
<1>1. AccountInv => BooksBalance
  BY DEF AccountInv
<1>2. QED
  BY <1>1, AccountInvariant, PTL

\* Why an account may come to owe: what OverdraftNeedsCause lists.
Cause ==
  \/ cfg.spread + cfg.slip + cfg.commission + cfg.duty > 0
  \/ cfg.threshold > 0
  \/ \E i \in Instruments : /\ book.pos[i] > 0
                            /\ \/ bars'[i].open # bars'[i].close
                               \/ ~Sellable(bars'[i], book.pos[i])

\* Without a cause the worth at the open is the value the targets come from.
LEMMA OpenIsClose ==
  ASSUME NEW b \in Books, b.pos \in Amounts, NEW prices \in Prices,
         \A i \in Instruments : b.pos[i] > 0 => prices[i].open = prices[i].close
  PROVE  Worth(b, prices) = Nav(b, prices)
<1> DEFINE close == [i \in Instruments |-> b.pos[i] * prices[i].close]
<1>1. \A i \in Instruments : b.pos[i] * prices[i].open = b.pos[i] * prices[i].close
  <2> TAKE i \in Instruments
  <2>1. b.pos[i] \in Nat /\ prices[i].open \in Nat /\ prices[i].close \in Nat
    BY BarParts DEF Amounts
  <2>2. CASE b.pos[i] > 0
    BY <2>2
  <2>3. CASE b.pos[i] = 0
    BY <2>1, <2>3
  <2>4. QED
    BY <2>1, <2>2, <2>3
<1>2. AtOpen(b, prices) = close
  BY <1>1 DEF AtOpen
<1>3. QED
  BY <1>2 DEF Worth, Nav

\* A day of orders that overdraws the account has a cause.
LEMMA TradingKeepsCash ==
  ASSUME cfg \in Config, Free, cfg.threshold <= 0, NEW b \in Books, b.pos \in Amounts,
         NEW w \in Amounts, Total(w) <= Weight, NEW prices \in Prices,
         NEW vols \in Amounts, NEW exposure \in 0 .. 100, b.cash >= 0,
         \A i \in Instruments : b.pos[i] > 0 => prices[i].open = prices[i].close,
         \A i \in Instruments : Sellable(prices[i], b.pos[i])
  PROVE  AfterOrders(b, RebalanceOrders(b, w, prices, vols, exposure), prices).cash >= 0
<1> DEFINE a == AfterOrders(b, RebalanceOrders(b, w, prices, vols, exposure), prices)
           total == Nav(b, prices)
           left == Total(AtOpen(a, prices))
<1>1. /\ a \in Books /\ a.pos \in Amounts /\ Worth(a, prices) = Worth(b, prices)
      /\ Stuck(b, Capped(w), prices, exposure) => a = b
  <2>1. /\ a \in Books /\ a.pos \in Amounts /\ Balance(a) = Balance(b)
        /\ Free => Worth(a, prices) = Worth(b, prices)
        /\ Stuck(b, Capped(w), prices, exposure) => a = b
    BY TradedBook
  <2> HIDE DEF a
  <2>2. QED
    BY <2>1
<1>2. CASE Stuck(b, Capped(w), prices, exposure)
  <2> HIDE DEF a
  <2>1. a = b
    BY <1>1, <1>2
  <2>2. a.cash >= 0
    BY <2>1
  <2>3. QED
    BY <2>2 DEF a
<1>3. CASE ~ Stuck(b, Capped(w), prices, exposure)
  <2>1. 100 * left <= total * exposure
    BY <1>3, DayFits
  <2>2. Worth(b, prices) = total
    BY OpenIsClose
  <2> HIDE DEF a
  <2>3. a.cash + left = total
    BY <1>1, <2>2 DEF Worth
  <2>4. AtOpen(a, prices) \in Values
    <3>1. \A i \in Instruments : a.pos[i] \in Int /\ prices[i].open \in Int
      BY <1>1, BarParts DEF Amounts
    <3>2. \A i \in Instruments : a.pos[i] * prices[i].open \in Int
      BY <3>1
    <3>3. QED
      BY <3>2 DEF AtOpen, Values
  <2>5. left \in Int /\ total \in Int /\ a.cash \in Int
    BY <1>1, <2>4, SumInt, NavInt DEF Books
  <2>6. total > 0
    BY <1>3, <2>5 DEF Stuck
  <2> HIDE DEF left, total
  <2>7. total * exposure <= total * 100
    BY <2>5, <2>6
  <2>8. left <= total
    <3> DEFINE e == total * exposure
    <3>1. e \in Int
      BY <2>5
    <3>2. 100 * left <= e /\ e <= total * 100
      BY <2>1, <2>7
    <3> HIDE DEF e
    <3>3. QED
      BY <2>5, <3>1, <3>2
  <2>9. a.cash >= 0
    BY <2>3, <2>5, <2>8
  <2>10. QED
    BY <2>9 DEF a
<1>4. QED
  BY <1>2, <1>3

\* The account comes to owe only for a cause: costs, a skipped small deviation, or
\* a held name that trades away from its close or cannot be sold.
THEOREM OverdraftsHaveCause == AccountSpec => OverdraftNeedsCause
<1>1. AccountInv /\ [AccountNext]_accountVars
        => [book.cash >= 0 /\ book'.cash < 0 => Cause]_accountVars
  <2> SUFFICES ASSUME AccountInv, AccountNext, book.cash >= 0, ~ Cause
               PROVE  ~ (book'.cash < 0)
    BY DEF accountVars
  <2> DEFINE b == Older(book)
  <2>1. AccountInv'
    BY AccountStep
  <2>2. /\ book \in Books /\ book.pos \in Amounts /\ cfg \in Config /\ bars \in Prices
        /\ volume \in Amounts /\ bars' \in Prices /\ book' \in Books
    <3>1. bars' \in Prices
      BY <2>1, InputsAssumption DEF AccountInv, AccountType, Prices
    <3>2. QED
      BY <2>1, <3>1, AccountParts DEF AccountInv, AccountType
  <2>3. book.cash \in Int /\ book'.cash \in Int
    BY <2>2 DEF Books
  <2>4. b \in Books /\ b.pos = book.pos /\ b.cash = book.cash
    BY <2>2, OlderBook
  <2>5. CASE RebalanceDay
    <3>1. PICK active \in BOOLEAN, scale \in {50, 100}, w \in Amounts :
            Total(w) <= Weight /\ Trading(active, scale, w)
      BY <2>5, RebalanceParts
    <3> DEFINE exposure == Exposure(Nav(b, bars), Max({peak, Nav(b, bars)}), active, scale)
               next == bars'
               vols == volume
               a == AfterOrders(b, RebalanceOrders(b, w, next, vols, exposure), next)
    <3>2. book' = a
      BY <3>1 DEF Trading
    <3>3. exposure \in 0 .. 100
      BY <2>2, ExposureFits
    <3>4. Free /\ cfg.threshold <= 0
      <4>1. /\ cfg.spread \in Nat /\ cfg.slip \in Nat /\ cfg.commission \in Nat
            /\ cfg.duty \in Nat /\ cfg.threshold \in Int
        BY <2>2 DEF Config
      <4>2. ~ (cfg.spread + cfg.slip + cfg.commission + cfg.duty > 0) /\ ~ (cfg.threshold > 0)
        BY DEF Cause
      <4> DEFINE x == cfg.spread
                 y == cfg.slip
                 z == cfg.commission
                 d == cfg.duty
                 t == cfg.threshold
      <4>3. /\ x \in Nat /\ y \in Nat /\ z \in Nat /\ d \in Nat /\ t \in Int
            /\ ~ (x + y + z + d > 0) /\ ~ (t > 0)
        BY <4>1, <4>2
      <4> HIDE DEF x, y, z, d, t
      <4>4. x = 0 /\ y = 0 /\ z = 0 /\ d = 0 /\ t <= 0
        BY <4>3
      <4>5. QED
        BY <4>4 DEF Free, x, y, z, d, t
    <3>5. \A i \in Instruments :
            b.pos[i] > 0 => next[i].open = next[i].close /\ Sellable(next[i], b.pos[i])
      BY <2>4 DEF Cause
    <3>6. \A i \in Instruments : Sellable(next[i], b.pos[i])
      BY <3>5 DEF Sellable
    <3>7. next \in Prices /\ vols \in Amounts /\ b.pos \in Amounts /\ b.cash >= 0
      BY <2>2, <2>4
    <3> HIDE DEF exposure, next, vols, b
    <3>8. \A i \in Instruments : b.pos[i] > 0 => next[i].open = next[i].close
      BY <3>5
    <3>9. a.cash >= 0
      BY <2>2, <2>4, <3>1, <3>3, <3>4, <3>6, <3>7, <3>8, TradingKeepsCash
    <3> HIDE DEF a
    <3>10. QED
      BY <2>3, <3>2, <3>9
  <2>6. CASE QuietDay
    <3>1. book' = b
      BY <2>6 DEF QuietDay
    <3>2. QED
      BY <2>3, <2>4, <3>1
  <2>7. CASE DecisionDay
    <3>1. book' = b
      BY <2>7, Zenon DEF DecisionDay
    <3>2. QED
      BY <2>3, <2>4, <3>1
  <2>8. QED
    BY <2>5, <2>6, <2>7 DEF AccountNext
<1>2. AccountInv /\ [AccountNext]_accountVars
        => [book.cash >= 0 /\ book'.cash < 0 =>
              \/ cfg.spread + cfg.slip + cfg.commission + cfg.duty > 0
              \/ cfg.threshold > 0
              \/ \E i \in Instruments : /\ book.pos[i] > 0
                                       /\ \/ bars'[i].open # bars'[i].close
                                          \/ ~Sellable(bars'[i], book.pos[i])]_accountVars
  BY <1>1 DEF Cause
<1>3. QED
  BY <1>2, AccountInvariant, PTL DEF AccountSpec, OverdraftNeedsCause

\* The day a drawdown is reached that DeRisked speaks of, and what it ends with.
Reached ==
  /\ day' = day + 1 /\ ~Deep(nav, peak) /\ Deep(nav', peak')
  /\ cfg.ddForce /\ cfg.ddExposure > 0
  /\ cfg.threshold = 0 /\ cfg.turnover > 0
  /\ (\A i \in Instruments : Sellable(bars'[i], book.pos[i]))
  /\ Nav(book, bars') > 100

Brought ==
  100 * Total([i \in Instruments |-> book'.pos[i] * bars'[i].open])
    <= cfg.ddExposure * Nav(book, bars')

\* On the day a drawdown reaches the threshold, the forced rebalance brings the
\* positions down to the reduced exposure.
THEOREM DrawdownsReduce == AccountSpec => DeRisked
<1>1. AccountInv /\ [AccountNext]_accountVars => [Reached => Brought]_accountVars
  <2> SUFFICES ASSUME AccountInv, AccountNext, Reached
               PROVE  Brought
    BY DEF accountVars
  <2> DEFINE b == Older(book)
             n == Nav(b, bars)
             p == Max({peak, n})
  <2>1. AccountInv'
    BY AccountStep
  <2>2. /\ book \in Books /\ book.pos \in Amounts /\ cfg \in Config /\ bars \in Prices
        /\ volume \in Amounts /\ bars' \in Prices /\ book' \in Books /\ day \in Int
    <3>1. bars' \in Prices
      BY <2>1, InputsAssumption DEF AccountInv, AccountType, Prices
    <3>2. day \in Int
      BY InputsAssumption DEF AccountInv, AccountType
    <3>3. QED
      BY <2>1, <3>1, <3>2, AccountParts DEF AccountInv, AccountType
  <2>3. /\ b \in Books /\ b.pos = book.pos
        /\ \A prices : Nav(b, prices) = Nav(book, prices)
    BY <2>2, OlderBook
  <2>4. CASE RebalanceDay
    <3>1. PICK active \in BOOLEAN, scale \in {50, 100}, w \in Amounts :
            Total(w) <= Weight /\ Trading(active, scale, w)
      BY <2>4, RebalanceParts
    <3>2. nav' = n /\ peak' = p
      <4>1. PICK regimes \in Regimes, next \in NextBars : NewDay(n, p, regimes, next)
        BY <2>4, RebalanceParts
      <4>2. QED
        BY <4>1 DEF NewDay
    <3> DEFINE exposure == Exposure(n, p, active, scale)
               next == bars'
               vols == volume
               a == AfterOrders(b, RebalanceOrders(b, w, next, vols, exposure), next)
               total == Nav(b, next)
    <3>3. book' = a
      BY <3>1 DEF Trading
    <3>4. Deep(n, p) /\ cfg.ddExposure > 0
      BY <3>2 DEF Reached
    <3>5. exposure \in 0 .. 100 /\ exposure <= cfg.ddExposure
      <4> HIDE DEF n, p
      <4>1. QED
        BY <2>2, <3>4, ExposureFits
    <3>6. /\ \A i \in Instruments : Sellable(next[i], b.pos[i])
          /\ total = Nav(book, next) /\ total > 100
          /\ cfg.threshold <= 0 /\ cfg.turnover > 0
      <4>1. cfg.threshold = 0 /\ cfg.threshold \in Int
        BY <2>2 DEF Reached, Config
      <4>2. QED
        BY <2>3, <4>1 DEF Reached
    <3>7. next \in Prices /\ vols \in Amounts /\ b.pos \in Amounts
      BY <2>2, <2>3
    <3> HIDE DEF exposure, next, vols, b, n, p
    <3>8. total \in Int
      BY <2>3, <3>7, NavInt
    <3>9. ~ Stuck(b, Capped(w), next, exposure)
      <4> DEFINE turnover == Turnover(b, Capped(w), next, exposure)
      <4>1. turnover \in Int /\ turnover >= cfg.turnover /\ cfg.turnover \in Int
        BY <2>2, TurnoverInt DEF Config
      <4> DEFINE product == total * turnover
      <4> HIDE DEF turnover, total
      <4>2. turnover >= 1
        BY <3>6, <4>1
      <4>3. product \in Int /\ product > 100
        BY <3>6, <3>8, <4>1, <4>2
      <4> HIDE DEF product
      <4>4. product \div 100 > 0
        BY <4>3
      <4>5. Budget(b, Capped(w), next, exposure) > 0 /\ Budget(b, Capped(w), next, exposure) \in Int
        <5>1. Budget(b, Capped(w), next, exposure) = product \div 100
          BY DEF Budget, product, turnover, total
        <5>2. QED
          BY <4>3, <4>4, <5>1
      <4>6. QED
        BY <3>6, <3>8, <4>5 DEF Stuck, total
    <3>10. 100 * Total(AtOpen(a, next)) <= Nav(b, next) * exposure
      BY <2>2, <2>3, <3>1, <3>5, <3>6, <3>7, <3>9, DayFits
    <3> DEFINE left == Total(AtOpen(a, next))
    <3>11. left \in Int
      <4>1. a \in Books
        BY <2>2, <3>3
      <4> HIDE DEF a
      <4>2. \A i \in Instruments : a.pos[i] \in Int /\ next[i].open \in Int
        BY <3>7, <4>1, BarParts DEF Books, Values
      <4>3. \A i \in Instruments : a.pos[i] * next[i].open \in Int
        BY <4>2
      <4>4. AtOpen(a, next) \in Values
        BY <4>3 DEF AtOpen, Values
      <4>5. QED
        BY <4>4, SumInt
    <3> HIDE DEF a
    <3>12. left = Total([i \in Instruments |-> book'.pos[i] * bars'[i].open])
      BY <3>3 DEF AtOpen, next
    <3> HIDE DEF left, total
    <3>13. 100 * left <= cfg.ddExposure * total
      <4> DEFINE dd == cfg.ddExposure
                 x == total * exposure
                 y == dd * total
      <4>1. dd \in Int /\ exposure <= dd /\ exposure \in Int /\ total > 100
        BY <2>2, <3>5, <3>6 DEF Config
      <4> HIDE DEF dd
      <4>2. x \in Int /\ y \in Int /\ x <= y
        BY <3>8, <4>1
      <4>3. 100 * left <= x
        BY <3>10 DEF left, total
      <4> HIDE DEF x
      <4>4. 100 * left <= y
        BY <3>11, <4>2, <4>3
      <4>5. QED
        BY <4>4 DEF dd
    <3>14. QED
      BY <3>6, <3>12, <3>13 DEF Brought, next
  <2>5. CASE QuietDay
    <3>1. PICK active \in Regimes, next \in NextBars :
            /\ ~ShouldRebalance(Nav(book, bars), Max({peak, Nav(book, bars)}), active)
            /\ NewDay(Nav(book, bars), Max({peak, Nav(book, bars)}), active, next)
      BY <2>5 DEF QuietDay
    <3>2. ~ Crossed(nav', peak')
      BY <3>1 DEF NewDay, ShouldRebalance
    <3>3. QED
      BY <3>2 DEF Crossed, Reached
  <2>6. CASE DecisionDay
    <3>1. day' = day
      BY <2>6, Zenon DEF DecisionDay
    <3>2. QED
      BY <2>2, <3>1 DEF Reached
  <2>7. QED
    BY <2>4, <2>5, <2>6 DEF AccountNext
<1>2. AccountInv /\ [AccountNext]_accountVars
        => [day' = day + 1 /\ ~Deep(nav, peak) /\ Deep(nav', peak')
            /\ cfg.ddForce /\ cfg.ddExposure > 0
            /\ cfg.threshold = 0 /\ cfg.turnover > 0
            /\ (\A i \in Instruments : Sellable(bars'[i], book.pos[i]))
            /\ Nav(book, bars') > 100
            => 100 * Total([i \in Instruments |-> book'.pos[i] * bars'[i].open])
                 <= cfg.ddExposure * Nav(book, bars')]_accountVars
  BY <1>1 DEF Reached, Brought
<1>3. QED
  BY <1>2, AccountInvariant, PTL DEF AccountSpec, DeRisked

================================================================================
