------------------------------ MODULE Ranking ------------------------------
(* What both the backtest and the decisions on candidates do with lists:       *)
(* Python's sum() of a list of numbers, and sorted() by a key.                 *)
EXTENDS Integers, Sequences, FiniteSets

Total(s) == LET sum[n \in 0 .. Len(s)] == IF n = 0 THEN 0 ELSE sum[n - 1] + s[n]
            IN  sum[Len(s)]

\* Keys are tuples of one length, compared component by component.
Above(s, t) == \E k \in DOMAIN s : s[k] > t[k] /\ \A j \in 1 .. k - 1 : s[j] = t[j]

\* sorted(..., reverse=True) by key, which keeps the order of equals.
Before(key, c, d) == Above(key[c], key[d]) \/ (key[c] = key[d] /\ c < d)
Place(S, key, c)  == 1 + Cardinality({d \in S : Before(key, d, c)})
Sorted(S, key)    == [k \in 1 .. Cardinality(S) |-> CHOOSE c \in S : Place(S, key, c) = k]

==============================================================================
