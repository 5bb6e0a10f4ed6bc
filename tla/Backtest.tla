------------------------------ MODULE Backtest ------------------------------
(* The simulated account: trotters_trader/backtest.py with the allocator, the  *)
(* selection of strategy.py, execution.py and portfolio.py.  One step is one   *)
(* pass of the loop over the trading dates.  Money is an integer number of     *)
(* pence, a weight a number of sixtieths, a percentage an integer; divisions   *)
(* round down.  Prices, scores and the state of the market are inputs.         *)
EXTENDS Ranking, Integers, Sequences, SequencesExt, FiniteSetsExt

CONSTANTS Size,          \* how many instruments there are
          Group,         \* the sector of an instrument
          Bars,          \* the daily bars the data may hold
          Configs,       \* the configurations of portfolio and execution
          InitialCash,
          LastDay        \* index of the last trading date

Weight == 60             \* the whole portfolio, in units of weight

Instruments == 1 .. Size \* in the order of their names

\* An instrument with no bar on a date: it cannot be traded and is worth nothing.
NoBar == [open |-> 0, close |-> 0, volume |-> 0]

\* What load_daily_bars accepts: positive prices, volume not negative.
ValidBar == [open : Nat \ {0}, close : Nat \ {0}, volume : Nat]

\* PortfolioConfig and ExecutionConfig: nothing that is charged, capped or
\* filled is negative; exposures and thresholds are clipped where they are used.
Config == [topN : Nat, buffer : Nat, groupCap : Nat, minHold : Nat, relative : BOOLEAN,
           minGroup : Nat, inverse : BOOLEAN, maxWeight : Nat, exposure : Int,
           cashBuffer : Int, volTarget : BOOLEAN, threshold : Int, turnover : Int,
           deploy : Int, advRate : Nat, frequency : Int, ddThreshold : Int,
           ddExposure : Int, ddForce : BOOLEAN, regimeExposure : Int,
           regimeForce : BOOLEAN, rate : Nat, partial : BOOLEAN, spread : Nat,
           slip : Nat, commission : Nat, duty : Nat]

ASSUME InputsAssumption ==
    /\ Size \in Nat /\ InitialCash \in Nat \ {0} /\ LastDay \in Nat
    /\ Bars \subseteq ValidBar /\ Configs \subseteq Config

VARIABLES cfg,       \* the configuration of this run
          day,       \* index of the trading date
          bars,      \* today's bars
          volume,    \* volume of each instrument's latest bar so far
          book,      \* PortfolioState: cash, positions, total cost, holding days
          peak,      \* peak_nav
          nav,       \* current_nav, for the prior drawdown
          regime,    \* prior_benchmark_regime_active
          package    \* the decision package: projected positions and actions

accountVars == <<cfg, day, bars, volume, book, peak, nav, regime, package>>

------------------------------------------------------------------------------
(* Selection: strategy.py. *)

\* By score, then by name.
ByScore(scores) == [i \in Instruments |-> <<scores[i]>>]

Peers(S, i) == {j \in S : Group[j] = Group[i]}

\* Groups with enough candidates take turns, best group first.
GroupRanked(scores, S) ==
    LET big == {i \in S : Cardinality(Peers(S, i)) >= Max({cfg.minGroup, 1})}
        Leader(i) == Sorted(Peers(S, i), ByScore(scores))[1]
        Depth(i) == Place(Peers(S, i), ByScore(scores), i)
    IN IF big = {} THEN Sorted(S, ByScore(scores))
       ELSE Sorted(big, [i \in big |-> <<0 - Depth(i), scores[Leader(i)], 0 - Leader(i)>>])

RankedScores(scores) ==
    LET positive == {i \in Instruments : scores[i] > 0}
    IN IF cfg.relative THEN GroupRanked(scores, positive)
       ELSE Sorted(positive, ByScore(scores))

\* _protected_holdings: held and near the top, or held for too short a time.
Protected(ranking, b) ==
    LET head == SubSeq(ranking, 1, Min({Len(ranking), cfg.topN + cfg.buffer}))
    IN {i \in ToSet(ranking) :
          /\ b.pos[i] > 0
          /\ \/ cfg.buffer > 0 /\ i \in ToSet(head)
             \/ b.held[i] < cfg.minHold}

GroupFull(S, i) == cfg.groupCap > 0 /\ Cardinality(Peers(S, i)) >= cfg.groupCap

Selected(ranking, b) ==
    LET keep == Protected(ranking, b)
        limit == Max({cfg.topN + cfg.buffer, Cardinality(keep)})
        Keep(S, i) == IF i \in keep /\ ~GroupFull(S, i) THEN S \union {i} ELSE S
        Fill(S, i) == IF Cardinality(S) < limit /\ ~GroupFull(S, i)
                      THEN S \union {i} ELSE S
    IN FoldLeft(Fill, FoldLeft(Keep, {}, ranking), ranking)

\* An amount divided in proportion to f.
Shared(amount, f) ==
    LET total == Total(f)
    IN [i \in Instruments |-> IF total = 0 THEN 0 ELSE (amount * f[i]) \div total]

\* Mutant: each name gets the weight of a basket of top_n names.
WeightsByTopN(S, vol) == [i \in Instruments |-> IF i \in S THEN Weight \div cfg.topN ELSE 0]

\* build_target_weights over the selected names; vol[i] = 0 leaves i out.
TargetWeights(S, vol) ==
    LET share == [i \in Instruments |->
                    IF i \notin S THEN 0
                    ELSE IF cfg.inverse THEN IF vol[i] = 0 THEN 0 ELSE 2 \div vol[i]
                    ELSE 1]
    IN Shared(Weight, share)

------------------------------------------------------------------------------
(* Orders: allocator.py. *)

\* The terms of a sum over the names in R.
Only(R, f) == [i \in Instruments |-> IF i \in R THEN f[i] ELSE 0]

\* _redistribute_capped_weights: cap what exceeds the maximum, spread the rest.
\* Every round but the last caps a name, so that Size rounds are enough.
Capped(w) ==
    LET positive == {i \in Instruments : w[i] > 0}
        total == Min({Total(Only(positive, w)), cfg.maxWeight * Cardinality(positive)})
        full == [i \in Instruments |-> cfg.maxWeight]
        Left(R) == total - Total(Only(positive \ R, full))
        Scaled(R) == Shared(Left(R), Only(R, w))
        Uncapped(R) == LET scaled == Scaled(R)
                       IN IF Left(R) <= 0 THEN R ELSE {i \in R : scaled[i] < cfg.maxWeight}
        free[k \in 0 .. Size] == IF k = 0 THEN positive ELSE Uncapped(free[k - 1])
        rest == free[Size]
        last == IF Left(rest) <= 0 THEN [i \in Instruments |-> 0] ELSE Scaled(rest)
    IN [i \in Instruments |-> IF i \in positive \ rest THEN cfg.maxWeight ELSE last[i]]

Nav(b, prices) == b.cash + Total([i \in Instruments |-> b.pos[i] * prices[i].close])

\* current_drawdown >= drawdown_reduce_threshold
Deep(n, p) == cfg.ddThreshold > 0 /\ 100 * (p - n) >= cfg.ddThreshold * p

\* Both overlays, the cash buffer and the volatility target, in percent.
Exposure(n, p, active, scale) ==
    LET drawn == IF Deep(n, p) /\ cfg.ddExposure > 0 THEN Min({cfg.exposure, cfg.ddExposure})
                 ELSE cfg.exposure
        calm  == IF active THEN Min({drawn, cfg.regimeExposure}) ELSE drawn
        limit == Min({Max({0, 100 - cfg.cashBuffer}), 100})
    IN (Max({0, Min({calm, limit})}) * scale) \div 100

Abs(x) == IF x < 0 THEN -x ELSE x

\* How far a name is from the weight it should have, as value times Weight.
Deviation(b, capped, prices) ==
    LET total == Nav(b, prices)
    IN [i \in Instruments |->
          Abs(capped[i] * total - Weight * b.pos[i] * prices[i].close)]

\* The quantity to hold: its weight of the investable value at the open, and
\* no more than its share of the traded volume; a name without a bar is kept.
Target(b, capped, prices, vols, exposure) ==
    LET investable == Nav(b, prices) * exposure
    IN [i \in Instruments |->
          IF prices[i] = NoBar THEN b.pos[i]
          ELSE Min({(investable * capped[i]) \div (100 * Weight * prices[i].open),
                    (vols[i] * cfg.advRate) \div 100})]

\* The share of the portfolio that the buys of a day may spend, in percent.
Turnover(b, capped, prices, exposure) ==
    LET total == Nav(b, prices)
        goal == Min({Total(capped) * exposure, 100 * Weight})
    IN IF (total - b.cash) * Weight * 1000 < 8 * total * goal
       THEN Max({cfg.deploy, cfg.turnover}) ELSE cfg.turnover

\* _apply_turnover_budget for the buys: the order that breaks the budget is cut,
\* and an order of nothing is none.
WithinBudget(buys, quantity, prices, budget) ==
    LET Room(acc, i) == (budget - acc.spent) \div prices[i].open
        Spend(acc, i) ==
            LET q == IF acc.full \/ Room(acc, i) <= 0 THEN 0
                     ELSE Min({quantity[i], Room(acc, i)})
            IN [qty |-> q, spent |-> acc.spent + q * prices[i].open,
                full |-> acc.full \/ (q > 0 /\ q < quantity[i])]
        acc[k \in 0 .. Len(buys)] ==
            IF k = 0 THEN [qty |-> 0, spent |-> 0, full |-> FALSE]
            ELSE Spend(acc[k - 1], buys[k])
    IN [k \in 1 .. Len(buys) |-> [name |-> buys[k], side |-> "BUY", qty |-> acc[k].qty]]

\* The names to trade: what deviates enough, largest deviation first.
Moved(b, target, deviation, prices) ==
    {i \in Instruments : /\ target[i] # b.pos[i]
                         /\ 100 * deviation[i] >= cfg.threshold * Weight * Nav(b, prices)}

\* build_rebalance_orders: sales first, then buys.
RebalanceOrders(b, w, prices, vols, exposure) ==
    LET capped == Capped(w)
        target == Target(b, capped, prices, vols, exposure)
        deviation == Deviation(b, capped, prices)
        quantity == [i \in Instruments |-> Abs(target[i] - b.pos[i])]
        moved == Moved(b, target, deviation, prices)
        sales == Sorted({i \in moved : target[i] < b.pos[i]}, ByScore(deviation))
        buys == Sorted({i \in moved : target[i] > b.pos[i]}, ByScore(deviation))
        budget == (Nav(b, prices) * Turnover(b, capped, prices, exposure)) \div 100
    IN IF Nav(b, prices) <= 0 \/ budget <= 0 THEN <<>>
       ELSE [k \in 1 .. Len(sales) |->
               [name |-> sales[k], side |-> "SELL", qty |-> quantity[sales[k]]]]
            \o WithinBudget(buys, quantity, prices, budget)

------------------------------------------------------------------------------
(* Fills: execution.py and portfolio.py. *)

MaxFill(bar) == (bar.volume * cfg.rate) \div 100

Filled(o, bar) ==
    IF MaxFill(bar) <= 0 THEN 0
    ELSE IF o.qty <= MaxFill(bar) THEN o.qty ELSE IF cfg.partial THEN MaxFill(bar) ELSE 0

\* Half the spread, and slippage that doubles at full participation.
FillPrice(o, q, bar) ==
    LET part == bar.volume * cfg.rate
        adjustment == (bar.open * (cfg.spread * part + cfg.slip * (part + 100 * q)))
                        \div (100 * part)
    IN IF o.side = "BUY" THEN bar.open + adjustment ELSE bar.open - adjustment

Fees(o, notional) ==
    (notional * (cfg.commission + (IF o.side = "BUY" THEN cfg.duty ELSE 0))) \div 100

\* Mutant: the cost of a position leaves out the fees of buying it.
BuyWithoutFees(b, o, q, notional, fees) ==
    [b EXCEPT !.pos[o.name] = @ + q, !.cost[o.name] = @ + notional,
              !.held[o.name] = IF b.pos[o.name] = 0 THEN 0 ELSE @,
              !.cash = @ - notional - fees]

Buy(b, o, q, notional, fees) ==
    [b EXCEPT !.pos[o.name] = @ + q, !.cost[o.name] = @ + notional + fees,
              !.held[o.name] = IF b.pos[o.name] = 0 THEN 0 ELSE @,
              !.cash = @ - notional - fees]

\* A sale realises its share of the average cost, which is zero without a position;
\* a position sold out is forgotten.
Sell(b, o, q, notional, fees) ==
    LET sold == IF b.pos[o.name] <= 0 THEN 0 ELSE (b.cost[o.name] * q) \div b.pos[o.name]
    IN [b EXCEPT !.pos[o.name] = @ - q, !.cost[o.name] = @ - sold,
                 !.held[o.name] = IF b.pos[o.name] = q THEN 0 ELSE @,
                 !.cash = @ + notional - fees,
                 !.realized = @ + notional - fees - sold]

ApplyFill(b, o, bar) ==
    LET q == Filled(o, bar)
        notional == q * FillPrice(o, q, bar)
    IN IF q = 0 THEN b
       ELSE IF o.side = "BUY" THEN Buy(b, o, q, notional, Fees(o, notional))
       ELSE Sell(b, o, q, notional, Fees(o, notional))

AfterOrders(b, orders, prices) ==
    LET after[k \in 0 .. Len(orders)] ==
          IF k = 0 THEN b ELSE ApplyFill(after[k - 1], orders[k], prices[orders[k].name])
    IN after[Len(orders)]

------------------------------------------------------------------------------
(* The loop of run_backtest and of build_daily_decision_package. *)

NoPackage == [projected |-> <<>>, action |-> <<>>]

Zero == [i \in Instruments |-> 0]

AccountInit ==
    /\ cfg \in Configs
    /\ day = 0
    /\ bars \in [Instruments -> Bars \union {NoBar}]
    /\ \E i \in Instruments : bars[i] # NoBar
    /\ volume = [i \in Instruments |-> bars[i].volume]
    /\ book = [cash |-> InitialCash, pos |-> Zero, cost |-> Zero, held |-> Zero,
               realized |-> 0]
    /\ peak = InitialCash
    /\ nav = InitialCash
    /\ regime = FALSE
    /\ package = NoPackage

\* advance_holding_days: every position is a day older.
Older(b) == [b EXCEPT !.held = [i \in Instruments |-> IF b.pos[i] > 0 THEN @[i] + 1 ELSE 0]]

\* Mutant: only a drawdown that was there before today forces a rebalance.
CrossedBefore(n, p) == cfg.ddForce /\ Deep(nav, peak) /\ Deep(n, p)

\* The drawdown reaches the threshold today.
Crossed(n, p) == cfg.ddForce /\ ~Deep(nav, peak) /\ Deep(n, p)

ShouldRebalance(n, p, active) ==
    \/ day % Max({cfg.frequency, 1}) = 0
    \/ Crossed(n, p)
    \/ cfg.regimeForce /\ active /\ ~regime

\* Each date of the calendar has a bar of some instrument.
NextBars == {b \in [Instruments -> Bars \union {NoBar}] : \E i \in Instruments : b[i] # NoBar}

\* What the passes over the history may yield: scores and volatilities (only the
\* target weights they lead to matter), the state of the benchmark, and the scale
\* of the volatility target.
Desires(b) ==
    {TargetWeights(Selected(RankedScores(scores), b), vol) :
       scores \in [Instruments -> 0..2],
       vol \in IF cfg.inverse THEN [Instruments -> 0..2] ELSE {Zero}}

Regimes == IF cfg.regimeExposure > 0 THEN BOOLEAN ELSE {FALSE}

Scales == IF cfg.volTarget THEN {50, 100} ELSE {100}

\* The part of a pass both kinds of day share.
NewDay(n, p, active, next) ==
    /\ day' = day + 1
    /\ bars' = next
    /\ volume' = [i \in Instruments |-> IF next[i] = NoBar THEN volume[i] ELSE next[i].volume]
    /\ peak' = p
    /\ nav' = n
    /\ regime' = active
    /\ UNCHANGED <<cfg, package>>

RebalanceDay ==
    /\ day < LastDay
    /\ LET b == Older(book)
           n == Nav(b, bars)
           p == Max({peak, n})
       IN \E active \in Regimes :
            /\ ShouldRebalance(n, p, active)
            /\ \E w \in Desires(b), next \in NextBars, scale \in Scales :
                 LET orders == RebalanceOrders(b, w, next, volume,
                                               Exposure(n, p, active, scale))
                 IN /\ book' = AfterOrders(b, orders, next)
                    /\ NewDay(n, p, active, next)

\* No orders: the scores of the day are not looked at.
QuietDay ==
    /\ day < LastDay
    /\ \E next \in NextBars, active \in Regimes :
         LET n == Nav(book, bars)
             p == Max({peak, n})
         IN /\ ~ShouldRebalance(n, p, active)
            /\ book' = Older(book)
            /\ NewDay(n, p, active, next)

\* _daily_decision_action
Action(current, projected) ==
    IF current <= 0 /\ projected > 0 THEN "add"
    ELSE IF current > 0 /\ projected <= 0 THEN "exit"
    ELSE IF projected > current THEN "increase"
    ELSE IF projected < current THEN "trim" ELSE "hold"

\* The last date: what would be ordered at its own prices, and nothing is filled.
DecisionDay ==
    /\ day = LastDay /\ package = NoPackage
    /\ LET b == Older(book)
           n == Nav(b, bars)
           p == Max({peak, n})
           Planned(q, o) == [q EXCEPT ![o.name] = IF o.side = "BUY" THEN @ + o.qty
                                                  ELSE @ - o.qty]
       IN \E w \in Desires(b), active \in Regimes, scale \in Scales :
            LET orders == RebalanceOrders(b, w, bars, volume, Exposure(n, p, active, scale))
                after == FoldLeft(Planned, b.pos, orders)
            IN /\ book' = b
               /\ package' = [projected |-> after,
                              action |-> [i \in Instruments |-> Action(b.pos[i], after[i])]]
               /\ peak' = p
               /\ nav' = n
               /\ regime' = active
    /\ UNCHANGED <<cfg, day, bars, volume>>

AccountNext == RebalanceDay \/ QuietDay \/ DecisionDay

AccountSpec == AccountInit /\ [][AccountNext]_accountVars

------------------------------------------------------------------------------
(* Properties. *)

\* The books balance: what the account holds in cash and has paid for its
\* positions is the initial cash plus the profit its closed trades report,
\* through any sequence of fills, partial fills and costs (portfolio.apply_fill).
BooksBalance == book.cash + Total(book.cost) = InitialCash + book.realized

Sellable(bar, q) == q > 0 => bar # NoBar /\ q <= MaxFill(bar)

\* The account borrows only for a reason: nothing checks the cash before a buy,
\* so that it stays non-negative rests on the weights, the exposure and the
\* sales.  A day that overdraws it has trading costs, a held name whose close
\* differs from its open, one that cannot be sold, or a skipped small deviation.
OverdraftNeedsCause ==
    [][book.cash >= 0 /\ book'.cash < 0 =>
         \/ cfg.spread + cfg.slip + cfg.commission + cfg.duty > 0
         \/ cfg.threshold > 0
         \/ \E i \in Instruments : /\ book.pos[i] > 0
                                  /\ \/ bars'[i].open # bars'[i].close
                                     \/ ~Sellable(bars'[i], book.pos[i])]_accountVars

\* On the very day a drawdown reaches the threshold a forced rebalance brings
\* the positions down to the reduced exposure, whatever the frequency, the
\* turnover budget, holding periods and selection say, if each position can be
\* sold and no deviation is too small to trade.
DeRisked ==
    [][day' = day + 1 /\ ~Deep(nav, peak) /\ Deep(nav', peak')
       /\ cfg.ddForce /\ cfg.ddExposure > 0
       /\ cfg.threshold = 0 /\ cfg.turnover > 0
       /\ (\A i \in Instruments : Sellable(bars'[i], book.pos[i]))
       /\ Nav(book, bars') > 100
       => 100 * Total([i \in Instruments |-> book'.pos[i] * bars'[i].open])
            <= cfg.ddExposure * Nav(book, bars')]_accountVars

==============================================================================
