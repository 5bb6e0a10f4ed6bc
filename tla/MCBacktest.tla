----------------------------- MODULE MCBacktest -----------------------------
EXTENDS Backtest

OneGroup == [i \in Instruments |-> 1]

TheBars == {[open |-> 100, close |-> 100, volume |-> 40],
            [open |-> 100, close |-> 60, volume |-> 40],
            [open |-> 60, close |-> 60, volume |-> 8]}

Base == [topN |-> 1, buffer |-> 0, groupCap |-> 0, minHold |-> 0, relative |-> FALSE,
         minGroup |-> 2, inverse |-> FALSE, maxWeight |-> 60, exposure |-> 100,
         cashBuffer |-> 0, volTarget |-> FALSE, threshold |-> 0, turnover |-> 100,
         deploy |-> 100, advRate |-> 100, frequency |-> 2, ddThreshold |-> 0,
         ddExposure |-> 0, ddForce |-> FALSE, regimeExposure |-> 0, regimeForce |-> FALSE,
         rate |-> 50, partial |-> TRUE, spread |-> 0, slip |-> 0, commission |-> 0,
         duty |-> 0]

\* A slack book, one with costs and caps, and one with every risk overlay.
TheConfigs ==
    {[Base EXCEPT !.buffer = 1, !.minHold = 2, !.frequency = 1],
     [Base EXCEPT !.topN = 2, !.relative = TRUE, !.groupCap = 1, !.maxWeight = 40,
                  !.spread = 2, !.slip = 3, !.commission = 1, !.duty = 5,
                  !.partial = FALSE, !.turnover = 30],
     [Base EXCEPT !.topN = 2, !.minHold = 3, !.ddThreshold = 15, !.ddExposure = 50, !.ddForce = TRUE,
                  !.turnover = 40, !.cashBuffer = 5],
     [Base EXCEPT !.topN = 2, !.inverse = TRUE, !.maxWeight = 40, !.threshold = 5, !.regimeExposure = 30,
                  !.regimeForce = TRUE, !.volTarget = TRUE, !.advRate = 25]}
==============================================================================
