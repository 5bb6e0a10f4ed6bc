---------------------------- MODULE MCEvaluation ----------------------------
EXTENDS Evaluation

TheLimits == [failTrades |-> 1, warnTrades |-> 3, failTurnover |-> 3, warnTurnover |-> 2,
              failDrawdown |-> 3, warnDrawdown |-> 1, failExcess |-> -2, warnExcess |-> 0,
              flagUnderperform |-> TRUE, failOnZeroTrades |-> TRUE]

ThePolicy == [requireFrozen |-> TRUE, frozen |-> TRUE, versioned |-> TRUE,
              minWindows |-> 2, minPassWindows |-> 1, minWalkExcess |-> 0,
              maxWalkDrawdown |-> 2, maxWalkTurnover |-> 2,
              requireValidation |-> TRUE, requireHoldout |-> TRUE,
              minValidation |-> 0, minHoldout |-> 0]

Run(gain, drawdown) == [trades |-> 9, turnover |-> 1, drawdown |-> drawdown, gain |-> gain,
                        market |-> 1, missing |-> FALSE]

\* Clean and strong; clean with a small edge; large gain after a deep drawdown;
\* warned on holdout; no trades on holdout; and never run on holdout.
TheEvidence ==
    {[validation |-> Run(3, 0), holdout |-> Run(3, 0), walk |-> <<Run(2, 0), Run(2, 0)>>],
     [validation |-> Run(2, 0), holdout |-> Run(2, 0), walk |-> <<Run(2, 0), Run(0, 0)>>],
     [validation |-> Run(6, 4), holdout |-> Run(6, 2), walk |-> <<Run(6, 2), Run(6, 2)>>],
     [validation |-> Run(4, 0), holdout |-> Run(4, 2), walk |-> <<Run(2, 0), Run(2, 1)>>],
     [validation |-> Run(3, 0), holdout |-> [Run(0, 0) EXCEPT !.trades = 0],
      walk |-> <<>>],
     [validation |-> Run(3, 0), holdout |-> NoSplit, walk |-> <<Run(2, 0), Run(2, 0)>>]}
==============================================================================
