--------------------------- MODULE MCSupervision ---------------------------
EXTENDS Supervision

\* One family in the queue, one that waits for its bootstrap.
MCFirstApproval == [f \in Family |-> "approved"]

\* Family 2 names a priority that an entry already has.
MCGivenPriority == [f \in Family |-> IF f = 2 THEN 1 ELSE 0]

\* The built-in default plan is that of family 1; that of family 2 is its own.
MCCovers == [x \in Plan |-> IF x = BuiltIn THEN {1} ELSE {x}]
=============================================================================
