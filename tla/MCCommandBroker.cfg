\* Two overlapping commands, two sessions, three acknowledgement calls: a
\* duplicate and a call from the wrong session both fit.  No symmetry, for
\* the liveness and the refinement.
SPECIFICATION Spec
CONSTANTS
  Commands = {c1, c2}
  Sessions = {s1, s2}
  Acks = {a1, a2, a3}
  None = None
INVARIANT TypeOK
INVARIANT TableExact
INVARIANT OneTaker
INVARIANT AnswerIsGenuine
INVARIANT MetricsBalance
PROPERTY ContractHolds
PROPERTY EveryDispatchReturns
CHECK_DEADLOCK FALSE
