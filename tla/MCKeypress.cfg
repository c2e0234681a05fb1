CONSTANTS
  Delays <- MCDelays
  Keys <- AnyKey
  IntMax = 3
  MaxTyped = 2
SPECIFICATION WaitFairSpec
INVARIANTS TerminalRestored StrayAlarmOnlyAfterNul VerdictIsEarned NeverKilled WaitIsBounded
PROPERTY KeypressReturns
CHECK_DEADLOCK FALSE
