\* Every configuration, calls by turns and in any order.
SPECIFICATION FairSpec
CONSTANTS
  Config = {"empty", "generated", "garbage", "malformed", "quiet", "full"}
  MaxMade = 6
INVARIANT MInv
INVARIANT NothingLost
INVARIANT StopLeavesNothing
INVARIANT OnlyStartPanics
INVARIANT ServesCurrent
PROPERTY RecvReturns
\* After a panic nothing happens.
CHECK_DEADLOCK FALSE
