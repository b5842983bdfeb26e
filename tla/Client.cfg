\* The three platforms, and three launches one after the other.
SPECIFICATION FairClient
CONSTANTS
  Platforms = {"darwin", "unix", "windows"}
  MaxLives = 3
  File = {"missing", "garbage", "absent", "none", "tcp"}
  Flag = {"default", "unix", "tcp", "bad"}
INVARIANT ClientTypeOK
INVARIANT CoreOutlivesParts
INVARIANT DropsAllOrNothing
INVARIANT CleanExit
INVARIANT CallbackWaits
INVARIANT FindsTheNode
PROPERTY EveryStopEnds
PROPERTY WaitEnds
\* After the last launch nothing happens.
CHECK_DEADLOCK FALSE
