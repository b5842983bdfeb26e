\* The configurations that the binding makes itself.
SPECIFICATION Spec
CONSTANTS
  Config = {"empty", "generated"}
  MaxMade = 3
INVARIANT OwnConfigsStart
\* After a panic nothing happens.
CHECK_DEADLOCK FALSE
