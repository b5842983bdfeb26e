\* A client whose flag is an endpoint that is not supported.
SPECIFICATION ClientSpec
CONSTANTS
  Platforms = {"unix"}
  MaxLives = 1
  File = {"absent"}
  Flag = {"default", "bad"}
INVARIANT FatalIsTold
\* After the last launch nothing happens.
CHECK_DEADLOCK FALSE
