\* A fleet of three and of two, one packet lost, under fairness of the pinger.
SPECIFICATION FairFleet
CONSTANTS
  n1 = n1
  n2 = n2
  n3 = n3
  s1 = s1
  s2 = s2
  s3 = s3
  short = short
  k1 = k1
  k2 = k2
  k3 = k3
  q1 = q1
  q2 = q2
  q3 = q3
  nil = nil
  Name = {n1, n2, n3}
  Secret = {s1, s2, s3, short}
  Whole = {s1, s2, s3}
  PublicKey = {k1, k2, k3}
  Public <- Keys
  Input <- Lists
  Peer = {q1, q2, q3}
  Manual <- ByHand
  MaxRuns = 2
  Order <- Everyone
  MaxLost = 1
INVARIANT FleetInv
INVARIANT FilesAgree
INVARIANT DialsAccepted
INVARIANT RunIsWhole
INVARIANT AnswersAreMutual
PROPERTY RevokedCutOff
PROPERTY AllReceived
PROPERTY TestEnds
\* The system may stop: the test is over, no run is left, and no file is one to
\* launch a node with.
CHECK_DEADLOCK FALSE
