\* Packets to the subnets of a key that is allowed and of one that is not.
SPECIFICATION Spec
CONSTANTS
  k1 = k1
  k2 = k2
  me = me
  mysub = mysub
  a1 = a1
  a2 = a2
  s1 = s1
  s2 = s2
  other = other
  p1 = p1
  p2 = p2
  p3 = p3
  w1 = w1
  w2 = w2
  None = None
  MyAddress = me
  MySubnet = mysub
  Notifier = actor
  Foreign = {other}
  Allowed = {a1}
  Src <- FromMe
  Key = {k1, k2}
  Address = {me, a1, a2}
  Subnet = {mysub, s1, s2}
  AddrForKey <- TwoAddr
  SubnetForKey <- TwoSubnet
  Packet = {p1, p2}
  Dst <- SubnetDst
  Frame = {}
  Reader = {}
  MaxMTU = 1280
  MTURequest = {}
  Writer = {w1}
  Gen = {g1}
  MaxFired = 1
INVARIANT TrafficToAllowedOnly
\* After Close every call is over and every timer has fired: the system stops.
CHECK_DEADLOCK FALSE
