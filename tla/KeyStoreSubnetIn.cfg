\* Frames from the address and from the subnet of an allowed key.
SPECIFICATION Spec
CONSTANTS
  k1 = k1
  k2 = k2
  me = me
  mysub = mysub
  a1 = a1
  a2 = a2
  s1 = s1
  s2 = s2
  other = other
  p1 = p1
  p2 = p2
  p3 = p3
  w1 = w1
  w2 = w2
  None = None
  MyAddress = me
  MySubnet = mysub
  Notifier = actor
  Foreign = {other}
  Allowed = {a1}
  Src <- FromMe
  Key = {k1}
  Address = {me, a1}
  Subnet = {mysub, s1}
  AddrForKey <- OneAddr
  SubnetForKey <- OneSubnet
  Packet = {p1}
  Dst <- ToAddr
  Frame <- SubnetFrames
  Reader = {r}
  MaxMTU = 1280
  MTURequest = {}
  Writer = {w1}
  Gen = {g1}
  MaxFired = 1
PROPERTY TrafficFromAllowedDelivered
\* After Close every call is over and every timer has fired: the system stops.
CHECK_DEADLOCK FALSE
