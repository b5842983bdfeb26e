--------------------------- MODULE KeyStoreTunnel ---------------------------
(***************************************************************************)
(* KeyStore implements Tunnel: the fate of a packet, read off the state of *)
(* the key store.                                                          *)
(***************************************************************************)
EXTENDS KeyStore

\* p is in one of the buffer maps.
Kept(p) == \E d \in Dest : buffers[d] # None /\ buffers[d].packet = p

\* p is held by a goroutine that is about to write it.
Outgoing(p) == \E t \in Thread : p \in run[t].out

Fate(p) ==
  IF verdict[p] # "accepted" THEN verdict[p]
  ELSE IF wire[p] # <<>> THEN "sent"
  ELSE IF Kept(p) \/ Outgoing(p) THEN "held"
  ELSE "lost"

fate == [p \in Packet |-> Fate(p)]

\* The packets a node may send: from itself, to an allowed address or to any
\* subnet.
Permitted ==
  {p \in Packet : /\ Src[p] \in {MyAddress, MySubnet}
                  /\ Dst[p] \in Allowed \cup Subnet}

\* The frames it may receive: to itself, from the address of an allowed key.
Trusted ==
  {f \in Frame : /\ f.dst \in {MyAddress, MySubnet}
                 /\ AddrForKey[f.from] \in Allowed
                 /\ f.src = AddrForKey[f.from]}

Reach == [p \in Packet |-> {k \in Key : Owns(k, Dst[p])}]

T == INSTANCE Tunnel WITH
  Packet <- Packet, Key <- Key, Dst <- Dst, Permitted <- Permitted, Reach <- Reach,
  Frame <- Frame, Trusted <- Trusted,
  fate <- fate, wire <- wire, delivered <- delivered

\* Every step of the key store is a step of the tunnel or leaves it as it is:
\* whatever the goroutines and timers interleave, a packet is written once, to
\* an owner of its destination, and only what is allowed passes.
ImplementsTunnel == T!Spec

\* Every packet that is kept or about to be written is written or lost in the
\* end, because every buffer has a timer and every goroutine goes on.
PacketsSettle == T!HeldSettles
=============================================================================
