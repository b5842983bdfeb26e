------------------------------- MODULE Tunnel -------------------------------
(***************************************************************************)
(* What the tunnel endpoint of src/ipv6rwc promises its two sides, with no *)
(* maps, timers or goroutines: a packet that may be sent is held, then     *)
(* written at most once, to a key that owns its destination, or lost; one  *)
(* that may not be sent is refused; and only trusted frames are delivered. *)
(* Delivery is not promised (an unanswered lookup loses the packet), order *)
(* between packets is not promised, but holding a packet for ever is ruled *)
(* out.                                                                    *)
(***************************************************************************)
EXTENDS Sequences

CONSTANTS
  Packet,     \* packets this node may try to send
  Key,        \* keys of remote nodes
  Dst,        \* the destination of each packet
  Permitted,  \* the packets the endpoint accepts
  Reach,      \* for each packet, the keys that own its destination
  Frame,      \* what the network may bring
  Trusted     \* the frames that may be delivered

VARIABLES
  fate,       \* what has become of each packet
  wire,       \* the keys each packet was written to
  delivered   \* the frames delivered

vars == <<fate, wire, delivered>>

Init ==
  /\ fate = [p \in Packet |-> "new"]
  /\ wire = [p \in Packet |-> <<>>]
  /\ delivered = {}

Refuse(p) ==
  /\ fate[p] = "new"
  /\ p \notin Permitted
  /\ fate' = [fate EXCEPT ![p] = "refused"]
  /\ UNCHANGED <<wire, delivered>>

\* Accepting p may cost a packet held for the same destination.
Accept(p, q) ==
  /\ fate[p] = "new"
  /\ p \in Permitted
  /\ q = p \/ (fate[q] = "held" /\ Dst[q] = Dst[p])
  /\ fate' = [fate EXCEPT ![q] = "lost", ![p] = "held"]
  /\ UNCHANGED <<wire, delivered>>

Transmit(p, k) ==
  /\ fate[p] = "held"
  /\ k \in Reach[p]
  /\ fate' = [fate EXCEPT ![p] = "sent"]
  /\ wire' = [wire EXCEPT ![p] = Append(@, k)]
  /\ UNCHANGED delivered

Lose(p) ==
  /\ fate[p] = "held"
  /\ fate' = [fate EXCEPT ![p] = "lost"]
  /\ UNCHANGED <<wire, delivered>>

Deliver(f) ==
  /\ f \in Trusted
  /\ delivered' = delivered \cup {f}
  /\ UNCHANGED <<fate, wire>>

Next ==
  \/ \E p \in Packet : Refuse(p) \/ Lose(p)
  \/ \E p, q \in Packet : Accept(p, q)
  \/ \E p \in Packet, k \in Key : Transmit(p, k)
  \/ \E f \in Frame : Deliver(f)

Spec == Init /\ [][Next]_vars

\* A held packet is sent or lost in the end.
HeldSettles ==
  \A p \in Packet : fate[p] = "held" ~> fate[p] \in {"sent", "lost"}
=============================================================================
