------------------------------ MODULE KeyStore ------------------------------
(***************************************************************************)
(* The tunnel endpoint of the node, src/ipv6rwc/ipv6rwc.go: the keyStore,  *)
(* its timers, and the goroutines that run readPC, writePC and the path    *)
(* notification.                                                           *)
(*                                                                         *)
(* Every access to the maps, to the timers' fields and to mtu is made with *)
(* k.mutex held, and nothing blocks while it is held; so one critical      *)
(* section is one action.  What the code does outside the mutex, the calls *)
(* to core.WriteTo and core.SendLookup and the checks made after update    *)
(* returned, are actions of their own, and other goroutines and timers run *)
(* in between.                                                             *)
(*                                                                         *)
(* addrToInfo and subnetToInfo, addrBuffer and subnetBuffer, and           *)
(* sendToAddress and sendToSubnet are the same code over two disjoint key  *)
(* spaces (200::/8 addresses and 300::/8 prefixes): the model has one map  *)
(* over Dest == Address \cup Subnet for each pair.                         *)
(*                                                                         *)
(* A definition Mutant_X_... is X with a plausible fault.  No action uses  *)
(* it; each property below is violated when one of them takes X's place.   *)
(***************************************************************************)
EXTENDS Naturals, Sequences, FiniteSets

CONSTANTS
  Key,            \* public keys of remote nodes
  Address,        \* address.Address values that are valid (200::/8)
  Subnet,         \* address.Subnet values that are valid (300::/8, 64 bits)
  Foreign,        \* endpoints of IPv6 headers that are neither
  AddrForKey,     \* address.AddrForKey, [Key -> Address]
  SubnetForKey,   \* address.SubnetForKey, [Key -> Subnet]
  MyAddress,      \* k.address
  MySubnet,       \* k.subnet
  Allowed,        \* filter.allowedAddresses, a set of addresses
  Packet,         \* IPv6 packets handed to writePC, each written once
  Src, Dst,       \* [Packet -> Endpoint], their headers
  Frame,          \* packets that core.ReadFrom may return
  Writer,         \* goroutines that call writePC
  Reader,         \* goroutines that call readPC
  Notifier,       \* the actor of the core that runs the path notification
  MaxMTU,         \* core.MTU()
  MTURequest,     \* arguments SetMTU may be called with
  Gen,            \* identities of allocated keyInfo and buffer objects
  MaxFired,       \* bound: callbacks of one object waiting for the mutex
  None            \* nil

Dest == Address \cup Subnet

Endpoint == Dest \cup Foreign

Thread == Writer \cup Reader \cup {Notifier}

MinMTU == 1280

ASSUME KeyStoreAssumption ==
  /\ AddrForKey \in [Key -> Address]
  /\ SubnetForKey \in [Key -> Subnet]
  /\ Address \cap Subnet = {}
  /\ Foreign \cap Dest = {}
  /\ MyAddress \in Address
  /\ MySubnet \in Subnet
  /\ Allowed \subseteq Address
  /\ Src \in [Packet -> Endpoint]
  /\ Dst \in [Packet -> Endpoint]
  /\ Frame \subseteq [from : Key, src : Endpoint, dst : Endpoint, len : Nat]
  /\ Notifier \notin Writer \cup Reader
  /\ Writer \cap Reader = {}
  /\ MaxMTU \in Nat /\ MaxMTU >= MinMTU
  /\ MTURequest \subseteq Nat
  /\ MaxFired \in Nat \ {0}
  /\ None \notin Key \cup Gen \cup Dest \cup Packet \cup Frame
  /\ None \notin [key : Key, gen : Gen]
  /\ None \notin [gen : Gen, packet : Packet]

VARIABLES
  keyToInfo,   \* k.keyToInfo: which keyInfo object a key has, if any
  toInfo,      \* k.addrToInfo and k.subnetToInfo
  infoTimer,   \* info.timeout of every keyInfo object
  buffers,     \* k.addrBuffer and k.subnetBuffer: the object and its packet
  bufTimer,    \* buf.timeout of every buffer object
  mtu,         \* k.mtu
  run,         \* what each goroutine is doing outside the mutex
  closed,      \* the core was closed
  lookups,     \* lookups the core was asked for and has not answered
  wire,        \* the keys each packet was written to, in order
  verdict,     \* what writePC answered for each packet
  delivered    \* frames readPC returned to its caller

storeVars == <<keyToInfo, toInfo, infoTimer, buffers, bufTimer>>

vars == <<keyToInfo, toInfo, infoTimer, buffers, bufTimer, mtu, run, closed,
          lookups, wire, verdict, delivered>>

-----------------------------------------------------------------------------
(* Objects, timers and goroutines.                                         *)

\* A keyInfo object: its immutable key, and which allocation for it.
Info == [key : Key, gen : Gen]

\* What a buffer map holds: the object and the packet stored in it.
Buffer == [gen : Gen, packet : Packet]

\* The timers one object ever had: whether the current one is pending, and
\* how many callbacks have started but not yet taken the mutex.
Timer == [armed : BOOLEAN, fired : Nat]

NoTimer == [armed |-> FALSE, fired |-> 0]

\* timeout.Stop() and time.AfterFunc: a callback that started is not recalled.
Mutant_Restart_NotArmed(tm) == [armed |-> FALSE, fired |-> tm.fired]
Restart(tm) == [armed |-> TRUE, fired |-> tm.fired]

Fire(tm) == [armed |-> FALSE, fired |-> tm.fired + 1]

Finish(tm) == [tm EXCEPT !.fired = @ - 1]

Live(tm) == tm.armed \/ tm.fired > 0

\* The state of a goroutine: at which call it is, and its local variables.
\* "update" is before k.update, "write" before core.WriteTo of the packets in
\* out to key, "lookup" before sendKeyLookup of dest, "check" after update
\* returned to readPC, "toobig" in the packet-too-big branch of readPC.
Local ==
  [ pc    : {"idle", "update", "write", "lookup", "check", "toobig"},
    key   : Key \cup {None},
    out   : SUBSET Packet,
    dest  : Dest \cup {None},
    frame : Frame \cup {None} ]

Idle == [pc |-> "idle", key |-> None, out |-> {}, dest |-> None,
         frame |-> None]

\* address.AddrForKey(k) or address.SubnetForKey(k) is d.
Owns(k, d) == d = AddrForKey[k] \/ d = SubnetForKey[k]

Owned(k) == {AddrForKey[k], SubnetForKey[k]}

\* filter.IsAllowed (the scan itself is specified in Filter.tla).
IsAllowed(a) == a \in Allowed

-----------------------------------------------------------------------------
(* writePC and sendToAddress / sendToSubnet.                               *)

\* The checks of writePC on a header.  Only an address destination is
\* looked up in the filter; a subnet destination is not.
Mutant_WriteOK_NoFilter(src, dst) == src \in {MyAddress, MySubnet} /\ dst \in Dest
WriteOK(src, dst) ==
  /\ src \in {MyAddress, MySubnet}
  /\ \/ dst \in Address /\ IsAllowed(dst)
     \/ dst \in Subnet

\* An object of the pool that nothing refers to any more.
FreshInfo(k, g) ==
  /\ infoTimer[k][g] = NoTimer
  /\ \A d \in Dest : toInfo[d] # [key |-> k, gen |-> g]
  /\ keyToInfo[k] # g

FreshBuffer(d, g) ==
  /\ bufTimer[d][g] = NoTimer
  /\ buffers[d] = None

\* The branch of a known destination: refresh the entry, then write to it.
SendKnown(t, p) ==
  LET i == toInfo[Dst[p]] IN
  /\ i # None
  /\ infoTimer' = [infoTimer EXCEPT ![i.key][i.gen] = Restart(@)]
  /\ run' = [run EXCEPT ![t] = [Idle EXCEPT !.pc = "write", !.key = i.key,
                                            !.out = {p}]]
  /\ UNCHANGED <<keyToInfo, toInfo, buffers, bufTimer>>

\* The branch of an unknown destination: keep the packet, in place of the
\* one kept before if any, and look the destination up.
SendUnknown(t, p) ==
  LET d == Dst[p] IN
  /\ toInfo[d] = None
  /\ \E g \in Gen :
       /\ IF buffers[d] = None THEN FreshBuffer(d, g) ELSE g = buffers[d].gen
       /\ buffers' = [buffers EXCEPT ![d] = [gen |-> g, packet |-> p]]
       /\ bufTimer' = [bufTimer EXCEPT ![d][g] = Restart(@)]
  /\ run' = [run EXCEPT ![t] = [Idle EXCEPT !.pc = "lookup", !.dest = d]]
  /\ UNCHANGED <<keyToInfo, toInfo, infoTimer>>

\* writePC of a packet that passes the checks, up to the unlock.
AcceptPacket(t, p) ==
  /\ verdict[p] = "new"
  /\ WriteOK(Src[p], Dst[p])
  /\ SendKnown(t, p) \/ SendUnknown(t, p)
  /\ verdict' = [verdict EXCEPT ![p] = "accepted"]
  /\ UNCHANGED <<mtu, closed, lookups, wire, delivered>>

\* Write, called by the TUN adapter or the mobile application.
Write(t, p) == run[t].pc = "idle" /\ AcceptPacket(t, p)

\* Write of a packet that writePC returns an error for.
RefuseWrite(t, p) ==
  /\ run[t].pc = "idle"
  /\ verdict[p] = "new"
  /\ ~WriteOK(Src[p], Dst[p])
  /\ verdict' = [verdict EXCEPT ![p] = "refused"]
  /\ UNCHANGED <<storeVars, mtu, run, closed, lookups, wire, delivered>>

\* sendKeyLookup, after the unlock.
Mutant_SendKeyLookup_Skipped(t) ==
  /\ run[t].pc = "lookup"
  /\ run' = [run EXCEPT ![t] = Idle]
  /\ UNCHANGED <<storeVars, mtu, closed, lookups, wire, verdict, delivered>>
SendKeyLookup(t) ==
  /\ run[t].pc = "lookup"
  /\ lookups' = IF closed THEN lookups ELSE lookups \cup {run[t].dest}
  /\ run' = [run EXCEPT ![t] = Idle]
  /\ UNCHANGED <<storeVars, mtu, closed, wire, verdict, delivered>>

\* What a goroutine does once the packets of out are written.
Written(l) == IF l.frame = None THEN Idle
              ELSE [l EXCEPT !.pc = "check", !.out = {}]

\* ... and once p is written.
Sent(l, p) == IF l.out = {p} THEN Written(l)
              ELSE [l EXCEPT !.out = l.out \ {p}]

\* core.WriteTo of one packet: the one kept for the address goes first.  A
\* closed core returns an error, which is ignored: the packet is gone.
WriteTo(t, p) ==
  /\ run[t].pc = "write"
  /\ p \in run[t].out
  /\ Dst[p] \in Subnet => \A q \in run[t].out : Dst[q] \in Subnet
  /\ wire' = IF closed THEN wire
             ELSE [wire EXCEPT ![p] = Append(@, run[t].key)]
  /\ run' = [run EXCEPT ![t] = Sent(@, p)]
  /\ UNCHANGED <<storeVars, mtu, closed, lookups, verdict, delivered>>

-----------------------------------------------------------------------------
(* update and resetTimeout.                                                *)

\* The destinations of key k that a packet is kept for.
Mutant_Flushed_All(k) == {d \in Dest : buffers[d] # None}
Mutant_Flushed_AddressOnly(k) == {d \in {AddrForKey[k]} : buffers[d] # None}
Flushed(k) == {d \in Owned(k) : buffers[d] # None}

\* The buffer maps without the entries of D.
Mutant_Unbuffered_Nothing(D) == buffers
Unbuffered(D) == [d \in Dest |-> IF d \in D THEN None ELSE buffers[d]]

\* update of a key that has an entry: only its timeout is reset.
UpdateKnown(t) ==
  LET k == run[t].key IN
  /\ keyToInfo[k] # None
  /\ infoTimer' = [infoTimer EXCEPT ![k][keyToInfo[k]] = Restart(@)]
  /\ run' = [run EXCEPT ![t] = Written(@)]
  /\ UNCHANGED <<keyToInfo, toInfo, buffers, bufTimer>>

\* update of a new key: enter it in the three maps, and take the packets that
\* wait for it.  The timers of their buffers are left running.
UpdateNew(t) ==
  LET k == run[t].key
      D == Flushed(k)
  IN
  /\ keyToInfo[k] = None
  /\ \E g \in Gen :
       /\ FreshInfo(k, g)
       /\ keyToInfo' = [keyToInfo EXCEPT ![k] = g]
       /\ toInfo' = [d \in Dest |-> IF Owns(k, d) THEN [key |-> k, gen |-> g]
                                    ELSE toInfo[d]]
       /\ infoTimer' = [infoTimer EXCEPT ![k][g] = Restart(@)]
  /\ buffers' = Unbuffered(D)
  /\ run' = [run EXCEPT ![t] =
               IF D = {} THEN Written(@)
               ELSE [@ EXCEPT !.pc = "write",
                              !.out = {buffers[d].packet : d \in D}]]
  /\ UNCHANGED bufTimer

Update(t) ==
  /\ run[t].pc = "update"
  /\ UpdateKnown(t) \/ UpdateNew(t)
  /\ UNCHANGED <<mtu, closed, lookups, wire, verdict, delivered>>

\* The core found a path to k and calls the function set by init, whether or
\* not a lookup was made for it.
PathNotify(k) ==
  /\ ~closed
  /\ run[Notifier].pc = "idle"
  /\ run' = [run EXCEPT ![Notifier] =
               [Idle EXCEPT !.pc = "update", !.key = k]]
  /\ lookups' = lookups \ Owned(k)
  /\ UNCHANGED <<storeVars, mtu, closed, wire, verdict, delivered>>

\* keyStoreTimeout elapsed: the callback starts, and waits for the mutex.
InfoTimerFires(k, g) ==
  /\ infoTimer[k][g].armed
  /\ infoTimer[k][g].fired < MaxFired
  /\ infoTimer' = [infoTimer EXCEPT ![k][g] = Fire(@)]
  /\ UNCHANGED <<keyToInfo, toInfo, buffers, bufTimer, mtu, run, closed,
                 lookups, wire, verdict, delivered>>

\* A map without its entries for object i, and only those.
Mutant_Without_AnyObject(i) == [toInfo EXCEPT ![AddrForKey[i.key]] = None,
                                ![SubnetForKey[i.key]] = None]
Mutant_Without_AddressOnly(i) ==
  [d \in Dest |-> IF d \in Address /\ toInfo[d] = i THEN None ELSE toInfo[d]]
Without(i) ==
  [d \in Dest |-> IF toInfo[d] = i THEN None ELSE toInfo[d]]

\* The callback of resetTimeout.
InfoExpires(k, g) ==
  /\ infoTimer[k][g].fired > 0
  /\ infoTimer' = [infoTimer EXCEPT ![k][g] = Finish(@)]
  /\ keyToInfo' = [keyToInfo EXCEPT ![k] = IF @ = g THEN None ELSE @]
  /\ toInfo' = Without([key |-> k, gen |-> g])
  /\ UNCHANGED <<buffers, bufTimer, mtu, run, closed, lookups, wire, verdict,
                 delivered>>

BufTimerFires(d, g) ==
  /\ bufTimer[d][g].armed
  /\ bufTimer[d][g].fired < MaxFired
  /\ bufTimer' = [bufTimer EXCEPT ![d][g] = Fire(@)]
  /\ UNCHANGED <<keyToInfo, toInfo, infoTimer, buffers, mtu, run, closed,
                 lookups, wire, verdict, delivered>>

\* The buffer object g is the one destination d has now.
Mutant_IsBuffer_AnyObject(d, g) == buffers[d] # None
IsBuffer(d, g) == buffers[d] # None /\ buffers[d].gen = g

\* The callback of sendToAddress and sendToSubnet.
BufferExpires(d, g) ==
  /\ bufTimer[d][g].fired > 0
  /\ bufTimer' = [bufTimer EXCEPT ![d][g] = Finish(@)]
  /\ buffers' = IF IsBuffer(d, g) THEN Unbuffered({d}) ELSE buffers
  /\ UNCHANGED <<keyToInfo, toInfo, infoTimer, mtu, run, closed, lookups,
                 wire, verdict, delivered>>

-----------------------------------------------------------------------------
(* readPC.                                                                 *)

\* One turn of the loop of readPC, up to its first call: a frame longer than
\* the MTU is answered, one that is not for this node is skipped, any other
\* teaches its sender's key.
ReadFrom(t, f) ==
  /\ ~closed
  /\ run[t].pc = "idle"
  /\ run' = [run EXCEPT ![t] =
               IF f.len > mtu THEN [Idle EXCEPT !.pc = "toobig", !.frame = f]
               ELSE IF f.dst \notin {MyAddress, MySubnet} THEN Idle
               ELSE [Idle EXCEPT !.pc = "update", !.key = f.from,
                                 !.frame = f]]
  /\ UNCHANGED <<storeVars, mtu, closed, lookups, wire, verdict, delivered>>

\* The ICMPv6 packet-too-big for the frame, written with writePC.
SendTooBig(t, p) ==
  /\ run[t].pc = "toobig"
  /\ Src[p] = run[t].frame.dst
  /\ Dst[p] = run[t].frame.src
  /\ AcceptPacket(t, p)

\* ... which writePC refuses.
DropTooBig(t) ==
  /\ run[t].pc = "toobig"
  /\ ~WriteOK(run[t].frame.dst, run[t].frame.src)
  /\ run' = [run EXCEPT ![t] = Idle]
  /\ UNCHANGED <<storeVars, mtu, closed, lookups, wire, verdict, delivered>>

\* The checks readPC makes on the source of a frame: it belongs to the key the
\* frame came from, and it passes the filter.
Mutant_Accepts_NoOwner(f) == IsAllowed(f.src)
Accepts(f) == Owns(f.from, f.src) /\ IsAllowed(f.src)

\* readPC after update: return the frame to the caller, or read on.
Check(t) ==
  /\ run[t].pc = "check"
  /\ delivered' = IF Accepts(run[t].frame) THEN delivered \cup {run[t].frame}
                  ELSE delivered
  /\ run' = [run EXCEPT ![t] = Idle]
  /\ UNCHANGED <<storeVars, mtu, closed, lookups, wire, verdict>>

-----------------------------------------------------------------------------
(* SetMTU and Close.                                                       *)

\* SetMTU clamps its argument, first from above and then from below.
Clamp(m) ==
  LET n == IF m > MaxMTU THEN MaxMTU ELSE m
  IN  IF n < MinMTU THEN MinMTU ELSE n

SetMTU(m) ==
  /\ mtu' = Clamp(m)
  /\ UNCHANGED <<storeVars, run, closed, lookups, wire, verdict, delivered>>

\* Close closes and stops the core; the maps and the timers are left alone.
Close ==
  /\ ~closed
  /\ closed' = TRUE
  /\ lookups' = {}
  /\ UNCHANGED <<storeVars, mtu, run, wire, verdict, delivered>>

-----------------------------------------------------------------------------

\* The state init leaves.
Init ==
  /\ keyToInfo = [k \in Key |-> None]
  /\ toInfo = [d \in Dest |-> None]
  /\ infoTimer = [k \in Key |-> [g \in Gen |-> NoTimer]]
  /\ buffers = [d \in Dest |-> None]
  /\ bufTimer = [d \in Dest |-> [g \in Gen |-> NoTimer]]
  /\ mtu = MinMTU
  /\ run = [t \in Thread |-> Idle]
  /\ closed = FALSE
  /\ lookups = {}
  /\ wire = [p \in Packet |-> <<>>]
  /\ verdict = [p \in Packet |-> "new"]
  /\ delivered = {}

\* The steps a goroutine owes: those of a call it is in the middle of.
Continue(t) ==
  \/ SendKeyLookup(t)
  \/ Update(t)
  \/ \E p \in Packet : WriteTo(t, p)
  \/ \E p \in Packet : SendTooBig(t, p)
  \/ DropTooBig(t)
  \/ Check(t)

Next ==
  \/ \E t \in Writer, p \in Packet : Write(t, p) \/ RefuseWrite(t, p)
  \/ \E t \in Reader, f \in Frame : ReadFrom(t, f)
  \/ \E t \in Thread : Continue(t)
  \/ \E k \in Key : PathNotify(k)
  \/ \E k \in Key, g \in Gen : InfoTimerFires(k, g) \/ InfoExpires(k, g)
  \/ \E d \in Dest, g \in Gen : BufTimerFires(d, g) \/ BufferExpires(d, g)
  \/ \E m \in MTURequest : SetMTU(m)
  \/ Close

Spec == Init /\ [][Next]_vars

\* The Go scheduler runs every goroutine that can run, and the runtime fires
\* every timer; calls from outside (Write, frames, notifications, SetMTU,
\* Close) need not happen.
Fairness ==
  /\ \A t \in Thread : WF_vars(Continue(t))
  /\ \A k \in Key, g \in Gen :
       WF_vars(InfoTimerFires(k, g)) /\ WF_vars(InfoExpires(k, g))
  /\ \A d \in Dest, g \in Gen :
       WF_vars(BufTimerFires(d, g)) /\ WF_vars(BufferExpires(d, g))

FairSpec == Spec /\ Fairness

-----------------------------------------------------------------------------
(* Properties.                                                             *)

TypeOK ==
  /\ keyToInfo \in [Key -> Gen \cup {None}]
  /\ toInfo \in [Dest -> Info \cup {None}]
  /\ infoTimer \in [Key -> [Gen -> Timer]]
  /\ buffers \in [Dest -> Buffer \cup {None}]
  /\ bufTimer \in [Dest -> [Gen -> Timer]]
  /\ mtu \in MinMTU .. MaxMTU
  /\ run \in [Thread -> Local]
  /\ closed \in BOOLEAN
  /\ lookups \subseteq Dest
  /\ wire \in [Packet -> Seq(Key)]
  /\ verdict \in [Packet -> {"new", "accepted", "refused"}]
  /\ delivered \subseteq Frame

\* The three maps agree: a destination leads to an object only while that
\* object is the one its key has, and the key does own the destination.  An
\* eviction that leaves one map behind would go on routing through a dead
\* entry that nothing removes.
RoutesAgree ==
  \A d \in Dest : toInfo[d] # None =>
    /\ keyToInfo[toInfo[d].key] = toInfo[d].gen
    /\ Owns(toInfo[d].key, d)

\* No packet is kept for a destination that can be written to: it would stay
\* in the buffer although later packets pass it by.
KeptOnlyWhileUnknown ==
  \A d \in Dest : buffers[d] # None => toInfo[d] = None

\* Nothing stays in the maps for ever: every entry has a timer that is pending
\* or a callback that is about to run.  Its failure is a leak per peer.
EntriesExpire ==
  /\ \A k \in Key : keyToInfo[k] # None => Live(infoTimer[k][keyToInfo[k]])
  /\ \A d \in Dest : buffers[d] # None => Live(bufTimer[d][buffers[d].gen])

\* A packet is written to a key only if that key owns its destination, however
\* entries were evicted, re-entered and refreshed since it was accepted.
WrittenToOwner ==
  \A p \in Packet : \A n \in 1 .. Len(wire[p]) : Owns(wire[p][n], Dst[p])

\* A packet is written at most once: taking it out of its buffer, in the
\* critical section, is what keeps two updates from both sending it.
WrittenOnce == \A p \in Packet : Len(wire[p]) <= 1

\* Packets written to an address go to an address the filter allows.
AddressTrafficAllowed ==
  \A p \in Packet : Dst[p] \in Address /\ wire[p] # <<>> => Dst[p] \in Allowed

\* What readPC returns came from a key whose address the filter allows, and is
\* addressed to this node: the filter looks only at the source header, so this
\* rests on the check that the header belongs to the sending key.
DeliveredAllowed ==
  \A f \in delivered : /\ AddrForKey[f.from] \in Allowed
                       /\ f.dst \in {MyAddress, MySubnet}

-----------------------------------------------------------------------------
(* What the properties above rest on, besides each other.                  *)

\* A goroutine has the local variables its next call uses, and one that goes
\* on to check a frame has found the frame to be for this node.
CallsReady ==
  \A t \in Thread :
    LET l == run[t] IN
    /\ l.pc \in {"update", "write"} => l.key # None
    /\ l.pc = "lookup" => l.dest # None
    /\ l.pc = "check" => l.frame # None
    /\ l.pc = "toobig" => l.frame # None
    /\ l.pc \notin {"idle", "toobig"} /\ l.frame # None =>
         l.frame.dst \in {MyAddress, MySubnet}

\* A goroutine has packets in its hands only while it writes them: what it goes
\* on to do with its local variables drops none.
OutWhileWriting == \A t \in Thread : run[t].out # {} => run[t].pc = "write"

\* p was accepted and not written yet.
Pending(p) == verdict[p] = "accepted" /\ wire[p] = <<>>

\* A packet that is kept, or taken to be written to a key, is pending; it is
\* kept under its destination, and the key it goes to owns that destination.
HeldForOwner ==
  /\ \A d \in Dest : buffers[d] # None =>
       Pending(buffers[d].packet) /\ Dst[buffers[d].packet] = d
  /\ \A t \in Thread : \A p \in run[t].out :
       Pending(p) /\ run[t].key # None /\ Owns(run[t].key, Dst[p])

\* A packet is in one place: one goroutine took it, or it is still kept.
HeldOnce ==
  \A t \in Thread : \A p \in run[t].out :
    /\ \A u \in Thread \ {t} : p \notin run[u].out
    /\ \A d \in Dest : buffers[d] # None => buffers[d].packet # p

\* Only what writePC accepted is written, and it accepted what it may.
AcceptedOK ==
  \A p \in Packet : /\ verdict[p] = "accepted" => WriteOK(Src[p], Dst[p])
                    /\ verdict[p] # "accepted" => wire[p] = <<>>

\* The inductive invariant: routes and kept packets agree, everything that is
\* entered expires, and every packet is in one place, on its way to an owner.
Inv ==
  /\ TypeOK
  /\ RoutesAgree
  /\ KeptOnlyWhileUnknown
  /\ EntriesExpire
  /\ CallsReady
  /\ OutWhileWriting
  /\ HeldForOwner
  /\ HeldOnce
  /\ AcceptedOK
  /\ WrittenOnce
  /\ WrittenToOwner
  /\ DeliveredAllowed

-----------------------------------------------------------------------------
(* Where no two keys own the same destination.                             *)

\* Distinct keys have distinct addresses and distinct subnets.
UniqueOwners ==
  \A j, k \in Key : j # k => /\ AddrForKey[j] # AddrForKey[k]
                             /\ SubnetForKey[j] # SubnetForKey[k]

\* Where owners are unique, no packet is kept for a destination of a key that
\* has an entry: update flushes only when it enters the key, so a packet kept
\* beside an entry would miss every later notification.
KnownKeyKeepsNothing ==
  \A k \in Key : keyToInfo[k] # None =>
    \A d \in Owned(k) : toInfo[d] # None /\ buffers[d] = None

\* Where owners are unique, a kept packet has something to wait for: its lookup
\* is outstanding, or a goroutine is about to make it, or the answer has come
\* and update is about to take the packet.
KeptAwaitsAnswer ==
  \A d \in Dest : buffers[d] # None /\ ~closed =>
    \/ d \in lookups
    \/ \E t \in Thread : run[t].pc = "lookup" /\ run[t].dest = d
    \/ \E t \in Thread : run[t].pc = "update" /\ Owns(run[t].key, d)

-----------------------------------------------------------------------------
(* What a step may not do, and what happens in the end.                    *)

\* An entry is evicted only by a callback of its own object.  A timer of an
\* object that was replaced under the same key, address or subnet, which still
\* runs, removes nothing.
EvictedByOwnTimer ==
  [][\A d \in Dest : toInfo[d] # None /\ toInfo'[d] = None =>
       LET i == toInfo[d] IN
       infoTimer'[i.key][i.gen] = Finish(infoTimer[i.key][i.gen])]_vars

\* A packet leaves its buffer only to be written, to make room for a later one
\* to the same destination, or because its own buffer object expired.
KeptLeavesOnlyThreeWays ==
  [][\A d \in Dest : buffers[d] # None /\ buffers'[d] # buffers[d] =>
       LET g == buffers[d].gen IN
       \/ \E t \in Thread : buffers[d].packet \in run'[t].out
       \/ buffers'[d] # None /\ buffers'[d].gen = g
       \/ bufTimer'[d][g] = Finish(bufTimer[d][g])]_vars

\* What config.go says of FilterAllowedPublicKeys, "List of peer public keys to
\* allow ipv6 traffic to/from on the tunnel", read as a restriction of traffic
\* to: no packet is written to a key that is not listed.  It does not hold:
\* writePC looks up the filter for address destinations only.
TrafficToAllowedOnly ==
  \A p \in Packet : \A n \in 1 .. Len(wire[p]) :
    AddrForKey[wire[p][n]] \in Allowed

\* The same line, read as a permission of traffic from: a frame that a listed
\* key sent from an endpoint it owns is delivered.  It does not hold: the
\* filter compares the source with addresses, and no subnet passes it.
TrafficFromAllowedDelivered ==
  [][\A t \in Thread :
       LET f == run[t].frame IN
       run[t].pc = "check" /\ run'[t].pc = "idle"
         /\ AddrForKey[f.from] \in Allowed /\ Owns(f.from, f.src)
       => f \in delivered']_vars

\* After Close, the maps drain.
DrainsAfterClose ==
  closed ~> /\ \A k \in Key : keyToInfo[k] = None
            /\ \A d \in Dest : toInfo[d] = None /\ buffers[d] = None
=============================================================================
