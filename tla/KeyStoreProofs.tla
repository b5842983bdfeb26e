--------------------------- MODULE KeyStoreProofs ---------------------------
(***************************************************************************)
(* Inv is an invariant of KeyStore for any number of keys, destinations,   *)
(* packets, goroutines and timers, and with it every property that Inv     *)
(* contains or implies.                                                    *)
(***************************************************************************)
EXTENDS KeyStore, TLAPS

-----------------------------------------------------------------------------
(* Facts about the operators.                                              *)

\* Addresses, subnets and None are told apart, and a key owns destinations.
LEMMA DestFacts ==
  ASSUME NEW k \in Key
  PROVE  /\ AddrForKey[k] \in Address /\ AddrForKey[k] \in Dest
         /\ SubnetForKey[k] \in Subnet /\ SubnetForKey[k] \in Dest
         /\ AddrForKey[k] # SubnetForKey[k]
         /\ k # None
BY KeyStoreAssumption DEF Dest

\* The operators on timers return timers.
LEMMA TimerFacts ==
  ASSUME NEW tm \in Timer
  PROVE  /\ Restart(tm) \in Timer
         /\ Restart(tm).armed
         /\ Fire(tm) \in Timer
         /\ Fire(tm).fired > 0
         /\ tm.fired > 0 => Finish(tm) \in Timer
         /\ NoTimer \in Timer
<1>0. tm.armed \in BOOLEAN /\ tm.fired \in Nat
  BY DEF Timer
<1>1. tm = [armed |-> tm.armed, fired |-> tm.fired]
  BY DEF Timer
<1>3. Finish(tm) = [armed |-> tm.armed, fired |-> tm.fired - 1]
  BY DEF Finish, Timer
<1>4. tm.fired > 0 => tm.fired - 1 \in Nat
  BY <1>0
<1>5. tm.fired + 1 \in Nat /\ tm.fired + 1 > 0
  BY <1>0
<1> QED BY <1>0, <1>3, <1>4, <1>5 DEF Timer, Restart, Fire, NoTimer

\* An object is told from None.
LEMMA ObjectFacts ==
  /\ \A i \in Info : i # None
  /\ \A b \in Buffer : b # None
  /\ \A g \in Gen : g # None
BY KeyStoreAssumption DEF Info, Buffer

\* Clamp returns an MTU the core can carry.
LEMMA ClampBounds ==
  ASSUME NEW m \in Nat
  PROVE  Clamp(m) \in MinMTU .. MaxMTU
BY KeyStoreAssumption DEF Clamp, MinMTU

LEMMA IdleLocal == Idle \in Local
BY KeyStoreAssumption DEF Idle, Local

-----------------------------------------------------------------------------
(* Type correctness.                                                       *)

LEMMA InitType == Init => TypeOK
<1> SUFFICES ASSUME Init PROVE TypeOK
  OBVIOUS
<1>1. infoTimer \in [Key -> [Gen -> Timer]] /\ bufTimer \in [Dest -> [Gen -> Timer]]
  BY DEF Init, NoTimer, Timer
<1>2. mtu \in MinMTU .. MaxMTU
  BY KeyStoreAssumption DEF Init, MinMTU
<1>3. run \in [Thread -> Local]
  BY IdleLocal DEF Init
<1>4. wire \in [Packet -> Seq(Key)]
  BY DEF Init
<1> QED BY <1>1, <1>2, <1>3, <1>4 DEF Init, TypeOK

\* A goroutine's next state is one the model knows.
LEMMA LocalUpdates ==
  ASSUME NEW l \in Local
  PROVE  /\ \A k \in Key, p \in Packet :
              [Idle EXCEPT !.pc = "write", !.key = k, !.out = {p}] \in Local
         /\ \A d \in Dest :
              [Idle EXCEPT !.pc = "lookup", !.dest = d] \in Local
         /\ Written(l) \in Local
         /\ \A out \in SUBSET Packet :
              /\ [l EXCEPT !.out = out] \in Local
              /\ [l EXCEPT !.pc = "write", !.out = out] \in Local
         /\ \A k \in Key : [Idle EXCEPT !.pc = "update", !.key = k] \in Local
         /\ \A f \in Frame :
              /\ [Idle EXCEPT !.pc = "toobig", !.frame = f] \in Local
              /\ \A k \in Key : [Idle EXCEPT !.pc = "update", !.key = k,
                                             !.frame = f] \in Local
BY KeyStoreAssumption, IdleLocal DEF Idle, Local, Written

LEMMA AcceptType ==
  ASSUME TypeOK, NEW t \in Thread, NEW p \in Packet, AcceptPacket(t, p)
  PROVE  TypeOK'
<1>0. Dst[p] \in Dest
  BY KeyStoreAssumption DEF AcceptPacket, WriteOK, Dest
<1>1. /\ verdict' \in [Packet -> {"new", "accepted", "refused"}]
      /\ UNCHANGED <<mtu, closed, lookups, wire, delivered>>
  BY DEF AcceptPacket, TypeOK
<1>2. CASE SendKnown(t, p)
  <2> DEFINE i == toInfo[Dst[p]]
  <2>1. i.key \in Key /\ i.gen \in Gen
    BY <1>0, <1>2 DEF SendKnown, TypeOK, Info
  <2>2. infoTimer' \in [Key -> [Gen -> Timer]]
    BY <1>2, <2>1, TimerFacts DEF SendKnown, TypeOK
  <2>3. run' \in [Thread -> Local]
    BY <1>2, <2>1, LocalUpdates DEF SendKnown, TypeOK
  <2> QED BY <1>1, <1>2, <2>2, <2>3 DEF SendKnown, TypeOK
<1>3. CASE SendUnknown(t, p)
  <2>1. PICK g \in Gen :
          /\ buffers' = [buffers EXCEPT ![Dst[p]] = [gen |-> g, packet |-> p]]
          /\ bufTimer' = [bufTimer EXCEPT ![Dst[p]][g] = Restart(@)]
    BY <1>3 DEF SendUnknown
  <2>2. buffers' \in [Dest -> Buffer \cup {None}]
    BY <2>1 DEF TypeOK, Buffer
  <2>3. bufTimer' \in [Dest -> [Gen -> Timer]]
    BY <1>0, <2>1, TimerFacts DEF TypeOK
  <2>4. run' \in [Thread -> Local]
    BY <1>0, <1>3, LocalUpdates DEF SendUnknown, TypeOK
  <2> QED BY <1>1, <1>3, <2>2, <2>3, <2>4 DEF SendUnknown, TypeOK
<1> QED BY <1>2, <1>3 DEF AcceptPacket

LEMMA UpdateType ==
  ASSUME TypeOK, CallsReady, NEW t \in Thread, Update(t)
  PROVE  TypeOK'
<1> DEFINE k == run[t].key
<1>0. k \in Key /\ run[t] \in Local
  BY DEF Update, TypeOK, CallsReady, Local
<1>1. CASE UpdateKnown(t)
  <2>1. keyToInfo[k] \in Gen
    BY <1>0, <1>1 DEF UpdateKnown, TypeOK
  <2>2. infoTimer' \in [Key -> [Gen -> Timer]]
    BY <1>0, <1>1, <2>1, TimerFacts DEF UpdateKnown, TypeOK
  <2>3. run' \in [Thread -> Local]
    BY <1>0, <1>1, LocalUpdates DEF UpdateKnown, TypeOK
  <2> QED BY <1>1, <2>2, <2>3 DEF Update, UpdateKnown, TypeOK
<1>2. CASE UpdateNew(t)
  <2> DEFINE D == Flushed(k)
             out == {buffers[d].packet : d \in D}
  <2>1. PICK g \in Gen :
          /\ keyToInfo' = [keyToInfo EXCEPT ![k] = g]
          /\ toInfo' = [d \in Dest |-> IF Owns(k, d) THEN [key |-> k, gen |-> g]
                                       ELSE toInfo[d]]
          /\ infoTimer' = [infoTimer EXCEPT ![k][g] = Restart(@)]
    BY <1>2 DEF UpdateNew
  <2>2. keyToInfo' \in [Key -> Gen \cup {None}]
    BY <2>1 DEF TypeOK
  <2>3. toInfo' \in [Dest -> Info \cup {None}]
    BY <1>0, <2>1 DEF TypeOK, Info
  <2>4. infoTimer' \in [Key -> [Gen -> Timer]]
    BY <1>0, <2>1, TimerFacts DEF TypeOK
  <2>5. buffers' \in [Dest -> Buffer \cup {None}]
    BY <1>2 DEF UpdateNew, Unbuffered, TypeOK
  <2>6. out \subseteq Packet
    BY <1>0, DestFacts DEF TypeOK, Flushed, Owned, Buffer
  <2>7. run' \in [Thread -> Local]
    <3> DEFINE l == IF D = {} THEN Written(run[t])
                    ELSE [run[t] EXCEPT !.pc = "write", !.out = out]
    <3>1. l \in Local
      BY <1>0, <2>6, LocalUpdates
    <3>2. run' = [run EXCEPT ![t] = l]
      BY <1>2 DEF UpdateNew
    <3> HIDE DEF l
    <3> QED BY <3>1, <3>2 DEF TypeOK
  <2> QED BY <1>2, <2>2, <2>3, <2>4, <2>5, <2>7
          DEF Update, UpdateNew, TypeOK
<1> QED BY <1>1, <1>2 DEF Update

LEMMA WriteToType ==
  ASSUME TypeOK, CallsReady, NEW t \in Thread, NEW p \in Packet, WriteTo(t, p)
  PROVE  TypeOK'
<1>0. run[t] \in Local /\ run[t].key \in Key /\ run[t].out \ {p} \in SUBSET Packet
  BY DEF WriteTo, TypeOK, CallsReady, Local
<1>1. wire' \in [Packet -> Seq(Key)]
  BY <1>0 DEF WriteTo, TypeOK
<1>2. run' \in [Thread -> Local]
  <2>1. Sent(run[t], p) \in Local
    BY <1>0, LocalUpdates DEF Sent
  <2> QED BY <2>1 DEF WriteTo, TypeOK
<1> QED BY <1>1, <1>2 DEF WriteTo, TypeOK, storeVars

LEMMA ReadType ==
  ASSUME TypeOK, NEW t \in Thread, NEW f \in Frame, ReadFrom(t, f)
  PROVE  TypeOK'
<1>1. f.from \in Key
  BY KeyStoreAssumption
<1>2. run' \in [Thread -> Local]
  BY <1>1, IdleLocal, LocalUpdates DEF ReadFrom, TypeOK
<1> QED BY <1>2 DEF ReadFrom, TypeOK, storeVars

LEMMA CheckType ==
  ASSUME TypeOK, CallsReady, NEW t \in Thread, Check(t)
  PROVE  TypeOK'
<1>1. run[t].frame \in Frame
  BY DEF Check, TypeOK, CallsReady, Local
<1>2. run' \in [Thread -> Local]
  BY IdleLocal DEF Check, TypeOK
<1> QED BY <1>1, <1>2 DEF Check, TypeOK, storeVars

\* The expiry of an entry, and of a buffer.
LEMMA InfoExpiresType ==
  ASSUME TypeOK, NEW k \in Key, NEW g \in Gen, InfoExpires(k, g)
  PROVE  TypeOK'
<1>1. infoTimer' \in [Key -> [Gen -> Timer]]
  BY TimerFacts DEF InfoExpires, TypeOK
<1>2. keyToInfo' \in [Key -> Gen \cup {None}]
  BY DEF InfoExpires, TypeOK
<1>3. toInfo' \in [Dest -> Info \cup {None}]
  BY DEF InfoExpires, Without, TypeOK
<1> QED BY <1>1, <1>2, <1>3 DEF InfoExpires, TypeOK

LEMMA BufferExpiresType ==
  ASSUME TypeOK, NEW d \in Dest, NEW g \in Gen, BufferExpires(d, g)
  PROVE  TypeOK'
<1>1. bufTimer' \in [Dest -> [Gen -> Timer]]
  BY TimerFacts DEF BufferExpires, TypeOK
<1>2. buffers' \in [Dest -> Buffer \cup {None}]
  BY DEF BufferExpires, Unbuffered, TypeOK
<1> QED BY <1>1, <1>2 DEF BufferExpires, TypeOK

LEMMA TypeStep ==
  ASSUME TypeOK, CallsReady, Next
  PROVE  TypeOK'
<1>1. ASSUME NEW t \in Writer, NEW p \in Packet, Write(t, p)
      PROVE  TypeOK'
  BY <1>1, AcceptType DEF Write, Thread
<1>2. ASSUME NEW t \in Writer, NEW p \in Packet, RefuseWrite(t, p)
      PROVE  TypeOK'
  BY <1>2 DEF RefuseWrite, TypeOK, storeVars
<1>3. ASSUME NEW t \in Reader, NEW f \in Frame, ReadFrom(t, f)
      PROVE  TypeOK'
  BY <1>3, ReadType DEF Thread
<1>4. ASSUME NEW t \in Thread, Continue(t)
      PROVE  TypeOK'
  <2>1. CASE SendKeyLookup(t)
    <3>1. run[t].dest \in Dest
      BY <2>1 DEF SendKeyLookup, TypeOK, CallsReady, Local
    <3>2. run' \in [Thread -> Local]
      BY <2>1, IdleLocal DEF SendKeyLookup, TypeOK
    <3> QED BY <2>1, <3>1, <3>2 DEF SendKeyLookup, TypeOK, storeVars
  <2>2. CASE Update(t)
    BY <2>2, UpdateType
  <2>3. CASE \E p \in Packet : WriteTo(t, p)
    BY <2>3, WriteToType
  <2>4. CASE \E p \in Packet : SendTooBig(t, p)
    BY <2>4, AcceptType DEF SendTooBig
  <2>5. CASE DropTooBig(t)
    <3>1. run' \in [Thread -> Local]
      BY <2>5, IdleLocal DEF DropTooBig, TypeOK
    <3> QED BY <2>5, <3>1 DEF DropTooBig, TypeOK, storeVars
  <2>6. CASE Check(t)
    BY <2>6, CheckType
  <2> QED BY <1>4, <2>1, <2>2, <2>3, <2>4, <2>5, <2>6 DEF Continue
<1>5. ASSUME NEW k \in Key, PathNotify(k)
      PROVE  TypeOK'
  <2>1. run' \in [Thread -> Local]
    BY <1>5, LocalUpdates DEF PathNotify, TypeOK
  <2> QED BY <1>5, <2>1 DEF PathNotify, TypeOK, storeVars
<1>6. ASSUME NEW k \in Key, NEW g \in Gen,
             InfoTimerFires(k, g) \/ InfoExpires(k, g)
      PROVE  TypeOK'
  <2>1. CASE InfoTimerFires(k, g)
    <3>1. infoTimer' \in [Key -> [Gen -> Timer]]
      BY <2>1, TimerFacts DEF InfoTimerFires, TypeOK
    <3> QED BY <2>1, <3>1 DEF InfoTimerFires, TypeOK
  <2> QED BY <1>6, <2>1, InfoExpiresType
<1>7. ASSUME NEW d \in Dest, NEW g \in Gen,
             BufTimerFires(d, g) \/ BufferExpires(d, g)
      PROVE  TypeOK'
  <2>1. CASE BufTimerFires(d, g)
    <3>1. bufTimer' \in [Dest -> [Gen -> Timer]]
      BY <2>1, TimerFacts DEF BufTimerFires, TypeOK
    <3> QED BY <2>1, <3>1 DEF BufTimerFires, TypeOK
  <2> QED BY <1>7, <2>1, BufferExpiresType
<1>8. ASSUME NEW m \in MTURequest, SetMTU(m)
      PROVE  TypeOK'
  BY <1>8, ClampBounds, KeyStoreAssumption DEF SetMTU, TypeOK, storeVars
<1>9. ASSUME Close
      PROVE  TypeOK'
  BY <1>9 DEF Close, TypeOK, storeVars
<1> QED BY <1>1, <1>2, <1>3, <1>4, <1>5, <1>6, <1>7, <1>8, <1>9 DEF Next

-----------------------------------------------------------------------------
(* Routes.                                                                 *)

\* The maps of entries change only when update enters a key and when an entry
\* expires.
LEMMA RoutesChange ==
  ASSUME Next
  PROVE  \/ UNCHANGED <<keyToInfo, toInfo>>
         \/ \E t \in Thread : run[t].pc = "update" /\ UpdateNew(t)
         \/ \E k \in Key, g \in Gen : InfoExpires(k, g)
<1>1. ASSUME NEW t \in Thread, Continue(t)
      PROVE  \/ UNCHANGED <<keyToInfo, toInfo>>
             \/ run[t].pc = "update" /\ UpdateNew(t)
  BY <1>1 DEF Continue, SendKeyLookup, Update, UpdateKnown, WriteTo,
     SendTooBig, AcceptPacket, SendKnown, SendUnknown, DropTooBig, Check,
     storeVars
<1> QED
  BY <1>1 DEF Next, Write, AcceptPacket, SendKnown, SendUnknown, RefuseWrite,
     ReadFrom, PathNotify, InfoTimerFires, BufTimerFires, BufferExpires,
     SetMTU, Close, storeVars

LEMMA RoutesAgreeStep ==
  ASSUME TypeOK, CallsReady, RoutesAgree, Next
  PROVE  RoutesAgree'
<1>1. CASE UNCHANGED <<keyToInfo, toInfo>>
  BY <1>1 DEF RoutesAgree
<1>2. ASSUME NEW t \in Thread, run[t].pc = "update", UpdateNew(t)
      PROVE  RoutesAgree'
  <2> DEFINE k == run[t].key
  <2>0. k \in Key /\ keyToInfo[k] = None
    BY <1>2 DEF UpdateNew, TypeOK, CallsReady, Local
  <2>1. PICK g \in Gen :
          /\ keyToInfo' = [keyToInfo EXCEPT ![k] = g]
          /\ toInfo' = [d \in Dest |-> IF Owns(k, d) THEN [key |-> k, gen |-> g]
                                       ELSE toInfo[d]]
    BY <1>2 DEF UpdateNew
  <2> SUFFICES ASSUME NEW d \in Dest, toInfo'[d] # None
               PROVE  /\ keyToInfo'[toInfo'[d].key] = toInfo'[d].gen
                      /\ Owns(toInfo'[d].key, d)
    BY DEF RoutesAgree, Owns
  <2>2. CASE Owns(k, d)
    BY <2>0, <2>1, <2>2 DEF TypeOK
  <2>3. CASE ~Owns(k, d)
    <3>1. toInfo'[d] = toInfo[d] /\ toInfo[d] \in Info
      BY <2>1, <2>3 DEF TypeOK
    <3>2. toInfo[d].key # k
      BY <2>0, <3>1, ObjectFacts DEF RoutesAgree, Info
    <3> QED BY <2>1, <3>1, <3>2 DEF RoutesAgree, TypeOK, Info
  <2> QED BY <2>2, <2>3
<1>3. ASSUME NEW k \in Key, NEW g \in Gen, InfoExpires(k, g)
      PROVE  RoutesAgree'
  <2> SUFFICES ASSUME NEW d \in Dest, toInfo'[d] # None
               PROVE  /\ keyToInfo'[toInfo'[d].key] = toInfo'[d].gen
                      /\ Owns(toInfo'[d].key, d)
    BY DEF RoutesAgree, Owns
  <2>1. /\ toInfo'[d] = toInfo[d]
        /\ toInfo[d] \in Info
        /\ toInfo[d] # [key |-> k, gen |-> g]
    BY <1>3 DEF InfoExpires, Without, TypeOK
  <2>2. ~(toInfo[d].key = k /\ toInfo[d].gen = g)
    BY <2>1 DEF Info
  <2> QED BY <1>3, <2>1, <2>2 DEF InfoExpires, RoutesAgree, TypeOK, Info
<1> QED BY <1>1, <1>2, <1>3, RoutesChange

-----------------------------------------------------------------------------
(* Kept packets.                                                           *)

\* The buffers change only when a packet is kept, when update takes packets,
\* and when a buffer expires.
LEMMA BuffersChange ==
  ASSUME Next
  PROVE  \/ UNCHANGED buffers
         \/ \E t \in Thread, p \in Packet : AcceptPacket(t, p) /\ SendUnknown(t, p)
         \/ \E t \in Thread : run[t].pc = "update" /\ UpdateNew(t)
         \/ \E d \in Dest, g \in Gen : BufferExpires(d, g)
<1>1. ASSUME NEW t \in Thread, Continue(t)
      PROVE  \/ UNCHANGED buffers
             \/ \E p \in Packet : AcceptPacket(t, p) /\ SendUnknown(t, p)
             \/ run[t].pc = "update" /\ UpdateNew(t)
  BY <1>1 DEF Continue, SendKeyLookup, Update, UpdateKnown, WriteTo,
     SendTooBig, AcceptPacket, SendKnown, DropTooBig, Check, storeVars
<1>2. ASSUME NEW t \in Writer, NEW p \in Packet, Write(t, p)
      PROVE  UNCHANGED buffers \/ (AcceptPacket(t, p) /\ SendUnknown(t, p))
  BY <1>2 DEF Write, AcceptPacket, SendKnown
<1> QED
  BY <1>1, <1>2 DEF Next, Thread, RefuseWrite, ReadFrom, PathNotify,
     InfoTimerFires, BufTimerFires, InfoExpires, SetMTU, Close, storeVars

LEMMA KeptOnlyWhileUnknownStep ==
  ASSUME TypeOK, CallsReady, KeptOnlyWhileUnknown, Next
  PROVE  KeptOnlyWhileUnknown'
<1> SUFFICES ASSUME NEW d \in Dest, buffers'[d] # None
             PROVE  toInfo'[d] = None
  BY DEF KeptOnlyWhileUnknown
<1>1. ASSUME NEW t \in Thread, run[t].pc = "update", UpdateNew(t)
      PROVE  toInfo'[d] = None
  <2> DEFINE k == run[t].key
  <2>1. buffers[d] # None /\ d \notin Flushed(k)
    BY <1>1 DEF UpdateNew, Unbuffered
  <2>2. ~Owns(k, d)
    BY <2>1 DEF Flushed, Owned, Owns
  <2>3. toInfo'[d] = toInfo[d]
    BY <1>1, <2>2 DEF UpdateNew
  <2> QED BY <2>1, <2>3 DEF KeptOnlyWhileUnknown
<1>2. CASE UNCHANGED <<keyToInfo, toInfo>>
  <2>1. ASSUME NEW t \in Thread, NEW p \in Packet, SendUnknown(t, p)
        PROVE  toInfo'[d] = None
    BY <1>2, <2>1 DEF SendUnknown, KeptOnlyWhileUnknown, TypeOK
  <2>2. ASSUME NEW e \in Dest, NEW g \in Gen, BufferExpires(e, g)
        PROVE  toInfo'[d] = None
    BY <1>2, <2>2 DEF BufferExpires, Unbuffered, KeptOnlyWhileUnknown
  <2> QED BY <1>1, <1>2, <2>1, <2>2, BuffersChange DEF KeptOnlyWhileUnknown
<1>3. ASSUME NEW k \in Key, NEW g \in Gen, InfoExpires(k, g)
      PROVE  toInfo'[d] = None
  BY <1>3 DEF InfoExpires, Without, KeptOnlyWhileUnknown
<1> QED BY <1>1, <1>2, <1>3, RoutesChange

-----------------------------------------------------------------------------
(* Expiry.                                                                 *)

\* A restarted timer, and one whose callback starts, is live.
LEMMA LiveFacts ==
  ASSUME NEW tm \in Timer
  PROVE  Live(Restart(tm)) /\ Live(Fire(tm))
BY DEF Live, Restart, Fire, Timer

InfosExpire ==
  \A k \in Key : keyToInfo[k] # None => Live(infoTimer[k][keyToInfo[k]])

BuffersExpire ==
  \A d \in Dest : buffers[d] # None => Live(bufTimer[d][buffers[d].gen])

\* The timers of keyInfo objects change in five ways.
LEMMA InfoTimersChange ==
  ASSUME Next
  PROVE  \/ UNCHANGED <<keyToInfo, infoTimer>>
         \/ \E t \in Thread, p \in Packet : AcceptPacket(t, p) /\ SendKnown(t, p)
         \/ \E t \in Thread : Update(t)
         \/ \E k \in Key, g \in Gen : InfoTimerFires(k, g) \/ InfoExpires(k, g)
<1>1. ASSUME NEW t \in Thread, Continue(t)
      PROVE  \/ UNCHANGED <<keyToInfo, infoTimer>>
             \/ \E p \in Packet : AcceptPacket(t, p) /\ SendKnown(t, p)
             \/ Update(t)
  BY <1>1 DEF Continue, SendKeyLookup, WriteTo, SendTooBig, AcceptPacket,
     SendUnknown, DropTooBig, Check, storeVars
<1>2. ASSUME NEW t \in Writer, NEW p \in Packet, Write(t, p)
      PROVE  \/ UNCHANGED <<keyToInfo, infoTimer>>
             \/ AcceptPacket(t, p) /\ SendKnown(t, p)
  BY <1>2 DEF Write, AcceptPacket, SendUnknown
<1> QED
  BY <1>1, <1>2 DEF Next, Thread, RefuseWrite, ReadFrom, PathNotify,
     BufTimerFires, BufferExpires, SetMTU, Close, storeVars

\* A step that only restarts, or fires, a timer keeps the entries expiring.
LEMMA InfoTimerSet ==
  ASSUME TypeOK, InfosExpire, NEW k \in Key, NEW g \in Gen, NEW tm \in Timer,
         Live(tm), infoTimer' = [infoTimer EXCEPT ![k][g] = tm],
         UNCHANGED keyToInfo
  PROVE  InfosExpire'
<1> SUFFICES ASSUME NEW j \in Key, keyToInfo[j] # None
             PROVE  Live(infoTimer'[j][keyToInfo[j]])
  BY DEF InfosExpire, Live
<1>1. keyToInfo[j] \in Gen
  BY DEF TypeOK
<1>2. CASE j = k /\ keyToInfo[j] = g
  BY <1>2 DEF TypeOK
<1>3. CASE ~(j = k /\ keyToInfo[j] = g)
  BY <1>1, <1>3 DEF TypeOK, InfosExpire
<1> QED BY <1>2, <1>3

LEMMA InfosExpireStep ==
  ASSUME TypeOK, CallsReady, InfosExpire, Next
  PROVE  InfosExpire'
<1>1. CASE UNCHANGED <<keyToInfo, infoTimer>>
  BY <1>1 DEF InfosExpire
<1>2. ASSUME NEW t \in Thread, NEW p \in Packet, AcceptPacket(t, p),
             SendKnown(t, p)
      PROVE  InfosExpire'
  <2> DEFINE i == toInfo[Dst[p]]
  <2>0. Dst[p] \in Dest
    BY <1>2, KeyStoreAssumption DEF AcceptPacket, WriteOK, Dest
  <2>1. i.key \in Key /\ i.gen \in Gen
    BY <1>2, <2>0 DEF SendKnown, TypeOK, Info
  <2> DEFINE tm == Restart(infoTimer[i.key][i.gen])
  <2>2. tm \in Timer /\ Live(tm)
    BY <2>1, TimerFacts, LiveFacts DEF TypeOK
  <2>3. /\ infoTimer' = [infoTimer EXCEPT ![i.key][i.gen] = tm]
        /\ UNCHANGED keyToInfo
    BY <1>2 DEF SendKnown
  <2> HIDE DEF tm, i
  <2> QED BY <2>1, <2>2, <2>3, InfoTimerSet
<1>3. ASSUME NEW t \in Thread, Update(t)
      PROVE  InfosExpire'
  <2> DEFINE k == run[t].key
  <2>0. k \in Key
    BY <1>3 DEF Update, TypeOK, CallsReady, Local
  <2>1. CASE UpdateKnown(t)
    <3> DEFINE g == keyToInfo[k]
               tm == Restart(infoTimer[k][g])
    <3>1. g \in Gen
      BY <2>0, <2>1 DEF UpdateKnown, TypeOK
    <3>2. tm \in Timer /\ Live(tm)
      BY <2>0, <3>1, TimerFacts, LiveFacts DEF TypeOK
    <3>3. infoTimer' = [infoTimer EXCEPT ![k][g] = tm] /\ UNCHANGED keyToInfo
      BY <2>1 DEF UpdateKnown
    <3> HIDE DEF tm, g, k
    <3> QED BY <2>0, <3>1, <3>2, <3>3, InfoTimerSet
  <2>2. CASE UpdateNew(t)
    <3>1. PICK g \in Gen :
            /\ keyToInfo' = [keyToInfo EXCEPT ![k] = g]
            /\ infoTimer' = [infoTimer EXCEPT ![k][g] = Restart(@)]
      BY <2>2 DEF UpdateNew
    <3>2. Live(Restart(infoTimer[k][g]))
      BY <2>0, LiveFacts DEF TypeOK
    <3> SUFFICES ASSUME NEW j \in Key, keyToInfo'[j] # None
                 PROVE  Live(infoTimer'[j][keyToInfo'[j]])
      BY DEF InfosExpire, Live
    <3>3. CASE j = k
      BY <2>0, <3>1, <3>2, <3>3 DEF TypeOK
    <3>4. CASE j # k
      BY <3>1, <3>4 DEF TypeOK, InfosExpire
    <3> QED BY <3>3, <3>4
  <2> QED BY <1>3, <2>1, <2>2 DEF Update
<1>4. ASSUME NEW k \in Key, NEW g \in Gen, InfoTimerFires(k, g)
      PROVE  InfosExpire'
  <2> DEFINE tm == Fire(infoTimer[k][g])
  <2>1. tm \in Timer /\ Live(tm)
    BY TimerFacts, LiveFacts DEF TypeOK
  <2>2. infoTimer' = [infoTimer EXCEPT ![k][g] = tm] /\ UNCHANGED keyToInfo
    BY <1>4 DEF InfoTimerFires
  <2> HIDE DEF tm
  <2> QED BY <2>1, <2>2, InfoTimerSet
<1>5. ASSUME NEW k \in Key, NEW g \in Gen, InfoExpires(k, g)
      PROVE  InfosExpire'
  <2> SUFFICES ASSUME NEW j \in Key, keyToInfo'[j] # None
               PROVE  Live(infoTimer'[j][keyToInfo'[j]])
    BY DEF InfosExpire, Live
  <2>1. /\ keyToInfo'[j] = keyToInfo[j]
        /\ keyToInfo[j] \in Gen
        /\ ~(j = k /\ keyToInfo[j] = g)
    BY <1>5 DEF InfoExpires, TypeOK
  <2>2. infoTimer'[j][keyToInfo[j]] = infoTimer[j][keyToInfo[j]]
    BY <1>5, <2>1 DEF InfoExpires, TypeOK
  <2> QED BY <2>1, <2>2 DEF InfosExpire
<1> QED BY <1>1, <1>2, <1>3, <1>4, <1>5, InfoTimersChange

\* The timers of buffers change in four ways.
LEMMA BufTimersChange ==
  ASSUME Next
  PROVE  \/ UNCHANGED <<buffers, bufTimer>>
         \/ \E t \in Thread, p \in Packet : AcceptPacket(t, p) /\ SendUnknown(t, p)
         \/ \E t \in Thread : UpdateNew(t)
         \/ \E d \in Dest, g \in Gen : BufTimerFires(d, g) \/ BufferExpires(d, g)
<1>1. ASSUME NEW t \in Thread, Continue(t)
      PROVE  \/ UNCHANGED <<buffers, bufTimer>>
             \/ \E p \in Packet : AcceptPacket(t, p) /\ SendUnknown(t, p)
             \/ UpdateNew(t)
  BY <1>1 DEF Continue, SendKeyLookup, WriteTo, SendTooBig, AcceptPacket,
     SendKnown, Update, UpdateKnown, DropTooBig, Check, storeVars
<1>2. ASSUME NEW t \in Writer, NEW p \in Packet, Write(t, p)
      PROVE  \/ UNCHANGED <<buffers, bufTimer>>
             \/ AcceptPacket(t, p) /\ SendUnknown(t, p)
  BY <1>2 DEF Write, AcceptPacket, SendKnown
<1> QED
  BY <1>1, <1>2 DEF Next, Thread, RefuseWrite, ReadFrom, PathNotify,
     InfoTimerFires, InfoExpires, SetMTU, Close, storeVars

LEMMA BuffersExpireStep ==
  ASSUME TypeOK, CallsReady, BuffersExpire, Next
  PROVE  BuffersExpire'
<1>1. CASE UNCHANGED <<buffers, bufTimer>>
  BY <1>1 DEF BuffersExpire
<1> SUFFICES ASSUME ~UNCHANGED <<buffers, bufTimer>>,
                    NEW e \in Dest, buffers'[e] # None
             PROVE  Live(bufTimer'[e][buffers'[e].gen])
  BY <1>1 DEF BuffersExpire, Live
<1>2. ASSUME NEW t \in Thread, NEW p \in Packet, AcceptPacket(t, p),
             SendUnknown(t, p)
      PROVE  Live(bufTimer'[e][buffers'[e].gen])
  <2> DEFINE d == Dst[p]
  <2>0. d \in Dest
    BY <1>2, KeyStoreAssumption DEF AcceptPacket, WriteOK, Dest
  <2>1. PICK g \in Gen :
          /\ buffers' = [buffers EXCEPT ![d] = [gen |-> g, packet |-> p]]
          /\ bufTimer' = [bufTimer EXCEPT ![d][g] = Restart(@)]
    BY <1>2 DEF SendUnknown
  <2>2. Live(Restart(bufTimer[d][g]))
    BY <2>0, LiveFacts DEF TypeOK
  <2>3. CASE e = d
    BY <2>0, <2>1, <2>2, <2>3 DEF TypeOK
  <2>4. CASE e # d
    BY <2>1, <2>4 DEF TypeOK, BuffersExpire
  <2> QED BY <2>3, <2>4
<1>3. ASSUME NEW t \in Thread, UpdateNew(t)
      PROVE  Live(bufTimer'[e][buffers'[e].gen])
  BY <1>3 DEF UpdateNew, Unbuffered, BuffersExpire
<1>4. ASSUME NEW d \in Dest, NEW g \in Gen, BufTimerFires(d, g)
      PROVE  Live(bufTimer'[e][buffers'[e].gen])
  <2>1. buffers'[e] = buffers[e] /\ buffers[e].gen \in Gen
    BY <1>4 DEF BufTimerFires, TypeOK, Buffer
  <2>2. Live(Fire(bufTimer[d][g]))
    BY LiveFacts DEF TypeOK
  <2>3. CASE e = d /\ buffers[e].gen = g
    BY <1>4, <2>1, <2>2, <2>3 DEF BufTimerFires, TypeOK
  <2>4. CASE ~(e = d /\ buffers[e].gen = g)
    <3>1. bufTimer'[e][buffers[e].gen] = bufTimer[e][buffers[e].gen]
      BY <1>4, <2>1, <2>4 DEF BufTimerFires, TypeOK
    <3> QED BY <2>1, <3>1 DEF BuffersExpire
  <2> QED BY <2>3, <2>4
<1>5. ASSUME NEW d \in Dest, NEW g \in Gen, BufferExpires(d, g)
      PROVE  Live(bufTimer'[e][buffers'[e].gen])
  <2>1. /\ buffers'[e] = buffers[e]
        /\ buffers[e] # None
        /\ ~(e = d /\ buffers[e].gen = g)
    BY <1>5 DEF BufferExpires, IsBuffer, Unbuffered
  <2>2. bufTimer'[e][buffers[e].gen] = bufTimer[e][buffers[e].gen]
    BY <1>5, <2>1 DEF BufferExpires, TypeOK
  <2> QED BY <2>1, <2>2 DEF BuffersExpire
<1> QED BY <1>2, <1>3, <1>4, <1>5, BufTimersChange

LEMMA EntriesExpireStep ==
  ASSUME TypeOK, CallsReady, EntriesExpire, Next
  PROVE  EntriesExpire'
<1>1. InfosExpire /\ BuffersExpire
  BY DEF EntriesExpire, InfosExpire, BuffersExpire
<1>2. InfosExpire' /\ BuffersExpire'
  BY <1>1, InfosExpireStep, BuffersExpireStep
<1> QED BY <1>2 DEF EntriesExpire, InfosExpire, BuffersExpire

-----------------------------------------------------------------------------
(* Calls.                                                                  *)

\* CallsReady of one goroutine.
Ready(l) ==
  /\ l.pc \in {"update", "write"} => l.key # None
  /\ l.pc = "lookup" => l.dest # None
  /\ l.pc = "check" => l.frame # None
  /\ l.pc = "toobig" => l.frame # None
  /\ l.pc \notin {"idle", "toobig"} /\ l.frame # None =>
       l.frame.dst \in {MyAddress, MySubnet}

LEMMA ReadyOne ==
  ASSUME TypeOK, CallsReady, NEW t \in Thread, NEW l, Ready(l),
         run' = [run EXCEPT ![t] = l]
  PROVE  CallsReady'
<1> SUFFICES ASSUME NEW u \in Thread PROVE Ready(run'[u])
  BY DEF CallsReady, Ready
<1> QED BY DEF TypeOK, CallsReady, Ready

LEMMA ReadyFacts ==
  /\ Ready(Idle)
  /\ \A k \in Key, p \in Packet :
       Ready([Idle EXCEPT !.pc = "write", !.key = k, !.out = {p}])
  /\ \A d \in Dest : Ready([Idle EXCEPT !.pc = "lookup", !.dest = d])
  /\ \A k \in Key : Ready([Idle EXCEPT !.pc = "update", !.key = k])
  /\ \A f \in Frame : Ready([Idle EXCEPT !.pc = "toobig", !.frame = f])
  /\ \A k \in Key, f \in Frame : f.dst \in {MyAddress, MySubnet} =>
       Ready([Idle EXCEPT !.pc = "update", !.key = k, !.frame = f])
BY KeyStoreAssumption, DestFacts DEF Ready, Idle

LEMMA ReadyWritten ==
  ASSUME NEW l \in Local, Ready(l), l.pc \in {"update", "write"}
  PROVE  Ready(Written(l))
<1>1. CASE l.frame = None
  BY <1>1, ReadyFacts DEF Written
<1>2. CASE l.frame # None
  BY <1>2 DEF Written, Ready, Local
<1> QED BY <1>1, <1>2

LEMMA ReadyOut ==
  ASSUME NEW l \in Local, Ready(l), l.pc \in {"update", "write"}, NEW out
  PROVE  /\ Ready([l EXCEPT !.pc = "write", !.out = out])
         /\ l.pc = "write" => Ready([l EXCEPT !.out = out])
BY DEF Ready, Local

LEMMA AcceptReady ==
  ASSUME TypeOK, CallsReady, NEW t \in Thread, NEW p \in Packet,
         AcceptPacket(t, p)
  PROVE  CallsReady'
<1>0. Dst[p] \in Dest
  BY KeyStoreAssumption DEF AcceptPacket, WriteOK, Dest
<1>1. CASE SendKnown(t, p)
  <2> DEFINE k == toInfo[Dst[p]].key
             l == [Idle EXCEPT !.pc = "write", !.key = k, !.out = {p}]
  <2>1. k \in Key
    BY <1>0, <1>1 DEF SendKnown, TypeOK, Info
  <2>2. Ready(l) /\ run' = [run EXCEPT ![t] = l]
    BY <1>1, <2>1, ReadyFacts DEF SendKnown
  <2> HIDE DEF l
  <2> QED BY <2>2, ReadyOne
<1>2. CASE SendUnknown(t, p)
  <2> DEFINE l == [Idle EXCEPT !.pc = "lookup", !.dest = Dst[p]]
  <2>1. Ready(l) /\ run' = [run EXCEPT ![t] = l]
    BY <1>0, <1>2, ReadyFacts DEF SendUnknown
  <2> HIDE DEF l
  <2> QED BY <2>1, ReadyOne
<1> QED BY <1>1, <1>2 DEF AcceptPacket

\* A goroutine that finishes its call is idle.
LEMMA IdleReady ==
  ASSUME TypeOK, CallsReady, NEW t \in Thread, run' = [run EXCEPT ![t] = Idle]
  PROVE  CallsReady'
BY ReadyFacts, ReadyOne

LEMMA CallsReadyStep ==
  ASSUME TypeOK, CallsReady, Next
  PROVE  CallsReady'
<1>1. ASSUME NEW t \in Writer, NEW p \in Packet, Write(t, p)
      PROVE  CallsReady'
  BY <1>1, AcceptReady DEF Write, Thread
<1>2. ASSUME NEW t \in Reader, NEW f \in Frame, ReadFrom(t, f)
      PROVE  CallsReady'
  <2> DEFINE l == IF f.len > mtu THEN [Idle EXCEPT !.pc = "toobig", !.frame = f]
                  ELSE IF f.dst \notin {MyAddress, MySubnet} THEN Idle
                  ELSE [Idle EXCEPT !.pc = "update", !.key = f.from, !.frame = f]
  <2>1. f.from \in Key
    BY KeyStoreAssumption
  <2>2. Ready(l)
    BY <2>1, ReadyFacts
  <2>3. run' = [run EXCEPT ![t] = l]
    BY <1>2 DEF ReadFrom
  <2> HIDE DEF l
  <2> QED BY <2>2, <2>3, ReadyOne DEF Thread
<1>3. ASSUME NEW t \in Thread, Continue(t)
      PROVE  CallsReady'
  <2>0. run[t] \in Local /\ Ready(run[t])
    BY DEF TypeOK, CallsReady, Ready
  <2>1. CASE SendKeyLookup(t) \/ DropTooBig(t) \/ Check(t)
    BY <2>1, IdleReady DEF SendKeyLookup, DropTooBig, Check
  <2>2. CASE Update(t)
    <3>1. run[t].pc = "update"
      BY <2>2 DEF Update
    <3>2. Ready(Written(run[t]))
      BY <2>0, <3>1, ReadyWritten
    <3>3. CASE UpdateKnown(t)
      BY <3>2, <3>3, ReadyOne DEF UpdateKnown
    <3>4. CASE UpdateNew(t)
      <4> DEFINE D == Flushed(run[t].key)
                 out == {buffers[d].packet : d \in D}
                 l == IF D = {} THEN Written(run[t])
                      ELSE [run[t] EXCEPT !.pc = "write", !.out = out]
      <4>1. Ready(l)
        BY <2>0, <3>1, <3>2, ReadyOut
      <4>2. run' = [run EXCEPT ![t] = l]
        BY <3>4 DEF UpdateNew
      <4> HIDE DEF l
      <4> QED BY <4>1, <4>2, ReadyOne
    <3> QED BY <2>2, <3>3, <3>4 DEF Update
  <2>3. ASSUME NEW p \in Packet, WriteTo(t, p)
        PROVE  CallsReady'
    <3>1. Ready(Sent(run[t], p))
      BY <2>0, <2>3, ReadyWritten, ReadyOut DEF WriteTo, Sent
    <3> QED BY <2>3, <3>1, ReadyOne DEF WriteTo
  <2>4. ASSUME NEW p \in Packet, SendTooBig(t, p)
        PROVE  CallsReady'
    BY <2>4, AcceptReady DEF SendTooBig
  <2> QED BY <1>3, <2>1, <2>2, <2>3, <2>4 DEF Continue
<1>4. ASSUME NEW k \in Key, PathNotify(k)
      PROVE  CallsReady'
  <2> DEFINE l == [Idle EXCEPT !.pc = "update", !.key = k]
  <2>1. Ready(l) /\ run' = [run EXCEPT ![Notifier] = l] /\ Notifier \in Thread
    BY <1>4, ReadyFacts DEF PathNotify, Thread
  <2> HIDE DEF l
  <2> QED BY <2>1, ReadyOne
<1>5. CASE UNCHANGED run
  BY <1>5 DEF CallsReady
<1> QED
  BY <1>1, <1>2, <1>3, <1>4, <1>5 DEF Next, RefuseWrite, InfoTimerFires,
     InfoExpires, BufTimerFires, BufferExpires, SetMTU, Close

-----------------------------------------------------------------------------
(* Packets.                                                                *)

\* A step that is no packet's business: goroutines may let go of packets, and
\* buffers may be emptied, but nothing is accepted, taken or written.
Quiet ==
  /\ UNCHANGED <<wire, verdict>>
  /\ \A t \in Thread : run'[t] = run[t] \/ run'[t].out = {}
  /\ \A d \in Dest : buffers'[d] \in {buffers[d], None}

\* A step that ends a call, or starts one with no packet in hand, is quiet.
LEMMA QuietCall ==
  ASSUME TypeOK, NEW t \in Thread, NEW l, l.out = {},
         run' = [run EXCEPT ![t] = l], UNCHANGED <<wire, verdict, buffers>>
  PROVE  Quiet
BY DEF Quiet, TypeOK

LEMMA OutFacts ==
  /\ Idle.out = {}
  /\ \A k : [Idle EXCEPT !.pc = "update", !.key = k].out = {}
  /\ \A f : [Idle EXCEPT !.pc = "toobig", !.frame = f].out = {}
  /\ \A k, f : [Idle EXCEPT !.pc = "update", !.key = k, !.frame = f].out = {}
  /\ \A l \in Local : Written(l).out = {}
BY DEF Idle, Local, Written

LEMMA PacketSteps ==
  ASSUME TypeOK, Next
  PROVE  \/ Quiet
         \/ \E t \in Thread, p \in Packet : AcceptPacket(t, p)
         \/ \E t \in Writer, p \in Packet : RefuseWrite(t, p)
         \/ \E t \in Thread : Update(t) /\ UpdateNew(t)
         \/ \E t \in Thread, p \in Packet : WriteTo(t, p)
<1>1. ASSUME NEW t \in Reader, NEW f \in Frame, ReadFrom(t, f)
      PROVE  Quiet
  <2> DEFINE l == IF f.len > mtu THEN [Idle EXCEPT !.pc = "toobig", !.frame = f]
                  ELSE IF f.dst \notin {MyAddress, MySubnet} THEN Idle
                  ELSE [Idle EXCEPT !.pc = "update", !.key = f.from, !.frame = f]
  <2>1. l.out = {}
    BY OutFacts
  <2>2. /\ run' = [run EXCEPT ![t] = l] /\ t \in Thread
        /\ UNCHANGED <<wire, verdict, buffers>>
    BY <1>1 DEF ReadFrom, storeVars, Thread
  <2> HIDE DEF l
  <2> QED BY <2>1, <2>2, QuietCall
<1>2. ASSUME NEW k \in Key, PathNotify(k)
      PROVE  Quiet
  <2> DEFINE l == [Idle EXCEPT !.pc = "update", !.key = k]
  <2>1. l.out = {}
    BY OutFacts
  <2>2. /\ run' = [run EXCEPT ![Notifier] = l] /\ Notifier \in Thread
        /\ UNCHANGED <<wire, verdict, buffers>>
    BY <1>2 DEF PathNotify, storeVars, Thread
  <2> HIDE DEF l
  <2> QED BY <2>1, <2>2, QuietCall
<1>3. ASSUME NEW t \in Thread, SendKeyLookup(t) \/ DropTooBig(t) \/ Check(t)
      PROVE  Quiet
  BY <1>3, OutFacts, QuietCall DEF SendKeyLookup, DropTooBig, Check, storeVars
<1>4. ASSUME NEW t \in Thread, Update(t), UpdateKnown(t)
      PROVE  Quiet
  <2>1. Written(run[t]).out = {}
    BY OutFacts DEF TypeOK
  <2> QED BY <1>4, <2>1, QuietCall DEF Update, UpdateKnown
<1>5. ASSUME NEW d \in Dest, NEW g \in Gen, BufferExpires(d, g)
      PROVE  Quiet
  BY <1>5 DEF BufferExpires, Unbuffered, Quiet
<1>6. ASSUME UNCHANGED <<wire, verdict, run, buffers>>
      PROVE  Quiet
  BY <1>6 DEF Quiet
<1>7. ASSUME NEW t \in Thread, Continue(t)
      PROVE  \/ Quiet
             \/ \E p \in Packet : AcceptPacket(t, p)
             \/ Update(t) /\ UpdateNew(t)
             \/ \E p \in Packet : WriteTo(t, p)
  BY <1>7, <1>3, <1>4 DEF Continue, Update, SendTooBig
<1> QED
  BY <1>1, <1>2, <1>5, <1>6, <1>7 DEF Next, Thread, Write, InfoTimerFires,
     InfoExpires, BufTimerFires, SetMTU, Close, storeVars

\* The new state of one goroutine is one of those.
LEMMA OutOne ==
  ASSUME TypeOK, OutWhileWriting, NEW t \in Thread, NEW l,
         l.out # {} => l.pc = "write", run' = [run EXCEPT ![t] = l]
  PROVE  OutWhileWriting'
BY DEF OutWhileWriting, TypeOK

LEMMA OutWhileWritingStep ==
  ASSUME TypeOK, OutWhileWriting, Next
  PROVE  OutWhileWriting'
<1>1. ASSUME NEW t \in Thread, NEW p \in Packet, AcceptPacket(t, p)
      PROVE  OutWhileWriting'
  <2>1. CASE SendKnown(t, p)
    <3> DEFINE l == [Idle EXCEPT !.pc = "write", !.key = toInfo[Dst[p]].key,
                                 !.out = {p}]
    <3>1. l.pc = "write" /\ run' = [run EXCEPT ![t] = l]
      BY <2>1 DEF SendKnown, Idle
    <3> HIDE DEF l
    <3> QED BY <3>1, OutOne
  <2>2. CASE SendUnknown(t, p)
    <3> DEFINE l == [Idle EXCEPT !.pc = "lookup", !.dest = Dst[p]]
    <3>1. l.out = {} /\ run' = [run EXCEPT ![t] = l]
      BY <2>2 DEF SendUnknown, Idle
    <3> HIDE DEF l
    <3> QED BY <3>1, OutOne
  <2> QED BY <1>1, <2>1, <2>2 DEF AcceptPacket
<1>2. ASSUME NEW t \in Thread, Update(t), UpdateNew(t)
      PROVE  OutWhileWriting'
  <2> DEFINE D == Flushed(run[t].key)
             out == {buffers[d].packet : d \in D}
             l == IF D = {} THEN Written(run[t])
                  ELSE [run[t] EXCEPT !.pc = "write", !.out = out]
  <2>1. l.out # {} => l.pc = "write"
    BY OutFacts DEF TypeOK, Local
  <2>2. run' = [run EXCEPT ![t] = l]
    BY <1>2 DEF UpdateNew
  <2> HIDE DEF l
  <2> QED BY <2>1, <2>2, OutOne
<1>3. ASSUME NEW t \in Thread, NEW p \in Packet, WriteTo(t, p)
      PROVE  OutWhileWriting'
  <2>1. Sent(run[t], p).out # {} => Sent(run[t], p).pc = "write"
    BY <1>3, OutFacts DEF WriteTo, Sent, TypeOK, Local
  <2> QED BY <1>3, <2>1, OutOne DEF WriteTo
<1>4. CASE Quiet
  BY <1>4 DEF OutWhileWriting, Quiet
<1> QED
  BY <1>1, <1>2, <1>3, <1>4, PacketSteps DEF OutWhileWriting, RefuseWrite

\* What Inv says of packets, without WriteOK.
PacketsOK ==
  HeldForOwner /\ HeldOnce /\ AcceptedOK /\ WrittenOnce /\ WrittenToOwner

LEMMA QuietPackets ==
  ASSUME TypeOK, PacketsOK, Quiet
  PROVE  PacketsOK'
<1>1. HeldForOwner'
  BY DEF PacketsOK, Quiet, HeldForOwner, Pending, Owns
<1>2. HeldOnce'
  BY DEF PacketsOK, Quiet, HeldOnce
<1>3. AcceptedOK' /\ WrittenOnce' /\ WrittenToOwner'
  BY DEF PacketsOK, Quiet, AcceptedOK, WrittenOnce, WrittenToOwner, WriteOK,
     IsAllowed, Owns
<1> QED BY <1>1, <1>2, <1>3 DEF PacketsOK

\* A new packet is nowhere.
LEMMA NewIsNowhere ==
  ASSUME PacketsOK, NEW p \in Packet, verdict[p] = "new"
  PROVE  /\ \A t \in Thread : p \notin run[t].out
         /\ \A d \in Dest : buffers[d] # None => buffers[d].packet # p
         /\ wire[p] = <<>>
BY DEF PacketsOK, HeldForOwner, Pending, AcceptedOK

\* The verdict on a new packet leaves what is said of the others.
LEMMA VerdictPackets ==
  ASSUME TypeOK, PacketsOK, NEW p \in Packet, verdict[p] = "new",
         NEW v \in {"accepted", "refused"},
         v = "accepted" => WriteOK(Src[p], Dst[p]),
         verdict' = [verdict EXCEPT ![p] = v], UNCHANGED wire
  PROVE  /\ AcceptedOK' /\ WrittenOnce' /\ WrittenToOwner'
         /\ \A q \in Packet : Pending(q) => Pending(q)'
         /\ v = "accepted" => Pending(p)'
<1>1. wire[p] = <<>>
  BY NewIsNowhere
<1>2. AcceptedOK'
  BY <1>1 DEF PacketsOK, AcceptedOK, WriteOK, IsAllowed, TypeOK
<1>3. WrittenOnce' /\ WrittenToOwner'
  BY DEF PacketsOK, WrittenOnce, WrittenToOwner, Owns
<1>4. \A q \in Packet : Pending(q) => Pending(q)'
  BY DEF Pending, TypeOK
<1>5. v = "accepted" => Pending(p)'
  BY <1>1 DEF Pending, TypeOK
<1> QED BY <1>2, <1>3, <1>4, <1>5

LEMMA AcceptPackets ==
  ASSUME TypeOK, RoutesAgree, PacketsOK, NEW t \in Thread, NEW p \in Packet,
         AcceptPacket(t, p)
  PROVE  PacketsOK'
<1>0. Dst[p] \in Dest
  BY KeyStoreAssumption DEF AcceptPacket, WriteOK, Dest
<1>1. /\ AcceptedOK' /\ WrittenOnce' /\ WrittenToOwner'
      /\ \A q \in Packet : Pending(q) => Pending(q)'
      /\ Pending(p)'
  BY VerdictPackets DEF AcceptPacket
<1>2. CASE SendKnown(t, p)
  <2> DEFINE k == toInfo[Dst[p]].key
  <2>1. k \in Key /\ k # None /\ Owns(k, Dst[p])
    BY <1>0, <1>2, DestFacts DEF SendKnown, TypeOK, Info, RoutesAgree
  <2>2. \A u \in Thread :
          IF u = t THEN run'[u].out = {p} /\ run'[u].key = k
          ELSE run'[u] = run[u]
    BY <1>2, <2>1 DEF SendKnown, TypeOK, Idle
  <2>3. UNCHANGED buffers
    BY <1>2 DEF SendKnown
  <2> HIDE DEF k
  <2>4. \A u \in Thread : run[u].out \subseteq Packet
    BY DEF TypeOK, Local
  <2>5. \A d \in Dest : buffers[d] # None => buffers[d].packet \in Packet
    BY DEF TypeOK, Buffer
  <2>6. HeldForOwner'
    <3>1. ASSUME NEW d \in Dest, buffers'[d] # None
          PROVE  Pending(buffers[d].packet)' /\ Dst[buffers'[d].packet] = d
      BY <1>1, <2>3, <2>5, <3>1 DEF PacketsOK, HeldForOwner, Pending
    <3>2. ASSUME NEW u \in Thread, NEW q \in run'[u].out
          PROVE  Pending(q)' /\ run'[u].key # None /\ Owns(run'[u].key, Dst[q])
      <4>1. CASE u = t
        BY <1>1, <2>1, <2>2, <3>2, <4>1
      <4>2. CASE u # t
        BY <1>1, <2>2, <2>4, <3>2, <4>2 DEF PacketsOK, HeldForOwner
      <4> QED BY <4>1, <4>2
    <3> QED BY <3>1, <3>2 DEF HeldForOwner, Pending, Owns
  <2>7. HeldOnce'
    BY <2>2, <2>3, NewIsNowhere DEF AcceptPacket, PacketsOK, HeldOnce
  <2> QED BY <1>1, <2>6, <2>7 DEF PacketsOK
<1>3. CASE SendUnknown(t, p)
  <2>1. PICK g \in Gen :
          buffers' = [buffers EXCEPT ![Dst[p]] = [gen |-> g, packet |-> p]]
    BY <1>3 DEF SendUnknown
  <2>2. \A u \in Thread : IF u = t THEN run'[u].out = {} ELSE run'[u] = run[u]
    BY <1>3 DEF SendUnknown, TypeOK, Idle
  <2>3. \A d \in Dest : IF d = Dst[p] THEN buffers'[d].packet = p
                        ELSE buffers'[d] = buffers[d]
    BY <1>0, <2>1 DEF TypeOK
  <2>4. \A u \in Thread : run[u].out \subseteq Packet
    BY DEF TypeOK, Local
  <2>5. \A d \in Dest : buffers[d] # None => buffers[d].packet \in Packet
    BY DEF TypeOK, Buffer
  <2>6. HeldForOwner'
    <3>1. ASSUME NEW d \in Dest, buffers'[d] # None
          PROVE  Pending(buffers[d].packet)' /\ Dst[buffers'[d].packet] = d
      <4>1. CASE d = Dst[p]
        BY <1>1, <2>3, <4>1 DEF Pending
      <4>2. CASE d # Dst[p]
        BY <1>1, <2>3, <2>5, <3>1, <4>2 DEF PacketsOK, HeldForOwner, Pending
      <4> QED BY <4>1, <4>2
    <3>2. ASSUME NEW u \in Thread, NEW q \in run'[u].out
          PROVE  Pending(q)' /\ run'[u].key # None /\ Owns(run'[u].key, Dst[q])
      BY <1>1, <2>2, <2>4, <3>2 DEF PacketsOK, HeldForOwner
    <3> QED BY <3>1, <3>2 DEF HeldForOwner, Pending, Owns
  <2>7. HeldOnce'
    BY <2>2, <2>3, NewIsNowhere DEF AcceptPacket, PacketsOK, HeldOnce
  <2> QED BY <1>1, <2>6, <2>7 DEF PacketsOK
<1> QED BY <1>2, <1>3 DEF AcceptPacket

LEMMA RefusePackets ==
  ASSUME TypeOK, PacketsOK, NEW t \in Writer, NEW p \in Packet,
         RefuseWrite(t, p)
  PROVE  PacketsOK'
<1>1. /\ AcceptedOK' /\ WrittenOnce' /\ WrittenToOwner'
      /\ \A q \in Packet : Pending(q) => Pending(q)'
  BY VerdictPackets DEF RefuseWrite
<1>2. UNCHANGED <<run, buffers, wire>>
  BY DEF RefuseWrite, storeVars
<1>3. HeldForOwner'
  BY <1>1, <1>2 DEF PacketsOK, HeldForOwner, TypeOK, Local, Buffer, Pending,
     Owns
<1>4. HeldOnce'
  BY <1>2 DEF PacketsOK, HeldOnce
<1> QED BY <1>1, <1>3, <1>4 DEF PacketsOK

LEMMA TakePackets ==
  ASSUME TypeOK, CallsReady, PacketsOK, NEW t \in Thread, Update(t),
         UpdateNew(t)
  PROVE  PacketsOK'
<1> DEFINE k == run[t].key
           D == Flushed(k)
           out == {buffers[d].packet : d \in D}
<1>0. k \in Key /\ k # None /\ UNCHANGED <<wire, verdict>>
  BY DEF Update, TypeOK, CallsReady, Local
<1>1. AcceptedOK' /\ WrittenOnce' /\ WrittenToOwner'
  BY <1>0 DEF PacketsOK, AcceptedOK, WrittenOnce, WrittenToOwner, WriteOK,
     IsAllowed, Owns
<1>2. D \subseteq Dest /\ \A d \in D : buffers[d] # None /\ Owns(k, d)
  BY <1>0, DestFacts DEF Flushed, Owned, Owns
<1>3. \A d \in Dest : buffers'[d] = IF d \in D THEN None ELSE buffers[d]
  BY DEF UpdateNew, Unbuffered
\* The goroutine takes the packets kept for k, if any.
<1>4. /\ \A u \in Thread \ {t} : run'[u] = run[u]
      /\ run'[t].out = out
      /\ out # {} => run'[t].key = k
  <2>1. CASE D = {}
    <3>1. run' = [run EXCEPT ![t] = Written(run[t])]
      BY <2>1 DEF UpdateNew
    <3>2. Written(run[t]).out = {} /\ out = {}
      BY <2>1, OutFacts DEF TypeOK
    <3> HIDE DEF out
    <3> QED BY <3>1, <3>2 DEF TypeOK
  <2>2. CASE D # {}
    <3> DEFINE l == [run[t] EXCEPT !.pc = "write", !.out = out]
    <3>1. run' = [run EXCEPT ![t] = l]
      BY <2>2 DEF UpdateNew
    <3>2. l.out = out /\ l.key = k
      BY DEF TypeOK, Local
    <3> HIDE DEF l, out
    <3> QED BY <3>1, <3>2 DEF TypeOK
  <2> QED BY <2>1, <2>2
<1>5. \A p \in out : \E d \in D : p = buffers[d].packet
  OBVIOUS
<1>6. \A d \in Dest : buffers[d] # None =>
        Pending(buffers[d].packet) /\ Dst[buffers[d].packet] = d
  BY DEF PacketsOK, HeldForOwner
<1> HIDE DEF D, out
<1>7. HeldForOwner'
  <2>1. ASSUME NEW d \in Dest, buffers'[d] # None
        PROVE  Pending(buffers[d].packet)' /\ Dst[buffers'[d].packet] = d
    BY <1>0, <1>3, <1>6, <2>1 DEF Pending
  <2>2. ASSUME NEW u \in Thread, NEW q \in run'[u].out
        PROVE  Pending(q)' /\ run'[u].key # None /\ Owns(run'[u].key, Dst[q])
    <3>1. CASE u = t
      <4>1. PICK d \in D : q = buffers[d].packet
        BY <1>4, <1>5, <2>2, <3>1
      <4>2. Pending(q) /\ Owns(k, Dst[q])
        BY <1>2, <1>6, <4>1
      <4> QED BY <1>0, <1>4, <2>2, <3>1, <4>2 DEF Pending
    <3>2. CASE u # t
      BY <1>0, <1>4, <2>2, <3>2 DEF PacketsOK, HeldForOwner, Pending
    <3> QED BY <3>1, <3>2
  <2> QED BY <2>1, <2>2 DEF HeldForOwner, Pending, Owns
<1>8. HeldOnce'
  <2> SUFFICES ASSUME NEW u \in Thread, NEW p \in run'[u].out
               PROVE  /\ \A v \in Thread \ {u} : p \notin run'[v].out
                      /\ \A d \in Dest : buffers'[d] # None => buffers'[d].packet # p
    BY DEF HeldOnce
  <2>1. CASE u = t
    <3>1. PICK d \in D : p = buffers[d].packet
      BY <1>4, <1>5, <2>1
    <3>2. \A v \in Thread \ {t} : p \notin run'[v].out
      BY <1>2, <1>4, <3>1 DEF PacketsOK, HeldOnce
    <3>3. \A e \in Dest : buffers'[e] # None => buffers'[e].packet # p
      BY <1>2, <1>3, <1>6, <3>1
    <3> QED BY <2>1, <3>2, <3>3
  <2>2. CASE u # t
    <3>1. p \in run[u].out
      BY <1>4, <2>2
    <3>2. p \notin out
      BY <1>2, <1>5, <3>1 DEF PacketsOK, HeldOnce
    <3> QED BY <1>3, <1>4, <2>2, <3>1, <3>2 DEF PacketsOK, HeldOnce
  <2> QED BY <2>1, <2>2
<1> QED BY <1>1, <1>7, <1>8 DEF PacketsOK

LEMMA WritePackets ==
  ASSUME TypeOK, CallsReady, PacketsOK, NEW t \in Thread, NEW p \in Packet,
         WriteTo(t, p)
  PROVE  PacketsOK'
<1> DEFINE k == run[t].key
<1>0. /\ k \in Key /\ Owns(k, Dst[p]) /\ Pending(p)
      /\ p \in run[t].out
      /\ UNCHANGED <<verdict, buffers>>
  BY DEF WriteTo, storeVars, TypeOK, CallsReady, Local, PacketsOK, HeldForOwner
<1>1. /\ \A u \in Thread \ {t} : run'[u] = run[u]
      /\ run'[t].out = run[t].out \ {p}
      /\ run'[t].out # {} => run'[t].key = k
  <2>1. /\ Sent(run[t], p).out = run[t].out \ {p}
        /\ run[t].out # {p} => Sent(run[t], p).key = k
    <3>1. CASE run[t].out = {p}
      BY <3>1, OutFacts DEF Sent, TypeOK
    <3>2. CASE run[t].out # {p}
      BY <3>2 DEF Sent, TypeOK, Local
    <3> QED BY <3>1, <3>2
  <2>2. run' = [run EXCEPT ![t] = Sent(run[t], p)]
    BY DEF WriteTo
  <2> QED BY <1>0, <2>1, <2>2 DEF TypeOK
<1>2. wire[p] = <<>> /\ wire'[p] \in {<<>>, <<k>>}
  BY <1>0 DEF Pending, WriteTo, TypeOK
<1>3. \A q \in Packet : q # p => wire'[q] = wire[q]
  BY DEF WriteTo, TypeOK
<1>4. AcceptedOK'
  BY <1>0, <1>2, <1>3 DEF PacketsOK, AcceptedOK, WriteOK, IsAllowed, Pending
<1>5. WrittenOnce'
  <2>1. Len(<<>>) <= 1 /\ \A j \in Key : Len(<<j>>) <= 1
    OBVIOUS
  <2>2. Len(wire'[p]) <= 1
    BY <1>0, <1>2, <2>1
  <2> QED BY <1>3, <2>2 DEF PacketsOK, WrittenOnce
<1>6. WrittenToOwner'
  <2> SUFFICES ASSUME NEW q \in Packet, NEW n \in 1 .. Len(wire'[q])
               PROVE  Owns(wire'[q][n], Dst[q])
    BY DEF WrittenToOwner, Owns
  <2>1. CASE q = p
    BY <1>0, <1>2, <2>1
  <2>2. CASE q # p
    BY <1>3, <2>2 DEF PacketsOK, WrittenToOwner
  <2> QED BY <2>1, <2>2
\* Nobody else holds p.
<1>7. /\ \A u \in Thread : p \notin run'[u].out
      /\ \A u \in Thread : run'[u].out \subseteq run[u].out
      /\ \A d \in Dest : buffers[d] # None => buffers[d].packet # p
  BY <1>0, <1>1 DEF PacketsOK, HeldOnce
<1>8. HeldForOwner'
  <2>1. ASSUME NEW d \in Dest, buffers'[d] # None
        PROVE  Pending(buffers[d].packet)' /\ Dst[buffers'[d].packet] = d
    BY <1>0, <1>3, <1>7, <2>1
       DEF PacketsOK, HeldForOwner, Pending, TypeOK, Buffer
  <2>2. ASSUME NEW u \in Thread, NEW q \in run'[u].out
        PROVE  Pending(q)' /\ run'[u].key # None /\ Owns(run'[u].key, Dst[q])
    <3>1. q \in run[u].out /\ q # p /\ q \in Packet /\ run'[u].key = run[u].key
      BY <1>1, <1>7, <2>2 DEF TypeOK, Local
    <3> QED BY <1>0, <1>3, <3>1 DEF PacketsOK, HeldForOwner, Pending
  <2> QED BY <2>1, <2>2 DEF HeldForOwner, Pending, Owns
<1>9. HeldOnce'
  BY <1>0, <1>7 DEF PacketsOK, HeldOnce
<1> QED BY <1>4, <1>5, <1>6, <1>8, <1>9 DEF PacketsOK

LEMMA PacketsStep ==
  ASSUME TypeOK, CallsReady, RoutesAgree, PacketsOK, Next
  PROVE  PacketsOK'
BY PacketSteps, QuietPackets, AcceptPackets, RefusePackets, TakePackets,
   WritePackets

-----------------------------------------------------------------------------
(* Frames.                                                                 *)

LEMMA DeliveredAllowedStep ==
  ASSUME TypeOK, CallsReady, DeliveredAllowed, Next
  PROVE  DeliveredAllowed'
<1>1. ASSUME NEW t \in Thread, Check(t)
      PROVE  DeliveredAllowed'
  <2> DEFINE f == run[t].frame
  <2>1. f \in Frame /\ f.dst \in {MyAddress, MySubnet}
    BY <1>1 DEF Check, TypeOK, CallsReady, Local
  \* A source that the filter allows is an address, so it is its owner's.
  <2>2. Accepts(f) => AddrForKey[f.from] \in Allowed
    BY <2>1, KeyStoreAssumption DEF Accepts, Owns, IsAllowed
  <2> QED BY <1>1, <2>1, <2>2 DEF Check, DeliveredAllowed
<1>2. CASE UNCHANGED delivered
  BY <1>2 DEF DeliveredAllowed
<1>3. ASSUME NEW t \in Thread, Continue(t), ~Check(t)
      PROVE  UNCHANGED delivered
  BY <1>3 DEF Continue, SendKeyLookup, Update, WriteTo, SendTooBig,
     AcceptPacket, DropTooBig
<1> QED
  BY <1>1, <1>2, <1>3 DEF Next, Write, AcceptPacket, RefuseWrite, ReadFrom,
     PathNotify, InfoTimerFires, InfoExpires, BufTimerFires, BufferExpires,
     SetMTU, Close

-----------------------------------------------------------------------------
(* The theorems.                                                           *)

LEMMA InitInv == Init => Inv
<1> SUFFICES ASSUME Init PROVE Inv
  OBVIOUS
<1>1. TypeOK
  BY InitType
<1>2. RoutesAgree /\ KeptOnlyWhileUnknown /\ EntriesExpire
  BY DEF Init, RoutesAgree, KeptOnlyWhileUnknown, EntriesExpire
<1>3. CallsReady /\ OutWhileWriting /\ HeldForOwner /\ HeldOnce
  BY DEF Init, Idle, CallsReady, OutWhileWriting, HeldForOwner, HeldOnce
<1>4. AcceptedOK /\ WrittenOnce /\ WrittenToOwner /\ DeliveredAllowed
  BY DEF Init, AcceptedOK, WrittenOnce, WrittenToOwner, DeliveredAllowed
<1> QED BY <1>1, <1>2, <1>3, <1>4 DEF Inv

LEMMA StepInv == Inv /\ [Next]_vars => Inv'
<1> SUFFICES ASSUME Inv, [Next]_vars PROVE Inv'
  OBVIOUS
<1>1. CASE Next
  <2>1. PacketsOK
    BY DEF Inv, PacketsOK
  <2>2. PacketsOK'
    BY <1>1, <2>1, PacketsStep DEF Inv
  <2>3. TypeOK' /\ CallsReady' /\ OutWhileWriting'
    BY <1>1, TypeStep, CallsReadyStep, OutWhileWritingStep DEF Inv
  <2>4. RoutesAgree' /\ KeptOnlyWhileUnknown' /\ EntriesExpire'
    BY <1>1, RoutesAgreeStep, KeptOnlyWhileUnknownStep, EntriesExpireStep
       DEF Inv
  <2>5. DeliveredAllowed'
    BY <1>1, DeliveredAllowedStep DEF Inv
  <2> QED BY <2>2, <2>3, <2>4, <2>5 DEF Inv, PacketsOK
<1>2. CASE UNCHANGED vars
  <2>1. TypeOK' /\ RoutesAgree' /\ KeptOnlyWhileUnknown' /\ EntriesExpire'
    BY <1>2 DEF vars, Inv, TypeOK, RoutesAgree, KeptOnlyWhileUnknown,
       EntriesExpire, Owns, Live
  <2>2. CallsReady' /\ OutWhileWriting' /\ HeldForOwner' /\ HeldOnce'
    BY <1>2 DEF vars, Inv, CallsReady, OutWhileWriting, HeldForOwner, HeldOnce,
       Pending, Owns
  <2>3. AcceptedOK' /\ WrittenOnce' /\ WrittenToOwner' /\ DeliveredAllowed'
    BY <1>2 DEF vars, Inv, AcceptedOK, WrittenOnce, WrittenToOwner,
       DeliveredAllowed, WriteOK, IsAllowed, Owns
  <2> QED BY <2>1, <2>2, <2>3 DEF Inv
<1> QED BY <1>1, <1>2

\* Inv holds in every reachable state of the tunnel endpoint, for all values of
\* the constants.
THEOREM Invariance == Spec => []Inv
BY InitInv, StepInv, PTL DEF Spec

\* The state keeps its type: in particular the MTU stays between 1280 and what
\* the core carries, whatever SetMTU is asked for.
THEOREM TypeCorrect == Spec => []TypeOK
<1>1. Inv => TypeOK
  BY DEF Inv
<1> QED BY <1>1, Invariance, PTL

\* Routes agree with the entries they lead to.
THEOREM RoutingSafe == Spec => []RoutesAgree
<1>1. Inv => RoutesAgree
  BY DEF Inv
<1> QED BY <1>1, Invariance, PTL

\* No packet is kept for a destination with a route.
THEOREM KeepingSafe == Spec => []KeptOnlyWhileUnknown
<1>1. Inv => KeptOnlyWhileUnknown
  BY DEF Inv
<1> QED BY <1>1, Invariance, PTL

\* Every entry and every kept packet has a timer that will remove it.
THEOREM ExpirySafe == Spec => []EntriesExpire
<1>1. Inv => EntriesExpire
  BY DEF Inv
<1> QED BY <1>1, Invariance, PTL

\* A packet is written at most once, however updates and timers meet.
THEOREM WritingSafe == Spec => []WrittenOnce
<1>1. Inv => WrittenOnce
  BY DEF Inv
<1> QED BY <1>1, Invariance, PTL

\* A packet is written to an owner of its destination only.
THEOREM OwnersOnly == Spec => []WrittenToOwner
<1>1. Inv => WrittenToOwner
  BY DEF Inv
<1> QED BY <1>1, Invariance, PTL

\* No packet is written to an address that the filter does not allow.
THEOREM FilterOutbound == Spec => []AddressTrafficAllowed
<1>1. Inv => AddressTrafficAllowed
  BY KeyStoreAssumption
     DEF Inv, AcceptedOK, WriteOK, IsAllowed, AddressTrafficAllowed
<1> QED BY <1>1, Invariance, PTL

\* Nothing is delivered but frames to this node from allowed keys.
THEOREM FilterInbound == Spec => []DeliveredAllowed
<1>1. Inv => DeliveredAllowed
  BY DEF Inv
<1> QED BY <1>1, Invariance, PTL
=============================================================================
