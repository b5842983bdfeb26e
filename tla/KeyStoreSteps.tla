--------------------------- MODULE KeyStoreSteps ---------------------------
(***************************************************************************)
(* What a step of KeyStore may and may not do, from the inductive          *)
(* invariant of KeyStoreProofs: the two action properties, that every step *)
(* is one of Tunnel's, or none, and what is left to do after Close.  And   *)
(* what holds besides where no two keys own the same destination.          *)
(***************************************************************************)
EXTENDS KeyStoreProofs, KeyStoreTunnel

\* The timer of an entry that goes is the one whose callback removed it.
LEMMA EvictionStep ==
  ASSUME Inv, Next, NEW d \in Dest, toInfo[d] # None, toInfo'[d] = None
  PROVE  infoTimer'[toInfo[d].key][toInfo[d].gen]
           = Finish(infoTimer[toInfo[d].key][toInfo[d].gen])
<1>0. TypeOK /\ CallsReady
  BY DEF Inv
<1>1. CASE UNCHANGED <<keyToInfo, toInfo>>
  BY <1>1
<1>2. ASSUME NEW t \in Thread, run[t].pc = "update", UpdateNew(t)
      PROVE  FALSE
  <2> DEFINE k == run[t].key
  <2>1. PICK g \in Gen :
          toInfo' = [e \in Dest |-> IF Owns(k, e) THEN [key |-> k, gen |-> g]
                                    ELSE toInfo[e]]
    BY <1>2 DEF UpdateNew
  <2>2. Owns(k, d)
    BY <2>1
  <2>3. k \in Key
    BY <1>0, <1>2 DEF TypeOK, CallsReady, Local
  <2>4. [key |-> k, gen |-> g] \in Info
    BY <2>3 DEF Info
  <2> QED BY <2>1, <2>2, <2>4, ObjectFacts
<1>3. ASSUME NEW k \in Key, NEW g \in Gen, InfoExpires(k, g)
      PROVE  infoTimer'[toInfo[d].key][toInfo[d].gen]
               = Finish(infoTimer[toInfo[d].key][toInfo[d].gen])
  <2>1. toInfo[d] = [key |-> k, gen |-> g]
    BY <1>3 DEF InfoExpires, Without
  <2>2. infoTimer'[k][g] = Finish(infoTimer[k][g])
    BY <1>0, <1>3 DEF InfoExpires, TypeOK
  <2> QED BY <2>1, <2>2
<1> QED BY <1>1, <1>2, <1>3, RoutesChange

\* A packet that leaves its buffer is taken, replaced, or its buffer expired.
LEMMA LeavingStep ==
  ASSUME Inv, Next, NEW d \in Dest, buffers[d] # None, buffers'[d] # buffers[d]
  PROVE  \/ \E t \in Thread : buffers[d].packet \in run'[t].out
         \/ buffers'[d] # None /\ buffers'[d].gen = buffers[d].gen
         \/ bufTimer'[d][buffers[d].gen] = Finish(bufTimer[d][buffers[d].gen])
<1>0. TypeOK /\ CallsReady /\ buffers[d] \in Buffer
  BY DEF Inv, TypeOK
<1>1. ASSUME NEW t \in Thread, NEW p \in Packet, AcceptPacket(t, p), SendUnknown(t, p)
      PROVE  buffers'[d] # None /\ buffers'[d].gen = buffers[d].gen
  <2>1. PICK g \in Gen :
          /\ IF buffers[Dst[p]] = None THEN FreshBuffer(Dst[p], g) ELSE g = buffers[Dst[p]].gen
          /\ buffers' = [buffers EXCEPT ![Dst[p]] = [gen |-> g, packet |-> p]]
    BY <1>1 DEF SendUnknown
  <2>2. d = Dst[p]
    BY <1>0, <2>1 DEF TypeOK
  <2>3. buffers'[d] = [gen |-> g, packet |-> p] /\ g = buffers[d].gen
    BY <1>0, <2>1, <2>2 DEF TypeOK
  <2>4. [gen |-> g, packet |-> p] \in Buffer
    BY DEF Buffer
  <2> QED BY <2>3, <2>4, ObjectFacts
<1>2. ASSUME NEW t \in Thread, run[t].pc = "update", UpdateNew(t)
      PROVE  \E u \in Thread : buffers[d].packet \in run'[u].out
  <2> DEFINE k == run[t].key
  <2>1. d \in Flushed(k)
    BY <1>2 DEF UpdateNew, Unbuffered
  <2>2. run' = [run EXCEPT ![t] = [@ EXCEPT !.pc = "write",
                                           !.out = {buffers[e].packet : e \in Flushed(k)}]]
    BY <1>2, <2>1 DEF UpdateNew
  <2>3. run'[t].out = {buffers[e].packet : e \in Flushed(k)}
    BY <1>0, <2>2 DEF TypeOK, Local
  <2> QED BY <2>1, <2>3
<1>3. ASSUME NEW e \in Dest, NEW g \in Gen, BufferExpires(e, g)
      PROVE  bufTimer'[d][buffers[d].gen] = Finish(bufTimer[d][buffers[d].gen])
  <2>1. IsBuffer(e, g) /\ d = e
    BY <1>0, <1>3 DEF BufferExpires, Unbuffered, TypeOK
  <2>2. bufTimer'[e][g] = Finish(bufTimer[e][g])
    BY <1>0, <1>3 DEF BufferExpires, TypeOK
  <2> QED BY <2>1, <2>2 DEF IsBuffer
<1> QED BY <1>1, <1>2, <1>3, BuffersChange

\* An entry is evicted by a callback of its own object and by nothing else, for
\* any keys and any number of objects whose timers still run.
THEOREM EvictionSafe == Spec => EvictedByOwnTimer
<1>1. Inv /\ [Next]_vars =>
        [\A d \in Dest : toInfo[d] # None /\ toInfo'[d] = None =>
           LET i == toInfo[d] IN
           infoTimer'[i.key][i.gen] = Finish(infoTimer[i.key][i.gen])]_vars
  <2> SUFFICES ASSUME Inv, Next, NEW d \in Dest, toInfo[d] # None, toInfo'[d] = None
               PROVE  infoTimer'[toInfo[d].key][toInfo[d].gen]
                        = Finish(infoTimer[toInfo[d].key][toInfo[d].gen])
    OBVIOUS
  <2> QED BY EvictionStep
<1> QED BY <1>1, Invariance, PTL DEF Spec, EvictedByOwnTimer

\* A packet leaves its buffer to be written, to make room, or with its own timer.
THEOREM LeavingSafe == Spec => KeptLeavesOnlyThreeWays
<1>1. Inv /\ [Next]_vars =>
        [\A d \in Dest : buffers[d] # None /\ buffers'[d] # buffers[d] =>
           LET g == buffers[d].gen IN
           \/ \E t \in Thread : buffers[d].packet \in run'[t].out
           \/ buffers'[d] # None /\ buffers'[d].gen = g
           \/ bufTimer'[d][g] = Finish(bufTimer[d][g])]_vars
  <2> SUFFICES ASSUME Inv, Next, NEW d \in Dest, buffers[d] # None, buffers'[d] # buffers[d]
               PROVE  \/ \E t \in Thread : buffers[d].packet \in run'[t].out
                      \/ buffers'[d] # None /\ buffers'[d].gen = buffers[d].gen
                      \/ bufTimer'[d][buffers[d].gen] = Finish(bufTimer[d][buffers[d].gen])
    OBVIOUS
  <2> QED BY LeavingStep
<1> QED BY <1>1, Invariance, PTL DEF Spec, KeptLeavesOnlyThreeWays

-----------------------------------------------------------------------------
(* KeyStore implements Tunnel.                                             *)

\* p is kept or about to be written.
Held(p) == Kept(p) \/ Outgoing(p)

\* The new state of one goroutine, and what is outgoing then.
LEMMA OutgoingStep ==
  ASSUME TypeOK, NEW t \in Thread, NEW l, run' = [run EXCEPT ![t] = l], NEW p
  PROVE  Outgoing(p)' <=> p \in l.out \/ \E u \in Thread \ {t} : p \in run[u].out
<1>1. \A u \in Thread : run'[u] = IF u = t THEN l ELSE run[u]
  BY DEF TypeOK
<1> QED BY <1>1 DEF Outgoing

\* A goroutine with no packet in hand goes on with none.
LEMMA OutgoingSame ==
  ASSUME TypeOK, NEW t \in Thread, NEW l, run[t].out = {}, l.out = {},
         run' = [run EXCEPT ![t] = l], NEW p
  PROVE  Outgoing(p)' <=> Outgoing(p)
BY OutgoingStep DEF Outgoing

\* A held packet is pending, and so its fate is "held".
LEMMA HeldFate ==
  ASSUME TypeOK, HeldForOwner, NEW p \in Packet
  PROVE  /\ Held(p) => Pending(p)
         /\ fate[p] = "held" <=> Held(p)
<1>1. Held(p) => Pending(p)
  BY DEF Held, Kept, Outgoing, HeldForOwner
<1>2. fate[p] = "held" <=> Pending(p) /\ Held(p)
  BY DEF fate, Fate, Pending, Held, TypeOK
<1> QED BY <1>1, <1>2

\* A step that changes no packet, no verdict and nothing delivered.
LEMMA TunnelStutters ==
  ASSUME UNCHANGED <<wire, verdict, delivered>>,
         \A p \in Packet : Held(p)' <=> Held(p)
  PROVE  UNCHANGED T!vars
<1>1. \A p \in Packet : Fate(p)' = Fate(p)
  BY DEF Fate, Held
<1>2. fate' = fate
  BY <1>1 DEF fate
<1> QED BY <1>2 DEF T!vars

\* A step that only lets go of one packet.
LEMMA TunnelLoses ==
  ASSUME TypeOK, HeldForOwner, UNCHANGED <<wire, verdict, delivered>>,
         NEW p \in Packet, Held(p), ~Held(p)',
         \A q \in Packet : q # p => (Held(q)' <=> Held(q))
  PROVE  T!Lose(p)
<1>1. Pending(p) /\ fate[p] = "held"
  BY HeldFate
<1>2. Fate(p)' = "lost"
  BY <1>1 DEF Fate, Held, Pending
<1>3. \A q \in Packet : q # p => Fate(q)' = Fate(q)
  BY DEF Fate, Held
<1>4. fate' = [fate EXCEPT ![p] = "lost"]
  BY <1>2, <1>3 DEF fate
<1> QED BY <1>1, <1>4 DEF T!Lose

\* A step that takes p in, and lets go of q unless q is p.
LEMMA TunnelAccepts ==
  ASSUME TypeOK, HeldForOwner, NEW p \in Packet, NEW q \in Packet,
         verdict[p] = "new", wire[p] = <<>>, p \in Permitted,
         verdict' = [verdict EXCEPT ![p] = "accepted"],
         UNCHANGED <<wire, delivered>>, Held(p)',
         q = p \/ (Held(q) /\ ~Held(q)' /\ Dst[q] = Dst[p]),
         \A r \in Packet \ {p, q} : Held(r)' <=> Held(r)
  PROVE  T!Accept(p, q)
<1>1. fate[p] = "new" /\ Fate(p)' = "held"
  BY DEF fate, Fate, Held, TypeOK
<1>2. q # p => fate[q] = "held" /\ Fate(q)' = "lost"
  BY HeldFate DEF Fate, Held, Pending, TypeOK
<1>3. \A r \in Packet \ {p, q} : Fate(r)' = Fate(r)
  BY DEF Fate, Held, TypeOK
<1>4. fate' = [fate EXCEPT ![q] = "lost", ![p] = "held"]
  BY <1>1, <1>2, <1>3 DEF fate
<1> QED BY <1>1, <1>2, <1>4 DEF T!Accept

LEMMA AcceptRefines ==
  ASSUME Inv, NEW t \in Thread, NEW p \in Packet, AcceptPacket(t, p),
         run[t].out = {}
  PROVE  \E q \in Packet : T!Accept(p, q)
<1>0. TypeOK /\ PacketsOK /\ HeldForOwner /\ HeldOnce
  BY DEF Inv, PacketsOK
<1>1. /\ verdict[p] = "new"
      /\ verdict' = [verdict EXCEPT ![p] = "accepted"]
      /\ UNCHANGED <<wire, delivered>>
  BY DEF AcceptPacket
<1>2. p \in Permitted /\ Dst[p] \in Dest
  BY KeyStoreAssumption DEF AcceptPacket, WriteOK, IsAllowed, Permitted, Dest
<1>3. wire[p] = <<>> /\ ~Held(p)
  BY <1>0, <1>1, NewIsNowhere DEF Held, Kept, Outgoing
<1>4. CASE SendKnown(t, p)
  <2> DEFINE l == [Idle EXCEPT !.pc = "write", !.key = toInfo[Dst[p]].key,
                               !.out = {p}]
  <2>1. l.out = {p} /\ run' = [run EXCEPT ![t] = l] /\ UNCHANGED buffers
    BY <1>4 DEF SendKnown, Idle
  <2> HIDE DEF l
  <2>2. \A r : Outgoing(r)' <=> r = p \/ Outgoing(r)
    BY <1>0, <2>1, OutgoingStep DEF Outgoing
  <2>3. \A r : Held(r)' <=> r = p \/ Held(r)
    BY <2>1, <2>2 DEF Held, Kept
  <2>4. T!Accept(p, p)
    BY <1>0, <1>1, <1>2, <1>3, <2>3, TunnelAccepts
  <2> QED BY <2>4
<1>5. CASE SendUnknown(t, p)
  <2> DEFINE d == Dst[p]
             l == [Idle EXCEPT !.pc = "lookup", !.dest = d]
  <2>1. l.out = {} /\ run' = [run EXCEPT ![t] = l]
    BY <1>5 DEF SendUnknown, Idle
  <2>2. PICK g \in Gen : buffers' = [buffers EXCEPT ![d] = [gen |-> g, packet |-> p]]
    BY <1>5 DEF SendUnknown
  <2>3. [gen |-> g, packet |-> p] # None
    BY ObjectFacts DEF Buffer
  <2>4. /\ buffers'[d] # None /\ buffers'[d].packet = p
        /\ \A e \in Dest \ {d} : buffers'[e] = buffers[e]
    BY <1>0, <1>2, <2>2, <2>3 DEF TypeOK
  <2> HIDE DEF l
  <2>5. \A r : Outgoing(r)' <=> Outgoing(r)
    BY <1>0, <2>1, OutgoingSame
  <2>6. Held(p)'
    BY <1>2, <2>4 DEF Held, Kept
  <2>7. CASE buffers[d] = None
    <3>1. \A r \in Packet \ {p} : Kept(r)' <=> Kept(r)
      BY <1>2, <2>4, <2>7 DEF Kept
    <3>2. T!Accept(p, p)
      BY <1>0, <1>1, <1>2, <1>3, <2>5, <2>6, <3>1, TunnelAccepts DEF Held
    <3> QED BY <3>2
  <2>8. CASE buffers[d] # None
    <3>0. PICK q \in Packet : q = buffers[d].packet
      BY <1>0, <1>2, <2>8 DEF TypeOK, Buffer
    <3>1. q # p /\ Held(q) /\ Dst[q] = d
      BY <1>0, <1>2, <1>3, <2>8, <3>0 DEF Held, Kept, HeldForOwner
    <3>2. \A r \in Packet \ {p, q} : Kept(r)' <=> Kept(r)
      BY <1>2, <2>4, <2>8, <3>0 DEF Kept
    <3>3. ~Outgoing(q)
      BY <1>0, <1>2, <2>8, <3>0 DEF HeldOnce, Outgoing
    <3>4. ~Kept(q)'
      BY <1>0, <2>4, <3>0, <3>1 DEF Kept, HeldForOwner
    <3>5. T!Accept(p, q)
      BY <1>0, <1>1, <1>2, <1>3, <2>5, <2>6, <3>1, <3>2, <3>3, <3>4,
         TunnelAccepts DEF Held
    <3> QED BY <3>5
  <2> QED BY <2>7, <2>8
<1> QED BY <1>4, <1>5 DEF AcceptPacket

LEMMA RefuseRefines ==
  ASSUME Inv, NEW t \in Writer, NEW p \in Packet, RefuseWrite(t, p)
  PROVE  T!Refuse(p)
<1>0. TypeOK /\ PacketsOK
  BY DEF Inv, PacketsOK
<1>1. /\ verdict[p] = "new" /\ verdict' = [verdict EXCEPT ![p] = "refused"]
      /\ UNCHANGED <<wire, delivered, run, buffers>>
  BY DEF RefuseWrite, storeVars
<1>2. p \notin Permitted
  BY KeyStoreAssumption DEF RefuseWrite, WriteOK, IsAllowed, Permitted
<1>3. fate[p] = "new" /\ Fate(p)' = "refused"
  BY <1>0, <1>1 DEF fate, Fate, TypeOK
<1>4. \A q \in Packet : q # p => Fate(q)' = Fate(q)
  BY <1>0, <1>1 DEF Fate, Kept, Outgoing, TypeOK
<1>5. fate' = [fate EXCEPT ![p] = "refused"]
  BY <1>3, <1>4 DEF fate
<1> QED BY <1>1, <1>2, <1>3, <1>5 DEF T!Refuse

LEMMA TakeRefines ==
  ASSUME Inv, NEW t \in Thread, Update(t), UpdateNew(t), run[t].out = {}
  PROVE  UNCHANGED T!vars
<1> DEFINE k == run[t].key
           D == Flushed(k)
           out == {buffers[d].packet : d \in D}
           l == IF D = {} THEN Written(run[t])
                ELSE [run[t] EXCEPT !.pc = "write", !.out = out]
<1>0. TypeOK /\ k \in Key
  BY DEF Inv, Update, TypeOK, CallsReady, Local
<1>1. l.out = out
  BY <1>0, OutFacts DEF TypeOK, Local
<1>2. run' = [run EXCEPT ![t] = l] /\ UNCHANGED <<wire, verdict, delivered>>
  BY DEF Update, UpdateNew
<1>3. D \subseteq Dest /\ \A d \in D : buffers[d] # None
  BY <1>0, DestFacts DEF Flushed, Owned
<1>4. \A d \in Dest : buffers'[d] = IF d \in D THEN None ELSE buffers[d]
  BY DEF UpdateNew, Unbuffered
<1>5. \A p : p \in out <=> \E d \in D : p = buffers[d].packet
  OBVIOUS
<1> HIDE DEF D, out, l
<1>6. \A p : Outgoing(p)' <=> p \in out \/ Outgoing(p)
  BY <1>0, <1>1, <1>2, OutgoingStep DEF Outgoing
<1>7. \A p : Kept(p) <=> Kept(p)' \/ p \in out
  BY <1>3, <1>4, <1>5 DEF Kept
<1> QED BY <1>2, <1>6, <1>7, TunnelStutters DEF Held

\* core.WriteTo transmits the packet, or loses it when the core is closed.
LEMMA WriteRefines ==
  ASSUME Inv, NEW t \in Thread, NEW p \in Packet, WriteTo(t, p)
  PROVE  T!Lose(p) \/ \E k \in Key : T!Transmit(p, k)
<1> DEFINE k == run[t].key
<1>0. TypeOK /\ HeldForOwner /\ HeldOnce
  BY DEF Inv
<1>1. /\ p \in run[t].out /\ Pending(p) /\ k \in Key /\ Owns(k, Dst[p])
      /\ UNCHANGED <<buffers, verdict, delivered>>
  BY <1>0 DEF WriteTo, storeVars, HeldForOwner, TypeOK, Local
<1>2. Held(p) /\ ~Kept(p)
  BY <1>0, <1>1 DEF Held, Kept, Outgoing, HeldOnce
<1>3. Sent(run[t], p).out = run[t].out \ {p}
  BY <1>0, OutFacts DEF Sent, TypeOK, Local
<1>4. run' = [run EXCEPT ![t] = Sent(run[t], p)]
  BY DEF WriteTo
<1>5. \A q : Outgoing(q)' <=> Outgoing(q) /\ q # p
  <2>1. \A u \in Thread \ {t} : p \notin run[u].out
    BY <1>0, <1>1 DEF HeldOnce
  <2>2. \A q : Outgoing(q)' <=> \/ q \in run[t].out \ {p}
                                \/ \E u \in Thread \ {t} : q \in run[u].out
    BY <1>0, <1>3, <1>4, OutgoingStep
  <2> QED BY <2>1, <2>2 DEF Outgoing
<1>6. \A q : Held(q)' <=> Held(q) /\ q # p
  BY <1>1, <1>2, <1>5 DEF Held, Kept
<1>7. CASE closed
  <2>1. wire' = wire
    BY <1>7 DEF WriteTo
  <2>2. T!Lose(p)
    BY <1>0, <1>1, <1>2, <1>6, <2>1, TunnelLoses
  <2> QED BY <2>2
<1>8. CASE ~closed
  <2>1. wire' = [wire EXCEPT ![p] = Append(@, k)]
    BY <1>8 DEF WriteTo
  <2>2. wire'[p] # <<>>
    <3>1. wire'[p] = Append(<<>>, k)
      BY <1>0, <1>1, <2>1 DEF Pending, TypeOK
    <3> QED BY <1>1, <3>1
  <2>3. fate[p] = "held" /\ Fate(p)' = "sent"
    BY <1>0, <1>1, <1>2, <2>2, HeldFate DEF Fate, Pending
  <2>4. \A q \in Packet : q # p => Fate(q)' = Fate(q)
    BY <1>0, <1>1, <1>6, <2>1 DEF Fate, Held, TypeOK
  <2>5. fate' = [fate EXCEPT ![p] = "sent"]
    BY <2>3, <2>4 DEF fate
  <2>6. k \in Reach[p]
    BY <1>1 DEF Reach
  <2>7. T!Transmit(p, k)
    BY <1>1, <2>1, <2>3, <2>5, <2>6 DEF T!Transmit
  <2> QED BY <1>1, <2>7
<1> QED BY <1>7, <1>8

\* A buffer that expires loses its packet; one that was replaced, nothing.
LEMMA ExpireRefines ==
  ASSUME Inv, NEW d \in Dest, NEW g \in Gen, BufferExpires(d, g)
  PROVE  UNCHANGED T!vars \/ \E p \in Packet : T!Lose(p)
<1>0. TypeOK /\ HeldForOwner /\ HeldOnce
  BY DEF Inv
<1>1. UNCHANGED <<run, wire, verdict, delivered>>
  BY DEF BufferExpires
<1>2. CASE ~IsBuffer(d, g)
  <2>1. \A p \in Packet : Held(p)' <=> Held(p)
    BY <1>1, <1>2 DEF BufferExpires, Held, Kept, Outgoing
  <2> QED BY <1>1, <2>1, TunnelStutters
<1>3. CASE IsBuffer(d, g)
  <2>1. PICK p \in Packet : buffers[d] # None /\ p = buffers[d].packet
    BY <1>0, <1>3 DEF IsBuffer, TypeOK, Buffer
  <2>2. buffers'[d] = None /\ \A e \in Dest \ {d} : buffers'[e] = buffers[e]
    BY <1>3 DEF BufferExpires, Unbuffered
  <2>3. ~Kept(p)'
    BY <1>0, <2>1, <2>2 DEF Kept, HeldForOwner
  <2>4. ~Outgoing(p)'
    BY <1>0, <1>1, <2>1 DEF Outgoing, HeldOnce
  <2>5. Held(p) /\ \A q \in Packet : q # p => (Held(q)' <=> Held(q))
    BY <1>1, <2>1, <2>2 DEF Held, Kept, Outgoing
  <2>6. T!Lose(p)
    BY <1>0, <1>1, <2>3, <2>4, <2>5, TunnelLoses DEF Held
  <2> QED BY <2>6
<1> QED BY <1>2, <1>3

\* A goroutine's step without a packet in hand, before it or after.
LEMMA RunStutters ==
  ASSUME TypeOK, NEW t \in Thread, NEW l, run[t].out = {}, l.out = {},
         run' = [run EXCEPT ![t] = l]
  PROVE  /\ UNCHANGED <<buffers, wire, verdict>> =>
              \A p \in Packet : Fate(p)' = Fate(p)
         /\ UNCHANGED <<buffers, wire, verdict, delivered>> =>
              UNCHANGED T!vars
<1>1. \A p : Outgoing(p)' <=> Outgoing(p)
  BY OutgoingSame
<1>2. UNCHANGED buffers => \A p \in Packet : Held(p)' <=> Held(p)
  BY <1>1 DEF Held, Kept
<1> QED BY <1>2, TunnelStutters DEF Fate, Held

\* What passes the checks of readPC is trusted.
LEMMA CheckRefines ==
  ASSUME Inv, NEW t \in Thread, Check(t), run[t].out = {}
  PROVE  UNCHANGED T!vars \/ \E f \in Frame : T!Deliver(f)
<1> DEFINE f == run[t].frame
<1>0. /\ TypeOK /\ f \in Frame /\ f.dst \in {MyAddress, MySubnet}
      /\ run' = [run EXCEPT ![t] = Idle] /\ Idle.out = {}
      /\ UNCHANGED <<buffers, wire, verdict>>
  BY OutFacts DEF Inv, Check, storeVars, TypeOK, CallsReady, Local
<1>1. CASE Accepts(f)
  <2>1. f \in Trusted
    BY <1>0, <1>1, KeyStoreAssumption DEF Accepts, Owns, IsAllowed, Trusted
  <2>2. fate' = fate
    BY <1>0, RunStutters DEF fate
  <2>3. T!Deliver(f)
    BY <1>0, <1>1, <2>1, <2>2 DEF Check, T!Deliver
  <2> QED BY <1>0, <2>3
<1>2. CASE ~Accepts(f)
  BY <1>0, <1>2, RunStutters DEF Check
<1> QED BY <1>1, <1>2

\* Every step of the key store is a step of the tunnel, or none.
LEMMA TunnelStep ==
  ASSUME Inv, Next
  PROVE  T!Next \/ UNCHANGED T!vars
<1>0. TypeOK /\ \A t \in Thread : run[t].pc # "write" => run[t].out = {}
  BY DEF Inv, OutWhileWriting
<1>1. ASSUME NEW t \in Writer, NEW p \in Packet, Write(t, p)
      PROVE  T!Next
  BY <1>0, <1>1, AcceptRefines DEF Write, Thread, T!Next
<1>2. ASSUME NEW t \in Writer, NEW p \in Packet, RefuseWrite(t, p)
      PROVE  T!Next
  BY <1>2, RefuseRefines DEF T!Next
<1>3. ASSUME NEW t \in Reader, NEW f \in Frame, ReadFrom(t, f)
      PROVE  UNCHANGED T!vars
  <2> DEFINE l == IF f.len > mtu THEN [Idle EXCEPT !.pc = "toobig", !.frame = f]
                  ELSE IF f.dst \notin {MyAddress, MySubnet} THEN Idle
                  ELSE [Idle EXCEPT !.pc = "update", !.key = f.from, !.frame = f]
  <2>1. l.out = {}
    BY OutFacts
  <2>2. /\ t \in Thread /\ run[t].out = {} /\ run' = [run EXCEPT ![t] = l]
        /\ UNCHANGED <<buffers, wire, verdict, delivered>>
    BY <1>0, <1>3 DEF ReadFrom, storeVars, Thread
  <2> HIDE DEF l
  <2> QED BY <1>0, <2>1, <2>2, RunStutters
<1>4. ASSUME NEW t \in Thread, Continue(t)
      PROVE  T!Next \/ UNCHANGED T!vars
  <2>1. CASE SendKeyLookup(t) \/ DropTooBig(t)
    BY <1>0, <2>1, OutFacts, RunStutters DEF SendKeyLookup, DropTooBig, storeVars
  <2>2. CASE Update(t)
    <3>1. run[t].out = {} /\ Written(run[t]).out = {}
      BY <1>0, <2>2, OutFacts DEF Update, TypeOK
    <3>2. CASE UpdateKnown(t)
      BY <1>0, <2>2, <3>1, <3>2, RunStutters DEF Update, UpdateKnown
    <3>3. CASE UpdateNew(t)
      BY <2>2, <3>1, <3>3, TakeRefines
    <3> QED BY <2>2, <3>2, <3>3 DEF Update
  <2>3. CASE \E p \in Packet : WriteTo(t, p)
    BY <2>3, WriteRefines DEF T!Next
  <2>4. CASE \E p \in Packet : SendTooBig(t, p)
    BY <1>0, <2>4, AcceptRefines DEF SendTooBig, T!Next
  <2>5. CASE Check(t)
    <3>1. run[t].out = {}
      BY <1>0, <2>5 DEF Check
    <3> QED BY <2>5, <3>1, CheckRefines DEF T!Next
  <2> QED BY <1>4, <2>1, <2>2, <2>3, <2>4, <2>5 DEF Continue
<1>5. ASSUME NEW k \in Key, PathNotify(k)
      PROVE  UNCHANGED T!vars
  <2> DEFINE l == [Idle EXCEPT !.pc = "update", !.key = k]
  <2>1. l.out = {}
    BY OutFacts
  <2>2. /\ Notifier \in Thread /\ run[Notifier].out = {}
        /\ run' = [run EXCEPT ![Notifier] = l]
        /\ UNCHANGED <<buffers, wire, verdict, delivered>>
    BY <1>0, <1>5 DEF PathNotify, storeVars, Thread
  <2> HIDE DEF l
  <2> QED BY <1>0, <2>1, <2>2, RunStutters
<1>6. ASSUME NEW d \in Dest, NEW g \in Gen, BufferExpires(d, g)
      PROVE  T!Next \/ UNCHANGED T!vars
  BY <1>6, ExpireRefines DEF T!Next
<1>7. ASSUME UNCHANGED <<run, buffers, wire, verdict, delivered>>
      PROVE  UNCHANGED T!vars
  BY <1>7, TunnelStutters DEF Held, Kept, Outgoing
<1> QED
  BY <1>1, <1>2, <1>3, <1>4, <1>5, <1>6, <1>7 DEF Next, InfoTimerFires,
     InfoExpires, BufTimerFires, SetMTU, Close, storeVars

\* Every step of the key store is a step of the tunnel or leaves it as it is, for
\* any number of goroutines and timers: what is promised of a packet and a frame,
\* with no maps and no interleaving in sight, is what the code does.
THEOREM TunnelSafe == Spec => ImplementsTunnel
<1>1. Init => T!Init
  BY DEF Init, T!Init, fate, Fate
<1>2. Inv /\ [Next]_vars => [T!Next]_T!vars
  <2> SUFFICES ASSUME Inv, [Next]_vars
               PROVE  T!Next \/ UNCHANGED T!vars
    OBVIOUS
  <2>1. CASE UNCHANGED vars
    BY <2>1, TunnelStutters DEF vars, Held, Kept, Outgoing
  <2> QED BY <2>1, TunnelStep
<1> QED BY <1>1, <1>2, Invariance, PTL DEF Spec, ImplementsTunnel, T!Spec

\* The end of a packet is final: one that was lost, because its buffer expired or
\* was needed, or because the core was closed, is not sent later by an update that
\* still had it; one that was refused is not let in.
THEOREM FateIsFinal ==
  Spec => [][\A p \in Packet : fate[p] \in {"sent", "lost", "refused"} =>
               fate'[p] = fate[p]]_vars
<1>1. Inv /\ [Next]_vars =>
        [\A p \in Packet : fate[p] \in {"sent", "lost", "refused"} =>
           fate'[p] = fate[p]]_vars
  <2> SUFFICES ASSUME Inv, Next, NEW p \in Packet,
                      fate[p] \in {"sent", "lost", "refused"}
               PROVE  fate'[p] = fate[p]
    OBVIOUS
  <2>1. fate \in [Packet -> {fate[q] : q \in Packet}]
    BY DEF fate
  <2>2. CASE T!Next
    BY <2>1, <2>2 DEF T!Next, T!Refuse, T!Lose, T!Accept, T!Transmit, T!Deliver
  <2>3. CASE UNCHANGED T!vars
    BY <2>3 DEF T!vars
  <2> QED BY <2>2, <2>3, TunnelStep
<1> QED BY <1>1, Invariance, PTL DEF Spec

\* A held packet is in the hands of a goroutine that is about to write it, or in
\* a buffer whose timer still runs: there is always somebody who will end its wait.
\* This is what PacketsSettle rests on, besides fairness.
THEOREM HeldIsMoved ==
  Spec => [](\A p \in Packet : fate[p] = "held" =>
               \/ \E t \in Thread : run[t].pc = "write" /\ p \in run[t].out
               \/ \E d \in Dest : /\ buffers[d] # None /\ buffers[d].packet = p
                                  /\ Live(bufTimer[d][buffers[d].gen]))
<1>1. ASSUME Inv, NEW p \in Packet, fate[p] = "held"
      PROVE  \/ \E t \in Thread : run[t].pc = "write" /\ p \in run[t].out
             \/ \E d \in Dest : /\ buffers[d] # None /\ buffers[d].packet = p
                                /\ Live(bufTimer[d][buffers[d].gen])
  <2>1. Kept(p) \/ Outgoing(p)
    BY <1>1, HeldFate DEF Inv, Held
  <2> QED BY <1>1, <2>1 DEF Kept, Outgoing, Inv, OutWhileWriting, EntriesExpire
<1>2. Inv => \A p \in Packet : fate[p] = "held" =>
               \/ \E t \in Thread : run[t].pc = "write" /\ p \in run[t].out
               \/ \E d \in Dest : /\ buffers[d] # None /\ buffers[d].packet = p
                                  /\ Live(bufTimer[d][buffers[d].gen])
  BY <1>1
<1> QED BY <1>2, Invariance, PTL

-----------------------------------------------------------------------------
(* Unique owners.                                                          *)

\* The entry of a key is what its destinations lead to.
KeyLeads ==
  \A k \in Key : keyToInfo[k] # None =>
    \A d \in Owned(k) : toInfo[d] = [key |-> k, gen |-> keyToInfo[k]]

LEMMA OwnersDiffer ==
  ASSUME UniqueOwners, NEW j \in Key, NEW k \in Key, NEW d, Owns(j, d), Owns(k, d)
  PROVE  j = k
<1>1. AddrForKey[j] # SubnetForKey[k] /\ AddrForKey[k] # SubnetForKey[j]
  BY KeyStoreAssumption DEF Dest
<1> QED BY <1>1 DEF UniqueOwners, Owns

LEMMA KeyLeadsStep ==
  ASSUME UniqueOwners, Inv, KeyLeads, Next
  PROVE  KeyLeads'
<1>0. TypeOK /\ CallsReady
  BY DEF Inv
<1>1. CASE UNCHANGED <<keyToInfo, toInfo>>
  BY <1>1 DEF KeyLeads
<1>2. ASSUME NEW t \in Thread, run[t].pc = "update", UpdateNew(t)
      PROVE  KeyLeads'
  <2> DEFINE k == run[t].key
  <2>1. k \in Key
    BY <1>0, <1>2 DEF TypeOK, CallsReady, Local
  <2>2. PICK g \in Gen :
          /\ keyToInfo' = [keyToInfo EXCEPT ![k] = g]
          /\ toInfo' = [e \in Dest |-> IF Owns(k, e) THEN [key |-> k, gen |-> g]
                                       ELSE toInfo[e]]
    BY <1>2 DEF UpdateNew
  <2> SUFFICES ASSUME NEW j \in Key, keyToInfo'[j] # None, NEW d \in Owned(j)
               PROVE  toInfo'[d] = [key |-> j, gen |-> keyToInfo'[j]]
    BY DEF KeyLeads, Owned
  <2>3. d \in Dest /\ Owns(j, d)
    BY DestFacts DEF Owned, Owns
  <2>4. CASE j = k
    BY <1>0, <2>1, <2>2, <2>3, <2>4 DEF TypeOK
  <2>5. CASE j # k
    <3>1. ~Owns(k, d)
      BY <2>1, <2>3, <2>5, OwnersDiffer
    <3>2. keyToInfo'[j] = keyToInfo[j] /\ toInfo'[d] = toInfo[d]
      BY <1>0, <2>2, <2>3, <2>5, <3>1 DEF TypeOK
    <3> QED BY <3>2 DEF KeyLeads
  <2> QED BY <2>4, <2>5
<1>3. ASSUME NEW k \in Key, NEW g \in Gen, InfoExpires(k, g)
      PROVE  KeyLeads'
  <2>1. /\ keyToInfo' = [keyToInfo EXCEPT ![k] = IF @ = g THEN None ELSE @]
        /\ toInfo' = [e \in Dest |-> IF toInfo[e] = [key |-> k, gen |-> g] THEN None ELSE toInfo[e]]
    BY <1>3 DEF InfoExpires, Without
  <2> SUFFICES ASSUME NEW j \in Key, keyToInfo'[j] # None, NEW d \in Owned(j)
               PROVE  toInfo'[d] = [key |-> j, gen |-> keyToInfo'[j]]
    BY DEF KeyLeads, Owned
  <2>2. d \in Dest
    BY DestFacts DEF Owned
  <2>3. keyToInfo'[j] = keyToInfo[j] /\ (j = k => keyToInfo[j] # g)
    BY <1>0, <2>1 DEF TypeOK
  <2>4. toInfo[d] = [key |-> j, gen |-> keyToInfo[j]]
    BY <2>3 DEF KeyLeads
  <2>5. toInfo[d] # [key |-> k, gen |-> g]
    BY <2>3, <2>4
  <2> QED BY <2>1, <2>2, <2>3, <2>4, <2>5
<1> QED BY <1>1, <1>2, <1>3, RoutesChange

LEMMA KeyLeadsKnown ==
  ASSUME Inv, KeyLeads
  PROVE  KnownKeyKeepsNothing
<1> SUFFICES ASSUME NEW k \in Key, keyToInfo[k] # None, NEW d \in Owned(k)
             PROVE  toInfo[d] # None /\ buffers[d] = None
  BY DEF KnownKeyKeepsNothing
<1>1. d \in Dest /\ keyToInfo[k] \in Gen
  BY DestFacts DEF Owned, Inv, TypeOK
<1>2. toInfo[d] = [key |-> k, gen |-> keyToInfo[k]]
  BY DEF KeyLeads
<1>3. toInfo[d] \in Info
  BY <1>1, <1>2 DEF Info
<1> QED BY <1>1, <1>3, ObjectFacts DEF Inv, KeptOnlyWhileUnknown

\* What a packet kept for d waits for.
Awaits(d) ==
  \/ d \in lookups
  \/ \E t \in Thread : run[t].pc = "lookup" /\ run[t].dest = d
  \/ \E t \in Thread : run[t].pc = "update" /\ Owns(run[t].key, d)

\* A step of which no kept packet takes notice.
LEMMA AwaitsKept ==
  ASSUME KeptAwaitsAnswer, closed' = closed, lookups \subseteq lookups',
         \A d \in Dest : buffers'[d] # None => buffers[d] # None,
         \A t \in Thread : run'[t] = run[t] \/ run[t].pc \notin {"lookup", "update"}
  PROVE  KeptAwaitsAnswer'
<1> SUFFICES ASSUME NEW d \in Dest, buffers'[d] # None, ~closed'
             PROVE  Awaits(d)'
  BY DEF KeptAwaitsAnswer, Awaits
<1>1. Awaits(d)
  BY DEF KeptAwaitsAnswer, Awaits
<1> QED BY <1>1 DEF Awaits, Owns

LEMMA AcceptAwaits ==
  ASSUME Inv, KeptAwaitsAnswer, NEW t \in Thread, NEW p \in Packet,
         AcceptPacket(t, p), run[t].pc \in {"idle", "toobig"}
  PROVE  KeptAwaitsAnswer'
<1>0. TypeOK /\ UNCHANGED <<closed, lookups>>
  BY DEF Inv, AcceptPacket
<1>1. CASE SendKnown(t, p)
  <2>1. \A u \in Thread : u # t => run'[u] = run[u]
    BY <1>0, <1>1 DEF SendKnown, TypeOK
  <2>2. buffers' = buffers
    BY <1>1 DEF SendKnown
  <2> QED BY <1>0, <2>1, <2>2, AwaitsKept
<1>2. CASE SendUnknown(t, p)
  <2>1. /\ run' = [run EXCEPT ![t] = [Idle EXCEPT !.pc = "lookup", !.dest = Dst[p]]]
        /\ \E g \in Gen : buffers' = [buffers EXCEPT ![Dst[p]] = [gen |-> g, packet |-> p]]
    BY <1>2 DEF SendUnknown
  <2>2. run'[t].pc = "lookup" /\ run'[t].dest = Dst[p]
    BY <1>0, <2>1 DEF TypeOK, Idle
  <2>3. \A u \in Thread : u # t => run'[u] = run[u]
    BY <1>0, <2>1 DEF TypeOK
  <2> SUFFICES ASSUME NEW d \in Dest, buffers'[d] # None, ~closed'
               PROVE  Awaits(d)'
    BY DEF KeptAwaitsAnswer, Awaits
  <2>4. CASE d = Dst[p]
    BY <2>2, <2>4 DEF Awaits
  <2>5. CASE d # Dst[p]
    <3>1. buffers[d] # None
      BY <1>0, <2>1, <2>5 DEF TypeOK
    <3>2. Awaits(d)
      BY <1>0, <3>1 DEF KeptAwaitsAnswer, Awaits
    <3> QED BY <1>0, <2>3, <3>2 DEF Awaits, Owns
  <2> QED BY <2>4, <2>5
<1> QED BY <1>1, <1>2 DEF AcceptPacket

LEMMA UpdateAwaits ==
  ASSUME Inv, KeyLeads, KeptAwaitsAnswer, NEW t \in Thread, Update(t)
  PROVE  KeptAwaitsAnswer'
<1> DEFINE k == run[t].key
<1>0. TypeOK /\ k \in Key /\ UNCHANGED <<closed, lookups>>
  BY DEF Inv, Update, TypeOK, CallsReady, Local
<1>1. \A u \in Thread : u # t => run'[u] = run[u]
  BY <1>0 DEF Update, UpdateKnown, UpdateNew, TypeOK
<1>2. \A d \in Dest : buffers'[d] # None => buffers[d] # None /\ ~Owns(k, d)
  <2>1. CASE UpdateKnown(t)
    <3>1. buffers' = buffers /\ \A d \in Owned(k) : buffers[d] = None
      BY <1>0, <2>1, KeyLeadsKnown DEF UpdateKnown, KnownKeyKeepsNothing
    <3> QED BY <3>1 DEF Owned, Owns
  <2>2. CASE UpdateNew(t)
    BY <2>2 DEF UpdateNew, Unbuffered, Flushed, Owned, Owns
  <2> QED BY <2>1, <2>2 DEF Update
<1> SUFFICES ASSUME NEW d \in Dest, buffers'[d] # None, ~closed'
             PROVE  Awaits(d)'
  BY DEF KeptAwaitsAnswer, Awaits
<1>3. Awaits(d) /\ ~Owns(k, d)
  BY <1>0, <1>2 DEF KeptAwaitsAnswer, Awaits
<1>4. run[t].pc = "update"
  BY DEF Update
<1> QED BY <1>0, <1>1, <1>3, <1>4 DEF Awaits, Owns

LEMMA LookupAwaits ==
  ASSUME Inv, KeptAwaitsAnswer, NEW t \in Thread, SendKeyLookup(t)
  PROVE  KeptAwaitsAnswer'
<1>0. /\ TypeOK /\ UNCHANGED <<buffers, closed>> /\ run[t].pc = "lookup"
      /\ ~closed => lookups' = lookups \cup {run[t].dest}
  BY DEF Inv, SendKeyLookup, storeVars
<1>1. \A u \in Thread : u # t => run'[u] = run[u]
  BY <1>0 DEF SendKeyLookup, TypeOK
<1> SUFFICES ASSUME NEW d \in Dest, buffers'[d] # None, ~closed'
             PROVE  Awaits(d)'
  BY DEF KeptAwaitsAnswer, Awaits
<1>2. Awaits(d)
  BY <1>0 DEF KeptAwaitsAnswer, Awaits
<1> QED BY <1>0, <1>1, <1>2 DEF Awaits, Owns

LEMMA NotifyAwaits ==
  ASSUME Inv, KeptAwaitsAnswer, NEW k \in Key, PathNotify(k)
  PROVE  KeptAwaitsAnswer'
<1>0. /\ TypeOK /\ UNCHANGED <<buffers, closed>> /\ run[Notifier].pc = "idle"
      /\ lookups' = lookups \ Owned(k) /\ Notifier \in Thread
  BY DEF Inv, PathNotify, storeVars, Thread
<1>1. /\ run'[Notifier].pc = "update" /\ run'[Notifier].key = k
      /\ \A u \in Thread : u # Notifier => run'[u] = run[u]
  BY <1>0 DEF PathNotify, TypeOK, Idle
<1> SUFFICES ASSUME NEW d \in Dest, buffers'[d] # None, ~closed'
             PROVE  Awaits(d)'
  BY DEF KeptAwaitsAnswer, Awaits
<1>2. Awaits(d)
  BY <1>0 DEF KeptAwaitsAnswer, Awaits
<1>3. CASE Owns(k, d)
  BY <1>0, <1>1, <1>3 DEF Awaits, Owns
<1>4. CASE ~Owns(k, d)
  BY <1>0, <1>1, <1>2, <1>4 DEF Awaits, Owns, Owned
<1> QED BY <1>3, <1>4

\* A goroutine goes on, or starts, without a buffer in its hands.
LEMMA QuietAwaits ==
  ASSUME Inv, KeptAwaitsAnswer, NEW t \in Thread,
         \/ \E f \in Frame : ReadFrom(t, f)
         \/ \E p \in Packet : WriteTo(t, p)
         \/ DropTooBig(t) \/ Check(t)
  PROVE  KeptAwaitsAnswer'
<1>0. TypeOK
  BY DEF Inv
<1>1. UNCHANGED <<buffers, closed, lookups>> /\ run[t].pc \notin {"lookup", "update"}
  BY DEF ReadFrom, WriteTo, DropTooBig, Check, storeVars
<1>2. \A u \in Thread : u # t => run'[u] = run[u]
  BY <1>0 DEF ReadFrom, WriteTo, DropTooBig, Check, TypeOK
<1> QED BY <1>1, <1>2, AwaitsKept

LEMMA AwaitsStep ==
  ASSUME Inv, KeyLeads, KeptAwaitsAnswer, Next
  PROVE  KeptAwaitsAnswer'
<1>1. ASSUME NEW t \in Writer, NEW p \in Packet, Write(t, p) PROVE KeptAwaitsAnswer'
  BY <1>1, AcceptAwaits DEF Write, Thread
<1>2. ASSUME NEW t \in Writer, NEW p \in Packet, RefuseWrite(t, p) PROVE KeptAwaitsAnswer'
  BY <1>2, AwaitsKept DEF RefuseWrite, storeVars
<1>3. ASSUME NEW t \in Reader, NEW f \in Frame, ReadFrom(t, f) PROVE KeptAwaitsAnswer'
  BY <1>3, QuietAwaits DEF Thread
<1>4. ASSUME NEW t \in Thread, Continue(t) PROVE KeptAwaitsAnswer'
  BY <1>4, LookupAwaits, UpdateAwaits, AcceptAwaits, QuietAwaits DEF Continue, SendTooBig
<1>5. ASSUME NEW k \in Key, PathNotify(k) PROVE KeptAwaitsAnswer'
  BY <1>5, NotifyAwaits
<1>6. ASSUME NEW k \in Key, NEW g \in Gen, InfoTimerFires(k, g) \/ InfoExpires(k, g)
      PROVE  KeptAwaitsAnswer'
  BY <1>6, AwaitsKept DEF InfoTimerFires, InfoExpires
<1>7. ASSUME NEW d \in Dest, NEW g \in Gen, BufTimerFires(d, g) \/ BufferExpires(d, g)
      PROVE  KeptAwaitsAnswer'
  <2>1. UNCHANGED <<run, closed, lookups>>
        /\ \A e \in Dest : buffers'[e] # None => buffers[e] # None
    BY <1>7 DEF BufTimerFires, BufferExpires, Unbuffered
  <2> QED BY <2>1, AwaitsKept
<1>8. ASSUME NEW m \in MTURequest, SetMTU(m) PROVE KeptAwaitsAnswer'
  BY <1>8, AwaitsKept DEF SetMTU, storeVars
<1>9. CASE Close
  BY <1>9 DEF Close, KeptAwaitsAnswer
<1> QED BY <1>1, <1>2, <1>3, <1>4, <1>5, <1>6, <1>7, <1>8, <1>9 DEF Next

\* Where owners are unique, a key that has an entry keeps no packet waiting, and a
\* packet that waits waits for something.
THEOREM UniqueInvariance ==
  ASSUME UniqueOwners
  PROVE  Spec => [](Inv /\ KeyLeads /\ KeptAwaitsAnswer)
<1>1. Init => Inv /\ KeyLeads /\ KeptAwaitsAnswer
  BY InitInv DEF Init, KeyLeads, KeptAwaitsAnswer
<1>2. Inv /\ KeyLeads /\ KeptAwaitsAnswer /\ [Next]_vars => (Inv /\ KeyLeads /\ KeptAwaitsAnswer)'
  <2> SUFFICES ASSUME Inv, KeyLeads, KeptAwaitsAnswer, [Next]_vars
               PROVE  Inv' /\ KeyLeads' /\ KeptAwaitsAnswer'
    OBVIOUS
  <2>1. Inv'
    BY StepInv
  <2>2. CASE Next
    BY <2>1, <2>2, KeyLeadsStep, AwaitsStep
  <2>3. CASE UNCHANGED vars
    BY <2>1, <2>3 DEF vars, KeyLeads, KeptAwaitsAnswer
  <2> QED BY <2>2, <2>3
<1> QED BY <1>1, <1>2, PTL DEF Spec

\* Where owners are unique, no packet waits for a key whose entry is there: what
\* update took was all that the key's destinations kept.
THEOREM KnownSafe ==
  ASSUME UniqueOwners
  PROVE  Spec => []KnownKeyKeepsNothing
<1>1. Inv /\ KeyLeads => KnownKeyKeepsNothing
  BY KeyLeadsKnown
<1> QED BY <1>1, UniqueInvariance, PTL

\* Where owners are unique, a packet that waits has a lookup on its way, to be sent
\* or answered, however the answers and the timers meet it.
THEOREM AwaitsSafe ==
  ASSUME UniqueOwners
  PROVE  Spec => []KeptAwaitsAnswer
BY UniqueInvariance, PTL

-----------------------------------------------------------------------------
(* What DrainsAfterClose rests on, besides fairness.                       *)

\* The goroutines that are about to enter a key, and the packets still to come.
Updating == {t \in Thread : run[t].pc = "update"}
Fresh == {p \in Packet : verdict[p] = "new"}

\* Steps that the timers of an object have before them.
Work(tm) == (IF tm.armed THEN 2 ELSE 0) + tm.fired

\* A step that lets nothing into the maps, and gives no timer anything to do.
Draining ==
  /\ \A k \in Key : keyToInfo'[k] \in {keyToInfo[k], None}
  /\ \A d \in Dest : toInfo'[d] \in {toInfo[d], None} /\ buffers'[d] \in {buffers[d], None}
  /\ \A k \in Key, g \in Gen : Work(infoTimer'[k][g]) <= Work(infoTimer[k][g])
  /\ \A d \in Dest, g \in Gen : Work(bufTimer'[d][g]) <= Work(bufTimer[d][g])

LEMMA WorkFacts ==
  ASSUME NEW tm \in Timer
  PROVE  /\ Work(tm) <= Work(tm)
         /\ tm.armed => Work(Fire(tm)) <= Work(tm)
         /\ tm.fired > 0 => Work(Finish(tm)) <= Work(tm)
<1>1. tm.armed \in BOOLEAN /\ tm.fired \in Nat
  BY DEF Timer
<1>2. Finish(tm).armed = tm.armed /\ Finish(tm).fired = tm.fired - 1
  BY DEF Timer, Finish
<1> QED BY <1>1, <1>2 DEF Work, Fire

\* A step of timer g of one of the objects of x.
LEMMA TimerDrains ==
  ASSUME NEW S, NEW f \in [S -> [Gen -> Timer]], NEW f1, NEW x \in S, NEW g \in Gen,
         \/ f[x][g].armed /\ f1 = [f EXCEPT ![x][g] = Fire(@)]
         \/ f[x][g].fired > 0 /\ f1 = [f EXCEPT ![x][g] = Finish(@)]
  PROVE  \A y \in S, h \in Gen : Work(f1[y][h]) <= Work(f[y][h])
<1> SUFFICES ASSUME NEW y \in S, NEW h \in Gen
             PROVE  Work(f1[y][h]) <= Work(f[y][h])
  OBVIOUS
<1>1. f[y][h] \in Timer
  OBVIOUS
<1>2. CASE y = x /\ h = g
  <2>1. \/ f[y][h].armed /\ f1[y][h] = Fire(f[y][h])
        \/ f[y][h].fired > 0 /\ f1[y][h] = Finish(f[y][h])
    BY <1>2
  <2> QED BY <1>1, <2>1, WorkFacts
<1>3. CASE ~(y = x /\ h = g)
  <2>1. f1[y][h] = f[y][h]
    BY <1>3
  <2> QED BY <1>1, <2>1, WorkFacts
<1> QED BY <1>2, <1>3

\* Update takes the goroutine on, and a packet that is accepted is no longer new.
LEMMA CallsUseUp ==
  ASSUME TypeOK, NEW t \in Thread
  PROVE  /\ run[t].pc = "update" /\ (UpdateKnown(t) \/ UpdateNew(t)) =>
              Updating' \subseteq Updating /\ t \in Updating \ Updating'
         /\ \A p \in Packet : AcceptPacket(t, p) =>
              /\ Updating' \subseteq Updating
              /\ Fresh' \subseteq Fresh /\ p \in Fresh \ Fresh'
<1>1. ASSUME run[t].pc = "update", UpdateKnown(t) \/ UpdateNew(t)
      PROVE  Updating' \subseteq Updating /\ t \in Updating \ Updating'
  <2>1. run[t] \in Local /\ Written(run[t]).pc # "update"
    BY DEF Written, Idle, TypeOK, Local
  <2>2. \A S : [run[t] EXCEPT !.pc = "write", !.out = S].pc = "write"
    BY <2>1 DEF Local
  <2>3. CASE run' = [run EXCEPT ![t] = Written(@)]
    <3>1. run'[t] = Written(run[t])
      BY <2>3 DEF TypeOK
    <3> QED BY <1>1, <2>1, <2>3, <3>1 DEF Updating, TypeOK
  <2>4. ASSUME NEW S, run' = [run EXCEPT ![t] = [@ EXCEPT !.pc = "write", !.out = S]]
        PROVE  Updating' \subseteq Updating /\ t \in Updating \ Updating'
    <3>1. run'[t] = [run[t] EXCEPT !.pc = "write", !.out = S]
      BY <2>4 DEF TypeOK
    <3>2. run'[t].pc = "write"
      BY <2>2, <3>1
    <3> QED BY <1>1, <2>4, <3>2 DEF Updating, TypeOK
  <2>5. \/ run' = [run EXCEPT ![t] = Written(@)]
        \/ \E S : run' = [run EXCEPT ![t] = [@ EXCEPT !.pc = "write", !.out = S]]
    BY <1>1 DEF UpdateKnown, UpdateNew
  <2> QED BY <2>3, <2>4, <2>5
<1>2. ASSUME NEW p \in Packet, AcceptPacket(t, p)
      PROVE  /\ Updating' \subseteq Updating
             /\ Fresh' \subseteq Fresh /\ p \in Fresh \ Fresh'
  <2>1. \/ \E k, S : run' = [run EXCEPT ![t] = [Idle EXCEPT !.pc = "write", !.key = k, !.out = S]]
        \/ \E d : run' = [run EXCEPT ![t] = [Idle EXCEPT !.pc = "lookup", !.dest = d]]
    BY <1>2 DEF AcceptPacket, SendKnown, SendUnknown
  <2>2. Updating' \subseteq Updating
    BY <2>1 DEF Updating, Idle, TypeOK
  <2>3. verdict[p] = "new" /\ verdict' = [verdict EXCEPT ![p] = "accepted"]
    BY <1>2 DEF AcceptPacket
  <2> QED BY <2>2, <2>3 DEF Fresh, TypeOK
<1> QED BY <1>1, <1>2

LEMMA ClosedStep ==
  ASSUME TypeOK, Next, closed
  PROVE  /\ closed' /\ Updating' \subseteq Updating /\ Fresh' \subseteq Fresh
         /\ Updating' = Updating /\ Fresh' = Fresh => Draining
<1>1. closed' /\ Updating' \subseteq Updating /\ Fresh' \subseteq Fresh
  <2>0. closed' = closed
    BY DEF Next, Write, RefuseWrite, AcceptPacket, ReadFrom, Continue, SendKeyLookup, Update,
       WriteTo, SendTooBig, DropTooBig, Check, PathNotify, InfoTimerFires, InfoExpires,
       BufTimerFires, BufferExpires, SetMTU, Close
  <2>1. ASSUME NEW t \in Thread, Update(t) PROVE Updating' \subseteq Updating /\ Fresh' \subseteq Fresh
    BY <2>1, CallsUseUp DEF Update, Fresh
  <2>2. ASSUME NEW t \in Thread, NEW p \in Packet, AcceptPacket(t, p)
        PROVE  Updating' \subseteq Updating /\ Fresh' \subseteq Fresh
    BY <2>2, CallsUseUp
  <2>3. ASSUME NEW t \in Thread, NEW p \in Packet, RefuseWrite(t, p)
        PROVE  Updating' \subseteq Updating /\ Fresh' \subseteq Fresh
    BY <2>3 DEF RefuseWrite, Updating, Fresh, TypeOK
  <2>4. ASSUME NEW t \in Thread, NEW l, l.pc # "update", run' = [run EXCEPT ![t] = l],
               UNCHANGED verdict
        PROVE  Updating' \subseteq Updating /\ Fresh' \subseteq Fresh
    BY <2>4 DEF Updating, Fresh, TypeOK
  <2>5. ASSUME NEW t \in Thread, SendKeyLookup(t) \/ DropTooBig(t) \/ Check(t)
        PROVE  Updating' \subseteq Updating /\ Fresh' \subseteq Fresh
    BY <2>4, <2>5 DEF SendKeyLookup, DropTooBig, Check, Idle
  <2>6. ASSUME NEW t \in Thread, NEW p \in Packet, WriteTo(t, p)
        PROVE  Updating' \subseteq Updating /\ Fresh' \subseteq Fresh
    <3>1. run[t].pc = "write" /\ run[t] \in Local /\ UNCHANGED verdict
          /\ run' = [run EXCEPT ![t] = Sent(run[t], p)]
      BY <2>6 DEF WriteTo, TypeOK
    <3>2. Sent(run[t], p).pc # "update"
      BY <3>1 DEF Sent, Written, Idle, Local
    <3> DEFINE l == Sent(run[t], p)
    <3> HIDE DEF l
    <3>3. l.pc # "update" /\ run' = [run EXCEPT ![t] = l]
      BY <3>1, <3>2 DEF l
    <3> QED BY <2>4, <3>1, <3>3
  <2>7. CASE UNCHANGED <<run, verdict>>
    BY <2>0, <2>7 DEF Updating, Fresh
  <2>8. ASSUME NEW t \in Thread, Continue(t)
        PROVE  Updating' \subseteq Updating /\ Fresh' \subseteq Fresh
    BY <2>1, <2>2, <2>5, <2>6, <2>8 DEF Continue, SendTooBig
  <2> QED
    BY <2>0, <2>2, <2>3, <2>7, <2>8 DEF Next, Write, Thread, ReadFrom, PathNotify,
       InfoTimerFires, InfoExpires, BufTimerFires, BufferExpires, SetMTU, Close
<1>2. ASSUME Updating' = Updating, Fresh' = Fresh
      PROVE  Draining
  <2>0. /\ \A t \in Thread : ~(run[t].pc = "update" /\ (UpdateKnown(t) \/ UpdateNew(t)))
        /\ \A t \in Thread, p \in Packet : ~AcceptPacket(t, p)
    BY <1>2, CallsUseUp
  <2>1. \A k \in Key : keyToInfo'[k] \in {keyToInfo[k], None}
    BY <2>0, RoutesChange DEF InfoExpires, TypeOK
  <2>2. \A d \in Dest : toInfo'[d] \in {toInfo[d], None}
    BY <2>0, RoutesChange DEF InfoExpires, Without
  <2>3. \A d \in Dest : buffers'[d] \in {buffers[d], None}
    BY <2>0, BuffersChange DEF BufferExpires, Unbuffered
  <2>4. \A k \in Key, g \in Gen : Work(infoTimer'[k][g]) <= Work(infoTimer[k][g])
    <3>1. CASE UNCHANGED infoTimer
      BY <3>1, WorkFacts DEF TypeOK
    <3>2. ASSUME NEW k \in Key, NEW g \in Gen, InfoTimerFires(k, g) \/ InfoExpires(k, g)
          PROVE  \A j \in Key, h \in Gen : Work(infoTimer'[j][h]) <= Work(infoTimer[j][h])
      <4>1. \/ /\ infoTimer[k][g].armed
               /\ infoTimer' = [infoTimer EXCEPT ![k][g] = Fire(@)]
            \/ /\ infoTimer[k][g].fired > 0
               /\ infoTimer' = [infoTimer EXCEPT ![k][g] = Finish(@)]
        BY <3>2 DEF InfoTimerFires, InfoExpires
      <4>2. infoTimer \in [Key -> [Gen -> Timer]]
        BY DEF TypeOK
      <4> QED BY <4>1, <4>2, TimerDrains
    <3> QED BY <2>0, <3>1, <3>2, InfoTimersChange DEF Update
  <2>5. \A d \in Dest, g \in Gen : Work(bufTimer'[d][g]) <= Work(bufTimer[d][g])
    <3>1. CASE UNCHANGED bufTimer
      BY <3>1, WorkFacts DEF TypeOK
    <3>2. ASSUME NEW d \in Dest, NEW g \in Gen, BufTimerFires(d, g) \/ BufferExpires(d, g)
          PROVE  \A e \in Dest, h \in Gen : Work(bufTimer'[e][h]) <= Work(bufTimer[e][h])
      <4>1. \/ /\ bufTimer[d][g].armed
               /\ bufTimer' = [bufTimer EXCEPT ![d][g] = Fire(@)]
            \/ /\ bufTimer[d][g].fired > 0
               /\ bufTimer' = [bufTimer EXCEPT ![d][g] = Finish(@)]
        BY <3>2 DEF BufTimerFires, BufferExpires
      <4>2. bufTimer \in [Dest -> [Gen -> Timer]]
        BY DEF TypeOK
      <4> QED BY <4>1, <4>2, TimerDrains
    <3> QED BY <2>0, <3>1, <3>2, BufTimersChange DEF UpdateNew
  <2> QED BY <2>1, <2>2, <2>3, <2>4, <2>5 DEF Draining
<1> QED BY <1>1, <1>2

\* After Close, no goroutine starts an update and no packet is new again; a step
\* that uses up neither an update that was under way nor a packet only takes
\* entries out of the maps, and no timer is started.  So the maps are filled only
\* finitely often after Close.
THEOREM ClosedDrains ==
  Spec => [][closed => /\ closed' /\ Updating' \subseteq Updating /\ Fresh' \subseteq Fresh
                       /\ Updating' = Updating /\ Fresh' = Fresh => Draining]_vars
<1>1. Inv /\ [Next]_vars =>
        [closed => /\ closed' /\ Updating' \subseteq Updating /\ Fresh' \subseteq Fresh
                   /\ Updating' = Updating /\ Fresh' = Fresh => Draining]_vars
  BY ClosedStep DEF Inv
<1> QED BY <1>1, Invariance, PTL DEF Spec
=============================================================================
