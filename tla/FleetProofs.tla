------------------------------ MODULE FleetProofs ------------------------------
(***************************************************************************)
(* The nodes that run with those files, for any fleets, nodes and losses.   *)
(***************************************************************************)
EXTENDS Fleet, ConfigsProofs

\* The invariant of the files, of the nodes and of the ping.
AllInv == ConfInv /\ FleetInv /\ AnswersAreMutual

-----------------------------------------------------------------------------

LEMMA KeyFacts ==
  ASSUME LoadedOK, NEW n \in Name, Runs(n)
  PROVE  /\ KeyOf(n) \in PublicKey /\ loaded[n].filter \subseteq PublicKey
         /\ AddressOf(n) = KeyOf(n)
<1>1. loaded[n] \in Config /\ Accepted(loaded[n])
  BY DEF LoadedOK
<1>2. KeyOf(n) \in PublicKey /\ loaded[n].filter \subseteq PublicKey
  BY <1>1, ConfigsAssumption DEF Accepted, KeyOf, Config
<1>3. AddressOf(n) = KeyOf(n)
  BY <1>1 DEF AddressOf, Known, KeyOf
<1> QED BY <1>2, <1>3

LEMMA AddressFacts ==
  ASSUME TypeOK, LoadedOK, NEW n \in Name
  PROVE  AddressOf(n) \in PublicKey \cup {nil}
<1>1. CASE Accepted(Known(n))
  <2>1. Known(n) \in Config
    BY <1>1 DEF Accepted, Known, LoadedOK, TypeOK
  <2> QED BY <1>1, <2>1, ConfigsAssumption DEF AddressOf, Config
<1>2. CASE ~Accepted(Known(n))
  BY <1>2 DEF AddressOf
<1> QED BY <1>1, <1>2

LEMMA FleetInitInv == ASSUME FleetInit PROVE AllInv
<1>1. ConfInv
  BY ConfInit DEF FleetInit
<1>2. FleetTypeOK
  <2>1. turn \in [src : 1 .. Len(Order) + 1, dst : 1 .. Len(Order)]
    BY FleetAssumption DEF FleetInit
  <2>2. probe \in [leg : {"none", "request", "reply", "received", "dead", "fatal"},
                   src : PublicKey \cup {nil}, dst : PublicKey \cup {nil}]
    BY DEF FleetInit, Silent
  <2>3. loaded \in [Name -> Config \cup {nil}] /\ heard \in [Name -> SUBSET PublicKey]
    BY DEF FleetInit
  <2>4. trust \subseteq PublicKey \X PublicKey /\ calm \in BOOLEAN
    BY DEF FleetInit
  <2>5. lost \in 0 .. MaxLost
    BY FleetAssumption DEF FleetInit
  <2> QED BY <1>1, <2>1, <2>2, <2>3, <2>4, <2>5 DEF FleetTypeOK, ConfInv
<1>3. LoadedOK /\ ProbeOK /\ CalmOK /\ AnswersAreMutual
  <2>1. /\ probe.leg = "none" /\ calm = FALSE
        /\ \A n \in Name : loaded[n] = nil /\ heard[n] = {}
    BY DEF FleetInit, Silent
  <2> QED BY <2>1 DEF LoadedOK, ProbeOK, CalmOK, AnswersAreMutual, Runs
<1> QED BY <1>1, <1>2, <1>3 DEF AllInv, FleetInv

\* The programs that write files touch no node.
LEMMA FilesStep ==
  ASSUME AllInv, Next \/ UNCHANGED configVars,
         UNCHANGED <<loaded, turn, probe, calm, heard, trust, lost>>
  PROVE  AllInv'
<1>1. ConfInv'
  BY ConfStep DEF AllInv
<1>2. FleetTypeOK'
  BY <1>1 DEF AllInv, FleetInv, FleetTypeOK, ConfInv
<1>3. LoadedOK' /\ ProbeOK' /\ AnswersAreMutual'
  BY DEF AllInv, FleetInv, LoadedOK, ProbeOK, AnswersAreMutual, Runs, KeyOf
<1>4. CalmOK'
  BY DEF AllInv, FleetInv, CalmOK, Source, Target, At, Runs, KeyOf, Passes
<1> QED BY <1>1, <1>2, <1>3, <1>4 DEF AllInv, FleetInv

LEMMA LaunchStep ==
  ASSUME AllInv, NEW n \in Name, Launch(n)
  PROVE  AllInv'
<1> DEFINE new == {<<Public[files[n].key], k>> : k \in files[n].filter}
<1>0. /\ FleetTypeOK /\ TypeOK /\ loaded[n] = nil
      /\ files[n] \in Config /\ Accepted(files[n]) /\ files[n].key \in Whole
      /\ loaded' = [loaded EXCEPT ![n] = files[n]] /\ trust' = trust \cup new
      /\ calm' = FALSE
      /\ UNCHANGED <<files, runs, pc, batch, ended, input, next, publicPeers,
                     turn, probe, heard, lost>>
  BY DEF AllInv, FleetInv, FleetTypeOK, TypeOK, Launch, Runs, Accepted, run
<1>1. \A m \in Name : loaded'[m] = IF m = n THEN files[n] ELSE loaded[m]
  BY <1>0 DEF FleetTypeOK
<1>2. ConfInv' /\ TypeOK'
  BY <1>0, ConfStep DEF AllInv, ConfInv, configVars, run
<1>3. FleetTypeOK'
  <2>1. Public[files[n].key] \in PublicKey /\ files[n].filter \subseteq PublicKey
    BY <1>0, ConfigsAssumption DEF Config
  <2>2. trust' \subseteq PublicKey \X PublicKey
    BY <1>0, <2>1 DEF FleetTypeOK
  <2>3. loaded' \in [Name -> Config \cup {nil}]
    BY <1>0 DEF FleetTypeOK
  <2> QED BY <1>0, <1>2, <2>2, <2>3 DEF FleetTypeOK
<1>4. LoadedOK'
  <2> SUFFICES ASSUME NEW m \in Name, loaded'[m] # nil
               PROVE  /\ loaded'[m] \in Config /\ Accepted(loaded'[m])
                      /\ \A k \in loaded'[m].filter : <<Public[loaded'[m].key], k>> \in trust'
    BY DEF LoadedOK, Runs, KeyOf, Accepted
  <2>1. CASE m = n
    BY <1>0, <1>1, <2>1
  <2>2. CASE m # n
    BY <1>0, <1>1, <2>2 DEF AllInv, FleetInv, LoadedOK, Runs, KeyOf
  <2> QED BY <2>1, <2>2
<1>5. ProbeOK' /\ CalmOK'
  BY <1>0 DEF AllInv, FleetInv, ProbeOK, CalmOK
<1>6. AnswersAreMutual'
  <2> SUFFICES ASSUME NEW m \in Name, NEW k \in heard[m]
               PROVE  /\ loaded'[m] # nil
                      /\ <<Public[loaded'[m].key], k>> \in trust'
                      /\ <<k, Public[loaded'[m].key]>> \in trust'
    BY <1>0 DEF AnswersAreMutual, Runs, KeyOf
  <2>1. loaded[m] # nil /\ loaded'[m] = loaded[m]
    BY <1>0, <1>1 DEF AllInv, AnswersAreMutual, Runs
  <2> QED BY <1>0, <2>1 DEF AllInv, AnswersAreMutual, Runs, KeyOf
<1> QED BY <1>2, <1>3, <1>4, <1>5, <1>6 DEF AllInv, FleetInv

LEMMA StopStep ==
  ASSUME AllInv, NEW n \in Name, Stop(n)
  PROVE  AllInv'
<1>0. /\ FleetTypeOK /\ TypeOK
      /\ loaded' = [loaded EXCEPT ![n] = nil] /\ heard' = [heard EXCEPT ![n] = {}]
      /\ calm' = FALSE
      /\ UNCHANGED <<files, runs, pc, batch, ended, input, next, publicPeers,
                     turn, probe, trust, lost>>
  BY DEF AllInv, FleetInv, FleetTypeOK, TypeOK, Stop, run
<1>1. \A m \in Name : /\ loaded'[m] = IF m = n THEN nil ELSE loaded[m]
                      /\ heard'[m] = IF m = n THEN {} ELSE heard[m]
  BY <1>0 DEF FleetTypeOK
<1>2. ConfInv' /\ TypeOK'
  BY <1>0, ConfStep DEF AllInv, ConfInv, configVars, run
<1>3. FleetTypeOK'
  BY <1>0, <1>2 DEF FleetTypeOK
<1>4. LoadedOK'
  BY <1>0, <1>1 DEF AllInv, FleetInv, LoadedOK, Runs, KeyOf
<1>5. ProbeOK' /\ CalmOK'
  BY <1>0 DEF AllInv, FleetInv, ProbeOK, CalmOK
<1>6. AnswersAreMutual'
  BY <1>0, <1>1 DEF AllInv, AnswersAreMutual, Runs, KeyOf
<1> QED BY <1>2, <1>3, <1>4, <1>5, <1>6 DEF AllInv, FleetInv

-----------------------------------------------------------------------------
(* Members of one fleet.                                                   *)

\* Two members of a renewed fleet that run let each other's packets pass.
MembersPass ==
  Renewed =>
    \A a, b \in Members : a # b /\ Runs(a) /\ Runs(b) => Passes(a, KeyOf(b))

LEMMA PassInv == ASSUME AllInv PROVE MembersPass
<1> SUFFICES ASSUME Renewed, NEW a \in Members, NEW b \in Members,
                    a # b, Runs(a), Runs(b)
             PROVE  Passes(a, KeyOf(b))
  BY DEF MembersPass
<1>1. a \in Name /\ b \in Name
  BY EntryFacts DEF Members, AllInv, ConfInv
<1>2. SameRun(b, a) /\ loaded[a] = files[a] /\ loaded[b] = files[b]
  BY DEF Renewed, SameRun, Runs
<1>3. Public[files[b].key] \in files[a].filter
  BY <1>1, <1>2 DEF AllInv, ConfInv, FilesAgree
<1> QED BY <1>2, <1>3 DEF Passes, KeyOf

\* A pair of the test is a pair of two nodes.
LEMMA TurnFacts ==
  ASSUME AllInv, ~(turn.src > Len(Order))
  PROVE  /\ Source \in Name /\ Target \in Name
         /\ turn.src # turn.dst => Source # Target
<1>1. turn.src \in 1 .. Len(Order) /\ turn.dst \in 1 .. Len(Order)
  BY FleetAssumption DEF AllInv, FleetInv, FleetTypeOK
<1>2. Order[turn.src] \in Name /\ Order[turn.dst] \in Name
  BY <1>1, FleetAssumption, ElementOfSeq
<1> QED BY <1>1, <1>2, FleetAssumption DEF Source, Target

-----------------------------------------------------------------------------
(* The ping.                                                               *)

Legs == {"none", "request", "reply", "received", "dead", "fatal"}

\* A step of the ping: the packet and the answers that it leaves are in order.
LEMMA PingsStep ==
  ASSUME AllInv, UNCHANGED <<files, run, loaded, trust>>,
         turn' \in [src : 1 .. Len(Order) + 1, dst : 1 .. Len(Order)],
         probe' \in [leg : Legs, src : PublicKey \cup {nil}, dst : PublicKey \cup {nil}],
         calm' \in BOOLEAN, heard' \in [Name -> SUBSET PublicKey], lost' \in 0 .. MaxLost,
         ProbeOK', CalmOK', AnswersAreMutual'
  PROVE  AllInv'
<1>1. ConfInv' /\ TypeOK'
  BY ConfStep DEF AllInv, ConfInv, configVars
<1>2. FleetTypeOK'
  BY <1>1 DEF AllInv, FleetInv, FleetTypeOK, Legs
<1>3. LoadedOK'
  BY DEF AllInv, FleetInv, LoadedOK, Runs, KeyOf
<1> QED BY <1>1, <1>2, <1>3 DEF AllInv, FleetInv

\* A step that leaves the answers and the turn.
LEMMA ProbeStep ==
  ASSUME AllInv, UNCHANGED <<files, run, loaded, trust, turn, heard>>,
         probe' \in [leg : Legs, src : PublicKey \cup {nil}, dst : PublicKey \cup {nil}],
         calm' \in BOOLEAN, lost' \in 0 .. MaxLost, ProbeOK', CalmOK'
  PROVE  AllInv'
<1>1. AnswersAreMutual'
  BY DEF AllInv, AnswersAreMutual, Runs, KeyOf
<1> QED BY <1>1, PingsStep DEF AllInv, FleetInv, FleetTypeOK

\* The step to the next pair.
LEMMA NextPairStep ==
  ASSUME AllInv, NextPair, turn.src <= Len(Order), UNCHANGED <<files, run, loaded, heard, trust, lost>>
  PROVE  AllInv'
<1>0. /\ FleetTypeOK /\ turn \in [src : 1 .. Len(Order) + 1, dst : 1 .. Len(Order)]
      /\ Len(Order) \in Nat
  BY FleetAssumption DEF AllInv, FleetInv, FleetTypeOK
<1>1. turn' \in [src : 1 .. Len(Order) + 1, dst : 1 .. Len(Order)]
  <2>1. CASE turn.dst < Len(Order)
    <3>1. turn' = [turn EXCEPT !.dst = @ + 1]
      BY <2>1 DEF NextPair
    <3>2. turn.dst + 1 \in 1 .. Len(Order)
      BY <1>0, <2>1
    <3> QED BY <1>0, <3>1, <3>2
  <2>2. CASE ~(turn.dst < Len(Order))
    <3>1. turn' = [src |-> turn.src + 1, dst |-> 1]
      BY <2>2 DEF NextPair
    <3>2. turn.src + 1 \in 1 .. Len(Order) + 1 /\ 1 \in 1 .. Len(Order)
      BY <1>0
    <3> QED BY <3>1, <3>2
  <2> QED BY <2>1, <2>2
<1>2. ProbeOK' /\ CalmOK' /\ AnswersAreMutual'
  BY DEF NextPair, Silent, ProbeOK, CalmOK, AllInv, AnswersAreMutual, Runs, KeyOf
<1>3. probe' \in [leg : Legs, src : PublicKey \cup {nil}, dst : PublicKey \cup {nil}]
      /\ calm' = FALSE
  BY DEF NextPair, Silent, Legs
<1> QED BY <1>0, <1>1, <1>2, <1>3, PingsStep DEF FleetTypeOK

LEMMA PingStep == ASSUME AllInv, Ping PROVE AllInv'
<1>0. /\ FleetTypeOK /\ TypeOK /\ LoadedOK /\ ~(turn.src > Len(Order)) /\ turn.src # turn.dst
      /\ turn.src <= Len(Order)
      /\ UNCHANGED <<files, run, loaded, turn, heard, trust, lost>>
  BY FleetAssumption DEF AllInv, FleetInv, FleetTypeOK, Ping, Pinging, Over
<1>1. /\ Source \in Name /\ Target \in Name /\ Source # Target
      /\ AddressOf(Target) \in PublicKey \cup {nil}
  BY <1>0, TurnFacts, AddressFacts
<1>2. CASE ~Runs(Source)
  <2>1. probe' = [leg |-> "dead", src |-> nil, dst |-> AddressOf(Target)] /\ calm' = FALSE
    BY <1>2 DEF Ping, Packet, Settled
  <2>2. ProbeOK' /\ CalmOK'
    BY <1>0, <2>1 DEF ProbeOK, CalmOK
  <2> QED BY <1>0, <1>1, <2>1, <2>2, ProbeStep DEF Legs, FleetTypeOK
<1>3. CASE Runs(Source)
  <2>1. /\ probe' = [leg |-> IF Passes(Source, AddressOf(Target)) THEN "request" ELSE "dead",
                     src |-> KeyOf(Source), dst |-> AddressOf(Target)]
        /\ calm' = Settled(Source, Target)
    BY <1>3 DEF Ping, Packet
  <2>2. KeyOf(Source) \in PublicKey /\ loaded[Source].filter \subseteq PublicKey
    BY <1>0, <1>1, <1>3, KeyFacts
  <2>3. ProbeOK'
    BY <1>0, <2>1, <2>2 DEF ProbeOK, Passes
  <2>4. CalmOK'
    <3> SUFFICES ASSUME Settled(Source, Target)
                 PROVE  /\ \A n \in {Source, Target} : Runs(n) /\ At(KeyOf(n)) = {n}
                        /\ Passes(Source, KeyOf(Target)) /\ Passes(Target, KeyOf(Source))
                        /\ AddressOf(Target) = KeyOf(Target)
      BY <1>0, <2>1 DEF CalmOK, Source, Target, Runs, At, KeyOf, Passes
    <3>1. \A n \in {Source, Target} : Runs(n) /\ At(KeyOf(n)) = {n}
      BY DEF Settled
    <3>2. Passes(Source, KeyOf(Target)) /\ Passes(Target, KeyOf(Source))
      BY <1>1, <3>1, PassInv DEF Settled, MembersPass
    <3>3. AddressOf(Target) = KeyOf(Target)
      BY <1>0, <1>1, <3>1, KeyFacts
    <3> QED BY <3>1, <3>2, <3>3
  <2>5. probe' \in [leg : Legs, src : PublicKey \cup {nil}, dst : PublicKey \cup {nil}]
        /\ calm' \in BOOLEAN
    BY <1>1, <2>1, <2>2 DEF Legs, Settled, Renewed, Runs
  <2> QED BY <1>0, <2>3, <2>4, <2>5, ProbeStep DEF FleetTypeOK
<1> QED BY <1>2, <1>3

LEMMA AnswerStep == ASSUME AllInv, NEW n \in Name, Answer(n) PROVE AllInv'
<1>0. /\ FleetTypeOK /\ LoadedOK /\ ProbeOK /\ CalmOK
      /\ probe.leg = "request" /\ Runs(n) /\ KeyOf(n) = probe.dst /\ n \in At(probe.dst)
      /\ probe' = [leg |-> IF Passes(n, probe.src) THEN "reply" ELSE "dead",
                   src |-> probe.dst, dst |-> probe.src]
      /\ UNCHANGED <<files, run, loaded, turn, calm, heard, trust, lost>>
  BY DEF Answer, At, Packet, AllInv, FleetInv
<1>1. probe.src \in PublicKey /\ probe.dst \in PublicKey
  BY <1>0 DEF ProbeOK
<1>2. Passes(n, probe.src) => <<probe.dst, probe.src>> \in trust
  BY <1>0 DEF Passes, LoadedOK
<1>3. ProbeOK'
  BY <1>0, <1>1, <1>2 DEF ProbeOK
<1>4. CalmOK'
  <2>1. calm => probe.src = KeyOf(Source) /\ probe.dst = KeyOf(Target) /\ n = Target
    BY <1>0 DEF CalmOK
  <2>2. calm => Passes(n, probe.src)
    BY <1>0, <2>1 DEF CalmOK
  <2> QED BY <1>0, <2>1, <2>2 DEF CalmOK, Source, Target, Runs, At, KeyOf, Passes
<1> QED BY <1>0, <1>1, <1>3, <1>4, ProbeStep DEF Legs, FleetTypeOK

LEMMA ReceiveStep == ASSUME AllInv, NEW n \in Name, Receive(n) PROVE AllInv'
<1>0. /\ FleetTypeOK /\ LoadedOK /\ ProbeOK /\ CalmOK
      /\ probe.leg = "reply" /\ Runs(n) /\ KeyOf(n) = probe.dst /\ n \in At(probe.dst)
      /\ heard' = IF Passes(n, probe.src) THEN [heard EXCEPT ![n] = @ \cup {probe.src}] ELSE heard
      /\ probe' = [probe EXCEPT !.leg =
                     IF Passes(n, probe.src) /\ n = Source THEN "received" ELSE "dead"]
      /\ UNCHANGED <<files, run, loaded, turn, calm, trust, lost>>
  BY DEF Receive, At, AllInv, FleetInv
<1>1. /\ probe.src \in PublicKey /\ probe.dst \in PublicKey
      /\ <<probe.src, probe.dst>> \in trust
  BY <1>0 DEF ProbeOK
<1>2. /\ probe'.leg = IF Passes(n, probe.src) /\ n = Source THEN "received" ELSE "dead"
      /\ probe'.src = probe.src /\ probe'.dst = probe.dst
      /\ probe' \in [leg : Legs, src : PublicKey \cup {nil}, dst : PublicKey \cup {nil}]
  BY <1>0 DEF FleetTypeOK, Legs
<1>3. ProbeOK'
  BY <1>0, <1>1, <1>2 DEF ProbeOK
<1>4. CalmOK'
  <2>1. calm => probe.src = KeyOf(Target) /\ probe.dst = KeyOf(Source) /\ n = Source
    BY <1>0 DEF CalmOK
  <2>2. calm => Passes(n, probe.src)
    BY <1>0, <2>1 DEF CalmOK
  <2> QED BY <1>0, <1>2, <2>1, <2>2 DEF CalmOK, Source, Target, Runs, At, KeyOf, Passes
<1>5. Passes(n, probe.src) => <<KeyOf(n), probe.src>> \in trust
  BY <1>0 DEF Passes, LoadedOK
<1>6. heard' \in [Name -> SUBSET PublicKey]
  BY <1>0, <1>1 DEF FleetTypeOK
<1>7. \A m \in Name : \A k \in heard'[m] :
        k \in heard[m] \/ (m = n /\ k = probe.src /\ Passes(n, probe.src))
  BY <1>0 DEF FleetTypeOK
<1>8. AnswersAreMutual'
  BY <1>0, <1>1, <1>5, <1>7 DEF AllInv, AnswersAreMutual, Runs, KeyOf
<1> QED BY <1>0, <1>2, <1>3, <1>4, <1>6, <1>8, PingsStep DEF FleetTypeOK

\* Where the ping ends, for whatever reason.
LEMMA EndStep ==
  ASSUME AllInv, Skip \/ Verdict \/ Fatal \/ Lose
  PROVE  AllInv'
<1>0. FleetTypeOK /\ ProbeOK /\ CalmOK /\ turn.src \in Nat /\ Len(Order) \in Nat
  BY FleetAssumption DEF AllInv, FleetInv, FleetTypeOK
<1>1. CASE Skip \/ Verdict
  <2>1. turn.src <= Len(Order)
    BY <1>0, <1>1 DEF Skip, Verdict, Over, ProbeOK
  <2> QED BY <1>1, <2>1, NextPairStep DEF Skip, Verdict
<1>2. CASE Fatal
  <2>1. /\ probe.leg = "none" /\ turn.src <= Len(Order) /\ turn.src # turn.dst
        /\ probe' = [probe EXCEPT !.leg = "fatal"]
        /\ UNCHANGED <<files, run, loaded, turn, calm, heard, trust, lost>>
    BY <1>0, <1>2 DEF Fatal, Pinging, Over, Silent
  <2>2. probe'.leg = "fatal"
        /\ probe' \in [leg : Legs, src : PublicKey \cup {nil}, dst : PublicKey \cup {nil}]
    BY <1>0, <2>1 DEF FleetTypeOK, Legs
  <2>3. ProbeOK' /\ calm = FALSE
    BY <1>0, <2>1, <2>2 DEF ProbeOK, CalmOK, FleetTypeOK
  <2> QED BY <1>0, <2>1, <2>2, <2>3, ProbeStep DEF CalmOK, FleetTypeOK
<1>3. CASE Lose
  <2>1. /\ probe.leg \in {"request", "reply"} /\ probe' = [probe EXCEPT !.leg = "dead"]
        /\ calm' = FALSE /\ UNCHANGED <<files, run, loaded, turn, heard, trust>>
    BY <1>3 DEF Lose
  <2>2. probe'.leg = "dead"
        /\ probe' \in [leg : Legs, src : PublicKey \cup {nil}, dst : PublicKey \cup {nil}]
    BY <1>0, <2>1 DEF FleetTypeOK, Legs
  <2>3. ProbeOK' /\ CalmOK'
    BY <1>0, <2>1, <2>2 DEF ProbeOK, CalmOK
  <2>4. lost' \in 0 .. MaxLost
    BY <1>0, <1>3, FleetAssumption DEF Lose, FleetTypeOK
  <2> QED BY <2>1, <2>2, <2>3, <2>4, ProbeStep
<1> QED BY <1>1, <1>2, <1>3

\* The invariant of the fleet.
THEOREM FleetInvariance == FleetSpec => []AllInv
<1>1. FleetInit => AllInv
  BY FleetInitInv
<1>2. AllInv /\ [FleetNext]_fleetVars => AllInv'
  <2> SUFFICES ASSUME AllInv, [FleetNext]_fleetVars PROVE AllInv'
    OBVIOUS
  <2>1. CASE FleetNext
    BY <2>1, FilesStep, LaunchStep, StopStep, PingStep, AnswerStep, ReceiveStep, EndStep
       DEF FleetNext, Exchange
  <2>2. CASE UNCHANGED fleetVars
    BY <2>2, FilesStep DEF fleetVars, configVars
  <2> QED BY <2>1, <2>2
<1> QED BY <1>1, <1>2, PTL DEF FleetSpec

\* The files under running nodes change as they do without them: no node, no ping
\* and no loss writes a file.
THEOREM FleetImplementsConfigs == FleetSpec => Spec
<1>1. FleetInit => Init
  BY DEF FleetInit
<1>2. [FleetNext]_fleetVars => [Next]_configVars
  BY DEF FleetNext, Launch, Stop, Exchange, Skip, Ping, Verdict, Answer, Receive, Fatal, Lose,
     fleetVars, configVars
<1> QED BY <1>1, <1>2, PTL DEF FleetSpec, Spec

\* The invariant that the runs check.
THEOREM FleetSafe == FleetSpec => []FleetInv
BY FleetInvariance, PTL DEF AllInv

\* Two files of one run of genconfigs list each other.
THEOREM FilesSafe == FleetSpec => []FilesAgree
<1>1. AllInv => FilesAgree
  BY DEF AllInv, ConfInv
<1> QED BY <1>1, FleetInvariance, PTL

\* Where no list has a name twice, what a generated file connects to accepts it.
THEOREM DialsSafe ==
  ASSUME UniqueLists
  PROVE  FleetSpec => []DialsAccepted
<1> DEFINE Inv == AllInv /\ UniqueNames(input) /\ DialsAccepted
<1>1. FleetInit => UniqueNames(input) /\ DialsAccepted
  BY UniqueInit DEF FleetInit
<1>2. AllInv /\ AllInv' /\ UniqueNames(input) /\ DialsAccepted /\ [FleetNext]_fleetVars
        => UniqueNames(input)' /\ DialsAccepted'
  <2> SUFFICES ASSUME AllInv, AllInv', UniqueNames(input), DialsAccepted,
                      [FleetNext]_fleetVars
               PROVE  UniqueNames(input)' /\ DialsAccepted'
    OBVIOUS
  <2>1. CASE Next
    BY <2>1, DialsStep, UniqueStep DEF AllInv
  <2>2. CASE UNCHANGED <<files, run>>
    <3>1. UNCHANGED <<files, input>>
      BY <2>2 DEF run
    <3> QED BY <3>1 DEF UniqueNames, DialsAccepted, SameRun, Generated
  <2>3. Next \/ UNCHANGED <<files, run>>
    BY DEF FleetNext, Launch, Stop, Exchange, Skip, Ping, Verdict, Answer, Receive, Fatal, Lose,
           fleetVars
  <2> QED BY <2>1, <2>2, <2>3
<1> QED BY <1>1, <1>2, FleetInvariance, PTL DEF FleetSpec

\* A run that ended well left a whole fleet.
THEOREM RunSafe == FleetSpec => []RunIsWhole
<1>1. AllInv => RunIsWhole
  BY WholeInv DEF AllInv
<1> QED BY <1>1, FleetInvariance, PTL

\* No answer without the consent of both sides.
THEOREM AnswersSafe == FleetSpec => []AnswersAreMutual
BY FleetInvariance, PTL DEF AllInv

-----------------------------------------------------------------------------

\* Members of a renewed fleet let only the keys of its list pass.
LEMMA RenewedLists ==
  ASSUME AllInv, Renewed, NEW n \in Members, Runs(n)
  PROVE  n \in Name /\ \A k : Passes(n, k) => k \in InputKeys
<1>1. PICK i \in 1 .. Len(input) : n = input[i].name
  BY DEF Members
<1>2. n \in Name
  BY <1>1, EntryFacts DEF AllInv, ConfInv
<1>3. loaded[n] = files[n] /\ Generated(n) /\ ended
  BY DEF Renewed, Runs
<1>4. files[n].filter \subseteq InputKeys
  BY <1>1, <1>3, WholeInv DEF RunIsWhole, AllInv
<1> QED BY <1>2, <1>3, <1>4 DEF Passes

\* One step of the pings in a renewed fleet.
LEMMA RevokedStep ==
  ASSUME AllInv, FleetNext, Renewed
  PROVE  /\ \A n \in Members : heard'[n] \ heard[n] \subseteq InputKeys
         /\ probe.leg = "request" /\ probe'.leg = "reply" /\ At(probe.dst) \subseteq Members
              => probe'.dst \in InputKeys
<1>0. Members \subseteq Name /\ heard \in [Name -> SUBSET PublicKey]
  BY EntryFacts DEF Members, AllInv, FleetInv, FleetTypeOK, ConfInv
<1>1. ASSUME NEW n \in Members, heard'[n] \ heard[n] # {}
      PROVE  heard'[n] \ heard[n] \subseteq InputKeys
  <2>1. \E m \in Name : Receive(m) \/ Stop(m)
    BY <1>1 DEF FleetNext, Launch, Exchange, Skip, Ping, Answer, Verdict, Fatal, Lose
  <2>2. CASE \E m \in Name : Stop(m)
    BY <1>0, <1>1, <2>2 DEF Stop
  <2>3. CASE \E m \in Name : Receive(m)
    <3>1. PICK m \in Name : Receive(m)
      BY <2>3
    <3>2. m = n /\ Runs(n) /\ Passes(n, probe.src) /\ heard'[n] \ heard[n] \subseteq {probe.src}
      BY <1>0, <1>1, <3>1 DEF Receive, At
    <3> QED BY <3>2, RenewedLists
  <2> QED BY <2>1, <2>2, <2>3
<1>2. ASSUME probe.leg = "request", probe'.leg = "reply", At(probe.dst) \subseteq Members
      PROVE  probe'.dst \in InputKeys
  <2>1. PICK m \in Name : Answer(m)
    <3>1. probe' # probe /\ probe # Silent /\ probe' # Silent /\ probe.leg # "reply"
      BY <1>2 DEF Silent
    <3>2. ~Skip /\ ~Ping /\ ~Verdict /\ ~Fatal /\ \A m \in Name : ~Receive(m)
      BY <3>1 DEF Skip, Ping, Pinging, Verdict, Fatal, Receive, NextPair
    <3>3. ~Lose
      BY <1>2 DEF Lose, AllInv, FleetInv, FleetTypeOK
    <3>4. ~(\E m \in Name : Launch(m) \/ Stop(m))
      BY <3>1 DEF Launch, Stop
    <3> QED BY <3>1, <3>2, <3>3, <3>4 DEF FleetNext, Exchange
  <2>2. m \in At(probe.dst) /\ probe' = Packet(Passes(m, probe.src), "reply", probe.dst, probe.src)
    BY <2>1 DEF Answer
  <2>3. m \in Members /\ Runs(m)
    BY <1>2, <2>2 DEF At
  <2>4. Passes(m, probe.src) /\ probe'.dst = probe.src
    BY <1>2, <2>2 DEF Packet
  <2> QED BY <2>3, <2>4, RenewedLists
<1> QED BY <1>1, <1>2

\* A node that was taken off the list is cut off.
THEOREM RevokedSafe == FleetSpec => RevokedCutOff
<1>1. AllInv /\ [FleetNext]_fleetVars =>
        [ Renewed /\ Renewed' =>
            /\ \A n \in Members : heard'[n] \ heard[n] \subseteq InputKeys
            /\ probe.leg = "request" /\ probe'.leg = "reply" /\ At(probe.dst) \subseteq Members
                 => probe'.dst \in InputKeys ]_fleetVars
  BY RevokedStep
<1> QED BY <1>1, FleetInvariance, PTL DEF FleetSpec, RevokedCutOff

-----------------------------------------------------------------------------
(* The test.                                                               *)

\* In a renewed fleet, the members let each other pass.
THEOREM MembersTalk == FleetSpec => []MembersPass
<1>1. AllInv => MembersPass
  BY PassInv
<1> QED BY <1>1, FleetInvariance, PTL

LEMMA ReceivedStep ==
  ASSUME AllInv, FleetNext, calm, turn' # turn
  PROVE  probe.leg = "received"
<1>1. CalmOK
  BY DEF AllInv, FleetInv
<1>2. Verdict
  <2>1. probe # Silent
    BY <1>1 DEF CalmOK, Silent
  <2> QED BY <2>1 DEF FleetNext, Launch, Stop, Exchange, Skip, Ping, Answer, Receive, Fatal, Lose
<1>3. probe.leg \in {"request", "reply"} => At(probe.dst) # {}
  BY <1>1 DEF CalmOK
<1> QED BY <1>1, <1>2, <1>3 DEF Verdict, CalmOK

\* "All packets should be received", for any fleet.
THEOREM ReceivedSafe == FleetSpec => AllReceived
<1>1. AllInv /\ [FleetNext]_fleetVars => [calm /\ turn' # turn => probe.leg = "received"]_fleetVars
  BY ReceivedStep
<1> QED BY <1>1, FleetInvariance, PTL DEF FleetSpec, AllReceived

\* How far a ping has come.
Rank == [leg \in Legs |-> CASE leg = "none" -> 0 [] leg = "request" -> 1 [] leg = "reply" -> 2
                            [] OTHER -> 3]

\* The test has come further: with this pair, or to a later one.
Ahead ==
  \/ turn'.src > turn.src
  \/ turn'.src = turn.src /\ turn'.dst > turn.dst
  \/ turn' = turn /\ Rank[probe'.leg] > Rank[probe.leg]

LEMMA AheadStep ==
  ASSUME AllInv, Exchange \/ Fatal \/ Lose
  PROVE  Ahead
<1>0. /\ turn \in [src : 1 .. Len(Order) + 1, dst : 1 .. Len(Order)]
      /\ Len(Order) \in Nat /\ turn.src \in Nat /\ turn.dst \in Nat
      /\ probe \in [leg : Legs, src : PublicKey \cup {nil}, dst : PublicKey \cup {nil}]
  BY FleetAssumption DEF AllInv, FleetInv, FleetTypeOK, Legs
<1>1. ASSUME NextPair PROVE Ahead
  <2>1. CASE turn.dst < Len(Order)
    <3>1. turn'.src = turn.src /\ turn'.dst = turn.dst + 1
      BY <1>0, <1>1, <2>1 DEF NextPair
    <3> QED BY <1>0, <3>1 DEF Ahead
  <2>2. CASE ~(turn.dst < Len(Order))
    <3>1. turn'.src = turn.src + 1
      BY <1>1, <2>2 DEF NextPair
    <3> QED BY <1>0, <3>1 DEF Ahead
  <2> QED BY <2>1, <2>2
<1>2. ASSUME turn' = turn,
             \/ probe.leg = "none" /\ probe'.leg \in {"request", "dead", "fatal"}
             \/ probe.leg = "request" /\ probe'.leg \in {"reply", "dead"}
             \/ probe.leg = "reply" /\ probe'.leg \in {"received", "dead"}
      PROVE  Ahead
  <2>1. /\ Rank["none"] = 0 /\ Rank["request"] = 1 /\ Rank["reply"] = 2
        /\ Rank["received"] = 3 /\ Rank["dead"] = 3 /\ Rank["fatal"] = 3
    BY DEF Rank, Legs
  <2> QED BY <1>2, <2>1 DEF Ahead
<1>3. CASE Skip \/ Verdict
  BY <1>1, <1>3 DEF Skip, Verdict
<1>4. CASE Ping
  <2>1. turn' = turn /\ probe.leg = "none" /\ probe'.leg \in {"request", "dead"}
    BY <1>4 DEF Ping, Pinging, Silent, Packet
  <2> QED BY <1>2, <2>1
<1>5. CASE \E n \in Name : Answer(n)
  <2>1. turn' = turn /\ probe.leg = "request" /\ probe'.leg \in {"reply", "dead"}
    BY <1>5 DEF Answer, Packet
  <2> QED BY <1>2, <2>1
<1>6. CASE \E n \in Name : Receive(n)
  <2>1. turn' = turn /\ probe.leg = "reply" /\ probe'.leg \in {"received", "dead"}
    BY <1>0, <1>6 DEF Receive
  <2> QED BY <1>2, <2>1
<1>7. CASE Fatal
  <2>1. turn' = turn /\ probe.leg = "none" /\ probe'.leg = "fatal"
    BY <1>0, <1>7 DEF Fatal, Pinging, Silent
  <2> QED BY <1>2, <2>1
<1>8. CASE Lose
  <2>1. turn' = turn /\ probe.leg \in {"request", "reply"} /\ probe'.leg = "dead"
    BY <1>0, <1>8 DEF Lose
  <2> QED BY <1>2, <2>1
<1> QED BY <1>3, <1>4, <1>5, <1>6, <1>7, <1>8 DEF Exchange

\* The test only goes ahead, in finitely many steps to its end, and no change of the
\* files and no launch throws it back: the safety half of TestEnds.
OnlyAhead == [][(Exchange \/ <<turn, probe>>' # <<turn, probe>>) => Ahead]_fleetVars

\* No ping is repeated.
THEOREM TestGoesAhead == FleetSpec => OnlyAhead
<1>1. AllInv /\ [FleetNext]_fleetVars =>
        [(Exchange \/ <<turn, probe>>' # <<turn, probe>>) => Ahead]_fleetVars
  <2> SUFFICES ASSUME AllInv, FleetNext, Exchange \/ <<turn, probe>>' # <<turn, probe>>
               PROVE  Ahead
    OBVIOUS
  <2>1. Exchange \/ Fatal \/ Lose
    BY DEF FleetNext, Launch, Stop
  <2> QED BY <2>1, AheadStep
<1> QED BY <1>1, FleetInvariance, PTL DEF FleetSpec, OnlyAhead
=============================================================================
