-------------------------------- MODULE Fleet --------------------------------
(***************************************************************************)
(* A fleet: nodes that were launched with the files of Configs, each with  *)
(* the filter of its own file, and the ping test of                        *)
(* integration/firewall_test.go, which pings once from each node to each   *)
(* other and ends.                                                         *)
(*                                                                         *)
(* The files change under the running nodes: a node reads its file when it *)
(* is launched, so that in one fleet some nodes may still run with what    *)
(* their files said before.  The network between the nodes is the          *)
(* library's: a packet reaches the node that has the key, or is lost.      *)
(***************************************************************************)
EXTENDS Configs

CONSTANTS
  Order,     \* the test's nodes
  MaxLost    \* bound: packets that are lost, or too late for the pinger

ASSUME FleetAssumption ==
  /\ Order \in Seq(Name) /\ Order # <<>>
  /\ \A i, j \in 1 .. Len(Order) : Order[i] = Order[j] => i = j
  /\ MaxLost \in Nat

VARIABLES
  loaded,   \* for each node that runs, the configuration it was launched with
  turn,     \* sourceIdx and targetIdx, from 1
  probe,    \* the ping: "none" yet, its "request" or "reply" under way, the reply
            \* "received", or "dead", which nothing but the pinger's timeout will tell;
            \* or "fatal", a failure that ended the test
  calm,     \* what the test's assertion speaks of: the ping began between two members
            \* of the fleet, and nothing was launched, stopped or lost since
  heard,    \* for each node, the keys that answered since it was launched
  trust,    \* <<j, k>>: the node of j has run with k on its list
  lost

fleetVars == <<files, run, loaded, turn, probe, calm, heard, trust, lost>>

Silent == [leg |-> "none", src |-> nil, dst |-> nil]

FleetInit ==
  /\ Init
  /\ loaded = [n \in Name |-> nil]
  /\ turn = [src |-> 1, dst |-> 1]
  /\ probe = Silent /\ calm = FALSE
  /\ heard = [n \in Name |-> {}]
  /\ trust = {}
  /\ lost = 0

Runs(n) == loaded[n] # nil
KeyOf(n) == Public[loaded[n].key]

\* The nodes that run with key k, and so receive what is sent to it.
At(k) == {n \in Name : Runs(n) /\ KeyOf(n) = k}

\* The filter of node n lets a packet from or to key k pass, as filterCore of
\* KeyStore and Filter show it.
Mutant_Passes_All(n, k) == TRUE
Passes(n, k) == k \in loaded[n].filter

-----------------------------------------------------------------------------
(* Nodes.                                                                  *)

\* runYggdrasilNode.  A file that is empty, or refused, is a panic.
Launch(n) ==
  /\ ~Runs(n) /\ Accepted(files[n])
  /\ loaded' = [loaded EXCEPT ![n] = files[n]]
  /\ trust' = trust \cup {<<Public[files[n].key], k>> : k \in files[n].filter}
  /\ calm' = FALSE
  /\ UNCHANGED <<files, run, turn, probe, heard, lost>>

Stop(n) ==
  /\ Runs(n)
  /\ loaded' = [loaded EXCEPT ![n] = nil]
  /\ heard' = [heard EXCEPT ![n] = {}]
  /\ calm' = FALSE
  /\ UNCHANGED <<files, run, turn, probe, trust, lost>>

-----------------------------------------------------------------------------
(* The list that is in force.                                              *)

Members == {input[i].name : i \in 1 .. Len(input)}

\* The fleet of the last run, which ended well: whoever of it runs, runs with the
\* file of that run.
Renewed ==
  /\ pc = "idle" /\ ended
  /\ \A n \in Members : Generated(n) /\ files[n].run = batch /\ loaded[n] \in {nil, files[n]}

-----------------------------------------------------------------------------
(* The pings.                                                              *)

Over == turn.src > Len(Order) \/ probe.leg = "fatal"
Pinging == probe = Silent /\ ~Over /\ turn.src # turn.dst

Source == Order[turn.src]
Target == Order[turn.dst]

\* The key whose address the test knows a node by: of the configuration that it runs
\* with, or would.
Known(n) == IF Runs(n) THEN loaded[n] ELSE files[n]
AddressOf(n) == IF Accepted(Known(n)) THEN Public[Known(n).key] ELSE nil

\* Two members run, and nobody else has their keys.
Settled(a, b) ==
  /\ Renewed /\ {a, b} \subseteq Members
  /\ \A n \in {a, b} : Runs(n) /\ At(KeyOf(n)) = {n}

Packet(passes, leg, src, dst) ==
  [leg |-> IF passes THEN leg ELSE "dead", src |-> src, dst |-> dst]

\* The two loops.
NextPair ==
  /\ turn' = IF turn.dst < Len(Order) THEN [turn EXCEPT !.dst = @ + 1]
             ELSE [src |-> turn.src + 1, dst |-> 1]
  /\ probe' = Silent /\ calm' = FALSE

\* No node pings itself.
Skip ==
  /\ probe = Silent /\ ~Over /\ turn.src = turn.dst
  /\ NextPair
  /\ UNCHANGED <<files, run, loaded, heard, trust, lost>>

\* setNetworkNamespace panics, or NewPinger or Run fails before it has sent.
Fatal ==
  /\ Pinging
  /\ probe' = [probe EXCEPT !.leg = "fatal"]
  /\ UNCHANGED <<files, run, loaded, turn, calm, heard, trust, lost>>

\* writePC of the source asks its filter for the target.  Where the source does not
\* run, the packet goes nowhere.
Ping ==
  /\ Pinging
  /\ probe' = IF Runs(Source)
              THEN Packet(Passes(Source, AddressOf(Target)), "request", KeyOf(Source), AddressOf(Target))
              ELSE Packet(FALSE, "request", nil, AddressOf(Target))
  /\ calm' = Settled(Source, Target)
  /\ UNCHANGED <<files, run, loaded, turn, heard, trust, lost>>

Mutant_Answer_NoFilter(n) ==
  /\ probe.leg = "request" /\ n \in At(probe.dst)
  /\ probe' = Packet(TRUE, "reply", probe.dst, probe.src)
  /\ UNCHANGED <<files, run, loaded, turn, calm, heard, trust, lost>>
\* readPC of the target asks its filter for the source; the system answers, and
\* writePC asks the same filter for the same address.
Answer(n) ==
  /\ probe.leg = "request" /\ n \in At(probe.dst)
  /\ probe' = Packet(Passes(n, probe.src), "reply", probe.dst, probe.src)
  /\ UNCHANGED <<files, run, loaded, turn, calm, heard, trust, lost>>

Mutant_Receive_NoFilter(n) ==
  /\ probe.leg = "reply" /\ n \in At(probe.dst)
  /\ heard' = [heard EXCEPT ![n] = @ \cup {probe.src}]
  /\ probe' = [probe EXCEPT !.leg = IF n = Source THEN "received" ELSE "dead"]
  /\ UNCHANGED <<files, run, loaded, turn, calm, trust, lost>>
\* readPC of the node that has the source's key.  The pinger receives what its own
\* node lets through.
Receive(n) ==
  /\ probe.leg = "reply" /\ n \in At(probe.dst)
  /\ heard' = IF Passes(n, probe.src) THEN [heard EXCEPT ![n] = @ \cup {probe.src}] ELSE heard
  /\ probe' = [probe EXCEPT !.leg =
                 IF Passes(n, probe.src) /\ n = Source THEN "received" ELSE "dead"]
  /\ UNCHANGED <<files, run, loaded, turn, calm, trust, lost>>

\* A packet gets lost, or comes after the pinger's timeout.
Lose ==
  /\ probe.leg \in {"request", "reply"}
  /\ lost < MaxLost
  /\ lost' = lost + 1
  /\ probe' = [probe EXCEPT !.leg = "dead"] /\ calm' = FALSE
  /\ UNCHANGED <<files, run, loaded, turn, heard, trust>>

Mutant_Verdict_NoTimeout ==
  /\ probe.leg = "received"
  /\ NextPair
  /\ UNCHANGED <<files, run, loaded, heard, trust, lost>>
\* Run returns with the answer, or at the timeout when nothing will come; the test
\* asserts what it expects and goes on, whatever it was.
Verdict ==
  /\ \/ probe.leg \in {"received", "dead"}
     \/ probe.leg \in {"request", "reply"} /\ At(probe.dst) = {}
  /\ NextPair
  /\ UNCHANGED <<files, run, loaded, heard, trust, lost>>

Exchange ==
  \/ Skip \/ Ping \/ Verdict
  \/ \E n \in Name : Answer(n) \/ Receive(n)

FleetNext ==
  \/ Next /\ UNCHANGED <<loaded, turn, probe, calm, heard, trust, lost>>
  \/ \E n \in Name : Launch(n) \/ Stop(n)
  \/ Exchange \/ Fatal
  \/ Lose

FleetSpec == FleetInit /\ [][FleetNext]_fleetVars

\* The pinger goes on or times out, and the network delivers what it does not lose.
FairFleet == FleetSpec /\ WF_fleetVars(Exchange)

-----------------------------------------------------------------------------

FleetTypeOK ==
  /\ TypeOK
  /\ loaded \in [Name -> Config \cup {nil}]
  /\ turn \in [src : 1 .. Len(Order) + 1, dst : 1 .. Len(Order)]
  /\ probe \in [leg : {"none", "request", "reply", "received", "dead", "fatal"},
                src : PublicKey \cup {nil}, dst : PublicKey \cup {nil}]
  /\ calm \in BOOLEAN
  /\ heard \in [Name -> SUBSET PublicKey]
  /\ trust \subseteq PublicKey \X PublicKey
  /\ lost \in 0 .. MaxLost

\* A node runs with a configuration that it accepted, and has trusted its list.
LoadedOK ==
  \A n \in Name : Runs(n) =>
    /\ loaded[n] \in Config /\ Accepted(loaded[n])
    /\ \A k \in loaded[n].filter : <<KeyOf(n), k>> \in trust

\* A ping belongs to the pair whose turn it is.  A packet that a filter let through
\* has a source and a target, and behind a reply is a node that trusted the source.
ProbeOK ==
  /\ probe.leg # "none" => turn.src <= Len(Order) /\ turn.src # turn.dst
  /\ probe.leg \in {"request", "reply", "received"} =>
       probe.src \in PublicKey /\ probe.dst \in PublicKey
  /\ probe.leg \in {"reply", "received"} => <<probe.src, probe.dst>> \in trust

\* A calm ping is under way between two nodes that let each other pass, and neither
\* their filters nor another node can stop it.
CalmOK ==
  calm =>
    /\ turn.src # turn.dst
    /\ \A n \in {Source, Target} : Runs(n) /\ At(KeyOf(n)) = {n}
    /\ Passes(Source, KeyOf(Target)) /\ Passes(Target, KeyOf(Source))
    /\ \/ probe.leg = "request" /\ probe.src = KeyOf(Source) /\ probe.dst = KeyOf(Target)
       \/ probe.leg \in {"reply", "received"} /\ probe.src = KeyOf(Target) /\ probe.dst = KeyOf(Source)

\* The invariant that the proofs use: what filters have said of the packet under way
\* stays true of it, whatever happens to files and nodes meanwhile.
FleetInv == FleetTypeOK /\ LoadedOK /\ ProbeOK /\ CalmOK

\* An answer took two: the source had the other on its list, and the other had the
\* source, each in a life it has lived.
AnswersAreMutual ==
  \A n \in Name : \A k \in heard[n] :
    Runs(n) /\ <<KeyOf(n), k>> \in trust /\ <<k, KeyOf(n)>> \in trust

\* A node that was taken off the list is cut off once the others were relaunched:
\* from then on none of them answers it, and none gets an answer of it.
RevokedCutOff ==
  [][ Renewed /\ Renewed' =>
        /\ \A n \in Members : heard'[n] \ heard[n] \subseteq InputKeys
        /\ probe.leg = "request" /\ probe'.leg = "reply" /\ At(probe.dst) \subseteq Members
             => probe'.dst \in InputKeys ]_fleetVars

\* The test's "All packets should be received", asked of the fleets that genconfigs
\* makes: a ping of one member to another is answered, unless a packet is lost or a
\* node launched or stopped meanwhile.  Files that change meanwhile make no difference.
AllReceived == [][calm /\ turn' # turn => probe.leg = "received"]_fleetVars

\* Whatever is lost, dropped or not running, the test does not wait for it for ever.
TestEnds == <>Over
=============================================================================
