------------------------------- MODULE Configs -------------------------------
(***************************************************************************)
(* The configuration files of a fleet, and the programs that write them:   *)
(* cmd/genconfigs, one file after the other, for the list of nodes that is *)
(* its input; and yggdrasil -genconf and -normaliseconf.                   *)
(*                                                                         *)
(* The directory keeps what earlier runs left.  A run may fail, or be      *)
(* stopped, between any two steps, and the operator may change the list    *)
(* between two runs, or a file at any time.                                *)
(***************************************************************************)
EXTENDS Naturals, Sequences, FiniteSets

CONSTANTS
  Name,       \* names of nodes: the file is <name>.json
  Secret,     \* private keys, those of a wrong length included
  Whole,      \* those that have the length of a private key
  PublicKey,
  Public,     \* ed25519.PrivateKey.Public, nil where it panics
  Input,      \* lists of nodes that the input file may hold
  Peer,       \* the public peers of the index that speak PROTOCOL
  Manual,     \* configurations that are written by hand
  MaxRuns,    \* bound: runs of any of the programs, and changes by hand
  nil

PEER_PUBLIC_COUNT == 3

\* configInput: Listen is set or not.
Entry == [name : Name, key : Secret, listens : BOOLEAN]

\* What a file says: the key; whether the node listens, the nodes and the
\* public peers it connects to, AllowedPublicKeys (who may connect to it), and
\* FilterAllowedPublicKeys; and which program wrote it, in which run.
Config ==
  [ key : Secret, listens : BOOLEAN, dials : SUBSET Name, peers : SUBSET Peer,
    allowed : SUBSET PublicKey, filter : SUBSET PublicKey,
    by : {"genconfigs", "genconf", "normaliseconf", "hand"}, run : Nat ]

ASSUME ConfigsAssumption ==
  /\ Whole \subseteq Secret
  /\ Public \in [Secret -> PublicKey \cup {nil}]
  /\ \A s \in Whole : Public[s] # nil
  /\ nil \notin PublicKey \cup Config
  /\ Input \subseteq Seq(Entry)
  /\ Manual \subseteq {c \in Config : c.by = "hand"}
  /\ MaxRuns \in Nat

VARIABLES
  files,        \* the directory: nil for no file, or an empty one
  runs,         \* runs and changes so far
  pc,           \* "idle" outside a run, "ping", "slice", "open", "write"
  batch,        \* the number of the last run of genconfigs
  ended,        \* it wrote all its files
  input,        \* its inputConfigs
  next,         \* the entry whose file is written next
  publicPeers   \* peerStatsList, of which the first three become publicPeers

run == <<runs, pc, batch, ended, input, next, publicPeers>>
configVars == <<files, run>>

Init ==
  /\ files = [n \in Name |-> nil]
  /\ runs = 0
  /\ pc = "idle" /\ batch = 0 /\ ended = FALSE
  /\ input = <<>> /\ next = 1 /\ publicPeers = {}

-----------------------------------------------------------------------------
(* cmd/genconfigs.                                                         *)

Run ==
  /\ runs < MaxRuns
  /\ runs' = runs + 1

\* The input is read; a file that is missing or no JSON ends the run here.
Begin(list) ==
  /\ pc = "idle"
  /\ Run
  /\ batch' = runs' /\ ended' = FALSE
  /\ input' = list /\ next' = 1 /\ publicPeers' = {}
  /\ pc' = "ping"
  /\ UNCHANGED files

\* A panic anywhere, or the end of the process.
Abort ==
  /\ pc # "idle"
  /\ pc' = "idle"
  /\ publicPeers' = {}
  /\ UNCHANGED <<files, runs, batch, ended, input, next>>

\* Every peer is pinged; those that cannot be, or lose packets, are left out.
PingPeers(good) ==
  /\ pc = "ping"
  /\ publicPeers' = good
  /\ pc' = "slice"
  /\ UNCHANGED <<files, runs, batch, ended, input, next>>

\* The three that answer fastest, which may be any three.  With fewer, the slice
\* expression panics: no growth of the slice left room for a third.
SelectPeers ==
  /\ pc = "slice"
  /\ publicPeers' \in {S \in SUBSET publicPeers : Cardinality(S) = PEER_PUBLIC_COUNT}
  /\ pc' = "open"
  /\ UNCHANGED <<files, runs, batch, ended, input, next>>

\* The other entries of the input, seen from entry i.
Mutant_Others_FromSecond(i) == {j \in 2 .. Len(input) : input[j].name # input[i].name}
Others(i) == {j \in 1 .. Len(input) : input[j].name # input[i].name}

\* The listeners that entry i connects to, unless it listens itself.
Mutant_Dialled_All(i) == {input[j].name : j \in Others(i)}
Dialled(i) ==
  IF input[i].listens THEN {}
  ELSE {input[j].name : j \in {j \in 1 .. Len(input) : input[j].listens}}

\* The keys of the other entries.
Listed(i) == {Public[input[j].key] : j \in Others(i)}

ConfigOf(i) ==
  [ key |-> input[i].key, listens |-> input[i].listens, dials |-> Dialled(i),
    peers |-> publicPeers, allowed |-> Listed(i), filter |-> Listed(i),
    by |-> "genconfigs", run |-> batch ]

\* A turn of the loop, as far as WriteFile has emptied the file.  A key of fewer
\* than 32 bytes panics when it is the turn of another entry.
Open ==
  /\ pc = "open" /\ next <= Len(input)
  /\ nil \notin Listed(next)
  /\ files' = [files EXCEPT ![input[next].name] = nil]
  /\ pc' = "write"
  /\ UNCHANGED <<runs, batch, ended, input, next, publicPeers>>

Write ==
  /\ pc = "write"
  /\ files' = [files EXCEPT ![input[next].name] = ConfigOf(next)]
  /\ next' = next + 1
  /\ pc' = "open"
  /\ UNCHANGED <<runs, batch, ended, input, publicPeers>>

Mutant_Finish_OneShort ==
  /\ pc = "open" /\ next >= Len(input)
  /\ pc' = "idle" /\ ended' = TRUE /\ publicPeers' = {}
  /\ UNCHANGED <<files, runs, batch, input, next>>
Finish ==
  /\ pc = "open" /\ next > Len(input)
  /\ pc' = "idle" /\ ended' = TRUE /\ publicPeers' = {}
  /\ UNCHANGED <<files, runs, batch, input, next>>

-----------------------------------------------------------------------------
(* The other ways to a file.                                               *)

Put(n, c) ==
  /\ Run
  /\ files' = [files EXCEPT ![n] = c]
  /\ UNCHANGED <<pc, batch, ended, input, next, publicPeers>>

\* Both configurations of the node are read from the file: an empty list of
\* keys is refused with a panic, and so is a key of a wrong length.
Accepted(c) == c # nil /\ c.filter # {} /\ c.key \in Whole

\* -genconf prints a NodeConfig with a new key, without a Manager section.
GenConf(n, s) ==
  /\ s \in Whole
  /\ Put(n, [ key |-> s, listens |-> FALSE, dials |-> {}, peers |-> {},
              allowed |-> {}, filter |-> {}, by |-> "genconf", run |-> runs' ])

\* -normaliseconf prints the NodeConfig it read, without the Manager section.
NormaliseConf(n) ==
  /\ Accepted(files[n])
  /\ LET c == files[n] IN
     Put(n, [ key |-> c.key, listens |-> c.listens, dials |-> c.dials, peers |-> c.peers,
              allowed |-> c.allowed, filter |-> {}, by |-> "normaliseconf", run |-> runs' ])

\* A configuration written by hand, or by a test.
WriteByHand(n, c) == Put(n, [c EXCEPT !.run = runs'])

GenConfigs ==
  \/ \E list \in Input : Begin(list)
  \/ \E good \in SUBSET Peer : PingPeers(good)
  \/ SelectPeers \/ Open \/ Write \/ Finish \/ Abort

Tools ==
  \/ GenConfigs
  \/ \E n \in Name, s \in Secret : GenConf(n, s)
  \/ \E n \in Name : NormaliseConf(n)

Next ==
  \/ Tools
  \/ \E n \in Name, c \in Manual : WriteByHand(n, c)

Spec == Init /\ [][Next]_configVars

-----------------------------------------------------------------------------

TypeOK ==
  /\ files \in [Name -> Config \cup {nil}]
  /\ runs \in Nat /\ batch \in 0 .. runs
  /\ pc \in {"idle", "ping", "slice", "open", "write"}
  /\ ended \in BOOLEAN
  /\ input \in Seq(Entry)
  /\ next \in 1 .. Len(input) + 1
  /\ publicPeers \subseteq Peer

\* The file of n is one that genconfigs wrote.
Generated(n) == files[n] # nil /\ files[n].by = "genconfigs"

SameRun(a, b) == Generated(a) /\ Generated(b) /\ files[a].run = files[b].run

\* Two files of one run list each other's key, also half-way through the run and
\* after later runs that failed.
FilesAgree ==
  \A a, b \in Name :
    a # b /\ SameRun(a, b) => Public[files[a].key] \in files[b].filter

\* Where the names of each list are unique, what a generated configuration connects
\* to is there: the nodes of its fleet listen, and let it, and there are three public
\* peers, since fewer stop the run before it has touched a file.
DialsAccepted ==
  /\ \A a, b \in Name : SameRun(a, b) /\ b \in files[a].dials =>
       files[b].listens /\ Public[files[a].key] \in files[b].allowed
  /\ \A n \in Name : Generated(n) => Cardinality(files[n].peers) = PEER_PUBLIC_COUNT

\* The keys of the last list.
InputKeys == {Public[input[i].key] : i \in 1 .. Len(input)}

\* When a run has ended well, its fleet is complete: each file of it was written
\* by this run or put there since, lists no node that was taken off the list, and
\* is that of the last entry of its name.
RunIsWhole ==
  ended =>
    \A i \in 1 .. Len(input) :
      LET n == input[i].name IN
      /\ files[n] # nil /\ files[n].run >= batch
      /\ Generated(n) =>
           /\ files[n].filter \subseteq InputKeys
           /\ (\A j \in i + 1 .. Len(input) : input[j].name # n) => files[n].key = input[i].key

\* "Unique name for the node", says the comment on the input; genconfigs does not
\* check it, and writes the file of such a name twice.
UniqueNames(list) ==
  \A i, j \in 1 .. Len(list) : list[i].name = list[j].name => i = j
UniqueLists == \A list \in Input : UniqueNames(list)
=============================================================================
