----------------------------- MODULE ConfigsProofs -----------------------------
(***************************************************************************)
(* The files that genconfigs leaves, for any lists, names, keys and peers, *)
(* and any number of runs; also for lists that have a name twice, save     *)
(* where a theorem says so.                                                *)
(***************************************************************************)
EXTENDS Configs, SequenceTheorems, TLAPS

\* Entry i was written for n, and no later one.
WrittenFor(n, i) ==
  /\ i < next /\ input[i].name = n
  /\ \A j \in 1 .. Len(input) : i < j /\ j < next => input[j].name # n
  /\ files[n].key = input[i].key
  /\ files[n].listens = input[i].listens
  /\ files[n].dials = Dialled(i)
  /\ files[n].allowed = Listed(i) /\ files[n].filter = Listed(i)

\* No file is of a run to come, and no generated one later than the last batch.
RunsPassed ==
  \A n \in Name : files[n] # nil =>
    files[n].run <= runs /\ (files[n].by = "genconfigs" => files[n].run <= batch)

\* The files of the last batch say what its list said.
BatchFiles ==
  \A n \in Name : Generated(n) /\ files[n].run = batch =>
    \E i \in 1 .. Len(input) : WrittenFor(n, i)

\* The entries before the next have their files, or newer ones, save while a later
\* entry of the same name empties it again.
EntriesWritten ==
  pc \in {"open", "write"} \/ ended =>
    \A i \in 1 .. Len(input) : i < next =>
      \/ files[input[i].name] # nil /\ files[input[i].name].run >= batch
      \/ pc = "write" /\ input[i].name = input[next].name

Position ==
  /\ pc \in {"open", "write"} => Cardinality(publicPeers) = PEER_PUBLIC_COUNT
  /\ pc = "write" => next <= Len(input) /\ nil \notin Listed(next)
  /\ pc \in {"ping", "slice"} => next = 1
  /\ ended => next = Len(input) + 1 /\ pc = "idle"

ThreePeers ==
  \A n \in Name : Generated(n) => Cardinality(files[n].peers) = PEER_PUBLIC_COUNT

ConfInv ==
  /\ TypeOK
  /\ RunsPassed /\ BatchFiles /\ EntriesWritten /\ Position
  /\ FilesAgree /\ ThreePeers

-----------------------------------------------------------------------------

\* What an entry holds.
LEMMA EntryFacts ==
  ASSUME TypeOK, NEW i \in 1 .. Len(input)
  PROVE  /\ input[i] \in Entry
         /\ input[i].name \in Name /\ input[i].key \in Secret /\ input[i].listens \in BOOLEAN
<1>1. input[i] \in Entry
  BY ElementOfSeq DEF TypeOK
<1> QED BY <1>1 DEF Entry

LEMMA ConfInit == ASSUME Init PROVE ConfInv
<1>1. TypeOK
  <2>1. input = <<>> /\ Len(input) = 0 /\ input \in Seq(Entry)
    BY EmptySeq DEF Init
  <2>3. files \in [Name -> Config \cup {nil}]
    BY DEF Init
  <2>4. runs \in Nat /\ batch \in 0 .. runs /\ next \in 1 .. Len(input) + 1
    BY <2>1 DEF Init
  <2>5. ended \in BOOLEAN /\ publicPeers \subseteq Peer
        /\ pc \in {"idle", "ping", "slice", "open", "write"}
    BY DEF Init
  <2> QED BY <2>1, <2>3, <2>4, <2>5 DEF TypeOK
<1>2. RunsPassed /\ BatchFiles /\ EntriesWritten /\ Position /\ FilesAgree /\ ThreePeers
  BY DEF Init, RunsPassed, BatchFiles, EntriesWritten, Position, FilesAgree, ThreePeers,
         SameRun, Generated
<1> QED BY <1>1, <1>2 DEF ConfInv

\* A step that writes no generated file keeps what two of them say of each other.
LEMMA PairsKept ==
  ASSUME \A n \in Name : Generated(n)' => files'[n] = files[n]
  PROVE  /\ FilesAgree => FilesAgree'
         /\ ThreePeers => ThreePeers'
         /\ DialsAccepted => DialsAccepted'
<1>1. \A n \in Name : Generated(n)' => Generated(n) /\ files'[n] = files[n]
  BY DEF Generated
<1>2. \A a, b \in Name :
        SameRun(a, b)' => SameRun(a, b) /\ files'[a] = files[a] /\ files'[b] = files[b]
  BY <1>1 DEF SameRun
<1> QED BY <1>1, <1>2 DEF FilesAgree, ThreePeers, DialsAccepted

\* Nor what its entries were written to.
LEMMA BatchKept ==
  ASSUME BatchFiles, UNCHANGED <<input, batch, next>>,
         \A n \in Name : Generated(n)' => files'[n] = files[n]
  PROVE  BatchFiles'
<1> SUFFICES ASSUME NEW n \in Name, Generated(n)', files'[n].run = batch'
             PROVE  \E i \in 1 .. Len(input') : WrittenFor(n, i)'
  BY DEF BatchFiles
<1>1. files'[n] = files[n] /\ Generated(n)
  BY DEF Generated
<1>2. PICK i \in 1 .. Len(input) : WrittenFor(n, i)
  BY <1>1 DEF BatchFiles
<1>3. Dialled(i)' = Dialled(i) /\ Listed(i)' = Listed(i)
  BY DEF Dialled, Listed, Others
<1>4. WrittenFor(n, i)'
  BY <1>1, <1>2, <1>3 DEF WrittenFor
<1> QED BY <1>2, <1>4

\* Two entries of a list: each is listed for the other.
LEMMA EntriesListed ==
  ASSUME NEW i \in 1 .. Len(input), NEW j \in 1 .. Len(input),
         input[i].name # input[j].name
  PROVE  Public[input[i].key] \in Listed(j)
BY DEF Others, Listed

-----------------------------------------------------------------------------
(* The steps of genconfigs.                                                *)

LEMMA BeginStep ==
  ASSUME ConfInv, NEW list \in Input, Begin(list)
  PROVE  ConfInv'
<1>0. TypeOK /\ runs \in Nat /\ list \in Seq(Entry) /\ files' = files
      /\ batch' = runs + 1 /\ runs' = runs + 1 /\ input' = list /\ next' = 1
      /\ pc' = "ping" /\ ended' = FALSE /\ publicPeers' = {}
  BY ConfigsAssumption DEF ConfInv, TypeOK, Begin, Run
<1>1. TypeOK'
  <2>1. Len(list) \in Nat
    BY <1>0
  <2>3. runs' \in Nat /\ batch' \in 0 .. runs' /\ next' \in 1 .. Len(input') + 1
    BY <1>0, <2>1
  <2>4. ended' \in BOOLEAN /\ publicPeers' \subseteq Peer
        /\ pc' \in {"idle", "ping", "slice", "open", "write"}
    BY <1>0
  <2> QED BY <1>0, <2>3, <2>4 DEF TypeOK
<1>2. RunsPassed'
  <2>1. \A n \in Name : files[n] # nil => files[n].run <= runs /\ files[n].run \in Nat
    BY <1>0 DEF ConfInv, RunsPassed, TypeOK, Config
  <2> QED BY <1>0, <2>1 DEF RunsPassed
<1>3. BatchFiles'
  <2>1. \A n \in Name : Generated(n) => files[n].run <= runs /\ files[n].run \in Nat
    BY <1>0 DEF ConfInv, RunsPassed, TypeOK, Config, Generated
  <2> QED BY <1>0, <2>1 DEF BatchFiles, Generated
<1>4. EntriesWritten' /\ Position'
  BY <1>0 DEF EntriesWritten, Position
<1>5. FilesAgree' /\ ThreePeers'
  BY <1>0, PairsKept DEF ConfInv
<1> QED BY <1>1, <1>2, <1>3, <1>4, <1>5 DEF ConfInv

\* A step that changes neither the files nor the list.
LEMMA QuietStep ==
  ASSUME ConfInv, Position', EntriesWritten', UNCHANGED <<files, runs, batch, input, next>>,
         pc' \in {"idle", "ping", "slice", "open", "write"},
         ended' \in BOOLEAN, publicPeers' \subseteq Peer
  PROVE  ConfInv'
<1>1. TypeOK'
  BY DEF ConfInv, TypeOK
<1>2. RunsPassed'
  BY DEF ConfInv, RunsPassed
<1>3. BatchFiles'
  BY BatchKept DEF ConfInv
<1>4. FilesAgree' /\ ThreePeers'
  BY PairsKept DEF ConfInv
<1> QED BY <1>1, <1>2, <1>3, <1>4 DEF ConfInv

LEMMA OpenStep ==
  ASSUME ConfInv, Open
  PROVE  ConfInv'
<1>0. TypeOK /\ next \in 1 .. Len(input)
      /\ UNCHANGED <<runs, batch, ended, input, next, publicPeers>>
      /\ pc = "open" /\ pc' = "write" /\ input[next] \in Entry
      /\ files' = [files EXCEPT ![input[next].name] = nil]
  BY DEF ConfInv, TypeOK, Open
<1>1. input[next].name \in Name
  BY <1>0 DEF Entry
<1>2. \A n \in Name : files'[n] = IF n = input[next].name THEN nil ELSE files[n]
  BY <1>0, <1>1 DEF TypeOK
<1>3. TypeOK'
  BY <1>0, <1>1 DEF TypeOK
<1>4. RunsPassed'
  BY <1>0, <1>2 DEF ConfInv, RunsPassed
<1>5. BatchFiles'
  BY <1>0, <1>2, BatchKept DEF ConfInv, Generated
<1>6. EntriesWritten'
  <2> SUFFICES ASSUME NEW i \in 1 .. Len(input), i < next,
                      input[i].name # input[next].name
               PROVE  files'[input[i].name] # nil /\ files'[input[i].name].run >= batch
    BY <1>0 DEF EntriesWritten
  <2>1. input[i].name \in Name
    BY <1>0, EntryFacts
  <2> QED BY <1>0, <1>2, <2>1 DEF ConfInv, EntriesWritten
<1>7. Position'
  <2>1. nil \notin Listed(next) /\ Listed(next)' = Listed(next)
    BY <1>0 DEF Open, Listed, Others
  <2> QED BY <1>0, <2>1 DEF ConfInv, Position
<1>8. FilesAgree' /\ ThreePeers'
  BY <1>2, PairsKept DEF ConfInv, Generated
<1> QED BY <1>3, <1>4, <1>5, <1>6, <1>7, <1>8 DEF ConfInv

LEMMA WriteStep ==
  ASSUME ConfInv, Write
  PROVE  ConfInv'
<1>0. /\ TypeOK /\ next \in 1 .. Len(input) /\ next' = next + 1
      /\ UNCHANGED <<runs, batch, ended, input, publicPeers>>
      /\ pc = "write" /\ pc' = "open" /\ input[next] \in Entry
      /\ files' = [files EXCEPT ![input[next].name] = ConfigOf(next)]
      /\ runs \in Nat /\ batch \in 0 .. runs /\ ended = FALSE
      /\ Cardinality(publicPeers) = PEER_PUBLIC_COUNT
  BY DEF ConfInv, TypeOK, Write, Position
<1>m. PICK m \in 1 .. Len(input) : m = next
  BY <1>0
<1>1. PICK n0 \in Name : n0 = input[m].name
  BY <1>0, EntryFacts
<1>2. /\ files'[n0] = ConfigOf(next)
      /\ \A n \in Name : n # n0 => files'[n] = files[n]
  BY <1>0, <1>m, <1>1 DEF TypeOK
<1>3. ConfigOf(next) \in Config
  <2>1. Dialled(next) \subseteq Name
    BY <1>0, EntryFacts DEF Dialled
  <2>2. Listed(next) \subseteq PublicKey
    <3>1. \A j \in Others(next) : Public[input[j].key] \in PublicKey \cup {nil}
      BY <1>0, EntryFacts, ConfigsAssumption DEF Others
    <3> QED BY <1>0, <3>1 DEF Listed, ConfInv, Position
  <2> QED BY <1>0, <2>1, <2>2 DEF ConfigOf, Config, TypeOK, Entry
<1>4. ConfigOf(next) # nil
  BY <1>3, ConfigsAssumption
<1>5. /\ files'[n0].key = input[next].key /\ files'[n0].listens = input[next].listens
      /\ files'[n0].dials = Dialled(next) /\ files'[n0].peers = publicPeers
      /\ files'[n0].allowed = Listed(next) /\ files'[n0].filter = Listed(next)
      /\ files'[n0].by = "genconfigs" /\ files'[n0].run = batch
  BY <1>2 DEF ConfigOf
<1>6. TypeOK'
  BY <1>0, <1>m, <1>1, <1>3 DEF TypeOK
<1>7. RunsPassed'
  BY <1>0, <1>2, <1>5 DEF ConfInv, RunsPassed
<1>8. \A i \in 1 .. Len(input) : Dialled(i)' = Dialled(i) /\ Listed(i)' = Listed(i)
  BY <1>0 DEF Dialled, Listed, Others
<1>9. BatchFiles'
  <2>1. WrittenFor(n0, m)'
    BY <1>0, <1>m, <1>1, <1>5, <1>8 DEF WrittenFor
  <2>2. ASSUME NEW n \in Name, n # n0, Generated(n)', files'[n].run = batch'
        PROVE  \E i \in 1 .. Len(input') : WrittenFor(n, i)'
    <3>1. PICK i \in 1 .. Len(input) : WrittenFor(n, i)
      BY <1>0, <1>2, <2>2 DEF ConfInv, BatchFiles, Generated
    <3>2. \A j \in 1 .. Len(input) : i < j /\ j < next + 1 => input[j].name # n
      BY <1>0, <1>m, <1>1, <2>2, <3>1 DEF WrittenFor
    <3>3. i < next + 1
      BY <1>0, <3>1 DEF WrittenFor
    <3>4. WrittenFor(n, i)'
      BY <1>0, <1>2, <1>8, <2>2, <3>1, <3>2, <3>3 DEF WrittenFor
    <3> QED BY <1>0, <3>4
  <2>3. \E i \in 1 .. Len(input') : WrittenFor(n0, i)'
    BY <1>0, <2>1
  <2> QED BY <2>2, <2>3 DEF BatchFiles
<1>10. EntriesWritten'
  <2> SUFFICES ASSUME NEW i \in 1 .. Len(input), i < next + 1
               PROVE  files'[input[i].name] # nil /\ files'[input[i].name].run >= batch
    BY <1>0 DEF EntriesWritten
  <2>1. CASE i = next
    BY <1>0, <1>m, <1>1, <1>2, <1>4, <1>5, <2>1
  <2>2. CASE i # next
    <3>1. i < next /\ input[i].name \in Name
      BY <1>0, <2>2, EntryFacts
    <3> QED BY <1>0, <1>m, <1>1, <1>2, <1>4, <1>5, <3>1 DEF ConfInv, EntriesWritten, TypeOK
  <2> QED BY <2>1, <2>2
<1>11. Position'
  BY <1>0 DEF Position
<1>12. FilesAgree' /\ ThreePeers'
  <2>1. ASSUME NEW a \in Name, NEW b \in Name, SameRun(a, b)', a = n0 \/ b = n0
        PROVE  a # b => Public[files'[a].key] \in files'[b].filter
    <3>1. files'[a].run = batch' /\ files'[b].run = batch' /\ Generated(a)' /\ Generated(b)'
      BY <1>0, <1>5, <2>1 DEF SameRun
    <3>2. PICK i \in 1 .. Len(input') : WrittenFor(a, i)'
      BY <1>9, <3>1 DEF BatchFiles
    <3>3. PICK j \in 1 .. Len(input') : WrittenFor(b, j)'
      BY <1>9, <3>1 DEF BatchFiles
    <3>4. i \in 1 .. Len(input) /\ j \in 1 .. Len(input)
      BY <1>0
    <3>5. /\ input[i].name = a /\ files'[a].key = input[i].key
          /\ input[j].name = b /\ files'[b].filter = Listed(j)
      BY <1>0, <1>8, <3>2, <3>3, <3>4 DEF WrittenFor
    <3> QED BY <3>4, <3>5, EntriesListed
  <2>2. ASSUME NEW a \in Name, NEW b \in Name, SameRun(a, b)', a # n0, b # n0
        PROVE  SameRun(a, b) /\ files'[a] = files[a] /\ files'[b] = files[b]
    BY <1>2, <2>2 DEF SameRun, Generated
  <2>3. \A n \in Name : Generated(n)' => Cardinality(files'[n].peers) = PEER_PUBLIC_COUNT
    BY <1>0, <1>2, <1>5 DEF ConfInv, ThreePeers, Generated
  <2> QED BY <2>1, <2>2, <2>3 DEF ConfInv, FilesAgree, ThreePeers
<1> QED BY <1>6, <1>7, <1>9, <1>10, <1>11, <1>12 DEF ConfInv

-----------------------------------------------------------------------------
(* The other ways to a file.                                               *)

\* A configuration that genconfigs did not write, in a run of its own.
LEMMA PutStep ==
  ASSUME ConfInv, NEW n0 \in Name, NEW c \in Config,
         c.by # "genconfigs", c.run = runs + 1, Put(n0, c)
  PROVE  ConfInv'
<1>0. TypeOK /\ runs' = runs + 1 /\ runs \in Nat /\ batch \in 0 .. runs /\ c # nil
      /\ UNCHANGED <<pc, batch, ended, input, next, publicPeers>>
      /\ files' = [files EXCEPT ![n0] = c]
  BY ConfigsAssumption DEF ConfInv, TypeOK, Put, Run
<1>1. \A n \in Name : files'[n] = IF n = n0 THEN c ELSE files[n]
  BY <1>0 DEF TypeOK
<1>2. TypeOK'
  BY <1>0 DEF ConfInv, TypeOK
<1>3. RunsPassed'
  <2>1. \A n \in Name : files[n] # nil => files[n].run \in Nat /\ files[n].run <= runs
    BY <1>0 DEF ConfInv, RunsPassed, TypeOK, Config
  <2> QED BY <1>0, <1>1, <2>1 DEF ConfInv, RunsPassed
<1>4. BatchFiles'
  BY <1>0, <1>1, BatchKept DEF ConfInv, Generated
<1>5. EntriesWritten'
  <2>1. \A i \in 1 .. Len(input) : input[i].name \in Name
    BY <1>0, EntryFacts
  <2> QED BY <1>0, <1>1, <2>1 DEF ConfInv, EntriesWritten
<1>6. Position'
  BY <1>0 DEF ConfInv, Position, Listed, Others
<1>7. FilesAgree' /\ ThreePeers'
  BY <1>0, <1>1, PairsKept DEF ConfInv, Generated
<1> QED BY <1>2, <1>3, <1>4, <1>5, <1>6, <1>7 DEF ConfInv

LEMMA ToolsStep ==
  ASSUME ConfInv, Next
  PROVE  ConfInv'
<1>0. TypeOK /\ runs \in Nat
  BY DEF ConfInv, TypeOK
<1>1. ASSUME NEW good \in SUBSET Peer, PingPeers(good) PROVE ConfInv'
  <2>1. Position' /\ EntriesWritten'
    BY <1>1 DEF PingPeers, ConfInv, Position, EntriesWritten
  <2> QED BY <1>0, <1>1, <2>1, QuietStep DEF PingPeers, TypeOK
<1>2. CASE SelectPeers
  <2>1. Position' /\ EntriesWritten' /\ publicPeers' \subseteq Peer
    BY <1>0, <1>2 DEF SelectPeers, ConfInv, Position, EntriesWritten, TypeOK
  <2> QED BY <1>0, <1>2, <2>1, QuietStep DEF SelectPeers, TypeOK
<1>3. CASE Finish
  <2>1. Position' /\ EntriesWritten'
    BY <1>0, <1>3 DEF Finish, ConfInv, Position, EntriesWritten, TypeOK
  <2> QED BY <1>0, <1>3, <2>1, QuietStep DEF Finish, TypeOK
<1>4. CASE Abort
  <2>1. Position' /\ EntriesWritten'
    BY <1>0, <1>4 DEF Abort, ConfInv, Position, EntriesWritten, TypeOK
  <2> QED BY <1>0, <1>4, <2>1, QuietStep DEF Abort, TypeOK
<1>5. ASSUME NEW n \in Name, NEW s \in Secret, GenConf(n, s) PROVE ConfInv'
  <2> DEFINE c == [ key |-> s, listens |-> FALSE, dials |-> {}, peers |-> {},
                    allowed |-> {}, filter |-> {}, by |-> "genconf", run |-> runs + 1 ]
  <2>1. c \in Config
    BY <1>0 DEF Config
  <2>2. Put(n, c)
    BY <1>5 DEF GenConf, Put, Run
  <2> QED BY <2>1, <2>2, PutStep
<1>6. ASSUME NEW n \in Name, NormaliseConf(n) PROVE ConfInv'
  <2> DEFINE f == files[n]
             c == [ key |-> f.key, listens |-> f.listens, dials |-> f.dials,
                    peers |-> f.peers, allowed |-> f.allowed, filter |-> {},
                    by |-> "normaliseconf", run |-> runs + 1 ]
  <2>1. /\ f.key \in Secret /\ f.listens \in BOOLEAN /\ f.dials \in SUBSET Name
        /\ f.peers \in SUBSET Peer /\ f.allowed \in SUBSET PublicKey
    BY <1>0, <1>6 DEF NormaliseConf, Accepted, TypeOK, Config
  <2>2. c \in Config
    BY <1>0, <2>1 DEF Config
  <2>3. Put(n, c)
    BY <1>6 DEF NormaliseConf, Put, Run
  <2> QED BY <2>2, <2>3, PutStep
<1>7. ASSUME NEW n \in Name, NEW m \in Manual, WriteByHand(n, m) PROVE ConfInv'
  <2> DEFINE c == [m EXCEPT !.run = runs + 1]
  <2>1. c \in Config /\ c.by = "hand" /\ c.run = runs + 1
    BY <1>0, ConfigsAssumption DEF Config
  <2>2. Put(n, c)
    BY <1>7 DEF WriteByHand, Put, Run
  <2> QED BY <2>1, <2>2, PutStep
<1> QED
  BY <1>1, <1>2, <1>3, <1>4, <1>5, <1>6, <1>7, BeginStep, OpenStep, WriteStep
     DEF Next, Tools, GenConfigs

\* A run that ended well left the files of its list.
LEMMA WholeInv == ASSUME ConfInv PROVE RunIsWhole
<1> SUFFICES ASSUME ended, NEW i \in 1 .. Len(input)
             PROVE  LET n == input[i].name IN
                    /\ files[n] # nil /\ files[n].run >= batch
                    /\ Generated(n) =>
                         /\ files[n].filter \subseteq InputKeys
                         /\ (\A j \in i + 1 .. Len(input) : input[j].name # n) =>
                              files[n].key = input[i].key
  BY DEF RunIsWhole
<1> DEFINE n == input[i].name
<1>0. TypeOK /\ i < next /\ next = Len(input) + 1 /\ pc = "idle" /\ batch \in Nat
      /\ Len(input) \in Nat
  BY DEF ConfInv, Position, TypeOK
<1>4. n \in Name
  BY <1>0, EntryFacts
<1>1. files[n] # nil /\ files[n].run >= batch
  BY <1>0 DEF ConfInv, EntriesWritten
<1>2. ASSUME Generated(n)
      PROVE  /\ files[n].filter \subseteq InputKeys
             /\ (\A j \in i + 1 .. Len(input) : input[j].name # n) =>
                  files[n].key = input[i].key
  <2>1. files[n].run = batch
    <3>1. files[n].run \in Nat /\ files[n].run <= batch
      BY <1>0, <1>4, <1>1, <1>2 DEF ConfInv, RunsPassed, Generated, TypeOK, Config
    <3> QED BY <1>0, <1>1, <3>1
  <2>2. PICK j \in 1 .. Len(input) : WrittenFor(n, j)
    BY <1>0, <1>4, <1>2, <2>1 DEF ConfInv, BatchFiles
  <2>3. files[n].filter \subseteq InputKeys
    BY <2>2 DEF WrittenFor, Listed, Others, InputKeys
  <2>4. ASSUME \A l \in i + 1 .. Len(input) : input[l].name # n
        PROVE  j = i
    BY <1>0, <2>2, <2>4 DEF WrittenFor
  <2> QED BY <2>2, <2>3, <2>4 DEF WrittenFor
<1> QED BY <1>1, <1>2

-----------------------------------------------------------------------------

\* The invariant of the directory, by whichever program it is written.
LEMMA ConfStep ==
  ASSUME ConfInv, Next \/ UNCHANGED configVars
  PROVE  ConfInv'
<1>1. CASE Next
  BY <1>1, ToolsStep
<1>2. CASE UNCHANGED configVars
  <2>1. UNCHANGED <<files, runs, pc, batch, ended, input, next, publicPeers>>
    BY <1>2 DEF configVars, run
  <2>2. Position' /\ EntriesWritten'
    BY <2>1 DEF ConfInv, Position, Listed, Others, EntriesWritten
  <2> QED BY <2>1, <2>2, QuietStep DEF ConfInv, TypeOK
<1> QED BY <1>1, <1>2

\* The invariant of the generator: the files that this run has written agree with
\* each other and with the input, after any number of runs that were cut short.
THEOREM ConfigsInvariance == Spec => []ConfInv
<1>1. Init => ConfInv
  BY ConfInit
<1>2. ConfInv /\ [Next]_configVars => ConfInv'
  BY ConfStep
<1> QED BY <1>1, <1>2, PTL DEF Spec

-----------------------------------------------------------------------------
(* Where no list has a name twice.                                         *)

\* An entry that is dialled is another one, and listens.
LEMMA DialledFacts ==
  ASSUME UniqueNames(input), NEW i \in 1 .. Len(input), NEW j \in 1 .. Len(input),
         input[j].name \in Dialled(i)
  PROVE  input[j].listens /\ input[i].name # input[j].name
BY DEF Dialled, UniqueNames

LEMMA DialsStep ==
  ASSUME ConfInv, ConfInv', UniqueNames(input), DialsAccepted, Next
  PROVE  DialsAccepted'
<1>1. ASSUME \A n \in Name : Generated(n)' => files'[n] = files[n]
      PROVE  DialsAccepted'
  BY <1>1, PairsKept
<1>2. CASE Write
  <2>0. /\ TypeOK /\ UNCHANGED <<input, batch>> /\ next \in 1 .. Len(input)
        /\ files' = [files EXCEPT ![input[next].name] = ConfigOf(next)]
    BY <1>2 DEF ConfInv, Write, Position, TypeOK
  <2>1. ASSUME NEW a \in Name, NEW b \in Name, SameRun(a, b)', b \in files'[a].dials,
               a = input[next].name \/ b = input[next].name
        PROVE  files'[b].listens /\ Public[files'[a].key] \in files'[b].allowed
    <3>1. files'[a].run = batch' /\ files'[b].run = batch' /\ Generated(a)' /\ Generated(b)'
      BY <2>0, <2>1 DEF SameRun, ConfigOf, TypeOK
    <3>2. PICK i \in 1 .. Len(input') : WrittenFor(a, i)'
      BY <3>1 DEF ConfInv, BatchFiles
    <3>3. PICK j \in 1 .. Len(input') : WrittenFor(b, j)'
      BY <3>1 DEF ConfInv, BatchFiles
    <3>4. i \in 1 .. Len(input) /\ j \in 1 .. Len(input)
      BY <2>0
    <3>5. Dialled(i)' = Dialled(i) /\ Listed(j)' = Listed(j)
      BY <2>0 DEF Dialled, Listed, Others
    <3>6. /\ input[i].name = a /\ files'[a].key = input[i].key /\ files'[a].dials = Dialled(i)
          /\ input[j].name = b /\ files'[b].listens = input[j].listens
          /\ files'[b].allowed = Listed(j)
      BY <2>0, <3>2, <3>3, <3>5 DEF WrittenFor
    <3> QED BY <2>1, <3>4, <3>6, DialledFacts, EntriesListed
  <2>2. ASSUME NEW a \in Name, NEW b \in Name, SameRun(a, b)',
               a # input[next].name, b # input[next].name
        PROVE  SameRun(a, b) /\ files'[a] = files[a] /\ files'[b] = files[b]
    BY <2>0, <2>2 DEF SameRun, Generated, TypeOK
  <2>3. ThreePeers'
    BY DEF ConfInv
  <2> QED BY <2>1, <2>2, <2>3 DEF DialsAccepted, ThreePeers
<1>3. CASE Open
  BY <1>1, <1>3 DEF Open, Generated, ConfInv, TypeOK
<1>4. ASSUME NEW n0 \in Name, NEW c, Put(n0, c), c.by # "genconfigs"
      PROVE  DialsAccepted'
  BY <1>1, <1>4 DEF Put, Generated, ConfInv, TypeOK
<1>5. ASSUME NEW n \in Name, NEW s \in Secret, GenConf(n, s) PROVE DialsAccepted'
  BY <1>4, <1>5 DEF GenConf
<1>6. ASSUME NEW n \in Name, NormaliseConf(n) PROVE DialsAccepted'
  BY <1>4, <1>6 DEF NormaliseConf
<1>7. ASSUME NEW n \in Name, NEW m \in Manual, WriteByHand(n, m) PROVE DialsAccepted'
  <2>1. [m EXCEPT !.run = runs'].by # "genconfigs"
    BY ConfigsAssumption DEF Config
  <2> QED BY <1>4, <1>7, <2>1 DEF WriteByHand
<1>8. CASE UNCHANGED files
  BY <1>1, <1>8
<1> QED
  BY <1>2, <1>3, <1>5, <1>6, <1>7, <1>8 DEF Next, Tools, GenConfigs, Begin, PingPeers,
     SelectPeers, Finish, Abort

\* The list of the last run is one of them, or none.
LEMMA UniqueStep ==
  ASSUME UniqueLists, UniqueNames(input), Next
  PROVE  UniqueNames(input)'
<1>1. ASSUME NEW list \in Input, Begin(list) PROVE UniqueNames(input)'
  BY <1>1 DEF Begin, UniqueLists, UniqueNames
<1>2. CASE UNCHANGED input
  BY <1>2 DEF UniqueNames
<1> QED
  BY <1>1, <1>2 DEF Next, Tools, GenConfigs, PingPeers, SelectPeers, Open, Write, Finish,
     Abort, GenConf, NormaliseConf, WriteByHand, Put

\* What is said of every list holds of the one that is used.
LEMMA UniqueInit ==
  ASSUME Init
  PROVE  UniqueNames(input) /\ DialsAccepted
<1>1. Len(input) = 0
  BY EmptySeq DEF Init
<1> QED BY <1>1 DEF Init, UniqueNames, DialsAccepted, SameRun, Generated
=============================================================================
