# yggdrasil-manager in TLA+

yggdrasil-manager is a Yggdrasil node with a filter: IPv6 traffic on the tunnel
is restricted to the public keys listed in the configuration, while the node
goes on routing for the rest of the network. With it come a generator of
configurations for a fleet of such nodes, and a client for the node's admin
socket. These modules model the code of this repository. Routing, peering, the
TUN adapter, the admin socket and multicast are the yggdrasil-go library's,
which is not in the repository; they appear only through the calls that this
code makes and receives.

Paths below are relative to the repository's root.

## 1. The system

| component | code | state | operations |
|---|---|---|---|
| key store | `src/ipv6rwc/ipv6rwc.go` | three maps of entries (by key, address, subnet), two maps of kept packets, a timer for every entry and every buffer, the MTU, one mutex | `Read`, `Write`, the path notification, the timers' callbacks, `SetMTU`, `Close` |
| filter | `src/filter/filter.go` | a slice of pointers to addresses, fixed after `NewFilter` | `NewFilter`, `IsAllowed` |
| node | `cmd/yggdrasil/main.go` | which parts run, the context of the signals, the channel `done` | start every part, wait, stop every part; the service callback |
| chuser | `cmd/yggdrasil/chuser_*.go` | the process's credentials | three system calls in a row |
| dns | `src/dns/dns_*.go` | an entry in the system's DNS configuration (macOS), which outlives the process | `ForceResolution`, `Cleanup`, through a `scutil` child and the goroutine that feeds it |
| mobile binding | `contrib/mobile/mobile*.go` | four fields of one object without a lock | `StartJSON`, `TakeOverTUN`, `Stop`, `Send`, `Recv`, and calls that ask the core |
| manager configuration | `src/config/config.go` | none | `UnmarshalHJSON` refuses an empty list of allowed keys |
| genconfigs | `cmd/genconfigs/main.go`, `public_peers.go` | the files it writes, which outlive it | read the list of nodes, choose three public peers, write one file per node, each emptied and then filled |
| admin client | `cmd/yggdrasilctl` | one run: flags, endpoint, a connection, a response, an exit status | find the admin socket, dial, ask, wait, print, exit |
| fleet | `integration/firewall_test.go`, `main.go` | nodes that run with the files they were launched with | launch and stop nodes; ping from pair to pair, each with a timeout |
| the rest | platform glue, build scripts, a sketch of a handshake | | |

### How they interact

```
   TUN adapter / mobile application         admin, multicast
        | Write          ^ Read                   |
        v                |                        v
   +--------------- key store --------------+   core (library)
   | writePC -> filter.IsAllowed(dst)       |
   |   known:   core.WriteTo(key) ----------+-->  network
   |   unknown: keep packet, core.SendLookup+-->
   | update  <-- path notification <--------+---  answers
   | readPC  <-- core.ReadFrom <------------+---  frames
   |   update(sender), then filter(src)     |
   | timers: evict entries, drop packets    |
   +----------------------------------------+
```

*Write* comes from the TUN adapter's goroutine, or from the application's
thread through `Send`. *Read* runs on another goroutine, the path notification
on an actor of the core, and every timer callback on a goroutine of its own.
They meet in the maps, under `k.mutex`; the calls to the core are made after the
unlock, with what was read before. `main` builds core, admin socket, multicast,
key store with filter, TUN and DNS entry in one order, takes them down in
another, and is interrupted by signals, by the Windows service manager and by
panics of any goroutine. The mobile binding does the same from calls of an
application that may make them in any order.

Programs meet in files and sockets. genconfigs writes what nodes read when they
are launched; `-genconf`, `-normaliseconf` and a hand write such files too. Node
and admin client read one default file, each with code of its own, to agree on
where the admin socket is. Nodes meet in pings, each of which passes two filters
on its way there and two on its way back.

### What is hard about it, and what makes it right

* **Key store.** A timer that fired cannot be recalled: its callback may wait
  for the mutex while the object it belongs to is refreshed, flushed or
  replaced, and has to recognise that. An entry is removed from three maps
  under three separate checks. A packet is kept under the mutex and its lookup
  is sent after the unlock, so that the answer may overtake the lookup. Packets
  are flushed after the unlock, while the entry may already be gone. Right is:
  a packet is written at most once, to an owner of its destination; maps agree;
  nothing stays for ever; a kept packet has something to wait for; nothing
  passes that the filter refuses.
* **Filter.** A key that does not decode panics in `NewFilter`; one of the
  wrong length becomes a nil pointer that panics later, if a scan gets that far.
  Right is: every answer is membership in the set of listed keys.
* **Node.** Any step of starting may fail; a signal may come at any step; the
  service callback waits for main and main for the context. Right is: the core
  outlives the parts, being told to stop always ends the process, privileges
  are dropped all or not at all, and a clean stop leaves no DNS entry.
* **Mobile binding.** No field is ever set back to nil, `Stop` can return
  half-way, a nil check and the use after it are two reads. Right is: nothing
  runs that `Stop` cannot reach, traffic uses the core that runs, and what the
  check found is there for the use.
* **genconfigs.** Files are written one by one, each emptied before it is
  filled, into a directory that holds the files of earlier runs. A failure at
  any step, a key that is too short when its turn to be listed comes, or a list
  that changed leaves files of several fleets side by side. Right is: two files
  of one run list each other, what a file connects to is there, and a run that
  ended well left a whole fleet.
* **Fleet.** A node runs with what its file said when it was launched, so the
  nodes of one fleet may follow different lists. Right is: an answer took the
  consent of both sides; a node that was taken off the list is cut off once the
  others were relaunched; two members of one fleet answer each other; and the test
  that asks them, with one ping for each pair, ends whatever is lost.
* **Admin client.** It waits without a timeout for a node that may stop, die or
  be launched again, and its deferred function decides what it exits with. Right
  is: it goes where the node listens, it is not left waiting by a node that is
  told to stop, and its exit status says how it went (it does not, section 6).

`PROJECT.json` lists each hazard at its line with the properties that watch it.

## 2. The modules

| module | models | uses |
|---|---|---|
| `KeyStore` | the key store, one critical section per action | |
| `Tunnel` | what the tunnel promises, without maps, timers or goroutines | |
| `KeyStoreTunnel` | the refinement mapping from `KeyStore` to `Tunnel` | both |
| `MCKeyStore` | instances of `KeyStore` for TLC | `KeyStoreTunnel` |
| `KeyStoreProofs` | the inductive invariant of `KeyStore`, and what follows from it | `KeyStore` |
| `KeyStoreSteps` | theorems about its steps: they implement `Tunnel`, what is left after `Close`, unique owners | `KeyStoreProofs`, `KeyStoreTunnel` |
| `Filter`, `MCFilter`, `FilterProofs` | the filter, its instance, its theorems | |
| `Node`, `NodeProofs` | main, chuser and dns, and theorems | |
| `Client`, `ClientProofs` | the admin client beside the node it asks | `Node`, `NodeProofs` |
| `Mobile`, `MobileProofs` | the mobile binding, and theorems | |
| `Configs`, `ConfigsProofs` | genconfigs, and the other ways to a file | |
| `Fleet`, `MCFleet`, `FleetProofs` | nodes that run with those files, and the ping test | `Configs`, `ConfigsProofs` |

A definition `Mutant_X_...` is `X` with a plausible fault: a dropped guard, a
missing reset, a swapped order. No action uses it. Put in the place of `X` it
makes a property fail, which `PROJECT.json` pairs with it under "mutants".

### KeyStore and the code

* *Maps.* `addrToInfo` and `subnetToInfo` are the same code over addresses
  (200::/8) and subnets (300::/8). The two kinds are disjoint, so the model has
  one map `toInfo` over `Dest == Address \cup Subnet`, and one `buffers`.
  `keyToInfo` keeps the identity (`Gen`) of the object, which is what the
  pointer comparisons of the callbacks compare.
* *Critical sections.* Nothing blocks while the mutex is held, so a critical
  section is one action: `SendKnown` and `SendUnknown` up to the unlock, then
  `WriteTo` or `SendKeyLookup` as a later step of the same goroutine;
  `UpdateKnown` and `UpdateNew`, then `WriteTo` of each packet in `out`, that of
  the address first, as the code appends it first.
* *Timers.* There is no clock. `Restart` is `Stop` with `AfterFunc`; a `Fire`
  starts the callback, which waits (`fired`) until `InfoExpires` or
  `BufferExpires` gets the mutex. `keyStoreTimeout` only matters as some time
  later, and any later time is a behaviour of the model. The timer of a buffer
  that `update` flushed runs on, as in the code.
* *readPC.* `ReadFrom` is a turn of its loop up to the first call, `Update` the
  call, `Check` the source checks and the filter. A frame longer than the MTU is
  answered with an ICMP packet that goes through `writePC` (`SendTooBig`,
  `DropTooBig`).
* *Subnets that collide.* A subnet is a prefix of 64 bits, so two keys can own
  the same one. `update` of the second then overwrites the first's entry. The
  modules allow it, and `key_store_shared` and `key_store_read` are about it;
  properties that need distinct owners say so.
* *Filter.* `IsAllowed` is membership in `Allowed`. `Filter` shows when the code
  computes that.
* *What is not in it.* Bytes of packets other than the header's endpoints and
  the length, the copies into the caller's buffer, and the random order in which
  callbacks get the mutex (every order is possible). The order of a flushed
  packet and a later one that is written directly is not promised by the code,
  and `Tunnel` promises none.

### Filter and the code

`Decode` and `Reject` are a turn of the loop of `NewFilter`, `Miss`, `Hit`,
`Dereference` and `Return` a turn of the loop of `IsAllowed`. Texts of keys are
model values, with the set of those that are hex and their address, which is nil
for a length that is not a public key's. Two texts may be one key (upper and
lower case). `IsAllowed` only reads, so calls at the same time do not meet.

### Node and the code

`at` is the step of main, in the order of `AfterStart` and `AfterStop`. A part of
the library runs or does not: `Start` may leave an optional part off, since the
configuration can. `Fail` is every panic of starting. `Leave` is the return of
main with its deferred `close(done)`, which also runs when main panics, but not
when another goroutine does (`WriterPanics`). `told` is the context: latched by
`NotifyContext`, so that a signal before `Pledge` is seen by `Wake`. `Kill` is the
death of the process at any step; a scutil that has its commands goes on without
the process, and `Die` lets its effect happen or not. `entries` survives the
process, and the next launch has a new `serviceId`.

### Mobile and the code

`m` holds the fields, numbers of the parts they point to. `inTurn` chooses
between an application that starts and stops by turns and one that calls in any
order; properties that need the former say so. `StartJSON` is five steps, because
`Send` and `Recv` run between them. `CallSend` and `Send` are the two reads of
`m.iprwc`, and so are `CallRecv` and `Recv`. Where the second finds nil the call
panics (`Dereference`), and the application is gone; that this never happens is part
of `OnlyStartPanics`. The reads race with the assignment in `StartJSON`; the model
reads the current value, which is what the aligned loads and stores of a pointer
give on the platforms this binding is built for, and what it points to is taken
to be whole. A `New` that fails leaves nil or a
part that does not run, since both occur in the library. `StopFails` is an error
of a part's `Stop`.

### KeyStore and Tunnel

`Tunnel` has packets that are held, sent or lost, a wire and what was delivered,
and nothing else. `KeyStoreTunnel` maps each variable and constant by name: the
fate of a packet is read off the buffers, the goroutines' `out` and the wire.
`Permitted` and `Trusted` say which packets and frames may pass at all, so that
`ImplementsTunnel` also says that nothing else does.

### Client and the code

`Client` extends `Node`: `NodeStep` is any step of it, with the admin socket where
the file puts it (`Door`), and the client's steps run beside it. `SetEndpoint` is
`setEndpoint` with its quirk: `-endpoint` with the default's value is taken for no
flag. `Over` is `os.Exit(run())`, and `Fatal` is what every panic comes to:
the deferred function recovers and returns a status into nothing, and `run`
returns 0. `HungUp` is a connection to a launch that is over; `HangUp` is what the
library's socket may do when it is stopped, and is not assumed. What the client
prints of a response is one step, `Render`, which may panic.

### Configs and the code

`files` is the directory. `Begin` reads the input; `PingPeers` and `SelectPeers`
are `selectPublicPeers`, where the peers that answer are any subset and the
fastest three any three of it; with fewer than three `SelectPeers` is not
enabled, and `Abort` is the panic. `Open` is a turn of the loop up to the moment
`os.WriteFile` has truncated the file, `Write` the rest of it. A file that is
empty, or half written, is `nil`: no program accepts it. `Abort` is enabled
between any two steps of a run, and so stands for every panic of it, for a
failed write and for a kill. A key
that is too short is `nil` as a public key, where `ed25519` panics. `Accepted` is
what a launch asks of a file. `GenConf`, `NormaliseConf` and `WriteByHand` may put
a file at any time, also while genconfigs runs. `by` and `run` of a file are
history: they say which program wrote it, and no action but the properties' own
definitions reads them.

### Fleet and the code

`loaded` is the file a node was launched with. `Order` is the test's list of nodes.
`turn` is where its two loops are (`NextPair`, and `Skip` for the pairs of a node
with itself): one pass, one ping for each pair, no retry. The test pings whether or
not the nodes run, at the addresses it knows them by (`AddressOf`). A ping is up to
four checks of two filters, `writePC` and `readPC` on each side: `Ping` asks the
source's for the target, `Answer` the target's for the source (and again on the way
out, which is the same question), `Receive` the source's. `probe` is the one packet
that is under way, since the test waits for an answer or the timeout before the next
pair; `dead` is a packet that was dropped or lost, or was sent where no node runs.
`Verdict` is the return of `pinger.Run`, with the answer or at the timeout, and the
assertion after it, which records a failure and lets the test go on; `Fatal` are the
failures that do not (lines 97, 101 and 112). `trust`, `heard` and `calm` are history,
for the properties: `calm` says that the ping under way began between two members of
a fleet that was generated and launched, each the only node with its key, and that
nothing was launched, stopped or lost since. The test's wait for discovery is not a
step: a packet that is too early is one of the lost. How the pinger tells a late
reply from that of a later ping is its library's matter: here a late reply is dead.

## 3. The runs

"States" are distinct states; the bounds are in the cfg.

| run | question | instance | states |
|---|---|---|---|
| `key_store_unique` | does anything leak, go out twice, or wait in vain? | one remote key, two writers and the notifier, three packets (two to the address, one to the subnet), two objects of each kind | 455 000 |
| `key_store_shared` | do evictions and flushes touch only what is their own when entries overwrite one another? | two keys with the same subnet, two packets, two objects | 2.4 million |
| `key_store_read` | does only what is allowed pass, in both directions, and does all of it implement `Tunnel`? | two keys with one subnet of which one is allowed, seven frames (forged, oversized, for another node), `SetMTU` | 1.75 million |
| `key_store_live` | is every packet settled, and do the maps drain? | one key, fairness | 25 000 |
| `filter` | is an answer membership, and a panic explained? | every list of up to three of five texts, three addresses | 1 246 |
| `node` | do the orders of starting and stopping hold with failures, signals and deaths anywhere, and does the client find the node and get away from it? | three platforms, three launches, five kinds of file, four of flag | 1.0 million |
| `mobile` | can `Stop` reach all that runs, does traffic use it, and is what `Send` and `Recv` checked there when they use it? | six kinds of configuration, up to six parts made | 631 000 |
| `fleet` | do files of one run agree, is a ping answered by consent only, is a removed node cut off, do members answer each other, does the test end? | a fleet of three, of which two listen, and of two; a list with a short key, a file by hand, two runs, one packet lost; each of three nodes pings the others | 1.1 million |
| `key_store_subnet_out`, `key_store_subnet_in`, `mobile_own_configs`, `client_exit` | four statements that the code contradicts, section 6 | | |

### What the properties say

* `RoutesAgree`, `KeptOnlyWhileUnknown`, `EntriesExpire`: the maps agree, a kept
  packet has no route yet, everything in the maps has a live timer.
* `WrittenOnce`, `WrittenToOwner`, `AddressTrafficAllowed`, `DeliveredAllowed`: a
  packet goes out once, to an owner of its destination; an address needs the
  filter; what is delivered came from an allowed key, although the filter never
  sees the key.
* `EvictedByOwnTimer`, `KeptLeavesOnlyThreeWays`: what a step may not do. A
  callback of a replaced object removes nothing; a packet leaves its buffer to
  be written, to make room for a later one, or by its own timer.
* `KnownKeyKeepsNothing`, `KeptAwaitsAnswer`: no packet waits where no answer
  will reach it. Both hold if no two keys own the same destination. Where
  subnets collide they fail for reasons the code accepts: an entry that was
  overwritten is not flushed again before it expires, and the packet is lost
  with its timer, which `PacketsSettle` allows.
* `PacketsSettle` (the abstract `HeldSettles`), `DrainsAfterClose`: every held
  packet is written or lost; after `Close` the maps are empty in the end.
* `ImplementsTunnel`: every step of the key store is a step of `Tunnel` or none.
* `AnswerIsMembership`, `PanicExplained`: the filter.
* `CoreOutlivesParts`, `DropsAllOrNothing`, `CleanExit`, `CallbackWaits`,
  `EveryStopEnds`: the node.
* `FindsTheNode`, `WaitEnds`: the client beside the node.
* `NothingLost`, `StopLeavesNothing`, `ServesCurrent`, `OnlyStartPanics`,
  `RecvReturns`: the mobile binding. The first two are about calls by turns; a
  second `StartJSON` without a `Stop` does lose the first core. `OnlyStartPanics`
  speaks of all three threads: of what `Stop` and the calls that ask the core
  dereference (`ControlFinds`), and of the second read in `Send` and `Recv`, which
  may come after any step of a start or a stop (`SecondReadFinds`). `MInv` is the inductive invariant of the proofs, types included:
  what each step leaves in the fields and running.
* `FilesAgree`, `DialsAccepted`, `RunIsWhole`: what is in the directory, also
  half-way through a run and after runs that failed.
* `AnswersAreMutual`, `RevokedCutOff`, `AllReceived`: what runs with it. The test
  expects an answer where the target lists the source; in the code both must
  list each other, which the test's configurations do, and `FilesAgree` gives for
  generated ones. `AllReceived` is the test's assertion at line 126, for generated
  fleets and for pings during which nothing is lost, launched or stopped: one loss
  fails that assertion in the real test too.
* `TestEnds`: the test reaches its end whatever is lost, dropped or not running.
* `FleetInv`: types, and what the filters have said of the packet under way.

### Bounds, and why they are enough

* `Gen`: objects one key, or one destination, may have at a time, those whose
  timers still run included. An identity is used again when nothing refers to
  it. Two are needed for a stale callback to meet a successor, which is the case
  of `key_store_unique`, `key_store_shared` and `key_store_live`; a third object
  has no new relation to either. `key_store_read`, with one object, asks
  about other things and reaches it again after it is free.
* `MaxFired = 1`: callbacks of one object that wait for the mutex. The
  callbacks of one object are the same; a second one finds what the first left.
* Packets: a packet is written once, and is then used up, so that runs end.
  Two to one destination are enough for a replacement and for a flush that
  meets a new packet; a third goes to the subnet so that `update` flushes two.
  In `key_store_read` an answer to an oversized frame is one of the packets, and
  a reader whose answer is used up waits, which only removes behaviours.
* Keys: two, to collide and to differ in what the filter allows.
* `MaxMTU`: one above the smallest MTU, so that a frame can lie between the two.
* `UpToThree` keys of the filter: a match before, at and after a nil pointer.
* `MaxLives = 3`: an entry left by one launch, a launch that meets it, and one
  after it. The theorems have no such bound.
* `MaxMade = 6`: two full starts with a part to spare. `New` is not called when
  the bound is reached, which the properties do not need.
* `File` and `Flag` of the client: one kind of file for each branch of
  `setEndpoint` and of the node's reading of it, one kind of flag for each way to
  dial. `unix` and `tcp` are alike as a file's endpoint; the run has `tcp`, which
  differs from the default.
* `MaxRuns = 2`: one run over the files of another, or one run and one file by
  another way; `DialsAccepted` and `RevokedCutOff` need no third. `Order`: all three
  nodes, so that every pair is pinged in both directions, and the test may take its
  pass at any time before, between and after the runs. The lists: with two that
  listen, so that a listener has another that it does not dial. `Peer`: three, of which a run may see fewer; with
  exactly three, no run has a choice, and none of the properties depends on it.
* `MaxLost = 1`: a request or a reply, of any pair. A second loss is as the first, at
  a later pair. The theorems have none of these bounds.
* `CHECK_DEADLOCK FALSE`: all calls of the key store end after `Close`; a panic
  of the filter or the application is final; the node's launches
  are bounded; a fleet stops where the test is over, no run is left and no file
  can be launched.
* Symmetry: only in runs without liveness, over objects and writers.

### Fairness

* *Key store.* `Continue` of each goroutine in the middle of a call, since the Go
  scheduler runs every goroutine that can run and a call to the core returns;
  firing and callback of every timer, since the runtime fires them, and
  `sync.Mutex` does not starve a waiter. Writes, frames, notifications and
  `Close` come from outside and are not assumed.
* *Node.* `Main` and `Child`: the goroutines run, `New` and `Stop` of the parts
  return and `scutil` ends. The last is an assumption about a program that the
  code runs without a timeout, and `EveryStopEnds` rests on it. Signals, launches
  and the callback are not assumed.
* *Client.* `Continue`: the client's process runs, a dial ends, and the end of the
  node's process closes its connections. That the node answers a request, or that
  its library closes connections when it is told to stop, is not assumed, so that
  `WaitEnds` rests on `EveryStopEnds`.
* *Fleet.* `Exchange`: the test goes on to the next pair, its timeout ends a ping
  that nothing answers, and a packet that is not lost arrives. A packet that is slow
  is one that `Lose` takes. Launches, runs of the generator and losses are not
  assumed, and no number of them holds the test up.
* *Mobile.* `RecvError` only: a read of a stopped core returns its error.

## 4. The proofs

TLAPS checks them for every value of the constants that satisfies the named
assumptions: `KeyStoreAssumption` (the types of the constants, addresses and
subnets disjoint, `None` outside), `FilterAssumption`, `NodeAssumption`,
`ClientAssumption`, `ConfigsAssumption` (a key of the right length has a public
key) and `FleetAssumption`. Two statements need more, and have it as a hypothesis
of their own: `UniqueOwners` for what holds only where no two keys own one
destination, `UniqueLists` for `DialsSafe`.

**KeyStoreProofs.** `Invariance == Spec => []Inv`, for any keys (colliding subnets
included), destinations, packets, goroutines and objects. `Inv` is what the runs
check with five parts added, because the properties are not inductive alone:

* `CallsReady`: a goroutine has the locals of its next call, and a frame that is
  going to be checked is for this node. Without it `Check` could deliver any
  frame, and `DeliveredAllowed` would not be preserved.
* `HeldForOwner` and `HeldOnce`: every packet that is kept or taken is pending,
  in one place, under its destination, and goes to an owner. `WrittenOnce` and
  `WrittenToOwner` follow when `WriteTo` takes one, but only from these.
* `OutWhileWriting`: a goroutine has packets in its hands only between the unlock
  and its last `core.WriteTo`. The refinement needs it: else a packet could be
  out and yet nobody be about to write it.
* `AcceptedOK`: what `writePC` accepted it may accept, so that what is on the
  wire passed the filter (`FilterOutbound`).

The proof has one lemma per part and step: `RoutesAgreeStep` (an eviction removes
from the maps exactly what the object owned), `EntriesExpireStep` (a timer stays
live until its callback removes what it stands for), `PacketsStep` (where a
packet goes), joined in `StepInv`. From it follow `TypeCorrect`, `RoutingSafe`,
`KeepingSafe`, `ExpirySafe`, `WritingSafe`, `OwnersOnly`, `FilterOutbound` and
`FilterInbound`.

**KeyStoreSteps.** About steps, from `Inv`: `EvictionSafe` (only `Without` removes an
entry, and only its own object's) and `LeavingSafe` (three actions change a buffer,
one for each way out).

*The refinement*, `TunnelSafe`: `Spec => ImplementsTunnel`. `HeldFate` says that the
mapping calls a packet held just when it is kept or outgoing. Then one lemma per
kind of step: `AcceptRefines` (a packet is accepted, and at most the one it
replaces is lost), `RefuseRefines`, `TakeRefines` (`update` moves packets from
buffers to a goroutine, which `Tunnel` does not see), `WriteRefines` (a
transmission, or a loss once the core is closed), `ExpireRefines` (a loss),
`CheckRefines` (a delivery, or nothing); `RunStutters` and `TunnelStutters` for
the others. `TunnelStep` joins them. `HeldOnce` is what makes it work: an expiry, a
replacement or a write concerns one packet, so that it is one step of `Tunnel`.
Of the refinement comes `FateIsFinal`: in `Tunnel` no action leaves sent, lost or
refused, so no interleaving below does.

*Unique owners.* `UniqueInvariance` adds `KeyLeads`
(an entered key is what both its destinations lead to) and `KeptAwaitsAnswer`
to `Inv`. Neither holds where subnets collide, so `UniqueOwners` is an assumption
of these theorems, stated in each, and not of the module. `KeyLeads` with
`RoutesAgree` and `KeptOnlyWhileUnknown` gives `KnownSafe`. `AwaitsSafe` goes step
by step: a packet is kept by the goroutine that then makes the lookup; the answer
consumes the lookup as it starts `update`; and `update` of an owner takes the
packet, because its key cannot be there already (`KeyLeads`).

*Toward liveness.* `HeldIsMoved`: a held packet has a goroutine that is about to
write it or a live timer. `ClosedDrains`: after `Close` the goroutines before
`update` and the packets that are new only become fewer, and a step that uses up
neither of them only removes entries and does not raise `Work`, the callbacks and
firings a timer has before it. So what fills the maps or starts a timer after
`Close` is bounded by what was under way.

**FilterProofs.** `TypeCorrect`, `FilterCorrect` and `PanicsExplained`: answers
are membership and panics are explained for lists of any length. Its invariant
says what the loops have done so far: the slice holds the decoded keys in order,
and the pointers before `i` were neither nil nor the address.

**NodeProofs.** The invariant says for each step of main which parts can run
(`PartsInv`), which privileges are gone (`CredsInv`) and whether this launch's
entry can exist (`EntriesInv`). From it `PartsSafe`, `PrivilegesDropped`,
`EntryRemoved` and `CallbackSafe`, for any number of launches. `Remaining` is a
measure of what a process has before it: four times the steps of main, in the
order of the code, and the steps of the child and its writer. `EveryStepNears`:
every step of `Main` and of `Child` lowers it, and no signal, service call or kill
raises it. `NeverStuck`: it is 0 just when the process is gone, and main waits
for `cmd.Run` only while there is a call (`ScutilInv`).

**ClientProofs.** The client changes nothing of the node, so each of its steps
keeps the node's invariant, and `NodeSafe` restates what `NodeProofs` has for the
two together; `ClientImplementsNode` says so of whole behaviours. `Chosen` (a
client that dials has the endpoint of its flag and file) gives `FindsSafe`.
`GoneForGood`: a connection to a process that is gone stays one, since only a
launch brings a process back, and it has a number of its own (`LivesCount`).

**MobileProofs.** `MInv` adds to the other properties: `Parts` (the core, the
multicast and the TUN are different parts, and `iprwc` implies a core), `Serves`
(between which steps `m.iprwc` is the running core), `Turns` (for each step of
`StartJSON` and `Stop`, which fields can hold what runs), `CrashedAtRest` and
`Checked` (a sender or receiver between its two reads has an `m.iprwc` to find,
because no step of the control thread sets it to nil).
`Turns` is where the order of `Stop` matters: after an error the parts before it
are down and the rest is still reachable. From it `NothingIsLost`,
`StopIsWhole`, `ServesSafe` and `PanicsSafe`; the panics of `Send` and `Recv` are
out of reach by `Uses` (the second read finds what the first found). `ReadsFail`
adds `StaleReads`: while no start has returned nil, neither what `m.iprwc` names nor
what a receiver reads from runs, also while the next start is making a core, which
is always a new one.

**ConfigsProofs.** `FilesAgree` is not inductive: a file that is written next must
agree with those already there. `BatchFiles` says that every file of this batch
was written for an entry before `next`, the last one of its name so far, with that
entry's lists; then two files of one list agree because each entry is among the
other's `Others` (`EntriesListed`). `RunsPassed` keeps a new batch apart from older
files. `EntriesWritten` with `Position` gives `RunIsWhole`. Names need not be
unique for any of this: where one stands twice, the later entry empties the file
and writes it again, which `EntriesWritten` and `RunIsWhole` allow for. Only what a
file dials is about names that lead to one entry (`DialledFacts`), so `DialsStep`,
`UniqueStep` and the theorem `DialsSafe` of `FleetProofs` assume `UniqueLists`.

**FleetProofs.** `LoadedOK` (a running node's list is in `trust`) and `ProbeOK` (behind
a reply is a node that trusted the source, also if it runs with another list by
now) make `AnswersAreMutual` inductive. `RevokedSafe` is an action property: in a
renewed fleet every node's list is that of its file (`RenewedLists`, from
`RunIsWhole`), and only `Answer` and `Receive` let anything pass, after asking that
list. The other direction, from `FilesAgree`: `MembersTalk` (two members of a renewed
fleet let each other pass). `CalmOK` carries this from the moment of the ping through
its steps, while files and lists may change: the packet is at one of the two, both
filters let it pass, and no other node takes it. Then a ping whose turn ends was
received (`ReceivedSafe`). `TestGoesAhead`: every step of the test brings `turn`
forward, or `probe` within its turn, and nothing throws them back; since there are
finitely many of both, the test has finitely many steps. `FleetImplementsConfigs`: the
directory does not notice the nodes.

**Only model-checked.** Liveness, since the prover has no rule for `WF_` and
`ENABLED` here. For each such property a theorem states what it rests on besides
fairness, and what is left to TLC is the argument from there to "in the end":

| property | proved of it | left to TLC |
|---|---|---|
| `PacketsSettle` | `HeldIsMoved`, `FateIsFinal` | that goroutines and timers get their turn |
| `DrainsAfterClose` | `ExpirySafe`, `ClosedDrains` | the same |
| `EveryStopEnds` | `EveryStepNears`, `NeverStuck` | that a process that was told always has a step to take |
| `WaitEnds` | `GoneForGood` | that the node's end comes |
| `RecvReturns` | `ReadsFail` | that the read returns its error |
| `TestEnds` | `TestGoesAhead` | that the test has a step to take until it is over |

The four runs that expect a violation are counterexamples, and have no theorem.

## 5. Not modelled

* Fetching and parsing the page of public peers, their latencies, and how peers
  that answer are counted: `PingPeers` is any subset. This is why public peers are
  "partly" modelled.
* How the configuration of a `-genconf` is refused has no property: it would
  restate `OwnConfigsStart` for another program. The files are there in
  every behaviour of `Fleet`, by `GenConf` and `NormaliseConf`, and cannot be
  launched.
* What a file dials when a list has a name twice. The input's comment asks for
  unique names (`cmd/genconfigs/main.go:18`) and nothing checks it; the second file
  then overwrites the first, and neither entry lists the other, which the model
  follows and the proofs allow. But `dials` holds names where the code writes
  addresses, so that two listeners of one name are not told apart, and the
  lists that TLC is given have each name once.
* That listeners are connected to each other. The comment at
  `cmd/genconfigs/main.go:20` can be read so; a node that listens is given public
  peers only, and two of them meet through those. Paths are the library's matter.
* The mobile platform glue and build scripts: they keep no state and have one
  order of steps. What the admin client prints.
* `architecture/device-addition-handshake.md`: a sketch with no code behind it.
* The library's parts from the inside, `net`, `scutil` and the service manager
  beyond what they call and answer; the lookup of users and groups in chuser;
  log output.

## 6. What the code and its texts disagree about

* `TrafficToAllowedOnly` (run `key_store_subnet_out`). `src/config/config.go:14`
  calls the option a "List of peer public keys to allow ipv6 traffic to/from on
  the tunnel". `writePC` asks the filter for destinations in 200::/8 only
  (`ipv6rwc.go:314`); a packet to a subnet in 300::/8 goes to its owner, listed
  or not (`ipv6rwc.go:318`).
* `TrafficFromAllowedDelivered` (run `key_store_subnet_in`). The same line, the
  other way: `readPC` accepts a source in the sender's subnet and then asks the
  filter, which holds addresses, for it (`ipv6rwc.go:283`), so a listed key's
  traffic from its subnet is always dropped.
* `OwnConfigsStart` (run `mobile_own_configs`). `contrib/mobile/mobile.go:38` says
  that `StartAutoconfigure` "starts a node with a randomly generated config", and
  lines 43-44 that `StartJSON` takes what `GenerateConfigJSON` returns.
  Neither configuration has allowed keys, `UnmarshalHJSON` refuses both, and
  `StartJSON` panics at line 59.

* `FatalIsTold` (run `client_exit`). `cmd/yggdrasilctl/main.go:32` says that
  `os.Exit(run())` "makes sure we can use defer and still return an error code to
  the OS". The deferred function returns 1 to nobody (line 44); after any panic, a
  node that cannot be dialled included, the client prints "Fatal error" and exits
  with 0.

## 7. Plan

In this order; the most important behaviour of the running system came first.

1. **KeyStore** with `Tunnel`, **Filter**, **Node**, **Mobile**: done, as above.
2. **Configs** and **Fleet**: done. `Client` beside `Node`: done.
3. **Proofs**: done for every safety and action property of the runs and for the
   refinement, and for the safety half of each liveness property.
4. **Left.** For `EveryStopEnds`, the guards of `Main` and `Child` as one state
   predicate that holds of every process that was told. `DialsSafe` without
   `UniqueLists`, which takes addresses in place of names in `dials`. A `Fleet`
   whose nodes are instances of `Tunnel` instead of a membership test, with
   several packets under way at a time. The parsing of the public peers' page, if
   it comes to keep state.
