------------------------------- MODULE Mobile -------------------------------
(***************************************************************************)
(* The binding for mobile applications: contrib/mobile/mobile.go and       *)
(* TakeOverTUN of mobile_apple.go.                                         *)
(*                                                                         *)
(* One Yggdrasil object m has no lock.  A control thread of the            *)
(* application calls StartJSON, TakeOverTUN and Stop, one after the other; *)
(* a sender and a receiver call Send and Recv at any moment.  A panic      *)
(* anywhere is the end of the application.                                 *)
(***************************************************************************)
EXTENDS Naturals

CONSTANTS
  Config,        \* what StartJSON is called with, of AnyConfig
  MaxMade        \* bound: cores, multicast modules and TUNs made

AnyConfig ==
  {"empty",       \* "{}", from StartAutoconfigure
   "generated",   \* what GenerateConfigJSON returned
   "garbage",     \* no HJSON
   "malformed",   \* lists an allowed key that is not hex
   "quiet",       \* lists allowed keys, and no multicast interface
   "full"}        \* lists allowed keys, and has multicast interfaces

ASSUME MobileAssumption ==
  /\ Config \subseteq AnyConfig
  /\ MaxMade \in Nat

Required == {"malformed", "quiet", "full"}   \* with FilterAllowedPublicKeys
Multicasting == AnyConfig \ {"garbage", "quiet"}

VARIABLES
  inTurn,    \* the control thread starts and stops by turns, and takes over one
             \* TUN per start; otherwise it calls in any order
  m,         \* fields of the object: numbers of parts, 0 for nil; the iprwc has
             \* the number of its core
  made,      \* parts made so far
  running,   \* numbers of the parts that run
  control,   \* where the control thread is: the step of the call, its config
  session,   \* StartJSON has returned nil, and since then no Stop has: "none",
             \* "open", or "tun" if TakeOverTUN has been called too
  sending,   \* the sender: "idle", "checked" or "panicked"
  receiving, \* the receiver: the same or "reading", and from which iprwc
  crashed    \* a call panicked

vars == <<inTurn, m, made, running, control, session, sending, receiving, crashed>>
app == <<inTurn, sending, receiving>>

Idle == [at |-> "idle", config |-> "none"]

Init ==
  /\ inTurn \in BOOLEAN
  /\ m = [core |-> 0, iprwc |-> 0, multicast |-> 0, tun |-> 0]
  /\ made = 0 /\ running = {}
  /\ control = Idle /\ session = "none"
  /\ sending = "idle" /\ receiving = [at |-> "idle", iprwc |-> 0]
  /\ crashed = FALSE

-----------------------------------------------------------------------------

At(step) == ~crashed /\ control.at = step
Goto(step) == control' = [control EXCEPT !.at = step]

\* The call panics, and nothing of the application is left.
Crash ==
  /\ crashed' = TRUE
  /\ running' = {}
  /\ UNCHANGED <<m, made, control, session, app>>

\* New of a part succeeds, and the field f holds it.
Make(f) ==
  /\ made < MaxMade
  /\ made' = made + 1
  /\ m' = [m EXCEPT ![f] = made + 1]
  /\ running' = running \cup {made + 1}

\* New of a part fails: the field holds nil, or a part that does not run.
MakeFails(f) ==
  /\ \/ m' = [m EXCEPT ![f] = 0] /\ UNCHANGED made
     \/ made < MaxMade /\ made' = made + 1 /\ m' = [m EXCEPT ![f] = made + 1]
  /\ UNCHANGED running

NoPart == UNCHANGED <<m, made, running>>

-----------------------------------------------------------------------------
(* StartJSON.                                                              *)

CallStart(c) ==
  /\ At("idle") /\ (inTurn => session = "none")
  /\ control' = [at |-> "config", config |-> c]
  /\ NoPart
  /\ UNCHANGED <<session, app, crashed>>

\* The node's configuration is refused with an error, the manager's with a panic.
RefuseConfig ==
  /\ At("config") /\ control.config = "garbage"
  /\ control' = Idle
  /\ NoPart
  /\ UNCHANGED <<session, app, crashed>>

RequireKeys ==
  /\ At("config") /\ control.config \notin Required \cup {"garbage"}
  /\ Crash

AcceptConfig ==
  /\ At("config") /\ control.config \in Required
  /\ Goto("core")
  /\ NoPart
  /\ UNCHANGED <<session, app, crashed>>

NewCore ==
  /\ At("core")
  /\ Make("core")
  /\ Goto("multicast")
  /\ UNCHANGED <<session, app, crashed>>

CoreFails ==
  /\ At("core")
  /\ Crash

Mutant_NewMulticast_Shadowed ==
  /\ At("multicast") /\ control.config \in Multicasting
  /\ made < MaxMade /\ made' = made + 1
  /\ running' = running \cup {made + 1}
  /\ Goto("filter")
  /\ UNCHANGED <<m, session, app, crashed>>
\* A failure is logged.
NewMulticast ==
  /\ At("multicast") /\ control.config \in Multicasting
  /\ Make("multicast") \/ MakeFails("multicast")
  /\ Goto("filter")
  /\ UNCHANGED <<session, app, crashed>>

\* regexp.MustCompile panics on a configured pattern.
BadInterface ==
  /\ At("multicast") /\ control.config \in Multicasting
  /\ Crash

\* The field keeps what an earlier start put there.
NoMulticast ==
  /\ At("multicast") /\ control.config \notin Multicasting
  /\ Goto("filter")
  /\ NoPart
  /\ UNCHANGED <<session, app, crashed>>

Mutant_FilterFails_Returns ==
  /\ At("filter") /\ control.config = "malformed"
  /\ control' = Idle
  /\ NoPart
  /\ UNCHANGED <<session, app, crashed>>
FilterFails ==
  /\ At("filter") /\ control.config = "malformed"
  /\ Crash

Mutant_Publish_Once ==
  /\ At("filter") /\ control.config # "malformed"
  /\ m' = [m EXCEPT !.iprwc = IF @ = 0 THEN m.core ELSE @]
  /\ control' = Idle /\ session' = "open"
  /\ UNCHANGED <<made, running, app, crashed>>
\* NewReadWriteCloser and its MTU; StartJSON returns nil.
Publish ==
  /\ At("filter") /\ control.config # "malformed"
  /\ m' = [m EXCEPT !.iprwc = m.core]
  /\ control' = Idle /\ session' = "open"
  /\ UNCHANGED <<made, running, app, crashed>>

-----------------------------------------------------------------------------
(* TakeOverTUN and Stop.                                                   *)

CallTakeOver ==
  /\ At("idle") /\ (inTurn => session = "open")
  /\ Goto("tun")
  /\ session' = IF session = "open" THEN "tun" ELSE session
  /\ NoPart
  /\ UNCHANGED <<app, crashed>>

\* TakeOverTUN returns the error of tun.New, if any.
TakeOver ==
  /\ At("tun") /\ m.iprwc # 0
  /\ Make("tun") \/ MakeFails("tun")
  /\ control' = Idle
  /\ UNCHANGED <<session, app, crashed>>

TakeOverNothing ==
  /\ At("tun") /\ m.iprwc = 0
  /\ Crash

CallStop ==
  /\ At("idle") /\ (inTurn => session # "none")
  /\ Goto("stop multicast")
  /\ NoPart
  /\ UNCHANGED <<session, app, crashed>>

\* Stop of multicast, and of the TUN, or nothing where the field is nil.
Mutant_StopPart_Forgets(step, f, next) ==
  /\ At(step)
  /\ running' = running
  /\ Goto(next)
  /\ UNCHANGED <<m, made, session, app, crashed>>
StopPart(step, f, next) ==
  /\ At(step)
  /\ running' = running \ {m[f]}
  /\ Goto(next)
  /\ UNCHANGED <<m, made, session, app, crashed>>

Mutant_StopFails_Closes(step, f) ==
  /\ At(step) /\ m[f] # 0
  /\ control' = Idle /\ session' = "none"
  /\ NoPart
  /\ UNCHANGED <<app, crashed>>
\* Its error is returned, and what comes after it is not stopped.
StopFails(step, f) ==
  /\ At(step) /\ m[f] # 0
  /\ control' = Idle
  /\ NoPart
  /\ UNCHANGED <<session, app, crashed>>

Mutant_StopCore_ClearsIprwc ==
  /\ At("stop core") /\ m.core # 0
  /\ running' = running \ {m.core}
  /\ m' = [m EXCEPT !.iprwc = 0]
  /\ control' = Idle /\ session' = "none"
  /\ UNCHANGED <<made, app, crashed>>
\* The fields keep what is stopped.
StopCore ==
  /\ At("stop core") /\ m.core # 0
  /\ running' = running \ {m.core}
  /\ control' = Idle /\ session' = "none"
  /\ UNCHANGED <<m, made, app, crashed>>

StopNothing ==
  /\ At("stop core") /\ m.core = 0
  /\ Crash

\* RetryPeersNow, GetAddressString and the others that ask the core.
AskNothing ==
  /\ At("idle") /\ ~inTurn /\ m.core = 0
  /\ Crash

-----------------------------------------------------------------------------
(* Send and SendBuffer, Recv and RecvBuffer.  The field is read once for   *)
(* the check, and again for the call, which panics where it finds nil.     *)

Dereference ==
  /\ crashed' = (m.iprwc = 0)
  /\ running' = IF m.iprwc = 0 THEN {} ELSE running

CallSend ==
  /\ ~crashed /\ sending = "idle" /\ m.iprwc # 0
  /\ sending' = "checked"
  /\ NoPart
  /\ UNCHANGED <<inTurn, control, session, receiving, crashed>>

\* Write of KeyStore.tla; its error is dropped.
Send ==
  /\ ~crashed /\ sending = "checked"
  /\ sending' = IF m.iprwc = 0 THEN "panicked" ELSE "idle"
  /\ Dereference
  /\ UNCHANGED <<inTurn, m, made, control, session, receiving>>

CallRecv ==
  /\ ~crashed /\ receiving.at = "idle" /\ m.iprwc # 0
  /\ receiving' = [at |-> "checked", iprwc |-> 0]
  /\ NoPart
  /\ UNCHANGED <<inTurn, control, session, sending, crashed>>

Recv ==
  /\ ~crashed /\ receiving.at = "checked"
  /\ receiving' = [at |-> IF m.iprwc = 0 THEN "panicked" ELSE "reading", iprwc |-> m.iprwc]
  /\ Dereference
  /\ UNCHANGED <<inTurn, m, made, control, session, sending>>

\* Read of KeyStore.tla has a packet, or an error since its core is stopped.
RecvPacket ==
  /\ ~crashed /\ receiving.at = "reading" /\ receiving.iprwc \in running
  /\ receiving' = [at |-> "idle", iprwc |-> 0]
  /\ NoPart
  /\ UNCHANGED <<inTurn, control, session, sending, crashed>>

RecvError ==
  /\ ~crashed /\ receiving.at = "reading" /\ receiving.iprwc \notin running
  /\ receiving' = [at |-> "idle", iprwc |-> 0]
  /\ NoPart
  /\ UNCHANGED <<inTurn, control, session, sending, crashed>>

Next ==
  \/ \E c \in Config : CallStart(c)
  \/ RefuseConfig \/ RequireKeys \/ AcceptConfig
  \/ NewCore \/ CoreFails \/ NewMulticast \/ BadInterface \/ NoMulticast
  \/ FilterFails \/ Publish
  \/ CallTakeOver \/ TakeOver \/ TakeOverNothing
  \/ CallStop \/ StopCore \/ StopNothing \/ AskNothing
  \/ StopPart("stop multicast", "multicast", "stop tun")
  \/ StopPart("stop tun", "tun", "stop core")
  \/ StopFails("stop multicast", "multicast")
  \/ StopFails("stop tun", "tun")
  \/ CallSend \/ Send \/ CallRecv \/ Recv \/ RecvPacket \/ RecvError

Spec == Init /\ [][Next]_vars

\* A read that has an error to return returns: nothing holds it back.
FairSpec == Spec /\ WF_vars(RecvError)

-----------------------------------------------------------------------------

TypeOK ==
  /\ m \in [core : 0 .. made, iprwc : 0 .. made, multicast : 0 .. made, tun : 0 .. made]
  /\ made \in Nat
  /\ running \subseteq 1 .. made
  /\ control \in [at : {"idle", "config", "core", "multicast", "filter", "tun",
                        "stop multicast", "stop tun", "stop core"},
                  config : AnyConfig \cup {"none"}]
  /\ session \in {"none", "open", "tun"}
  /\ sending \in {"idle", "checked", "panicked"}
  /\ receiving \in [at : {"idle", "checked", "reading", "panicked"}, iprwc : 0 .. made]
  /\ crashed \in BOOLEAN

\* A part that runs is one that a field of m holds, so that Stop can reach it.
NothingLost == inTurn => running \subseteq {m.core, m.multicast, m.tun}

\* When Stop has returned nil nothing runs, also if an earlier Stop returned an
\* error half-way, or fields still hold parts of an earlier start.
StopLeavesNothing == inTurn /\ session = "none" /\ At("idle") => running = {}

\* Between StartJSON and Stop, in whatever order they are called, Send and Recv
\* use the core that runs, never that of an earlier start.
ServesCurrent == session # "none" /\ At("idle") => m.iprwc = m.core /\ m.iprwc \in running

StartSteps == {"config", "core", "multicast", "filter"}

\* Where Send and Recv found m.iprwc, they find it again: no start and no stop that
\* comes between the two reads sets it to nil.
SecondReadFinds == sending # "panicked" /\ receiving.at # "panicked"

\* The control thread finds nil only before the first StartJSON that returned nil, and
\* by turns never.
ControlFinds == crashed /\ control.at \notin StartSteps => ~inTurn /\ m.iprwc = 0

\* Nothing but a start panics, once one has returned nil: no start and no stop, at
\* whatever step they are or have failed, leaves nil in a field that Stop, Send, Recv,
\* TakeOverTUN or a call that asks the core is going to use.
OnlyStartPanics == SecondReadFinds /\ ControlFinds

\* A Recv that waits when Stop returns nil does not wait for ever.
RecvReturns ==
  inTurn /\ session = "none" ~>
    receiving.at # "reading" \/ session # "none" \/ crashed

-----------------------------------------------------------------------------
(* Why they hold.                                                          *)

\* A part has a number of its own, and where a field holds no core none ever did.
Parts ==
  /\ m.iprwc # 0 => m.core # 0
  /\ m.core # 0 => m.multicast # m.core /\ m.tun # m.core

\* The core runs, from NewCore until StopCore; Send and Recv use it but for the
\* steps of StartJSON that come between NewCore and Publish.
Serves ==
  ~crashed =>
    IF control.at \in {"multicast", "filter"} THEN m.core \in running
    ELSE session # "none" => m.iprwc = m.core /\ m.core \in running

\* By turns, each step leaves only so many of the fields with parts that run.
Turns ==
  inTurn /\ ~crashed =>
    /\ control.at \in StartSteps => session = "none"
    /\ control.at = "tun" => session = "tun"
    /\ control.at \in {"stop multicast", "stop tun", "stop core"} => session # "none"
    /\ control.at \in {"idle", "config", "core"} /\ session = "none" => running = {}
    /\ control.at = "multicast" => running \subseteq {m.core}
    /\ control.at = "filter" => running \subseteq {m.core, m.multicast}
    /\ session = "open" \/ control.at = "tun" => running \subseteq {m.core, m.multicast}
    /\ session = "tun" => running \subseteq {m.core, m.multicast, m.tun}
    /\ control.at = "stop tun" => running \subseteq {m.core, m.tun}
    /\ control.at = "stop core" => running \subseteq {m.core}

CrashedAtRest == crashed => running = {}

\* A field that was found stays until it is used.
Checked == sending = "checked" \/ receiving.at = "checked" => m.iprwc # 0

\* The invariant that the proofs use: what StartJSON and Stop leave in the fields and
\* running at each of their steps, for the calls that come next.
MInv ==
  /\ TypeOK /\ Parts /\ Serves /\ Turns /\ CrashedAtRest /\ Checked
  /\ ControlFinds /\ SecondReadFinds

-----------------------------------------------------------------------------
(* What the documentation says of two configurations, and the code does    *)
(* not do.                                                                 *)

\* "StartAutoconfigure starts a node with a randomly generated config", and
\* StartJSON may be given "JSON config ... by using the GenerateConfigJSON()
\* function": such a start does not panic while it reads the configuration.
OwnConfigsStart ==
  control.config \in {"empty", "generated"} => ~(crashed /\ control.at = "config")
=============================================================================
