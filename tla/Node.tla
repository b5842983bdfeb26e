-------------------------------- MODULE Node --------------------------------
(***************************************************************************)
(* The life of a node: src/cmd/yggdrasil/main.go from the parsed flags to  *)
(* the end of the process, with chuser (chuser_unix.go, chuser_other.go)   *)
(* and the DNS workaround (src/dns), whose entry in the system's           *)
(* configuration outlives the process.                                     *)
(*                                                                         *)
(* The main goroutine starts the parts in one order and stops them in      *)
(* another.  Signals, the service control manager of Windows, the death of *)
(* the process and the scutil children interleave with each of its steps.  *)
(* The parts themselves are the library's; here they run or do not.        *)
(***************************************************************************)
EXTENDS Naturals, FiniteSets

CONSTANTS
  Platforms,   \* of "darwin", "unix" and "windows", those to consider
  MaxLives     \* bound: times the program is launched

ASSUME NodeAssumption ==
  /\ Platforms \subseteq {"darwin", "unix", "windows"}
  /\ MaxLives \in Nat

VARIABLES
  platform,
  life,      \* launches so far; also the serviceId of this launch's DnsManager
  phase,     \* "none" without a process; then "start", "wait", "stop", and
             \* "return" or "panic" once the deferred close(done) has run
  at,        \* the step of main in "start" and "stop"
  running,   \* the parts that run
  told,      \* ctx is done: latched by NotifyContext, also before main waits
  done,      \* the channel done is closed
  onExit,    \* "unset", "set", or the callback is "waiting" or has "returned"
  user,      \* -user was given
  creds,     \* the process's groups, gid and uid: as it began, or those given
  scutil,    \* the last scutil: "idle" before the first, "pending", "running",
             \* then "obeyed" or "failed"
  writer,    \* the goroutine that feeds it: "off" or "writing"
  doomed,    \* a writer was left with a closed pipe
  entries    \* DNS entries in the system's configuration, by serviceId

proc == <<phase, at, running, done>>
dns == <<scutil, writer, doomed, entries>>
vars == <<platform, life, proc, told, onExit, user, creds, dns>>

Part == {"core", "admin", "multicast", "tun"}

\* Parts that the configuration can turn off.
Optional == {"admin", "multicast", "tun"}

Cred == {"groups", "gid", "uid"}
Initial(uid) == [c \in Cred |-> IF c = "uid" THEN uid ELSE "old"]

Init ==
  /\ platform \in Platforms
  /\ life = 0
  /\ phase = "none" /\ at = "none" /\ running = {} /\ done = FALSE
  /\ told = FALSE /\ onExit = "unset"
  /\ user = FALSE /\ creds = Initial("root")
  /\ scutil = "idle" /\ writer = "off" /\ doomed = FALSE /\ entries = {}

-----------------------------------------------------------------------------
(* The order of main.                                                      *)

AfterStart(s) ==
  CASE s = "config"    -> "core"
    [] s = "core"      -> "admin"
    [] s = "admin"     -> "multicast"
    [] s = "multicast" -> "tun"
    [] s = "tun"       -> "dns"
    [] s = "dns"       -> "onexit"
    [] s = "scutil"    -> "onexit"
    [] s = "onexit"    -> IF user THEN "groups" ELSE "pledge"
    [] s = "groups"    -> "gid"
    [] s = "gid"       -> "uid"
    [] s = "uid"       -> "pledge"

Mutant_AfterStop_CoreFirst(s) ==
  CASE s = "admin"     -> "multicast"
    [] s = "multicast" -> "core"
Mutant_AfterStop_CleanupAside(s) ==
  CASE s = "admin"     -> "multicast"
    [] s = "multicast" -> "tun"
    [] s = "tun"       -> "core"
Mutant_AfterStop_StartOrder(s) ==
  CASE s = "admin"     -> "multicast"
    [] s = "multicast" -> "tun"
    [] s = "tun"       -> "dns"
    [] s = "dns"       -> "onexit"
    [] s = "scutil"    -> "onexit"
AfterStop(s) ==
  CASE s = "admin"     -> "multicast"
    [] s = "multicast" -> "tun"
    [] s = "tun"       -> "dns"
    [] s = "dns"       -> "core"
    [] s = "scutil"    -> "core"

\* Main goes on to the next step of its phase.
Advance ==
  /\ at' = IF phase = "start" THEN AfterStart(at) ELSE AfterStop(at)
  /\ UNCHANGED <<phase, done>>

-----------------------------------------------------------------------------
(* The process begins and ends.                                            *)

Launch(u, uid) ==
  /\ phase = "none" /\ life < MaxLives
  /\ life' = life + 1
  /\ phase' = "start" /\ at' = "config" /\ running' = {} /\ done' = FALSE
  /\ told' = FALSE /\ onExit' = "unset"
  /\ user' = u /\ creds' = Initial(uid)
  /\ scutil' = "idle" /\ writer' = "off" /\ doomed' = FALSE
  /\ UNCHANGED <<platform, entries>>

\* The system takes back everything the process had; entries stay.
Gone ==
  /\ phase' = "none" /\ at' = "none" /\ running' = {} /\ done' = FALSE
  /\ told' = FALSE /\ onExit' = "unset"
  /\ scutil' = "idle" /\ writer' = "off" /\ doomed' = FALSE
  /\ UNCHANGED <<platform, life, user, creds>>

\* The scutil child has its commands, and the end of its input.
Fed == scutil = "running" /\ writer = "off"
Effect == IF phase = "start" THEN entries \cup {life} ELSE entries \ {life}

\* The process ends at once.  A child that has its commands goes on without us.
Die ==
  /\ entries' \in {entries} \cup (IF Fed THEN {Effect} ELSE {})
  /\ Gone

\* SIGKILL, a crash of a part, or a service stop before SetOnExit.
Kill ==
  /\ phase # "none"
  /\ Die

\* main has returned or panicked, and its deferred calls are over.
Exit ==
  /\ phase \in {"return", "panic"}
  /\ UNCHANGED entries
  /\ Gone

\* The deferred close(done) runs when main returns, and when it panics.
Leave(how) ==
  /\ phase' = how /\ at' = "none"
  /\ done' = TRUE

-----------------------------------------------------------------------------
(* Starting.                                                               *)

\* -useconf or -useconffile, and none of the options that only print.
ReadConfig ==
  /\ phase = "start" /\ at = "config"
  /\ Advance
  /\ UNCHANGED <<platform, life, running, told, onExit, user, creds, dns>>

\* -version, -genconf, -normaliseconf, -address, ..., or no option at all.
PrintOnly ==
  /\ phase = "start" /\ at = "config"
  /\ Leave("return")
  /\ UNCHANGED <<platform, life, running, told, onExit, user, creds, dns>>

Start(p) ==
  /\ phase = "start" /\ at = p
  /\ \/ running' = running \cup {p}
     \/ p \in Optional /\ UNCHANGED running
  /\ Advance
  /\ UNCHANGED <<platform, life, told, onExit, user, creds, dns>>

\* Reading the configuration, New of a part, regexp.MustCompile, NewFilter,
\* chuser or pledge fails, and main panics.  There is no recovery: neither Stop
\* nor Cleanup is called.
Fail ==
  /\ phase = "start" /\ at \in {"config", "pledge"} \cup Part \cup Cred
  /\ Leave("panic")
  /\ UNCHANGED <<platform, life, running, told, onExit, user, creds, dns>>

SetOnExit ==
  /\ phase = "start" /\ at = "onexit"
  /\ onExit' = "set"
  /\ Advance
  /\ UNCHANGED <<platform, life, running, told, user, creds, dns>>

\* A system call of chuser, which only root may make.  On Windows chuser always
\* fails.
Mutant_Drop_KeepsGroups(c) ==
  /\ phase = "start" /\ at = c
  /\ creds["uid"] = "root" /\ platform # "windows"
  /\ creds' = [creds EXCEPT ![c] = IF c = "groups" THEN @ ELSE "given"]
  /\ Advance
  /\ UNCHANGED <<platform, life, running, told, onExit, user, dns>>
Drop(c) ==
  /\ phase = "start" /\ at = c
  /\ creds["uid"] = "root" /\ platform # "windows"
  /\ creds' = [creds EXCEPT ![c] = "given"]
  /\ Advance
  /\ UNCHANGED <<platform, life, running, told, onExit, user, dns>>

Pledge ==
  /\ phase = "start" /\ at = "pledge"
  /\ phase' = "wait" /\ at' = "none"
  /\ UNCHANGED <<platform, life, running, done, told, onExit, user, creds, dns>>
-----------------------------------------------------------------------------
(* ForceResolution and Cleanup: runScutilCommand on darwin, else nothing.  *)

NoDNS ==
  /\ phase \in {"start", "stop"} /\ at = "dns" /\ platform # "darwin"
  /\ Advance
  /\ UNCHANGED <<platform, life, running, told, onExit, user, creds, dns>>

\* The call begins with the goroutine that will write the commands.  Without a
\* pipe there is neither.
RunScutil ==
  /\ phase \in {"start", "stop"} /\ at = "dns" /\ platform = "darwin"
  /\ \/ scutil' = "pending" /\ writer' = "writing" /\ at' = "scutil"
        /\ UNCHANGED <<phase, done>>
     \/ scutil' = "failed" /\ UNCHANGED writer /\ Advance
  /\ UNCHANGED <<platform, life, running, told, onExit, user, creds, doomed, entries>>

\* The writer of a call whose pipe is closed before it has written: its write
\* will fail, and it will panic.
Doom ==
  /\ doomed' = (doomed \/ writer = "writing")
  /\ writer' = "off"

Scutil(result) ==
  /\ scutil' = result
  /\ UNCHANGED <<platform, life, proc, told, onExit, user, creds>>

Spawn ==
  /\ scutil = "pending"
  /\ Scutil("running")
  /\ UNCHANGED <<writer, doomed, entries>>

\* cmd.Run cannot start the child, or the child ends without having obeyed.
ScutilFails ==
  /\ scutil \in {"pending", "running"}
  /\ Scutil("failed")
  /\ Doom
  /\ UNCHANGED entries

\* The pipe holds the commands, also before the child is there to read them.
Feed ==
  /\ writer = "writing"
  /\ writer' = "off"
  /\ UNCHANGED <<platform, life, proc, told, onExit, user, creds, scutil, doomed, entries>>

Obey ==
  /\ Fed
  /\ entries' = Effect
  /\ Scutil("obeyed")
  /\ UNCHANGED <<writer, doomed>>

\* cmd.Run returns; an error is logged.
ScutilReturns ==
  /\ at = "scutil" /\ scutil \in {"obeyed", "failed"}
  /\ Advance
  /\ UNCHANGED <<platform, life, running, told, onExit, user, creds, dns>>

\* A panic in a goroutine ends the process; main's deferred calls do not run.
WriterPanics ==
  /\ doomed
  /\ Die

-----------------------------------------------------------------------------
(* Being told to stop, and stopping.                                       *)

\* SIGINT or SIGTERM.  Later ones change nothing.
Signal ==
  /\ phase # "none"
  /\ told' = TRUE
  /\ UNCHANGED <<platform, life, proc, onExit, user, creds, dns>>

Mutant_ServiceStop_NoCancel ==
  /\ onExit = "set" /\ platform = "windows"
  /\ onExit' = "waiting"
  /\ UNCHANGED <<platform, life, proc, told, user, creds, dns>>
\* The service control manager runs the callback of SetOnExit.
ServiceStop ==
  /\ onExit = "set" /\ platform = "windows"
  /\ onExit' = "waiting" /\ told' = TRUE
  /\ UNCHANGED <<platform, life, proc, user, creds, dns>>

Mutant_CallbackReturns_AtOnce ==
  /\ onExit = "waiting"
  /\ onExit' = "returned"
  /\ UNCHANGED <<platform, life, proc, told, user, creds, dns>>
CallbackReturns ==
  /\ onExit = "waiting" /\ done
  /\ onExit' = "returned"
  /\ UNCHANGED <<platform, life, proc, told, user, creds, dns>>

Wake ==
  /\ phase = "wait" /\ told
  /\ phase' = "stop" /\ at' = "admin"
  /\ UNCHANGED <<platform, life, running, done, told, onExit, user, creds, dns>>

Stop(p) ==
  /\ phase = "stop" /\ at = p
  /\ running' = running \ {p}
  /\ IF p = "core" THEN Leave("return") ELSE Advance
  /\ UNCHANGED <<platform, life, told, onExit, user, creds, dns>>

Main ==
  \/ ReadConfig \/ PrintOnly \/ Fail
  \/ \E p \in Part : Start(p) \/ Stop(p)
  \/ NoDNS \/ RunScutil \/ ScutilReturns
  \/ SetOnExit \/ (\E c \in Cred : Drop(c)) \/ Pledge
  \/ Wake \/ Exit

\* The goroutine and the child of a call to scutil.
Child == Spawn \/ ScutilFails \/ Feed \/ Obey \/ WriterPanics

Next ==
  \/ \E u \in BOOLEAN, uid \in {"root", "other"} : Launch(u, uid)
  \/ Main \/ Child
  \/ Kill \/ Signal \/ ServiceStop \/ CallbackReturns

Spec == Init /\ [][Next]_vars

\* main and the writer are goroutines that the scheduler runs; of the parts it is
\* assumed that New and Stop return, and of scutil that it ends.
FairSpec == Spec /\ WF_vars(Main) /\ WF_vars(Child)

-----------------------------------------------------------------------------

StartSteps ==
  {"config", "dns", "scutil", "onexit", "pledge"} \cup Part \cup Cred
StopSteps == {"dns", "scutil"} \cup Part

TypeOK ==
  /\ platform \in Platforms
  /\ life \in Nat
  /\ phase \in {"none", "start", "wait", "stop", "return", "panic"}
  /\ phase = "start" => at \in StartSteps
  /\ phase = "stop" => at \in StopSteps
  /\ phase \notin {"start", "stop"} => at = "none"
  /\ running \subseteq Part
  /\ told \in BOOLEAN /\ done \in BOOLEAN
  /\ onExit \in {"unset", "set", "waiting", "returned"}
  /\ user \in BOOLEAN
  /\ creds \in [Cred -> {"old", "root", "other", "given"}]
  /\ scutil \in {"idle", "pending", "running", "obeyed", "failed"}
  /\ writer \in {"off", "writing"} /\ doomed \in BOOLEAN
  /\ entries \subseteq 1 .. life

\* The other parts hold the core: it is the first to run and the last to stop,
\* whatever fails or is told in between.
CoreOutlivesParts == running # {} => "core" \in running

\* With -user, main never gets past chuser with some of its privileges left: it
\* has given up all three, or it does not go on.
DropsAllOrNothing ==
  user /\ phase \in {"wait", "stop"} => \A c \in Cred : creds[c] = "given"

\* A node that stopped, and whose last scutil obeyed, leaves no DNS entry, also
\* if it was told to stop while it was starting.
CleanExit == phase = "return" /\ scutil = "obeyed" => life \notin entries

\* "Wait for all parts to shutdown properly": when the callback has returned,
\* and the service may be taken for stopped, no part runs, unless main panicked.
CallbackWaits == onExit = "returned" /\ phase # "panic" => running = {}

\* Being told to stop, by a signal at any moment or by the service control
\* manager, ends the process.
EveryStopEnds == (told \/ onExit = "waiting") ~> phase = "none"
=============================================================================
