----------------------------- MODULE NodeProofs -----------------------------
(***************************************************************************)
(* The safety of Node, for any number of launches, and the measure that    *)
(* every step of a process brings down.  The invariant follows             *)
(* main: which parts run at each of its steps, which privileges it still   *)
(* has, and whether this launch's DNS entry may exist.                     *)
(***************************************************************************)
EXTENDS Node, TLAPS

\* Parts that may run when main is about to take step s of stopping.
Left(s) ==
  IF s = "admin" THEN Part
  ELSE IF s = "multicast" THEN {"core", "multicast", "tun"}
  ELSE IF s = "tun" THEN {"core", "tun"}
  ELSE {"core"}

Begun == phase = "start" /\ at \notin {"config", "core"}

PartsInv ==
  /\ phase \in {"none", "return"} => running = {}
  /\ phase = "start" /\ ~Begun => running = {}
  /\ Begun \/ phase \in {"wait", "stop"} => "core" \in running
  /\ phase = "stop" => running \subseteq Left(at)
  /\ CoreOutlivesParts
  /\ done => phase \in {"return", "panic"}
  /\ onExit = "returned" => done

CredsInv ==
  /\ user /\ phase = "start" /\ at \in {"gid", "uid", "pledge"} => creds["groups"] = "given"
  /\ user /\ phase = "start" /\ at \in {"uid", "pledge"} => creds["gid"] = "given"
  /\ user /\ phase = "start" /\ at = "pledge" => creds["uid"] = "given"
  /\ DropsAllOrNothing

EntriesInv ==
  /\ IF phase = "none" THEN scutil = "idle" /\ doomed = FALSE ELSE life >= 1
  /\ platform # "darwin" => entries = {} /\ scutil = "idle"
  /\ phase = "start" /\ at = "config" => scutil = "idle"
  /\ phase = "stop" /\ at \in {"scutil", "core"} /\ scutil = "obeyed" => life \notin entries
  /\ CleanExit

Inv == TypeOK /\ PartsInv /\ CredsInv /\ EntriesInv

\* The order of main, step by step.
LEMMA StartOrder ==
  /\ AfterStart("config") = "core"
  /\ AfterStart("core") = "admin"
  /\ AfterStart("admin") = "multicast"
  /\ AfterStart("multicast") = "tun"
  /\ AfterStart("tun") = "dns"
  /\ AfterStart("dns") = "onexit"
  /\ AfterStart("scutil") = "onexit"
  /\ AfterStart("onexit") = IF user THEN "groups" ELSE "pledge"
  /\ AfterStart("groups") = "gid"
  /\ AfterStart("gid") = "uid"
  /\ AfterStart("uid") = "pledge"
<1>1. /\ AfterStart("config") = "core"
      /\ AfterStart("core") = "admin"
      /\ AfterStart("admin") = "multicast"
      /\ AfterStart("multicast") = "tun"
  BY Zenon DEF AfterStart
<1>2. /\ AfterStart("tun") = "dns"
      /\ AfterStart("dns") = "onexit"
      /\ AfterStart("scutil") = "onexit"
      /\ AfterStart("onexit") = IF user THEN "groups" ELSE "pledge"
  BY Zenon DEF AfterStart
<1>3. /\ AfterStart("groups") = "gid"
      /\ AfterStart("gid") = "uid"
      /\ AfterStart("uid") = "pledge"
  BY Zenon DEF AfterStart
<1> QED BY <1>1, <1>2, <1>3

LEMMA StopOrder ==
  /\ AfterStop("admin") = "multicast"
  /\ AfterStop("multicast") = "tun"
  /\ AfterStop("tun") = "dns"
  /\ AfterStop("dns") = "core"
  /\ AfterStop("scutil") = "core"
BY Zenon DEF AfterStop

LEMMA InitInv == Init => Inv
<1> SUFFICES ASSUME Init PROVE Inv
  OBVIOUS
<1>1. TypeOK
  BY DEF Init, TypeOK, Initial, Cred
<1>2. PartsInv
  BY DEF Init, PartsInv, Begun, CoreOutlivesParts
<1>3. CredsInv /\ EntriesInv
  BY DEF Init, CredsInv, EntriesInv, DropsAllOrNothing, CleanExit
<1> QED BY <1>1, <1>2, <1>3 DEF Inv
-----------------------------------------------------------------------------
(* One lemma per action of Next.                                           *)

LEMMA LaunchInv ==
  ASSUME Inv, NEW u \in BOOLEAN, NEW uid \in {"root", "other"}, Launch(u, uid)
  PROVE  Inv'
<1>1. TypeOK'
  <2>1. creds' \in [Cred -> {"old", "root", "other", "given"}]
    BY DEF Launch, Initial
  <2>2. life' \in Nat /\ entries' \subseteq 1 .. life'
    BY DEF Inv, TypeOK, Launch
  <2> QED BY <2>1, <2>2 DEF Inv, TypeOK, Launch, StartSteps
<1>2. PartsInv'
  BY DEF Inv, TypeOK, PartsInv, Launch, proc, dns, Begun, Left, CoreOutlivesParts, Part
<1>3. CredsInv'
  BY DEF Inv, TypeOK, CredsInv, Launch, proc, dns, DropsAllOrNothing, Cred
<1>4. EntriesInv'
  BY DEF Inv, TypeOK, EntriesInv, Launch, proc, dns, CleanExit
<1> QED BY <1>1, <1>2, <1>3, <1>4 DEF Inv

LEMMA ReadConfigInv ==
  ASSUME Inv, ReadConfig
  PROVE  Inv'
<1>1. TypeOK'
  BY StartOrder DEF Inv, TypeOK, ReadConfig, Advance, proc, dns, StartSteps, StopSteps, Part, Cred
<1>2. PartsInv'
  BY StartOrder DEF Inv, TypeOK, PartsInv, ReadConfig, Advance, proc, dns, Begun, Left, CoreOutlivesParts, Part
<1>3. CredsInv'
  BY StartOrder DEF Inv, TypeOK, CredsInv, ReadConfig, Advance, proc, dns, DropsAllOrNothing, Cred
<1>4. EntriesInv'
  BY StartOrder DEF Inv, TypeOK, EntriesInv, ReadConfig, Advance, proc, dns, CleanExit
<1> QED BY <1>1, <1>2, <1>3, <1>4 DEF Inv

LEMMA PrintOnlyInv ==
  ASSUME Inv, PrintOnly
  PROVE  Inv'
<1>1. TypeOK'
  BY DEF Inv, TypeOK, PrintOnly, Leave, dns, StartSteps, StopSteps, Part, Cred
<1>2. PartsInv'
  BY DEF Inv, TypeOK, PartsInv, PrintOnly, Leave, dns, Begun, Left, CoreOutlivesParts, Part
<1>3. CredsInv'
  BY DEF Inv, TypeOK, CredsInv, PrintOnly, Leave, dns, DropsAllOrNothing, Cred
<1>4. EntriesInv'
  BY DEF Inv, TypeOK, EntriesInv, PrintOnly, Leave, dns, CleanExit
<1> QED BY <1>1, <1>2, <1>3, <1>4 DEF Inv

LEMMA StartInv ==
  ASSUME Inv, NEW p \in Part, Start(p)
  PROVE  Inv'
<1>0. /\ phase = "start" /\ phase' = "start" /\ at = p
      /\ at' \in {"admin", "multicast", "tun", "dns"}
  BY StartOrder DEF Start, Advance, Part
<1>1. /\ running' \subseteq Part
      /\ p = "core" \/ "core" \in running => "core" \in running'
  BY DEF Start, Inv, TypeOK, Optional
<1>2. /\ platform' = platform /\ life' = life /\ told' = told /\ onExit' = onExit /\ user' = user /\ creds' = creds
      /\ scutil' = scutil /\ writer' = writer /\ doomed' = doomed /\ entries' = entries /\ done' = done
  BY DEF Start, Advance, dns
<1>3. TypeOK'
  BY <1>0, <1>1, <1>2 DEF Inv, TypeOK, StartSteps, StopSteps, Part, Cred
<1>4. PartsInv'
  BY <1>0, <1>1, <1>2 DEF Inv, TypeOK, PartsInv, Begun, Left, CoreOutlivesParts, Part, Cred
<1>5. CredsInv'
  BY <1>0, <1>1, <1>2 DEF Inv, TypeOK, CredsInv, DropsAllOrNothing, Cred
<1>6. EntriesInv'
  BY <1>0, <1>1, <1>2 DEF Inv, TypeOK, EntriesInv, CleanExit, Part, Cred
<1> QED BY <1>3, <1>4, <1>5, <1>6 DEF Inv

LEMMA FailInv ==
  ASSUME Inv, Fail
  PROVE  Inv'
<1>1. TypeOK'
  BY DEF Inv, TypeOK, Fail, Leave, dns, StartSteps, StopSteps, Part, Cred
<1>2. PartsInv'
  BY DEF Inv, TypeOK, PartsInv, Fail, Leave, dns, Begun, Left, CoreOutlivesParts, Part
<1>3. CredsInv'
  BY DEF Inv, TypeOK, CredsInv, Fail, Leave, dns, DropsAllOrNothing, Cred
<1>4. EntriesInv'
  BY DEF Inv, TypeOK, EntriesInv, Fail, Leave, dns, CleanExit
<1> QED BY <1>1, <1>2, <1>3, <1>4 DEF Inv

LEMMA SetOnExitInv ==
  ASSUME Inv, SetOnExit
  PROVE  Inv'
<1>1. TypeOK'
  BY StartOrder DEF Inv, TypeOK, SetOnExit, Advance, proc, dns, StartSteps, StopSteps, Part, Cred
<1>2. PartsInv'
  BY StartOrder DEF Inv, TypeOK, PartsInv, SetOnExit, Advance, proc, dns, Begun, Left, CoreOutlivesParts, Part
<1>3. CredsInv'
  BY StartOrder DEF Inv, TypeOK, CredsInv, SetOnExit, Advance, proc, dns, DropsAllOrNothing, Cred
<1>4. EntriesInv'
  BY StartOrder DEF Inv, TypeOK, EntriesInv, SetOnExit, Advance, proc, dns, CleanExit
<1> QED BY <1>1, <1>2, <1>3, <1>4 DEF Inv

LEMMA DropInv ==
  ASSUME Inv, NEW c \in Cred, Drop(c)
  PROVE  Inv'
<1>0. /\ phase = "start" /\ phase' = "start" /\ at = c
      /\ c = "groups" => at' = "gid"
      /\ c = "gid" => at' = "uid"
      /\ c = "uid" => at' = "pledge"
  BY StartOrder DEF Drop, Advance
<1>1. creds' = [creds EXCEPT ![c] = "given"]
  BY DEF Drop
<1>2. /\ platform' = platform /\ life' = life /\ running' = running /\ told' = told /\ onExit' = onExit /\ user' = user
      /\ scutil' = scutil /\ writer' = writer /\ doomed' = doomed /\ entries' = entries /\ done' = done
  BY DEF Drop, Advance, dns
<1>3. TypeOK'
  BY <1>0, <1>1, <1>2 DEF Inv, TypeOK, StartSteps, StopSteps, Part, Cred
<1>4. PartsInv'
  BY <1>0, <1>1, <1>2 DEF Inv, TypeOK, PartsInv, Begun, Left, CoreOutlivesParts, Part, Cred
<1>5. CredsInv'
  BY <1>0, <1>1, <1>2 DEF Inv, TypeOK, CredsInv, DropsAllOrNothing, Cred
<1>6. EntriesInv'
  BY <1>0, <1>1, <1>2 DEF Inv, TypeOK, EntriesInv, CleanExit, Part, Cred
<1> QED BY <1>3, <1>4, <1>5, <1>6 DEF Inv

LEMMA PledgeInv ==
  ASSUME Inv, Pledge
  PROVE  Inv'
<1>1. TypeOK'
  BY DEF Inv, TypeOK, Pledge, dns, StartSteps, StopSteps, Part, Cred
<1>2. PartsInv'
  BY DEF Inv, TypeOK, PartsInv, Pledge, dns, Begun, Left, CoreOutlivesParts, Part
<1>3. CredsInv'
  BY DEF Inv, TypeOK, CredsInv, Pledge, dns, DropsAllOrNothing, Cred
<1>4. EntriesInv'
  BY DEF Inv, TypeOK, EntriesInv, Pledge, dns, CleanExit
<1> QED BY <1>1, <1>2, <1>3, <1>4 DEF Inv

LEMMA NoDNSInv ==
  ASSUME Inv, NoDNS
  PROVE  Inv'
<1>1. TypeOK'
  BY StartOrder, StopOrder DEF Inv, TypeOK, NoDNS, Advance, proc, dns, StartSteps, StopSteps, Part, Cred
<1>2. PartsInv'
  BY StartOrder, StopOrder DEF Inv, TypeOK, PartsInv, NoDNS, Advance, proc, dns, Begun, Left, CoreOutlivesParts, Part
<1>3. CredsInv'
  BY StartOrder, StopOrder DEF Inv, TypeOK, CredsInv, NoDNS, Advance, proc, dns, DropsAllOrNothing, Cred
<1>4. EntriesInv'
  BY StartOrder, StopOrder DEF Inv, TypeOK, EntriesInv, NoDNS, Advance, proc, dns, CleanExit
<1> QED BY <1>1, <1>2, <1>3, <1>4 DEF Inv

LEMMA RunScutilInv ==
  ASSUME Inv, RunScutil
  PROVE  Inv'
<1>1. TypeOK'
  BY StartOrder, StopOrder DEF Inv, TypeOK, RunScutil, Advance, proc, dns, StartSteps, StopSteps, Part, Cred
<1>2. PartsInv'
  BY StartOrder, StopOrder DEF Inv, TypeOK, PartsInv, RunScutil, Advance, proc, dns, Begun, Left, CoreOutlivesParts, Part
<1>3. CredsInv'
  BY StartOrder, StopOrder DEF Inv, TypeOK, CredsInv, RunScutil, Advance, proc, dns, DropsAllOrNothing, Cred
<1>4. EntriesInv'
  BY StartOrder, StopOrder DEF Inv, TypeOK, EntriesInv, RunScutil, Advance, proc, dns, CleanExit
<1> QED BY <1>1, <1>2, <1>3, <1>4 DEF Inv

LEMMA SpawnInv ==
  ASSUME Inv, Spawn
  PROVE  Inv'
<1>1. TypeOK'
  BY DEF Inv, TypeOK, Spawn, Scutil, proc, StartSteps, StopSteps, Part, Cred
<1>2. PartsInv'
  BY DEF Inv, TypeOK, PartsInv, Spawn, Scutil, proc, Begun, Left, CoreOutlivesParts, Part
<1>3. CredsInv'
  BY DEF Inv, TypeOK, CredsInv, Spawn, Scutil, proc, DropsAllOrNothing, Cred
<1>4. EntriesInv'
  BY DEF Inv, TypeOK, EntriesInv, Spawn, Scutil, proc, CleanExit
<1> QED BY <1>1, <1>2, <1>3, <1>4 DEF Inv

LEMMA ScutilFailsInv ==
  ASSUME Inv, ScutilFails
  PROVE  Inv'
<1>1. TypeOK'
  BY DEF Inv, TypeOK, ScutilFails, Scutil, Doom, proc, StartSteps, StopSteps, Part, Cred
<1>2. PartsInv'
  BY DEF Inv, TypeOK, PartsInv, ScutilFails, Scutil, Doom, proc, Begun, Left, CoreOutlivesParts, Part
<1>3. CredsInv'
  BY DEF Inv, TypeOK, CredsInv, ScutilFails, Scutil, Doom, proc, DropsAllOrNothing, Cred
<1>4. EntriesInv'
  BY DEF Inv, TypeOK, EntriesInv, ScutilFails, Scutil, Doom, proc, CleanExit
<1> QED BY <1>1, <1>2, <1>3, <1>4 DEF Inv

LEMMA FeedInv ==
  ASSUME Inv, Feed
  PROVE  Inv'
<1>1. TypeOK'
  BY DEF Inv, TypeOK, Feed, proc, StartSteps, StopSteps, Part, Cred
<1>2. PartsInv'
  BY DEF Inv, TypeOK, PartsInv, Feed, proc, Begun, Left, CoreOutlivesParts, Part
<1>3. CredsInv'
  BY DEF Inv, TypeOK, CredsInv, Feed, proc, DropsAllOrNothing, Cred
<1>4. EntriesInv'
  BY DEF Inv, TypeOK, EntriesInv, Feed, proc, CleanExit
<1> QED BY <1>1, <1>2, <1>3, <1>4 DEF Inv

LEMMA ObeyInv ==
  ASSUME Inv, Obey
  PROVE  Inv'
<1>1. TypeOK'
  <2>1. entries' \subseteq 1 .. life
    BY DEF Inv, TypeOK, EntriesInv, Obey, Effect
  <2> QED BY <2>1 DEF Inv, TypeOK, Obey, Scutil, proc
<1>2. PartsInv'
  BY DEF Inv, TypeOK, PartsInv, Obey, Scutil, Fed, Effect, proc, Begun, Left, CoreOutlivesParts, Part
<1>3. CredsInv'
  BY DEF Inv, TypeOK, CredsInv, Obey, Scutil, Fed, Effect, proc, DropsAllOrNothing, Cred
<1>4. EntriesInv'
  BY DEF Inv, TypeOK, EntriesInv, Obey, Scutil, Fed, Effect, proc, CleanExit
<1> QED BY <1>1, <1>2, <1>3, <1>4 DEF Inv

LEMMA ScutilReturnsInv ==
  ASSUME Inv, ScutilReturns
  PROVE  Inv'
<1>1. TypeOK'
  BY StartOrder, StopOrder DEF Inv, TypeOK, ScutilReturns, Advance, proc, dns, StartSteps, StopSteps, Part, Cred
<1>2. PartsInv'
  BY StartOrder, StopOrder DEF Inv, TypeOK, PartsInv, ScutilReturns, Advance, proc, dns, Begun, Left, CoreOutlivesParts, Part
<1>3. CredsInv'
  BY StartOrder, StopOrder DEF Inv, TypeOK, CredsInv, ScutilReturns, Advance, proc, dns, DropsAllOrNothing, Cred
<1>4. EntriesInv'
  BY StartOrder, StopOrder DEF Inv, TypeOK, EntriesInv, ScutilReturns, Advance, proc, dns, CleanExit
<1> QED BY <1>1, <1>2, <1>3, <1>4 DEF Inv

LEMMA DieInv ==
  ASSUME Inv, Die, phase # "none"
  PROVE  Inv'
<1>1. TypeOK'
  <2>1. entries' \subseteq 1 .. life
    BY DEF Inv, TypeOK, EntriesInv, Die, Effect
  <2> QED BY <2>1 DEF Inv, TypeOK, Die, Gone
<1>2. PartsInv'
  BY DEF Inv, TypeOK, PartsInv, Die, Gone, Fed, Effect, Begun, Left, CoreOutlivesParts, Part
<1>3. CredsInv'
  BY DEF Inv, TypeOK, CredsInv, Die, Gone, Fed, Effect, DropsAllOrNothing, Cred
<1>4. EntriesInv'
  BY DEF Inv, TypeOK, EntriesInv, Die, Gone, Fed, Effect, CleanExit
<1> QED BY <1>1, <1>2, <1>3, <1>4 DEF Inv

LEMMA ExitInv ==
  ASSUME Inv, Exit
  PROVE  Inv'
<1>1. TypeOK'
  BY DEF Inv, TypeOK, Exit, Gone, StartSteps, StopSteps, Part, Cred
<1>2. PartsInv'
  BY DEF Inv, TypeOK, PartsInv, Exit, Gone, Begun, Left, CoreOutlivesParts, Part
<1>3. CredsInv'
  BY DEF Inv, TypeOK, CredsInv, Exit, Gone, DropsAllOrNothing, Cred
<1>4. EntriesInv'
  BY DEF Inv, TypeOK, EntriesInv, Exit, Gone, CleanExit
<1> QED BY <1>1, <1>2, <1>3, <1>4 DEF Inv

LEMMA SignalInv ==
  ASSUME Inv, Signal
  PROVE  Inv'
<1>1. TypeOK'
  BY DEF Inv, TypeOK, Signal, proc, dns, StartSteps, StopSteps, Part, Cred
<1>2. PartsInv'
  BY DEF Inv, TypeOK, PartsInv, Signal, proc, dns, Begun, Left, CoreOutlivesParts, Part
<1>3. CredsInv'
  BY DEF Inv, TypeOK, CredsInv, Signal, proc, dns, DropsAllOrNothing, Cred
<1>4. EntriesInv'
  BY DEF Inv, TypeOK, EntriesInv, Signal, proc, dns, CleanExit
<1> QED BY <1>1, <1>2, <1>3, <1>4 DEF Inv

LEMMA ServiceStopInv ==
  ASSUME Inv, ServiceStop
  PROVE  Inv'
<1>1. TypeOK'
  BY DEF Inv, TypeOK, ServiceStop, proc, dns, StartSteps, StopSteps, Part, Cred
<1>2. PartsInv'
  BY DEF Inv, TypeOK, PartsInv, ServiceStop, proc, dns, Begun, Left, CoreOutlivesParts, Part
<1>3. CredsInv'
  BY DEF Inv, TypeOK, CredsInv, ServiceStop, proc, dns, DropsAllOrNothing, Cred
<1>4. EntriesInv'
  BY DEF Inv, TypeOK, EntriesInv, ServiceStop, proc, dns, CleanExit
<1> QED BY <1>1, <1>2, <1>3, <1>4 DEF Inv

LEMMA CallbackReturnsInv ==
  ASSUME Inv, CallbackReturns
  PROVE  Inv'
<1>1. TypeOK'
  BY DEF Inv, TypeOK, CallbackReturns, proc, dns, StartSteps, StopSteps, Part, Cred
<1>2. PartsInv'
  BY DEF Inv, TypeOK, PartsInv, CallbackReturns, proc, dns, Begun, Left, CoreOutlivesParts, Part
<1>3. CredsInv'
  BY DEF Inv, TypeOK, CredsInv, CallbackReturns, proc, dns, DropsAllOrNothing, Cred
<1>4. EntriesInv'
  BY DEF Inv, TypeOK, EntriesInv, CallbackReturns, proc, dns, CleanExit
<1> QED BY <1>1, <1>2, <1>3, <1>4 DEF Inv

LEMMA WakeInv ==
  ASSUME Inv, Wake
  PROVE  Inv'
<1>1. TypeOK'
  BY DEF Inv, TypeOK, Wake, dns, StartSteps, StopSteps, Part, Cred
<1>2. PartsInv'
  BY DEF Inv, TypeOK, PartsInv, Wake, dns, Begun, Left, CoreOutlivesParts, Part
<1>3. CredsInv'
  BY DEF Inv, TypeOK, CredsInv, Wake, dns, DropsAllOrNothing, Cred
<1>4. EntriesInv'
  BY DEF Inv, TypeOK, EntriesInv, Wake, dns, CleanExit
<1> QED BY <1>1, <1>2, <1>3, <1>4 DEF Inv

LEMMA StopInv ==
  ASSUME Inv, NEW p \in Part, Stop(p)
  PROVE  Inv'
<1>0. /\ phase = "stop" /\ at = p
      /\ p = "core" => phase' = "return" /\ at' = "none" /\ done' = TRUE
      /\ p # "core" => phase' = "stop" /\ done' = done
      /\ p = "admin" => at' = "multicast"
      /\ p = "multicast" => at' = "tun"
      /\ p = "tun" => at' = "dns"
  BY StopOrder DEF Stop, Advance, Leave
<1>1. running' = running \ {p}
  BY DEF Stop
<1>2. /\ platform' = platform /\ life' = life /\ told' = told /\ onExit' = onExit /\ user' = user
      /\ creds' = creds /\ scutil' = scutil /\ writer' = writer /\ doomed' = doomed /\ entries' = entries
  BY DEF Stop, dns
<1>3. TypeOK'
  BY <1>0, <1>1, <1>2 DEF Inv, TypeOK, StartSteps, StopSteps, Part, Cred
<1>4. PartsInv'
  <2>1. /\ "core" \in running /\ running \subseteq Left(p)
        /\ onExit = "returned" => done
        /\ done => phase \in {"return", "panic"}
    BY <1>0 DEF Inv, PartsInv
  <2>2. CASE p = "core"
    <3>1. running' = {}
      BY <1>1, <2>1, <2>2 DEF Left
    <3> QED BY <1>0, <1>2, <2>2, <3>1 DEF PartsInv, Begun, CoreOutlivesParts
  <2>3. CASE p # "core"
    <3>1. "core" \in running' /\ running' \subseteq Left(at')
      BY <1>0, <1>1, <2>1, <2>3 DEF Left, Part
    <3> QED BY <1>0, <1>2, <2>1, <2>3, <3>1 DEF PartsInv, Begun, CoreOutlivesParts
  <2> QED BY <2>2, <2>3
<1>5. CredsInv'
  BY <1>0, <1>1, <1>2 DEF Inv, TypeOK, CredsInv, DropsAllOrNothing, Cred
<1>6. EntriesInv'
  BY <1>0, <1>1, <1>2 DEF Inv, TypeOK, EntriesInv, CleanExit, Part, Cred
<1> QED BY <1>3, <1>4, <1>5, <1>6 DEF Inv

LEMMA StepInv == Inv /\ [Next]_vars => Inv'
<1> SUFFICES ASSUME Inv, [Next]_vars PROVE Inv'
  OBVIOUS
<1>1. CASE Main
  BY <1>1, ReadConfigInv, PrintOnlyInv, FailInv, StartInv, StopInv, NoDNSInv,
     RunScutilInv, ScutilReturnsInv, SetOnExitInv, DropInv, PledgeInv, WakeInv,
     ExitInv DEF Main
<1>2. CASE Child
  <2>1. CASE WriterPanics
    <3>1. phase # "none"
      BY <2>1 DEF WriterPanics, Inv, EntriesInv
    <3> QED BY <2>1, <3>1, DieInv DEF WriterPanics
  <2> QED BY <1>2, <2>1, SpawnInv, ScutilFailsInv, FeedInv, ObeyInv DEF Child
<1>3. CASE Kill
  BY <1>3, DieInv DEF Kill
<1>4. CASE UNCHANGED vars
  BY <1>4 DEF vars, proc, dns, Inv, TypeOK, PartsInv, CredsInv, EntriesInv,
     Begun, Left, CoreOutlivesParts, CallbackWaits, DropsAllOrNothing, CleanExit
<1> QED BY <1>1, <1>2, <1>3, <1>4, LaunchInv, SignalInv, ServiceStopInv,
           CallbackReturnsInv DEF Next
-----------------------------------------------------------------------------

\* The invariant of main holds in every reachable state.
THEOREM Invariance == Spec => []Inv
BY InitInv, StepInv, PTL DEF Spec

\* Type correctness, with DNS entries of past and present launches only.
THEOREM TypeCorrect == Spec => []TypeOK
<1>1. Inv => TypeOK
  BY DEF Inv
<1> QED BY <1>1, Invariance, PTL

\* No part runs without the core, whatever fails while main starts and stops.
THEOREM PartsSafe == Spec => []CoreOutlivesParts
<1>1. Inv => CoreOutlivesParts
  BY DEF Inv, PartsInv
<1> QED BY <1>1, Invariance, PTL

\* With -user, the node serves without any of its first privileges.
THEOREM PrivilegesDropped == Spec => []DropsAllOrNothing
<1>1. Inv => DropsAllOrNothing
  BY DEF Inv, CredsInv
<1> QED BY <1>1, Invariance, PTL

\* A stopped node leaves no DNS entry if its last scutil obeyed.
THEOREM EntryRemoved == Spec => []CleanExit
<1>1. Inv => CleanExit
  BY DEF Inv, EntriesInv
<1> QED BY <1>1, Invariance, PTL

\* The service callback returns when all parts are stopped, or main panicked.
THEOREM CallbackSafe == Spec => []CallbackWaits
<1>1. Inv => CallbackWaits
  BY DEF Inv, PartsInv, CallbackWaits
<1> QED BY <1>1, Invariance, PTL
-----------------------------------------------------------------------------
(* What EveryStopEnds rests on, besides fairness.                          *)

\* What the child's state says of main: main waits for a call that was begun, and
\* nothing is left of one that main has returned from, but a panic.
ScutilInv ==
  /\ at = "scutil" => scutil # "idle" /\ platform = "darwin"
  /\ scutil \in {"pending", "running"} => at = "scutil"
  /\ writer = "writing" => scutil \in {"pending", "running"}

\* The steps main has still to take, as the code orders them, if nothing fails.
StartLeft(s) ==
  CASE s = "config"    -> 20
    [] s = "core"      -> 19
    [] s = "admin"     -> 18
    [] s = "multicast" -> 17
    [] s = "tun"       -> 16
    [] s = "dns"       -> 15
    [] s = "scutil"    -> 14
    [] s = "onexit"    -> 13
    [] s = "groups"    -> 12
    [] s = "gid"       -> 11
    [] s = "uid"       -> 10
    [] s = "pledge"    -> 9

StopLeft(s) ==
  CASE s = "admin"     -> 7
    [] s = "multicast" -> 6
    [] s = "tun"       -> 5
    [] s = "dns"       -> 4
    [] s = "scutil"    -> 3
    [] s = "core"      -> 2

MainLeft(ph, s) ==
  IF ph = "start" THEN StartLeft(s)
  ELSE IF ph = "wait" THEN 8
  ELSE IF ph = "stop" THEN StopLeft(s)
  ELSE IF ph = "none" THEN 0
  ELSE 1

\* The steps the child and its writer may still take in the call that runs.
ChildLeft(child, w) ==
  (IF child = "pending" THEN 2 ELSE IF child = "running" THEN 1 ELSE 0)
    + (IF w = "writing" THEN 1 ELSE 0)

Remaining == 4 * MainLeft(phase, at) + ChildLeft(scutil, writer)

\* The count of each step.
LEMMA StartCounts ==
  /\ StartLeft("config") = 20
  /\ StartLeft("core") = 19
  /\ StartLeft("admin") = 18
  /\ StartLeft("multicast") = 17
  /\ StartLeft("tun") = 16
  /\ StartLeft("dns") = 15
  /\ StartLeft("scutil") = 14
  /\ StartLeft("onexit") = 13
  /\ StartLeft("groups") = 12
  /\ StartLeft("gid") = 11
  /\ StartLeft("uid") = 10
  /\ StartLeft("pledge") = 9
BY SMT DEF StartLeft

LEMMA StopCounts ==
  /\ StopLeft("admin") = 7
  /\ StopLeft("multicast") = 6
  /\ StopLeft("tun") = 5
  /\ StopLeft("dns") = 4
  /\ StopLeft("scutil") = 3
  /\ StopLeft("core") = 2
BY SMT DEF StopLeft

LEMMA MainCounts ==
  ASSUME NEW ph \in {"none", "start", "wait", "stop", "return", "panic"}, NEW s,
         ph = "start" => s \in StartSteps, ph = "stop" => s \in StopSteps
  PROVE  MainLeft(ph, s) \in 0 .. 20 /\ (ph # "none" => MainLeft(ph, s) > 0)
<1>1. CASE ph = "start"
  BY <1>1, StartCounts DEF MainLeft, StartSteps, Part, Cred
<1>2. CASE ph = "stop"
  BY <1>2, StopCounts DEF MainLeft, StopSteps, Part
<1>3. CASE ph \notin {"start", "stop"}
  BY <1>3 DEF MainLeft
<1> QED BY <1>1, <1>2, <1>3

LEMMA ChildCounts ==
  ASSUME NEW child, NEW w
  PROVE  ChildLeft(child, w) \in 0 .. 3
BY DEF ChildLeft

\* A step of main counts for more than what a child may have left.
LEMMA MainCountsMore ==
  ASSUME TypeOK, TypeOK', MainLeft(phase, at)' < MainLeft(phase, at)
  PROVE  Remaining' < Remaining
<1> DEFINE m == MainLeft(phase, at)
           n == MainLeft(phase', at')
           c == ChildLeft(scutil, writer)
           e == ChildLeft(scutil', writer')
<1>1. m \in 0 .. 20 /\ n \in 0 .. 20
  BY MainCounts DEF TypeOK
<1>2. c \in 0 .. 3 /\ e \in 0 .. 3
  BY ChildCounts
<1>3. Remaining = 4 * m + c /\ Remaining' = 4 * n + e /\ n < m
  BY DEF Remaining
<1> HIDE DEF m, n, c, e
<1> QED BY <1>1, <1>2, <1>3

LEMMA AdvanceNears ==
  ASSUME TypeOK, Advance, phase \in {"start", "stop"}, at \notin {"pledge", "core"} \/ (phase = "start" /\ at = "core")
  PROVE  MainLeft(phase, at)' < MainLeft(phase, at)
<1>1. CASE phase = "start"
  BY <1>1, StartOrder, StartCounts DEF TypeOK, Advance, MainLeft, StartSteps, Part, Cred
<1>2. CASE phase = "stop"
  BY <1>2, StopOrder, StopCounts DEF TypeOK, Advance, MainLeft, StopSteps, Part
<1> QED BY <1>1, <1>2

LEMMA MainNears ==
  ASSUME Inv, Inv', Main
  PROVE  Remaining' < Remaining
<1>0. TypeOK /\ TypeOK'
  BY DEF Inv
<1>1. CASE ReadConfig \/ NoDNS \/ ScutilReturns \/ SetOnExit
  BY <1>0, <1>1, AdvanceNears, MainCountsMore
     DEF ReadConfig, NoDNS, ScutilReturns, SetOnExit, TypeOK
<1>2. CASE PrintOnly \/ Fail
  BY <1>0, <1>2, StartCounts, MainCountsMore DEF PrintOnly, Fail, Leave, MainLeft, Part, Cred
<1>3. ASSUME NEW p \in Part, Start(p) PROVE Remaining' < Remaining
  BY <1>0, <1>3, AdvanceNears, MainCountsMore DEF Start, Part
<1>4. ASSUME NEW p \in Part, Stop(p) PROVE Remaining' < Remaining
  <2>1. CASE p = "core"
    BY <1>0, <1>4, <2>1, StopCounts, MainCountsMore DEF Stop, Leave, MainLeft
  <2>2. CASE p # "core"
    BY <1>0, <1>4, <2>2, AdvanceNears, MainCountsMore DEF Stop, Part
  <2> QED BY <2>1, <2>2
<1>5. ASSUME NEW c \in Cred, Drop(c) PROVE Remaining' < Remaining
  BY <1>0, <1>5, AdvanceNears, MainCountsMore DEF Drop, Cred
<1>6. CASE RunScutil
  <2>1. MainLeft(phase, at)' < MainLeft(phase, at)
    BY <1>0, <1>6, AdvanceNears, StartCounts, StopCounts DEF RunScutil, MainLeft
  <2> QED BY <1>0, <2>1, MainCountsMore
<1>7. CASE Pledge \/ Wake
  BY <1>0, <1>7, StartCounts, StopCounts, MainCountsMore DEF Pledge, Wake, MainLeft
<1>8. CASE Exit
  BY <1>0, <1>8, MainCountsMore DEF Exit, Gone, MainLeft
<1> QED BY <1>1, <1>2, <1>3, <1>4, <1>5, <1>6, <1>7, <1>8 DEF Main

\* The process is gone: nothing is left to do.
LEMMA DieNears ==
  ASSUME Inv, Die, phase # "none"
  PROVE  Remaining' < Remaining
<1>1. MainLeft(phase, at) \in 1 .. 20
  BY MainCounts DEF Inv, TypeOK
<1>2. ChildLeft(scutil, writer) \in 0 .. 3
  BY ChildCounts
<1>3. Remaining' = 0
  BY DEF Die, Gone, Remaining, MainLeft, ChildLeft
<1> QED BY <1>1, <1>2, <1>3 DEF Remaining

LEMMA ChildNears ==
  ASSUME Inv, Child
  PROVE  Remaining' < Remaining
<1>0. MainLeft(phase, at) \in 0 .. 20
  BY MainCounts DEF Inv, TypeOK
<1>1. CASE Spawn
  BY <1>0, <1>1 DEF Spawn, Scutil, proc, Remaining, ChildLeft
<1>2. CASE ScutilFails
  BY <1>0, <1>2 DEF ScutilFails, Scutil, Doom, proc, Remaining, ChildLeft
<1>3. CASE Feed
  BY <1>0, <1>3 DEF Feed, proc, Remaining, ChildLeft
<1>4. CASE Obey
  BY <1>0, <1>4 DEF Obey, Fed, Scutil, proc, Remaining, ChildLeft
<1>5. CASE WriterPanics
  BY <1>5, DieNears DEF WriterPanics, Inv, EntriesInv
<1> QED BY <1>1, <1>2, <1>3, <1>4, <1>5 DEF Child

LEMMA StepNears ==
  ASSUME Inv, Inv', Next
  PROVE  /\ phase # "none" => Remaining' <= Remaining
         /\ Main \/ Child => Remaining' < Remaining
<1>0. Remaining \in Nat /\ Remaining' \in Nat
  <2>1. MainLeft(phase, at) \in 0 .. 20 /\ ChildLeft(scutil, writer) \in 0 .. 3
    BY MainCounts, ChildCounts DEF Inv, TypeOK
  <2>2. MainLeft(phase', at') \in 0 .. 20 /\ ChildLeft(scutil', writer') \in 0 .. 3
    BY MainCounts, ChildCounts DEF Inv, TypeOK
  <2> QED BY <2>1, <2>2 DEF Remaining
<1>1. CASE Main \/ Child
  BY <1>0, <1>1, MainNears, ChildNears
<1>2. ASSUME NEW u \in BOOLEAN, NEW uid \in {"root", "other"}, Launch(u, uid)
      PROVE  phase = "none"
  BY <1>2 DEF Launch
<1>3. ASSUME Kill
      PROVE  Remaining' < Remaining
  BY <1>3, DieNears DEF Kill
<1>4. ASSUME Signal \/ ServiceStop \/ CallbackReturns
      PROVE  Remaining' = Remaining
  BY <1>4 DEF Signal, ServiceStop, CallbackReturns, proc, dns, Remaining
<1>5. ~(Main \/ Child) /\ phase # "none" => Remaining' <= Remaining
  BY <1>0, <1>2, <1>3, <1>4 DEF Next
<1> QED BY <1>0, <1>1, <1>5

LEMMA ScutilStep ==
  ASSUME Inv, ScutilInv, Next
  PROVE  ScutilInv'
<1>0. TypeOK
  BY DEF Inv
<1>1. ASSUME NEW u \in BOOLEAN, NEW uid \in {"root", "other"}, Launch(u, uid)
      PROVE  ScutilInv'
  BY <1>1 DEF Launch, ScutilInv
<1>2. CASE Gone
  BY <1>2 DEF Gone, ScutilInv
\* Main goes on, and the child is none of its business.
<1>3. ASSUME UNCHANGED <<platform, dns>>, at # "scutil" \/ scutil \in {"obeyed", "failed"},
             at' # "scutil"
      PROVE  ScutilInv'
  BY <1>0, <1>3 DEF ScutilInv, dns
<1>4. ASSUME Advance, phase \in {"start", "stop"},
             at \notin {"pledge", "core"} \/ (phase = "start" /\ at = "core")
      PROVE  at' # "scutil"
  BY <1>0, <1>4, StartOrder, StopOrder DEF Advance, TypeOK, StartSteps, StopSteps, Part, Cred
<1>5. CASE ReadConfig \/ NoDNS \/ SetOnExit \/ ScutilReturns
  BY <1>0, <1>3, <1>4, <1>5 DEF ReadConfig, NoDNS, SetOnExit, ScutilReturns, TypeOK
<1>6. CASE PrintOnly \/ Fail \/ Pledge \/ Wake
  BY <1>0, <1>3, <1>6 DEF PrintOnly, Fail, Leave, Pledge, Wake, TypeOK, Part, Cred
<1>7. ASSUME NEW p \in Part, Start(p) \/ Stop(p) PROVE ScutilInv'
  BY <1>3, <1>4, <1>7 DEF Start, Stop, Leave, Part
<1>8. ASSUME NEW c \in Cred, Drop(c) PROVE ScutilInv'
  BY <1>3, <1>4, <1>8 DEF Drop, Cred
<1>9. CASE RunScutil
  BY <1>0, <1>4, <1>9 DEF RunScutil, ScutilInv, TypeOK
<1>10. CASE Spawn \/ ScutilFails \/ Feed \/ Obey
  BY <1>0, <1>10 DEF Spawn, ScutilFails, Feed, Obey, Fed, Scutil, Doom, proc, ScutilInv, TypeOK
<1>11. CASE Signal \/ ServiceStop \/ CallbackReturns
  BY <1>11 DEF Signal, ServiceStop, CallbackReturns, proc, dns, ScutilInv
<1>12. CASE Main
  BY <1>2, <1>5, <1>6, <1>7, <1>8, <1>9, <1>12 DEF Main, Exit
<1>13. CASE Child \/ Kill
  BY <1>2, <1>10, <1>13 DEF Child, WriterPanics, Kill, Die
<1> QED BY <1>1, <1>11, <1>12, <1>13 DEF Next

\* Every step of main, of a child of scutil or of its writer takes the process
\* nearer to its end, and nothing that happens to it takes it back: not a signal,
\* nor a call of the service control manager, however often they come.
THEOREM EveryStepNears ==
  Spec => [][/\ phase # "none" => Remaining' <= Remaining
             /\ Main \/ Child => Remaining' < Remaining]_vars
<1>1. Inv /\ Inv' /\ [Next]_vars =>
        [/\ phase # "none" => Remaining' <= Remaining
         /\ Main \/ Child => Remaining' < Remaining]_vars
  BY StepNears
<1> QED BY <1>1, Invariance, PTL DEF Spec

\* Main waits in two places, to be told and for cmd.Run, and there for a child
\* that was begun; the steps left are few, and none only when the process is
\* gone.  EveryStopEnds rests on this and on EveryStepNears, besides fairness and
\* that a process that was told always has one of its steps to take.
THEOREM NeverStuck ==
  Spec => [](/\ ScutilInv
             /\ Remaining \in 0 .. 83
             /\ Remaining = 0 <=> phase = "none")
<1>1. Init => ScutilInv
  BY DEF Init, ScutilInv
<1>2. Inv /\ ScutilInv /\ [Next]_vars => ScutilInv'
  BY ScutilStep DEF vars, proc, dns, ScutilInv
<1>3. Inv /\ ScutilInv => /\ Remaining \in 0 .. 83
                          /\ Remaining = 0 <=> phase = "none"
  <2> SUFFICES ASSUME Inv, ScutilInv
               PROVE  Remaining \in 0 .. 83 /\ (Remaining = 0 <=> phase = "none")
    OBVIOUS
  <2>1. /\ MainLeft(phase, at) \in 0 .. 20
        /\ phase # "none" => MainLeft(phase, at) > 0
    BY MainCounts DEF Inv, TypeOK
  <2>2. ChildLeft(scutil, writer) \in 0 .. 3
    BY ChildCounts
  <2>3. phase = "none" => MainLeft(phase, at) = 0 /\ ChildLeft(scutil, writer) = 0
    BY DEF Inv, EntriesInv, ScutilInv, MainLeft, ChildLeft
  <2> QED BY <2>1, <2>2, <2>3 DEF Remaining
<1> QED BY <1>1, <1>2, <1>3, Invariance, PTL DEF Spec
=============================================================================
