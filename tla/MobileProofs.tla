------------------------------ MODULE MobileProofs ------------------------------
(***************************************************************************)
(* The mobile binding, for any number of starts and parts, calls by turns  *)
(* or in any order.                                                        *)
(***************************************************************************)
EXTENDS Mobile, TLAPS

-----------------------------------------------------------------------------

\* The fields of m and of control, and what New of a part leaves in them.
LEMMA Fields ==
  ASSUME TypeOK
  PROVE  /\ made \in Nat /\ running \subseteq 1 .. made
         /\ m.core \in 0 .. made /\ m.iprwc \in 0 .. made
         /\ m.multicast \in 0 .. made /\ m.tun \in 0 .. made
         /\ 0 \notin running
<1>1. /\ made \in Nat /\ running \subseteq 1 .. made
      /\ m.core \in 0 .. made /\ m.iprwc \in 0 .. made
      /\ m.multicast \in 0 .. made /\ m.tun \in 0 .. made
  BY DEF TypeOK
<1>2. 0 \notin running
  <2>1. \A i \in 1 .. made : i # 0
    BY <1>1
  <2> QED BY <1>1, <2>1
<1> QED BY <1>1, <1>2

LEMMA MakeCore ==
  ASSUME TypeOK, Make("core")
  PROVE  /\ m' \in [core : 0 .. made', iprwc : 0 .. made', multicast : 0 .. made', tun : 0 .. made']
         /\ made' = made + 1 /\ running' = running \cup {made + 1}
         /\ m'.core = made + 1 /\ m'.iprwc = m.iprwc
         /\ m'.multicast = m.multicast /\ m'.tun = m.tun
<1>1. made' = made + 1 /\ running' = running \cup {made + 1} /\ m' = [m EXCEPT !["core"] = made + 1]
  BY DEF Make
<1>2. m \in [core : 0 .. made', iprwc : 0 .. made', multicast : 0 .. made', tun : 0 .. made']
  <2>1. 0 .. made \subseteq 0 .. made'
    BY <1>1, Fields
  <2> QED BY <2>1 DEF TypeOK
<1>3. made + 1 \in 0 .. made'
  BY <1>1, Fields
<1>4. m'.core = made + 1 /\ m'.iprwc = m.iprwc /\ m'.multicast = m.multicast /\ m'.tun = m.tun
  BY <1>1, <1>2
<1>5. m' \in [core : 0 .. made', iprwc : 0 .. made', multicast : 0 .. made', tun : 0 .. made']
  BY <1>1, <1>2, <1>3
<1> QED BY <1>1, <1>4, <1>5

LEMMA MakeMulticast ==
  ASSUME TypeOK, Make("multicast") \/ MakeFails("multicast")
  PROVE  /\ m' \in [core : 0 .. made', iprwc : 0 .. made', multicast : 0 .. made', tun : 0 .. made']
         /\ made' \in {made, made + 1}
         /\ m'.core = m.core /\ m'.iprwc = m.iprwc /\ m'.tun = m.tun
         /\ m'.multicast \in {0, made + 1}
         /\ running \subseteq running' /\ running' \subseteq running \cup {m'.multicast}
         /\ running' \subseteq 1 .. made'
<1>1. PICK x \in {0, made + 1} :
        /\ m' = [m EXCEPT !["multicast"] = x] /\ x \in 0 .. made'
        /\ made' \in {made, made + 1}
        /\ running' \in {running, running \cup {x}} /\ running' \subseteq 1 .. made'
  <2>1. CASE Make("multicast")
    BY <2>1, Fields DEF Make
  <2>2. CASE MakeFails("multicast")
    BY <2>2, Fields DEF MakeFails
  <2> QED BY <2>1, <2>2
<1>2. m \in [core : 0 .. made', iprwc : 0 .. made', multicast : 0 .. made', tun : 0 .. made']
  <2>1. 0 .. made \subseteq 0 .. made'
    BY <1>1, Fields
  <2> QED BY <2>1 DEF TypeOK
<1>3. m'.multicast = x /\ m'.core = m.core /\ m'.iprwc = m.iprwc /\ m'.tun = m.tun
  BY <1>1, <1>2
<1>4. m' \in [core : 0 .. made', iprwc : 0 .. made', multicast : 0 .. made', tun : 0 .. made']
  BY <1>1, <1>2
<1> QED BY <1>1, <1>3, <1>4

LEMMA MakeTUN ==
  ASSUME TypeOK, Make("tun") \/ MakeFails("tun")
  PROVE  /\ m' \in [core : 0 .. made', iprwc : 0 .. made', multicast : 0 .. made', tun : 0 .. made']
         /\ made' \in {made, made + 1}
         /\ m'.core = m.core /\ m'.iprwc = m.iprwc /\ m'.multicast = m.multicast
         /\ m'.tun \in {0, made + 1}
         /\ running \subseteq running' /\ running' \subseteq running \cup {m'.tun}
         /\ running' \subseteq 1 .. made'
<1>1. PICK x \in {0, made + 1} :
        /\ m' = [m EXCEPT !["tun"] = x] /\ x \in 0 .. made'
        /\ made' \in {made, made + 1}
        /\ running' \in {running, running \cup {x}} /\ running' \subseteq 1 .. made'
  <2>1. CASE Make("tun")
    BY <2>1, Fields DEF Make
  <2>2. CASE MakeFails("tun")
    BY <2>2, Fields DEF MakeFails
  <2> QED BY <2>1, <2>2
<1>2. m \in [core : 0 .. made', iprwc : 0 .. made', multicast : 0 .. made', tun : 0 .. made']
  <2>1. 0 .. made \subseteq 0 .. made'
    BY <1>1, Fields
  <2> QED BY <2>1 DEF TypeOK
<1>3. m'.tun = x /\ m'.core = m.core /\ m'.iprwc = m.iprwc /\ m'.multicast = m.multicast
  BY <1>1, <1>2
<1>4. m' \in [core : 0 .. made', iprwc : 0 .. made', multicast : 0 .. made', tun : 0 .. made']
  BY <1>1, <1>2
<1> QED BY <1>1, <1>3, <1>4

\* A step to another place of the control thread.
LEMMA Moves ==
  ASSUME TypeOK, NEW step, Goto(step)
  PROVE  control'.at = step /\ control'.config = control.config
BY DEF TypeOK, Goto

-----------------------------------------------------------------------------

\* What the receiver may come to.
LEMMA Received ==
  ASSUME TypeOK,
         \/ receiving' = receiving
         \/ receiving' = [at |-> "idle", iprwc |-> 0]
         \/ receiving' = [at |-> "checked", iprwc |-> 0]
         \/ receiving' = [at |-> "reading", iprwc |-> m.iprwc]
  PROVE  receiving' \in [at : {"idle", "checked", "reading", "panicked"}, iprwc : 0 .. made]
<1>1. m.iprwc \in 0 .. made /\ 0 \in 0 .. made
  BY Fields
<1>2. receiving \in [at : {"idle", "checked", "reading", "panicked"}, iprwc : 0 .. made]
  BY DEF TypeOK
<1> QED BY <1>1, <1>2

\* A part other than the core that is stopped.
LEMMA PartStops ==
  ASSUME TypeOK, Parts, Serves, Turns, ~crashed, UNCHANGED <<inTurn, crashed, m, session>>,
         \/ control.at = "stop multicast" /\ control'.at = "stop tun"
              /\ running' = running \ {m.multicast}
         \/ control.at = "stop tun" /\ control'.at = "stop core"
              /\ running' = running \ {m.tun}
  PROVE  Parts' /\ Serves' /\ Turns'
<1>1. m.core \in running => m.core \in running'
  BY Fields DEF Parts
<1>2. Parts'
  BY DEF Parts
<1>3. Serves'
  BY <1>1 DEF Serves
<1>4. Turns'
  <2> SUFFICES ASSUME inTurn PROVE Turns'
    BY DEF Turns
  <2>1. control'.at \in {"stop tun", "stop core"} /\ session' # "none"
    BY DEF Turns
  <2>2. control'.at = "stop tun" => running' \subseteq {m.core, m.tun}
    BY DEF Turns, TypeOK
  <2>3. control'.at = "stop core" => running' \subseteq {m.core}
    BY DEF Turns
  <2>4. /\ session' = "open" => running' \subseteq {m.core, m.multicast}
        /\ session' = "tun" => running' \subseteq {m.core, m.multicast, m.tun}
    BY DEF Turns
  <2> QED BY <2>1, <2>2, <2>3, <2>4 DEF Turns, StartSteps
<1> QED BY <1>2, <1>3, <1>4

\* What was found for a check is found for the use.
LEMMA Uses ==
  ASSUME TypeOK, Checked, ~crashed, Send \/ Recv
  PROVE  /\ m.iprwc # 0 /\ UNCHANGED <<m, made, running, inTurn, crashed>>
         /\ Send => sending' = "idle" /\ UNCHANGED receiving
         /\ Recv => receiving' = [at |-> "reading", iprwc |-> m.iprwc] /\ UNCHANGED sending
<1>1. m.iprwc # 0
  BY DEF Checked, Send, Recv
<1>2. UNCHANGED <<m, made, running, inTurn>> /\ crashed' = FALSE
  <2>1. Dereference /\ UNCHANGED <<m, made, inTurn>>
    BY DEF Send, Recv
  <2>2. crashed' = FALSE /\ running' = running
    BY <1>1, <2>1 DEF Dereference
  <2> QED BY <2>1, <2>2
<1>3. crashed = FALSE
  BY DEF TypeOK
<1> QED BY <1>1, <1>2, <1>3 DEF Send, Recv

\* Steps that make and stop nothing.
LEMMA CallStep ==
  ASSUME MInv,
         \/ \E c \in Config : CallStart(c)
         \/ RefuseConfig \/ AcceptConfig \/ NoMulticast
         \/ CallTakeOver \/ CallStop
         \/ StopFails("stop multicast", "multicast") \/ StopFails("stop tun", "tun")
         \/ CallSend \/ Send \/ CallRecv \/ Recv \/ RecvPacket \/ RecvError
  PROVE  MInv'
<1> USE DEF NoPart, At, Idle, app
<1>0. TypeOK /\ Config \subseteq AnyConfig
  BY MobileAssumption DEF MInv
<1>1. UNCHANGED <<m, made, running, inTurn, crashed>> /\ ~crashed
  <2>1. ~crashed
    BY DEF CallStart, RefuseConfig, AcceptConfig, NoMulticast, CallTakeOver, CallStop, StopFails,
           CallSend, Send, CallRecv, Recv, RecvPacket, RecvError
  <2>2. CASE Send \/ Recv
    BY <2>1, <2>2, Uses DEF MInv
  <2>3. CASE ~(Send \/ Recv)
    BY <2>1, <2>3 DEF CallStart, RefuseConfig, AcceptConfig, NoMulticast, CallTakeOver, CallStop,
           StopFails, CallSend, CallRecv, RecvPacket, RecvError
  <2> QED BY <2>2, <2>3
<1>2. Parts' /\ CrashedAtRest' /\ ControlFinds'
  BY <1>1 DEF MInv, Parts, CrashedAtRest, ControlFinds, StartSteps
<1>3. CASE CallSend \/ Send \/ CallRecv \/ Recv \/ RecvPacket \/ RecvError
  <2>1. UNCHANGED <<control, session>>
    BY <1>3 DEF CallSend, Send, CallRecv, Recv, RecvPacket, RecvError
  <2>2. Serves' /\ Turns'
    BY <1>1, <2>1 DEF MInv, Serves, Turns
  <2>3. sending' \in {"idle", "checked", "panicked"}
    BY <1>0, <1>3 DEF CallSend, Send, CallRecv, Recv, RecvPacket, RecvError, TypeOK
  <2>4. receiving' \in [at : {"idle", "checked", "reading", "panicked"}, iprwc : 0 .. made]
    <3>1. \/ receiving' = receiving
          \/ receiving' = [at |-> "idle", iprwc |-> 0]
          \/ receiving' = [at |-> "checked", iprwc |-> 0]
          \/ receiving' = [at |-> "reading", iprwc |-> m.iprwc]
      BY <1>1, <1>3, Uses DEF MInv, CallSend, CallRecv, RecvPacket, RecvError
    <3> QED BY <1>0, <3>1, Received
  <2>5. TypeOK'
    BY <1>0, <1>1, <2>1, <2>3, <2>4 DEF TypeOK
  <2>6. Checked' /\ SecondReadFinds'
    <3>1. CASE Send \/ Recv
      <4>1. m.iprwc # 0 /\ m' = m
        BY <1>1, <3>1, Uses DEF MInv
      <4>2. CASE Send
        <5>1. sending' = "idle" /\ receiving' = receiving
          BY <1>1, <4>2, Uses DEF MInv
        <5> QED BY <4>1, <5>1 DEF MInv, Checked, SecondReadFinds
      <4>3. CASE Recv
        <5>1. receiving'.at = "reading" /\ sending' = sending
          BY <1>1, <4>3, Uses DEF MInv
        <5> QED BY <4>1, <5>1 DEF MInv, Checked, SecondReadFinds
      <4> QED BY <3>1, <4>2, <4>3
    <3>2. CASE CallSend
      BY <1>1, <3>2 DEF MInv, Checked, SecondReadFinds, CallSend
    <3>3. CASE CallRecv
      BY <1>1, <3>3 DEF MInv, Checked, SecondReadFinds, CallRecv
    <3>4. CASE RecvPacket \/ RecvError
      <4>1. receiving' = [at |-> "idle", iprwc |-> 0] /\ sending' = sending
        BY <3>4 DEF RecvPacket, RecvError
      <4> QED BY <1>1, <4>1 DEF MInv, Checked, SecondReadFinds
    <3> QED BY <1>3, <3>1, <3>2, <3>3, <3>4
  <2> QED BY <1>2, <2>2, <2>5, <2>6 DEF MInv
<1>4. ASSUME UNCHANGED <<sending, receiving>>,
             session' \in {"none", "open", "tun"},
             control' \in [at : {"idle", "config", "core", "multicast", "filter", "tun",
                                 "stop multicast", "stop tun", "stop core"},
                           config : AnyConfig \cup {"none"}],
             Serves', Turns'
      PROVE  MInv'
  <2>1. TypeOK'
    BY <1>0, <1>1, <1>4 DEF TypeOK
  <2>2. Checked' /\ SecondReadFinds'
    BY <1>1, <1>4 DEF MInv, Checked, SecondReadFinds
  <2> QED BY <1>2, <1>4, <2>1, <2>2 DEF MInv
<1>5. ASSUME NEW c \in Config, CallStart(c) PROVE MInv'
  <2>1. control' = [at |-> "config", config |-> c] /\ UNCHANGED <<session, sending, receiving>>
        /\ control.at = "idle" /\ (inTurn => session = "none")
    BY <1>5 DEF CallStart
  <2>2. Serves' /\ Turns'
    BY <1>1, <2>1 DEF MInv, Serves, Turns, StartSteps
  <2> QED BY <1>0, <1>4, <2>1, <2>2 DEF TypeOK
<1>6. CASE RefuseConfig
  <2>1. control' = [at |-> "idle", config |-> "none"] /\ UNCHANGED <<session, sending, receiving>>
        /\ control.at = "config"
    BY <1>6 DEF RefuseConfig
  <2>2. Serves' /\ Turns'
    BY <1>1, <2>1 DEF MInv, Serves, Turns, StartSteps
  <2> QED BY <1>0, <1>4, <2>1, <2>2 DEF TypeOK
<1>7. CASE AcceptConfig
  <2>1. control'.at = "core" /\ UNCHANGED <<session, sending, receiving>> /\ control.at = "config"
    BY <1>0, <1>7, Moves DEF AcceptConfig
  <2>2. Serves' /\ Turns'
    BY <1>1, <2>1 DEF MInv, Serves, Turns, StartSteps
  <2> QED BY <1>0, <1>4, <1>7, <2>1, <2>2 DEF TypeOK, AcceptConfig, Goto
<1>8. CASE NoMulticast
  <2>1. control'.at = "filter" /\ UNCHANGED <<session, sending, receiving>> /\ control.at = "multicast"
    BY <1>0, <1>8, Moves DEF NoMulticast
  <2>2. Serves' /\ Turns'
    BY <1>1, <2>1 DEF MInv, Serves, Turns, StartSteps
  <2> QED BY <1>0, <1>4, <1>8, <2>1, <2>2 DEF TypeOK, NoMulticast, Goto
<1>9. CASE CallTakeOver
  <2>1. /\ control'.at = "tun" /\ UNCHANGED <<sending, receiving>> /\ control.at = "idle"
        /\ inTurn => session = "open"
        /\ session' = IF session = "open" THEN "tun" ELSE session
    BY <1>0, <1>9, Moves DEF CallTakeOver
  <2>2. Serves' /\ Turns'
    BY <1>1, <2>1 DEF MInv, Serves, Turns, StartSteps
  <2> QED BY <1>0, <1>4, <1>9, <2>1, <2>2 DEF TypeOK, CallTakeOver, Goto
<1>10. CASE CallStop
  <2>1. /\ control'.at = "stop multicast" /\ UNCHANGED <<session, sending, receiving>>
        /\ control.at = "idle" /\ (inTurn => session # "none")
    BY <1>0, <1>10, Moves DEF CallStop
  <2>2. Serves' /\ Turns'
    BY <1>1, <2>1 DEF MInv, Serves, Turns, StartSteps
  <2> QED BY <1>0, <1>4, <1>10, <2>1, <2>2 DEF TypeOK, CallStop, Goto
<1>11. CASE StopFails("stop multicast", "multicast") \/ StopFails("stop tun", "tun")
  <2>1. control' = [at |-> "idle", config |-> "none"] /\ UNCHANGED <<session, sending, receiving>>
        /\ control.at \in {"stop multicast", "stop tun"}
    BY <1>11 DEF StopFails
  <2>2. Serves' /\ Turns'
    BY <1>1, <2>1 DEF MInv, Serves, Turns, StartSteps
  <2> QED BY <1>0, <1>4, <2>1, <2>2 DEF TypeOK
<1> QED BY <1>3, <1>5, <1>6, <1>7, <1>8, <1>9, <1>10, <1>11

\* Panics: nothing runs any more.
LEMMA CrashStep ==
  ASSUME MInv,
         \/ RequireKeys \/ CoreFails \/ BadInterface \/ FilterFails
         \/ TakeOverNothing \/ StopNothing \/ AskNothing
  PROVE  MInv'
<1>0. TypeOK /\ Parts /\ Serves /\ Turns
  BY DEF MInv
<1>1. ~crashed /\ crashed' = TRUE /\ running' = {}
      /\ UNCHANGED <<m, made, control, session, inTurn, sending, receiving>>
  BY DEF RequireKeys, CoreFails, BadInterface, FilterFails, TakeOverNothing, StopNothing,
         AskNothing, Crash, At, app
<1>2. TypeOK' /\ Parts' /\ Serves' /\ Turns' /\ CrashedAtRest' /\ Checked' /\ SecondReadFinds'
  BY <1>0, <1>1 DEF MInv, TypeOK, Parts, Serves, Turns, CrashedAtRest, Checked, SecondReadFinds
<1>3. CASE RequireKeys \/ CoreFails \/ BadInterface \/ FilterFails
  BY <1>1, <1>2, <1>3 DEF MInv, ControlFinds, StartSteps, RequireKeys, CoreFails, BadInterface,
                          FilterFails, At
<1>4. CASE TakeOverNothing \/ StopNothing \/ AskNothing
  <2>1. m.iprwc = 0 /\ (inTurn => session # "none" /\ control.at \in {"tun", "stop core"})
    BY <1>0, <1>1, <1>4 DEF TakeOverNothing, StopNothing, AskNothing, At, Parts, Turns
  <2>2. ~inTurn
    <3> SUFFICES ASSUME inTurn PROVE FALSE
      OBVIOUS
    <3>1. m.iprwc = m.core /\ m.core \in running
      BY <1>0, <1>1, <2>1 DEF Serves
    <3>2. running \subseteq 1 .. made /\ made \in Nat
      BY <1>0, Fields
    <3>3. m.core \in 1 .. made
      BY <3>1, <3>2
    <3>4. m.core # 0
      BY <3>2, <3>3
    <3> QED BY <2>1, <3>1, <3>4
  <2> QED BY <1>1, <1>2, <2>1, <2>2 DEF MInv, ControlFinds
<1> QED BY <1>3, <1>4

\* New of a part.
LEMMA NewStep ==
  ASSUME MInv, NewCore \/ NewMulticast \/ TakeOver
  PROVE  MInv'
<1>0. TypeOK /\ Parts /\ Serves /\ Turns
  BY DEF MInv
<1>1. ~crashed /\ UNCHANGED <<inTurn, session, sending, receiving, crashed>>
  BY DEF NewCore, NewMulticast, TakeOver, At, app
<1>2. CrashedAtRest' /\ ControlFinds' /\ SecondReadFinds'
  BY <1>1 DEF MInv, CrashedAtRest, ControlFinds, SecondReadFinds
<1>3. ASSUME m' \in [core : 0 .. made', iprwc : 0 .. made', multicast : 0 .. made', tun : 0 .. made'],
             made' \in {made, made + 1}, running' \subseteq 1 .. made',
             control' \in [at : {"idle", "config", "core", "multicast", "filter", "tun",
                                 "stop multicast", "stop tun", "stop core"},
                           config : AnyConfig \cup {"none"}]
      PROVE  TypeOK'
  <2>1. made' \in Nat /\ receiving' \in [at : {"idle", "checked", "reading", "panicked"}, iprwc : 0 .. made']
    <3>1. made' \in Nat /\ 0 .. made \subseteq 0 .. made'
      <4>1. made \in Nat /\ made' \in {made, made + 1}
        BY <1>0, <1>3, Fields
      <4> QED BY <4>1
    <3> QED BY <1>0, <1>1, <3>1 DEF TypeOK
  <2> QED BY <1>0, <1>1, <1>3, <2>1 DEF TypeOK
<1>4. CASE NewCore
  <2>1. control.at = "core" /\ control'.at = "multicast"
    BY <1>0, <1>4, Moves DEF NewCore, At
  <2>2. Make("core")
    BY <1>4 DEF NewCore
  <2>3. TypeOK'
    <3>1. made' \in {made, made + 1} /\ running' \subseteq 1 .. made'
      BY <1>0, <2>2, MakeCore, Fields
    <3>2. control' \in [at : {"idle", "config", "core", "multicast", "filter", "tun",
                              "stop multicast", "stop tun", "stop core"},
                        config : AnyConfig \cup {"none"}]
      BY <1>0, <1>4 DEF NewCore, Goto, TypeOK
    <3> QED BY <1>0, <1>3, <2>2, <3>1, <3>2, MakeCore
  <2>4. Parts' /\ Serves' /\ Turns'
    BY <1>0, <1>1, <2>1, <2>2, MakeCore, Fields DEF Parts, Serves, Turns, StartSteps
  <2>5. Checked'
    BY <1>0, <1>1, <2>2, MakeCore DEF MInv, Checked
  <2> QED BY <1>2, <2>3, <2>4, <2>5 DEF MInv
<1>5. CASE NewMulticast
  <2>1. control.at = "multicast" /\ control'.at = "filter"
    BY <1>0, <1>5, Moves DEF NewMulticast, At
  <2>2. Make("multicast") \/ MakeFails("multicast")
    BY <1>5 DEF NewMulticast
  <2>3. TypeOK'
    BY <1>0, <1>3, <1>5, <2>2, MakeMulticast DEF NewMulticast, Goto, TypeOK
  <2>4. Parts' /\ Serves' /\ Turns'
    BY <1>0, <1>1, <2>1, <2>2, MakeMulticast, Fields DEF Parts, Serves, Turns, StartSteps
  <2>5. Checked'
    BY <1>0, <1>1, <2>2, MakeMulticast DEF MInv, Checked
  <2> QED BY <1>2, <2>3, <2>4, <2>5 DEF MInv
<1>6. CASE TakeOver
  <2>1. control.at = "tun" /\ control' = Idle
    BY <1>6 DEF TakeOver, At
  <2>2. Make("tun") \/ MakeFails("tun")
    BY <1>6 DEF TakeOver
  <2>3. TypeOK'
    BY <1>0, <1>3, <2>1, <2>2, MakeTUN DEF Idle
  <2>4. Parts' /\ Serves' /\ Turns'
    BY <1>0, <1>1, <2>1, <2>2, MakeTUN, Fields DEF Parts, Serves, Turns, StartSteps, Idle
  <2>5. Checked'
    BY <1>0, <1>1, <2>2, MakeTUN DEF MInv, Checked
  <2> QED BY <1>2, <2>3, <2>4, <2>5 DEF MInv
<1> QED BY <1>4, <1>5, <1>6

\* Publish, and what is stopped.
LEMMA StopStep ==
  ASSUME MInv,
         \/ Publish \/ StopCore
         \/ StopPart("stop multicast", "multicast", "stop tun")
         \/ StopPart("stop tun", "tun", "stop core")
  PROVE  MInv'
<1>0. TypeOK /\ Parts /\ Serves /\ Turns
  BY DEF MInv
<1>1. ~crashed /\ UNCHANGED <<inTurn, made, sending, receiving, crashed>>
  BY DEF Publish, StopCore, StopPart, At, app
<1>2. CrashedAtRest' /\ ControlFinds' /\ SecondReadFinds'
  BY <1>1 DEF MInv, CrashedAtRest, ControlFinds, SecondReadFinds
<1>3. CASE Publish
  <2>1. /\ control.at = "filter" /\ control' = Idle /\ session' = "open" /\ running' = running
        /\ m' = [m EXCEPT !.iprwc = m.core]
    BY <1>3 DEF Publish, At
  <2>2. /\ m'.iprwc = m.core /\ m'.core = m.core /\ m'.multicast = m.multicast /\ m'.tun = m.tun
        /\ m' \in [core : 0 .. made, iprwc : 0 .. made, multicast : 0 .. made, tun : 0 .. made]
    BY <1>0, <2>1 DEF TypeOK
  <2>3. TypeOK'
    BY <1>0, <1>1, <2>1, <2>2 DEF TypeOK, Idle
  <2>4. Parts' /\ Serves' /\ Turns'
    BY <1>0, <1>1, <2>1, <2>2 DEF Parts, Serves, Turns, StartSteps, Idle
  <2>5. Checked'
    <3>1. m.core # 0
      BY <1>0, <1>1, <2>1, Fields DEF Serves
    <3> QED BY <2>2, <3>1 DEF Checked
  <2> QED BY <1>2, <2>3, <2>4, <2>5 DEF MInv
<1>4. CASE StopCore
  <2>1. /\ control.at = "stop core" /\ control' = Idle /\ session' = "none" /\ m' = m
        /\ running' = running \ {m.core}
    BY <1>4 DEF StopCore, At
  <2>2. TypeOK'
    BY <1>0, <1>1, <2>1 DEF TypeOK, Idle
  <2>3. Parts' /\ Serves' /\ Turns' /\ Checked'
    BY <1>0, <1>1, <2>1 DEF MInv, Parts, Serves, Turns, Checked, StartSteps, Idle
  <2> QED BY <1>2, <2>2, <2>3 DEF MInv
<1>5. CASE StopPart("stop multicast", "multicast", "stop tun")
  <2>1. /\ control.at = "stop multicast" /\ control'.at = "stop tun" /\ UNCHANGED <<m, session>>
        /\ running' = running \ {m.multicast}
    BY <1>0, <1>5, Moves DEF StopPart, At
  <2>2. TypeOK'
    BY <1>0, <1>1, <1>5, <2>1 DEF TypeOK, StopPart, Goto
  <2>3. Parts' /\ Serves' /\ Turns'
    BY <1>0, <1>1, <2>1, PartStops
  <2>4. Checked'
    BY <1>1, <2>1 DEF MInv, Checked
  <2> QED BY <1>2, <2>2, <2>3, <2>4 DEF MInv
<1>6. CASE StopPart("stop tun", "tun", "stop core")
  <2>1. /\ control.at = "stop tun" /\ control'.at = "stop core" /\ UNCHANGED <<m, session>>
        /\ running' = running \ {m.tun}
    BY <1>0, <1>6, Moves DEF StopPart, At
  <2>2. TypeOK'
    BY <1>0, <1>1, <1>6, <2>1 DEF TypeOK, StopPart, Goto
  <2>3. Parts' /\ Serves' /\ Turns'
    BY <1>0, <1>1, <2>1, PartStops
  <2>4. Checked'
    BY <1>1, <2>1 DEF MInv, Checked
  <2> QED BY <1>2, <2>2, <2>3, <2>4 DEF MInv
<1> QED BY <1>3, <1>4, <1>5, <1>6

-----------------------------------------------------------------------------

\* The invariant of the binding.
THEOREM MobileInvariance == Spec => []MInv
<1>1. Init => MInv
  <2> SUFFICES ASSUME Init PROVE MInv
    OBVIOUS
  <2>1. m \in [core : 0 .. made, iprwc : 0 .. made, multicast : 0 .. made, tun : 0 .. made]
        /\ receiving \in [at : {"idle", "checked", "reading", "panicked"}, iprwc : 0 .. made]
    BY DEF Init
  <2>2. TypeOK
    BY <2>1 DEF Init, TypeOK, Idle
  <2>3. Parts /\ Serves /\ Turns /\ CrashedAtRest /\ Checked /\ ControlFinds /\ SecondReadFinds
    BY DEF Init, Parts, Serves, Turns, CrashedAtRest, Checked, ControlFinds, SecondReadFinds,
           Idle, StartSteps
  <2> QED BY <2>2, <2>3 DEF MInv
<1>2. MInv /\ [Next]_vars => MInv'
  <2> SUFFICES ASSUME MInv, [Next]_vars PROVE MInv'
    OBVIOUS
  <2>1. CASE Next
    BY <2>1, CallStep, CrashStep, NewStep, StopStep DEF Next
  <2>2. CASE UNCHANGED vars
    <3>1. TypeOK' /\ Parts' /\ CrashedAtRest'
      BY <2>2 DEF vars, MInv, TypeOK, Parts, CrashedAtRest
    <3>2. Serves' /\ Turns' /\ Checked' /\ ControlFinds' /\ SecondReadFinds'
      BY <2>2 DEF vars, MInv, Serves, Turns, Checked, ControlFinds, SecondReadFinds
    <3> QED BY <3>1, <3>2 DEF MInv
  <2> QED BY <2>1, <2>2
<1> QED BY <1>1, <1>2, PTL DEF Spec

\* Only a part that a field of m holds runs.
THEOREM NothingIsLost == Spec => []NothingLost
<1>1. MInv => NothingLost
  <2> SUFFICES ASSUME MInv, inTurn PROVE running \subseteq {m.core, m.multicast, m.tun}
    BY DEF NothingLost
  <2>1. session \in {"none", "open", "tun"} /\ control.at \in
          {"idle", "config", "core", "multicast", "filter", "tun",
           "stop multicast", "stop tun", "stop core"}
    BY DEF MInv, TypeOK
  <2> QED BY <2>1 DEF MInv, Turns, CrashedAtRest, StartSteps
<1> QED BY <1>1, MobileInvariance, PTL

\* A Stop that returned nil left nothing that runs.
THEOREM StopIsWhole == Spec => []StopLeavesNothing
<1>1. MInv => StopLeavesNothing
  BY DEF MInv, Turns, StopLeavesNothing, At
<1> QED BY <1>1, MobileInvariance, PTL

\* Packets go through the core of the last start.
THEOREM ServesSafe == Spec => []ServesCurrent
<1>1. MInv => ServesCurrent
  BY DEF MInv, Serves, ServesCurrent, At
<1> QED BY <1>1, MobileInvariance, PTL

\* Nothing but a start panics once one has returned nil, whatever the sender and the
\* receiver do meanwhile.
THEOREM PanicsSafe == Spec => []OnlyStartPanics
<1>1. MInv => OnlyStartPanics
  BY DEF MInv, OnlyStartPanics
<1> QED BY <1>1, MobileInvariance, PTL

-----------------------------------------------------------------------------
(* What RecvReturns rests on, besides fairness.                            *)

\* By turns, what runs while no start has returned nil is not what m.iprwc names,
\* nor what a receiver reads from.
StaleReads ==
  inTurn /\ session = "none" =>
    m.iprwc \notin running /\ (receiving.at = "reading" => receiving.iprwc \notin running)

LEMMA StaleKept ==
  ASSUME TypeOK, StaleReads, NEW x, x > made, running' \subseteq running \cup {0, x},
         0 \notin running', m'.iprwc = m.iprwc, UNCHANGED <<inTurn, session, receiving>>
  PROVE  StaleReads'
<1>1. /\ made \in Nat /\ m.iprwc \in 0 .. made /\ receiving.iprwc \in 0 .. made
  BY Fields DEF TypeOK
<1>2. \A i \in 0 .. made : i \in running' => i \in running
  BY <1>1
<1> QED BY <1>1, <1>2 DEF StaleReads

LEMMA StaleStep ==
  ASSUME MInv, MInv', StaleReads, [Next]_vars
  PROVE  StaleReads'
<1> USE DEF NoPart, At, app
<1>0. TypeOK /\ TypeOK' /\ made + 1 > made /\ 0 \notin running /\ 0 \notin running'
  <2>1. made' \in Nat /\ running' \subseteq 1 .. made'
    BY DEF MInv, TypeOK
  <2>2. \A i \in 1 .. made' : i # 0
    BY <2>1
  <2>3. made \in Nat /\ 0 \notin running
    BY Fields DEF MInv
  <2> QED BY <2>1, <2>2, <2>3 DEF MInv
<1>1. CASE UNCHANGED <<inTurn, m, running, session, receiving>>
  BY <1>1 DEF StaleReads
<1>2. ASSUME running' = {} PROVE StaleReads'
  BY <1>2 DEF StaleReads
<1>3. ASSUME NEW f, f # "iprwc", Make(f) \/ MakeFails(f), UNCHANGED <<inTurn, session, receiving>>
      PROVE  StaleReads'
  <2>1. running' \subseteq running \cup {0, made + 1}
    BY <1>3 DEF Make, MakeFails
  <2>2. m'.iprwc = m.iprwc
    BY <1>0, <1>3 DEF Make, MakeFails, TypeOK
  <2> QED BY <1>0, <1>3, <2>1, <2>2, StaleKept
<1>4. CASE NewCore \/ NewMulticast \/ TakeOver
  BY <1>3, <1>4 DEF NewCore, NewMulticast, TakeOver
<1>5. CASE Publish
  BY <1>5 DEF Publish, StaleReads
<1>6. CASE StopCore
  <2>1. inTurn => running' = {}
    BY <1>6 DEF StopCore, MInv, Turns
  <2> QED BY <1>6, <2>1 DEF StopCore, StaleReads
<1>7. CASE \/ StopPart("stop multicast", "multicast", "stop tun")
           \/ StopPart("stop tun", "tun", "stop core")
  BY <1>7 DEF StopPart, StaleReads
<1>8. CASE CallTakeOver
  BY <1>8 DEF CallTakeOver, StaleReads
<1>9. CASE CallRecv \/ Recv \/ RecvPacket \/ RecvError
  <2>1. UNCHANGED <<inTurn, m, running, session>>
    <3>1. CASE Recv
      BY <3>1, Uses DEF MInv, Recv
    <3>2. CASE CallRecv \/ RecvPacket \/ RecvError
      BY <3>2 DEF CallRecv, RecvPacket, RecvError
    <3> QED BY <1>9, <3>1, <3>2
  <2>2. receiving'.at = "reading" => receiving'.iprwc = m.iprwc
    BY <1>9 DEF CallRecv, Recv, RecvPacket, RecvError
  <2> QED BY <2>1, <2>2 DEF StaleReads
<1>10. CASE \/ RequireKeys \/ CoreFails \/ BadInterface \/ FilterFails
            \/ TakeOverNothing \/ StopNothing \/ AskNothing
  BY <1>2, <1>10 DEF RequireKeys, CoreFails, BadInterface, FilterFails, TakeOverNothing,
     StopNothing, AskNothing, Crash
<1>11. CASE \/ (\E c \in Config : CallStart(c)) \/ RefuseConfig \/ AcceptConfig
            \/ NoMulticast \/ CallStop \/ CallSend
            \/ StopFails("stop multicast", "multicast") \/ StopFails("stop tun", "tun")
            \/ UNCHANGED vars
  BY <1>1, <1>11 DEF CallStart, RefuseConfig, AcceptConfig, NoMulticast, CallStop, CallSend,
     StopFails, vars
<1>12. CASE Send
  <2>1. UNCHANGED <<inTurn, m, running, session, receiving>>
    BY <1>12, Uses DEF MInv, Send
  <2> QED BY <1>1, <2>1
<1> QED
  BY <1>4, <1>5, <1>6, <1>7, <1>8, <1>9, <1>10, <1>11, <1>12 DEF Next

\* A Recv that is under way when no core is open has an error to return, and keeps
\* it until StartJSON returns nil: a later start never revives what it reads from.
THEOREM ReadsFail ==
  Spec => [](inTurn /\ session = "none" /\ receiving.at = "reading" =>
               receiving.iprwc \notin running)
<1>1. Init => StaleReads
  BY DEF Init, StaleReads
<1>2. MInv /\ MInv' /\ StaleReads /\ [Next]_vars => StaleReads'
  BY StaleStep
<1>3. StaleReads => (inTurn /\ session = "none" /\ receiving.at = "reading" =>
                       receiving.iprwc \notin running)
  BY DEF StaleReads
<1> QED BY <1>1, <1>2, <1>3, MobileInvariance, PTL DEF Spec
=============================================================================
