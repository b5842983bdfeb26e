------------------------------ MODULE ClientProofs ------------------------------
(***************************************************************************)
(* The client beside the node, for any number of launches: what is proved  *)
(* of the node goes for it with the client beside it too.                  *)
(***************************************************************************)
EXTENDS Client, NodeProofs

\* A client that dials goes where its flag and the file say.
Chosen == step = "dial" => endpoint = SetEndpoint(flag)

ClientInv == Inv /\ ClientTypeOK /\ Chosen

-----------------------------------------------------------------------------

LEMMA LivesCount ==
  ASSUME Next
  PROVE  life' \in {life, life + 1}
<1>1. CASE Main
  <2>1. ASSUME NEW p \in Part, Start(p) \/ Stop(p) PROVE life' = life
    BY <2>1 DEF Start, Stop
  <2>2. ASSUME NEW c \in Cred, Drop(c) PROVE life' = life
    BY <2>2 DEF Drop
  <2>3. ASSUME ReadConfig \/ PrintOnly \/ Fail \/ NoDNS \/ RunScutil \/ ScutilReturns PROVE life' = life
    BY <2>3 DEF ReadConfig, PrintOnly, Fail, NoDNS, RunScutil, ScutilReturns
  <2>4. ASSUME SetOnExit \/ Pledge \/ Wake \/ Exit PROVE life' = life
    BY <2>4 DEF SetOnExit, Pledge, Wake, Exit, Gone
  <2> QED BY <1>1, <2>1, <2>2, <2>3, <2>4 DEF Main
<1>2. CASE Child
  <2>1. ASSUME Spawn \/ ScutilFails \/ Feed \/ Obey PROVE life' = life
    BY <2>1 DEF Spawn, ScutilFails, Feed, Obey, Scutil
  <2>2. ASSUME WriterPanics PROVE life' = life
    BY <2>2 DEF WriterPanics, Die, Gone
  <2> QED BY <1>2, <2>1, <2>2 DEF Child
<1>3. CASE Kill
  BY <1>3 DEF Kill, Die, Gone
<1>4. CASE \E u \in BOOLEAN, uid \in {"root", "other"} : Launch(u, uid)
  BY <1>4 DEF Launch
<1>5. CASE Signal \/ ServiceStop \/ CallbackReturns
  BY <1>5 DEF Signal, ServiceStop, CallbackReturns
<1> QED BY <1>1, <1>2, <1>3, <1>4, <1>5 DEF Next

LEMMA EndpointFacts ==
  ASSUME file \in File, NEW f \in Flag \cup {"default"}
  PROVE  SetEndpoint(f) \in Endpoint
BY ClientAssumption DEF SetEndpoint, Endpoint

LEMMA ClientInitInv == ASSUME ClientInit PROVE ClientInv
<1>1. Inv
  BY InitInv DEF ClientInit
<1>2. TypeOK /\ life \in Nat
  BY <1>1 DEF Inv, TypeOK
<1>3. ClientTypeOK /\ Chosen
  <2>1. 0 \in 0 .. life
    BY <1>2
  <2> QED BY <1>2, <2>1 DEF ClientInit, ClientTypeOK, Chosen, Endpoint
<1> QED BY <1>1, <1>3 DEF ClientInv

LEMMA NodeStepInv ==
  ASSUME ClientInv, Next \/ UNCHANGED vars, UNCHANGED <<file, client>>
  PROVE  ClientInv'
<1>1. Inv' /\ TypeOK'
  BY StepInv DEF ClientInv, Inv
<1>2. life \in Nat /\ life' \in {life, life + 1}
  BY LivesCount DEF ClientInv, Inv, TypeOK, vars
<1>3. conn' \in 0 .. life'
  BY <1>2 DEF ClientInv, ClientTypeOK, client
<1>4. ClientTypeOK'
  BY <1>1, <1>3 DEF ClientInv, ClientTypeOK, client
<1>5. Chosen'
  BY DEF ClientInv, Chosen, SetEndpoint, client
<1> QED BY <1>1, <1>4, <1>5 DEF ClientInv

\* A step of the client leaves the node alone.
LEMMA ClientStepInv ==
  ASSUME ClientInv, UNCHANGED <<vars, file>>,
         \/ PrintUsage \/ Continue \/ HangUp
         \/ \E f \in Flag : Begin(f)
         \/ \E s \in {"success", "error"} : Answer(s)
  PROVE  ClientInv'
<1>1. Inv'
  BY StepInv DEF ClientInv
<1>0. TypeOK' /\ life' = life /\ life \in Nat /\ file' = file /\ file \in File /\ ClientTypeOK
  BY <1>1 DEF ClientInv, ClientTypeOK, Inv, TypeOK, vars
<1>2. ASSUME step' = "over", status' \in {0, 1}, fatal' \in BOOLEAN, flag' = "default",
             endpoint' = "unix", conn' = 0, recv' \in {"none", "success", "error"}
      PROVE  ClientInv'
  BY <1>0, <1>1, <1>2 DEF ClientInv, ClientTypeOK, Chosen, Endpoint
<1>3. CASE PrintUsage \/ DialFails \/ DecodeFails \/ HangUp \/ Refused \/ Render
  <2>1. recv' \in {"none", "success", "error"}
    BY <1>0, <1>3 DEF ClientTypeOK, PrintUsage, DialFails, DecodeFails, HangUp, Refused, Render
  <2>2. \E s \in {0, 1}, f \in BOOLEAN : Over(s, f)
    BY <1>3 DEF PrintUsage, DialFails, DecodeFails, HangUp, Refused, Render, Fatal
  <2> QED BY <1>2, <2>1, <2>2 DEF Over
<1>4. CASE Connect
  <2>1. life >= 1
    <3>1. phase # "none"
      BY <1>4 DEF Connect, Serving, ClientInv, Inv, PartsInv
    <3> QED BY <3>1 DEF ClientInv, Inv, EntriesInv
  <2> QED BY <1>0, <1>1, <1>4, <2>1 DEF Connect, ClientInv, ClientTypeOK, Chosen
<1>5. ASSUME NEW s \in {"success", "error"}, Answer(s) PROVE ClientInv'
  BY <1>0, <1>1, <1>5 DEF Answer, ClientInv, ClientTypeOK, Chosen
<1>6. ASSUME NEW f \in Flag, Begin(f) PROVE ClientInv'
  <2>1. CASE f \in {"default", "unix"} /\ file = "garbage"
    BY <1>2, <1>6, <2>1 DEF Begin, Fatal, Over
  <2>2. CASE ~(f \in {"default", "unix"} /\ file = "garbage")
    <3>1. /\ step' = "dial" /\ flag' = f /\ endpoint' = SetEndpoint(f) /\ conn' = 0
          /\ fatal' = FALSE /\ status' = 0 /\ recv' = "none"
      BY <1>6, <2>2 DEF Begin
    <3>2. SetEndpoint(f) \in Endpoint /\ SetEndpoint(f)' = SetEndpoint(f)
      BY <1>0, EndpointFacts DEF SetEndpoint
    <3>3. ClientTypeOK'
      <4>1. conn' \in 0 .. life' /\ (conn' = 0 <=> step' \in {"dial", "over"})
        BY <1>0, <3>1
      <4>2. flag' \in Flag \cup {"default"} /\ endpoint' \in Endpoint
        BY <3>1, <3>2
      <4> QED BY <1>0, <3>1, <4>1, <4>2 DEF ClientTypeOK
    <3>4. Chosen'
      BY <1>0, <3>1, <3>2 DEF Chosen, SetEndpoint
    <3> QED BY <1>1, <3>3, <3>4 DEF ClientInv
  <2> QED BY <2>1, <2>2
<1> QED BY <1>3, <1>4, <1>5, <1>6 DEF Continue

\* The invariant of node and client.
THEOREM ClientInvariance == ClientSpec => []ClientInv
<1>1. ClientInit => ClientInv
  BY ClientInitInv
<1>2. ClientInv /\ [ClientNext]_clientVars => ClientInv'
  BY NodeStepInv, ClientStepInv DEF ClientNext, NodeStep, clientVars
<1> QED BY <1>1, <1>2, PTL DEF ClientSpec

\* Types.
THEOREM ClientTypeCorrect == ClientSpec => []ClientTypeOK
BY ClientInvariance, PTL DEF ClientInv

\* A node that is asked is as safe as one that is not.
THEOREM NodeSafe ==
  ClientSpec => [](CoreOutlivesParts /\ DropsAllOrNothing /\ CleanExit /\ CallbackWaits)
<1>1. ClientInv => CoreOutlivesParts /\ DropsAllOrNothing /\ CleanExit /\ CallbackWaits
  BY DEF ClientInv, Inv, PartsInv, CredsInv, EntriesInv, CallbackWaits
<1> QED BY <1>1, ClientInvariance, PTL

\* The node beside a client behaves as one without: no request moves it, and what
\* the default configuration file holds only takes steps away from it.
THEOREM ClientImplementsNode == ClientSpec => Spec
<1>1. ClientInit => Init
  BY DEF ClientInit
<1>2. [ClientNext]_clientVars => [Next]_vars
  BY DEF ClientNext, NodeStep, clientVars
<1> QED BY <1>1, <1>2, PTL DEF ClientSpec, Spec

\* Without -endpoint the client goes where the node listens.
THEOREM FindsSafe == ClientSpec => []FindsTheNode
<1>1. ClientInv => FindsTheNode
  <2> SUFFICES ASSUME ClientInv, step = "dial", flag = "default"
               PROVE  Door = endpoint \/ Door \in {"none", "missing", "garbage"}
    BY DEF FindsTheNode
  <2>1. file \in {"missing", "garbage", "absent", "none", "unix", "tcp"}
    BY ClientAssumption DEF ClientInv, ClientTypeOK
  <2>2. endpoint = IF file \in {"unix", "tcp"} THEN file ELSE "unix"
    BY DEF ClientInv, Chosen, SetEndpoint
  <2>3. Door = IF file = "absent" THEN "unix" ELSE file
    BY Zenon DEF Door
  <2> QED BY <2>1, <2>2, <2>3
<1> QED BY <1>1, ClientInvariance, PTL

-----------------------------------------------------------------------------
(* What WaitEnds rests on, besides fairness.                               *)

\* Only a launch brings a process where there was none.
LEMMA OnlyLaunchRevives ==
  ASSUME Inv, Next, phase = "none", phase' # "none"
  PROVE  life' = life + 1
<1>1. CASE \E u \in BOOLEAN, uid \in {"root", "other"} : Launch(u, uid)
  BY <1>1 DEF Launch
<1>2. CASE Main
  <2>1. ~ScutilReturns
    BY DEF ScutilReturns, Inv, TypeOK
  <2>2. ASSUME Exit PROVE phase' = "none"
    BY <2>2 DEF Exit, Gone
  <2> QED
    BY <1>2, <2>1, <2>2 DEF Main, ReadConfig, PrintOnly, Fail, Start, Stop, NoDNS, RunScutil,
       SetOnExit, Drop, Pledge, Wake
<1>3. CASE Child \/ Kill
  BY <1>3 DEF Child, Spawn, ScutilFails, Feed, Obey, Scutil, WriterPanics, Kill, Die, Gone, proc
<1>4. CASE Signal \/ ServiceStop \/ CallbackReturns
  BY <1>4 DEF Signal, ServiceStop, CallbackReturns, proc
<1> QED BY <1>1, <1>2, <1>3, <1>4 DEF Next

\* A process that is gone does not come back to a client that waits for it, also
\* if the node is launched again: what DecodeFails waits for stays.
THEOREM GoneForGood ==
  ClientSpec => [][step = "wait" /\ HungUp /\ step' = "wait" => HungUp']_clientVars
<1>1. ClientInv /\ [ClientNext]_clientVars =>
        [step = "wait" /\ HungUp /\ step' = "wait" => HungUp']_clientVars
  <2> SUFFICES ASSUME ClientInv, ClientNext, step = "wait", HungUp, step' = "wait"
               PROVE  HungUp'
    OBVIOUS
  <2>0. life \in Nat /\ conn \in 0 .. life
    BY DEF ClientInv, ClientTypeOK, TypeOK
  <2>1. CASE NodeStep
    <3>1. Next /\ conn' = conn
      BY <2>1 DEF NodeStep, client
    <3>2. life' \in {life, life + 1} /\ (phase = "none" /\ phase' # "none" => life' = life + 1)
      BY <3>1, LivesCount, OnlyLaunchRevives DEF ClientInv
    <3>3. CASE life # conn
      BY <2>0, <3>1, <3>2, <3>3 DEF HungUp
    <3>4. CASE phase = "none"
      BY <2>0, <3>1, <3>2, <3>4 DEF HungUp
    <3> QED BY <3>3, <3>4 DEF HungUp
  <2>2. CASE UNCHANGED <<vars, file>>
    <3>1. UNCHANGED <<life, phase>>
      BY <2>2 DEF vars, proc
    <3>2. conn' = conn
      BY <2>2, <2>1 DEF ClientNext, NodeStep, client, PrintUsage, Begin, Continue, Connect,
         DialFails, DecodeFails, Refused, Render, HangUp, Answer, Over, Fatal
    <3> QED BY <3>1, <3>2 DEF HungUp
  <2> QED BY <2>1, <2>2 DEF ClientNext
<1> QED BY <1>1, ClientInvariance, PTL DEF ClientSpec
=============================================================================
