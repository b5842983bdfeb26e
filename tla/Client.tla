-------------------------------- MODULE Client --------------------------------
(***************************************************************************)
(* The admin client, cmd/yggdrasilctl, beside the node it asks: one        *)
(* request over a connection to the admin socket, and an answer that it    *)
(* waits for without a timeout, while the node may stop, die, or be        *)
(* launched again.                                                         *)
(*                                                                         *)
(* Client and node read the same configuration file, the default one, each *)
(* with code of its own, to know where the socket is.                      *)
(***************************************************************************)
EXTENDS Node

CONSTANTS
  File,    \* what the default configuration file may be: "missing", "garbage",
           \* "absent" (without AdminListen), "none", "unix" or "tcp"
  Flag     \* what -endpoint may be: "default", which is also what it is if it is
           \* not given, or another endpoint

\* Endpoints, "unix" for the default of the platform.  The last two are a scheme
\* that is not supported, and what url.Parse refuses.
Endpoint == {"unix", "tcp", "odd", "bad"}

ASSUME ClientAssumption ==
  /\ File \subseteq {"missing", "garbage", "absent", "none", "unix", "tcp"}
  /\ Flag \subseteq {"default"} \cup Endpoint

VARIABLES
  file,       \* the default configuration file
  step,       \* "dial", "wait", "read", and "over" outside a run of the client
  flag,       \* -endpoint
  endpoint,   \* cmdLineEnv.endpoint
  conn,       \* the launch of the node at the other end, 0 for none
  recv,       \* recv.Status: "none", "success" or "error"
  fatal,      \* the last run panicked
  status      \* and exited with

client == <<step, flag, endpoint, conn, recv, fatal, status>>
clientVars == <<vars, file, client>>

ClientInit ==
  /\ Init
  /\ file \in File
  /\ step = "over" /\ flag = "default" /\ endpoint = "unix"
  /\ conn = 0 /\ recv = "none" /\ fatal = FALSE /\ status = 0

-----------------------------------------------------------------------------
(* The node's side.                                                        *)

\* Where the admin socket of a node with this file is.  GenerateConfig fills in
\* the default before the file is read; admin.New refuses to listen at "none".
Door == CASE file = "absent" -> "unix" [] OTHER -> file

\* The node of this launch accepts connections.
Serving == "admin" \in running

\* A node without its file panics, and "none" leaves the admin socket off.
NodeStep ==
  /\ Next
  /\ file \in {"missing", "garbage"} => at' \notin Part
  /\ file = "none" => "admin" \notin running'
  /\ UNCHANGED <<file, client>>

-----------------------------------------------------------------------------
(* The run of the client.                                                  *)

\* os.Exit with what run returns.
Over(s, f) ==
  /\ step' = "over" /\ status' = s /\ fatal' = f
  /\ flag' = "default" /\ endpoint' = "unix" /\ conn' = 0

\* A panic.  The deferred function recovers and returns 1, which nobody receives:
\* run returns the zero value of its result.
Fatal == Over(0, TRUE)

\* -version, or no command.
PrintUsage ==
  /\ step = "over"
  /\ Over(0, FALSE)
  /\ recv' = "none"

Mutant_SetEndpoint_FlagFirst(f) == IF f = "default" THEN "unix" ELSE f
\* setEndpoint.  A flag that equals the default is taken for none.
SetEndpoint(f) ==
  IF f \notin {"default", "unix"} THEN f
  ELSE IF file \in {"unix", "tcp"} THEN file
  ELSE "unix"

\* newCmdLineEnv, the flags, and setEndpoint, which panics over a file that it
\* cannot parse, if it reads it.
Begin(f) ==
  /\ step = "over"
  /\ recv' = "none"
  /\ IF f \in {"default", "unix"} /\ file = "garbage"
     THEN Fatal
     ELSE /\ step' = "dial" /\ flag' = f /\ endpoint' = SetEndpoint(f)
          /\ conn' = 0 /\ fatal' = FALSE /\ status' = 0

Connect ==
  /\ step = "dial"
  /\ endpoint \in {"unix", "tcp"} /\ endpoint = Door /\ Serving
  /\ step' = "wait" /\ conn' = life
  /\ UNCHANGED <<flag, endpoint, recv, fatal, status>>

\* The node does not listen there, or the scheme is not supported.  What does not
\* parse leaves u nil, and the log line before the fallback dereferences it.
DialFails ==
  /\ step = "dial"
  /\ Fatal
  /\ UNCHANGED recv

\* The process at the other end is gone, and the connection with it.
HungUp == phase = "none" \/ life # conn

\* The admin socket answers a request.
Answer(s) ==
  /\ step = "wait" /\ ~HungUp
  /\ recv' = s /\ step' = "read"
  /\ UNCHANGED <<flag, endpoint, conn, fatal, status>>

Mutant_DecodeFails_Retries ==
  /\ step = "wait" /\ HungUp
  /\ UNCHANGED client
\* Encode or Decode fails, because the process of the node is gone.
DecodeFails ==
  /\ step = "wait" /\ HungUp
  /\ Fatal
  /\ UNCHANGED recv

\* The admin socket is stopped, and closes the connection, or does not.
HangUp ==
  /\ step = "wait" /\ ~Serving
  /\ Fatal
  /\ UNCHANGED recv

\* recv.Status is "error".
Refused ==
  /\ step = "read" /\ recv = "error"
  /\ Over(1, FALSE)
  /\ UNCHANGED recv

\* The response is printed, or json.Unmarshal refuses it.
Render ==
  /\ step = "read" /\ recv = "success"
  /\ Over(0, FALSE) \/ Fatal
  /\ UNCHANGED recv

\* The client's own steps once it runs.
Continue == Connect \/ DialFails \/ DecodeFails \/ Refused \/ Render

ClientNext ==
  \/ NodeStep
  \/ /\ \/ PrintUsage
        \/ \E f \in Flag : Begin(f)
        \/ Continue \/ HangUp
        \/ \E s \in {"success", "error"} : Answer(s)
     /\ UNCHANGED <<vars, file>>

ClientSpec == ClientInit /\ [][ClientNext]_clientVars

\* Main and Child as in Node, and the client's process runs.  That the node answers
\* is not assumed.
FairClient ==
  /\ ClientSpec
  /\ WF_vars(Main) /\ WF_vars(Child)
  /\ WF_client(Continue)

-----------------------------------------------------------------------------

ClientTypeOK ==
  /\ TypeOK
  /\ file \in File
  /\ step \in {"dial", "wait", "read", "over"}
  /\ flag \in Flag \cup {"default"}
  /\ endpoint \in Endpoint
  /\ conn \in 0 .. life /\ (conn = 0 <=> step \in {"dial", "over"})
  /\ recv \in {"none", "success", "error"}
  /\ fatal \in BOOLEAN /\ status \in {0, 1}

\* Without -endpoint the client goes where a node with the default configuration
\* file listens, if it listens: two programs that read one file agree about it.
FindsTheNode ==
  step = "dial" /\ flag = "default" => Door = endpoint \/ Door \in {"none", "missing", "garbage"}

\* A client that waits for a node that is told to stop is not left waiting.
WaitEnds == step = "wait" /\ (told \/ onExit = "waiting") ~> step # "wait"

\* "makes sure we can use defer and still return an error code to the OS", says
\* main: a run that ended with "Fatal error" has an exit status that says so.  It
\* does not hold.
FatalIsTold == step = "over" /\ fatal => status # 0
=============================================================================
