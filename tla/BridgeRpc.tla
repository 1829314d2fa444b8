------------------------------ MODULE BridgeRpc ------------------------------
(***************************************************************************)
(* A tool call through the OpenClaw bridge.  The plugin starts a process   *)
(* of accords-mcp for every call, asks it to initialize, calls one tool    *)
(* over its stdin and stdout, and closes it; the process serves one        *)
(* message at a time until its stdin ends.  Requests have timers, the      *)
(* process may fail to start, die or be slow, and what Node reports of it  *)
(* (lines, exit, write errors, timers) comes in any order that the event   *)
(* loop allows.  Calls run side by side; nothing is shared by their        *)
(* processes but the files of the catalog.                                 *)
(*                                                                         *)
(* A continuation of a promise runs before the next event, so what follows *)
(* an await belongs to the action that settles the promise.                *)
(***************************************************************************)
EXTENDS Naturals, Sequences

CONSTANTS
    Calls,      \* tool calls, each made once
    EnvToken,   \* whether the processes find VC_AGENT_TOKEN in their environment
    MaxFaults   \* bound on processes that fail to start, fail to boot, or die

ASSUME BridgeAssumption == EnvToken \in BOOLEAN /\ MaxFaults \in Nat

VARIABLES
    tool,    \* per call: the tool it calls
    bridge,  \* per call: the state of withMcpClient and its NdjsonRpcClient
    server,  \* per call: the process
    stdin,   \* per call: the messages written and not yet read
    stdout,  \* per call: the lines written and not yet read
    faults

bridgeVars == <<tool, bridge, server, stdin, stdout, faults>>

(* "unknown" is a tool in the plugin's list that the process does not have.*)
Tools == {"configure", "status", "unknown"}

Answers == {"configured", "given", "env", "unconfigured"}
Failures == {"start_error", "write_error", "exited", "init_timeout", "call_timeout", "rpc_error"}

(* pending: the ids with an entry in the map, 1 for initialize and 2 for   *)
(* tools/call.  broken: the last write went to a process that was gone.    *)
(* closing: the timer of close.  after (ghost): the calls that had ended   *)
(* when this one began.                                                    *)
BridgeRecords ==
    [pc : {"idle", "init", "call", "done"}, pending : SUBSET {1, 2}, exited : BOOLEAN,
     broken : BOOLEAN, closing : {"no", "armed", "fired"},
     result : Answers \cup Failures \cup {"none"}, after : SUBSET Calls]

(* session: the default scope of the process.  Ghosts: ran, how often the  *)
(* tool was begun; said, its answer; cut, whether SIGTERM came in between. *)
ServerRecords ==
    [pc : {"none", "absent", "boot", "read", "tool", "dead"},
     session : {"none", "given", "env"}, ran : 0 .. 2,
     said : Answers \cup {"none"}, cut : BOOLEAN]

Messages == {"initialize", "initialized", "call", "eof"}
Lines == [id : {1, 2}, body : Answers \cup {"ready", "error"}]

BridgeTypeOK ==
    /\ tool \in [Calls -> Tools]
    /\ bridge \in [Calls -> BridgeRecords]
    /\ server \in [Calls -> ServerRecords]
    /\ stdin \in [Calls -> Seq(Messages)]
    /\ stdout \in [Calls -> Seq(Lines)]
    /\ faults \in 0 .. MaxFaults
    /\ \A c \in Calls :
         /\ bridge[c].pending = (CASE bridge[c].pc = "init" -> {1}
                                   [] bridge[c].pc = "call" -> {2}
                                   [] OTHER -> {})
         /\ bridge[c].exited => server[c].pc \in {"absent", "dead"} /\ bridge[c].pc = "done"

BridgeInit ==
    /\ tool \in [Calls -> Tools]
    /\ bridge = [c \in Calls |->
                   [pc |-> "idle", pending |-> {}, exited |-> FALSE, broken |-> FALSE,
                    closing |-> "no", result |-> "none", after |-> {}]]
    /\ server = [c \in Calls |->
                   [pc |-> "none", session |-> "none", ran |-> 0, said |-> "none", cut |-> FALSE]]
    /\ stdin = [c \in Calls |-> <<>>]
    /\ stdout = [c \in Calls |-> <<>>]
    /\ faults = 0

Gone(c) == server[c].pc \in {"absent", "dead"}

Fault == faults < MaxFaults /\ faults' = faults + 1

-----------------------------------------------------------------------------
(* The plugin.                                                             *)

(* The promise of withMcpClient settles, by way of finally: close ends     *)
(* stdin and arms the timer, unless the process is known to have ended.    *)
Settle(c, result, exited) ==
    /\ bridge' = [bridge EXCEPT ![c].pc = "done", ![c].pending = {}, ![c].result = result,
                                ![c].exited = exited,
                                ![c].closing = IF exited THEN @ ELSE "armed"]
    /\ stdin' = IF exited THEN stdin ELSE [stdin EXCEPT ![c] = Append(@, "eof")]

(* spawn, and the request to initialize.  A command that cannot be started *)
(* shows itself by an event later.                                         *)
Spawn(c) ==
    /\ bridge[c].pc = "idle"
    /\ \/ /\ server' = [server EXCEPT ![c].pc = "boot"]
          /\ UNCHANGED faults
       \/ /\ server' = [server EXCEPT ![c].pc = "absent"]
          /\ Fault
    /\ bridge' = [bridge EXCEPT ![c].pc = "init", ![c].pending = {1},
                                ![c].broken = server'[c].pc = "absent",
                                ![c].after = {d \in Calls : bridge[d].pc = "done"}]
    /\ stdin' = [stdin EXCEPT ![c] = <<"initialize">>]
    /\ UNCHANGED <<tool, stdout>>

(* Mutant: the requests are dropped and nobody is told.                    *)
ExitEventForgets(c) ==
    /\ Gone(c) /\ ~bridge[c].exited
    /\ bridge' = [bridge EXCEPT ![c].exited = TRUE, ![c].pending = {}]
    /\ UNCHANGED <<tool, server, stdin, stdout, faults>>

(* The events "error" and "exit" of the child: every request is rejected.  *)
ExitEvent(c) ==
    /\ Gone(c) /\ ~bridge[c].exited
    /\ IF bridge[c].pending = {}
       THEN /\ bridge' = [bridge EXCEPT ![c].exited = TRUE]
            /\ UNCHANGED stdin
       ELSE Settle(c, IF server[c].pc = "absent" THEN "start_error" ELSE "exited", TRUE)
    /\ UNCHANGED <<tool, server, stdout, faults>>

(* Mutant: "return params.run(client)" without await, so that finally is   *)
(* reached as soon as the call has been sent.                              *)
LineWithoutAwait(c) ==
    /\ stdout[c] # <<>>
    /\ stdout' = [stdout EXCEPT ![c] = Tail(@)]
    /\ LET line == Head(stdout[c])
       IN  \/ /\ line.id \notin bridge[c].pending
              /\ UNCHANGED <<bridge, stdin>>
           \/ /\ line.id = 1 /\ 1 \in bridge[c].pending
              /\ bridge' = [bridge EXCEPT ![c].pc = "call", ![c].pending = {2},
                                          ![c].broken = Gone(c), ![c].closing = "armed"]
              /\ stdin' = [stdin EXCEPT ![c] = @ \o <<"initialized", "call", "eof">>]
           \/ /\ line.id = 2 /\ 2 \in bridge[c].pending
              /\ bridge' = [bridge EXCEPT ![c].pc = "done", ![c].pending = {},
                               ![c].result = IF line.body = "error" THEN "rpc_error" ELSE line.body]
              /\ UNCHANGED stdin
    /\ UNCHANGED <<tool, server, faults>>

(* onLine: the answer to a request that is pending, or to one that is not  *)
(* any more.  An answer to initialize is followed by the notification and  *)
(* the call; exited is false then, since exit leaves nothing pending.      *)
Line(c) ==
    /\ stdout[c] # <<>>
    /\ stdout' = [stdout EXCEPT ![c] = Tail(@)]
    /\ LET line == Head(stdout[c])
       IN  \/ /\ line.id \notin bridge[c].pending
              /\ UNCHANGED <<bridge, stdin>>
           \/ /\ line.id = 1 /\ 1 \in bridge[c].pending
              /\ bridge' = [bridge EXCEPT ![c].pc = "call", ![c].pending = {2},
                                          ![c].broken = Gone(c)]
              /\ stdin' = [stdin EXCEPT ![c] = @ \o <<"initialized", "call">>]
           \/ /\ line.id = 2 /\ 2 \in bridge[c].pending
              /\ Settle(c, IF line.body = "error" THEN "rpc_error" ELSE line.body, FALSE)
    /\ UNCHANGED <<tool, server, faults>>

(* Mutant: a request that times out is sent again.                         *)
TimeoutRetries(c) ==
    /\ bridge[c].pending # {}
    /\ stdin' = [stdin EXCEPT ![c] = Append(@, IF bridge[c].pc = "init" THEN "initialize" ELSE "call")]
    /\ UNCHANGED <<tool, bridge, server, stdout, faults>>

(* The timer of a request: startupTimeoutMs or callTimeoutMs.              *)
Timeout(c) ==
    /\ bridge[c].pending # {}
    /\ Settle(c, IF bridge[c].pc = "init" THEN "init_timeout" ELSE "call_timeout", FALSE)
    /\ UNCHANGED <<tool, server, stdout, faults>>

(* The callback of a write that has found no reader.                       *)
WriteFails(c) ==
    /\ bridge[c].pending # {} /\ bridge[c].broken
    /\ Settle(c, "write_error", FALSE)
    /\ UNCHANGED <<tool, server, stdout, faults>>

(* Mutant: the process is left to notice the end of its stdin.             *)
CloseTimerWaits(c) ==
    /\ bridge[c].closing = "armed"
    /\ bridge' = [bridge EXCEPT ![c].closing = "fired"]
    /\ UNCHANGED <<tool, server, stdin, stdout, faults>>

(* 50 ms after close: SIGTERM, which ends the process wherever it is.      *)
CloseTimer(c) ==
    /\ bridge[c].closing = "armed"
    /\ bridge' = [bridge EXCEPT ![c].closing = "fired"]
    /\ IF bridge[c].exited \/ Gone(c)
       THEN UNCHANGED server
       ELSE server' = [server EXCEPT ![c].pc = "dead", ![c].cut = server[c].pc = "tool"]
    /\ UNCHANGED <<tool, stdin, stdout, faults>>

-----------------------------------------------------------------------------
(* The process.                                                            *)

(* main: the catalog is set up, or the process ends with status 1.         *)
Boot(c) ==
    /\ server[c].pc = "boot"
    /\ \/ /\ server' = [server EXCEPT ![c].pc = "read"]
          /\ UNCHANGED faults
       \/ /\ server' = [server EXCEPT ![c].pc = "dead"]
          /\ Fault
    /\ UNCHANGED <<tool, bridge, stdin, stdout>>

Says(c, id, body) == stdout' = [stdout EXCEPT ![c] = Append(@, [id |-> id, body |-> body])]

(* Serve reads a message and handles it; at the end of stdin it returns.   *)
Serve(c) ==
    /\ server[c].pc = "read" /\ stdin[c] # <<>>
    /\ stdin' = [stdin EXCEPT ![c] = Tail(@)]
    /\ \/ /\ Head(stdin[c]) = "initialize"
          /\ Says(c, 1, "ready")
          /\ UNCHANGED server
       \/ /\ Head(stdin[c]) = "initialized"
          /\ UNCHANGED <<server, stdout>>
       \/ /\ Head(stdin[c]) = "call" /\ tool[c] = "unknown"
          /\ Says(c, 2, "error")
          /\ UNCHANGED server
       \/ /\ Head(stdin[c]) = "call" /\ tool[c] # "unknown"
          /\ server' = [server EXCEPT ![c].pc = "tool", ![c].ran = @ + 1]
          /\ UNCHANGED stdout
       \/ /\ Head(stdin[c]) = "eof"
          /\ server' = [server EXCEPT ![c].pc = "dead"]
          /\ UNCHANGED stdout
    /\ UNCHANGED <<tool, bridge, faults>>

(* The session that the tool leaves in the process, and what it answers.   *)
SessionAfter(c) ==
    CASE tool[c] = "configure" -> "given"
      [] tool[c] = "status" /\ server[c].session = "none" /\ EnvToken -> "env"
      [] OTHER -> server[c].session

AnswerOf(c) ==
    CASE tool[c] = "configure" -> "configured"
      [] tool[c] = "status" /\ SessionAfter(c) # "none" -> SessionAfter(c)
      [] OTHER -> "unconfigured"

(* The handler returns and its answer is written.                          *)
FinishTool(c) ==
    /\ server[c].pc = "tool"
    /\ server' = [server EXCEPT ![c].pc = "read", ![c].session = SessionAfter(c),
                                ![c].said = AnswerOf(c)]
    /\ Says(c, 2, AnswerOf(c))
    /\ UNCHANGED <<tool, bridge, stdin, faults>>

Die(c) ==
    /\ server[c].pc \in {"boot", "read", "tool"}
    /\ server' = [server EXCEPT ![c].pc = "dead"]
    /\ Fault
    /\ UNCHANGED <<tool, bridge, stdin, stdout>>

-----------------------------------------------------------------------------
BridgeNext ==
    \E c \in Calls :
        \/ Spawn(c) \/ ExitEvent(c) \/ Line(c) \/ Timeout(c) \/ WriteFails(c) \/ CloseTimer(c)
        \/ Boot(c) \/ Serve(c) \/ FinishTool(c) \/ Die(c)

(* Node runs its timers and delivers its events.  Nothing is asked of the  *)
(* process: it may hang anywhere.                                          *)
BridgeFairness ==
    \A c \in Calls :
        /\ WF_bridgeVars(ExitEvent(c))
        /\ WF_bridgeVars(Timeout(c))
        /\ WF_bridgeVars(CloseTimer(c))

BridgeSpec == BridgeInit /\ [][BridgeNext]_bridgeVars /\ BridgeFairness

-----------------------------------------------------------------------------
(* A call runs its tool at most once; an answer is what the tool has said; *)
(* and a call that is told that the process did not start, did not         *)
(* initialize in time or does not know the tool has run and will run       *)
(* nothing.                                                                *)
ToolRunsAsTold ==
    \A c \in Calls :
        /\ server[c].ran <= 1
        /\ bridge[c].result \in Answers => server[c].ran = 1 /\ server[c].said = bridge[c].result
        /\ bridge[c].result \in {"start_error", "init_timeout", "rpc_error"} => server[c].ran = 0

(* SIGTERM stops a tool half way only if its call has timed out: never     *)
(* while the call waits, and never after another answer or error.          *)
OnlyTimeoutsCutTools ==
    \A c \in Calls : server[c].cut => bridge[c].result = "call_timeout"

(* Every call settles, whatever its process does.                          *)
CallsSettle == \A c \in Calls : bridge[c].pc = "init" ~> bridge[c].pc = "done"

(* No process outlives its call, though it may hang and never read the     *)
(* end of its stdin.                                                       *)
ProcessesEnd == \A c \in Calls : bridge[c].pc = "init" ~> Gone(c)

(* A session that has been configured is the one the calls after it use,   *)
(* as the skill's rule to configure on each run presumes.                  *)
ConfigureLasts ==
    \A c, d \in Calls :
        /\ d \in bridge[c].after /\ tool[d] = "configure" /\ bridge[d].result = "configured"
        /\ tool[c] = "status" /\ bridge[c].result \in Answers
        => bridge[c].result = "given"
=============================================================================
