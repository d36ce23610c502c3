----------------------------- MODULE McpClients -----------------------------
(***************************************************************************)
(* The clients of MCP servers (llm/agent/mcp-tools.go): the goroutines     *)
(* that start one client per configured server, the tool calls that ping   *)
(* their client and renew it when it does not answer, and the closing of   *)
(* all clients at shutdown.                                                *)
(*                                                                         *)
(* The maps mcpClients and mcpStates are locked for one Get or Set only.   *)
(* A client is named by who creates it: the goroutine of a server, or a    *)
(* tool call that renews.  Each tool call is a caller of its own.  The     *)
(* events of updateMCPState go to a Broker and are not repeated here.      *)
(***************************************************************************)
EXTENDS Naturals, FiniteSets

CONSTANTS Servers,     \* the configured servers
          Disabled,    \* those whose configuration says so
          Callers,     \* tool calls
          ServerOf,    \* the server of each call's tool
          NumTools,    \* how many tools a server lists
          None

ASSUME McpAssumption ==
    /\ Disabled \subseteq Servers
    /\ Servers \cap Callers = {}
    /\ ServerOf \in [Callers -> Servers]
    /\ NumTools \in Nat \ {0}
    /\ None \notin Servers \cup Callers
    /\ {"before", "after"} \cap (Servers \cup Callers) = {}

Clients == Servers \cup Callers

VARIABLES
    clients,   \* mcpClients
    states,    \* mcpStates
    conn,      \* each client: not created, created, initialized, closed
    boot,      \* where the goroutine of each server is
    offered,   \* the servers whose tools doGetMCPTools returns
    call,      \* where each tool call is
    have,      \* the client a call has, and the tool count it read
    gone,      \* the calls whose context, that of their run, is done
    closing    \* what CloseMCPClients has still to close

vars == <<clients, states, conn, boot, offered, call, have, gone, closing>>
caller == <<call, have, gone>>

McpState == [state : {"unset", "disabled", "starting", "connected", "error"},
             client : Clients \cup {None}, tools : {0, NumTools}]

TypeOK ==
    /\ clients \in [Servers -> Clients \cup {None}]
    /\ states  \in [Servers -> McpState]
    /\ conn    \in [Clients -> {"none", "new", "ready", "closed"}]
    /\ boot    \in [Servers -> {"start", "create", "initialize", "set", "list", "listed",
                                "unlisted", "append", "recover", "done"}]
    /\ offered \subseteq Servers
    /\ call    \in [Callers -> {"idle", "ping", "create", "initialize", "connected", "set",
                                "call", "done"}]
    /\ have    \in [Callers -> [client : Clients \cup {None}, tools : {0, NumTools}]]
    /\ gone    \subseteq Callers
    /\ closing \in (SUBSET Clients) \cup {{"before"}, {"after"}}

Init ==
    /\ clients = [n \in Servers |-> None]
    /\ states  = [n \in Servers |-> [state |-> "unset", client |-> None, tools |-> 0]]
    /\ conn    = [c \in Clients |-> "none"]
    /\ boot    = [n \in Servers |-> "start"]
    /\ offered = {}
    /\ call    = [c \in Callers |-> "idle"]
    /\ have    = [c \in Callers |-> [client |-> None, tools |-> 0]]
    /\ gone    = {}
    /\ closing = {"before"}

-----------------------------------------------------------------------------
Boot(n, from, to)  == boot[n] = from /\ boot' = [boot EXCEPT ![n] = to]
Call(c, from, to)  == call[c] = from /\ call' = [call EXCEPT ![c] = to]
Conn(c, to)        == conn' = [conn EXCEPT ![c] = to]

updateMCPState(n, state, client, tools) ==
    states' = [states EXCEPT ![n] = [state |-> state, client |-> client, tools |-> tools]]

\* doGetMCPTools marks each server and starts its goroutine.
Start(n) ==
    /\ \/ n \in Disabled    /\ Boot(n, "start", "done")   /\ updateMCPState(n, "disabled", None, 0)
       \/ n \notin Disabled /\ Boot(n, "start", "create") /\ updateMCPState(n, "starting", None, 0)
    /\ UNCHANGED <<clients, conn, offered, caller, closing>>

\* createAndInitializeClient, for server n by the process that will own the
\* client: createMcpClient, then Start and Initialize with the owner's context.
\* A failure is the state of the server.
Create(c, n) == Conn(c, "new") /\ UNCHANGED states
CreateFails(n) == updateMCPState(n, "error", None, 0) /\ UNCHANGED conn

Initialize(c, n) == Conn(c, "ready") /\ UNCHANGED states
InitializeFails(c, n) == Conn(c, "closed") /\ updateMCPState(n, "error", None, 0)

BootCreate(n) ==
    /\ \/ Boot(n, "create", "initialize") /\ Create(n, n)
       \/ Boot(n, "create", "done")       /\ CreateFails(n)
    /\ UNCHANGED <<clients, offered, caller, closing>>

BootInitialize(n) ==
    /\ \/ Boot(n, "initialize", "set")  /\ Initialize(n, n)
       \/ Boot(n, "initialize", "done") /\ InitializeFails(n, n)
    /\ UNCHANGED <<clients, offered, caller, closing>>

BootSet(n) ==
    /\ Boot(n, "set", "list")
    /\ clients' = [clients EXCEPT ![n] = n]
    /\ UNCHANGED <<states, conn, offered, caller, closing>>

\* getTools: the server's tools, or a client that is closed and forgotten.
\* (No call can use the client yet.)
ListTools(n) ==
    /\ Boot(n, "list", "listed")
    /\ UNCHANGED <<clients, states, conn, offered, caller, closing>>

\* Variant: the client is made anew until it lists its tools.
ListToolsRetries(n) ==
    /\ Boot(n, "list", "create")
    /\ UNCHANGED <<clients, states, conn, offered, caller, closing>>

ListToolsFails(n) ==
    /\ Boot(n, "list", "unlisted")
    /\ updateMCPState(n, "error", None, 0)
    /\ Conn(n, "closed")
    /\ clients' = [clients EXCEPT ![n] = None]
    /\ UNCHANGED <<offered, caller, closing>>

\* Either way the server is then said to be connected.
Connected(n) ==
    /\ \/ Boot(n, "listed", "append") /\ updateMCPState(n, "connected", n, NumTools)
       \/ Boot(n, "unlisted", "done") /\ updateMCPState(n, "connected", n, 0)
    /\ UNCHANGED <<clients, conn, offered, caller, closing>>

Append(n) ==
    /\ Boot(n, "append", "done")
    /\ offered' = offered \cup {n}
    /\ UNCHANGED <<clients, states, conn, caller, closing>>

\* A panic, in the client library or in a publish to a broker that is being
\* shut down: wg.Done first, and only then the state.
Panic(n) ==
    /\ boot[n] \in {"create", "initialize", "list", "listed", "unlisted"}
    /\ boot' = [boot EXCEPT ![n] = "recover"]
    /\ UNCHANGED <<clients, states, conn, offered, caller, closing>>

Recover(n) ==
    /\ Boot(n, "recover", "done")
    /\ updateMCPState(n, "error", None, 0)
    /\ UNCHANGED <<clients, conn, offered, caller, closing>>

\* wg.Wait is over and the tools are in the hands of the agents.
Returned == \A n \in Servers : boot[n] \in {"recover", "done"}

-----------------------------------------------------------------------------
(* Tool calls: runTool and getOrRenewClient.                               *)

\* The client and the state are read one after the other.
Get(c) ==
    LET n == ServerOf[c] IN
    /\ Returned /\ n \in offered
    /\ IF clients[n] = None THEN Call(c, "idle", "done") /\ UNCHANGED have
       ELSE /\ Call(c, "idle", "ping")
            /\ have' = [have EXCEPT ![c] = [client |-> clients[n], tools |-> states[n].tools]]
    /\ UNCHANGED <<clients, states, conn, boot, offered, gone, closing>>

\* A client answers, unless it was closed;
PingAnswers(c) ==
    /\ Call(c, "ping", "call") /\ conn[have[c].client] # "closed"
    /\ UNCHANGED <<clients, states, conn, boot, offered, have, gone, closing>>

\* it may fail to within the timeout, and the server is in error.
PingFails(c) ==
    /\ Call(c, "ping", "create")
    /\ updateMCPState(ServerOf[c], "error", None, have[c].tools)
    /\ UNCHANGED <<clients, conn, boot, offered, have, gone, closing>>

\* Variant: the new client is put into the map before it is initialized.
RenewEarly(c) ==
    /\ Call(c, "create", "initialize") /\ Create(c, ServerOf[c])
    /\ clients' = [clients EXCEPT ![ServerOf[c]] = c]
    /\ UNCHANGED <<boot, offered, have, gone, closing>>

RenewCreate(c) ==
    /\ \/ Call(c, "create", "initialize") /\ Create(c, ServerOf[c])
       \/ Call(c, "create", "done")       /\ CreateFails(ServerOf[c])
    /\ UNCHANGED <<clients, boot, offered, have, gone, closing>>

\* Variant: a client that cannot be renewed is forgotten, as in getTools.
RenewForgets(c) ==
    /\ \/ /\ Call(c, "initialize", "connected") /\ Initialize(c, ServerOf[c])
          /\ UNCHANGED clients
       \/ /\ Call(c, "initialize", "done") /\ InitializeFails(c, ServerOf[c])
          /\ clients' = [clients EXCEPT ![ServerOf[c]] = None]
    /\ UNCHANGED <<boot, offered, have, gone, closing>>

RenewInitialize(c) ==
    /\ \/ Call(c, "initialize", "connected") /\ Initialize(c, ServerOf[c])
       \/ Call(c, "initialize", "done")      /\ InitializeFails(c, ServerOf[c])
    /\ UNCHANGED <<clients, boot, offered, have, gone, closing>>

\* The state is updated, with the tool count read before the ping,
RenewConnected(c) ==
    /\ Call(c, "connected", "set")
    /\ updateMCPState(ServerOf[c], "connected", c, have[c].tools)
    /\ UNCHANGED <<clients, conn, boot, offered, have, gone, closing>>

\* Variant: the renewed client is pinged again.
RenewPings(c) ==
    /\ Call(c, "set", "ping")
    /\ clients' = [clients EXCEPT ![ServerOf[c]] = c]
    /\ have'    = [have EXCEPT ![c].client = c]
    /\ UNCHANGED <<states, conn, boot, offered, gone, closing>>

\* and then the map; the client that was there is not closed.
RenewSet(c) ==
    /\ Call(c, "set", "call")
    /\ clients' = [clients EXCEPT ![ServerOf[c]] = c]
    /\ have'    = [have EXCEPT ![c].client = c]
    /\ UNCHANGED <<states, conn, boot, offered, gone, closing>>

\* With the caller's context, as the renewal.
CallTool(c) ==
    /\ Call(c, "call", "done")
    /\ UNCHANGED <<clients, states, conn, boot, offered, have, gone, closing>>

\* The run that waits for the call is cancelled.
CallerGone(c) ==
    /\ call[c] \notin {"idle", "done"}
    /\ gone' = gone \cup {c}
    /\ UNCHANGED <<clients, states, conn, boot, offered, call, have, closing>>

-----------------------------------------------------------------------------
(* CloseMCPClients, at shutdown.                                           *)

CloseAll ==
    /\ closing = {"before"}
    /\ closing' = {clients[n] : n \in Servers} \ {None}
    /\ UNCHANGED <<clients, states, conn, boot, offered, caller>>

CloseNext(c) ==
    /\ c \in closing
    /\ closing' = closing \ {c}
    /\ Conn(c, "closed")
    /\ UNCHANGED <<clients, states, boot, offered, caller>>

ShutdownBroker ==
    /\ closing = {}
    /\ closing' = {"after"}
    /\ UNCHANGED <<clients, states, conn, boot, offered, caller>>

-----------------------------------------------------------------------------
BootStep(n) == Start(n) \/ BootCreate(n) \/ BootInitialize(n) \/ BootSet(n) \/ ListTools(n)
                   \/ ListToolsFails(n) \/ Connected(n) \/ Append(n) \/ Recover(n)
Waits(c)    == RenewInitialize(c) \/ CallTool(c)
Proceeds(c) == PingAnswers(c) \/ PingFails(c) \/ RenewCreate(c) \/ RenewConnected(c) \/ RenewSet(c)
CallStep(c) == Get(c) \/ Proceeds(c) \/ Waits(c) \/ CallerGone(c)
CloseStep   == CloseAll \/ (\E c \in Clients : CloseNext(c)) \/ ShutdownBroker

Next ==
    \/ \E n \in Servers : BootStep(n) \/ Panic(n)
    \/ \E c \in Callers : CallStep(c)
    \/ CloseStep

Spec == Init /\ [][Next]_vars

\* Goroutines run, a start ends with the timeout of its context (line 307) and
\* a ping with that of its own (line 152); creating and closing a client is
\* taken to return, which no timeout sees to.  The renewal and the call of the
\* tool have the caller's context and no other (lines 122, 160): a server may
\* keep them waiting until that is done.  Nobody has to call a tool, to cancel
\* a call, or to shut the program down.
FairSpec ==
    /\ Spec
    /\ \A n \in Servers : WF_vars(BootStep(n))
    /\ \A c \in Callers : WF_vars(Proceeds(c)) /\ WF_vars(c \in gone /\ Waits(c))

-----------------------------------------------------------------------------
(* What must hold.                                                         *)

\* A tool that was offered to the model never finds its server "not available":
\* whatever fails or panics while the clients start, and whichever renewals
\* fail later, the map has a client to ping (mcp-tools.go:143-147, 195-203, 315-319).
OfferedAreCallable == \A n \in offered : clients[n] # None

\* No call reaches a client that was not initialized, and the map never holds
\* one (mcp-tools.go:309-313, 160-166).
CallsInitialized ==
    /\ \A c \in Callers : call[c] = "call" => conn[have[c].client] \in {"ready", "closed"}
    /\ \A n \in Servers : clients[n] # None => conn[clients[n]] \in {"ready", "closed"}

\* The tools are handed out however the servers behave: the wait for all the
\* goroutines ends (mcp-tools.go:290-292, 322).
ToolsHandedOut == <>Returned

\* A tool call that found its client ends, or waits for its server as long as
\* its caller does: it renews at most once, and a cancelled caller gets it back
\* wherever it is (mcp-tools.go:122, 152-168).
WaitsForServer(c) == call[c] \in {"initialize", "call"} /\ c \notin gone

CallsEnd == \A c \in Callers :
    call[c] = "ping" ~> (call[c] = "done" \/ []WaitsForServer(c))
=============================================================================
