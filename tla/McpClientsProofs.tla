--------------------------- MODULE McpClientsProofs ---------------------------
(***************************************************************************)
(* Tools that are offered find a client, and no call reaches one that was  *)
(* not initialized: for any servers and any number of tool calls, whatever *)
(* fails, panics or is renewed.                                            *)
(***************************************************************************)
EXTENDS McpClients, TLAPS

Initialized == {c \in Clients : conn[c] \in {"ready", "closed"}}

\* A client is created once, by its own goroutine or call.
Unmade ==
    /\ \A n \in Servers : boot[n] \in {"start", "create"} => conn[n] = "none"
    /\ \A c \in Callers : call[c] \in {"idle", "ping", "create"} => conn[c] = "none"

\* Whoever has a client, or may close it, has one that was initialized.
Made ==
    /\ \A n \in Servers : boot[n] = "set" => n \in Initialized
    /\ \A c \in Callers : call[c] \in {"connected", "set"} => c \in Initialized
    /\ \A c \in Callers : call[c] \in {"ping", "call"} => have[c].client \in Initialized
    /\ \A n \in Servers : clients[n] # None => clients[n] \in Initialized
    /\ closing \cap Clients \subseteq Initialized

\* The map keeps a client from the moment it is set, unless listing fails.
Listed ==
    /\ \A n \in Servers : boot[n] \in {"list", "listed", "append"} => clients[n] # None
    /\ \A n \in offered : boot[n] = "done" /\ clients[n] # None

IInv == TypeOK /\ Unmade /\ Made /\ Listed

-----------------------------------------------------------------------------
LEMMA NewState ==
    ASSUME IInv, NEW n \in Servers, NEW state \in {"disabled", "starting", "connected", "error"},
           NEW client \in Clients \cup {None}, NEW tools \in {0, NumTools},
           updateMCPState(n, state, client, tools)
    PROVE  states' \in [Servers -> McpState]
BY DEF updateMCPState, IInv, TypeOK, McpState

LEMMA BootInv == ASSUME IInv, NEW n \in Servers, BootStep(n) \/ Panic(n) PROVE IInv'
<1> USE McpAssumption
<1> n \in Clients /\ \A m \in Servers : m \in Clients
  BY DEF Clients
<1>1. CASE Start(n)
  <2>t. states' \in [Servers -> McpState]
    BY <1>1, NewState DEF Start, Boot, IInv, TypeOK
  <2>1. TypeOK'
    BY <1>1, <2>t DEF Start, Boot, caller, IInv, TypeOK
  <2>2. Unmade'
    BY <1>1, <2>t DEF Start, Boot, caller, IInv, TypeOK, Unmade
  <2>3. Made'
    BY <1>1, <2>t DEF Start, Boot, caller, IInv, TypeOK, Made, Unmade, Initialized
  <2>4. Listed'
    BY <1>1, <2>t DEF Start, Boot, caller, IInv, TypeOK, Listed
  <2> QED BY <2>1, <2>2, <2>3, <2>4 DEF IInv
<1>2. CASE BootCreate(n)
  <2>t. states' \in [Servers -> McpState]
    BY <1>2, NewState DEF BootCreate, Create, CreateFails, IInv, TypeOK
  <2>p. /\ boot'[n] \notin {"start", "create"} /\ \A m \in Servers \ {n} : boot'[m] = boot[m]
        /\ \A d \in Clients \ {n} : conn'[d] = conn[d]
        /\ boot'[n] = "set" => conn'[n] = "ready"
        /\ UNCHANGED <<call, have, clients, closing>>
    BY <1>2 DEF BootCreate, Boot, Create, CreateFails, Conn, caller, IInv, TypeOK
  <2>i. Initialized \subseteq Initialized'
    BY <1>2 DEF BootCreate, Boot, Create, CreateFails, Conn, IInv, TypeOK, Unmade, Initialized
  <2>1. TypeOK'
    BY <1>2, <2>t, <2>p DEF BootCreate, Boot, Create, CreateFails, Conn, caller, IInv, TypeOK
  <2>2. Unmade'
    BY <2>p DEF IInv, Unmade, Clients
  <2>3. Made'
    BY <2>p, <2>i DEF IInv, Made, Initialized, Clients
  <2>4. Listed'
    BY <1>2, <2>t, <2>p DEF BootCreate, Boot, Create, CreateFails, Conn, caller, IInv, TypeOK, Listed
  <2> QED BY <2>1, <2>2, <2>3, <2>4 DEF IInv
<1>3. CASE BootInitialize(n)
  <2>t. states' \in [Servers -> McpState]
    BY <1>3, NewState DEF BootInitialize, Initialize, InitializeFails, IInv, TypeOK
  <2>p. /\ boot'[n] \notin {"start", "create"} /\ \A m \in Servers \ {n} : boot'[m] = boot[m]
        /\ \A d \in Clients \ {n} : conn'[d] = conn[d]
        /\ boot'[n] = "set" => conn'[n] = "ready"
        /\ UNCHANGED <<call, have, clients, closing>>
    BY <1>3 DEF BootInitialize, Boot, Initialize, InitializeFails, Conn, caller, IInv, TypeOK
  <2>i. Initialized \subseteq Initialized'
    BY <1>3 DEF BootInitialize, Boot, Initialize, InitializeFails, Conn, IInv, TypeOK, Unmade, Initialized
  <2>1. TypeOK'
    BY <1>3, <2>t, <2>p DEF BootInitialize, Boot, Initialize, InitializeFails, Conn, caller, IInv, TypeOK
  <2>2. Unmade'
    BY <2>p DEF IInv, Unmade, Clients
  <2>3. Made'
    BY <2>p, <2>i DEF IInv, Made, Initialized, Clients
  <2>4. Listed'
    BY <1>3, <2>t, <2>p DEF BootInitialize, Boot, Initialize, InitializeFails, Conn, caller, IInv, TypeOK, Listed
  <2> QED BY <2>1, <2>2, <2>3, <2>4 DEF IInv
<1>4. CASE BootSet(n)
  BY <1>4 DEF BootSet, Boot, caller, IInv, TypeOK, Unmade, Made, Listed, Initialized
<1>5. CASE ListTools(n)
  BY <1>5 DEF ListTools, Boot, caller, IInv, TypeOK, Unmade, Made, Listed, Initialized
<1>6. CASE ListToolsFails(n)
  <2>t. states' \in [Servers -> McpState]
    BY <1>6, NewState DEF ListToolsFails, Boot, IInv, TypeOK
  <2>1. TypeOK'
    BY <1>6, <2>t DEF ListToolsFails, Boot, Conn, caller, IInv, TypeOK
  <2>2. Unmade'
    BY <1>6, <2>t DEF ListToolsFails, Boot, Conn, caller, IInv, TypeOK, Unmade
  <2>3. Made'
    BY <1>6, <2>t DEF ListToolsFails, Boot, Conn, caller, IInv, TypeOK, Made, Unmade, Initialized
  <2>4. Listed'
    BY <1>6, <2>t DEF ListToolsFails, Boot, Conn, caller, IInv, TypeOK, Listed
  <2> QED BY <2>1, <2>2, <2>3, <2>4 DEF IInv
<1>7. CASE Connected(n)
  <2>t. states' \in [Servers -> McpState]
    BY <1>7, NewState DEF Connected, Boot, IInv, TypeOK
  <2>1. TypeOK'
    BY <1>7, <2>t DEF Connected, Boot, caller, IInv, TypeOK
  <2>2. Unmade'
    BY <1>7, <2>t DEF Connected, Boot, caller, IInv, TypeOK, Unmade
  <2>3. Made'
    BY <1>7, <2>t DEF Connected, Boot, caller, IInv, TypeOK, Made, Unmade, Initialized
  <2>4. Listed'
    BY <1>7, <2>t DEF Connected, Boot, caller, IInv, TypeOK, Listed
  <2> QED BY <2>1, <2>2, <2>3, <2>4 DEF IInv
<1>8. CASE Append(n)
  BY <1>8 DEF Append, Boot, caller, IInv, TypeOK, Unmade, Made, Listed, Initialized
<1>9. CASE Recover(n)
  <2>t. states' \in [Servers -> McpState]
    BY <1>9, NewState DEF Recover, Boot, IInv, TypeOK
  <2>1. TypeOK'
    BY <1>9, <2>t DEF Recover, Boot, caller, IInv, TypeOK
  <2>2. Unmade'
    BY <1>9, <2>t DEF Recover, Boot, caller, IInv, TypeOK, Unmade
  <2>3. Made'
    BY <1>9, <2>t DEF Recover, Boot, caller, IInv, TypeOK, Made, Unmade, Initialized
  <2>4. Listed'
    BY <1>9, <2>t DEF Recover, Boot, caller, IInv, TypeOK, Listed
  <2> QED BY <2>1, <2>2, <2>3, <2>4 DEF IInv
<1>10. CASE Panic(n)
  BY <1>10 DEF Panic, caller, IInv, TypeOK, Unmade, Made, Listed, Initialized
<1> QED BY <1>1, <1>2, <1>3, <1>4, <1>5, <1>6, <1>7, <1>8, <1>9, <1>10 DEF BootStep

LEMMA CallInv == ASSUME IInv, NEW c \in Callers, CallStep(c) PROVE IInv'
<1> USE McpAssumption
<1> DEFINE n == ServerOf[c]
<1> c \in Clients /\ n \in Servers /\ \A d \in Callers : d \in Clients
  BY DEF Clients
<1>0. have[c].client \in Clients \cup {None} /\ have[c].tools \in {0, NumTools}
  BY DEF IInv, TypeOK
<1>1. CASE Get(c)
  <2>1. CASE clients[n] = None
    BY <1>1, <2>1 DEF Get, Call, IInv, TypeOK, Unmade, Made, Listed, Initialized
  <2>2. CASE clients[n] # None
    <3>1. states[n].tools \in {0, NumTools} /\ clients[n] \in Initialized
      BY <2>2 DEF IInv, TypeOK, McpState, Made
    <3>2. have' \in [Callers -> [client : Clients \cup {None}, tools : {0, NumTools}]]
      BY <1>1, <2>2, <3>1 DEF Get, Call, IInv, TypeOK
    <3>3. have'[c].client = clients[n] /\ \A d \in Callers \ {c} : have'[d] = have[d]
      BY <1>1, <2>2 DEF Get, Call, IInv, TypeOK
    <3>4. /\ call' = [call EXCEPT ![c] = "ping"] /\ call[c] = "idle"
          /\ UNCHANGED <<clients, states, conn, boot, offered, gone, closing>>
      BY <1>1, <2>2 DEF Get, Call
    <3>5. TypeOK'
      BY <3>2, <3>4 DEF IInv, TypeOK
    <3>6. Unmade' /\ Listed'
      BY <3>4 DEF IInv, TypeOK, Unmade, Listed
    <3>7. Made'
      BY <3>1, <3>3, <3>4 DEF IInv, TypeOK, Made, Initialized
    <3> QED BY <3>5, <3>6, <3>7 DEF IInv
  <2> QED BY <2>1, <2>2
<1>2. CASE PingAnswers(c)
  BY <1>2 DEF PingAnswers, Call, caller, IInv, TypeOK, Unmade, Made, Listed, Initialized
<1>3. CASE PingFails(c)
  <2>t. states' \in [Servers -> McpState]
    BY <1>0, <1>3, NewState DEF PingFails, Call, IInv, TypeOK
  <2>1. TypeOK'
    BY <1>3, <2>t DEF PingFails, Call, caller, IInv, TypeOK
  <2>2. Unmade'
    BY <1>3, <2>t DEF PingFails, Call, caller, IInv, TypeOK, Unmade
  <2>3. Made'
    BY <1>3, <2>t DEF PingFails, Call, caller, IInv, TypeOK, Made, Unmade, Initialized
  <2>4. Listed'
    BY <1>3, <2>t DEF PingFails, Call, caller, IInv, TypeOK, Listed
  <2> QED BY <2>1, <2>2, <2>3, <2>4 DEF IInv
<1>4. CASE RenewCreate(c)
  <2>t. states' \in [Servers -> McpState]
    BY <1>4, NewState DEF RenewCreate, Create, CreateFails, IInv, TypeOK
  <2>p. /\ call'[c] \notin {"idle", "ping", "create", "call"} /\ \A d \in Callers \ {c} : call'[d] = call[d]
        /\ \A d \in Clients \ {c} : conn'[d] = conn[d]
        /\ call'[c] \in {"connected", "set"} => conn'[c] = "ready"
        /\ UNCHANGED <<boot, have, clients, closing>>
    BY <1>4 DEF RenewCreate, Call, Create, CreateFails, Conn, IInv, TypeOK
  <2>i. Initialized \subseteq Initialized'
    BY <1>4 DEF RenewCreate, Call, Create, CreateFails, Conn, IInv, TypeOK, Unmade, Initialized
  <2>1. TypeOK'
    BY <1>4, <2>t, <2>p DEF RenewCreate, Call, Create, CreateFails, Conn, caller, IInv, TypeOK
  <2>2. Unmade'
    BY <2>p DEF IInv, Unmade, Clients
  <2>3. Made'
    BY <2>p, <2>i DEF IInv, Made, Initialized, Clients
  <2>4. Listed'
    BY <1>4, <2>t, <2>p DEF RenewCreate, Call, Create, CreateFails, Conn, caller, IInv, TypeOK, Listed
  <2> QED BY <2>1, <2>2, <2>3, <2>4 DEF IInv
<1>5. CASE RenewInitialize(c)
  <2>t. states' \in [Servers -> McpState]
    BY <1>5, NewState DEF RenewInitialize, Initialize, InitializeFails, IInv, TypeOK
  <2>p. /\ call'[c] \notin {"idle", "ping", "create", "call"} /\ \A d \in Callers \ {c} : call'[d] = call[d]
        /\ \A d \in Clients \ {c} : conn'[d] = conn[d]
        /\ call'[c] \in {"connected", "set"} => conn'[c] = "ready"
        /\ UNCHANGED <<boot, have, clients, closing>>
    BY <1>5 DEF RenewInitialize, Call, Initialize, InitializeFails, Conn, IInv, TypeOK
  <2>i. Initialized \subseteq Initialized'
    BY <1>5 DEF RenewInitialize, Call, Initialize, InitializeFails, Conn, IInv, TypeOK, Unmade, Initialized
  <2>1. TypeOK'
    BY <1>5, <2>t, <2>p DEF RenewInitialize, Call, Initialize, InitializeFails, Conn, caller, IInv, TypeOK
  <2>2. Unmade'
    BY <2>p DEF IInv, Unmade, Clients
  <2>3. Made'
    BY <2>p, <2>i DEF IInv, Made, Initialized, Clients
  <2>4. Listed'
    BY <1>5, <2>t, <2>p DEF RenewInitialize, Call, Initialize, InitializeFails, Conn, caller, IInv, TypeOK, Listed
  <2> QED BY <2>1, <2>2, <2>3, <2>4 DEF IInv
<1>6. CASE RenewConnected(c)
  <2>t. states' \in [Servers -> McpState]
    BY <1>0, <1>6, NewState DEF RenewConnected, Call, IInv, TypeOK
  <2>1. TypeOK'
    BY <1>6, <2>t DEF RenewConnected, Call, caller, IInv, TypeOK
  <2>2. Unmade'
    BY <1>6, <2>t DEF RenewConnected, Call, caller, IInv, TypeOK, Unmade
  <2>3. Made'
    BY <1>6, <2>t DEF RenewConnected, Call, caller, IInv, TypeOK, Made, Unmade, Initialized
  <2>4. Listed'
    BY <1>6, <2>t DEF RenewConnected, Call, caller, IInv, TypeOK, Listed
  <2> QED BY <2>1, <2>2, <2>3, <2>4 DEF IInv
<1>7. CASE RenewSet(c)
  <2>1. have' \in [Callers -> [client : Clients \cup {None}, tools : {0, NumTools}]]
    BY <1>7 DEF RenewSet, Call, IInv, TypeOK
  <2>2. have'[c].client = c /\ \A d \in Callers \ {c} : have'[d] = have[d]
    BY <1>7 DEF RenewSet, Call, IInv, TypeOK
  <2>3. c \in Initialized
    BY <1>7 DEF RenewSet, Call, IInv, Made
  <2> QED
    BY <1>7, <2>1, <2>2, <2>3 DEF RenewSet, Call, IInv, TypeOK, Unmade, Made, Listed, Initialized
<1>8. CASE CallTool(c)
  BY <1>8 DEF CallTool, Call, caller, IInv, TypeOK, Unmade, Made, Listed, Initialized
<1>9. CASE CallerGone(c)
  BY <1>9 DEF CallerGone, IInv, TypeOK, Unmade, Made, Listed, Initialized
<1> QED
  BY <1>1, <1>2, <1>3, <1>4, <1>5, <1>6, <1>7, <1>8, <1>9 DEF CallStep, Proceeds, Waits

LEMMA CloseInv == ASSUME IInv, CloseStep PROVE IInv'
<1> USE McpAssumption
<1> \A m \in Servers : m \in Clients
  BY DEF Clients
<1>0. Clients \cap {"before", "after"} = {}
  BY DEF Clients
<1>1. CASE CloseAll
  <2>1. closing' \subseteq Initialized
    BY <1>1 DEF CloseAll, IInv, Made
  <2> QED BY <1>1, <2>1 DEF CloseAll, caller, IInv, TypeOK, Unmade, Made, Listed, Initialized
<1>2. ASSUME NEW c \in Clients, CloseNext(c) PROVE IInv'
  <2>1. closing \in SUBSET Clients /\ c \in Initialized
    BY <1>0, <1>2 DEF CloseNext, IInv, TypeOK, Made
  <2> QED BY <1>2, <2>1 DEF CloseNext, Conn, caller, IInv, TypeOK, Unmade, Made, Listed, Initialized
<1>3. CASE ShutdownBroker
  BY <1>0, <1>3 DEF ShutdownBroker, caller, IInv, TypeOK, Unmade, Made, Listed, Initialized
<1> QED BY <1>1, <1>2, <1>3 DEF CloseStep

LEMMA Inductive == Spec => []IInv
<1>1. Init => IInv
  BY McpAssumption DEF Init, Clients, IInv, TypeOK, McpState, Unmade, Made, Listed, Initialized
<1>2. IInv /\ [Next]_vars => IInv'
  <2> SUFFICES ASSUME IInv, [Next]_vars PROVE IInv'
    OBVIOUS
  <2>1. CASE UNCHANGED vars
    BY <2>1 DEF vars, IInv, TypeOK, Unmade, Made, Listed, Initialized
  <2> QED BY <2>1, BootInv, CallInv, CloseInv DEF Next
<1> QED BY <1>1, <1>2, PTL DEF Spec

\* The variables keep their types: what Init and every action assign to the
\* maps, the states, the clients and where each goroutine and call is.
THEOREM TypeCorrect == Spec => []TypeOK
<1>1. IInv => TypeOK
  BY DEF IInv
<1> QED BY <1>1, Inductive, PTL

\* A tool that was offered finds a client, for any number of servers and
\* calls: doGetMCPTools offers tools only after the client is in the map, and
\* neither a failing renewal nor a panic takes it out.
THEOREM OfferedHaveClients == Spec => []OfferedAreCallable
<1>1. IInv => OfferedAreCallable
  BY DEF IInv, Listed, OfferedAreCallable
<1> QED BY <1>1, Inductive, PTL

\* Neither the map nor a call that is sent ever has a client that was not
\* initialized: createAndInitializeClient returns it only after Initialize.
THEOREM ClientsInitialized == Spec => []CallsInitialized
<1>1. IInv => CallsInitialized
  BY McpAssumption DEF IInv, TypeOK, Made, Initialized, CallsInitialized
<1> QED BY <1>1, Inductive, PTL
=============================================================================
