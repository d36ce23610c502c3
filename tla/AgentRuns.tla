----------------------------- MODULE AgentRuns -----------------------------
(***************************************************************************)
(* The request life cycle of the agent (llm/agent/agent.go): concurrent    *)
(* calls of Run, the goroutine each of them starts, Cancel, ClearQueue and *)
(* CancelAll, over the three pieces of shared state that separate mutexes  *)
(* guard: activeRequests (requestMutex), promptQueue (queueMutex) and      *)
(* state (stateMutex).  One action is one critical section, one channel    *)
(* operation or one call of the message store.                             *)
(*                                                                         *)
(* A call stands for its own prompt: "the prompt c" is the content that    *)
(* call c of Run was given.  One turn of the model (stream and tools) is   *)
(* the single choice made by the Turn* actions; the module Generation      *)
(* looks inside it.                                                        *)
(***************************************************************************)
EXTENDS Naturals, Sequences

CONSTANTS
    Calls,          \* the calls of Run that may ever be made
    Sessions,       \* session identifiers
    SessionOf,      \* the session each call names
    EmptyPrompts,   \* the calls whose content is ""
    Readers,        \* the calls whose caller reads the events channel
    Children,       \* the calls whose caller may cancel the context it passed
    None            \* no call

ASSUME SessionAssumption == SessionOf \in [Calls -> Sessions]
ASSUME PromptAssumption  == EmptyPrompts \subseteq Calls
ASSUME CallerAssumption  == Readers \subseteq Calls /\ Children \subseteq Calls
ASSUME NoneAssumption    == None \notin Calls

VARIABLES
    pc,         \* where each call of Run, then its goroutine, stands
    active,     \* activeRequests: whose cancel function a session maps to
    state,      \* a.state
    queue,      \* promptQueue
    cancelled,  \* is the call's genCtx done?
    batch,      \* queuedPrompts: the drained prompts a run still has to record
    history,    \* user messages of a session: which prompt, created by which run
    result,     \* what processGeneration returned
    recv,       \* the caller's end of the events channel
    sweep,      \* CancelAll: its program counter
    targets     \* CancelAll: sessionIDs it has still to cancel

vars == <<pc, active, state, queue, cancelled, batch, history, result, recv,
          sweep, targets>>

store  == <<queue, batch, history>>
caller == <<recv, sweep, targets>>

-----------------------------------------------------------------------------
(* Program points, grouped by what the rest of the system can tell apart.  *)

InRun     == {"new", "enqueue", "queued", "register", "setProcessing"}
InTurns   == {"start", "loop", "stream", "drainTool", "drainEnd",
              "recordTool", "recordEnd"}
InCleanup == {"cleanup", "checkIdle", "setIdle"}
InDeliver == {"publish", "deliver", "panicSend", "closed"}

PCs     == InRun \cup InTurns \cup InCleanup \cup InDeliver
Results == {"none", "response", "error", "panic"}
Recvs   == {"away", "waiting", "result", "panicErr", "zero"}

\* Run has returned an events channel for c and the goroutine exists.
Started(c) == pc[c] \in InTurns \cup InCleanup \cup InDeliver

IsSessionBusy(s) == active[s] # None
IsBusy           == \E s \in Sessions : active[s] # None

TypeOK ==
    /\ pc \in [Calls -> PCs]
    /\ active \in [Sessions -> Calls \cup {None}]
    /\ state \in {"idle", "processing"}
    /\ queue \in [Sessions -> Seq(Calls)]
    /\ cancelled \in [Calls -> BOOLEAN]
    /\ batch \in [Calls -> Seq(Calls)]
    /\ history \in [Sessions -> Seq([prompt : Calls, by : Calls])]
    /\ result \in [Calls -> Results]
    /\ recv \in [Calls -> Recvs]
    /\ sweep \in {"off", "snapshot", "cancelEach", "poll"}
    /\ targets \subseteq Sessions

Init ==
    /\ pc = [c \in Calls |-> "new"]
    /\ active = [s \in Sessions |-> None]
    /\ state = "idle"
    /\ queue = [s \in Sessions |-> <<>>]
    /\ cancelled = [c \in Calls |-> FALSE]
    /\ batch = [c \in Calls |-> <<>>]
    /\ history = [s \in Sessions |-> <<>>]
    /\ result = [c \in Calls |-> "none"]
    /\ recv = [c \in Calls |-> "away"]
    /\ sweep = "off"
    /\ targets = {}

Goto(c, from, to) == pc[c] = from /\ pc' = [pc EXCEPT ![c] = to]

\* Variant: the two strings of createUserMessage in the wrong order.
SwappedCreate(c, p) ==
    /\ ~cancelled[c]
    /\ history' = [history EXCEPT ![SessionOf[c]] =
                       Append(@, [prompt |-> SessionOf[c], by |-> c])]

\* createUserMessage by run c of prompt p: the row is inserted.  The context
\* is looked at first, so a cancelled run inserts nothing.
CreateUserMessage(c, p) ==
    /\ ~cancelled[c]
    /\ history' = [history EXCEPT ![SessionOf[c]] = Append(@, [prompt |-> p, by |-> c])]

-----------------------------------------------------------------------------
(* Run, on the caller's goroutine.                                         *)

\* The busy check is one critical section of requestMutex; what Run does
\* about it comes later, when the answer may be stale.
RunCheck(c) ==
    /\ Goto(c, "new", IF IsSessionBusy(SessionOf[c]) THEN "enqueue" ELSE "register")
    /\ UNCHANGED <<active, state, cancelled, result, store, caller>>

\* Variant: a queue that puts the newest prompt first.
EnqueueFirst(c) ==
    /\ Goto(c, "enqueue", "queued")
    /\ queue' = [queue EXCEPT ![SessionOf[c]] = <<c>> \o @]
    /\ UNCHANGED <<active, state, cancelled, batch, history, result, caller>>

Enqueue(c) ==
    /\ Goto(c, "enqueue", "queued")
    /\ queue' = [queue EXCEPT ![SessionOf[c]] = Append(@, c)]
    /\ UNCHANGED <<active, state, cancelled, batch, history, result, caller>>

\* The entry is overwritten if another call registered since the check.
Register(c) ==
    /\ Goto(c, "register", "setProcessing")
    /\ active' = [active EXCEPT ![SessionOf[c]] = c]
    /\ UNCHANGED <<state, cancelled, result, store, caller>>

SetProcessing(c) ==
    /\ Goto(c, "setProcessing", "start")
    /\ state' = "processing"
    /\ UNCHANGED <<active, cancelled, result, store, caller>>

-----------------------------------------------------------------------------
(* processGeneration, on the run's goroutine.                              *)

Finish(c, from, r) ==
    /\ Goto(c, from, "cleanup")
    /\ result' = [result EXCEPT ![c] = r]
    /\ batch' = [batch EXCEPT ![c] = <<>>]
    /\ UNCHANGED <<active, state, queue, cancelled, history, caller>>

\* List, Get and the first createUserMessage, all with genCtx.
Start(c) ==
    /\ Goto(c, "start", "loop")
    /\ CreateUserMessage(c, c)
    /\ UNCHANGED <<active, state, queue, cancelled, batch, result, caller>>

StartFails(c) == Finish(c, "start", "error")

LoopCancelled(c) == cancelled[c] /\ Finish(c, "loop", "error")

\* Variant: the loop does not look at the context.
BeginTurnBlindly(c) ==
    /\ Goto(c, "loop", "stream")
    /\ UNCHANGED <<active, state, cancelled, result, store, caller>>

BeginTurn(c) ==
    /\ Goto(c, "loop", "stream")
    /\ ~cancelled[c]
    /\ UNCHANGED <<active, state, cancelled, result, store, caller>>

\* A turn that asked for tools and got all its results.  The context may have
\* been cancelled after the last tool came back.
TurnToolUse(c) ==
    /\ Goto(c, "stream", "drainTool")
    /\ UNCHANGED <<active, state, cancelled, result, store, caller>>

TurnEnd(c) ==
    /\ Goto(c, "stream", "drainEnd")
    /\ UNCHANGED <<active, state, cancelled, result, store, caller>>

\* Any other finish reason, "canceled" after an interrupted tool included.
TurnStop(c) == Finish(c, "stream", "response")

\* Cancelled, failed, or ended without a finish reason, which the code takes
\* for a cancellation.
TurnFails(c) == Finish(c, "stream", "error")

\* Variant: the queue is read but not reset.
DrainCopy(c, from, to) ==
    /\ Goto(c, from, to)
    /\ batch' = [batch EXCEPT ![c] = queue[SessionOf[c]]]
    /\ UNCHANGED <<active, state, queue, cancelled, history, result, caller>>

\* One critical section of queueMutex takes the whole queue.
Drain(c, from, to) ==
    LET s == SessionOf[c] IN
    /\ Goto(c, from, to)
    /\ batch' = [batch EXCEPT ![c] = queue[s]]
    /\ queue' = [queue EXCEPT ![s] = <<>>]
    /\ UNCHANGED <<active, state, cancelled, history, result, caller>>

DrainTool(c) == Drain(c, "drainTool", "recordTool")

DrainEnd(c) == queue[SessionOf[c]] # <<>> /\ Drain(c, "drainEnd", "recordEnd")

\* Nothing was queued: the run answers.
DrainNothing(c) == queue[SessionOf[c]] = <<>> /\ Finish(c, "drainEnd", "response")

Skips(c) == pc[c] = "recordEnd" /\ Head(batch[c]) \in EmptyPrompts

\* After a tool turn every drained prompt becomes a user message, the empty
\* ones too; after an end of turn the empty ones are skipped.
Record(c) ==
    /\ pc[c] \in {"recordTool", "recordEnd"}
    /\ batch[c] # <<>>
    /\ IF Skips(c) THEN UNCHANGED history ELSE CreateUserMessage(c, Head(batch[c]))
    /\ batch' = [batch EXCEPT ![c] = Tail(@)]
    /\ UNCHANGED <<pc, active, state, queue, cancelled, result, caller>>

\* createUserMessage fails: the rest of the batch goes with it.
RecordFails(c) ==
    /\ batch[c] # <<>> /\ ~Skips(c)
    /\ Finish(c, "recordTool", "error") \/ Finish(c, "recordEnd", "error")

RecordDone(c) ==
    /\ batch[c] = <<>>
    /\ Goto(c, "recordTool", "loop") \/ Goto(c, "recordEnd", "loop")
    /\ UNCHANGED <<active, state, cancelled, result, store, caller>>

\* The goroutine panics inside processGeneration: a call of the message store
\* writes its row and then publishes to a subscriber whose channel was closed
\* meanwhile.  The deferred recover goes straight to the events channel:
\* cleanup, cancel() and the answer are skipped.
Panic(c, from) ==
    /\ Goto(c, from, "panicSend")
    /\ result' = [result EXCEPT ![c] = "panic"]
    /\ batch' = [batch EXCEPT ![c] = <<>>]
    /\ UNCHANGED <<active, state, queue, cancelled, caller>>

PanicCreating(c) ==
    \/ Panic(c, "start") /\ CreateUserMessage(c, c)
    \/ /\ batch[c] # <<>> /\ ~Skips(c)
       /\ Panic(c, "recordTool") \/ Panic(c, "recordEnd")
       /\ CreateUserMessage(c, Head(batch[c]))

PanicStreaming(c) == Panic(c, "stream") /\ UNCHANGED history

-----------------------------------------------------------------------------
(* The tail of the goroutine.                                              *)

\* Variants: no deletion; the idle check before the deletion.
CleanupKeepsEntry(c) ==
    /\ Goto(c, "cleanup", "checkIdle")
    /\ UNCHANGED <<active, state, cancelled, result, store, caller>>

CheckBeforeCleanup(c) ==
    /\ Goto(c, "cleanup", IF IsBusy THEN "publish" ELSE "setIdle")
    /\ active' = [active EXCEPT ![SessionOf[c]] = None]
    /\ UNCHANGED <<state, cancelled, result, store, caller>>

\* The entry of the session goes, whoever's it is by now.
Cleanup(c) ==
    /\ Goto(c, "cleanup", "checkIdle")
    /\ active' = [active EXCEPT ![SessionOf[c]] = None]
    /\ UNCHANGED <<state, cancelled, result, store, caller>>

CheckIdle(c) ==
    /\ Goto(c, "checkIdle", IF IsBusy THEN "publish" ELSE "setIdle")
    /\ UNCHANGED <<active, state, cancelled, result, store, caller>>

SetIdle(c) ==
    /\ Goto(c, "setIdle", "publish")
    /\ state' = "idle"
    /\ UNCHANGED <<active, cancelled, result, store, caller>>

\* cancel(), then Publish, which may panic on a closed subscriber channel.
CancelAndPublish(c) ==
    /\ Goto(c, "publish", "deliver") \/ Goto(c, "publish", "panicSend")
    /\ cancelled' = [cancelled EXCEPT ![c] = TRUE]
    /\ UNCHANGED <<active, state, result, store, caller>>

\* select { case events <- result: case <-genCtx.Done(): }, then the deferred
\* close(events), which nothing can tell from the send.
Deliver(c) ==
    /\ recv[c] = "waiting"
    /\ Goto(c, "deliver", "closed")
    /\ recv' = [recv EXCEPT ![c] = "result"]
    /\ UNCHANGED <<active, state, cancelled, result, store, sweep, targets>>

\* Variant: the deferred function does not close the channel.
DropResultOpen(c) ==
    /\ cancelled[c]
    /\ Goto(c, "deliver", "left open")
    /\ UNCHANGED <<active, state, cancelled, result, store, caller>>

DropResult(c) ==
    /\ cancelled[c]
    /\ Goto(c, "deliver", "closed")
    /\ UNCHANGED <<active, state, cancelled, result, store, caller>>

\* The send of the recover handler has no way out but a receiver.
DeliverPanic(c) ==
    /\ recv[c] = "waiting"
    /\ Goto(c, "panicSend", "closed")
    /\ recv' = [recv EXCEPT ![c] = "panicErr"]
    /\ UNCHANGED <<active, state, cancelled, result, store, sweep, targets>>

-----------------------------------------------------------------------------
(* The callers.                                                            *)

Receive(c) ==
    /\ c \in Readers /\ Started(c) /\ recv[c] = "away"
    /\ recv' = [recv EXCEPT ![c] = "waiting"]
    /\ UNCHANGED <<pc, active, state, cancelled, result, store, sweep, targets>>

ReceiveClosed(c) ==
    /\ pc[c] = "closed" /\ recv[c] = "waiting"
    /\ recv' = [recv EXCEPT ![c] = "zero"]
    /\ UNCHANGED <<pc, active, state, cancelled, result, store, sweep, targets>>

\* The context the caller gave Run is done (a sub-agent's parent is
\* cancelled): genCtx is its child.
CallerCancel(c) ==
    /\ c \in Children /\ ~cancelled[c]
    /\ pc[c] \in {"register", "setProcessing"} \cup InTurns
    /\ cancelled' = [cancelled EXCEPT ![c] = TRUE]
    /\ UNCHANGED <<pc, active, state, result, store, caller>>

\* cancel(), delete the entry, clear the queue: requestMutex is held all
\* through.  Queue operations can fall between the two halves, but they
\* commute with the first one.
CancelSession(s) ==
    /\ cancelled' = [c \in Calls |-> cancelled[c] \/ c = active[s]]
    /\ active' = [active EXCEPT ![s] = None]
    /\ queue' = [queue EXCEPT ![s] = <<>>]
    /\ UNCHANGED <<pc, state, batch, history, result, recv>>

Cancel(s) == CancelSession(s) /\ UNCHANGED <<sweep, targets>>

ClearQueue(s) ==
    /\ queue[s] # <<>>
    /\ queue' = [queue EXCEPT ![s] = <<>>]
    /\ UNCHANGED <<pc, active, state, cancelled, batch, history, result, caller>>

CancelAllCheck ==
    /\ sweep = "off" /\ IsBusy
    /\ sweep' = "snapshot"
    /\ UNCHANGED <<pc, active, state, cancelled, result, store, recv, targets>>

CancelAllSnapshot ==
    /\ sweep = "snapshot"
    /\ targets' = {s \in Sessions : active[s] # None}
    /\ sweep' = "cancelEach"
    /\ UNCHANGED <<pc, active, state, cancelled, result, store, recv>>

CancelAllNext ==
    /\ sweep = "cancelEach"
    /\ \E s \in targets :
          /\ CancelSession(s)
          /\ targets' = targets \ {s}
    /\ UNCHANGED sweep

CancelAllWait ==
    /\ sweep = "cancelEach" /\ targets = {}
    /\ sweep' = "poll"
    /\ UNCHANGED <<pc, active, state, cancelled, result, store, recv, targets>>

\* It returns when it finds no active request, or after five seconds.
CancelAllReturn ==
    /\ sweep = "poll"
    /\ sweep' = "off"
    /\ UNCHANGED <<pc, active, state, cancelled, result, store, recv, targets>>

-----------------------------------------------------------------------------
RunStep(c) ==
    \/ RunCheck(c) \/ Enqueue(c) \/ Register(c) \/ SetProcessing(c)

TurnStep(c) ==
    \/ Start(c) \/ StartFails(c) \/ LoopCancelled(c) \/ BeginTurn(c)
    \/ TurnToolUse(c) \/ TurnEnd(c) \/ TurnStop(c) \/ TurnFails(c)
    \/ DrainTool(c) \/ DrainEnd(c) \/ DrainNothing(c)
    \/ Record(c) \/ RecordFails(c) \/ RecordDone(c)

TailStep(c) ==
    \/ Cleanup(c) \/ CheckIdle(c) \/ SetIdle(c) \/ CancelAndPublish(c)
    \/ Deliver(c) \/ DropResult(c) \/ DeliverPanic(c)

CallerStep(c) == Receive(c) \/ ReceiveClosed(c) \/ CallerCancel(c)

CancelAll ==
    \/ CancelAllCheck \/ CancelAllSnapshot \/ CancelAllNext
    \/ CancelAllWait \/ CancelAllReturn

Next ==
    \/ \E c \in Calls : RunStep(c) \/ TurnStep(c) \/ TailStep(c) \/ CallerStep(c)
    \/ \E c \in Calls : PanicCreating(c) \/ PanicStreaming(c)
    \/ \E s \in Sessions : Cancel(s) \/ ClearQueue(s)
    \/ CancelAll

Spec == Init /\ [][Next]_vars

\* The Go scheduler runs every goroutine that can run, the store and the
\* provider answer (the provider ends its stream), and a caller that reads a
\* closed channel gets its zero value.  Nobody has to call Cancel, or to read.
FairSpec ==
    /\ Spec
    /\ \A c \in Calls : WF_vars(RunStep(c) \/ TurnStep(c) \/ TailStep(c))
    /\ \A c \in Calls : WF_vars(ReceiveClosed(c))

-----------------------------------------------------------------------------
(* What must hold.                                                         *)

\* Between its registration and its idle check.
Outstanding(c) == pc[c] \in {"setProcessing"} \cup InTurns \cup InCleanup

\* An entry of activeRequests names a run of that session that will still
\* delete it, or one that panicked before its cleanup: no entry outlives a run
\* that ended in order, however registrations, foreign deletions and Cancel
\* interleave (agent.go:252-254, 278-280, 195-199).
RegistryOwner ==
    \A s \in Sessions : active[s] # None =>
        LET c == active[s] IN
        /\ SessionOf[c] = s
        /\ \/ pc[c] \in {"setProcessing"} \cup InTurns \cup {"cleanup"}
           \/ result[c] = "panic"

\* The agent says "processing" only while some run is outstanding, or one
\* panicked: although the check of line 282 and the write of line 283 are
\* separate, the last run to finish always leaves the state "idle".
ProcessingHasRun ==
    state = "processing" => \E c \in Calls : Outstanding(c) \/ result[c] = "panic"

\* When no run is outstanding and none panicked, the agent is idle and not
\* busy: IsBusy and GetState agree once everything has settled.
QuiescentIdle ==
    (\A c \in Calls : ~Outstanding(c) /\ result[c] # "panic")
        => state = "idle" /\ ~IsBusy

\* What run c has recorded, is about to record, and would drain next: each
\* prompt behind the stage it is at and its place there.
Pipeline(c) ==
    LET h == history[SessionOf[c]]
        q == queue[SessionOf[c]]
    IN  {<<1, i, h[i].prompt>> : i \in {j \in DOMAIN h : h[j].by = c}}
            \cup {<<2, i, batch[c][i]>> : i \in DOMAIN batch[c]}
            \cup {<<3, i, q[i]>> : i \in DOMAIN q}

Before(x, y) == x[1] < y[1] \/ (x[1] = y[1] /\ x[2] < y[2])

\* Two prompts that are both still in the pipeline keep their order, and a
\* new one comes behind all that stayed.
OrderKept(old, new) ==
    \A x, y \in new : Before(x, y) =>
        \A v \in old : v[3] = y[3] => \E u \in old : u[3] = x[3] /\ Before(u, v)

\* A run records prompts in the order in which Enqueue accepted them, across
\* its drains and whatever Cancel, ClearQueue or another run of the same
\* session takes away in between (agent.go:244-246, 354-367, 371-387).
DrainsInOrder == [][\A c \in Calls : pc[c] # "start" /\ pc[c] \notin InRun
                        => OrderKept(Pipeline(c), Pipeline(c)')]_vars

\* The prompt ledger this refines: a prompt is in one place at a time.
Held(p) == \/ pc[p] \in {"enqueue", "register", "setProcessing", "start"}
           \/ \E s \in Sessions : \E i \in DOMAIN queue[s] : queue[s][i] = p
           \/ \E c \in Calls : \E i \in DOMAIN batch[c] : batch[c][i] = p

Said(p) == \E s \in Sessions : \E i \in DOMAIN history[s] : history[s][i].prompt = p

Status(p) == CASE Said(p) -> "recorded"
               [] ~Said(p) /\ Held(p) -> "accepted"
               [] ~Said(p) /\ ~Held(p) /\ pc[p] = "new" -> "unsent"
               [] OTHER -> "dropped"

Ledger == INSTANCE PromptLedger WITH
              status  <- [p \in Calls |-> Status(p)],
              log     <- [s \in Sessions |->
                            [i \in DOMAIN history[s] |-> history[s][i].prompt]]

\* Every prompt given to Run is recorded in its own session at most once, or
\* dropped for good; no interleaving of drains, cancellations and failures
\* duplicates or revives one.
ImplementsLedger == Ledger!Spec

\* A run whose context is done ends: its channel is closed, unless it panicked
\* and nobody reads the error.
CancelledRunEnds ==
    \A c \in Calls : cancelled[c] /\ pc[c] \in InTurns
        ~> pc[c] = "closed" \/ (pc[c] = "panicSend" /\ recv[c] = "away")

\* A caller that reads the channel of a run that leaves its turns is answered:
\* by the result, by the panic's error or by the closed channel.
WaiterAnswered ==
    \A c \in Calls : recv[c] = "waiting" /\ pc[c] \in InCleanup \cup InDeliver
        ~> recv[c] \in {"result", "panicErr", "zero"}

\* Not so in this code.  agent-tool.go:36: "When the agent is done, it will
\* return a single message back to you."  A caller that was waiting when its
\* run finished with a response is left with a closed channel.
ResultReturned ==
    [][\A c \in Calls :
          pc[c] = "deliver" /\ pc'[c] = "closed" /\ recv[c] = "waiting"
              /\ result[c] = "response"
          => recv'[c] = "result"]_vars
=============================================================================
