----------------------------- MODULE Generation -----------------------------
(***************************************************************************)
(* One run of the agent from the inside (llm/agent/agent.go):              *)
(* processGeneration, streamAndHandleEvents, processEvent and TrackUsage,  *)
(* with the message rows of the session, the copies of them the run keeps  *)
(* in memory and sends to the provider, the stream of provider events, and *)
(* the tool loop.  The context can be cancelled between any two steps, and *)
(* every call of the store can fail.                                       *)
(*                                                                         *)
(* Every step of it is a step of AgentRuns or one that AgentRuns does not  *)
(* see (StepsAreTurns), so what holds of AgentRuns' coarse turns holds of  *)
(* these.  Panics are left to AgentRuns.                                   *)
(***************************************************************************)
EXTENDS Naturals, Sequences

CONSTANTS
    Run,            \* the call whose run this is
    Prompts,        \* calls for the same session that may queue their prompt
    EmptyPrompts,   \* those whose prompt is ""
    ToolIds,        \* tool call identifiers the provider uses
    Unknown,        \* those that name a tool the agent does not have
    Stored,         \* [rows, summary]: what the session may already have
    CallLists,      \* the lists of tool calls a message may carry
    MaxToolTurns,   \* bound: turns in which the provider asks for tools
    MaxQueueing     \* bound: prompts are queued while there are fewer rows

ASSUME RunAssumption == /\ Run \notin Prompts /\ "none" \notin Prompts \cup {Run}
                        /\ EmptyPrompts \subseteq Prompts
ASSUME ToolAssumption == Unknown \subseteq ToolIds
ASSUME ListAssumption ==
    /\ CallLists \subseteq Seq(ToolIds) /\ <<>> \in CallLists
    /\ \A cs \in CallLists : \A i, j \in DOMAIN cs : cs[i] = cs[j] => i = j
ASSUME BoundAssumption == MaxToolTurns \in Nat /\ MaxQueueing \in Nat

VARIABLES
    pc,         \* where the run's goroutine stands
    cancelled,  \* is genCtx done?
    registered, \* is the run's cancel function still in activeRequests?
    queue,      \* promptQueue of the session
    sent,       \* the queued calls that were made
    batch,      \* queuedPrompts still to be recorded
    rows,       \* the session's messages in the store; a row's id is its index
    summary,    \* the row SummaryMessageID names; 0, or one that is not there
    hist,       \* msgHistory: [id, body] copies, sent to the provider
    msg,        \* assistantMsg / agentMessage, in memory
    completed,  \* did the stream deliver its complete event?
    next,       \* index of the tool loop
    slots,      \* toolResults
    toolTurns,  \* how often the provider asked for tools
    ret,        \* what processGeneration returned
    broken      \* did a call of the store fail, for any reason but the context?

vars == <<pc, cancelled, registered, queue, sent, batch, rows, summary, hist, msg, completed,
          next, slots, toolTurns, ret, broken>>

env    == <<cancelled, registered, sent, summary>>
prompts == <<queue, batch>>
tools  == <<next, slots>>
stream == <<msg, completed, toolTurns>>

-----------------------------------------------------------------------------
Finishes    == {"", "tool_use", "end_turn", "max_tokens", "canceled", "error"}
ResultKinds == {"", "ok", "failed", "notfound", "canceled"}

Body == [role : {"user", "assistant", "tool"}, prompt : Prompts \cup {Run, "none"},
         calls : CallLists,
         results : Seq([id : ToolIds, kind : ResultKinds]),
         finish : Finishes \cup {"stop"}]

ASSUME StoredAssumption == \A st \in Stored : st.rows \in Seq(Body)

Blank == [role |-> "assistant", prompt |-> "none", calls |-> <<>>, results |-> <<>>,
          finish |-> ""]
UserMessage(p)  == [Blank EXCEPT !.role = "user", !.prompt = p, !.finish = "stop"]
ToolMessage(rs) == [Blank EXCEPT !.role = "tool", !.results = rs, !.finish = "stop"]

\* The zero Message{}: its id names no row.
NoMessage == [id |-> 0, body |-> Blank]

TypeOK ==
    /\ pc \in {"list", "createUser", "loop", "createAssistant", "stream", "track",
               "interrupted", "failed", "tools", "toolWait", "createTool", "after",
               "drainTool", "drainEnd", "recordTool", "recordEnd", "returned"}
    /\ cancelled \in BOOLEAN /\ registered \in BOOLEAN /\ broken \in BOOLEAN
    /\ queue \in Seq(Prompts) /\ batch \in Seq(Prompts) /\ sent \subseteq Prompts
    /\ rows \in Seq(Body)
    /\ hist \in Seq([id : 1..Len(rows), body : Body])
    /\ msg \in [id : 0..Len(rows), body : Body]
    /\ completed \in BOOLEAN
    /\ slots \in Seq(ResultKinds)
    /\ next \in 1..(Len(slots) + 1)
    /\ toolTurns \in 0..MaxToolTurns
    /\ ret \in {"none", "response", "cancelled", "error"}

Init ==
    /\ pc = "list"
    /\ \E st \in Stored : rows = st.rows /\ summary = st.summary
    /\ hist = <<>>
    /\ cancelled = FALSE /\ registered = TRUE /\ broken = FALSE
    /\ queue = <<>> /\ batch = <<>> /\ sent = {}
    /\ msg = NoMessage /\ completed = FALSE /\ toolTurns = 0
    /\ next = 1 /\ slots = <<>>
    /\ ret = "none"

-----------------------------------------------------------------------------
(* Calls of the store.                                                     *)

Goto(from, to) == pc = from /\ pc' = to

\* Create: a new row, whose copy the caller gets.
NewId   == Len(rows) + 1
Create(body) == rows' = Append(rows, body)

\* UpdateMessage ... WHERE id: the zero message updates nothing.
Update(m) == rows' = [i \in DOMAIN rows |-> IF i = m.id THEN m.body ELSE rows[i]]

\* An Update whose error is ignored: it may not have happened.
UpdateOrNot(m) ==
    \/ Update(m) /\ UNCHANGED broken
    \/ rows' = rows /\ broken' = TRUE

Return(from, r) ==
    /\ Goto(from, "returned")
    /\ ret' = r
    /\ batch' = <<>>
    /\ UNCHANGED <<queue, env, hist, stream, tools>>

\* A call of the store fails, and so does the run.
ReturnBroken(from) == Return(from, "error") /\ broken' = TRUE /\ UNCHANGED rows

\* The same because of the context.
ReturnDone(from) == cancelled /\ Return(from, "error") /\ UNCHANGED <<rows, broken>>

-----------------------------------------------------------------------------
(* processGeneration, up to the loop.                                      *)

\* The messages from the summary on, the summary itself as the user's.
Visible ==
    IF summary \notin DOMAIN rows
    THEN [i \in DOMAIN rows |-> [id |-> i, body |-> rows[i]]]
    ELSE [i \in 1..(Len(rows) - summary + 1) |->
             LET k == summary + i - 1
             IN  [id |-> k, body |-> IF i = 1 THEN [rows[k] EXCEPT !.role = "user"]
                                              ELSE rows[k]]]

List ==
    /\ ~cancelled
    /\ Goto("list", "createUser")
    /\ hist' = Visible
    /\ UNCHANGED <<prompts, env, rows, stream, tools, ret, broken>>

\* createUserMessage of prompt p, appended to the history.
SayUser(p) ==
    /\ ~cancelled
    /\ Create(UserMessage(p))
    /\ hist' = Append(hist, [id |-> NewId, body |-> UserMessage(p)])

CreateUser ==
    /\ Goto("createUser", "loop")
    /\ SayUser(Run)
    /\ UNCHANGED <<prompts, env, stream, tools, ret, broken>>

StartFails == \E from \in {"list", "createUser"} : ReturnBroken(from) \/ ReturnDone(from)

LoopCancelled == ReturnDone("loop")

LoopContinues ==
    /\ ~cancelled
    /\ Goto("loop", "createAssistant")
    /\ UNCHANGED <<prompts, env, rows, hist, stream, tools, ret, broken>>

-----------------------------------------------------------------------------
(* streamAndHandleEvents: the stream.                                      *)

CreateAssistant ==
    /\ ~cancelled
    /\ Goto("createAssistant", "stream")
    /\ Create(Blank)
    /\ msg' = [id |-> NewId, body |-> Blank]
    /\ completed' = FALSE
    /\ UNCHANGED <<prompts, env, hist, toolTurns, tools, ret, broken>>

\* The message returned with the error is the zero one; cancelled, it is
\* finished and updated all the same.
CreateAssistantFails ==
    \/ ReturnBroken("createAssistant")
    \/ cancelled /\ Return("createAssistant", "cancelled") /\ UNCHANGED <<rows, broken>>

ToolCalls(m)    == m.body.calls
Calling(m, cs)  == [m EXCEPT !.body.calls = cs]
Finished(m, f)  == [m EXCEPT !.body.finish = f]

\* What one event short of complete makes of the message: a delta leaves what
\* is modelled of it alone, a tool_use_start adds or replaces a call.
Deltas == {msg} \cup {Calling(msg, cs) :
                          cs \in {Append(ToolCalls(msg), t) : t \in ToolIds} \cap CallLists}

\* The reasons a provider gives; none, or another request for tools, only
\* while there are fewer of those than the bound.
EndReasons == {"end_turn", "max_tokens"} \cup
              (IF toolTurns < MaxToolTurns THEN {"", "tool_use"} ELSE {})

\* What the complete event makes of it.
Completions == {Finished(Calling(msg, cs), f) :
                    cs \in CallLists, f \in EndReasons}

\* processEvent: the message changes in memory, then in the store.
EventDelta ==
    /\ ~cancelled /\ ~completed
    /\ Goto("stream", "stream")
    /\ msg' \in Deltas
    /\ Update(msg')
    /\ UNCHANGED <<prompts, env, hist, completed, toolTurns, tools, ret, broken>>

EventComplete ==
    /\ ~cancelled /\ ~completed
    /\ Goto("stream", "track")
    /\ msg' \in Completions
    /\ Update(msg')
    /\ completed' = TRUE
    /\ toolTurns' = toolTurns + (IF msg'.body.finish = "tool_use" THEN 1 ELSE 0)
    /\ UNCHANGED <<prompts, env, hist, tools, ret, broken>>

\* TrackUsage read and saved the session.
Track ==
    /\ ~cancelled
    /\ Goto("track", "stream")
    /\ UNCHANGED <<prompts, env, rows, hist, stream, tools, ret, broken>>

\* The context is seen done: before the event, by the store that should have
\* written its effect, by TrackUsage, or after it.
StreamInterrupted ==
    /\ cancelled
    /\ \/ Goto("stream", "interrupted") \/ Goto("track", "interrupted")
    /\ msg' \in IF completed THEN {msg} ELSE Deltas \cup Completions
    /\ UNCHANGED <<prompts, env, rows, hist, completed, toolTurns, tools, ret, broken>>

\* The provider reports an error, or the store does.
StreamFails ==
    /\ ~cancelled
    /\ \/ Goto("stream", "failed") /\ ~completed /\ broken' = broken /\ msg' = msg
       \/ Goto("stream", "failed") /\ ~completed /\ broken' = TRUE
             /\ msg' \in Deltas \cup Completions
       \/ Goto("track", "failed") /\ broken' = TRUE /\ msg' = msg
    /\ UNCHANGED <<prompts, env, rows, hist, completed, toolTurns, tools, ret>>

\* Variant: with the run's own context, which is done.
InterruptedUnsaved == Return("interrupted", "cancelled") /\ UNCHANGED <<rows, broken>>

\* finishMessage, then AddFinish and Update again in processGeneration, with
\* the background context: either may fail unnoticed.
Interrupted ==
    /\ UpdateOrNot(Finished(msg, "canceled"))
    /\ Return("interrupted", "cancelled")

\* finishMessage with the run's own context, which may be done by now.
Failed ==
    /\ Return("failed", "error")
    /\ IF cancelled THEN UNCHANGED <<rows, broken>> ELSE UpdateOrNot(Finished(msg, "error"))

\* The channel is closed, with or without a complete event.
StreamCloses ==
    /\ Goto("stream", "tools")
    /\ slots' = [i \in DOMAIN ToolCalls(msg) |-> ""]
    /\ next' = 1 /\ completed' = FALSE
    /\ UNCHANGED <<prompts, env, rows, hist, msg, toolTurns, ret, broken>>

-----------------------------------------------------------------------------
(* streamAndHandleEvents: the tools.                                       *)

\* Variant: the call at hand is left out.
UnansweredAfter(j) == j > next

Unanswered(j) == j >= next

\* Variant: a running tool is waited for.
LeavesBetweenTools == Goto("tools", "createTool")

LeavesTools == Goto("tools", "createTool") \/ Goto("toolWait", "createTool")

\* A done context, seen before a tool is started or while one runs: this call
\* and all those after it get a result that says so.
ToolsCancelled ==
    /\ cancelled /\ next <= Len(slots)
    /\ LeavesTools
    /\ slots' = [j \in DOMAIN slots |-> IF Unanswered(j) THEN "canceled" ELSE slots[j]]
    /\ msg' = Finished(msg, "canceled")
    /\ UpdateOrNot(msg')
    /\ UNCHANGED <<prompts, env, hist, completed, toolTurns, next, ret>>

Fill(k) ==
    /\ slots' = [slots EXCEPT ![next] = k]
    /\ next' = next + 1

ToolNotFound ==
    /\ ~cancelled /\ next <= Len(slots) /\ ToolCalls(msg)[next] \in Unknown
    /\ Goto("tools", "tools")
    /\ Fill("notfound")
    /\ UNCHANGED <<prompts, env, rows, hist, stream, ret, broken>>

ToolStarts ==
    /\ ~cancelled /\ next <= Len(slots) /\ ToolCalls(msg)[next] \notin Unknown
    /\ Goto("tools", "toolWait")
    /\ UNCHANGED <<prompts, env, rows, hist, stream, tools, ret, broken>>

\* The tool's goroutine sends; with the context done as well, the select may
\* take either.  A tool error becomes an empty result.  A tool the loop did
\* not wait for runs on, and nobody reads what it sends.
ToolReturns(k) ==
    /\ Goto("toolWait", "tools")
    /\ Fill(k)
    /\ UNCHANGED <<prompts, env, rows, hist, stream, ret, broken>>

ToolsDone ==
    /\ next > Len(slots)
    /\ Goto("tools", IF slots = <<>> THEN "after" ELSE "createTool")
    /\ UNCHANGED <<prompts, env, rows, hist, stream, tools, ret, broken>>

Results == ToolMessage([i \in DOMAIN slots |-> [id |-> ToolCalls(msg)[i], kind |-> slots[i]]])

\* With the background context.
CreateTool ==
    /\ Goto("createTool", "after")
    /\ Create(Results)
    /\ UNCHANGED <<prompts, env, hist, stream, tools, ret, broken>>

CreateToolFails == ReturnBroken("createTool")

-----------------------------------------------------------------------------
(* processGeneration, after the turn.                                      *)

Reason == msg.body.finish

\* toolResults is local to the turn.
TurnOver == next' = 1 /\ slots' = <<>>

\* Variants: the results first; no results.
ResultsFirst   == <<[id |-> Len(rows), body |-> Results], msg>>
WithoutResults == <<msg>>

TurnMessages == <<msg, [id |-> Len(rows), body |-> Results]>>

\* The turn and its results join the history.
AskedForTools == Reason = "tool_use" /\ slots # <<>>

ContinueWithTools ==
    /\ AskedForTools
    /\ Goto("after", "drainTool")
    /\ hist' = hist \o TurnMessages
    /\ TurnOver
    /\ UNCHANGED <<prompts, env, rows, stream, ret, broken>>

\* Only the drained prompts do, after an end of turn.
EndTurn ==
    /\ Reason = "end_turn"
    /\ Goto("after", "drainEnd")
    /\ TurnOver
    /\ UNCHANGED <<prompts, env, rows, hist, stream, ret, broken>>

Answer ==
    /\ ~AskedForTools /\ Reason \notin {"end_turn", ""}
    /\ Return("after", "response")
    /\ UNCHANGED <<rows, broken>>

\* Variant: the finish is added in memory only.
NoReasonUnsaved == Reason = "" /\ Return("after", "cancelled") /\ UNCHANGED <<rows, broken>>

NoReason ==
    /\ Reason = ""
    /\ UpdateOrNot(Finished(msg, "canceled"))
    /\ Return("after", "cancelled")

\* Variant: the queue is read but not reset.
DrainCopy(from, to) ==
    /\ Goto(from, to)
    /\ batch' = queue
    /\ UNCHANGED <<queue, env, rows, hist, stream, tools, ret, broken>>

Drain(from, to) ==
    /\ Goto(from, to)
    /\ batch' = queue
    /\ queue' = <<>>
    /\ UNCHANGED <<env, rows, hist, stream, tools, ret, broken>>

DrainTool == Drain("drainTool", "recordTool")
DrainEnd  == queue # <<>> /\ Drain("drainEnd", "recordEnd")

DrainNothing == queue = <<>> /\ Return("drainEnd", "response") /\ UNCHANGED <<rows, broken>>

Skips == pc = "recordEnd" /\ Head(batch) \in EmptyPrompts

Record ==
    /\ pc \in {"recordTool", "recordEnd"} /\ batch # <<>>
    /\ IF Skips THEN UNCHANGED <<rows, hist>> ELSE SayUser(Head(batch))
    /\ batch' = Tail(batch)
    /\ UNCHANGED <<pc, queue, env, stream, tools, ret, broken>>

RecordFails ==
    /\ batch # <<>> /\ ~Skips
    /\ \E from \in {"recordTool", "recordEnd"} : ReturnBroken(from) \/ ReturnDone(from)

\* The next round of the loop has an agentMessage of its own.
RecordDone ==
    /\ batch = <<>>
    /\ Goto("recordTool", "loop") \/ Goto("recordEnd", "loop")
    /\ msg' = NoMessage
    /\ UNCHANGED <<prompts, env, rows, hist, completed, toolTurns, tools, ret, broken>>

-----------------------------------------------------------------------------
(* The rest of the agent, until the run returns.                           *)

\* Run found the session busy.
Enqueue(p) ==
    /\ p \notin sent /\ pc # "returned" /\ Len(rows) < MaxQueueing
    /\ sent' = sent \cup {p}
    /\ queue' = Append(queue, p)
    /\ UNCHANGED <<pc, cancelled, registered, summary, batch, rows, hist, stream, tools, ret,
                   broken>>

CancelSession ==
    /\ pc # "returned" /\ (registered \/ queue # <<>>)
    /\ cancelled' = (cancelled \/ registered)
    /\ registered' = FALSE
    /\ queue' = <<>>
    /\ UNCHANGED <<pc, sent, summary, batch, rows, hist, stream, tools, ret, broken>>

CallerCancel ==
    /\ ~cancelled /\ pc # "returned"
    /\ cancelled' = TRUE
    /\ UNCHANGED <<pc, registered, sent, summary, prompts, rows, hist, stream, tools, ret,
                   broken>>

-----------------------------------------------------------------------------
RunStep ==
    \/ List \/ CreateUser \/ StartFails \/ LoopCancelled \/ LoopContinues
    \/ CreateAssistant \/ CreateAssistantFails
    \/ EventDelta \/ EventComplete \/ Track \/ StreamInterrupted \/ StreamFails
    \/ Interrupted \/ Failed \/ StreamCloses
    \/ ToolsCancelled \/ ToolNotFound \/ ToolStarts \/ ToolsDone
    \/ CreateTool \/ CreateToolFails
    \/ ContinueWithTools \/ EndTurn \/ Answer \/ NoReason
    \/ DrainTool \/ DrainEnd \/ DrainNothing \/ Record \/ RecordFails \/ RecordDone

ToolStep == \E k \in {"ok", "failed"} : ToolReturns(k)

Environment == (\E p \in Prompts : Enqueue(p)) \/ CancelSession \/ CallerCancel

Next == RunStep \/ ToolStep \/ Environment

Spec == Init /\ [][Next]_vars

\* The run's goroutine runs, the store answers, and the provider ends its
\* stream when the context is done.  Nothing makes a tool return.
FairSpec == Spec /\ WF_vars(RunStep)

-----------------------------------------------------------------------------
(* What must hold.                                                         *)

\* What may be asked of the messages of a session, whoever wrote them.
AnswersBefore(rs, i) == rs[i].role = "tool" =>
    /\ i > 1 /\ rs[i - 1].role = "assistant"
    /\ [k \in DOMAIN rs[i].results |-> rs[i].results[k].id] = rs[i - 1].calls
    /\ \A k \in DOMAIN rs[i].results : rs[i].results[k].kind # ""

HasCalls(body)   == body.role = "assistant" /\ body.calls # <<>>
Unfinished(body) == body.role = "assistant" /\ body.finish = ""

\* The stream ended after a call began: nobody runs it or answers for it.
CutShort(body)   == body.finish \in {"canceled", "error", ""}

Answered(rs, i) == i < Len(rs) /\ rs[i + 1].role = "tool"

AllAnswered(rs) == \A i \in DOMAIN rs : HasCalls(rs[i]) => Answered(rs, i) \/ CutShort(rs[i])

\* That the session the run starts from has them.
StoredComplete == \A st \in Stored : \A i \in DOMAIN st.rows : AnswersBefore(st.rows, i)
StoredAnswered == \A st \in Stored : AllAnswered(st.rows)
StoredFinished == \A st \in Stored : \A i \in DOMAIN st.rows : ~Unfinished(st.rows[i])

\* Every tool message answers the calls of the assistant message before it,
\* one result per call in the order of the calls, none left blank, wherever
\* the loop was cut short (agent.go:453-548).
ToolMessagesComplete == \A i \in DOMAIN rows : AnswersBefore(rows, i)

\* What the provider is sent is what the store holds: no copy in the history
\* has fallen behind its row, and they are in the store's order, whatever
\* Update failed without notice (agent.go:329, 352, 366).
HistoryMatchesStore ==
    /\ \A i \in DOMAIN hist : hist[i].id # summary => hist[i].body = rows[hist[i].id]
    /\ \A i, j \in DOMAIN hist : i < j => hist[i].id < hist[j].id

\* Calls of the history that nobody answered.
Open(i) == HasCalls(hist[i].body) /\ ~(i < Len(hist) /\ hist[i + 1].body.role = "tool")

\* What the provider is sent has the results of the calls right behind them,
\* whatever was queued or cancelled; all but calls of an earlier run whose
\* stream was cut short, which this code sends without any (agent.go:310-322,
\* 437-447).  A run whose store works leaves no others, so the next one finds
\* what this one did.
CallsAnswered ==
    /\ pc = "stream" => \A i \in DOMAIN hist : Open(i) =>
           /\ CutShort(hist[i].body)
           /\ \E k \in DOMAIN hist : i < k /\ hist[k].body.prompt = Run
    /\ pc = "returned" /\ ~broken => AllAnswered(rows)

\* When the run returns every assistant message it wrote is finished, unless
\* the store failed; or unless a cancellation came between a provider's error
\* and the last Update, which is done with the run's context, and then only
\* the message of that turn is not (agent.go:438-442).
FinishedOnReturn ==
    pc = "returned" /\ ~broken =>
        \A i \in DOMAIN rows : Unfinished(rows[i]) => i = msg.id /\ cancelled /\ ret = "error"

\* A run that answers "request canceled by user" left its last assistant
\* message marked so, unless the store failed or there was no time to create
\* one (agent.go:341-344, 392-396, 439, 446, 456, 507).
CancellationRecorded ==
    pc = "returned" /\ ret = "cancelled" /\ ~broken /\ msg.id # 0 =>
        rows[msg.id].finish = "canceled"

\* A cancelled run returns, even from a tool that never does, as long as the
\* provider closes the stream (agent.go:333-338, 455-465, 505-516).
CancelledReturns == cancelled ~> pc = "returned"

\* How AgentRuns sees the run.
PcAbove ==
    CASE pc \in {"list", "createUser"} -> "start"
      [] pc \in {"createAssistant", "stream", "track", "interrupted", "failed", "tools",
                 "toolWait", "createTool", "after"} -> "stream"
      [] pc = "returned" -> "cleanup"
      [] OTHER -> pc

\* The prompts among some rows, in their order.
IsPrompt(body) == body.role = "user" /\ body.prompt # "none"

Said(rs) ==
    LET said[n \in 0..Len(rs)] ==
            IF n = 0 THEN <<>>
            ELSE IF IsPrompt(rs[n]) THEN Append(said[n - 1], [prompt |-> rs[n].prompt, by |-> Run])
            ELSE said[n - 1]
    IN  said[Len(rs)]

Above == INSTANCE AgentRuns WITH
    Calls     <- Prompts \cup {Run},
    Sessions  <- {"session"},
    SessionOf <- [c \in Prompts \cup {Run} |-> "session"],
    Readers   <- {},
    Children  <- {Run},
    None      <- "none",
    pc        <- [c \in Prompts \cup {Run} |-> IF c = Run THEN PcAbove
                                              ELSE IF c \in sent THEN "queued" ELSE "enqueue"],
    active    <- [s \in {"session"} |-> IF registered THEN Run ELSE "none"],
    state     <- "processing",
    queue     <- [s \in {"session"} |-> queue],
    cancelled <- [c \in Prompts \cup {Run} |-> c = Run /\ cancelled],
    batch     <- [c \in Prompts \cup {Run} |-> IF c = Run THEN batch ELSE <<>>],
    history   <- [s \in {"session"} |-> Said(rows)],
    result    <- [c \in Prompts \cup {Run} |->
                     IF c # Run \/ ret = "none" THEN "none"
                     ELSE IF ret = "response" THEN "response" ELSE "error"],
    recv      <- [c \in Prompts \cup {Run} |-> "away"],
    sweep     <- "off",
    targets   <- {}

\* Every step of the run and its surroundings is a step of AgentRuns, or one
\* that changes nothing AgentRuns looks at.
StepsAreTurns == [][Above!Next]_(Above!vars)

\* Not so in this code.  agent.go:328: "Append the new user message to the
\* conversation history."  The history the next turn is asked with lacks the
\* answer that the queued prompt follows.
HistoryIsConversation ==
    pc = "stream" /\ summary = 0 /\ ~broken =>
        {hist[i].id : i \in DOMAIN hist} = DOMAIN rows \ {msg.id}
=============================================================================
