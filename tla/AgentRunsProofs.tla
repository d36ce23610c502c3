-------------------------- MODULE AgentRunsProofs --------------------------
(***************************************************************************)
(* Proofs about AgentRuns, for any calls, sessions and callers.            *)
(*                                                                         *)
(* ProcessingHasRun is not inductive: when a run finds the agent busy and  *)
(* leaves the state alone, another run must be there to answer for it.     *)
(* RegistryOwner provides that run, and needs in turn that a run which     *)
(* panicked never moves again but to the close of its channel.             *)
(***************************************************************************)
EXTENDS AgentRuns, SequenceTheorems, TLAPS

\* A run whose result is "panic" is at the send of its recover handler, or
\* past it.
PanicIsFinal == \A c \in Calls : result[c] = "panic" => pc[c] \in {"panicSend", "closed"}

IInv == TypeOK /\ PanicIsFinal /\ RegistryOwner /\ ProcessingHasRun

USE DEF Goto, InRun, InTurns, InCleanup, InDeliver, store, caller

LEMMA InitInv == Init => IInv
BY SessionAssumption
   DEF Init, IInv, TypeOK, PCs, Results, Recvs, PanicIsFinal, RegistryOwner,
       ProcessingHasRun

-----------------------------------------------------------------------------
(* Type correctness, one lemma per group of actions.                       *)

LEMMA EnqueueType ==
    ASSUME TypeOK, NEW c \in Calls, Enqueue(c)
    PROVE  TypeOK'
<1>1. queue[SessionOf[c]] \in Seq(Calls)
  BY SessionAssumption DEF TypeOK
<1>2. Append(queue[SessionOf[c]], c) \in Seq(Calls)
  BY <1>1
<1>3. queue' \in [Sessions -> Seq(Calls)]
  BY <1>2 DEF Enqueue, TypeOK
<1>4. pc' \in [Calls -> PCs]
  BY DEF Enqueue, TypeOK, PCs
<1> QED BY <1>3, <1>4 DEF Enqueue, TypeOK

LEMMA TypeRunStep ==
    ASSUME TypeOK, NEW c \in Calls, RunStep(c)
    PROVE  TypeOK'
<1>1. CASE RunCheck(c)
  BY <1>1 DEF RunCheck, TypeOK, PCs
<1>2. CASE Enqueue(c)
  BY <1>2, EnqueueType
<1>3. CASE Register(c)
  BY <1>3 DEF Register, TypeOK, PCs
<1>4. CASE SetProcessing(c)
  BY <1>4 DEF SetProcessing, TypeOK, PCs
<1> QED BY <1>1, <1>2, <1>3, <1>4 DEF RunStep

LEMMA FinishType ==
    ASSUME TypeOK, NEW c \in Calls, NEW from, NEW r \in Results, Finish(c, from, r)
    PROVE  TypeOK'
<1>1. <<>> \in Seq(Calls)
  OBVIOUS
<1>2. batch' \in [Calls -> Seq(Calls)]
  BY <1>1 DEF Finish, TypeOK
<1>3. pc' \in [Calls -> PCs] /\ result' \in [Calls -> Results]
  BY DEF Finish, TypeOK, PCs
<1> QED BY <1>2, <1>3 DEF Finish, TypeOK

LEMMA HistoryType ==
    ASSUME TypeOK, NEW c \in Calls, NEW p \in Calls, CreateUserMessage(c, p)
    PROVE  history' \in [Sessions -> Seq([prompt : Calls, by : Calls])]
<1> DEFINE m == [prompt |-> p, by |-> c]
<1>1. m \in [prompt : Calls, by : Calls]
  OBVIOUS
<1>2. history[SessionOf[c]] \in Seq([prompt : Calls, by : Calls])
  BY SessionAssumption DEF TypeOK
<1> HIDE DEF m
<1>3. Append(history[SessionOf[c]], m) \in Seq([prompt : Calls, by : Calls])
  BY <1>1, <1>2
<1>4. history' = [history EXCEPT ![SessionOf[c]] = Append(@, m)]
  BY DEF CreateUserMessage, m
<1> QED BY <1>3, <1>4 DEF TypeOK

LEMMA HeadType ==
    ASSUME TypeOK, NEW c \in Calls, batch[c] # <<>>
    PROVE  Head(batch[c]) \in Calls /\ Tail(batch[c]) \in Seq(Calls)
<1>1. batch[c] \in Seq(Calls)
  BY DEF TypeOK
<1> QED BY <1>1

LEMMA DrainType ==
    ASSUME TypeOK, NEW c \in Calls, NEW from, NEW to \in PCs, Drain(c, from, to)
    PROVE  TypeOK'
<1>1. queue[SessionOf[c]] \in Seq(Calls) /\ <<>> \in Seq(Calls)
  BY SessionAssumption DEF TypeOK
<1>2. batch' \in [Calls -> Seq(Calls)] /\ queue' \in [Sessions -> Seq(Calls)]
  BY <1>1 DEF Drain, TypeOK
<1>3. pc' \in [Calls -> PCs]
  BY DEF Drain, TypeOK
<1> QED BY <1>2, <1>3 DEF Drain, TypeOK

LEMMA RecordType ==
    ASSUME TypeOK, NEW c \in Calls, Record(c)
    PROVE  TypeOK'
<1>1. Head(batch[c]) \in Calls /\ Tail(batch[c]) \in Seq(Calls)
  BY HeadType DEF Record
<1>2. history' \in [Sessions -> Seq([prompt : Calls, by : Calls])]
  <2>1. CASE Skips(c)
    BY <2>1 DEF Record, TypeOK
  <2>2. CASE ~Skips(c)
    BY <2>2, <1>1, HistoryType DEF Record
  <2> QED BY <2>1, <2>2
<1>3. batch' \in [Calls -> Seq(Calls)]
  BY <1>1 DEF Record, TypeOK
<1> QED BY <1>2, <1>3 DEF Record, TypeOK

LEMMA TypeTurnStep ==
    ASSUME TypeOK, NEW c \in Calls, TurnStep(c)
    PROVE  TypeOK'
<1>1. CASE Start(c)
  <2>1. history' \in [Sessions -> Seq([prompt : Calls, by : Calls])]
    BY <1>1, HistoryType DEF Start
  <2>2. pc' \in [Calls -> PCs]
    BY <1>1 DEF Start, TypeOK, PCs
  <2> QED BY <1>1, <2>1, <2>2 DEF Start, TypeOK
<1>2. CASE StartFails(c) \/ LoopCancelled(c) \/ TurnStop(c) \/ TurnFails(c)
           \/ DrainNothing(c) \/ RecordFails(c)
  BY <1>2, FinishType
     DEF StartFails, LoopCancelled, TurnStop, TurnFails, DrainNothing, RecordFails, Results
<1>3. CASE BeginTurn(c) \/ TurnToolUse(c) \/ TurnEnd(c) \/ RecordDone(c)
  BY <1>3 DEF BeginTurn, TurnToolUse, TurnEnd, RecordDone, TypeOK, PCs
<1>4. CASE DrainTool(c) \/ DrainEnd(c)
  BY <1>4, DrainType DEF DrainTool, DrainEnd, PCs
<1>5. CASE Record(c)
  BY <1>5, RecordType
<1> QED BY <1>1, <1>2, <1>3, <1>4, <1>5 DEF TurnStep

LEMMA TypePanic ==
    ASSUME TypeOK, NEW c \in Calls, PanicCreating(c) \/ PanicStreaming(c)
    PROVE  TypeOK'
<1>1. history' \in [Sessions -> Seq([prompt : Calls, by : Calls])]
  BY HeadType, HistoryType DEF PanicCreating, PanicStreaming, TypeOK
<1>2. \E from : Panic(c, from)
  BY DEF PanicCreating, PanicStreaming
<1>3. <<>> \in Seq(Calls)
  OBVIOUS
<1>4. batch' \in [Calls -> Seq(Calls)]
  BY <1>2, <1>3 DEF Panic, TypeOK
<1>5. pc' \in [Calls -> PCs] /\ result' \in [Calls -> Results]
  BY <1>2 DEF Panic, TypeOK, PCs, Results
<1> QED BY <1>1, <1>2, <1>4, <1>5 DEF Panic, TypeOK

LEMMA TypeTailStep ==
    ASSUME TypeOK, NEW c \in Calls, TailStep(c)
    PROVE  TypeOK'
<1>1. CASE Cleanup(c) \/ CheckIdle(c) \/ SetIdle(c)
  BY <1>1 DEF Cleanup, CheckIdle, SetIdle, TypeOK, PCs
<1>2. CASE CancelAndPublish(c)
  BY <1>2 DEF CancelAndPublish, TypeOK, PCs
<1>3. CASE Deliver(c) \/ DropResult(c) \/ DeliverPanic(c)
  BY <1>3 DEF Deliver, DropResult, DeliverPanic, TypeOK, PCs, Recvs
<1> QED BY <1>1, <1>2, <1>3 DEF TailStep

LEMMA TypeCallerStep ==
    ASSUME TypeOK, NEW c \in Calls, CallerStep(c)
    PROVE  TypeOK'
BY DEF CallerStep, Receive, ReceiveClosed, CallerCancel, TypeOK, Recvs

LEMMA CancelSessionType ==
    ASSUME TypeOK, NEW s \in Sessions, CancelSession(s)
    PROVE  /\ active' \in [Sessions -> Calls \cup {None}]
           /\ cancelled' \in [Calls -> BOOLEAN]
           /\ queue' \in [Sessions -> Seq(Calls)]
<1>1. <<>> \in Seq(Calls)
  OBVIOUS
<1>2. \A c \in Calls : (cancelled[c] \/ c = active[s]) \in BOOLEAN
  OBVIOUS
<1> QED BY <1>1, <1>2 DEF CancelSession, TypeOK

LEMMA TypeCancel ==
    ASSUME TypeOK, NEW s \in Sessions, Cancel(s) \/ ClearQueue(s)
    PROVE  TypeOK'
<1>1. CASE Cancel(s)
  BY <1>1, CancelSessionType DEF Cancel, CancelSession, TypeOK
<1>2. CASE ClearQueue(s)
  <2>1. <<>> \in Seq(Calls)
    OBVIOUS
  <2>2. queue' \in [Sessions -> Seq(Calls)]
    BY <1>2, <2>1 DEF ClearQueue, TypeOK
  <2> QED BY <1>2, <2>2 DEF ClearQueue, TypeOK
<1> QED BY <1>1, <1>2

LEMMA TypeCancelAll ==
    ASSUME TypeOK, CancelAll
    PROVE  TypeOK'
<1>1. CASE CancelAllCheck \/ CancelAllSnapshot \/ CancelAllWait \/ CancelAllReturn
  BY <1>1 DEF CancelAllCheck, CancelAllSnapshot, CancelAllWait, CancelAllReturn, TypeOK
<1>2. CASE CancelAllNext
  <2>1. PICK s \in targets : CancelSession(s) /\ targets' = targets \ {s}
    BY <1>2 DEF CancelAllNext
  <2>2. s \in Sessions /\ targets' \subseteq Sessions
    BY <2>1 DEF TypeOK
  <2> QED BY <1>2, <2>1, <2>2, CancelSessionType DEF CancelAllNext, CancelSession, TypeOK
<1> QED BY <1>1, <1>2 DEF CancelAll

LEMMA TypeStep == TypeOK /\ [Next]_vars => TypeOK'
<1> SUFFICES ASSUME TypeOK, [Next]_vars PROVE TypeOK'
  OBVIOUS
<1>1. CASE UNCHANGED vars
  BY <1>1 DEF vars, TypeOK
<1>2. CASE Next
  BY <1>2, TypeRunStep, TypeTurnStep, TypeTailStep, TypeCallerStep, TypePanic,
     TypeCancel, TypeCancelAll DEF Next
<1> QED BY <1>1, <1>2

\* Every reachable state is well typed: in particular the registry and the
\* queues only ever name calls, and the histories only prompts of calls.
THEOREM TypeCorrect == Spec => []TypeOK
<1>1. Init => TypeOK
  BY InitInv DEF IInv
<1> QED BY <1>1, TypeStep, PTL DEF Spec

-----------------------------------------------------------------------------
(* The registry and the agent's state.                                     *)

\* Steps of a run that leave the registry and the state alone, and either stay
\* before the cleanup or are past the idle check.
LEMMA QuietStep ==
    ASSUME IInv, NEW c \in Calls, UNCHANGED <<active, state>>,
           NEW to \in PCs, pc' = [pc EXCEPT ![c] = to],
           result'[c] = "panic" => to \in {"panicSend", "closed"},
           \A d \in Calls \ {c} : result'[d] = result[d],
           result[c] = "panic" => result'[c] = "panic",
           pc[c] \in {"setProcessing"} \cup InTurns \cup {"cleanup"}
              => to \in InTurns \cup {"cleanup"} \/ result'[c] = "panic",
           pc[c] \in {"checkIdle", "setIdle"} => to \in InCleanup
    PROVE  PanicIsFinal' /\ RegistryOwner' /\ ProcessingHasRun'
<1>1. PanicIsFinal'
  BY DEF IInv, TypeOK, PanicIsFinal
<1>2. RegistryOwner'
  BY SessionAssumption, NoneAssumption DEF IInv, TypeOK, RegistryOwner
<1>3. ProcessingHasRun'
  <2>1. SUFFICES ASSUME state = "processing"
                 PROVE  \E d \in Calls : Outstanding(d)' \/ result'[d] = "panic"
    BY DEF ProcessingHasRun
  <2>2. PICK d \in Calls : Outstanding(d) \/ result[d] = "panic"
    BY <2>1 DEF IInv, ProcessingHasRun
  <2>3. Outstanding(d)' \/ result'[d] = "panic"
    BY <2>2 DEF IInv, TypeOK, Outstanding
  <2> QED BY <2>3
<1> QED BY <1>1, <1>2, <1>3

\* Steps that move no run: callers, CancelAll, cancellations.  They may empty
\* entries of the registry.
LEMMA StillStep ==
    ASSUME IInv, UNCHANGED <<pc, state, result>>,
           \A s \in Sessions : active'[s] \in {active[s], None}
    PROVE  PanicIsFinal' /\ RegistryOwner' /\ ProcessingHasRun'
BY DEF IInv, PanicIsFinal, RegistryOwner, ProcessingHasRun, Outstanding

LEMMA RunStepInv ==
    ASSUME IInv, NEW c \in Calls, RunStep(c)
    PROVE  PanicIsFinal' /\ RegistryOwner' /\ ProcessingHasRun'
<1>1. CASE RunCheck(c)
  BY <1>1, QuietStep DEF RunCheck, IInv, TypeOK, PCs, PanicIsFinal
<1>2. CASE Enqueue(c)
  BY <1>2, QuietStep DEF Enqueue, IInv, TypeOK, PCs, PanicIsFinal
<1>3. CASE Register(c)
  <2>1. PanicIsFinal'
    BY <1>3 DEF Register, IInv, TypeOK, PanicIsFinal
  <2>2. RegistryOwner'
    BY <1>3, SessionAssumption, NoneAssumption
       DEF Register, IInv, TypeOK, PanicIsFinal, RegistryOwner
  <2>3. ProcessingHasRun'
    BY <1>3 DEF Register, IInv, TypeOK, ProcessingHasRun, Outstanding
  <2> QED BY <2>1, <2>2, <2>3
<1>4. CASE SetProcessing(c)
  <2>1. PanicIsFinal'
    BY <1>4 DEF SetProcessing, IInv, TypeOK, PanicIsFinal
  <2>2. RegistryOwner'
    BY <1>4, SessionAssumption, NoneAssumption
       DEF SetProcessing, IInv, TypeOK, PanicIsFinal, RegistryOwner
  <2>3. Outstanding(c)'
    BY <1>4 DEF SetProcessing, IInv, TypeOK, Outstanding
  <2> QED BY <2>1, <2>2, <2>3 DEF ProcessingHasRun
<1> QED BY <1>1, <1>2, <1>3, <1>4 DEF RunStep

LEMMA FinishInv ==
    ASSUME IInv, NEW c \in Calls, NEW from \in InTurns,
           NEW r \in Results \ {"panic"}, Finish(c, from, r)
    PROVE  PanicIsFinal' /\ RegistryOwner' /\ ProcessingHasRun'
<1>1. result[c] # "panic" /\ "cleanup" \in PCs
  BY DEF Finish, IInv, PanicIsFinal, PCs
<1>2. result'[c] = r /\ \A d \in Calls \ {c} : result'[d] = result[d]
  BY DEF Finish, IInv, TypeOK
<1> QED BY <1>1, <1>2, QuietStep DEF Finish

LEMMA TurnStepInv ==
    ASSUME IInv, NEW c \in Calls, TurnStep(c)
    PROVE  PanicIsFinal' /\ RegistryOwner' /\ ProcessingHasRun'
<1>1. CASE Start(c) \/ BeginTurn(c) \/ TurnToolUse(c) \/ TurnEnd(c) \/ RecordDone(c)
  <2>1. \E from \in InTurns, to \in InTurns :
           pc[c] = from /\ pc' = [pc EXCEPT ![c] = to] /\ UNCHANGED <<active, state, result>>
    BY <1>1 DEF Start, BeginTurn, TurnToolUse, TurnEnd, RecordDone, Goto, InTurns
  <2>2. PICK from \in InTurns, to \in InTurns :
           pc[c] = from /\ pc' = [pc EXCEPT ![c] = to] /\ UNCHANGED <<active, state, result>>
    BY <2>1
  <2>3. result[c] # "panic" /\ to \in PCs
    BY <2>2 DEF IInv, PanicIsFinal, PCs, InTurns
  <2> QED BY <2>2, <2>3, QuietStep
<1>2. CASE StartFails(c) \/ LoopCancelled(c) \/ TurnStop(c) \/ TurnFails(c)
           \/ DrainNothing(c) \/ RecordFails(c)
  BY <1>2, FinishInv
     DEF StartFails, LoopCancelled, TurnStop, TurnFails, DrainNothing, RecordFails, Results
<1>3. ASSUME NEW from \in {"drainTool", "drainEnd"}, NEW to \in InTurns, Drain(c, from, to)
      PROVE  PanicIsFinal' /\ RegistryOwner' /\ ProcessingHasRun'
  <2>1. UNCHANGED <<active, state, result>> /\ to \in PCs
    BY <1>3 DEF Drain, PCs
  <2>2. pc[c] = from /\ pc' = [pc EXCEPT ![c] = to] /\ result[c] # "panic"
    BY <1>3 DEF Drain, IInv, PanicIsFinal
  <2> QED BY <2>1, <2>2, QuietStep
<1>4. CASE Record(c)
  BY <1>4, StillStep DEF Record, IInv, TypeOK
<1> QED BY <1>1, <1>2, <1>3, <1>4 DEF TurnStep, DrainTool, DrainEnd

LEMMA PanicInv ==
    ASSUME IInv, NEW c \in Calls, PanicCreating(c) \/ PanicStreaming(c)
    PROVE  PanicIsFinal' /\ RegistryOwner' /\ ProcessingHasRun'
<1>1. \E from \in InTurns : Panic(c, from)
  BY DEF PanicCreating, PanicStreaming
<1>2. result'[c] = "panic" /\ \A d \in Calls \ {c} : result'[d] = result[d]
  BY <1>1 DEF Panic, IInv, TypeOK
<1>3. "panicSend" \in PCs /\ pc[c] \in InTurns
  BY <1>1 DEF Panic, PCs
<1> QED BY <1>1, <1>2, <1>3, QuietStep DEF Panic

LEMMA TailStepInv ==
    ASSUME IInv, NEW c \in Calls, TailStep(c)
    PROVE  PanicIsFinal' /\ RegistryOwner' /\ ProcessingHasRun'
<1>1. CASE Cleanup(c)
  <2>1. PanicIsFinal'
    BY <1>1 DEF Cleanup, IInv, TypeOK, PanicIsFinal
  <2>2. RegistryOwner'
    BY <1>1, SessionAssumption, NoneAssumption
       DEF Cleanup, IInv, TypeOK, PanicIsFinal, RegistryOwner
  <2>3. ProcessingHasRun'
    BY <1>1 DEF Cleanup, IInv, TypeOK, ProcessingHasRun, Outstanding
  <2> QED BY <2>1, <2>2, <2>3
<1>2. CASE CheckIdle(c)
  <2>1. CASE IsBusy
    <3>1. PICK s \in Sessions : active[s] # None
      BY <2>1 DEF IsBusy
    <3>2. pc[c] = "checkIdle" /\ result[c] # "panic" /\ result' = result /\ active' = active
      BY <1>2 DEF CheckIdle, IInv, PanicIsFinal
    <3>3. PICK d \in Calls :
              pc[d] \in {"setProcessing"} \cup InTurns \cup {"cleanup"} \/ result[d] = "panic"
      BY <3>1 DEF IInv, TypeOK, RegistryOwner
    <3>4. \A e \in Calls \ {c} : pc'[e] = pc[e]
      BY <1>2 DEF CheckIdle, IInv, TypeOK
    <3>5. PanicIsFinal'
      BY <3>2, <3>4 DEF IInv, PanicIsFinal
    <3>6. RegistryOwner'
      BY <3>2, <3>4 DEF IInv, TypeOK, RegistryOwner
    <3>7. ProcessingHasRun'
      BY <3>2, <3>3, <3>4 DEF ProcessingHasRun, Outstanding
    <3> QED BY <3>5, <3>6, <3>7
  <2>2. CASE ~IsBusy
    BY <1>2, <2>2, QuietStep DEF CheckIdle, IInv, TypeOK, PCs, PanicIsFinal
  <2> QED BY <2>1, <2>2
<1>3. CASE SetIdle(c)
  BY <1>3 DEF SetIdle, IInv, TypeOK, PanicIsFinal, RegistryOwner, ProcessingHasRun
<1>4. CASE CancelAndPublish(c)
  BY <1>4, QuietStep DEF CancelAndPublish, IInv, TypeOK, PCs, PanicIsFinal
<1>5. CASE Deliver(c) \/ DropResult(c) \/ DeliverPanic(c)
  <2>1. /\ pc' = [pc EXCEPT ![c] = "closed"] /\ UNCHANGED <<active, state, result>>
        /\ pc[c] \in {"deliver", "panicSend"}
    BY <1>5 DEF Deliver, DropResult, DeliverPanic
  <2> QED BY <2>1, QuietStep DEF PCs
<1> QED BY <1>1, <1>2, <1>3, <1>4, <1>5 DEF TailStep

LEMMA OthersInv ==
    ASSUME IInv,
           \/ \E c \in Calls : CallerStep(c)
           \/ \E s \in Sessions : Cancel(s) \/ ClearQueue(s)
           \/ CancelAll
    PROVE  PanicIsFinal' /\ RegistryOwner' /\ ProcessingHasRun'
<1>1. UNCHANGED <<pc, state, result>>
  BY DEF CallerStep, Receive, ReceiveClosed, CallerCancel, Cancel, CancelSession,
         ClearQueue, CancelAll, CancelAllCheck, CancelAllSnapshot, CancelAllNext,
         CancelAllWait, CancelAllReturn
<1>2. \A s \in Sessions : active'[s] \in {active[s], None}
  BY DEF IInv, TypeOK, CallerStep, Receive, ReceiveClosed, CallerCancel, Cancel,
         CancelSession, ClearQueue, CancelAll, CancelAllCheck, CancelAllSnapshot,
         CancelAllNext, CancelAllWait, CancelAllReturn
<1> QED BY <1>1, <1>2, StillStep

LEMMA NextInv == IInv /\ [Next]_vars => IInv'
<1> SUFFICES ASSUME IInv, [Next]_vars PROVE IInv'
  OBVIOUS
<1>1. TypeOK'
  BY TypeStep DEF IInv
<1>2. CASE UNCHANGED vars
  BY <1>1, <1>2, StillStep DEF vars, IInv
<1>3. CASE Next
  BY <1>1, <1>3, RunStepInv, TurnStepInv, TailStepInv, PanicInv, OthersInv
     DEF Next, IInv
<1> QED BY <1>2, <1>3

LEMMA Invariance == Spec => []IInv
BY InitInv, NextInv, PTL DEF Spec

\* activeRequests never names a run that ended in order.
THEOREM RegistryOwned == Spec => []RegistryOwner
BY Invariance, PTL DEF IInv

\* The state is "processing" only on behalf of some run.
THEOREM ProcessingJustified == Spec => []ProcessingHasRun
BY Invariance, PTL DEF IInv

\* Once every run is past its idle check, and none panicked, the agent is idle
\* and the registry empty, for any number of concurrent calls.
THEOREM SettlesIdle == Spec => []QuiescentIdle
<1>1. IInv => QuiescentIdle
  BY DEF IInv, TypeOK, RegistryOwner, ProcessingHasRun, QuiescentIdle, Outstanding, IsBusy
<1> QED BY <1>1, Invariance, PTL

-----------------------------------------------------------------------------
(* The prompt ledger.  A prompt is in one place at a time: with the call   *)
(* that brought it, in the queue of its session, in the batch of one run,  *)
(* or in the history.  Enqueue, the drains and Record hand it from one to  *)
(* the next in single critical sections, so none is there twice.           *)

Early == {"enqueue", "register", "setProcessing", "start"}

InQueue(p) == \E s \in Sessions : \E i \in DOMAIN queue[s] : queue[s][i] = p
InBatch(p) == \E c \in Calls : \E i \in DOMAIN batch[c] : batch[c][i] = p
Batch(c)   == {batch[c][i] : i \in DOMAIN batch[c]}

QueuedHere  == \A s \in Sessions : \A i \in DOMAIN queue[s] : SessionOf[queue[s][i]] = s
BatchedHere == \A c \in Calls : \A i \in DOMAIN batch[c] : SessionOf[batch[c][i]] = SessionOf[c]

QueuedOnce ==
    \A s \in Sessions : \A i, j \in DOMAIN queue[s] : queue[s][i] = queue[s][j] => i = j

BatchedOnce ==
    \A c, d \in Calls : \A i \in DOMAIN batch[c], j \in DOMAIN batch[d] :
        batch[c][i] = batch[d][j] => c = d /\ i = j

BatchApart ==
    \A s \in Sessions, c \in Calls : \A i \in DOMAIN queue[s], j \in DOMAIN batch[c] :
        queue[s][i] # batch[c][j]

Lines == QueuedHere /\ BatchedHere /\ QueuedOnce /\ BatchedOnce /\ BatchApart

Waiting    == \A p \in Calls : InQueue(p) \/ InBatch(p) => pc[p] = "queued"
SaidOver   == \A p \in Calls :
                  Said(p) => pc[p] \notin {"new"} \cup Early /\ ~InQueue(p) /\ ~InBatch(p)
BatchOwner == \A c \in Calls : batch[c] # <<>> => pc[c] \in {"recordTool", "recordEnd"}

PlaceInv == TypeOK /\ Lines /\ Waiting /\ SaidOver /\ BatchOwner

LEMMA Elements ==
    ASSUME TypeOK
    PROVE  /\ \A s \in Sessions : /\ Len(queue[s]) \in Nat /\ DOMAIN queue[s] = 1..Len(queue[s])
                                  /\ \A i \in DOMAIN queue[s] : queue[s][i] \in Calls
           /\ \A c \in Calls : /\ Len(batch[c]) \in Nat /\ DOMAIN batch[c] = 1..Len(batch[c])
                               /\ \A i \in DOMAIN batch[c] : batch[c][i] \in Calls
<1>1. ASSUME NEW q \in Seq(Calls)
      PROVE  /\ Len(q) \in Nat /\ DOMAIN q = 1..Len(q)
             /\ \A i \in DOMAIN q : q[i] \in Calls
  BY LenProperties
<1>2. /\ \A s \in Sessions : queue[s] \in Seq(Calls)
      /\ \A c \in Calls : batch[c] \in Seq(Calls)
  BY DEF TypeOK
<1> QED BY <1>1, <1>2

\* Enqueue adds its own prompt, which is nowhere yet.
LEMMA LinesEnqueue ==
    ASSUME TypeOK, Lines, NEW c \in Calls, ~InQueue(c), ~InBatch(c),
           queue' = [queue EXCEPT ![SessionOf[c]] = Append(@, c)], batch' = batch
    PROVE  /\ Lines'
           /\ \A p \in Calls : InQueue(p)' <=> InQueue(p) \/ p = c
<1> DEFINE s == SessionOf[c]
           n == Len(queue[s])
<1>1. s \in Sessions /\ queue[s] \in Seq(Calls)
  BY SessionAssumption DEF TypeOK
<1>2. n \in Nat /\ DOMAIN queue[s] = 1..n
  BY <1>1, Elements
<1>3. /\ queue'[s] = Append(queue[s], c)
      /\ \A t \in Sessions \ {s} : queue'[t] = queue[t]
  BY <1>1 DEF TypeOK
<1>4. /\ DOMAIN queue'[s] = 1..(n + 1) /\ queue'[s][n + 1] = c
      /\ \A i \in 1..n : queue'[s][i] = queue[s][i]
  BY <1>1, <1>2, <1>3
<1>5. /\ \A t \in Sessions : \A i \in DOMAIN queue[t] : queue[t][i] # c
      /\ \A d \in Calls : \A i \in DOMAIN batch[d] : batch[d][i] # c
  BY DEF InQueue, InBatch
<1> HIDE DEF n
<1>6. \A t \in Sessions : \A i \in DOMAIN queue'[t] :
          \/ i \in DOMAIN queue[t] /\ queue'[t][i] = queue[t][i]
          \/ t = s /\ i = n + 1 /\ queue'[t][i] = c
  BY <1>2, <1>3, <1>4
<1> HIDE DEF s
<1>7. QueuedHere'
  BY <1>6 DEF Lines, QueuedHere, s
<1>8. QueuedOnce'
  BY <1>2, <1>5, <1>6 DEF Lines, QueuedOnce
<1>9. BatchApart' /\ BatchedHere' /\ BatchedOnce'
  BY <1>5, <1>6 DEF Lines, BatchApart, BatchedHere, BatchedOnce
<1>10. \A p \in Calls : InQueue(p)' <=> InQueue(p) \/ p = c
  <2>1. \A p \in Calls : InQueue(p)' => InQueue(p) \/ p = c
    BY <1>6 DEF InQueue
  <2>2. \A t \in Sessions : \A i \in DOMAIN queue[t] :
            i \in DOMAIN queue'[t] /\ queue'[t][i] = queue[t][i]
    BY <1>2, <1>3, <1>4
  <2>3. \A p \in Calls : InQueue(p) => InQueue(p)'
    BY <2>2 DEF InQueue
  <2>4. InQueue(c)'
    BY <1>1, <1>2, <1>4 DEF InQueue
  <2> QED BY <2>1, <2>3, <2>4
<1> QED BY <1>7, <1>8, <1>9, <1>10 DEF Lines

\* The queue of a session is emptied.
LEMMA LinesClearQueue ==
    ASSUME TypeOK, Lines, NEW s \in Sessions,
           queue' = [queue EXCEPT ![s] = <<>>], batch' = batch
    PROVE  /\ Lines'
           /\ \A p \in Calls : InQueue(p)' => InQueue(p)
<1>1. /\ \A t \in Sessions : \A i \in DOMAIN queue'[t] :
            i \in DOMAIN queue[t] /\ queue'[t][i] = queue[t][i]
  BY DEF TypeOK
<1> QED BY <1>1 DEF Lines, QueuedHere, QueuedOnce, BatchApart, BatchedHere, BatchedOnce, InQueue

\* A batch is dropped.
LEMMA LinesClearBatch ==
    ASSUME TypeOK, Lines, NEW c \in Calls,
           batch' = [batch EXCEPT ![c] = <<>>], queue' = queue
    PROVE  /\ Lines'
           /\ \A p \in Calls : InBatch(p)' <=> InBatch(p) /\ p \notin Batch(c)
<1>1. \A d \in Calls : \A i \in DOMAIN batch'[d] :
            d # c /\ i \in DOMAIN batch[d] /\ batch'[d][i] = batch[d][i]
  BY DEF TypeOK
<1>2. Lines'
  BY <1>1 DEF Lines, QueuedHere, QueuedOnce, BatchApart, BatchedHere, BatchedOnce
<1>3. \A d \in Calls \ {c} : batch'[d] = batch[d]
  BY DEF TypeOK
<1>4. \A p \in Calls : InBatch(p)' => InBatch(p) /\ p \notin Batch(c)
  BY <1>1 DEF InBatch, Batch, Lines, BatchedOnce
<1>5. \A p \in Calls : InBatch(p) /\ p \notin Batch(c) => InBatch(p)'
  BY <1>3 DEF InBatch, Batch
<1> QED BY <1>2, <1>4, <1>5

\* The first prompt of a batch leaves it.
LEMMA LinesTail ==
    ASSUME TypeOK, Lines, NEW c \in Calls, batch[c] # <<>>,
           batch' = [batch EXCEPT ![c] = Tail(@)], queue' = queue
    PROVE  /\ Lines'
           /\ \A p \in Calls : InBatch(p)' <=> InBatch(p) /\ p # Head(batch[c])
<1> DEFINE b == batch[c]
           h == Head(batch[c])
           n == Len(batch[c])
<1>1. b \in Seq(Calls) /\ n \in Nat /\ DOMAIN b = 1..n /\ b # <<>>
  BY Elements DEF TypeOK
<1>2. n > 0 /\ h = b[1]
  BY <1>1
<1>3. DOMAIN Tail(b) = 1..(n - 1) /\ \A i \in 1..(n - 1) : Tail(b)[i] = b[i + 1]
  BY <1>1
<1>4. batch'[c] = Tail(b) /\ \A d \in Calls \ {c} : batch'[d] = batch[d]
  BY DEF TypeOK
<1> HIDE DEF b, h, n
<1>5. b = batch[c]
  BY DEF b
<1>6. ASSUME NEW d \in Calls, NEW i \in DOMAIN batch'[d]
      PROVE  /\ d # c => i \in DOMAIN batch[d] /\ batch'[d][i] = batch[d][i]
             /\ d = c => i + 1 \in DOMAIN batch[d] /\ batch'[d][i] = batch[d][i + 1] /\ i \in Nat
  <2>1. CASE d # c
    BY <1>4, <2>1
  <2>2. CASE d = c
    <3>1. i \in 1..(n - 1)
      BY <1>3, <1>4, <2>2
    <3>2. i \in Nat /\ i + 1 \in 1..n
      BY <1>1, <3>1
    <3>3. batch'[d][i] = b[i + 1]
      BY <1>3, <1>4, <2>2, <3>1
    <3> QED BY <1>1, <1>5, <2>2, <3>2, <3>3
  <2> QED BY <2>1, <2>2
<1>7. \A d \in Calls : \A i \in DOMAIN batch'[d] :
          \E j \in DOMAIN batch[d] : batch'[d][i] = batch[d][j]
  BY <1>6
<1>8. BatchedHere' /\ BatchApart' /\ QueuedHere' /\ QueuedOnce'
  BY <1>7 DEF Lines, BatchedHere, BatchApart, QueuedHere, QueuedOnce
<1>9. BatchedOnce'
  <2> SUFFICES ASSUME NEW d \in Calls, NEW e \in Calls,
                      NEW i \in DOMAIN batch'[d], NEW j \in DOMAIN batch'[e],
                      batch'[d][i] = batch'[e][j]
               PROVE  d = e /\ i = j
    BY DEF BatchedOnce
  <2>1. d = e
    BY <1>7 DEF Lines, BatchedOnce
  <2>2. CASE d = c
    BY <1>6, <2>1, <2>2, <1>1, <1>3, <1>4 DEF Lines, BatchedOnce
  <2>3. CASE d # c
    BY <1>6, <2>1, <2>3 DEF Lines, BatchedOnce
  <2> QED BY <2>1, <2>2, <2>3
<1>10. \A p \in Calls : InBatch(p)' => InBatch(p) /\ p # h
  <2> SUFFICES ASSUME NEW d \in Calls, NEW i \in DOMAIN batch'[d]
               PROVE  (\E j \in DOMAIN batch[d] : batch'[d][i] = batch[d][j]) /\ batch'[d][i] # h
    BY DEF InBatch
  <2>1. 1 \in DOMAIN batch[c] /\ h = batch[c][1]
    BY <1>1, <1>2, <1>5
  <2>2. CASE d = c
    BY <1>6, <1>7, <2>1, <2>2 DEF Lines, BatchedOnce
  <2>3. CASE d # c
    BY <1>6, <1>7, <2>1, <2>3 DEF Lines, BatchedOnce
  <2> QED BY <2>2, <2>3
<1>11. \A p \in Calls : InBatch(p) /\ p # h => InBatch(p)'
  <2> SUFFICES ASSUME NEW d \in Calls, NEW i \in DOMAIN batch[d], batch[d][i] # h
               PROVE  \E j \in DOMAIN batch'[d] : batch'[d][j] = batch[d][i]
    BY DEF InBatch
  <2>1. CASE d # c
    BY <1>4, <2>1
  <2>2. CASE d = c
    <3>1. i \in 1..n /\ i # 1
      BY <1>1, <1>2, <1>5, <2>2
    <3>2. i - 1 \in 1..(n - 1) /\ (i - 1) + 1 = i
      BY <1>1, <3>1
    <3> QED BY <1>3, <1>4, <1>5, <2>2, <3>2
  <2> QED BY <2>1, <2>2
<1> QED BY <1>8, <1>9, <1>10, <1>11 DEF Lines, h

\* A drain takes the queue of its session as its batch.
LEMMA LinesDrain ==
    ASSUME TypeOK, Lines, NEW c \in Calls, batch[c] = <<>>,
           batch' = [batch EXCEPT ![c] = queue[SessionOf[c]]],
           queue' = [queue EXCEPT ![SessionOf[c]] = <<>>]
    PROVE  /\ Lines'
           /\ \A p \in Calls : InQueue(p)' \/ InBatch(p)' <=> InQueue(p) \/ InBatch(p)
<1> DEFINE s == SessionOf[c]
<1>1. s \in Sessions /\ batch'[c] = queue[s] /\ queue'[s] = <<>>
  BY SessionAssumption DEF TypeOK
<1>2. /\ \A d \in Calls \ {c} : batch'[d] = batch[d]
      /\ \A t \in Sessions \ {s} : queue'[t] = queue[t]
  BY DEF TypeOK
<1> HIDE DEF s
<1>3. \A t \in Sessions : \A i \in DOMAIN queue'[t] :
          t # s /\ i \in DOMAIN queue[t] /\ queue'[t][i] = queue[t][i]
  BY <1>1, <1>2
<1>4. QueuedHere' /\ QueuedOnce'
  BY <1>3 DEF Lines, QueuedHere, QueuedOnce
<1>5. BatchedHere'
  BY <1>1, <1>2 DEF Lines, QueuedHere, BatchedHere, s
<1>6. BatchedOnce'
  BY <1>1, <1>2 DEF Lines, QueuedOnce, BatchedOnce, BatchApart
<1>7. BatchApart'
  BY <1>1, <1>2, <1>3 DEF Lines, QueuedHere, BatchApart
<1>8. \A p \in Calls : InQueue(p)' \/ InBatch(p)' => InQueue(p) \/ InBatch(p)
  BY <1>1, <1>2, <1>3 DEF InQueue, InBatch
<1>9. \A p \in Calls : InQueue(p) => InQueue(p)' \/ InBatch(p)'
  BY <1>1, <1>2 DEF InQueue, InBatch
<1>10. \A p \in Calls : InBatch(p) => InBatch(p)'
  BY <1>1, <1>2 DEF InBatch
<1> QED BY <1>4, <1>5, <1>6, <1>7, <1>8, <1>9, <1>10 DEF Lines

-----------------------------------------------------------------------------
(* What the steps do to the ledger.                                        *)

StatusOf == [p \in Calls |-> Status(p)]
LogOf    == [s \in Sessions |-> [i \in DOMAIN history[s] |-> history[s][i].prompt]]

LEMMA HeldWhere ==
    ASSUME NEW p \in Calls
    PROVE  Held(p) <=> pc[p] \in Early \/ InQueue(p) \/ InBatch(p)
BY DEF Held, Early, InQueue, InBatch

LEMMA StatusCases ==
    ASSUME NEW p \in Calls
    PROVE  /\ Said(p) => Status(p) = "recorded"
           /\ ~Said(p) /\ Held(p) => Status(p) = "accepted"
           /\ ~Said(p) /\ ~Held(p) /\ pc[p] = "new" => Status(p) = "unsent"
           /\ ~Said(p) /\ ~Held(p) /\ pc[p] # "new" => Status(p) = "dropped"
BY DEF Status

\* As StatusCases, before and after a step.
LEMMA StatusSteps ==
    ASSUME NEW p \in Calls
    PROVE  /\ Said(p)' => Status(p)' = "recorded"
           /\ ~Said(p)' /\ Held(p)' => Status(p)' = "accepted"
           /\ ~Said(p)' /\ ~Held(p)' /\ pc'[p] = "new" => Status(p)' = "unsent"
           /\ ~Said(p)' /\ ~Held(p)' /\ pc'[p] # "new" => Status(p)' = "dropped"
           /\ Held(p)' <=> pc'[p] \in Early \/ InQueue(p)' \/ InBatch(p)'
BY DEF Status, Held, Early, InQueue, InBatch

\* A message of the history.
LEMMA SaysMore ==
    ASSUME TypeOK, NEW c \in Calls, NEW p \in Calls, CreateUserMessage(c, p)
    PROVE  /\ \A q \in Calls : Said(q)' <=> Said(q) \/ q = p
           /\ LogOf' = [LogOf EXCEPT ![SessionOf[c]] = Append(LogOf[SessionOf[c]], p)]
<1> DEFINE s == SessionOf[c]
           h == history[s]
           m == [prompt |-> p, by |-> c]
           k == Append(h, m)
           M == [prompt : Calls, by : Calls]
           n == Len(h)
<1>1. s \in Sessions /\ h \in Seq(M)
  BY SessionAssumption DEF TypeOK
<1>2. m \in M /\ m.prompt = p
  OBVIOUS
<1>3. history'[s] = k /\ \A t \in Sessions \ {s} : history'[t] = history[t]
  <2>1. history' = [history EXCEPT ![s] = k]
    BY DEF CreateUserMessage
  <2>2. DOMAIN history = Sessions
    BY DEF TypeOK
  <2> HIDE DEF k
  <2> QED BY <1>1, <2>1, <2>2
<1> HIDE DEF m
<1>4. n \in Nat /\ DOMAIN h = 1..n /\ \A i \in 1..n : h[i].prompt \in Calls
  <2>1. n \in Nat /\ DOMAIN h = 1..n /\ \A i \in 1..n : h[i] \in M
    BY <1>1, LenProperties
  <2> QED BY <2>1
<1>5. DOMAIN k = 1..(n + 1) /\ k[n + 1] = m /\ \A i \in 1..n : k[i] = h[i]
  BY <1>1, <1>2, <1>4, AppendProperties, LenProperties
<1> DEFINE f == [i \in 1..n |-> h[i].prompt]
           g == [i \in 1..(n + 1) |-> k[i].prompt]
<1>6. g = Append(f, p)
  <2>1. f \in [1..n -> Calls] /\ g \in [1..(n + 1) -> Calls]
    BY <1>2, <1>4, <1>5
  <2>2. \A i \in 1..(n + 1) : g[i] = IF i <= n THEN f[i] ELSE p
    <3>1. ASSUME NEW i \in 1..(n + 1), i <= n PROVE g[i] = f[i]
      BY <1>4, <1>5, <3>1
    <3>2. g[n + 1] = p
      BY <1>2, <1>4, <1>5
    <3> QED BY <1>4, <3>1, <3>2
  <2> HIDE DEF f, g, n
  <2>3. f \in Seq(Calls) /\ Len(f) = n
    BY <1>4, <2>1
  <2>4. g \in Seq(Calls) /\ Len(g) = n + 1
    BY <1>4, <2>1
  <2>5. /\ Append(f, p) \in Seq(Calls) /\ Len(Append(f, p)) = n + 1
        /\ \A i \in 1..n : Append(f, p)[i] = f[i]
        /\ Append(f, p)[n + 1] = p
    BY <2>3, AppendProperties
  <2>6. ASSUME NEW i \in 1..(n + 1) PROVE g[i] = Append(f, p)[i]
    BY <1>4, <2>2, <2>5
  <2> QED BY <2>4, <2>5, <2>6, SeqEqual
<1> HIDE DEF k, h, n, s
<1>7. s = SessionOf[c] /\ h = history[s]
  BY DEF s, h
<1>8. LogOf' = [LogOf EXCEPT ![s] = Append(LogOf[s], p)]
  <2>1. LogOf[s] = f
    BY <1>1, <1>4, <1>7 DEF LogOf
  <2>2. LogOf'[s] = g
    BY <1>1, <1>3, <1>5 DEF LogOf
  <2>3. \A t \in Sessions \ {s} : LogOf'[t] = LogOf[t]
    BY <1>3 DEF LogOf
  <2>4. DOMAIN LogOf' = Sessions /\ LogOf = [t \in Sessions |-> LogOf[t]]
        /\ LogOf' = [t \in Sessions |-> LogOf'[t]]
    BY DEF LogOf
  <2> HIDE DEF f, g
  <2> QED BY <1>1, <1>6, <2>1, <2>2, <2>3, <2>4
<1>9. \A q \in Calls : Said(q)' <=> Said(q) \/ q = p
  <2>1. ASSUME NEW t \in Sessions, NEW i \in DOMAIN history'[t]
        PROVE  \/ i \in DOMAIN history[t] /\ history'[t][i] = history[t][i]
               \/ history'[t][i].prompt = p
    BY <1>2, <1>3, <1>4, <1>5, <1>7
  <2>2. ASSUME NEW t \in Sessions, NEW i \in DOMAIN history[t]
        PROVE  i \in DOMAIN history'[t] /\ history'[t][i] = history[t][i]
    BY <1>3, <1>4, <1>5, <1>7
  <2>3. n + 1 \in DOMAIN history'[s] /\ history'[s][n + 1].prompt = p
    BY <1>2, <1>3, <1>4, <1>5
  <2>4. \A q \in Calls : Said(q)' => Said(q) \/ q = p
    BY <2>1 DEF Said
  <2>5. \A q \in Calls : Said(q) => Said(q)'
    BY <2>2 DEF Said
  <2>6. Said(p)'
    BY <1>1, <2>3 DEF Said
  <2> QED BY <2>4, <2>5, <2>6
<1> QED BY <1>7, <1>8, <1>9

Past == PCs \ ({"new", "queued"} \cup Early)

\* Nobody is sent back to where it was not sent yet, or is still waiting.
LEMMA PlacesKept ==
    ASSUME PlaceInv, NEW said \in SUBSET Calls,
           \A q \in Calls : Said(q)' => Said(q) \/ q \in said,
           \A q \in Calls : InQueue(q)' \/ InBatch(q)' => InQueue(q) \/ InBatch(q),
           \A q \in Calls : pc'[q] = pc[q] \/ (pc[q] \in Early \cup Past /\ pc'[q] \in Past),
           \A p \in said : pc'[p] \in Past \cup {"queued"} /\ ~InQueue(p)' /\ ~InBatch(p)'
    PROVE  Waiting' /\ SaidOver'
<1>1. Waiting'
  BY DEF PlaceInv, Waiting, Past, Early
<1>2. ASSUME NEW q \in Calls, Said(q)'
      PROVE  pc'[q] \notin {"new"} \cup Early /\ ~InQueue(q)' /\ ~InBatch(q)'
  <2>1. CASE q \in said
    BY <2>1 DEF Past, Early
  <2>2. CASE q \notin said
    BY <1>2, <2>2 DEF PlaceInv, SaidOver, Past
  <2> QED BY <2>1, <2>2
<1>3. SaidOver'
  BY <1>2 DEF SaidOver
<1> QED BY <1>1, <1>3

LedgerStep == Ledger!Next \/ (StatusOf' = StatusOf /\ LogOf' = LogOf)

\* The prompts of `lost` are given up; the history stays.
LEMMA Loses ==
    ASSUME PlaceInv, NEW lost \in SUBSET Calls, history' = history,
           \A q \in Calls : Held(q)' <=> Held(q) /\ q \notin lost,
           \A q \in lost : Held(q),
           \A q \in Calls : pc'[q] = "new" <=> pc[q] = "new"
    PROVE  LedgerStep
<1>1. LogOf' = LogOf /\ \A q \in Calls : Said(q)' <=> Said(q)
  BY DEF LogOf, Said
<1>2. \A q \in lost : ~Said(q) /\ pc[q] # "new"
  BY HeldWhere DEF PlaceInv, SaidOver, Waiting, Early
<1>3. \A q \in Calls : Status(q)' = IF q \in lost THEN "dropped" ELSE Status(q)
  BY <1>1, <1>2, StatusCases, StatusSteps
<1>4. \A q \in lost : Status(q) = "accepted"
  BY <1>2, StatusCases
<1>5. CASE lost = {}
  BY <1>1, <1>3, <1>5 DEF LedgerStep, StatusOf
<1>6. CASE lost # {}
  <2>1. StatusOf' = [q \in Calls |-> IF q \in lost THEN "dropped" ELSE StatusOf[q]]
    BY <1>3 DEF StatusOf
  <2>2. Ledger!Drop(lost)
    BY <1>1, <1>4, <1>6, <2>1 DEF StatusOf, LogOf, Ledger!Drop
  <2> QED BY <2>2 DEF LedgerStep, Ledger!Next
<1> QED BY <1>5, <1>6

LEMMA LosesNone ==
    ASSUME PlaceInv, history' = history,
           \A q \in Calls : Held(q)' <=> Held(q),
           \A q \in Calls : pc'[q] = "new" <=> pc[q] = "new"
    PROVE  LedgerStep
<1> DEFINE lost == {}
<1>1. /\ lost \in SUBSET Calls /\ \A q \in lost : Held(q)
      /\ \A q \in Calls : Held(q)' <=> Held(q) /\ q \notin lost
  OBVIOUS
<1> HIDE DEF lost
<1> QED BY <1>1, Loses

\* The prompt p is recorded, and those of `lost` are given up.
LEMMA Records ==
    ASSUME PlaceInv, NEW c \in Calls, NEW p \in Calls, NEW lost \in SUBSET Calls,
           CreateUserMessage(c, p), SessionOf[p] = SessionOf[c], Held(p), p \notin lost,
           \A q \in Calls : q # p => (Held(q)' <=> Held(q) /\ q \notin lost),
           \A q \in lost : Held(q),
           \A q \in Calls : pc'[q] = "new" <=> pc[q] = "new"
    PROVE  LedgerStep
<1>1. /\ \A q \in Calls : Said(q)' <=> Said(q) \/ q = p
      /\ LogOf' = [LogOf EXCEPT ![SessionOf[p]] = Append(LogOf[SessionOf[p]], p)]
  BY SaysMore DEF PlaceInv
<1>2. \A q \in lost \cup {p} : ~Said(q) /\ pc[q] # "new"
  BY HeldWhere DEF PlaceInv, SaidOver, Waiting, Early
<1>3. \A q \in Calls : Status(q)' = IF q = p THEN "recorded"
                                    ELSE IF q \in lost THEN "dropped" ELSE Status(q)
  BY <1>1, <1>2, StatusCases, StatusSteps
<1>4. \A q \in lost \cup {p} : Status(q) = "accepted"
  BY <1>2, StatusCases
<1>5. StatusOf' = [q \in Calls |-> IF q = p THEN "recorded"
                                   ELSE IF q \in lost THEN "dropped" ELSE StatusOf[q]]
  BY <1>3 DEF StatusOf
<1>6. Ledger!Record(p, lost)
  BY <1>1, <1>4, <1>5 DEF StatusOf, LogOf, Ledger!Record
<1> QED BY <1>6 DEF LedgerStep, Ledger!Next

\* A prompt is accepted.
LEMMA Accepts ==
    ASSUME PlaceInv, NEW c \in Calls, pc[c] = "new", pc'[c] \in Early,
           UNCHANGED <<queue, batch, history>>,
           \A q \in Calls \ {c} : pc'[q] = pc[q]
    PROVE  LedgerStep
<1>1. /\ LogOf' = LogOf /\ \A q \in Calls : Said(q)' <=> Said(q)
      /\ \A q \in Calls : (InQueue(q)' <=> InQueue(q)) /\ (InBatch(q)' <=> InBatch(q))
  BY DEF LogOf, Said, InQueue, InBatch
<1>2. ~Said(c) /\ ~Held(c) /\ Held(c)'
  BY HeldWhere, StatusSteps DEF PlaceInv, SaidOver, Waiting, Early
<1>3. \A q \in Calls : Status(q)' = IF q = c THEN "accepted" ELSE Status(q)
  BY <1>1, <1>2, StatusCases, StatusSteps, HeldWhere
<1>4. Status(c) = "unsent"
  BY <1>2, StatusCases
<1>5. StatusOf' = [StatusOf EXCEPT ![c] = "accepted"]
  BY <1>3 DEF StatusOf
<1>6. Ledger!Accept(c)
  BY <1>1, <1>4, <1>5 DEF StatusOf, LogOf, Ledger!Accept
<1> QED BY <1>6 DEF LedgerStep, Ledger!Next

-----------------------------------------------------------------------------
(* The invariant and the ledger, action by action.                         *)

InPlace == Lines' /\ Waiting' /\ SaidOver' /\ BatchOwner'

LEMMA SamePlaces ==
    ASSUME UNCHANGED <<queue, batch, history>>
    PROVE  /\ Lines <=> Lines'
           /\ \A q \in Calls : /\ (InQueue(q)' <=> InQueue(q)) /\ (InBatch(q)' <=> InBatch(q))
                               /\ (Said(q)' <=> Said(q))
BY DEF Lines, QueuedHere, BatchedHere, QueuedOnce, BatchedOnce, BatchApart, InQueue, InBatch, Said

LEMMA StillPlaces ==
    ASSUME PlaceInv, UNCHANGED <<pc, queue, batch, history>>
    PROVE  InPlace /\ LedgerStep
<1>1. InPlace
  BY SamePlaces DEF InPlace, PlaceInv, Waiting, SaidOver, BatchOwner
<1>2. \A q \in Calls : Held(q)' <=> Held(q)
  BY SamePlaces, HeldWhere, StatusSteps
<1>3. LedgerStep
  BY <1>2, LosesNone
<1> QED BY <1>1, <1>3

\* A call moves on and takes no prompt with it.
LEMMA MovesOn ==
    ASSUME PlaceInv, UNCHANGED <<queue, batch, history>>, NEW c \in Calls, NEW to \in PCs,
           pc' = [pc EXCEPT ![c] = to], batch[c] = <<>>,
           (pc[c] \in Early /\ to \in Early) \/ (pc[c] \in Past /\ to \in Past)
    PROVE  InPlace /\ LedgerStep
<1>1. pc'[c] = to /\ \A q \in Calls \ {c} : pc'[q] = pc[q]
  BY DEF PlaceInv, TypeOK
<1>2. \A q \in Calls : /\ (InQueue(q)' <=> InQueue(q)) /\ (InBatch(q)' <=> InBatch(q))
                       /\ (Said(q)' <=> Said(q))
  BY SamePlaces
<1>3. Waiting' /\ SaidOver'
  BY <1>1, <1>2 DEF PlaceInv, Waiting, SaidOver, Past, Early
<1>4. Lines' /\ BatchOwner'
  BY <1>1, SamePlaces DEF PlaceInv, BatchOwner
<1>5. \A q \in Calls : Held(q)' <=> Held(q)
  BY <1>1, <1>2, HeldWhere, StatusSteps DEF Past, Early
<1>6. \A q \in Calls : pc'[q] = "new" <=> pc[q] = "new"
  BY <1>1 DEF Past, Early
<1>7. LedgerStep
  BY <1>5, <1>6, LosesNone
<1> QED BY <1>3, <1>4, <1>7 DEF InPlace

LEMMA CheckPlaces ==
    ASSUME PlaceInv, NEW c \in Calls, RunCheck(c)
    PROVE  InPlace /\ LedgerStep
<1>1. /\ pc[c] = "new" /\ pc'[c] \in Early /\ UNCHANGED <<queue, batch, history>>
      /\ \A q \in Calls \ {c} : pc'[q] = pc[q]
  BY DEF RunCheck, PlaceInv, TypeOK, Early
<1>2. LedgerStep
  BY <1>1, Accepts
<1>3. Waiting' /\ SaidOver'
  BY <1>1, SamePlaces DEF PlaceInv, Waiting, SaidOver
<1>4. Lines' /\ BatchOwner'
  BY <1>1, SamePlaces DEF PlaceInv, BatchOwner
<1> QED BY <1>2, <1>3, <1>4 DEF InPlace

LEMMA EnqueuePlaces ==
    ASSUME PlaceInv, NEW c \in Calls, Enqueue(c)
    PROVE  InPlace /\ LedgerStep
<1>1. /\ pc[c] = "enqueue" /\ pc'[c] = "queued" /\ \A q \in Calls \ {c} : pc'[q] = pc[q]
      /\ queue' = [queue EXCEPT ![SessionOf[c]] = Append(@, c)]
      /\ UNCHANGED <<batch, history>>
  BY DEF Enqueue, PlaceInv, TypeOK
<1>2. ~InQueue(c) /\ ~InBatch(c) /\ ~Said(c)
  BY <1>1 DEF PlaceInv, Waiting, SaidOver, Early
<1>3. Lines' /\ \A q \in Calls : InQueue(q)' <=> InQueue(q) \/ q = c
  BY <1>1, <1>2, LinesEnqueue DEF PlaceInv
<1>4. \A q \in Calls : (InBatch(q)' <=> InBatch(q)) /\ (Said(q)' <=> Said(q))
  BY <1>1 DEF InBatch, Said
<1>5. Waiting' /\ SaidOver'
  BY <1>1, <1>2, <1>3, <1>4 DEF PlaceInv, Waiting, SaidOver
<1>6. BatchOwner'
  BY <1>1 DEF PlaceInv, BatchOwner
<1>7. \A q \in Calls : Held(q)' <=> Held(q)
  BY <1>1, <1>3, <1>4, HeldWhere, StatusSteps DEF Early
<1>8. LedgerStep
  BY <1>1, <1>7, LosesNone
<1> QED BY <1>3, <1>5, <1>6, <1>8 DEF InPlace

\* A run ends its turns: what is left of its batch is given up, or its own
\* prompt when that was not recorded.
LEMMA EndsPlaces ==
    ASSUME PlaceInv, NEW c \in Calls, NEW to \in Past,
           pc[c] \in Past \cup {"start"}, pc' = [pc EXCEPT ![c] = to],
           batch' = [batch EXCEPT ![c] = <<>>], UNCHANGED <<queue, history>>
    PROVE  InPlace /\ LedgerStep
<1> DEFINE lost == IF pc[c] = "start" THEN {c} ELSE Batch(c)
<1>1. pc'[c] = to /\ \A q \in Calls \ {c} : pc'[q] = pc[q]
  BY DEF PlaceInv, TypeOK
<1>2. Lines' /\ \A q \in Calls : InBatch(q)' <=> InBatch(q) /\ q \notin Batch(c)
  BY LinesClearBatch DEF PlaceInv
<1>3. \A q \in Calls : (InQueue(q)' <=> InQueue(q)) /\ (Said(q)' <=> Said(q))
  BY DEF InQueue, Said
<1>4. Waiting' /\ SaidOver'
  BY <1>1, <1>2, <1>3, PlacesKept DEF Early
<1>5. BatchOwner'
  BY <1>1 DEF PlaceInv, TypeOK, BatchOwner
<1>6. Batch(c) \subseteq Calls /\ \A q \in Batch(c) : InBatch(q) /\ pc[q] = "queued" /\ ~InQueue(q)
  <2>1. Batch(c) \subseteq Calls
    BY Elements DEF PlaceInv, Batch
  <2>2. \A q \in Batch(c) : InBatch(q) /\ ~InQueue(q)
    BY DEF PlaceInv, Lines, BatchApart, Batch, InBatch, InQueue
  <2> QED BY <2>1, <2>2 DEF PlaceInv, Waiting
<1>7. LedgerStep
  <2>1. CASE pc[c] = "start"
    <3>1. Batch(c) = {} /\ ~InQueue(c) /\ ~InBatch(c)
      BY <2>1 DEF PlaceInv, BatchOwner, Waiting, Batch
    <3>2. \A q \in Calls : Held(q)' <=> Held(q) /\ q \notin {c}
      BY <1>1, <1>2, <1>3, <2>1, <3>1, HeldWhere, StatusSteps DEF Past, Early
    <3>3. Held(c)
      BY <2>1, HeldWhere DEF Early
    <3>4. \A q \in Calls : pc'[q] = "new" <=> pc[q] = "new"
      BY <1>1, <2>1 DEF Past
    <3> QED BY <3>2, <3>3, <3>4, Loses
  <2>2. CASE pc[c] # "start"
    <3>1. \A q \in Calls : Held(q)' <=> Held(q) /\ q \notin Batch(c)
      BY <1>1, <1>2, <1>3, <1>6, <2>2, HeldWhere, StatusSteps DEF Past, Early
    <3>2. \A q \in Batch(c) : Held(q)
      BY <1>6, HeldWhere
    <3>3. \A q \in Calls : pc'[q] = "new" <=> pc[q] = "new"
      BY <1>1, <2>2 DEF Past
    <3> QED BY <1>6, <3>1, <3>2, <3>3, Loses
  <2> QED BY <2>1, <2>2
<1> QED BY <1>2, <1>4, <1>5, <1>7 DEF InPlace

LEMMA DrainPlaces ==
    ASSUME PlaceInv, NEW c \in Calls, NEW from \in {"drainTool", "drainEnd"},
           NEW to \in {"recordTool", "recordEnd"}, Drain(c, from, to)
    PROVE  InPlace /\ LedgerStep
<1>1. /\ pc[c] = from /\ pc'[c] = to /\ \A q \in Calls \ {c} : pc'[q] = pc[q]
      /\ batch' = [batch EXCEPT ![c] = queue[SessionOf[c]]]
      /\ queue' = [queue EXCEPT ![SessionOf[c]] = <<>>]
      /\ history' = history /\ batch[c] = <<>>
  BY DEF Drain, PlaceInv, TypeOK, BatchOwner
<1>2. Lines' /\ \A q \in Calls : InQueue(q)' \/ InBatch(q)' <=> InQueue(q) \/ InBatch(q)
  BY <1>1, LinesDrain DEF PlaceInv
<1>3. \A q \in Calls : Said(q)' <=> Said(q)
  BY <1>1 DEF Said
<1>4. Waiting' /\ SaidOver'
  BY <1>1, <1>2, <1>3, PlacesKept DEF Past, Early, PCs
<1>5. BatchOwner'
  BY <1>1 DEF PlaceInv, TypeOK, BatchOwner
<1>6. \A q \in Calls : Held(q)' <=> Held(q)
  BY <1>1, <1>2, HeldWhere, StatusSteps DEF Early
<1>7. LedgerStep
  BY <1>1, <1>6, LosesNone
<1> QED BY <1>2, <1>4, <1>5, <1>7 DEF InPlace

LEMMA ClearPlaces ==
    ASSUME PlaceInv, NEW s \in Sessions, queue' = [queue EXCEPT ![s] = <<>>],
           UNCHANGED <<pc, batch, history>>
    PROVE  InPlace /\ LedgerStep
<1> DEFINE lost == {q \in Calls : InQueue(q) /\ ~InQueue(q)'}
<1>1. Lines' /\ \A q \in Calls : InQueue(q)' => InQueue(q)
  BY LinesClearQueue DEF PlaceInv
<1>2. \A q \in Calls : (InBatch(q)' <=> InBatch(q)) /\ (Said(q)' <=> Said(q))
  BY DEF InBatch, Said
<1>3. Waiting' /\ SaidOver'
  BY <1>1, <1>2, PlacesKept
<1>4. BatchOwner'
  BY DEF PlaceInv, BatchOwner
<1>5. \A q \in Calls : InQueue(q) => ~InBatch(q) /\ pc[q] \notin Early
  BY DEF PlaceInv, Lines, BatchApart, InQueue, InBatch, Waiting, Early
<1>6. \A q \in lost : Held(q)
  BY HeldWhere
<1>7. \A q \in Calls : Held(q)' <=> Held(q) /\ q \notin lost
  BY <1>1, <1>2, <1>5, HeldWhere, StatusSteps
<1> HIDE DEF lost
<1>8. lost \subseteq Calls
  BY DEF lost
<1>9. LedgerStep
  BY <1>6, <1>7, <1>8, Loses
<1> QED BY <1>1, <1>3, <1>4, <1>9 DEF InPlace

\* The first prompt of a batch is recorded, or skipped because it is empty.
LEMMA RecordPlaces ==
    ASSUME PlaceInv, NEW c \in Calls, Record(c)
    PROVE  InPlace /\ LedgerStep
<1> DEFINE h == Head(batch[c])
<1>1. /\ pc' = pc /\ queue' = queue /\ batch[c] # <<>> /\ pc[c] \in {"recordTool", "recordEnd"}
      /\ batch' = [batch EXCEPT ![c] = Tail(@)]
  BY DEF Record
<1>2. h \in Calls /\ InBatch(h) /\ SessionOf[h] = SessionOf[c] /\ ~InQueue(h)
  <2>1. h \in Calls
    BY <1>1, HeadType DEF PlaceInv
  <2>2. 1 \in DOMAIN batch[c] /\ h = batch[c][1]
    <3>1. batch[c] \in Seq(Calls)
      BY DEF PlaceInv, TypeOK
    <3> QED BY <1>1, <3>1
  <2> QED BY <2>1, <2>2 DEF PlaceInv, Lines, BatchedHere, BatchApart, InBatch, InQueue
<1>3. Lines' /\ \A q \in Calls : InBatch(q)' <=> InBatch(q) /\ q # h
  BY <1>1, LinesTail DEF PlaceInv
<1>4. \A q \in Calls : InQueue(q)' <=> InQueue(q)
  BY <1>1 DEF InQueue
<1> HIDE DEF h
<1>5. BatchOwner'
  BY <1>1 DEF PlaceInv, TypeOK, BatchOwner
<1>6. pc[h] = "queued" /\ Held(h)
  BY <1>2, HeldWhere DEF PlaceInv, Waiting
<1>7. \A q \in Calls : Held(q)' <=> Held(q) /\ q # h
  BY <1>1, <1>2, <1>3, <1>4, <1>6, HeldWhere, StatusSteps DEF Early
<1>8. CASE history' = history
  <2>1. \A q \in Calls : Said(q)' <=> Said(q)
    BY <1>8 DEF Said
  <2>2. Waiting' /\ SaidOver'
    <3> DEFINE said == {}
    <3>1. said \in SUBSET Calls /\ \A q \in Calls : Said(q)' => Said(q) \/ q \in said
      BY <2>1
    <3>2. \A p \in said : pc'[p] \in Past \cup {"queued"} /\ ~InQueue(p)' /\ ~InBatch(p)'
      OBVIOUS
    <3> HIDE DEF said
    <3> QED BY <1>1, <1>3, <1>4, <3>1, <3>2, PlacesKept
  <2>3. LedgerStep
    <3> DEFINE lost == {h}
    <3>1. /\ lost \in SUBSET Calls /\ \A q \in lost : Held(q)
          /\ \A q \in Calls : Held(q)' <=> Held(q) /\ q \notin lost
      BY <1>2, <1>6, <1>7
    <3> HIDE DEF lost
    <3> QED BY <1>1, <1>8, <3>1, Loses
  <2> QED BY <1>3, <1>5, <2>2, <2>3 DEF InPlace
<1>9. CASE CreateUserMessage(c, h)
  <2>1. \A q \in Calls : Said(q)' <=> Said(q) \/ q = h
    BY <1>2, <1>9, SaysMore DEF PlaceInv
  <2>2. Waiting' /\ SaidOver'
    <3> DEFINE said == {h}
    <3>1. /\ said \in SUBSET Calls /\ \A q \in Calls : Said(q)' => Said(q) \/ q \in said
          /\ \A p \in said : pc'[p] \in Past \cup {"queued"} /\ ~InQueue(p)' /\ ~InBatch(p)'
      BY <1>1, <1>2, <1>3, <1>4, <1>6, <2>1
    <3> HIDE DEF said
    <3> QED BY <1>1, <1>3, <1>4, <3>1, PlacesKept
  <2>3. LedgerStep
    <3> DEFINE lost == {}
    <3>1. /\ lost \in SUBSET Calls /\ \A q \in lost : Held(q) /\ h \notin lost
          /\ \A q \in Calls : q # h => (Held(q)' <=> Held(q) /\ q \notin lost)
      BY <1>7
    <3>2. h \notin lost
      OBVIOUS
    <3> HIDE DEF lost
    <3> QED BY <1>1, <1>2, <1>6, <1>9, <3>1, <3>2, Records
  <2> QED BY <1>3, <1>5, <2>2, <2>3 DEF InPlace
<1> QED BY <1>8, <1>9 DEF Record, h

\* The first user message of a run is its own prompt; the goroutine may panic
\* once the row is there.
LEMMA StartPlaces ==
    ASSUME PlaceInv, NEW c \in Calls, pc[c] = "start", NEW to \in Past,
           pc' = [pc EXCEPT ![c] = to], CreateUserMessage(c, c), queue' = queue,
           batch' = batch \/ batch' = [batch EXCEPT ![c] = <<>>]
    PROVE  InPlace /\ LedgerStep
<1>1. /\ pc'[c] = to /\ \A q \in Calls \ {c} : pc'[q] = pc[q]
      /\ batch' = batch /\ batch[c] = <<>>
  BY DEF PlaceInv, TypeOK, BatchOwner
<1>2. Lines' /\ \A q \in Calls : (InQueue(q)' <=> InQueue(q)) /\ (InBatch(q)' <=> InBatch(q))
  BY <1>1 DEF PlaceInv, Lines, QueuedHere, BatchedHere, QueuedOnce, BatchedOnce, BatchApart,
              InQueue, InBatch
<1>3. BatchOwner'
  BY <1>1 DEF PlaceInv, BatchOwner
<1>4. ~InQueue(c) /\ ~InBatch(c) /\ Held(c)
  BY HeldWhere DEF PlaceInv, Waiting, Early
<1>5. \A q \in Calls : Said(q)' <=> Said(q) \/ q = c
  BY SaysMore DEF PlaceInv
<1>6. Waiting' /\ SaidOver'
  <2> DEFINE said == {c}
  <2>1. /\ said \in SUBSET Calls /\ \A q \in Calls : Said(q)' => Said(q) \/ q \in said
        /\ \A p \in said : pc'[p] \in Past \cup {"queued"} /\ ~InQueue(p)' /\ ~InBatch(p)'
    BY <1>1, <1>2, <1>4, <1>5
  <2>2. \A q \in Calls : pc'[q] = pc[q] \/ (pc[q] \in Early \cup Past /\ pc'[q] \in Past)
    BY <1>1 DEF Early
  <2> HIDE DEF said
  <2> QED BY <1>2, <2>1, <2>2, PlacesKept
<1>7. LedgerStep
  <2> DEFINE lost == {}
  <2>1. lost \in SUBSET Calls /\ c \notin lost /\ \A q \in lost : Held(q)
    OBVIOUS
  <2>2. \A q \in Calls : q # c => (Held(q)' <=> Held(q) /\ q \notin lost)
    BY <1>1, <1>2, HeldWhere, StatusSteps
  <2>3. \A q \in Calls : pc'[q] = "new" <=> pc[q] = "new"
    BY <1>1 DEF Past
  <2> HIDE DEF lost
  <2> QED BY <1>4, <2>1, <2>2, <2>3, Records
<1> QED BY <1>2, <1>3, <1>6, <1>7 DEF InPlace

\* The goroutine panics over the first prompt of its batch, which is recorded:
\* the others are given up.
LEMMA PanicPlaces ==
    ASSUME PlaceInv, NEW c \in Calls, pc[c] \in {"recordTool", "recordEnd"}, NEW to \in Past,
           pc' = [pc EXCEPT ![c] = to], batch[c] # <<>>, CreateUserMessage(c, Head(batch[c])),
           queue' = queue, batch' = [batch EXCEPT ![c] = <<>>]
    PROVE  InPlace /\ LedgerStep
<1> DEFINE h == Head(batch[c])
           lost == Batch(c) \ {h}
<1>1. pc'[c] = to /\ \A q \in Calls \ {c} : pc'[q] = pc[q]
  BY DEF PlaceInv, TypeOK
<1>2. h \in Batch(c)
  <2>1. batch[c] \in Seq(Calls)
    BY DEF PlaceInv, TypeOK
  <2>2. 1 \in DOMAIN batch[c] /\ h = batch[c][1]
    BY <2>1
  <2> QED BY <2>2 DEF Batch
<1>3. Batch(c) \subseteq Calls /\ \A q \in Batch(c) : InBatch(q) /\ pc[q] = "queued" /\ ~InQueue(q)
  <2>1. Batch(c) \subseteq Calls
    BY Elements DEF PlaceInv, Batch
  <2>2. \A q \in Batch(c) : InBatch(q) /\ ~InQueue(q)
    BY DEF PlaceInv, Lines, BatchApart, Batch, InBatch, InQueue
  <2> QED BY <2>1, <2>2 DEF PlaceInv, Waiting
<1>4. SessionOf[h] = SessionOf[c]
  BY <1>2 DEF PlaceInv, Lines, BatchedHere, Batch
<1>5. Lines' /\ \A q \in Calls : InBatch(q)' <=> InBatch(q) /\ q \notin Batch(c)
  BY LinesClearBatch DEF PlaceInv
<1>6. \A q \in Calls : InQueue(q)' <=> InQueue(q)
  BY DEF InQueue
<1>7. CreateUserMessage(c, h)
  OBVIOUS
<1> HIDE DEF h
<1>8. h \in Calls /\ Held(h) /\ pc[h] = "queued" /\ h # c
  BY <1>2, <1>3, HeldWhere
<1>9. \A q \in Calls : Said(q)' <=> Said(q) \/ q = h
  BY <1>7, <1>8, SaysMore DEF PlaceInv
<1>10. Waiting' /\ SaidOver'
  <2> DEFINE said == {h}
  <2>1. /\ said \in SUBSET Calls /\ \A q \in Calls : Said(q)' => Said(q) \/ q \in said
        /\ \A p \in said : pc'[p] \in Past \cup {"queued"} /\ ~InQueue(p)' /\ ~InBatch(p)'
    BY <1>1, <1>2, <1>3, <1>5, <1>6, <1>8, <1>9
  <2>2. \A q \in Calls : pc'[q] = pc[q] \/ (pc[q] \in Early \cup Past /\ pc'[q] \in Past)
    BY <1>1 DEF Past, Early, PCs
  <2> HIDE DEF said
  <2> QED BY <1>5, <1>6, <2>1, <2>2, PlacesKept
<1>11. BatchOwner'
  BY <1>1 DEF PlaceInv, TypeOK, BatchOwner
<1>12. LedgerStep
  <2>1. lost \in SUBSET Calls /\ h \notin lost /\ \A q \in lost : Held(q)
    BY <1>3, HeldWhere
  <2>2. \A q \in Calls : q # h => (Held(q)' <=> Held(q) /\ q \notin lost)
    BY <1>1, <1>3, <1>5, <1>6, HeldWhere, StatusSteps DEF Past, Early
  <2>3. \A q \in Calls : pc'[q] = "new" <=> pc[q] = "new"
    BY <1>1 DEF Past
  <2> HIDE DEF lost
  <2> QED BY <1>4, <1>7, <1>8, <2>1, <2>2, <2>3, Records
<1> QED BY <1>5, <1>10, <1>11, <1>12 DEF InPlace

LEMMA TurnPlaces ==
    ASSUME PlaceInv, NEW c \in Calls, TurnStep(c)
    PROVE  InPlace /\ LedgerStep
<1>1. CASE Start(c)
  BY <1>1, StartPlaces DEF Start, Past, Early, PCs
<1>2. ASSUME NEW from \in InTurns, NEW r, Finish(c, from, r)
      PROVE  InPlace /\ LedgerStep
  BY <1>2, EndsPlaces DEF Finish, Past, Early, PCs
<1>3. CASE \/ StartFails(c) \/ LoopCancelled(c) \/ TurnStop(c) \/ TurnFails(c)
           \/ DrainNothing(c) \/ RecordFails(c)
  BY <1>2, <1>3 DEF StartFails, LoopCancelled, TurnStop, TurnFails, DrainNothing, RecordFails
<1>4. CASE BeginTurn(c) \/ TurnToolUse(c) \/ TurnEnd(c) \/ RecordDone(c)
  <2>1. \E to \in Past : /\ pc[c] \in Past /\ pc' = [pc EXCEPT ![c] = to] /\ batch[c] = <<>>
                         /\ UNCHANGED <<queue, batch, history>>
    BY <1>4 DEF BeginTurn, TurnToolUse, TurnEnd, RecordDone, PlaceInv, BatchOwner, Past, Early, PCs
  <2> QED BY <2>1, MovesOn DEF Past
<1>5. CASE DrainTool(c) \/ DrainEnd(c)
  BY <1>5, DrainPlaces DEF DrainTool, DrainEnd
<1>6. CASE Record(c)
  BY <1>6, RecordPlaces
<1> QED BY <1>1, <1>3, <1>4, <1>5, <1>6 DEF TurnStep

LEMMA RunPlaces ==
    ASSUME PlaceInv, NEW c \in Calls, RunStep(c)
    PROVE  InPlace /\ LedgerStep
<1>1. CASE Register(c) \/ SetProcessing(c)
  <2>1. \E to \in Early : /\ pc[c] \in Early /\ pc' = [pc EXCEPT ![c] = to] /\ batch[c] = <<>>
                          /\ UNCHANGED <<queue, batch, history>>
    BY <1>1 DEF Register, SetProcessing, PlaceInv, BatchOwner, Early
  <2> QED BY <2>1, MovesOn DEF Early, PCs
<1> QED BY <1>1, CheckPlaces, EnqueuePlaces DEF RunStep

LEMMA TailPlaces ==
    ASSUME PlaceInv, NEW c \in Calls, TailStep(c)
    PROVE  InPlace /\ LedgerStep
<1>1. \E to \in Past : /\ pc[c] \in Past /\ pc' = [pc EXCEPT ![c] = to] /\ batch[c] = <<>>
                       /\ UNCHANGED <<queue, batch, history>>
  BY DEF TailStep, Cleanup, CheckIdle, SetIdle, CancelAndPublish, Deliver, DropResult, DeliverPanic,
         PlaceInv, BatchOwner, Past, Early, PCs
<1> QED BY <1>1, MovesOn DEF Past

LEMMA PanickingPlaces ==
    ASSUME PlaceInv, NEW c \in Calls, PanicCreating(c) \/ PanicStreaming(c)
    PROVE  InPlace /\ LedgerStep
<1>0. "panicSend" \in Past
  BY DEF Past, Early, PCs
<1>1. CASE PanicStreaming(c)
  BY <1>0, <1>1, EndsPlaces DEF PanicStreaming, Panic, Past, Early, PCs
<1>2. CASE Panic(c, "start") /\ CreateUserMessage(c, c)
  BY <1>0, <1>2, StartPlaces DEF Panic
<1>3. CASE /\ batch[c] # <<>> /\ (Panic(c, "recordTool") \/ Panic(c, "recordEnd"))
           /\ CreateUserMessage(c, Head(batch[c]))
  BY <1>0, <1>3, PanicPlaces DEF Panic
<1> QED BY <1>1, <1>2, <1>3 DEF PanicCreating

LEMMA OtherPlaces ==
    ASSUME PlaceInv,
           \/ \E c \in Calls : CallerStep(c)
           \/ \E s \in Sessions : Cancel(s) \/ ClearQueue(s)
           \/ CancelAll
           \/ UNCHANGED vars
    PROVE  InPlace /\ LedgerStep
<1>1. \/ UNCHANGED <<pc, queue, batch, history>>
      \/ \E s \in Sessions : /\ queue' = [queue EXCEPT ![s] = <<>>]
                             /\ UNCHANGED <<pc, batch, history>>
  BY DEF PlaceInv, TypeOK, vars, CallerStep, Receive, ReceiveClosed, CallerCancel, Cancel,
         CancelSession, ClearQueue, CancelAll, CancelAllCheck, CancelAllSnapshot, CancelAllNext,
         CancelAllWait, CancelAllReturn
<1> QED BY <1>1, StillPlaces, ClearPlaces

LEMMA PlaceStep == PlaceInv /\ [Next]_vars => PlaceInv' /\ LedgerStep
<1> SUFFICES ASSUME PlaceInv, [Next]_vars PROVE PlaceInv' /\ LedgerStep
  OBVIOUS
<1>1. TypeOK'
  BY TypeStep DEF PlaceInv
<1>2. InPlace /\ LedgerStep
  BY RunPlaces, TurnPlaces, TailPlaces, PanickingPlaces, OtherPlaces DEF Next
<1> QED BY <1>1, <1>2 DEF InPlace, PlaceInv

LEMMA LedgerInit == Init => PlaceInv /\ Ledger!Init
<1> SUFFICES ASSUME Init PROVE PlaceInv /\ Ledger!Init
  OBVIOUS
<1>1. TypeOK
  BY InitInv DEF IInv
<1>2. /\ \A s \in Sessions : queue[s] = <<>> /\ history[s] = <<>>
      /\ \A c \in Calls : batch[c] = <<>> /\ pc[c] = "new"
  BY DEF Init
<1>3. Lines /\ Waiting /\ SaidOver /\ BatchOwner
  BY <1>2 DEF Lines, QueuedHere, BatchedHere, QueuedOnce, BatchedOnce, BatchApart, Waiting,
              SaidOver, BatchOwner, InQueue, InBatch, Said
<1>4. \A p \in Calls : Status(p) = "unsent"
  <2>1. \A p \in Calls : ~Said(p) /\ ~InQueue(p) /\ ~InBatch(p) /\ pc[p] \notin Early
    BY <1>2 DEF Said, InQueue, InBatch, Early
  <2>2. \A p \in Calls : ~Said(p) /\ ~Held(p)
    BY <2>1, HeldWhere
  <2> QED BY <1>2, <2>2, StatusCases
<1>5. \A s \in Sessions : [i \in DOMAIN history[s] |-> history[s][i].prompt] = <<>>
  BY <1>2
<1>6. Ledger!Init
  BY <1>4, <1>5 DEF Ledger!Init
<1> QED BY <1>1, <1>3, <1>6 DEF PlaceInv

\* Every prompt given to Run is recorded at most once, in its own session, or
\* given up for good, whatever calls, drains, cancellations, failures and
\* panics interleave: the agent implements PromptLedger.
THEOREM LedgerImplemented == Spec => ImplementsLedger
<1>1. Init => PlaceInv /\ Ledger!Init
  BY LedgerInit
<1>2. PlaceInv /\ [Next]_vars => [Ledger!Next]_<<StatusOf, LogOf>>
  BY PlaceStep DEF LedgerStep
<1>3. [Ledger!Next]_<<StatusOf, LogOf>>
        => [Ledger!Next]_<<[p \in Calls |-> Status(p)],
                           [s \in Sessions |-> [i \in DOMAIN history[s] |-> history[s][i].prompt]]>>
  BY DEF StatusOf, LogOf
<1>4. PlaceInv /\ [Next]_vars => PlaceInv'
  BY PlaceStep
<1> QED BY <1>1, <1>2, <1>3, <1>4, PTL DEF Spec, ImplementsLedger, Ledger!Spec

-----------------------------------------------------------------------------
(* The order of the prompts.                                               *)

SaidOnce ==
    \A s \in Sessions : \A i, j \in DOMAIN history[s] :
        history[s][i].prompt = history[s][j].prompt => i = j

OrderInv == PlaceInv /\ SaidOnce

Messages == [prompt : Calls, by : Calls]

LEMMA HistoryElements ==
    ASSUME TypeOK, NEW s \in Sessions
    PROVE  /\ history[s] \in Seq(Messages) /\ Len(history[s]) \in Nat
           /\ DOMAIN history[s] = 1..Len(history[s])
           /\ \A i \in DOMAIN history[s] : history[s][i] \in Messages
<1>1. history[s] \in Seq(Messages)
  BY DEF TypeOK, Messages
<1> QED BY <1>1, LenProperties

\* What a new message does to the histories.
LEMMA HistoryGrows ==
    ASSUME TypeOK, NEW c \in Calls, NEW p \in Calls, CreateUserMessage(c, p),
           NEW n, n = Len(history[SessionOf[c]])
    PROVE  /\ DOMAIN history'[SessionOf[c]] = 1..(n + 1)
           /\ history'[SessionOf[c]][n + 1] = [prompt |-> p, by |-> c]
           /\ \A i \in 1..n : history'[SessionOf[c]][i] = history[SessionOf[c]][i]
           /\ \A t \in Sessions : t # SessionOf[c] => history'[t] = history[t]
<1> DEFINE s == SessionOf[c]
           h == history[s]
           m == [prompt |-> p, by |-> c]
<1>1. s \in Sessions /\ DOMAIN history = Sessions
  BY SessionAssumption DEF TypeOK
<1>2. h \in Seq(Messages) /\ m \in Messages /\ n \in Nat /\ n = Len(h)
  BY <1>1, HistoryElements DEF Messages
<1>3. history' = [history EXCEPT ![s] = Append(h, m)]
  BY DEF CreateUserMessage
<1> HIDE DEF m, h
<1>4. /\ Append(h, m) \in Seq(Messages) /\ Len(Append(h, m)) = n + 1
      /\ \A i \in 1..n : Append(h, m)[i] = h[i]
      /\ Append(h, m)[n + 1] = m
  BY <1>2, AppendProperties
<1>5. DOMAIN Append(h, m) = 1..(n + 1)
  BY <1>4, LenProperties
<1>6. history'[s] = Append(h, m) /\ \A t \in Sessions \ {s} : history'[t] = history[t]
  BY <1>1, <1>3
<1> QED BY <1>1, <1>4, <1>5, <1>6 DEF m, h

\* Nothing is said twice: what is said is not held any more.
LEMMA SaidOnceStep ==
    ASSUME OrderInv, [Next]_vars
    PROVE  SaidOnce'
<1>1. CASE history' = history
  BY <1>1 DEF OrderInv, SaidOnce
<1>2. ASSUME NEW c \in Calls, NEW p \in Calls, CreateUserMessage(c, p), ~Said(p)
      PROVE  SaidOnce'
  <2> DEFINE s == SessionOf[c]
             n == Len(history[s])
  <2>1. s \in Sessions /\ n \in Nat /\ DOMAIN history[s] = 1..n
    BY SessionAssumption, HistoryElements DEF OrderInv, PlaceInv
  <2>2. /\ DOMAIN history'[s] = 1..(n + 1) /\ history'[s][n + 1].prompt = p
        /\ \A i \in 1..n : history'[s][i] = history[s][i]
        /\ \A t \in Sessions : t # s => history'[t] = history[t]
    <3>1. TypeOK /\ n = Len(history[SessionOf[c]])
      BY DEF OrderInv, PlaceInv
    <3> HIDE DEF n
    <3>2. /\ DOMAIN history'[s] = 1..(n + 1)
          /\ history'[s][n + 1] = [prompt |-> p, by |-> c]
          /\ \A i \in 1..n : history'[s][i] = history[s][i]
          /\ \A t \in Sessions : t # s => history'[t] = history[t]
      BY <1>2, <3>1, HistoryGrows
    <3> QED BY <3>2
  <2>3. \A i \in 1..n : history[s][i].prompt # p
    BY <1>2, <2>1 DEF Said
  <2> HIDE DEF n, s
  <2>4. ASSUME NEW t \in Sessions, NEW i \in DOMAIN history'[t], NEW j \in DOMAIN history'[t],
               history'[t][i].prompt = history'[t][j].prompt
        PROVE  i = j
    <3>1. CASE t # s
      BY <2>2, <2>4, <3>1 DEF OrderInv, SaidOnce
    <3>2. CASE t = s
      <4>1. (i \in 1..n \/ i = n + 1) /\ (j \in 1..n \/ j = n + 1)
        BY <2>1, <2>2, <3>2
      <4> QED BY <2>1, <2>2, <2>3, <2>4, <3>2, <4>1 DEF OrderInv, SaidOnce
    <3> QED BY <3>1, <3>2
  <2> QED BY <2>4 DEF SaidOnce
<1>3. ASSUME NEW c \in Calls, pc[c] = "start"
      PROVE  ~Said(c)
  BY <1>3 DEF OrderInv, PlaceInv, SaidOver, Early
<1>4. ASSUME NEW c \in Calls, batch[c] # <<>>
      PROVE  Head(batch[c]) \in Calls /\ ~Said(Head(batch[c]))
  <2>1. Head(batch[c]) \in Calls
    BY <1>4, HeadType DEF OrderInv, PlaceInv
  <2>2. 1 \in DOMAIN batch[c] /\ Head(batch[c]) = batch[c][1]
    <3>1. batch[c] \in Seq(Calls)
      BY DEF OrderInv, PlaceInv, TypeOK
    <3> QED BY <1>4, <3>1
  <2> QED BY <2>1, <2>2 DEF OrderInv, PlaceInv, SaidOver, InBatch
<1>5. \/ history' = history
      \/ \E c \in Calls : /\ CreateUserMessage(c, c) /\ pc[c] = "start"
      \/ \E c \in Calls : /\ CreateUserMessage(c, Head(batch[c])) /\ batch[c] # <<>>
  BY DEF Next, RunStep, RunCheck, Enqueue, Register, SetProcessing, TurnStep, Start, StartFails,
         Finish, LoopCancelled, BeginTurn, TurnToolUse, TurnEnd, TurnStop, TurnFails, DrainTool,
         DrainEnd, Drain, DrainNothing, Record, RecordFails, RecordDone, TailStep, Cleanup,
         CheckIdle, SetIdle, CancelAndPublish, Deliver, DropResult, DeliverPanic, CallerStep,
         Receive, ReceiveClosed, CallerCancel, PanicCreating, PanicStreaming, Panic, Cancel,
         CancelSession, ClearQueue, CancelAll, CancelAllCheck, CancelAllSnapshot, CancelAllNext,
         CancelAllWait, CancelAllReturn, vars
<1> QED BY <1>1, <1>2, <1>3, <1>4, <1>5

\* A prompt in the pipeline of a run is in one place there.
LEMMA OnePlace ==
    ASSUME OrderInv, NEW c \in Calls, NEW u \in Pipeline(c), NEW v \in Pipeline(c), u[3] = v[3]
    PROVE  u = v
<1> DEFINE s == SessionOf[c]
           h == history[s]
           q == queue[s]
           b == batch[c]
<1>1. s \in Sessions
  BY SessionAssumption
<1>2. \A x \in Pipeline(c) :
          \/ \E i \in DOMAIN h : x = <<1, i, h[i].prompt>> /\ h[i].prompt \in Calls
                                   /\ Said(h[i].prompt)
          \/ \E i \in DOMAIN b : x = <<2, i, b[i]>> /\ b[i] \in Calls /\ InBatch(b[i])
          \/ \E i \in DOMAIN q : x = <<3, i, q[i]>> /\ q[i] \in Calls /\ InQueue(q[i])
  <2>1. \A i \in DOMAIN h : h[i].prompt \in Calls /\ Said(h[i].prompt)
    BY <1>1, HistoryElements DEF OrderInv, PlaceInv, Messages, Said
  <2>2. \A i \in DOMAIN b : b[i] \in Calls /\ InBatch(b[i])
    BY Elements DEF OrderInv, PlaceInv, InBatch
  <2>3. \A i \in DOMAIN q : q[i] \in Calls /\ InQueue(q[i])
    BY <1>1, Elements DEF OrderInv, PlaceInv, InQueue
  <2> QED BY <2>1, <2>2, <2>3 DEF Pipeline
<1>3. /\ \A i, j \in DOMAIN h : h[i].prompt = h[j].prompt => i = j
      /\ \A i, j \in DOMAIN b : b[i] = b[j] => i = j
      /\ \A i, j \in DOMAIN q : q[i] = q[j] => i = j
      /\ \A i \in DOMAIN q, j \in DOMAIN b : q[i] # b[j]
  BY <1>1 DEF OrderInv, SaidOnce, PlaceInv, Lines, BatchedOnce, QueuedOnce, BatchApart
<1>4. \A p \in Calls : Said(p) => ~InQueue(p) /\ ~InBatch(p)
  BY DEF OrderInv, PlaceInv, SaidOver
<1> HIDE DEF h, b, q, s
<1> QED BY <1>2, <1>3, <1>4

LEMMA Kept ==
    ASSUME OrderInv, NEW c \in Calls, NEW new,
           \A x, y \in new : Before(x, y) /\ (\E v \in Pipeline(c) : v[3] = y[3]) =>
               \E u, v \in Pipeline(c) : u[3] = x[3] /\ v[3] = y[3] /\ Before(u, v)
    PROVE  OrderKept(Pipeline(c), new)
<1> SUFFICES ASSUME NEW x \in new, NEW y \in new, Before(x, y),
                    NEW w \in Pipeline(c), w[3] = y[3]
             PROVE  \E u \in Pipeline(c) : u[3] = x[3] /\ Before(u, w)
  BY DEF OrderKept
<1>1. PICK u \in Pipeline(c), v \in Pipeline(c) :
          u[3] = x[3] /\ v[3] = y[3] /\ Before(u, v)
  OBVIOUS
<1>2. v = w
  BY <1>1, OnePlace
<1> QED BY <1>1, <1>2

LEMMA Shrinks ==
    ASSUME OrderInv, NEW c \in Calls, batch'[c] \in {batch[c], <<>>},
           queue'[SessionOf[c]] \in {queue[SessionOf[c]], <<>>},
           \A i \in DOMAIN history'[SessionOf[c]] :
               history'[SessionOf[c]][i].by = c =>
                   /\ i \in DOMAIN history[SessionOf[c]]
                   /\ history'[SessionOf[c]][i] = history[SessionOf[c]][i]
    PROVE  OrderKept(Pipeline(c), Pipeline(c)')
<1>1. Pipeline(c)' \subseteq Pipeline(c)
  BY DEF Pipeline
<1> QED BY <1>1, Kept

\* Another run records: c's own messages are where they were.
LEMMA OthersRecord ==
    ASSUME OrderInv, NEW c \in Calls, NEW d \in Calls, d # c, NEW p \in Calls,
           CreateUserMessage(d, p), NEW i \in DOMAIN history'[SessionOf[c]],
           history'[SessionOf[c]][i].by = c
    PROVE  /\ i \in DOMAIN history[SessionOf[c]]
           /\ history'[SessionOf[c]][i] = history[SessionOf[c]][i]
<1> DEFINE s == SessionOf[c]
           n == Len(history[SessionOf[d]])
<1>1. n \in Nat /\ DOMAIN history[SessionOf[d]] = 1..n /\ s \in Sessions
  BY SessionAssumption, HistoryElements DEF OrderInv, PlaceInv
<1>2. TypeOK /\ n = Len(history[SessionOf[d]])
  BY DEF OrderInv, PlaceInv
<1> HIDE DEF n
<1>3. /\ DOMAIN history'[SessionOf[d]] = 1..(n + 1)
      /\ history'[SessionOf[d]][n + 1] = [prompt |-> p, by |-> d]
      /\ \A j \in 1..n : history'[SessionOf[d]][j] = history[SessionOf[d]][j]
      /\ \A t \in Sessions : t # SessionOf[d] => history'[t] = history[t]
  BY <1>2, HistoryGrows
<1>4. CASE SessionOf[c] # SessionOf[d]
  BY <1>1, <1>3, <1>4
<1>5. CASE SessionOf[c] = SessionOf[d]
  <2>1. history'[SessionOf[d]][n + 1].by = d
    BY <1>3
  <2>2. i \in 1..(n + 1) /\ i # n + 1
    BY <1>3, <1>5, <2>1
  <2>3. i \in 1..n
    BY <1>1, <2>2
  <2> QED BY <1>1, <1>3, <1>5, <2>3
<1> QED BY <1>4, <1>5

\* A new prompt comes last.
LEMMA EnqueueOrder ==
    ASSUME OrderInv, NEW c \in Calls, NEW d \in Calls, Enqueue(d)
    PROVE  OrderKept(Pipeline(c), Pipeline(c)')
<1> DEFINE s == SessionOf[c]
           q == queue[s]
           n == Len(q)
<1>1. /\ history' = history /\ batch' = batch /\ pc[d] = "enqueue"
      /\ queue' = [queue EXCEPT ![SessionOf[d]] = Append(@, d)]
  BY DEF Enqueue
<1>2. s \in Sessions /\ q \in Seq(Calls) /\ n \in Nat /\ DOMAIN q = 1..n
  BY SessionAssumption, Elements DEF OrderInv, PlaceInv, TypeOK
<1>3. ~Said(d) /\ ~InQueue(d) /\ ~InBatch(d)
  BY <1>1 DEF OrderInv, PlaceInv, SaidOver, Waiting, Early
<1>4. CASE SessionOf[d] # s
  <2>1. queue'[s] = queue[s]
    BY <1>1, <1>2, <1>4 DEF OrderInv, PlaceInv, TypeOK
  <2> QED BY <1>1, <2>1, Shrinks
<1>5. CASE SessionOf[d] = s
  <2>1. queue'[s] = Append(q, d)
    BY <1>1, <1>2, <1>5 DEF OrderInv, PlaceInv, TypeOK
  <2>2. /\ DOMAIN queue'[s] = 1..(n + 1) /\ queue'[s][n + 1] = d
        /\ \A i \in 1..n : queue'[s][i] = q[i]
    BY <1>2, <2>1
  <2>3. \A v \in Pipeline(c) : v[3] # d
    BY <1>2, <1>3 DEF Pipeline, Said, InQueue, InBatch
  <2>4. \A x \in Pipeline(c)' : x \in Pipeline(c) \/ x = <<3, n + 1, d>>
    <3>1. \A i \in DOMAIN queue'[s] : i \in 1..n \/ i = n + 1
      BY <1>2, <2>2
    <3> HIDE DEF n
    <3> QED BY <1>1, <1>2, <2>2, <3>1 DEF Pipeline
  <2>5. \A v \in Pipeline(c) : v[1] \in 1..3 /\ (v[1] = 3 => v[2] <= n /\ v[2] \in Nat)
    BY <1>2 DEF Pipeline
  <2> HIDE DEF n
  <2>6. ASSUME NEW x \in Pipeline(c)', NEW y \in Pipeline(c)', Before(x, y),
               \E v \in Pipeline(c) : v[3] = y[3]
        PROVE  x \in Pipeline(c) /\ y \in Pipeline(c)
    <3>1. y \in Pipeline(c)
      BY <2>3, <2>4, <2>6
    <3>2. x # <<3, n + 1, d>>
      BY <1>2, <2>5, <2>6, <3>1 DEF Before
    <3> QED BY <2>4, <3>1, <3>2
  <2> QED BY <2>6, Kept
<1> QED BY <1>4, <1>5

\* The queue becomes the batch.
LEMMA DrainOrder ==
    ASSUME OrderInv, NEW c \in Calls, NEW from \in {"drainTool", "drainEnd"}, NEW to,
           Drain(c, from, to)
    PROVE  OrderKept(Pipeline(c), Pipeline(c)')
<1> DEFINE s == SessionOf[c]
           q == queue[s]
<1>1. /\ batch[c] = <<>> /\ batch'[c] = q /\ queue'[s] = <<>> /\ history' = history
      /\ s \in Sessions
  BY SessionAssumption DEF Drain, OrderInv, PlaceInv, TypeOK, BatchOwner
<1>2. Len(q) \in Nat /\ DOMAIN q = 1..Len(q)
  BY <1>1, Elements DEF OrderInv, PlaceInv
<1>3. \A x \in Pipeline(c)' : \/ x[1] = 1 /\ x \in Pipeline(c)
                              \/ x[1] = 2 /\ <<3, x[2], x[3]>> \in Pipeline(c) /\ x[2] \in Nat
  BY <1>1, <1>2 DEF Pipeline
<1>4. ASSUME NEW x \in Pipeline(c)', NEW y \in Pipeline(c)', Before(x, y)
      PROVE  \E u, v \in Pipeline(c) : u[3] = x[3] /\ v[3] = y[3] /\ Before(u, v)
  <2>1. \A z \in Pipeline(c)' : \E u \in Pipeline(c) :
            /\ u[3] = z[3]
            /\ \/ z[1] = 1 /\ u[1] = 1 /\ u[2] = z[2]
               \/ z[1] = 2 /\ u[1] = 3 /\ u[2] = z[2]
    BY <1>3
  <2>2. PICK u \in Pipeline(c) : /\ u[3] = x[3]
                                 /\ \/ x[1] = 1 /\ u[1] = 1 /\ u[2] = x[2]
                                    \/ x[1] = 2 /\ u[1] = 3 /\ u[2] = x[2]
    BY <2>1
  <2>3. PICK v \in Pipeline(c) : /\ v[3] = y[3]
                                 /\ \/ y[1] = 1 /\ v[1] = 1 /\ v[2] = y[2]
                                    \/ y[1] = 2 /\ v[1] = 3 /\ v[2] = y[2]
    BY <2>1
  <2>4. Before(u, v)
    BY <1>4, <2>2, <2>3 DEF Before
  <2> QED BY <2>2, <2>3, <2>4
<1> QED BY <1>4, Kept

\* Where the prompt at x was before a Record, with n messages in the history.
Moved(x, u, n) ==
    /\ u[3] = x[3]
    /\ \/ x[1] = 1 /\ x[2] \in 1..n /\ u[1] = 1 /\ u[2] = x[2]
       \/ x[1] = 1 /\ x[2] = n + 1 /\ u[1] = 2 /\ u[2] = 1
       \/ x[1] = 2 /\ x[2] \in Nat /\ x[2] > 0 /\ u[1] = 2 /\ u[2] = x[2] + 1
       \/ x[1] = 3 /\ u = x

\* The first prompt of the batch goes behind the recorded ones, or away.
LEMMA RecordOrder ==
    ASSUME OrderInv, NEW c \in Calls, batch[c] # <<>>,
           queue' = queue, batch'[c] \in {Tail(batch[c]), <<>>},
           history' = history \/ CreateUserMessage(c, Head(batch[c]))
    PROVE  OrderKept(Pipeline(c), Pipeline(c)')
<1> DEFINE s == SessionOf[c]
           h == history[s]
           b == batch[c]
           n == Len(h)
           m == Len(b)
<1>1. s \in Sessions /\ n \in Nat /\ DOMAIN h = 1..n
  BY SessionAssumption, HistoryElements DEF OrderInv, PlaceInv
<1>2. /\ b \in Seq(Calls) /\ m \in Nat /\ m > 0 /\ DOMAIN b = 1..m
      /\ Head(b) = b[1] /\ Head(b) \in Calls
  <2>1. b \in Seq(Calls) /\ b # <<>>
    BY DEF OrderInv, PlaceInv, TypeOK
  <2> QED BY <2>1, LenProperties
<1>3. \A i \in DOMAIN batch'[c] : i \in Nat /\ i + 1 \in 1..m /\ batch'[c][i] = b[i + 1] /\ i > 0
  <2>1. DOMAIN Tail(b) = 1..(m - 1) /\ \A i \in 1..(m - 1) : Tail(b)[i] = b[i + 1]
    BY <1>2
  <2>2. \A i \in 1..(m - 1) : i \in Nat /\ i + 1 \in 1..m /\ i > 0
    BY <1>2
  <2> QED BY <2>1, <2>2
<1>4. \A i \in DOMAIN history'[s] :
          \/ i \in DOMAIN h /\ history'[s][i] = h[i]
          \/ i = n + 1 /\ history'[s][i].prompt = b[1]
  <2>1. CASE history' = history
    BY <2>1
  <2>2. CASE CreateUserMessage(c, Head(b))
    <3>1. TypeOK /\ n = Len(history[SessionOf[c]])
      BY DEF OrderInv, PlaceInv
    <3> HIDE DEF n
    <3>2. /\ DOMAIN history'[s] = 1..(n + 1)
          /\ history'[s][n + 1] = [prompt |-> Head(b), by |-> c]
          /\ \A i \in 1..n : history'[s][i] = history[s][i]
      BY <1>2, <2>2, <3>1, HistoryGrows
    <3>3. history'[s][n + 1].prompt = b[1]
      BY <1>2, <3>2
    <3>4. \A i \in 1..(n + 1) : i \in 1..n \/ i = n + 1
      BY <1>1
    <3> QED BY <1>1, <3>2, <3>3, <3>4
  <2> QED BY <2>1, <2>2
<1> HIDE DEF n, m
<1>5. ASSUME NEW x \in Pipeline(c)'
      PROVE  \/ x[1] = 1 /\ x[2] \in 1..n /\ x \in Pipeline(c)
             \/ x[1] = 1 /\ x[2] = n + 1 /\ <<2, 1, x[3]>> \in Pipeline(c)
             \/ x[1] = 2 /\ x[2] \in Nat /\ x[2] > 0 /\ <<2, x[2] + 1, x[3]>> \in Pipeline(c)
             \/ x[1] = 3 /\ x \in Pipeline(c)
  <2>1. CASE \E i \in DOMAIN history'[s] :
                history'[s][i].by = c /\ x = <<1, i, history'[s][i].prompt>>
    <3>1. PICK i \in DOMAIN history'[s] :
              history'[s][i].by = c /\ x = <<1, i, history'[s][i].prompt>>
      BY <2>1
    <3>2. <<2, 1, b[1]>> \in Pipeline(c)
      BY <1>2 DEF Pipeline
    <3> QED BY <1>1, <1>4, <3>1, <3>2 DEF Pipeline
  <2>2. CASE \E i \in DOMAIN batch'[c] : x = <<2, i, batch'[c][i]>>
    <3>1. PICK i \in DOMAIN batch'[c] : x = <<2, i, batch'[c][i]>>
      BY <2>2
    <3>2. <<2, i + 1, b[i + 1]>> \in Pipeline(c)
      BY <1>2, <1>3 DEF Pipeline
    <3> QED BY <1>3, <3>1, <3>2
  <2>3. CASE \E i \in DOMAIN queue[s] : x = <<3, i, queue[s][i]>>
    BY <2>3 DEF Pipeline
  <2> QED BY <2>1, <2>2, <2>3 DEF Pipeline
<1>6. ASSUME NEW x \in Pipeline(c)', NEW y \in Pipeline(c)', Before(x, y)
      PROVE  \E u, v \in Pipeline(c) : u[3] = x[3] /\ v[3] = y[3] /\ Before(u, v)
  <2>1. PICK u \in Pipeline(c) : Moved(x, u, n)
    BY <1>5 DEF Moved
  <2>2. PICK v \in Pipeline(c) : Moved(y, v, n)
    BY <1>5 DEF Moved
  <2>3. Before(u, v)
    BY <1>1, <1>6, <2>1, <2>2 DEF Before, Moved
  <2> QED BY <2>1, <2>2, <2>3 DEF Moved
<1> QED BY <1>6, Kept

\* The ways in which a step can touch queues, batches and histories.
Rearranges ==
    \/ UNCHANGED <<queue, batch, history>>
    \/ \E t \in Sessions : queue' = [queue EXCEPT ![t] = <<>>] /\ UNCHANGED <<batch, history>>
    \/ \E d \in Calls : Enqueue(d)
    \/ \E d \in Calls, from \in {"drainTool", "drainEnd"}, to \in {"recordTool", "recordEnd"} :
          Drain(d, from, to)
    \/ \E d \in Calls : /\ queue' = queue /\ history' = history
                        /\ batch' = [batch EXCEPT ![d] = <<>>]
    \/ \E d \in Calls : Start(d) \/ PanicCreating(d) \/ Record(d)

LEMMA StepRearranges == targets \subseteq Sessions /\ [Next]_vars => Rearranges
<1>1. ASSUME NEW d \in Calls, RunStep(d) PROVE Rearranges
  BY <1>1 DEF RunStep, RunCheck, Register, SetProcessing, Rearranges
<1>2. ASSUME NEW d \in Calls, TurnStep(d) PROVE Rearranges
  <2>1. CASE Start(d) \/ Record(d)
    BY <2>1 DEF Rearranges
  <2>2. CASE \/ StartFails(d) \/ LoopCancelled(d) \/ TurnStop(d) \/ TurnFails(d)
             \/ DrainNothing(d) \/ RecordFails(d)
    BY <2>2 DEF StartFails, LoopCancelled, TurnStop, TurnFails, DrainNothing, RecordFails, Finish,
                Rearranges
  <2>3. CASE BeginTurn(d) \/ TurnToolUse(d) \/ TurnEnd(d) \/ RecordDone(d)
    BY <2>3 DEF BeginTurn, TurnToolUse, TurnEnd, RecordDone, Rearranges
  <2>4. CASE DrainTool(d) \/ DrainEnd(d)
    BY <2>4 DEF DrainTool, DrainEnd, Rearranges
  <2> QED BY <1>2, <2>1, <2>2, <2>3, <2>4 DEF TurnStep
<1>3. ASSUME NEW d \in Calls, TailStep(d) \/ CallerStep(d) PROVE Rearranges
  BY <1>3 DEF TailStep, Cleanup, CheckIdle, SetIdle, CancelAndPublish, Deliver, DropResult,
              DeliverPanic, CallerStep, Receive, ReceiveClosed, CallerCancel, Rearranges
<1>4. ASSUME NEW d \in Calls, PanicCreating(d) \/ PanicStreaming(d) PROVE Rearranges
  BY <1>4 DEF PanicStreaming, Panic, Rearranges
<1>5. ASSUME NEW s \in Sessions, Cancel(s) \/ ClearQueue(s) \/ CancelSession(s) PROVE Rearranges
  BY <1>5 DEF Cancel, CancelSession, ClearQueue, Rearranges
<1>6. ASSUME CancelAll, targets \subseteq Sessions PROVE Rearranges
  BY <1>5, <1>6 DEF CancelAll, CancelAllCheck, CancelAllSnapshot, CancelAllNext, CancelAllWait,
                    CancelAllReturn, Rearranges
<1>7. CASE UNCHANGED vars
  BY <1>7 DEF vars, Rearranges
<1> QED BY <1>1, <1>2, <1>3, <1>4, <1>5, <1>6, <1>7 DEF Next

LEMMA PipelineStep ==
    ASSUME OrderInv, [Next]_vars, NEW c \in Calls, pc[c] # "start", pc[c] \notin InRun
    PROVE  OrderKept(Pipeline(c), Pipeline(c)')
<1> DEFINE s == SessionOf[c]
<1>1. s \in Sessions /\ DOMAIN queue = Sessions /\ DOMAIN batch = Calls
  BY SessionAssumption DEF OrderInv, PlaceInv, TypeOK
<1>2. CASE \/ UNCHANGED <<queue, batch, history>>
           \/ \E t \in Sessions : /\ queue' = [queue EXCEPT ![t] = <<>>]
                                  /\ UNCHANGED <<batch, history>>
  BY <1>1, <1>2, Shrinks
<1>3. ASSUME NEW d \in Calls, Enqueue(d)
      PROVE  OrderKept(Pipeline(c), Pipeline(c)')
  BY <1>3, EnqueueOrder
<1>4. ASSUME NEW d \in Calls, NEW from \in {"drainTool", "drainEnd"}, NEW to, Drain(d, from, to)
      PROVE  OrderKept(Pipeline(c), Pipeline(c)')
  <2>1. CASE d = c
    BY <1>4, <2>1, DrainOrder
  <2>2. CASE d # c
    <3>1. batch'[c] = batch[c] /\ history' = history /\ queue'[s] \in {queue[s], <<>>}
      BY <1>1, <1>4, <2>2 DEF Drain
    <3> QED BY <3>1, Shrinks
  <2> QED BY <2>1, <2>2
<1>5. ASSUME NEW d \in Calls, queue' = queue, history' = history,
             batch' = [batch EXCEPT ![d] = <<>>]
      PROVE  OrderKept(Pipeline(c), Pipeline(c)')
  BY <1>1, <1>5, Shrinks
<1>6. ASSUME NEW d \in Calls, d # c, NEW p \in Calls, CreateUserMessage(d, p), queue' = queue,
             NEW b, batch' = batch \/ batch' = [batch EXCEPT ![d] = b]
      PROVE  OrderKept(Pipeline(c), Pipeline(c)')
  <2>1. batch'[c] = batch[c]
    BY <1>1, <1>6
  <2>2. \A i \in DOMAIN history'[SessionOf[c]] :
            history'[SessionOf[c]][i].by = c =>
                /\ i \in DOMAIN history[SessionOf[c]]
                /\ history'[SessionOf[c]][i] = history[SessionOf[c]][i]
    BY <1>6, OthersRecord
  <2> QED BY <1>6, <2>1, <2>2, Shrinks
<1>7. ASSUME NEW d \in Calls, Start(d) \/ PanicCreating(d) \/ Record(d)
      PROVE  OrderKept(Pipeline(c), Pipeline(c)')
  <2>1. queue' = queue /\ \E b : batch' = batch \/ batch' = [batch EXCEPT ![d] = b]
    BY <1>7 DEF Start, PanicCreating, Panic, Record
  <2>2. CASE d # c /\ history' # history
    <3>1. \E p \in Calls : CreateUserMessage(d, p)
      BY <1>7, <2>2, HeadType DEF Start, PanicCreating, Record, OrderInv, PlaceInv
    <3> QED BY <1>6, <2>1, <2>2, <3>1
  <2>3. CASE d # c /\ history' = history
    BY <1>1, <2>1, <2>3, Shrinks
  <2>4. CASE d = c
    <3>1. /\ batch[c] # <<>> /\ batch'[c] \in {Tail(batch[c]), <<>>}
          /\ history' = history \/ CreateUserMessage(c, Head(batch[c]))
      BY <1>1, <1>7, <2>4 DEF Start, PanicCreating, Panic, Record
    <3> QED BY <2>1, <3>1, RecordOrder
  <2> QED BY <2>2, <2>3, <2>4
<1>8. Rearranges
  BY StepRearranges DEF OrderInv, PlaceInv, TypeOK
<1> QED BY <1>2, <1>3, <1>4, <1>5, <1>7, <1>8 DEF Rearranges

\* However many prompts wait and however often they are drained, cancelled or
\* lost, a run records them in the order in which Enqueue accepted them.
THEOREM PromptsInOrder == Spec => DrainsInOrder
<1>1. Init => OrderInv
  <2>1. Init => PlaceInv
    BY LedgerInit
  <2>2. Init => SaidOnce
    BY DEF Init, SaidOnce
  <2> QED BY <2>1, <2>2 DEF OrderInv
<1>2. OrderInv /\ [Next]_vars => OrderInv'
  BY PlaceStep, SaidOnceStep DEF OrderInv
<1>3. OrderInv /\ [Next]_vars =>
          [\A c \in Calls : pc[c] # "start" /\ pc[c] \notin InRun
               => OrderKept(Pipeline(c), Pipeline(c)')]_vars
  BY PipelineStep
<1> QED BY <1>1, <1>2, <1>3, PTL DEF Spec, DrainsInOrder
=============================================================================
