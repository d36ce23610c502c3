-------------------------- MODULE GenerationProofs --------------------------
(***************************************************************************)
(* Proofs about Generation, for any prompts, tools, stored sessions and    *)
(* bounds.                                                                 *)
(*                                                                         *)
(* They rest on one invariant, TurnInv, that says where the message of the *)
(* turn is: its row is the last one, or the last but one once the tool     *)
(* message is stored; no copy in the history has its id yet; the row says  *)
(* what the message in memory says, except between an event the store did  *)
(* not take and the update that follows; and the tool results before the   *)
(* index of the loop are filled.  The last part shows the step refinement  *)
(* of AgentRuns: what is said by the user in the rows is the history there.*)
(***************************************************************************)
EXTENDS Generation, SequenceTheorems, WellFoundedInduction, TLAPS

Streaming == {"stream", "track"}
Stopping  == {"interrupted", "failed"}
Tooling   == {"tools", "toolWait", "createTool"}
Turn      == Streaming \cup Stopping \cup Tooling \cup {"after"}
Before    == {"list", "createUser", "loop", "createAssistant"}

\* The tool message of the turn is in the store.
TurnStored == pc = "after" /\ slots # <<>>

NoTurnYet == pc \in Before => msg = NoMessage

CurrentRow ==
    pc \in Turn =>
        /\ msg.id \in DOMAIN rows
        /\ msg.id = (IF TurnStored THEN Len(rows) - 1 ELSE Len(rows))
        /\ \A i \in DOMAIN hist : hist[i].id < msg.id

InStep ==
    /\ pc \in Turn => msg.body.role = "assistant" /\ rows[msg.id].role = "assistant"
    /\ pc \in Streaming \cup {"tools", "toolWait"} => rows[msg.id] = msg.body
    /\ pc \in {"createTool", "after"} =>
          /\ rows[msg.id].calls = msg.body.calls
          /\ \/ rows[msg.id] = msg.body
             \/ broken /\ msg.body.finish = "canceled"

Filled ==
    /\ pc \in Tooling => DOMAIN slots = DOMAIN msg.body.calls
    /\ pc \in {"tools", "toolWait"} => \A j \in 1..(next - 1) : slots[j] # ""
    /\ pc = "toolWait" => next <= Len(slots)
    /\ pc = "createTool" => slots # <<>> /\ \A j \in DOMAIN slots : slots[j] # ""

ResultsStored == TurnStored => rows[Len(rows)] = Results /\ DOMAIN slots = DOMAIN msg.body.calls

TurnInv == TypeOK /\ NoTurnYet /\ CurrentRow /\ InStep /\ Filled /\ ResultsStored

\* Calls in what List will read, and in the history, have their results, but
\* for those that an earlier run left when its stream was cut short.
ListSees == pc = "list" => AllAnswered(rows)

SaidAfter(i) == \E k \in DOMAIN hist : i < k /\ hist[k].body.prompt = Run

OpenIsOld ==
    \A i \in DOMAIN hist : Open(i) =>
        CutShort(hist[i].body) /\ (pc \in {"createUser", "returned"} \/ SaidAfter(i))

\* The message of the turn has no finish before the provider sent its last
\* event, and may have calls that are still to be answered.
NotFinished ==
    /\ pc \in Streaming /\ ~completed => msg.body.finish = ""
    /\ pc = "failed" => broken \/ rows[msg.id].finish = ""

RowsAnswered ==
    \/ broken
    \/ \A i \in DOMAIN rows : HasCalls(rows[i]) =>
           Answered(rows, i) \/ CutShort(rows[i]) \/ (pc \in Turn \ {"after"} /\ i = msg.id)

OneUnfinished ==
    \/ broken
    \/ \A i \in DOMAIN rows : Unfinished(rows[i]) =>
           i = msg.id /\ (pc \in Turn \/ (pc = "returned" /\ cancelled /\ ret = "error"))

-----------------------------------------------------------------------------
(* Bodies, rows and copies of them.                                        *)

Copies(n) == [id : 1..n, body : Body]

LEMMA Bodies ==
    /\ Blank \in Body
    /\ \A p \in Prompts \cup {Run} : UserMessage(p) \in Body
    /\ \A b \in Body : [b EXCEPT !.role = "user"] \in Body
<1>1. <<>> \in CallLists /\ <<>> \in Seq([id : ToolIds, kind : ResultKinds])
  BY ListAssumption
<1>2. Blank \in Body
  BY <1>1 DEF Blank, Body, Finishes
<1>3. \A p \in Prompts \cup {Run} : UserMessage(p) \in Body
  BY <1>2 DEF UserMessage, Body
<1> QED BY <1>2, <1>3 DEF Body

LEMMA FinishedMessage ==
    ASSUME NEW m, NEW ids, m \in [id : ids, body : Body], NEW f \in Finishes
    PROVE  LET c == Finished(m, f) IN
           /\ c \in [id : ids, body : Body] /\ c.id = m.id /\ c.body.role = m.body.role
           /\ c.body.calls = m.body.calls /\ c.body.finish = f
BY DEF Finished, Body

LEMMA CallingMessage ==
    ASSUME NEW m, NEW ids, m \in [id : ids, body : Body], NEW cs \in CallLists
    PROVE  LET c == Calling(m, cs) IN
           /\ c \in [id : ids, body : Body] /\ c.id = m.id /\ c.body.role = m.body.role
           /\ c.body.finish = m.body.finish
BY DEF Calling, Body

LEMMA FunctionIsSeq ==
    ASSUME NEW n \in Nat, NEW S, NEW f \in [1..n -> S]
    PROVE  f \in Seq(S)
OBVIOUS

LEMMA SeqAsFunction ==
    ASSUME NEW S, NEW f \in Seq(S)
    PROVE  [k \in DOMAIN f |-> f[k]] = f
BY LenProperties

\* A history stays one when rows are added.
LEMMA StillCopies ==
    ASSUME NEW n \in Nat, NEW k \in Nat, n <= k, NEW h \in Seq(Copies(n))
    PROVE  h \in Seq(Copies(k))
BY SeqMonotonic, Copies(n) \subseteq Copies(k) DEF Copies

LEMMA Updated ==
    ASSUME rows \in Seq(Body), NEW m, m.body \in Body, Update(m)
    PROVE  /\ rows' \in Seq(Body) /\ Len(rows') = Len(rows)
           /\ \A i \in DOMAIN rows : rows'[i] = IF i = m.id THEN m.body ELSE rows[i]
BY DEF Update

LEMMA Created ==
    ASSUME rows \in Seq(Body), NEW b \in Body, Create(b)
    PROVE  /\ rows' \in Seq(Body) /\ Len(rows') = Len(rows) + 1
           /\ \A i \in DOMAIN rows : rows'[i] = rows[i]
           /\ rows'[Len(rows) + 1] = b
BY DEF Create

\* The tool message is one.
LEMMA ResultsBody ==
    ASSUME TypeOK, DOMAIN slots = DOMAIN msg.body.calls
    PROVE  Results \in Body
<1> DEFINE rs == [i \in DOMAIN slots |-> [id |-> ToolCalls(msg)[i], kind |-> slots[i]]]
<1>1. msg.body \in Body /\ msg.body.calls \in Seq(ToolIds) /\ slots \in Seq(ResultKinds)
  BY ListAssumption DEF TypeOK, Body
<1>2. rs \in Seq([id : ToolIds, kind : ResultKinds])
  <2>1. \A i \in DOMAIN slots : msg.body.calls[i] \in ToolIds /\ slots[i] \in ResultKinds
    BY <1>1
  <2>2. rs \in [1..Len(slots) -> [id : ToolIds, kind : ResultKinds]] /\ Len(slots) \in Nat
    BY <1>1, <2>1 DEF ToolCalls
  <2> HIDE DEF rs
  <2> QED BY <2>2, FunctionIsSeq
<1> HIDE DEF rs
<1>3. ToolMessage(rs) \in Body
  BY <1>2, Bodies DEF ToolMessage, Body
<1> QED BY <1>3 DEF Results, rs

LEMMA VisibleCopies ==
    ASSUME rows \in Seq(Body)
    PROVE  /\ Visible \in Seq(Copies(Len(rows)))
           /\ \A i \in DOMAIN Visible : Visible[i].id # summary => Visible[i].body = rows[Visible[i].id]
           /\ \A i, j \in DOMAIN Visible : i < j => Visible[i].id < Visible[j].id
<1>1. CASE summary \notin DOMAIN rows
  <2>1. Visible = [i \in 1..Len(rows) |-> [id |-> i, body |-> rows[i]]]
    BY <1>1 DEF Visible
  <2>2. Len(rows) \in Nat /\ \A i \in 1..Len(rows) : rows[i] \in Body
    OBVIOUS
  <2>3. \A i \in 1..Len(rows) : [id |-> i, body |-> rows[i]] \in Copies(Len(rows))
    BY <2>2 DEF Copies
  <2> QED BY <2>1, <2>2, <2>3
<1>2. CASE summary \in DOMAIN rows
  <2> DEFINE n == Len(rows) - summary + 1
             f == [i \in 1..n |-> LET k == summary + i - 1
                                  IN  [id |-> k, body |-> IF i = 1 THEN [rows[k] EXCEPT !.role = "user"]
                                                          ELSE rows[k]]]
  <2>1. Visible = f
    BY <1>2 DEF Visible
  <2>2. summary \in 1..Len(rows) /\ n \in Nat /\ Len(rows) \in Nat
    BY <1>2
  <2>3. ASSUME NEW i \in 1..n
        PROVE  /\ f[i].id = summary + i - 1 /\ f[i] \in Copies(Len(rows))
               /\ i # 1 => f[i].body = rows[f[i].id]
    <3>1. summary + i - 1 \in 1..Len(rows)
      BY <2>2
    <3>2. rows[summary + i - 1] \in Body
      BY <3>1
    <3> QED BY <3>1, <3>2, Bodies DEF Copies
  <2> HIDE DEF f
  <2>4. DOMAIN f = 1..n
    BY DEF f
  <2>5. f \in Seq(Copies(Len(rows)))
    <3>1. f \in [1..n -> Copies(Len(rows))]
      BY <2>3 DEF f
    <3> QED BY <3>1, <2>2
  <2>6. \A i \in DOMAIN f : f[i].id # summary => f[i].body = rows[f[i].id]
    BY <2>2, <2>3, <2>4
  <2>7. \A i, j \in DOMAIN f : i < j => f[i].id < f[j].id
    BY <2>2, <2>3, <2>4
  <2> QED BY <2>1, <2>5, <2>6, <2>7
<1> QED BY <1>1, <1>2

-----------------------------------------------------------------------------
(* TurnInv holds in every state.                                           *)

USE DEF env, prompts, tools, stream, Goto

LEMMA InitTurn == Init => TurnInv
<1> SUFFICES ASSUME Init PROVE TurnInv
  OBVIOUS
<1>1. PICK st \in Stored : rows = st.rows /\ summary = st.summary
  BY DEF Init
<1>2. rows \in Seq(Body) /\ NoMessage \in [id : 0..Len(rows), body : Body]
  BY <1>1, StoredAssumption, Bodies DEF NoMessage
<1>3. hist = <<>> /\ hist \in Seq([id : 1..Len(rows), body : Body])
      /\ queue \in Seq(Prompts) /\ batch \in Seq(Prompts) /\ slots \in Seq(ResultKinds)
      /\ next \in 1..(Len(slots) + 1) /\ toolTurns \in 0..MaxToolTurns
  BY BoundAssumption DEF Init
<1>4. TypeOK
  BY <1>2, <1>3 DEF Init, TypeOK
<1> QED
  BY <1>3, <1>4 DEF Init, TurnInv, NoTurnYet, CurrentRow, InStep, Filled, ResultsStored, TurnStored,
              Before, Turn, Streaming, Stopping, Tooling

\* The types, when no row is added and neither a message nor the history changes.
LEMMA TypeSame ==
    ASSUME TypeOK, UNCHANGED <<hist, msg>>, rows' \in Seq(Body), Len(rows') = Len(rows)
    PROVE  rows' \in Seq(Body) /\ hist' \in Seq([id : 1..Len(rows'), body : Body])
           /\ msg' \in [id : 0..Len(rows'), body : Body]
BY DEF TypeOK

LEMMA DeltaBody ==
    ASSUME TypeOK, NEW m \in Deltas \cup Completions
    PROVE  /\ m \in [id : 0..Len(rows), body : Body] /\ m.id = msg.id
           /\ m.body.role = msg.body.role
           /\ m \in Deltas => m.body.finish = msg.body.finish
           /\ m \in Completions => m.body.finish \in EndReasons
<1> DEFINE M == [id : 0..Len(rows), body : Body]
<1>1. msg \in M
  BY DEF TypeOK
<1>2. \A cs \in CallLists : Calling(msg, cs) \in M /\ Calling(msg, cs).id = msg.id
                            /\ Calling(msg, cs).body.role = msg.body.role
                            /\ Calling(msg, cs).body.finish = msg.body.finish
  BY <1>1, CallingMessage
<1>3. \A c \in M, f \in Finishes : Finished(c, f) \in M /\ Finished(c, f).id = c.id
                                   /\ Finished(c, f).body.role = c.body.role
                                   /\ Finished(c, f).body.finish = f
  BY FinishedMessage
<1>4. EndReasons \subseteq Finishes
  BY DEF EndReasons, Finishes
<1> HIDE DEF M
<1>5. ASSUME m \in Deltas
      PROVE  /\ m \in M /\ m.id = msg.id /\ m.body.role = msg.body.role
             /\ m.body.finish = msg.body.finish
  <2>1. m = msg \/ \E cs \in CallLists : m = Calling(msg, cs)
    BY <1>5 DEF Deltas
  <2> QED BY <1>1, <1>2, <2>1
<1>6. ASSUME m \in Completions
      PROVE  /\ m \in M /\ m.id = msg.id /\ m.body.role = msg.body.role
             /\ m.body.finish \in EndReasons
  <2>1. \E cs \in CallLists, f \in EndReasons : m = Finished(Calling(msg, cs), f)
    BY <1>6 DEF Completions
  <2>2. PICK cs \in CallLists, f \in EndReasons : m = Finished(Calling(msg, cs), f)
    BY <2>1
  <2> QED BY <1>2, <1>3, <1>4, <2>2
<1>7. m \in M /\ m.id = msg.id /\ m.body.role = msg.body.role
  BY <1>5, <1>6
<1> QED BY <1>5, <1>6, <1>7 DEF M

LEMMA ReturnFrom ==
    ASSUME TypeOK, NEW from, NEW r \in {"response", "cancelled", "error"}, Return(from, r),
           rows' \in Seq(Body), Len(rows') = Len(rows), broken' \in BOOLEAN
    PROVE  TypeOK'
BY DEF TypeOK, Return

\* An update of the message's row, or none.
LEMMA UpdatedOrNot ==
    ASSUME rows \in Seq(Body), broken \in BOOLEAN, NEW m, m.body \in Body, UpdateOrNot(m)
    PROVE  /\ rows' \in Seq(Body) /\ Len(rows') = Len(rows) /\ broken' \in BOOLEAN
           /\ \A i \in DOMAIN rows : i # m.id => rows'[i] = rows[i]
           /\ m.id \in DOMAIN rows => rows'[m.id] = m.body \/ (rows' = rows /\ broken' = TRUE)
           /\ broken = TRUE => broken' = TRUE
<1>1. CASE Update(m) /\ UNCHANGED broken
  <2>1. broken' \in BOOLEAN /\ (broken = TRUE => broken' = TRUE)
    BY <1>1
  <2>2. /\ rows' \in Seq(Body) /\ Len(rows') = Len(rows)
        /\ \A i \in DOMAIN rows : rows'[i] = IF i = m.id THEN m.body ELSE rows[i]
    BY <1>1, Updated
  <2>3. \A i \in DOMAIN rows : i # m.id => rows'[i] = rows[i]
    BY <2>2
  <2>4. m.id \in DOMAIN rows => rows'[m.id] = m.body
    BY <2>2
  <2> QED BY <2>1, <2>2, <2>3, <2>4
<1>2. CASE rows' = rows /\ broken' = TRUE
  BY <1>2
<1> QED BY <1>1, <1>2 DEF UpdateOrNot

LEMMA SayUserType ==
    ASSUME TypeOK, NEW p \in Prompts \cup {Run}, SayUser(p)
    PROVE  /\ rows' \in Seq(Body) /\ Len(rows') = Len(rows) + 1
           /\ hist' \in Seq(Copies(Len(rows')))
           /\ msg \in [id : 0..Len(rows'), body : Body]
           /\ \A i \in DOMAIN rows : rows'[i] = rows[i]
           /\ rows'[Len(rows) + 1] = UserMessage(p)
           /\ Len(hist') = Len(hist) + 1
           /\ \A i \in DOMAIN hist : hist'[i] = hist[i]
           /\ hist'[Len(hist) + 1] = [id |-> Len(rows) + 1, body |-> UserMessage(p)]
<1>1. rows \in Seq(Body) /\ UserMessage(p) \in Body
  BY Bodies DEF TypeOK
<1>2. /\ rows' \in Seq(Body) /\ Len(rows') = Len(rows) + 1
      /\ \A i \in DOMAIN rows : rows'[i] = rows[i]
      /\ rows'[Len(rows) + 1] = UserMessage(p)
  BY <1>1, Created DEF SayUser
<1>3. hist \in Seq(Copies(Len(rows')))
  <2>1. hist \in Seq(Copies(Len(rows)))
    BY DEF TypeOK, Copies
  <2> QED BY <1>1, <1>2, <2>1, StillCopies
<1>4. [id |-> Len(rows) + 1, body |-> UserMessage(p)] \in Copies(Len(rows'))
  BY <1>1, <1>2 DEF Copies
<1>5. hist' = Append(hist, [id |-> Len(rows) + 1, body |-> UserMessage(p)])
  BY DEF SayUser, NewId
<1>6. msg \in [id : 0..Len(rows'), body : Body]
  BY <1>2 DEF TypeOK
<1> QED BY <1>2, <1>3, <1>4, <1>5, <1>6

LEMMA TypeTurn ==
    ASSUME TurnInv,
           \/ List \/ CreateUser \/ StartFails \/ LoopCancelled \/ LoopContinues
           \/ CreateAssistant \/ CreateAssistantFails
           \/ EventDelta \/ EventComplete \/ Track \/ StreamInterrupted \/ StreamFails
           \/ Interrupted \/ Failed \/ StreamCloses
    PROVE  TypeOK'
<1>0. TypeOK /\ rows \in Seq(Body) /\ broken \in BOOLEAN
  BY DEF TurnInv, TypeOK
<1>1. CASE List
  BY <1>0, <1>1, VisibleCopies DEF TypeOK, List, Copies
<1>2. CASE CreateUser
  BY <1>0, <1>2, SayUserType DEF TypeOK, CreateUser, Copies
<1>3. CASE StartFails
  BY <1>0, <1>3, ReturnFrom DEF StartFails, ReturnBroken, ReturnDone
<1>4. CASE LoopCancelled
  BY <1>0, <1>4, ReturnFrom DEF LoopCancelled, ReturnDone
<1>5. CASE LoopContinues
  BY <1>0, <1>5 DEF TypeOK, LoopContinues
<1>6. CASE CreateAssistant
  <2>1. rows' \in Seq(Body) /\ Len(rows') = Len(rows) + 1
    BY <1>0, <1>6, Bodies, Created DEF CreateAssistant
  <2>2. hist' \in Seq(Copies(Len(rows')))
    <3>1. hist' = hist /\ hist \in Seq(Copies(Len(rows)))
      BY <1>0, <1>6 DEF TypeOK, Copies, CreateAssistant
    <3> QED BY <1>0, <2>1, <3>1, StillCopies
  <2>3. msg' \in [id : 0..Len(rows'), body : Body]
    BY <1>0, <1>6, <2>1, Bodies DEF CreateAssistant, NewId
  <2> QED BY <1>0, <1>6, <2>1, <2>2, <2>3 DEF TypeOK, CreateAssistant, Copies
<1>7. CASE CreateAssistantFails
  BY <1>0, <1>7, ReturnFrom DEF CreateAssistantFails, ReturnBroken
<1>8. CASE EventDelta \/ EventComplete
  <2>1. msg' \in [id : 0..Len(rows), body : Body] /\ Update(msg')
    BY <1>0, <1>8, DeltaBody DEF EventDelta, EventComplete
  <2>2. rows' \in Seq(Body) /\ Len(rows') = Len(rows)
    BY <1>0, <2>1, Updated
  <2>3. toolTurns' \in 0..MaxToolTurns
    <3>1. CASE EventDelta
      BY <1>0, <3>1 DEF TypeOK, EventDelta
    <3>2. CASE EventComplete
      <4>1. msg'.body.finish = "tool_use" => toolTurns < MaxToolTurns
        BY <1>0, <3>2, DeltaBody DEF EventComplete, EndReasons
      <4> QED BY <1>0, <3>2, <4>1, BoundAssumption DEF TypeOK, EventComplete
    <3> QED BY <1>8, <3>1, <3>2
  <2> QED BY <1>0, <1>8, <2>1, <2>2, <2>3 DEF TypeOK, EventDelta, EventComplete
<1>9. CASE Track
  BY <1>0, <1>9 DEF TypeOK, Track
<1>10. CASE StreamInterrupted \/ StreamFails
  <2>1. msg' \in [id : 0..Len(rows), body : Body]
    BY <1>0, <1>10, DeltaBody DEF StreamInterrupted, StreamFails, TypeOK
  <2> QED BY <1>0, <1>10, <2>1 DEF TypeOK, StreamInterrupted, StreamFails
<1>11. CASE Interrupted \/ Failed
  <2>1. /\ Finished(msg, "canceled") \in [id : 0..Len(rows), body : Body]
        /\ Finished(msg, "error") \in [id : 0..Len(rows), body : Body]
    BY <1>0, FinishedMessage DEF TypeOK, Finishes
  <2>2. rows' \in Seq(Body) /\ Len(rows') = Len(rows) /\ broken' \in BOOLEAN
    BY <1>0, <1>11, <2>1, UpdatedOrNot DEF Interrupted, Failed
  <2> QED BY <1>0, <1>11, <2>2, ReturnFrom DEF Interrupted, Failed
<1>12. CASE StreamCloses
  <2>1. msg.body.calls \in Seq(ToolIds)
    BY <1>0, ListAssumption DEF TypeOK, Body
  <2>2. slots' \in Seq(ResultKinds)
    <3> DEFINE n == Len(msg.body.calls)
    <3>0. n \in Nat /\ DOMAIN msg.body.calls = 1..n
      BY <2>1
    <3>1. slots' = [i \in 1..n |-> ""]
      BY <1>12, <3>0 DEF StreamCloses, ToolCalls
    <3>2. slots' \in [1..n -> ResultKinds]
      BY <3>1 DEF ResultKinds
    <3> QED BY <3>0, <3>2, FunctionIsSeq
  <2>3. next' \in 1..(Len(slots') + 1)
    <3>1. next' = 1
      BY <1>12 DEF StreamCloses
    <3> QED BY <2>2, <3>1
  <2> QED BY <1>0, <1>12, <2>2, <2>3 DEF TypeOK, StreamCloses
<1> QED BY <1>1, <1>2, <1>3, <1>4, <1>5, <1>6, <1>7, <1>8, <1>9, <1>10, <1>11, <1>12

LEMMA TypeTools ==
    ASSUME TurnInv,
           \/ ToolsCancelled \/ ToolNotFound \/ ToolStarts \/ ToolsDone \/ ToolStep
           \/ CreateTool \/ CreateToolFails
           \/ ContinueWithTools \/ EndTurn \/ Answer \/ NoReason
    PROVE  TypeOK'
<1>0. TypeOK /\ rows \in Seq(Body) /\ broken \in BOOLEAN /\ slots \in Seq(ResultKinds)
  BY DEF TurnInv, TypeOK
<1>1. CASE ToolsCancelled
  <2>1. msg' \in [id : 0..Len(rows), body : Body] /\ UpdateOrNot(msg')
    BY <1>0, <1>1, FinishedMessage DEF ToolsCancelled, TypeOK, Finishes
  <2>2. rows' \in Seq(Body) /\ Len(rows') = Len(rows) /\ broken' \in BOOLEAN
    BY <1>0, <2>1, UpdatedOrNot
  <2>3. slots' \in Seq(ResultKinds) /\ Len(slots') = Len(slots)
    <3>1. slots' = [j \in 1..Len(slots) |-> IF Unanswered(j) THEN "canceled" ELSE slots[j]]
      BY <1>0, <1>1 DEF ToolsCancelled
    <3>2. Len(slots) \in Nat /\ \A j \in 1..Len(slots) : slots[j] \in ResultKinds
      BY <1>0
    <3>3. "canceled" \in ResultKinds
      BY DEF ResultKinds
    <3>4. slots' \in [1..Len(slots) -> ResultKinds]
      BY <3>1, <3>2, <3>3
    <3> QED BY <3>1, <3>2, <3>4, FunctionIsSeq
  <2> QED BY <1>0, <1>1, <2>1, <2>2, <2>3 DEF TypeOK, ToolsCancelled, LeavesTools
<1>2. ASSUME NEW k \in ResultKinds, Fill(k), next <= Len(slots)
      PROVE  /\ slots' \in Seq(ResultKinds) /\ Len(slots') = Len(slots)
             /\ next' \in 1..(Len(slots') + 1)
  BY <1>0, <1>2 DEF Fill, TypeOK
<1>3. CASE ToolNotFound
  <2>1. Fill("notfound") /\ next <= Len(slots) /\ "notfound" \in ResultKinds
    BY <1>3 DEF ToolNotFound, ResultKinds
  <2> QED BY <1>0, <1>2, <1>3, <2>1 DEF TypeOK, ToolNotFound
<1>4. CASE ToolStep
  <2> PICK k \in {"ok", "failed"} : ToolReturns(k)
    BY <1>4 DEF ToolStep
  <2>1. Fill(k) /\ next <= Len(slots) /\ k \in ResultKinds
    BY DEF ToolReturns, ResultKinds, TurnInv, Filled
  <2> QED BY <1>0, <1>2, <2>1 DEF TypeOK, ToolReturns
<1>5. CASE ToolStarts \/ ToolsDone
  BY <1>0, <1>5 DEF TypeOK, ToolStarts, ToolsDone
<1>6. CASE CreateTool
  <2>1. rows' \in Seq(Body) /\ Len(rows') = Len(rows) + 1
    BY <1>0, <1>6, ResultsBody, Created DEF CreateTool, TurnInv, Filled, Tooling
  <2>2. hist' \in Seq(Copies(Len(rows')))
    <3>1. hist' = hist /\ hist \in Seq(Copies(Len(rows)))
      BY <1>0, <1>6 DEF TypeOK, Copies, CreateTool
    <3> QED BY <1>0, <2>1, <3>1, StillCopies
  <2>3. msg' \in [id : 0..Len(rows'), body : Body]
    BY <1>0, <1>6, <2>1 DEF CreateTool, TypeOK
  <2> QED BY <1>0, <1>6, <2>1, <2>2, <2>3 DEF TypeOK, CreateTool, Copies
<1>7. CASE CreateToolFails \/ Answer
  BY <1>0, <1>7, ReturnFrom DEF CreateToolFails, Answer, ReturnBroken
<1>8. CASE ContinueWithTools
  <2>1. pc = "after" /\ slots # <<>> /\ hist' = hist \o TurnMessages /\ rows' = rows
    BY <1>8 DEF ContinueWithTools, AskedForTools
  <2>2. rows # <<>> /\ Results \in Body /\ msg \in Copies(Len(rows))
    BY <1>0, <2>1, ResultsBody
       DEF TurnInv, CurrentRow, ResultsStored, TurnStored, Turn, TypeOK, Copies
  <2>3. [id |-> Len(rows), body |-> Results] \in Copies(Len(rows))
    BY <1>0, <2>2 DEF Copies
  <2>4. TurnMessages \in Seq(Copies(Len(rows)))
    BY <2>2, <2>3 DEF TurnMessages
  <2>5. hist' \in Seq(Copies(Len(rows')))
    BY <1>0, <2>1, <2>4 DEF TypeOK, Copies
  <2> QED BY <1>0, <1>8, <2>1, <2>5 DEF TypeOK, ContinueWithTools, TurnOver, Copies
<1>9. CASE EndTurn
  BY <1>0, <1>9 DEF TypeOK, EndTurn, TurnOver
<1>10. CASE NoReason
  <2>1. Finished(msg, "canceled") \in [id : 0..Len(rows), body : Body]
    BY <1>0, FinishedMessage DEF TypeOK, Finishes
  <2>2. rows' \in Seq(Body) /\ Len(rows') = Len(rows) /\ broken' \in BOOLEAN
    BY <1>0, <1>10, <2>1, UpdatedOrNot DEF NoReason
  <2> QED BY <1>0, <1>10, <2>2, ReturnFrom DEF NoReason
<1> QED BY <1>1, <1>3, <1>4, <1>5, <1>6, <1>7, <1>8, <1>9, <1>10

LEMMA TypeAround ==
    ASSUME TurnInv,
           \/ DrainTool \/ DrainEnd \/ DrainNothing \/ Record \/ RecordFails \/ RecordDone
           \/ Environment \/ UNCHANGED vars
    PROVE  TypeOK'
<1>0. TypeOK /\ rows \in Seq(Body)
  BY DEF TurnInv, TypeOK
<1>1. CASE DrainTool \/ DrainEnd
  <2>1. queue' = <<>> /\ batch' = queue
    BY <1>1 DEF DrainTool, DrainEnd, Drain
  <2>2. queue' \in Seq(Prompts)
    BY <2>1
  <2> QED BY <1>0, <1>1, <2>1, <2>2 DEF TypeOK, DrainTool, DrainEnd, Drain
<1>2. CASE DrainNothing \/ RecordFails
  BY <1>0, <1>2, ReturnFrom DEF TypeOK, DrainNothing, RecordFails, ReturnBroken, ReturnDone
<1>3. CASE Record
  <2>1. Head(batch) \in Prompts /\ batch' \in Seq(Prompts)
    BY <1>0, <1>3 DEF TypeOK, Record
  <2>2. CASE Skips
    BY <1>0, <1>3, <2>1, <2>2 DEF TypeOK, Record
  <2>3. CASE ~Skips
    <3>1. SayUser(Head(batch))
      BY <1>3, <2>3 DEF Record
    <3> QED BY <1>0, <1>3, <2>1, <3>1, SayUserType DEF TypeOK, Record, Copies
  <2> QED BY <2>2, <2>3
<1>4. CASE RecordDone
  BY <1>0, <1>4, Bodies DEF TypeOK, RecordDone, NoMessage
<1>5. CASE \E p \in Prompts : Enqueue(p)
  BY <1>0, <1>5 DEF TypeOK, Enqueue
<1>6. CASE CancelSession
  <2>1. cancelled' \in BOOLEAN /\ registered' \in BOOLEAN
    <3>1. cancelled' = (cancelled \/ registered) /\ registered' = FALSE
      BY <1>6 DEF CancelSession
    <3> QED BY <3>1
  <2>2. queue' = <<>> /\ queue' \in Seq(Prompts)
    BY <1>6 DEF CancelSession
  <2> QED BY <1>0, <1>6, <2>1, <2>2 DEF TypeOK, CancelSession
<1>7. CASE CallerCancel \/ UNCHANGED vars
  BY <1>0, <1>7 DEF TypeOK, CallerCancel, vars
<1> QED BY <1>1, <1>2, <1>3, <1>4, <1>5, <1>6, <1>7 DEF Environment

\* What TurnInv says beyond the types.
Shape == NoTurnYet /\ CurrentRow /\ InStep /\ Filled /\ ResultsStored

USE DEF Turn, Streaming, Stopping, Tooling, Before, TurnStored

LEMMA ShapeOutside ==
    ASSUME pc' \in {"returned", "drainTool", "drainEnd", "recordTool", "recordEnd"}
    PROVE  Shape'
BY DEF Shape, NoTurnYet, CurrentRow, InStep, Filled, ResultsStored

LEMMA ShapeBefore ==
    ASSUME pc' \in Before, msg' = NoMessage
    PROVE  Shape'
BY DEF Shape, NoTurnYet, CurrentRow, InStep, Filled, ResultsStored, NoMessage

LEMMA ShapeSame ==
    ASSUME Shape, UNCHANGED <<pc, rows, hist, msg, slots, next, broken>>
    PROVE  Shape'
<1>1. Results' = Results
  BY DEF Results, ToolMessage, ToolCalls
<1> QED
  BY <1>1 DEF Shape, NoTurnYet, CurrentRow, InStep, Filled, ResultsStored

\* While the message's row is the last.
LEMMA ShapeStream ==
    ASSUME pc' \in Streaming \cup Stopping, msg'.id \in DOMAIN rows', msg'.id = Len(rows'),
           \A i \in DOMAIN hist' : hist'[i].id < msg'.id,
           msg'.body.role = "assistant", rows'[msg'.id].role = "assistant",
           pc' \in Streaming => rows'[msg'.id] = msg'.body
    PROVE  Shape'
BY DEF Shape, NoTurnYet, CurrentRow, InStep, Filled, ResultsStored

LEMMA HistoryIds ==
    ASSUME TypeOK
    PROVE  \A i \in DOMAIN hist : hist[i].id \in 1..Len(rows) /\ hist[i].body \in Body
<1>1. hist \in Seq([id : 1..Len(rows), body : Body])
  BY DEF TypeOK
<1>2. \A i \in DOMAIN hist : hist[i] \in [id : 1..Len(rows), body : Body]
  BY <1>1, LenProperties
<1> QED BY <1>2

LEMMA StreamShape ==
    ASSUME TurnInv,
           CreateAssistant \/ EventDelta \/ EventComplete \/ Track \/ StreamInterrupted \/ StreamFails
    PROVE  Shape'
<1>0. TypeOK /\ rows \in Seq(Body) /\ Len(rows) \in Nat
  BY DEF TurnInv, TypeOK
<1>1. CASE CreateAssistant
  <2>1. /\ rows' \in Seq(Body) /\ Len(rows') = Len(rows) + 1
        /\ rows'[Len(rows) + 1] = Blank
    BY <1>0, <1>1, Bodies, Created DEF CreateAssistant
  <2>2. msg' = [id |-> Len(rows) + 1, body |-> Blank] /\ pc' = "stream" /\ hist' = hist
    BY <1>1 DEF CreateAssistant, NewId
  <2>3. \A i \in DOMAIN hist' : hist'[i].id < Len(rows) + 1
    BY <1>0, <2>2, HistoryIds
  <2>4. Len(rows) + 1 \in DOMAIN rows'
    BY <1>0, <2>1
  <2>5. msg'.id = Len(rows) + 1 /\ msg'.body = Blank /\ Blank.role = "assistant"
    BY <2>2 DEF Blank
  <2> QED BY <2>1, <2>2, <2>3, <2>4, <2>5, ShapeStream
<1>2. ASSUME pc \in Streaming
      PROVE  /\ msg.id \in DOMAIN rows /\ msg.id = Len(rows)
             /\ \A i \in DOMAIN hist : hist[i].id < msg.id
             /\ msg.body.role = "assistant" /\ rows[msg.id].role = "assistant"
             /\ rows[msg.id] = msg.body
  BY <1>2 DEF TurnInv, CurrentRow, InStep
<1>3. CASE EventDelta \/ EventComplete
  <2>1. /\ msg' \in Deltas \cup Completions /\ Update(msg') /\ hist' = hist
        /\ pc \in Streaming /\ pc' \in Streaming
    BY <1>3 DEF EventDelta, EventComplete
  <2>2. msg'.body \in Body /\ msg'.id = msg.id /\ msg'.body.role = msg.body.role
    BY <1>0, <2>1, DeltaBody
  <2>3. /\ rows' \in Seq(Body) /\ Len(rows') = Len(rows)
        /\ \A i \in DOMAIN rows : rows'[i] = IF i = msg'.id THEN msg'.body ELSE rows[i]
    BY <1>0, <2>1, <2>2, Updated
  <2>4. DOMAIN rows' = DOMAIN rows
    BY <1>0, <2>3
  <2> QED BY <1>2, <2>1, <2>2, <2>3, <2>4, ShapeStream
<1>4. CASE Track
  BY <1>2, <1>4, ShapeStream DEF Track
<1>5. CASE StreamInterrupted \/ StreamFails
  <2>1. /\ msg' \in Deltas \cup Completions /\ hist' = hist /\ rows' = rows
        /\ pc \in Streaming /\ pc' \in Stopping
    BY <1>5 DEF StreamInterrupted, StreamFails, Deltas
  <2>2. msg'.id = msg.id /\ msg'.body.role = msg.body.role
    BY <1>0, <2>1, DeltaBody
  <2> QED BY <1>2, <2>1, <2>2, ShapeStream
<1> QED BY <1>1, <1>3, <1>4, <1>5

LEMMA ToolsShape ==
    ASSUME TurnInv, TypeOK',
           StreamCloses \/ ToolsCancelled \/ ToolNotFound \/ ToolStarts \/ ToolStep \/ ToolsDone
    PROVE  Shape'
<1>0. TypeOK /\ rows \in Seq(Body) /\ Len(rows) \in Nat /\ broken \in BOOLEAN
      /\ slots \in Seq(ResultKinds) /\ Len(slots) \in Nat /\ next \in 1..(Len(slots) + 1)
  BY DEF TurnInv, TypeOK
<1>1. ASSUME pc \in {"stream", "tools", "toolWait"}
      PROVE  /\ msg.id \in DOMAIN rows /\ msg.id = Len(rows)
             /\ \A i \in DOMAIN hist : hist[i].id < msg.id
             /\ msg.body.role = "assistant" /\ rows[msg.id].role = "assistant"
             /\ rows[msg.id] = msg.body
             /\ pc # "stream" => /\ DOMAIN slots = DOMAIN msg.body.calls
                                 /\ \A j \in 1..(next - 1) : slots[j] # ""
  BY <1>1 DEF TurnInv, CurrentRow, InStep, Filled
<1>2. ASSUME pc \in {"stream", "tools", "toolWait"}, pc' \in {"tools", "toolWait"},
             UNCHANGED <<rows, hist, msg>>, DOMAIN slots' = DOMAIN msg.body.calls,
             \A j \in 1..(next' - 1) : slots'[j] # "",
             pc' = "toolWait" => next' <= Len(slots')
      PROVE  Shape'
  BY <1>1, <1>2 DEF Shape, NoTurnYet, CurrentRow, InStep, Filled, ResultsStored
<1>3. CASE StreamCloses
  <2>1. /\ pc = "stream" /\ pc' = "tools" /\ UNCHANGED <<rows, hist, msg>> /\ next' = 1
        /\ slots' = [i \in DOMAIN ToolCalls(msg) |-> ""]
    BY <1>3 DEF StreamCloses
  <2>2. DOMAIN slots' = DOMAIN msg.body.calls
    BY <2>1 DEF ToolCalls
  <2>3. \A j \in 1..(next' - 1) : slots'[j] # ""
    <3>1. next' = 1
      BY <2>1
    <3>2. \A j \in 1..(next' - 1) : FALSE
      BY <3>1
    <3> QED BY <3>2
  <2> QED BY <1>2, <2>1, <2>2, <2>3
<1>4. ASSUME NEW k \in ResultKinds, k # "", Fill(k), next <= Len(slots), pc \in {"tools", "toolWait"}
      PROVE  /\ DOMAIN slots' = DOMAIN msg.body.calls
             /\ \A j \in 1..(next' - 1) : slots'[j] # ""
  <2>1. next' = next + 1 /\ slots' = [slots EXCEPT ![next] = k]
    BY <1>4 DEF Fill
  <2>2. next \in 1..Len(slots) /\ DOMAIN slots = 1..Len(slots)
    <3>1. slots \in Seq(ResultKinds) /\ next \in 1..(Len(slots) + 1) /\ next <= Len(slots)
      BY <1>0, <1>4
    <3> QED BY <3>1
  <2>3. DOMAIN slots' = DOMAIN slots /\ slots'[next] = k
        /\ \A j \in DOMAIN slots : j # next => slots'[j] = slots[j]
    BY <2>1, <2>2
  <2>4. \A j \in 1..(next - 1) : j \in DOMAIN slots /\ j # next
    BY <1>0, <2>2
  <2>6. \A j \in 1..(next - 1) : slots[j] # ""
    BY <1>1, <1>4
  <2>5. 1..(next' - 1) = (1..(next - 1)) \cup {next}
    BY <2>1, <2>2
  <2> QED BY <1>1, <1>4, <2>3, <2>4, <2>5, <2>6
<1>5. CASE ToolNotFound
  BY <1>2, <1>4, <1>5 DEF ToolNotFound, ResultKinds
<1>6. CASE ToolStep
  <2> PICK k \in {"ok", "failed"} : ToolReturns(k)
    BY <1>6 DEF ToolStep
  <2>1. next <= Len(slots)
    BY DEF ToolReturns, TurnInv, Filled
  <2> QED BY <1>2, <1>4, <2>1 DEF ToolReturns, ResultKinds
<1>7. CASE ToolStarts
  BY <1>1, <1>2, <1>7 DEF ToolStarts
<1>8. CASE ToolsDone
  <2>1. pc = "tools" /\ UNCHANGED <<rows, hist, msg, slots, next, broken>> /\ next > Len(slots)
        /\ pc' = (IF slots = <<>> THEN "after" ELSE "createTool")
    BY <1>8 DEF ToolsDone
  <2>2. \A j \in DOMAIN slots : slots[j] # ""
    <3>1. DOMAIN slots \subseteq 1..(next - 1)
      BY <1>0, <2>1
    <3> QED BY <1>1, <2>1, <3>1
  <2> QED BY <1>1, <2>1, <2>2 DEF Shape, NoTurnYet, CurrentRow, InStep, Filled, ResultsStored
<1>9. CASE ToolsCancelled
  <2>1. /\ pc \in {"tools", "toolWait"} /\ pc' = "createTool" /\ UNCHANGED <<hist, next>>
        /\ next <= Len(slots) /\ msg' = Finished(msg, "canceled") /\ UpdateOrNot(msg')
        /\ slots' = [j \in DOMAIN slots |-> IF Unanswered(j) THEN "canceled" ELSE slots[j]]
    BY <1>9 DEF ToolsCancelled, LeavesTools
  <2>2. /\ msg'.body \in Body /\ msg'.id = msg.id /\ msg'.body.role = msg.body.role
        /\ msg'.body.calls = msg.body.calls /\ msg'.body.finish = "canceled"
    BY <1>0, <2>1, FinishedMessage DEF TypeOK, Finishes
  <2>3. /\ rows' \in Seq(Body) /\ Len(rows') = Len(rows)
        /\ rows'[msg.id] = msg'.body \/ (rows' = rows /\ broken' = TRUE)
    BY <1>0, <1>1, <2>1, <2>2, UpdatedOrNot
  <2>4. DOMAIN rows' = DOMAIN rows
    BY <1>0, <2>3
  <2>5. slots' # <<>> /\ DOMAIN slots' = DOMAIN slots
    BY <1>0, <2>1
  <2>6. \A j \in DOMAIN slots' : slots'[j] # ""
    <3>1. \A j \in DOMAIN slots : ~Unanswered(j) => j \in 1..(next - 1)
      BY <1>0 DEF Unanswered
    <3>2. \A j \in DOMAIN slots : ~Unanswered(j) => slots[j] # ""
      BY <1>1, <2>1, <3>1
    <3> QED BY <2>1, <3>2
  <2>7. /\ rows'[msg'.id].role = "assistant" /\ rows'[msg'.id].calls = msg'.body.calls
        /\ rows'[msg'.id] = msg'.body \/ (broken' /\ msg'.body.finish = "canceled")
    BY <1>1, <2>1, <2>2, <2>3
  <2>8. NoTurnYet' /\ CurrentRow' /\ ResultsStored'
    BY <1>1, <2>1, <2>2, <2>3, <2>4 DEF NoTurnYet, CurrentRow, ResultsStored
  <2>9. InStep' /\ Filled'
    BY <1>1, <2>1, <2>2, <2>5, <2>6, <2>7 DEF InStep, Filled
  <2> QED BY <2>8, <2>9 DEF Shape
<1> QED BY <1>3, <1>5, <1>6, <1>7, <1>8, <1>9

LEMMA CreateToolShape ==
    ASSUME TurnInv, CreateTool
    PROVE  Shape'
<1>0. TypeOK /\ rows \in Seq(Body) /\ Len(rows) \in Nat
  BY DEF TurnInv, TypeOK
<1>1. /\ msg.id \in DOMAIN rows /\ msg.id = Len(rows) /\ slots # <<>>
      /\ \A i \in DOMAIN hist : hist[i].id < msg.id
      /\ msg.body.role = "assistant" /\ rows[msg.id].role = "assistant"
      /\ rows[msg.id].calls = msg.body.calls
      /\ rows[msg.id] = msg.body \/ (broken /\ msg.body.finish = "canceled")
      /\ DOMAIN slots = DOMAIN msg.body.calls
  BY DEF CreateTool, TurnInv, CurrentRow, InStep, Filled
<1>2. /\ rows' \in Seq(Body) /\ Len(rows') = Len(rows) + 1
      /\ \A i \in DOMAIN rows : rows'[i] = rows[i]
      /\ rows'[Len(rows) + 1] = Results
  BY <1>0, <1>1, ResultsBody, Created DEF CreateTool
<1>3. pc' = "after" /\ UNCHANGED <<hist, msg, slots, next, broken>>
  BY DEF CreateTool
<1>4. Results' = Results
  BY <1>3 DEF Results, ToolMessage, ToolCalls
<1>5. msg.id \in DOMAIN rows' /\ rows'[msg.id] = rows[msg.id] /\ msg.id = Len(rows') - 1
  BY <1>0, <1>1, <1>2
<1>6. NoTurnYet' /\ CurrentRow' /\ Filled'
  BY <1>1, <1>3, <1>5 DEF NoTurnYet, CurrentRow, Filled
<1>7. InStep' /\ ResultsStored'
  BY <1>1, <1>2, <1>3, <1>4, <1>5 DEF InStep, ResultsStored
<1> QED BY <1>6, <1>7 DEF Shape

LEMMA TurnNext ==
    ASSUME TurnInv, [Next]_vars
    PROVE  TurnInv'
<1>0. Shape /\ TypeOK
  BY DEF TurnInv, Shape
<1>1. TypeOK'
  BY TypeTurn, TypeTools, TypeAround DEF Next, RunStep
<1>2. ASSUME Shape'
      PROVE  TurnInv'
  BY <1>1, <1>2 DEF TurnInv, Shape
<1>3. CASE List \/ CreateUser \/ LoopContinues
  <2>1. pc \in Before /\ pc' \in Before /\ msg' = msg
    BY <1>3 DEF List, CreateUser, LoopContinues
  <2> QED BY <1>0, <1>2, <2>1, ShapeBefore DEF Shape, NoTurnYet
<1>4. CASE RecordDone
  BY <1>2, <1>4, ShapeBefore DEF RecordDone
<1>5. CASE \/ StartFails \/ LoopCancelled \/ CreateAssistantFails \/ Interrupted \/ Failed
           \/ CreateToolFails \/ Answer \/ NoReason \/ DrainNothing \/ RecordFails
  <2>1. pc' = "returned"
    BY <1>5 DEF StartFails, LoopCancelled, CreateAssistantFails, Interrupted, Failed, CreateToolFails,
                Answer, NoReason, DrainNothing, RecordFails, ReturnBroken, ReturnDone, Return
  <2> QED BY <1>2, <2>1, ShapeOutside
<1>6. CASE ContinueWithTools \/ EndTurn \/ DrainTool \/ DrainEnd \/ Record
  <2>1. pc' \in {"drainTool", "drainEnd", "recordTool", "recordEnd"}
    BY <1>6 DEF ContinueWithTools, EndTurn, DrainTool, DrainEnd, Drain, Record
  <2> QED BY <1>2, <2>1, ShapeOutside
<1>7. CASE \/ CreateAssistant \/ EventDelta \/ EventComplete \/ Track \/ StreamInterrupted
           \/ StreamFails
  BY <1>2, <1>7, StreamShape
<1>8. CASE StreamCloses \/ ToolsCancelled \/ ToolNotFound \/ ToolStarts \/ ToolStep \/ ToolsDone
  BY <1>1, <1>2, <1>8, ToolsShape
<1>9. CASE CreateTool
  BY <1>2, <1>9, CreateToolShape
<1>10. CASE Environment \/ UNCHANGED vars
  <2>1. UNCHANGED <<pc, rows, hist, msg, slots, next, broken>>
    BY <1>10 DEF Environment, Enqueue, CancelSession, CallerCancel, vars
  <2> QED BY <1>0, <1>2, <2>1, ShapeSame
<1> QED
  BY <1>3, <1>4, <1>5, <1>6, <1>7, <1>8, <1>9, <1>10 DEF Next, RunStep

LEMMA TurnHolds == Spec => []TurnInv
BY InitTurn, TurnNext, PTL DEF Spec

\* The types of the run's state, of the rows it writes and of the copies it
\* keeps: whatever fails, a message in memory is one the store could hold, and
\* the index of the tool loop stays within its results.
THEOREM RunTyped == Spec => []TypeOK
BY TurnHolds, PTL DEF TurnInv

-----------------------------------------------------------------------------
(* What a step does to the rows.                                           *)

\* A row that is no tool message is added.
Adds(b) ==
    /\ rows' \in Seq(Body) /\ Len(rows') = Len(rows) + 1
    /\ \A i \in DOMAIN rows : rows'[i] = rows[i]
    /\ rows'[Len(rows) + 1] = b

\* The row of the turn's message is written again, its calls only while it is
\* the last one.
Rewrites ==
    /\ pc \in Turn /\ rows' \in Seq(Body) /\ Len(rows') = Len(rows)
    /\ \A i \in DOMAIN rows : i # msg.id => rows'[i] = rows[i]
    /\ rows'[msg.id].role = "assistant"
    /\ msg.id = Len(rows) \/ rows'[msg.id].calls = rows[msg.id].calls

LEMMA RowSteps ==
    ASSUME TurnInv, [Next]_vars
    PROVE  \/ rows' = rows
           \/ (CreateUser \/ Record) /\ \E p \in Prompts \cup {Run} : Adds(UserMessage(p))
           \/ Adds(Blank) /\ CreateAssistant
           \/ Adds(Results) /\ CreateTool
           \/ Rewrites
<1>0. TypeOK /\ rows \in Seq(Body) /\ broken \in BOOLEAN
  BY DEF TurnInv, TypeOK
<1>1. ASSUME NEW p \in Prompts \cup {Run}, SayUser(p) PROVE Adds(UserMessage(p))
  BY <1>0, <1>1, SayUserType DEF Adds
<1>2. CASE CreateUser
  BY <1>1, <1>2 DEF CreateUser
<1>3. CASE Record
  <2>1. Head(batch) \in Prompts
    BY <1>0, <1>3 DEF TypeOK, Record
  <2> QED BY <1>1, <1>3, <2>1 DEF Record
<1>4. CASE CreateAssistant
  BY <1>0, <1>4, Bodies, Created DEF CreateAssistant, Adds
<1>5. CASE CreateTool
  <2>1. Results \in Body
    BY <1>0, <1>5, ResultsBody DEF CreateTool, TurnInv, Filled
  <2> QED BY <1>0, <1>5, <2>1, Created DEF CreateTool, Adds
<1>6. CASE EventDelta \/ EventComplete
  <2>1. msg' \in Deltas \cup Completions /\ Update(msg') /\ pc \in Streaming
    BY <1>6 DEF EventDelta, EventComplete
  <2>2. /\ msg.id \in DOMAIN rows /\ msg.id = Len(rows) /\ msg.body.role = "assistant"
    BY <2>1 DEF TurnInv, CurrentRow, InStep
  <2>3. msg'.body \in Body /\ msg'.id = msg.id /\ msg'.body.role = msg.body.role
    BY <1>0, <2>1, DeltaBody
  <2>4. /\ rows' \in Seq(Body) /\ Len(rows') = Len(rows)
        /\ \A i \in DOMAIN rows : rows'[i] = IF i = msg'.id THEN msg'.body ELSE rows[i]
    BY <1>0, <2>1, <2>3, Updated
  <2> QED BY <2>1, <2>2, <2>3, <2>4 DEF Rewrites
<1>7. ASSUME NEW f \in Finishes, pc \in Turn, UpdateOrNot(Finished(msg, f)),
             pc \in {"stream", "track", "interrupted", "failed", "tools", "toolWait", "after"}
      PROVE  Rewrites
  <2>1. /\ msg.id \in DOMAIN rows /\ msg.body.role = "assistant"
        /\ rows[msg.id].role = "assistant"
        /\ msg.id = Len(rows) \/ (pc = "after" /\ rows[msg.id].calls = msg.body.calls)
    BY <1>7 DEF TurnInv, CurrentRow, InStep
  <2> DEFINE m == Finished(msg, f)
  <2>2. /\ m.body \in Body /\ m.id = msg.id /\ m.body.role = msg.body.role
        /\ m.body.calls = msg.body.calls
    BY <1>0, FinishedMessage DEF TypeOK
  <2> HIDE DEF m
  <2>3. UpdateOrNot(m)
    BY <1>7 DEF m
  <2>4. /\ rows' \in Seq(Body) /\ Len(rows') = Len(rows)
        /\ \A i \in DOMAIN rows : i # m.id => rows'[i] = rows[i]
        /\ rows'[m.id] = m.body \/ rows'[m.id] = rows[m.id]
    BY <1>0, <2>1, <2>2, <2>3, UpdatedOrNot
  <2> QED BY <1>7, <2>1, <2>2, <2>4 DEF Rewrites
<1>8. CASE Interrupted \/ Failed \/ ToolsCancelled \/ NoReason
  <2>1. \/ rows' = rows
        \/ \E f \in {"canceled", "error"} : UpdateOrNot(Finished(msg, f))
    BY <1>8 DEF Interrupted, Failed, ToolsCancelled, NoReason
  <2>2. pc \in {"interrupted", "failed", "tools", "toolWait", "after"}
    BY <1>8 DEF Interrupted, Failed, ToolsCancelled, NoReason, LeavesTools, Return
  <2> QED BY <1>7, <2>1, <2>2 DEF Finishes
<1>9. CASE \/ List \/ StartFails \/ LoopCancelled \/ LoopContinues \/ CreateAssistantFails
           \/ Track \/ StreamInterrupted \/ StreamFails \/ StreamCloses
           \/ ToolNotFound \/ ToolStarts \/ ToolsDone \/ ToolStep \/ CreateToolFails
  BY <1>9 DEF List, StartFails, LoopCancelled, LoopContinues, CreateAssistantFails, Track,
              StreamInterrupted, StreamFails, StreamCloses, ToolNotFound, ToolStarts, ToolsDone,
              ToolStep, ToolReturns, CreateToolFails, ReturnBroken, ReturnDone
<1>10. CASE \/ ContinueWithTools \/ EndTurn \/ Answer \/ DrainTool \/ DrainEnd \/ DrainNothing
            \/ RecordFails \/ RecordDone \/ Environment \/ UNCHANGED vars
  BY <1>10 DEF ContinueWithTools, EndTurn, Answer, DrainTool, DrainEnd, Drain, DrainNothing,
               RecordFails, RecordDone, ReturnBroken, ReturnDone, Environment, Enqueue,
               CancelSession, CallerCancel, vars
<1> QED
  BY <1>2, <1>3, <1>4, <1>5, <1>6, <1>8, <1>9, <1>10 DEF Next, RunStep

-----------------------------------------------------------------------------
(* Tool messages.                                                          *)

LEMMA AnswersKept ==
    ASSUME rows \in Seq(Body), NEW i \in DOMAIN rows, AnswersBefore(rows, i),
           rows' \in Seq(Body), rows'[i] = rows[i],
           i > 1 => /\ rows'[i - 1].role = rows[i - 1].role
                    /\ rows'[i - 1].calls = rows[i - 1].calls
    PROVE  AnswersBefore(rows', i)
BY DEF AnswersBefore

\* The results of the tool loop answer the message they follow.
LEMMA ResultsAnswer ==
    ASSUME TurnInv, CreateTool, Adds(Results)
    PROVE  AnswersBefore(rows', Len(rows) + 1)
<1>1. /\ msg.id \in DOMAIN rows /\ msg.id = Len(rows)
      /\ rows[msg.id].role = "assistant" /\ rows[msg.id].calls = msg.body.calls
      /\ DOMAIN slots = DOMAIN msg.body.calls
      /\ \A j \in DOMAIN slots : slots[j] # ""
  BY DEF CreateTool, TurnInv, CurrentRow, InStep, Filled
<1>2. rows \in Seq(Body) /\ msg.body.calls \in Seq(ToolIds)
  BY ListAssumption DEF TurnInv, TypeOK, Body
<1>3. Len(rows) \in Nat /\ Len(rows) > 0
  <2>1. Len(rows) \in Nat /\ DOMAIN rows = 1..Len(rows)
    BY <1>2, LenProperties
  <2>2. msg.id \in 1..Len(rows)
    BY <1>1, <2>1
  <2> QED BY <2>1, <2>2
<1>7. rows'[Len(rows)] = rows[msg.id]
  BY <1>1 DEF Adds
<1> DEFINE rs == [k \in DOMAIN slots |-> [id |-> ToolCalls(msg)[k], kind |-> slots[k]]]
<1>4. rows'[Len(rows) + 1].results = rs
  BY DEF Adds, Results, ToolMessage, Blank
<1>5. DOMAIN rs = DOMAIN slots /\ \A k \in DOMAIN rs : rs[k].kind # ""
  BY <1>1
<1>6. [k \in DOMAIN rs |-> rs[k].id] = msg.body.calls
  <2>1. [k \in DOMAIN rs |-> rs[k].id] = [k \in DOMAIN msg.body.calls |-> msg.body.calls[k]]
    BY <1>1 DEF ToolCalls
  <2>2. [k \in DOMAIN msg.body.calls |-> msg.body.calls[k]] = msg.body.calls
    BY <1>2, SeqAsFunction
  <2> QED BY <2>1, <2>2
<1> HIDE DEF rs
<1> DEFINE n == Len(rows) + 1
<1>8. n > 1 /\ n - 1 = Len(rows)
  BY <1>3
<1>9. rows'[n - 1].role = "assistant" /\ rows'[n - 1].calls = msg.body.calls
  BY <1>1, <1>7, <1>8
<1>10. rows'[n].results = rs
  BY <1>4
<1> HIDE DEF n
<1>11. AnswersBefore(rows', n)
  BY <1>5, <1>6, <1>8, <1>9, <1>10 DEF AnswersBefore
<1> QED BY <1>11 DEF n

LEMMA AnswersNext ==
    ASSUME TurnInv, ToolMessagesComplete, [Next]_vars
    PROVE  ToolMessagesComplete'
<1>0. rows \in Seq(Body) /\ Len(rows) \in Nat /\ DOMAIN rows = 1..Len(rows)
  BY DEF TurnInv, TypeOK
<1>1. CASE rows' = rows
  BY <1>1 DEF ToolMessagesComplete, AnswersBefore
<1>2. ASSUME NEW b, Adds(b), AnswersBefore(rows', Len(rows) + 1)
      PROVE  ToolMessagesComplete'
  <2>1. rows' \in Seq(Body) /\ DOMAIN rows' = 1..(Len(rows) + 1)
        /\ \A i \in DOMAIN rows : rows'[i] = rows[i]
    BY <1>0, <1>2 DEF Adds
  <2>2. ASSUME NEW i \in DOMAIN rows PROVE AnswersBefore(rows', i)
    <3>1. AnswersBefore(rows, i) /\ rows'[i] = rows[i]
      BY <2>1 DEF ToolMessagesComplete
    <3>2. i > 1 => i - 1 \in DOMAIN rows
      BY <1>0
    <3>3. i > 1 => rows'[i - 1] = rows[i - 1]
      BY <2>1, <3>2
    <3> QED BY <1>0, <2>1, <3>1, <3>3, AnswersKept
  <2> QED BY <1>0, <1>2, <2>1, <2>2 DEF ToolMessagesComplete
<1>3. ASSUME NEW p \in Prompts \cup {Run}, Adds(UserMessage(p))
      PROVE  ToolMessagesComplete'
  <2>1. AnswersBefore(rows', Len(rows) + 1)
    BY <1>3 DEF Adds, AnswersBefore, UserMessage, Blank
  <2> QED BY <1>2, <1>3, <2>1
<1>4. CASE Adds(Blank)
  <2>1. AnswersBefore(rows', Len(rows) + 1)
    <3>1. rows'[Len(rows) + 1] = Blank /\ Blank.role = "assistant"
      BY <1>4 DEF Adds, Blank
    <3> QED BY <3>1 DEF AnswersBefore
  <2> QED BY <1>2, <1>4, <2>1
<1>5. CASE Adds(Results) /\ CreateTool
  BY <1>2, <1>5, ResultsAnswer
<1>6. CASE Rewrites
  <2>1. /\ rows' \in Seq(Body) /\ DOMAIN rows' = DOMAIN rows /\ pc \in Turn
        /\ \A i \in DOMAIN rows : i # msg.id => rows'[i] = rows[i]
        /\ rows'[msg.id].role = "assistant"
        /\ msg.id = Len(rows) \/ rows'[msg.id].calls = rows[msg.id].calls
    BY <1>0, <1>6 DEF Rewrites
  <2>2. msg.id \in DOMAIN rows /\ rows[msg.id].role = "assistant"
    BY <2>1 DEF TurnInv, CurrentRow, InStep
  <2>3. AnswersBefore(rows', msg.id)
    BY <2>1 DEF AnswersBefore
  <2>4. ASSUME NEW i \in DOMAIN rows, i # msg.id PROVE AnswersBefore(rows', i)
    <3>1. AnswersBefore(rows, i) /\ rows'[i] = rows[i]
      BY <2>1, <2>4 DEF ToolMessagesComplete
    <3>2. i > 1 => i - 1 \in DOMAIN rows /\ i - 1 # Len(rows)
      BY <1>0
    <3>3. i > 1 => /\ rows'[i - 1].role = rows[i - 1].role
                   /\ rows'[i - 1].calls = rows[i - 1].calls
      BY <2>1, <2>2, <3>2
    <3> QED BY <1>0, <2>1, <3>1, <3>3, AnswersKept
  <2> QED BY <2>1, <2>3, <2>4 DEF ToolMessagesComplete
<1> QED BY <1>1, <1>3, <1>4, <1>5, <1>6, RowSteps

\* In a session whose stored tool messages are complete, those of the run are
\* too: one result per call, in the order of the calls, none blank, and none
\* of it undone by a later update of the message they answer.
THEOREM ToolsAnswered == StoredComplete /\ Spec => []ToolMessagesComplete
<1>1. StoredComplete /\ Init => ToolMessagesComplete
  BY DEF StoredComplete, Init, ToolMessagesComplete
<1> QED BY <1>1, AnswersNext, TurnHolds, PTL DEF Spec

-----------------------------------------------------------------------------
(* The history.                                                            *)

LEMMA HistorySteps ==
    ASSUME [Next]_vars
    PROVE  List \/ CreateUser \/ ContinueWithTools \/ Record \/ hist' = hist
BY DEF Next, RunStep, StartFails, LoopCancelled, LoopContinues, CreateAssistant,
       CreateAssistantFails, EventDelta, EventComplete, Track, StreamInterrupted, StreamFails,
       Interrupted, Failed, StreamCloses, ToolsCancelled, ToolNotFound, ToolStarts, ToolsDone,
       ToolStep, ToolReturns, CreateTool, CreateToolFails, EndTurn, Answer,
       NoReason, DrainTool, DrainEnd, Drain, DrainNothing, RecordFails, RecordDone,
       ReturnBroken, ReturnDone, Return, Environment, Enqueue, CancelSession, CallerCancel, vars

LEMMA HistoryNext ==
    ASSUME TurnInv, HistoryMatchesStore, [Next]_vars
    PROVE  HistoryMatchesStore'
<1>0. /\ TypeOK /\ rows \in Seq(Body) /\ Len(rows) \in Nat /\ DOMAIN rows = 1..Len(rows)
      /\ hist \in Seq(Copies(Len(rows))) /\ Len(hist) \in Nat /\ DOMAIN hist = 1..Len(hist)
      /\ \A i \in DOMAIN hist : hist[i].id \in 1..Len(rows)
  BY HistoryIds DEF TurnInv, TypeOK, Copies
<1>1. summary' = summary
  BY DEF Next, RunStep, List, CreateUser, StartFails, LoopCancelled, LoopContinues, CreateAssistant,
         CreateAssistantFails, EventDelta, EventComplete, Track, StreamInterrupted, StreamFails,
         Interrupted, Failed, StreamCloses, ToolsCancelled, ToolNotFound, ToolStarts, ToolsDone,
         ToolStep, ToolReturns, CreateTool, CreateToolFails, ContinueWithTools, EndTurn, Answer,
         NoReason, DrainTool, DrainEnd, Drain, DrainNothing, Record, RecordFails, RecordDone,
         ReturnBroken, ReturnDone, Return, Environment, Enqueue, CancelSession, CallerCancel, vars
<1>2. CASE hist' = hist
  <2>1. \A i \in DOMAIN hist : rows'[hist[i].id] = rows[hist[i].id]
    <3>1. CASE rows' = rows
      BY <3>1
    <3>2. CASE \E b : Adds(b)
      BY <1>0, <3>2 DEF Adds
    <3>3. CASE Rewrites
      BY <1>0, <3>3 DEF Rewrites, TurnInv, CurrentRow
    <3> QED BY <3>1, <3>2, <3>3, RowSteps
  <2> QED BY <1>1, <1>2, <2>1 DEF HistoryMatchesStore
<1>3. CASE List
  BY <1>0, <1>1, <1>3, VisibleCopies DEF List, HistoryMatchesStore
<1>4. ASSUME NEW p \in Prompts \cup {Run}, SayUser(p)
      PROVE  HistoryMatchesStore'
  <2>1. /\ rows' \in Seq(Body) /\ Len(rows') = Len(rows) + 1
        /\ \A i \in DOMAIN rows : rows'[i] = rows[i]
        /\ rows'[Len(rows) + 1] = UserMessage(p)
        /\ hist' \in Seq(Copies(Len(rows'))) /\ Len(hist') = Len(hist) + 1
        /\ \A i \in DOMAIN hist : hist'[i] = hist[i]
        /\ hist'[Len(hist) + 1] = [id |-> Len(rows) + 1, body |-> UserMessage(p)]
    BY <1>0, <1>4, SayUserType
  <2>2. DOMAIN hist' = 1..(Len(hist) + 1)
    BY <1>0, <2>1
  <2>3. \A i \in DOMAIN hist' : hist'[i].id # summary => hist'[i].body = rows'[hist'[i].id]
    BY <1>0, <2>1, <2>2 DEF HistoryMatchesStore
  <2>4. ASSUME NEW i \in DOMAIN hist', NEW j \in DOMAIN hist', i < j
        PROVE  hist'[i].id < hist'[j].id
    <3>1. i \in DOMAIN hist /\ (j \in DOMAIN hist \/ j = Len(hist) + 1)
      BY <1>0, <2>2, <2>4
    <3>2. CASE j \in DOMAIN hist
      BY <2>1, <2>4, <3>1, <3>2 DEF HistoryMatchesStore
    <3>3. CASE j = Len(hist) + 1
      BY <1>0, <2>1, <3>1, <3>3
    <3> QED BY <3>1, <3>2, <3>3
  <2> QED BY <1>1, <2>3, <2>4 DEF HistoryMatchesStore
<1>5. CASE ContinueWithTools
  <2>1. /\ pc = "after" /\ slots # <<>> /\ hist' = hist \o TurnMessages /\ rows' = rows
        /\ msg.body.finish = "tool_use"
    BY <1>5 DEF ContinueWithTools, AskedForTools, Reason
  <2>2. /\ msg.id \in DOMAIN rows /\ msg.id = Len(rows) - 1 /\ rows[msg.id] = msg.body
        /\ rows[Len(rows)] = Results
        /\ \A i \in DOMAIN hist : hist[i].id < msg.id
    BY <2>1 DEF TurnInv, CurrentRow, InStep, ResultsStored
  <2>3. Len(hist') = Len(hist) + 2 /\ DOMAIN hist' = 1..(Len(hist) + 2)
    BY <1>0, <2>1 DEF TurnMessages
  <2>4. /\ \A i \in DOMAIN hist : hist'[i] = hist[i]
        /\ hist'[Len(hist) + 1] = msg
        /\ hist'[Len(hist) + 2] = [id |-> Len(rows), body |-> Results]
    BY <1>0, <2>1 DEF TurnMessages
  <2>5. \A i \in DOMAIN hist' : hist'[i].id # summary => hist'[i].body = rows'[hist'[i].id]
    BY <1>0, <2>1, <2>2, <2>3, <2>4 DEF HistoryMatchesStore
  <2>6. ASSUME NEW i \in DOMAIN hist', NEW j \in DOMAIN hist', i < j
        PROVE  hist'[i].id < hist'[j].id
    <3>1. \/ i \in DOMAIN hist /\ j \in DOMAIN hist
          \/ i \in DOMAIN hist /\ j = Len(hist) + 1
          \/ i \in DOMAIN hist /\ j = Len(hist) + 2
          \/ i = Len(hist) + 1 /\ j = Len(hist) + 2
      BY <1>0, <2>3, <2>6
    <3>2. CASE i \in DOMAIN hist /\ j \in DOMAIN hist
      BY <2>4, <2>6, <3>2 DEF HistoryMatchesStore
    <3>3. CASE i \in DOMAIN hist /\ j = Len(hist) + 1
      BY <2>2, <2>4, <3>3
    <3>4. CASE i \in DOMAIN hist /\ j = Len(hist) + 2
      BY <1>0, <2>2, <2>4, <3>4
    <3>5. CASE i = Len(hist) + 1 /\ j = Len(hist) + 2
      BY <1>0, <2>2, <2>4, <3>5
    <3> QED BY <3>1, <3>2, <3>3, <3>4, <3>5
  <2> QED BY <1>1, <2>5, <2>6 DEF HistoryMatchesStore
<1>6. CASE CreateUser
  BY <1>4, <1>6 DEF CreateUser
<1>7. CASE Record
  <2>1. Head(batch) \in Prompts
    BY <1>0, <1>7 DEF TypeOK, Record
  <2> QED BY <1>2, <1>4, <1>7, <2>1 DEF Record
<1> QED BY <1>2, <1>3, <1>5, <1>6, <1>7, HistorySteps

\* What the provider is sent is what the store holds, in the store's order,
\* whichever updates failed without notice: a message joins the history only
\* with a finish reason that came from the store's side of the stream.
THEOREM HistoryAgrees == Spec => []HistoryMatchesStore
<1>1. Init => HistoryMatchesStore
  BY DEF Init, HistoryMatchesStore
<1> QED BY <1>1, HistoryNext, TurnHolds, PTL DEF Spec

-----------------------------------------------------------------------------
(* Tool calls in the history.                                              *)

LEMMA BrokenStays ==
    ASSUME [Next]_vars, broken
    PROVE  broken'
BY DEF Next, RunStep, List, CreateUser, StartFails, LoopCancelled, LoopContinues, CreateAssistant,
       CreateAssistantFails, EventDelta, EventComplete, Track, StreamInterrupted, StreamFails,
       Interrupted, Failed, StreamCloses, ToolsCancelled, ToolNotFound, ToolStarts, ToolsDone,
       ToolStep, ToolReturns, CreateTool, CreateToolFails, ContinueWithTools, EndTurn, Answer,
       NoReason, DrainTool, DrainEnd, Drain, DrainNothing, Record, RecordFails, RecordDone,
       ReturnBroken, ReturnDone, UpdateOrNot, Environment, Enqueue, CancelSession, CallerCancel,
       vars

LEMMA ReturnedStays ==
    ASSUME [Next]_vars, pc = "returned"
    PROVE  UNCHANGED vars
BY DEF Next, RunStep, List, CreateUser, StartFails, LoopCancelled, LoopContinues, CreateAssistant,
       CreateAssistantFails, EventDelta, EventComplete, Track, StreamInterrupted, StreamFails,
       Interrupted, Failed, StreamCloses, ToolsCancelled, LeavesTools, ToolNotFound, ToolStarts,
       ToolsDone, ToolStep, ToolReturns, CreateTool, CreateToolFails, ContinueWithTools, EndTurn,
       Answer, NoReason, DrainTool, DrainEnd, Drain, DrainNothing, Record, RecordFails, RecordDone,
       ReturnBroken, ReturnDone, Return, Environment, Enqueue, CancelSession, CallerCancel, vars

LEMMA ListSeesNext ==
    ASSUME ListSees, [Next]_vars
    PROVE  ListSees'
<1>1. CASE pc' # "list"
  BY <1>1 DEF ListSees
<1>2. CASE pc' = "list"
  <2>1. UNCHANGED <<pc, rows, summary>>
    BY <1>2
       DEF Next, RunStep, List, CreateUser, StartFails, LoopCancelled, LoopContinues,
           CreateAssistant, CreateAssistantFails, EventDelta, EventComplete, Track,
           StreamInterrupted, StreamFails, Interrupted, Failed, StreamCloses, ToolsCancelled,
           LeavesTools, ToolNotFound, ToolStarts, ToolsDone, ToolStep, ToolReturns, CreateTool,
           CreateToolFails, ContinueWithTools, EndTurn, Answer, NoReason, DrainTool, DrainEnd,
           Drain, DrainNothing, Record, RecordFails, RecordDone, ReturnBroken, ReturnDone,
           Return, Environment, Enqueue, CancelSession, CallerCancel, vars
  <2> QED BY <2>1 DEF ListSees
<1> QED BY <1>1, <1>2

LEMMA StartStays ==
    ASSUME [Next]_vars, pc \in {"createUser", "returned"}
    PROVE  CreateUser \/ pc' \in {"createUser", "returned"}
<1>1. CASE pc = "returned"
  BY <1>1, ReturnedStays DEF vars
<1>2. CASE pc = "createUser"
  BY <1>2
     DEF Next, RunStep, List, StartFails, LoopCancelled, LoopContinues, CreateAssistant,
         CreateAssistantFails, EventDelta, EventComplete, Track, StreamInterrupted, StreamFails,
         Interrupted, Failed, StreamCloses, ToolsCancelled, LeavesTools, ToolNotFound, ToolStarts,
         ToolsDone, ToolStep, ToolReturns, CreateTool, CreateToolFails, ContinueWithTools, EndTurn,
         Answer, NoReason, DrainTool, DrainEnd, Drain, DrainNothing, Record, RecordFails,
         RecordDone, ReturnBroken, ReturnDone, Return, Goto, Environment, Enqueue, CancelSession,
         CallerCancel, vars
<1> QED BY <1>1, <1>2

\* What is behind a call in the history stays there when something is added.
LEMMA OpenBefore ==
    ASSUME TypeOK, hist' \in Seq(Copies(Len(rows'))), Len(hist') >= Len(hist),
           \A j \in DOMAIN hist : hist'[j] = hist[j], NEW i \in DOMAIN hist
    PROVE  /\ i \in DOMAIN hist' /\ (Open(i)' => Open(i))
           /\ SaidAfter(i) => SaidAfter(i)'
<1>1. /\ hist \in Seq(Copies(Len(rows))) /\ Len(hist) \in Nat /\ DOMAIN hist = 1..Len(hist)
      /\ Len(hist') \in Nat /\ DOMAIN hist' = 1..Len(hist')
  BY DEF TypeOK, Copies
<1>2. i \in DOMAIN hist' /\ hist'[i] = hist[i]
  BY <1>1
<1>3. ASSUME Open(i)', i < Len(hist)
      PROVE  Open(i)
  <2>1. i + 1 \in DOMAIN hist /\ i < Len(hist')
    BY <1>1, <1>3
  <2> QED BY <1>2, <1>3, <2>1 DEF Open
<1>4. ASSUME Open(i)', ~(i < Len(hist))
      PROVE  Open(i)
  BY <1>2, <1>4 DEF Open
<1>5. SaidAfter(i) => SaidAfter(i)'
  <2>1. SUFFICES ASSUME NEW k \in DOMAIN hist, i < k /\ hist[k].body.prompt = Run
                 PROVE  SaidAfter(i)'
    BY DEF SaidAfter
  <2>2. k \in DOMAIN hist' /\ hist'[k] = hist[k]
    BY <1>1
  <2> QED BY <2>1, <2>2 DEF SaidAfter
<1> QED BY <1>2, <1>3, <1>4, <1>5

LEMMA OpenNext ==
    ASSUME TurnInv, ListSees, OpenIsOld, [Next]_vars
    PROVE  OpenIsOld'
<1>0. /\ TypeOK /\ rows \in Seq(Body) /\ Len(rows) \in Nat /\ DOMAIN rows = 1..Len(rows)
      /\ hist \in Seq(Copies(Len(rows))) /\ Len(hist) \in Nat /\ DOMAIN hist = 1..Len(hist)
  BY DEF TurnInv, TypeOK, Copies
<1>1. ASSUME hist' = hist, ~CreateUser
      PROVE  OpenIsOld'
  <2>1. pc \in {"createUser", "returned"} => pc' \in {"createUser", "returned"}
    BY <1>1, StartStays
  <2> QED BY <1>1, <2>1 DEF OpenIsOld, Open, SaidAfter
<1>2. CASE List
  <2>1. hist' = Visible /\ AllAnswered(rows) /\ pc' = "createUser"
    BY <1>2 DEF List, ListSees, Goto
  <2>2. CASE summary \notin DOMAIN rows
    <3>1. hist' = [i \in 1..Len(rows) |-> [id |-> i, body |-> rows[i]]]
      BY <1>0, <2>1, <2>2 DEF Visible
    <3>2. Len(hist') = Len(rows) /\ DOMAIN hist' = DOMAIN rows
          /\ \A i \in DOMAIN rows : hist'[i].body = rows[i]
      BY <1>0, <3>1
    <3>3. ASSUME NEW i \in DOMAIN hist', Open(i)'
          PROVE  CutShort(hist'[i].body)
      <4>1. HasCalls(rows[i]) /\ i \in DOMAIN rows
        BY <3>2, <3>3 DEF Open
      <4>2. ~Answered(rows, i)
        <5>1. i < Len(rows) => i + 1 \in DOMAIN rows
          BY <1>0, <4>1
        <5> QED BY <3>2, <3>3, <5>1 DEF Open, Answered
      <4> QED BY <2>1, <3>2, <4>1, <4>2 DEF AllAnswered
    <3> QED BY <2>1, <3>3 DEF OpenIsOld
  <2>3. CASE summary \in DOMAIN rows
    <3> DEFINE n == Len(rows) - summary + 1
    <3>0. summary \in Nat /\ summary > 0 /\ n \in Nat /\ n = Len(rows) - summary + 1
      BY <1>0, <2>3
    <3>1. hist' = [i \in 1..n |-> LET k == summary + i - 1
                                  IN  [id |-> k, body |-> IF i = 1 THEN [rows[k] EXCEPT !.role = "user"]
                                                          ELSE rows[k]]]
      BY <2>1, <2>3 DEF Visible
    <3>2. /\ Len(hist') = n /\ DOMAIN hist' = 1..n
          /\ \A i \in 1..n : i # 1 => hist'[i].body = rows[summary + i - 1]
      BY <3>0, <3>1
    <3>3. 1 \in 1..n => hist'[1].body.role = "user"
      <4>1. rows[summary] \in Body
        BY <1>0, <2>3
      <4>2. 1 \in 1..n => hist'[1].body = [rows[summary] EXCEPT !.role = "user"]
        BY <3>0, <3>1
      <4> QED BY <4>1, <4>2 DEF Body
    <3> HIDE DEF n
    <3>4. ASSUME NEW i \in DOMAIN hist', Open(i)'
          PROVE  CutShort(hist'[i].body)
      <4>0. HasCalls(hist'[i].body) /\ ~(i < Len(hist') /\ hist'[i + 1].body.role = "tool")
        BY <3>4 DEF Open
      <4>1. i # 1 /\ i \in 1..n
        BY <3>2, <3>3, <4>0 DEF HasCalls
      <4> DEFINE k == summary + i - 1
      <4>2. k \in DOMAIN rows /\ hist'[i].body = rows[k]
        BY <1>0, <3>0, <3>2, <4>1
      <4> HIDE DEF k
      <4>3. ASSUME k < Len(rows), rows[k + 1].role = "tool"
            PROVE  FALSE
        <5>1. i < n /\ i + 1 \in 1..n /\ i + 1 # 1 /\ summary + (i + 1) - 1 = k + 1
          BY <1>0, <3>0, <4>1, <4>3 DEF k
        <5>2. hist'[i + 1].body = rows[k + 1]
          BY <3>2, <5>1
        <5> QED BY <3>2, <4>0, <4>3, <5>1, <5>2
      <4> QED BY <2>1, <4>0, <4>2, <4>3 DEF AllAnswered, Answered
    <3> QED BY <2>1, <3>4 DEF OpenIsOld
  <2> QED BY <2>2, <2>3
<1>3. ASSUME NEW p \in Prompts \cup {Run}, SayUser(p),
             p = Run \/ pc \notin {"createUser", "returned"}
      PROVE  OpenIsOld'
  <2>1. /\ hist' \in Seq(Copies(Len(rows'))) /\ Len(hist') = Len(hist) + 1
        /\ \A i \in DOMAIN hist : hist'[i] = hist[i]
        /\ hist'[Len(hist) + 1] = [id |-> Len(rows) + 1, body |-> UserMessage(p)]
    BY <1>0, <1>3, SayUserType
  <2>2. DOMAIN hist' = 1..(Len(hist) + 1) /\ ~HasCalls(UserMessage(p))
        /\ UserMessage(p).prompt = p
    BY <1>0, <2>1 DEF HasCalls, UserMessage, Blank
  <2>3. ASSUME NEW i \in DOMAIN hist', Open(i)'
        PROVE  CutShort(hist'[i].body) /\ SaidAfter(i)'
    <3>1. i \in DOMAIN hist
      BY <1>0, <2>1, <2>2, <2>3 DEF Open
    <3>2. Open(i) /\ (SaidAfter(i) => SaidAfter(i)')
      BY <1>0, <2>1, <2>3, <3>1, OpenBefore
    <3>3. CutShort(hist'[i].body)
      BY <2>1, <3>1, <3>2 DEF OpenIsOld
    <3>4. CASE p = Run
      <4>1. Len(hist) + 1 \in DOMAIN hist' /\ i < Len(hist) + 1
            /\ hist'[Len(hist) + 1].body.prompt = Run
        BY <1>0, <2>1, <2>2, <3>1, <3>4
      <4> QED BY <3>3, <4>1 DEF SaidAfter
    <3>5. CASE pc \notin {"createUser", "returned"}
      BY <3>1, <3>2, <3>3, <3>5 DEF OpenIsOld
    <3> QED BY <1>3, <3>4, <3>5
  <2> QED BY <2>3 DEF OpenIsOld
<1>4. CASE ContinueWithTools
  <2>1. hist' = hist \o TurnMessages /\ pc = "after" /\ rows' = rows
    BY <1>4 DEF ContinueWithTools, Goto
  <2>2. Len(hist') = Len(hist) + 2 /\ DOMAIN hist' = 1..(Len(hist) + 2)
    BY <1>0, <2>1 DEF TurnMessages
  <2>3. /\ \A i \in DOMAIN hist : hist'[i] = hist[i]
        /\ hist'[Len(hist) + 2] = [id |-> Len(rows), body |-> Results]
    BY <1>0, <2>1 DEF TurnMessages
  <2>4. hist'[Len(hist) + 2].body.role = "tool"
    <3>1. Results.role = "tool"
      BY DEF Results, ToolMessage, Blank
    <3> QED BY <2>3, <3>1
  <2>5. hist' \in Seq(Copies(Len(rows')))
    BY TurnNext DEF TurnInv, TypeOK, Copies
  <2>6. ASSUME NEW i \in DOMAIN hist', Open(i)'
        PROVE  CutShort(hist'[i].body) /\ SaidAfter(i)'
    <3>0. HasCalls(hist'[i].body) /\ ~(i < Len(hist') /\ hist'[i + 1].body.role = "tool")
      BY <2>6 DEF Open
    <3>1. i # Len(hist) + 1
      <4>1. i = Len(hist) + 1 => i + 1 = Len(hist) + 2 /\ i < Len(hist')
        BY <1>0, <2>2
      <4> QED BY <2>4, <3>0, <4>1
    <3>2. i \in DOMAIN hist
      BY <1>0, <2>2, <2>4, <3>0, <3>1 DEF HasCalls
    <3>3. Open(i) /\ (SaidAfter(i) => SaidAfter(i)')
      BY <1>0, <2>2, <2>3, <2>5, <2>6, <3>2, OpenBefore
    <3> QED BY <2>1, <2>3, <3>2, <3>3 DEF OpenIsOld
  <2> QED BY <2>6 DEF OpenIsOld
<1>5. CASE CreateUser
  BY <1>3, <1>5 DEF CreateUser
<1>6. CASE Record
  <2>1. Head(batch) \in Prompts /\ pc \notin {"createUser", "returned"}
    BY <1>0, <1>6 DEF TypeOK, Record
  <2>2. ~CreateUser
    BY <2>1 DEF CreateUser, Goto
  <2> QED BY <1>1, <1>3, <1>6, <2>1, <2>2 DEF Record
<1> QED BY <1>1, <1>2, <1>4, <1>5, <1>6, HistorySteps

LEMMA FinishStored ==
    ASSUME TurnInv, pc \in Stopping \cup {"after"}, NEW f \in Finishes,
           UpdateOrNot(Finished(msg, f))
    PROVE  /\ msg.id \in DOMAIN rows /\ DOMAIN rows' = DOMAIN rows
           /\ \A i \in DOMAIN rows : i # msg.id => rows'[i] = rows[i]
           /\ broken' = TRUE \/ rows'[msg.id].finish = f
<1>0. TypeOK /\ rows \in Seq(Body) /\ broken \in BOOLEAN
  BY DEF TurnInv, TypeOK
<1> DEFINE m == Finished(msg, f)
<1>1. m.body \in Body /\ m.id = msg.id /\ m.body.finish = f
  BY <1>0, FinishedMessage DEF TypeOK
<1>2. UpdateOrNot(m)
  OBVIOUS
<1> HIDE DEF m
<1>3. msg.id \in DOMAIN rows
  BY DEF TurnInv, CurrentRow
<1>4. /\ rows' \in Seq(Body) /\ Len(rows') = Len(rows)
      /\ \A i \in DOMAIN rows : i # m.id => rows'[i] = rows[i]
      /\ m.id \in DOMAIN rows => rows'[m.id] = m.body \/ (rows' = rows /\ broken' = TRUE)
  BY <1>0, <1>1, <1>2, UpdatedOrNot
<1>5. DOMAIN rows' = DOMAIN rows
  BY <1>0, <1>4, LenProperties
<1> QED BY <1>1, <1>3, <1>4, <1>5

LEMMA NotFinishedNext ==
    ASSUME TurnInv, NotFinished, [Next]_vars
    PROVE  NotFinished'
<1>0. TypeOK
  BY DEF TurnInv
<1>1. CASE CreateAssistant
  BY <1>1 DEF CreateAssistant, Goto, NotFinished, Blank
<1>2. CASE EventDelta
  <2>1. msg'.body.finish = msg.body.finish
    BY <1>0, <1>2, DeltaBody DEF EventDelta
  <2> QED BY <1>2, <2>1 DEF EventDelta, Goto, NotFinished
<1>3. CASE EventComplete \/ Track
  BY <1>3 DEF EventComplete, Track, stream, Goto, NotFinished
<1>4. CASE StreamFails
  <2>1. pc' = "failed" /\ rows' = rows /\ (broken' \/ (pc = "stream" /\ ~completed /\ msg' = msg))
    BY <1>4 DEF StreamFails, Goto
  <2>2. pc = "stream" => rows[msg.id] = msg.body
    BY DEF TurnInv, InStep
  <2> QED BY <2>1, <2>2 DEF NotFinished
<1>5. CASE Environment \/ UNCHANGED vars
  BY <1>5 DEF Environment, Enqueue, CancelSession, CallerCancel, stream, vars, NotFinished
<1>6. ASSUME ~CreateAssistant, ~EventDelta, ~EventComplete, ~Track, ~StreamFails, ~Environment,
             ~UNCHANGED vars
      PROVE  pc' \notin Streaming \cup {"failed"}
  BY <1>6
     DEF Next, RunStep, List, CreateUser, StartFails, LoopCancelled, LoopContinues,
         CreateAssistantFails, StreamInterrupted, Interrupted, Failed, StreamCloses,
         ToolsCancelled, LeavesTools, ToolNotFound, ToolStarts, ToolsDone, ToolStep, ToolReturns,
         CreateTool, CreateToolFails, ContinueWithTools, EndTurn, Answer, NoReason, DrainTool,
         DrainEnd, Drain, DrainNothing, Record, RecordFails, RecordDone, ReturnBroken, ReturnDone,
         Return, Goto
<1> QED BY <1>1, <1>2, <1>3, <1>4, <1>5, <1>6 DEF NotFinished

\* A step on the row of the turn's message leaves the other answers alone.
LEMMA OthersAnswered ==
    ASSUME TurnInv, pc \in Turn, rows' \in Seq(Body), Len(rows') = Len(rows),
           \A j \in DOMAIN rows : j # msg.id => rows'[j] = rows[j],
           NEW i \in DOMAIN rows, i # msg.id, Answered(rows, i) \/ CutShort(rows[i])
    PROVE  Answered(rows', i) \/ CutShort(rows'[i])
<1>1. rows[msg.id].role = "assistant" /\ DOMAIN rows = 1..Len(rows) /\ Len(rows) \in Nat
  BY DEF TurnInv, TypeOK, InStep
<1>2. CASE Answered(rows, i)
  <2>1. i + 1 \in DOMAIN rows /\ i + 1 # msg.id
    BY <1>1, <1>2 DEF Answered
  <2> QED BY <1>2, <2>1 DEF Answered
<1> QED BY <1>2 DEF CutShort

LEMMA RowsAnsweredNext ==
    ASSUME TurnInv, NotFinished, RowsAnswered, [Next]_vars
    PROVE  RowsAnswered'
<1> DEFINE T == Turn \ {"after"}
           Fine(i) == HasCalls(rows[i]) => Answered(rows, i) \/ CutShort(rows[i])
<1>0. TypeOK /\ rows \in Seq(Body) /\ Len(rows) \in Nat /\ DOMAIN rows = 1..Len(rows)
  BY DEF TurnInv, TypeOK
<1>1. CASE broken
  BY <1>1, BrokenStays DEF RowsAnswered
<1> SUFFICES ASSUME ~broken
             PROVE  RowsAnswered'
  BY <1>1
<1>2. \A i \in DOMAIN rows : Fine(i) \/ (pc \in T /\ i = msg.id)
  BY DEF RowsAnswered
<1>3. ASSUME rows' = rows, \/ pc \notin T
                           \/ pc' \in T /\ msg'.id = msg.id
                           \/ pc \in T /\ Fine(msg.id)
      PROVE  RowsAnswered'
  BY <1>2, <1>3 DEF RowsAnswered
<1>4. ASSUME pc \in Turn, rows' \in Seq(Body), Len(rows') = Len(rows),
             \A j \in DOMAIN rows : j # msg.id => rows'[j] = rows[j],
             CutShort(rows'[msg.id]) \/ (pc' \in T /\ msg'.id = msg.id)
      PROVE  RowsAnswered'
  <2>1. ASSUME NEW i \in DOMAIN rows', HasCalls(rows'[i])
        PROVE  Answered(rows', i) \/ CutShort(rows'[i]) \/ (pc' \in T /\ i = msg'.id)
    <3>1. i \in DOMAIN rows
      BY <1>0, <1>4
    <3>2. CASE i = msg.id
      BY <1>4, <3>2
    <3>3. CASE i # msg.id
      <4>1. rows'[i] = rows[i]
        BY <1>4, <3>1, <3>3
      <4>2. Answered(rows, i) \/ CutShort(rows[i])
        BY <1>2, <2>1, <3>1, <3>3, <4>1
      <4> QED BY <1>4, <3>1, <3>3, <4>2, OthersAnswered
    <3> QED BY <3>2, <3>3
  <2> QED BY <2>1 DEF RowsAnswered
<1>5. ASSUME NEW b, Adds(b), ~HasCalls(b), pc \notin T \/ (b.role = "tool" /\ msg.id = Len(rows))
      PROVE  RowsAnswered'
  <2>1. /\ Len(rows') = Len(rows) + 1 /\ DOMAIN rows' = 1..(Len(rows) + 1)
        /\ rows'[Len(rows) + 1] = b /\ \A i \in DOMAIN rows : rows'[i] = rows[i]
    BY <1>0, <1>5 DEF Adds
  <2>2. ASSUME NEW i \in DOMAIN rows', HasCalls(rows'[i])
        PROVE  Answered(rows', i) \/ CutShort(rows'[i])
    <3>1. i \in DOMAIN rows
      BY <1>0, <1>5, <2>1, <2>2
    <3>2. rows'[i] = rows[i]
      BY <2>1, <3>1
    <3>3. CASE Answered(rows, i)
      <4>1. i + 1 \in DOMAIN rows /\ i < Len(rows')
        BY <1>0, <2>1, <3>1, <3>3 DEF Answered
      <4> QED BY <2>1, <3>3, <4>1 DEF Answered
    <3>4. CASE pc \in T /\ i = msg.id
      <4>1. i + 1 = Len(rows) + 1 /\ i < Len(rows') /\ b.role = "tool"
        BY <1>0, <1>5, <2>1, <3>4
      <4> QED BY <2>1, <4>1 DEF Answered
    <3> QED BY <1>2, <2>2, <3>1, <3>2, <3>3, <3>4
  <2> QED BY <2>2 DEF RowsAnswered
<1>6. ASSUME pc \in Stopping \cup {"after"}, NEW f \in {"canceled", "error"},
             UpdateOrNot(Finished(msg, f))
      PROVE  RowsAnswered'
  <2>1. /\ DOMAIN rows' = DOMAIN rows
        /\ \A i \in DOMAIN rows : i # msg.id => rows'[i] = rows[i]
        /\ broken' = TRUE \/ rows'[msg.id].finish = f
    BY <1>6, FinishStored DEF Finishes
  <2>2. rows' \in Seq(Body) /\ Len(rows') = Len(rows)
    <3>1. Finished(msg, f).body \in Body
      BY <1>0, FinishedMessage DEF TypeOK, Finishes
    <3> QED BY <1>0, <1>6, <3>1, UpdatedOrNot DEF TypeOK
  <2>3. CASE broken' = TRUE
    BY <2>3 DEF RowsAnswered
  <2>4. CASE rows'[msg.id].finish = f
    BY <1>4, <1>6, <2>1, <2>2, <2>4 DEF CutShort
  <2> QED BY <2>1, <2>3, <2>4
<1>7. CASE Interrupted
  BY <1>6, <1>7 DEF Interrupted, Return, Goto
<1>8. CASE NoReason
  BY <1>6, <1>8 DEF NoReason, Return, Goto
<1>9. CASE Failed
  <2>1. CASE cancelled
    <3>1. rows' = rows /\ pc = "failed" /\ rows[msg.id].finish = ""
      BY <1>9, <2>1 DEF Failed, Return, Goto, NotFinished
    <3> QED BY <1>3, <3>1 DEF CutShort
  <2>2. CASE ~cancelled
    BY <1>6, <1>9, <2>2 DEF Failed, Return, Goto
  <2> QED BY <2>1, <2>2
<1>10. CASE ToolsDone
  <2>1. CASE slots # <<>>
    BY <1>3, <1>10, <2>1 DEF ToolsDone, stream, Goto
  <2>2. CASE slots = <<>>
    <3>1. rows[msg.id] = msg.body /\ DOMAIN slots = DOMAIN msg.body.calls /\ pc \in T
      BY <1>10 DEF ToolsDone, Goto, TurnInv, InStep, Filled
    <3>2. msg.body.calls = <<>>
      <4>1. msg.body.calls \in Seq(ToolIds) /\ DOMAIN slots = {}
        BY <1>0, <2>2, ListAssumption DEF TypeOK, Body
      <4>2. DOMAIN msg.body.calls = 1..Len(msg.body.calls) /\ Len(msg.body.calls) \in Nat
        BY <4>1
      <4>3. 1 \notin 1..Len(msg.body.calls)
        BY <3>1, <4>1, <4>2
      <4>4. Len(msg.body.calls) = 0
        BY <4>2, <4>3
      <4> QED BY <4>1, <4>4, EmptySeq
    <3>3. ~HasCalls(rows[msg.id])
      BY <3>1, <3>2 DEF HasCalls
    <3> QED BY <1>3, <1>10, <3>1, <3>3 DEF ToolsDone
  <2> QED BY <2>1, <2>2
<1>11. CASE EventDelta \/ EventComplete \/ ToolsCancelled
  <2>1. /\ pc \in T /\ pc' \in T
        /\ msg' \in Deltas \cup Completions \cup {Finished(msg, "canceled")}
    BY <1>11 DEF EventDelta, EventComplete, ToolsCancelled, LeavesTools, Goto
  <2>2. msg'.id = msg.id
    <3>1. Finished(msg, "canceled").id = msg.id
      BY <1>0, FinishedMessage DEF TypeOK, Finishes
    <3> QED BY <1>0, <2>1, <3>1, DeltaBody
  <2>3. rows' = rows \/ Rewrites
    <3>1. ~\E b : Adds(b)
      BY <1>0, <1>11 DEF Adds, EventDelta, EventComplete, ToolsCancelled, Update, UpdateOrNot
    <3> QED BY <3>1, RowSteps
  <2>4. CASE rows' = rows
    BY <1>3, <2>1, <2>2, <2>4
  <2>5. CASE Rewrites
    BY <1>4, <2>1, <2>2, <2>5 DEF Rewrites
  <2> QED BY <2>3, <2>4, <2>5
<1>12. CASE StreamInterrupted \/ StreamFails
  <2>1. msg' \in Deltas \cup Completions /\ rows' = rows /\ pc' \in Stopping
    BY <1>12 DEF StreamInterrupted, StreamFails, Deltas, Goto
  <2>2. msg'.id = msg.id
    BY <1>0, <2>1, DeltaBody
  <2> QED BY <1>3, <2>1, <2>2
<1>13. CASE CreateUser \/ Record
  <2>1. pc \notin T
    BY <1>13 DEF CreateUser, Record, Goto
  <2>2. rows' = rows \/ \E p \in Prompts \cup {Run} : Adds(UserMessage(p))
    <3>1. CASE CreateUser
      BY <1>0, <3>1, SayUserType DEF CreateUser, Adds
    <3>2. CASE Record /\ ~Skips
      <4>1. Head(batch) \in Prompts
        BY <1>0, <3>2 DEF TypeOK, Record
      <4> QED BY <1>0, <3>2, <4>1, SayUserType DEF Record, Adds
    <3> QED BY <1>13, <3>1, <3>2 DEF Record
  <2>3. \A p : ~HasCalls(UserMessage(p))
    BY DEF HasCalls, UserMessage, Blank
  <2> QED BY <1>3, <1>5, <2>1, <2>2, <2>3
<1>14. CASE CreateAssistant
  <2>1. Adds(Blank) /\ pc \notin T /\ ~HasCalls(Blank)
    BY <1>0, <1>14, Bodies, Created DEF CreateAssistant, Adds, HasCalls, Blank, Goto
  <2> QED BY <1>5, <2>1
<1>15. CASE CreateTool
  <2>1. Results \in Body /\ msg.id = Len(rows)
    BY <1>0, <1>15, ResultsBody DEF CreateTool, TurnInv, Filled, CurrentRow, Goto
  <2>2. Adds(Results)
    BY <1>0, <1>15, <2>1, Created DEF CreateTool, Adds
  <2>3. Results.role = "tool" /\ ~HasCalls(Results)
    BY DEF HasCalls, Results, ToolMessage, Blank
  <2> QED BY <1>5, <2>1, <2>2, <2>3
<1>16. CASE Track \/ StreamCloses \/ ToolNotFound \/ ToolStarts \/ ToolStep
            \/ Environment \/ UNCHANGED vars
  <2>1. /\ rows' = rows /\ msg' = msg
        /\ pc' = pc \/ (pc \in T /\ pc' \in T)
    BY <1>16 DEF Track, StreamCloses, ToolNotFound, ToolStarts, ToolStep, ToolReturns, Goto,
                 Environment, Enqueue, CancelSession, CallerCancel, stream, vars
  <2> QED BY <1>3, <2>1
<1>17. CASE \/ List \/ LoopContinues \/ CreateAssistantFails \/ DrainTool \/ DrainEnd
            \/ DrainNothing \/ RecordDone \/ ContinueWithTools \/ EndTurn \/ Answer
            \/ StartFails \/ LoopCancelled \/ RecordFails
  <2>1. rows' = rows /\ pc \notin T
    BY <1>17 DEF List, LoopContinues, CreateAssistantFails, ReturnBroken, ReturnDone, Return,
                 DrainTool, DrainEnd, Drain, DrainNothing, RecordDone, ContinueWithTools, EndTurn,
                 Answer, StartFails, LoopCancelled, RecordFails, Goto
  <2> QED BY <1>3, <2>1
<1>18. CASE CreateToolFails
  BY <1>18 DEF CreateToolFails, ReturnBroken, RowsAnswered
<1> QED
  BY <1>7, <1>8, <1>9, <1>10, <1>11, <1>12, <1>13, <1>14, <1>15, <1>16, <1>17, <1>18
     DEF Next, RunStep

\* In a session whose stored calls have their results, but for those of streams
\* that were cut short, the provider is sent no other calls without theirs, and
\* those only from before the run's prompt: a message and its results join the
\* history in one step, whatever is queued or cancelled.  And unless the store
\* failed, the run leaves the session as it found it in this.
THEOREM CallsFollowed == StoredAnswered /\ Spec => []CallsAnswered
<1> DEFINE I == ListSees /\ OpenIsOld /\ NotFinished /\ RowsAnswered
<1>1. StoredAnswered /\ Init => I
  <2>1. SUFFICES ASSUME StoredAnswered, Init
                 PROVE  I
    OBVIOUS
  <2>2. AllAnswered(rows) /\ pc = "list" /\ hist = <<>>
    BY <2>1 DEF StoredAnswered, Init
  <2> QED BY <2>2 DEF ListSees, OpenIsOld, NotFinished, RowsAnswered, AllAnswered
<1>2. I => CallsAnswered
  BY DEF OpenIsOld, SaidAfter, RowsAnswered, AllAnswered, CallsAnswered
<1>3. TurnInv /\ I /\ [Next]_vars => I'
  BY OpenNext, ListSeesNext, NotFinishedNext, RowsAnsweredNext
<1> HIDE DEF I
<1> QED BY <1>1, <1>2, <1>3, TurnHolds, PTL DEF Spec

-----------------------------------------------------------------------------
(* How the run leaves its messages.                                        *)

OthersFinished == \A i \in DOMAIN rows : Unfinished(rows[i]) => pc \in Turn /\ i = msg.id

LEMMA OthersNext ==
    ASSUME TurnInv, OthersFinished, [Next]_vars
    PROVE  OneUnfinished'
<1>0. TypeOK /\ rows \in Seq(Body) /\ Len(rows) \in Nat /\ DOMAIN rows = 1..Len(rows)
  BY DEF TurnInv, TypeOK
<1>1. ASSUME OthersFinished'
      PROVE  OneUnfinished'
  BY <1>1 DEF OthersFinished, OneUnfinished
<1>2. ASSUME rows' = rows, pc \in Turn => pc' \in Turn /\ msg'.id = msg.id
      PROVE  OneUnfinished'
  BY <1>1, <1>2 DEF OthersFinished
<1>3. ASSUME NEW b, Adds(b), ~Unfinished(b) \/ (pc' \in Turn /\ msg'.id = Len(rows) + 1),
             pc \in Turn => pc' \in Turn /\ msg'.id = msg.id
      PROVE  OneUnfinished'
  <2>1. DOMAIN rows' = 1..(Len(rows) + 1) /\ rows'[Len(rows) + 1] = b
        /\ \A i \in DOMAIN rows : rows'[i] = rows[i]
    BY <1>0, <1>3 DEF Adds
  <2>2. ASSUME NEW i \in DOMAIN rows', Unfinished(rows'[i])
        PROVE  pc' \in Turn /\ i = msg'.id
    <3>1. CASE i \in DOMAIN rows
      BY <1>3, <2>1, <2>2, <3>1 DEF OthersFinished
    <3>2. CASE i = Len(rows) + 1
      BY <1>3, <2>1, <2>2, <3>2
    <3> QED BY <1>0, <2>1, <3>1, <3>2
  <2> QED BY <1>1, <2>2 DEF OthersFinished
<1>4. ASSUME pc \in Stopping \cup {"after"}, NEW f \in {"canceled", "error"},
             UpdateOrNot(Finished(msg, f))
      PROVE  OneUnfinished'
  <2>1. f \in Finishes
    BY DEF Finishes
  <2>2. /\ msg.id \in DOMAIN rows /\ DOMAIN rows' = DOMAIN rows
        /\ \A i \in DOMAIN rows : i # msg.id => rows'[i] = rows[i]
        /\ broken' = TRUE \/ rows'[msg.id].finish = f
    BY <1>4, <2>1, FinishStored
  <2>3. CASE broken' = TRUE
    BY <2>3 DEF OneUnfinished
  <2>4. CASE rows'[msg.id].finish = f
    <3>1. \A i \in DOMAIN rows' : ~Unfinished(rows'[i])
      BY <2>2, <2>4 DEF OthersFinished, Unfinished
    <3> QED BY <1>1, <3>1 DEF OthersFinished
  <2> QED BY <2>2, <2>3, <2>4
<1>5. CASE Interrupted
  BY <1>4, <1>5 DEF Interrupted, Return
<1>6. CASE NoReason
  BY <1>4, <1>6 DEF NoReason, Return
<1>7. CASE Failed
  <2>1. CASE cancelled
    BY <1>7, <2>1 DEF Failed, Return, env, stream, OneUnfinished, OthersFinished
  <2>2. CASE ~cancelled
    BY <1>4, <1>7, <2>2 DEF Failed, Return
  <2> QED BY <2>1, <2>2
<1>8. ASSUME pc = "after", msg.body.finish # "", rows' = rows, broken' = broken
      PROVE  OneUnfinished'
  <2>1. \/ rows[msg.id] = msg.body
        \/ broken /\ msg.body.finish = "canceled"
    BY <1>8 DEF TurnInv, InStep
  <2>2. CASE broken
    BY <1>8, <2>2 DEF OneUnfinished
  <2>3. CASE rows[msg.id] = msg.body
    <3>1. \A i \in DOMAIN rows : ~Unfinished(rows[i])
      BY <1>8, <2>3 DEF OthersFinished, Unfinished
    <3> QED BY <1>1, <1>8, <3>1 DEF OthersFinished
  <2> QED BY <2>1, <2>2, <2>3
<1>9. CASE ContinueWithTools \/ EndTurn \/ Answer
  BY <1>8, <1>9 DEF ContinueWithTools, AskedForTools, EndTurn, Answer, Return, Reason
<1>10. CASE StartFails \/ LoopCancelled \/ CreateToolFails \/ RecordFails
  BY <1>1, <1>2, <1>10 DEF StartFails, LoopCancelled, CreateToolFails, RecordFails, ReturnBroken, ReturnDone,
              Return, OneUnfinished
<1>11. CASE \/ List \/ LoopContinues \/ CreateAssistantFails \/ DrainTool \/ DrainEnd
            \/ DrainNothing \/ RecordDone
  BY <1>2, <1>11 DEF List, LoopContinues, CreateAssistantFails, ReturnBroken, Return, DrainTool,
                     DrainEnd, Drain, DrainNothing, RecordDone
<1>12. CASE Track \/ StreamCloses \/ ToolNotFound \/ ToolStarts \/ ToolStep \/ ToolsDone
            \/ Environment \/ UNCHANGED vars
  BY <1>2, <1>12 DEF Track, StreamCloses, ToolNotFound, ToolStarts, ToolStep, ToolReturns, ToolsDone,
                     Environment, Enqueue, CancelSession, CallerCancel, vars
<1>13. CASE StreamInterrupted \/ StreamFails
  <2>1. msg' \in Deltas \cup Completions /\ rows' = rows /\ pc' \in Stopping
    BY <1>13 DEF StreamInterrupted, StreamFails, Deltas
  <2> QED BY <1>0, <1>2, <2>1, DeltaBody
<1>14. CASE CreateUser
  <2> USE <1>14
  <2>1. Adds(UserMessage(Run)) /\ pc \notin Turn /\ ~Unfinished(UserMessage(Run))
    BY <1>0, SayUserType DEF CreateUser, Adds, Unfinished, UserMessage, Blank
  <2> QED BY <1>3, <2>1
<1>15. CASE Record
  <2>1. CASE Skips
    BY <1>2, <1>15, <2>1 DEF Record
  <2>2. CASE ~Skips
    <3>1. Head(batch) \in Prompts /\ SayUser(Head(batch)) /\ pc \notin Turn
      BY <1>0, <1>15, <2>2 DEF TypeOK, Record
    <3>2. Adds(UserMessage(Head(batch))) /\ ~Unfinished(UserMessage(Head(batch)))
      BY <1>0, <3>1, SayUserType DEF Adds, Unfinished, UserMessage, Blank
    <3> QED BY <1>3, <3>1, <3>2
  <2> QED BY <2>1, <2>2
<1>16. CASE CreateAssistant
  <2>1. Adds(Blank) /\ pc \notin Turn /\ pc' \in Turn /\ msg'.id = Len(rows) + 1
    BY <1>0, <1>16, Bodies, Created DEF CreateAssistant, Adds, NewId
  <2> QED BY <1>3, <2>1
<1>17. CASE CreateTool
  <2>1. Results \in Body
    BY <1>0, <1>17, ResultsBody DEF CreateTool, TurnInv, Filled
  <2>2. Adds(Results) /\ pc' \in Turn /\ msg' = msg
    BY <1>0, <1>17, <2>1, Created DEF CreateTool, Adds
  <2>3. ~Unfinished(Results)
    BY DEF Unfinished, Results, ToolMessage, Blank
  <2> QED BY <1>3, <2>2, <2>3
<1>18. CASE EventDelta \/ EventComplete \/ ToolsCancelled
  <2>1. /\ pc \in Turn \ {"after"} /\ pc' \in Turn
        /\ msg' \in Deltas \cup Completions \cup {Finished(msg, "canceled")}
    BY <1>18 DEF EventDelta, EventComplete, ToolsCancelled, LeavesTools
  <2>2. msg'.id = msg.id
    <3>1. Finished(msg, "canceled").id = msg.id
      BY <1>0, FinishedMessage DEF TypeOK, Finishes
    <3> QED BY <1>0, <2>1, <3>1, DeltaBody
  <2>3. rows' = rows \/ Rewrites
    <3>1. ~\E b : Adds(b)
      BY <1>0, <1>18 DEF Adds, EventDelta, EventComplete, ToolsCancelled, Update, UpdateOrNot
    <3> QED BY <3>1, RowSteps
  <2>4. DOMAIN rows' = DOMAIN rows /\ \A i \in DOMAIN rows : i # msg.id => rows'[i] = rows[i]
    BY <1>0, <2>3, LenProperties DEF Rewrites
  <2> QED BY <1>1, <2>1, <2>2, <2>4 DEF OthersFinished
<1> QED
  BY <1>5, <1>6, <1>7, <1>9, <1>10, <1>11, <1>12, <1>13, <1>14, <1>15, <1>16, <1>17, <1>18
     DEF Next, RunStep

LEMMA UnfinishedNext ==
    ASSUME TurnInv, OneUnfinished, [Next]_vars
    PROVE  OneUnfinished'
<1>1. CASE broken
  BY <1>1, BrokenStays DEF OneUnfinished
<1>2. CASE pc = "returned"
  BY <1>2, ReturnedStays DEF OneUnfinished, vars
<1>3. CASE OthersFinished
  BY <1>3, OthersNext
<1> QED BY <1>1, <1>2, <1>3 DEF OneUnfinished, OthersFinished

\* A run that started from finished messages returns with all of them
\* finished, its own included, wherever it was stopped: unless the store
\* failed; or the last one is not, when a cancellation came between an error
\* the provider reported and the update that was to record it.
THEOREM ReturnsFinished == StoredFinished /\ Spec => []FinishedOnReturn
<1>1. StoredFinished /\ Init => OneUnfinished
  BY DEF StoredFinished, Init, OneUnfinished
<1>2. OneUnfinished => FinishedOnReturn
  BY DEF OneUnfinished, FinishedOnReturn
<1> QED BY <1>1, <1>2, UnfinishedNext, TurnHolds, PTL DEF Spec

LEMMA RecordedNext ==
    ASSUME TurnInv, CancellationRecorded, [Next]_vars
    PROVE  CancellationRecorded'
<1>1. CASE pc = "returned"
  BY <1>1, ReturnedStays DEF CancellationRecorded, vars
<1>2. ASSUME UpdateOrNot(Finished(msg, "canceled")), pc \in {"interrupted", "after"}, msg' = msg
      PROVE  CancellationRecorded'
  <2>1. broken' = TRUE \/ rows'[msg.id].finish = "canceled"
    BY <1>2, FinishStored DEF Finishes
  <2> QED BY <1>2, <2>1 DEF CancellationRecorded
<1>3. CASE Interrupted \/ NoReason
  BY <1>2, <1>3 DEF Interrupted, NoReason, Return
<1>4. CASE CreateAssistantFails
  BY <1>4 DEF CreateAssistantFails, ReturnBroken, Return, TurnInv, NoTurnYet, NoMessage,
              CancellationRecorded
<1>5. ASSUME pc # "returned", ~Interrupted, ~NoReason, ~CreateAssistantFails
      PROVE  pc' # "returned" \/ ret' # "cancelled"
  BY <1>5
     DEF Next, RunStep, List, CreateUser, StartFails, LoopCancelled, LoopContinues, CreateAssistant,
         EventDelta, EventComplete, Track, StreamInterrupted, StreamFails,
         Failed, StreamCloses, ToolsCancelled, LeavesTools, ToolNotFound, ToolStarts, ToolsDone,
         ToolStep, ToolReturns, CreateTool, CreateToolFails, ContinueWithTools, EndTurn, Answer,
         DrainTool, DrainEnd, Drain, DrainNothing, Record, RecordFails, RecordDone,
         ReturnBroken, ReturnDone, Return, Environment, Enqueue, CancelSession, CallerCancel, vars
<1> QED BY <1>1, <1>3, <1>4, <1>5 DEF CancellationRecorded

\* A run that answers "request canceled by user" left its last message marked
\* so in the store, unless the store failed: at every place where the context
\* is looked at, the mark is written before the run returns.
THEOREM CancellationKept == Spec => []CancellationRecorded
<1>1. Init => CancellationRecorded
  BY DEF Init, CancellationRecorded
<1> QED BY <1>1, RecordedNext, TurnHolds, PTL DEF Spec

-----------------------------------------------------------------------------
(* Induction and recursion over the numbers.                               *)

\* A set of numbers that is not empty has a least one.
LEMMA LeastNumber ==
    ASSUME NEW T, T \subseteq Nat, T # {}
    PROVE  \E n \in T : \A m \in T : n <= m
<1> DEFINE R == OpToRel(<, Nat)
<1>1. IsWellFoundedOn(R, Nat)
  BY NatLessThanWellFounded
<1>2. \A x, y \in Nat : x < y => <<x, y>> \in R
  BY DEF OpToRel
<1> HIDE DEF R
<1>3. PICK n \in T : \A m \in T : ~(<<m, n>> \in R)
  BY <1>1, WFMin
<1>4. \A m \in T : ~(m < n)
  BY <1>2, <1>3
<1> QED BY <1>3, <1>4

\* A set that has 0 and with each number the next one has them all up to n.
LEMMA Upwards ==
    ASSUME NEW n \in Nat, NEW S, 0 \in S, \A i \in 0..(n - 1) : i \in S => i + 1 \in S
    PROVE  0..n \subseteq S
<1> DEFINE T == 0..n \ S
<1> SUFFICES ASSUME T # {} PROVE FALSE
  OBVIOUS
<1>1. PICK m \in T : \A k \in T : m <= k
  <2>1. T \subseteq Nat
    OBVIOUS
  <2> HIDE DEF T
  <2> QED BY <2>1, LeastNumber
<1>2. m # 0 /\ m \in 1..n
  OBVIOUS
<1>3. m - 1 \in S
  BY <1>1, <1>2
<1>4. (m - 1) + 1 \in S
  BY <1>2, <1>3
<1> QED BY <1>2, <1>4

\* f goes n steps through V, starting at a.
Walks(f, V, a, n, step) ==
    f \in [0..n -> V] /\ f[0] = a /\ \A i \in 1..n : f[i] = step[<<f[i - 1], i>>]

\* There is such a function.
LEMMA Recursion ==
    ASSUME NEW V, NEW a \in V, NEW n \in Nat, NEW step \in [V \X (1..n) -> V]
    PROVE  \E f : Walks(f, V, a, n, step)
<1> DEFINE Good(k) == \E f \in [0..k -> V] : f[0] = a /\ \A i \in 1..k : f[i] = step[<<f[i - 1], i>>]
           S == {k \in 0..n : Good(k)}
<1>1. 0 \in S
  <2> DEFINE f == [k \in 0..0 |-> a]
  <2>1. f \in [0..0 -> V] /\ f[0] = a /\ 1..0 = {}
    OBVIOUS
  <2>2. Good(0)
    BY <2>1
  <2> QED BY <2>2
<1>2. ASSUME NEW i \in 0..(n - 1), i \in S PROVE i + 1 \in S
  <2>1. PICK f \in [0..i -> V] : f[0] = a /\ \A k \in 1..i : f[k] = step[<<f[k - 1], k>>]
    BY <1>2
  <2> DEFINE g == [k \in 0..(i + 1) |-> IF k = i + 1 THEN step[<<f[i], i + 1>>] ELSE f[k]]
  <2>2. step[<<f[i], i + 1>>] \in V
    <3>1. f[i] \in V /\ i + 1 \in 1..n
      BY <2>1
    <3> QED BY <3>1
  <2>3. g \in [0..(i + 1) -> V]
    BY <2>1, <2>2
  <2>4. g[0] = a /\ \A k \in 1..i : g[k] = f[k] /\ g[k - 1] = f[k - 1]
    BY <2>1
  <2>5. g[i + 1] = step[<<g[i], i + 1>>]
    <3>1. i \in 0..(i + 1) /\ i + 1 \in 0..(i + 1) /\ i # i + 1
      OBVIOUS
    <3>2. g[i] = f[i]
      BY <3>1
    <3> QED BY <3>1, <3>2
  <2> HIDE DEF g
  <2>6. \A k \in 1..(i + 1) : g[k] = step[<<g[k - 1], k>>]
    <3> SUFFICES ASSUME NEW k \in 1..(i + 1) PROVE g[k] = step[<<g[k - 1], k>>]
      OBVIOUS
    <3>1. CASE k = i + 1
      <4>1. k - 1 = i
        BY <3>1
      <4> QED BY <2>5, <3>1, <4>1
    <3>2. CASE k \in 1..i
      BY <2>1, <2>4, <3>2
    <3> QED BY <3>1, <3>2
  <2>7. Good(i + 1)
    BY <2>3, <2>4, <2>6
  <2> QED BY <2>7
<1> HIDE DEF S
<1>3. 0..n \subseteq S
  BY <1>1, <1>2, Upwards
<1>4. n \in S
  BY <1>3
<1> QED BY <1>4 DEF S, Walks

-----------------------------------------------------------------------------
(* A run of Generation is one of AgentRuns.                                *)

Entry(body) == [prompt |-> body.prompt, by |-> Run]

\* f[n] are the prompts among the first n rows.
Saying(f, rs) ==
    /\ DOMAIN f = 0..Len(rs) /\ f[0] = <<>>
    /\ \A n \in 1..Len(rs) : f[n] = IF IsPrompt(rs[n]) THEN Append(f[n - 1], Entry(rs[n])) ELSE f[n - 1]

LEMMA SaidSaying ==
    ASSUME NEW rs \in Seq(Body)
    PROVE  \E f : Saying(f, rs) /\ Said(rs) = f[Len(rs)]
<1> DEFINE N == Len(rs)
           E == [prompt : Prompts \cup {Run, "none"}, by : {Run}]
           V == Seq(E)
           step == [p \in V \X (1..N) |-> IF IsPrompt(rs[p[2]]) THEN Append(p[1], Entry(rs[p[2]])) ELSE p[1]]
           Is(g) == g = [n \in 0..N |->
                           IF n = 0 THEN <<>>
                           ELSE IF IsPrompt(rs[n]) THEN Append(g[n - 1], [prompt |-> rs[n].prompt, by |-> Run])
                           ELSE g[n - 1]]
           said == CHOOSE g : Is(g)
<1>1. N \in Nat /\ \A n \in 1..N : rs[n] \in Body
  BY LenProperties, ElementOfSeq
<1>2. \A n \in 1..N : Entry(rs[n]) \in E
  BY <1>1 DEF Entry, Body
<1>3. \A s \in V, e \in E : Append(s, e) \in V
  OBVIOUS
<1>4. <<>> \in V
  OBVIOUS
<1>5. Said(rs) = said[N]
  BY DEF Said
<1> HIDE DEF N, E, V
<1>6. step \in [V \X (1..N) -> V]
  BY <1>2, <1>3
<1>7. PICK f : Walks(f, V, <<>>, N, step)
  <2> DEFINE a == <<>>
  <2>1. a \in V
    BY <1>4
  <2> HIDE DEF a, step
  <2>2. \E f : Walks(f, V, a, N, step)
    BY <1>1, <1>6, <2>1, Recursion
  <2> QED BY <2>2 DEF a
<1>8. f \in [0..N -> V] /\ f[0] = <<>>
  BY <1>7 DEF Walks
<1>9. ASSUME NEW n \in 1..N
      PROVE  f[n] = IF IsPrompt(rs[n]) THEN Append(f[n - 1], Entry(rs[n])) ELSE f[n - 1]
  <2>1. f[n] = step[<<f[n - 1], n>>]
    BY <1>7 DEF Walks
  <2>2. f[n - 1] \in V
    BY <1>1, <1>8
  <2>3. <<f[n - 1], n>> \in V \X (1..N)
    BY <2>2
  <2> QED BY <2>1, <2>3
<1> HIDE DEF step
<1>10. Saying(f, rs)
  BY <1>8, <1>9 DEF Saying, N
<1>11. Is(f)
  <2>1. \A n \in 0..N : n = 0 \/ n \in 1..N
    BY <1>1
  <2> DEFINE G(n) == IF n = 0 THEN <<>>
                     ELSE IF IsPrompt(rs[n]) THEN Append(f[n - 1], [prompt |-> rs[n].prompt, by |-> Run])
                     ELSE f[n - 1]
  <2>2. \A n \in 0..N : f[n] = G(n)
    BY <1>8, <1>9, <2>1 DEF Entry
  <2>3. f = [n \in 0..N |-> f[n]]
    BY <1>8
  <2> HIDE DEF G
  <2>4. f = [n \in 0..N |-> G(n)]
    BY <2>2, <2>3, Zenon
  <2> QED BY <2>4 DEF G
<1>12. Is(said)
  BY <1>11
<1> HIDE DEF said
<1>13. Saying(said, rs)
  <2>1. DOMAIN said = 0..N
    BY <1>12
  <2>2. ASSUME NEW n \in 0..N
        PROVE  said[n] = IF n = 0 THEN <<>>
                         ELSE IF IsPrompt(rs[n]) THEN Append(said[n - 1], [prompt |-> rs[n].prompt, by |-> Run])
                         ELSE said[n - 1]
    BY <1>12
  <2>3. 0 \in 0..N /\ \A n \in 1..N : n \in 0..N /\ n # 0
    BY <1>1
  <2> HIDE DEF Is
  <2> QED BY <2>1, <2>2, <2>3 DEF Saying, Entry, N
<1> QED BY <1>5, <1>13 DEF N

\* What is said depends on the prompts only, row by row.
LEMMA SaidAgrees ==
    ASSUME NEW rs \in Seq(Body), NEW ss \in Seq(Body), NEW f, NEW g, Saying(f, rs), Saying(g, ss),
           NEW n \in Nat, n <= Len(rs), n <= Len(ss),
           \A i \in 1..n : /\ IsPrompt(rs[i]) <=> IsPrompt(ss[i])
                           /\ IsPrompt(rs[i]) => rs[i].prompt = ss[i].prompt
    PROVE  f[n] = g[n]
<1> DEFINE S == {i \in 0..n : f[i] = g[i]}
<1>0. Len(rs) \in Nat /\ Len(ss) \in Nat
  BY LenProperties
<1>1. 0 \in S
  BY DEF Saying
<1>2. ASSUME NEW i \in 0..(n - 1), i \in S PROVE i + 1 \in S
  <2>1. i + 1 \in 1..n /\ (i + 1) - 1 = i /\ i + 1 \in 1..Len(rs) /\ i + 1 \in 1..Len(ss)
    BY <1>0
  <2>2. f[i + 1] = IF IsPrompt(rs[i + 1]) THEN Append(f[i], Entry(rs[i + 1])) ELSE f[i]
    BY <2>1 DEF Saying
  <2>3. g[i + 1] = IF IsPrompt(ss[i + 1]) THEN Append(g[i], Entry(ss[i + 1])) ELSE g[i]
    BY <2>1 DEF Saying
  <2>4. f[i] = g[i]
    BY <1>2
  <2>5. IsPrompt(rs[i + 1]) => Entry(rs[i + 1]) = Entry(ss[i + 1])
    BY <2>1 DEF Entry
  <2>6. IsPrompt(rs[i + 1]) <=> IsPrompt(ss[i + 1])
    BY <2>1
  <2>7. f[i + 1] = g[i + 1]
    BY <2>2, <2>3, <2>4, <2>5, <2>6
  <2> QED BY <2>1, <2>7
<1> HIDE DEF S
<1>3. 0..n \subseteq S
  BY <1>1, <1>2, Upwards
<1> QED BY <1>3 DEF S

LEMMA SaidSame ==
    ASSUME NEW rs \in Seq(Body), NEW ss \in Seq(Body), Len(ss) = Len(rs),
           \A i \in DOMAIN rs : /\ IsPrompt(rs[i]) <=> IsPrompt(ss[i])
                                /\ IsPrompt(rs[i]) => rs[i].prompt = ss[i].prompt
    PROVE  Said(ss) = Said(rs)
<1>1. PICK f : Saying(f, rs) /\ Said(rs) = f[Len(rs)]
  BY SaidSaying
<1>2. PICK g : Saying(g, ss) /\ Said(ss) = g[Len(ss)]
  BY SaidSaying
<1>3. Len(rs) \in Nat /\ DOMAIN rs = 1..Len(rs) /\ Len(rs) <= Len(rs)
  BY LenProperties
<1> DEFINE n == Len(rs)
<1>4. f[n] = g[n]
  BY <1>1, <1>2, <1>3, SaidAgrees
<1> QED BY <1>1, <1>2, <1>4

LEMMA SaidMore ==
    ASSUME NEW rs \in Seq(Body), NEW ss \in Seq(Body), Len(ss) = Len(rs) + 1,
           \A i \in DOMAIN rs : ss[i] = rs[i], NEW b, ss[Len(rs) + 1] = b
    PROVE  Said(ss) = IF IsPrompt(b) THEN Append(Said(rs), Entry(b)) ELSE Said(rs)
<1>1. PICK f : Saying(f, rs) /\ Said(rs) = f[Len(rs)]
  BY SaidSaying
<1>2. PICK g : Saying(g, ss) /\ Said(ss) = g[Len(ss)]
  BY SaidSaying
<1>3. Len(rs) \in Nat /\ DOMAIN rs = 1..Len(rs) /\ Len(rs) <= Len(rs) /\ Len(rs) <= Len(ss)
  BY LenProperties
<1> DEFINE n == Len(rs)
<1>4. f[n] = g[n]
  BY <1>1, <1>2, <1>3, SaidAgrees
<1>5. n + 1 \in 1..Len(ss) /\ (n + 1) - 1 = n
  BY <1>3
<1>6. g[n + 1] = IF IsPrompt(ss[n + 1]) THEN Append(g[(n + 1) - 1], Entry(ss[n + 1])) ELSE g[(n + 1) - 1]
  BY <1>2, <1>5 DEF Saying
<1> QED BY <1>1, <1>2, <1>4, <1>5, <1>6

LEMMA SaidUser ==
    ASSUME TypeOK, NEW p \in Prompts \cup {Run}, SayUser(p)
    PROVE  Said(rows') = Append(Said(rows), [prompt |-> p, by |-> Run])
<1>1. /\ rows \in Seq(Body) /\ rows' \in Seq(Body) /\ Len(rows') = Len(rows) + 1
      /\ \A i \in DOMAIN rows : rows'[i] = rows[i]
      /\ rows'[Len(rows) + 1] = UserMessage(p)
  BY SayUserType DEF TypeOK
<1> DEFINE b == UserMessage(p)
<1>2. IsPrompt(b) /\ Entry(b) = [prompt |-> p, by |-> Run]
  BY RunAssumption DEF UserMessage, Blank, IsPrompt, Entry
<1> HIDE DEF b
<1>3. Said(rows') = IF IsPrompt(b) THEN Append(Said(rows), Entry(b)) ELSE Said(rows)
  BY <1>1, SaidMore DEF b
<1> QED BY <1>2, <1>3

LEMMA SaidKept ==
    ASSUME TurnInv, [Next]_vars, pc \notin {"createUser", "recordTool", "recordEnd"} \/ rows' = rows
    PROVE  Said(rows') = Said(rows)
<1>0. rows \in Seq(Body) /\ DOMAIN rows = 1..Len(rows)
  BY LenProperties DEF TurnInv, TypeOK
<1>1. CASE rows' = rows
  BY <1>1
<1>2. ASSUME NEW b, Adds(b), ~IsPrompt(b)
      PROVE  Said(rows') = Said(rows)
  <2>1. Said(rows') = IF IsPrompt(b) THEN Append(Said(rows), Entry(b)) ELSE Said(rows)
    BY <1>0, <1>2, SaidMore DEF Adds
  <2> QED BY <1>2, <2>1
<1>3. ~IsPrompt(Blank) /\ ~IsPrompt(Results)
  BY DEF IsPrompt, Blank, Results, ToolMessage
<1>4. CASE Rewrites
  <2>1. /\ rows' \in Seq(Body) /\ Len(rows') = Len(rows)
        /\ rows[msg.id].role = "assistant" /\ rows'[msg.id].role = "assistant"
        /\ \A i \in DOMAIN rows : i # msg.id => rows'[i] = rows[i]
    BY <1>4 DEF Rewrites, TurnInv, InStep
  <2>2. \A i \in DOMAIN rows : /\ IsPrompt(rows[i]) <=> IsPrompt(rows'[i])
                               /\ IsPrompt(rows[i]) => rows[i].prompt = rows'[i].prompt
    BY <2>1 DEF IsPrompt
  <2> QED BY <1>0, <2>1, <2>2, SaidSame
<1>5. rows' = rows \/ pc \notin {"createUser", "recordTool", "recordEnd"}
  OBVIOUS
<1>6. CreateUser \/ Record => pc \in {"createUser", "recordTool", "recordEnd"}
  BY DEF CreateUser, Record
<1> QED BY <1>1, <1>2, <1>3, <1>4, <1>5, <1>6, RowSteps

LEMMA AboveGoto ==
    ASSUME NEW from, NEW to, PcAbove = from, PcAbove' = to, sent' = sent
    PROVE  Above!Goto(Run, from, to)
<1> DEFINE G(c) == IF c = Run THEN PcAbove ELSE IF c \in sent THEN "queued" ELSE "enqueue"
           f == [c \in Prompts \cup {Run} |-> G(c)]
           H(c) == IF c = Run THEN to ELSE G(c)
<1>1. f[Run] = from
  OBVIOUS
<1>2. f' = [c \in Prompts \cup {Run} |-> H(c)]
  OBVIOUS
<1>3. [f EXCEPT ![Run] = to] = [c \in Prompts \cup {Run} |-> H(c)]
  OBVIOUS
<1> QED BY <1>1, <1>2, <1>3 DEF Above!Goto

LEMMA AboveFinish ==
    ASSUME TypeOK, NEW from, NEW pc0, NEW r \in {"response", "cancelled", "error"}, Return(pc0, r),
           PcAbove = from, Said(rows') = Said(rows)
    PROVE  Above!Finish(Run, from, IF r = "response" THEN "response" ELSE "error")
<1>1. /\ PcAbove' = "cleanup" /\ sent' = sent
      /\ UNCHANGED <<queue, cancelled, registered>> /\ ret' = r /\ batch' = <<>>
  BY DEF Return, PcAbove
<1>2. Above!Goto(Run, from, "cleanup")
  BY <1>1, AboveGoto
<1>3. r # "none"
  OBVIOUS
<1> QED BY <1>1, <1>2, <1>3 DEF Above!Finish, Above!caller

LEMMA AboveSame ==
    ASSUME UNCHANGED <<PcAbove, registered, cancelled, queue, batch, sent, ret>>, Said(rows') = Said(rows)
    PROVE  UNCHANGED Above!vars
BY DEF Above!vars

LEMMA AboveMoves ==
    ASSUME NEW from, NEW to, PcAbove = from, PcAbove' = to, Said(rows') = Said(rows),
           UNCHANGED <<registered, cancelled, queue, batch, sent, ret>>
    PROVE  /\ from = "loop" /\ to = "stream" /\ ~cancelled => Above!BeginTurn(Run)
           /\ from = "stream" /\ to = "drainTool" => Above!TurnToolUse(Run)
           /\ from = "stream" /\ to = "drainEnd" => Above!TurnEnd(Run)
           /\ from \in {"recordTool", "recordEnd"} /\ to = "loop" /\ batch = <<>> => Above!RecordDone(Run)
<1>1. Above!Goto(Run, from, to)
  BY AboveGoto
<1> QED BY <1>1 DEF Above!BeginTurn, Above!TurnToolUse, Above!TurnEnd, Above!RecordDone, Above!store, Above!caller

LEMMA AboveStart == ASSUME TypeOK, CreateUser PROVE Above!Start(Run)
<1>1. /\ PcAbove = "start" /\ PcAbove' = "loop" /\ ~cancelled
      /\ UNCHANGED <<registered, cancelled, queue, batch, sent, ret>>
  BY DEF CreateUser, SayUser, PcAbove
<1>2. Said(rows') = Append(Said(rows), [prompt |-> Run, by |-> Run])
  BY SaidUser DEF CreateUser
<1>3. Above!Goto(Run, "start", "loop")
  BY <1>1, AboveGoto
<1>4. Above!CreateUserMessage(Run, Run)
  BY <1>1, <1>2 DEF Above!CreateUserMessage
<1> QED BY <1>1, <1>3, <1>4 DEF Above!Start, Above!caller

LEMMA AboveDrain ==
    ASSUME NEW from \in {"drainTool", "drainEnd"}, NEW to \in {"recordTool", "recordEnd"}, Drain(from, to)
    PROVE  Above!Drain(Run, from, to)
<1>1. /\ PcAbove = from /\ PcAbove' = to
      /\ UNCHANGED <<registered, cancelled, sent, rows, ret>> /\ batch' = queue /\ queue' = <<>>
  BY DEF Drain, PcAbove
<1>2. Above!Goto(Run, from, to)
  BY <1>1, AboveGoto
<1> QED BY <1>1, <1>2 DEF Above!Drain, Above!caller

LEMMA AboveRecord == ASSUME TypeOK, Record PROVE Above!Record(Run)
<1>1. /\ PcAbove = pc /\ PcAbove' = PcAbove /\ pc \in {"recordTool", "recordEnd"} /\ batch # <<>>
      /\ UNCHANGED <<registered, cancelled, queue, sent, ret>> /\ batch' = Tail(batch)
  BY DEF Record, PcAbove
<1>2. Above!Skips(Run) <=> Skips
  BY <1>1 DEF Above!Skips, Skips
<1>3. CASE Skips
  <2>1. rows' = rows
    BY <1>3 DEF Record
  <2> QED BY <1>1, <1>2, <1>3, <2>1 DEF Above!Record, Above!caller
<1>4. CASE ~Skips
  <2>1. Head(batch) \in Prompts
    BY <1>1 DEF TypeOK
  <2>2. SayUser(Head(batch)) /\ ~cancelled
    BY <1>4 DEF Record, SayUser
  <2>3. Said(rows') = Append(Said(rows), [prompt |-> Head(batch), by |-> Run])
    BY <2>1, <2>2, SaidUser
  <2>4. Above!CreateUserMessage(Run, Head(batch))
    BY <2>2, <2>3 DEF Above!CreateUserMessage
  <2> QED BY <1>1, <1>2, <1>4, <2>4 DEF Above!Record, Above!caller
<1> QED BY <1>3, <1>4

LEMMA AboveEnqueue ==
    ASSUME TypeOK, NEW p \in Prompts, Enqueue(p) PROVE Above!Enqueue(p)
<1>1. /\ UNCHANGED <<PcAbove, cancelled, registered, batch, rows, ret>> /\ sent' = sent \cup {p}
      /\ p \notin sent /\ p # Run /\ queue' = Append(queue, p)
  BY RunAssumption DEF Enqueue, PcAbove
<1> DEFINE G(c) == IF c = Run THEN PcAbove ELSE IF c \in sent THEN "queued" ELSE "enqueue"
           f == [c \in Prompts \cup {Run} |-> G(c)]
           H(c) == IF c = p THEN "queued" ELSE G(c)
<1>2. f[p] = "enqueue"
  BY <1>1
<1>3. f' = [c \in Prompts \cup {Run} |-> H(c)]
  BY <1>1
<1>4. [f EXCEPT ![p] = "queued"] = [c \in Prompts \cup {Run} |-> H(c)]
  OBVIOUS
<1>5. Above!Goto(p, "enqueue", "queued")
  BY <1>2, <1>3, <1>4 DEF Above!Goto
<1> QED BY <1>1, <1>5 DEF Above!Enqueue

LEMMA AboveCallerCancel == ASSUME TypeOK, CallerCancel PROVE Above!CallerCancel(Run)
<1>1. /\ UNCHANGED <<PcAbove, registered, batch, queue, sent, rows, ret>> /\ ~cancelled /\ cancelled' = TRUE
      /\ PcAbove \in Above!InTurns
  BY DEF CallerCancel, PcAbove, TypeOK, Above!InTurns
<1> QED BY <1>1 DEF Above!CallerCancel, Above!store, Above!caller

LEMMA AboveCancel == ASSUME TypeOK, CancelSession PROVE Above!Cancel("session")
<1>1. /\ UNCHANGED <<PcAbove, batch, sent, rows, ret>> /\ queue' = <<>> /\ registered' = FALSE
      /\ cancelled' = (cancelled \/ registered)
  BY DEF CancelSession, PcAbove
<1> DEFINE owner == IF registered THEN Run ELSE "none"
           G(c) == c = Run /\ cancelled
           H(c) == G(c) \/ c = owner
<1>2. \A c \in Prompts \cup {Run} : (c = Run /\ cancelled') = H(c)
  BY <1>1, RunAssumption DEF TypeOK
<1>3. [c \in Prompts \cup {Run} |-> c = Run /\ cancelled'] = [c \in Prompts \cup {Run} |-> H(c)]
  BY <1>2, Zenon
<1>4. Above!CancelSession("session")
  BY <1>1, <1>3 DEF Above!CancelSession
<1> QED BY <1>4 DEF Above!Cancel

\* The steps AgentRuns sees, and those it does not.
LEMMA TurnAbove ==
    ASSUME TurnInv, RunStep \/ ToolStep
    PROVE  Above!TurnStep(Run) \/ UNCHANGED Above!vars
<1>0. TypeOK /\ [Next]_vars
  BY DEF TurnInv, Next
<1>1. CASE CreateUser
  BY <1>0, <1>1, AboveStart DEF Above!TurnStep
<1>2. CASE Record
  BY <1>0, <1>2, AboveRecord DEF Above!TurnStep
<1>3. CASE DrainTool
  BY <1>3, AboveDrain DEF DrainTool, Above!DrainTool, Above!TurnStep
<1>4. CASE DrainEnd
  BY <1>4, AboveDrain DEF DrainEnd, Above!DrainEnd, Above!TurnStep
<1> SUFFICES ASSUME ~CreateUser, ~Record, ~DrainTool, ~DrainEnd
             PROVE  Above!TurnStep(Run) \/ UNCHANGED Above!vars
  BY <1>1, <1>2, <1>3, <1>4
<1>5. Said(rows') = Said(rows)
  <2>1. pc \notin {"createUser", "recordTool", "recordEnd"} \/ rows' = rows
    BY DEF RunStep, ToolStep, ToolReturns, List, StartFails, LoopCancelled, LoopContinues, CreateAssistant,
           CreateAssistantFails, EventDelta, EventComplete, Track, StreamInterrupted, StreamFails,
           Interrupted, Failed, StreamCloses, ToolsCancelled, LeavesTools, ToolNotFound, ToolStarts,
           ToolsDone, CreateTool, CreateToolFails, ContinueWithTools, EndTurn, Answer, NoReason,
           DrainNothing, RecordFails, RecordDone, ReturnBroken, ReturnDone, Return
  <2> QED BY <1>0, <2>1, SaidKept
<1>6. ASSUME NEW pc0, NEW r \in {"response", "cancelled", "error"}, Return(pc0, r)
      PROVE  /\ pc = pc0 /\ Above!Finish(Run, PcAbove, IF r = "response" THEN "response" ELSE "error")
  BY <1>0, <1>5, <1>6, AboveFinish DEF Return
<1>7. CASE StartFails
  <2>1. PcAbove = "start" /\ \E from : Return(from, "error")
    BY <1>7 DEF StartFails, ReturnBroken, ReturnDone, Return, PcAbove
  <2> QED BY <1>6, <2>1 DEF Above!StartFails, Above!TurnStep
<1>8. CASE LoopCancelled
  <2>1. PcAbove = "loop" /\ Return("loop", "error") /\ cancelled
    BY <1>8 DEF LoopCancelled, ReturnDone, Return, PcAbove
  <2> QED BY <1>6, <2>1 DEF Above!LoopCancelled, Above!TurnStep
<1>9. CASE CreateAssistantFails \/ Interrupted \/ Failed \/ CreateToolFails \/ NoReason
  <2>1. PcAbove = "stream" /\ \E from : Return(from, "error") \/ Return(from, "cancelled")
    BY <1>9 DEF CreateAssistantFails, Interrupted, Failed, CreateToolFails, NoReason, ReturnBroken,
                Return, PcAbove
  <2> QED BY <1>6, <2>1 DEF Above!TurnFails, Above!TurnStep
<1>10. CASE Answer
  <2>1. PcAbove = "stream" /\ Return("after", "response")
    BY <1>10 DEF Answer, Return, PcAbove
  <2> QED BY <1>6, <2>1 DEF Above!TurnStop, Above!TurnStep
<1>11. CASE DrainNothing
  <2>1. PcAbove = "drainEnd" /\ Return("drainEnd", "response") /\ queue = <<>>
    BY <1>11 DEF DrainNothing, Return, PcAbove
  <2> QED BY <1>6, <2>1 DEF Above!DrainNothing, Above!TurnStep
<1>12. CASE RecordFails
  <2>1. /\ PcAbove = pc /\ pc \in {"recordTool", "recordEnd"} /\ batch # <<>> /\ ~Skips
        /\ \E from : Return(from, "error")
    BY <1>12 DEF RecordFails, ReturnBroken, ReturnDone, Return, PcAbove
  <2>2. Above!Skips(Run) <=> Skips
    BY <2>1 DEF Above!Skips, Skips
  <2> QED BY <1>6, <2>1, <2>2 DEF Above!RecordFails, Above!TurnStep
<1>13. CASE LoopContinues
  <2>1. /\ PcAbove = "loop" /\ PcAbove' = "stream" /\ ~cancelled
        /\ UNCHANGED <<registered, cancelled, queue, batch, sent, ret>>
    BY <1>13 DEF LoopContinues, PcAbove
  <2> QED BY <1>5, <2>1, AboveMoves DEF Above!TurnStep
<1>14. CASE ContinueWithTools
  <2>1. /\ PcAbove = "stream" /\ PcAbove' = "drainTool"
        /\ UNCHANGED <<registered, cancelled, queue, batch, sent, ret>>
    BY <1>14 DEF ContinueWithTools, PcAbove
  <2> QED BY <1>5, <2>1, AboveMoves DEF Above!TurnStep
<1>15. CASE EndTurn
  <2>1. /\ PcAbove = "stream" /\ PcAbove' = "drainEnd"
        /\ UNCHANGED <<registered, cancelled, queue, batch, sent, ret>>
    BY <1>15 DEF EndTurn, PcAbove
  <2> QED BY <1>5, <2>1, AboveMoves DEF Above!TurnStep
<1>16. CASE RecordDone
  <2>1. /\ PcAbove \in {"recordTool", "recordEnd"} /\ PcAbove' = "loop" /\ batch = <<>>
        /\ UNCHANGED <<registered, cancelled, queue, batch, sent, ret>>
    BY <1>16 DEF RecordDone, PcAbove
  <2> QED BY <1>5, <2>1, AboveMoves DEF Above!TurnStep
<1>17. CASE \/ List \/ CreateAssistant \/ EventDelta \/ EventComplete \/ Track \/ StreamInterrupted
            \/ StreamFails \/ StreamCloses \/ ToolsCancelled \/ ToolNotFound \/ ToolStarts \/ ToolStep
            \/ ToolsDone \/ CreateTool
  <2>1. UNCHANGED <<PcAbove, registered, cancelled, queue, batch, sent, ret>>
    BY <1>17 DEF List, CreateAssistant, EventDelta, EventComplete, Track, StreamInterrupted,
                 StreamFails, StreamCloses, ToolsCancelled, LeavesTools, ToolNotFound, ToolStarts,
                 ToolStep, ToolReturns, ToolsDone, CreateTool, PcAbove
  <2> QED BY <1>5, <2>1, AboveSame
<1> QED
  BY <1>7, <1>8, <1>9, <1>10, <1>11, <1>12, <1>13, <1>14, <1>15, <1>16, <1>17 DEF RunStep

\* The run with its stream and its tool loop is a run as AgentRuns has it, in
\* which each turn is one choice: whatever the provider, the tools and the
\* store do, every step is one that AgentRuns allows, or one it does not see.
THEOREM TurnsImplemented == Spec => StepsAreTurns
<1>1. TurnInv /\ [Next]_vars => [Above!Next]_(Above!vars)
  <2> SUFFICES ASSUME TurnInv, [Next]_vars PROVE Above!Next \/ UNCHANGED Above!vars
    OBVIOUS
  <2>0. TypeOK /\ Run \in Prompts \cup {Run} /\ "session" \in {"session"}
    BY DEF TurnInv
  <2>1. CASE RunStep \/ ToolStep
    BY <2>0, <2>1, TurnAbove DEF Above!Next
  <2>2. ASSUME NEW p \in Prompts, Enqueue(p) PROVE Above!Next
    BY <2>0, <2>2, AboveEnqueue DEF Above!RunStep, Above!Next
  <2>3. CASE CancelSession
    BY <2>0, <2>3, AboveCancel DEF Above!Next
  <2>4. CASE CallerCancel
    BY <2>0, <2>4, AboveCallerCancel DEF Above!CallerStep, Above!Next
  <2>5. CASE UNCHANGED vars
    <3>1. UNCHANGED <<PcAbove, registered, cancelled, queue, batch, sent, ret, rows>>
      BY <2>5 DEF vars, PcAbove
    <3> QED BY <3>1, AboveSame
  <2> QED BY <2>1, <2>2, <2>3, <2>4, <2>5 DEF Next, Environment
<1> QED BY <1>1, TurnHolds, PTL DEF Spec, StepsAreTurns
=============================================================================
