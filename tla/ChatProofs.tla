------------------------------ MODULE ChatProofs ------------------------------
(***************************************************************************)
(* Each result in the history of the chat program is the only one of its   *)
(* call and comes after it, however the requests overlap; and what is sent *)
(* while they follow each other is a conversation a provider accepts: for  *)
(* any requests, functions and bounds.                                     *)
(***************************************************************************)
EXTENDS Chat, FiniteSetTheorems, TLAPS

Asked(id) ==
    \E j \in DOMAIN chatHistory : \E n \in DOMAIN chatHistory[j].calls : chatHistory[j].calls[n].id = id

Answered(id) ==
    \E j \in DOMAIN chatHistory : chatHistory[j].role = "tool" /\ chatHistory[j].call = id

\* The calls request r still has to run are its own, of an earlier round than
\* the next, different from each other, in the history, and without a result.
PendingOf(r) ==
    \A i \in DOMAIN todo[r] :
        /\ todo[r][i].id[1] = r /\ todo[r][i].id[2] < rounds[r]
        /\ \A k \in DOMAIN todo[r] : todo[r][k].id = todo[r][i].id => k = i
        /\ ~Answered(todo[r][i].id)
        /\ clears = 0 => Asked(todo[r][i].id)

Pending == \A r \in Requests : PendingOf(r)

\* Only results are for a call, and for one of an earlier round than the next.
Earlier ==
    \A j \in DOMAIN chatHistory :
        IF chatHistory[j].role = "tool"
        THEN chatHistory[j].call \in Ids /\ chatHistory[j].call[2] < rounds[chatHistory[j].call[1]]
        ELSE chatHistory[j].call = NoCall

IInv == TypeOK /\ Pending /\ Earlier /\ ResultsFollowCalls

-----------------------------------------------------------------------------
(* The messages, and what it means to add one.                             *)

LEMMA IdIsCall == \A id \in Ids : id # NoCall
BY DEF Ids, NoCall

LEMMA MessageTypes ==
    /\ \A role \in {"user", "assistant"} : Text(role) \in Message /\ Text(role).role = role /\ Text(role).call = NoCall
    /\ \A calls \in Seq(Call) : /\ WithCalls(calls) \in Message /\ WithCalls(calls).role = "assistant"
                                /\ WithCalls(calls).call = NoCall /\ WithCalls(calls).calls = calls
    /\ \A id \in Ids : Result(id) \in Message /\ Result(id).role = "tool" /\ Result(id).call = id
<1>1. <<>> \in Seq(Call)
  OBVIOUS
<1>2. \A role \in {"user", "assistant"} : Text(role) \in Message /\ Text(role).role = role /\ Text(role).call = NoCall
  BY <1>1 DEF Text, Message
<1>3. \A calls \in Seq(Call) :
          WithCalls(calls) = [role |-> "assistant", calls |-> calls, call |-> NoCall]
  BY DEF WithCalls, Text
<1>4. \A id : Result(id) = [role |-> "tool", calls |-> <<>>, call |-> id]
  BY DEF Result, Text
<1>5. \A calls \in Seq(Call) : /\ WithCalls(calls) \in Message /\ WithCalls(calls).role = "assistant"
                                /\ WithCalls(calls).call = NoCall /\ WithCalls(calls).calls = calls
  BY <1>3 DEF Message
<1>6. \A id \in Ids : Result(id) \in Message /\ Result(id).role = "tool" /\ Result(id).call = id
  BY <1>1, <1>4 DEF Message
<1> QED BY <1>2, <1>5, <1>6

LEMMA Added ==
    ASSUME TypeOK, NEW m \in Message, Add(m)
    PROVE  /\ chatHistory' \in Seq(Message)
           /\ Len(chatHistory') = Len(chatHistory) + 1
           /\ \A j \in 1..Len(chatHistory) : chatHistory'[j] = chatHistory[j]
           /\ chatHistory'[Len(chatHistory) + 1] = m
BY DEF TypeOK, Add

LEMMA AddedCalls ==
    ASSUME TypeOK, NEW m \in Message, Add(m)
    PROVE  /\ \A id \in Ids : Asked(id) => Asked(id)'
           /\ \A id \in Ids : Answered(id)' => Answered(id) \/ (m.role = "tool" /\ m.call = id)
           /\ \A n \in DOMAIN m.calls : Asked(m.calls[n].id)'
<1>1. DOMAIN chatHistory = 1..Len(chatHistory) /\ DOMAIN chatHistory' = 1..(Len(chatHistory) + 1)
  BY Added DEF TypeOK
<1>2. Len(chatHistory) \in Nat
  BY DEF TypeOK
<1>3. \A id \in Ids : Asked(id) => Asked(id)'
  BY <1>1, <1>2, Added DEF Asked
<1>4. \A id \in Ids : Answered(id)' => Answered(id) \/ (m.role = "tool" /\ m.call = id)
  BY <1>1, <1>2, Added DEF Answered
<1>5. \A n \in DOMAIN m.calls : Asked(m.calls[n].id)'
  BY <1>1, <1>2, Added DEF Asked
<1> QED BY <1>3, <1>4, <1>5

-----------------------------------------------------------------------------
(* Type correctness.                                                       *)

LEMMA CallsType == \A r \in Requests : TypeOK => Calls(r) \subseteq Seq(Call)
<1> SUFFICES ASSUME NEW r \in Requests, TypeOK, NEW calls \in Calls(r)
             PROVE  calls \in Seq(Call)
  OBVIOUS
<1>1. PICK n \in 1..MaxCalls : \E f \in [1..n -> Names] :
          calls = [i \in 1..n |-> [id |-> <<r, rounds[r], i>>, name |-> f[i]]]
  BY DEF Calls
<1>2. PICK f \in [1..n -> Names] :
          calls = [i \in 1..n |-> [id |-> <<r, rounds[r], i>>, name |-> f[i]]]
  BY <1>1
<1>3. \A i \in 1..n : [id |-> <<r, rounds[r], i>>, name |-> f[i]] \in Call
  BY DEF TypeOK, Call, Ids
<1>4. calls \in [1..n -> Call] /\ n \in Nat
  BY <1>2, <1>3
<1> QED BY <1>4

\* The calls of an answer are of the current round, and different.
LEMMA CallsOfRound ==
    ASSUME NEW r \in Requests, TypeOK, NEW calls \in Calls(r)
    PROVE  /\ \A i \in DOMAIN calls : calls[i].id \in Ids /\ calls[i].id[1] = r /\ calls[i].id[2] = rounds[r]
           /\ \A i, k \in DOMAIN calls : calls[i].id = calls[k].id => k = i
<1>1. PICK n \in 1..MaxCalls : \E f \in [1..n -> Names] :
          calls = [i \in 1..n |-> [id |-> <<r, rounds[r], i>>, name |-> f[i]]]
  BY DEF Calls
<1>2. PICK f \in [1..n -> Names] :
          calls = [i \in 1..n |-> [id |-> <<r, rounds[r], i>>, name |-> f[i]]]
  BY <1>1
<1>3. \A i \in DOMAIN calls : i \in Nat /\ calls[i].id = <<r, rounds[r], i>>
  BY <1>2
<1>4. \A i \in DOMAIN calls : /\ calls[i].id \in Ids /\ calls[i].id[1] = r
                                /\ calls[i].id[2] = rounds[r] /\ calls[i].id[3] = i
  <2> TAKE i \in DOMAIN calls
  <2>1. rounds[r] \in Nat
    BY DEF TypeOK
  <2>2. i \in Nat /\ calls[i].id = <<r, rounds[r], i>>
    BY <1>3
  <2>3. <<r, rounds[r], i>> \in Ids
    BY <2>1, <2>2 DEF Ids
  <2> QED BY <2>2, <2>3
<1>5. \A i, k \in DOMAIN calls : calls[i].id = calls[k].id => k = i
  BY <1>4
<1> QED BY <1>4, <1>5

LEMMA TypeStep == TypeOK /\ [Next]_vars => TypeOK'
<1> SUFFICES ASSUME TypeOK, [Next]_vars PROVE TypeOK'
  OBVIOUS
<1>0. <<>> \in Seq(Message) /\ <<>> \in Seq(Call)
  OBVIOUS
<1>1. ASSUME NEW r \in Requests, Say(r) \/ Answer(r) PROVE TypeOK'
  <2>1. chatHistory' \in Seq(Message)
    BY <1>1, MessageTypes, Added DEF Say, Answer, TypeOK
  <2> QED BY <1>0, <1>1, <2>1 DEF Say, Answer, Goes, TypeOK
<1>2. ASSUME NEW r \in Requests, Ask(r) \/ Fail(r) \/ Recurse(r) PROVE TypeOK'
  BY <1>0, <1>2 DEF Ask, Fail, Recurse, Goes, TypeOK
<1>3. ASSUME NEW r \in Requests, CallTools(r) PROVE TypeOK'
  <2>1. PICK calls \in Calls(r) : Add(WithCalls(calls)) /\ todo' = [todo EXCEPT ![r] = calls]
    BY <1>3 DEF CallTools
  <2>2. calls \in Seq(Call)
    BY CallsType
  <2>3. chatHistory' \in Seq(Message)
    BY <2>1, <2>2, MessageTypes, Added
  <2>4. rounds' \in [Requests -> Nat]
    BY <1>3 DEF CallTools, TypeOK
  <2> QED BY <1>0, <1>3, <2>1, <2>2, <2>3, <2>4 DEF CallTools, Goes, TypeOK
<1>4. ASSUME NEW r \in Requests, Execute(r) PROVE TypeOK'
  <2>1. Head(todo[r]) \in Call /\ Tail(todo[r]) \in Seq(Call)
    BY <1>4 DEF Execute, TypeOK
  <2>2. Head(todo[r]).id \in Ids
    BY <2>1 DEF Call
  <2>3. chatHistory' \in Seq(Message)
    BY <1>4, <2>2, MessageTypes, Added DEF Execute, AddResult, TypeOK
  <2> QED BY <1>4, <2>1, <2>3 DEF Execute, TypeOK
<1>5. CASE ClearChatHistory
  BY <1>0, <1>5 DEF ClearChatHistory, TypeOK
<1>6. CASE UNCHANGED vars
  BY <1>6 DEF vars, TypeOK
<1> QED BY <1>1, <1>2, <1>3, <1>4, <1>5, <1>6 DEF Next

LEMMA TypeInit == Init => TypeOK
<1>1. <<>> \in Seq(Message) /\ <<>> \in Seq(Call)
  OBVIOUS
<1> SUFFICES ASSUME Init PROVE TypeOK
  OBVIOUS
<1>2. pc \in [Requests -> {"new", "ask", "wait", "run", "done", "failed"}] /\ rounds \in [Requests -> Nat]
  BY DEF Init
<1>3. sent \in [Requests -> Seq(Message)] /\ todo \in [Requests -> Seq(Call)]
  BY <1>1 DEF Init
<1>4. chatHistory \in Seq(Message) /\ clears \in Nat /\ overlap \in BOOLEAN
  BY <1>1 DEF Init
<1> QED BY <1>2, <1>3, <1>4 DEF TypeOK

\* The history holds messages, and each request its own calls and rounds.
THEOREM TypeCorrect == Spec => []TypeOK
BY TypeInit, TypeStep, PTL DEF Spec

-----------------------------------------------------------------------------
(* The steps, first on the history and then on the calls still to run.     *)

\* The history as it was, or with a message that is not a result.
Quiet == \/ UNCHANGED chatHistory
         \/ \E m \in Message : m.role # "tool" /\ m.call = NoCall /\ Add(m)

Growing == /\ rounds' \in [Requests -> Nat]
           /\ \A q \in Requests : rounds[q] <= rounds'[q]

LEMMA QuietHistory ==
    ASSUME IInv, Quiet, Growing, UNCHANGED clears
    PROVE  Earlier' /\ ResultsFollowCalls'
<1>1. CASE UNCHANGED chatHistory
  <2>1. Earlier'
    BY <1>1 DEF IInv, TypeOK, Earlier, Growing, Ids
  <2> QED BY <1>1, <2>1 DEF IInv, ResultsFollowCalls
<1>2. ASSUME NEW m \in Message, m.role # "tool", m.call = NoCall, Add(m)
      PROVE  Earlier' /\ ResultsFollowCalls'
  <2>1. Len(chatHistory) \in Nat /\ DOMAIN chatHistory = 1..Len(chatHistory)
    BY DEF IInv, TypeOK
  <2>2. /\ DOMAIN chatHistory' = 1..(Len(chatHistory) + 1)
        /\ \A j \in 1..Len(chatHistory) : chatHistory'[j] = chatHistory[j]
        /\ chatHistory'[Len(chatHistory) + 1] = m
    BY <1>2, Added DEF IInv
  <2>3. \A j \in DOMAIN chatHistory' : chatHistory'[j].role = "tool" => j \in DOMAIN chatHistory
    BY <1>2, <2>1, <2>2
  <2>4. Earlier'
    <3> SUFFICES ASSUME NEW j \in DOMAIN chatHistory'
                 PROVE  IF chatHistory'[j].role = "tool"
                        THEN chatHistory'[j].call \in Ids /\ chatHistory'[j].call[2] < rounds'[chatHistory'[j].call[1]]
                        ELSE chatHistory'[j].call = NoCall
      BY DEF Earlier
    <3>1. CASE j \in DOMAIN chatHistory
      BY <2>1, <2>2, <3>1 DEF IInv, TypeOK, Earlier, Growing, Ids
    <3>2. CASE j = Len(chatHistory) + 1
      BY <1>2, <2>2, <3>2
    <3> QED BY <2>1, <2>2, <3>1, <3>2
  <2>5. ResultsFollowCalls'
    BY <2>1, <2>2, <2>3 DEF IInv, ResultsFollowCalls
  <2> QED BY <2>4, <2>5
<1> QED BY <1>1, <1>2 DEF Quiet

LEMMA QuietCalls ==
    ASSUME IInv, Quiet
    PROVE  \A id \in Ids : (Asked(id) => Asked(id)') /\ (Answered(id)' => Answered(id))
<1>1. CASE UNCHANGED chatHistory
  BY <1>1 DEF Asked, Answered
<1>2. ASSUME NEW m \in Message, m.role # "tool", m.call = NoCall, Add(m)
      PROVE  \A id \in Ids : (Asked(id) => Asked(id)') /\ (Answered(id)' => Answered(id))
  BY <1>2, AddedCalls DEF IInv
<1> QED BY <1>1, <1>2 DEF Quiet

LEMMA CallsToRun ==
    ASSUME TypeOK, NEW q \in Requests, NEW i \in DOMAIN todo[q]
    PROVE  todo[q][i] \in Call /\ todo[q][i].id \in Ids
<1>1. todo[q] \in Seq(Call)
  BY DEF TypeOK
<1>2. todo[q][i] \in Call
  BY <1>1
<1> QED BY <1>2 DEF Call

\* A request that does not move keeps its calls.
LEMMA PendingKept ==
    ASSUME IInv, Growing, UNCHANGED clears, NEW q \in Requests, todo'[q] = todo[q],
           \A id \in Ids : (Asked(id) => Asked(id)') /\ (id[1] = q /\ Answered(id)' => Answered(id))
    PROVE  PendingOf(q)'
<1>1. \A i \in DOMAIN todo[q] : todo[q][i].id \in Ids /\ todo[q][i] \in Call
  BY CallsToRun DEF IInv
<1>2. PendingOf(q) /\ rounds[q] \in Nat /\ rounds'[q] \in Nat /\ rounds[q] <= rounds'[q]
  BY DEF IInv, Pending, TypeOK, Growing
<1> SUFFICES ASSUME NEW i \in DOMAIN todo[q]
             PROVE  /\ todo[q][i].id[1] = q /\ todo[q][i].id[2] < rounds'[q]
                    /\ \A k \in DOMAIN todo[q] : todo[q][k].id = todo[q][i].id => k = i
                    /\ ~Answered(todo[q][i].id)'
                    /\ clears = 0 => Asked(todo[q][i].id)'
  BY DEF PendingOf
<1> QED BY <1>1, <1>2 DEF PendingOf, Ids

LEMMA QuietStep ==
    ASSUME IInv, Quiet, UNCHANGED <<todo, rounds, clears>>
    PROVE  Pending' /\ Earlier' /\ ResultsFollowCalls'
<1>1. Growing
  BY DEF IInv, TypeOK, Growing
<1>2. ASSUME NEW q \in Requests PROVE PendingOf(q)'
  BY <1>1, PendingKept, QuietCalls
<1> QED BY <1>1, <1>2, QuietHistory DEF Pending

LEMMA CallToolsStep ==
    ASSUME IInv, NEW r \in Requests, CallTools(r)
    PROVE  Pending' /\ Earlier' /\ ResultsFollowCalls'
<1>1. PICK calls \in Calls(r) : Add(WithCalls(calls)) /\ todo' = [todo EXCEPT ![r] = calls]
  BY DEF CallTools
<1>2. calls \in Seq(Call) /\ WithCalls(calls) \in Message /\ WithCalls(calls).calls = calls
      /\ WithCalls(calls).role # "tool" /\ WithCalls(calls).call = NoCall
  BY CallsType, MessageTypes DEF IInv
<1>3. Quiet
  BY <1>1, <1>2 DEF Quiet
<1>4. /\ Growing /\ UNCHANGED clears
      /\ rounds[r] \in Nat /\ rounds'[r] = rounds[r] + 1
  BY DEF CallTools, IInv, TypeOK, Growing
<1>5. todo'[r] = calls /\ \A q \in Requests \ {r} : todo'[q] = todo[q]
  BY <1>1 DEF IInv, TypeOK
<1>6. ASSUME NEW q \in Requests \ {r} PROVE PendingOf(q)'
  BY <1>3, <1>4, <1>5, PendingKept, QuietCalls
<1>7. PendingOf(r)'
  <2>1. \A i \in DOMAIN calls : calls[i].id \in Ids /\ calls[i].id[1] = r /\ calls[i].id[2] = rounds[r]
    BY CallsOfRound DEF IInv
  <2>2. \A i, k \in DOMAIN calls : calls[i].id = calls[k].id => k = i
    BY CallsOfRound DEF IInv
  <2>3. \A i \in DOMAIN calls : ~Answered(calls[i].id)
    BY <1>4, <2>1 DEF IInv, Earlier, Answered
  <2>4. \A i \in DOMAIN calls : ~Answered(calls[i].id)'
    BY <1>3, <2>1, <2>3, QuietCalls
  <2>5. \A i \in DOMAIN calls : Asked(calls[i].id)'
    BY <1>1, <1>2, AddedCalls DEF IInv
  <2> QED BY <1>4, <1>5, <2>1, <2>2, <2>4, <2>5 DEF PendingOf
<1>8. Earlier' /\ ResultsFollowCalls'
  BY <1>3, <1>4, QuietHistory
<1> QED BY <1>6, <1>7, <1>8 DEF Pending

LEMMA ExecuteStep ==
    ASSUME IInv, NEW r \in Requests, Execute(r)
    PROVE  Pending' /\ Earlier' /\ ResultsFollowCalls'
<1> DEFINE id == Head(todo[r]).id
<1>1. /\ todo[r] \in Seq(Call) /\ todo[r] # <<>> /\ UNCHANGED <<rounds, clears>>
      /\ todo'[r] = Tail(todo[r]) /\ \A q \in Requests \ {r} : todo'[q] = todo[q]
  BY DEF Execute, IInv, TypeOK
<1>2. 1 \in DOMAIN todo[r] /\ Head(todo[r]) = todo[r][1] /\ id \in Ids
  <2>1. 1 \in DOMAIN todo[r] /\ Head(todo[r]) = todo[r][1]
    BY <1>1
  <2> QED BY <2>1, CallsToRun DEF IInv
<1>3. id[1] = r /\ id[2] < rounds[r] /\ ~Answered(id) /\ (clears = 0 => Asked(id))
  BY <1>2 DEF IInv, Pending, PendingOf
<1>4. Growing
  BY <1>1 DEF IInv, TypeOK, Growing
<1>5. UNCHANGED chatHistory \/ Add(Result(id))
  BY DEF Execute, AddResult
<1>6. \A x \in Ids : (Asked(x) => Asked(x)') /\ (Answered(x)' => Answered(x) \/ x = id)
  <2>1. CASE UNCHANGED chatHistory
    BY <2>1 DEF Asked, Answered
  <2>2. CASE Add(Result(id))
    BY <1>2, <2>2, AddedCalls, MessageTypes DEF IInv
  <2> QED BY <1>5, <2>1, <2>2
<1>7. ASSUME NEW q \in Requests \ {r} PROVE PendingOf(q)'
  BY <1>1, <1>3, <1>4, <1>6, PendingKept
<1>8. PendingOf(r)'
  <2>0. Tail(todo[r]) \in Seq(Call)
    BY <1>1
  <2>1. PICK rest \in Seq(Call) : rest = Tail(todo[r])
    BY <2>0
  <2>2. todo'[r] = rest
    BY <1>1, <2>1
  <2>3. \A i \in DOMAIN rest : i \in Nat /\ i + 1 \in DOMAIN todo[r] /\ rest[i] = todo[r][i + 1] /\ i + 1 # 1
    BY <1>1, <2>1
  <2>4. PendingOf(r)
    BY DEF IInv, Pending
  <2>5. \A i \in DOMAIN rest : rest[i].id \in Ids /\ rest[i].id # id
    BY <1>2, <2>3, <2>4, CallsToRun DEF IInv, PendingOf
  <2>6. \A i \in DOMAIN rest : ~Answered(rest[i].id) /\ (clears = 0 => Asked(rest[i].id))
    BY <2>3, <2>4 DEF PendingOf
  <2>7. \A i \in DOMAIN rest : ~Answered(rest[i].id)' /\ (clears = 0 => Asked(rest[i].id)')
    BY <1>6, <2>5, <2>6
  <2>8. \A i, k \in DOMAIN rest : rest[k].id = rest[i].id => k = i
    BY <2>3, <2>4 DEF PendingOf
  <2>9. \A i \in DOMAIN rest : rest[i].id[1] = r /\ rest[i].id[2] < rounds[r]
    BY <2>3, <2>4 DEF PendingOf
  <2> QED BY <1>1, <2>2, <2>7, <2>8, <2>9 DEF PendingOf
<1>9. Earlier' /\ ResultsFollowCalls'
  <2>1. CASE UNCHANGED chatHistory
    BY <1>1, <1>4, <2>1, QuietHistory DEF Quiet
  <2>2. CASE Add(Result(id))
    <3>1. Len(chatHistory) \in Nat /\ DOMAIN chatHistory = 1..Len(chatHistory)
      BY DEF IInv, TypeOK
    <3>2. /\ DOMAIN chatHistory' = 1..(Len(chatHistory) + 1)
          /\ \A j \in 1..Len(chatHistory) : chatHistory'[j] = chatHistory[j]
          /\ chatHistory'[Len(chatHistory) + 1] = Result(id)
      BY <1>2, <2>2, <3>1, Added, MessageTypes DEF IInv
    <3>3. Result(id).role = "tool" /\ Result(id).call = id
      BY <1>2, MessageTypes
    <3>4. Earlier'
      BY <1>1, <1>2, <1>3, <3>1, <3>2, <3>3 DEF IInv, Earlier
    <3>5. \A k \in 1..Len(chatHistory) : chatHistory[k].call # id
      BY <1>2, <1>3, <3>1, IdIsCall DEF IInv, Earlier, Answered
    <3>6. clears = 0 => \E i \in 1..Len(chatHistory) : \E n \in DOMAIN chatHistory[i].calls :
                            chatHistory[i].calls[n].id = id
      BY <1>3, <3>1 DEF Asked
    <3> HIDE DEF id
    <3>7. ResultsFollowCalls'
      <4> SUFFICES ASSUME NEW j \in DOMAIN chatHistory', chatHistory'[j].role = "tool"
                   PROVE  /\ \A k \in 1..(j - 1) : chatHistory'[k].call # chatHistory'[j].call
                          /\ clears = 0 => \E i \in 1..(j - 1) : \E n \in DOMAIN chatHistory'[i].calls :
                                               chatHistory'[i].calls[n].id = chatHistory'[j].call
        BY <1>1 DEF ResultsFollowCalls
      <4>1. CASE j \in 1..Len(chatHistory)
        BY <3>1, <3>2, <4>1 DEF IInv, ResultsFollowCalls
      <4>2. CASE j = Len(chatHistory) + 1
        BY <3>1, <3>2, <3>3, <3>5, <3>6, <4>2
      <4> QED BY <3>2, <4>1, <4>2
    <3> QED BY <3>4, <3>7
  <2> QED BY <1>5, <2>1, <2>2
<1> QED BY <1>7, <1>8, <1>9 DEF Pending

LEMMA ClearStep ==
    ASSUME IInv, ClearChatHistory
    PROVE  Pending' /\ Earlier' /\ ResultsFollowCalls'
<1>1. DOMAIN chatHistory' = {} /\ clears' # 0 /\ UNCHANGED <<todo, rounds>>
  BY DEF ClearChatHistory, IInv, TypeOK
<1>2. Earlier' /\ ResultsFollowCalls'
  BY <1>1 DEF Earlier, ResultsFollowCalls
<1>3. Pending'
  BY <1>1 DEF IInv, Pending, PendingOf, Answered
<1> QED BY <1>2, <1>3

LEMMA InvStep == IInv /\ [Next]_vars => IInv'
<1> SUFFICES ASSUME IInv, [Next]_vars PROVE IInv'
  OBVIOUS
<1>1. TypeOK'
  BY TypeStep DEF IInv
<1>2. ASSUME NEW r \in Requests, Say(r) \/ Ask(r) \/ Fail(r) \/ Answer(r) \/ Recurse(r)
      PROVE  Pending' /\ Earlier' /\ ResultsFollowCalls'
  <2>1. Quiet
    BY <1>2, MessageTypes DEF Say, Ask, Fail, Answer, Recurse, Quiet
  <2>2. UNCHANGED <<todo, rounds, clears>>
    BY <1>2 DEF Say, Ask, Fail, Answer, Recurse
  <2> QED BY <2>1, <2>2, QuietStep
<1>3. ASSUME UNCHANGED vars PROVE Pending' /\ Earlier' /\ ResultsFollowCalls'
  BY <1>3, QuietStep DEF vars, Quiet
<1>4. Pending' /\ Earlier' /\ ResultsFollowCalls'
  BY <1>2, <1>3, CallToolsStep, ExecuteStep, ClearStep DEF Next
<1> QED BY <1>1, <1>4 DEF IInv

\* However requests overlap and fail, a result in the history is the only one of
\* its call, and after the answer that has the call unless the history was
\* cleared: SendChatMessageWithTools adds the answer before it runs the calls.
THEOREM ResultsInOrder == Spec => []ResultsFollowCalls
<1>1. Init => IInv
  <2> SUFFICES ASSUME Init PROVE IInv
    OBVIOUS
  <2>1. TypeOK
    BY TypeInit
  <2>2. DOMAIN chatHistory = {} /\ \A r \in Requests : DOMAIN todo[r] = {}
    BY DEF Init
  <2> QED BY <2>1, <2>2 DEF IInv, Pending, PendingOf, Earlier, ResultsFollowCalls
<1>2. IInv => ResultsFollowCalls
  BY DEF IInv
<1> QED BY <1>1, <1>2, InvStep, PTL DEF Spec

-----------------------------------------------------------------------------
(* What is sent, while requests follow each other.                         *)

\* Every answer has all its results.
Whole(s) ==
    /\ ResultsPlaced(s)
    /\ \A i \in DOMAIN s : s[i].role = "assistant" =>
          /\ ResultsOf(s, i, Len(s[i].calls))
          /\ i + NamedUpTo(s[i], Len(s[i].calls)) <= Len(s)

\* The last answer is at i, and n of its calls have their results.
PartAt(s, left, i, n) ==
    /\ s[i].role = "assistant"
    /\ \A k \in 1..(i - 1) : s[k].role = "assistant" =>
          /\ ResultsOf(s, k, Len(s[k].calls))
          /\ k + NamedUpTo(s[k], Len(s[k].calls)) < i
    /\ \A k \in (i + 1)..Len(s) : s[k].role # "assistant"
    /\ n + Len(left) = Len(s[i].calls)
    /\ \A k \in DOMAIN left : left[k] = s[i].calls[n + k]
    /\ ResultsOf(s, i, n)
    /\ i + NamedUpTo(s[i], n) = Len(s)

\* Every answer but the last one has all its results, and that one those of the
\* calls that are not left.
Partial(s, left) ==
    /\ ResultsPlaced(s)
    /\ s # <<>> /\ s[Len(s)].role \in {"assistant", "tool"}
    /\ \E i \in DOMAIN s : \E n \in 0..Len(s[i].calls) : PartAt(s, left, i, n)

LEMMA NamedCount ==
    ASSUME NEW m
    PROVE  /\ \A n \in Nat : NamedUpTo(m, n) \in Nat
           /\ NamedUpTo(m, 0) = 0
           /\ \A n \in Nat : NamedUpTo(m, n + 1) =
                 NamedUpTo(m, n) + (IF m.calls[n + 1].name # Nameless THEN 1 ELSE 0)
<1> DEFINE named(n) == {k \in 1..n : m.calls[k].name # Nameless}
<1>1. \A n \in Nat : IsFiniteSet(named(n)) /\ Cardinality(named(n)) \in Nat
  <2> TAKE n \in Nat
  <2>1. IsFiniteSet(1..n) /\ named(n) \in SUBSET (1..n)
    BY FS_Interval
  <2>2. IsFiniteSet(named(n))
    BY <2>1, FS_Subset
  <2> QED BY <2>2, FS_CardinalityType
<1>2. named(0) = {}
  OBVIOUS
<1>3. ASSUME NEW n \in Nat
      PROVE  Cardinality(named(n + 1)) =
                 Cardinality(named(n)) + (IF m.calls[n + 1].name # Nameless THEN 1 ELSE 0)
  <2>1. CASE m.calls[n + 1].name # Nameless
    <3>1. named(n + 1) = named(n) \cup {n + 1} /\ n + 1 \notin named(n)
      BY <2>1
    <3> HIDE DEF named
    <3>2. Cardinality(named(n) \cup {n + 1}) = Cardinality(named(n)) + 1
      BY <1>1, <3>1, FS_AddElement
    <3> QED BY <2>1, <3>1, <3>2
  <2>2. CASE m.calls[n + 1].name = Nameless
    <3>1. named(n + 1) = named(n)
      BY <2>2
    <3> HIDE DEF named
    <3> QED BY <1>1, <2>2, <3>1
  <2> QED BY <2>1, <2>2
<1>4. Cardinality(named(0)) = 0
  BY <1>2, FS_EmptySet
<1> QED BY <1>1, <1>3, <1>4 DEF NamedUpTo

LEMMA CallsCounted ==
    ASSUME NEW s \in Seq(Message), NEW k \in 1..Len(s)
    PROVE  Len(s[k].calls) \in Nat /\ NamedUpTo(s[k], Len(s[k].calls)) \in Nat
<1>1. s[k] \in Message
  OBVIOUS
<1>2. Len(s[k].calls) \in Nat
  BY <1>1 DEF Message
<1> QED BY <1>2, NamedCount

\* Behind a history with a message more, results are as before, unless the new
\* message is a result and directly behind them.
LEMMA ResultsKept ==
    ASSUME NEW s \in Seq(Message), NEW m \in Message, NEW i \in DOMAIN s, NEW n \in Nat,
           ResultsOf(s, i, n), i + NamedUpTo(s[i], n) < Len(s) \/ m.role # "tool"
    PROVE  ResultsOf(Append(s, m), i, n)
<1> DEFINE t == Append(s, m)
<1>1. /\ DOMAIN s = 1..Len(s) /\ DOMAIN t = 1..(Len(s) + 1) /\ Len(s) \in Nat
      /\ t[Len(s) + 1] = m /\ \A k \in 1..Len(s) : t[k] = s[k]
  OBVIOUS
<1> HIDE DEF t
<1>2. NamedUpTo(s[i], n) \in Nat
  BY NamedCount
<1>3. ResultsOf(t, i, n)
  BY <1>1, <1>2 DEF ResultsOf
<1> QED BY <1>3 DEF t

LEMMA PlacedKept ==
    ASSUME NEW s \in Seq(Message), NEW m \in Message, ResultsPlaced(s),
           m.role # "tool" \/ (s # <<>> /\ s[Len(s)].role \in {"assistant", "tool"})
    PROVE  ResultsPlaced(Append(s, m))
<1> DEFINE t == Append(s, m)
<1>1. /\ DOMAIN s = 1..Len(s) /\ DOMAIN t = 1..(Len(s) + 1) /\ Len(s) \in Nat
      /\ t[Len(s) + 1] = m /\ (\A k \in 1..Len(s) : t[k] = s[k]) /\ (s # <<>> => Len(s) > 0)
  OBVIOUS
<1> HIDE DEF t
<1>2. ResultsPlaced(t)
  BY <1>1 DEF ResultsPlaced
<1> QED BY <1>2 DEF t

\* A message without calls that is no result.
LEMMA WholeKept ==
    ASSUME NEW s \in Seq(Message), Whole(s), NEW m \in Message, m.role # "tool",
           m.role = "assistant" => m.calls = <<>>
    PROVE  Whole(Append(s, m))
<1> DEFINE t == Append(s, m)
<1>1. /\ DOMAIN s = 1..Len(s) /\ DOMAIN t = 1..(Len(s) + 1) /\ Len(s) \in Nat /\ Len(t) = Len(s) + 1
      /\ t[Len(s) + 1] = m /\ \A k \in 1..Len(s) : t[k] = s[k]
  OBVIOUS
<1>2. ResultsPlaced(t)
  BY PlacedKept DEF Whole
<1>3. \A i \in 1..Len(s) : s[i].role = "assistant" => Len(s[i].calls) \in Nat
  BY <1>1 DEF Message
<1>4. ASSUME NEW i \in 1..Len(s), s[i].role = "assistant"
      PROVE  ResultsOf(t, i, Len(t[i].calls)) /\ i + NamedUpTo(t[i], Len(t[i].calls)) <= Len(t)
  <2> DEFINE n == Len(s[i].calls)
  <2>1. n \in Nat /\ ResultsOf(s, i, n) /\ i + NamedUpTo(s[i], n) <= Len(s) /\ t[i] = s[i]
    BY <1>1, <1>3, <1>4 DEF Whole
  <2> HIDE DEF n
  <2>2. ResultsOf(t, i, n) /\ NamedUpTo(s[i], n) \in Nat
    BY <1>1, <2>1, ResultsKept, NamedCount
  <2> QED BY <1>1, <2>1, <2>2 DEF n
<1> HIDE DEF t
<1>5. ASSUME m.role = "assistant"
      PROVE  /\ ResultsOf(t, Len(s) + 1, Len(m.calls))
             /\ Len(s) + 1 + NamedUpTo(m, Len(m.calls)) <= Len(t)
  <2>1. Len(m.calls) = 0 /\ NamedUpTo(m, 0) = 0
    BY <1>5, NamedCount
  <2> QED BY <1>1, <2>1 DEF ResultsOf
<1>6. Whole(t)
  BY <1>1, <1>2, <1>4, <1>5 DEF Whole
<1> QED BY <1>6 DEF t

LEMMA NothingIsWhole == Whole(<<>>)
BY DEF Whole, ResultsPlaced

\* An answer with calls, none of which has run.
LEMMA CallsBegin ==
    ASSUME NEW s \in Seq(Message), Whole(s), NEW m \in Message, m.role = "assistant"
    PROVE  Partial(Append(s, m), m.calls)
<1> DEFINE t == Append(s, m)
           i == Len(s) + 1
<1>1. /\ DOMAIN s = 1..Len(s) /\ DOMAIN t = 1..i /\ Len(s) \in Nat /\ Len(t) = i /\ t # <<>>
      /\ t[i] = m /\ \A k \in 1..Len(s) : t[k] = s[k]
  OBVIOUS
<1>2. ResultsPlaced(t)
  BY PlacedKept DEF Whole
<1>3. \A k \in 1..Len(s) : s[k].role = "assistant" => Len(s[k].calls) \in Nat
  BY <1>1 DEF Message
<1>4. ASSUME NEW k \in 1..Len(s), s[k].role = "assistant"
      PROVE  ResultsOf(t, k, Len(t[k].calls)) /\ k + NamedUpTo(t[k], Len(t[k].calls)) < i
  <2> DEFINE n == Len(s[k].calls)
  <2>1. n \in Nat /\ ResultsOf(s, k, n) /\ k + NamedUpTo(s[k], n) <= Len(s) /\ t[k] = s[k]
    BY <1>1, <1>3, <1>4 DEF Whole
  <2> HIDE DEF n
  <2>2. ResultsOf(t, k, n) /\ NamedUpTo(s[k], n) \in Nat
    BY <1>1, <2>1, ResultsKept, NamedCount
  <2> QED BY <1>1, <2>1, <2>2 DEF n
<1> HIDE DEF t
<1>5. Len(m.calls) \in Nat /\ NamedUpTo(m, 0) = 0
  BY NamedCount DEF Message
<1>6. ResultsOf(t, i, 0)
  BY <1>1, <1>5 DEF ResultsOf
<1>7. \A k \in 1..(i - 1) : k \in 1..Len(s) /\ t[k] = s[k]
  BY <1>1
<1>8. PartAt(t, m.calls, i, 0)
  BY <1>1, <1>4, <1>5, <1>6, <1>7 DEF PartAt
<1> HIDE DEF i
<1>9. i \in DOMAIN t /\ 0 \in 0..Len(t[i].calls) /\ t[Len(t)].role = "assistant"
  BY <1>1, <1>5 DEF i
<1>10. Partial(t, m.calls)
  BY <1>1, <1>2, <1>8, <1>9 DEF Partial
<1> QED BY <1>10 DEF t

\* When no call is left the history is whole again.
LEMMA CallsEnd ==
    ASSUME NEW s \in Seq(Message), Partial(s, <<>>)
    PROVE  Whole(s)
<1>1. PICK i \in DOMAIN s : \E n \in 0..Len(s[i].calls) : PartAt(s, <<>>, i, n)
  BY DEF Partial
<1>2. PICK n \in 0..Len(s[i].calls) : PartAt(s, <<>>, i, n)
  BY <1>1
<1>3. DOMAIN s = 1..Len(s) /\ Len(s) \in Nat
  OBVIOUS
<1>4. n = Len(s[i].calls)
  BY <1>2 DEF PartAt
<1>5. \A k \in 1..(i - 1) : Len(s[k].calls) \in Nat /\ NamedUpTo(s[k], Len(s[k].calls)) \in Nat
  BY <1>3, CallsCounted
<1>6. ASSUME NEW k \in DOMAIN s, s[k].role = "assistant"
      PROVE  ResultsOf(s, k, Len(s[k].calls)) /\ k + NamedUpTo(s[k], Len(s[k].calls)) <= Len(s)
  <2>1. CASE k < i
    <3>1. k \in 1..(i - 1)
      BY <1>3, <2>1
    <3>2. ResultsOf(s, k, Len(s[k].calls)) /\ k + NamedUpTo(s[k], Len(s[k].calls)) < i
      BY <1>2, <1>6, <3>1 DEF PartAt
    <3>3. NamedUpTo(s[k], Len(s[k].calls)) \in Nat
      BY <1>5, <3>1
    <3> QED BY <1>3, <3>2, <3>3
  <2>2. CASE k = i
    BY <1>2, <1>3, <1>4, <2>2 DEF PartAt
  <2>3. CASE k > i
    BY <1>2, <1>3, <1>6, <2>3 DEF PartAt
  <2> QED BY <1>3, <2>1, <2>2, <2>3
<1> QED BY <1>6 DEF Whole, Partial

\* The calls that are left without the first of them.
OneLess(left, rest, c) ==
    /\ Len(rest) \in Nat /\ Len(left) = Len(rest) + 1
    /\ DOMAIN rest = 1..Len(rest) /\ DOMAIN left = 1..Len(left)
    /\ c = left[1] /\ \A k \in DOMAIN rest : rest[k] = left[k + 1]

LEMMA NextCall ==
    ASSUME NEW s, NEW left, NEW rest, NEW c, NEW i, NEW n \in Nat, PartAt(s, left, i, n),
           Len(s[i].calls) \in Nat, OneLess(left, rest, c)
    PROVE  /\ c = s[i].calls[n + 1] /\ n + 1 + Len(rest) = Len(s[i].calls)
           /\ \A k \in DOMAIN rest : rest[k] = s[i].calls[n + 1 + k]
           /\ NamedUpTo(s[i], n + 1) = NamedUpTo(s[i], n) + (IF c.name # Nameless THEN 1 ELSE 0)
           /\ NamedUpTo(s[i], n) \in Nat /\ NamedUpTo(s[i], n + 1) \in Nat
<1>1. /\ n + Len(left) = Len(s[i].calls)
      /\ \A k \in DOMAIN left : left[k] = s[i].calls[n + k]
  BY DEF PartAt
<1>2. n + 1 + Len(rest) = Len(s[i].calls)
  BY <1>1 DEF OneLess
<1>3. c = s[i].calls[n + 1]
  BY <1>1 DEF OneLess
<1>4. \A k \in DOMAIN rest : rest[k] = s[i].calls[n + 1 + k]
  <2> TAKE k \in DOMAIN rest
  <2>1. k + 1 \in DOMAIN left /\ n + (k + 1) = n + 1 + k
    BY DEF OneLess
  <2>2. left[k + 1] = s[i].calls[n + (k + 1)]
    BY <1>1, <2>1
  <2> QED BY <2>1, <2>2 DEF OneLess
<1>5. NamedUpTo(s[i], n) \in Nat /\ NamedUpTo(s[i], n + 1) \in Nat
  <2>1. n + 1 \in Nat
    OBVIOUS
  <2> QED BY <2>1, NamedCount
<1>6. NamedUpTo(s[i], n + 1) =
         NamedUpTo(s[i], n) + (IF s[i].calls[n + 1].name # Nameless THEN 1 ELSE 0)
  BY NamedCount
<1> QED BY <1>2, <1>3, <1>4, <1>5, <1>6

\* It had no name: nothing is added.
LEMMA PassedOver ==
    ASSUME NEW s, NEW left, NEW rest, NEW c, NEW i, NEW n \in Nat, PartAt(s, left, i, n),
           Len(s[i].calls) \in Nat, OneLess(left, rest, c), c.name = Nameless
    PROVE  PartAt(s, rest, i, n + 1)
<1>1. /\ c = s[i].calls[n + 1] /\ n + 1 + Len(rest) = Len(s[i].calls)
      /\ \A k \in DOMAIN rest : rest[k] = s[i].calls[n + 1 + k]
      /\ NamedUpTo(s[i], n + 1) = NamedUpTo(s[i], n)
  BY NextCall
<1>2. \A k \in 1..(n + 1) : k \in 1..n \/ k = n + 1
  OBVIOUS
<1>3. ResultsOf(s, i, n)
  BY DEF PartAt
<1>4. ResultsOf(s, i, n + 1)
  BY <1>1, <1>2, <1>3 DEF ResultsOf
<1> QED BY <1>1, <1>4 DEF PartAt

\* It had one: its result is added.
LEMMA ResultAdded ==
    ASSUME NEW s \in Seq(Message), NEW result \in Message, result.role = "tool",
           NEW left, NEW rest, NEW c, NEW i \in 1..Len(s), NEW n \in Nat, PartAt(s, left, i, n),
           Len(s[i].calls) \in Nat, OneLess(left, rest, c),
           c.name # Nameless, result.call = c.id
    PROVE  PartAt(Append(s, result), rest, i, n + 1)
<1> DEFINE t == Append(s, result)
<1>1. /\ DOMAIN t = 1..(Len(s) + 1) /\ Len(t) = Len(s) + 1 /\ Len(s) \in Nat
      /\ t[Len(s) + 1] = result /\ (\A k \in 1..Len(s) : t[k] = s[k]) /\ DOMAIN s = 1..Len(s)
  OBVIOUS
<1>2. /\ c = s[i].calls[n + 1] /\ n + 1 + Len(rest) = Len(s[i].calls)
      /\ \A k \in DOMAIN rest : rest[k] = s[i].calls[n + 1 + k]
      /\ NamedUpTo(s[i], n + 1) = NamedUpTo(s[i], n) + 1
      /\ NamedUpTo(s[i], n) \in Nat /\ NamedUpTo(s[i], n + 1) \in Nat
  <2>1. /\ c = s[i].calls[n + 1] /\ n + 1 + Len(rest) = Len(s[i].calls)
        /\ \A k \in DOMAIN rest : rest[k] = s[i].calls[n + 1 + k]
        /\ NamedUpTo(s[i], n) \in Nat /\ NamedUpTo(s[i], n + 1) \in Nat
    BY NextCall
  <2>2. NamedUpTo(s[i], n + 1) = NamedUpTo(s[i], n) + (IF c.name # Nameless THEN 1 ELSE 0)
    BY NextCall
  <2> QED BY <2>1, <2>2
<1>3. /\ \A k \in 1..(i - 1) : s[k].role = "assistant" =>
            /\ ResultsOf(s, k, Len(s[k].calls))
            /\ k + NamedUpTo(s[k], Len(s[k].calls)) < i
      /\ s[i].role = "assistant" /\ \A k \in (i + 1)..Len(s) : s[k].role # "assistant"
      /\ ResultsOf(s, i, n) /\ i + NamedUpTo(s[i], n) = Len(s)
  BY DEF PartAt
<1>n. i + NamedUpTo(s[i], n + 1) = Len(s) + 1
  <2> DEFINE before == NamedUpTo(s[i], n)
             now    == NamedUpTo(s[i], n + 1)
  <2>1. before \in Nat /\ now = before + 1 /\ i + before = Len(s)
    BY <1>2, <1>3
  <2> HIDE DEF before, now
  <2>2. i + now = Len(s) + 1
    BY <2>1
  <2> QED BY <2>2 DEF now
<1>4. \A k \in 1..(i - 1) : s[k].role = "assistant" => ResultsOf(t, k, Len(s[k].calls))
  <2> SUFFICES ASSUME NEW k \in 1..(i - 1), s[k].role = "assistant"
               PROVE  ResultsOf(t, k, Len(s[k].calls))
    OBVIOUS
  <2> DEFINE all == Len(s[k].calls)
  <2>1. k \in 1..Len(s) /\ k \in DOMAIN s
    BY <1>1
  <2>2. all \in Nat /\ NamedUpTo(s[k], all) \in Nat
    BY <2>1, CallsCounted
  <2>3. ResultsOf(s, k, all) /\ k + NamedUpTo(s[k], all) < i
    BY <1>3
  <2> HIDE DEF all
  <2>4. k + NamedUpTo(s[k], all) < Len(s)
    BY <1>1, <2>2, <2>3
  <2>5. ResultsOf(t, k, all)
    BY <2>1, <2>2, <2>3, <2>4, ResultsKept
  <2> QED BY <2>5 DEF all
<1> HIDE DEF t
<1>5. ResultsOf(t, i, n + 1)
  <2>1. ASSUME NEW k \in 1..(n + 1), s[i].calls[k].name # Nameless
        PROVE  LET j == i + NamedUpTo(s[i], k)
               IN  j \in DOMAIN t /\ t[j].role = "tool" /\ t[j].call = s[i].calls[k].id
    <3>1. CASE k = n + 1
      <4>1. i + NamedUpTo(s[i], k) = Len(s) + 1
        BY <1>n, <3>1
      <4> QED BY <1>1, <1>2, <3>1, <4>1
    <3>2. CASE k \in 1..n
      <4>1. i + NamedUpTo(s[i], k) \in DOMAIN s
        BY <1>3, <2>1, <3>2 DEF ResultsOf
      <4> QED BY <1>1, <1>3, <2>1, <3>2, <4>1 DEF ResultsOf
    <3> QED BY <3>1, <3>2
  <2>2. \A j \in DOMAIN t : j # i + NamedUpTo(s[i], n + 1) + 1
    BY <1>1, <1>n
  <2>3. t[i] = s[i]
    BY <1>1
  <2> QED BY <2>1, <2>2, <2>3 DEF ResultsOf
<1>6. \A k \in (i + 1)..Len(t) : t[k].role # "assistant"
  <2> TAKE k \in (i + 1)..Len(t)
  <2>1. k = Len(s) + 1 \/ k \in (i + 1)..Len(s)
    BY <1>1
  <2> QED BY <1>1, <1>3, <2>1
<1>7. i + NamedUpTo(s[i], n + 1) = Len(t)
  BY <1>1, <1>n
<1>8. t[i] = s[i] /\ \A k \in 1..(i - 1) : t[k] = s[k]
  BY <1>1
<1>9. PartAt(t, rest, i, n + 1)
  BY <1>2, <1>3, <1>4, <1>5, <1>6, <1>7, <1>8 DEF PartAt
<1> QED BY <1>9 DEF t

\* The next call has run: its result is behind the others, unless it has no name.
LEMMA CallRun ==
    ASSUME NEW s \in Seq(Message), NEW left \in Seq(Call), left # <<>>, Partial(s, left),
           NEW t, t = IF Head(left).name = Nameless THEN s ELSE Append(s, Result(Head(left).id))
    PROVE  Partial(t, Tail(left))
<1> DEFINE c == Head(left)
           rest == Tail(left)
           result == Result(c.id)
<1>1. PICK i \in DOMAIN s : \E n \in 0..Len(s[i].calls) : PartAt(s, left, i, n)
  BY DEF Partial
<1>2. i \in 1..Len(s) /\ Len(s) \in Nat
  OBVIOUS
<1>3. Len(s[i].calls) \in Nat
  BY <1>2, CallsCounted
<1>4. PICK n \in Nat : PartAt(s, left, i, n)
  BY <1>1, <1>3
<1>5. c \in Call /\ OneLess(left, rest, c)
  BY DEF OneLess
<1>6. result \in Message /\ result.role = "tool" /\ result.call = c.id
  BY <1>5, MessageTypes DEF Call
<1> HIDE DEF c, rest, result
<1>7. n + 1 + Len(rest) = Len(s[i].calls)
  BY <1>3, <1>4, <1>5, NextCall
<1>8. n + 1 \in 0..Len(s[i].calls)
  BY <1>3, <1>5, <1>7 DEF OneLess
<1>9. CASE c.name = Nameless
  <2>1. t = s
    BY <1>9 DEF c
  <2>2. PartAt(s, rest, i, n + 1)
    BY <1>3, <1>4, <1>5, <1>9, PassedOver
  <2> QED BY <1>8, <2>1, <2>2 DEF Partial, rest
<1>10. CASE c.name # Nameless
  <2>1. t = Append(s, result)
    BY <1>10 DEF c, result
  <2>2. /\ DOMAIN t = 1..(Len(s) + 1) /\ Len(t) = Len(s) + 1 /\ t # <<>>
        /\ t[Len(s) + 1] = result /\ t[i] = s[i]
    BY <1>2, <1>6, <2>1
  <2>3. ResultsPlaced(t)
    BY <1>6, <2>1, PlacedKept DEF Partial
  <2>4. PartAt(t, rest, i, n + 1)
    BY <1>2, <1>3, <1>4, <1>5, <1>6, <1>10, <2>1, ResultAdded
  <2>5. i \in DOMAIN t /\ n + 1 \in 0..Len(t[i].calls) /\ t[Len(t)].role = "tool"
    BY <1>2, <1>6, <1>8, <2>2
  <2> QED BY <2>2, <2>3, <2>4, <2>5 DEF Partial, rest
<1> QED BY <1>9, <1>10

-----------------------------------------------------------------------------
(* The steps, as long as requests do not overlap.                          *)

\* What is said while requests follow each other.
Quietly ==
    /\ \A q, r \in UnderWay : q = r
    /\ (\A r \in Requests : pc[r] # "run") => Whole(chatHistory)
    /\ \A r \in Requests : pc[r] = "run" => Partial(chatHistory, todo[r])
    /\ \A r \in Requests : Whole(sent[r])

Talk == ~overlap => Quietly

LEMMA OneMoves ==
    ASSUME IInv, NEW r \in Requests, NEW from, NEW to, Goes(r, from, to)
    PROVE  /\ pc[r] = from /\ pc'[r] = to /\ \A q \in Requests \ {r} : pc'[q] = pc[q]
           /\ from \in {"ask", "wait", "run"} /\ Quietly =>
                 \A q \in Requests \ {r} : pc[q] \notin {"ask", "wait", "run"}
BY DEF IInv, TypeOK, Goes, Quietly, UnderWay

\* A request moves, and no other one is under way.
LEMMA OnlyOne ==
    ASSUME NEW r \in Requests,
           \A q \in Requests \ {r} : pc'[q] = pc[q] /\ pc[q] \notin {"ask", "wait", "run"},
           pc'[r] = "run" => Partial(chatHistory', todo'[r]),
           pc'[r] # "run" => Whole(chatHistory'),
           \A q \in Requests : Whole(sent'[q])
    PROVE  Quietly'
<1>1. \A q \in UnderWay' : q = r
  BY DEF UnderWay
<1>2. (\A q \in Requests : pc'[q] # "run") => Whole(chatHistory')
  OBVIOUS
<1>3. \A q \in Requests : pc'[q] = "run" => Partial(chatHistory', todo'[q])
  OBVIOUS
<1> QED BY <1>1, <1>2, <1>3 DEF Quietly

LEMMA SayTalk == ASSUME IInv, NEW r \in Requests, Say(r), Talk PROVE Talk'
<1> SUFFICES ASSUME ~overlap' PROVE Quietly'
  BY DEF Talk
<1>1. ~overlap /\ UnderWay = {} /\ Quietly /\ UNCHANGED sent
  BY DEF Say, Talk
<1>2. pc'[r] = "ask" /\ \A q \in Requests \ {r} : pc'[q] = pc[q]
  BY OneMoves DEF Say
<1>3. \A q \in Requests : pc[q] \notin {"ask", "wait", "run"}
  BY <1>1 DEF UnderWay
<1>4. Whole(chatHistory) /\ chatHistory \in Seq(Message)
  BY <1>1, <1>3 DEF Quietly, IInv, TypeOK
<1>5. Whole(chatHistory')
  <2>1. CASE UNCHANGED chatHistory
    BY <1>4, <2>1
  <2>2. CASE Add(Text("user"))
    <3> DEFINE m == Text("user")
    <3>1. m \in Message /\ m.role = "user"
      BY MessageTypes
    <3> HIDE DEF m
    <3>2. Whole(Append(chatHistory, m))
      BY <1>4, <3>1, WholeKept
    <3> QED BY <2>2, <3>2 DEF Add, m
  <2> QED BY <2>1, <2>2 DEF Say
<1>6. \A q \in Requests : Whole(sent'[q])
  BY <1>1 DEF Quietly
<1> QED BY <1>2, <1>3, <1>5, <1>6, OnlyOne

LEMMA AskTalk == ASSUME IInv, NEW r \in Requests, Ask(r) \/ Fail(r), Talk PROVE Talk'
<1> SUFFICES ASSUME ~overlap' PROVE Quietly'
  BY DEF Talk
<1>1. ~overlap /\ Quietly /\ UNCHANGED chatHistory
  BY DEF Ask, Fail, Talk
<1>2. /\ pc[r] \in {"ask", "wait"} /\ pc'[r] \in {"wait", "failed"}
      /\ \A q \in Requests \ {r} : pc'[q] = pc[q] /\ pc[q] \notin {"ask", "wait", "run"}
  BY <1>1, OneMoves DEF Ask, Fail
<1>3. Whole(chatHistory)
  BY <1>1, <1>2 DEF Quietly
<1>4. \A q \in Requests : sent'[q] \in {sent[q], chatHistory, <<>>}
  BY DEF Ask, Fail, IInv, TypeOK
<1>5. \A q \in Requests : Whole(sent'[q])
  BY <1>1, <1>3, <1>4, NothingIsWhole DEF Quietly
<1> QED BY <1>1, <1>2, <1>3, <1>5, OnlyOne

LEMMA AnswerTalk == ASSUME IInv, NEW r \in Requests, Answer(r), Talk PROVE Talk'
<1> SUFFICES ASSUME ~overlap' PROVE Quietly'
  BY DEF Talk
<1>1. ~overlap /\ Quietly /\ Add(Text("assistant")) /\ sent' = [sent EXCEPT ![r] = <<>>]
  BY DEF Answer, Talk
<1>2. /\ pc[r] = "wait" /\ pc'[r] = "done"
      /\ \A q \in Requests \ {r} : pc'[q] = pc[q] /\ pc[q] \notin {"ask", "wait", "run"}
  BY <1>1, OneMoves DEF Answer
<1>3. Whole(chatHistory) /\ chatHistory \in Seq(Message)
  BY <1>1, <1>2 DEF Quietly, IInv, TypeOK
<1>4. Whole(chatHistory')
  <2> DEFINE m == Text("assistant")
  <2>1. m \in Message /\ m.role = "assistant" /\ m.calls = <<>>
    BY MessageTypes DEF Text
  <2> HIDE DEF m
  <2>2. Whole(Append(chatHistory, m))
    BY <1>3, <2>1, WholeKept
  <2> QED BY <1>1, <2>2 DEF Add, m
<1>5. \A q \in Requests : sent'[q] \in {sent[q], <<>>}
  BY <1>1 DEF IInv, TypeOK
<1>6. \A q \in Requests : Whole(sent'[q])
  BY <1>1, <1>5, NothingIsWhole DEF Quietly
<1> QED BY <1>2, <1>4, <1>6, OnlyOne

LEMMA CallToolsTalk == ASSUME IInv, NEW r \in Requests, CallTools(r), Talk PROVE Talk'
<1> SUFFICES ASSUME ~overlap' PROVE Quietly'
  BY DEF Talk
<1>1. ~overlap /\ Quietly /\ sent' = [sent EXCEPT ![r] = <<>>]
  BY DEF CallTools, Talk
<1>2. /\ pc[r] = "wait" /\ pc'[r] = "run"
      /\ \A q \in Requests \ {r} : pc'[q] = pc[q] /\ pc[q] \notin {"ask", "wait", "run"}
  BY <1>1, OneMoves DEF CallTools
<1>3. Whole(chatHistory) /\ chatHistory \in Seq(Message)
  BY <1>1, <1>2 DEF Quietly, IInv, TypeOK
<1>4. PICK calls \in Calls(r) : Add(WithCalls(calls)) /\ todo' = [todo EXCEPT ![r] = calls]
  BY DEF CallTools
<1>5. Partial(chatHistory', todo'[r])
  <2> DEFINE m == WithCalls(calls)
  <2>1. calls \in Seq(Call)
    BY CallsType DEF IInv
  <2>2. m \in Message /\ m.role = "assistant" /\ m.calls = calls
    BY <2>1, MessageTypes
  <2> HIDE DEF m
  <2>3. Partial(Append(chatHistory, m), m.calls)
    BY <1>3, <2>2, CallsBegin
  <2>4. todo'[r] = calls
    BY <1>4 DEF IInv, TypeOK
  <2> QED BY <1>4, <2>2, <2>3, <2>4 DEF Add, m
<1>6. \A q \in Requests : sent'[q] \in {sent[q], <<>>}
  BY <1>1 DEF IInv, TypeOK
<1>7. \A q \in Requests : Whole(sent'[q])
  BY <1>1, <1>6, NothingIsWhole DEF Quietly
<1> QED BY <1>2, <1>5, <1>7, OnlyOne

LEMMA RunTalk == ASSUME IInv, NEW r \in Requests, Execute(r), Talk PROVE Talk'
<1> SUFFICES ASSUME ~overlap' PROVE Quietly'
  BY DEF Talk
<1>1. /\ ~overlap /\ Quietly /\ UNCHANGED <<pc, sent>> /\ pc[r] = "run" /\ todo[r] # <<>>
      /\ todo'[r] = Tail(todo[r])
  BY DEF Execute, Talk, IInv, TypeOK
<1>2. \A q \in Requests \ {r} : pc'[q] = pc[q] /\ pc[q] \notin {"ask", "wait", "run"}
  BY <1>1 DEF Quietly, UnderWay
<1>3. Partial(chatHistory, todo[r]) /\ chatHistory \in Seq(Message) /\ todo[r] \in Seq(Call)
  BY <1>1 DEF Quietly, IInv, TypeOK
<1>4. chatHistory' = IF Head(todo[r]).name = Nameless THEN chatHistory
                     ELSE Append(chatHistory, Result(Head(todo[r]).id))
  BY DEF Execute, AddResult, Add
<1>5. Partial(chatHistory', todo'[r])
  <2> DEFINE s    == chatHistory
             left == todo[r]
             t    == chatHistory'
  <2> HIDE DEF s, left, t
  <2>1. /\ s \in Seq(Message) /\ left \in Seq(Call) /\ left # <<>> /\ Partial(s, left)
        /\ t = IF Head(left).name = Nameless THEN s ELSE Append(s, Result(Head(left).id))
    BY <1>1, <1>3, <1>4 DEF s, left, t
  <2>2. Partial(t, Tail(left))
    BY <2>1, CallRun
  <2> QED BY <1>1, <2>2 DEF left, t
<1>6. \A q \in Requests : Whole(sent'[q])
  BY <1>1 DEF Quietly
<1> QED BY <1>1, <1>2, <1>5, <1>6, OnlyOne

LEMMA RecurseTalk == ASSUME IInv, NEW r \in Requests, Recurse(r), Talk PROVE Talk'
<1> SUFFICES ASSUME ~overlap' PROVE Quietly'
  BY DEF Talk
<1>1. ~overlap /\ Quietly /\ UNCHANGED <<chatHistory, sent>> /\ todo[r] = <<>>
  BY DEF Recurse, Talk
<1>2. /\ pc[r] = "run" /\ pc'[r] = "ask"
      /\ \A q \in Requests \ {r} : pc'[q] = pc[q] /\ pc[q] \notin {"ask", "wait", "run"}
  BY <1>1, OneMoves DEF Recurse
<1>3. Partial(chatHistory, <<>>) /\ chatHistory \in Seq(Message)
  BY <1>1, <1>2 DEF Quietly, IInv, TypeOK
<1>4. Whole(chatHistory)
  BY <1>3, CallsEnd
<1>5. \A q \in Requests : Whole(sent'[q])
  BY <1>1 DEF Quietly
<1> QED BY <1>1, <1>2, <1>4, <1>5, OnlyOne

LEMMA ClearTalk == ASSUME IInv, ClearChatHistory, Talk PROVE Talk'
<1> SUFFICES ASSUME ~overlap' PROVE Quietly'
  BY DEF Talk
<1>1. ~overlap /\ UnderWay = {} /\ Quietly /\ UNCHANGED <<pc, sent, todo>> /\ chatHistory' = <<>>
  BY DEF ClearChatHistory, Talk
<1>2. \A r \in Requests : pc[r] # "run"
  BY <1>1 DEF UnderWay
<1>3. UnderWay' = {}
  BY <1>1 DEF UnderWay
<1>4. Whole(chatHistory')
  BY <1>1, NothingIsWhole
<1>5. \A r \in Requests : Whole(sent'[r])
  BY <1>1 DEF Quietly
<1> QED BY <1>1, <1>2, <1>3, <1>4, <1>5 DEF Quietly

\* While requests follow each other, what is sent for one is a conversation:
\* each answer with calls has their results right behind it, in order, and no
\* result is anywhere else.  The answer that is last in the history has those of
\* the calls that have run, and nobody asks before all have.
THEOREM ConversationsAreWhole == Spec => []Conversation
<1>1. Init => IInv /\ Talk
  <2> SUFFICES ASSUME Init PROVE IInv /\ Talk
    OBVIOUS
  <2>1. TypeOK
    BY TypeInit
  <2>2. DOMAIN chatHistory = {} /\ \A r \in Requests : DOMAIN todo[r] = {}
    BY DEF Init
  <2>3. IInv
    BY <2>1, <2>2 DEF IInv, Pending, PendingOf, Earlier, ResultsFollowCalls
  <2>4. Talk
    BY NothingIsWhole DEF Init, Talk, Quietly, UnderWay
  <2> QED BY <2>3, <2>4
<1>2. IInv /\ Talk /\ [Next]_vars => Talk'
  <2> SUFFICES ASSUME IInv, Talk, [Next]_vars PROVE Talk'
    OBVIOUS
  <2>1. CASE UNCHANGED vars
    BY <2>1 DEF vars, Talk, Quietly, UnderWay
  <2> QED BY <2>1, SayTalk, AskTalk, AnswerTalk, CallToolsTalk, RunTalk, RecurseTalk, ClearTalk DEF Next
<1>3. Talk => Conversation
  BY DEF Talk, Quietly, Whole, Conversation
<1> QED BY <1>1, <1>2, <1>3, InvStep, PTL DEF Spec
=============================================================================
