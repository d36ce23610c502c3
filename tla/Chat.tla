-------------------------------- MODULE Chat ---------------------------------
(***************************************************************************)
(* The chat program (chat-new): requests that append to one history as     *)
(* they go, ask the provider with a copy of it and run the functions it    *)
(* calls, one after the other, before they ask again.  A lock guards each  *)
(* access to the history and nothing more.                                 *)
(*                                                                         *)
(* A message is [role, calls, call]: calls are the calls of an assistant,  *)
(* as pairs of identifier and name; call is the identifier a result is for.*)
(***************************************************************************)
EXTENDS Naturals, Sequences, FiniteSets

CONSTANTS Requests,   \* calls of SendChatMessageWithTools from outside
          Functions,  \* the names that are registered
          Unknown,    \* a name that is not
          Nameless,   \* no name at all
          MaxCalls,   \* how many calls an answer has,
          MaxRounds,  \* how many answers of a request have calls,
          MaxClears   \* and how often the history is cleared

ASSUME ChatAssumption == Unknown \notin Functions /\ Nameless \notin Functions \cup {Unknown}

VARIABLES
    chatHistory,
    pc,      \* where each request is: "new", "ask", "wait", "run", "done", "failed"
    sent,    \* the messages it has sent and waits for an answer to
    todo,    \* the calls it still has to run
    rounds,  \* how many answers with calls it had
    clears,
    overlap  \* history: two requests were under way at once

vars == <<chatHistory, pc, sent, todo, rounds, clears, overlap>>

NoCall == <<>>
Text(role)        == [role |-> role, calls |-> <<>>, call |-> NoCall]
WithCalls(calls)  == [Text("assistant") EXCEPT !.calls = calls]
Result(id)        == [Text("tool") EXCEPT !.call = id]

Names    == Functions \cup {Unknown, Nameless}
Ids      == Requests \X Nat \X Nat
Call     == [id : Ids, name : Names]
Message  == [role : {"user", "assistant", "tool"}, calls : Seq(Call), call : Ids \cup {NoCall}]
UnderWay == {r \in Requests : pc[r] \in {"ask", "wait", "run"}}

Init ==
    /\ chatHistory = <<>>
    /\ pc     = [r \in Requests |-> "new"]
    /\ sent   = [r \in Requests |-> <<>>]
    /\ todo   = [r \in Requests |-> <<>>]
    /\ rounds = [r \in Requests |-> 0]
    /\ clears = 0 /\ overlap = FALSE

TypeOK ==
    /\ chatHistory \in Seq(Message)
    /\ pc \in [Requests -> {"new", "ask", "wait", "run", "done", "failed"}]
    /\ sent \in [Requests -> Seq(Message)]
    /\ todo \in [Requests -> Seq(Call)]
    /\ rounds \in [Requests -> Nat]
    /\ clears \in Nat /\ overlap \in BOOLEAN

Goes(r, from, to) == pc[r] = from /\ pc' = [pc EXCEPT ![r] = to]
Add(m)            == chatHistory' = Append(chatHistory, m)

\* The message of the user, unless it is empty.
Say(r) ==
    /\ Goes(r, "new", "ask")
    /\ Add(Text("user")) \/ UNCHANGED chatHistory
    /\ overlap' = (overlap \/ UnderWay # {})
    /\ UNCHANGED <<sent, todo, rounds, clears>>

\* GetChatHistory copies, and the copy is sent.
Ask(r) ==
    /\ Goes(r, "ask", "wait")
    /\ sent' = [sent EXCEPT ![r] = chatHistory]
    /\ UNCHANGED <<chatHistory, todo, rounds, clears, overlap>>

\* No answer, or one without choices: what was said stays.
Fail(r) ==
    /\ Goes(r, "wait", "failed")
    /\ sent' = [sent EXCEPT ![r] = <<>>]
    /\ UNCHANGED <<chatHistory, todo, rounds, clears, overlap>>

Answer(r) ==
    /\ Goes(r, "wait", "done")
    /\ Add(Text("assistant"))
    /\ sent' = [sent EXCEPT ![r] = <<>>]
    /\ UNCHANGED <<todo, rounds, clears, overlap>>

Calls(r) == UNION {{[i \in 1..n |-> [id |-> <<r, rounds[r], i>>, name |-> f[i]]] : f \in [1..n -> Names]} : n \in 1..MaxCalls}

\* Variant: the answer that has the calls is not kept.
CallToolsOnly(r) ==
    /\ Goes(r, "wait", "run")
    /\ rounds[r] < MaxRounds /\ rounds' = [rounds EXCEPT ![r] = @ + 1]
    /\ todo' \in {[todo EXCEPT ![r] = calls] : calls \in Calls(r)}
    /\ sent' = [sent EXCEPT ![r] = <<>>]
    /\ UNCHANGED <<chatHistory, clears, overlap>>

CallTools(r) ==
    /\ Goes(r, "wait", "run")
    /\ rounds[r] < MaxRounds /\ rounds' = [rounds EXCEPT ![r] = @ + 1]
    /\ \E calls \in Calls(r) : Add(WithCalls(calls)) /\ todo' = [todo EXCEPT ![r] = calls]
    /\ sent' = [sent EXCEPT ![r] = <<>>]
    /\ UNCHANGED <<clears, overlap>>

\* Variant: what failed has no result.
AddSuccess(c, ok) == IF c.name # Nameless /\ ok THEN Add(Result(c.id)) ELSE UNCHANGED chatHistory

\* A call without a name is passed over; any other has its result or its error.
AddResult(c, ok) == IF c.name # Nameless THEN Add(Result(c.id)) ELSE UNCHANGED chatHistory

\* A function nobody registered fails, and so may any other one.
Execute(r) ==
    /\ pc[r] = "run" /\ todo[r] # <<>>
    /\ \E ok \in BOOLEAN :
          /\ ok => Head(todo[r]).name \in Functions
          /\ AddResult(Head(todo[r]), ok)
    /\ todo' = [todo EXCEPT ![r] = Tail(@)]
    /\ UNCHANGED <<pc, sent, rounds, clears, overlap>>

\* When all have run, the request asks again.
Recurse(r) ==
    /\ todo[r] = <<>>
    /\ Goes(r, "run", "ask")
    /\ UNCHANGED <<chatHistory, sent, todo, rounds, clears, overlap>>

ClearChatHistory ==
    /\ clears < MaxClears /\ clears' = clears + 1
    /\ chatHistory' = <<>>
    /\ overlap' = (overlap \/ UnderWay # {})
    /\ UNCHANGED <<pc, sent, todo, rounds>>

Next ==
    \/ \E r \in Requests :
          \/ Say(r) \/ Ask(r) \/ Fail(r) \/ Answer(r) \/ CallTools(r) \/ Execute(r) \/ Recurse(r)
    \/ ClearChatHistory

Spec == Init /\ [][Next]_vars

-----------------------------------------------------------------------------
(* What must hold.                                                         *)

\* How many of the first n calls of a message have a name.
NamedUpTo(m, n) == Cardinality({k \in 1..n : m.calls[k].name # Nameless})

\* The first n calls of the answer at i have their results right behind it, in
\* order, and no other result comes after those.
ResultsOf(s, i, n) ==
    /\ \A k \in 1..n : s[i].calls[k].name # Nameless =>
          LET j == i + NamedUpTo(s[i], k)
          IN  j \in DOMAIN s /\ s[j].role = "tool" /\ s[j].call = s[i].calls[k].id
    /\ \A j \in DOMAIN s : j = i + NamedUpTo(s[i], n) + 1 => s[j].role # "tool"

\* Every result is behind an answer or another result.
ResultsPlaced(s) ==
    \A j \in DOMAIN s : s[j].role = "tool" => j > 1 /\ s[j - 1].role \in {"assistant", "tool"}

\* What is sent for a request is a conversation a provider accepts: each answer
\* with calls is followed by their results, in order and without anything in
\* between, and there are no other results (chat.go:271-290).  This is so while
\* requests follow each other, whether they fail or not, and the history is
\* cleared between them; a call without a name remains without a result.
Conversation ==
    ~overlap => \A r \in Requests :
        /\ ResultsPlaced(sent[r])
        /\ \A i \in DOMAIN sent[r] :
              sent[r][i].role = "assistant" => ResultsOf(sent[r], i, Len(sent[r][i].calls))

\* Even when requests overlap, each call has one result at most, and a result
\* is after the answer that has its call as long as nothing is cleared: they
\* share the history but not their calls (chat.go:146-169).
ResultsFollowCalls ==
    \A j \in DOMAIN chatHistory : chatHistory[j].role = "tool" =>
        /\ \A k \in 1..(j - 1) : chatHistory[k].call # chatHistory[j].call
        /\ clears = 0 => \E i \in 1..(j - 1) : \E n \in DOMAIN chatHistory[i].calls :
                             chatHistory[i].calls[n].id = chatHistory[j].call
=============================================================================
