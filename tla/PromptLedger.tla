---------------------------- MODULE PromptLedger ----------------------------
(***************************************************************************)
(* What the agent promises about the prompts it is given                   *)
(* (llm/agent/agent.go, Run and the two drains of processGeneration): a    *)
(* prompt is accepted once, then either recorded in the history of the     *)
(* session it was sent to, once, or dropped for good.  The log of a        *)
(* session only grows.  How prompts wait, and which run records them, is   *)
(* left to AgentRuns.                                                      *)
(***************************************************************************)
EXTENDS Sequences

CONSTANTS Calls, Sessions, SessionOf

VARIABLES
    status,     \* what became of the prompt of each call
    log         \* the prompts recorded in each session

Statuses == {"unsent", "accepted", "recorded", "dropped"}

TypeOK ==
    /\ status \in [Calls -> Statuses]
    /\ log \in [Sessions -> Seq(Calls)]

Init ==
    /\ status = [p \in Calls |-> "unsent"]
    /\ log = [s \in Sessions |-> <<>>]

Accept(p) ==
    /\ status[p] = "unsent"
    /\ status' = [status EXCEPT ![p] = "accepted"]
    /\ UNCHANGED log

\* The prompts of `lost` are dropped with p recorded in the same step: a run
\* that panics while it records one loses those behind it.
Record(p, lost) ==
    /\ status[p] = "accepted" /\ p \notin lost
    /\ \A q \in lost : status[q] = "accepted"
    /\ status' = [q \in Calls |-> IF q = p THEN "recorded"
                                  ELSE IF q \in lost THEN "dropped" ELSE status[q]]
    /\ log' = [log EXCEPT ![SessionOf[p]] = Append(@, p)]

Drop(lost) ==
    /\ lost # {}
    /\ \A q \in lost : status[q] = "accepted"
    /\ status' = [q \in Calls |-> IF q \in lost THEN "dropped" ELSE status[q]]
    /\ UNCHANGED log

Next ==
    \/ \E p \in Calls : Accept(p)
    \/ \E p \in Calls, lost \in SUBSET Calls : Record(p, lost)
    \/ \E lost \in SUBSET Calls : Drop(lost)

Spec == Init /\ [][Next]_<<status, log>>
=============================================================================
