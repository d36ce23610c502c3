---------------------------- MODULE MCGeneration ----------------------------
(***************************************************************************)
(* Small instances of Generation: one or two queued prompts, one of them   *)
(* empty, up to two tool calls a message, one of them to an unknown tool,  *)
(* and sessions that are new, have a summary, or a call without an answer. *)
(***************************************************************************)
EXTENDS Generation, TLC

CONSTANTS run, q1, q2, t1, t2

\* A known tool, then an unknown one; a stream may stop short of either.
Prefixes == {<<>>, <<t1>>, <<t1, t2>>}

Fresh == [rows |-> <<>>, summary |-> 0]

Talk == <<[Blank EXCEPT !.role = "user", !.finish = "stop"],
          [Blank EXCEPT !.finish = "end_turn"]>>

Summarised == [rows |-> Talk, summary |-> 2]

\* A run was cancelled in a stream that had begun a call.
CutOff == [rows |-> <<Talk[1], [Blank EXCEPT !.calls = <<t1>>, !.finish = "canceled"]>>,
           summary |-> 0]

ThreeStarts == {Fresh, Summarised, CutOff}
OnlyFresh == {Fresh}

\* What the theorems about a run ask of the session it starts from.
ASSUME StoredInOrder == StoredComplete /\ StoredAnswered /\ StoredFinished
=============================================================================
