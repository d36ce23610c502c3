---------------------------- MODULE MCAgentRuns ----------------------------
(***************************************************************************)
(* Small instances of AgentRuns: three calls of one session, one of them   *)
(* with an empty prompt, or two.                                           *)
(***************************************************************************)
EXTENDS AgentRuns, TLC

CONSTANTS c1, c2, c3, s1

\* Two prompts can wait while a run goes on.
SameSession  == (c1 :> s1) @@ (c2 :> s1) @@ (c3 :> s1)

\* The run with three calls leaves CancelAll to the one with two: it is a
\* sequence of the Cancel steps the former does take.
NoSweep == sweep = "off"

\* In SameSession, with c2 the only empty prompt, c1 and c3 play one part.
Alike == Permutations({c1, c3})

\* One run, and a prompt that waits or a second run that was not held back.
OnePair == (c1 :> s1) @@ (c2 :> s1)
=============================================================================
