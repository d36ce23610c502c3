--------------------------- MODULE MCSessionStore ---------------------------
(***************************************************************************)
(* One top-level session and one task session under it: two turns of the   *)
(* first (they may overlap, see AgentRuns) and one of the second, two      *)
(* messages, and a user who deletes.                                       *)
(***************************************************************************)
EXTENDS SessionStore, TLC

CONSTANTS r1, k1, u1, u2, u3, m1, m2, d1

Parents    == (k1 :> r1)

\* The messages are interchangeable, and so are the turns of one session.
Alike      == Permutations({m1, m2}) \cup Permutations({u1, u2})

WhoseTurns == (u1 :> r1) @@ (u2 :> r1) @@ (u3 :> k1)
=============================================================================
